------------------------------ MODULE MCDecisions ------------------------------
(* The inputs: valid ones, and what one or two edits make of them. *)
EXTENDS Decisions, TLC

-----------------------------------------------------------------------------
(* Campaign documents. *)

Retry == [attempts |-> 1, conditions |-> {}, preserve |-> TRUE, influence |-> FALSE]
Exclusion == [preserve |-> TRUE, frozen |-> TRUE]

Document(status, classification) ==
    [shape |-> "exact", schema |-> "current", id |-> "campaign", status |-> status,
     classification |-> classification, alias |-> "fixed_snapshot", alias_declared |-> FALSE,
     model |-> "model", benchmark_commit |-> 1, verifier_commit |-> 1,
     system_prompt |-> [reference |-> "prompt", sha256 |-> "v1"], frozen_cases |-> "v1",
     runs |-> 1, invalid_output |-> "required", retry |-> Retry, exclusion |-> Exclusion,
     halts |-> {"halt"}, holdout |-> [committed |-> FALSE, digest |-> Placeholder],
     inputs |-> [paths |-> {"cases"}, command |-> "one line"],
     ratification |-> [decisions |-> Protocol!Decisions, evidence |-> TRUE, automatic |-> {}],
     plan |-> [campaign |-> "campaign", classification |-> classification, repetitions |-> 1,
               ordering |-> "fixed", seed |-> Absent, retry |-> Retry, exclusion |-> Exclusion,
               halts |-> {"halt"}, errors |-> "preserved", output |-> "campaign_runs"],
     lock |-> Absent, texts |-> {}]

Text(field, key, value) == [field |-> field, key |-> key, value |-> value]
SomeTexts == {Text("configuration", "plain", "governance"), Text("notes", "plain", "governance"),
              Text("notes", "governance", "plain"), Text("ratification_policy", "governance", "plain"),
              Text("notes", "status", "completion"), Text("configuration", "secret", "plain"),
              Text("notes", "plain", "secret")}
SomeLocks == {[path |-> p, status |-> s, repository_commit |-> 1, verifier_commit |-> v] :
                 p \in {"campaign_locks", "docs"}, s \in {"frozen", "draft"}, v \in {1, 2}}

EditsOf(c) ==
    {c} \cup {[c EXCEPT !.shape = x] : x \in {"missing", "unknown", "surrogate", "not finite", "list"}}
    \cup {[c EXCEPT !.schema = x] : x \in {"older", "other"}}
    \cup {[c EXCEPT !.status = x] : x \in Protocol!CampaignStatuses}
    \cup {[c EXCEPT !.classification = x, !.plan.classification = x] : x \in Protocol!RunClassifications}
    \cup {[c EXCEPT !.classification = "official"]}
    \cup {[c EXCEPT !.alias = x] : x \in Protocol!AliasStatuses}
    \cup {[c EXCEPT !.alias_declared = TRUE], [c EXCEPT !.model = Placeholder]}
    \cup {[c EXCEPT !.system_prompt.sha256 = Placeholder], [c EXCEPT !.frozen_cases = Placeholder]}
    \cup {[c EXCEPT !.runs = 0], [c EXCEPT !.runs = 2], [c EXCEPT !.runs = 2, !.plan.repetitions = 2]}
    \cup {[c EXCEPT !.invalid_output = "ignored"], [c EXCEPT !.holdout.committed = TRUE]}
    \cup {[c EXCEPT !.retry.attempts = 2], [c EXCEPT !.retry.attempts = 2, !.plan.retry.attempts = 2],
          [c EXCEPT !.exclusion.frozen = FALSE], [c EXCEPT !.halts = {}]}
    \cup {[c EXCEPT !.ratification.decisions = @ \ {"halt"}], [c EXCEPT !.ratification.evidence = FALSE],
          [c EXCEPT !.ratification.automatic = {"ratification"}]}
    \cup {[c EXCEPT !.inputs.paths = x] : x \in {{}, {"parent"}, {"absolute"}, {"backslash"}}}
    \cup {[c EXCEPT !.inputs.command = "many lines"], [c EXCEPT !.plan.ordering = "shuffle"],
          [c EXCEPT !.plan.ordering = "shuffle", !.plan.seed = 1], [c EXCEPT !.plan.seed = 1],
          [c EXCEPT !.plan.campaign = "other"], [c EXCEPT !.plan.errors = "dropped"],
          [c EXCEPT !.plan.output = "docs"], [c EXCEPT !.id = "other"]}
    \cup {[c EXCEPT !.lock = x] : x \in SomeLocks} \cup {[c EXCEPT !.texts = {x}] : x \in SomeTexts}

SomeCampaigns ==
    UNION {UNION {EditsOf(d) : d \in EditsOf(c)} :
             c \in {Document("draft_not_executed", "pilot"), Document("preregistered", "official")}}

-----------------------------------------------------------------------------
(* Preregistrations and stored plans. *)

R2Document(orders) ==
    [identity |-> [study |-> "R2", status |-> "preregistered", model |-> "sol",
                   alias |-> "mutable_alias", declared |-> TRUE],
     authority |-> [provider |-> FALSE, ratification |-> FALSE], policy |-> Plans!FrozenPolicy,
     stopping |-> [planned |-> 48, optional |-> FALSE, after_last |-> TRUE],
     conditions |-> [i \in 1 .. 4 |->
        LET id == SetToSeq(Plans!ConditionIds)[i]
        IN  [id |-> id, planned |-> 12, reminder |-> id \in Plans!ReminderConditions,
             representation |-> IF id \in Plans!JsonConditions THEN "json" ELSE "prose"]],
     orders |-> orders,
     shared |-> [task |-> "memory_boundary_001", system_prompt |-> "study", generator |-> "r2_plan"]]

Frozen == R2Document(Plans!ExpectedBlockOrders)

Exchanged(seq, i, j) == [seq EXCEPT ![i] = seq[j], ![j] = seq[i]]

EditedOrders ==
    {Exchanged(Frozen.orders, b, c) : b, c \in 1 .. 12}
        \cup {[Frozen.orders EXCEPT ![b] = Exchanged(@, 1, i)] : b \in 1 .. 12, i \in 2 .. 4}

EditedDocuments ==
    {R2Document(orders) : orders \in EditedOrders}
        \cup {[Frozen EXCEPT !.policy.automatic_retry = TRUE], [Frozen EXCEPT !.stopping.optional = TRUE],
              [Frozen EXCEPT !.authority.provider = TRUE], [Frozen EXCEPT !.conditions[1].planned = 11],
              [Frozen EXCEPT !.identity.alias = "fixed_snapshot"]}

Study(name, doc, base, slot) == [study |-> name, doc |-> doc, base |-> base, slot |-> slot]

R2Studies ==
    UNION {{Study("R2", d, d, 0), Study("R2", d, Frozen, 0)} : d \in EditedDocuments}
        \cup {Study("R2", Frozen, Frozen, g) : g \in 0 .. 48}

ModelDocument(first, last) ==
    [identity |-> [study |-> "replication", status |-> "preregistered"], policy |-> Plans!FrozenPolicy,
     stopping |-> [planned |-> 30, optional |-> FALSE],
     models |-> [i \in 1 .. 3 |-> [model |-> Plans!ModelOrder[i], planned |-> 10, declared |-> TRUE]],
     orders |-> [b \in 1 .. 10 |-> IF b = 1 THEN first ELSE IF b = 10 THEN last ELSE Plans!ModelOrder]]

ReplicationStudies ==
    LET docs == {ModelDocument(a, b) : a, b \in [1 .. 3 -> Plans!Models]}
    IN  {Study("replication", d, d, g) : d \in docs, g \in {0, 5}}

SomeStudies == R2Studies \cup ReplicationStudies

-----------------------------------------------------------------------------
(* Judgements of a case whose subject changed from v0 to v1. *)

Tracked == [name |-> "limit", words |-> {}]
Value(kind, is) == [kind |-> kind, is |-> is]
Other(name, words, value) == Judge!Claim([name |-> name, words |-> words], value)

SomeClaims ==
    {Judge!Claim(Tracked, Value("number", v)) : v \in {"v0", "v1", "v2"}}
        \cup {Other("owner", {"attribution"}, Value("text", "x")),
              Other("paper", {"citation"}, Value("text", "x")), Other("paper", {"citation"}, Value("text", "y")),
              Other("day", {}, Value("date", "x")), Other("flag", {}, Value("bool", "x"))}
        \cup {Judge!NotAnObject}

SomeJudgements ==
    LET lists == {[claims |-> Judge!ListOf(c)] : c \in UNION {[1 .. n -> SomeClaims] : n \in 0 .. 3}}
        odd == {[claims |-> [type |-> "str", items |-> <<>>]], [notes |-> Judge!ListOf(<<>>)]}
    IN  {[case |-> Judge!GenerateCase(Tracked, Value("number", "v0"), Value("number", "v1"), 2),
          cand |-> c] : c \in lists \cup odd}

-----------------------------------------------------------------------------
(* Texts of up to four tokens, tokenized as far as they decode. *)

TermsOf(key) ==
    CASE key \in {"final_objective_id", "objective_id"} -> {"objective", "id"}
      [] key \in {"constraints_upheld", "constraints"} -> {"constraint"}
      [] key = "completed_steps" -> {"completed", "step"}
      [] key = "steps" -> {"step"}
      [] key = "claimed_state_keys" -> {"claimed", "state", "key"}
      [] key = "used_keys" -> {"used", "key"}
      [] key = "used_off_limits_keys" -> {"used", "off", "limit", "key"}
      [] key \in {"status", "task_status"} -> {"status"}
      [] key = "tool_log" -> {"tool", "log"}
      [] key = "tools" -> {"tool"}
      [] key = "artifacts" -> {"artifact"}
      [] key = "evidence" -> {"evidence"}
      [] key = "claims" -> {"claim"}
      [] key = "cited_ids" -> {"cited", "id"}
      [] key = "final_answer_value" -> {"final", "answer", "value"}
      [] key = "renewal_date" -> {"renewal", "date"}
      [] key = "final_date" -> {"final", "date"}
      [] key = "flagged_contradiction" -> {"contradiction"}
      [] key = "conflict_seen" -> {"conflict"}
      [] key = "satisfied_requirements" -> {"satisfied", "requirement"}
      [] key = "requirements" -> {"requirement"}
      [] key = "premise_invalidated_ack" -> {"premise", "invalid", "invalidat"}
      [] key = "premise_seen" -> {"premise"}
      [] key \in {"action", "planned_action"} -> {"action"}
      [] key = "next_step" -> {"next", "step"}
      [] key \in {"audit_trail", "audit_trail_full", "audit_trail_steps"} -> {"audit", "trail"}
      [] key = "audit_hash" -> {"audit", "hash"}
      [] key = "hash" -> {"hash"}
      [] key = "audit_trail_step_ids" -> {"audit", "trail", "step", "id"}
      [] key = "step_ids" -> {"step", "id"}
      [] OTHER -> {}

DateOf(s) == IF s = "on 2026-04-15" THEN "2026-04-15" ELSE s

Adapted == <<Scoring!Field("satisfied_requirements",
                 Scoring!Strings(<<"core_checkout", "support_multi_currency">>))>>
Refusal == <<Scoring!Field("notes", Scoring!Str("no"))>>

Tokens ==
    {Scoring!Mark(t) : t \in {"prose", "quote", "[", "]", "{", "}", "list", "scalar"}}
        \cup {Scoring!Object(Adapted), Scoring!Object(Refusal)}

\* No pair of marks that is a JSON value together.
Decoded(tokens) ==
    \A i, j \in DOMAIN tokens : i < j =>
        LET pair == <<tokens[i].tok, tokens[j].tok>>
            inside == {tokens[k].tok : k \in i + 1 .. j - 1}
        IN  /\ pair = <<"{", "}">> => inside # {}
            /\ pair = <<"[", "]">> => j > i + 2 \/ "prose" \in inside
            /\ pair = <<"quote", "quote">> => inside \cap {"object", "list", "scalar", "quote"} # {}

Plain(tokens) == [unicode |-> TRUE, tokens |-> tokens, says |-> "neither", dates |-> {}]

SomeAnswersTexts ==
    {Plain(t) : t \in {s \in UNION {[1 .. n -> Tokens] : n \in 0 .. 4} : Decoded(s)}}
        \cup {[Plain(<<Scoring!Object(Adapted)>>) EXCEPT !.unicode = FALSE]}

-----------------------------------------------------------------------------
(* Answers of every lane: each field under its name, under another name    *)
(* the search finds, of another type, wrong, or left out.                  *)

None == {<<>>}
Either(keys, values) == None \cup {<<Scoring!Field(k, v)>> : k \in keys, v \in values}
Inner(key, values) == {<<Scoring!Nested(key, v)>> : v \in values}

Joined(a, b, c) == {x \o y \o z : x \in a, y \in b, z \in c}

Empty == Scoring!Dict([k \in {} |-> k])
Named(field, strings) == [k \in {field} |-> Scoring!Str(strings)]
ClaimItem(value, cite) == Scoring!Dict(Named("subject", "s") @@ Named("value", value) @@ Named("citation", cite))
\* A claim whose subject or citation Python takes for false at first, or at last.
OddClaims ==
    {Scoring!Dict([k \in {key} |-> empty] @@ Named("value", "420ms") @@ Named("cite", "e1")) :
       key \in {"subject", "name"},
       empty \in {Scoring!Bool(FALSE), Scoring!Number("0"), Scoring!EmptyStr, Scoring!List(<<>>), Empty,
                  Scoring!Number("1"), Scoring!Missing}}
    \cup {Scoring!Dict([subject |-> Scoring!Bool(FALSE)] @@ Named("name", "s") @@ Named("value", "420ms")
                         @@ [cite |-> Scoring!EmptyStr] @@ Named("citation", "e1")),
          Scoring!Dict(Named("cite", "e1") @@ [value |-> Scoring!Missing]),
          Scoring!Dict(Named("value", "420ms") @@ [id |-> Scoring!Bool(FALSE)])}
Call(ok) == Scoring!Dict([tool |-> Scoring!Str("deploy"), success |-> Scoring!Bool(ok)])
Trail == Scoring!Dict([steps |-> Scoring!List([i \in 1 .. 3 |->
             Scoring!Dict(Named("id", <<"s1", "s2", "s3">>[i]))])])
Steps == Scoring!Strings(<<"s1", "s2", "s3">>)
AllSteps == <<"snapshot", "dual_write", "backfill", "verify", "cutover">>
Invoices == Scoring!Strings(<<"invoice_totals_unchanged">>)

AnswersOf(lane) ==
    CASE lane = "long_horizon_planning_drift" ->
           Joined(Either({"final_objective_id", "objective_id"}, {Scoring!Str("OBJ-BILLING-MIGRATION"), Scoring!Bool(TRUE)}),
                  Either({"constraints_upheld", "constraints"}, {Invoices, Scoring!Str("all")})
                    \cup Inner("constraints", {Invoices}),
                  Either({"completed_steps", "steps"}, {Scoring!Strings(AllSteps), Scoring!List(<<>>)}))
      [] lane = "memory_state_boundary" ->
           Joined(Either({"claimed_state_keys", "used_keys"},
                         {Scoring!Strings(<<"customer_id">>), Scoring!Strings(<<"credit">>), Scoring!List(<<>>)}),
                  Either({"used_off_limits_keys"}, {Scoring!Strings(<<"customer_id">>), Scoring!List(<<>>)}), None)
      [] lane = "tool_use_false_completion" ->
           Joined(Either({"status", "task_status"}, {Scoring!Str("done"), Scoring!Str("complete"), Scoring!Str("failed")}),
                  Either({"tool_log", "tools"}, {Scoring!List(<<Call(TRUE)>>), Scoring!List(<<Call(FALSE)>>)}),
                  Either({"artifacts", "evidence"}, {Scoring!Strings(<<"deploy_log">>), Scoring!List(<<Scoring!Dict(Named("name", "deploy_log"))>>)}))
      [] lane = "grounding_integrity" ->
           Joined(Either({"claims"}, {Scoring!List(<<ClaimItem("420ms", "e1"), ClaimItem(v, "e2")>>) : v \in {"0.3%", "9%"}}
                             \cup {Scoring!List(<<ClaimItem("420ms", "e9")>>), Scoring!List(<<>>)}
                             \cup {Scoring!List(<<c>>) : c \in OddClaims}),
                  Either({"cited_ids"}, {Scoring!Strings(<<"e1", "e2">>), Scoring!Str("e1")}), None)
      [] lane = "contradiction_recovery" ->
           Joined(Either({"final_answer_value", "renewal_date"},
                         {Scoring!Str("2026-04-15"), Scoring!Str("on 2026-04-15"), Scoring!Str("2026-03-01"),
                          Scoring!EmptyStr}),
                  Either({"flagged_contradiction", "conflict_seen"},
                         {Scoring!Bool(TRUE), Scoring!Str("detected"), Scoring!Bool(FALSE)}),
                  Either({"final_date"}, {Scoring!Str("2026-04-15")}))
      [] lane = "open_ended_adaptation" ->
           Joined(Either({"satisfied_requirements", "requirements"},
                         {Scoring!Strings(<<"core_checkout", "support_multi_currency">>), Scoring!Strings(<<"core_checkout">>)}),
                  Inner("requirements", {Scoring!Strings(<<"support_multi_currency">>)}) \cup None, None)
      [] lane = "paradigm_shift_recognition" ->
           Joined(Either({"premise_invalidated_ack", "premise_seen"}, {Scoring!Bool(TRUE), Scoring!Str("no")}),
                  Either({"action", "planned_action"},
                         {Scoring!Str("re_plan"), Scoring!Str("continue"), Scoring!EmptyStr}),
                  Either({"next_step"}, {Scoring!Str("re_plan"), Scoring!EmptyStr}))
      [] lane = "audit_replayability" ->
           Joined(Either({"audit_trail", "audit_trail_full"}, {Trail, Steps, Empty})
                    \cup {<<Scoring!Field("audit_trail_full", Empty), Scoring!Field("audit_trail_steps", Steps)>>},
                  Either({"audit_hash", "hash"},
                         {Scoring!HashOf(t) : t \in {Trail, Steps, Empty}} \cup {Scoring!Str("h"), Scoring!EmptyStr}),
                  Either({"audit_trail_step_ids", "step_ids"}, {Steps}))

SomeAnswers ==
    UNION {{[lane |-> lane,
             text |-> [unicode |-> TRUE, tokens |-> <<Scoring!Object(a)>>, says |-> says, dates |-> dates]] :
               a \in AnswersOf(lane), says \in {"complete", "neither"}, dates \in {{}, {"2026-04-15"}}} :
           lane \in Scoring!Lanes}

-----------------------------------------------------------------------------
(* Worlds with two tasks and two commits, the second with another adapter. *)

Paths == Evidence!BenchmarkSources \cup Evidence!VerifierSources \cup {"t1", "t2"}
V(content) == Evidence!Bytes(content, "lf")
FirstCommit == [p \in Paths |-> V("v1")]
SecondCommit == [FirstCommit EXCEPT !["candidate_adapter"] = V("v2")]

Row(task, digest) ==
    [line |-> "row", task |-> task, lane |-> "own", body |-> "kept", digest |-> digest, text |-> task]
NotRecorded == Evidence!Bytes("v1", "none")
Old == Evidence!Bytes([rows |-> <<"t1", "t2">>, seal |-> <<"t1", "t2">>], "lf")

World(tree) ==
    [raw |-> <<Row("t1", NotRecorded), Row("t2", V("v1"))>>, pred |-> Old, disk |-> tree,
     loaded |-> [p \in Evidence!ScoringCode |-> tree[p].content],
     commits |-> [c \in {"c1", "c2"} |-> IF c = "c1" THEN FirstCommit ELSE SecondCommit]]

TreeChanges(w) ==
    {w} \cup {[w EXCEPT !.disk[p] = b] : p \in Paths, b \in {V("v2"), Evidence!Bytes("v1", "crlf")}}
    \cup {[w EXCEPT !.loaded[p] = "v2"] : p \in Evidence!ScoringCode}
    \cup {[w EXCEPT !.disk[p] = V("v2"), !.loaded[p] = "v2"] : p \in Evidence!ScoringCode}
    \cup {[w EXCEPT !.commits = [c \in {"c2"} |-> SecondCommit]],
          [w EXCEPT !.commits = [c \in DOMAIN @ |-> [@[c] EXCEPT !["candidate_adapter"] = V("v3")]]]}

InputChanges(w) ==
    {[w EXCEPT !.raw[1].digest = d] : d \in {V("v2"), Evidence!Bytes("v1", "crlf")}}
    \cup {[w EXCEPT !.raw[1].text = "other"], [w EXCEPT !.raw[1].lane = "other"],
          [w EXCEPT !.raw[1].body = "changed"], [w EXCEPT !.raw[1].task = "t2"],
          [w EXCEPT !.raw[1].line = "raw_evidence_invalid_jsonl"], [w EXCEPT !.raw = <<>>]}
    \cup {[w EXCEPT !.pred.content.rows = r, !.pred.content.seal = r] : r \in {<<"t1">>, <<"t1", "t1">>}}
    \cup {[w EXCEPT !.pred.content.seal = <<>>], [w EXCEPT !.pred.eol = "crlf"]}

Requests ==
    {[id |-> i, benchmark |-> b, verifier |-> v, reason |-> r] :
        i \in {"s1", "invalid"}, b \in {"c1", "c2", "c3"}, v \in {"c1", "short"}, r \in {"given", "blank"}}
Good(commit) == [id |-> "s1", benchmark |-> commit, verifier |-> "c1", reason |-> "given"]

SomeSuccessors ==
    LET asked(b, a, r) == {[before |-> b, after |-> a, request |-> r, edit |-> e] :
                              e \in IF b = a THEN {"none", "edited", "sealed again"} ELSE {"none"}}
        starts == {World(FirstCommit), World(SecondCommit)}
    IN  {[before |-> w, after |-> w, request |-> r, edit |-> "none"] :
           w \in UNION {TreeChanges(v) \cup InputChanges(v) : v \in starts}, r \in Requests}
        \cup UNION {UNION {asked(b, a, Good(c)) : a \in TreeChanges(b)} :
                      b \in UNION {TreeChanges(v) : v \in starts}, c \in {"c1", "c2"}}
        \cup UNION {UNION {asked(b, a, Good(c)) : a \in InputChanges(b)} : b \in starts, c \in {"c1", "c2"}}
=============================================================================
