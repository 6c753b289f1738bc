------------------------------- MODULE Decisions -------------------------------
(***************************************************************************)
(* The pure decisions of the repository, each asked about every input of a *)
(* bounded set: one step takes an input of one kind, and the invariants    *)
(* compare what the code decides about it with a second definition of the  *)
(* decision, or with another decision of the code about the same thing.    *)
(***************************************************************************)
EXTENDS Naturals, Sequences, SequencesExt, FiniteSets

CONSTANTS
    Absent, Placeholder, NoViolation, Terms(_), DateIn(_),
    Campaigns,      \* campaign documents
    Studies,        \* a study, its preregistration, what the stored plan was
                    \* derived from, and the slot changed in it, or 0
    Judgements,     \* a deferred case or plain evidence, and a candidate
    Texts,          \* texts a model answered
    Answers,        \* a lane, and a text that is one object
    Successors      \* worlds of a build and of a verification, what was
                    \* requested and what happened to the file in between

VARIABLE input

Protocol == INSTANCE CampaignProtocol
Plans == INSTANCE StudyPlans
Judge == INSTANCE Verifier
Scoring == INSTANCE FrontierScoring
Evidence == INSTANCE CandidateEvidence

Init == input = [kind |-> "none"]

Ask(kind, questions) ==
    input.kind = "none" /\ \E q \in questions : input' = [kind |-> kind, of |-> q]

AskCampaign == Ask("campaign", Campaigns)
AskStudy == Ask("study", Studies)
AskJudgement == Ask("judgement", Judgements)
AskText == Ask("text", Texts)
AskAnswer == Ask("answer", Answers)
AskSuccessor == Ask("successor", Successors)

Next == AskCampaign \/ AskStudy \/ AskJudgement \/ AskText \/ AskAnswer \/ AskSuccessor

Spec == Init /\ [][Next]_input

-----------------------------------------------------------------------------
(* A document that is accepted for its lock has no digest left open, and   *)
(* is accepted for use once it refers to that lock; what is accepted for   *)
(* use could be locked, unless it is a draft with open digests             *)
(* (protocol.py: validate_campaign with and without for_lock_build).       *)
WithLock(c) ==
    [c EXCEPT !.lock = [path |-> "campaign_locks", status |-> "frozen",
        repository_commit |-> c.benchmark_commit, verifier_commit |-> c.verifier_commit]]

\* A campaign document has the fields of one, and a reference to a lock is not null.
CampaignFields ==
    {"shape", "schema", "id", "status", "classification", "alias", "alias_declared", "model",
     "benchmark_commit", "verifier_commit", "system_prompt", "frozen_cases", "runs",
     "invalid_output", "retry", "exclusion", "halts", "holdout", "inputs", "ratification",
     "plan", "lock", "texts"}

ASSUME CampaignAssumption ==
    \A c \in Campaigns :
        /\ c = [field \in DOMAIN c |-> c[field]] /\ CampaignFields \subseteq DOMAIN c
        /\ WithLock(c).lock # Absent

Open(c) == Placeholder \in {c.system_prompt.sha256, c.frozen_cases}

LockableIsUsable ==
    input.kind = "campaign" =>
    LET c == input.of
        lockable == Protocol!ValidateCampaign(c, TRUE) = {}
        usable == Protocol!ValidateCampaign(c, FALSE) = {}
    IN  /\ lockable => ~Open(c) /\ Protocol!ValidateCampaign(WithLock(c), FALSE) = {}
        /\ usable => lockable \/ (c.status = "draft_not_executed" /\ Open(c))
        /\ (c.classification = "official" /\ usable) => c.lock # Absent /\ ~Open(c)
        /\ Protocol!ValidateCollection(<<c>>) = {} <=> usable
        /\ Protocol!ValidateCollection(<<c, c>>) # {}

(* An accepted preregistration yields the design it names: no execution id *)
(* twice, every treatment equally often, and in R2 every condition three   *)
(* times in every position and three times right after every other one.    *)
(* A stored plan is taken only if it is the derived one (r2_plan.py,       *)
(* replication_plan.py).                                                   *)
Distinct(slots) == \A g, h \in DOMAIN slots : g # h => Plans!ExecutionId(slots[g]) # Plans!ExecutionId(slots[h])

Following(slots, c, d) ==
    {g \in 1 .. Len(slots) - 1 : /\ slots[g].block = slots[g + 1].block
                                 /\ slots[g].treatment = c /\ slots[g + 1].treatment = d}

Stored(plan, slot) ==
    IF slot = 0 THEN plan ELSE [plan EXCEPT !.slots[slot].treatment = plan.slots[1].treatment]

BalancedR2(slots) ==
    /\ \A c \in Plans!ConditionIds : \A i \in 1 .. 4 :
         Cardinality({g \in DOMAIN slots : slots[g].treatment = c /\ slots[g].position = i}) = 3
    /\ \A c, d \in Plans!ConditionIds : c # d => Cardinality(Following(slots, c, d)) = 3

CompleteBlocks(slots) ==
    \A b \in 1 .. 10 :
        {slots[g].treatment : g \in {h \in DOMAIN slots : slots[h].block = b}} = Plans!Models

\* Block orders are lists of lists of identifiers.
ASSUME StudyAssumption ==
    \A q \in Studies : q.doc.orders \in Seq(Seq(STRING))

PlansAreBalanced ==
    input.kind = "study" =>
    LET q == input.of
        r2 == Stored(Plans!BuildR2Plan(q.base), q.slot)
        replication == Stored(Plans!BuildReplicationPlan(q.base), q.slot)
    IN  IF q.study = "R2"
        THEN Plans!VerifyR2Plan(r2, q.doc) =>
             Distinct(r2.slots) /\ BalancedR2(r2.slots) /\ r2 = Plans!BuildR2Plan(q.doc)
        ELSE Plans!VerifyReplicationPlan(replication, q.doc) =>
             /\ Distinct(replication.slots) /\ CompleteBlocks(replication.slots)
             /\ replication = Plans!BuildReplicationPlan(q.doc)

-----------------------------------------------------------------------------
(* The two judges of a deferred-consequence case agree: the contract that  *)
(* never sees the gold fact is met exactly when no two claims disagree,    *)
(* something is claimed of the subject, and the verifier that has the gold *)
(* fact passes whatever is claimed of it; and an answer with claims that   *)
(* passes the verifier as it stands meets the contract                     *)
(* (property_contract.py, verifier.py).  Without a family of its own, a    *)
(* failure gets a family under its category (families.py, validation.py).  *)
Consistent(items) ==
    \A c, d \in ToSet(items) : /\ c.object /\ d.object
                               /\ c.subject = d.subject => c.value = d.value

Claimed(items, subject) == {c \in ToSet(items) : c.object /\ c.subject = subject}

Passes(case, cand) == Judge!ScoreCandidate(case, cand).status = "PASS"

\* A list of claims is a sequence, each is an object or not, and a result
\* that is no violation differs from every violation.
ASSUME JudgementAssumption ==
    /\ NoViolation \notin {"raises", "SCHEMA_VIOLATION", "MISSING_REQUIRED_FIELD",
                            "FABRICATED_ENTITY", "UNSUPPORTED_CLAIM", "CONTRADICTS_EVIDENCE"}
    /\ \A q \in Judgements : "claims" \in DOMAIN q.cand =>
         LET items == q.cand["claims"].items
         IN  /\ Len(items) \in Nat /\ DOMAIN items = 1 .. Len(items)
             /\ DOMAIN items = {} => items = <<>>
             /\ \A i \in DOMAIN items : items[i].object \in BOOLEAN

JudgesAgree ==
    input.kind = "judgement" =>
    LET case == input.of.case
        cand == input.of.cand
        wellTyped == "claims" \in DOMAIN cand /\ cand["claims"].type = "list"
        plain == [facts |-> Judge!ScoringEvidence(case).facts, task_family |-> "none"]
        verdict == Judge!Verify(plain, cand, Judge!CaseRules)
    IN  /\ Judge!ScoreByContract(case, cand) <=>
             /\ wellTyped /\ Consistent(cand["claims"].items)
             /\ Claimed(cand["claims"].items, case.subject) # {}
             /\ \A c \in Claimed(cand["claims"].items, case.subject) :
                  Passes(case, [claims |-> Judge!ListOf(<<c>>)])
        /\ Passes(case, cand) /\ cand["claims"].items # <<>> => Judge!ScoreByContract(case, cand)
        /\ verdict.status = "FAIL" =>
             Judge!TaxonomyReference(verdict.category,
                                     Judge!ClassifyFamily(verdict.category, cand, plain))

-----------------------------------------------------------------------------
\* The tokens of a text, the fields of an object and the items of a list come
\* in a sequence, and an answer is asked in one of the lanes.
Ordered(seq) == seq \in Seq(ToSet(seq))

OrderedFields(data) ==
    /\ Ordered(data)
    /\ \A i \in DOMAIN data : LET v == data[i].value IN
         /\ v.type = "list" => Ordered(v.items)
         /\ v.type = "dict" /\ "steps" \in DOMAIN v.fields /\ v.fields["steps"].type = "list" =>
              Ordered(v.fields["steps"].items)

ASSUME TextAssumption ==
    /\ \A t \in Texts \cup {q.text : q \in Answers} : Ordered(t.tokens)
    /\ \A q \in Answers :
         /\ q.lane \in Scoring!Lanes
         /\ \A i \in DOMAIN q.text.tokens :
              q.text.tokens[i].tok = "object" => OrderedFields(q.text.tokens[i].data)

(* What a text is credited with stands in the first object of the text     *)
(* that is in no list, quotes or brace, here found by counting what is     *)
(* open before a place; a text that begins with a list or is one scalar,   *)
(* and one without such an object, gets no credit                          *)
(* (candidate_adapter.py: validate_candidate_output, score_response).      *)
Count(tokens, i, j, symbol) == Cardinality({k \in i .. j : tokens[k].tok = symbol})

Quoted(tokens, i) == Count(tokens, 1, i, "quote") % 2 = 1

Bare(tokens) == [i \in DOMAIN tokens |->
    IF tokens[i].tok # "quote" /\ Quoted(tokens, i) THEN [tok |-> "quoted"] ELSE tokens[i]]

TopLevel(tokens, i) ==
    \A j \in 1 .. i : /\ Count(tokens, j, i, "{") <= Count(tokens, j, i, "}")
                      /\ Count(tokens, j, i, "[") <= Count(tokens, j, i, "]")

TopObjects(tokens) ==
    {i \in DOMAIN tokens : tokens[i].tok = "object" /\ TopLevel(tokens, i)}

TakesFirstObject(text) ==
    LET tokens == Bare(text.tokens)
        validation == Scoring!ValidateCandidateOutput(text)
        refused == \/ ~text.unicode \/ tokens = <<>> \/ TopObjects(tokens) = {}
                   \/ tokens[1].tok = "list"
    IN  IF refused THEN validation.status # "valid_model_output"
        ELSE /\ validation.status = "valid_model_output"
             /\ \E i \in TopObjects(tokens) : /\ \A j \in TopObjects(tokens) : i <= j
                                              /\ validation.data = tokens[i].data

(* A pass needs what the rubric expects to be in the answer.  The sealed   *)
(* canonical answer is its own canonical form but for a subject that       *)
(* Python takes for false (a claim may get one from "name", and loses it   *)
(* the next time), and has the same score when it is scored once more.     *)
NamesIn(list) ==
    {item \in ToSet(list.items) : item.type = "str"}
        \cup UNION {{item.fields[k] : k \in DOMAIN item.fields} :
                      item \in {d \in ToSet(list.items) : d.type = "dict"}}

Says(data, text, name) ==
    \/ name \in text.dates
    \/ \E i \in DOMAIN data : LET v == data[i].value IN
         \/ v.type = "str" /\ name \in {v.is, DateIn(v.is)}
         \/ v.type = "list" /\ Scoring!Str(name) \in NamesIn(v)
         \/ v.type = "dict" /\ "steps" \in DOMAIN v.fields
              /\ Scoring!Str(name) \in NamesIn(v.fields["steps"])

\* An output as the fields of an object, in some order.
FieldsOf(output) ==
    LET keys == SetToSeq(DOMAIN output)
    IN  [i \in DOMAIN keys |-> Scoring!Field(keys[i], output[keys[i]])]

WithRealSubject(claim) ==
    LET fields == claim.fields
    IN  Scoring!Dict(Scoring!Restrict(fields,
            {k \in DOMAIN fields : k = "subject" => Scoring!Truthy(fields[k])}))

Settled(lane, output) ==
    IF lane # "grounding_integrity" THEN output
    ELSE LET claims == output["claims"].items
         IN  [claims |-> Scoring!List([i \in DOMAIN claims |-> WithRealSubject(claims[i])]),
              cited_ids |-> output["cited_ids"]]

CreditIsEarned(lane, text) ==
    LET data == Scoring!ValidateCandidateOutput(text).data
        result == Scoring!ScoreResponse(lane, text)
        again == Scoring!Canonicalize(lane, FieldsOf(result.output), text)
    IN  result.verdict = "pass" =>
          /\ \A check \in ToSet(Scoring!Rubric(lane)) :
               (check.type \in {"equals", "contains_all"} /\ check.expected # {"replan"}) =>
                   \A name \in check.expected : Says(data, text, name)
          /\ again = Settled(lane, result.output)
          /\ Scoring!ScoreTask(lane, again) = [result EXCEPT !.output = again]

OnlyAnswersScore ==
    /\ input.kind = "text" =>
         /\ TakesFirstObject(input.of)
         /\ LET status == Scoring!ValidateCandidateOutput(input.of).status
                result == Scoring!ScoreResponse("open_ended_adaptation", input.of)
            IN  status # "valid_model_output" =>
                  result = [score |-> 0, verdict |-> "fail", modes |-> {status}, output |-> Scoring!Missing]
    /\ input.kind = "answer" => CreditIsEarned(input.of.lane, input.of.text)

-----------------------------------------------------------------------------
(* A successor that was built is verified wherever nothing it rests on has *)
(* changed, and in a process that runs the code on disk a verified one has *)
(* the results that the committed code gives for the committed tasks; what *)
(* was changed in it is refused, also when it was sealed again             *)
(* (candidate_evidence.py: build_successor, verify_successor).             *)
\* Every answer of a successor exchanged, and the file that is then presented.
OtherAnswers(says) ==
    [says EXCEPT !.results = [t \in DOMAIN says.results |->
        [says.results[t] EXCEPT !.answer = "other"]]]

Presented(file, edit) ==
    CASE edit = "none" -> file
      [] edit = "sealed again" -> Evidence!Sealed(OtherAnswers(file.says))
      [] OTHER -> [file EXCEPT !.says = OtherAnswers(file.says)]

\* Rows come in a sequence, a request has four parts, and where an answer is
\* exchanged for "other" it was another one.
ASSUME SuccessorAssumption ==
    \A q \in Successors :
        LET raw == q.before.raw IN
        /\ Len(raw) \in Nat /\ DOMAIN raw = 1 .. Len(raw) /\ (DOMAIN raw = {} => raw = <<>>)
        /\ q.request = [id |-> q.request.id, reason |-> q.request.reason,
                        benchmark |-> q.request.benchmark, verifier |-> q.request.verifier]
        /\ q.edit # "none" => \A i \in DOMAIN raw : raw[i].text # "other"

RunsDisk(world) ==
    \A p \in Evidence!ScoringCode : world.loaded[p] = world.disk[p].content

CommittedResult(world, says, task) ==
    LET commit == world.commits[says.benchmark]
    IN  Evidence!Rescore(Evidence!RowOf(world.raw, task).text, commit[task].content,
                         [p \in Evidence!ScoringCode |-> commit[p].content])

SuccessorRederives ==
    input.kind = "successor" =>
    LET q == input.of
        built == Evidence!BuildSuccessor(q.before, q.request)
        file == Presented(built.file, q.edit)
        verified == Evidence!VerifySuccessor(q.after, file) = "ok"
    IN  built.code = "ok" =>
        /\ (q.after = q.before /\ q.edit = "none") => verified
        /\ verified =>
             /\ q.edit = "none"
             /\ file.says.raw = q.after.raw /\ file.says.pred = q.after.pred
             /\ RunsDisk(q.after) => \A t \in DOMAIN file.says.results :
                  file.says.results[t] = CommittedResult(q.after, file.says, t)
             /\ Evidence!LoadedCode(q.before) = Evidence!LoadedCode(q.after)
=============================================================================
