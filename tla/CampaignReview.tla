----------------------------- MODULE CampaignReview -----------------------------
(***************************************************************************)
(* What people do with the review bundles of finished runs: record a       *)
(* disposition (campaign_ratification_cli.py, ratification.py) and close a *)
(* cohort of ratified members (campaign_cohort_closure_cli.py,             *)
(* cohort_closure.py).  Both write companion directories, file by file,    *)
(* and never the run (the Markdown rendering written last has no reader    *)
(* and is left out).  Nothing but file names holds it together: a          *)
(* disposition names the digests of its bundle, a closure spec those of    *)
(* its members, and every command reads what is there when it gets to it.  *)
(*                                                                         *)
(* A digest is the digested content itself.  A bundle on disk may have     *)
(* been changed by someone who then recomputed some of its digests.        *)
(***************************************************************************)
EXTENDS Naturals, FiniteSets, Sequences

CONSTANTS
    Executions,     \* the runs of the cohort
    Bundles(_),     \* Bundles(e): the bundles the capture of e can leave
    Resealings,     \* which digests someone who changes a bundle recomputes
    RatificationIds,
    Actions,        \* the dispositions people record in this instance
    ClosureIds,
    Cohorts,        \* the cohorts an author may specify: sequences of members
    Procs,
    MaxChanges,     \* bound on changed bundles
    MaxRuns,        \* bound on commands started
    Protocol,       \* the cohort protocol, which successor locks bind
    Absent

ASSUME ReviewAssumption ==
    /\ Actions \subseteq {"prepare", "ratify", "reject", "halt"}
    /\ {MaxChanges, MaxRuns} \subseteq Nat
    /\ \A cohort \in Cohorts : \A i \in DOMAIN cohort : cohort[i] \in Executions

VARIABLES
    bundle,     \* bundle[e]: review-bundle.json of run e, or Absent
    rat,        \* rat[id]: the directory of ratification id, or Absent
    spec,       \* the closure specification in the repository, or Absent
    closed,     \* closed[id]: the directory of closure id, or Absent
    proc,       \* what each process does, with what it has read
    changes, runs

vars == <<bundle, rat, spec, closed, proc, changes, runs>>

Idle == [at |-> "idle"]
NoFiles == [packet |-> Absent, lineage |-> Absent]

ActionOutcome ==
    [prepare |-> "RATIFICATION_READY", ratify |-> "RATIFIED",
     reject |-> "REJECTED_BY_HUMAN", halt |-> "HALTED_BY_HUMAN"]

-----------------------------------------------------------------------------
(* A bundle: a lock, a manifest that binds it, a judgment that binds both, *)
(* a ledger whose seal and judgment events bind those, an integrity report *)
(* over all of them, and its own digest.                                   *)

LockSha(b) == b.lock
ManifestSha(b) == [content |-> b.manifest.content, lock |-> b.manifest.lock]
JudgmentSha(b) == [verdict |-> b.judgment.verdict, manifest |-> b.judgment.manifest]
LedgerRoot(b) == [seal |-> b.ledger.seal, judged |-> b.ledger.judged]
IntegritySha(b) == [manifest |-> b.integrity.manifest, root |-> b.integrity.root]
BundleSha(b) == [lock |-> b.lock, manifest |-> b.manifest, judgment |-> b.judgment,
                 ledger |-> b.ledger, integrity |-> b.integrity]

\* Each digest of a bundle, and what recomputing it means.
Reseal(b, field) ==
    CASE field = "manifest" -> [b EXCEPT !.manifest.sha = ManifestSha(b)]
      [] field = "judgment" -> [b EXCEPT !.judgment.sha = JudgmentSha(b)]
      [] field = "ledger" -> [b EXCEPT !.ledger.root = LedgerRoot(b)]
      [] field = "integrity" -> [b EXCEPT !.integrity.sha = IntegritySha(b)]
      [] field = "bundle" -> [b EXCEPT !.sha = BundleSha(b)]

\* The bundle the capture component leaves: everything binds everything.
SealedBundle(e, lock, verdict) ==
    LET manifest == [content |-> e, lock |-> lock]
        judgment == [verdict |-> verdict, manifest |-> manifest]
        ledger == [seal |-> manifest, judged |-> judgment]
        integrity == [manifest |-> manifest, root |-> ledger]
        parts == [execution |-> e, lock |-> lock,
                  manifest |-> [content |-> e, lock |-> lock, sha |-> manifest],
                  judgment |-> [verdict |-> verdict, manifest |-> manifest, sha |-> judgment],
                  ledger |-> [seal |-> manifest, judged |-> judgment, root |-> ledger],
                  integrity |-> [manifest |-> manifest, root |-> ledger, sha |-> integrity],
                  status |-> "unratified", sha |-> Absent]
    IN  Reseal(parts, "bundle")

\* Mutant of ValidateReviewBundle: only the outer digest is recomputed.
ValidateOuterDigest(b) == b.sha = BundleSha(b) /\ b.status = "unratified"

\* validate_review_bundle_bytes: every digest reproduces, every binding agrees.
ValidateReviewBundle(b) ==
    /\ b.sha = BundleSha(b)
    /\ b.status = "unratified"
    /\ b.manifest.sha = ManifestSha(b)
    /\ b.manifest.lock = LockSha(b)
    /\ b.manifest.content = b.execution
    /\ b.judgment.sha = JudgmentSha(b)
    /\ b.judgment.manifest = b.manifest.sha
    /\ b.ledger.root = LedgerRoot(b)
    /\ b.ledger.seal = b.manifest.sha
    /\ b.ledger.judged = b.judgment.sha
    /\ b.integrity.sha = IntegritySha(b)
    /\ b.integrity.manifest = b.manifest.sha
    /\ b.integrity.root = b.ledger.root

-----------------------------------------------------------------------------
(* The records. *)

Packet(b, id, action) ==
    [id |-> id, source |-> b.sha, execution |-> b.execution, judgment |-> b.judgment.sha,
     verdict |-> b.judgment.verdict, action |-> action, outcome |-> ActionOutcome[action],
     accepts |-> action = "ratify"]

Lineage(packet) ==
    [packet |-> packet, source |-> packet.source, execution |-> packet.execution,
     action |-> packet.action, outcome |-> packet.outcome]

VerifyPacket(packet) ==
    packet.outcome = ActionOutcome[packet.action] /\ packet.accepts = (packet.action = "ratify")

VerifyLineage(lineage, packet) == lineage = Lineage(packet)

\* What a member of a closure spec pins down.
MemberSpec(e, id, bound) ==
    [execution |-> e, id |-> id, bound |-> bound, source |-> bundle[e].sha, judgment |-> bundle[e].judgment.sha,
     verdict |-> bundle[e].judgment.verdict, packet |-> rat[id].packet,
     lineage |-> rat[id].lineage]

ValidateClosureSpec(members) ==
    Len(members) >= 2 /\ \A i, j \in DOMAIN members : i # j =>
        <<members[i].execution, members[i].id>> # <<members[j].execution, members[j].id>>

\* Mutant of MemberLoads: the disposition is not looked at.
MemberPresent(m) ==
    /\ bundle[m.execution] # Absent /\ rat[m.id] # Absent
    /\ rat[m.id].packet # Absent /\ rat[m.id].lineage # Absent
    /\ bundle[m.execution].sha = m.source
    /\ rat[m.id].packet = m.packet

\* load_member: the files of one member verify and are the ones specified.
MemberLoads(m) ==
    /\ bundle[m.execution] # Absent /\ rat[m.id] # Absent
    /\ ValidateReviewBundle(bundle[m.execution])
    /\ rat[m.id].packet # Absent /\ rat[m.id].lineage # Absent
    /\ VerifyPacket(rat[m.id].packet) /\ VerifyLineage(rat[m.id].lineage, rat[m.id].packet)
    /\ bundle[m.execution].execution = m.execution
    /\ bundle[m.execution].sha = m.source
    /\ bundle[m.execution].judgment.sha = m.judgment
    /\ rat[m.id].packet = m.packet /\ rat[m.id].lineage = m.lineage
    /\ rat[m.id].packet.source = bundle[m.execution].sha
    /\ rat[m.id].packet.execution = m.execution
    /\ rat[m.id].packet.action = "ratify"
    /\ bundle[m.execution].judgment.verdict = m.verdict
    /\ m.bound => bundle[m.execution].lock.protocol = Protocol

\* What the closure keeps of a member.
LoadedMember(m) ==
    [execution |-> m.execution, packet |-> rat[m.id].packet, lineage |-> rat[m.id].lineage,
     verdict |-> bundle[m.execution].judgment.verdict, disposition |-> "RATIFIED",
     shared |-> bundle[m.execution].lock.shared]

\* All members were run on the same frozen inputs.
SharedInputs(members) == \A i \in DOMAIN members : members[i].shared = members[1].shared

ClosureRecord(members) ==
    [members |-> members,
     counts |-> [v \in {members[i].verdict : i \in DOMAIN members} |->
                   Cardinality({i \in DOMAIN members : members[i].verdict = v})]]

ClosureLineage(record) ==
    [record |-> record, packets |-> [i \in DOMAIN record.members |-> record.members[i].packet]]

VerifyClosure(record, lineage) ==
    /\ \A i \in DOMAIN record.members : record.members[i].disposition = "RATIFIED"
    /\ lineage = ClosureLineage(record)

-----------------------------------------------------------------------------
Init ==
    /\ bundle = [e \in Executions |-> Absent]
    /\ rat = [id \in RatificationIds |-> Absent]
    /\ spec = Absent
    /\ closed = [id \in ClosureIds |-> Absent]
    /\ proc = [p \in Procs |-> Idle]
    /\ changes = 0 /\ runs = 0

Files == <<bundle, rat, spec, closed>>
Goto(p, state) == proc' = [proc EXCEPT ![p] = state]

\* The capture component publishes the bundle of a run, once.
Publish(e) ==
    /\ bundle[e] = Absent
    /\ \E b \in Bundles(e) : bundle' = [bundle EXCEPT ![e] = b]
    /\ UNCHANGED <<rat, spec, closed, proc, changes, runs>>

\* Someone turns the verdict of a stored bundle, and recomputes some digests.
ChangeBundle(e, verdict, fields) ==
    /\ changes < MaxChanges
    /\ bundle[e] # Absent /\ bundle[e].judgment.verdict # verdict
    /\ LET changed == [bundle[e] EXCEPT !.judgment.verdict = verdict]
           inner == IF "judgment" \in fields THEN Reseal(changed, "judgment") ELSE changed
       IN  bundle' = [bundle EXCEPT ![e] = IF "bundle" \in fields THEN Reseal(inner, "bundle") ELSE inner]
    /\ changes' = changes + 1
    /\ UNCHANGED <<rat, spec, closed, proc, runs>>

\* The author writes the specification from the files that are there.
WriteSpec(cohort, ids, bound) ==
    /\ spec = Absent
    /\ \A i \in DOMAIN cohort :
          /\ bundle[cohort[i]] # Absent
          /\ rat[ids[i]] # Absent /\ rat[ids[i]].lineage # Absent
    /\ spec' = [i \in DOMAIN cohort |-> MemberSpec(cohort[i], ids[i], bound)]
    /\ UNCHANGED <<bundle, rat, closed, proc, changes, runs>>

-----------------------------------------------------------------------------
(* campaign_ratification_cli.py, one process. *)

\* The bundle is read and validated, and the records are built from it.
ReadBundle(p, e, id, action) ==
    /\ proc[p] = Idle /\ runs < MaxRuns
    /\ bundle[e] # Absent
    /\ ValidateReviewBundle(bundle[e])
    /\ LET packet == Packet(bundle[e], id, action)
       IN  /\ VerifyPacket(packet) /\ VerifyLineage(Lineage(packet), packet)
           /\ Goto(p, [at |-> "directory", id |-> id, packet |-> packet])
    /\ runs' = runs + 1
    /\ UNCHANGED <<Files, changes>>

\* mkdir refuses an id that is taken.
MakeDirectory(p) ==
    /\ proc[p].at = "directory"
    /\ IF rat[proc[p].id] = Absent
         THEN /\ rat' = [rat EXCEPT ![proc[p].id] = NoFiles]
              /\ Goto(p, [proc[p] EXCEPT !.at = "packet"])
         ELSE /\ rat' = rat
              /\ Goto(p, Idle)
    /\ UNCHANGED <<bundle, spec, closed, changes, runs>>

\* Every file of a record directory is written exclusively, in this order.
WriteFile(p, file, content, next) ==
    IF rat[proc[p].id][file] = Absent
      THEN /\ rat' = [rat EXCEPT ![proc[p].id][file] = content]
           /\ Goto(p, IF next = "idle" THEN Idle ELSE [proc[p] EXCEPT !.at = next])
      ELSE /\ rat' = rat
           /\ Goto(p, Idle)

WritePacket(p) ==
    /\ proc[p].at = "packet"
    /\ WriteFile(p, "packet", proc[p].packet, "lineage")
    /\ UNCHANGED <<bundle, spec, closed, changes, runs>>

WriteLineage(p) ==
    /\ proc[p].at = "lineage"
    /\ WriteFile(p, "lineage", Lineage(proc[p].packet), "idle")
    /\ UNCHANGED <<bundle, spec, closed, changes, runs>>

-----------------------------------------------------------------------------
(* campaign_cohort_closure_cli.py, one process. *)

ReadSpec(p, id) ==
    /\ proc[p] = Idle /\ runs < MaxRuns
    /\ spec # Absent /\ ValidateClosureSpec(spec)
    /\ Goto(p, [at |-> "members", id |-> id, spec |-> spec, members |-> <<>>])
    /\ runs' = runs + 1
    /\ UNCHANGED <<Files, changes>>

\* The next member is loaded; the first that does not load ends the command.
LoadMember(p) ==
    /\ proc[p].at = "members"
    /\ Len(proc[p].members) < Len(proc[p].spec)
    /\ LET m == proc[p].spec[Len(proc[p].members) + 1]
       IN  Goto(p, IF MemberLoads(m)
                     THEN [proc[p] EXCEPT !.members = Append(@, LoadedMember(m))]
                     ELSE Idle)
    /\ UNCHANGED <<Files, changes, runs>>

\* Mutant of BuildClosure: the frozen inputs of the members are not compared.
BuildMixedClosure(p) ==
    /\ proc[p].at = "members"
    /\ Len(proc[p].members) = Len(proc[p].spec)
    /\ closed[proc[p].id] = Absent
    /\ closed' = [closed EXCEPT ![proc[p].id] = [record |-> Absent, lineage |-> Absent]]
    /\ Goto(p, [at |-> "record", id |-> proc[p].id, record |-> ClosureRecord(proc[p].members)])
    /\ UNCHANGED <<bundle, rat, spec, changes, runs>>

\* The records are built and their directory is made, or the command ends.
BuildClosure(p) ==
    /\ proc[p].at = "members"
    /\ Len(proc[p].members) = Len(proc[p].spec)
    /\ IF /\ SharedInputs(proc[p].members)
          /\ VerifyClosure(ClosureRecord(proc[p].members), ClosureLineage(ClosureRecord(proc[p].members)))
          /\ closed[proc[p].id] = Absent
         THEN /\ closed' = [closed EXCEPT ![proc[p].id] =
                              [record |-> Absent, lineage |-> Absent]]
              /\ Goto(p, [at |-> "record", id |-> proc[p].id, record |-> ClosureRecord(proc[p].members)])
         ELSE /\ closed' = closed
              /\ Goto(p, Idle)
    /\ UNCHANGED <<bundle, rat, spec, changes, runs>>

WriteClosure(p) ==
    /\ proc[p].at \in {"record", "recordLineage"}
    /\ CASE proc[p].at = "record" ->
              /\ closed' = [closed EXCEPT ![proc[p].id].record = proc[p].record]
              /\ Goto(p, [proc[p] EXCEPT !.at = "recordLineage"])
         [] proc[p].at = "recordLineage" ->
              /\ closed' = [closed EXCEPT ![proc[p].id].lineage = ClosureLineage(proc[p].record)]
              /\ Goto(p, Idle)
    /\ UNCHANGED <<bundle, rat, spec, changes, runs>>

Kill(p) ==
    /\ proc[p] # Idle
    /\ Goto(p, Idle)
    /\ UNCHANGED <<Files, changes, runs>>

Step(p) ==
    \/ \E e \in Executions, id \in RatificationIds, action \in Actions : ReadBundle(p, e, id, action)
    \/ MakeDirectory(p) \/ WritePacket(p) \/ WriteLineage(p)
    \/ \E id \in ClosureIds : ReadSpec(p, id)
    \/ LoadMember(p) \/ BuildClosure(p) \/ WriteClosure(p)

Next ==
    \/ \E p \in Procs : Step(p) \/ Kill(p)
    \/ \E e \in Executions : Publish(e)
    \/ \E e \in Executions, v \in {"pass", "fail"}, fields \in Resealings : ChangeBundle(e, v, fields)
    \/ \E cohort \in Cohorts : \E ids \in [DOMAIN cohort -> RatificationIds] , bound \in BOOLEAN :
          WriteSpec(cohort, ids, bound)

Spec == Init /\ [][Next]_vars

-----------------------------------------------------------------------------
Packets == {rat[id].packet : id \in {i \in RatificationIds : rat[i] # Absent}} \ {Absent}
Closures == {closed[id].record : id \in {i \in ClosureIds : closed[i] # Absent}} \ {Absent}

(* A disposition is about the judgment the run's own ledger bound: a       *)
(* verdict turned in the stored bundle, with however many of the digests   *)
(* around it recomputed short of the ledger's, is never disposed of        *)
(* (docs/campaign-evidence-ratification.md, "Source verification").        *)
PacketBindsLedger ==
    \A packet \in Packets :
        /\ packet.verdict = packet.source.ledger.judged.verdict
        /\ packet.source.ledger.judged.manifest.content = packet.execution

(* Whatever happens to bundles between the writing of the specification,   *)
(* the loading of one member and of the next, a closed cohort accepts for  *)
(* each member the verdict its ledger bound, under an explicit ratify.     *)
ClosureAcceptsRatified ==
    \A record \in Closures : \A i \in DOMAIN record.members :
        LET member == record.members[i]
        IN  /\ member.packet.action = "ratify"
            /\ member.lineage.packet = member.packet
            /\ member.packet.execution = member.execution
            /\ member.verdict = member.packet.source.ledger.judged.verdict

(* The members of a closed cohort were run on the same frozen inputs: the  *)
(* summary counts verdicts that can be put side by side.                   *)
ClosureComparable ==
    \A record \in Closures : \A i, j \in DOMAIN record.members :
        record.members[i].packet.source.lock.shared = record.members[j].packet.source.lock.shared
=============================================================================
