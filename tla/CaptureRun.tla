----------------------------- MODULE CaptureRun -----------------------------
(***************************************************************************)
(* One capture run directory and the commands that work on it: capture,    *)
(* recover, seal, judge and bundle (capture/run.py, judgment.py,           *)
(* review.py).  Each command is a process that reads the directory and     *)
(* then makes a fixed order of durable writes, every one of them           *)
(* exclusive; it may be killed between any two, and another command may    *)
(* run at the same time.  One action is one durable write, or one round of *)
(* reads; what a command still uses after a later write or round of reads  *)
(* stays in its local state, and may be stale by then.                     *)
(*                                                                         *)
(* Abstracted: the governed documents of the run (run.json, the            *)
(* preregistration, the lock, the authorisation) never change and are      *)
(* verified by every command, so they are constants here; a digest is the  *)
(* value it seals; a ledger root is the length of the ledger it covers;    *)
(* an append is one step (CaptureLifecycle has its inside, and an append   *)
(* that loses its race ends the command as Kill does).                     *)
(***************************************************************************)
EXTENDS Naturals, Sequences, FiniteSets, SequencesExt

CONSTANTS
  Procs,          \* commands that may run at the same time
  Blobs,          \* byte strings a transport returns or an operator supplies
  ProviderIds,    \* provider request identifiers
  Answers,        \* what a transport may come back with, see AllAnswers
  Reasons,        \* reasons an operator may give for a recovery
  AllowedReasons, \* the preregistered retry reasons
  Times,          \* values of --now in recovery commands
  Partials,       \* what --partial-file may hold: blobs, or None
  MaxAttempts,    \* retry_policy.max_attempts
  MaxRecoveries,  \* bound on recovery records
  MaxKills,       \* bound on commands killed half-way
  None

ASSUME PolicyAssumption ==
  /\ MaxAttempts \in Nat \ {0}
  /\ AllowedReasons \subseteq Reasons
  /\ None \notin Blobs \cup ProviderIds
  /\ None \in Partials /\ Partials \subseteq Blobs \cup {None}

\* What adapters.py lets a transport come back with: an exception, a result that
\* fails validation, rejected metadata, or an outcome, with or without bytes.
AllAnswers ==
  { a \in [ status : {"adapter_error", "invalid_transport_result", "metadata_rejected",
                      "interrupted", "completed"},
            blob   : Blobs \cup {None},
            pid    : ProviderIds \cup {None} ] :
      /\ a.status = "adapter_error" => a.blob = None
      /\ a.status = "completed" => a.blob # None
      /\ a.pid # None => a.status \in {"interrupted", "completed"} }

ASSUME AnswerAssumption == Answers \subseteq AllAnswers

ASSUME BoundAssumption == MaxRecoveries \in Nat /\ MaxKills \in Nat

VARIABLES
  ledger,    \* ledger/events: the published events in order
  attempts,  \* attempts/NNNNNN: request.json written?, attempt.json or None
  recs,      \* recovery/NNNNNN.json
  blobs,     \* private/raw/blobs, without the authorised request
  manifest,  \* capture-manifest.json, or None
  judgment,  \* judgment.json, or None
  bundle,    \* review-bundle.json, or None
  loc,       \* the local state of each command
  sent,      \* history: attempt numbers handed to the transport, in order
  kills

disk == <<ledger, attempts, recs, blobs, manifest, judgment, bundle>>
vars == <<ledger, attempts, recs, blobs, manifest, judgment, bundle, loc, sent, kills>>

-----------------------------------------------------------------------------
(* The ledger                                                              *)

State == ledger[Len(ledger)].to

Life == INSTANCE RunLifecycle WITH state <- State

\* An event as a command means to append it; an occurrence has no target state.
Draft(type, to, att, dig, ref) ==
  [ type |-> type, to |-> to, att |-> att, dig |-> dig, ref |-> ref ]

Occurrence(type, att, dig, ref) == Draft(type, None, att, dig, ref)

\* Mutant of Legal: the target of a transition is checked, not where it starts.
LegalFromAnywhere(e) ==
  IF e.to = None
    THEN <<e.type, State>> \in Life!OccurrenceStates
    ELSE \E t \in Life!TransitionEvents : t[2] = e.to /\ t[3] = e.type

\* What an append is refused for: the event must fit the state it is read in.
Legal(e) ==
  IF e.to = None
    THEN <<e.type, State>> \in Life!OccurrenceStates
    ELSE <<State, e.to, e.type>> \in Life!TransitionEvents

Publish(e) ==
  ledger' = Append(ledger,
              [ type |-> e.type, from |-> State,
                to   |-> IF e.to = None THEN State ELSE e.to,
                att  |-> e.att, dig |-> e.dig, ref |-> e.ref ])

EventsOf(types) == { i \in DOMAIN ledger : ledger[i].type \in types }

Resumptions == EventsOf({"capture_resumed"})

-----------------------------------------------------------------------------
(* Recovery records and the events that bind them                          *)

\* The events a recovery record calls for, in the order they are appended.
RecoveryEvents(r) ==
  ( IF r.before = "capturing"
      THEN << Occurrence("attempt_interrupted", 0, r, None),
              Draft("capture_interrupted", "interrupted", 0, r, None) >>
      ELSE <<>> )
  \o << Occurrence("recovery_declared", 0, r, None) >>
  \o ( IF r.partial # None
         THEN << Occurrence("recovery_evidence_preserved", 0, r, r.partial) >>
         ELSE <<>> )
  \o ( CASE r.action = "resume" -> << Draft("capture_resumed", "capturing", 0, r, None) >>
         [] r.action = "abort"  -> << Draft("capture_aborted", "aborted", 0, r, None) >>
         [] OTHER               -> <<>> )

\* Places where the ledger holds an event of this type with this payload.
Places(e) ==
  { i \in DOMAIN ledger : /\ ledger[i].type = e.type
                          /\ ledger[i].att = e.att
                          /\ ledger[i].dig = e.dig
                          /\ ledger[i].ref = e.ref }

Present(e) == Places(e) # {}

RecoveryComplete(r)   == \A e \in Range(RecoveryEvents(r)) : Present(e)
RecoveryDuplicated(r) == \E e \in Range(RecoveryEvents(r)) : Cardinality(Places(e)) > 1

IncompleteRecoveries == { i \in DOMAIN recs : ~RecoveryComplete(recs[i]) }

\* Every record has all its events, once, and no event names another record.
RecoveryBound ==
  /\ { ledger[i].dig : i \in DOMAIN ledger } \ {None} = Range(recs)
  /\ \A r \in Range(recs) : RecoveryComplete(r) /\ ~RecoveryDuplicated(r)

-----------------------------------------------------------------------------
(* Attempts and raw bytes                                                  *)

Uncommitted ==
  [ status |-> "interrupted_uncommitted", complete |-> FALSE,
    blob |-> None, pid |-> None, reused |-> FALSE ]

\* A directory short of its files is read only where a recovery names it.
AttemptReadable(n, allowPartial) ==
  \/ attempts[n].request /\ attempts[n].record # None
  \/ allowPartial /\ \E r \in Range(recs) : r.att = n

AttemptsReadable(allowPartial) ==
  \A n \in DOMAIN attempts : AttemptReadable(n, allowPartial)

\* _read_attempts: what later checks see of the attempt directories.
View ==
  [ n \in DOMAIN attempts |->
      IF attempts[n].record = None THEN Uncommitted ELSE attempts[n].record ]

CompleteIn(view) == { n \in DOMAIN view : view[n].complete }

EventsFor(type, n) == { i \in EventsOf({type}) : ledger[i].att = n }

AttemptEventsBound ==
  /\ \A n \in DOMAIN View :
       /\ View[n].status # "interrupted_uncommitted" =>
            Cardinality(EventsFor("request_preserved", n)) = 1
       /\ View[n].complete =>
            /\ Cardinality(EventsFor("response_preserved", n)) = 1
            /\ \A i \in EventsFor("response_preserved", n) : ledger[i].ref = View[n].blob
            /\ Cardinality(EventsFor("capture_completed", n)) = 1
  /\ Cardinality(EventsOf({"capture_completed"})) <= 1

\* The bytes that attempt and recovery records describe.
Evidence ==
  ( { View[n].blob : n \in DOMAIN View } \cup { r.partial : r \in Range(recs) } ) \ {None}

InventoryExact == blobs = Evidence

Orphans(supplied) == blobs \ (Evidence \cup {supplied})

EvidenceBound(allowPartial) ==
  /\ AttemptsReadable(allowPartial)
  /\ RecoveryBound
  /\ AttemptEventsBound
  /\ InventoryExact

-----------------------------------------------------------------------------
(* Manifest, judgment, review bundle                                       *)

Sealed == State \in {"sealed", "judged", "review_required"}

\* Mutant of ManifestNow: the root is the one before the last event.
ManifestOfStaleRoot ==
  [ state |-> State, root |-> Len(ledger) - 1, attempts |-> View, evidence |-> Evidence ]

ManifestNow ==
  [ state |-> State, root |-> Len(ledger), attempts |-> View, evidence |-> Evidence ]

\* _validate_capture_manifest, before and after the seal event.
ManifestValid(committed) ==
  LET seals == EventsOf({"capture_sealed", "aborted_capture_sealed"})
  IN /\ manifest.attempts = View
     /\ manifest.evidence = Evidence
     /\ IF committed
          THEN /\ Cardinality(seals) = 1
               /\ \A i \in seals : /\ ledger[i].from = manifest.state
                                   /\ ledger[i].ref = manifest
                                   /\ manifest.root = i - 1
          ELSE seals = {} /\ manifest.root = Len(ledger)

JudgedBlob == View[Max(CompleteIn(View))].blob

JudgmentNow == [ manifest |-> manifest, blob |-> JudgedBlob ]

\* _validate_judgment_artifact: scoring the response again gives the same result.
JudgmentValid(committed) ==
  LET judgings == EventsOf({"judgment_sealed"})
  IN /\ judgment # None
     /\ \A n \in DOMAIN attempts : attempts[n].record # None
     /\ CompleteIn(View) # {}
     /\ judgment = JudgmentNow
     /\ IF committed
          THEN Cardinality(judgings) = 1 /\ \A i \in judgings : ledger[i].ref = judgment
          ELSE judgings = {}

\* _validate_review_bundle_artifact, before and after the review event.
BundleValid(committed) ==
  LET reviews == EventsOf({"human_review_required"})
  IN /\ bundle.manifest = manifest
     /\ IF committed
          THEN /\ Cardinality(reviews) = 1
               /\ \A i \in reviews : /\ ledger[i].ref = bundle
                                     /\ ledger[i].from = bundle.state
                                     /\ i - 1 = bundle.root
               /\ Len(ledger) - 1 = bundle.root
          ELSE /\ reviews = {}
               /\ Len(ledger) = bundle.root
               /\ State = bundle.state
     /\ bundle.state \in {"sealed", "judged"}
     /\ bundle.reportState = bundle.state
     /\ bundle.reportRoot = bundle.root
     /\ IF judgment # None
          THEN JudgmentValid(TRUE) /\ bundle.judgment = judgment
          ELSE bundle.judgment = None /\ manifest.state = "aborted"

\* _verify_run_core; "uncommitted" names the one artifact that may lack its event.
VerifyCore(uncommitted) ==
  /\ EvidenceBound( \/ State \in {"aborted", "interrupted", "capturing"}
                    \/ Sealed /\ manifest # None /\ manifest.state = "aborted" )
  /\ State \in {"captured", "interrupted", "aborted", "sealed", "judged", "review_required",
                "execution_authorized"}
  /\ State = "captured" => CompleteIn(View) # {}
  /\ manifest # None => /\ Sealed \/ uncommitted = "manifest"
                        /\ ManifestValid(Sealed)
  /\ Sealed => manifest # None
  /\ judgment # None /\ State = "sealed" => uncommitted = "judgment"
  /\ State = "judged" => judgment # None
  /\ bundle # None /\ State \in {"sealed", "judged"} => uncommitted = "bundle"
  /\ State = "review_required" => bundle # None

VerifyRun ==
  /\ VerifyCore("none")
  /\ State = "judged" => JudgmentValid(TRUE)
  /\ State = "review_required" => BundleValid(TRUE)

-----------------------------------------------------------------------------
(* Local state of a command                                                *)

Idle ==
  [ pc |-> "idle", n |-> 0, todo |-> <<>>, rec |-> None, out |-> None, art |-> None ]

At(p, step) == loc[p].pc = step

Goto(p, step) == loc' = [ loc EXCEPT ![p].pc = step ]

\* The command ends, with its result or with an error.
Finish(p) == loc' = [ loc EXCEPT ![p] = Idle ]

Start(p, state) == loc' = [ loc EXCEPT ![p] = state ]

KeepDisk == UNCHANGED disk

Init ==
  /\ ledger = << [ type |-> "execution_authorization_bound", from |-> "locked",
                   to |-> "execution_authorized", att |-> 0, dig |-> None, ref |-> None ] >>
  /\ attempts = <<>>
  /\ recs     = <<>>
  /\ blobs    = {}
  /\ manifest = None
  /\ judgment = None
  /\ bundle   = None
  /\ loc      = [ p \in Procs |-> Idle ]
  /\ sent     = <<>>
  /\ kills    = 0

-----------------------------------------------------------------------------
(* capture_attempt                                                         *)

\* The state is read once, before anything is written.
CaptureStart(p) ==
  /\ At(p, "idle")
  /\ \/ State = "execution_authorized" /\ Goto(p, "begin")
     \/ State = "capturing" /\ Goto(p, "scan")
  /\ KeepDisk /\ UNCHANGED <<sent, kills>>

\* append_transition to "capturing": the event is the one the table has for the
\* state of the run now.
CaptureBegin(p) ==
  LET types == { t[3] : t \in { u \in Life!TransitionEvents : u[1] = State /\ u[2] = "capturing" } }
  IN /\ At(p, "begin")
     /\ \/ /\ \E type \in types : Publish(Draft(type, "capturing", 1, None, None))
           /\ Goto(p, "scan")
        \/ /\ types = {}
           /\ UNCHANGED ledger
           /\ Finish(p)
     /\ UNCHANGED <<attempts, recs, blobs, manifest, judgment, bundle, sent, kills>>

LastRecord == attempts[Len(attempts)].record

Terminal(n) ==
  { i \in EventsOf({"capture_completed", "capture_interrupted"}) : ledger[i].att = n } # {}

\* The stored attempt was published, but its terminal event was not.
Reconcilable ==
  /\ attempts # <<>>
  /\ AttemptsReadable(FALSE)
  /\ ~Terminal(Len(attempts))

ResponseConsistent(n) ==
  LET responses == EventsFor("response_preserved", n)
  IN Cardinality(responses) <= 1 /\ \A i \in responses : ledger[i].ref = attempts[n].record.blob

ResponseEvent(n, blob) == Occurrence("response_preserved", n, None, blob)
CapturedEvent(n)       == Draft("capture_completed", "captured", n, None, None)
InterruptedEvent(n)    == Draft("capture_interrupted", "interrupted", n, None, None)
AttemptEvent(type, n)  == Occurrence(type, n, None, None)

\* Mutant of CaptureReconcile: the response event is appended without a look.
CaptureReconcileAgain(p) ==
  /\ At(p, "scan")
  /\ Reconcilable
  /\ LET n == Len(attempts)
     IN Start(p, [ Idle EXCEPT
          !.pc = "append",
          !.todo = IF LastRecord.complete
                     THEN << ResponseEvent(n, LastRecord.blob), CapturedEvent(n) >>
                     ELSE << AttemptEvent("attempt_interrupted", n), InterruptedEvent(n) >> ])
  /\ KeepDisk /\ UNCHANGED <<sent, kills>>

\* _reconcile_stored_attempt: the stored outcome is committed, nothing is sent.
CaptureReconcile(p) ==
  /\ At(p, "scan")
  /\ Reconcilable
  /\ LET n == Len(attempts)
     IN /\ LastRecord.complete => ResponseConsistent(n)
        /\ Start(p, [ Idle EXCEPT
             !.pc = "append",
             !.todo =
               IF LastRecord.complete
                 THEN ( IF EventsFor("response_preserved", n) = {}
                          THEN << ResponseEvent(n, LastRecord.blob) >> ELSE <<>> )
                      \o << CapturedEvent(n) >>
                 ELSE << AttemptEvent("attempt_interrupted", n), InterruptedEvent(n) >> ])
  /\ KeepDisk /\ UNCHANGED <<sent, kills>>

\* Mutant of NewAttemptPermitted: a stored attempt is tried again, not committed.
NewAttemptUnasked ==
  /\ attempts # <<>> => AttemptsReadable(FALSE)
  /\ Len(attempts) < MaxAttempts

\* A successor attempt needs budget and an earlier, explicit resumption.
NewAttemptPermitted ==
  /\ attempts # <<>> => AttemptsReadable(FALSE) /\ Terminal(Len(attempts))
  /\ Len(attempts) < MaxAttempts
  /\ attempts # <<>> => Resumptions # {}

CaptureCreate(p) ==
  /\ At(p, "scan")
  /\ NewAttemptPermitted
  /\ attempts' = Append(attempts, [ request |-> FALSE, record |-> None ])
  /\ Start(p, [ Idle EXCEPT !.pc = "request", !.n = Len(attempts) + 1 ])
  /\ UNCHANGED <<ledger, recs, blobs, manifest, judgment, bundle, sent, kills>>

CaptureScanRefused(p) ==
  /\ At(p, "scan")
  /\ ~NewAttemptPermitted
  /\ ~( Reconcilable /\ (LastRecord.complete => ResponseConsistent(Len(attempts))) )
  /\ Finish(p)
  /\ KeepDisk /\ UNCHANGED <<sent, kills>>

CaptureRequest(p) ==
  /\ At(p, "request")
  /\ attempts' = [ attempts EXCEPT ![loc[p].n].request = TRUE ]
  /\ Goto(p, "request_event")
  /\ UNCHANGED <<ledger, recs, blobs, manifest, judgment, bundle, sent, kills>>

\* Mutant of CaptureRequestEvent: the request is sent although its event was refused.
CaptureRequestEventIgnored(p) ==
  LET e == AttemptEvent("request_preserved", loc[p].n)
  IN /\ At(p, "request_event")
     /\ IF Legal(e) THEN Publish(e) ELSE UNCHANGED ledger
     /\ Goto(p, "send")
     /\ UNCHANGED <<attempts, recs, blobs, manifest, judgment, bundle, sent, kills>>

CaptureRequestEvent(p) ==
  LET e == AttemptEvent("request_preserved", loc[p].n)
  IN /\ At(p, "request_event")
     /\ IF Legal(e)
          THEN Publish(e) /\ Goto(p, "send")
          ELSE UNCHANGED ledger /\ Finish(p)
     /\ UNCHANGED <<attempts, recs, blobs, manifest, judgment, bundle, sent, kills>>

CaptureSend(p) ==
  /\ At(p, "send")
  /\ sent' = Append(sent, loc[p].n)
  /\ Goto(p, "wait")
  /\ KeepDisk /\ UNCHANGED kills

\* The transport comes back, or raises; response bytes are stored at once.
CaptureAnswer(p, out) ==
  /\ At(p, "wait")
  /\ blobs' = blobs \cup ({out.blob} \ {None})
  /\ loc' = [ loc EXCEPT ![p].pc = IF out.pid # None THEN "reuse" ELSE "record",
                         ![p].out = out ]
  /\ UNCHANGED <<ledger, attempts, recs, manifest, judgment, bundle, sent, kills>>

\* A provider request identifier that a prior attempt carried is noted.
\* The search ends at the first such attempt, and the command at one without a record.
CaptureReuse(p) ==
  LET e     == AttemptEvent("provider_request_id_reused", loc[p].n)
      stops == { n \in 1..(Len(attempts) - 1) :
                   attempts[n].record = None \/ attempts[n].record.pid = loc[p].out.pid }
  IN /\ At(p, "reuse")
     /\ \/ stops = {} /\ UNCHANGED ledger /\ Goto(p, "record")
        \/ /\ stops # {}
           /\ IF attempts[Min(stops)].record # None /\ Legal(e)
                THEN Publish(e) /\ Goto(p, "record_reused")
                ELSE UNCHANGED ledger /\ Finish(p)
     /\ UNCHANGED <<attempts, recs, blobs, manifest, judgment, bundle, sent, kills>>

\* Mutant of OutcomeEvents: the capture is completed before its response is.
OutcomeEventsSwapped(n, out) ==
  IF out.status = "completed"
    THEN << CapturedEvent(n), ResponseEvent(n, out.blob) >>
    ELSE << AttemptEvent("attempt_interrupted", n), InterruptedEvent(n) >>

\* attempt.json, then the events that commit the attempt.
OutcomeEvents(n, out) ==
  IF out.status = "completed"
    THEN << ResponseEvent(n, out.blob), CapturedEvent(n) >>
    ELSE << AttemptEvent(IF out.status = "metadata_rejected" THEN "metadata_rejected"
                                                             ELSE "attempt_interrupted", n),
            InterruptedEvent(n) >>

CaptureRecord(p) ==
  LET out == loc[p].out
  IN /\ loc[p].pc \in {"record", "record_reused"}
     /\ attempts' = [ attempts EXCEPT ![loc[p].n].record =
          [ status |-> out.status, complete |-> out.status = "completed",
            blob |-> out.blob, pid |-> out.pid, reused |-> At(p, "record_reused") ] ]
     /\ Start(p, [ Idle EXCEPT !.pc = "append", !.todo = OutcomeEvents(loc[p].n, out) ])
     /\ UNCHANGED <<ledger, recs, blobs, manifest, judgment, bundle, sent, kills>>

\* The last events of a command, one append at a time; a refused one ends it.
AppendNext(p) ==
  /\ At(p, "append")
  /\ LET e == Head(loc[p].todo)
         rest == Tail(loc[p].todo)
     IN IF Legal(e)
          THEN /\ Publish(e)
               /\ IF rest = <<>> THEN Finish(p)
                                 ELSE loc' = [ loc EXCEPT ![p].todo = rest ]
          ELSE UNCHANGED ledger /\ Finish(p)
  /\ UNCHANGED <<attempts, recs, blobs, manifest, judgment, bundle, sent, kills>>

-----------------------------------------------------------------------------
(* recover_run                                                             *)

\* A retry of an unfinished recovery must ask for what the record says.
RequestMatches(r, action, reason, partial) ==
  /\ r.action = action
  /\ r.reason = reason
  /\ partial # None => r.partial = partial

RecoverResume(p, action, reason, partial) ==
  /\ At(p, "idle")
  /\ \A r \in Range(recs) : ~RecoveryDuplicated(r)
  /\ \E i \in IncompleteRecoveries :
       /\ IncompleteRecoveries = {i}
       /\ RequestMatches(recs[i], action, reason, partial)
       /\ Start(p, [ Idle EXCEPT !.pc = "recovery_check", !.n = 1, !.rec = recs[i] ])
  /\ KeepDisk /\ UNCHANGED <<sent, kills>>

\* The last recovery already did this: nothing is written again.
AlreadyRecovered(action, reason, partial) ==
  /\ recs # <<>>
  /\ RequestMatches(recs[Len(recs)], action, reason, partial)
  /\ recs[Len(recs)].att = Len(attempts)
  /\ State = CASE action = "resume" -> "capturing"
                [] action = "abort"  -> "aborted"
                [] OTHER             -> "interrupted"

\* Mutant of RecoveryPermitted: an unfinished recovery does not hold up a new one.
RecoveryPermittedAnyway(action, reason, partial) ==
  /\ \A r \in Range(recs) : ~RecoveryDuplicated(r)
  /\ State \in {"capturing", "interrupted"}
  /\ action = "resume" => reason \in AllowedReasons /\ Len(attempts) < MaxAttempts

RecoveryPermitted(action, reason, partial) ==
  /\ IncompleteRecoveries = {}
  /\ \A r \in Range(recs) : ~RecoveryDuplicated(r)
  /\ ~AlreadyRecovered(action, reason, partial)
  /\ State \in {"capturing", "interrupted"}
  /\ action = "resume" => reason \in AllowedReasons /\ Len(attempts) < MaxAttempts

\* Bytes no record describes are the partial evidence of this recovery.  Supplied
\* bytes are stored before they are compared with what was found.
Ambiguous(partial) ==
  \/ Cardinality(Orphans(partial)) > 1
  \/ Orphans(partial) # {} /\ partial # None

RecoveredBlob(partial) ==
  IF Orphans(partial) = {} THEN partial ELSE CHOOSE b \in Orphans(partial) : TRUE

RecoverStart(p, action, reason, time, partial) ==
  /\ At(p, "idle")
  /\ Len(recs) < MaxRecoveries
  /\ RecoveryPermitted(action, reason, partial)
  /\ blobs' = blobs \cup ({partial} \ {None})
  /\ IF Ambiguous(partial)
       THEN UNCHANGED loc
       ELSE Start(p, [ Idle EXCEPT
              !.pc  = "recovery_record",
              !.n   = Len(recs),
              !.rec = [ action |-> action, reason |-> reason, time |-> time,
                        before |-> State, att |-> Len(attempts),
                        partial |-> RecoveredBlob(partial) ] ])
  /\ UNCHANGED <<ledger, attempts, recs, manifest, judgment, bundle, sent, kills>>

RecoverRecord(p) ==
  /\ At(p, "recovery_record")
  /\ IF Len(recs) = loc[p].n
       THEN /\ recs' = Append(recs, loc[p].rec)
            /\ loc' = [ loc EXCEPT ![p].pc = "recovery_check", ![p].n = 1 ]
       ELSE UNCHANGED recs /\ Finish(p)
  /\ UNCHANGED <<ledger, attempts, blobs, manifest, judgment, bundle, sent, kills>>

\* _ensure_recovery_*: an event the ledger holds is passed over, one it lacks is
\* appended next, and one it holds twice is an error.
RecoverCheck(p) ==
  LET events  == RecoveryEvents(loc[p].rec)
      notOnce == { j \in loc[p].n..Len(events) : Cardinality(Places(events[j])) # 1 }
  IN /\ At(p, "recovery_check")
     /\ IF notOnce = {} \/ Present(events[Min(notOnce)])
          THEN Finish(p)
          ELSE loc' = [ loc EXCEPT ![p].pc = "recovery_append", ![p].n = Min(notOnce) ]
     /\ KeepDisk /\ UNCHANGED <<sent, kills>>

RecoverAppend(p) ==
  LET e == RecoveryEvents(loc[p].rec)[loc[p].n]
  IN /\ At(p, "recovery_append")
     /\ IF Legal(e)
          THEN /\ Publish(e)
               /\ loc' = [ loc EXCEPT ![p].pc = "recovery_check", ![p].n = @ + 1 ]
          ELSE UNCHANGED ledger /\ Finish(p)
     /\ UNCHANGED <<attempts, recs, blobs, manifest, judgment, bundle, sent, kills>>

-----------------------------------------------------------------------------
(* seal_run                                                                *)

SealEvent(m) ==
  Draft(IF m.state = "captured" THEN "capture_sealed" ELSE "aborted_capture_sealed",
        "sealed", 0, None, m)

\* Mutant of Sealable: the state alone decides.
SealableUnverified ==
  /\ State \in {"captured", "aborted"}
  /\ manifest # None => ManifestValid(FALSE)

\* Evidence that may be sealed, whether or not a manifest is already there.
Sealable ==
  /\ State \in {"captured", "aborted"}
  /\ EvidenceBound(State = "aborted")
  /\ IF manifest = None
       THEN State = "captured" => CompleteIn(View) # {}
       ELSE ManifestValid(FALSE)

\* Mutant of SealStart: a manifest left by a killed command blocks the next one.
SealStartOnce(p) ==
  /\ At(p, "idle")
  /\ Sealable
  /\ manifest = None
  /\ Start(p, [ Idle EXCEPT !.pc = "seal_write", !.art = ManifestNow ])
  /\ KeepDisk /\ UNCHANGED <<sent, kills>>

SealStart(p) ==
  /\ At(p, "idle")
  /\ Sealable
  /\ IF manifest = None
       THEN Start(p, [ Idle EXCEPT !.pc = "seal_write", !.art = ManifestNow ])
       ELSE Start(p, [ Idle EXCEPT !.pc = "append", !.todo = << SealEvent(manifest) >> ])
  /\ KeepDisk /\ UNCHANGED <<sent, kills>>

SealWrite(p) ==
  /\ At(p, "seal_write")
  /\ IF manifest = None
       THEN /\ manifest' = loc[p].art
            /\ Start(p, [ Idle EXCEPT !.pc = "append", !.todo = << SealEvent(loc[p].art) >> ])
       ELSE UNCHANGED manifest /\ Finish(p)
  /\ UNCHANGED <<ledger, attempts, recs, blobs, judgment, bundle, sent, kills>>

-----------------------------------------------------------------------------
(* judge_run                                                               *)

JudgedEvent(j) == Draft("judgment_sealed", "judged", 0, None, j)

JudgeStart(p) ==
  /\ At(p, "idle")
  /\ State = "sealed"
  /\ IF judgment = None
       THEN /\ VerifyRun
            /\ manifest.state = "captured"
            /\ Start(p, [ Idle EXCEPT !.pc = "judge_write", !.art = JudgmentNow ])
       ELSE /\ VerifyCore("judgment")
            /\ JudgmentValid(FALSE)
            /\ Start(p, [ Idle EXCEPT !.pc = "append", !.todo = << JudgedEvent(judgment) >> ])
  /\ KeepDisk /\ UNCHANGED <<sent, kills>>

JudgeWrite(p) ==
  /\ At(p, "judge_write")
  /\ IF judgment = None
       THEN /\ judgment' = loc[p].art
            /\ Start(p, [ Idle EXCEPT !.pc = "append", !.todo = << JudgedEvent(loc[p].art) >> ])
       ELSE UNCHANGED judgment /\ Finish(p)
  /\ UNCHANGED <<ledger, attempts, recs, blobs, manifest, bundle, sent, kills>>

-----------------------------------------------------------------------------
(* build_review_bundle                                                     *)

ReviewEvent(b) == Draft("human_review_required", "review_required", 0, None, b)

\* The ledger that goes into the bundle is read first ...
BundleStart(p) ==
  /\ At(p, "idle")
  /\ IF bundle = None
       THEN Start(p, [ Idle EXCEPT !.pc = "bundle_verify", !.n = Len(ledger) ])
       ELSE /\ State \in {"sealed", "judged"}
            /\ VerifyCore("bundle")
            /\ BundleValid(FALSE)
            /\ Start(p, [ Idle EXCEPT !.pc = "append", !.todo = << ReviewEvent(bundle) >> ])
  /\ KeepDisk /\ UNCHANGED <<sent, kills>>

\* ... and the run is verified, and its judgment read, on a later reading.
Reviewable ==
  /\ State \in {"sealed", "judged"}
  /\ VerifyRun
  /\ State = "sealed" => manifest.state = "aborted"

BundleVerify(p) ==
  /\ At(p, "bundle_verify")
  /\ IF Reviewable
       THEN Start(p, [ Idle EXCEPT
              !.pc  = "bundle_write",
              !.art = [ root        |-> loc[p].n,
                        state       |-> ledger[loc[p].n].to,
                        reportRoot  |-> Len(ledger),
                        reportState |-> State,
                        judgment    |-> judgment,
                        manifest    |-> manifest ] ])
       ELSE Finish(p)
  /\ KeepDisk /\ UNCHANGED <<sent, kills>>

\* Mutant of BundleWrite: an existing bundle is replaced.
BundleWriteReplacing(p) ==
  /\ At(p, "bundle_write")
  /\ bundle' = loc[p].art
  /\ Start(p, [ Idle EXCEPT !.pc = "append", !.todo = << ReviewEvent(loc[p].art) >> ])
  /\ UNCHANGED <<ledger, attempts, recs, blobs, manifest, judgment, sent, kills>>

BundleWrite(p) ==
  /\ At(p, "bundle_write")
  /\ IF bundle = None
       THEN /\ bundle' = loc[p].art
            /\ Start(p, [ Idle EXCEPT !.pc = "append", !.todo = << ReviewEvent(loc[p].art) >> ])
       ELSE UNCHANGED bundle /\ Finish(p)
  /\ UNCHANGED <<ledger, attempts, recs, blobs, manifest, judgment, sent, kills>>

-----------------------------------------------------------------------------
(* Behaviours                                                              *)

\* A command is killed, or loses the race for the next ledger file.
Kill(p) ==
  /\ ~At(p, "idle")
  /\ kills < MaxKills
  /\ kills' = kills + 1
  /\ Finish(p)
  /\ KeepDisk /\ UNCHANGED sent

Actions == {"record_interruption", "resume", "abort"}

Recover(p) ==
  \E action \in Actions, reason \in Reasons, partial \in Partials :
     \/ RecoverResume(p, action, reason, partial)
     \/ \E time \in Times : RecoverStart(p, action, reason, time, partial)

\* An operator, or a script, starts any command at any time.
StartCommand(p) ==
  \/ CaptureStart(p)
  \/ Recover(p)
  \/ SealStart(p)
  \/ JudgeStart(p)
  \/ BundleStart(p)

\* What a running command does next, its transport apart.
Step(p) ==
  \/ CaptureBegin(p)
  \/ CaptureReconcile(p)
  \/ CaptureCreate(p)
  \/ CaptureScanRefused(p)
  \/ CaptureRequest(p)
  \/ CaptureRequestEvent(p)
  \/ CaptureSend(p)
  \/ CaptureReuse(p)
  \/ CaptureRecord(p)
  \/ AppendNext(p)
  \/ RecoverRecord(p)
  \/ RecoverCheck(p)
  \/ RecoverAppend(p)
  \/ SealWrite(p)
  \/ JudgeWrite(p)
  \/ BundleVerify(p)
  \/ BundleWrite(p)

Answer(p) == \E out \in Answers : CaptureAnswer(p, out)

Next == \E p \in Procs : StartCommand(p) \/ Step(p) \/ Answer(p) \/ Kill(p)

Spec == Init /\ [][Next]_vars

-----------------------------------------------------------------------------
(* What holds whichever commands run at the same time, and are killed      *)

Recovery ==
  [ action : Actions, reason : Reasons, time : Times, before : {"capturing", "interrupted"},
    att : 0..MaxAttempts, partial : Blobs \cup {None} ]

AttemptRecord ==
  [ status : { a.status : a \in Answers }, complete : BOOLEAN, blob : Blobs \cup {None},
    pid : ProviderIds \cup {None}, reused : BOOLEAN ]

\* What the artifacts of a run can be.
Manifests ==
  [ state : {"captured", "aborted"}, root : Nat, attempts : Seq(AttemptRecord \cup {Uncommitted}),
    evidence : SUBSET Blobs ]

Judgments == [ manifest : Manifests, blob : Blobs ]

Bundles ==
  [ root : Nat, state : Life!States, reportRoot : Nat, reportState : Life!States,
    judgment : Judgments \cup {None}, manifest : Manifests ]

\* None is told apart from everything it stands in for.
ASSUME NoneAssumption ==
  None \notin Life!States \cup Recovery \cup AttemptRecord \cup Manifests \cup Judgments
          \cup Bundles

Steps ==
  { "idle", "begin", "scan", "request", "request_event", "send", "wait", "reuse", "record",
    "record_reused", "append", "recovery_record", "recovery_check", "recovery_append",
    "seal_write", "judge_write", "bundle_verify", "bundle_write" }

\* Variables keep their types; a record is only ever written after the request,
\* and the ledger names no recovery record that is not stored.
TypeOK ==
  /\ ledger # <<>>
  /\ \A i \in DOMAIN ledger :
       /\ ledger[i].to \in Life!States
       /\ ledger[i].dig # None => ledger[i].dig \in Range(recs)
  /\ Len(attempts) <= MaxAttempts
  /\ \A n \in DOMAIN attempts :
       /\ attempts[n].request \in BOOLEAN
       /\ attempts[n].record # None => attempts[n].request /\ attempts[n].record \in AttemptRecord
  /\ Range(recs) \subseteq Recovery
  /\ blobs \subseteq Blobs
  /\ Range(sent) \subseteq DOMAIN attempts
  /\ \A p \in Procs : loc[p].pc \in Steps /\ (loc[p].pc = "append" => loc[p].todo # <<>>)

\* A request reaches a transport only after it was preserved and the ledger says
\* so, never twice under one attempt number, and never after an attempt whose
\* stored record is missing, complete, or not yet committed as interrupted.  The
\* authorised attempt budget bounds the requests sent, and every request but the
\* first answers to a resumption in the ledger.
DispatchDiscipline ==
  /\ Len(sent) <= MaxAttempts /\ Len(sent) <= 1 + Cardinality(Resumptions)
  /\ \A i \in DOMAIN sent :
        /\ attempts[sent[i]].request
        /\ EventsFor("request_preserved", sent[i]) # {}
        /\ \A j \in 1..(i - 1) : sent[j] < sent[i]
        /\ \A m \in 1..(sent[i] - 1) :
             /\ attempts[m].record # None
             /\ ~attempts[m].record.complete
             /\ EventsFor("capture_interrupted", m) # {}

\* "captured" is never said of an attempt without a complete record whose bytes
\* are stored and whose response event came first.
CapturedEvidence ==
  \A i \in EventsOf({"capture_completed"}) :
     LET n == ledger[i].att
     IN /\ attempts[n].record # None
        /\ attempts[n].record.complete
        /\ attempts[n].record.blob \in blobs
        /\ \E j \in EventsFor("response_preserved", n) :
             j < i /\ ledger[j].ref = attempts[n].record.blob

\* A seal names the one manifest and the whole ledger before it, a judgment event
\* names the one judgment, of that manifest and of its complete response; what was
\* aborted is never judged.
SealsBind ==
  /\ \A i \in EventsOf({"capture_sealed", "aborted_capture_sealed"}) :
       /\ ledger[i].ref = manifest
       /\ manifest.root = i - 1
       /\ manifest.state = ledger[i].from
  /\ \A i \in EventsOf({"judgment_sealed"}) :
       /\ ledger[i].ref = judgment
       /\ judgment.manifest = manifest
       /\ manifest.state = "captured"
       /\ \E n \in DOMAIN manifest.attempts :
            manifest.attempts[n].complete /\ manifest.attempts[n].blob = judgment.blob

Once(old, new) == old # None => new = old

\* Evidence is append-only: no command removes or rewrites an event, an attempt
\* record, a recovery record, raw bytes or a sealed artifact.
EvidenceAppendOnly ==
  [][ /\ IsPrefix(ledger, ledger')
      /\ IsPrefix(recs, recs')
      /\ blobs \subseteq blobs'
      /\ \A n \in DOMAIN attempts :
           /\ n \in DOMAIN attempts'
           /\ attempts[n].request => attempts'[n].request
           /\ Once(attempts[n].record, attempts'[n].record)
      /\ Once(manifest, manifest')
      /\ Once(judgment, judgment')
      /\ Once(bundle, bundle') ]_vars

\* The state in the ledger moves as the lifecycle automaton says.
ImplementsLifecycle == Life!Spec

-----------------------------------------------------------------------------
(* What holds while one command runs at a time, killed or not              *)

AtRest == \A p \in Procs : At(p, "idle")

\* The software never resends by itself: every request but the first answers to
\* a recovery record in which an operator asked for it.
NoUndeclaredResend ==
  Len(sent) <= 1 + Cardinality({ i \in DOMAIN recs : recs[i].action = "resume" })

\* A recovery can always be taken up again: at most one record lacks events, and
\* no event of a recovery is in the ledger twice.
RecoveryReconcilable ==
  /\ Cardinality(IncompleteRecoveries) <= 1
  /\ \A r \in Range(recs) : ~RecoveryDuplicated(r)

\* Sealed evidence can be verified for ever after.
SealedVerifiable ==
  AtRest /\ Sealed =>
     /\ VerifyCore( IF State = "sealed" /\ judgment # None THEN "judgment"
                    ELSE IF State # "review_required" /\ bundle # None THEN "bundle"
                    ELSE "none" )
     /\ State = "judged" => JudgmentValid(TRUE)
     /\ State = "review_required" => BundleValid(TRUE)

\* Captured evidence can be sealed, and so can aborted evidence.
EvidenceSealable == AtRest /\ State \in {"captured", "aborted"} => Sealable
=============================================================================
