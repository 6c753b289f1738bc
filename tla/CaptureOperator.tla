-------------------------- MODULE CaptureOperator --------------------------
(***************************************************************************)
(* A run directory in the hands of one operator who follows the recovery   *)
(* guide and never starts a command while another one runs.  The commands  *)
(* are those of CaptureRun, killed as often as before; what is new here is *)
(* only when each one is started.                                          *)
(*                                                                         *)
(* Four rules go beyond the wording of the guide.  An unfinished recovery  *)
(* is finished before anything else, a stored attempt is committed before  *)
(* a recovery is declared, and an attempt without a record is aborted and  *)
(* never resumed: section 4 of the README tells what happens otherwise.    *)
(* And no bytes are supplied when the run already holds bytes of its own,  *)
(* since no recovery binds both.                                           *)
(***************************************************************************)
EXTENDS CaptureRun

\* The last attempt has its record, and the capture command can commit it.
StoredUncommitted == State = "capturing" /\ Reconcilable

\* One recovery record is kept in reserve, for the abort that ends a run.
MayResume ==
  /\ AttemptsReadable(FALSE)
  /\ Len(attempts) < MaxAttempts
  /\ Len(recs) + 1 < MaxRecoveries

\* A recovery that stopped half-way is rerun with the arguments it was given.
OperatorFinishRecovery(p) ==
  \E i \in IncompleteRecoveries :
     RecoverResume(p, recs[i].action, recs[i].reason, recs[i].partial)

OperatorCapture(p) ==
  /\ IncompleteRecoveries = {}
  /\ AttemptsReadable(FALSE)
  /\ CaptureStart(p)

OperatorRecover(p) ==
  /\ IncompleteRecoveries = {}
  /\ ~StoredUncommitted
  /\ \/ State = "interrupted"
     \/ State = "capturing" /\ ~AttemptsReadable(FALSE)
  /\ \E action \in {"resume", "abort"}, reason \in Reasons, time \in Times, partial \in Partials :
       /\ action = "resume" => MayResume
       /\ partial # None => Orphans(partial) = {}
       /\ RecoverStart(p, action, reason, time, partial)

OperatorStart(p) ==
  /\ \A q \in Procs : At(q, "idle")
  /\ \/ OperatorFinishRecovery(p)
     \/ OperatorCapture(p)
     \/ OperatorRecover(p)
     \/ SealStart(p)
     \/ JudgeStart(p)
     \/ State = "judged" /\ BundleStart(p)
     \/ State = "sealed" /\ manifest.state = "aborted" /\ BundleStart(p)

OperatorNext == \E p \in Procs : OperatorStart(p) \/ Step(p) \/ Answer(p) \/ Kill(p)

OperatorSpec == Init /\ [][OperatorNext]_vars

\* A command that is not killed runs to its end, a transport answers or fails in
\* the end (the adapter has a timeout), and the operator does not walk away.
FairOperatorSpec ==
  OperatorSpec /\ WF_vars(\E p \in Procs : OperatorStart(p) \/ Step(p) \/ Answer(p))

\* The run reaches human review whatever the transport answers and however often
\* a command is killed.
ReachesReview == <>(State = "review_required")
=============================================================================
