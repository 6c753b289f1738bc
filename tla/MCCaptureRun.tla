---------------------------- MODULE MCCaptureRun ----------------------------
(* Small instances of CaptureRun: the transports TLC tries. *)
EXTENDS CaptureRun, TLC

\* Commands are started and run alike.
Symmetry == Permutations(Procs)

\* The three ways an attempt ends in the ledger, with other bytes than those an
\* operator may supply.
ForeignAnswers ==
  { a \in AllAnswers :
      /\ a.status \in {"metadata_rejected", "interrupted", "completed"}
      /\ a.blob \notin Partials \ {None} }

\* A transport that is cut off or completes, with bytes either way.
AnswersWithBytes ==
  { a \in AllAnswers :
      a.status \in {"interrupted", "completed"} /\ a.blob # None /\ a.pid = None }
=============================================================================
