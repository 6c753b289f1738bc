---------------------------- MODULE AutoLabClaims ----------------------------
(* What the documents say of the AutoLab loop and the code does not do.    *)
EXTENDS AutoLab

\* The events trailing_rejection_count names as the ones that reset it.
ResetTypes ==
  { "human_ratification", "promotion_inscribed", "rollback_inscribed",
    "autolab_restart_authorized" }

\* No builder is invoked once max_consecutive_rejections rejections stand in the
\* ledger with no promotion, rollback or restart after them: "too many consecutive
\* rejection events" halt the loop.
RejectionsHalt ==
  \A p \in Procs : At(p, "build") =>
     Cardinality({ i \in EntriesOf({"rejected"}) : \A j \in EntriesOf(ResetTypes) : j < i })
       < RejectLimit
=============================================================================
