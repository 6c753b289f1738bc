---------------------------- MODULE MCCampaignReview ----------------------------
(* Two runs, one of which may have used other frozen inputs, and a cohort   *)
(* of both, or of one of them under two dispositions.                      *)
EXTENDS CampaignReview, TLC

CONSTANTS e1, e2, r1, r2

Lock(shared, protocol) == [shared |-> shared, protocol |-> protocol]

\* A capture leaves e1 passed on lock A; e2 failed on A, or on another lock.
CapturedBundles(e) ==
    IF e = e1 THEN {SealedBundle(e, Lock("A", Protocol), "pass")}
    ELSE {SealedBundle(e, Lock("A", "other"), "fail"), SealedBundle(e, Lock("B", Protocol), "fail")}

PairOrTwice == {<<e1, e2>>, <<e1, e1>>}

NoneOuterOrJudged == {{}, {"bundle"}, {"judgment", "bundle"}}

\* Processes are alike, and so are the names of dispositions.
NameSymmetry == Permutations(Procs) \cup Permutations(RatificationIds)
=============================================================================
