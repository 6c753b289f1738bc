---------------------------- MODULE RunLifecycle ----------------------------
(***************************************************************************)
(* The lifecycle of one capture run as its ledger promises it: a run is in *)
(* one named state and moves only along the transition table.  Nothing is  *)
(* said of files, writers or crashes; CaptureLifecycle and CaptureRun are  *)
(* shown to implement this automaton.                                      *)
(***************************************************************************)
EXTENDS Naturals

NoState == "no_state"    \* Python's None: the ledger holds no event

States ==
  { "draft", "validated", "locked", "execution_authorized", "capturing",
    "captured", "interrupted", "aborted", "sealed", "judged",
    "review_required" }

\* <<from_state, to_state, event_type>>
TransitionEvents ==
  { <<NoState,                "draft",                "run_drafted">>,
    <<"draft",                "validated",            "campaign_validated">>,
    <<"validated",            "locked",               "benchmark_locked">>,
    <<"locked",               "execution_authorized", "execution_authorization_bound">>,
    <<"execution_authorized", "capturing",            "capture_started">>,
    <<"capturing",            "captured",             "capture_completed">>,
    <<"capturing",            "interrupted",          "capture_interrupted">>,
    <<"capturing",            "aborted",              "capture_aborted">>,
    <<"interrupted",          "capturing",            "capture_resumed">>,
    <<"interrupted",          "aborted",              "capture_aborted">>,
    <<"captured",             "sealed",               "capture_sealed">>,
    <<"aborted",              "sealed",               "aborted_capture_sealed">>,
    <<"sealed",               "judged",               "judgment_sealed">>,
    <<"sealed",               "review_required",      "human_review_required">>,
    <<"judged",               "review_required",      "human_review_required">> }

\* <<event_type, state in which the occurrence may be recorded>>
OccurrenceStates ==
  { <<"request_preserved",            "capturing">>,
    <<"response_preserved",           "capturing">>,
    <<"attempt_interrupted",          "capturing">>,
    <<"metadata_rejected",            "capturing">>,
    <<"provider_request_id_reused",   "capturing">>,
    <<"provider_request_id_reused",   "captured">>,
    <<"recovery_evidence_preserved",  "interrupted">>,
    <<"recovery_declared",            "interrupted">> }

TransitionTypes == { t[3] : t \in TransitionEvents }
OccurrenceTypes == { o[1] : o \in OccurrenceStates }

\* How far evidence has got.  Interruption and resumption move inside one
\* level; completing and aborting the capture share a level, so a run can do
\* one of them, once.
Rank(s) ==
  CASE s = NoState                              -> 0
    [] s = "draft"                              -> 1
    [] s = "validated"                          -> 2
    [] s = "locked"                             -> 3
    [] s = "execution_authorized"               -> 4
    [] s \in {"capturing", "interrupted"}       -> 5
    [] s \in {"captured", "aborted"}            -> 6
    [] s = "sealed"                             -> 7
    [] s = "judged"                             -> 8
    [] s = "review_required"                    -> 9

-----------------------------------------------------------------------------
VARIABLE state

\* A run becomes visible with its authorisation already bound.
Init == state = "execution_authorized"

Move == \E t \in TransitionEvents : state = t[1] /\ state' = t[2]

Next == Move

Spec == Init /\ [][Next]_state
=============================================================================
