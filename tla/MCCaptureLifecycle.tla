------------------------- MODULE MCCaptureLifecycle -------------------------
(***************************************************************************)
(* Instances of CaptureLifecycle for TLC.  Two writers are enough for every *)
(* race on one sequence number: a third would only meet the same closed    *)
(* name.  The ledger starts with its four initialisation events.           *)
(***************************************************************************)
EXTENDS CaptureLifecycle

=============================================================================
