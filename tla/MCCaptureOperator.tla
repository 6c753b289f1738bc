------------------------- MODULE MCCaptureOperator -------------------------
(* Small instances of CaptureOperator. *)
EXTENDS CaptureOperator

EveryAnswer == AllAnswers
=============================================================================
