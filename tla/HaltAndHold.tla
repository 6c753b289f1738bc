----------------------------- MODULE HaltAndHold -----------------------------
(***************************************************************************)
(* What the circuit breakers promise of the AutoLab loop: a builder works  *)
(* only while nothing is on hold, a hold begins only when no builder is at *)
(* work, and only a restart ends it.                                       *)
(***************************************************************************)
VARIABLES
  halted,    \* a halt is active
  building   \* a builder is at work

vars == <<halted, building>>

Init == halted = FALSE /\ building = FALSE

StartBuilding == ~halted /\ ~building /\ building' = TRUE /\ UNCHANGED halted
StopBuilding  == building /\ building' = FALSE /\ UNCHANGED halted
Halt          == ~building /\ ~halted /\ halted' = TRUE /\ UNCHANGED building
Restart       == ~building /\ halted /\ halted' = FALSE /\ UNCHANGED building

Next == StartBuilding \/ StopBuilding \/ Halt \/ Restart

Spec == Init /\ [][Next]_vars
=============================================================================
