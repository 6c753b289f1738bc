---- MODULE MCSlotExecution ----
EXTENDS SlotExecution, TLC

(* Two blocks; one condition is executed twice. *)
ThreeSlots == << <<"prose-no-reminder", "json-reminder">>, <<"prose-no-reminder">> >>

(* Two blocks of one slot, for liveness. *)
TwoSlots == << <<"prose-no-reminder">>, <<"json-reminder">> >>

Symmetry == Permutations(Trees) \cup Permutations(Procs)
====
