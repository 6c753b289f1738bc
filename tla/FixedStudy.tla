------------------------------ MODULE FixedStudy ------------------------------
(***************************************************************************)
(* What the two study harnesses promise, with nothing of the files they    *)
(* work on: the slots of a fixed plan are consumed one after the other,    *)
(* a block is granted when it holds the next slot and not before, and one  *)
(* provider request at most goes out for a slot, after it was consumed.    *)
(***************************************************************************)
EXTENDS Naturals

CONSTANTS
    NumSlots,         \* planned executions
    BlockOf(_)        \* the block a slot belongs to

VARIABLES
    granted,          \* how many blocks are authorised, the first ones
    consumed,         \* how many slots are consumed, the first ones
    requested         \* slots for which a request was sent

svars == <<granted, consumed, requested>>

StudyInit ==
    /\ granted = 0
    /\ consumed = 0
    /\ requested = {}

(* Only the block of the next slot can be authorised, and only once. *)
Grant ==
    /\ consumed < NumSlots
    /\ BlockOf(consumed + 1) = granted + 1
    /\ granted' = granted + 1
    /\ UNCHANGED <<consumed, requested>>

(* The next slot, whose block is authorised, is consumed for good. *)
Consume ==
    /\ consumed < NumSlots
    /\ BlockOf(consumed + 1) <= granted
    /\ consumed' = consumed + 1
    /\ UNCHANGED <<granted, requested>>

(* One request for a consumed slot. *)
Request ==
    /\ \E s \in (1 .. consumed) \ requested : requested' = requested \cup {s}
    /\ UNCHANGED <<granted, consumed>>

StudyNext == Grant \/ Consume \/ Request

StudySpec == StudyInit /\ [][StudyNext]_svars
===============================================================================
