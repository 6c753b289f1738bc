------------------------------ MODULE StudyPlans ------------------------------
(***************************************************************************)
(* The preregistrations of the two GPT-5.6 studies, their validation, and  *)
(* the slot plans derived from them: r2_plan.py and replication_plan.py.   *)
(*                                                                         *)
(* A document is a record of what the validation looks at.  The wording    *)
(* of identifiers is left out: an execution id is the pair of what is      *)
(* executed and its number among the executions of the same thing, which   *)
(* is what the format string writes.  A digest is the value it is of.      *)
(***************************************************************************)
EXTENDS Naturals, Sequences, FiniteSets, SequencesExt

-----------------------------------------------------------------------------
(* From block orders to slots, alike in both studies. *)

(* How often x occurs in s. *)
Occurrences(s, x) == Cardinality({i \in 1 .. Len(s) : s[i] = x})

(* The blocks in order, each with its conditions (or models) in order. *)
SlotsOf(orders) ==
    LET treatments == FlattenSeq(orders)
        placed == FlattenSeq([b \in 1 .. Len(orders) |->
                      [i \in 1 .. Len(orders[b]) |-> <<b, i>>]])
    IN  [g \in 1 .. Len(treatments) |->
            [slot |-> g, block |-> placed[g][1], position |-> placed[g][2],
             treatment |-> treatments[g],
             nth |-> Occurrences(SubSeq(treatments, 1, g), treatments[g])]]

ExecutionId(slot) == <<slot.treatment, slot.nth>>

-----------------------------------------------------------------------------
(* The R2 study: a 2x2 design, twelve blocks of four conditions. *)

ConditionIds == {"prose-no-reminder", "json-no-reminder", "prose-reminder", "json-reminder"}
JsonConditions == {"json-no-reminder", "json-reminder"}
ReminderConditions == {"prose-reminder", "json-reminder"}

\* Mutant of BaseBlockOrders: every condition moves on by one place.
CyclicBlockOrders ==
    LET order == <<"prose-no-reminder", "json-no-reminder", "prose-reminder", "json-reminder">>
    IN  [b \in 1 .. 4 |-> [i \in 1 .. 4 |-> order[((i + b - 2) % 4) + 1]]]

BaseBlockOrders ==
    << <<"prose-no-reminder", "json-no-reminder", "prose-reminder", "json-reminder">>,
       <<"json-no-reminder", "json-reminder", "prose-no-reminder", "prose-reminder">>,
       <<"prose-reminder", "prose-no-reminder", "json-reminder", "json-no-reminder">>,
       <<"json-reminder", "prose-reminder", "json-no-reminder", "prose-no-reminder">> >>

ExpectedBlockOrders == BaseBlockOrders \o BaseBlockOrders \o BaseBlockOrders

(* What execution_policy must say, in both studies: no retry, no           *)
(* replacement, no substitution, no reordering, no store, no tools.        *)
FrozenPolicy ==
    [automatic_retry |-> FALSE, max_attempts_per_execution |-> 1,
     outcome_dependent_order_changes |-> FALSE, replacement_executions |-> FALSE,
     silent_model_substitution |-> FALSE, store |-> FALSE, tools |-> "none"]

(* Exactly the four conditions, each once, with its two factors and its    *)
(* number of executions.                                                   *)
ValidConditions(conditions) ==
    /\ Len(conditions) = 4
    /\ {conditions[i].id : i \in 1 .. Len(conditions)} = ConditionIds
    /\ \A i \in 1 .. Len(conditions) :
          LET c == conditions[i]
          IN  /\ c.representation = (IF c.id \in JsonConditions THEN "json" ELSE "prose")
              /\ c.reminder = (c.id \in ReminderConditions)
              /\ c.planned = 12

ValidR2Preregistration(doc) ==
    /\ doc.identity = [study |-> "R2", status |-> "preregistered", model |-> "sol",
                       alias |-> "mutable_alias", declared |-> TRUE]
    /\ \A f \in DOMAIN doc.authority : ~doc.authority[f]
    /\ doc.policy = FrozenPolicy
    /\ doc.stopping = [planned |-> 48, optional |-> FALSE, after_last |-> TRUE]
    /\ ValidConditions(doc.conditions)
    /\ Len(doc.orders) = 12
    /\ \A b \in 1 .. 12 : doc.orders[b] = ExpectedBlockOrders[b]
    /\ LET all == FlattenSeq(doc.orders)
       IN  \A c \in ConditionIds :
              /\ Occurrences(all, c) = 12
              /\ \A i \in 1 .. 4 : Cardinality({b \in 1 .. 12 : doc.orders[b][i] = c}) = 3
    /\ doc.shared = [task |-> "memory_boundary_001", system_prompt |-> "study", generator |-> "r2_plan"]

(* The text of a condition's prompt: the public case in one of two         *)
(* representations, with or without the retention check.                   *)
ConditionPrompt(c) ==
    [case |-> IF c \in JsonConditions THEN "json" ELSE "prose",
     reminder |-> c \in ReminderConditions]

BuildR2Plan(doc) ==
    [study |-> "R2", preregistration |-> doc, slot_count |-> 48, block_count |-> 12,
     prompts |-> [c \in ConditionIds |-> ConditionPrompt(c)],
     slots |-> LET slots == SlotsOf(doc.orders)
               IN  [g \in 1 .. Len(slots) |->
                       [slot |-> g, block |-> slots[g].block, position |-> slots[g].position,
                        treatment |-> slots[g].treatment, nth |-> slots[g].nth,
                        prompt |-> ConditionPrompt(slots[g].treatment)]]]

(* A stored plan is taken only if it is the one derived again now. *)
VerifyR2Plan(plan, doc) ==
    /\ plan.study = "R2"
    /\ Len(plan.slots) = 48 /\ plan.slot_count = 48 /\ plan.block_count = 12
    /\ \A g \in 1 .. Len(plan.slots) : plan.slots[g].slot = g
    /\ ValidR2Preregistration(doc)
    /\ plan = BuildR2Plan(doc)

-----------------------------------------------------------------------------
(* The replication: ten blocks of three models, whose order inside a block *)
(* the preregistration chooses.                                            *)

ModelOrder == <<"sol", "terra", "luna">>
Models == Range(ModelOrder)

ValidReplicationPreregistration(doc) ==
    /\ doc.identity = [study |-> "replication", status |-> "preregistered"]
    /\ doc.policy = FrozenPolicy
    /\ doc.stopping = [planned |-> 30, optional |-> FALSE]
    /\ Len(doc.models) = 3
    /\ {doc.models[i].model : i \in 1 .. Len(doc.models)} = Models
    /\ \A i \in 1 .. Len(doc.models) : doc.models[i].planned = 10 /\ doc.models[i].declared
    /\ Len(doc.orders) = 10
    /\ \A b \in 1 .. 10 : Len(doc.orders[b]) = 3 /\ Range(doc.orders[b]) = Models
    /\ \A m \in Models : Occurrences(FlattenSeq(doc.orders), m) = 10

BuildReplicationPlan(doc) ==
    [study |-> "replication", preregistration |-> doc, slot_count |-> 30, block_count |-> 10,
     slots |-> SlotsOf(doc.orders)]

VerifyReplicationPlan(plan, doc) ==
    /\ plan.study = "replication"
    /\ Len(plan.slots) = 30 /\ plan.slot_count = 30 /\ plan.block_count = 10
    /\ \A g \in 1 .. Len(plan.slots) : plan.slots[g].slot = g
    /\ ValidReplicationPreregistration(doc)
    /\ plan = BuildReplicationPlan(doc)
===============================================================================
