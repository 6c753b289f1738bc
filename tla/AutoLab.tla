------------------------------- MODULE AutoLab -------------------------------
(***************************************************************************)
(* The AutoLab loop: the runner's iteration (autolab/runner.py over        *)
(* controller.py, preregistration.py, ratification.py, lineage.py and      *)
(* circuit_breakers.py) and the operator's commands, over one meta-ledger. *)
(*                                                                         *)
(* The meta-ledger is one file of lines, each with a sequence number, the  *)
(* hash of the line before and its own.  Appending verifies and reads the  *)
(* file, builds the line, and writes it at the end of the file: two steps  *)
(* here, so that a kill may leave a part of the line.  Everything else -   *)
(* halts, budget, rejections, the current target - is derived from the     *)
(* lines each time.                                                        *)
(*                                                                         *)
(* Abstracted: a hash of a line is its position, which is exact while the  *)
(* file verifies; declarations, reports and ratifications are what becomes *)
(* of them; the four REJECTION_EVENTS, which are counted alike, are one    *)
(* type of line; what a caller passes in is chosen when it is first used;  *)
(* run identifiers are never used twice, so the rejections counted under a *)
(* run identifier, for want of a lineage, never reach the threshold.       *)
(***************************************************************************)
EXTENDS Naturals, Sequences, FiniteSets, SequencesExt

CONSTANTS
  Procs,            \* commands that may run at the same time
  Lineages,         \* lineage identifiers of proposals
  Refs,             \* target references
  Zones,            \* contents the frozen files may have
  Asks,             \* holdout units a declaration may ask for
  MaxUses,          \* max_uses of the holdout budget
  RejectLimit,      \* max_consecutive_rejections
  WitherThreshold,  \* wither_threshold
  MaxRuns,          \* bound on iterations
  MaxStarts,        \* bound on iterations and operator commands together
  MaxKills,         \* bound on kills
  None

ASSUME LimitAssumption ==
  /\ MaxUses \in Nat
  /\ RejectLimit \in Nat \ {0}
  /\ WitherThreshold \in Nat \ {0, 1}
  /\ Asks \subseteq Nat \ {0}

ASSUME NoneAssumption == None \notin Lineages \cup Refs \cup Zones

ASSUME BoundAssumption == MaxRuns \in Nat /\ MaxStarts \in Nat /\ MaxKills \in Nat

VARIABLES
  ledger,    \* the lines of the meta-ledger
  zone,      \* what the frozen files contain
  manifest,  \* what the frozen manifest says they contain
  loc,       \* the local state of each command
  runs,      \* iterations begun
  commands,  \* operator commands begun
  kills

vars == <<ledger, zone, manifest, loc, runs, commands, kills>>

-----------------------------------------------------------------------------
(* The meta-ledger and what is derived from it                             *)

Blank ==
  [ seq |-> 0, type |-> "torn", run |-> 0, lineage |-> None, units |-> 0, left |-> MaxUses,
    ref |-> None, prev |-> None, of |-> 0, zone |-> None, ended |-> FALSE ]

\* verify_meta_ledger
Clean == \A i \in DOMAIN ledger : ledger[i].type # "torn" /\ ledger[i].seq = i - 1

EntriesOf(types) == { i \in DOMAIN ledger : ledger[i].type \in types }

Receipts    == EntriesOf({"holdout_budget_consumed"})
UnitsIn(i)  == {i} \X (1 .. ledger[i].units)
UnitsOf(S)  == Cardinality(UNION { UnitsIn(i) : i \in S })

\* Mutant of UnitsUsed: a receipt counts once its builder has completed.
UnitsUsedCompleted ==
  UnitsOf({ i \in Receipts : \E j \in EntriesOf({"builder_completed"}) :
                                ledger[j].run = ledger[i].run })

UnitsUsed == UnitsOf(Receipts)

HoldoutExhausted == \E i \in Receipts : ledger[i].left = 0

\* Counted from the end: halts are passed over, anything else ends the count.
TrailingRejections ==
  LET ends == { i \in DOMAIN ledger : ledger[i].type \notin {"rejected", "autolab_halted"} }
  IN Cardinality({ i \in EntriesOf({"rejected"}) : \A j \in ends : j < i })

RejectionsOf(lineage) == { i \in EntriesOf({"rejected"}) : ledger[i].lineage = lineage }

Withered(lineage) == lineage # None /\ Cardinality(RejectionsOf(lineage)) >= WitherThreshold

Latest(S) == IF S = {} THEN 0 ELSE Max(S)

\* Mutant of ActiveHalt: a halt is active while it is the last line.
ActiveHaltAtEnd ==
  IF ledger # <<>> /\ ledger[Len(ledger)].type = "autolab_halted" THEN Len(ledger) ELSE 0

\* The line of the halt in force, or 0: the last one, unless a restart names it.
ActiveHalt ==
  LET halt == Latest(EntriesOf({"autolab_halted"}))
  IN IF \E i \in EntriesOf({"autolab_restart_authorized"}) : ledger[i].of = halt THEN 0 ELSE halt

LineageEntries == EntriesOf({"promotion_inscribed", "rollback_inscribed"})

\* The target current just before line n.
TargetBefore(n) ==
  LET last == Latest({ i \in LineageEntries : i < n })
  IN IF last = 0 THEN None ELSE ledger[last].ref

Target == TargetBefore(Len(ledger) + 1)

\* derive_lineage_state replays the lines and refuses one that does not follow.
Derivable ==
  \A i \in LineageEntries :
     \/ ledger[i].prev = TargetBefore(i)
     \/ ledger[i].type = "promotion_inscribed" /\ TargetBefore(i) = None

\* Mutant of Inscribable: a ratification may be inscribed again.
InscribableAgain(n, previous) ==
  /\ Derivable
  /\ ledger[n].type = "human_ratification"
  /\ Target # ledger[n].ref
  /\ previous # None /\ Target # None => previous = Target

\* append_promotion_inscription's conditions for the ratification in line n.
Inscribable(n, previous) ==
  /\ Derivable
  /\ ledger[n].type = "human_ratification"
  /\ Target # ledger[n].ref
  /\ \A i \in EntriesOf({"promotion_inscribed"}) : ledger[i].of # n
  /\ previous # None /\ Target # None => previous = Target

ZoneAttested == zone = manifest

\* evaluate_breakers, over a ledger that verifies.
Tripped(lineage, touchesFrozen, overBudget) ==
  \/ ~ZoneAttested
  \/ touchesFrozen
  \/ HoldoutExhausted
  \/ TrailingRejections >= RejectLimit
  \/ Withered(lineage)
  \/ overBudget

-----------------------------------------------------------------------------
(* Commands                                                                *)

Idle == [ pc |-> "idle", next |-> "idle", entry |-> Blank, run |-> 0, lineage |-> None,
          zone |-> None, at |-> 0 ]

At(p, step)   == loc[p].pc = step
Goto(p, step) == loc' = [ loc EXCEPT ![p].pc = step ]
End(p)        == loc' = [ loc EXCEPT ![p] = Idle ]

\* append_meta_event up to the writing; a ledger that does not verify ends the
\* command, and a rejection could not be recorded in it either.
AppendEntry(p, e, next, state) ==
  IF Clean
    THEN loc' = [ loc EXCEPT ![p] =
                    [ state EXCEPT !.pc = "write", !.next = next,
                                   !.entry = [ e EXCEPT !.seq = Len(ledger) ] ] ]
    ELSE End(p)

\* What is written goes at the end of the file, on the last line if that one was
\* never ended: the two together are no line.
Written(line) ==
  IF ledger # <<>> /\ ~ledger[Len(ledger)].ended
    THEN Append(Front(ledger), Blank)
    ELSE Append(ledger, line)

WriteEntry(p) ==
  /\ At(p, "write")
  /\ ledger' = Written([ loc[p].entry EXCEPT !.ended = TRUE ])
  /\ loc' = [ loc EXCEPT ![p] =
                IF loc[p].next = "idle" THEN Idle
                ELSE [ loc[p] EXCEPT !.pc = loc[p].next, !.next = "idle", !.entry = Blank,
                                     !.at = Len(ledger') ] ]
  /\ UNCHANGED <<zone, manifest, runs, commands, kills>>

Entry(p, type) == [ Blank EXCEPT !.type = type, !.run = loc[p].run ]

\* Append the entry and go on with the iteration at the next step.
Record(p, e, next) == AppendEntry(p, e, next, loc[p])

\* append_rejection ("rejected" is any of REJECTION_EVENTS), after which the iteration is over.
Reject(p) == Record(p, [ Entry(p, "rejected") EXCEPT !.lineage = loc[p].lineage ], "idle")

Fixed == UNCHANGED <<ledger, zone, manifest, runs, commands, kills>>

Init ==
  /\ ledger   = <<>>
  /\ zone     = CHOOSE z \in Zones : TRUE
  /\ manifest = zone
  /\ loc      = [ p \in Procs |-> Idle ]
  /\ runs     = 0
  /\ commands = 0
  /\ kills    = 0

-----------------------------------------------------------------------------
(* run_autolab_iteration                                                   *)

\* No halt is active; the breakers decide whether the controller is entered.
Preflight(p, lineage, touchesFrozen, overBudget) ==
  /\ At(p, "idle")
  /\ runs < MaxRuns /\ runs + commands < MaxStarts
  /\ Clean
  /\ ActiveHalt = 0
  /\ runs' = runs + 1
  /\ LET started == [ Idle EXCEPT !.run = runs + 1, !.lineage = lineage ]
     IN IF Tripped(lineage, touchesFrozen, overBudget)
          THEN AppendEntry(p, [ Blank EXCEPT !.type = "autolab_halted", !.run = runs + 1 ],
                           "idle", started)
          ELSE loc' = [ loc EXCEPT ![p] = [ started EXCEPT !.pc = "attest_pre" ] ]
  /\ UNCHANGED <<ledger, zone, manifest, commands, kills>>

AttestPre(p) ==
  /\ At(p, "attest_pre")
  /\ IF ZoneAttested
       THEN AppendEntry(p, [ Entry(p, "zone_attested_pre") EXCEPT !.zone = zone ], "declare",
                        [ loc[p] EXCEPT !.zone = zone ])
       ELSE Reject(p)
  /\ Fixed

\* A declaration of another phase is rejected; a malformed one raises out of the
\* runner, which catches controller errors only.
Declare(p) ==
  /\ At(p, "declare")
  /\ \/ Record(p, Entry(p, "declaration_sealed"), "reserve")
     \/ Reject(p)
     \/ End(p)
  /\ Fixed

\* Holdout units are taken before the builder runs, or none are asked for; units
\* that are no number raise out of the runner.
Reserve(p) ==
  /\ At(p, "reserve")
  /\ \/ Goto(p, "invoke")
     \/ \E units \in Asks :
          /\ UnitsUsed + units <= MaxUses
          /\ Record(p, [ Entry(p, "holdout_budget_consumed") EXCEPT
                           !.units = units, !.left = MaxUses - (UnitsUsed + units) ], "invoke")
     \/ Reject(p)
     \/ End(p)
  /\ Fixed

Invoke(p) ==
  /\ At(p, "invoke")
  /\ Record(p, Entry(p, "builder_invoked"), "build")
  /\ Fixed

\* The builder may do anything to the frozen files and to their manifest, and may
\* raise, which ends the iteration without a record.
Build(p) ==
  /\ At(p, "build")
  /\ zone' \in Zones
  /\ manifest' \in {manifest, zone'}
  /\ Goto(p, "complete") \/ End(p)
  /\ UNCHANGED <<ledger, runs, commands, kills>>

Complete(p) ==
  /\ At(p, "complete")
  /\ Record(p, Entry(p, "builder_completed"), "attest_post")
  /\ Fixed

\* Mutant of AttestPost: a zone resealed by the builder passes.
AttestPostAlone(p) ==
  /\ At(p, "attest_post")
  /\ IF ZoneAttested
       THEN Record(p, [ Entry(p, "zone_attested_post") EXCEPT !.zone = zone ], "decide")
       ELSE Reject(p)
  /\ Fixed

AttestPost(p) ==
  /\ At(p, "attest_post")
  /\ IF ZoneAttested /\ zone = loc[p].zone
       THEN Record(p, [ Entry(p, "zone_attested_post") EXCEPT !.zone = zone ], "decide")
       ELSE Reject(p)
  /\ Fixed

\* The evaluator's report makes the gate red or green (or raises); a green gate
\* still needs a human record, for this report, that approves and whose token the
\* caller has.  A builder may name the lineage the caller did not.
Decide(p) ==
  /\ At(p, "decide")
  /\ \/ \E lineage \in IF loc[p].lineage = None THEN Lineages \cup {None} ELSE {loc[p].lineage} :
          LET judged == [ loc[p] EXCEPT !.lineage = lineage ]
          IN \/ AppendEntry(p, [ Entry(p, "rejected") EXCEPT !.lineage = lineage ], "idle", judged)
             \/ \E target \in Refs :
                  AppendEntry(p, [ Entry(p, "human_ratification") EXCEPT !.ref = target ],
                              "inscribe", judged)
     \/ End(p)
  /\ Fixed

\* The inscription of the ratification in line n.
Inscription(run, n, previous) ==
  [ Blank EXCEPT !.type = "promotion_inscribed", !.run = run, !.ref = ledger[n].ref,
                 !.prev = IF previous = None THEN Target ELSE previous, !.of = n ]

Inscribe(p) ==
  /\ At(p, "inscribe")
  /\ \E previous \in Refs \cup {None} :
       IF Clean /\ Inscribable(loc[p].at, previous)
         THEN Record(p, Inscription(loc[p].run, loc[p].at, previous), "postflight")
         ELSE Reject(p)
  /\ Fixed

\* The breakers again, with the paths the builder says it changed; what has been
\* spent is what the caller said before, so cost and time cannot trip now.
Postflight(p) ==
  /\ At(p, "postflight")
  /\ \E touchesFrozen \in BOOLEAN :
       IF Clean /\ Tripped(loc[p].lineage, touchesFrozen, FALSE) /\ ActiveHalt = 0
         THEN Record(p, Entry(p, "autolab_halted"), "idle")
         ELSE End(p)
  /\ Fixed

-----------------------------------------------------------------------------
(* What an operator does                                                   *)

Command(p) ==
  /\ At(p, "idle")
  /\ Clean
  /\ runs + commands < MaxStarts
  /\ commands' = commands + 1
  /\ UNCHANGED <<ledger, zone, manifest, runs, kills>>

\* append_halt, with a report of breakers evaluated by hand.
HaltByHand(p) ==
  /\ Command(p)
  /\ ActiveHalt = 0
  /\ AppendEntry(p, [ Blank EXCEPT !.type = "autolab_halted" ], "idle", Idle)

\* append_restart_clearance: the clearance binds the active halt.
Restart(p) ==
  /\ Command(p)
  /\ ActiveHalt # 0
  /\ AppendEntry(p, [ Blank EXCEPT !.type = "autolab_restart_authorized", !.of = ActiveHalt ],
                 "idle", Idle)

\* append_rollback, from the current target to another one.
Rollback(p, restore) ==
  /\ Command(p)
  /\ Derivable
  /\ Target # None
  /\ restore # Target
  /\ AppendEntry(p, [ Blank EXCEPT !.type = "rollback_inscribed", !.ref = restore,
                                   !.prev = Target ], "idle", Idle)

\* append_promotion_inscription on its own, for a ratification left uninscribed.
InscribeByHand(p, n, previous) ==
  /\ Command(p)
  /\ Inscribable(n, previous)
  /\ AppendEntry(p, Inscription(0, n, previous), "idle", Idle)

\* Somebody edits the frozen files, or seals the zone as it is by an amendment.
EditZone ==
  /\ runs + commands < MaxStarts
  /\ commands' = commands + 1
  /\ \/ zone' \in Zones \ {zone} /\ UNCHANGED manifest
     \/ manifest # zone /\ manifest' = zone /\ UNCHANGED zone
  /\ UNCHANGED <<ledger, loc, runs, kills>>

\* A kill in the middle of a write may leave a part of the line, or all of it but
\* its end.
Kill(p) ==
  /\ ~At(p, "idle")
  /\ kills < MaxKills
  /\ kills' = kills + 1
  /\ End(p)
  /\ \/ UNCHANGED ledger
     \/ At(p, "write") /\ ledger' \in { Written(Blank), Written(loc[p].entry) }
  /\ UNCHANGED <<zone, manifest, runs, commands>>

-----------------------------------------------------------------------------

Iterate(p) ==
  \/ \E lineage \in Lineages \cup {None}, touchesFrozen, overBudget \in BOOLEAN :
       Preflight(p, lineage, touchesFrozen, overBudget)
  \/ AttestPre(p)
  \/ Declare(p)
  \/ Reserve(p)
  \/ Invoke(p)
  \/ Build(p)
  \/ Complete(p)
  \/ AttestPost(p)
  \/ Decide(p)
  \/ Inscribe(p)
  \/ Postflight(p)

Operate(p) ==
  \/ HaltByHand(p)
  \/ Restart(p)
  \/ \E restore \in Refs : Rollback(p, restore)
  \/ \E n \in DOMAIN ledger, previous \in Refs \cup {None} : InscribeByHand(p, n, previous)

Next ==
  \/ \E p \in Procs : Iterate(p) \/ Operate(p) \/ WriteEntry(p) \/ Kill(p)
  \/ EditZone

Spec == Init /\ [][Next]_vars

-----------------------------------------------------------------------------
(* What holds while one command runs at a time                             *)

EntryTypes ==
  { "torn", "rejected", "zone_attested_pre", "declaration_sealed", "holdout_budget_consumed",
    "builder_invoked", "builder_completed", "zone_attested_post", "human_ratification",
    "promotion_inscribed", "rollback_inscribed", "autolab_halted",
    "autolab_restart_authorized" }

Steps ==
  { "idle", "write", "attest_pre", "declare", "reserve", "invoke", "build", "complete",
    "attest_post", "decide", "inscribe", "postflight" }

\* Variables keep their types, and the chain is broken by nothing but a torn line
\* at its end.
TypeOK ==
  /\ \A i \in DOMAIN ledger :
       /\ ledger[i].type \in EntryTypes
       /\ ledger[i].of < i
       /\ ledger[i].left \in 0..MaxUses
       /\ ledger[i].type = "torn" => i = Len(ledger)
       /\ ledger[i].type # "torn" => ledger[i].seq = i - 1
  /\ zone \in Zones /\ manifest \in Zones
  /\ \A p \in Procs : loc[p].pc \in Steps /\ loc[p].next \in Steps \ {"write"}

\* Some halt has no clearance that names it.
Uncleared ==
  \E i \in EntriesOf({"autolab_halted"}) :
     \A j \in EntriesOf({"autolab_restart_authorized"}) : ledger[j].of # i

Hold ==
  INSTANCE HaltAndHold WITH halted   <- Uncleared \/ ~Clean,
                            building <- \E p \in Procs : At(p, "build")

\* No builder works under a halt, and a halt stands, whatever else is recorded,
\* until a clearance that names it; a ledger that is broken is a hold for ever.
ImplementsHold == Hold!Spec

\* The holdout budget is never overdrawn, also when iterations that took from it
\* were killed before their builder ran; and once it is spent the loop is over,
\* restarts or not: only the builder that spent it is ever invoked again.
BudgetHeld ==
  /\ UnitsOf(Receipts) <= MaxUses
  /\ \A i \in Receipts : ledger[i].left = 0 =>
       \A j \in EntriesOf({"builder_invoked"}) : i < j => ledger[j].run = ledger[i].run

\* The current target can always be derived, each ratification is inscribed at most
\* once, and nothing else becomes current but by a rollback.
LineageSound ==
  /\ Derivable
  /\ \A i \in EntriesOf({"promotion_inscribed"}) :
       /\ ledger[ledger[i].of].type = "human_ratification"
       /\ ledger[ledger[i].of].ref = ledger[i].ref
       /\ \A j \in EntriesOf({"promotion_inscribed"}) : ledger[j].of = ledger[i].of => j = i

\* A candidate is ratified only if the frozen zone was attested before and after
\* its builder, and is the same.
RatifiedZone ==
  \A i \in EntriesOf({"human_ratification"}) :
     \E pre \in EntriesOf({"zone_attested_pre"}), built \in EntriesOf({"builder_invoked"}),
        post \in EntriesOf({"zone_attested_post"}) :
          /\ { ledger[j].run : j \in {pre, built, post} } = {ledger[i].run}
          /\ pre < built /\ built < post /\ post < i
          /\ ledger[pre].zone = ledger[post].zone

=============================================================================
