---------------------------- MODULE AutoLab_proofs ----------------------------
(***************************************************************************)
(* What AutoLab promises for one command at a time and any number of them, *)
(* of kills, of lines cut short and of edits of the frozen zone.           *)
(*                                                                         *)
(* The inductive invariant is about each line of the meta-ledger and the   *)
(* lines before it alone.  It therefore outlives both things that happen   *)
(* to the file: a line is added, or the last one is lost to a write onto   *)
(* an unfinished one.                                                      *)
(***************************************************************************)
EXTENDS AutoLab, SequenceTheorems, FiniteSetTheorems, WellFoundedInduction, TLAPS

\* One command at a time.
OneCommand == \A p, q \in Procs : p = q

-----------------------------------------------------------------------------
(* The invariant.                                                          *)

IsLine(e) ==
  e = [ seq |-> e.seq, type |-> e.type, run |-> e.run, lineage |-> e.lineage,
        units |-> e.units, left |-> e.left, ref |-> e.ref, prev |-> e.prev, of |-> e.of,
        zone |-> e.zone, ended |-> e.ended ]

\* An attestation before the builder of the run, its invocation after it, and so on.
AttestedIn(run, z, pre) ==
  pre \in EntriesOf({"zone_attested_pre"}) /\ ledger[pre].run = run /\ ledger[pre].zone = z

InvokedIn(run, built) == built \in EntriesOf({"builder_invoked"}) /\ ledger[built].run = run

PreDone(run, z) == \E pre \in DOMAIN ledger : AttestedIn(run, z, pre)

BuildDone(run, z) ==
  \E pre, built \in DOMAIN ledger : AttestedIn(run, z, pre) /\ InvokedIn(run, built) /\ pre < built

\* Before line n the run has both attestations around its builder, with one zone.
ZoneKept(run, n) ==
  \E pre, built, post \in DOMAIN ledger :
    /\ AttestedIn(run, ledger[post].zone, pre) /\ InvokedIn(run, built)
    /\ post \in EntriesOf({"zone_attested_post"}) /\ ledger[post].run = run
    /\ pre < built /\ built < post /\ post < n

\* Units taken by the receipts before line n.
UnitsBefore(n) == UnitsOf({ i \in Receipts : i < n })

\* A receipt that left nothing, before line n, is one of this run.
SpentBy(run, n) == \A i \in Receipts : i < n /\ ledger[i].left = 0 => ledger[i].run = run

(* e can be line n, after the lines in front of it.                        *)
Follows(e, n) ==
  \* the halts before a halt were cleared before it
  /\ e.type = "autolab_halted" =>
       \A i \in EntriesOf({"autolab_halted"}) : i < n =>
         \E j \in EntriesOf({"autolab_restart_authorized"}) : j < n /\ ledger[j].of = i
  \* the target goes from the current one
  /\ e.type \in {"promotion_inscribed", "rollback_inscribed"} =>
       e.prev = TargetBefore(n) \/ (e.type = "promotion_inscribed" /\ TargetBefore(n) = None)
  \* to that of a ratification not inscribed before
  /\ e.type = "promotion_inscribed" =>
       /\ e.of \in DOMAIN ledger /\ e.of < n
       /\ ledger[e.of].type = "human_ratification" /\ ledger[e.of].ref = e.ref
       /\ \A i \in EntriesOf({"promotion_inscribed"}) : i < n => ledger[i].of # e.of
  \* nothing is ratified whose zone was not attested
  /\ e.type = "human_ratification" => ZoneKept(e.run, n)
  \* a receipt takes from what those before it have left
  /\ e.type = "holdout_budget_consumed" =>
       /\ e.units \in Nat
       /\ UnitsBefore(n) + e.units <= MaxUses
       /\ e.left = MaxUses - (UnitsBefore(n) + e.units)
  \* and when nothing is left, the builder is that of the run that took it
  /\ e.type = "builder_invoked" => SpentBy(e.run, n)

LedgerSound ==
  /\ ledger \in Seq({ ledger[i] : i \in DOMAIN ledger })
  /\ \A i \in DOMAIN ledger : IsLine(ledger[i]) /\ Follows(ledger[i], i)

Ended == ledger # <<>> => ledger[Len(ledger)].ended

(* What an iteration relies on at a step, in a ledger that verifies.       *)
Relies(me, step) ==
  /\ step \in {"attest_pre", "declare", "reserve", "invoke", "build"} => ~Uncleared
  /\ step \in {"attest_pre", "declare", "reserve", "invoke"} => SpentBy(me.run, Len(ledger) + 1)
  /\ step \in {"declare", "reserve", "invoke"} => Ended
  /\ step \in {"declare", "reserve", "invoke"} => PreDone(me.run, me.zone)
  /\ step \in {"build", "complete", "attest_post"} => BuildDone(me.run, me.zone)
  /\ step = "decide" => ZoneKept(me.run, Len(ledger) + 1)
  /\ step = "inscribe" => me.at \in DOMAIN ledger

(* What a line adds to that when it is written.                            *)
Brings(me, e, step) ==
  /\ step # "idle" => e.type # "autolab_halted"
  /\ step \in {"declare", "reserve", "invoke", "build"} => ~Uncleared
  /\ step \in {"declare", "reserve", "invoke"} => SpentBy(me.run, Len(ledger) + 1) /\ e.run = me.run
  /\ step = "declare" => e.type = "zone_attested_pre" /\ e.run = me.run /\ e.zone = me.zone
  /\ step \in {"reserve", "invoke", "build"} => Ended /\ PreDone(me.run, me.zone)
  /\ step = "build" => e.type = "builder_invoked" /\ e.run = me.run
  /\ step \in {"attest_post", "decide"} => BuildDone(me.run, me.zone)
  /\ step = "decide" => e.type = "zone_attested_post" /\ e.run = me.run /\ e.zone = me.zone
  /\ step \notin {"attest_pre", "complete", "write"}

StateSound(me) ==
  /\ me = [ pc |-> me.pc, next |-> me.next, entry |-> me.entry, run |-> me.run,
            lineage |-> me.lineage, zone |-> me.zone, at |-> me.at ]
  /\ IsLine(me.entry)
  /\ me.pc = "write" =>
       /\ Clean
       /\ me.entry.seq = Len(ledger) /\ me.entry.type # "torn"
       /\ Follows(me.entry, Len(ledger) + 1)
       /\ Brings(me, me.entry, me.next)
  /\ Clean => Relies(me, me.pc)
  /\ me.pc = "build" => Clean

IInv ==
  /\ LedgerSound
  /\ loc = [ p \in Procs |-> loc[p] ]
  /\ \A p \in Procs : StateSound(loc[p])

-----------------------------------------------------------------------------
(* The file.                                                               *)

LEMMA BlankIsLine == IsLine(Blank) /\ Blank.type = "torn" /\ \A n : Follows(Blank, n)
  BY DEF Blank, IsLine, Follows

\* The number and the end of a line say nothing of its place.
LEMMA NumberedLine ==
  ASSUME NEW e, IsLine(e), NEW x
  PROVE  /\ IsLine([e EXCEPT !.seq = x]) /\ [e EXCEPT !.seq = x].seq = x
         /\ [e EXCEPT !.seq = x].type = e.type /\ [e EXCEPT !.seq = x].run = e.run
         /\ [e EXCEPT !.seq = x].zone = e.zone
         /\ \A n : Follows(e, n) => Follows([e EXCEPT !.seq = x], n)
<1> DEFINE f == [e EXCEPT !.seq = x]
<1>1. /\ IsLine(f) /\ f.seq = x /\ f.type = e.type /\ f.run = e.run /\ f.zone = e.zone
      /\ f.of = e.of /\ f.ref = e.ref /\ f.prev = e.prev /\ f.units = e.units /\ f.left = e.left
  BY DEF IsLine
<1> HIDE DEF f
<1>2. \A n : Follows(e, n) => Follows(f, n)
  BY <1>1 DEF Follows
<1> QED BY <1>1, <1>2 DEF f

LEMMA EndedLine ==
  ASSUME NEW e, IsLine(e), NEW f, f = [e EXCEPT !.ended = TRUE], NEW n, Follows(e, n)
  PROVE  /\ IsLine(f) /\ f.ended = TRUE /\ f.seq = e.seq /\ f.type = e.type
         /\ f.run = e.run /\ f.zone = e.zone /\ Follows(f, n)
<1>1. /\ f = [ seq |-> e.seq, type |-> e.type, run |-> e.run, lineage |-> e.lineage,
               units |-> e.units, left |-> e.left, ref |-> e.ref, prev |-> e.prev,
               of |-> e.of, zone |-> e.zone, ended |-> TRUE ]
  BY DEF IsLine
<1>2. /\ IsLine(f) /\ f.ended = TRUE /\ f.seq = e.seq /\ f.type = e.type /\ f.run = e.run
      /\ f.zone = e.zone /\ f.of = e.of /\ f.ref = e.ref /\ f.prev = e.prev
      /\ f.units = e.units /\ f.left = e.left
  BY <1>1 DEF IsLine
<1>3. Follows(f, n)
  BY <1>2 DEF Follows
<1> QED BY <1>2, <1>3

LEMMA Positions ==
  ASSUME LedgerSound
  PROVE  Len(ledger) \in Nat /\ DOMAIN ledger = 1 .. Len(ledger)
  BY LenProperties DEF LedgerSound

(* A write adds the line, or destroys the last one that was not ended.     *)
LEMMA WrittenCases ==
  ASSUME LedgerSound, NEW line, ledger' = Written(line)
  PROVE  /\ ledger' \in Seq({ ledger'[i] : i \in DOMAIN ledger' })
         /\ \/ /\ Ended
               /\ Len(ledger') = Len(ledger) + 1 /\ DOMAIN ledger' = 1 .. Len(ledger) + 1
               /\ \A i \in DOMAIN ledger : ledger'[i] = ledger[i]
               /\ ledger'[Len(ledger) + 1] = line
            \/ /\ ~Ended /\ Len(ledger) > 0
               /\ Len(ledger') = Len(ledger) /\ DOMAIN ledger' = 1 .. Len(ledger)
               /\ \A i \in 1 .. Len(ledger) - 1 : ledger'[i] = ledger[i]
               /\ ledger'[Len(ledger)] = Blank
<1> DEFINE S == { ledger[i] : i \in DOMAIN ledger } \cup {line, Blank}
<1>1. ledger \in Seq(S) /\ line \in S /\ Blank \in S
  BY SeqMonotonic DEF LedgerSound
<1> HIDE DEF S
<1>2. Len(ledger) \in Nat /\ DOMAIN ledger = 1 .. Len(ledger)
  BY Positions
<1>3. CASE ~(ledger # <<>> /\ ~ledger[Len(ledger)].ended)
  <2>1. ledger' = Append(ledger, line)
    BY <1>3 DEF Written
  <2>2. ledger' \in Seq(S)
    BY <1>1, <2>1, AppendProperties
  <2>3. ledger' \in Seq({ ledger'[i] : i \in DOMAIN ledger' })
    BY <2>2, SeqOfRange DEF Range
  <2>4. /\ Len(ledger') = Len(ledger) + 1
        /\ \A i \in 1 .. Len(ledger) : ledger'[i] = ledger[i]
        /\ ledger'[Len(ledger) + 1] = line
    BY <1>1, <2>1, AppendProperties
  <2>5. DOMAIN ledger' = 1 .. Len(ledger) + 1
    BY <2>2, <2>4, LenProperties
  <2> QED BY <1>2, <1>3, <2>3, <2>4, <2>5 DEF Ended
<1>4. CASE ledger # <<>> /\ ~ledger[Len(ledger)].ended
  <2> DEFINE F == SubSeq(ledger, 1, Len(ledger) - 1)
  <2>1. Len(ledger) > 0
    BY <1>1, <1>2, <1>4, EmptySeq
  <2>2. /\ F \in Seq(S) /\ Len(F) = Len(ledger) - 1
        /\ \A i \in 1 .. Len(ledger) - 1 : F[i] = ledger[i]
    BY <1>1, <1>2, <2>1, SubSeqProperties
  <2>3. ledger' = Append(F, Blank)
    BY <1>4 DEF Written, Front
  <2> HIDE DEF F
  <2>4. ledger' \in Seq(S)
    BY <1>1, <2>2, <2>3, AppendProperties
  <2>5. ledger' \in Seq({ ledger'[i] : i \in DOMAIN ledger' })
    BY <2>4, SeqOfRange DEF Range
  <2>6. /\ Len(ledger') = Len(F) + 1
        /\ \A i \in 1 .. Len(F) : ledger'[i] = F[i]
        /\ ledger'[Len(F) + 1] = Blank
    BY <1>1, <2>2, <2>3, AppendProperties
  <2>7. Len(F) + 1 = Len(ledger)
    BY <1>2, <2>2
  <2>8. DOMAIN ledger' = 1 .. Len(ledger)
    BY <2>4, <2>6, <2>7, LenProperties
  <2> QED BY <1>4, <2>1, <2>2, <2>5, <2>6, <2>7, <2>8 DEF Ended
<1> QED BY <1>3, <1>4

(* A set of lines that is not empty has a latest one.                      *)
LEMMA LatestOf ==
  ASSUME NEW n \in Nat, NEW S \in SUBSET (1 .. n), S # {}
  PROVE  Latest(S) \in S /\ \A i \in S : i <= Latest(S)
<1> DEFINE T == { n - i : i \in S }
<1>1. T \subseteq Nat
  BY SMT
<1>2. T # {}
  OBVIOUS
<1>3. \E x \in T : \A y \in T : ~(<<y, x>> \in OpToRel(<, Nat))
  <2> DEFINE R == OpToRel(<, Nat)
  <2>1. IsWellFoundedOn(R, Nat)
    BY NatLessThanWellFounded
  <2> HIDE DEF R, T
  <2>2. \E x \in T : \A y \in T : ~(<<y, x>> \in R)
    BY <1>1, <1>2, <2>1, WFMin
  <2> QED BY <2>2 DEF R
<1>4. \E x \in T : \A y \in T : ~(y < x)
  BY <1>1, <1>3 DEF OpToRel
<1>5. \E m \in S : \A i \in S : m >= i
  BY <1>4
<1> QED BY <1>5 DEF Latest, Max

\* The target before a line depends on the lines before it alone.
LEMMA TargetAgrees ==
  ASSUME NEW n \in Nat \ {0},
         \A i \in 1 .. n - 1 : i \in DOMAIN ledger /\ i \in DOMAIN ledger' /\ ledger'[i] = ledger[i],
         DOMAIN ledger \subseteq Nat \ {0}, DOMAIN ledger' \subseteq Nat \ {0}
  PROVE  TargetBefore(n)' = TargetBefore(n)
<1> DEFINE S == { i \in LineageEntries : i < n }
<1>1. { i \in LineageEntries' : i < n } = S
  BY DEF LineageEntries, EntriesOf
<1>2. S \in SUBSET (1 .. n - 1) /\ n - 1 \in Nat
  BY DEF LineageEntries, EntriesOf
<1>3. CASE S = {}
  BY <1>1, <1>3 DEF TargetBefore, Latest
<1>4. CASE S # {}
  <2>1. Latest(S) \in S
    BY <1>2, <1>4, LatestOf
  <2>2. ledger'[Latest(S)] = ledger[Latest(S)]
    BY <1>2, <2>1
  <2> HIDE DEF S
  <2>3. TargetBefore(n)' = IF Latest(S) = 0 THEN None ELSE ledger'[Latest(S)].ref
    BY <1>1 DEF TargetBefore
  <2>4. TargetBefore(n) = IF Latest(S) = 0 THEN None ELSE ledger[Latest(S)].ref
    BY DEF TargetBefore, S
  <2> QED BY <2>2, <2>3, <2>4
<1> QED BY <1>3, <1>4

\* So does what the receipts before a line have taken and left.
LEMMA ReceiptsAgree ==
  ASSUME NEW n \in Nat \ {0},
         \A i \in 1 .. n - 1 : i \in DOMAIN ledger /\ i \in DOMAIN ledger' /\ ledger'[i] = ledger[i],
         DOMAIN ledger \subseteq Nat \ {0}, DOMAIN ledger' \subseteq Nat \ {0}
  PROVE  /\ UnitsBefore(n)' = UnitsBefore(n)
         /\ \A run : SpentBy(run, n) => SpentBy(run, n)'
<1>1. { i \in Receipts' : i < n } = { i \in Receipts : i < n }
  BY DEF Receipts, EntriesOf
<1>2. \A i \in { j \in Receipts : j < n } : ledger'[i] = ledger[i]
  BY DEF Receipts, EntriesOf
<1>3. UnitsBefore(n)' = UnitsBefore(n)
  <2> DEFINE S == { i \in Receipts : i < n }
  <2>1. { {i} \X (1 .. ledger'[i].units) : i \in S } = { {i} \X (1 .. ledger[i].units) : i \in S }
    BY <1>2
  <2> HIDE DEF S
  <2>2. UnitsOf(S)' = Cardinality(UNION { {i} \X (1 .. ledger'[i].units) : i \in S' })
    BY DEF UnitsOf, UnitsIn
  <2>3. UnitsOf(S) = Cardinality(UNION { {i} \X (1 .. ledger[i].units) : i \in S })
    BY DEF UnitsOf, UnitsIn
  <2>4. S' = S
    BY <1>1 DEF S
  <2> QED BY <2>1, <2>2, <2>3, <2>4 DEF UnitsBefore, S
<1>4. \A run : SpentBy(run, n) => SpentBy(run, n)'
  BY <1>1, <1>2 DEF SpentBy
<1> QED BY <1>3, <1>4

(* What can be line n still can when the lines before it stay.             *)
LEMMA FollowsAgree ==
  ASSUME NEW n \in Nat \ {0}, NEW e, Follows(e, n),
         \A i \in 1 .. n - 1 : i \in DOMAIN ledger /\ i \in DOMAIN ledger' /\ ledger'[i] = ledger[i],
         DOMAIN ledger \subseteq Nat \ {0}, DOMAIN ledger' \subseteq Nat \ {0}
  PROVE  Follows(e, n)'
<1>1. \A types, i : i < n => (i \in EntriesOf(types) <=> i \in EntriesOf(types)')
  BY DEF EntriesOf
<1>2. TargetBefore(n)' = TargetBefore(n)
  BY TargetAgrees
<1>3. e.type = "human_ratification" => ZoneKept(e.run, n)'
  BY DEF Follows, ZoneKept, AttestedIn, InvokedIn, EntriesOf
<1>4. e.type = "autolab_halted" =>
        \A i \in EntriesOf({"autolab_halted"})' : i < n =>
          \E j \in EntriesOf({"autolab_restart_authorized"})' : j < n /\ ledger'[j].of = i
  BY <1>1 DEF Follows, EntriesOf
<1>5. e.type = "promotion_inscribed" =>
       /\ e.of \in DOMAIN ledger' /\ e.of < n
       /\ ledger'[e.of].type = "human_ratification" /\ ledger'[e.of].ref = e.ref
       /\ \A i \in EntriesOf({"promotion_inscribed"})' : i < n => ledger'[i].of # e.of
  BY <1>1 DEF Follows, EntriesOf
<1> QED BY <1>2, <1>3, <1>4, <1>5, ReceiptsAgree DEF Follows

\* Writing a line that follows keeps the ledger sound.
LEMMA WriteSound ==
  ASSUME LedgerSound, NEW line, IsLine(line), Follows(line, Len(ledger) + 1),
         ledger' = Written(line)
  PROVE  LedgerSound'
<1>1. Len(ledger) \in Nat /\ DOMAIN ledger = 1 .. Len(ledger)
  BY Positions
<1>2. ASSUME NEW k \in Nat, k <= Len(ledger), DOMAIN ledger' \in {1 .. k, 1 .. k + 1},
             \A i \in 1 .. k : ledger'[i] = ledger[i],
             NEW e, NEW n \in Nat \ {0}, n <= k + 1, Follows(e, n)
      PROVE  Follows(e, n)'
  <2>1. \A i \in 1 .. n - 1 : i \in DOMAIN ledger /\ i \in DOMAIN ledger' /\ ledger'[i] = ledger[i]
    BY <1>1, <1>2
  <2>2. DOMAIN ledger \subseteq Nat \ {0} /\ DOMAIN ledger' \subseteq Nat \ {0}
    BY <1>1, <1>2
  <2> QED BY <1>2, <2>1, <2>2, FollowsAgree
<1>3. \A i \in DOMAIN ledger' : (IsLine(ledger[i]) /\ Follows(ledger[i], i))'
  <2>1. CASE /\ DOMAIN ledger' = 1 .. Len(ledger) + 1
             /\ \A i \in DOMAIN ledger : ledger'[i] = ledger[i]
             /\ ledger'[Len(ledger) + 1] = line
    <3> SUFFICES ASSUME NEW i \in DOMAIN ledger', NEW e, e = ledger'[i]
                 PROVE  IsLine(e) /\ Follows(e, i)'
      BY DEF IsLine
    <3>1. IsLine(e) /\ Follows(e, i) /\ i \in Nat \ {0} /\ i <= Len(ledger) + 1
      BY <1>1, <2>1 DEF LedgerSound
    <3> QED BY <1>1, <1>2, <2>1, <3>1
  <2>2. CASE /\ Len(ledger) > 0 /\ DOMAIN ledger' = 1 .. Len(ledger)
             /\ \A i \in 1 .. Len(ledger) - 1 : ledger'[i] = ledger[i]
             /\ ledger'[Len(ledger)] = Blank
    <3> SUFFICES ASSUME NEW i \in DOMAIN ledger', NEW e, e = ledger'[i]
                 PROVE  IsLine(e) /\ Follows(e, i)'
      BY DEF IsLine
    <3>1. IsLine(e) /\ Follows(e, i) /\ i \in Nat \ {0} /\ i <= Len(ledger)
      BY <1>1, <2>2, BlankIsLine DEF LedgerSound
    <3> DEFINE k == Len(ledger) - 1
    <3>2. /\ k \in Nat /\ k <= Len(ledger) /\ DOMAIN ledger' = 1 .. k + 1 /\ i <= k + 1
          /\ \A j \in 1 .. k : ledger'[j] = ledger[j]
      BY <1>1, <2>2, <3>1
    <3> HIDE DEF k
    <3> QED BY <1>2, <3>1, <3>2
  <2> QED BY <2>1, <2>2, WrittenCases
<1> QED BY <1>3, WrittenCases DEF LedgerSound

-----------------------------------------------------------------------------
(* Halts and clearances.                                                   *)

\* When no halt is in force, all were cleared.
LEMMA NoneInForce ==
  ASSUME LedgerSound, ActiveHalt = 0
  PROVE  ~Uncleared
<1> SUFFICES ASSUME NEW h \in EntriesOf({"autolab_halted"}),
                    \A j \in EntriesOf({"autolab_restart_authorized"}) : ledger[j].of # h
             PROVE  FALSE
  BY DEF Uncleared
<1> DEFINE S == EntriesOf({"autolab_halted"})
<1>1. S \in SUBSET (1 .. Len(ledger)) /\ Len(ledger) \in Nat
  BY Positions DEF EntriesOf
<1>2. ASSUME NEW i \in S PROVE i <= h
  <2>1. ~(h < i)
    <3>1. Follows(ledger[i], i) /\ ledger[i].type = "autolab_halted"
      BY DEF LedgerSound, EntriesOf
    <3> QED BY <3>1 DEF Follows
  <2> QED BY <1>1, <2>1
<1>3. Latest(S) \in S /\ \A i \in S : i <= Latest(S)
  BY <1>1, LatestOf
<1>4. Latest(S) = h /\ h # 0
  BY <1>1, <1>2, <1>3
<1> HIDE DEF S
<1>5. ActiveHalt = IF \E i \in EntriesOf({"autolab_restart_authorized"}) : ledger[i].of = Latest(S)
                     THEN 0 ELSE Latest(S)
  BY DEF ActiveHalt, S
<1> QED BY <1>4, <1>5

\* A halt can be recorded then, and a rollback or an inscription at any time.
LEMMA HaltFollows ==
  ASSUME LedgerSound, ActiveHalt = 0, NEW e, e.type = "autolab_halted"
  PROVE  Follows(e, Len(ledger) + 1)
<1>1. Len(ledger) \in Nat /\ DOMAIN ledger = 1 .. Len(ledger)
  BY Positions
<1>2. \A i \in EntriesOf({"autolab_halted"}) :
        \E j \in EntriesOf({"autolab_restart_authorized"}) : ledger[j].of = i
  BY NoneInForce DEF Uncleared
<1>3. \A j \in EntriesOf({"autolab_restart_authorized"}) : j < Len(ledger) + 1
  BY <1>1 DEF EntriesOf
<1> QED BY <1>2, <1>3 DEF Follows

LEMMA InscriptionFollows ==
  ASSUME LedgerSound, NEW n, NEW previous, NEW run, Inscribable(n, previous), n \in DOMAIN ledger
  PROVE  IsLine(Inscription(run, n, previous)) /\ Follows(Inscription(run, n, previous), Len(ledger) + 1)
<1> DEFINE e == Inscription(run, n, previous)
<1>1. /\ IsLine(e) /\ e.type = "promotion_inscribed" /\ e.of = n /\ e.ref = ledger[n].ref
      /\ e.prev = IF previous = None THEN Target ELSE previous
  <2> DEFINE before == IF previous = None THEN Target ELSE previous
  <2>1. e = [ Blank EXCEPT !.type = "promotion_inscribed", !.run = run, !.ref = ledger[n].ref,
                           !.prev = before, !.of = n ]
    BY DEF Inscription
  <2>2. before = IF previous = None THEN Target ELSE previous
    OBVIOUS
  <2> HIDE DEF before, e
  <2>3. /\ IsLine(e) /\ e.type = "promotion_inscribed" /\ e.of = n /\ e.ref = ledger[n].ref
        /\ e.prev = before
    BY <2>1 DEF Blank, IsLine
  <2> QED BY <2>2, <2>3
<1> HIDE DEF e
<1>2. Len(ledger) \in Nat /\ DOMAIN ledger = 1 .. Len(ledger)
  BY Positions
<1>3. n < Len(ledger) + 1
  BY <1>2
<1>4. Follows(e, Len(ledger) + 1)
  BY <1>1, <1>3 DEF Follows, Inscribable, Target
<1> QED BY <1>1, <1>4 DEF e

LEMMA InscriptionType ==
  ASSUME NEW n, NEW previous, NEW run, NEW e, e = Inscription(run, n, previous)
  PROVE  e.type = "promotion_inscribed"
  BY DEF Inscription, Blank

LEMMA RollbackFollows ==
  ASSUME NEW e, e.type = "rollback_inscribed", e.prev = Target
  PROVE  Follows(e, Len(ledger) + 1)
  BY DEF Follows, Target

LEMMA OtherFollows ==
  ASSUME NEW e, NEW n,
         e.type \notin {"autolab_halted", "promotion_inscribed", "rollback_inscribed",
                        "human_ratification", "holdout_budget_consumed", "builder_invoked"}
  PROVE  Follows(e, n)
  BY DEF Follows

\* Every line is before the next one.
LEMMA BeforeNext ==
  ASSUME LedgerSound
  PROVE  /\ UnitsBefore(Len(ledger) + 1) = UnitsUsed
         /\ \A run : SpentBy(run, Len(ledger) + 1) <=>
                      \A i \in Receipts : ledger[i].left = 0 => ledger[i].run = run
<1>1. \A i \in Receipts : i < Len(ledger) + 1
  BY Positions DEF Receipts, EntriesOf
<1>2. { i \in Receipts : i < Len(ledger) + 1 } = Receipts
  BY <1>1
<1> QED BY <1>1, <1>2 DEF UnitsBefore, UnitsUsed, SpentBy

LEMMA ReceiptFollows ==
  ASSUME LedgerSound, NEW e, e.type = "holdout_budget_consumed", e.units \in Nat,
         UnitsUsed + e.units <= MaxUses, e.left = MaxUses - (UnitsUsed + e.units)
  PROVE  Follows(e, Len(ledger) + 1)
  BY BeforeNext DEF Follows

LEMMA InvocationFollows ==
  ASSUME NEW e, e.type = "builder_invoked", SpentBy(e.run, Len(ledger) + 1)
  PROVE  Follows(e, Len(ledger) + 1)
  BY DEF Follows

-----------------------------------------------------------------------------
(* What a command does between two writes.                                 *)

LEMMA IdleSound == StateSound(Idle) /\ Idle.pc = "idle"
  BY BlankIsLine DEF StateSound, Idle, Relies

\* Nothing that is said of a ledger depends on more than the ledger.
LEMMA SameLedger ==
  ASSUME ledger' = ledger
  PROVE  /\ Clean' = Clean /\ Ended' = Ended /\ Uncleared' = Uncleared
         /\ \A n : TargetBefore(n)' = TargetBefore(n)
         /\ \A run, z : PreDone(run, z)' = PreDone(run, z) /\ BuildDone(run, z)' = BuildDone(run, z)
         /\ \A run, n : ZoneKept(run, n)' = ZoneKept(run, n)
         /\ \A run, n : SpentBy(run, n)' <=> SpentBy(run, n)
         /\ \A e, n : Follows(e, n)' <=> Follows(e, n)
         /\ LedgerSound => LedgerSound'
<1>1. Clean' = Clean /\ Ended' = Ended /\ Uncleared' = Uncleared
  BY DEF Clean, Ended, Uncleared, EntriesOf
<1>2. \A n : TargetBefore(n)' = TargetBefore(n)
  BY DEF TargetBefore, LineageEntries, EntriesOf
<1>3. \A run, z : PreDone(run, z)' = PreDone(run, z) /\ BuildDone(run, z)' = BuildDone(run, z)
  BY DEF PreDone, BuildDone, AttestedIn, InvokedIn, EntriesOf
<1>4. \A run, n : ZoneKept(run, n)' = ZoneKept(run, n)
  BY DEF ZoneKept, AttestedIn, InvokedIn, EntriesOf
<1>5. \A types : EntriesOf(types)' = EntriesOf(types)
  BY DEF EntriesOf
<1>8. \A run, n : SpentBy(run, n)' <=> SpentBy(run, n)
  BY DEF SpentBy, Receipts, EntriesOf
<1>9. \A n : UnitsBefore(n)' = UnitsBefore(n)
  BY DEF UnitsBefore, UnitsOf, UnitsIn, Receipts, EntriesOf
<1>6. \A e, n : Follows(e, n)' <=> Follows(e, n)
  BY <1>2, <1>4, <1>5, <1>8, <1>9 DEF Follows
<1>7. ASSUME LedgerSound PROVE LedgerSound'
  <2>1. ASSUME NEW i \in DOMAIN ledger', NEW e, e = ledger'[i] PROVE IsLine(e) /\ Follows(e, i)'
    BY <1>6, <1>7, <2>1 DEF LedgerSound
  <2>2. \A i \in DOMAIN ledger' : (IsLine(ledger[i]) /\ Follows(ledger[i], i))'
    BY <2>1 DEF IsLine
  <2> QED BY <1>7, <2>2 DEF LedgerSound
<1> QED BY <1>1, <1>2, <1>3, <1>4, <1>6, <1>7, <1>8

\* No line is written, and the command goes on soundly.
LEMMA OnlyState ==
  ASSUME IInv, OneCommand, NEW p \in Procs, NEW state, StateSound(state),
         loc' = [ loc EXCEPT ![p] = state ], ledger' = ledger
  PROVE  IInv'
<1>1. LedgerSound'
  BY SameLedger DEF IInv
<1>2. loc' = [ q \in Procs |-> loc'[q] ]
  BY DEF IInv
<1>3. ASSUME NEW q \in Procs PROVE StateSound(loc[q])'
  <2>1. loc'[q] = state
    BY DEF OneCommand, IInv
  <2>2. Relies(state, state.pc)' = Relies(state, state.pc)
    BY SameLedger DEF Relies
  <2>3. Brings(state, state.entry, state.next)' = Brings(state, state.entry, state.next)
    BY SameLedger DEF Brings
  <2>4. StateSound(state)'
    BY <2>2, <2>3, SameLedger DEF StateSound
  <2> QED BY <2>1, <2>4
<1> QED BY <1>1, <1>2, <1>3 DEF IInv

LEMMA EndSound ==
  ASSUME IInv, OneCommand, NEW p \in Procs, End(p), ledger' = ledger
  PROVE  IInv'
  BY IdleSound, OnlyState DEF End

(* A line that follows, and brings what the next step relies on, may be    *)
(* taken to the file.                                                      *)
LEMMA AppendSound ==
  ASSUME IInv, OneCommand, NEW p \in Procs, NEW e, NEW next, NEW state,
         AppendEntry(p, e, next, state), ledger' = ledger,
         IsLine(e), e.type # "torn",
         state = [ pc |-> state.pc, next |-> state.next, entry |-> state.entry, run |-> state.run,
                   lineage |-> state.lineage, zone |-> state.zone, at |-> state.at ],
         Clean => Follows(e, Len(ledger) + 1) /\ Brings(state, e, next)
  PROVE  IInv'
<1>1. CASE ~Clean
  BY <1>1, EndSound DEF AppendEntry
<1>2. CASE Clean
  <2> DEFINE line == [ e EXCEPT !.seq = Len(ledger) ]
             me   == [ state EXCEPT !.pc = "write", !.next = next, !.entry = line ]
  <2>1. /\ IsLine(line) /\ line.seq = Len(ledger) /\ line.type = e.type
        /\ line.run = e.run /\ line.zone = e.zone /\ Follows(line, Len(ledger) + 1)
    BY <1>2, NumberedLine
  <2>2. loc' = [ loc EXCEPT ![p] = me ]
    BY <1>2 DEF AppendEntry
  <2> HIDE DEF line
  <2>3. /\ me = [ pc |-> "write", next |-> next, entry |-> line, run |-> state.run,
                  lineage |-> state.lineage, zone |-> state.zone, at |-> state.at ]
    <3> DEFINE base == [ pc |-> state.pc, next |-> state.next, entry |-> state.entry,
                         run |-> state.run, lineage |-> state.lineage, zone |-> state.zone,
                         at |-> state.at ]
    <3>1. state = base
      OBVIOUS
    <3>2. me = [ base EXCEPT !.pc = "write", !.next = next, !.entry = line ]
      BY <3>1
    <3> HIDE DEF me
    <3> QED BY <3>2
  <2> HIDE DEF me
  <2>4. Brings(me, line, next)
    BY <1>2, <2>1, <2>3 DEF Brings
  <2>5. StateSound(me)
    BY <1>2, <2>1, <2>3, <2>4 DEF StateSound, Relies
  <2> QED BY <2>2, <2>5, OnlyState
<1> QED BY <1>1, <1>2

\* The same, from the state the command is in.
LEMMA RecordSound ==
  ASSUME IInv, OneCommand, NEW p \in Procs, NEW e, NEW next, Record(p, e, next), ledger' = ledger,
         IsLine(e), e.type # "torn",
         Clean => Follows(e, Len(ledger) + 1) /\ Brings(loc[p], e, next)
  PROVE  IInv'
  BY AppendSound DEF Record, IInv, StateSound

LEMMA EntryIsLine ==
  ASSUME NEW p, NEW type
  PROVE  IsLine(Entry(p, type)) /\ Entry(p, type).type = type /\ Entry(p, type).run = loc[p].run
<1> DEFINE e == Entry(p, type)
           run == loc[p].run
<1>1. e = [ Blank EXCEPT !.type = type, !.run = run ]
  BY DEF Entry
<1>2. run = loc[p].run
  OBVIOUS
<1> HIDE DEF e, run
<1>3. IsLine(e) /\ e.type = type /\ e.run = run
  BY <1>1 DEF Blank, IsLine
<1> QED BY <1>2, <1>3 DEF e

LEMMA RejectSound ==
  ASSUME IInv, OneCommand, NEW p \in Procs, Reject(p), ledger' = ledger
  PROVE  IInv'
<1> DEFINE e == [ Entry(p, "rejected") EXCEPT !.lineage = loc[p].lineage ]
<1>1. IsLine(e) /\ e.type = "rejected"
  <2> DEFINE f == Entry(p, "rejected")
             lineage == loc[p].lineage
  <2>1. IsLine(f) /\ f.type = "rejected"
    BY EntryIsLine
  <2>2. e = [ f EXCEPT !.lineage = lineage ]
    OBVIOUS
  <2> HIDE DEF e, f, lineage
  <2> QED BY <2>1, <2>2 DEF IsLine
<1>2. Record(p, e, "idle")
  BY DEF Reject
<1> HIDE DEF e
<1>3. Brings(loc[p], e, "idle")
  BY DEF Brings
<1> QED BY <1>1, <1>2, <1>3, OtherFollows, RecordSound

-----------------------------------------------------------------------------
(* Writing.                                                                *)

\* A line is added; it says what the entry of the command said.
Added(line) ==
  /\ Len(ledger') = Len(ledger) + 1 /\ DOMAIN ledger' = 1 .. Len(ledger) + 1
  /\ \A i \in DOMAIN ledger : ledger'[i] = ledger[i]
  /\ ledger'[Len(ledger) + 1] = line

Renders(line, e) ==
  /\ line.type = e.type /\ line.run = e.run /\ line.zone = e.zone
  /\ line.seq = Len(ledger) /\ line.type # "torn" /\ line.ended = TRUE

Continues(new, me) == new.run = me.run /\ new.zone = me.zone /\ new.at = Len(ledger')

\* What the next step relies on is there when the line is.
LEMMA WriteBrings ==
  ASSUME LedgerSound, Clean, NEW me, NEW e, NEW step, NEW line, NEW new,
         Brings(me, e, step), Renders(line, e), Added(line), Continues(new, me)
  PROVE  Clean' /\ Relies(new, step)'
<1> USE DEF Renders, Added, Continues
<1>0. PICK n : n = Len(ledger) + 1
  OBVIOUS
<1>1. /\ Len(ledger) \in Nat /\ DOMAIN ledger = 1 .. Len(ledger)
      /\ n \in Nat \ {0} /\ n \in DOMAIN ledger' /\ n \notin DOMAIN ledger
      /\ DOMAIN ledger' = DOMAIN ledger \cup {n} /\ \A i \in DOMAIN ledger : i < n
      /\ n - 1 = Len(ledger) /\ Len(ledger') = n /\ n < n + 1
  BY <1>0, Positions
<1>2. ledger'[n] = line
  BY <1>0
<1>3. Clean'
  BY <1>1, <1>2 DEF Clean
<1>4. Ended'
  BY <1>1, <1>2 DEF Ended
<1>5. \A types : EntriesOf(types) \subseteq EntriesOf(types)'
  BY <1>1 DEF EntriesOf
<1>6. ASSUME step \in {"declare", "reserve", "invoke", "build"} PROVE (~Uncleared)'
  <2>1. EntriesOf({"autolab_halted"})' = EntriesOf({"autolab_halted"})
    BY <1>1, <1>2, <1>6 DEF EntriesOf, Brings
  <2>2. \A i \in EntriesOf({"autolab_halted"}) :
          \E j \in EntriesOf({"autolab_restart_authorized"})' : ledger'[j].of = i
    BY <1>5, <1>6 DEF Brings, Uncleared, EntriesOf
  <2> QED BY <2>1, <2>2 DEF Uncleared
<1>7. \A run, z, i : AttestedIn(run, z, i) => AttestedIn(run, z, i)'
  BY <1>5 DEF AttestedIn, EntriesOf
<1>8. \A run, i : InvokedIn(run, i) => InvokedIn(run, i)'
  BY <1>5 DEF InvokedIn, EntriesOf
<1>9. ASSUME step \in {"declare", "reserve", "invoke"} PROVE PreDone(me.run, me.zone)'
  <2>1. CASE step = "declare"
    <3>1. AttestedIn(me.run, me.zone, n)'
      BY <1>1, <1>2, <2>1 DEF Brings, AttestedIn, EntriesOf
    <3> QED BY <1>1, <3>1 DEF PreDone
  <2>2. CASE step # "declare"
    BY <1>1, <1>7, <1>9, <2>2 DEF Brings, PreDone
  <2> QED BY <2>1, <2>2
<1>10. ASSUME step \in {"build", "attest_post"} PROVE BuildDone(me.run, me.zone)'
  <2>1. CASE step = "build"
    <3>1. InvokedIn(me.run, n)'
      BY <1>1, <1>2, <2>1 DEF Brings, InvokedIn, EntriesOf
    <3>2. PICK pre \in DOMAIN ledger : AttestedIn(me.run, me.zone, pre)
      BY <2>1 DEF Brings, PreDone
    <3> QED BY <1>1, <1>7, <3>1, <3>2 DEF BuildDone
  <2>2. CASE step = "attest_post"
    BY <1>1, <1>7, <1>8, <2>2 DEF Brings, BuildDone
  <2> QED BY <1>10, <2>1, <2>2
<1>11. ASSUME step = "decide" PROVE ZoneKept(me.run, Len(ledger) + 1)'
  <2>1. PICK pre, built \in DOMAIN ledger :
          AttestedIn(me.run, me.zone, pre) /\ InvokedIn(me.run, built) /\ pre < built
    BY <1>11 DEF Brings, BuildDone
  <2>2. AttestedIn(me.run, me.zone, pre)' /\ InvokedIn(me.run, built)'
    BY <1>7, <1>8, <2>1
  <2>3. /\ n \in EntriesOf({"zone_attested_post"})' /\ ledger'[n].run = me.run
        /\ ledger'[n].zone = me.zone
    BY <1>1, <1>2, <1>11 DEF Brings, EntriesOf
  <2>4. built < n /\ n < Len(ledger') + 1
    BY <1>1
  <2> QED BY <1>1, <2>1, <2>2, <2>3, <2>4 DEF ZoneKept
<1>12. Len(ledger') \in DOMAIN ledger'
  BY <1>1
<1>13. ASSUME step \in {"declare", "reserve", "invoke"} PROVE SpentBy(me.run, Len(ledger) + 1)'
  <2>1. SpentBy(me.run, n) /\ line.run = me.run
    BY <1>0, <1>13 DEF Brings
  <2>2. ASSUME NEW i \in Receipts', ledger'[i].left = 0 PROVE ledger'[i].run = me.run
    <3>1. CASE i = n
      BY <1>2, <2>1, <3>1
    <3>2. CASE i # n
      <4>1. i \in Receipts /\ i < n /\ ledger'[i] = ledger[i]
        BY <1>1, <3>2 DEF Receipts, EntriesOf
      <4> QED BY <2>1, <2>2, <4>1 DEF SpentBy
    <3> QED BY <3>1, <3>2
  <2> QED BY <2>2 DEF SpentBy
<1> QED BY <1>3, <1>4, <1>6, <1>9, <1>10, <1>11, <1>12, <1>13 DEF Relies, Brings

LEMMA WriteEntrySound ==
  ASSUME IInv, OneCommand, NEW p \in Procs, WriteEntry(p)
  PROVE  IInv'
<1> SUFFICES ASSUME NEW me, me = loc[p],
                    NEW line, line = [ me.entry EXCEPT !.ended = TRUE ],
                    NEW new, new = [ me EXCEPT !.pc = me.next, !.next = "idle",
                                               !.entry = Blank, !.at = Len(ledger') ]
             PROVE  IInv'
  OBVIOUS
<1>1. /\ LedgerSound /\ Clean /\ IsLine(me.entry) /\ Brings(me, me.entry, me.next)
      /\ me.entry.seq = Len(ledger) /\ me.entry.type # "torn"
      /\ Follows(me.entry, Len(ledger) + 1)
  BY DEF WriteEntry, At, IInv, StateSound
<1>2. /\ IsLine(line) /\ line.seq = me.entry.seq /\ line.ended = TRUE /\ line.type = me.entry.type
      /\ line.run = me.entry.run /\ line.zone = me.entry.zone
      /\ Follows(line, Len(ledger) + 1)
  <2> DEFINE e == me.entry
             n == Len(ledger) + 1
  <2>1. IsLine(e) /\ Follows(e, n) /\ line = [e EXCEPT !.ended = TRUE]
    BY <1>1
  <2> HIDE DEF e, n
  <2>2. /\ IsLine(line) /\ line.ended = TRUE /\ line.seq = e.seq /\ line.type = e.type
        /\ line.run = e.run /\ line.zone = e.zone /\ Follows(line, n)
    BY <2>1, EndedLine
  <2> QED BY <2>2 DEF e, n
<1>3. ledger' = Written(line) /\ loc' = [ loc EXCEPT ![p] = IF me.next = "idle" THEN Idle ELSE new ]
  BY DEF WriteEntry
<1>4. LedgerSound'
  BY <1>1, <1>2, <1>3, WriteSound
<1>5. new = [ pc |-> me.next, next |-> "idle", entry |-> Blank, run |-> me.run,
              lineage |-> me.lineage, zone |-> me.zone, at |-> Len(ledger') ]
  <2> DEFINE base == [ pc |-> me.pc, next |-> me.next, entry |-> me.entry, run |-> me.run,
                       lineage |-> me.lineage, zone |-> me.zone, at |-> me.at ]
  <2>1. me = base
    BY DEF IInv, StateSound
  <2>2. new = [ base EXCEPT !.pc = me.next, !.next = "idle", !.entry = Blank,
                            !.at = Len(ledger') ]
    BY <2>1
  <2> QED BY <2>2
<1>6. me.next # "write"
  BY <1>1 DEF Brings
<1>7. CASE me.next = "idle"
  <2>1. \A q \in Procs : loc'[q] = Idle
    BY <1>3, <1>7 DEF OneCommand, IInv
  <2>2. StateSound(Idle)'
    BY BlankIsLine DEF StateSound, Idle, Relies
  <2>3. loc' = [ q \in Procs |-> loc'[q] ]
    BY <1>3 DEF IInv
  <2> QED BY <1>4, <2>1, <2>2, <2>3 DEF IInv
<1>8. CASE me.next # "idle"
  <2>1. \A q \in Procs : loc'[q] = new
    BY <1>3, <1>8 DEF OneCommand, IInv
  <2>2. (Clean' => Relies(new, me.next)') /\ (me.next = "build" => Clean')
    <3>1. CASE Added(line)
      <4>1. PICK e, step : e = me.entry /\ step = me.next
        OBVIOUS
      <4>2. LedgerSound /\ Clean /\ Brings(me, e, step) /\ Renders(line, e) /\ Continues(new, me)
        BY <1>1, <1>2, <1>5, <4>1 DEF Renders, Continues
      <4>3. Clean' /\ Relies(new, step)'
        BY <3>1, <4>2, WriteBrings
      <4> QED BY <4>1, <4>3
    <3>2. CASE /\ ~Ended /\ Len(ledger) > 0
               /\ DOMAIN ledger' = 1 .. Len(ledger) /\ ledger'[Len(ledger)] = Blank
      <4>1. ~Clean'
        BY <1>1, <3>2, Positions, BlankIsLine DEF Clean
      <4>2. me.next # "build"
        BY <1>1, <3>2 DEF Brings
      <4> QED BY <4>1, <4>2
    <3> QED BY <1>1, <1>3, <3>1, <3>2, WrittenCases DEF Added
  <2>3. StateSound(new)'
    BY <1>5, <1>6, <2>2, BlankIsLine DEF StateSound
  <2>4. loc' = [ q \in Procs |-> loc'[q] ]
    BY <1>3 DEF IInv
  <2> QED BY <1>4, <2>1, <2>3, <2>4 DEF IInv
<1> QED BY <1>7, <1>8

LEMMA KillSound ==
  ASSUME IInv, OneCommand, NEW p \in Procs, Kill(p)
  PROVE  IInv'
<1>1. CASE ledger' = ledger
  BY <1>1, EndSound DEF Kill
<1>2. CASE ledger' # ledger
  <2>1. /\ LedgerSound /\ IsLine(loc[p].entry) /\ Follows(loc[p].entry, Len(ledger) + 1)
        /\ ledger' = Written(Blank) \/ ledger' = Written(loc[p].entry)
    BY <1>2 DEF Kill, At, IInv, StateSound
  <2>2. PICK line : /\ IsLine(line) /\ Follows(line, Len(ledger) + 1)
                    /\ ledger' = Written(line)
    BY <2>1, BlankIsLine
  <2>3. LedgerSound'
    BY <2>1, <2>2, WriteSound
  <2>4. \A q \in Procs : loc'[q] = Idle
    BY DEF Kill, End, OneCommand, IInv
  <2>5. StateSound(Idle)'
    BY BlankIsLine DEF StateSound, Idle, Relies
  <2>6. loc' = [ q \in Procs |-> loc'[q] ]
    BY DEF Kill, End, IInv
  <2> QED BY <2>3, <2>4, <2>5, <2>6 DEF IInv
<1> QED BY <1>1, <1>2

-----------------------------------------------------------------------------
(* The steps of an iteration.                                              *)

\* Lines and states with some fields set.
LEMMA LineZone ==
  ASSUME NEW e, IsLine(e), NEW x, NEW f, f = [ e EXCEPT !.zone = x ]
  PROVE  IsLine(f) /\ f.type = e.type /\ f.run = e.run /\ f.zone = x
  BY DEF IsLine

LEMMA LineLineage ==
  ASSUME NEW e, IsLine(e), NEW x, NEW f, f = [ e EXCEPT !.lineage = x ]
  PROVE  IsLine(f) /\ f.type = e.type
  BY DEF IsLine

LEMMA LineRef ==
  ASSUME NEW e, IsLine(e), NEW x, NEW f, f = [ e EXCEPT !.ref = x ]
  PROVE  IsLine(f) /\ f.type = e.type /\ f.run = e.run
  BY DEF IsLine

IsState(me) ==
  me = [ pc |-> me.pc, next |-> me.next, entry |-> me.entry, run |-> me.run,
         lineage |-> me.lineage, zone |-> me.zone, at |-> me.at ]

LEMMA StateZone ==
  ASSUME NEW me, IsState(me), NEW x, NEW new, new = [ me EXCEPT !.zone = x ]
  PROVE  IsState(new) /\ new.zone = x /\ new.run = me.run
  BY DEF IsState

LEMMA StateLineage ==
  ASSUME NEW me, IsState(me), NEW x, NEW new, new = [ me EXCEPT !.lineage = x ]
  PROVE  IsState(new) /\ new.run = me.run /\ new.zone = me.zone
  BY DEF IsState

LEMMA StateStep ==
  ASSUME NEW me, IsState(me), NEW x, NEW new, new = [ me EXCEPT !.pc = x ]
  PROVE  /\ IsState(new) /\ new.pc = x /\ new.run = me.run /\ new.zone = me.zone
         /\ new.entry = me.entry /\ new.at = me.at
  BY DEF IsState

LEMMA PreflightSound ==
  ASSUME IInv, OneCommand, NEW p \in Procs, NEW lineage, NEW touchesFrozen, NEW overBudget,
         Preflight(p, lineage, touchesFrozen, overBudget)
  PROVE  IInv'
<1>0. PICK run, started : run = runs + 1 /\ started = [ Idle EXCEPT !.run = run, !.lineage = lineage ]
  OBVIOUS
<1>1. LedgerSound /\ ActiveHalt = 0 /\ ~Uncleared /\ ledger' = ledger
  BY NoneInForce DEF Preflight, IInv
<1>2. IsState(started) /\ IsLine(started.entry)
  BY <1>0, BlankIsLine DEF Idle, IsState
<1>3. ASSUME AppendEntry(p, [ Blank EXCEPT !.type = "autolab_halted", !.run = run ],
                         "idle", started)
      PROVE  IInv'
  <2>0. PICK e : e = [ Blank EXCEPT !.type = "autolab_halted", !.run = run ]
    OBVIOUS
  <2>1. IsLine(e) /\ e.type = "autolab_halted"
    BY <2>0 DEF Blank, IsLine
  <2>2. Follows(e, Len(ledger) + 1) /\ Brings(started, e, "idle")
    BY <1>1, <2>1, HaltFollows DEF Brings
  <2>3. AppendEntry(p, e, "idle", started)
    BY <1>3, <2>0
  <2> QED BY <1>1, <1>2, <2>1, <2>2, <2>3, AppendSound DEF IsState
<1>4. ASSUME loc' = [ loc EXCEPT ![p] = [ started EXCEPT !.pc = "attest_pre" ] ], ~HoldoutExhausted
      PROVE  IInv'
  <2>0. PICK new : new = [ started EXCEPT !.pc = "attest_pre" ]
    OBVIOUS
  <2>1. IsState(new) /\ new.pc = "attest_pre" /\ IsLine(new.entry)
    BY <1>2, <2>0, StateStep
  <2>2. loc' = [ loc EXCEPT ![p] = new ]
    BY <1>4, <2>0
  <2>3. SpentBy(new.run, Len(ledger) + 1)
    BY <1>1, <1>4, BeforeNext DEF HoldoutExhausted
  <2>4. StateSound(new)
    BY <1>1, <2>1, <2>3 DEF StateSound, Relies, IsState
  <2> QED BY <1>1, <2>2, <2>4, OnlyState
<1>5. Tripped(lineage, touchesFrozen, overBudget) \/ ~HoldoutExhausted
  BY DEF Tripped
<1> QED BY <1>0, <1>3, <1>4, <1>5 DEF Preflight

\* What an iteration relies on where it is.
LEMMA AtStep ==
  ASSUME IInv, NEW p \in Procs, NEW step, At(p, step)
  PROVE  /\ LedgerSound /\ IsState(loc[p]) /\ IsLine(loc[p].entry)
         /\ Clean => Relies(loc[p], step)
         /\ step = "build" => Clean
  BY DEF IInv, StateSound, At, IsState

LEMMA AttestPreSound ==
  ASSUME IInv, OneCommand, NEW p \in Procs, AttestPre(p)
  PROVE  IInv'
<1>1. /\ ledger' = ledger /\ IsState(loc[p])
      /\ Clean => ~Uncleared /\ SpentBy(loc[p].run, Len(ledger) + 1)
  BY AtStep DEF AttestPre, Fixed, Relies
<1>2. CASE Reject(p)
  BY <1>1, <1>2, RejectSound
<1>3. CASE AppendEntry(p, [ Entry(p, "zone_attested_pre") EXCEPT !.zone = zone ], "declare",
                       [ loc[p] EXCEPT !.zone = zone ])
  <2>0. PICK e, new : /\ e = [ Entry(p, "zone_attested_pre") EXCEPT !.zone = zone ]
                      /\ new = [ loc[p] EXCEPT !.zone = zone ]
    OBVIOUS
  <2>1. IsLine(e) /\ e.type = "zone_attested_pre" /\ e.run = loc[p].run /\ e.zone = zone
    BY <2>0, EntryIsLine, LineZone
  <2>2. IsState(new) /\ new.zone = zone /\ new.run = loc[p].run
    BY <1>1, <2>0, StateZone
  <2>3. AppendEntry(p, e, "declare", new)
    BY <1>3, <2>0
  <2>4. Clean => Follows(e, Len(ledger) + 1) /\ Brings(new, e, "declare")
    BY <1>1, <2>1, <2>2, OtherFollows DEF Brings
  <2> QED BY <1>1, <2>1, <2>2, <2>3, <2>4, AppendSound DEF IsState
<1> QED BY <1>2, <1>3 DEF AttestPre

LEMMA DeclareSound ==
  ASSUME IInv, OneCommand, NEW p \in Procs, Declare(p)
  PROVE  IInv'
<1>1. ledger' = ledger /\ (Clean => Relies(loc[p], "declare"))
  BY AtStep DEF Declare, Fixed
<1>2. CASE Record(p, Entry(p, "declaration_sealed"), "reserve")
  <2>1. Clean => Brings(loc[p], Entry(p, "declaration_sealed"), "reserve")
    BY <1>1, EntryIsLine DEF Brings, Relies
  <2> QED BY <1>1, <1>2, <2>1, EntryIsLine, OtherFollows, RecordSound
<1> QED BY <1>1, <1>2, RejectSound, EndSound DEF Declare

LEMMA ReserveSound ==
  ASSUME IInv, OneCommand, NEW p \in Procs, Reserve(p)
  PROVE  IInv'
<1>1. ledger' = ledger /\ (Clean => Relies(loc[p], "reserve")) /\ IsState(loc[p])
      /\ IsLine(loc[p].entry)
  BY AtStep DEF Reserve, Fixed
<1>2. CASE Goto(p, "invoke")
  <2>1. PICK new : new = [ loc[p] EXCEPT !.pc = "invoke" ]
    OBVIOUS
  <2>2. /\ IsState(new) /\ new.pc = "invoke" /\ new.run = loc[p].run /\ new.zone = loc[p].zone
        /\ IsLine(new.entry)
    BY <1>1, <2>1, StateStep
  <2>3. StateSound(new)
    BY <1>1, <2>2 DEF StateSound, Relies, IsState
  <2>4. loc' = [ loc EXCEPT ![p] = new ]
    BY <1>2, <2>1 DEF Goto
  <2> QED BY <1>1, <2>3, <2>4, OnlyState
<1>3. ASSUME NEW units \in Nat, UnitsUsed + units <= MaxUses,
             NEW left, left = MaxUses - (UnitsUsed + units),
             Record(p, [ Entry(p, "holdout_budget_consumed") EXCEPT !.units = units, !.left = left ],
                    "invoke")
      PROVE  IInv'
  <2>1. PICK e : e = [ Entry(p, "holdout_budget_consumed") EXCEPT !.units = units, !.left = left ]
    OBVIOUS
  <2>2. /\ IsLine(e) /\ e.type = "holdout_budget_consumed" /\ e.run = loc[p].run
        /\ e.units = units /\ e.left = left
    <3>1. PICK run, f : /\ run = loc[p].run
                        /\ f = [ Blank EXCEPT !.type = "holdout_budget_consumed", !.run = run ]
                        /\ e = [ f EXCEPT !.units = units, !.left = left ]
      BY <2>1 DEF Entry
    <3> QED BY <3>1 DEF Blank, IsLine
  <2>3. Clean => Brings(loc[p], e, "invoke")
    BY <1>1, <2>2 DEF Brings, Relies
  <2>4. Follows(e, Len(ledger) + 1)
    BY <1>3, <2>2, ReceiptFollows DEF IInv
  <2> QED BY <1>1, <1>3, <2>1, <2>2, <2>3, <2>4, RecordSound
<1>4. Asks \subseteq Nat
  BY LimitAssumption
<1> QED BY <1>1, <1>2, <1>3, <1>4, RejectSound, EndSound DEF Reserve

LEMMA InvokeSound ==
  ASSUME IInv, OneCommand, NEW p \in Procs, Invoke(p)
  PROVE  IInv'
<1>1. ledger' = ledger /\ (Clean => Relies(loc[p], "invoke"))
  BY AtStep DEF Invoke, Fixed
<1>2. Clean => Brings(loc[p], Entry(p, "builder_invoked"), "build")
  BY <1>1, EntryIsLine DEF Brings, Relies
<1>3. Clean => Follows(Entry(p, "builder_invoked"), Len(ledger) + 1)
  BY <1>1, EntryIsLine, InvocationFollows DEF Relies
<1> QED BY <1>1, <1>2, <1>3, EntryIsLine, RecordSound DEF Invoke

\* The builder changes no line, whatever it does to the zone.
LEMMA BuildSound ==
  ASSUME IInv, OneCommand, NEW p \in Procs, Build(p)
  PROVE  IInv'
<1>1. ledger' = ledger /\ (Clean => Relies(loc[p], "build")) /\ IsState(loc[p])
      /\ IsLine(loc[p].entry)
  BY AtStep DEF Build
<1>2. CASE Goto(p, "complete")
  <2>1. PICK new : new = [ loc[p] EXCEPT !.pc = "complete" ]
    OBVIOUS
  <2>2. /\ IsState(new) /\ new.pc = "complete" /\ new.run = loc[p].run /\ new.zone = loc[p].zone
        /\ IsLine(new.entry)
    BY <1>1, <2>1, StateStep
  <2>3. StateSound(new)
    BY <1>1, <2>2 DEF StateSound, Relies, IsState
  <2>4. loc' = [ loc EXCEPT ![p] = new ]
    BY <1>2, <2>1 DEF Goto
  <2> QED BY <1>1, <2>3, <2>4, OnlyState
<1> QED BY <1>1, <1>2, EndSound DEF Build

LEMMA CompleteSound ==
  ASSUME IInv, OneCommand, NEW p \in Procs, Complete(p)
  PROVE  IInv'
<1>1. ledger' = ledger /\ (Clean => Relies(loc[p], "complete"))
  BY AtStep DEF Complete, Fixed
<1>2. Clean => Brings(loc[p], Entry(p, "builder_completed"), "attest_post")
  BY <1>1, EntryIsLine DEF Brings, Relies
<1> QED BY <1>1, <1>2, EntryIsLine, OtherFollows, RecordSound DEF Complete

LEMMA AttestPostSound ==
  ASSUME IInv, OneCommand, NEW p \in Procs, AttestPost(p)
  PROVE  IInv'
<1>1. ledger' = ledger /\ (Clean => Relies(loc[p], "attest_post"))
  BY AtStep DEF AttestPost, Fixed
<1>2. CASE /\ zone = loc[p].zone
           /\ Record(p, [ Entry(p, "zone_attested_post") EXCEPT !.zone = zone ], "decide")
  <2>0. PICK e : e = [ Entry(p, "zone_attested_post") EXCEPT !.zone = zone ]
    OBVIOUS
  <2>1. IsLine(e) /\ e.type = "zone_attested_post" /\ e.run = loc[p].run /\ e.zone = zone
    BY <2>0, EntryIsLine, LineZone
  <2>2. Clean => Brings(loc[p], e, "decide") /\ Follows(e, Len(ledger) + 1)
    BY <1>1, <1>2, <2>1, OtherFollows DEF Brings, Relies
  <2> QED BY <1>1, <1>2, <2>0, <2>1, <2>2, RecordSound
<1> QED BY <1>1, <1>2, RejectSound DEF AttestPost

LEMMA DecideSound ==
  ASSUME IInv, OneCommand, NEW p \in Procs, Decide(p)
  PROVE  IInv'
<1>1. ledger' = ledger /\ (Clean => Relies(loc[p], "decide")) /\ IsState(loc[p])
  BY AtStep DEF Decide, Fixed
<1>2. ASSUME NEW lineage, NEW judged, judged = [ loc[p] EXCEPT !.lineage = lineage ],
             AppendEntry(p, [ Entry(p, "rejected") EXCEPT !.lineage = lineage ], "idle", judged)
      PROVE  IInv'
  <2>0. PICK e : e = [ Entry(p, "rejected") EXCEPT !.lineage = lineage ]
    OBVIOUS
  <2>1. IsLine(e) /\ e.type = "rejected"
    BY <2>0, EntryIsLine, LineLineage
  <2>2. IsState(judged)
    BY <1>1, <1>2, StateLineage
  <2>3. Follows(e, Len(ledger) + 1) /\ Brings(judged, e, "idle")
    BY <2>1, OtherFollows DEF Brings
  <2> QED BY <1>1, <1>2, <2>0, <2>1, <2>2, <2>3, AppendSound DEF IsState
<1>3. ASSUME NEW lineage, NEW judged, judged = [ loc[p] EXCEPT !.lineage = lineage ], NEW target,
             AppendEntry(p, [ Entry(p, "human_ratification") EXCEPT !.ref = target ],
                         "inscribe", judged)
      PROVE  IInv'
  <2>0. PICK e : e = [ Entry(p, "human_ratification") EXCEPT !.ref = target ]
    OBVIOUS
  <2>1. IsLine(e) /\ e.type = "human_ratification" /\ e.run = loc[p].run
    BY <2>0, EntryIsLine, LineRef
  <2>2. IsState(judged)
    BY <1>1, <1>3, StateLineage
  <2>3. Clean => Follows(e, Len(ledger) + 1)
    BY <1>1, <2>1 DEF Follows, Relies
  <2>4. Brings(judged, e, "inscribe")
    BY <2>1 DEF Brings
  <2> QED BY <1>1, <1>3, <2>0, <2>1, <2>2, <2>3, <2>4, AppendSound DEF IsState
<1> QED BY <1>1, <1>2, <1>3, EndSound DEF Decide

LEMMA InscribeSound ==
  ASSUME IInv, OneCommand, NEW p \in Procs, Inscribe(p)
  PROVE  IInv'
<1>1. ledger' = ledger /\ LedgerSound /\ (Clean => Relies(loc[p], "inscribe"))
  BY AtStep DEF Inscribe, Fixed
<1>2. ASSUME NEW previous, Clean, Inscribable(loc[p].at, previous),
             Record(p, Inscription(loc[p].run, loc[p].at, previous), "postflight")
      PROVE  IInv'
  <2>0. PICK e, run, at : /\ run = loc[p].run /\ at = loc[p].at
                          /\ e = Inscription(run, at, previous)
    OBVIOUS
  <2>1. e.type = "promotion_inscribed"
    BY <2>0, InscriptionType
  <2>2. IsLine(e) /\ Follows(e, Len(ledger) + 1)
    BY <1>1, <1>2, <2>0, InscriptionFollows DEF Relies
  <2>3. Brings(loc[p], e, "postflight")
    BY <2>1 DEF Brings
  <2> QED BY <1>1, <1>2, <2>0, <2>1, <2>2, <2>3, RecordSound
<1> QED BY <1>1, <1>2, RejectSound DEF Inscribe

LEMMA PostflightSound ==
  ASSUME IInv, OneCommand, NEW p \in Procs, Postflight(p)
  PROVE  IInv'
<1>1. ledger' = ledger /\ LedgerSound
  BY AtStep DEF Postflight, Fixed
<1>2. CASE ActiveHalt = 0 /\ Record(p, Entry(p, "autolab_halted"), "idle")
  <2>1. Brings(loc[p], Entry(p, "autolab_halted"), "idle")
    BY DEF Brings
  <2>2. PICK e : e = Entry(p, "autolab_halted")
    OBVIOUS
  <2>3. IsLine(e) /\ e.type = "autolab_halted"
    BY <2>2, EntryIsLine
  <2>4. Follows(e, Len(ledger) + 1)
    BY <1>1, <1>2, <2>3, HaltFollows
  <2> QED BY <1>1, <1>2, <2>1, <2>2, <2>3, <2>4, RecordSound
<1> QED BY <1>1, <1>2, EndSound DEF Postflight

-----------------------------------------------------------------------------
(* The operator's commands.                                                *)

\* A line of an operator's command.
LEMMA CommandSound ==
  ASSUME IInv, OneCommand, NEW p \in Procs, NEW e, AppendEntry(p, e, "idle", Idle),
         ledger' = ledger, IsLine(e), e.type # "torn", Follows(e, Len(ledger) + 1)
  PROVE  IInv'
<1>1. IsState(Idle) /\ Brings(Idle, e, "idle")
  BY DEF Idle, IsState, Brings
<1> QED BY <1>1, AppendSound DEF IsState

LEMMA OperateSound ==
  ASSUME IInv, OneCommand, NEW p \in Procs, Operate(p)
  PROVE  IInv'
<1>1. LedgerSound
  BY DEF IInv
<1>2. CASE HaltByHand(p)
  <2>1. PICK e : e = [ Blank EXCEPT !.type = "autolab_halted" ]
    OBVIOUS
  <2>2. IsLine(e) /\ e.type = "autolab_halted"
    BY <2>1 DEF Blank, IsLine
  <2>3. Follows(e, Len(ledger) + 1)
    BY <1>1, <1>2, <2>2, HaltFollows DEF HaltByHand
  <2> QED BY <1>2, <2>1, <2>2, <2>3, CommandSound DEF HaltByHand, Command
<1>3. CASE Restart(p)
  <2>0. PICK halt : halt = ActiveHalt
    OBVIOUS
  <2>1. PICK e : e = [ Blank EXCEPT !.type = "autolab_restart_authorized", !.of = halt ]
    OBVIOUS
  <2>2. IsLine(e) /\ e.type = "autolab_restart_authorized"
    BY <2>1 DEF Blank, IsLine
  <2>3. AppendEntry(p, e, "idle", Idle) /\ ledger' = ledger
    BY <1>3, <2>0, <2>1 DEF Restart, Command
  <2> QED BY <2>2, <2>3, OtherFollows, CommandSound
<1>4. ASSUME NEW restore, Rollback(p, restore) PROVE IInv'
  <2>0. PICK target : target = Target
    OBVIOUS
  <2>1. PICK e : e = [ Blank EXCEPT !.type = "rollback_inscribed", !.ref = restore,
                                    !.prev = target ]
    OBVIOUS
  <2>2. IsLine(e) /\ e.type = "rollback_inscribed" /\ e.prev = Target
    BY <2>0, <2>1 DEF Blank, IsLine
  <2>3. AppendEntry(p, e, "idle", Idle) /\ ledger' = ledger
    BY <1>4, <2>0, <2>1 DEF Rollback, Command
  <2> QED BY <2>2, <2>3, RollbackFollows, CommandSound
<1>5. ASSUME NEW n \in DOMAIN ledger, NEW previous, InscribeByHand(p, n, previous) PROVE IInv'
  <2>0. PICK e : e = Inscription(0, n, previous)
    OBVIOUS
  <2>1. e.type = "promotion_inscribed"
    BY <2>0, InscriptionType
  <2>2. IsLine(e) /\ Follows(e, Len(ledger) + 1)
    BY <1>1, <1>5, <2>0, InscriptionFollows DEF InscribeByHand
  <2>3. AppendEntry(p, e, "idle", Idle) /\ ledger' = ledger
    BY <1>5, <2>0 DEF InscribeByHand, Command
  <2> QED BY <2>1, <2>2, <2>3, CommandSound
<1> QED BY <1>2, <1>3, <1>4, <1>5 DEF Operate

-----------------------------------------------------------------------------
(* The theorems.                                                           *)

LEMMA InitSound == Init => IInv
<1> SUFFICES ASSUME Init PROVE IInv
  OBVIOUS
<1>1. LedgerSound
  <2>1. ledger = <<>> /\ DOMAIN ledger = {}
    BY DEF Init
  <2> QED BY <2>1 DEF LedgerSound
<1>2. \A p \in Procs : loc[p] = Idle
  BY DEF Init
<1>3. loc = [ p \in Procs |-> loc[p] ]
  BY DEF Init
<1> QED BY <1>1, <1>2, <1>3, IdleSound DEF IInv

LEMMA StepSound == OneCommand /\ IInv /\ [Next]_vars => IInv'
<1> SUFFICES ASSUME OneCommand, IInv, [Next]_vars PROVE IInv'
  OBVIOUS
<1>1. CASE UNCHANGED <<ledger, loc>>
  <2>1. LedgerSound'
    BY <1>1, SameLedger DEF IInv
  <2>2. ASSUME NEW p \in Procs, NEW me, me = loc[p] PROVE StateSound(me)'
    <3>1. Relies(me, me.pc)' = Relies(me, me.pc)
          /\ Brings(me, me.entry, me.next)' = Brings(me, me.entry, me.next)
      BY <1>1, SameLedger DEF Relies, Brings
    <3>2. StateSound(me)
      BY <2>2 DEF IInv
    <3> QED BY <1>1, <3>1, <3>2, SameLedger DEF StateSound
  <2>3. \A p \in Procs : StateSound(loc[p])'
    BY <1>1, <2>2
  <2> QED BY <1>1, <2>1, <2>3 DEF IInv
<1>2. ASSUME NEW p \in Procs, Iterate(p) PROVE IInv'
  BY <1>2, PreflightSound, AttestPreSound, DeclareSound, ReserveSound, InvokeSound, BuildSound,
     CompleteSound, AttestPostSound, DecideSound, InscribeSound, PostflightSound DEF Iterate
<1>3. ASSUME NEW p \in Procs, Operate(p) \/ WriteEntry(p) \/ Kill(p) PROVE IInv'
  BY <1>3, OperateSound, WriteEntrySound, KillSound
<1> QED BY <1>1, <1>2, <1>3 DEF Next, EditZone, vars

(* For one command at a time, whatever is killed, torn or edited, each     *)
(* line of the meta-ledger fits the lines before it, and a command may     *)
(* rely on what it recorded (autolab/controller.py, append_meta_event).    *)
THEOREM LoopInvariant == ASSUME OneCommand PROVE Spec => []IInv
  BY InitSound, StepSound, PTL DEF Spec

(* The target can be derived, each ratification is inscribed once, and     *)
(* nothing else becomes current but by a rollback (lineage.py).            *)
THEOREM LineageAlwaysSound == ASSUME OneCommand PROVE Spec => []LineageSound
<1>1. IInv => LineageSound
  <2> SUFFICES ASSUME LedgerSound PROVE LineageSound
    BY DEF IInv
  <2>0. DOMAIN ledger \subseteq Nat
    BY Positions
  <2>1. Derivable
    <3>1. ASSUME NEW i \in LineageEntries
          PROVE  \/ ledger[i].prev = TargetBefore(i)
                 \/ ledger[i].type = "promotion_inscribed" /\ TargetBefore(i) = None
      <4>1. /\ ledger[i].type \in {"promotion_inscribed", "rollback_inscribed"}
            /\ Follows(ledger[i], i)
        BY DEF LineageEntries, EntriesOf, LedgerSound
      <4> QED BY <4>1 DEF Follows
    <3> QED BY <3>1 DEF Derivable
  <2>2. ASSUME NEW i \in EntriesOf({"promotion_inscribed"})
        PROVE  /\ ledger[ledger[i].of].type = "human_ratification"
               /\ ledger[ledger[i].of].ref = ledger[i].ref
               /\ \A j \in EntriesOf({"promotion_inscribed"}) : j < i => ledger[j].of # ledger[i].of
    <3>1. ledger[i].type = "promotion_inscribed" /\ Follows(ledger[i], i)
      BY DEF EntriesOf, LedgerSound
    <3> QED BY <3>1 DEF Follows
  <2>3. ASSUME NEW i \in EntriesOf({"promotion_inscribed"}),
               NEW j \in EntriesOf({"promotion_inscribed"}), ledger[j].of = ledger[i].of
        PROVE  j = i
    <3>1. i \in Nat /\ j \in Nat
      BY <2>0 DEF EntriesOf
    <3>2. ~(i < j) /\ ~(j < i)
      BY <2>2, <2>3
    <3> QED BY <3>1, <3>2
  <2> QED BY <2>1, <2>2, <2>3 DEF LineageSound
<1> QED BY <1>1, LoopInvariant, PTL

(* Nothing is ratified whose zone was not attested before and after its    *)
(* builder, the same (runner.py, run_autolab_iteration).                   *)
THEOREM ZoneAlwaysKept == ASSUME OneCommand PROVE Spec => []RatifiedZone
<1>1. IInv => RatifiedZone
  <2> SUFFICES ASSUME LedgerSound, NEW i \in EntriesOf({"human_ratification"})
               PROVE  \E pre \in EntriesOf({"zone_attested_pre"}), built \in EntriesOf({"builder_invoked"}),
                         post \in EntriesOf({"zone_attested_post"}) :
                        /\ { ledger[j].run : j \in {pre, built, post} } = {ledger[i].run}
                        /\ pre < built /\ built < post /\ post < i
                        /\ ledger[pre].zone = ledger[post].zone
    BY DEF IInv, RatifiedZone
  <2>1. ledger[i].type = "human_ratification" /\ Follows(ledger[i], i)
    BY DEF EntriesOf, LedgerSound
  <2>2. ZoneKept(ledger[i].run, i)
    BY <2>1 DEF Follows
  <2>3. PICK pre, built, post \in DOMAIN ledger :
          /\ AttestedIn(ledger[i].run, ledger[post].zone, pre) /\ InvokedIn(ledger[i].run, built)
          /\ post \in EntriesOf({"zone_attested_post"}) /\ ledger[post].run = ledger[i].run
          /\ pre < built /\ built < post /\ post < i
    BY <2>2 DEF ZoneKept
  <2>4. { ledger[j].run : j \in {pre, built, post} } = {ledger[i].run}
    BY <2>3 DEF AttestedIn, InvokedIn
  <2> QED BY <2>3, <2>4 DEF AttestedIn, InvokedIn
<1> QED BY <1>1, LoopInvariant, PTL

-----------------------------------------------------------------------------
(* The budget.                                                             *)

LEMMA UnitsOfOne ==
  ASSUME NEW n, NEW u \in Nat
  PROVE  IsFiniteSet({n} \X (1 .. u)) /\ Cardinality({n} \X (1 .. u)) = u
<1> DEFINE T == 1 .. u
           S == {n}
<1>1. IsFiniteSet(S) /\ Cardinality(S) = 1
  BY FS_Singleton
<1>2. IsFiniteSet(T) /\ Cardinality(T) = IF 1 > u THEN 0 ELSE u - 1 + 1
  <2>1. 1 \in Int /\ u \in Int
    OBVIOUS
  <2> QED BY <2>1, FS_Interval
<1>3. Cardinality(T) = u
  BY <1>2
<1> HIDE DEF S, T
<1>4. IsFiniteSet(S \X T) /\ Cardinality(S \X T) = Cardinality(S) * Cardinality(T)
  BY <1>1, <1>2, FS_Product
<1>5. Cardinality(S \X T) = u
  BY <1>1, <1>3, <1>4
<1> QED BY <1>4, <1>5 DEF S, T

LEMMA UnitsAreFinite ==
  ASSUME NEW S, IsFiniteSet(S), \A i \in S : ledger[i].units \in Nat
  PROVE  IsFiniteSet(UNION { UnitsIn(i) : i \in S })
<1> DEFINE T == { UnitsIn(i) : i \in S }
           f == [ i \in S |-> UnitsIn(i) ]
<1>1. f \in Surjection(S, T)
  BY DEF Surjection
<1>2. IsFiniteSet(T)
  <2> HIDE DEF f, T
  <2> QED BY <1>1, FS_Surjection
<1>3. ASSUME NEW i \in S PROVE IsFiniteSet(UnitsIn(i))
  BY UnitsOfOne DEF UnitsIn
<1>4. \A t \in T : IsFiniteSet(t)
  BY <1>3
<1> QED BY <1>2, <1>4, FS_UNION

\* One more line has its own units.
LEMMA UnitsAdd ==
  ASSUME NEW S, IsFiniteSet(S), \A i \in S : ledger[i].units \in Nat,
         NEW n, n \notin S, ledger[n].units \in Nat
  PROVE  UnitsOf(S \cup {n}) = UnitsOf(S) + ledger[n].units
<1> DEFINE U == UNION { UnitsIn(i) : i \in S }
           V == UnitsIn(n)
<1>1. IsFiniteSet(U)
  BY UnitsAreFinite
<1>2. IsFiniteSet(V) /\ Cardinality(V) = ledger[n].units
  BY UnitsOfOne DEF UnitsIn
<1>3. U \cap V = {}
  <2>1. ASSUME NEW x \in U, x \in V PROVE FALSE
    <3>1. PICK i \in S : x \in {i} \X (1 .. ledger[i].units)
      BY <2>1 DEF UnitsIn
    <3>2. x[1] = i /\ x[1] = n
      BY <2>1, <3>1 DEF UnitsIn
    <3> QED BY <3>2
  <2> QED BY <2>1
<1>4. UNION { UnitsIn(i) : i \in S \cup {n} } = U \cup V
  OBVIOUS
<1> HIDE DEF U, V
<1>5. Cardinality(U \cup V) = Cardinality(U) + Cardinality(V)
  <2>1. Cardinality(U) \in Nat /\ Cardinality(V) \in Nat /\ Cardinality(U \cap V) = 0
    BY <1>1, <1>2, <1>3, FS_CardinalityType, FS_EmptySet
  <2>2. Cardinality(U \cup V) = Cardinality(U) + Cardinality(V) - Cardinality(U \cap V)
    BY <1>1, <1>2, FS_Union
  <2> QED BY <2>1, <2>2
<1> QED BY <1>2, <1>4, <1>5 DEF UnitsOf, U

\* The receipts of a sound ledger take no more than there is.
LEMMA WithinBudget ==
  ASSUME LedgerSound
  PROVE  UnitsOf(Receipts) <= MaxUses
<1>1. Len(ledger) \in Nat /\ Receipts \in SUBSET (1 .. Len(ledger))
  BY Positions DEF Receipts, EntriesOf
<1>2. \A i \in Receipts : /\ ledger[i].units \in Nat
                         /\ UnitsBefore(i) + ledger[i].units <= MaxUses
  BY DEF LedgerSound, Follows, Receipts, EntriesOf
<1>3. CASE Receipts = {}
  <2>1. UnitsOf(Receipts) = 0
    BY <1>3, FS_EmptySet DEF UnitsOf
  <2> QED BY <2>1, LimitAssumption
<1>4. CASE Receipts # {}
  <2>1. PICK n \in Receipts : \A i \in Receipts : i <= n
    BY <1>1, <1>4, LatestOf
  <2> DEFINE S == { i \in Receipts : i < n }
  <2>2. Receipts = S \cup {n} /\ n \notin S
    <3>1. \A i \in Receipts : i \in Nat
      BY <1>1
    <3>2. \A i \in Receipts : i < n \/ i = n
      BY <2>1, <3>1
    <3> QED BY <3>1, <3>2
  <2>3. IsFiniteSet(S)
    <3>1. IsFiniteSet(1 .. Len(ledger))
      BY <1>1, FS_Interval
    <3>2. S \in SUBSET (1 .. Len(ledger))
      BY <1>1
    <3> QED BY <3>1, <3>2, FS_Subset
  <2>4. \A i \in S : ledger[i].units \in Nat
    BY <1>2
  <2>5. UnitsBefore(n) = UnitsOf(S)
    BY DEF UnitsBefore
  <2> HIDE DEF S
  <2>6. UnitsOf(Receipts) = UnitsOf(S) + ledger[n].units
    BY <1>2, <2>2, <2>3, <2>4, UnitsAdd
  <2> QED BY <1>2, <2>5, <2>6
<1> QED BY <1>3, <1>4

(* The holdout budget is never overdrawn, also by iterations that were     *)
(* killed between their receipt and their builder; and when it is spent,   *)
(* only the builder that spent it is invoked (controller.py,               *)
(* consume_holdout_budget; circuit_breakers.py, evaluate_breakers).        *)
THEOREM BudgetAlwaysHeld == ASSUME OneCommand PROVE Spec => []BudgetHeld
<1>1. IInv => BudgetHeld
  <2> SUFFICES ASSUME LedgerSound PROVE BudgetHeld
    BY DEF IInv
  <2>1. ASSUME NEW i \in Receipts, ledger[i].left = 0,
               NEW j \in EntriesOf({"builder_invoked"}), i < j
        PROVE  ledger[j].run = ledger[i].run
    <3>1. ledger[j].type = "builder_invoked" /\ Follows(ledger[j], j)
      BY DEF LedgerSound, EntriesOf
    <3> QED BY <2>1, <3>1 DEF Follows, SpentBy
  <2> QED BY <2>1, WithinBudget DEF BudgetHeld
<1> QED BY <1>1, LoopInvariant, PTL

-----------------------------------------------------------------------------
(* The refinement.                                                         *)

Building == \E p \in Procs : At(p, "build")

\* A builder starts when the line of its invocation is in the file.
LEMMA BuilderStarts ==
  ASSUME OneCommand, IInv, NEW p \in Procs, WriteEntry(p), loc[p].next = "build"
  PROVE  ~Uncleared /\ Clean
  BY DEF WriteEntry, At, IInv, StateSound, Brings

\* A builder at work has a ledger that verifies and shows no halt.
LEMMA BuilderFree ==
  ASSUME OneCommand, IInv, Building
  PROVE  ~(Uncleared \/ ~Clean)
  BY DEF IInv, StateSound, Relies, Building, At

LEMMA HoldSteps ==
  ASSUME OneCommand, IInv, IInv', [Next]_vars
  PROVE  [Hold!Next]_(Hold!vars)
<1>1. (Uncleared \/ ~Clean)' \in BOOLEAN /\ (Uncleared \/ ~Clean) \in BOOLEAN
  OBVIOUS
<1>2. CASE ledger' = ledger
  <2>1. (Uncleared \/ ~Clean)' <=> (Uncleared \/ ~Clean)
    BY <1>2, SameLedger
  <2>2. Building => ~(Uncleared \/ ~Clean)
    BY BuilderFree
  <2>3. Building' => ~(Uncleared \/ ~Clean)'
    BY DEF IInv, StateSound, Relies, Building, At
  <2> QED BY <2>1, <2>2, <2>3 DEF Hold!Next, Hold!StartBuilding, Hold!StopBuilding, Hold!vars, Building
<1>3. CASE ledger' # ledger
  <2>1. PICK p \in Procs : At(p, "write") /\ (WriteEntry(p) \/ Kill(p))
    BY <1>3 DEF Next, vars, EditZone, Iterate, Operate, Preflight, AttestPre, Declare, Reserve, Invoke,
       Build, Complete, AttestPost, Decide, Inscribe, Postflight, Fixed, HaltByHand, Restart,
       Rollback, InscribeByHand, Command, Kill, WriteEntry
  <2>2. ~Building
    BY <2>1 DEF Building, OneCommand, At
  <2>3. Building' => ~(Uncleared \/ ~Clean)'
    BY DEF IInv, StateSound, Relies, Building, At
  <2>4. Building' => ~(Uncleared \/ ~Clean)
    <3>1. Building' => WriteEntry(p) /\ loc[p].next = "build"
      <4>1. Building' => loc'[p].pc = "build"
        BY DEF Building, OneCommand, At
      <4>2. p \in DOMAIN loc /\ IsState(loc[p])
        BY DEF IInv, StateSound, IsState
      <4>3. CASE Kill(p)
        BY <4>1, <4>2, <4>3 DEF Kill, End, Idle
      <4>4. CASE WriteEntry(p)
        <5>1. CASE loc[p].next = "idle"
          BY <4>1, <4>2, <4>4, <5>1 DEF WriteEntry, Idle
        <5>2. CASE loc[p].next # "idle"
          <6>1. PICK me, at : me = loc[p] /\ at = Len(ledger')
            OBVIOUS
          <6>2. PICK new : new = [ me EXCEPT !.pc = me.next, !.next = "idle", !.entry = Blank,
                                             !.at = at ]
            OBVIOUS
          <6>3. loc'[p] = new
            BY <4>2, <4>4, <5>2, <6>1, <6>2 DEF WriteEntry
          <6>4. new.pc = me.next
            BY <4>2, <6>1, <6>2 DEF IsState
          <6> QED BY <4>1, <4>4, <6>1, <6>3, <6>4
        <5> QED BY <5>1, <5>2
      <4> QED BY <2>1, <4>3, <4>4
    <3> QED BY <3>1, BuilderStarts
  <2> QED BY <2>2, <2>3, <2>4 DEF Hold!Next, Hold!StartBuilding, Hold!Halt, Hold!Restart, Hold!vars,
         Building
<1> QED BY <1>2, <1>3

(* No builder works under a halt or over a ledger that does not verify,    *)
(* and a halt stands until it is cleared (circuit_breakers.py).            *)
THEOREM HoldRefinement == ASSUME OneCommand PROVE Spec => ImplementsHold
<1>1. Init => Hold!Init
  BY DEF Init, Hold!Init, Uncleared, Clean, EntriesOf, At, Idle
<1>2. IInv /\ IInv' /\ [Next]_vars => [Hold!Next]_(Hold!vars)
  BY HoldSteps
<1> QED BY <1>1, <1>2, LoopInvariant, PTL DEF Spec, ImplementsHold, Hold!Spec
=============================================================================
