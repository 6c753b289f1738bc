----------------------- MODULE CaptureLifecycle_proofs -----------------------
(***************************************************************************)
(* What CaptureLifecycle promises, for any set of writers, any number of   *)
(* appends and any number of crashes.  LedgerInv is the inductive          *)
(* invariant: it says, besides the properties themselves, what a writer's  *)
(* own event is worth while the ledger grows under it.                     *)
(***************************************************************************)
EXTENDS CaptureLifecycle, TLAPS

-----------------------------------------------------------------------------
(* The tables                                                              *)

\* No transition takes evidence back, and one that completes, aborts, seals,
\* judges or sends to review takes it forward.
LEMMA TransitionsAdvance ==
  ASSUME NEW from, NEW to, NEW type, LegalTransition(from, to, type)
  PROVE  /\ Life!Rank(from) \in 0..9
         /\ Life!Rank(to) \in 0..9
         /\ Life!Rank(from) <= Life!Rank(to)
         /\ Life!Rank(to) >= 6 => Life!Rank(from) < Life!Rank(to)
  BY DEF LegalTransition, Life!TransitionEvents, Life!Rank, Life!NoState

\* Every lifecycle state has a rank.
LEMMA RankTyped ==
  ASSUME NEW s \in Life!States
  PROVE  Life!Rank(s) \in 0..9
  BY DEF Life!States, Life!Rank, Life!NoState

-----------------------------------------------------------------------------
(* Types                                                                   *)

\* The four events of initialize_run are well formed.
LEMMA InitialEvents == InitialLedger \in Seq(Event) /\ Len(InitialLedger) = 4
<1>1. \A i \in 1..4 : InitialLedger[i] \in Event
  BY DEF InitialLedger, Event, EventTypes, Authors, Digests, ZeroHash, Life!TransitionTypes,
         Life!TransitionEvents, Life!States, Life!NoState
<1>2. InitialLedger = [ i \in 1..4 |-> InitialLedger[i] ]
  BY DEF InitialLedger
<1> QED BY <1>1, <1>2

\* What a reading yields for an event, whatever the ledger.
LEMMA ReadingTyped ==
  ASSUME NEW log \in Seq(Event)
  PROVE  /\ StateOf(log) \in Life!States \cup {Life!NoState}
         /\ RootOf(log) \in Digests
<1>1. CASE log = <<>>
  BY <1>1 DEF StateOf, RootOf, Digests, ZeroHash, Authors, Life!NoState
<1>2. CASE log # <<>>
  <2> DEFINE last == log[Len(log)]
  <2>1. last \in Event
    BY <1>2
  <2>2. last.to \in Life!States /\ Digest(last) \in Digests
    BY <2>1 DEF Event, Digest, Digests, EventTypes
  <2> QED BY <1>2, <2>2 DEF StateOf, RootOf
<1> QED BY <1>1, <1>2

\* Variables keep their types, and a temporary file that is not debris belongs to
\* a writer between its creation and its removal, however many writers there are.
THEOREM TypeInvariant == Spec => []TypeOK
<1>1. Init => TypeOK
  BY InitialEvents DEF Init, TypeOK, Steps, Op, NoOp, NoEvent, EventTypes,
     Life!TransitionTypes, Life!TransitionEvents, Life!States
<1>2. TypeOK /\ [Next]_vars => TypeOK'
  <2> SUFFICES ASSUME TypeOK, [Next]_vars PROVE TypeOK'
    OBVIOUS
  <2>1. ASSUME NEW w \in Writers, NEW to \in Life!States, AppendTransition(w, to)
        PROVE  TypeOK'
    BY <2>1 DEF TypeOK, AppendTransition, Steps, Op, EventTypes
  <2>2. ASSUME NEW w \in Writers, NEW type \in Life!OccurrenceTypes, AppendOccurrence(w, type)
        PROVE  TypeOK'
    BY <2>2, ReadingTyped DEF TypeOK, AppendOccurrence, Steps, Op, EventTypes
  <2>3. ASSUME NEW w \in Writers, BuildEvent(w)
        PROVE  TypeOK'
    <3>1. /\ op[w] \in Op
          /\ Len(ledger) \in Nat
          /\ StateOf(ledger) \in Life!States \cup {Life!NoState}
          /\ RootOf(ledger) \in Digests
          /\ w \in Authors
      BY ReadingTyped DEF TypeOK, Authors
    <3>2. EventFor(w, ledger) \in Event
      BY <3>1 DEF EventFor, Event, Op
    <3> QED BY <2>3, <3>2 DEF TypeOK, BuildEvent, Steps
  <2>4. ASSUME NEW w \in Writers, RejectEvent(w)
        PROVE  TypeOK'
    BY <2>4 DEF TypeOK, RejectEvent, Steps, Op, NoOp, EventTypes, Life!TransitionTypes,
       Life!TransitionEvents, Life!States
  <2>5. ASSUME NEW w \in Writers, StageFile(w)
        PROVE  TypeOK'
    BY <2>5 DEF TypeOK, StageFile, Steps
  <2>6. ASSUME NEW w \in Writers, LinkFile(w)
        PROVE  TypeOK'
    <3>1. ledger' \in Seq(Event)
      <4>1. ev[w] \in Event /\ ledger \in Seq(Event)
        BY DEF TypeOK
      <4> QED BY <2>6, <4>1 DEF LinkFile
    <3> QED BY <2>6, <3>1 DEF TypeOK, LinkFile, Steps
  <2>7. ASSUME NEW w \in Writers, UnlinkFile(w)
        PROVE  TypeOK'
    BY <2>7, InitialEvents DEF TypeOK, UnlinkFile, Steps, Op, NoOp, NoEvent, EventTypes,
       Life!TransitionTypes, Life!TransitionEvents, Life!States
  <2>8. ASSUME NEW w \in Writers, Crash(w)
        PROVE  TypeOK'
    BY <2>8, InitialEvents DEF TypeOK, Crash, Steps, Op, NoOp, NoEvent, EventTypes,
       Life!TransitionTypes, Life!TransitionEvents, Life!States
  <2>9. CASE UNCHANGED vars
    BY <2>9 DEF TypeOK, vars
  <2> QED
    BY <2>1, <2>2, <2>3, <2>4, <2>5, <2>6, <2>7, <2>8, <2>9
    DEF Next, StartAppend, Continue
<1> QED BY <1>1, <1>2, PTL DEF Spec

-----------------------------------------------------------------------------
(* The inductive invariant                                                 *)

\* A writer's own event: while it waits for its link it is at most as far as the
\* ledger, and if nobody was faster it fits; once linked it is in its place.
PendingFits ==
  \A w \in Writers : pc[w] \in {"stage", "link"} =>
     /\ ev[w].sequence <= Len(ledger)
     /\ ev[w].sequence = Len(ledger) =>
          ValidEvent(ev[w], Len(ledger), StateOf(ledger), RootOf(ledger))

InPlace(e) == e.sequence + 1 \in DOMAIN ledger /\ ledger[e.sequence + 1] = e

LinkedInPlace == \A w \in Writers : pc[w] = "linked" => InPlace(ev[w])

\* Evidence never goes back a level along the ledger.
Monotone ==
  \A i, j \in DOMAIN ledger : i <= j => Life!Rank(ledger[i].to) <= Life!Rank(ledger[j].to)

LedgerInv ==
  TypeOK /\ PendingFits /\ LinkedInPlace /\ AckedStays /\ LedgerVerifies /\ Monotone /\ OneOutcome

\* A publication adds, at the end, an event that fits the ledger before it; no
\* other step changes the ledger.
LEMMA LedgerStep ==
  ASSUME LedgerInv, [Next]_vars
  PROVE  \/ ledger' = ledger
         \/ \E w \in Writers :
              /\ pc[w] = "link"
              /\ pc' = [ pc EXCEPT ![w] = "linked" ]
              /\ ev' = ev /\ acked' = acked
              /\ ev[w].sequence = Len(ledger)
              /\ ValidEvent(ev[w], Len(ledger), StateOf(ledger), RootOf(ledger))
              /\ ledger' = Append(ledger, ev[w])
<1>1. ASSUME NEW w \in Writers, LinkFile(w), ~NameTaken(ev[w].sequence)
      PROVE  /\ ev[w].sequence = Len(ledger)
             /\ ValidEvent(ev[w], Len(ledger), StateOf(ledger), RootOf(ledger))
  <2>1. ev[w].sequence \in Nat /\ Len(ledger) \in Nat
    BY DEF LedgerInv, TypeOK, Event
  <2>2. pc[w] = "link"
    BY <1>1 DEF LinkFile
  <2> QED BY <1>1, <2>1, <2>2 DEF NameTaken, LedgerInv, PendingFits
<1>2. ASSUME NEW w \in Writers, LinkFile(w)
      PROVE  \/ ledger' = ledger
             \/ /\ pc[w] = "link"
                /\ pc' = [ pc EXCEPT ![w] = "linked" ]
                /\ ev' = ev /\ acked' = acked
                /\ ev[w].sequence = Len(ledger)
                /\ ValidEvent(ev[w], Len(ledger), StateOf(ledger), RootOf(ledger))
                /\ ledger' = Append(ledger, ev[w])
  BY <1>1, <1>2 DEF LinkFile
<1>3. ASSUME NEW w \in Writers, StartAppend(w) \/ BuildEvent(w) \/ RejectEvent(w) \/ StageFile(w)
                                 \/ UnlinkFile(w) \/ Crash(w)
      PROVE  ledger' = ledger
  BY <1>3 DEF StartAppend, AppendTransition, AppendOccurrence, BuildEvent, RejectEvent, StageFile,
     UnlinkFile, Crash
<1>4. CASE UNCHANGED vars
  BY <1>4 DEF vars
<1> QED BY <1>2, <1>3, <1>4 DEF Next, Continue

\* What an appended, fitting event means for the properties of the ledger.
LEMMA AppendKeeps ==
  ASSUME NEW log \in Seq(Event), NEW e \in Event,
         ValidEvent(e, Len(log), StateOf(log), RootOf(log)),
         VerifyLedger(log)
  PROVE  VerifyLedger(Append(log, e))
<1> DEFINE new == Append(log, e)
<1>1. /\ Len(new) = Len(log) + 1
      /\ Len(log) \in Nat
      /\ new[Len(log) + 1] = e
      /\ \A i \in 1..Len(log) : new[i] = log[i]
      /\ DOMAIN new = 1..(Len(log) + 1)
      /\ DOMAIN log = 1..Len(log)
  OBVIOUS
<1>2. ASSUME NEW i \in 1..Len(log)
      PROVE  ValidEvent(new[i], i - 1, IF i = 1 THEN Life!NoState ELSE new[i - 1].to,
                        IF i = 1 THEN ZeroHash ELSE Digest(new[i - 1]))
  <2>1. i = 1 \/ i - 1 \in 1..Len(log)
    BY <1>1
  <2>2. new[i] = log[i] /\ (i # 1 => new[i - 1] = log[i - 1])
    BY <1>1, <2>1
  <2>3. ValidEvent(log[i], i - 1, IF i = 1 THEN Life!NoState ELSE log[i - 1].to,
                   IF i = 1 THEN ZeroHash ELSE Digest(log[i - 1]))
    BY <1>1 DEF VerifyLedger
  <2> QED BY <2>2, <2>3
<1>3. ValidEvent(new[Len(log) + 1], Len(log),
                 IF Len(log) + 1 = 1 THEN Life!NoState ELSE new[Len(log)].to,
                 IF Len(log) + 1 = 1 THEN ZeroHash ELSE Digest(new[Len(log)]))
  <2>1. CASE log = <<>>
    BY <1>1, <2>1 DEF StateOf, RootOf, Life!NoState
  <2>2. CASE log # <<>>
    <3>1. Len(log) \in 1..Len(log) /\ Len(log) + 1 # 1
      BY <2>2, <1>1
    <3>2. new[Len(log)] = log[Len(log)]
      BY <1>1, <3>1
    <3> QED BY <1>1, <2>2, <3>1, <3>2 DEF StateOf, RootOf
  <2> QED BY <2>1, <2>2
<1>4. \A i \in DOMAIN new :
        ValidEvent(new[i], i - 1, IF i = 1 THEN Life!NoState ELSE new[i - 1].to,
                   IF i = 1 THEN ZeroHash ELSE Digest(new[i - 1]))
  <2> TAKE i \in DOMAIN new
  <2>1. CASE i \in 1..Len(log)
    BY <1>2, <2>1
  <2>2. CASE i = Len(log) + 1
    <3>1. i - 1 = Len(log)
      BY <2>2, <1>1
    <3> QED BY <1>3, <2>2, <3>1
  <2> QED BY <1>1, <2>1, <2>2
<1> QED BY <1>4 DEF VerifyLedger

\* The rank of a fitting event is at least that of every event before it, and
\* above it where the event completes, aborts, seals, judges or sends to review.
LEMMA AppendAdvances ==
  ASSUME NEW log \in Seq(Event), NEW e \in Event,
         ValidEvent(e, Len(log), StateOf(log), RootOf(log)),
         NEW i \in 1..Len(log),
         Life!Rank(log[i].to) <= Life!Rank(log[Len(log)].to)
  PROVE  /\ Life!Rank(log[i].to) <= Life!Rank(e.to)
         /\ e.transition /\ Life!Rank(e.to) >= 6 => Life!Rank(log[i].to) < Life!Rank(e.to)
<1>1. StateOf(log) = log[Len(log)].to
  BY DEF StateOf
<1>2. log[i] \in Event /\ log[Len(log)] \in Event
  OBVIOUS
<1>3. Life!Rank(log[i].to) \in 0..9 /\ Life!Rank(log[Len(log)].to) \in 0..9
  BY <1>2, RankTyped DEF Event
<1>4. CASE e.transition
  <2>1. LegalTransition(StateOf(log), e.to, e.event_type)
    BY <1>4 DEF ValidEvent
  <2>2. /\ Life!Rank(StateOf(log)) <= Life!Rank(e.to)
        /\ Life!Rank(e.to) \in 0..9
        /\ Life!Rank(e.to) >= 6 => Life!Rank(StateOf(log)) < Life!Rank(e.to)
    BY <2>1, TransitionsAdvance
  <2> QED BY <1>1, <1>3, <2>2
<1>5. CASE ~e.transition
  <2>1. e.to = StateOf(log)
    BY <1>5 DEF ValidEvent
  <2> QED BY <1>1, <1>5, <2>1
<1> QED BY <1>4, <1>5

\* The ledger part of the invariant.
LEMMA LedgerPartStep ==
  ASSUME LedgerInv, [Next]_vars
  PROVE  LedgerVerifies' /\ Monotone' /\ OneOutcome'
<1>1. CASE ledger' = ledger
  BY <1>1 DEF LedgerInv, LedgerVerifies, Monotone, OneOutcome
<1>2. ASSUME NEW w \in Writers,
             ValidEvent(ev[w], Len(ledger), StateOf(ledger), RootOf(ledger)),
             ledger' = Append(ledger, ev[w])
      PROVE  LedgerVerifies' /\ Monotone' /\ OneOutcome'
  <2> DEFINE e == ev[w]
             n == Len(ledger)
  <2>1. ledger \in Seq(Event) /\ e \in Event /\ n \in Nat
    BY DEF LedgerInv, TypeOK
  <2>2. LedgerVerifies'
    BY <1>2, <2>1, AppendKeeps DEF LedgerInv, LedgerVerifies
  <2>3. /\ DOMAIN ledger = 1..n
        /\ DOMAIN ledger' = 1..(n + 1)
        /\ ledger'[n + 1] = e
        /\ \A i \in 1..n : ledger'[i] = ledger[i]
    BY <1>2, <2>1
  <2>4. ASSUME NEW i \in 1..n
        PROVE  /\ Life!Rank(ledger[i].to) <= Life!Rank(e.to)
               /\ e.transition /\ Life!Rank(e.to) >= 6
                    => Life!Rank(ledger[i].to) < Life!Rank(e.to)
    <3>1. n \in 1..n
      BY <2>1
    <3>2. Life!Rank(ledger[i].to) <= Life!Rank(ledger[n].to)
      BY <2>1, <2>3, <3>1 DEF LedgerInv, Monotone
    <3> QED BY <1>2, <2>1, <3>2, AppendAdvances
  <2>5. Life!Rank(e.to) \in 0..9 /\ \A i \in 1..n : Life!Rank(ledger[i].to) \in 0..9
    <3>1. \A f \in Event : Life!Rank(f.to) \in 0..9
      BY RankTyped DEF Event
    <3>2. \A i \in 1..n : ledger[i] \in Event
      BY <2>1
    <3> QED BY <2>1, <3>1, <3>2
  <2>6. Monotone'
    <3> SUFFICES ASSUME NEW i \in 1..(n + 1), NEW j \in 1..(n + 1), i <= j
                 PROVE  Life!Rank(ledger'[i].to) <= Life!Rank(ledger'[j].to)
      BY <2>3 DEF Monotone, Life!Rank
    <3>1. CASE j \in 1..n
      <4>1. i \in 1..n
        BY <2>1, <3>1
      <4>2. Life!Rank(ledger[i].to) <= Life!Rank(ledger[j].to)
        BY <2>3, <3>1, <4>1 DEF LedgerInv, Monotone
      <4> QED BY <2>3, <3>1, <4>1, <4>2
    <3>2. CASE j = n + 1 /\ i \in 1..n
      BY <2>3, <2>4, <3>2
    <3>3. CASE j = n + 1 /\ i = n + 1
      BY <2>3, <2>5, <3>3
    <3> QED BY <2>1, <3>1, <3>2, <3>3
  <2>7. OneOutcome'
    <3> SUFFICES ASSUME NEW i \in 1..(n + 1), NEW j \in 1..(n + 1),
                        ledger'[i].transition, ledger'[j].transition,
                        Life!Rank(ledger'[i].to) >= 6,
                        Life!Rank(ledger'[i].to) = Life!Rank(ledger'[j].to)
                 PROVE  i = j
      BY <2>3 DEF OneOutcome, Life!Rank
    <3>1. CASE i \in 1..n /\ j \in 1..n
      BY <2>3, <3>1 DEF LedgerInv, OneOutcome
    <3>2. CASE i \in 1..n /\ j = n + 1
      BY <2>3, <2>4, <2>5, <3>2
    <3>3. CASE i = n + 1 /\ j \in 1..n
      BY <2>3, <2>4, <2>5, <3>3
    <3>4. CASE i = n + 1 /\ j = n + 1
      BY <3>4
    <3> QED BY <2>1, <3>1, <3>2, <3>3, <3>4
  <2> QED BY <2>2, <2>6, <2>7
<1> QED BY <1>1, <1>2, LedgerStep

\* The writers' part: what is in place stays in place, and what was fitting is
\* either still the next event or no longer claims to be.
LEMMA WriterPartStep ==
  ASSUME LedgerInv, TypeOK', [Next]_vars
  PROVE  PendingFits' /\ LinkedInPlace' /\ AckedStays'
<1>1. TypeOK /\ PendingFits /\ LinkedInPlace /\ AckedStays
  BY DEF LedgerInv
<1>2. CASE ledger' = ledger
  <2>1. ASSUME NEW w \in Writers, BuildEvent(w)
        PROVE  PendingFits' /\ LinkedInPlace' /\ AckedStays'
    <3>1. EventFor(w, ledger).sequence = Len(ledger) /\ Len(ledger) \in Nat
      BY <1>1 DEF EventFor, TypeOK
    <3>2. pc'[w] = "stage" /\ ev'[w] = EventFor(w, ledger)
      BY <1>1, <2>1 DEF BuildEvent, TypeOK
    <3>3. \A v \in Writers \ {w} : pc'[v] = pc[v] /\ ev'[v] = ev[v]
      BY <1>1, <2>1 DEF BuildEvent, TypeOK
    <3>4. PendingFits'
      BY <1>1, <1>2, <2>1, <3>1, <3>2, <3>3
      DEF PendingFits, BuildEvent, StateOf, RootOf, Digest
    <3>5. LinkedInPlace'
      BY <1>1, <1>2, <3>2, <3>3 DEF LinkedInPlace, InPlace
    <3>6. AckedStays'
      BY <1>1, <1>2, <2>1 DEF AckedStays, BuildEvent
    <3> QED BY <3>4, <3>5, <3>6
  <2>2. ASSUME NEW w \in Writers, StartAppend(w) \/ RejectEvent(w)
        PROVE  PendingFits' /\ LinkedInPlace' /\ AckedStays'
    <3>1. /\ ev' = ev /\ acked' = acked
          /\ pc'[w] \in {"read", "idle"}
          /\ \A v \in Writers \ {w} : pc'[v] = pc[v]
      BY <1>1, <2>2 DEF StartAppend, AppendTransition, AppendOccurrence, RejectEvent, TypeOK
    <3> QED BY <1>1, <1>2, <3>1 DEF PendingFits, LinkedInPlace, InPlace, AckedStays, StateOf, RootOf
  <2>3. ASSUME NEW w \in Writers, StageFile(w)
        PROVE  PendingFits' /\ LinkedInPlace' /\ AckedStays'
    <3>1. /\ ev' = ev /\ acked' = acked
          /\ pc[w] = "stage" /\ pc'[w] = "link"
          /\ \A v \in Writers \ {w} : pc'[v] = pc[v]
      BY <1>1, <2>3 DEF StageFile, TypeOK
    <3> QED BY <1>1, <1>2, <3>1 DEF PendingFits, LinkedInPlace, InPlace, AckedStays, StateOf, RootOf
  <2>4. ASSUME NEW w \in Writers, LinkFile(w)
        PROVE  PendingFits' /\ LinkedInPlace' /\ AckedStays'
    <3>1. pc'[w] = "collided" \/ ledger' = Append(ledger, ev[w])
      BY <1>1, <2>4 DEF LinkFile, TypeOK
    <3>2. ledger' # Append(ledger, ev[w])
      <4>1. Len(ledger) \in Nat /\ ledger \in Seq(Event) /\ ev[w] \in Event
        BY <1>1 DEF TypeOK
      <4>2. Len(Append(ledger, ev[w])) = Len(ledger) + 1
        BY <4>1
      <4> QED BY <1>2, <4>1, <4>2
    <3>3. /\ ev' = ev /\ acked' = acked
          /\ \A v \in Writers \ {w} : pc'[v] = pc[v]
      BY <1>1, <2>4 DEF LinkFile, TypeOK
    <3> QED BY <1>1, <1>2, <3>1, <3>2, <3>3
            DEF PendingFits, LinkedInPlace, InPlace, AckedStays, StateOf, RootOf
  <2>5. ASSUME NEW w \in Writers, UnlinkFile(w)
        PROVE  PendingFits' /\ LinkedInPlace' /\ AckedStays'
    <3>1. /\ pc'[w] = "idle"
          /\ \A v \in Writers \ {w} : pc'[v] = pc[v] /\ ev'[v] = ev[v]
          /\ acked' = IF pc[w] = "linked" THEN acked \cup {ev[w]} ELSE acked
      BY <1>1, <2>5 DEF UnlinkFile, TypeOK
    <3>2. PendingFits' /\ LinkedInPlace'
      BY <1>1, <1>2, <3>1 DEF PendingFits, LinkedInPlace, InPlace, StateOf, RootOf
    <3>3. AckedStays'
      BY <1>1, <1>2, <3>1 DEF AckedStays, LinkedInPlace, InPlace
    <3> QED BY <3>2, <3>3
  <2>6. ASSUME NEW w \in Writers, Crash(w)
        PROVE  PendingFits' /\ LinkedInPlace' /\ AckedStays'
    <3>1. /\ pc'[w] = "idle" /\ acked' = acked
          /\ \A v \in Writers \ {w} : pc'[v] = pc[v] /\ ev'[v] = ev[v]
      BY <1>1, <2>6 DEF Crash, TypeOK
    <3> QED BY <1>1, <1>2, <3>1 DEF PendingFits, LinkedInPlace, InPlace, AckedStays, StateOf, RootOf
  <2>7. CASE UNCHANGED vars
    BY <1>1, <2>7 DEF vars, PendingFits, LinkedInPlace, InPlace, AckedStays, StateOf, RootOf
  <2> QED BY <2>1, <2>2, <2>3, <2>4, <2>5, <2>6, <2>7 DEF Next, Continue
<1>3. ASSUME NEW w \in Writers,
             pc[w] = "link",
             pc' = [ pc EXCEPT ![w] = "linked" ],
             ev' = ev, acked' = acked,
             ev[w].sequence = Len(ledger),
             ledger' = Append(ledger, ev[w])
      PROVE  PendingFits' /\ LinkedInPlace' /\ AckedStays'
  <2>1. ledger \in Seq(Event) /\ ev[w] \in Event /\ Len(ledger) \in Nat
    BY <1>1 DEF TypeOK
  <2>2. /\ Len(ledger') = Len(ledger) + 1
        /\ DOMAIN ledger = 1..Len(ledger)
        /\ DOMAIN ledger' = 1..(Len(ledger) + 1)
        /\ ledger'[Len(ledger) + 1] = ev[w]
        /\ \A i \in 1..Len(ledger) : ledger'[i] = ledger[i]
    BY <1>3, <2>1
  <2>3. \A v \in Writers : ev[v].sequence \in Nat
    BY <1>1 DEF TypeOK, Event
  <2>4. pc'[w] = "linked" /\ \A v \in Writers \ {w} : pc'[v] = pc[v]
    BY <1>1, <1>3 DEF TypeOK
  <2>5. PendingFits'
    <3>1. ASSUME NEW v \in Writers, pc'[v] \in {"stage", "link"}
          PROVE  ev'[v].sequence <= Len(ledger)
      BY <1>1, <1>3, <2>4, <3>1 DEF PendingFits
    <3> QED BY <2>1, <2>2, <2>3, <3>1, <1>3 DEF PendingFits
  <2>6. \A e : InPlace(e) => InPlace(e)'
    BY <2>1, <2>2 DEF InPlace
  <2>7. LinkedInPlace'
    BY <1>1, <1>3, <2>1, <2>2, <2>4, <2>6 DEF LinkedInPlace, InPlace
  <2>8. AckedStays'
    BY <1>1, <1>3, <2>6 DEF AckedStays, InPlace
  <2> QED BY <2>5, <2>7, <2>8
<1> QED BY <1>2, <1>3, LedgerStep

-----------------------------------------------------------------------------
(* The theorems                                                            *)

\* The ledger a run is published with.
LEMMA InitialInvariant == Init => LedgerInv
<1> SUFFICES ASSUME Init PROVE LedgerInv
  OBVIOUS
<1>1. TypeOK
  BY InitialEvents DEF Init, TypeOK, Steps, Op, NoOp, NoEvent, EventTypes,
     Life!TransitionTypes, Life!TransitionEvents, Life!States
<1>2. DOMAIN ledger = 1..4
  BY DEF Init, InitialLedger
<1>3. /\ ledger[1].to = "draft" /\ ledger[2].to = "validated"
      /\ ledger[3].to = "locked" /\ ledger[4].to = "execution_authorized"
  BY DEF Init, InitialLedger
<1>4. \A i \in 1..4 : Life!Rank(ledger[i].to) = i
  <2>1. /\ Life!Rank("draft") = 1 /\ Life!Rank("validated") = 2
        /\ Life!Rank("locked") = 3 /\ Life!Rank("execution_authorized") = 4
    BY DEF Life!Rank, Life!NoState
  <2> QED BY <1>3, <2>1
<1>5. Monotone /\ OneOutcome
  BY <1>2, <1>4 DEF Monotone, OneOutcome
<1>6. LedgerVerifies
  <2> SUFFICES ASSUME NEW i \in 1..4
               PROVE  ValidEvent(ledger[i], i - 1,
                                 IF i = 1 THEN Life!NoState ELSE ledger[i - 1].to,
                                 IF i = 1 THEN ZeroHash ELSE Digest(ledger[i - 1]))
    BY <1>2 DEF LedgerVerifies, VerifyLedger
  <2>1. CASE i = 1
    BY <2>1 DEF Init, InitialLedger, ValidEvent, LegalTransition, Life!TransitionEvents, Life!NoState
  <2>2. CASE i = 2
    BY <2>2 DEF Init, InitialLedger, ValidEvent, LegalTransition, Life!TransitionEvents, Digest
  <2>3. CASE i = 3
    BY <2>3 DEF Init, InitialLedger, ValidEvent, LegalTransition, Life!TransitionEvents, Digest
  <2>4. CASE i = 4
    BY <2>4 DEF Init, InitialLedger, ValidEvent, LegalTransition, Life!TransitionEvents, Digest
  <2> QED BY <2>1, <2>2, <2>3, <2>4
<1>7. PendingFits /\ LinkedInPlace /\ AckedStays
  BY DEF Init, PendingFits, LinkedInPlace, AckedStays
<1> QED BY <1>1, <1>5, <1>6, <1>7 DEF LedgerInv

\* The inductive invariant holds of every behaviour of the writers.
THEOREM LedgerInvariant == Spec => []LedgerInv
<1>1. LedgerInv /\ TypeOK' /\ [Next]_vars => LedgerInv'
  BY LedgerPartStep, WriterPartStep DEF LedgerInv
<1> QED BY InitialInvariant, TypeInvariant, <1>1, PTL DEF Spec

\* Without any lock, the published ledger always passes verify_ledger.
THEOREM LedgerAlwaysVerifies == Spec => []LedgerVerifies
<1>1. LedgerInv => LedgerVerifies
  BY DEF LedgerInv
<1> QED BY <1>1, LedgerInvariant, PTL

\* An acknowledged event keeps its place for ever.
THEOREM AckedAlwaysStays == Spec => []AckedStays
<1>1. LedgerInv => AckedStays
  BY DEF LedgerInv
<1> QED BY <1>1, LedgerInvariant, PTL

\* Racing processes cannot both complete and abort a capture, nor seal, judge or
\* send to review twice.
THEOREM AlwaysOneOutcome == Spec => []OneOutcome
<1>1. LedgerInv => OneOutcome
  BY DEF LedgerInv
<1> QED BY <1>1, LedgerInvariant, PTL

\* The concurrent ledger implements the lifecycle automaton.
THEOREM Refinement == Spec => ImplementsLifecycle
<1>1. Init => Life!Init
  BY DEF Init, InitialLedger, StateOf, Life!Init
<1>2. LedgerInv /\ [Next]_vars => [Life!Next]_(StateOf(ledger))
  <2> SUFFICES ASSUME LedgerInv, [Next]_vars PROVE [Life!Next]_(StateOf(ledger))
    OBVIOUS
  <2>1. CASE ledger' = ledger
    BY <2>1 DEF StateOf
  <2>2. ASSUME NEW w \in Writers,
               ValidEvent(ev[w], Len(ledger), StateOf(ledger), RootOf(ledger)),
               ledger' = Append(ledger, ev[w])
        PROVE  [Life!Next]_(StateOf(ledger))
    <3>1. ledger \in Seq(Event) /\ ev[w] \in Event
      BY DEF LedgerInv, TypeOK
    <3>2. StateOf(ledger') = ev[w].to
      BY <2>2, <3>1 DEF StateOf
    <3>3. CASE ev[w].transition
      <4>1. <<StateOf(ledger), ev[w].to, ev[w].event_type>> \in Life!TransitionEvents
        BY <2>2, <3>3 DEF ValidEvent, LegalTransition
      <4>2. <<StateOf(ledger), StateOf(ledger'), ev[w].event_type>> \in Life!TransitionEvents
        BY <4>1, <3>2
      <4> QED BY <4>2 DEF Life!Next, Life!Move
    <3>4. CASE ~ev[w].transition
      BY <2>2, <3>2, <3>4 DEF ValidEvent
    <3> QED BY <3>3, <3>4
  <2> QED BY <2>1, <2>2, LedgerStep
<1> QED BY <1>1, <1>2, LedgerInvariant, PTL DEF Spec, ImplementsLifecycle, Life!Spec
=============================================================================
