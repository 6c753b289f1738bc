-------------------------- MODULE CaptureLifecycle --------------------------
(***************************************************************************)
(* The lifecycle ledger of one run directory, and any number of processes  *)
(* that append to it (capture/lifecycle.py over capture/canonical.py).     *)
(*                                                                         *)
(* ledger/events holds one immutable file per event.  A writer reads the   *)
(* whole directory, decides the event type from the state it saw, reads    *)
(* the directory AGAIN, builds and validates the event on that second      *)
(* reading, writes it to a temporary file in the same directory, and       *)
(* publishes it with an exclusive hard link named by its sequence number.  *)
(* Nothing locks the directory, so every step of every writer interleaves. *)
(* While a temporary file is there a reader refuses the directory.         *)
(*                                                                         *)
(* Hashes: event_sha256 seals an event and, through previous_event_sha256, *)
(* everything before it.  Files never change once published, so a digest   *)
(* is the identity of the event: its sequence number, type and writer.     *)
(***************************************************************************)
EXTENDS Naturals, Sequences

CONSTANTS
  Writers,      \* processes that append to the ledger
  MaxEvents,    \* bound: no append starts once the ledger is this long
  MaxCrashes    \* bound: processes killed in the middle of an append

ASSUME WriterAssumption == "initializer" \notin Writers
ASSUME BoundAssumption  == MaxEvents \in Nat /\ MaxCrashes \in Nat

VARIABLES
  ledger,   \* the published events, in file-name order
  staged,   \* writers whose temporary file is in ledger/events
  debris,   \* temporary files left there by killed writers
  pc,       \* where each writer is in its append
  op,       \* what each writer decided from its first reading
  ev,       \* the event each writer built from its second reading
  acked,    \* events whose append returned to its caller
  crashes

vars == <<ledger, staged, debris, pc, op, ev, acked, crashes>>

\* The automaton whose tables the ledger is validated against.
StateOf(log) == IF log = <<>> THEN "no_state" ELSE log[Len(log)].to

Life == INSTANCE RunLifecycle WITH state <- StateOf(ledger)

-----------------------------------------------------------------------------
(* Events and their validation                                             *)

Authors    == Writers \cup {"initializer"}
EventTypes == Life!TransitionTypes \cup Life!OccurrenceTypes
ZeroHash   == <<0, "zero", "initializer">>
Digests    == Nat \X (EventTypes \cup {"zero"}) \X Authors

Event ==
  [ sequence   : Nat,
    event_type : EventTypes,
    transition : BOOLEAN,
    from       : Life!States \cup {Life!NoState},
    to         : Life!States,
    previous   : Digests,
    author     : Authors ]

Op == [ event_type : EventTypes, to : Life!States, transition : BOOLEAN ]

Digest(e) == <<e.sequence, e.event_type, e.author>>

RootOf(log) == IF log = <<>> THEN ZeroHash ELSE Digest(log[Len(log)])

LegalTransition(from, to, type) == <<from, to, type>> \in Life!TransitionEvents
LegalOccurrence(type, state)    == <<type, state>> \in Life!OccurrenceStates

\* Mutant of ValidEvent: an occurrence is not held to the state it is recorded in.
ValidEventAnyTarget(e, sequence, state, root) ==
  /\ e.sequence = sequence
  /\ e.previous = root
  /\ e.from = state
  /\ IF e.transition
       THEN LegalTransition(state, e.to, e.event_type)
       ELSE LegalOccurrence(e.event_type, state)

\* The event fits a ledger whose length, state and root are the given ones.
ValidEvent(e, sequence, state, root) ==
  /\ e.sequence = sequence
  /\ e.previous = root
  /\ e.from = state
  /\ IF e.transition
       THEN LegalTransition(state, e.to, e.event_type)
       ELSE e.to = state /\ LegalOccurrence(e.event_type, state)

\* Every event fits the ledger that ends just before it.
VerifyLedger(log) ==
  \A i \in DOMAIN log :
     ValidEvent(log[i], i - 1,
                IF i = 1 THEN Life!NoState ELSE log[i - 1].to,
                IF i = 1 THEN ZeroHash ELSE Digest(log[i - 1]))

\* Events 0 .. Len(ledger) - 1 have their files.
NameTaken(sequence) == sequence < Len(ledger)

\* A reader lists the directory and refuses any name that is not an event's.
Readable == staged = {} /\ debris = 0

\* The event a writer builds on the ledger it has just read.
EventFor(w, log) ==
  [ sequence   |-> Len(log),
    event_type |-> op[w].event_type,
    transition |-> op[w].transition,
    from       |-> StateOf(log),
    to         |-> op[w].to,
    previous   |-> RootOf(log),
    author     |-> w ]

\* The four events of initialize_run, published with the run directory.
InitialLedger ==
  LET path == << "draft", "validated", "locked", "execution_authorized" >>
      types == << "run_drafted", "campaign_validated", "benchmark_locked",
                  "execution_authorization_bound" >>
  IN [ i \in 1..4 |->
         [ sequence   |-> i - 1,
           event_type |-> types[i],
           transition |-> TRUE,
           from       |-> IF i = 1 THEN Life!NoState ELSE path[i - 1],
           to         |-> path[i],
           previous   |-> IF i = 1 THEN ZeroHash
                                   ELSE <<i - 2, types[i - 1], "initializer">>,
           author     |-> "initializer" ] ]

NoOp    == [ event_type |-> "run_drafted", to |-> "draft", transition |-> TRUE ]
NoEvent == InitialLedger[1]

-----------------------------------------------------------------------------
(* The steps of a writer                                                   *)

Init ==
  /\ ledger  = InitialLedger
  /\ staged  = {}
  /\ debris  = 0
  /\ pc      = [ w \in Writers |-> "idle" ]
  /\ op      = [ w \in Writers |-> NoOp ]
  /\ ev      = [ w \in Writers |-> NoEvent ]
  /\ acked   = {}
  /\ crashes = 0

\* append_transition: the event type follows from the state seen now.
AppendTransition(w, to) ==
  /\ pc[w] = "idle"
  /\ Readable
  /\ Len(ledger) < MaxEvents
  /\ \E type \in Life!TransitionTypes :
       /\ LegalTransition(StateOf(ledger), to, type)
       /\ op' = [ op EXCEPT ![w] =
                    [ event_type |-> type, to |-> to, transition |-> TRUE ] ]
  /\ pc' = [ pc EXCEPT ![w] = "read" ]
  /\ UNCHANGED <<ledger, staged, debris, ev, acked, crashes>>

\* append_occurrence: the state is kept, whichever it was when seen now.
AppendOccurrence(w, type) ==
  /\ pc[w] = "idle"
  /\ Readable
  /\ Len(ledger) < MaxEvents
  /\ StateOf(ledger) # Life!NoState
  /\ op' = [ op EXCEPT ![w] =
               [ event_type |-> type, to |-> StateOf(ledger), transition |-> FALSE ] ]
  /\ pc' = [ pc EXCEPT ![w] = "read" ]
  /\ UNCHANGED <<ledger, staged, debris, ev, acked, crashes>>

\* Mutant of BuildEvent: the event is trusted because the first reading allowed it.
BuildEventUnvalidated(w) ==
  /\ pc[w] = "read"
  /\ Readable
  /\ ev' = [ ev EXCEPT ![w] = EventFor(w, ledger) ]
  /\ pc' = [ pc EXCEPT ![w] = "stage" ]
  /\ UNCHANGED <<ledger, staged, debris, op, acked, crashes>>

\* _append reads the ledger again and validates the event it builds on it.
BuildEvent(w) ==
  /\ pc[w] = "read"
  /\ Readable
  /\ LET e == EventFor(w, ledger)
     IN /\ ValidEvent(e, Len(ledger), StateOf(ledger), RootOf(ledger))
        /\ ev' = [ ev EXCEPT ![w] = e ]
  /\ pc' = [ pc EXCEPT ![w] = "stage" ]
  /\ UNCHANGED <<ledger, staged, debris, op, acked, crashes>>

\* The event does not fit the second reading, or the directory is refused.
RejectEvent(w) ==
  /\ pc[w] = "read"
  /\ \/ ~Readable
     \/ ~ValidEvent(EventFor(w, ledger), Len(ledger), StateOf(ledger), RootOf(ledger))
  /\ pc' = [ pc EXCEPT ![w] = "idle" ]
  /\ op' = [ op EXCEPT ![w] = NoOp ]
  /\ UNCHANGED <<ledger, staged, debris, ev, acked, crashes>>

\* write_exclusive_bytes: a flushed temporary file beside the target.
StageFile(w) ==
  /\ pc[w] = "stage"
  /\ staged' = staged \cup {w}
  /\ pc' = [ pc EXCEPT ![w] = "link" ]
  /\ UNCHANGED <<ledger, debris, op, ev, acked, crashes>>

\* Mutant of LinkFile: a rename that replaces an existing target.
LinkFileReplacing(w) ==
  /\ pc[w] = "link"
  /\ ledger' = IF NameTaken(ev[w].sequence)
                 THEN [ ledger EXCEPT ![ev[w].sequence + 1] = ev[w] ]
                 ELSE Append(ledger, ev[w])
  /\ pc' = [ pc EXCEPT ![w] = "linked" ]
  /\ UNCHANGED <<staged, debris, op, ev, acked, crashes>>

\* Mutant of LinkFile: a writer gives way whenever another one is publishing.
LinkFileYielding(w) ==
  /\ pc[w] = "link"
  /\ IF NameTaken(ev[w].sequence) \/ staged # {w}
       THEN /\ pc' = [ pc EXCEPT ![w] = "collided" ]
            /\ UNCHANGED ledger
       ELSE /\ ledger' = Append(ledger, ev[w])
            /\ pc' = [ pc EXCEPT ![w] = "linked" ]
  /\ UNCHANGED <<staged, debris, op, ev, acked, crashes>>

\* os.link succeeds only if no event has this sequence number yet.
LinkFile(w) ==
  /\ pc[w] = "link"
  /\ IF NameTaken(ev[w].sequence)
       THEN /\ pc' = [ pc EXCEPT ![w] = "collided" ]
            /\ UNCHANGED ledger
       ELSE /\ ledger' = Append(ledger, ev[w])
            /\ pc' = [ pc EXCEPT ![w] = "linked" ]
  /\ UNCHANGED <<staged, debris, op, ev, acked, crashes>>

\* The temporary name goes, and the caller learns the outcome.
UnlinkFile(w) ==
  /\ pc[w] \in {"linked", "collided"}
  /\ staged' = staged \ {w}
  /\ acked'  = IF pc[w] = "linked" THEN acked \cup {ev[w]} ELSE acked
  /\ pc' = [ pc EXCEPT ![w] = "idle" ]
  /\ op' = [ op EXCEPT ![w] = NoOp ]
  /\ ev' = [ ev EXCEPT ![w] = NoEvent ]
  /\ UNCHANGED <<ledger, debris, crashes>>

\* The process is killed: its temporary file stays in the directory.
Crash(w) ==
  /\ pc[w] # "idle"
  /\ crashes < MaxCrashes
  /\ crashes' = crashes + 1
  /\ staged' = staged \ {w}
  /\ debris' = IF w \in staged THEN debris + 1 ELSE debris
  /\ pc' = [ pc EXCEPT ![w] = "idle" ]
  /\ op' = [ op EXCEPT ![w] = NoOp ]
  /\ ev' = [ ev EXCEPT ![w] = NoEvent ]
  /\ UNCHANGED <<ledger, acked>>

StartAppend(w) ==
  \/ \E to \in Life!States : AppendTransition(w, to)
  \/ \E type \in Life!OccurrenceTypes : AppendOccurrence(w, type)

Continue(w) ==
  \/ BuildEvent(w)
  \/ RejectEvent(w)
  \/ StageFile(w)
  \/ LinkFile(w)
  \/ UnlinkFile(w)

Next == \E w \in Writers : StartAppend(w) \/ Continue(w) \/ Crash(w)

Spec == Init /\ [][Next]_vars

\* A running process keeps running; nobody has to start one.
FairSpec == Spec /\ \A w \in Writers : WF_vars(Continue(w))

-----------------------------------------------------------------------------
(* What the ledger promises                                                *)

Steps == { "idle", "read", "stage", "link", "linked", "collided" }

\* Variables keep their types, and a temporary file that is not debris belongs
\* to a writer between the creation of the file and its removal.
TypeOK ==
  /\ ledger \in Seq(Event)
  /\ staged = { w \in Writers : pc[w] \in { "link", "linked", "collided" } }
  /\ debris \in Nat
  /\ pc \in [ Writers -> Steps ]
  /\ op \in [ Writers -> Op ]
  /\ ev \in [ Writers -> Event ]
  /\ acked \subseteq Event
  /\ crashes \in Nat

\* Whatever the writers interleave, the published ledger passes verify_ledger:
\* the re-read and re-validation in _append make up for the missing lock.
LedgerVerifies == VerifyLedger(ledger)

\* An event whose append returned to its caller is in the ledger, at its own
\* sequence number, for ever after: no later writer can take its place.
AckedStays ==
  \A e \in acked : e.sequence + 1 \in DOMAIN ledger /\ ledger[e.sequence + 1] = e

\* A run completes its capture or aborts it, once, and is sealed, judged and
\* sent to review at most once, whichever processes race to do it.
OneOutcome ==
  \A i, j \in DOMAIN ledger :
     ( /\ ledger[i].transition
       /\ ledger[j].transition
       /\ Life!Rank(ledger[i].to) >= 6
       /\ Life!Rank(ledger[i].to) = Life!Rank(ledger[j].to) ) => i = j

\* The state read from the ledger moves as the lifecycle automaton says.
ImplementsLifecycle == Life!Spec

\* Publication is lock-free: once a writer has built the event with some
\* sequence number, that number gets published, by it or by a rival, unless a
\* writer is killed first.
LockFree ==
  \A n \in Len(InitialLedger)..MaxEvents-1, k \in 0..MaxCrashes :
     (crashes = k /\ \E w \in Writers : pc[w] = "stage" /\ ev[w].sequence = n)
       ~> (Len(ledger) > n \/ crashes > k)

=============================================================================
