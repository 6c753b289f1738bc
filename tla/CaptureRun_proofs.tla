--------------------------- MODULE CaptureRun_proofs ---------------------------
(***************************************************************************)
(* What CaptureRun promises for any number of commands at the same time on *)
(* one run directory, killed anywhere, and for any budget, transport and   *)
(* operator.  IInv is the inductive invariant.  What a command read at its *)
(* start may be stale when it writes; IInv says what of it still holds.    *)
(* Two more layers need one command at a time, killed or not: RecInv of    *)
(* the recovery records, SealInv of the sealed evidence.  The last part is *)
(* about CaptureOperator: OperatorInv says what an operator who follows    *)
(* the rules finds after a command was killed.                             *)
(***************************************************************************)
EXTENDS CaptureOperator, SequenceTheorems, FiniteSetTheorems, WellFoundedInduction, TLAPS

-----------------------------------------------------------------------------
(* The invariant: the ledger.                                              *)

SealTypes == {"capture_sealed", "aborted_capture_sealed"}

\* The states of a run that exists.
Authorized ==
  { "execution_authorized", "capturing", "captured", "interrupted", "aborted", "sealed",
    "judged", "review_required" }

\* What the state can be once an event of this type is in the ledger.
StatesAfter(type) ==
  CASE type = "capture_completed" -> {"captured", "sealed", "judged", "review_required"}
    [] type \in SealTypes         -> {"sealed", "judged", "review_required"}
    [] type = "judgment_sealed"   -> {"judged", "review_required"}
    [] OTHER                      -> Authorized

LedgerSound ==
  /\ ledger \in Seq({ ledger[i] : i \in DOMAIN ledger }) /\ ledger # <<>>
  /\ \A i \in DOMAIN ledger :
       /\ ledger[i].to \in Life!States
       /\ ledger[i].dig # None => ledger[i].dig \in Range(recs)
       /\ State \in StatesAfter(ledger[i].type)
  /\ State = "captured" => EventsOf({"capture_completed"}) # {}

-----------------------------------------------------------------------------
(* Attempts, and the commands that make them.                              *)

StoredAttempts == [ request : BOOLEAN, record : AttemptRecord \cup {None} ]

\* The capture of this attempt is not complete and never will be.
Interrupted(n) == attempts[n].record # None /\ ~attempts[n].record.complete

EvidenceSound ==
  /\ attempts \in Seq(StoredAttempts) /\ Len(attempts) <= MaxAttempts
  /\ \A n \in DOMAIN attempts :
       /\ attempts[n].record # None =>
            /\ attempts[n].request
            /\ attempts[n].record.complete => attempts[n].record.blob \in blobs
       /\ n < Len(attempts) => attempts[n].record # None /\ Terminal(n)
  /\ recs \in Seq(Recovery)
  /\ blobs \subseteq Blobs
  /\ CapturedEvidence
  /\ \A i \in EventsOf({"capture_completed"}) : ledger[i].att \in DOMAIN attempts
  /\ \A i \in EventsOf({"capture_interrupted"}) :
       ledger[i].att # 0 => ledger[i].att \in DOMAIN attempts /\ Interrupted(ledger[i].att)

\* Steps of a command that has made an attempt and not yet recorded it.
Owning == {"request", "request_event", "send", "wait", "reuse", "record", "record_reused"}

Sending == {"wait", "reuse", "record", "record_reused"}

OwnerSound(me) ==
  /\ me.n = Len(attempts) /\ me.n \in DOMAIN attempts
  /\ attempts[me.n].record = None
  /\ me.pc # "request" => attempts[me.n].request
  /\ IF me.pc \in Sending THEN me.n \in Range(sent) ELSE me.n \notin Range(sent)
  /\ me.pc = "send" =>
       /\ EventsFor("request_preserved", me.n) # {}
       /\ \A m \in 1 .. me.n - 1 : Interrupted(m) /\ EventsFor("capture_interrupted", m) # {}
  /\ me.pc \in {"reuse", "record", "record_reused"} =>
       me.out \in Answers /\ (me.out.blob # None => me.out.blob \in blobs)

OneOwner == \A p, q \in Procs : {loc[p].pc, loc[q].pc} \subseteq Owning => p = q

\* A request that is on its way: its event is in the ledger, the transport not yet called.
OnItsWay == \E p \in Procs : At(p, "send")

\* Each stay in "capturing" is good for one request, and is over before the next.
SentSound ==
  /\ sent \in Seq(DOMAIN attempts)
  /\ \A i \in DOMAIN sent : i <= sent[i]
  /\ DispatchDiscipline
  /\ OnItsWay => Len(sent) <= Cardinality(Resumptions)
  /\ State = "capturing" /\ (\A i \in DOMAIN sent : EventsFor("capture_interrupted", sent[i]) # {})
       => Len(sent) <= Cardinality(Resumptions)
  /\ State = "execution_authorized" => sent = <<>> /\ ~OnItsWay

-----------------------------------------------------------------------------
(* Manifest and judgment.                                                  *)

\* No event but its seal can follow the ledger a manifest was made of.
ManifestSound(m) ==
  /\ m \in Manifests
  /\ State \in {"captured", "aborted", "sealed", "judged", "review_required"}
  /\ State \in {"captured", "aborted"} => m.state = State /\ m.root = Len(ledger)
  /\ m.state = "captured" => \E n \in DOMAIN m.attempts : m.attempts[n].complete

JudgmentSound(j) ==
  /\ j \in Judgments
  /\ manifest # None /\ j.manifest = manifest /\ manifest.state = "captured"
  /\ \E n \in DOMAIN manifest.attempts :
       manifest.attempts[n].complete /\ manifest.attempts[n].blob = j.blob

ArtifactsSound ==
  /\ manifest # None => ManifestSound(manifest)
  /\ judgment # None => JudgmentSound(judgment)
  /\ SealsBind
  /\ \A i \in EventsOf(SealTypes) : manifest # None
  /\ \A i \in EventsOf({"judgment_sealed"}) : judgment # None

-----------------------------------------------------------------------------
(* What a command still has to append.                                     *)

TodoSound(todo) ==
  \/ \E n \in DOMAIN attempts :
       LET record == attempts[n].record
       IN /\ record # None
          /\ \/ ~record.complete /\ \E t \in {"attempt_interrupted", "metadata_rejected"} :
                  todo = << AttemptEvent(t, n), InterruptedEvent(n) >>
             \/ ~record.complete /\ todo = << InterruptedEvent(n) >>
             \/ record.complete /\ todo = << ResponseEvent(n, record.blob), CapturedEvent(n) >>
             \/ record.complete /\ todo = << CapturedEvent(n) >>
                  /\ \E j \in EventsFor("response_preserved", n) : ledger[j].ref = record.blob
  \/ manifest # None /\ todo = << SealEvent(manifest) >>
  \/ judgment # None /\ todo = << JudgedEvent(judgment) >>
  \/ todo = << ReviewEvent(todo[1].ref) >>

StateSound(me) ==
  /\ me = [ pc |-> me.pc, n |-> me.n, todo |-> me.todo, rec |-> me.rec, out |-> me.out,
            art |-> me.art ]
  /\ me.pc \in Steps
  /\ me.pc \in Owning => OwnerSound(me)
  /\ me.pc = "append" => TodoSound(me.todo)
  /\ me.pc \in {"recovery_record", "recovery_check", "recovery_append"} =>
       me.rec \in Recovery /\ me.n \in Nat
  /\ me.pc \in {"recovery_check", "recovery_append"} => me.rec \in Range(recs) /\ me.n > 0
  /\ me.pc = "recovery_append" => me.n \in DOMAIN RecoveryEvents(me.rec)
  /\ me.pc = "seal_write" => ManifestSound(me.art)
  /\ me.pc = "judge_write" => JudgmentSound(me.art)
  /\ me.pc = "bundle_verify" => me.n \in DOMAIN ledger

IInv ==
  /\ LedgerSound
  /\ EvidenceSound
  /\ SentSound
  /\ ArtifactsSound
  /\ loc = [ p \in Procs |-> loc[p] ]
  /\ \A p \in Procs : StateSound(loc[p])
  /\ OneOwner

-----------------------------------------------------------------------------
(* The ledger and its events.                                              *)

LEMMA Positions ==
  ASSUME LedgerSound
  PROVE  /\ Len(ledger) \in Nat \ {0} /\ DOMAIN ledger = 1 .. Len(ledger)
         /\ Len(ledger) \in DOMAIN ledger
<1>1. Len(ledger) \in Nat /\ DOMAIN ledger = 1 .. Len(ledger)
  BY LenProperties DEF LedgerSound
<1>2. Len(ledger) # 0
  BY EmptySeq DEF LedgerSound
<1> QED BY <1>1, <1>2

To(e) == IF e.to = None THEN State ELSE e.to

Appended(e) ==
  /\ ledger' \in Seq({ ledger'[i] : i \in DOMAIN ledger' }) /\ ledger' # <<>>
  /\ Len(ledger') = Len(ledger) + 1 /\ DOMAIN ledger' = 1 .. Len(ledger) + 1
  /\ \A i \in DOMAIN ledger : ledger'[i] = ledger[i]
  /\ ledger'[Len(ledger) + 1] =
       [ type |-> e.type, from |-> State, to |-> To(e), att |-> e.att, dig |-> e.dig, ref |-> e.ref ]
  /\ State' = To(e)

LEMMA PublishAppends ==
  ASSUME LedgerSound, NEW e, Publish(e)
  PROVE  Appended(e)
<1>1. PICK new : new = [ type |-> e.type, from |-> State, to |-> To(e), att |-> e.att,
                         dig |-> e.dig, ref |-> e.ref ]
  OBVIOUS
<1>2. ledger' = Append(ledger, new)
  BY <1>1 DEF Publish, To
<1> DEFINE S == { ledger[i] : i \in DOMAIN ledger } \cup {new}
<1>3. ledger \in Seq(S) /\ new \in S
  BY SeqMonotonic DEF LedgerSound
<1> HIDE DEF S
<1>4. /\ ledger' \in Seq(S) /\ Len(ledger') = Len(ledger) + 1
      /\ \A i \in 1 .. Len(ledger) : ledger'[i] = ledger[i]
      /\ ledger'[Len(ledger) + 1] = new
  BY <1>2, <1>3, AppendProperties
<1>5. ledger' \in Seq({ ledger'[i] : i \in DOMAIN ledger' })
  BY <1>4, SeqOfRange DEF Range
<1>6. DOMAIN ledger' = 1 .. Len(ledger) + 1
  BY <1>4, LenProperties
<1>7. State' = To(e)
  BY <1>1, <1>4 DEF State
<1>8. ledger' # <<>>
  BY <1>4, <1>6, Positions
<1> QED BY <1>1, <1>4, <1>5, <1>6, <1>7, <1>8, Positions DEF Appended

\* What the transition table says of an event that is not refused.
LEMMA Moves ==
  ASSUME LedgerSound, NEW e, Legal(e)
  PROVE  /\ State \in Authorized /\ To(e) \in Authorized \ {"execution_authorized"}
         /\ e.type = "capture_completed" => State = "capturing"
         /\ To(e) = "captured" => State = "captured" \/ e.type = "capture_completed"
         /\ e.type = "capture_sealed" => State = "captured"
         /\ e.type = "aborted_capture_sealed" => State = "aborted"
         /\ \A type : To(e) \in StatesAfter(type) \/ State \notin StatesAfter(type)
         /\ To(e) \in StatesAfter(e.type)
         /\ State \in {"captured", "aborted"} =>
              e.type = "provider_request_id_reused" \/ To(e) = "sealed"
         /\ e.type = "provider_request_id_reused" => State \in {"capturing", "captured"}
         /\ e.type = "judgment_sealed" => State = "sealed"
         /\ e.type = "capture_interrupted" => To(e) = "interrupted"
         /\ e.type = "capture_resumed" => State = "interrupted"
         /\ To(e) = "capturing" =>
              State \in {"capturing", "execution_authorized"} \/ e.type = "capture_resumed"
         /\ e.type = "request_preserved" => State = "capturing"
         /\ State = "captured" => EventsOf({"capture_completed"}) # {}
<1>1. State \in Authorized
  <2>1. State \in StatesAfter(ledger[1].type)
    BY Positions DEF LedgerSound
  <2>2. \A type : StatesAfter(type) \subseteq Authorized
    BY DEF StatesAfter, Authorized, SealTypes
  <2> QED BY <2>1, <2>2
<1>2. State = "captured" => EventsOf({"capture_completed"}) # {}
  BY DEF LedgerSound
<1>3. CASE e.to = None
  <2>1. <<e.type, State>> \in Life!OccurrenceStates /\ To(e) = State
    BY <1>3 DEF Legal, To
  <2> QED BY <1>1, <1>2, <2>1 DEF Life!OccurrenceStates, StatesAfter, Authorized, SealTypes
<1>4. CASE e.to # None
  <2>1. <<State, To(e), e.type>> \in Life!TransitionEvents
    BY <1>4 DEF Legal, To
  <2> QED BY <1>1, <1>2, <2>1
          DEF Life!TransitionEvents, Life!NoState, StatesAfter, Authorized, SealTypes
<1> QED BY <1>3, <1>4

-----------------------------------------------------------------------------
(* Evidence only grows, and with it what a command may rely on.            *)

Grows ==
  /\ Len(ledger) <= Len(ledger') /\ DOMAIN ledger \subseteq DOMAIN ledger'
  /\ \A i \in DOMAIN ledger : ledger'[i] = ledger[i]
  /\ Range(recs) \subseteq Range(recs') /\ blobs \subseteq blobs'
  /\ DOMAIN attempts \subseteq DOMAIN attempts'
  /\ \A n \in DOMAIN attempts : /\ attempts[n].request => attempts'[n].request
                                /\ Once(attempts[n].record, attempts'[n].record)
  /\ Once(manifest, manifest') /\ Once(judgment, judgment')

LEMMA EventsStay ==
  ASSUME Grows
  PROVE  /\ \A types : EventsOf(types) \subseteq EventsOf(types)'
         /\ \A type, n : EventsFor(type, n) \subseteq EventsFor(type, n)'
         /\ \A n : Terminal(n) => Terminal(n)'
         /\ \A n \in DOMAIN attempts : Interrupted(n) => Interrupted(n)'
<1>1. \A types : EventsOf(types) \subseteq EventsOf(types)'
  BY DEF Grows, EventsOf
<1>2. \A type, n : EventsFor(type, n) \subseteq EventsFor(type, n)'
  BY <1>1 DEF Grows, EventsFor, EventsOf
<1>3. \A n : Terminal(n) => Terminal(n)'
  BY <1>1 DEF Grows, Terminal, EventsOf
<1>4. \A n \in DOMAIN attempts : Interrupted(n) => Interrupted(n)'
  BY DEF Grows, Interrupted, Once
<1> QED BY <1>1, <1>2, <1>3, <1>4

LEMMA TodoStays ==
  ASSUME Grows, NEW todo, TodoSound(todo)
  PROVE  TodoSound(todo)'
<1>1. ASSUME NEW n \in DOMAIN attempts, attempts[n].record # None
      PROVE  n \in DOMAIN attempts' /\ attempts'[n].record = attempts[n].record
  BY <1>1 DEF Grows, Once
<1>2. ASSUME NEW n, NEW blob, \E j \in EventsFor("response_preserved", n) : ledger[j].ref = blob
      PROVE  \E j \in EventsFor("response_preserved", n)' : ledger'[j].ref = blob
  BY <1>2, EventsStay DEF Grows, EventsFor, EventsOf
<1>3. manifest # None => manifest' = manifest
  BY DEF Grows, Once
<1>4. judgment # None => judgment' = judgment
  BY DEF Grows, Once
<1> QED BY <1>1, <1>2, <1>3, <1>4
      DEF TodoSound, SealEvent, JudgedEvent, ReviewEvent, AttemptEvent, InterruptedEvent,
          ResponseEvent, CapturedEvent, Occurrence, Draft

\* The judgment is of the one manifest there ever is.
LEMMA JudgmentStays ==
  ASSUME Grows, NEW j, JudgmentSound(j)
  PROVE  JudgmentSound(j)'
  BY DEF Grows, Once, JudgmentSound

LEMMA OwnerStays ==
  ASSUME Grows, LedgerSound, NEW me, OwnerSound(me), attempts' = attempts, sent' = sent
  PROVE  OwnerSound(me)'
<1>1. me.n \in DOMAIN attempts /\ me.n = Len(attempts)
  BY DEF OwnerSound
<1>2. \A m : Interrupted(m) => Interrupted(m)'
  BY DEF Interrupted
<1>3. \A type, n : EventsFor(type, n) # {} => EventsFor(type, n)' # {}
  BY EventsStay
<1>4. me.pc = "send" =>
        /\ EventsFor("request_preserved", me.n)' # {}
        /\ \A m \in 1 .. me.n - 1 : Interrupted(m)' /\ EventsFor("capture_interrupted", m)' # {}
  BY <1>2, <1>3 DEF OwnerSound
<1> QED BY <1>4 DEF OwnerSound, Grows

LEMMA CommandStays ==
  ASSUME Grows, LedgerSound, NEW me, StateSound(me),
         me.pc \in Owning => attempts' = attempts /\ sent' = sent,
         me.pc = "seal_write" => ManifestSound(me.art)'
  PROVE  StateSound(me)'
<1>1. me.pc \in Owning => OwnerSound(me)'
  BY OwnerStays DEF StateSound
<1>2. me.pc = "append" => TodoSound(me.todo)'
  BY TodoStays DEF StateSound
<1>3. me.pc = "judge_write" => JudgmentSound(me.art)'
  BY JudgmentStays DEF StateSound
<1>4. me.pc \in {"recovery_check", "recovery_append"} => me.rec \in Range(recs')
  BY DEF StateSound, Grows
<1>5. me.pc = "bundle_verify" => me.n \in DOMAIN ledger'
  BY DEF StateSound, Grows
<1> QED BY <1>1, <1>2, <1>3, <1>4, <1>5 DEF StateSound

\* One command takes a step, and the others may still rely on what they did.
LEMMA CommandsSound ==
  ASSUME IInv, Grows, NEW p \in Procs, NEW new, loc' = [ loc EXCEPT ![p] = new ],
         StateSound(new)',
         new.pc \in Owning => loc[p].pc \in Owning \/ \A q \in Procs : loc[q].pc \notin Owning,
         \A q \in Procs \ {p} : loc[q].pc \in Owning => attempts' = attempts /\ sent' = sent,
         \A m : ManifestSound(m) => ManifestSound(m)'
  PROVE  /\ loc' = [ q \in Procs |-> loc'[q] ]
         /\ \A q \in Procs : StateSound(loc[q])'
         /\ OneOwner'
<1>1. loc' = [ q \in Procs |-> loc'[q] ] /\ loc'[p] = new
      /\ \A q \in Procs \ {p} : loc'[q] = loc[q]
  BY DEF IInv
<1>2. ASSUME NEW q \in Procs, q # p PROVE StateSound(loc[q])'
  <2>1. PICK me : me = loc[q]
    OBVIOUS
  <2>2. StateSound(me) /\ (me.pc = "seal_write" => ManifestSound(me.art)')
    BY <2>1 DEF IInv, StateSound
  <2>3. StateSound(me)'
    BY <1>2, <2>1, <2>2, CommandStays DEF IInv
  <2> QED BY <1>1, <1>2, <2>1, <2>3
<1>3. StateSound(loc[p])'
  BY <1>1
<1>4. OneOwner'
  BY <1>1 DEF OneOwner, IInv
<1> QED BY <1>1, <1>2, <1>3, <1>4

-----------------------------------------------------------------------------
(* An event that is appended.                                              *)

\* What must be true of an event for the ledger to tell the truth.
Fits(e) ==
  /\ e.dig # None => e.dig \in Range(recs)
  /\ e.type = "capture_completed" =>
       /\ e.att \in DOMAIN attempts /\ attempts[e.att].record # None
       /\ attempts[e.att].record.complete
       /\ \E j \in EventsFor("response_preserved", e.att) :
            ledger[j].ref = attempts[e.att].record.blob
  /\ e.type = "capture_interrupted" /\ e.att # 0 =>
       e.att \in DOMAIN attempts /\ Interrupted(e.att)
  /\ e.type \in SealTypes => manifest # None /\ e.ref = manifest
  /\ e.type = "judgment_sealed" => judgment # None /\ e.ref = judgment
  /\ e.type = "provider_request_id_reused" => State # "captured"

EventsThen(e, types) ==
  IF e.type \in types THEN EventsOf(types) \cup {Len(ledger) + 1} ELSE EventsOf(types)

LEMMA NewEvents ==
  ASSUME LedgerSound, NEW e, Appended(e)
  PROVE  /\ \A types : EventsOf(types)' = EventsThen(e, types)
         /\ \A type, n : type # e.type \/ n # e.att =>
              EventsFor(type, n)' = EventsFor(type, n)
<1>1. \A types : EventsOf(types)' = EventsThen(e, types)
  BY Positions DEF Appended, EventsOf, EventsThen
<1>2. ASSUME NEW type, NEW n, type # e.type \/ n # e.att
      PROVE  EventsFor(type, n)' = EventsFor(type, n)
  BY <1>2, Positions DEF Appended, EventsFor, EventsOf
<1> QED BY <1>1, <1>2

LEMMA AppendGrows ==
  ASSUME LedgerSound, NEW e, Appended(e), UNCHANGED <<attempts, recs, blobs, manifest, judgment>>
  PROVE  Grows
  BY Positions DEF Appended, Grows, Once

LEMMA ManifestStays ==
  ASSUME LedgerSound, NEW e, Legal(e), Appended(e), Fits(e), NEW m, ManifestSound(m)
  PROVE  ManifestSound(m)'
<1>1. State \in {"captured", "aborted", "sealed", "judged", "review_required"}
  BY DEF ManifestSound
<1>2. CASE State \in {"captured", "aborted"}
  <2>1. State' = "sealed"
    BY <1>2, Moves DEF Appended, Fits
  <2> QED BY <2>1 DEF ManifestSound
<1>3. CASE State \in {"sealed", "judged", "review_required"}
  <2>1. State \in StatesAfter("capture_sealed")
    BY <1>3 DEF StatesAfter, SealTypes
  <2>2. State' \in StatesAfter("capture_sealed")
    BY <2>1, Moves DEF Appended
  <2>3. State' \in {"sealed", "judged", "review_required"}
    BY <2>2 DEF StatesAfter, SealTypes
  <2> QED BY <2>3 DEF ManifestSound
<1> QED BY <1>1, <1>2, <1>3

LEMMA AppendedLedger ==
  ASSUME LedgerSound, NEW e, Legal(e), Appended(e), Fits(e), recs' = recs
  PROVE  LedgerSound'
<1>1. /\ To(e) \in Authorized
      /\ \A type : To(e) \in StatesAfter(type) \/ State \notin StatesAfter(type)
      /\ To(e) \in StatesAfter(e.type)
      /\ To(e) = "captured" => State = "captured" \/ e.type = "capture_completed"
      /\ State = "captured" => EventsOf({"capture_completed"}) # {}
  BY Moves
<1>2. To(e) \in Life!States
  BY <1>1 DEF Authorized, Life!States
<1>3. ASSUME NEW i \in DOMAIN ledger'
      PROVE  /\ ledger'[i].to \in Life!States
             /\ ledger'[i].dig # None => ledger'[i].dig \in Range(recs')
             /\ State' \in StatesAfter(ledger'[i].type)
  <2>1. CASE i \in DOMAIN ledger
    BY <1>1, <2>1 DEF Appended, LedgerSound
  <2>2. CASE i = Len(ledger) + 1
    BY <1>1, <1>2, <2>2 DEF Appended, Fits
  <2> QED BY <2>1, <2>2, Positions DEF Appended
<1>4. EventsOf({"capture_completed"})' = EventsThen(e, {"capture_completed"})
  BY NewEvents
<1>5. State' = "captured" => EventsOf({"capture_completed"})' # {}
  BY <1>1, <1>4 DEF Appended, EventsThen
<1> QED BY <1>3, <1>5 DEF LedgerSound, Appended

LEMMA AppendedEvidence ==
  ASSUME LedgerSound, EvidenceSound, NEW e, Appended(e), Fits(e), Grows,
         UNCHANGED <<attempts, recs, blobs>>
  PROVE  EvidenceSound'
<1>1. ASSUME NEW n \in DOMAIN attempts
      PROVE  /\ attempts[n].record # None =>
                  /\ attempts[n].request
                  /\ attempts[n].record.complete => attempts[n].record.blob \in blobs
             /\ n < Len(attempts) => attempts[n].record # None /\ Terminal(n)'
  BY EventsStay DEF EvidenceSound
<1>2. \A i \in EventsOf({"capture_completed"})' :
        i \in EventsOf({"capture_completed"}) \/ (i = Len(ledger) + 1 /\ e.type = "capture_completed")
  BY NewEvents DEF EventsThen
<1>3. \A i \in EventsOf({"capture_interrupted"})' :
        i \in EventsOf({"capture_interrupted"}) \/ (i = Len(ledger) + 1 /\ e.type = "capture_interrupted")
  BY NewEvents DEF EventsThen
<1>4. ASSUME NEW i \in EventsOf({"capture_completed"})
      PROVE  i \in DOMAIN ledger /\ ledger'[i] = ledger[i]
  BY DEF EventsOf, Appended
<1>5. ASSUME NEW i \in EventsOf({"capture_interrupted"})
      PROVE  i \in DOMAIN ledger /\ ledger'[i] = ledger[i]
  BY DEF EventsOf, Appended
<1>6. ledger'[Len(ledger) + 1].att = e.att
  BY DEF Appended
<1>7. ASSUME NEW i \in EventsOf({"capture_completed"})', NEW n, n = ledger'[i].att
      PROVE  /\ n \in DOMAIN attempts /\ attempts[n].record # None
             /\ attempts[n].record.complete /\ attempts[n].record.blob \in blobs
             /\ \E j \in EventsFor("response_preserved", n)' :
                  j < i /\ ledger'[j].ref = attempts[n].record.blob
  <2>1. ASSUME NEW j \in EventsFor("response_preserved", n)
        PROVE  /\ j \in EventsFor("response_preserved", n)' /\ ledger'[j] = ledger[j]
               /\ j \in DOMAIN ledger
    BY EventsStay DEF Appended, EventsFor, EventsOf
  <2>2. CASE i \in EventsOf({"capture_completed"})
    <3>1. n = ledger[i].att
      BY <1>4, <1>7, <2>2
    <3>2. /\ n \in DOMAIN attempts /\ attempts[n].record # None
          /\ attempts[n].record.complete /\ attempts[n].record.blob \in blobs
          /\ \E j \in EventsFor("response_preserved", n) : j < i /\ ledger[j].ref = attempts[n].record.blob
      BY <2>2, <3>1 DEF EvidenceSound, CapturedEvidence
    <3> QED BY <2>1, <3>2
  <2>3. CASE i = Len(ledger) + 1 /\ e.type = "capture_completed"
    <3>1. n = e.att
      BY <1>6, <1>7, <2>3
    <3>2. /\ n \in DOMAIN attempts /\ attempts[n].record # None /\ attempts[n].record.complete
          /\ \E j \in EventsFor("response_preserved", n) : ledger[j].ref = attempts[n].record.blob
      BY <2>3, <3>1 DEF Fits
    <3>3. attempts[n].record.blob \in blobs
      BY <3>2 DEF EvidenceSound
    <3>4. \A j \in DOMAIN ledger : j < i
      BY <2>3, Positions
    <3> QED BY <2>1, <3>2, <3>3, <3>4
  <2> QED BY <1>2, <2>2, <2>3
<1>8. ASSUME NEW i \in EventsOf({"capture_interrupted"})', ledger'[i].att # 0
      PROVE  (ledger[i].att \in DOMAIN attempts /\ Interrupted(ledger[i].att))'
  BY <1>3, <1>5, <1>6, <1>8 DEF EvidenceSound, Interrupted, Fits
<1>9. CapturedEvidence'
  BY <1>7 DEF CapturedEvidence
<1>10. \A i \in EventsOf({"capture_completed"})' : ledger'[i].att \in DOMAIN attempts
  BY <1>7
<1>11. \A n \in DOMAIN attempts' :
         /\ attempts'[n].record # None =>
              /\ attempts'[n].request
              /\ attempts'[n].record.complete => attempts'[n].record.blob \in blobs'
         /\ n < Len(attempts') => attempts'[n].record # None /\ Terminal(n)'
  BY <1>1
<1> QED BY <1>8, <1>9, <1>10, <1>11 DEF EvidenceSound

LEMMA ResumptionsCounted ==
  ASSUME LedgerSound
  PROVE  IsFiniteSet(Resumptions) /\ Cardinality(Resumptions) \in Nat
<1>1. Resumptions \subseteq 1 .. Len(ledger)
  BY Positions DEF Resumptions, EventsOf
<1>2. IsFiniteSet(1 .. Len(ledger))
  BY Positions, FS_Interval
<1> QED BY <1>1, <1>2, FS_Subset, FS_CardinalityType

LEMMA NewResumption ==
  ASSUME LedgerSound, NEW e, Appended(e)
  PROVE  Cardinality(Resumptions') =
           IF e.type = "capture_resumed" THEN Cardinality(Resumptions) + 1
                                         ELSE Cardinality(Resumptions)
<1>1. Resumptions' = EventsThen(e, {"capture_resumed"})
  BY NewEvents DEF Resumptions
<1>2. Len(ledger) + 1 \notin Resumptions
  BY Positions DEF Resumptions, EventsOf
<1> QED BY <1>1, <1>2, ResumptionsCounted, FS_AddElement DEF EventsThen, Resumptions

(* What was said of requests stays true, and each stay in "capturing" that *)
(* follows an interruption is counted by the event it begins with.         *)
LEMMA AppendedSent ==
  ASSUME LedgerSound, SentSound, NEW e, Legal(e), Appended(e), Grows,
         UNCHANGED <<attempts, sent>>,
         OnItsWay' => Len(sent) <= Cardinality(Resumptions)
  PROVE  SentSound'
<1>1. /\ Cardinality(Resumptions) \in Nat
      /\ Cardinality(Resumptions') = IF e.type = "capture_resumed" THEN Cardinality(Resumptions) + 1
                                                                   ELSE Cardinality(Resumptions)
  BY ResumptionsCounted, NewResumption
<1>2. Len(sent) \in Nat
  BY LenProperties DEF SentSound
<1>3. /\ To(e) # "execution_authorized" /\ State' = To(e)
      /\ e.type = "capture_interrupted" => To(e) = "interrupted"
      /\ To(e) = "capturing" =>
           State \in {"capturing", "execution_authorized"} \/ e.type = "capture_resumed"
      /\ e.type = "capture_resumed" => State = "interrupted"
  BY Moves DEF Appended
<1>4. DispatchDiscipline'
  <2>1. \A n : EventsFor("request_preserved", n) # {} => EventsFor("request_preserved", n)' # {}
    BY EventsStay
  <2>2. \A n : EventsFor("capture_interrupted", n) # {} => EventsFor("capture_interrupted", n)' # {}
    BY EventsStay
  <2>3. Len(sent) <= MaxAttempts /\ Len(sent) <= 1 + Cardinality(Resumptions')
    BY <1>1, <1>2 DEF SentSound, DispatchDiscipline
  <2> QED BY <2>1, <2>2, <2>3 DEF SentSound, DispatchDiscipline
<1>5. OnItsWay' => Len(sent) <= Cardinality(Resumptions')
  BY <1>1, <1>2
<1>6. ASSUME State' = "capturing",
             \A i \in DOMAIN sent : EventsFor("capture_interrupted", sent[i])' # {}
      PROVE  Len(sent) <= Cardinality(Resumptions')
  <2>1. CASE e.type = "capture_resumed"
    BY <1>1, <1>2, <2>1 DEF SentSound, DispatchDiscipline
  <2>2. CASE State = "execution_authorized"
    BY <1>1, <1>2, <2>2 DEF SentSound
  <2>3. CASE State = "capturing"
    <3>1. \A n : EventsFor("capture_interrupted", n)' = EventsFor("capture_interrupted", n)
      BY <1>3, <1>6, NewEvents
    <3> QED BY <1>1, <1>3, <1>6, <2>3, <3>1 DEF SentSound
  <2> QED BY <1>3, <1>6, <2>1, <2>2, <2>3
<1> QED BY <1>1, <1>3, <1>4, <1>5, <1>6 DEF SentSound

\* A seal is for the manifest of the whole ledger before it, and a judgment for the
\* judgment on disk.
LEMMA AppendedArtifacts ==
  ASSUME LedgerSound, ArtifactsSound, NEW e, Legal(e), Appended(e), Fits(e), Grows,
         UNCHANGED <<manifest, judgment>>
  PROVE  ArtifactsSound'
<1>1. manifest # None => ManifestSound(manifest)'
  <2>1. PICK m : m = manifest
    OBVIOUS
  <2>2. m # None => ManifestSound(m)'
    BY <2>1, ManifestStays DEF ArtifactsSound
  <2> QED BY <2>1, <2>2
<1>2. judgment # None => JudgmentSound(judgment)'
  <2>1. PICK j : j = judgment
    OBVIOUS
  <2>2. j # None => JudgmentSound(j)'
    BY <2>1, JudgmentStays DEF ArtifactsSound
  <2> QED BY <2>1, <2>2
<1>3. ASSUME NEW i \in EventsOf(SealTypes)'
      PROVE  /\ manifest # None /\ ledger'[i].ref = manifest
             /\ manifest.root = i - 1 /\ manifest.state = ledger'[i].from
  <2>1. CASE i \in EventsOf(SealTypes)
    <3>1. ledger'[i] = ledger[i]
      BY <2>1 DEF Appended, EventsOf
    <3> QED BY <2>1, <3>1 DEF ArtifactsSound, SealsBind, SealTypes
  <2>2. CASE i = Len(ledger) + 1 /\ e.type \in SealTypes
    <3>1. manifest # None /\ e.ref = manifest /\ State \in {"captured", "aborted"}
      BY <2>2, Moves DEF Fits, SealTypes
    <3>2. manifest.state = State /\ manifest.root = Len(ledger)
      BY <3>1 DEF ArtifactsSound, ManifestSound
    <3>3. ledger'[i].ref = e.ref /\ ledger'[i].from = State
      BY <2>2 DEF Appended
    <3> QED BY <2>2, <3>1, <3>2, <3>3, Positions
  <2> QED BY <2>1, <2>2, NewEvents DEF EventsThen
<1>4. ASSUME NEW i \in EventsOf({"judgment_sealed"})'
      PROVE  judgment # None /\ ledger'[i].ref = judgment
  <2>1. CASE i \in EventsOf({"judgment_sealed"})
    <3>1. ledger'[i] = ledger[i]
      BY <2>1 DEF Appended, EventsOf
    <3> QED BY <2>1, <3>1 DEF ArtifactsSound, SealsBind
  <2>2. CASE i = Len(ledger) + 1 /\ e.type = "judgment_sealed"
    BY <2>2 DEF Fits, Appended
  <2> QED BY <2>1, <2>2, NewEvents DEF EventsThen
<1>5. SealsBind'
  <2>1. \A i \in EventsOf({"judgment_sealed"})' :
          /\ ledger'[i].ref = judgment' /\ judgment'.manifest = manifest'
          /\ manifest'.state = "captured"
          /\ \E n \in DOMAIN manifest'.attempts :
               manifest'.attempts[n].complete /\ manifest'.attempts[n].blob = judgment'.blob
    BY <1>4 DEF ArtifactsSound, JudgmentSound
  <2> QED BY <1>3, <2>1 DEF SealsBind, SealTypes
<1> QED BY <1>1, <1>2, <1>3, <1>4, <1>5 DEF ArtifactsSound

(* A command appends an event that fits.                                   *)
LEMMA AppendSound ==
  ASSUME IInv, NEW p \in Procs, NEW e, Legal(e), Publish(e), Fits(e),
         UNCHANGED <<attempts, recs, blobs, manifest, judgment, sent>>,
         NEW new, loc' = [ loc EXCEPT ![p] = new ],
         Appended(e) /\ Grows => StateSound(new)',
         new.pc \in Owning => loc[p].pc \in Owning,
         OnItsWay' => Len(sent) <= Cardinality(Resumptions)
  PROVE  IInv'
<1>1. LedgerSound /\ EvidenceSound /\ SentSound /\ ArtifactsSound
  BY DEF IInv
<1>2. Appended(e)
  BY <1>1, PublishAppends
<1>3. Grows
  BY <1>1, <1>2, AppendGrows
<1>4. LedgerSound' /\ EvidenceSound' /\ SentSound' /\ ArtifactsSound'
  BY <1>1, <1>2, <1>3, AppendedLedger, AppendedEvidence, AppendedSent, AppendedArtifacts
<1>5. \A m : ManifestSound(m) => ManifestSound(m)'
  BY <1>1, <1>2, ManifestStays
<1>6. StateSound(new)'
  BY <1>2, <1>3
<1>7. /\ loc' = [ q \in Procs |-> loc'[q] ]
      /\ \A q \in Procs : StateSound(loc[q])'
      /\ OneOwner'
  BY <1>3, <1>5, <1>6, CommandsSound
<1> QED BY <1>4, <1>7 DEF IInv

-----------------------------------------------------------------------------
(* A step that writes nothing.                                             *)

LEMMA SameDisk ==
  ASSUME LedgerSound, KeepDisk
  PROVE  /\ Grows
         /\ State' = State /\ (LedgerSound <=> LedgerSound') /\ (EvidenceSound <=> EvidenceSound')
         /\ (ArtifactsSound <=> ArtifactsSound')
         /\ \A m : ManifestSound(m)' <=> ManifestSound(m)
         /\ \A j : JudgmentSound(j)' <=> JudgmentSound(j)
         /\ \A todo : TodoSound(todo)' <=> TodoSound(todo)
         /\ sent' = sent => \A me : OwnerSound(me)' <=> OwnerSound(me)
         /\ \A types : EventsOf(types)' = EventsOf(types)
         /\ \A type, n : EventsFor(type, n)' = EventsFor(type, n)
<1>1. Grows
  BY Positions DEF KeepDisk, disk, Grows, Once
<1>2. State' = State /\ (\A types : EventsOf(types)' = EventsOf(types))
  BY DEF KeepDisk, disk, State, EventsOf
<1>3. \A m : ManifestSound(m)' <=> ManifestSound(m)
  BY <1>2 DEF KeepDisk, disk, ManifestSound
<1>4. \A j : JudgmentSound(j)' <=> JudgmentSound(j)
  BY DEF KeepDisk, disk, JudgmentSound
<1>5. \A type, n : EventsFor(type, n)' = EventsFor(type, n)
  BY <1>2 DEF KeepDisk, disk, EventsFor
<1>6. \A n : (Terminal(n)' <=> Terminal(n)) /\ (Interrupted(n)' <=> Interrupted(n))
  BY <1>2 DEF KeepDisk, disk, Terminal, Interrupted
<1>7. \A todo : TodoSound(todo)' <=> TodoSound(todo)
  BY <1>5 DEF KeepDisk, disk, TodoSound
<1>8. sent' = sent => \A me : OwnerSound(me)' <=> OwnerSound(me)
  BY <1>5, <1>6 DEF KeepDisk, disk, OwnerSound
<1>9. LedgerSound <=> LedgerSound'
  BY <1>2 DEF KeepDisk, disk, LedgerSound
<1>10. CapturedEvidence <=> CapturedEvidence'
  BY <1>2, <1>5 DEF KeepDisk, disk, CapturedEvidence
<1>11. EvidenceSound <=> EvidenceSound'
  BY <1>2, <1>6, <1>10 DEF KeepDisk, disk, EvidenceSound
<1>12. SealsBind <=> SealsBind'
  BY <1>2 DEF KeepDisk, disk, SealsBind
<1>13. ArtifactsSound <=> ArtifactsSound'
  BY <1>2, <1>3, <1>4, <1>12 DEF KeepDisk, disk, ArtifactsSound
<1> QED BY <1>1, <1>2, <1>3, <1>4, <1>5, <1>7, <1>8, <1>9, <1>11, <1>13

LEMMA SameSent ==
  ASSUME LedgerSound, SentSound, KeepDisk, sent' = sent, OnItsWay' => OnItsWay
  PROVE  SentSound'
<1>1. State' = State /\ \A types : EventsOf(types)' = EventsOf(types)
  BY SameDisk
<1>2. /\ \A type, n : EventsFor(type, n)' = EventsFor(type, n)
      /\ Resumptions' = Resumptions
  BY <1>1 DEF KeepDisk, disk, EventsFor, Resumptions
<1>3. DispatchDiscipline'
  BY <1>2 DEF KeepDisk, disk, SentSound, DispatchDiscipline
<1> QED BY <1>1, <1>2, <1>3 DEF KeepDisk, disk, SentSound

LEMMA OnlyState ==
  ASSUME IInv, KeepDisk, sent' = sent, NEW p \in Procs, NEW new,
         loc' = [ loc EXCEPT ![p] = new ], StateSound(new),
         new.pc \in Owning => loc[p].pc \in Owning,
         new.pc = "send" => At(p, "send")
  PROVE  IInv'
<1>1. LedgerSound /\ EvidenceSound /\ SentSound /\ ArtifactsSound
  BY DEF IInv
<1>2. Grows /\ LedgerSound' /\ EvidenceSound' /\ ArtifactsSound'
  BY <1>1, SameDisk
<1>3. OnItsWay' => OnItsWay
  BY DEF OnItsWay, At, IInv
<1>4. SentSound'
  BY <1>1, <1>3, SameSent
<1>5. StateSound(new)'
  BY <1>1, <1>2, SameDisk, CommandStays DEF KeepDisk, disk, StateSound
<1>6. \A m : ManifestSound(m) => ManifestSound(m)'
  BY <1>1, SameDisk
<1>7. /\ loc' = [ q \in Procs |-> loc'[q] ]
      /\ \A q \in Procs : StateSound(loc[q])'
      /\ OneOwner'
  BY <1>2, <1>5, <1>6, CommandsSound DEF KeepDisk, disk
<1> QED BY <1>2, <1>4, <1>7 DEF IInv

LEMMA IdleSound == StateSound(Idle) /\ Idle.pc = "idle"
  BY DEF StateSound, Idle, Steps, Owning

LEMMA FinishSound ==
  ASSUME IInv, KeepDisk, sent' = sent, NEW p \in Procs, Finish(p)
  PROVE  IInv'
  BY IdleSound, OnlyState DEF Finish, Owning

-----------------------------------------------------------------------------
(* The state of a command.                                                 *)

IsState(me) ==
  me = [ pc |-> me.pc, n |-> me.n, todo |-> me.todo, rec |-> me.rec, out |-> me.out,
         art |-> me.art ]

\* A command moves on and keeps what it holds.
LEMMA GoesTo ==
  ASSUME IInv, NEW p \in Procs, NEW step, Goto(p, step)
  PROVE  \E new : /\ loc' = [ loc EXCEPT ![p] = new ] /\ IsState(new) /\ new.pc = step
                  /\ new.n = loc[p].n /\ new.out = loc[p].out
<1>1. IsState(loc[p]) /\ loc = [ q \in Procs |-> loc[q] ]
  BY DEF IInv, StateSound, IsState
<1>2. PICK me : me = loc[p]
  OBVIOUS
<1>3. PICK new : new = [ me EXCEPT !.pc = step ]
  OBVIOUS
<1>4. IsState(new) /\ new.pc = step /\ new.n = me.n /\ new.out = me.out
  BY <1>1, <1>2, <1>3 DEF IsState
<1>5. loc' = [ loc EXCEPT ![p] = new ]
  BY <1>1, <1>2, <1>3 DEF Goto
<1> QED BY <1>2, <1>4, <1>5

LEMMA NoneSendsAnew ==
  ASSUME IInv, NEW p \in Procs, NEW new, loc' = [ loc EXCEPT ![p] = new ], new.pc # "send"
  PROVE  OnItsWay' => OnItsWay
  BY DEF OnItsWay, At, IInv

\* An append of anything but the event of a request.
LEMMA AppendOnSound ==
  ASSUME IInv, NEW p \in Procs, NEW e, Legal(e), Publish(e), Fits(e),
         UNCHANGED <<attempts, recs, blobs, manifest, judgment, sent>>,
         NEW new, loc' = [ loc EXCEPT ![p] = new ], new.pc # "send",
         Appended(e) /\ Grows => StateSound(new)',
         new.pc \in Owning => loc[p].pc \in Owning
  PROVE  IInv'
<1>1. OnItsWay' => Len(sent) <= Cardinality(Resumptions)
  BY NoneSendsAnew DEF IInv, SentSound
<1> QED BY <1>1, AppendSound

\* One owner at a time, and what it owns is the last attempt.
LEMMA Owns ==
  ASSUME IInv, NEW p \in Procs, loc[p].pc \in Owning
  PROVE  /\ IsState(loc[p]) /\ OwnerSound(loc[p])
         /\ loc[p].n = Len(attempts) /\ loc[p].n \in DOMAIN attempts
         /\ attempts[loc[p].n].record = None
         /\ \A q \in Procs \ {p} : loc[q].pc \notin Owning
<1>1. IsState(loc[p]) /\ OwnerSound(loc[p])
  BY DEF IInv, StateSound, IsState
<1>2. \A q \in Procs \ {p} : loc[q].pc \notin Owning
  BY DEF IInv, OneOwner
<1> QED BY <1>1, <1>2 DEF OwnerSound

\* While an answer is awaited the run cannot come to be captured.
LEMMA NotCaptured ==
  ASSUME IInv, NEW p \in Procs, loc[p].pc \in Sending
  PROVE  State # "captured"
<1> SUFFICES ASSUME State = "captured" PROVE FALSE
  OBVIOUS
<1>1. PICK i \in EventsOf({"capture_completed"}) : TRUE
  BY DEF IInv, LedgerSound
<1>2. PICK m : m = ledger[i].att
  OBVIOUS
<1>3. m \in DOMAIN attempts /\ attempts[m].record # None /\ attempts[m].record.complete
  BY <1>2 DEF IInv, EvidenceSound, CapturedEvidence
<1>4. /\ loc[p].n = Len(attempts) /\ loc[p].n \in Range(sent)
      /\ attempts[loc[p].n].record = None
  BY Owns DEF OwnerSound, Sending, Owning
<1>5. m \in 1 .. loc[p].n - 1
  BY <1>3, <1>4, LenProperties DEF IInv, EvidenceSound
<1>6. \A k \in 1 .. loc[p].n - 1 : ~attempts[k].record.complete
  BY <1>4 DEF IInv, SentSound, DispatchDiscipline, Range
<1> QED BY <1>3, <1>5, <1>6

-----------------------------------------------------------------------------
(* A step that writes, but not to the ledger.                              *)

LEMMA AttemptPositions ==
  ASSUME EvidenceSound
  PROVE  Len(attempts) \in Nat /\ DOMAIN attempts = 1 .. Len(attempts)
  BY LenProperties DEF EvidenceSound

LEMMA SentStays ==
  ASSUME SentSound, EvidenceSound, Grows, ledger' = ledger, sent' = sent, OnItsWay' => OnItsWay
  PROVE  SentSound'
<1>1. State' = State /\ Resumptions' = Resumptions
      /\ \A type, n : EventsFor(type, n)' = EventsFor(type, n)
  BY DEF State, Resumptions, EventsOf, EventsFor
<1>2. sent' \in Seq(DOMAIN attempts')
  BY SeqMonotonic DEF SentSound, Grows
<1>3. DispatchDiscipline'
  <2>1. \A i \in DOMAIN sent : sent[i] \in DOMAIN attempts
    BY ElementOfSeq, LenProperties DEF SentSound
  <2>2. ASSUME NEW i \in DOMAIN sent, NEW m \in 1 .. sent[i] - 1
        PROVE  attempts'[m].record # None /\ ~attempts'[m].record.complete
    <3>1. attempts[m].record # None /\ ~attempts[m].record.complete
      BY DEF SentSound, DispatchDiscipline
    <3>2. m \in DOMAIN attempts
      BY <2>1, AttemptPositions
    <3> QED BY <3>1, <3>2 DEF Grows, Once
  <2>3. \A i \in DOMAIN sent : attempts'[sent[i]].request
    BY <2>1 DEF SentSound, DispatchDiscipline, Grows
  <2> QED BY <1>1, <2>2, <2>3 DEF SentSound, DispatchDiscipline
<1> QED BY <1>1, <1>2, <1>3 DEF SentSound

LEMMA LedgerStays ==
  ASSUME LedgerSound, Grows, ledger' = ledger
  PROVE  LedgerSound' /\ (\A m : ManifestSound(m)' <=> ManifestSound(m))
<1>1. State' = State /\ \A types : EventsOf(types)' = EventsOf(types)
  BY DEF State, EventsOf
<1>2. LedgerSound'
  BY <1>1 DEF LedgerSound, Grows
<1>3. \A m : ManifestSound(m)' <=> ManifestSound(m)
  BY <1>1 DEF ManifestSound
<1> QED BY <1>2, <1>3

LEMMA ArtifactsStay ==
  ASSUME ArtifactsSound, ledger' = ledger, UNCHANGED <<manifest, judgment>>
  PROVE  ArtifactsSound'
<1>1. State' = State /\ \A types : EventsOf(types)' = EventsOf(types)
  BY DEF State, EventsOf
<1> QED BY <1>1 DEF ArtifactsSound, ManifestSound, JudgmentSound, SealsBind

LEMMA WriteSound ==
  ASSUME IInv, Grows, ledger' = ledger, sent' = sent, UNCHANGED <<manifest, judgment>>,
         EvidenceSound', NEW p \in Procs, NEW new, loc' = [ loc EXCEPT ![p] = new ],
         StateSound(new)', new.pc # "send",
         new.pc \in Owning => loc[p].pc \in Owning \/ \A q \in Procs : loc[q].pc \notin Owning,
         \A q \in Procs \ {p} : loc[q].pc \in Owning => attempts' = attempts
  PROVE  IInv'
<1>1. LedgerSound' /\ \A m : ManifestSound(m) => ManifestSound(m)'
  BY LedgerStays DEF IInv
<1>2. SentSound'
  BY NoneSendsAnew, SentStays DEF IInv
<1>3. ArtifactsSound'
  BY ArtifactsStay DEF IInv
<1>4. /\ loc' = [ q \in Procs |-> loc'[q] ]
      /\ \A q \in Procs : StateSound(loc[q])'
      /\ OneOwner'
  BY <1>1, CommandsSound
<1> QED BY <1>1, <1>2, <1>3, <1>4 DEF IInv

-----------------------------------------------------------------------------
(* capture_attempt.                                                        *)

LEMMA CaptureStartSound ==
  ASSUME IInv, NEW p \in Procs, CaptureStart(p)
  PROVE  IInv'
<1>1. PICK step \in {"begin", "scan"} : Goto(p, step)
  BY DEF CaptureStart
<1>2. PICK new : /\ loc' = [ loc EXCEPT ![p] = new ] /\ IsState(new) /\ new.pc = step
  BY <1>1, GoesTo
<1>3. StateSound(new)
  BY <1>2 DEF StateSound, IsState, Steps, Owning
<1> QED BY <1>2, <1>3, OnlyState DEF CaptureStart, Owning

LEMMA CaptureBeginSound ==
  ASSUME IInv, NEW p \in Procs, CaptureBegin(p)
  PROVE  IInv'
<1>1. CASE ledger' = ledger /\ Finish(p)
  BY <1>1, FinishSound DEF CaptureBegin, KeepDisk, disk
<1>2. CASE \E type : /\ <<State, "capturing", type>> \in Life!TransitionEvents
                     /\ Publish(Draft(type, "capturing", 1, None, None)) /\ Goto(p, "scan")
  <2>1. PICK type : /\ <<State, "capturing", type>> \in Life!TransitionEvents
                    /\ Publish(Draft(type, "capturing", 1, None, None)) /\ Goto(p, "scan")
    BY <1>2
  <2>2. PICK e : e = Draft(type, "capturing", 1, None, None)
    OBVIOUS
  <2>3. Legal(e) /\ Publish(e) /\ e.type = type /\ e.dig = None
    BY <2>1, <2>2, NoneAssumption DEF Draft, Legal, Life!States
  <2>4. type \in {"capture_started", "capture_resumed"}
    BY <2>1 DEF Life!TransitionEvents
  <2>5. Fits(e)
    BY <2>3, <2>4 DEF Fits, SealTypes
  <2>6. PICK new : /\ loc' = [ loc EXCEPT ![p] = new ] /\ IsState(new) /\ new.pc = "scan"
    BY <2>1, GoesTo
  <2>7. StateSound(new)'
    BY <2>6 DEF StateSound, IsState, Steps, Owning
  <2> QED BY <2>3, <2>5, <2>6, <2>7, AppendOnSound DEF CaptureBegin, Owning
<1>3. \A u \in Life!TransitionEvents : u = <<u[1], u[2], u[3]>>
  BY DEF Life!TransitionEvents
<1>4. ASSUME NEW type \in { t[3] : t \in { u \in Life!TransitionEvents : u[1] = State /\ u[2] = "capturing" } }
      PROVE  <<State, "capturing", type>> \in Life!TransitionEvents
  BY <1>3
<1> QED BY <1>1, <1>2, <1>4 DEF CaptureBegin

\* Each of these is a state in which a command starts to append.
LEMMA StartsAppend ==
  ASSUME NEW todo, NEW new, new = [ Idle EXCEPT !.pc = "append", !.todo = todo ]
  PROVE  /\ IsState(new) /\ new.pc = "append" /\ new.todo = todo
         /\ TodoSound(todo) => StateSound(new)
         /\ TodoSound(todo)' => StateSound(new)'
<1>1. IsState(new) /\ new.pc = "append" /\ new.todo = todo
  BY DEF Idle, IsState
<1>2. TodoSound(todo) => StateSound(new)
  BY <1>1 DEF StateSound, IsState, Steps, Owning
<1>3. TodoSound(todo)' => StateSound(new)'
  BY <1>1 DEF StateSound, IsState, Steps, Owning
<1> QED BY <1>1, <1>2, <1>3

LEMMA TwoInARow ==
  ASSUME NEW r, NEW c
  PROVE  << r >> \o << c >> = << r, c >>
<1>1. << r >> \in Seq({r, c}) /\ << c >> \in Seq({r, c}) /\ << r, c >> \in Seq({r, c})
  OBVIOUS
<1>2. Len(<< r >>) = 1 /\ Len(<< c >>) = 1 /\ Len(<< r, c >>) = 2
  OBVIOUS
<1>3. PICK s : s = << r >> \o << c >>
  OBVIOUS
<1>4. /\ s \in Seq({r, c}) /\ Len(s) = 2
      /\ \A i \in 1 .. 2 : s[i] = IF i <= 1 THEN << r >>[i] ELSE << c >>[i - 1]
  BY <1>1, <1>2, <1>3, ConcatProperties
<1>5. s[1] = r /\ s[2] = c
  BY <1>4
<1>6. s = << r, c >>
  BY <1>1, <1>2, <1>4, <1>5, SeqEqual
<1> QED BY <1>3, <1>6

LEMMA CaptureReconcileSound ==
  ASSUME IInv, NEW p \in Procs, CaptureReconcile(p)
  PROVE  IInv'
<1>1. PICK n : n = Len(attempts)
  OBVIOUS
<1>2. n \in DOMAIN attempts /\ LastRecord = attempts[n].record /\ attempts[n].record # None
  <2>1. n \in DOMAIN attempts
    BY <1>1, AttemptPositions, EmptySeq DEF CaptureReconcile, Reconcilable, IInv, EvidenceSound
  <2> QED BY <1>1, <2>1 DEF CaptureReconcile, Reconcilable, AttemptsReadable, AttemptReadable, LastRecord
<1>3. PICK blob : blob = attempts[n].record.blob
  OBVIOUS
<1>4. PICK todo :
        /\ todo = IF LastRecord.complete
                    THEN ( IF EventsFor("response_preserved", n) = {}
                             THEN << ResponseEvent(n, LastRecord.blob) >> ELSE <<>> )
                         \o << CapturedEvent(n) >>
                    ELSE << AttemptEvent("attempt_interrupted", n), InterruptedEvent(n) >>
        /\ loc' = [ loc EXCEPT ![p] = [ Idle EXCEPT !.pc = "append", !.todo = todo ] ]
  BY <1>1 DEF CaptureReconcile, Start
<1>5. TodoSound(todo)
  <2>1. CASE ~attempts[n].record.complete
    <3>1. todo = << AttemptEvent("attempt_interrupted", n), InterruptedEvent(n) >>
      BY <1>2, <1>4, <2>1
    <3> QED BY <1>2, <2>1, <3>1 DEF TodoSound
  <2>2. CASE attempts[n].record.complete /\ EventsFor("response_preserved", n) = {}
    <3>1. todo = << ResponseEvent(n, blob) >> \o << CapturedEvent(n) >>
      BY <1>2, <1>3, <1>4, <2>2
    <3>2. \A r, c : << r >> \o << c >> = << r, c >>
      BY TwoInARow
    <3>3. todo = << ResponseEvent(n, blob), CapturedEvent(n) >>
      BY <3>1, <3>2
    <3> QED BY <1>2, <1>3, <2>2, <3>3 DEF TodoSound
  <2>3. CASE attempts[n].record.complete /\ EventsFor("response_preserved", n) # {}
    <3>1. todo = <<>> \o << CapturedEvent(n) >>
      BY <1>2, <1>4, <2>3
    <3>2. todo = << CapturedEvent(n) >>
      BY <3>1
    <3>3. \E j \in EventsFor("response_preserved", n) : ledger[j].ref = attempts[n].record.blob
      BY <1>1, <1>2, <2>3 DEF CaptureReconcile, ResponseConsistent
    <3> QED BY <1>2, <2>3, <3>2, <3>3 DEF TodoSound
  <2> QED BY <2>1, <2>2, <2>3
<1>6. PICK new : new = [ Idle EXCEPT !.pc = "append", !.todo = todo ]
  OBVIOUS
<1>7. StateSound(new) /\ new.pc = "append" /\ loc' = [ loc EXCEPT ![p] = new ]
  BY <1>4, <1>5, <1>6, StartsAppend
<1> QED BY <1>7, OnlyState DEF CaptureReconcile, Owning

LEMMA CaptureCreateSound ==
  ASSUME IInv, NEW p \in Procs, CaptureCreate(p)
  PROVE  IInv'
<1>1. PICK n, a : n = Len(attempts) + 1 /\ a = [ request |-> FALSE, record |-> None ]
  OBVIOUS
<1>2. Len(attempts) \in Nat /\ DOMAIN attempts = 1 .. Len(attempts)
  BY AttemptPositions DEF IInv
<1>3. /\ attempts' \in Seq(StoredAttempts) /\ Len(attempts') = n /\ DOMAIN attempts' = 1 .. n
      /\ \A m \in DOMAIN attempts : attempts'[m] = attempts[m]
      /\ attempts'[n] = a
  <2>1. a \in StoredAttempts /\ attempts \in Seq(StoredAttempts) /\ attempts' = Append(attempts, a)
    BY <1>1 DEF StoredAttempts, CaptureCreate, IInv, EvidenceSound
  <2>2. /\ attempts' \in Seq(StoredAttempts) /\ Len(attempts') = n
        /\ \A m \in 1 .. Len(attempts) : attempts'[m] = attempts[m]
        /\ attempts'[n] = a
    BY <1>1, <2>1, AppendProperties
  <2> QED BY <1>2, <2>2, LenProperties
<1>4. \A m \in DOMAIN attempts : attempts[m].record # None
  BY <1>2 DEF CaptureCreate, NewAttemptPermitted, AttemptsReadable, AttemptReadable
<1>5. Len(attempts) \in DOMAIN attempts => Terminal(Len(attempts))
  <2>1. Len(attempts) \in DOMAIN attempts => attempts # <<>>
    BY <1>2, EmptySeq
  <2> QED BY <2>1 DEF CaptureCreate, NewAttemptPermitted
<1>6. UNCHANGED <<ledger, recs, blobs, manifest, judgment, bundle, sent, kills>>
  BY DEF CaptureCreate
<1>7. Grows
  BY <1>1, <1>2, <1>3, <1>6, Positions DEF Grows, Once, IInv
<1>8. /\ \A m : Terminal(m)' <=> Terminal(m)
      /\ \A types : EventsOf(types)' = EventsOf(types)
      /\ \A type, m : EventsFor(type, m)' = EventsFor(type, m)
  BY <1>6 DEF Terminal, EventsOf, EventsFor
<1>9. EvidenceSound'
  <2>1. n <= MaxAttempts
    BY <1>1, <1>2, PolicyAssumption DEF CaptureCreate, NewAttemptPermitted
  <2>2. ASSUME NEW m \in DOMAIN attempts'
        PROVE  /\ attempts'[m].record # None =>
                    /\ attempts'[m].request
                    /\ attempts'[m].record.complete => attempts'[m].record.blob \in blobs'
               /\ m < Len(attempts') => attempts'[m].record # None /\ Terminal(m)'
    <3>1. CASE m \in DOMAIN attempts
      <4>1. m < Len(attempts) \/ m = Len(attempts)
        BY <1>2, <3>1
      <4>2. attempts[m].record # None /\ Terminal(m)'
        BY <1>4, <1>5, <1>8, <3>1, <4>1 DEF IInv, EvidenceSound
      <4> QED BY <1>3, <1>6, <3>1, <4>2 DEF IInv, EvidenceSound
    <3>2. CASE m = n
      BY <1>1, <1>2, <1>3, <3>2
    <3> QED BY <1>1, <1>2, <1>3, <3>1, <3>2
  <2>3. CapturedEvidence'
    BY <1>3, <1>6, <1>8 DEF IInv, EvidenceSound, CapturedEvidence
  <2>4. DOMAIN attempts \subseteq DOMAIN attempts'
    BY <1>7 DEF Grows
  <2>5. \A i \in EventsOf({"capture_completed"})' : ledger'[i].att \in DOMAIN attempts'
    BY <1>6, <1>8, <2>4 DEF IInv, EvidenceSound
  <2>6. \A i \in EventsOf({"capture_interrupted"})' :
          ledger'[i].att # 0 => (ledger[i].att \in DOMAIN attempts /\ Interrupted(ledger[i].att))'
    BY <1>3, <1>6, <1>8, <2>4 DEF IInv, EvidenceSound, Interrupted
  <2> QED BY <1>3, <1>6, <2>1, <2>2, <2>3, <2>5, <2>6 DEF IInv, EvidenceSound
<1>10. PICK new : new = [ Idle EXCEPT !.pc = "request", !.n = n ]
  OBVIOUS
<1>11. IsState(new) /\ new.pc = "request" /\ new.n = n /\ loc' = [ loc EXCEPT ![p] = new ]
  BY <1>1, <1>10 DEF Idle, IsState, CaptureCreate, Start
<1>12. n \notin Range(sent)
  <2>1. Range(sent) \subseteq DOMAIN attempts
    BY RangeOfSeq DEF IInv, SentSound, Range
  <2> QED BY <1>1, <1>2, <2>1
<1>13. StateSound(new)'
  BY <1>1, <1>2, <1>3, <1>6, <1>11, <1>12 DEF StateSound, OwnerSound, IsState, Steps, Owning, Sending
<1>14. \A q \in Procs : loc[q].pc \notin Owning
  BY <1>4, Owns
<1> QED BY <1>6, <1>7, <1>9, <1>11, <1>13, <1>14, WriteSound

LEMMA ScanRefusedSound ==
  ASSUME IInv, NEW p \in Procs, CaptureScanRefused(p)
  PROVE  IInv'
  BY FinishSound DEF CaptureScanRefused

\* The owner of the last attempt writes into its directory.
Writes(p, n, a) ==
  /\ loc[p].pc \in Owning /\ n = loc[p].n
  /\ a \in StoredAttempts
  /\ attempts[n].request => a.request
  /\ a.record # None => a.request /\ (a.record.complete => a.record.blob \in blobs)
  /\ attempts' = [ attempts EXCEPT ![n] = a ]
  /\ UNCHANGED <<ledger, recs, blobs, manifest, judgment>>

LEMMA AttemptWritten ==
  ASSUME IInv, NEW p \in Procs, NEW n, NEW a, Writes(p, n, a)
  PROVE  /\ Grows /\ EvidenceSound'
         /\ n = Len(attempts') /\ n \in DOMAIN attempts' /\ attempts'[n] = a
         /\ \A m \in 1 .. n - 1 : attempts'[m] = attempts[m]
<1>0. /\ loc[p].pc \in Owning /\ n = loc[p].n /\ a \in StoredAttempts
      /\ attempts[n].request => a.request
      /\ a.record # None => a.request /\ (a.record.complete => a.record.blob \in blobs)
      /\ attempts' = [ attempts EXCEPT ![n] = a ]
      /\ UNCHANGED <<ledger, recs, blobs, manifest, judgment>>
  BY DEF Writes
<1>1. Len(attempts) \in Nat /\ DOMAIN attempts = 1 .. Len(attempts)
  BY AttemptPositions DEF IInv
<1>2. n = Len(attempts) /\ n \in DOMAIN attempts /\ attempts[n].record = None
  BY <1>0, Owns
<1>3. /\ attempts' \in Seq(StoredAttempts) /\ Len(attempts') = Len(attempts)
      /\ \A m \in DOMAIN attempts : attempts'[m] = IF m = n THEN a ELSE attempts[m]
      /\ DOMAIN attempts' = DOMAIN attempts
  BY <1>0, <1>1, <1>2, ExceptSeq, LenProperties DEF IInv, EvidenceSound
<1>4. Grows
  BY <1>0, <1>2, <1>3, Positions DEF Grows, Once, IInv
<1>5. /\ \A m : Terminal(m)' <=> Terminal(m)
      /\ \A types : EventsOf(types)' = EventsOf(types)
      /\ \A type, m : EventsFor(type, m)' = EventsFor(type, m)
  BY <1>0 DEF Terminal, EventsOf, EventsFor
<1>6. \A m \in DOMAIN attempts : attempts[m].record # None => m # n /\ attempts'[m] = attempts[m]
  BY <1>0, <1>2, <1>3
<1>7. CapturedEvidence'
  BY <1>0, <1>5, <1>6 DEF IInv, EvidenceSound, CapturedEvidence
<1>8. \A m \in DOMAIN attempts' :
         /\ attempts'[m].record # None =>
              /\ attempts'[m].request
              /\ attempts'[m].record.complete => attempts'[m].record.blob \in blobs
         /\ m < Len(attempts') => attempts'[m].record # None /\ Terminal(m)'
  BY <1>0, <1>2, <1>3, <1>5 DEF IInv, EvidenceSound
<1>9. \A i \in EventsOf({"capture_interrupted"})' :
         ledger'[i].att # 0 => (ledger[i].att \in DOMAIN attempts /\ Interrupted(ledger[i].att))'
  BY <1>0, <1>3, <1>5, <1>6 DEF IInv, EvidenceSound, Interrupted
<1>10. \A i \in EventsOf({"capture_completed"})' : ledger'[i].att \in DOMAIN attempts'
  BY <1>0, <1>3, <1>5 DEF IInv, EvidenceSound
<1>11. EvidenceSound'
  BY <1>0, <1>3, <1>7, <1>8, <1>9, <1>10 DEF IInv, EvidenceSound
<1> QED BY <1>1, <1>2, <1>3, <1>4, <1>11

LEMMA CaptureRequestSound ==
  ASSUME IInv, NEW p \in Procs, CaptureRequest(p)
  PROVE  IInv'
<1>1. PICK n, a : n = loc[p].n /\ a = [ attempts[n] EXCEPT !.request = TRUE ]
  OBVIOUS
<1>2. loc[p].pc = "request" /\ loc[p].pc \in Owning
  BY DEF CaptureRequest, At, Owning
<1>3. OwnerSound(loc[p]) /\ n \in DOMAIN attempts /\ attempts[n].record = None
      /\ n \notin Range(sent)
  BY <1>1, <1>2, Owns DEF OwnerSound, Sending
<1>4. attempts[n] \in StoredAttempts
  BY <1>3, AttemptPositions, ElementOfSeq DEF IInv, EvidenceSound
<1>5. a \in StoredAttempts /\ a.request = TRUE /\ a.record = None
  BY <1>1, <1>3, <1>4 DEF StoredAttempts
<1>6. attempts' = [ attempts EXCEPT ![n] = a ]
  BY <1>1 DEF CaptureRequest
<1>7. UNCHANGED <<ledger, recs, blobs, manifest, judgment, bundle, sent, kills>>
  BY DEF CaptureRequest
<1>8. /\ Grows /\ EvidenceSound'
      /\ n = Len(attempts') /\ n \in DOMAIN attempts' /\ attempts'[n] = a
  <2>1. (attempts[n].request => a.request)
        /\ (a.record # None => a.request /\ (a.record.complete => a.record.blob \in blobs))
    BY <1>5
  <2>2. UNCHANGED <<ledger, recs, blobs, manifest, judgment>>
    BY <1>7
  <2>3. n = loc[p].n /\ a \in StoredAttempts
    BY <1>1, <1>5
  <2>4. Writes(p, n, a)
    BY <1>2, <1>6, <2>1, <2>2, <2>3 DEF Writes
  <2> QED BY <2>4, AttemptWritten
<1>9. PICK new : /\ loc' = [ loc EXCEPT ![p] = new ] /\ IsState(new) /\ new.pc = "request_event"
                 /\ new.n = n
  BY <1>1, GoesTo DEF CaptureRequest
<1>10. StateSound(new)'
  BY <1>3, <1>5, <1>7, <1>8, <1>9 DEF StateSound, OwnerSound, IsState, Steps, Owning, Sending
<1> QED BY <1>2, <1>7, <1>8, <1>9, <1>10, Owns, WriteSound

(* The event of a request is refused unless the run is in "capturing", and *)
(* by then every attempt before has its interruption in the ledger.        *)
LEMMA CaptureRequestEventSound ==
  ASSUME IInv, NEW p \in Procs, CaptureRequestEvent(p)
  PROVE  IInv'
<1>1. PICK e, n : n = loc[p].n /\ e = AttemptEvent("request_preserved", n)
  OBVIOUS
<1>2. CASE ~Legal(e)
  BY <1>1, <1>2, FinishSound DEF CaptureRequestEvent, KeepDisk, disk
<1>3. CASE Legal(e)
  <2>1. Publish(e) /\ Goto(p, "send")
    BY <1>1, <1>3 DEF CaptureRequestEvent
  <2>2. UNCHANGED <<attempts, recs, blobs, manifest, judgment, sent>>
    BY DEF CaptureRequestEvent
  <2>3. /\ e.type = "request_preserved" /\ e.att = n /\ e.dig = None
    BY <1>1 DEF AttemptEvent, Occurrence, Draft
  <2>4. Fits(e) /\ State = "capturing"
    BY <1>3, <2>3, Moves DEF Fits, SealTypes, IInv
  <2>5. loc[p].pc = "request_event" /\ loc[p].pc \in Owning
    BY DEF CaptureRequestEvent, At, Owning
  <2>6. /\ OwnerSound(loc[p]) /\ n = Len(attempts) /\ n \in DOMAIN attempts
        /\ attempts[n].record = None /\ attempts[n].request /\ n \notin Range(sent)
    BY <1>1, <2>5, Owns DEF OwnerSound, Sending
  <2>7. ASSUME NEW m \in 1 .. n - 1
        PROVE  Interrupted(m) /\ EventsFor("capture_interrupted", m) # {}
    <3>1. m \in DOMAIN attempts /\ m < Len(attempts) /\ m # 0
      BY <2>6, AttemptPositions DEF IInv
    <3>2. Terminal(m)
      BY <3>1 DEF IInv, EvidenceSound
    <3>3. EventsOf({"capture_completed"}) = {}
      BY <2>4 DEF IInv, LedgerSound, EventsOf, StatesAfter
    <3>4. PICK i \in EventsOf({"capture_completed", "capture_interrupted"}) : ledger[i].att = m
      BY <3>2 DEF Terminal
    <3>5. i \in EventsOf({"capture_interrupted"})
      BY <3>3 DEF EventsOf
    <3>6. i \in EventsFor("capture_interrupted", m)
      BY <3>4, <3>5 DEF EventsFor
    <3> QED BY <3>1, <3>4, <3>5, <3>6 DEF IInv, EvidenceSound
  <2>8. Len(sent) <= Cardinality(Resumptions)
    <3>1. ASSUME NEW i \in DOMAIN sent PROVE EventsFor("capture_interrupted", sent[i]) # {}
      <4>1. sent[i] \in DOMAIN attempts /\ sent[i] \in Range(sent)
        BY ElementOfSeq, LenProperties DEF IInv, SentSound, Range
      <4>2. sent[i] \in 1 .. n - 1
        BY <2>6, <4>1, AttemptPositions DEF IInv
      <4> QED BY <2>7, <4>2
    <3> QED BY <2>4, <3>1 DEF IInv, SentSound
  <2>9. PICK new : /\ loc' = [ loc EXCEPT ![p] = new ] /\ IsState(new) /\ new.pc = "send"
                   /\ new.n = n
    BY <1>1, <2>1, GoesTo
  <2>10. ASSUME Appended(e), Grows PROVE StateSound(new)'
    <3>1. Len(ledger) + 1 \in EventsFor("request_preserved", n)'
      BY <2>3, <2>10, Positions DEF Appended, EventsFor, EventsOf, IInv
    <3>2. \A m \in 1 .. n - 1 : Interrupted(m)' /\ EventsFor("capture_interrupted", m)' # {}
      BY <2>2, <2>7, <2>10, EventsStay DEF Interrupted
    <3>3. OwnerSound(new)'
      BY <2>2, <2>6, <2>9, <3>1, <3>2 DEF OwnerSound, Sending
    <3> QED BY <2>9, <3>3 DEF StateSound, IsState, Steps, Owning
  <2> QED BY <1>3, <2>1, <2>2, <2>4, <2>5, <2>8, <2>9, <2>10, AppendSound
<1> QED BY <1>2, <1>3

(* The request goes out under the number of the last attempt, which was    *)
(* never sent, and whose event is in the ledger.                           *)
LEMMA CaptureSendSound ==
  ASSUME IInv, NEW p \in Procs, CaptureSend(p)
  PROVE  IInv'
<1>1. PICK n : n = loc[p].n
  OBVIOUS
<1>2. LedgerSound /\ EvidenceSound /\ SentSound /\ ArtifactsSound
  BY DEF IInv
<1>3. loc[p].pc = "send" /\ loc[p].pc \in Owning
  BY DEF CaptureSend, At, Owning
<1>4. /\ OwnerSound(loc[p]) /\ n = Len(attempts) /\ n \in DOMAIN attempts
      /\ attempts[n].record = None /\ attempts[n].request /\ n \notin Range(sent)
      /\ EventsFor("request_preserved", n) # {}
      /\ \A m \in 1 .. n - 1 : Interrupted(m) /\ EventsFor("capture_interrupted", m) # {}
      /\ \A q \in Procs \ {p} : loc[q].pc \notin Owning
  BY <1>1, <1>3, Owns DEF OwnerSound, Sending
<1>5. KeepDisk /\ sent' = Append(sent, n)
  BY <1>1 DEF CaptureSend
<1>6. /\ Grows /\ State' = State /\ LedgerSound' /\ EvidenceSound' /\ ArtifactsSound'
      /\ \A m : ManifestSound(m)' <=> ManifestSound(m)
      /\ \A types : EventsOf(types)' = EventsOf(types)
      /\ \A type, m : EventsFor(type, m)' = EventsFor(type, m)
  BY <1>2, <1>5, SameDisk
<1>7. n \in Nat \ {0} /\ DOMAIN attempts = 1 .. n
  BY <1>2, <1>4, AttemptPositions
<1>8. Len(sent) \in Nat /\ DOMAIN sent = 1 .. Len(sent) /\ sent \in Seq(DOMAIN attempts)
  BY <1>2, LenProperties DEF SentSound
<1>9. /\ sent' \in Seq(DOMAIN attempts) /\ Len(sent') = Len(sent) + 1
      /\ DOMAIN sent' = 1 .. Len(sent) + 1
      /\ \A i \in DOMAIN sent : sent'[i] = sent[i]
      /\ sent'[Len(sent) + 1] = n
  <2>1. /\ sent' \in Seq(DOMAIN attempts) /\ Len(sent') = Len(sent) + 1
        /\ \A i \in 1 .. Len(sent) : sent'[i] = sent[i]
        /\ sent'[Len(sent) + 1] = n
    BY <1>4, <1>5, <1>8, AppendProperties
  <2> QED BY <1>8, <2>1, LenProperties
<1>10. \A i \in DOMAIN sent : sent[i] \in 1 .. n - 1
  <2>1. ASSUME NEW i \in DOMAIN sent PROVE sent[i] \in 1 .. n - 1
    <3>1. sent[i] \in 1 .. n
      BY <1>7, <1>8, ElementOfSeq
    <3>2. sent[i] # n
      BY <1>4 DEF Range
    <3> QED BY <1>7, <3>1, <3>2
  <2> QED BY <2>1
<1>11. Len(sent) + 1 <= n
  <2>1. CASE Len(sent) = 0
    BY <1>7, <2>1
  <2>2. CASE Len(sent) # 0
    <3>1. Len(sent) \in DOMAIN sent
      BY <1>8, <2>2
    <3>2. Len(sent) <= sent[Len(sent)] /\ sent[Len(sent)] \in 1 .. n - 1
      BY <1>2, <1>10, <3>1 DEF SentSound
    <3> QED BY <1>7, <1>8, <3>2
  <2> QED BY <2>1, <2>2
<1>12. /\ Len(sent) <= Cardinality(Resumptions) /\ Cardinality(Resumptions) \in Nat
       /\ State # "execution_authorized" /\ Resumptions' = Resumptions
  <2>1. OnItsWay
    BY DEF OnItsWay, CaptureSend
  <2> QED BY <1>2, <1>6, <2>1, ResumptionsCounted DEF SentSound, Resumptions
<1>13. attempts' = attempts
  BY <1>5 DEF KeepDisk, disk
<1>14. PICK new : loc' = [ loc EXCEPT ![p] = new ] /\ IsState(new) /\ new.pc = "wait" /\ new.n = n
  BY <1>1, GoesTo DEF CaptureSend
<1>15. DispatchDiscipline'
  <2>1. Len(sent') <= MaxAttempts /\ Len(sent') <= 1 + Cardinality(Resumptions')
    BY <1>2, <1>4, <1>7, <1>8, <1>9, <1>11, <1>12, PolicyAssumption DEF EvidenceSound
  <2>2. ASSUME NEW i \in DOMAIN sent'
        PROVE  /\ attempts[sent'[i]].request
               /\ EventsFor("request_preserved", sent'[i]) # {}
               /\ \A j \in 1 .. (i - 1) : sent'[j] < sent'[i]
               /\ \A m \in 1 .. (sent'[i] - 1) :
                    /\ attempts[m].record # None
                    /\ ~attempts[m].record.complete
                    /\ EventsFor("capture_interrupted", m) # {}
    <3>1. CASE i \in DOMAIN sent
      <4>1. /\ attempts[sent[i]].request
            /\ EventsFor("request_preserved", sent[i]) # {}
            /\ \A j \in 1 .. (i - 1) : sent[j] < sent[i]
            /\ \A m \in 1 .. (sent[i] - 1) :
                 /\ attempts[m].record # None
                 /\ ~attempts[m].record.complete
                 /\ EventsFor("capture_interrupted", m) # {}
        BY <1>2, <3>1 DEF SentSound, DispatchDiscipline
      <4>2. \A j \in 1 .. (i - 1) : sent'[j] = sent[j]
        BY <1>8, <1>9, <3>1
      <4> QED BY <1>9, <3>1, <4>1, <4>2
    <3>2. CASE i = Len(sent) + 1
      <4>1. \A j \in 1 .. (i - 1) : sent'[j] < n
        <5>1. ASSUME NEW j \in 1 .. (i - 1) PROVE sent'[j] < n
          <6>1. j \in DOMAIN sent
            BY <1>8, <3>2
          <6>2. sent'[j] = sent[j] /\ sent[j] \in 1 .. n - 1
            BY <1>9, <1>10, <6>1
          <6> QED BY <1>7, <6>2
        <5> QED BY <5>1
      <4> QED BY <1>4, <1>9, <3>2, <4>1 DEF Interrupted
    <3> QED BY <1>8, <1>9, <3>1, <3>2
  <2> QED BY <1>6, <1>13, <2>1, <2>2 DEF DispatchDiscipline
<1>16. ~OnItsWay'
  BY <1>4, <1>14 DEF OnItsWay, At, Owning, IInv
<1>17. EventsFor("capture_interrupted", n) = {}
  BY <1>2, <1>4, <1>7 DEF EvidenceSound, EventsFor, Interrupted
<1>18. (\E i \in DOMAIN sent : EventsFor("capture_interrupted", sent[i]) = {})'
  <2>1. PICK i \in DOMAIN sent' : sent'[i] = n
    BY <1>8, <1>9
  <2>2. \A k \in EventsOf({"capture_interrupted"}) : ledger[k].att # n
    BY <1>17 DEF EventsFor
  <2>3. EventsOf({"capture_interrupted"})' = EventsOf({"capture_interrupted"}) /\ ledger' = ledger
    BY <1>5, <1>6 DEF KeepDisk, disk
  <2>4. (EventsFor("capture_interrupted", sent[i]) = {})'
    BY <2>1, <2>2, <2>3 DEF EventsFor
  <2> QED BY <2>1, <2>4
<1>19. \A i \in DOMAIN sent' : i <= sent'[i]
  BY <1>2, <1>8, <1>9, <1>11 DEF SentSound
<1>20. SentSound'
  BY <1>6, <1>9, <1>12, <1>13, <1>15, <1>16, <1>18, <1>19 DEF SentSound
<1>21. StateSound(new)'
  <2>1. n \in Range(sent')
    BY <1>8, <1>9 DEF Range
  <2>2. OwnerSound(new)'
    BY <1>4, <1>13, <1>14, <2>1 DEF OwnerSound, Sending
  <2> QED BY <1>14, <2>2 DEF StateSound, IsState, Steps, Owning
<1>22. /\ loc' = [ q \in Procs |-> loc'[q] ]
       /\ \A q \in Procs : StateSound(loc[q])'
       /\ OneOwner'
  BY <1>3, <1>4, <1>6, <1>14, <1>21, CommandsSound
<1> QED BY <1>6, <1>20, <1>22 DEF IInv

\* New bytes or a new recovery record leave what is known of attempts as it is.
LEMMA EvidenceStays ==
  ASSUME EvidenceSound, UNCHANGED <<ledger, attempts>>,
         blobs \subseteq blobs', blobs' \subseteq Blobs, recs' \in Seq(Recovery)
  PROVE  EvidenceSound'
<1>1. /\ \A types : EventsOf(types)' = EventsOf(types)
      /\ \A type, m : EventsFor(type, m)' = EventsFor(type, m)
      /\ \A m : (Terminal(m)' <=> Terminal(m)) /\ (Interrupted(m)' <=> Interrupted(m))
  BY DEF EventsOf, EventsFor, Terminal, Interrupted
<1>2. CapturedEvidence'
  BY <1>1 DEF EvidenceSound, CapturedEvidence
<1>3. \A m \in DOMAIN attempts' :
        /\ attempts'[m].record # None =>
             /\ attempts'[m].request
             /\ attempts'[m].record.complete => attempts'[m].record.blob \in blobs'
        /\ m < Len(attempts') => attempts'[m].record # None /\ Terminal(m)'
  BY <1>1 DEF EvidenceSound
<1>4. /\ \A i \in EventsOf({"capture_completed"})' : ledger'[i].att \in DOMAIN attempts'
      /\ \A i \in EventsOf({"capture_interrupted"})' :
           ledger'[i].att # 0 => (ledger[i].att \in DOMAIN attempts /\ Interrupted(ledger[i].att))'
  BY <1>1 DEF EvidenceSound, Interrupted
<1> QED BY <1>2, <1>3, <1>4 DEF EvidenceSound

\* The bytes of an answer are stored before anything is said of them.
LEMMA CaptureAnswerSound ==
  ASSUME IInv, NEW p \in Procs, NEW out \in Answers, CaptureAnswer(p, out)
  PROVE  IInv'
<1>1. PICK step \in {"reuse", "record"} :
        loc' = [ loc EXCEPT ![p].pc = step, ![p].out = out ]
  BY DEF CaptureAnswer
<1>2. PICK me : me = loc[p]
  OBVIOUS
<1>3. me.pc = "wait" /\ loc[p].pc \in Owning
  BY <1>2 DEF CaptureAnswer, At, Owning
<1>4. IsState(me) /\ OwnerSound(me) /\ \A q \in Procs \ {p} : loc[q].pc \notin Owning
  BY <1>2, <1>3, Owns
<1>5. PICK new : new = [ me EXCEPT !.pc = step, !.out = out ]
  OBVIOUS
<1>6. IsState(new) /\ new.pc = step /\ new.n = me.n /\ new.out = out
  BY <1>4, <1>5 DEF IsState
<1>7. loc' = [ loc EXCEPT ![p] = new ]
  BY <1>1, <1>2, <1>5 DEF IInv
<1>8. UNCHANGED <<ledger, attempts, recs, manifest, judgment, sent>>
      /\ blobs' = blobs \cup ({out.blob} \ {None})
  BY DEF CaptureAnswer
<1>9. blobs \subseteq blobs' /\ blobs' \subseteq Blobs
  <2>1. out.blob \in Blobs \cup {None}
    BY AnswerAssumption DEF AllAnswers
  <2> QED BY <1>8, <2>1 DEF IInv, EvidenceSound
<1>10. Grows
  BY <1>8, <1>9, Positions DEF Grows, Once, IInv
<1>11. EvidenceSound'
  BY <1>8, <1>9, EvidenceStays DEF IInv, EvidenceSound
<1>12. OwnerSound(new)'
  BY <1>3, <1>4, <1>6, <1>8 DEF OwnerSound, Sending
<1>13. StateSound(new)'
  BY <1>6, <1>12 DEF StateSound, IsState, Steps, Owning
<1> QED BY <1>3, <1>4, <1>6, <1>7, <1>8, <1>10, <1>11, <1>13, WriteSound

LEMMA CaptureReuseSound ==
  ASSUME IInv, NEW p \in Procs, CaptureReuse(p)
  PROVE  IInv'
<1>1. PICK e, n : n = loc[p].n /\ e = AttemptEvent("provider_request_id_reused", n)
  OBVIOUS
<1>2. loc[p].pc = "reuse" /\ loc[p].pc \in Owning /\ loc[p].pc \in Sending
  BY DEF CaptureReuse, At, Owning, Sending
<1>3. PICK me : me = loc[p]
  OBVIOUS
<1>4. IsState(me) /\ OwnerSound(me)
  BY <1>2, <1>3, Owns
<1>5. CASE ledger' = ledger /\ Finish(p)
  BY <1>5, FinishSound DEF CaptureReuse, KeepDisk, disk
<1>6. CASE ledger' = ledger /\ Goto(p, "record")
  <2>1. PICK new : /\ loc' = [ loc EXCEPT ![p] = new ] /\ IsState(new) /\ new.pc = "record"
                   /\ new.n = me.n /\ new.out = me.out
    BY <1>3, <1>6, GoesTo
  <2>2. OwnerSound(new)
    BY <1>2, <1>3, <1>4, <2>1 DEF OwnerSound, Sending
  <2>3. StateSound(new)
    BY <2>1, <2>2 DEF StateSound, IsState, Steps, Owning
  <2>4. KeepDisk /\ sent' = sent
    BY <1>6 DEF CaptureReuse, KeepDisk, disk
  <2> QED BY <1>2, <2>1, <2>3, <2>4, OnlyState
<1>7. CASE Legal(e) /\ Publish(e) /\ Goto(p, "record_reused")
  <2>1. /\ e.type = "provider_request_id_reused" /\ e.dig = None
    BY <1>1 DEF AttemptEvent, Occurrence, Draft
  <2>2. Fits(e)
    BY <1>2, <2>1, NotCaptured DEF Fits, SealTypes
  <2>3. UNCHANGED <<attempts, recs, blobs, manifest, judgment, sent>>
    BY DEF CaptureReuse
  <2>4. PICK new : /\ loc' = [ loc EXCEPT ![p] = new ] /\ IsState(new) /\ new.pc = "record_reused"
                   /\ new.n = me.n /\ new.out = me.out
    BY <1>3, <1>7, GoesTo
  <2>5. OwnerSound(new)
    BY <1>2, <1>3, <1>4, <2>4 DEF OwnerSound, Sending
  <2>6. ASSUME Grows PROVE StateSound(new)'
    <3>1. OwnerSound(new)'
      BY <2>3, <2>5, <2>6, OwnerStays DEF IInv
    <3> QED BY <2>4, <3>1 DEF StateSound, IsState, Steps, Owning
  <2> QED BY <1>2, <1>7, <2>2, <2>3, <2>4, <2>6, AppendOnSound
<1> QED BY <1>1, <1>5, <1>6, <1>7 DEF CaptureReuse

\* What is recorded is what the events to come say of the attempt.
LEMMA CaptureRecordSound ==
  ASSUME IInv, NEW p \in Procs, CaptureRecord(p)
  PROVE  IInv'
<1>1. PICK me, n, out : me = loc[p] /\ n = me.n /\ out = me.out
  OBVIOUS
<1>2. PICK r : r = [ status |-> out.status, complete |-> out.status = "completed",
                     blob |-> out.blob, pid |-> out.pid, reused |-> At(p, "record_reused") ]
  OBVIOUS
<1>3. PICK a : a = [ attempts[n] EXCEPT !.record = r ]
  OBVIOUS
<1>4. me.pc \in {"record", "record_reused"} /\ loc[p].pc \in Owning
  BY <1>1 DEF CaptureRecord, Owning
<1>5. /\ OwnerSound(me) /\ n = Len(attempts) /\ n \in DOMAIN attempts /\ attempts[n].record = None
      /\ \A q \in Procs \ {p} : loc[q].pc \notin Owning
  BY <1>1, <1>4, Owns
<1>6. /\ attempts[n].request
      /\ out \in Answers /\ out \in AllAnswers /\ (out.blob # None => out.blob \in blobs)
  BY <1>1, <1>4, <1>5, AnswerAssumption DEF OwnerSound
<1>7. attempts[n] \in StoredAttempts
  BY <1>5, AttemptPositions, ElementOfSeq DEF IInv, EvidenceSound
<1>8. r \in AttemptRecord /\ r # None
  <2>1. /\ out.blob \in Blobs \cup {None} /\ out.pid \in ProviderIds \cup {None}
        /\ out.status \in { b.status : b \in Answers }
    BY <1>6 DEF AllAnswers
  <2>2. r \in AttemptRecord
    BY <1>2, <2>1 DEF AttemptRecord, At
  <2> QED BY <2>2, NoneAssumption
<1>9. /\ r.complete <=> out.status = "completed"
      /\ r.blob = out.blob
      /\ r.complete => r.blob \in blobs
  BY <1>2, <1>6 DEF AllAnswers
<1>10. /\ a \in StoredAttempts /\ a.record = r
       /\ attempts[n].request => a.request
       /\ a.record # None => a.request /\ (a.record.complete => a.record.blob \in blobs)
  BY <1>3, <1>6, <1>7, <1>8, <1>9 DEF StoredAttempts
<1>11. attempts' = [ attempts EXCEPT ![n] = a ]
  BY <1>1, <1>2, <1>3 DEF CaptureRecord
<1>12. UNCHANGED <<ledger, recs, blobs, manifest, judgment, sent>>
  BY DEF CaptureRecord
<1>13. Writes(p, n, a)
  BY <1>1, <1>4, <1>10, <1>11, <1>12 DEF Writes
<1>14. Grows /\ EvidenceSound' /\ n \in DOMAIN attempts' /\ attempts'[n] = a
  BY <1>13, AttemptWritten
<1>15. PICK todo : todo = OutcomeEvents(n, out)
  OBVIOUS
<1>16. TodoSound(todo)'
  <2>1. attempts'[n].record # None /\ attempts'[n].record = r
    BY <1>8, <1>10, <1>14
  <2>2. CASE out.status = "completed"
    <3>1. r.complete /\ todo = << ResponseEvent(n, r.blob), CapturedEvent(n) >>
      BY <1>9, <1>15, <2>2 DEF OutcomeEvents
    <3> QED BY <1>14, <2>1, <3>1
            DEF TodoSound, ResponseEvent, CapturedEvent, Occurrence, Draft
  <2>3. CASE out.status # "completed"
    <3>1. PICK t \in {"attempt_interrupted", "metadata_rejected"} :
            todo = << AttemptEvent(t, n), InterruptedEvent(n) >>
      BY <1>15, <2>3 DEF OutcomeEvents
    <3>2. ~r.complete
      BY <1>9, <2>3
    <3> QED BY <1>14, <2>1, <3>1, <3>2
            DEF TodoSound, AttemptEvent, InterruptedEvent, Occurrence, Draft
  <2> QED BY <2>2, <2>3
<1>17. PICK new : new = [ Idle EXCEPT !.pc = "append", !.todo = todo ]
  OBVIOUS
<1>18. new.pc = "append" /\ StateSound(new)' /\ loc' = [ loc EXCEPT ![p] = new ]
  <2>1. loc' = [ loc EXCEPT ![p] = [ Idle EXCEPT !.pc = "append", !.todo = todo ] ]
    BY <1>1, <1>15 DEF CaptureRecord, Start
  <2>2. new.pc = "append" /\ StateSound(new)'
    BY <1>16, <1>17, StartsAppend
  <2> QED BY <1>17, <2>1, <2>2
<1>19. new.pc # "send" /\ new.pc \notin Owning
  BY <1>18 DEF Owning
<1> QED BY <1>5, <1>12, <1>14, <1>18, <1>19, WriteSound

-----------------------------------------------------------------------------
(* The events a command ends with.                                         *)

\* The next of them fits, and the rest still will once it is in the ledger.
LEMMA TodoFits ==
  ASSUME IInv, NEW todo, TodoSound(todo), NEW e, NEW rest, e = Head(todo), rest = Tail(todo)
  PROVE  /\ Fits(e)
         /\ rest # <<>> /\ Appended(e) /\ Grows => TodoSound(rest)'
<1>1. CASE \E n \in DOMAIN attempts :
             /\ attempts[n].record # None /\ ~attempts[n].record.complete
             /\ \E t \in {"attempt_interrupted", "metadata_rejected"} :
                  todo = << AttemptEvent(t, n), InterruptedEvent(n) >>
  <2>1. PICK n \in DOMAIN attempts, t \in {"attempt_interrupted", "metadata_rejected"} :
             /\ attempts[n].record # None /\ ~attempts[n].record.complete
             /\ todo = << AttemptEvent(t, n), InterruptedEvent(n) >>
    BY <1>1
  <2>2. e = AttemptEvent(t, n) /\ rest = << InterruptedEvent(n) >>
    BY <2>1
  <2>3. Fits(e)
    BY <2>2 DEF Fits, AttemptEvent, Occurrence, Draft, SealTypes
  <2>4. TodoSound(rest)
    BY <2>1, <2>2 DEF TodoSound
  <2> QED BY <2>3, <2>4, TodoStays
<1>2. CASE \E n \in DOMAIN attempts :
             /\ attempts[n].record # None /\ ~attempts[n].record.complete
             /\ todo = << InterruptedEvent(n) >>
  <2>1. PICK n \in DOMAIN attempts :
             /\ attempts[n].record # None /\ ~attempts[n].record.complete
             /\ todo = << InterruptedEvent(n) >>
    BY <1>2
  <2>2. e = InterruptedEvent(n) /\ rest = <<>>
    BY <2>1
  <2>3. Fits(e)
    BY <2>1, <2>2 DEF Fits, Interrupted, InterruptedEvent, Draft, SealTypes
  <2> QED BY <2>2, <2>3
<1>3. CASE \E n \in DOMAIN attempts :
             /\ attempts[n].record # None /\ attempts[n].record.complete
             /\ todo = << ResponseEvent(n, attempts[n].record.blob), CapturedEvent(n) >>
  <2>1. PICK n \in DOMAIN attempts :
             /\ attempts[n].record # None /\ attempts[n].record.complete
             /\ todo = << ResponseEvent(n, attempts[n].record.blob), CapturedEvent(n) >>
    BY <1>3
  <2>2. PICK blob : blob = attempts[n].record.blob
    OBVIOUS
  <2>3. e = ResponseEvent(n, blob) /\ rest = << CapturedEvent(n) >>
    BY <2>1, <2>2
  <2>4. Fits(e)
    BY <2>3 DEF Fits, ResponseEvent, Occurrence, Draft, SealTypes
  <2>5. ASSUME Appended(e), Grows PROVE TodoSound(rest)'
    <3>1. n \in DOMAIN attempts' /\ attempts'[n].record = attempts[n].record
      BY <2>1, <2>5 DEF Grows, Once
    <3>2. PICK k : k = Len(ledger) + 1
      OBVIOUS
    <3>3. e.type = "response_preserved" /\ e.att = n /\ e.ref = blob
      BY <2>3 DEF ResponseEvent, Occurrence, Draft
    <3>4. k \in EventsFor("response_preserved", n)' /\ ledger'[k].ref = blob
      BY <2>5, <3>2, <3>3, Positions DEF Appended, EventsFor, EventsOf, IInv
    <3> QED BY <2>1, <2>2, <2>3, <3>1, <3>4 DEF TodoSound, CapturedEvent, Draft
  <2> QED BY <2>4, <2>5
<1>4. CASE \E n \in DOMAIN attempts :
             /\ attempts[n].record # None /\ attempts[n].record.complete
             /\ todo = << CapturedEvent(n) >>
             /\ \E j \in EventsFor("response_preserved", n) : ledger[j].ref = attempts[n].record.blob
  <2>1. PICK n \in DOMAIN attempts :
             /\ attempts[n].record # None /\ attempts[n].record.complete
             /\ todo = << CapturedEvent(n) >>
             /\ \E j \in EventsFor("response_preserved", n) : ledger[j].ref = attempts[n].record.blob
    BY <1>4
  <2>2. e = CapturedEvent(n) /\ rest = <<>>
    BY <2>1
  <2>3. Fits(e)
    BY <2>1, <2>2 DEF Fits, CapturedEvent, Draft, SealTypes
  <2> QED BY <2>2, <2>3
<1>5. CASE manifest # None /\ todo = << SealEvent(manifest) >>
  <2>1. e = SealEvent(manifest) /\ rest = <<>>
    BY <1>5
  <2>2. Fits(e)
    BY <1>5, <2>1 DEF Fits, SealEvent, Draft, SealTypes
  <2> QED BY <2>1, <2>2
<1>6. CASE judgment # None /\ todo = << JudgedEvent(judgment) >>
  <2>1. e = JudgedEvent(judgment) /\ rest = <<>>
    BY <1>6
  <2>2. Fits(e)
    BY <1>6, <2>1 DEF Fits, JudgedEvent, Draft, SealTypes
  <2> QED BY <2>1, <2>2
<1>7. CASE todo = << ReviewEvent(todo[1].ref) >>
  <2>1. PICK b : todo = << ReviewEvent(b) >>
    BY <1>7
  <2>2. e = ReviewEvent(b) /\ rest = <<>>
    BY <2>1
  <2>3. Fits(e)
    BY <2>2 DEF Fits, ReviewEvent, Draft, SealTypes
  <2> QED BY <2>2, <2>3
<1> QED BY <1>1, <1>2, <1>3, <1>4, <1>5, <1>6, <1>7 DEF TodoSound

LEMMA AppendNextSound ==
  ASSUME IInv, NEW p \in Procs, AppendNext(p)
  PROVE  IInv'
<1>1. PICK me, e, rest : me = loc[p] /\ e = Head(me.todo) /\ rest = Tail(me.todo)
  OBVIOUS
<1>2. me.pc = "append" /\ IsState(me) /\ TodoSound(me.todo)
  BY <1>1 DEF AppendNext, At, IInv, StateSound, IsState
<1>3. Fits(e) /\ (rest # <<>> /\ Appended(e) /\ Grows => TodoSound(rest)')
  BY <1>1, <1>2, TodoFits
<1>4. UNCHANGED <<attempts, recs, blobs, manifest, judgment, bundle, sent>>
  BY DEF AppendNext
<1>5. CASE ledger' = ledger /\ Finish(p)
  BY <1>4, <1>5, FinishSound DEF KeepDisk, disk
<1>6. CASE Legal(e) /\ Publish(e) /\ rest = <<>> /\ Finish(p)
  <2>1. PICK new : new = Idle
    OBVIOUS
  <2>2. loc' = [ loc EXCEPT ![p] = new ] /\ new.pc = "idle"
    BY <1>6, <2>1, IdleSound DEF Finish
  <2>3. StateSound(new)'
    BY <2>1 DEF StateSound, Idle, Steps, Owning
  <2> QED BY <1>3, <1>4, <1>6, <2>2, <2>3, AppendOnSound DEF Owning
<1>7. CASE /\ Legal(e) /\ Publish(e) /\ rest # <<>>
           /\ loc' = [ loc EXCEPT ![p] = [ me EXCEPT !.todo = rest ] ]
  <2>1. PICK new : new = [ me EXCEPT !.todo = rest ]
    OBVIOUS
  <2>2. IsState(new) /\ new.pc = "append" /\ new.todo = rest
    BY <1>2, <2>1 DEF IsState
  <2>3. Appended(e) /\ Grows => StateSound(new)'
    BY <1>3, <1>7, <2>2 DEF StateSound, IsState, Steps, Owning
  <2>4. loc' = [ loc EXCEPT ![p] = new ]
    BY <1>7, <2>1
  <2> QED BY <1>3, <1>4, <1>7, <2>2, <2>3, <2>4, AppendOnSound DEF Owning
<1>8. \/ ledger' = ledger /\ Finish(p)
      \/ Legal(e) /\ Publish(e) /\ rest = <<>> /\ Finish(p)
      \/ /\ Legal(e) /\ Publish(e) /\ rest # <<>>
         /\ loc' = [ loc EXCEPT ![p] = [ me EXCEPT !.todo = rest ] ]
  BY <1>1 DEF AppendNext
<1> QED BY <1>5, <1>6, <1>7, <1>8

-----------------------------------------------------------------------------
(* Sets of numbers and their ends.                                         *)

LEMMA LeastOf ==
  ASSUME NEW S \in SUBSET Nat, S # {}
  PROVE  Min(S) \in S
<1>1. \E x \in S : \A y \in S : ~(<<y, x>> \in OpToRel(<, Nat))
  <2> DEFINE R == OpToRel(<, Nat)
  <2>1. IsWellFoundedOn(R, Nat)
    BY NatLessThanWellFounded
  <2> HIDE DEF R
  <2>2. \E x \in S : \A y \in S : ~(<<y, x>> \in R)
    BY <2>1, WFMin
  <2> QED BY <2>2 DEF R
<1>2. PICK x \in S : \A y \in S : ~(y < x)
  BY <1>1 DEF OpToRel
<1>3. \A y \in S : x <= y
  BY <1>2
<1> QED BY <1>3 DEF Min

LEMMA GreatestOf ==
  ASSUME NEW n \in Nat, NEW S \in SUBSET (1 .. n), S # {}
  PROVE  Max(S) \in S
<1>1. PICK T : T = { n - i : i \in S }
  OBVIOUS
<1>2. T \in SUBSET Nat
  BY <1>1, SMT
<1>3. T # {}
  BY <1>1
<1>4. \E x \in T : \A y \in T : ~(<<y, x>> \in OpToRel(<, Nat))
  <2> DEFINE R == OpToRel(<, Nat)
  <2>1. IsWellFoundedOn(R, Nat)
    BY NatLessThanWellFounded
  <2> HIDE DEF R
  <2>2. \E x \in T : \A y \in T : ~(<<y, x>> \in R)
    BY <1>2, <1>3, <2>1, WFMin
  <2> QED BY <2>2 DEF R
<1>5. PICK x \in T : \A y \in T : ~(y < x)
  BY <1>2, <1>4 DEF OpToRel
<1>6. PICK m \in S : x = n - m
  BY <1>1
<1>7. ASSUME NEW i \in S PROVE m >= i
  <2>1. n - i \in T
    BY <1>1
  <2>2. ~(n - i < n - m) /\ i \in Nat /\ m \in Nat
    BY <1>5, <1>6, <2>1
  <2> QED BY <2>2
<1> QED BY <1>7 DEF Max

-----------------------------------------------------------------------------
(* recover_run.                                                            *)

RecoveryDrafts(r) ==
  { e \in [ type : { "attempt_interrupted", "capture_interrupted", "recovery_declared",
                     "recovery_evidence_preserved", "capture_resumed", "capture_aborted" },
            to   : {None, "interrupted", "capturing", "aborted"},
            att  : {0}, dig : {r}, ref : Blobs \cup {None} ] :
      e.type = "capture_resumed" => r.action = "resume" /\ e.ref = None }

\* The events of a recovery name its record.
LEMMA RecoveryEventsNamed ==
  ASSUME NEW r \in Recovery
  PROVE  RecoveryEvents(r) \in Seq(RecoveryDrafts(r))
<1>1. PICK D : D = RecoveryDrafts(r)
  OBVIOUS
<1>2. PICK a, b, c, d :
        /\ a = IF r.before = "capturing"
                 THEN << Occurrence("attempt_interrupted", 0, r, None),
                         Draft("capture_interrupted", "interrupted", 0, r, None) >>
                 ELSE <<>>
        /\ b = << Occurrence("recovery_declared", 0, r, None) >>
        /\ c = IF r.partial # None
                 THEN << Occurrence("recovery_evidence_preserved", 0, r, r.partial) >>
                 ELSE <<>>
        /\ d = CASE r.action = "resume" -> << Draft("capture_resumed", "capturing", 0, r, None) >>
                 [] r.action = "abort"  -> << Draft("capture_aborted", "aborted", 0, r, None) >>
                 [] OTHER               -> <<>>
  OBVIOUS
<1>3. /\ Occurrence("attempt_interrupted", 0, r, None) \in D
      /\ Draft("capture_interrupted", "interrupted", 0, r, None) \in D
      /\ Occurrence("recovery_declared", 0, r, None) \in D
      /\ r.partial \in Blobs \cup {None}
      /\ Occurrence("recovery_evidence_preserved", 0, r, r.partial) \in D
      /\ r.action = "resume" => Draft("capture_resumed", "capturing", 0, r, None) \in D
      /\ Draft("capture_aborted", "aborted", 0, r, None) \in D
  BY <1>1 DEF Occurrence, Draft, RecoveryDrafts, Recovery
<1>4. a \in Seq(D) /\ b \in Seq(D) /\ c \in Seq(D)
  BY <1>2, <1>3
<1>5. d \in Seq(D)
  BY <1>2, <1>3
<1>6. (a \o b) \o c \in Seq(D)
  BY <1>4, ConcatProperties
<1>7. ((a \o b) \o c) \o d \in Seq(D)
  BY <1>5, <1>6, ConcatProperties
<1>8. RecoveryEvents(r) = ((a \o b) \o c) \o d
  BY <1>2 DEF RecoveryEvents
<1> QED BY <1>1, <1>7, <1>8

LEMMA RecoverResumeSound ==
  ASSUME IInv, NEW p \in Procs, NEW action, NEW reason, NEW partial,
         RecoverResume(p, action, reason, partial)
  PROVE  IInv'
<1>1. PICK i \in DOMAIN recs :
        loc' = [ loc EXCEPT ![p] = [ Idle EXCEPT !.pc = "recovery_check", !.n = 1, !.rec = recs[i] ] ]
  BY DEF RecoverResume, Start, IncompleteRecoveries
<1>2. PICK r : r = recs[i]
  OBVIOUS
<1>3. r \in Recovery /\ r \in Range(recs)
  BY <1>1, <1>2, ElementOfSeq, LenProperties DEF IInv, EvidenceSound, Range
<1>4. PICK new : new = [ Idle EXCEPT !.pc = "recovery_check", !.n = 1, !.rec = r ]
  OBVIOUS
<1>5. IsState(new) /\ new.pc = "recovery_check" /\ new.n = 1 /\ new.rec = r
  BY <1>4 DEF Idle, IsState
<1>6. StateSound(new)
  BY <1>3, <1>5 DEF StateSound, IsState, Steps, Owning
<1>7. loc' = [ loc EXCEPT ![p] = new ]
  BY <1>1, <1>2, <1>4
<1>8. new.pc \notin Owning /\ new.pc # "send"
  BY <1>5 DEF Owning
<1> QED BY <1>6, <1>7, <1>8, OnlyState DEF RecoverResume

\* What is supplied is stored, and a record is made of what was found.
LEMMA RecoverStartSound ==
  ASSUME IInv, NEW p \in Procs, NEW action \in Actions, NEW reason \in Reasons,
         NEW partial \in Partials, NEW time \in Times,
         RecoverStart(p, action, reason, time, partial)
  PROVE  IInv'
<1>1. /\ UNCHANGED <<ledger, attempts, recs, manifest, judgment, sent>>
      /\ blobs' = blobs \cup ({partial} \ {None})
  BY DEF RecoverStart
<1>2. blobs \subseteq blobs' /\ blobs' \subseteq Blobs /\ partial \in Blobs \cup {None}
  BY <1>1, PolicyAssumption DEF IInv, EvidenceSound
<1>3. Grows
  BY <1>1, <1>2, Positions DEF Grows, Once, IInv
<1>4. EvidenceSound'
  BY <1>1, <1>2, EvidenceStays DEF IInv, EvidenceSound
<1>5. CASE loc' = loc
  <2>1. PICK new : new = loc[p]
    OBVIOUS
  <2>2. new.pc = "idle" /\ IsState(new) /\ loc' = [ loc EXCEPT ![p] = new ]
    BY <1>5, <2>1 DEF RecoverStart, At, IInv, StateSound, IsState
  <2>3. StateSound(new)'
    BY <2>2 DEF StateSound, IsState, Steps, Owning
  <2>4. new.pc \notin Owning /\ new.pc # "send"
    BY <2>2 DEF Owning
  <2> QED BY <1>1, <1>3, <1>4, <2>2, <2>3, <2>4, WriteSound
<1>6. CASE loc' # loc
  <2>1. PICK r : r = [ action |-> action, reason |-> reason, time |-> time,
                       before |-> State, att |-> Len(attempts),
                       partial |-> RecoveredBlob(partial) ]
    OBVIOUS
  <2>2. RecoveredBlob(partial) \in Blobs \cup {None}
    <3>1. Orphans(partial) \subseteq Blobs
      BY DEF Orphans, IInv, EvidenceSound
    <3> QED BY <1>2, <3>1 DEF RecoveredBlob
  <2>3. State \in {"capturing", "interrupted"} /\ Len(attempts) \in 0 .. MaxAttempts
    BY AttemptPositions, PolicyAssumption DEF RecoverStart, RecoveryPermitted, IInv, EvidenceSound
  <2>4. r \in Recovery
    BY <2>1, <2>2, <2>3 DEF Recovery
  <2>5. PICK new : new = [ Idle EXCEPT !.pc = "recovery_record", !.n = Len(recs), !.rec = r ]
    OBVIOUS
  <2>6. IsState(new) /\ new.pc = "recovery_record" /\ new.n = Len(recs) /\ new.rec = r
    BY <2>5 DEF Idle, IsState
  <2>7. loc' = [ loc EXCEPT ![p] = new ]
    BY <1>6, <2>1, <2>5 DEF RecoverStart, Start
  <2>8. Len(recs) \in Nat
    BY LenProperties DEF IInv, EvidenceSound
  <2>9. StateSound(new)'
    BY <2>4, <2>6, <2>8 DEF StateSound, IsState, Steps, Owning
  <2>10. new.pc \notin Owning /\ new.pc # "send"
    BY <2>6 DEF Owning
  <2> QED BY <1>1, <1>3, <1>4, <2>7, <2>9, <2>10, WriteSound
<1> QED BY <1>5, <1>6

LEMMA RecoverRecordSound ==
  ASSUME IInv, NEW p \in Procs, RecoverRecord(p)
  PROVE  IInv'
<1>1. UNCHANGED <<ledger, attempts, blobs, manifest, judgment, bundle, sent>>
  BY DEF RecoverRecord
<1>2. CASE recs' = recs /\ Finish(p)
  BY <1>1, <1>2, FinishSound DEF KeepDisk, disk
<1>3. CASE /\ recs' = Append(recs, loc[p].rec)
           /\ loc' = [ loc EXCEPT ![p].pc = "recovery_check", ![p].n = 1 ]
  <2>1. PICK me, r : me = loc[p] /\ r = me.rec
    OBVIOUS
  <2>2. IsState(me) /\ r \in Recovery
    BY <2>1 DEF RecoverRecord, At, IInv, StateSound, IsState
  <2>3. recs' \in Seq(Recovery) /\ Range(recs') = Range(recs) \cup {r}
    <3>1. recs \in Seq(Recovery) /\ recs' = Append(recs, r)
      BY <1>3, <2>1 DEF IInv, EvidenceSound
    <3>2. /\ recs' \in Seq(Recovery) /\ Len(recs') = Len(recs) + 1
          /\ \A i \in 1 .. Len(recs) : recs'[i] = recs[i]
          /\ recs'[Len(recs) + 1] = r
      BY <2>2, <3>1, AppendProperties
    <3>3. Len(recs) \in Nat /\ DOMAIN recs = 1 .. Len(recs) /\ DOMAIN recs' = 1 .. Len(recs) + 1
      BY <3>1, <3>2, LenProperties
    <3>4. \A i \in DOMAIN recs : i \in DOMAIN recs' /\ recs'[i] = recs[i]
      BY <3>2, <3>3
    <3>5. \A i \in DOMAIN recs' : recs'[i] = r \/ (i \in DOMAIN recs /\ recs'[i] = recs[i])
      BY <3>2, <3>3
    <3>6. \E i \in DOMAIN recs' : recs'[i] = r
      BY <3>2, <3>3
    <3>7. Range(recs') \subseteq Range(recs) \cup {r}
      BY <3>5 DEF Range
    <3>8. Range(recs) \subseteq Range(recs') /\ r \in Range(recs')
      BY <3>4, <3>6 DEF Range
    <3> QED BY <3>2, <3>7, <3>8
  <2>4. Grows
    BY <1>1, <2>3, Positions DEF Grows, Once, IInv
  <2>5. EvidenceSound'
    BY <1>1, <2>3, EvidenceStays DEF IInv, EvidenceSound
  <2>6. PICK new : new = [ me EXCEPT !.pc = "recovery_check", !.n = 1 ]
    OBVIOUS
  <2>7. IsState(new) /\ new.pc = "recovery_check" /\ new.n = 1 /\ new.rec = r
    BY <2>1, <2>2, <2>6 DEF IsState
  <2>8. loc' = [ loc EXCEPT ![p] = new ]
    BY <1>3, <2>1, <2>6 DEF IInv
  <2>9. StateSound(new)'
    BY <2>2, <2>3, <2>7 DEF StateSound, IsState, Steps, Owning
  <2>10. new.pc \notin Owning /\ new.pc # "send"
    BY <2>7 DEF Owning
  <2> QED BY <1>1, <2>4, <2>5, <2>8, <2>9, <2>10, WriteSound
<1> QED BY <1>2, <1>3 DEF RecoverRecord

LEMMA RecoverCheckSound ==
  ASSUME IInv, NEW p \in Procs, RecoverCheck(p)
  PROVE  IInv'
<1>1. PICK me : me = loc[p]
  OBVIOUS
<1>2. PICK events : events = RecoveryEvents(me.rec)
  OBVIOUS
<1>3. PICK notOnce : notOnce = { j \in me.n .. Len(events) : Cardinality(Places(events[j])) # 1 }
  OBVIOUS
<1>4. /\ me.pc = "recovery_check" /\ IsState(me) /\ me.rec \in Recovery /\ me.n \in Nat
      /\ me.rec \in Range(recs) /\ me.n > 0
  BY <1>1 DEF RecoverCheck, At, IInv, StateSound, IsState
<1>5. CASE Finish(p)
  BY <1>5, FinishSound DEF RecoverCheck
<1>6. CASE /\ notOnce # {}
           /\ loc' = [ loc EXCEPT ![p].pc = "recovery_append", ![p].n = Min(notOnce) ]
  <2>1. PICK n : n = Min(notOnce)
    OBVIOUS
  <2>2. n \in notOnce
    <3>1. notOnce \in SUBSET Nat
      BY <1>3, <1>4
    <3> QED BY <1>6, <2>1, <3>1, LeastOf
  <2>3. Len(events) \in Nat /\ DOMAIN events = 1 .. Len(events)
    BY <1>2, <1>4, RecoveryEventsNamed, LenProperties
  <2>4. n \in Nat /\ n > 0 /\ n \in DOMAIN events
    BY <1>3, <1>4, <2>2, <2>3
  <2>5. PICK new : new = [ me EXCEPT !.pc = "recovery_append", !.n = n ]
    OBVIOUS
  <2>6. IsState(new) /\ new.pc = "recovery_append" /\ new.n = n /\ new.rec = me.rec
    BY <1>4, <2>5 DEF IsState
  <2>7. loc' = [ loc EXCEPT ![p] = new ]
    BY <1>1, <1>6, <2>1, <2>5 DEF IInv
  <2>8. StateSound(new)
    BY <1>2, <1>4, <2>4, <2>6 DEF StateSound, IsState, Steps, Owning
  <2>9. new.pc \notin Owning /\ new.pc # "send"
    BY <2>6 DEF Owning
  <2> QED BY <2>7, <2>8, <2>9, OnlyState DEF RecoverCheck
<1> QED BY <1>1, <1>2, <1>3, <1>5, <1>6 DEF RecoverCheck

LEMMA RecoverAppendSound ==
  ASSUME IInv, NEW p \in Procs, RecoverAppend(p)
  PROVE  IInv'
<1>1. PICK me, e : me = loc[p] /\ e = RecoveryEvents(me.rec)[me.n]
  OBVIOUS
<1>2. /\ me.pc = "recovery_append" /\ IsState(me) /\ me.rec \in Recovery /\ me.n \in Nat
      /\ me.rec \in Range(recs) /\ me.n > 0 /\ me.n \in DOMAIN RecoveryEvents(me.rec)
  BY <1>1 DEF RecoverAppend, At, IInv, StateSound, IsState
<1>3. UNCHANGED <<attempts, recs, blobs, manifest, judgment, bundle, sent>>
  BY DEF RecoverAppend
<1>4. e \in RecoveryDrafts(me.rec)
  BY <1>1, <1>2, RecoveryEventsNamed, ElementOfSeq, LenProperties
<1>5. Fits(e)
  BY <1>2, <1>4 DEF Fits, RecoveryDrafts, SealTypes
<1>6. CASE ledger' = ledger /\ Finish(p)
  BY <1>3, <1>6, FinishSound DEF KeepDisk, disk
<1>7. CASE /\ Legal(e) /\ Publish(e)
           /\ loc' = [ loc EXCEPT ![p].pc = "recovery_check", ![p].n = @ + 1 ]
  <2>1. PICK new : new = [ me EXCEPT !.pc = "recovery_check", !.n = me.n + 1 ]
    OBVIOUS
  <2>2. IsState(new) /\ new.pc = "recovery_check" /\ new.n = me.n + 1 /\ new.rec = me.rec
    BY <1>2, <2>1 DEF IsState
  <2>3. loc' = [ loc EXCEPT ![p] = new ]
    BY <1>1, <1>7, <2>1 DEF IInv
  <2>4. StateSound(new)'
    BY <1>2, <1>3, <2>2 DEF StateSound, IsState, Steps, Owning
  <2>5. new.pc \notin Owning /\ new.pc # "send"
    BY <2>2 DEF Owning
  <2> QED BY <1>3, <1>5, <1>7, <2>3, <2>4, <2>5, AppendOnSound
<1> QED BY <1>1, <1>6, <1>7 DEF RecoverAppend

-----------------------------------------------------------------------------
(* seal_run.                                                               *)

\* What is seen of the attempt directories.
LEMMA ViewSound ==
  ASSUME EvidenceSound
  PROVE  /\ View \in Seq(AttemptRecord \cup {Uncommitted})
         /\ DOMAIN View = DOMAIN attempts /\ Len(View) = Len(attempts)
         /\ \A n \in DOMAIN View : /\ View[n].blob \in Blobs \cup {None}
                                   /\ View[n].complete => View[n].blob \in blobs
<1>1. Len(attempts) \in Nat /\ DOMAIN attempts = 1 .. Len(attempts)
  BY AttemptPositions
<1>2. ASSUME NEW n \in DOMAIN attempts
      PROVE  /\ View[n] \in AttemptRecord \cup {Uncommitted}
             /\ View[n].blob \in Blobs \cup {None}
             /\ View[n].complete => View[n].blob \in blobs
  <2>1. View[n] = IF attempts[n].record = None THEN Uncommitted ELSE attempts[n].record
    BY DEF View
  <2>2. attempts[n].record \in AttemptRecord \cup {None}
    <3>1. attempts[n] \in StoredAttempts
      BY <1>1, ElementOfSeq DEF EvidenceSound
    <3> QED BY <3>1 DEF StoredAttempts
  <2>3. CASE attempts[n].record = None
    BY <2>1, <2>3 DEF Uncommitted
  <2>4. CASE attempts[n].record # None
    BY <2>1, <2>2, <2>4 DEF EvidenceSound, AttemptRecord
  <2> QED BY <2>3, <2>4
<1>3. DOMAIN View = DOMAIN attempts /\ View = [ n \in DOMAIN attempts |-> View[n] ]
  BY DEF View
<1>4. View \in [ 1 .. Len(attempts) -> AttemptRecord \cup {Uncommitted} ]
  BY <1>1, <1>2, <1>3
<1>5. View \in Seq(AttemptRecord \cup {Uncommitted})
  BY <1>1, <1>4, SeqDef
<1>6. Len(View) = Len(attempts)
  BY <1>1, <1>3, <1>5, LenProperties
<1> QED BY <1>2, <1>3, <1>5, <1>6

LEMMA ManifestNowSound ==
  ASSUME LedgerSound, EvidenceSound, State \in {"captured", "aborted"},
         State = "captured" => CompleteIn(View) # {}
  PROVE  ManifestSound(ManifestNow)
<1>1. Evidence \in SUBSET Blobs
  <2>1. \A r \in Range(recs) : r.partial \in Blobs \cup {None}
    <3>1. recs \in Seq(Recovery) /\ \A i \in DOMAIN recs : recs[i] \in Recovery
      BY ElementOfSeq, LenProperties DEF EvidenceSound
    <3>2. Range(recs) \subseteq Recovery
      BY <3>1 DEF Range
    <3> QED BY <3>2 DEF Recovery
  <2>2. \A n \in DOMAIN View : View[n].blob \in Blobs \cup {None}
    BY ViewSound
  <2> QED BY <2>1, <2>2 DEF Evidence
<1>2. View \in Seq(AttemptRecord \cup {Uncommitted}) /\ Len(ledger) \in Nat
  BY ViewSound, Positions
<1>3. PICK m : m = ManifestNow
  OBVIOUS
<1>4. m.state = State /\ m.root = Len(ledger) /\ m.attempts = View /\ m \in Manifests
  BY <1>1, <1>2, <1>3 DEF ManifestNow, Manifests
<1>5. m.state = "captured" => \E n \in DOMAIN m.attempts : m.attempts[n].complete
  BY <1>4 DEF CompleteIn
<1> QED BY <1>3, <1>4, <1>5 DEF ManifestSound

LEMMA SealStartSound ==
  ASSUME IInv, NEW p \in Procs, SealStart(p)
  PROVE  IInv'
<1>1. CASE /\ manifest = None
           /\ loc' = [ loc EXCEPT ![p] = [ Idle EXCEPT !.pc = "seal_write", !.art = ManifestNow ] ]
  <2>1. PICK m : m = ManifestNow
    OBVIOUS
  <2>2. ManifestSound(m)
    BY <1>1, <2>1, ManifestNowSound DEF SealStart, Sealable, IInv
  <2>3. PICK new : new = [ Idle EXCEPT !.pc = "seal_write", !.art = m ]
    OBVIOUS
  <2>4. IsState(new) /\ new.pc = "seal_write" /\ new.art = m
    BY <2>3 DEF Idle, IsState
  <2>5. StateSound(new)
    BY <2>2, <2>4 DEF StateSound, IsState, Steps, Owning
  <2>6. new.pc \notin Owning /\ new.pc # "send" /\ loc' = [ loc EXCEPT ![p] = new ]
    BY <1>1, <2>1, <2>3, <2>4 DEF Owning
  <2> QED BY <2>5, <2>6, OnlyState DEF SealStart
<1>2. CASE /\ manifest # None
           /\ loc' = [ loc EXCEPT ![p] =
                         [ Idle EXCEPT !.pc = "append", !.todo = << SealEvent(manifest) >> ] ]
  <2>1. PICK todo : todo = << SealEvent(manifest) >>
    OBVIOUS
  <2>2. TodoSound(todo)
    BY <1>2, <2>1 DEF TodoSound
  <2>3. PICK new : new = [ Idle EXCEPT !.pc = "append", !.todo = todo ]
    OBVIOUS
  <2>4. StateSound(new) /\ new.pc = "append" /\ loc' = [ loc EXCEPT ![p] = new ]
    BY <1>2, <2>1, <2>2, <2>3, StartsAppend
  <2> QED BY <2>4, OnlyState DEF SealStart, Owning
<1> QED BY <1>1, <1>2 DEF SealStart, Start

\* The manifest is written once, and so no seal and no judgment came before it.
LEMMA SealWriteSound ==
  ASSUME IInv, NEW p \in Procs, SealWrite(p)
  PROVE  IInv'
<1>1. UNCHANGED <<ledger, attempts, recs, blobs, judgment, bundle, sent>>
  BY DEF SealWrite
<1>2. CASE manifest' = manifest /\ Finish(p)
  BY <1>1, <1>2, FinishSound DEF KeepDisk, disk
<1>3. CASE /\ manifest = None /\ manifest' = loc[p].art
           /\ loc' = [ loc EXCEPT ![p] =
                         [ Idle EXCEPT !.pc = "append", !.todo = << SealEvent(loc[p].art) >> ] ]
  <2>1. PICK m : m = loc[p].art
    OBVIOUS
  <2>2. ManifestSound(m) /\ m # None
    BY <2>1, NoneAssumption DEF SealWrite, At, IInv, StateSound, ManifestSound
  <2>3. Grows
    BY <1>1, <1>3, Positions DEF Grows, Once, IInv
  <2>4. LedgerSound' /\ \A a : ManifestSound(a)' <=> ManifestSound(a)
    BY <1>1, <2>3, LedgerStays DEF IInv
  <2>5. EvidenceSound'
    BY <1>1, EvidenceStays DEF IInv, EvidenceSound
  <2>6. PICK todo : todo = << SealEvent(m) >>
    OBVIOUS
  <2>7. PICK new : new = [ Idle EXCEPT !.pc = "append", !.todo = todo ]
    OBVIOUS
  <2>8. TodoSound(todo)'
    BY <1>3, <2>1, <2>2, <2>6 DEF TodoSound, SealEvent, Draft
  <2>9. loc' = [ loc EXCEPT ![p] = new ]
    BY <1>3, <2>1, <2>6, <2>7
  <2>10. StateSound(new)' /\ new.pc = "append"
    BY <2>7, <2>8, StartsAppend
  <2>11. OnItsWay' => OnItsWay
    BY <2>9, <2>10, NoneSendsAnew
  <2>12. SentSound'
    BY <1>1, <2>3, <2>11, SentStays DEF IInv
  <2>13. judgment = None /\ EventsOf(SealTypes) = {} /\ EventsOf({"judgment_sealed"}) = {}
    BY <1>3 DEF IInv, ArtifactsSound, JudgmentSound
  <2>14. ArtifactsSound'
    <3>1. \A types : EventsOf(types)' = EventsOf(types)
      BY <1>1 DEF EventsOf
    <3>2. ManifestSound(m)'
      BY <2>2, <2>4
    <3>3. ManifestSound(manifest)'
      BY <1>3, <2>1, <3>2 DEF ManifestSound
    <3>4. SealsBind'
      BY <2>13, <3>1 DEF SealsBind, SealTypes
    <3> QED BY <1>1, <2>13, <3>1, <3>3, <3>4 DEF ArtifactsSound
  <2>15. /\ loc' = [ q \in Procs |-> loc'[q] ]
         /\ \A q \in Procs : StateSound(loc[q])'
         /\ OneOwner'
    BY <1>1, <2>3, <2>4, <2>9, <2>10, CommandsSound DEF Owning
  <2> QED BY <2>4, <2>5, <2>12, <2>14, <2>15 DEF IInv
<1> QED BY <1>2, <1>3 DEF SealWrite, Start

-----------------------------------------------------------------------------
(* judge_run.                                                              *)

\* The judged bytes are those of a complete attempt of the manifest.
LEMMA JudgmentNowSound ==
  ASSUME IInv, manifest # None, manifest.state = "captured", manifest.attempts = View
  PROVE  JudgmentSound(JudgmentNow)
<1>1. PICK S, k : S = CompleteIn(View) /\ k = Max(S)
  OBVIOUS
<1>2. ManifestSound(manifest)
  BY DEF IInv, ArtifactsSound
<1>3. /\ View \in Seq(AttemptRecord \cup {Uncommitted})
      /\ DOMAIN View = DOMAIN attempts
      /\ \A n \in DOMAIN View : View[n].complete => View[n].blob \in blobs
  BY ViewSound DEF IInv
<1>4. S # {}
  BY <1>1, <1>2 DEF ManifestSound, CompleteIn
<1>5. S \in SUBSET (1 .. Len(attempts)) /\ Len(attempts) \in Nat
  BY <1>1, <1>3, AttemptPositions DEF CompleteIn, IInv
<1>6. k \in S
  BY <1>1, <1>4, <1>5, GreatestOf
<1>7. k \in DOMAIN View /\ View[k].complete /\ View[k].blob \in Blobs
  BY <1>1, <1>3, <1>6 DEF CompleteIn, IInv, EvidenceSound
<1>8. PICK j : j = JudgmentNow
  OBVIOUS
<1>9. j = [ manifest |-> manifest, blob |-> View[k].blob ]
  BY <1>1, <1>8 DEF JudgmentNow, JudgedBlob
<1>10. j \in Judgments
  BY <1>2, <1>7, <1>9 DEF Judgments, ManifestSound
<1>11. j.manifest = manifest /\ j.blob = View[k].blob
  BY <1>9
<1>12. JudgmentSound(j)
  BY <1>7, <1>10, <1>11 DEF JudgmentSound
<1> QED BY <1>8, <1>12

LEMMA JudgeStartSound ==
  ASSUME IInv, NEW p \in Procs, JudgeStart(p)
  PROVE  IInv'
<1>1. CASE /\ judgment = None /\ VerifyRun /\ manifest.state = "captured"
           /\ loc' = [ loc EXCEPT ![p] = [ Idle EXCEPT !.pc = "judge_write", !.art = JudgmentNow ] ]
  <2>1. State = "sealed" /\ Sealed
    BY DEF JudgeStart, Sealed
  <2>2. manifest # None /\ manifest.attempts = View
    BY <1>1, <2>1 DEF VerifyRun, VerifyCore, ManifestValid
  <2>3. PICK j : j = JudgmentNow
    OBVIOUS
  <2>4. JudgmentSound(j)
    BY <1>1, <2>2, <2>3, JudgmentNowSound
  <2>5. PICK new : new = [ Idle EXCEPT !.pc = "judge_write", !.art = j ]
    OBVIOUS
  <2>6. IsState(new) /\ new.pc = "judge_write" /\ new.art = j
    BY <2>5 DEF Idle, IsState
  <2>7. StateSound(new)
    BY <2>4, <2>6 DEF StateSound, IsState, Steps, Owning
  <2>8. new.pc \notin Owning /\ new.pc # "send" /\ loc' = [ loc EXCEPT ![p] = new ]
    BY <1>1, <2>3, <2>5, <2>6 DEF Owning
  <2> QED BY <2>7, <2>8, OnlyState DEF JudgeStart
<1>2. CASE /\ judgment # None
           /\ loc' = [ loc EXCEPT ![p] =
                         [ Idle EXCEPT !.pc = "append", !.todo = << JudgedEvent(judgment) >> ] ]
  <2>1. PICK todo : todo = << JudgedEvent(judgment) >>
    OBVIOUS
  <2>2. TodoSound(todo)
    BY <1>2, <2>1 DEF TodoSound
  <2>3. PICK new : new = [ Idle EXCEPT !.pc = "append", !.todo = todo ]
    OBVIOUS
  <2>4. StateSound(new) /\ new.pc = "append" /\ loc' = [ loc EXCEPT ![p] = new ]
    BY <1>2, <2>1, <2>2, <2>3, StartsAppend
  <2> QED BY <2>4, OnlyState DEF JudgeStart, Owning
<1> QED BY <1>1, <1>2 DEF JudgeStart, Start

LEMMA JudgeWriteSound ==
  ASSUME IInv, NEW p \in Procs, JudgeWrite(p)
  PROVE  IInv'
<1>1. UNCHANGED <<ledger, attempts, recs, blobs, manifest, bundle, sent>>
  BY DEF JudgeWrite
<1>2. CASE judgment' = judgment /\ Finish(p)
  BY <1>1, <1>2, FinishSound DEF KeepDisk, disk
<1>3. CASE /\ judgment = None /\ judgment' = loc[p].art
           /\ loc' = [ loc EXCEPT ![p] =
                         [ Idle EXCEPT !.pc = "append", !.todo = << JudgedEvent(loc[p].art) >> ] ]
  <2>1. PICK j : j = loc[p].art
    OBVIOUS
  <2>2. JudgmentSound(j) /\ j # None
    BY <2>1, NoneAssumption DEF JudgeWrite, At, IInv, StateSound, JudgmentSound
  <2>3. Grows
    BY <1>1, <1>3, Positions DEF Grows, Once, IInv
  <2>4. LedgerSound' /\ \A a : ManifestSound(a)' <=> ManifestSound(a)
    BY <1>1, <2>3, LedgerStays DEF IInv
  <2>5. EvidenceSound'
    BY <1>1, EvidenceStays DEF IInv, EvidenceSound
  <2>6. PICK todo : todo = << JudgedEvent(j) >>
    OBVIOUS
  <2>7. PICK new : new = [ Idle EXCEPT !.pc = "append", !.todo = todo ]
    OBVIOUS
  <2>8. TodoSound(todo)'
    BY <1>3, <2>1, <2>2, <2>6 DEF TodoSound, JudgedEvent, Draft
  <2>9. loc' = [ loc EXCEPT ![p] = new ]
    BY <1>3, <2>1, <2>6, <2>7
  <2>10. StateSound(new)' /\ new.pc = "append"
    BY <2>7, <2>8, StartsAppend
  <2>11. OnItsWay' => OnItsWay
    BY <2>9, <2>10, NoneSendsAnew
  <2>12. SentSound'
    BY <1>1, <2>3, <2>11, SentStays DEF IInv
  <2>13. EventsOf({"judgment_sealed"}) = {}
    BY <1>3 DEF IInv, ArtifactsSound
  <2>14. ArtifactsSound'
    <3>1. \A types : EventsOf(types)' = EventsOf(types)
      BY <1>1 DEF EventsOf
    <3>2. manifest # None => ManifestSound(manifest)'
      BY <1>1, <2>4 DEF IInv, ArtifactsSound, ManifestSound
    <3>3. JudgmentSound(judgment)'
      BY <1>1, <1>3, <2>1, <2>2 DEF JudgmentSound
    <3>4. SealsBind'
      BY <1>1, <2>13, <3>1 DEF SealsBind, IInv, ArtifactsSound
    <3> QED BY <1>1, <2>13, <3>1, <3>2, <3>3, <3>4 DEF IInv, ArtifactsSound
  <2>15. /\ loc' = [ q \in Procs |-> loc'[q] ]
         /\ \A q \in Procs : StateSound(loc[q])'
         /\ OneOwner'
    BY <1>1, <2>3, <2>4, <2>9, <2>10, CommandsSound DEF Owning
  <2> QED BY <2>4, <2>5, <2>12, <2>14, <2>15 DEF IInv
<1> QED BY <1>2, <1>3 DEF JudgeWrite, Start

-----------------------------------------------------------------------------
(* build_review_bundle.                                                    *)

LEMMA BundleStartSound ==
  ASSUME IInv, NEW p \in Procs, BundleStart(p)
  PROVE  IInv'
<1>1. CASE loc' = [ loc EXCEPT ![p] = [ Idle EXCEPT !.pc = "bundle_verify", !.n = Len(ledger) ] ]
  <2>1. PICK new : new = [ Idle EXCEPT !.pc = "bundle_verify", !.n = Len(ledger) ]
    OBVIOUS
  <2>2. IsState(new) /\ new.pc = "bundle_verify" /\ new.n = Len(ledger)
    BY <2>1 DEF Idle, IsState
  <2>3. StateSound(new)
    BY <2>2, Positions DEF StateSound, IsState, Steps, Owning, IInv
  <2>4. new.pc \notin Owning /\ new.pc # "send" /\ loc' = [ loc EXCEPT ![p] = new ]
    BY <1>1, <2>1, <2>2 DEF Owning
  <2> QED BY <2>3, <2>4, OnlyState DEF BundleStart
<1>2. CASE loc' = [ loc EXCEPT ![p] =
                      [ Idle EXCEPT !.pc = "append", !.todo = << ReviewEvent(bundle) >> ] ]
  <2>1. PICK todo : todo = << ReviewEvent(bundle) >>
    OBVIOUS
  <2>2. TodoSound(todo)
    <3>1. todo[1].ref = bundle
      BY <2>1 DEF ReviewEvent, Draft
    <3> QED BY <2>1, <3>1 DEF TodoSound
  <2>3. PICK new : new = [ Idle EXCEPT !.pc = "append", !.todo = todo ]
    OBVIOUS
  <2>4. StateSound(new) /\ new.pc = "append" /\ loc' = [ loc EXCEPT ![p] = new ]
    BY <1>2, <2>1, <2>2, <2>3, StartsAppend
  <2> QED BY <2>4, OnlyState DEF BundleStart, Owning
<1> QED BY <1>1, <1>2 DEF BundleStart, Start

LEMMA BundleVerifySound ==
  ASSUME IInv, NEW p \in Procs, BundleVerify(p)
  PROVE  IInv'
<1>1. CASE Finish(p)
  BY <1>1, FinishSound DEF BundleVerify
<1>2. CASE ~Finish(p)
  <2>1. PICK art : loc' = [ loc EXCEPT ![p] = [ Idle EXCEPT !.pc = "bundle_write", !.art = art ] ]
    BY <1>2 DEF BundleVerify, Start
  <2>2. PICK new : new = [ Idle EXCEPT !.pc = "bundle_write", !.art = art ]
    OBVIOUS
  <2>3. IsState(new) /\ new.pc = "bundle_write"
    BY <2>2 DEF Idle, IsState
  <2>4. StateSound(new)
    BY <2>3 DEF StateSound, IsState, Steps, Owning
  <2>5. new.pc \notin Owning /\ new.pc # "send" /\ loc' = [ loc EXCEPT ![p] = new ]
    BY <2>1, <2>2, <2>3 DEF Owning
  <2> QED BY <2>4, <2>5, OnlyState DEF BundleVerify
<1> QED BY <1>1, <1>2

LEMMA BundleWriteSound ==
  ASSUME IInv, NEW p \in Procs, BundleWrite(p)
  PROVE  IInv'
<1>1. UNCHANGED <<ledger, attempts, recs, blobs, manifest, judgment, sent>>
  BY DEF BundleWrite
<1>2. CASE bundle' = bundle /\ Finish(p)
  BY <1>1, <1>2, FinishSound DEF KeepDisk, disk
<1>3. CASE loc' = [ loc EXCEPT ![p] =
                      [ Idle EXCEPT !.pc = "append", !.todo = << ReviewEvent(loc[p].art) >> ] ]
  <2>1. PICK b : b = loc[p].art
    OBVIOUS
  <2>2. PICK todo : todo = << ReviewEvent(b) >>
    OBVIOUS
  <2>3. TodoSound(todo)'
    <3>1. todo[1].ref = b
      BY <2>2 DEF ReviewEvent, Draft
    <3> QED BY <2>2, <3>1 DEF TodoSound, ReviewEvent, Draft
  <2>4. PICK new : new = [ Idle EXCEPT !.pc = "append", !.todo = todo ]
    OBVIOUS
  <2>5. StateSound(new)' /\ new.pc = "append"
    BY <2>3, <2>4, StartsAppend
  <2>6. new.pc \notin Owning /\ new.pc # "send" /\ loc' = [ loc EXCEPT ![p] = new ]
    BY <1>3, <2>1, <2>2, <2>4, <2>5 DEF Owning
  <2>7. Grows
    BY <1>1, Positions DEF Grows, Once, IInv
  <2>8. EvidenceSound'
    BY <1>1, EvidenceStays DEF IInv, EvidenceSound
  <2> QED BY <1>1, <2>5, <2>6, <2>7, <2>8, WriteSound
<1> QED BY <1>2, <1>3 DEF BundleWrite, Start

-----------------------------------------------------------------------------
(* The specification keeps the invariant.                                  *)

LEMMA InitSound == Init => IInv
<1> SUFFICES ASSUME Init PROVE IInv
  OBVIOUS
<1>1. PICK first : first = [ type |-> "execution_authorization_bound", from |-> "locked",
                             to |-> "execution_authorized", att |-> 0, dig |-> None, ref |-> None ]
  OBVIOUS
<1>2. /\ ledger = << first >> /\ DOMAIN ledger = {1} /\ ledger[1] = first
      /\ State = "execution_authorized"
  BY <1>1 DEF Init, State
<1>3. \A types : "execution_authorization_bound" \notin types => EventsOf(types) = {}
  BY <1>1, <1>2 DEF EventsOf
<1>4. attempts = <<>> /\ DOMAIN attempts = {} /\ Len(attempts) = 0
  BY DEF Init
<1>5. recs = <<>> /\ sent = <<>> /\ DOMAIN sent = {} /\ Len(sent) = 0 /\ blobs = {}
      /\ manifest = None /\ judgment = None
  BY DEF Init
<1>6. LedgerSound
  <2>1. ledger \in Seq({first}) /\ {ledger[i] : i \in DOMAIN ledger} = {first} /\ ledger # <<>>
    BY <1>2
  <2>2. first.to \in Life!States /\ first.dig = None /\ State \in StatesAfter(first.type)
    BY <1>1, <1>2 DEF Life!States, StatesAfter, SealTypes, Authorized
  <2> QED BY <1>2, <2>1, <2>2 DEF LedgerSound
<1>7. EvidenceSound
  <2>1. EventsOf({"capture_completed"}) = {} /\ EventsOf({"capture_interrupted"}) = {}
    BY <1>3
  <2>2. attempts \in Seq(StoredAttempts) /\ recs \in Seq(Recovery)
    BY <1>4, <1>5
  <2>3. CapturedEvidence
    BY <2>1 DEF CapturedEvidence
  <2> QED BY <1>4, <1>5, <2>1, <2>2, <2>3, PolicyAssumption DEF EvidenceSound
<1>8. \A p \in Procs : loc[p] = Idle /\ loc[p].pc = "idle"
  BY DEF Init, Idle
<1>9. SentSound
  <2>1. ~OnItsWay
    BY <1>8 DEF OnItsWay, At
  <2>2. Cardinality(Resumptions) \in Nat
    BY <1>6, ResumptionsCounted
  <2>3. DispatchDiscipline
    BY <1>5, <2>2, PolicyAssumption DEF DispatchDiscipline
  <2>4. sent \in Seq(DOMAIN attempts)
    BY <1>5
  <2> QED BY <1>2, <1>5, <2>1, <2>2, <2>3, <2>4 DEF SentSound
<1>10. ArtifactsSound
  <2>1. EventsOf(SealTypes) = {} /\ EventsOf({"judgment_sealed"}) = {}
    BY <1>3 DEF SealTypes
  <2>2. SealsBind
    BY <2>1 DEF SealsBind, SealTypes
  <2> QED BY <1>5, <2>1, <2>2 DEF ArtifactsSound
<1>11. \A p \in Procs : StateSound(loc[p])
  BY <1>8, IdleSound
<1>12. loc = [ p \in Procs |-> loc[p] ]
  BY DEF Init
<1>13. OneOwner
  BY <1>8 DEF OneOwner, Owning
<1> QED BY <1>6, <1>7, <1>9, <1>10, <1>11, <1>12, <1>13 DEF IInv

LEMMA StutterSound ==
  ASSUME IInv, UNCHANGED vars
  PROVE  IInv'
<1>1. KeepDisk /\ sent' = sent /\ loc' = loc
  BY DEF vars, KeepDisk, disk
<1>2. LedgerSound /\ EvidenceSound /\ SentSound /\ ArtifactsSound
  BY DEF IInv
<1>3. Grows /\ LedgerSound' /\ EvidenceSound' /\ ArtifactsSound'
  BY <1>1, <1>2, SameDisk
<1>4. OnItsWay' => OnItsWay
  BY <1>1 DEF OnItsWay, At
<1>5. SentSound'
  BY <1>1, <1>2, <1>4, SameSent
<1>6. ASSUME NEW me, StateSound(me) PROVE StateSound(me)'
  <2>1. me.pc = "seal_write" => ManifestSound(me.art)'
    BY <1>1, <1>2, <1>6, SameDisk DEF StateSound
  <2> QED BY <1>1, <1>2, <1>3, <1>6, <2>1, CommandStays DEF KeepDisk, disk
<1>7. \A p \in Procs : StateSound(loc[p])'
  <2>1. ASSUME NEW p \in Procs PROVE StateSound(loc[p])'
    <3>1. PICK me : me = loc[p]
      OBVIOUS
    <3>2. StateSound(me)'
      BY <1>6, <3>1 DEF IInv
    <3> QED BY <1>1, <3>1, <3>2
  <2> QED BY <2>1
<1>8. loc' = [ p \in Procs |-> loc'[p] ] /\ OneOwner'
  BY <1>1 DEF IInv, OneOwner
<1> QED BY <1>3, <1>5, <1>7, <1>8 DEF IInv

\* A transition of one command, by what the command does.
LEMMA StepSound ==
  ASSUME IInv, Next
  PROVE  IInv'
<1>1. PICK p \in Procs : StartCommand(p) \/ Step(p) \/ Answer(p) \/ Kill(p)
  BY DEF Next
<1>2. CASE StartCommand(p)
  <2>1. CASE Recover(p)
    BY <2>1, RecoverResumeSound, RecoverStartSound DEF Recover
  <2>2. CASE CaptureStart(p) \/ SealStart(p) \/ JudgeStart(p) \/ BundleStart(p)
    BY <2>2, CaptureStartSound, SealStartSound, JudgeStartSound, BundleStartSound
  <2> QED BY <1>2, <2>1, <2>2 DEF StartCommand
<1>3. CASE Step(p)
  <2>1. CASE CaptureBegin(p) \/ CaptureReconcile(p) \/ CaptureCreate(p) \/ CaptureScanRefused(p)
    BY <2>1, CaptureBeginSound, CaptureReconcileSound, CaptureCreateSound, ScanRefusedSound
  <2>2. CASE CaptureRequest(p) \/ CaptureRequestEvent(p) \/ CaptureSend(p) \/ CaptureReuse(p)
    BY <2>2, CaptureRequestSound, CaptureRequestEventSound, CaptureSendSound, CaptureReuseSound
  <2>3. CASE CaptureRecord(p) \/ AppendNext(p)
    BY <2>3, CaptureRecordSound, AppendNextSound
  <2>4. CASE RecoverRecord(p) \/ RecoverCheck(p) \/ RecoverAppend(p)
    BY <2>4, RecoverRecordSound, RecoverCheckSound, RecoverAppendSound
  <2>5. CASE SealWrite(p) \/ JudgeWrite(p) \/ BundleVerify(p) \/ BundleWrite(p)
    BY <2>5, SealWriteSound, JudgeWriteSound, BundleVerifySound, BundleWriteSound
  <2> QED BY <1>3, <2>1, <2>2, <2>3, <2>4, <2>5 DEF Step
<1>4. CASE Answer(p)
  BY <1>4, CaptureAnswerSound DEF Answer
<1>5. CASE Kill(p)
  BY <1>5, FinishSound DEF Kill
<1> QED BY <1>1, <1>2, <1>3, <1>4, <1>5

-----------------------------------------------------------------------------
(* What a step may do to the files of a run.                               *)

AttemptsKept ==
  \A n \in DOMAIN attempts :
     /\ n \in DOMAIN attempts'
     /\ attempts[n].request => attempts'[n].request
     /\ Once(attempts[n].record, attempts'[n].record)

Advances ==
  /\ ledger' = ledger \/ \E e : Legal(e) /\ Publish(e)
  /\ recs' = recs \/ \E r : recs' = Append(recs, r)
  /\ blobs \subseteq blobs'
  /\ AttemptsKept
  /\ Once(manifest, manifest') /\ Once(judgment, judgment') /\ Once(bundle, bundle')

\* Steps that leave the files alone.
LEMMA SameAdvances == UNCHANGED disk => Advances
  BY DEF disk, Advances, AttemptsKept, Once

LEMMA BeginsLegally ==
  ASSUME LedgerSound, NEW p \in Procs, CaptureBegin(p)
  PROVE  ledger' = ledger \/ \E e : Legal(e) /\ Publish(e)
<1>1. \A u \in Life!TransitionEvents : u = <<u[1], u[2], u[3]>>
  BY DEF Life!TransitionEvents
<1>2. CASE \E type \in { t[3] : t \in { u \in Life!TransitionEvents : u[1] = State /\ u[2] = "capturing" } } :
             Publish(Draft(type, "capturing", 1, None, None))
  <2>1. PICK type : /\ <<State, "capturing", type>> \in Life!TransitionEvents
                    /\ Publish(Draft(type, "capturing", 1, None, None))
    BY <1>1, <1>2
  <2>2. PICK e : e = Draft(type, "capturing", 1, None, None)
    OBVIOUS
  <2>3. Legal(e) /\ Publish(e)
    BY <2>1, <2>2, NoneAssumption DEF Draft, Legal, Life!States
  <2> QED BY <2>3
<1> QED BY <1>2 DEF CaptureBegin

LEMMA CreateKeeps ==
  ASSUME IInv, NEW p \in Procs, CaptureCreate(p)
  PROVE  AttemptsKept
<1>1. PICK a : a = [ request |-> FALSE, record |-> None ]
  OBVIOUS
<1>2. a \in StoredAttempts /\ attempts \in Seq(StoredAttempts) /\ attempts' = Append(attempts, a)
  BY <1>1 DEF StoredAttempts, CaptureCreate, IInv, EvidenceSound
<1>3. /\ attempts' \in Seq(StoredAttempts) /\ Len(attempts') = Len(attempts) + 1
      /\ \A n \in 1 .. Len(attempts) : attempts'[n] = attempts[n]
  BY <1>2, AppendProperties
<1>4. \A n \in DOMAIN attempts : n \in DOMAIN attempts' /\ attempts'[n] = attempts[n]
  BY <1>2, <1>3, LenProperties
<1> QED BY <1>4 DEF AttemptsKept, Once

LEMMA OwnerKeeps ==
  ASSUME IInv, NEW p \in Procs, CaptureRequest(p) \/ CaptureRecord(p)
  PROVE  AttemptsKept
<1>1. PICK n : n = loc[p].n
  OBVIOUS
<1>2. n \in DOMAIN attempts /\ attempts[n].record = None
  BY <1>1, Owns DEF CaptureRequest, CaptureRecord, At, Owning
<1>3. attempts[n] \in StoredAttempts
  BY <1>2, AttemptPositions, ElementOfSeq DEF IInv, EvidenceSound
<1>4. PICK a : /\ a = [ attempts[n] EXCEPT !.request = TRUE ]
                  \/ \E r : a = [ attempts[n] EXCEPT !.record = r ]
               /\ attempts' = [ attempts EXCEPT ![n] = a ]
  <2>1. CASE CaptureRequest(p)
    BY <1>1, <2>1 DEF CaptureRequest
  <2>2. CASE CaptureRecord(p)
    <3>1. PICK r : attempts' = [ attempts EXCEPT ![n].record = r ]
      BY <1>1, <2>2 DEF CaptureRecord
    <3> QED BY <3>1
  <2> QED BY <2>1, <2>2
<1>5. attempts[n].request => a.request
  BY <1>3, <1>4 DEF StoredAttempts
<1>6. DOMAIN attempts' = DOMAIN attempts /\ attempts'[n] = a
      /\ \A m \in DOMAIN attempts \ {n} : attempts'[m] = attempts[m]
  BY <1>2, <1>4
<1> QED BY <1>2, <1>5, <1>6 DEF AttemptsKept, Once

\* Every step appends at most one legal event, and keeps what there is.
LEMMA StepAdvances ==
  ASSUME IInv, [Next]_vars
  PROVE  Advances
<1>1. CASE UNCHANGED vars
  BY <1>1, SameAdvances DEF vars, disk
<1>2. CASE Next
  <2>1. PICK p \in Procs : StartCommand(p) \/ Step(p) \/ Answer(p) \/ Kill(p)
    BY <1>2 DEF Next
  <2>2. CASE KeepDisk
    BY <2>2, SameAdvances DEF KeepDisk
  <2>3. CASE CaptureBegin(p)
    BY <2>3, BeginsLegally DEF IInv, CaptureBegin, Advances, AttemptsKept, Once
  <2>4. CASE CaptureCreate(p)
    BY <2>4, CreateKeeps DEF CaptureCreate, Advances, Once
  <2>5. CASE CaptureRequest(p) \/ CaptureRecord(p)
    BY <2>5, OwnerKeeps DEF CaptureRequest, CaptureRecord, Advances, Once
  <2>6. CASE CaptureRequestEvent(p) \/ CaptureReuse(p) \/ AppendNext(p) \/ RecoverAppend(p)
    <3>1. UNCHANGED <<attempts, recs, blobs, manifest, judgment, bundle>>
      BY <2>6 DEF CaptureRequestEvent, CaptureReuse, AppendNext, RecoverAppend
    <3>2. ledger' = ledger \/ \E e : Legal(e) /\ Publish(e)
      BY <2>6 DEF CaptureRequestEvent, CaptureReuse, AppendNext, RecoverAppend
    <3> QED BY <3>1, <3>2 DEF Advances, AttemptsKept, Once
  <2>7. CASE Answer(p)
    BY <2>7 DEF Answer, CaptureAnswer, Advances, AttemptsKept, Once
  <2>8. CASE Recover(p)
    <3>1. UNCHANGED <<ledger, attempts, recs, manifest, judgment, bundle>> /\ blobs \subseteq blobs'
      BY <2>8 DEF Recover, RecoverResume, RecoverStart, KeepDisk, disk
    <3> QED BY <3>1 DEF Advances, AttemptsKept, Once
  <2>9. CASE RecoverRecord(p)
    BY <2>9 DEF RecoverRecord, Advances, AttemptsKept, Once
  <2>10. CASE SealWrite(p)
    BY <2>10 DEF SealWrite, Advances, AttemptsKept, Once
  <2>11. CASE JudgeWrite(p)
    BY <2>11 DEF JudgeWrite, Advances, AttemptsKept, Once
  <2>12. CASE BundleWrite(p)
    BY <2>12 DEF BundleWrite, Advances, AttemptsKept, Once
  <2>13. CASE \/ CaptureStart(p) \/ SealStart(p) \/ JudgeStart(p) \/ BundleStart(p) \/ Kill(p)
              \/ CaptureReconcile(p) \/ CaptureScanRefused(p) \/ CaptureSend(p)
              \/ RecoverCheck(p) \/ BundleVerify(p)
    <3>1. KeepDisk
      BY <2>13 DEF CaptureStart, SealStart, JudgeStart, BundleStart, Kill, CaptureReconcile,
                   CaptureScanRefused, CaptureSend, RecoverCheck, BundleVerify
    <3> QED BY <2>2, <3>1
  <2> QED BY <2>1, <2>3, <2>4, <2>5, <2>6, <2>7, <2>8, <2>9, <2>10, <2>11, <2>12, <2>13
          DEF StartCommand, Step
<1> QED BY <1>1, <1>2

LEMMA AppendExtends ==
  ASSUME NEW S, NEW s \in Seq(S), NEW t, t = s \/ \E x : t = Append(s, x)
  PROVE  IsPrefix(s, t)
<1>1. CASE t = s
  <2>1. Len(s) \in Nat
    BY LenProperties
  <2> QED BY <1>1, <2>1 DEF IsPrefix
<1>2. CASE \E x : t = Append(s, x)
  <2>1. PICK x : t = Append(s, x)
    BY <1>2
  <2>2. PICK T : T = S \cup {x}
    OBVIOUS
  <2>3. s \in Seq(T) /\ x \in T
    BY <2>2, SeqMonotonic
  <2>4. /\ t \in Seq(T) /\ Len(t) = Len(s) + 1 /\ Len(s) \in Nat
        /\ \A i \in 1 .. Len(s) : t[i] = s[i]
    BY <2>1, <2>3, AppendProperties, LenProperties
  <2>5. \A i \in 1 .. Len(s) : s[i] \in T /\ t[i] \in T
    BY <2>3, <2>4, ElementOfSeq
  <2>6. PICK a, b : a = SubSeq(s, 1, Len(s)) /\ b = SubSeq(t, 1, Len(s))
    OBVIOUS
  <2>7. /\ a \in Seq(T) /\ Len(a) = Len(s)
        /\ \A i \in 1 .. Len(s) : a[i] = s[i]
    BY <2>4, <2>5, <2>6, SubSeqProperties
  <2>8. /\ b \in Seq(T) /\ Len(b) = Len(s)
        /\ \A i \in 1 .. Len(s) : b[i] = t[i]
    BY <2>4, <2>5, <2>6, SubSeqProperties
  <2>9. a = b
    BY <2>4, <2>7, <2>8, SeqEqual
  <2> QED BY <2>4, <2>6, <2>9 DEF IsPrefix
<1> QED BY <1>1, <1>2

-----------------------------------------------------------------------------
(* The theorems.                                                           *)

\* IInv holds of every behaviour of the commands.
THEOREM RunInvariant == Spec => []IInv
<1>1. IInv /\ [Next]_vars => IInv'
  BY StepSound, StutterSound
<1> QED BY InitSound, <1>1, PTL DEF Spec

\* Variables keep their types, an attempt is recorded only after its request, and the
\* ledger names no recovery record that is not stored.
THEOREM TypeCorrect == Spec => []TypeOK
<1>1. IInv => TypeOK
  <2> SUFFICES ASSUME IInv PROVE TypeOK
    OBVIOUS
  <2>1. LedgerSound /\ EvidenceSound /\ SentSound
    BY DEF IInv
  <2>2. \A n \in DOMAIN attempts : attempts[n] \in StoredAttempts
    BY <2>1, AttemptPositions, ElementOfSeq DEF EvidenceSound
  <2>3. Range(recs) \subseteq Recovery
    <3>1. \A i \in DOMAIN recs : recs[i] \in Recovery
      BY <2>1, ElementOfSeq, LenProperties DEF EvidenceSound
    <3> QED BY <3>1 DEF Range
  <2>4. Range(sent) \subseteq DOMAIN attempts
    <3>1. \A i \in DOMAIN sent : sent[i] \in DOMAIN attempts
      BY <2>1, ElementOfSeq, LenProperties DEF SentSound
    <3> QED BY <3>1 DEF Range
  <2>5. \A todo : TodoSound(todo) => todo # <<>>
    BY DEF TodoSound
  <2>6. \A p \in Procs : loc[p].pc \in Steps /\ (loc[p].pc = "append" => loc[p].todo # <<>>)
    BY <2>5 DEF IInv, StateSound
  <2>7. \A n \in DOMAIN attempts :
          /\ attempts[n].request \in BOOLEAN
          /\ attempts[n].record # None => attempts[n].request /\ attempts[n].record \in AttemptRecord
    BY <2>1, <2>2 DEF EvidenceSound, StoredAttempts
  <2> QED BY <2>1, <2>3, <2>4, <2>6, <2>7 DEF TypeOK, LedgerSound, EvidenceSound
<1> QED BY <1>1, RunInvariant, PTL

\* No request is sent twice or unannounced, and none beyond the authorised budget.
THEOREM DispatchAlwaysDisciplined == Spec => []DispatchDiscipline
<1>1. IInv => DispatchDiscipline
  BY DEF IInv, SentSound
<1> QED BY <1>1, RunInvariant, PTL

\* A run said to be captured has the bytes, recorded before it was said.
THEOREM AlwaysCapturedEvidence == Spec => []CapturedEvidence
<1>1. IInv => CapturedEvidence
  BY DEF IInv, EvidenceSound
<1> QED BY <1>1, RunInvariant, PTL

\* Seals bind the one manifest, and judgments its complete response, whoever races.
THEOREM SealsAlwaysBind == Spec => []SealsBind
<1>1. IInv => SealsBind
  BY DEF IInv, ArtifactsSound
<1> QED BY <1>1, RunInvariant, PTL

\* No step removes or rewrites evidence.
THEOREM AlwaysAppendOnly == Spec => EvidenceAppendOnly
<1>1. ASSUME IInv, [Next]_vars
      PROVE  /\ IsPrefix(ledger, ledger')
             /\ IsPrefix(recs, recs')
             /\ blobs \subseteq blobs'
             /\ \A n \in DOMAIN attempts :
                  /\ n \in DOMAIN attempts'
                  /\ attempts[n].request => attempts'[n].request
                  /\ Once(attempts[n].record, attempts'[n].record)
             /\ Once(manifest, manifest')
             /\ Once(judgment, judgment')
             /\ Once(bundle, bundle')
  <2>1. Advances
    BY <1>1, StepAdvances
  <2>2. IsPrefix(ledger, ledger')
    <3>1. ledger' = ledger \/ \E x : ledger' = Append(ledger, x)
      BY <2>1 DEF Advances, Publish
    <3>2. ledger \in Seq({ ledger[i] : i \in DOMAIN ledger })
      BY <1>1 DEF IInv, LedgerSound
    <3> QED BY <3>1, <3>2, AppendExtends
  <2>3. IsPrefix(recs, recs')
    <3>1. recs \in Seq(Recovery)
      BY <1>1 DEF IInv, EvidenceSound
    <3>2. recs' = recs \/ \E x : recs' = Append(recs, x)
      BY <2>1 DEF Advances
    <3> QED BY <3>1, <3>2, AppendExtends
  <2> QED BY <2>1, <2>2, <2>3 DEF Advances, AttemptsKept
<1> QED BY <1>1, RunInvariant, PTL DEF Spec, EvidenceAppendOnly

\* However many commands race or are killed, the state moves along the table.
THEOREM Refinement == Spec => ImplementsLifecycle
<1>1. Init => Life!Init
  BY DEF Init, State, Life!Init
<1>2. IInv /\ [Next]_vars => [Life!Next]_State
  <2> SUFFICES ASSUME IInv, [Next]_vars PROVE [Life!Next]_State
    OBVIOUS
  <2>1. CASE ledger' = ledger
    BY <2>1 DEF State
  <2>2. ASSUME NEW e, Legal(e), Publish(e) PROVE [Life!Next]_State
    <3>1. State' = To(e)
      BY <2>2, PublishAppends DEF IInv, Appended
    <3>2. CASE e.to = None
      BY <3>1, <3>2 DEF To
    <3>3. CASE e.to # None
      <4>1. <<State, State', e.type>> \in Life!TransitionEvents
        BY <2>2, <3>1, <3>3 DEF To, Legal
      <4> QED BY <4>1 DEF Life!Next, Life!Move
    <3> QED BY <3>2, <3>3
  <2> QED BY <2>1, <2>2, StepAdvances DEF Advances
<1> QED BY <1>1, <1>2, RunInvariant, PTL DEF Spec, ImplementsLifecycle, Life!Spec
----------------------------------------------------------------

-----------------------------------------------------------------------------
(* One command at a time.                                                  *)

OneCommand == \A p, q \in Procs : p = q

Alike(e, f) == e.type = f.type /\ e.att = f.att /\ e.dig = f.dig /\ e.ref = f.ref

\* No event of a recovery is there twice, no two records lack events, and the
\* run is only ever resumed for a record that says so.
RecoveriesSound ==
  /\ \A i, j \in DOMAIN ledger : ledger[i].dig # None /\ Alike(ledger[i], ledger[j]) => i = j
  /\ \A i, j \in IncompleteRecoveries : i = j
  /\ \A i \in Resumptions :
       /\ ledger[i].att = 0 /\ ledger[i].ref = None
       /\ ledger[i].dig \in Range(recs) /\ ledger[i].dig.action = "resume"

Recovering(me) ==
  /\ me.pc = "begin" => State = "execution_authorized"
  /\ me.pc = "recovery_record" => IncompleteRecoveries = {}
  /\ me.pc = "recovery_append" => ~Present(RecoveryEvents(me.rec)[me.n])

RecInv == RecoveriesSound /\ \A p \in Procs : Recovering(loc[p])

\* An event that belongs to no recovery.
Quiet(e) == e.dig = None /\ e.type # "capture_resumed"

LEMMA NoRecordIsNone == \A r \in Recovery : r # None
  BY NoneAssumption

LEMMA RecordsAreRecoveries ==
  ASSUME EvidenceSound
  PROVE  /\ \A i \in DOMAIN recs : recs[i] \in Recovery
         /\ \A r \in Range(recs) : r \in Recovery /\ r # None
<1>1. \A i \in DOMAIN recs : recs[i] \in Recovery
  BY ElementOfSeq, LenProperties DEF EvidenceSound
<1> QED BY <1>1, NoRecordIsNone DEF Range

\* What an appended event makes present stays so; nothing else becomes present.
LEMMA PlacesAfter ==
  ASSUME LedgerSound, NEW e, Appended(e)
  PROVE  /\ \A f : Places(f) \subseteq Places(f)'
         /\ \A f : Present(f) => Present(f)'
         /\ \A f : Places(f)' \subseteq Places(f) \cup {Len(ledger) + 1}
<1>1. \A f : Places(f) \subseteq Places(f)'
  BY Positions DEF Appended, Places
<1>2. \A f : Places(f)' \subseteq Places(f) \cup {Len(ledger) + 1}
  BY Positions DEF Appended, Places
<1> QED BY <1>1, <1>2 DEF Present

LEMMA IncompleteAfter ==
  ASSUME LedgerSound, NEW e, Appended(e), recs' = recs
  PROVE  IncompleteRecoveries' \subseteq IncompleteRecoveries
<1>1. \A r : RecoveryComplete(r) => RecoveryComplete(r)'
  <2> SUFFICES ASSUME NEW r, RecoveryComplete(r), NEW f \in Range(RecoveryEvents(r))
               PROVE  Present(f)'
    BY DEF RecoveryComplete, RecoveryEvents, Occurrence, Draft
  <2>1. Present(f)
    BY DEF RecoveryComplete
  <2> QED BY <2>1, PlacesAfter
<1> QED BY <1>1 DEF IncompleteRecoveries

\* Neither a quiet event nor one that was not there makes two of a kind.
LEMMA AppendedRecoveries ==
  ASSUME LedgerSound, EvidenceSound, RecoveriesSound, NEW e, Appended(e), recs' = recs,
         \/ Quiet(e)
         \/ \E r \in Range(recs) : e \in RecoveryDrafts(r) /\ ~Present(e)
  PROVE  RecoveriesSound'
<1>1. ASSUME NEW i \in DOMAIN ledger', NEW j \in DOMAIN ledger',
             ledger'[i].dig # None, Alike(ledger'[i], ledger'[j])
      PROVE  i = j
  <2>1. CASE i \in DOMAIN ledger /\ j \in DOMAIN ledger
    BY <1>1, <2>1 DEF RecoveriesSound, Appended
  <2>2. CASE i = Len(ledger) + 1 /\ j = Len(ledger) + 1
    BY <2>2
  <2>3. ASSUME NEW k \in DOMAIN ledger, NEW new, new = Len(ledger) + 1,
               Alike(ledger'[k], ledger'[new]), ledger'[k].dig # None
        PROVE  FALSE
    <3>1. e.dig # None
      BY <2>3 DEF Appended, Alike
    <3>2. ~Present(e)
      BY <3>1 DEF Quiet
    <3>3. k \in Places(e)
      BY <2>3 DEF Appended, Alike, Places
    <3> QED BY <3>2, <3>3 DEF Present
  <2>4. CASE i \in DOMAIN ledger /\ j = Len(ledger) + 1
    BY <1>1, <2>3, <2>4
  <2>5. CASE j \in DOMAIN ledger /\ i = Len(ledger) + 1
    BY <1>1, <2>3, <2>5 DEF Alike
  <2>6. \A k \in DOMAIN ledger' : k \in DOMAIN ledger \/ k = Len(ledger) + 1
    BY Positions DEF Appended
  <2> QED BY <2>1, <2>2, <2>4, <2>5, <2>6
<1>2. \A i, j \in IncompleteRecoveries' : i = j
  BY IncompleteAfter DEF RecoveriesSound
<1>3. ASSUME NEW i \in Resumptions'
      PROVE  /\ ledger'[i].att = 0 /\ ledger'[i].ref = None
             /\ ledger'[i].dig \in Range(recs) /\ ledger'[i].dig.action = "resume"
  <2>1. CASE i \in DOMAIN ledger
    <3>1. i \in Resumptions
      BY <1>3, <2>1 DEF Resumptions, EventsOf, Appended
    <3> QED BY <2>1, <3>1 DEF Appended, RecoveriesSound
  <2>2. CASE i = Len(ledger) + 1
    <3>1. e.type = "capture_resumed"
      BY <1>3, <2>2 DEF Resumptions, EventsOf, Appended
    <3>2. PICK r \in Range(recs) : e \in RecoveryDrafts(r)
      BY <3>1 DEF Quiet
    <3>3. e.att = 0 /\ e.dig = r /\ e.ref = None /\ r.action = "resume"
      BY <3>1, <3>2 DEF RecoveryDrafts
    <3> QED BY <2>2, <3>3 DEF Appended
  <2>3. i \in DOMAIN ledger \/ i = Len(ledger) + 1
    BY <1>3, Positions DEF Appended, Resumptions, EventsOf
  <2> QED BY <2>1, <2>2, <2>3
<1>4. \A i, j \in DOMAIN ledger' :
         ledger'[i].dig # None /\ Alike(ledger'[i], ledger'[j]) => i = j
  BY <1>1
<1> QED BY <1>2, <1>3, <1>4 DEF RecoveriesSound, Alike

LEMMA SameRecoveries ==
  ASSUME ledger' = ledger, recs' = recs
  PROVE  /\ RecoveriesSound => RecoveriesSound'
         /\ IncompleteRecoveries' = IncompleteRecoveries
         /\ \A f : Present(f)' <=> Present(f)
<1>1. \A f : Present(f)' <=> Present(f)
  BY DEF Present, Places
<1>2. \A r : RecoveryComplete(r)' <=> RecoveryComplete(r)
  BY <1>1 DEF RecoveryComplete, RecoveryEvents, Occurrence, Draft
<1>3. IncompleteRecoveries' = IncompleteRecoveries
  BY <1>2 DEF IncompleteRecoveries
<1>4. Resumptions' = Resumptions
  BY DEF Resumptions, EventsOf
<1> QED BY <1>1, <1>3, <1>4 DEF RecoveriesSound, Alike

\* A new record is the only one that lacks events.
LEMMA RecordedRecoveries ==
  ASSUME EvidenceSound, RecoveriesSound, ledger' = ledger, NEW r \in Recovery,
         recs' = Append(recs, r), IncompleteRecoveries = {}
  PROVE  RecoveriesSound'
<1>1. /\ recs' \in Seq(Recovery) /\ Len(recs') = Len(recs) + 1 /\ Len(recs) \in Nat
      /\ DOMAIN recs = 1 .. Len(recs) /\ DOMAIN recs' = 1 .. Len(recs) + 1
      /\ \A i \in 1 .. Len(recs) : recs'[i] = recs[i]
  BY AppendProperties, LenProperties DEF EvidenceSound
<1>2. \A f : Present(f)' <=> Present(f)
  BY DEF Present, Places
<1>3. \A x : RecoveryComplete(x)' <=> RecoveryComplete(x)
  BY <1>2 DEF RecoveryComplete, RecoveryEvents, Occurrence, Draft
<1>4. \A i \in IncompleteRecoveries' : i = Len(recs) + 1
  <2> SUFFICES ASSUME NEW i \in IncompleteRecoveries', i # Len(recs) + 1 PROVE FALSE
    OBVIOUS
  <2>1. i \in DOMAIN recs' /\ ~RecoveryComplete(recs[i])'
    BY DEF IncompleteRecoveries
  <2>2. i \in DOMAIN recs /\ recs'[i] = recs[i]
    BY <1>1, <2>1
  <2>3. i \in IncompleteRecoveries
    BY <1>3, <2>1, <2>2 DEF IncompleteRecoveries
  <2> QED BY <2>3
<1>5. Range(recs) \subseteq Range(recs')
  BY <1>1 DEF Range
<1>6. Resumptions' = Resumptions
  BY DEF Resumptions, EventsOf
<1> QED BY <1>4, <1>5, <1>6 DEF RecoveriesSound, Alike

-----------------------------------------------------------------------------
(* Where a step takes its command.                                         *)

LEMMA Landing ==
  ASSUME IInv, NEW p \in Procs
  PROVE  /\ \A step : Goto(p, step) => loc'[p].pc = step
         /\ \A new : Start(p, new) => loc'[p] = new
         /\ Finish(p) => loc'[p] = Idle
<1>1. IsState(loc[p]) /\ loc = [ q \in Procs |-> loc[q] ]
  BY DEF IInv, StateSound, IsState
<1>2. \A new : loc' = [ loc EXCEPT ![p] = new ] => loc'[p] = new
  BY <1>1
<1>3. \A step : Goto(p, step) => loc'[p].pc = step
  BY GoesTo, <1>2
<1> QED BY <1>2, <1>3 DEF Start, Finish

LEMMA HeadQuiet ==
  ASSUME NEW todo, TodoSound(todo)
  PROVE  Quiet(Head(todo)) /\ Head(todo).type # "request_preserved"
<1>1. CASE \E n, t : /\ t \in {"attempt_interrupted", "metadata_rejected"}
                     /\ todo = << AttemptEvent(t, n), InterruptedEvent(n) >>
  <2>1. PICK n, t : /\ t \in {"attempt_interrupted", "metadata_rejected"}
                    /\ todo = << AttemptEvent(t, n), InterruptedEvent(n) >>
    BY <1>1
  <2>2. Head(todo) = AttemptEvent(t, n)
    BY <2>1
  <2> QED BY <2>1, <2>2 DEF Quiet, AttemptEvent, Occurrence, Draft
<1>2. CASE \E n : todo = << InterruptedEvent(n) >> \/ todo = << CapturedEvent(n) >>
  BY <1>2 DEF Quiet, InterruptedEvent, CapturedEvent, Draft
<1>3. CASE \E n, b : todo = << ResponseEvent(n, b), CapturedEvent(n) >>
  <2>1. PICK n, b : todo = << ResponseEvent(n, b), CapturedEvent(n) >>
    BY <1>3
  <2>2. Head(todo) = ResponseEvent(n, b)
    BY <2>1
  <2> QED BY <2>2 DEF Quiet, ResponseEvent, Occurrence, Draft
<1>4. CASE \E m : todo = << SealEvent(m) >> \/ todo = << JudgedEvent(m) >> \/ todo = << ReviewEvent(m) >>
  BY <1>4 DEF Quiet, SealEvent, JudgedEvent, ReviewEvent, Draft
<1> QED BY <1>1, <1>2, <1>3, <1>4 DEF TodoSound

\* Steps at which the invariant says something of the recoveries.
Watched == {"begin", "recovery_record", "recovery_append"}

LEMMA RecoveringAfter ==
  ASSUME OneCommand, NEW p \in Procs, loc'[p].pc \notin Watched
  PROVE  \A q \in Procs : Recovering(loc[q])'
<1>1. \A q \in Procs : loc'[q] = loc'[p]
  BY DEF OneCommand
<1> QED BY <1>1 DEF Recovering, Watched

LEMMA ReadStepRecovers ==
  ASSUME IInv, OneCommand, RecInv, NEW p \in Procs,
         \/ CaptureStart(p) \/ Recover(p) \/ SealStart(p) \/ JudgeStart(p) \/ BundleStart(p)
         \/ Kill(p)
  PROVE  RecInv'
<1>1. ledger' = ledger /\ recs' = recs
  BY DEF CaptureStart, Recover, RecoverResume, RecoverStart, SealStart, JudgeStart, BundleStart,
         Kill, KeepDisk, disk
<1>2. RecoveriesSound' /\ IncompleteRecoveries' = IncompleteRecoveries
  BY <1>1, SameRecoveries DEF RecInv
<1>3. CASE loc'[p].pc \notin Watched
  BY <1>2, <1>3, RecoveringAfter DEF RecInv
<1>4. CASE loc'[p].pc = "begin" /\ State = "execution_authorized"
  <2>1. \A q \in Procs : loc'[q].pc = "begin"
    BY <1>4 DEF OneCommand
  <2>2. State' = "execution_authorized"
    BY <1>1, <1>4 DEF State
  <2> QED BY <1>2, <2>1, <2>2 DEF RecInv, Recovering
<1>5. CASE loc'[p].pc = "recovery_record" /\ IncompleteRecoveries = {}
  <2>1. \A q \in Procs : loc'[q].pc = "recovery_record"
    BY <1>5 DEF OneCommand
  <2> QED BY <1>2, <1>5, <2>1 DEF RecInv, Recovering
<1>6. CASE CaptureStart(p)
  BY <1>3, <1>4, <1>6, Landing DEF CaptureStart, Watched
<1>7. CASE Recover(p)
  <2>1. PICK action \in Actions, reason \in Reasons, partial \in Partials :
          \/ RecoverResume(p, action, reason, partial)
          \/ \E time \in Times : RecoverStart(p, action, reason, time, partial)
    BY <1>7 DEF Recover
  <2>2. CASE RecoverResume(p, action, reason, partial)
    <3>1. PICK r : loc'[p] = [ Idle EXCEPT !.pc = "recovery_check", !.n = 1, !.rec = r ]
      BY <2>2, Landing DEF RecoverResume
    <3>2. loc'[p].pc = "recovery_check"
      BY <3>1 DEF Idle
    <3> QED BY <1>3, <3>2 DEF Watched
  <2>3. ASSUME NEW time \in Times, RecoverStart(p, action, reason, time, partial)
        PROVE  RecInv'
    <3>1. IncompleteRecoveries = {}
      BY <2>3 DEF RecoverStart, RecoveryPermitted
    <3>2. CASE loc' = loc
      BY <1>3, <2>3, <3>2 DEF RecoverStart, At, Watched
    <3>3. CASE \E r : Start(p, [ Idle EXCEPT !.pc = "recovery_record", !.n = Len(recs), !.rec = r ])
      <4>1. PICK r : loc'[p] = [ Idle EXCEPT !.pc = "recovery_record", !.n = Len(recs), !.rec = r ]
        BY <3>3, Landing
      <4>2. loc'[p].pc = "recovery_record"
        BY <4>1 DEF Idle
      <4> QED BY <1>5, <3>1, <4>2
    <3> QED BY <2>3, <3>2, <3>3 DEF RecoverStart
  <2> QED BY <2>1, <2>2, <2>3
<1>8. CASE SealStart(p)
  BY <1>3, <1>8, Landing DEF SealStart, Watched, Idle
<1>9. CASE JudgeStart(p)
  BY <1>3, <1>9, Landing DEF JudgeStart, Watched, Idle
<1>10. CASE BundleStart(p)
  BY <1>3, <1>10, Landing DEF BundleStart, Watched, Idle
<1>11. CASE Kill(p)
  BY <1>3, <1>11, Landing DEF Kill, Watched, Idle
<1> QED BY <1>6, <1>7, <1>8, <1>9, <1>10, <1>11

LEMMA WriteStepRecovers ==
  ASSUME IInv, OneCommand, RecInv, NEW p \in Procs,
         \/ CaptureReconcile(p) \/ CaptureCreate(p) \/ CaptureScanRefused(p) \/ CaptureRequest(p)
         \/ CaptureSend(p) \/ Answer(p) \/ CaptureRecord(p)
         \/ SealWrite(p) \/ JudgeWrite(p) \/ BundleVerify(p) \/ BundleWrite(p)
  PROVE  RecInv'
<1>1. ledger' = ledger /\ recs' = recs
  BY DEF CaptureReconcile, CaptureCreate, CaptureScanRefused, CaptureRequest, CaptureSend, Answer,
         CaptureAnswer, CaptureRecord, SealWrite, JudgeWrite, BundleVerify, BundleWrite, KeepDisk,
         disk
<1>2. RecoveriesSound'
  BY <1>1, SameRecoveries DEF RecInv
<1>3. loc'[p].pc \notin Watched
  <2>1. CASE \/ CaptureScanRefused(p) \/ CaptureRequest(p) \/ CaptureSend(p)
    BY <2>1, Landing DEF CaptureScanRefused, CaptureRequest, CaptureSend, Watched, Idle
  <2>2. CASE CaptureReconcile(p) \/ CaptureRecord(p)
    <3>1. \E todo : Start(p, [ Idle EXCEPT !.pc = "append", !.todo = todo ])
      BY <2>2 DEF CaptureReconcile, CaptureRecord
    <3> QED BY <3>1, Landing DEF Watched, Idle
  <2>3. CASE CaptureCreate(p)
    BY <2>3, Landing DEF CaptureCreate, Watched, Idle
  <2>4. CASE Answer(p)
    <3>1. PICK out \in Answers, step \in {"reuse", "record"} :
            loc' = [ loc EXCEPT ![p].pc = step, ![p].out = out ]
      BY <2>4 DEF Answer, CaptureAnswer
    <3>2. IsState(loc[p]) /\ loc = [ q \in Procs |-> loc[q] ]
      BY DEF IInv, StateSound, IsState
    <3>3. loc'[p].pc = step
      BY <3>1, <3>2 DEF IsState
    <3> QED BY <3>3 DEF Watched
  <2>5. CASE Finish(p)
    BY <2>5, Landing DEF Watched, Idle
  <2>6. CASE SealWrite(p) \/ JudgeWrite(p) \/ BundleWrite(p)
    <3>1. Finish(p) \/ \E todo : Start(p, [ Idle EXCEPT !.pc = "append", !.todo = todo ])
      BY <2>6 DEF SealWrite, JudgeWrite, BundleWrite
    <3>2. CASE \E todo : Start(p, [ Idle EXCEPT !.pc = "append", !.todo = todo ])
      BY <3>2, Landing DEF Watched, Idle
    <3> QED BY <2>5, <3>1, <3>2
  <2>7. CASE BundleVerify(p)
    <3>1. Finish(p) \/ \E art : Start(p, [ Idle EXCEPT !.pc = "bundle_write", !.art = art ])
      BY <2>7 DEF BundleVerify
    <3>2. CASE \E art : Start(p, [ Idle EXCEPT !.pc = "bundle_write", !.art = art ])
      BY <3>2, Landing DEF Watched, Idle
    <3> QED BY <2>5, <3>1, <3>2
  <2> QED BY <2>1, <2>2, <2>3, <2>4, <2>6, <2>7
<1> QED BY <1>2, <1>3, RecoveringAfter DEF RecInv

\* An event of a recovery is appended only where it was not there yet.
LEMMA AppendStepRecovers ==
  ASSUME IInv, OneCommand, RecInv, NEW p \in Procs,
         \/ CaptureBegin(p) \/ CaptureRequestEvent(p) \/ CaptureReuse(p) \/ AppendNext(p)
         \/ RecoverAppend(p)
  PROVE  RecInv'
<1>1. recs' = recs
  BY DEF CaptureBegin, CaptureRequestEvent, CaptureReuse, AppendNext, RecoverAppend
<1>2. loc'[p].pc \notin Watched
  <2>1. CASE CaptureBegin(p) \/ CaptureRequestEvent(p) \/ CaptureReuse(p)
    BY <2>1, Landing DEF CaptureBegin, CaptureRequestEvent, CaptureReuse, Watched, Idle
  <2>2. CASE Finish(p)
    BY <2>2, Landing DEF Watched, Idle
  <2>3. IsState(loc[p]) /\ loc = [ q \in Procs |-> loc[q] ]
    BY DEF IInv, StateSound, IsState
  <2>4. CASE AppendNext(p) /\ \E rest : loc' = [ loc EXCEPT ![p].todo = rest ]
    <3>1. loc'[p].pc = "append"
      BY <2>3, <2>4 DEF AppendNext, At, IsState
    <3> QED BY <3>1 DEF Watched
  <2>5. CASE loc' = [ loc EXCEPT ![p].pc = "recovery_check", ![p].n = @ + 1 ]
    <3>1. loc'[p].pc = "recovery_check"
      BY <2>3, <2>5 DEF IsState
    <3> QED BY <3>1 DEF Watched
  <2> QED BY <2>1, <2>2, <2>4, <2>5 DEF AppendNext, RecoverAppend
<1>3. CASE ledger' = ledger
  BY <1>1, <1>2, <1>3, SameRecoveries, RecoveringAfter DEF RecInv
<1>4. ASSUME NEW e, Publish(e),
             \/ Quiet(e)
             \/ \E r \in Range(recs) : e \in RecoveryDrafts(r) /\ ~Present(e)
      PROVE  RecInv'
  <2>1. LedgerSound /\ EvidenceSound
    BY DEF IInv
  <2>2. Appended(e)
    BY <1>4, <2>1, PublishAppends
  <2>3. RecoveriesSound'
    BY <1>1, <1>4, <2>1, <2>2, AppendedRecoveries DEF RecInv
  <2> QED BY <1>2, <2>3, RecoveringAfter DEF RecInv
<1>5. CASE CaptureBegin(p)
  <2>1. State = "execution_authorized"
    BY <1>5 DEF CaptureBegin, At, RecInv, Recovering
  <2>2. \A t \in Life!TransitionEvents :
           t[1] = "execution_authorized" /\ t[2] = "capturing" => t[3] = "capture_started"
    BY DEF Life!TransitionEvents, Life!NoState
  <2>3. CASE \E type \in { t[3] : t \in { u \in Life!TransitionEvents : u[1] = State /\ u[2] = "capturing" } } :
               Publish(Draft(type, "capturing", 1, None, None))
    <3>1. Publish(Draft("capture_started", "capturing", 1, None, None))
      BY <2>1, <2>2, <2>3
    <3> QED BY <1>4, <3>1 DEF Quiet, Draft
  <2> QED BY <1>3, <1>5, <2>3 DEF CaptureBegin
<1>6. CASE CaptureRequestEvent(p) \/ CaptureReuse(p)
  <2>1. \/ ledger' = ledger
        \/ Publish(AttemptEvent("request_preserved", loc[p].n))
        \/ Publish(AttemptEvent("provider_request_id_reused", loc[p].n))
    BY <1>6 DEF CaptureRequestEvent, CaptureReuse
  <2>2. Quiet(AttemptEvent("request_preserved", loc[p].n))
    BY DEF Quiet, AttemptEvent, Occurrence, Draft
  <2>3. Quiet(AttemptEvent("provider_request_id_reused", loc[p].n))
    BY DEF Quiet, AttemptEvent, Occurrence, Draft
  <2> QED BY <1>3, <1>4, <2>1, <2>2, <2>3
<1>7. CASE AppendNext(p)
  <2>1. Quiet(Head(loc[p].todo))
    BY <1>7, HeadQuiet DEF AppendNext, At, IInv, StateSound
  <2> QED BY <1>3, <1>4, <1>7, <2>1 DEF AppendNext
<1>8. CASE RecoverAppend(p)
  <2>1. PICK me, e : me = loc[p] /\ e = RecoveryEvents(me.rec)[me.n]
    OBVIOUS
  <2>2. /\ me.rec \in Recovery /\ me.rec \in Range(recs) /\ me.n \in DOMAIN RecoveryEvents(me.rec)
    BY <1>8, <2>1 DEF RecoverAppend, At, IInv, StateSound
  <2>3. e \in RecoveryDrafts(me.rec)
    BY <2>1, <2>2, RecoveryEventsNamed, ElementOfSeq, LenProperties
  <2>4. ~Present(e)
    BY <1>8, <2>1 DEF RecoverAppend, At, RecInv, Recovering
  <2> QED BY <1>3, <1>4, <1>8, <2>1, <2>2, <2>3, <2>4 DEF RecoverAppend
<1> QED BY <1>5, <1>6, <1>7, <1>8

LEMMA RecordStepRecovers ==
  ASSUME IInv, OneCommand, RecInv, NEW p \in Procs, RecoverRecord(p)
  PROVE  RecInv'
<1>1. ledger' = ledger
  BY DEF RecoverRecord
<1>2. IsState(loc[p]) /\ loc = [ q \in Procs |-> loc[q] ]
  BY DEF IInv, StateSound, IsState
<1>3. CASE recs' = recs /\ Finish(p)
  <2>1. loc'[p].pc \notin Watched
    BY <1>3, Landing DEF Watched, Idle
  <2> QED BY <1>1, <1>3, <2>1, SameRecoveries, RecoveringAfter DEF RecInv
<1>4. CASE /\ recs' = Append(recs, loc[p].rec)
           /\ loc' = [ loc EXCEPT ![p].pc = "recovery_check", ![p].n = 1 ]
  <2>1. loc[p].rec \in Recovery
    BY DEF RecoverRecord, At, IInv, StateSound
  <2>2. IncompleteRecoveries = {}
    BY DEF RecoverRecord, At, RecInv, Recovering
  <2>3. loc'[p].pc = "recovery_check"
    BY <1>2, <1>4 DEF IsState
  <2>4. RecoveriesSound'
    BY <1>1, <1>4, <2>1, <2>2, RecordedRecoveries DEF IInv, RecInv
  <2> QED BY <2>3, <2>4, RecoveringAfter DEF RecInv, Watched
<1> QED BY <1>3, <1>4 DEF RecoverRecord

LEMMA CheckStepRecovers ==
  ASSUME IInv, OneCommand, RecInv, NEW p \in Procs, RecoverCheck(p)
  PROVE  RecInv'
<1>1. ledger' = ledger /\ recs' = recs
  BY DEF RecoverCheck, KeepDisk, disk
<1>2. RecoveriesSound' /\ \A f : Present(f)' <=> Present(f)
  BY <1>1, SameRecoveries DEF RecInv
<1>3. CASE Finish(p)
  <2>1. loc'[p].pc \notin Watched
    BY <1>3, Landing DEF Watched, Idle
  <2> QED BY <1>2, <2>1, RecoveringAfter DEF RecInv
<1>4. CASE \E n : /\ loc' = [ loc EXCEPT ![p].pc = "recovery_append", ![p].n = n ]
                  /\ ~Present(RecoveryEvents(loc[p].rec)[n])
  <2>1. PICK n : /\ loc' = [ loc EXCEPT ![p].pc = "recovery_append", ![p].n = n ]
                 /\ ~Present(RecoveryEvents(loc[p].rec)[n])
    BY <1>4
  <2>2. IsState(loc[p]) /\ loc = [ q \in Procs |-> loc[q] ]
    BY DEF IInv, StateSound, IsState
  <2>3. PICK new : new = loc'[p]
    OBVIOUS
  <2>4. new.pc = "recovery_append" /\ new.n = n /\ new.rec = loc[p].rec
    BY <2>1, <2>2, <2>3 DEF IsState
  <2>5. PICK f : f = RecoveryEvents(new.rec)[new.n]
    OBVIOUS
  <2>6. ~Present(f)'
    BY <1>2, <2>1, <2>4, <2>5
  <2>7. RecoveryEvents(new.rec)' = RecoveryEvents(new.rec)
    BY DEF RecoveryEvents, Occurrence, Draft
  <2>8. Recovering(new)'
    BY <2>4, <2>5, <2>6, <2>7 DEF Recovering
  <2>9. \A q \in Procs : loc'[q] = new
    BY <2>3 DEF OneCommand
  <2> QED BY <1>2, <2>8, <2>9 DEF RecInv
<1> QED BY <1>3, <1>4 DEF RecoverCheck

LEMMA InitRecovers == Init => RecInv
<1> SUFFICES ASSUME Init PROVE RecInv
  OBVIOUS
<1>1. DOMAIN ledger = {1} /\ recs = <<>> /\ ledger[1].dig = None
      /\ ledger[1].type = "execution_authorization_bound"
  BY DEF Init
<1>2. IncompleteRecoveries = {} /\ Resumptions = {}
  BY <1>1 DEF IncompleteRecoveries, Resumptions, EventsOf
<1>3. \A p \in Procs : loc[p].pc = "idle"
  BY DEF Init, Idle
<1> QED BY <1>1, <1>2, <1>3 DEF RecInv, RecoveriesSound, Recovering

LEMMA StepRecovers ==
  ASSUME IInv, OneCommand, RecInv, [Next]_vars
  PROVE  RecInv'
<1>1. CASE UNCHANGED vars
  <2>1. ledger' = ledger /\ recs' = recs /\ loc' = loc
    BY <1>1 DEF vars
  <2>2. \A r : RecoveryEvents(r)' = RecoveryEvents(r)
    BY DEF RecoveryEvents, Occurrence, Draft
  <2>3. State' = State
    BY <2>1 DEF State
  <2>4. \A me : Recovering(me) => Recovering(me)'
    BY <2>1, <2>3, SameRecoveries DEF Recovering, RecoveryEvents, Occurrence, Draft
  <2> QED BY <2>1, <2>4, SameRecoveries DEF RecInv
<1>2. CASE Next
  <2>1. PICK p \in Procs : StartCommand(p) \/ Step(p) \/ Answer(p) \/ Kill(p)
    BY <1>2 DEF Next
  <2>2. CASE StartCommand(p) \/ Kill(p)
    BY <2>2, ReadStepRecovers DEF StartCommand
  <2>3. CASE Step(p)
    BY <2>3, WriteStepRecovers, AppendStepRecovers, RecordStepRecovers, CheckStepRecovers DEF Step
  <2>4. CASE Answer(p)
    BY <2>4, WriteStepRecovers
  <2> QED BY <2>1, <2>2, <2>3, <2>4
<1> QED BY <1>1, <1>2

(* RecInv holds of every behaviour in which one command runs at a time: no *)
(* event of a recovery is doubled, and a recovery cut short is the only    *)
(* one that lacks events.                                                  *)
THEOREM RecoveryInvariant ==
  ASSUME OneCommand
  PROVE  Spec => []RecInv
<1>1. Init => RecInv
  BY InitRecovers
<1>2. IInv /\ RecInv /\ [Next]_vars => RecInv'
  BY StepRecovers
<1> QED BY <1>1, <1>2, RunInvariant, PTL DEF Spec

LEMMA AtMostOne ==
  ASSUME NEW S, \A i, j \in S : i = j
  PROVE  Cardinality(S) = 0 \/ Cardinality(S) = 1
<1>1. CASE S = {}
  BY <1>1, FS_EmptySet
<1>2. CASE S # {}
  <2>1. PICK x : S = {x}
    BY <1>2
  <2>2. Cardinality({x}) = 1
    BY FS_Singleton
  <2> QED BY <2>1, <2>2
<1> QED BY <1>1, <1>2

LEMMA RecordsCounted ==
  ASSUME EvidenceSound, NEW T, T \subseteq DOMAIN recs
  PROVE  IsFiniteSet(T) /\ Cardinality(T) \in Nat
<1>1. Len(recs) \in Nat /\ DOMAIN recs = 1 .. Len(recs)
  BY LenProperties DEF EvidenceSound
<1>2. IsFiniteSet(DOMAIN recs)
  BY <1>1, FS_Interval
<1>3. IsFiniteSet(T)
  BY <1>2, FS_Subset
<1> QED BY <1>3, FS_CardinalityType

\* The one resumption in the ledger that names this record, counted once.
LEMMA ResumptionsAreAsked ==
  ASSUME LedgerSound, EvidenceSound, RecoveriesSound
  PROVE  Cardinality(Resumptions) <= Cardinality({ i \in DOMAIN recs : recs[i].action = "resume" })
<1>1. PICK T : T = { i \in DOMAIN recs : recs[i].action = "resume" }
  OBVIOUS
<1>2. PICK f : f = [ i \in Resumptions |-> CHOOSE k \in T : recs[k] = ledger[i].dig ]
  OBVIOUS
<1>3. ASSUME NEW i \in Resumptions
      PROVE  f[i] \in T /\ recs[f[i]] = ledger[i].dig
  <2>1. \E k \in DOMAIN recs : recs[k] = ledger[i].dig
    BY DEF RecoveriesSound, Range
  <2>2. \E k \in T : recs[k] = ledger[i].dig
    BY <1>1, <2>1 DEF RecoveriesSound
  <2> QED BY <1>2, <2>2
<1>4. ASSUME NEW i \in Resumptions, NEW j \in Resumptions, f[i] = f[j]
      PROVE  i = j
  <2>1. i \in DOMAIN ledger /\ j \in DOMAIN ledger
        /\ ledger[i].type = "capture_resumed" /\ ledger[j].type = "capture_resumed"
    BY DEF Resumptions, EventsOf
  <2>2. ledger[i].dig = ledger[j].dig
    BY <1>3, <1>4
  <2>3. ledger[i].dig # None
    BY RecordsAreRecoveries DEF RecoveriesSound
  <2> QED BY <2>1, <2>2, <2>3 DEF RecoveriesSound, Alike
<1>5. f \in Injection(Resumptions, T)
  <2>1. f \in [ Resumptions -> T ]
    BY <1>2, <1>3
  <2> QED BY <1>4, <2>1 DEF Injection, IsInjective
<1>6. IsFiniteSet(T)
  BY <1>1, RecordsCounted
<1>7. Cardinality(Resumptions) <= Cardinality(T)
  BY <1>5, <1>6, FS_Injection
<1> QED BY <1>1, <1>7

\* Every request but the first answers to an operator who asked for it.
THEOREM NeverResendsUndeclared ==
  ASSUME OneCommand
  PROVE  Spec => []NoUndeclaredResend
<1>1. IInv /\ RecInv => NoUndeclaredResend
  <2> SUFFICES ASSUME IInv, RecInv PROVE NoUndeclaredResend
    OBVIOUS
  <2>1. PICK n, m : /\ n = Cardinality(Resumptions)
                    /\ m = Cardinality({ i \in DOMAIN recs : recs[i].action = "resume" })
    OBVIOUS
  <2>2. n <= m /\ n \in Nat
    BY <2>1, ResumptionsAreAsked, ResumptionsCounted DEF IInv, RecInv
  <2>3. Len(sent) <= 1 + n /\ Len(sent) \in Nat
    BY <2>1, LenProperties DEF IInv, SentSound, DispatchDiscipline
  <2>4. PICK T : T = { i \in DOMAIN recs : recs[i].action = "resume" }
    OBVIOUS
  <2>5. m \in Nat
    BY <2>1, <2>4, RecordsCounted DEF IInv
  <2>6. Len(sent) <= 1 + m
    BY <2>2, <2>3, <2>5
  <2> QED BY <2>1, <2>6 DEF NoUndeclaredResend
<1> QED BY <1>1, RunInvariant, RecoveryInvariant, PTL

\* No event of a recovery is there twice.
LEMMA NeverDuplicated ==
  ASSUME EvidenceSound, RecoveriesSound
  PROVE  \A r \in Range(recs) : ~RecoveryDuplicated(r)
<1>1. ASSUME NEW r \in Range(recs), NEW e \in Range(RecoveryEvents(r))
      PROVE  ~(Cardinality(Places(e)) > 1)
  <2>1. r \in Recovery /\ r # None
    BY RecordsAreRecoveries
  <2>2. e \in RecoveryDrafts(r)
    BY <2>1, RecoveryEventsNamed, ElementOfSeq, LenProperties DEF Range
  <2>3. e.dig # None
    BY <2>1, <2>2 DEF RecoveryDrafts
  <2>4. \A i, j \in Places(e) : i = j
    BY <2>3 DEF Places, RecoveriesSound, Alike
  <2>5. Cardinality(Places(e)) = 0 \/ Cardinality(Places(e)) = 1
    BY <2>4, AtMostOne
  <2> QED BY <2>5
<1> QED BY <1>1 DEF RecoveryDuplicated

\* A recovery cut short can always be taken up again.
THEOREM AlwaysReconcilable ==
  ASSUME OneCommand
  PROVE  Spec => []RecoveryReconcilable
<1>1. IInv /\ RecInv => RecoveryReconcilable
  <2> SUFFICES ASSUME IInv, RecInv PROVE RecoveryReconcilable
    OBVIOUS
  <2>1. Cardinality(IncompleteRecoveries) <= 1
    <3>1. Cardinality(IncompleteRecoveries) = 0 \/ Cardinality(IncompleteRecoveries) = 1
      BY AtMostOne DEF RecInv, RecoveriesSound
    <3> QED BY <3>1
  <2>2. \A r \in Range(recs) : ~RecoveryDuplicated(r)
    BY NeverDuplicated DEF IInv, RecInv
  <2> QED BY <2>1, <2>2 DEF RecoveryReconcilable
<1> QED BY <1>1, RunInvariant, RecoveryInvariant, PTL

-----------------------------------------------------------------------------
(* Sealed evidence, one command at a time.                                 *)

Complete ==
  /\ \A n \in DOMAIN attempts : attempts[n].record # None
  /\ CompleteIn(View) # {}

JudgingsOnce == Cardinality(EventsOf({"judgment_sealed"})) = 1

\* What is sealed is what the files still say, and so is what was judged.
SealsSound ==
  /\ Sealed => manifest # None
  /\ manifest # None => EvidenceBound(manifest.state = "aborted") /\ ManifestValid(Sealed)
  /\ judgment # None => Sealed /\ Complete /\ judgment = JudgmentNow

\* The judgment and the bundle are bound by one event each, and the bundle by the last.
ReviewSound ==
  /\ State = "judged" => judgment # None
  /\ State \in {"judged", "review_required"} /\ judgment # None => JudgingsOnce
  /\ EventsOf({"human_review_required"}) # {} => State = "review_required"
  /\ State = "review_required" => bundle # None
  /\ bundle # None => Sealed /\ BundleValid(State = "review_required")
  /\ bundle # None /\ State = "sealed" => manifest.state = "aborted"

\* Steps of a command that changes what could be sealed.
Changing == Owning \cup {"begin", "scan", "recovery_record", "recovery_check", "recovery_append"}

\* The events that commit an attempt, none of which ends the capture's evidence.
Commits(todo) == \A i \in DOMAIN todo : todo[i].to \in {None, "captured", "interrupted"}

Sealing(me) ==
  /\ me.pc \in Changing => manifest = None
  /\ me.pc = "append" =>
       \/ manifest = None /\ Commits(me.todo)
       \/ manifest # None /\ me.todo = << SealEvent(manifest) >>
       \/ judgment # None /\ me.todo = << JudgedEvent(judgment) >>
       \/ bundle # None /\ me.todo = << ReviewEvent(bundle) >>
  /\ me.pc = "seal_write" => Sealable /\ manifest = None /\ me.art = ManifestNow
  /\ me.pc = "judge_write" =>
       /\ State = "sealed" /\ manifest # None /\ manifest.state = "captured" /\ judgment = None
       /\ me.art = JudgmentNow
  /\ me.pc = "bundle_verify" => me.n = Len(ledger)
  /\ me.pc = "bundle_write" =>
       /\ Reviewable
       /\ me.art = [ root |-> Len(ledger), state |-> State, reportRoot |-> Len(ledger),
                     reportState |-> State, judgment |-> judgment, manifest |-> manifest ]

SealInv == SealsSound /\ ReviewSound /\ \A p \in Procs : Sealing(loc[p])

LEMMA SealedAfterAll ==
  ASSUME LedgerSound
  PROVE  /\ State \in {"captured", "aborted"} => EventsOf(SealTypes) = {}
         /\ State \in {"captured", "aborted", "sealed"} => EventsOf({"judgment_sealed"}) = {}
  BY DEF LedgerSound, EventsOf, StatesAfter, SealTypes

\* Evidence is bound by the files it is bound by, whatever is sealed meanwhile.
LEMMA SameEvidence ==
  ASSUME UNCHANGED <<ledger, attempts, recs, blobs>>
  PROVE  /\ View' = View /\ Evidence' = Evidence /\ State' = State
         /\ \A allow : EvidenceBound(allow)' <=> EvidenceBound(allow)
         /\ \A types : EventsOf(types)' = EventsOf(types)
<1>1. View' = View /\ State' = State
  BY DEF View, State, Uncommitted
<1>2. Evidence' = Evidence
  BY <1>1 DEF Evidence
<1>3. \A types : EventsOf(types)' = EventsOf(types)
  BY DEF EventsOf
<1>4. \A f : Places(f)' = Places(f)
  BY DEF Places
<1>5. \A f : Present(f)' <=> Present(f)
  BY <1>4 DEF Present
<1>6. \A r : RecoveryEvents(r)' = RecoveryEvents(r)
  BY DEF RecoveryEvents, Occurrence, Draft
<1>7. \A r : (RecoveryComplete(r)' <=> RecoveryComplete(r))
             /\ (RecoveryDuplicated(r)' <=> RecoveryDuplicated(r))
  BY <1>4, <1>5 DEF RecoveryComplete, RecoveryDuplicated, RecoveryEvents, Occurrence, Draft
<1>8. RecoveryBound' <=> RecoveryBound
  BY <1>7 DEF RecoveryBound
<1>9. \A type, n : EventsFor(type, n)' = EventsFor(type, n)
  BY <1>3 DEF EventsFor, EventsOf
<1>10. AttemptEventsBound' <=> AttemptEventsBound
  BY <1>1, <1>3, <1>9 DEF AttemptEventsBound
<1>11. InventoryExact' <=> InventoryExact
  BY <1>2 DEF InventoryExact
<1>12. \A allow : AttemptsReadable(allow)' <=> AttemptsReadable(allow)
  BY DEF AttemptsReadable, AttemptReadable
<1> QED BY <1>1, <1>2, <1>3, <1>8, <1>10, <1>11, <1>12 DEF EvidenceBound

\* The events that seal, judge and review bind no attempt and no recovery.
Sealer(e) ==
  e.dig = None /\ e.type \in SealTypes \cup {"judgment_sealed", "human_review_required"}

LEMMA EvidenceKept ==
  ASSUME LedgerSound, EvidenceSound, NEW e, Appended(e), Sealer(e),
         UNCHANGED <<attempts, recs, blobs>>
  PROVE  /\ View' = View /\ Evidence' = Evidence
         /\ \A allow : EvidenceBound(allow) => EvidenceBound(allow)'
<1>1. View' = View
  BY DEF View, Uncommitted
<1>2. Evidence' = Evidence
  BY <1>1 DEF Evidence
<1>3. \A f : f.dig # None => Places(f)' = Places(f)
  BY Positions DEF Appended, Places, Sealer
<1>4. ASSUME NEW r \in Range(recs), NEW f \in Range(RecoveryEvents(r))
      PROVE  f.dig # None
  <2>1. r \in Recovery /\ r # None
    BY RecordsAreRecoveries
  <2>2. f \in RecoveryDrafts(r)
    BY <2>1, RecoveryEventsNamed, ElementOfSeq, LenProperties DEF Range
  <2> QED BY <2>1, <2>2 DEF RecoveryDrafts
<1>5. ASSUME NEW r \in Range(recs)
      PROVE  /\ RecoveryComplete(r) => RecoveryComplete(r)'
             /\ RecoveryDuplicated(r)' => RecoveryDuplicated(r)
  <2>1. RecoveryEvents(r)' = RecoveryEvents(r)
    BY DEF RecoveryEvents, Occurrence, Draft
  <2>2. \A f \in Range(RecoveryEvents(r)) : Places(f)' = Places(f)
    BY <1>3, <1>4
  <2> QED BY <2>1, <2>2 DEF RecoveryComplete, RecoveryDuplicated, Present
<1>6. { ledger'[i].dig : i \in DOMAIN ledger' } \ {None} = { ledger[i].dig : i \in DOMAIN ledger } \ {None}
  BY Positions DEF Appended, Sealer
<1>7. RecoveryBound => RecoveryBound'
  BY <1>5, <1>6 DEF RecoveryBound
<1>8. \A type, n : type \in {"request_preserved", "response_preserved", "capture_completed"} =>
                     EventsFor(type, n)' = EventsFor(type, n)
  BY NewEvents DEF Sealer, SealTypes
<1>9. EventsOf({"capture_completed"})' = EventsOf({"capture_completed"})
  BY NewEvents DEF Sealer, SealTypes, EventsThen
<1>10. \A type, n : \A i \in EventsFor(type, n) : ledger'[i] = ledger[i]
  BY DEF Appended, EventsFor, EventsOf
<1>11. AttemptEventsBound => AttemptEventsBound'
  BY <1>1, <1>8, <1>9, <1>10 DEF AttemptEventsBound
<1>12. InventoryExact' <=> InventoryExact
  BY <1>2 DEF InventoryExact
<1>13. \A allow : AttemptsReadable(allow)' <=> AttemptsReadable(allow)
  BY DEF AttemptsReadable, AttemptReadable
<1> QED BY <1>1, <1>2, <1>7, <1>11, <1>12, <1>13 DEF EvidenceBound

\* What follows while nothing is sealed.
LEMMA Unsealed ==
  ASSUME SealsSound, ReviewSound, manifest = None
  PROVE  ~Sealed /\ judgment = None /\ bundle = None
  BY DEF SealsSound, ReviewSound

\* The ledger stays, or goes on with an event of the capture or of a recovery.
CaptureGoesOn ==
  \/ ledger' = ledger
  \/ \E e : /\ Legal(e) /\ Publish(e)
            /\ e.to \in {None, "capturing", "captured", "interrupted", "aborted"}

LEMMA StillUnsealed ==
  ASSUME LedgerSound, SealsSound, ReviewSound, manifest = None,
         UNCHANGED <<manifest, judgment, bundle>>, CaptureGoesOn
  PROVE  SealsSound' /\ ReviewSound'
<1>1. ~Sealed /\ judgment = None /\ bundle = None
  BY Unsealed
<1>2. EventsOf({"human_review_required"}) = {}
  BY <1>1 DEF ReviewSound, Sealed
<1>3. ~Sealed' /\ EventsOf({"human_review_required"})' = {}
  <2>1. CASE ledger' = ledger
    BY <1>1, <1>2, <2>1 DEF Sealed, State, EventsOf
  <2>2. ASSUME NEW e, Legal(e), Publish(e),
               e.to \in {None, "capturing", "captured", "interrupted", "aborted"}
        PROVE  ~Sealed' /\ EventsOf({"human_review_required"})' = {}
    <3>1. Appended(e)
      BY <2>2, PublishAppends
    <3>2. ~Sealed'
      BY <1>1, <2>2, <3>1 DEF Appended, To, Sealed
    <3>3. e.type # "human_review_required"
      BY <2>2 DEF Legal, Life!TransitionEvents, Life!OccurrenceStates, Life!NoState
    <3> QED BY <1>2, <3>1, <3>2, <3>3, NewEvents DEF EventsThen
  <2> QED BY <2>1, <2>2 DEF CaptureGoesOn
<1> QED BY <1>1, <1>3 DEF SealsSound, ReviewSound, Sealed

\* What is said of the artifacts reads the files alone.
LEMMA SameArtifacts ==
  ASSUME KeepDisk
  PROVE  /\ SealsSound => SealsSound'
         /\ ReviewSound => ReviewSound'
         /\ ManifestNow' = ManifestNow /\ JudgmentNow' = JudgmentNow
         /\ Sealable' <=> Sealable
         /\ Reviewable' <=> Reviewable
         /\ State' = State
<1>1. UNCHANGED <<ledger, attempts, recs, blobs>> /\ UNCHANGED <<manifest, judgment, bundle>>
  BY DEF KeepDisk, disk
<1>2. /\ View' = View /\ Evidence' = Evidence /\ State' = State
      /\ \A allow : EvidenceBound(allow)' <=> EvidenceBound(allow)
      /\ \A types : EventsOf(types)' = EventsOf(types)
  BY <1>1, SameEvidence
<1>3. CompleteIn(View)' = CompleteIn(View) /\ JudgedBlob' = JudgedBlob
  BY <1>2 DEF CompleteIn, JudgedBlob
<1>4. (Sealed' <=> Sealed) /\ (Complete' <=> Complete)
  BY <1>1, <1>2, <1>3 DEF Sealed, Complete
<1>5. \A committed : ManifestValid(committed)' <=> ManifestValid(committed)
  BY <1>1, <1>2 DEF ManifestValid
<1>6. JudgmentNow' = JudgmentNow /\ ManifestNow' = ManifestNow
  BY <1>1, <1>2, <1>3 DEF JudgmentNow, ManifestNow
<1>7. \A committed : JudgmentValid(committed)' <=> JudgmentValid(committed)
  BY <1>1, <1>2, <1>3, <1>6 DEF JudgmentValid
<1>8. \A committed : BundleValid(committed)' <=> BundleValid(committed)
  BY <1>1, <1>2, <1>7 DEF BundleValid
<1>9. ManifestValid(Sealed)' <=> ManifestValid(Sealed)
  <2>1. CASE Sealed
    BY <1>4, <1>5, <2>1
  <2>2. CASE ~Sealed
    BY <1>1, <1>2, <1>4, <2>2 DEF ManifestValid
  <2> QED BY <2>1, <2>2
<1>10. SealsSound => SealsSound'
  <2>1. EvidenceBound(manifest.state = "aborted")' <=> EvidenceBound(manifest.state = "aborted")
    BY <1>1, <1>2
  <2> QED BY <1>1, <1>2, <1>4, <1>6, <1>9, <2>1 DEF SealsSound
<1>11. ReviewSound => ReviewSound'
  BY <1>1, <1>2, <1>4, <1>8 DEF ReviewSound, JudgingsOnce
<1>12. Sealable' <=> Sealable
  BY <1>1, <1>2, <1>3, <1>5 DEF Sealable
<1>13. VerifyCore("none")' <=> VerifyCore("none")
  <2>1. PICK allow \in BOOLEAN :
          allow <=> \/ State \in {"aborted", "interrupted", "capturing"}
                    \/ Sealed /\ manifest # None /\ manifest.state = "aborted"
    OBVIOUS
  <2>2. allow <=> ( \/ State \in {"aborted", "interrupted", "capturing"}
                    \/ Sealed /\ manifest # None /\ manifest.state = "aborted" )'
    BY <1>1, <1>2, <1>4, <2>1
  <2>3. EvidenceBound( \/ State \in {"aborted", "interrupted", "capturing"}
                       \/ Sealed /\ manifest # None /\ manifest.state = "aborted" )
        <=> EvidenceBound(allow)
    BY <2>1
  <2>4. EvidenceBound( \/ State \in {"aborted", "interrupted", "capturing"}
                       \/ Sealed /\ manifest # None /\ manifest.state = "aborted" )'
        <=> EvidenceBound(allow)'
    BY <2>2
  <2> QED BY <1>1, <1>2, <1>3, <1>4, <1>9, <2>3, <2>4 DEF VerifyCore
<1>14. Reviewable' <=> Reviewable
  BY <1>1, <1>2, <1>7, <1>8, <1>13 DEF Reviewable, VerifyRun
<1> QED BY <1>2, <1>6, <1>10, <1>11, <1>12, <1>14

\* The manifest is written of what is there.
LEMMA ManifestWritten ==
  ASSUME IInv, SealsSound, ReviewSound, manifest = None, Sealable, manifest' = ManifestNow,
         UNCHANGED <<ledger, attempts, recs, blobs, judgment, bundle>>
  PROVE  SealsSound' /\ ReviewSound'
<1>1. /\ View' = View /\ Evidence' = Evidence /\ State' = State
      /\ \A allow : EvidenceBound(allow)' <=> EvidenceBound(allow)
      /\ \A types : EventsOf(types)' = EventsOf(types)
  BY SameEvidence
<1>2. ~Sealed /\ judgment = None /\ bundle = None
  BY Unsealed
<1>3. State \in {"captured", "aborted"} /\ EvidenceBound(State = "aborted")
  BY DEF Sealable
<1>4. EventsOf(SealTypes) = {}
  BY <1>3, SealedAfterAll DEF IInv
<1>5. /\ manifest'.state = State /\ manifest'.root = Len(ledger) /\ manifest'.attempts = View
      /\ manifest'.evidence = Evidence
  BY DEF ManifestNow
<1>6. ~Sealed'
  BY <1>1, <1>2 DEF Sealed
<1>7. EvidenceBound(manifest.state = "aborted")'
  BY <1>1, <1>3, <1>5
<1>8. ManifestValid(FALSE)'
  BY <1>1, <1>4, <1>5 DEF ManifestValid, SealTypes
<1>9. EventsOf({"human_review_required"})' = {}
  BY <1>1, <1>2 DEF ReviewSound, Sealed
<1>10. ManifestValid(Sealed)'
  BY <1>6, <1>8 DEF ManifestValid
<1> QED BY <1>2, <1>6, <1>7, <1>9, <1>10 DEF SealsSound, ReviewSound, Sealed

\* Records that later checks read are all there once a captured run is sealed.
LEMMA SealedComplete ==
  ASSUME IInv, SealsSound, manifest # None, manifest.state = "captured"
  PROVE  Complete /\ manifest.attempts = View
<1>1. EvidenceBound(FALSE) /\ ManifestValid(Sealed)
  <2>1. manifest.state # "aborted"
    OBVIOUS
  <2> QED BY <2>1 DEF SealsSound
<1>2. \A n \in DOMAIN attempts : attempts[n].record # None
  BY <1>1 DEF EvidenceBound, AttemptsReadable, AttemptReadable
<1>3. manifest.attempts = View
  BY <1>1 DEF ManifestValid
<1>4. CompleteIn(View) # {}
  BY <1>3 DEF CompleteIn, IInv, ArtifactsSound, ManifestSound
<1> QED BY <1>2, <1>3, <1>4 DEF Complete

LEMMA JudgmentWritten ==
  ASSUME IInv, SealsSound, ReviewSound, State = "sealed", manifest # None,
         manifest.state = "captured", judgment = None, judgment' = JudgmentNow,
         UNCHANGED <<ledger, attempts, recs, blobs, manifest, bundle>>
  PROVE  SealsSound' /\ ReviewSound'
<1>1. /\ View' = View /\ Evidence' = Evidence /\ State' = State
      /\ \A allow : EvidenceBound(allow)' <=> EvidenceBound(allow)
      /\ \A types : EventsOf(types)' = EventsOf(types)
  BY SameEvidence
<1>2. JudgmentNow' = JudgmentNow
  BY <1>1 DEF JudgmentNow, JudgedBlob, CompleteIn
<1>3. bundle = None
  BY DEF ReviewSound
<1>4. Sealed' /\ Sealed
  BY <1>1 DEF Sealed
<1>5. Complete'
  BY <1>1, SealedComplete DEF Complete, CompleteIn
<1>6. EvidenceBound(manifest.state = "aborted")' /\ ManifestValid(Sealed)'
  <2>1. ManifestValid(TRUE)
    BY <1>4 DEF SealsSound
  <2>2. ManifestValid(TRUE)'
    BY <1>1, <2>1 DEF ManifestValid
  <2> QED BY <1>1, <1>4, <2>2 DEF SealsSound
<1>7. EventsOf({"human_review_required"})' = {}
  BY <1>1 DEF ReviewSound
<1> QED BY <1>1, <1>2, <1>3, <1>4, <1>5, <1>6, <1>7 DEF SealsSound, ReviewSound

\* The judgment of a judged run can be checked again.
LEMMA JudgedValid ==
  ASSUME IInv, SealsSound, ReviewSound, State \in {"judged", "review_required"}, judgment # None
  PROVE  JudgmentValid(TRUE)
<1>1. JudgingsOnce /\ Complete /\ judgment = JudgmentNow
  BY DEF SealsSound, ReviewSound
<1>2. \A i \in EventsOf({"judgment_sealed"}) : ledger[i].ref = judgment
  BY DEF IInv, ArtifactsSound, SealsBind
<1> QED BY <1>1, <1>2 DEF JudgmentValid, JudgingsOnce, Complete

LEMMA BundleWritten ==
  ASSUME IInv, SealsSound, ReviewSound, bundle = None, Reviewable,
         bundle' = [ root |-> Len(ledger), state |-> State, reportRoot |-> Len(ledger),
                     reportState |-> State, judgment |-> judgment, manifest |-> manifest ],
         UNCHANGED <<ledger, attempts, recs, blobs, manifest, judgment>>
  PROVE  SealsSound' /\ ReviewSound'
<1>1. /\ View' = View /\ Evidence' = Evidence /\ State' = State
      /\ \A allow : EvidenceBound(allow)' <=> EvidenceBound(allow)
      /\ \A types : EventsOf(types)' = EventsOf(types)
  BY SameEvidence
<1>2. CompleteIn(View)' = CompleteIn(View) /\ JudgmentNow' = JudgmentNow
  BY <1>1 DEF CompleteIn, JudgmentNow, JudgedBlob
<1>3. (Sealed' <=> Sealed) /\ (Complete' <=> Complete)
  BY <1>1, <1>2 DEF Sealed, Complete
<1>4. \A committed : ManifestValid(committed)' <=> ManifestValid(committed)
  BY <1>1 DEF ManifestValid
<1>5. SealsSound'
  <2>1. Sealed /\ Sealed' /\ ManifestValid(TRUE)
    BY <1>3 DEF SealsSound, Reviewable, Sealed
  <2>2. ManifestValid(Sealed)'
    BY <1>4, <2>1
  <2>3. EvidenceBound(manifest.state = "aborted")'
    BY <1>1, <2>1 DEF SealsSound
  <2> QED BY <1>2, <1>3, <2>1, <2>2, <2>3 DEF SealsSound
<1>6. State \in {"sealed", "judged"} /\ (State = "sealed" => manifest.state = "aborted")
  BY DEF Reviewable
<1>7. /\ bundle'.manifest = manifest /\ bundle'.root = Len(ledger) /\ bundle'.state = State
      /\ bundle'.reportRoot = Len(ledger) /\ bundle'.reportState = State
      /\ bundle'.judgment = judgment
  OBVIOUS
<1>8. EventsOf({"human_review_required"}) = {}
  BY <1>6 DEF ReviewSound
<1>9. judgment # None => JudgmentValid(TRUE)
  <2>1. judgment # None => State = "judged"
    BY <1>6 DEF IInv, ArtifactsSound, JudgmentSound
  <2> QED BY <2>1, JudgedValid
<1>10. JudgmentValid(TRUE) => JudgmentValid(TRUE)'
  BY <1>1, <1>2 DEF JudgmentValid
<1>11. judgment = None => manifest.state = "aborted"
  BY <1>6 DEF ReviewSound
<1>12. BundleValid(FALSE)'
  BY <1>1, <1>6, <1>7, <1>8, <1>9, <1>10, <1>11 DEF BundleValid
<1>13. Sealed'
  BY <1>3, <1>6 DEF Sealed
<1>14. State' # "review_required"
  BY <1>1, <1>6
<1> QED BY <1>1, <1>5, <1>6, <1>8, <1>12, <1>13, <1>14 DEF ReviewSound, JudgingsOnce

\* The seal follows the ledger its manifest was made of.
LEMMA SealAppended ==
  ASSUME IInv, SealsSound, ReviewSound, manifest # None, NEW e, e = SealEvent(manifest),
         Legal(e), Publish(e), UNCHANGED <<attempts, recs, blobs, manifest, judgment, bundle>>
  PROVE  SealsSound' /\ ReviewSound'
<1>1. /\ e.type \in SealTypes /\ e.to = "sealed" /\ e.dig = None /\ e.ref = manifest
  BY DEF SealEvent, Draft, SealTypes
<1>2. LedgerSound /\ EvidenceSound /\ ArtifactsSound
  BY DEF IInv
<1>3. Appended(e)
  BY <1>2, PublishAppends
<1>4. To(e) = "sealed" /\ State \in {"captured", "aborted"}
  BY <1>1, <1>2, Moves, NoneAssumption DEF To, SealTypes, Life!States
<1>5. /\ View' = View /\ Evidence' = Evidence
      /\ \A allow : EvidenceBound(allow) => EvidenceBound(allow)'
  BY <1>1, <1>2, <1>3, EvidenceKept DEF Sealer
<1>6. State' = "sealed" /\ Sealed'
  BY <1>3, <1>4 DEF Appended, Sealed
<1>7. judgment = None /\ bundle = None /\ EventsOf({"human_review_required"}) = {}
  BY <1>4 DEF SealsSound, ReviewSound, Sealed
<1>8. manifest.state = State /\ manifest.root = Len(ledger)
  BY <1>2, <1>4 DEF ArtifactsSound, ManifestSound
<1>9. EventsOf(SealTypes)' = {Len(ledger) + 1}
  BY <1>1, <1>2, <1>3, <1>4, NewEvents, SealedAfterAll DEF EventsThen
<1>10. Cardinality(EventsOf(SealTypes)') = 1
  BY <1>9, FS_Singleton
<1>11. /\ ledger'[Len(ledger) + 1].from = manifest.state
       /\ ledger'[Len(ledger) + 1].ref = manifest
       /\ manifest.root = (Len(ledger) + 1) - 1
  BY <1>1, <1>2, <1>3, <1>8, Positions DEF Appended
<1>12. manifest.attempts = View /\ manifest.evidence = Evidence
  BY DEF SealsSound, ManifestValid
<1>13. ManifestValid(TRUE)'
  BY <1>5, <1>9, <1>10, <1>11, <1>12 DEF ManifestValid, SealTypes
<1>14. ManifestValid(Sealed)'
  BY <1>6, <1>13
<1>15. EvidenceBound(manifest.state = "aborted")'
  BY <1>5 DEF SealsSound
<1>16. EventsOf({"human_review_required"})' = {}
  BY <1>1, <1>2, <1>3, <1>7, NewEvents DEF EventsThen, SealTypes
<1> QED BY <1>6, <1>7, <1>14, <1>15, <1>16 DEF SealsSound, ReviewSound

\* What was sealed, and what is said of it, survives a later event of this kind.
LEMMA SealedStays ==
  ASSUME IInv, SealsSound, Sealed, NEW e, Appended(e), Sealer(e), e.type \notin SealTypes,
         Sealed', UNCHANGED <<attempts, recs, blobs, manifest, judgment>>
  PROVE  SealsSound'
<1>1. LedgerSound /\ EvidenceSound /\ ArtifactsSound
  BY DEF IInv
<1>2. /\ View' = View /\ Evidence' = Evidence
      /\ \A allow : EvidenceBound(allow) => EvidenceBound(allow)'
  BY <1>1, EvidenceKept
<1>3. manifest # None /\ EvidenceBound(manifest.state = "aborted") /\ ManifestValid(TRUE)
  BY DEF SealsSound
<1>4. EventsOf(SealTypes)' = EventsOf(SealTypes)
      /\ \A i \in EventsOf(SealTypes) : ledger'[i] = ledger[i]
  <2>1. \A i \in DOMAIN ledger : ledger'[i] = ledger[i]
    BY DEF Appended
  <2>2. EventsOf(SealTypes)' = EventsOf(SealTypes)
    <3>1. EventsOf(SealTypes)' =
            { i \in DOMAIN ledger' : ledger'[i].type \in SealTypes }
      BY DEF EventsOf
    <3>2. \A i \in DOMAIN ledger' : i \in DOMAIN ledger \/ ledger'[i].type = e.type
      BY <1>1, Positions DEF Appended
    <3> QED BY <1>1, <2>1, <3>2, Positions DEF EventsOf, Appended
  <2> QED BY <2>1, <2>2 DEF EventsOf
<1>5. ManifestValid(TRUE)'
  BY <1>2, <1>3, <1>4 DEF ManifestValid, SealTypes
<1>6. ManifestValid(Sealed)'
  BY <1>5
<1>7. EvidenceBound(manifest.state = "aborted")'
  BY <1>2, <1>3
<1>8. CompleteIn(View)' = CompleteIn(View) /\ JudgmentNow' = JudgmentNow
  BY <1>2 DEF CompleteIn, JudgmentNow, JudgedBlob
<1>9. Complete => Complete'
  BY <1>8 DEF Complete
<1> QED BY <1>3, <1>6, <1>7, <1>8, <1>9 DEF SealsSound

LEMMA JudgedAppended ==
  ASSUME IInv, SealsSound, ReviewSound, judgment # None, NEW e, e = JudgedEvent(judgment),
         Legal(e), Publish(e), UNCHANGED <<attempts, recs, blobs, manifest, judgment, bundle>>
  PROVE  SealsSound' /\ ReviewSound'
<1>1. e.type = "judgment_sealed" /\ e.to = "judged" /\ e.dig = None /\ e.ref = judgment
  BY DEF JudgedEvent, Draft
<1>2. LedgerSound /\ ArtifactsSound
  BY DEF IInv
<1>3. Appended(e)
  BY <1>2, PublishAppends
<1>4. To(e) = "judged" /\ State = "sealed"
  BY <1>1, <1>2, Moves, NoneAssumption DEF To, Life!States
<1>5. State' = "judged" /\ Sealed' /\ Sealed
  BY <1>3, <1>4 DEF Appended, Sealed
<1>6. SealsSound'
  BY <1>1, <1>3, <1>5, SealedStays DEF Sealer, SealTypes
<1>7. bundle = None /\ EventsOf({"human_review_required"}) = {}
  BY <1>2, <1>4 DEF ReviewSound, ArtifactsSound, JudgmentSound
<1>8. EventsOf({"judgment_sealed"})' = {Len(ledger) + 1}
  BY <1>1, <1>2, <1>3, <1>4, NewEvents, SealedAfterAll DEF EventsThen
<1>9. JudgingsOnce'
  BY <1>8, FS_Singleton DEF JudgingsOnce
<1>10. EventsOf({"human_review_required"})' = {}
  BY <1>1, <1>2, <1>3, <1>7, NewEvents DEF EventsThen
<1> QED BY <1>5, <1>6, <1>7, <1>9, <1>10 DEF ReviewSound

LEMMA ReviewAppended ==
  ASSUME IInv, SealsSound, ReviewSound, bundle # None, NEW e, e = ReviewEvent(bundle),
         Legal(e), Publish(e), UNCHANGED <<attempts, recs, blobs, manifest, judgment, bundle>>
  PROVE  SealsSound' /\ ReviewSound'
<1>1. e.type = "human_review_required" /\ e.to = "review_required" /\ e.dig = None /\ e.ref = bundle
  BY DEF ReviewEvent, Draft
<1>2. LedgerSound /\ ArtifactsSound
  BY DEF IInv
<1>3. Appended(e)
  BY <1>2, PublishAppends
<1>4. To(e) = "review_required" /\ State \in {"sealed", "judged"}
  <2>1. e.to # None
    BY <1>1, NoneAssumption DEF Life!States
  <2>2. <<State, e.to, e.type>> \in Life!TransitionEvents
    BY <2>1 DEF Legal
  <2> QED BY <1>1, <2>1, <2>2 DEF To, Life!TransitionEvents, Life!NoState
<1>5. State' = "review_required" /\ Sealed' /\ Sealed
  BY <1>3, <1>4 DEF Appended, Sealed
<1>6. SealsSound'
  BY <1>1, <1>3, <1>5, SealedStays DEF Sealer, SealTypes
<1>7. BundleValid(FALSE) /\ EventsOf({"human_review_required"}) = {}
  BY <1>4 DEF ReviewSound
<1>8. EventsOf({"human_review_required"})' = {Len(ledger) + 1}
  BY <1>1, <1>2, <1>3, <1>7, NewEvents DEF EventsThen
<1>9. Cardinality(EventsOf({"human_review_required"})') = 1
  BY <1>8, FS_Singleton
<1>10. bundle.root = Len(ledger) /\ bundle.state = State
  BY <1>7 DEF BundleValid
<1>11. /\ ledger'[Len(ledger) + 1].ref = bundle
       /\ ledger'[Len(ledger) + 1].from = bundle.state
       /\ (Len(ledger) + 1) - 1 = bundle.root /\ Len(ledger') - 1 = bundle.root
  BY <1>1, <1>2, <1>3, <1>10, Positions DEF Appended
<1>12. EventsOf({"judgment_sealed"})' = EventsOf({"judgment_sealed"})
       /\ \A i \in EventsOf({"judgment_sealed"}) : ledger'[i] = ledger[i]
  <2>1. EventsOf({"judgment_sealed"})' = EventsOf({"judgment_sealed"})
    BY <1>1, <1>2, <1>3, NewEvents DEF EventsThen
  <2> QED BY <1>3, <2>1 DEF Appended, EventsOf
<1>13. JudgmentValid(TRUE) => JudgmentValid(TRUE)'
  <2>1. View' = View
    BY DEF View, Uncommitted
  <2>2. CompleteIn(View)' = CompleteIn(View) /\ JudgmentNow' = JudgmentNow
    BY <2>1 DEF CompleteIn, JudgmentNow, JudgedBlob
  <2> QED BY <1>12, <2>2 DEF JudgmentValid
<1>14. BundleValid(TRUE)'
  BY <1>7, <1>8, <1>9, <1>11, <1>13 DEF BundleValid
<1>15. judgment # None => JudgingsOnce'
  BY <1>7, <1>12 DEF BundleValid, JudgmentValid, JudgingsOnce
<1> QED BY <1>5, <1>6, <1>14, <1>15 DEF ReviewSound

-----------------------------------------------------------------------------
(* What the one command goes on with.                                      *)

LEMMA SealingAfter ==
  ASSUME OneCommand, NEW p \in Procs, NEW me, me = loc'[p], Sealing(me)'
  PROVE  \A q \in Procs : Sealing(loc[q])'
<1>1. ASSUME NEW q \in Procs PROVE Sealing(loc[q])'
  <2>1. loc'[q] = me
    BY DEF OneCommand
  <2> QED BY <2>1
<1> QED BY <1>1

LEMMA IdleSealing == ASSUME NEW me, me.pc = "idle" PROVE Sealing(me)'
  BY DEF Sealing, Changing, Owning

LEMMA ChangeSealing == ASSUME NEW me, me.pc \in Changing, manifest' = None PROVE Sealing(me)'
  BY DEF Sealing, Changing, Owning

LEMMA AppendSealing ==
  ASSUME NEW todo, NEW me, me.pc = "append", me.todo = todo,
         \/ manifest' = None /\ Commits(todo)
         \/ manifest' # None /\ todo = << SealEvent(manifest') >>
         \/ judgment' # None /\ todo = << JudgedEvent(judgment') >>
         \/ bundle' # None /\ todo = << ReviewEvent(bundle') >>
  PROVE  Sealing(me)'
<1>1. Commits(todo) => Commits(todo)'
  BY DEF Commits
<1> QED BY <1>1 DEF Sealing, Changing, Owning, SealEvent, JudgedEvent, ReviewEvent, Draft

\* A run in one of these states has no manifest.
LEMMA NothingSealed ==
  ASSUME IInv, State \in {"execution_authorized", "capturing", "interrupted"}
  PROVE  manifest = None
  BY DEF IInv, ArtifactsSound, ManifestSound

\* The commands that only read, and what they know then.
LEMMA ReadStepSeals ==
  ASSUME IInv, OneCommand, RecInv, SealInv, NEW p \in Procs, KeepDisk,
         NEW me, me = loc'[p], Sealing(me)'
  PROVE  SealInv'
  BY SameArtifacts, SealingAfter DEF SealInv

LEMMA SealStartSeals ==
  ASSUME IInv, OneCommand, RecInv, SealInv, NEW p \in Procs, SealStart(p)
  PROVE  SealInv'
<1>1. KeepDisk /\ Sealable /\ manifest' = manifest
  BY DEF SealStart, KeepDisk, disk
<1>2. CASE manifest = None
  <2>1. PICK me : me = [ Idle EXCEPT !.pc = "seal_write", !.art = ManifestNow ]
    OBVIOUS
  <2>2. loc'[p] = me
    BY <1>2, <2>1, Landing DEF SealStart
  <2>3. me.pc = "seal_write" /\ me.art = ManifestNow
    BY <2>1 DEF Idle
  <2>4. Sealing(me)'
    BY <1>1, <1>2, <2>3, SameArtifacts DEF Sealing, Changing, Owning
  <2> QED BY <1>1, <2>2, <2>4, ReadStepSeals
<1>3. CASE manifest # None
  <2>1. PICK todo : todo = << SealEvent(manifest) >>
    OBVIOUS
  <2>2. PICK me : me = [ Idle EXCEPT !.pc = "append", !.todo = todo ]
    OBVIOUS
  <2>3. loc'[p] = me
    BY <1>3, <2>1, <2>2, Landing DEF SealStart
  <2>4. me.pc = "append" /\ me.todo = todo
    BY <2>2, StartsAppend
  <2>5. Sealing(me)'
    BY <1>1, <1>3, <2>1, <2>4, AppendSealing
  <2> QED BY <1>1, <2>3, <2>5, ReadStepSeals
<1> QED BY <1>2, <1>3

LEMMA JudgeStartSeals ==
  ASSUME IInv, OneCommand, RecInv, SealInv, NEW p \in Procs, JudgeStart(p)
  PROVE  SealInv'
<1>1. KeepDisk /\ State = "sealed" /\ UNCHANGED <<manifest, judgment>>
  BY DEF JudgeStart, KeepDisk, disk
<1>2. CASE judgment = None
  <2>1. PICK me : me = [ Idle EXCEPT !.pc = "judge_write", !.art = JudgmentNow ]
    OBVIOUS
  <2>2. loc'[p] = me
    BY <1>2, <2>1, Landing DEF JudgeStart
  <2>3. me.pc = "judge_write" /\ me.art = JudgmentNow
    BY <2>1 DEF Idle
  <2>4. manifest # None /\ manifest.state = "captured"
    BY <1>1, <1>2 DEF SealInv, SealsSound, Sealed, JudgeStart
  <2>5. Sealing(me)'
    BY <1>1, <1>2, <2>3, <2>4, SameArtifacts DEF Sealing, Changing, Owning
  <2> QED BY <1>1, <2>2, <2>5, ReadStepSeals
<1>3. CASE judgment # None
  <2>1. PICK todo : todo = << JudgedEvent(judgment) >>
    OBVIOUS
  <2>2. PICK me : me = [ Idle EXCEPT !.pc = "append", !.todo = todo ]
    OBVIOUS
  <2>3. loc'[p] = me
    BY <1>3, <2>1, <2>2, Landing DEF JudgeStart
  <2>4. me.pc = "append" /\ me.todo = todo
    BY <2>2, StartsAppend
  <2>5. Sealing(me)'
    BY <1>1, <1>3, <2>1, <2>4, AppendSealing
  <2> QED BY <1>1, <2>3, <2>5, ReadStepSeals
<1> QED BY <1>2, <1>3

LEMMA BundleStartSeals ==
  ASSUME IInv, OneCommand, RecInv, SealInv, NEW p \in Procs, BundleStart(p)
  PROVE  SealInv'
<1>1. KeepDisk /\ bundle' = bundle /\ ledger' = ledger
  BY DEF BundleStart, KeepDisk, disk
<1>2. CASE bundle = None
  <2>1. PICK me : me = [ Idle EXCEPT !.pc = "bundle_verify", !.n = Len(ledger) ]
    OBVIOUS
  <2>2. loc'[p] = me
    BY <1>2, <2>1, Landing DEF BundleStart
  <2>3. me.pc = "bundle_verify" /\ me.n = Len(ledger)
    BY <2>1 DEF Idle
  <2>4. Sealing(me)'
    BY <1>1, <2>3 DEF Sealing, Changing, Owning
  <2> QED BY <1>1, <2>2, <2>4, ReadStepSeals
<1>3. CASE bundle # None
  <2>1. PICK todo : todo = << ReviewEvent(bundle) >>
    OBVIOUS
  <2>2. PICK me : me = [ Idle EXCEPT !.pc = "append", !.todo = todo ]
    OBVIOUS
  <2>3. loc'[p] = me
    BY <1>3, <2>1, <2>2, Landing DEF BundleStart
  <2>4. me.pc = "append" /\ me.todo = todo
    BY <2>2, StartsAppend
  <2>5. Sealing(me)'
    BY <1>1, <1>3, <2>1, <2>4, AppendSealing
  <2> QED BY <1>1, <2>3, <2>5, ReadStepSeals
<1> QED BY <1>2, <1>3

LEMMA BundleVerifySeals ==
  ASSUME IInv, OneCommand, RecInv, SealInv, NEW p \in Procs, BundleVerify(p)
  PROVE  SealInv'
<1>1. KeepDisk /\ UNCHANGED <<ledger, manifest, judgment>>
  BY DEF BundleVerify, KeepDisk, disk
<1>2. CASE Finish(p)
  <2>1. PICK me : me = loc'[p]
    OBVIOUS
  <2>2. me.pc = "idle"
    BY <1>2, <2>1, Landing DEF Idle
  <2> QED BY <1>1, <2>1, <2>2, IdleSealing, ReadStepSeals
<1>3. CASE Reviewable /\ ~Finish(p)
  <2>1. PICK art : art = [ root |-> Len(ledger), state |-> State, reportRoot |-> Len(ledger),
                           reportState |-> State, judgment |-> judgment, manifest |-> manifest ]
    OBVIOUS
  <2>2. PICK me : me = [ Idle EXCEPT !.pc = "bundle_write", !.art = art ]
    OBVIOUS
  <2>3. loc[p].n = Len(ledger) /\ ledger[loc[p].n].to = State
    BY DEF BundleVerify, At, SealInv, Sealing, State
  <2>4. loc'[p] = me
    BY <1>3, <2>1, <2>2, <2>3, Landing DEF BundleVerify
  <2>5. me.pc = "bundle_write" /\ me.art = art
    BY <2>2 DEF Idle
  <2>6. art = [ root |-> Len(ledger'), state |-> State', reportRoot |-> Len(ledger'),
                reportState |-> State', judgment |-> judgment', manifest |-> manifest' ]
    BY <1>1, <2>1, SameArtifacts
  <2>7. Sealing(me)'
    BY <1>1, <1>3, <2>5, <2>6, SameArtifacts DEF Sealing, Changing, Owning
  <2> QED BY <1>1, <2>4, <2>7, ReadStepSeals
<1> QED BY <1>2, <1>3 DEF BundleVerify

\* The last command was killed, or had nothing to do.
LEMMA FinishSeals ==
  ASSUME IInv, OneCommand, RecInv, SealInv, NEW p \in Procs, KeepDisk, Finish(p)
  PROVE  SealInv'
<1>1. PICK me : me = loc'[p]
  OBVIOUS
<1>2. me.pc = "idle"
  BY <1>1, Landing DEF Idle
<1> QED BY <1>1, <1>2, IdleSealing, ReadStepSeals

CommandGoesOn(me) ==
  me.pc \in Changing \/ me.pc = "idle" \/ (me.pc = "append" /\ Commits(me.todo))

\* The steps of a command that has yet to change what can be sealed.
LEMMA ChangeStepSeals ==
  ASSUME IInv, OneCommand, SealInv, NEW p \in Procs, manifest = None,
         UNCHANGED <<manifest, judgment, bundle>>, CaptureGoesOn,
         NEW me, me = loc'[p], CommandGoesOn(me)
  PROVE  SealInv'
<1>1. SealsSound' /\ ReviewSound'
  BY StillUnsealed DEF IInv, SealInv
<1>2. Sealing(me)'
  <2>1. PICK todo : todo = me.todo
    OBVIOUS
  <2> QED BY <2>1, IdleSealing, ChangeSealing, AppendSealing DEF CommandGoesOn
<1> QED BY <1>1, <1>2, SealingAfter DEF SealInv

LEMMA AttemptsCommit ==
  ASSUME NEW n, NEW b, NEW t
  PROVE  /\ Commits(<< ResponseEvent(n, b), CapturedEvent(n) >>)
         /\ Commits(<< CapturedEvent(n) >>)
         /\ Commits(<< AttemptEvent(t, n), InterruptedEvent(n) >>)
  BY DEF Commits, ResponseEvent, CapturedEvent, AttemptEvent, InterruptedEvent, Occurrence, Draft

LEMMA CaptureStepSeals ==
  ASSUME IInv, OneCommand, SealInv, NEW p \in Procs,
         \/ CaptureReconcile(p) \/ CaptureCreate(p) \/ CaptureScanRefused(p) \/ CaptureRequest(p)
         \/ CaptureRequestEvent(p) \/ CaptureSend(p) \/ CaptureReuse(p) \/ CaptureRecord(p)
         \/ Answer(p)
  PROVE  SealInv'
<1>1. manifest = None
  <2>1. loc[p].pc \in Changing
    BY DEF CaptureReconcile, CaptureCreate, CaptureScanRefused, CaptureRequest,
           CaptureRequestEvent, CaptureSend, CaptureReuse, CaptureRecord, Answer, CaptureAnswer,
           At, Changing, Owning
  <2> QED BY <2>1 DEF SealInv, Sealing
<1>2. UNCHANGED <<manifest, judgment, bundle>>
  BY DEF CaptureReconcile, CaptureCreate, CaptureScanRefused, CaptureRequest,
         CaptureRequestEvent, CaptureSend, CaptureReuse, CaptureRecord, Answer, CaptureAnswer,
         KeepDisk, disk
<1>3. CaptureGoesOn
  <2>1. \A type, n : AttemptEvent(type, n).to = None
    BY DEF AttemptEvent, Occurrence, Draft
  <2> QED BY <2>1 DEF CaptureGoesOn, CaptureReconcile, CaptureCreate, CaptureScanRefused,
         CaptureRequest, CaptureRequestEvent, CaptureSend, CaptureReuse, CaptureRecord, Answer, CaptureAnswer,
         KeepDisk, disk
<1>4. PICK me : me = loc'[p]
  OBVIOUS
<1>5. IsState(loc[p]) /\ loc = [ q \in Procs |-> loc[q] ]
  BY DEF IInv, StateSound, IsState
<1>6. CASE Finish(p) \/ \E step \in Changing : Goto(p, step)
  <2>1. CommandGoesOn(me)
    BY <1>4, <1>6, Landing DEF Idle, CommandGoesOn
  <2> QED BY <1>1, <1>2, <1>3, <1>4, <2>1, ChangeStepSeals
<1>7. CASE \E todo : Commits(todo) /\ Start(p, [ Idle EXCEPT !.pc = "append", !.todo = todo ])
  <2>1. PICK todo : Commits(todo) /\ Start(p, [ Idle EXCEPT !.pc = "append", !.todo = todo ])
    BY <1>7
  <2>2. me = [ Idle EXCEPT !.pc = "append", !.todo = todo ]
    BY <1>4, <2>1, Landing
  <2>3. CommandGoesOn(me)
    BY <2>1, <2>2, StartsAppend DEF CommandGoesOn
  <2> QED BY <1>1, <1>2, <1>3, <1>4, <2>3, ChangeStepSeals
<1>8. CASE CaptureReconcile(p)
  <2>1. PICK n, record : n = Len(attempts) /\ record = LastRecord
    OBVIOUS
  <2>2. PICK todo : todo = IF record.complete
                             THEN ( IF EventsFor("response_preserved", n) = {}
                                      THEN << ResponseEvent(n, record.blob) >> ELSE <<>> )
                                  \o << CapturedEvent(n) >>
                             ELSE << AttemptEvent("attempt_interrupted", n), InterruptedEvent(n) >>
    OBVIOUS
  <2>3. << ResponseEvent(n, record.blob) >> \o << CapturedEvent(n) >>
          = << ResponseEvent(n, record.blob), CapturedEvent(n) >>
    BY TwoInARow
  <2>4. <<>> \o << CapturedEvent(n) >> = << CapturedEvent(n) >>
    <3>1. PICK S : S = { CapturedEvent(n) }
      OBVIOUS
    <3>2. << CapturedEvent(n) >> \in Seq(S)
      BY <3>1
    <3> QED BY <3>2, ConcatEmptySeq
  <2>5. Commits(todo)
    BY <2>2, <2>3, <2>4, AttemptsCommit
  <2> QED BY <1>7, <1>8, <2>1, <2>2, <2>5 DEF CaptureReconcile
<1>9. CASE CaptureRecord(p)
  <2>1. \A n, out : Commits(OutcomeEvents(n, out))
    BY AttemptsCommit DEF OutcomeEvents
  <2> QED BY <1>7, <1>9, <2>1 DEF CaptureRecord
<1>10. CASE CaptureCreate(p)
  <2>1. me.pc = "request"
    BY <1>4, <1>10, Landing DEF CaptureCreate, Idle
  <2>2. CommandGoesOn(me)
    BY <2>1 DEF CommandGoesOn, Changing, Owning
  <2> QED BY <1>1, <1>2, <1>3, <1>4, <2>2, ChangeStepSeals
<1>11. CASE Answer(p)
  <2>1. PICK out \in Answers, step \in {"reuse", "record"} :
          loc' = [ loc EXCEPT ![p].pc = step, ![p].out = out ]
    BY <1>11 DEF Answer, CaptureAnswer
  <2>2. me.pc = step
    BY <1>4, <1>5, <2>1 DEF IsState
  <2>3. CommandGoesOn(me)
    BY <2>2 DEF CommandGoesOn, Changing, Owning
  <2> QED BY <1>1, <1>2, <1>3, <1>4, <2>3, ChangeStepSeals
<1>12. CASE CaptureScanRefused(p) \/ CaptureRequest(p) \/ CaptureRequestEvent(p) \/ CaptureSend(p)
            \/ CaptureReuse(p)
  <2>1. Finish(p) \/ Goto(p, "request_event") \/ Goto(p, "send") \/ Goto(p, "wait")
        \/ Goto(p, "record") \/ Goto(p, "record_reused")
    BY <1>12 DEF CaptureScanRefused, CaptureRequest, CaptureRequestEvent, CaptureSend, CaptureReuse
  <2> QED BY <1>6, <2>1 DEF Changing, Owning
<1> QED BY <1>8, <1>9, <1>10, <1>11, <1>12

LEMMA BeginStepSeals ==
  ASSUME IInv, OneCommand, RecInv, SealInv, NEW p \in Procs, CaptureStart(p) \/ CaptureBegin(p)
  PROVE  SealInv'
<1>1. State \in {"execution_authorized", "capturing"}
  BY DEF CaptureStart, CaptureBegin, At, RecInv, Recovering
<1>2. manifest = None
  BY <1>1, NothingSealed
<1>3. UNCHANGED <<manifest, judgment, bundle>>
  BY DEF CaptureStart, CaptureBegin, KeepDisk, disk
<1>4. PICK me : me = loc'[p]
  OBVIOUS
<1>5. CommandGoesOn(me)
  BY <1>4, Landing DEF CaptureStart, CaptureBegin, Changing, Idle, CommandGoesOn
<1>6. CaptureGoesOn
  <2>1. CASE CaptureStart(p)
    BY <2>1 DEF CaptureGoesOn, CaptureStart, KeepDisk, disk
  <2>2. CASE ledger' = ledger
    BY <2>2 DEF CaptureGoesOn
  <2>3. CASE \E type \in { t[3] : t \in { u \in Life!TransitionEvents : u[1] = State /\ u[2] = "capturing" } } :
               Publish(Draft(type, "capturing", 1, None, None))
    <3>1. \A u \in Life!TransitionEvents : u = <<u[1], u[2], u[3]>>
      BY DEF Life!TransitionEvents
    <3>2. PICK type : /\ <<State, "capturing", type>> \in Life!TransitionEvents
                      /\ Publish(Draft(type, "capturing", 1, None, None))
      BY <2>3, <3>1
    <3>3. PICK e : e = Draft(type, "capturing", 1, None, None)
      OBVIOUS
    <3>4. Legal(e) /\ Publish(e) /\ e.to = "capturing"
      BY <3>2, <3>3, NoneAssumption DEF Draft, Legal, Life!States
    <3> QED BY <3>4 DEF CaptureGoesOn
  <2> QED BY <2>1, <2>2, <2>3 DEF CaptureBegin
<1> QED BY <1>2, <1>3, <1>4, <1>5, <1>6, ChangeStepSeals

LEMMA RecoverStepSeals ==
  ASSUME IInv, OneCommand, RecInv, SealInv, NEW p \in Procs,
         Recover(p) \/ RecoverRecord(p) \/ RecoverCheck(p) \/ RecoverAppend(p)
  PROVE  SealInv'
<1>1. UNCHANGED <<manifest, judgment, bundle>>
  BY DEF Recover, RecoverResume, RecoverStart, RecoverRecord, RecoverCheck, RecoverAppend, KeepDisk,
         disk
<1>2. IsState(loc[p]) /\ loc = [ q \in Procs |-> loc[q] ]
  BY DEF IInv, StateSound, IsState
<1>3. PICK me : me = loc'[p]
  OBVIOUS
<1>4. manifest = None
  <2>1. CASE RecoverRecord(p) \/ RecoverCheck(p) \/ RecoverAppend(p)
    <3>1. loc[p].pc \in Changing
      BY <2>1 DEF RecoverRecord, RecoverCheck, RecoverAppend, At, Changing
    <3> QED BY <3>1 DEF SealInv, Sealing
  <2>2. CASE Recover(p)
    <3>1. CASE IncompleteRecoveries # {}
      <4>1. PICK i \in DOMAIN recs : ~RecoveryComplete(recs[i])
        BY <3>1 DEF IncompleteRecoveries
      <4>2. ~RecoveryBound
        BY <4>1 DEF RecoveryBound, Range
      <4> QED BY <4>2 DEF SealInv, SealsSound, EvidenceBound
    <3>2. CASE State \in {"capturing", "interrupted"}
      BY <3>2, NothingSealed
    <3> QED BY <2>2, <3>1, <3>2 DEF Recover, RecoverResume, RecoverStart, RecoveryPermitted
  <2> QED BY <2>1, <2>2
<1>5. CaptureGoesOn
  <2>1. CASE Recover(p) \/ RecoverRecord(p) \/ RecoverCheck(p)
    BY <2>1 DEF CaptureGoesOn, Recover, RecoverResume, RecoverStart, RecoverRecord, RecoverCheck,
                KeepDisk, disk
  <2>2. CASE RecoverAppend(p)
    <3>1. PICK now, e : now = loc[p] /\ e = RecoveryEvents(now.rec)[now.n]
      OBVIOUS
    <3>2. now.rec \in Recovery /\ now.n \in DOMAIN RecoveryEvents(now.rec)
      BY <2>2, <3>1 DEF RecoverAppend, At, IInv, StateSound
    <3>3. e \in RecoveryDrafts(now.rec)
      BY <3>1, <3>2, RecoveryEventsNamed, ElementOfSeq, LenProperties
    <3>4. e.to \in {None, "interrupted", "capturing", "aborted"}
      BY <3>3 DEF RecoveryDrafts
    <3> QED BY <2>2, <3>1, <3>4 DEF CaptureGoesOn, RecoverAppend
  <2> QED BY <2>1, <2>2
<1>6. CASE me.pc \in Changing \cup {"idle"}
  <2>1. CommandGoesOn(me)
    BY <1>6 DEF CommandGoesOn
  <2> QED BY <1>1, <1>3, <1>4, <1>5, <2>1, ChangeStepSeals
<1>7. CASE Finish(p)
  BY <1>3, <1>6, <1>7, Landing DEF Idle
<1>8. CASE Recover(p)
  <2>1. CASE loc' = loc /\ At(p, "idle")
    BY <1>3, <1>6, <2>1 DEF At
  <2>2. CASE \E r, k, step : /\ step \in {"recovery_check", "recovery_record"}
                             /\ Start(p, [ Idle EXCEPT !.pc = step, !.n = k, !.rec = r ])
    <3>1. PICK r, k, step : /\ step \in {"recovery_check", "recovery_record"}
                            /\ Start(p, [ Idle EXCEPT !.pc = step, !.n = k, !.rec = r ])
      BY <2>2
    <3>2. me = [ Idle EXCEPT !.pc = step, !.n = k, !.rec = r ]
      BY <1>3, <3>1, Landing
    <3>3. me.pc \in Changing
      BY <3>1, <3>2 DEF Idle, Changing
    <3> QED BY <1>6, <3>3
  <2> QED BY <1>8, <2>1, <2>2 DEF Recover, RecoverResume, RecoverStart
<1>9. CASE \E n, step : /\ step \in {"recovery_check", "recovery_append"}
                        /\ loc' = [ loc EXCEPT ![p].pc = step, ![p].n = n ]
  <2>1. PICK n, step : /\ step \in {"recovery_check", "recovery_append"}
                       /\ loc' = [ loc EXCEPT ![p].pc = step, ![p].n = n ]
    BY <1>9
  <2>2. me.pc = step
    BY <1>2, <1>3, <2>1 DEF IsState
  <2> QED BY <1>6, <2>1, <2>2 DEF Changing
<1>10. CASE RecoverRecord(p)
  BY <1>7, <1>9, <1>10 DEF RecoverRecord
<1>11. CASE RecoverCheck(p)
  BY <1>7, <1>9, <1>11 DEF RecoverCheck
<1>12. CASE RecoverAppend(p)
  BY <1>7, <1>9, <1>12 DEF RecoverAppend
<1> QED BY <1>8, <1>10, <1>11, <1>12

\* An artifact is written, and its event comes next; one that is there ends the command.
LEMMA ArtifactWritten ==
  ASSUME IInv, OneCommand, NEW p \in Procs, SealsSound', ReviewSound', NEW todo,
         Start(p, [ Idle EXCEPT !.pc = "append", !.todo = todo ]),
         \/ manifest' # None /\ todo = << SealEvent(manifest') >>
         \/ judgment' # None /\ todo = << JudgedEvent(judgment') >>
         \/ bundle' # None /\ todo = << ReviewEvent(bundle') >>
  PROVE  SealInv'
<1>1. PICK me : me = [ Idle EXCEPT !.pc = "append", !.todo = todo ]
  OBVIOUS
<1>2. loc'[p] = me /\ me.pc = "append" /\ me.todo = todo
  BY <1>1, Landing, StartsAppend
<1>3. Sealing(me)'
  BY <1>2, AppendSealing
<1> QED BY <1>2, <1>3, SealingAfter DEF SealInv

LEMMA SealWriteSeals ==
  ASSUME IInv, OneCommand, RecInv, SealInv, NEW p \in Procs, SealWrite(p)
  PROVE  SealInv'
<1>1. manifest = None /\ Sealable /\ loc[p].art = ManifestNow
  BY DEF SealWrite, At, SealInv, Sealing
<1>2. /\ manifest' = ManifestNow
      /\ Start(p, [ Idle EXCEPT !.pc = "append", !.todo = << SealEvent(manifest') >> ])
      /\ UNCHANGED <<ledger, attempts, recs, blobs, judgment, bundle>>
  BY <1>1 DEF SealWrite
<1>3. SealsSound' /\ ReviewSound'
  BY <1>1, <1>2, ManifestWritten DEF SealInv
<1>4. manifest' # None
  BY <1>1, <1>2, ManifestNowSound, NoneAssumption DEF IInv, Sealable, ManifestSound
<1> QED BY <1>2, <1>3, <1>4, ArtifactWritten

LEMMA JudgeWriteSeals ==
  ASSUME IInv, OneCommand, RecInv, SealInv, NEW p \in Procs, JudgeWrite(p)
  PROVE  SealInv'
<1>1. /\ State = "sealed" /\ manifest # None /\ manifest.state = "captured" /\ judgment = None
      /\ loc[p].art = JudgmentNow
  BY DEF JudgeWrite, At, SealInv, Sealing
<1>2. /\ judgment' = JudgmentNow
      /\ Start(p, [ Idle EXCEPT !.pc = "append", !.todo = << JudgedEvent(judgment') >> ])
      /\ UNCHANGED <<ledger, attempts, recs, blobs, manifest, bundle>>
  BY <1>1 DEF JudgeWrite
<1>3. SealsSound' /\ ReviewSound'
  BY <1>1, <1>2, JudgmentWritten DEF SealInv
<1>4. judgment' # None
  <2>1. manifest.attempts = View
    BY <1>1, SealedComplete DEF SealInv
  <2>2. JudgmentNow \in Judgments
    BY <1>1, <2>1, JudgmentNowSound DEF JudgmentSound
  <2> QED BY <1>2, <2>2, NoneAssumption
<1> QED BY <1>2, <1>3, <1>4, ArtifactWritten

LEMMA BundleWriteSeals ==
  ASSUME IInv, OneCommand, RecInv, SealInv, NEW p \in Procs, BundleWrite(p)
  PROVE  SealInv'
<1>1. /\ Reviewable
      /\ loc[p].art = [ root |-> Len(ledger), state |-> State, reportRoot |-> Len(ledger),
                        reportState |-> State, judgment |-> judgment, manifest |-> manifest ]
  BY DEF BundleWrite, At, SealInv, Sealing
<1>2. CASE bundle # None
  <2>1. KeepDisk /\ Finish(p)
    BY <1>2 DEF BundleWrite, KeepDisk, disk
  <2> QED BY <2>1, FinishSeals
<1>3. CASE bundle = None
  <2>1. /\ bundle' = loc[p].art
        /\ Start(p, [ Idle EXCEPT !.pc = "append", !.todo = << ReviewEvent(bundle') >> ])
        /\ UNCHANGED <<ledger, attempts, recs, blobs, manifest, judgment>>
    BY <1>3 DEF BundleWrite
  <2>2. SealsSound' /\ ReviewSound'
    BY <1>1, <1>3, <2>1, BundleWritten DEF SealInv
  <2>3. bundle' # None
    <3>1. LedgerSound /\ ArtifactsSound
      BY DEF IInv
    <3>2. Len(ledger) \in Nat /\ State \in Life!States
      BY <3>1, Positions DEF LedgerSound, State
    <3>3. manifest # None
      BY <1>1 DEF SealInv, SealsSound, Reviewable, Sealed
    <3>4. manifest \in Manifests /\ judgment \in Judgments \cup {None}
      BY <3>1, <3>3 DEF ArtifactsSound, ManifestSound, JudgmentSound
    <3>5. bundle' \in Bundles
      BY <1>1, <2>1, <3>2, <3>4 DEF Bundles
    <3> QED BY <3>5, NoneAssumption
  <2> QED BY <2>1, <2>2, <2>3, ArtifactWritten
<1> QED BY <1>2, <1>3

LEMMA AppendNextSeals ==
  ASSUME IInv, OneCommand, RecInv, SealInv, NEW p \in Procs, AppendNext(p)
  PROVE  SealInv'
<1>1. PICK now, todo, e, rest : /\ now = loc[p] /\ todo = now.todo
                                /\ e = Head(todo) /\ rest = Tail(todo)
  OBVIOUS
<1>2. now.pc = "append" /\ IsState(now) /\ TodoSound(todo) /\ loc = [ q \in Procs |-> loc[q] ]
  BY <1>1 DEF AppendNext, At, IInv, StateSound, IsState
<1>3. UNCHANGED <<attempts, recs, blobs, manifest, judgment, bundle>>
  BY DEF AppendNext
<1>4. CASE ledger' = ledger /\ Finish(p)
  BY <1>3, <1>4, FinishSeals DEF KeepDisk, disk
<1>5. CASE Legal(e) /\ Publish(e)
  <2>1. CASE manifest = None /\ Commits(todo)
    <3>1. \/ \E x : todo = << x >>
          \/ \E x, y : todo = << x, y >>
      BY <1>2 DEF TodoSound
    <3>2. e.to \in {None, "captured", "interrupted"} /\ (rest = <<>> \/ Commits(rest))
      <4>1. CASE \E x : todo = << x >>
        <5>1. PICK x : todo = << x >>
          BY <4>1
        <5>2. e = x /\ rest = <<>> /\ 1 \in DOMAIN todo /\ todo[1] = x
          BY <1>1, <5>1
        <5> QED BY <2>1, <5>2 DEF Commits
      <4>2. CASE \E x, y : todo = << x, y >>
        <5>1. PICK x, y : todo = << x, y >>
          BY <4>2
        <5>2. e = x /\ rest = << y >> /\ {1, 2} \subseteq DOMAIN todo /\ todo[1] = x /\ todo[2] = y
          BY <1>1, <5>1
        <5>3. x.to \in {None, "captured", "interrupted"} /\ y.to \in {None, "captured", "interrupted"}
          BY <2>1, <5>2 DEF Commits
        <5>4. Commits(<< y >>)
          BY <5>3 DEF Commits
        <5> QED BY <5>2, <5>3, <5>4
      <4> QED BY <3>1, <4>1, <4>2
    <3>3. CaptureGoesOn
      BY <1>5, <3>2 DEF CaptureGoesOn
    <3>4. PICK me : me = loc'[p]
      OBVIOUS
    <3>5. CASE Finish(p)
      <4>1. CommandGoesOn(me)
        BY <3>4, <3>5, Landing DEF CommandGoesOn, Idle
      <4> QED BY <1>3, <2>1, <3>3, <3>4, <4>1, ChangeStepSeals
    <3>6. CASE rest # <<>> /\ loc' = [ loc EXCEPT ![p].todo = rest ]
      <4>1. me.pc = "append" /\ me.todo = rest
        BY <1>1, <1>2, <3>4, <3>6 DEF IsState
      <4>2. CommandGoesOn(me)
        BY <3>2, <3>6, <4>1 DEF CommandGoesOn
      <4> QED BY <1>3, <2>1, <3>3, <3>4, <4>2, ChangeStepSeals
    <3> QED BY <1>1, <1>5, <3>5, <3>6 DEF AppendNext
  <2>2. ASSUME SealsSound' /\ ReviewSound', rest = <<>>
        PROVE  SealInv'
    <3>1. PICK me : me = loc'[p]
      OBVIOUS
    <3>2. Finish(p)
      BY <1>1, <1>5, <2>2 DEF AppendNext
    <3>3. me.pc = "idle"
      BY <3>1, <3>2, Landing DEF Idle
    <3> QED BY <2>2, <3>1, <3>3, IdleSealing, SealingAfter DEF SealInv
  <2>3. CASE manifest # None /\ todo = << SealEvent(manifest) >>
    <3>1. e = SealEvent(manifest) /\ rest = <<>>
      BY <1>1, <2>3
    <3>2. SealsSound' /\ ReviewSound'
      BY <1>3, <1>5, <2>3, <3>1, SealAppended DEF SealInv
    <3> QED BY <2>2, <3>1, <3>2
  <2>4. CASE judgment # None /\ todo = << JudgedEvent(judgment) >>
    <3>1. e = JudgedEvent(judgment) /\ rest = <<>>
      BY <1>1, <2>4
    <3>2. SealsSound' /\ ReviewSound'
      BY <1>3, <1>5, <2>4, <3>1, JudgedAppended DEF SealInv
    <3> QED BY <2>2, <3>1, <3>2
  <2>5. CASE bundle # None /\ todo = << ReviewEvent(bundle) >>
    <3>1. e = ReviewEvent(bundle) /\ rest = <<>>
      BY <1>1, <2>5
    <3>2. SealsSound' /\ ReviewSound'
      BY <1>3, <1>5, <2>5, <3>1, ReviewAppended DEF SealInv
    <3> QED BY <2>2, <3>1, <3>2
  <2> QED BY <1>1, <1>2, <2>1, <2>3, <2>4, <2>5 DEF SealInv, Sealing
<1> QED BY <1>1, <1>4, <1>5 DEF AppendNext

LEMMA InitSeals == Init => SealInv
<1> SUFFICES ASSUME Init PROVE SealInv
  OBVIOUS
<1>1. DOMAIN ledger = {1} /\ ledger[1].type = "execution_authorization_bound"
      /\ State = "execution_authorized" /\ manifest = None /\ judgment = None /\ bundle = None
  BY DEF Init, State
<1>2. EventsOf({"human_review_required"}) = {}
  BY <1>1 DEF EventsOf
<1>3. \A p \in Procs : loc[p].pc = "idle"
  BY DEF Init, Idle
<1>4. SealsSound /\ ReviewSound
  BY <1>1, <1>2 DEF SealsSound, ReviewSound, Sealed
<1>5. \A p \in Procs : Sealing(loc[p])
  BY <1>3 DEF Sealing, Changing, Owning
<1> QED BY <1>4, <1>5 DEF SealInv

LEMMA SealingStays ==
  ASSUME KeepDisk, NEW me, Sealing(me)
  PROVE  Sealing(me)'
<1>1. UNCHANGED <<ledger, manifest, judgment, bundle>>
  BY DEF KeepDisk, disk
<1>2. /\ ManifestNow' = ManifestNow /\ JudgmentNow' = JudgmentNow
      /\ (Sealable' <=> Sealable) /\ (Reviewable' <=> Reviewable) /\ State' = State
  BY SameArtifacts
<1>3. Commits(me.todo)' <=> Commits(me.todo)
  BY DEF Commits
<1>4. /\ SealEvent(manifest)' = SealEvent(manifest)
      /\ JudgedEvent(judgment)' = JudgedEvent(judgment)
      /\ ReviewEvent(bundle)' = ReviewEvent(bundle)
  BY <1>1 DEF SealEvent, JudgedEvent, ReviewEvent, Draft
<1> QED BY <1>1, <1>2, <1>3, <1>4 DEF Sealing

LEMMA StepSeals ==
  ASSUME IInv, OneCommand, RecInv, SealInv, [Next]_vars
  PROVE  SealInv'
<1>1. CASE UNCHANGED vars
  <2>1. KeepDisk /\ loc' = loc
    BY <1>1 DEF vars, KeepDisk, disk
  <2>2. \A p \in Procs : Sealing(loc[p])'
    <3>1. ASSUME NEW p \in Procs PROVE Sealing(loc[p])'
      <4>1. PICK me : me = loc[p]
        OBVIOUS
      <4>2. Sealing(me)'
        BY <2>1, <4>1, SealingStays DEF SealInv
      <4> QED BY <2>1, <4>1, <4>2
    <3> QED BY <3>1
  <2> QED BY <2>1, <2>2, SameArtifacts DEF SealInv
<1>2. CASE Next
  <2>1. PICK p \in Procs : StartCommand(p) \/ Step(p) \/ Answer(p) \/ Kill(p)
    BY <1>2 DEF Next
  <2>2. CASE StartCommand(p)
    BY <2>2, BeginStepSeals, RecoverStepSeals, SealStartSeals, JudgeStartSeals, BundleStartSeals
       DEF StartCommand
  <2>3. CASE Step(p)
    BY <2>3, BeginStepSeals, CaptureStepSeals, AppendNextSeals, RecoverStepSeals, SealWriteSeals,
       JudgeWriteSeals, BundleVerifySeals, BundleWriteSeals DEF Step
  <2>4. CASE Answer(p)
    BY <2>4, CaptureStepSeals
  <2>5. CASE Kill(p)
    BY <2>5, FinishSeals DEF Kill
  <2> QED BY <2>1, <2>2, <2>3, <2>4, <2>5
<1> QED BY <1>1, <1>2

(* SealInv holds of every behaviour in which one command runs at a time:   *)
(* the files a manifest, a judgment or a bundle was made of stay as they   *)
(* were until the event that binds it, and after.                          *)
THEOREM SealInvariant ==
  ASSUME OneCommand
  PROVE  Spec => []SealInv
<1>1. IInv /\ RecInv /\ SealInv /\ [Next]_vars => SealInv'
  BY StepSeals
<1> QED BY <1>1, InitSeals, RunInvariant, RecoveryInvariant, PTL DEF Spec

\* Whatever was sealed, judged or bundled is verified by every later command.
THEOREM SealedAlwaysVerifiable ==
  ASSUME OneCommand
  PROVE  Spec => []SealedVerifiable
<1>1. IInv /\ SealInv => SealedVerifiable
  <2> SUFFICES ASSUME IInv, SealInv, Sealed
               PROVE  /\ VerifyCore( IF State = "sealed" /\ judgment # None THEN "judgment"
                                     ELSE IF State # "review_required" /\ bundle # None THEN "bundle"
                                     ELSE "none" )
                      /\ State = "judged" => JudgmentValid(TRUE)
                      /\ State = "review_required" => BundleValid(TRUE)
    BY DEF SealedVerifiable
  <2>1. SealsSound /\ ReviewSound /\ ArtifactsSound
    BY DEF SealInv, IInv
  <2>2. /\ manifest # None /\ EvidenceBound(manifest.state = "aborted") /\ ManifestValid(Sealed)
    BY <2>1 DEF SealsSound
  <2>3. EvidenceBound( \/ State \in {"aborted", "interrupted", "capturing"}
                       \/ Sealed /\ manifest # None /\ manifest.state = "aborted" )
    <3>1. ( \/ State \in {"aborted", "interrupted", "capturing"}
            \/ Sealed /\ manifest # None /\ manifest.state = "aborted" )
          <=> manifest.state = "aborted"
      BY <2>2 DEF Sealed
    <3> QED BY <2>2, <3>1
  <2>4. PICK artifact : artifact = IF State = "sealed" /\ judgment # None THEN "judgment"
                                   ELSE IF State # "review_required" /\ bundle # None THEN "bundle"
                                   ELSE "none"
    OBVIOUS
  <2>5. State = "judged" => JudgmentValid(TRUE) /\ judgment # None
    BY <2>1, JudgedValid DEF ReviewSound
  <2>6. State = "review_required" => BundleValid(TRUE) /\ bundle # None
    BY <2>1 DEF ReviewSound
  <2>7. State = "sealed" => ~(judgment # None /\ bundle # None)
    BY <2>1 DEF ReviewSound, ArtifactsSound, JudgmentSound
  <2>8. State \in {"sealed", "judged", "review_required"}
    BY DEF Sealed
  <2>9. VerifyCore(artifact)
    BY <2>2, <2>3, <2>4, <2>5, <2>6, <2>7, <2>8 DEF VerifyCore
  <2> QED BY <2>4, <2>5, <2>6, <2>9
<1> QED BY <1>1, RunInvariant, SealInvariant, PTL

-----------------------------------------------------------------------------
(* One careful operator.  What CaptureOperator's rules add to one command   *)
(* at a time: what a command leaves behind is always evidence that a later  *)
(* command of this operator accounts for, before the capture ends.          *)

CompleteAt(n) == attempts[n].record # None /\ attempts[n].record.complete

\* An attempt has no record, and bytes are described by no record.
Open  == \E n \in DOMAIN attempts : attempts[n].record = None
Loose == blobs \ Evidence

\* Each recorded attempt has the one event of its request.
RequestsBound ==
  /\ \A i \in EventsOf({"request_preserved"}) : ledger[i].att \in DOMAIN attempts
  /\ \A i, j \in EventsOf({"request_preserved"}) : ledger[i].att = ledger[j].att => i = j
  /\ \A n \in DOMAIN attempts :
       attempts[n].record # None => EventsFor("request_preserved", n) # {}

\* A complete attempt is the last one, and no recovery passes over it.
ResponsesBound ==
  /\ \A i \in EventsOf({"response_preserved"}) :
       /\ ledger[i].att \in DOMAIN attempts /\ CompleteAt(ledger[i].att)
       /\ ledger[i].ref = attempts[ledger[i].att].record.blob
  /\ \A i, j \in EventsOf({"response_preserved"}) : i = j
  /\ \A i, j \in EventsOf({"capture_completed"}) : i = j
  /\ \A n \in DOMAIN attempts : CompleteAt(n) =>
       /\ n = Len(attempts)
       /\ State \notin {"execution_authorized", "interrupted", "aborted"}

\* Bytes without a record are those of the last attempt or of the next recovery.
InventoryBound ==
  /\ Evidence \subseteq blobs
  /\ \A b, c \in Loose : b = c
  /\ Loose # {} => State = "interrupted" \/ (State = "capturing" /\ Open)
  /\ State = "captured" => ~Open

\* A recovery is finished before the capture goes on, and an abort names the last attempt.
RecoveriesBound ==
  /\ IncompleteRecoveries # {} =>
       State \in {"capturing", "interrupted"} /\ Loose = {} /\ \A n \in DOMAIN attempts : ~CompleteAt(n)
  /\ \A i \in IncompleteRecoveries :
       recs[i].att = Len(attempts) /\ recs[i].action \in {"resume", "abort"}
  /\ State = "aborted" => \E r \in Range(recs) : r.att = Len(attempts)

DiskBound == RequestsBound /\ ResponsesBound /\ InventoryBound /\ RecoveriesBound

\* What is left to append of the last attempt.
Committing(todo) ==
  LET n == Len(attempts)
      record == attempts[n].record
  IN /\ n \in DOMAIN attempts /\ record # None
     /\ ~Open /\ State = "capturing" /\ Loose = {} /\ IncompleteRecoveries = {}
     /\ \/ ~record.complete /\ \E t \in {"attempt_interrupted", "metadata_rejected"} :
             todo = << AttemptEvent(t, n), InterruptedEvent(n) >>
        \/ ~record.complete /\ todo = << InterruptedEvent(n) >>
        \/ record.complete /\ EventsOf({"response_preserved"}) = {}
             /\ todo = << ResponseEvent(n, record.blob), CapturedEvent(n) >>
        \/ record.complete /\ todo = << CapturedEvent(n) >>

Capturing == {"scan"} \cup Owning
Answered == {"reuse", "record", "record_reused"}
Unasked == {"request", "request_event"}
Recoverer == {"recovery_record", "recovery_check", "recovery_append"}

Operating(me) ==
  /\ me.pc \in Capturing => State = "capturing" /\ IncompleteRecoveries = {}
  /\ me.pc \in Capturing \ Answered => Loose = {}
  /\ me.pc \in Answered => Loose \subseteq {me.out.blob}
  /\ me.pc \in Unasked => EventsFor("request_preserved", me.n) = {}
  /\ me.pc = "append" /\ manifest = None => Committing(me.todo)
  /\ me.pc \in Recoverer =>
       /\ me.rec.att = Len(attempts) /\ me.rec.action \in {"resume", "abort"}
       /\ \A n \in DOMAIN attempts : ~CompleteAt(n)
  /\ me.pc = "recovery_record" =>
       /\ Loose \subseteq {me.rec.partial} /\ (me.rec.partial # None => me.rec.partial \in blobs)
       /\ State \in {"capturing", "interrupted"}
  /\ me.pc \in {"recovery_check", "recovery_append"} =>
       /\ \A i \in IncompleteRecoveries : recs[i] = me.rec
       /\ \A j \in 1 .. me.n - 1 : Present(RecoveryEvents(me.rec)[j])

OperatorInv == DiskBound /\ \A p \in Procs : Operating(loc[p])

-----------------------------------------------------------------------------
(* What a step leaves as it was.                                           *)

LEMMA SameView ==
  ASSUME UNCHANGED <<ledger, attempts, recs, blobs>>
  PROVE  /\ State' = State /\ Loose' = Loose /\ Open' = Open
         /\ IncompleteRecoveries' = IncompleteRecoveries
         /\ \A types : EventsOf(types)' = EventsOf(types)
         /\ \A type, n : EventsFor(type, n)' = EventsFor(type, n)
         /\ \A n : CompleteAt(n)' = CompleteAt(n)
         /\ \A f : Present(f)' <=> Present(f)
         /\ \A r : RecoveryEvents(r)' = RecoveryEvents(r)
         /\ DiskBound => DiskBound'
<1>1. /\ State' = State /\ Evidence' = Evidence /\ \A types : EventsOf(types)' = EventsOf(types)
  BY SameEvidence
<1>2. IncompleteRecoveries' = IncompleteRecoveries /\ \A f : Present(f)' <=> Present(f)
  BY SameRecoveries
<1>3. \A type, n : EventsFor(type, n)' = EventsFor(type, n)
  BY <1>1 DEF EventsFor
<1>4. Loose' = Loose /\ Open' = Open /\ \A n : CompleteAt(n)' = CompleteAt(n)
  BY <1>1 DEF Loose, Open, CompleteAt
<1>5. \A r : RecoveryEvents(r)' = RecoveryEvents(r)
  BY DEF RecoveryEvents, Occurrence, Draft
<1>6. /\ RequestsBound => RequestsBound'
  BY <1>1, <1>3 DEF RequestsBound
<1>7. ResponsesBound => ResponsesBound'
  BY <1>1, <1>4 DEF ResponsesBound
<1>8. InventoryBound => InventoryBound'
  BY <1>1, <1>4 DEF InventoryBound
<1>9. RecoveriesBound => RecoveriesBound'
  BY <1>1, <1>2, <1>4 DEF RecoveriesBound
<1> QED BY <1>1, <1>2, <1>3, <1>4, <1>5, <1>6, <1>7, <1>8, <1>9 DEF DiskBound

\* What an event may say for the evidence to stay accounted for.
Accounted(e) ==
  /\ e.type = "request_preserved" =>
       e.att \in DOMAIN attempts /\ EventsFor("request_preserved", e.att) = {}
  /\ e.type = "response_preserved" =>
       /\ e.att \in DOMAIN attempts /\ CompleteAt(e.att) /\ e.ref = attempts[e.att].record.blob
       /\ EventsOf({"response_preserved"}) = {}
  /\ To(e) \in {"interrupted", "aborted"} => \A n \in DOMAIN attempts : ~CompleteAt(n)
  /\ Loose # {} => To(e) = "interrupted" \/ (To(e) = "capturing" /\ Open)
  /\ To(e) = "captured" => ~Open
  /\ To(e) = "aborted" => \E r \in Range(recs) : r.att = Len(attempts)

LEMMA AppendedBound ==
  ASSUME IInv, DiskBound, NEW e, Legal(e), Publish(e), Accounted(e),
         UNCHANGED <<attempts, recs, blobs>>,
         IncompleteRecoveries' # {} => To(e) \in {"capturing", "interrupted"}
  PROVE  DiskBound'
<1>1. LedgerSound /\ Appended(e) /\ State' = To(e)
  BY PublishAppends DEF IInv, Appended
<1>2. \A types : EventsOf(types)' = EventsThen(e, types)
  BY <1>1, NewEvents
<1>3. /\ \A i \in DOMAIN ledger : ledger'[i] = ledger[i]
      /\ ledger'[Len(ledger) + 1].att = e.att /\ ledger'[Len(ledger) + 1].ref = e.ref
  BY <1>1 DEF Appended
<1>4. View' = View
  BY DEF View
<1>5. Evidence' = Evidence
  BY <1>4 DEF Evidence, Range
<1>6. Loose' = Loose /\ Open' = Open /\ \A n : CompleteAt(n)' = CompleteAt(n)
  BY <1>5 DEF Loose, Open, CompleteAt
<1>7. \A types : \A i \in EventsOf(types) : i \in DOMAIN ledger /\ ledger[i].type \in types
  BY DEF EventsOf
<1>8. RequestsBound'
  <2>1. CASE e.type = "request_preserved"
    <3>1. EventsOf({"request_preserved"})' = EventsOf({"request_preserved"}) \cup {Len(ledger) + 1}
      BY <1>2, <2>1 DEF EventsThen
    <3>2. \A i \in EventsOf({"request_preserved"}) : ledger[i].att # e.att
      BY <2>1 DEF Accounted, EventsFor
    <3>3. \A n : EventsFor("request_preserved", n) # {} => EventsFor("request_preserved", n)' # {}
      BY <1>3, <1>7, <3>1 DEF EventsFor
    <3> QED BY <1>3, <1>7, <2>1, <3>1, <3>2, <3>3 DEF RequestsBound, DiskBound, Accounted
  <2>2. CASE e.type # "request_preserved"
    <3>1. EventsOf({"request_preserved"})' = EventsOf({"request_preserved"})
      BY <1>2, <2>2 DEF EventsThen
    <3>2. \A n : EventsFor("request_preserved", n)' = EventsFor("request_preserved", n)
      BY <1>3, <1>7, <3>1 DEF EventsFor
    <3> QED BY <1>3, <1>7, <3>1, <3>2 DEF RequestsBound, DiskBound
  <2> QED BY <2>1, <2>2
<1>9. ResponsesBound'
  <2>1. /\ \A i \in EventsOf({"response_preserved"})' :
             /\ ledger'[i].att \in DOMAIN attempts /\ CompleteAt(ledger'[i].att)
             /\ ledger'[i].ref = attempts[ledger'[i].att].record.blob
        /\ \A i, j \in EventsOf({"response_preserved"})' : i = j
    <3>1. CASE e.type = "response_preserved"
      <4>1. EventsOf({"response_preserved"})' = {Len(ledger) + 1}
        BY <1>2, <3>1 DEF EventsThen, Accounted
      <4> QED BY <1>3, <3>1, <4>1 DEF Accounted
    <3>2. CASE e.type # "response_preserved"
      <4>1. EventsOf({"response_preserved"})' = EventsOf({"response_preserved"})
        BY <1>2, <3>2 DEF EventsThen
      <4> QED BY <1>3, <1>7, <4>1 DEF ResponsesBound, DiskBound
    <3> QED BY <3>1, <3>2
  <2>2. \A i, j \in EventsOf({"capture_completed"})' : i = j
    <3>1. CASE e.type = "capture_completed"
      <4>1. State = "capturing"
        BY <1>1, <3>1, Moves
      <4>2. EventsOf({"capture_completed"}) = {}
        BY <1>1, <4>1 DEF LedgerSound, EventsOf, StatesAfter
      <4> QED BY <1>2, <3>1, <4>2 DEF EventsThen
    <3>2. CASE e.type # "capture_completed"
      <4>1. EventsOf({"capture_completed"})' = EventsOf({"capture_completed"})
        BY <1>2, <3>2 DEF EventsThen
      <4> QED BY <4>1 DEF ResponsesBound, DiskBound
    <3> QED BY <3>1, <3>2
  <2>3. To(e) # "execution_authorized"
    BY <1>1, Moves
  <2>4. \A n \in DOMAIN attempts : CompleteAt(n) =>
           n = Len(attempts) /\ To(e) \notin {"execution_authorized", "interrupted", "aborted"}
    BY <2>3 DEF ResponsesBound, DiskBound, Accounted
  <2> QED BY <1>1, <1>6, <2>1, <2>2, <2>4 DEF ResponsesBound
<1>10. InventoryBound'
  BY <1>1, <1>5, <1>6 DEF InventoryBound, DiskBound, Accounted
<1>11. RecoveriesBound'
  <2>1. IncompleteRecoveries' \subseteq IncompleteRecoveries
    BY <1>1, IncompleteAfter
  <2> QED BY <1>1, <1>6, <2>1 DEF RecoveriesBound, DiskBound, Accounted
<1> QED BY <1>8, <1>9, <1>10, <1>11 DEF DiskBound

LEMMA OperatingAfter ==
  ASSUME OneCommand, NEW p \in Procs, NEW me, me = loc'[p], Operating(me)'
  PROVE  \A q \in Procs : Operating(loc[q])'
<1>1. \A q \in Procs : loc'[q] = me
  BY DEF OneCommand
<1> QED BY <1>1

Aside == { "idle", "begin", "seal_write", "judge_write", "bundle_verify", "bundle_write" }

LEMMA AsideOperates == ASSUME NEW me, me.pc \in Aside PROVE Operating(me)'
  BY DEF Operating, Aside, Capturing, Owning, Answered, Unasked, Recoverer

\* Nothing is written and the command is at such a step.
LEMMA StepsAside ==
  ASSUME OneCommand, OperatorInv, NEW p \in Procs, UNCHANGED <<ledger, attempts, recs, blobs>>,
         NEW me, me = loc'[p], me.pc \in Aside
  PROVE  OperatorInv'
  BY SameView, AsideOperates, OperatingAfter DEF OperatorInv

LEMMA FinishOperates ==
  ASSUME IInv, OneCommand, OperatorInv, NEW p \in Procs, Finish(p),
         UNCHANGED <<ledger, attempts, recs, blobs>>
  PROVE  OperatorInv'
<1>1. PICK me : me = loc'[p]
  OBVIOUS
<1>2. me.pc \in Aside
  BY <1>1, Landing DEF Idle, Aside
<1> QED BY <1>1, <1>2, StepsAside

\* An artifact is about to be bound.
LEMMA SealerOperates ==
  ASSUME OneCommand, OperatorInv, NEW p \in Procs, UNCHANGED <<ledger, attempts, recs, blobs>>,
         NEW me, me = loc'[p], me.pc = "append", manifest' # None
  PROVE  OperatorInv'
<1>1. Operating(me)'
  BY DEF Operating, Aside, Capturing, Owning, Answered, Unasked, Recoverer
<1> QED BY <1>1, SameView, OperatingAfter DEF OperatorInv

-----------------------------------------------------------------------------
(* The commands on sealed evidence.                                        *)

LEMMA ArtifactStepOperates ==
  ASSUME IInv, OneCommand, SealInv, SealInv', OperatorInv, NEW p \in Procs,
         \/ SealStart(p) \/ SealWrite(p) \/ JudgeStart(p) \/ JudgeWrite(p)
         \/ BundleStart(p) \/ BundleVerify(p) \/ BundleWrite(p) \/ Kill(p)
  PROVE  OperatorInv'
<1>1. UNCHANGED <<ledger, attempts, recs, blobs>>
  BY DEF SealStart, SealWrite, JudgeStart, JudgeWrite, BundleStart, BundleVerify, BundleWrite, Kill,
         KeepDisk, disk
<1>2. PICK me : me = loc'[p]
  OBVIOUS
<1>3. CASE me.pc \in Aside
  BY <1>1, <1>2, <1>3, StepsAside
<1>4. CASE me.pc = "append" /\ manifest' # None
  BY <1>1, <1>2, <1>4, SealerOperates
<1>5. CASE SealStart(p)
  <2>1. me.pc \in Aside \/ (me.pc = "append" /\ manifest # None)
    BY <1>2, <1>5, Landing DEF SealStart, Idle, Aside
  <2>2. manifest' = manifest
    BY <1>5 DEF SealStart, KeepDisk, disk
  <2> QED BY <1>3, <1>4, <2>1, <2>2
<1>6. CASE SealWrite(p)
  <2>1. CASE Finish(p)
    BY <1>1, <2>1, FinishOperates
  <2>2. CASE /\ manifest' = loc[p].art
             /\ Start(p, [ Idle EXCEPT !.pc = "append", !.todo = << SealEvent(loc[p].art) >> ])
    <3>1. me.pc = "append"
      BY <1>2, <2>2, Landing DEF Idle
    <3>2. loc[p].art \in Manifests
      BY <1>6 DEF SealWrite, At, IInv, StateSound, ManifestSound
    <3>3. manifest' # None
      BY <2>2, <3>2, NoneAssumption
    <3> QED BY <1>4, <3>1, <3>3
  <2> QED BY <1>6, <2>1, <2>2 DEF SealWrite
<1>7. CASE JudgeStart(p)
  <2>1. manifest # None /\ manifest' = manifest
    BY <1>7 DEF JudgeStart, KeepDisk, disk, SealInv, SealsSound, Sealed
  <2>2. me.pc \in {"judge_write", "append"}
    BY <1>2, <1>7, Landing DEF JudgeStart, Idle
  <2> QED BY <1>3, <1>4, <2>1, <2>2 DEF Aside
<1>8. CASE JudgeWrite(p)
  <2>1. manifest # None /\ manifest' = manifest
    BY <1>8 DEF JudgeWrite, At, SealInv, Sealing
  <2>2. me.pc \in {"idle", "append"}
    <3>1. Finish(p) \/ \E todo : Start(p, [ Idle EXCEPT !.pc = "append", !.todo = todo ])
      BY <1>8 DEF JudgeWrite
    <3>2. CASE Finish(p)
      BY <1>2, <3>2, Landing DEF Idle
    <3>3. CASE \E todo : Start(p, [ Idle EXCEPT !.pc = "append", !.todo = todo ])
      BY <1>2, <3>3, Landing DEF Idle
    <3> QED BY <3>1, <3>2, <3>3
  <2> QED BY <1>3, <1>4, <2>1, <2>2 DEF Aside
<1>9. CASE BundleStart(p)
  <2>1. manifest' = manifest
    BY <1>9 DEF BundleStart, KeepDisk, disk
  <2>2. CASE bundle = None
    <3>1. me.pc = "bundle_verify"
      BY <1>2, <1>9, <2>2, Landing DEF BundleStart, Idle
    <3> QED BY <1>3, <3>1 DEF Aside
  <2>3. CASE bundle # None
    <3>1. manifest # None
      BY <2>3 DEF SealInv, SealsSound, ReviewSound
    <3>2. me.pc = "append"
      BY <1>2, <1>9, <2>3, Landing DEF BundleStart, Idle
    <3> QED BY <1>4, <2>1, <3>1, <3>2
  <2> QED BY <2>2, <2>3
<1>10. CASE BundleVerify(p)
  <2>1. CASE Finish(p)
    BY <1>1, <2>1, FinishOperates
  <2>2. CASE \E art : Start(p, [ Idle EXCEPT !.pc = "bundle_write", !.art = art ])
    <3>1. me.pc = "bundle_write"
      BY <1>2, <2>2, Landing DEF Idle
    <3> QED BY <1>3, <3>1 DEF Aside
  <2> QED BY <1>10, <2>1, <2>2 DEF BundleVerify
<1>11. CASE BundleWrite(p)
  <2>1. manifest # None /\ manifest' = manifest
    BY <1>11 DEF BundleWrite, At, SealInv, Sealing, Reviewable, SealsSound, Sealed
  <2>2. me.pc \in {"idle", "append"}
    <3>1. Finish(p) \/ \E todo : Start(p, [ Idle EXCEPT !.pc = "append", !.todo = todo ])
      BY <1>11 DEF BundleWrite
    <3>2. CASE Finish(p)
      BY <1>2, <3>2, Landing DEF Idle
    <3>3. CASE \E todo : Start(p, [ Idle EXCEPT !.pc = "append", !.todo = todo ])
      BY <1>2, <3>3, Landing DEF Idle
    <3> QED BY <3>1, <3>2, <3>3
  <2> QED BY <1>3, <1>4, <2>1, <2>2 DEF Aside
<1>12. CASE Kill(p)
  BY <1>1, <1>12, FinishOperates DEF Kill
<1> QED BY <1>5, <1>6, <1>7, <1>8, <1>9, <1>10, <1>11, <1>12

-----------------------------------------------------------------------------
(* capture_attempt.                                                        *)

LEMMA ReadableIsRecorded ==
  ASSUME EvidenceSound
  PROVE  AttemptsReadable(FALSE) <=> ~Open
  BY DEF EvidenceSound, AttemptsReadable, AttemptReadable, Open

LEMMA CaptureStartOperates ==
  ASSUME IInv, OneCommand, OperatorInv, NEW p \in Procs, OperatorCapture(p)
  PROVE  OperatorInv'
<1>1. CaptureStart(p) /\ IncompleteRecoveries = {} /\ ~Open
  BY ReadableIsRecorded DEF OperatorCapture, IInv
<1>2. UNCHANGED <<ledger, attempts, recs, blobs>>
  BY <1>1 DEF CaptureStart, KeepDisk, disk
<1>3. PICK me : me = loc'[p]
  OBVIOUS
<1>4. CASE Goto(p, "begin")
  <2>1. me.pc = "begin"
    BY <1>3, <1>4, Landing
  <2> QED BY <1>2, <1>3, <2>1, StepsAside DEF Aside
<1>5. CASE State = "capturing" /\ Goto(p, "scan")
  <2>1. me.pc = "scan"
    BY <1>3, <1>5, Landing
  <2>2. Loose = {}
    BY <1>1, <1>5 DEF OperatorInv, DiskBound, InventoryBound
  <2>3. Operating(me)'
    BY <1>1, <1>2, <1>5, <2>1, <2>2, SameView
       DEF Operating, Capturing, Answered, Unasked, Recoverer, Owning
  <2> QED BY <1>2, <1>3, <2>3, SameView, OperatingAfter DEF OperatorInv
<1> QED BY <1>1, <1>4, <1>5 DEF CaptureStart

LEMMA CaptureBeginOperates ==
  ASSUME IInv, OneCommand, RecInv, OperatorInv, NEW p \in Procs, CaptureBegin(p)
  PROVE  OperatorInv'
<1>1. State = "execution_authorized" /\ UNCHANGED <<attempts, recs, blobs>>
  BY DEF CaptureBegin, At, RecInv, Recovering
<1>2. \A t \in Life!TransitionEvents :
         t[1] = "execution_authorized" /\ t[2] = "capturing" => t[3] = "capture_started"
  BY DEF Life!TransitionEvents, Life!NoState
<1>3. PICK me : me = loc'[p]
  OBVIOUS
<1>4. CASE Finish(p) /\ ledger' = ledger
  BY <1>1, <1>4, FinishOperates
<1>5. CASE /\ \E type \in { t[3] : t \in { u \in Life!TransitionEvents : u[1] = State /\ u[2] = "capturing" } } :
                 Publish(Draft(type, "capturing", 1, None, None))
           /\ Goto(p, "scan")
  <2>1. PICK e : e = Draft("capture_started", "capturing", 1, None, None)
    OBVIOUS
  <2>2. Publish(e)
    BY <1>1, <1>2, <1>5, <2>1
  <2>3. e.type = "capture_started" /\ e.to = "capturing" /\ To(e) = "capturing" /\ Legal(e)
    <3>1. e.type = "capture_started" /\ e.to = "capturing"
      BY <2>1 DEF Draft
    <3>2. e.to # None
      BY <3>1, NoneAssumption DEF Life!States
    <3>3. <<"execution_authorized", "capturing", "capture_started">> \in Life!TransitionEvents
      BY DEF Life!TransitionEvents, Life!NoState
    <3> QED BY <1>1, <3>1, <3>2, <3>3 DEF To, Legal
  <2>4. Loose = {} /\ IncompleteRecoveries = {}
    BY <1>1 DEF OperatorInv, DiskBound, InventoryBound, RecoveriesBound
  <2>5. Accounted(e)
    BY <2>3, <2>4 DEF Accounted
  <2>6. DiskBound'
    BY <1>1, <2>2, <2>3, <2>5, AppendedBound DEF OperatorInv
  <2>7. State' = "capturing" /\ Loose' = {} /\ IncompleteRecoveries' = {}
    <3>1. Appended(e) /\ State' = "capturing"
      BY <2>2, <2>3, PublishAppends DEF IInv, Appended
    <3>2. IncompleteRecoveries' = {}
      BY <1>1, <2>4, <3>1, IncompleteAfter DEF IInv
    <3>3. View' = View
      BY <1>1 DEF View
    <3>4. Loose' = Loose
      BY <1>1, <3>3 DEF Loose, Evidence, Range
    <3> QED BY <2>4, <3>1, <3>2, <3>4
  <2>8. me.pc = "scan"
    BY <1>3, <1>5, Landing
  <2>9. Operating(me)'
    BY <2>7, <2>8 DEF Operating, Capturing, Answered, Unasked, Recoverer, Owning
  <2> QED BY <1>3, <2>6, <2>9, OperatingAfter DEF OperatorInv
<1> QED BY <1>4, <1>5 DEF CaptureBegin

\* Where the complete attempt is: it is the last, and its response has one event.
LEMMA ResponseOfLast ==
  ASSUME DiskBound, NEW n, n = Len(attempts)
  PROVE  EventsFor("response_preserved", n) = EventsOf({"response_preserved"})
  BY DEF DiskBound, ResponsesBound, EventsFor

LEMMA CommittingOperates ==
  ASSUME NEW me, NEW todo, me.pc = "append", me.todo = todo, Committing(todo)'
  PROVE  Operating(me)'
  BY DEF Operating, Capturing, Answered, Unasked, Recoverer, Owning

LEMMA SameCommitting ==
  ASSUME UNCHANGED <<ledger, attempts, recs, blobs>>, NEW todo, Committing(todo)
  PROVE  Committing(todo)'
  BY SameView DEF Committing, AttemptEvent, InterruptedEvent, ResponseEvent, CapturedEvent,
                  Occurrence, Draft

LEMMA CaptureReconcileOperates ==
  ASSUME IInv, OneCommand, OperatorInv, NEW p \in Procs, CaptureReconcile(p)
  PROVE  OperatorInv'
<1>1. PICK n, record : n = Len(attempts) /\ record = attempts[n].record
  OBVIOUS
<1>2. PICK todo : todo = IF record.complete
                           THEN ( IF EventsFor("response_preserved", n) = {}
                                    THEN << ResponseEvent(n, record.blob) >> ELSE <<>> )
                                \o << CapturedEvent(n) >>
                           ELSE << AttemptEvent("attempt_interrupted", n), InterruptedEvent(n) >>
  OBVIOUS
<1>3. PICK me : me = [ Idle EXCEPT !.pc = "append", !.todo = todo ]
  OBVIOUS
<1>4. loc'[p] = me
  BY <1>1, <1>2, <1>3, Landing DEF CaptureReconcile, LastRecord
<1>5. me.pc = "append" /\ me.todo = todo
  BY <1>3, StartsAppend
<1>6. UNCHANGED <<ledger, attempts, recs, blobs>>
  BY DEF CaptureReconcile, KeepDisk, disk
<1>7. n \in DOMAIN attempts /\ ~Open
  <2>1. attempts # <<>> /\ AttemptsReadable(FALSE)
    BY DEF CaptureReconcile, Reconcilable
  <2>2. Len(attempts) \in Nat /\ DOMAIN attempts = 1 .. Len(attempts) /\ Len(attempts) # 0
    BY <2>1, AttemptPositions, EmptySeq DEF IInv, EvidenceSound
  <2>3. n \in DOMAIN attempts
    BY <1>1, <2>2
  <2> QED BY <2>1, <2>3, ReadableIsRecorded DEF IInv
<1>8. record # None
  BY <1>1, <1>7 DEF Open
<1>9. State = "capturing" /\ Loose = {} /\ IncompleteRecoveries = {}
  BY DEF CaptureReconcile, At, OperatorInv, Operating, Capturing, Answered
<1>10. EventsFor("response_preserved", n) = EventsOf({"response_preserved"})
  BY <1>1, ResponseOfLast DEF OperatorInv
<1>11. << ResponseEvent(n, record.blob) >> \o << CapturedEvent(n) >>
         = << ResponseEvent(n, record.blob), CapturedEvent(n) >>
  BY TwoInARow
<1>12. <<>> \o << CapturedEvent(n) >> = << CapturedEvent(n) >>
  <2>1. PICK S : S = { CapturedEvent(n) }
    OBVIOUS
  <2>2. << CapturedEvent(n) >> \in Seq(S)
    BY <2>1
  <2> QED BY <2>2, ConcatEmptySeq
<1>13. \/ ~record.complete
            /\ todo = << AttemptEvent("attempt_interrupted", n), InterruptedEvent(n) >>
       \/ record.complete /\ EventsOf({"response_preserved"}) = {}
            /\ todo = << ResponseEvent(n, record.blob), CapturedEvent(n) >>
       \/ record.complete /\ todo = << CapturedEvent(n) >>
  BY <1>2, <1>10, <1>11, <1>12
<1>14. Committing(todo)
  BY <1>1, <1>7, <1>8, <1>9, <1>13 DEF Committing
<1>15. Operating(me)'
  BY <1>5, <1>6, <1>14, SameCommitting, CommittingOperates
<1> QED BY <1>4, <1>6, <1>15, SameView, OperatingAfter DEF OperatorInv

\* An attempt is made only when those before it were interrupted.
LEMMA CaptureCreateOperates ==
  ASSUME IInv, OneCommand, OperatorInv, NEW p \in Procs, CaptureCreate(p)
  PROVE  OperatorInv'
<1>1. PICK n, new : n = Len(attempts) + 1 /\ new = [ request |-> FALSE, record |-> None ]
  OBVIOUS
<1>2. /\ attempts' = Append(attempts, new) /\ UNCHANGED <<ledger, recs, blobs>>
      /\ Start(p, [ Idle EXCEPT !.pc = "request", !.n = n ])
  BY <1>1 DEF CaptureCreate
<1>3. /\ Len(attempts) \in Nat /\ DOMAIN attempts = 1 .. Len(attempts)
      /\ DOMAIN attempts' = 1 .. n /\ Len(attempts') = n /\ attempts'[n] = new
      /\ \A m \in DOMAIN attempts : m # n /\ attempts'[m] = attempts[m]
  <2>1. attempts \in Seq(StoredAttempts) /\ new \in StoredAttempts
    BY <1>1 DEF IInv, EvidenceSound, StoredAttempts
  <2>2. /\ Len(attempts') = Len(attempts) + 1 /\ attempts' \in Seq(StoredAttempts)
        /\ \A m \in 1 .. Len(attempts) : attempts'[m] = attempts[m]
        /\ attempts'[Len(attempts) + 1] = new
    BY <1>2, <2>1, AppendProperties
  <2>3. /\ Len(attempts) \in Nat /\ DOMAIN attempts = 1 .. Len(attempts)
        /\ DOMAIN attempts' = 1 .. Len(attempts')
    BY <2>1, <2>2, LenProperties
  <2>4. \A m \in DOMAIN attempts : m # n
    BY <1>1, <2>3
  <2> QED BY <1>1, <2>2, <2>3, <2>4
<1>4. State = "capturing" /\ Loose = {} /\ IncompleteRecoveries = {}
  BY DEF CaptureCreate, At, OperatorInv, Operating, Capturing, Answered
<1>5. \A m \in DOMAIN attempts : ~CompleteAt(m)
  <2> SUFFICES ASSUME NEW m \in DOMAIN attempts, CompleteAt(m) PROVE FALSE
    OBVIOUS
  <2>1. m = Len(attempts)
    BY DEF OperatorInv, DiskBound, ResponsesBound
  <2>2. Terminal(m)
    <3>1. attempts # <<>>
      OBVIOUS
    <3> QED BY <2>1, <3>1 DEF CaptureCreate, NewAttemptPermitted
  <2>3. PICK i \in EventsOf({"capture_completed", "capture_interrupted"}) : ledger[i].att = m
    BY <2>2 DEF Terminal
  <2>4. m # 0
    BY <1>3
  <2>5. CASE ledger[i].type = "capture_interrupted"
    <3>1. i \in EventsOf({"capture_interrupted"})
      BY <2>5 DEF EventsOf
    <3> QED BY <2>3, <2>4, <3>1 DEF IInv, EvidenceSound, Interrupted, CompleteAt
  <2>6. CASE ledger[i].type = "capture_completed"
    <3>1. i \in DOMAIN ledger
      BY DEF EventsOf
    <3>2. State \in StatesAfter("capture_completed")
      BY <2>6, <3>1 DEF IInv, LedgerSound
    <3> QED BY <1>4, <3>2 DEF StatesAfter
  <2> QED BY <2>5, <2>6 DEF EventsOf
<1>6. /\ State' = State /\ \A types : EventsOf(types)' = EventsOf(types)
      /\ \A type, m : EventsFor(type, m)' = EventsFor(type, m)
      /\ IncompleteRecoveries' = IncompleteRecoveries
  BY <1>2, SameRecoveries DEF State, EventsOf, EventsFor
<1>7. \A m \in DOMAIN attempts' : ~CompleteAt(m)'
  BY <1>1, <1>3, <1>5 DEF CompleteAt
<1>8. Evidence' = Evidence
  <2>1. DOMAIN View = DOMAIN attempts /\ DOMAIN View' = DOMAIN attempts \cup {n}
    BY <1>1, <1>3 DEF View
  <2>2. \A m \in DOMAIN attempts : View'[m] = View[m]
    BY <1>1, <1>3 DEF View
  <2>3. View'[n].blob = None
    BY <1>1, <1>3 DEF View, Uncommitted
  <2>4. { View'[m].blob : m \in DOMAIN View' } = { View[m].blob : m \in DOMAIN View } \cup {None}
    BY <2>1, <2>2, <2>3
  <2> QED BY <1>2, <2>4 DEF Evidence, Range
<1>9. Loose' = Loose
  BY <1>2, <1>8 DEF Loose
<1>10. RequestsBound'
  <2>1. \A i \in EventsOf({"request_preserved"}) : ledger[i].att \in DOMAIN attempts'
    BY <1>1, <1>3 DEF OperatorInv, DiskBound, RequestsBound
  <2>2. \A m \in DOMAIN attempts' : attempts'[m].record # None => m \in DOMAIN attempts
    BY <1>1, <1>3
  <2> QED BY <1>2, <1>3, <1>6, <2>1, <2>2 DEF OperatorInv, DiskBound, RequestsBound
<1>11. ResponsesBound'
  <2>1. EventsOf({"response_preserved"}) = {}
    BY <1>5 DEF OperatorInv, DiskBound, ResponsesBound
  <2> QED BY <1>2, <1>6, <1>7, <2>1 DEF OperatorInv, DiskBound, ResponsesBound
<1>12. InventoryBound'
  BY <1>2, <1>4, <1>6, <1>8, <1>9 DEF OperatorInv, DiskBound, InventoryBound
<1>13. RecoveriesBound'
  BY <1>4, <1>6 DEF RecoveriesBound
<1>14. PICK me : me = [ Idle EXCEPT !.pc = "request", !.n = n ]
  OBVIOUS
<1>15. me = loc'[p] /\ me.pc = "request" /\ me.n = n
  BY <1>2, <1>14, Landing DEF Idle
<1>16. EventsFor("request_preserved", n) = {}
  <2>1. n \notin DOMAIN attempts
    BY <1>1, <1>3
  <2> QED BY <2>1 DEF EventsFor, OperatorInv, DiskBound, RequestsBound
<1>17. Operating(me)'
  BY <1>4, <1>6, <1>9, <1>15, <1>16
     DEF Operating, Capturing, Answered, Unasked, Recoverer, Owning
<1> QED BY <1>10, <1>11, <1>12, <1>13, <1>15, <1>17, OperatingAfter DEF OperatorInv, DiskBound

\* Where a command goes on, it keeps what it holds.
LEMMA KeepsHolding ==
  ASSUME IInv, NEW p \in Procs, NEW step, Goto(p, step)
  PROVE  loc'[p].pc = step /\ loc'[p].n = loc[p].n /\ loc'[p].out = loc[p].out
<1>1. PICK new : /\ loc' = [ loc EXCEPT ![p] = new ] /\ IsState(new) /\ new.pc = step
                 /\ new.n = loc[p].n /\ new.out = loc[p].out
  BY GoesTo
<1>2. loc = [ q \in Procs |-> loc[q] ]
  BY DEF IInv
<1>3. loc'[p] = new
  BY <1>1, <1>2
<1> QED BY <1>1, <1>3

\* A command that owns the last attempt finds the run as it left it.
LEMMA OwnerFinds ==
  ASSUME IInv, OperatorInv, NEW p \in Procs, loc[p].pc \in Owning
  PROVE  /\ loc[p].n = Len(attempts) /\ loc[p].n \in DOMAIN attempts
         /\ attempts[loc[p].n].record = None /\ Open
         /\ State = "capturing" /\ IncompleteRecoveries = {}
         /\ loc[p].pc \notin Answered => Loose = {}
         /\ loc[p].pc \in Answered => Loose \subseteq {loc[p].out.blob}
         /\ loc[p].pc \in Unasked => EventsFor("request_preserved", loc[p].n) = {}
<1>1. Operating(loc[p])
  BY DEF OperatorInv
<1>2. /\ loc[p].n = Len(attempts) /\ loc[p].n \in DOMAIN attempts
      /\ attempts[loc[p].n].record = None
  BY Owns
<1> QED BY <1>1, <1>2 DEF Operating, Capturing, Open

\* What an event that changes no file but the ledger leaves as it was.
LEMMA AppendedView ==
  ASSUME IInv, NEW e, Publish(e), UNCHANGED <<attempts, recs, blobs>>
  PROVE  /\ State' = To(e) /\ Loose' = Loose /\ Open' = Open
         /\ IncompleteRecoveries' \subseteq IncompleteRecoveries
         /\ \A n : CompleteAt(n)' = CompleteAt(n)
         /\ \A types : EventsOf(types)' = EventsThen(e, types)
<1>1. LedgerSound /\ Appended(e) /\ State' = To(e)
  BY PublishAppends DEF IInv, Appended
<1>2. View' = View
  BY DEF View
<1>3. Evidence' = Evidence
  BY <1>2 DEF Evidence, Range
<1>4. Loose' = Loose /\ Open' = Open /\ \A n : CompleteAt(n)' = CompleteAt(n)
  BY <1>3 DEF Loose, Open, CompleteAt
<1>5. IncompleteRecoveries' \subseteq IncompleteRecoveries
  BY <1>1, IncompleteAfter
<1>6. \A types : EventsOf(types)' = EventsThen(e, types)
  BY <1>1, NewEvents
<1> QED BY <1>1, <1>4, <1>5, <1>6

\* The request file says nothing of the record.
LEMMA CaptureRequestOperates ==
  ASSUME IInv, OneCommand, OperatorInv, NEW p \in Procs, CaptureRequest(p)
  PROVE  OperatorInv'
<1>1. loc[p].pc = "request" /\ loc[p].pc \in Owning /\ loc[p].pc \in Unasked
      /\ loc[p].pc \notin Answered
  BY DEF CaptureRequest, At, Owning, Unasked, Answered
<1>2. PICK n : n = loc[p].n
  OBVIOUS
<1>3. /\ n = Len(attempts) /\ n \in DOMAIN attempts
      /\ State = "capturing" /\ IncompleteRecoveries = {} /\ Loose = {}
      /\ EventsFor("request_preserved", n) = {}
  BY <1>1, <1>2, OwnerFinds
<1>4. UNCHANGED <<ledger, recs, blobs>> /\ Goto(p, "request_event")
      /\ attempts' = [ attempts EXCEPT ![n].request = TRUE ]
  BY <1>2 DEF CaptureRequest
<1>5. /\ DOMAIN attempts' = DOMAIN attempts /\ Len(attempts') = Len(attempts)
      /\ \A m \in DOMAIN attempts : attempts'[m].record = attempts[m].record
  <2>1. PICK a : a = [ attempts[n] EXCEPT !.request = TRUE ]
    OBVIOUS
  <2>2. attempts' = [ attempts EXCEPT ![n] = a ]
    BY <1>4, <2>1
  <2>3. attempts[n] \in StoredAttempts
    BY <1>3, AttemptPositions, ElementOfSeq DEF IInv, EvidenceSound
  <2>4. a \in StoredAttempts /\ a.record = attempts[n].record
    BY <2>1, <2>3 DEF StoredAttempts
  <2>5. DOMAIN attempts' = DOMAIN attempts /\ Len(attempts') = Len(attempts)
    BY <1>3, <2>2, <2>4, AttemptPositions, ExceptSeq, LenProperties DEF IInv, EvidenceSound
  <2> QED BY <1>3, <2>2, <2>4, <2>5
<1>6. /\ State' = State /\ \A types : EventsOf(types)' = EventsOf(types)
      /\ \A type, m : EventsFor(type, m)' = EventsFor(type, m)
      /\ IncompleteRecoveries' = IncompleteRecoveries
  BY <1>4, SameRecoveries DEF State, EventsOf, EventsFor
<1>7. View' = View
  BY <1>5 DEF View
<1>8. Evidence' = Evidence /\ Loose' = Loose
  BY <1>4, <1>7 DEF Evidence, Loose, Range
<1>9. Open' = Open /\ \A m \in DOMAIN attempts : CompleteAt(m)' = CompleteAt(m)
  BY <1>5 DEF Open, CompleteAt
<1>10. RequestsBound'
  BY <1>4, <1>5, <1>6 DEF OperatorInv, DiskBound, RequestsBound
<1>11. ResponsesBound'
  <2>1. EventsOf({"response_preserved"}) = {}
    <3> SUFFICES ASSUME NEW i \in EventsOf({"response_preserved"}) PROVE FALSE
      OBVIOUS
    <3>1. ledger[i].att \in DOMAIN attempts /\ CompleteAt(ledger[i].att)
      BY DEF OperatorInv, DiskBound, ResponsesBound
    <3>2. ledger[i].att = Len(attempts)
      BY <3>1 DEF OperatorInv, DiskBound, ResponsesBound
    <3>3. attempts[n].record = None
      BY <1>1, <1>2, OwnerFinds
    <3> QED BY <1>3, <3>1, <3>2, <3>3 DEF CompleteAt
  <2> QED BY <1>5, <1>6, <1>9, <2>1 DEF OperatorInv, DiskBound, ResponsesBound
<1>12. InventoryBound' /\ RecoveriesBound'
  BY <1>3, <1>4, <1>6, <1>8, <1>9 DEF OperatorInv, DiskBound, InventoryBound, RecoveriesBound
<1>13. PICK me : me = loc'[p]
  OBVIOUS
<1>14. me.pc = "request_event" /\ me.n = n
  BY <1>2, <1>4, <1>13, KeepsHolding
<1>15. Operating(me)'
  BY <1>3, <1>6, <1>8, <1>14 DEF Operating, Capturing, Answered, Unasked, Recoverer, Owning
<1> QED BY <1>10, <1>11, <1>12, <1>13, <1>15, OperatingAfter DEF OperatorInv, DiskBound

LEMMA CaptureRequestEventOperates ==
  ASSUME IInv, OneCommand, OperatorInv, NEW p \in Procs, CaptureRequestEvent(p)
  PROVE  OperatorInv'
<1>1. PICK e, n : n = loc[p].n /\ e = AttemptEvent("request_preserved", n)
  OBVIOUS
<1>2. UNCHANGED <<attempts, recs, blobs>>
  BY DEF CaptureRequestEvent
<1>3. CASE ledger' = ledger /\ Finish(p)
  BY <1>2, <1>3, FinishOperates
<1>4. CASE Legal(e) /\ Publish(e) /\ Goto(p, "send")
  <2>1. e.type = "request_preserved" /\ e.to = None /\ e.att = n /\ To(e) = State
    BY <1>1 DEF AttemptEvent, Occurrence, Draft, To
  <2>2. loc[p].pc \in Owning /\ loc[p].pc \in Unasked /\ loc[p].pc \notin Answered
    BY DEF CaptureRequestEvent, At, Owning, Unasked, Answered
  <2>3. /\ n \in DOMAIN attempts /\ State = "capturing" /\ IncompleteRecoveries = {} /\ Loose = {}
        /\ EventsFor("request_preserved", n) = {}
    BY <1>1, <2>2, OwnerFinds
  <2>4. Accounted(e)
    BY <2>1, <2>3 DEF Accounted
  <2>5. DiskBound'
    BY <1>2, <1>4, <2>1, <2>3, <2>4, AppendedBound DEF OperatorInv
  <2>6. State' = "capturing" /\ Loose' = {} /\ IncompleteRecoveries' = {}
    BY <1>2, <1>4, <2>1, <2>3, AppendedView
  <2>7. PICK me : me = loc'[p]
    OBVIOUS
  <2>8. me.pc = "send"
    BY <1>4, <2>7, KeepsHolding
  <2>9. Operating(me)'
    BY <2>6, <2>8 DEF Operating, Capturing, Answered, Unasked, Recoverer, Owning
  <2> QED BY <2>5, <2>7, <2>9, OperatingAfter DEF OperatorInv
<1> QED BY <1>1, <1>3, <1>4 DEF CaptureRequestEvent

LEMMA CaptureSendOperates ==
  ASSUME IInv, OneCommand, OperatorInv, NEW p \in Procs,
         CaptureSend(p) \/ CaptureScanRefused(p)
  PROVE  OperatorInv'
<1>1. UNCHANGED <<ledger, attempts, recs, blobs>>
  BY DEF CaptureSend, CaptureScanRefused, KeepDisk, disk
<1>2. CASE CaptureScanRefused(p)
  BY <1>1, <1>2, FinishOperates DEF CaptureScanRefused
<1>3. CASE CaptureSend(p)
  <2>1. loc[p].pc \in Owning /\ loc[p].pc \notin Answered
    BY <1>3 DEF CaptureSend, At, Owning, Answered
  <2>2. State = "capturing" /\ IncompleteRecoveries = {} /\ Loose = {}
    BY <2>1, OwnerFinds
  <2>3. PICK me : me = loc'[p]
    OBVIOUS
  <2>4. me.pc = "wait"
    BY <1>3, <2>3, KeepsHolding DEF CaptureSend
  <2>5. Operating(me)'
    BY <1>1, <2>2, <2>4, SameView DEF Operating, Capturing, Answered, Unasked, Recoverer, Owning
  <2> QED BY <1>1, <2>3, <2>5, SameView, OperatingAfter DEF OperatorInv
<1> QED BY <1>2, <1>3

\* The bytes of an answer wait for the record of the attempt.
LEMMA CaptureAnswerOperates ==
  ASSUME IInv, OneCommand, OperatorInv, NEW p \in Procs, NEW out \in Answers, CaptureAnswer(p, out)
  PROVE  OperatorInv'
<1>1. loc[p].pc \in Owning /\ loc[p].pc \notin Answered
  BY DEF CaptureAnswer, At, Owning, Answered
<1>2. State = "capturing" /\ IncompleteRecoveries = {} /\ Loose = {} /\ Open
  BY <1>1, OwnerFinds
<1>3. UNCHANGED <<ledger, attempts, recs>> /\ blobs' = blobs \cup ({out.blob} \ {None})
  BY DEF CaptureAnswer
<1>4. /\ State' = State /\ \A types : EventsOf(types)' = EventsOf(types)
      /\ \A type, m : EventsFor(type, m)' = EventsFor(type, m)
      /\ IncompleteRecoveries' = IncompleteRecoveries
  BY <1>3, SameRecoveries DEF State, EventsOf, EventsFor
<1>5. View' = View
  BY <1>3 DEF View
<1>6. Evidence' = Evidence
  BY <1>3, <1>5 DEF Evidence, Range
<1>7. Open' = Open /\ \A m : CompleteAt(m)' = CompleteAt(m)
  BY <1>3 DEF Open, CompleteAt
<1>8. Loose' \subseteq {out.blob}
  BY <1>2, <1>3, <1>6 DEF Loose
<1>9. RequestsBound' /\ ResponsesBound'
  BY <1>3, <1>4, <1>7 DEF OperatorInv, DiskBound, RequestsBound, ResponsesBound
<1>10. InventoryBound'
  BY <1>2, <1>3, <1>4, <1>6, <1>7, <1>8 DEF OperatorInv, DiskBound, InventoryBound
<1>11. RecoveriesBound'
  BY <1>2, <1>4 DEF RecoveriesBound
<1>12. PICK step \in {"reuse", "record"} :
         loc' = [ loc EXCEPT ![p].pc = step, ![p].out = out ]
  BY DEF CaptureAnswer
<1>13. PICK me : me = loc'[p]
  OBVIOUS
<1>14. me.pc = step /\ me.out = out
  <2>1. IsState(loc[p]) /\ loc = [ q \in Procs |-> loc[q] ]
    BY DEF IInv, StateSound, IsState
  <2> QED BY <1>12, <1>13, <2>1 DEF IsState
<1>15. Operating(me)'
  BY <1>2, <1>4, <1>8, <1>14 DEF Operating, Capturing, Answered, Unasked, Recoverer, Owning
<1> QED BY <1>9, <1>10, <1>11, <1>13, <1>15, OperatingAfter DEF OperatorInv, DiskBound

LEMMA CaptureReuseOperates ==
  ASSUME IInv, OneCommand, OperatorInv, NEW p \in Procs, CaptureReuse(p)
  PROVE  OperatorInv'
<1>1. PICK e : e = AttemptEvent("provider_request_id_reused", loc[p].n)
  OBVIOUS
<1>2. UNCHANGED <<attempts, recs, blobs>>
  BY DEF CaptureReuse
<1>3. loc[p].pc \in Owning /\ loc[p].pc \in Answered
  BY DEF CaptureReuse, At, Owning, Answered
<1>4. /\ State = "capturing" /\ IncompleteRecoveries = {} /\ Open
      /\ Loose \subseteq {loc[p].out.blob}
  BY <1>3, OwnerFinds
<1>5. PICK me : me = loc'[p]
  OBVIOUS
<1>6. CASE ledger' = ledger /\ Finish(p)
  BY <1>2, <1>6, FinishOperates
<1>7. CASE ledger' = ledger /\ Goto(p, "record")
  <2>1. me.pc = "record" /\ me.out = loc[p].out
    BY <1>5, <1>7, KeepsHolding
  <2>2. Operating(me)'
    BY <1>2, <1>4, <1>7, <2>1, SameView
       DEF Operating, Capturing, Answered, Unasked, Recoverer, Owning
  <2> QED BY <1>2, <1>5, <1>7, <2>2, SameView, OperatingAfter DEF OperatorInv
<1>8. CASE Legal(e) /\ Publish(e) /\ Goto(p, "record_reused")
  <2>1. e.type = "provider_request_id_reused" /\ e.to = None /\ To(e) = State
    BY <1>1 DEF AttemptEvent, Occurrence, Draft, To
  <2>2. Accounted(e)
    BY <1>4, <2>1 DEF Accounted
  <2>3. DiskBound'
    BY <1>2, <1>4, <1>8, <2>1, <2>2, AppendedBound DEF OperatorInv
  <2>4. State' = "capturing" /\ Loose' = Loose /\ IncompleteRecoveries' = {}
    BY <1>2, <1>4, <1>8, <2>1, AppendedView
  <2>5. me.pc = "record_reused" /\ me.out = loc[p].out
    BY <1>5, <1>8, KeepsHolding
  <2>6. Operating(me)'
    BY <1>4, <2>4, <2>5 DEF Operating, Capturing, Answered, Unasked, Recoverer, Owning
  <2> QED BY <1>5, <2>3, <2>6, OperatingAfter DEF OperatorInv
<1> QED BY <1>1, <1>6, <1>7, <1>8 DEF CaptureReuse

\* The record of an attempt accounts for the bytes that waited for it.
LEMMA CaptureRecordOperates ==
  ASSUME IInv, IInv', OneCommand, OperatorInv, NEW p \in Procs, CaptureRecord(p)
  PROVE  OperatorInv'
<1>1. PICK n, out : n = loc[p].n /\ out = loc[p].out
  OBVIOUS
<1>2. PICK r : r = [ status |-> out.status, complete |-> out.status = "completed",
                     blob |-> out.blob, pid |-> out.pid, reused |-> At(p, "record_reused") ]
  OBVIOUS
<1>3. loc[p].pc \in Owning /\ loc[p].pc \in Answered /\ loc[p].pc \in Sending
      /\ loc[p].pc \in {"reuse", "record", "record_reused"}
  BY DEF CaptureRecord, Owning, Answered, Sending
<1>4. /\ n = Len(attempts) /\ n \in DOMAIN attempts /\ attempts[n].record = None
      /\ State = "capturing" /\ IncompleteRecoveries = {} /\ Loose \subseteq {out.blob}
  BY <1>1, <1>3, OwnerFinds
<1>5. /\ n \in Range(sent) /\ attempts[n].request
      /\ out \in Answers /\ (out.blob # None => out.blob \in blobs)
  BY <1>1, <1>3, Owns DEF OwnerSound
<1>6. r \in AttemptRecord /\ r # None /\ r.blob = out.blob
      /\ (r.complete <=> out.status = "completed")
  <2>1. /\ out.blob \in Blobs \cup {None} /\ out.pid \in ProviderIds \cup {None}
        /\ out.status \in { b.status : b \in Answers }
    BY <1>5, AnswerAssumption DEF AllAnswers
  <2>2. r \in AttemptRecord
    BY <1>2, <2>1 DEF AttemptRecord, At
  <2>3. r.blob = out.blob /\ (r.complete <=> out.status = "completed")
    BY <1>2
  <2> QED BY <2>2, <2>3, NoneAssumption
<1>7. UNCHANGED <<ledger, recs, blobs>>
      /\ attempts' = [ attempts EXCEPT ![n].record = r ]
      /\ Start(p, [ Idle EXCEPT !.pc = "append", !.todo = OutcomeEvents(n, out) ])
  BY <1>1, <1>2 DEF CaptureRecord
<1>8. /\ DOMAIN attempts' = DOMAIN attempts /\ Len(attempts') = n /\ attempts'[n].record = r
      /\ \A m \in DOMAIN attempts : m # n => attempts'[m] = attempts[m]
  <2>1. PICK a : a = [ attempts[n] EXCEPT !.record = r ]
    OBVIOUS
  <2>2. attempts' = [ attempts EXCEPT ![n] = a ]
    BY <1>7, <2>1
  <2>3. attempts[n] \in StoredAttempts
    BY <1>4, AttemptPositions, ElementOfSeq DEF IInv, EvidenceSound
  <2>4. a \in StoredAttempts /\ a.record = r
    BY <1>6, <2>1, <2>3 DEF StoredAttempts
  <2>5. DOMAIN attempts' = DOMAIN attempts /\ Len(attempts') = Len(attempts)
    BY <1>4, <2>2, <2>4, AttemptPositions, ExceptSeq, LenProperties DEF IInv, EvidenceSound
  <2> QED BY <1>4, <2>2, <2>4, <2>5
<1>9. /\ State' = State /\ \A types : EventsOf(types)' = EventsOf(types)
      /\ \A type, m : EventsFor(type, m)' = EventsFor(type, m)
      /\ IncompleteRecoveries' = IncompleteRecoveries
  BY <1>7, SameRecoveries DEF State, EventsOf, EventsFor
<1>10. ~Open'
  <2>1. \A m \in DOMAIN attempts : m < Len(attempts) => attempts[m].record # None
    BY DEF IInv, EvidenceSound
  <2>2. \A m \in DOMAIN attempts : m # n => m < Len(attempts)
    BY <1>4, AttemptPositions DEF IInv
  <2> QED BY <1>6, <1>8, <2>1, <2>2 DEF Open
<1>11. \A m \in DOMAIN attempts' : CompleteAt(m)' => m = n
  <2>1. \A m \in DOMAIN attempts : CompleteAt(m) => m = n
    BY <1>4 DEF OperatorInv, DiskBound, ResponsesBound
  <2> QED BY <1>8, <2>1 DEF CompleteAt
<1>12. EventsOf({"response_preserved"}) = {}
  <2> SUFFICES ASSUME NEW i \in EventsOf({"response_preserved"}) PROVE FALSE
    OBVIOUS
  <2>1. ledger[i].att \in DOMAIN attempts /\ CompleteAt(ledger[i].att)
    BY DEF OperatorInv, DiskBound, ResponsesBound
  <2>2. ledger[i].att = n
    BY <1>4, <2>1 DEF OperatorInv, DiskBound, ResponsesBound
  <2> QED BY <1>4, <2>1, <2>2 DEF CompleteAt
<1>13. Evidence' = Evidence \cup ({out.blob} \ {None})
  <2>1. DOMAIN View' = DOMAIN View /\ n \in DOMAIN View
    BY <1>4, <1>8 DEF View
  <2>2. \A m \in DOMAIN View : m # n => View'[m] = View[m]
    BY <1>8 DEF View
  <2>3. View[n].blob = None /\ View'[n].blob = out.blob
    BY <1>4, <1>6, <1>8 DEF View, Uncommitted
  <2>4. { View'[m].blob : m \in DOMAIN View' } \cup {None}
          = { View[m].blob : m \in DOMAIN View } \cup {out.blob, None}
    BY <2>1, <2>2, <2>3
  <2>5. PICK A, B, R : /\ A = { View[m].blob : m \in DOMAIN View }
                       /\ B = { View'[m].blob : m \in DOMAIN View' }
                       /\ R = { x.partial : x \in Range(recs) }
    OBVIOUS
  <2>6. Evidence = (A \cup R) \ {None}
    BY <2>5 DEF Evidence
  <2>7. Evidence' = (B \cup R) \ {None}
    BY <1>7, <2>5 DEF Evidence, Range
  <2> QED BY <2>4, <2>5, <2>6, <2>7
<1>14. Evidence' \subseteq blobs' /\ Loose' = {}
  <2>1. None \notin blobs
    BY PolicyAssumption DEF IInv, EvidenceSound
  <2>2. Evidence \subseteq blobs
    BY DEF OperatorInv, DiskBound, InventoryBound
  <2> QED BY <1>4, <1>5, <1>7, <1>13, <2>1, <2>2 DEF Loose
<1>15. RequestsBound'
  <2>1. EventsFor("request_preserved", n) # {}
    BY <1>5 DEF IInv, SentSound, DispatchDiscipline, Range
  <2>2. \A m \in DOMAIN attempts' : attempts'[m].record # None => EventsFor("request_preserved", m) # {}
    BY <1>8, <2>1 DEF OperatorInv, DiskBound, RequestsBound
  <2> QED BY <1>7, <1>8, <1>9, <2>2 DEF OperatorInv, DiskBound, RequestsBound
<1>16. ResponsesBound'
  BY <1>4, <1>7, <1>8, <1>9, <1>11, <1>12 DEF OperatorInv, DiskBound, ResponsesBound
<1>17. InventoryBound' /\ RecoveriesBound'
  BY <1>4, <1>9, <1>14 DEF InventoryBound, RecoveriesBound
<1>18. PICK todo, me : todo = OutcomeEvents(n, out) /\ me = [ Idle EXCEPT !.pc = "append", !.todo = todo ]
  OBVIOUS
<1>19. me = loc'[p] /\ me.pc = "append" /\ me.todo = todo
  BY <1>7, <1>18, Landing, StartsAppend
<1>20. Committing(todo)'
  <2>1. /\ n = Len(attempts') /\ n \in DOMAIN attempts' /\ attempts'[n].record = r /\ r # None
        /\ ~Open' /\ State' = "capturing" /\ Loose' = {} /\ IncompleteRecoveries' = {}
    BY <1>4, <1>6, <1>8, <1>9, <1>10, <1>14
  <2>2. CASE r.complete
    <3>1. todo = << ResponseEvent(n, r.blob), CapturedEvent(n) >>
      BY <1>6, <1>18, <2>2 DEF OutcomeEvents
    <3> QED BY <1>9, <1>12, <2>1, <2>2, <3>1
            DEF Committing, ResponseEvent, CapturedEvent, Occurrence, Draft
  <2>3. CASE ~r.complete
    <3>1. PICK t \in {"attempt_interrupted", "metadata_rejected"} :
            todo = << AttemptEvent(t, n), InterruptedEvent(n) >>
      BY <1>6, <1>18, <2>3 DEF OutcomeEvents
    <3> QED BY <2>1, <2>3, <3>1 DEF Committing, AttemptEvent, InterruptedEvent, Occurrence, Draft
  <2> QED BY <2>2, <2>3
<1>21. Operating(me)'
  BY <1>19, <1>20, CommittingOperates
<1> QED BY <1>15, <1>16, <1>17, <1>19, <1>21, OperatingAfter DEF OperatorInv, DiskBound

\* What is left to append, once its first event is in the ledger.
LEMMA CommitOperates ==
  ASSUME IInv, OneCommand, OperatorInv, NEW p \in Procs, NEW todo, Committing(todo),
         NEW e, NEW rest, e = Head(todo), rest = Tail(todo), Legal(e), Publish(e),
         UNCHANGED <<attempts, recs, blobs>>,
         IF rest = <<>> THEN Finish(p) ELSE loc'[p].pc = "append" /\ loc'[p].todo = rest
  PROVE  OperatorInv'
<1>1. PICK n, record : n = Len(attempts) /\ record = attempts[n].record
  OBVIOUS
<1>2. /\ n \in DOMAIN attempts /\ record # None /\ ~Open /\ State = "capturing"
      /\ Loose = {} /\ IncompleteRecoveries = {}
  BY <1>1 DEF Committing
<1>3. ASSUME Accounted(e) PROVE DiskBound'
  <2>1. IncompleteRecoveries' = {}
    BY <1>2, AppendedView
  <2> QED BY <1>3, <2>1, AppendedBound DEF OperatorInv
<1>4. PICK me : me = loc'[p]
  OBVIOUS
<1>5. ASSUME Accounted(e), rest = <<>> PROVE OperatorInv'
  <2>1. me.pc = "idle"
    BY <1>4, <1>5, Landing DEF Idle
  <2>2. Operating(me)'
    BY <2>1, AsideOperates DEF Aside
  <2> QED BY <1>3, <1>4, <1>5, <2>2, OperatingAfter DEF OperatorInv
<1>6. ASSUME Accounted(e), rest # <<>>, Committing(rest)' PROVE OperatorInv'
  <2>1. Operating(me)'
    BY <1>4, <1>6, CommittingOperates
  <2> QED BY <1>3, <1>4, <1>6, <2>1, OperatingAfter DEF OperatorInv
<1>7. To(e) = "capturing" =>
        /\ ~Open' /\ State' = "capturing" /\ Loose' = {} /\ IncompleteRecoveries' = {}
  BY <1>2, AppendedView
<1>8. ~record.complete => \A m \in DOMAIN attempts : ~CompleteAt(m)
  BY <1>1 DEF OperatorInv, DiskBound, ResponsesBound, CompleteAt
<1>9. ASSUME ~record.complete, NEW t \in {"attempt_interrupted", "metadata_rejected"},
             todo = << AttemptEvent(t, n), InterruptedEvent(n) >>
      PROVE  OperatorInv'
  <2>1. e = AttemptEvent(t, n) /\ rest = << InterruptedEvent(n) >>
    BY <1>9
  <2>2. e.type = t /\ To(e) = "capturing"
    BY <1>2, <2>1 DEF AttemptEvent, Occurrence, Draft, To
  <2>3. Accounted(e)
    BY <1>2, <2>2 DEF Accounted
  <2>4. Committing(rest)'
    BY <1>1, <1>2, <1>7, <1>9, <2>1, <2>2 DEF Committing, InterruptedEvent, Draft
  <2>5. rest # <<>>
    <3>1. \A x : << x >> # <<>>
      OBVIOUS
    <3> QED BY <2>1, <3>1
  <2> QED BY <1>6, <2>3, <2>4, <2>5
<1>10. ASSUME ~record.complete, todo = << InterruptedEvent(n) >>
       PROVE  OperatorInv'
  <2>1. e = InterruptedEvent(n) /\ rest = <<>>
    BY <1>10
  <2>2. e.type = "capture_interrupted" /\ To(e) = "interrupted"
    BY <2>1, NoneAssumption DEF InterruptedEvent, Draft, To, Life!States
  <2>3. Accounted(e)
    BY <1>2, <1>8, <1>10, <2>2 DEF Accounted
  <2> QED BY <1>5, <2>1, <2>3
<1>11. ASSUME record.complete, EventsOf({"response_preserved"}) = {},
              todo = << ResponseEvent(n, record.blob), CapturedEvent(n) >>
       PROVE  OperatorInv'
  <2>1. e = ResponseEvent(n, record.blob) /\ rest = << CapturedEvent(n) >>
    BY <1>11
  <2>2. e.type = "response_preserved" /\ e.att = n /\ e.ref = record.blob /\ To(e) = "capturing"
    BY <1>2, <2>1 DEF ResponseEvent, Occurrence, Draft, To
  <2>3. Accounted(e)
    BY <1>1, <1>2, <1>11, <2>2 DEF Accounted, CompleteAt
  <2>4. Committing(rest)'
    BY <1>1, <1>2, <1>7, <1>11, <2>1, <2>2 DEF Committing, CapturedEvent, Draft
  <2>5. rest # <<>>
    <3>1. \A x : << x >> # <<>>
      OBVIOUS
    <3> QED BY <2>1, <3>1
  <2> QED BY <1>6, <2>3, <2>4, <2>5
<1>12. ASSUME record.complete, todo = << CapturedEvent(n) >>
       PROVE  OperatorInv'
  <2>1. e = CapturedEvent(n) /\ rest = <<>>
    BY <1>12
  <2>2. e.type = "capture_completed" /\ To(e) = "captured"
    BY <2>1, NoneAssumption DEF CapturedEvent, Draft, To, Life!States
  <2>3. Accounted(e)
    BY <1>2, <2>2 DEF Accounted
  <2> QED BY <1>5, <2>1, <2>3
<1> QED BY <1>1, <1>9, <1>10, <1>11, <1>12 DEF Committing

LEMMA AppendNextOperates ==
  ASSUME IInv, OneCommand, SealInv, OperatorInv, NEW p \in Procs, AppendNext(p)
  PROVE  OperatorInv'
<1>1. PICK now, todo, e, rest : /\ now = loc[p] /\ todo = now.todo
                                /\ e = Head(todo) /\ rest = Tail(todo)
  OBVIOUS
<1>2. now.pc = "append" /\ IsState(now) /\ loc = [ q \in Procs |-> loc[q] ]
      /\ Operating(now) /\ Sealing(now)
  BY <1>1 DEF AppendNext, At, IInv, StateSound, IsState, OperatorInv, SealInv
<1>3. UNCHANGED <<attempts, recs, blobs>>
  BY DEF AppendNext
<1>4. CASE ledger' = ledger /\ Finish(p)
  BY <1>3, <1>4, FinishOperates
<1>5. CASE Legal(e) /\ Publish(e)
  <2>1. IF rest = <<>> THEN Finish(p) ELSE loc' = [ loc EXCEPT ![p].todo = rest ]
    BY <1>1, <1>5 DEF AppendNext
  <2>2. IF rest = <<>> THEN Finish(p) ELSE loc'[p].pc = "append" /\ loc'[p].todo = rest
    BY <1>1, <1>2, <2>1 DEF IsState
  <2>3. CASE manifest = None
    <3>1. Committing(todo)
      BY <1>1, <1>2, <2>3 DEF Operating
    <3> QED BY <1>1, <1>3, <1>5, <2>2, <3>1, CommitOperates
  <2>4. CASE manifest # None
    <3>1. PICK x : /\ todo = << x >> /\ x.type \in SealTypes \cup {"judgment_sealed", "human_review_required"}
                   /\ To(x) \in {"sealed", "judged", "review_required"}
      <4>1. \A m : /\ SealEvent(m).type \in SealTypes /\ To(SealEvent(m)) = "sealed"
                   /\ JudgedEvent(m).type = "judgment_sealed" /\ To(JudgedEvent(m)) = "judged"
                   /\ ReviewEvent(m).type = "human_review_required"
                   /\ To(ReviewEvent(m)) = "review_required"
        BY NoneAssumption DEF SealEvent, JudgedEvent, ReviewEvent, Draft, To, SealTypes, Life!States
      <4> QED BY <1>1, <1>2, <2>4, <4>1 DEF Sealing
    <3>2. e = x /\ rest = <<>>
      BY <1>1, <3>1
    <3>3. State \in {"captured", "aborted", "sealed", "judged", "review_required"}
      BY <2>4 DEF IInv, ArtifactsSound, ManifestSound
    <3>4. Loose = {} /\ IncompleteRecoveries = {}
      BY <3>3 DEF OperatorInv, DiskBound, InventoryBound, RecoveriesBound
    <3>5. Accounted(e)
      BY <3>1, <3>2, <3>4 DEF Accounted, SealTypes
    <3>6. DiskBound'
      <4>1. IncompleteRecoveries' = {}
        BY <1>3, <1>5, <3>4, AppendedView
      <4> QED BY <1>3, <1>5, <3>5, <4>1, AppendedBound DEF OperatorInv
    <3>7. PICK me : me = loc'[p]
      OBVIOUS
    <3>8. me.pc = "idle"
      BY <2>2, <3>2, <3>7, Landing DEF Idle
    <3>9. Operating(me)'
      BY <3>8, AsideOperates DEF Aside
    <3> QED BY <3>6, <3>7, <3>9, OperatingAfter DEF OperatorInv
  <2> QED BY <2>3, <2>4
<1> QED BY <1>1, <1>4, <1>5 DEF AppendNext

-----------------------------------------------------------------------------
(* recover_run.                                                            *)

\* A recovery that stopped half-way goes on.
LEMMA FinishRecoveryOperates ==
  ASSUME IInv, OneCommand, OperatorInv, NEW p \in Procs, OperatorFinishRecovery(p)
  PROVE  OperatorInv'
<1>1. UNCHANGED <<ledger, attempts, recs, blobs>>
  BY DEF OperatorFinishRecovery, RecoverResume, KeepDisk, disk
<1>2. PICK i, r :
         /\ i \in IncompleteRecoveries /\ IncompleteRecoveries = {i} /\ r = recs[i]
         /\ Start(p, [ Idle EXCEPT !.pc = "recovery_check", !.n = 1, !.rec = r ])
  BY DEF OperatorFinishRecovery, RecoverResume
<1>3. PICK me : me = loc'[p]
  OBVIOUS
<1>4. me.pc = "recovery_check" /\ me.n = 1 /\ me.rec = r
  BY <1>2, <1>3, Landing DEF Idle
<1>5. /\ r.att = Len(attempts) /\ r.action \in {"resume", "abort"}
      /\ \A n \in DOMAIN attempts : ~CompleteAt(n)
      /\ \A k \in IncompleteRecoveries : recs[k] = r
  BY <1>2 DEF OperatorInv, DiskBound, RecoveriesBound
<1>6. \A j \in 1 .. me.n - 1 : FALSE
  BY <1>4
<1>7. Operating(me)'
  BY <1>1, <1>4, <1>5, <1>6, SameView DEF Operating, Capturing, Answered, Unasked, Recoverer, Owning
<1> QED BY <1>1, <1>3, <1>7, SameView, OperatingAfter DEF OperatorInv

\* A new recovery takes what bytes there are, supplied or found.
LEMMA RecoverStartOperates ==
  ASSUME IInv, OneCommand, OperatorInv, NEW p \in Procs, OperatorRecover(p)
  PROVE  OperatorInv'
<1>1. /\ IncompleteRecoveries = {}
      /\ State = "interrupted" \/ (State = "capturing" /\ Open)
  BY ReadableIsRecorded DEF OperatorRecover, IInv
<1>2. PICK action \in {"resume", "abort"}, reason \in Reasons, time \in Times, partial \in Partials :
        /\ partial # None => Orphans(partial) = {}
        /\ RecoverStart(p, action, reason, time, partial)
  BY DEF OperatorRecover
<1>3. UNCHANGED <<ledger, attempts, recs>> /\ blobs' = blobs \cup ({partial} \ {None})
  BY <1>2 DEF RecoverStart
<1>4. None \notin blobs
  BY PolicyAssumption DEF IInv, EvidenceSound
<1>5. /\ Evidence \subseteq blobs /\ \A b, c \in Loose : b = c
  BY DEF OperatorInv, DiskBound, InventoryBound
<1>6. Orphans(partial) \subseteq Loose /\ (partial = None => Orphans(partial) = Loose)
      /\ Loose \subseteq Orphans(partial) \cup {partial}
  BY <1>4 DEF Orphans, Loose
<1>7. ~Ambiguous(partial)
  <2>1. Cardinality(Orphans(partial)) = 0 \/ Cardinality(Orphans(partial)) = 1
    BY <1>5, <1>6, AtMostOne
  <2> QED BY <1>2, <2>1 DEF Ambiguous
<1>8. PICK b, r : /\ b = RecoveredBlob(partial)
                  /\ r = [ action |-> action, reason |-> reason, time |-> time, before |-> State,
                           att |-> Len(attempts), partial |-> b ]
  OBVIOUS
<1>9. Loose \cup ({partial} \ {None}) \subseteq {b, None} /\ (b # None => b \in blobs')
  <2>1. CASE Orphans(partial) = {}
    BY <1>3, <1>6, <1>8, <2>1 DEF RecoveredBlob
  <2>2. CASE Orphans(partial) # {}
    <3>1. partial = None /\ b \in Orphans(partial)
      BY <1>2, <1>8, <2>2 DEF RecoveredBlob
    <3>2. Loose = {b} /\ b \in blobs
      BY <1>5, <1>6, <3>1 DEF Loose
    <3> QED BY <1>3, <3>1, <3>2
  <2> QED BY <2>1, <2>2
<1>10. /\ State' = State /\ \A types : EventsOf(types)' = EventsOf(types)
       /\ \A type, m : EventsFor(type, m)' = EventsFor(type, m)
       /\ IncompleteRecoveries' = IncompleteRecoveries
  BY <1>3, SameRecoveries DEF State, EventsOf, EventsFor
<1>11. View' = View
  BY <1>3 DEF View
<1>12. Evidence' = Evidence
  BY <1>3, <1>11 DEF Evidence, Range
<1>13. Open' = Open /\ \A m : CompleteAt(m)' = CompleteAt(m)
  BY <1>3 DEF Open, CompleteAt
<1>14. Loose' \subseteq {b} /\ Evidence' \subseteq blobs'
  BY <1>3, <1>4, <1>5, <1>9, <1>12 DEF Loose
<1>15. RequestsBound' /\ ResponsesBound'
  BY <1>3, <1>10, <1>13 DEF OperatorInv, DiskBound, RequestsBound, ResponsesBound
<1>16. InventoryBound'
  BY <1>1, <1>10, <1>13, <1>14 DEF InventoryBound
<1>17. RecoveriesBound'
  BY <1>1, <1>10 DEF RecoveriesBound
<1>18. \A n \in DOMAIN attempts : ~CompleteAt(n)
  <2> SUFFICES ASSUME NEW n \in DOMAIN attempts, CompleteAt(n) PROVE FALSE
    OBVIOUS
  <2>1. n = Len(attempts) /\ State # "interrupted"
    BY DEF OperatorInv, DiskBound, ResponsesBound
  <2>2. PICK m \in DOMAIN attempts : attempts[m].record = None
    BY <1>1, <2>1 DEF Open
  <2>3. m = Len(attempts)
    BY <2>2, AttemptPositions DEF IInv, EvidenceSound
  <2> QED BY <2>1, <2>2, <2>3 DEF CompleteAt
<1>19. PICK me : me = loc'[p]
  OBVIOUS
<1>20. me.pc = "recovery_record" /\ me.rec = r
  <2>1. Start(p, [ Idle EXCEPT !.pc = "recovery_record", !.n = Len(recs), !.rec = r ])
    BY <1>2, <1>7, <1>8 DEF RecoverStart
  <2> QED BY <1>19, <2>1, Landing DEF Idle
<1>21. r.att = Len(attempts) /\ r.action \in {"resume", "abort"} /\ r.partial = b
  BY <1>8
<1>22. Operating(me)'
  BY <1>1, <1>3, <1>9, <1>10, <1>13, <1>14, <1>18, <1>20, <1>21
     DEF Operating, Capturing, Answered, Unasked, Recoverer, Owning
<1> QED BY <1>15, <1>16, <1>17, <1>19, <1>22, OperatingAfter DEF OperatorInv, DiskBound

\* The record accounts for the bytes, and is the only one that lacks events.
LEMMA RecoverRecordOperates ==
  ASSUME IInv, OneCommand, RecInv, OperatorInv, NEW p \in Procs, RecoverRecord(p)
  PROVE  OperatorInv'
<1>1. PICK now, r : now = loc[p] /\ r = now.rec
  OBVIOUS
<1>2. /\ now.pc = "recovery_record" /\ IsState(now) /\ loc = [ q \in Procs |-> loc[q] ]
      /\ r \in Recovery /\ Operating(now) /\ IncompleteRecoveries = {}
  BY <1>1 DEF RecoverRecord, At, IInv, StateSound, IsState, OperatorInv, RecInv, Recovering
<1>3. UNCHANGED <<ledger, attempts, blobs>>
  BY DEF RecoverRecord
<1>4. CASE recs' = recs /\ Finish(p)
  BY <1>3, <1>4, FinishOperates
<1>5. CASE /\ recs' = Append(recs, r)
           /\ loc' = [ loc EXCEPT ![p].pc = "recovery_check", ![p].n = 1 ]
  <2>1. /\ recs' \in Seq(Recovery) /\ Len(recs) \in Nat
        /\ DOMAIN recs = 1 .. Len(recs) /\ DOMAIN recs' = 1 .. Len(recs) + 1
        /\ \A i \in 1 .. Len(recs) : recs'[i] = recs[i]
        /\ recs'[Len(recs) + 1] = r
    BY <1>2, <1>5, AppendProperties, LenProperties DEF IInv, EvidenceSound
  <2>2. Range(recs') = Range(recs) \cup {r}
    BY <2>1 DEF Range
  <2>3. \A i \in IncompleteRecoveries' : recs'[i] = r
    <3>1. \A x : RecoveryComplete(x)' <=> RecoveryComplete(x)
      <4>1. \A f : Present(f)' <=> Present(f)
        BY <1>3 DEF Present, Places
      <4> QED BY <4>1 DEF RecoveryComplete, RecoveryEvents, Occurrence, Draft
    <3> SUFFICES ASSUME NEW i \in IncompleteRecoveries', i # Len(recs) + 1 PROVE FALSE
      BY <2>1
    <3>2. i \in DOMAIN recs' /\ ~RecoveryComplete(recs[i])'
      BY DEF IncompleteRecoveries
    <3>3. i \in DOMAIN recs /\ recs'[i] = recs[i]
      BY <2>1, <3>2
    <3>4. i \in IncompleteRecoveries
      BY <3>1, <3>2, <3>3 DEF IncompleteRecoveries
    <3> QED BY <1>2, <3>4
  <2>4. State' = State /\ Open' = Open /\ (\A n : CompleteAt(n)' = CompleteAt(n))
        /\ (\A types : EventsOf(types)' = EventsOf(types))
        /\ (\A type, n : EventsFor(type, n)' = EventsFor(type, n))
    BY <1>3 DEF State, Open, CompleteAt, EventsOf, EventsFor
  <2>5. View' = View
    BY <1>3 DEF View
  <2>6. Evidence' = Evidence \cup ({r.partial} \ {None})
    <3>1. PICK A, B, C : /\ A = { View[m].blob : m \in DOMAIN View }
                         /\ B = { x.partial : x \in Range(recs) }
                         /\ C = { x.partial : x \in Range(recs') }
      OBVIOUS
    <3>2. C = B \cup {r.partial}
      BY <2>2, <3>1
    <3>3. Evidence = (A \cup B) \ {None}
      BY <3>1 DEF Evidence
    <3>4. Evidence' = (A \cup C) \ {None}
      BY <2>5, <3>1 DEF Evidence
    <3> QED BY <3>2, <3>3, <3>4
  <2>7. /\ Loose \subseteq {r.partial} /\ (r.partial # None => r.partial \in blobs)
        /\ State \in {"capturing", "interrupted"}
        /\ r.att = Len(attempts) /\ r.action \in {"resume", "abort"}
        /\ \A n \in DOMAIN attempts : ~CompleteAt(n)
    BY <1>1, <1>2 DEF Operating, Recoverer
  <2>8. Loose' = {} /\ Evidence' \subseteq blobs'
    <3>1. None \notin blobs
      BY PolicyAssumption DEF IInv, EvidenceSound
    <3>2. Evidence \subseteq blobs
      BY DEF OperatorInv, DiskBound, InventoryBound
    <3> QED BY <1>3, <2>6, <2>7, <3>1, <3>2 DEF Loose
  <2>9. RequestsBound' /\ ResponsesBound'
    BY <1>3, <2>4 DEF OperatorInv, DiskBound, RequestsBound, ResponsesBound
  <2>10. InventoryBound'
    BY <2>4, <2>7, <2>8 DEF InventoryBound
  <2>11. RecoveriesBound'
    BY <1>3, <2>3, <2>4, <2>7, <2>8 DEF RecoveriesBound
  <2>12. PICK me : me = loc'[p]
    OBVIOUS
  <2>13. me.pc = "recovery_check" /\ me.n = 1 /\ me.rec = r
    BY <1>1, <1>2, <1>5, <2>12 DEF IsState
  <2>14. \A j \in 1 .. me.n - 1 : FALSE
    BY <2>13
  <2>15. Operating(me)'
    BY <1>3, <2>3, <2>4, <2>7, <2>13, <2>14
       DEF Operating, Capturing, Answered, Unasked, Recoverer, Owning
  <2> QED BY <2>9, <2>10, <2>11, <2>12, <2>15, OperatingAfter DEF OperatorInv, DiskBound
<1> QED BY <1>1, <1>4, <1>5 DEF RecoverRecord

LEMMA NoneIsBelow ==
  ASSUME NEW S \in SUBSET Nat, NEW y \in S
  PROVE  Min(S) <= y
<1>1. \E x \in S : \A z \in S : ~(<<z, x>> \in OpToRel(<, Nat))
  <2> DEFINE R == OpToRel(<, Nat)
  <2>1. IsWellFoundedOn(R, Nat)
    BY NatLessThanWellFounded
  <2> HIDE DEF R
  <2>2. \E x \in S : \A z \in S : ~(<<z, x>> \in R)
    BY <2>1, WFMin
  <2> QED BY <2>2 DEF R
<1>2. PICK x \in S : \A z \in S : ~(z < x)
  BY <1>1 DEF OpToRel
<1>3. \E m \in S : \A z \in S : m <= z
  BY <1>2
<1> QED BY <1>3 DEF Min

\* What is passed over is in the ledger.
LEMMA RecoverCheckOperates ==
  ASSUME IInv, OneCommand, OperatorInv, NEW p \in Procs, RecoverCheck(p)
  PROVE  OperatorInv'
<1>1. PICK now, events, notOnce :
        /\ now = loc[p] /\ events = RecoveryEvents(now.rec)
        /\ notOnce = { j \in now.n .. Len(events) : Cardinality(Places(events[j])) # 1 }
  OBVIOUS
<1>2. /\ now.pc = "recovery_check" /\ IsState(now) /\ loc = [ q \in Procs |-> loc[q] ]
      /\ now.rec \in Recovery /\ now.n \in Nat /\ now.n > 0 /\ Operating(now)
  BY <1>1 DEF RecoverCheck, At, IInv, StateSound, IsState, OperatorInv
<1>3. UNCHANGED <<ledger, attempts, recs, blobs>>
  BY DEF RecoverCheck, KeepDisk, disk
<1>4. CASE Finish(p)
  BY <1>3, <1>4, FinishOperates
<1>5. CASE /\ notOnce # {}
           /\ loc' = [ loc EXCEPT ![p].pc = "recovery_append", ![p].n = Min(notOnce) ]
  <2>1. PICK n : n = Min(notOnce)
    OBVIOUS
  <2>2. notOnce \in SUBSET Nat
    BY <1>1, <1>2
  <2>3. n \in notOnce /\ \A j \in notOnce : n <= j
    BY <1>5, <2>1, <2>2, LeastOf, NoneIsBelow
  <2>4. Len(events) \in Nat
    BY <1>1, <1>2, RecoveryEventsNamed, LenProperties
  <2>5. PICK me : me = loc'[p]
    OBVIOUS
  <2>6. me.pc = "recovery_append" /\ me.n = n /\ me.rec = now.rec
    BY <1>1, <1>2, <1>5, <2>1, <2>5 DEF IsState
  <2>7. ASSUME NEW j \in 1 .. n - 1 PROVE Present(events[j])
    <3>1. CASE j \in 1 .. now.n - 1
      BY <1>1, <1>2, <3>1 DEF Operating
    <3>2. CASE j \notin 1 .. now.n - 1
      <4>1. j \in now.n .. Len(events) /\ j \notin notOnce
        BY <1>1, <1>2, <2>2, <2>3, <2>4, <3>2
      <4>2. Cardinality(Places(events[j])) = 1
        BY <1>1, <4>1
      <4> QED BY <4>2, FS_EmptySet DEF Present
    <3> QED BY <3>1, <3>2
  <2>8. /\ now.rec.att = Len(attempts) /\ now.rec.action \in {"resume", "abort"}
        /\ \A m \in DOMAIN attempts : ~CompleteAt(m)
        /\ \A i \in IncompleteRecoveries : recs[i] = now.rec
    BY <1>2 DEF Operating, Recoverer
  <2>9. \A j \in 1 .. me.n - 1 : Present(RecoveryEvents(me.rec)[j])'
    <3>1. RecoveryEvents(me.rec)' = events
      BY <1>1, <2>6, SameView, <1>3
    <3> QED BY <1>3, <2>6, <2>7, <3>1, SameView
  <2>10. Operating(me)'
    BY <1>3, <2>6, <2>8, <2>9, SameView DEF Operating, Capturing, Answered, Unasked, Recoverer, Owning
  <2> QED BY <1>3, <2>5, <2>10, SameView, OperatingAfter DEF OperatorInv
<1> QED BY <1>1, <1>4, <1>5 DEF RecoverCheck

\* An abort is the last thing a recovery says.
LEMMA AbortIsLast ==
  ASSUME NEW r \in Recovery, NEW n \in DOMAIN RecoveryEvents(r), RecoveryEvents(r)[n].to = "aborted"
  PROVE  n = Len(RecoveryEvents(r))
<1>1. PICK D : D = { Occurrence("attempt_interrupted", 0, r, None),
                     Draft("capture_interrupted", "interrupted", 0, r, None),
                     Occurrence("recovery_declared", 0, r, None),
                     Occurrence("recovery_evidence_preserved", 0, r, r.partial) }
  OBVIOUS
<1>2. PICK a, b, c, d :
        /\ a = IF r.before = "capturing"
                 THEN << Occurrence("attempt_interrupted", 0, r, None),
                         Draft("capture_interrupted", "interrupted", 0, r, None) >>
                 ELSE <<>>
        /\ b = << Occurrence("recovery_declared", 0, r, None) >>
        /\ c = IF r.partial # None
                 THEN << Occurrence("recovery_evidence_preserved", 0, r, r.partial) >>
                 ELSE <<>>
        /\ d = CASE r.action = "resume" -> << Draft("capture_resumed", "capturing", 0, r, None) >>
                 [] r.action = "abort"  -> << Draft("capture_aborted", "aborted", 0, r, None) >>
                 [] OTHER               -> <<>>
  OBVIOUS
<1>3. \A e \in D : e.to # "aborted"
  BY <1>1, NoneAssumption DEF Occurrence, Draft, Life!States
<1>4. a \in Seq(D) /\ b \in Seq(D) /\ c \in Seq(D)
  <2>1. /\ Occurrence("attempt_interrupted", 0, r, None) \in D
        /\ Draft("capture_interrupted", "interrupted", 0, r, None) \in D
        /\ Occurrence("recovery_declared", 0, r, None) \in D
        /\ Occurrence("recovery_evidence_preserved", 0, r, r.partial) \in D
    BY <1>1
  <2> QED BY <1>2, <2>1
<1>5. PICK pre : pre = (a \o b) \o c
  OBVIOUS
<1>6. pre \in Seq(D)
  BY <1>4, <1>5, ConcatProperties
<1>7. PICK E : E = D \cup { Draft("capture_resumed", "capturing", 0, r, None),
                            Draft("capture_aborted", "aborted", 0, r, None) }
  OBVIOUS
<1>8. d \in Seq(E) /\ Len(d) \in {0, 1}
  <2>1. PICK x, y : /\ x = Draft("capture_resumed", "capturing", 0, r, None)
                    /\ y = Draft("capture_aborted", "aborted", 0, r, None)
    OBVIOUS
  <2>2. d = << x >> \/ d = << y >> \/ d = <<>>
    BY <1>2, <2>1
  <2>3. x \in E /\ y \in E
    BY <1>7, <2>1
  <2>4. CASE d = << x >>
    BY <2>3, <2>4
  <2>5. CASE d = << y >>
    BY <2>3, <2>5
  <2>6. CASE d = <<>>
    BY <2>6
  <2> QED BY <2>2, <2>4, <2>5, <2>6
<1>9. pre \in Seq(E)
  BY <1>6, <1>7, SeqMonotonic
<1>10. PICK all : all = pre \o d
  OBVIOUS
<1>11. RecoveryEvents(r) = all
  BY <1>2, <1>5, <1>10 DEF RecoveryEvents
<1>12. /\ Len(all) = Len(pre) + Len(d) /\ all \in Seq(E)
       /\ \A i \in 1 .. Len(pre) : all[i] = pre[i]
  BY <1>8, <1>9, <1>10, ConcatProperties
<1>13. Len(pre) \in Nat /\ DOMAIN all = 1 .. Len(all) /\ Len(all) \in Nat
  BY <1>9, <1>12, LenProperties
<1>14. n \notin 1 .. Len(pre)
  <2> SUFFICES ASSUME n \in 1 .. Len(pre) PROVE FALSE
    OBVIOUS
  <2>1. pre[n] \in D
    BY <1>6, ElementOfSeq
  <2>2. all[n].to = "aborted"
    BY <1>11
  <2> QED BY <1>3, <1>12, <2>1, <2>2
<1>15. n \in 1 .. Len(all)
  BY <1>11, <1>13
<1>16. n = Len(all)
  <2>1. PICK k, m, l : k = Len(pre) /\ m = Len(all) /\ l = Len(d)
    OBVIOUS
  <2>2. k \in Nat /\ m = k + l /\ l \in {0, 1}
    BY <1>8, <1>12, <1>13, <2>1
  <2>3. n \in 1 .. m /\ n \notin 1 .. k
    BY <1>14, <1>15, <2>1
  <2>4. n = m
    BY <2>2, <2>3
  <2> QED BY <2>1, <2>4
<1> QED BY <1>11, <1>16

LEMMA RecoverAppendOperates ==
  ASSUME IInv, OneCommand, RecInv, OperatorInv, NEW p \in Procs, RecoverAppend(p)
  PROVE  OperatorInv'
<1>1. PICK now, r, events, n, e :
        /\ now = loc[p] /\ r = now.rec /\ events = RecoveryEvents(r) /\ n = now.n /\ e = events[n]
  OBVIOUS
<1>2. /\ now.pc = "recovery_append" /\ IsState(now) /\ loc = [ q \in Procs |-> loc[q] ]
      /\ r \in Recovery /\ r \in Range(recs) /\ n \in Nat /\ n > 0 /\ n \in DOMAIN events
      /\ Operating(now) /\ ~Present(e)
  BY <1>1 DEF RecoverAppend, At, IInv, StateSound, IsState, OperatorInv, RecInv, Recovering
<1>3. UNCHANGED <<attempts, recs, blobs>>
  BY DEF RecoverAppend
<1>4. CASE ledger' = ledger /\ Finish(p)
  BY <1>3, <1>4, FinishOperates
<1>5. CASE /\ Legal(e) /\ Publish(e)
           /\ loc' = [ loc EXCEPT ![p].pc = "recovery_check", ![p].n = @ + 1 ]
  <2>1. e \in RecoveryDrafts(r)
    BY <1>1, <1>2, RecoveryEventsNamed, ElementOfSeq, LenProperties
  <2>2. /\ r.att = Len(attempts) /\ r.action \in {"resume", "abort"}
        /\ \A m \in DOMAIN attempts : ~CompleteAt(m)
        /\ \A i \in IncompleteRecoveries : recs[i] = r
        /\ \A j \in 1 .. n - 1 : Present(events[j])
    BY <1>1, <1>2 DEF Operating, Recoverer
  <2>3. IncompleteRecoveries # {}
    <3>1. ~RecoveryComplete(r)
      BY <1>1, <1>2 DEF RecoveryComplete, Range
    <3> QED BY <1>2, <3>1 DEF IncompleteRecoveries, Range
  <2>4. State \in {"capturing", "interrupted"} /\ Loose = {}
    BY <2>3 DEF OperatorInv, DiskBound, RecoveriesBound
  <2>5. /\ e.type \notin {"request_preserved", "response_preserved"}
        /\ To(e) \in {"capturing", "interrupted", "aborted"}
        /\ To(e) = "aborted" => e.to = "aborted"
    BY <2>1, <2>4 DEF RecoveryDrafts, To
  <2>6. Accounted(e)
    BY <1>2, <2>2, <2>4, <2>5 DEF Accounted
  <2>7. LedgerSound /\ Appended(e)
    BY <1>5, PublishAppends DEF IInv
  <2>8. Present(e)' /\ \A f : Present(f) => Present(f)'
    <3>1. Len(ledger) + 1 \in Places(e)'
      BY <2>7, Positions DEF Appended, Places
    <3> QED BY <2>7, <3>1, PlacesAfter DEF Present
  <2>9. \A j \in 1 .. n : Present(events[j])'
    <3>1. ASSUME NEW j \in 1 .. n PROVE Present(events[j])'
      <4>1. PICK f : f = events[j]
        OBVIOUS
      <4>2. CASE j = n
        BY <1>1, <2>8, <4>2
      <4>3. CASE j # n
        <5>1. Present(f)
          BY <1>2, <2>2, <4>1, <4>3
        <5>2. Present(f)'
          BY <2>8, <5>1
        <5> QED BY <4>1, <5>2
      <4> QED BY <4>2, <4>3
    <3> QED BY <3>1
  <2>10. RecoveryEvents(r)' = events
    BY <1>1 DEF RecoveryEvents, Occurrence, Draft
  <2>11. /\ State' = To(e) /\ IncompleteRecoveries' \subseteq IncompleteRecoveries
         /\ \A m : CompleteAt(m)' = CompleteAt(m)
    BY <1>3, <1>5, AppendedView
  <2>12. IncompleteRecoveries' # {} => To(e) \in {"capturing", "interrupted"}
    <3> SUFFICES ASSUME To(e) = "aborted" PROVE IncompleteRecoveries' = {}
      BY <2>5
    <3>1. n = Len(events)
      BY <1>1, <1>2, <2>5, AbortIsLast
    <3>2. DOMAIN events = 1 .. n
      BY <1>1, <1>2, <3>1, RecoveryEventsNamed, LenProperties
    <3>3. RecoveryComplete(r)'
      BY <2>9, <2>10, <3>2 DEF RecoveryComplete, Range
    <3>4. \A i \in IncompleteRecoveries' : recs[i] = r /\ ~RecoveryComplete(recs[i])'
      BY <1>3, <2>2, <2>11 DEF IncompleteRecoveries
    <3> QED BY <1>3, <3>3, <3>4
  <2>13. DiskBound'
    BY <1>3, <1>5, <2>6, <2>12, AppendedBound DEF OperatorInv
  <2>14. PICK me : me = loc'[p]
    OBVIOUS
  <2>15. me.pc = "recovery_check" /\ me.n = n + 1 /\ me.rec = r
    BY <1>1, <1>2, <1>5, <2>14 DEF IsState
  <2>16. \A j \in 1 .. me.n - 1 : Present(RecoveryEvents(me.rec)[j])'
    BY <1>2, <2>9, <2>10, <2>15
  <2>17. Operating(me)'
    BY <1>3, <2>2, <2>11, <2>15, <2>16
       DEF Operating, Capturing, Answered, Unasked, Recoverer, Owning
  <2> QED BY <2>13, <2>14, <2>17, OperatingAfter DEF OperatorInv
<1> QED BY <1>1, <1>4, <1>5 DEF RecoverAppend

-----------------------------------------------------------------------------
(* The operator's rules keep the invariant.                                *)

LEMMA InitOperates == Init => OperatorInv
<1> SUFFICES ASSUME Init PROVE OperatorInv
  OBVIOUS
<1>1. /\ DOMAIN ledger = {1} /\ ledger[1].type = "execution_authorization_bound"
      /\ State = "execution_authorized"
      /\ attempts = <<>> /\ DOMAIN attempts = {} /\ recs = <<>> /\ DOMAIN recs = {} /\ blobs = {}
  BY DEF Init, State
<1>2. \A types : "execution_authorization_bound" \notin types => EventsOf(types) = {}
  BY <1>1 DEF EventsOf
<1>3. Evidence = {} /\ Loose = {} /\ IncompleteRecoveries = {}
  <2>1. DOMAIN View = {} /\ Range(recs) = {}
    BY <1>1 DEF View, Range
  <2> QED BY <1>1, <2>1 DEF Evidence, Loose, IncompleteRecoveries
<1>4. RequestsBound /\ ResponsesBound
  BY <1>1, <1>2 DEF RequestsBound, ResponsesBound
<1>5. InventoryBound /\ RecoveriesBound
  BY <1>1, <1>3 DEF InventoryBound, RecoveriesBound
<1>6. \A p \in Procs : Operating(loc[p])
  <2>1. \A p \in Procs : loc[p].pc = "idle"
    BY DEF Init, Idle
  <2> QED BY <2>1 DEF Operating, Capturing, Owning, Answered, Unasked, Recoverer
<1> QED BY <1>4, <1>5, <1>6 DEF OperatorInv, DiskBound

LEMMA OperatingStays ==
  ASSUME UNCHANGED <<ledger, attempts, recs, blobs, manifest>>, NEW me, Operating(me)
  PROVE  Operating(me)'
<1>1. me.pc = "append" /\ manifest' = None => Committing(me.todo)'
  BY SameCommitting DEF Operating
<1>2. \A j : Present(RecoveryEvents(me.rec)[j]) => Present(RecoveryEvents(me.rec)[j])'
  <2>1. RecoveryEvents(me.rec)' = RecoveryEvents(me.rec)
    BY SameView
  <2> QED BY <2>1, SameView
<1> QED BY <1>1, <1>2, SameView DEF Operating

\* What the operator starts is one of the commands.
LEMMA OperatorStartsCommands ==
  ASSUME IInv, NEW p \in Procs, OperatorStart(p)
  PROVE  StartCommand(p)
<1>1. CASE OperatorFinishRecovery(p)
  <2>1. PICK i, r :
          i \in IncompleteRecoveries /\ r = recs[i] /\ RecoverResume(p, r.action, r.reason, r.partial)
    BY <1>1 DEF OperatorFinishRecovery
  <2>2. r \in Recovery
    BY <2>1, RecordsAreRecoveries DEF IncompleteRecoveries, IInv
  <2>3. r.action \in Actions /\ r.reason \in Reasons /\ None \in Partials
    BY <2>2, PolicyAssumption DEF Recovery
  <2>4. RecoverResume(p, r.action, r.reason, None)
    BY <2>1 DEF RecoverResume, RequestMatches
  <2> QED BY <2>3, <2>4 DEF Recover, StartCommand
<1>2. CASE OperatorRecover(p)
  BY <1>2 DEF OperatorRecover, Recover, StartCommand, Actions
<1>3. CASE OperatorCapture(p)
  BY <1>3 DEF OperatorCapture, StartCommand
<1> QED BY <1>1, <1>2, <1>3 DEF OperatorStart, StartCommand

LEMMA OperatorSteps ==
  ASSUME IInv, [OperatorNext]_vars
  PROVE  [Next]_vars
  BY OperatorStartsCommands DEF OperatorNext, Next

LEMMA StepOperates ==
  ASSUME IInv, IInv', OneCommand, RecInv, SealInv, SealInv', OperatorInv, [OperatorNext]_vars
  PROVE  OperatorInv'
<1>1. CASE UNCHANGED vars
  <2>1. UNCHANGED <<ledger, attempts, recs, blobs, manifest>> /\ loc' = loc
    BY <1>1 DEF vars
  <2>2. ASSUME NEW p \in Procs PROVE Operating(loc[p])'
    <3>1. PICK me : me = loc[p]
      OBVIOUS
    <3>2. Operating(me)'
      BY <2>1, <3>1, OperatingStays DEF OperatorInv
    <3> QED BY <2>1, <3>1, <3>2
  <2> QED BY <2>1, <2>2, SameView DEF OperatorInv
<1>2. CASE OperatorNext
  <2>1. PICK p \in Procs : OperatorStart(p) \/ Step(p) \/ Answer(p) \/ Kill(p)
    BY <1>2 DEF OperatorNext
  <2>2. CASE OperatorStart(p)
    BY <2>2, FinishRecoveryOperates, CaptureStartOperates, RecoverStartOperates,
       ArtifactStepOperates DEF OperatorStart
  <2>3. CASE Step(p)
    BY <2>3, CaptureBeginOperates, CaptureReconcileOperates, CaptureCreateOperates,
       CaptureRequestOperates, CaptureRequestEventOperates, CaptureSendOperates,
       CaptureReuseOperates, CaptureRecordOperates, AppendNextOperates,
       RecoverRecordOperates, RecoverCheckOperates, RecoverAppendOperates,
       ArtifactStepOperates DEF Step
  <2>4. CASE Answer(p)
    BY <2>4, CaptureAnswerOperates DEF Answer
  <2>5. CASE Kill(p)
    BY <2>5, ArtifactStepOperates
  <2> QED BY <2>1, <2>2, <2>3, <2>4, <2>5
<1> QED BY <1>1, <1>2

(* OperatorInv holds of every behaviour in which one operator follows the  *)
(* rules: an attempt in progress, bytes without a record and an unfinished *)
(* recovery each leave the one command that accounts for them to be run.   *)
THEOREM OperatorInvariant ==
  ASSUME OneCommand
  PROVE  OperatorSpec => [](IInv /\ RecInv /\ SealInv /\ OperatorInv)
<1>1. Init => IInv /\ RecInv /\ SealInv /\ OperatorInv
  BY InitSound, InitRecovers, InitSeals, InitOperates
<1>2. IInv /\ RecInv /\ SealInv /\ OperatorInv /\ [OperatorNext]_vars
        => (IInv /\ RecInv /\ SealInv /\ OperatorInv)'
  <2> SUFFICES ASSUME IInv, RecInv, SealInv, OperatorInv, [OperatorNext]_vars
               PROVE  (IInv /\ RecInv /\ SealInv /\ OperatorInv)'
    OBVIOUS
  <2>1. [Next]_vars
    BY OperatorSteps
  <2>2. IInv'
    BY <2>1, StepSound, StutterSound
  <2>3. RecInv' /\ SealInv'
    BY <2>1, StepRecovers, StepSeals
  <2>4. OperatorInv'
    BY <2>2, <2>3, StepOperates
  <2> QED BY <2>2, <2>3, <2>4
<1> QED BY <1>1, <1>2, PTL DEF OperatorSpec

LEMMA RecoveryEventsSome ==
  ASSUME NEW r \in Recovery
  PROVE  \E e \in Range(RecoveryEvents(r)) : e.dig = r
<1>1. PICK events : events = RecoveryEvents(r)
  OBVIOUS
<1>2. events \in Seq(RecoveryDrafts(r))
  BY <1>1, RecoveryEventsNamed
<1>3. Len(events) # 0
  <2>1. PICK e, a, c, d :
          /\ e = Occurrence("recovery_declared", 0, r, None)
          /\ a = IF r.before = "capturing"
                   THEN << Occurrence("attempt_interrupted", 0, r, None),
                           Draft("capture_interrupted", "interrupted", 0, r, None) >>
                   ELSE <<>>
          /\ c = IF r.partial # None
                   THEN << Occurrence("recovery_evidence_preserved", 0, r, r.partial) >>
                   ELSE <<>>
          /\ d = CASE r.action = "resume" -> << Draft("capture_resumed", "capturing", 0, r, None) >>
                   [] r.action = "abort"  -> << Draft("capture_aborted", "aborted", 0, r, None) >>
                   [] OTHER               -> <<>>
    OBVIOUS
  <2>2. events = ((a \o << e >>) \o c) \o d
    BY <1>1, <2>1 DEF RecoveryEvents
  <2>3. PICK D : D = RecoveryDrafts(r) \cup { Occurrence("attempt_interrupted", 0, r, None),
                     Draft("capture_interrupted", "interrupted", 0, r, None), e,
                     Occurrence("recovery_evidence_preserved", 0, r, r.partial),
                     Draft("capture_resumed", "capturing", 0, r, None),
                     Draft("capture_aborted", "aborted", 0, r, None) }
    OBVIOUS
  <2>4. a \in Seq(D) /\ << e >> \in Seq(D) /\ c \in Seq(D) /\ d \in Seq(D) /\ Len(<< e >>) = 1
    <3>1. /\ Occurrence("attempt_interrupted", 0, r, None) \in D
          /\ Draft("capture_interrupted", "interrupted", 0, r, None) \in D /\ e \in D
          /\ Occurrence("recovery_evidence_preserved", 0, r, r.partial) \in D
          /\ Draft("capture_resumed", "capturing", 0, r, None) \in D
          /\ Draft("capture_aborted", "aborted", 0, r, None) \in D
      BY <2>3
    <3>2. a \in Seq(D) /\ << e >> \in Seq(D) /\ c \in Seq(D) /\ Len(<< e >>) = 1
      BY <2>1, <3>1
    <3>3. d \in Seq(D)
      BY <2>1, <3>1
    <3> QED BY <3>2, <3>3
  <2>5. a \o << e >> \in Seq(D) /\ Len(a \o << e >>) = Len(a) + 1
    BY <2>4, ConcatProperties
  <2>6. /\ (a \o << e >>) \o c \in Seq(D)
        /\ Len((a \o << e >>) \o c) = Len(a) + 1 + Len(c)
    BY <2>4, <2>5, ConcatProperties
  <2>7. Len(events) = Len(a) + 1 + Len(c) + Len(d)
    BY <2>2, <2>4, <2>6, ConcatProperties
  <2>8. Len(a) \in Nat /\ Len(c) \in Nat /\ Len(d) \in Nat
    BY <2>4, LenProperties
  <2> QED BY <2>7, <2>8
<1>4. 1 \in DOMAIN events
  BY <1>2, <1>3, LenProperties
<1>5. events[1] \in RecoveryDrafts(r)
  BY <1>2, <1>4, ElementOfSeq, LenProperties
<1> QED BY <1>1, <1>4, <1>5 DEF RecoveryDrafts, Range

LEMMA RecoveriesAreBound ==
  ASSUME IInv, RecInv, IncompleteRecoveries = {}
  PROVE  RecoveryBound
<1>1. \A r \in Range(recs) : RecoveryComplete(r)
  BY DEF IncompleteRecoveries, Range
<1>2. \A r \in Range(recs) : ~RecoveryDuplicated(r)
  BY NeverDuplicated DEF IInv, RecInv
<1>3. ASSUME NEW r \in Range(recs) PROVE \E i \in DOMAIN ledger : ledger[i].dig = r
  <2>1. r \in Recovery
    BY RecordsAreRecoveries DEF IInv
  <2>2. PICK e \in Range(RecoveryEvents(r)) : e.dig = r
    BY <2>1, RecoveryEventsSome
  <2>3. Present(e)
    BY <1>1 DEF RecoveryComplete
  <2> QED BY <2>2, <2>3 DEF Present, Places
<1>4. \A r \in Range(recs) : r # None
  BY RecordsAreRecoveries DEF IInv
<1>5. \A i \in DOMAIN ledger : ledger[i].dig # None => ledger[i].dig \in Range(recs)
  BY DEF IInv, LedgerSound
<1>6. { ledger[i].dig : i \in DOMAIN ledger } \ {None} = Range(recs)
  BY <1>3, <1>4, <1>5
<1> QED BY <1>1, <1>2, <1>6 DEF RecoveryBound

\* A captured run has the complete attempt, with its bytes and both its events.
LEMMA CapturedIsComplete ==
  ASSUME IInv, OperatorInv, NEW n \in DOMAIN attempts, CompleteAt(n),
         State \in {"captured", "aborted"}
  PROVE  /\ State = "captured"
         /\ EventsFor("response_preserved", n) # {} /\ EventsFor("capture_completed", n) # {}
<1>1. n = Len(attempts) /\ State = "captured"
  BY DEF OperatorInv, DiskBound, ResponsesBound
<1>2. PICK i \in EventsOf({"capture_completed"}) : TRUE
  BY <1>1 DEF IInv, LedgerSound
<1>3. PICK m : m = ledger[i].att
  OBVIOUS
<1>4. m \in DOMAIN attempts /\ CompleteAt(m) /\ EventsFor("response_preserved", m) # {}
  BY <1>3 DEF IInv, EvidenceSound, CapturedEvidence, CompleteAt
<1>5. m = n
  BY <1>1, <1>4 DEF OperatorInv, DiskBound, ResponsesBound
<1>6. i \in EventsFor("capture_completed", n)
  BY <1>3, <1>5 DEF EventsFor
<1> QED BY <1>1, <1>4, <1>5, <1>6

LEMMA AttemptsAreBound ==
  ASSUME IInv, OperatorInv, State \in {"captured", "aborted"}
  PROVE  AttemptEventsBound
<1>1. RequestsBound /\ ResponsesBound
  BY DEF OperatorInv, DiskBound
<1>2. \A S : S # {} /\ (\A i, j \in S : i = j) => Cardinality(S) = 1
  <2> SUFFICES ASSUME NEW S, S # {}, \A i, j \in S : i = j PROVE Cardinality(S) = 1
    OBVIOUS
  <2>1. PICK x : S = {x}
    OBVIOUS
  <2>2. Cardinality({x}) = 1
    BY FS_Singleton
  <2> QED BY <2>1, <2>2
<1>3. Cardinality(EventsOf({"capture_completed"})) <= 1
  <2>1. \A i, j \in EventsOf({"capture_completed"}) : i = j
    BY <1>1 DEF ResponsesBound
  <2>2. \/ Cardinality(EventsOf({"capture_completed"})) = 0
        \/ Cardinality(EventsOf({"capture_completed"})) = 1
    BY <2>1, AtMostOne
  <2> QED BY <2>2
<1>4. ASSUME NEW n \in DOMAIN View, View[n].status # "interrupted_uncommitted"
      PROVE  Cardinality(EventsFor("request_preserved", n)) = 1
  <2>1. n \in DOMAIN attempts /\ attempts[n].record # None
    BY <1>4 DEF View, Uncommitted
  <2>2. EventsFor("request_preserved", n) # {}
    BY <1>1, <2>1 DEF RequestsBound
  <2>3. \A i, j \in EventsFor("request_preserved", n) : i = j
    BY <1>1 DEF RequestsBound, EventsFor
  <2> QED BY <1>2, <2>2, <2>3
<1>5. ASSUME NEW n \in DOMAIN View, View[n].complete
      PROVE  /\ Cardinality(EventsFor("response_preserved", n)) = 1
             /\ \A i \in EventsFor("response_preserved", n) : ledger[i].ref = View[n].blob
             /\ Cardinality(EventsFor("capture_completed", n)) = 1
  <2>1. n \in DOMAIN attempts /\ CompleteAt(n) /\ View[n] = attempts[n].record
    BY <1>5 DEF View, Uncommitted, CompleteAt
  <2>2. EventsFor("response_preserved", n) # {} /\ EventsFor("capture_completed", n) # {}
    BY <2>1, CapturedIsComplete
  <2>3. /\ \A i, j \in EventsFor("response_preserved", n) : i = j
        /\ \A i, j \in EventsFor("capture_completed", n) : i = j
        /\ \A i \in EventsFor("response_preserved", n) : ledger[i].ref = View[n].blob
    BY <1>1, <2>1 DEF ResponsesBound, EventsFor
  <2> QED BY <1>2, <2>2, <2>3
<1> QED BY <1>3, <1>4, <1>5 DEF AttemptEventsBound

\* The state EvidenceSealable speaks of, while there is no manifest.
LEMMA CapturedSealable ==
  ASSUME IInv, RecInv, OperatorInv, State \in {"captured", "aborted"}
  PROVE  /\ EvidenceBound(State = "aborted")
         /\ State = "captured" => CompleteIn(View) # {}
<1>1. IncompleteRecoveries = {} /\ Loose = {} /\ Evidence \subseteq blobs
  BY DEF OperatorInv, DiskBound, InventoryBound, RecoveriesBound
<1>2. AttemptsReadable(State = "aborted")
  <2>1. \A n \in DOMAIN attempts : attempts[n].record # None => attempts[n].request
    BY DEF IInv, EvidenceSound
  <2>2. CASE State = "captured"
    <3>1. ~Open
      BY <2>2 DEF OperatorInv, DiskBound, InventoryBound
    <3> QED BY <2>1, <3>1 DEF AttemptsReadable, AttemptReadable, Open
  <2>3. CASE State = "aborted"
    <3>1. PICK r \in Range(recs) : r.att = Len(attempts)
      BY <2>3 DEF OperatorInv, DiskBound, RecoveriesBound
    <3>2. \A n \in DOMAIN attempts : n < Len(attempts) \/ n = Len(attempts)
      BY AttemptPositions DEF IInv
    <3>3. \A n \in DOMAIN attempts : n < Len(attempts) => attempts[n].record # None
      BY DEF IInv, EvidenceSound
    <3> QED BY <2>1, <2>3, <3>1, <3>2, <3>3 DEF AttemptsReadable, AttemptReadable
  <2> QED BY <2>2, <2>3
<1>3. RecoveryBound /\ AttemptEventsBound
  BY <1>1, RecoveriesAreBound, AttemptsAreBound
<1>4. InventoryExact
  BY <1>1 DEF InventoryExact, Loose
<1>5. State = "captured" => CompleteIn(View) # {}
  <2> SUFFICES ASSUME State = "captured" PROVE CompleteIn(View) # {}
    OBVIOUS
  <2>1. PICK i \in EventsOf({"capture_completed"}) : TRUE
    BY DEF IInv, LedgerSound
  <2>2. PICK n : n = ledger[i].att
    OBVIOUS
  <2>3. n \in DOMAIN attempts /\ CompleteAt(n)
    BY <2>2 DEF IInv, EvidenceSound, CapturedEvidence, CompleteAt
  <2>4. n \in CompleteIn(View)
    BY <2>3 DEF CompleteIn, View, CompleteAt
  <2> QED BY <2>4
<1> QED BY <1>2, <1>3, <1>4, <1>5 DEF EvidenceBound

(* Whatever the transport answered and however often a command was killed, *)
(* the evidence an operator who follows the rules ends with can be sealed, *)
(* and a seal cut short can be taken up again.                             *)
THEOREM EvidenceAlwaysSealable ==
  ASSUME OneCommand
  PROVE  OperatorSpec => []EvidenceSealable
<1>1. IInv /\ RecInv /\ SealInv /\ OperatorInv => EvidenceSealable
  <2> SUFFICES ASSUME IInv, RecInv, SealInv, OperatorInv, State \in {"captured", "aborted"}
               PROVE  Sealable
    BY DEF EvidenceSealable
  <2>1. /\ EvidenceBound(State = "aborted")
        /\ State = "captured" => CompleteIn(View) # {}
    BY CapturedSealable
  <2>2. CASE manifest = None
    BY <2>1, <2>2 DEF Sealable
  <2>3. CASE manifest # None
    <3>1. ManifestValid(Sealed) /\ ~Sealed
      BY <2>3 DEF SealInv, SealsSound, Sealed
    <3>2. ManifestValid(FALSE)
      BY <3>1 DEF ManifestValid
    <3> QED BY <2>1, <2>3, <3>2 DEF Sealable
  <2> QED BY <2>2, <2>3
<1> QED BY <1>1, OperatorInvariant, PTL
=============================================================================
