----------------------------- MODULE SlotExecution -----------------------------
(***************************************************************************)
(* The guarded execution of a preregistered study, slot by slot: the R2    *)
(* harness (openai_gpt56_r2.py) over openai_live_pilot.py, and underneath  *)
(* it the initialisation of a run directory (storage.py, initialize_run).  *)
(* The replication harness takes the same steps.                           *)
(*                                                                         *)
(* Nothing keeps the progress of a study: every command derives it from    *)
(* the run directories that exist.  Any number of commands run at the same *)
(* time, each can be killed between two writes, and the repository whose   *)
(* files every run is bound to can be edited meanwhile.                    *)
(***************************************************************************)
EXTENDS StudyPlans

CONSTANTS
    Orders,       \* block orders of the preregistration
    Procs,        \* processes that can run a command
    Operators,    \* who can be declared as operator
    Trees,        \* contents of the bound files of the repository
    MaxKills,     \* bound on killed processes
    MaxEdits,     \* bound on edits of the repository
    None

ASSUME StudyAssumption ==
    /\ Orders \in Seq(Seq(STRING)) /\ Len(Orders) > 0
    /\ \A b \in 1 .. Len(Orders) : Len(Orders[b]) > 0
    /\ {MaxKills, MaxEdits} \subseteq Nat
    /\ None \notin Operators

VARIABLES
    plan,        \* the slots of slot-plan.json, or None
    auth,        \* auth[b]: operator of block-NNN.json, or None
    packs,       \* packs[s]: the preparation pack _prepared-<execution id>
    runs,        \* runs[s]: the run directory of slot s, or None
    tree,        \* what the bound files of the repository contain now
    proc,        \* what each process is doing, with its local variables
    sent,        \* history: how many requests left the machine for each slot
    kills, edits

vars == <<plan, auth, packs, runs, tree, proc, sent, kills, edits>>

Slots == 1 .. Len(FlattenSeq(Orders))
Blocks == 1 .. Len(Orders)

Idle == [at |-> "idle"]

-----------------------------------------------------------------------------
(* Documents.  A campaign is identified by its condition; the lock binds   *)
(* it and the bytes of the repository; the authorization binds the slot's  *)
(* execution id, the campaign, the lock and the request bytes.             *)

LockOf(campaign, bytes) == [campaign |-> campaign, tree |-> bytes]

Authorization(s, campaign, lock) ==
    [execution |-> s, campaign |-> campaign, lock |-> lock, request |-> ConditionPrompt(campaign)]

CampaignOf(s) == SlotsOf(Orders)[s].treatment

Pack(s, bytes) ==
    LET campaign == CampaignOf(s)
    IN  [campaign |-> campaign, lock |-> LockOf(campaign, bytes),
         auth |-> Authorization(s, campaign, LockOf(campaign, bytes)),
         request |-> ConditionPrompt(campaign)]

(* Mutant of ValidateAuthorization: the request is not compared. *)
ValidateAuthorizationUnbound(docs) ==
    docs.auth.campaign = docs.campaign /\ docs.auth.lock = docs.lock

(* What a reviewed authorization is compared with. *)
ValidateAuthorization(docs) ==
    /\ docs.auth.campaign = docs.campaign
    /\ docs.auth.lock = docs.lock
    /\ docs.auth.request = docs.request

(* The lock must be the campaign's and its bytes the repository's. *)
VerifyGovernedContext(docs) == docs.lock = LockOf(docs.campaign, tree)

-----------------------------------------------------------------------------
(* Reading the progress of the study. *)

Occupied(s) == runs[s] # None

AttemptState(s) ==
    CASE runs[s].attempt = None -> "initialized"
      [] runs[s].attempt = "started" -> "attempt_uncommitted"
      [] OTHER -> runs[s].attempt

(* Mutant of ScanSucceeds: a slot whose attempt has no record is refused. *)
ScanDemandsRecord ==
    \A s \in Slots :
        Occupied(s) =>
            /\ \A t \in 1 .. s - 1 : Occupied(t)
            /\ AttemptState(s) # "attempt_uncommitted"

(* scan_slot_states raises unless the occupied slots come first and each   *)
(* is a complete run directory of that very slot.                          *)
ScanSucceeds ==
    \A s \in Slots :
        Occupied(s) =>
            /\ \A t \in 1 .. s - 1 : Occupied(t)
            /\ runs[s].docs # None
            /\ runs[s].docs.auth.execution = s
            /\ runs[s].docs.campaign = plan[s].treatment
            /\ AttemptState(s) \in {"initialized", "attempt_uncommitted", "captured", "interrupted"}

(* Mutant of NextPending: what was prepared already is passed over. *)
NextUnprepared ==
    LET open == {s \in Slots : ~Occupied(s) /\ packs[s] = None}
    IN  {s \in open : \A t \in open : s <= t}

NextPending == {s \in Slots : ~Occupied(s) /\ \A t \in 1 .. s - 1 : Occupied(t)}

(* What a command may start from: the stored plan is the derived one, and  *)
(* the scan does not raise.                                                *)
Readable == plan = SlotsOf(Orders) /\ ScanSucceeds

Complete == \A s \in Slots : Occupied(s)

-----------------------------------------------------------------------------
(* One command of one process.  proc[p].at says what it does next. *)

Goto(p, state) == proc' = [proc EXCEPT ![p] = state]
Stop(p) == Goto(p, Idle)

(* initialize: an exclusive write of the derived plan. *)
Initialize(p) ==
    /\ proc[p] = Idle
    /\ plan = None
    /\ plan' = SlotsOf(Orders)
    /\ UNCHANGED <<auth, packs, runs, tree, proc, sent, kills, edits>>

(* Mutant of BuildBlockAuthorization: any block with a pending slot. *)
BuildAnyBlockAuthorization(p) ==
    /\ proc[p] = Idle
    /\ plan # None /\ Readable
    /\ \E s \in Slots, o \in Operators :
          ~Occupied(s) /\ Goto(p, [at |-> "authorize", block |-> plan[s].block, operator |-> o])
    /\ UNCHANGED <<plan, auth, packs, runs, tree, sent, kills, edits>>

(* authorize-block: only the block of the next pending slot. *)
BuildBlockAuthorization(p) ==
    /\ proc[p] = Idle
    /\ plan # None /\ Readable
    /\ \E s \in NextPending, o \in Operators :
          Goto(p, [at |-> "authorize", block |-> plan[s].block, operator |-> o])
    /\ UNCHANGED <<plan, auth, packs, runs, tree, sent, kills, edits>>

(* The record is written exclusively and read back; an existing one stays. *)
WriteBlockAuthorization(p) ==
    /\ proc[p].at = "authorize"
    /\ IF auth[proc[p].block] = None
       THEN auth' = [auth EXCEPT ![proc[p].block] = proc[p].operator]
       ELSE UNCHANGED auth
    /\ Stop(p)
    /\ UNCHANGED <<plan, packs, runs, tree, sent, kills, edits>>

(* The stored record of the slot's block, verified, names the operator. *)
Authorized(s, operator) == auth[plan[s].block] = operator

(* execute-next: the next pending slot, if the stored authorization is for *)
(* its block and names the operator who executes.  The authorization is    *)
(* read after the scan; it never changes, so one step does for both.       *)
ExecuteNext(p) ==
    /\ proc[p] = Idle
    /\ plan # None /\ Readable
    /\ \E s \in NextPending, o \in Operators :
          /\ Authorized(s, o)
          /\ Goto(p, [at |-> "prepare", slot |-> s])
    /\ UNCHANGED <<plan, auth, packs, runs, tree, sent, kills, edits>>

(* The model lookup of the pilot fails, and with it the command. *)
ModelUnavailable(p) ==
    /\ proc[p].at = "prepare"
    /\ Stop(p)
    /\ UNCHANGED <<plan, auth, packs, runs, tree, sent, kills, edits>>

(* Campaign, lock, request and authorization are built from the repository *)
(* as it is, and a directory for them is made, which must be new.          *)
MakePack(p) ==
    LET s == proc[p].slot
    IN  /\ proc[p].at = "prepare"
        /\ IF packs[s] = None
           THEN /\ packs' = [packs EXCEPT ![s] = [docs |-> Pack(s, tree), full |-> FALSE]]
                /\ Goto(p, [at |-> "fill", slot |-> s])
           ELSE UNCHANGED packs /\ Stop(p)
        /\ UNCHANGED <<plan, auth, runs, tree, sent, kills, edits>>

(* The four files of the pack; then the run is initialised from them. *)
WritePack(p) ==
    LET s == proc[p].slot
    IN  /\ proc[p].at = "fill"
        /\ packs' = [packs EXCEPT ![s] = [docs |-> packs[s].docs, full |-> TRUE]]
        /\ Goto(p, [at |-> "init", slot |-> s, docs |-> packs[s].docs])
        /\ UNCHANGED <<plan, auth, runs, tree, sent, kills, edits>>

(* init-openai of the capture command line: an operator initialises a run  *)
(* from four files, each of which may come from any finished pack.         *)
CliInit(p) ==
    /\ proc[p] = Idle
    /\ LET full == {s \in Slots : packs[s] # None /\ packs[s].full}
       IN  \E c, l, a, r \in full :
              Goto(p, [at |-> "init", slot |-> a,
                       docs |-> [campaign |-> packs[c].docs.campaign, lock |-> packs[l].docs.lock,
                                 auth |-> packs[a].docs.auth, request |-> packs[r].docs.request]])
    /\ UNCHANGED <<plan, auth, packs, runs, tree, sent, kills, edits>>

(* initialize_run checks its preconditions and prepares a staging          *)
(* directory of its own; a run that exists already ends the command.       *)
PrepareStaging(p) ==
    LET me == proc[p]
    IN  /\ me.at = "init"
        /\ IF VerifyGovernedContext(me.docs) /\ ValidateAuthorization(me.docs) /\ ~Occupied(me.slot)
           THEN Goto(p, [at |-> "publish", slot |-> me.slot,
                         staging |-> [docs |-> me.docs, attempt |-> None]])
           ELSE Stop(p)
        /\ UNCHANGED <<plan, auth, packs, runs, tree, sent, kills, edits>>

(* Documents and the four first events are in the staging directory; its   *)
(* rename shows them all at once, and fails if the run exists.             *)
PublishStagedRun(p) ==
    LET me == proc[p]
    IN  /\ me.at = "publish"
        /\ IF ~Occupied(me.slot)
           THEN /\ runs' = [runs EXCEPT ![me.slot] = me.staging]
                /\ Goto(p, [at |-> "capture", slot |-> me.slot])
           ELSE UNCHANGED runs /\ Stop(p)
        /\ UNCHANGED <<plan, auth, packs, tree, sent, kills, edits>>

(* capture-openai: the same capture, on a run that is there. *)
CliCapture(p) ==
    /\ proc[p] = Idle
    /\ \E s \in Slots : Occupied(s) /\ Goto(p, [at |-> "capture", slot |-> s])
    /\ UNCHANGED <<plan, auth, packs, runs, tree, sent, kills, edits>>

(* Mutant of CreateAttempt: a directory that exists is used. *)
CreateOrReuseAttempt(p) ==
    /\ proc[p].at = "capture"
    /\ IF VerifyGovernedContext(runs[proc[p].slot].docs)
       THEN /\ runs' = [runs EXCEPT ![proc[p].slot].attempt = "started"]
            /\ Goto(p, [at |-> "send", slot |-> proc[p].slot])
       ELSE UNCHANGED runs /\ Stop(p)
    /\ UNCHANGED <<plan, auth, packs, tree, sent, kills, edits>>

(* capture_attempt, of which CaptureRun has the rest: the context is       *)
(* verified again, and the directory of the only attempt the policy allows *)
(* is made, which must be new.                                             *)
CreateAttempt(p) ==
    LET s == proc[p].slot
    IN  /\ proc[p].at = "capture"
        /\ IF VerifyGovernedContext(runs[s].docs) /\ runs[s].attempt = None
           THEN /\ runs' = [runs EXCEPT ![s].attempt = "started"]
                /\ Goto(p, [at |-> "send", slot |-> s])
           ELSE UNCHANGED runs /\ Stop(p)
        /\ UNCHANGED <<plan, auth, packs, tree, sent, kills, edits>>

SendRequest(p) ==
    /\ proc[p].at = "send"
    /\ sent' = [sent EXCEPT ![proc[p].slot] = @ + 1]
    /\ Goto(p, [at |-> "receive", slot |-> proc[p].slot])
    /\ UNCHANGED <<plan, auth, packs, runs, tree, kills, edits>>

(* What the transport comes back with: a status, and whether there is a    *)
(* body.  It does not raise and does not try again.                        *)
TransportResults ==
    {<<"completed", TRUE>>, <<"transport_error", TRUE>>, <<"transport_error", FALSE>>, <<"timeout", FALSE>>}

(* attempt.json: the attempt is complete if the transport was. *)
WriteAttempt(p) ==
    /\ proc[p].at = "receive"
    /\ \E result \in TransportResults :
          runs' = [runs EXCEPT ![proc[p].slot].attempt =
                      IF result[1] = "completed" THEN "captured" ELSE "interrupted"]
    /\ Stop(p)
    /\ UNCHANGED <<plan, auth, packs, tree, sent, kills, edits>>

(* The environment. *)
Kill(p) ==
    /\ proc[p] # Idle
    /\ kills < MaxKills
    /\ kills' = kills + 1
    /\ Stop(p)
    /\ UNCHANGED <<plan, auth, packs, runs, tree, sent, edits>>

Edit ==
    /\ edits < MaxEdits
    /\ edits' = edits + 1
    /\ tree' \in Trees \ {tree}
    /\ UNCHANGED <<plan, auth, packs, runs, proc, sent, kills>>

-----------------------------------------------------------------------------
Init ==
    /\ plan = None
    /\ auth = [b \in Blocks |-> None]
    /\ packs = [s \in Slots |-> None]
    /\ runs = [s \in Slots |-> None]
    /\ tree \in Trees
    /\ proc = [p \in Procs |-> Idle]
    /\ sent = [s \in Slots |-> 0]
    /\ kills = 0 /\ edits = 0

(* What the harness itself does once it was started. *)
Step(p) ==
    \/ WriteBlockAuthorization(p) \/ MakePack(p) \/ WritePack(p)
    \/ PrepareStaging(p) \/ PublishStagedRun(p)
    \/ CreateAttempt(p) \/ SendRequest(p) \/ WriteAttempt(p)

(* What an operator of the study starts, again and again. *)
Start(p) == Initialize(p) \/ BuildBlockAuthorization(p) \/ ExecuteNext(p)

Next ==
    \/ \E p \in Procs : Start(p) \/ Step(p) \/ CliInit(p) \/ CliCapture(p)
                        \/ ModelUnavailable(p) \/ Kill(p)
    \/ Edit

Spec == Init /\ [][Next]_vars

(* A process that runs goes on, and the operator comes back: for the plan, *)
(* for each block that can be authorised, and for each slot of a block     *)
(* that is; the model is available again and again.                        *)
FairSpec ==
    /\ Spec
    /\ \A p \in Procs : /\ WF_vars(Step(p)) /\ SF_vars(MakePack(p))
                        /\ SF_vars(Initialize(p))
                        /\ SF_vars(BuildBlockAuthorization(p))
                        /\ SF_vars(ExecuteNext(p))

-----------------------------------------------------------------------------
(* Properties. *)

Attempts == {None, "started", "captured", "interrupted"}

(* What the pack and the run directory of a slot can hold. *)
PacksOf(s) == [docs : {Pack(s, t) : t \in Trees}, full : BOOLEAN]
RunsOf(s) == [docs : {Pack(s, t) : t \in Trees}, attempt : Attempts]

(* None is none of the things it stands for the absence of. *)
ASSUME NoneAssumption ==
    /\ None \notin {"started", "captured", "interrupted"}
    /\ \A s \in Slots : /\ None \notin PacksOf(s) \cup RunsOf(s)
                        /\ \A t \in Trees : None # Pack(s, t)

(* The type of the state. *)
TypeOK ==
    /\ plan \in {None, SlotsOf(Orders)}
    /\ auth \in [Blocks -> Operators \cup {None}]
    /\ DOMAIN packs = Slots /\ DOMAIN runs = Slots
    /\ \A s \in Slots : packs[s] \in PacksOf(s) \cup {None} /\ runs[s] \in RunsOf(s) \cup {None}
    /\ tree \in Trees
    /\ DOMAIN proc = Procs
    /\ sent \in [Slots -> Nat]

(* Whatever commands ran at the same time and wherever they died, the scan *)
(* of the run directories does not raise: no slot is occupied after one    *)
(* that is pending, and no half-made run directory is seen.  If it ever    *)
(* raised, every command of the study would refuse for good, because       *)
(* nothing removes a run directory (r2_state.py).                          *)
StudyStaysReadable == plan # None => ScanSucceeds

(* Two commands may pick the same slot, initialise it together, and be     *)
(* followed by captures from the command line; still one request at most   *)
(* goes out for a slot, and only for a slot whose block is authorised.     *)
OneRequestPerSlot ==
    \A s \in Slots : sent[s] > 0 =>
        /\ sent[s] = 1
        /\ auth[SlotsOf(Orders)[s].block] # None
        /\ Occupied(s) /\ runs[s].attempt # None

(* The four files a run is initialised from may be mixed from several      *)
(* packs; a run that exists is nevertheless its slot's own: campaign,      *)
(* lock, authorization and request belong together (authorization.py).     *)
RunBindsSlot ==
    \A s \in Slots : Occupied(s) => \E t \in Trees : runs[s].docs = Pack(s, t)

(* The study as its documents describe it. *)
Study == INSTANCE FixedStudy WITH
    NumSlots <- Len(FlattenSeq(Orders)),
    BlockOf <- LAMBDA s : SlotsOf(Orders)[s].block,
    granted <- Cardinality({b \in Blocks : auth[b] # None}),
    consumed <- Cardinality({s \in Slots : Occupied(s)}),
    requested <- {s \in Slots : sent[s] > 0}

ImplementsStudy == Study!StudySpec

(* The next slot was prepared by a command that is no longer there, or the *)
(* repository is not any more what it was prepared from; nobody is about   *)
(* to initialise it from documents that will do.                           *)
Orphaned ==
    \E s \in NextPending :
        /\ packs[s] # None
        /\ \A p \in Procs : proc[p].at \in {"fill", "init", "publish"} /\ proc[p].slot = s =>
              /\ proc[p].at = "init"
              /\ ~VerifyGovernedContext(proc[p].docs) \/ ~ValidateAuthorization(proc[p].docs)

(* With an operator who comes back the study gets to its last slot, or to  *)
(* a slot whose preparation was cut off or invalidated: nothing else can   *)
(* stop it.  No command waits for another, and a race for a slot always    *)
(* has a winner.                                                           *)
StudyAdvances == <>(Complete \/ Orphaned)
===============================================================================
