-------------------------- MODULE CampaignReview_proofs --------------------------
(***************************************************************************)
(* What dispositions and closures promise, for any runs and bundles, any   *)
(* number of changes to them and any number of commands.  ReviewInv is the *)
(* inductive invariant.  It says nothing of the bundles on disk: they may  *)
(* be changed at any time, and what a command keeps of one is sound only   *)
(* because it validated the bundle in the step that read it.               *)
(***************************************************************************)
EXTENDS CampaignReview, SequenceTheorems, TLAPS

-----------------------------------------------------------------------------
(* The invariant.                                                          *)

PacketSound(packet) ==
    /\ packet.verdict = packet.source.ledger.judged.verdict
    /\ packet.source.ledger.judged.manifest.content = packet.execution

MemberSound(member) ==
    /\ member.packet.action = "ratify"
    /\ member.lineage.packet = member.packet
    /\ member.packet.execution = member.execution
    /\ member.verdict = member.packet.source.ledger.judged.verdict
    /\ member.shared = member.packet.source.lock.shared

(* A sequence, of whatever it holds. *)
IsSequence(s) == s \in Seq({s[i] : i \in DOMAIN s})

MembersSound(members) ==
    IsSequence(members) /\ \A i \in DOMAIN members : MemberSound(members[i])

RecordSound(record) ==
    MembersSound(record.members) /\ SharedInputs(record.members)

(* What is on disk is sound as far as it is written. *)
DispositionSound(files) ==
    /\ files = [packet |-> files.packet, lineage |-> files.lineage]
    /\ files.packet # Absent => PacketSound(files.packet)

ClosureSound(files) ==
    /\ files = [record |-> files.record, lineage |-> files.lineage]
    /\ files.record # Absent => RecordSound(files.record)

(* What a command holds, and the directory it has made, for dispositions r *)
(* and closures c on disk.                                                 *)
HoldsSound(me, r, c) ==
    /\ me.at \in {"directory", "packet", "lineage"} =>
         /\ me = [at |-> me.at, id |-> me.id, packet |-> me.packet]
         /\ me.id \in RatificationIds /\ PacketSound(me.packet)
    /\ me.at \in {"packet", "lineage"} => DispositionSound(r[me.id])
    /\ me.at = "members" =>
         /\ me = [at |-> me.at, id |-> me.id, spec |-> me.spec, members |-> me.members]
         /\ me.id \in ClosureIds /\ MembersSound(me.members)
    /\ me.at \in {"record", "recordLineage"} =>
         /\ me = [at |-> me.at, id |-> me.id, record |-> me.record]
         /\ me.id \in ClosureIds /\ RecordSound(me.record) /\ ClosureSound(c[me.id])

StateSound(me) == HoldsSound(me, rat, closed)

ReviewInv ==
    /\ rat = [id \in RatificationIds |-> rat[id]]
    /\ closed = [id \in ClosureIds |-> closed[id]]
    /\ proc = [p \in Procs |-> proc[p]]
    /\ \A id \in RatificationIds : rat[id] # Absent => DispositionSound(rat[id])
    /\ \A id \in ClosureIds : closed[id] # Absent => ClosureSound(closed[id])
    /\ \A p \in Procs : StateSound(proc[p])

-----------------------------------------------------------------------------
(* Facts used in several places.                                           *)

LEMMA IdleSound == StateSound(Idle)
  BY DEF StateSound, HoldsSound, Idle

(* A validated bundle binds one judgment from its outer digest down to the *)
(* ledger: the packet made of it says what the ledger bound.               *)
LEMMA PacketOfValidBundle ==
    ASSUME NEW b, ValidateReviewBundle(b), NEW id, NEW action
    PROVE  PacketSound(Packet(b, id, action))
  BY DEF ValidateReviewBundle, BundleSha, ManifestSha, JudgmentSha, LedgerRoot, Packet, PacketSound

(* A member that loads is sound: its packet was made of the very bundle    *)
(* whose verdict and lock are taken.                                       *)
LEMMA LoadedMemberSound ==
    ASSUME NEW m, MemberLoads(m)
    PROVE  MemberSound(LoadedMember(m))
<1> DEFINE b == bundle[m.execution]
           packet == rat[m.id].packet
<1>1. packet.source = BundleSha(b) /\ b.ledger.judged = JudgmentSha(b)
  BY DEF MemberLoads, ValidateReviewBundle
<1>2. packet.source.ledger.judged.verdict = b.judgment.verdict /\ packet.source.lock = b.lock
  BY <1>1 DEF BundleSha, JudgmentSha
<1>3. rat[m.id].lineage.packet = packet
  BY DEF MemberLoads, VerifyLineage, Lineage
<1> QED BY <1>2, <1>3 DEF MemberSound, LoadedMember, MemberLoads

LEMMA AppendMember ==
    ASSUME NEW members, MembersSound(members), NEW member, MemberSound(member)
    PROVE  MembersSound(Append(members, member))
<1> DEFINE old == {members[i] : i \in DOMAIN members}
           longer == Append(members, member)
<1>1. members \in Seq(old \cup {member})
  BY DEF MembersSound, IsSequence
<1>2. /\ longer \in Seq(old \cup {member})
      /\ Len(longer) = Len(members) + 1
      /\ \A i \in 1 .. Len(members) : longer[i] = members[i]
      /\ longer[Len(longer)] = member
  BY <1>1, AppendProperties
<1>3. DOMAIN longer = 1 .. Len(longer) /\ DOMAIN members = 1 .. Len(members) /\ Len(members) \in Nat
  BY <1>1, <1>2
<1>4. \A i \in DOMAIN longer : MemberSound(longer[i])
  BY <1>2, <1>3 DEF MembersSound
<1>5. IsSequence(longer)
  BY <1>2, <1>3 DEF IsSequence
<1> QED BY <1>4, <1>5 DEF MembersSound

LEMMA NoMembers == MembersSound(<<>>)
  BY DEF MembersSound, IsSequence

(* What a command holds stays sound while others write sound files. *)
LEMMA KeepsSound ==
    ASSUME NEW me, NEW r, NEW c, NEW r2, NEW c2, HoldsSound(me, r, c),
           \A id \in RatificationIds : r2[id] = r[id] \/ DispositionSound(r2[id]),
           \A id \in ClosureIds : c2[id] = c[id] \/ ClosureSound(c2[id])
    PROVE  HoldsSound(me, r2, c2)
<1>1. me.at \in {"packet", "lineage"} => DispositionSound(r2[me.id])
  BY DEF HoldsSound
<1>2. me.at \in {"record", "recordLineage"} => ClosureSound(c2[me.id])
  BY DEF HoldsSound
<1> QED BY <1>1, <1>2 DEF HoldsSound

(* A step of a command that writes no file of a record. *)
LEMMA OnlyState ==
    ASSUME ReviewInv, NEW p \in Procs, NEW state, Goto(p, state), UNCHANGED <<rat, closed>>,
           StateSound(state)
    PROVE  ReviewInv'
<1>1. \A q \in Procs : proc'[q] = IF q = p THEN state ELSE proc[q]
  BY DEF ReviewInv, Goto
<1>2. \A q \in Procs : StateSound(proc[q])'
  BY <1>1 DEF ReviewInv, StateSound, HoldsSound
<1> QED BY <1>2 DEF ReviewInv, Goto


-----------------------------------------------------------------------------
(* One lemma per action that concerns records.                             *)

LEMMA ReadBundleSound ==
    ASSUME ReviewInv, NEW p \in Procs, NEW e \in Executions, NEW id \in RatificationIds,
           NEW action \in Actions, ReadBundle(p, e, id, action)
    PROVE  ReviewInv'
<1> DEFINE packet == Packet(bundle[e], id, action)
           state == [at |-> "directory", id |-> id, packet |-> packet]
<1>1. PacketSound(packet)
  BY PacketOfValidBundle DEF ReadBundle
<1>2. StateSound(state)
  BY <1>1 DEF StateSound, HoldsSound
<1> QED BY <1>2, OnlyState DEF ReadBundle, Files

LEMMA MakeDirectorySound ==
    ASSUME ReviewInv, NEW p \in Procs, MakeDirectory(p)
    PROVE  ReviewInv'
<1> DEFINE id == proc[p].id
           state == [proc[p] EXCEPT !.at = "packet"]
<1>0. /\ proc[p] = [at |-> "directory", id |-> id, packet |-> proc[p].packet]
      /\ id \in RatificationIds /\ PacketSound(proc[p].packet)
  BY DEF MakeDirectory, ReviewInv, StateSound, HoldsSound
<1>1. CASE rat[id] = Absent
  <2>1. /\ rat' = [rat EXCEPT ![id] = NoFiles] /\ proc' = [proc EXCEPT ![p] = state]
        /\ UNCHANGED closed
    BY <1>1 DEF MakeDirectory, Goto
  <2>2. state = [at |-> "packet", id |-> id, packet |-> proc[p].packet]
    BY <1>0
  <2>3. \A r \in RatificationIds : rat'[r] = IF r = id THEN NoFiles ELSE rat[r]
    BY <2>1 DEF ReviewInv
  <2>4. DispositionSound(NoFiles)
    BY DEF DispositionSound, NoFiles
  <2>5. \A r \in RatificationIds : rat'[r] # Absent => DispositionSound(rat'[r])
    BY <2>3, <2>4 DEF ReviewInv
  <2>6. ASSUME NEW q \in Procs
        PROVE  StateSound(proc[q])'
    <3>1. StateSound(proc[q]) /\ proc'[q] = IF q = p THEN state ELSE proc[q]
      BY <2>1 DEF ReviewInv
    <3>2. CASE q = p
      BY <1>0, <2>2, <2>3, <2>4, <3>1, <3>2 DEF StateSound, HoldsSound
    <3>3. CASE q # p
      BY <2>1, <2>3, <2>4, <3>1, <3>3 DEF StateSound, HoldsSound
    <3> QED BY <3>2, <3>3
  <2> QED BY <2>1, <2>5, <2>6 DEF ReviewInv
<1>2. CASE rat[id] # Absent
  BY <1>2, IdleSound, OnlyState DEF MakeDirectory
<1> QED BY <1>1, <1>2

(* A file of a disposition: a sound packet, or anything as its lineage. *)
LEMMA WriteFileSound ==
    ASSUME ReviewInv, NEW p \in Procs, WritePacket(p) \/ WriteLineage(p)
    PROVE  ReviewInv'
<1> DEFINE id == proc[p].id
           me == proc[p]
<1>0. /\ me = [at |-> me.at, id |-> id, packet |-> me.packet]
      /\ id \in RatificationIds /\ PacketSound(me.packet) /\ DispositionSound(rat[id])
      /\ UNCHANGED closed /\ me.at \in {"packet", "lineage"}
  BY DEF WritePacket, WriteLineage, ReviewInv, StateSound, HoldsSound
<1>1. CASE UNCHANGED rat /\ Goto(p, Idle)
  BY <1>0, <1>1, IdleSound, OnlyState
<1>2. ASSUME NEW files, NEW state, rat' = [rat EXCEPT ![id] = files], Goto(p, state),
             DispositionSound(files),
             state = Idle \/ state = [at |-> "lineage", id |-> id, packet |-> me.packet]
      PROVE  ReviewInv'
  <2>1. \A r \in RatificationIds : rat'[r] = IF r = id THEN files ELSE rat[r]
    BY <1>2 DEF ReviewInv
  <2>2. \A r \in RatificationIds : rat'[r] # Absent => DispositionSound(rat'[r])
    BY <1>2, <2>1 DEF ReviewInv
  <2>3. ASSUME NEW q \in Procs
        PROVE  StateSound(proc[q])'
    <3>1. StateSound(proc[q]) /\ proc'[q] = IF q = p THEN state ELSE proc[q]
      BY <1>2 DEF ReviewInv, Goto
    <3>2. CASE q = p /\ state = Idle
      BY <3>1, <3>2 DEF StateSound, HoldsSound, Idle
    <3>3. CASE q = p /\ state # Idle
      <4>1. /\ proc'[q] = [at |-> "lineage", id |-> id, packet |-> me.packet]
            /\ DispositionSound(rat'[id])
        BY <1>0, <1>2, <2>1, <3>1, <3>3
      <4> QED BY <1>0, <4>1 DEF StateSound, HoldsSound
    <3>4. CASE q # p
      <4>1. \A r \in RatificationIds : rat'[r] = rat[r] \/ DispositionSound(rat'[r])
        BY <1>2, <2>1
      <4>2. closed' = closed
        BY <1>0
      <4>3. HoldsSound(proc[q], rat', closed')
        BY <3>1, <4>1, <4>2, KeepsSound DEF StateSound
      <4> QED BY <3>1, <3>4, <4>3 DEF StateSound
    <3> QED BY <3>2, <3>3, <3>4
  <2> QED BY <1>0, <1>2, <2>2, <2>3 DEF ReviewInv, Goto
<1>3. CASE WritePacket(p) /\ rat[id].packet = Absent
  <2> DEFINE files == [packet |-> me.packet, lineage |-> rat[id].lineage]
             state == [at |-> "lineage", id |-> id, packet |-> me.packet]
  <2>1. [rat[id] EXCEPT !.packet = me.packet] = files
    BY <1>0 DEF DispositionSound
  <2>2. rat' = [rat EXCEPT ![id] = files]
    BY <1>3, <2>1 DEF WritePacket, WriteFile
  <2>3. [me EXCEPT !.at = "lineage"] = state
    BY <1>0
  <2>4. Goto(p, state)
    BY <1>3, <2>3 DEF WritePacket, WriteFile
  <2>5. DispositionSound(files)
    BY <1>0 DEF DispositionSound
  <2> QED BY <1>2, <2>2, <2>4, <2>5
<1>4. CASE WriteLineage(p) /\ rat[id].lineage = Absent
  <2> DEFINE files == [packet |-> rat[id].packet, lineage |-> Lineage(me.packet)]
  <2>1. [rat[id] EXCEPT !.lineage = Lineage(me.packet)] = files
    BY <1>0 DEF DispositionSound
  <2>2. rat' = [rat EXCEPT ![id] = files] /\ Goto(p, Idle)
    BY <1>4, <2>1 DEF WriteLineage, WriteFile
  <2>3. DispositionSound(files)
    BY <1>0 DEF DispositionSound
  <2> QED BY <1>2, <2>2, <2>3
<1> QED BY <1>1, <1>3, <1>4 DEF WritePacket, WriteLineage, WriteFile

LEMMA ReadSpecSound ==
    ASSUME ReviewInv, NEW p \in Procs, NEW id \in ClosureIds, ReadSpec(p, id)
    PROVE  ReviewInv'
<1>1. StateSound([at |-> "members", id |-> id, spec |-> spec, members |-> <<>>])
  BY NoMembers DEF StateSound, HoldsSound
<1> QED BY <1>1, OnlyState DEF ReadSpec, Files

LEMMA LoadMemberSound ==
    ASSUME ReviewInv, NEW p \in Procs, LoadMember(p)
    PROVE  ReviewInv'
<1> DEFINE me == proc[p]
           m == me.spec[Len(me.members) + 1]
           members == Append(me.members, LoadedMember(m))
           state == [at |-> "members", id |-> me.id, spec |-> me.spec, members |-> members]
<1>0. /\ me = [at |-> "members", id |-> me.id, spec |-> me.spec, members |-> me.members]
      /\ me.id \in ClosureIds /\ MembersSound(me.members) /\ UNCHANGED <<rat, closed>>
  BY DEF LoadMember, Files, ReviewInv, StateSound, HoldsSound
<1>1. CASE MemberLoads(m)
  <2>1. ASSUME NEW x
        PROVE  [me EXCEPT !.members = x] =
                 [at |-> "members", id |-> me.id, spec |-> me.spec, members |-> x]
    BY <1>0
  <2>2. Goto(p, state)
    BY <1>1, <2>1 DEF LoadMember
  <2>3. StateSound(state)
    BY <1>0, <1>1, LoadedMemberSound, AppendMember DEF StateSound, HoldsSound
  <2> QED BY <1>0, <2>2, <2>3, OnlyState
<1>2. CASE ~MemberLoads(m)
  BY <1>0, <1>2, IdleSound, OnlyState DEF LoadMember
<1> QED BY <1>1, <1>2

(* The directory of a closure, with the records still to be written. *)
LEMMA BuildClosureSound ==
    ASSUME ReviewInv, NEW p \in Procs, BuildClosure(p)
    PROVE  ReviewInv'
<1> DEFINE id == proc[p].id
           record == ClosureRecord(proc[p].members)
           files == [record |-> Absent, lineage |-> Absent]
           state == [at |-> "record", id |-> id, record |-> record]
<1>0. id \in ClosureIds /\ MembersSound(proc[p].members) /\ UNCHANGED rat
  BY DEF BuildClosure, ReviewInv, StateSound, HoldsSound
<1>1. CASE closed' = closed /\ Goto(p, Idle)
  BY <1>0, <1>1, IdleSound, OnlyState
<1>2. CASE /\ SharedInputs(proc[p].members)
           /\ closed' = [closed EXCEPT ![id] = files] /\ Goto(p, state)
  <2>1. RecordSound(record) /\ ClosureSound(files)
    BY <1>0, <1>2 DEF RecordSound, ClosureRecord, ClosureSound
  <2>2. \A c \in ClosureIds : closed'[c] = IF c = id THEN files ELSE closed[c]
    BY <1>2 DEF ReviewInv
  <2>3. ASSUME NEW q \in Procs
        PROVE  StateSound(proc[q])'
    <3>1. StateSound(proc[q]) /\ proc'[q] = IF q = p THEN state ELSE proc[q]
      BY <1>2 DEF ReviewInv, Goto
    <3>2. CASE q = p
      BY <1>0, <2>1, <2>2, <3>1, <3>2 DEF StateSound, HoldsSound
    <3>3. CASE q # p
      <4>1. HoldsSound(proc[q], rat', closed')
        BY <1>0, <2>1, <2>2, <3>1, KeepsSound DEF StateSound
      <4> QED BY <3>1, <3>3, <4>1 DEF StateSound
    <3> QED BY <3>2, <3>3
  <2> QED BY <1>0, <1>2, <2>1, <2>2, <2>3 DEF ReviewInv, Goto
<1> QED BY <1>1, <1>2 DEF BuildClosure

(* A file of a closure: the record that was built, or its lineage. *)
LEMMA WriteClosureSound ==
    ASSUME ReviewInv, NEW p \in Procs, WriteClosure(p)
    PROVE  ReviewInv'
<1> DEFINE me == proc[p]
           id == me.id
<1>0. /\ me = [at |-> me.at, id |-> id, record |-> me.record]
      /\ id \in ClosureIds /\ RecordSound(me.record) /\ ClosureSound(closed[id]) /\ UNCHANGED rat
  BY DEF WriteClosure, ReviewInv, StateSound, HoldsSound
<1>1. ASSUME NEW files, NEW state, closed' = [closed EXCEPT ![id] = files], Goto(p, state),
             ClosureSound(files),
             state = Idle \/ state = [at |-> "recordLineage", id |-> id, record |-> me.record]
      PROVE  ReviewInv'
  <2>1. \A c \in ClosureIds : closed'[c] = IF c = id THEN files ELSE closed[c]
    BY <1>1 DEF ReviewInv
  <2>2. ASSUME NEW q \in Procs
        PROVE  StateSound(proc[q])'
    <3>1. StateSound(proc[q]) /\ proc'[q] = IF q = p THEN state ELSE proc[q]
      BY <1>1 DEF ReviewInv, Goto
    <3>2. CASE q = p /\ state = Idle
      BY <3>1, <3>2 DEF StateSound, HoldsSound, Idle
    <3>3. CASE q = p /\ state # Idle
      <4>1. /\ proc'[q] = [at |-> "recordLineage", id |-> id, record |-> me.record]
            /\ ClosureSound(closed'[id])
        BY <1>0, <1>1, <2>1, <3>1, <3>3
      <4> QED BY <1>0, <4>1 DEF StateSound, HoldsSound
    <3>4. CASE q # p
      <4>1. \A c \in ClosureIds : closed'[c] = closed[c] \/ ClosureSound(closed'[c])
        BY <1>1, <2>1
      <4>2. rat' = rat
        BY <1>0
      <4>3. HoldsSound(proc[q], rat', closed')
        BY <3>1, <4>1, <4>2, KeepsSound DEF StateSound
      <4> QED BY <3>1, <3>4, <4>3 DEF StateSound
    <3> QED BY <3>2, <3>3, <3>4
  <2> QED BY <1>0, <1>1, <2>1, <2>2 DEF ReviewInv, Goto
<1>2. CASE me.at = "record"
  <2> DEFINE files == [record |-> me.record, lineage |-> closed[id].lineage]
             state == [at |-> "recordLineage", id |-> id, record |-> me.record]
  <2>1. [closed[id] EXCEPT !.record = me.record] = files
    BY <1>0 DEF ClosureSound
  <2>4. [me EXCEPT !.at = "recordLineage"] = state
    BY <1>0
  <2>2. closed' = [closed EXCEPT ![id] = files] /\ Goto(p, state)
    BY <1>2, <2>1, <2>4 DEF WriteClosure
  <2>3. ClosureSound(files)
    BY <1>0 DEF ClosureSound
  <2> QED BY <1>1, <2>2, <2>3
<1>3. CASE me.at = "recordLineage"
  <2> DEFINE files == [record |-> closed[id].record, lineage |-> ClosureLineage(me.record)]
  <2>1. [closed[id] EXCEPT !.lineage = ClosureLineage(me.record)] = files
    BY <1>0 DEF ClosureSound
  <2>2. closed' = [closed EXCEPT ![id] = files] /\ Goto(p, Idle)
    BY <1>3, <2>1 DEF WriteClosure
  <2>3. ClosureSound(files)
    BY <1>0 DEF ClosureSound
  <2> QED BY <1>1, <2>2, <2>3
<1> QED BY <1>2, <1>3 DEF WriteClosure

-----------------------------------------------------------------------------
(* The theorems.                                                           *)

(* ReviewInv holds throughout, whatever is changed and whichever commands  *)
(* overlap (ratification.py, cohort_closure.py).                           *)
THEOREM ReviewInvariant == Spec => []ReviewInv
<1>1. Init => ReviewInv
  BY IdleSound DEF Init, ReviewInv
<1>2. ReviewInv /\ [Next]_vars => ReviewInv'
  <2> SUFFICES ASSUME ReviewInv, [Next]_vars
               PROVE  ReviewInv'
    OBVIOUS
  <2>1. CASE UNCHANGED <<rat, closed, proc>>
    BY <2>1 DEF ReviewInv, StateSound, HoldsSound
  <2>2. ASSUME NEW p \in Procs, Step(p) \/ Kill(p)
        PROVE  ReviewInv'
    <3>1. CASE Kill(p)
      BY <3>1, IdleSound, OnlyState DEF Kill, Files
    <3>2. CASE Step(p)
      BY <3>2, ReadBundleSound, MakeDirectorySound, WriteFileSound, ReadSpecSound, LoadMemberSound,
         BuildClosureSound, WriteClosureSound DEF Step
    <3> QED BY <2>2, <3>1, <3>2
  <2>3. CASE \/ \E e \in Executions : Publish(e)
             \/ \E e \in Executions, v \in {"pass", "fail"}, fields \in Resealings :
                   ChangeBundle(e, v, fields)
             \/ \E cohort \in Cohorts : \E ids \in [DOMAIN cohort -> RatificationIds], bound \in BOOLEAN :
                   WriteSpec(cohort, ids, bound)
    <3>1. UNCHANGED <<rat, closed, proc>>
      BY <2>3 DEF Publish, ChangeBundle, WriteSpec
    <3> QED BY <2>1, <3>1
  <2> QED BY <2>1, <2>2, <2>3 DEF Next, vars
<1> QED BY <1>1, <1>2, PTL DEF Spec

(* A disposition is about the judgment that the run's ledger bound         *)
(* (docs/campaign-evidence-ratification.md, "Source verification").        *)
THEOREM PacketAlwaysBindsLedger == Spec => []PacketBindsLedger
<1>1. ReviewInv => PacketBindsLedger
  BY DEF ReviewInv, DispositionSound, PacketSound, PacketBindsLedger, Packets
<1> QED BY <1>1, ReviewInvariant, PTL

LEMMA ClosedIsSound ==
    ASSUME ReviewInv, NEW record \in Closures
    PROVE  RecordSound(record)
<1>1. PICK id \in ClosureIds : closed[id] # Absent /\ closed[id].record = record /\ record # Absent
  BY DEF Closures
<1> QED BY <1>1 DEF ReviewInv, ClosureSound

(* A closure accepts, for each member, the ratified verdict that the       *)
(* ledger of its run bound (cohort_closure.py).                            *)
THEOREM ClosureAlwaysAcceptsRatified == Spec => []ClosureAcceptsRatified
<1>1. ReviewInv => ClosureAcceptsRatified
  <2> SUFFICES ASSUME ReviewInv, NEW record \in Closures
               PROVE  \A i \in DOMAIN record.members :
                         LET member == record.members[i]
                         IN  /\ member.packet.action = "ratify"
                             /\ member.lineage.packet = member.packet
                             /\ member.packet.execution = member.execution
                             /\ member.verdict = member.packet.source.ledger.judged.verdict
    BY DEF ClosureAcceptsRatified
  <2>1. RecordSound(record)
    BY ClosedIsSound
  <2> QED BY <2>1 DEF RecordSound, MembersSound, MemberSound
<1> QED BY <1>1, ReviewInvariant, PTL

(* The members of a closed cohort were run on the same frozen inputs       *)
(* (cohort_closure.py).                                                    *)
THEOREM ClosureAlwaysComparable == Spec => []ClosureComparable
<1>1. ReviewInv => ClosureComparable
  <2> SUFFICES ASSUME ReviewInv, NEW record \in Closures,
                      NEW i \in DOMAIN record.members, NEW j \in DOMAIN record.members
               PROVE  record.members[i].packet.source.lock.shared =
                        record.members[j].packet.source.lock.shared
    BY DEF ClosureComparable
  <2>1. RecordSound(record)
    BY ClosedIsSound
  <2>2. MemberSound(record.members[i]) /\ MemberSound(record.members[j])
    BY <2>1 DEF RecordSound, MembersSound
  <2>3. record.members[i].shared = record.members[j].shared
    BY <2>1 DEF RecordSound, SharedInputs
  <2> QED BY <2>2, <2>3 DEF MemberSound
<1> QED BY <1>1, ReviewInvariant, PTL
=============================================================================
