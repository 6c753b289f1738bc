-------------------------- MODULE CampaignLock_proofs --------------------------
(***************************************************************************)
(* What benchmark locks promise, for any files, documents and commits, and *)
(* any number of edits, commits and commands between any two readings.     *)
(* LockInv is the inductive invariant.  It relates what a command holds to *)
(* the history only: the working tree and the document may have become     *)
(* anything since they were read.  A lock keeps what the command checked   *)
(* before it: its document was accepted and declares what it binds.        *)
(***************************************************************************)
EXTENDS CampaignLock, SequenceTheorems, TLAPS

-----------------------------------------------------------------------------
(* The invariant.                                                          *)

Trees == [Files -> Contents \cup {Absent}]

\* A set of pairs of a path and the bytes under it.
IsEntries(entries) == \A e \in entries : e = [path |-> e.path, sha256 |-> e.sha256]

CommitsExist(c, h) == {c.benchmark_commit, c.verifier_commit} \subseteq DOMAIN h

\* A document that may be locked: valid, and of commits and a release of h.
Accepted(c, h) ==
    /\ IsDocument(c) /\ ValidateCampaign(c, TRUE) = {}
    /\ CommitsExist(c, h)
    /\ h[c.benchmark_commit]["version"] # Absent
    /\ h[c.benchmark_commit]["version"] = c.release

BindingsSound(bindings, groups) ==
    /\ bindings = [g \in groups |-> bindings[g]]
    /\ \A g \in groups : IsEntries(bindings[g]) /\ bindings[g] # {}

\* In history h the commits of the lock exist and contain what it binds; it
\* is the lock of its own campaign, which declares what it binds.
LockSound(lock, h) ==
    /\ Accepted(lock.campaign, h) /\ lock.campaign.lock = Absent
    /\ BindingsSound(lock.bindings, Groups)
    /\ lock = AssembleLock(lock.campaign, lock.bindings)
    /\ DeclaredDigestIssues(lock.campaign, lock.bindings) = {}
    /\ \A g \in Groups : lock.bindings[g] = BindingEntries(h[CommitFor(g, lock.campaign)], g)

\* The groups a command has read, at the point it has reached.
ReadAt(at) ==
    IF at = "verifier" THEN {"cases"}
    ELSE IF at = "prompt" THEN {"cases", "protected_verifier"} ELSE Groups

\* What a command holds, where the history is h.
HoldsSound(me, h) ==
    /\ me.at \in {"list", "cases", "verifier", "prompt", "check"} =>
         Accepted(me.doc, h)
    /\ me.at = "cases" => me.listed # {}
    /\ me.at \in {"verifier", "prompt", "check"} =>
         /\ me = [at |-> me.at, doc |-> me.doc, out |-> me.out, bindings |-> me.bindings]
         /\ BindingsSound(me.bindings, ReadAt(me.at))
    /\ me.at = "publish" => LockSound(me.lock, h)

\* What an author writes of the lock in the file named o.
ReferenceTo(o, lock) ==
    [file |-> o, path |-> "campaign_locks", status |-> "frozen", lock_digest |-> lock,
     repository_commit |-> lock.repository_commit, verifier_commit |-> lock.verifier_commit]

\* A reference stays true, since a lock file is never replaced.
DocumentSound ==
    /\ IsDocument(campaign)
    /\ campaign.lock # Absent =>
         \E o \in Outputs : locks[o] # Absent /\ campaign.lock = ReferenceTo(o, locks[o])

HistorySound == work \in Trees /\ history \in Seq(Trees)

LockInv ==
    /\ DocumentSound /\ HistorySound
    /\ locks = [o \in Outputs |-> locks[o]]
    /\ proc = [p \in Procs |-> proc[p]]
    /\ \A o \in Outputs : locks[o] # Absent => LockSound(locks[o], history)
    /\ \A p \in Procs : HoldsSound(proc[p], history)

-----------------------------------------------------------------------------
(* Facts about documents, entries and histories.                           *)

\* Two documents that differ in the reference to a lock at most.
SameContent(c, d) == \A field \in DocumentFields \ {"lock"} : c[field] = d[field]

\* What the content of a lock keeps of a document.
LEMMA LockContentIs ==
    ASSUME NEW c, IsDocument(c)
    PROVE  LET d == CampaignLockContent(c)
           IN  /\ IsDocument(d) /\ d.lock = Absent /\ SameContent(c, d)
               /\ d.benchmark_commit = c.benchmark_commit
               /\ d.verifier_commit = c.verifier_commit
               /\ d.release = c.release
               /\ CampaignLockContent(d) = d
<1> DEFINE d == [c EXCEPT !.lock = Absent]
<1>1. DocumentFields \subseteq DOMAIN c
  BY DEF IsDocument
<1>2. DOMAIN d = DOMAIN c /\ d = [field \in DOMAIN d |-> d[field]] /\ d["lock"] = Absent
      /\ \A field \in DOMAIN c \ {"lock"} : d[field] = c[field]
  BY <1>1 DEF DocumentFields
<1>3. [d EXCEPT !.lock = Absent] = d
  <2> HIDE DEF d
  <2> QED BY <1>2
<1>4. {"benchmark_commit", "verifier_commit", "release"} \subseteq DOMAIN c
  BY <1>1 DEF DocumentFields
<1> QED BY <1>1, <1>2, <1>3, <1>4 DEF IsDocument, CampaignLockContent, SameContent

\* Validation before the lock is made, and validation for use, say the same of
\* two documents that differ in the reference only; for use a draft may still
\* keep placeholders, and the reference must be right.
LEMMA SameContentSameIssues ==
    ASSUME NEW c, NEW d, SameContent(c, d), ValidateCampaign(c, TRUE) = {}, NEW build \in BOOLEAN,
           LockReferenceIssues(d.lock, d, d.classification = "official" /\ ~build) = {}
    PROVE  ValidateCampaign(d, build) = {}
<1>1. /\ c.shape = d.shape /\ c.schema = d.schema /\ c.id = d.id /\ c.status = d.status
      /\ c.classification = d.classification /\ c.alias = d.alias
      /\ c.alias_declared = d.alias_declared /\ c.model = d.model
  BY DEF SameContent, DocumentFields
<1>2. /\ c.system_prompt = d.system_prompt /\ c.frozen_cases = d.frozen_cases
      /\ c.runs = d.runs /\ c.invalid_output = d.invalid_output /\ c.retry = d.retry
      /\ c.exclusion = d.exclusion /\ c.halts = d.halts /\ c.holdout = d.holdout
      /\ c.inputs = d.inputs /\ c.ratification = d.ratification /\ c.plan = d.plan
      /\ c.texts = d.texts
  BY DEF SameContent, DocumentFields
<1>3. /\ ShapeIssues(d.shape) = {} /\ SchemaIssues(d.schema) = {}
      /\ When(d.status \notin CampaignStatuses \/ d.classification \notin RunClassifications
                      \/ d.alias \notin AliasStatuses, "INVALID_FIELD_VALUE") = {}
      /\ When(d.alias = "mutable_alias" /\ ~d.alias_declared, "MUTABLE_ALIAS_UNDECLARED") = {}
      /\ When(d.runs < 1, "INVALID_FIELD_VALUE") = {}
      /\ InvalidOutputIssues(d.invalid_output) = {} /\ RetryIssues(d.retry) = {}
      /\ ExclusionIssues(d.exclusion) = {} /\ RatificationIssues(d.ratification) = {}
      /\ HoldoutIssues(d.holdout) = {} /\ InputIssues(d.inputs) = {}
      /\ SecretIssues(d.texts) = {}
  <2>1. /\ ShapeIssues(c.shape) = {} /\ SchemaIssues(c.schema) = {}
        /\ When(c.status \notin CampaignStatuses \/ c.classification \notin RunClassifications
                        \/ c.alias \notin AliasStatuses, "INVALID_FIELD_VALUE") = {}
        /\ When(c.alias = "mutable_alias" /\ ~c.alias_declared, "MUTABLE_ALIAS_UNDECLARED") = {}
        /\ When(c.runs < 1, "INVALID_FIELD_VALUE") = {}
    BY DEF ValidateCampaign
  <2>2. /\ InvalidOutputIssues(c.invalid_output) = {} /\ RetryIssues(c.retry) = {}
        /\ ExclusionIssues(c.exclusion) = {} /\ RatificationIssues(c.ratification) = {}
        /\ HoldoutIssues(c.holdout) = {} /\ InputIssues(c.inputs) = {}
        /\ SecretIssues(c.texts) = {}
    BY DEF ValidateCampaign
  <2>3. /\ ShapeIssues(d.shape) = {} /\ SchemaIssues(d.schema) = {}
        /\ When(d.status \notin CampaignStatuses \/ d.classification \notin RunClassifications
                        \/ d.alias \notin AliasStatuses, "INVALID_FIELD_VALUE") = {}
        /\ When(d.alias = "mutable_alias" /\ ~d.alias_declared, "MUTABLE_ALIAS_UNDECLARED") = {}
        /\ When(d.runs < 1, "INVALID_FIELD_VALUE") = {}
    BY <1>1, <1>2, <2>1
  <2> QED BY <1>2, <2>2, <2>3
<1>4. PlanIssues(d.plan, d) = {} /\ SurfaceIssues(d) = {}
  <2>1. PlanIssues(c.plan, c) = {} /\ SurfaceIssues(c) = {}
    BY DEF ValidateCampaign
  <2>2. PlanIssues(d.plan, d) = PlanIssues(c.plan, c)
    BY <1>1, <1>2 DEF PlanIssues
  <2> QED BY <1>2, <2>1, <2>2 DEF SurfaceIssues
<1>5. OfficialIssues(d) = {} /\ CampaignClaimIssues(d) = {}
  <2>1. OfficialIssues(c) = {} /\ CampaignClaimIssues(c) = {}
    BY DEF ValidateCampaign
  <2> QED BY <1>1, <1>2, <2>1 DEF OfficialIssues, CampaignClaimIssues
<1>6. /\ ReferenceIssues(d.system_prompt, Placeholders(d, build)) = {}
      /\ When(d.frozen_cases = Placeholder /\ ~Placeholders(d, build), "INVALID_DIGEST") = {}
  <2>1. /\ ReferenceIssues(c.system_prompt, FALSE) = {}
        /\ When(c.frozen_cases = Placeholder /\ ~FALSE, "INVALID_DIGEST") = {}
    <3>1. Placeholders(c, TRUE) = FALSE
      BY DEF Placeholders
    <3> QED BY <3>1 DEF ValidateCampaign
  <2> QED BY <1>2, <2>1 DEF ReferenceIssues, When
<1> QED BY <1>3, <1>4, <1>5, <1>6 DEF ValidateCampaign

LEMMA ContentAccepted ==
    ASSUME NEW c, NEW h, Accepted(c, h) PROVE Accepted(CampaignLockContent(c), h)
<1> DEFINE d == CampaignLockContent(c)
<1>1. /\ IsDocument(d) /\ d.lock = Absent /\ SameContent(c, d)
      /\ d.benchmark_commit = c.benchmark_commit /\ d.verifier_commit = c.verifier_commit
      /\ d.release = c.release
  BY LockContentIs DEF Accepted
<1> HIDE DEF d
<1>2. LockReferenceIssues(d.lock, d, d.classification = "official" /\ ~TRUE) = {}
  BY <1>1 DEF LockReferenceIssues, When
<1>3. ValidateCampaign(d, TRUE) = {}
  BY <1>1, <1>2, SameContentSameIssues DEF Accepted
<1> QED BY <1>1, <1>3 DEF Accepted, CommitsExist, d

LEMMA BindingEntriesAreEntries ==
    ASSUME NEW tree, NEW files PROVE IsEntries(Entries(tree, files))
  BY DEF IsEntries, Entries

LEMMA PathsOfEntries ==
    ASSUME NEW tree, NEW files
    PROVE  /\ \A e \in Entries(tree, files) : tree[e.path] = e.sha256
           /\ Paths(Entries(tree, files)) = files
<1>1. \A f \in files : /\ [path |-> f, sha256 |-> tree[f]] \in Entries(tree, files)
                       /\ [path |-> f, sha256 |-> tree[f]].path = f
  BY DEF Entries
<1>2. \A e \in Entries(tree, files) : e.path \in files /\ tree[e.path] = e.sha256
  BY DEF Entries
<1>3. Paths(Entries(tree, files)) \subseteq files
  BY <1>2 DEF Paths
<1>4. files \subseteq Paths(Entries(tree, files))
  <2>1. ASSUME NEW f \in files PROVE f \in Paths(Entries(tree, files))
    <3>1. PICK e \in Entries(tree, files) : e.path = f
      BY <1>1
    <3> QED BY <3>1 DEF Paths
  <2> QED BY <2>1
<1> QED BY <1>2, <1>3, <1>4

\* Entries with the paths of a listing and the bytes of a tree are its entries.
LEMMA EntriesOfTree ==
    ASSUME NEW entries, IsEntries(entries), NEW tree, NEW files,
           \A e \in entries : tree[e.path] = e.sha256, Paths(entries) = files
    PROVE  entries = Entries(tree, files)
<1>1. ASSUME NEW e \in entries PROVE e \in Entries(tree, files)
  BY <1>1 DEF IsEntries, Entries, Paths
<1>2. ASSUME NEW x \in Entries(tree, files) PROVE x \in entries
  <2>1. PICK f \in files : x = [path |-> f, sha256 |-> tree[f]]
    BY DEF Entries
  <2>2. PICK e \in entries : e.path = f
    BY DEF Paths
  <2>3. x = e
    BY <2>1, <2>2 DEF IsEntries
  <2> QED BY <2>3
<1> QED BY <1>1, <1>2

\* What the check of the bindings shows of every group.
LEMMA CheckedBindings ==
    ASSUME NEW c, NEW bindings, BindingCommitIssues(c, bindings) = {},
           NEW g \in Groups, IsEntries(bindings[g])
    PROVE  bindings[g] = BindingEntries(history[CommitFor(g, c)], g)
<1>1. \A e \in bindings[g] : history[CommitFor(g, c)][e.path] = e.sha256
  BY DEF BindingCommitIssues, When
<1>2. Paths(bindings[g]) = Listing(history[CommitFor(g, c)], g)
  BY DEF BindingCommitIssues, When
<1> QED BY <1>1, <1>2, EntriesOfTree DEF BindingEntries

\* What is true of an older history is true of a longer one.
LEMMA LongerHistory ==
    ASSUME NEW h, NEW h2, DOMAIN h \subseteq DOMAIN h2, \A i \in DOMAIN h : h2[i] = h[i]
    PROVE  /\ \A lock : LockSound(lock, h) => LockSound(lock, h2)
           /\ \A me : HoldsSound(me, h) => HoldsSound(me, h2)
<1>0. ASSUME NEW c, Accepted(c, h) PROVE Accepted(c, h2)
  BY <1>0 DEF Accepted, CommitsExist
<1>1. ASSUME NEW lock, LockSound(lock, h) PROVE LockSound(lock, h2)
  BY <1>0, <1>1 DEF LockSound, Accepted, CommitsExist, CommitFor
<1>2. ASSUME NEW me, HoldsSound(me, h) PROVE HoldsSound(me, h2)
  <2>1. me.at = "publish" => LockSound(me.lock, h2)
    BY <1>1, <1>2 DEF HoldsSound
  <2> QED BY <1>0, <1>2, <2>1 DEF HoldsSound
<1> QED BY <1>1, <1>2

LEMMA IdleSound == \A h : HoldsSound(Idle, h)
  BY DEF HoldsSound, Idle

\* A step of a command that leaves everything outside it alone.
LEMMA OnlyState ==
    ASSUME LockInv, NEW p \in Procs, NEW state, Goto(p, state), UNCHANGED World,
           HoldsSound(state, history)
    PROVE  LockInv'
<1>1. UNCHANGED <<work, history, campaign, locks>>
  BY DEF World
<1>2. proc' = [q \in Procs |-> proc'[q]] /\ \A q \in Procs : proc'[q] = IF q = p THEN state ELSE proc[q]
  BY DEF LockInv, Goto
<1>3. \A q \in Procs : HoldsSound(proc'[q], history)
  BY <1>2 DEF LockInv
<1>4. DocumentSound' /\ HistorySound'
  BY <1>1 DEF LockInv, DocumentSound, HistorySound
<1> QED BY <1>1, <1>2, <1>3, <1>4 DEF LockInv

-----------------------------------------------------------------------------
(* One lemma per step of a command.                                        *)

\* The commits of the document were resolved before anything is read.
LEMMA LockCommandSound ==
    ASSUME LockInv, NEW p \in Procs, NEW o \in Outputs, LockCommand(p, o)
    PROVE  LockInv'
<1> DEFINE state == [at |-> "list", doc |-> campaign, out |-> o]
<1>1. Accepted(campaign, history)
  <2>1. CommitsExist(campaign, history)
    BY DEF LockCommand, ContextIssues, CommitsExist
  <2>2. /\ history[campaign.benchmark_commit]["version"] # Absent
        /\ history[campaign.benchmark_commit]["version"] = campaign.release
    BY <2>1 DEF LockCommand, ContextIssues, CommitsExist, When
  <2> QED BY <2>1, <2>2 DEF Accepted, LockCommand, LockInv, DocumentSound
<1>2. HoldsSound(state, history)
  BY <1>1 DEF HoldsSound
<1> QED BY <1>2, OnlyState DEF LockCommand

LEMMA ListCasesSound ==
    ASSUME LockInv, NEW p \in Procs, ListCases(p)
    PROVE  LockInv'
<1> DEFINE me == proc[p]
           state == [at |-> "cases", doc |-> me.doc, out |-> me.out, listed |-> Listing(work, "cases")]
<1>1. Accepted(me.doc, history)
  BY DEF ListCases, LockInv, HoldsSound
<1>2. Goto(p, Idle) \/ (Goto(p, state) /\ state.listed # {})
  BY DEF ListCases
<1>3. state.listed # {} => HoldsSound(state, history)
  BY <1>1 DEF HoldsSound
<1> QED BY <1>2, <1>3, IdleSound, OnlyState DEF ListCases

\* The bytes are entries, of whatever is in the tree by then.
LEMMA HashCasesSound ==
    ASSUME LockInv, NEW p \in Procs, HashCases(p)
    PROVE  LockInv'
<1> DEFINE me == proc[p]
           bindings == [cases |-> Entries(work, me.listed)]
           state == [at |-> "verifier", doc |-> me.doc, out |-> me.out, bindings |-> bindings]
<1>1. Accepted(me.doc, history)
  BY DEF HashCases, LockInv, HoldsSound
<1>2. BindingsSound(bindings, {"cases"})
  <2>1. me.listed # {}
    BY DEF HashCases, LockInv, HoldsSound
  <2>2. Entries(work, me.listed) # {}
    BY <2>1 DEF Entries
  <2> QED BY <2>2, BindingEntriesAreEntries DEF BindingsSound
<1>3. HoldsSound(state, history)
  BY <1>1, <1>2 DEF HoldsSound, ReadAt
<1>4. Goto(p, Idle) \/ Goto(p, state)
  BY DEF HashCases
<1> QED BY <1>3, <1>4, IdleSound, OnlyState DEF HashCases

\* One more group.
LEMMA HashFileSound ==
    ASSUME LockInv, NEW p \in Procs, UNCHANGED World, NEW group, NEW next,
           HashFile(p, group, next),
           \/ proc[p].at = "verifier" /\ group = "protected_verifier" /\ next = "prompt"
           \/ proc[p].at = "prompt" /\ group = "system_prompt" /\ next = "check"
    PROVE  LockInv'
<1> DEFINE me == proc[p]
           groups == ReadAt(me.at)
           bindings == [g \in groups \cup {group} |->
                          IF g = group THEN BindingEntries(work, group) ELSE me.bindings[g]]
           state == [at |-> next, doc |-> me.doc, out |-> me.out, bindings |-> bindings]
<1>1. /\ Accepted(me.doc, history)
      /\ me = [at |-> me.at, doc |-> me.doc, out |-> me.out, bindings |-> me.bindings]
      /\ BindingsSound(me.bindings, groups)
  BY DEF LockInv, HoldsSound
<1>2. IsEntries(BindingEntries(work, group))
  BY BindingEntriesAreEntries DEF BindingEntries
<1>3. groups \cup {group} = ReadAt(next)
  BY DEF ReadAt, Groups
<1>4. ASSUME Listing(work, group) # {} PROVE HoldsSound(state, history)
  <2>1. BindingEntries(work, group) # {}
    BY <1>4 DEF BindingEntries, Entries
  <2>2. BindingsSound(bindings, groups \cup {group})
    BY <1>1, <1>2, <2>1 DEF BindingsSound
  <2> QED BY <1>1, <1>3, <2>2 DEF HoldsSound
<1>5. DOMAIN me.bindings = groups
  BY <1>1 DEF BindingsSound
<1>6. Goto(p, Idle) \/ (Listing(work, group) # {} /\ Goto(p, state))
  BY <1>5 DEF HashFile
<1> QED BY <1>4, <1>6, IdleSound, OnlyState

\* The check compares with the commits; they will contain it ever after.
LEMMA CheckBindingsSound ==
    ASSUME LockInv, NEW p \in Procs, CheckBindings(p)
    PROVE  LockInv'
<1> DEFINE me == proc[p]
           lock == AssembleLock(me.doc, me.bindings)
           state == [at |-> "publish", out |-> me.out, lock |-> lock]
<1>1. Accepted(me.doc, history) /\ BindingsSound(me.bindings, Groups)
  BY DEF CheckBindings, LockInv, HoldsSound, ReadAt
<1>2. CASE /\ BindingCommitIssues(me.doc, me.bindings) = {}
           /\ DeclaredDigestIssues(me.doc, me.bindings) = {}
           /\ Goto(p, state)
  <2> DEFINE content == CampaignLockContent(me.doc)
  <2>1. \A g \in Groups : me.bindings[g] = BindingEntries(history[CommitFor(g, me.doc)], g)
    BY <1>1, <1>2, CheckedBindings DEF BindingsSound
  <2>2. /\ content.lock = Absent /\ SameContent(me.doc, content)
        /\ content.benchmark_commit = me.doc.benchmark_commit
        /\ content.verifier_commit = me.doc.verifier_commit
        /\ content.release = me.doc.release /\ CampaignLockContent(content) = content
    BY <1>1, LockContentIs DEF Accepted
  <2>3. Accepted(content, history)
    BY <1>1, ContentAccepted
  <2>4. lock.bindings = me.bindings /\ lock.campaign = content
    BY DEF AssembleLock
  <2>5. lock = AssembleLock(content, me.bindings)
    BY <2>2 DEF AssembleLock
  <2>6. DeclaredDigestIssues(content, me.bindings) = {}
    <3>1. content.frozen_cases = me.doc.frozen_cases /\ content.system_prompt = me.doc.system_prompt
      BY <2>2 DEF SameContent, DocumentFields
    <3> QED BY <1>2, <3>1 DEF DeclaredDigestIssues
  <2>7. \A g \in Groups : CommitFor(g, content) = CommitFor(g, me.doc)
    BY <2>2 DEF CommitFor
  <2> HIDE DEF content, lock
  <2>8. LockSound(lock, history)
    BY <1>1, <2>1, <2>2, <2>3, <2>4, <2>5, <2>6, <2>7 DEF LockSound
  <2>9. HoldsSound(state, history)
    BY <2>8 DEF HoldsSound
  <2> QED BY <1>2, <2>9, OnlyState DEF CheckBindings, lock
<1>3. CASE Goto(p, Idle)
  BY <1>3, IdleSound, OnlyState DEF CheckBindings
<1> QED BY <1>2, <1>3 DEF CheckBindings

LEMMA WriteLockSound ==
    ASSUME LockInv, NEW p \in Procs, WriteLockAtomic(p)
    PROVE  LockInv'
<1> DEFINE me == proc[p]
<1>1. UNCHANGED <<work, history, campaign>> /\ LockSound(me.lock, history)
  BY DEF WriteLockAtomic, LockInv, HoldsSound
<1>2. /\ locks' = [o \in Outputs |-> locks'[o]]
      /\ \A o \in Outputs : locks'[o] = locks[o] \/ locks'[o] = me.lock
  BY DEF WriteLockAtomic, LockInv
<1>3. \A o \in Outputs : locks'[o] # Absent => LockSound(locks'[o], history)
  BY <1>1, <1>2 DEF LockInv
<1>4. proc' = [q \in Procs |-> proc'[q]] /\ \A q \in Procs : proc'[q] = IF q = p THEN Idle ELSE proc[q]
  BY DEF LockInv, WriteLockAtomic, Goto
<1>5. \A q \in Procs : HoldsSound(proc'[q], history)
  BY <1>4, IdleSound DEF LockInv
<1>6. DocumentSound' /\ HistorySound'
  <2>1. \A o \in Outputs : locks[o] # Absent => locks'[o] = locks[o]
    BY DEF WriteLockAtomic, LockInv
  <2> QED BY <1>1, <2>1 DEF LockInv, DocumentSound, HistorySound
<1> QED BY <1>1, <1>2, <1>3, <1>4, <1>5, <1>6 DEF LockInv

-----------------------------------------------------------------------------
(* The people around.                                                      *)

\* A step that leaves locks and commands alone, and only adds commits.
LEMMA OnlyWorld ==
    ASSUME LockInv, UNCHANGED <<locks, proc>>, DocumentSound', HistorySound',
           DOMAIN history \subseteq DOMAIN history', \A i \in DOMAIN history : history'[i] = history[i]
    PROVE  LockInv'
<1>1. \A lock : LockSound(lock, history) => LockSound(lock, history')
  BY LongerHistory
<1>2. \A me : HoldsSound(me, history) => HoldsSound(me, history')
  BY LongerHistory
<1> QED BY <1>1, <1>2 DEF LockInv

LEMMA EditSound ==
    ASSUME LockInv, NEW f \in Files, NEW content \in Contents \cup {Absent}, Edit(f, content)
    PROVE  LockInv'
<1>1. HistorySound'
  BY DEF Edit, LockInv, HistorySound, Trees
<1>2. DocumentSound'
  BY DEF Edit, LockInv, DocumentSound
<1> QED BY <1>1, <1>2, OnlyWorld DEF Edit

LEMMA CommitSound ==
    ASSUME LockInv, Commit
    PROVE  LockInv'
<1>1. history \in Seq(Trees) /\ work \in Trees /\ history' = Append(history, work)
  BY DEF LockInv, HistorySound, Commit
<1>2. /\ history' \in Seq(Trees) /\ Len(history') = Len(history) + 1
      /\ \A i \in 1 .. Len(history) : history'[i] = history[i]
  BY <1>1, AppendProperties
<1>3. DOMAIN history = 1 .. Len(history) /\ DOMAIN history' = 1 .. Len(history') /\ Len(history) \in Nat
  BY <1>1, <1>2, LenProperties
<1>4. DOMAIN history \subseteq DOMAIN history'
  BY <1>2, <1>3
<1>5. HistorySound'
  BY <1>1, <1>2 DEF HistorySound, Commit
<1>6. DocumentSound'
  BY DEF Commit, LockInv, DocumentSound
<1> QED BY <1>2, <1>3, <1>4, <1>5, <1>6, OnlyWorld DEF Commit

LEMMA ReviseSound ==
    ASSUME LockInv, NEW t \in Templates, NEW b, NEW v, Revise(t, b, v)
    PROVE  LockInv'
<1>1. IsDocument(t) /\ t.lock = Absent
  BY LockAssumption
<1>2. DOMAIN campaign' = DOMAIN t /\ campaign' = [field \in DOMAIN campaign' |-> campaign'[field]]
  BY DEF Revise
<1>3. campaign'.lock = Absent
  BY <1>1 DEF Revise, IsDocument, DocumentFields
<1>4. DocumentSound'
  BY <1>1, <1>2, <1>3 DEF DocumentSound, IsDocument
<1>5. HistorySound'
  BY DEF Revise, LockInv, HistorySound
<1> QED BY <1>4, <1>5, OnlyWorld DEF Revise

LEMMA ReferToLockSound ==
    ASSUME LockInv, NEW o \in Outputs, ReferToLock(o)
    PROVE  LockInv'
<1>1. IsDocument(campaign)
  BY DEF LockInv, DocumentSound
<1>2. DOMAIN campaign' = DOMAIN campaign /\ campaign' = [field \in DOMAIN campaign' |-> campaign'[field]]
  BY <1>1 DEF ReferToLock, IsDocument
<1>3. campaign'.lock = ReferenceTo(o, locks[o]) /\ locks'[o] = locks[o] /\ locks[o] # Absent
  BY <1>1 DEF ReferToLock, IsDocument, DocumentFields, ReferenceTo
<1>4. DocumentSound'
  BY <1>1, <1>2, <1>3 DEF DocumentSound, IsDocument
<1>5. HistorySound'
  BY DEF ReferToLock, LockInv, HistorySound
<1> QED BY <1>4, <1>5, OnlyWorld DEF ReferToLock

-----------------------------------------------------------------------------
(* The theorems.                                                           *)

(* LockInv holds throughout, whatever is edited, committed or revised      *)
(* between the readings of a command (locking.py).                         *)
THEOREM LockInvariant == Spec => []LockInv
<1>1. Init => LockInv
  <2> SUFFICES ASSUME Init PROVE LockInv
    OBVIOUS
  <2>1. work \in Trees
    BY LockAssumption DEF Init, Trees
  <2>2. history \in Seq(Trees)
    BY <2>1 DEF Init
  <2>3. DocumentSound
    BY LockAssumption DEF Init, DocumentSound
  <2> QED BY <2>1, <2>2, <2>3, IdleSound DEF Init, LockInv, HistorySound
<1>2. LockInv /\ [Next]_vars => LockInv'
  <2> SUFFICES ASSUME LockInv, [Next]_vars
               PROVE  LockInv'
    OBVIOUS
  <2>1. CASE UNCHANGED vars
    BY <2>1 DEF vars, LockInv, DocumentSound, HistorySound
  <2>2. ASSUME NEW p \in Procs, Step(p)
        PROVE  LockInv'
    <3>1. CASE HashVerifier(p) \/ HashPrompt(p)
      BY <3>1, HashFileSound DEF HashVerifier, HashPrompt
    <3> QED BY <2>2, <3>1, LockCommandSound, ListCasesSound, HashCasesSound, CheckBindingsSound,
               WriteLockSound DEF Step
  <2>3. ASSUME NEW p \in Procs, Kill(p)
        PROVE  LockInv'
    BY <2>3, IdleSound, OnlyState DEF Kill
  <2> QED BY <2>1, <2>2, <2>3, EditSound, CommitSound, ReviseSound, ReferToLockSound DEF Next
<1> QED BY <1>1, <1>2, PTL DEF Spec

(* What a published lock binds is what its commits contain (locking.py,    *)
(* the comparison with Git after the files were read).                     *)
THEOREM LockAlwaysBindsCommits == Spec => []LockBindsCommits
<1>1. LockInv => LockBindsCommits
  BY DEF LockInv, LockSound, LockBindsCommits, LockFiles
<1> QED BY <1>1, LockInvariant, PTL

\* What a verification that finds nothing has compared.
LEMMA VerifiedLock ==
    ASSUME NEW lock, VerifyBenchmarkLock(campaign, lock, work) = {}
    PROVE  /\ lock = AssembleLock(campaign, [g \in Groups |-> BindingEntries(work, g)])
           /\ BindingCommitIssues(campaign, [g \in Groups |-> BindingEntries(work, g)]) = {}
           /\ campaign.lock # Absent => campaign.lock.lock_digest = lock
<1> DEFINE bindings == [g \in Groups |-> BindingEntries(work, g)]
           final == DeclaredDigestIssues(campaign, bindings)
                      \cup When(lock # AssembleLock(campaign, bindings), "LOCK_CURRENT_STATE_MISMATCH")
                      \cup When(campaign.lock # Absent /\ campaign.lock.lock_digest # lock,
                                "CAMPAIGN_LOCK_REFERENCE_MISMATCH")
<1>1. BindingCommitIssues(campaign, bindings) = {} /\ final = {}
  BY DEF VerifyBenchmarkLock
<1>2. /\ When(lock # AssembleLock(campaign, bindings), "LOCK_CURRENT_STATE_MISMATCH") = {}
      /\ When(campaign.lock # Absent /\ campaign.lock.lock_digest # lock,
              "CAMPAIGN_LOCK_REFERENCE_MISMATCH") = {}
  BY <1>1
<1> QED BY <1>1, <1>2 DEF When

(* A verification that finds nothing means that the locked document and    *)
(* the committed files are the current ones (locking.py, verify).          *)
THEOREM DriftAlwaysSeen == Spec => []DriftIsSeen
<1>1. DriftIsSeen
  <2> DEFINE bindings == [g \in Groups |-> BindingEntries(work, g)]
  <2> SUFFICES ASSUME NEW lock, VerifyBenchmarkLock(campaign, lock, work) = {}
               PROVE  lock.campaign = [campaign EXCEPT !.lock = Absent] /\ AtCommits(campaign)
    BY DEF DriftIsSeen
  <2>1. lock = AssembleLock(campaign, bindings) /\ BindingCommitIssues(campaign, bindings) = {}
    BY VerifiedLock
  <2>2. lock.campaign = [campaign EXCEPT !.lock = Absent]
    BY <2>1 DEF AssembleLock, CampaignLockContent
  <2>3. \A g \in Groups : IsEntries(bindings[g])
    BY BindingEntriesAreEntries DEF BindingEntries
  <2>4. \A g \in Groups : bindings[g] = BindingEntries(history[CommitFor(g, campaign)], g)
    BY <2>1, <2>3, CheckedBindings
  <2> QED BY <2>2, <2>4 DEF AtCommits
<1> QED BY <1>1, PTL

(* The validate command accepts an official campaign only while a lock     *)
(* file binds it to the tree (campaign_cli.py, validate).                  *)
THEOREM OfficialAlwaysFrozen == Spec => []OfficialIsFrozen
<1>1. LockInv => OfficialIsFrozen
  <2> SUFFICES ASSUME LockInv, ValidateCommand = {}, campaign.classification = "official"
               PROVE  \E lock \in LockFiles :
                         /\ lock = campaign.lock.lock_digest
                         /\ \A g \in Groups : lock.bindings[g] = BindingEntries(work, g)
    BY DEF OfficialIsFrozen
  <2> DEFINE lock == locks[campaign.lock.file]
  <2>1. /\ ValidateCampaign(campaign, FALSE) = {} /\ lock # Absent
        /\ VerifyBenchmarkLock(campaign, lock, work) = {}
    BY DEF ValidateCommand
  <2>2. LockReferenceIssues(campaign.lock, campaign, campaign.classification = "official" /\ ~FALSE) = {}
    BY <2>1 DEF ValidateCampaign
  <2>3. campaign.lock # Absent
    BY <2>2 DEF LockReferenceIssues, When
  <2>4. campaign.lock.file \in Outputs
    <3>1. PICK o \in Outputs : campaign.lock = ReferenceTo(o, locks[o])
      BY <2>3 DEF LockInv, DocumentSound
    <3>2. ReferenceTo(o, locks[o]).file = o
      BY DEF ReferenceTo
    <3> QED BY <3>1, <3>2
  <2>5. lock \in LockFiles
    BY <2>1, <2>4 DEF LockFiles
  <2>6. /\ lock = campaign.lock.lock_digest
        /\ lock = AssembleLock(campaign, [g \in Groups |-> BindingEntries(work, g)])
    BY <2>1, <2>3, VerifiedLock
  <2>7. \A g \in Groups : lock.bindings[g] = BindingEntries(work, g)
    BY <2>6 DEF AssembleLock
  <2> QED BY <2>5, <2>6, <2>7
<1> QED BY <1>1, LockInvariant, PTL
(* A lock can be reproduced.  The document of a lock was accepted before   *)
(* its files were read and its commits are never rewritten, so whatever    *)
(* happened since, the locked document over the committed files verifies,  *)
(* also once it names its lock (locking.py, verify).                       *)
THEOREM LockAlwaysReproduces == Spec => []LockReproduces
<1>1. LockInv => LockReproduces
  <2> SUFFICES ASSUME LockInv, NEW o \in Outputs, locks[o] # Absent,
                      [campaign EXCEPT !.lock = Absent] = [locks[o].campaign EXCEPT !.lock = Absent],
                      IF campaign.lock = Absent THEN campaign.classification # "official"
                                                ELSE campaign.lock.file = o,
                      AtCommits(campaign)
               PROVE  VerifyBenchmarkLock(campaign, locks[o], work) = {}
    BY DEF LockReproduces
  <2> DEFINE lock == locks[o]
             locked == lock.campaign
             bindings == [g \in Groups |-> BindingEntries(work, g)]
  <2>1. LockSound(lock, history) /\ IsDocument(campaign)
    BY DEF LockInv, DocumentSound
  <2>2. Accepted(locked, history) /\ locked.lock = Absent /\ IsDocument(locked)
    BY <2>1 DEF LockSound, Accepted
  <2>3. CampaignLockContent(campaign) = locked
    <3>1. [locked EXCEPT !.lock = Absent] = locked
      BY <2>2 DEF IsDocument
    <3> QED BY <3>1 DEF CampaignLockContent
  <2>4. /\ SameContent(campaign, locked)
        /\ campaign.benchmark_commit = locked.benchmark_commit
        /\ campaign.verifier_commit = locked.verifier_commit
        /\ campaign.release = locked.release
    BY <2>1, <2>3, LockContentIs
  <2> HIDE DEF locked
  <2>5. campaign.lock # Absent => campaign.lock = ReferenceTo(o, lock)
    <3> SUFFICES ASSUME campaign.lock # Absent PROVE campaign.lock = ReferenceTo(o, lock)
      OBVIOUS
    <3>1. PICK other \in Outputs : campaign.lock = ReferenceTo(other, locks[other])
      BY DEF LockInv, DocumentSound
    <3>2. ReferenceTo(other, locks[other]).file = other
      BY DEF ReferenceTo
    <3> QED BY <3>1, <3>2
  <2>6. lock = AssembleLock(locked, lock.bindings)
    BY <2>1 DEF LockSound, locked
  <2>7. /\ lock.repository_commit = locked.benchmark_commit
        /\ lock.verifier_commit = locked.verifier_commit
    BY <2>6 DEF AssembleLock
  <2>8. ValidateCampaign(campaign, FALSE) = {}
    <3>1. LockReferenceIssues(campaign.lock, campaign,
                              campaign.classification = "official" /\ ~FALSE) = {}
      <4>1. CASE campaign.lock = Absent
        BY <4>1 DEF LockReferenceIssues, When
      <4>2. CASE campaign.lock # Absent
        <5>1. /\ campaign.lock.path = "campaign_locks" /\ campaign.lock.status = "frozen"
              /\ campaign.lock.repository_commit = campaign.benchmark_commit
              /\ campaign.lock.verifier_commit = campaign.verifier_commit
          BY <2>4, <2>5, <2>7, <4>2 DEF ReferenceTo
        <5> QED BY <4>2, <5>1 DEF LockReferenceIssues, When
      <4> QED BY <4>1, <4>2
    <3>2. SameContent(locked, campaign)
      BY <2>4 DEF SameContent
    <3> QED BY <2>2, <3>1, <3>2, SameContentSameIssues DEF Accepted
  <2>9. ContextIssues(campaign) = {}
    BY <2>2, <2>4 DEF Accepted, CommitsExist, ContextIssues, When
  <2>10. bindings = lock.bindings /\ \A g \in Groups : bindings[g] # {}
    <3>1. \A g \in Groups : CommitFor(g, locked) = CommitFor(g, campaign)
      BY <2>4 DEF CommitFor
    <3>2. \A g \in Groups : lock.bindings[g] = BindingEntries(work, g)
      BY <2>1, <3>1 DEF AtCommits, LockSound, locked
    <3>3. lock.bindings = [g \in Groups |-> lock.bindings[g]]
          /\ \A g \in Groups : lock.bindings[g] # {}
      BY <2>1 DEF LockSound, BindingsSound
    <3> HIDE DEF lock
    <3> QED BY <3>2, <3>3
  <2>11. BindingCommitIssues(campaign, bindings) = {}
    <3>1. \A g \in Groups : bindings[g] = BindingEntries(history[CommitFor(g, campaign)], g)
      BY DEF AtCommits
    <3>2. \A tree, g : /\ \A e \in BindingEntries(tree, g) : tree[e.path] = e.sha256
                       /\ Paths(BindingEntries(tree, g)) = Listing(tree, g)
      BY PathsOfEntries DEF BindingEntries
    <3> HIDE DEF bindings
    <3> QED BY <3>1, <3>2 DEF BindingCommitIssues, When
  <2>12. DeclaredDigestIssues(campaign, bindings) = {}
    <3>1. campaign.frozen_cases = locked.frozen_cases /\ campaign.system_prompt = locked.system_prompt
      BY <2>4 DEF SameContent, DocumentFields
    <3>2. DeclaredDigestIssues(locked, lock.bindings) = {}
      BY <2>1 DEF LockSound, locked
    <3> HIDE DEF bindings, lock
    <3> QED BY <2>10, <3>1, <3>2 DEF DeclaredDigestIssues
  <2>13. lock = AssembleLock(campaign, bindings)
    <3>1. CampaignLockContent(locked) = locked
      BY <2>2 DEF CampaignLockContent, IsDocument
    <3> HIDE DEF bindings, lock
    <3> QED BY <2>3, <2>4, <2>6, <2>10, <3>1 DEF AssembleLock
  <2>14. campaign.lock # Absent => campaign.lock.lock_digest = lock
    BY <2>5 DEF ReferenceTo
  <2> HIDE DEF bindings, lock
  <2>15. VerifyBenchmarkLock(campaign, lock, work) =
           DeclaredDigestIssues(campaign, bindings)
             \cup When(lock # AssembleLock(campaign, bindings), "LOCK_CURRENT_STATE_MISMATCH")
             \cup When(campaign.lock # Absent /\ campaign.lock.lock_digest # lock,
                       "CAMPAIGN_LOCK_REFERENCE_MISMATCH")
    BY <2>8, <2>9, <2>10, <2>11 DEF VerifyBenchmarkLock, bindings
  <2> QED BY <2>12, <2>13, <2>14, <2>15 DEF When, lock
<1> QED BY <1>1, LockInvariant, PTL
=============================================================================
