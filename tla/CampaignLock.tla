------------------------------ MODULE CampaignLock ------------------------------
(***************************************************************************)
(* The benchmark lock of a campaign (sfa_bench/campaigns/locking.py) and   *)
(* the commands that make and check it (campaign_cli.py).                  *)
(*                                                                         *)
(* A lock binds the campaign document and the bytes of every file the      *)
(* benchmark reads to two Git commits.  Making one reads the document, then*)
(* the files group by group, then Git, then publishes; the document, the   *)
(* files and the history can change between any two of these readings.     *)
(***************************************************************************)
EXTENDS CampaignProtocol

CONSTANTS
    CaseFiles,      \* the files a case directory can hold
    Contents,       \* what a file can contain
    FirstContent,   \* what all of them contain at the first commit
    Templates,      \* the documents an author starts from
    Procs,          \* processes that can make a lock
    Outputs,        \* names of lock files
    MaxEdits,       \* bound on edits of the working tree
    MaxCommits,     \* bound on commits
    MaxRevisions    \* bound on revisions of the document

\* A document is a record with at least the fields that are read here.
DocumentFields ==
    {"shape", "schema", "id", "status", "classification", "alias", "alias_declared", "model",
     "release", "benchmark_commit", "verifier_commit", "system_prompt", "frozen_cases", "runs",
     "invalid_output", "retry", "exclusion", "halts", "holdout", "inputs", "ratification",
     "plan", "lock", "texts"}

IsDocument(c) ==
    /\ c = [field \in DOMAIN c |-> c[field]]
    /\ DocumentFields \subseteq DOMAIN c

ASSUME LockAssumption ==
    /\ CaseFiles # {} /\ IsFiniteSet(CaseFiles)
    /\ CaseFiles \cap {"verifier", "prompt", "version"} = {}
    /\ Absent \notin Contents /\ FirstContent \in Contents
    /\ {MaxEdits, MaxCommits, MaxRevisions} \subseteq Nat
    /\ \A c \in Templates : IsDocument(c) /\ c.lock = Absent

VARIABLES
    work,       \* the working tree
    history,    \* the commits, oldest first
    campaign,   \* the campaign document as it is on disk
    locks,      \* locks[o]: the lock file named o, or Absent
    proc,       \* what each process does, with what it has read so far
    edits, revisions

vars == <<work, history, campaign, locks, proc, edits, revisions>>

Files == CaseFiles \cup {"verifier", "prompt", "version"}
Groups == {"cases", "protected_verifier", "system_prompt"}
Members(group) ==
    CASE group = "cases" -> CaseFiles
      [] group = "protected_verifier" -> {"verifier"}
      [] group = "system_prompt" -> {"prompt"}

Idle == [at |-> "idle"]

-----------------------------------------------------------------------------
(* What a tree or a commit says of a group. *)

Listing(tree, group) == {f \in Members(group) : tree[f] # Absent}
Entries(tree, files) == {[path |-> f, sha256 |-> tree[f]] : f \in files}
BindingEntries(tree, group) == Entries(tree, Listing(tree, group))
Paths(entries) == {e.path : e \in entries}

CommitFor(group, c) == IF group = "protected_verifier" THEN c.verifier_commit ELSE c.benchmark_commit

\* The commits the campaign names exist, and carry the release it names.
ContextIssues(c) ==
    IF {c.benchmark_commit, c.verifier_commit} \subseteq DOMAIN history
      THEN When(history[c.benchmark_commit]["version"] = Absent, "RELEASE_SOURCE_UNAVAILABLE")
             \cup When(history[c.benchmark_commit]["version"] # c.release, "RELEASE_IDENTIFIER_MISMATCH")
      ELSE {"REPOSITORY_COMMIT_UNRESOLVED"}

\* Mutant of BindingCommitIssues: only the bytes of what was found are compared.
BindingBytesIssues(c, bindings) ==
    When(\E g \in Groups : \E e \in bindings[g] :
            history[CommitFor(g, c)][e.path] # e.sha256, "LOCK_INPUT_NOT_AT_COMMIT")

\* Every byte read is the commit's, and a directory has the commit's files.
BindingCommitIssues(c, bindings) ==
    When(\E g \in Groups : \E e \in bindings[g] :
            history[CommitFor(g, c)][e.path] # e.sha256, "LOCK_INPUT_NOT_AT_COMMIT")
        \cup When(\E g \in Groups : Paths(bindings[g]) # Listing(history[CommitFor(g, c)], g),
                  "LOCK_DIRECTORY_MEMBERSHIP_MISMATCH")

\* The digest of a set of files is the set; of one file, its bytes.
ReferenceDigest(entries) == (CHOOSE e \in entries : TRUE).sha256

DeclaredDigestIssues(c, bindings) ==
    When(c.frozen_cases # bindings["cases"], "DECLARED_CASE_SET_DIGEST_MISMATCH")
        \cup When(c.system_prompt.sha256 # ReferenceDigest(bindings["system_prompt"]),
                  "DECLARED_SYSTEM_PROMPT_DIGEST_MISMATCH")

\* Mutant of CampaignLockContent: the reference to the lock is not left out.
WholeCampaign(c) == c

\* Everything of the campaign but the reference to its own lock.
CampaignLockContent(c) == [c EXCEPT !.lock = Absent]

\* The lock; its digest is its content, which leaves out the envelope.
AssembleLock(c, bindings) ==
    [campaign |-> CampaignLockContent(c), repository_commit |-> c.benchmark_commit,
     verifier_commit |-> c.verifier_commit, release |-> c.release, bindings |-> bindings]

-----------------------------------------------------------------------------
(* Reading back. *)

\* Mutant of VerifyBenchmarkLock: the lock is compared with the files only.
VerifyBindings(c, lock, tree) ==
    LET bindings == [g \in Groups |-> BindingEntries(tree, g)]
    IN  When(lock.bindings # bindings, "BINDING_MISMATCH")

\* The issues of a lock read against the campaign and the current files.
VerifyBenchmarkLock(c, lock, tree) ==
    LET bindings == [g \in Groups |-> BindingEntries(tree, g)]
    IN  IF ValidateCampaign(c, FALSE) # {} THEN ValidateCampaign(c, FALSE)
        ELSE IF ContextIssues(c) # {} THEN ContextIssues(c)
        ELSE IF \E g \in Groups : bindings[g] = {} THEN {"LOCK_INPUT_MISSING"}
        ELSE IF BindingCommitIssues(c, bindings) # {} THEN BindingCommitIssues(c, bindings)
        ELSE DeclaredDigestIssues(c, bindings)
               \cup When(lock # AssembleLock(c, bindings), "LOCK_CURRENT_STATE_MISMATCH")
               \cup When(c.lock # Absent /\ c.lock.lock_digest # lock, "CAMPAIGN_LOCK_REFERENCE_MISMATCH")

\* Mutant of ValidateCommand: the lock an official campaign names is not opened.
ValidateDocumentOnly == ValidateCampaign(campaign, FALSE)

\* campaign_cli.py validate: an official campaign's lock is verified as well.
ValidateCommand ==
    LET issues == ValidateCampaign(campaign, FALSE)
    IN  IF issues # {} \/ campaign.classification # "official" THEN issues
        ELSE IF locks[campaign.lock.file] = Absent THEN {"INPUT_NOT_FOUND"}
        ELSE VerifyBenchmarkLock(campaign, locks[campaign.lock.file], work)

-----------------------------------------------------------------------------
Init ==
    /\ work = [f \in Files |-> FirstContent]
    /\ history = <<work>>
    /\ campaign \in Templates
    /\ locks = [o \in Outputs |-> Absent]
    /\ proc = [p \in Procs |-> Idle]
    /\ edits = 0 /\ revisions = 0

(* The people around it: someone edits a file or commits the tree; the     *)
(* author revises the document, declaring what is in the tree now.         *)

Edit(f, content) ==
    /\ edits < MaxEdits
    /\ work[f] # content
    /\ work' = [work EXCEPT ![f] = content]
    /\ edits' = edits + 1
    /\ UNCHANGED <<history, campaign, locks, proc, revisions>>

Commit ==
    /\ Len(history) < MaxCommits
    /\ work # history[Len(history)]
    /\ history' = Append(history, work)
    /\ UNCHANGED <<work, campaign, locks, proc, edits, revisions>>

Revise(template, benchmark, verifier) ==
    /\ revisions < MaxRevisions
    /\ Absent \notin {work["prompt"], work["version"]} /\ Listing(work, "cases") # {}
    /\ campaign' = [template EXCEPT
                      !.benchmark_commit = benchmark, !.verifier_commit = verifier,
                      !.release = work["version"],
                      !.frozen_cases = IF @ = Placeholder THEN @ ELSE BindingEntries(work, "cases"),
                      !.system_prompt.sha256 = IF @ = Placeholder THEN @ ELSE work["prompt"]]
    /\ revisions' = revisions + 1
    /\ UNCHANGED <<work, history, locks, proc, edits>>

\* The author writes the reference to a lock into the document.
ReferToLock(o) ==
    /\ locks[o] # Absent
    /\ campaign' = [campaign EXCEPT !.lock =
                      [file |-> o, path |-> "campaign_locks", status |-> "frozen", lock_digest |-> locks[o],
                       repository_commit |-> locks[o].repository_commit,
                       verifier_commit |-> locks[o].verifier_commit]]
    /\ campaign' # campaign
    /\ UNCHANGED <<work, history, locks, proc, edits, revisions>>

-----------------------------------------------------------------------------
(* campaign_cli.py lock, one process. *)

Goto(p, state) == proc' = [proc EXCEPT ![p] = state]
World == <<work, history, campaign, locks, edits, revisions>>

LockCommand(p, o) ==
    /\ proc[p] = Idle
    /\ ValidateCampaign(campaign, TRUE) = {}
    /\ ContextIssues(campaign) = {}
    /\ Goto(p, [at |-> "list", doc |-> campaign, out |-> o])
    /\ UNCHANGED World

\* The names in the case directory are read first, their bytes after that.
ListCases(p) ==
    /\ proc[p].at = "list"
    /\ Goto(p, IF Listing(work, "cases") = {} THEN Idle
               ELSE [at |-> "cases", doc |-> proc[p].doc, out |-> proc[p].out,
                     listed |-> Listing(work, "cases")])
    /\ UNCHANGED World

HashCases(p) ==
    /\ proc[p].at = "cases"
    /\ Goto(p, IF \E f \in proc[p].listed : work[f] = Absent THEN Idle
               ELSE [at |-> "verifier", doc |-> proc[p].doc, out |-> proc[p].out,
                     bindings |-> [cases |-> Entries(work, proc[p].listed)]])
    /\ UNCHANGED World

\* One bound file after the other.
HashFile(p, group, next) ==
    Goto(p, IF Listing(work, group) = {} THEN Idle
            ELSE [at |-> next, doc |-> proc[p].doc, out |-> proc[p].out,
                  bindings |-> [g \in DOMAIN proc[p].bindings \cup {group} |->
                                  IF g = group THEN BindingEntries(work, group) ELSE proc[p].bindings[g]]])

HashVerifier(p) ==
    /\ proc[p].at = "verifier"
    /\ HashFile(p, "protected_verifier", "prompt")
    /\ UNCHANGED World

HashPrompt(p) ==
    /\ proc[p].at = "prompt"
    /\ HashFile(p, "system_prompt", "check")
    /\ UNCHANGED World

CheckBindings(p) ==
    /\ proc[p].at = "check"
    /\ Goto(p, IF \/ BindingCommitIssues(proc[p].doc, proc[p].bindings) # {}
                  \/ DeclaredDigestIssues(proc[p].doc, proc[p].bindings) # {}
                  \/ locks[proc[p].out] # Absent
               THEN Idle
               ELSE [at |-> "publish", out |-> proc[p].out,
                     lock |-> AssembleLock(proc[p].doc, proc[p].bindings)])
    /\ UNCHANGED World

\* The file, complete, is linked to its name unless the name is taken.
WriteLockAtomic(p) ==
    /\ proc[p].at = "publish"
    /\ locks' = [locks EXCEPT ![proc[p].out] = IF @ = Absent THEN proc[p].lock ELSE @]
    /\ Goto(p, Idle)
    /\ UNCHANGED <<work, history, campaign, edits, revisions>>

\* A process killed before the link leaves a temporary file nobody reads.
Kill(p) ==
    /\ proc[p] # Idle
    /\ Goto(p, Idle)
    /\ UNCHANGED World

Step(p) ==
    \/ \E o \in Outputs : LockCommand(p, o)
    \/ ListCases(p) \/ HashCases(p) \/ HashVerifier(p) \/ HashPrompt(p)
    \/ CheckBindings(p) \/ WriteLockAtomic(p)

Next ==
    \/ \E p \in Procs : Step(p) \/ Kill(p)
    \/ \E f \in Files, content \in Contents \cup {Absent} : Edit(f, content)
    \/ Commit
    \/ \E t \in Templates, b, v \in DOMAIN history : Revise(t, b, v)
    \/ \E o \in Outputs : ReferToLock(o)

Spec == Init /\ [][Next]_vars

-----------------------------------------------------------------------------
LockFiles == {locks[o] : o \in {o2 \in Outputs : locks[o2] # Absent}}

TypeOK ==
    /\ work \in [Files -> Contents \cup {Absent}]
    /\ \A i \in DOMAIN history : history[i] \in [Files -> Contents \cup {Absent}]
    /\ \A lock \in LockFiles :
          /\ DOMAIN lock.bindings = Groups
          /\ {lock.repository_commit, lock.verifier_commit} \subseteq DOMAIN history
          /\ lock.campaign.lock = Absent
          /\ lock.campaign.frozen_cases # Placeholder
    /\ \A p \in Procs :
          proc[p].at \in {"idle", "list", "cases", "verifier", "prompt", "check", "publish"}

(* Whatever changed between the readings, what a published lock binds is   *)
(* what its commits contain: the case directory to the file, and the       *)
(* protected verifier from its own commit.                                 *)
LockBindsCommits ==
    \A lock \in LockFiles : \A g \in Groups :
        lock.bindings[g] = BindingEntries(history[CommitFor(g, lock.campaign)], g)

AtCommits(c) == \A g \in Groups : BindingEntries(work, g) = BindingEntries(history[CommitFor(g, c)], g)

(* A lock can be reproduced: while the files are as committed and the      *)
(* document is the locked one, with or without the reference to the lock   *)
(* that was added later, verification finds nothing.  Otherwise an         *)
(* official campaign could not be used at all.                             *)
LockReproduces ==
    \A o \in Outputs :
        /\ locks[o] # Absent
        /\ [campaign EXCEPT !.lock = Absent] = [locks[o].campaign EXCEPT !.lock = Absent]
        /\ IF campaign.lock = Absent THEN campaign.classification # "official"
                                     ELSE campaign.lock.file = o
        /\ AtCommits(campaign)
        => VerifyBenchmarkLock(campaign, locks[o], work) = {}

(* A verification that finds nothing means that the document is the one    *)
(* that was locked and that every file is the committed one.               *)
DriftIsSeen ==
    \A lock \in LockFiles :
        VerifyBenchmarkLock(campaign, lock, work) = {}
            => /\ lock.campaign = [campaign EXCEPT !.lock = Absent]
               /\ AtCommits(campaign)

(* The validate command accepts an official campaign only while a lock     *)
(* file binds it to what is in the tree.                                   *)
OfficialIsFrozen ==
    ValidateCommand = {} /\ campaign.classification = "official"
        => \E lock \in LockFiles :
              /\ lock = campaign.lock.lock_digest
              /\ \A g \in Groups : lock.bindings[g] = BindingEntries(work, g)

=============================================================================
