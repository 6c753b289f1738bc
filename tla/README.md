# Verification of SFA-Bench

SFA-Bench is a Python repository that keeps evidence about AI failures: it
authorises a request to a model, captures the answer, seals and judges it, and
sends it to human review, and it keeps sealed ledgers about all of that. There
is no server and no shared memory. What is hard in it is the file system: several
command-line programs read a directory, decide, and make a series of exclusive
durable writes; they can be killed between any two of them, they can be started
in any order and at the same time, and nothing locks anything.

This directory holds the TLA+ specification of the parts that carry this logic,
the TLC runs that check it on small instances, and TLAPS proofs for every
instance. Modelled are the capture of a run, the guarded execution of a study,
the AutoLab loop, campaign documents with their locks, the ratification and
closure of a cohort, the failure memory with its writers, and, as functions, the
verifier and the scoring of the frontier suite.

Paths below are relative to the repository root; `capture/` stands for
`sfa_bench/campaigns/capture/`, and the guide is
`docs/research/sfa-bench-v2-alpha2-recovery-guide.md`.

## 1. Inventory

| Part | State it keeps | Operations | What makes it hard | Here |
|---|---|---|---|---|
| capture ledger (`capture/lifecycle.py`, `canonical.py`) | `ledger/events/NNNNNNNN.json`, one immutable chained file per event | `append_transition`, `append_occurrence`, `verify_ledger` | two readings per append, no lock, temporary files in the directory readers list | `CaptureLifecycle`, `RunLifecycle` |
| capture run directory (`capture/run.py`, `storage.py`) | attempts, recovery records, raw blobs, manifest | `initialize_run`, `capture_attempt`, `recover_run`, `seal_run`, `verify_run` | kills between writes, retries, an external transport, stale readings | `CaptureRun`, `CaptureOperator`; its initialisation in `SlotExecution` |
| judgment, review (`capture/judgment.py`, `review.py`) | `judgment.json`, `review-bundle.json` | `judge_run`, `build_review_bundle` | artifact first, event later; two readings of one ledger | `CaptureRun` |
| adapters (`capture/adapters.py`) | none | `execute` | answers late, partly, never, or badly | constant `Answers` of `CaptureRun`, `TransportResults` of `SlotExecution` |
| AutoLab controller (`autolab/controller.py`) | the meta-ledger, one hash-chained JSONL file | `append_meta_event`, `reserve_holdout_budget`, `run_iteration` | check then append on a shared file, torn lines, spending before the work | `AutoLab` |
| AutoLab circuit breakers (`autolab/circuit_breakers.py`) | none of its own: derived from the meta-ledger | `evaluate_breakers`, `append_halt`, `append_restart_clearance` | counts over a history that holds everything else too | `AutoLab`, `HaltAndHold` |
| AutoLab runner, lineage, ratification, preregistration (`autolab/`) | none of their own | `run_autolab_iteration`, inscription, rollback | early returns, exceptions that leave an iteration half recorded, repair by hand | `AutoLab` (not the arithmetic of `evaluate_gate`) |
| AutoLab frozen zone (`autolab/frozen_zone.py`) | the manifest | attest, seal, amendment gate | amendments change the zone they are checked against | attest and seal in `AutoLab` |
| run initialisation, authorisation, context (`capture/storage.py`, `authorization.py`, `context.py`) | the immutable documents of a run | `initialize_run`, validation | staging and rename by several processes, files from several packs | `SlotExecution` |
| R2 slots (`openai_gpt56_r2.py`, `openai_live_pilot.py`, `sfa_bench/campaigns/r2_state.py`, `r2_plan.py`) | plan, block authorisations, packs; progress is derived from run directories | `initialize`, `authorize-block`, `execute-next` | two executors may pick one slot, kills, edits of the bound files | `SlotExecution`, `StudyPlans`, `FixedStudy` |
| live pilots, replication (`openai_live_pilot.py`, `replication_*.py`) | as R2 | as R2 | as R2 | the pilot's steps in `SlotExecution`, the replication plan in `StudyPlans` |
| campaign protocol, locking (`sfa_bench/campaigns/protocol.py`, `locking.py`) | campaign documents, lock files | validate, build a lock, verify it | files, commits and document change between the readings of one command | `CampaignProtocol`, `CampaignLock` |
| campaign ratification, cohort closure (`ratification.py`, `cohort_closure.py`) | sealed packets, lineage records, closures | prepare, dispose, close | what was decided must be what the run's ledger bound; members are loaded one by one | `CampaignReview` |
| SFA ledger, history, agent, policy, families (`sfa/ledger.py`, `history.py`, `agent.py`, `policy.py`, `families.py`, `run_benchmark.py`) | run directories, sealed artifacts, `occurrences.jsonl` | verify, seal, append, retry under a policy | several writers read and append without a lock; the policy reads what others wrote | `Verifier`, `FailureMemory`, `AgentLoop` |
| SFA deferred consequence (`sfa/deferred_consequence.py`, `property_contract.py`) | none | two judges of one case | two definitions of the same thing | `Verifier`, `Decisions` |
| frontier delta suite (`sfa_bench/frontier_delta/`) | sealed evidence files | read an answer, score it, build and verify a successor | free text in, credit out; evidence, tree, Git and the loaded code disagree | `FrontierScoring`, `CandidateEvidence`, `Decisions` |
| other top-level scripts, command lines | little of their own | | | what they decide is in the modules above |
| SFA adapters and transcripts, tamper and invariant suites, reports, GroundLedger (`product/groundledger/`), external and adversarial harnesses | | | | not modelled, section 7 |

How they interact: a command line opens a run directory and calls one function of
`capture/`; all the functions of `capture/` share the directory, and only through
`lifecycle.py` do they agree on an order. The R2 and pilot scripts start the same
functions in processes of their own and read nothing but directories. A campaign
lock is made before any run and copied into each of them; ratification and closure
read finished runs. AutoLab has a ledger of its own, and so has the failure memory,
which agent runs and benchmark runs share. So the run directory with its ledger is
the core, and it is modelled first.

What makes each part correct, in one line each:

* ledger: it verifies whatever writers interleave, keeps what it acknowledged,
  and tells one story of the run (`LedgerVerifies`, `AckedStays`, `OneOutcome`,
  `ImplementsLifecycle`, `LockFree`);
* capture and recovery: no request is sent that is not preserved, budgeted and,
  after the first, asked for by an operator (`DispatchDiscipline`,
  `NoUndeclaredResend`); "captured" means what it says (`CapturedEvidence`); a
  stopped recovery can be taken up (`RecoveryReconcilable`);
* seal, judgment, review: each event binds the bytes of its artifact and the
  ledger before it (`SealsBind`), nothing is rewritten (`EvidenceAppendOnly`),
  what is sealed stays verifiable (`SealedVerifiable`), what rests captured or
  aborted can be sealed (`EvidenceSealable`), and a run can be brought to review
  (`ReachesReview`);
* AutoLab: no builder works under a halt, and only its clearance ends it
  (`ImplementsHold`); the holdout budget is never overdrawn, and once it is spent the
  loop is over (`BudgetHeld`); the current target can always be derived and comes
  from ratifications used once (`LineageSound`), each for a builder that left the
  frozen zone alone (`RatifiedZone`);
* slots: the scan of the run directories never comes to refuse them
  (`StudyStaysReadable`), one request per slot at most, in an authorised block
  (`OneRequestPerSlot`), of documents that belong together (`RunBindsSlot`); the study
  is consumed in its order (`ImplementsStudy`) and gets on (`StudyAdvances`);
* campaigns: a lock binds what the named commits contain (`LockBindsCommits`), can be
  reproduced (`LockReproduces`), notices drift (`DriftIsSeen`), and an official campaign is
  accepted only under one (`OfficialIsFrozen`); a document accepted for locking can be
  used (`LockableIsUsable`); an accepted preregistration is a balanced design
  (`PlansAreBalanced`);
* review of cohorts: a disposition is about the judgment the ledger bound
  (`PacketBindsLedger`), a closure counts ratified verdicts only
  (`ClosureAcceptsRatified`) that can be compared (`ClosureComparable`);
* failure memory: every failure on record has artifact and occurrence
  (`FailuresRemembered`), overlapping writers show in the chain (`ChainFindsForks`),
  retries follow the policy (`RetryByPolicy`), reports agree (`HistoryAgrees`);
* judges and scores: the two judges of a case agree (`JudgesAgree`), only what an
  answer says earns credit (`OnlyAnswersScore`), and a successor of sealed evidence
  is what committed code gives (`SuccessorRederives`).

## 2. Modules

| Module | Role |
|---|---|
| `RunLifecycle` | abstract specification: one variable `state` and the transition table of `lifecycle.py` |
| `CaptureLifecycle` | the inside of an append, by any number of writers; refines `RunLifecycle` |
| `CaptureLifecycle_proofs` | the theorems about it |
| `CaptureRun` | one run directory and all the commands that work on it; an append is one step here; refines `RunLifecycle` |
| `CaptureOperator` | the same commands, started only as one careful operator would; liveness |
| `CaptureRun_proofs` | the theorems about `CaptureRun`, then about `CaptureOperator` |
| `HaltAndHold` | abstract specification: what the circuit breakers promise |
| `AutoLab` | one meta-ledger, the runner's iteration and the operator's commands; refines `HaltAndHold` |
| `AutoLabClaims` | a sentence of the documents that the loop does not keep |
| `AutoLab_proofs` | the theorems about `AutoLab` |
| `FixedStudy` | abstract specification of a study: authorise a block, consume the next slot, send its one request |
| `StudyPlans` | preregistrations of the R2 and replication studies, and the plans derived from them |
| `SlotExecution` | the commands that execute a study, down to the creation of a run directory; refines `FixedStudy` |
| `SlotExecution_proofs` | the theorems about it: its invariant, then the refinement |
| `CampaignProtocol` | what `protocol.py` finds wrong in a campaign document |
| `CampaignLock` | the files, commits, document and locks of a campaign, and the commands that make and verify a lock |
| `CampaignLock_proofs` | the theorems about it |
| `CampaignReview` | ratification of runs and closure of cohorts |
| `CampaignReview_proofs` | the theorems about it |
| `Verifier` | `sfa/verifier.py`, the failure families, the property contract and the cases both judge |
| `FailureMemory` | the chained ledger of failures, the history and metrics read from it, the policy |
| `AgentLoop` | agent runs and benchmark runs, the writers of that ledger |
| `AgentLoop_proofs` | the theorems about it |
| `FrontierScoring` | from the text of an answer to its score |
| `CandidateEvidence` | successors of sealed candidate evidence |
| `Decisions` | asks the pure modules (`CampaignProtocol`, `StudyPlans`, `Verifier`, `FrontierScoring`, `CandidateEvidence`) one question per behaviour |
| `Decisions_proofs` | all five answers, for every input |
| `MC*` | values TLC takes for the constants |

`CampaignLock` extends `CampaignProtocol`, `SlotExecution` extends `StudyPlans`, and
`AgentLoop` extends `Verifier` and `FailureMemory`: the decision a process takes in
these is the operator that `Decisions` checks by itself.

### CaptureLifecycle

| Model | Code |
|---|---|
| `ledger` | the files of `ledger/events`, in name order |
| `staged`, `debris` | `.capture-staging-*` files there, of live and of killed writers |
| `AppendTransition`, `AppendOccurrence` | the first `verify_ledger`, which decides the event type |
| `BuildEvent`, `RejectEvent` | `_append`: second `verify_ledger`, building, `_validate_event` |
| `StageFile`, `LinkFile`, `UnlinkFile` | `write_exclusive_bytes`: `mkstemp` and fsync, `os.link`, `unlink` |
| `Crash` | the process is killed anywhere in between |
| `Readable` | `verify_ledger` lists the directory and refuses a name that is no event's |

The digest of an event is its identity, because a published file never changes;
`ValidEvent` and `VerifyLedger` are the sequence, previous-digest, state and table
checks of `_validate_event` and `verify_ledger`. Timestamps and the execution
identifier, which no property tells apart, are left out.

### CaptureRun

| Model | Code |
|---|---|
| `attempts[n]` | `attempts/NNNNNN/`: is `request.json` there, what does `attempt.json` say |
| `recs` | `recovery/NNNNNN.json` |
| `blobs` | `private/raw/blobs`, apart from the authorised request |
| `manifest`, `judgment`, `bundle` | the three artifacts, or `None` |
| `loc[p]` | what a running command holds in its local variables and will still use |
| `sent` | history, for the properties: attempt numbers handed to `adapter.execute` |
| `Capture*` | `capture_attempt`, in the order of its writes, `_reconcile_stored_attempt` included |
| `Recover*` | `recover_run` and `_reconcile_recovery_record` with its check-then-append loop |
| `Seal*`, `Judge*`, `Bundle*` | `seal_run`, `judge_run`, `build_review_bundle` |
| `Kill` | the process dies, or its append loses the race that `CaptureLifecycle` describes |
| `AttemptsReadable`, `View`, `AttemptEventsBound`, `RecoveryBound`, `InventoryExact`, `VerifyCore`, `VerifyRun`, `ManifestValid`, `JudgmentValid`, `BundleValid` | the verification functions, check by check |

One action is one durable write or one round of reads. A command that reads and
then writes is two actions wherever another command could change what was read and
the difference matters. The state a command read at its start is kept only where it
decides something later (`CaptureStart`, `BundleStart`). A digest in a document is
modelled by the value it seals, and a ledger root by the length of the ledger,
which is exact because the ledger only grows. The governed documents of a run never
change and every command validates them, so they are constants.

### CaptureOperator

`OperatorStart` says when each command is started: never two at a time, and as the
guide says, plus four rules that the guide does not give; what happens without the
first three is shown in section 4:

1. an unfinished recovery is rerun, with its own arguments, before anything else;
2. a stored attempt is committed by `capture` before a recovery is declared;
3. an attempt without a record is aborted, not resumed;
4. no bytes are supplied to a recovery that will find bytes of its own: it would
   store them, refuse both as ambiguous, and so would every recovery after it.

`CaptureRun` keeps all its commands at all times; only the environment is narrower.

### AutoLab

| Model | Code |
|---|---|
| `ledger` | the lines of the meta-ledger; `ended` is the line's newline |
| `zone`, `manifest` | what the frozen files contain, and what the manifest says of them |
| `Clean` | `verify_meta_ledger` |
| `AppendEntry`, `WriteEntry`, `Written` | `append_meta_event`: verify, read and build, then write at the end of the file |
| `UnitsUsed`, `HoldoutExhausted`, `TrailingRejections`, `Withered`, `ActiveHalt`, `Target`, `Derivable` | the functions that derive these from the lines |
| `Tripped` | `evaluate_breakers` |
| `Preflight` | `run_autolab_iteration` up to the controller |
| `AttestPre` to `AttestPost` | `run_iteration`, one action per entry it appends, and `Build` for the callback |
| `Decide`, `Inscribe`, `Postflight` | the rest of `run_autolab_iteration` |
| `HaltByHand`, `Restart`, `Rollback`, `InscribeByHand` | `append_halt`, `append_restart_clearance`, `append_rollback`, `append_promotion_inscription`, called by an operator |
| `EditZone` | an edit of a frozen file, or `frozen_zone.seal` |
| `Kill` | the process dies; in the middle of a write it leaves nothing, a part of the line, or the line without its newline |

An action that ends in `AppendEntry` is followed by `WriteEntry` of the same command:
the checks before an append are one step, the bytes another. A line without its
newline verifies; the next line is then written onto it, and the file never verifies
again. A hash is the line's position, exact while `Clean`. The four kinds of
rejection are counted alike by everything that counts them, so they are one type.
A red gate, a missing or wrong human record and an exception from the evaluator are
choices of `Decide`; which of the checks failed changes no state. Cost and time are
what the caller says they are before the iteration, so they can stop it only at
preflight. Run identifiers are new each time, as their users make them.

### SlotExecution

| Model | Code |
|---|---|
| `plan`, `auth[b]` | `slot-plan.json`, `block-NNN.json` |
| `packs[s]` | `_prepared-<execution id>`: whether it is there and which files it has |
| `runs[s]` | the run directory: its four documents, and what the last attempt came to |
| `tree` | the bytes of the repository that a lock binds |
| `proc[p]` | the command a process is in, with the slot and documents it has read |
| `sent` | history, for the properties: requests that left the machine |
| `ScanSucceeds`, `NextPending`, `AttemptState` | `scan_slot_states`, its choice of a slot, and the state of one |
| `Initialize`, `BuildBlockAuthorization`, `WriteBlockAuthorization`, `ExecuteNext` | the harness's commands up to the first write |
| `ModelUnavailable`, `MakePack`, `WritePack` | the model check, the exclusive `mkdir` of the pack, its files |
| `PrepareStaging`, `PublishStagedRun` | `initialize_run` with its staging directory and its rename |
| `CreateAttempt`, `SendRequest`, `WriteAttempt` | the capture that follows |
| `CliInit`, `CliCapture` | the same functions, started by hand |
| `ValidateAuthorization`, `VerifyGovernedContext` | `authorization.py`, `context.py` |

Inside a run the attempt is no more than its state; `CaptureRun` is the detailed
account. An `ExecuteNext` reads plan, authorisation and scan at one point: what a
later change could invalidate (the slot, the pack, the bound bytes) is read again, as
in the code, by the steps that follow.

### CampaignProtocol and CampaignLock

Every `*Issues` operator is the set of findings of one validator of `protocol.py`.
A document is a record with a value per field that some condition reads; strings
are symbols that say what the condition asks of them (`"prefixed"`, `"absolute"`).
`CampaignLock` adds the world:

| Model | Code |
|---|---|
| `work`, `history` | the files of the case directory, the verifier, the prompt; and their commits |
| `campaign`, `locks` | the document as it is on disk; the lock files |
| `ListCases`, `HashCases`, `HashVerifier`, `HashPrompt` | the readings of `locking.py`, one after the other |
| `CheckBindings` | the comparison of what was read with the commits and the document |
| `WriteLockAtomic` | temporary file, linked to its name unless that is taken |
| `VerifyBenchmarkLock`, `ValidateCommand` | verification of a lock, and what the command line adds for official campaigns |
| `Edit`, `Commit`, `Revise`, `ReferToLock` | authors |

### CampaignReview

| Model | Code |
|---|---|
| `bundle[e]` | `review-bundle.json`: documents with the digests they hold, a digest being what it digests |
| `rat[id]`, `closed[id]` | the directories, and which of their two files are written |
| `spec` | the closure specification |
| `ValidateReviewBundle`, `VerifyPacket`, `VerifyLineage`, `VerifyClosure` | the validators |
| `ReadBundle`, `MakeDirectory`, `WritePacket`, `WriteLineage` | ratification, in the order of its effects |
| `ReadSpec`, `LoadMember`, `BuildClosure`, `WriteClosure` | closure; each member is read by itself |
| `ChangeBundle` | someone turns a verdict and recomputes some of the digests around it (`Reseal`) |

### FailureMemory and AgentLoop

| Model | Code |
|---|---|
| `runs[r]` | the directory of an agent run, with its attempts |
| `sealed[c]` | the artifact of a benchmark case |
| `ledger` | the lines of `occurrences.jsonl`; the digest of an entry is the entry |
| `today` | the period `history.py` takes from the date |
| `StartRun`, `Produce`, `WritePass`, `SealFailure`, `Decide`, `WriteSummary` | `SFAAgent.run`, in the order of its files |
| `StartBenchmark`, `SealOrConfirm` | `run_benchmark.py` |
| `ReadLedger`, `AppendEntry` | `append_occurrence`: the reading, and the line made from it |

Writing one file is one step here, torn files are not considered. Values of claims
are symbols of a kind; their words and order are kept as far as a rule asks for them.

### FrontierScoring, CandidateEvidence, Decisions

A text is a sequence of tokens (an object that parses, a list, a scalar, a bracket, a
quote, other characters), as far as `validate_candidate_output` can tell it apart;
an object is its walk, a sequence of fields in document order, each at the top or
nested, and the name of a field is the set of search terms it contains. Where the code writes
`a or b or c` the model has `Or`, the first value that Python takes for true (`Truthy`) and else the
last, whatever it is: an empty list that is found is passed over for a later search, and a
claim whose only subject is a `name` of `false` has the subject `false`. Where the code
asks `is not None` the model has `FirstOf`. Canonical
forms and checks follow the code lane by lane. `OnlyAnswersScore` reads the sealed canonical form of
an answer that passed once more, as its own fields: it must come back with the same score, and as it
was (`Settled`) except for such a subject, which the second reading drops because its
key is then the first of the three. No check reads subjects. `CandidateEvidence` takes raw rows, the
predecessor, the working tree, the commits and the code loaded into the process as
separate things, because the code compares them pairwise. A behaviour of
`Decisions` asks one question, so TLC visits every input once; the properties compare
the answer with a second definition of it, or with what another part of the code decides.

## 3. Runs

Twelve runs, one for each question. Times on two workers are of the order of seconds,
up to two and a half minutes for `AgentLoop_memory`.

| Run | Shows | Bounds, and why they are enough |
|---|---|---|
| `CaptureLifecycle_safety` | `LedgerVerifies`, `AckedStays`, `OneOutcome`, the refinement of `RunLifecycle`, and `LockFree` | two writers (a third meets the same closed name), up to seven events, i.e. three more than a new run has plus those in flight, so that a collision, the loser's retry, and an event on top fit; one kill |
| `CaptureRun_races` | what two commands at the same time cannot break | two commands, two attempts, two recoveries, one blob, an answer cut off or complete. A killed command is one that takes no more steps, so no kill is needed for safety. Symmetric in the commands: their names are used for nothing else. |
| `CaptureRun_single` | what one command at a time adds, killed anywhere | the three ways an attempt can end in the ledger; two kills, so that a recovery from a kill can be killed; two blobs, so that supplied bytes can differ from found ones; a provider identifier that can be used twice |
| `CaptureOperator_live` | `ReachesReview` and `EvidenceSealable` | every answer `adapters.py` lets through, two attempts, three recoveries (one kept in reserve for the abort), two kills |
| `AutoLab_loop` | the three properties of `AutoLab` and the refinement of `HaltAndHold` | one command at a time (see section 4); three iterations or operator commands in all, which is what a second rejection and a third proposal, a spent budget with its halt and restart, or a promotion, its rollback and a second inscription take; one kill; a budget of two units, taken one by one or at once; a rejection limit and a wither threshold of two. References are interchangeable. |
| `AutoLab_rejections` | the finding of section 4 | a rejection limit of two |
| `SlotExecution_study` | what overlapping commands of a study cannot break, and the refinement of `FixedStudy` | three slots in two blocks, one condition twice, so that a slot has a predecessor in its block and one in another, and an execution identifier a number above one; two processes; one kill and one edit, which cut off or invalidate a pack. Symmetric in processes and in contents. |
| `SlotExecution_live` | `StudyAdvances` | two blocks of one slot, two processes, one kill, one edit, without symmetry |
| `CampaignLock_races` | locks made while files, commits and document change | two case files, one of which may be missing; two contents; the first commit, the one of an edit and one more; one revision between three documents (pilot, official, with open digests); two processes on one lock file |
| `CampaignReview_races` | ratifications and a closure over bundles that change | two runs that may differ in lock and verdict, two ratifications, two dispositions (the guards of the other two are the same), a cohort of both or of one run twice; one changed bundle, resealed not at all, on the outside, or up to the judgment; three commands, i.e. two ratifications and the closure |
| `AgentLoop_memory` | agent runs and a benchmark run on one ledger | two processes, two agent runs of two attempts each and a benchmark run, i.e. up to five occurrences, where the policy asks for two; two periods; a correct candidate, two that fail in different families, and one on which the verifier raises; the case sealed before with this failure, another or none |
| `Decisions` | the pure decisions | 21,713 inputs: campaign documents up to two edits away from a valid pilot and a valid official one; preregistrations and plans with one change; candidates of up to three claims; texts of up to four tokens; answers in every lane with explicit, synonymous and misleading fields, among them null, false, zero and empty ones, so that an `or` of the canonicalizers is decided by its first operand, a later one or none; successors before and after one change of what they rest on |

`CHECK_DEADLOCK FALSE` stands where the system really stops: a run that is in
review, a ledger at its bound, a halted loop, a complete study, a question answered. The
type invariants are stated in the modules; those of `CaptureLifecycle`, `CaptureRun` and
`SlotExecution` are proved (section 5), and no run repeats them.

Fairness. `FairSpec` of `CaptureLifecycle` is weak fairness of each writer's next
step: an operating system keeps running a process that runs, and no step waits for
anybody. Nobody is obliged to start an append. `FairOperatorSpec` is weak fairness of
"the operator starts a command that the rules allow, or the running command takes a
step, or its transport answers": adapters have timeouts and return or raise, and the
operator does not walk away. `FairSpec` of `SlotExecution` is weak fairness of a
running command's next step, and strong fairness of what an operator comes back for
(the plan, the next block, the next slot) and of finding the model available: other
commands and the model's absence switch these on and off, which weak fairness would
let go on for ever. Kills and edits are bounded and never fair.

## 4. What the modelling found

One run ends in a counterexample, for a sentence of the documents:

* **Rejections that are not consecutive** (`AutoLab_rejections`).
  `trailing_rejection_count` goes back from the end of the ledger and stops at the
  first entry that is neither a rejection nor a halt. Every iteration that gets as
  far as being rejected has appended `zone_attested_pre` first (and usually four
  more), so the count after any number of rejected iterations is one. The breaker trips
  only with a limit of one; the tests feed it rejections one after the other. The run
  uses proposals without a lineage, which do not wither.

The rest are observations, made while modelling. None of them contradicts what the
passing runs state; where one limits a run, it says so.

Capture. The first six are behaviours of `CaptureLifecycle` and `CaptureRun`:

* *A killed writer closes the ledger.* `write_exclusive_bytes` creates its temporary
  file in `ledger/events`; a process killed between the creation and the unlink leaves
  it there, and `verify_ledger` refuses the directory from then on, although the guide
  (38-39) says to rerun the command, and (20) that the directory must not be edited.
  (`LockFree` therefore speaks of readable directories.)
* *An aborted run that cannot be sealed.* `attempt.json` is written, the process
  is killed before the response event, an operator recovers with `abort`: the attempt
  is complete by its record, and `_verify_attempt_events` demands the events it never got.
* *A resumption that cannot capture.* The process is killed before `attempt.json`; a
  recovery resumes; `capture_attempt` refuses an attempt without a record, and a
  second recovery cannot change that.
* *A recovery that cannot be finished.* A recovery is killed before its first event;
  `capture_attempt`, which does not look at recoveries, commits the stored attempt;
  `attempt_interrupted` is then illegal.
* *A bundle of an older ledger.* A bundle is started while a judgment is being committed;
  its ledger root is from before, its report from after, the review event is appended,
  and `verify_run` refuses the run.
* *A resumption nobody declared.* Two captures start on an authorised run. The first
  is interrupted; the second, which still takes the run for `execution_authorized`,
  asks for the transition to `capturing`, and the table calls it `capture_resumed`.
  A second request goes out and no recovery record exists. The budget still holds:
  `DispatchDiscipline` counts resumptions, and `NoUndeclaredResend`, which counts
  records, is checked for one command at a time only.
* Two captures committing one stored attempt duplicate its response event; a late
  answer adds bytes to a run that is sealed already; the recovery identity contains
  `--now`, but a rerun does not compare it.

`CaptureOperator` avoids those that need no second process (besides debris, which it
does not model), and shows that then nothing else goes wrong.

AutoLab. With two commands at the same time (`Procs = {p1, p2}`) `BudgetHeld`,
`LineageSound` and `ImplementsHold` all fail, because nothing is exclusive between the
reading of the meta-ledger and the appending. No document promises more, so
`AutoLab_loop` states what holds for one at a time.

Slots. A pack that was begun (`_prepared-...`, an exclusive `mkdir`) and never
became a run, after a kill, a refused initialisation or an edit of the bound files,
blocks its slot and so the study for ever. That is `Orphaned`, the one way
`StudyAdvances` lets a study stop.

Campaigns. A halted evidence workflow can still be ratified under another
identifier and closed (`docs/campaign-evidence-ratification.md:16`). A cohort may list one
execution twice under two ratifications, and its verdict is counted twice. A ratification or closure
that is killed leaves a directory that blocks its identifier.

Failure memory. Two writers that overlap give two entries one position, and the
chain never verifies again (`ChainFindsForks` says exactly that). The last entry can be
deleted unnoticed. The agent hands the policy neither earlier remediations nor the attempt number, so
that escalation never goes beyond level one in its loop; the directive that starts
a retry may be about another family than the failure at hand. An agent without a model identifier
shares its profile with the benchmark ("unknown"). A claim that is no object makes the
verifier raise, and the run keeps no verdict. Every benchmark run appends its failures
anew, so that one that was killed and is repeated counts the cases it had reached twice. `deferred_consequence_stale`
is not below the category that `validate_taxonomy_references` expects, which is why
`JudgesAgree` speaks of failures without a family of their own. An empty list of
claims passes the verifier and not the contract.

Frontier suite. The search for an acknowledged premise takes any boolean field whose
name contains "premise", `premise_still_valid: true` included; the search for used keys
matches `used_off_limits_keys`; the audit lane takes step identifiers for the trail.
`tasks/__init__.py` is not among the bound source paths. Files are compared with commits
byte by byte, so that a checkout with other line ends is refused.

## 5. Proofs

`CaptureLifecycle_proofs` proves, for any set of writers (no author may be called
`initializer`, which names who wrote the first four events) and any bounds:

* `TypeInvariant`, by itself inductive;
* `LedgerInvariant`: `LedgerInv` is inductive. It adds to the properties what makes
  them so. A writer that waits for its link holds an event built on an older
  reading (`PendingFits`): its sequence number is at most the length of the ledger,
  and *if it is equal* then nothing has been published since the reading, because the
  ledger only grows, so the event still fits the root and state of now. That is the
  whole argument for optimistic publication: the exclusive link tests exactly that
  equality. `LinkedInPlace` carries a published event until its caller learns of
  it (`AckedStays`). `Monotone`, that the rank of the states never falls along the
  ledger, together with the fact that entering rank 6 or more always raises it
  (`TransitionsAdvance`), gives `OneOutcome`;
* `LedgerAlwaysVerifies`, `AckedAlwaysStays`, `AlwaysOneOutcome` from it;
* `Refinement`: every behaviour, seen through the state of the last event, is one of
  `RunLifecycle`: an occurrence keeps the state, a transition takes a row of the
  table.

`SlotExecution_proofs` proves, for any plan, processes and trees:

* `StudyInvariant`: `StudyInv` is inductive. What a slot has reached (`Reached`: its
  run published, its attempt begun, its request sent) is never undone, whoever
  acts, so a command may rely on what it read a while ago; every document in a
  pack or a run comes from a plan and a tree that were there (`Supplied`); and the
  process that won the exclusive `mkdir` is alone on its attempt (`OneAttempts`),
  which is why there is one request although nothing locks;
* `StudyAlwaysReadable`, `AlwaysOneRequest`, `RunAlwaysBindsSlot` and the type invariant
  from it. Assumed of the constants: `None` is none of the values, and the block orders are
  non-empty lists of strings. What the plan made of them looks like, each block an
  interval of slots after the blocks before it, is `PlanInBlocks`. Flattening is an iteration over
  sets of indices, of which `FlattenSteps` gives one step; the rest is the least
  counterexample (`LeastNumber`), since the induction theorems of the library cannot be used.

The second half of `SlotExecution_proofs` adds `OrderInv`, that a block is authorised only when every
slot of the blocks before it is consumed. The consumed slots are then an initial
segment of the plan, its cardinality the number that `FixedStudy` counts, and the three
steps that matter are its `Grant`, `Consume` and `Request` (`StudyRefinement`).

`CampaignLock_proofs`: `LockInv` relates what a command holds in its hands to the
*history* of commits, never to the working tree or the document, both of which may change between
any two of its readings; a history only grows, so what was compared stays
true (`LockAlwaysBindsCommits`). `DriftAlwaysSeen` and `OfficialAlwaysFrozen`
need no invariant beyond it: what a verification compares is what they say. `LockAlwaysReproduces`
needs that a lock on disk was built from one document, whose other fields every
later comparison with the same document finds again, whether or not the document has since
been given its reference to the lock. Assumed: campaign documents are records that have the
fields the protocol names (`DocumentFields`), and refer to no lock at first.

`CampaignReview_proofs`: `ReviewInv` says nothing of the bundles on disk, which may change at
any time; a disposition and a closure are sound because the bundle is validated in
the same step that reads it, and everything written later is taken from that
reading (`PacketAlwaysBindsLedger`, `ClosureAlwaysAcceptsRatified`, `ClosureAlwaysComparable`).

`AgentLoop_proofs`: `MemoryInv` asks nothing of the links of the chain, which overlapping writers do
break, but of each line that it is about an artifact that exists; with one owner per run
directory this gives `FailuresAlwaysRemembered`.

`ChainInv` says of each line that it was made from *some prefix* of the ledger it was
appended to: its number is the length of that prefix, its link the last line of it.
A process between its reading and its append holds such a prefix. Where the chain fails to verify,
take the first line whose prefix is not the whole ledger before it (`LeastNumber`): the line that
stands at the end of that prefix was made for the same position, which is the fork that
`ForksAlwaysFound` speaks of; where it verifies, numbers and positions agree.
`RetryInv` says that a second attempt, or a process about to make one, has behind it a
family that recurs in the ledger; a ledger that only grows keeps that (`RecursGrows`), so that what a
process read a while ago stays a reason (`RetriesAreByPolicy`).

`HistoryAlwaysAgrees` is about numbers read off a ledger, whatever order its lines came in.
`DatedInv` adds that every line bears a period and a model that runs were given. Then what is
left is counting: a series that counts the lines of a family by period, a total that counts
them all, the profiles of the models and the length of the ledger all partition
one finite set, and a sum of counts over keys is the count of the positions that have one
(`SumOfCounts`, by a set of keys with the fewest elements for which it fails). The latest period and
the peak of a series are the largest of finitely many numbers (`LargestOf`).

Assumed: `Absent` is no candidate and no artifact, `"benchmark"` no identifier of a run, and
there are finitely many models.

`AutoLab_proofs`, for *one command at a time* (with two the properties are false, see section
4), any limits, references, contents and numbers of kills: `IInv` is about each line of the
meta-ledger and the lines before it only (`Follows`), so that it outlives both an
append and the loss of the last line to a write onto an unfinished one. What an iteration has read
it may rely on (`Relies`) only as long as the ledger verifies; when it does not, nothing is appended any more.
Each halt is recorded when all before it are cleared, so the one halt the code looks at
is the only one that can be in force, which is what makes `HoldRefinement` true.
`LineageAlwaysSound` needs that the target before a line is a function of
the lines before it (`LatestOf`, by well-foundedness of `<`), `ZoneAlwaysKept` that both
attestations and the builder between them are earlier lines of the same run. `BudgetAlwaysHeld` needs
that a receipt leaves what the receipts before it did not take. The units are counted as
the pairs of a receipt and a number, whose cardinality is a sum the prover can
follow; a fold over the receipts would take an induction over data.

`CaptureRun_proofs`, for any number of commands on one run directory, racing and killed
anywhere, any budget, policy, transport and operator. Nothing a command read at
its start can be taken to hold when it writes; `IInv` says what of it still does, in four parts:

* the ledger (`LedgerSound`): what an event in it leaves open for the state (`StatesAfter`), so that
  the last state alone says what is and is not in the ledger;
* attempts (`EvidenceSound`, `OwnerSound`): of an attempt without a record there is one
  command that works on it, and it is the last attempt. An event in flight
  (`TodoSound`) says something that records make true and that records never take back;
* requests (`SentSound`): *each stay in `capturing` is good for one request*. A command about to
  send has its event in the ledger, every attempt before it was interrupted, and the
  resumptions number at least the requests sent; an append cannot bring the run back to
  `capturing` without one more resumption. This carries `DispatchAlwaysDisciplined`, budget
  included, through commands that overlap;
* artifacts (`ManifestSound`, `JudgmentSound`): from the reading a manifest was made of until its
  seal, no other event is legal, because `provider_request_id_reused`, the one occurrence
  allowed in `captured`, comes only from a command that waits for an answer, and while one does
  the run cannot be captured (`NotCaptured`). So a stale manifest is never sealed (`SealsAlwaysBind`).

Every step keeps what there is and appends at most one legal event (`StepAdvances`), whence
`AlwaysAppendOnly` and `Refinement`.

Three properties hold only while *one command runs at a time*: section 4 tells what races do to
the evidence. They are proved under `OneCommand`, that `Procs` has at most one element, as the
runs that check them have. The command is still killed anywhere, so what has to be an
invariant is what one leaves on disk for the next:

* `RecInv`: each event of a recovery is in the ledger once, since it is appended only if
  absent and nobody appends between the test and the write; at most one record lacks events; and
  a resumption names a stored record that asks for one (`AlwaysReconcilable`,
  `NeverResendsUndeclared`);
* `SealInv`: as long as no manifest exists commands may add evidence. One exists only in
  `captured` or `aborted` or later, where the only events left to append are those of the
  sealer, the judge and the bundler. What each of these verified at its start therefore still
  verifies when it writes (`SealedAlwaysVerifiable`).

`EvidenceAlwaysSealable` is about `CaptureOperator`, that is for commands that are
started as its four rules say: a run that ended captured or aborted can be sealed, whatever was
killed on the way. `OperatorInv` is what a
command finds on disk (`DiskBound`) and what a running one may count on (`Operating`). A recorded
attempt has exactly one request event. An attempt that is complete is the last, and
no recovery is ever declared over it. Bytes that no record names are at most those of one
answer: of the last attempt, or of the recovery to come, which binds them. An unfinished
recovery names the last attempt, and nothing else is done before it is finished; of its
events those are in the ledger that precede the one to append. `OperatorInv` was checked with TLC
on the instance of `CaptureOperator_live` before it was proved.

Assumed: the preregistered policy allows an attempt, and the operator may supply no bytes,
`--partial-file` being optional (`PolicyAssumption`), answers are those `adapters.py` lets
through (`AnswerAssumption`), and `None` is told apart from states, records and artifacts
(`NoneAssumption`).

`Decisions_proofs` takes the decisions from the inputs of the run to every input:

* `LockableAlwaysUsable`: what `ValidateCampaign` finds is cut into the issues in which neither the lock
  nor the reason for the reading matters (`PlainIssues`), those in which the reason does
  (`DigestIssues`, open digests) and those of the reference to the lock. A document with its
  reference differs from the one without in the third part only (`WithReference`);
* `SuccessorAlwaysRederives`: the first check that fails decides the code of an answer, so that a
  list of checks is passed only if none of them fails (`AllChecksPass`). What a build that
  passed leaves (`Built`) and what a verification that passed has compared (`Bound`) then meet in
  digests; a file with other answers, sealed again or not, fails one of the comparisons;
* `JudgesAlwaysAgree`: the verifier goes through the claims of an answer, the contract through its
  properties. Both are brought to what they ask of each single claim about the subject of the
  case; what the contract reads as *the* reported value, the last one, is then the value of each
  of them, because consistent claims have one value;
* `PlansAlwaysBalanced`: the slots of a list of blocks of equal length are numbered by quotient and
  remainder (`Joined`). An accepted R2 plan was made of the frozen orders, a round of four blocks
  repeated three times; in a round each condition stands once in each position and once
  right after each other one, and `Thrice` does the rest. In a replication each block is a
  permutation of the models;
* `OnlyAnswersAlwaysScore`: in the scan of a text the depth of a brace is the most that was opened
  and not closed from any place on (`IsDepth`), a string is open after an odd number of quotes
  (`StringIs`), and so what the scan has found is the first object with nothing open
  before it (`FoundSoFar`). For the lanes it is shown once what each way of reading an answer can
  yield: a value some field has (`Holds`, `Shown`) or names a list shows (`StrListIs`). Each
  canonical form is then read again field by field, under the keys it was given
  (`PlanningIsEarned` to `GroundingIsEarned`); what `Or` yields is one of its values
  (`OrIs`), the first if Python takes it for true (`OrFirst`), so that a claim read again keeps
  its cite, which names a fact, and drops at most its subject (`ClaimAgain`). Scans and filters are recursive functions; their
  values are reached with an induction on the places of a list (`CountingUp`, `Repeats`).

Assumed of the inputs: a campaign document has the fields the protocol names and a
reference to a lock is not null (`CampaignAssumption`), block orders are lists of lists of strings
(`StudyAssumption`), claims come in a list (`JudgementAssumption`), tokens, fields and items come in
sequences and an answer is asked in one of the eight lanes (`TextAssumption`), the rows of evidence are a
sequence, a request has its four parts, and an answer exchanged for another was not that one before
(`SuccessorAssumption`). TLC evaluates all of them for the inputs of the run.

Only model-checked: liveness (`LockFree`, `ReachesReview`, `StudyAdvances`), which is beyond the
prover. Every invariant and every other action property of a run is a theorem.

## 6. Plan

Modelled and checked as planned: the ledger, the run directory, AutoLab, the slots with the initialisation
of a run, campaigns with their locks, ratification and closure, the failure memory.
Every invariant is proved, those of `Decisions` included. What is left to model: `validate_benchmark_lock`, the arithmetic of `evaluate_gate`, and the
amendment gate of the frozen zone.

## 7. Not modelled, and why

* Hashing and canonical JSON: digests are the values they digest. File permissions and
  links, which are refused before anything is read. A file system that loses a
  rename or an fsynced file: durability is taken from fsync, `os.link` and `os.replace`.
* The content of prompts and answers, and what a live model does beyond the outcomes
  `adapters.py` lets through.
* `validate_benchmark_lock`, the shape of a stored lock: `CampaignLock` has only locks
  the builder makes and the comparison with them.
* `evaluate_gate` of AutoLab, a comparison of two documents whose outcome is a choice in
  `AutoLab`, and the amendment gate of the frozen zone, which reads Git history.
* SFA adapters, transcripts and reports: parsing and rendering. `rederive.py`,
  `provenance.py` and the prior-state trial: fixed sequences of comparisons over finished
  files. `seed_history.py` and `migrate.py` write a ledger in one go before anything else.
* The tamper and invariant suites, `external_candidate_harness.py` and
  `adversarial_candidate_suite.py`: programs that exercise other components and keep no state.
* Frontier suite: prompt blinding, the runner, aggregation into reports, and writing the
  successor's file.
* The older pilots, and the replication harness's own scan, which repeats R2's.
* GroundLedger (`product/groundledger/`): a product of its own above the benchmark, an HTTP service
  over a store; left for a project of its own.
