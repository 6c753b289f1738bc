------------------------------- MODULE AgentLoop -------------------------------
(***************************************************************************)
(* The writers of the failure memory: agent runs (sfa/agent.py), which     *)
(* verify a candidate, remember a failure and try once more when the       *)
(* policy says so, and benchmark runs (run_benchmark.py), which seal the   *)
(* failures of the cases in the repository.  All of them append to one     *)
(* ledger, by reading it and adding a line made from what they read; no    *)
(* lock is taken.  A process may be killed between any two steps; writing  *)
(* one file is one step.                                                   *)
(***************************************************************************)
EXTENDS Verifier, FailureMemory

CONSTANTS
    Procs,
    RunIds,         \* names of agent runs
    Models,         \* the models whose output is judged
    Candidates,     \* names of what a model may answer
    Content(_),     \* Content(cand): the candidate of that name
    Evidence,       \* of the one task of this instance
    Rules,
    Cases,          \* the sequence of benchmark cases
    CaseFile,       \* CaseFile[c]: the candidate in the directory of case c
    SealedBefore(_), \* SealedBefore(c): what may have been sealed for c before
    MaxBenchmarks,  \* bound on benchmark runs
    MaxPeriod,      \* bound on the calendar
    Absent

ASSUME AgentAssumption ==
    /\ {MaxBenchmarks, MaxPeriod} \subseteq Nat
    /\ Cases \in Seq(ToSet(Cases))
    /\ \A c \in ToSet(Cases) : CaseFile[c] \in Candidates /\ Absent \in SealedBefore(c)
    /\ "benchmark" \notin RunIds
    /\ Absent \notin Candidates \cup {"FAIL"}
    /\ IsFiniteSet(Models)

VARIABLES
    runs,       \* runs[r]: the directory of run r, for the runs that have one
    sealed,     \* sealed[c]: the artifact of case c, or Absent
    ledger,     \* occurrences.jsonl
    proc,       \* what each process does, with what it has read
    today,      \* the period
    benchmarks

vars == <<runs, sealed, ledger, proc, today, benchmarks>>

Idle == [at |-> "idle"]

\* The verdict and the family of a candidate.
Judged(cand) == Verify(Evidence, Content(cand), Rules)
FamilyOf(cand) == ClassifyFamily(Judged(cand).category, Content(cand), Evidence)

Artifact(cand) == [family |-> FamilyOf(cand)]

ASSUME ArtifactAssumption ==
    \A cand \in Candidates : Judged(cand).status = "FAIL" => Artifact(cand) # Absent

Init ==
    /\ runs = [r \in {} |-> Absent]
    /\ sealed \in {f \in [ToSet(Cases) -> Candidates \cup {Absent}] :
                    \A c \in ToSet(Cases) : f[c] \in SealedBefore(c)}
    /\ ledger = <<>>
    /\ proc = [p \in Procs |-> Idle]
    /\ today = 1
    /\ benchmarks = 0

\* f with v for k.
With(f, k, v) == [x \in DOMAIN f \cup {k} |-> IF x = k THEN v ELSE f[x]]

\* What a process holds, at another label and with v for k.
Held(me, label, k, v) == With([me EXCEPT !.at = label], k, v)

Goto(p, step) == proc' = [proc EXCEPT ![p] = step]
At(p, label) == proc[p].at = label

\* The process goes on at label with what it holds.
Continue(p, label) == Goto(p, [proc[p] EXCEPT !.at = label])

-----------------------------------------------------------------------------
(* One agent run. *)

NewAttempt(cand) ==
    [cand |-> cand, artifact |-> Absent, verdict |-> Absent, decision |-> Absent]

\* The attempt with its verdict and, after a failure, what the policy decided.
Concluded(attempt, verdict, decision) ==
    [cand |-> attempt.cand, artifact |-> attempt.artifact,
     verdict |-> verdict, decision |-> decision]

Current(r) == runs[r].attempts[Len(runs[r].attempts)]

SetCurrent(r, attempt) ==
    runs' = [runs EXCEPT ![r].attempts[Len(runs[r].attempts)] = attempt]

\* The run directory must be new.
StartRun(p, r, m) ==
    /\ At(p, "idle") /\ r \notin DOMAIN runs
    /\ runs' = With(runs, r, [model |-> m, attempts |-> <<>>, summary |-> Absent])
    /\ Goto(p, [at |-> "produce", run |-> r])
    /\ UNCHANGED <<sealed, ledger, today, benchmarks>>

\* The adapter's candidate is written with its provenance, then judged; a
\* claim that is no object makes the verifier raise, and the run stays as it is.
Produce(p, cand) ==
    /\ At(p, "produce")
    /\ runs' = [runs EXCEPT ![proc[p].run].attempts = Append(@, NewAttempt(cand))]
    /\ \/ Judged(cand).status = "PASS" /\ Continue(p, "pass")
       \/ Judged(cand).status = "FAIL" /\
            Goto(p, [at |-> "seal", run |-> proc[p].run, observed |-> today])
       \/ Judged(cand).status = "raises" /\ Goto(p, Idle)
    /\ UNCHANGED <<sealed, ledger, today, benchmarks>>

WritePass(p) ==
    /\ At(p, "pass")
    /\ SetCurrent(proc[p].run, Concluded(Current(proc[p].run), "PASS", Absent))
    /\ Continue(p, "summary")
    /\ UNCHANGED <<sealed, ledger, today, benchmarks>>

\* Mutant of SealFailure: the occurrence is recorded, the artifact left out.
SkipSeal(p) ==
    /\ At(p, "seal") /\ Continue(p, "read")
    /\ UNCHANGED <<runs, sealed, ledger, today, benchmarks>>

\* seal_failure: the artifact of the failed attempt, before its occurrence.
SealFailure(p) ==
    /\ At(p, "seal")
    /\ LET attempt == Current(proc[p].run)
       IN  SetCurrent(proc[p].run,
               [attempt EXCEPT !.artifact = Artifact(attempt.cand)])
    /\ Continue(p, "read")
    /\ UNCHANGED <<sealed, ledger, today, benchmarks>>

\* The policy reads the ledger again, after the occurrence was appended; no
\* earlier remediation is handed to it.
Decide(p) ==
    LET r == proc[p].run
        decision == DecidePolicy(PolicyProfile(ledger, runs[r].model), 1,
                                [f \in FamilyPriority |-> 0])
    IN  /\ At(p, "decide")
        /\ SetCurrent(r, Concluded(Current(r), "FAIL",
               IF Len(runs[r].attempts) = 1 THEN decision ELSE Absent))
        /\ IF Len(runs[r].attempts) = 1 /\ decision.directives # {} /\ ~decision.terminate
           THEN Goto(p, [at |-> "produce", run |-> r])
           ELSE Goto(p, [at |-> "summary", run |-> r])
        /\ UNCHANGED <<sealed, ledger, today, benchmarks>>

WriteSummary(p) ==
    /\ At(p, "summary")
    /\ runs' = [runs EXCEPT ![proc[p].run].summary = Current(proc[p].run).verdict]
    /\ Goto(p, Idle)
    /\ UNCHANGED <<sealed, ledger, today, benchmarks>>

-----------------------------------------------------------------------------
(* One benchmark run. *)

NextCase(rest, observed) ==
    IF rest = <<>> THEN Idle ELSE [at |-> "case", rest |-> rest, observed |-> observed]

StartBenchmark(p) ==
    /\ At(p, "idle") /\ benchmarks < MaxBenchmarks
    /\ benchmarks' = benchmarks + 1
    /\ Goto(p, NextCase(Cases, today))
    /\ UNCHANGED <<runs, sealed, ledger, today>>

\* seal_or_confirm: a failure is sealed once; another failure of the case
\* than the sealed one is reported, and not recorded.
SealOrConfirm(p) ==
    LET c == Head(proc[p].rest)
        next == NextCase(Tail(proc[p].rest), proc[p].observed)
        record == Held(proc[p], "read", "cand", CaseFile[c])
        fails == Judged(CaseFile[c]).status = "FAIL"
    IN  /\ At(p, "case")
        /\ IF fails /\ sealed[c] = Absent
           THEN sealed' = [sealed EXCEPT ![c] = CaseFile[c]] ELSE UNCHANGED sealed
        /\ Goto(p, IF fails /\ sealed[c] \in {Absent, CaseFile[c]} THEN record ELSE next)
        /\ UNCHANGED <<runs, ledger, today, benchmarks>>

-----------------------------------------------------------------------------
(* The ledger, as all of them write it. *)

IsAgent(p) == "run" \in DOMAIN proc[p]

Occurrence(p) ==
    IF IsAgent(p)
    THEN LET r == proc[p].run
         IN  [run |-> r, item |-> Len(runs[r].attempts), family |-> FamilyOf(Current(r).cand),
              model |-> runs[r].model, period |-> proc[p].observed]
    ELSE [run |-> "benchmark", item |-> Head(proc[p].rest), family |-> FamilyOf(proc[p].cand),
          model |-> "unknown", period |-> proc[p].observed]

ReadLedger(p) ==
    /\ At(p, "read")
    /\ Goto(p, Held(proc[p], "append", "entries", ledger))
    /\ UNCHANGED <<runs, sealed, ledger, today, benchmarks>>

\* The line is added at the end, whatever has been added since the read.
AppendEntry(p) ==
    /\ At(p, "append")
    /\ ledger' = Append(ledger, AppendOccurrence(proc[p].entries, Occurrence(p)))
    /\ Goto(p, IF IsAgent(p) THEN [at |-> "decide", run |-> proc[p].run]
               ELSE NextCase(Tail(proc[p].rest), proc[p].observed))
    /\ UNCHANGED <<runs, sealed, today, benchmarks>>

-----------------------------------------------------------------------------
Kill(p) ==
    /\ ~At(p, "idle") /\ Goto(p, Idle)
    /\ UNCHANGED <<runs, sealed, ledger, today, benchmarks>>

NextPeriod ==
    /\ today < MaxPeriod /\ today' = today + 1
    /\ UNCHANGED <<runs, sealed, ledger, proc, benchmarks>>

Next ==
    \/ \E p \in Procs, r \in RunIds, m \in Models : StartRun(p, r, m)
    \/ \E p \in Procs, cand \in Candidates : Produce(p, cand)
    \/ \E p \in Procs :
         \/ WritePass(p) \/ SealFailure(p) \/ Decide(p) \/ WriteSummary(p)
         \/ StartBenchmark(p) \/ SealOrConfirm(p)
         \/ ReadLedger(p) \/ AppendEntry(p) \/ Kill(p)
    \/ NextPeriod

Spec == Init /\ [][Next]_vars

-----------------------------------------------------------------------------
(* The memory is complete and sound, however runs overlap or end: a failed *)
(* verdict on disk has its artifact and its occurrence, and an occurrence  *)
(* has an artifact of the family it records (agent.py: seal, append, and   *)
(* only then the verdict).                                                 *)
Remembered(r, a) ==
    /\ runs[r].attempts[a].artifact # Absent
    /\ \E i \in DOMAIN ledger : ledger[i].of.run = r /\ ledger[i].of.item = a

ArtifactFamily(occurrence) ==
    IF occurrence.run = "benchmark" THEN FamilyOf(sealed[occurrence.item])
    ELSE runs[occurrence.run].attempts[occurrence.item].artifact.family

HasArtifact(occurrence) ==
    IF occurrence.run = "benchmark" THEN sealed[occurrence.item] # Absent
    ELSE runs[occurrence.run].attempts[occurrence.item].artifact # Absent

FailuresRemembered ==
    /\ \A r \in DOMAIN runs : \A a \in DOMAIN runs[r].attempts :
         runs[r].attempts[a].verdict = "FAIL" => Remembered(r, a)
    /\ \A i \in DOMAIN ledger :
         HasArtifact(ledger[i].of) /\ ArtifactFamily(ledger[i].of) = ledger[i].of.family

(* Whatever writers overlap, an entry continues one that stands before it, *)
(* and the chain of ledger.py verifies exactly when no two entries were    *)
(* made for the same position; while it does, an entry deleted before the  *)
(* last or exchanged with its neighbour is found (replay.py).              *)
RemovedAt(i) == SubSeq(ledger, 1, i - 1) \o SubSeq(ledger, i + 1, Len(ledger))
ExchangedAt(i) == [ledger EXCEPT ![i] = ledger[i + 1], ![i + 1] = ledger[i]]

ChainFindsForks ==
    /\ \A i \in DOMAIN ledger :
         ledger[i].prev = Genesis \/ \E j \in 1 .. i - 1 : ledger[i].prev = ledger[j]
    /\ VerifyChain(ledger) <=>
         \A i, j \in DOMAIN ledger : i # j => ledger[i].seq # ledger[j].seq
    /\ VerifyChain(ledger) => \A i \in 1 .. Len(ledger) - 1 :
         ~VerifyChain(RemovedAt(i)) /\ ~VerifyChain(ExchangedAt(i))

(* A second attempt is made only after a family that has a directive has   *)
(* failed the threshold number of times for the model (policy.py), also    *)
(* when other processes appended meanwhile, and no run makes a third.      *)
RetryByPolicy ==
    \A r \in DOMAIN runs :
        /\ Len(runs[r].attempts) <= 2
        /\ Len(runs[r].attempts) = 2 =>
             \E f \in FamilyPriority :
                Cardinality({i \in DOMAIN ledger :
                    ledger[i].of.model = runs[r].model /\ ledger[i].of.family = f}) >= 2

(* The reports that read the ledger agree, though its lines do not come in *)
(* the order of their periods: a family the history calls extinct is one   *)
(* the metric calls eliminated, and one whose latest occurrence is not of  *)
(* the latest period; a declining one has fallen from its peak; the        *)
(* timelines add up to the totals, and the profiles of the models split    *)
(* the ledger among them (history.py, recurrence_metric.py, agent.py).     *)
HistoryAgrees ==
    LET extinct == ExtinctFamilies(ledger, 1, 3)
        growing == Growing(ledger)
    IN  /\ \A f \in ObservedFamilies(ledger) :
             LET row == RecurrenceSeries(ledger, f)
                 decline == DeclineOf(row)
                 recurrence == Recurrence(ledger, f)
             IN  /\ f \in extinct <=> decline.eliminated
                 /\ f \in extinct <=> recurrence.latest < Max(AllPeriods(ledger))
                 /\ ExtinctionStatus(ledger, f, 1, 3) = "declining" =>
                      decline.fallen > 0 /\ decline.final > 0 /\ f \notin growing
                 /\ f \in growing => f \notin extinct
                 /\ SumFunction(row) = recurrence.total
                 /\ recurrence.active <= recurrence.span
        /\ SumFunction([m \in Models \cup {"unknown"} |-> PolicyProfile(ledger, m).total])
             = Len(ledger)
=============================================================================
