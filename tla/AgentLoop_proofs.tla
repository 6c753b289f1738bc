----------------------------- MODULE AgentLoop_proofs -----------------------------
(***************************************************************************)
(* What the failure memory promises, for any candidates, cases, models and *)
(* processes, whatever runs overlap and wherever they are killed.          *)
(* MemoryInv is the inductive invariant.  It asks nothing of the entries a *)
(* process has read: the line it adds may be chained wrongly, but it is    *)
(* about an artifact that exists.                                          *)
(***************************************************************************)
EXTENDS AgentLoop, SequenceTheorems, FiniteSetTheorems, FunctionTheorems, WellFoundedInduction, TLAPS

-----------------------------------------------------------------------------
(* The invariant.                                                          *)

(* A sequence, of whatever it holds. *)
IsSequence(s) == s \in Seq({s[i] : i \in DOMAIN s})

IsAttempt(a) ==
    a = [cand |-> a.cand, artifact |-> a.artifact, verdict |-> a.verdict,
         decision |-> a.decision]

IsRun(run) ==
    /\ run = [model |-> run.model, attempts |-> run.attempts, summary |-> run.summary]
    /\ IsSequence(run.attempts)
    /\ \A a \in DOMAIN run.attempts : IsAttempt(run.attempts[a])

\* In ledger l an occurrence of attempt a of run r is recorded.
Recorded(l, r, a) == \E i \in DOMAIN l : l[i].of.run = r /\ l[i].of.item = a

\* Attempt x is number a of run r.
AttemptSound(x, l, r, a) ==
    /\ x.cand \in Candidates
    /\ x.artifact # Absent => x.artifact = Artifact(x.cand)
    /\ x.verdict = "FAIL" => x.artifact # Absent /\ Recorded(l, r, a)

RunSound(run, l, r) ==
    IsRun(run) /\ \A a \in DOMAIN run.attempts : AttemptSound(run.attempts[a], l, r, a)

OccurrenceSound(o, u, s) ==
    /\ o.run = "benchmark" =>
         o.item \in ToSet(Cases) /\ s[o.item] # Absent /\ o.family = FamilyOf(s[o.item])
    /\ o.run # "benchmark" =>
         /\ o.run \in DOMAIN u /\ o.item \in DOMAIN u[o.run].attempts
         /\ u[o.run].attempts[o.item].artifact # Absent
         /\ o.family = FamilyOf(u[o.run].attempts[o.item].cand)

\* A process that executes an agent run.
Runs(me) == "run" \in DOMAIN me

\* What the process of an agent run may rely on, given the directory of the
\* run and the ledger.
AgentSound(me, run, l) ==
    LET now == run.attempts[Len(run.attempts)]
    IN  /\ me.at \in {"produce", "pass", "seal", "read", "append", "decide", "summary"}
        /\ me.at # "produce" => Len(run.attempts) > 0
        /\ me.at = "seal" => Judged(now.cand).status = "FAIL"
        /\ me.at \in {"read", "append", "decide"} => now.artifact # Absent
        /\ me.at = "decide" => Recorded(l, me.run, Len(run.attempts))

\* What any other process may rely on, given the sealed cases.
BenchmarkSound(me, s) ==
    /\ me.at \in {"idle", "case", "read", "append"}
    /\ me.at # "idle" =>
         "rest" \in DOMAIN me /\ me.rest \in Seq(ToSet(Cases)) /\ me.rest # <<>>
    /\ me.at \in {"read", "append"} =>
         "cand" \in DOMAIN me /\ me.cand \in Candidates /\ s[Head(me.rest)] = me.cand

ProcessSound(me, u, s, l) ==
    /\ "at" \in DOMAIN me
    /\ Runs(me) => me.run \in DOMAIN u /\ AgentSound(me, u[me.run], l)
    /\ ~Runs(me) => BenchmarkSound(me, s)

\* The directory of a run belongs to the one process that made it.
OneOwner ==
    \A p, q \in Procs : Runs(proc[p]) /\ Runs(proc[q]) /\ proc[p].run = proc[q].run => p = q

MemoryInv ==
    /\ DOMAIN runs \subseteq RunIds
    /\ \A r \in DOMAIN runs : RunSound(runs[r], ledger, r)
    /\ sealed \in [ToSet(Cases) -> Candidates \cup {Absent}]
    /\ IsSequence(ledger)
    /\ \A i \in DOMAIN ledger : OccurrenceSound(ledger[i].of, runs, sealed)
    /\ proc = [p \in Procs |-> proc[p]]
    /\ \A p \in Procs : ProcessSound(proc[p], runs, sealed, ledger)
    /\ OneOwner

-----------------------------------------------------------------------------
(* Facts about sequences and records.                                      *)

LEMMA AppendIsSequence ==
    ASSUME NEW s, IsSequence(s), NEW e
    PROVE  /\ IsSequence(Append(s, e)) /\ Len(s) \in Nat
           /\ Len(Append(s, e)) = Len(s) + 1
           /\ DOMAIN s = 1 .. Len(s) /\ DOMAIN Append(s, e) = 1 .. Len(s) + 1
           /\ \A i \in 1 .. Len(s) : Append(s, e)[i] = s[i]
           /\ Append(s, e)[Len(s) + 1] = e
<1> DEFINE S == {s[i] : i \in DOMAIN s} \cup {e}
           t == Append(s, e)
<1>1. s \in Seq(S) /\ e \in S
  BY DEF IsSequence
<1>2. /\ t \in Seq(S) /\ Len(s) \in Nat /\ Len(t) = Len(s) + 1
      /\ DOMAIN s = 1 .. Len(s) /\ DOMAIN t = 1 .. Len(s) + 1
      /\ \A i \in 1 .. Len(s) : t[i] = s[i]
      /\ t[Len(s) + 1] = e
  BY <1>1
<1>3. t \in Seq({t[i] : i \in DOMAIN t})
  <2> HIDE DEF t
  <2> QED BY <1>2
<1> QED BY <1>2, <1>3 DEF IsSequence

LEMMA SequenceFacts ==
    ASSUME NEW s, IsSequence(s)
    PROVE  Len(s) \in Nat /\ DOMAIN s = 1 .. Len(s)
  BY DEF IsSequence

\* A sequence with one element replaced.
LEMMA ReplacedIsSequence ==
    ASSUME NEW s, IsSequence(s), NEW n \in DOMAIN s, NEW e
    PROVE  LET t == [s EXCEPT ![n] = e]
           IN  /\ IsSequence(t) /\ Len(t) = Len(s) /\ DOMAIN t = DOMAIN s
               /\ \A i \in DOMAIN s : t[i] = IF i = n THEN e ELSE s[i]
<1> DEFINE S == {s[i] : i \in DOMAIN s} \cup {e}
           t == [s EXCEPT ![n] = e]
<1>1. s \in Seq(S) /\ e \in S
  BY DEF IsSequence
<1>2. /\ t \in Seq(S) /\ Len(t) = Len(s) /\ DOMAIN t = DOMAIN s
      /\ \A i \in DOMAIN s : t[i] = IF i = n THEN e ELSE s[i]
  BY <1>1
<1>3. t \in Seq({t[i] : i \in DOMAIN t})
  <2> HIDE DEF t
  <2> QED BY <1>2
<1> QED BY <1>2, <1>3 DEF IsSequence

\* The rest of a nonempty sequence.
LEMMA TailIsSequence ==
    ASSUME NEW S, NEW s \in Seq(S), s # <<>>
    PROVE  Head(s) \in S /\ Tail(s) \in Seq(S)
  OBVIOUS

\* Changes to an attempt.
LEMMA ArtifactSet ==
    ASSUME NEW a, IsAttempt(a), NEW v, NEW x, x = [a EXCEPT !.artifact = v]
    PROVE  IsAttempt(x) /\ x.cand = a.cand /\ x.artifact = v /\ x.verdict = a.verdict
<1>1. x = [cand |-> a.cand, artifact |-> v, verdict |-> a.verdict, decision |-> a.decision]
  BY DEF IsAttempt
<1> QED BY <1>1 DEF IsAttempt

LEMMA ConcludedIs ==
    ASSUME NEW a, NEW v, NEW d
    PROVE  /\ IsAttempt(Concluded(a, v, d))
           /\ Concluded(a, v, d).cand = a.cand /\ Concluded(a, v, d).artifact = a.artifact
           /\ Concluded(a, v, d).verdict = v
  BY DEF IsAttempt, Concluded

-----------------------------------------------------------------------------
(* What one step leaves of what other processes, and the ledger, rely on.  *)

\* Every attempt stays, with its candidate and, once made, its artifact.
AttemptsKept(u, v) ==
    \A r \in DOMAIN u :
        /\ r \in DOMAIN v
        /\ \A a \in DOMAIN u[r].attempts :
             /\ a \in DOMAIN v[r].attempts
             /\ v[r].attempts[a].cand = u[r].attempts[a].cand
             /\ u[r].attempts[a].artifact # Absent => v[r].attempts[a].artifact # Absent

SealedKept(s, t) == \A c \in ToSet(Cases) : s[c] # Absent => t[c] = s[c]

LEMMA OccurrencesKept ==
    ASSUME NEW o, NEW u, NEW v, NEW s, NEW t, OccurrenceSound(o, u, s),
           AttemptsKept(u, v), SealedKept(s, t)
    PROVE  OccurrenceSound(o, v, t)
  BY DEF OccurrenceSound, AttemptsKept, SealedKept

(* A step of p, after which it holds me, leaves the others alone. *)
LEMMA ProcessesKept ==
    ASSUME MemoryInv, NEW p \in Procs, NEW me, proc' = [proc EXCEPT ![p] = me],
           \A q \in Procs \ {p} : Runs(proc[q]) =>
               /\ proc[q].run \in DOMAIN runs'
               /\ runs'[proc[q].run] = runs[proc[q].run]
               /\ Runs(me) => proc[q].run # me.run,
           SealedKept(sealed, sealed'),
           \A r, a : Recorded(ledger, r, a) => Recorded(ledger', r, a),
           ProcessSound(me, runs', sealed', ledger')
    PROVE  /\ (proc = [q \in Procs |-> proc[q]])'
           /\ \A q \in Procs : ProcessSound(proc[q], runs, sealed, ledger)'
           /\ OneOwner'
<1>1. proc = [q \in Procs |-> proc[q]]
  BY DEF MemoryInv
<1>2. /\ (proc = [q \in Procs |-> proc[q]])'
      /\ proc'[p] = me /\ \A q \in Procs \ {p} : proc'[q] = proc[q]
  BY <1>1
<1>3. ASSUME NEW q \in Procs PROVE ProcessSound(proc[q], runs, sealed, ledger)'
  <2>1. CASE q = p
    BY <2>1, <1>2 DEF ProcessSound
  <2>2. CASE q # p
    <3> DEFINE you == proc[q]
    <3>1. proc'[q] = you /\ ProcessSound(you, runs, sealed, ledger)
      BY <2>2, <1>2 DEF MemoryInv
    <3>2. Runs(you) => you.run \in DOMAIN runs' /\ AgentSound(you, runs'[you.run], ledger')
      <4>1. SUFFICES ASSUME Runs(you)
                     PROVE  you.run \in DOMAIN runs' /\ AgentSound(you, runs'[you.run], ledger')
        OBVIOUS
      <4>2. you.run \in DOMAIN runs' /\ runs'[you.run] = runs[you.run]
        BY <2>2, <4>1
      <4>3. AgentSound(you, runs[you.run], ledger)
        BY <3>1, <4>1 DEF ProcessSound
      <4>4. AgentSound(you, runs[you.run], ledger')
        BY <4>3 DEF AgentSound
      <4> QED BY <4>2, <4>4
    <3>3. ~Runs(you) => BenchmarkSound(you, sealed')
      <4>1. SUFFICES ASSUME ~Runs(you) PROVE BenchmarkSound(you, sealed')
        OBVIOUS
      <4>2. BenchmarkSound(you, sealed)
        BY <3>1, <4>1 DEF ProcessSound
      <4>3. ASSUME you.at \in {"read", "append"}
            PROVE  you.cand \in Candidates /\ sealed'[Head(you.rest)] = you.cand
        <5>1. you.rest \in Seq(ToSet(Cases)) /\ you.rest # <<>>
          BY <4>2, <4>3 DEF BenchmarkSound
        <5>2. Head(you.rest) \in ToSet(Cases)
          BY <5>1, TailIsSequence
        <5>3. you.cand \in Candidates /\ sealed[Head(you.rest)] = you.cand
          BY <4>2, <4>3 DEF BenchmarkSound
        <5> QED BY <5>2, <5>3, AgentAssumption DEF SealedKept
      <4> QED BY <4>2, <4>3 DEF BenchmarkSound
    <3>4. ProcessSound(you, runs', sealed', ledger')
      <4> HIDE DEF you
      <4> QED BY <3>1, <3>2, <3>3 DEF ProcessSound
    <3> QED BY <3>1, <3>4 DEF ProcessSound
  <2> QED BY <2>1, <2>2
<1>4. OneOwner'
  BY <1>2 DEF MemoryInv, OneOwner
<1> QED BY <1>2, <1>3, <1>4
(* A step of p that changes nothing but the directory of its own run.      *)
LEMMA OneRun ==
    ASSUME MemoryInv, NEW p \in Procs, Runs(proc[p]), NEW me, proc' = [proc EXCEPT ![p] = me],
           NEW run, runs' = [runs EXCEPT ![proc[p].run] = run],
           RunSound(run, ledger, proc[p].run),
           \A a \in DOMAIN runs[proc[p].run].attempts :
               /\ a \in DOMAIN run.attempts
               /\ run.attempts[a].cand = runs[proc[p].run].attempts[a].cand
               /\ runs[proc[p].run].attempts[a].artifact # Absent => run.attempts[a].artifact # Absent,
           "at" \in DOMAIN me, Runs(me) => me.run = proc[p].run /\ AgentSound(me, run, ledger),
           ~Runs(me) => me.at = "idle",
           UNCHANGED <<sealed, ledger>>
    PROVE  MemoryInv'
<1> DEFINE r == proc[p].run
<1>1. r \in DOMAIN runs
  BY DEF MemoryInv, ProcessSound
<1>2. DOMAIN runs' = DOMAIN runs /\ runs'[r] = run /\ \A x \in DOMAIN runs \ {r} : runs'[x] = runs[x]
  BY <1>1
<1>3. \A x \in DOMAIN runs' : RunSound(runs[x], ledger, x)'
  BY <1>2 DEF MemoryInv
<1>4. AttemptsKept(runs, runs') /\ SealedKept(sealed, sealed')
  BY <1>2 DEF AttemptsKept, SealedKept
<1>5. \A i \in DOMAIN ledger : OccurrenceSound(ledger[i].of, runs', sealed')
  BY <1>4, OccurrencesKept DEF MemoryInv
<1>6. \A q \in Procs \ {p} : Runs(proc[q]) => proc[q].run \in DOMAIN runs /\ proc[q].run # r
  BY DEF MemoryInv, OneOwner, ProcessSound
<1>7. ProcessSound(me, runs', sealed', ledger')
  BY <1>1, <1>2 DEF ProcessSound, BenchmarkSound
<1>8. \A q \in Procs \ {p} : Runs(proc[q]) =>
        /\ proc[q].run \in DOMAIN runs' /\ runs'[proc[q].run] = runs[proc[q].run]
        /\ Runs(me) => proc[q].run # me.run
  BY <1>2, <1>6
<1>9. \A x, a : Recorded(ledger, x, a) => Recorded(ledger', x, a)
  OBVIOUS
<1>10. /\ (proc = [q \in Procs |-> proc[q]])'
       /\ \A q \in Procs : ProcessSound(proc[q], runs, sealed, ledger)'
       /\ OneOwner'
  BY <1>4, <1>7, <1>8, <1>9, ProcessesKept
<1> QED BY <1>2, <1>3, <1>5, <1>10 DEF MemoryInv

(* The current attempt of a run is replaced. *)
LEMMA CurrentReplaced ==
    ASSUME NEW r \in DOMAIN runs, IsRun(runs[r]), Len(runs[r].attempts) > 0,
           NEW x, IsAttempt(x), SetCurrent(r, x)
    PROVE  \E run :
             /\ runs' = [runs EXCEPT ![r] = run]
             /\ IsRun(run) /\ Len(run.attempts) = Len(runs[r].attempts)
             /\ DOMAIN run.attempts = DOMAIN runs[r].attempts
             /\ run.attempts[Len(run.attempts)] = x
             /\ \A a \in DOMAIN runs[r].attempts :
                  run.attempts[a] = IF a = Len(run.attempts) THEN x ELSE runs[r].attempts[a]
<1> DEFINE s == runs[r].attempts
           t == [s EXCEPT ![Len(s)] = x]
           run == [runs[r] EXCEPT !.attempts = t]
<1>1. IsSequence(s) /\ Len(s) \in DOMAIN s
  BY SequenceFacts DEF IsRun
<1>2. /\ IsSequence(t) /\ Len(t) = Len(s) /\ DOMAIN t = DOMAIN s
      /\ \A i \in DOMAIN s : t[i] = IF i = Len(s) THEN x ELSE s[i]
  BY <1>1, ReplacedIsSequence
<1>3. run = [model |-> runs[r].model, attempts |-> t, summary |-> runs[r].summary]
  BY DEF IsRun
<1>4. runs' = [runs EXCEPT ![r] = run]
  BY DEF SetCurrent
<1>5. run.attempts = t /\ IsRun(run)
  <2> HIDE DEF t, run
  <2>1. run.attempts = t
    BY <1>3
  <2>2. \A a \in DOMAIN t : IsAttempt(t[a])
    BY <1>2 DEF IsRun
  <2> QED BY <1>2, <1>3, <2>1, <2>2 DEF IsRun
<1> HIDE DEF t, run
<1> QED BY <1>1, <1>2, <1>4, <1>5

(* As OneRun, when the current attempt is replaced by x. *)
LEMMA OneAttempt ==
    ASSUME MemoryInv, NEW p \in Procs, Runs(proc[p]), NEW me, Goto(p, me),
           proc[p].at # "produce", NEW x, SetCurrent(proc[p].run, x),
           IsAttempt(x), x.cand = Current(proc[p].run).cand,
           AttemptSound(x, ledger, proc[p].run, Len(runs[proc[p].run].attempts)),
           Current(proc[p].run).artifact # Absent => x.artifact # Absent,
           "at" \in DOMAIN me, me.run = proc[p].run, Runs(me),
           me.at \in {"produce", "read", "summary"},
           me.at = "read" => x.artifact # Absent,
           UNCHANGED <<sealed, ledger>>
    PROVE  MemoryInv'
<1> DEFINE r == proc[p].run
<1>1. /\ r \in DOMAIN runs /\ RunSound(runs[r], ledger, r)
      /\ Len(runs[r].attempts) > 0
  BY DEF MemoryInv, ProcessSound, AgentSound
<1>2. PICK run :
        /\ runs' = [runs EXCEPT ![r] = run]
        /\ IsRun(run) /\ Len(run.attempts) = Len(runs[r].attempts)
        /\ DOMAIN run.attempts = DOMAIN runs[r].attempts
        /\ run.attempts[Len(run.attempts)] = x
        /\ \A a \in DOMAIN runs[r].attempts :
             run.attempts[a] = IF a = Len(run.attempts) THEN x ELSE runs[r].attempts[a]
  BY <1>1, CurrentReplaced DEF RunSound
<1>3. RunSound(run, ledger, r)
  BY <1>1, <1>2 DEF RunSound
<1>4. AgentSound(me, run, ledger)
  BY <1>1, <1>2 DEF AgentSound
<1>5. \A a \in DOMAIN runs[r].attempts :
        /\ a \in DOMAIN run.attempts
        /\ run.attempts[a].cand = runs[r].attempts[a].cand
        /\ runs[r].attempts[a].artifact # Absent => run.attempts[a].artifact # Absent
  BY <1>2 DEF Current
<1>6. proc' = [proc EXCEPT ![p] = me]
  BY DEF Goto
<1> QED BY <1>2, <1>3, <1>4, <1>5, <1>6, OneRun

-----------------------------------------------------------------------------
(* An agent run, step by step.                                             *)

\* The run of a process, and its current attempt.
LEMMA OwnRun ==
    ASSUME MemoryInv, NEW p \in Procs, Runs(proc[p])
    PROVE  LET r == proc[p].run
           IN  /\ "at" \in DOMAIN proc[p]
               /\ r \in DOMAIN runs /\ r \in RunIds /\ RunSound(runs[r], ledger, r)
               /\ AgentSound(proc[p], runs[r], ledger)
  BY DEF MemoryInv, ProcessSound

LEMMA OwnAttempt ==
    ASSUME MemoryInv, NEW p \in Procs, Runs(proc[p]), proc[p].at # "produce"
    PROVE  LET r == proc[p].run
               n == Len(runs[r].attempts)
           IN  /\ n > 0 /\ n \in DOMAIN runs[r].attempts
               /\ IsAttempt(Current(r)) /\ AttemptSound(Current(r), ledger, r, n)
<1> DEFINE r == proc[p].run
<1>1. RunSound(runs[r], ledger, r) /\ Len(runs[r].attempts) > 0
  BY OwnRun DEF AgentSound
<1>2. Len(runs[r].attempts) \in DOMAIN runs[r].attempts
  BY <1>1, SequenceFacts DEF RunSound, IsRun
<1> QED BY <1>1, <1>2 DEF RunSound, IsRun, Current

\* Only agents are at these labels.
LEMMA AgentLabels ==
    ASSUME MemoryInv, NEW p \in Procs,
           proc[p].at \in {"produce", "pass", "seal", "decide", "summary"}
    PROVE  Runs(proc[p])
  BY DEF MemoryInv, ProcessSound, BenchmarkSound

LEMMA WritePassSound ==
    ASSUME MemoryInv, NEW p \in Procs, WritePass(p) PROVE MemoryInv'
<1> DEFINE r == proc[p].run
           x == Concluded(Current(r), "PASS", Absent)
           me == [proc[p] EXCEPT !.at = "summary"]
<1>1. proc[p].at = "pass" /\ Runs(proc[p])
  BY AgentLabels DEF WritePass, At
<1>2. IsAttempt(Current(r)) /\ AttemptSound(Current(r), ledger, r, Len(runs[r].attempts))
  BY <1>1, OwnAttempt
<1>3. /\ IsAttempt(x) /\ x.cand = Current(r).cand /\ x.artifact = Current(r).artifact
      /\ AttemptSound(x, ledger, r, Len(runs[r].attempts))
  <2>1. IsAttempt(x) /\ x.cand = Current(r).cand /\ x.artifact = Current(r).artifact
        /\ x.verdict = "PASS"
    BY <1>2, ConcludedIs
  <2> HIDE DEF x
  <2> QED BY <1>2, <2>1 DEF AttemptSound
<1>4. "at" \in DOMAIN me /\ me.at = "summary" /\ Runs(me) /\ me.run = r
  BY <1>1, OwnRun DEF Runs
<1>5. SetCurrent(r, x) /\ Goto(p, me) /\ UNCHANGED <<sealed, ledger>>
  BY DEF WritePass, Continue
<1> HIDE DEF x, me
<1> QED BY <1>1, <1>3, <1>4, <1>5, OneAttempt

LEMMA SealFailureSound ==
    ASSUME MemoryInv, NEW p \in Procs, SealFailure(p) PROVE MemoryInv'
<1> DEFINE r == proc[p].run
           x == [Current(r) EXCEPT !.artifact = Artifact(Current(r).cand)]
           me == [proc[p] EXCEPT !.at = "read"]
<1>1. proc[p].at = "seal" /\ Runs(proc[p])
  BY AgentLabels DEF SealFailure, At
<1>2. IsAttempt(Current(r)) /\ AttemptSound(Current(r), ledger, r, Len(runs[r].attempts))
  BY <1>1, OwnAttempt
<1>3. Current(r).cand \in Candidates /\ Judged(Current(r).cand).status = "FAIL"
  BY <1>1, <1>2, OwnRun DEF AttemptSound, AgentSound, Current
<1>4. /\ IsAttempt(x) /\ x.cand = Current(r).cand /\ x.artifact # Absent
      /\ AttemptSound(x, ledger, r, Len(runs[r].attempts))
  <2>1. /\ IsAttempt(x) /\ x.cand = Current(r).cand
        /\ x.artifact = Artifact(Current(r).cand) /\ x.verdict = Current(r).verdict
    BY <1>2, ArtifactSet
  <2> HIDE DEF x
  <2> QED BY <1>2, <1>3, <2>1, ArtifactAssumption DEF AttemptSound
<1>5. "at" \in DOMAIN me /\ me.at = "read" /\ Runs(me) /\ me.run = r
  BY <1>1, OwnRun DEF Runs
<1>6. SetCurrent(r, x) /\ Goto(p, me) /\ UNCHANGED <<sealed, ledger>>
  BY DEF SealFailure, Continue
<1> HIDE DEF x, me
<1> QED BY <1>1, <1>4, <1>5, <1>6, OneAttempt

LEMMA DecideSound ==
    ASSUME MemoryInv, NEW p \in Procs, Decide(p) PROVE MemoryInv'
<1> DEFINE r == proc[p].run
<1>1. proc[p].at = "decide" /\ Runs(proc[p]) /\ UNCHANGED <<sealed, ledger>>
  BY AgentLabels DEF Decide, At
<1>2. /\ \E d : SetCurrent(r, Concluded(Current(r), "FAIL", d))
      /\ \E label \in {"produce", "summary"} : Goto(p, [at |-> label, run |-> r])
  BY DEF Decide
<1>3. PICK d : SetCurrent(r, Concluded(Current(r), "FAIL", d))
  BY <1>2
<1>4. PICK label \in {"produce", "summary"} : Goto(p, [at |-> label, run |-> r])
  BY <1>2
<1> DEFINE x == Concluded(Current(r), "FAIL", d)
           me == [at |-> label, run |-> r]
<1>5. IsAttempt(Current(r)) /\ AttemptSound(Current(r), ledger, r, Len(runs[r].attempts))
  BY <1>1, OwnAttempt
<1>6. Current(r).artifact # Absent /\ Recorded(ledger, r, Len(runs[r].attempts))
  BY <1>1, OwnRun DEF AgentSound, Current
<1>7. /\ IsAttempt(x) /\ x.cand = Current(r).cand /\ x.artifact = Current(r).artifact
      /\ AttemptSound(x, ledger, r, Len(runs[r].attempts))
  <2>1. /\ IsAttempt(x) /\ x.cand = Current(r).cand /\ x.artifact = Current(r).artifact
        /\ x.verdict = "FAIL"
    BY <1>5, ConcludedIs
  <2> HIDE DEF x
  <2> QED BY <1>5, <1>6, <2>1 DEF AttemptSound
<1>8. "at" \in DOMAIN me /\ me.at \in {"produce", "summary"} /\ Runs(me) /\ me.run = r
  BY DEF Runs
<1> QED BY <1>1, <1>3, <1>4, <1>7, <1>8, OneAttempt
LEMMA WriteSummarySound ==
    ASSUME MemoryInv, NEW p \in Procs, WriteSummary(p) PROVE MemoryInv'
<1> DEFINE r == proc[p].run
           run == [runs[r] EXCEPT !.summary = Current(r).verdict]
<1>1. Runs(proc[p]) /\ UNCHANGED <<sealed, ledger>>
  BY AgentLabels DEF WriteSummary, At
<1>2. r \in DOMAIN runs /\ RunSound(runs[r], ledger, r)
  BY <1>1, OwnRun
<1>3. run = [model |-> runs[r].model, attempts |-> runs[r].attempts,
             summary |-> Current(r).verdict]
  BY <1>2 DEF RunSound, IsRun
<1>4. RunSound(run, ledger, r) /\ run.attempts = runs[r].attempts
  <2> HIDE DEF run
  <2> QED BY <1>2, <1>3 DEF RunSound, IsRun
<1>5. runs' = [runs EXCEPT ![r] = run] /\ proc' = [proc EXCEPT ![p] = Idle]
  BY DEF WriteSummary, Goto
<1>6. "at" \in DOMAIN Idle /\ ~Runs(Idle) /\ Idle.at = "idle"
  BY DEF Idle, Runs
<1> HIDE DEF run
<1> QED BY <1>1, <1>4, <1>5, <1>6, OneRun

LEMMA RunWithAttempts ==
    ASSUME NEW run, IsRun(run), NEW t
    PROVE  [run EXCEPT !.attempts = t]
             = [model |-> run.model, attempts |-> t, summary |-> run.summary]
<1>1. PICK m, a, u : run = [model |-> m, attempts |-> a, summary |-> u]
  BY DEF IsRun
<1>2. run.model = m /\ run.summary = u
  BY <1>1
<1>3. [run EXCEPT !.attempts = t] = [model |-> m, attempts |-> t, summary |-> u]
  BY <1>1
<1> QED BY <1>2, <1>3

LEMMA ProduceSound ==
    ASSUME MemoryInv, NEW p \in Procs, NEW cand \in Candidates, Produce(p, cand)
    PROVE  MemoryInv'
<1> DEFINE r == proc[p].run
           s == runs[r].attempts
           t == Append(s, NewAttempt(cand))
           run == [runs[r] EXCEPT !.attempts = t]
<1>1. Runs(proc[p]) /\ UNCHANGED <<sealed, ledger>>
  BY AgentLabels DEF Produce, At
<1>2. r \in DOMAIN runs /\ RunSound(runs[r], ledger, r)
  BY <1>1, OwnRun
<1>3. run = [model |-> runs[r].model, attempts |-> t, summary |-> runs[r].summary]
  <2> HIDE DEF t
  <2>1. IsRun(runs[r])
    BY <1>2 DEF RunSound
  <2> QED BY <2>1, RunWithAttempts
<1>4. /\ IsSequence(t) /\ Len(s) \in Nat /\ Len(t) = Len(s) + 1
      /\ DOMAIN s = 1 .. Len(s) /\ DOMAIN t = 1 .. Len(s) + 1
      /\ \A i \in 1 .. Len(s) : t[i] = s[i]
      /\ t[Len(s) + 1] = NewAttempt(cand)
  BY <1>2, AppendIsSequence DEF RunSound, IsRun
<1>5. /\ IsAttempt(NewAttempt(cand)) /\ NewAttempt(cand).cand = cand
      /\ NewAttempt(cand).artifact = Absent /\ NewAttempt(cand).verdict # "FAIL"
  BY AgentAssumption DEF IsAttempt, NewAttempt
<1>6. run.attempts = t /\ RunSound(run, ledger, r)
  <2> HIDE DEF run, t
  <2>1. run.attempts = t
    BY <1>3
  <2>2. \A i \in DOMAIN t : IsAttempt(t[i]) /\ AttemptSound(t[i], ledger, r, i)
    BY <1>2, <1>4, <1>5 DEF RunSound, IsRun, AttemptSound
  <2> QED BY <1>3, <1>4, <2>1, <2>2 DEF RunSound, IsRun
<1>7. runs' = [runs EXCEPT ![r] = run]
  BY DEF Produce
<1>8. PICK me : /\ proc' = [proc EXCEPT ![p] = me] /\ "at" \in DOMAIN me
                /\ Runs(me) => /\ me.run = r /\ me.at \in {"pass", "seal"}
                               /\ me.at = "seal" => Judged(cand).status = "FAIL"
                /\ ~Runs(me) => me.at = "idle"
  <2>1. "at" \in DOMAIN proc[p]
    BY <1>1, OwnRun
  <2>2. CASE Continue(p, "pass")
    <3> DEFINE you == [proc[p] EXCEPT !.at = "pass"]
    <3>1. you.at = "pass" /\ "at" \in DOMAIN you /\ Runs(you) /\ you.run = r
      BY <1>1, <2>1 DEF Runs
    <3>2. proc' = [proc EXCEPT ![p] = you]
      BY <2>2 DEF Continue, Goto
    <3> HIDE DEF you
    <3> QED BY <3>1, <3>2
  <2>3. CASE /\ Judged(cand).status = "FAIL"
             /\ Goto(p, [at |-> "seal", run |-> r, observed |-> today])
    <3> DEFINE you == [at |-> "seal", run |-> r, observed |-> today]
    <3>1. you.at = "seal" /\ "at" \in DOMAIN you /\ Runs(you) /\ you.run = r
      BY DEF Runs
    <3>2. proc' = [proc EXCEPT ![p] = you]
      BY <2>3 DEF Goto
    <3> HIDE DEF you
    <3> QED BY <2>3, <3>1, <3>2
  <2>4. CASE Goto(p, Idle)
    <3>1. "at" \in DOMAIN Idle /\ ~Runs(Idle) /\ Idle.at = "idle"
      BY DEF Idle, Runs
    <3> QED BY <2>4, <3>1 DEF Goto
  <2> QED BY <2>2, <2>3, <2>4 DEF Produce
<1>9. Runs(me) => AgentSound(me, run, ledger)
  <2>1. Len(run.attempts) > 0 /\ run.attempts[Len(run.attempts)].cand = cand
    <3>1. run.attempts = t
      BY <1>6
    <3>2. Len(t) > 0 /\ t[Len(t)].cand = cand
      BY <1>4, <1>5
    <3> HIDE DEF run, t
    <3> QED BY <3>1, <3>2
  <2> HIDE DEF run
  <2> QED BY <1>8, <2>1 DEF AgentSound
<1>10. \A a \in DOMAIN s :
         /\ a \in DOMAIN run.attempts /\ run.attempts[a].cand = s[a].cand
         /\ s[a].artifact # Absent => run.attempts[a].artifact # Absent
  <2> HIDE DEF run, t
  <2> QED BY <1>4, <1>6
<1> HIDE DEF run
<1> QED BY <1>1, <1>6, <1>7, <1>8, <1>9, <1>10, OneRun

LEMMA StartRunSound ==
    ASSUME MemoryInv, NEW p \in Procs, NEW r \in RunIds, NEW m \in Models, StartRun(p, r, m)
    PROVE  MemoryInv'
<1> DEFINE run == [model |-> m, attempts |-> <<>>, summary |-> Absent]
           me == [at |-> "produce", run |-> r]
<1>1. r \notin DOMAIN runs /\ runs' = With(runs, r, run)
      /\ proc' = [proc EXCEPT ![p] = me] /\ UNCHANGED <<sealed, ledger>>
  BY DEF StartRun, Goto
<1>2. DOMAIN runs' = DOMAIN runs \cup {r} /\ runs'[r] = run
      /\ \A x \in DOMAIN runs : runs'[x] = runs[x]
  BY <1>1 DEF With
<1>3. RunSound(run, ledger, r)
  BY DEF RunSound, IsRun, IsSequence
<1>4. DOMAIN runs' \subseteq RunIds /\ \A x \in DOMAIN runs' : RunSound(runs[x], ledger, x)'
  BY <1>1, <1>2, <1>3 DEF MemoryInv
<1>5. AttemptsKept(runs, runs') /\ SealedKept(sealed, sealed')
  BY <1>1, <1>2 DEF AttemptsKept, SealedKept
<1>6. \A i \in DOMAIN ledger : OccurrenceSound(ledger[i].of, runs', sealed')
  BY <1>5, OccurrencesKept DEF MemoryInv
<1>7. \A q \in Procs \ {p} : Runs(proc[q]) => proc[q].run \in DOMAIN runs
  BY DEF MemoryInv, ProcessSound
<1>8. "at" \in DOMAIN me /\ me.at = "produce" /\ Runs(me) /\ me.run = r
  BY DEF Runs
<1>9. ProcessSound(me, runs', sealed', ledger')
  BY <1>2, <1>8 DEF ProcessSound, AgentSound
<1>10. /\ (proc = [q \in Procs |-> proc[q]])'
       /\ \A q \in Procs : ProcessSound(proc[q], runs, sealed, ledger)'
       /\ OneOwner'
  <2> HIDE DEF me, run
  <2> QED BY <1>1, <1>2, <1>5, <1>7, <1>8, <1>9, ProcessesKept
<1> QED BY <1>1, <1>4, <1>6, <1>10 DEF MemoryInv

-----------------------------------------------------------------------------
(* A benchmark run, and the ledger.                                        *)

(* A step of p that leaves runs and ledger alone. *)
LEMMA OnlySealed ==
    ASSUME MemoryInv, NEW p \in Procs, NEW me, proc' = [proc EXCEPT ![p] = me],
           Runs(me) => Runs(proc[p]) /\ me.run = proc[p].run,
           sealed' \in [ToSet(Cases) -> Candidates \cup {Absent}], SealedKept(sealed, sealed'),
           ProcessSound(me, runs, sealed', ledger), UNCHANGED <<runs, ledger>>
    PROVE  MemoryInv'
<1>1. AttemptsKept(runs, runs')
  BY DEF AttemptsKept
<1>2. \A i \in DOMAIN ledger : OccurrenceSound(ledger[i].of, runs', sealed')
  BY <1>1, OccurrencesKept DEF MemoryInv
<1>3. \A q \in Procs \ {p} : Runs(proc[q]) =>
        proc[q].run \in DOMAIN runs /\ (Runs(me) => proc[q].run # me.run)
  BY DEF MemoryInv, ProcessSound, OneOwner
<1>4. /\ (proc = [q \in Procs |-> proc[q]])'
      /\ \A q \in Procs : ProcessSound(proc[q], runs, sealed, ledger)'
      /\ OneOwner'
  BY <1>3, ProcessesKept
<1>5. /\ DOMAIN runs' \subseteq RunIds /\ IsSequence(ledger')
      /\ \A r \in DOMAIN runs' : RunSound(runs[r], ledger, r)'
  BY DEF MemoryInv
<1> QED BY <1>2, <1>4, <1>5 DEF MemoryInv

LEMMA KillSound ==
    ASSUME MemoryInv, NEW p \in Procs, Kill(p) PROVE MemoryInv'
<1>1. ProcessSound(Idle, runs, sealed, ledger) /\ ~Runs(Idle)
  BY DEF ProcessSound, BenchmarkSound, Idle, Runs
<1>2. proc' = [proc EXCEPT ![p] = Idle] /\ UNCHANGED <<runs, sealed, ledger>>
  BY DEF Kill, Goto
<1>3. sealed' \in [ToSet(Cases) -> Candidates \cup {Absent}] /\ SealedKept(sealed, sealed')
  BY <1>2 DEF MemoryInv, SealedKept
<1> QED BY <1>1, <1>2, <1>3, OnlySealed
LEMMA NextCaseSound ==
    ASSUME NEW rest \in Seq(ToSet(Cases)), NEW observed, NEW u, NEW s, NEW l
    PROVE  ~Runs(NextCase(rest, observed)) /\ ProcessSound(NextCase(rest, observed), u, s, l)
<1>1. CASE rest = <<>>
  BY <1>1 DEF NextCase, Idle, Runs, ProcessSound, BenchmarkSound
<1>2. CASE rest # <<>>
  BY <1>2 DEF NextCase, Runs, ProcessSound, BenchmarkSound
<1> QED BY <1>1, <1>2

LEMMA StartBenchmarkSound ==
    ASSUME MemoryInv, NEW p \in Procs, StartBenchmark(p) PROVE MemoryInv'
<1>1. proc' = [proc EXCEPT ![p] = NextCase(Cases, today)] /\ UNCHANGED <<runs, sealed, ledger>>
  BY DEF StartBenchmark, Goto
<1>2. sealed' \in [ToSet(Cases) -> Candidates \cup {Absent}] /\ SealedKept(sealed, sealed')
  BY <1>1 DEF MemoryInv, SealedKept
<1>3. ~Runs(NextCase(Cases, today)) /\ ProcessSound(NextCase(Cases, today), runs, sealed', ledger)
  BY NextCaseSound, AgentAssumption
<1> QED BY <1>1, <1>2, <1>3, OnlySealed

LEMMA SealOrConfirmSound ==
    ASSUME MemoryInv, NEW p \in Procs, SealOrConfirm(p) PROVE MemoryInv'
<1> DEFINE me == proc[p]
           c == Head(me.rest)
           record == Held(me, "read", "cand", CaseFile[c])
           next == NextCase(Tail(me.rest), me.observed)
<1>1. me.at = "case" /\ UNCHANGED <<runs, ledger>>
  BY DEF SealOrConfirm, At
<1>2. /\ ~Runs(me) /\ {"at", "rest"} \subseteq DOMAIN me
      /\ me.rest \in Seq(ToSet(Cases)) /\ me.rest # <<>>
  BY <1>1 DEF MemoryInv, ProcessSound, AgentSound, BenchmarkSound
<1>3. c \in ToSet(Cases) /\ Tail(me.rest) \in Seq(ToSet(Cases))
  BY <1>2, TailIsSequence
<1>4. CaseFile[c] \in Candidates /\ CaseFile[c] # Absent
  BY <1>3, AgentAssumption
<1>5. /\ sealed' \in [ToSet(Cases) -> Candidates \cup {Absent}]
      /\ SealedKept(sealed, sealed')
  BY <1>3, <1>4 DEF SealOrConfirm, MemoryInv, SealedKept
<1>6. CASE proc' = [proc EXCEPT ![p] = next]
  <2>1. ~Runs(next) /\ ProcessSound(next, runs, sealed', ledger)
    BY <1>3, NextCaseSound
  <2> HIDE DEF next
  <2> QED BY <1>1, <1>5, <1>6, <2>1, OnlySealed
<1>7. CASE proc' = [proc EXCEPT ![p] = record] /\ sealed'[c] = CaseFile[c]
  <2>1. /\ DOMAIN record = DOMAIN me \cup {"cand"}
        /\ record.at = "read" /\ record.cand = CaseFile[c]
        /\ Runs(record) <=> Runs(me)
        /\ \A f \in DOMAIN me : f # "at" /\ f # "cand" => record[f] = me[f]
    BY <1>2 DEF Held, With, Runs
  <2>3. record.rest = me.rest
    BY <1>2, <2>1
  <2>2. ~Runs(record) /\ ProcessSound(record, runs, sealed', ledger)
    <3> HIDE DEF record
    <3> QED BY <1>2, <1>4, <1>7, <2>1, <2>3 DEF ProcessSound, BenchmarkSound
  <2> HIDE DEF record
  <2> QED BY <1>1, <1>5, <1>7, <2>2, OnlySealed
<1>8. \/ proc' = [proc EXCEPT ![p] = next]
      \/ proc' = [proc EXCEPT ![p] = record] /\ sealed'[c] = CaseFile[c]
  <2>1. c \in DOMAIN sealed
    BY <1>3 DEF MemoryInv
  <2> QED BY <2>1 DEF SealOrConfirm, Goto
<1> QED BY <1>6, <1>7, <1>8

LEMMA ReadLedgerSound ==
    ASSUME MemoryInv, NEW p \in Procs, ReadLedger(p) PROVE MemoryInv'
<1> DEFINE me == proc[p]
           you == Held(me, "append", "entries", ledger)
<1>1. me.at = "read" /\ proc' = [proc EXCEPT ![p] = you] /\ UNCHANGED <<runs, sealed, ledger>>
  BY DEF ReadLedger, At, Goto
<1>2. sealed' \in [ToSet(Cases) -> Candidates \cup {Absent}] /\ SealedKept(sealed, sealed')
  BY <1>1 DEF MemoryInv, SealedKept
<1>3. ProcessSound(me, runs, sealed, ledger)
  BY DEF MemoryInv
<1>4. /\ "at" \in DOMAIN you /\ you.at = "append"
      /\ Runs(you) <=> Runs(me)
      /\ \A f \in DOMAIN me : f # "at" /\ f # "entries" => you[f] = me[f]
  BY <1>3 DEF Held, With, Runs, ProcessSound
<1>5. CASE Runs(me)
  <2>1. Runs(you) /\ you.run = me.run
    BY <1>4, <1>5 DEF Runs
  <2>2. ProcessSound(you, runs, sealed', ledger)
    <3> HIDE DEF you
    <3> QED BY <1>1, <1>3, <1>4, <2>1 DEF ProcessSound, AgentSound
  <2> HIDE DEF you
  <2> QED BY <1>1, <1>2, <1>5, <2>1, <2>2, OnlySealed
<1>6. CASE ~Runs(me)
  <2>1. {"rest", "cand"} \subseteq DOMAIN me
    BY <1>1, <1>3, <1>6 DEF ProcessSound, BenchmarkSound
  <2>2. /\ {"rest", "cand"} \subseteq DOMAIN you
        /\ you.rest = me.rest /\ you.cand = me.cand
    BY <1>4, <2>1 DEF Held, With
  <2>3. ~Runs(you) /\ ProcessSound(you, runs, sealed', ledger)
    <3> HIDE DEF you
    <3> QED BY <1>1, <1>3, <1>4, <1>6, <2>2 DEF ProcessSound, BenchmarkSound
  <2> HIDE DEF you
  <2> QED BY <1>1, <1>2, <2>3, OnlySealed
<1> QED BY <1>5, <1>6

(* The occurrence a process is about to record is about an artifact. *)
LEMMA OccurrenceIsSound ==
    ASSUME MemoryInv, NEW p \in Procs, proc[p].at = "append"
    PROVE  /\ OccurrenceSound(Occurrence(p), runs, sealed)
           /\ Runs(proc[p]) => /\ Occurrence(p).run = proc[p].run
                               /\ Occurrence(p).item = Len(runs[proc[p].run].attempts)
<1> DEFINE me == proc[p]
           r == me.run
           o == Occurrence(p)
<1>1. CASE Runs(me)
  <2>1. /\ o.run = r /\ o.item = Len(runs[r].attempts)
        /\ o.family = FamilyOf(Current(r).cand)
    BY <1>1 DEF Occurrence, IsAgent, Runs
  <2>2. /\ r \in DOMAIN runs /\ r # "benchmark"
        /\ Len(runs[r].attempts) \in DOMAIN runs[r].attempts /\ Current(r).artifact # Absent
    BY <1>1, OwnRun, OwnAttempt, AgentAssumption DEF AgentSound, Current
  <2>3. OccurrenceSound(o, runs, sealed)
    <3> HIDE DEF o
    <3> QED BY <2>1, <2>2 DEF OccurrenceSound, Current
  <2> QED BY <2>1, <2>3
<1>2. CASE ~Runs(me)
  <2>1. /\ o.run = "benchmark" /\ o.item = Head(me.rest)
        /\ o.family = FamilyOf(me.cand)
    BY <1>2 DEF Occurrence, IsAgent, Runs
  <2>2. /\ me.rest \in Seq(ToSet(Cases)) /\ me.rest # <<>>
        /\ me.cand \in Candidates /\ sealed[Head(me.rest)] = me.cand
    BY <1>2 DEF MemoryInv, ProcessSound, BenchmarkSound
  <2>3. Head(me.rest) \in ToSet(Cases) /\ me.cand # Absent
    BY <2>2, TailIsSequence, AgentAssumption
  <2>4. OccurrenceSound(o, runs, sealed)
    <3> HIDE DEF o
    <3> QED BY <2>1, <2>2, <2>3 DEF OccurrenceSound
  <2> QED BY <1>2, <2>4
<1> QED BY <1>1, <1>2

LEMMA AppendEntrySound ==
    ASSUME MemoryInv, NEW p \in Procs, AppendEntry(p) PROVE MemoryInv'
<1> DEFINE me == proc[p]
           r == me.run
           e == AppendOccurrence(me.entries, Occurrence(p))
           you == IF IsAgent(p) THEN [at |-> "decide", run |-> r]
                  ELSE NextCase(Tail(me.rest), me.observed)
<1>1. /\ me.at = "append" /\ ledger' = Append(ledger, e) /\ proc' = [proc EXCEPT ![p] = you]
      /\ UNCHANGED <<runs, sealed>>
  BY DEF AppendEntry, At, Goto
<1>2. e.of = Occurrence(p)
  BY DEF AppendOccurrence
<1> HIDE DEF e
<1>3. /\ IsSequence(ledger') /\ Len(ledger) \in Nat
      /\ DOMAIN ledger = 1 .. Len(ledger) /\ DOMAIN ledger' = 1 .. Len(ledger) + 1
      /\ \A i \in 1 .. Len(ledger) : ledger'[i] = ledger[i]
      /\ ledger'[Len(ledger) + 1] = e
  BY <1>1, AppendIsSequence DEF MemoryInv
<1>4. \A i \in DOMAIN ledger' : OccurrenceSound(ledger'[i].of, runs', sealed')
  BY <1>1, <1>2, <1>3, OccurrenceIsSound DEF MemoryInv
<1>5. \A x, a : Recorded(ledger, x, a) => Recorded(ledger', x, a)
  BY <1>3 DEF Recorded
<1>6. \A x \in DOMAIN runs' : RunSound(runs[x], ledger, x)'
  BY <1>1, <1>5 DEF MemoryInv, RunSound, AttemptSound
<1>7. /\ Runs(you) => Runs(me) /\ you.run = r
      /\ ProcessSound(you, runs', sealed', ledger')
  <2>1. CASE Runs(me)
    <3>1. you = [at |-> "decide", run |-> r]
      BY <2>1 DEF Runs, IsAgent
    <3>2. "at" \in DOMAIN you /\ Runs(you) /\ you.at = "decide" /\ you.run = r
      BY <3>1 DEF Runs
    <3>3. Recorded(ledger', r, Len(runs[r].attempts))
      BY <1>1, <1>2, <1>3, <2>1, OccurrenceIsSound DEF Recorded
    <3>4. /\ r \in DOMAIN runs /\ Len(runs[r].attempts) > 0
          /\ runs[r].attempts[Len(runs[r].attempts)].artifact # Absent
      BY <1>1, <2>1, OwnRun DEF AgentSound
    <3> HIDE DEF you
    <3> QED BY <1>1, <2>1, <3>2, <3>3, <3>4 DEF ProcessSound, AgentSound
  <2>2. CASE ~Runs(me)
    <3>1. you = NextCase(Tail(me.rest), me.observed)
      BY <2>2 DEF Runs, IsAgent
    <3>2. Tail(me.rest) \in Seq(ToSet(Cases))
      BY <1>1, <2>2, TailIsSequence DEF MemoryInv, ProcessSound, BenchmarkSound
    <3> HIDE DEF you
    <3> QED BY <3>1, <3>2, NextCaseSound
  <2> QED BY <2>1, <2>2
<1>8. \A q \in Procs \ {p} : Runs(proc[q]) =>
        proc[q].run \in DOMAIN runs /\ (Runs(you) => proc[q].run # you.run)
  BY <1>7 DEF MemoryInv, ProcessSound, OneOwner
<1>9. SealedKept(sealed, sealed')
  BY <1>1 DEF SealedKept
<1>10. /\ (proc = [q \in Procs |-> proc[q]])'
       /\ \A q \in Procs : ProcessSound(proc[q], runs, sealed, ledger)'
       /\ OneOwner'
  <2> HIDE DEF you
  <2> QED BY <1>1, <1>5, <1>7, <1>8, <1>9, ProcessesKept
<1> QED BY <1>1, <1>3, <1>4, <1>6, <1>10 DEF MemoryInv

-----------------------------------------------------------------------------
(* The theorems.                                                           *)

(* MemoryInv holds throughout, whatever runs overlap and wherever they are *)
(* killed (agent.py, run_benchmark.py, ledger.py).                         *)
THEOREM MemoryInvariant == Spec => []MemoryInv
<1>1. Init => MemoryInv
  <2> SUFFICES ASSUME Init PROVE MemoryInv
    OBVIOUS
  <2>1. DOMAIN runs = {} /\ ledger = <<>> /\ proc = [p \in Procs |-> Idle]
    BY DEF Init
  <2>2. IsSequence(ledger) /\ DOMAIN ledger = {}
    BY <2>1 DEF IsSequence
  <2>3. \A p \in Procs : ~Runs(proc[p]) /\ ProcessSound(proc[p], runs, sealed, ledger)
    BY <2>1 DEF ProcessSound, BenchmarkSound, Idle, Runs
  <2> QED BY <2>1, <2>2, <2>3 DEF Init, MemoryInv, OneOwner
<1>2. MemoryInv /\ [Next]_vars => MemoryInv'
  <2> SUFFICES ASSUME MemoryInv, [Next]_vars PROVE MemoryInv'
    OBVIOUS
  <2>1. CASE UNCHANGED vars \/ NextPeriod
    <3>1. UNCHANGED <<runs, sealed, ledger, proc>>
      BY <2>1 DEF NextPeriod, vars
    <3> QED BY <3>1 DEF MemoryInv, OneOwner
  <2>2. CASE \E p \in Procs, r \in RunIds, m \in Models : StartRun(p, r, m)
    BY <2>2, StartRunSound
  <2>3. CASE \E p \in Procs, cand \in Candidates : Produce(p, cand)
    BY <2>3, ProduceSound
  <2>4. ASSUME NEW p \in Procs,
               \/ WritePass(p) \/ SealFailure(p) \/ Decide(p) \/ WriteSummary(p)
               \/ StartBenchmark(p) \/ SealOrConfirm(p)
               \/ ReadLedger(p) \/ AppendEntry(p) \/ Kill(p)
        PROVE  MemoryInv'
    BY <2>4, WritePassSound, SealFailureSound, DecideSound, WriteSummarySound,
       StartBenchmarkSound, SealOrConfirmSound, ReadLedgerSound, AppendEntrySound, KillSound
  <2> QED BY <2>1, <2>2, <2>3, <2>4 DEF Next
<1> QED BY <1>1, <1>2, PTL DEF Spec

(* A failure on record has its artifact and its occurrence, and each       *)
(* occurrence an artifact of its family (agent.py: seal, append, and only  *)
(* then the verdict).                                                      *)
THEOREM FailuresAlwaysRemembered == Spec => []FailuresRemembered
<1>1. MemoryInv => FailuresRemembered
  <2> SUFFICES ASSUME MemoryInv PROVE FailuresRemembered
    OBVIOUS
  <2>1. ASSUME NEW r \in DOMAIN runs, NEW a \in DOMAIN runs[r].attempts,
               runs[r].attempts[a].verdict = "FAIL"
        PROVE  Remembered(r, a)
    BY <2>1 DEF MemoryInv, RunSound, AttemptSound, Recorded, Remembered
  <2>2. ASSUME NEW i \in DOMAIN ledger
        PROVE  HasArtifact(ledger[i].of) /\ ArtifactFamily(ledger[i].of) = ledger[i].of.family
    <3> DEFINE o == ledger[i].of
    <3>1. OccurrenceSound(o, runs, sealed)
      BY DEF MemoryInv
    <3>2. CASE o.run = "benchmark"
      BY <3>1, <3>2 DEF OccurrenceSound, HasArtifact, ArtifactFamily
    <3>3. CASE o.run # "benchmark"
      <4> DEFINE x == runs[o.run].attempts[o.item]
      <4>1. /\ o.run \in DOMAIN runs /\ o.item \in DOMAIN runs[o.run].attempts
            /\ x.artifact # Absent /\ o.family = FamilyOf(x.cand)
        BY <3>1, <3>3 DEF OccurrenceSound
      <4>2. AttemptSound(x, ledger, o.run, o.item)
        BY <4>1 DEF MemoryInv, RunSound
      <4>3. x.artifact.family = FamilyOf(x.cand)
        BY <4>1, <4>2 DEF AttemptSound, Artifact
      <4> QED BY <3>3, <4>1, <4>3 DEF HasArtifact, ArtifactFamily
    <3> QED BY <3>2, <3>3
  <2> QED BY <2>1, <2>2 DEF FailuresRemembered
<1> QED BY <1>1, MemoryInvariant, PTL
-----------------------------------------------------------------------------
(* The chain.  A process that has read the ledger holds a prefix of it,    *)
(* since nothing is ever removed; so what it appends is chained to an      *)
(* entry that stands before it, perhaps not the last.                      *)

LinkSound(l, i) ==
    /\ l[i].seq \in 0 .. i - 1
    /\ l[i].prev = IF l[i].seq = 0 THEN Genesis ELSE l[l[i].seq]

PrefixRead(me, l) ==
    me.at = "append" =>
        /\ "entries" \in DOMAIN me /\ IsSequence(me.entries) /\ Len(me.entries) <= Len(l)
        /\ \A i \in DOMAIN me.entries : me.entries[i] = l[i]

ChainInv ==
    /\ \A i \in DOMAIN ledger : LinkSound(ledger, i)
    /\ \A p \in Procs : PrefixRead(proc[p], ledger)

LEMMA LeastNumber ==
    ASSUME NEW S, S \subseteq Nat, S # {}
    PROVE  \E n \in S : \A m \in S : n <= m
<1>1. \E n \in S : \A m \in S : ~(<<m, n>> \in OpToRel(<, Nat))
  <2> DEFINE R == OpToRel(<, Nat)
  <2>1. IsWellFoundedOn(R, Nat)
    BY NatLessThanWellFounded
  <2> HIDE DEF R
  <2>2. \E n \in S : \A m \in S : ~(<<m, n>> \in R)
    BY <2>1, WFMin
  <2> QED BY <2>2 DEF R
<1>2. PICK n \in S : \A m \in S : ~(m < n)
  BY <1>1 DEF OpToRel
<1> QED BY <1>2

\* Every step appends at most one entry, made by a process that is to append.
LEMMA LedgerStep ==
    ASSUME [Next]_vars
    PROVE  \/ ledger' = ledger
           \/ \E p \in Procs : AppendEntry(p)
<1>1. CASE Next
  BY <1>1 DEF Next, StartRun, Produce, WritePass, SealFailure, Decide, WriteSummary,
     StartBenchmark, SealOrConfirm, ReadLedger, Kill, NextPeriod
<1>2. CASE UNCHANGED vars
  BY <1>2 DEF vars
<1> QED BY <1>1, <1>2

\* A process that is to append has just read the ledger, or was there before.
LEMMA ProcessStep ==
    ASSUME MemoryInv, [Next]_vars, NEW p \in Procs
    PROVE  \/ proc'[p] = proc[p]
           \/ proc'[p].at # "append"
           \/ proc'[p] = Held(proc[p], "append", "entries", ledger) /\ ledger' = ledger
<1> DEFINE Done(q) == proc'[q].at # "append"
<1>1. proc = [q \in Procs |-> proc[q]] /\ "at" \in DOMAIN proc[p]
  BY DEF MemoryInv, ProcessSound
<1>2. ASSUME NEW q \in Procs, NEW step, Goto(q, step), step.at # "append"
      PROVE  proc'[p] = proc[p] \/ Done(p)
  BY <1>1, <1>2 DEF Goto
<1>3. ASSUME NEW q \in Procs, NEW label, Continue(q, label), label # "append"
      PROVE  proc'[p] = proc[p] \/ Done(p)
  <2>1. "at" \in DOMAIN proc[q]
    BY DEF MemoryInv, ProcessSound
  <2>2. [proc[q] EXCEPT !.at = label].at # "append"
    BY <1>3, <2>1
  <2> QED BY <1>2, <1>3, <2>2 DEF Continue
<1>4. \A rest, observed : NextCase(rest, observed).at # "append"
  BY DEF NextCase, Idle
<1>5. Idle.at # "append"
  BY DEF Idle
<1>6. CASE UNCHANGED vars \/ NextPeriod
  BY <1>6 DEF vars, NextPeriod
<1>7. ASSUME NEW q \in Procs, NEW r \in RunIds, NEW m \in Models, StartRun(q, r, m)
      PROVE  proc'[p] = proc[p] \/ Done(p)
  BY <1>2, <1>7 DEF StartRun
<1>8. ASSUME NEW q \in Procs, NEW cand \in Candidates, Produce(q, cand)
      PROVE  proc'[p] = proc[p] \/ Done(p)
  <2>1. Continue(q, "pass") \/ Goto(q, Idle)
        \/ Goto(q, [at |-> "seal", run |-> proc[q].run, observed |-> today])
    BY <1>8 DEF Produce
  <2> QED BY <1>2, <1>3, <1>5, <2>1
<1>9. ASSUME NEW q \in Procs, WritePass(q) \/ SealFailure(q)
      PROVE  proc'[p] = proc[p] \/ Done(p)
  <2>1. Continue(q, "summary") \/ Continue(q, "read")
    BY <1>9 DEF WritePass, SealFailure
  <2> QED BY <1>3, <2>1
<1>10. ASSUME NEW q \in Procs, Decide(q) \/ WriteSummary(q) \/ Kill(q)
       PROVE  proc'[p] = proc[p] \/ Done(p)
  <2>1. \/ \E label \in {"produce", "summary"} : Goto(q, [at |-> label, run |-> proc[q].run])
        \/ Goto(q, Idle)
    BY <1>10 DEF Decide, WriteSummary, Kill
  <2> QED BY <1>2, <1>5, <2>1
<1>11. ASSUME NEW q \in Procs, StartBenchmark(q)
       PROVE  proc'[p] = proc[p] \/ Done(p)
  BY <1>2, <1>4, <1>11 DEF StartBenchmark
<1>12. ASSUME NEW q \in Procs, SealOrConfirm(q)
       PROVE  proc'[p] = proc[p] \/ Done(p)
  <2> DEFINE record == Held(proc[q], "read", "cand", CaseFile[Head(proc[q].rest)])
  <2>1. Goto(q, record) \/ \E rest, observed : Goto(q, NextCase(rest, observed))
    BY <1>12 DEF SealOrConfirm
  <2>2. record.at # "append"
    <3>1. "at" \in DOMAIN proc[q]
      BY DEF MemoryInv, ProcessSound
    <3> QED BY <3>1 DEF Held, With
  <2> HIDE DEF record
  <2> QED BY <1>2, <1>4, <2>1, <2>2
<1>13. ASSUME NEW q \in Procs, ReadLedger(q)
       PROVE  proc'[p] = proc[p] \/ (proc'[p] = Held(proc[p], "append", "entries", ledger) /\ ledger' = ledger)
  BY <1>1, <1>13 DEF ReadLedger, Goto
<1>14. ASSUME NEW q \in Procs, AppendEntry(q)
       PROVE  proc'[p] = proc[p] \/ Done(p)
  <2>1. Goto(q, [at |-> "decide", run |-> proc[q].run])
        \/ Goto(q, NextCase(Tail(proc[q].rest), proc[q].observed))
    BY <1>14 DEF AppendEntry
  <2> QED BY <1>2, <1>4, <2>1
<1> QED BY <1>6, <1>7, <1>8, <1>9, <1>10, <1>11, <1>12, <1>13, <1>14 DEF Next

\* The entry made from a prefix is chained to the end of that prefix.
LEMMA AppendedLink ==
    ASSUME NEW l, IsSequence(l), NEW s, IsSequence(s), Len(s) <= Len(l),
           \A i \in DOMAIN s : s[i] = l[i], NEW o,
           \A i \in DOMAIN l : LinkSound(l, i)
    PROVE  LET m == Append(l, AppendOccurrence(s, o))
           IN  \A i \in DOMAIN m : LinkSound(m, i)
<1> DEFINE e == AppendOccurrence(s, o)
           m == Append(l, e)
<1>1. /\ Len(l) \in Nat /\ DOMAIN l = 1 .. Len(l) /\ DOMAIN m = 1 .. Len(l) + 1
      /\ \A i \in 1 .. Len(l) : m[i] = l[i]
      /\ m[Len(l) + 1] = e
  BY AppendIsSequence
<1>2. Len(s) \in Nat /\ DOMAIN s = 1 .. Len(s)
  BY SequenceFacts
<1>3. /\ e.seq = Len(s)
      /\ e.prev = IF Len(s) = 0 THEN Genesis ELSE l[Len(s)]
  <2>1. s = <<>> <=> Len(s) = 0
    BY DEF IsSequence
  <2> QED BY <1>2, <2>1 DEF AppendOccurrence, Last
<1> HIDE DEF e, m
<1>4. ASSUME NEW i \in 1 .. Len(l) PROVE LinkSound(m, i)
  <2>1. LinkSound(l, i) /\ m[i] = l[i]
    BY <1>1
  <2>2. l[i].seq \in 0 .. i - 1
    BY <2>1 DEF LinkSound
  <2>3. l[i].seq # 0 => m[l[i].seq] = l[l[i].seq]
    BY <1>1, <2>2
  <2> QED BY <2>1, <2>3 DEF LinkSound
<1>5. LinkSound(m, Len(l) + 1)
  <2>1. Len(s) # 0 => m[Len(s)] = l[Len(s)]
    BY <1>1, <1>2
  <2> QED BY <1>1, <1>2, <1>3, <2>1 DEF LinkSound
<1>6. \A i \in DOMAIN m : LinkSound(m, i)
  BY <1>1, <1>4, <1>5
<1> QED BY <1>6 DEF m, e

(* Entries are chained to entries before them, whatever writers overlap    *)
(* (ledger.py reads, then appends, and takes no lock).                     *)
THEOREM ChainInvariant == Spec => []ChainInv
<1>1. Init => ChainInv
  BY DEF Init, ChainInv, PrefixRead, Idle
<1>2. MemoryInv /\ ChainInv /\ [Next]_vars => ChainInv'
  <2> SUFFICES ASSUME MemoryInv, ChainInv, [Next]_vars PROVE ChainInv'
    OBVIOUS
  <2>1. IsSequence(ledger) /\ Len(ledger) \in Nat /\ DOMAIN ledger = 1 .. Len(ledger)
    BY SequenceFacts DEF MemoryInv
  <2>2. /\ \A i \in DOMAIN ledger' : LinkSound(ledger', i)
        /\ Len(ledger') \in Nat /\ Len(ledger) <= Len(ledger')
        /\ \A i \in DOMAIN ledger : ledger'[i] = ledger[i]
    <3>1. CASE ledger' = ledger
      BY <2>1, <3>1 DEF ChainInv
    <3>2. ASSUME NEW p \in Procs, AppendEntry(p)
          PROVE  /\ \A i \in DOMAIN ledger' : LinkSound(ledger', i)
                 /\ Len(ledger') \in Nat /\ Len(ledger) <= Len(ledger')
                 /\ \A i \in DOMAIN ledger : ledger'[i] = ledger[i]
      <4> DEFINE s == proc[p].entries
      <4>1. proc[p].at = "append" /\ ledger' = Append(ledger, AppendOccurrence(s, Occurrence(p)))
        BY <3>2 DEF AppendEntry, At
      <4>2. /\ IsSequence(s) /\ Len(s) <= Len(ledger)
            /\ \A i \in DOMAIN s : s[i] = ledger[i]
        BY <4>1 DEF ChainInv, PrefixRead
      <4>3. \A i \in DOMAIN ledger' : LinkSound(ledger', i)
        BY <2>1, <4>1, <4>2, AppendedLink DEF ChainInv
      <4>4. Len(ledger') = Len(ledger) + 1 /\ \A i \in DOMAIN ledger : ledger'[i] = ledger[i]
        BY <2>1, <4>1, AppendIsSequence
      <4> QED BY <2>1, <4>3, <4>4
    <3> QED BY <3>1, <3>2, LedgerStep
  <2>3. ASSUME NEW p \in Procs PROVE PrefixRead(proc[p], ledger)'
    <3>1. CASE proc'[p] = proc[p]
      <4> SUFFICES ASSUME proc[p].at = "append" PROVE PrefixRead(proc[p], ledger')
        BY <3>1 DEF PrefixRead
      <4> DEFINE s == proc[p].entries
      <4>1. /\ "entries" \in DOMAIN proc[p] /\ IsSequence(s) /\ Len(s) <= Len(ledger)
            /\ \A i \in DOMAIN s : s[i] = ledger[i]
        BY DEF ChainInv, PrefixRead
      <4>2. Len(s) \in Nat /\ DOMAIN s = 1 .. Len(s)
        BY <4>1, SequenceFacts
      <4>3. Len(s) <= Len(ledger') /\ \A i \in DOMAIN s : s[i] = ledger'[i]
        BY <2>1, <2>2, <4>1, <4>2
      <4> QED BY <4>1, <4>3 DEF PrefixRead
    <3>2. CASE proc'[p].at # "append"
      BY <3>2 DEF PrefixRead
    <3>3. CASE proc'[p] = Held(proc[p], "append", "entries", ledger) /\ ledger' = ledger
      <4> DEFINE you == Held(proc[p], "append", "entries", ledger)
      <4>1. "entries" \in DOMAIN you /\ you.entries = ledger
        BY DEF Held, With
      <4> HIDE DEF you
      <4>2. PrefixRead(you, ledger)
        BY <2>1, <4>1 DEF PrefixRead
      <4> QED BY <3>3, <4>2 DEF you
    <3> QED BY <3>1, <3>2, <3>3, ProcessStep
  <2> QED BY <2>2, <2>3 DEF ChainInv
<1> QED BY <1>1, <1>2, MemoryInvariant, PTL DEF Spec
\* Entries of different positions, each chained to one before it: the least
\* that is not at its position would share its number with an earlier one.
LEMMA DistinctIsInPlace ==
    ASSUME NEW l, IsSequence(l), \A i \in DOMAIN l : LinkSound(l, i),
           \A i, j \in DOMAIN l : i # j => l[i].seq # l[j].seq
    PROVE  \A i \in DOMAIN l : l[i].seq = i - 1
<1> DEFINE Misplaced == {i \in DOMAIN l : l[i].seq # i - 1}
<1>1. DOMAIN l = 1 .. Len(l) /\ Len(l) \in Nat
  BY SequenceFacts
<1>2. SUFFICES ASSUME Misplaced # {} PROVE FALSE
  OBVIOUS
<1>3. Misplaced \subseteq Nat
  BY <1>1
<1>4. PICK n \in Misplaced : \A m \in Misplaced : n <= m
  <2> HIDE DEF Misplaced
  <2> QED BY <1>2, <1>3, LeastNumber
<1>5. l[n].seq \in 0 .. n - 1 /\ l[n].seq # n - 1 /\ n \in 1 .. Len(l)
  BY <1>1, <1>4 DEF LinkSound
<1> DEFINE j == l[n].seq + 1
<1>6. j \in 1 .. Len(l) /\ j < n
  BY <1>1, <1>5
<1>7. l[j].seq = j - 1
  <2>1. j \notin Misplaced
    BY <1>1, <1>3, <1>4, <1>6
  <2> QED BY <1>1, <1>6, <2>1
<1>8. l[j].seq = l[n].seq
  BY <1>5, <1>7
<1> HIDE DEF j
<1> QED BY <1>1, <1>5, <1>6, <1>8

(* The chain of the ledger verifies exactly when no two writers took the   *)
(* same position, an entry always continues one before it, and a removal   *)
(* before the end or an exchange of neighbours is found (ledger.py,        *)
(* replay.py).                                                             *)
THEOREM ForksAlwaysFound == Spec => []ChainFindsForks
<1>1. MemoryInv /\ ChainInv => ChainFindsForks
  <2> SUFFICES ASSUME MemoryInv, ChainInv PROVE ChainFindsForks
    OBVIOUS
  <2> DEFINE n == Len(ledger)
  <2>1. IsSequence(ledger) /\ n \in Nat /\ DOMAIN ledger = 1 .. n
    BY SequenceFacts DEF MemoryInv
  <2>2. \A i \in DOMAIN ledger : LinkSound(ledger, i)
    BY DEF ChainInv
  <2>3. ASSUME NEW i \in DOMAIN ledger
        PROVE  ledger[i].prev = Genesis \/ \E j \in 1 .. i - 1 : ledger[i].prev = ledger[j]
    BY <2>1, <2>2 DEF LinkSound
  <2>4. ASSUME VerifyChain(ledger)
        PROVE  \A i, j \in DOMAIN ledger : i # j => ledger[i].seq # ledger[j].seq
    BY <2>1, <2>4 DEF VerifyChain
  <2>5. ASSUME \A i, j \in DOMAIN ledger : i # j => ledger[i].seq # ledger[j].seq
        PROVE  VerifyChain(ledger)
    <3>1. \A i \in DOMAIN ledger : ledger[i].seq = i - 1
      BY <2>1, <2>2, <2>5, DistinctIsInPlace
    <3> QED BY <2>1, <2>2, <3>1 DEF VerifyChain, LinkSound
  <2>6. ASSUME VerifyChain(ledger), NEW i \in 1 .. n - 1
        PROVE  ~VerifyChain(RemovedAt(i)) /\ ~VerifyChain(ExchangedAt(i))
    <3>1. ledger[i + 1].seq = i /\ i \in DOMAIN ledger /\ i + 1 \in DOMAIN ledger /\ i # i - 1
      BY <2>1, <2>6 DEF VerifyChain
    <3>2. i \in DOMAIN RemovedAt(i) /\ RemovedAt(i)[i] = ledger[i + 1]
      <4> DEFINE S == {ledger[j] : j \in DOMAIN ledger}
                 s == SubSeq(ledger, 1, i - 1)
                 t == SubSeq(ledger, i + 1, n)
      <4>1. ledger \in Seq(S)
        BY <2>1 DEF IsSequence
      <4>2. s \in Seq(S) /\ Len(s) = i - 1
        BY <2>1, <4>1, SubSeqProperties
      <4>3. t \in Seq(S) /\ Len(t) = n - i /\ t[1] = ledger[i + 1]
        BY <2>1, <4>1, SubSeqProperties
      <4> HIDE DEF s, t, S
      <4>4. i \in DOMAIN (s \o t) /\ (s \o t)[i] = t[1]
        BY <2>1, <4>2, <4>3
      <4> QED BY <4>3, <4>4 DEF RemovedAt, s, t
    <3>3. i \in DOMAIN ExchangedAt(i) /\ ExchangedAt(i)[i] = ledger[i + 1]
      BY <2>1, <3>1 DEF ExchangedAt
    <3> QED BY <3>1, <3>2, <3>3 DEF VerifyChain
  <2> QED BY <2>3, <2>4, <2>5, <2>6 DEF ChainFindsForks
<1> QED BY <1>1, MemoryInvariant, ChainInvariant, PTL

-----------------------------------------------------------------------------
(* Retries.  What the policy counted stays counted, since nothing leaves   *)
(* the ledger.                                                             *)

OccurrencesOf(l, m, f) == {i \in DOMAIN l : l[i].of.model = m /\ l[i].of.family = f}

\* A family with a directive has failed the threshold number of times.
Recurs(l, m) == \E f \in FamilyPriority : Cardinality(OccurrencesOf(l, m, f)) >= 2

RunRetries(run, l) ==
    /\ Len(run.attempts) <= 2
    /\ Len(run.attempts) = 2 => Recurs(l, run.model)

\* A process that is to produce makes the first attempt, or a second one.
ProducerAllowed(me, u, l) ==
    Runs(me) /\ me.at = "produce" =>
        /\ Len(u[me.run].attempts) <= 1
        /\ Len(u[me.run].attempts) = 1 => Recurs(l, u[me.run].model)

RetryInv ==
    /\ \A r \in DOMAIN runs : RunRetries(runs[r], ledger)
    /\ \A p \in Procs : ProducerAllowed(proc[p], runs, ledger)

LEMMA RecursGrows ==
    ASSUME NEW l, IsSequence(l), NEW k, IsSequence(k), Len(l) <= Len(k),
           \A i \in DOMAIN l : k[i] = l[i], NEW m, Recurs(l, m)
    PROVE  Recurs(k, m)
<1>1. PICK f \in FamilyPriority : Cardinality(OccurrencesOf(l, m, f)) >= 2
  BY DEF Recurs
<1> DEFINE S == OccurrencesOf(l, m, f)
           T == OccurrencesOf(k, m, f)
<1>2. /\ DOMAIN l = 1 .. Len(l) /\ DOMAIN k = 1 .. Len(k)
      /\ Len(l) \in Nat /\ Len(k) \in Nat
  BY SequenceFacts
<1>3. S \subseteq T /\ T \subseteq 1 .. Len(k)
  BY <1>2 DEF OccurrencesOf
<1>4. IsFiniteSet(T)
  <2>1. IsFiniteSet(1 .. Len(k))
    BY <1>2, FS_Interval
  <2> QED BY <1>3, <2>1, FS_Subset
<1>5. Cardinality(S) \in Nat /\ Cardinality(T) \in Nat /\ Cardinality(S) <= Cardinality(T)
  BY <1>3, <1>4, FS_Subset, FS_CardinalityType
<1>6. Cardinality(T) >= 2
  BY <1>1, <1>5
<1> QED BY <1>6 DEF Recurs

\* A directive means that its family recurs.
LEMMA DirectiveRecurs ==
    ASSUME NEW l, NEW m, NEW attempt, NEW applied,
           DecidePolicy(PolicyProfile(l, m), attempt, applied).directives # {}
    PROVE  Recurs(l, m)
<1> DEFINE profile == PolicyProfile(l, m)
           mine == {i \in DOMAIN l : l[i].of.model = m}
<1>1. PICK f \in FamilyPriority : f \in Recurring(profile)
  BY DEF DecidePolicy
<1>2. f \in DOMAIN profile.families /\ profile.families[f] >= 2
  BY <1>1 DEF Recurring, RecurrenceThreshold
<1>3. profile.families[f] = Cardinality({i \in mine : l[i].of.family = f})
  BY <1>2 DEF PolicyProfile
<1>4. {i \in mine : l[i].of.family = f} = OccurrencesOf(l, m, f)
  BY DEF OccurrencesOf
<1> QED BY <1>2, <1>3, <1>4 DEF Recurs
LEMMA RecursKept ==
    ASSUME MemoryInv, [Next]_vars, NEW m, Recurs(ledger, m) PROVE Recurs(ledger', m)
<1>1. CASE ledger' = ledger
  BY <1>1
<1>2. ASSUME NEW p \in Procs, AppendEntry(p) PROVE Recurs(ledger', m)
  <2>1. PICK e : ledger' = Append(ledger, e)
    BY <1>2 DEF AppendEntry
  <2>2. IsSequence(ledger)
    BY DEF MemoryInv
  <2>3. /\ IsSequence(ledger') /\ Len(ledger) \in Nat /\ Len(ledger) <= Len(ledger')
        /\ \A i \in DOMAIN ledger : ledger'[i] = ledger[i]
    BY <2>1, <2>2, AppendIsSequence
  <2> QED BY <2>2, <2>3, RecursGrows
<1> QED BY <1>1, <1>2, LedgerStep

(* A step of p that, if it changes a run, changes p's own.                 *)
LEMMA RetriesKept ==
    ASSUME MemoryInv, RetryInv, NEW p \in Procs, NEW me, proc' = [proc EXCEPT ![p] = me],
           \A m : Recurs(ledger, m) => Recurs(ledger', m),
           \A r \in DOMAIN runs :
             \/ Runs(proc[p]) /\ r = proc[p].run
             \/ r \in DOMAIN runs' /\ runs'[r] = runs[r],
           \A r \in DOMAIN runs' : r \in DOMAIN runs \/ RunRetries(runs'[r], ledger'),
           Runs(proc[p]) => RunRetries(runs'[proc[p].run], ledger'),
           ProducerAllowed(me, runs', ledger')
    PROVE  RetryInv'
<1>1. ASSUME NEW r \in DOMAIN runs' PROVE RunRetries(runs'[r], ledger')
  BY DEF RetryInv, RunRetries
<1>2. ASSUME NEW q \in Procs PROVE ProducerAllowed(proc'[q], runs', ledger')
  <2>1. CASE q = p
    BY <2>1 DEF MemoryInv
  <2>2. CASE q # p
    <3>1. proc'[q] = proc[q]
      BY <2>2 DEF MemoryInv
    <3>2. Runs(proc[q]) => runs'[proc[q].run] = runs[proc[q].run]
      BY <2>2 DEF MemoryInv, OneOwner, ProcessSound
    <3>3. ProducerAllowed(proc[q], runs, ledger)
      BY DEF RetryInv
    <3> QED BY <3>1, <3>2, <3>3 DEF ProducerAllowed
  <2> QED BY <2>1, <2>2
<1> QED BY <1>1, <1>2 DEF RetryInv

(* A step of p that leaves the runs alone, and after which it produces     *)
(* nothing.                                                                *)
LEMMA RetriesUntouched ==
    ASSUME MemoryInv, RetryInv, [Next]_vars, NEW p \in Procs, NEW me, Goto(p, me),
           me.at # "produce", UNCHANGED runs
    PROVE  RetryInv'
<1>1. Runs(proc[p]) => RunRetries(runs'[proc[p].run], ledger')
  BY RecursKept DEF MemoryInv, ProcessSound, RetryInv, RunRetries
<1>2. ProducerAllowed(me, runs', ledger')
  BY DEF ProducerAllowed
<1> QED BY <1>1, <1>2, RecursKept, RetriesKept DEF Goto

(* A step of p that replaces its current attempt.                          *)
LEMMA RetriesOfCurrent ==
    ASSUME MemoryInv, RetryInv, NEW p \in Procs, NEW me, Goto(p, me), Runs(proc[p]),
           proc[p].at # "produce", NEW x, IsAttempt(x), SetCurrent(proc[p].run, x),
           UNCHANGED ledger,
           Runs(me) => me.run = proc[p].run,
           me.at = "produce" => /\ Len(runs[proc[p].run].attempts) = 1
                                /\ Recurs(ledger, runs[proc[p].run].model)
    PROVE  RetryInv'
<1> DEFINE r == proc[p].run
<1>1. /\ r \in DOMAIN runs /\ IsRun(runs[r]) /\ Len(runs[r].attempts) > 0
  BY OwnRun, OwnAttempt DEF RunSound
<1>2. /\ \A y \in DOMAIN runs \ {r} : y \in DOMAIN runs' /\ runs'[y] = runs[y]
      /\ DOMAIN runs' = DOMAIN runs
      /\ Len(runs'[r].attempts) = Len(runs[r].attempts) /\ runs'[r].model = runs[r].model
  <2> DEFINE s == runs[r].attempts
             t == [s EXCEPT ![Len(s)] = x]
             run == [runs[r] EXCEPT !.attempts = t]
  <2>1. IsSequence(s) /\ Len(s) \in DOMAIN s
    BY <1>1, SequenceFacts DEF IsRun
  <2>2. Len(t) = Len(s)
    BY <2>1, ReplacedIsSequence
  <2>3. run = [model |-> runs[r].model, attempts |-> t, summary |-> runs[r].summary]
    BY <1>1 DEF IsRun
  <2>4. runs' = [runs EXCEPT ![r] = run]
    BY DEF SetCurrent
  <2> HIDE DEF t
  <2>5. run.attempts = t /\ run.model = runs[r].model
    BY <2>3
  <2> HIDE DEF run
  <2> QED BY <1>1, <2>2, <2>4, <2>5
<1>3. RunRetries(runs'[r], ledger')
  BY <1>1, <1>2 DEF RetryInv, RunRetries
<1>4. ProducerAllowed(me, runs', ledger')
  <2> SUFFICES ASSUME Runs(me), me.at = "produce"
               PROVE  /\ Len(runs'[me.run].attempts) <= 1
                      /\ Recurs(ledger', runs'[me.run].model)
    BY DEF ProducerAllowed
  <2>1. me.run = r /\ Len(runs[r].attempts) = 1 /\ Recurs(ledger, runs[r].model)
    OBVIOUS
  <2>2. Len(runs'[me.run].attempts) = 1 /\ runs'[me.run].model = runs[r].model
    BY <1>2, <2>1
  <2>3. ledger' = ledger
    OBVIOUS
  <2> HIDE DEF r
  <2> QED BY <2>1, <2>2, <2>3
<1> QED BY <1>2, <1>3, <1>4, RetriesKept DEF Goto

LEMMA ProduceRetries ==
    ASSUME MemoryInv, RetryInv, NEW p \in Procs, NEW cand \in Candidates, Produce(p, cand)
    PROVE  RetryInv'
<1> DEFINE r == proc[p].run
           s == runs[r].attempts
           t == Append(s, NewAttempt(cand))
           run == [runs[r] EXCEPT !.attempts = t]
<1>1. proc[p].at = "produce" /\ Runs(proc[p]) /\ UNCHANGED ledger
  BY AgentLabels DEF Produce, At
<1>2. r \in DOMAIN runs /\ IsRun(runs[r]) /\ "at" \in DOMAIN proc[p]
  BY <1>1, OwnRun DEF RunSound
<1>3. Len(t) = Len(s) + 1 /\ Len(s) \in Nat
  BY <1>2, AppendIsSequence DEF IsRun
<1>4. run = [model |-> runs[r].model, attempts |-> t, summary |-> runs[r].summary]
  <2>1. PICK x : x = runs[r]
    OBVIOUS
  <2>2. x = [model |-> x.model, attempts |-> x.attempts, summary |-> x.summary]
    BY <1>2, <2>1 DEF IsRun
  <2>3. run = [x EXCEPT !.attempts = t]
    BY <2>1
  <2> HIDE DEF r, s, t, run
  <2>4. run = [model |-> x.model, attempts |-> t, summary |-> x.summary]
    BY <2>2, <2>3
  <2> QED BY <2>1, <2>4
<1>5. /\ DOMAIN runs' = DOMAIN runs /\ runs'[r] = run
      /\ \A y \in DOMAIN runs \ {r} : runs'[y] = runs[y]
  BY <1>2 DEF Produce
<1>6. RunRetries(run, ledger')
  <2>1. Len(s) <= 1 /\ (Len(s) = 1 => Recurs(ledger, runs[r].model))
    BY <1>1 DEF RetryInv, ProducerAllowed
  <2>2. run.attempts = t /\ run.model = runs[r].model
    <3> HIDE DEF t
    <3> QED BY <1>4
  <2> HIDE DEF run, t
  <2>3. Len(run.attempts) <= 2 /\ (Len(run.attempts) = 2 => Len(s) = 1)
    <3>1. Len(run.attempts) = Len(s) + 1
      BY <1>3, <2>2
    <3> DEFINE n == Len(s)
    <3>2. n \in Nat /\ n <= 1 /\ Len(run.attempts) = n + 1
      BY <1>3, <2>1, <3>1
    <3> HIDE DEF n
    <3>3. Len(run.attempts) <= 2 /\ (Len(run.attempts) = 2 => n = 1)
      BY <3>2
    <3> QED BY <3>3 DEF n
  <2>4. ledger' = ledger
    BY <1>1
  <2> HIDE DEF s, r
  <2> QED BY <2>1, <2>2, <2>3, <2>4 DEF RunRetries
<1>7. PICK me : proc' = [proc EXCEPT ![p] = me] /\ me.at # "produce"
  <2>1. CASE Continue(p, "pass")
    <3> DEFINE you == [proc[p] EXCEPT !.at = "pass"]
    <3>1. you.at # "produce"
      BY <1>2
    <3>2. proc' = [proc EXCEPT ![p] = you]
      BY <2>1 DEF Continue, Goto
    <3> HIDE DEF you
    <3> QED BY <3>1, <3>2
  <2>2. CASE Goto(p, [at |-> "seal", run |-> r, observed |-> today])
    <3> DEFINE you == [at |-> "seal", run |-> r, observed |-> today]
    <3>1. you.at # "produce"
      OBVIOUS
    <3>2. proc' = [proc EXCEPT ![p] = you]
      BY <2>2 DEF Goto
    <3> HIDE DEF you
    <3> QED BY <3>1, <3>2
  <2>3. CASE Goto(p, Idle)
    <3>1. Idle.at # "produce"
      BY DEF Idle
    <3> QED BY <2>3, <3>1 DEF Goto
  <2> QED BY <2>1, <2>2, <2>3 DEF Produce
<1>8. ProducerAllowed(me, runs', ledger')
  BY <1>7 DEF ProducerAllowed
<1> HIDE DEF run
<1> QED BY <1>1, <1>5, <1>6, <1>7, <1>8, RetriesKept

LEMMA DecideRetries ==
    ASSUME MemoryInv, RetryInv, NEW p \in Procs, Decide(p) PROVE RetryInv'
<1> DEFINE r == proc[p].run
           decision == DecidePolicy(PolicyProfile(ledger, runs[r].model), 1,
                                    [f \in FamilyPriority |-> 0])
           again == Len(runs[r].attempts) = 1 /\ decision.directives # {} /\ ~decision.terminate
           me == [at |-> IF again THEN "produce" ELSE "summary", run |-> r]
<1>1. proc[p].at = "decide" /\ Runs(proc[p]) /\ UNCHANGED ledger
  BY AgentLabels DEF Decide, At
<1>2. PICK x : IsAttempt(x) /\ SetCurrent(r, x)
  BY ConcludedIs DEF Decide
<1>3. Goto(p, me)
  <2>1. CASE again
    BY <2>1 DEF Decide
  <2>2. CASE ~again
    BY <2>2 DEF Decide
  <2> QED BY <2>1, <2>2
<1>4. me.at = "produce" => Len(runs[r].attempts) = 1 /\ Recurs(ledger, runs[r].model)
  <2>1. again => Recurs(ledger, runs[r].model)
    BY DirectiveRecurs
  <2> HIDE DEF decision
  <2> QED BY <2>1
<1>5. me.run = r
  OBVIOUS
<1> HIDE DEF me
<1> QED BY <1>1, <1>2, <1>3, <1>4, <1>5, RetriesOfCurrent
LEMMA WriteSummaryRetries ==
    ASSUME MemoryInv, RetryInv, NEW p \in Procs, WriteSummary(p) PROVE RetryInv'
<1> DEFINE r == proc[p].run
           run == [runs[r] EXCEPT !.summary = Current(r).verdict]
<1>1. Runs(proc[p]) /\ UNCHANGED ledger /\ proc' = [proc EXCEPT ![p] = Idle]
  BY AgentLabels DEF WriteSummary, At, Goto
<1>2. r \in DOMAIN runs /\ IsRun(runs[r])
  BY <1>1, OwnRun DEF RunSound
<1>3. run = [model |-> runs[r].model, attempts |-> runs[r].attempts,
             summary |-> Current(r).verdict]
  BY <1>2 DEF IsRun
<1>4. run.attempts = runs[r].attempts /\ run.model = runs[r].model
  <2> HIDE DEF run
  <2> QED BY <1>3
<1>5. /\ DOMAIN runs' = DOMAIN runs /\ runs'[r] = run
      /\ \A y \in DOMAIN runs \ {r} : runs'[y] = runs[y]
  BY <1>2 DEF WriteSummary
<1> HIDE DEF run
<1>6. RunRetries(run, ledger')
  BY <1>1, <1>2, <1>4 DEF RetryInv, RunRetries
<1>7. ProducerAllowed(Idle, runs', ledger')
  BY DEF ProducerAllowed, Idle
<1> QED BY <1>1, <1>5, <1>6, <1>7, RetriesKept

LEMMA StartRunRetries ==
    ASSUME MemoryInv, RetryInv, NEW p \in Procs, NEW r \in RunIds, NEW m \in Models,
           StartRun(p, r, m)
    PROVE  RetryInv'
<1> DEFINE run == [model |-> m, attempts |-> <<>>, summary |-> Absent]
           me == [at |-> "produce", run |-> r]
<1>1. proc[p].at = "idle" /\ proc' = [proc EXCEPT ![p] = me] /\ UNCHANGED ledger
  BY DEF StartRun, At, Goto
<1>2. ~Runs(proc[p])
  BY <1>1 DEF MemoryInv, ProcessSound, AgentSound
<1>3. /\ DOMAIN runs' = DOMAIN runs \cup {r} /\ runs'[r] = run /\ r \notin DOMAIN runs
      /\ \A y \in DOMAIN runs : runs'[y] = runs[y]
  BY DEF StartRun, With
<1>4. run.attempts = <<>> /\ Len(run.attempts) = 0
  OBVIOUS
<1>5. RunRetries(run, ledger') /\ me.run = r
  BY <1>4 DEF RunRetries
<1> HIDE DEF run, me
<1>6. ProducerAllowed(me, runs', ledger')
  <2>1. Len(runs'[me.run].attempts) = 0
    BY <1>3, <1>4, <1>5
  <2> QED BY <2>1 DEF ProducerAllowed
<1> QED BY <1>1, <1>2, <1>3, <1>5, <1>6, RetriesKept

(* RetryInv holds throughout, whatever other processes append while a run  *)
(* is under way (agent.py, policy.py).                                     *)
THEOREM RetryInvariant == Spec => []RetryInv
<1>1. Init => RetryInv
  BY DEF Init, RetryInv, ProducerAllowed, Idle, Runs
<1>2. MemoryInv /\ RetryInv /\ [Next]_vars => RetryInv'
  <2> SUFFICES ASSUME MemoryInv, RetryInv, [Next]_vars PROVE RetryInv'
    OBVIOUS
  <2>1. CASE UNCHANGED vars \/ NextPeriod
    <3>1. UNCHANGED <<runs, ledger, proc>>
      BY <2>1 DEF NextPeriod, vars
    <3> QED BY <3>1 DEF RetryInv
  <2>2. CASE \E p \in Procs, r \in RunIds, m \in Models : StartRun(p, r, m)
    BY <2>2, StartRunRetries
  <2>3. CASE \E p \in Procs, cand \in Candidates : Produce(p, cand)
    BY <2>3, ProduceRetries
  <2>4. ASSUME NEW p \in Procs, WritePass(p) \/ SealFailure(p) PROVE RetryInv'
    <3>1. Runs(proc[p]) /\ proc[p].at \in {"pass", "seal"} /\ UNCHANGED ledger
      BY <2>4, AgentLabels DEF WritePass, SealFailure, At
    <3>2. PICK x : IsAttempt(x) /\ SetCurrent(proc[p].run, x)
      <4>1. IsAttempt(Current(proc[p].run))
        BY <3>1, OwnAttempt
      <4> QED BY <2>4, <4>1, ArtifactSet, ConcludedIs DEF WritePass, SealFailure
    <3>3. PICK label \in {"summary", "read"} : Continue(p, label)
      BY <2>4 DEF WritePass, SealFailure
    <3> DEFINE me == [proc[p] EXCEPT !.at = label]
    <3>4. "at" \in DOMAIN proc[p] /\ "run" \in DOMAIN proc[p]
      BY <3>1, OwnRun DEF Runs
    <3>5. me.at = label /\ me.run = proc[p].run
      BY <3>4
    <3>6. Goto(p, me)
      BY <3>3 DEF Continue
    <3> HIDE DEF me
    <3> QED BY <3>1, <3>2, <3>5, <3>6, RetriesOfCurrent
  <2>5. ASSUME NEW p \in Procs, Decide(p) \/ WriteSummary(p) PROVE RetryInv'
    BY <2>5, DecideRetries, WriteSummaryRetries
  <2>6. ASSUME NEW p \in Procs,
               \/ StartBenchmark(p) \/ SealOrConfirm(p)
               \/ ReadLedger(p) \/ AppendEntry(p) \/ Kill(p)
        PROVE  RetryInv'
    <3>1. "at" \in DOMAIN proc[p]
      BY DEF MemoryInv, ProcessSound
    <3>2. \A label, k, v : k # "at" => Held(proc[p], label, k, v).at = label
      BY <3>1 DEF Held, With
    <3>3. \A rest, observed : NextCase(rest, observed).at # "produce"
      BY DEF NextCase, Idle
    <3>4. Idle.at # "produce"
      BY DEF Idle
    <3>5. CASE StartBenchmark(p)
      BY <3>3, <3>5, RetriesUntouched DEF StartBenchmark
    <3>6. CASE SealOrConfirm(p)
      <4> DEFINE record == Held(proc[p], "read", "cand", CaseFile[Head(proc[p].rest)])
      <4>1. UNCHANGED runs
            /\ (Goto(p, record) \/ \E rest, observed : Goto(p, NextCase(rest, observed)))
        BY <3>6 DEF SealOrConfirm
      <4>2. record.at # "produce"
        BY <3>2
      <4> HIDE DEF record
      <4> QED BY <3>3, <4>1, <4>2, RetriesUntouched
    <3>7. CASE ReadLedger(p)
      <4> DEFINE you == Held(proc[p], "append", "entries", ledger)
      <4>1. you.at # "produce" /\ Goto(p, you) /\ UNCHANGED runs
        BY <3>2, <3>7 DEF ReadLedger
      <4> HIDE DEF you
      <4> QED BY <4>1, RetriesUntouched
    <3>8. CASE AppendEntry(p)
      <4>1. /\ UNCHANGED runs
            /\ \/ Goto(p, [at |-> "decide", run |-> proc[p].run])
               \/ Goto(p, NextCase(Tail(proc[p].rest), proc[p].observed))
        BY <3>8 DEF AppendEntry
      <4> QED BY <3>3, <4>1, RetriesUntouched
    <3>9. CASE Kill(p)
      BY <3>4, <3>9, RetriesUntouched DEF Kill
    <3> QED BY <2>6, <3>5, <3>6, <3>7, <3>8, <3>9
  <2> QED BY <2>1, <2>2, <2>3, <2>4, <2>5, <2>6 DEF Next
<1> QED BY <1>1, <1>2, MemoryInvariant, PTL DEF Spec

(* No run makes a third attempt, and a second one follows a family with a  *)
(* directive that has failed the threshold number of times (policy.py).    *)
THEOREM RetriesAreByPolicy == Spec => []RetryByPolicy
<1>1. RetryInv => RetryByPolicy
  BY DEF RetryInv, RunRetries, Recurs, OccurrencesOf, RetryByPolicy
<1> QED BY <1>1, RetryInvariant, PTL
-----------------------------------------------------------------------------
(* What is read from the ledger.  Two reports count the same lines in two  *)
(* ways, so most of this is about counting: the largest of finitely many   *)
(* numbers, and a sum of counts.                                           *)

LEMMA SmallestOf ==
    ASSUME NEW S, S \subseteq Nat, S # {}
    PROVE  Min(S) \in S /\ \A n \in S : Min(S) <= n
  BY LeastNumber DEF Min

\* Else take the least set of numbers that has no largest, and leave one out.
LEMMA LargestOf ==
    ASSUME NEW S, S \subseteq Nat, S # {}, IsFiniteSet(S)
    PROVE  Max(S) \in S /\ \A n \in S : n <= Max(S)
<1> DEFINE HasLargest(T) == \E m \in T : \A n \in T : n <= m
           without == {Cardinality(T) : T \in {U \in SUBSET S : U # {} /\ ~HasLargest(U)}}
<1>1. HasLargest(S)
  <2> SUFFICES ASSUME ~HasLargest(S) PROVE FALSE
    OBVIOUS
  <2>1. \A T \in SUBSET S : IsFiniteSet(T) /\ Cardinality(T) \in Nat
    BY FS_Subset, FS_CardinalityType
  <2>2. without \subseteq Nat /\ without # {}
    BY <2>1
  <2>3. PICK T \in SUBSET S : /\ T # {} /\ ~HasLargest(T)
                              /\ \A U \in SUBSET S : U # {} /\ ~HasLargest(U) => Cardinality(T) <= Cardinality(U)
    <3> HIDE DEF HasLargest
    <3>1. PICK c \in without : \A d \in without : c <= d
      <4> HIDE DEF without
      <4> QED BY <2>2, LeastNumber
    <3> QED BY <3>1
  <2>4. PICK x \in T : TRUE
    BY <2>3
  <2>5. T \ {x} \in SUBSET S /\ Cardinality(T \ {x}) = Cardinality(T) - 1
    BY <2>1, <2>4, FS_RemoveElement
  <2>6. T \ {x} # {}
    BY <2>3, <2>4
  <2>7. HasLargest(T \ {x})
    <3> HIDE DEF HasLargest
    <3> QED BY <2>1, <2>3, <2>5, <2>6
  <2>8. PICK m \in T \ {x} : \A n \in T \ {x} : n <= m
    BY <2>7
  <2>9. x \in Nat /\ m \in Nat /\ T \subseteq Nat
    BY <2>4, <2>8
  <2>10. CASE x <= m
    BY <2>3, <2>8, <2>9, <2>10
  <2>11. CASE m <= x
    <3>1. \A n \in T : n <= x
      BY <2>8, <2>9, <2>11
    <3> QED BY <2>3, <2>4, <3>1
  <2> QED BY <2>9, <2>10, <2>11
<1> QED BY <1>1 DEF Max

\* The numbers that positions of a finite set are mapped to.
LEMMA ImageIsFinite ==
    ASSUME NEW D, IsFiniteSet(D), NEW key
    PROVE  IsFiniteSet({key[i] : i \in D})
<1> DEFINE f == [i \in D |-> key[i]]
           T == {key[i] : i \in D}
<1>1. f \in Surjection(D, T)
  BY Fun_IsSurj
<1> QED BY <1>1, FS_Surjection

\* Where n[x] counts the positions with key x, the sum of n over a set of keys
\* counts the positions with a key in the set.
LEMMA SumOfCounts ==
    ASSUME NEW D, IsFiniteSet(D), NEW key, NEW n, IsFiniteSet(DOMAIN n),
           \A x \in DOMAIN n : n[x] = Cardinality({i \in D : key[i] = x})
    PROVE  SumFunction(n) = Cardinality({i \in D : key[i] \in DOMAIN n})
<1> DEFINE S == DOMAIN n
           In(s) == {i \in D : key[i] \in s}
           pick(s) == CHOOSE x \in s : TRUE
           g == [s \in SUBSET S |-> Cardinality(In(s))]
           Sums(it) == it = [s \in SUBSET S |-> IF s = {} THEN 0 ELSE n[pick(s)] + it[s \ {pick(s)}]]
<1>1. \A s : IsFiniteSet(In(s)) /\ Cardinality(In(s)) \in Nat
  <2> SUFFICES ASSUME NEW s PROVE IsFiniteSet(In(s)) /\ Cardinality(In(s)) \in Nat
    OBVIOUS
  <2>1. In(s) \in SUBSET D
    OBVIOUS
  <2> QED BY <2>1, FS_Subset, FS_CardinalityType
<1>2. ASSUME NEW s \in SUBSET S, s # {}
      PROVE  pick(s) \in s /\ g[s] = n[pick(s)] + g[s \ {pick(s)}]
  <2> DEFINE x == pick(s)
             one == {i \in D : key[i] = x}
             rest == In(s \ {x})
  <2>1. x \in s
    BY <1>2
  <2> HIDE DEF x
  <2>2. In(s) = one \cup rest /\ one \cap rest = {}
    BY <2>1
  <2>3. one = In({x})
    OBVIOUS
  <2>4. IsFiniteSet(one) /\ IsFiniteSet(rest) /\ Cardinality(one) \in Nat /\ Cardinality(rest) \in Nat
    <3> HIDE DEF In
    <3> QED BY <1>1, <2>3
  <2>5. Cardinality(In(s)) = Cardinality(one) + Cardinality(rest)
    <3>1. Cardinality(one \cup rest) = Cardinality(one) + Cardinality(rest) - Cardinality(one \cap rest)
      BY <2>4, FS_Union
    <3>2. Cardinality(one \cap rest) = 0
      BY <2>2, FS_EmptySet
    <3> HIDE DEF one, rest, In
    <3> QED BY <2>2, <2>4, <3>1, <3>2
  <2>6. n[x] = Cardinality(one) /\ g[s] = Cardinality(In(s)) /\ g[s \ {x}] = Cardinality(rest)
    BY <2>1
  <2> HIDE DEF g, In, one, rest
  <2> QED BY <2>1, <2>5, <2>6 DEF x
<1>3. g[{}] = 0
  <2>1. In({}) = {}
    OBVIOUS
  <2> QED BY <2>1, FS_EmptySet
<1>4. Sums(g)
  <2> HIDE DEF pick
  <2>1. \A s \in SUBSET S : g[s] = IF s = {} THEN 0 ELSE n[pick(s)] + g[s \ {pick(s)}]
    <3> HIDE DEF g
    <3> QED BY <1>2, <1>3
  <2> QED BY <2>1
<1>5. \A it : Sums(it) => it[S] = g[S]
  <2> SUFFICES ASSUME NEW it, Sums(it) PROVE it[S] = g[S]
    OBVIOUS
  <2> DEFINE wrong == {s \in SUBSET S : it[s] # g[s]}
             sizes == {Cardinality(s) : s \in wrong}
  <2>1. \A s \in SUBSET S : IsFiniteSet(s) /\ Cardinality(s) \in Nat
    BY FS_Subset, FS_CardinalityType
  <2>2. \A s \in SUBSET S : it[s] = IF s = {} THEN 0 ELSE n[pick(s)] + it[s \ {pick(s)}]
    <3> HIDE DEF pick
    <3> QED OBVIOUS
  <2> HIDE DEF g, Sums, pick
  <2>3. SUFFICES ASSUME wrong # {} PROVE FALSE
    OBVIOUS
  <2>4. sizes \subseteq Nat /\ sizes # {}
    BY <2>1, <2>3
  <2>5. PICK s \in wrong : \A t \in wrong : Cardinality(s) <= Cardinality(t)
    <3>1. PICK c \in sizes : \A d \in sizes : c <= d
      <4> HIDE DEF sizes
      <4> QED BY <2>4, LeastNumber
    <3> QED BY <3>1
  <2>6. s # {}
    BY <1>3, <2>2, <2>5
  <2> DEFINE t == s \ {pick(s)}
  <2>7. pick(s) \in s /\ g[s] = n[pick(s)] + g[t]
    BY <1>2, <2>5, <2>6
  <2>8. t \in SUBSET S /\ Cardinality(t) = Cardinality(s) - 1
    BY <2>1, <2>5, <2>7, FS_RemoveElement
  <2>9. it[t] = g[t]
    <3> HIDE DEF t
    <3>1. Cardinality(s) \in Nat /\ ~(Cardinality(s) <= Cardinality(t))
      BY <2>1, <2>5, <2>8
    <3> QED BY <2>5, <2>8, <3>1
  <2> QED BY <2>2, <2>5, <2>6, <2>7, <2>9
<1>6. \E it : Sums(it) /\ it[S] = SumFunction(n)
  BY <1>4 DEF SumFunction, SumFunctionOnSet, FoldFunctionOnSet, MapThenFoldSet
<1>7. g[S] = Cardinality(In(S))
  OBVIOUS
<1> HIDE DEF g, Sums
<1> QED BY <1>5, <1>6, <1>7

\* A ledger of lines with a period each.
Dated(l) == IsSequence(l) /\ \A i \in DOMAIN l : l[i].of.period \in Nat

\* The lines of a family, and those of a period among them.
FamilyLines(l, f) == {i \in DOMAIN l : l[i].of.family = f}
PeriodLines(l, f, p) == {i \in FamilyLines(l, f) : l[i].of.period = p}

LEMMA LinesAre ==
    ASSUME NEW l, NEW f, NEW p
    PROVE  /\ Occurrences(l, [family |-> f]) = FamilyLines(l, f)
           /\ Occurrences(l, [family |-> f, period |-> p]) = PeriodLines(l, f, p)
           /\ FamilyTimeline(l, f, p) = Cardinality(PeriodLines(l, f, p))
<1>1. Occurrences(l, [family |-> f]) = FamilyLines(l, f)
  <2> DEFINE v == [family |-> f]
  <2>1. DOMAIN v = {"family"} /\ v["family"] = f
    OBVIOUS
  <2> HIDE DEF v
  <2> QED BY <2>1 DEF Occurrences, FamilyLines, v
<1>2. Occurrences(l, [family |-> f, period |-> p]) = PeriodLines(l, f, p)
  <2> DEFINE v == [family |-> f, period |-> p]
  <2>1. DOMAIN v = {"family", "period"} /\ v["family"] = f /\ v["period"] = p
    OBVIOUS
  <2> HIDE DEF v
  <2> QED BY <2>1 DEF Occurrences, FamilyLines, PeriodLines, v
<1> QED BY <1>1, <1>2 DEF FamilyTimeline

LEMMA LinesAreFinite ==
    ASSUME NEW l, IsSequence(l), NEW S, S \subseteq DOMAIN l
    PROVE  IsFiniteSet(S) /\ Cardinality(S) \in Nat /\ (Cardinality(S) = 0 <=> S = {})
<1>1. IsFiniteSet(DOMAIN l)
  BY SequenceFacts, FS_Interval
<1> QED BY <1>1, FS_Subset, FS_CardinalityType, FS_EmptySet

\* The periods of some of the lines.
PeriodsOf(l, S) == {l[i].of.period : i \in S}

LEMMA PeriodsAre ==
    ASSUME NEW l, Dated(l), NEW S, S \subseteq DOMAIN l
    PROVE  PeriodsOf(l, S) \subseteq Nat /\ IsFiniteSet(PeriodsOf(l, S))
<1> DEFINE key == [i \in DOMAIN l |-> l[i].of.period]
<1>1. IsFiniteSet({key[i] : i \in S})
  <2>1. IsFiniteSet(S)
    BY LinesAreFinite DEF Dated
  <2> HIDE DEF key
  <2> QED BY <2>1, ImageIsFinite
<1>2. {key[i] : i \in S} = PeriodsOf(l, S)
  BY DEF PeriodsOf
<1> QED BY <1>1, <1>2 DEF Dated, PeriodsOf

\* The last period, and of several the last two.
LEMMA LastPeriods ==
    ASSUME NEW P, P \subseteq Nat, IsFiniteSet(P), P # {}
    PROVE  /\ LastOf(P, 1) = {Max(P)}
           /\ LastOf(P, 3) \subseteq P /\ Max(P) \in LastOf(P, 3)
           /\ Max(LastOf(P, 3)) = Max(P)
           /\ Cardinality(P) >= 2 =>
                /\ Max(P \ {Max(P)}) \in LastOf(P, 3)
                /\ Max(P \ {Max(P)}) < Max(P)
<1> DEFINE m == Max(P)
           after(p) == {q \in P : q > p}
<1>1. m \in P /\ m \in Nat /\ \A n \in P : n <= m
  BY LargestOf
<1> HIDE DEF m
<1>2. \A p : IsFiniteSet(after(p)) /\ Cardinality(after(p)) \in Nat
             /\ (Cardinality(after(p)) = 0 <=> after(p) = {})
  <2> SUFFICES ASSUME NEW p
               PROVE  IsFiniteSet(after(p)) /\ Cardinality(after(p)) \in Nat
                      /\ (Cardinality(after(p)) = 0 <=> after(p) = {})
    OBVIOUS
  <2>1. after(p) \in SUBSET P
    OBVIOUS
  <2> QED BY <2>1, FS_Subset, FS_CardinalityType, FS_EmptySet
<1>3. \A p \in P : after(p) = {} <=> p = m
  <2> SUFFICES ASSUME NEW p \in P PROVE after(p) = {} <=> p = m
    OBVIOUS
  <2>1. p \in Nat /\ p <= m /\ \A q \in P : q \in Nat /\ q <= m
    BY <1>1
  <2>2. ASSUME after(p) = {} PROVE p = m
    <3>1. ~(m > p)
      BY <1>1, <2>2
    <3> QED BY <1>1, <2>1, <3>1
  <2>3. ASSUME p = m PROVE after(p) = {}
    <3>1. \A q \in P : ~(q > p)
      BY <2>1, <2>3
    <3> QED BY <3>1
  <2> QED BY <2>2, <2>3
<1>4. LastOf(P, 1) = {p \in P : Cardinality(after(p)) < 1} /\ LastOf(P, 3) = {p \in P : Cardinality(after(p)) < 3}
  BY DEF LastOf
<1>5. LastOf(P, 1) = {m} /\ LastOf(P, 3) \subseteq P /\ m \in LastOf(P, 3)
  <2> HIDE DEF after
  <2>1. \A p \in P : Cardinality(after(p)) < 1 <=> p = m
    BY <1>2, <1>3
  <2>2. Cardinality(after(m)) = 0
    BY <1>1, <1>2, <1>3
  <2>3. {p \in P : Cardinality(after(p)) < 1} = {m}
    BY <1>1, <2>1
  <2>4. m \in {p \in P : Cardinality(after(p)) < 3}
    BY <1>1, <2>2
  <2>5. {p \in P : Cardinality(after(p)) < 3} \subseteq P
    OBVIOUS
  <2> QED BY <1>4, <2>3, <2>4, <2>5
<1>6. Max(LastOf(P, 3)) = m
  <2> DEFINE L == LastOf(P, 3)
  <2>1. L \subseteq P /\ m \in L
    BY <1>5
  <2> HIDE DEF L
  <2>2. L \subseteq Nat /\ L # {} /\ IsFiniteSet(L)
    BY <2>1, FS_Subset
  <2>3. Max(L) \in L /\ \A n \in L : n <= Max(L)
    BY <2>2, LargestOf
  <2>4. Max(L) <= m /\ m <= Max(L) /\ Max(L) \in Nat
    BY <1>1, <2>1, <2>2, <2>3
  <2> QED BY <1>1, <2>4 DEF L
<1>7. ASSUME Cardinality(P) >= 2
      PROVE  Max(P \ {m}) \in LastOf(P, 3) /\ Max(P \ {m}) < m
  <2> DEFINE R == P \ {m}
             r == Max(R)
  <2>1. IsFiniteSet(R) /\ Cardinality(R) = Cardinality(P) - 1 /\ Cardinality(P) \in Nat
    BY <1>1, FS_RemoveElement, FS_CardinalityType
  <2>2. R # {} /\ R \subseteq Nat
    <3>1. R \subseteq Nat
      OBVIOUS
    <3>2. Cardinality(R) # 0
      BY <1>7, <2>1
    <3>3. R # {}
      <4> HIDE DEF R
      <4> QED BY <3>2, FS_EmptySet
    <3> QED BY <3>1, <3>3
  <2>3. r \in R /\ \A n \in R : n <= r
    BY <2>1, <2>2, LargestOf
  <2> HIDE DEF r
  <2>4. after(r) = {m}
    <3>1. r \in Nat /\ r \in P /\ r # m
      BY <2>3
    <3>2. m \in after(r)
      <4>1. r <= m
        BY <1>1, <3>1
      <4> QED BY <1>1, <3>1, <4>1
    <3>3. \A q \in after(r) : q = m
      <4> SUFFICES ASSUME NEW q \in P, q > r, q # m PROVE FALSE
        OBVIOUS
      <4>1. q \in R /\ q \in Nat
        OBVIOUS
      <4> HIDE DEF R
      <4> QED BY <2>3, <3>1, <4>1
    <3> QED BY <3>2, <3>3
  <2>5. Cardinality(after(r)) = 1
    BY <2>4, FS_Singleton
  <2>6. r \in LastOf(P, 3)
    BY <1>4, <2>3, <2>5
  <2>7. r < m
    BY <1>1, <2>3
  <2> QED BY <2>6, <2>7 DEF r
<1> QED BY <1>5, <1>6, <1>7 DEF m

\* What the two reports say of a family with an occurrence.
LEMMA FamilyAgrees ==
    ASSUME NEW l, Dated(l), NEW f \in ObservedFamilies(l)
    PROVE  LET row == RecurrenceSeries(l, f)
               decline == DeclineOf(row)
               recurrence == Recurrence(l, f)
               status == ExtinctionStatus(l, f, 1, 3)
           IN  /\ status = "extinct" <=> decline.eliminated
               /\ status = "extinct" <=> recurrence.latest < Max(AllPeriods(l))
               /\ status = "declining" =>
                    decline.fallen > 0 /\ decline.final > 0 /\ f \notin Growing(l)
               /\ f \in Growing(l) => status # "extinct"
               /\ SumFunction(row) = recurrence.total
               /\ recurrence.active <= recurrence.span
<1> DEFINE P == AllPeriods(l)
           m == Max(P)
           row == RecurrenceSeries(l, f)
           decline == DeclineOf(row)
           recurrence == Recurrence(l, f)
           status == ExtinctionStatus(l, f, 1, 3)
           found == FamilyLines(l, f)
           own == PeriodsOf(l, found)
           count(p) == Cardinality(PeriodLines(l, f, p))
<1>1. /\ IsSequence(l) /\ found \subseteq DOMAIN l /\ found # {}
      /\ P = PeriodsOf(l, DOMAIN l) /\ own \subseteq P /\ own # {}
  BY DEF Dated, ObservedFamilies, FamilyLines, AllPeriods, PeriodsOf
<1>2. P \subseteq Nat /\ IsFiniteSet(P) /\ P # {} /\ own \subseteq Nat /\ IsFiniteSet(own)
  BY <1>1, PeriodsAre
<1>3. /\ m \in P /\ m \in Nat /\ \A p \in P : p <= m
  BY <1>2, LargestOf
<1>4. \A p : count(p) \in Nat /\ (count(p) = 0 <=> PeriodLines(l, f, p) = {})
  <2> SUFFICES ASSUME NEW p PROVE count(p) \in Nat /\ (count(p) = 0 <=> PeriodLines(l, f, p) = {})
    OBVIOUS
  <2>1. PeriodLines(l, f, p) \subseteq DOMAIN l
    BY DEF PeriodLines, FamilyLines
  <2> QED BY <1>1, <2>1, LinesAreFinite
<1>5. \A p : count(p) = 0 <=> p \notin own
  BY <1>4 DEF PeriodLines, PeriodsOf
<1>6. /\ DOMAIN row = P /\ \A p \in P : row[p] = count(p)
  BY LinesAre DEF RecurrenceSeries, EpochAxis, AllPeriods
<1>7. /\ recurrence.total = Cardinality(found) /\ recurrence.latest = Max(own)
      /\ recurrence.active = Cardinality(own) /\ recurrence.span = Max(own) - Min(own) + 1
  BY LinesAre DEF Recurrence, PeriodsOf
<1>8. /\ decline.final = count(m) /\ (decline.eliminated <=> count(m) = 0)
      /\ \A p \in P : decline.fallen >= count(p) - count(m)
  <2> DEFINE seen == {row[p] : p \in DOMAIN row}
  <2>1. seen \subseteq Nat /\ IsFiniteSet(seen) /\ seen # {}
    <3> HIDE DEF row, count
    <3> QED BY <1>2, <1>3, <1>4, <1>6, ImageIsFinite
  <2>2. Max(seen) \in Nat /\ \A p \in P : count(p) <= Max(seen)
    <3>1. Max(seen) \in seen /\ \A n \in seen : n <= Max(seen)
      <4> HIDE DEF seen
      <4> QED BY <2>1, LargestOf
    <3> HIDE DEF row, count
    <3> QED BY <1>6, <2>1, <3>1
  <2>3. decline.final = row[m] /\ (decline.eliminated <=> row[m] = 0) /\ decline.fallen = Max(seen) - row[m]
    <3>1. DOMAIN row = P
      BY <1>6
    <3> HIDE DEF row
    <3> QED BY <3>1 DEF DeclineOf
  <2>4. row[m] = count(m)
    BY <1>3, <1>6
  <2> HIDE DEF decline, row, count, seen, m
  <2> QED BY <1>3, <1>4, <2>2, <2>3, <2>4
<1>9. /\ LastOf(P, 1) = {m} /\ LastOf(P, 3) \subseteq P /\ m \in LastOf(P, 3)
      /\ Max(LastOf(P, 3)) = m
      /\ Cardinality(P) >= 2 => Max(P \ {m}) \in LastOf(P, 3) /\ Max(P \ {m}) < m
  BY <1>2, LastPeriods
<1>10. /\ status = "extinct" <=> count(m) = 0
       /\ status = "declining" =>
            /\ Cardinality(LastOf(P, 3)) >= 2 /\ count(m) > 0
            /\ \A p, q \in LastOf(P, 3) : p < q => count(p) > count(q)
  <2>1. \A p : FamilyTimeline(l, f, p) = count(p)
    BY LinesAre
  <2>2. (\A p \in LastOf(P, 1) : FamilyTimeline(l, f, p) = 0) <=> count(m) = 0
    BY <1>9, <2>1
  <2>3. /\ status = "extinct" <=> \A p \in LastOf(P, 1) : FamilyTimeline(l, f, p) = 0
        /\ status = "declining" =>
             /\ Cardinality(LastOf(P, 3)) >= 2 /\ FamilyTimeline(l, f, Max(LastOf(P, 3))) > 0
             /\ \A p, q \in LastOf(P, 3) : p < q => FamilyTimeline(l, f, p) > FamilyTimeline(l, f, q)
    <3> HIDE DEF P
    <3> QED BY <1>2 DEF ExtinctionStatus, P
  <2> HIDE DEF status, count, P, m
  <2> QED BY <1>9, <2>1, <2>2, <2>3
<1>11. f \in Growing(l) =>
         Cardinality(P) >= 2 /\ count(m) > count(Max(P \ {m}))
  BY LinesAre DEF Growing
<1>12. count(m) = 0 <=> Max(own) < m
  <2>1. Max(own) \in own /\ \A p \in own : p <= Max(own)
    BY <1>1, <1>2, LargestOf
  <2>2. own \subseteq P
    BY <1>1
  <2> DEFINE z == Max(own)
  <2>3. z \in own /\ z \in P /\ z \in Nat /\ z <= m /\ (m \in own => m <= z)
    BY <1>2, <1>3, <2>1, <2>2
  <2>4. count(m) = 0 <=> m \notin own
    BY <1>5
  <2> HIDE DEF own, P, m, count, z
  <2>5. m \in own <=> z = m
    BY <1>3, <2>3
  <2> QED BY <1>3, <2>3, <2>4, <2>5 DEF z
<1>13. status = "declining" => decline.fallen > 0 /\ decline.final > 0 /\ f \notin Growing(l)
  <2> SUFFICES ASSUME status = "declining"
               PROVE  decline.fallen > 0 /\ decline.final > 0 /\ f \notin Growing(l)
    OBVIOUS
  <2> DEFINE recent == LastOf(P, 3)
             g == decline.fallen
  <2>1. PICK p \in recent : p # m
    <3>1. IsFiniteSet(recent)
      BY <1>2, <1>9, FS_Subset
    <3>2. recent # {m}
      <4>1. Cardinality(recent) >= 2
        BY <1>10
      <4>2. Cardinality({m}) = 1
        BY FS_Singleton
      <4> HIDE DEF recent, m
      <4> QED BY <4>1, <4>2
    <3> QED BY <1>9, <3>2
  <2>2. p < m /\ p \in P
    BY <1>2, <1>3, <1>9, <2>1
  <2>3. count(p) > count(m) /\ count(m) > 0
    BY <1>9, <1>10, <2>1, <2>2
  <2>4. decline.fallen > 0
    <3>1. decline.fallen >= count(p) - count(m) /\ decline.fallen \in Int
      <4>1. decline.fallen \in Int
        <5> DEFINE seen == {row[x] : x \in DOMAIN row}
        <5>1. decline.fallen = Max(seen) - row[m]
          <6>1. DOMAIN row = P
            BY <1>6
          <6> HIDE DEF row
          <6> QED BY <6>1 DEF DeclineOf
        <5>2. seen \subseteq Nat /\ IsFiniteSet(seen) /\ seen # {}
          <6> HIDE DEF row, count
          <6> QED BY <1>2, <1>3, <1>4, <1>6, ImageIsFinite
        <5>3. Max(seen) \in Nat
          <6> HIDE DEF seen
          <6> QED BY <5>2, LargestOf
        <5>4. row[m] \in Nat
          BY <1>3, <1>4, <1>6
        <5> HIDE DEF decline, seen, row
        <5> QED BY <5>1, <5>3, <5>4
      <4> QED BY <1>8, <2>2, <4>1
    <3>2. count(p) \in Nat /\ count(m) \in Nat
      BY <1>4
    <3> HIDE DEF decline, count
    <3> QED BY <2>3, <3>1, <3>2
  <2>5. ~(f \in Growing(l))
    <3> SUFFICES ASSUME f \in Growing(l) PROVE FALSE
      OBVIOUS
    <3> DEFINE r == Max(P \ {m})
    <3>1. r \in recent /\ r < m /\ count(m) > count(r)
      BY <1>9, <1>11
    <3>2. count(r) > count(m)
      BY <1>9, <1>10, <3>1
    <3>3. count(r) \in Nat /\ count(m) \in Nat
      BY <1>4
    <3> HIDE DEF r, count
    <3> QED BY <3>1, <3>2, <3>3
  <2> QED BY <1>8, <2>3, <2>4, <2>5
<1>14. f \in Growing(l) => status # "extinct"
  <2>1. count(m) \in Nat /\ count(Max(P \ {m})) \in Nat
    BY <1>4
  <2> HIDE DEF status, count, P, m
  <2> QED BY <1>10, <1>11, <2>1
<1>15. SumFunction(row) = recurrence.total
  <2> DEFINE key == [i \in DOMAIN l |-> l[i].of.period]
  <2>1. \A p \in DOMAIN row : row[p] = Cardinality({i \in found : key[i] = p})
    <3>1. \A p : {i \in found : key[i] = p} = PeriodLines(l, f, p)
      BY DEF PeriodLines, FamilyLines
    <3> HIDE DEF row, key
    <3> QED BY <1>6, <3>1
  <2>2. IsFiniteSet(found) /\ IsFiniteSet(DOMAIN row)
    BY <1>1, <1>2, <1>6, LinesAreFinite
  <2>3. {i \in found : key[i] \in DOMAIN row} = found
    <3>1. \A i \in found : key[i] \in P
      BY <1>1 DEF PeriodsOf
    <3> HIDE DEF key, row
    <3> QED BY <1>6, <3>1
  <2> HIDE DEF key, row, found
  <2>4. SumFunction(row) = Cardinality({i \in found : key[i] \in DOMAIN row})
    BY <2>1, <2>2, SumOfCounts
  <2> QED BY <1>7, <2>3, <2>4
<1>16. recurrence.active <= recurrence.span
  <2> DEFINE a == Min(own)
             z == Max(own)
  <2>1. a \in own /\ z \in own /\ \A p \in own : a <= p /\ p <= z
    BY <1>1, <1>2, SmallestOf, LargestOf
  <2> HIDE DEF a, z
  <2>2. a \in Nat /\ z \in Nat /\ a <= z /\ own \subseteq a .. z
    BY <1>2, <2>1
  <2>3. IsFiniteSet(a .. z) /\ Cardinality(a .. z) = z - a + 1
    BY <2>2, FS_Interval
  <2>4. Cardinality(own) <= z - a + 1
    BY <2>2, <2>3, FS_Subset
  <2> QED BY <1>7, <2>4 DEF a, z
<1> HIDE DEF status, decline, recurrence, row, count
<1> QED BY <1>7, <1>8, <1>10, <1>12, <1>13, <1>14, <1>15, <1>16 DEF status, decline, recurrence, row

\* Every line belongs to the profile of one model.
LEMMA ProfilesSplit ==
    ASSUME NEW l, IsSequence(l), \A i \in DOMAIN l : l[i].of.model \in Models \cup {"unknown"}
    PROVE  SumFunction([m \in Models \cup {"unknown"} |-> PolicyProfile(l, m).total]) = Len(l)
<1> DEFINE n == [m \in Models \cup {"unknown"} |-> PolicyProfile(l, m).total]
           key == [i \in DOMAIN l |-> l[i].of.model]
<1>1. IsFiniteSet(Models \cup {"unknown"})
  BY AgentAssumption, FS_AddElement
<1>2. DOMAIN n = Models \cup {"unknown"}
  OBVIOUS
<1>3. \A m \in DOMAIN n : n[m] = Cardinality({i \in DOMAIN l : key[i] = m})
  <2>1. \A m : {i \in DOMAIN l : key[i] = m} = {i \in DOMAIN l : l[i].of.model = m}
    OBVIOUS
  <2>2. \A m \in DOMAIN n : n[m] = Cardinality({i \in DOMAIN l : l[i].of.model = m})
    BY DEF PolicyProfile
  <2> HIDE DEF n, key
  <2> QED BY <2>1, <2>2
<1>4. IsFiniteSet(DOMAIN l) /\ Cardinality(DOMAIN l) = Len(l)
  <2>1. DOMAIN l = 1 .. Len(l) /\ Len(l) \in Nat
    BY SequenceFacts
  <2>2. IsFiniteSet(1 .. Len(l)) /\ Cardinality(1 .. Len(l)) = Len(l)
    BY <2>1, FS_Interval
  <2> QED BY <2>1, <2>2
<1>5. {i \in DOMAIN l : key[i] \in DOMAIN n} = DOMAIN l
  BY <1>2
<1> HIDE DEF n, key
<1>6. SumFunction(n) = Cardinality({i \in DOMAIN l : key[i] \in DOMAIN n})
  <2> DEFINE D == DOMAIN l
  <2>1. IsFiniteSet(DOMAIN n)
    BY <1>1, <1>2
  <2>2. IsFiniteSet(D) /\ \A x \in DOMAIN n : n[x] = Cardinality({i \in D : key[i] = x})
    BY <1>3, <1>4
  <2> HIDE DEF D
  <2>3. SumFunction(n) = Cardinality({i \in D : key[i] \in DOMAIN n})
    BY <2>1, <2>2, SumOfCounts
  <2> QED BY <2>3 DEF D
<1> QED BY <1>4, <1>5, <1>6 DEF n

(* Lines, runs and processes name periods and models there are. *)
Observed(me) ==
    me.at \in {"seal", "read", "append", "case"} =>
        "observed" \in DOMAIN me /\ me.observed \in Nat

DatedInv ==
    /\ today \in Nat
    /\ \A r \in DOMAIN runs : runs[r].model \in Models
    /\ \A p \in Procs : Observed(proc[p])
    /\ \A i \in DOMAIN ledger :
         ledger[i].of.period \in Nat /\ ledger[i].of.model \in Models \cup {"unknown"}

\* A run keeps its model.
LEMMA ModelsKept ==
    ASSUME MemoryInv, DatedInv, [Next]_vars
    PROVE  \A r \in DOMAIN runs' : runs'[r].model \in Models
<1>1. \A r \in DOMAIN runs : IsRun(runs[r]) /\ runs[r].model \in Models
  BY DEF MemoryInv, RunSound, DatedInv
<1>2. ASSUME NEW q \in Procs, Runs(proc[q]), NEW run, run.model = runs[proc[q].run].model,
             runs' = [runs EXCEPT ![proc[q].run] = run]
      PROVE  \A r \in DOMAIN runs' : runs'[r].model \in Models
  <2>1. proc[q].run \in DOMAIN runs
    BY <1>2, OwnRun
  <2> QED BY <1>1, <1>2, <2>1
<1>3. CASE UNCHANGED runs
  BY <1>1, <1>3
<1>4. ASSUME NEW q \in Procs, NEW r \in RunIds, NEW m \in Models, StartRun(q, r, m)
      PROVE  \A x \in DOMAIN runs' : runs'[x].model \in Models
  <2> DEFINE run == [model |-> m, attempts |-> <<>>, summary |-> Absent]
  <2>1. runs' = With(runs, r, run) /\ run.model = m
    BY <1>4 DEF StartRun
  <2> HIDE DEF run
  <2> QED BY <1>1, <2>1 DEF With
<1>5. ASSUME NEW q \in Procs, NEW cand \in Candidates, Produce(q, cand)
      PROVE  \A x \in DOMAIN runs' : runs'[x].model \in Models
  <2> DEFINE r == proc[q].run
             t == Append(runs[r].attempts, NewAttempt(cand))
             run == [runs[r] EXCEPT !.attempts = t]
  <2>1. Runs(proc[q])
    BY <1>5, AgentLabels DEF Produce, At
  <2>2. run = [model |-> runs[r].model, attempts |-> t, summary |-> runs[r].summary]
    <3>1. IsRun(runs[r])
      BY <1>1, <2>1, OwnRun
    <3> HIDE DEF t
    <3> QED BY <3>1, RunWithAttempts
  <2>3. run.model = runs[r].model
    <3> HIDE DEF run, t
    <3> QED BY <2>2
  <2>4. runs' = [runs EXCEPT ![r] = run]
    BY <1>5 DEF Produce
  <2> HIDE DEF run
  <2> QED BY <1>2, <2>1, <2>3, <2>4
<1>6. ASSUME NEW q \in Procs, WritePass(q) \/ SealFailure(q) \/ Decide(q)
      PROVE  \A x \in DOMAIN runs' : runs'[x].model \in Models
  <2> DEFINE r == proc[q].run
  <2>1. Runs(proc[q])
    BY <1>6, AgentLabels DEF WritePass, SealFailure, Decide, At
  <2>2. PICK x : SetCurrent(r, x)
    BY <1>6 DEF WritePass, SealFailure, Decide
  <2> DEFINE t == [runs[r].attempts EXCEPT ![Len(runs[r].attempts)] = x]
             run == [runs[r] EXCEPT !.attempts = t]
  <2>3. run = [model |-> runs[r].model, attempts |-> t, summary |-> runs[r].summary]
    <3>1. IsRun(runs[r])
      BY <1>1, <2>1, OwnRun
    <3> HIDE DEF t
    <3> QED BY <3>1, RunWithAttempts
  <2>4. run.model = runs[r].model
    <3> HIDE DEF run, t
    <3> QED BY <2>3
  <2>5. runs' = [runs EXCEPT ![r] = run]
    BY <2>2 DEF SetCurrent
  <2> HIDE DEF run
  <2> QED BY <1>2, <2>1, <2>4, <2>5
<1>7. ASSUME NEW q \in Procs, WriteSummary(q)
      PROVE  \A x \in DOMAIN runs' : runs'[x].model \in Models
  <2> DEFINE r == proc[q].run
             run == [runs[r] EXCEPT !.summary = Current(r).verdict]
  <2>1. Runs(proc[q])
    BY <1>7, AgentLabels DEF WriteSummary, At
  <2>2. r \in DOMAIN runs /\ IsRun(runs[r])
    BY <1>1, <2>1, OwnRun
  <2>3. run = [model |-> runs[r].model, attempts |-> runs[r].attempts,
               summary |-> Current(r).verdict]
    BY <2>2 DEF IsRun
  <2>4. run.model = runs[r].model
    <3> HIDE DEF run
    <3> QED BY <2>3
  <2>5. runs' = [runs EXCEPT ![r] = run]
    BY <1>7 DEF WriteSummary
  <2> HIDE DEF run
  <2> QED BY <1>2, <2>1, <2>4, <2>5
<1>8. ASSUME NEW q \in Procs, StartBenchmark(q) \/ SealOrConfirm(q) \/ ReadLedger(q)
                              \/ AppendEntry(q) \/ Kill(q)
      PROVE  UNCHANGED runs
  BY <1>8 DEF StartBenchmark, SealOrConfirm, ReadLedger, AppendEntry, Kill
<1>9. UNCHANGED vars \/ NextPeriod => UNCHANGED runs
  BY DEF vars, NextPeriod
<1> QED BY <1>3, <1>4, <1>5, <1>6, <1>7, <1>8, <1>9 DEF Next

\* A process keeps the day it observed until its line is added.
LEMMA ObservedKept ==
    ASSUME MemoryInv, DatedInv, [Next]_vars
    PROVE  \A p \in Procs : Observed(proc'[p])
<1>1. /\ proc = [p \in Procs |-> proc[p]] /\ today \in Nat
      /\ \A p \in Procs : "at" \in DOMAIN proc[p] /\ Observed(proc[p])
  BY DEF MemoryInv, ProcessSound, DatedInv
<1>2. ASSUME NEW q \in Procs, NEW step, Goto(q, step), Observed(step)
      PROVE  \A p \in Procs : Observed(proc'[p])
  BY <1>1, <1>2 DEF Goto
<1>3. Observed(Idle)
  BY DEF Observed, Idle
<1>4. \A q \in Procs : \A label : label \notin {"seal", "read", "append", "case"} =>
        Observed([proc[q] EXCEPT !.at = label])
  BY <1>1 DEF Observed
<1>5. \A q, label : label \in {"produce", "decide", "summary"} =>
        Observed([at |-> label, run |-> q])
  BY DEF Observed
<1>6. \A rest, observed : observed \in Nat => Observed(NextCase(rest, observed))
  BY DEF Observed, NextCase, Idle
<1>7. ASSUME NEW q \in Procs, proc[q].at \in {"seal", "read", "append", "case"}
      PROVE  /\ "observed" \in DOMAIN proc[q] /\ proc[q].observed \in Nat
             /\ \A label : Observed([proc[q] EXCEPT !.at = label])
             /\ \A label, v : Observed(Held(proc[q], label, "cand", v))
             /\ \A label, v : Observed(Held(proc[q], label, "entries", v))
  <2>1. "observed" \in DOMAIN proc[q] /\ proc[q].observed \in Nat
    BY <1>1, <1>7 DEF Observed
  <2> QED BY <2>1 DEF Observed, Held, With
<1>8. CASE UNCHANGED vars \/ NextPeriod
  BY <1>1, <1>8 DEF vars, NextPeriod
<1>9. ASSUME NEW q \in Procs, NEW r \in RunIds, NEW m \in Models, StartRun(q, r, m)
      PROVE  \A p \in Procs : Observed(proc'[p])
  BY <1>2, <1>5, <1>9 DEF StartRun
<1>10. ASSUME NEW q \in Procs, NEW cand \in Candidates, Produce(q, cand)
       PROVE  \A p \in Procs : Observed(proc'[p])
  <2>1. Continue(q, "pass") \/ Goto(q, Idle)
        \/ Goto(q, [at |-> "seal", run |-> proc[q].run, observed |-> today])
    BY <1>10 DEF Produce
  <2>2. Observed([at |-> "seal", run |-> proc[q].run, observed |-> today])
    BY <1>1 DEF Observed
  <2> QED BY <1>2, <1>3, <1>4, <2>1, <2>2 DEF Continue
<1>11. ASSUME NEW q \in Procs, WritePass(q) \/ SealFailure(q)
       PROVE  \A p \in Procs : Observed(proc'[p])
  <2>1. \/ Goto(q, [proc[q] EXCEPT !.at = "summary"])
        \/ proc[q].at = "seal" /\ Goto(q, [proc[q] EXCEPT !.at = "read"])
    BY <1>11 DEF WritePass, SealFailure, Continue, At
  <2> QED BY <1>2, <1>4, <1>7, <2>1
<1>12. ASSUME NEW q \in Procs, Decide(q) \/ WriteSummary(q) \/ Kill(q)
       PROVE  \A p \in Procs : Observed(proc'[p])
  <2>1. \/ \E label \in {"produce", "summary"} : Goto(q, [at |-> label, run |-> proc[q].run])
        \/ Goto(q, Idle)
    BY <1>12 DEF Decide, WriteSummary, Kill
  <2> QED BY <1>2, <1>3, <1>5, <2>1
<1>13. ASSUME NEW q \in Procs, StartBenchmark(q)
       PROVE  \A p \in Procs : Observed(proc'[p])
  BY <1>1, <1>2, <1>6, <1>13 DEF StartBenchmark
<1>14. ASSUME NEW q \in Procs, SealOrConfirm(q)
       PROVE  \A p \in Procs : Observed(proc'[p])
  <2>1. /\ proc[q].at = "case"
        /\ \/ Goto(q, Held(proc[q], "read", "cand", CaseFile[Head(proc[q].rest)]))
           \/ Goto(q, NextCase(Tail(proc[q].rest), proc[q].observed))
    BY <1>14 DEF SealOrConfirm, At
  <2> QED BY <1>2, <1>6, <1>7, <2>1
<1>15. ASSUME NEW q \in Procs, ReadLedger(q)
       PROVE  \A p \in Procs : Observed(proc'[p])
  BY <1>2, <1>7, <1>15 DEF ReadLedger, At
<1>16. ASSUME NEW q \in Procs, AppendEntry(q)
       PROVE  \A p \in Procs : Observed(proc'[p])
  <2>1. /\ proc[q].at = "append"
        /\ \/ Goto(q, [at |-> "decide", run |-> proc[q].run])
           \/ Goto(q, NextCase(Tail(proc[q].rest), proc[q].observed))
    BY <1>16 DEF AppendEntry, At
  <2> QED BY <1>2, <1>5, <1>6, <1>7, <2>1
<1> QED BY <1>8, <1>9, <1>10, <1>11, <1>12, <1>13, <1>14, <1>15, <1>16 DEF Next

\* The line that is added has the day that was observed.
LEMMA LineIsDated ==
    ASSUME MemoryInv, DatedInv, NEW p \in Procs, AppendEntry(p)
    PROVE  \A i \in DOMAIN ledger' :
             ledger'[i].of.period \in Nat /\ ledger'[i].of.model \in Models \cup {"unknown"}
<1> DEFINE o == Occurrence(p)
           e == AppendOccurrence(proc[p].entries, o)
<1>1. proc[p].at = "append" /\ ledger' = Append(ledger, e)
  BY DEF AppendEntry, At
<1>2. proc[p].observed \in Nat
  BY <1>1 DEF DatedInv, Observed
<1>3. o.period = proc[p].observed
  BY DEF Occurrence
<1>4. o.model \in Models \cup {"unknown"}
  <2>1. CASE Runs(proc[p])
    <3>1. o.model = runs[proc[p].run].model
      BY <2>1 DEF Occurrence, IsAgent, Runs
    <3> QED BY <2>1, <3>1, OwnRun DEF DatedInv
  <2>2. CASE ~Runs(proc[p])
    BY <2>2 DEF Occurrence, IsAgent, Runs
  <2> QED BY <2>1, <2>2
<1>5. e.of = o
  BY DEF AppendOccurrence
<1> HIDE DEF o, e
<1>6. /\ DOMAIN ledger = 1 .. Len(ledger) /\ DOMAIN ledger' = 1 .. Len(ledger) + 1
      /\ Len(ledger) \in Nat
      /\ \A i \in 1 .. Len(ledger) : ledger'[i] = ledger[i]
      /\ ledger'[Len(ledger) + 1] = e
  BY <1>1, AppendIsSequence DEF MemoryInv
<1>7. ASSUME NEW i \in DOMAIN ledger'
      PROVE  ledger'[i].of.period \in Nat /\ ledger'[i].of.model \in Models \cup {"unknown"}
  <2>1. CASE i \in DOMAIN ledger
    BY <1>6, <2>1 DEF DatedInv
  <2>2. CASE i = Len(ledger) + 1
    BY <1>2, <1>3, <1>4, <1>5, <1>6, <2>2
  <2> QED BY <1>6, <2>1, <2>2
<1> QED BY <1>7

(* DatedInv holds throughout: the day a run observed is the day its line   *)
(* bears, and the model that of the run (agent.py, run_benchmark.py).      *)
THEOREM DatedInvariant == Spec => []DatedInv
<1>1. Init => DatedInv
  BY DEF Init, DatedInv, Observed, Idle
<1>2. MemoryInv /\ DatedInv /\ [Next]_vars => DatedInv'
  <2> SUFFICES ASSUME MemoryInv, DatedInv, [Next]_vars PROVE DatedInv'
    OBVIOUS
  <2>1. today' \in Nat
    <3>1. UNCHANGED today \/ NextPeriod
      BY DEF Next, vars, StartRun, Produce, WritePass, SealFailure, Decide, WriteSummary,
         StartBenchmark, SealOrConfirm, ReadLedger, AppendEntry, Kill
    <3>2. today \in Nat /\ (NextPeriod => today' = today + 1)
      BY DEF DatedInv, NextPeriod
    <3> QED BY <3>1, <3>2
  <2>2. \A i \in DOMAIN ledger' :
          ledger'[i].of.period \in Nat /\ ledger'[i].of.model \in Models \cup {"unknown"}
    BY LedgerStep, LineIsDated DEF DatedInv
  <2> QED BY <2>1, <2>2, ModelsKept, ObservedKept DEF DatedInv
<1> QED BY <1>1, <1>2, MemoryInvariant, PTL DEF Spec

(* Whatever order lines come in, the history, the metric and the profiles  *)
(* agree on them (history.py, recurrence_metric.py, policy.py).            *)
THEOREM HistoryAlwaysAgrees == Spec => []HistoryAgrees
<1>1. MemoryInv /\ DatedInv => HistoryAgrees
  <2> SUFFICES ASSUME MemoryInv, DatedInv PROVE HistoryAgrees
    OBVIOUS
  <2>1. /\ Dated(ledger)
        /\ \A i \in DOMAIN ledger : ledger[i].of.model \in Models \cup {"unknown"}
    BY DEF MemoryInv, DatedInv, Dated
  <2>2. SumFunction([m \in Models \cup {"unknown"} |-> PolicyProfile(ledger, m).total]) = Len(ledger)
    BY <2>1, ProfilesSplit DEF Dated
  <2>3. ASSUME NEW f \in ObservedFamilies(ledger)
        PROVE  LET row == RecurrenceSeries(ledger, f)
                   decline == DeclineOf(row)
                   recurrence == Recurrence(ledger, f)
                   extinct == ExtinctFamilies(ledger, 1, 3)
                   growing == Growing(ledger)
               IN  /\ f \in extinct <=> decline.eliminated
                   /\ f \in extinct <=> recurrence.latest < Max(AllPeriods(ledger))
                   /\ ExtinctionStatus(ledger, f, 1, 3) = "declining" =>
                        decline.fallen > 0 /\ decline.final > 0 /\ f \notin growing
                   /\ f \in growing => f \notin extinct
                   /\ SumFunction(row) = recurrence.total
                   /\ recurrence.active <= recurrence.span
    <3>1. f \in ExtinctFamilies(ledger, 1, 3) <=> ExtinctionStatus(ledger, f, 1, 3) = "extinct"
      BY DEF ExtinctFamilies
    <3> QED BY <2>1, <3>1, FamilyAgrees
  <2> QED BY <2>2, <2>3 DEF HistoryAgrees
<1> QED BY <1>1, MemoryInvariant, DatedInvariant, PTL
=============================================================================
