----------------------------- MODULE FailureMemory -----------------------------
(***************************************************************************)
(* What is derived from the occurrence ledger of sfa/ledger.py: the check  *)
(* of its chain, the history reports (history.py), the recurrence-decline  *)
(* metric (recurrence_metric.py) and the retry policy (policy.py).         *)
(*                                                                         *)
(* A ledger is a sequence of entries; the hash of an entry is the entry.   *)
(* A period is a number, a model that is not named is "unknown".           *)
(***************************************************************************)
EXTENDS Naturals, Sequences, SequencesExt, FiniteSets, FiniteSetsExt

CONSTANT Genesis    \* the link of the first entry

\* Mutant of AppendOccurrence: linked to the first entry.
AppendToFirst(entries, occurrence) ==
    [of |-> occurrence, seq |-> Len(entries),
     prev |-> IF entries = <<>> THEN Genesis ELSE entries[1]]

\* append_occurrence: the entry made from the entries that were read.
AppendOccurrence(entries, occurrence) ==
    [of |-> occurrence, seq |-> Len(entries),
     prev |-> IF entries = <<>> THEN Genesis ELSE Last(entries)]

\* verify_chain: positions and links are as they should be.
VerifyChain(entries) ==
    \A i \in DOMAIN entries :
        /\ entries[i].seq = i - 1
        /\ entries[i].prev = IF i = 1 THEN Genesis ELSE entries[i - 1]

-----------------------------------------------------------------------------
(* history.py *)

\* The entries of the occurrences with these values, by their positions.
Occurrences(entries, values) ==
    {i \in DOMAIN entries : \A k \in DOMAIN values : entries[i].of[k] = values[k]}

\* Mutant of AllPeriods: the last line is taken for the latest period.
PeriodsUpToLastLine(entries) ==
    {entries[i].of.period : i \in {j \in DOMAIN entries :
        entries[j].of.period <= Last(entries).of.period}}

\* The periods, in the order of numbers.
AllPeriods(entries) == {entries[i].of.period : i \in DOMAIN entries}

ObservedFamilies(entries) == {entries[i].of.family : i \in DOMAIN entries}

\* The number of occurrences of a family in a period.
FamilyTimeline(entries, family, period) ==
    Cardinality(Occurrences(entries, [family |-> family, period |-> period]))

\* recurrence: where a family begins and ends, and how often it occurred.
Recurrence(entries, family) ==
    LET found == Occurrences(entries, [family |-> family])
        periods == {entries[i].of.period : i \in found}
    IN  [total |-> Cardinality(found), first |-> Min(periods), latest |-> Max(periods),
         active |-> Cardinality(periods), span |-> Max(periods) - Min(periods) + 1]

\* periods[-n:], and none of them for n = 0.
LastOf(periods, n) == {p \in periods : Cardinality({q \in periods : q > p}) < n}

ExtinctionStatus(entries, family, silent, window) ==
    LET periods == AllPeriods(entries)
        count(p) == FamilyTimeline(entries, family, p)
        recent == LastOf(periods, window)
    IN  IF periods = {} THEN "unknown"
        ELSE IF family \notin ObservedFamilies(entries) THEN "absent"
        ELSE IF \A p \in LastOf(periods, silent) : count(p) = 0 THEN "extinct"
        ELSE IF Cardinality(recent) >= 2 /\ count(Max(recent)) > 0
                /\ \A p, q \in recent : p < q => count(p) > count(q)
        THEN "declining" ELSE "active"

ExtinctFamilies(entries, silent, window) ==
    {f \in ObservedFamilies(entries) : ExtinctionStatus(entries, f, silent, window) = "extinct"}

\* fastest_growing: the families that grew between the last two periods.
Growing(entries) ==
    LET periods == AllPeriods(entries)
        latest == Max(periods)
    IN  {f \in ObservedFamilies(entries) : Cardinality(periods) >= 2 /\
            FamilyTimeline(entries, f, latest) > FamilyTimeline(entries, f, Max(periods \ {latest}))}

-----------------------------------------------------------------------------
(* recurrence_metric.py *)

EpochAxis(entries) == {entries[i].of.period : i \in DOMAIN entries}

RecurrenceSeries(entries, family) ==
    [p \in EpochAxis(entries) |->
        Cardinality(Occurrences(entries, [family |-> family, period |-> p]))]

\* decline_of, for a series with an occurrence in it.
DeclineOf(row) ==
    LET peak == Max({row[p] : p \in DOMAIN row})
        at == Min({p \in DOMAIN row : row[p] = peak})
        final == row[Max(DOMAIN row)]
    IN  [peak |-> peak, final |-> final, eliminated |-> final = 0, fallen |-> peak - final,
         monotone |-> \A p, q \in DOMAIN row : at <= p /\ p < q => row[p] >= row[q]]

-----------------------------------------------------------------------------
(* policy.py: what is decided for the next attempt of a generator. *)

\* The families with a directive; their order is only that of the text.
FamilyPriority ==
    {"fabricated_entity", "contradicts_evidence", "unsupported_claim", "missing_required_field"}

RecurrenceThreshold == 2
MaxPolicyRetries == 2

\* _policy_input_from_ledger: the failures of one model by family.
PolicyProfile(entries, model) ==
    LET mine == {i \in DOMAIN entries : entries[i].of.model = model}
    IN  [total |-> Cardinality(mine),
         families |-> [f \in {entries[i].of.family : i \in mine} |->
            Cardinality({i \in mine : entries[i].of.family = f})]]

\* Mutant of Recurring: the first occurrence counts as recurrence.
EverOccurred(profile) == {f \in DOMAIN profile.families : profile.families[f] >= 1}

Recurring(profile) ==
    {f \in DOMAIN profile.families : profile.families[f] >= RecurrenceThreshold}

\* decide_policy: applied[f] tells how often f's directive was given before.
DecidePolicy(profile, attempt, applied) ==
    LET triggered == FamilyPriority \cap Recurring(profile)
        level(f) == IF attempt > MaxPolicyRetries \/ applied[f] >= 2 THEN 3 ELSE applied[f] + 1
        levels == {level(f) : f \in triggered}
    IN  [directives |-> triggered,
         escalation |-> IF attempt > MaxPolicyRetries THEN 3
                        ELSE IF levels = {} THEN 0 ELSE Max(levels),
         terminate |-> attempt > MaxPolicyRetries \/ 3 \in levels]
=============================================================================
