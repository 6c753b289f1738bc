------------------------------- MODULE Verifier -------------------------------
(***************************************************************************)
(* The deterministic judge: the rules of sfa/verifier.py, the leaf family  *)
(* of sfa/families.py, and the two verdicts of a deferred-consequence case *)
(* (sfa/deferred_consequence.py): by its gold fact, and by the gold-absent *)
(* contract of sfa/property_contract.py.                                   *)
(*                                                                         *)
(* A candidate maps the fields it has to typed values; a claim may be no   *)
(* object at all.  A subject is its name with the keyword groups it        *)
(* contains, a value is what it is with its kind: classification looks at  *)
(* nothing else.                                                           *)
(***************************************************************************)
EXTENDS Naturals, Sequences, SequencesExt, FiniteSets

CONSTANT NoViolation

Claim(subject, value) == [object |-> TRUE, subject |-> subject, value |-> value]
NotAnObject == [object |-> FALSE]

ListOf(items) == [type |-> "list", items |-> items]

\* candidate.get(field, []) of a field that has no or another type is no list.
ItemsOf(cand, field) == IF field \in DOMAIN cand THEN cand[field].items ELSE <<>>
NotAList(cand, field) == field \in DOMAIN cand /\ cand[field].type # "list"

\* The first of these results that is a violation.
FirstViolation(results) ==
    LET hits == {i \in DOMAIN results : results[i] # NoViolation}
    IN  IF hits = {} THEN NoViolation ELSE results[Min(hits)]

FieldTypes(rule, cand) ==
    IF \E f \in DOMAIN rule.types \cap DOMAIN cand : cand[f].type # rule.types[f]
    THEN "SCHEMA_VIOLATION" ELSE NoViolation

RequiredFields(rule, cand) ==
    IF rule.fields \subseteq DOMAIN cand THEN NoViolation ELSE "MISSING_REQUIRED_FIELD"

CitationsExist(rule, cand, evidence) ==
    IF NotAList(cand, rule.field) THEN "SCHEMA_VIOLATION"
    ELSE IF \E c \in ToSet(ItemsOf(cand, rule.field)) : \A fact \in ToSet(evidence.facts) : fact.id # c
    THEN "FABRICATED_ENTITY" ELSE NoViolation

\* A dictionary of the facts: the last fact of a subject counts.
FactFor(facts, subject) == facts[Max({i \in DOMAIN facts : facts[i].subject = subject})].value

Supported(facts, subject) == \E i \in DOMAIN facts : facts[i].subject = subject

\* Claims are read in order; reading a field of what is no object raises.
ClaimsMatchEvidence(rule, cand, evidence) ==
    LET fault(claim) ==
          IF ~claim.object THEN "raises"
          ELSE IF ~Supported(evidence.facts, claim.subject) THEN "UNSUPPORTED_CLAIM"
          ELSE IF claim.value # FactFor(evidence.facts, claim.subject) THEN "CONTRADICTS_EVIDENCE"
          ELSE NoViolation
        claims == ItemsOf(cand, rule.field)
    IN  IF NotAList(cand, rule.field) THEN "SCHEMA_VIOLATION"
        ELSE FirstViolation([i \in DOMAIN claims |-> fault(claims[i])])

RuleResult(rule, cand, evidence) ==
    CASE rule.type = "field_types" -> FieldTypes(rule, cand)
      [] rule.type = "required_fields" -> RequiredFields(rule, cand)
      [] rule.type = "citations_exist" -> CitationsExist(rule, cand, evidence)
      [] rule.type = "claims_match_evidence" -> ClaimsMatchEvidence(rule, cand, evidence)
      [] OTHER -> "SCHEMA_VIOLATION"

\* verify: every rule runs, the first violation is the primary category.
Verify(evidence, cand, rules) ==
    LET results == [i \in DOMAIN rules |-> RuleResult(rules[i], cand, evidence)]
        first == FirstViolation(results)
    IN  IF "raises" \in ToSet(results) THEN [status |-> "raises", category |-> "raises"]
        ELSE IF first = NoViolation THEN [status |-> "PASS", category |-> NoViolation]
        ELSE [status |-> "FAIL", category |-> first]

-----------------------------------------------------------------------------
(* The family of a failure, and the taxonomy of families.json. *)

CategoryToFamily ==
    [UNSUPPORTED_CLAIM |-> "unsupported_claim", CONTRADICTS_EVIDENCE |-> "contradicts_evidence",
     FABRICATED_ENTITY |-> "fabricated_entity", MISSING_REQUIRED_FIELD |-> "missing_required_field",
     SCHEMA_VIOLATION |-> "schema_violation"]

\* The value decides before the words of the subject do.
RefineUnsupported(subject, value) ==
    CASE value.kind = "bool" -> "unsupported_claim"
      [] value.kind = "number" -> "unsupported_number"
      [] value.kind = "date" -> "unsupported_date"
      [] value.kind = "text" /\ "attribution" \in subject.words -> "unsupported_attribution"
      [] value.kind = "text" /\ "attribution" \notin subject.words
             /\ "citation" \in subject.words -> "unsupported_citation"
      [] OTHER -> "unsupported_claim"

ClassifyFamily(category, cand, evidence) ==
    LET claims == ItemsOf(cand, "claims")
        unsupported == {i \in DOMAIN claims :
            claims[i].object => ~Supported(evidence.facts, claims[i].subject)}
        first == claims[Min(unsupported)]
    IN  IF evidence.task_family = "deferred_consequence"
        THEN IF category = "CONTRADICTS_EVIDENCE" THEN "deferred_consequence_stale"
             ELSE "deferred_consequence"
        ELSE IF category = "UNSUPPORTED_CLAIM" /\ unsupported # {}
        THEN IF first.object THEN RefineUnsupported(first.subject, first.value)
             ELSE "schema_violation"
        ELSE CategoryToFamily[category]

\* The parent of each family of families.json; a root is its own parent here.
Parent ==
    [unsupported_claim |-> "unsupported_claim", unsupported_number |-> "unsupported_claim",
     unsupported_attribution |-> "unsupported_claim", unsupported_date |-> "unsupported_claim",
     unsupported_citation |-> "unsupported_claim", contradicts_evidence |-> "contradicts_evidence",
     fabricated_entity |-> "fabricated_entity", missing_required_field |-> "missing_required_field",
     schema_violation |-> "schema_violation", deferred_consequence |-> "deferred_consequence",
     deferred_consequence_stale |-> "deferred_consequence", uncategorized |-> "uncategorized"]

Ancestry(family) == {family, Parent[family]}

\* validate_taxonomy_references, for one artifact or ledger entry.
TaxonomyReference(category, family) ==
    family \in DOMAIN Parent /\ CategoryToFamily[category] \in Ancestry(family)

-----------------------------------------------------------------------------
(* The gold-absent contract: a conjunction of decidable properties. *)

\* The positions of the claims about the subject; the last of them counts.
ReportedClaims(cand, subject) ==
    LET claims == ItemsOf(cand, "claims")
    IN  {i \in DOMAIN claims : claims[i].object /\ claims[i].subject = subject}

LastReported(cand, subject) == ItemsOf(cand, "claims")[Max(ReportedClaims(cand, subject))].value

SchemaValidity(cand) == "claims" \in DOMAIN cand /\ cand["claims"].type = "list"

\* Mutant of InternalConsistency: only the next claim is compared.
AdjacentConsistency(cand) ==
    LET claims == ItemsOf(cand, "claims")
    IN  /\ ~NotAList(cand, "claims")
        /\ \A i \in DOMAIN claims : claims[i].object
        /\ \A i \in 1 .. Len(claims) - 1 :
             claims[i].subject = claims[i + 1].subject => claims[i].value = claims[i + 1].value

InternalConsistency(cand) ==
    LET claims == ItemsOf(cand, "claims")
    IN  /\ ~NotAList(cand, "claims")
        /\ \A i \in DOMAIN claims : claims[i].object
        /\ \A i, j \in DOMAIN claims :
             claims[i].subject = claims[j].subject => claims[i].value = claims[j].value

ValueAdmissibility(cand, context) ==
    /\ ReportedClaims(cand, context.subject) # {}
    /\ \E ep \in ToSet(context.timeline) : ep.value = LastReported(cand, context.subject)

\* max(updates, key=offset): the first of the updates with the largest offset.
TemporalRecency(cand, context) ==
    LET line == context.timeline
        updates == {i \in DOMAIN line : line[i].kind = "update"}
        latest == CHOOSE i \in updates : \A j \in updates :
            line[j].offset < line[i].offset \/ (line[j].offset = line[i].offset /\ i <= j)
    IN  /\ updates # {} /\ ReportedClaims(cand, context.subject) # {}
        /\ LastReported(cand, context.subject) = line[latest].value

\* property_contract: what the contract of a deferred-consequence case asks.
EvaluateContract(cand, context) ==
    /\ SchemaValidity(cand) /\ InternalConsistency(cand)
    /\ ValueAdmissibility(cand, context) /\ TemporalRecency(cand, context)

-----------------------------------------------------------------------------
(* A deferred-consequence case: its subject holds v0 until the update at   *)
(* offset u, v1 from then on.                                              *)

GenerateCase(subject, v0, v1, u) == [subject |-> subject, v0 |-> v0, v1 |-> v1, update |-> u]

CaseRules ==
    <<[type |-> "field_types", types |-> [claims |-> "list"]],
      [type |-> "required_fields", fields |-> {"claims"}],
      [type |-> "claims_match_evidence", field |-> "claims"]>>

ScoringEvidence(case) ==
    [facts |-> <<[id |-> "x1", subject |-> case.subject, value |-> case.v1]>>,
     task_family |-> "deferred_consequence"]

PropertyContext(case) ==
    [subject |-> case.subject,
     timeline |-> <<[offset |-> 0, kind |-> "premise", value |-> case.v0],
                    [offset |-> case.update, kind |-> "update", value |-> case.v1]>>]

ScoreCandidate(case, cand) == Verify(ScoringEvidence(case), cand, CaseRules)

ScoreByContract(case, cand) == EvaluateContract(cand, PropertyContext(case))
=============================================================================
