---------------------------- MODULE CampaignProtocol ----------------------------
(***************************************************************************)
(* What sfa_bench/campaigns/protocol.py accepts: a campaign document, the  *)
(* policies and the execution plan inside it, the reference to its lock,   *)
(* and a candidate manifest.  Pure: every operator returns the set of      *)
(* issue codes, and a document is accepted when that set is empty.         *)
(*                                                                         *)
(* A document is a record of the fields that decide something; fields that *)
(* must only be present and well typed are one field, "shape".  A digest   *)
(* is the value digested, a path a model of its role, a text the kind of   *)
(* claim it makes.                                                         *)
(***************************************************************************)
EXTENDS Naturals, FiniteSets, Sequences

CONSTANTS
    Absent,        \* the JSON null, or no such field
    Placeholder    \* TO_BE_CONFIRMED_AT_EXECUTION

When(condition, code) == IF condition THEN {code} ELSE {}

RunClassifications == {"development", "pilot", "official"}
CampaignStatuses == {"draft_not_executed", "preregistered", "halted_before_execution"}
AliasStatuses == {"fixed_snapshot", "mutable_alias", "to_be_confirmed"}
Decisions == {"prepare", "ratify", "reject", "halt"}

\* shape: "exact", or the first thing wrong with the set of fields and types
ShapeIssues(shape) ==
    CASE shape = "exact" -> {}
      [] shape = "missing" -> {"MISSING_REQUIRED_FIELD"}
      [] shape = "unknown" -> {"UNKNOWN_FIELD"}
      [] shape = "not finite" -> {"NONFINITE_NUMBER_FORBIDDEN"}
      [] shape = "surrogate" -> {"INVALID_UNICODE_SCALAR"}
      [] OTHER -> {"INVALID_FIELD_TYPE"}

SchemaIssues(version) ==
    When(version = "older", "SCHEMA_MIGRATION_REQUIRED")
        \cup When(version \notin {"current", "older"}, "UNSUPPORTED_SCHEMA_VERSION")

\* A path names a file of the repository, or says what is wrong with it; the
\* placeholder is a path like any other.
PathIssues(path) ==
    When(path \in {"absolute", "drive"}, "PATH_ESCAPE")
        \cup When(path = "parent", "PATH_TRAVERSAL")
        \cup When(path \in {"backslash", "control", "reserved"}, "INVALID_PATH")

-----------------------------------------------------------------------------
(* The parts of a campaign. *)

ReferenceIssues(ref, placeholders) ==
    PathIssues(ref.reference)
        \cup When(ref.sha256 = Placeholder /\ ~placeholders, "INVALID_DIGEST")

RetryIssues(policy) ==
    When(policy.attempts < 1, "INVALID_FIELD_VALUE")
        \cup When(policy.attempts > 1 /\ policy.conditions = {}, "UNDECLARED_RETRY_CONDITIONS")
        \cup When(~policy.preserve, "FAILURE_PRESERVATION_REQUIRED")
        \cup When(policy.influence, "RETRY_METADATA_VERDICT_INFLUENCE")

ExclusionIssues(policy) ==
    When(~policy.preserve, "EXCLUDED_EVIDENCE_MUST_BE_PRESERVED")
        \cup When(~policy.frozen, "POST_OBSERVATION_MUTATION_FORBIDDEN")

\* Every field of the invalid output policy has one permitted value.
InvalidOutputIssues(policy) == When(policy # "required", "INVALID_OUTPUT_POLICY_WEAKENED")

RatificationIssues(policy) ==
    When(~(policy.decisions \subseteq Decisions), "INVALID_RATIFICATION_DECISION")
        \cup When(~({"ratify", "reject", "halt"} \subseteq policy.decisions),
                  "MISSING_RATIFICATION_DECISION")
        \cup When(~policy.evidence, "RATIFICATION_EVIDENCE_REQUIRED")
        \cup When("ratification" \in policy.automatic, "AUTOMATIC_RATIFICATION_FORBIDDEN")
        \cup When("promotion" \in policy.automatic, "AUTOMATIC_PROMOTION_FORBIDDEN")

PlanIssues(plan, c) ==
    When(plan.ordering = "shuffle" /\ plan.seed = Absent, "ORDERING_SEED_REQUIRED")
        \cup When(plan.ordering # "shuffle" /\ plan.seed # Absent, "ORDERING_SEED_NOT_APPLICABLE")
        \cup When(plan.campaign # c.id, "CAMPAIGN_REFERENCE_MISMATCH")
        \cup When(plan.repetitions < 1, "INVALID_FIELD_VALUE")
        \cup When(c.runs >= 1 /\ plan.repetitions # c.runs, "RUN_COUNT_MISMATCH")
        \cup When(plan.classification # c.classification, "RUN_CLASSIFICATION_MISMATCH")
        \cup RetryIssues(plan.retry)
        \cup ExclusionIssues(plan.exclusion)
        \cup When(plan.errors # "preserved", "FAILURE_PRESERVATION_REQUIRED")
        \cup When(plan.output # "campaign_runs", "OUTPUT_PATH_NOT_APPROVED")

\* What the campaign says of a policy, and what its plan says, are one thing.
SurfaceIssues(c) ==
    When(\/ c.retry # c.plan.retry
         \/ c.exclusion # c.plan.exclusion
         \/ c.halts # c.plan.halts, "POLICY_SURFACE_MISMATCH")

InputIssues(inputs) ==
    (UNION {PathIssues(path) : path \in inputs.paths})
        \cup When(inputs.paths = {}, "EMPTY_REQUIRED_LIST")
        \cup When(inputs.command = "many lines", "INVALID_COMMAND")

HoldoutIssues(holdout) ==
    When(holdout.committed /\ holdout.digest = Placeholder, "INVALID_DIGEST")

LockReferenceIssues(ref, c, required) ==
    IF ref = Absent
      THEN When(required, "OFFICIAL_CAMPAIGN_REQUIRES_LOCK")
      ELSE When(ref.path # "campaign_locks", "BENCHMARK_LOCK_PATH_NOT_APPROVED")
             \cup When(ref.status # "frozen", "BENCHMARK_LOCK_NOT_FROZEN")
             \cup When(ref.repository_commit # c.benchmark_commit \/ ref.verifier_commit # c.verifier_commit,
                       "OFFICIAL_LOCK_REFERENCE_MISMATCH")

-----------------------------------------------------------------------------
(* Texts that claim what a document cannot claim.  A text is where it      *)
(* stands (the name of the field, and whether the field is configuration,  *)
(* which the code distrusts) and whether its key or its value makes the    *)
(* claim; a value counts only where a claim is expected.                   *)

Expected(text) == text.field = "configuration" \/ text.key \in {"status", "outcome"}

GovernanceClaim(text) ==
    \/ text.key = "governance"
    \/ Expected(text) /\ text.value = "governance"

CompletionClaim(text) ==
    \/ text.key = "completion"
    \/ Expected(text) /\ text.value = "completion"

SecretIssues(texts) ==
    When(\E t \in texts : t.key = "secret", "SECRET_FIELD_FORBIDDEN")
        \cup When(\E t \in texts : t.key # "secret" /\ t.value = "secret", "LIKELY_SECRET_DETECTED")

CampaignClaimIssues(c) ==
    When(\E t \in c.texts : t.field # "ratification_policy" /\ GovernanceClaim(t),
         "CAMPAIGN_GOVERNANCE_CLAIM_FORBIDDEN")
        \cup When(c.status = "draft_not_executed" /\ \E t \in c.texts : CompletionClaim(t),
                  "DRAFT_COMPLETION_CLAIM")

-----------------------------------------------------------------------------
\* Mutant of Placeholders: a draft may keep them in its lock.
DraftPlaceholders(c, forLockBuild) == c.status = "draft_not_executed"

Placeholders(c, forLockBuild) == c.status = "draft_not_executed" /\ ~forLockBuild

OfficialIssues(c) ==
    When(c.classification = "official" /\ (c.alias = "to_be_confirmed" \/ c.model = Placeholder),
         "OFFICIAL_MODEL_ID_UNRESOLVED")
        \cup When(c.classification = "official" /\ c.status = "draft_not_executed",
                  "DRAFT_OFFICIAL_CONFLICT")

\* The issues of a campaign document, as read for its lock or for use.
ValidateCampaign(c, forLockBuild) ==
    ShapeIssues(c.shape)
        \cup SchemaIssues(c.schema)
        \cup When(c.status \notin CampaignStatuses \/ c.classification \notin RunClassifications
                      \/ c.alias \notin AliasStatuses, "INVALID_FIELD_VALUE")
        \cup When(c.alias = "mutable_alias" /\ ~c.alias_declared, "MUTABLE_ALIAS_UNDECLARED")
        \cup ReferenceIssues(c.system_prompt, Placeholders(c, forLockBuild))
        \cup When(c.runs < 1, "INVALID_FIELD_VALUE")
        \cup When(c.frozen_cases = Placeholder /\ ~Placeholders(c, forLockBuild), "INVALID_DIGEST")
        \cup InvalidOutputIssues(c.invalid_output)
        \cup RetryIssues(c.retry)
        \cup ExclusionIssues(c.exclusion)
        \cup RatificationIssues(c.ratification)
        \cup HoldoutIssues(c.holdout)
        \cup InputIssues(c.inputs)
        \cup PlanIssues(c.plan, c)
        \cup SurfaceIssues(c)
        \cup LockReferenceIssues(c.lock, c, c.classification = "official" /\ ~forLockBuild)
        \cup OfficialIssues(c)
        \cup CampaignClaimIssues(c)
        \cup SecretIssues(c.texts)

\* The issues of a candidate manifest.
ValidateCandidate(m) ==
    ShapeIssues(m.shape)
        \cup SchemaIssues(m.schema)
        \cup When(m.status # "draft_not_executed", "CANDIDATE_MANIFEST_STATUS_INVALID")
        \cup When(m.alias = "mutable_alias" /\ ~m.alias_declared, "MUTABLE_ALIAS_UNDECLARED")
        \cup When(m.reference.campaign # m.campaign, "CAMPAIGN_REFERENCE_MISMATCH")
        \cup PathIssues(m.reference.path)
        \cup When(m.reference.sha256 = Placeholder /\ m.status # "draft_not_executed", "INVALID_DIGEST")
        \cup When(m.influence # {}, "METADATA_VERDICT_INFLUENCE_FORBIDDEN")
        \cup When(\E t \in m.texts : GovernanceClaim(t), "CANDIDATE_SELF_RATIFICATION_FORBIDDEN")
        \cup When(m.status = "draft_not_executed" /\ \E t \in m.texts : CompletionClaim(t),
                  "DRAFT_COMPLETION_CLAIM")
        \cup SecretIssues(m.texts)

\* Every campaign of a collection by itself, and no identity twice.
ValidateCollection(campaigns) ==
    (UNION {ValidateCampaign(campaigns[i], FALSE) : i \in DOMAIN campaigns})
        \cup When(\E i, j \in DOMAIN campaigns : i < j /\ campaigns[i].id = campaigns[j].id,
                  "DUPLICATE_CAMPAIGN_ID")
=============================================================================
