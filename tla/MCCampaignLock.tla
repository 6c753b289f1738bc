----------------------------- MODULE MCCampaignLock -----------------------------
(* A pilot, an official campaign and a draft with open placeholders, over a *)
(* case directory of two files.                                            *)
EXTENDS CampaignLock, TLC

TwoFiles == {"case_1", "case_2"}

Retry == [attempts |-> 1, conditions |-> {}, preserve |-> TRUE, influence |-> FALSE]
Exclusion == [preserve |-> TRUE, frozen |-> TRUE]

Document(status, classification, digest, cases) ==
    [shape |-> "exact", schema |-> "current", id |-> "campaign", status |-> status,
     classification |-> classification, alias |-> "fixed_snapshot", alias_declared |-> FALSE,
     model |-> "model", release |-> "v1", benchmark_commit |-> 1, verifier_commit |-> 1,
     system_prompt |-> [reference |-> "prompt", sha256 |-> digest], frozen_cases |-> cases,
     runs |-> 1, invalid_output |-> "required", retry |-> Retry, exclusion |-> Exclusion,
     halts |-> {"halt"}, holdout |-> [committed |-> FALSE, digest |-> Placeholder],
     inputs |-> [paths |-> {"cases"}, command |-> "one line"],
     ratification |-> [decisions |-> Decisions, evidence |-> TRUE, automatic |-> {}],
     plan |-> [campaign |-> "campaign", classification |-> classification, repetitions |-> 1,
               ordering |-> "fixed", seed |-> Absent, retry |-> Retry, exclusion |-> Exclusion,
               halts |-> {"halt"}, errors |-> "preserved", output |-> "campaign_runs"],
     lock |-> Absent, texts |-> {}]

AllV1 == {[path |-> f, sha256 |-> "v1"] : f \in TwoFiles}

Documents == {Document("draft_not_executed", "pilot", "v1", AllV1),
              Document("preregistered", "official", "v1", AllV1),
              Document("draft_not_executed", "pilot", Placeholder, Placeholder)}

ProcSymmetry == Permutations(Procs)
=============================================================================
