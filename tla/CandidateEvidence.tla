--------------------------- MODULE CandidateEvidence ---------------------------
(***************************************************************************)
(* Successor evidence of frontier_delta/candidate_evidence.py: preserved   *)
(* answers are scored again, and the successor binds what it was made      *)
(* from, so that anyone can make it again.                                 *)
(*                                                                         *)
(* A world is what a process meets: the raw rows, the predecessor, the     *)
(* working tree (disk), the commits of the repository, and the code the    *)
(* process loaded when it started (loaded).  The bytes of a file are its   *)
(* content with its line ends; a digest is what it digests.                *)
(***************************************************************************)
EXTENDS Naturals, Sequences, SequencesExt, FiniteSets

Bytes(content, eol) == [content |-> content, eol |-> eol]

\* _BENCHMARK_SOURCE_PATHS and _VERIFIER_SOURCE_PATHS, less those of equal role.
BenchmarkSources == {"candidate_adapter", "candidate_evidence", "checks"}
VerifierSources == {"verifier", "checks"}

\* The code that decides what a score is.
ScoringCode == {"candidate_adapter", "checks"}

Defect(fails, code) == [fails |-> fails, code |-> code]

\* The code of the first defect, or "ok".
FirstCode(defects) ==
    LET hits == {i \in DOMAIN defects : defects[i].fails}
    IN  IF hits = {} THEN "ok" ELSE defects[Min(hits)].code

-----------------------------------------------------------------------------
(* The inputs. *)

RawTasks(raw) == {raw[i].task : i \in DOMAIN raw}
RowOf(raw, task) == raw[CHOOSE i \in DOMAIN raw : raw[i].task = task]

LoadRawRows(raw) ==
    FirstCode([i \in DOMAIN raw |->
        CASE raw[i].line # "row" -> Defect(TRUE, raw[i].line)
          [] raw[i].line = "row" ->
               Defect(\E j \in 1 .. i - 1 : raw[j].task = raw[i].task, "raw_evidence_duplicate_task_id")]
        \o <<Defect(raw = <<>>, "raw_evidence_empty")>>)

LoadPredecessor(pred) ==
    LET old == pred.content
        repeated == \E i, j \in DOMAIN old.rows : i # j /\ old.rows[i] = old.rows[j]
    IN  FirstCode(<<Defect(old.seal # old.rows, "predecessor_seal_mismatch"),
                    Defect(repeated, "predecessor_duplicate_task_id")>>)

\* _captured_task_digest_relation: the bytes the digest was taken of, when it
\* differs from the bytes of today by line ends only.
TaskDigestRelation(bytes, captured) ==
    CASE captured.eol = "none" -> "not_recorded"
      [] captured = bytes -> "exact_bytes"
      [] captured # bytes /\ captured = Bytes(bytes.content, "lf") -> "lf_normalized_equivalent"
      [] captured # bytes /\ captured = Bytes(bytes.content, "crlf") -> "crlf_normalized_equivalent"
      [] OTHER -> "captured_task_digest_mismatch"

\* Every path has at the commit the bytes it has on disk.
PathsAtCommit(world, commit, paths) == \A p \in paths : world.commits[commit][p] = world.disk[p]

\* Mutant of RepositoryBindings: the commits need only exist.
CommitsResolve(world, benchmark, verifier, tasks) ==
    FirstCode(<<Defect(benchmark \notin DOMAIN world.commits, "benchmark_commit_unresolved"),
                Defect(verifier \notin DOMAIN world.commits, "verifier_commit_unresolved")>>)

RepositoryBindings(world, benchmark, verifier, tasks) ==
    FirstCode(<<Defect(benchmark \notin DOMAIN world.commits, "benchmark_commit_unresolved"),
                Defect(verifier \notin DOMAIN world.commits, "verifier_commit_unresolved"),
                Defect(benchmark \in DOMAIN world.commits /\
                       ~PathsAtCommit(world, benchmark, BenchmarkSources \cup tasks),
                       "benchmark_commit_content_mismatch"),
                Defect(verifier \in DOMAIN world.commits /\
                       ~PathsAtCommit(world, verifier, VerifierSources),
                       "verifier_commit_content_mismatch")>>)

-----------------------------------------------------------------------------
(* Building a successor. *)

\* score_response, as a function of the answer, the task and the code.
Rescore(answer, task, code) == [answer |-> answer, task |-> task, code |-> code]

LoadedCode(world) == [p \in ScoringCode |-> world.loaded[p]]

RowDefects(world, row) ==
    <<Defect(row.lane = "other", "raw_evidence_lane_mismatch"),
      Defect(row.body = "changed", "captured_raw_response_digest_mismatch"),
      Defect(TaskDigestRelation(world.disk[row.task], row.digest) = "captured_task_digest_mismatch",
             "captured_task_digest_mismatch")>>

\* What is refused, in the order of the checks.
BuildRefusal(world, request) ==
    LET raw == world.raw
        old == world.pred.content
        tasks == RawTasks(raw)
        inputs == FirstCode(<<
            Defect(request.id = "invalid", "artifact_id_invalid"),
            Defect("short" \in {request.benchmark, request.verifier}, "commit_invalid"),
            Defect(request.reason = "blank", "regeneration_reason_missing"),
            Defect(LoadRawRows(raw) # "ok", LoadRawRows(raw)),
            Defect(LoadPredecessor(world.pred) # "ok", LoadPredecessor(world.pred)),
            Defect(tasks # ToSet(old.rows), "evidence_task_set_mismatch"),
            Defect(~(tasks \subseteq DOMAIN world.disk), "raw_evidence_unknown_task_id")>>)
        bindings == RepositoryBindings(world, request.benchmark, request.verifier, tasks)
    IN  IF inputs # "ok" THEN inputs
        ELSE IF bindings # "ok" THEN bindings
        ELSE FirstCode(FlattenSeq([i \in DOMAIN raw |-> RowDefects(world, raw[i])]))

Successor(world, request) ==
    [id |-> request.id, reason |-> request.reason,
     benchmark |-> request.benchmark, verifier |-> request.verifier,
     raw |-> world.raw, pred |-> world.pred,
     adapter |-> world.disk["candidate_adapter"], evidence |-> world.disk["candidate_evidence"],
     tasks |-> [t \in RawTasks(world.raw) |->
        [bytes |-> world.disk[t],
         relation |-> TaskDigestRelation(world.disk[t], RowOf(world.raw, t).digest)]],
     results |-> [t \in RawTasks(world.raw) |->
        Rescore(RowOf(world.raw, t).text, world.disk[t].content, LoadedCode(world))]]

\* A file: what it says, the seal it declares, and its serialization.
Sealed(successor) == [says |-> successor, seal |-> successor, form |-> "deterministic"]

BuildSuccessor(world, request) ==
    [code |-> BuildRefusal(world, request), file |-> Sealed(Successor(world, request))]

-----------------------------------------------------------------------------
(* Verifying a successor. *)

Request(successor) ==
    [id |-> successor.id, reason |-> successor.reason,
     benchmark |-> successor.benchmark, verifier |-> successor.verifier]

DigestRefusal(world, says) ==
    FirstCode(<<
        Defect(says.raw # world.raw, "raw_evidence_digest_mismatch"),
        Defect(says.pred # world.pred, "predecessor_digest_mismatch"),
        Defect(says.adapter # world.disk["candidate_adapter"], "candidate_adapter_digest_mismatch"),
        Defect(says.evidence # world.disk["candidate_evidence"], "candidate_evidence_digest_mismatch"),
        Defect(~(DOMAIN says.tasks \subseteq DOMAIN world.disk), "task_not_found"),
        Defect(\E t \in DOMAIN says.tasks \cap DOMAIN world.disk : says.tasks[t].bytes # world.disk[t],
               "task_digest_mismatch")>>)

VerifySuccessor(world, file) ==
    LET says == file.says
        digests == DigestRefusal(world, says)
        rebuilt == BuildSuccessor(world, Request(says))
    IN  IF file.seal # says THEN "successor_seal_mismatch"
        ELSE IF file.form # "deterministic" THEN "successor_serialization_mismatch"
        ELSE IF digests # "ok" THEN digests
        ELSE IF rebuilt.code # "ok" THEN rebuilt.code
        ELSE IF rebuilt.file.says # says THEN "successor_rederivation_mismatch"
        ELSE "ok"
=============================================================================
