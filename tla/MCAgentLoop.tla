------------------------------ MODULE MCAgentLoop ------------------------------
(* The contract-status task: a correct candidate, one that contradicts the *)
(* evidence, one of no schema, and one whose claim is no object.           *)
EXTENDS AgentLoop, TLC

status == [name |-> "approval_status", words |-> {}]
pending == [kind |-> "text", is |-> "pending"]
approved == [kind |-> "text", is |-> "approved"]

Answer(claims) == [cited_evidence |-> ListOf(<<"f2">>), claims |-> ListOf(claims)]

ContentOf(name) ==
    CASE name = "right" -> Answer(<<Claim(status, pending)>>)
      [] name = "wrong" -> Answer(<<Claim(status, approved)>>)
      [] name = "untyped" -> [cited_evidence |-> ListOf(<<"f2">>),
                              claims |-> [type |-> "str", items |-> <<>>]]
      [] name = "raising" -> Answer(<<NotAnObject>>)

ContractEvidence ==
    [facts |-> <<[id |-> "f2", subject |-> status, value |-> pending]>>, task_family |-> "none"]

ContractRules ==
    <<[type |-> "field_types", types |-> [cited_evidence |-> "list", claims |-> "list"]],
      [type |-> "required_fields", fields |-> {"cited_evidence", "claims"}],
      [type |-> "citations_exist", field |-> "cited_evidence"],
      [type |-> "claims_match_evidence", field |-> "claims"]>>

OneCase == <<"case_002">>
WrongCase == [c \in {"case_002"} |-> "wrong"]
NothingOrOther(c) == {Absent, "wrong", "untyped"}

NameSymmetry == Permutations(Procs) \cup Permutations(RunIds)
=============================================================================
