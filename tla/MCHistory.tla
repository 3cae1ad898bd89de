------------------------------ MODULE MCHistory -------------------------------
(* An instance of History: two callers, a check suite that timed out and a     *)
(* pull request that was merged.                                              *)
EXTENDS History, TLC

MCDelivery ==
  [d \in {"suite", "pull"} |->
     IF d = "suite" THEN [type |-> "check_suite", completed |-> TRUE, head |-> "b1", conclusion |-> "timed_out"]
     ELSE [type |-> "pull_request", completed |-> TRUE, head |-> "b1", conclusion |-> "merged"]]
MCViolations == {[secrets |-> 0, others |-> 0], [secrets |-> 1, others |-> 1]}
MCStarts == {[state |-> "PR_OPEN", base |-> "b1"]}
MCRestoreOptions == {{}, {"event"}}
Symmetry == Permutations(Callers)
=============================================================================
