----------------------------- MODULE MCGeneration -----------------------------
(* An instance of Generation: the repository loses its context file with the   *)
(* second commit; an answer may be too dear for the budget.                    *)
EXTENDS Generation

MCRepos == <<"main">>
MCContextAt == [r \in {"main"} |-> {1}]
MCReplies ==
  {[kind |-> "answer", cost |-> 1, text |-> "good"], [kind |-> "answer", cost |-> 1, text |-> "bad"],
   [kind |-> "answer", cost |-> 2, text |-> "good"], [kind |-> "refusal"]}
===============================================================================
