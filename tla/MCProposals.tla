------------------------------ MODULE MCProposals ------------------------------
(* Three agents of which two are asked, two files, two tasks.                  *)
EXTENDS Proposals

MCProfile == [a \in Agents |->
  [type |-> CASE a = "fe" -> "frontend" [] a = "be" -> "backend" [] OTHER -> "docs",
   handles |-> TRUE, confidence |-> CASE a = "fe" -> 50000 [] a = "be" -> 60000 [] OTHER -> 40000,
   preferred |-> a # "be", language |-> a = "fe", pattern |-> FALSE]]
MCTypeOfFile == [f \in Files |-> CASE f = "view" -> "frontend" [] f = "api" -> "backend" [] OTHER -> "other"]
MCTarget == <<"view", "api">>
MCRegistry == <<[agent |-> "be", priority |-> 50, enabled |-> TRUE], [agent |-> "fe", priority |-> 60, enabled |-> TRUE],
                [agent |-> "do", priority |-> 50, enabled |-> TRUE]>>
MCPolicies == {[f \in Files |-> "dependency"],
               [f \in Files |-> IF f = "view" THEN "frozen" ELSE "secret"],
               [f \in Files |-> IF f = "view" THEN "free" ELSE "frozen"]}

(* One patch of any shape, two of which one lists one file, or, like the      *)
(* repository's own agents, one patch that lists what was asked and changes   *)
(* the first file.                                                            *)
OnePatch == {[task |-> t, files |-> Range(d) \cup g, diff |-> d, headed |-> h] :
               t \in Tasks, g \in {{}, Files}, h \in BOOLEAN, d \in {<<"view">>, <<"api">>, <<"view", "api">>}}
FirstOf(given) == Target[Min({i \in DOMAIN Target : Target[i] \in given})]
MCOffers(given) ==
  {<<p>> : p \in OnePatch}
    \cup {pq \in OnePatch \X {p \in OnePatch : Cardinality(p.files) = 1} : pq[1].headed = pq[2].headed}
    \cup (IF given = {} THEN {} ELSE
            {<<[task |-> t, files |-> given, diff |-> <<FirstOf(given)>>, headed |-> FALSE]>> : t \in Tasks})
=============================================================================
