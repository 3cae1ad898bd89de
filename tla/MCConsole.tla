------------------------------ MODULE MCConsole ------------------------------
(* Rows of workflows at work, one for each way the page differs.               *)
EXTENDS Console

At(st, sg, ss) == [Blank EXCEPT !.state = st, !.stage = sg, !.status = ss]
MCRows ==
  {At("INTAKE", "feasibility", "ready"),
   [At("INTAKE", "sandbox", "processing") EXCEPT !.aged = TRUE],
   At("NEEDS_HUMAN", "sandbox", "blocked"),
   [At("BLOCKED_POLICY", "policy", "blocked") EXCEPT !.violations = TRUE],
   At("PR_OPEN", "feasibility", "pending"),
   \* a set that an ingest job proposed late, or a diagnosis
   [At("WAITING_USER_APPROVAL", "feasibility", "pending") EXCEPT !.proposed = TRUE]}
MCTurns == {At("NEEDS_HUMAN", "sandbox", "blocked"), At("INTAKE", "feasibility", "ready")}
=============================================================================
