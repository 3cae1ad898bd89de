---------------------------- MODULE ClientActions ----------------------------
(***************************************************************************)
(* The API's handlers of client actions on a workflow (workflows.service.ts*)
(* in apps/api/src) and of GitHub webhooks (webhooks.controller.ts).       *)
(*                                                                         *)
(* A handler reads the workflow row, returns an error if the action is not *)
(* allowed, and then runs a series of single-row writes, each an await of  *)
(* its own, whose values it computed from the row it read at the start.    *)
(* There is no transaction and no row version: handlers of concurrent      *)
(* requests, the worker's processors and the orchestrator interleave       *)
(* between the writes, and a handler that dies leaves the earlier writes.  *)
(***************************************************************************)
EXTENDS WorkflowStore

CONSTANT Requests   \* requests that may be in progress at the same time

VARIABLES
  req,     \* for each request, the writes its handler still has to make
  calls    \* client actions and webhooks so far (bound of the checked instances)

-----------------------------------------------------------------------------
(* The writes of a handler, in the order every handler makes those it has:   *)
(*   check     read PolicyViolation rows (approveStage, policy stage)         *)
(*   approval  create the Approval row                                       *)
(*   mark      set the status of patch sets                                  *)
(*   decide    create the StageDecision row                                  *)
(*   update    update the Workflow row                                       *)
(*   emit      add the event to the orchestrate queue                        *)
Steps == {"check", "approval", "mark", "decide", "update", "emit"}
\* Mutants: the decision is recorded after the update; the event is sent
\* before the decision; the approval is recorded last.
OrderDecideLate ==
  [check |-> 1, approval |-> 2, mark |-> 3, decide |-> 6, update |-> 4, emit |-> 5]
OrderEmitFirst ==
  [check |-> 1, approval |-> 2, mark |-> 3, decide |-> 5, update |-> 6, emit |-> 4]
OrderApprovalLast ==
  [check |-> 1, approval |-> 7, mark |-> 3, decide |-> 4, update |-> 5, emit |-> 6]
Order == [check |-> 1, approval |-> 2, mark |-> 3, decide |-> 4, update |-> 5, emit |-> 6]

Keep == "keep"   \* a column the update leaves alone
Row(st, sg, ss) == [state |-> st, stage |-> sg, stageStatus |-> ss]
NoRow == Row(Keep, Keep, Keep)

IdleRequest ==
  [todo |-> {}, stage |-> "feasibility", decision |-> "approve", row |-> NoRow,
   mark |-> "approved", marked |-> {}, ev |-> Plain("E_WORKFLOW_CREATED")]

Idle(r) == req[r].todo = {}

NextStep(r, step) ==
  step \in req[r].todo /\ \A t \in req[r].todo : Order[step] <= Order[t]

Begin(r, request) ==
  /\ Idle(r)
  /\ calls' = calls + 1
  /\ req' = [req EXCEPT ![r] = request]
  /\ UNCHANGED <<rowVars, decisions, artifacts, patchSets, approved, queueVars, boundVars>>

-----------------------------------------------------------------------------
(* Stage actions.  Each of them returns WRONG_STAGE unless the stage it     *)
(* names is the workflow's, so the stage is not a parameter here.           *)

\* Mutant: the last two gates are taken for one.
ApprovedRowSkipsPr(s, seen) ==
  IF s \in {"sandbox", "pr"} THEN Row("DONE", "done", "approved")
                            ELSE Row(seen, NextStage[s], "pending")

(* The row approveStage writes: the stage after the approved one and, where *)
(* that is not "done", the workflow state it READ.                          *)
ApprovedRow(s, seen) ==
  IF NextStage[s] = "done" THEN Row("DONE", "done", "approved")
                           ELSE Row(seen, NextStage[s], "pending")

ApproveStage(r) ==
  /\ stage \in ValidStages
  /\ stageStatus = "ready"
  /\ Begin(r, [IdleRequest EXCEPT
       !.todo = {"decide", "update", "emit"} \cup (IF stage = "policy" THEN {"check"} ELSE {}),
       !.stage = stage, !.decision = "approve",
       !.row = ApprovedRow(stage, state),
       !.ev = OfStage("E_STAGE_APPROVED", stage)])

RejectStage(r) ==
  /\ stage \in ValidStages
  /\ Begin(r, [IdleRequest EXCEPT
       !.todo = {"decide", "update", "emit"},
       !.stage = stage, !.decision = "reject",
       !.row = Row("REJECTED", Keep, "rejected"),
       !.ev = OfStage("E_STAGE_REJECTED", stage)])

RequestStageChanges(r) ==
  /\ stage \in ValidStages
  /\ Begin(r, [IdleRequest EXCEPT
       !.todo = {"decide", "update", "emit"},
       !.stage = stage, !.decision = "request_changes",
       !.row = Row(Keep, Keep, "needs_changes"),
       !.ev = OfStage("E_STAGE_CHANGES_REQUESTED", stage)])

RetryableStatuses == {"ready", "needs_changes", "blocked", "approved"}

RetryStage(r) ==
  /\ stage \in ValidStages
  /\ stageStatus \in RetryableStatuses
  /\ Begin(r, [IdleRequest EXCEPT
       !.todo = {"update", "emit"},
       !.stage = stage,
       !.row = Row(Keep, Keep, "pending"),
       !.ev = OfStage("E_STAGE_RETRY", stage)])

(* Back from a blocked sandbox to the patches stage; the proposed patch sets *)
(* are marked rejected first ("to avoid re-processing").                     *)
RegeneratePatches(r) ==
  /\ stage = "sandbox"
  /\ stageStatus = "blocked"
  /\ Begin(r, [IdleRequest EXCEPT
       !.todo = {"mark", "decide", "update", "emit"},
       !.stage = "sandbox", !.decision = "request_changes",
       !.mark = "rejected",
       !.row = Row(Keep, "patches", "pending"),
       !.ev = OfStage("E_STAGE_CHANGES_REQUESTED", "patches")])

-----------------------------------------------------------------------------
(* Patch set actions, from before the gated pipeline and still served.  None *)
(* of them looks at the state of the workflow or of the patch set.           *)

Approve(r) ==
  \E i \in PatchSetIds :
    Begin(r, [IdleRequest EXCEPT
      !.todo = {"approval", "mark", "emit"}, !.mark = "approved", !.marked = {i},
      !.ev = Plain("E_APPROVAL_RECORDED")])

Reject(r) ==
  \E i \in PatchSetIds :
    Begin(r, [IdleRequest EXCEPT
      !.todo = {"mark", "emit"}, !.mark = "rejected", !.marked = {i},
      !.ev = Plain("E_PATCH_SET_REJECTED")])

RequestChanges(r) ==
  /\ PatchSetIds # {}
  /\ Begin(r, [IdleRequest EXCEPT
       !.todo = {"emit"}, !.ev = Plain("E_CHANGES_REQUESTED")])

CancellableStates == {"INGESTED", "PATCHES_PROPOSED", "WAITING_USER_APPROVAL",
                      "APPLYING_PATCHES", "PR_OPEN", "VERIFYING_CI"}

Cancel(r) ==
  /\ state \in CancellableStates
  /\ Begin(r, [IdleRequest EXCEPT
       !.todo = {"update"}, !.row = Row("CANCELLED", Keep, Keep)])

-----------------------------------------------------------------------------
(* The writes. *)

Done(r, step) ==
  req' = [req EXCEPT ![r] = IF req[r].todo = {step} THEN IdleRequest
                            ELSE [req[r] EXCEPT !.todo = @ \ {step}]]

(* BLOCKING_VIOLATIONS_EXIST ends the request *)
CheckViolations(r) ==
  /\ NextStep(r, "check")
  /\ IF SomeBlockRow THEN req' = [req EXCEPT ![r] = IdleRequest] ELSE Done(r, "check")
  /\ UNCHANGED <<rowVars, decisions, artifacts, patchSets, approved, queueVars,
                 boundVars, calls>>

CreateApproval(r) ==
  /\ NextStep(r, "approval")
  /\ approved' = TRUE
  /\ Done(r, "approval")
  /\ UNCHANGED <<rowVars, decisions, artifacts, patchSets, queueVars, boundVars, calls>>

(* One set by id whatever its status or, where none is named (regenerate),   *)
(* every set that is proposed when the write runs.                           *)
MarkPatchSets(r) ==
  /\ NextStep(r, "mark")
  /\ LET sets == IF req[r].marked # {} THEN req[r].marked ELSE WithStatus("proposed")
     IN patchSets' = [i \in PatchSetIds |->
          IF i \in sets THEN [patchSets[i] EXCEPT !.status = req[r].mark]
                        ELSE patchSets[i]]
  /\ Done(r, "mark")
  /\ UNCHANGED <<rowVars, decisions, artifacts, approved, queueVars, boundVars, calls>>

CreateDecision(r) ==
  /\ NextStep(r, "decide")
  /\ decisions' = decisions \cup {[stage |-> req[r].stage, decision |-> req[r].decision]}
  /\ Done(r, "decide")
  /\ UNCHANGED <<rowVars, artifacts, patchSets, approved, queueVars, boundVars, calls>>

\* Mutant: a column the handler leaves out is written as well.
WrittenAlways(new, old) == new

Written(new, old) == IF new = Keep THEN old ELSE new

UpdateWorkflow(r) ==
  /\ NextStep(r, "update")
  /\ state' = Written(req[r].row.state, state)
  /\ stage' = Written(req[r].row.stage, stage)
  /\ stageStatus' = Written(req[r].row.stageStatus, stageStatus)
  /\ Done(r, "update")
  /\ UNCHANGED <<decisions, artifacts, patchSets, approved, queueVars, boundVars, calls>>

EmitEvent(r) ==
  /\ NextStep(r, "emit")
  /\ EmitFromApi(req[r].ev)
  /\ Done(r, "emit")
  /\ UNCHANGED <<rowVars, decisions, artifacts, patchSets, approved, jobQ, boundVars, calls>>

(* The API process dies, or a database or Redis call throws and the client   *)
(* gets a 500: the writes already made stay.                                 *)
AbandonRequest(r) ==
  /\ ~ Idle(r)
  /\ crashes' = crashes + 1
  /\ req' = [req EXCEPT ![r] = IdleRequest]
  /\ UNCHANGED <<rowVars, decisions, artifacts, patchSets, approved, queueVars,
                 faults, calls>>

HandleRequest(r) ==
  \/ CheckViolations(r) \/ CreateApproval(r) \/ MarkPatchSets(r)
  \/ CreateDecision(r) \/ UpdateWorkflow(r) \/ EmitEvent(r)

-----------------------------------------------------------------------------
(* Webhooks.  GitHub merges or closes a pull request at any time.  The       *)
(* handler finds the workflow through the PullRequest row and emits; a pull  *)
(* request without a row is "No workflow found".                             *)
PullRequestEvent(i, merged) ==
  /\ patchSets[i].pr = "open"
  /\ calls' = calls + 1
  /\ patchSets' = [patchSets EXCEPT ![i].pr = "closed", ![i].merged = @ \/ merged]
  /\ IF patchSets[i].prRows > 0
       THEN EmitFromApi(Plain(IF merged THEN "E_PR_MERGED" ELSE "E_PR_CLOSED"))
       ELSE UNCHANGED orchQ
  /\ UNCHANGED <<rowVars, decisions, artifacts, approved, jobQ, req, boundVars>>

(* check_run (matched on the base commit, known once patches are generated)  *)
(* and check_suite (matched on a recorded branch).                           *)
CiEvent(success) ==
  /\ patchSets # <<>>
  /\ calls' = calls + 1
  /\ EmitFromApi(Flagged("E_CI_COMPLETED", "none", success))
  /\ UNCHANGED <<rowVars, decisions, artifacts, patchSets, approved, jobQ, req, boundVars>>
=============================================================================
