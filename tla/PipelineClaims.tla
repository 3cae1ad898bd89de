---------------------------- MODULE PipelineClaims ----------------------------
(***************************************************************************)
(* What the repository's documents, comments and tests say of a workflow   *)
(* and the engine does not do.  Each property quotes its source.  The      *)
(* README lists, for each of them, the constants under which TLC refutes it*)
(* and what happens there.  Claims that hold in some circumstances and fail*)
(* in others (PendingHasWork, NoPrForBlockedPatch) are in PipelineSafety.  *)
(***************************************************************************)
EXTENDS PipelineSafety

(* transition.ts:58: "Terminal states - no transitions out (check first to    *)
(* reject all events)".                                                       *)
HaltingIsFinal == [][(state \in HaltingStates) => state' = state]_vars

(* state-writer.ts:6: "This is the ONLY place that writes workflow.state."    *)
OnlyStateWriterWrites ==
  [][state' # state => \E o \in Orchestrators : WriteTransitionResult(o)]_vars

(* workflows.service.ts:566: "Check workflow is at the right stage and        *)
(* status": when an approval takes effect the stage it names is the           *)
(* workflow's and is ready.                                                   *)
ApprovesReadyStage ==
  [][\A r \in Requests :
       UpdateWorkflow(r) /\ req[r].ev.type = "E_STAGE_APPROVED"
         => stage = req[r].stage /\ stageStatus = "ready"]_vars

(* WorkflowDetailPage.tsx:2755, when the status is ready: "... analysis ready *)
(* for review": the document of the stage the workflow is at exists.          *)
ReadyStageHasArtifact ==
  stageStatus = "ready" /\ stage \in {"feasibility", "architecture", "timeline", "summary"}
    => stage \in artifacts

(* workflows.service.ts:883, on regeneration: "Mark any proposed patch sets   *)
(* as rejected to avoid re-processing": none of them is validated any more.   *)
RejectedNotReprocessed ==
  [][StartSandbox =>
       patchSets[Current("sandbox_validation")].status # "rejected"]_vars

(* apps/worker/README.md:24: "`apply_patches` - Apply approved patches".      *)
OnlyApprovedApplied ==
  [][\A i \in PatchSetIds :
       patchSets'[i].prs > patchSets[i].prs => patchSets[i].status = "approved"]_vars

(* workflows.service.ts:757, of retryStage: "Sets stageStatus to pending and  *)
(* enqueues the stage job.": the orchestrator has a job for every retry.      *)
RetryEnqueuesJob ==
  \A o \in Orchestrators :
    orch[o].pc = "commit" /\ orch[o].ev.type = "E_STAGE_RETRY" => orch[o].jobs # {}

(* CONTEXT.md, state machine: APPLYING_PATCHES to PR_OPEN is "(all patches    *)
(* applied, PRs opened)"; transition.ts:210: "More PatchSets still being      *)
(* applied - stay in APPLYING_PATCHES".                                       *)
PrOpenMeansAllApplied ==
  state = "PR_OPEN" => WithStatus("approved") = {}

(* README.md:73: "PATCHES_PROPOSED --> WAITING_USER_APPROVAL: Gate 2 passed". *)
Gate2PassedMovesOn ==
  ~ /\ Quiescent /\ state = "PATCHES_PROPOSED"
    /\ \A i \in PatchSetIds : patchSets[i].evaluated /\ ~ HasBlockRow(i)

(* WorkflowDetailPage.tsx:396, on cancel: "This will stop all in-progress     *)
(* operations.": no pull request is opened for a cancelled workflow.          *)
CancelStopsWork ==
  [][\A i \in PatchSetIds :
       state = "CANCELLED" => patchSets'[i].prs = patchSets[i].prs]_vars

(* CONTEXT.md:48: "Architecture, scope, non-goals, and acceptance criteria    *)
(* are produced before patches."                                              *)
ArchitectureBeforeCode == patchSets # <<>> => "architecture" \in artifacts

(* A CI run that failed blocks the sandbox stage: workflows.service.ts:815,   *)
(* "Regenerate patches using CI feedback from the sandbox stage", which the   *)
(* service allows only for a blocked one.                                     *)
FailedSandboxBlocks ==
  stage = "sandbox" /\ stageStatus = "ready" /\ SandboxMode = "run"
    => \A i \in PatchSetIds :
         patchSets[i].status \in {"proposed", "approved"} => patchSets[i].sandbox # {"fail"}
=============================================================================
