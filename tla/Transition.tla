----------------------------- MODULE Transition -----------------------------
(***************************************************************************)
(* The pure transition function of the workflow engine:                    *)
(* packages/core/src/workflow/{states,transition}.ts.                      *)
(*                                                                         *)
(* Nothing here has state.  Transition(s, ev, c) answers, for the workflow *)
(* state s, the event ev and the context c the orchestrator loaded from    *)
(* the database, the next workflow state and the set of jobs to enqueue.   *)
(***************************************************************************)
EXTENDS Integers

(* Workflow.state.  INTAKE (written by create) and CANCELLED (written by    *)
(* cancel) are not members of the WorkflowState type of states.ts, although *)
(* both reach the transition function.                                      *)
WorkflowState ==
  {"INTAKE", "INGESTED", "PATCHES_PROPOSED", "WAITING_USER_APPROVAL",
   "APPLYING_PATCHES", "PR_OPEN", "VERIFYING_CI", "DONE", "NEEDS_HUMAN",
   "BLOCKED_POLICY", "FAILED", "REJECTED", "CANCELLED"}

(* The states transition.ts calls terminal: every event is ignored there.   *)
HaltingStates == {"DONE", "FAILED", "BLOCKED_POLICY", "NEEDS_HUMAN", "REJECTED"}

(* The eight stages of the gated pipeline, and "done" behind the last gate. *)
ValidStages ==
  {"feasibility", "architecture", "timeline", "summary",
   "patches", "policy", "sandbox", "pr"}
GatedStage == ValidStages \cup {"done"}

NextStage ==
  [feasibility |-> "architecture", architecture |-> "timeline",
   timeline |-> "summary", summary |-> "patches", patches |-> "policy",
   policy |-> "sandbox", sandbox |-> "pr", pr |-> "done"]

StageStatus ==
  {"pending", "processing", "ready", "approved", "rejected", "blocked",
   "needs_changes"}

(* The stages whose approval a workflow at stage s must have behind it.     *)
Before(s) ==
  CASE s = "feasibility"  -> {}
    [] s = "architecture" -> {"feasibility"}
    [] s = "timeline"     -> {"feasibility", "architecture"}
    [] s = "summary"      -> {"feasibility", "architecture", "timeline"}
    [] s = "patches"      -> {"feasibility", "architecture", "timeline", "summary"}
    [] s = "policy"       -> {"feasibility", "architecture", "timeline",
                              "summary", "patches"}
    [] s = "sandbox"      -> ValidStages \ {"sandbox", "pr"}
    [] s = "pr"           -> ValidStages \ {"pr"}
    [] OTHER              -> ValidStages

-----------------------------------------------------------------------------
(* Jobs.  Each name has a queue of its own; patchSet is 0 where the payload *)
(* holds only the workflow.                                                 *)

AnalysisJob == {"feasibility_analysis", "architecture_analysis",
                "timeline_analysis", "summary_analysis"}
PatchJob == {"evaluate_policy", "sandbox_validation", "apply_patches"}
JobName == AnalysisJob \cup PatchJob \cup {"ingest_context"}

(* The StageName a processor reports in its E_JOB_COMPLETED/E_JOB_FAILED.   *)
StageName ==
  [feasibility_analysis |-> "feasibility", architecture_analysis |-> "architecture",
   timeline_analysis |-> "timeline", summary_analysis |-> "summary",
   ingest_context |-> "ingest_context", evaluate_policy |-> "evaluate_policy",
   sandbox_validation |-> "sandbox", apply_patches |-> "apply_patches"]

NoPatchSet == 0
Job(name) == {[name |-> name, patchSet |-> NoPatchSet]}
JobsFor(name, ids) == {[name |-> name, patchSet |-> i] : i \in ids}

-----------------------------------------------------------------------------
(* Events.  One shape for all: stage is the stage the event speaks of, and  *)
(* flag the one fact transition() reads from the payload, which is          *)
(*   E_JOB_COMPLETED   the result carries a truthy PR number                *)
(*   E_JOB_FAILED      the error says WRITE_BLOCKED or NO_APPROVAL          *)
(*   E_POLICY_EVALUATED  hasBlockingViolations                              *)
(*   E_CI_COMPLETED    the conclusion is "success"                          *)
(* The nextStage of E_STAGE_APPROVED is always NextStage[stage].            *)

EventType ==
  {"E_WORKFLOW_CREATED", "E_JOB_COMPLETED", "E_JOB_FAILED",
   "E_APPROVAL_RECORDED", "E_POLICY_EVALUATED", "E_CI_COMPLETED",
   "E_PR_MERGED", "E_PR_CLOSED", "E_CHANGES_REQUESTED", "E_PATCH_SET_REJECTED",
   "E_STAGE_APPROVED", "E_STAGE_REJECTED", "E_STAGE_CHANGES_REQUESTED",
   "E_STAGE_RETRY"}
EventStage == ValidStages \cup {"ingest_context", "evaluate_policy", "apply_patches", "none"}

Event == [type : EventType, stage : EventStage, flag : BOOLEAN]

Plain(type) == [type |-> type, stage |-> "none", flag |-> FALSE]
OfStage(type, s) == [type |-> type, stage |-> s, flag |-> FALSE]
Flagged(type, s, f) == [type |-> type, stage |-> s, flag |-> f]

IsJobEvent(ev, s) ==
  ev.type \in {"E_JOB_COMPLETED", "E_JOB_FAILED"} /\ ev.stage = s

-----------------------------------------------------------------------------
(* The context is what context-loader.ts reads from the database:           *)
(*   stage         the gated stage of the workflow row                      *)
(*   total, applied, latest  numbers of patch sets, and the newest (0: none)*)
(*   needPolicy, needApproval, approved   sets of patch sets                *)
(*   blocking      the newest patch set has a BLOCK violation               *)
(*   hasApproval   an apply_patches Approval row exists                     *)

Result(next, jobs) == [next |-> next, jobs |-> jobs]
Stay(s) == Result(s, {})

OrLatest(ids, c) == IF ids # {} THEN ids
                    ELSE IF c.latest # NoPatchSet THEN {c.latest} ELSE {}

OnCreated(s, c) ==
  IF c.stage = "feasibility"
    THEN Result(s, Job("feasibility_analysis"))
    ELSE Result("INGESTED", Job("ingest_context"))

\* Mutant: patches go to review while their evaluation is still queued.
OnIngestedToReview(ev, c) ==
  IF ev.type = "E_JOB_FAILED" THEN Result("FAILED", {})
  ELSE Result("WAITING_USER_APPROVAL",
              JobsFor("evaluate_policy", OrLatest(c.needPolicy, c)))

(* INGESTED, on an event of the ingest_context job *)
OnIngested(ev, c) ==
  IF ev.type = "E_JOB_FAILED" THEN Result("FAILED", {})
  ELSE IF OrLatest(c.needPolicy, c) = {} THEN Result("NEEDS_HUMAN", {})
  ELSE Result("PATCHES_PROPOSED",
              JobsFor("evaluate_policy", OrLatest(c.needPolicy, c)))

\* Mutant: a policy verdict, too, makes the engine evaluate what still needs it.
OnPatchesProposedAgain(ev, c) ==
  IF ev.type = "E_POLICY_EVALUATED" /\ ev.flag THEN Result("BLOCKED_POLICY", {})
  ELSE Result("PATCHES_PROPOSED", JobsFor("evaluate_policy", OrLatest(c.needPolicy, c)))

(* PATCHES_PROPOSED, on any event: what is not a policy verdict makes the   *)
(* engine evaluate again whatever still needs it.                           *)
OnPatchesProposed(ev, c) ==
  IF ev.type = "E_POLICY_EVALUATED"
    THEN IF ev.flag THEN Result("BLOCKED_POLICY", {})
         ELSE IF c.needPolicy # {} THEN Stay("PATCHES_PROPOSED")
         ELSE Result("WAITING_USER_APPROVAL", {})
  ELSE IF OrLatest(c.needPolicy, c) # {}
    THEN Result("PATCHES_PROPOSED",
                JobsFor("evaluate_policy", OrLatest(c.needPolicy, c)))
  ELSE Result("NEEDS_HUMAN", {})

OnApprovalRecorded(c) ==
  IF c.blocking THEN Result("BLOCKED_POLICY", {})
  ELSE IF c.approved # {}
    THEN Result("APPLYING_PATCHES", JobsFor("apply_patches", c.approved))
  ELSE IF c.hasApproval /\ c.latest # NoPatchSet
    THEN Result("APPLYING_PATCHES", JobsFor("apply_patches", {c.latest}))
  ELSE Stay("WAITING_USER_APPROVAL")

ReviewEvents == {"E_APPROVAL_RECORDED", "E_POLICY_EVALUATED",
                 "E_CHANGES_REQUESTED", "E_PATCH_SET_REJECTED"}

(* WAITING_USER_APPROVAL, on an event of ReviewEvents *)
OnWaiting(ev, c) ==
  CASE ev.type = "E_APPROVAL_RECORDED"  -> OnApprovalRecorded(c)
    [] ev.type = "E_POLICY_EVALUATED"   ->
         IF ev.flag THEN Result("BLOCKED_POLICY", {}) ELSE Stay("WAITING_USER_APPROVAL")
    [] ev.type = "E_CHANGES_REQUESTED"  -> Result("NEEDS_HUMAN", {})
    [] ev.type = "E_PATCH_SET_REJECTED" -> Result("FAILED", {})

(* APPLYING_PATCHES, on an event of the apply_patches job.  The set just    *)
(* applied is already counted in c.applied when the context is loaded.      *)
OnApplying(ev, c) ==
  IF ev.type = "E_JOB_FAILED"
    THEN Result(IF ev.flag THEN "BLOCKED_POLICY" ELSE "FAILED", {})
  ELSE IF ~ ev.flag THEN Result("BLOCKED_POLICY", {})
  ELSE IF c.total > 0 /\ c.applied = c.total THEN Result("PR_OPEN", {})
  ELSE IF c.applied + 1 < (IF c.total = 0 THEN 1 ELSE c.total)
    THEN Stay("APPLYING_PATCHES")
  ELSE Result("PR_OPEN", {})

PrEvents == {"E_PR_MERGED", "E_PR_CLOSED", "E_CI_COMPLETED"}

\* Mutant: green CI completes the workflow.
OnPrOpenCiDone(ev) ==
  CASE ev.type = "E_PR_MERGED"    -> Result("DONE", {})
    [] ev.type = "E_PR_CLOSED"    -> Result("NEEDS_HUMAN", {})
    [] ev.type = "E_CI_COMPLETED" -> Result(IF ev.flag THEN "DONE" ELSE "NEEDS_HUMAN", {})

(* PR_OPEN, on an event of PrEvents *)
OnPrOpen(ev) ==
  CASE ev.type = "E_PR_MERGED"    -> Result("DONE", {})
    [] ev.type = "E_PR_CLOSED"    -> Result("NEEDS_HUMAN", {})
    [] ev.type = "E_CI_COMPLETED" ->
         IF ev.flag THEN Stay("PR_OPEN") ELSE Result("NEEDS_HUMAN", {})

OnVerifyingCi(ev) == Result(IF ev.flag THEN "DONE" ELSE "NEEDS_HUMAN", {})

-----------------------------------------------------------------------------
(* Stage events, in any state that does not halt.                           *)

JobsForStage(s) ==
  CASE s = "feasibility"  -> Job("feasibility_analysis")
    [] s = "architecture" -> Job("architecture_analysis")
    [] s = "timeline"     -> Job("timeline_analysis")
    [] s = "summary"      -> Job("summary_analysis")
    [] s = "patches"      -> Job("ingest_context")
    [] OTHER              -> {}

\* Mutant: the jobs of the sandbox stage are forgotten, as those of "pr" are on retry.
OnStageApprovedNoSandbox(s, c) ==
  CASE s = "policy"  -> JobsFor("evaluate_policy", OrLatest(c.needPolicy, c))
    [] s = "pr"      -> JobsFor("apply_patches", OrLatest(c.needApproval, c))
    [] OTHER         -> JobsForStage(s)

OnStageApproved(s, c) ==
  CASE s = "policy"  -> JobsFor("evaluate_policy", OrLatest(c.needPolicy, c))
    [] s = "sandbox" -> JobsFor("sandbox_validation", OrLatest(c.needApproval, c))
    [] s = "pr"      -> JobsFor("apply_patches", OrLatest(c.needApproval, c))
    [] OTHER         -> JobsForStage(s)

(* Changes requested and retry enqueue the same jobs; for the pr stage none. *)
RerunJobs(s, c) ==
  CASE s = "policy"  -> JobsFor("evaluate_policy", OrLatest(c.needPolicy, c))
    [] s = "sandbox" -> JobsFor("sandbox_validation", OrLatest(c.needApproval, c))
    [] OTHER         -> JobsForStage(s)

(* The end of transition(): what every state without a rule of its own does. *)
OnAnyState(s, ev, c) ==
  CASE ev.type = "E_POLICY_EVALUATED" /\ ev.flag -> Result("BLOCKED_POLICY", {})
    [] ev.type = "E_JOB_FAILED" /\ ev.stage \in
         {"feasibility", "architecture", "timeline", "summary", "sandbox",
          "ingest_context"}                      -> Result("NEEDS_HUMAN", {})
    [] ev.type = "E_STAGE_APPROVED" -> Result(s, OnStageApproved(NextStage[ev.stage], c))
    [] ev.type = "E_STAGE_REJECTED" -> Result("REJECTED", {})
    [] ev.type \in {"E_STAGE_CHANGES_REQUESTED", "E_STAGE_RETRY"}
                                    -> Result(s, RerunJobs(ev.stage, c))
    [] OTHER                        -> Stay(s)

Transition(s, ev, c) ==
  IF s \in HaltingStates THEN Stay(s)
  ELSE IF ev.type = "E_WORKFLOW_CREATED" THEN OnCreated(s, c)
  ELSE IF s = "INGESTED" /\ IsJobEvent(ev, "ingest_context") THEN OnIngested(ev, c)
  ELSE IF s = "PATCHES_PROPOSED" THEN OnPatchesProposed(ev, c)
  ELSE IF s = "WAITING_USER_APPROVAL" /\ ev.type \in ReviewEvents THEN OnWaiting(ev, c)
  ELSE IF s = "APPLYING_PATCHES" /\ IsJobEvent(ev, "apply_patches") THEN OnApplying(ev, c)
  ELSE IF s = "PR_OPEN" /\ ev.type \in PrEvents THEN OnPrOpen(ev)
  ELSE IF s = "VERIFYING_CI" /\ ev.type = "E_CI_COMPLETED" THEN OnVerifyingCi(ev)
  ELSE OnAnyState(s, ev, c)
=============================================================================
