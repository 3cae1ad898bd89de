--------------------------- MODULE PatchProcessors ---------------------------
(***************************************************************************)
(* The processors that make, judge, try out and apply patch sets:          *)
(* ingest-context, evaluate-policy, sandbox-validation and apply-patches,  *)
(* with the PatchApplicator and the WriteGate the last two write through   *)
(* (packages/core/src/github/patch-applicator.ts, policy/write-gate.ts).   *)
(* Each compares the stage with the one it READ when its job started.      *)
(***************************************************************************)
EXTENDS Processors

CONSTANTS
  NumRepos,     \* repositories of the workflow: patch sets per ingest
  Verdicts,     \* policy verdicts a generated patch may get
  SandboxMode,  \* "run", "skip" (SKIP_SANDBOX_VALIDATION), "unset" (no SANDBOX_WORKFLOW_ID)
  SandboxRuns,  \* what trying a patch set can come to: {"invalid", "pass", "fail"}
  SkipPr        \* SKIP_PR_CREATION

ASSUME PatchAssumption ==
  /\ NumRepos \in Nat \ {0}
  /\ Verdicts \subseteq Verdict /\ Verdicts # {}
  /\ SandboxMode \in {"run", "skip", "unset"}
  /\ SandboxRuns \subseteq {"invalid", "pass", "fail"}
  /\ SkipPr \in BOOLEAN

Current(n) == worker[n].patchSet

(* Changes of the patch set row a job works on *)
SetPatchSet(i, row) == patchSets' = [patchSets EXCEPT ![i] = row]

-----------------------------------------------------------------------------
(* ingest_context: one patch set per repository.  Nothing removes the sets   *)
(* of an earlier run.                                                        *)

StartIngest ==
  LET n == "ingest_context" IN
  /\ At(n, "start")
  /\ stageStatus' = IF Saw(n, "patches") THEN "processing" ELSE stageStatus
  /\ Goto(n, "run")
  /\ UNCHANGED <<state, stage, decisions, artifacts, patchSets, approved, queueVars, boundVars>>

GeneratePatchSet ==
  LET n == "ingest_context" IN
  /\ At(n, "run")
  /\ \E v \in Verdicts : patchSets' = Append(patchSets, NewPatchSet(v))
  /\ worker' = [worker EXCEPT ![n].made = @ + 1,
                              ![n].pc = IF worker[n].made + 1 = NumRepos THEN "ready" ELSE "run"]
  /\ UNCHANGED <<rowVars, decisions, artifacts, approved, queueVars, boundVars>>

IngestReady ==
  LET n == "ingest_context" IN
  /\ At(n, "ready")
  /\ stageStatus' = IF Saw(n, "patches") THEN "ready" ELSE stageStatus
  /\ Goto(n, "emit")
  /\ UNCHANGED <<state, stage, decisions, artifacts, patchSets, approved, queueVars, boundVars>>

IngestCompleted ==
  /\ At("ingest_context", "emit")
  /\ EmitAndReturn("ingest_context", OfStage("E_JOB_COMPLETED", "ingest_context"))

IngestFault == CallFails("ingest_context", {"run", "ready", "emit"}, "caught")

IngestCaught ==
  LET n == "ingest_context" IN
  /\ At(n, "caught")
  /\ stageStatus' = IF Saw(n, "patches") THEN "needs_changes" ELSE stageStatus
  /\ Goto(n, "throw")
  /\ UNCHANGED <<state, stage, decisions, artifacts, patchSets, approved, queueVars, boundVars>>

IngestContext ==
  \/ StartIngest \/ GeneratePatchSet \/ IngestReady \/ IngestCompleted
  \/ IngestCaught \/ EmitFailureAndThrow("ingest_context")

-----------------------------------------------------------------------------
(* evaluate_policy: replaces the set's violation rows in two statements      *)
(* (deleteMany, createMany), records the event, and settles the stage status *)
(* when no proposed set is left without an event.                            *)

StartEvaluation == BeginStage("evaluate_policy", "policy", "clear")

ClearViolations ==
  LET n == "evaluate_policy" IN
  /\ At(n, "clear")
  /\ SetPatchSet(Current(n), [patchSets[Current(n)] EXCEPT !.rows = "none"])
  /\ Goto(n, "record")
  /\ UNCHANGED <<rowVars, decisions, artifacts, approved, queueVars, boundVars>>

\* Mutant: blocking violations are reported but not stored.
RecordWarningsOnly ==
  LET n == "evaluate_policy" IN
  /\ At(n, "record")
  /\ SetPatchSet(Current(n),
       [patchSets[Current(n)] EXCEPT !.rows =
          IF patchSets[Current(n)].verdict = "block" THEN "none" ELSE patchSets[Current(n)].verdict])
  /\ Goto(n, "event")
  /\ UNCHANGED <<rowVars, decisions, artifacts, approved, queueVars, boundVars>>

RecordViolations ==
  LET n == "evaluate_policy" IN
  /\ At(n, "record")
  /\ SetPatchSet(Current(n),
       [patchSets[Current(n)] EXCEPT !.rows = patchSets[Current(n)].verdict])
  /\ Goto(n, "event")
  /\ UNCHANGED <<rowVars, decisions, artifacts, approved, queueVars, boundVars>>

RecordEvaluation ==
  LET n == "evaluate_policy" IN
  /\ At(n, "event")
  /\ SetPatchSet(Current(n), [patchSets[Current(n)] EXCEPT !.evaluated = TRUE])
  /\ Goto(n, IF Saw(n, "policy") THEN "conclude" ELSE "emit")
  /\ UNCHANGED <<rowVars, decisions, artifacts, approved, queueVars, boundVars>>

(* The blocking violation may be one of any set of the workflow, rejected    *)
(* ones included.                                                            *)
ConcludePolicyStage ==
  LET n == "evaluate_policy" IN
  /\ At(n, "conclude")
  /\ stageStatus' =
       IF \E i \in WithStatus("proposed") : ~ patchSets[i].evaluated THEN stageStatus
       ELSE IF SomeBlockRow THEN "blocked" ELSE "ready"
  /\ Goto(n, "emit")
  /\ UNCHANGED <<state, stage, decisions, artifacts, patchSets, approved, queueVars, boundVars>>

EvaluationCompleted ==
  LET n == "evaluate_policy" IN
  /\ At(n, "emit")
  /\ EmitAndReturn(n, Flagged("E_POLICY_EVALUATED", "none",
                              patchSets[Current(n)].verdict = "block"))

EvaluationFault ==
  CallFails("evaluate_policy",
            {"start", "clear", "record", "event", "conclude", "emit"}, "fail")

(* "treat as non-blocking to allow manual override"; the job is not retried  *)
EvaluationFailed ==
  /\ At("evaluate_policy", "fail")
  /\ EmitAndReturn("evaluate_policy", Flagged("E_POLICY_EVALUATED", "none", FALSE))

EvaluatePolicy ==
  \/ StartEvaluation \/ ClearViolations \/ RecordViolations \/ RecordEvaluation
  \/ ConcludePolicyStage \/ EvaluationCompleted \/ EvaluationFailed

-----------------------------------------------------------------------------
\* Mutant: the gate counts nothing.
GateOpen(then, else) == then
(* WriteGate: every write to GitHub first counts the Approval rows. *)
Gate(then, else) == IF approved THEN then ELSE else

(* sandbox_validation: pushes the set to a branch of its own and waits for   *)
(* the CI run it dispatches there.                                           *)

StartSandbox ==
  BeginStage("sandbox_validation", "sandbox",
             IF SandboxMode = "run" THEN "validate" ELSE "skip")

(* SKIP_SANDBOX_VALIDATION, before the try block *)
SkipSandbox ==
  LET n == "sandbox_validation" IN
  /\ SandboxMode = "skip"
  /\ At(n, "skip")
  /\ stageStatus' = "ready"
  /\ Goto(n, "emit")
  /\ UNCHANGED <<state, stage, decisions, artifacts, patchSets, approved, queueVars, boundVars>>

(* "SANDBOX_WORKFLOW_ID not set" is thrown before the try block: no event    *)
SandboxUnset ==
  LET n == "sandbox_validation" IN
  /\ SandboxMode = "unset"
  /\ At(n, "skip")
  /\ Throw(n)
  /\ UNCHANGED <<rowVars, decisions, artifacts, patchSets, approved, orchQ, boundVars>>

ValidatePatches ==
  LET n == "sandbox_validation" IN
  /\ At(n, "validate")
  /\ \/ /\ "invalid" \in SandboxRuns
        /\ stageStatus' = "needs_changes"
        /\ Goto(n, "caught")
     \/ /\ SandboxRuns # {"invalid"}
        /\ UNCHANGED stageStatus
        /\ Goto(n, "push")
  /\ UNCHANGED <<state, stage, decisions, artifacts, patchSets, approved, queueVars, boundVars>>

PushSandboxBranch ==
  LET n == "sandbox_validation" IN
  /\ At(n, "push")
  /\ SetPatchSet(Current(n), [patchSets[Current(n)] EXCEPT !.branch = Gate(TRUE, @)])
  /\ Goto(n, Gate("wait", "caught"))
  /\ UNCHANGED <<rowVars, decisions, artifacts, approved, queueVars, boundVars>>

(* dispatchWorkflow, waitForRun, and the worker.sandbox.completed event *)
RecordSandboxRun ==
  LET n == "sandbox_validation" IN
  /\ At(n, "wait")
  /\ \E result \in SandboxRuns \ {"invalid"} :
       SetPatchSet(Current(n), [patchSets[Current(n)] EXCEPT !.sandbox = @ \cup {result}])
  /\ Goto(n, IF Saw(n, "sandbox") THEN "conclude" ELSE "emit")
  /\ UNCHANGED <<rowVars, decisions, artifacts, approved, queueVars, boundVars>>

(* For each proposed set findFirst returns, in no stated order, one of the   *)
(* sandbox.completed events recorded for it by this run or an earlier one.   *)
ConcludeSandboxStage ==
  LET n == "sandbox_validation"
      proposed == WithStatus("proposed")
      anyFailed(found) == \E i \in proposed : found[i] = "fail"
  IN
  /\ At(n, "conclude")
  /\ IF \E i \in proposed : patchSets[i].sandbox = {}
       THEN UNCHANGED stageStatus
       ELSE \E found \in [proposed -> {"pass", "fail"}] :
              /\ \A i \in proposed : found[i] \in patchSets[i].sandbox
              /\ stageStatus' = IF anyFailed(found) THEN "blocked" ELSE "ready"
  /\ Goto(n, "emit")
  /\ UNCHANGED <<state, stage, decisions, artifacts, patchSets, approved, queueVars, boundVars>>

SandboxCompleted ==
  /\ At("sandbox_validation", "emit")
  /\ EmitAndReturn("sandbox_validation", OfStage("E_JOB_COMPLETED", "sandbox"))

(* GitHub fails, a diff does not apply, the run times out *)
SandboxFault ==
  SandboxMode = "run" /\
  CallFails("sandbox_validation", {"validate", "push", "wait", "conclude", "emit"}, "caught")

SandboxCaught ==
  LET n == "sandbox_validation" IN
  /\ At(n, "caught")
  /\ stageStatus' = "blocked"
  /\ Goto(n, "throw")
  /\ UNCHANGED <<state, stage, decisions, artifacts, patchSets, approved, queueVars, boundVars>>

SandboxValidation ==
  \/ StartSandbox \/ SkipSandbox \/ SandboxUnset \/ ValidatePatches
  \/ PushSandboxBranch \/ RecordSandboxRun \/ ConcludeSandboxStage
  \/ SandboxCompleted \/ SandboxCaught \/ EmitFailureAndThrow("sandbox_validation")

-----------------------------------------------------------------------------
(* apply_patches: branch, commits, pull request, PullRequest row, status.    *)

StartApply == BeginStage("apply_patches", "pr", IF SkipPr THEN "skip" ELSE "push")

(* SKIP_PR_CREATION: the set counts as applied, with PR number 0 *)
SkipApply ==
  LET n == "apply_patches" IN
  /\ At(n, "skip")
  /\ SetPatchSet(Current(n), [patchSets[Current(n)] EXCEPT !.status = "applied"])
  /\ Goto(n, "skipReady")
  /\ UNCHANGED <<rowVars, decisions, artifacts, approved, queueVars, boundVars>>

SkipApplyReady ==
  LET n == "apply_patches" IN
  /\ At(n, "skipReady")
  /\ stageStatus' = "ready"
  /\ Goto(n, "emit")
  /\ UNCHANGED <<state, stage, decisions, artifacts, patchSets, approved, queueVars, boundVars>>

(* A refused write fails the job with flag set: WRITE_BLOCKED_NO_APPROVAL *)
Refused(n) == worker' = [worker EXCEPT ![n].pc = "fail", ![n].flag = TRUE]

PushPrBranch ==
  LET n == "apply_patches" IN
  /\ At(n, "push")
  /\ SetPatchSet(Current(n), [patchSets[Current(n)] EXCEPT !.branch = Gate(TRUE, @)])
  /\ Gate(Goto(n, "open"), Refused(n))
  /\ UNCHANGED <<rowVars, decisions, artifacts, approved, queueVars, boundVars>>

OpenPullRequest ==
  LET n == "apply_patches"
      ps == patchSets[Current(n)]
  IN
  /\ At(n, "open")
  /\ SetPatchSet(Current(n), Gate([ps EXCEPT !.prs = @ + 1, !.pr = "open"], ps))
  /\ Gate(Goto(n, "record"), Refused(n))
  /\ UNCHANGED <<rowVars, decisions, artifacts, approved, queueVars, boundVars>>

\* Mutant: the PullRequest row is not recorded.
RecordPullRequestNot ==
  LET n == "apply_patches" IN
  /\ At(n, "record")
  /\ Goto(n, "applied")
  /\ UNCHANGED <<rowVars, decisions, artifacts, patchSets, approved, queueVars, boundVars>>

RecordPullRequest ==
  LET n == "apply_patches" IN
  /\ At(n, "record")
  /\ SetPatchSet(Current(n), [patchSets[Current(n)] EXCEPT !.prRows = @ + 1])
  /\ Goto(n, "applied")
  /\ UNCHANGED <<rowVars, decisions, artifacts, approved, queueVars, boundVars>>

MarkApplied ==
  LET n == "apply_patches" IN
  /\ At(n, "applied")
  /\ SetPatchSet(Current(n), [patchSets[Current(n)] EXCEPT !.status = "applied"])
  /\ Goto(n, IF Saw(n, "pr") THEN "conclude" ELSE "emit")
  /\ UNCHANGED <<rowVars, decisions, artifacts, approved, queueVars, boundVars>>

(* Counts every set of the workflow that is not applied, rejected ones too *)
ConcludePrStage ==
  LET n == "apply_patches" IN
  /\ At(n, "conclude")
  /\ stageStatus' = IF WithStatus("applied") = PatchSetIds THEN "ready" ELSE stageStatus
  /\ Goto(n, "emit")
  /\ UNCHANGED <<state, stage, decisions, artifacts, patchSets, approved, queueVars, boundVars>>

ApplyCompleted ==
  /\ At("apply_patches", "emit")
  /\ EmitAndReturn("apply_patches", Flagged("E_JOB_COMPLETED", "apply_patches", ~ SkipPr))

ApplyFault ==
  ~ SkipPr /\
  CallFails("apply_patches", {"push", "open", "record", "applied", "conclude", "emit"}, "fail")

(* The job is not retried *)
ApplyFailed ==
  LET n == "apply_patches" IN
  /\ At(n, "fail")
  /\ EmitAndReturn(n, Flagged("E_JOB_FAILED", "apply_patches", worker[n].flag))

ApplyPatches ==
  \/ StartApply \/ SkipApply \/ SkipApplyReady \/ PushPrBranch \/ OpenPullRequest
  \/ RecordPullRequest \/ MarkApplied \/ ConcludePrStage \/ ApplyCompleted \/ ApplyFailed
=============================================================================
