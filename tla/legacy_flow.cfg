SPECIFICATION Spec
CONSTANTS
  JobAttempts = 2
  OrchAttempts = 2
  MaxStalledCount = 1
  Orchestrators = {o1}
  Requests = {r1}
  NumRepos = 1
  Verdicts = {"none", "block"}
  SandboxMode = "run"
  SandboxRuns = {"pass", "fail"}
  SkipPr = FALSE
  Origin = "legacy"
  StartStage = "feasibility"
  Actions = {"approve", "reject", "cancel", "mergePr", "closePr", "ci"}
  MaxCalls = 3
  MaxFaults = 1
  MaxCrashes = 1
  MaxEvents = 3
INVARIANTS
  NoPrForBlockedPatch
  DoneIsEarned
  ApplyingIsApproved
  AppliedHasPullRequest
CHECK_DEADLOCK FALSE
