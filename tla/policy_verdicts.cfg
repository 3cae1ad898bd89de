SPECIFICATION Spec
CONSTANTS
  JobAttempts = 2
  OrchAttempts = 2
  MaxStalledCount = 1
  Orchestrators = {o1}
  Requests = {r1, r2}
  NumRepos = 2
  Verdicts = {"none", "block"}
  SandboxMode = "skip"
  SandboxRuns = {"pass", "fail"}
  SkipPr = TRUE
  Origin = "gated"
  StartStage = "policy"
  Actions = {"approveStage", "retryStage"}
  MaxCalls = 2
  MaxFaults = 0
  MaxCrashes = 1
  MaxEvents = 2
INVARIANTS
  TypeOK
  ViolationsKept
PROPERTIES
  PolicyApprovalIsClean
CHECK_DEADLOCK FALSE
