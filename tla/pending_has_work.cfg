SPECIFICATION FairSpec
CONSTANTS
  JobAttempts = 2
  OrchAttempts = 2
  MaxStalledCount = 1
  Orchestrators = {o1}
  Requests = {r1}
  NumRepos = 1
  Verdicts = {"none"}
  SandboxMode = "unset"
  SandboxRuns = {"pass", "fail"}
  SkipPr = FALSE
  Origin = "gated"
  StartStage = "policy"
  Actions = {"approveStage", "retryStage", "requestStageChanges"}
  MaxCalls = 3
  MaxFaults = 0
  MaxCrashes = 0
  MaxEvents = 3
INVARIANTS
  PendingHasWork
PROPERTIES
  PendingIsPickedUp
CHECK_DEADLOCK FALSE
