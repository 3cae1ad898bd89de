SPECIFICATION Spec
CONSTANTS
  JobAttempts = 2
  OrchAttempts = 2
  MaxStalledCount = 1
  Orchestrators = {o1}
  Requests = {r1, r2}
  NumRepos = 1
  Verdicts = {"none"}
  SandboxMode = "run"
  SandboxRuns = {"pass", "fail"}
  SkipPr = FALSE
  Origin = "gated"
  StartStage = "feasibility"
  Actions = {"approveStage", "retryStage", "requestStageChanges", "rejectStage"}
  MaxCalls = 3
  MaxFaults = 0
  MaxCrashes = 0
  MaxEvents = 3
INVARIANTS
  StageBehindGates
  WorkBehindGates
PROPERTIES
  LedgerSpec
CHECK_DEADLOCK FALSE
