SPECIFICATION FairSpec
CONSTANTS
  JobAttempts = 2
  OrchAttempts = 2
  MaxStalledCount = 1
  Orchestrators = {o1}
  Requests = {r1, r2}
  NumRepos = 2
  Verdicts = {"none"}
  SandboxMode = "run"
  SandboxRuns = {"pass", "fail"}
  SkipPr = FALSE
  Origin = "legacy"
  StartStage = "feasibility"
  Actions = {"approve", "reject", "requestChanges"}
  MaxCalls = 2
  MaxFaults = 0
  MaxCrashes = 0
  MaxEvents = 2
INVARIANTS
  ApplyingMeansAllDecided
PROPERTIES
  WorkedOff
CHECK_DEADLOCK FALSE
