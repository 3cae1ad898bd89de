SPECIFICATION Spec
CONSTANTS
  JobAttempts = 2
  OrchAttempts = 2
  MaxStalledCount = 1
  Orchestrators = {o1}
  Requests = {r1}
  NumRepos = 1
  Verdicts = {"none"}
  SandboxMode = "run"
  SandboxRuns = {"invalid", "pass"}
  SkipPr = FALSE
  Origin = "gated"
  StartStage = "sandbox"
  Actions = {"approveStage", "approve", "regeneratePatches"}
  MaxCalls = 2
  MaxFaults = 1
  MaxCrashes = 0
  MaxEvents = 3
INVARIANTS
  WritesAreApproved
CHECK_DEADLOCK FALSE
