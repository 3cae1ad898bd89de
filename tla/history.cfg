SPECIFICATION Spec
CONSTANTS
  Callers = {c1, c2}
  Deliveries = {"suite", "pull"}
  Delivery <- MCDelivery
  Commits = {"b0", "b1"}
  States = {"PR_OPEN", "FAILED"}
  Starts <- MCStarts
  MaxCalls = 2
  MaxWork = 1
  MaxFaults = 1
  MaxEvents = 1
  MaxCheckpoints = 1
  RestoreOptions <- MCRestoreOptions
  Violations <- MCViolations
  MinFixConfidence = 70
  SYMMETRY Symmetry
INVARIANTS
  FixApprovalsAgree
  ProcessedIsRecorded
  PruningKeepsBound
PROPERTIES
  RestoreKeepsSnapshot
  FirstAndManualKept
CHECK_DEADLOCK FALSE
