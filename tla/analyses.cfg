SPECIFICATION Spec
CONSTANTS
  Replies <- MCReplies
  AllowFallback = FALSE
  JobAttempts = 2
  MaxStalledCount = 1
  Starts = {"feasibility", "architecture", "summary"}
  MaxApprovals = 1
  MaxRequests = 2
  MaxFaults = 1
  MaxCrashes = 2
  MaxEvents = 2
INVARIANTS
  TasksMatchTimeline
  FeedbackIsHeeded
  BuiltOnApproved
  RestIsAnswered
CHECK_DEADLOCK FALSE
