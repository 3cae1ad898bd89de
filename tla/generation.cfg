SPECIFICATION FairSpec
CONSTANTS
  Repos <- MCRepos
  ContextAt <- MCContextAt
  Replies <- MCReplies
  AllowFallback = FALSE
  JobAttempts = 2
  MaxStalledCount = 1
  MaxRetries = 1
  RetryOn = {"server_error"}
  MaxTotalCost = 1
  MaxPushes = 1
  MaxRequests = 2
  MaxFaults = 2
  MaxCrashes = 2
  MaxEvents = 3
INVARIANTS
  ContextIsOfItsCommit
  SetNamesItsSources
PROPERTIES
  ContextNeverOlder
  RefreshTakesHold
  IngestEnds
CHECK_DEADLOCK FALSE
