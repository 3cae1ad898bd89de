SPECIFICATION Spec
CONSTANTS
  Agents = {"fe", "be", "do"}
  Files = {"view", "api"}
  Tasks = {"t1", "t2"}
  Profile <- MCProfile
  TypeOfFile <- MCTypeOfFile
  Target <- MCTarget
  Offers <- MCOffers
  Policies <- MCPolicies
  Registry <- MCRegistry
  Priorities = {70}
  MaxAgents = 2
  MaxPatches = 3
  MaxAdmin = 1
  MaxFaults = 1
INVARIANTS
  ReadableDiffsAreClean
  ConflictsGoToFirst
  WarningsAreStored
CHECK_DEADLOCK FALSE
