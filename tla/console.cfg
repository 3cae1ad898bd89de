SPECIFICATION Spec
CONSTANTS
  Rows <- MCRows
  Turns <- MCTurns
  Kinds = {"regenerate", "tabRetry", "approveSet", "delete"}
  MaxChains = 3
  MaxHands = 2
  MaxClicks = 2
  MaxMoves = 1
INVARIANTS
  PollingGoesOn
  OfferedIsAccepted
PROPERTIES
  WatchedRowIsShown
  WaitingEnds
CHECK_DEADLOCK FALSE
