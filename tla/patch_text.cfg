SPECIFICATION Spec
CONSTANTS
  Lines <- MCLines
  Blank = ""
  PlusLines = {"++z"}
  MinusLines = {"--z"}
  Context = 1
  Paths <- MCPaths
  Cases <- MCCases
  MaxFaults = 1
  SensitivePaths = {}
  FrozenPaths = {"a.tsx"}
  DeniedPaths = {}
  SecretLines = {"secret"}
  LargeDiff = 12
  Title = "title"
INVARIANTS
  NeverMangled
  AppliedIsWanted
  ValidApplies
  SecretsAreSeen
CHECK_DEADLOCK FALSE
