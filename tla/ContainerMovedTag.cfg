SPECIFICATION FairSpec
CONSTANTS
  Versions = {1, 2}
  latest = latest  nightly = nightly
  Tags = {latest, nightly}
  Latest = latest
  Oversized = {}
  Modes = {"all"}
  MaxId = 9
  Faults = {}
  Budget <- MoveBudget
  UserNames = {latest, nightly}
  RacingEdits = FALSE
PROPERTIES EveryVersionMirrored
