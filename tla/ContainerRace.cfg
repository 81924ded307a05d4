SPECIFICATION Spec
CONSTANTS
  Versions = {1, 2}
  latest = latest  nightly = nightly
  Tags = {latest, nightly}
  Latest = latest
  Oversized = {}
  Modes = {"all"}
  MaxId = 9
  Faults = {}
  Budget <- RaceBudget
  UserNames = {latest, nightly}
  RacingEdits = TRUE
PROPERTIES UserTagsStay
