SPECIFICATION Spec
CONSTANTS
  Versions = {1, 2}
  latest = latest  nightly = nightly
  Tags = {latest, nightly}
  Latest = latest
  Oversized = {}
  Modes = {"all", "latest"}
  MaxId = 9
  Faults = {"failure", "lost", "abort"}
  Budget <- SafetyBudget
  UserNames = {latest, nightly}
  RacingEdits = FALSE
INVARIANTS TypeOK JournalIsTrue CopiesAreRecognized
PROPERTIES UserTagsStay FallbackKept QuietRunsAreComplete
