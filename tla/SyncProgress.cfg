SPECIFICATION FairSpec
CONSTANTS
  Owned = {o1}
  Starred = {}
  External = {e1}
  Global = global
  Stoppers = {s1}
  SyncConcurrency = 1
  ExternalEnabled = TRUE
INVARIANTS ConcurrencyHonored SuccessMeansMirrored
PROPERTIES SyncSettles GlobalRunEnds StopIsAnswered
