SPECIFICATION Spec
CONSTANTS
  Owned = {}
  Starred = {r1, r2}
  External = {}
  Global = global
  Stoppers = {s1, s2}
  SyncConcurrency = 2
  ExternalEnabled = FALSE
INVARIANTS TypeOK ErrorIsExplained OneTransferPerRepository StopsAwaitNoWork NoWorkLeftBehind
PROPERTIES MissingOnlyAfterListing KeepsItsLedger
SYMMETRY RowSymmetry
