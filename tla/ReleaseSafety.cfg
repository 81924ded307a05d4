SPECIFICATION Spec
CONSTANTS
  r1 = r1  r2 = r2  t1 = t1  t2 = t2  a1 = a1  b1 = b1  b2 = b2  x = x  y = y
  Releases = {r1, r2}
  Tags = {t1, t2}
  TagOf <- MCTagOf
  Assets = {a1, b1, b2}
  ReleaseOf <- MCReleaseOf
  Names = {x, y}
  NameOf <- MCNameOf
  Unfit = {b1}
  MaxId = 4
  Faults = {"failure", "lost", "abort", "cut", "refusal"}
  Budget <- SafetyBudget
INVARIANTS TypeOK MarkersAreHonest
PROPERTIES ForeignUntouched FallbackKept QuietTurnsAreComplete
