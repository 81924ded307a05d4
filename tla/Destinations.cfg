SPECIFICATION MCSpec
CONSTANTS
  x = x
  Starred = {a, b}
  Fixed = {f}
  Clean = {x, y}
  Budget <- SafetyBudget
INVARIANTS TypeOK PushesGoHome OneRepositoryEach
PROPERTIES NobodyIsRobbed StarsFindHomes
