SPECIFICATION FairSpec
CONSTANTS
  main = main  side = side  pull = pull  kept = kept  c1 = c1  c2 = c2
  Plain = {main, side}
  Reserved = {pull}
  Pulls = {pull}
  PreservedAs <- MCPreservedAs
  Commits = {c1, c2}
  Large = {c2}
  LfsEnabled = TRUE
  WikiHead = main
  DestHead = side
  Faults = {"failure", "kill", "abort"}
  Budget <- LockBudget
PROPERTIES Converges
