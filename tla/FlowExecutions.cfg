SPECIFICATION Spec
CONSTANTS
  Executions = {e1, e2}
  Definitions <- OneDefinition
  Limits = {0, 1, 2}
  Tokens = {1, 2, 3, 4, 5}
  MaxJobs = 2
  MaxLog = 0
  MaxCrashes = 1
  MaxUses = 1
INVARIANTS NobodyWaitsInVain
PROPERTIES AbortedIsFinal LimitRespected
SYMMETRY Symmetry
