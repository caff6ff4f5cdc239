SPECIFICATION Spec
CONSTANTS
  Executions = {e1}
  Definitions <- TwoDefinitions
  Limits = {0, 1}
  Tokens = {1, 2, 3}
  MaxJobs = 2
  MaxLog = 1
  MaxCrashes = 1
  MaxUses = 2
INVARIANTS RunnerOwnsRow LogIsAPath QueuedHasMessage ClaimsAreHeld
PROPERTIES ExecutionsEnd
