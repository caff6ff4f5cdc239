\* start() on a service that is already running.
SPECIFICATION Spec
CONSTANTS
  MaxMsg = 2
  Queue = {"q"}
  DeadLetterTo <- KeepsDeadLetters
  Concurrency <- OneAtATime
  BatchLimit = 2
  MaxAttempts = 2
  SendDelay = {0}
  Backoff = 1
  Lease = 2
  MaxBusy = 0
  MaxRestart = 1
  Outside = {}
  ClockMovesInside = FALSE
PROPERTIES RunningJobsKeepTheirClaim
