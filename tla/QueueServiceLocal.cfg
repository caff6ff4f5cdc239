\* One queue that runs one message at a time: delayed sends, retries with
\* backoff, outside workers that hold a lease, skips, a crash or a second start.
SPECIFICATION Spec
CONSTANTS
  MaxMsg = 2
  Queue = {"q"}
  DeadLetterTo <- KeepsDeadLetters
  Concurrency <- OneAtATime
  BatchLimit = 2
  MaxAttempts = 2
  SendDelay = {0, 2}
  Backoff = 1
  Lease = 1
  MaxBusy = 0
  MaxRestart = 1
  Outside = {"complete", "skip"}
  ClockMovesInside = FALSE
INVARIANTS TimerCoversDelays
PROPERTIES EveryMessageSettles
