\* Two queues, the first forwards its dead letters to the second, no cap:
\* function capacity runs out, outside workers fail or vanish, operators delete,
\* the clock may move inside a callback, and the process may die, start again, or
\* have its database restored.
SPECIFICATION Spec
CONSTANTS
  MaxMsg = 2
  Queue = {"q", "dlq"}
  DeadLetterTo <- ForwardsToDlq
  Concurrency <- Uncapped
  BatchLimit = 2
  MaxAttempts = 1
  SendDelay = {0}
  Backoff = 1
  Lease = 1
  MaxBusy = 1
  MaxRestart = 1
  Outside = {"fail", "cancel", "restore"}
  ClockMovesInside = TRUE
INVARIANTS WakeUpNotLost PendingWakeIsBacked
