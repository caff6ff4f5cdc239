\* A retry of a dead-letter copy takes the claim of a running original.
SPECIFICATION Spec
CONSTANTS
  Queue = {"a", "b"}
  Inbox = {"a"}
  Group <- NoGroups
  Dedup = {}
  Claimant = {"worker_1"}
  LocalWorker = {"worker_1"}
  QueueDto <- ForwardingDtos
  Delay = {0}
  Timeout = {1}
  Limit = {1}
  SendAttempts = {}
  DefaultBackoff = 0
  MaxMsg = 3
  MaxClaims = 2
  MaxClock = 0
PROPERTIES RetrySparesProcessing
