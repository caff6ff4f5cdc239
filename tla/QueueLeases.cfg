\* Leases, the concurrency cap, strict order and deduplication.
SPECIFICATION Spec
CONSTANTS
  Queue = {"a"}
  Inbox = {"a"}
  Group <- NoGroups
  Dedup = {"d"}
  Claimant = {"worker_1"}
  LocalWorker = {"worker_1"}
  QueueDto <- LeaseDtos
  Delay = {0}
  Timeout = {1}
  Limit = {2}
  SendAttempts = {}
  DefaultBackoff = 0
  MaxMsg = 2
  MaxClaims = 2
  MaxClock = 1
INVARIANTS AttemptsWithinLimit StrictGroupsOverlapOnlyByRetry DuplicatesOnlyByRetry
PROPERTIES ClaimWithinCap
