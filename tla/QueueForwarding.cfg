\* Dead-letter copies between two queues: links, lost jobs, attempts.
SPECIFICATION Spec
CONSTANTS
  Queue = {"a", "b"}
  Inbox = {"a"}
  Group <- NoGroups
  Dedup = {}
  Claimant = {"worker_1"}
  LocalWorker = {"worker_1"}
  QueueDto <- ForwardingDtos
  Delay = {0}
  Timeout = {1}
  Limit = {1}
  SendAttempts = {}
  DefaultBackoff = 0
  MaxMsg = 3
  MaxClaims = 1
  MaxClock = 0
INVARIANTS TypeOK ClaimDiscipline ForwardLinks NoJobLost
PROPERTIES CompletedStaysDone
