---------------------------- MODULE MCQueueDriver ----------------------------
(***************************************************************************)
(* Small instances of QueueDriver for TLC.                                 *)
(***************************************************************************)
EXTENDS QueueDriver

\* A configured queue.
Config(concurrency, maxAttempts, dlq, strict) ==
  [exists |-> TRUE, concurrency |-> concurrency, maxAttempts |-> maxAttempts,
   backoffDelayMs |-> IF strict THEN 0 ELSE 1, deadLetterQueue |-> dlq,
   strictOrder |-> strict]

NoGroups == {NoGroup}

\* Two queues that forward their dead letters to each other.
ForwardingDtos ==
  [q \in {"a", "b"} |-> {Config(0, 1, IF q = "a" THEN "b" ELSE "a", FALSE)}]

\* One queue that is reconfigured: one message at a time, two attempts each, or
\* strict order without a cap, one attempt each.
LeaseDtos ==
  [q \in {"a"} |-> {Config(1, 2, NoQueue, FALSE), Config(0, 1, NoQueue, TRUE)}]
=============================================================================
