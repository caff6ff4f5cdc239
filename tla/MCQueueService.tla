--------------------------- MODULE MCQueueService ----------------------------
(* Small instances of QueueService for TLC. *)
EXTENDS QueueService

\* No queue forwards its dead letters.
KeepsDeadLetters == [x \in Queue |-> x]

\* All queues forward to "dlq", which keeps its own.
ForwardsToDlq == [x \in Queue |-> "dlq"]

Uncapped == [x \in Queue |-> 0]

\* Every queue runs one message at a time.
OneAtATime == [x \in Queue |-> 1]
=============================================================================
