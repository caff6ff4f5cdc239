----------------------------- MODULE QueueDriver -----------------------------
(***************************************************************************)
(* The persistent message queue of NodeStack: the tables `_queues` and      *)
(* `_queue_messages` and every operation of SqliteQueueDriver that writes   *)
(* them (src/src/queue/drivers/SqliteQueueDriver.ts).                       *)
(*                                                                         *)
(* Each driver method has a synchronous body that runs in one SQLite        *)
(* transaction, so each is one atomic action.  The two methods that loop    *)
(* over a list of rows, reclaimOrphaned and retryDeadLetterMessages, are    *)
(* the exception in form only: the variable tx holds the rows the open      *)
(* transaction has still to visit, and while it is open nothing else moves. *)
(*                                                                         *)
(* What stands for what                                                     *)
(*  - message ids are numbered in the order of insertion, which is the     *)
(*    order (created, rowid) the SQL sorts by; an id is never used twice;   *)
(*  - crypto.randomUUID() never repeats: the claim token of a message's     *)
(*    n-th claim is n, and issued[m] is the number of claims of m so far;   *)
(*  - time is a clock that Tick advances; a time is a number of ticks;      *)
(*  - a payload is the stack of dead-letter envelopes around the user's     *)
(*    data, outermost first;                                               *)
(*  - priority is left out: the order in which a queue that is not strict   *)
(*    hands out its messages is any order.                                  *)
(***************************************************************************)
EXTENDS Integers, Sequences, FiniteSets

CONSTANTS
  Queue,          \* queue names
  Inbox,          \* the queues users send to; the others get only copies
  Group,          \* values of COALESCE(groupKey, '')
  Dedup,          \* deduplication ids
  Claimant,       \* values of claimedBy
  LocalWorker,    \* the claimants named worker_... or ...crashed...
  QueueDto,       \* QueueDto[q]: the configurations a caller gives queue q
  Delay,          \* delays of send, fail and defer, in ticks
  Timeout,        \* visibility timeouts and extensions, in ticks
  Limit,          \* limits of claim and retryDeadLetterMessages
  SendAttempts,   \* maxAttempts values a sender asks for
  DefaultBackoff, \* the 1000 ms default backoff, in ticks
  MaxMsg,         \* bound: messages ever inserted
  MaxClaims,      \* bound: claims of one message
  MaxClock        \* bound: the last tick

ASSUME BoundAssumption ==
  /\ MaxMsg \in Nat /\ MaxClaims \in Nat /\ MaxClock \in Nat
  /\ DefaultBackoff \in Nat

ASSUME InputAssumption ==
  /\ Delay \subseteq Nat
  /\ Timeout \subseteq Nat \ {0}
  /\ Limit \subseteq Nat \ {0}
  /\ SendAttempts \subseteq Nat
  /\ LocalWorker \subseteq Claimant
  /\ Inbox \subseteq Queue

Msg == 1 .. MaxMsg

\* The null values of the columns.
NoMsg == 0
NoToken == 0
NoTime == -1
QueueDefault == -1   \* fail called without a backoff
NoQueue == "no_queue"
NoDedup == "no_dedup"
Nobody == "nobody"
NoGroup == "no_group"

ASSUME NullAssumption ==
  /\ NoQueue \notin Queue
  /\ NoDedup \notin Dedup
  /\ Nobody \notin Claimant
  /\ NoGroup \in Group

-----------------------------------------------------------------------------
(* Rows of _queues.  A queue that does not exist has exists = FALSE.         *)

QueueRow ==
  [exists : BOOLEAN, concurrency : Nat, maxAttempts : Nat,
   backoffDelayMs : Nat, deadLetterQueue : Queue \cup {NoQueue},
   strictOrder : BOOLEAN]

ASSUME DtoAssumption == \A q \in Queue : QueueDto[q] \subseteq QueueRow

MissingQueue ==
  [exists |-> FALSE, concurrency |-> 0, maxAttempts |-> 0,
   backoffDelayMs |-> 0, deadLetterQueue |-> NoQueue, strictOrder |-> FALSE]

\* The row insertMessageSync creates for a queue nobody configured.
AutoQueue ==
  [exists |-> TRUE, concurrency |-> 0, maxAttempts |-> 3,
   backoffDelayMs |-> DefaultBackoff, deadLetterQueue |-> NoQueue,
   strictOrder |-> FALSE]

(* Rows of _queue_messages.  The status "failed" is read by the code and     *)
(* written nowhere, so no row has it.                                        *)

Envelope == [of : Msg, from : Queue]

MessageRow ==
  [status : {"absent", "queued", "processing", "completed", "dead_letter"},
   queue : Queue \cup {NoQueue},
   groupKey : Group,
   payload : Seq(Envelope),
   attempts : Nat,
   maxAttempts : Nat,
   availableAt : Int,
   claimedBy : Claimant \cup {Nobody},
   leaseExpiresAt : Nat \cup {NoTime},
   claimToken : Nat,
   deduplicationId : Dedup \cup {NoDedup},
   originalMessageId : Msg \cup {NoMsg},
   forwardedToMessageId : Msg \cup {NoMsg}]

NoRow ==
  [status |-> "absent", queue |-> NoQueue, groupKey |-> NoGroup,
   payload |-> <<>>, attempts |-> 0, maxAttempts |-> 0, availableAt |-> 0,
   claimedBy |-> Nobody, leaseExpiresAt |-> NoTime, claimToken |-> NoToken,
   deduplicationId |-> NoDedup, originalMessageId |-> NoMsg,
   forwardedToMessageId |-> NoMsg]

VARIABLES
  queues,       \* table _queues
  messages,     \* table _queue_messages
  lastId,       \* the last message id given out
  issued,       \* issued[m]: how many claim tokens m has had
  clock,        \* the time
  tx,           \* the transaction that is open, and the rows it has to visit
  \* History, read by properties only:
  job,          \* job[m]: the id under which m's data was first accepted
  revived,      \* unfinished messages that a retry took out of their state
  strictClaim,  \* messages whose last claim was made under strict order
  dropped       \* jobs an operator deleted

table == <<queues, messages, lastId>>
history == <<job, revived, strictClaim, dropped>>
vars == <<queues, messages, lastId, issued, clock, tx, job, revived,
          strictClaim, dropped>>

-----------------------------------------------------------------------------
Present == {m \in Msg : messages[m].status # "absent"}
Unfinished(m) == messages[m].status \in {"queued", "processing"}
Processing(m) == messages[m].status = "processing"
Live(m) == Processing(m) /\ messages[m].leaseExpiresAt > clock
Expired(m) == Processing(m) /\ messages[m].leaseExpiresAt <= clock

\* The rows the concurrency cap counts.
Active(q) == {m \in Msg : messages[m].queue = q /\ Live(m)}

JobsOf(ms) == {job[m] : m \in {x \in Msg : ms[x].status # "absent"}}

NextId == lastId + 1
HasRoom(n) == lastId + n <= MaxMsg

Idle == [op |-> "idle", todo |-> {}, queue |-> NoQueue, left |-> 0]
NoTransaction == tx = Idle

Unclaimed_KeepsToken(row, status) ==
  [row EXCEPT !.status = status, !.claimedBy = Nobody, !.leaseExpiresAt = NoTime]

\* Every way to give up a claim clears the same three columns.
Unclaimed(row, status) ==
  [row EXCEPT !.status = status, !.claimedBy = Nobody,
              !.leaseExpiresAt = NoTime, !.claimToken = NoToken]

Reset_KeepsLink(row) ==
  [Unclaimed(row, "queued") EXCEPT !.attempts = 0, !.availableAt = clock]

\* The UPDATE of the retry operations: whatever state the row is in.
Reset(row) ==
  [Unclaimed(row, "queued") EXCEPT !.attempts = 0, !.availableAt = clock,
                                   !.forwardedToMessageId = NoMsg]

\* A row is a forwarded copy of m: by its column, or because its payload
\* mentions m in one of its envelopes (the LIKE of the SQL).
Mentions(row, m) ==
  \/ row.originalMessageId = m
  \/ \E i \in DOMAIN row.payload : row.payload[i].of = m

DropPendingCopies_AnyQueued(ms, m, fwd, qs) ==
  [x \in Msg |->
     IF ms[x].status = "queued" /\ ms[x].queue \in qs /\ x # m
     THEN NoRow ELSE ms[x]]

\* DELETE ... WHERE status = 'queued' AND queue in qs AND (id = fwd OR ...).
DropPendingCopies(ms, m, fwd, qs) ==
  [x \in Msg |->
     IF /\ ms[x].status = "queued"
        /\ ms[x].queue \in qs
        /\ x = fwd \/ Mentions(ms[x], m)
     THEN NoRow ELSE ms[x]]

\* The row insertMessageSync writes.
NewRow(q, g, payload, delay, max, dedup, orig) ==
  [NoRow EXCEPT !.status = "queued", !.queue = q, !.groupKey = g,
                !.payload = payload, !.maxAttempts = max,
                !.availableAt = clock + delay, !.deduplicationId = dedup,
                !.originalMessageId = orig]

EnsureQueue(q) ==
  queues' = IF queues[q].exists THEN queues
            ELSE [queues EXCEPT ![q] = AutoQueue]

DefaultAttempts(q) ==
  IF queues[q].exists THEN queues[q].maxAttempts ELSE AutoQueue.maxAttempts

Duplicates_QueuedOnly(q, dedup) ==
  {m \in Msg : /\ dedup # NoDedup
               /\ messages[m].queue = q
               /\ messages[m].deduplicationId = dedup
               /\ messages[m].status = "queued"}

Duplicates(q, dedup) ==
  {m \in Msg : /\ dedup # NoDedup
               /\ messages[m].queue = q
               /\ messages[m].deduplicationId = dedup
               /\ Unfinished(m)}

-----------------------------------------------------------------------------
(* Configuration.                                                            *)

\* upsertQueue: a field the caller leaves undefined keeps its old value, so
\* the row may become any configuration a caller can ask for.
UpsertQueue(q, dto) ==
  /\ NoTransaction
  /\ queues' = [queues EXCEPT ![q] = dto]
  /\ UNCHANGED <<messages, lastId, issued, clock, tx, history>>

\* Rows an operator removes; the data they carried may go with them.
Remove(S) ==
  /\ messages' = [m \in Msg |-> IF m \in S THEN NoRow ELSE messages[m]]
  /\ dropped' = dropped \cup (JobsOf(messages) \ JobsOf(messages'))
  /\ revived' = revived \ S
  /\ UNCHANGED <<lastId, issued, clock, tx, job, strictClaim>>

DeleteQueue(q) ==
  /\ NoTransaction
  /\ queues[q].exists
  /\ queues' = [queues EXCEPT ![q] = MissingQueue]
  /\ Remove({m \in Present : messages[m].queue = q})

-----------------------------------------------------------------------------
(* Enqueue and claim.                                                        *)

\* send -> insertMessageSync: an active message with the same deduplication
\* id is returned instead of inserting a second one; the queue row is created
\* either way.
Send(q, g, delay, max, dedup) ==
  /\ NoTransaction
  /\ EnsureQueue(q)
  /\ IF Duplicates(q, dedup) # {}
     THEN UNCHANGED <<messages, lastId, job>>
     ELSE /\ HasRoom(1)
          /\ messages' = [messages EXCEPT ![NextId] =
                            NewRow(q, g, <<>>, delay, max, dedup, NoMsg)]
          /\ lastId' = NextId
          /\ job' = [job EXCEPT ![NextId] = NextId]
  /\ UNCHANGED <<issued, clock, tx, revived, strictClaim, dropped>>

Claimable(q) ==
  {m \in Msg : /\ messages[m].queue = q
               /\ messages[m].status = "queued"
               /\ messages[m].availableAt <= clock}

GroupHeads_IgnoreProcessing(q) ==
  {m \in Claimable(q) :
     \A x \in Claimable(q) : messages[x].groupKey = messages[m].groupKey => m <= x}

\* Strict order: only the oldest unfinished message of a group is eligible.
GroupHeads(q) ==
  {m \in Claimable(q) :
     \A x \in Msg :
        /\ messages[x].queue = q
        /\ messages[x].groupKey = messages[m].groupKey
        /\ Unfinished(x)
        => m <= x}

Candidates(q) == IF queues[q].strictOrder THEN GroupHeads(q) ELSE Claimable(q)

Capped(q) == queues[q].concurrency >= 1

FreeSlots_OneMore(q) == queues[q].concurrency - Cardinality(Active(q)) + 1
FreeSlots(q) == queues[q].concurrency - Cardinality(Active(q))

\* The rows a claim with this limit takes: as many candidates as the limit
\* and the free slots of the queue allow.
MayClaim(q, limit, S) ==
  /\ S # {} /\ S \subseteq Candidates(q)
  /\ Cardinality(S) <= limit
  /\ Capped(q) => Cardinality(S) <= FreeSlots(q)
  /\ \/ S = Candidates(q)
     \/ Cardinality(S) = limit
     \/ Capped(q) /\ Cardinality(S) = FreeSlots(q)
  /\ queues[q].strictOrder =>
        \A m \in S, x \in Candidates(q) \ S : m < x

Claim(q, who, timeout, limit) ==
  /\ NoTransaction
  /\ \E S \in SUBSET Candidates(q) :
       /\ MayClaim(q, limit, S)
       /\ \A m \in S : issued[m] < MaxClaims
       /\ messages' = [m \in Msg |->
            IF m \in S
            THEN [messages[m] EXCEPT !.status = "processing",
                                     !.claimedBy = who,
                                     !.leaseExpiresAt = clock + timeout,
                                     !.claimToken = issued[m] + 1,
                                     !.attempts = @ + 1]
            ELSE messages[m]]
       /\ issued' = [m \in Msg |-> IF m \in S THEN issued[m] + 1 ELSE issued[m]]
       /\ strictClaim' = (strictClaim \ S)
                         \cup (IF queues[q].strictOrder THEN S ELSE {})
  /\ UNCHANGED <<queues, lastId, clock, tx, job, revived, dropped>>

-----------------------------------------------------------------------------
(* What the holder of a claim does.  A token is any token m ever had, or     *)
(* none: callers may leave it out.  A call whose row does not match changes  *)
(* nothing and reports false.                                                *)

TokensOf(m) == {NoToken} \cup 1 .. issued[m]
Matches(m, token) == token = NoToken \/ token = messages[m].claimToken

Touch(m, extension, token) ==
  /\ NoTransaction
  /\ Processing(m)
  /\ Matches(m, token)
  /\ messages' = [messages EXCEPT ![m].leaseExpiresAt = clock + extension]
  /\ UNCHANGED <<queues, lastId, issued, clock, tx, history>>

\* Outside strict order a message may be completed while it is still queued.
Complete(m, token) ==
  /\ NoTransaction
  /\ \/ Processing(m)
     \/ messages[m].status = "queued" /\ ~queues[messages[m].queue].strictOrder
  /\ Matches(m, token)
  /\ messages' = [messages EXCEPT ![m] = Unclaimed(@, "completed")]
  /\ revived' = revived \ {m}
  /\ UNCHANGED <<queues, lastId, issued, clock, tx, job, strictClaim, dropped>>

Exhausted_OneLate(row) == row.maxAttempts # 0 /\ row.attempts > row.maxAttempts
Exhausted(row) == row.maxAttempts # 0 /\ row.attempts >= row.maxAttempts

\* Back to the queue, to be available at time t.
Requeued(row, t) == [Unclaimed(row, "queued") EXCEPT !.availableAt = t]

Requeue(m, t) ==
  /\ messages' = [messages EXCEPT ![m] = Requeued(@, t)]
  /\ UNCHANGED <<queues, lastId, job, revived>>

\* The row becomes a dead letter; if its queue forwards to another one, the
\* pending copies there are replaced by a new copy.
ForwardsTo(m) == queues[messages[m].queue].deadLetterQueue
Forwards(m) == ForwardsTo(m) \notin {NoQueue, messages[m].queue}

DeadLetter(m) ==
  LET row  == messages[m]
      dead == [messages EXCEPT ![m] = Unclaimed(@, "dead_letter")]
      dlq  == ForwardsTo(m)
      copy == NewRow(dlq, row.groupKey,
                     <<[of |-> m, from |-> row.queue]>> \o row.payload,
                     0, DefaultAttempts(dlq), NoDedup, m)
  IN /\ revived' = revived \ {m}
     /\ IF ~Forwards(m)
        THEN messages' = dead /\ UNCHANGED <<queues, lastId, job>>
        ELSE /\ HasRoom(1)
             /\ EnsureQueue(dlq)
             /\ messages' =
                  [DropPendingCopies(dead, m, row.forwardedToMessageId, {dlq})
                   EXCEPT ![NextId] = copy, ![m].forwardedToMessageId = NextId]
             /\ lastId' = NextId
             /\ job' = [job EXCEPT ![NextId] = job[m]]

\* fail: exponential backoff on the delay the caller gives, or the queue's.
BaseBackoff(m, backoff) ==
  IF backoff = QueueDefault THEN queues[messages[m].queue].backoffDelayMs
  ELSE backoff

Fail(m, backoff, token) ==
  /\ NoTransaction
  /\ Processing(m)
  /\ Matches(m, token)
  /\ IF Exhausted(messages[m])
     THEN DeadLetter(m)
     ELSE Requeue(m, clock + BaseBackoff(m, backoff) * 2 ^ (messages[m].attempts - 1))
  /\ UNCHANGED <<issued, clock, tx, strictClaim, dropped>>

Refunded_Twice(n) == n - 2
Refunded(n) == IF n > 0 THEN n - 1 ELSE 0

Deferred(row, t) == [Requeued(row, t) EXCEPT !.attempts = Refunded(@)]

\* defer: gives the attempt back; it is not asked for the token.
Defer(m, delay) ==
  /\ NoTransaction
  /\ Processing(m)
  /\ messages' = [messages EXCEPT ![m] = Deferred(@, clock + delay)]
  /\ UNCHANGED <<queues, lastId, issued, clock, tx, history>>

-----------------------------------------------------------------------------
(* What an operator does to one message.                                     *)

Skippable_Completed(m) == messages[m].status \notin {"absent", "dead_letter"}
Skippable(m) == messages[m].status \notin {"absent", "completed", "dead_letter"}

ForceDeadLetter(m) ==
  /\ NoTransaction
  /\ Skippable(m)
  /\ DeadLetter(m)
  /\ UNCHANGED <<issued, clock, tx, strictClaim, dropped>>

\* cancel: the pending copies go first, then the row, whatever its state, and
\* the links that pointed to it.
Cancel(m) ==
  /\ NoTransaction
  /\ m \in Present
  /\ LET kept == DropPendingCopies(messages, m,
                                   messages[m].forwardedToMessageId, Queue)
         gone == [kept EXCEPT ![m] = NoRow]
     IN messages' = [x \in Msg |->
          IF gone[x].forwardedToMessageId = m
          THEN [gone[x] EXCEPT !.forwardedToMessageId = NoMsg] ELSE gone[x]]
  /\ dropped' = dropped \cup (JobsOf(messages) \ JobsOf(messages'))
  /\ revived' = {x \in revived : messages'[x].status # "absent"}
  /\ UNCHANGED <<queues, lastId, issued, clock, tx, job, strictClaim>>

\* A forwarded copy names its original in the column or in its envelope.
IsCopy(m) == messages[m].originalMessageId # NoMsg \/ messages[m].payload # <<>>

OriginalOf(m) ==
  IF messages[m].originalMessageId # NoMsg
  THEN messages[m].originalMessageId ELSE Head(messages[m].payload).of

\* What a retry of the copy c leaves in its original's place: the original is
\* reset if its row exists, else the data is taken out of its envelope and
\* sent to the queue it came from.  The copy is deleted, and with it the other
\* pending copies in the queues qs.
RestoreOriginal(c, qs) ==
  LET orig == OriginalOf(c)
      top  == Head(messages[c].payload)
  IN IF orig \in Present
     THEN /\ messages' = DropPendingCopies(
                [messages EXCEPT ![orig] = Reset(@), ![c] = NoRow], orig, NoMsg, qs)
          /\ revived' = {x \in revived \cup {orig} : messages'[x].status # "absent"}
          /\ UNCHANGED <<queues, lastId, job>>
     ELSE /\ HasRoom(1)
          /\ EnsureQueue(top.from)
          /\ messages' = DropPendingCopies(
                [messages EXCEPT ![NextId] =
                   NewRow(top.from, messages[c].groupKey, Tail(messages[c].payload),
                          0, DefaultAttempts(top.from), NoDedup, NoMsg),
                                 ![c] = NoRow],
                orig, NoMsg, qs)
          /\ revived' = {x \in revived : messages'[x].status # "absent"}
          /\ lastId' = NextId
          /\ job' = [job EXCEPT ![NextId] = job[c]]

\* A message that is no copy is reset itself; its pending copies go.
ResetOwn(m) ==
  /\ messages' = DropPendingCopies([messages EXCEPT ![m] = Reset(@)], m,
                                   messages[m].forwardedToMessageId, Queue)
  /\ revived' = {x \in revived \cup {m} : messages'[x].status # "absent"}
  /\ UNCHANGED <<queues, lastId, job>>

RetryMessage(m) ==
  /\ NoTransaction
  /\ m \in Present
  /\ ~Processing(m)
  /\ IF /\ IsCopy(m)
        /\ \/ messages[m].queue # Head(messages[m].payload).from
           \/ messages[m].originalMessageId # NoMsg
     THEN RestoreOriginal(m, {messages[m].queue})
     ELSE ResetOwn(m)
  /\ UNCHANGED <<issued, clock, tx, strictClaim, dropped>>

-----------------------------------------------------------------------------
(* retryDeadLetterMessages: the dead letters of the queue are reset first;   *)
(* what the limit leaves goes to forwarded copies found in the queue.  Which *)
(* rows a limit cuts off depends on `updated`, which is left out: any may be.*)

DeadLetters(q) ==
  {m \in Msg : messages[m].queue = q /\ messages[m].status = "dead_letter"}

CopiesIn(q) ==
  {m \in Msg : /\ messages[m].queue = q
               /\ messages[m].status \in {"queued", "dead_letter"}
               /\ IsCopy(m)}

\* Copies the transaction may have to unwrap into a new row.
MayUnwrap(q) ==
  {m \in Msg : /\ messages[m].queue = q
               /\ IsCopy(m)
               /\ \/ OriginalOf(m) \notin Present
                  \/ messages[OriginalOf(m)].status = "queued"}

Cut(S, n, T) ==
  /\ T \subseteq S
  /\ Cardinality(T) = IF Cardinality(S) < n THEN Cardinality(S) ELSE n

BeginRetryDeadLetters(q, limit) ==
  /\ NoTransaction
  /\ HasRoom(Cardinality(MayUnwrap(q)))
  /\ \E T \in SUBSET DeadLetters(q) :
       /\ Cut(DeadLetters(q), limit, T)
       /\ tx' = [op |-> "retryDead", todo |-> T, queue |-> q,
                 left |-> limit - Cardinality(T)]
  /\ UNCHANGED <<table, issued, clock, history>>

RetryDeadStep(m) ==
  /\ tx.op = "retryDead" /\ m \in tx.todo
  /\ ResetOwn(m)
  /\ tx' = [tx EXCEPT !.todo = @ \ {m}]
  /\ UNCHANGED <<issued, clock, strictClaim, dropped>>

BeginRetryCopies ==
  /\ tx.op = "retryDead" /\ tx.todo = {}
  /\ \E T \in SUBSET CopiesIn(tx.queue) :
       /\ Cut(CopiesIn(tx.queue), tx.left, T)
       /\ tx' = IF T = {} THEN Idle
                ELSE [tx EXCEPT !.op = "retryCopies", !.todo = T]
  /\ UNCHANGED <<table, issued, clock, history>>

\* The last row closes the transaction.
Visited(m) == IF tx.todo = {m} THEN Idle ELSE [tx EXCEPT !.todo = @ \ {m}]

RetryCopiesStep(m) ==
  /\ tx.op = "retryCopies" /\ m \in tx.todo
  /\ RestoreOriginal(m, {})
  /\ tx' = Visited(m)
  /\ UNCHANGED <<issued, clock, strictClaim, dropped>>

-----------------------------------------------------------------------------
(* reclaimOrphaned: the sweeper's mode takes expired leases, the start-up    *)
(* mode also the claims of this process's former workers, forceAll takes all.*)

Orphaned(mode, m) ==
  /\ Processing(m)
  /\ CASE mode = "forceAll" -> TRUE
       [] mode = "deadWorkers" -> Expired(m) \/ messages[m].claimedBy \in LocalWorker
       [] mode = "expired" -> Expired(m)

BeginReclaim(qs, mode) ==
  /\ NoTransaction
  /\ LET T == {m \in Msg : messages[m].queue \in qs /\ Orphaned(mode, m)}
     IN /\ T # {}
        /\ HasRoom(Cardinality({m \in T : /\ Exhausted(messages[m])
                                          /\ Forwards(m)}))
        /\ tx' = [op |-> "reclaim", todo |-> T, queue |-> NoQueue, left |-> 0]
  /\ UNCHANGED <<table, issued, clock, history>>

ReclaimStep(m) ==
  /\ tx.op = "reclaim" /\ m \in tx.todo
  /\ IF Exhausted(messages[m]) THEN DeadLetter(m) ELSE Requeue(m, clock)
  /\ tx' = Visited(m)
  /\ UNCHANGED <<issued, clock, strictClaim, dropped>>

-----------------------------------------------------------------------------
(* Retention and purge.  cleanup deletes the finished rows older than a      *)
(* cutoff; finishedAt is left out, so it is any set of finished rows.        *)

Finished(qs) ==
  {m \in Msg : /\ messages[m].queue \in qs
               /\ messages[m].status \in {"completed", "dead_letter"}}

Cleanup(qs) ==
  /\ NoTransaction
  /\ \E S \in SUBSET Finished(qs) : S # {} /\ Remove(S)
  /\ UNCHANGED queues

\* purge(queue): everything but the messages being processed.
Purge(q) ==
  /\ NoTransaction
  /\ Remove({m \in Present : messages[m].queue = q /\ ~Processing(m)})
  /\ UNCHANGED queues

\* purge(queue, status).
PurgeStatus(q, status) ==
  /\ NoTransaction
  /\ Remove({m \in Present : messages[m].queue = q /\ messages[m].status = status})
  /\ UNCHANGED queues

Tick ==
  /\ NoTransaction
  /\ clock < MaxClock
  /\ clock' = clock + 1
  /\ UNCHANGED <<table, issued, tx, history>>

-----------------------------------------------------------------------------
Init ==
  /\ queues = [q \in Queue |-> MissingQueue]
  /\ messages = [m \in Msg |-> NoRow]
  /\ lastId = 0
  /\ issued = [m \in Msg |-> 0]
  /\ clock = 0
  /\ tx = Idle
  /\ job = [m \in Msg |-> NoMsg]
  /\ revived = {}
  /\ strictClaim = {}
  /\ dropped = {}

MaxAttemptsOf(q) == SendAttempts \cup {DefaultAttempts(q)}

QueueStep(q) ==
  \/ \E dto \in QueueDto[q] : UpsertQueue(q, dto)
  \/ DeleteQueue(q)
  \/ /\ q \in Inbox
     /\ \E g \in Group, delay \in Delay \cup {0}, max \in MaxAttemptsOf(q),
           dedup \in Dedup \cup {NoDedup} : Send(q, g, delay, max, dedup)
  \/ \E who \in Claimant, timeout \in Timeout, limit \in Limit :
        Claim(q, who, timeout, limit)
  \/ \E limit \in Limit : BeginRetryDeadLetters(q, limit)
  \/ \E qs \in {{q}, Queue}, mode \in {"expired", "deadWorkers", "forceAll"} :
        BeginReclaim(qs, mode)
  \/ \E qs \in {{q}, Queue} : Cleanup(qs)
  \/ Purge(q)
  \/ \E status \in {"queued", "completed", "dead_letter", "processing"} :
        PurgeStatus(q, status)

MessageStep(m) ==
  \/ \E extension \in Timeout, token \in TokensOf(m) : Touch(m, extension, token)
  \/ \E token \in TokensOf(m) : Complete(m, token)
  \/ \E backoff \in Delay \cup {QueueDefault}, token \in TokensOf(m) : Fail(m, backoff, token)
  \/ \E delay \in Delay : Defer(m, delay)
  \/ ForceDeadLetter(m)
  \/ Cancel(m)
  \/ RetryMessage(m)
  \/ RetryDeadStep(m)
  \/ RetryCopiesStep(m)
  \/ ReclaimStep(m)

Next ==
  \/ \E q \in Queue : QueueStep(q)
  \/ \E m \in Msg : MessageStep(m)
  \/ BeginRetryCopies
  \/ Tick

Spec == Init /\ [][Next]_vars

-----------------------------------------------------------------------------
(* Properties.                                                               *)

TypeOK ==
  /\ queues \in [Queue -> QueueRow]
  /\ messages \in [Msg -> MessageRow]
  /\ lastId \in 0 .. MaxMsg
  /\ issued \in [Msg -> Nat]
  /\ clock \in Nat
  /\ tx \in [op : {"idle", "reclaim", "retryDead", "retryCopies"},
             todo : SUBSET Msg, queue : Queue \cup {NoQueue}, left : Nat]
  /\ job \in [Msg -> Msg \cup {NoMsg}]
  /\ revived \in SUBSET Msg
  /\ strictClaim \in SUBSET Msg
  /\ dropped \in SUBSET (Msg \cup {NoMsg})

(* A message is being processed exactly while its row carries a claim, and   *)
(* the token on the row is the last one issued: a token that was ever        *)
(* superseded can never match again (the claimToken guards of touch,         *)
(* complete and fail).                                                       *)
ClaimDiscipline ==
  \A m \in Msg :
    IF Processing(m)
    THEN /\ messages[m].claimToken = issued[m] /\ issued[m] > 0
         /\ messages[m].leaseExpiresAt # NoTime
         /\ messages[m].claimedBy # Nobody
    ELSE /\ messages[m].claimToken = NoToken
         /\ messages[m].leaseExpiresAt = NoTime
         /\ messages[m].claimedBy = Nobody

(* A message that waits always has an attempt left, and one being processed  *)
(* was not claimed more often than its limit allows: fail, defer, reclaim    *)
(* and the retries agree on who counts what.                                 *)
AttemptsWithinLimit ==
  \A m \in Msg :
    messages[m].maxAttempts > 0 =>
      /\ messages[m].status = "queued" => messages[m].attempts < messages[m].maxAttempts
      /\ Processing(m) => messages[m].attempts \in 1 .. messages[m].maxAttempts

(* A link from a message to its copy in the dead-letter queue exists only    *)
(* while the message is a dead letter, and leads to a copy of that message   *)
(* in another queue, or to a row that is gone: no retry, purge or cancel     *)
(* leaves a link to the wrong row.                                           *)
ForwardLinks ==
  \A m \in Msg :
    LET c == messages[m].forwardedToMessageId
    IN c # NoMsg =>
         /\ messages[m].status = "dead_letter"
         /\ c \in Present => /\ messages[c].originalMessageId = m
                             /\ messages[c].queue # messages[m].queue

(* What was once accepted is still somewhere, as itself or in an envelope,   *)
(* unless an operator deleted it: dead-lettering, the deletion of pending    *)
(* copies and the retries that unwrap a copy never lose the last row of a    *)
(* job.                                                                      *)
NoJobLost ==
  \A m \in 1 .. lastId :
    job[m] \in dropped \/ \E x \in Present : job[x] = job[m]

(* Strict order: of two messages of a group that are processed at the same   *)
(* time, the older one was brought back by a retry after the younger one had *)
(* rightly been claimed.  Nothing but a retry lets a group overlap, which    *)
(* openwiki/functions-flows-and-queues.md:158 says strictOrder never does.   *)
StrictGroupsOverlapOnlyByRetry ==
  \A x, y \in Msg :
    /\ x < y
    /\ Unfinished(x) /\ Processing(y) /\ y \in strictClaim
    /\ messages[x].queue = messages[y].queue
    /\ messages[x].groupKey = messages[y].groupKey
    => x \in revived

(* Deduplication: of two active messages with one deduplication id, the      *)
(* older was brought back by a retry.  Nothing but a retry makes a duplicate.*)
DuplicatesOnlyByRetry ==
  \A x, y \in Present :
    /\ x < y
    /\ messages[x].queue = messages[y].queue
    /\ messages[x].deduplicationId # NoDedup
    /\ messages[x].deduplicationId = messages[y].deduplicationId
    /\ Unfinished(x)
    => x \in revived

(* A completed message is not run again by itself: it leaves that state only *)
(* when it is deleted or when a retry brings it back.                        *)
CompletedStaysDone ==
  [][\A m \in Msg :
       messages[m].status = "completed" =>
         \/ messages'[m].status \in {"completed", "absent"}
         \/ m \in revived' \ revived]_vars

(* No claim makes more messages live than the queue's concurrency allows,    *)
(* whatever else has happened to the leases meanwhile.  Only claims: touch    *)
(* revives an expired lease whose slot has been given away.                  *)
ClaimWithinCap ==
  [][\A q \in Queue :
       issued' # issued /\ Capped(q) /\ Active(q)' \ Active(q) # {} =>
         Cardinality(Active(q)') <= queues[q].concurrency]_vars

-----------------------------------------------------------------------------
(* What a comment says, and the code does not keep: the run QueueRetryRunning *)
(* finds it violated.                                                        *)

(* SqliteQueueDriver.ts:812: "Do not retry actively processing messages".    *)
(* The retry of a dead-letter copy resets its original without looking at    *)
(* the original's status, and takes the claim from the worker that runs it.  *)
RetrySparesProcessing ==
  [][\A c, m \in Msg :
       RetryMessage(c) /\ Processing(m) => messages'[m] = messages[m]]_vars

=============================================================================
