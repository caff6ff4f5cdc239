---------------------------- MODULE QueueService -----------------------------
(***************************************************************************)
(* The worker loop of src/src/queue/QueueService.ts: who wakes a queue,     *)
(* when a drain claims, what the one delayed timer and the sweeper do, and  *)
(* how the loop recovers from a crash of the process and from a restore of   *)
(* the database, which may fail and leave it locked or closed.               *)
(*                                                                         *)
(* The rows of the driver are reduced to what the loop depends on (their    *)
(* full life is in QueueDriver).  Time is relative: a delay, a lease and    *)
(* the timer hold the number of ticks they still have to go, so the model   *)
(* runs for ever without a bound on the clock.                              *)
(*                                                                         *)
(* JavaScript runs one task at a time; an action is what runs between two   *)
(* awaits.  The awaits of the loop let other tasks in at any order, which   *)
(* includes every order the event loop can produce.                         *)
(***************************************************************************)
EXTENDS Integers, FiniteSets

CONSTANTS
  MaxMsg,        \* bound: messages ever inserted
  Queue,         \* queue names
  DeadLetterTo,  \* DeadLetterTo[q]: where q forwards its dead letters, or q
  Concurrency,   \* Concurrency[q]: the queue's concurrency; 0 means no cap
  BatchLimit,    \* what a drain claims at most when there is no cap (25)
  MaxAttempts,   \* the messages' maxAttempts, at least 1
  SendDelay,     \* delays a sender may ask for, in ticks
  Backoff,       \* backoffDelayMs in ticks
  Lease,         \* visibility timeout in ticks
  MaxBusy,       \* bound: how often function capacity is found exhausted
  MaxRestart,    \* bound: crashes, restores, and calls of start() on a running
                 \* service
  Outside,       \* what workers outside the process and operators do over
                 \* HTTP: a subset of OutsideCalls
  ClockMovesInside \* TRUE if the clock may advance between two reads of it
                   \* in one callback

OutsideCalls == {"complete", "fail", "cancel", "skip", "restore"}

Msg == 1 .. MaxMsg

\* The conjunct about powers is a fact of arithmetic the provers have no rule for.
ASSUME QueueServiceAssumption ==
  /\ MaxMsg \in Nat
  /\ Queue # {} /\ DeadLetterTo \in [Queue -> Queue]
  /\ Concurrency \in [Queue -> Nat] /\ BatchLimit \in Nat \ {0}
  /\ MaxAttempts \in Nat \ {0}
  /\ SendDelay \subseteq Nat /\ Backoff \in Nat /\ Lease \in Nat \ {0}
  /\ \A n \in 1 .. MaxAttempts : Backoff * 2 ^ (n - 1) \in Nat
  /\ MaxBusy \in Nat /\ MaxRestart \in Nat
  /\ Outside \subseteq OutsideCalls /\ ClockMovesInside \in BOOLEAN

Off == -1   \* no timer

VARIABLES
  rows,        \* the messages in the database
  up,          \* the process is running
  pendingWake, \* Set pendingWake
  immediates,  \* immediates[q]: setImmediate callbacks of wakeWorker(q) to run
  drain,       \* drain[q]: where the drain that holds drainingQueues(q) stands
  timer,       \* ticks until delayedTimer fires, or Off
  rescan,      \* a scheduleNextDelayedWake() is still to read the database
  running,     \* executeClaimedMessage calls in flight: [msg, token]
  away,        \* the database is locked or closed: ~isDbAvailable()
  busyLeft,    \* budget for MaxBusy
  restartLeft, \* budget for MaxRestart
  unreset,     \* history: a restore failed, and the loop was not started anew
  unwoken      \* history: queues with an outside worker's slot given up, or a
               \* message fallen due between two reads of the clock, since
               \* they were last woken

vars == <<rows, up, pendingWake, immediates, drain, timer, rescan, running,
          away, busyLeft, restartLeft, unreset, unwoken>>
database == <<away, unreset>>
memory == <<up, drain, running, database, busyLeft, restartLeft>>

NoRow == [status |-> "none", queue |-> CHOOSE q \in Queue : TRUE, wait |-> 0,
          lease |-> 0, by |-> "nobody", token |-> 0, attempts |-> 0]

TypeOK ==
  /\ rows \in [Msg -> [status : {"none", "queued", "processing", "done", "dead", "deleted"},
                       queue : Queue, wait : Nat, lease : Nat,
                       by : {"nobody", "local", "external"},
                       token : Nat, attempts : 0 .. MaxAttempts]]
  /\ up \in BOOLEAN
  /\ pendingWake \in SUBSET Queue
  /\ immediates \in [Queue -> Nat]
  /\ drain \in [Queue -> {"idle", "read", "claimed", "empty"}]
  /\ timer \in Nat \cup {Off}
  /\ rescan \in BOOLEAN
  /\ running \in SUBSET [msg : Msg, token : Nat]
  /\ busyLeft \in 0 .. MaxBusy /\ restartLeft \in 0 .. MaxRestart
  /\ away \in BOOLEAN /\ unreset \in BOOLEAN /\ unwoken \in SUBSET Queue

-----------------------------------------------------------------------------
(* The driver, as the loop sees it.                                          *)

Queued(rs, m) == rs[m].status = "queued"
Due(rs, q) == {m \in Msg : rs[m].queue = q /\ Queued(rs, m) /\ rs[m].wait = 0}
DueQueues(rs) == {q \in Queue : Due(rs, q) # {}}
Delayed(rs, qs) == {m \in Msg : rs[m].queue \in qs /\ Queued(rs, m) /\ rs[m].wait > 0}
Live(q) == {m \in Msg : /\ rows[m].queue = q /\ rows[m].status = "processing"
                        /\ rows[m].lease > 0}

Minimum(S) == CHOOSE x \in S : \A y \in S : x <= y

Claimed(row, who) ==
  [row EXCEPT !.status = "processing", !.lease = Lease, !.by = who,
              !.token = @ + 1, !.attempts = @ + 1]

Released(row, status, delay) ==
  [row EXCEPT !.status = status, !.lease = 0, !.by = "nobody", !.wait = delay]

\* The result of failing or reclaiming m; a dead letter leaves a copy in the
\* queue it is forwarded to (in a row not used so far).
Free == {m \in Msg : rows[m].status = "none"}
NextFree(n) == {m \in Free : Cardinality({x \in Free : x < m}) < n}

Exhausted(m) == rows[m].attempts >= MaxAttempts
Forwards(m) == DeadLetterTo[rows[m].queue] # rows[m].queue

GivenUp(rs, m, delay) ==
  IF Exhausted(m) THEN [rs EXCEPT ![m] = Released(@, "dead", 0)]
  ELSE [rs EXCEPT ![m] = Released(@, "queued", delay)]

\* A copy of each of the dead letters D; rows are used in the order of ids.
WithCopies(rs, D) ==
  LET f == CHOOSE g \in [NextFree(Cardinality(D)) -> D] :
             \A a, b \in DOMAIN g : a # b => g[a] # g[b]
  IN [x \in Msg |->
        IF x \in DOMAIN f
        THEN [NoRow EXCEPT !.status = "queued", !.queue = DeadLetterTo[rows[f[x]].queue]]
        ELSE rs[x]]

FullBackoff(m) == Backoff * 2 ^ (rows[m].attempts - 1)

-----------------------------------------------------------------------------
(* Waking.                                                                   *)

\* wakeWorker for each queue of qs: nothing if a wake is already pending.
WakeWorker(qs, pending, imm) ==
  /\ pendingWake' = pending \cup qs
  /\ immediates' = [q \in Queue |-> IF q \in qs \ pending THEN imm[q] + 1 ELSE imm[q]]

\* The queues qs are woken; those of missed, which got a free slot or a message
\* that is due, are not, unless their wake is pending.
WakeNot(qs, missed) ==
  /\ WakeWorker(qs, pendingWake, immediates)
  /\ unwoken' = (unwoken \ qs) \cup (missed \ (pendingWake \cup qs))

Wake(qs) == WakeNot(qs, {})
NoWake == UNCHANGED <<pendingWake, immediates, unwoken>>

\* scheduleDelayedAt: an earlier timer is kept.
Scheduled_KeepsAny(delay) == IF timer # Off THEN timer ELSE delay
Scheduled(delay) == IF timer # Off /\ timer <= delay THEN timer ELSE delay

\* scheduleNextDelayedWake over the queues qs.
ScheduleNext(qs) ==
  timer' = IF Delayed(rows, qs) = {} THEN timer
           ELSE Scheduled(Minimum({rows[m].wait : m \in Delayed(rows, qs)}))

-----------------------------------------------------------------------------
(* send: a delayed message sets the timer, another wakes its queue.          *)

\* Bound: a message is sent only if rows are left for it, for its copy and for
\* the copies of the unfinished messages.
Copies(q) == IF DeadLetterTo[q] = q THEN 0 ELSE 1
Unforwarded == {m \in Msg : /\ rows[m].status \in {"queued", "processing"}
                            /\ Forwards(m)}
HasRoom(q) == Cardinality(Free) > Copies(q) + Cardinality(Unforwarded)

Send(q, delay) ==
  /\ up /\ ~away /\ HasRoom(q)
  /\ \E m \in NextFree(1) :
       /\ rows' = [rows EXCEPT ![m] = [NoRow EXCEPT !.status = "queued",
                                                    !.queue = q, !.wait = delay]]
       /\ IF delay > 0 THEN timer' = Scheduled(delay) /\ NoWake
          ELSE Wake({q}) /\ UNCHANGED timer
  /\ UNCHANGED <<memory, rescan>>

RunImmediate_KeepsMark(q) ==
  /\ up /\ immediates[q] > 0
  /\ immediates' = [immediates EXCEPT ![q] = @ - 1]
  /\ IF away THEN UNCHANGED <<pendingWake, drain>>
     ELSE IF drain[q] # "idle"
     THEN pendingWake' = pendingWake \cup {q} /\ UNCHANGED drain
     ELSE /\ pendingWake' = pendingWake \ {q}
          /\ drain' = [drain EXCEPT ![q] = "read"]
  /\ UNCHANGED <<rows, up, timer, rescan, running, database, busyLeft, restartLeft, unwoken>>

RunImmediate_DropsMark(q) ==
  /\ up /\ immediates[q] > 0
  /\ immediates' = [immediates EXCEPT ![q] = @ - 1]
  /\ pendingWake' = pendingWake \ {q}
  /\ drain' = [drain EXCEPT ![q] = IF @ = "idle" /\ ~away THEN "read" ELSE @]
  /\ UNCHANGED <<rows, up, timer, rescan, running, database, busyLeft, restartLeft, unwoken>>

\* The setImmediate callback of wakeWorker, up to the first await of
\* drainQueue.  It takes the mark away even if it then finds no database; if a
\* drain is under way it leaves a mark and no callback.
RunImmediate(q) ==
  /\ up /\ immediates[q] > 0
  /\ immediates' = [immediates EXCEPT ![q] = @ - 1]
  /\ IF ~away /\ drain[q] # "idle"
     THEN pendingWake' = pendingWake \cup {q} /\ UNCHANGED drain
     ELSE /\ pendingWake' = pendingWake \ {q}
          /\ drain' = IF away THEN drain ELSE [drain EXCEPT ![q] = "read"]
  /\ UNCHANGED <<rows, up, timer, rescan, running, database, busyLeft, restartLeft, unwoken>>

\* drainQueue after getQueue: claim as many due messages as the cap allows.
Allowed(q) ==
  IF Concurrency[q] = 0 THEN BatchLimit
  ELSE IF Cardinality(Live(q)) >= Concurrency[q] THEN 0
  ELSE Concurrency[q] - Cardinality(Live(q))

DrainClaim(q) ==
  /\ up /\ drain[q] = "read"
  /\ \E S \in SUBSET Due(rows, q) :
       /\ Cardinality(S) = IF Cardinality(Due(rows, q)) <= Allowed(q)
                           THEN Cardinality(Due(rows, q)) ELSE Allowed(q)
       /\ rows' = [m \in Msg |-> IF m \in S THEN Claimed(rows[m], "local") ELSE rows[m]]
       /\ running' = running \cup {[msg |-> m, token |-> rows[m].token + 1] : m \in S}
       /\ drain' = [drain EXCEPT ![q] = IF S = {} THEN "empty" ELSE "claimed"]
  /\ UNCHANGED <<up, timer, rescan, database, busyLeft, restartLeft>> /\ NoWake

\* The finally block of drainQueue: a mark left meanwhile wakes the queue
\* again.
DrainEnd(q) ==
  /\ drain' = [drain EXCEPT ![q] = "idle"]
  /\ IF q \in pendingWake
     THEN WakeWorker({q}, pendingWake \ {q}, immediates) /\ UNCHANGED unwoken
     ELSE NoWake

\* The target function has no capacity left: look again later.
DrainSaturated(q) ==
  /\ up /\ drain[q] = "read" /\ busyLeft > 0
  /\ busyLeft' = busyLeft - 1
  /\ timer' = Scheduled(1)
  /\ DrainEnd(q)
  /\ UNCHANGED <<rows, up, rescan, running, database, restartLeft>>

DrainFinish(q) ==
  /\ up /\ drain[q] \in {"claimed", "empty"}
  /\ IF drain[q] = "empty" THEN ScheduleNext({q}) ELSE UNCHANGED timer
  /\ DrainEnd(q)
  /\ UNCHANGED <<rows, up, rescan, running, database, busyLeft, restartLeft>>

-----------------------------------------------------------------------------
(* executeClaimedMessage: the handler is done.  complete and fail check the  *)
(* token, defer does not; the finally block wakes the queue in every case    *)
(* but one: without a database nothing is recorded and nobody woken.         *)

Current(e) == rows[e.msg].status = "processing" /\ rows[e.msg].token = e.token

HandlerSucceeds(e) ==
  /\ up /\ ~away /\ e \in running
  /\ running' = running \ {e}
  /\ rows' = IF Current(e) THEN [rows EXCEPT ![e.msg] = Released(@, "done", 0)]
             ELSE rows
  /\ Wake({rows[e.msg].queue})
  /\ UNCHANGED <<up, drain, timer, rescan, database, busyLeft, restartLeft>>

\* fail(): the row goes back with a backoff, or becomes a dead letter.  Only a
\* retried message sets the timer or wakes its own queue; alsoWake is what the
\* caller wakes besides.  The slot of a dead letter is free and nobody told.
Fails(m, alsoWake) ==
  LET dead  == Exhausted(m)
      delay == IF dead THEN 0 ELSE FullBackoff(m)
      woken == IF dead THEN {DeadLetterTo[rows[m].queue]} \ {rows[m].queue}
               ELSE IF delay = 0 THEN {rows[m].queue} ELSE {}
  IN /\ rows' = WithCopies(GivenUp(rows, m, delay),
                            IF dead /\ Forwards(m) THEN {m} ELSE {})
     /\ timer' = IF delay > 0 THEN Scheduled(delay) ELSE timer
     /\ WakeNot(woken \cup alsoWake, IF dead THEN {rows[m].queue} ELSE {})

HandlerFails(e) ==
  /\ up /\ ~away /\ e \in running
  /\ running' = running \ {e}
  /\ IF Current(e) THEN Fails(e.msg, {rows[e.msg].queue})
     ELSE Wake({rows[e.msg].queue}) /\ UNCHANGED <<rows, timer>>
  /\ UNCHANGED <<up, drain, rescan, database, busyLeft, restartLeft>>

Refunded(n) == IF n > 0 THEN n - 1 ELSE 0
Deferred(row) == [Released(row, "queued", 1) EXCEPT !.attempts = Refunded(@)]

\* 429 from the function: the message goes back without using up an attempt.
HandlerBusy(e) ==
  /\ up /\ ~away /\ e \in running /\ busyLeft > 0
  /\ busyLeft' = busyLeft - 1
  /\ running' = running \ {e}
  /\ rows' = IF rows[e.msg].status = "processing"
             THEN [rows EXCEPT ![e.msg] = Deferred(@)]
             ELSE rows
  /\ timer' = Scheduled(1)
  /\ Wake({rows[e.msg].queue})
  /\ UNCHANGED <<up, drain, rescan, database, restartLeft>>

HandlerUnheard(e) ==
  /\ up /\ away /\ e \in running
  /\ running' = running \ {e}
  /\ UNCHANGED <<rows, up, drain, timer, rescan, database, busyLeft, restartLeft>> /\ NoWake

-----------------------------------------------------------------------------
(* Workers outside the process claim over HTTP and may never come back;      *)
(* operators delete or skip a message whatever its state.                    *)

ExternalClaim(m) ==
  /\ up /\ ~away /\ Outside \cap {"complete", "fail"} # {}
  /\ m \in Due(rows, rows[m].queue)
  /\ Allowed(rows[m].queue) > 0
  /\ rows' = [rows EXCEPT ![m] = Claimed(@, "external")]
  /\ UNCHANGED <<memory, timer, rescan>> /\ NoWake

ExternalComplete(m) ==
  /\ up /\ ~away /\ "complete" \in Outside /\ rows[m].by = "external"
  /\ rows' = [rows EXCEPT ![m] = Released(@, "done", 0)]
  /\ Wake({rows[m].queue})
  /\ UNCHANGED <<memory, timer, rescan>>

ExternalFail(m) ==
  /\ up /\ ~away /\ "fail" \in Outside /\ rows[m].by = "external"
  /\ Fails(m, {})
  /\ UNCHANGED <<memory, rescan>>

\* cancel() deletes the row and wakes nobody; a handler of this process goes on.
Cancel(m) ==
  /\ up /\ ~away /\ "cancel" \in Outside
  /\ rows[m].status \in {"queued", "processing"}
  /\ rows' = [rows EXCEPT ![m] = Released(@, "deleted", 0)]
  /\ WakeNot({}, IF rows[m].by = "external" THEN {rows[m].queue} ELSE {})
  /\ UNCHANGED <<memory, timer, rescan>>

ForceSkip(m) ==
  /\ up /\ ~away /\ "skip" \in Outside
  /\ rows[m].status \in {"queued", "processing"}
  /\ rows' = WithCopies([rows EXCEPT ![m] = Released(@, "dead", 0)],
                         IF Forwards(m) THEN {m} ELSE {})
  /\ Wake({rows[m].queue, DeadLetterTo[rows[m].queue]})
  /\ UNCHANGED <<memory, timer, rescan>>

-----------------------------------------------------------------------------
(* The timers.                                                               *)

\* The delayed timer fires: first half of the callback, wake what is due.
\* Without a database it does no more than turn itself off.
TimerFires ==
  /\ up /\ timer = 0
  /\ timer' = Off
  /\ IF away THEN NoWake /\ UNCHANGED rescan
     ELSE Wake(DueQueues(rows)) /\ rescan' = TRUE
  /\ UNCHANGED <<rows, memory>>

\* Second half: a new read of the clock and of the table.
Rescan ==
  /\ up /\ rescan
  /\ rescan' = FALSE
  /\ ScheduleNext(Queue)
  /\ UNCHANGED <<rows, memory>> /\ NoWake

\* reclaimOrphaned over the messages T, of the table rs; its count decides what
\* is woken.
Reclaim(rs, T) ==
  LET dead == {m \in T : Exhausted(m)}
      kept == [m \in Msg |-> IF m \in T THEN GivenUp(rs, m, 0)[m] ELSE rs[m]]
  IN rows' = WithCopies(kept, {m \in dead : Forwards(m)})

ExpiredRows ==
  {m \in Msg : rows[m].status = "processing" /\ rows[m].lease = 0}

Sweep_NoWake ==
  /\ up /\ ~away /\ ExpiredRows # {}
  /\ Reclaim(rows, ExpiredRows)
  /\ UNCHANGED <<memory, timer, rescan>> /\ NoWake

Sweep ==
  /\ up /\ ~away /\ ExpiredRows # {}
  /\ Reclaim(rows, ExpiredRows)
  /\ Wake(DueQueues(rows'))
  /\ UNCHANGED <<memory, timer, rescan>>

\* A tick of the clock; a callback that reads the clock twice sees one time
\* unless ClockMovesInside.
Down(n) == IF n > 0 THEN n - 1 ELSE n
FallingDue == {m \in Msg : Queued(rows, m) /\ rows[m].wait = 1}

Tick ==
  /\ ClockMovesInside \/ (~rescan /\ \A q \in Queue : drain[q] # "empty")
  /\ rows' = [m \in Msg |-> [rows[m] EXCEPT !.wait = Down(@), !.lease = Down(@)]]
  /\ timer' = Down(timer)
  /\ WakeNot({}, IF rescan THEN {rows[m].queue : m \in FallingDue} ELSE {})
  /\ UNCHANGED <<memory, rescan>>

-----------------------------------------------------------------------------
(* The process dies and loses everything that is not in the database; the     *)
(* next one opens it anew.                                                   *)
Crash ==
  /\ up /\ restartLeft > 0
  /\ up' = FALSE
  /\ restartLeft' = restartLeft - 1
  /\ pendingWake' = {} /\ immediates' = [q \in Queue |-> 0]
  /\ drain' = [q \in Queue |-> "idle"]
  /\ timer' = Off /\ rescan' = FALSE /\ running' = {}
  /\ away' = FALSE /\ unreset' = FALSE /\ unwoken' = {}
  /\ UNCHANGED <<rows, busyLeft>>

\* start(): reclaim what workers of this program held and what has expired,
\* wake what is due, then set the timer.  NodeStack.start() calls it again on
\* the queues that opening an application has already started.
Start ==
  /\ ~up \/ restartLeft > 0
  /\ ~away
  /\ restartLeft' = IF up THEN restartLeft - 1 ELSE restartLeft
  /\ up' = TRUE
  /\ Reclaim(rows, ExpiredRows \cup {m \in Msg : rows[m].by = "local"})
  /\ Wake(DueQueues(rows'))
  /\ rescan' = TRUE /\ unreset' = FALSE
  /\ UNCHANGED <<drain, timer, running, away, busyLeft>>

-----------------------------------------------------------------------------
(* A restore of the database from a snapshot.  It begins in a turn of its own, *)
(* and the awaits of a drain, all of a synchronous driver, end within one.     *)
Quiet == ~rescan /\ \A q \in Queue : drain[q] = "idle"

\* What a snapshot may hold: of the messages sent so far, those of gone were not
\* there yet, those of back had not been claimed, and the others were as they
\* are now.  The token of a row outlives its claim: no claim has one a second time.
Sent == {m \in Msg : rows[m].status # "none"}
SnapshotRows(gone, back, delay) ==
  [m \in Msg |-> IF m \in gone THEN Released(rows[m], "deleted", 0)
                 ELSE IF m \in back THEN [Released(rows[m], "queued", delay) EXCEPT !.attempts = 0]
                 ELSE rows[m]]

\* Bound: rows for the copies of all that is unfinished then.
Fits(rs) ==
  Cardinality({m \in Msg : rs[m].status \in {"queued", "processing"} /\ Forwards(m)})
    <= Cardinality(Free)

\* resetAfterRestore, at the end of a restore: the loop forgets its marks and its
\* timer, and every claim is taken back.  The callbacks of setImmediate are left.
Restored ==
  /\ up /\ "restore" \in Outside /\ Quiet /\ restartLeft > 0
  /\ restartLeft' = restartLeft - 1
  /\ \E gone, back \in SUBSET Sent, delay \in SendDelay :
       LET rs == SnapshotRows(gone, back, delay) IN
       /\ Fits(rs)
       /\ Reclaim(rs, {m \in Msg : rs[m].status = "processing"})
  /\ WakeWorker(DueQueues(rows'), {}, immediates)
  /\ timer' = Off /\ rescan' = TRUE
  /\ away' = FALSE /\ unreset' = FALSE /\ unwoken' = {}
  /\ UNCHANGED <<up, drain, running, busyLeft>>

\* One that fails resets nothing: the table may be the old one or that of the
\* snapshot, and the database away or back.
RestoreFails ==
  /\ up /\ "restore" \in Outside /\ Quiet /\ restartLeft > 0
  /\ restartLeft' = restartLeft - 1
  /\ \/ UNCHANGED rows
     \/ \E gone, back \in SUBSET Sent, delay \in SendDelay :
          /\ Fits(SnapshotRows(gone, back, delay))
          /\ rows' = SnapshotRows(gone, back, delay)
  /\ away' \in BOOLEAN /\ unreset' = TRUE
  /\ UNCHANGED <<up, drain, timer, rescan, running, busyLeft>> /\ NoWake

-----------------------------------------------------------------------------
Init ==
  /\ rows = [m \in Msg |-> NoRow]
  /\ up = TRUE
  /\ pendingWake = {} /\ immediates = [q \in Queue |-> 0]
  /\ drain = [q \in Queue |-> "idle"]
  /\ timer = Off /\ rescan = FALSE /\ running = {}
  /\ busyLeft = MaxBusy /\ restartLeft = MaxRestart
  /\ away = FALSE /\ unreset = FALSE /\ unwoken = {}

Executions == {[msg |-> m, token |-> t] : m \in Msg, t \in 1 .. MaxAttempts + MaxBusy}

HandlerEnds(e) ==
  HandlerSucceeds(e) \/ HandlerFails(e) \/ HandlerBusy(e) \/ HandlerUnheard(e)
DrainStep(q) == DrainClaim(q) \/ DrainSaturated(q) \/ DrainFinish(q)

Next ==
  \/ \E q \in Queue, delay \in SendDelay : Send(q, delay)
  \/ \E q \in Queue : RunImmediate(q) \/ DrainStep(q)
  \/ \E e \in running : HandlerEnds(e)
  \/ \E m \in Msg : ExternalClaim(m) \/ ExternalComplete(m) \/ ExternalFail(m)
                   \/ Cancel(m) \/ ForceSkip(m)
  \/ TimerFires \/ Rescan \/ Sweep \/ Tick
  \/ Crash \/ Start \/ Restored \/ RestoreFails

(* Node's event loop runs every callback that is due, time passes, a crashed *)
(* process is restarted and the 15 s sweeper keeps coming back.  A handler   *)
(* is assumed to return; nothing is assumed of senders and outside workers.  *)
Fairness ==
  /\ \A q \in Queue : WF_vars(RunImmediate(q)) /\ WF_vars(DrainStep(q))
  /\ \A e \in Executions : WF_vars(HandlerEnds(e))
  /\ WF_vars(TimerFires) /\ WF_vars(Rescan) /\ WF_vars(Sweep)
  /\ WF_vars(Tick) /\ WF_vars(Start /\ ~up)

Spec == Init /\ [][Next]_vars /\ Fairness

-----------------------------------------------------------------------------
(* Every message that waits is eventually run to an end, dead-lettered or    *)
(* deleted: no wake-up is lost between wakeWorker, drainQueue, the one timer, *)
(* the sweeper, start() and the reset after a restore.  A restore that fails  *)
(* resets nothing, and what it cut off stays asleep; and two things keep a    *)
(* message waiting that the run leaves out, a clock that moves between the    *)
(* two reads in one callback, and the outside call of DueMessagesAreTaken.    *)
EveryMessageSettles ==
  \A m \in Msg :
    Queued(rows, m) ~> unreset \/ rows[m].status \in {"done", "dead", "deleted"}

(* What is bound to look at a queue again: a callback, a drain, an execution  *)
(* that will wake the queue when it ends, the timer, or the end or the expiry *)
(* of a lease held outside.                                                  *)
LookedAt(q) ==
  \/ immediates[q] > 0 \/ drain[q] # "idle"
  \/ \E e \in running : rows[e.msg].queue = q
  \/ timer # Off
  \/ \E m \in Msg : rows[m].queue = q /\ rows[m].by = "external"

(* No wake-up is lost (wakeWorker, drainQueue, executeClaimedMessage,         *)
(* scheduleDelayedAt): while the process is up and a message is due, something *)
(* is bound to look at its queue again, whatever workers and operators outside *)
(* do and however the clock moves, unless since its last wake the queue lost   *)
(* the claim of an outside worker to fail() or cancel(), or a message fell due *)
(* between two reads of the clock, or a restore failed.                       *)
WakeUpNotLost ==
  \A q \in Queue :
    up /\ ~unreset /\ Due(rows, q) # {} /\ q \notin unwoken => LookedAt(q)

(* docs/docs/queues/workers-and-functions.md:16: the loop "automatically      *)
(* claims messages".  The code does not when an outside worker gives up the    *)
(* message in the only slot of its queue: fail() wakes the dead-letter queue   *)
(* alone, and the messages behind it sleep until the queue is woken for        *)
(* another reason.                                                          *)
DueMessagesAreTaken ==
  \A q \in Queue : up /\ Due(rows, q) # {} => LookedAt(q)

(* The one timer is never later than the first delayed message, except in    *)
(* the moment between firing and the new read of the table, and after a       *)
(* restore that failed.                                                     *)
TimerCoversDelays ==
  \A m \in Delayed(rows, Queue) :
    up /\ ~unreset => rescan \/ (timer # Off /\ timer <= rows[m].wait)

(* A mark in pendingWake is never left alone: wakeWorker, which finds it and *)
(* returns, can rely on a callback or on the end of the running drain.       *)
PendingWakeIsBacked ==
  \A q \in pendingWake : immediates[q] > 0 \/ drain[q] # "idle"

(* QueueService.ts:129: start() reclaims the jobs a crash left behind.  On a *)
(* service that is already running it also takes away the claims of its own  *)
(* handlers, whose jobs then run twice at the same time.                     *)
RunningJobsKeepTheirClaim ==
  [][Start => \A e \in running :
       Current(e) /\ rows[e.msg].lease > 0 => rows'[e.msg] = rows[e.msg]]_vars

=============================================================================
