---------------------------- MODULE FunctionService ----------------------------
(***************************************************************************)
(* The calls of serverless functions (src/functions/FunctionService.ts):    *)
(* from clients, from the record operations of src/records/RecordService.ts *)
(* that trigger them as hooks, and from a queue that src/queue/              *)
(* QueueService.ts drains; functions in turn write records and send          *)
(* messages.                                                                *)
(*                                                                         *)
(* executionStorage (AsyncLocalStorage) gives every call the functions that  *)
(* are active in its chain of calls.  Node passes it on to whatever the call *)
(* starts: host calls, but also the setImmediate and the timers of the       *)
(* queue.  The model carries it as the sequence of functions of the chain;   *)
(* its length is depth and its range activeFns.  The paths of wake and timer *)
(* are the storage those callbacks run with.                                *)
(*                                                                         *)
(* One collection and one kind of operation on it; what a function computes  *)
(* is its outcome.                                                          *)
(***************************************************************************)
EXTENDS Naturals, Sequences, FiniteSets, Functions

CONSTANTS
  Function,           \* the functions
  Settings,           \* the rows of _functions that are written
  Frame,              \* executions of a function: at most Cardinality(Frame)
  Write,              \* record operations in progress at one time
  Message,            \* messages of the queue
  TargetFunction,     \* the queue's targetFunction
  MaxConcurrent,      \* maxConcurrent
  MaxRecursionDepth,  \* maxRecursionDepth
  MaxAttempts         \* maxAttempts of a message

ASSUME FunctionAssumption ==
  /\ IsFiniteSet(Frame) /\ TargetFunction \in Function /\ Write \cap Message = {}
  /\ MaxConcurrent \in Nat /\ MaxRecursionDepth \in Nat

VARIABLES
  functions,         \* functions[f]: its row, or Absent
  frames,            \* frames[x]: the execution x, or NoFrame
  writes,            \* writes[w]: the record operation w, or NoWrite
  messages,          \* messages[m]: [state, attempts]
  activeExecutions,
  wake,              \* the storage of the pending setImmediate, or NoPath
  timer              \* the storage of the delayed timer, or NoPath

functionVars == <<functions, frames, writes, messages, activeExecutions, wake, timer>>

NoPath == <<"none">>
NoFrame == [fn |-> "none", path |-> <<>>, caller |-> "none"]
NoWrite == [phase |-> "none", path |-> <<>>, todo |-> {}, runs |-> FALSE]

Absent == [present |-> FALSE, enabled |-> FALSE, trigger |-> "none"]

Running == {x \in Frame : frames[x] # NoFrame}
Client == "client"

FunctionInit ==
  /\ functions = [f \in Function |-> Absent]
  /\ frames = [x \in Frame |-> NoFrame]
  /\ writes = [w \in Write |-> NoWrite]
  /\ messages = [m \in Message |-> [state |-> "none", attempts |-> 0, path |-> <<>>]]
  /\ activeExecutions = 0
  /\ wake = NoPath /\ timer = NoPath

-----------------------------------------------------------------------------
(* Admission.                                                                *)

Full == activeExecutions >= MaxConcurrent

Circular(f, path) == Len(path) + 1 > MaxRecursionDepth \/ f \in Range(path)

\* A call of f in the chain path begins in frame x.
Begin(x, f, path, caller) ==
  /\ frames[x] = NoFrame
  /\ frames' = [frames EXCEPT ![x] = [fn |-> f, path |-> Append(path, f), caller |-> caller]]
  /\ activeExecutions' = activeExecutions + 1

\* wakeAllWorkers: the queue is woken if it has a message to deliver; a wake
\* that is pending keeps its own storage.
WakeWorker(path) == wake' = IF wake = NoPath THEN path ELSE wake

WakeAllWorkers_None(path) == UNCHANGED wake

WakeAllWorkers(path) ==
  IF \E m \in Message : messages[m].state = "queued" THEN WakeWorker(path) ELSE UNCHANGED wake

\* scheduleDelayedAt: the earlier of two targets keeps the timer.
ScheduleDelayed(path) ==
  timer' \in IF timer = NoPath THEN {path} ELSE {timer, path}

-----------------------------------------------------------------------------
(* Calls by clients, and the registry.                                       *)

\* executeFunction or testFunction for a client: the caller gets 404, 403,
\* 429 or the result.
ExecuteFunction(f, x) ==
  /\ functions[f].present /\ functions[f].enabled
  /\ ~Full /\ ~Circular(f, <<>>)
  /\ Begin(x, f, <<>>, Client)
  /\ UNCHANGED <<functions, writes, messages, wake, timer>>

CreateFunction(f) ==
  /\ ~functions[f].present
  /\ \E row \in Settings :
       functions' = [functions EXCEPT ![f] = row]
  /\ UNCHANGED <<frames, writes, messages, activeExecutions, wake, timer>>

\* updateFunction: enabled and eventTrigger.
UpdateFunction(f) ==
  /\ functions[f].present
  /\ \E row \in Settings :
       row # functions[f] /\ functions' = [functions EXCEPT ![f] = row]
  /\ UNCHANGED <<frames, writes, messages, activeExecutions, wake, timer>>

\* deleteFunction: a function that a queue is bound to goes only by force.
DeleteFunction(f, force) ==
  /\ functions[f].present
  /\ force \/ f # TargetFunction
  /\ functions' = [functions EXCEPT ![f] = Absent]
  /\ UNCHANGED <<frames, writes, messages, activeExecutions, wake, timer>>

-----------------------------------------------------------------------------
(* Record operations and their hooks.                                        *)

\* handleRecordEvent reads the matching functions once.
Matching(phase) ==
  {f \in Function : functions[f].enabled /\ functions[f].trigger \in {phase, "any"}}

\* create, update or delete: by a client (path <<>>) or by a function.
StartWrite(w, path) ==
  /\ writes[w] = NoWrite
  /\ writes' = [writes EXCEPT ![w] = [phase |-> "before", path |-> path,
                                      todo |-> Matching("before"), runs |-> FALSE]]
  /\ UNCHANGED <<functions, frames, messages, activeExecutions, wake, timer>>

\* handleRecordEvent, one function: refused as circular (508) or for capacity
\* (429), which ends the operation, or run.  An after-hook that is refused
\* fails an operation whose row is written.
RunHook(w, f, x) ==
  LET op == writes[w] IN
  /\ op.phase \in {"before", "after"} /\ ~op.runs /\ f \in op.todo
  /\ IF Circular(f, op.path) \/ Full
     THEN /\ writes' = [writes EXCEPT ![w] = NoWrite]
          /\ UNCHANGED <<frames, activeExecutions>>
     ELSE /\ Begin(x, f, op.path, w)
          /\ writes' = [writes EXCEPT ![w].todo = @ \ {f}, ![w].runs = TRUE]
  /\ UNCHANGED <<functions, messages, wake, timer>>

\* After the last before-hook the row is written and the after-hooks follow;
\* after the last of these the change is broadcast and the operation returns.
NextPhase(w) ==
  /\ writes[w] # NoWrite /\ ~writes[w].runs /\ writes[w].todo = {}
  /\ writes' = [writes EXCEPT ![w] =
       IF @.phase = "before" THEN [@ EXCEPT !.phase = "after", !.todo = Matching("after")]
       ELSE NoWrite]
  /\ UNCHANGED <<functions, frames, messages, activeExecutions, wake, timer>>

-----------------------------------------------------------------------------
(* The end of an execution: it returns, is cancelled, fails, or is given up  *)
(* at its timeout.  The host calls it started go on.                         *)

Released_KeepsOne == IF activeExecutions > 1 THEN activeExecutions - 1 ELSE activeExecutions

Released == IF activeExecutions > 0 THEN activeExecutions - 1 ELSE 0

Outcomes == {"success", "cancel", "error", "timeout"}

\* The path of the code that awaited the call of x.
CallerPath(x) == SubSeq(frames[x].path, 1, Len(frames[x].path) - 1)

\* A hook that cancels, fails or times out stops an operation before its
\* write; after the write its outcome is ignored.
HookReturned(w, outcome) ==
  writes' = [writes EXCEPT ![w] =
    IF @.phase = "before" /\ outcome # "success" THEN NoWrite ELSE [@ EXCEPT !.runs = FALSE]]

\* complete, or fail with the retry budget: executeClaimedMessage, whose
\* finally block wakes the queue.
MessageReturned(m, outcome, path) ==
  LET n == messages[m].attempts + 1
      retried == outcome # "success" /\ n < MaxAttempts IN
  /\ messages' = [messages EXCEPT ![m] =
       [state |-> CASE outcome = "success" -> "done" [] retried -> "delayed" [] OTHER -> "dead",
        attempts |-> n, path |-> <<>>]]
  /\ IF retried THEN ScheduleDelayed(path) ELSE UNCHANGED timer
  /\ WakeWorker(path)

FrameEnds(x, outcome) ==
  /\ x \in Running
  /\ frames' = [frames EXCEPT ![x] = NoFrame]
  /\ activeExecutions' = Released
  /\ LET c == frames[x].caller IN
     CASE c \in Message -> MessageReturned(c, outcome, CallerPath(x)) /\ UNCHANGED writes
       [] c \in Write -> /\ HookReturned(c, outcome) /\ WakeAllWorkers(CallerPath(x))
                         /\ UNCHANGED <<messages, timer>>
       [] OTHER -> WakeAllWorkers(CallerPath(x)) /\ UNCHANGED <<writes, messages, timer>>
  /\ UNCHANGED functions

-----------------------------------------------------------------------------
(* The queue.                                                                *)

\* send: by a client, or by a function through queueBridge.
Send(m, path) ==
  /\ messages[m].state = "none"
  /\ messages' = [messages EXCEPT ![m].state = "queued"]
  /\ WakeWorker(path)
  /\ UNCHANGED <<functions, frames, writes, activeExecutions, timer>>

\* drainQueue claims as many messages as there is free capacity; without any
\* it looks again later.
Drain ==
  /\ wake # NoPath
  /\ wake' = NoPath
  /\ LET queued == {m \in Message : messages[m].state = "queued"}
         n == MaxConcurrent - activeExecutions IN
     IF Full
     THEN ScheduleDelayed(wake) /\ UNCHANGED messages
     ELSE \E claimed \in SUBSET queued :
            /\ Cardinality(claimed) = IF Cardinality(queued) < n THEN Cardinality(queued) ELSE n
            /\ messages' = [m \in Message |-> IF m \in claimed
                              THEN [messages[m] EXCEPT !.state = "claimed", !.path = wake]
                              ELSE messages[m]]
            /\ UNCHANGED timer
  /\ UNCHANGED <<functions, frames, writes, activeExecutions>>

\* executeQueueMessage of a claimed message: without capacity it is deferred
\* and keeps its attempts; a circular or missing function costs one.
ExecuteQueueMessage(m, x) ==
  LET path == messages[m].path
      f == TargetFunction IN
  /\ messages[m].state = "claimed"
  /\ CASE ~functions[f].enabled ->
            MessageReturned(m, "error", path) /\ UNCHANGED <<frames, activeExecutions>>
       [] functions[f].enabled /\ Full ->
            /\ messages' = [messages EXCEPT ![m].state = "delayed", ![m].path = <<>>]
            /\ ScheduleDelayed(path) /\ WakeWorker(path)
            /\ UNCHANGED <<frames, activeExecutions>>
       [] functions[f].enabled /\ ~Full /\ Circular(f, path) ->
            /\ MessageReturned(m, "error", path)
            /\ UNCHANGED <<frames, activeExecutions>>
       [] OTHER ->
            /\ Begin(x, f, path, m)
            /\ messages' = [messages EXCEPT ![m].state = "running", ![m].path = <<>>]
            /\ UNCHANGED <<wake, timer>>
  /\ UNCHANGED <<functions, writes>>

\* The delayed timer: what is due by then is woken for.
TimerFires ==
  /\ timer # NoPath
  /\ timer' = NoPath
  /\ messages' = [m \in Message |-> IF messages[m].state = "delayed"
                                    THEN [messages[m] EXCEPT !.state = "queued"] ELSE messages[m]]
  /\ WakeWorker(timer)
  /\ UNCHANGED <<functions, frames, writes, activeExecutions>>

-----------------------------------------------------------------------------
\* What a function may do while it runs, with its own storage.
HostCall(x) ==
  /\ x \in Running
  /\ \/ \E w \in Write : StartWrite(w, frames[x].path)
     \/ \E m \in Message : Send(m, frames[x].path)

FunctionNext ==
  \/ \E f \in Function : CreateFunction(f) \/ UpdateFunction(f)
  \/ \E f \in Function, force \in BOOLEAN : DeleteFunction(f, force)
  \/ \E f \in Function, x \in Frame : ExecuteFunction(f, x)
  \/ \E x \in Frame : HostCall(x)
  \/ \E x \in Frame, outcome \in Outcomes : FrameEnds(x, outcome)
  \/ \E w \in Write : StartWrite(w, <<>>) \/ NextPhase(w)
  \/ \E w \in Write, f \in Function, x \in Frame : RunHook(w, f, x)
  \/ \E m \in Message : Send(m, <<>>)
  \/ \E m \in Message, x \in Frame : ExecuteQueueMessage(m, x)
  \/ Drain
  \/ TimerFires

FunctionSpec == FunctionInit /\ [][FunctionNext]_functionVars

-----------------------------------------------------------------------------
FunctionTypeOK ==
  /\ functions \in [Function -> Settings \cup {Absent}]
  /\ \A x \in Running : frames[x].fn \in Function /\ frames[x].caller \in {Client} \cup Write \cup Message
  /\ activeExecutions \in Nat

(* The count that admits calls is the number of executions, on every exit of *)
(* every kind of call, and it never passes the limit: no slot leaks and none *)
(* is given back twice, although hooks run nested in the calls that caused   *)
(* them and go on after these have timed out.                                *)
ActiveExecutionsExact ==
  /\ activeExecutions = Cardinality(Running)
  /\ activeExecutions <= MaxConcurrent

(* Capacity that becomes free is offered to the messages that wait: without a  *)
(* pending wake the executions and the claims on their way to one use it up,  *)
(* whoever took it and gave it back meanwhile; and a message that was put off  *)
(* has the timer.                                                            *)
CapacityIsOffered ==
  /\ wake = NoPath /\ (\E m \in Message : messages[m].state = "queued")
       => MaxConcurrent <= activeExecutions
                            + Cardinality({m \in Message : messages[m].state = "claimed"})
  /\ (\E m \in Message : messages[m].state = "delayed") => timer # NoPath

(* No chain of calls, through records, hooks and messages, comes back to a   *)
(* function of the chain or grows past the limit, so a function that writes  *)
(* to the collection it hooks cannot call itself for ever.                   *)
CallsAreAcyclic ==
  \A x \in Running :
    /\ Len(frames[x].path) <= MaxRecursionDepth
    /\ \A i, j \in DOMAIN frames[x].path : frames[x].path[i] = frames[x].path[j] => i = j

(* openwiki/functions-flows-and-queues.md:70: a call is refused as circular  *)
(* when the function is already active in the chain.  The storage outlives   *)
(* the call in the timers of the queue, so a claimed message is refused,     *)
(* attempt after attempt, for a function that has long returned.             *)
RefusedWhileActive ==
  \A m \in Message :
    messages[m].state = "claimed" /\ TargetFunction \in Range(messages[m].path)
      => \E x \in Running : frames[x].fn = TargetFunction
=============================================================================
