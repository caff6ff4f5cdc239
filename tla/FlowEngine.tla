------------------------------- MODULE FlowEngine -------------------------------
(***************************************************************************)
(* One execution inside the engine (src/flows/FlowEngine.ts), which FlowService  *)
(* sees from outside: the loop over the steps, the race of a step with the      *)
(* deadline, the retries of a step, the pool of a Map state and its sub-flows.   *)
(* The definition is a Map state, caught by and followed by a Loop state that    *)
(* goes back to it or ends; the iterator of the Map is one Task.  Map and Task    *)
(* retry every error.                                                          *)
(*                                                                         *)
(* Promise.race and Promise.all abandon what they do not wait for any more:     *)
(* the handler of a step that timed out, with its retries, and the workers of a   *)
(* pool after its first failure.  Payloads and checkpoints are left out; the      *)
(* latter are the subject of FlowService.                                       *)
(***************************************************************************)
EXTENDS Naturals, Sequences, FiniteSets, FiniteSetsExt

CONSTANTS
  NItems,          \* items of the Map state
  Concurrency,     \* maxConcurrency of the Map state
  MaxTries,     \* maxAttempts of the retry policies
  MaxIterations,   \* maxIterations of the Loop state
  MaxSteps         \* maxStepTransitions, 500 in the code

ASSUME EngineAssumption ==
  NItems \in Nat \ {0} /\ Concurrency \in Nat \ {0} /\ MaxTries \in Nat \ {0}
  /\ MaxIterations \in Nat \ {0} /\ MaxSteps \in Nat \ {0}

VARIABLES
  flow,            \* [status, at, phase, attempt, loops] of the execution
  pool,            \* the pools ever started, the last one is that of the Map step
  tracker,         \* sharedStepTracker.count
  begun,           \* steps begun by the execution, before a resume too, and by the
                   \* sub-flows of this call (for checking)
  late,            \* the deadline has passed
  signal           \* signal.aborted

engineVars == <<flow, pool, tracker, begun, late, signal>>

Item == 1..NItems
Failure == {"failed", "timeout", "cancelled"}

\* A sub-flow before its item is taken; its task is idle, running or in backoff.
Untaken == [status |-> "untaken", task |-> "idle", attempt |-> 0]
Begun == [Untaken EXCEPT !.status = "running", !.task = "running"]

\* A call starts an execution, or resumes one that has made steps of its own: at a
\* state, with the loop counters and the number of these steps, from which the tracker
\* goes on.  The steps of the sub-flows before the resume are not in that number.
EngineInit ==
  /\ \E at \in {"Map", "Loop"}, loops \in 0..MaxIterations, steps \in 0..MaxSteps :
       /\ steps >= 2 * loops + (IF at = "Loop" THEN 1 ELSE 0)
       /\ flow = [status |-> "running", at |-> at, phase |-> "idle", attempt |-> 0, loops |-> loops]
       /\ tracker = steps /\ begun = steps
  /\ pool = <<>> /\ late = FALSE /\ signal = FALSE

FlowRunning == flow.status = "running"
CurrentPool == Len(pool)

-----------------------------------------------------------------------------
(* Steps: the checks at the top of the loop, for the nth step from now on.     *)

Exceeded_OwnSteps(n) == n > MaxSteps
Exceeded(n) == tracker + n > MaxSteps

\* The first step of a sub-flow that begins now.  Its deadline is what is left, and
\* at least a millisecond, so that it never begins late.
Entered(n) == IF signal THEN [Untaken EXCEPT !.status = "cancelled"]
              ELSE IF Exceeded(n) THEN [Untaken EXCEPT !.status = "failed"]
              ELSE Begun

\* The tracker counts a refused step too; beyond the limit its value is all one.
Tracked(n) == /\ tracker' = IF signal THEN tracker ELSE Min({tracker + n, MaxSteps + 1})
              /\ begun' = begun + Cardinality({k \in 1..n : ~signal /\ ~Exceeded(k)})

-----------------------------------------------------------------------------
(* ConcurrencyPool.map: each worker takes the next item before it waits for it.  *)

Workers == Min({Concurrency, NItems})
LastItem(p) == p.next <= NItems

StartPool ==
  /\ pool' = Append(pool, [next |-> Workers + 1,
                           workers |-> Cardinality({k \in 1..Workers : Entered(k) = Begun}),
                           item |-> [i \in Item |-> IF i <= Workers THEN Entered(i) ELSE Untaken]])
  /\ Tracked(Workers)

\* The sub-flow of item i of pool p ends: after a failure its worker ends, and the
\* others go on; otherwise the worker takes the next item.
SubFlowEnds(p, i, status) ==
  LET ended == [pool[p] EXCEPT !.item[i] = [@ EXCEPT !.status = status, !.task = "idle"]]
      more == status = "succeeded" /\ LastItem(ended)
      entered == Entered(1)
  IN  /\ pool' = [pool EXCEPT ![p] =
           IF more THEN [ended EXCEPT !.item[ended.next] = entered, !.next = @ + 1,
                                      !.workers = IF entered = Begun THEN @ ELSE @ - 1]
           ELSE [ended EXCEPT !.workers = @ - 1]]
      /\ IF more THEN Tracked(1) ELSE UNCHANGED <<tracker, begun>>

FailuresOf(p) == {pool[p].item[i].status : i \in Item} \cap Failure

\* Promise.all has its answer: it is handled before anything else happens.
Settling == flow.phase = "running"
            /\ (pool[CurrentPool].workers = 0 \/ FailuresOf(CurrentPool) # {})

-----------------------------------------------------------------------------
(* The task of a sub-flow, under executeWithRetry.                             *)

Task(p, i) == pool[p].item[i]

\* Whether the step still waits for its handler, or timed out before.
Awaited(p, i) == Task(p, i).status = "running"
TaskOnly(p, i, task, attempt) ==
  /\ pool' = [pool EXCEPT ![p].item[i] = [Task(p, i) EXCEPT !.task = task, !.attempt = attempt]]
  /\ UNCHANGED <<tracker, begun>>
TaskEnds(p, i, status) ==
  IF Awaited(p, i) THEN SubFlowEnds(p, i, status) ELSE TaskOnly(p, i, "idle", Task(p, i).attempt)

TaskSucceeds(p, i) ==
  /\ Task(p, i).task = "running"
  /\ \/ TaskEnds(p, i, "succeeded")
     \/ late /\ TaskEnds(p, i, "timeout")
  /\ UNCHANGED <<flow, late, signal>>

LastAttempt(attempt) == attempt + 1 >= MaxTries

TaskFails(p, i) ==
  /\ Task(p, i).task = "running"
  /\ IF LastAttempt(Task(p, i).attempt) THEN TaskEnds(p, i, "failed")
     ELSE IF signal THEN TaskEnds(p, i, "cancelled")
     ELSE TaskOnly(p, i, "backoff", Task(p, i).attempt + 1)
  /\ UNCHANGED <<flow, late, signal>>

\* The backoff ends, by its timer or by the abort; the signal is read again.
Aborted_NotRead == FALSE
Aborted == signal

TaskRetries(p, i) ==
  /\ Task(p, i).task = "backoff"
  /\ IF Aborted THEN TaskEnds(p, i, "cancelled")
     ELSE TaskOnly(p, i, "running", Task(p, i).attempt)
  /\ UNCHANGED <<flow, late, signal>>

\* The timer of the step wins the race: the worker goes on, the handler too.
TaskTimesOut(p, i) ==
  /\ late /\ Awaited(p, i)
  /\ LET timedOut == [pool[p] EXCEPT !.item[i].status = "timeout", !.workers = @ - 1]
     IN  pool' = [pool EXCEPT ![p] = timedOut]
  /\ UNCHANGED <<flow, tracker, begun, late, signal>>

-----------------------------------------------------------------------------
(* The execution itself.                                                     *)

Ends(status) == flow' = [flow EXCEPT !.status = status, !.phase = "idle"]
GoesTo(state) == flow' = [flow EXCEPT !.at = state, !.phase = "idle", !.attempt = 0]

\* What stops the loop before the next step.
Stopped ==
  \/ signal /\ Ends("cancelled") /\ UNCHANGED tracker
  \/ ~signal /\ late /\ Ends("timeout") /\ UNCHANGED tracker
  \/ ~signal /\ ~late /\ Exceeded(1) /\ Ends("failed") /\ tracker' = MaxSteps + 1

Begins == ~signal /\ ~late /\ ~Exceeded(1)

StepStops ==
  /\ FlowRunning /\ flow.phase = "idle"
  /\ Stopped
  /\ UNCHANGED <<pool, begun, late, signal>>

\* The step is counted, and its handler starts the pool on the next line of it.
MapBegins ==
  /\ FlowRunning /\ flow.phase = "idle" /\ flow.at = "Map"
  /\ Begins
  /\ flow' = [flow EXCEPT !.phase = "counted"]
  /\ tracker' = tracker + 1 /\ begun' = begun + 1
  /\ UNCHANGED <<pool, late, signal>>

\* A call of the handler: after the step was counted, or after a backoff; the signal
\* is read first.
MapHandler ==
  /\ flow.phase \in {"counted", "backoff"}
  /\ IF Aborted
     THEN /\ IF FlowRunning THEN Ends("cancelled") ELSE flow' = [flow EXCEPT !.phase = "idle"]
          /\ UNCHANGED <<pool, tracker, begun>>
     ELSE StartPool /\ flow' = [flow EXCEPT !.phase = "running"]
  /\ UNCHANGED <<late, signal>>

MapSucceeds ==
  /\ FailuresOf(CurrentPool) = {}
  /\ IF ~FlowRunning THEN flow' = [flow EXCEPT !.phase = "idle"]
     ELSE GoesTo("Loop") \/ (late /\ Ends("timeout"))

\* catch does not see timeouts and cancellations, nor an error after the deadline.
StepFails(error) ==
  IF ~FlowRunning THEN flow' = [flow EXCEPT !.phase = "idle"]
  ELSE \/ error # "failed" /\ Ends(error)
       \/ error = "failed" /\ late /\ Ends("failed")
       \/ error = "failed" /\ ~late /\ GoesTo("Loop")

\* Retry policies see every error, those of timeouts and cancellations too.
MapFails(error) ==
  IF LastAttempt(flow.attempt) THEN StepFails(error)
  ELSE IF signal THEN StepFails("cancelled")
  ELSE flow' = [flow EXCEPT !.phase = "backoff", !.attempt = @ + 1]

MapSettles ==
  /\ MapSucceeds \/ (\E error \in FailuresOf(CurrentPool) : MapFails(error))
  /\ UNCHANGED <<pool, tracker, begun, late, signal>>

\* The timer of the step wins the race; the handler of the Map state goes on.
MapTimesOut ==
  /\ FlowRunning /\ late /\ flow.phase \in {"running", "backoff"}
  /\ flow' = [flow EXCEPT !.status = "timeout"]
  /\ UNCHANGED <<pool, tracker, begun, late, signal>>

LoopStep ==
  /\ FlowRunning /\ flow.phase = "idle" /\ flow.at = "Loop"
  /\ Begins
  /\ tracker' = tracker + 1 /\ begun' = begun + 1
  /\ \/ flow.loops >= MaxIterations /\ Ends("failed")
     \/ flow.loops < MaxIterations
        /\ flow' = [flow EXCEPT !.at = "Map", !.attempt = 0, !.loops = @ + 1]
     \/ flow.loops < MaxIterations /\ Ends("succeeded")
  /\ UNCHANGED <<pool, late, signal>>

DeadlinePasses ==
  /\ ~late
  /\ late' = TRUE
  /\ UNCHANGED <<flow, pool, tracker, begun, signal>>

\* FlowService forgets the controller when the execution has ended.
Abort ==
  /\ FlowRunning /\ ~signal
  /\ signal' = TRUE
  /\ UNCHANGED <<flow, pool, tracker, begun, late>>

TaskStep ==
  \E p \in 1..CurrentPool : \E i \in Item :
    TaskSucceeds(p, i) \/ TaskFails(p, i) \/ TaskRetries(p, i) \/ TaskTimesOut(p, i)

FlowStep == StepStops \/ MapBegins \/ MapTimesOut \/ LoopStep

EngineNext ==
  \/ Settling /\ MapSettles
  \/ flow.phase \in {"counted", "backoff"} /\ MapHandler
  \/ ~Settling /\ flow.phase # "counted" /\ (TaskStep \/ FlowStep \/ DeadlinePasses \/ Abort)

EngineSpec == EngineInit /\ [][EngineNext]_engineVars

-----------------------------------------------------------------------------

EngineTypeOK ==
  /\ flow \in [status : {"running", "succeeded"} \cup Failure, at : {"Map", "Loop"},
               phase : {"idle", "counted", "running", "backoff"},
               attempt : 0..MaxTries - 1, loops : 0..MaxIterations]
  /\ pool \in Seq([next : 1..NItems + 1, workers : 0..Workers,
                   item : [Item -> [status : {"untaken", "running", "succeeded"} \cup Failure,
                                    task : {"idle", "running", "backoff"},
                                    attempt : 0..MaxTries - 1]]])
  /\ tracker \in 0..MaxSteps + 1 /\ begun \in Nat
  /\ late \in BOOLEAN /\ signal \in BOOLEAN

\* However the sub-flows of several pools overlap, abandoned ones with them, the execution
\* and the sub-flows of this call together begin at most 500 steps (the shared step
\* tracker); the execution's own steps before a resume are among them, those of its
\* sub-flows before the resume are not.
StepsBounded == begun <= MaxSteps

\* After an abort no task is started: neither by a retry whose backoff was under way,
\* nor by a worker that takes the next item, nor by a pool that outlived its step.
AbortStartsNothing ==
  [][signal => \A p \in 1..Len(pool') : \A i \in Item :
       pool'[p].item[i].task = "running" => p <= Len(pool) /\ Task(p, i).task = "running"]_engineVars

\* A pool that ends without a failure has mapped every item, each by one sub-flow.
PoolMapsEveryItem ==
  \A p \in 1..CurrentPool :
    pool[p].workers = 0 /\ FailuresOf(p) = {}
      => \A i \in Item : Task(p, i).status = "succeeded"

\* Contradicted by docs/docs/flows/state-machine.md: maxConcurrency is the "Maximum number
\* of items processed concurrently".  A retried Map state starts a second pool while the
\* workers of the first go on.
ItemsWithinConcurrency ==
  Cardinality({t \in (1..CurrentPool) \X Item : Task(t[1], t[2]).task = "running"}) <= Concurrency
=============================================================================
