---------------------------- MODULE FlowService ----------------------------
(***************************************************************************)
(* The executions of one flow: FlowService (admission, the queue of the    *)
(* flow, checkpoints, abort, resume, recovery) with the loop of FlowEngine *)
(* that runs the steps.  The database (flow, queue, jobs, row) survives a  *)
(* crash, the rest is memory of the process.                               *)
(*                                                                         *)
(* Every call on the queue is synchronous below its promise, so what a     *)
(* call does between two waits for a handler, a timer or a request is one  *)
(* action; only a crash can cut it.  The actions whose names begin with    *)
(* Crash end it at its inner points.                                       *)
(***************************************************************************)
EXTENDS Integers, FiniteSets, Sequences

CONSTANTS Executions,   \* ids of executions, generated or given by clients
          Definitions,  \* definitions the flow may have
          Limits,       \* values of maxConcurrentExecutions; 0 stands for none
          Tokens,       \* claim tokens, see Fresh
          MaxJobs,      \* bound: messages of one execution in the queue
          MaxLog,       \* bound: an execution with a longer log is not resumed
          MaxCrashes,   \* bound: crashes of the process
          MaxUses       \* bound: executions under one id, each after the last was deleted

NoState == "no state"   \* a checkpoint without a state; no next state
End == "end"            \* the transition of a state that ends the flow
NoToken == 0
NoJob == 0
NoQueue == 0
NoExecution == "no execution"

\* A definition has the state it starts at, the transitions a state may take
\* when its handler succeeds, and those of its catch policies.
States == UNION {DOMAIN d.next : d \in Definitions}

ASSUME DefinitionsAssumption ==
  \A d \in Definitions :
    /\ d.start \in DOMAIN d.next
    /\ DOMAIN d.caught = DOMAIN d.next
    /\ {NoState, End} \cap DOMAIN d.next = {}
    /\ \A s \in DOMAIN d.next : d.next[s] \subseteq DOMAIN d.next \cup {End}
                             /\ d.caught[s] \subseteq DOMAIN d.next

ASSUME BoundsAssumption ==
  /\ Limits \subseteq Nat
  /\ NoToken \notin Tokens
  /\ NoExecution \notin Executions
  /\ {MaxJobs, MaxUses} \subseteq Nat \ {0} /\ MaxLog \in Nat /\ MaxCrashes \in Nat

\* Tokens stands for the UUIDs, which do not run out: whatever token the row of an
\* execution and its runner hold, another is left.
ASSUME TokensAssumption ==
  \A rowToken, runnerToken \in [Executions -> Tokens \cup {NoToken}] :
    \E t \in Tokens : \A e \in Executions : t \notin {rowToken[e], runnerToken[e]}

VARIABLES
  flow,        \* the row of _flows; the flow may be deleted
  queue,       \* concurrency of its system queue, or NoQueue
  jobs,        \* status of the messages in that queue
  row,         \* the rows of _flow_executions
  up,          \* the process runs
  runners,     \* calls of FlowEngine.execute, each waiting for a handler
  claims,      \* activeExecutionClaims
  waiters,     \* executionWaiters: callers that wait for a queued execution
  suppressed,  \* suppressedExecutionWrites
  recovery,    \* the call of recoverOrphanedExecutions that is under way
  crashes,     \* crashes so far
  uses,        \* executions so far under each id
  robbed       \* history: executions of the queue's worker that run on after
               \* their message was deleted under them

disk   == <<flow, queue, jobs, row>>
memory == <<runners, claims, waiters, suppressed, recovery>>
count  == <<crashes, uses, robbed>>
vars   == <<disk, memory, up, count>>

Numbers == 1 .. MaxJobs  \* 1 is job_<id>, the others are job_<id>_resume_<time>
JobIds  == Executions \X Numbers

NoRow == [status |-> "none", at |-> NoState, log |-> <<>>, token |-> NoToken, job |-> NoJob]
Idle  == [on |-> FALSE, todo |-> {}, active |-> {}, waits |-> NoExecution]

Pending(e) == row[e].status \in {"queued", "running"}
Throttled  == flow.limit >= 1
Working    == {r \in runners : r.worker /\ ~r.aborted}

\* A claim token that nobody holds: crypto.randomUUID never repeats.
Fresh == CHOOSE t \in Tokens : /\ \A e \in Executions : row[e].token # t
                               /\ \A r \in runners : r.token # t

\* A message id that was not used, since the time in it never repeats: a number
\* that nothing will refer to once the message of the row is deleted.
FreshJobs(e, todo) == {n \in Numbers \ {1} : /\ jobs[<<e, n>>] = "none" \/ n = row[e].job
                                             /\ <<e, n>> \notin todo}

Log(step, ok, next) == [step |-> step, ok |-> ok, next |-> next]
Last(log) == log[Len(log)]

Runner(e, t, n, worker, at, log) ==
  [exec |-> e, token |-> t, job |-> n, worker |-> worker, def |-> flow.def,
   at |-> at, log |-> log, aborted |-> FALSE]

\* jobs without those of the set J: QueueService.cancel deletes the row.
Without(J) == [j \in JobIds |-> IF j \in J THEN "none" ELSE jobs[j]]

\* The executions that work on the messages J.
WorkingOn(J) == {r.exec : r \in {x \in Working : <<x.exec, x.job>> \in J}}

-----------------------------------------------------------------------------
(* abortExecution.  An execution that is neither queued nor running keeps    *)
(* its row; a runner is told in either case.                                 *)

JobsOf(S) == {<<e, row[e].job>> : e \in {x \in S : Pending(x) /\ row[x].job # NoJob}}

AbortedRows(S) ==
  [e \in Executions |->
     IF e \in S /\ Pending(e)
     THEN [row[e] EXCEPT !.status = "aborted", !.at = NoState, !.token = NoToken]
     ELSE row[e]]

Signalled(S) == {[r EXCEPT !.aborted = @ \/ r.exec \in S] : r \in runners}

AbortAll(S) == /\ row' = AbortedRows(S)
               /\ runners' = Signalled(S)
               /\ waiters' = waiters \ {e \in S : Pending(e)}

Abort(e) ==
  /\ up
  /\ AbortAll({e})
  /\ jobs' = Without(JobsOf({e}))
  /\ UNCHANGED <<flow, queue, up, claims, suppressed, recovery, count>>

\* The timer of a caller that waits for a queued execution.
WaiterTimesOut(e) ==
  /\ up /\ e \in waiters
  /\ row' = AbortedRows({e})
  /\ runners' = Signalled({e})
  /\ waiters' = waiters \ {e}
  /\ jobs' = Without(JobsOf({e}))
  /\ UNCHANGED <<flow, queue, up, claims, suppressed, recovery, count>>

-----------------------------------------------------------------------------
(* executeFlow.                                                              *)

New(e, status, t, n) ==
  [status |-> status, at |-> flow.def.start, log |-> <<>>, token |-> t, job |-> n]

\* saveExecution of a row that must exist already, unless writes are suppressed.
Recorded(e, new) == IF e \in suppressed THEN row ELSE [row EXCEPT ![e] = new]

MayExecute(e) == /\ up /\ flow.exists /\ flow.enabled
                 /\ e \notin claims /\ row[e] = NoRow
                 /\ uses[e] < MaxUses

\* A throttled flow: the row, the waiter, the queue and then the message.  A
\* message left under this id by an earlier execution makes the send fail.
ExecuteQueued(e) ==
  /\ MayExecute(e) /\ Throttled
  /\ queue' = flow.limit
  /\ IF jobs[<<e, 1>>] = "none"
     THEN /\ row' = Recorded(e, New(e, "queued", NoToken, 1))
          /\ jobs' = [jobs EXCEPT ![<<e, 1>>] = "queued"]
          /\ waiters' \in {waiters, waiters \cup {e}}
     ELSE /\ row' = Recorded(e, New(e, "failed", NoToken, 1))
          /\ waiters' = waiters \ {e}
          /\ UNCHANGED jobs
  /\ uses' = [uses EXCEPT ![e] = @ + 1]
  /\ UNCHANGED <<flow, up, runners, claims, suppressed, recovery, crashes, robbed>>

ExecuteDirectly(e) ==
  /\ MayExecute(e) /\ ~Throttled
  /\ row' = Recorded(e, New(e, "running", Fresh, NoJob))
  /\ runners' = runners \cup {Runner(e, Fresh, NoJob, FALSE, flow.def.start, <<>>)}
  /\ claims' = claims \cup {e}
  /\ uses' = [uses EXCEPT ![e] = @ + 1]
  /\ UNCHANGED <<flow, queue, jobs, up, waiters, suppressed, recovery, crashes, robbed>>

-----------------------------------------------------------------------------
(* resolveResumeState: the states to resume at, End when nothing is left to  *)
(* do; empty when the execution cannot go on under this definition.          *)

\* Mutant: without a checkpoint the last step runs again, whatever became of it.
Resumable_LastStep(x, d) ==
  (IF x.at # NoState THEN {x.at}
   ELSE IF x.log = <<>> THEN {d.start} ELSE {Last(x.log).step}) \cap DOMAIN d.next

Resumable(x, d) ==
  LET l == Last(x.log) IN
  (IF x.at # NoState THEN {x.at}
   ELSE IF x.log = <<>> THEN {d.start}
   ELSE IF ~l.ok THEN {l.step}
   ELSE IF l.next # End THEN {l.next}
   ELSE IF l.step \in DOMAIN d.next THEN d.next[l.step] ELSE {})
  \cap (DOMAIN d.next \cup {End})

Succeeded(x) == [x EXCEPT !.status = "succeeded", !.at = NoState, !.token = NoToken]

-----------------------------------------------------------------------------
(* processQueuedFlowJob: the queue hands a message to its worker.            *)

Processing == {j \in JobIds : jobs[j] = "processing"}
Queued     == {j \in JobIds : jobs[j] = "queued"}
FreeSlot   == Cardinality(Processing) < queue

Startable(e) == /\ flow.exists /\ flow.enabled
                /\ e \notin claims /\ row[e].status = "queued"

Take(e, n) == up /\ jobs[<<e, n>>] = "queued" /\ FreeSlot

WorkerStarts(e, n) ==
  /\ Take(e, n) /\ Startable(e)
  /\ \E s \in Resumable(row[e], flow.def) \ {End} :
       runners' = runners \cup {Runner(e, Fresh, n, TRUE, s, row[e].log)}
  /\ row' = [row EXCEPT ![e].status = "running", ![e].token = Fresh]
  /\ jobs' = [jobs EXCEPT ![<<e, n>>] = "processing"]
  /\ claims' = claims \cup {e}
  /\ UNCHANGED <<flow, queue, up, waiters, suppressed, recovery, count>>

\* The checkpoint names a state the definition no longer has: the execution is
\* aborted, and this way out leaves the execution in activeExecutionClaims.
WorkerLoses(e, n) ==
  /\ Take(e, n) /\ Startable(e)
  /\ Resumable(row[e], flow.def) = {}
  /\ AbortAll({e})
  /\ jobs' = [Without(JobsOf({e})) EXCEPT ![<<e, n>>] = IF row[e].job = n THEN "none" ELSE "done"]
  /\ claims' = claims \cup {e}
  /\ UNCHANGED <<flow, queue, up, suppressed, recovery, count>>

\* Nothing is left to do; activeExecutionClaims keeps the execution here too.
WorkerCompletes(e, n) ==
  /\ Take(e, n) /\ Startable(e)
  /\ End \in Resumable(row[e], flow.def)
  /\ row' = [row EXCEPT ![e] = Succeeded(@)]
  /\ jobs' = [jobs EXCEPT ![<<e, n>>] = "done"]
  /\ claims' = claims \cup {e}
  /\ waiters' = waiters \ {e}
  /\ UNCHANGED <<flow, queue, up, runners, suppressed, recovery, count>>

\* The flow was deleted or disabled after the execution was queued.
WorkerRefuses(e, n) ==
  /\ Take(e, n)
  /\ row[e].status \notin {"none", "aborted", "cancelled", "succeeded"}
  /\ ~(flow.exists /\ flow.enabled)
  /\ row' = AbortedRows({e})
  /\ runners' = Signalled({e})
  /\ waiters' = waiters \ {e}
  /\ jobs' = [Without(JobsOf({e})) EXCEPT ![<<e, n>>] =
                IF Pending(e) /\ row[e].job = n THEN "none" ELSE "done"]
  /\ UNCHANGED <<flow, queue, up, claims, suppressed, recovery, count>>

\* The execution is over, is running, or has no row.
WorkerSkips(e, n) ==
  /\ Take(e, n)
  /\ \/ row[e].status \in {"none", "aborted", "cancelled", "succeeded"}
     \/ flow.exists /\ flow.enabled /\ ~Startable(e)
  /\ jobs' = [jobs EXCEPT ![<<e, n>>] = "done"]
  /\ UNCHANGED <<flow, queue, row, up, memory, count>>

-----------------------------------------------------------------------------
(* FlowEngine.execute and what its caller does with the result.              *)

\* Mutant: without the guard on aborted rows.
Saved_Always(r, status, at, log) ==
  IF r.exec \in suppressed \/ row[r.exec] = NoRow THEN row[r.exec]
  ELSE [status |-> status, at |-> at, log |-> log, token |-> NoToken, job |-> r.job]

\* saveExecution of the result.
Saved(r, status, at, log) ==
  LET x == row[r.exec] IN
  IF r.exec \in suppressed \/ x.status \in {"aborted", "none"} THEN x
  ELSE [status |-> status, at |-> at, log |-> log, token |-> NoToken, job |-> r.job]

\* checkAndCleanupDrainedFlowQueue: the limit is gone and nothing is left but,
\* at most, one message that is taken for the one that ends.
Drained == /\ ~(flow.exists /\ Throttled)
           /\ Queued = {} /\ Cardinality(Processing) <= 1
           /\ \A e \in Executions : row'[e].status # "queued"

\* Mutant: the claim is not deleted.
Finish_KeepsClaim(r, status, at, log) ==
  /\ row' = [row EXCEPT ![r.exec] = Saved(r, status, at, log)]
  /\ runners' = runners \ {r}
  /\ jobs' = IF r.worker /\ jobs[<<r.exec, r.job>>] = "processing"
             THEN [jobs EXCEPT ![<<r.exec, r.job>>] = "done"] ELSE jobs
  /\ waiters' = IF r.worker THEN waiters \ {r.exec} ELSE waiters
  /\ UNCHANGED <<flow, queue, up, claims, suppressed, recovery, count>>

\* Mutant: the waiter is settled only when the flow succeeds.
Finish_SettlesSuccess(r, status, at, log) ==
  /\ row' = [row EXCEPT ![r.exec] = Saved(r, status, at, log)]
  /\ runners' = runners \ {r}
  /\ claims' = claims \ {r.exec}
  /\ jobs' = IF r.worker /\ jobs[<<r.exec, r.job>>] = "processing"
             THEN [jobs EXCEPT ![<<r.exec, r.job>>] = "done"] ELSE jobs
  /\ waiters' = IF r.worker /\ status = "succeeded" THEN waiters \ {r.exec} ELSE waiters
  /\ UNCHANGED <<flow, queue, up, suppressed, recovery, count>>

Finish(r, status, at, log) ==
  /\ row' = [row EXCEPT ![r.exec] = Saved(r, status, at, log)]
  /\ runners' = runners \ {r}
  /\ claims' = claims \ {r.exec}
  /\ suppressed' = suppressed \ {r.exec}
  /\ waiters' = IF r.worker THEN waiters \ {r.exec} ELSE waiters
  /\ recovery' = IF recovery.waits = r.exec THEN [recovery EXCEPT !.waits = NoExecution]
                 ELSE recovery
  /\ IF r.worker /\ Drained
     THEN queue' = NoQueue /\ jobs' = Without(JobIds)
     ELSE /\ UNCHANGED queue
          /\ jobs' = IF r.worker /\ jobs[<<r.exec, r.job>>] = "processing"
                     THEN [jobs EXCEPT ![<<r.exec, r.job>>] = "done"] ELSE jobs
  /\ robbed' = (robbed \cup IF r.worker /\ Drained THEN WorkingOn(Processing) ELSE {}) \ {r.exec}
  /\ UNCHANGED <<flow, up, crashes, uses>>

\* persistCheckpoint: which rows it writes, and the error it ends in if not.
Persists(r) == /\ r.exec \notin suppressed
               /\ row[r.exec].status = "running"
               /\ row[r.exec].token \in {r.token, NoToken}
Refused(r) ==
  IF Persists(r) THEN "none"
  ELSE IF r.exec \in suppressed \/ row[r.exec].status \in {"aborted", "cancelled"} THEN "cancelled"
  ELSE IF row[r.exec].token \notin {r.token, NoToken} THEN "failed"
  ELSE "none"

\* The step is over and the flow goes on: the checkpoint, refused while the
\* engine still stands at the state at, then the head of the loop.
Advance(r, next, log, at) ==
  \/ Refused(r) # "none" /\ Finish(r, Refused(r), at, log)
  \/ /\ Refused(r) = "none" /\ r.aborted
     /\ Finish(r, "cancelled", next, log)
  \/ /\ Refused(r) = "none" /\ ~r.aborted
     /\ \/ Finish(r, "timeout", next, log)
        \/ /\ row' = IF Persists(r) THEN [row EXCEPT ![r.exec].at = next, ![r.exec].log = log]
                     ELSE row
           /\ runners' = (runners \ {r}) \cup {[r EXCEPT !.at = next, !.log = log]}
           /\ UNCHANGED <<flow, queue, jobs, up, claims, waiters, suppressed, recovery, count>>

\* The handler succeeds and the flow goes on.
StepSucceeds(r, next) ==
  /\ next \in r.def.next[r.at] \ {End}
  /\ Advance(r, next, Append(r.log, Log(r.at, TRUE, next)), r.at)

\* A catch policy takes the error of the handler.
StepCaught(r, next) ==
  /\ next \in r.def.caught[r.at]
  /\ Advance(r, next, Append(r.log, Log(r.at, FALSE, next)), next)

\* The last handler succeeds.
FlowSucceeds(r) ==
  /\ End \in r.def.next[r.at]
  /\ LET log == Append(r.log, Log(r.at, TRUE, End)) IN
     IF Refused(r) = "none" THEN Finish(r, "succeeded", NoState, log)
     ELSE Finish(r, Refused(r), r.at, log)

\* The handler fails for good; its error may be a timeout or a cancellation.
StepFails(r, status) ==
  LET log == Append(r.log, Log(r.at, FALSE, NoState)) IN
  Finish(r, IF Refused(r) = "none" THEN status ELSE Refused(r), r.at, log)

\* The deadline of the flow ends the wait for a handler, or is noticed after
\* the handler succeeded, before its checkpoint or after the last one.
DeadlinePasses(r) ==
  \/ Finish(r, IF Refused(r) = "none" THEN "timeout" ELSE Refused(r), r.at,
            Append(r.log, Log(r.at, FALSE, NoState)))
  \/ \E next \in r.def.next[r.at] :
       Finish(r, "timeout", r.at, Append(r.log, Log(r.at, TRUE, next)))

\* The database refuses the checkpoint of a step: the execution fails without.
PersistFails(r) ==
  /\ Persists(r)
  /\ \/ \E next \in r.def.next[r.at] :
          Finish(r, "failed", NoState, Append(r.log, Log(r.at, TRUE, next)))
     \/ \E next \in r.def.caught[r.at] \cup {NoState} :
          Finish(r, "failed", NoState, Append(r.log, Log(r.at, FALSE, next)))

RunnerStep(r) ==
  \/ \E next \in States : StepSucceeds(r, next) \/ StepCaught(r, next)
  \/ FlowSucceeds(r)
  \/ \E status \in {"failed", "cancelled"} : StepFails(r, status)
  \/ DeadlinePasses(r)
  \/ PersistFails(r)

-----------------------------------------------------------------------------
(* resumeExecution, called by a client or by the recovery, which has then     *)
(* left the messages jobs0 and the executions todo; wait: the caller waits.   *)

Resumes(e, jobs0, todo, wait) ==
  \/ /\ \/ ~(flow.exists /\ flow.enabled)
        \/ Resumable(row[e], flow.def) = {}
     /\ row' = AbortedRows({e}) /\ runners' = Signalled({e})
     /\ waiters' = waiters \ {x \in {e} : Pending(x)}
     /\ jobs' = [j \in JobIds |-> IF j \in JobsOf({e}) THEN "none" ELSE jobs0[j]]
     /\ UNCHANGED <<queue, claims>>
  \/ /\ flow.exists /\ flow.enabled
     /\ \E s \in Resumable(row[e], flow.def) :
          \/ /\ s = End
             /\ row' = [row EXCEPT ![e] = Succeeded(@)]
             /\ jobs' = jobs0
             /\ UNCHANGED <<queue, runners, claims, waiters>>
          \/ /\ s # End /\ Throttled
             /\ FreshJobs(e, todo) # {}
             /\ LET n == CHOOSE n \in FreshJobs(e, todo) : TRUE IN
                /\ row' = [row EXCEPT ![e].status = "queued", ![e].job = n]
                /\ jobs' = [j \in JobIds |-> IF j = <<e, n>> THEN "queued"
                                            ELSE IF j = <<e, row[e].job>> THEN "none" ELSE jobs0[j]]
             /\ waiters' = IF wait THEN waiters \cup {e} ELSE waiters
             /\ queue' = flow.limit
             /\ UNCHANGED <<runners, claims>>
          \/ /\ s # End /\ ~Throttled
             /\ row' = [row EXCEPT ![e].status = "running", ![e].token = Fresh]
             /\ runners' = runners \cup {Runner(e, Fresh, row[e].job, FALSE, s, row[e].log)}
             /\ claims' = claims \cup {e}
             /\ jobs' = jobs0
             /\ UNCHANGED <<queue, waiters>>

\* Mutant: a resume that looks at the status only.
MayResume_ByStatus(e) == row[e].status \in {"running", "failed"}

MayResume(e) == /\ e \notin claims /\ row[e].token = NoToken
                /\ row[e].status \in {"running", "failed"}

Resume(e) ==
  /\ up /\ MayResume(e) /\ Len(row[e].log) <= MaxLog
  /\ \E wait \in BOOLEAN : Resumes(e, jobs, recovery.todo, wait)
  /\ UNCHANGED <<flow, up, suppressed, recovery, count>>

-----------------------------------------------------------------------------
(* Flow CRUD and the queue of the flow; clearExecutions.                     *)

DrainConcurrency == 50
\* Mutant: messages that wait do not keep the queue.
NothingQueued_ButWaiting == Processing = {}
NothingQueued == /\ Queued = {} /\ Processing = {}
                 /\ \A e \in Executions : row[e].status # "queued"
Unsent == {<<e, row[e].job>> : e \in {x \in Executions : row[x].status = "queued"}}
\* Mutant: a new limit does not reach the queue.
SyncFlowQueue_KeepsCap(f) ==
  IF f.limit >= 1 /\ queue # NoQueue THEN UNCHANGED <<queue, jobs>>
  ELSE queue' = f.limit /\ UNCHANGED jobs

\* syncFlowQueue of a flow f: drainAndRemoveFlowQueue lifts the cap of a queue
\* that still has work and deletes one that has none.
SyncFlowQueue(f) ==
  IF f.limit >= 1
  THEN queue' = (IF f.enabled THEN f.limit ELSE queue) /\ UNCHANGED jobs
  ELSE IF queue = NoQueue \/ NothingQueued
  THEN queue' = NoQueue /\ jobs' = Without(JobIds)
  ELSE /\ queue' = DrainConcurrency
       /\ jobs' = [j \in JobIds |-> IF j \in Unsent /\ jobs[j] = "none" THEN "queued" ELSE jobs[j]]

UpdateFlow ==
  /\ up /\ flow.exists
  /\ \E enabled \in BOOLEAN, limit \in Limits, def \in Definitions :
       /\ flow' = [exists |-> TRUE, enabled |-> enabled, limit |-> limit, def |-> def]
       /\ SyncFlowQueue(flow')
  /\ UNCHANGED <<row, up, memory, count>>

\* Executions that are queued or running are aborted, their rows not saved, and
\* all rows deleted.
Forget == LET S == {e \in Executions : Pending(e)} IN
  /\ suppressed' = suppressed \cup S
  /\ runners' = Signalled(S)
  /\ waiters' = waiters \ S
  /\ row' = [e \in Executions |-> NoRow]

ClearExecutions ==
  /\ up
  /\ Forget
  /\ jobs' = Without(JobsOf(Executions))
  /\ UNCHANGED <<flow, queue, up, claims, recovery, count>>

DeleteFlow ==
  /\ up /\ flow.exists
  /\ Forget
  /\ flow' = [flow EXCEPT !.exists = FALSE]
  /\ queue' = NoQueue
  /\ jobs' = Without(JobIds)
  /\ UNCHANGED <<up, claims, recovery, count>>

\* The timer of suppressExecutionWrites.
Unsuppress(e) ==
  /\ up /\ e \in suppressed
  /\ suppressed' = suppressed \ {e}
  /\ UNCHANGED <<disk, up, runners, claims, waiters, recovery, count>>

\* What the queue does by itself: the lease of a message whose worker died runs
\* out (a live one keeps it by heartbeats), and old messages are deleted.
SweepJob(j) ==
  /\ up
  /\ \/ /\ jobs[j] = "processing"
        /\ \A r \in runners : <<r.exec, r.job>> # j
        /\ jobs' = [jobs EXCEPT ![j] = "done"]
     \/ /\ jobs[j] = "done"
        /\ jobs' = [jobs EXCEPT ![j] = "none"]
  /\ UNCHANGED <<flow, queue, row, up, memory, count>>

-----------------------------------------------------------------------------
(* recoverOrphanedExecutions, at the start and on request.                   *)

Unclaimed == [e \in Executions |->
  IF Pending(e) /\ e \notin claims THEN [row[e] EXCEPT !.token = NoToken] ELSE row[e]]

Orphans == {e \in Executions : row[e].status = "running" /\ e \notin claims}

\* Mutant: a queued row is taken to have its message.
Stranded_None(active) == {}

\* The rows that are still queued get a message the queue can claim.
Stranded(active) == {e \in Executions : row[e].status = "queued" /\ e \notin active}
RequeueAll(S, jobs0) ==
  IF flow.exists /\ flow.enabled
  THEN /\ queue' = IF Throttled THEN flow.limit
                   ELSE IF S = {} THEN queue ELSE DrainConcurrency
       /\ jobs' = [j \in JobIds |-> IF j \in {<<e, row[e].job>> : e \in S} THEN "queued" ELSE jobs0[j]]
  ELSE /\ UNCHANGED queue
       /\ jobs' = [j \in JobIds |-> IF j \in JobsOf(S) THEN "none" ELSE jobs0[j]]
Lost(S) == IF flow.exists /\ flow.enabled THEN {} ELSE S

\* Strategy abort: one pass without a wait.
AbortOrphans ==
  LET S == Stranded(claims) A == Orphans \cup Lost(S) IN
  /\ row' = [e \in Executions |-> IF e \in A THEN AbortedRows(A)[e] ELSE Unclaimed[e]]
  /\ runners' = Signalled(A)
  /\ waiters' = waiters \ A
  /\ RequeueAll(S, Without(JobsOf(Orphans)))

\* Strategy resume: the executions that are orphans now, one after the other.
\* An execution without a limit is waited for; so are those of other flows.
ResumeOrphans ==
  /\ row' = Unclaimed
  /\ recovery' = [on |-> TRUE, active |-> claims, waits |-> NoExecution,
                  todo |-> {<<e, row[e].job>> : e \in Orphans}]
  /\ UNCHANGED <<jobs, runners, waiters>>

Recover ==
  /\ up /\ ~recovery.on
  /\ \/ AbortOrphans /\ UNCHANGED recovery
     \/ ResumeOrphans /\ UNCHANGED queue
  /\ UNCHANGED <<flow, up, claims, suppressed, count>>

\* The constructor: syncAllFlowQueues, then the recovery.
Restart ==
  /\ ~up /\ up' = TRUE
  /\ \/ AbortOrphans /\ UNCHANGED recovery
     \/ /\ ResumeOrphans
        /\ queue' = IF flow.exists /\ flow.enabled /\ Throttled THEN flow.limit ELSE queue
  /\ UNCHANGED <<flow, claims, suppressed, count>>

RecoverOne(e, n) ==
  LET jobs0 == Without({<<e, n>>}) IN
  /\ up /\ recovery.on /\ recovery.waits = NoExecution
  /\ <<e, n>> \in recovery.todo
  /\ IF MayResume(e)
     THEN Resumes(e, jobs0, recovery.todo \ {<<e, n>>}, FALSE)
     ELSE /\ IF e \in claims \/ row[e].token # NoToken
             THEN /\ jobs' = jobs0
                  /\ UNCHANGED <<row, runners, waiters>>
             ELSE /\ AbortAll({e})
                  /\ jobs' = [j \in JobIds |-> IF j \in JobsOf({e}) THEN "none" ELSE jobs0[j]]
          /\ UNCHANGED <<queue, claims>>
  /\ recovery' = [recovery EXCEPT !.todo = @ \ {<<e, n>>},
                                  !.waits = IF claims' = claims THEN NoExecution ELSE e]
  /\ robbed' = robbed \cup WorkingOn(Processing \cap {<<e, n>>})
  /\ UNCHANGED <<flow, up, suppressed, crashes, uses>>

RecoverQueued ==
  /\ up /\ recovery.on /\ recovery.todo = {} /\ recovery.waits = NoExecution
  /\ LET S == Stranded(recovery.active) IN
     /\ RequeueAll(S, jobs)
     /\ AbortAll(Lost(S))
  /\ recovery' = Idle
  /\ UNCHANGED <<flow, up, claims, suppressed, count>>

-----------------------------------------------------------------------------
(* A crash, which may cut a call between two of its writes.                  *)

Down(rows, messages) ==
  /\ up /\ crashes < MaxCrashes
  /\ up' = FALSE /\ crashes' = crashes + 1
  /\ row' = rows /\ jobs' = messages
  /\ runners' = {} /\ claims' = {} /\ waiters' = {} /\ suppressed' = {}
  /\ recovery' = Idle
  /\ uses' = [e \in Executions |-> IF row[e] = NoRow /\ rows[e] # NoRow THEN uses[e] + 1 ELSE uses[e]]
  /\ robbed' = {}
  /\ UNCHANGED <<flow, queue>>

Crash == Down(row, jobs)

\* After the row was saved as queued, before the message was sent.
CrashInExecute(e) ==
  /\ MayExecute(e) /\ Throttled
  /\ Down(Recorded(e, New(e, "queued", NoToken, 1)), jobs)

CrashInResume(e) ==
  /\ MayResume(e) /\ flow.exists /\ flow.enabled /\ Throttled
  /\ Resumable(row[e], flow.def) \ {End} # {}
  /\ \E n \in FreshJobs(e, recovery.todo), gone \in SUBSET ({<<e, row[e].job>>} \cap JobIds) :
       /\ n = row[e].job => gone # {}
       /\ Down([row EXCEPT ![e].status = "queued", ![e].job = n], Without(gone))

\* After the message was deleted, before the row was saved as aborted.
CrashInAbort(e) == Pending(e) /\ Down(row, Without(JobsOf({e})))

\* After the queue handed out the message, before the row was claimed.
CrashInClaim(j) == Take(j[1], j[2]) /\ Down(row, [jobs EXCEPT ![j] = "processing"])

\* After a last checkpoint, before the result was saved and the claim released.
CrashInSave(r) ==
  /\ Persists(r)
  /\ \/ /\ End \in r.def.next[r.at]
        /\ Down([row EXCEPT ![r.exec].status = "succeeded", ![r.exec].at = NoState,
                            ![r.exec].log = Append(@, Log(r.at, TRUE, End))], jobs)
     \/ Down([row EXCEPT ![r.exec].status = "failed",
                         ![r.exec].log = Append(@, Log(r.at, FALSE, NoState))], jobs)

\* After the result was saved, before the queue learns of it.
CrashAfterSave(r) ==
  /\ r.worker /\ End \in r.def.next[r.at] /\ Refused(r) = "none"
  /\ Down([row EXCEPT ![r.exec] = Saved(r, "succeeded", NoState, Append(r.log, Log(r.at, TRUE, End)))],
          jobs)

-----------------------------------------------------------------------------
Init ==
  /\ \E limit \in Limits, def \in Definitions :
       /\ flow = [exists |-> TRUE, enabled |-> TRUE, limit |-> limit, def |-> def]
       /\ queue = limit
  /\ jobs = [j \in JobIds |-> "none"]
  /\ row = [e \in Executions |-> NoRow]
  /\ up = TRUE
  /\ runners = {} /\ claims = {} /\ waiters = {} /\ suppressed = {}
  /\ recovery = Idle
  /\ crashes = 0 /\ uses = [e \in Executions |-> 0] /\ robbed = {}

WorkerStep(e, n) == \/ WorkerStarts(e, n) \/ WorkerLoses(e, n) \/ WorkerCompletes(e, n)
                    \/ WorkerRefuses(e, n) \/ WorkerSkips(e, n)

Crashes == \/ Crash
           \/ \E e \in Executions : CrashInExecute(e) \/ CrashInResume(e) \/ CrashInAbort(e)
           \/ \E j \in JobIds : CrashInClaim(j)
           \/ \E r \in runners : CrashInSave(r) \/ CrashAfterSave(r)

RecoverStep == RecoverQueued \/ \E t \in recovery.todo : RecoverOne(t[1], t[2])

ClientStep == \/ UpdateFlow \/ ClearExecutions \/ DeleteFlow \/ Recover
              \/ \E e \in Executions : ExecuteQueued(e) \/ ExecuteDirectly(e) \/ Resume(e) \/ Abort(e)

TimerStep == \/ \E e \in Executions : WaiterTimesOut(e) \/ Unsuppress(e)
             \/ \E j \in JobIds : SweepJob(j)

Next == \/ ClientStep \/ TimerStep \/ RecoverStep \/ Crashes \/ Restart
        \/ \E j \in JobIds : WorkerStep(j[1], j[2])
        \/ \E r \in runners : RunnerStep(r)

\* Handlers return or meet the deadline, the queue hands out what it holds, the
\* process is started again and its recovery goes on.
Fairness == /\ \A j \in JobIds : WF_vars(WorkerStep(j[1], j[2]))
            /\ \A e \in Executions : WF_vars(\E r \in runners : r.exec = e /\ RunnerStep(r))
            /\ \A j \in JobIds : WF_vars(SweepJob(j))
            /\ WF_vars(Restart) /\ WF_vars(RecoverStep)

Spec == Init /\ [][Next]_vars /\ Fairness

-----------------------------------------------------------------------------
Statuses == {"none", "queued", "running", "succeeded", "failed", "timeout", "cancelled", "aborted"}
LogEntries == [step : States, ok : BOOLEAN, next : States \cup {End, NoState}]
RowType == [status : Statuses, at : States \cup {NoState}, log : Seq(LogEntries),
            token : Tokens \cup {NoToken}, job : Numbers \cup {NoJob}]
RunnerType == [exec : Executions, token : Tokens, job : Numbers \cup {NoJob}, worker : BOOLEAN,
               def : Definitions, at : States, log : Seq(LogEntries), aborted : BOOLEAN]

\* Every variable has its type.
TypeOK ==
  /\ flow \in [exists : BOOLEAN, enabled : BOOLEAN, limit : Limits, def : Definitions]
  /\ queue \in Limits \cup {NoQueue, DrainConcurrency}
  /\ jobs \in [JobIds -> {"none", "queued", "processing", "done"}]
  /\ row \in [Executions -> RowType]
  /\ up \in BOOLEAN /\ crashes \in 0 .. MaxCrashes /\ uses \in [Executions -> 0 .. MaxUses]
  /\ runners \subseteq RunnerType
  /\ {claims, waiters, suppressed, robbed} \subseteq SUBSET Executions
  /\ recovery \in [on : BOOLEAN, todo : SUBSET (Executions \X (Numbers \cup {NoJob})),
                    active : SUBSET Executions, waits : Executions \cup {NoExecution}]

\* At most one call of the engine works on an execution; until it is told to
\* stop, the row is running under its token, and the checkpoint and the log in
\* it say exactly how far the engine is (persistCheckpoint, the claims).
RunnerOwnsRow ==
  /\ \A r, q \in runners : r.exec = q.exec => r = q
  /\ \A r \in runners :
       /\ r.exec \in claims
       /\ ~r.aborted /\ row[r.exec] # NoRow =>
            /\ row[r.exec].status = "running" /\ row[r.exec].token = r.token
            /\ row[r.exec].at \in {r.at, NoState} /\ row[r.exec].log = r.log

\* What an execution ran is a path of the flow: every step follows the one that
\* succeeded before, a step that failed is tried again or left by its catch
\* policy, nothing runs twice or is skipped by a resume, and an execution that
\* succeeded reached the end.
LogIsAPath ==
  \A e \in Executions : LET log == row[e].log IN
    /\ log # <<>> => log[1].step \in {d.start : d \in Definitions}
    /\ \A i \in 1 .. Len(log) - 1 :
         \/ log[i + 1].step = log[i].next
         \/ ~log[i].ok /\ log[i + 1].step = log[i].step
         \/ /\ log[i].ok /\ log[i].next = End
            /\ \E d \in Definitions : /\ log[i].step \in DOMAIN d.next
                                    /\ log[i + 1].step \in d.next[log[i].step]
    /\ row[e].status = "succeeded" => log # <<>> /\ Last(log).ok /\ Last(log).next = End

\* Outside a recovery, a queued execution has a message the queue will hand out.
QueuedHasMessage ==
  up /\ ~recovery.on =>
    \A e \in Executions : row[e].status = "queued" =>
      queue # NoQueue /\ row[e].job # NoJob /\ jobs[<<e, row[e].job>>] = "queued"

\* Nobody waits for an execution that is over: each of its ends settles the
\* waiter, whoever brings it about.  It needs a flow that always has a limit, or
\* ids that are used once: a caller that waits under an id whose row was not
\* written is forgotten by a second, direct execution under the same id.
NobodyWaitsInVain ==
  \A e \in waiters : row[e] # NoRow => Pending(e)

\* An execution that could run, or be resumed, is not held back by a claim of a
\* call that is gone.
ClaimsAreHeld ==
  \A e \in Executions :
    /\ e \in claims /\ row[e].status \in {"queued", "failed"} => \E r \in runners : r.exec = e
    /\ up /\ ~recovery.on /\ Pending(e) /\ row[e].token # NoToken => \E r \in runners : r.token = row[e].token

\* An aborted execution stays aborted until its row is deleted, whatever its
\* runner still writes.
AbortedIsFinal ==
  [][\A e \in Executions : row[e].status = "aborted" => row'[e] \in {row[e], NoRow}]_vars

\* The queue starts an execution of a limited flow only while fewer than the
\* limit run from the queue, across updates that set, change or remove the
\* limit, aborts, resumes, crashes and ids used again.  Not counted are those
\* that lost their message in one of two ways: an engine that ends under a
\* removed limit took it for its own (Drained), or a recovery that had an orphan
\* of the same id to look at deleted it (RecoverOne).
IsStarted(e) == row[e].status = "queued" /\ row'[e].status = "running"
LimitRespected ==
  [][\A e \in Executions :
       IsStarted(e) /\ Throttled => Cardinality({r \in Working : r.exec \notin robbed}) < flow.limit]_vars

\* docs/docs/queues/overview.md:88: flows use dedicated queues "to enforce
\* execution concurrency throttling".  Counting all that run from the queue, the
\* limit is not enforced: see the first way above.
LimitEnforced ==
  [][\A e \in Executions : IsStarted(e) /\ Throttled => Cardinality(Working) < flow.limit]_vars

\* Every execution that is queued or running comes to an end.
ExecutionsEnd == \A e \in Executions : Pending(e) ~> ~Pending(e)

\* A recovery that resumes orphans aborts no execution that is queued.
RecoveryResumes ==
  [][\A t \in recovery.todo : RecoverOne(t[1], t[2]) =>
       ~(row[t[1]].status = "queued" /\ row'[t[1]].status = "aborted")]_vars

\* Every execution that runs has a row clients can poll.
RunningIsRecorded == \A r \in runners : ~r.aborted => row[r.exec] # NoRow
=============================================================================
