--------------------------- MODULE MaintenanceGate ---------------------------
(***************************************************************************)
(* The gate that keeps HTTP requests away from exclusive operations         *)
(* (src/src/core/maintenance/MaintenanceGate.ts), with the calls HttpServer *)
(* makes to it (src/src/http/HttpServer.ts) and SnapshotService's exclusive *)
(* operations.                                                              *)
(*                                                                         *)
(* An action is what one event of the event loop does, with the microtasks  *)
(* it resolves: these run before the next event, so a resolved waiter has   *)
(* entered activeRequests, and a drained operation has begun its action,    *)
(* before anything else happens.  Request ids are unique (Fastify's         *)
(* counter).  Exempt requests return at once and leave no trace in the gate.*)
(* The order of waitingQueue is left out: a flush releases all of it.       *)
(***************************************************************************)
EXTENDS Naturals, FiniteSets

CONSTANTS
  Request,    \* ids of the requests that are not exempt
  Operation   \* callers of executeExclusive

VARIABLES
  isGated,
  isExecutingExclusive,
  activeRequests,
  waitingQueue,    \* the requests in waitingQueue
  drainResolvers,  \* the operations whose onDrain is in drainResolvers
  request,         \* request[r]: where the handling of r stands
  operation,       \* operation[o]: where o's executeExclusive stands
  gaveUp,          \* history: operations whose drain ended by its timeout
  closed           \* history: the application was closed

gate == <<isGated, isExecutingExclusive>>
vars == <<isGated, isExecutingExclusive, activeRequests, waitingQueue,
          drainResolvers, request, operation, gaveUp, closed>>

TypeOK ==
  /\ isGated \in BOOLEAN
  /\ isExecutingExclusive \in BOOLEAN
  /\ activeRequests \in SUBSET Request
  /\ waitingQueue \in SUBSET Request
  /\ drainResolvers \in SUBSET Operation
  /\ request \in [Request -> {"new", "waiting", "running", "rejected", "done"}]
  /\ operation \in [Operation -> {"idle", "draining", "acting"}]
  /\ gaveUp \in SUBSET Operation
  /\ closed \in BOOLEAN

Init ==
  /\ isGated = FALSE /\ isExecutingExclusive = FALSE
  /\ activeRequests = {} /\ waitingQueue = {} /\ drainResolvers = {}
  /\ request = [r \in Request |-> "new"]
  /\ operation = [o \in Operation |-> "idle"]
  /\ gaveUp = {} /\ closed = FALSE

-----------------------------------------------------------------------------
(* Requests.                                                                 *)

TrackRequestStart_Ungated(r) ==
  /\ request[r] = "new"
  /\ request' = [request EXCEPT ![r] = "running"]
  /\ activeRequests' = activeRequests \cup {r}
  /\ UNCHANGED <<gate, waitingQueue, drainResolvers, operation, gaveUp, closed>>

\* trackRequestStart: a request that finds isGated waits.
TrackRequestStart(r) ==
  /\ request[r] = "new"
  /\ IF isGated
     THEN /\ request' = [request EXCEPT ![r] = "waiting"]
          /\ waitingQueue' = waitingQueue \cup {r}
          /\ UNCHANGED activeRequests
     ELSE /\ request' = [request EXCEPT ![r] = "running"]
          /\ activeRequests' = activeRequests \cup {r}
          /\ UNCHANGED waitingQueue
  /\ UNCHANGED <<gate, drainResolvers, operation, gaveUp, closed>>

\* The waiter's timer: HttpServer answers 503.
QueueTimeout(r) ==
  /\ r \in waitingQueue
  /\ waitingQueue' = waitingQueue \ {r}
  /\ request' = [request EXCEPT ![r] = "rejected"]
  /\ UNCHANGED <<gate, activeRequests, drainResolvers, operation, gaveUp, closed>>

\* notifyDrain: every operation that drains goes on to its action.
NotifyDrain ==
  /\ drainResolvers' = {}
  /\ operation' = [o \in Operation |->
                     IF o \in drainResolvers THEN "acting" ELSE operation[o]]

TrackRequestEnd_NoNotify(r) ==
  /\ activeRequests' = activeRequests \ {r}
  /\ UNCHANGED <<drainResolvers, operation>>

\* trackRequestEnd: the last tracked request lets the drain go on.
TrackRequestEnd(r) ==
  /\ activeRequests' = activeRequests \ {r}
  /\ IF r \in activeRequests /\ isGated /\ activeRequests' = {}
     THEN NotifyDrain ELSE UNCHANGED <<drainResolvers, operation>>

\* onResponse or onError: the handler is done.
RequestEnds(r) ==
  /\ request[r] = "running"
  /\ request' = [request EXCEPT ![r] = "done"]
  /\ TrackRequestEnd(r)
  /\ UNCHANGED <<gate, waitingQueue, gaveUp, closed>>

\* 'close' of the raw request, when the client disconnects: the handler is
\* still running.
RequestCloses(r) ==
  /\ request[r] = "running" /\ r \in activeRequests
  /\ TrackRequestEnd(r)
  /\ UNCHANGED <<gate, waitingQueue, request, gaveUp, closed>>

-----------------------------------------------------------------------------
(* Exclusive operations.                                                     *)

Free_Always == TRUE

\* executeExclusive refuses with a conflict while another one is in progress.
Free == ~isExecutingExclusive

ExecuteExclusive(o) ==
  /\ operation[o] = "idle"
  /\ Free
  /\ isExecutingExclusive' = TRUE
  /\ isGated' = TRUE
  /\ IF activeRequests = {}
     THEN /\ operation' = [operation EXCEPT ![o] = "acting"]
          /\ UNCHANGED drainResolvers
     ELSE /\ operation' = [operation EXCEPT ![o] = "draining"]
          /\ drainResolvers' = drainResolvers \cup {o}
  /\ UNCHANGED <<activeRequests, waitingQueue, request, gaveUp, closed>>

\* The drain's own timer: go on with requests in flight.
DrainTimeout(o) ==
  /\ o \in drainResolvers
  /\ drainResolvers' = drainResolvers \ {o}
  /\ operation' = [operation EXCEPT ![o] = "acting"]
  /\ gaveUp' = gaveUp \cup {o}
  /\ UNCHANGED <<gate, activeRequests, waitingQueue, request, closed>>

FlushWaitingQueue_Forgets ==
  /\ waitingQueue' = {}
  /\ UNCHANGED request

\* flushWaitingQueue: all waiters run.
FlushWaitingQueue ==
  /\ waitingQueue' = {}
  /\ request' = [r \in Request |->
                   IF r \in waitingQueue THEN "running" ELSE request[r]]

ActionEnds_KeepsGate(o) ==
  /\ operation[o] = "acting"
  /\ operation' = [operation EXCEPT ![o] = "idle"]
  /\ isExecutingExclusive' = FALSE
  /\ gaveUp' = gaveUp \ {o}
  /\ UNCHANGED <<isGated, activeRequests, waitingQueue, drainResolvers, request, closed>>

\* The finally block of executeExclusive, after the action returned or threw.
ActionEnds(o) ==
  /\ operation[o] = "acting"
  /\ operation' = [operation EXCEPT ![o] = "idle"]
  /\ isGated' = FALSE
  /\ isExecutingExclusive' = FALSE
  /\ FlushWaitingQueue
  /\ activeRequests' = activeRequests \cup waitingQueue
  /\ gaveUp' = gaveUp \ {o}
  /\ UNCHANGED <<drainResolvers, closed>>

\* reset(), called when the application is closed.  A waiter enters
\* activeRequests after the clear.
Reset ==
  /\ isGated' = FALSE
  /\ isExecutingExclusive' = FALSE
  /\ FlushWaitingQueue
  /\ activeRequests' = waitingQueue
  /\ NotifyDrain
  /\ closed' = TRUE
  /\ UNCHANGED gaveUp

-----------------------------------------------------------------------------
RequestStep(r) ==
  TrackRequestStart(r) \/ QueueTimeout(r) \/ RequestEnds(r) \/ RequestCloses(r)

OperationStep(o) == ExecuteExclusive(o) \/ DrainTimeout(o) \/ ActionEnds(o)

Next == \/ \E r \in Request : RequestStep(r)
        \/ \E o \in Operation : OperationStep(o)
        \/ Reset

(* Timers fire and an action ends.  Nothing is assumed of the requests: a    *)
(* handler may hang.                                                         *)
Fairness ==
  /\ \A o \in Operation : WF_vars(DrainTimeout(o)) /\ WF_vars(ActionEnds(o))
  /\ \A r \in Request : WF_vars(QueueTimeout(r))

Spec == Init /\ [][Next]_vars /\ Fairness

-----------------------------------------------------------------------------
InProgress(o) == operation[o] \in {"draining", "acting"}

(* Until the application is closed, two exclusive operations never overlap,  *)
(* and the flag that makes the second one fail with a conflict is up exactly *)
(* while one is in progress.                                                 *)
OneExclusive ==
  \/ closed
  \/ /\ \A o, p \in Operation : InProgress(o) /\ InProgress(p) => o = p
     /\ \A o \in Operation : InProgress(o) => isGated
     /\ isExecutingExclusive <=> \E o \in Operation : InProgress(o)

(* While an exclusive action runs no tracked request is in flight, unless    *)
(* the drain gave up: no waiter is let in early and none slips past the gate *)
(* between the end of the drain and the end of the action.                   *)
ActionSeesNoRequest ==
  \/ closed
  \/ \A o \in Operation \ gaveUp : operation[o] = "acting" => activeRequests = {}

(* No request is asleep in front of an open gate, and the requests that      *)
(* sleep are those that the next flush or their timer will reach: the ones   *)
(* that timed out are never let in after their 503.                          *)
NobodyWaitsAtOpenGate ==
  /\ ~isGated => waitingQueue = {}
  /\ \A r \in Request : r \in waitingQueue <=> request[r] = "waiting"

(* An operation that drains has its resolver in the list and still has a     *)
(* request to wait for: the last trackRequestEnd cannot be missed, so a      *)
(* drain lasts to its timeout only if a request does.                        *)
DrainIsBacked ==
  \/ closed
  \/ /\ \A o \in Operation : o \in drainResolvers <=> operation[o] = "draining"
     /\ drainResolvers # {} => activeRequests # {} /\ isGated

(* Every request that waits is let in or answered with 503, also when the    *)
(* application is closed meanwhile.                                          *)
WaiterSettles ==
  \A r \in Request : request[r] = "waiting" ~> request[r] # "waiting"

(* The gate never stays closed, even if a handler hangs.                     *)
GateReopens == isGated ~> ~isGated

(* The lock the gate implements: requests that are tracked are inside, and an *)
(* operation in progress holds it.                                           *)
Lock == INSTANCE DrainLock WITH
  holder <- IF closed THEN {} ELSE {o \in Operation : InProgress(o)},
  draining <- ~closed /\ \E o \in Operation : operation[o] = "draining",
  inside <- IF closed THEN {} ELSE activeRequests

(* Until the application is closed, every step of the gate is a step of that  *)
(* lock or invisible to its callers: a request is let in only by an open gate *)
(* or a release, and the last one that leaves hands over to the operation.    *)
ImplementsLock == Lock!LockSpec

(* Class comment, MaintenanceGate.ts:16-17, and                              *)
(* openwiki/architecture-and-multi-app.md:141: the exclusive action runs     *)
(* with no request in flight.  A client that disconnects, or the drain       *)
(* timeout, lets it start while a handler is still running.                  *)
ExclusiveRunsAlone ==
  \A o \in Operation, r \in Request :
    ~closed /\ operation[o] = "acting" => request[r] # "running"
=============================================================================
