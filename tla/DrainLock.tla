------------------------------- MODULE DrainLock -------------------------------
(***************************************************************************)
(* What the maintenance gate promises its callers: a lock that requests       *)
(* share and one exclusive operation holds alone.  An operation that finds    *)
(* requests inside becomes the holder at once, which keeps new ones out, and   *)
(* has the lock to itself when the last one has left, or when it gave up       *)
(* waiting.  Who waits outside is not visible: the release lets in any set     *)
(* of requests.  The lock promises nothing after it was closed.               *)
(***************************************************************************)
EXTENDS FiniteSets

CONSTANTS
  Request,
  Operation

VARIABLES
  holder,      \* the operation that holds the lock, if any: a set
  draining,    \* the holder still waits for the requests inside
  inside,      \* the requests inside
  closed

lockVars == <<holder, draining, inside, closed>>

LockInit == holder = {} /\ draining = FALSE /\ inside = {} /\ closed = FALSE

Enter(r) ==
  /\ holder = {}
  /\ inside' = inside \cup {r}
  /\ UNCHANGED <<holder, draining, closed>>

\* The last one out hands the lock over.
Leave(r) ==
  /\ inside' = inside \ {r}
  /\ draining' = (draining /\ inside' # {})
  /\ UNCHANGED <<holder, closed>>

Acquire(o) ==
  /\ holder = {}
  /\ holder' = {o}
  /\ draining' = (inside # {})
  /\ UNCHANGED <<inside, closed>>

GiveUp ==
  /\ draining
  /\ draining' = FALSE
  /\ UNCHANGED <<holder, inside, closed>>

Release(admitted) ==
  /\ holder # {} /\ ~draining
  /\ holder' = {}
  /\ inside' = inside \cup admitted
  /\ UNCHANGED <<draining, closed>>

Close ==
  /\ closed' = TRUE
  /\ holder' = {} /\ draining' = FALSE /\ inside' = {}

LockNext ==
  \/ \E r \in Request : Enter(r) \/ Leave(r)
  \/ \E o \in Operation : Acquire(o)
  \/ GiveUp
  \/ \E admitted \in SUBSET Request : Release(admitted)
  \/ Close

LockSpec == LockInit /\ [][LockNext]_lockVars
=============================================================================
