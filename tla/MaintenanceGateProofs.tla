---------------------- MODULE MaintenanceGateProofs --------------------------
(* Proofs about MaintenanceGate, for any set of requests and any set of      *)
(* callers of executeExclusive.                                              *)
EXTENDS SnapshotService, TLAPS

(* What holds whether or not the application was closed.                     *)
BaseInv == TypeOK /\ NobodyWaitsAtOpenGate

(* The conjunction is inductive: that no request slips past the gate while   *)
(* an action runs needs that isGated is set then (OneExclusive), and that a  *)
(* notified operation was draining needs DrainIsBacked.                      *)
GateInv ==
  /\ BaseInv
  /\ OneExclusive
  /\ ActionSeesNoRequest
  /\ DrainIsBacked

(* In the initial state nothing is in progress and nobody waits.             *)
LEMMA GateInvInit == Init => GateInv
  BY DEF Init, GateInv, BaseInv, TypeOK, OneExclusive, ActionSeesNoRequest,
         NobodyWaitsAtOpenGate, DrainIsBacked, InProgress

(* The types and the list of waiters, for each action.                       *)
LEMMA BaseInvStep == BaseInv /\ [Next]_vars => BaseInv'
<1> SUFFICES ASSUME BaseInv, [Next]_vars PROVE BaseInv'
  OBVIOUS
<1> USE DEF BaseInv, TypeOK, NobodyWaitsAtOpenGate, gate
<1>1. ASSUME NEW r \in Request, TrackRequestStart(r) PROVE BaseInv'
  BY <1>1 DEF TrackRequestStart
<1>2. ASSUME NEW r \in Request, QueueTimeout(r) PROVE BaseInv'
  BY <1>2 DEF QueueTimeout
<1>3. ASSUME NEW r \in Request, RequestEnds(r) PROVE BaseInv'
  BY <1>3 DEF RequestEnds, TrackRequestEnd, NotifyDrain
<1>4. ASSUME NEW r \in Request, RequestCloses(r) PROVE BaseInv'
  BY <1>4 DEF RequestCloses, TrackRequestEnd, NotifyDrain
<1>5. ASSUME NEW o \in Operation, ExecuteExclusive(o) PROVE BaseInv'
  BY <1>5 DEF ExecuteExclusive
<1>6. ASSUME NEW o \in Operation, DrainTimeout(o) PROVE BaseInv'
  BY <1>6 DEF DrainTimeout
<1>7. ASSUME NEW o \in Operation, ActionEnds(o) PROVE BaseInv'
  BY <1>7 DEF ActionEnds, FlushWaitingQueue
<1>8. ASSUME Reset PROVE BaseInv'
  BY <1>8 DEF Reset, FlushWaitingQueue, NotifyDrain
<1>9. CASE UNCHANGED vars
  BY <1>9 DEF vars
<1>10. QED
  BY <1>1, <1>2, <1>3, <1>4, <1>5, <1>6, <1>7, <1>8, <1>9
  DEF Next, RequestStep, OperationStep

(* The end of a request, by a response or by a disconnect, changes the       *)
(* operations only if it was the last tracked one: then each draining        *)
(* operation begins its action and no request is active.                     *)
LEMMA TrackRequestEndKeeps ==
  ASSUME GateInv, ~closed, NEW r \in Request, TrackRequestEnd(r),
         UNCHANGED <<isGated, isExecutingExclusive, gaveUp, closed>>
  PROVE  OneExclusive' /\ ActionSeesNoRequest' /\ DrainIsBacked'
<1> USE DEF GateInv, BaseInv
<1>1. CASE activeRequests' = {} /\ isGated /\ r \in activeRequests
  <2>1. /\ activeRequests' = {} /\ drainResolvers' = {}
        /\ operation' = [o \in Operation |->
                           IF o \in drainResolvers THEN "acting" ELSE operation[o]]
    BY <1>1 DEF TrackRequestEnd, NotifyDrain
  <2>2. \A o \in Operation : /\ operation'[o] # "draining"
                             /\ InProgress(o)' <=> InProgress(o)
    BY <2>1 DEF GateInv, TypeOK, DrainIsBacked, InProgress
  <2>3. OneExclusive'
    BY <2>2 DEF GateInv, OneExclusive
  <2>4. QED
    BY <2>1, <2>2, <2>3 DEF GateInv, TypeOK, ActionSeesNoRequest, DrainIsBacked
<1>2. CASE ~(activeRequests' = {} /\ isGated /\ r \in activeRequests)
  <2>1. /\ activeRequests' = activeRequests \ {r}
        /\ UNCHANGED <<drainResolvers, operation>>
    BY <1>2 DEF TrackRequestEnd
  <2>2. OneExclusive'
    BY <2>1 DEF GateInv, OneExclusive, InProgress
  <2>3. ActionSeesNoRequest'
    BY <2>1 DEF GateInv, ActionSeesNoRequest
  <2>4. DrainIsBacked'
    BY <2>1, <1>2 DEF GateInv, DrainIsBacked
  <2>5. QED
    BY <2>1, <2>2, <2>3, <2>4 DEF GateInv, TypeOK
<1>3. QED
  BY <1>1, <1>2

(* A closed application is not opened again.                                 *)
LEMMA ClosedStays == closed /\ [Next]_vars => closed'
<1> SUFFICES ASSUME closed, [Next]_vars PROVE closed'
  OBVIOUS
<1>1. CASE \E r \in Request : RequestStep(r)
  BY <1>1 DEF RequestStep, TrackRequestStart, QueueTimeout, RequestEnds, RequestCloses
<1>2. CASE \E o \in Operation : OperationStep(o)
  BY <1>2 DEF OperationStep, ExecuteExclusive, DrainTimeout, ActionEnds
<1>3. CASE Reset \/ UNCHANGED vars
  BY <1>3 DEF Reset, vars
<1>4. QED
  BY <1>1, <1>2, <1>3 DEF Next

(* Every step of a request or an operation keeps the invariant; the closing  *)
(* of the application ends what it says about exclusive operations.          *)
LEMMA GateInvStep == GateInv /\ [Next]_vars => GateInv'
<1> SUFFICES ASSUME GateInv, [Next]_vars PROVE GateInv'
  OBVIOUS
<1> SUFFICES ASSUME ~closed
             PROVE  OneExclusive' /\ ActionSeesNoRequest' /\ DrainIsBacked'
  <2>1. BaseInv'
    BY BaseInvStep DEF GateInv
  <2>2. closed => closed'
    BY ClosedStays
  <2>3. CASE closed
    BY <2>1, <2>2, <2>3 DEF GateInv, OneExclusive, ActionSeesNoRequest, DrainIsBacked
  <2>4. CASE ~closed
    BY <2>1, <2>4 DEF GateInv
  <2>5. QED
    BY <2>3, <2>4
<1> DEFINE Kept == OneExclusive' /\ ActionSeesNoRequest' /\ DrainIsBacked'
<1> USE DEF GateInv, BaseInv, gate
<1>1. ASSUME NEW r \in Request, TrackRequestStart(r) PROVE Kept
  BY <1>1 DEF TrackRequestStart, TypeOK, OneExclusive, ActionSeesNoRequest,
              NobodyWaitsAtOpenGate, DrainIsBacked, InProgress
<1>2. ASSUME NEW r \in Request, QueueTimeout(r) PROVE Kept
  BY <1>2 DEF QueueTimeout, TypeOK, OneExclusive, ActionSeesNoRequest,
              NobodyWaitsAtOpenGate, DrainIsBacked, InProgress
<1>3. ASSUME NEW r \in Request, RequestEnds(r) PROVE Kept
  BY <1>3, TrackRequestEndKeeps DEF RequestEnds
<1>4. ASSUME NEW r \in Request, RequestCloses(r) PROVE Kept
  BY <1>4, TrackRequestEndKeeps DEF RequestCloses
<1>5. ASSUME NEW o \in Operation, ExecuteExclusive(o) PROVE Kept
  <2>1. \A p \in Operation : ~InProgress(p) /\ (InProgress(p)' <=> p = o)
    BY <1>5 DEF ExecuteExclusive, Free, TypeOK, OneExclusive, InProgress
  <2>2. OneExclusive'
    BY <1>5, <2>1 DEF ExecuteExclusive, OneExclusive
  <2>3. ActionSeesNoRequest'
    BY <1>5, <2>1 DEF ExecuteExclusive, TypeOK, ActionSeesNoRequest, InProgress
  <2>4. DrainIsBacked'
    BY <1>5, <2>1 DEF ExecuteExclusive, TypeOK, DrainIsBacked, InProgress
  <2>5. QED
    BY <2>2, <2>3, <2>4
<1>6. ASSUME NEW o \in Operation, DrainTimeout(o) PROVE Kept
  <2>1. \A p \in Operation : InProgress(p)' <=> InProgress(p)
    BY <1>6 DEF DrainTimeout, TypeOK, DrainIsBacked, InProgress
  <2>2. OneExclusive'
    BY <1>6, <2>1 DEF DrainTimeout, OneExclusive
  <2>3. QED
    BY <1>6, <2>2 DEF DrainTimeout, TypeOK, ActionSeesNoRequest, DrainIsBacked
<1>7. ASSUME NEW o \in Operation, ActionEnds(o) PROVE Kept
  <2>1. \A p \in Operation : operation'[p] = "idle"
    BY <1>7 DEF ActionEnds, TypeOK, OneExclusive, InProgress
  <2>2. drainResolvers = {} /\ drainResolvers' = {}
    BY <1>7, <2>1 DEF ActionEnds, TypeOK, OneExclusive, DrainIsBacked, InProgress
  <2>3. QED
    BY <1>7, <2>1, <2>2
    DEF ActionEnds, OneExclusive, ActionSeesNoRequest, DrainIsBacked, InProgress
<1>8. ASSUME Reset PROVE Kept
  BY <1>8 DEF Reset, OneExclusive, ActionSeesNoRequest, DrainIsBacked
<1>9. CASE UNCHANGED vars
  BY <1>9 DEF vars, TypeOK, OneExclusive, ActionSeesNoRequest, DrainIsBacked, InProgress
<1>10. QED
  BY <1>1, <1>2, <1>3, <1>4, <1>5, <1>6, <1>7, <1>8, <1>9
  DEF Next, RequestStep, OperationStep

(* The invariant holds of the gate as it runs.                               *)
THEOREM GateInvariant == Spec => []GateInv
  BY GateInvInit, GateInvStep, PTL DEF Spec

(* trackRequestStart, trackRequestEnd and executeExclusive keep their types. *)
THEOREM GateTypeOK == Spec => []TypeOK
<1>1. GateInv => TypeOK
  BY DEF GateInv, BaseInv
<1>2. QED
  BY <1>1, GateInvariant, PTL

(* executeExclusive never runs twice at a time (the ConflictError guard),    *)
(* until the application is closed.                                          *)
THEOREM ExclusiveOperationsExclude == Spec => []OneExclusive
<1>1. GateInv => OneExclusive
  BY DEF GateInv
<1>2. QED
  BY <1>1, GateInvariant, PTL

(* Between the end of a complete drain and the end of the action no request  *)
(* is tracked (trackRequestStart, drainInFlightRequests, flushWaitingQueue). *)
THEOREM DrainedActionIsAlone == Spec => []ActionSeesNoRequest
<1>1. GateInv => ActionSeesNoRequest
  BY DEF GateInv
<1>2. QED
  BY <1>1, GateInvariant, PTL

(* flushWaitingQueue and the waiters' timers leave nobody behind an open     *)
(* gate, and the last trackRequestEnd finds the drain that waits for it.     *)
THEOREM NoLostWakeUpAtGate == Spec => [](NobodyWaitsAtOpenGate /\ DrainIsBacked)
<1>1. GateInv => NobodyWaitsAtOpenGate /\ DrainIsBacked
  BY DEF GateInv, BaseInv
<1>2. QED
  BY <1>1, GateInvariant, PTL
(* What the callers of the gate see of a state: who holds the lock, whether  *)
(* it still drains, and who is inside.                                       *)
Holder == IF closed THEN {} ELSE {o \in Operation : InProgress(o)}
Draining == ~closed /\ \E o \in Operation : operation[o] = "draining"
Inside == IF closed THEN {} ELSE activeRequests

Seen == <<Holder, Draining, Inside, closed>>

(* The initial state of the gate is that of the lock.                        *)
LEMMA GateInitIsLockInit == Init => Lock!LockInit
  BY DEF Init, Lock!LockInit, InProgress

(* The end of a tracked request is a Leave: if it was the last one, the      *)
(* draining operation has the lock to itself.                                *)
LEMMA RequestEndIsLeave ==
  ASSUME GateInv, ~closed, NEW r \in Request, TrackRequestEnd(r),
         UNCHANGED <<isGated, isExecutingExclusive, closed>>
  PROVE  Lock!Leave(r)
<1> USE DEF GateInv, BaseInv
<1>1. Inside' = Inside \ {r}
  BY DEF TrackRequestEnd, Inside
<1>2. CASE activeRequests' = {} /\ isGated /\ r \in activeRequests
  <2>1. /\ activeRequests' = {}
        /\ operation' = [o \in Operation |->
                           IF o \in drainResolvers THEN "acting" ELSE operation[o]]
    BY <1>2 DEF TrackRequestEnd, NotifyDrain
  <2>2. \A o \in Operation : operation'[o] # "draining" /\ (InProgress(o)' <=> InProgress(o))
    BY <2>1 DEF TypeOK, DrainIsBacked, InProgress
  <2>3. Holder' = Holder /\ Draining' = FALSE
    BY <2>2 DEF Holder, Draining
  <2>4. QED
    BY <1>1, <2>1, <2>3 DEF Lock!Leave, Holder, Draining, Inside
<1>3. CASE ~(activeRequests' = {} /\ isGated /\ r \in activeRequests)
  <2>1. activeRequests' = activeRequests \ {r} /\ UNCHANGED operation
    BY <1>3 DEF TrackRequestEnd
  <2>2. Holder' = Holder /\ Draining' = Draining
    BY <2>1 DEF Holder, Draining, InProgress
  <2>3. Draining => activeRequests' # {}
    BY <1>3, <2>1 DEF Draining, DrainIsBacked, TypeOK
  <2>4. QED
    BY <1>1, <2>2, <2>3 DEF Lock!Leave, Holder, Draining, Inside
<1>4. QED
  BY <1>2, <1>3

(* Each action of the gate is an action of the lock, or none of its callers  *)
(* sees it: the start and the timeout of a request that waits.               *)
LEMMA GateStepIsLockStep ==
  ASSUME GateInv, [Next]_vars
  PROVE  [Lock!LockNext]_(Lock!lockVars)
<1> USE DEF GateInv, BaseInv, gate
<1>1. CASE closed
  <2>1. closed'
    BY <1>1, ClosedStays
  <2>2. QED
    BY <1>1, <2>1 DEF Lock!lockVars
<1> SUFFICES ASSUME ~closed PROVE [Lock!LockNext]_(Lock!lockVars)
  BY <1>1
<1>2. ASSUME NEW r \in Request, TrackRequestStart(r) PROVE Lock!Enter(r) \/ UNCHANGED Seen
  <2>1. CASE isGated
    BY <1>2, <2>1 DEF TrackRequestStart, Seen, Holder, Draining, Inside, InProgress
  <2>2. CASE ~isGated
    BY <1>2, <2>2 DEF TrackRequestStart, OneExclusive, Lock!Enter, InProgress
  <2>3. QED
    BY <2>1, <2>2
<1>3. ASSUME NEW r \in Request, QueueTimeout(r) PROVE UNCHANGED Seen
  BY <1>3 DEF QueueTimeout, Seen, Holder, Draining, Inside, InProgress
<1>4. ASSUME NEW r \in Request, RequestEnds(r) \/ RequestCloses(r) PROVE Lock!Leave(r)
  BY <1>4, RequestEndIsLeave DEF RequestEnds, RequestCloses
<1>5. ASSUME NEW o \in Operation, ExecuteExclusive(o) PROVE Lock!Acquire(o)
  <2>1. \A p \in Operation : ~InProgress(p) /\ (InProgress(p)' <=> p = o)
    BY <1>5 DEF ExecuteExclusive, Free, TypeOK, OneExclusive, InProgress
  <2>2. Holder = {} /\ Holder' = {o}
    BY <1>5, <2>1 DEF ExecuteExclusive, Holder
  <2>3. Draining' <=> activeRequests # {}
    BY <1>5, <2>1 DEF ExecuteExclusive, TypeOK, Draining, InProgress
  <2>4. QED
    BY <1>5, <2>2, <2>3 DEF ExecuteExclusive, Lock!Acquire, Holder, Draining
<1>6. ASSUME NEW o \in Operation, DrainTimeout(o) PROVE Lock!GiveUp
  <2>1. operation[o] = "draining" /\ InProgress(o)
    BY <1>6 DEF DrainTimeout, DrainIsBacked, InProgress
  <2>2. \A p \in Operation : InProgress(p)' <=> InProgress(p)
    BY <1>6, <2>1 DEF DrainTimeout, TypeOK, InProgress
  <2>3. \A p \in Operation : operation'[p] # "draining"
    BY <1>6, <2>1 DEF DrainTimeout, TypeOK, OneExclusive, InProgress
  <2>4. Holder' = Holder
    BY <1>6, <2>2 DEF DrainTimeout, Holder
  <2>5. QED
    BY <1>6, <2>1, <2>3, <2>4 DEF DrainTimeout, Lock!GiveUp, Holder
<1>7. ASSUME NEW o \in Operation, ActionEnds(o) PROVE Lock!Release(waitingQueue)
  <2>1. \A p \in Operation : operation'[p] = "idle" /\ operation[p] # "draining"
    BY <1>7 DEF ActionEnds, TypeOK, OneExclusive, InProgress
  <2>2. o \in Holder /\ Holder' = {}
    BY <1>7, <2>1 DEF ActionEnds, Holder, InProgress
  <2>3. QED
    BY <1>7, <2>1, <2>2 DEF ActionEnds, Lock!Release, Holder
<1>8. ASSUME Reset PROVE Lock!Close
  BY <1>8 DEF Reset, Lock!Close
<1>9. ASSUME UNCHANGED vars PROVE UNCHANGED Lock!lockVars
  <2>1. Holder' = Holder /\ Draining' = Draining /\ Inside' = Inside
    BY <1>9 DEF vars, Holder, Draining, Inside, InProgress
  <2>2. QED
    BY <1>9, <2>1 DEF vars, Lock!lockVars, Holder, Draining, Inside
<1>10. UNCHANGED Seen => UNCHANGED Lock!lockVars
  BY DEF Seen, Lock!lockVars, Holder, Draining, Inside
<1>11. waitingQueue \in SUBSET Request
  BY DEF TypeOK
<1>12. CASE \E r \in Request : RequestStep(r)
  BY <1>2, <1>3, <1>4, <1>10, <1>12 DEF RequestStep, Lock!LockNext
<1>13. CASE \E o \in Operation : OperationStep(o)
  BY <1>5, <1>6, <1>7, <1>11, <1>13 DEF OperationStep, Lock!LockNext
<1>14. QED
  BY <1>8, <1>9, <1>12, <1>13 DEF Next, Lock!LockNext

(* The gate implements the lock: whatever the timeouts, disconnects and      *)
(* refused operations, trackRequestStart, trackRequestEnd and                *)
(* executeExclusive behave to their callers as Enter, Leave and Acquire.     *)
THEOREM GateImplementsLock == Spec => ImplementsLock
<1>1. Init => Lock!LockInit
  BY GateInitIsLockInit
<1>2. GateInv /\ [Next]_vars => [Lock!LockNext]_(Lock!lockVars)
  BY GateStepIsLockStep
<1>3. QED
  BY <1>1, <1>2, GateInvariant, PTL DEF Spec, ImplementsLock, Lock!LockSpec

-----------------------------------------------------------------------------
(* Snapshots (SnapshotService), behind the gate: what the gate promises is     *)
(* what keeps a snapshot out of the middle of a write.                        *)

WritingRow == {NoWriting} \cup [record : Record, kind : {"create", "delete"}]

SnapshotShape ==
  /\ rows \in SUBSET Record /\ files \in SUBSET Record
  /\ writing \in [Request -> WritingRow]
  /\ job \in [Operation -> Jobs \cup {NoJob}]
  /\ \A s \in snapshots : s.rows \in SUBSET Record /\ s.files \in SUBSET Record

\* A write belongs to a handler that runs, and no two write one record.
WritingOK ==
  /\ \A r \in Request : writing[r] # NoWriting => request[r] = "running"
  /\ \A r, s \in Request : writing[r] # NoWriting /\ writing[s] # NoWriting
                           /\ writing[r].record = writing[s].record => r = s

\* RowsHaveFiles, and that the file of a record to be inserted is there.
FilesOK ==
  excused \/ /\ \A s \in snapshots : s.rows \subseteq s.files
             /\ \A x \in rows \ files :
                  \E r \in Request : writing[r] = [record |-> x, kind |-> "delete"]
             /\ \A r \in Request : writing[r].kind = "create" => writing[r].record \in files

\* The rows wait for the reset of the queue only while their restore is acting.
ResetIsDue ==
  unreconciled => closed \/ \E o \in Operation : operation[o] = "acting" /\ job[o].kind = "restore"

\* While the database is away no deletion waits for its row: none is begun, and
\* the operation that left it so was alone.
NoDeletionWaits == away /\ ~excused => \A r \in Request : writing[r].kind # "delete"

SnapshotInv ==
  GateInv /\ SnapshotShape /\ WritingOK /\ FilesOK /\ ResetIsDue /\ NoDeletionWaits

(* The steps of the application are steps of the gate, or invisible to it.     *)
LEMMA SnapshotStepIsGateStep == [SnapshotNext]_snapshotVars => [Next]_vars
<1> SUFFICES ASSUME [SnapshotNext]_snapshotVars PROVE [Next]_vars
  OBVIOUS
<1>1. ASSUME NEW r \in Request, HttpStep(r) \/ InsertRow(r) \/ DeleteRow(r) PROVE [Next]_vars
  BY <1>1 DEF HttpStep, InsertRow, DeleteRow, HandlerFrame, Next
<1>2. ASSUME NEW r \in Request, NEW x \in Record, SaveFile(r, x) \/ DeleteRecordFiles(r, x)
      PROVE  [Next]_vars
  BY <1>2 DEF SaveFile, DeleteRecordFiles, HandlerFrame
<1>3. ASSUME NEW o \in Operation, NEW j \in Jobs, Request_(o, j) PROVE [Next]_vars
  BY <1>3 DEF Request_, Next, OperationStep
<1>4. ASSUME NEW o \in Operation, DrainGivesUp(o) \/ Create(o) \/ RestoreEmitted(o)
                                  \/ Delete(o) \/ ClearAll(o)
      PROVE  [Next]_vars
  BY <1>4 DEF DrainGivesUp, Create, RestoreEmitted, Delete, ClearAll, Returned, Next, OperationStep
<1>5. ASSUME NEW o \in Operation, Restore(o) PROVE [Next]_vars
  BY <1>5 DEF Restore, Returned, Next, OperationStep
<1>6. CASE ListSnapshots \/ Close \/ UNCHANGED snapshotVars
  BY <1>6 DEF ListSnapshots, Close, snapshotVars, Next
<1> QED BY <1>1, <1>2, <1>3, <1>4, <1>5, <1>6 DEF SnapshotNext

(* A step that leaves the writes and jobs alone, of a handler's end or of the   *)
(* gate's timers: operations that act go on acting.                           *)
LEMMA GateOnly ==
  ASSUME SnapshotInv, UNCHANGED <<storage, writing, job>>,
         \A r \in Request : request[r] = "running" /\ writing[r] # NoWriting
                              => request'[r] = "running",
         closed' \/ (~closed /\ \A o \in Operation : operation[o] = "acting" => operation'[o] = "acting")
  PROVE  SnapshotShape' /\ WritingOK' /\ FilesOK' /\ ResetIsDue' /\ NoDeletionWaits'
<1> USE DEF SnapshotInv, storage
<1>1. SnapshotShape' /\ FilesOK'
  BY DEF SnapshotShape, FilesOK
<1>2. WritingOK'
  BY DEF WritingOK
<1>3. ResetIsDue'
  BY DEF ResetIsDue
<1>4. NoDeletionWaits'
  BY DEF NoDeletionWaits
<1> QED BY <1>1, <1>2, <1>3, <1>4

(* While an operation acts that has no excuse, no handler is writing.          *)
LEMMA NobodyWrites ==
  ASSUME SnapshotInv, NEW o \in Operation, operation[o] = "acting", ~Crossed(o)
  PROVE  \A r \in Request : writing[r] = NoWriting
<1>1. ~closed /\ o \notin gaveUp
  BY DEF Crossed
<1>2. activeRequests = {}
  BY <1>1 DEF SnapshotInv, GateInv, ActionSeesNoRequest
<1>3. \A r \in Request : request[r] # "running"
  BY <1>2 DEF Crossed
<1> QED BY <1>3 DEF SnapshotInv, WritingOK

(* The end of an operation, after which no restore is due that was not its own. *)
LEMMA ReturnedKeeps ==
  ASSUME SnapshotInv, NEW o \in Operation, Returned(o), unreconciled' => unreconciled,
         unreconciled' => job[o].kind # "restore"
  PROVE  ResetIsDue' /\ job' \in [Operation -> Jobs \cup {NoJob}]
<1>1. operation[o] = "acting" /\ closed' = closed /\ job' = [job EXCEPT ![o] = NoJob]
  BY DEF Returned, ActionEnds
<1>2. ASSUME unreconciled', ~closed PROVE FALSE
  <2>1. PICK p \in Operation : operation[p] = "acting" /\ job[p].kind = "restore"
    BY <1>2 DEF SnapshotInv, ResetIsDue
  <2>2. p = o
    BY <1>1, <1>2, <2>1 DEF SnapshotInv, GateInv, OneExclusive, InProgress
  <2> QED BY <1>2, <2>1, <2>2
<1> QED BY <1>1, <1>2 DEF ResetIsDue, SnapshotInv, SnapshotShape

(* The end of an operation leaves the handlers where they are, or lets in      *)
(* those that wait.                                                          *)
LEMMA ReturnedKeepsWriting ==
  ASSUME SnapshotInv, NEW o \in Operation, Returned(o), UNCHANGED writing
  PROVE  WritingOK'
<1>1. \A r \in Request : request[r] = "running" => request'[r] = "running"
  BY DEF Returned, ActionEnds, FlushWaitingQueue
<1> QED BY <1>1 DEF SnapshotInv, WritingOK

(* The writes of the handlers: a file before its row, in a creation and in a    *)
(* deletion.                                                                 *)
LEMMA HandlersKeep ==
  ASSUME SnapshotInv, NEW r \in Request,
         \/ InsertRow(r) \/ DeleteRow(r)
         \/ \E x \in Record : SaveFile(r, x) \/ DeleteRecordFiles(r, x)
  PROVE  SnapshotShape' /\ WritingOK' /\ FilesOK' /\ ResetIsDue' /\ NoDeletionWaits'
<1> USE DEF SnapshotInv
<1>0. /\ UNCHANGED <<request, operation, closed, snapshots, job, away, unreconciled, excused>>
      /\ request[r] = "running"
  BY DEF InsertRow, DeleteRow, SaveFile, DeleteRecordFiles, HandlerFrame, vars
<1>1. ResetIsDue'
  BY <1>0 DEF ResetIsDue
<1>6. NoDeletionWaits'
  <2>1. writing' = [writing EXCEPT ![r] = NoWriting]
        \/ (\E x \in Record : writing' = [writing EXCEPT ![r] = [record |-> x, kind |-> "create"]])
        \/ ~away
    BY DEF InsertRow, DeleteRow, SaveFile, DeleteRecordFiles
  <2> QED BY <1>0, <2>1 DEF NoDeletionWaits, SnapshotShape, NoWriting
<1>n. \A s \in Request : writing[s].kind \in {"create", "delete"}
                            => writing[s] # NoWriting /\ writing[s].record \in Record
  BY DEF SnapshotShape, WritingRow, NoWriting
<1> DEFINE Deleted(x) == [record |-> x, kind |-> "delete"]
           Created(x) == [record |-> x, kind |-> "create"]
<1>2. ASSUME InsertRow(r) PROVE SnapshotShape' /\ WritingOK' /\ FilesOK'
  <2>1. /\ writing[r].kind = "create" /\ (rows' = rows \/ rows' = rows \cup {writing[r].record})
        /\ writing' = [writing EXCEPT ![r] = NoWriting] /\ UNCHANGED files
    <3>1. rows' \in {rows} \cup (IF away THEN {} ELSE {rows \cup {writing[r].record}})
      BY <1>2 DEF InsertRow
    <3> QED BY <1>2, <3>1 DEF InsertRow
  <2>2. SnapshotShape'
    BY <1>0, <1>n, <2>1 DEF SnapshotShape, WritingRow
  <2>3. WritingOK'
    BY <1>0, <2>1 DEF SnapshotShape, WritingOK
  <2>4. ASSUME ~excused PROVE FilesOK'
    <3>1. writing[r].record \in files
      BY <2>1, <2>4 DEF FilesOK
    <3>2. ASSUME NEW x \in rows' \ files' PROVE \E s \in Request : writing'[s] = Deleted(x)
      <4>1. x \in rows \ files
        BY <2>1, <3>1, <3>2
      <4>2. PICK s \in Request : writing[s] = Deleted(x)
        BY <2>4, <4>1 DEF FilesOK
      <4>3. s # r
        BY <2>1, <4>2
      <4> QED BY <2>1, <4>2, <4>3 DEF SnapshotShape
    <3>3. \A s \in Request : writing'[s].kind = "create" => writing'[s].record \in files'
      BY <2>1, <2>4 DEF FilesOK, SnapshotShape, NoWriting
    <3> QED BY <1>0, <2>4, <3>2, <3>3 DEF FilesOK
  <2> QED BY <1>0, <2>2, <2>3, <2>4 DEF FilesOK
<1>3. ASSUME DeleteRow(r) PROVE SnapshotShape' /\ WritingOK' /\ FilesOK'
  <2>1. /\ writing[r].kind = "delete" /\ rows' \subseteq rows
        /\ rows' = (IF away THEN rows ELSE rows \ {writing[r].record})
        /\ writing' = [writing EXCEPT ![r] = NoWriting] /\ UNCHANGED files
    BY <1>3 DEF DeleteRow
  <2>2. SnapshotShape'
    BY <1>0, <2>1 DEF SnapshotShape, WritingRow
  <2>3. WritingOK'
    BY <1>0, <2>1 DEF SnapshotShape, WritingOK
  <2>4. ASSUME ~excused PROVE FilesOK'
    <3>1. ASSUME NEW x \in rows' \ files' PROVE \E s \in Request : writing'[s] = Deleted(x)
      <4>0. ~away
        BY <2>1, <2>4 DEF NoDeletionWaits
      <4>1. x \in rows \ files /\ x # writing[r].record
        BY <2>1, <3>1, <4>0
      <4>2. PICK s \in Request : writing[s] = Deleted(x)
        BY <2>4, <4>1 DEF FilesOK
      <4>3. s # r
        BY <4>1, <4>2
      <4> QED BY <2>1, <4>2, <4>3 DEF SnapshotShape
    <3>2. \A s \in Request : writing'[s].kind = "create" => writing'[s].record \in files'
      BY <2>1, <2>4 DEF FilesOK, SnapshotShape, NoWriting
    <3> QED BY <1>0, <2>4, <3>1, <3>2 DEF FilesOK
  <2> QED BY <1>0, <2>2, <2>3, <2>4 DEF FilesOK
<1>4. ASSUME NEW x \in Record, SaveFile(r, x) PROVE SnapshotShape' /\ WritingOK' /\ FilesOK'
  <2>1. /\ writing[r] = NoWriting /\ Unwritten(x) /\ x \notin rows /\ files' = files \cup {x}
        /\ writing' = [writing EXCEPT ![r] = Created(x)] /\ UNCHANGED rows
    BY <1>4 DEF SaveFile
  <2>2. SnapshotShape'
    BY <1>0, <2>1 DEF SnapshotShape, WritingRow
  <2>3. WritingOK'
    BY <1>0, <2>1 DEF SnapshotShape, WritingOK, Unwritten
  <2>4. ASSUME ~excused PROVE FilesOK'
    <3>1. ASSUME NEW y \in rows' \ files' PROVE \E s \in Request : writing'[s] = Deleted(y)
      <4>1. PICK s \in Request : writing[s] = Deleted(y)
        BY <2>1, <2>4, <3>1 DEF FilesOK
      <4>2. s # r
        BY <2>1, <4>1 DEF NoWriting
      <4> QED BY <2>1, <4>1, <4>2 DEF SnapshotShape
    <3>2. \A s \in Request : writing'[s].kind = "create" => writing'[s].record \in files'
      BY <2>1, <2>4 DEF FilesOK, SnapshotShape
    <3> QED BY <1>0, <2>1, <2>4, <3>1, <3>2 DEF FilesOK
  <2> QED BY <1>0, <2>2, <2>3, <2>4 DEF FilesOK
<1>5. ASSUME NEW x \in Record, DeleteRecordFiles(r, x)
      PROVE  SnapshotShape' /\ WritingOK' /\ FilesOK'
  <2>1. /\ writing[r] = NoWriting /\ Unwritten(x) /\ files' = files \ {x}
        /\ writing' = [writing EXCEPT ![r] = Deleted(x)] /\ UNCHANGED rows
    BY <1>5 DEF DeleteRecordFiles
  <2>2. SnapshotShape'
    BY <1>0, <2>1 DEF SnapshotShape, WritingRow
  <2>3. WritingOK'
    BY <1>0, <2>1 DEF SnapshotShape, WritingOK, Unwritten
  <2>4. ASSUME ~excused PROVE FilesOK'
    <3>1. ASSUME NEW y \in rows' \ files' PROVE \E s \in Request : writing'[s] = Deleted(y)
      <4>1. CASE y = x
        BY <2>1, <4>1 DEF SnapshotShape
      <4>2. CASE y # x
        <5>1. PICK s \in Request : writing[s] = Deleted(y)
          BY <2>1, <2>4, <3>1, <4>2 DEF FilesOK
        <5>2. s # r
          BY <2>1, <5>1 DEF NoWriting
        <5> QED BY <2>1, <5>1, <5>2 DEF SnapshotShape
      <4> QED BY <4>1, <4>2
    <3>2. ASSUME NEW s \in Request, writing'[s].kind = "create" PROVE writing'[s].record \in files'
      <4>1. s # r /\ writing'[s] = writing[s]
        BY <2>1, <3>2 DEF SnapshotShape
      <4>2. writing[s].record \in files /\ writing[s].record # x
        BY <2>1, <2>4, <3>2, <4>1 DEF FilesOK, Unwritten
      <4> QED BY <2>1, <4>1, <4>2
    <3> QED BY <1>0, <2>1, <2>4, <3>1, <3>2 DEF FilesOK
  <2> QED BY <1>0, <2>2, <2>3, <2>4 DEF FilesOK
<1> QED BY <1>1, <1>2, <1>3, <1>4, <1>5, <1>6

(* A snapshot is taken.                                                       *)
LEMMA CreateKeeps ==
  ASSUME SnapshotInv, NEW o \in Operation, Create(o)
  PROVE  SnapshotShape' /\ WritingOK' /\ FilesOK' /\ ResetIsDue' /\ NoDeletionWaits'
<1> USE DEF SnapshotInv
<1>1. /\ operation[o] = "acting" /\ job[o].kind = "create" /\ Returned(o)
      /\ UNCHANGED <<rows, files, writing, away, unreconciled>>
  BY DEF Create
<1>e. excused' = excused \/ excused' = (excused \/ Crossed(o))
  BY DEF Create
<1>9. NoDeletionWaits'
  BY <1>1, <1>e DEF NoDeletionWaits
<1>2. ResetIsDue' /\ job' \in [Operation -> Jobs \cup {NoJob}] /\ WritingOK'
  BY <1>1, ReturnedKeeps, ReturnedKeepsWriting
<1> DEFINE new == [id |-> captures + 1, rows |-> rows, files |-> files]
<1>4. \A ids : \A s \in Without(ids) : s \in snapshots
  BY DEF Without
<1>n. new.rows = rows /\ new.files = files
  OBVIOUS
<1>d. Create(o) => snapshots' = Without(Evicted(job[o])) \cup {new} \/ UNCHANGED snapshots
                   \/ snapshots' = Without(Evicted(job[o]))
  BY DEF Create
<1> HIDE DEF new
<1>s. \A s \in snapshots' : s \in snapshots \/ s = new
  BY <1>4, <1>d
<1>3. SnapshotShape'
  BY <1>1, <1>2, <1>s, <1>n DEF SnapshotShape
<1>5. CASE UNCHANGED excused /\ \E ids : snapshots' = Without(ids)
  BY <1>1, <1>2, <1>3, <1>4, <1>5, <1>9 DEF FilesOK
<1>6. CASE UNCHANGED <<snapshots, excused>>
  BY <1>1, <1>2, <1>3, <1>6, <1>9 DEF FilesOK
<1>7. ASSUME snapshots' = Without(Evicted(job[o])) \cup {new},
             excused' = (excused \/ Crossed(o)), ~excused'
      PROVE  FilesOK'
  <2>1. \A r \in Request : writing[r] = NoWriting
    BY <1>1, <1>7, NobodyWrites
  <2>2. rows \subseteq files
    <3> SUFFICES ASSUME NEW x \in rows \ files PROVE FALSE
      OBVIOUS
    <3>1. PICK r \in Request : writing[r] = [record |-> x, kind |-> "delete"]
      BY <1>7 DEF FilesOK
    <3> QED BY <2>1, <3>1 DEF NoWriting
  <2>3. ASSUME NEW s \in snapshots' PROVE s.rows \subseteq s.files
    BY <1>7, <1>s, <1>n, <2>2, <2>3 DEF FilesOK
  <2> QED BY <1>1, <1>7, <2>3 DEF FilesOK
<1>8. CASE snapshots' = Without(Evicted(job[o])) \cup {new} /\ excused' = (excused \/ Crossed(o))
  BY <1>2, <1>3, <1>7, <1>8, <1>9 DEF FilesOK
<1> QED BY <1>5, <1>6, <1>8, <1>9 DEF Create, new

(* A snapshot is restored, up to the event.                                    *)
LEMMA RestoreKeeps ==
  ASSUME SnapshotInv, NEW o \in Operation, Restore(o)
  PROVE  SnapshotShape' /\ WritingOK' /\ FilesOK' /\ ResetIsDue' /\ NoDeletionWaits'
<1> USE DEF SnapshotInv
<1> DEFINE s == Find(job[o].id)
<1>1. /\ operation[o] = "acting" /\ job[o].kind = "restore" /\ ~unreconciled
      /\ UNCHANGED <<writing, snapshots>>
  BY DEF Restore
<1>2. job[o].id \in Ids(snapshots) => s \in snapshots
  BY DEF Ids, Find
<1>3. ASSUME job[o].id \in Ids(snapshots), rows' = s.rows, files' = s.files,
             unreconciled' = TRUE, excused' = (excused \/ Crossed(o)), UNCHANGED <<vars, job>>,
             away' = FALSE
      PROVE  SnapshotShape' /\ WritingOK' /\ FilesOK' /\ ResetIsDue' /\ NoDeletionWaits'
  <2>1. ResetIsDue'
    BY <1>1, <1>3 DEF ResetIsDue, vars
  <2>2. WritingOK'
    BY <1>1, <1>3 DEF WritingOK, vars
  <2>3. SnapshotShape'
    BY <1>1, <1>2, <1>3 DEF SnapshotShape
  <2>4. ASSUME ~excused' PROVE FilesOK'
    <3>1. \A r \in Request : writing[r] = NoWriting
      BY <1>1, <1>3, <2>4, NobodyWrites
    <3>2. rows' \subseteq files'
      BY <1>2, <1>3, <2>4 DEF FilesOK
    <3>3. \A r \in Request : writing'[r].kind # "create"
      BY <1>1, <3>1 DEF NoWriting
    <3>4. \A t \in snapshots' : t.rows \subseteq t.files
      BY <1>1, <1>3, <2>4 DEF FilesOK
    <3>5. rows' \ files' = {}
      BY <3>2
    <3> QED BY <3>3, <3>4, <3>5 DEF FilesOK
  <2> QED BY <1>3, <2>1, <2>2, <2>3, <2>4 DEF FilesOK, NoDeletionWaits
<1>4. ASSUME job[o].id \in Ids(snapshots), rows' = s.rows, files' \in SUBSET (files \cup s.files),
             excused' = TRUE, UNCHANGED unreconciled, Returned(o)
      PROVE  SnapshotShape' /\ WritingOK' /\ FilesOK' /\ ResetIsDue' /\ NoDeletionWaits'
  <2>1. ResetIsDue' /\ job' \in [Operation -> Jobs \cup {NoJob}] /\ WritingOK'
    BY <1>1, <1>4, ReturnedKeeps, ReturnedKeepsWriting
  <2>2. SnapshotShape'
    BY <1>1, <1>2, <1>4, <2>1 DEF SnapshotShape
  <2> QED BY <1>4, <2>1, <2>2 DEF FilesOK, NoDeletionWaits
<1>5. ASSUME UNCHANGED <<rows, files, unreconciled>>, excused' = (excused \/ (away' /\ Crossed(o))),
             Returned(o)
      PROVE  SnapshotShape' /\ WritingOK' /\ FilesOK' /\ ResetIsDue' /\ NoDeletionWaits'
  <2>1. ResetIsDue' /\ job' \in [Operation -> Jobs \cup {NoJob}] /\ WritingOK'
    BY <1>1, <1>5, ReturnedKeeps, ReturnedKeepsWriting
  <2>2. SnapshotShape'
    BY <1>1, <1>5, <2>1 DEF SnapshotShape
  <2>3. FilesOK'
    BY <1>1, <1>5 DEF FilesOK
  <2>4. NoDeletionWaits'
    <3>1. ASSUME away', ~excused' PROVE \A r \in Request : writing[r] = NoWriting
      BY <1>1, <1>5, <3>1, NobodyWrites
    <3> QED BY <1>1, <3>1 DEF NoDeletionWaits, NoWriting
  <2> QED BY <2>1, <2>2, <2>3, <2>4
<1> HIDE DEF s
<1> QED BY <1>3, <1>4, <1>5 DEF Restore, s

(* Every step keeps the invariant.                                            *)
LEMMA SnapshotInvStep == SnapshotInv /\ [SnapshotNext]_snapshotVars => SnapshotInv'
<1> SUFFICES ASSUME SnapshotInv, [SnapshotNext]_snapshotVars PROVE SnapshotInv'
  OBVIOUS
<1>g. GateInv'
  BY SnapshotStepIsGateStep, GateInvStep DEF SnapshotInv
<1> DEFINE Kept == SnapshotShape' /\ WritingOK' /\ FilesOK' /\ ResetIsDue' /\ NoDeletionWaits'
<1> SUFFICES Kept
  BY <1>g DEF SnapshotInv
<1> USE DEF SnapshotInv
<1>1. ASSUME NEW r \in Request, HttpStep(r) PROVE Kept
  <2>1. RequestStep(r) /\ UNCHANGED <<storage, writing, job>>
        /\ (request[r] = "running" /\ request'[r] = "done" => writing[r] = NoWriting)
    BY <1>1 DEF HttpStep
  <2>2. closed' = closed /\ \A o \in Operation : operation[o] = "acting" => operation'[o] = "acting"
    BY <2>1 DEF RequestStep, TrackRequestStart, QueueTimeout, RequestEnds, RequestCloses,
                TrackRequestEnd, NotifyDrain
  <2>3. ASSUME NEW q \in Request, request[q] = "running", writing[q] # NoWriting
        PROVE  request'[q] = "running"
    BY <2>1, <2>3 DEF RequestStep, TrackRequestStart, QueueTimeout, RequestEnds, RequestCloses,
                      GateInv, BaseInv, TypeOK, NobodyWaitsAtOpenGate
  <2>4. closed' \/ (~closed /\ \A o \in Operation : operation[o] = "acting" => operation'[o] = "acting")
    BY <2>2
  <2> QED BY <2>1, <2>3, <2>4, GateOnly
<1>2. ASSUME NEW r \in Request,
             \/ InsertRow(r) \/ DeleteRow(r)
             \/ \E x \in Record : SaveFile(r, x) \/ DeleteRecordFiles(r, x)
      PROVE  Kept
  BY <1>2, HandlersKeep
<1>3. ASSUME NEW o \in Operation, NEW j \in Jobs, Request_(o, j) PROVE Kept
  <2>1. /\ ExecuteExclusive(o) /\ job' = [job EXCEPT ![o] = j]
        /\ UNCHANGED <<rows, files, snapshots, away, unreconciled, excused, writing>>
        /\ UNCHANGED <<request, closed>> /\ ~isExecutingExclusive
    BY <1>3 DEF Request_, storage, ExecuteExclusive, Free
  <2>2. ResetIsDue'
    BY <2>1 DEF ResetIsDue, GateInv, OneExclusive, InProgress
  <2> QED BY <2>1, <2>2 DEF SnapshotShape, WritingOK, FilesOK, NoDeletionWaits
<1>4. ASSUME NEW o \in Operation, DrainGivesUp(o) PROVE Kept
  <2>1. /\ UNCHANGED <<storage, writing, job>> /\ UNCHANGED <<request, closed>>
        /\ operation' = [operation EXCEPT ![o] = "acting"]
    BY <1>4 DEF DrainGivesUp, DrainTimeout
  <2>2. \A p \in Operation : operation[p] = "acting" => operation'[p] = "acting"
    BY <2>1 DEF GateInv, BaseInv, TypeOK
  <2>3. closed' \/ (~closed /\ \A p \in Operation : operation[p] = "acting" => operation'[p] = "acting")
    BY <2>1, <2>2
  <2> QED BY <2>1, <2>3, GateOnly
<1>5. ASSUME NEW o \in Operation, Create(o) PROVE Kept
  BY <1>5, CreateKeeps
<1>6. ASSUME NEW o \in Operation, Restore(o) PROVE Kept
  BY <1>6, RestoreKeeps
<1>7. ASSUME NEW o \in Operation, RestoreEmitted(o) \/ Delete(o) \/ ClearAll(o) PROVE Kept
  <2>1. /\ Returned(o) /\ UNCHANGED <<rows, files, away, excused, writing>>
        /\ snapshots' \subseteq snapshots
        /\ (unreconciled' => unreconciled /\ job[o].kind # "restore")
    BY <1>7 DEF RestoreEmitted, Delete, ClearAll, Without
  <2>2. ResetIsDue' /\ job' \in [Operation -> Jobs \cup {NoJob}] /\ WritingOK'
    BY <2>1, ReturnedKeeps, ReturnedKeepsWriting
  <2> QED BY <2>1, <2>2 DEF SnapshotShape, FilesOK, NoDeletionWaits
<1>8. ASSUME ListSnapshots \/ UNCHANGED snapshotVars PROVE Kept
  BY <1>8 DEF ListSnapshots, snapshotVars, storage, vars, SnapshotShape, WritingOK, FilesOK, ResetIsDue,
              NoDeletionWaits
<1>9. ASSUME Close PROVE Kept
  <2>1. closed' /\ UNCHANGED <<storage, writing, job>>
    BY <1>9 DEF Close, Reset
  <2>2. \A r \in Request : request[r] = "running" => request'[r] = "running"
    BY <1>9 DEF Close, Reset, FlushWaitingQueue
  <2> QED BY <2>1, <2>2, GateOnly
<1> QED BY <1>1, <1>2, <1>3, <1>4, <1>5, <1>6, <1>7, <1>8, <1>9 DEF SnapshotNext

(* Whatever uploads, deletions, disconnects and drains that give up: every row  *)
(* has its file, in every snapshot and in the live state, but for the excuses;   *)
(* and no request is let in between a restore and the reset of the queue        *)
(* (createSnapshot, restoreSnapshot, the handlers of records).                 *)
THEOREM SnapshotsAreConsistent == SnapshotSpec => [](RowsHaveFiles /\ ResetBeforeRequests)
<1>1. SnapshotInit => SnapshotInv
  <2> SUFFICES ASSUME SnapshotInit PROVE SnapshotInv
    OBVIOUS
  <2>1. GateInv
    BY GateInvInit DEF SnapshotInit
  <2>2. SnapshotShape
    BY DEF SnapshotInit, SnapshotShape, WritingRow
  <2> QED BY <2>1, <2>2 DEF SnapshotInit, SnapshotInv, WritingOK, FilesOK, ResetIsDue, NoWriting,
                            NoDeletionWaits
<1>2. SnapshotInv /\ [SnapshotNext]_snapshotVars => SnapshotInv'
  BY SnapshotInvStep
<1>3. SnapshotInv => RowsHaveFiles /\ ResetBeforeRequests
  <2> SUFFICES ASSUME SnapshotInv PROVE RowsHaveFiles /\ ResetBeforeRequests
    OBVIOUS
  <2>1. RowsHaveFiles
    BY DEF SnapshotInv, FilesOK, RowsHaveFiles
  <2>2. ResetBeforeRequests
    BY DEF SnapshotInv, ResetIsDue, ResetBeforeRequests, GateInv, OneExclusive, InProgress
  <2> QED BY <2>1, <2>2
<1> QED BY <1>1, <1>2, <1>3, PTL DEF SnapshotSpec
=============================================================================
