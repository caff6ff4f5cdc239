----------------------------- MODULE ServicesProofs -----------------------------
(***************************************************************************)
(* Proofs about the components that serve calls and events.                  *)
(***************************************************************************)
EXTENDS FunctionService, FlowEngine, RealtimeClient, WebhookService, EventBus,
        FiniteSetTheorems, TLAPS

-----------------------------------------------------------------------------
(* Functions (FunctionService).  A chain of calls is stored with every call,  *)
(* record operation, claimed message and timer of the queue; the invariant    *)
(* says of each of these that it names no function twice.                    *)

\* A chain in which no function is twice.
Acyclic(path) ==
  /\ path \in Seq(Function)
  /\ \A i, j \in DOMAIN path : path[i] = path[j] => i = j

FrameRow == [fn : Function \cup {"none"}, path : Seq(Function),
             caller : {Client, "none"} \cup Write \cup Message]

WriteRow == [phase : {"none", "before", "after"}, path : Seq(Function),
             todo : SUBSET Function, runs : BOOLEAN]

MessageState == [state : {"none", "queued", "claimed", "running", "delayed", "done", "dead"},
                 attempts : Nat, path : Seq(Function)]

FunctionShape ==
  /\ functions \in [Function -> Settings \cup {Absent}]
  /\ frames \in [Frame -> FrameRow]
  /\ writes \in [Write -> WriteRow]
  /\ messages \in [Message -> MessageState]
  /\ activeExecutions \in Nat

\* Every stored chain is acyclic, and that of an execution within the limit.
ChainsOK ==
  /\ \A x \in Frame : Acyclic(frames[x].path)
  /\ \A x \in Running : /\ frames[x].fn \in Function
                        /\ frames[x].caller \in {Client} \cup Write \cup Message
                        /\ Len(frames[x].path) <= MaxRecursionDepth
  /\ \A w \in Write : Acyclic(writes[w].path)
  /\ \A m \in Message : Acyclic(messages[m].path)
  /\ wake # NoPath => Acyclic(wake)
  /\ timer # NoPath => Acyclic(timer)

FunctionInv == FunctionShape /\ ChainsOK /\ ActiveExecutionsExact

\* The chain of no call.
LEMMA EmptyChain == Acyclic(<<>>)
  BY DEF Acyclic

\* Admission: the chain of a call that is not circular is acyclic, and it is
\* not empty, so that the execution is told from NoFrame.
LEMMA AdmittedChain ==
  ASSUME NEW f \in Function, NEW path, Acyclic(path), ~Circular(f, path)
  PROVE  /\ Acyclic(Append(path, f))
         /\ Len(Append(path, f)) <= MaxRecursionDepth
         /\ Append(path, f) # <<>>
<1> DEFINE p == Append(path, f)
<1>1. path \in Seq(Function) /\ Len(path) \in Nat /\ Len(path) + 1 <= MaxRecursionDepth
  BY FunctionAssumption DEF Acyclic, Circular
<1>2. p \in Seq(Function) /\ Len(p) = Len(path) + 1 /\ DOMAIN p = 1..Len(path) + 1
  BY <1>1
<1>3. \A i \in 1..Len(path) : p[i] = path[i] /\ p[i] # f
  BY <1>1 DEF Circular, Range
<1>4. p[Len(path) + 1] = f
  BY <1>1
<1>5. ASSUME NEW i \in DOMAIN p, NEW j \in DOMAIN p, p[i] = p[j]
      PROVE  i = j
  <2>1. i \in 1..Len(path) + 1 /\ j \in 1..Len(path) + 1
    BY <1>2
  <2>2. \A a, b \in 1..Len(path) : path[a] = path[b] => a = b
    BY <1>1 DEF Acyclic
  <2> QED BY <1>1, <1>3, <1>4, <1>5, <2>1, <2>2
<1>6. p # <<>>
  BY <1>1, <1>2
<1> QED BY <1>1, <1>2, <1>5, <1>6 DEF Acyclic

\* The chain of the caller is a prefix of the chain of the call.
LEMMA CallersChain ==
  ASSUME NEW path, Acyclic(path)
  PROVE  Acyclic(SubSeq(path, 1, Len(path) - 1))
<1> DEFINE p == SubSeq(path, 1, Len(path) - 1)
<1>1. path \in Seq(Function) /\ Len(path) \in Nat
  BY DEF Acyclic
<1>2. p \in Seq(Function) /\ DOMAIN p \subseteq DOMAIN path /\ \A i \in DOMAIN p : p[i] = path[i]
  BY <1>1
<1> QED BY <1>2 DEF Acyclic

\* NoFrame and NoWrite are rows, and their chains that of no call.
LEMMA FunctionConstants ==
  /\ NoFrame \in FrameRow /\ NoFrame.path = <<>>
  /\ NoWrite \in WriteRow /\ NoWrite.path = <<>>
  BY DEF NoFrame, NoWrite, FrameRow, WriteRow

\* In the beginning nothing runs.
LEMMA FunctionInvInit == FunctionInit => FunctionInv
<1> SUFFICES ASSUME FunctionInit PROVE FunctionInv
  OBVIOUS
<1>1. FunctionShape
  BY FunctionConstants DEF FunctionInit, FunctionShape, MessageState
<1>2. Running = {}
  BY DEF FunctionInit, Running
<1>3. ChainsOK
  BY <1>2, EmptyChain, FunctionConstants DEF FunctionInit, ChainsOK
<1>4. ActiveExecutionsExact
  BY <1>2, FS_EmptySet, FunctionAssumption DEF FunctionInit, ActiveExecutionsExact
<1> QED BY <1>1, <1>3, <1>4 DEF FunctionInv

\* An execution begins: one more runs, with an acyclic chain, and is counted.
LEMMA BeginKeeps ==
  ASSUME FunctionInv, NEW x \in Frame, NEW f \in Function, NEW path, Acyclic(path),
         NEW caller \in {Client} \cup Write \cup Message,
         Begin(x, f, path, caller), ~Full, ~Circular(f, path)
  PROVE  /\ frames' \in [Frame -> FrameRow] /\ activeExecutions' \in Nat
         /\ ActiveExecutionsExact'
         /\ \A y \in Frame : Acyclic(frames'[y].path)
         /\ \A y \in Running' : /\ frames'[y].fn \in Function
                                /\ frames'[y].caller \in {Client} \cup Write \cup Message
                                /\ Len(frames'[y].path) <= MaxRecursionDepth
<1> DEFINE row == [fn |-> f, path |-> Append(path, f), caller |-> caller]
<1>0. /\ frames \in [Frame -> FrameRow] /\ activeExecutions \in Nat /\ ActiveExecutionsExact
      /\ \A y \in Frame : Acyclic(frames[y].path)
      /\ \A y \in Running : /\ frames[y].fn \in Function
                            /\ frames[y].caller \in {Client} \cup Write \cup Message
                            /\ Len(frames[y].path) <= MaxRecursionDepth
  BY DEF FunctionInv, FunctionShape, ChainsOK
<1>1. /\ Acyclic(Append(path, f)) /\ Len(Append(path, f)) <= MaxRecursionDepth
      /\ Append(path, f) # <<>>
  BY AdmittedChain
<1>2. row \in FrameRow /\ row # NoFrame
  BY <1>1 DEF FrameRow, NoFrame, Acyclic
<1>3. frames' = [frames EXCEPT ![x] = row] /\ frames[x] = NoFrame
      /\ activeExecutions' = activeExecutions + 1
  BY DEF Begin
<1>4. frames' \in [Frame -> FrameRow] /\ \A y \in Frame : frames'[y] = IF y = x THEN row ELSE frames[y]
  BY <1>0, <1>2, <1>3
<1> HIDE DEF row
<1>5. Running' = Running \cup {x} /\ x \notin Running
  <2>1. Running = {y \in Frame : frames[y] # NoFrame}
        /\ Running' = {y \in Frame : frames'[y] # NoFrame}
    BY DEF Running, NoFrame
  <2> HIDE DEF Running
  <2> QED BY <1>2, <1>3, <1>4, <2>1
<1>6. IsFiniteSet(Running)
  BY FunctionAssumption, FS_Subset DEF Running
<1>7. Cardinality(Running') = Cardinality(Running) + 1
  BY <1>5, <1>6, FS_AddElement
<1>8. activeExecutions' \in Nat /\ ActiveExecutionsExact'
  BY <1>0, <1>3, <1>7, FunctionAssumption DEF ActiveExecutionsExact, Full
<1>9. ASSUME NEW y \in Frame
      PROVE  Acyclic(frames'[y].path)
  <2>1. CASE y = x
    <3>1. frames'[y].path = Append(path, f)
      BY <1>4, <2>1 DEF row
    <3> QED BY <1>1, <3>1
  <2>2. CASE y # x
    BY <1>0, <1>4, <2>2
  <2> QED BY <2>1, <2>2
<1>10. \A y \in Running' : /\ frames'[y].fn \in Function
                           /\ frames'[y].caller \in {Client} \cup Write \cup Message
                           /\ Len(frames'[y].path) <= MaxRecursionDepth
  <2> TAKE y \in Running'
  <2>1. y \in Frame
    BY DEF Running
  <2>2. CASE y = x
    BY <1>1, <1>4, <2>1, <2>2 DEF row
  <2>3. CASE y # x
    BY <1>0, <1>4, <1>5, <2>1, <2>3
  <2> QED BY <2>2, <2>3
<1> QED BY <1>4, <1>8, <1>9, <1>10

\* A row written to the registry.
LEMMA RegistryKeeps ==
  ASSUME FunctionInv, NEW f \in Function, NEW row \in Settings \cup {Absent},
         functions' = [functions EXCEPT ![f] = row],
         UNCHANGED <<frames, writes, messages, activeExecutions, wake, timer>>
  PROVE  FunctionInv'
<1>1. FunctionShape'
  BY DEF FunctionInv, FunctionShape
<1>2. Running' = Running
  BY DEF Running
<1>3. ChainsOK' /\ ActiveExecutionsExact'
  BY <1>2 DEF FunctionInv, ChainsOK, ActiveExecutionsExact
<1> QED BY <1>1, <1>3 DEF FunctionInv

\* What admits calls stays as it is while no execution begins or ends.
LEMMA SameExecutions ==
  ASSUME FunctionInv, UNCHANGED <<functions, frames, activeExecutions>>,
         writes' \in [Write -> WriteRow], messages' \in [Message -> MessageState],
         \A w \in Write : Acyclic(writes'[w].path),
         \A m \in Message : Acyclic(messages'[m].path),
         wake' # NoPath => Acyclic(wake'),
         timer' # NoPath => Acyclic(timer')
  PROVE  FunctionInv'
<1>1. FunctionShape'
  BY DEF FunctionInv, FunctionShape
<1>2. Running' = Running
  BY DEF Running
<1>3. ChainsOK' /\ ActiveExecutionsExact'
  BY <1>2 DEF FunctionInv, ChainsOK, ActiveExecutionsExact
<1> QED BY <1>1, <1>3 DEF FunctionInv

\* The storage of a callback of the queue is the chain that set it.
LEMMA CallbacksKeepChains ==
  ASSUME ChainsOK, NEW path, Acyclic(path)
  PROVE  /\ WakeWorker(path) => (wake' # NoPath => Acyclic(wake'))
         /\ WakeAllWorkers(path) => (wake' # NoPath => Acyclic(wake'))
         /\ ScheduleDelayed(path) => (timer' # NoPath => Acyclic(timer'))
<1>1. WakeWorker(path) => (wake' # NoPath => Acyclic(wake'))
  BY DEF ChainsOK, WakeWorker
<1>2. WakeAllWorkers(path) => (wake' # NoPath => Acyclic(wake'))
  BY <1>1 DEF ChainsOK, WakeAllWorkers
<1>3. ScheduleDelayed(path) => (timer' # NoPath => Acyclic(timer'))
  BY DEF ChainsOK, ScheduleDelayed
<1> QED BY <1>1, <1>2, <1>3

\* complete or fail of a claimed message, by the code that ran in chain path.
LEMMA MessageReturnedKeeps ==
  ASSUME FunctionInv, NEW m \in Message, NEW outcome, NEW path, Acyclic(path),
         MessageReturned(m, outcome, path)
  PROVE  /\ messages' \in [Message -> MessageState]
         /\ \A n \in Message : Acyclic(messages'[n].path)
         /\ wake' # NoPath => Acyclic(wake')
         /\ timer' # NoPath => Acyclic(timer')
<1> DEFINE a == messages[m].attempts + 1
           retried == outcome # "success" /\ a < MaxAttempts
           row == [state |-> CASE outcome = "success" -> "done" [] retried -> "delayed" [] OTHER -> "dead",
                   attempts |-> a, path |-> <<>>]
<1>0. messages \in [Message -> MessageState] /\ ChainsOK
  BY DEF FunctionInv, FunctionShape
<1>1. messages' = [messages EXCEPT ![m] = row] /\ WakeWorker(path)
      /\ (ScheduleDelayed(path) \/ timer' = timer)
  BY DEF MessageReturned
<1>2. (CASE outcome = "success" -> "done" [] retried -> "delayed" [] OTHER -> "dead")
        \in {"done", "delayed", "dead"}
  <2>1. CASE outcome = "success"
    BY <2>1
  <2>2. CASE outcome # "success" /\ retried
    BY <2>2
  <2>3. CASE outcome # "success" /\ ~retried
    BY <2>3
  <2> QED BY <2>1, <2>2, <2>3
<1>3. row \in MessageState /\ row.path = <<>>
  BY <1>0, <1>2 DEF MessageState
<1> HIDE DEF row
<1>4. messages' \in [Message -> MessageState]
  BY <1>0, <1>1, <1>3
<1>5. \A n \in Message : Acyclic(messages'[n].path)
  BY <1>0, <1>1, <1>3, EmptyChain DEF ChainsOK
<1>6. (wake' # NoPath => Acyclic(wake')) /\ (timer' # NoPath => Acyclic(timer'))
  BY <1>0, <1>1, CallbacksKeepChains DEF ChainsOK
<1> QED BY <1>4, <1>5, <1>6

\* What begins an execution and leaves the rest, but for the message or the
\* operation that calls, as it is.
LEMMA BeginningKeeps ==
  ASSUME FunctionInv, NEW x \in Frame, NEW f \in Function, NEW path, Acyclic(path),
         NEW caller \in {Client} \cup Write \cup Message,
         Begin(x, f, path, caller), ~Full, ~Circular(f, path),
         writes' \in [Write -> WriteRow], messages' \in [Message -> MessageState],
         \A w \in Write : Acyclic(writes'[w].path),
         \A m \in Message : Acyclic(messages'[m].path),
         UNCHANGED <<functions, wake, timer>>
  PROVE  FunctionInv'
<1>1. /\ frames' \in [Frame -> FrameRow] /\ activeExecutions' \in Nat
      /\ ActiveExecutionsExact'
      /\ \A y \in Frame : Acyclic(frames'[y].path)
      /\ \A y \in Running' : /\ frames'[y].fn \in Function
                             /\ frames'[y].caller \in {Client} \cup Write \cup Message
                             /\ Len(frames'[y].path) <= MaxRecursionDepth
  BY BeginKeeps
<1>2. FunctionShape'
  BY <1>1 DEF FunctionInv, FunctionShape
<1>3. ChainsOK'
  BY <1>1 DEF FunctionInv, ChainsOK
<1> QED BY <1>1, <1>2, <1>3 DEF FunctionInv

\* An execution ends, however: one less runs, and the count follows.
LEMMA EndKeeps ==
  ASSUME FunctionInv, NEW x \in Running,
         frames' = [frames EXCEPT ![x] = NoFrame], activeExecutions' = Released,
         writes' \in [Write -> WriteRow], messages' \in [Message -> MessageState],
         \A w \in Write : Acyclic(writes'[w].path),
         \A m \in Message : Acyclic(messages'[m].path),
         wake' # NoPath => Acyclic(wake'), timer' # NoPath => Acyclic(timer'),
         UNCHANGED functions
  PROVE  FunctionInv'
<1>0. /\ frames \in [Frame -> FrameRow] /\ activeExecutions \in Nat /\ ActiveExecutionsExact
      /\ x \in Frame
  BY DEF FunctionInv, FunctionShape, Running
<1>1. frames' \in [Frame -> FrameRow] /\ \A y \in Frame : frames'[y] = IF y = x THEN NoFrame ELSE frames[y]
  BY <1>0, FunctionConstants
<1>2. Running' = Running \ {x}
  <2>1. Running = {y \in Frame : frames[y] # NoFrame}
        /\ Running' = {y \in Frame : frames'[y] # NoFrame}
    BY DEF Running, NoFrame
  <2> HIDE DEF Running
  <2> QED BY <1>1, <2>1
<1>3. IsFiniteSet(Running)
  BY FunctionAssumption, FS_Subset DEF Running
<1>4. Cardinality(Running') = Cardinality(Running) - 1 /\ Cardinality(Running) \in Nat
  BY <1>2, <1>3, FS_RemoveElement, FS_CardinalityType
<1>5. Cardinality(Running) > 0
  BY <1>3, <1>4, FS_EmptySet
<1>6. activeExecutions' \in Nat /\ ActiveExecutionsExact'
  BY <1>0, <1>4, <1>5, FunctionAssumption DEF ActiveExecutionsExact, Released
<1>7. FunctionShape'
  BY <1>1, <1>6 DEF FunctionInv, FunctionShape
<1>8. ChainsOK'
  BY <1>1, <1>2, FunctionConstants, EmptyChain DEF FunctionInv, ChainsOK
<1> QED BY <1>6, <1>7, <1>8 DEF FunctionInv

\* A record operation: it reads the hooks once, and keeps the chain that began it.
LEMMA WriteActionsKeep ==
  ASSUME FunctionInv, NEW w \in Write
  PROVE  /\ \A path : Acyclic(path) /\ StartWrite(w, path) => FunctionInv'
         /\ NextPhase(w) => FunctionInv'
         /\ \A f \in Function, x \in Frame : RunHook(w, f, x) => FunctionInv'
<1>0. /\ writes \in [Write -> WriteRow] /\ messages \in [Message -> MessageState]
      /\ \A v \in Write : Acyclic(writes[v].path)
      /\ \A m \in Message : Acyclic(messages[m].path)
      /\ wake # NoPath => Acyclic(wake)
      /\ timer # NoPath => Acyclic(timer)
  BY DEF FunctionInv, FunctionShape, ChainsOK
<1>1. \A phase : Matching(phase) \subseteq Function
  BY DEF Matching
<1>2. ASSUME NEW path, Acyclic(path), StartWrite(w, path)
      PROVE  FunctionInv'
  <2> DEFINE row == [phase |-> "before", path |-> path, todo |-> Matching("before"), runs |-> FALSE]
  <2>1. row \in WriteRow /\ row.path = path
    BY <1>1, <1>2 DEF WriteRow, Acyclic
  <2>2. /\ writes' = [writes EXCEPT ![w] = row]
        /\ UNCHANGED <<functions, frames, messages, activeExecutions, wake, timer>>
    BY <1>2 DEF StartWrite
  <2> HIDE DEF row
  <2>3. writes' \in [Write -> WriteRow] /\ \A v \in Write : Acyclic(writes'[v].path)
    BY <1>0, <1>2, <2>1, <2>2
  <2> QED BY <1>0, <2>2, <2>3, SameExecutions
<1>3. ASSUME NextPhase(w)
      PROVE  FunctionInv'
  <2> DEFINE row == IF writes[w].phase = "before"
                    THEN [writes[w] EXCEPT !.phase = "after", !.todo = Matching("after")]
                    ELSE NoWrite
  <2>1. row \in WriteRow /\ Acyclic(row.path)
    BY <1>0, <1>1, FunctionConstants, EmptyChain DEF WriteRow
  <2>2. /\ writes' = [writes EXCEPT ![w] = row]
        /\ UNCHANGED <<functions, frames, messages, activeExecutions, wake, timer>>
    BY <1>3 DEF NextPhase
  <2> HIDE DEF row
  <2>3. writes' \in [Write -> WriteRow] /\ \A v \in Write : Acyclic(writes'[v].path)
    BY <1>0, <2>1, <2>2
  <2> QED BY <1>0, <2>2, <2>3, SameExecutions
<1>4. ASSUME NEW f \in Function, NEW x \in Frame, RunHook(w, f, x)
      PROVE  FunctionInv'
  <2> DEFINE op == writes[w]
             row == [op EXCEPT !.todo = @ \ {f}, !.runs = TRUE]
  <2>1. CASE Circular(f, op.path) \/ Full
    <3>1. /\ writes' = [writes EXCEPT ![w] = NoWrite]
          /\ UNCHANGED <<functions, frames, messages, activeExecutions, wake, timer>>
      BY <1>4, <2>1 DEF RunHook
    <3>2. writes' \in [Write -> WriteRow] /\ \A v \in Write : Acyclic(writes'[v].path)
      BY <1>0, <3>1, FunctionConstants, EmptyChain
    <3> QED BY <1>0, <3>1, <3>2, SameExecutions
  <2>2. CASE ~Circular(f, op.path) /\ ~Full
    <3>1. /\ writes' = [writes EXCEPT ![w].todo = @ \ {f}, ![w].runs = TRUE]
          /\ Begin(x, f, op.path, w)
          /\ UNCHANGED <<functions, messages, wake, timer>>
      BY <1>4, <2>2 DEF RunHook
    <3>2. row \in WriteRow /\ row.path = op.path
      BY <1>0 DEF WriteRow
    <3>3. writes' = [writes EXCEPT ![w] = row]
      BY <1>0, <3>1 DEF WriteRow
    <3> HIDE DEF row
    <3>4. writes' \in [Write -> WriteRow] /\ \A v \in Write : Acyclic(writes'[v].path)
      BY <1>0, <3>2, <3>3
    <3> QED BY <1>0, <2>2, <3>1, <3>4, BeginningKeeps
  <2> QED BY <2>1, <2>2
<1> QED BY <1>2, <1>3, <1>4

\* A message that leaves its claim has no chain any more.
LEMMA Unclaimed ==
  ASSUME messages \in [Message -> MessageState], NEW m \in Message,
         NEW st \in {"delayed", "running"},
         messages' = [messages EXCEPT ![m].state = st, ![m].path = <<>>]
  PROVE  /\ messages' \in [Message -> MessageState]
         /\ \A n \in Message : messages'[n].path = messages[n].path \/ messages'[n].path = <<>>
<1> DEFINE row == [messages[m] EXCEPT !.state = st, !.path = <<>>]
<1>1. messages[m] \in MessageState /\ <<>> \in Seq(Function)
  OBVIOUS
<1>2. row \in MessageState
  BY <1>1 DEF MessageState
<1>3. row.path = <<>>
  BY <1>1 DEF MessageState
<1>4. messages' = [messages EXCEPT ![m] = row]
  OBVIOUS
<1> HIDE DEF row
<1> QED BY <1>2, <1>3, <1>4

\* The messages of the queue: sent, claimed, executed, and due after a delay.
LEMMA QueueActionsKeep ==
  ASSUME FunctionInv
  PROVE  /\ \A m \in Message : \A path : Acyclic(path) /\ Send(m, path) => FunctionInv'
         /\ Drain => FunctionInv'
         /\ TimerFires => FunctionInv'
         /\ \A m \in Message, x \in Frame : ExecuteQueueMessage(m, x) => FunctionInv'
<1>0. /\ writes \in [Write -> WriteRow] /\ messages \in [Message -> MessageState]
      /\ \A v \in Write : Acyclic(writes[v].path)
      /\ \A m \in Message : Acyclic(messages[m].path)
      /\ wake # NoPath => Acyclic(wake)
      /\ timer # NoPath => Acyclic(timer)
      /\ ChainsOK
  BY DEF FunctionInv, FunctionShape, ChainsOK
<1>1. ASSUME NEW m \in Message, NEW path, Acyclic(path), Send(m, path)
      PROVE  FunctionInv'
  <2>1. /\ messages' = [messages EXCEPT ![m].state = "queued"]
        /\ WakeWorker(path)
        /\ UNCHANGED <<functions, frames, writes, activeExecutions, timer>>
    BY <1>1 DEF Send
  <2>2. messages' \in [Message -> MessageState]
        /\ \A n \in Message : messages'[n].path = messages[n].path
    BY <1>0, <2>1 DEF MessageState
  <2>3. wake' # NoPath => Acyclic(wake')
    BY <1>0, <1>1, <2>1, CallbacksKeepChains
  <2> QED BY <1>0, <2>1, <2>2, <2>3, SameExecutions
<1>2. ASSUME Drain
      PROVE  FunctionInv'
  <2>1. /\ wake # NoPath /\ wake' = NoPath
        /\ UNCHANGED <<functions, frames, writes, activeExecutions>>
    BY <1>2 DEF Drain
  <2>2. CASE Full
    <3>1. ScheduleDelayed(wake) /\ messages' = messages
      BY <1>2, <2>2 DEF Drain
    <3>2. timer' # NoPath => Acyclic(timer')
      BY <1>0, <2>1, <3>1, CallbacksKeepChains
    <3> QED BY <1>0, <2>1, <3>1, <3>2, SameExecutions
  <2>3. CASE ~Full
    <3>1. PICK claimed \in SUBSET Message :
            /\ messages' = [m \in Message |-> IF m \in claimed
                              THEN [messages[m] EXCEPT !.state = "claimed", !.path = wake]
                              ELSE messages[m]]
            /\ timer' = timer
      BY <1>2, <2>3 DEF Drain
    <3>2. wake \in Seq(Function) /\ Acyclic(wake)
      BY <1>0, <2>1 DEF Acyclic
    <3>3. \A m \in Message : [messages[m] EXCEPT !.state = "claimed", !.path = wake] \in MessageState
                             /\ [messages[m] EXCEPT !.state = "claimed", !.path = wake].path = wake
      BY <1>0, <3>2 DEF MessageState
    <3>4. messages' \in [Message -> MessageState] /\ \A m \in Message : Acyclic(messages'[m].path)
      BY <1>0, <3>1, <3>2, <3>3
    <3> QED BY <1>0, <2>1, <3>1, <3>4, SameExecutions
  <2> QED BY <2>2, <2>3
<1>3. ASSUME TimerFires
      PROVE  FunctionInv'
  <2>1. /\ timer # NoPath /\ timer' = NoPath
        /\ messages' = [m \in Message |-> IF messages[m].state = "delayed"
                                          THEN [messages[m] EXCEPT !.state = "queued"] ELSE messages[m]]
        /\ WakeWorker(timer)
        /\ UNCHANGED <<functions, frames, writes, activeExecutions>>
    BY <1>3 DEF TimerFires
  <2>2. messages' \in [Message -> MessageState]
        /\ \A n \in Message : messages'[n].path = messages[n].path
    BY <1>0, <2>1 DEF MessageState
  <2>3. wake' # NoPath => Acyclic(wake')
    BY <1>0, <2>1, CallbacksKeepChains
  <2> QED BY <1>0, <2>1, <2>2, <2>3, SameExecutions
<1>4. ASSUME NEW m \in Message, NEW x \in Frame, ExecuteQueueMessage(m, x)
      PROVE  FunctionInv'
  <2> DEFINE path == messages[m].path
             f == TargetFunction
  <2>0. Acyclic(path) /\ path \in Seq(Function) /\ f \in Function
        /\ UNCHANGED <<functions, writes>>
    BY <1>0, <1>4, FunctionAssumption DEF Acyclic, ExecuteQueueMessage
  <2>1. CASE ~functions[f].enabled \/ (functions[f].enabled /\ ~Full /\ Circular(f, path))
    <3>1. MessageReturned(m, "error", path) /\ UNCHANGED <<frames, activeExecutions>>
      BY <1>4, <2>1 DEF ExecuteQueueMessage
    <3> QED BY <1>0, <2>0, <3>1, MessageReturnedKeeps, SameExecutions
  <2>2. CASE functions[f].enabled /\ Full
    <3>1. /\ messages' = [messages EXCEPT ![m].state = "delayed", ![m].path = <<>>]
          /\ ScheduleDelayed(path) /\ WakeWorker(path)
          /\ UNCHANGED <<frames, activeExecutions>>
      BY <1>4, <2>2 DEF ExecuteQueueMessage
    <3>2. messages' \in [Message -> MessageState]
          /\ \A n \in Message : messages'[n].path = messages[n].path \/ messages'[n].path = <<>>
      BY <1>0, <3>1, Unclaimed
    <3>3. \A n \in Message : Acyclic(messages'[n].path)
      BY <1>0, <3>2, EmptyChain
    <3>4. (wake' # NoPath => Acyclic(wake')) /\ (timer' # NoPath => Acyclic(timer'))
      BY <1>0, <2>0, <3>1, CallbacksKeepChains
    <3> QED BY <1>0, <2>0, <3>1, <3>2, <3>3, <3>4, SameExecutions
  <2>3. CASE functions[f].enabled /\ ~Full /\ ~Circular(f, path)
    <3>1. /\ Begin(x, f, path, m)
          /\ messages' = [messages EXCEPT ![m].state = "running", ![m].path = <<>>]
          /\ UNCHANGED <<wake, timer>>
      BY <1>4, <2>3 DEF ExecuteQueueMessage
    <3>2. messages' \in [Message -> MessageState]
          /\ \A n \in Message : messages'[n].path = messages[n].path \/ messages'[n].path = <<>>
      BY <1>0, <3>1, Unclaimed
    <3>3. \A n \in Message : Acyclic(messages'[n].path)
      BY <1>0, <3>2, EmptyChain
    <3> QED BY <1>0, <2>0, <2>3, <3>1, <3>2, <3>3, BeginningKeeps
  <2> QED BY <2>1, <2>2, <2>3
<1> QED BY <1>1, <1>2, <1>3, <1>4

\* An execution ends and its caller goes on.
LEMMA FrameEndsKeeps ==
  ASSUME FunctionInv, NEW x \in Frame, NEW outcome, FrameEnds(x, outcome)
  PROVE  FunctionInv'
<1> DEFINE c == frames[x].caller
           path == CallerPath(x)
<1>0. /\ writes \in [Write -> WriteRow] /\ messages \in [Message -> MessageState]
      /\ \A v \in Write : Acyclic(writes[v].path)
      /\ \A m \in Message : Acyclic(messages[m].path)
      /\ wake # NoPath => Acyclic(wake)
      /\ timer # NoPath => Acyclic(timer)
      /\ ChainsOK
  BY DEF FunctionInv, FunctionShape, ChainsOK
<1>1. /\ x \in Running
      /\ frames' = [frames EXCEPT ![x] = NoFrame] /\ activeExecutions' = Released
      /\ UNCHANGED functions
  BY DEF FrameEnds
<1>2. Acyclic(path)
  BY <1>0, CallersChain DEF ChainsOK, CallerPath
<1>3. CASE c \in Message
  <2>1. MessageReturned(c, outcome, path) /\ UNCHANGED writes
    BY <1>3, FunctionAssumption DEF FrameEnds
  <2> QED BY <1>0, <1>1, <1>2, <1>3, <2>1, MessageReturnedKeeps, EndKeeps
<1>4. CASE c \notin Message /\ c \in Write
  <2> DEFINE row == IF writes[c].phase = "before" /\ outcome # "success" THEN NoWrite
                    ELSE [writes[c] EXCEPT !.runs = FALSE]
  <2>1. HookReturned(c, outcome) /\ WakeAllWorkers(path) /\ UNCHANGED <<messages, timer>>
    BY <1>4 DEF FrameEnds
  <2>2. writes' = [writes EXCEPT ![c] = row]
    BY <2>1 DEF HookReturned
  <2>3. row \in WriteRow /\ Acyclic(row.path)
    BY <1>0, <1>4, FunctionConstants, EmptyChain DEF WriteRow
  <2> HIDE DEF row
  <2>4. writes' \in [Write -> WriteRow] /\ \A v \in Write : Acyclic(writes'[v].path)
    BY <1>0, <2>2, <2>3
  <2>5. wake' # NoPath => Acyclic(wake')
    BY <1>0, <1>2, <2>1, CallbacksKeepChains
  <2> QED BY <1>0, <1>1, <2>1, <2>4, <2>5, EndKeeps
<1>5. CASE c \notin Message /\ c \notin Write
  <2>1. WakeAllWorkers(path) /\ UNCHANGED <<writes, messages, timer>>
    BY <1>5 DEF FrameEnds
  <2>2. wake' # NoPath => Acyclic(wake')
    BY <1>0, <1>2, <2>1, CallbacksKeepChains
  <2> QED BY <1>0, <1>1, <2>1, <2>2, EndKeeps
<1> QED BY <1>3, <1>4, <1>5

\* What clients do to the registry, and their calls.
LEMMA ClientActionsKeep ==
  ASSUME FunctionInv, NEW f \in Function
  PROVE  /\ CreateFunction(f) => FunctionInv'
         /\ UpdateFunction(f) => FunctionInv'
         /\ \A force \in BOOLEAN : DeleteFunction(f, force) => FunctionInv'
         /\ \A x \in Frame : ExecuteFunction(f, x) => FunctionInv'
<1>1. CreateFunction(f) => FunctionInv'
  BY RegistryKeeps DEF CreateFunction
<1>2. UpdateFunction(f) => FunctionInv'
  BY RegistryKeeps DEF UpdateFunction
<1>3. ASSUME NEW force \in BOOLEAN, DeleteFunction(f, force)
      PROVE  FunctionInv'
  BY <1>3, RegistryKeeps DEF DeleteFunction
<1>4. ASSUME NEW x \in Frame, ExecuteFunction(f, x)
      PROVE  FunctionInv'
  <2>1. /\ Begin(x, f, <<>>, Client) /\ ~Full /\ ~Circular(f, <<>>)
        /\ UNCHANGED <<functions, writes, messages, wake, timer>>
    BY <1>4 DEF ExecuteFunction
  <2>2. /\ writes' \in [Write -> WriteRow] /\ messages' \in [Message -> MessageState]
        /\ \A v \in Write : Acyclic(writes'[v].path)
        /\ \A m \in Message : Acyclic(messages'[m].path)
    BY <2>1 DEF FunctionInv, FunctionShape, ChainsOK
  <2> QED BY <2>1, <2>2, EmptyChain, BeginningKeeps
<1> QED BY <1>1, <1>2, <1>3, <1>4

\* Every step keeps the chains acyclic and the count exact.
LEMMA FunctionInvStep == FunctionInv /\ [FunctionNext]_functionVars => FunctionInv'
<1> SUFFICES ASSUME FunctionInv, [FunctionNext]_functionVars PROVE FunctionInv'
  OBVIOUS
<1>1. ASSUME NEW f \in Function, CreateFunction(f) \/ UpdateFunction(f)
      PROVE  FunctionInv'
  BY <1>1, ClientActionsKeep
<1>2. ASSUME NEW f \in Function, NEW force \in BOOLEAN, DeleteFunction(f, force)
      PROVE  FunctionInv'
  BY <1>2, ClientActionsKeep
<1>3. ASSUME NEW f \in Function, NEW x \in Frame, ExecuteFunction(f, x)
      PROVE  FunctionInv'
  BY <1>3, ClientActionsKeep
<1>4. ASSUME NEW x \in Frame, HostCall(x)
      PROVE  FunctionInv'
  <2>1. Acyclic(frames[x].path)
    BY DEF FunctionInv, ChainsOK
  <2> QED BY <1>4, <2>1, WriteActionsKeep, QueueActionsKeep DEF HostCall
<1>5. ASSUME NEW x \in Frame, NEW outcome \in Outcomes, FrameEnds(x, outcome)
      PROVE  FunctionInv'
  BY <1>5, FrameEndsKeeps
<1>6. ASSUME NEW w \in Write, StartWrite(w, <<>>) \/ NextPhase(w)
      PROVE  FunctionInv'
  BY <1>6, EmptyChain, WriteActionsKeep
<1>7. ASSUME NEW w \in Write, NEW f \in Function, NEW x \in Frame, RunHook(w, f, x)
      PROVE  FunctionInv'
  BY <1>7, WriteActionsKeep
<1>8. ASSUME NEW m \in Message, Send(m, <<>>)
      PROVE  FunctionInv'
  BY <1>8, EmptyChain, QueueActionsKeep
<1>9. ASSUME NEW m \in Message, NEW x \in Frame, ExecuteQueueMessage(m, x)
      PROVE  FunctionInv'
  BY <1>9, QueueActionsKeep
<1>10. CASE Drain \/ TimerFires
  BY <1>10, QueueActionsKeep
<1>11. CASE UNCHANGED functionVars
  <2>1. Running' = Running
    BY <1>11 DEF Running, functionVars
  <2> QED BY <1>11, <2>1
      DEF functionVars, FunctionInv, FunctionShape, ChainsOK, ActiveExecutionsExact
<1> QED
  BY <1>1, <1>2, <1>3, <1>4, <1>5, <1>6, <1>7, <1>8, <1>9, <1>10, <1>11, Zenon DEF FunctionNext

(* Every stored chain of calls is acyclic and the count is exact, whatever   *)
(* hooks, messages and timers call each other, and whenever calls time out.  *)
THEOREM FunctionInvariant == FunctionSpec => []FunctionInv
<1>1. FunctionInit => FunctionInv
  BY FunctionInvInit
<1>2. FunctionInv /\ [FunctionNext]_functionVars => FunctionInv'
  BY FunctionInvStep
<1> QED BY <1>1, <1>2, PTL DEF FunctionSpec

(* The count that admits calls is the number of executions and within the    *)
(* limit, for any number of functions, messages and record operations: no     *)
(* path through the service leaks a slot or gives one back twice.            *)
THEOREM CapacityIsExact == FunctionSpec => []ActiveExecutionsExact
<1>1. FunctionInv => ActiveExecutionsExact
  BY DEF FunctionInv
<1> QED BY <1>1, FunctionInvariant, PTL

(* No chain of calls comes back to one of its functions or passes the limit,  *)
(* across hooks, messages and the timers of the queue.                       *)
THEOREM NoCallCycle == FunctionSpec => [](FunctionTypeOK /\ CallsAreAcyclic)
<1>1. FunctionInv => FunctionTypeOK /\ CallsAreAcyclic
  BY DEF FunctionInv, FunctionShape, ChainsOK, FunctionTypeOK, CallsAreAcyclic, Acyclic, Running
<1> QED BY <1>1, FunctionInvariant, PTL

-----------------------------------------------------------------------------
(* Webhooks (WebhookService).  The two fields of a row that a dispatch tests   *)
(* agree, as long as the action was never chosen apart from the event.       *)

ActionFollowsEvent ==
  \A h \in Hook : LET row == webhooks[h] IN
    row.event # AnyVerb /\ ~row.chosen => row.action = row.event

HookRow == [enabled : BOOLEAN, collection : Collection \cup {AnyCollection},
            event : Verb \cup {AnyVerb}, action : Verb \cup {AnyVerb, "none"}, chosen : BOOLEAN]

WebhookInv ==
  /\ DOMAIN webhooks = Hook
  /\ \A h \in Hook : webhooks[h] \in HookRow
  /\ ActionFollowsEvent

\* A row is written that is a row and whose action follows its event.
LEMMA HookRowKeeps ==
  ASSUME WebhookInv, NEW h \in Hook, NEW row \in HookRow,
         row.event # AnyVerb /\ ~row.chosen => row.action = row.event,
         webhooks' = [webhooks EXCEPT ![h] = row]
  PROVE  WebhookInv'
  BY DEF WebhookInv, ActionFollowsEvent

\* createWebhook: the action is the event, unless the caller chose one.
LEMMA CreateWebhookKeeps ==
  ASSUME WebhookInv, NEW h \in Hook, NEW c \in Collection \cup {AnyCollection},
         NEW p \in Collection \cup {NotGiven}, NEW e \in Verb \cup {AnyVerb},
         NEW a \in Verb \cup {AnyVerb, NotGiven}, CreateWebhook(h, c, p, e, a)
  PROVE  WebhookInv'
<1> DEFINE row == [enabled |-> TRUE,
                   collection |-> IF c = AnyCollection /\ p # NotGiven THEN p ELSE c,
                   event |-> e, action |-> IF a = NotGiven THEN e ELSE a,
                   chosen |-> a # NotGiven]
<1>1. row \in HookRow
  BY DEF HookRow
<1>2. row.event # AnyVerb /\ ~row.chosen => row.action = row.event
  OBVIOUS
<1>3. webhooks' = [webhooks EXCEPT ![h] = row]
  BY DEF CreateWebhook
<1> HIDE DEF row
<1> QED BY <1>1, <1>2, <1>3, HookRowKeeps

\* updateWebhook: the action follows an event that is a verb, and stays with
\* one that is AnyVerb, whatever of the row is given.
LEMMA UpdateWebhookKeeps ==
  ASSUME WebhookInv, NEW h \in Hook, NEW c \in Collection \cup {AnyCollection, NotGiven},
         NEW p \in Collection \cup {NotGiven}, NEW event \in Verb \cup {AnyVerb, NotGiven},
         NEW a \in Verb \cup {AnyVerb, NotGiven}, NEW enabled \in BOOLEAN,
         UpdateWebhook(h, c, p, event, a, enabled)
  PROVE  WebhookInv'
<1> DEFINE old == webhooks[h]
           e == IF event = NotGiven THEN old.event ELSE event
           d == CASE p # NotGiven -> p [] c # NotGiven -> c [] OTHER -> old.collection
           row == [enabled |-> enabled, collection |-> d, event |-> e,
                   action |-> ActionOf(a, e, old.action),
                   chosen |-> a # NotGiven \/ (e = AnyVerb /\ old.chosen)]
<1>0. old \in HookRow
  BY DEF WebhookInv
<1>1. e \in Verb \cup {AnyVerb} /\ old.action \in Verb \cup {AnyVerb, "none"}
  BY <1>0 DEF HookRow
<1>2. ActionOf(a, e, old.action) \in Verb \cup {AnyVerb, "none"}
  BY <1>1 DEF ActionOf
<1>3. webhooks' = [webhooks EXCEPT ![h] = row]
  BY DEF UpdateWebhook
<1>4. d \in Collection \cup {AnyCollection}
  <2>0. old.collection \in Collection \cup {AnyCollection}
    BY <1>0 DEF HookRow
  <2> QED
    BY <2>0 DEF NotGiven
<1>5. row.event # AnyVerb /\ ~row.chosen => row.action = row.event
  BY DEF ActionOf
<1>6. old.chosen \in BOOLEAN
  BY <1>0 DEF HookRow
<1> HIDE DEF e, d, old
<1>7. row \in HookRow
  BY <1>1, <1>2, <1>4, <1>6 DEF HookRow
<1> HIDE DEF row
<1> QED BY <1>3, <1>5, <1>7, HookRowKeeps

\* The deliveries do not touch the rows.
LEMMA WebhookInvStep == WebhookInv /\ [WebhookNext]_webhookVars => WebhookInv'
<1> SUFFICES ASSUME WebhookInv, [WebhookNext]_webhookVars PROVE WebhookInv'
  OBVIOUS
<1>1. CASE UNCHANGED webhooks
  BY <1>1 DEF WebhookInv, ActionFollowsEvent
<1>2. ASSUME NEW h \in Hook, NEW c \in Collection \cup {AnyCollection},
             NEW p \in Collection \cup {NotGiven}, NEW e \in Verb \cup {AnyVerb},
             NEW a \in Verb \cup {AnyVerb, NotGiven}, CreateWebhook(h, c, p, e, a)
      PROVE  WebhookInv'
  BY <1>2, CreateWebhookKeeps
<1>4. ASSUME NEW h \in Hook, DeleteWebhook(h) \/ TestWebhook(h)
      PROVE  WebhookInv'
  <2>1. CASE DeleteWebhook(h)
    <3>1. NoHook \in HookRow /\ NoHook.event = AnyVerb
      BY DEF NoHook, HookRow
    <3>2. webhooks' = [webhooks EXCEPT ![h] = NoHook]
      BY <2>1 DEF DeleteWebhook
    <3>3. NoHook.event # AnyVerb /\ ~NoHook.chosen => NoHook.action = NoHook.event
      BY <3>1
    <3> QED BY <1>4, <3>1, <3>2, <3>3, HookRowKeeps
  <2>2. CASE TestWebhook(h)
    BY <1>1, <2>2 DEF TestWebhook
  <2> QED BY <1>4, <2>1, <2>2
<1>5. ASSUME NEW c \in Collection, NEW v \in Verb, HandleRecordEvent(c, v)
      PROVE  WebhookInv'
  BY <1>1, <1>5 DEF HandleRecordEvent
<1>6. ASSUME NEW d \in dispatches, DispatchUnlogged(d) \/ \E s \in Statuses : DispatchEnds(d, s)
      PROVE  WebhookInv'
  BY <1>1, <1>6 DEF DispatchUnlogged, DispatchEnds
<1>7. ASSUME NEW row \in deliveries, RetryDelivery(row)
      PROVE  WebhookInv'
  BY <1>1, <1>7 DEF RetryDelivery
<1>8. ASSUME NEW n \in 2..MaxDispatches + 1, ClearDeliveries(n)
      PROVE  WebhookInv'
  BY <1>1, <1>8 DEF ClearDeliveries
<1>9. CASE WebhookCrash
  BY <1>1, <1>9 DEF WebhookCrash
<1>10. CASE UNCHANGED webhookVars
  BY <1>1, <1>10 DEF webhookVars
<1>11. ASSUME \E h \in Hook, c \in Collection \cup {AnyCollection, NotGiven},
                p \in Collection \cup {NotGiven}, e \in Verb \cup {AnyVerb, NotGiven},
                a \in Verb \cup {AnyVerb, NotGiven}, enabled \in BOOLEAN :
                 (p # NotGiven => e # NotGiven) /\ UpdateWebhook(h, c, p, e, a, enabled)
       PROVE  WebhookInv'
  <2>1. PICK h \in Hook, c \in Collection \cup {AnyCollection, NotGiven},
             p \in Collection \cup {NotGiven}, e \in Verb \cup {AnyVerb, NotGiven},
             a \in Verb \cup {AnyVerb, NotGiven}, enabled \in BOOLEAN :
               (p # NotGiven => e # NotGiven) /\ UpdateWebhook(h, c, p, e, a, enabled)
    BY <1>11
  <2> QED BY <2>1, UpdateWebhookKeeps
<1>12. ASSUME \E h \in Hook, c \in Collection \cup {AnyCollection},
                p \in Collection \cup {NotGiven}, e \in Verb \cup {AnyVerb},
                a \in Verb \cup {AnyVerb, NotGiven} : CreateWebhook(h, c, p, e, a)
       PROVE  WebhookInv'
  BY <1>2, <1>12, Zenon
<1> QED BY <1>4, <1>5, <1>6, <1>7, <1>8, <1>9, <1>10, <1>11, <1>12, Zenon DEF WebhookNext

(* A webhook whose event was set to a verb, its action left to follow, fires   *)
(* on that verb and on no other, for any collections and verbs and after any   *)
(* sequence of updates.                                                      *)
THEOREM NamedEventsFire == WebhookSpec => []NamedEventFires
<1>1. WebhookInit => WebhookInv
  <2>1. NoHook \in HookRow /\ NoHook.event = AnyVerb
    BY DEF NoHook, HookRow
  <2> QED BY <2>1 DEF WebhookInit, WebhookInv, ActionFollowsEvent
<1>2. WebhookInv /\ [WebhookNext]_webhookVars => WebhookInv'
  BY WebhookInvStep
<1>3. WebhookInv => NamedEventFires
  BY DEF WebhookInv, ActionFollowsEvent, NamedEventFires, MatchesEvent
<1> QED BY <1>1, <1>2, <1>3, PTL DEF WebhookSpec

-----------------------------------------------------------------------------
(* The realtime client (RealtimeClient).  While the newest POST is under way   *)
(* it carries the topics of this moment for the current id; once it has been  *)
(* applied, and nothing older after it, the server has them.                 *)

Source == [state : {"opening", "greeted", "open", "closed"}, id : Nat, bound : SUBSET EventNames(Topic)]
Post == [id : Nat, topics : SUBSET Topic, newest : BOOLEAN, awaits : Nat]

RealtimeShape ==
  /\ subscriptions \in SUBSET Topic
  /\ sources \in Seq(Source)
  /\ eventSource \in 0..Len(sources) /\ connectPromise \in 0..Len(sources)
  /\ clients \in Seq((SUBSET Topic) \cup {Gone})
  /\ clientId \in 0..Len(clients)
  /\ \A s \in 1..Len(sources) : sources[s].id <= Len(clients)
  /\ posts \in Seq(Post)
  /\ \A i \in 1..Len(posts) : posts[i].id \in 1..Len(clients)
  /\ registeredEventNames \in SUBSET EventNames(Topic)
  /\ reconnectTimeout \in BOOLEAN /\ stale \in BOOLEAN

\* What an arbitrary record of POSTs, ids and topics says of the current connection.
NewestIsCurrent ==
  \A i \in 1..Len(posts) :
    posts[i].newest => posts[i].id = clientId /\ posts[i].topics = subscriptions

AppliedIsCurrent ==
  ~stale /\ (\A i \in 1..Len(posts) : ~posts[i].newest)
    => clients[clientId] \in {Gone, subscriptions}

RealtimeInv == RealtimeShape /\ (Current => NewestIsCurrent /\ AppliedIsCurrent)

\* RemoveAt keeps the other elements, each at its place or one before.
LEMMA RemoveAtElements ==
  ASSUME NEW S, NEW s \in Seq(S), NEW i \in 1..Len(s)
  PROVE  /\ RemoveAt(s, i) \in Seq(S) /\ Len(RemoveAt(s, i)) = Len(s) - 1
         /\ \A j \in 1..Len(s) - 1 : RemoveAt(s, i)[j] = s[IF j < i THEN j ELSE j + 1]
<1> DEFINE a == SubSeq(s, 1, i - 1)
           b == SubSeq(s, i + 1, Len(s))
<1>1. /\ a \in Seq(S) /\ Len(a) = i - 1 /\ \A j \in 1..i - 1 : a[j] = s[j]
      /\ b \in Seq(S) /\ Len(b) = Len(s) - i /\ \A j \in 1..Len(s) - i : b[j] = s[i + j]
  OBVIOUS
<1> HIDE DEF a, b
<1>2. /\ a \o b \in Seq(S) /\ Len(a \o b) = Len(s) - 1
      /\ \A j \in 1..Len(s) - 1 : (a \o b)[j] = IF j <= i - 1 THEN a[j] ELSE b[j - (i - 1)]
  BY <1>1
<1>3. \A j \in 1..Len(s) - 1 : (a \o b)[j] = s[IF j < i THEN j ELSE j + 1]
  <2> TAKE j \in 1..Len(s) - 1
  <2>1. CASE j < i
    BY <1>1, <1>2, <2>1
  <2>2. CASE ~(j < i)
    <3>1. j - (i - 1) \in 1..Len(s) - i /\ i + (j - (i - 1)) = j + 1
      BY <2>2
    <3>2. b[j - (i - 1)] = s[j + 1]
      BY <1>1, <3>1
    <3>3. (a \o b)[j] = b[j - (i - 1)]
      BY <1>2, <2>2
    <3> QED BY <2>2, <3>2, <3>3
  <2> QED BY <2>1, <2>2
<1>4. RemoveAt(s, i) = a \o b
  BY DEF RemoveAt, a, b
<1> QED BY <1>2, <1>3, <1>4

\* A POST is sent: it is the newest, with the topics and the id of this moment.
LEMMA SyncSends ==
  ASSUME posts \in Seq(Post), NEW id \in Nat, NEW topics \in SUBSET Topic, NEW awaits \in Nat,
         SyncSubscriptions(id, topics, awaits), id # 0, stale \in BOOLEAN
  PROVE  /\ posts' \in Seq(Post) /\ Len(posts') = Len(posts) + 1 /\ stale' = FALSE
         /\ \A i \in 1..Len(posts) : ~posts'[i].newest /\ posts'[i].id = posts[i].id
         /\ posts'[Len(posts) + 1] = [id |-> id, topics |-> topics, newest |-> TRUE, awaits |-> awaits]
<1> DEFINE old == [i \in DOMAIN posts |-> [posts[i] EXCEPT !.newest = FALSE]]
           new == [id |-> id, topics |-> topics, newest |-> TRUE, awaits |-> awaits]
<1>1. posts' = Append(old, new) /\ stale' = FALSE
  BY DEF SyncSubscriptions
<1>2. new \in Post
  BY DEF Post
<1>3. \A i \in 1..Len(posts) : /\ [posts[i] EXCEPT !.newest = FALSE] \in Post
                               /\ ~[posts[i] EXCEPT !.newest = FALSE].newest
                               /\ [posts[i] EXCEPT !.newest = FALSE].id = posts[i].id
  <2> TAKE i \in 1..Len(posts)
  <2>1. posts[i] \in Post
    OBVIOUS
  <2> QED BY <2>1 DEF Post
<1>4. old \in Seq(Post) /\ Len(old) = Len(posts)
      /\ \A i \in 1..Len(posts) : ~old[i].newest /\ old[i].id = posts[i].id
  <2>1. DOMAIN posts = 1..Len(posts) /\ Len(posts) \in Nat
    OBVIOUS
  <2>2. old \in [1..Len(posts) -> Post]
    BY <1>3, <2>1
  <2>3. \A i \in 1..Len(posts) : ~old[i].newest /\ old[i].id = posts[i].id
    BY <1>3, <2>1
  <2> HIDE DEF old
  <2> QED BY <2>1, <2>2, <2>3
<1> HIDE DEF old, new
<1>5. posts' \in Seq(Post) /\ Len(posts') = Len(posts) + 1
      /\ (\A i \in 1..Len(posts) : posts'[i] = old[i]) /\ posts'[Len(posts) + 1] = new
  BY <1>1, <1>2, <1>4
<1> QED BY <1>1, <1>4, <1>5 DEF new

\* connect() changes nothing, or makes a source that has no id yet.
LEMMA ConnectMakes ==
  ASSUME RealtimeShape, NEW topics \in SUBSET Topic, Connect(topics)
  PROVE  \/ UNCHANGED <<sources, eventSource, connectPromise, registeredEventNames>>
            /\ (IsConnected \/ connectPromise # 0)
         \/ /\ sources' \in Seq(Source) /\ Len(sources') = Len(sources) + 1
            /\ \A s \in 1..Len(sources) : sources'[s] = sources[s]
            /\ sources'[Len(sources) + 1].id = 0
            /\ eventSource' = Len(sources) + 1 /\ connectPromise' = Len(sources) + 1
            /\ registeredEventNames' \in SUBSET EventNames(Topic)
<1>1. CASE (clientId # 0 /\ eventSource # 0) \/ connectPromise # 0
  BY <1>1 DEF Connect, IsConnected
<1>2. CASE ~((clientId # 0 /\ eventSource # 0) \/ connectPromise # 0)
  <2> DEFINE new == [state |-> "opening", id |-> 0,
                     bound |-> EventNames(topics) \ registeredEventNames]
  <2>1. /\ sources' = Append(sources, new) /\ eventSource' = Len(sources')
        /\ connectPromise' = Len(sources')
        /\ registeredEventNames' = registeredEventNames \cup EventNames(topics)
    BY <1>2 DEF Connect
  <2>2. EventNames(topics) \subseteq EventNames(Topic)
    BY DEF EventNames
  <2>3. new \in Source /\ new.id = 0
    BY <2>2 DEF Source
  <2> HIDE DEF new
  <2>4. /\ sources' \in Seq(Source) /\ Len(sources') = Len(sources) + 1
        /\ \A s \in 1..Len(sources) : sources'[s] = sources[s]
        /\ sources'[Len(sources) + 1] = new
    BY <2>1, <2>3 DEF RealtimeShape
  <2>5. registeredEventNames' \in SUBSET EventNames(Topic)
    BY <2>1, <2>2 DEF RealtimeShape
  <2> QED BY <2>1, <2>3, <2>4, <2>5
<1> QED BY <1>1, <1>2

\* After a POST has been sent for the current id, both parts hold.
LEMMA SentIsCurrent ==
  ASSUME RealtimeShape, NEW id \in Nat, NEW topics \in SUBSET Topic, NEW awaits \in Nat,
         SyncSubscriptions(id, topics, awaits), id # 0,
         id = clientId', topics = subscriptions'
  PROVE  NewestIsCurrent' /\ AppliedIsCurrent'
<1>1. posts \in Seq(Post) /\ stale \in BOOLEAN
  BY DEF RealtimeShape
<1>2. /\ posts' \in Seq(Post) /\ Len(posts') = Len(posts) + 1
      /\ \A i \in 1..Len(posts) : ~posts'[i].newest
      /\ posts'[Len(posts) + 1] = [id |-> id, topics |-> topics, newest |-> TRUE, awaits |-> awaits]
  BY <1>1, SyncSends
<1>3. Len(posts) \in Nat
  BY <1>1
<1>4. NewestIsCurrent'
  <2> SUFFICES ASSUME NEW i \in 1..Len(posts) + 1, posts'[i].newest
               PROVE  posts'[i].id = clientId' /\ posts'[i].topics = subscriptions'
    BY <1>2 DEF NewestIsCurrent
  <2>1. i = Len(posts) + 1
    BY <1>2, <1>3
  <2> QED BY <1>2, <2>1
<1>5. AppliedIsCurrent'
  <2>1. Len(posts) + 1 \in 1..Len(posts') /\ posts'[Len(posts) + 1].newest
    BY <1>2, <1>3
  <2> QED BY <2>1 DEF AppliedIsCurrent
<1> QED BY <1>4, <1>5

\* A POST that was sent leaves the ids of the POSTs within those of the clients.
LEMMA SentIds ==
  ASSUME RealtimeShape, NEW id \in Nat, NEW topics \in SUBSET Topic, NEW awaits \in Nat,
         SyncSubscriptions(id, topics, awaits), id # 0, id <= Len(clients'),
         Len(clients) <= Len(clients'), Len(clients') \in Nat
  PROVE  /\ posts' \in Seq(Post) /\ stale' \in BOOLEAN
         /\ \A i \in 1..Len(posts') : posts'[i].id \in 1..Len(clients')
<1>1. /\ posts' \in Seq(Post) /\ Len(posts') = Len(posts) + 1 /\ stale' = FALSE
      /\ \A i \in 1..Len(posts) : posts'[i].id = posts[i].id
      /\ posts'[Len(posts) + 1] = [id |-> id, topics |-> topics, newest |-> TRUE, awaits |-> awaits]
  BY SyncSends DEF RealtimeShape
<1>2. Len(posts) \in Nat /\ Len(clients) \in Nat /\ \A i \in 1..Len(posts) : posts[i].id \in 1..Len(clients)
  BY DEF RealtimeShape
<1>3. ASSUME NEW i \in 1..Len(posts')
      PROVE  posts'[i].id \in 1..Len(clients')
  <2>1. CASE i = Len(posts) + 1
    BY <1>1, <2>1
  <2>2. CASE i # Len(posts) + 1
    <3>1. i \in 1..Len(posts)
      BY <1>1, <1>2, <2>2
    <3>2. posts'[i].id \in 1..Len(clients)
      BY <1>1, <1>2, <3>1
    <3> QED BY <1>2, <3>2
  <2> QED BY <2>1, <2>2
<1> QED BY <1>1, <1>3

\* What every step but the answers of POSTs leaves of the parts about POSTs.
LEMMA NotCurrent ==
  ASSUME RealtimeShape', ~Current'
  PROVE  RealtimeInv'
  BY DEF RealtimeInv

\* The handshake: of the current source, it sends the topics of this moment; of
\* another one, the current source has not the id of the client any more.
LEMMA HandleConnectKeeps ==
  ASSUME RealtimeInv, NEW s \in 1..Len(sources), HandleConnect(s)
  PROVE  RealtimeInv'
<1> DEFINE id == Len(clients) + 1
           row == [sources[s] EXCEPT !.state = "greeted", !.id = id]
<1>0. RealtimeShape
  BY DEF RealtimeInv
<1>1. /\ sources \in Seq(Source) /\ eventSource \in 0..Len(sources) /\ Len(sources) \in Nat
      /\ clients \in Seq((SUBSET Topic) \cup {Gone}) /\ Len(clients) \in Nat
      /\ subscriptions \in SUBSET Topic
      /\ \A x \in 1..Len(sources) : sources[x].id <= Len(clients)
  BY <1>0 DEF RealtimeShape
<1>2. /\ clients' = Append(clients, {}) /\ clientId' = Len(clients')
      /\ sources' = [sources EXCEPT ![s].state = "greeted", ![s].id = Len(clients')]
      /\ SyncSubscriptions(Len(clients'), subscriptions, s)
      /\ UNCHANGED <<subscriptions, eventSource, connectPromise, registeredEventNames,
                     reconnectTimeout>>
  BY DEF HandleConnect
<1>3. clients' \in Seq((SUBSET Topic) \cup {Gone}) /\ Len(clients') = id /\ id \in Nat \ {0}
  <2>1. {} \in (SUBSET Topic) \cup {Gone}
    OBVIOUS
  <2> QED BY <1>1, <1>2, <2>1
<1>4. sources' = [sources EXCEPT ![s] = row]
  BY <1>2, <1>3
<1>5. row \in Source /\ row.id = id
  <2>1. sources[s] \in Source
    BY <1>1
  <2> HIDE DEF id
  <2> QED BY <1>3, <2>1 DEF Source
<1> HIDE DEF row, id
<1>6. /\ sources' \in Seq(Source) /\ Len(sources') = Len(sources)
      /\ \A x \in 1..Len(sources) : sources'[x] = IF x = s THEN row ELSE sources[x]
  BY <1>1, <1>4, <1>5
<1>7. \A x \in 1..Len(sources') : sources'[x].id <= Len(clients')
  <2> TAKE x \in 1..Len(sources')
  <2>1. CASE x = s
    BY <1>3, <1>5, <1>6, <2>1
  <2>2. CASE x # s
    <3>1. sources[x].id <= Len(clients) /\ sources'[x].id = sources[x].id /\ sources[x] \in Source
      BY <1>1, <1>6, <2>2
    <3>2. sources[x].id \in Nat
      BY <3>1 DEF Source
    <3> QED BY <1>1, <1>3, <3>1, <3>2 DEF id
  <2> QED BY <2>1, <2>2
<1>8. /\ posts' \in Seq(Post) /\ stale' \in BOOLEAN
      /\ \A i \in 1..Len(posts') : posts'[i].id \in 1..Len(clients')
  <2>1. /\ Len(clients') \in Nat /\ Len(clients') # 0 /\ Len(clients) <= Len(clients')
        /\ Len(clients') <= Len(clients') /\ s \in Nat
    BY <1>1, <1>3 DEF id
  <2> QED BY <1>0, <1>1, <1>2, <2>1, SentIds
<1>9. RealtimeShape'
  BY <1>0, <1>2, <1>3, <1>6, <1>7, <1>8 DEF RealtimeShape
<1>10. NewestIsCurrent' /\ AppliedIsCurrent'
  BY <1>0, <1>1, <1>2, <1>3, SentIsCurrent
<1> QED BY <1>9, <1>10 DEF RealtimeInv

\* The second event of a handshake sends the topics again for the same id.
LEMMA HandleConnectAgainKeeps ==
  ASSUME RealtimeInv, NEW s \in 1..Len(sources), HandleConnectAgain(s)
  PROVE  RealtimeInv'
<1> DEFINE row == [sources[s] EXCEPT !.state = "open"]
<1>0. RealtimeShape
  BY DEF RealtimeInv
<1>1. /\ sources \in Seq(Source) /\ Len(sources) \in Nat
      /\ clients \in Seq((SUBSET Topic) \cup {Gone}) /\ Len(clients) \in Nat
      /\ subscriptions \in SUBSET Topic /\ posts \in Seq(Post) /\ stale \in BOOLEAN
      /\ \A x \in 1..Len(sources) : sources[x].id <= Len(clients)
  BY <1>0 DEF RealtimeShape
<1>2. /\ clientId' = sources[s].id
      /\ sources' = [sources EXCEPT ![s].state = "open"]
      /\ SyncSubscriptions(sources[s].id, subscriptions, s)
      /\ UNCHANGED <<subscriptions, eventSource, connectPromise, registeredEventNames,
                     reconnectTimeout, clients>>
  BY DEF HandleConnectAgain
<1>3. row \in Source /\ row.id = sources[s].id /\ sources[s].id \in 0..Len(clients) /\ s \in Nat
  <2>1. sources[s] \in Source /\ sources[s].id <= Len(clients) /\ s \in Nat
    BY <1>1
  <2>2. sources[s].id \in 0..Len(clients)
    BY <1>1, <2>1 DEF Source
  <2>3. row \in Source /\ row.id = sources[s].id
    BY <2>1 DEF Source
  <2> QED BY <2>1, <2>2, <2>3
<1>4. sources' = [sources EXCEPT ![s] = row]
  BY <1>2
<1> HIDE DEF row
<1>5. /\ sources' \in Seq(Source) /\ Len(sources') = Len(sources)
      /\ \A x \in 1..Len(sources) : sources'[x] = IF x = s THEN row ELSE sources[x]
  BY <1>1, <1>3, <1>4
<1>6. \A x \in 1..Len(sources') : sources'[x].id <= Len(clients')
  BY <1>1, <1>2, <1>3, <1>5
<1>7. CASE sources[s].id = 0
  <2>1. UNCHANGED <<posts, stale>>
    BY <1>2, <1>7 DEF SyncSubscriptions
  <2>2. RealtimeShape'
    BY <1>0, <1>2, <1>3, <1>5, <1>6, <2>1 DEF RealtimeShape
  <2>3. ~Current'
    BY <1>2, <1>7 DEF Current
  <2> QED BY <2>2, <2>3, NotCurrent
<1>8. CASE sources[s].id # 0
  <2>1. sources[s].id \in Nat /\ sources[s].id <= Len(clients') /\ Len(clients) <= Len(clients')
        /\ Len(clients') \in Nat
    BY <1>1, <1>2, <1>3
  <2>2. /\ posts' \in Seq(Post) /\ stale' \in BOOLEAN
        /\ \A i \in 1..Len(posts') : posts'[i].id \in 1..Len(clients')
    BY <1>0, <1>1, <1>2, <1>3, <1>8, <2>1, SentIds
  <2>3. RealtimeShape'
    BY <1>0, <1>2, <1>3, <1>5, <1>6, <2>2 DEF RealtimeShape
  <2>4. NewestIsCurrent' /\ AppliedIsCurrent'
    BY <1>0, <1>1, <1>2, <1>3, <1>8, <2>1, SentIsCurrent
  <2> QED BY <2>3, <2>4 DEF RealtimeInv
<1> QED BY <1>7, <1>8

\* An answer, whatever it was, takes its POST away and ends the wait for it.
LEMMA AnsweredKeeps ==
  ASSUME RealtimeInv, NEW i \in 1..Len(posts), Answered(i),
         clients' \in Seq((SUBSET Topic) \cup {Gone}), Len(clients') = Len(clients),
         stale' \in BOOLEAN
  PROVE  /\ RealtimeShape' /\ Current' = Current
         /\ Current => NewestIsCurrent'
         /\ (\A j \in 1..Len(posts') : ~posts'[j].newest)
              => posts[i].newest \/ \A j \in 1..Len(posts) : ~posts[j].newest
<1>0. RealtimeShape
  BY DEF RealtimeInv
<1>1. /\ posts' = RemoveAt(posts, i)
      /\ connectPromise' \in {0, connectPromise}
      /\ UNCHANGED <<subscriptions, sources, eventSource, clientId,
                     registeredEventNames, reconnectTimeout>>
  BY DEF Answered
<1>2. /\ posts \in Seq(Post) /\ Len(posts) \in Nat
      /\ \A j \in 1..Len(posts) : posts[j].id \in 1..Len(clients)
  BY <1>0 DEF RealtimeShape
<1>3. /\ posts' \in Seq(Post) /\ Len(posts') = Len(posts) - 1
      /\ \A j \in 1..Len(posts) - 1 : posts'[j] = posts[IF j < i THEN j ELSE j + 1]
  BY <1>1, <1>2, RemoveAtElements
<1>4. \A j \in 1..Len(posts') : \E k \in 1..Len(posts) : posts'[j] = posts[k]
  <2> TAKE j \in 1..Len(posts')
  <2>1. (IF j < i THEN j ELSE j + 1) \in 1..Len(posts) /\ j \in 1..Len(posts) - 1
    BY <1>2, <1>3
  <2> QED BY <1>3, <2>1
<1>5. RealtimeShape'
  <2>1. \A j \in 1..Len(posts') : posts'[j].id \in 1..Len(clients')
    BY <1>2, <1>4
  <2>2. connectPromise' \in 0..Len(sources)
    BY <1>0, <1>1 DEF RealtimeShape
  <2> QED BY <1>0, <1>1, <1>3, <2>1, <2>2 DEF RealtimeShape
<1>6. Current' = Current
  BY <1>1 DEF Current
<1>7. Current => NewestIsCurrent'
  BY <1>1, <1>4 DEF RealtimeInv, NewestIsCurrent
<1>8. ASSUME \A j \in 1..Len(posts') : ~posts'[j].newest, ~posts[i].newest,
             NEW k \in 1..Len(posts)
      PROVE  ~posts[k].newest
  <2>1. CASE k = i
    BY <1>8, <2>1
  <2>2. CASE k < i
    <3>1. k \in 1..Len(posts) - 1 /\ k < i
      BY <1>2, <2>2
    <3>2. posts'[k] = posts[k]
      BY <1>3, <3>1
    <3> QED BY <1>3, <1>8, <3>1, <3>2
  <2>3. CASE k > i
    <3>1. k - 1 \in 1..Len(posts) - 1 /\ ~(k - 1 < i) /\ (k - 1) + 1 = k
      BY <1>2, <2>3
    <3>2. posts'[k - 1] = posts[k]
      BY <1>3, <3>1
    <3> QED BY <1>3, <1>8, <3>1, <3>2
  <2>4. k = i \/ k < i \/ k > i
    BY <1>2
  <2> QED BY <2>1, <2>2, <2>3, <2>4
<1> QED BY <1>5, <1>6, <1>7, <1>8

\* The server applies the topics of a POST: those of the newest are the client's.
LEMMA SetSubscriptionsKeeps ==
  ASSUME RealtimeInv, NEW i \in 1..Len(posts), SetSubscriptions(i)
  PROVE  RealtimeInv'
<1> DEFINE p == posts[i]
<1>0. RealtimeShape
  BY DEF RealtimeInv
<1>1. /\ clients' = [clients EXCEPT ![p.id] = IF @ = Gone THEN Gone ELSE p.topics]
      /\ stale' = (stale \/ (~p.newest /\ ~\E j \in DOMAIN posts : posts[j].newest))
      /\ Answered(i)
  BY DEF SetSubscriptions
<1>2. p \in Post /\ p.id \in 1..Len(clients) /\ stale \in BOOLEAN
      /\ clients \in Seq((SUBSET Topic) \cup {Gone}) /\ DOMAIN posts = 1..Len(posts)
      /\ clientId \in 0..Len(clients)
  BY <1>0 DEF RealtimeShape
<1>3. p.topics \in SUBSET Topic /\ p.newest \in BOOLEAN
  BY <1>2 DEF Post
<1>4. /\ clients' \in Seq((SUBSET Topic) \cup {Gone}) /\ Len(clients') = Len(clients)
      /\ \A id \in 1..Len(clients) :
           clients'[id] = IF id = p.id /\ clients[id] # Gone THEN p.topics ELSE clients[id]
  <2> DEFINE t == IF clients[p.id] = Gone THEN Gone ELSE p.topics
  <2>1. t \in (SUBSET Topic) \cup {Gone}
    BY <1>3
  <2>2. clients' = [clients EXCEPT ![p.id] = t]
    BY <1>1
  <2> HIDE DEF p
  <2>3. t = IF clients[p.id] # Gone THEN p.topics ELSE clients[p.id]
    OBVIOUS
  <2> HIDE DEF t
  <2> QED BY <1>2, <2>1, <2>2, <2>3
<1>5. stale' \in BOOLEAN
  BY <1>1, <1>2, <1>3
<1>6. /\ RealtimeShape' /\ Current' = Current
      /\ Current => NewestIsCurrent'
      /\ (\A j \in 1..Len(posts') : ~posts'[j].newest)
           => p.newest \/ \A j \in 1..Len(posts) : ~posts[j].newest
  BY <1>1, <1>4, <1>5, AnsweredKeeps
<1>7. ASSUME Current, ~stale', \A j \in 1..Len(posts') : ~posts'[j].newest
      PROVE  clients'[clientId'] \in {Gone, subscriptions'}
  <2>1. p.newest /\ ~stale
    BY <1>1, <1>2, <1>6, <1>7
  <2>2. p.id = clientId /\ p.topics = subscriptions
    BY <1>7, <2>1 DEF RealtimeInv, NewestIsCurrent
  <2>3. clientId' = clientId /\ subscriptions' = subscriptions
    BY <1>1 DEF Answered
  <2> HIDE DEF p
  <2> QED BY <1>2, <1>4, <2>2, <2>3
<1> QED BY <1>6, <1>7 DEF RealtimeInv, AppliedIsCurrent

\* A POST fails: if it was the newest, the list of the server is stale.
LEMMA PostFailsKeeps ==
  ASSUME RealtimeInv, NEW i \in 1..Len(posts), PostFails(i)
  PROVE  RealtimeInv'
<1>0. RealtimeShape
  BY DEF RealtimeInv
<1>1. /\ stale' = (stale \/ posts[i].newest) /\ Answered(i) /\ clients' = clients
      /\ clientId' = clientId /\ subscriptions' = subscriptions
  BY DEF PostFails, Answered
<1>2. posts[i] \in Post /\ stale \in BOOLEAN /\ clients \in Seq((SUBSET Topic) \cup {Gone})
  BY <1>0 DEF RealtimeShape
<1>3. stale' \in BOOLEAN
  BY <1>1, <1>2 DEF Post
<1>4. /\ RealtimeShape' /\ Current' = Current
      /\ Current => NewestIsCurrent'
      /\ (\A j \in 1..Len(posts') : ~posts'[j].newest)
           => posts[i].newest \/ \A j \in 1..Len(posts) : ~posts[j].newest
  BY <1>1, <1>2, <1>3, AnsweredKeeps
<1>5. Current => AppliedIsCurrent'
  BY <1>1, <1>4 DEF RealtimeInv, AppliedIsCurrent
<1> QED BY <1>4, <1>5 DEF RealtimeInv

\* disconnect(): there is no current source afterwards.
LEMMA DisconnectKeeps ==
  ASSUME RealtimeInv, Disconnect
  PROVE  RealtimeInv'
<1>0. /\ RealtimeShape /\ sources \in Seq(Source) /\ eventSource \in 0..Len(sources)
      /\ clients \in Seq((SUBSET Topic) \cup {Gone}) /\ Len(clients) \in Nat
      /\ \A x \in 1..Len(sources) : sources[x] \in Source /\ sources[x].id <= Len(clients)
  <2>1. /\ RealtimeShape /\ sources \in Seq(Source) /\ eventSource \in 0..Len(sources)
        /\ clients \in Seq((SUBSET Topic) \cup {Gone})
        /\ \A x \in 1..Len(sources) : sources[x].id <= Len(clients)
    BY DEF RealtimeInv, RealtimeShape
  <2>2. Len(clients) \in Nat /\ \A x \in 1..Len(sources) : sources[x] \in Source
    BY <2>1
  <2> QED BY <2>1, <2>2
<1>1. /\ eventSource' = 0 /\ clientId' = 0 /\ registeredEventNames' = {}
      /\ reconnectTimeout' = FALSE
      /\ UNCHANGED <<subscriptions, connectPromise, posts, stale>>
  BY DEF Disconnect
<1>2. /\ sources' \in Seq(Source) /\ Len(sources') = Len(sources)
      /\ \A x \in 1..Len(sources) : sources'[x].id = sources[x].id
      /\ clients' \in Seq((SUBSET Topic) \cup {Gone}) /\ Len(clients') = Len(clients)
  <2>1. CASE eventSource = 0
    BY <1>0, <2>1 DEF Disconnect
  <2>2. CASE eventSource # 0
    <3> DEFINE row == [sources[eventSource] EXCEPT !.state = "closed"]
    <3>1. /\ sources' = [sources EXCEPT ![eventSource] = row]
          /\ clients' = Dropped(sources[eventSource].id)
      BY <2>2 DEF Disconnect
    <3>2. sources[eventSource] \in Source /\ eventSource \in 1..Len(sources)
          /\ sources[eventSource].id \in 0..Len(clients)
      <4>1. eventSource \in 1..Len(sources)
        BY <1>0, <2>2
      <4> QED BY <1>0, <4>1 DEF Source
    <3>3. row \in Source /\ row.id = sources[eventSource].id
      BY <3>2 DEF Source
    <3> HIDE DEF row
    <3>4. /\ sources' \in Seq(Source) /\ Len(sources') = Len(sources)
          /\ \A x \in 1..Len(sources) : sources'[x].id = sources[x].id
      BY <1>0, <3>1, <3>2, <3>3
    <3>5. clients' \in Seq((SUBSET Topic) \cup {Gone}) /\ Len(clients') = Len(clients)
      BY <1>0, <3>1, <3>2 DEF Dropped
    <3> QED BY <3>4, <3>5
  <2> QED BY <2>1, <2>2
<1>3. RealtimeShape'
  <2>1. connectPromise' \in 0..Len(sources') /\ eventSource' \in 0..Len(sources')
        /\ clientId' \in 0..Len(clients')
    BY <1>0, <1>1, <1>2 DEF RealtimeShape
  <2>2. \A x \in 1..Len(sources') : sources'[x].id <= Len(clients')
    BY <1>0, <1>2
  <2>3. /\ posts' \in Seq(Post) /\ subscriptions' \in SUBSET Topic
        /\ \A i \in 1..Len(posts') : posts'[i].id \in 1..Len(clients')
        /\ registeredEventNames' \in SUBSET EventNames(Topic)
        /\ reconnectTimeout' \in BOOLEAN /\ stale' \in BOOLEAN
    BY <1>0, <1>1, <1>2 DEF RealtimeShape
  <2> QED BY <1>2, <2>1, <2>2, <2>3 DEF RealtimeShape
<1> QED BY <1>1, <1>3, NotCurrent DEF Current

\* onerror: the current source is closed, or, while a timer is set, the source
\* that erred has no id until its next handshake.
LEMMA OnErrorKeeps ==
  ASSUME RealtimeInv, NEW s \in 1..Len(sources), OnError(s)
  PROVE  RealtimeInv'
<1> DEFINE open == IF reconnectTimeout THEN {} ELSE {eventSource}
           row(x) == CASE x \in open -> [sources[x] EXCEPT !.state = "closed"]
                       [] x = s /\ x \notin open -> [sources[x] EXCEPT !.state = "opening", !.id = 0]
                       [] OTHER -> sources[x]
           dropped(id) == IF id = sources[s].id \/ (~reconnectTimeout /\ eventSource # 0
                                              /\ id = sources[eventSource].id)
                          THEN Gone ELSE clients[id]
<1>0. /\ RealtimeShape /\ sources \in Seq(Source) /\ eventSource \in 0..Len(sources)
      /\ connectPromise \in 0..Len(sources) /\ DOMAIN sources = 1..Len(sources)
      /\ clients \in Seq((SUBSET Topic) \cup {Gone}) /\ DOMAIN clients = 1..Len(clients)
      /\ Len(clients) \in Nat /\ Len(sources) \in Nat /\ clientId \in 0..Len(clients)
      /\ \A x \in 1..Len(sources) : sources[x] \in Source /\ sources[x].id <= Len(clients)
  BY DEF RealtimeInv, RealtimeShape
<1>1. /\ connectPromise' \in {0, connectPromise}
      /\ sources' = [x \in DOMAIN sources |-> row(x)]
      /\ clients' = [id \in DOMAIN clients |-> dropped(id)]
      /\ reconnectTimeout => UNCHANGED <<eventSource, clientId, registeredEventNames>>
      /\ ~reconnectTimeout => eventSource' = 0 /\ clientId' = 0 /\ registeredEventNames' = {}
      /\ reconnectTimeout' = TRUE
      /\ UNCHANGED <<subscriptions, posts, stale>>
  BY DEF OnError
<1>2. \A x \in 1..Len(sources) :
        /\ row(x) \in Source /\ row(x).id \in {0, sources[x].id}
        /\ reconnectTimeout /\ x = s => row(x).id = 0
  <2> TAKE x \in 1..Len(sources)
  <2>0. sources[x] \in Source
    BY <1>0
  <2>1. CASE x \in open
    <3>1. row(x) = [sources[x] EXCEPT !.state = "closed"] /\ ~reconnectTimeout
      BY <2>1
    <3> QED BY <2>0, <3>1 DEF Source
  <2>2. CASE x = s /\ x \notin open
    <3>1. row(x) = [sources[x] EXCEPT !.state = "opening", !.id = 0]
      BY <2>2
    <3>2. [sources[x] EXCEPT !.state = "opening", !.id = 0] \in Source
          /\ [sources[x] EXCEPT !.state = "opening", !.id = 0].id = 0
      BY <2>0 DEF Source
    <3> HIDE DEF row
    <3> QED BY <3>1, <3>2
  <2>3. CASE x # s /\ x \notin open
    <3>1. row(x) = sources[x]
      BY <2>3
    <3> HIDE DEF row
    <3> QED BY <2>0, <2>3, <3>1
  <2> QED BY <2>1, <2>2, <2>3
<1>3. \A id \in 1..Len(clients) :
        dropped(id) \in (SUBSET Topic) \cup {Gone} /\ dropped(id) \in {Gone, clients[id]}
  BY <1>0
<1> HIDE DEF row, dropped, open
<1>4. /\ sources' \in Seq(Source) /\ Len(sources') = Len(sources)
      /\ \A x \in 1..Len(sources) : sources'[x] = row(x)
  <2>1. sources' \in [1..Len(sources) -> Source]
    BY <1>0, <1>1, <1>2
  <2> QED BY <1>0, <1>1, <2>1
<1>5. /\ clients' \in Seq((SUBSET Topic) \cup {Gone}) /\ Len(clients') = Len(clients)
      /\ \A id \in 1..Len(clients) : clients'[id] = dropped(id)
  <2>1. clients' \in [1..Len(clients) -> (SUBSET Topic) \cup {Gone}]
    BY <1>0, <1>1, <1>3
  <2> QED BY <1>0, <1>1, <2>1
<1>6. \A x \in 1..Len(sources') : sources'[x].id <= Len(clients')
  BY <1>0, <1>2, <1>4, <1>5
<1>7. RealtimeShape'
  BY <1>0, <1>1, <1>4, <1>5, <1>6 DEF RealtimeShape
<1>8. CASE ~reconnectTimeout
  BY <1>1, <1>7, <1>8, NotCurrent DEF Current
<1>9. CASE reconnectTimeout
  <2>1. SUFFICES ASSUME Current' PROVE NewestIsCurrent' /\ AppliedIsCurrent'
    BY <1>7 DEF RealtimeInv
  <2>2. eventSource' = eventSource /\ clientId' = clientId /\ clientId # 0 /\ eventSource # 0
        /\ sources'[eventSource].id = clientId
    BY <1>1, <1>9, <2>1 DEF Current
  <2>3. eventSource \in 1..Len(sources) /\ clientId \in 1..Len(clients)
    BY <1>0, <2>2
  <2>4. sources[eventSource].id = clientId
    BY <1>2, <1>4, <2>2, <2>3
  <2>5. NewestIsCurrent /\ AppliedIsCurrent
    BY <2>2, <2>4 DEF RealtimeInv, Current
  <2>6. clients'[clientId] \in {Gone, clients[clientId]}
    BY <1>3, <1>5, <2>3
  <2> QED BY <1>1, <2>2, <2>5, <2>6 DEF NewestIsCurrent, AppliedIsCurrent
<1> QED BY <1>8, <1>9

\* connect(), by a timer or for a first topic: what it makes has no id yet.
LEMMA ConnectKeeps ==
  ASSUME RealtimeInv, NEW topics \in SUBSET Topic, Connect(topics),
         subscriptions' \in SUBSET Topic, reconnectTimeout' \in BOOLEAN,
         UNCHANGED <<clientId, posts, clients, stale>>,
         subscriptions' = subscriptions \/ ~IsConnected
  PROVE  RealtimeInv'
<1>0. /\ RealtimeShape /\ sources \in Seq(Source) /\ eventSource \in 0..Len(sources)
      /\ Len(sources) \in Nat /\ Len(clients) \in Nat
      /\ \A x \in 1..Len(sources) : sources[x] \in Source /\ sources[x].id <= Len(clients)
  BY DEF RealtimeInv, RealtimeShape
<1>1. CASE UNCHANGED <<sources, eventSource, connectPromise, registeredEventNames>>
  <2>1. RealtimeShape'
    BY <1>0, <1>1 DEF RealtimeShape
  <2>2. Current => IsConnected
    BY DEF Current, IsConnected
  <2>3. Current' = Current
    BY <1>1 DEF Current
  <2> QED BY <1>1, <2>1, <2>2, <2>3 DEF RealtimeInv, NewestIsCurrent, AppliedIsCurrent
<1>2. CASE /\ sources' \in Seq(Source) /\ Len(sources') = Len(sources) + 1
           /\ \A s \in 1..Len(sources) : sources'[s] = sources[s]
           /\ sources'[Len(sources) + 1].id = 0
           /\ eventSource' = Len(sources) + 1 /\ connectPromise' = Len(sources) + 1
           /\ registeredEventNames' \in SUBSET EventNames(Topic)
  <2>1. \A x \in 1..Len(sources') : sources'[x].id <= Len(clients')
    <3> TAKE x \in 1..Len(sources')
    <3>1. CASE x = Len(sources) + 1
      BY <1>0, <1>2, <3>1
    <3>2. CASE x # Len(sources) + 1
      <4>1. x \in 1..Len(sources)
        BY <1>0, <1>2, <3>2
      <4> QED BY <1>0, <1>2, <4>1
    <3> QED BY <3>1, <3>2
  <2>2. RealtimeShape'
    BY <1>0, <1>2, <2>1 DEF RealtimeShape
  <2>3. ~Current'
    BY <1>2 DEF Current
  <2> QED BY <2>2, <2>3, NotCurrent
<1> QED BY <1>0, <1>1, <1>2, ConnectMakes

\* subscribe and unsubscribe: the change is sent while there is a connection.
LEMMA SubscribeKeeps ==
  ASSUME RealtimeInv, NEW t \in Topic, Subscribe(t)
  PROVE  RealtimeInv'
<1>0. /\ RealtimeShape /\ sources \in Seq(Source) /\ eventSource \in 0..Len(sources)
      /\ Len(sources) \in Nat /\ Len(clients) \in Nat /\ clientId \in 0..Len(clients)
      /\ subscriptions \in SUBSET Topic /\ registeredEventNames \in SUBSET EventNames(Topic)
      /\ \A x \in 1..Len(sources) : sources[x] \in Source /\ sources[x].id <= Len(clients)
  BY DEF RealtimeInv, RealtimeShape
<1>1. subscriptions' \in SUBSET Topic /\ UNCHANGED <<clientId, reconnectTimeout, clients>>
  BY <1>0 DEF Subscribe
<1>2. CASE ~IsConnected
  <2>1. Connect(subscriptions') /\ UNCHANGED <<posts, stale>> /\ reconnectTimeout' \in BOOLEAN
    BY <1>0, <1>1, <1>2 DEF Subscribe, RealtimeShape
  <2> QED BY <1>1, <1>2, <2>1, ConnectKeeps
<1>3. CASE IsConnected
  <2> DEFINE row == [sources[eventSource] EXCEPT
                       !.bound = @ \cup (EventNames({t}) \ registeredEventNames)]
  <2>1. /\ sources' = [sources EXCEPT ![eventSource] = row]
        /\ registeredEventNames' = registeredEventNames \cup EventNames({t})
        /\ SyncSubscriptions(clientId, subscriptions', 0)
        /\ UNCHANGED <<eventSource, connectPromise>>
    BY <1>3 DEF Subscribe, BindTopicListeners
  <2>2. eventSource \in 1..Len(sources) /\ clientId \in Nat \ {0}
    BY <1>0, <1>3 DEF IsConnected
  <2>3. EventNames({t}) \in SUBSET EventNames(Topic)
    BY DEF EventNames
  <2>4. row \in Source /\ row.id = sources[eventSource].id
    <3>1. sources[eventSource] \in Source
      BY <1>0, <2>2
    <3> QED BY <2>3, <3>1 DEF Source
  <2> HIDE DEF row
  <2>5. /\ sources' \in Seq(Source) /\ Len(sources') = Len(sources)
        /\ \A x \in 1..Len(sources) : sources'[x].id = sources[x].id
    BY <1>0, <2>1, <2>2, <2>4
  <2>6. /\ posts' \in Seq(Post) /\ stale' \in BOOLEAN
        /\ \A i \in 1..Len(posts') : posts'[i].id \in 1..Len(clients')
    <3>1. clientId <= Len(clients') /\ Len(clients) <= Len(clients') /\ Len(clients') \in Nat
      BY <1>0, <1>1
    <3>2. clientId \in Nat /\ clientId # 0 /\ 0 \in Nat
      BY <2>2
    <3> QED BY <1>0, <1>1, <2>1, <3>1, <3>2, SentIds
  <2>7. RealtimeShape'
    BY <1>0, <1>1, <2>1, <2>3, <2>5, <2>6 DEF RealtimeShape
  <2>8. NewestIsCurrent' /\ AppliedIsCurrent'
    <3>1. clientId \in Nat /\ clientId # 0 /\ 0 \in Nat /\ clientId = clientId'
      BY <1>1, <2>2
    <3> QED BY <1>0, <1>1, <2>1, <3>1, SentIsCurrent
  <2> QED BY <2>7, <2>8 DEF RealtimeInv
<1> QED BY <1>2, <1>3

\* unsubscribe, likewise.
LEMMA UnsubscribeKeeps ==
  ASSUME RealtimeInv, NEW t \in Topic, Unsubscribe(t)
  PROVE  RealtimeInv'
<1>0. /\ RealtimeShape /\ Len(clients) \in Nat /\ clientId \in 0..Len(clients)
      /\ subscriptions \in SUBSET Topic
  BY DEF RealtimeInv, RealtimeShape
<1>1. /\ subscriptions' \in SUBSET Topic
      /\ UNCHANGED <<sources, eventSource, clientId, connectPromise,
                     registeredEventNames, reconnectTimeout, clients>>
  BY <1>0 DEF Unsubscribe
<1>2. CASE ~IsConnected
  <2>1. UNCHANGED <<posts, stale>>
    BY <1>2 DEF Unsubscribe
  <2>2. RealtimeShape'
    BY <1>0, <1>1, <2>1 DEF RealtimeShape
  <2>3. ~Current'
    BY <1>1, <1>2 DEF Current, IsConnected
  <2> QED BY <2>2, <2>3, NotCurrent
<1>3. CASE IsConnected
  <2>1. SyncSubscriptions(clientId, subscriptions', 0)
    BY <1>3 DEF Unsubscribe
  <2>2. clientId \in Nat /\ clientId # 0 /\ 0 \in Nat /\ clientId = clientId'
        /\ clientId <= Len(clients') /\ Len(clients) <= Len(clients') /\ Len(clients') \in Nat
    BY <1>0, <1>1, <1>3 DEF IsConnected
  <2>3. /\ posts' \in Seq(Post) /\ stale' \in BOOLEAN
        /\ \A i \in 1..Len(posts') : posts'[i].id \in 1..Len(clients')
    BY <1>0, <1>1, <2>1, <2>2, SentIds
  <2>4. RealtimeShape'
    BY <1>0, <1>1, <2>3 DEF RealtimeShape
  <2>5. NewestIsCurrent' /\ AppliedIsCurrent'
    BY <1>0, <1>1, <2>1, <2>2, SentIsCurrent
  <2> QED BY <2>4, <2>5 DEF RealtimeInv
<1> QED BY <1>2, <1>3

\* Every step keeps what is on its way, or arrived, that of this moment.
LEMMA RealtimeInvStep == RealtimeInv /\ [RealtimeNext]_realtimeVars => RealtimeInv'
<1> SUFFICES ASSUME RealtimeInv, [RealtimeNext]_realtimeVars PROVE RealtimeInv'
  OBVIOUS
<1>0. DOMAIN sources = 1..Len(sources) /\ DOMAIN posts = 1..Len(posts)
  BY DEF RealtimeInv, RealtimeShape
<1>1. ASSUME NEW t \in Topic, Subscribe(t) \/ Unsubscribe(t)
      PROVE  RealtimeInv'
  BY <1>1, SubscribeKeeps, UnsubscribeKeeps
<1>2. ASSUME NEW s \in DOMAIN sources, HandleConnect(s) \/ HandleConnectAgain(s) \/ OnError(s)
      PROVE  RealtimeInv'
  BY <1>0, <1>2, HandleConnectKeeps, HandleConnectAgainKeeps, OnErrorKeeps
<1>3. ASSUME NEW i \in DOMAIN posts, SetSubscriptions(i) \/ PostFails(i)
      PROVE  RealtimeInv'
  BY <1>0, <1>3, SetSubscriptionsKeeps, PostFailsKeeps
<1>4. CASE Reconnect
  <2>0. RealtimeShape /\ subscriptions \in SUBSET Topic
    BY DEF RealtimeInv, RealtimeShape
  <2>1. /\ reconnectTimeout' = FALSE
        /\ UNCHANGED <<subscriptions, clientId, posts, clients, stale>>
    BY <1>4 DEF Reconnect
  <2>2. CASE subscriptions # {}
    <3>1. Connect(subscriptions)
      BY <1>4, <2>2 DEF Reconnect
    <3> QED BY <2>0, <2>1, <3>1, ConnectKeeps
  <2>3. CASE subscriptions = {}
    <3>1. UNCHANGED <<sources, eventSource, connectPromise, registeredEventNames>>
      BY <1>4, <2>3 DEF Reconnect
    <3>2. RealtimeShape' /\ Current' = Current
      BY <2>0, <2>1, <3>1 DEF RealtimeShape, Current
    <3> QED BY <2>1, <3>2 DEF RealtimeInv, NewestIsCurrent, AppliedIsCurrent
  <2> QED BY <2>2, <2>3
<1>5. CASE Disconnect
  BY <1>5, DisconnectKeeps
<1>6. CASE UNCHANGED realtimeVars
  <2>1. RealtimeShape' /\ Current' = Current
    BY <1>6 DEF realtimeVars, RealtimeInv, RealtimeShape, Current
  <2> QED BY <1>6, <2>1 DEF realtimeVars, RealtimeInv, NewestIsCurrent, AppliedIsCurrent
<1> QED BY <1>1, <1>2, <1>3, <1>4, <1>5, <1>6, Zenon DEF RealtimeNext

\* The types follow from the shape.
LEMMA RealtimeTypes == RealtimeInv => RealtimeTypeOK
<1> SUFFICES ASSUME RealtimeInv PROVE RealtimeTypeOK
  OBVIOUS
<1>1. \A s \in DOMAIN sources : /\ sources[s] \in Source /\ sources[s].id <= Len(clients)
                                /\ Len(clients) \in Nat
  BY DEF RealtimeInv, RealtimeShape
<1>2. \A s \in DOMAIN sources : /\ sources[s].state \in {"opening", "greeted", "open", "closed"}
                                /\ sources[s].bound \subseteq EventNames(Topic)
                                /\ sources[s].id \in 0..Len(clients)
  BY <1>1 DEF Source
<1> QED BY <1>2 DEF RealtimeInv, RealtimeShape, RealtimeTypeOK

(* Once nothing is in flight, the server has the topics of the client, for    *)
(* any topics, any number of streams that err and reconnect by themselves, and *)
(* any order in which POSTs are answered, but for the two cases that the       *)
(* property names.                                                           *)
THEOREM ServerHasTheTopics == RealtimeSpec => [](RealtimeTypeOK /\ ServerKnowsTopics)
<1>1. RealtimeInit => RealtimeInv
  <2>1. /\ <<>> \in Seq(Source) /\ <<>> \in Seq(Post) /\ <<>> \in Seq((SUBSET Topic) \cup {Gone})
    OBVIOUS
  <2>2. RealtimeInit => RealtimeShape
    <3> SUFFICES ASSUME RealtimeInit PROVE RealtimeShape
      OBVIOUS
    <3>1. sources = <<>> /\ posts = <<>> /\ clients = <<>> /\ eventSource = 0 /\ clientId = 0
          /\ connectPromise = 0 /\ subscriptions = {} /\ registeredEventNames = {}
          /\ reconnectTimeout = FALSE /\ stale = FALSE
      BY DEF RealtimeInit
    <3>2. Len(sources) = 0 /\ Len(posts) = 0 /\ Len(clients) = 0
      BY <3>1
    <3>3. 0 \in 0..0 /\ \A i \in 1..0 : FALSE
      OBVIOUS
    <3> QED BY <2>1, <3>1, <3>2, <3>3 DEF RealtimeShape
  <2>3. RealtimeInit => ~Current
    BY DEF RealtimeInit, Current
  <2> QED BY <2>2, <2>3 DEF RealtimeInv
<1>2. RealtimeInv /\ [RealtimeNext]_realtimeVars => RealtimeInv'
  BY RealtimeInvStep
<1>3. RealtimeInv => ServerKnowsTopics
  <2> SUFFICES ASSUME RealtimeInv, Current, posts = <<>>, ~stale, clients[clientId] # Gone
               PROVE  clients[clientId] = subscriptions
    BY DEF ServerKnowsTopics
  <2>1. \A i \in 1..Len(posts) : ~posts[i].newest
    OBVIOUS
  <2> QED BY <2>1 DEF RealtimeInv, AppliedIsCurrent
<1> QED BY <1>1, <1>2, <1>3, RealtimeTypes, PTL DEF RealtimeSpec

-----------------------------------------------------------------------------
(* The event bus (EventBus).  A dispatch has before it the hooks of its list  *)
(* behind the place it has reached; what is due is called, or there, or was    *)
(* skipped by a splice.                                                      *)

DispatchRow == [active : BOOLEAN, detached : BOOLEAN, own : Seq(Nat), at : Nat,
                called : Seq(Nat), due : SUBSET Nat, spliced : Nat]

Ahead(list, at) == {list[k] : k \in at + 1..Len(list)}

\* Hooks are numbered as they subscribe, n so far, and every list keeps that order.
Ascending(list, n) ==
  /\ list \in Seq(Nat)
  /\ \A i \in 1..Len(list) : list[i] \in 1..n
  /\ \A i, j \in 1..Len(list) : i < j => list[i] < list[j]

Missed(e, list) == e.due \ (ToSet(e.called) \cup Ahead(list, e.at))

\* Of a dispatch under way with the list it goes through.
GoesOn(e, list, n) ==
  /\ \A h \in Ahead(list, e.at) : \A i \in 1..Len(e.called) : e.called[i] < h
  /\ Cardinality(Missed(e, list)) <= e.spliced
  /\ e.at <= n

DispatchOK(e, list, n) ==
  /\ e \in DispatchRow
  /\ Ascending(e.own, n) /\ Ascending(e.called, n) /\ Len(e.own) <= n
  /\ e.due \subseteq 1..n
  /\ e.at <= n + 1
  /\ IF e.active THEN GoesOn(e, list, n)
     ELSE Cardinality(e.due \ ToSet(e.called)) <= e.spliced

BusInv ==
  /\ subscribed \in Nat /\ Ascending(hooks, subscribed) /\ Len(hooks) <= subscribed
  /\ DOMAIN dispatch = Dispatch
  /\ \A d \in Dispatch : DispatchOK(dispatch[d], List(d), subscribed)

\* What is ahead after a hook is taken out of the list, before or at the place
\* that was reached, or behind it.
LEMMA AheadOfRemoved ==
  ASSUME NEW s \in Seq(Nat), NEW i \in 1..Len(s), NEW at \in Nat
  PROVE  /\ Ahead(RemoveAt(s, i), at) \subseteq Ahead(s, at)
         /\ i > at => Ahead(s, at) \subseteq Ahead(RemoveAt(s, i), at) \cup {s[i]}
         /\ i <= at => Ahead(s, at) \subseteq Ahead(RemoveAt(s, i), at) \cup {s[at + 1]}
<1> DEFINE r == RemoveAt(s, i)
<1>1. /\ r \in Seq(Nat) /\ Len(r) = Len(s) - 1 /\ Len(s) \in Nat
      /\ \A j \in 1..Len(s) - 1 : r[j] = s[IF j < i THEN j ELSE j + 1]
  <2> HIDE DEF r
  <2>1. Len(s) \in Nat
    OBVIOUS
  <2>2. /\ RemoveAt(s, i) \in Seq(Nat) /\ Len(RemoveAt(s, i)) = Len(s) - 1
        /\ \A j \in 1..Len(s) - 1 : RemoveAt(s, i)[j] = s[IF j < i THEN j ELSE j + 1]
    BY RemoveAtElements, Zenon
  <2> QED BY <2>1, <2>2, Zenon DEF r
<1> HIDE DEF r
<1>2. ASSUME NEW k \in at + 1..Len(r)
      PROVE  r[k] \in Ahead(s, at)
  <2>1. /\ k \in 1..Len(s) - 1
        /\ (IF k < i THEN k ELSE k + 1) \in at + 1..Len(s)
    BY <1>1
  <2> QED BY <1>1, <2>1 DEF Ahead
<1>3. ASSUME NEW k \in at + 1..Len(s), k # i, k < i \/ k # at + 1
      PROVE  s[k] \in Ahead(r, at)
  <2>1. CASE k < i
    <3>1. k \in 1..Len(s) - 1 /\ k \in at + 1..Len(r)
      BY <1>1, <2>1
    <3> QED BY <1>1, <2>1, <3>1 DEF Ahead
  <2>2. CASE ~(k < i)
    <3>1. k - 1 \in 1..Len(s) - 1 /\ k - 1 \in at + 1..Len(r) /\ ~(k - 1 < i) /\ (k - 1) + 1 = k
      BY <1>1, <1>3, <2>2
    <3>2. r[k - 1] = s[k]
      BY <1>1, <3>1
    <3> QED BY <3>1, <3>2 DEF Ahead
  <2> QED BY <2>1, <2>2
<1>4. Ahead(r, at) \subseteq Ahead(s, at)
  BY <1>2 DEF Ahead
<1>5. ASSUME i > at
      PROVE  Ahead(s, at) \subseteq Ahead(r, at) \cup {s[i]}
  <2> SUFFICES ASSUME NEW k \in at + 1..Len(s), k # i PROVE s[k] \in Ahead(r, at)
    BY DEF Ahead
  <2>1. CASE k < i
    BY <1>3, <2>1
  <2>2. CASE k > i
    <3>1. k # at + 1
      BY <1>5, <2>2
    <3> QED BY <1>3, <3>1
  <2>3. k < i \/ k > i
    OBVIOUS
  <2> QED BY <2>1, <2>2, <2>3
<1>6. ASSUME i <= at
      PROVE  Ahead(s, at) \subseteq Ahead(r, at) \cup {s[at + 1]}
  <2> SUFFICES ASSUME NEW k \in at + 1..Len(s), k # at + 1 PROVE s[k] \in Ahead(r, at)
    BY DEF Ahead
  <2>1. k # i
    BY <1>6
  <2> QED BY <1>3, <2>1
<1> QED BY <1>4, <1>5, <1>6 DEF r

\* One more hook, and one step further.
LEMMA AheadOfAppended ==
  ASSUME NEW s \in Seq(Nat), NEW h \in Nat, NEW at \in Nat
  PROVE  /\ Ahead(s, at) \subseteq Ahead(Append(s, h), at)
         /\ Ahead(Append(s, h), at) \subseteq Ahead(s, at) \cup {h}
<1> DEFINE r == Append(s, h)
<1>1. /\ Len(s) \in Nat /\ Len(r) = Len(s) + 1 /\ r[Len(s) + 1] = h
      /\ \A k \in 1..Len(s) : r[k] = s[k]
  OBVIOUS
<1> HIDE DEF r
<1>2. ASSUME NEW k \in at + 1..Len(s)
      PROVE  s[k] \in Ahead(r, at)
  <2>1. k \in 1..Len(s) /\ k \in at + 1..Len(r)
    BY <1>1
  <2> QED BY <1>1, <2>1 DEF Ahead
<1>3. ASSUME NEW k \in at + 1..Len(r), r[k] # h
      PROVE  r[k] \in Ahead(s, at)
  <2>1. k \in 1..Len(s) /\ k \in at + 1..Len(s)
    BY <1>1, <1>3
  <2> QED BY <1>1, <2>1 DEF Ahead
<1> QED BY <1>2, <1>3 DEF Ahead, r

(* Past the place of one hook, it alone is no longer ahead.                    *)
LEMMA AheadOfNext ==
  ASSUME NEW s \in Seq(Nat), NEW at \in Nat
  PROVE  /\ at + 1 > Len(s) => Ahead(s, at) = {}
         /\ at + 1 <= Len(s) => Ahead(s, at) = Ahead(s, at + 1) \cup {s[at + 1]}
<1>1. Len(s) \in Nat
  OBVIOUS
<1>2. ASSUME at + 1 <= Len(s)
      PROVE  Ahead(s, at) = Ahead(s, at + 1) \cup {s[at + 1]}
  <2>1. at + 1..Len(s) = (at + 1 + 1..Len(s)) \cup {at + 1}
    BY <1>1, <1>2
  <2> QED BY <2>1 DEF Ahead
<1>3. ASSUME at + 1 > Len(s)
      PROVE  Ahead(s, at) = {}
  <2>1. at + 1..Len(s) = {}
    BY <1>1, <1>3
  <2> QED BY <2>1 DEF Ahead
<1> QED BY <1>2, <1>3

\* A set within a finite one, or with one element more.
LEMMA AtMostOneMore ==
  ASSUME NEW S, NEW T, NEW x, IsFiniteSet(T)
  PROVE  /\ S \subseteq T => Cardinality(S) <= Cardinality(T)
         /\ S \subseteq T \cup {x} => Cardinality(S) <= Cardinality(T) + 1
         /\ Cardinality(T) \in Nat
<1>1. Cardinality(T) \in Nat
  BY FS_CardinalityType
<1>2. S \subseteq T => Cardinality(S) <= Cardinality(T)
  BY FS_Subset
<1>3. /\ IsFiniteSet(T \cup {x}) /\ Cardinality(T \cup {x}) \in Nat
      /\ Cardinality(T \cup {x}) <= Cardinality(T) + 1
  BY <1>1, FS_AddElement, FS_CardinalityType
<1>4. ASSUME S \subseteq T \cup {x}
      PROVE  Cardinality(S) <= Cardinality(T) + 1
  <2>1. IsFiniteSet(S) /\ Cardinality(S) <= Cardinality(T \cup {x})
    BY <1>3, <1>4, FS_Subset
  <2>2. Cardinality(S) \in Nat
    BY <2>1, FS_CardinalityType
  <2> QED BY <1>1, <1>3, <2>1, <2>2
<1> QED BY <1>1, <1>2, <1>4

\* What is due and not yet called or ahead is a finite set.
LEMMA MissedIsFinite ==
  ASSUME NEW n \in Nat, NEW e, e.due \subseteq 1..n, NEW list
  PROVE  IsFiniteSet(Missed(e, list)) /\ IsFiniteSet(e.due \ ToSet(e.called))
<1>1. IsFiniteSet(1..n)
  BY FS_Interval
<1> QED BY <1>1, FS_Subset DEF Missed

\* A dispatch goes on when less is ahead of it that is not due: one hook more may
\* be missed for one more splice.
LEMMA ShorterList ==
  ASSUME NEW n \in Nat, NEW e, NEW f, NEW list, NEW next, NEW x,
         DispatchOK(e, list, n), e.active,
         f.at = e.at, f.called = e.called, f.due \subseteq e.due,
         Ahead(next, e.at) \subseteq Ahead(list, e.at),
         \/ /\ f.spliced = e.spliced
            /\ Ahead(list, e.at) \subseteq Ahead(next, e.at) \cup {x} /\ x \notin f.due
         \/ /\ f.spliced = e.spliced + 1
            /\ Ahead(list, e.at) \subseteq Ahead(next, e.at) \cup {x}
  PROVE  GoesOn(f, next, n)
<1>1. /\ e.due \subseteq 1..n /\ e.spliced \in Nat /\ e \in DispatchRow
      /\ GoesOn(e, list, n)
  BY DEF DispatchOK, DispatchRow
<1>2. IsFiniteSet(Missed(e, list))
  BY <1>1, MissedIsFinite
<1>3. Missed(f, next) \subseteq Missed(e, list) \cup {x}
  BY DEF Missed
<1>4. x \notin f.due => Missed(f, next) \subseteq Missed(e, list)
  BY <1>3 DEF Missed
<1>5. Cardinality(Missed(f, next)) <= f.spliced
  <2>1. Cardinality(Missed(e, list)) <= e.spliced
    BY <1>1 DEF GoesOn
  <2>2. /\ Cardinality(Missed(f, next)) <= Cardinality(Missed(e, list)) + 1
        /\ x \notin f.due => Cardinality(Missed(f, next)) <= Cardinality(Missed(e, list))
        /\ Cardinality(Missed(e, list)) \in Nat
    BY <1>2, <1>3, <1>4, AtMostOneMore
  <2>3. IsFiniteSet(Missed(f, next)) /\ Cardinality(Missed(f, next)) \in Nat
    <3>1. f.due \subseteq 1..n
      BY <1>1
    <3> QED BY <3>1, MissedIsFinite, FS_CardinalityType
  <2>4. f.spliced \in Nat
    BY <1>1
  <2> QED BY <1>1, <2>1, <2>2, <2>3, <2>4
<1> QED BY <1>1, <1>5 DEF GoesOn

\* A dispatch that has ended: only what is due of it changes.
LEMMA EndedStays ==
  ASSUME NEW n \in Nat, NEW e, NEW f, NEW list,
         DispatchOK(e, list, n), ~e.active,
         f.called = e.called, f.due \subseteq e.due, f.spliced = e.spliced
  PROVE  Cardinality(f.due \ ToSet(f.called)) <= f.spliced
<1>1. /\ e.due \subseteq 1..n /\ e.spliced \in Nat
      /\ Cardinality(e.due \ ToSet(e.called)) <= e.spliced
  BY DEF DispatchOK, DispatchRow
<1>2. IsFiniteSet(e.due \ ToSet(e.called))
  BY <1>1, MissedIsFinite
<1>3. /\ f.due \ ToSet(f.called) \subseteq e.due \ ToSet(e.called)
      /\ Cardinality(f.due \ ToSet(f.called)) \in Nat
  BY <1>1, MissedIsFinite, FS_CardinalityType
<1>4. /\ Cardinality(f.due \ ToSet(f.called)) <= Cardinality(e.due \ ToSet(e.called))
      /\ Cardinality(e.due \ ToSet(e.called)) \in Nat
  BY <1>2, <1>3, AtMostOneMore
<1> QED BY <1>1, <1>3, <1>4

\* Removing a hook leaves a list that is ascending.
LEMMA RemovedAscends ==
  ASSUME NEW n \in Nat, NEW list, Ascending(list, n), NEW i \in 1..Len(list)
  PROVE  Ascending(RemoveAt(list, i), n) /\ Len(RemoveAt(list, i)) = Len(list) - 1
<1> DEFINE r == RemoveAt(list, i)
           at(j) == IF j < i THEN j ELSE j + 1
<1>1. list \in Seq(Nat) /\ Len(list) \in Nat
  BY DEF Ascending
<1>2. /\ r \in Seq(Nat) /\ Len(r) = Len(list) - 1
      /\ \A j \in 1..Len(list) - 1 : r[j] = list[at(j)]
  <2> HIDE DEF r
  <2>1. /\ RemoveAt(list, i) \in Seq(Nat) /\ Len(RemoveAt(list, i)) = Len(list) - 1
        /\ \A j \in 1..Len(list) - 1 : RemoveAt(list, i)[j] = list[IF j < i THEN j ELSE j + 1]
    BY <1>1, RemoveAtElements, Zenon
  <2> QED BY <2>1, Zenon DEF r
<1> HIDE DEF r
<1>3. \A j \in 1..Len(list) - 1 : at(j) \in 1..Len(list)
  BY <1>1
<1>4. \A j, k \in 1..Len(list) - 1 : j < k => at(j) < at(k)
  BY <1>1
<1> HIDE DEF at
<1>5. Ascending(r, n)
  <2>1. \A j \in 1..Len(r) : r[j] \in 1..n
    BY <1>2, <1>3 DEF Ascending
  <2>2. \A j, k \in 1..Len(r) : j < k => r[j] < r[k]
    BY <1>2, <1>3, <1>4 DEF Ascending
  <2> QED BY <1>2, <2>1, <2>2 DEF Ascending
<1> QED BY <1>2, <1>5 DEF r

\* With more hooks ever subscribed, all else equal, all stays as it was.
LEMMA MoreSubscribed ==
  ASSUME NEW n \in Nat, NEW list
  PROVE  /\ Ascending(list, n) => Ascending(list, n + 1)
         /\ \A e : DispatchOK(e, list, n) => DispatchOK(e, list, n + 1)
<1>1. 1..n \subseteq 1..n + 1
  OBVIOUS
<1>2. \A s : Ascending(s, n) => Ascending(s, n + 1)
  BY <1>1 DEF Ascending
<1>3. ASSUME NEW e, DispatchOK(e, list, n)
      PROVE  DispatchOK(e, list, n + 1)
  <2>1. e.at \in Nat /\ Len(e.own) \in Nat
    BY <1>3 DEF DispatchOK, DispatchRow
  <2>2. e.at <= n + 1 + 1 /\ Len(e.own) <= n + 1 /\ (e.at <= n => e.at <= n + 1)
    BY <1>3, <2>1 DEF DispatchOK
  <2>3. GoesOn(e, list, n) => GoesOn(e, list, n + 1)
    BY <2>2 DEF GoesOn
  <2> QED BY <1>1, <1>2, <1>3, <2>2, <2>3 DEF DispatchOK
<1> QED BY <1>2, <1>3

\* A hook more is ahead of every dispatch, and due of none.
LEMMA OnKeeps == BusInv /\ On => BusInv'
<1> SUFFICES ASSUME BusInv, On PROVE BusInv'
  OBVIOUS
<1> DEFINE n == subscribed
<1>1. /\ n \in Nat /\ Ascending(hooks, n) /\ hooks \in Seq(Nat) /\ Len(hooks) \in Nat /\ Len(hooks) <= n
      /\ \A d \in Dispatch : DispatchOK(dispatch[d], List(d), n)
  BY DEF BusInv, Ascending
<1>2. subscribed' = n + 1 /\ hooks' = Append(hooks, n + 1) /\ dispatch' = dispatch
  BY DEF On, Subscribed
<1>3. Ascending(hooks, n + 1)
  BY <1>1, MoreSubscribed
<1>4. /\ hooks' \in Seq(Nat) /\ Len(hooks') = Len(hooks) + 1 /\ hooks'[Len(hooks) + 1] = n + 1
      /\ \A i \in 1..Len(hooks) : hooks'[i] = hooks[i]
  BY <1>1, <1>2
<1>5. Ascending(hooks', n + 1) /\ Len(hooks') <= n + 1
  <2>1. \A i \in 1..Len(hooks) : hooks[i] \in 1..n
    BY <1>1 DEF Ascending
  <2>2. ASSUME NEW i \in 1..Len(hooks')
        PROVE  hooks'[i] \in 1..n + 1 /\ (i # Len(hooks) + 1 => i \in 1..Len(hooks) /\ hooks'[i] \in 1..n)
    <3>1. CASE i = Len(hooks) + 1
      BY <1>1, <1>4, <3>1
    <3>2. CASE i # Len(hooks) + 1
      <4>1. i \in 1..Len(hooks)
        BY <1>1, <1>4, <3>2
      <4>2. hooks'[i] \in 1..n
        BY <1>4, <2>1, <4>1
      <4> QED BY <1>1, <4>1, <4>2
    <3> QED BY <3>1, <3>2
  <2>3. ASSUME NEW i \in 1..Len(hooks'), NEW j \in 1..Len(hooks'), i < j
        PROVE  hooks'[i] < hooks'[j]
    <3>1. i \in 1..Len(hooks) /\ hooks'[i] \in 1..n
      BY <1>1, <1>4, <2>2, <2>3
    <3>2. CASE j = Len(hooks) + 1
      BY <1>1, <1>4, <3>1, <3>2
    <3>3. CASE j # Len(hooks) + 1
      BY <1>1, <1>4, <2>2, <2>3, <3>1, <3>3 DEF Ascending
    <3> QED BY <3>2, <3>3
  <2> QED BY <1>1, <1>4, <2>2, <2>3 DEF Ascending
<1>6. ASSUME NEW d \in Dispatch
      PROVE  DispatchOK(dispatch[d], List(d)', n + 1)
  <2> DEFINE e == dispatch[d]
  <2>1. DispatchOK(e, List(d), n) /\ DispatchOK(e, List(d), n + 1)
    BY <1>1, MoreSubscribed
  <2>2. CASE e.active /\ ~e.detached
    <3>1. List(d)' = Append(hooks, n + 1) /\ List(d) = hooks
      BY <1>2, <2>2 DEF List
    <3>2. /\ Ahead(hooks, e.at) \subseteq Ahead(Append(hooks, n + 1), e.at)
          /\ Ahead(Append(hooks, n + 1), e.at) \subseteq Ahead(hooks, e.at) \cup {n + 1}
      <4>1. e.at \in Nat
        BY <2>1 DEF DispatchOK, DispatchRow
      <4> QED BY <1>1, <4>1, AheadOfAppended
    <3>3. /\ GoesOn(e, hooks, n + 1) /\ e.called \in Seq(Nat) /\ e.spliced \in Nat
          /\ \A i \in 1..Len(e.called) : e.called[i] \in 1..n
          /\ e.due \subseteq 1..n
      BY <2>1, <2>2, <3>1 DEF DispatchOK, DispatchRow, Ascending
    <3>4. \A h \in Ahead(Append(hooks, n + 1), e.at) : \A i \in 1..Len(e.called) : e.called[i] < h
      <4> SUFFICES ASSUME NEW h \in Ahead(Append(hooks, n + 1), e.at),
                          NEW i \in 1..Len(e.called)
                   PROVE  e.called[i] < h
        OBVIOUS
      <4>1. CASE h = n + 1
        BY <1>1, <3>3, <4>1
      <4>2. CASE h # n + 1
        BY <3>2, <3>3, <4>2 DEF GoesOn
      <4> QED BY <4>1, <4>2
    <3>5. Cardinality(Missed(e, Append(hooks, n + 1))) <= e.spliced
      <4>1. /\ IsFiniteSet(Missed(e, hooks)) /\ IsFiniteSet(Missed(e, Append(hooks, n + 1)))
            /\ Cardinality(Missed(e, Append(hooks, n + 1))) \in Nat
        BY <1>1, <3>3, MissedIsFinite, FS_CardinalityType
      <4>2. Missed(e, Append(hooks, n + 1)) \subseteq Missed(e, hooks)
        BY <3>2 DEF Missed
      <4>3. /\ Cardinality(Missed(e, Append(hooks, n + 1))) <= Cardinality(Missed(e, hooks))
            /\ Cardinality(Missed(e, hooks)) \in Nat
        BY <4>1, <4>2, AtMostOneMore
      <4> QED BY <3>3, <4>1, <4>3 DEF GoesOn
    <3>6. GoesOn(e, Append(hooks, n + 1), n + 1)
      BY <3>3, <3>4, <3>5 DEF GoesOn
    <3> QED BY <2>1, <2>2, <3>1, <3>6 DEF DispatchOK
  <2>3. CASE e.active /\ e.detached
    <3>1. List(d)' = List(d)
      BY <1>2, <2>3 DEF List
    <3> QED BY <2>1, <3>1
  <2>4. CASE ~e.active
    BY <2>1, <2>4 DEF DispatchOK
  <2> QED BY <2>2, <2>3, <2>4
<1>7. DOMAIN dispatch' = Dispatch
  BY <1>2 DEF BusInv
<1> QED BY <1>1, <1>2, <1>5, <1>6, <1>7 DEF BusInv

\* An unsubscription, by a splice or by another list.
LEMMA CallUnsubscriberKeeps ==
  ASSUME BusInv, NEW i \in 1..Len(hooks), CallUnsubscriber(i)
  PROVE  BusInv'
<1> DEFINE n == subscribed
           r == RemoveAt(hooks, i)
<1>1. /\ n \in Nat /\ Ascending(hooks, n) /\ hooks \in Seq(Nat) /\ Len(hooks) \in Nat /\ Len(hooks) <= n
      /\ \A d \in Dispatch : DispatchOK(dispatch[d], List(d), n)
  BY DEF BusInv, Ascending
<1>2. /\ hooks' = r /\ subscribed' = n
      /\ dispatch' = [d \in Dispatch |->
           [dispatch[d] EXCEPT !.due = @ \ {hooks[i]},
              !.spliced = IF dispatch[d].active /\ ~dispatch[d].detached /\ i <= dispatch[d].at
                          THEN @ + 1 ELSE @]]
  BY DEF CallUnsubscriber
<1>3. Ascending(r, n) /\ Len(r) = Len(hooks) - 1
  BY <1>1, RemovedAscends
<1> HIDE DEF r
<1>4. ASSUME NEW d \in Dispatch
      PROVE  DispatchOK(dispatch'[d], List(d)', n)
  <2> DEFINE e == dispatch[d]
             f == dispatch'[d]
             counted == e.active /\ ~e.detached /\ i <= e.at
  <2> SUFFICES DispatchOK(f, List(d)', n)
    OBVIOUS
  <2>0. DispatchOK(e, List(d), n) /\ e \in DispatchRow /\ e.at \in Nat /\ e.due \subseteq 1..n
    BY <1>1 DEF DispatchOK, DispatchRow
  <2>1. f = [e EXCEPT !.due = @ \ {hooks[i]}, !.spliced = IF counted THEN @ + 1 ELSE @]
    BY <1>2
  <2>2. f \in DispatchRow
    <3>1. (IF counted THEN e.spliced + 1 ELSE e.spliced) \in Nat /\ e.due \ {hooks[i]} \in SUBSET Nat
      BY <2>0 DEF DispatchRow
    <3> HIDE DEF counted
    <3> QED BY <2>0, <2>1, <3>1 DEF DispatchRow
  <2>3. /\ f.active = e.active /\ f.detached = e.detached /\ f.own = e.own /\ f.at = e.at
        /\ f.called = e.called /\ f.due = e.due \ {hooks[i]}
        /\ f.spliced = IF counted THEN e.spliced + 1 ELSE e.spliced
    <3> HIDE DEF counted
    <3> QED BY <2>0, <2>1 DEF DispatchRow
  <2> HIDE DEF f
  <2>4. CASE e.active /\ ~e.detached
    <3>1. List(d)' = r /\ List(d) = hooks
      BY <1>2, <2>3, <2>4 DEF List, f
    <3>2. /\ Ahead(r, e.at) \subseteq Ahead(hooks, e.at)
          /\ i > e.at => Ahead(hooks, e.at) \subseteq Ahead(r, e.at) \cup {hooks[i]}
          /\ i <= e.at => Ahead(hooks, e.at) \subseteq Ahead(r, e.at) \cup {hooks[e.at + 1]}
      BY <1>1, <2>0, AheadOfRemoved DEF r
    <3>3. GoesOn(f, r, n)
      <4>1. CASE i > e.at
        <5>1. f.spliced = e.spliced /\ hooks[i] \notin f.due
          BY <2>0, <2>3, <4>1
        <5> HIDE DEF e
        <5> QED BY <1>1, <2>0, <2>3, <2>4, <3>1, <3>2, <4>1, <5>1, ShorterList
      <4>2. CASE i <= e.at
        <5>1. f.spliced = e.spliced + 1
          BY <2>3, <2>4, <4>2
        <5> HIDE DEF e
        <5> QED BY <1>1, <2>0, <2>3, <2>4, <3>1, <3>2, <4>2, <5>1, ShorterList
      <4>3. i > e.at \/ i <= e.at
        BY <2>0
      <4> QED BY <4>1, <4>2, <4>3
    <3> HIDE DEF e
    <3> QED BY <2>0, <2>2, <2>3, <2>4, <3>1, <3>3 DEF DispatchOK
  <2>5. CASE e.active /\ e.detached
    <3>1. List(d)' = List(d)
      BY <2>3, <2>5 DEF List, f
    <3>2. f.spliced = e.spliced /\ f.due \subseteq e.due /\ hooks[i] \notin f.due
      BY <2>3, <2>5
    <3> HIDE DEF e
    <3>3. GoesOn(f, List(d), n)
      <4>1. /\ Ahead(List(d), e.at) \subseteq Ahead(List(d), e.at)
            /\ Ahead(List(d), e.at) \subseteq Ahead(List(d), e.at) \cup {hooks[i]}
        OBVIOUS
      <4> QED BY <1>1, <2>0, <2>3, <2>5, <3>2, <4>1, ShorterList
    <3> QED BY <2>0, <2>2, <2>3, <2>5, <3>1, <3>3 DEF DispatchOK
  <2>6. CASE ~e.active
    <3>1. f.spliced = e.spliced /\ f.due \subseteq e.due
      BY <2>3, <2>6
    <3> HIDE DEF e
    <3>2. Cardinality(f.due \ ToSet(f.called)) <= f.spliced
      BY <1>1, <2>0, <2>3, <2>6, <3>1, EndedStays
    <3> QED BY <2>0, <2>2, <2>3, <2>6, <3>1, <3>2 DEF DispatchOK
  <2> QED BY <2>4, <2>5, <2>6
<1>5. DOMAIN dispatch' = Dispatch /\ Len(hooks') <= subscribed'
  <2>1. DOMAIN dispatch' = Dispatch
    BY <1>2
  <2>2. hooks' = r /\ subscribed' = n
    BY <1>2
  <2>3. Len(r) <= n
    BY <1>1, <1>3
  <2> QED BY <2>1, <2>2, <2>3
<1> QED BY <1>1, <1>2, <1>3, <1>4, <1>5 DEF BusInv

\* Another list: the dispatches under way keep the one they began with.
LEMMA ReplacedKeeps ==
  ASSUME BusInv, NEW list, Ascending(list, subscribed), Len(list) <= subscribed, Replaced(list)
  PROVE  BusInv'
<1> DEFINE n == subscribed
           moved(e) == e.active /\ ~e.detached
<1>1. /\ n \in Nat /\ Ascending(hooks, n) /\ hooks \in Seq(Nat) /\ Len(hooks) \in Nat /\ Len(hooks) <= n
      /\ \A d \in Dispatch : DispatchOK(dispatch[d], List(d), n)
  BY DEF BusInv, Ascending
<1>2. /\ hooks' = list /\ subscribed' = n
      /\ dispatch' = [d \in Dispatch |->
           IF moved(dispatch[d])
           THEN [dispatch[d] EXCEPT !.detached = TRUE, !.own = hooks, !.due = @ \cap ToSet(list)]
           ELSE [dispatch[d] EXCEPT !.due = @ \cap ToSet(list)]]
  BY DEF Replaced
<1>3. ASSUME NEW d \in Dispatch
      PROVE  DispatchOK(dispatch'[d], List(d)', n)
  <2> DEFINE e == dispatch[d]
             f == dispatch'[d]
  <2> SUFFICES DispatchOK(f, List(d)', n)
    OBVIOUS
  <2>0. DispatchOK(e, List(d), n) /\ e \in DispatchRow /\ e.at \in Nat /\ e.due \subseteq 1..n
    BY <1>1 DEF DispatchOK, DispatchRow
  <2>1. /\ moved(e) => f = [e EXCEPT !.detached = TRUE, !.own = hooks, !.due = @ \cap ToSet(list)]
        /\ ~moved(e) => f = [e EXCEPT !.due = @ \cap ToSet(list)]
    BY <1>2
  <2>2. f \in DispatchRow
    <3>1. e.due \cap ToSet(list) \in SUBSET Nat
      BY <2>0 DEF DispatchRow
    <3> HIDE DEF moved
    <3> QED BY <1>1, <2>0, <2>1, <3>1 DEF DispatchRow
  <2>3. /\ f.active = e.active /\ f.at = e.at /\ f.called = e.called
        /\ f.due \subseteq e.due /\ f.spliced = e.spliced
        /\ f.detached = (e.detached \/ moved(e))
        /\ f.own = IF moved(e) THEN hooks ELSE e.own
    <3> HIDE DEF moved
    <3>1. moved(e) \in BOOLEAN
      BY DEF moved
    <3>2. CASE moved(e)
      BY <2>0, <2>1, <3>2 DEF DispatchRow
    <3>3. CASE ~moved(e)
      BY <2>0, <2>1, <3>3 DEF DispatchRow
    <3> QED BY <3>2, <3>3
  <2> HIDE DEF f
  <2>4. Ascending(f.own, n) /\ Len(f.own) <= n
    BY <1>1, <2>0, <2>3 DEF DispatchOK
  <2>5. CASE e.active
    <3>1. List(d)' = List(d)
      BY <2>0, <2>3, <2>5 DEF List, f, DispatchRow
    <3> HIDE DEF e
    <3>2. GoesOn(f, List(d), n)
      <4>1. PICK x : x \notin f.due
        <5>1. n + 1 \notin f.due
          BY <1>1, <2>0, <2>3
        <5> QED BY <5>1
      <4>2. /\ Ahead(List(d), e.at) \subseteq Ahead(List(d), e.at)
            /\ Ahead(List(d), e.at) \subseteq Ahead(List(d), e.at) \cup {x}
        OBVIOUS
      <4> QED BY <1>1, <2>0, <2>3, <2>5, <4>1, <4>2, ShorterList
    <3> QED BY <2>0, <2>2, <2>3, <2>4, <2>5, <3>1, <3>2 DEF DispatchOK
  <2>6. CASE ~e.active
    <3> HIDE DEF e
    <3>1. Cardinality(f.due \ ToSet(f.called)) <= f.spliced
      BY <1>1, <2>0, <2>3, <2>6, EndedStays
    <3> QED BY <2>0, <2>2, <2>3, <2>4, <2>6, <3>1 DEF DispatchOK
  <2> QED BY <2>5, <2>6
<1>4. DOMAIN dispatch' = Dispatch
  BY <1>2
<1> QED BY <1>1, <1>2, <1>3, <1>4 DEF BusInv

\* A row that is replaced by one that is all right, in lists that stay.
LEMMA DispatchChanges ==
  ASSUME BusInv, NEW d \in Dispatch, NEW row,
         dispatch' = [dispatch EXCEPT ![d] = row], UNCHANGED <<hooks, subscribed>>,
         DispatchOK(row, IF row.detached THEN row.own ELSE hooks, subscribed)
  PROVE  BusInv'
<1>1. ASSUME NEW c \in Dispatch
      PROVE  DispatchOK(dispatch'[c], List(c)', subscribed)
  <2>1. CASE c = d
    <3>1. dispatch'[c] = row
      BY <2>1 DEF BusInv
    <3>2. List(c)' = IF row.detached THEN row.own ELSE hooks
      BY <3>1 DEF List
    <3> QED BY <3>1, <3>2
  <2>2. CASE c # d
    <3>1. dispatch'[c] = dispatch[c]
      BY <2>2 DEF BusInv
    <3>2. List(c)' = List(c)
      BY <3>1 DEF List
    <3> QED BY <3>1, <3>2 DEF BusInv
  <2> QED BY <2>1, <2>2
<1> QED BY <1>1 DEF BusInv

\* The two constant rows.
LEMMA DispatchConstants ==
  /\ Waiting \in DispatchRow /\ Finished \in DispatchRow
  /\ Waiting.active = TRUE /\ Finished.active = FALSE
  /\ Waiting.detached = FALSE /\ Waiting.called = <<>> /\ Waiting.at = 0 /\ Waiting.spliced = 0
  /\ Waiting.own = <<>> /\ Finished.own = <<>> /\ Finished.called = <<>>
  /\ Finished.due = {} /\ Finished.at = 0 /\ Finished.spliced = 0
<1>1. <<>> \in Seq(Nat) /\ {} \in SUBSET Nat /\ 0 \in Nat /\ TRUE \in BOOLEAN /\ FALSE \in BOOLEAN
  OBVIOUS
<1>2. Waiting \in DispatchRow
  BY <1>1 DEF Waiting, DispatchRow
<1>3. Finished \in DispatchRow
  BY <1>2 DEF Finished, DispatchRow
<1> QED BY <1>2, <1>3 DEF Finished, Waiting

\* The next hook of the list is called, if there is one.
LEMMA CallsKeeps ==
  ASSUME BusInv, NEW d \in Dispatch, NEW e, NEW list,
         DispatchOK(e, list, subscribed), e.active,
         list = IF e.detached THEN e.own ELSE hooks,
         Calls(d, e, list), UNCHANGED <<hooks, subscribed>>
  PROVE  BusInv'
<1> DEFINE n == subscribed
           i == e.at + 1
<1>0. /\ n \in Nat /\ e \in DispatchRow /\ e.at \in Nat /\ e.called \in Seq(Nat)
      /\ e.due \subseteq 1..n /\ e.spliced \in Nat /\ e.at <= n
      /\ Ascending(e.called, n) /\ Ascending(e.own, n) /\ Len(e.called) \in Nat
      /\ GoesOn(e, list, n)
  BY DEF BusInv, DispatchOK, DispatchRow, GoesOn
<1>1. Ascending(list, n) /\ Len(list) <= n /\ list \in Seq(Nat) /\ Len(list) \in Nat
  <2>1. Ascending(hooks, n) /\ Len(hooks) <= n /\ Ascending(e.own, n) /\ Len(e.own) <= n
    BY DEF BusInv, DispatchOK
  <2>2. Ascending(list, n) /\ Len(list) <= n
    BY <2>1
  <2>3. list \in Seq(Nat)
    BY <2>2 DEF Ascending
  <2> QED BY <2>2, <2>3
<1>2. CASE i > Len(list)
  <2> DEFINE row == [Finished EXCEPT !.called = e.called, !.due = e.due,
                                     !.spliced = e.spliced, !.at = i]
  <2>1. dispatch' = [dispatch EXCEPT ![d] = row]
    BY <1>2 DEF Calls, Following
  <2>2. Ahead(list, e.at) = {}
    BY <1>0, <1>1, <1>2, AheadOfNext
  <2>3. Missed(e, list) = e.due \ ToSet(e.called)
    BY <2>2 DEF Missed
  <2>4. row \in DispatchRow /\ row.active = FALSE /\ row.own = <<>> /\ row.at = i
        /\ row.called = e.called /\ row.due = e.due /\ row.spliced = e.spliced
    <3>1. i \in Nat /\ e.due \in SUBSET Nat
      BY <1>0
    <3> HIDE DEF i
    <3> QED BY <1>0, <3>1, DispatchConstants DEF DispatchRow
  <2> HIDE DEF row
  <2>5. Ascending(<<>>, n) /\ Len(<<>>) <= n
    BY <1>0 DEF Ascending
  <2>6. i <= n + 1
    BY <1>0
  <2>7. DispatchOK(row, IF row.detached THEN row.own ELSE hooks, n)
    BY <1>0, <2>3, <2>4, <2>5, <2>6 DEF DispatchOK, GoesOn
  <2> QED BY <2>1, <2>7, DispatchChanges
<1>3. CASE i <= Len(list)
  <2> DEFINE h == list[i]
             row == [e EXCEPT !.at = i, !.called = Append(@, h)]
  <2>1. dispatch' = [dispatch EXCEPT ![d] = row]
    <3>1. ~(i > Len(list))
      BY <1>0, <1>1, <1>3
    <3> QED BY <3>1 DEF Calls, Following
  <2>2. Ahead(list, e.at) = Ahead(list, i) \cup {h}
    BY <1>0, <1>1, <1>3, AheadOfNext
  <2>3. i \in 1..Len(list) /\ h \in 1..n /\ i <= n
    BY <1>0, <1>1, <1>3 DEF Ascending
  <2> HIDE DEF h
  <2>4. /\ Append(e.called, h) \in Seq(Nat) /\ Len(Append(e.called, h)) = Len(e.called) + 1
        /\ Append(e.called, h)[Len(e.called) + 1] = h
        /\ \A j \in 1..Len(e.called) : Append(e.called, h)[j] = e.called[j]
    BY <1>0, <2>3
  <2>5. row \in DispatchRow
    <3>1. i \in Nat
      BY <1>0
    <3> HIDE DEF i
    <3> QED BY <1>0, <2>4, <3>1 DEF DispatchRow
  <2>6. /\ row.active /\ row.detached = e.detached /\ row.own = e.own /\ row.at = i
        /\ row.called = Append(e.called, h) /\ row.due = e.due /\ row.spliced = e.spliced
    BY <1>0 DEF DispatchRow
  <2> HIDE DEF row
  <2>7. \A j \in 1..Len(e.called) : e.called[j] < h /\ e.called[j] \in 1..n
    BY <1>0, <2>2 DEF GoesOn, Ascending
  <2>8. ASSUME NEW j \in 1..Len(row.called)
        PROVE  \/ j = Len(e.called) + 1 /\ row.called[j] = h
               \/ j \in 1..Len(e.called) /\ row.called[j] = e.called[j]
    BY <1>0, <2>4, <2>6
  <2>9. Ascending(row.called, n)
    <3>1. \A j \in 1..Len(row.called) : row.called[j] \in 1..n
      BY <2>3, <2>7, <2>8
    <3>2. ASSUME NEW j \in 1..Len(row.called), NEW k \in 1..Len(row.called), j < k
          PROVE  row.called[j] < row.called[k]
      <4>1. j \in 1..Len(e.called) /\ row.called[j] = e.called[j]
        BY <1>0, <2>4, <2>6, <2>8, <3>2
      <4>2. CASE k = Len(e.called) + 1
        BY <2>4, <2>6, <2>7, <4>1, <4>2
      <4>3. CASE k \in 1..Len(e.called)
        BY <1>0, <2>4, <2>6, <3>2, <4>1, <4>3 DEF Ascending
      <4> QED BY <2>8, <4>2, <4>3
    <3> QED BY <2>4, <2>6, <3>1, <3>2 DEF Ascending
  <2>10. GoesOn(row, list, n)
    <3>1. ToSet(row.called) = ToSet(e.called) \cup {h}
      <4>1. DOMAIN row.called = 1..Len(e.called) + 1 /\ DOMAIN e.called = 1..Len(e.called)
        BY <1>0, <2>4, <2>6
      <4>2. ToSet(row.called) \subseteq ToSet(e.called) \cup {h}
        BY <1>0, <2>4, <2>6, <4>1 DEF ToSet
      <4>3. ToSet(e.called) \subseteq ToSet(row.called)
        BY <1>0, <2>4, <2>6, <4>1 DEF ToSet
      <4>4. h \in ToSet(row.called)
        BY <1>0, <2>4, <2>6, <4>1 DEF ToSet
      <4> QED BY <4>2, <4>3, <4>4
    <3>2. Missed(row, list) = Missed(e, list)
      BY <2>2, <2>6, <3>1 DEF Missed
    <3>3. ASSUME NEW g \in Ahead(list, i), NEW j \in 1..Len(row.called)
          PROVE  row.called[j] < g
      <4>1. CASE j \in 1..Len(e.called) /\ row.called[j] = e.called[j]
        BY <1>0, <2>2, <3>3, <4>1 DEF GoesOn
      <4>2. CASE row.called[j] = h
        <5>1. PICK k \in i + 1..Len(list) : g = list[k]
          BY <3>3 DEF Ahead
        <5>2. k \in 1..Len(list) /\ i < k
          BY <1>0, <2>3, <5>1
        <5> QED BY <1>1, <2>3, <4>2, <5>1, <5>2 DEF Ascending, h
      <4> QED BY <2>8, <4>1, <4>2
    <3> QED BY <1>0, <2>3, <2>6, <3>2, <3>3 DEF GoesOn
  <2>11. DispatchOK(row, list, n)
    <3>1. Len(e.own) <= n /\ i <= n + 1
      BY <1>0, <2>3 DEF DispatchOK
    <3> QED BY <1>0, <2>5, <2>6, <2>9, <2>10, <3>1 DEF DispatchOK
  <2>12. list = IF row.detached THEN row.own ELSE hooks
    BY <2>6
  <2> QED BY <2>1, <2>11, <2>12, DispatchChanges
<1>4. i > Len(list) \/ i <= Len(list)
  BY <1>0, <1>1
<1> QED BY <1>2, <1>3, <1>4

\* trigger*: with every hook of the list due and ahead.
LEMMA TriggerKeeps ==
  ASSUME BusInv, NEW d \in Dispatch, Trigger(d)
  PROVE  BusInv'
<1> DEFINE n == subscribed
           e == [Waiting EXCEPT !.due = ToSet(hooks)]
<1>0. /\ n \in Nat /\ Ascending(hooks, n) /\ hooks \in Seq(Nat) /\ DOMAIN hooks = 1..Len(hooks)
      /\ \A i \in 1..Len(hooks) : hooks[i] \in 1..n
  BY DEF BusInv, Ascending
<1>1. /\ e.active /\ e.detached = FALSE /\ e.own = <<>> /\ e.at = 0 /\ e.called = <<>>
      /\ e.due = ToSet(hooks) /\ e.spliced = 0
  BY DispatchConstants DEF DispatchRow
<1>2. ToSet(hooks) \subseteq 1..n /\ ToSet(hooks) \subseteq Ahead(hooks, 0)
  BY <1>0 DEF ToSet, Ahead
<1>3. e \in DispatchRow
  <2>1. ToSet(hooks) \in SUBSET Nat
    BY <1>2
  <2> QED BY <2>1, DispatchConstants DEF DispatchRow
<1>4. Calls(d, e, hooks) /\ UNCHANGED <<hooks, subscribed>>
  BY DEF Trigger
<1> HIDE DEF e
<1>5. Missed(e, hooks) = {}
  BY <1>1, <1>2 DEF Missed
<1>6. Ascending(<<>>, n) /\ Len(<<>>) = 0
  BY DEF Ascending
<1>7. DispatchOK(e, hooks, n)
  <2>1. Cardinality(Missed(e, hooks)) = 0
    BY <1>5, FS_EmptySet
  <2>2. GoesOn(e, hooks, n)
    BY <1>0, <1>1, <1>6, <2>1 DEF GoesOn
  <2> QED BY <1>0, <1>1, <1>2, <1>3, <1>6, <2>2 DEF DispatchOK
<1> QED BY <1>1, <1>4, <1>7, CallsKeeps

\* Every step keeps the order of the lists and accounts for what is missed.
LEMMA BusInvStep == BusInv /\ [BusNext]_busVars => BusInv'
<1> SUFFICES ASSUME BusInv, [BusNext]_busVars PROVE BusInv'
  OBVIOUS
<1>0. /\ subscribed \in Nat /\ Ascending(hooks, subscribed) /\ DOMAIN hooks = 1..Len(hooks)
      /\ Len(hooks) \in Nat /\ Len(hooks) <= subscribed
  BY DEF BusInv, Ascending
<1>e. Ascending(<<>>, subscribed) /\ Len(<<>>) <= subscribed
  BY <1>0 DEF Ascending
<1>1. CASE On
  BY <1>1, OnKeeps
<1>2. CASE Clear
  BY <1>2, <1>e, ReplacedKeeps DEF Clear
<1>3. ASSUME NEW i \in DOMAIN hooks, CallUnsubscriber(i)
      PROVE  BusInv'
  BY <1>0, <1>3, CallUnsubscriberKeeps
<1>4. ASSUME NEW i \in DOMAIN hooks, Off(i)
      PROVE  BusInv'
  <2>1. Ascending(RemoveAt(hooks, i), subscribed) /\ Len(RemoveAt(hooks, i)) = Len(hooks) - 1
    BY <1>0, <1>4, RemovedAscends
  <2>2. Len(RemoveAt(hooks, i)) <= subscribed
    BY <1>0, <2>1
  <2> QED BY <1>4, <2>1, <2>2, ReplacedKeeps DEF Off
<1>5. ASSUME NEW d \in Dispatch, Trigger(d)
      PROVE  BusInv'
  BY <1>5, TriggerKeeps
<1>6. ASSUME NEW d \in Dispatch, HookReturns(d)
      PROVE  BusInv'
  <2>1. /\ dispatch[d].active /\ Calls(d, dispatch[d], List(d))
        /\ UNCHANGED <<hooks, subscribed>>
    BY <1>6 DEF HookReturns
  <2>2. /\ DispatchOK(dispatch[d], List(d), subscribed)
        /\ List(d) = IF dispatch[d].detached THEN dispatch[d].own ELSE hooks
    BY <1>6 DEF BusInv, List
  <2> QED BY <1>6, <2>1, <2>2, CallsKeeps
<1>7. ASSUME NEW d \in Dispatch, HookStops(d)
      PROVE  BusInv'
  <2>1. dispatch' = [dispatch EXCEPT ![d] = Finished] /\ UNCHANGED <<hooks, subscribed>>
    BY <1>7 DEF HookStops
  <2>2. Cardinality(Finished.due \ ToSet(Finished.called)) = 0
    BY DispatchConstants, FS_EmptySet
  <2>3. DispatchOK(Finished, IF Finished.detached THEN Finished.own ELSE hooks, subscribed)
    BY <1>0, <1>e, <2>2, DispatchConstants DEF DispatchOK
  <2> QED BY <1>7, <2>1, <2>3, DispatchChanges
<1>8. CASE UNCHANGED busVars
  <2>1. \A d \in Dispatch : List(d)' = List(d)
    BY <1>8 DEF busVars, List
  <2> QED BY <1>8, <2>1 DEF busVars, BusInv
<1> QED BY <1>1, <1>2, <1>3, <1>4, <1>5, <1>6, <1>7, <1>8, Zenon DEF BusNext

(* Every dispatch calls its hooks in the order of their subscription, and      *)
(* every hook that was there throughout but at most one for each splice at or  *)
(* before the place it had reached, for any number of hooks and of dispatches  *)
(* that overlap.                                                             *)
THEOREM DispatchesAccountForHooks == BusSpec => [](CalledInOrder /\ SkippedOnlyBySplice)
<1>1. BusInit => BusInv
  <2> SUFFICES ASSUME BusInit PROVE BusInv
    OBVIOUS
  <2>1. Cardinality(Finished.due \ ToSet(Finished.called)) = 0
    BY DispatchConstants, FS_EmptySet
  <2>2. Ascending(<<>>, 0) /\ Len(<<>>) = 0
    BY DEF Ascending
  <2>3. \A list : DispatchOK(Finished, list, 0)
    BY <2>1, <2>2, DispatchConstants DEF DispatchOK
  <2> QED BY <2>2, <2>3 DEF BusInit, BusInv
<1>2. BusInv /\ [BusNext]_busVars => BusInv'
  BY BusInvStep
<1>3. BusInv => CalledInOrder /\ SkippedOnlyBySplice
  <2> SUFFICES ASSUME BusInv PROVE CalledInOrder /\ SkippedOnlyBySplice
    OBVIOUS
  <2>1. \A d \in Dispatch : DispatchOK(dispatch[d], List(d), subscribed)
    BY DEF BusInv
  <2>2. ASSUME NEW d \in Dispatch
        PROVE  \A i, j \in DOMAIN dispatch[d].called :
                 i < j => dispatch[d].called[i] < dispatch[d].called[j]
    <3>1. Ascending(dispatch[d].called, subscribed)
      BY <2>1, <2>2 DEF DispatchOK
    <3>2. DOMAIN dispatch[d].called = 1..Len(dispatch[d].called)
      BY <3>1 DEF Ascending
    <3> QED BY <3>1, <3>2 DEF Ascending
  <2> QED BY <2>1, <2>2 DEF DispatchOK, CalledInOrder, SkippedOnlyBySplice
<1> QED BY <1>1, <1>2, <1>3, PTL DEF BusSpec

-----------------------------------------------------------------------------
(* The flow engine (FlowEngine).  The invariant counts for every pool, also an *)
(* abandoned one: its workers are the sub-flows that run, the items before     *)
(* `next` are those that were taken, and while nothing failed every worker is   *)
(* busy or no item is left.                                                   *)

ItemRow == [status : {"untaken", "running", "succeeded"} \cup Failure,
            task : {"idle", "running", "backoff"}, attempt : 0..MaxTries - 1]

PoolRow == [next : 1..NItems + 1, workers : 0..Workers, item : [Item -> ItemRow]]

Working(q) == {i \in Item : q.item[i].status = "running"}

PoolOK(q) ==
  /\ q \in PoolRow
  /\ q.workers = Cardinality(Working(q))
  /\ \A i \in Item : i < q.next <=> q.item[i].status # "untaken"
  /\ (\A i \in Item : q.item[i].status \notin Failure)
       => q.workers = Workers \/ q.next = NItems + 1

PoolsOK == pool \in Seq(PoolRow) /\ \A p \in 1..Len(pool) : PoolOK(pool[p])

\* The steps begun are among those counted, and are not more than the limit.
StepsOK == /\ tracker \in 0..MaxSteps + 1 /\ begun \in Nat
           /\ begun <= tracker /\ begun <= MaxSteps

FlowRow == [status : {"running", "succeeded"} \cup Failure, at : {"Map", "Loop"},
            phase : {"idle", "counted", "running", "backoff"},
            attempt : 0..MaxTries - 1, loops : 0..MaxIterations]

EngineInv == /\ flow \in FlowRow /\ late \in BOOLEAN /\ signal \in BOOLEAN
             /\ PoolsOK /\ StepsOK

NoneStarted(old, new) ==
  \A i \in Item : new.item[i].task = "running" => old.item[i].task = "running"

\* A step of a task: one pool changes, and starts no task after an abort.
OnePoolChanges(p) ==
  \E q : /\ PoolOK(q) /\ (signal => NoneStarted(pool[p], q))
         /\ pool' = [pool EXCEPT ![p] = q]

(* The constants: the pool has a worker, and not more of them than items.      *)
LEMMA EngineConstants ==
  /\ NItems \in Nat /\ MaxTries \in Nat /\ MaxIterations \in Nat /\ MaxSteps \in Nat
  /\ 0 \in 0..MaxTries - 1 /\ 1 <= MaxSteps
  /\ Workers \in Nat /\ 1 <= Workers /\ Workers <= NItems
<1>1. PICK m \in {Concurrency, NItems} : \A y \in {Concurrency, NItems} : m <= y
  BY EngineAssumption
<1>2. Workers \in {Concurrency, NItems} /\ \A y \in {Concurrency, NItems} : Workers <= y
  BY <1>1 DEF Workers, Min
<1> QED BY <1>2, EngineAssumption

(* The smaller of two numbers.                                               *)
LEMMA SmallerOf ==
  ASSUME NEW a \in Nat, NEW b \in Nat
  PROVE  Min({a, b}) = IF a <= b THEN a ELSE b
<1>1. PICK m \in {a, b} : \A y \in {a, b} : m <= y
  OBVIOUS
<1>2. Min({a, b}) \in {a, b} /\ \A y \in {a, b} : Min({a, b}) <= y
  BY <1>1 DEF Min
<1> QED BY <1>2

(* A sub-flow that is entered runs, or has failed; after an abort it does not run. *)
LEMMA EnteredRow ==
  ASSUME NEW n
  PROVE  /\ Entered(n) \in ItemRow /\ Entered(n).status # "untaken"
         /\ Entered(n) = Begun <=> Entered(n).status = "running"
         /\ Entered(n) = Begun <=> Entered(n).task = "running"
         /\ Entered(n) # Begun => Entered(n).status \in Failure
         /\ signal => Entered(n) # Begun
<1>1. Begun.status = "running" /\ Begun.task = "running" /\ Begun \in ItemRow
  BY EngineConstants DEF Begun, Untaken, ItemRow
<1>2. ASSUME NEW s \in {"cancelled", "failed"}
      PROVE  LET r == [Untaken EXCEPT !.status = s]
             IN  r.status = s /\ r.task = "idle" /\ r \in ItemRow
  BY <1>2, EngineConstants DEF Untaken, ItemRow, Failure
<1> QED BY <1>1, <1>2 DEF Entered, Failure

(* The steps of n sub-flows that begin together are counted by the tracker, and *)
(* those beyond the limit do not begin.                                       *)
LEMMA TrackedKeeps ==
  ASSUME StepsOK, NEW n \in Nat, Tracked(n)
  PROVE  StepsOK'
<1> DEFINE K == {k \in 1..n : ~signal /\ ~Exceeded(k)}
<1>0. MaxSteps \in Nat /\ tracker \in Nat /\ tracker <= MaxSteps + 1
  BY EngineConstants DEF StepsOK
<1>1. begun' = begun + Cardinality(K)
  BY DEF Tracked
<1>2. CASE signal
  <2>1. K = {}
    BY <1>2
  <2>2. Cardinality(K) = 0
    BY <2>1, FS_EmptySet
  <2>3. tracker' = tracker
    BY <1>2 DEF Tracked
  <2> QED BY <1>1, <2>2, <2>3 DEF StepsOK
<1>3. CASE ~signal
  <2> DEFINE m == IF tracker + n <= MaxSteps THEN n
                  ELSE IF tracker <= MaxSteps THEN MaxSteps - tracker ELSE 0
  <2>1. K = 1..m
    BY <1>0, <1>3 DEF Exceeded
  <2>2. m \in Nat
    BY <1>0
  <2> HIDE DEF K, m
  <2>3. Cardinality(K) = m
    <3>1. 1 \in Int /\ m \in Int /\ (1 > m => m = 0) /\ m - 1 + 1 = m
      BY <2>2
    <3>2. Cardinality(1..m) = IF 1 > m THEN 0 ELSE m - 1 + 1
      BY <3>1, FS_Interval
    <3> QED BY <2>1, <3>1, <3>2
  <2>4. tracker' = IF tracker + n <= MaxSteps + 1 THEN tracker + n ELSE MaxSteps + 1
    BY <1>0, <1>3, SmallerOf DEF Tracked
  <2> QED BY <1>0, <1>1, <2>2, <2>3, <2>4 DEF StepsOK, m
<1> QED BY <1>2, <1>3

(* A pool is replaced by one that is in order.                                 *)
LEMMA PoolChanges ==
  ASSUME PoolsOK, NEW p \in 1..Len(pool), NEW q, PoolOK(q), pool' = [pool EXCEPT ![p] = q]
  PROVE  PoolsOK' /\ Len(pool') = Len(pool)
<1>1. q \in PoolRow
  BY DEF PoolOK
<1>2. pool' \in Seq(PoolRow) /\ Len(pool') = Len(pool)
  BY <1>1 DEF PoolsOK
<1>3. ASSUME NEW r \in 1..Len(pool')
      PROVE  PoolOK(pool'[r])
  <2>1. pool'[r] = IF r = p THEN q ELSE pool[r]
    BY <1>2, <1>3 DEF PoolsOK
  <2> QED BY <1>2, <1>3, <2>1 DEF PoolsOK
<1> QED BY <1>2, <1>3 DEF PoolsOK

(* The sub-flows that run, when that of item i ends.                           *)
LEMMA OneLessWorks ==
  ASSUME NEW q, PoolOK(q), NEW i \in Item, q.item[i].status = "running",
         NEW r, \A j \in Item : r.item[j].status = "running" <=> j # i /\ q.item[j].status = "running"
  PROVE  /\ Cardinality(Working(r)) = q.workers - 1 /\ IsFiniteSet(Working(r))
         /\ q.workers - 1 \in 0..Workers
<1>1. IsFiniteSet(Item)
  BY FS_Interval, EngineConstants DEF Item
<1>2. IsFiniteSet(Working(q))
  BY <1>1, FS_Subset DEF Working
<1>3. Working(r) = Working(q) \ {i} /\ i \in Working(q)
  BY DEF Working
<1>4. Cardinality(Working(q) \ {i}) = Cardinality(Working(q)) - 1 /\ IsFiniteSet(Working(q) \ {i})
  BY <1>2, <1>3, FS_RemoveElement
<1>5. Cardinality(Working(r)) \in Nat
  BY <1>3, <1>4, FS_CardinalityType
<1>6. q.workers = Cardinality(Working(q)) /\ q.workers \in 0..Workers
  BY DEF PoolOK, PoolRow
<1> QED BY <1>3, <1>4, <1>5, <1>6, EngineConstants

(* A sub-flow ends: its worker ends, or takes the next item.                   *)
LEMMA SubFlowEndsKeeps ==
  ASSUME PoolsOK, StepsOK, NEW p \in 1..Len(pool), NEW i \in Item, Awaited(p, i),
         NEW status \in {"succeeded"} \cup Failure, SubFlowEnds(p, i, status)
  PROVE  OnePoolChanges(p) /\ StepsOK'
<1> DEFINE q == pool[p]
           row == [q.item[i] EXCEPT !.status = status, !.task = "idle"]
           ended == [q EXCEPT !.item[i] = [@ EXCEPT !.status = status, !.task = "idle"]]
           more == status = "succeeded" /\ LastItem(ended)
           stop == [ended EXCEPT !.workers = @ - 1]
<1>0. /\ PoolOK(q) /\ q \in PoolRow /\ q.item \in [Item -> ItemRow] /\ q.item[i].status = "running"
      /\ q.next \in 1..NItems + 1 /\ q.workers \in 0..Workers /\ NItems \in Nat
  BY EngineConstants DEF PoolsOK, PoolOK, PoolRow, Awaited, Task
<1>1. /\ ended.next = q.next /\ ended.workers = q.workers /\ ended.item \in [Item -> ItemRow]
      /\ \A j \in Item : j # i => ended.item[j] = q.item[j]
      /\ ended.item[i].status = status /\ ended.item[i].task = "idle"
      /\ ended \in PoolRow
  <2>1. row \in ItemRow /\ row.status = status /\ row.task = "idle"
    BY <1>0 DEF ItemRow
  <2>2. ended = [q EXCEPT !.item = [q.item EXCEPT ![i] = row]]
    BY <1>0 DEF PoolRow
  <2> HIDE DEF row
  <2>3. [q.item EXCEPT ![i] = row] \in [Item -> ItemRow]
    BY <1>0, <2>1
  <2> HIDE DEF ended
  <2> QED BY <1>0, <2>1, <2>2, <2>3 DEF PoolRow
<1>2. \A j \in Item : ended.item[j].status = "running" <=> j # i /\ q.item[j].status = "running"
  BY <1>1 DEF Failure
<1>3. \A j \in Item : j < q.next <=> ended.item[j].status # "untaken"
  BY <1>0, <1>1 DEF PoolOK, Failure
<1>4. StepsOK'
  BY TrackedKeeps DEF SubFlowEnds, StepsOK
<1>5. CASE ~more
  <2>1. pool' = [pool EXCEPT ![p] = stop]
    BY <1>5 DEF SubFlowEnds
  <2> HIDE DEF ended
  <2>2. stop.item = ended.item /\ stop.next = ended.next /\ stop.workers = q.workers - 1
    BY <1>1 DEF PoolRow
  <2>s. stop = [ended EXCEPT !.workers = q.workers - 1]
    BY <1>1
  <2> HIDE DEF stop
  <2>3. /\ Cardinality(Working(stop)) = q.workers - 1 /\ q.workers - 1 \in 0..Workers
    BY <1>0, <1>2, <2>2, OneLessWorks
  <2>4. stop \in PoolRow
    BY <1>1, <2>s, <2>3 DEF PoolRow
  <2>5. status \in Failure \/ q.next = NItems + 1
    BY <1>0, <1>1, <1>5 DEF LastItem
  <2>6. PoolOK(stop)
    BY <1>1, <1>3, <2>2, <2>3, <2>4, <2>5 DEF PoolOK
  <2>7. NoneStarted(q, stop)
    BY <1>1, <2>2 DEF NoneStarted
  <2> QED BY <1>4, <2>1, <2>6, <2>7 DEF OnePoolChanges
<1>6. CASE more
  <2> DEFINE e == Entered(1)
             next == [ended EXCEPT !.item[ended.next] = e, !.next = @ + 1,
                                   !.workers = IF e = Begun THEN @ ELSE @ - 1]
  <2>1. pool' = [pool EXCEPT ![p] = next]
    BY <1>6 DEF SubFlowEnds
  <2>e. /\ e \in ItemRow /\ e.status # "untaken" /\ (e = Begun <=> e.status = "running")
        /\ (e = Begun <=> e.task = "running") /\ (e # Begun => e.status \in Failure)
        /\ (signal => e # Begun)
    BY EnteredRow
  <2> DEFINE n == q.next
  <2>n. n \in Item /\ n \in Nat /\ status = "succeeded"
    BY <1>0, <1>1, <1>6 DEF LastItem, Item
  <2>i. n # i /\ q.item[n].status = "untaken"
    BY <1>0, <2>n DEF PoolOK
  <2> HIDE DEF ended, e, more
  <2>2. /\ next.item = [ended.item EXCEPT ![n] = e] /\ next.next = n + 1
        /\ next.workers = IF e = Begun THEN q.workers ELSE q.workers - 1
    BY <1>1 DEF PoolRow
  <2>s. next = [ended EXCEPT !.item = next.item, !.next = next.next, !.workers = next.workers]
    BY <1>1, <2>2 DEF PoolRow
  <2> HIDE DEF next
  <2>3. next.item[n] = e /\ \A j \in Item : j # n => next.item[j] = ended.item[j]
    BY <1>1, <2>2, <2>n
  <2>4. /\ Cardinality(Working(ended)) = q.workers - 1 /\ q.workers - 1 \in 0..Workers
        /\ IsFiniteSet(Working(ended))
    BY <1>0, <1>2, OneLessWorks
  <2>5. n \notin Working(ended)
    BY <1>2, <2>i, <2>n DEF Working
  <2>6. Working(next) = IF e = Begun THEN Working(ended) \cup {n} ELSE Working(ended)
    BY <2>3, <2>5, <2>e, <2>n DEF Working
  <2>7. next.workers = Cardinality(Working(next))
    <3>1. Cardinality(Working(ended) \cup {n}) = Cardinality(Working(ended)) + 1
      BY <2>4, <2>5, FS_AddElement
    <3>2. q.workers - 1 + 1 = q.workers
      BY <1>0
    <3> QED BY <2>2, <2>4, <2>6, <3>1, <3>2
  <2>8. next \in PoolRow
    <3>1. next.next \in 1..NItems + 1
      BY <2>2, <2>n, <1>0 DEF Item
    <3>2. next.workers \in 0..Workers
      BY <2>2, <2>4, <1>0
    <3>3. next.item \in [Item -> ItemRow]
      BY <2>2, <2>e, <1>1
    <3> QED BY <1>1, <2>s, <3>1, <3>2, <3>3 DEF PoolRow
  <2>9. \A j \in Item : j < next.next <=> next.item[j].status # "untaken"
    <3> SUFFICES ASSUME NEW j \in Item PROVE j < next.next <=> next.item[j].status # "untaken"
      OBVIOUS
    <3>1. j \in Nat
      BY DEF Item
    <3> QED BY <1>3, <2>2, <2>3, <2>e, <2>n, <3>1
  <2>10. (\A j \in Item : next.item[j].status \notin Failure)
           => next.workers = Workers \/ next.next = NItems + 1
    <3> SUFFICES ASSUME \A j \in Item : next.item[j].status \notin Failure
                 PROVE  next.workers = Workers
      OBVIOUS
    <3>1. e = Begun
      BY <2>3, <2>e, <2>n
    <3>2. ASSUME NEW j \in Item PROVE q.item[j].status \notin Failure
      BY <1>0, <1>1, <2>3, <2>i DEF Failure
    <3>3. q.workers = Workers
      BY <1>0, <3>2, <2>n DEF PoolOK, Item
    <3> QED BY <2>2, <3>1, <3>3
  <2>11. PoolOK(next)
    BY <2>7, <2>8, <2>9, <2>10 DEF PoolOK
  <2>12. signal => NoneStarted(q, next)
    BY <1>1, <2>3, <2>e DEF NoneStarted
  <2> QED BY <1>4, <2>1, <2>11, <2>12 DEF OnePoolChanges
<1> QED BY <1>5, <1>6

(* Only the task of a sub-flow changes.                                        *)
LEMMA TaskOnlyKeeps ==
  ASSUME PoolsOK, StepsOK, NEW p \in 1..Len(pool), NEW i \in Item,
         NEW task \in {"idle", "running", "backoff"}, NEW attempt \in 0..MaxTries - 1,
         TaskOnly(p, i, task, attempt), task = "running" => ~signal
  PROVE  OnePoolChanges(p) /\ StepsOK'
<1> DEFINE q == pool[p]
           row == [q.item[i] EXCEPT !.task = task, !.attempt = attempt]
           r == [q EXCEPT !.item[i] = row]
<1>0. PoolOK(q) /\ q \in PoolRow /\ q.item \in [Item -> ItemRow]
  BY DEF PoolsOK, PoolOK, PoolRow
<1>1. pool' = [pool EXCEPT ![p] = r]
  <2>1. row = [Task(p, i) EXCEPT !.task = task, !.attempt = attempt]
    BY DEF Task
  <2> HIDE DEF row
  <2> QED BY <2>1 DEF TaskOnly
<1>2. /\ r.next = q.next /\ r.workers = q.workers /\ r \in PoolRow
      /\ \A j \in Item : j # i => r.item[j] = q.item[j]
      /\ r.item[i].status = q.item[i].status /\ r.item[i].task = task
  <2>1. row \in ItemRow /\ row.status = q.item[i].status /\ row.task = task
    BY <1>0 DEF ItemRow
  <2>2. r = [q EXCEPT !.item = [q.item EXCEPT ![i] = row]]
    BY <1>0 DEF PoolRow
  <2> HIDE DEF row
  <2>3. [q.item EXCEPT ![i] = row] \in [Item -> ItemRow]
    BY <1>0, <2>1
  <2> HIDE DEF r
  <2> QED BY <1>0, <2>1, <2>2, <2>3 DEF PoolRow
<1> HIDE DEF r
<1>3. \A j \in Item : r.item[j].status = q.item[j].status
  BY <1>2
<1>4. Working(r) = Working(q)
  BY <1>3 DEF Working
<1>5. PoolOK(r)
  BY <1>0, <1>2, <1>3, <1>4 DEF PoolOK
<1>6. signal => NoneStarted(q, r)
  BY <1>2 DEF NoneStarted
<1>7. StepsOK'
  BY DEF TaskOnly, StepsOK
<1> QED BY <1>1, <1>5, <1>6, <1>7 DEF OnePoolChanges

(* The timer of a step ends its sub-flow, and the task goes on.                *)
LEMMA TaskTimesOutKeeps ==
  ASSUME PoolsOK, StepsOK, NEW p \in 1..Len(pool), NEW i \in Item, TaskTimesOut(p, i)
  PROVE  OnePoolChanges(p) /\ StepsOK'
<1> DEFINE q == pool[p]
           r == [q EXCEPT !.item[i].status = "timeout", !.workers = @ - 1]
<1>0. /\ PoolOK(q) /\ q \in PoolRow /\ q.item \in [Item -> ItemRow] /\ q.item[i].status = "running"
      /\ q.workers \in 0..Workers
  BY DEF PoolsOK, PoolOK, PoolRow, TaskTimesOut, Awaited, Task
<1>1. pool' = [pool EXCEPT ![p] = r]
  BY DEF TaskTimesOut
<1>2. /\ r.next = q.next /\ r.workers = q.workers - 1 /\ r.item \in [Item -> ItemRow]
      /\ \A j \in Item : j # i => r.item[j] = q.item[j]
      /\ r.item[i].status = "timeout" /\ r.item[i].task = q.item[i].task
      /\ r = [q EXCEPT !.item = r.item, !.workers = r.workers]
  BY <1>0 DEF PoolRow, ItemRow, Failure
<1> HIDE DEF r
<1>3. \A j \in Item : r.item[j].status = "running" <=> j # i /\ q.item[j].status = "running"
  BY <1>2
<1>4. Cardinality(Working(r)) = q.workers - 1 /\ q.workers - 1 \in 0..Workers
  BY <1>0, <1>3, OneLessWorks
<1>5. r \in PoolRow
  BY <1>0, <1>2, <1>4 DEF PoolRow
<1>6. \A j \in Item : j < r.next <=> r.item[j].status # "untaken"
  BY <1>0, <1>2 DEF PoolOK
<1>7. r.item[i].status \in Failure
  BY <1>2 DEF Failure
<1>8. PoolOK(r)
  BY <1>2, <1>4, <1>5, <1>6, <1>7 DEF PoolOK
<1>9. NoneStarted(q, r)
  BY <1>2 DEF NoneStarted
<1>10. StepsOK'
  BY DEF TaskTimesOut, StepsOK
<1> QED BY <1>1, <1>8, <1>9, <1>10 DEF OnePoolChanges

(* The end of a handler that is still waited for, or not any more.              *)
LEMMA TaskEndsKeeps ==
  ASSUME PoolsOK, StepsOK, NEW p \in 1..Len(pool), NEW i \in Item,
         NEW status \in {"succeeded"} \cup Failure, TaskEnds(p, i, status)
  PROVE  OnePoolChanges(p) /\ StepsOK'
<1>1. CASE Awaited(p, i)
  BY <1>1, SubFlowEndsKeeps DEF TaskEnds
<1>2. CASE ~Awaited(p, i)
  <2>1. Task(p, i).attempt \in 0..MaxTries - 1
    BY DEF PoolsOK, PoolOK, PoolRow, ItemRow, Task
  <2> QED BY <1>2, <2>1, TaskOnlyKeeps DEF TaskEnds
<1> QED BY <1>1, <1>2

(* Every step of a task.                                                      *)
LEMMA TaskStepKeeps ==
  ASSUME PoolsOK, StepsOK, NEW p \in 1..Len(pool), NEW i \in Item,
         TaskSucceeds(p, i) \/ TaskFails(p, i) \/ TaskRetries(p, i) \/ TaskTimesOut(p, i)
  PROVE  OnePoolChanges(p) /\ StepsOK' /\ UNCHANGED <<flow, signal>>
<1>0. Task(p, i).attempt \in 0..MaxTries - 1 /\ MaxTries \in Nat
  BY EngineConstants DEF PoolsOK, PoolOK, PoolRow, ItemRow, Task
<1>f. {"failed", "timeout", "cancelled"} \subseteq {"succeeded"} \cup Failure
  BY DEF Failure
<1>1. CASE TaskSucceeds(p, i)
  BY <1>1, <1>f, TaskEndsKeeps DEF TaskSucceeds
<1>2. CASE TaskFails(p, i)
  <2>1. CASE LastAttempt(Task(p, i).attempt) \/ signal
    BY <1>2, <2>1, <1>f, TaskEndsKeeps DEF TaskFails
  <2>2. CASE ~(LastAttempt(Task(p, i).attempt) \/ signal)
    <3>1. Task(p, i).attempt + 1 \in 0..MaxTries - 1
      BY <1>0, <2>2 DEF LastAttempt
    <3>2. TaskOnly(p, i, "backoff", Task(p, i).attempt + 1)
      BY <1>2, <2>2 DEF TaskFails
    <3> QED BY <1>2, <3>1, <3>2, TaskOnlyKeeps DEF TaskFails
  <2> QED BY <2>1, <2>2
<1>3. CASE TaskRetries(p, i)
  <2>1. CASE signal
    BY <1>3, <2>1, <1>f, TaskEndsKeeps DEF TaskRetries, Aborted
  <2>2. CASE ~signal
    BY <1>0, <1>3, <2>2, TaskOnlyKeeps DEF TaskRetries, Aborted
  <2> QED BY <2>1, <2>2
<1>4. CASE TaskTimesOut(p, i)
  BY <1>4, TaskTimesOutKeeps DEF TaskTimesOut
<1> QED BY <1>1, <1>2, <1>3, <1>4

(* A pool is started: its workers take the first items.                        *)
LEMMA StartPoolKeeps ==
  ASSUME PoolsOK, StepsOK, StartPool
  PROVE  PoolsOK' /\ StepsOK'
<1> DEFINE item == [i \in Item |-> IF i <= Workers THEN Entered(i) ELSE Untaken]
           workers == Cardinality({k \in 1..Workers : Entered(k) = Begun})
           q == [next |-> Workers + 1, workers |-> workers, item |-> item]
<1>c. Workers \in Nat /\ 1 <= Workers /\ Workers <= NItems /\ NItems \in Nat
  BY EngineConstants
<1>1. pool' = Append(pool, q)
  BY DEF StartPool
<1>2. \A k \in 1..Workers : k \in Item
  BY <1>c DEF Item
<1>3. {k \in 1..Workers : Entered(k) = Begun} = Working(q)
  <2>1. Untaken.status = "untaken"
    BY DEF Untaken
  <2>2. \A k \in Item : item[k].status = "running" <=> k <= Workers /\ Entered(k) = Begun
    BY <2>1, EnteredRow
  <2>3. \A k \in Item : k \in Nat /\ 1 <= k
    BY <1>c DEF Item
  <2> HIDE DEF item
  <2> QED BY <1>2, <1>c, <2>2, <2>3 DEF Working
<1>4. workers \in 0..Workers
  <2>1. IsFiniteSet(1..Workers) /\ Cardinality(1..Workers) = Workers
    BY <1>c, FS_Interval
  <2>2. {k \in 1..Workers : Entered(k) = Begun} \in SUBSET (1..Workers)
    OBVIOUS
  <2>3. workers <= Workers /\ workers \in Nat
    BY <2>1, <2>2, FS_Subset, FS_CardinalityType
  <2> QED BY <1>c, <2>3
<1>5. item \in [Item -> ItemRow]
  <2>1. Untaken \in ItemRow
    BY EngineConstants DEF Untaken, ItemRow
  <2> QED BY <2>1, EnteredRow
<1>6. \A i \in Item : i < Workers + 1 <=> item[i].status # "untaken"
  <2> SUFFICES ASSUME NEW i \in Item PROVE i < Workers + 1 <=> item[i].status # "untaken"
    OBVIOUS
  <2>1. i \in Nat
    BY DEF Item
  <2> QED BY <1>c, <2>1, EnteredRow DEF Untaken
<1>7. (\A i \in Item : item[i].status \notin Failure) => workers = Workers
  <2> SUFFICES ASSUME \A i \in Item : item[i].status \notin Failure
               PROVE  workers = Workers
    OBVIOUS
  <2>1. ASSUME NEW k \in 1..Workers PROVE Entered(k) = Begun
    <3>1. item[k] = Entered(k) /\ item[k].status \notin Failure
      BY <1>2, <1>c
    <3> QED BY <3>1, EnteredRow
  <2>2. {k \in 1..Workers : Entered(k) = Begun} = 1..Workers
    BY <2>1
  <2>3. 1 \in Int /\ Workers \in Int /\ ~(1 > Workers) /\ Workers - 1 + 1 = Workers
    BY <1>c
  <2>4. Cardinality(1..Workers) = Workers
    BY <2>3, FS_Interval
  <2> QED BY <2>2, <2>4
<1> HIDE DEF item, workers
<1>8. q \in PoolRow
  BY <1>4, <1>5, <1>c DEF PoolRow
<1>9. PoolOK(q)
  BY <1>3, <1>6, <1>7, <1>8 DEF PoolOK, workers
<1> HIDE DEF q
<1>10. pool' \in Seq(PoolRow) /\ Len(pool') = Len(pool) + 1
  BY <1>1, <1>8 DEF PoolsOK
<1>11. ASSUME NEW p \in 1..Len(pool') PROVE PoolOK(pool'[p])
  <2>1. pool'[p] = IF p <= Len(pool) THEN pool[p] ELSE q
    BY <1>1, <1>10, <1>11 DEF PoolsOK
  <2> QED BY <1>9, <1>10, <1>11, <2>1 DEF PoolsOK
<1>12. StepsOK'
  BY <1>c, TrackedKeeps DEF StartPool
<1> QED BY <1>10, <1>11, <1>12 DEF PoolsOK

(* Ending a flow, its next state and a step that fails leave a well-typed flow.   *)
LEMMA FlowRowKeeps ==
  ASSUME flow \in FlowRow
  PROVE  /\ \A s \in {"running", "succeeded"} \cup Failure : Ends(s) => flow' \in FlowRow
         /\ \A state \in {"Map", "Loop"} : GoesTo(state) => flow' \in FlowRow
         /\ \A e \in Failure : StepFails(e) => flow' \in FlowRow
<1>1. \A s \in {"running", "succeeded"} \cup Failure : Ends(s) => flow' \in FlowRow
  BY DEF Ends, FlowRow
<1>2. \A state \in {"Map", "Loop"} : GoesTo(state) => flow' \in FlowRow
  BY EngineConstants DEF GoesTo, FlowRow
<1>3. [flow EXCEPT !.phase = "idle"] \in FlowRow
  BY DEF FlowRow
<1>4. "failed" \in Failure
  BY DEF Failure
<1> QED BY <1>1, <1>2, <1>3, <1>4 DEF StepFails

(* The invariant of the engine, and that no step after an abort starts a task.   *)
LEMMA EngineInvStep ==
  ASSUME EngineInv, [EngineNext]_engineVars
  PROVE  /\ EngineInv'
         /\ signal => \A p \in 1..Len(pool') : \A i \in Item :
              pool'[p].item[i].task = "running"
                => p <= Len(pool) /\ Task(p, i).task = "running"
<1> DEFINE Quiet == \A p \in 1..Len(pool') : \A i \in Item :
              pool'[p].item[i].task = "running"
                => p <= Len(pool) /\ Task(p, i).task = "running"
<1> USE DEF EngineInv
<1>e. UNCHANGED pool => Quiet /\ PoolsOK'
  <2> SUFFICES ASSUME UNCHANGED pool PROVE Quiet /\ PoolsOK'
    OBVIOUS
  <2>1. PoolsOK'
    BY DEF PoolsOK
  <2>2. Len(pool) \in Nat
    BY DEF PoolsOK
  <2> QED BY <2>1, <2>2 DEF Task
<1>s. UNCHANGED <<tracker, begun>> => StepsOK'
  BY DEF StepsOK
<1>f. {"failed", "timeout", "cancelled"} \subseteq Failure /\ {"failed", "timeout", "cancelled"} = Failure
  BY DEF Failure
<1>i. [flow EXCEPT !.phase = "idle"] \in FlowRow
  BY DEF FlowRow
<1>c. MaxSteps \in Nat /\ 1 <= MaxSteps /\ tracker \in Nat /\ begun \in Nat
  BY EngineConstants DEF StepsOK
<1>b. ~Exceeded(1) /\ tracker' = tracker + 1 /\ begun' = begun + 1 => StepsOK'
  BY <1>c DEF StepsOK, Exceeded
<1>1. ASSUME MapSettles PROVE EngineInv' /\ Quiet
  <2>1. UNCHANGED <<pool, tracker, begun, late, signal>>
    BY <1>1 DEF MapSettles
  <2>2. flow' \in FlowRow
    <3>1. CASE MapSucceeds
      BY <1>f, <1>i, <3>1, FlowRowKeeps DEF MapSucceeds
    <3>2. ASSUME NEW error \in FailuresOf(CurrentPool), MapFails(error) PROVE flow' \in FlowRow
      <4>1. error \in Failure
        BY <3>2 DEF FailuresOf
      <4>2. CASE LastAttempt(flow.attempt) \/ signal
        BY <1>f, <3>2, <4>1, <4>2, FlowRowKeeps DEF MapFails
      <4>3. CASE ~(LastAttempt(flow.attempt) \/ signal)
        <5>1. flow.attempt + 1 \in 0..MaxTries - 1
          BY <4>3, EngineConstants DEF LastAttempt, FlowRow
        <5>2. flow' = [flow EXCEPT !.phase = "backoff", !.attempt = flow.attempt + 1]
          BY <3>2, <4>3 DEF MapFails, FlowRow
        <5> QED BY <5>1, <5>2 DEF FlowRow
      <4> QED BY <4>2, <4>3
    <3> QED BY <1>1, <3>1, <3>2 DEF MapSettles
  <2> QED BY <2>1, <2>2, <1>e, <1>s
<1>2. ASSUME flow.phase \in {"counted", "backoff"}, MapHandler PROVE EngineInv' /\ (signal => Quiet)
  <2>1. CASE signal
    <3>1. UNCHANGED <<pool, tracker, begun, late, signal>>
      BY <1>2, <2>1 DEF MapHandler, Aborted
    <3>2. flow' \in FlowRow
      BY <1>2, <2>1, <1>f, <1>i, FlowRowKeeps DEF MapHandler, Aborted
    <3> QED BY <3>1, <3>2, <1>e, <1>s
  <2>2. CASE ~signal
    <3>1. StartPool /\ flow' = [flow EXCEPT !.phase = "running"] /\ UNCHANGED <<late, signal>>
      BY <1>2, <2>2 DEF MapHandler, Aborted
    <3>2. flow' \in FlowRow
      BY <3>1 DEF FlowRow
    <3> QED BY <2>2, <3>1, <3>2, StartPoolKeeps
  <2> QED BY <2>1, <2>2
<1>3. ASSUME TaskStep PROVE EngineInv' /\ (signal => Quiet)
  <2>1. PICK p \in 1..CurrentPool : \E i \in Item :
          TaskSucceeds(p, i) \/ TaskFails(p, i) \/ TaskRetries(p, i) \/ TaskTimesOut(p, i)
    BY <1>3 DEF TaskStep
  <2>2. PICK i \in Item :
          TaskSucceeds(p, i) \/ TaskFails(p, i) \/ TaskRetries(p, i) \/ TaskTimesOut(p, i)
    BY <2>1
  <2>3. p \in 1..Len(pool) /\ Len(pool) \in Nat
    BY <2>1 DEF CurrentPool, PoolsOK
  <2>4. OnePoolChanges(p) /\ StepsOK' /\ UNCHANGED <<flow, signal>>
    BY <2>2, <2>3, TaskStepKeeps
  <2>5. UNCHANGED late
    BY <2>2 DEF TaskSucceeds, TaskFails, TaskRetries, TaskTimesOut
  <2>6. PICK q : /\ PoolOK(q) /\ (signal => NoneStarted(pool[p], q))
                 /\ pool' = [pool EXCEPT ![p] = q]
    BY <2>4 DEF OnePoolChanges
  <2>7. PoolsOK' /\ Len(pool') = Len(pool)
    BY <2>3, <2>6, PoolChanges
  <2>8. signal => Quiet
    <3> SUFFICES ASSUME signal, NEW r \in 1..Len(pool'), NEW j \in Item,
                        pool'[r].item[j].task = "running"
                 PROVE  r <= Len(pool) /\ Task(r, j).task = "running"
      OBVIOUS
    <3>1. r \in 1..Len(pool) /\ pool'[r] = IF r = p THEN q ELSE pool[r]
      BY <2>3, <2>6, <2>7 DEF PoolsOK
    <3> QED BY <2>3, <2>6, <3>1 DEF NoneStarted, Task
  <2> QED BY <2>4, <2>5, <2>7, <2>8
<1>4. ASSUME FlowStep PROVE EngineInv' /\ Quiet
  <2>1. CASE StepStops
    <3>1. flow' \in FlowRow
      BY <2>1, <1>f, FlowRowKeeps DEF StepStops, Stopped
    <3>2. StepsOK'
      BY <2>1, <1>c DEF StepStops, Stopped, StepsOK
    <3> QED BY <2>1, <3>1, <3>2, <1>e DEF StepStops
  <2>2. CASE MapBegins
    <3>1. flow' \in FlowRow
      BY <2>2 DEF MapBegins, FlowRow
    <3> QED BY <2>2, <3>1, <1>b, <1>e DEF MapBegins, Begins
  <2>3. CASE MapTimesOut
    <3>1. flow' \in FlowRow
      BY <2>3, <1>f DEF MapTimesOut, FlowRow
    <3> QED BY <2>3, <3>1, <1>s, <1>e DEF MapTimesOut
  <2>4. CASE LoopStep
    <3>1. flow' \in FlowRow
      <4>1. ASSUME flow.loops < MaxIterations, flow' = [flow EXCEPT !.at = "Map", !.attempt = 0, !.loops = @ + 1]
            PROVE  flow' \in FlowRow
        <5>1. flow.loops + 1 \in 0..MaxIterations
          BY <4>1, EngineConstants DEF FlowRow
        <5> QED BY <4>1, <5>1, EngineConstants DEF FlowRow
      <4> QED BY <2>4, <4>1, <1>f, FlowRowKeeps DEF LoopStep
    <3> QED BY <2>4, <3>1, <1>b, <1>e DEF LoopStep, Begins
  <2> QED BY <1>4, <2>1, <2>2, <2>3, <2>4 DEF FlowStep
<1>5. ASSUME DeadlinePasses \/ Abort \/ UNCHANGED engineVars PROVE EngineInv' /\ Quiet
  BY <1>5, <1>e, <1>s DEF DeadlinePasses, Abort, engineVars
<1> QED BY <1>1, <1>2, <1>3, <1>4, <1>5 DEF EngineNext

(* The initial state of an execution.                                         *)
LEMMA EngineInvInit == EngineInit => EngineInv
<1> SUFFICES ASSUME EngineInit PROVE EngineInv
  OBVIOUS
<1>0. PICK at \in {"Map", "Loop"}, loops \in 0..MaxIterations, steps \in 0..MaxSteps :
        /\ flow = [status |-> "running", at |-> at, phase |-> "idle", attempt |-> 0, loops |-> loops]
        /\ tracker = steps /\ begun = steps
  BY DEF EngineInit
<1>1. flow \in FlowRow
  BY <1>0, EngineConstants DEF FlowRow
<1>2. pool = <<>> /\ pool \in Seq(PoolRow) /\ Len(pool) = 0
  BY DEF EngineInit
<1>3. PoolsOK
  BY <1>2 DEF PoolsOK
<1>4. StepsOK
  BY <1>0, EngineConstants DEF StepsOK
<1> QED BY <1>1, <1>3, <1>4 DEF EngineInit, EngineInv

(* The execution and the sub-flows of one call begin at most MaxSteps steps,     *)
(* for any number of items, workers, tries and iterations, started or resumed    *)
(* anywhere; a pool whose workers ended   *)
(* without a failure has mapped every item.                                   *)
THEOREM StepsStayBounded == EngineSpec => [](EngineTypeOK /\ StepsBounded /\ PoolMapsEveryItem)
<1>1. EngineInit => EngineInv
  BY EngineInvInit
<1>2. EngineInv /\ [EngineNext]_engineVars => EngineInv'
  BY EngineInvStep
<1>3. EngineInv => EngineTypeOK /\ StepsBounded /\ PoolMapsEveryItem
  <2> SUFFICES ASSUME EngineInv PROVE EngineTypeOK /\ StepsBounded /\ PoolMapsEveryItem
    OBVIOUS
  <2>1. EngineTypeOK
    BY DEF EngineInv, EngineTypeOK, PoolsOK, StepsOK, FlowRow, PoolRow, ItemRow
  <2>2. ASSUME NEW p \in 1..CurrentPool, pool[p].workers = 0, FailuresOf(p) = {}, NEW i \in Item
        PROVE  Task(p, i).status = "succeeded"
    <3>1. PoolOK(pool[p]) /\ pool[p].item \in [Item -> ItemRow] /\ NItems \in Nat
      BY <2>2, EngineConstants DEF EngineInv, PoolsOK, PoolOK, PoolRow, CurrentPool
    <3>2. \A j \in Item : pool[p].item[j].status \notin Failure
      BY <2>2 DEF FailuresOf
    <3>3. pool[p].next = NItems + 1
      BY <2>2, <3>1, <3>2, EngineConstants DEF PoolOK
    <3>4. pool[p].item[i].status # "untaken"
      BY <2>2, <3>1, <3>3 DEF PoolOK, Item
    <3>5. IsFiniteSet(Working(pool[p]))
      <4>1. IsFiniteSet(Item)
        BY <3>1, FS_Interval DEF Item
      <4> QED BY <4>1, FS_Subset DEF Working
    <3>6. Working(pool[p]) = {}
      BY <2>2, <3>1, <3>5, FS_EmptySet DEF PoolOK
    <3>7. pool[p].item[i].status # "running"
      BY <2>2, <3>6 DEF Working
    <3>8. pool[p].item[i].status \in {"untaken", "running", "succeeded"} \cup Failure
      BY <2>2, <3>1 DEF ItemRow
    <3> QED BY <2>2, <3>2, <3>4, <3>7, <3>8 DEF Task
  <2> QED BY <2>1, <2>2 DEF EngineInv, StepsOK, StepsBounded, PoolMapsEveryItem
<1> QED BY <1>1, <1>2, <1>3, PTL DEF EngineSpec

(* After an abort no task starts: no retry, no next item, no new pool.           *)
THEOREM AbortIsObeyed == EngineSpec => AbortStartsNothing
<1>1. EngineInit => EngineInv
  BY EngineInvInit
<1>2. EngineInv /\ [EngineNext]_engineVars
      => /\ EngineInv'
         /\ [signal => \A p \in 1..Len(pool') : \A i \in Item :
              pool'[p].item[i].task = "running"
                => p <= Len(pool) /\ Task(p, i).task = "running"]_engineVars
  BY EngineInvStep
<1> QED BY <1>1, <1>2, PTL DEF EngineSpec, AbortStartsNothing
=============================================================================
