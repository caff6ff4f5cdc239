-------------------------- MODULE QueueDriverProofs ---------------------------
(***************************************************************************)
(* Proofs about QueueDriver, for any sets of queues, groups, claimants and  *)
(* configurations and any bounds.                                           *)
(*                                                                         *)
(* The state of the table is described row by row (RowsOK), because every   *)
(* operation of the driver replaces rows by the result of a few row         *)
(* operators: NewRow, Unclaimed, Reset, NoRow.  One lemma for each operator *)
(* and each way to replace rows; then one step for each operation.          *)
(***************************************************************************)
EXTENDS QueueDriver, FiniteSetTheorems, TLAPS

(* A claim is on the row exactly while it is processed, and is the n-th.     *)
ClaimOK(row, n) ==
  IF row.status = "processing"
  THEN /\ row.claimToken = n /\ n > 0
       /\ row.leaseExpiresAt # NoTime
       /\ row.claimedBy # Nobody
  ELSE /\ row.claimToken = NoToken
       /\ row.leaseExpiresAt = NoTime
       /\ row.claimedBy = Nobody

(* A row that exists is in a queue, and a forwarded copy has an envelope     *)
(* that says where it came from.                                             *)
ShapeOK(row) ==
  /\ IF row.status = "absent"
     THEN row.originalMessageId = NoMsg /\ row.payload = <<>>
     ELSE row.queue \in Queue
  /\ row.originalMessageId # NoMsg => row.payload # <<>>

RowOK(row, n) == row \in MessageRow /\ ClaimOK(row, n) /\ ShapeOK(row)

(* The table ms, when the ids up to last are used.                           *)
RowsOK(ms, iss, last) ==
  /\ ms \in [Msg -> MessageRow]
  /\ \A m \in Msg : RowOK(ms[m], iss[m])
  /\ \A m \in Msg : m > last => ms[m] = NoRow

(* What the open transaction may count on for the rows it has still to visit.*)
TxOK ==
  \A m \in tx.todo :
    /\ tx.op = "reclaim" => Processing(m)
    /\ tx.op = "retryDead" => messages[m].status = "dead_letter"
    /\ tx.op = "retryCopies" => IsCopy(m)

DriverInv == TypeOK /\ RowsOK(messages, issued, lastId) /\ TxOK

-----------------------------------------------------------------------------
(* Row operators.                                                            *)

(* The constants the rows are made of.                                       *)
LEMMA NullTypes ==
  /\ NoMsg = 0 /\ NoToken = 0 /\ NoTime \notin Nat
  /\ NoQueue \notin Queue /\ Nobody \notin Claimant /\ NoGroup \in Group
  BY NullAssumption DEF NoMsg, NoToken, NoTime

(* A deleted row is a well-formed row.                                       *)
LEMMA NoRowOK == \A n \in Nat : RowOK(NoRow, n)
  BY NullTypes
  DEF RowOK, ClaimOK, ShapeOK, NoRow, MessageRow, NoMsg, NoToken, NoTime

(* Giving up a claim leaves a well-formed row.                               *)
LEMMA UnclaimedOK ==
  ASSUME NEW row \in MessageRow, NEW n \in Nat, ShapeOK(row), row.queue \in Queue,
         NEW status \in {"queued", "completed", "dead_letter"}
  PROVE  /\ RowOK(Unclaimed(row, status), n)
         /\ Unclaimed(row, status).status = status
         /\ Unclaimed(row, status).queue = row.queue
         /\ Unclaimed(row, status).payload = row.payload
         /\ Unclaimed(row, status).originalMessageId = row.originalMessageId
  BY NullTypes
  DEF Unclaimed, RowOK, ClaimOK, ShapeOK, MessageRow, NoToken, NoTime

(* So does the reset of the retry operations.                                *)
LEMMA ResetOK ==
  ASSUME NEW row \in MessageRow, NEW n \in Nat, ShapeOK(row), row.queue \in Queue,
         clock \in Nat
  PROVE  /\ RowOK(Reset(row), n)
         /\ Reset(row).status = "queued"
         /\ Reset(row).payload = row.payload
         /\ Reset(row).originalMessageId = row.originalMessageId
<1> DEFINE u == Unclaimed(row, "queued")
<1>1. RowOK(u, n) /\ u.queue \in Queue /\ u.status = "queued"
      /\ u.payload = row.payload /\ u.originalMessageId = row.originalMessageId
  BY UnclaimedOK
<1>2. Reset(row) = [u EXCEPT !.attempts = 0, !.availableAt = clock,
                             !.forwardedToMessageId = NoMsg]
  BY DEF Reset
<1> HIDE DEF u
<1>3. Reset(row) \in MessageRow
  <2>1. u \in MessageRow
    BY <1>1 DEF RowOK
  <2>2. 0 \in Nat /\ clock \in Int /\ NoMsg \in Msg \cup {NoMsg}
    OBVIOUS
  <2>3. QED
    BY <1>2, <2>1, <2>2 DEF MessageRow
<1>4. QED
  BY <1>1, <1>2, <1>3 DEF RowOK, ClaimOK, ShapeOK, MessageRow

(* And so does an insertion.                                                 *)
LEMMA NewRowOK ==
  ASSUME clock \in Nat, NEW q \in Queue, NEW g \in Group,
         NEW payload \in Seq(Envelope), NEW delay \in Nat, NEW max \in Nat,
         NEW dedup \in Dedup \cup {NoDedup}, NEW orig \in Msg \cup {NoMsg},
         orig # NoMsg => payload # <<>>, NEW n \in Nat
  PROVE  RowOK(NewRow(q, g, payload, delay, max, dedup, orig), n)
<1> DEFINE new == NewRow(q, g, payload, delay, max, dedup, orig)
<1>1. new = [NoRow EXCEPT !.status = "queued", !.queue = q, !.groupKey = g,
                          !.payload = payload, !.maxAttempts = max,
                          !.availableAt = clock + delay, !.deduplicationId = dedup,
                          !.originalMessageId = orig]
  BY DEF NewRow
<1>2. NoRow \in MessageRow /\ NoRow.claimToken = NoToken
      /\ NoRow.leaseExpiresAt = NoTime /\ NoRow.claimedBy = Nobody
  BY NoRowOK DEF RowOK, NoRow
<1> HIDE DEF new
<1>3. new \in MessageRow
  <2>1. clock + delay \in Int
    OBVIOUS
  <2>2. QED
    BY <1>1, <1>2, <2>1 DEF MessageRow
<1>4. /\ new.status = "queued" /\ new.queue = q /\ new.payload = payload
      /\ new.originalMessageId = orig /\ new.claimToken = NoToken
      /\ new.leaseExpiresAt = NoTime /\ new.claimedBy = Nobody
  BY <1>1, <1>2 DEF MessageRow
<1>5. RowOK(new, n)
  BY <1>3, <1>4 DEF RowOK, ClaimOK, ShapeOK
<1>6. QED
  BY <1>5 DEF new

-----------------------------------------------------------------------------
(* Replacing rows.                                                           *)

(* One row replaced.                                                         *)
LEMMA ReplaceRow ==
  ASSUME NEW ms, NEW iss, NEW last \in Nat, RowsOK(ms, iss, last),
         NEW m \in Msg, NEW row, RowOK(row, iss[m]), m > last => row = NoRow
  PROVE  RowsOK([ms EXCEPT ![m] = row], iss, last)
  BY DEF RowsOK, RowOK

(* One row inserted under the next id.                                       *)
LEMMA InsertRow ==
  ASSUME NEW ms, NEW iss, NEW last \in Nat, RowsOK(ms, iss, last),
         last + 1 \in Msg, NEW row, RowOK(row, iss[last + 1])
  PROVE  RowsOK([ms EXCEPT ![last + 1] = row], iss, last + 1)
  BY DEF RowsOK, RowOK, Msg

(* Any set of rows deleted.                                                  *)
LEMMA DeleteRows ==
  ASSUME NEW ms, NEW iss \in [Msg -> Nat], NEW last, RowsOK(ms, iss, last), NEW S
  PROVE  RowsOK([m \in Msg |-> IF m \in S THEN NoRow ELSE ms[m]], iss, last)
<1>1. \A m \in Msg : RowOK(NoRow, iss[m])
  BY NoRowOK
<1>2. NoRow \in MessageRow
  BY NoRowOK DEF RowOK
<1>3. QED
  BY <1>1, <1>2 DEF RowsOK

(* The deletion of pending copies.                                           *)
LEMMA DropPendingCopiesOK ==
  ASSUME NEW ms, NEW iss \in [Msg -> Nat], NEW last, RowsOK(ms, iss, last),
         NEW m, NEW fwd, NEW qs
  PROVE  /\ RowsOK(DropPendingCopies(ms, m, fwd, qs), iss, last)
         /\ \A x \in Msg : \/ ms[x].status # "queued"
                           \/ ms[x].queue \notin qs
                           => DropPendingCopies(ms, m, fwd, qs)[x] = ms[x]
<1> DEFINE S == {x \in Msg : /\ ms[x].status = "queued"
                             /\ ms[x].queue \in qs
                             /\ x = fwd \/ Mentions(ms[x], m)}
<1>1. DropPendingCopies(ms, m, fwd, qs) = [x \in Msg |-> IF x \in S THEN NoRow ELSE ms[x]]
  BY DEF DropPendingCopies
<1>2. RowsOK([x \in Msg |-> IF x \in S THEN NoRow ELSE ms[x]], iss, last)
  BY DeleteRows
<1>3. QED
  BY <1>1, <1>2

-----------------------------------------------------------------------------
(* What the state gives to every operation.                                  *)

(* Msg is finite and holds the ids up to the bound.                          *)
LEMMA MsgFinite == IsFiniteSet(Msg) /\ \A S \in SUBSET Msg : Cardinality(S) \in Nat
<1>1. IsFiniteSet(Msg)
  BY FS_Interval, BoundAssumption DEF Msg
<1>2. \A S \in SUBSET Msg : Cardinality(S) \in Nat
  BY <1>1, FS_Subset, FS_CardinalityType
<1>3. QED
  BY <1>1, <1>2

(* The parts of a sequence that is not empty.                                *)
LEMMA HeadTailTypes ==
  ASSUME NEW S, NEW s \in Seq(S), s # <<>>
  PROVE  Head(s) \in S /\ Tail(s) \in Seq(S)
  OBVIOUS

(* An envelope around a payload.                                             *)
LEMMA ConsTypes ==
  ASSUME NEW S, NEW s \in Seq(S), NEW e \in S
  PROVE  <<e>> \o s \in Seq(S) /\ <<e>> \o s # <<>>
  OBVIOUS

(* A row that exists has a used id and a queue; a copy has its envelope.     *)
LEMMA RowFacts ==
  ASSUME DriverInv, NEW m \in Msg
  PROVE  /\ messages[m] \in MessageRow
         /\ ShapeOK(messages[m])
         /\ issued[m] \in Nat
         /\ messages[m].status # "absent" => m <= lastId /\ messages[m].queue \in Queue
         /\ IsCopy(m) => /\ m \in Present
                         /\ messages[m].payload # <<>>
                         /\ OriginalOf(m) \in Msg
                         /\ Head(messages[m].payload).from \in Queue
                         /\ Tail(messages[m].payload) \in Seq(Envelope)
<1>1. messages[m] \in MessageRow /\ ShapeOK(messages[m]) /\ issued[m] \in Nat
  BY DEF DriverInv, TypeOK, RowsOK, RowOK
<1>2. messages[m].status # "absent" => m <= lastId
  BY DEF DriverInv, TypeOK, RowsOK, NoRow, Msg
<1>3. messages[m].status # "absent" => messages[m].queue \in Queue
  BY <1>1 DEF ShapeOK
<1>4. ASSUME IsCopy(m)
      PROVE  /\ m \in Present
             /\ messages[m].payload # <<>>
             /\ OriginalOf(m) \in Msg
             /\ Head(messages[m].payload).from \in Queue
             /\ Tail(messages[m].payload) \in Seq(Envelope)
  <2>1. messages[m].payload # <<>>
    BY <1>1, <1>4 DEF IsCopy, ShapeOK
  <2>2. m \in Present
    BY <1>1, <2>1 DEF ShapeOK, Present
  <2>3. messages[m].payload \in Seq(Envelope)
        /\ messages[m].originalMessageId \in Msg \cup {NoMsg}
    BY <1>1 DEF MessageRow
  <2>4. Head(messages[m].payload) \in Envelope /\ Tail(messages[m].payload) \in Seq(Envelope)
    BY <2>1, <2>3, HeadTailTypes, Zenon
  <2>5. OriginalOf(m) \in Msg /\ Head(messages[m].payload).from \in Queue
    BY <2>3, <2>4 DEF OriginalOf, Envelope
  <2>6. QED
    BY <2>1, <2>2, <2>4, <2>5
<1>5. QED
  BY <1>1, <1>2, <1>3, <1>4

(* The implicit creation of a queue keeps the type of the table.             *)
LEMMA EnsureQueueOK ==
  ASSUME queues \in [Queue -> QueueRow], NEW q \in Queue
  PROVE  /\ EnsureQueue(q) => queues' \in [Queue -> QueueRow]
         /\ DefaultAttempts(q) \in Nat
<1>1. AutoQueue \in QueueRow
  BY BoundAssumption DEF AutoQueue, QueueRow
<1>2. QED
  BY <1>1 DEF EnsureQueue, DefaultAttempts, QueueRow

(* The ids jobs are known by.                                                *)
LEMMA JobsOfOK ==
  ASSUME job \in [Msg -> Msg \cup {NoMsg}], NEW ms
  PROVE  JobsOf(ms) \subseteq Msg \cup {NoMsg}
  BY DEF JobsOf

(* A link to a copy does not disturb a row.                                  *)
LEMMA LinkOK ==
  ASSUME NEW n, NEW row, RowOK(row, n), NEW id \in Msg \cup {NoMsg}
  PROVE  RowOK([row EXCEPT !.forwardedToMessageId = id], n)
<1> DEFINE new == [row EXCEPT !.forwardedToMessageId = id]
<1>1. row \in MessageRow
  BY DEF RowOK
<1>2. new \in MessageRow
  BY <1>1 DEF MessageRow
<1>3. ClaimOK(new, n) /\ ShapeOK(new)
  BY <1>1 DEF RowOK, ClaimOK, ShapeOK, MessageRow
<1>4. QED
  BY <1>2, <1>3 DEF RowOK

(* The parts of the type invariant that are not the rows.                    *)
RestOK ==
  /\ queues \in [Queue -> QueueRow]
  /\ lastId \in 0 .. MaxMsg
  /\ issued \in [Msg -> Nat]
  /\ clock \in Nat
  /\ tx \in [op : {"idle", "reclaim", "retryDead", "retryCopies"},
             todo : SUBSET Msg, queue : Queue \cup {NoQueue}, left : Nat]
  /\ job \in [Msg -> Msg \cup {NoMsg}]
  /\ revived \in SUBSET Msg
  /\ strictClaim \in SUBSET Msg
  /\ dropped \in SUBSET (Msg \cup {NoMsg})

(* The invariant in two parts.                                               *)
LEMMA DriverInvParts ==
  DriverInv <=> RestOK /\ RowsOK(messages, issued, lastId) /\ TxOK
  BY DEF DriverInv, TypeOK, RestOK, RowsOK

(* While no transaction is open there is nothing to visit.                   *)
LEMMA IdleTx == NoTransaction => tx.todo = {} /\ TxOK
  BY DEF NoTransaction, Idle, TxOK

(* How the parts make up the invariant after a step.                         *)
LEMMA DriverInvNext ==
  ASSUME RestOK', RowsOK(messages', issued', lastId'), TxOK'
  PROVE  DriverInv'
  BY DEF DriverInv, TypeOK, RestOK, RowsOK

(* A step outside a transaction that leaves tx alone has nothing to prove of *)
(* the rows to visit.                                                        *)
LEMMA TxUntouched == NoTransaction /\ UNCHANGED tx => TxOK'
  BY DEF NoTransaction, Idle, TxOK

-----------------------------------------------------------------------------
(* One lemma for each operation outside a transaction.                       *)

(* upsertQueue and Tick touch no row.                                        *)
LEMMA UpsertQueueKeeps ==
  ASSUME DriverInv, NEW q \in Queue, NEW dto \in QueueDto[q], UpsertQueue(q, dto)
  PROVE  DriverInv'
<1>1. dto \in QueueRow
  BY DtoAssumption
<1>2. RestOK /\ RowsOK(messages, issued, lastId)
  BY DriverInvParts
<1>3. RestOK'
  BY <1>1, <1>2 DEF UpsertQueue, RestOK, history
<1>4. RowsOK(messages', issued', lastId')
  BY <1>2 DEF UpsertQueue
<1>5. TxOK'
  BY TxUntouched DEF UpsertQueue
<1>6. QED
  BY <1>3, <1>4, <1>5, DriverInvNext

(* Time passes.                                                              *)
LEMMA TickKeeps == DriverInv /\ Tick => DriverInv'
<1> SUFFICES ASSUME DriverInv, Tick PROVE DriverInv'
  OBVIOUS
<1>1. RestOK /\ RowsOK(messages, issued, lastId)
  BY DriverInvParts
<1>2. RestOK'
  BY <1>1 DEF Tick, RestOK, table, history
<1>3. RowsOK(messages', issued', lastId')
  BY <1>1 DEF Tick, table
<1>4. TxOK'
  BY TxUntouched DEF Tick
<1>5. QED
  BY <1>2, <1>3, <1>4, DriverInvNext

(* deleteQueue, cleanup and purge delete rows.                               *)
LEMMA RemoveKeeps ==
  ASSUME DriverInv, NoTransaction, NEW S, Remove(S), queues' \in [Queue -> QueueRow]
  PROVE  DriverInv'
<1>1. RestOK /\ RowsOK(messages, issued, lastId)
  BY DriverInvParts
<1>2. RowsOK(messages', issued', lastId')
  <2>1. issued \in [Msg -> Nat]
    BY <1>1 DEF RestOK
  <2>2. RowsOK([m \in Msg |-> IF m \in S THEN NoRow ELSE messages[m]], issued, lastId)
    BY <1>1, <2>1, DeleteRows
  <2>3. QED
    BY <2>2 DEF Remove
<1>3. JobsOf(messages) \subseteq Msg \cup {NoMsg}
  BY <1>1, JobsOfOK DEF RestOK
<1>4. RestOK'
  BY <1>1, <1>3 DEF Remove, RestOK
<1>5. TxOK'
  BY TxUntouched DEF Remove
<1>6. QED
  BY <1>2, <1>4, <1>5, DriverInvNext

(* deleteQueue.                                                              *)
LEMMA DeleteQueueKeeps ==
  ASSUME DriverInv, NEW q \in Queue, DeleteQueue(q) PROVE DriverInv'
<1>1. MissingQueue \in QueueRow
  BY DEF MissingQueue, QueueRow
<1>2. queues' \in [Queue -> QueueRow]
  BY <1>1 DEF DeleteQueue, DriverInv, TypeOK
<1>3. QED
  BY <1>2, RemoveKeeps DEF DeleteQueue

(* send.                                                                     *)
LEMMA SendKeeps ==
  ASSUME DriverInv, NEW q \in Queue, NEW g \in Group, NEW delay \in Nat,
         NEW max \in Nat, NEW dedup \in Dedup \cup {NoDedup},
         Send(q, g, delay, max, dedup)
  PROVE  DriverInv'
<1>1. RestOK /\ RowsOK(messages, issued, lastId)
  BY DriverInvParts
<1>2. queues' \in [Queue -> QueueRow]
  BY <1>1, EnsureQueueOK DEF Send, RestOK
<1>3. TxOK'
  BY TxUntouched DEF Send
<1>4. CASE Duplicates(q, dedup) # {}
  <2>1. UNCHANGED <<messages, lastId, job, issued, clock, tx, revived, strictClaim, dropped>>
    BY <1>4 DEF Send
  <2>2. RestOK' /\ RowsOK(messages', issued', lastId')
    BY <1>1, <1>2, <2>1 DEF RestOK
  <2>3. QED
    BY <1>3, <2>2, DriverInvNext
<1>5. CASE Duplicates(q, dedup) = {}
  <2> DEFINE row == NewRow(q, g, <<>>, delay, max, dedup, NoMsg)
  <2>1. NextId \in Msg /\ lastId' = lastId + 1 /\ lastId \in Nat
    BY <1>1, <1>5, BoundAssumption DEF Send, HasRoom, NextId, Msg, RestOK
  <2>2. messages' = [messages EXCEPT ![lastId + 1] = row]
        /\ UNCHANGED <<issued, clock, tx, revived, strictClaim, dropped>>
        /\ job' = [job EXCEPT ![NextId] = NextId]
    BY <1>5 DEF Send, NextId
  <2>3. RowOK(row, issued[lastId + 1])
    <3>1. <<>> \in Seq(Envelope) /\ issued[lastId + 1] \in Nat
      BY <1>1, <2>1 DEF RestOK, NextId
    <3>2. QED
      BY <1>1, <3>1, NewRowOK DEF RestOK
  <2> HIDE DEF row
  <2>4. RowsOK(messages', issued', lastId')
    BY <1>1, <2>1, <2>2, <2>3, InsertRow DEF NextId
  <2>5. RestOK'
    BY <1>1, <1>2, <2>1, <2>2 DEF RestOK, Msg, NextId
  <2>6. QED
    BY <1>3, <2>4, <2>5, DriverInvNext
<1>6. QED
  BY <1>4, <1>5

(* claim: the rows of S get a token each.                                    *)
LEMMA ClaimKeeps ==
  ASSUME DriverInv, NEW q \in Queue, NEW who \in Claimant, NEW timeout \in Timeout,
         NEW limit \in Limit, Claim(q, who, timeout, limit)
  PROVE  DriverInv'
<1>1. RestOK /\ RowsOK(messages, issued, lastId)
  BY DriverInvParts
<1>2. PICK S \in SUBSET Candidates(q) :
        /\ messages' = [m \in Msg |->
             IF m \in S
             THEN [messages[m] EXCEPT !.status = "processing",
                                      !.claimedBy = who,
                                      !.leaseExpiresAt = clock + timeout,
                                      !.claimToken = issued[m] + 1,
                                      !.attempts = @ + 1]
             ELSE messages[m]]
        /\ issued' = [m \in Msg |-> IF m \in S THEN issued[m] + 1 ELSE issued[m]]
        /\ strictClaim' = (strictClaim \ S)
                          \cup (IF queues[q].strictOrder THEN S ELSE {})
  BY DEF Claim
<1>3. UNCHANGED <<queues, lastId, clock, tx, job, revived, dropped>>
  BY DEF Claim
<1>4. \A m \in S : m \in Msg /\ messages[m].status = "queued"
  BY DEF Candidates, GroupHeads, Claimable
<1>5. RestOK'
  <2>1. S \subseteq Msg
    BY <1>4
  <2>2. issued \in [Msg -> Nat] /\ strictClaim \in SUBSET Msg
    BY <1>1 DEF RestOK
  <2>3. issued' \in [Msg -> Nat]
    <3>1. issued' = [m \in Msg |-> IF m \in S THEN issued[m] + 1 ELSE issued[m]]
      BY <1>2
    <3>2. QED
      BY <2>2, <3>1
  <2>4. strictClaim' \in SUBSET Msg
    <3>1. strictClaim' = (strictClaim \ S)
                         \cup (IF queues[q].strictOrder THEN S ELSE {})
      BY <1>2
    <3>2. QED
      BY <2>1, <2>2, <3>1, Zenon
  <2>5. QED
    BY <1>1, <1>3, <2>3, <2>4 DEF RestOK
<1>6. ASSUME NEW m \in Msg PROVE RowOK(messages'[m], issued'[m])
  <2>1. CASE m \notin S
    BY <1>1, <1>2, <2>1 DEF RowsOK
  <2>2. CASE m \in S
    <3> DEFINE new == [messages[m] EXCEPT !.status = "processing",
                                          !.claimedBy = who,
                                          !.leaseExpiresAt = clock + timeout,
                                          !.claimToken = issued[m] + 1,
                                          !.attempts = @ + 1]
    <3>1. messages'[m] = new /\ issued'[m] = issued[m] + 1
      BY <1>2, <2>2
    <3>2. messages[m] \in MessageRow /\ ShapeOK(messages[m]) /\ issued[m] \in Nat
      BY RowFacts
    <3>3. clock + timeout \in Nat /\ messages[m].attempts + 1 \in Nat
          /\ issued[m] + 1 \in Nat /\ issued[m] + 1 > 0
      BY <1>1, <3>2, InputAssumption DEF RestOK, MessageRow
    <3>4. new \in MessageRow
      BY <3>2, <3>3 DEF MessageRow
    <3>5. ClaimOK(new, issued[m] + 1)
      BY <3>2, <3>3, NullTypes DEF MessageRow, ClaimOK
    <3>6. ShapeOK(new)
      BY <1>4, <2>2, <3>2 DEF MessageRow, ShapeOK
    <3>7. QED
      BY <3>1, <3>4, <3>5, <3>6 DEF RowOK
  <2>3. QED
    BY <2>1, <2>2
<1>7. messages' \in [Msg -> MessageRow]
  BY <1>2, <1>6 DEF RowOK
<1>8. \A m \in Msg : m > lastId' => messages'[m] = NoRow
  <2> SUFFICES ASSUME NEW m \in Msg, m > lastId PROVE messages'[m] = NoRow
    BY <1>3
  <2>1. messages[m] = NoRow
    BY <1>1 DEF RowsOK
  <2>2. m \notin S
    BY <1>4, <2>1 DEF NoRow
  <2>3. QED
    BY <1>2, <2>1, <2>2
<1>9. RowsOK(messages', issued', lastId')
  BY <1>6, <1>7, <1>8 DEF RowsOK
<1>10. TxOK'
  BY TxUntouched DEF Claim
<1>11. QED
  BY <1>5, <1>9, <1>10, DriverInvNext

(* An existing row replaced by a well-formed one.                            *)
LEMMA OneRowKeeps ==
  ASSUME DriverInv, NEW m \in Present, NEW row, RowOK(row, issued[m])
  PROVE  RowsOK([messages EXCEPT ![m] = row], issued, lastId)
<1>1. m \in Msg /\ m <= lastId /\ RowsOK(messages, issued, lastId) /\ lastId \in Nat
  BY RowFacts, DriverInvParts DEF Present, RestOK
<1>2. ~(m > lastId)
  BY <1>1 DEF Msg
<1>3. QED
  BY <1>1, <1>2, ReplaceRow

(* touch.                                                                    *)
LEMMA TouchKeeps ==
  ASSUME DriverInv, NEW m \in Msg, NEW extension \in Timeout,
         NEW token, Touch(m, extension, token)
  PROVE  DriverInv'
<1> DEFINE new == [messages[m] EXCEPT !.leaseExpiresAt = clock + extension]
<1>1. RestOK /\ RowOK(messages[m], issued[m]) /\ messages \in [Msg -> MessageRow]
  BY DriverInvParts DEF RowsOK
<1>2. messages[m].status = "processing" /\ m \in Present
  BY DEF Touch, Processing, Present
<1>3. clock + extension \in Nat
  BY <1>1, InputAssumption DEF RestOK
<1>4. new \in MessageRow
  BY <1>1, <1>3 DEF RowOK, MessageRow
<1>5. ClaimOK(new, issued[m]) /\ ShapeOK(new)
  BY <1>1, <1>2, <1>3, NullTypes DEF RowOK, MessageRow, ClaimOK, ShapeOK
<1>6. messages' = [messages EXCEPT ![m] = new]
  BY DEF Touch
<1> HIDE DEF new
<1>7. RowsOK(messages', issued', lastId')
  <2>1. RowsOK([messages EXCEPT ![m] = new], issued, lastId)
    BY <1>2, <1>4, <1>5, OneRowKeeps DEF RowOK
  <2>2. QED
    BY <1>6, <2>1 DEF Touch
<1>8. RestOK' /\ TxOK'
  BY <1>1, TxUntouched DEF Touch, RestOK, history
<1>9. QED
  BY <1>7, <1>8, DriverInvNext

(* complete.                                                                 *)
LEMMA CompleteKeeps ==
  ASSUME DriverInv, NEW m \in Msg, NEW token, Complete(m, token)
  PROVE  DriverInv'
<1>1. RestOK /\ m \in Present
  BY DriverInvParts DEF Complete, Processing, Present
<1>2. RowOK(Unclaimed(messages[m], "completed"), issued[m])
  BY <1>1, RowFacts, UnclaimedOK DEF Present
<1>3. RowsOK([messages EXCEPT ![m] = Unclaimed(messages[m], "completed")], issued, lastId)
  BY <1>1, <1>2, OneRowKeeps
<1>4. RowsOK(messages', issued', lastId')
  BY <1>3 DEF Complete
<1>5. RestOK' /\ TxOK'
  BY <1>1, TxUntouched DEF Complete, RestOK
<1>6. QED
  BY <1>4, <1>5, DriverInvNext

(* A claim given back: the row is well-formed and waits.                     *)
LEMMA RequeuedOK ==
  ASSUME DriverInv, NEW m \in Present, NEW t \in Int
  PROVE  /\ RowOK(Requeued(messages[m], t), issued[m])
         /\ Requeued(messages[m], t).status = "queued"
         /\ Requeued(messages[m], t).queue = messages[m].queue
<1> DEFINE u == Unclaimed(messages[m], "queued")
<1>1. RowOK(u, issued[m]) /\ u.status = "queued" /\ u.queue = messages[m].queue
  BY RowFacts, UnclaimedOK DEF Present
<1>2. Requeued(messages[m], t) = [u EXCEPT !.availableAt = t]
  BY DEF Requeued
<1> HIDE DEF u
<1>3. u \in MessageRow
  BY <1>1 DEF RowOK
<1>4. Requeued(messages[m], t) \in MessageRow
  BY <1>2, <1>3 DEF MessageRow
<1>5. QED
  BY <1>1, <1>2, <1>3, <1>4 DEF RowOK, ClaimOK, ShapeOK, MessageRow

(* Requeue, of fail and reclaimOrphaned.                                     *)
LEMMA RequeueKeeps ==
  ASSUME DriverInv, NEW m \in Present, NEW t \in Int, Requeue(m, t), UNCHANGED issued
  PROVE  RowsOK(messages', issued', lastId')
<1>1. RowsOK([messages EXCEPT ![m] = Requeued(messages[m], t)], issued, lastId)
  BY RequeuedOK, OneRowKeeps
<1>2. QED
  BY <1>1 DEF Requeue

(* defer.                                                                    *)
LEMMA DeferKeeps ==
  ASSUME DriverInv, NEW m \in Msg, NEW delay \in Nat, Defer(m, delay)
  PROVE  DriverInv'
<1> DEFINE row == Requeued(messages[m], clock + delay)
<1> DEFINE new == Deferred(messages[m], clock + delay)
<1>1. RestOK /\ m \in Present
  BY DriverInvParts DEF Defer, Processing, Present
<1>2. RowOK(row, issued[m]) /\ row.status = "queued"
  BY <1>1, RequeuedOK DEF RestOK
<1>3. new = [row EXCEPT !.attempts = Refunded(row.attempts)]
  BY DEF Deferred
<1>4. messages' = [messages EXCEPT ![m] = new]
  BY DEF Defer
<1> HIDE DEF row, new
<1>5. row \in MessageRow
  BY <1>2 DEF RowOK
<1>6. new \in MessageRow
  <2>1. Refunded(row.attempts) \in Nat
    BY <1>5 DEF MessageRow, Refunded
  <2>2. QED
    BY <1>3, <1>5, <2>1 DEF MessageRow
<1>7. RowOK(new, issued[m])
  BY <1>2, <1>3, <1>5, <1>6 DEF RowOK, ClaimOK, ShapeOK, MessageRow
<1>8. RowsOK([messages EXCEPT ![m] = new], issued, lastId)
  BY <1>1, <1>7, OneRowKeeps
<1>9. RowsOK(messages', issued', lastId')
  BY <1>4, <1>8 DEF Defer
<1>10. RestOK' /\ TxOK'
  BY <1>1, TxUntouched DEF Defer, RestOK, history
<1>11. QED
  BY <1>9, <1>10, DriverInvNext

-----------------------------------------------------------------------------
(* Dead letters.                                                             *)

(* A row becomes a dead letter, and its copy is inserted in another queue;   *)
(* the rows being processed are not disturbed.                               *)
LEMMA DeadLetterKeeps ==
  ASSUME DriverInv, NEW m \in Present, DeadLetter(m), UNCHANGED <<issued, clock>>
  PROVE  /\ RowsOK(messages', issued', lastId')
         /\ queues' \in [Queue -> QueueRow]
         /\ lastId' \in 0 .. MaxMsg
         /\ job' \in [Msg -> Msg \cup {NoMsg}]
         /\ revived' \in SUBSET Msg
         /\ \A x \in Msg : Processing(x) /\ x # m => messages'[x] = messages[x]
<1> DEFINE row == messages[m]
<1> DEFINE dead == [messages EXCEPT ![m] = Unclaimed(row, "dead_letter")]
<1> DEFINE dlq == ForwardsTo(m)
<1> DEFINE payload == <<[of |-> m, from |-> row.queue]>> \o row.payload
<1> DEFINE copy == NewRow(dlq, row.groupKey, payload, 0, DefaultAttempts(dlq), NoDedup, m)
<1> DEFINE kept == DropPendingCopies(dead, m, row.forwardedToMessageId, {dlq})
<1>1. RestOK /\ RowsOK(messages, issued, lastId) /\ m \in Msg
      /\ messages \in [Msg -> MessageRow]
  BY DriverInvParts DEF Present, RowsOK
<1>2. row \in MessageRow /\ ShapeOK(row) /\ issued[m] \in Nat
      /\ row.queue \in Queue /\ m <= lastId
  BY <1>1, RowFacts DEF Present
<1>3. RowOK(Unclaimed(row, "dead_letter"), issued[m])
      /\ Unclaimed(row, "dead_letter").status = "dead_letter"
  BY <1>2, UnclaimedOK
<1>4. RowsOK(dead, issued, lastId)
  BY <1>3, OneRowKeeps
<1>5. dead[m].status = "dead_letter"
      /\ \A x \in Msg : x # m => dead[x] = messages[x]
  BY <1>1, <1>3
<1>6. revived' \in SUBSET Msg
  BY <1>1 DEF DeadLetter, RestOK
<1>7. CASE ~Forwards(m)
  <2>1. messages' = dead /\ UNCHANGED <<queues, lastId, job>>
    BY <1>7 DEF DeadLetter
  <2>2. \A x \in Msg : x # m => messages'[x] = messages[x]
    BY <1>5, <2>1
  <2> HIDE DEF dead
  <2>3. QED
    BY <1>1, <1>4, <1>6, <2>1, <2>2 DEF RestOK
<1>8. CASE Forwards(m)
  <2> DEFINE linked == [kept EXCEPT ![NextId] = copy, ![m].forwardedToMessageId = NextId]
  <2>1. /\ HasRoom(1) /\ EnsureQueue(dlq) /\ messages' = linked
        /\ lastId' = NextId /\ job' = [job EXCEPT ![NextId] = job[m]]
    BY <1>8 DEF DeadLetter
  <2>2. lastId \in Nat /\ lastId + 1 \in Msg /\ NextId = lastId + 1 /\ m # lastId + 1
    BY <1>1, <1>2, <2>1, BoundAssumption DEF HasRoom, NextId, Msg, RestOK
  <2>3. dlq \in Queue
    BY <1>1, <1>2, <1>8 DEF Forwards, ForwardsTo, RestOK, QueueRow
  <2>4. queues' \in [Queue -> QueueRow] /\ DefaultAttempts(dlq) \in Nat
    BY <1>1, <2>1, <2>3, EnsureQueueOK DEF RestOK
  <2>5. RowOK(copy, issued[lastId + 1])
    <3>1. [of |-> m, from |-> row.queue] \in Envelope
      BY <1>1, <1>2 DEF Envelope
    <3>2. row.payload \in Seq(Envelope) /\ row.groupKey \in Group
      BY <1>2 DEF MessageRow
    <3>3. payload \in Seq(Envelope) /\ payload # <<>>
      BY <3>1, <3>2, ConsTypes
    <3>4. issued[lastId + 1] \in Nat /\ clock \in Nat
      BY <1>1, <2>2 DEF RestOK
    <3> HIDE DEF payload
    <3>5. QED
      BY <1>1, <2>3, <2>4, <3>2, <3>3, <3>4, NewRowOK
  <2>6. RowsOK(kept, issued, lastId)
        /\ \A x \in Msg : dead[x].status # "queued" => kept[x] = dead[x]
    <3>1. issued \in [Msg -> Nat]
      BY <1>1 DEF RestOK
    <3> HIDE DEF dead
    <3>2. QED
      BY <1>4, <3>1, DropPendingCopiesOK
  <2> DEFINE inserted == [kept EXCEPT ![lastId + 1] = copy]
  <2>7. RowsOK(inserted, issued, lastId + 1)
    <3> HIDE DEF kept, copy
    <3>1. QED
      BY <2>2, <2>5, <2>6, InsertRow
  <2>8. RowOK([inserted[m] EXCEPT !.forwardedToMessageId = NextId], issued[m])
    <3>1. RowOK(inserted[m], issued[m])
      BY <1>1, <2>7 DEF RowsOK
    <3> HIDE DEF inserted
    <3>2. QED
      BY <2>2, <3>1, LinkOK
  <2>9. linked = [inserted EXCEPT ![m] = [inserted[m] EXCEPT !.forwardedToMessageId = NextId]]
    <3> HIDE DEF kept, copy
    <3>1. QED
      BY <2>2
  <2>10. RowsOK(linked, issued, lastId + 1)
    <3> DEFINE link == [inserted[m] EXCEPT !.forwardedToMessageId = NextId]
    <3>1. ~(m > lastId + 1) /\ lastId + 1 \in Nat /\ m \in Msg
      BY <1>1, <1>2, <2>2 DEF Msg
    <3>2. RowOK(link, issued[m])
      BY <2>8
    <3> HIDE DEF inserted, link
    <3>3. RowsOK([inserted EXCEPT ![m] = link], issued, lastId + 1)
      BY <2>7, <3>1, <3>2, ReplaceRow
    <3>4. QED
      BY <2>9, <3>3 DEF link
  <2>11. lastId' \in 0 .. MaxMsg
    BY <2>1, <2>2 DEF Msg
  <2>12. job' \in [Msg -> Msg \cup {NoMsg}]
    BY <1>1, <2>1, <2>2 DEF RestOK
  <2>13. ASSUME NEW x \in Msg, Processing(x), x # m PROVE messages'[x] = messages[x]
    <3>1. dead[x] = messages[x] /\ dead[x].status # "queued"
      BY <1>5, <2>13 DEF Processing
    <3>2. kept[x] = messages[x]
      BY <2>6, <3>1
    <3>3. x # lastId + 1
      BY <1>1, <2>2, <2>13, RowFacts DEF Processing, Msg
    <3>4. kept \in [Msg -> MessageRow]
      BY <2>6 DEF RowsOK
    <3> HIDE DEF kept, copy
    <3>5. QED
      BY <2>1, <2>2, <2>13, <3>2, <3>3, <3>4
  <2> HIDE DEF linked
  <2>14. QED
    BY <1>6, <2>1, <2>2, <2>4, <2>10, <2>11, <2>12, <2>13
<1>9. QED
  BY <1>7, <1>8

(* fail.                                                                     *)
LEMMA FailKeeps ==
  ASSUME DriverInv, NEW m \in Msg, NEW backoff \in Delay \cup {QueueDefault},
         NEW token, Fail(m, backoff, token)
  PROVE  DriverInv'
<1>1. RestOK /\ m \in Present /\ NoTransaction
      /\ UNCHANGED <<issued, clock, tx, strictClaim, dropped>>
  BY DriverInvParts DEF Fail, Processing, Present
<1>2. TxOK'
  BY <1>1, TxUntouched
<1>3. CASE DeadLetter(m)
  <2>1. RestOK' /\ RowsOK(messages', issued', lastId')
    BY <1>1, <1>3, DeadLetterKeeps DEF RestOK
  <2>2. QED
    BY <1>2, <2>1, DriverInvNext
<1>4. CASE ~DeadLetter(m)
  <2> DEFINE t == clock + BaseBackoff(m, backoff) * 2 ^ (messages[m].attempts - 1)
  <2>1. Requeue(m, t)
    BY <1>4 DEF Fail
  <2>2. BaseBackoff(m, backoff) \in Int /\ messages[m].attempts \in Nat
    BY <1>1, RowFacts, InputAssumption
    DEF BaseBackoff, RestOK, QueueRow, MessageRow, Present, QueueDefault
  <2>3. t \in Int
    BY <1>1, <2>2 DEF RestOK
  <2> HIDE DEF t
  <2>4. RowsOK(messages', issued', lastId')
    BY <1>1, <2>1, <2>3, RequeueKeeps
  <2>5. RestOK'
    BY <1>1, <2>1 DEF RestOK, Requeue
  <2>6. QED
    BY <1>2, <2>4, <2>5, DriverInvNext
<1>5. QED
  BY <1>3, <1>4

(* forceDeadLetter.                                                          *)
LEMMA ForceDeadLetterKeeps ==
  ASSUME DriverInv, NEW m \in Msg, ForceDeadLetter(m) PROVE DriverInv'
<1>1. RestOK /\ m \in Present /\ NoTransaction /\ DeadLetter(m)
      /\ UNCHANGED <<issued, clock, tx, strictClaim, dropped>>
  BY DriverInvParts DEF ForceDeadLetter, Skippable, Present
<1>2. RestOK' /\ RowsOK(messages', issued', lastId') /\ TxOK'
  BY <1>1, DeadLetterKeeps, TxUntouched DEF RestOK
<1>3. QED
  BY <1>2, DriverInvNext

(* cancel: pending copies and the row go, then the links to it.              *)
LEMMA CancelKeeps ==
  ASSUME DriverInv, NEW m \in Msg, Cancel(m) PROVE DriverInv'
<1> DEFINE kept == DropPendingCopies(messages, m, messages[m].forwardedToMessageId, Queue)
<1> DEFINE gone == [kept EXCEPT ![m] = NoRow]
<1>1. RestOK /\ RowsOK(messages, issued, lastId) /\ NoTransaction
  BY DriverInvParts DEF Cancel
<1>2. messages' = [x \in Msg |->
                     IF gone[x].forwardedToMessageId = m
                     THEN [gone[x] EXCEPT !.forwardedToMessageId = NoMsg] ELSE gone[x]]
  BY DEF Cancel
<1>3. RowsOK(gone, issued, lastId) /\ gone \in [Msg -> MessageRow]
  <2>1. issued \in [Msg -> Nat] /\ lastId \in Nat
    BY <1>1 DEF RestOK
  <2>2. RowsOK(kept, issued, lastId)
    BY <1>1, <2>1, DropPendingCopiesOK
  <2>3. RowOK(NoRow, issued[m])
    BY <2>1, NoRowOK
  <2> HIDE DEF kept
  <2>4. RowsOK([kept EXCEPT ![m] = NoRow], issued, lastId)
    BY <2>1, <2>2, <2>3, ReplaceRow
  <2>5. QED
    BY <2>4 DEF RowsOK
<1> HIDE DEF gone
<1>4. \A x \in Msg : RowOK(messages'[x], issued[x])
  <2> SUFFICES ASSUME NEW x \in Msg PROVE RowOK(messages'[x], issued[x])
    OBVIOUS
  <2>1. RowOK(gone[x], issued[x])
    BY <1>3 DEF RowsOK
  <2>2. RowOK([gone[x] EXCEPT !.forwardedToMessageId = NoMsg], issued[x])
    BY <2>1, LinkOK
  <2>3. QED
    BY <1>2, <2>1, <2>2
<1>5. \A x \in Msg : x > lastId => messages'[x] = NoRow
  <2> SUFFICES ASSUME NEW x \in Msg, x > lastId PROVE messages'[x] = NoRow
    OBVIOUS
  <2>1. gone[x] = NoRow
    BY <1>3 DEF RowsOK
  <2>2. NoRow.forwardedToMessageId # m
    BY NullTypes DEF NoRow, Msg
  <2>3. QED
    BY <1>2, <2>1, <2>2
<1>6. RowsOK(messages', issued', lastId')
  <2>1. messages' \in [Msg -> MessageRow]
    BY <1>2, <1>4 DEF RowOK
  <2>2. issued' = issued /\ lastId' = lastId
    BY DEF Cancel
  <2>3. QED
    BY <1>4, <1>5, <2>1, <2>2 DEF RowsOK
<1>7. RestOK'
  <2>1. JobsOf(messages) \subseteq Msg \cup {NoMsg}
    BY <1>1, JobsOfOK DEF RestOK
  <2>2. QED
    BY <1>1, <2>1 DEF Cancel, RestOK
<1>8. TxOK'
  BY TxUntouched DEF Cancel
<1>9. QED
  BY <1>6, <1>7, <1>8, DriverInvNext

-----------------------------------------------------------------------------
(* The retries.                                                              *)

(* A message that is no copy is reset; the dead letters that are not it stay.*)
LEMMA ResetOwnKeeps ==
  ASSUME DriverInv, NEW m \in Present, ResetOwn(m), UNCHANGED <<issued, clock>>
  PROVE  /\ RowsOK(messages', issued', lastId')
         /\ queues' \in [Queue -> QueueRow]
         /\ lastId' \in 0 .. MaxMsg
         /\ job' \in [Msg -> Msg \cup {NoMsg}]
         /\ revived' \in SUBSET Msg
         /\ \A x \in Msg : messages[x].status = "dead_letter" /\ x # m
                              => messages'[x] = messages[x]
<1> DEFINE ms == [messages EXCEPT ![m] = Reset(messages[m])]
<1>1. RestOK /\ m \in Msg /\ messages \in [Msg -> MessageRow]
  BY DriverInvParts DEF Present, RowsOK
<1>2. RowOK(Reset(messages[m]), issued[m])
  BY <1>1, RowFacts, ResetOK DEF Present, RestOK
<1>3. RowsOK(ms, issued, lastId)
  BY <1>2, OneRowKeeps
<1>4. \A x \in Msg : x # m => ms[x] = messages[x]
  BY <1>1
<1>5. messages' = DropPendingCopies(ms, m, messages[m].forwardedToMessageId, Queue)
      /\ UNCHANGED <<queues, lastId, job>>
  BY DEF ResetOwn
<1>6. revived' \in SUBSET Msg
  BY <1>1 DEF ResetOwn, RestOK
<1> HIDE DEF ms
<1>7. RowsOK(messages', issued, lastId)
      /\ \A x \in Msg : ms[x].status # "queued" => messages'[x] = ms[x]
  <2>1. issued \in [Msg -> Nat]
    BY <1>1 DEF RestOK
  <2>2. QED
    BY <1>3, <1>5, <2>1, DropPendingCopiesOK
<1>8. QED
  BY <1>1, <1>4, <1>5, <1>6, <1>7 DEF RestOK

(* The original of a copy is reset or sent again, and the copy is deleted.   *)
(* If no other pending copies are deleted (qs is empty), the other copies    *)
(* are still copies.                                                         *)
LEMMA RestoreOriginalKeeps ==
  ASSUME DriverInv, NEW c \in Msg, IsCopy(c), NEW qs, RestoreOriginal(c, qs),
         UNCHANGED <<issued, clock>>
  PROVE  /\ RowsOK(messages', issued', lastId')
         /\ queues' \in [Queue -> QueueRow]
         /\ lastId' \in 0 .. MaxMsg
         /\ job' \in [Msg -> Msg \cup {NoMsg}]
         /\ revived' \in SUBSET Msg
         /\ qs = {} => \A x \in Msg : IsCopy(x) /\ x # c =>
              /\ messages'[x].payload = messages[x].payload
              /\ messages'[x].originalMessageId = messages[x].originalMessageId
<1> DEFINE orig == OriginalOf(c)
<1> DEFINE top == Head(messages[c].payload)
<1> DEFINE rest == Tail(messages[c].payload)
<1>1. RestOK /\ RowsOK(messages, issued, lastId) /\ messages \in [Msg -> MessageRow]
      /\ lastId \in Nat /\ issued \in [Msg -> Nat]
  BY DriverInvParts DEF RowsOK, RestOK
<1>2. /\ c \in Present /\ orig \in Msg /\ top.from \in Queue
      /\ rest \in Seq(Envelope) /\ messages[c].groupKey \in Group /\ c <= lastId
  BY RowFacts DEF Present, MessageRow
<1>3. \A x \in Msg : IsCopy(x) <=> \/ messages[x].originalMessageId # NoMsg
                                   \/ messages[x].payload # <<>>
  BY DEF IsCopy
<1>4. RowOK(NoRow, issued[c])
  BY <1>1, NoRowOK
<1>5. CASE orig \in Present
  <2> DEFINE reset == [messages EXCEPT ![orig] = Reset(messages[orig])]
  <2> DEFINE ms == [reset EXCEPT ![c] = NoRow]
  <2>1. messages' = DropPendingCopies(ms, orig, NoMsg, qs)
        /\ UNCHANGED <<queues, lastId, job>>
        /\ revived' = {x \in revived \cup {orig} : messages'[x].status # "absent"}
    BY <1>5 DEF RestoreOriginal
  <2>2. /\ RowOK(Reset(messages[orig]), issued[orig])
        /\ Reset(messages[orig]).payload = messages[orig].payload
        /\ Reset(messages[orig]).originalMessageId = messages[orig].originalMessageId
    BY <1>1, <1>2, <1>5, RowFacts, ResetOK DEF Present, RestOK
  <2>3. RowsOK(reset, issued, lastId)
    BY <1>5, <2>2, OneRowKeeps
  <2>4. \A x \in Msg : x # c =>
          /\ ms[x].payload = messages[x].payload
          /\ ms[x].originalMessageId = messages[x].originalMessageId
    BY <1>1, <1>2, <2>2
  <2> HIDE DEF reset
  <2>5. RowsOK(ms, issued, lastId)
    BY <1>1, <1>2, <1>4, <2>3, ReplaceRow
  <2> HIDE DEF ms, orig
  <2>6. /\ RowsOK(messages', issued, lastId)
        /\ qs = {} => \A x \in Msg : messages'[x] = ms[x]
    BY <1>1, <2>1, <2>5, DropPendingCopiesOK
  <2>7. qs = {} => \A x \in Msg : IsCopy(x) /\ x # c =>
          /\ messages'[x].payload = messages[x].payload
          /\ messages'[x].originalMessageId = messages[x].originalMessageId
    BY <2>4, <2>6
  <2>8. revived' \in SUBSET Msg
    BY <1>1, <1>2, <2>1 DEF RestOK
  <2>9. QED
    BY <1>1, <2>1, <2>6, <2>7, <2>8 DEF RestOK
<1>6. CASE orig \notin Present
  <2> DEFINE new == NewRow(top.from, messages[c].groupKey, rest, 0,
                           DefaultAttempts(top.from), NoDedup, NoMsg)
  <2> DEFINE inserted == [messages EXCEPT ![NextId] = new]
  <2> DEFINE ms == [inserted EXCEPT ![c] = NoRow]
  <2>1. /\ HasRoom(1) /\ EnsureQueue(top.from)
        /\ messages' = DropPendingCopies(ms, orig, NoMsg, qs)
        /\ revived' = {x \in revived : messages'[x].status # "absent"}
        /\ lastId' = NextId /\ job' = [job EXCEPT ![NextId] = job[c]]
    BY <1>6 DEF RestoreOriginal
  <2>2. NextId = lastId + 1 /\ lastId + 1 \in Msg /\ lastId + 1 \in Nat
        /\ lastId' \in 0 .. MaxMsg
    BY <1>1, <2>1, BoundAssumption DEF HasRoom, NextId, Msg
  <2>3. queues' \in [Queue -> QueueRow] /\ DefaultAttempts(top.from) \in Nat
    BY <1>1, <1>2, <2>1, EnsureQueueOK DEF RestOK
  <2>4. RowOK(new, issued[lastId + 1])
    <3>1. issued[lastId + 1] \in Nat /\ clock \in Nat
      BY <1>1, <2>2 DEF RestOK
    <3> HIDE DEF top, rest
    <3>2. QED
      BY <1>2, <2>3, <3>1, NewRowOK
  <2>5. \A x \in Msg : IsCopy(x) /\ x # c => ms[x] = messages[x]
    <3> SUFFICES ASSUME NEW x \in Msg, IsCopy(x), x # c PROVE ms[x] = messages[x]
      OBVIOUS
    <3>1. x # NextId
      BY <1>1, <2>2, RowFacts DEF Present, Msg
    <3> HIDE DEF new
    <3>2. QED
      BY <1>1, <3>1
  <2> HIDE DEF new
  <2>6. RowsOK(inserted, issued, lastId + 1)
    BY <1>1, <2>2, <2>4, InsertRow
  <2> HIDE DEF inserted
  <2>7. RowsOK(ms, issued, lastId + 1)
    BY <1>1, <1>2, <1>4, <2>2, <2>6, ReplaceRow
  <2> HIDE DEF ms, orig, top, rest
  <2>8. /\ RowsOK(messages', issued, lastId + 1)
        /\ qs = {} => \A x \in Msg : messages'[x] = ms[x]
    BY <1>1, <2>1, <2>7, DropPendingCopiesOK
  <2>9. qs = {} => \A x \in Msg : IsCopy(x) /\ x # c =>
          /\ messages'[x].payload = messages[x].payload
          /\ messages'[x].originalMessageId = messages[x].originalMessageId
    BY <2>5, <2>8
  <2>10. job' \in [Msg -> Msg \cup {NoMsg}] /\ revived' \in SUBSET Msg
    BY <1>1, <2>1, <2>2 DEF RestOK
  <2>11. QED
    BY <2>1, <2>2, <2>3, <2>8, <2>9, <2>10
<1>7. QED
  BY <1>5, <1>6

(* retryMessage.                                                             *)
LEMMA RetryMessageKeeps ==
  ASSUME DriverInv, NEW m \in Msg, RetryMessage(m) PROVE DriverInv'
<1>1. RestOK /\ m \in Present /\ NoTransaction
      /\ UNCHANGED <<issued, clock, tx, strictClaim, dropped>>
  BY DriverInvParts DEF RetryMessage
<1>2. TxOK'
  BY <1>1, TxUntouched
<1>3. CASE ResetOwn(m)
  <2>1. RestOK' /\ RowsOK(messages', issued', lastId')
    BY <1>1, <1>3, ResetOwnKeeps DEF RestOK
  <2>2. QED
    BY <1>2, <2>1, DriverInvNext
<1>4. CASE ~ResetOwn(m)
  <2>1. IsCopy(m) /\ RestoreOriginal(m, {messages[m].queue})
    BY <1>4 DEF RetryMessage
  <2>2. RestOK' /\ RowsOK(messages', issued', lastId')
    BY <1>1, <2>1, RestoreOriginalKeeps DEF RestOK
  <2>3. QED
    BY <1>2, <2>2, DriverInvNext
<1>5. QED
  BY <1>3, <1>4

-----------------------------------------------------------------------------
(* The transactions that visit one row after another.                        *)

(* The type of tx.                                                           *)
TxType ==
  [op : {"idle", "reclaim", "retryDead", "retryCopies"},
   todo : SUBSET Msg, queue : Queue \cup {NoQueue}, left : Nat]

(* A row that was visited is not visited again.                              *)
LEMMA VisitedOK ==
  ASSUME tx \in TxType, NEW m \in tx.todo
  PROVE  /\ Visited(m) \in TxType
         /\ \A x \in Visited(m).todo : x \in tx.todo /\ x # m /\ Visited(m).op = tx.op
<1>1. Idle \in TxType /\ Idle.todo = {}
  BY NullAssumption DEF Idle, TxType
<1>2. CASE tx.todo = {m}
  BY <1>1, <1>2 DEF Visited
<1>3. CASE tx.todo # {m}
  <2>1. Visited(m) = [tx EXCEPT !.todo = tx.todo \ {m}]
    BY <1>3 DEF Visited
  <2>2. QED
    BY <2>1 DEF TxType
<1>4. QED
  BY <1>2, <1>3

(* A cut of n rows leaves a natural number of them.                          *)
LEMMA CutLeaves ==
  ASSUME NEW S \in SUBSET Msg, NEW n \in Nat, NEW T, Cut(S, n, T)
  PROVE  n - Cardinality(T) \in Nat
  BY MsgFinite DEF Cut

(* The start of retryDeadLetterMessages selects dead letters.                *)
LEMMA BeginRetryDeadLettersKeeps ==
  ASSUME DriverInv, NEW q \in Queue, NEW limit \in Limit,
         BeginRetryDeadLetters(q, limit)
  PROVE  DriverInv'
<1>1. RestOK /\ RowsOK(messages, issued, lastId)
      /\ UNCHANGED <<queues, messages, lastId, issued, clock, job, revived,
                     strictClaim, dropped>>
  BY DriverInvParts DEF BeginRetryDeadLetters, table, history
<1>2. PICK T \in SUBSET DeadLetters(q) :
        /\ Cut(DeadLetters(q), limit, T)
        /\ tx' = [op |-> "retryDead", todo |-> T, queue |-> q,
                  left |-> limit - Cardinality(T)]
  BY DEF BeginRetryDeadLetters
<1>3. T \subseteq Msg /\ \A m \in T : messages[m].status = "dead_letter"
  BY DEF DeadLetters
<1>4. limit - Cardinality(T) \in Nat
  BY <1>2, CutLeaves, InputAssumption DEF DeadLetters
<1>5. tx' \in TxType
  BY <1>2, <1>3, <1>4 DEF TxType
<1>6. TxOK'
  BY <1>1, <1>2, <1>3 DEF TxOK
<1>7. RestOK' /\ RowsOK(messages', issued', lastId')
  BY <1>1, <1>5 DEF RestOK, TxType
<1>8. QED
  BY <1>6, <1>7, DriverInvNext

(* Each dead letter is reset; the others are still dead letters.             *)
LEMMA RetryDeadStepKeeps ==
  ASSUME DriverInv, NEW m \in Msg, RetryDeadStep(m) PROVE DriverInv'
<1>1. RestOK /\ TxOK /\ tx.op = "retryDead" /\ m \in tx.todo /\ ResetOwn(m)
      /\ tx' = [tx EXCEPT !.todo = tx.todo \ {m}]
      /\ UNCHANGED <<issued, clock, strictClaim, dropped>>
  BY DriverInvParts DEF RetryDeadStep
<1>2. m \in Present
  BY <1>1 DEF TxOK, Present
<1>3. /\ RowsOK(messages', issued', lastId')
      /\ queues' \in [Queue -> QueueRow]
      /\ lastId' \in 0 .. MaxMsg
      /\ job' \in [Msg -> Msg \cup {NoMsg}]
      /\ revived' \in SUBSET Msg
      /\ \A x \in Msg : messages[x].status = "dead_letter" /\ x # m
                           => messages'[x] = messages[x]
  BY <1>1, <1>2, ResetOwnKeeps
<1>4. tx \in TxType
  BY <1>1 DEF RestOK, TxType
<1>5. tx' \in TxType /\ tx'.op = "retryDead" /\ tx'.todo = tx.todo \ {m}
      /\ tx.todo \subseteq Msg
  BY <1>1, <1>4 DEF TxType
<1>6. RestOK'
  BY <1>1, <1>3, <1>5 DEF RestOK, TxType
<1>7. TxOK'
  BY <1>1, <1>3, <1>5 DEF TxOK
<1>8. QED
  BY <1>3, <1>6, <1>7, DriverInvNext

(* What the limit leaves goes to copies.                                     *)
LEMMA BeginRetryCopiesKeeps ==
  ASSUME DriverInv, BeginRetryCopies PROVE DriverInv'
<1>1. RestOK /\ RowsOK(messages, issued, lastId)
      /\ UNCHANGED <<queues, messages, lastId, issued, clock, job, revived,
                     strictClaim, dropped>>
  BY DriverInvParts DEF BeginRetryCopies, table, history
<1>2. PICK T \in SUBSET CopiesIn(tx.queue) :
        tx' = IF T = {} THEN Idle ELSE [tx EXCEPT !.op = "retryCopies", !.todo = T]
  BY DEF BeginRetryCopies
<1>3. T \subseteq Msg /\ \A m \in T : IsCopy(m)
  BY DEF CopiesIn
<1>4. tx \in TxType
  BY <1>1 DEF RestOK, TxType
<1>5. tx' \in TxType /\ tx'.todo = T /\ (T # {} => tx'.op = "retryCopies")
  <2>1. CASE T = {}
    BY <1>2, <2>1, NullAssumption DEF Idle, TxType
  <2>2. CASE T # {}
    BY <1>2, <1>3, <1>4, <2>2 DEF TxType
  <2>3. QED
    BY <2>1, <2>2
<1>6. TxOK'
  BY <1>1, <1>3, <1>5 DEF TxOK, IsCopy
<1>7. RestOK' /\ RowsOK(messages', issued', lastId')
  BY <1>1, <1>5 DEF RestOK, TxType
<1>8. QED
  BY <1>6, <1>7, DriverInvNext

(* Each copy gives its original back; the others are still copies.           *)
LEMMA RetryCopiesStepKeeps ==
  ASSUME DriverInv, NEW m \in Msg, RetryCopiesStep(m) PROVE DriverInv'
<1>1. RestOK /\ TxOK /\ tx.op = "retryCopies" /\ m \in tx.todo
      /\ RestoreOriginal(m, {}) /\ tx' = Visited(m)
      /\ UNCHANGED <<issued, clock, strictClaim, dropped>>
  BY DriverInvParts DEF RetryCopiesStep
<1>2. IsCopy(m)
  BY <1>1 DEF TxOK
<1>3. /\ RowsOK(messages', issued', lastId')
      /\ queues' \in [Queue -> QueueRow]
      /\ lastId' \in 0 .. MaxMsg
      /\ job' \in [Msg -> Msg \cup {NoMsg}]
      /\ revived' \in SUBSET Msg
      /\ \A x \in Msg : IsCopy(x) /\ x # m =>
           /\ messages'[x].payload = messages[x].payload
           /\ messages'[x].originalMessageId = messages[x].originalMessageId
  BY <1>1, <1>2, RestoreOriginalKeeps
<1>4. tx \in TxType
  BY <1>1 DEF RestOK, TxType
<1>5. /\ tx' \in TxType
      /\ \A x \in tx'.todo : x \in tx.todo /\ x # m /\ tx'.op = tx.op
  BY <1>1, <1>4, VisitedOK
<1>6. RestOK'
  BY <1>1, <1>3, <1>5 DEF RestOK, TxType
<1>7. \A x \in tx'.todo : tx'.op = "retryCopies" /\ IsCopy(x)'
  <2> SUFFICES ASSUME NEW x \in tx'.todo PROVE tx'.op = "retryCopies" /\ IsCopy(x)'
    OBVIOUS
  <2>1. x \in tx.todo /\ x # m /\ tx'.op = "retryCopies" /\ x \in Msg
    BY <1>1, <1>4, <1>5 DEF TxType
  <2>2. IsCopy(x)
    BY <1>1, <2>1 DEF TxOK
  <2>3. messages'[x].payload = messages[x].payload
        /\ messages'[x].originalMessageId = messages[x].originalMessageId
    BY <1>3, <2>1, <2>2
  <2>4. QED
    BY <2>1, <2>2, <2>3 DEF IsCopy
<1>8. TxOK'
  BY <1>7 DEF TxOK
<1>9. QED
  BY <1>3, <1>6, <1>8, DriverInvNext

(* The start of reclaimOrphaned selects rows that are being processed.       *)
LEMMA BeginReclaimKeeps ==
  ASSUME DriverInv, NEW qs, NEW mode, BeginReclaim(qs, mode) PROVE DriverInv'
<1> DEFINE T == {m \in Msg : messages[m].queue \in qs /\ Orphaned(mode, m)}
<1>1. RestOK /\ RowsOK(messages, issued, lastId)
      /\ UNCHANGED <<queues, messages, lastId, issued, clock, job, revived,
                     strictClaim, dropped>>
  BY DriverInvParts DEF BeginReclaim, table, history
<1>2. tx' = [op |-> "reclaim", todo |-> T, queue |-> NoQueue, left |-> 0]
  BY DEF BeginReclaim
<1>3. T \subseteq Msg /\ \A m \in T : Processing(m)
  BY DEF Orphaned
<1> HIDE DEF T
<1>4. tx' \in TxType
  BY <1>2, <1>3 DEF TxType
<1>5. TxOK'
  BY <1>1, <1>2, <1>3 DEF TxOK, Processing
<1>6. RestOK' /\ RowsOK(messages', issued', lastId')
  BY <1>1, <1>4 DEF RestOK, TxType
<1>7. QED
  BY <1>5, <1>6, DriverInvNext

(* Each of them waits again or becomes a dead letter; the others are still   *)
(* being processed.                                                          *)
LEMMA ReclaimStepKeeps ==
  ASSUME DriverInv, NEW m \in Msg, ReclaimStep(m) PROVE DriverInv'
<1>1. RestOK /\ TxOK /\ tx.op = "reclaim" /\ m \in tx.todo
      /\ (DeadLetter(m) \/ Requeue(m, clock)) /\ tx' = Visited(m)
      /\ UNCHANGED <<issued, clock, strictClaim, dropped>>
  BY DriverInvParts DEF ReclaimStep
<1>2. m \in Present
  BY <1>1 DEF TxOK, Present, Processing
<1>3. /\ RowsOK(messages', issued', lastId')
      /\ queues' \in [Queue -> QueueRow]
      /\ lastId' \in 0 .. MaxMsg
      /\ job' \in [Msg -> Msg \cup {NoMsg}]
      /\ revived' \in SUBSET Msg
      /\ \A x \in Msg : Processing(x) /\ x # m => messages'[x] = messages[x]
  <2>1. CASE DeadLetter(m)
    BY <1>1, <1>2, <2>1, DeadLetterKeeps
  <2>2. CASE Requeue(m, clock)
    <3>1. RowsOK(messages', issued', lastId')
      BY <1>1, <1>2, <2>2, RequeueKeeps DEF RestOK
    <3>2. \A x \in Msg : x # m => messages'[x] = messages[x]
      BY <1>2, <2>2, DriverInvParts DEF Requeue, RowsOK
    <3>3. QED
      BY <1>1, <2>2, <3>1, <3>2 DEF Requeue, RestOK
  <2>3. QED
    BY <1>1, <2>1, <2>2
<1>4. tx \in TxType
  BY <1>1 DEF RestOK, TxType
<1>5. /\ tx' \in TxType
      /\ \A x \in tx'.todo : x \in tx.todo /\ x # m /\ tx'.op = tx.op
  BY <1>1, <1>4, VisitedOK
<1>6. RestOK'
  BY <1>1, <1>3, <1>5 DEF RestOK, TxType
<1>7. \A x \in tx'.todo : tx'.op = "reclaim" /\ Processing(x)'
  <2> SUFFICES ASSUME NEW x \in tx'.todo PROVE tx'.op = "reclaim" /\ Processing(x)'
    OBVIOUS
  <2>1. x \in tx.todo /\ x # m /\ tx'.op = "reclaim" /\ x \in Msg
    BY <1>1, <1>4, <1>5 DEF TxType
  <2>2. Processing(x)
    BY <1>1, <2>1 DEF TxOK
  <2>3. QED
    BY <1>3, <2>1, <2>2 DEF Processing
<1>8. TxOK'
  BY <1>7 DEF TxOK
<1>9. QED
  BY <1>3, <1>6, <1>8, DriverInvNext

-----------------------------------------------------------------------------
(* The whole.                                                                *)

(* At the start the tables are empty.                                        *)
LEMMA DriverInvInit == Init => DriverInv
<1> SUFFICES ASSUME Init PROVE DriverInv
  OBVIOUS
<1>1. MissingQueue \in QueueRow
  BY DEF MissingQueue, QueueRow
<1>2. NoRow \in MessageRow /\ \A n \in Nat : RowOK(NoRow, n)
  BY NoRowOK DEF RowOK
<1>3. RowsOK(messages, issued, lastId)
  BY <1>2 DEF Init, RowsOK
<1>4. Idle \in TxType /\ Idle.todo = {}
  BY NullAssumption DEF Idle, TxType
<1>5. RestOK /\ TxOK
  BY <1>1, <1>4, BoundAssumption DEF Init, RestOK, TxOK, TxType, NoMsg
<1>6. QED
  BY <1>3, <1>5, DriverInvParts

(* Every operation on a queue.                                               *)
LEMMA QueueStepKeeps ==
  ASSUME DriverInv, NEW q \in Queue, QueueStep(q) PROVE DriverInv'
<1>1. CASE \E dto \in QueueDto[q] : UpsertQueue(q, dto)
  BY <1>1, UpsertQueueKeeps
<1>2. CASE DeleteQueue(q)
  BY <1>2, DeleteQueueKeeps
<1>3. CASE \E g \in Group, delay \in Delay \cup {0}, max \in MaxAttemptsOf(q),
              dedup \in Dedup \cup {NoDedup} : Send(q, g, delay, max, dedup)
  <2>1. MaxAttemptsOf(q) \subseteq Nat /\ Delay \cup {0} \subseteq Nat
    <3>1. DefaultAttempts(q) \in Nat
      BY EnsureQueueOK, DriverInvParts DEF RestOK
    <3>2. SendAttempts \subseteq Nat /\ Delay \subseteq Nat /\ 0 \in Nat
      BY InputAssumption
    <3>3. MaxAttemptsOf(q) \subseteq Nat
      BY <3>1, <3>2, Zenon DEF MaxAttemptsOf
    <3>4. Delay \cup {0} \subseteq Nat
      BY <3>2, Zenon
    <3>5. QED
      BY <3>3, <3>4
  <2>2. QED
    BY <1>3, <2>1, SendKeeps
<1>4. CASE \E who \in Claimant, timeout \in Timeout, limit \in Limit :
              Claim(q, who, timeout, limit)
  BY <1>4, ClaimKeeps
<1>5. CASE \E limit \in Limit : BeginRetryDeadLetters(q, limit)
  BY <1>5, BeginRetryDeadLettersKeeps
<1>6. CASE \E qs \in {{q}, Queue}, mode \in {"expired", "deadWorkers", "forceAll"} :
              BeginReclaim(qs, mode)
  BY <1>6, BeginReclaimKeeps
<1>7. CASE \E S : NoTransaction /\ Remove(S) /\ UNCHANGED queues
  <2>1. UNCHANGED queues => queues' \in [Queue -> QueueRow]
    BY DriverInvParts DEF RestOK
  <2>2. QED
    BY <1>7, <2>1, RemoveKeeps
<1>8. CASE \E qs \in {{q}, Queue} : Cleanup(qs)
  BY <1>7, <1>8 DEF Cleanup
<1>9. CASE Purge(q)
  BY <1>7, <1>9 DEF Purge
<1>10. CASE \E status \in {"queued", "completed", "dead_letter", "processing"} :
              PurgeStatus(q, status)
  BY <1>7, <1>10 DEF PurgeStatus
<1>11. QED
  BY <1>1, <1>2, <1>3, <1>4, <1>5, <1>6, <1>8, <1>9, <1>10, Zenon DEF QueueStep

(* Every operation on a message.                                             *)
LEMMA MessageStepKeeps ==
  ASSUME DriverInv, NEW m \in Msg, MessageStep(m) PROVE DriverInv'
<1>1. CASE \E extension \in Timeout, token \in TokensOf(m) : Touch(m, extension, token)
  BY <1>1, TouchKeeps
<1>2. CASE \E token \in TokensOf(m) : Complete(m, token)
  BY <1>2, CompleteKeeps
<1>3. CASE \E backoff \in Delay \cup {QueueDefault}, token \in TokensOf(m) :
              Fail(m, backoff, token)
  BY <1>3, FailKeeps
<1>4. CASE \E delay \in Delay : Defer(m, delay)
  BY <1>4, DeferKeeps, InputAssumption
<1>5. CASE ForceDeadLetter(m)
  BY <1>5, ForceDeadLetterKeeps
<1>6. CASE Cancel(m)
  BY <1>6, CancelKeeps
<1>7. CASE RetryMessage(m)
  BY <1>7, RetryMessageKeeps
<1>8. CASE RetryDeadStep(m)
  BY <1>8, RetryDeadStepKeeps
<1>9. CASE RetryCopiesStep(m)
  BY <1>9, RetryCopiesStepKeeps
<1>10. CASE ReclaimStep(m)
  BY <1>10, ReclaimStepKeeps
<1>11. QED
  BY <1>1, <1>2, <1>3, <1>4, <1>5, <1>6, <1>7, <1>8, <1>9, <1>10 DEF MessageStep

(* A step that changes nothing.                                              *)
LEMMA StutterKeeps == DriverInv /\ UNCHANGED vars => DriverInv'
<1> SUFFICES ASSUME DriverInv, UNCHANGED vars PROVE DriverInv'
  OBVIOUS
<1>1. RestOK /\ RowsOK(messages, issued, lastId) /\ TxOK
  BY DriverInvParts
<1>2. RestOK' /\ RowsOK(messages', issued', lastId')
  BY <1>1 DEF vars, RestOK
<1>3. TxOK'
  BY <1>1 DEF vars, TxOK, Processing, IsCopy
<1>4. QED
  BY <1>2, <1>3, DriverInvNext

(* The inductive step.                                                       *)
LEMMA DriverInvStep == DriverInv /\ [Next]_vars => DriverInv'
<1> SUFFICES ASSUME DriverInv, [Next]_vars PROVE DriverInv'
  OBVIOUS
<1>1. CASE \E q \in Queue : QueueStep(q)
  BY <1>1, QueueStepKeeps
<1>2. CASE \E m \in Msg : MessageStep(m)
  BY <1>2, MessageStepKeeps
<1>3. CASE BeginRetryCopies
  BY <1>3, BeginRetryCopiesKeeps
<1>4. CASE Tick
  BY <1>4, TickKeeps
<1>5. CASE UNCHANGED vars
  BY <1>5, StutterKeeps
<1>6. QED
  BY <1>1, <1>2, <1>3, <1>4, <1>5 DEF Next

(* The invariant holds in every reachable state of the driver, for any sets  *)
(* of queues, configurations, claimants and any bounds.                      *)
THEOREM DriverInvariant == Spec => []DriverInv
  BY DriverInvInit, DriverInvStep, PTL DEF Spec

(* The two tables and the bookkeeping keep their types through every         *)
(* operation of SqliteQueueDriver.                                           *)
THEOREM DriverTypeOK == Spec => []TypeOK
<1>1. DriverInv => TypeOK
  BY DEF DriverInv
<1>2. QED
  BY <1>1, DriverInvariant, PTL

(* Exactly the messages being processed carry a claim, and the token on the  *)
(* row is the last one issued: every operation that moves a row out of       *)
(* "processing" clears the claim, and no superseded token matches again.     *)
THEOREM ClaimTokensAreCurrent == Spec => []ClaimDiscipline
<1>1. DriverInv => ClaimDiscipline
  BY DEF DriverInv, RowsOK, RowOK, ClaimOK, ClaimDiscipline, Processing
<1>2. QED
  BY <1>1, DriverInvariant, PTL

=============================================================================
