--------------------------- MODULE QueueServiceProofs ---------------------------
(***************************************************************************)
(* Proofs about the worker loop, for any queues, bounds, delays, outside     *)
(* calls and restores: the one timer covers every delayed message, a mark in *)
(* pendingWake is never left alone, and no wake-up is lost but in the cases   *)
(* the property names.                                                      *)
(***************************************************************************)
EXTENDS QueueService, FiniteSetTheorems, FunctionTheorems, TLAPS

-----------------------------------------------------------------------------
(* The smallest of finitely many numbers, and rows for copies.                *)

(* A finite set of numbers has a smallest one: the numbers of elements up to   *)
(* each of them are 1, 2, ... , of which one is 1.                            *)
LEMMA MinimumIsSmallest ==
  ASSUME NEW S \in SUBSET Nat, IsFiniteSet(S), S # {}
  PROVE  Minimum(S) \in S /\ \A y \in S : Minimum(S) <= y
<1> DEFINE upTo(x) == {y \in S : y <= x}
           n == Cardinality(S)
           f == [x \in S |-> Cardinality(upTo(x))]
<1>1. n \in Nat /\ n >= 1
  BY FS_CardinalityType, FS_EmptySet
<1>2. ASSUME NEW x \in S
      PROVE  IsFiniteSet(upTo(x)) /\ f[x] \in 1..n
  <2>1. upTo(x) \in SUBSET S
    OBVIOUS
  <2>2. IsFiniteSet(upTo(x)) /\ Cardinality(upTo(x)) <= n
    BY <2>1, FS_Subset
  <2>3. x \in upTo(x)
    OBVIOUS
  <2>4. Cardinality(upTo(x)) \in Nat /\ Cardinality(upTo(x)) # 0
    BY <2>2, <2>3, FS_CardinalityType, FS_EmptySet
  <2>5. f[x] = Cardinality(upTo(x))
    OBVIOUS
  <2> HIDE DEF upTo, f, n
  <2> QED BY <1>1, <2>2, <2>4, <2>5
<1>3. ASSUME NEW x \in S, NEW y \in S, x < y
      PROVE  f[x] # f[y]
  <2>0. x \in Nat /\ y \in Nat /\ \A z \in S : z \in Nat
    BY <1>3
  <2>1. upTo(x) \in SUBSET upTo(y) /\ y \in upTo(y) /\ y \notin upTo(x)
    <3>1. \A z \in S : z <= x => z <= y
      BY <1>3, <2>0
    <3>2. y <= y /\ ~(y <= x)
      BY <1>3, <2>0
    <3> QED BY <1>3, <3>1, <3>2
  <2>2. f[x] = Cardinality(upTo(x)) /\ f[y] = Cardinality(upTo(y))
    OBVIOUS
  <2>3. IsFiniteSet(upTo(y))
    BY <1>2
  <2> HIDE DEF upTo, f
  <2> QED BY <2>1, <2>2, <2>3, FS_Subset
<1>4. f \in Injection(S, 1..n)
  <2>1. f \in [S -> 1..n]
    BY <1>2
  <2>2. \A x, y \in S : f[x] = f[y] => x = y
    <3> SUFFICES ASSUME NEW x \in S, NEW y \in S, f[x] = f[y], x # y PROVE FALSE
      OBVIOUS
    <3>1. x < y \/ y < x
      OBVIOUS
    <3> HIDE DEF f
    <3> QED BY <1>3, <3>1
  <2> HIDE DEF f, n
  <2> QED BY <2>1, <2>2, Fun_IsInj
<1>5. f \in Surjection(S, 1..n)
  <2>1. IsFiniteSet(1..n) /\ Cardinality(1..n) = n
    <3>1. 1 \in Int /\ n \in Int /\ ~(1 > n) /\ n - 1 + 1 = n
      BY <1>1
    <3> HIDE DEF n
    <3>2. IsFiniteSet(1..n) /\ Cardinality(1..n) = n - 1 + 1
      BY <3>1, FS_Interval
    <3> QED BY <3>1, <3>2
  <2>2. Cardinality(S) = Cardinality(1..n)
    BY <2>1
  <2> HIDE DEF f
  <2> QED BY <1>4, <2>1, <2>2, FS_Injection
<1>6. PICK x \in S : f[x] = 1
  <2>1. 1 \in 1..n
    BY <1>1
  <2> HIDE DEF f, n
  <2> QED BY <1>5, <2>1 DEF Surjection
<1>7. ASSUME NEW y \in S PROVE x <= y
  <2>1. CASE ~(x <= y)
    <3>1. {y} \cup {x} \in SUBSET upTo(x) /\ x # y
      BY <2>1
    <3>2. Cardinality(upTo(x)) = 1 /\ IsFiniteSet(upTo(x))
      BY <1>2, <1>6
    <3>3. IsFiniteSet({y}) /\ Cardinality({y}) = 1
      BY FS_Singleton
    <3>4. Cardinality({y} \cup {x}) = 2
      BY <3>1, <3>3, FS_AddElement
    <3> HIDE DEF upTo
    <3>5. Cardinality({y} \cup {x}) <= Cardinality(upTo(x))
      BY <3>1, <3>2, FS_Subset
    <3> QED BY <3>2, <3>4, <3>5
  <2> QED BY <2>1
<1> QED BY <1>7 DEF Minimum

Row == [status : {"none", "queued", "processing", "done", "dead", "deleted"},
        queue : Queue, wait : Nat, lease : Nat, by : {"nobody", "local", "external"},
        token : Nat, attempts : 0 .. MaxAttempts]

\* A queued message has an attempt left, one in processing has used one, and only
\* the latter has a holder.
RowOK(row) ==
  /\ row \in Row
  /\ row.status = "queued" => row.attempts < MaxAttempts
  /\ row.status = "processing" => row.attempts >= 1
  /\ row.by # "nobody" <=> row.status = "processing"

RowsOK == rows \in [Msg -> Row] /\ \A m \in Msg : RowOK(rows[m])

\* A row nobody used so far, with a new message that is due.
IsCopy(x, new, D) ==
  /\ x \in Free /\ RowOK(new) /\ new.status = "queued" /\ new.wait = 0
  /\ \E d \in D : new.queue = DeadLetterTo[rows[d].queue]

(* The messages are finitely many.                                            *)
LEMMA MsgFinite == IsFiniteSet(Msg) /\ \A S \in SUBSET Msg : IsFiniteSet(S)
<1>1. IsFiniteSet(Msg)
  BY QueueServiceAssumption, FS_Interval DEF Msg
<1> QED BY <1>1, FS_Subset

NewRow(q, delay) == [NoRow EXCEPT !.status = "queued", !.queue = q, !.wait = delay]
NewCopy(q) == [NoRow EXCEPT !.status = "queued", !.queue = q]

(* A row that holds no message, and one with a new message.                    *)
LEMMA NewRows ==
  ASSUME NEW q \in Queue, NEW delay \in Nat
  PROVE  /\ RowOK(NoRow) /\ NoRow.status = "none"
         /\ RowOK(NewRow(q, delay)) /\ NewRow(q, delay).status = "queued"
         /\ NewRow(q, delay).queue = q /\ NewRow(q, delay).wait = delay
         /\ RowOK(NewCopy(q)) /\ NewCopy(q).status = "queued"
         /\ NewCopy(q).queue = q /\ NewCopy(q).wait = 0
<1>1. (CHOOSE x \in Queue : TRUE) \in Queue /\ 0 \in 0..MaxAttempts /\ 0 < MaxAttempts
  BY QueueServiceAssumption
<1> QED BY <1>1 DEF NoRow, NewRow, NewCopy, RowOK, Row

(* Each copy has an unused row and a dead letter of its own.                    *)
LEMMA CopiesOf ==
  ASSUME RowsOK, NEW D \in SUBSET Msg, NEW rs \in [Msg -> Row]
  PROVE  /\ WithCopies(rs, D) \in [Msg -> Row]
         /\ \A x \in Msg : WithCopies(rs, D)[x] = rs[x] \/ IsCopy(x, WithCopies(rs, D)[x], D)
<1> DEFINE n == Cardinality(D)
           before(m) == {x \in Free : x < m}
           N == NextFree(n)
           Inj(g) == \A a, b \in DOMAIN g : a # b => g[a] # g[b]
           f == CHOOSE g \in [N -> D] : Inj(g)
<1>1. n \in Nat
  BY MsgFinite, FS_CardinalityType
<1>2. PICK d \in Bijection(1..n, D) : TRUE
  BY MsgFinite, FS_CardinalityType DEF ExistsBijection
<1>3. d \in [1..n -> D] /\ \A a, b \in 1..n : d[a] = d[b] => a = b
  BY <1>2, Fun_BijectionProperties
<1>4. ASSUME NEW m \in N
      PROVE  m \in Free /\ m \in Msg /\ IsFiniteSet(before(m)) /\ Cardinality(before(m)) + 1 \in 1..n
  <2>1. m \in Free /\ m \in Msg /\ Cardinality(before(m)) < n
    BY <1>4 DEF NextFree, Free
  <2>2. before(m) \in SUBSET Msg
    BY DEF Free
  <2>3. IsFiniteSet(before(m)) /\ Cardinality(before(m)) \in Nat
    BY <2>2, MsgFinite, FS_CardinalityType
  <2> QED BY <1>1, <2>1, <2>3
<1>5. ASSUME NEW a \in N, NEW b \in N, a < b
      PROVE  Cardinality(before(a)) # Cardinality(before(b))
  <2>0. a \in Free /\ a \in Msg /\ b \in Msg
    BY <1>4, <1>5
  <2>1. before(a) \in SUBSET before(b) /\ a \in before(b) /\ a \notin before(a)
    <3>1. \A x \in Msg : x \in Nat
      BY QueueServiceAssumption DEF Msg
    <3>2. \A x \in Free : x \in Msg
      BY DEF Free
    <3>3. \A x \in Free : x < a => x < b
      BY <1>5, <2>0, <3>1, <3>2
    <3>4. ~(a < a)
      BY <2>0, <3>1
    <3> QED BY <1>5, <2>0, <3>3, <3>4
  <2>2. IsFiniteSet(before(b))
    BY <1>4
  <2> HIDE DEF before
  <2> QED BY <2>1, <2>2, FS_Subset
<1>6. \E g \in [N -> D] : Inj(g)
  <2> DEFINE g == [m \in N |-> d[Cardinality(before(m)) + 1]]
  <2>1. g \in [N -> D]
    BY <1>3, <1>4
  <2>2. ASSUME NEW a \in N, NEW b \in N, a # b PROVE g[a] # g[b]
    <3>1. a \in Nat /\ b \in Nat
      <4>1. a \in Msg /\ b \in Msg
        BY <1>4, <2>2
      <4> QED BY <4>1, QueueServiceAssumption DEF Msg
    <3>2. Cardinality(before(a)) # Cardinality(before(b))
      <4>1. a < b \/ b < a
        BY <2>2, <3>1
      <4> HIDE DEF before, N
      <4> QED BY <1>5, <4>1
    <3>3. Cardinality(before(a)) + 1 # Cardinality(before(b)) + 1
      <4>1. Cardinality(before(a)) \in Nat /\ Cardinality(before(b)) \in Nat
        BY <1>4, FS_CardinalityType
      <4> HIDE DEF before
      <4> QED BY <3>2, <4>1
    <3> HIDE DEF before, N
    <3>4. d[Cardinality(before(a)) + 1] # d[Cardinality(before(b)) + 1]
      BY <1>3, <1>4, <3>3
    <3> QED BY <3>4
  <2> HIDE DEF N
  <2>3. DOMAIN g = N
    OBVIOUS
  <2> HIDE DEF g
  <2> QED BY <2>1, <2>2, <2>3
<1>7. f \in [N -> D]
  <2> HIDE DEF N, Inj
  <2> QED BY <1>6
<1>8. WithCopies(rs, D) = [x \in Msg |->
        IF x \in DOMAIN f
        THEN [NoRow EXCEPT !.status = "queued", !.queue = DeadLetterTo[rows[f[x]].queue]]
        ELSE rs[x]]
  BY DEF WithCopies
<1> HIDE DEF f
<1>9. ASSUME NEW x \in Msg
      PROVE  /\ WithCopies(rs, D)[x] = rs[x] \/ IsCopy(x, WithCopies(rs, D)[x], D)
             /\ WithCopies(rs, D)[x] \in Row
  <2>1. CASE x \notin N
    BY <1>7, <1>8, <2>1
  <2>2. CASE x \in N
    <3> DEFINE q == DeadLetterTo[rows[f[x]].queue]
               new == NewCopy(q)
    <3>1. WithCopies(rs, D)[x] = new
      BY <1>7, <1>8, <2>2 DEF NewCopy
    <3>2. f[x] \in D /\ q \in Queue
      <4>1. f[x] \in D /\ f[x] \in Msg
        BY <1>7, <2>2
      <4>2. rows[f[x]].queue \in Queue
        BY <4>1 DEF RowsOK, Row
      <4> QED BY <4>1, <4>2, QueueServiceAssumption
    <3> HIDE DEF q
    <3>3. RowOK(new) /\ new.status = "queued" /\ new.wait = 0 /\ new.queue = q /\ 0 \in Nat
      BY <3>2, NewRows
    <3> HIDE DEF new
    <3>4. x \in Free
      BY <1>4, <2>2
    <3> QED BY <3>1, <3>2, <3>3, <3>4 DEF IsCopy, RowOK, q
  <2> QED BY <2>1, <2>2
<1> QED BY <1>8, <1>9

-----------------------------------------------------------------------------
(* The invariant.                                                             *)

LoopOK == /\ pendingWake \in SUBSET Queue /\ immediates \in [Queue -> Nat]
          /\ drain \in [Queue -> {"idle", "read", "claimed", "empty"}]
          /\ PendingWakeIsBacked

RestOK == /\ up \in BOOLEAN /\ rescan \in BOOLEAN /\ timer \in Nat \cup {Off}
          /\ busyLeft \in 0 .. MaxBusy /\ restartLeft \in 0 .. MaxRestart
          /\ away \in BOOLEAN /\ unreset \in BOOLEAN /\ unwoken \in SUBSET Queue
          /\ away => unreset

RunningOK == /\ running \in SUBSET [msg : Msg, token : Nat]
             /\ \A e \in running : rows[e.msg].status # "none"

\* A claim of this process belongs to an execution that will report its end, unless a
\* restore failed.
HeldByRunning ==
  up /\ ~unreset => \A m \in Msg : rows[m].by = "local" => [msg |-> m, token |-> rows[m].token] \in running

LoopInv == LoopOK /\ RestOK /\ RowsOK /\ RunningOK /\ HeldByRunning /\ TimerCoversDelays

\* WakeUpNotLost, without the drains that have claimed already: their end wakes the
\* queue only for a mark in pendingWake.
Attended(q) ==
  \/ q \in pendingWake \/ drain[q] = "read"
  \/ \E e \in running : rows[e.msg].queue = q
  \/ timer # Off
  \/ \E m \in Msg : rows[m].queue = q /\ rows[m].by = "external"
  \/ q \in unwoken

Wakeful == \A q \in Queue : up /\ ~unreset /\ Due(rows, q) # {} => Attended(q)

\* What an action that does not claim does to a row: nothing, a new message, or the
\* end of an attempt.
Moves(old, new) ==
  \/ new = old
  \/ /\ old.status = "none" /\ new.status = "queued" /\ RowOK(new)
  \/ /\ old.status # "none" /\ new.status \in {"queued", "done", "dead", "deleted"}
     /\ new.queue = old.queue /\ RowOK(new)

TimerKept == /\ timer' \in Nat \cup {Off}
             /\ timer \in Nat => timer' \in Nat /\ timer' <= timer

\* A message that is delayed now was so before, or the timer was set for it.
Covered(m) ==
  rows'[m].status = "queued" /\ rows'[m].wait > 0
    => rows'[m] = rows[m] \/ (timer' \in Nat /\ timer' <= rows'[m].wait)

\* A message that is due now was so before, or its queue was woken.
Woken(m) ==
  rows'[m].status = "queued" /\ rows'[m].wait = 0
    => rows'[m] = rows[m] \/ rows'[m].queue \in pendingWake'

RowsMove ==
  /\ rows' \in [Msg -> Row]
  /\ \A m \in Msg : Moves(rows[m], rows'[m])

(* Waking queues adds them to the marks, each with a callback; those that should   *)
(* have been woken are noted.                                                  *)
LEMMA WakeKeeps ==
  ASSUME LoopOK, unwoken \in SUBSET Queue, NEW qs \in SUBSET Queue, NEW missed \in SUBSET Queue,
         WakeNot(qs, missed), UNCHANGED drain
  PROVE  /\ LoopOK' /\ pendingWake \subseteq pendingWake' /\ qs \subseteq pendingWake'
         /\ unwoken' \in SUBSET Queue /\ unwoken \cup missed \subseteq unwoken' \cup pendingWake'
<1>1. /\ pendingWake' = pendingWake \cup qs
      /\ immediates' = [q \in Queue |-> IF q \in qs \ pendingWake THEN immediates[q] + 1
                                        ELSE immediates[q]]
  BY DEF WakeNot, WakeWorker
<1>2. immediates' \in [Queue -> Nat]
  BY <1>1 DEF LoopOK
<1>3. ASSUME NEW q \in pendingWake' PROVE immediates'[q] > 0 \/ drain'[q] # "idle"
  <2>1. q \in Queue
    BY <1>1, <1>3 DEF LoopOK
  <2>2. immediates[q] \in Nat
    BY <2>1 DEF LoopOK
  <2>3. immediates'[q] = IF q \in qs \ pendingWake THEN immediates[q] + 1 ELSE immediates[q]
    BY <1>1, <2>1
  <2> QED BY <1>1, <1>3, <2>2, <2>3 DEF LoopOK, PendingWakeIsBacked
<1>4. unwoken' \in SUBSET Queue /\ unwoken \cup missed \subseteq unwoken' \cup pendingWake'
  BY <1>1 DEF WakeNot
<1> QED BY <1>1, <1>2, <1>3, <1>4 DEF LoopOK, PendingWakeIsBacked

(* To wake nothing is to wake the empty set of queues.                        *)
LEMMA NoWakeWakes == LoopOK /\ unwoken \in SUBSET Queue /\ NoWake => WakeNot({}, {})
<1> SUFFICES ASSUME LoopOK, unwoken \in SUBSET Queue, NoWake PROVE WakeNot({}, {})
  OBVIOUS
<1>1. immediates = [q \in Queue |-> immediates[q]]
  BY DEF LoopOK
<1> QED BY <1>1 DEF NoWake, WakeNot, WakeWorker, LoopOK

(* The rows, the executions and the timer, after an action that claims nothing. *)
LEMMA MovesKeep ==
  ASSUME LoopInv, RowsMove, up \/ rescan', rescan => rescan', TimerKept,
         unreset => unreset' \/ rescan',
         \A m \in Msg : rescan' \/ Covered(m),
         running' \in SUBSET running,
         unreset' \/ \A m \in Msg : rows'[m] = rows[m] /\ rows[m].by = "local"
                          => [msg |-> m, token |-> rows[m].token] \in running'
  PROVE  RowsOK' /\ RunningOK' /\ HeldByRunning' /\ TimerCoversDelays'
<1>1. RowsOK'
  BY DEF LoopInv, RowsOK, RowsMove, Moves
<1>2. RunningOK'
  <2>1. \A e \in running' : e.msg \in Msg /\ rows[e.msg].status # "none"
    BY DEF LoopInv, RunningOK
  <2> QED BY <2>1 DEF LoopInv, RunningOK, RowsMove, Moves
<1>3. HeldByRunning'
  <2>1. ASSUME ~unreset', NEW m \in Msg, rows'[m].by = "local"
        PROVE  [msg |-> m, token |-> rows'[m].token] \in running'
    <3>1. rows'[m] = rows[m]
      BY <2>1 DEF RowsMove, Moves, RowOK
    <3> QED BY <2>1, <3>1
  <2> QED BY <2>1 DEF HeldByRunning
<1>4. TimerCoversDelays'
  <2> SUFFICES ASSUME NEW m \in Msg, rows'[m].status = "queued", rows'[m].wait > 0, ~rescan',
                      ~unreset'
               PROVE  timer' # Off /\ timer' <= rows'[m].wait
    BY DEF TimerCoversDelays, Delayed, Queued
  <2>1. rows'[m].wait \in Nat /\ rows'[m].queue \in Queue
    BY DEF RowsMove, Row
  <2>2. CASE rows'[m] = rows[m]
    <3>1. m \in Delayed(rows, Queue)
      BY <2>1, <2>2 DEF Delayed, Queued
    <3>2. timer # Off /\ timer <= rows[m].wait
      BY <3>1 DEF LoopInv, TimerCoversDelays
    <3>3. timer \in Nat
      BY <3>2 DEF LoopInv, RestOK
    <3> QED BY <2>1, <2>2, <3>2, <3>3 DEF TimerKept, Off
  <2>3. CASE rows'[m] # rows[m]
    BY <2>3 DEF Covered, Off
  <2> QED BY <2>2, <2>3
<1> QED BY <1>1, <1>2, <1>3, <1>4

(* A queue with a message that is due stays attended.                          *)
LEMMA MovesStayAwake ==
  ASSUME LoopInv, Wakeful, RowsMove, up, TimerKept, UNCHANGED <<drain, unreset>>,
         pendingWake \subseteq pendingWake', unwoken \subseteq unwoken' \cup pendingWake',
         \A m \in Msg : Woken(m),
         \A m \in Msg : rows[m].by = "external"
                          => \/ rows'[m] = rows[m] \/ timer' \in Nat
                             \/ rows[m].queue \in unwoken' \cup pendingWake',
         \A e \in running : e \in running' \/ rows[e.msg].queue \in pendingWake'
  PROVE  Wakeful'
<1> SUFFICES ASSUME NEW q \in Queue, NEW m \in Msg, rows'[m].queue = q,
                    rows'[m].status = "queued", rows'[m].wait = 0, ~unreset
             PROVE  Attended(q)'
  BY DEF Wakeful, Due, Queued
<1>1. CASE rows'[m] # rows[m]
  BY <1>1 DEF Woken, Attended
<1>2. CASE rows'[m] = rows[m]
  <2>1. m \in Due(rows, q)
    BY <1>2 DEF Due, Queued
  <2>2. Attended(q)
    BY <2>1 DEF Wakeful
  <2>3. CASE q \in pendingWake \/ drain[q] = "read"
    BY <2>3 DEF Attended
  <2>4. CASE timer # Off
    <3>1. timer \in Nat
      BY <2>4 DEF LoopInv, RestOK
    <3> QED BY <3>1 DEF TimerKept, Off, Attended
  <2>5. ASSUME NEW e \in running, rows[e.msg].queue = q PROVE Attended(q)'
    <3>1. rows'[e.msg].queue = q
      BY <2>5 DEF LoopInv, RunningOK, RowsMove, Moves
    <3> QED BY <2>5, <3>1 DEF Attended
  <2>6. ASSUME NEW x \in Msg, rows[x].queue = q, rows[x].by = "external" PROVE Attended(q)'
    BY <2>6 DEF Attended, Off
  <2>7. q \in unwoken => Attended(q)'
    BY DEF Attended
  <2> QED BY <2>2, <2>3, <2>4, <2>5, <2>6, <2>7 DEF Attended
<1> QED BY <1>1, <1>2

(* The timer, set for a delay: it fires no later, nor later than before.        *)
LEMMA ScheduledKeeps ==
  ASSUME RestOK, NEW delay \in Nat, timer' = Scheduled(delay)
  PROVE  TimerKept /\ timer' \in Nat /\ timer' <= delay
  BY DEF RestOK, Scheduled, TimerKept, Off

(* The timer, set for the first delayed message of some queues.                *)
LEMMA ScheduleNextCovers ==
  ASSUME RestOK, RowsOK, NEW qs \in SUBSET Queue, ScheduleNext(qs)
  PROVE  /\ TimerKept
         /\ \A m \in Delayed(rows, qs) : timer' \in Nat /\ timer' <= rows[m].wait
<1> DEFINE D == Delayed(rows, qs)
           waits == {rows[m].wait : m \in D}
<1>1. D \in SUBSET Msg /\ \A m \in D : rows[m].wait \in Nat
  BY DEF Delayed, RowsOK, Row
<1>2. CASE D = {}
  <2>1. timer' = timer
    BY <1>2 DEF ScheduleNext
  <2> QED BY <1>2, <2>1 DEF RestOK, TimerKept, Off
<1>3. CASE D # {}
  <2>1. waits \in SUBSET Nat /\ waits # {}
    BY <1>1, <1>3
  <2>2. IsFiniteSet(waits)
    <3> DEFINE f == [m \in D |-> rows[m].wait]
    <3>1. IsFiniteSet(D)
      BY <1>1, MsgFinite
    <3>2. f \in [D -> waits] /\ \A t \in waits : \E s \in D : f[s] = t
      OBVIOUS
    <3>3. f \in Surjection(D, waits)
      <4> HIDE DEF f, waits, D
      <4> QED BY <3>2, Fun_IsSurj
    <3> HIDE DEF f, waits, D
    <3> QED BY <3>1, <3>3, FS_Surjection
  <2>3. Minimum(waits) \in waits /\ \A y \in waits : Minimum(waits) <= y
    <3> HIDE DEF waits
    <3> QED BY <2>1, <2>2, MinimumIsSmallest
  <2>4. timer' = Scheduled(Minimum(waits))
    BY <1>3 DEF ScheduleNext
  <2>5. Minimum(waits) \in Nat
    BY <2>1, <2>3
  <2>6. TimerKept /\ timer' \in Nat /\ timer' <= Minimum(waits)
    <3> HIDE DEF waits
    <3> QED BY <2>4, <2>5, ScheduledKeeps
  <2>7. ASSUME NEW m \in D PROVE timer' <= rows[m].wait
    <3>1. Minimum(waits) <= rows[m].wait /\ rows[m].wait \in Nat
      BY <1>1, <2>3, <2>7
    <3> HIDE DEF waits
    <3> QED BY <2>5, <2>6, <3>1
  <2> QED BY <2>6, <2>7
<1> QED BY <1>2, <1>3

(* The end of an attempt.                                                     *)
LEMMA ReleasedRow ==
  \A row \in Row, to \in {"queued", "done", "dead", "deleted"}, wait \in Nat :
    RowOK(row) /\ (to = "queued" => row.attempts < MaxAttempts)
      => /\ RowOK(Released(row, to, wait)) /\ Released(row, to, wait).status = to
         /\ Released(row, to, wait).wait = wait /\ Released(row, to, wait).queue = row.queue
         /\ Released(row, to, wait).by = "nobody"
<1> SUFFICES ASSUME NEW row \in Row, NEW to \in {"queued", "done", "dead", "deleted"},
                    NEW wait \in Nat, RowOK(row), to = "queued" => row.attempts < MaxAttempts
             PROVE  /\ RowOK(Released(row, to, wait)) /\ Released(row, to, wait).status = to
                    /\ Released(row, to, wait).wait = wait
                    /\ Released(row, to, wait).queue = row.queue
                    /\ Released(row, to, wait).by = "nobody"
  OBVIOUS
<1> QED BY DEF Released, RowOK, Row

(* A message that goes back for want of capacity gets its attempt back.          *)
LEMMA DeferredRow ==
  \A row \in Row :
    RowOK(row) /\ row.status = "processing"
      => /\ RowOK(Deferred(row)) /\ Deferred(row).status = "queued"
         /\ Deferred(row).wait = 1 /\ Deferred(row).queue = row.queue
         /\ Deferred(row).by = "nobody"
<1> SUFFICES ASSUME NEW row \in Row, RowOK(row), row.status = "processing"
             PROVE  /\ RowOK(Deferred(row)) /\ Deferred(row).status = "queued"
                    /\ Deferred(row).wait = 1 /\ Deferred(row).queue = row.queue
                    /\ Deferred(row).by = "nobody"
  OBVIOUS
<1>1. row.attempts \in Nat /\ row.attempts >= 1 /\ row.attempts <= MaxAttempts
  BY QueueServiceAssumption DEF RowOK, Row
<1>2. Refunded(row.attempts) \in 0..MaxAttempts /\ Refunded(row.attempts) < MaxAttempts
  BY <1>1, QueueServiceAssumption DEF Refunded
<1> DEFINE r == Released(row, "queued", 1)
<1>3. /\ r \in Row /\ r.status = "queued" /\ r.wait = 1 /\ r.queue = row.queue
      /\ r.by = "nobody" /\ r.attempts = row.attempts
  BY DEF Released, Row
<1>4. Deferred(row) = [r EXCEPT !.attempts = Refunded(r.attempts)]
  BY DEF Deferred
<1> HIDE DEF r
<1> QED BY <1>2, <1>3, <1>4 DEF RowOK, Row

(* The rows that are given up, and the copies they leave.                      *)
LEMMA CopiesMove ==
  ASSUME RowsOK, NEW D \in SUBSET Msg, NEW rs \in [Msg -> Row], rows' = WithCopies(rs, D),
         \A m \in Msg : Moves(rows[m], rs[m])
  PROVE  /\ RowsMove
         /\ \A m \in Msg : rows'[m] = rs[m] \/ IsCopy(m, rows'[m], D)
<1>1. rows' \in [Msg -> Row] /\ \A m \in Msg : rows'[m] = rs[m] \/ IsCopy(m, rows'[m], D)
  BY CopiesOf
<1>2. ASSUME NEW m \in Msg, IsCopy(m, rows'[m], D) PROVE Moves(rows[m], rows'[m])
  BY <1>2 DEF IsCopy, Free, Moves
<1>3. \A m \in Msg : Moves(rows[m], rows'[m])
  BY <1>1, <1>2
<1> QED BY <1>1, <1>3 DEF RowsMove

Kept == LoopInv' /\ (Wakeful => Wakeful')

(* The common part of the actions that leave the drains alone, claim nothing    *)
(* and wake some queues.                                                       *)
LEMMA MovingStep ==
  ASSUME LoopInv, RowsMove, up, NEW qs \in SUBSET Queue, NEW missed \in SUBSET Queue,
         WakeNot(qs, missed), TimerKept,
         UNCHANGED <<up, drain, rescan, restartLeft, away, unreset>>, busyLeft' \in 0 .. MaxBusy,
         running' \in SUBSET running, \A m \in Msg : Covered(m),
         unreset \/ \A m \in Msg : rows'[m] = rows[m] /\ rows[m].by = "local"
                          => [msg |-> m, token |-> rows[m].token] \in running'
  PROVE  /\ LoopInv' /\ qs \subseteq pendingWake'
         /\ /\ \A m \in Msg : Woken(m)
            /\ \A m \in Msg : rows[m].by = "external"
                                => \/ rows'[m] = rows[m] \/ timer' \in Nat
                                   \/ rows[m].queue \in qs \cup missed
            /\ \A e \in running : e \in running' \/ rows[e.msg].queue \in qs
            => (Wakeful => Wakeful')
<1>1. /\ LoopOK' /\ pendingWake \subseteq pendingWake' /\ qs \subseteq pendingWake'
      /\ unwoken' \in SUBSET Queue /\ unwoken \cup missed \subseteq unwoken' \cup pendingWake'
  BY WakeKeeps DEF LoopInv, RestOK
<1>2. RowsOK' /\ RunningOK' /\ HeldByRunning' /\ TimerCoversDelays'
  BY MovesKeep
<1>3. RestOK'
  BY <1>1 DEF LoopInv, RestOK, TimerKept
<1>4. LoopInv'
  BY <1>1, <1>2, <1>3 DEF LoopInv
<1>5. SUFFICES ASSUME \A m \in Msg : Woken(m), Wakeful,
                      \A m \in Msg : rows[m].by = "external"
                                => \/ rows'[m] = rows[m] \/ timer' \in Nat
                                   \/ rows[m].queue \in qs \cup missed,
                      \A e \in running : e \in running' \/ rows[e.msg].queue \in qs
               PROVE  Wakeful'
  BY <1>1, <1>4
<1>6. /\ \A m \in Msg : rows[m].by = "external"
                          => \/ rows'[m] = rows[m] \/ timer' \in Nat
                             \/ rows[m].queue \in unwoken' \cup pendingWake'
      /\ \A e \in running : e \in running' \/ rows[e.msg].queue \in pendingWake'
  BY <1>1, <1>5
<1> QED BY <1>1, <1>5, <1>6, MovesStayAwake

(* send: a new message has set the timer or woken its queue.                   *)
LEMMA SendKeeps ==
  ASSUME LoopInv, NEW q \in Queue, NEW delay \in SendDelay, Send(q, delay)
  PROVE  Kept
<1> DEFINE new == NewRow(q, delay)
<1>0. delay \in Nat
  BY QueueServiceAssumption
<1>1. PICK m \in NextFree(1) :
        /\ rows' = [rows EXCEPT ![m] = new]
        /\ IF delay > 0 THEN timer' = Scheduled(delay) /\ NoWake
           ELSE Wake({q}) /\ UNCHANGED timer
  BY DEF Send, NewRow
<1>2. m \in Msg /\ rows[m].status = "none"
  BY DEF NextFree, Free
<1>3. RowOK(new) /\ new.status = "queued" /\ new.queue = q /\ new.wait = delay
  BY <1>0, NewRows
<1> HIDE DEF new
<1>4. rows' \in [Msg -> Row] /\ rows'[m] = new /\ \A x \in Msg : x # m => rows'[x] = rows[x]
  BY <1>1, <1>2, <1>3 DEF LoopInv, RowsOK, RowOK
<1>5. RowsMove
  BY <1>2, <1>3, <1>4 DEF RowsMove, Moves
<1>6. up /\ UNCHANGED <<up, drain, rescan, restartLeft, busyLeft, running, away, unreset>>
  BY DEF Send, memory, database
<1>7. rows[m].by = "nobody"
  BY <1>2 DEF LoopInv, RowsOK, RowOK, Row
<1>8. busyLeft' \in 0..MaxBusy /\ RestOK
  BY <1>6 DEF LoopInv, RestOK
<1>9. unreset \/ \A x \in Msg : rows[x].by = "local" => [msg |-> x, token |-> rows[x].token] \in running'
  BY <1>6 DEF LoopInv, HeldByRunning
<1>10. \A x \in Msg : rows[x].by = "external" => rows'[x] = rows[x]
  BY <1>4, <1>7
<1>11. CASE delay > 0
  <2>1. timer' = Scheduled(delay) /\ WakeNot({}, {})
    BY <1>1, <1>11, NoWakeWakes DEF LoopInv, RestOK
  <2>2. TimerKept /\ timer' \in Nat /\ timer' <= delay
    BY <1>0, <1>8, <2>1, ScheduledKeeps
  <2>3. \A x \in Msg : Covered(x) /\ Woken(x)
    BY <1>0, <1>3, <1>4, <1>11, <2>2 DEF Covered, Woken
  <2>4. {} \in SUBSET Queue /\ running' \in SUBSET running
    BY <1>6
  <2> QED BY <1>5, <1>6, <1>8, <1>9, <1>10, <2>1, <2>2, <2>3, <2>4, MovingStep DEF Kept
<1>12. CASE ~(delay > 0)
  <2>1. timer' = timer /\ WakeNot({q}, {})
    BY <1>1, <1>12 DEF Wake
  <2>2. TimerKept
    BY <1>8, <2>1 DEF TimerKept, RestOK, Off
  <2>3. \A x \in Msg : Covered(x)
    BY <1>3, <1>4, <1>12 DEF Covered
  <2>4. {q} \in SUBSET Queue /\ {} \in SUBSET Queue /\ running' \in SUBSET running
    BY <1>6
  <2>5. LoopInv' /\ q \in pendingWake'
    BY <1>5, <1>6, <1>8, <1>9, <2>1, <2>2, <2>3, <2>4, MovingStep
  <2>6. \A x \in Msg : Woken(x)
    BY <1>3, <1>4, <2>5 DEF Woken
  <2> QED BY <1>5, <1>6, <1>8, <1>9, <1>10, <2>1, <2>2, <2>3, <2>4, <2>6, MovingStep DEF Kept
<1> QED BY <1>11, <1>12

(* The end of an attempt that leaves no copy.                                   *)
LEMMA EndsMove ==
  ASSUME RowsOK, NEW m \in Msg, rows[m].status # "none", NEW new, RowOK(new),
         new.status \in {"queued", "done", "dead", "deleted"}, new.queue = rows[m].queue,
         rows' = [rows EXCEPT ![m] = new]
  PROVE  RowsMove /\ rows'[m] = new /\ \A x \in Msg : x # m => rows'[x] = rows[x]
  BY DEF RowsOK, RowsMove, Moves, RowOK

(* fail: what is retried or copied has set the timer or woken its queue.        *)
LEMMA FailsMoves ==
  ASSUME LoopInv, NEW m \in Msg, rows[m].status = "processing", NEW also \in SUBSET Queue,
         Fails(m, also)
  PROVE  /\ RowsMove /\ TimerKept
         /\ \E qs, missed \in SUBSET Queue :
              /\ WakeNot(qs, missed) /\ also \subseteq qs
              /\ rows[m].queue \in qs \cup missed \/ timer' \in Nat
         /\ \A x \in Msg : Covered(x) /\ (LoopOK' => Woken(x))
         /\ \A x \in Msg : rows'[x] = rows[x] \/ x = m \/ rows[x].status = "none"
         /\ rows'[m].by = "nobody"
<1> DEFINE dead  == Exhausted(m)
           delay == IF dead THEN 0 ELSE FullBackoff(m)
           woken == IF dead THEN {DeadLetterTo[rows[m].queue]} \ {rows[m].queue}
                    ELSE IF delay = 0 THEN {rows[m].queue} ELSE {}
           missed == IF dead THEN {rows[m].queue} ELSE {}
           D     == IF dead /\ Forwards(m) THEN {m} ELSE {}
           rs    == GivenUp(rows, m, delay)
           s     == IF dead THEN "dead" ELSE "queued"
           new   == Released(rows[m], s, delay)
<1>1. /\ rows' = WithCopies(rs, D)
      /\ timer' = IF delay > 0 THEN Scheduled(delay) ELSE timer
      /\ WakeNot(woken \cup also, missed)
  BY DEF Fails
<1>2. RowOK(rows[m]) /\ rows \in [Msg -> Row] /\ RowsOK /\ RestOK
  BY DEF LoopInv, RowsOK
<1>3. rows[m].queue \in Queue /\ DeadLetterTo[rows[m].queue] \in Queue
      /\ rows[m].attempts \in 1..MaxAttempts
  BY <1>2, QueueServiceAssumption DEF RowOK, Row
<1>4. delay \in Nat /\ (dead => delay = 0)
  BY <1>3, QueueServiceAssumption DEF FullBackoff
<1>5. s \in {"queued", "done", "dead", "deleted"} /\ (s = "queued" => rows[m].attempts < MaxAttempts)
  BY <1>3, QueueServiceAssumption DEF Exhausted
<1>6. /\ RowOK(new) /\ new.status = s /\ new.wait = delay /\ new.queue = rows[m].queue
      /\ new.by = "nobody"
  <2> HIDE DEF s, delay
  <2>1. RowOK(rows[m]) /\ delay \in Nat
    BY <1>2, <1>4
  <2>2. s \in {"queued", "done", "dead", "deleted"} /\ (s = "queued" => rows[m].attempts < MaxAttempts)
    BY <1>5
  <2>3. rows[m] \in Row
    BY <2>1 DEF RowOK
  <2> QED BY <2>1, <2>2, <2>3, ReleasedRow
<1>7. rs = [rows EXCEPT ![m] = new]
  BY <1>4 DEF GivenUp
<1>8. D \in SUBSET Msg
  OBVIOUS
<1>9. woken \cup also \in SUBSET Queue /\ missed \in SUBSET Queue
  BY <1>3
<1>10. DeadLetterTo[rows[m].queue] # rows[m].queue /\ dead => DeadLetterTo[rows[m].queue] \in woken
  OBVIOUS
<1>11. ~dead /\ delay = 0 => rows[m].queue \in woken
  OBVIOUS
<1>12. \A d \in D : d = m /\ dead /\ Forwards(m)
  OBVIOUS
<1>13. (s = "queued" => ~dead) /\ (dead => rows[m].queue \in missed)
  OBVIOUS
<1> HIDE DEF dead, delay, woken, missed, D, rs, s, new
<1>14. rs \in [Msg -> Row] /\ rs[m] = new /\ \A x \in Msg : x # m => rs[x] = rows[x]
  BY <1>2, <1>6, <1>7 DEF RowOK
<1>15. \A x \in Msg : Moves(rows[x], rs[x])
  BY <1>5, <1>6, <1>14 DEF Moves
<1>16. /\ RowsMove
       /\ \A x \in Msg : rows'[x] = rs[x] \/ IsCopy(x, rows'[x], D)
  BY <1>1, <1>2, <1>8, <1>14, <1>15, CopiesMove
<1>17. \A x \in Msg : rows'[x] = rows[x] \/ x = m \/ rows[x].status = "none"
  BY <1>14, <1>16 DEF IsCopy, Free
<1>18. rows'[m] = new
  BY <1>14, <1>16 DEF IsCopy, Free
<1>19. TimerKept /\ (delay > 0 => timer' \in Nat /\ timer' <= delay)
  <2>1. CASE delay > 0
    BY <1>1, <1>2, <1>4, <2>1, ScheduledKeeps
  <2>2. CASE ~(delay > 0)
    BY <1>1, <1>2, <2>2 DEF TimerKept, RestOK, Off
  <2> QED BY <2>1, <2>2
<1>20. ASSUME NEW x \in Msg PROVE Covered(x)
  <2>1. CASE x = m
    BY <1>4, <1>6, <1>18, <1>19, <2>1 DEF Covered
  <2>2. CASE x # m
    BY <1>14, <1>16, <2>2 DEF Covered, IsCopy
  <2> QED BY <2>1, <2>2
<1>21. ASSUME NEW x \in Msg, LoopOK' PROVE Woken(x)
  <2>1. woken \subseteq pendingWake'
    BY <1>1 DEF WakeNot, WakeWorker
  <2>2. CASE x = m
    BY <1>6, <1>11, <1>13, <1>18, <2>1, <2>2 DEF Woken
  <2>3. CASE x # m
    <3>1. rows'[x] = rows[x] \/ IsCopy(x, rows'[x], D)
      BY <1>14, <1>16, <2>3
    <3>2. ASSUME IsCopy(x, rows'[x], D) PROVE rows'[x].queue \in woken
      BY <1>10, <1>12, <3>2 DEF IsCopy, Forwards
    <3> QED BY <2>1, <3>1, <3>2 DEF Woken
  <2> QED BY <2>2, <2>3
<1>22. rows[m].queue \in (woken \cup also) \cup missed \/ timer' \in Nat
  BY <1>4, <1>11, <1>13, <1>19
<1> QED BY <1>1, <1>6, <1>9, <1>16, <1>17, <1>18, <1>19, <1>20, <1>21, <1>22

-----------------------------------------------------------------------------
(* The handlers, the callers outside and the sweeper.                         *)

(* The end of a handler: its queue is woken, and no other claim is touched.      *)
LEMMA HandlerEndKeeps ==
  ASSUME LoopInv, RowsMove, up, TimerKept, NEW e \in running, running' = running \ {e},
         NEW qs \in SUBSET Queue, NEW missed \in SUBSET Queue, WakeNot(qs, missed),
         rows[e.msg].queue \in qs,
         UNCHANGED <<up, drain, rescan, restartLeft, away, unreset>>, busyLeft' \in 0 .. MaxBusy,
         Current(e) => rows'[e.msg].by = "nobody",
         \A x \in Msg : rows'[x] = rows[x] \/ x = e.msg \/ rows[x].status = "none",
         \A x \in Msg : Covered(x) /\ (LoopOK' => Woken(x))
  PROVE  Kept
<1>1. running' \in SUBSET running /\ e.msg \in Msg
  BY DEF LoopInv, RunningOK
<1>2. ASSUME ~unreset, NEW m \in Msg, rows'[m] = rows[m], rows[m].by = "local"
      PROVE  [msg |-> m, token |-> rows[m].token] \in running'
  <2>1. [msg |-> m, token |-> rows[m].token] \in running
    BY <1>2 DEF LoopInv, HeldByRunning
  <2>2. rows[m].status = "processing"
    BY <1>2 DEF LoopInv, RowsOK, RowOK
  <2>3. [msg |-> m, token |-> rows[m].token] = e => Current(e)
    BY <2>2 DEF Current
  <2>4. [msg |-> m, token |-> rows[m].token] # e
    BY <1>2, <2>3
  <2> QED BY <2>1, <2>4
<1>3. LoopOK'
  BY WakeKeeps DEF LoopInv, RestOK
<1>4. \A m \in Msg : rows[m].by = "external" => rows'[m] = rows[m] \/ rows[m].queue \in qs
  BY DEF LoopInv, RowsOK, RowOK
<1>5. \A x \in running : x \in running' \/ rows[x.msg].queue \in qs
  OBVIOUS
<1> QED BY <1>1, <1>2, <1>3, <1>4, <1>5, MovingStep DEF Kept

LEMMA HandlerSucceedsKeeps ==
  ASSUME LoopInv, NEW e \in running, HandlerSucceeds(e)
  PROVE  Kept
<1>1. /\ up /\ running' = running \ {e} /\ WakeNot({rows[e.msg].queue}, {})
      /\ rows' = IF Current(e) THEN [rows EXCEPT ![e.msg] = Released(@, "done", 0)] ELSE rows
      /\ UNCHANGED <<up, drain, rescan, restartLeft, timer, busyLeft, away, unreset>>
  BY DEF HandlerSucceeds, Wake, database
<1>2. RowsOK /\ RestOK /\ e.msg \in Msg /\ RowOK(rows[e.msg]) /\ rows[e.msg] \in Row
      /\ {rows[e.msg].queue} \in SUBSET Queue /\ {} \in SUBSET Queue
  BY DEF LoopInv, RunningOK, RowsOK, Row
<1>3. TimerKept /\ busyLeft' \in 0..MaxBusy
  BY <1>1, <1>2 DEF RestOK, TimerKept, Off
<1> DEFINE new == Released(rows[e.msg], "done", 0)
<1>4. RowOK(new) /\ new.status = "done" /\ new.queue = rows[e.msg].queue /\ new.by = "nobody"
  BY <1>2, ReleasedRow
<1> HIDE DEF new
<1>5. CASE Current(e)
  <2>1. rows' = [rows EXCEPT ![e.msg] = new]
    BY <1>1, <1>5 DEF new
  <2>2. RowsMove /\ rows'[e.msg] = new /\ \A x \in Msg : x # e.msg => rows'[x] = rows[x]
    BY <1>2, <1>4, <1>5, <2>1, EndsMove DEF Current
  <2>3. \A x \in Msg : Covered(x) /\ Woken(x)
    BY <1>4, <2>2 DEF Covered, Woken
  <2> QED BY <1>1, <1>2, <1>3, <1>4, <2>2, <2>3, HandlerEndKeeps
<1>6. CASE ~Current(e)
  <2>1. rows' = rows
    BY <1>1, <1>6
  <2>2. RowsMove /\ \A x \in Msg : rows'[x] = rows[x] /\ Covered(x) /\ Woken(x)
    BY <1>2, <2>1 DEF RowsMove, RowsOK, Moves, Covered, Woken
  <2> QED BY <1>1, <1>2, <1>3, <1>6, <2>2, HandlerEndKeeps
<1> QED BY <1>5, <1>6

LEMMA HandlerFailsKeeps ==
  ASSUME LoopInv, NEW e \in running, HandlerFails(e)
  PROVE  Kept
<1>1. /\ up /\ running' = running \ {e}
      /\ IF Current(e) THEN Fails(e.msg, {rows[e.msg].queue})
         ELSE WakeNot({rows[e.msg].queue}, {}) /\ UNCHANGED <<rows, timer>>
      /\ UNCHANGED <<up, drain, rescan, restartLeft, busyLeft, away, unreset>>
  BY DEF HandlerFails, Wake, database
<1>2. RowsOK /\ RestOK /\ e.msg \in Msg /\ {rows[e.msg].queue} \in SUBSET Queue
      /\ {} \in SUBSET Queue
  BY DEF LoopInv, RunningOK, RowsOK, Row
<1>3. busyLeft' \in 0..MaxBusy
  BY <1>1, <1>2 DEF RestOK
<1>4. CASE Current(e)
  <2>1. Fails(e.msg, {rows[e.msg].queue}) /\ rows[e.msg].status = "processing"
    BY <1>1, <1>4 DEF Current
  <2>2. /\ RowsMove /\ TimerKept
        /\ \A x \in Msg : Covered(x) /\ (LoopOK' => Woken(x))
        /\ \A x \in Msg : rows'[x] = rows[x] \/ x = e.msg \/ rows[x].status = "none"
        /\ rows'[e.msg].by = "nobody"
        /\ \E qs, missed \in SUBSET Queue : WakeNot(qs, missed) /\ {rows[e.msg].queue} \subseteq qs
    BY <1>2, <2>1, FailsMoves
  <2>3. PICK qs, missed \in SUBSET Queue : WakeNot(qs, missed) /\ {rows[e.msg].queue} \subseteq qs
    BY <2>2
  <2> QED BY <1>1, <1>3, <2>2, <2>3, HandlerEndKeeps
<1>5. CASE ~Current(e)
  <2>1. rows' = rows /\ timer' = timer /\ WakeNot({rows[e.msg].queue}, {})
    BY <1>1, <1>5
  <2>2. RowsMove /\ \A x \in Msg : rows'[x] = rows[x] /\ Covered(x) /\ Woken(x)
    BY <1>2, <2>1 DEF RowsMove, RowsOK, Moves, Covered, Woken
  <2>3. TimerKept
    BY <1>2, <2>1 DEF RestOK, TimerKept, Off
  <2> QED BY <1>1, <1>2, <1>3, <1>5, <2>1, <2>2, <2>3, HandlerEndKeeps
<1> QED BY <1>4, <1>5

(* A message that is put back for want of capacity is delayed by one tick, for   *)
(* which the timer is set, and gets its attempt back.                          *)
LEMMA HandlerBusyKeeps ==
  ASSUME LoopInv, NEW e \in running, HandlerBusy(e)
  PROVE  Kept
<1> DEFINE old == rows[e.msg]
           new == Deferred(old)
<1>1. /\ up /\ busyLeft > 0 /\ busyLeft' = busyLeft - 1 /\ running' = running \ {e}
      /\ rows' = IF old.status = "processing" THEN [rows EXCEPT ![e.msg] = new] ELSE rows
      /\ timer' = Scheduled(1) /\ WakeNot({old.queue}, {})
      /\ UNCHANGED <<up, drain, rescan, restartLeft, away, unreset>>
  BY DEF HandlerBusy, Wake, database
<1>2. /\ RowsOK /\ RestOK /\ e.msg \in Msg /\ RowOK(old) /\ old \in Row
      /\ {old.queue} \in SUBSET Queue /\ {} \in SUBSET Queue
  BY DEF LoopInv, RunningOK, RowsOK, Row
<1>3. TimerKept /\ timer' \in Nat /\ timer' <= 1
  BY <1>1, <1>2, ScheduledKeeps
<1>4. busyLeft' \in 0..MaxBusy
  BY <1>1, <1>2, QueueServiceAssumption DEF RestOK
<1>5. CASE old.status = "processing"
  <2>1. rows' = [rows EXCEPT ![e.msg] = new]
    BY <1>1, <1>5
  <2>2. /\ RowOK(new) /\ new.status = "queued" /\ new.queue = old.queue
        /\ new.by = "nobody" /\ new.wait = 1
    BY <1>2, <1>5, DeferredRow
  <2> HIDE DEF new
  <2>3. RowsMove /\ rows'[e.msg] = new /\ \A x \in Msg : x # e.msg => rows'[x] = rows[x]
    BY <1>2, <1>5, <2>1, <2>2, EndsMove
  <2>4. \A x \in Msg : Covered(x) /\ Woken(x)
    BY <1>3, <2>2, <2>3 DEF Covered, Woken
  <2> QED BY <1>1, <1>2, <1>3, <1>4, <2>2, <2>3, <2>4, HandlerEndKeeps
<1>6. CASE old.status # "processing"
  <2>1. rows' = rows
    BY <1>1, <1>6
  <2>2. RowsMove /\ \A x \in Msg : rows'[x] = rows[x] /\ Covered(x) /\ Woken(x)
    BY <1>2, <2>1 DEF RowsMove, RowsOK, Moves, Covered, Woken
  <2>3. ~Current(e)
    BY <1>6 DEF Current
  <2> QED BY <1>1, <1>2, <1>3, <1>4, <2>2, <2>3, HandlerEndKeeps
<1> QED BY <1>5, <1>6

(* Without a database the end of a handler is not recorded: a restore had failed.   *)
LEMMA HandlerUnheardKeeps ==
  ASSUME LoopInv, NEW e \in running, HandlerUnheard(e)
  PROVE  Kept
<1>1. /\ away /\ running' = running \ {e} /\ NoWake
      /\ UNCHANGED <<rows, up, drain, timer, rescan, away, unreset, busyLeft, restartLeft>>
  BY DEF HandlerUnheard, database
<1>2. unreset /\ unreset'
  BY <1>1 DEF LoopInv, RestOK
<1>3. LoopOK' /\ RestOK' /\ RowsOK' /\ RunningOK'
  BY <1>1 DEF LoopInv, LoopOK, PendingWakeIsBacked, RestOK, RowsOK, RunningOK, NoWake
<1>4. HeldByRunning' /\ TimerCoversDelays' /\ Wakeful'
  BY <1>2 DEF HeldByRunning, TimerCoversDelays, Wakeful
<1> QED BY <1>3, <1>4 DEF Kept, LoopInv

(* A step over HTTP: it ends one claim, or one queued message, and leaves copies. *)
LEMMA OutsideKeeps ==
  ASSUME LoopInv, RowsMove, up, TimerKept, NEW qs \in SUBSET Queue,
         NEW missed \in SUBSET Queue, WakeNot(qs, missed),
         UNCHANGED <<memory, rescan>>, NEW m \in Msg, rows'[m].by = "nobody",
         \A x \in Msg : rows'[x] = rows[x] \/ x = m \/ rows[x].status = "none",
         \A x \in Msg : Covered(x) /\ (LoopOK' => Woken(x)),
         rows[m].by = "external" => rows[m].queue \in qs \cup missed \/ timer' \in Nat
  PROVE  Kept
<1>1. /\ UNCHANGED <<up, drain, rescan, restartLeft, away, unreset>>
      /\ running' = running /\ busyLeft' = busyLeft
  BY DEF memory, database
<1>2. running' \in SUBSET running /\ busyLeft' \in 0..MaxBusy
  BY <1>1 DEF LoopInv, RestOK
<1>3. unreset \/ \A x \in Msg : rows'[x] = rows[x] /\ rows[x].by = "local"
                       => [msg |-> x, token |-> rows[x].token] \in running'
  BY <1>1 DEF LoopInv, HeldByRunning
<1>4. LoopOK'
  BY <1>1, WakeKeeps DEF LoopInv, RestOK
<1>5. LoopInv'
  BY <1>1, <1>2, <1>3, MovingStep
<1>6. \A x \in Msg : rows[x].by = "external"
                       => \/ rows'[x] = rows[x] \/ timer' \in Nat
                          \/ rows[x].queue \in qs \cup missed
  BY DEF LoopInv, RowsOK, RowOK
<1> QED BY <1>1, <1>2, <1>3, <1>4, <1>5, <1>6, MovingStep DEF Kept

LEMMA ExternalCompleteKeeps ==
  ASSUME LoopInv, NEW m \in Msg, ExternalComplete(m)
  PROVE  Kept
<1> DEFINE new == Released(rows[m], "done", 0)
<1>1. /\ up /\ rows[m].by = "external" /\ rows' = [rows EXCEPT ![m] = new]
      /\ WakeNot({rows[m].queue}, {}) /\ UNCHANGED <<memory, timer, rescan>>
  BY DEF ExternalComplete, Wake
<1>2. RowsOK /\ RestOK /\ RowOK(rows[m]) /\ rows[m] \in Row /\ rows[m].queue \in Queue
  BY DEF LoopInv, RowsOK, Row
<1>3. rows[m].status # "none"
  BY <1>1, <1>2 DEF RowOK
<1>4. RowOK(new) /\ new.status = "done" /\ new.queue = rows[m].queue /\ new.by = "nobody"
  BY <1>2, ReleasedRow
<1> HIDE DEF new
<1>5. RowsMove /\ rows'[m] = new /\ \A x \in Msg : x # m => rows'[x] = rows[x]
  BY <1>1, <1>2, <1>3, <1>4, EndsMove
<1>6. \A x \in Msg : Covered(x) /\ Woken(x)
  BY <1>4, <1>5 DEF Covered, Woken
<1>7. TimerKept /\ {rows[m].queue} \in SUBSET Queue /\ {} \in SUBSET Queue
  BY <1>1, <1>2 DEF RestOK, TimerKept, Off
<1> QED BY <1>1, <1>4, <1>5, <1>6, <1>7, OutsideKeeps

LEMMA ExternalFailKeeps ==
  ASSUME LoopInv, NEW m \in Msg, ExternalFail(m)
  PROVE  Kept
<1>1. /\ up /\ "fail" \in Outside /\ rows[m].by = "external" /\ Fails(m, {})
      /\ UNCHANGED <<memory, rescan>>
  BY DEF ExternalFail
<1>2. rows[m].status = "processing" /\ {} \in SUBSET Queue
  BY <1>1 DEF LoopInv, RowsOK, RowOK
<1>3. /\ RowsMove /\ TimerKept
      /\ \E qs, missed \in SUBSET Queue :
           WakeNot(qs, missed) /\ (rows[m].queue \in qs \cup missed \/ timer' \in Nat)
      /\ \A x \in Msg : Covered(x) /\ (LoopOK' => Woken(x))
      /\ \A x \in Msg : rows'[x] = rows[x] \/ x = m \/ rows[x].status = "none"
      /\ rows'[m].by = "nobody"
  BY <1>1, <1>2, FailsMoves
<1>4. PICK qs, missed \in SUBSET Queue :
        WakeNot(qs, missed) /\ (rows[m].queue \in qs \cup missed \/ timer' \in Nat)
  BY <1>3
<1> QED BY <1>1, <1>3, <1>4, OutsideKeeps

LEMMA CancelKeeps ==
  ASSUME LoopInv, NEW m \in Msg, Cancel(m)
  PROVE  Kept
<1> DEFINE new == Released(rows[m], "deleted", 0)
           missed == IF rows[m].by = "external" THEN {rows[m].queue} ELSE {}
<1>1. /\ up /\ rows[m].status # "none" /\ rows' = [rows EXCEPT ![m] = new]
      /\ WakeNot({}, missed) /\ UNCHANGED <<memory, timer, rescan>>
  BY DEF Cancel
<1>2. RowsOK /\ RestOK /\ RowOK(rows[m]) /\ rows[m] \in Row
  BY DEF LoopInv, RowsOK, Row
<1>4. RowOK(new) /\ new.status = "deleted" /\ new.queue = rows[m].queue /\ new.by = "nobody"
  BY <1>2, ReleasedRow
<1> HIDE DEF new
<1>5. RowsMove /\ rows'[m] = new /\ \A x \in Msg : x # m => rows'[x] = rows[x]
  BY <1>1, <1>2, <1>4, EndsMove
<1>6. \A x \in Msg : Covered(x) /\ Woken(x)
  BY <1>4, <1>5 DEF Covered, Woken
<1>7. TimerKept /\ {} \in SUBSET Queue /\ missed \in SUBSET Queue
  BY <1>1, <1>2 DEF RestOK, TimerKept, Off, Row
<1>8. rows[m].by = "external" => rows[m].queue \in {} \cup missed
  OBVIOUS
<1> HIDE DEF missed
<1> QED BY <1>1, <1>4, <1>5, <1>6, <1>7, <1>8, OutsideKeeps

LEMMA ForceSkipKeeps ==
  ASSUME LoopInv, NEW m \in Msg, ForceSkip(m)
  PROVE  Kept
<1> DEFINE new == Released(rows[m], "dead", 0)
           rs  == [rows EXCEPT ![m] = new]
           D   == IF Forwards(m) THEN {m} ELSE {}
           qs  == {rows[m].queue, DeadLetterTo[rows[m].queue]}
<1>1. /\ up /\ rows[m].status # "none" /\ rows' = WithCopies(rs, D)
      /\ WakeNot(qs, {}) /\ UNCHANGED <<memory, timer, rescan>>
  BY DEF ForceSkip, Wake
<1>2. /\ RowsOK /\ RestOK /\ RowOK(rows[m]) /\ rows[m] \in Row /\ rows[m].queue \in Queue
      /\ rows \in [Msg -> Row]
  BY DEF LoopInv, RowsOK, Row
<1>3. RowOK(new) /\ new.status = "dead" /\ new.queue = rows[m].queue /\ new.by = "nobody"
  BY <1>2, ReleasedRow
<1>4. D \in SUBSET Msg /\ \A d \in D : d = m
  OBVIOUS
<1> HIDE DEF new, D
<1>5. rs \in [Msg -> Row] /\ rs[m] = new /\ \A x \in Msg : x # m => rs[x] = rows[x]
  BY <1>2, <1>3 DEF RowOK
<1> HIDE DEF rs
<1>6. \A x \in Msg : Moves(rows[x], rs[x])
  BY <1>1, <1>3, <1>5 DEF Moves
<1>7. RowsMove /\ \A x \in Msg : rows'[x] = rs[x] \/ IsCopy(x, rows'[x], D)
  BY <1>1, <1>2, <1>4, <1>5, <1>6, CopiesMove
<1>8. rows'[m] = new /\ \A x \in Msg : rows'[x] = rows[x] \/ x = m \/ rows[x].status = "none"
  BY <1>1, <1>5, <1>7 DEF IsCopy, Free
<1>9. qs \in SUBSET Queue /\ {} \in SUBSET Queue
  BY <1>2, QueueServiceAssumption
<1>10. qs \subseteq pendingWake'
  BY <1>1 DEF WakeNot, WakeWorker
<1>11. ASSUME NEW x \in Msg PROVE Covered(x) /\ Woken(x)
  <2>1. CASE x = m
    BY <1>3, <1>8, <2>1 DEF Covered, Woken
  <2>2. CASE x # m
    BY <1>4, <1>5, <1>7, <1>10, <2>2 DEF Covered, Woken, IsCopy
  <2> QED BY <2>1, <2>2
<1>12. TimerKept /\ rows[m].queue \in qs
  BY <1>1, <1>2 DEF RestOK, TimerKept, Off
<1> HIDE DEF qs
<1> QED BY <1>1, <1>3, <1>7, <1>8, <1>9, <1>11, <1>12, OutsideKeeps

(* reclaimOrphaned: each row goes back at once, or leaves a copy that is due.      *)
LEMMA ReclaimMoves ==
  ASSUME LoopInv, NEW rs \in [Msg -> Row], \A x \in Msg : RowOK(rs[x]) /\ Moves(rows[x], rs[x]),
         NEW T \in SUBSET Msg, \A x \in T : rs[x].status = "processing" /\ rs[x] = rows[x],
         Reclaim(rs, T)
  PROVE  /\ RowsMove /\ (rs = rows => \A x \in Msg : Covered(x))
         /\ \A x \in T : rows'[x].by = "nobody"
         /\ \A x \in Msg \ T : rows'[x] = rs[x] \/ rows'[x].by = "nobody"
<1> DEFINE dead == {m \in T : Exhausted(m)}
           kept == [m \in Msg |-> IF m \in T THEN GivenUp(rs, m, 0)[m] ELSE rs[m]]
           D == {m \in dead : Forwards(m)}
<1>1. rows' = WithCopies(kept, D) /\ D \in SUBSET Msg
  BY DEF Reclaim
<1>2. /\ RowsOK /\ rows \in [Msg -> Row]
      /\ \A x \in Msg : RowOK(rows[x]) /\ rows[x] \in Row
  BY DEF LoopInv, RowsOK
<1>3. ASSUME NEW x \in T
      PROVE  /\ RowOK(kept[x]) /\ kept[x].status \in {"queued", "dead"} /\ kept[x].wait = 0
             /\ kept[x].queue = rows[x].queue /\ kept[x].by = "nobody"
  <2>1. RowOK(rows[x]) /\ rows[x] \in Row /\ rows[x].attempts \in 0..MaxAttempts /\ rs[x] = rows[x]
    BY <1>2 DEF Row
  <2>2. CASE Exhausted(x)
    <3>1. kept[x] = Released(rows[x], "dead", 0)
      BY <2>1, <2>2 DEF GivenUp
    <3> HIDE DEF kept
    <3> QED BY <2>1, <3>1, ReleasedRow
  <2>3. CASE ~Exhausted(x)
    <3>1. kept[x] = Released(rows[x], "queued", 0)
      BY <2>1, <2>3 DEF GivenUp
    <3>2. rows[x].attempts < MaxAttempts
      BY <2>1, <2>3, QueueServiceAssumption DEF Exhausted
    <3> HIDE DEF kept
    <3> QED BY <2>1, <3>1, <3>2, ReleasedRow
  <2> QED BY <2>2, <2>3
<1>4. \A x \in Msg : x \notin T => kept[x] = rs[x]
  OBVIOUS
<1>5. kept = [x \in Msg |-> kept[x]]
  OBVIOUS
<1> HIDE DEF kept, D
<1>6. \A x \in Msg : Moves(rows[x], kept[x]) /\ kept[x] \in Row
  <2>1. ASSUME NEW x \in T PROVE Moves(rows[x], kept[x]) /\ kept[x] \in Row
    BY <1>3, <2>1 DEF Moves, RowOK
  <2> QED BY <1>4, <2>1
<1>7. kept \in [Msg -> Row]
  BY <1>5, <1>6
<1>8. RowsMove /\ \A x \in Msg : rows'[x] = kept[x] \/ IsCopy(x, rows'[x], D)
  BY <1>1, <1>2, <1>6, <1>7, CopiesMove
<1>9. ASSUME rs = rows, NEW x \in Msg PROVE Covered(x)
  <2>1. CASE rows'[x] = kept[x]
    BY <1>3, <1>4, <1>9, <2>1 DEF Covered
  <2>2. CASE IsCopy(x, rows'[x], D)
    BY <2>2 DEF Covered, IsCopy
  <2> QED BY <1>8, <2>1, <2>2
<1>10. \A x \in T : rows'[x].by = "nobody"
  BY <1>3, <1>8 DEF IsCopy, Free
<1>11. ASSUME NEW x \in Msg \ T PROVE rows'[x] = rs[x] \/ rows'[x].by = "nobody"
  <2>1. \A new : IsCopy(x, new, D) => new.by = "nobody"
    BY DEF IsCopy, RowOK, Row
  <2> QED BY <1>4, <1>8, <2>1
<1> QED BY <1>8, <1>9, <1>10, <1>11

(* The rows as they are are those of a table that has not moved.                  *)
LEMMA RowsStand ==
  ASSUME LoopInv
  PROVE  rows \in [Msg -> Row] /\ \A x \in Msg : RowOK(rows[x]) /\ Moves(rows[x], rows[x])
  BY DEF LoopInv, RowsOK, Moves

(* The sweeper and start() wake every queue with a message that is due.         *)
LEMMA DueQueuesAreAwake ==
  ASSUME DueQueues(rows') \subseteq pendingWake'
  PROVE  Wakeful'
  BY DEF Wakeful, Attended, DueQueues

LEMMA SweepKeeps ==
  ASSUME LoopInv, Sweep
  PROVE  Kept
<1>1. /\ up /\ Reclaim(rows, ExpiredRows) /\ WakeNot(DueQueues(rows'), {})
      /\ UNCHANGED <<memory, timer, rescan>>
  BY DEF Sweep, Wake
<1>2. /\ UNCHANGED <<up, drain, rescan, restartLeft, away, unreset>>
      /\ running' = running /\ busyLeft' = busyLeft
  BY <1>1 DEF memory, database
<1>3. ExpiredRows \in SUBSET Msg /\ \A x \in ExpiredRows : rows[x].status = "processing"
  BY DEF ExpiredRows
<1>4. RowsMove /\ \A x \in Msg : Covered(x)
  BY <1>1, <1>3, RowsStand, ReclaimMoves
<1>5. TimerKept /\ running' \in SUBSET running /\ busyLeft' \in 0..MaxBusy
  BY <1>1, <1>2 DEF LoopInv, RestOK, TimerKept, Off
<1>6. unreset \/ \A x \in Msg : rows'[x] = rows[x] /\ rows[x].by = "local"
                       => [msg |-> x, token |-> rows[x].token] \in running'
  BY <1>1, <1>2 DEF LoopInv, HeldByRunning
<1>7. DueQueues(rows') \in SUBSET Queue /\ {} \in SUBSET Queue
  BY DEF DueQueues
<1>8. LoopInv' /\ DueQueues(rows') \subseteq pendingWake'
  BY <1>1, <1>2, <1>4, <1>5, <1>6, <1>7, MovingStep
<1> QED BY <1>8, DueQueuesAreAwake DEF Kept

(* start(): no claim of this program is left, so none needs an execution.        *)
LEMMA StartKeeps ==
  ASSUME LoopInv, Start
  PROVE  Kept
<1> DEFINE T == ExpiredRows \cup {m \in Msg : rows[m].by = "local"}
<1>1. /\ ~up \/ restartLeft > 0
      /\ restartLeft' = IF up THEN restartLeft - 1 ELSE restartLeft
      /\ up' = TRUE /\ Reclaim(rows, T) /\ WakeNot(DueQueues(rows'), {}) /\ rescan' = TRUE
      /\ ~away /\ unreset' = FALSE
      /\ UNCHANGED <<drain, timer, running, away, busyLeft>>
  BY DEF Start, Wake
<1>2. T \in SUBSET Msg /\ \A x \in T : rows[x].status = "processing"
  BY DEF ExpiredRows, LoopInv, RowsOK, RowOK
<1>3. \A x \in Msg : rows[x].by = "local" => x \in T
  OBVIOUS
<1> HIDE DEF T
<1>4. RowsMove /\ \A x \in Msg : Covered(x)
  BY <1>1, <1>2, RowsStand, ReclaimMoves
<1>5. \A x \in Msg : ~(rows'[x] = rows[x] /\ rows[x].by = "local")
  BY <1>1, <1>2, <1>3, RowsStand, ReclaimMoves
<1>6. TimerKept /\ running' \in SUBSET running
  BY <1>1 DEF LoopInv, RestOK, TimerKept, Off
<1>7. DueQueues(rows') \in SUBSET Queue /\ {} \in SUBSET Queue
  BY DEF DueQueues
<1>8. LoopOK' /\ DueQueues(rows') \subseteq pendingWake' /\ unwoken' \in SUBSET Queue
  BY <1>1, <1>7, WakeKeeps DEF LoopInv, RestOK
<1>9. RowsOK' /\ RunningOK' /\ HeldByRunning' /\ TimerCoversDelays'
  BY <1>1, <1>4, <1>5, <1>6, MovesKeep
<1>10. RestOK'
  <2>1. restartLeft' \in 0 .. MaxRestart
    <3>1. restartLeft \in 0 .. MaxRestart
      BY DEF LoopInv, RestOK
    <3>2. CASE up
      <4>1. restartLeft > 0 /\ restartLeft' = restartLeft - 1
        BY <1>1, <3>2
      <4> QED BY <3>1, <4>1, QueueServiceAssumption
    <3>3. CASE ~up
      BY <1>1, <3>1, <3>3
    <3> QED BY <3>2, <3>3
  <2>2. busyLeft' \in 0 .. MaxBusy /\ timer' \in Nat \cup {Off}
    BY <1>1 DEF LoopInv, RestOK
  <2>3. up' \in BOOLEAN /\ rescan' \in BOOLEAN /\ unreset' \in BOOLEAN
    BY <1>1
  <2>4. away' \in BOOLEAN /\ (away' => unreset')
    BY <1>1 DEF LoopInv, RestOK
  <2> QED BY <1>8, <2>1, <2>2, <2>3, <2>4 DEF RestOK
<1>11. LoopInv'
  BY <1>8, <1>9, <1>10 DEF LoopInv
<1> QED BY <1>8, <1>11, DueQueuesAreAwake DEF Kept

(* What a snapshot holds of each message: the end of an attempt, or the row as it is. *)
LEMMA SnapshotMoves ==
  ASSUME LoopInv, NEW gone \in SUBSET Sent, NEW back \in SUBSET Sent, NEW delay \in SendDelay
  PROVE  /\ SnapshotRows(gone, back, delay) \in [Msg -> Row]
         /\ \A x \in Msg : /\ RowOK(SnapshotRows(gone, back, delay)[x])
                           /\ Moves(rows[x], SnapshotRows(gone, back, delay)[x])
                           /\ SnapshotRows(gone, back, delay)[x].status = "processing"
                                => SnapshotRows(gone, back, delay)[x] = rows[x]
<1> DEFINE rs == SnapshotRows(gone, back, delay)
           queued(x) == [rows[x] EXCEPT !.attempts = 0]
<1>1. RowsOK /\ \A x \in Msg : RowOK(rows[x]) /\ rows[x] \in Row
  BY DEF LoopInv, RowsOK
<1>2. delay \in Nat /\ 0 \in 0..MaxAttempts /\ 0 < MaxAttempts
  BY QueueServiceAssumption
<1>3. ASSUME NEW x \in Msg
      PROVE  RowOK(rs[x]) /\ Moves(rows[x], rs[x]) /\ (rs[x].status = "processing" => rs[x] = rows[x])
  <2>1. CASE x \in gone
    <3>1. rs[x] = Released(rows[x], "deleted", 0) /\ rows[x].status # "none"
      BY <2>1 DEF SnapshotRows, Sent
    <3>2. /\ RowOK(rs[x]) /\ rs[x].status = "deleted" /\ rs[x].queue = rows[x].queue
      <4> HIDE DEF rs
      <4> QED BY <1>1, <3>1, ReleasedRow
    <3> HIDE DEF rs
    <3> QED BY <3>1, <3>2 DEF Moves
  <2>2. CASE x \in back /\ x \notin gone
    <3>1. /\ rs[x] = [Released(rows[x], "queued", delay) EXCEPT !.attempts = 0]
          /\ rows[x].status # "none" /\ rows[x] \in Row
      BY <1>1, <2>2 DEF SnapshotRows, Sent
    <3> DEFINE new == Released(rows[x], "queued", delay)
    <3>2. /\ new \in Row /\ new.status = "queued" /\ new.queue = rows[x].queue
          /\ new.by = "nobody"
      BY <1>1, <1>2 DEF Released, Row
    <3>3. rs[x] = [new EXCEPT !.attempts = 0]
      BY <3>1
    <3> HIDE DEF rs, new
    <3>4. /\ rs[x] \in Row /\ rs[x].status = "queued" /\ rs[x].queue = rows[x].queue
          /\ rs[x].by = "nobody" /\ rs[x].attempts = 0
      BY <1>2, <3>2, <3>3 DEF Row
    <3>5. RowOK(rs[x])
      BY <1>2, <3>4 DEF RowOK
    <3> QED BY <3>1, <3>4, <3>5 DEF Moves
  <2>3. CASE x \notin gone /\ x \notin back
    <3>1. rs[x] = rows[x]
      BY <2>3 DEF SnapshotRows
    <3> HIDE DEF rs
    <3> QED BY <1>1, <3>1 DEF Moves
  <2> QED BY <2>1, <2>2, <2>3
<1>4. rs = [x \in Msg |-> rs[x]]
  BY DEF SnapshotRows
<1> HIDE DEF rs
<1>5. \A x \in Msg : rs[x] \in Row
  BY <1>3 DEF RowOK
<1>6. rs \in [Msg -> Row]
  BY <1>4, <1>5
<1> QED BY <1>3, <1>6 DEF rs

(* A restore leaves no claim, so none needs an execution, and wakes what is due.    *)
LEMMA RestoredKeeps ==
  ASSUME LoopInv, Restored
  PROVE  Kept
<1>1. /\ up /\ ~rescan /\ (\A q \in Queue : drain[q] = "idle")
      /\ restartLeft > 0 /\ restartLeft' = restartLeft - 1
      /\ WakeWorker(DueQueues(rows'), {}, immediates) /\ timer' = Off /\ rescan' = TRUE
      /\ away' = FALSE /\ unreset' = FALSE /\ unwoken' = {}
      /\ UNCHANGED <<up, drain, running, busyLeft>>
  BY DEF Restored, Quiet
<1>2. PICK gone \in SUBSET Sent, back \in SUBSET Sent, delay \in SendDelay :
        Reclaim(SnapshotRows(gone, back, delay),
                {m \in Msg : SnapshotRows(gone, back, delay)[m].status = "processing"})
  BY DEF Restored
<1> DEFINE rs == SnapshotRows(gone, back, delay)
           T == {m \in Msg : rs[m].status = "processing"}
<1>3. rs \in [Msg -> Row] /\ (\A x \in Msg : RowOK(rs[x]) /\ Moves(rows[x], rs[x]))
      /\ \A x \in Msg : rs[x].status = "processing" => rs[x] = rows[x]
  BY SnapshotMoves
<1>4. Reclaim(rs, T) /\ T \in SUBSET Msg
  BY <1>2
<1>5. \A x \in T : rs[x].status = "processing" /\ rs[x] = rows[x]
  <2> HIDE DEF rs
  <2> QED BY <1>3
<1>6. \A x \in Msg : x \notin T => rs[x].status # "processing"
  OBVIOUS
<1> HIDE DEF rs, T
<1>7. RowsMove
  BY <1>3, <1>4, <1>5, ReclaimMoves
<1>8. ASSUME NEW x \in Msg PROVE rows'[x].by = "nobody"
  <2>1. CASE x \in T
    BY <1>3, <1>4, <1>5, <2>1, ReclaimMoves
  <2>2. CASE x \notin T
    <3>1. rs[x].by = "nobody"
      BY <1>3, <1>6, <2>2 DEF RowOK, Row
    <3>2. rows'[x] = rs[x] \/ rows'[x].by = "nobody"
      BY <1>3, <1>4, <1>5, <2>2, ReclaimMoves
    <3> QED BY <3>1, <3>2
  <2> QED BY <2>1, <2>2
<1>9. RowsOK'
  BY <1>7 DEF LoopInv, RowsOK, RowsMove, Moves
<1>10. RunningOK'
  <2>1. \A e \in running : e.msg \in Msg /\ rows[e.msg].status # "none"
    BY DEF LoopInv, RunningOK
  <2> QED BY <1>1, <1>7, <2>1 DEF LoopInv, RunningOK, RowsMove, Moves
<1>11. HeldByRunning' /\ TimerCoversDelays'
  BY <1>1, <1>8 DEF HeldByRunning, TimerCoversDelays
<1>12. DueQueues(rows') \in SUBSET Queue
  BY DEF DueQueues
<1>13. LoopOK' /\ pendingWake' = DueQueues(rows')
  <2>1. /\ pendingWake' = DueQueues(rows')
        /\ immediates' = [q \in Queue |-> IF q \in DueQueues(rows') THEN immediates[q] + 1
                                          ELSE immediates[q]]
    BY <1>1 DEF WakeWorker
  <2>2. /\ immediates \in [Queue -> Nat]
        /\ drain \in [Queue -> {"idle", "read", "claimed", "empty"}]
    BY DEF LoopInv, LoopOK
  <2>3. immediates' \in [Queue -> Nat] /\ \A q \in pendingWake' : immediates'[q] > 0
    <3> DEFINE due == DueQueues(rows')
    <3>1. due \in SUBSET Queue /\ pendingWake' = due
          /\ immediates' = [q \in Queue |-> IF q \in due THEN immediates[q] + 1 ELSE immediates[q]]
      BY <1>12, <2>1
    <3> HIDE DEF due
    <3> QED BY <2>2, <3>1
  <2> QED BY <1>1, <1>12, <2>1, <2>2, <2>3 DEF LoopOK, PendingWakeIsBacked
<1>14. restartLeft' \in 0..MaxRestart /\ busyLeft' \in 0..MaxBusy
  <2>1. restartLeft \in 0..MaxRestart /\ restartLeft > 0 /\ restartLeft' = restartLeft - 1
    BY <1>1 DEF LoopInv, RestOK
  <2>2. busyLeft' \in 0..MaxBusy
    BY <1>1 DEF LoopInv, RestOK
  <2> QED BY <2>1, <2>2, QueueServiceAssumption
<1>15. RestOK'
  BY <1>1, <1>14 DEF LoopInv, RestOK
<1>16. Wakeful'
  BY <1>13, DueQueuesAreAwake
<1> QED BY <1>9, <1>10, <1>11, <1>13, <1>15, <1>16 DEF Kept, LoopInv

(* A restore that fails leaves well-formed rows; the rest of the invariant is excused.  *)
LEMMA RestoreFailsKeeps ==
  ASSUME LoopInv, RestoreFails
  PROVE  Kept
<1>1. /\ restartLeft > 0 /\ restartLeft' = restartLeft - 1
      /\ away' \in BOOLEAN /\ unreset' = TRUE
      /\ UNCHANGED <<up, drain, timer, rescan, running, busyLeft>> /\ NoWake
  BY DEF RestoreFails
<1>2. RowsMove
  <2>1. CASE rows' = rows
    BY <2>1, RowsStand DEF RowsMove
  <2>2. ASSUME NEW gone \in SUBSET Sent, NEW back \in SUBSET Sent, NEW delay \in SendDelay,
               rows' = SnapshotRows(gone, back, delay)
        PROVE  RowsMove
    BY <2>2, SnapshotMoves DEF RowsMove
  <2> QED BY <2>1, <2>2 DEF RestoreFails
<1>3. RowsOK'
  BY <1>2 DEF LoopInv, RowsOK, RowsMove, Moves
<1>4. RunningOK'
  <2>1. \A e \in running : e.msg \in Msg /\ rows[e.msg].status # "none"
    BY DEF LoopInv, RunningOK
  <2> QED BY <1>1, <1>2, <2>1 DEF LoopInv, RunningOK, RowsMove, Moves
<1>5. HeldByRunning' /\ TimerCoversDelays' /\ Wakeful'
  BY <1>1 DEF HeldByRunning, TimerCoversDelays, Wakeful
<1>6. LoopOK'
  BY <1>1 DEF LoopInv, LoopOK, PendingWakeIsBacked, NoWake
<1>7. restartLeft' \in 0..MaxRestart
  <2>1. restartLeft \in 0..MaxRestart /\ restartLeft > 0 /\ restartLeft' = restartLeft - 1
    BY <1>1 DEF LoopInv, RestOK
  <2> QED BY <2>1, QueueServiceAssumption
<1>8. RestOK'
  BY <1>1, <1>7 DEF LoopInv, RestOK, NoWake
<1> QED BY <1>3, <1>4, <1>5, <1>6, <1>8 DEF Kept, LoopInv

-----------------------------------------------------------------------------
(* The callbacks, the drains, the claims and the clock.                       *)

(* What depends on rows, executions and timers alone stays when they do.         *)
LEMMA RestStays ==
  ASSUME LoopInv, UNCHANGED <<rows, up, timer, rescan, running, unreset>>
  PROVE  RowsOK' /\ RunningOK' /\ HeldByRunning' /\ TimerCoversDelays'
  BY DEF LoopInv, RowsOK, RunningOK, HeldByRunning, TimerCoversDelays, Delayed, Queued

LEMMA RunImmediateKeeps ==
  ASSUME LoopInv, NEW q \in Queue, RunImmediate(q)
  PROVE  Kept
<1>1. /\ immediates[q] > 0 /\ immediates' = [immediates EXCEPT ![q] = @ - 1]
      /\ IF ~away /\ drain[q] # "idle" THEN pendingWake' = pendingWake \cup {q} /\ UNCHANGED drain
         ELSE /\ pendingWake' = pendingWake \ {q}
              /\ drain' = IF away THEN drain ELSE [drain EXCEPT ![q] = "read"]
      /\ UNCHANGED <<rows, up, timer, rescan, running, away, unreset, busyLeft, restartLeft, unwoken>>
  BY DEF RunImmediate, database
<1>2. /\ pendingWake \in SUBSET Queue /\ immediates \in [Queue -> Nat]
      /\ drain \in [Queue -> {"idle", "read", "claimed", "empty"}] /\ PendingWakeIsBacked
  BY DEF LoopInv, LoopOK
<1>3. /\ immediates' \in [Queue -> Nat]
      /\ \A x \in Queue : x # q => immediates'[x] = immediates[x]
  BY <1>1, <1>2
<1>4. /\ drain' \in [Queue -> {"idle", "read", "claimed", "empty"}]
      /\ q \in pendingWake' => drain'[q] # "idle"
      /\ \A x \in Queue : x # q => drain'[x] = drain[x]
      /\ away \/ q \in pendingWake' \/ drain'[q] = "read"
  BY <1>1, <1>2
<1>5. pendingWake' \in SUBSET Queue /\ \A x \in Queue : x # q => (x \in pendingWake' <=> x \in pendingWake)
  BY <1>1, <1>2
<1>6. LoopOK'
  BY <1>2, <1>3, <1>4, <1>5 DEF LoopOK, PendingWakeIsBacked
<1>7. RowsOK' /\ RunningOK' /\ HeldByRunning' /\ TimerCoversDelays'
  BY <1>1, RestStays
<1>8. LoopInv'
  BY <1>1, <1>6, <1>7 DEF LoopInv, RestOK
<1>9. ASSUME Wakeful, NEW x \in Queue, up', ~unreset', Due(rows', x) # {} PROVE Attended(x)'
  <2>1. Attended(x) /\ ~away
    BY <1>1, <1>9 DEF Wakeful, LoopInv, RestOK
  <2>2. CASE x = q
    BY <1>4, <2>1, <2>2 DEF Attended
  <2>3. CASE x # q
    BY <1>1, <1>4, <1>5, <2>1, <2>3 DEF Attended
  <2> QED BY <2>2, <2>3
<1> QED BY <1>8, <1>9 DEF Kept, Wakeful

LEMMA TimerFiresKeeps ==
  ASSUME LoopInv, TimerFires
  PROVE  Kept
<1>1. /\ timer' = Off /\ UNCHANGED <<rows, memory>>
      /\ IF away THEN NoWake /\ UNCHANGED rescan
         ELSE WakeNot(DueQueues(rows), {}) /\ rescan' = TRUE
  BY DEF TimerFires, Wake
<1>2. UNCHANGED <<up, drain, running, busyLeft, restartLeft, away, unreset>>
  BY <1>1 DEF memory, database
<1>3. DueQueues(rows) \in SUBSET Queue /\ {} \in SUBSET Queue
  BY DEF DueQueues
<1>4. CASE ~away
  <2>1. WakeNot(DueQueues(rows), {}) /\ rescan' = TRUE
    BY <1>1, <1>4
  <2>2. LoopOK' /\ DueQueues(rows') \subseteq pendingWake' /\ unwoken' \in SUBSET Queue
    BY <1>1, <1>2, <1>3, <2>1, WakeKeeps DEF LoopInv, RestOK
  <2>3. RestOK' /\ RowsOK' /\ RunningOK' /\ HeldByRunning' /\ TimerCoversDelays'
    BY <1>1, <1>2, <2>1, <2>2 DEF LoopInv, RestOK, RowsOK, RunningOK, HeldByRunning, TimerCoversDelays
  <2> QED BY <2>2, <2>3, DueQueuesAreAwake DEF Kept, LoopInv
<1>5. CASE away
  <2>1. NoWake /\ UNCHANGED rescan /\ unreset'
    BY <1>1, <1>2, <1>5 DEF LoopInv, RestOK
  <2>2. LoopOK' /\ RestOK' /\ RowsOK' /\ RunningOK'
    BY <1>1, <1>2, <2>1 DEF LoopInv, LoopOK, PendingWakeIsBacked, RestOK, RowsOK, RunningOK, NoWake
  <2>3. HeldByRunning' /\ TimerCoversDelays' /\ Wakeful'
    BY <2>1 DEF HeldByRunning, TimerCoversDelays, Wakeful
  <2> QED BY <2>2, <2>3 DEF Kept, LoopInv
<1> QED BY <1>4, <1>5

LEMMA RescanKeeps ==
  ASSUME LoopInv, Rescan
  PROVE  Kept
<1>1. up /\ rescan' = FALSE /\ ScheduleNext(Queue) /\ UNCHANGED <<rows, memory>> /\ NoWake
  BY DEF Rescan
<1>2. UNCHANGED <<up, drain, running, busyLeft, restartLeft, away, unreset, pendingWake,
                  immediates, unwoken>>
  BY <1>1 DEF memory, database, NoWake
<1>3. TimerKept /\ \A m \in Delayed(rows, Queue) : timer' \in Nat /\ timer' <= rows[m].wait
  BY <1>1, ScheduleNextCovers DEF LoopInv
<1>4. LoopOK' /\ RestOK' /\ RowsOK' /\ RunningOK' /\ HeldByRunning'
  BY <1>1, <1>2, <1>3 DEF LoopInv, LoopOK, PendingWakeIsBacked, RestOK, TimerKept, RowsOK,
                          RunningOK, HeldByRunning
<1>5. TimerCoversDelays'
  BY <1>1, <1>3 DEF TimerCoversDelays, Delayed, Queued, Off
<1>6. /\ RowsMove /\ \A m \in Msg : rows'[m] = rows[m] /\ Woken(m)
      /\ unwoken \subseteq unwoken' \cup pendingWake'
  BY <1>1, <1>2 DEF LoopInv, RowsOK, RowsMove, Moves, Woken
<1>7. Wakeful => Wakeful'
  BY <1>1, <1>2, <1>3, <1>6, MovesStayAwake
<1> QED BY <1>4, <1>5, <1>7 DEF Kept, LoopInv

LEMMA CrashKeeps ==
  ASSUME LoopInv, Crash
  PROVE  Kept
<1>1. /\ restartLeft > 0 /\ up' = FALSE /\ restartLeft' = restartLeft - 1
      /\ pendingWake' = {} /\ immediates' = [q \in Queue |-> 0]
      /\ drain' = [q \in Queue |-> "idle"]
      /\ timer' = Off /\ rescan' = FALSE /\ running' = {} /\ UNCHANGED <<rows, busyLeft>>
      /\ away' = FALSE /\ unreset' = FALSE /\ unwoken' = {}
  BY DEF Crash
<1>2. LoopOK' /\ RowsOK' /\ RunningOK' /\ HeldByRunning' /\ TimerCoversDelays' /\ Wakeful'
  BY <1>1 DEF LoopInv, LoopOK, PendingWakeIsBacked, RowsOK, RunningOK, HeldByRunning,
              TimerCoversDelays, Wakeful
<1>3. restartLeft \in 0..MaxRestart /\ busyLeft \in 0..MaxBusy
  BY DEF LoopInv, RestOK
<1>4. restartLeft' \in 0..MaxRestart
  <2>1. restartLeft > 0 /\ restartLeft' = restartLeft - 1
    BY <1>1
  <2> QED BY <1>3, <2>1, QueueServiceAssumption
<1>5. RestOK'
  BY <1>1, <1>3, <1>4 DEF RestOK
<1> QED BY <1>2, <1>5 DEF Kept, LoopInv

(* A tick brings the timer and the delays nearer by the same amount; a message     *)
(* that falls due has the timer, if the callback has read the table.              *)
LEMMA TickKeeps ==
  ASSUME LoopInv, Tick
  PROVE  Kept
<1> DEFINE missed == IF rescan THEN {rows[m].queue : m \in FallingDue} ELSE {}
<1>1. /\ rows' = [m \in Msg |-> [rows[m] EXCEPT !.wait = Down(@), !.lease = Down(@)]]
      /\ timer' = Down(timer) /\ UNCHANGED <<memory, rescan>> /\ WakeNot({}, missed)
  BY DEF Tick
<1>2. UNCHANGED <<up, drain, running, busyLeft, restartLeft, away, unreset, rescan>>
  BY <1>1 DEF memory, database
<1>2a. missed \in SUBSET Queue /\ {} \in SUBSET Queue
  BY DEF FallingDue, LoopInv, RowsOK, Row
<1>2b. \A m \in Msg : rescan /\ Queued(rows, m) /\ rows[m].wait = 1 => rows[m].queue \in missed
  BY DEF FallingDue
<1> HIDE DEF missed
<1>2c. /\ LoopOK' /\ pendingWake \subseteq pendingWake' /\ unwoken' \in SUBSET Queue
       /\ unwoken \cup missed \subseteq unwoken' \cup pendingWake'
  BY <1>1, <1>2, <1>2a, WakeKeeps DEF LoopInv, RestOK
<1>3. timer \in Nat \cup {Off}
  BY DEF LoopInv, RestOK
<1>4. /\ timer' \in Nat \cup {Off} /\ (timer # Off => timer' # Off)
      /\ timer > 0 => timer' = timer - 1
      /\ timer = 0 => timer' = 0
  <2>1. timer' = IF timer > 0 THEN timer - 1 ELSE timer
    BY <1>1 DEF Down
  <2> QED BY <1>3, <2>1 DEF Off
<1>5. ASSUME NEW m \in Msg
      PROVE  /\ RowOK(rows'[m]) /\ rows'[m].status = rows[m].status
             /\ rows'[m].queue = rows[m].queue /\ rows'[m].by = rows[m].by
             /\ rows'[m].token = rows[m].token
             /\ rows'[m].wait = IF rows[m].wait > 0 THEN rows[m].wait - 1 ELSE 0
             /\ rows[m].wait \in Nat
  <2>1. RowOK(rows[m]) /\ rows[m] \in Row
    BY DEF LoopInv, RowsOK
  <2> DEFINE old == rows[m]
             new == [old EXCEPT !.wait = Down(old.wait), !.lease = Down(old.lease)]
  <2>2. rows'[m] = new
    BY <1>1
  <2>3. Down(old.wait) \in Nat /\ Down(old.lease) \in Nat
    BY <2>1 DEF Row, Down
  <2>4. /\ new \in Row /\ new.status = old.status /\ new.queue = old.queue /\ new.by = old.by
        /\ new.token = old.token /\ new.attempts = old.attempts /\ new.wait = Down(old.wait)
    <3> HIDE DEF old
    <3> QED BY <2>1, <2>3 DEF Row, old
  <2>5. old.wait \in Nat /\ Down(old.wait) = IF old.wait > 0 THEN old.wait - 1 ELSE 0
    BY <2>1 DEF Row, Down
  <2>6. RowOK(new)
    <3> HIDE DEF old, new
    <3> QED BY <2>1, <2>4 DEF RowOK, old
  <2> HIDE DEF old, new
  <2> QED BY <2>2, <2>4, <2>5, <2>6 DEF old
<1>6. RowsOK'
  BY <1>1, <1>5 DEF RowsOK, RowOK
<1>7. RestOK' /\ RunningOK' /\ HeldByRunning'
  BY <1>2, <1>2c, <1>4, <1>5 DEF LoopInv, RestOK, RunningOK, HeldByRunning
<1>8. TimerCoversDelays'
  <2> SUFFICES ASSUME NEW m \in Msg, rows'[m].status = "queued", rows'[m].wait > 0, up, ~rescan,
                      ~unreset
               PROVE  timer' # Off /\ timer' <= rows'[m].wait
    BY <1>2 DEF TimerCoversDelays, Delayed, Queued
  <2>1. rows[m].wait > 0 /\ rows[m].wait \in Nat /\ rows'[m].wait = rows[m].wait - 1
    BY <1>5
  <2>2. m \in Delayed(rows, Queue)
    BY <1>5, <2>1 DEF Delayed, Queued, LoopInv, RowsOK, Row
  <2>3. timer # Off /\ timer <= rows[m].wait
    BY <2>2 DEF LoopInv, TimerCoversDelays
  <2> QED BY <1>3, <1>4, <2>1, <2>3 DEF Off
<1>9. ASSUME Wakeful, NEW q \in Queue, up, ~unreset, NEW m \in Msg, rows'[m].queue = q,
             rows'[m].status = "queued", rows'[m].wait = 0
      PROVE  Attended(q)'
  <2>1. CASE rows[m].wait = 0
    <3>1. m \in Due(rows, q)
      BY <1>5, <1>9, <2>1 DEF Due, Queued
    <3>2. Attended(q)
      BY <1>9, <3>1 DEF Wakeful
    <3>3. \A e \in running : rows'[e.msg].queue = rows[e.msg].queue
      BY <1>5 DEF LoopInv, RunningOK
    <3> QED BY <1>2, <1>2c, <1>4, <1>5, <3>2, <3>3 DEF Attended
  <2>2. CASE rows[m].wait # 0
    <3>1. m \in Delayed(rows, Queue) /\ Queued(rows, m) /\ rows[m].wait = 1
      BY <1>5, <1>9, <2>2 DEF Delayed, Queued
    <3>2. CASE rescan
      <4>1. q \in missed
        BY <1>2b, <1>5, <1>9, <3>1, <3>2
      <4> QED BY <1>2c, <4>1 DEF Attended
    <3>3. CASE ~rescan
      <4>1. timer # Off
        BY <1>9, <3>1, <3>3 DEF LoopInv, TimerCoversDelays
      <4> QED BY <1>4, <4>1 DEF Attended
    <3> QED BY <3>2, <3>3
  <2> QED BY <2>1, <2>2
<1>10. Wakeful => Wakeful'
  BY <1>2, <1>9 DEF Wakeful, Due, Queued
<1> QED BY <1>2c, <1>6, <1>7, <1>8, <1>10 DEF Kept, LoopInv

(* A claim takes a queued message, which has an attempt left.                   *)
LEMMA ClaimedRow ==
  \A row \in Row, who \in {"local", "external"} :
    RowOK(row) /\ row.status = "queued"
      => /\ RowOK(Claimed(row, who)) /\ Claimed(row, who).status = "processing"
         /\ Claimed(row, who).by = who /\ Claimed(row, who).queue = row.queue
         /\ Claimed(row, who).token = row.token + 1 /\ row.token + 1 \in Nat
<1> SUFFICES ASSUME NEW row \in Row, NEW who \in {"local", "external"}, RowOK(row),
                    row.status = "queued"
             PROVE  /\ RowOK(Claimed(row, who)) /\ Claimed(row, who).status = "processing"
                    /\ Claimed(row, who).by = who /\ Claimed(row, who).queue = row.queue
                    /\ Claimed(row, who).token = row.token + 1 /\ row.token + 1 \in Nat
  OBVIOUS
<1>1. row.attempts + 1 \in 0..MaxAttempts /\ row.attempts + 1 >= 1 /\ row.token + 1 \in Nat
      /\ Lease \in Nat
  BY QueueServiceAssumption DEF RowOK, Row
<1> DEFINE new == [row EXCEPT !.status = "processing", !.lease = Lease, !.by = who,
                              !.token = row.token + 1, !.attempts = row.attempts + 1]
<1>2. Claimed(row, who) = new
  BY DEF Claimed
<1>3. /\ new \in Row /\ new.status = "processing" /\ new.by = who /\ new.queue = row.queue
      /\ new.token = row.token + 1 /\ new.attempts = row.attempts + 1
  BY <1>1 DEF Row
<1> HIDE DEF new
<1> QED BY <1>1, <1>2, <1>3 DEF RowOK

(* What a claim of the messages S does to the rest of the loop.                  *)
Claims(S, who) ==
  /\ rows' \in [Msg -> Row]
  /\ \A m \in S : rows[m].status = "queued" /\ rows'[m] = Claimed(rows[m], who)
  /\ \A m \in Msg \ S : rows'[m] = rows[m]

LEMMA ClaimsKeep ==
  ASSUME LoopInv, NEW S \in SUBSET Msg, NEW who \in {"local", "external"}, Claims(S, who),
         UNCHANGED <<up, timer, rescan, unreset>>, running \subseteq running',
         running' \subseteq running \cup {[msg |-> m, token |-> rows[m].token + 1] : m \in S},
         who = "local" => \A m \in S : [msg |-> m, token |-> rows[m].token + 1] \in running'
  PROVE  /\ RowsOK' /\ RunningOK' /\ HeldByRunning' /\ TimerCoversDelays'
         /\ \A q \in Queue : Due(rows', q) \subseteq Due(rows, q) \ S
         /\ \A q \in Queue : (\E e \in running : rows[e.msg].queue = q)
                               => \E e \in running' : rows'[e.msg].queue = q
         /\ \A m \in Msg : rows[m].by = "external" => rows'[m] = rows[m]
<1>1. RowsOK /\ \A m \in Msg : RowOK(rows[m]) /\ rows[m] \in Row
  BY DEF LoopInv, RowsOK
<1>2. ASSUME NEW m \in S
      PROVE  /\ RowOK(rows'[m]) /\ rows'[m].status = "processing" /\ rows'[m].by = who
             /\ rows'[m].queue = rows[m].queue
             /\ rows'[m].token = rows[m].token + 1 /\ rows[m].token + 1 \in Nat
  BY <1>1, ClaimedRow DEF Claims
<1>3. \A m \in Msg : m \notin S => rows'[m] = rows[m]
  BY DEF Claims
<1>4. RowsOK'
  BY <1>1, <1>2, <1>3 DEF RowsOK, Claims
<1>5. \A m \in Msg : rows'[m].queue = rows[m].queue /\ (rows[m].status # "none" => rows'[m].status # "none")
  BY <1>2, <1>3
<1>6. RunningOK'
  <2>1. \A m \in S : [msg |-> m, token |-> rows[m].token + 1] \in [msg : Msg, token : Nat]
    BY <1>2
  <2>2. running' \in SUBSET [msg : Msg, token : Nat]
    BY <2>1 DEF LoopInv, RunningOK
  <2>3. ASSUME NEW e \in running' PROVE rows'[e.msg].status # "none"
    <3>1. CASE e \in running
      BY <1>5, <3>1 DEF LoopInv, RunningOK
    <3>2. ASSUME NEW m \in S, e = [msg |-> m, token |-> rows[m].token + 1]
          PROVE  rows'[e.msg].status # "none"
      BY <1>2, <3>2
    <3> QED BY <3>1, <3>2
  <2> QED BY <2>2, <2>3 DEF RunningOK
<1>7. HeldByRunning'
  <2> SUFFICES ASSUME up, ~unreset, NEW m \in Msg, rows'[m].by = "local"
               PROVE  [msg |-> m, token |-> rows'[m].token] \in running'
    BY DEF HeldByRunning
  <2>1. CASE m \in S
    BY <1>2, <2>1
  <2>2. CASE m \notin S
    BY <1>3, <2>2 DEF LoopInv, HeldByRunning
  <2> QED BY <2>1, <2>2
<1>8. TimerCoversDelays'
  <2>1. Delayed(rows', Queue) \subseteq Delayed(rows, Queue) \ S
    BY <1>2, <1>3 DEF Delayed, Queued
  <2> QED BY <1>3, <2>1 DEF LoopInv, TimerCoversDelays, Delayed
<1>9. \A q \in Queue : Due(rows', q) \subseteq Due(rows, q) \ S
  BY <1>2, <1>3 DEF Due, Queued
<1>10. \A q \in Queue : (\E e \in running : rows[e.msg].queue = q)
                          => \E e \in running' : rows'[e.msg].queue = q
  BY <1>5 DEF LoopInv, RunningOK
<1>11. \A m \in Msg : rows[m].by = "external" => rows'[m] = rows[m]
  BY <1>1, <1>3 DEF Claims, RowOK
<1> QED BY <1>4, <1>6, <1>7, <1>8, <1>9, <1>10, <1>11

LEMMA ExternalClaimKeeps ==
  ASSUME LoopInv, NEW m \in Msg, ExternalClaim(m)
  PROVE  Kept
<1>1. /\ m \in Due(rows, rows[m].queue) /\ rows' = [rows EXCEPT ![m] = Claimed(@, "external")]
      /\ UNCHANGED <<memory, timer, rescan>> /\ NoWake
  BY DEF ExternalClaim
<1>2. UNCHANGED <<up, drain, running, busyLeft, restartLeft, pendingWake, immediates, timer,
                  rescan, away, unreset, unwoken>>
  BY <1>1 DEF memory, database, NoWake
<1>3. /\ rows \in [Msg -> Row] /\ RowOK(rows[m]) /\ rows[m] \in Row /\ rows[m].status = "queued"
  BY <1>1 DEF LoopInv, RowsOK, Due, Queued
<1>4. Claims({m}, "external")
  <2>1. RowOK(Claimed(rows[m], "external"))
    BY <1>3, ClaimedRow
  <2> QED BY <1>1, <1>3, <2>1 DEF Claims, RowOK
<1>5. {m} \in SUBSET Msg /\ "external" \in {"local", "external"}
  OBVIOUS
<1>6. /\ RowsOK' /\ RunningOK' /\ HeldByRunning' /\ TimerCoversDelays'
      /\ \A q \in Queue : Due(rows', q) \subseteq Due(rows, q) \ {m}
      /\ \A q \in Queue : (\E e \in running : rows[e.msg].queue = q)
                            => \E e \in running' : rows'[e.msg].queue = q
      /\ \A x \in Msg : rows[x].by = "external" => rows'[x] = rows[x]
  BY <1>2, <1>4, <1>5, ClaimsKeep
<1>7. LoopOK' /\ RestOK'
  BY <1>2 DEF LoopInv, LoopOK, PendingWakeIsBacked, RestOK
<1>8. Wakeful => Wakeful'
  BY <1>2, <1>6 DEF Wakeful, Attended
<1> QED BY <1>6, <1>7, <1>8 DEF Kept, LoopInv

(* drainQueue: if it finds a due message and claims none, the queue's cap is reached, *)
(* and a claim that will end holds the queue's attention.                        *)
LEMMA DrainClaimKeeps ==
  ASSUME LoopInv, NEW q \in Queue, DrainClaim(q)
  PROVE  Kept
<1>1. /\ up /\ drain[q] = "read" /\ NoWake
      /\ UNCHANGED <<up, timer, rescan, busyLeft, restartLeft, away, unreset, unwoken>>
  BY DEF DrainClaim, database, NoWake
<1>2. PICK S \in SUBSET Due(rows, q) :
        /\ Cardinality(S) = IF Cardinality(Due(rows, q)) <= Allowed(q)
                            THEN Cardinality(Due(rows, q)) ELSE Allowed(q)
        /\ rows' = [m \in Msg |-> IF m \in S THEN Claimed(rows[m], "local") ELSE rows[m]]
        /\ running' = running \cup {[msg |-> m, token |-> rows[m].token + 1] : m \in S}
        /\ drain' = [drain EXCEPT ![q] = IF S = {} THEN "empty" ELSE "claimed"]
  BY DEF DrainClaim
<1>3. /\ RowsOK /\ \A m \in Msg : RowOK(rows[m]) /\ rows[m] \in Row
      /\ S \in SUBSET Msg /\ \A m \in S : rows[m].status = "queued" /\ rows[m].queue = q
  BY DEF LoopInv, RowsOK, Due, Queued
<1>4. Claims(S, "local")
  <2>1. \A m \in S : Claimed(rows[m], "local") \in Row
    BY <1>3, ClaimedRow DEF RowOK
  <2>2. \A m \in Msg : rows'[m] = IF m \in S THEN Claimed(rows[m], "local") ELSE rows[m]
    BY <1>2
  <2>3. rows' \in [Msg -> Row]
    BY <1>2, <1>3, <2>1
  <2> QED BY <1>3, <2>2, <2>3 DEF Claims
<1>5. \A m \in S : [msg |-> m, token |-> rows[m].token + 1] \in running'
  BY <1>2
<1>6. /\ RowsOK' /\ RunningOK' /\ HeldByRunning' /\ TimerCoversDelays'
      /\ \A x \in Queue : Due(rows', x) \subseteq Due(rows, x) \ S
      /\ \A x \in Queue : (\E e \in running : rows[e.msg].queue = x)
                            => \E e \in running' : rows'[e.msg].queue = x
      /\ \A m \in Msg : rows[m].by = "external" => rows'[m] = rows[m]
  <2>1. running \subseteq running'
        /\ running' \subseteq running \cup {[msg |-> m, token |-> rows[m].token + 1] : m \in S}
    BY <1>2
  <2> QED BY <1>1, <1>3, <1>4, <1>5, <2>1, ClaimsKeep
<1>7. /\ drain' \in [Queue -> {"idle", "read", "claimed", "empty"}] /\ drain'[q] # "idle"
      /\ \A x \in Queue : x # q => drain'[x] = drain[x]
  BY <1>2 DEF LoopInv, LoopOK
<1>8. LoopOK' /\ RestOK'
  BY <1>1, <1>7 DEF LoopInv, LoopOK, PendingWakeIsBacked, RestOK, NoWake
<1>9. ASSUME Wakeful, ~unreset, NEW x \in Queue, Due(rows', x) # {} PROVE Attended(x)'
  <2>1. Attended(x)
    BY <1>1, <1>6, <1>9 DEF Wakeful
  <2>2. CASE x # q
    BY <1>1, <1>6, <1>7, <2>1, <2>2 DEF Attended, NoWake
  <2>3. CASE x = q /\ S # {}
    <3>1. PICK m \in S : TRUE
      BY <2>3
    <3>2. [msg |-> m, token |-> rows[m].token + 1] \in running' /\ rows'[m].queue = q
      BY <1>3, <1>4, <1>5, ClaimedRow DEF Claims
    <3>3. \E e \in running' : rows'[e.msg].queue = x
      BY <2>3, <3>2
    <3> QED BY <3>3 DEF Attended
  <2>4. CASE x = q /\ S = {}
    <3>1. Due(rows, q) # {} /\ IsFiniteSet(Due(rows, q)) /\ IsFiniteSet(Live(q))
      BY <1>6, <1>9, <2>4, MsgFinite DEF Due, Live
    <3>2. Cardinality(Due(rows, q)) \in Nat /\ Cardinality(Due(rows, q)) # 0
          /\ Cardinality(Live(q)) \in Nat
      BY <3>1, FS_CardinalityType, FS_EmptySet
    <3>3. Cardinality(S) = 0
      BY <2>4, FS_EmptySet
    <3>4. Allowed(q) = 0
      BY <1>2, <3>2, <3>3
    <3>5. Cardinality(Live(q)) # 0
      BY <3>2, <3>4, QueueServiceAssumption DEF Allowed
    <3>6. Live(q) # {}
      BY <3>5, FS_EmptySet
    <3>7. PICK m \in Live(q) : TRUE
      BY <3>6
    <3>8. m \in Msg /\ rows[m].queue = q /\ rows[m].by \in {"local", "external"}
      <4>1. m \in Msg /\ rows[m].queue = q /\ rows[m].status = "processing"
        BY DEF Live
      <4> QED BY <1>3, <4>1 DEF RowOK, Row
    <3>9. CASE rows[m].by = "external"
      BY <1>6, <2>4, <3>8, <3>9 DEF Attended
    <3>10. CASE rows[m].by = "local"
      <4>1. [msg |-> m, token |-> rows[m].token] \in running
        BY <1>1, <1>9, <3>8, <3>10 DEF LoopInv, HeldByRunning
      <4>2. \E e \in running : rows[e.msg].queue = q
        BY <3>8, <4>1
      <4>3. \E e \in running' : rows'[e.msg].queue = x
        BY <1>6, <2>4, <4>2
      <4> QED BY <4>3 DEF Attended
    <3> QED BY <3>8, <3>9, <3>10
  <2> QED BY <2>2, <2>3, <2>4
<1> QED BY <1>1, <1>6, <1>8, <1>9 DEF Kept, LoopInv, Wakeful

(* The end of a drain: a mark that was left meanwhile stays, and gets a callback.    *)
LEMMA DrainEndKeeps ==
  ASSUME LoopOK, NEW q \in Queue, DrainEnd(q)
  PROVE  /\ LoopOK' /\ pendingWake' = pendingWake /\ unwoken' = unwoken
         /\ \A x \in Queue : x # q => drain'[x] = drain[x]
<1>1. /\ drain' \in [Queue -> {"idle", "read", "claimed", "empty"}] /\ unwoken' = unwoken
      /\ \A x \in Queue : x # q => drain'[x] = drain[x]
  BY DEF DrainEnd, LoopOK, NoWake
<1>2. CASE q \in pendingWake
  <2>1. /\ pendingWake' = (pendingWake \ {q}) \cup {q}
        /\ immediates' = [x \in Queue |-> IF x \in {q} \ (pendingWake \ {q})
                                          THEN immediates[x] + 1 ELSE immediates[x]]
    BY <1>2 DEF DrainEnd, WakeWorker
  <2>2. /\ pendingWake' = pendingWake
        /\ \A x \in Queue : immediates'[x] = IF x = q THEN immediates[x] + 1 ELSE immediates[x]
    BY <1>2, <2>1
  <2>3. immediates' \in [Queue -> Nat] /\ immediates'[q] > 0
        /\ \A x \in Queue : x # q => immediates'[x] = immediates[x]
    BY <2>1, <2>2 DEF LoopOK
  <2> QED BY <1>1, <2>2, <2>3 DEF LoopOK, PendingWakeIsBacked
<1>3. CASE q \notin pendingWake
  <2>1. UNCHANGED <<pendingWake, immediates>>
    BY <1>3 DEF DrainEnd, NoWake
  <2>2. \A x \in pendingWake : x # q /\ x \in Queue
    BY <1>3 DEF LoopOK
  <2> QED BY <1>1, <2>1, <2>2 DEF LoopOK, PendingWakeIsBacked
<1> QED BY <1>2, <1>3

LEMMA DrainSaturatedKeeps ==
  ASSUME LoopInv, NEW q \in Queue, DrainSaturated(q)
  PROVE  Kept
<1>1. /\ up /\ busyLeft > 0 /\ busyLeft' = busyLeft - 1 /\ timer' = Scheduled(1) /\ DrainEnd(q)
      /\ UNCHANGED <<rows, up, rescan, running, restartLeft, away, unreset>>
  BY DEF DrainSaturated, database
<1>2. TimerKept /\ timer' \in Nat
  BY <1>1, ScheduledKeeps DEF LoopInv
<1>3. LoopOK' /\ unwoken' = unwoken
  BY <1>1, DrainEndKeeps DEF LoopInv
<1>4. RowsMove /\ \A m \in Msg : rows'[m] = rows[m] /\ Covered(m)
  BY <1>1 DEF LoopInv, RowsOK, RowsMove, Moves, Covered
<1>5. RowsOK' /\ RunningOK' /\ HeldByRunning' /\ TimerCoversDelays'
  BY <1>1, <1>2, <1>4, MovesKeep DEF LoopInv, HeldByRunning
<1>6. RestOK'
  BY <1>1, <1>2, <1>3, QueueServiceAssumption DEF LoopInv, RestOK
<1>7. Wakeful'
  BY <1>2 DEF Wakeful, Attended, Off
<1> QED BY <1>3, <1>5, <1>6, <1>7 DEF Kept, LoopInv

LEMMA DrainFinishKeeps ==
  ASSUME LoopInv, NEW q \in Queue, DrainFinish(q)
  PROVE  Kept
<1>1. /\ up /\ drain[q] \in {"claimed", "empty"} /\ DrainEnd(q)
      /\ IF drain[q] = "empty" THEN ScheduleNext({q}) ELSE UNCHANGED timer
      /\ UNCHANGED <<rows, up, rescan, running, busyLeft, restartLeft, away, unreset>>
  BY DEF DrainFinish, database
<1>2. TimerKept
  <2>1. CASE drain[q] = "empty"
    <3>1. ScheduleNext({q}) /\ {q} \in SUBSET Queue
      BY <1>1, <2>1
    <3> QED BY <3>1, ScheduleNextCovers DEF LoopInv
  <2>2. CASE drain[q] # "empty"
    BY <1>1, <2>2 DEF LoopInv, RestOK, TimerKept, Off
  <2> QED BY <2>1, <2>2
<1>3. /\ LoopOK' /\ pendingWake' = pendingWake /\ unwoken' = unwoken
      /\ \A x \in Queue : x # q => drain'[x] = drain[x]
  BY <1>1, DrainEndKeeps DEF LoopInv
<1>4. RowsMove /\ \A m \in Msg : rows'[m] = rows[m] /\ Covered(m)
  BY <1>1 DEF LoopInv, RowsOK, RowsMove, Moves, Covered
<1>5. RowsOK' /\ RunningOK' /\ HeldByRunning' /\ TimerCoversDelays'
  BY <1>1, <1>2, <1>4, MovesKeep DEF LoopInv, HeldByRunning
<1>6. RestOK'
  BY <1>1, <1>2, <1>3 DEF LoopInv, RestOK, TimerKept
<1>7. timer # Off => timer' # Off
  BY <1>2 DEF LoopInv, RestOK, TimerKept, Off
<1>8. ASSUME Wakeful, ~unreset, NEW x \in Queue, Due(rows', x) # {} PROVE Attended(x)'
  <2>1. Attended(x)
    BY <1>1, <1>8 DEF Wakeful
  <2>2. drain[x] = "read" => drain'[x] = "read"
    BY <1>1, <1>3
  <2> QED BY <1>1, <1>3, <1>7, <2>1, <2>2 DEF Attended
<1> QED BY <1>1, <1>3, <1>5, <1>6, <1>8 DEF Kept, LoopInv, Wakeful

-----------------------------------------------------------------------------
(* The theorems.                                                              *)

LEMMA StepKeeps ==
  ASSUME LoopInv, [Next]_vars
  PROVE  Kept
<1>1. CASE UNCHANGED vars
  <2>1. UNCHANGED <<rows, up, pendingWake, immediates, drain, timer, rescan, running,
                    busyLeft, restartLeft, away, unreset, unwoken>>
    BY <1>1 DEF vars
  <2>2. RowsOK' /\ RunningOK' /\ HeldByRunning' /\ TimerCoversDelays'
    BY <2>1, RestStays
  <2>3. LoopOK' /\ RestOK'
    BY <2>1 DEF LoopInv, LoopOK, RestOK, PendingWakeIsBacked
  <2>4. Wakeful => Wakeful'
    BY <2>1 DEF Wakeful, Due, Queued, Attended
  <2> QED BY <2>2, <2>3, <2>4 DEF Kept, LoopInv
<1>2. ASSUME NEW q \in Queue, NEW delay \in SendDelay, Send(q, delay) PROVE Kept
  BY <1>2, SendKeeps
<1>3. ASSUME NEW q \in Queue, RunImmediate(q) PROVE Kept
  BY <1>3, RunImmediateKeeps
<1>4. ASSUME NEW q \in Queue, DrainStep(q) PROVE Kept
  BY <1>4, DrainClaimKeeps, DrainSaturatedKeeps, DrainFinishKeeps DEF DrainStep
<1>5. ASSUME NEW e \in running, HandlerEnds(e) PROVE Kept
  BY <1>5, HandlerSucceedsKeeps, HandlerFailsKeeps, HandlerBusyKeeps,
     HandlerUnheardKeeps DEF HandlerEnds
<1>6. ASSUME NEW m \in Msg,
             ExternalClaim(m) \/ ExternalComplete(m) \/ ExternalFail(m) \/ Cancel(m) \/ ForceSkip(m)
      PROVE  Kept
  BY <1>6, ExternalClaimKeeps, ExternalCompleteKeeps, ExternalFailKeeps, CancelKeeps, ForceSkipKeeps
<1>7. CASE TimerFires \/ Rescan \/ Sweep \/ Tick
  BY <1>7, TimerFiresKeeps, RescanKeeps, SweepKeeps, TickKeeps
<1>8. CASE Crash \/ Start \/ Restored \/ RestoreFails
  BY <1>8, CrashKeeps, StartKeeps, RestoredKeeps, RestoreFailsKeeps
<1> QED BY <1>1, <1>2, <1>3, <1>4, <1>5, <1>6, <1>7, <1>8 DEF Next

LEMMA InitIsAwake == Init => LoopInv /\ Wakeful
<1> SUFFICES ASSUME Init PROVE LoopInv /\ Wakeful
  OBVIOUS
<1>1. RowOK(NoRow) /\ NoRow.status = "none" /\ NoRow.by = "nobody"
  BY NewRows, QueueServiceAssumption DEF NoRow
<1>2. RowsOK /\ \A m \in Msg : rows[m] = NoRow
  BY <1>1 DEF Init, RowsOK, RowOK
<1>3. LoopOK /\ RunningOK
  BY DEF Init, LoopOK, PendingWakeIsBacked, RunningOK
<1>5. MaxBusy \in 0..MaxBusy /\ MaxRestart \in 0..MaxRestart
  BY QueueServiceAssumption
<1>6. RestOK
  BY <1>5 DEF Init, RestOK
<1>4. HeldByRunning /\ TimerCoversDelays /\ Wakeful
  BY <1>1, <1>2 DEF HeldByRunning, TimerCoversDelays, Wakeful, Delayed, Due, Queued
<1> QED BY <1>2, <1>3, <1>4, <1>6 DEF LoopInv

(* The invariant of the loop holds in every state.                                  *)
LEMMA LoopInvariant == Spec => []LoopInv
<1>1. LoopInv /\ [Next]_vars => LoopInv'
  BY StepKeeps DEF Kept
<1> QED BY <1>1, InitIsAwake, PTL DEF Spec

(* The worker loop keeps its types, and the one timer is never later than the first  *)
(* delayed message, whatever workers and operators outside do and however often the   *)
(* process dies (scheduleNextDelayedWake, start).                                    *)
THEOREM TimerIsReliable == Spec => [](TypeOK /\ TimerCoversDelays)
<1>1. LoopInv => TypeOK /\ TimerCoversDelays
  BY DEF LoopInv, LoopOK, RestOK, RowsOK, Row, RunningOK, TypeOK
<1> QED BY <1>1, LoopInvariant, PTL

(* A mark in pendingWake always has a callback or a drain to take it up (wakeWorker,   *)
(* drainQueue): a queue is never left asleep with its mark set.                       *)
THEOREM MarksAreTakenUp == Spec => []PendingWakeIsBacked
<1>1. LoopInv => PendingWakeIsBacked
  BY DEF LoopInv, LoopOK, RestOK, RowsOK, Row, RunningOK, TypeOK
<1> QED BY <1>1, LoopInvariant, PTL

(* No wake-up is lost (wakeWorker, drainQueue, executeClaimedMessage,                *)
(* scheduleDelayedAt), for any queues, delays, bounds, callers outside, clocks,       *)
(* crashes and restores: while a message is due, a callback, a drain, an execution,   *)
(* the timer or a lease held outside is bound to have its queue looked at again, but   *)
(* for the three cases the property names.                                         *)
THEOREM NoWakeUpIsLost == Spec => []WakeUpNotLost
<1>1. LoopInv /\ Wakeful => WakeUpNotLost
  <2> SUFFICES ASSUME LoopInv, Wakeful, NEW q \in Queue, up, ~unreset, Due(rows, q) # {},
                      q \notin unwoken
               PROVE  LookedAt(q)
    BY DEF WakeUpNotLost
  <2>1. Attended(q)
    BY DEF Wakeful
  <2> QED BY <2>1 DEF Attended, LookedAt, LoopInv, LoopOK, PendingWakeIsBacked
<1>2. LoopInv /\ Wakeful /\ [Next]_vars => LoopInv' /\ Wakeful'
  BY StepKeeps DEF Kept
<1> QED BY <1>1, <1>2, InitIsAwake, PTL DEF Spec
=============================================================================
