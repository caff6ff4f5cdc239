--------------------------- MODULE QueueTableProofs ----------------------------
(***************************************************************************)
(* Proofs of what QueueDriver promises about several messages, or about a   *)
(* message and its past: attempts, links to copies, jobs, strict order,      *)
(* deduplication, completion and the concurrency cap.                       *)
(*                                                                         *)
(* Most of it comes from one summary of the next-state relation,            *)
(* RowChanges: whatever the step, the row of a message                       *)
(* is deleted, inserted, or changes in one of six ways.  Each operation is   *)
(* compared with the summary once; each invariant follows from the summary  *)
(* alone.  What becomes of the data of a job needs a second summary,        *)
(* JobsKept, because it is about the rows an operation deletes together.    *)
(***************************************************************************)
EXTENDS QueueDriverProofs

(* What a row says for as long as it exists.                                 *)
Data(row) ==
  <<row.queue, row.groupKey, row.payload, row.maxAttempts, row.deduplicationId,
    row.originalMessageId>>

(* The ways the row r of a message may become the row s.                     *)
Kept(r, s) ==
  /\ Data(s) = Data(r) /\ s.status = r.status /\ s.attempts = r.attempts
  /\ s.forwardedToMessageId \in {r.forwardedToMessageId, NoMsg}

Taken(r, s) ==
  /\ Data(s) = Data(r) /\ r.status = "queued" /\ s.status = "processing"
  /\ s.attempts = r.attempts + 1
  /\ s.forwardedToMessageId = r.forwardedToMessageId

GivenBack(r, s) ==
  /\ Data(s) = Data(r) /\ r.status = "processing" /\ s.status = "queued"
  /\ \/ s.attempts = r.attempts /\ ~Exhausted(r)
     \/ s.attempts = Refunded(r.attempts)
  /\ s.forwardedToMessageId = r.forwardedToMessageId

Done(r, s) ==
  /\ Data(s) = Data(r) /\ r.status \in {"queued", "processing"}
  /\ s.status = "completed"
  /\ s.forwardedToMessageId = r.forwardedToMessageId

Died(r, s) ==
  /\ Data(s) = Data(r) /\ r.status \in {"queued", "processing"}
  /\ s.status = "dead_letter"

Restored(r, s) ==
  /\ Data(s) = Data(r) /\ r.status # "absent" /\ s.status = "queued"
  /\ s.attempts = 0 /\ s.forwardedToMessageId = NoMsg

(* Where the row of a new message comes from: a sender, a dead letter, or a  *)
(* copy whose original is gone.                                              *)
Sent(x) ==
  /\ messages'[x].payload = <<>> /\ messages'[x].originalMessageId = NoMsg
  /\ messages'[x].deduplicationId # NoDedup =>
       Duplicates(messages'[x].queue, messages'[x].deduplicationId) = {}

Forwarded(x) ==
  \E m \in Msg :
    /\ m <= lastId /\ job'[x] = job[m]
    /\ messages'[x].payload =
         <<[of |-> m, from |-> messages[m].queue]>> \o messages[m].payload
    /\ messages'[x].originalMessageId = m
    /\ messages'[x].deduplicationId = NoDedup

Unwrapped(x) ==
  \E c \in Msg :
    /\ IsCopy(c) /\ job'[x] = job[c]
    /\ messages'[x].payload = Tail(messages[c].payload)
    /\ messages'[x].originalMessageId = NoMsg
    /\ messages'[x].deduplicationId = NoDedup

Inserted(x) ==
  /\ x = NextId /\ lastId' = NextId
  /\ messages'[x].status = "queued" /\ messages'[x].attempts = 0
  /\ messages'[x].forwardedToMessageId = NoMsg
  /\ Sent(x) \/ Forwarded(x) \/ Unwrapped(x)

(* The copy a dead letter is linked to.                                      *)
LinkedToCopy(x) ==
  /\ messages'[x].forwardedToMessageId = NextId /\ lastId' = NextId
  /\ messages'[NextId].originalMessageId = x
  /\ messages'[NextId].queue # messages'[x].queue

(* A claim under strict order takes the oldest unfinished row of its group.  *)
OldestOfGroup(x) ==
  \A y \in Msg :
    /\ messages[y].queue = messages[x].queue
    /\ messages[y].groupKey = messages[x].groupKey
    /\ Unfinished(y)
    => x <= y

(* What one step of the driver may do to the row of message x.               *)
RowChange(x) ==
  LET r == messages[x]
      s == messages'[x]
      SameHistory == /\ x \in revived' => x \in revived
                     /\ x \in revived /\ r.status # "absent" => x \in revived'
  IN \/ s = NoRow /\ (x \in revived' => x \in revived)
     \/ Inserted(x) /\ (x \in revived' => x \in revived)
     \/ Kept(r, s) /\ SameHistory /\ (x \in strictClaim' => x \in strictClaim)
     \/ Taken(r, s) /\ SameHistory /\ (x \in strictClaim' => OldestOfGroup(x))
     \/ GivenBack(r, s) /\ SameHistory
     \/ Done(r, s) /\ x \notin revived'
     \/ /\ Died(r, s) /\ x \notin revived'
        /\ \/ s.forwardedToMessageId = r.forwardedToMessageId
           \/ LinkedToCopy(x)
     \/ Restored(r, s) /\ x \in revived'

(* No message that a retry brought back is finished.                         *)
RevivedOK ==
  \A x \in revived : messages[x].status \in {"queued", "processing", "absent"}

(* Links lead to ids that were given out.                                    *)
LinksOK == \A x \in Msg : messages[x].forwardedToMessageId <= lastId

(* The envelopes of a copy name older and older messages of the same job,    *)
(* and the column agrees with the outermost one.                             *)
LineageOK(x) ==
  LET payload == messages[x].payload
      orig    == messages[x].originalMessageId
  IN /\ \A i \in DOMAIN payload : payload[i].of < x /\ job[payload[i].of] = job[x]
     /\ \A i, j \in DOMAIN payload : i < j => payload[j].of < payload[i].of
     /\ orig # NoMsg => payload # <<>> /\ orig = payload[1].of

Lineage == \A x \in Msg : LineageOK(x)

(* The jobs of a table survive a step unless an operator deletes them.       *)
JobsKept ==
  /\ dropped \subseteq dropped'
  /\ \A x \in Present : job[x] \in dropped' \cup JobsOf(messages)'
  /\ lastId' # lastId => job'[lastId'] \in dropped' \cup JobsOf(messages)'
  /\ \A x \in 1 .. lastId : job'[x] = job[x]

-----------------------------------------------------------------------------
(* The row operators, field by field.                                        *)

(* Giving up a claim changes the status and the claim only.                  *)
LEMMA UnclaimedFields ==
  ASSUME NEW row \in MessageRow, NEW status
  PROVE  LET s == Unclaimed(row, status)
         IN /\ Data(s) = Data(row) /\ s.status = status
            /\ s.attempts = row.attempts
            /\ s.forwardedToMessageId = row.forwardedToMessageId
  BY DEF Unclaimed, MessageRow, Data

(* So do the two ways to put a row back to its queue, but for the attempts.  *)
LEMMA RequeuedFields ==
  ASSUME NEW row \in MessageRow, NEW t \in Int
  PROVE  /\ LET s == Requeued(row, t)
            IN /\ Data(s) = Data(row) /\ s.status = "queued"
               /\ s.attempts = row.attempts
               /\ s.forwardedToMessageId = row.forwardedToMessageId
         /\ LET s == Deferred(row, t)
            IN /\ Data(s) = Data(row) /\ s.status = "queued"
               /\ s.attempts = Refunded(row.attempts)
               /\ s.forwardedToMessageId = row.forwardedToMessageId
<1>1. Requeued(row, t) = [row EXCEPT !.status = "queued", !.claimedBy = Nobody,
                                     !.leaseExpiresAt = NoTime, !.claimToken = NoToken,
                                     !.availableAt = t]
  BY DEF Requeued, Unclaimed, MessageRow
<1>2. Deferred(row, t) = [row EXCEPT !.status = "queued", !.claimedBy = Nobody,
                                     !.leaseExpiresAt = NoTime, !.claimToken = NoToken,
                                     !.availableAt = t,
                                     !.attempts = Refunded(row.attempts)]
  BY <1>1 DEF Deferred, MessageRow
<1>3. QED
  BY <1>1, <1>2 DEF MessageRow, Data

(* A reset row waits with no attempts and no link.                           *)
LEMMA ResetFields ==
  ASSUME NEW row \in MessageRow
  PROVE  LET s == Reset(row)
         IN /\ Data(s) = Data(row) /\ s.status = "queued" /\ s.attempts = 0
            /\ s.forwardedToMessageId = NoMsg
<1>1. Reset(row) = [row EXCEPT !.status = "queued", !.claimedBy = Nobody,
                               !.leaseExpiresAt = NoTime, !.claimToken = NoToken,
                               !.attempts = 0, !.availableAt = clock,
                               !.forwardedToMessageId = NoMsg]
  BY DEF Reset, Unclaimed, MessageRow
<1>2. QED
  BY <1>1 DEF MessageRow, Data

(* A link written.                                                           *)
LEMMA LinkFields ==
  ASSUME NEW row \in MessageRow, NEW id
  PROVE  LET s == [row EXCEPT !.forwardedToMessageId = id]
         IN /\ Data(s) = Data(row) /\ s.status = row.status
            /\ s.attempts = row.attempts /\ s.forwardedToMessageId = id
  BY DEF MessageRow, Data

(* A new row.                                                                *)
LEMMA NewRowFields ==
  ASSUME NEW q, NEW g, NEW payload, NEW delay, NEW max, NEW dedup, NEW orig
  PROVE  LET s == NewRow(q, g, payload, delay, max, dedup, orig)
         IN /\ s.status = "queued" /\ s.attempts = 0
            /\ s.forwardedToMessageId = NoMsg
            /\ s.queue = q /\ s.payload = payload /\ s.deduplicationId = dedup
            /\ s.originalMessageId = orig
  BY DEF NewRow, NoRow

-----------------------------------------------------------------------------
(* What each operation does to a row.                                        *)

(* A row that is not touched.                                                *)
LEMMA SameRow ==
  ASSUME NEW x, messages'[x] = messages[x], x \in revived' <=> x \in revived,
         x \in strictClaim' => x \in strictClaim
  PROVE  RowChange(x)
  BY DEF RowChange, Kept

(* Rows deleted.                                                             *)
LEMMA RemoveRows ==
  ASSUME NEW S, Remove(S), NEW x \in Msg
  PROVE  RowChange(x)
<1>1. messages'[x] = IF x \in S THEN NoRow ELSE messages[x]
  BY DEF Remove
<1>2. (x \in revived' <=> x \in revived /\ x \notin S) /\ strictClaim' = strictClaim
  BY DEF Remove
<1>3. CASE x \in S
  BY <1>1, <1>2, <1>3 DEF RowChange
<1>4. CASE x \notin S
  BY <1>1, <1>2, <1>4, SameRow
<1>5. QED
  BY <1>3, <1>4

(* send.                                                                     *)
LEMMA SendRows ==
  ASSUME DriverInv, NEW q, NEW g, NEW delay, NEW max, NEW dedup,
         Send(q, g, delay, max, dedup), NEW x \in Msg
  PROVE  RowChange(x)
<1>1. messages \in [Msg -> MessageRow] /\ lastId \in Nat
      /\ UNCHANGED <<revived, strictClaim>>
  BY DriverInvParts DEF RowsOK, RestOK, Send
<1>2. CASE messages'[x] = messages[x]
  BY <1>1, <1>2, SameRow
<1>3. CASE messages'[x] # messages[x]
  <2> DEFINE row == NewRow(q, g, <<>>, delay, max, dedup, NoMsg)
  <2>1. /\ Duplicates(q, dedup) = {} /\ lastId' = NextId
        /\ messages' = [messages EXCEPT ![NextId] = row]
    BY <1>3 DEF Send
  <2>2. x = NextId /\ messages'[x] = row
    BY <1>1, <1>3, <2>1
  <2>3. /\ row.status = "queued" /\ row.attempts = 0
        /\ row.forwardedToMessageId = NoMsg /\ row.queue = q /\ row.payload = <<>>
        /\ row.deduplicationId = dedup /\ row.originalMessageId = NoMsg
    BY NewRowFields
  <2> HIDE DEF row
  <2>4. Inserted(x)
    BY <2>1, <2>2, <2>3 DEF Inserted, Sent
  <2>5. QED
    BY <1>1, <2>4 DEF RowChange
<1>4. QED
  BY <1>2, <1>3

(* claim.                                                                    *)
LEMMA ClaimRows ==
  ASSUME DriverInv, NEW q, NEW who, NEW timeout, NEW limit,
         Claim(q, who, timeout, limit), NEW x \in Msg
  PROVE  RowChange(x)
<1>1. PICK S \in SUBSET Candidates(q) :
        /\ messages' = [m \in Msg |->
             IF m \in S
             THEN [messages[m] EXCEPT !.status = "processing",
                                      !.claimedBy = who,
                                      !.leaseExpiresAt = clock + timeout,
                                      !.claimToken = issued[m] + 1,
                                      !.attempts = @ + 1]
             ELSE messages[m]]
        /\ strictClaim' = (strictClaim \ S)
                          \cup (IF queues[q].strictOrder THEN S ELSE {})
  BY DEF Claim
<1>2. revived' = revived
  BY DEF Claim
<1>3. CASE x \notin S
  BY <1>1, <1>2, <1>3, SameRow
<1>4. CASE x \in S
  <2>1. messages[x] \in MessageRow
    BY RowFacts
  <2>2. messages'[x] = [messages[x] EXCEPT !.status = "processing",
                                           !.claimedBy = who,
                                           !.leaseExpiresAt = clock + timeout,
                                           !.claimToken = issued[x] + 1,
                                           !.attempts = @ + 1]
    BY <1>1, <1>4
  <2>3. x \in Claimable(q) /\ messages[x].status = "queued"
        /\ messages[x].queue = q
    BY <1>1, <1>4 DEF Candidates, GroupHeads, Claimable
  <2>4. Taken(messages[x], messages'[x])
    BY <2>1, <2>2, <2>3 DEF Taken, Data, MessageRow
  <2>5. x \in strictClaim' => OldestOfGroup(x)
    <3> SUFFICES ASSUME x \in strictClaim' PROVE OldestOfGroup(x)
      OBVIOUS
    <3>1. queues[q].strictOrder
      BY <1>1, <1>4
    <3>2. x \in GroupHeads(q)
      BY <1>1, <1>4, <3>1 DEF Candidates
    <3>3. QED
      BY <2>3, <3>2 DEF GroupHeads, OldestOfGroup
  <2>6. QED
    BY <1>2, <2>4, <2>5 DEF RowChange
<1>5. QED
  BY <1>3, <1>4

(* An existing row replaced, and nothing else.                               *)
LEMMA OthersSame ==
  ASSUME DriverInv, NEW m \in Msg, NEW row,
         messages' = [messages EXCEPT ![m] = row],
         \A x \in Msg : x # m => (x \in revived' <=> x \in revived),
         strictClaim' = strictClaim
  PROVE  messages'[m] = row /\ \A x \in Msg : x # m => RowChange(x)
<1>1. messages \in [Msg -> MessageRow]
  BY DriverInvParts DEF RowsOK
<1>2. \A x \in Msg : x # m => messages'[x] = messages[x]
  BY <1>1
<1>3. QED
  BY <1>1, <1>2, SameRow

(* touch.                                                                    *)
LEMMA TouchRows ==
  ASSUME DriverInv, NEW m \in Msg, NEW extension, NEW token,
         Touch(m, extension, token), NEW x \in Msg
  PROVE  RowChange(x)
<1>1. UNCHANGED <<revived, strictClaim>>
  BY DEF Touch, history
<1>2. messages' = [messages EXCEPT ![m] =
                     [messages[m] EXCEPT !.leaseExpiresAt = clock + extension]]
  BY DEF Touch
<1>3. messages'[m] = [messages[m] EXCEPT !.leaseExpiresAt = clock + extension]
      /\ \A y \in Msg : y # m => RowChange(y)
  BY <1>1, <1>2, OthersSame
<1>4. Kept(messages[m], messages'[m])
  <2>1. messages[m] \in MessageRow
    BY RowFacts
  <2>2. QED
    BY <1>3, <2>1 DEF Kept, Data, MessageRow
<1>5. QED
  BY <1>1, <1>3, <1>4 DEF RowChange

(* complete.                                                                 *)
LEMMA CompleteRows ==
  ASSUME DriverInv, NEW m \in Msg, NEW token, Complete(m, token), NEW x \in Msg
  PROVE  RowChange(x)
<1>1. messages' = [messages EXCEPT ![m] = Unclaimed(messages[m], "completed")]
      /\ revived' = revived \ {m} /\ strictClaim' = strictClaim
      /\ messages[m].status \in {"queued", "processing"}
  BY DEF Complete, Processing
<1>2. messages'[m] = Unclaimed(messages[m], "completed")
      /\ \A y \in Msg : y # m => RowChange(y)
  BY <1>1, OthersSame
<1>3. Done(messages[m], messages'[m])
  BY <1>1, <1>2, RowFacts, UnclaimedFields DEF Done
<1>4. QED
  BY <1>1, <1>2, <1>3 DEF RowChange

(* A message put back by fail or reclaimOrphaned, its attempts not exhausted.*)
LEMMA RequeueRows ==
  ASSUME DriverInv, NEW m \in Msg, NEW t \in Int, Requeue(m, t), Processing(m),
         ~Exhausted(messages[m]), strictClaim' = strictClaim, NEW x \in Msg
  PROVE  RowChange(x)
<1>1. messages' = [messages EXCEPT ![m] = Requeued(messages[m], t)]
      /\ revived' = revived
  BY DEF Requeue
<1>2. messages'[m] = Requeued(messages[m], t)
      /\ \A y \in Msg : y # m => RowChange(y)
  BY <1>1, OthersSame
<1>3. GivenBack(messages[m], messages'[m])
  BY <1>2, RowFacts, RequeuedFields DEF GivenBack, Processing
<1>4. QED
  BY <1>1, <1>2, <1>3 DEF RowChange

(* defer.                                                                    *)
LEMMA DeferRows ==
  ASSUME DriverInv, NEW m \in Msg, NEW delay \in Nat, Defer(m, delay), NEW x \in Msg
  PROVE  RowChange(x)
<1>1. messages' = [messages EXCEPT ![m] = Deferred(messages[m], clock + delay)]
      /\ UNCHANGED <<revived, strictClaim>> /\ Processing(m)
  BY DEF Defer, history
<1>2. messages'[m] = Deferred(messages[m], clock + delay)
      /\ \A y \in Msg : y # m => RowChange(y)
  BY <1>1, OthersSame
<1>3. clock + delay \in Int
  BY DriverInvParts DEF RestOK
<1>4. GivenBack(messages[m], messages'[m])
  BY <1>1, <1>2, <1>3, RowFacts, RequeuedFields DEF GivenBack, Processing
<1>5. QED
  BY <1>1, <1>2, <1>4 DEF RowChange

(* Rows deleted because they are pending copies.                             *)
LEMMA DroppedOrSame ==
  ASSUME NEW ms, NEW m, NEW fwd, NEW qs, NEW x \in Msg
  PROVE  /\ DropPendingCopies(ms, m, fwd, qs)[x] \in {NoRow, ms[x]}
         /\ ms[x].status # "queued" => DropPendingCopies(ms, m, fwd, qs)[x] = ms[x]
  BY DEF DropPendingCopies

(* fail, reclaimOrphaned and forceDeadLetter, when the message dies.         *)
LEMMA DeadLetterRows ==
  ASSUME DriverInv, NEW m \in Msg, DeadLetter(m),
         messages[m].status \in {"queued", "processing"},
         strictClaim' = strictClaim, NEW x \in Msg
  PROVE  RowChange(x)
<1> DEFINE row == messages[m]
<1> DEFINE dead == [messages EXCEPT ![m] = Unclaimed(row, "dead_letter")]
<1> DEFINE dlq == ForwardsTo(m)
<1> DEFINE payload == <<[of |-> m, from |-> row.queue]>> \o row.payload
<1> DEFINE copy == NewRow(dlq, row.groupKey, payload, 0, DefaultAttempts(dlq), NoDedup, m)
<1> DEFINE kept == DropPendingCopies(dead, m, row.forwardedToMessageId, {dlq})
<1>1. /\ messages \in [Msg -> MessageRow] /\ lastId \in Nat /\ m <= lastId
      /\ revived' = revived \ {m} /\ row \in MessageRow
  BY DriverInvParts, RowFacts DEF RowsOK, RestOK, DeadLetter
<1>2. LET s == Unclaimed(row, "dead_letter")
      IN /\ Data(s) = Data(row) /\ s.status = "dead_letter"
         /\ s.attempts = row.attempts
         /\ s.forwardedToMessageId = row.forwardedToMessageId
  BY <1>1, UnclaimedFields
<1>3. CASE ~Forwards(m)
  <2>1. messages' = [messages EXCEPT ![m] = Unclaimed(row, "dead_letter")]
    BY <1>3 DEF DeadLetter
  <2>2. messages'[m] = Unclaimed(row, "dead_letter")
        /\ \A y \in Msg : y # m => RowChange(y)
    BY <1>1, <2>1, OthersSame
  <2>3. Died(messages[m], messages'[m])
    BY <1>2, <2>2 DEF Died
  <2>4. QED
    BY <1>1, <1>2, <2>2, <2>3 DEF RowChange
<1>4. CASE Forwards(m)
  <2>1. /\ messages' = [kept EXCEPT ![NextId] = copy, ![m].forwardedToMessageId = NextId]
        /\ lastId' = NextId /\ job' = [job EXCEPT ![NextId] = job[m]] /\ HasRoom(1)
    BY <1>4 DEF DeadLetter
  <2>2. NextId \in Msg /\ m # NextId
    BY <1>1, <2>1, BoundAssumption DEF HasRoom, NextId, Msg
  <2>3. dead[m].status = "dead_letter" /\ \A y \in Msg : y # m => dead[y] = messages[y]
    BY <1>1, <1>2
  <2>4. kept \in [Msg -> MessageRow \cup {NoRow} \cup {dead[m]}] /\ DOMAIN kept = Msg
        /\ \A y \in Msg : /\ kept[y] \in {NoRow, dead[y]}
                          /\ dead[y].status # "queued" => kept[y] = dead[y]
    <3>1. DOMAIN kept = Msg /\ kept = [y \in Msg |-> kept[y]]
      BY DEF DropPendingCopies
    <3> HIDE DEF dead
    <3>2. \A y \in Msg : /\ kept[y] \in {NoRow, dead[y]}
                         /\ dead[y].status # "queued" => kept[y] = dead[y]
      BY DroppedOrSame
    <3> HIDE DEF kept
    <3>3. \A y \in Msg : kept[y] \in MessageRow \cup {NoRow} \cup {dead[m]}
      BY <1>1, <2>3, <3>2
    <3>4. QED
      BY <3>1, <3>2, <3>3
  <2>5. kept[m] = Unclaimed(row, "dead_letter")
    <3>1. dead[m] = Unclaimed(row, "dead_letter") /\ kept[m] = dead[m]
      BY <1>1, <2>3, <2>4
    <3>2. QED
      BY <3>1
  <2>6. /\ messages'[m] = [kept[m] EXCEPT !.forwardedToMessageId = NextId]
        /\ messages'[NextId] = copy
        /\ \A y \in Msg : y \notin {m, NextId} => messages'[y] = kept[y]
    <3> HIDE DEF kept, copy
    <3>1. QED
      BY <2>1, <2>2, <2>4
  <2>7. /\ copy.status = "queued" /\ copy.attempts = 0
        /\ copy.forwardedToMessageId = NoMsg /\ copy.queue = dlq
        /\ copy.payload = payload /\ copy.deduplicationId = NoDedup
        /\ copy.originalMessageId = m
    <3> HIDE DEF payload
    <3>1. QED
      BY NewRowFields
  <2>8. CASE x = NextId
    <3>1. job'[x] = job[m]
      <4>1. job \in [Msg -> Msg \cup {NoMsg}] /\ job' = [job EXCEPT ![NextId] = job[m]]
        BY <2>1, DriverInvParts DEF RestOK
      <4>2. QED
        BY <2>2, <2>8, <4>1
    <3> HIDE DEF copy
    <3>2. Forwarded(x)
      BY <1>1, <2>6, <2>7, <2>8, <3>1 DEF Forwarded
    <3>3. Inserted(x)
      BY <2>1, <2>6, <2>7, <2>8, <3>2 DEF Inserted
    <3>4. QED
      BY <1>1, <3>3 DEF RowChange
  <2>9. CASE x = m
    <3>1. Unclaimed(row, "dead_letter") \in MessageRow
      BY <1>1, DriverInvParts, RowFacts, UnclaimedOK DEF RowOK
    <3>2. /\ Data(messages'[m]) = Data(row) /\ messages'[m].status = "dead_letter"
          /\ messages'[m].forwardedToMessageId = NextId
      <4> DEFINE s == Unclaimed(row, "dead_letter")
      <4>1. /\ s \in MessageRow /\ Data(s) = Data(row) /\ s.status = "dead_letter"
            /\ messages'[m] = [s EXCEPT !.forwardedToMessageId = NextId]
        BY <1>2, <2>5, <2>6, <3>1
      <4> HIDE DEF s, row, dead, copy, kept
      <4>2. QED
        BY <4>1, LinkFields
    <3>3. messages'[m].queue = row.queue
      BY <3>2 DEF Data
    <3> HIDE DEF copy
    <3>4. LinkedToCopy(m)
      BY <1>4, <2>1, <2>6, <2>7, <3>2, <3>3 DEF LinkedToCopy, Forwards
    <3>5. Died(messages[m], messages'[m])
      BY <3>2 DEF Died
    <3>6. QED
      BY <1>1, <2>9, <3>4, <3>5 DEF RowChange
  <2>10. CASE x \notin {m, NextId}
    <3>1. messages'[x] \in {NoRow, messages[x]}
      BY <2>3, <2>4, <2>6, <2>10
    <3>2. x \in revived' <=> x \in revived
      BY <1>1, <2>10
    <3>3. QED
      BY <3>1, <3>2, SameRow DEF RowChange
  <2>11. QED
    BY <2>8, <2>9, <2>10
<1>5. QED
  BY <1>3, <1>4

(* cancel.                                                                   *)
LEMMA CancelRows ==
  ASSUME DriverInv, NEW m \in Msg, Cancel(m), NEW x \in Msg
  PROVE  RowChange(x)
<1> DEFINE kept == DropPendingCopies(messages, m, messages[m].forwardedToMessageId, Queue)
<1> DEFINE gone == [kept EXCEPT ![m] = NoRow]
<1>1. /\ messages'[x] = IF gone[x].forwardedToMessageId = m
                        THEN [gone[x] EXCEPT !.forwardedToMessageId = NoMsg] ELSE gone[x]
      /\ x \in revived' <=> x \in revived /\ messages'[x].status # "absent"
      /\ strictClaim' = strictClaim
  BY DEF Cancel
<1>2. gone[x] \in {NoRow, messages[x]}
  <2>1. kept[x] \in {NoRow, messages[x]}
    BY DroppedOrSame
  <2>2. DOMAIN kept = Msg
    BY DEF DropPendingCopies
  <2> HIDE DEF kept
  <2>3. gone[x] = IF x = m THEN NoRow ELSE kept[x]
    BY <2>2
  <2>4. QED
    BY <2>1, <2>3
<1> HIDE DEF gone
<1>3. CASE gone[x] = NoRow
  <2>1. NoRow.forwardedToMessageId # m
    BY NullTypes DEF NoRow, Msg
  <2>2. QED
    BY <1>1, <1>3, <2>1 DEF RowChange
<1>4. CASE gone[x] = messages[x] /\ gone[x] # NoRow
  <2>1. messages[x] \in MessageRow /\ x <= lastId
    <3>1. x \in Msg /\ x > lastId => messages[x] = NoRow
      BY DriverInvParts DEF RowsOK
    <3>2. QED
      BY <1>4, <3>1, RowFacts, DriverInvParts DEF RestOK, Msg
  <2>2. Kept(messages[x], messages'[x])
    BY <1>1, <1>4, <2>1, LinkFields DEF Kept
  <2>3. messages'[x].status = messages[x].status
    BY <2>2 DEF Kept
  <2>4. QED
    BY <1>1, <2>2, <2>3 DEF RowChange
<1>5. QED
  BY <1>2, <1>3, <1>4
(* A row that is the same or gone, when revived holds only rows that exist.  *)
LEMMA SameOrGone ==
  ASSUME NEW x, messages'[x] \in {NoRow, messages[x]},
         x \in revived' <=> x \in revived /\ messages'[x].status # "absent",
         strictClaim' = strictClaim
  PROVE  RowChange(x)
  BY DEF RowChange, Kept

(* A row that a retry resets, unless it is dropped as a pending copy.        *)
LEMMA ResetOrGone ==
  ASSUME NEW x, messages[x] \in MessageRow, messages[x].status # "absent",
         messages'[x] \in {NoRow, Reset(messages[x])},
         x \in revived' <=> messages'[x].status # "absent"
  PROVE  RowChange(x)
<1>1. CASE messages'[x] = NoRow
  BY <1>1 DEF RowChange, NoRow
<1>2. CASE messages'[x] = Reset(messages[x])
  BY <1>2, ResetFields DEF RowChange, Restored
<1>3. QED
  BY <1>1, <1>2

(* The retry of a message that is no copy.                                   *)
LEMMA ResetOwnRows ==
  ASSUME DriverInv, NEW m \in Present, ResetOwn(m), strictClaim' = strictClaim,
         NEW x \in Msg
  PROVE  RowChange(x)
<1> DEFINE ms == [messages EXCEPT ![m] = Reset(messages[m])]
<1>1. /\ messages' = DropPendingCopies(ms, m, messages[m].forwardedToMessageId, Queue)
      /\ revived' = {y \in revived \cup {m} : messages'[y].status # "absent"}
  BY DEF ResetOwn
<1>2. messages \in [Msg -> MessageRow] /\ m \in Msg /\ messages[m].status # "absent"
  BY DriverInvParts DEF RowsOK, Present
<1>3. ms[x] = IF x = m THEN Reset(messages[m]) ELSE messages[x]
  BY <1>2
<1> HIDE DEF ms
<1>4. messages'[x] \in {NoRow, ms[x]}
  BY <1>1, DroppedOrSame
<1>5. CASE x = m
  BY <1>1, <1>2, <1>3, <1>4, <1>5, ResetOrGone
<1>6. CASE x # m
  BY <1>1, <1>3, <1>4, <1>6, SameOrGone
<1>7. QED
  BY <1>5, <1>6

(* The retry of a copy.                                                      *)
LEMMA RestoreOriginalRows ==
  ASSUME DriverInv, NEW c \in Msg, IsCopy(c), NEW qs, RestoreOriginal(c, qs),
         strictClaim' = strictClaim, NEW x \in Msg
  PROVE  RowChange(x)
<1> DEFINE orig == OriginalOf(c)
<1> DEFINE top == Head(messages[c].payload)
<1> DEFINE rest == Tail(messages[c].payload)
<1>1. messages \in [Msg -> MessageRow] /\ lastId \in Nat /\ orig \in Msg
      /\ c \in Present /\ c <= lastId
  BY DriverInvParts, RowFacts DEF RowsOK, RestOK, Present
<1>2. CASE orig \in Present
  <2> DEFINE ms == [messages EXCEPT ![orig] = Reset(messages[orig]), ![c] = NoRow]
  <2>1. /\ messages' = DropPendingCopies(ms, orig, NoMsg, qs)
        /\ revived' = {y \in revived \cup {orig} : messages'[y].status # "absent"}
    BY <1>2 DEF RestoreOriginal
  <2>2. ms[x] = IF x = c THEN NoRow
                ELSE IF x = orig THEN Reset(messages[orig]) ELSE messages[x]
    BY <1>1
  <2> HIDE DEF ms, orig
  <2>3. messages'[x] \in {NoRow, ms[x]}
    BY <2>1, DroppedOrSame
  <2>4. CASE x = orig
    <3>1. messages[x].status # "absent" /\ messages[x] \in MessageRow
      BY <1>1, <1>2, <2>4 DEF Present
    <3>2. messages'[x] \in {NoRow, Reset(messages[x])}
      BY <2>2, <2>3, <2>4
    <3>3. QED
      BY <2>1, <2>4, <3>1, <3>2, ResetOrGone
  <2>5. CASE x # orig
    BY <2>1, <2>2, <2>3, <2>5, SameOrGone
  <2>6. QED
    BY <2>4, <2>5
<1>3. CASE orig \notin Present
  <2> DEFINE new == NewRow(top.from, messages[c].groupKey, rest, 0,
                           DefaultAttempts(top.from), NoDedup, NoMsg)
  <2> DEFINE ms == [messages EXCEPT ![NextId] = new, ![c] = NoRow]
  <2>1. /\ messages' = DropPendingCopies(ms, orig, NoMsg, qs) /\ HasRoom(1)
        /\ revived' = {y \in revived : messages'[y].status # "absent"}
        /\ lastId' = NextId /\ job' = [job EXCEPT ![NextId] = job[c]]
    BY <1>3 DEF RestoreOriginal
  <2>2. NextId \in Msg /\ c # NextId
    BY <1>1, <2>1, BoundAssumption DEF HasRoom, NextId, Msg
  <2>3. ms[x] = IF x = c THEN NoRow ELSE IF x = NextId THEN new ELSE messages[x]
    <3> HIDE DEF new
    <3>1. QED
      BY <1>1, <2>2
  <2> HIDE DEF ms, orig
  <2>4. messages'[x] \in {NoRow, ms[x]}
    BY <2>1, DroppedOrSame
  <2>5. CASE x = NextId /\ messages'[x] = new
    <3>1. /\ new.status = "queued" /\ new.attempts = 0
          /\ new.forwardedToMessageId = NoMsg /\ new.payload = rest
          /\ new.deduplicationId = NoDedup /\ new.originalMessageId = NoMsg
      <4> HIDE DEF rest
      <4>1. QED
        BY NewRowFields
    <3>2. job'[x] = job[c]
      <4>1. job \in [Msg -> Msg \cup {NoMsg}]
        BY DriverInvParts DEF RestOK
      <4>2. QED
        BY <2>1, <2>2, <2>5, <4>1
    <3> HIDE DEF new
    <3>3. Unwrapped(x)
      BY <2>5, <3>1, <3>2 DEF Unwrapped
    <3>4. Inserted(x)
      BY <2>1, <2>5, <3>1, <3>3 DEF Inserted
    <3>5. QED
      BY <2>1, <3>4 DEF RowChange
  <2>6. CASE ~(x = NextId /\ messages'[x] = new)
    <3> HIDE DEF new
    <3>1. QED
      BY <2>1, <2>3, <2>4, <2>6, SameOrGone
  <2>7. QED
    BY <2>5, <2>6
<1>4. QED
  BY <1>2, <1>3

-----------------------------------------------------------------------------
(* The summary of the next-state relation.                                   *)

(* Every operation on a queue.                                               *)
LEMMA QueueStepRows ==
  ASSUME DriverInv, NEW q \in Queue, QueueStep(q), NEW x \in Msg
  PROVE  RowChange(x)
<1>1. CASE \/ \E dto \in QueueDto[q] : UpsertQueue(q, dto)
           \/ \E limit \in Limit : BeginRetryDeadLetters(q, limit)
           \/ \E qs \in {{q}, Queue}, mode \in {"expired", "deadWorkers", "forceAll"} :
                BeginReclaim(qs, mode)
  <2>1. UNCHANGED <<messages, revived, strictClaim>>
    BY <1>1 DEF UpsertQueue, BeginRetryDeadLetters, BeginReclaim, table, history
  <2>2. QED
    BY <2>1, SameRow
<1>2. CASE DeleteQueue(q)
  BY <1>2, RemoveRows DEF DeleteQueue
<1>3. CASE \E g \in Group, delay \in Delay \cup {0}, max \in MaxAttemptsOf(q),
              dedup \in Dedup \cup {NoDedup} : Send(q, g, delay, max, dedup)
  BY <1>3, SendRows
<1>4. CASE \E who \in Claimant, timeout \in Timeout, limit \in Limit :
              Claim(q, who, timeout, limit)
  BY <1>4, ClaimRows
<1>5. CASE \E qs \in {{q}, Queue} : Cleanup(qs)
  BY <1>5, RemoveRows DEF Cleanup
<1>6. CASE Purge(q)
  BY <1>6, RemoveRows DEF Purge
<1>7. CASE \E status \in {"queued", "completed", "dead_letter", "processing"} :
              PurgeStatus(q, status)
  BY <1>7, RemoveRows DEF PurgeStatus
<1>8. QED
  BY <1>1, <1>2, <1>3, <1>4, <1>5, <1>6, <1>7, Zenon DEF QueueStep

(* Every operation on a message.                                             *)
LEMMA MessageStepRows ==
  ASSUME DriverInv, NEW m \in Msg, MessageStep(m), NEW x \in Msg
  PROVE  RowChange(x)
<1>0. RestOK /\ TxOK
  BY DriverInvParts
<1>1. CASE \E extension \in Timeout, token \in TokensOf(m) : Touch(m, extension, token)
  BY <1>1, TouchRows
<1>2. CASE \E token \in TokensOf(m) : Complete(m, token)
  BY <1>2, CompleteRows
<1>3. CASE \E backoff \in Delay \cup {QueueDefault}, token \in TokensOf(m) :
              Fail(m, backoff, token)
  <2>1. PICK backoff \in Delay \cup {QueueDefault} :
          /\ Processing(m) /\ strictClaim' = strictClaim
          /\ IF Exhausted(messages[m])
             THEN DeadLetter(m)
             ELSE Requeue(m, clock + BaseBackoff(m, backoff)
                                       * 2 ^ (messages[m].attempts - 1))
    BY <1>3 DEF Fail
  <2>2. CASE Exhausted(messages[m])
    BY <2>1, <2>2, DeadLetterRows DEF Processing
  <2>3. CASE ~Exhausted(messages[m])
    <3> DEFINE t == clock + BaseBackoff(m, backoff) * 2 ^ (messages[m].attempts - 1)
    <3>1. BaseBackoff(m, backoff) \in Int /\ messages[m].attempts \in Nat
      BY <1>0, <2>1, RowFacts, InputAssumption
      DEF BaseBackoff, RestOK, QueueRow, MessageRow, Processing, QueueDefault
    <3>2. t \in Int
      BY <1>0, <3>1 DEF RestOK
    <3>3. Requeue(m, t)
      BY <2>1, <2>3
    <3> HIDE DEF t
    <3>4. QED
      BY <2>1, <2>3, <3>2, <3>3, RequeueRows
  <2>4. QED
    BY <2>2, <2>3
<1>4. CASE \E delay \in Delay : Defer(m, delay)
  BY <1>4, DeferRows, InputAssumption
<1>5. CASE ForceDeadLetter(m)
  <2>1. messages[m].status \in {"queued", "processing"}
    BY <1>5, RowFacts DEF ForceDeadLetter, Skippable, MessageRow
  <2>2. QED
    BY <1>5, <2>1, DeadLetterRows DEF ForceDeadLetter
<1>6. CASE Cancel(m)
  BY <1>6, CancelRows
<1>7. CASE RetryMessage(m)
  BY <1>7, ResetOwnRows, RestoreOriginalRows DEF RetryMessage
<1>8. CASE RetryDeadStep(m)
  BY <1>0, <1>8, ResetOwnRows DEF RetryDeadStep, TxOK, Present
<1>9. CASE RetryCopiesStep(m)
  BY <1>0, <1>9, RestoreOriginalRows DEF RetryCopiesStep, TxOK
<1>10. CASE ReclaimStep(m)
  <2>1. Processing(m) /\ strictClaim' = strictClaim /\ clock \in Int
        /\ IF Exhausted(messages[m]) THEN DeadLetter(m) ELSE Requeue(m, clock)
    BY <1>0, <1>10 DEF ReclaimStep, TxOK, RestOK
  <2>2. QED
    BY <2>1, DeadLetterRows, RequeueRows DEF Processing
<1>11. QED
  BY <1>1, <1>2, <1>3, <1>4, <1>5, <1>6, <1>7, <1>8, <1>9, <1>10 DEF MessageStep

(* Whatever the step, the row of a message changes in one of the ways that   *)
(* RowChange lists.                                                          *)
LEMMA RowChanges == DriverInv /\ [Next]_vars => \A x \in Msg : RowChange(x)
<1> SUFFICES ASSUME DriverInv, [Next]_vars, NEW x \in Msg PROVE RowChange(x)
  OBVIOUS
<1>1. CASE \E q \in Queue : QueueStep(q)
  BY <1>1, QueueStepRows
<1>2. CASE \E m \in Msg : MessageStep(m)
  BY <1>2, MessageStepRows
<1>3. CASE BeginRetryCopies \/ Tick \/ UNCHANGED vars
  <2>1. UNCHANGED <<messages, revived, strictClaim>>
    BY <1>3 DEF BeginRetryCopies, Tick, vars, table, history
  <2>2. QED
    BY <2>1, SameRow
<1>4. QED
  BY <1>1, <1>2, <1>3 DEF Next

-----------------------------------------------------------------------------
(* The invariants, each from the summary.                                    *)

(* The invariant of the rows together with those about several rows, or a    *)
(* row and the history.                                                      *)
TableInv ==
  /\ DriverInv
  /\ AttemptsWithinLimit
  /\ RevivedOK
  /\ LinksOK
  /\ ForwardLinks
  /\ Lineage
  /\ NoJobLost
  /\ StrictGroupsOverlapOnlyByRetry
  /\ DuplicatesOnlyByRetry

(* A row that exists after a step is new, or existed before with its data.   *)
LEMMA RowIdentity ==
  ASSUME NEW x \in Msg, RowChange(x), messages'[x].status # "absent"
  PROVE  \/ Inserted(x)
         \/ /\ messages[x].status # "absent"
            /\ messages'[x].queue = messages[x].queue
            /\ messages'[x].groupKey = messages[x].groupKey
            /\ messages'[x].payload = messages[x].payload
            /\ messages'[x].maxAttempts = messages[x].maxAttempts
            /\ messages'[x].deduplicationId = messages[x].deduplicationId
            /\ messages'[x].originalMessageId = messages[x].originalMessageId
<1>1. NoRow.status = "absent"
  BY DEF NoRow
<1>2. Inserted(x) \/ (Data(messages'[x]) = Data(messages[x])
                      /\ messages[x].status # "absent")
  BY <1>1 DEF RowChange, Kept, Taken, GivenBack, Done, Died, Restored
<1>3. QED
  BY <1>2 DEF Data

(* What the attempts of a row may be.                                        *)
LEMMA AttemptsKept ==
  ASSUME DriverInv, AttemptsWithinLimit, DriverInv', \A x \in Msg : RowChange(x)
  PROVE  AttemptsWithinLimit'
<1> SUFFICES ASSUME NEW m \in Msg, messages'[m].maxAttempts > 0,
                    messages'[m].status \in {"queued", "processing"}
             PROVE  /\ messages'[m].status = "queued" =>
                         messages'[m].attempts < messages'[m].maxAttempts
                    /\ messages'[m].status = "processing" =>
                         messages'[m].attempts \in 1 .. messages'[m].maxAttempts
  BY DEF AttemptsWithinLimit, Processing
<1>1. /\ messages[m].attempts \in Nat /\ messages[m].maxAttempts \in Nat
      /\ messages'[m].attempts \in Nat /\ messages'[m].maxAttempts \in Nat
  <2>1. messages[m] \in MessageRow /\ messages'[m] \in MessageRow
    BY DEF DriverInv, TypeOK
  <2>2. QED
    BY <2>1 DEF MessageRow
<1>2. messages[m].maxAttempts > 0 =>
        /\ messages[m].status = "queued" =>
             messages[m].attempts < messages[m].maxAttempts
        /\ messages[m].status = "processing" =>
             messages[m].attempts \in 1 .. messages[m].maxAttempts
  BY DEF AttemptsWithinLimit, Processing
<1>3. CASE Inserted(m)
  BY <1>1, <1>3 DEF Inserted
<1>4. CASE ~Inserted(m)
  <2>1. messages'[m].maxAttempts = messages[m].maxAttempts
    BY <1>4, RowIdentity
  <2>2. \/ Kept(messages[m], messages'[m])
        \/ Taken(messages[m], messages'[m])
        \/ GivenBack(messages[m], messages'[m])
        \/ Restored(messages[m], messages'[m])
    <3>1. RowChange(m) /\ NoRow.status = "absent"
      BY DEF NoRow
    <3>2. QED
      BY <1>4, <3>1 DEF RowChange, Done, Died
  <2>3. CASE Kept(messages[m], messages'[m]) \/ Restored(messages[m], messages'[m])
    BY <1>1, <1>2, <2>1, <2>3 DEF Kept, Restored
  <2>4. CASE Taken(messages[m], messages'[m])
    BY <1>1, <1>2, <2>1, <2>4 DEF Taken
  <2>5. CASE GivenBack(messages[m], messages'[m])
    BY <1>1, <1>2, <2>1, <2>5 DEF GivenBack, Exhausted, Refunded
  <2>6. QED
    BY <2>2, <2>3, <2>4, <2>5
<1>5. QED
  BY <1>3, <1>4

(* A revived message is finished only after it left revived.                 *)
LEMMA RevivedKept ==
  ASSUME RevivedOK, DriverInv', \A x \in Msg : RowChange(x)
  PROVE  RevivedOK'
<1> SUFFICES ASSUME NEW x \in revived'
             PROVE  messages'[x].status \in {"queued", "processing", "absent"}
  BY DEF RevivedOK
<1>1. RowChange(x) /\ NoRow.status = "absent"
  BY DEF DriverInv, TypeOK, NoRow
<1>2. x \in revived => messages[x].status \in {"queued", "processing", "absent"}
  BY DEF RevivedOK
<1>3. QED
  BY <1>1, <1>2
  DEF RowChange, Inserted, Kept, Taken, GivenBack, Done, Died, Restored

(* Ids are given out one by one.                                             *)
LEMMA LastIdGrows == [Next]_vars => lastId' \in {lastId, NextId}
<1> SUFFICES ASSUME [Next]_vars PROVE lastId' \in {lastId, NextId}
  OBVIOUS
<1>1. ASSUME NEW q \in Queue, QueueStep(q) PROVE lastId' \in {lastId, NextId}
  BY <1>1 DEF QueueStep, UpsertQueue, DeleteQueue, Send, Claim, BeginRetryDeadLetters,
              BeginReclaim, Cleanup, Purge, PurgeStatus, Remove, table, history
<1>2. ASSUME NEW m \in Msg, MessageStep(m) PROVE lastId' \in {lastId, NextId}
  <2>1. \/ UNCHANGED lastId
        \/ DeadLetter(m) \/ \E t : Requeue(m, t)
        \/ ResetOwn(m) \/ \E qs : RestoreOriginal(m, qs)
    BY <1>2 DEF MessageStep, Touch, Complete, Fail, Defer, ForceDeadLetter, Cancel,
                RetryMessage, RetryDeadStep, RetryCopiesStep, ReclaimStep
  <2>2. QED
    BY <2>1 DEF DeadLetter, Requeue, ResetOwn, RestoreOriginal
<1>3. CASE BeginRetryCopies \/ Tick \/ UNCHANGED vars
  BY <1>3 DEF BeginRetryCopies, Tick, table, vars
<1>4. QED
  BY <1>1, <1>2, <1>3 DEF Next

(* A link is written when its copy is inserted, and cleared when its message *)
(* waits again.                                                              *)
LEMMA LinksKept ==
  ASSUME DriverInv, LinksOK, ForwardLinks, DriverInv', lastId' \in {lastId, NextId},
         \A x \in Msg : RowChange(x)
  PROVE  LinksOK' /\ ForwardLinks'
<1> SUFFICES ASSUME NEW m \in Msg,
                    NEW c \in Msg, c = messages'[m].forwardedToMessageId
             PROVE  /\ c <= lastId'
                    /\ messages'[m].status = "dead_letter"
                    /\ c \in Present' => /\ messages'[c].originalMessageId = m
                                         /\ messages'[c].queue # messages'[m].queue
  <2>1. lastId' \in Nat /\ \A m \in Msg : messages'[m].forwardedToMessageId \in Msg \cup {NoMsg}
    <3>1. lastId' \in Nat /\ \A m \in Msg : messages'[m] \in MessageRow
      BY DEF DriverInv, TypeOK
    <3>2. QED
      BY <3>1 DEF MessageRow
  <2>2. QED
    BY <2>1 DEF LinksOK, ForwardLinks, NoMsg
<1>1. lastId \in Nat /\ lastId' \in Nat /\ NoMsg \notin Msg /\ NextId = lastId + 1
  BY DEF DriverInv, TypeOK, NoMsg, Msg, NextId
<1>2. NoRow.forwardedToMessageId = NoMsg /\ NoRow.status = "absent"
  BY DEF NoRow
<1>3. CASE LinkedToCopy(m) /\ messages'[m].status = "dead_letter"
  BY <1>1, <1>3 DEF LinkedToCopy
<1>4. CASE ~(LinkedToCopy(m) /\ messages'[m].status = "dead_letter")
  <2>1. messages[m].forwardedToMessageId = c
        /\ (messages[m].status = "dead_letter" => Kept(messages[m], messages'[m]))
    <3>1. RowChange(m)
      OBVIOUS
    <3>2. QED
      BY <1>1, <1>2, <1>4, <3>1
      DEF RowChange, Inserted, Kept, Taken, GivenBack, Done, Died, Restored
  <2>2. /\ messages[m].status = "dead_letter" /\ c <= lastId
        /\ c \in Present => /\ messages[c].originalMessageId = m
                            /\ messages[c].queue # messages[m].queue
    BY <1>1, <2>1 DEF ForwardLinks, LinksOK
  <2>3. messages'[m].status = "dead_letter" /\ messages'[m].queue = messages[m].queue
    BY <2>1, <2>2 DEF Kept, Data
  <2>4. c <= lastId'
    BY <1>1, <2>2 DEF Msg
  <2>5. ASSUME messages'[c].status # "absent"
        PROVE  messages'[c].originalMessageId = m /\ messages'[c].queue # messages'[m].queue
    <3>1. ~Inserted(c)
      BY <1>1, <2>2 DEF Inserted, Msg
    <3>2. /\ messages[c].status # "absent"
          /\ messages'[c].queue = messages[c].queue
          /\ messages'[c].originalMessageId = messages[c].originalMessageId
      BY <2>5, <3>1, RowIdentity
    <3>3. QED
      BY <2>2, <2>3, <3>2 DEF Present
  <2>6. QED
    BY <2>3, <2>4, <2>5 DEF Present
<1>5. QED
  BY <1>3, <1>4

(* A message that is unfinished after a step was unfinished before it, or is *)
(* new, or is revived now; and one that was revived still is.                *)
LEMMA UnfinishedRows ==
  ASSUME NEW x \in Msg, RowChange(x), ~Inserted(x),
         messages'[x].status \in {"queued", "processing"}
  PROVE  \/ x \in revived'
         \/ messages[x].status \in {"queued", "processing"} /\ x \notin revived
<1>1. NoRow.status = "absent"
  BY DEF NoRow
<1>2. QED
  BY <1>1 DEF RowChange, Kept, Taken, GivenBack, Done, Died, Restored

(* A row that exists has an id that was given out.                           *)
LEMMA UsedIdsNext ==
  ASSUME DriverInv', NEW x \in Msg, messages'[x].status # "absent"
  PROVE  x <= lastId'
<1>1. lastId' \in Nat /\ (x > lastId' => messages'[x] = NoRow)
  BY DEF DriverInv, TypeOK, RowsOK
<1>2. QED
  BY <1>1 DEF NoRow, Msg

(* In a strict queue the younger of two messages of a group was claimed when *)
(* the older one was finished.                                               *)
LEMMA StrictOrderKept ==
  ASSUME StrictGroupsOverlapOnlyByRetry, DriverInv', \A x \in Msg : RowChange(x)
  PROVE  StrictGroupsOverlapOnlyByRetry'
<1> SUFFICES ASSUME NEW x \in Msg, NEW y \in Msg, x < y,
                    messages'[x].status \in {"queued", "processing"},
                    messages'[y].status = "processing", y \in strictClaim',
                    messages'[x].queue = messages'[y].queue,
                    messages'[x].groupKey = messages'[y].groupKey,
                    x \notin revived'
             PROVE  FALSE
  BY DEF StrictGroupsOverlapOnlyByRetry, Unfinished, Processing
<1>1. y <= lastId' /\ lastId' \in Nat
  BY UsedIdsNext DEF DriverInv, TypeOK
<1>2. ~Inserted(x) /\ ~Inserted(y)
  BY <1>1 DEF Inserted, Msg
<1>3. /\ messages[x].queue = messages'[x].queue
      /\ messages[x].groupKey = messages'[x].groupKey
      /\ messages[y].queue = messages'[y].queue
      /\ messages[y].groupKey = messages'[y].groupKey
  BY <1>2, RowIdentity
<1>4. Unfinished(x) /\ x \notin revived
  BY <1>2, UnfinishedRows DEF Unfinished
<1>5. \/ messages[y].status = "processing" /\ y \in strictClaim
      \/ OldestOfGroup(y)
  <2>1. RowChange(y) /\ NoRow.status = "absent"
    BY DEF NoRow
  <2>2. QED
    BY <1>2, <2>1 DEF RowChange, Kept, Taken, GivenBack, Done, Died, Restored
<1>6. ~OldestOfGroup(y)
  BY <1>3, <1>4 DEF OldestOfGroup, Msg
<1>7. QED
  BY <1>3, <1>4, <1>5, <1>6 DEF StrictGroupsOverlapOnlyByRetry, Processing

(* A sender's message is inserted only when no active one has its            *)
(* deduplication id; copies and unwrapped messages carry none.               *)
LEMMA DuplicatesKept ==
  ASSUME DuplicatesOnlyByRetry, DriverInv', \A x \in Msg : RowChange(x)
  PROVE  DuplicatesOnlyByRetry'
<1> SUFFICES ASSUME NEW x \in Msg, NEW y \in Msg, x < y,
                    messages'[x].status \in {"queued", "processing"},
                    messages'[y].status # "absent",
                    messages'[x].queue = messages'[y].queue,
                    messages'[x].deduplicationId # NoDedup,
                    messages'[x].deduplicationId = messages'[y].deduplicationId,
                    x \notin revived'
             PROVE  FALSE
  BY DEF DuplicatesOnlyByRetry, Unfinished, Present
<1>1. y <= lastId' /\ lastId' \in Nat
  BY UsedIdsNext DEF DriverInv, TypeOK
<1>2. ~Inserted(x)
  BY <1>1 DEF Inserted, Msg
<1>3. /\ messages[x].queue = messages'[x].queue
      /\ messages[x].deduplicationId = messages'[x].deduplicationId
  BY <1>2, RowIdentity
<1>4. Unfinished(x) /\ x \notin revived
  BY <1>2, UnfinishedRows DEF Unfinished
<1>5. CASE Inserted(y)
  <2>1. Duplicates(messages'[y].queue, messages'[y].deduplicationId) = {}
    BY <1>5 DEF Inserted, Sent, Forwarded, Unwrapped
  <2>2. x \in Duplicates(messages'[y].queue, messages'[y].deduplicationId)
    BY <1>3, <1>4 DEF Duplicates
  <2>3. QED
    BY <2>1, <2>2
<1>6. CASE ~Inserted(y)
  <2>1. /\ messages[y].status # "absent"
        /\ messages[y].queue = messages'[y].queue
        /\ messages[y].deduplicationId = messages'[y].deduplicationId
    BY <1>6, RowIdentity
  <2>2. QED
    BY <1>3, <1>4, <2>1 DEF DuplicatesOnlyByRetry, Present, Unfinished
<1>7. QED
  BY <1>5, <1>6

-----------------------------------------------------------------------------
(* Where the data of a job is.                                               *)

(* A row that mentions a message is a younger one of the same job.           *)
LEMMA MentionsOlder ==
  ASSUME DriverInv, Lineage, NEW x \in Msg, NEW m \in Msg, Mentions(messages[x], m)
  PROVE  m < x /\ job[x] = job[m]
<1>1. LineageOK(x) /\ messages[x].payload \in Seq(Envelope)
  BY RowFacts DEF Lineage, MessageRow
<1>2. m # NoMsg
  BY DEF Msg, NoMsg
<1>3. CASE messages[x].originalMessageId = m
  <2>1. messages[x].payload # <<>> /\ m = messages[x].payload[1].of
    BY <1>1, <1>2, <1>3 DEF LineageOK
  <2>2. 1 \in DOMAIN messages[x].payload
    BY <1>1, <2>1
  <2>3. QED
    BY <1>1, <2>1, <2>2 DEF LineageOK
<1>4. CASE \E i \in DOMAIN messages[x].payload : messages[x].payload[i].of = m
  BY <1>1, <1>4 DEF LineageOK
<1>5. QED
  BY <1>3, <1>4 DEF Mentions

(* The original of a copy is the outermost message it mentions.              *)
LEMMA OriginalIsOutermost ==
  ASSUME DriverInv, Lineage, NEW c \in Msg, IsCopy(c)
  PROVE  /\ OriginalOf(c) = messages[c].payload[1].of
         /\ OriginalOf(c) \in Msg /\ OriginalOf(c) < c
         /\ job[OriginalOf(c)] = job[c]
         /\ messages[c].payload \in Seq(Envelope) /\ messages[c].payload # <<>>
<1>1. /\ LineageOK(c) /\ messages[c].payload \in Seq(Envelope)
      /\ messages[c].payload # <<>> /\ OriginalOf(c) \in Msg
  BY RowFacts DEF Lineage, MessageRow
<1>2. OriginalOf(c) = messages[c].payload[1].of
  <2>1. Head(messages[c].payload) = messages[c].payload[1]
    BY <1>1
  <2>2. QED
    BY <1>1, <2>1 DEF OriginalOf, LineageOK
<1>3. 1 \in DOMAIN messages[c].payload
  BY <1>1
<1>4. QED
  BY <1>1, <1>2, <1>3 DEF LineageOK

(* The rest of the envelopes does not mention the outermost message.         *)
LEMMA RestIsOlder ==
  ASSUME DriverInv, Lineage, NEW c \in Msg, IsCopy(c),
         NEW i \in DOMAIN Tail(messages[c].payload)
  PROVE  /\ i + 1 \in DOMAIN messages[c].payload
         /\ Tail(messages[c].payload)[i] = messages[c].payload[i + 1]
         /\ messages[c].payload[i + 1].of < OriginalOf(c)
<1> DEFINE p == messages[c].payload
<1>1. p \in Seq(Envelope) /\ p # <<>> /\ LineageOK(c) /\ OriginalOf(c) = p[1].of
  BY OriginalIsOutermost DEF Lineage
<1>2. /\ \A j \in 1 .. Len(p) - 1 : Tail(p)[j] = p[j + 1]
      /\ DOMAIN Tail(p) = 1 .. Len(p) - 1 /\ DOMAIN p = 1 .. Len(p) /\ Len(p) \in Nat
  BY <1>1
<1>3. i \in 1 .. Len(p) - 1 /\ i + 1 \in DOMAIN p /\ 1 \in DOMAIN p /\ 1 < i + 1
  BY <1>2
<1>4. p[i + 1].of < p[1].of
  BY <1>1, <1>3 DEF LineageOK
<1>5. QED
  BY <1>1, <1>2, <1>3, <1>4

(* The envelopes of the rows that a step leaves or inserts.                  *)
LEMMA LineageKept ==
  ASSUME DriverInv, Lineage, DriverInv', \A x \in Msg : RowChange(x),
         \A x \in 1 .. lastId : job'[x] = job[x]
  PROVE  Lineage'
<1> SUFFICES ASSUME NEW x \in Msg PROVE LineageOK(x)'
  BY DEF Lineage
<1>1. lastId \in Nat /\ NextId = lastId + 1 /\ Msg \subseteq Nat /\ 1 .. lastId \subseteq Msg
      /\ \A m \in Msg : m <= lastId => m \in 1 .. lastId
  BY BoundAssumption DEF DriverInv, TypeOK, NextId, Msg
<1>2. ASSUME messages'[x].payload = <<>>, messages'[x].originalMessageId = NoMsg
      PROVE  LineageOK(x)'
  BY <1>2 DEF LineageOK
<1>3. CASE messages'[x].status = "absent"
  <2>1. messages'[x].payload = <<>> /\ messages'[x].originalMessageId = NoMsg
    BY <1>3 DEF DriverInv, RowsOK, RowOK, ShapeOK
  <2>2. QED
    BY <1>2, <2>1
<1>4. CASE Inserted(x) /\ Sent(x)
  BY <1>2, <1>4 DEF Sent
<1>5. CASE Inserted(x) /\ Forwarded(x)
  <2>1. PICK m \in Msg :
          /\ m <= lastId /\ job'[x] = job[m]
          /\ messages'[x].payload =
               <<[of |-> m, from |-> messages[m].queue]>> \o messages[m].payload
          /\ messages'[x].originalMessageId = m
    BY <1>5 DEF Forwarded
  <2> DEFINE p == messages[m].payload
  <2> DEFINE e == [of |-> m, from |-> messages[m].queue]
  <2>2. x = lastId + 1 /\ m < x
    BY <1>1, <1>5, <2>1 DEF Inserted
  <2>3. LineageOK(m) /\ p \in Seq(Envelope)
    BY RowFacts DEF Lineage, MessageRow
  <2>4. messages'[x].payload = <<e>> \o p
    BY <2>1
  <2>5. e.of = m
    OBVIOUS
  <2> HIDE DEF e
  <2>6. /\ DOMAIN (<<e>> \o p) = 1 .. Len(p) + 1 /\ Len(p) \in Nat
        /\ (<<e>> \o p)[1] = e /\ <<e>> \o p # <<>>
        /\ \A i \in 2 .. Len(p) + 1 : /\ (<<e>> \o p)[i] = p[i - 1]
                                      /\ i - 1 \in DOMAIN p
    <3> HIDE DEF p
    <3>1. QED
      BY <2>3
  <2>7. \A i \in DOMAIN p : /\ p[i].of \in Msg /\ p[i].of < m
                            /\ job[p[i].of] = job[m] /\ p[i].of \in 1 .. lastId
    <3>1. \A i \in DOMAIN p : p[i] \in Envelope
      BY <2>3
    <3>2. \A i \in DOMAIN p : p[i].of \in Msg
      BY <3>1 DEF Envelope
    <3>3. \A i \in DOMAIN p : p[i].of < m /\ job[p[i].of] = job[m]
      BY <2>3 DEF LineageOK
    <3>4. m \in Nat /\ \A i \in DOMAIN p : p[i].of \in Nat
      BY <1>1, <3>2
    <3> HIDE DEF p
    <3>5. \A i \in DOMAIN p : p[i].of <= lastId
      BY <1>1, <2>1, <3>3, <3>4
    <3>6. QED
      BY <1>1, <3>2, <3>3, <3>5
  <2>8. \A i \in 1 .. Len(p) + 1 :
          (<<e>> \o p)[i].of < x /\ job'[(<<e>> \o p)[i].of] = job'[x]
    <3> SUFFICES ASSUME NEW i \in 1 .. Len(p) + 1
                 PROVE  (<<e>> \o p)[i].of < x /\ job'[(<<e>> \o p)[i].of] = job'[x]
      OBVIOUS
    <3>1. CASE i = 1
      BY <1>1, <2>1, <2>2, <2>5, <2>6, <3>1
    <3>2. CASE i # 1
      <4>1. i \in 2 .. Len(p) + 1
        BY <2>6, <3>2
      <4>2. (<<e>> \o p)[i] = p[i - 1] /\ i - 1 \in DOMAIN p
        BY <2>6, <4>1
      <4>3. p[i - 1].of < m /\ p[i - 1].of \in Msg /\ job'[p[i - 1].of] = job'[x]
        BY <2>1, <2>7, <4>2
      <4>4. p[i - 1].of \in Nat /\ m \in Nat /\ x \in Nat
        BY <1>1, <4>3
      <4>5. p[i - 1].of < x
        BY <2>2, <4>3, <4>4
      <4>6. QED
        BY <4>2, <4>3, <4>5
    <3>3. QED
      BY <3>1, <3>2
  <2>9. ASSUME NEW i \in 1 .. Len(p) + 1, NEW j \in 1 .. Len(p) + 1, i < j
        PROVE  (<<e>> \o p)[j].of < (<<e>> \o p)[i].of
    <3>1. j \in 2 .. Len(p) + 1 /\ (<<e>> \o p)[j] = p[j - 1] /\ j - 1 \in DOMAIN p
      BY <2>6, <2>9
    <3>2. CASE i = 1
      BY <2>5, <2>6, <2>7, <3>1, <3>2
    <3>3. CASE i # 1
      <4>1. (<<e>> \o p)[i] = p[i - 1] /\ i - 1 \in DOMAIN p /\ i - 1 < j - 1
        BY <2>6, <2>9, <3>3
      <4>2. QED
        BY <2>3, <3>1, <4>1 DEF LineageOK
    <3>4. QED
      BY <3>2, <3>3
  <2> HIDE DEF p
  <2>10. QED
    BY <2>1, <2>4, <2>5, <2>6, <2>8, <2>9 DEF LineageOK
<1>6. CASE Inserted(x) /\ Unwrapped(x)
  <2>1. PICK c \in Msg :
          /\ IsCopy(c) /\ job'[x] = job[c]
          /\ messages'[x].payload = Tail(messages[c].payload)
          /\ messages'[x].originalMessageId = NoMsg
    BY <1>6 DEF Unwrapped
  <2> DEFINE p == messages[c].payload
  <2> DEFINE t == Tail(p)
  <2>2. x = lastId + 1 /\ c <= lastId
    BY <1>1, <1>6, <2>1, RowFacts DEF Inserted, Present
  <2>3. LineageOK(c) /\ p \in Seq(Envelope)
    BY RowFacts DEF Lineage, MessageRow
  <2>4. \A i \in DOMAIN t : i + 1 \in DOMAIN p /\ t[i] = p[i + 1] /\ i \in Int
    <3>1. \A i \in DOMAIN t : i + 1 \in DOMAIN p /\ t[i] = p[i + 1]
      BY <2>1, RestIsOlder
    <3>2. DOMAIN t \subseteq Int
      BY <2>1, RowFacts
    <3>3. QED
      BY <3>1, <3>2
  <2>5. \A i \in DOMAIN p : p[i].of \in Msg /\ p[i].of < c /\ job[p[i].of] = job[c]
    <3>1. \A i \in DOMAIN p : p[i] \in Envelope
      BY <2>3
    <3>2. \A i \in DOMAIN p : p[i].of \in Msg
      BY <3>1 DEF Envelope
    <3>3. QED
      BY <2>3, <3>2 DEF LineageOK
  <2>6. \A i \in DOMAIN t : t[i].of < x /\ job'[t[i].of] = job'[x]
    <3> SUFFICES ASSUME NEW i \in DOMAIN t
                 PROVE  t[i].of < x /\ job'[t[i].of] = job'[x]
      OBVIOUS
    <3>1. /\ t[i].of \in Msg /\ t[i].of < c /\ job[t[i].of] = job[c]
      BY <2>4, <2>5
    <3>2. c \in Nat /\ \A o \in Msg : o < c => o \in 1 .. lastId /\ o < x
      BY <1>1, <2>2
    <3>3. t[i].of \in 1 .. lastId /\ t[i].of < x
      BY <3>1, <3>2
    <3>4. QED
      BY <1>1, <2>1, <3>1, <3>3
  <2>7. \A i, j \in DOMAIN t : i < j => t[j].of < t[i].of
    <3>1. \A i, j \in DOMAIN t : i < j => i + 1 < j + 1
      BY <2>4
    <3>2. QED
      BY <2>3, <2>4, <3>1 DEF LineageOK
  <2> HIDE DEF t
  <2>8. QED
    BY <2>1, <2>6, <2>7 DEF LineageOK, t
<1>7. CASE ~Inserted(x) /\ messages'[x].status # "absent"
  <2> DEFINE p == messages[x].payload
  <2>1. /\ messages[x].status # "absent" /\ messages'[x].payload = p
        /\ messages'[x].originalMessageId = messages[x].originalMessageId
    BY <1>7, RowIdentity
  <2>2. x <= lastId /\ LineageOK(x) /\ p \in Seq(Envelope)
    BY <2>1, RowFacts DEF Lineage, MessageRow
  <2>3. \A i \in DOMAIN p : p[i].of \in Msg /\ p[i].of < x
    <3>1. \A i \in DOMAIN p : p[i] \in Envelope
      BY <2>2
    <3>2. \A i \in DOMAIN p : p[i].of \in Msg
      BY <3>1 DEF Envelope
    <3>3. QED
      BY <2>2, <3>2 DEF LineageOK
  <2>4. job'[x] = job[x] /\ \A i \in DOMAIN p : job'[p[i].of] = job[p[i].of]
    <3>1. \A o \in Msg : o <= x => o \in 1 .. lastId
      BY <1>1, <2>2
    <3>2. x \in 1 .. lastId /\ \A i \in DOMAIN p : p[i].of \in 1 .. lastId
      BY <1>1, <2>2, <2>3, <3>1
    <3>3. QED
      BY <3>2
  <2>5. QED
    BY <2>1, <2>2, <2>4 DEF LineageOK
<1>8. QED
  BY <1>3, <1>4, <1>5, <1>6, <1>7 DEF Inserted

(* A message with a row keeps its job present.                               *)
LEMMA RowHoldsJob ==
  ASSUME NEW k \in Msg, messages'[k].status # "absent"
  PROVE  job'[k] \in JobsOf(messages)'
  BY DEF JobsOf

(* Operations that neither insert nor delete a row.                          *)
LEMMA NoRowGone ==
  ASSUME UNCHANGED <<lastId, job>>, dropped \subseteq dropped',
         \A x \in Msg : messages[x].status # "absent" => messages'[x].status # "absent"
  PROVE  JobsKept
<1>1. \A x \in Present : job[x] \in JobsOf(messages)'
  BY RowHoldsJob DEF Present
<1>2. QED
  BY <1>1 DEF JobsKept

(* Operations that delete only rows of one job, of which they leave a row.   *)
LEMMA OneJobTouched ==
  ASSUME DriverInv, NEW k \in Msg, messages'[k].status # "absent",
         dropped \subseteq dropped',
         \A x \in 1 .. lastId : job'[x] = job[x],
         lastId' # lastId => job'[lastId'] = job'[k],
         \A x \in Present : messages'[x].status # "absent" \/ job[x] = job'[k]
  PROVE  JobsKept
<1>1. job'[k] \in JobsOf(messages)'
  BY RowHoldsJob
<1>2. ASSUME NEW x \in Present PROVE job[x] \in JobsOf(messages)'
  <2>1. x \in Msg /\ x \in 1 .. lastId
    <3>1. x \in Msg /\ x <= lastId /\ lastId \in Nat
      BY RowFacts, DriverInvParts DEF Present, RestOK
    <3>2. QED
      BY <3>1 DEF Msg
  <2>2. CASE messages'[x].status # "absent"
    BY <2>1, <2>2, RowHoldsJob
  <2>3. CASE job[x] = job'[k]
    BY <1>1, <2>3
  <2>4. QED
    BY <2>2, <2>3
<1>3. QED
  BY <1>1, <1>2 DEF JobsKept

(* An operator's deletions are recorded.                                     *)
LEMMA DeletionsRecorded ==
  ASSUME UNCHANGED <<lastId, job>>,
         dropped' = dropped \cup (JobsOf(messages) \ JobsOf(messages'))
  PROVE  JobsKept
<1>1. JobsOf(messages)' = JobsOf(messages')
  BY DEF JobsOf
<1>2. \A x \in Present : job[x] \in JobsOf(messages)
  BY DEF Present, JobsOf
<1>3. QED
  BY <1>1, <1>2 DEF JobsKept

(* The next id is not given out, and is in the table.                        *)
LEMMA NextIdFacts ==
  ASSUME DriverInv, HasRoom(1)
  PROVE  /\ NextId \in Msg /\ NextId = lastId + 1 /\ NextId # lastId
         /\ \A x \in Msg : messages[x].status # "absent" => x # NextId
         /\ job \in [Msg -> Msg \cup {NoMsg}]
         /\ NextId \notin 1 .. lastId /\ 1 .. lastId \subseteq Msg
         /\ messages \in [Msg -> MessageRow]
<1>1. lastId \in 0 .. MaxMsg /\ job \in [Msg -> Msg \cup {NoMsg}]
      /\ messages \in [Msg -> MessageRow]
  BY DEF DriverInv, TypeOK
<1>2. NextId \in Msg /\ NextId = lastId + 1 /\ NextId # lastId
      /\ NextId \notin 1 .. lastId /\ 1 .. lastId \subseteq Msg
  BY <1>1, BoundAssumption DEF HasRoom, NextId, Msg
<1>3. \A x \in Msg : messages[x].status # "absent" => x # NextId
  BY <1>1, <1>2, RowFacts DEF Msg
<1>4. QED
  BY <1>1, <1>2, <1>3

(* send.                                                                     *)
LEMMA SendJobs ==
  ASSUME DriverInv, NEW q, NEW g, NEW delay, NEW max, NEW dedup,
         Send(q, g, delay, max, dedup)
  PROVE  JobsKept
<1>1. CASE Duplicates(q, dedup) # {}
  <2>1. UNCHANGED <<messages, lastId, job, dropped>>
    BY <1>1 DEF Send
  <2>2. QED
    BY <2>1, NoRowGone
<1>2. CASE Duplicates(q, dedup) = {}
  <2> DEFINE row == NewRow(q, g, <<>>, delay, max, dedup, NoMsg)
  <2>1. /\ HasRoom(1) /\ lastId' = NextId /\ dropped' = dropped
        /\ messages' = [messages EXCEPT ![NextId] = row]
        /\ job' = [job EXCEPT ![NextId] = NextId]
    BY <1>2 DEF Send
  <2>2. row.status = "queued"
    BY NewRowFields
  <2> HIDE DEF row
  <2>3. /\ NextId \in Msg /\ messages'[NextId].status # "absent"
        /\ \A x \in Present : messages'[x].status # "absent"
        /\ \A x \in 1 .. lastId : job'[x] = job[x]
    BY <2>1, <2>2, NextIdFacts DEF Present
  <2>4. QED
    BY <2>1, <2>3, OneJobTouched
<1>3. QED
  BY <1>1, <1>2

(* A dead letter keeps its row; the pending copies that go are of its job,   *)
(* and so is the new one.                                                    *)
LEMMA DeadLetterJobs ==
  ASSUME DriverInv, ForwardLinks, Lineage, NEW m \in Msg, DeadLetter(m),
         messages[m].status \in {"queued", "processing"}, dropped' = dropped
  PROVE  JobsKept
<1> DEFINE row == messages[m]
<1> DEFINE dead == [messages EXCEPT ![m] = Unclaimed(row, "dead_letter")]
<1> DEFINE dlq == ForwardsTo(m)
<1> DEFINE copy == NewRow(dlq, row.groupKey,
                          <<[of |-> m, from |-> row.queue]>> \o row.payload,
                          0, DefaultAttempts(dlq), NoDedup, m)
<1> DEFINE kept == DropPendingCopies(dead, m, row.forwardedToMessageId, {dlq})
<1>1. messages \in [Msg -> MessageRow] /\ messages[m] \in MessageRow
      /\ Unclaimed(row, "dead_letter").status = "dead_letter"
      /\ Unclaimed(row, "dead_letter") \in MessageRow
  <2>1. messages \in [Msg -> MessageRow] /\ messages[m] \in MessageRow
        /\ ShapeOK(messages[m]) /\ messages[m].queue \in Queue /\ issued[m] \in Nat
    BY DriverInvParts, RowFacts DEF RowsOK
  <2>2. QED
    BY <2>1, UnclaimedOK DEF RowOK
<1>2. dead[m].status = "dead_letter" /\ \A x \in Msg : x # m => dead[x] = messages[x]
  BY <1>1
<1>3. CASE ~Forwards(m)
  <2>1. messages' = dead /\ UNCHANGED <<lastId, job>>
    BY <1>3 DEF DeadLetter
  <2> HIDE DEF dead
  <2>2. \A x \in Msg : messages[x].status # "absent" => messages'[x].status # "absent"
    BY <1>2, <2>1
  <2>3. QED
    BY <2>1, <2>2, NoRowGone
<1>4. CASE Forwards(m)
  <2>1. /\ HasRoom(1) /\ lastId' = NextId /\ job' = [job EXCEPT ![NextId] = job[m]]
        /\ messages' = [kept EXCEPT ![NextId] = copy, ![m].forwardedToMessageId = NextId]
    BY <1>4 DEF DeadLetter
  <2>2. m # NextId
    BY <2>1, NextIdFacts
  <2>3. job'[NextId] = job[m] /\ job'[m] = job[m]
        /\ \A x \in 1 .. lastId : job'[x] = job[x]
    BY <2>1, <2>2, NextIdFacts
  <2>4. DOMAIN kept = Msg
        /\ \A x \in Msg : kept[x] = dead[x]
                          \/ x = row.forwardedToMessageId \/ Mentions(dead[x], m)
    BY DEF DropPendingCopies
  <2>5. kept[m] = Unclaimed(row, "dead_letter")
    <3>1. dead[m] = Unclaimed(row, "dead_letter")
      BY <1>1
    <3> HIDE DEF dead
    <3>2. kept[m] = dead[m]
      BY <1>2, DroppedOrSame
    <3>3. QED
      BY <3>1, <3>2
  <2>6. messages'[m] = [kept[m] EXCEPT !.forwardedToMessageId = NextId]
        /\ \A x \in Msg : x \notin {m, NextId} => messages'[x] = kept[x]
    <3> HIDE DEF kept, copy
    <3>1. QED
      BY <2>1, <2>2, <2>4
  <2>7. messages'[m].status # "absent"
    BY <1>1, <2>5, <2>6 DEF MessageRow
  <2>8. ASSUME NEW x \in Present, messages'[x].status = "absent" PROVE job[x] = job[m]
    <3>1. x \in Msg /\ messages[x].status # "absent" /\ x # m /\ x # NextId
      BY <2>1, <2>7, <2>8, NextIdFacts DEF Present
    <3>2. x = row.forwardedToMessageId \/ Mentions(messages[x], m)
      <4>1. messages'[x] = kept[x] /\ dead[x] = messages[x]
        BY <1>2, <2>6, <3>1
      <4> HIDE DEF kept, dead
      <4>2. QED
        BY <2>4, <2>8, <3>1, <4>1
    <3>3. row.forwardedToMessageId = NoMsg /\ NoMsg \notin Msg
      BY DEF ForwardLinks, NoMsg, Msg
    <3>4. QED
      BY <3>1, <3>2, <3>3, MentionsOlder
  <2>9. lastId' # lastId => job'[lastId'] = job'[m]
    BY <2>1, <2>3
  <2>10. QED
    BY <2>3, <2>7, <2>8, <2>9, OneJobTouched
<1>5. QED
  BY <1>3, <1>4

(* A message that is reset is not a pending copy of itself.                  *)
LEMMA ResetOwnJobs ==
  ASSUME DriverInv, ForwardLinks, Lineage, NEW m \in Present, ResetOwn(m),
         dropped' = dropped
  PROVE  JobsKept
<1> DEFINE ms == [messages EXCEPT ![m] = Reset(messages[m])]
<1> DEFINE fwd == messages[m].forwardedToMessageId
<1>1. messages' = DropPendingCopies(ms, m, fwd, Queue) /\ UNCHANGED <<lastId, job>>
  BY DEF ResetOwn
<1>2. messages \in [Msg -> MessageRow] /\ m \in Msg /\ messages[m].status # "absent"
      /\ messages[m] \in MessageRow
  BY DriverInvParts DEF RowsOK, Present
<1>3. /\ Reset(messages[m]).status = "queued"
      /\ \A y : Mentions(Reset(messages[m]), y) <=> Mentions(messages[m], y)
  <2>1. Reset(messages[m]).status = "queued"
        /\ Data(Reset(messages[m])) = Data(messages[m])
    BY <1>2, ResetFields
  <2>2. QED
    BY <2>1 DEF Data, Mentions
<1>4. \A x \in Msg : /\ ms[x] = IF x = m THEN Reset(messages[m]) ELSE messages[x]
                     /\ messages'[x] = ms[x] \/ x = fwd \/ Mentions(ms[x], m)
  BY <1>1, <1>2 DEF DropPendingCopies
<1>5. \A x \in Msg : Mentions(messages[x], m) => x # m /\ job[x] = job[m]
  BY <1>2, MentionsOlder DEF Msg
<1>6. \A x \in Present : x = fwd => Mentions(messages[x], m)
  BY <1>2 DEF ForwardLinks, Mentions, Present, Msg, NoMsg
<1> HIDE DEF ms, fwd
<1>7. messages'[m].status # "absent"
  <2>1. ~Mentions(messages[m], m)
    BY <1>2, <1>5
  <2>2. m # fwd
    BY <1>6, <2>1
  <2>3. messages'[m] = Reset(messages[m])
    BY <1>2, <1>3, <1>4, <2>1, <2>2
  <2>4. QED
    BY <1>3, <2>3
<1>8. ASSUME NEW x \in Present, messages'[x].status = "absent" PROVE job[x] = job[m]
  <2>1. x \in Msg /\ messages[x].status # "absent" /\ x # m
    BY <1>7, <1>8 DEF Present
  <2>2. Mentions(messages[x], m)
    BY <1>4, <1>6, <1>8, <2>1
  <2>3. QED
    BY <1>5, <2>1, <2>2
<1>9. QED
  BY <1>1, <1>2, <1>7, <1>8, OneJobTouched

(* A copy that goes leaves its original, or the message it is unwrapped to.  *)
LEMMA RestoreOriginalJobs ==
  ASSUME DriverInv, Lineage, NEW c \in Msg, IsCopy(c), NEW qs,
         RestoreOriginal(c, qs), dropped' = dropped
  PROVE  JobsKept
<1> DEFINE orig == OriginalOf(c)
<1> DEFINE top == Head(messages[c].payload)
<1> DEFINE rest == Tail(messages[c].payload)
<1>1. messages \in [Msg -> MessageRow] /\ orig \in Msg /\ orig < c /\ job[orig] = job[c]
      /\ c \in Present
  BY DriverInvParts, RowFacts, OriginalIsOutermost DEF RowsOK
<1>2. \A x \in Msg : Mentions(messages[x], orig) => x # orig /\ job[x] = job[c]
  BY <1>1, MentionsOlder DEF Msg
<1>3. CASE orig \in Present
  <2> DEFINE ms == [messages EXCEPT ![orig] = Reset(messages[orig]), ![c] = NoRow]
  <2>1. messages' = DropPendingCopies(ms, orig, NoMsg, qs) /\ UNCHANGED <<lastId, job>>
    BY <1>3 DEF RestoreOriginal
  <2>2. \A x \in Msg :
          /\ ms[x] = IF x = c THEN NoRow
                     ELSE IF x = orig THEN Reset(messages[orig]) ELSE messages[x]
          /\ messages'[x] = ms[x] \/ Mentions(ms[x], orig)
    <3>1. \A x \in Msg : messages'[x] = ms[x] \/ Mentions(ms[x], orig)
      BY <2>1 DEF DropPendingCopies, Msg, NoMsg
    <3>2. QED
      BY <1>1, <3>1
  <2>3. /\ Reset(messages[orig]).status = "queued"
        /\ ~Mentions(Reset(messages[orig]), orig)
    <3>1. messages[orig] \in MessageRow
      BY <1>1
    <3>2. Reset(messages[orig]).status = "queued"
          /\ Data(Reset(messages[orig])) = Data(messages[orig])
      BY <3>1, ResetFields
    <3>3. ~Mentions(messages[orig], orig)
      BY <1>1, <1>2
    <3> HIDE DEF orig
    <3>4. QED
      BY <3>2, <3>3 DEF Data, Mentions
  <2>4. orig # c
    BY <1>1 DEF Msg
  <2> HIDE DEF ms, orig
  <2>5. messages'[orig].status # "absent"
    BY <1>1, <2>2, <2>3, <2>4
  <2>6. ASSUME NEW x \in Present, messages'[x].status = "absent" PROVE job[x] = job'[orig]
    BY <1>1, <1>2, <2>1, <2>2, <2>5, <2>6 DEF Present
  <2>7. QED
    BY <1>1, <2>1, <2>5, <2>6, OneJobTouched
<1>4. CASE orig \notin Present
  <2> DEFINE new == NewRow(top.from, messages[c].groupKey, rest, 0,
                           DefaultAttempts(top.from), NoDedup, NoMsg)
  <2> DEFINE ms == [messages EXCEPT ![NextId] = new, ![c] = NoRow]
  <2>1. /\ messages' = DropPendingCopies(ms, orig, NoMsg, qs) /\ HasRoom(1)
        /\ lastId' = NextId /\ job' = [job EXCEPT ![NextId] = job[c]]
    BY <1>4 DEF RestoreOriginal
  <2>2. /\ NextId \in Msg /\ c # NextId /\ job'[NextId] = job[c]
        /\ \A x \in 1 .. lastId : job'[x] = job[x]
        /\ \A x \in Present : x # NextId
    BY <1>1, <2>1, NextIdFacts DEF Present
  <2>3. /\ new.status = "queued" /\ new.payload = rest /\ new.originalMessageId = NoMsg
    <3> HIDE DEF rest
    <3>1. QED
      BY NewRowFields
  <2>4. ~Mentions(new, orig)
    <3>1. \A i \in DOMAIN rest : rest[i].of # orig
      <4> SUFFICES ASSUME NEW i \in DOMAIN rest PROVE rest[i].of # orig
        OBVIOUS
      <4>1. /\ i + 1 \in DOMAIN messages[c].payload
            /\ rest[i] = messages[c].payload[i + 1]
            /\ messages[c].payload[i + 1].of < orig
        BY RestIsOlder
      <4>2. messages[c].payload[i + 1].of \in Msg
        <5>1. messages[c].payload \in Seq(Envelope)
          BY OriginalIsOutermost
        <5>2. messages[c].payload[i + 1] \in Envelope
          BY <4>1, <5>1
        <5>3. QED
          BY <5>2 DEF Envelope
      <4> HIDE DEF rest, orig
      <4>3. QED
        BY <1>1, <4>1, <4>2 DEF Msg
    <3>2. orig # NoMsg
      BY <1>1 DEF Msg, NoMsg
    <3> HIDE DEF new, rest, orig
    <3>3. QED
      BY <2>3, <3>1, <3>2 DEF Mentions
  <2> HIDE DEF new, orig
  <2>5. \A x \in Msg :
          /\ ms[x] = IF x = c THEN NoRow ELSE IF x = NextId THEN new ELSE messages[x]
          /\ messages'[x] = ms[x] \/ Mentions(ms[x], orig)
    <3>1. \A x \in Msg : messages'[x] = ms[x] \/ Mentions(ms[x], orig)
      BY <2>1 DEF DropPendingCopies, Msg, NoMsg
    <3>2. QED
      BY <1>1, <2>2, <3>1
  <2> HIDE DEF ms
  <2>6. messages'[NextId].status # "absent"
    BY <2>2, <2>3, <2>4, <2>5
  <2>7. ASSUME NEW x \in Present, messages'[x].status = "absent"
        PROVE  job[x] = job'[NextId]
    BY <1>2, <2>2, <2>5, <2>7 DEF Present
  <2>8. QED
    BY <2>1, <2>2, <2>6, <2>7, OneJobTouched
<1>5. QED
  BY <1>3, <1>4

(* An existing row replaced by one that exists.                              *)
LEMMA RowReplacedJobs ==
  ASSUME DriverInv, NEW m \in Msg, NEW row, row.status # "absent",
         messages' = [messages EXCEPT ![m] = row],
         UNCHANGED <<lastId, job, dropped>>
  PROVE  JobsKept
<1>1. messages \in [Msg -> MessageRow]
  BY DriverInvParts DEF RowsOK
<1>2. \A x \in Msg : messages[x].status # "absent" => messages'[x].status # "absent"
  BY <1>1
<1>3. QED
  BY <1>2, NoRowGone

(* Every operation on a queue.                                               *)
LEMMA QueueStepJobs ==
  ASSUME DriverInv, NEW q \in Queue, QueueStep(q) PROVE JobsKept
<1>1. CASE \/ \E dto \in QueueDto[q] : UpsertQueue(q, dto)
           \/ \E limit \in Limit : BeginRetryDeadLetters(q, limit)
           \/ \E qs \in {{q}, Queue}, mode \in {"expired", "deadWorkers", "forceAll"} :
                BeginReclaim(qs, mode)
  <2>1. UNCHANGED <<messages, lastId, job, dropped>>
    BY <1>1 DEF UpsertQueue, BeginRetryDeadLetters, BeginReclaim, table, history
  <2>2. QED
    BY <2>1, NoRowGone
<1>2. CASE \E S : Remove(S) /\ UNCHANGED lastId
  BY <1>2, DeletionsRecorded DEF Remove
<1>3. CASE DeleteQueue(q)
  BY <1>2, <1>3 DEF DeleteQueue, Remove
<1>4. CASE \E g \in Group, delay \in Delay \cup {0}, max \in MaxAttemptsOf(q),
              dedup \in Dedup \cup {NoDedup} : Send(q, g, delay, max, dedup)
  BY <1>4, SendJobs
<1>5. CASE \E who \in Claimant, timeout \in Timeout, limit \in Limit :
              Claim(q, who, timeout, limit)
  <2>0. PICK who \in Claimant, timeout \in Timeout, limit \in Limit :
          Claim(q, who, timeout, limit)
    BY <1>5
  <2>1. PICK S \in SUBSET Candidates(q) :
          messages' = [m \in Msg |->
            IF m \in S
            THEN [messages[m] EXCEPT !.status = "processing",
                                     !.claimedBy = who,
                                     !.leaseExpiresAt = clock + timeout,
                                     !.claimToken = issued[m] + 1,
                                     !.attempts = @ + 1]
            ELSE messages[m]]
    BY <2>0 DEF Claim
  <2>2. UNCHANGED <<lastId, job, dropped>>
    BY <1>5 DEF Claim
  <2>3. ASSUME NEW x \in Msg, messages[x].status # "absent"
        PROVE  messages'[x].status # "absent"
    <3>1. messages[x] \in MessageRow
      BY RowFacts
    <3>2. QED
      BY <2>1, <2>3, <3>1 DEF MessageRow
  <2>4. QED
    BY <2>2, <2>3, NoRowGone
<1>6. CASE \E qs \in {{q}, Queue} : Cleanup(qs)
  BY <1>2, <1>6 DEF Cleanup, Remove
<1>7. CASE Purge(q)
  BY <1>2, <1>7 DEF Purge, Remove
<1>8. CASE \E status \in {"queued", "completed", "dead_letter", "processing"} :
              PurgeStatus(q, status)
  BY <1>2, <1>8 DEF PurgeStatus, Remove
<1>9. QED
  BY <1>1, <1>3, <1>4, <1>5, <1>6, <1>7, <1>8, Zenon DEF QueueStep

(* Every operation on a message.                                             *)
LEMMA MessageStepJobs ==
  ASSUME DriverInv, ForwardLinks, Lineage, NEW m \in Msg, MessageStep(m)
  PROVE  JobsKept
<1>0. TxOK /\ messages[m] \in MessageRow
  BY DriverInvParts, RowFacts
<1>1. CASE \E t : Requeue(m, t) /\ dropped' = dropped
  <2>1. PICK t : Requeue(m, t) /\ dropped' = dropped
    BY <1>1
  <2>2. Requeued(messages[m], t).status = "queued"
    BY <1>0 DEF Requeued, Unclaimed, MessageRow
  <2>3. QED
    BY <2>1, <2>2, RowReplacedJobs DEF Requeue
<1>2. CASE DeadLetter(m) /\ dropped' = dropped
           /\ messages[m].status \in {"queued", "processing"}
  BY <1>2, DeadLetterJobs
<1>3. CASE \E extension \in Timeout, token \in TokensOf(m) : Touch(m, extension, token)
  <2>1. PICK extension \in Timeout, token \in TokensOf(m) : Touch(m, extension, token)
    BY <1>3
  <2>2. [messages[m] EXCEPT !.leaseExpiresAt = clock + extension].status = "processing"
    BY <1>0, <2>1 DEF Touch, Processing, MessageRow
  <2>3. messages' = [messages EXCEPT ![m] =
                       [messages[m] EXCEPT !.leaseExpiresAt = clock + extension]]
        /\ UNCHANGED <<lastId, job, dropped>>
    BY <2>1 DEF Touch, history
  <2>4. QED
    BY <2>2, <2>3, RowReplacedJobs
<1>4. CASE \E token \in TokensOf(m) : Complete(m, token)
  <2>1. Unclaimed(messages[m], "completed").status = "completed"
    BY <1>0, UnclaimedFields
  <2>2. QED
    BY <1>4, <2>1, RowReplacedJobs DEF Complete
<1>5. CASE \E backoff \in Delay \cup {QueueDefault}, token \in TokensOf(m) :
              Fail(m, backoff, token)
  BY <1>1, <1>2, <1>5 DEF Fail, Processing
<1>6. CASE \E delay \in Delay : Defer(m, delay)
  <2>1. PICK delay \in Delay : Defer(m, delay)
    BY <1>6
  <2>2. Deferred(messages[m], clock + delay).status = "queued"
    BY <1>0 DEF Deferred, Requeued, Unclaimed, MessageRow
  <2>3. QED
    BY <2>1, <2>2, RowReplacedJobs DEF Defer, history
<1>7. CASE ForceDeadLetter(m)
  BY <1>0, <1>2, <1>7 DEF ForceDeadLetter, Skippable, MessageRow
<1>8. CASE Cancel(m)
  BY <1>8, DeletionsRecorded DEF Cancel
<1>9. CASE RetryMessage(m)
  BY <1>9, ResetOwnJobs, RestoreOriginalJobs DEF RetryMessage
<1>10. CASE RetryDeadStep(m)
  BY <1>0, <1>10, ResetOwnJobs DEF RetryDeadStep, TxOK, Present
<1>11. CASE RetryCopiesStep(m)
  BY <1>0, <1>11, RestoreOriginalJobs DEF RetryCopiesStep, TxOK
<1>12. CASE ReclaimStep(m)
  BY <1>0, <1>1, <1>2, <1>12 DEF ReclaimStep, TxOK, Processing
<1>13. QED
  BY <1>3, <1>4, <1>5, <1>6, <1>7, <1>8, <1>9, <1>10, <1>11, <1>12 DEF MessageStep

(* No step loses a job but by an operator's deletion.                        *)
LEMMA JobsSurvive ==
  ASSUME DriverInv, ForwardLinks, Lineage, [Next]_vars PROVE JobsKept
<1>1. CASE \E q \in Queue : QueueStep(q)
  BY <1>1, QueueStepJobs
<1>2. CASE \E m \in Msg : MessageStep(m)
  BY <1>2, MessageStepJobs
<1>3. CASE BeginRetryCopies \/ Tick \/ UNCHANGED vars
  <2>1. UNCHANGED <<messages, lastId, job, dropped>>
    BY <1>3 DEF BeginRetryCopies, Tick, vars, table, history
  <2>2. QED
    BY <2>1, NoRowGone
<1>4. QED
  BY <1>1, <1>2, <1>3 DEF Next

(* So every job ever accepted is still somewhere.                            *)
LEMMA NoJobLostKept ==
  ASSUME DriverInv, NoJobLost, JobsKept, lastId' \in {lastId, NextId} PROVE NoJobLost'
<1> SUFFICES ASSUME NEW m \in 1 .. lastId' PROVE job'[m] \in dropped' \cup JobsOf(messages)'
  BY DEF NoJobLost, JobsOf, Present
<1>1. lastId \in Nat /\ NextId = lastId + 1
  BY DriverInvParts DEF RestOK, NextId
<1>2. CASE m \in 1 .. lastId
  <2>1. job'[m] = job[m]
    BY <1>2 DEF JobsKept
  <2>2. CASE job[m] \in dropped
    BY <2>1, <2>2 DEF JobsKept
  <2>3. CASE \E x \in Present : job[x] = job[m]
    BY <2>1, <2>3 DEF JobsKept
  <2>4. QED
    BY <1>2, <2>2, <2>3 DEF NoJobLost
<1>3. CASE m \notin 1 .. lastId
  <2>1. lastId' = lastId + 1 /\ m = lastId'
    BY <1>1, <1>3
  <2>2. QED
    BY <1>1, <2>1 DEF JobsKept
<1>4. QED
  BY <1>2, <1>3

-----------------------------------------------------------------------------
(* The concurrency cap.                                                      *)

(* Only a claim gives out a token.                                           *)
LEMMA OnlyClaimsIssue ==
  ASSUME [Next]_vars, issued' # issued
  PROVE  \E q \in Queue, who \in Claimant, timeout \in Timeout, limit \in Limit :
           Claim(q, who, timeout, limit)
<1>1. CASE \E q \in Queue : QueueStep(q)
  BY <1>1 DEF QueueStep, UpsertQueue, DeleteQueue, Send, BeginRetryDeadLetters,
              BeginReclaim, Cleanup, Purge, PurgeStatus, Remove
<1>2. CASE \E m \in Msg : MessageStep(m)
  BY <1>2 DEF MessageStep, Touch, Complete, Fail, Defer, ForceDeadLetter, Cancel,
              RetryMessage, RetryDeadStep, RetryCopiesStep, ReclaimStep
<1>3. CASE BeginRetryCopies \/ Tick \/ UNCHANGED vars
  BY <1>3 DEF BeginRetryCopies, Tick, vars
<1>4. QED
  BY <1>1, <1>2, <1>3 DEF Next

(* The rows a claim makes live fit in the slots that were free.              *)
LEMMA ClaimFitsCap ==
  ASSUME DriverInv, NEW q0 \in Queue, NEW who, NEW timeout, NEW limit,
         Claim(q0, who, timeout, limit), NEW q \in Queue, Capped(q),
         Active(q)' \ Active(q) # {}
  PROVE  Cardinality(Active(q)') <= queues[q].concurrency
<1>1. PICK S \in SUBSET Candidates(q0) :
        /\ MayClaim(q0, limit, S)
        /\ messages' = [m \in Msg |->
             IF m \in S
             THEN [messages[m] EXCEPT !.status = "processing",
                                      !.claimedBy = who,
                                      !.leaseExpiresAt = clock + timeout,
                                      !.claimToken = issued[m] + 1,
                                      !.attempts = @ + 1]
             ELSE messages[m]]
  BY DEF Claim
<1>2. clock' = clock
  BY DEF Claim
<1>3. S \subseteq Msg /\ \A m \in S : messages[m].queue = q0
  BY <1>1 DEF Candidates, GroupHeads, Claimable
<1>4. \A m \in Msg : /\ m \notin S => messages'[m] = messages[m]
                     /\ messages'[m].queue = messages[m].queue
  <2> SUFFICES ASSUME NEW m \in Msg
               PROVE  /\ m \notin S => messages'[m] = messages[m]
                      /\ messages'[m].queue = messages[m].queue
    OBVIOUS
  <2>1. messages[m] \in MessageRow
    BY RowFacts
  <2>2. QED
    BY <1>1, <2>1 DEF MessageRow
<1>5. Active(q)' \subseteq Active(q) \cup S
  BY <1>2, <1>4 DEF Active, Live, Processing
<1>6. q = q0
  <2>1. PICK m \in Active(q)' : m \notin Active(q)
    OBVIOUS
  <2>2. m \in S /\ m \in Msg /\ messages'[m].queue = q
    BY <1>5, <2>1 DEF Active
  <2>3. QED
    BY <1>3, <1>4, <2>2
<1>7. Cardinality(S) <= queues[q].concurrency - Cardinality(Active(q))
  BY <1>1, <1>6 DEF MayClaim, FreeSlots
<1>8. IsFiniteSet(S) /\ IsFiniteSet(Active(q)) /\ Cardinality(S) \in Nat
      /\ Cardinality(Active(q)) \in Nat
  <2>1. Active(q) \subseteq Msg
    BY DEF Active
  <2>2. QED
    BY <1>3, <2>1, MsgFinite, FS_Subset
<1>9. /\ IsFiniteSet(Active(q) \cup S)
      /\ Cardinality(Active(q) \cup S) <= Cardinality(Active(q)) + Cardinality(S)
  <2>1. Cardinality(Active(q) \cap S) \in Nat
    <3>1. IsFiniteSet(Active(q) \cap S)
      BY <1>8, FS_Intersection
    <3>2. QED
      BY <3>1, FS_CardinalityType
  <2>2. /\ IsFiniteSet(Active(q) \cup S)
        /\ Cardinality(Active(q) \cup S)
             = Cardinality(Active(q)) + Cardinality(S) - Cardinality(Active(q) \cap S)
    BY <1>8, FS_Union
  <2>3. QED
    BY <1>8, <2>1, <2>2
<1>10. Cardinality(Active(q)') \in Nat
       /\ Cardinality(Active(q)') <= Cardinality(Active(q) \cup S)
  BY <1>5, <1>9, FS_Subset, FS_CardinalityType
<1>11. queues[q].concurrency \in Nat
  BY DriverInvParts DEF RestOK, QueueRow
<1>12. Cardinality(Active(q) \cup S) \in Nat
  BY <1>9, FS_CardinalityType
<1>13. QED
  BY <1>7, <1>8, <1>9, <1>10, <1>11, <1>12

-----------------------------------------------------------------------------
(* The whole.                                                                *)

(* At the start there is no message.                                         *)
LEMMA TableInvInit == Init => TableInv
<1> SUFFICES ASSUME Init PROVE TableInv
  OBVIOUS
<1>1. DriverInv
  BY DriverInvInit
<1>2. \A m \in Msg : messages[m] = NoRow
  BY DEF Init
<1>3. /\ NoRow.status = "absent" /\ NoRow.payload = <<>> /\ NoRow.maxAttempts = 0
      /\ NoRow.originalMessageId = NoMsg /\ NoRow.forwardedToMessageId = NoMsg
  BY DEF NoRow
<1>4. lastId = 0 /\ revived = {} /\ NoMsg = 0
  BY DEF Init, NoMsg
<1>5. AttemptsWithinLimit /\ RevivedOK /\ LinksOK /\ ForwardLinks
  BY <1>2, <1>3, <1>4 DEF AttemptsWithinLimit, RevivedOK, LinksOK, ForwardLinks
<1>6. Lineage
  BY <1>2, <1>3 DEF Lineage, LineageOK
<1>7. NoJobLost
  BY <1>4 DEF NoJobLost
<1>8. StrictGroupsOverlapOnlyByRetry /\ DuplicatesOnlyByRetry
  BY <1>2, <1>3 DEF StrictGroupsOverlapOnlyByRetry, DuplicatesOnlyByRetry, Processing,
                    Present
<1>9. QED
  BY <1>1, <1>5, <1>6, <1>7, <1>8 DEF TableInv

(* The inductive step.                                                       *)
LEMMA TableInvStep == TableInv /\ [Next]_vars => TableInv'
<1> SUFFICES ASSUME TableInv, [Next]_vars PROVE TableInv'
  OBVIOUS
<1>1. /\ DriverInv /\ AttemptsWithinLimit /\ RevivedOK /\ LinksOK /\ ForwardLinks
      /\ Lineage /\ NoJobLost
      /\ StrictGroupsOverlapOnlyByRetry /\ DuplicatesOnlyByRetry
  BY DEF TableInv
<1>2. DriverInv'
  BY <1>1, DriverInvStep
<1>3. \A x \in Msg : RowChange(x)
  BY <1>1, RowChanges
<1>4. lastId' \in {lastId, NextId}
  BY LastIdGrows
<1>5. JobsKept
  BY <1>1, JobsSurvive
<1>6. AttemptsWithinLimit' /\ RevivedOK'
  BY <1>1, <1>2, <1>3, AttemptsKept, RevivedKept
<1>7. LinksOK' /\ ForwardLinks'
  BY <1>1, <1>2, <1>3, <1>4, LinksKept
<1>8. Lineage'
  BY <1>1, <1>2, <1>3, <1>5, LineageKept DEF JobsKept
<1>9. NoJobLost'
  BY <1>1, <1>4, <1>5, NoJobLostKept
<1>10. StrictGroupsOverlapOnlyByRetry' /\ DuplicatesOnlyByRetry'
  BY <1>1, <1>2, <1>3, StrictOrderKept, DuplicatesKept
<1>11. QED
  BY <1>2, <1>6, <1>7, <1>8, <1>9, <1>10 DEF TableInv

(* The invariant of the table and its history holds throughout.              *)
THEOREM TableInvariant == Spec => []TableInv
  BY TableInvInit, TableInvStep, PTL DEF Spec

(* fail, defer, reclaimOrphaned and the retries agree on who counts what: a  *)
(* message that waits has an attempt left, and one that runs was not claimed *)
(* more often than its limit allows.                                         *)
THEOREM AttemptsStayWithinLimit == Spec => []AttemptsWithinLimit
<1>1. TableInv => AttemptsWithinLimit
  BY DEF TableInv
<1>2. QED
  BY <1>1, TableInvariant, PTL

(* The link of a dead letter leads to its copy in another queue or to a row  *)
(* that is gone, whatever retries, purges and cancellations did meanwhile.   *)
THEOREM LinksLeadToCopies == Spec => []ForwardLinks
<1>1. TableInv => ForwardLinks
  BY DEF TableInv
<1>2. QED
  BY <1>1, TableInvariant, PTL

(* Dead-lettering, the deletion of pending copies and the retries that       *)
(* unwrap a copy never lose the last row of a job.                           *)
THEOREM JobsAreNeverLost == Spec => []NoJobLost
<1>1. TableInv => NoJobLost
  BY DEF TableInv
<1>2. QED
  BY <1>1, TableInvariant, PTL

(* Two messages of a strict group are processed at once only when a retry    *)
(* brought the older one back.                                               *)
THEOREM StrictOrderUnlessRetried == Spec => []StrictGroupsOverlapOnlyByRetry
<1>1. TableInv => StrictGroupsOverlapOnlyByRetry
  BY DEF TableInv
<1>2. QED
  BY <1>1, TableInvariant, PTL

(* Two active messages share a deduplication id only when a retry brought    *)
(* the older one back.                                                       *)
THEOREM UniqueUnlessRetried == Spec => []DuplicatesOnlyByRetry
<1>1. TableInv => DuplicatesOnlyByRetry
  BY DEF TableInv
<1>2. QED
  BY <1>1, TableInvariant, PTL

(* A completed message is deleted or brought back by a retry, and runs again *)
(* in no other way.                                                          *)
THEOREM CompletedIsFinal == Spec => CompletedStaysDone
<1> DEFINE A == \A m \in Msg :
                  messages[m].status = "completed" =>
                    \/ messages'[m].status \in {"completed", "absent"}
                    \/ m \in revived' \ revived
<1>1. TableInv /\ [Next]_vars => A
  <2> SUFFICES ASSUME TableInv, [Next]_vars, NEW m \in Msg,
                      messages[m].status = "completed"
               PROVE  \/ messages'[m].status \in {"completed", "absent"}
                      \/ m \in revived' \ revived
    OBVIOUS
  <2>1. RowChange(m) /\ NoRow.status = "absent"
    BY RowChanges DEF TableInv, NoRow
  <2>2. m \notin revived
    BY DEF TableInv, RevivedOK
  <2>3. ~Inserted(m)
    <3>1. m <= lastId
      BY RowFacts DEF TableInv
    <3>2. lastId \in Nat
      BY DEF TableInv, DriverInv, TypeOK
    <3>3. QED
      BY <3>1, <3>2 DEF Inserted, NextId, Msg
  <2>4. QED
    BY <2>1, <2>2, <2>3 DEF RowChange, Kept, Taken, GivenBack, Done, Died, Restored
<1>2. TableInv /\ [Next]_vars => [A]_vars
  BY <1>1
<1>3. CompletedStaysDone <=> [][A]_vars
  BY DEF CompletedStaysDone
<1> HIDE DEF A
<1>4. QED
  BY <1>2, <1>3, TableInvariant, PTL DEF Spec

(* No claim makes more messages live than the queue's concurrency allows.    *)
THEOREM ClaimsRespectCap == Spec => ClaimWithinCap
<1> DEFINE A == \A q \in Queue :
                  issued' # issued /\ Capped(q) /\ Active(q)' \ Active(q) # {} =>
                    Cardinality(Active(q)') <= queues[q].concurrency
<1>1. DriverInv /\ [Next]_vars => [A]_vars
  BY OnlyClaimsIssue, ClaimFitsCap
<1>2. ClaimWithinCap <=> [][A]_vars
  BY DEF ClaimWithinCap
<1> HIDE DEF A
<1>3. QED
  BY <1>1, <1>2, DriverInvariant, PTL DEF Spec

=============================================================================
