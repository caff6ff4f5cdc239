-------------------------- MODULE FlowServiceProofs --------------------------
(***************************************************************************)
(* Proofs about the executions of a flow, for any executions, definitions,   *)
(* limits and bounds: one engine works on an execution and its row says how  *)
(* far it is, the steps of an execution are a path of the flow, a queued     *)
(* execution has its message, no claim outlives the call that holds it, an   *)
(* abort is final; and, under the conditions stated there, nobody waits in   *)
(* vain and the limit of the flow is respected.                              *)
(***************************************************************************)
EXTENDS FlowService, Functions, FiniteSetTheorems, TLAPS

-----------------------------------------------------------------------------
(* The steps of an execution.                                                *)

Starts == {d.start : d \in Definitions}

\* A step at s may follow the step of the entry l.
Follows(l, s) ==
  \/ s = l.next
  \/ ~l.ok /\ s = l.step
  \/ /\ l.ok /\ l.next = End
     /\ \E d \in Definitions : l.step \in DOMAIN d.next /\ s \in d.next[l.step]

Continues(log, s) == IF log = <<>> THEN s \in Starts ELSE Follows(Last(log), s)

Path(log) == /\ log # <<>> => log[1].step \in Starts
             /\ \A i \in 1 .. Len(log) - 1 : Follows(log[i], log[i + 1].step)

Reached(log) == log # <<>> /\ Last(log).ok /\ Last(log).next = End

(* A log that goes on where it may is a path.                                *)
LEMMA PathGoesOn ==
  ASSUME NEW log \in Seq(LogEntries), NEW l \in LogEntries, Path(log), Continues(log, l.step)
  PROVE  /\ Append(log, l) \in Seq(LogEntries) /\ Append(log, l) # <<>>
         /\ Last(Append(log, l)) = l
         /\ Path(Append(log, l))
<1> DEFINE new == Append(log, l)
<1>1. /\ new \in Seq(LogEntries) /\ new # <<>> /\ Len(new) = Len(log) + 1
      /\ \A i \in 1 .. Len(log) : new[i] = log[i]
      /\ new[Len(new)] = l /\ Len(log) \in Nat
  OBVIOUS
<1> HIDE DEF new
<1>2. Last(new) = l
  BY <1>1 DEF Last
<1>3. CASE log = <<>>
  <2>1. Len(log) = 0 /\ Len(new) = 1 /\ l.step \in Starts
    BY <1>1, <1>3 DEF Continues
  <2>2. 1 .. Len(new) - 1 = {}
    BY <2>1
  <2> QED BY <1>1, <1>2, <2>1, <2>2 DEF Path, new
<1>4. CASE log # <<>>
  <2>1. Len(log) \in 1 .. Len(log)
    BY <1>1, <1>4
  <2>2. new[1].step \in Starts
    BY <1>1, <1>4, <2>1 DEF Path
  <2>3. ASSUME NEW i \in 1 .. Len(new) - 1
        PROVE  Follows(new[i], new[i + 1].step)
    <3>1. CASE i = Len(log)
      <4>1. new[i] = log[i] /\ new[i + 1] = l /\ Follows(log[i], l.step)
        BY <1>1, <1>4, <2>1, <3>1 DEF Continues, Last
      <4> QED BY <4>1
    <3>2. CASE i # Len(log)
      <4>1. i \in 1 .. Len(log) - 1 /\ i \in 1 .. Len(log) /\ i + 1 \in 1 .. Len(log)
        BY <1>1, <3>2
      <4>2. new[i] = log[i] /\ new[i + 1] = log[i + 1]
        BY <1>1, <4>1
      <4>3. Follows(log[i], log[i + 1].step)
        BY <4>1 DEF Path
      <4> QED BY <4>2, <4>3
    <3> QED BY <3>1, <3>2
  <2> QED BY <1>1, <1>2, <2>2, <2>3 DEF Path, new
<1> QED BY <1>3, <1>4

(* The states of a definition are neither of the two marks.                    *)
LEMMA StatesAreNoMarks ==
  /\ End \notin States /\ NoState \notin States /\ End # NoState
  /\ \A d \in Definitions : /\ d.start \in DOMAIN d.next /\ DOMAIN d.caught = DOMAIN d.next
                            /\ DOMAIN d.next \subseteq States
                            /\ \A s \in DOMAIN d.next : /\ d.next[s] \subseteq DOMAIN d.next \cup {End}
                                                     /\ d.caught[s] \subseteq DOMAIN d.next
BY DefinitionsAssumption DEF States, End, NoState

-----------------------------------------------------------------------------
(* The invariant, execution by execution.                                     *)

RowOK(x) ==
  /\ x \in RowType
  /\ x.status = "none" => x = NoRow
  /\ x.status = "queued" => x.token = NoToken /\ x.job # NoJob
  /\ Path(x.log)
  /\ x.status = "succeeded" => Reached(x.log)
  /\ x.status \in {"queued", "running", "failed"} /\ x.at # NoState => Continues(x.log, x.at)

RunnerOK(r) ==
  /\ r \in RunnerType /\ r.at \in DOMAIN r.def.next
  /\ Path(r.log) /\ Continues(r.log, r.at)

\* The runner r and the row x of its execution.
Attached(r, x) ==
  IF r.aborted THEN x.status \in {"aborted", "none"}
  ELSE x # NoRow => /\ x.status = "running" /\ x.token = r.token
                    /\ x.at \in {r.at, NoState} /\ x.log = r.log

\* The row x of an execution with the runners R; whether it is claimed, whether its
\* writes are suppressed, whether the process is up.
Fits(x, R, claimed, suppress, live) ==
  /\ \A r, q \in R : r = q
  /\ \A r \in R : Attached(r, x)
  /\ R # {} => claimed
  /\ claimed => R # {} \/ x.status \in {"aborted", "succeeded", "none"}
  /\ claimed => live
  /\ suppress => x = NoRow
  /\ live /\ x.status \in {"queued", "running"} /\ x.token # NoToken => \E r \in R : r.token = x.token

Of(e) == {r \in runners : r.exec = e}

ExecutionsOK ==
  /\ row \in [Executions -> RowType] /\ \A e \in Executions : RowOK(row[e])
  /\ runners \subseteq RunnerType /\ \A r \in runners : RunnerOK(r)
  /\ claims \subseteq Executions /\ suppressed \subseteq Executions /\ up \in BOOLEAN
  /\ \A e \in Executions : Fits(row[e], Of(e), e \in claims, e \in suppressed, up)

\* A queued execution the recovery does not have to look at has its message.
MessagesOK ==
  up => \A e \in Executions :
    row[e].status = "queued" /\ (~recovery.on \/ e \in recovery.active) =>
      queue # NoQueue /\ jobs[<<e, row[e].job>>] = "queued"

\* The rest of the types.
ContextOK ==
  /\ flow \in [exists : BOOLEAN, enabled : BOOLEAN, limit : Limits, def : Definitions]
  /\ queue \in Limits \cup {NoQueue, DrainConcurrency}
  /\ jobs \in [JobIds -> {"none", "queued", "processing", "done"}]
  /\ crashes \in 0 .. MaxCrashes /\ uses \in [Executions -> 0 .. MaxUses]
  /\ waiters \subseteq Executions
  /\ recovery \in [on : BOOLEAN, todo : SUBSET (Executions \X (Numbers \cup {NoJob})),
                    active : SUBSET Executions, waits : Executions \cup {NoExecution}]
  /\ recovery.on => up

IInv == ExecutionsOK /\ MessagesOK /\ ContextOK

(* The parts of the invariant say what the properties do.                      *)
LEMMA WhatTheInvariantSays ==
  ASSUME IInv
  PROVE  /\ robbed \subseteq Executions => TypeOK
         /\ RunnerOwnsRow /\ LogIsAPath /\ QueuedHasMessage /\ ClaimsAreHeld
<1>1. robbed \subseteq Executions => TypeOK
  BY DEF IInv, ExecutionsOK, ContextOK, TypeOK
<1>2. RunnerOwnsRow
  <2>1. ASSUME NEW r \in runners PROVE r.exec \in Executions /\ r \in Of(r.exec)
    BY DEF IInv, ExecutionsOK, RunnerType, Of
  <2>2. ASSUME NEW r \in runners, NEW q \in runners, r.exec = q.exec PROVE r = q
    <3>1. r \in Of(r.exec) /\ q \in Of(r.exec) /\ r.exec \in Executions
      BY <2>1, <2>2
    <3> QED BY <3>1 DEF IInv, ExecutionsOK, Fits
  <2>3. ASSUME NEW r \in runners
        PROVE  /\ r.exec \in claims
               /\ ~r.aborted /\ row[r.exec] # NoRow =>
                    /\ row[r.exec].status = "running" /\ row[r.exec].token = r.token
                    /\ row[r.exec].at \in {r.at, NoState} /\ row[r.exec].log = r.log
    BY <2>1 DEF IInv, ExecutionsOK, Fits, Attached
  <2> QED BY <2>2, <2>3 DEF RunnerOwnsRow
<1>3. LogIsAPath
  <2>1. ASSUME NEW e \in Executions PROVE RowOK(row[e])
    BY DEF IInv, ExecutionsOK
  <2> QED BY <2>1 DEF LogIsAPath, RowOK, Path, Follows, Starts, Reached
<1>4. QueuedHasMessage
  BY DEF IInv, ExecutionsOK, RowOK, MessagesOK, QueuedHasMessage
<1>5. ClaimsAreHeld
  <2>1. ASSUME NEW e \in Executions
        PROVE  /\ RowOK(row[e]) /\ Fits(row[e], Of(e), e \in claims, e \in suppressed, up)
               /\ \A r \in Of(e) : r \in runners /\ r.exec = e
    BY DEF IInv, ExecutionsOK, Of
  <2> QED BY <2>1 DEF ClaimsAreHeld, Pending, Fits
<1> QED BY <1>1, <1>2, <1>3, <1>4, <1>5

-----------------------------------------------------------------------------
(* How a step changes one execution, or all of them.                          *)

(* A step about one execution leaves the others as they fit.                   *)
LEMMA OneExecution ==
  ASSUME ExecutionsOK, NEW e \in Executions, NEW x,
         row' = [row EXCEPT ![e] = x], RowOK(x), up' = up,
         \A r \in runners' : RunnerOK(r),
         \A r \in runners \cup runners' : r.exec # e => (r \in runners <=> r \in runners'),
         claims' \subseteq Executions, \A d \in Executions \ {e} : d \in claims' <=> d \in claims,
         suppressed' \subseteq Executions,
         \A d \in Executions \ {e} : d \in suppressed' <=> d \in suppressed,
         Fits(x, Of(e)', e \in claims', e \in suppressed', up)
  PROVE  ExecutionsOK'
<1>1. row' \in [Executions -> RowType] /\ \A d \in Executions : row'[d] = IF d = e THEN x ELSE row[d]
  BY DEF ExecutionsOK, RowOK
<1>2. \A d \in Executions : RowOK(row'[d])
  BY <1>1 DEF ExecutionsOK
<1>3. runners' \subseteq RunnerType
  BY DEF RunnerOK
<1>4. ASSUME NEW d \in Executions
      PROVE  Fits(row'[d], Of(d)', d \in claims', d \in suppressed', up')
  <2>1. CASE d = e
    BY <1>1, <2>1
  <2>2. CASE d # e
    <3>1. Of(d)' = Of(d)
      BY <2>2 DEF Of
    <3>2. Fits(row[d], Of(d), d \in claims, d \in suppressed, up) /\ row'[d] = row[d]
      BY <1>1, <2>2 DEF ExecutionsOK
    <3>3. (d \in claims' <=> d \in claims) /\ (d \in suppressed' <=> d \in suppressed)
      BY <2>2
    <3> QED BY <3>1, <3>2, <3>3 DEF Fits
  <2> QED BY <2>1, <2>2
<1> QED BY <1>1, <1>2, <1>3, <1>4 DEF ExecutionsOK

Aborted(x) ==
  IF x.status \in {"queued", "running"}
  THEN [x EXCEPT !.status = "aborted", !.at = NoState, !.token = NoToken] ELSE x

Cleared(x) == IF x.status \in {"queued", "running"} THEN [x EXCEPT !.token = NoToken] ELSE x

(* Rows an abort or a recovery rewrites.                                        *)
LEMMA RewrittenRows ==
  \A x \in RowType : RowOK(x) => /\ RowOK(Aborted(x)) /\ RowOK(Cleared(x))
                                 /\ Aborted(x).log = x.log /\ Cleared(x).log = x.log
                                 /\ Cleared(x).status = x.status /\ Cleared(x).job = x.job
                                 /\ Aborted(x).status = IF x.status \in {"queued", "running"}
                                                       THEN "aborted" ELSE x.status
<1> SUFFICES ASSUME NEW x \in RowType, RowOK(x)
             PROVE  /\ RowOK(Aborted(x)) /\ RowOK(Cleared(x))
                    /\ Aborted(x).log = x.log /\ Cleared(x).log = x.log
                    /\ Cleared(x).status = x.status /\ Cleared(x).job = x.job
                    /\ Aborted(x).status = IF x.status \in {"queued", "running"}
                                          THEN "aborted" ELSE x.status
  OBVIOUS
<1>1. CASE x.status \in {"queued", "running"}
  <2> DEFINE a == [x EXCEPT !.status = "aborted", !.at = NoState, !.token = NoToken]
             c == [x EXCEPT !.token = NoToken]
  <2>1. /\ a \in RowType /\ a.status = "aborted" /\ a.log = x.log
        /\ c \in RowType /\ c.status = x.status /\ c.log = x.log /\ c.token = NoToken
        /\ c.job = x.job /\ c.at = x.at
    BY DEF RowType, Statuses
  <2>2. Aborted(x) = a /\ Cleared(x) = c
    BY <1>1 DEF Aborted, Cleared
  <2> HIDE DEF a, c
  <2>3. RowOK(a)
    BY <2>1 DEF RowOK
  <2>4. RowOK(c)
    BY <1>1, <2>1 DEF RowOK
  <2> QED BY <1>1, <2>1, <2>2, <2>3, <2>4
<1>2. CASE x.status \notin {"queued", "running"}
  BY <1>2 DEF Aborted, Cleared
<1> QED BY <1>1, <1>2

(* The engine of an aborted execution is told to stop.                          *)
LEMMA AbortsFit ==
  ASSUME NEW x \in RowType, NEW R \in SUBSET RunnerType,
         \A r, q \in R : r = q, \A r \in R : Attached(r, x)
  PROVE  LET told == {[r EXCEPT !.aborted = TRUE] : r \in R} IN
         /\ R = {} <=> told = {}
         /\ \A r, q \in told : r = q
         /\ \A r \in told : Attached(r, Aborted(x))
         /\ Aborted(x).status \notin {"queued", "running"}
         /\ x.status \in {"queued", "running"} => Aborted(x).status = "aborted"
         /\ x.status \notin {"queued", "running"} => Aborted(x) = x
         /\ x = NoRow => Aborted(x) = x
<1> DEFINE told == {[r EXCEPT !.aborted = TRUE] : r \in R}
<1>1. \A r \in told : \E q \in R : r = [q EXCEPT !.aborted = TRUE] /\ r.aborted = TRUE
  BY DEF RunnerType
<1>2. (R = {} <=> told = {}) /\ \A r, q \in told : r = q
  OBVIOUS
<1>3. /\ Aborted(x).status \notin {"queued", "running"}
      /\ x.status \in {"queued", "running"} => Aborted(x).status = "aborted"
      /\ x.status \notin {"queued", "running"} => Aborted(x) = x
  BY DEF Aborted, RowType
<1>4. NoRow.status = "none"
  BY DEF NoRow
<1>5. R # {} => Aborted(x).status \in {"aborted", "none"}
  BY <1>3, <1>4 DEF Attached
<1> HIDE DEF told
<1>6. \A r \in told : Attached(r, Aborted(x))
  BY <1>1, <1>2, <1>5 DEF Attached
<1>7. x = NoRow => Aborted(x) = x
  BY <1>3, <1>4
<1> QED BY <1>2, <1>3, <1>6, <1>7 DEF told

(* The rows of a set of executions after an abort, and their runners.            *)
LEMMA AbortedAndTold ==
  ASSUME ExecutionsOK, NEW S \in SUBSET Executions
  PROVE  /\ AbortedRows(S) = [e \in Executions |-> IF e \in S THEN Aborted(row[e]) ELSE row[e]]
         /\ \A r \in Signalled(S) : RunnerOK(r)
         /\ \A e \in Executions \ S : {r \in Signalled(S) : r.exec = e} = Of(e)
         /\ \A e \in S : {r \in Signalled(S) : r.exec = e} = {[r EXCEPT !.aborted = TRUE] : r \in Of(e)}
<1>1. AbortedRows(S) = [e \in Executions |-> IF e \in S THEN Aborted(row[e]) ELSE row[e]]
  BY DEF AbortedRows, Aborted, Pending
<1> DEFINE told(r) == [r EXCEPT !.aborted = @ \/ r.exec \in S]
<1>2. ASSUME NEW r \in runners
      PROVE  /\ RunnerOK(told(r)) /\ told(r).exec = r.exec
             /\ r.exec \in S => told(r) = [r EXCEPT !.aborted = TRUE]
             /\ r.exec \notin S => told(r) = r
  <2>1. RunnerOK(r) /\ r \in RunnerType
    BY DEF ExecutionsOK
  <2>2. /\ told(r) \in RunnerType /\ told(r).at = r.at /\ told(r).def = r.def
        /\ told(r).log = r.log /\ told(r).exec = r.exec
        /\ r.exec \in S => told(r) = [r EXCEPT !.aborted = TRUE]
        /\ r.exec \notin S => told(r) = r
    BY <2>1 DEF RunnerType
  <2> HIDE DEF told
  <2> QED BY <2>1, <2>2 DEF RunnerOK
<1>3. Signalled(S) = {told(r) : r \in runners}
  BY DEF Signalled
<1> HIDE DEF told
<1>4. \A r \in Signalled(S) : RunnerOK(r)
  BY <1>2, <1>3
<1>5. \A e \in Executions \ S : {r \in Signalled(S) : r.exec = e} = Of(e)
  BY <1>2, <1>3 DEF Of
<1>6. ASSUME NEW e \in S
      PROVE  {r \in Signalled(S) : r.exec = e} = {[r EXCEPT !.aborted = TRUE] : r \in Of(e)}
  <2>1. ASSUME NEW q \in Signalled(S), q.exec = e
        PROVE  q \in {[r EXCEPT !.aborted = TRUE] : r \in Of(e)}
    <3>1. PICK r \in runners : q = told(r)
      BY <1>3
    <3>2. r.exec = e /\ q = [r EXCEPT !.aborted = TRUE]
      BY <1>2, <2>1, <3>1
    <3> QED BY <3>2 DEF Of
  <2>2. ASSUME NEW r \in Of(e)
        PROVE  [r EXCEPT !.aborted = TRUE] \in {q \in Signalled(S) : q.exec = e}
    <3>1. r \in runners /\ r.exec = e
      BY DEF Of
    <3>2. told(r) = [r EXCEPT !.aborted = TRUE] /\ told(r).exec = e /\ told(r) \in Signalled(S)
      BY <1>2, <1>3, <3>1
    <3> QED BY <3>2
  <2> QED BY <2>1, <2>2
<1> QED BY <1>1, <1>4, <1>5, <1>6

(* An abort of any number of executions.                                         *)
LEMMA Aborting ==
  ASSUME ExecutionsOK, NEW S \in SUBSET Executions,
         row' = AbortedRows(S), runners' = Signalled(S), UNCHANGED <<suppressed, up>>,
         claims \subseteq claims', claims' \subseteq Executions,
         \A e \in claims' \ claims : e \in S /\ Pending(e) /\ up
  PROVE  ExecutionsOK'
<1>1. row' = [e \in Executions |-> IF e \in S THEN Aborted(row[e]) ELSE row[e]]
  BY AbortedAndTold
<1>2. \A e \in Executions : RowOK(row'[e]) /\ row'[e] \in RowType
  BY <1>1, RewrittenRows DEF ExecutionsOK, RowOK
<1>3. \A r \in runners' : RunnerOK(r) /\ r \in RunnerType
  BY AbortedAndTold DEF RunnerOK
<1>4. ASSUME NEW e \in Executions
      PROVE  Fits(row'[e], Of(e)', e \in claims', e \in suppressed', up')
  <2>0. /\ Fits(row[e], Of(e), e \in claims, e \in suppressed, up) /\ row[e] \in RowType
        /\ Of(e) \in SUBSET RunnerType /\ up \in BOOLEAN
    BY DEF ExecutionsOK, Of
  <2>1. CASE e \in S
    <3>1. /\ row'[e] = Aborted(row[e])
          /\ Of(e)' = {[r EXCEPT !.aborted = TRUE] : r \in Of(e)}
      BY <1>1, <2>1, AbortedAndTold DEF Of
    <3>2. /\ e \in claims => e \in claims'
          /\ e \in claims' => e \in claims \/ (up /\ row[e].status \in {"queued", "running"})
      BY DEF Pending
    <3>3. /\ Of(e) = {} <=> Of(e)' = {}
          /\ \A r, q \in Of(e)' : r = q
          /\ \A r \in Of(e)' : Attached(r, row'[e])
          /\ row'[e].status \notin {"queued", "running"}
          /\ row[e].status \in {"queued", "running"} => row'[e].status = "aborted"
          /\ row[e].status \notin {"queued", "running"} => row'[e] = row[e]
          /\ row[e] = NoRow => row'[e] = row[e]
      <4>1. (\A r, q \in Of(e) : r = q) /\ \A r \in Of(e) : Attached(r, row[e])
        BY <2>0 DEF Fits
      <4> QED BY <2>0, <3>1, <4>1, AbortsFit
    <3> QED BY <2>0, <3>2, <3>3 DEF Fits
  <2>2. CASE e \notin S
    <3>1. row'[e] = row[e] /\ Of(e)' = Of(e) /\ (e \in claims' <=> e \in claims)
      BY <1>1, <2>2, AbortedAndTold DEF Of
    <3> QED BY <2>0, <3>1 DEF Fits
  <2> QED BY <2>1, <2>2
<1> QED BY <1>1, <1>2, <1>3, <1>4 DEF ExecutionsOK

(* An execution that nobody claims has no runner.                                *)
LEMMA NoRunner ==
  ASSUME ExecutionsOK, NEW e \in Executions, e \notin claims
  PROVE  Of(e) = {} /\ \A r \in runners : r.exec # e
BY DEF ExecutionsOK, Fits, Of

(* Nothing to tell the runners: no execution of the set is claimed.               *)
LEMMA NobodyToTell ==
  ASSUME ExecutionsOK, NEW S \in SUBSET Executions, S \cap claims = {}
  PROVE  Signalled(S) = runners
<1>1. ASSUME NEW r \in runners PROVE [r EXCEPT !.aborted = @ \/ r.exec \in S] = r
  <2>1. r.exec \notin S /\ r \in RunnerType
    BY NoRunner DEF ExecutionsOK
  <2> QED BY <2>1 DEF RunnerType
<1> QED BY <1>1 DEF Signalled

(* A recovery aborts some executions that nobody claims and takes the tokens of    *)
(* the others.                                                                   *)
LEMMA Recovering ==
  ASSUME ExecutionsOK, NEW A \in SUBSET Executions, A \cap claims = {},
         row' = [e \in Executions |-> IF e \in A THEN Aborted(row[e]) ELSE Unclaimed[e]],
         UNCHANGED <<runners, claims, suppressed>>, up' = TRUE
  PROVE  ExecutionsOK'
<1>0. ASSUME NEW e \in Executions
      PROVE  Unclaimed[e] = IF e \notin claims THEN Cleared(row[e]) ELSE row[e]
  BY DEF Unclaimed, Cleared, Pending
<1>1. ASSUME NEW e \in Executions
      PROVE  /\ RowOK(row'[e]) /\ row'[e] \in RowType
             /\ Fits(row'[e], Of(e)', e \in claims', e \in suppressed', up')
  <2>0. /\ Fits(row[e], Of(e), e \in claims, e \in suppressed, up)
        /\ row[e] \in RowType /\ RowOK(row[e])
    BY DEF ExecutionsOK
  <2>1. Of(e)' = Of(e)
    BY DEF Of
  <2>2. CASE e \in claims
    <3>1. row'[e] = row[e] /\ up
      BY <1>0, <2>0, <2>2 DEF Fits
    <3> QED BY <2>0, <2>1, <2>2, <3>1 DEF Fits
  <2>3. CASE e \notin claims
    <3>1. Of(e) = {} /\ row'[e] \in {Aborted(row[e]), Cleared(row[e])}
      BY <1>0, <2>3, NoRunner
    <3>2. RowOK(row'[e]) /\ row'[e] \in RowType
      BY <2>0, <3>1, RewrittenRows DEF RowOK
    <3>3. row'[e].status \in {"queued", "running"} => row'[e].token = NoToken
      BY <2>0, <3>1 DEF Aborted, Cleared, RowType
    <3>4. e \in suppressed => row'[e] = NoRow
      <4>1. e \in suppressed => row[e] = NoRow /\ row[e].status = "none"
        BY <2>0 DEF Fits, NoRow
      <4> QED BY <3>1, <4>1 DEF Aborted, Cleared
    <3> QED BY <2>1, <2>3, <3>1, <3>2, <3>3, <3>4 DEF Fits
  <2> QED BY <2>2, <2>3
<1> QED BY <1>1 DEF ExecutionsOK

-----------------------------------------------------------------------------
(* Tokens, starts and ends.                                                    *)

(* A claim token that no row and no runner holds is always left.                 *)
LEMMA FreshToken ==
  ASSUME ExecutionsOK
  PROVE  Fresh \in Tokens /\ Fresh # NoToken
<1> DEFINE rowToken == [e \in Executions |-> row[e].token]
           held(e) == IF Of(e) = {} THEN NoToken ELSE (CHOOSE r \in Of(e) : TRUE).token
           runnerToken == [e \in Executions |-> held(e)]
<1>1. rowToken \in [Executions -> Tokens \cup {NoToken}]
  BY DEF ExecutionsOK, RowType
<1>2. ASSUME NEW e \in Executions PROVE held(e) \in Tokens \cup {NoToken}
  <2>1. CASE Of(e) = {}
    BY <2>1
  <2>2. CASE Of(e) # {}
    <3>1. (CHOOSE r \in Of(e) : TRUE) \in Of(e)
      BY <2>2
    <3> QED BY <2>2, <3>1 DEF Of, ExecutionsOK, RunnerType
  <2> QED BY <2>1, <2>2
<1>3. runnerToken \in [Executions -> Tokens \cup {NoToken}]
  BY <1>2
<1>4. PICK t \in Tokens : \A e \in Executions : t \notin {rowToken[e], runnerToken[e]}
  BY <1>1, <1>3, TokensAssumption
<1>5. \A e \in Executions : row[e].token # t
  BY <1>4
<1>6. ASSUME NEW r \in runners PROVE r.token # t
  <2>1. r.exec \in Executions /\ r \in Of(r.exec)
    BY DEF ExecutionsOK, RunnerType, Of
  <2>2. (CHOOSE q \in Of(r.exec) : TRUE) = r
    BY <2>1 DEF ExecutionsOK, Fits
  <2>3. runnerToken[r.exec] = r.token
    BY <2>1, <2>2
  <2> QED BY <1>4, <2>1, <2>3
<1>7. Fresh \in Tokens
  BY <1>5, <1>6 DEF Fresh
<1> QED BY <1>7, BoundsAssumption

(* An engine starts on an execution that nobody claims; its row says so, or is not   *)
(* written at all.                                                              *)
LEMMA Starting ==
  ASSUME ExecutionsOK, up, NEW e \in Executions, e \notin claims, NEW x, NEW r,
         RowOK(x), RunnerOK(r), r.exec = e, r.aborted = FALSE,
         x = NoRow \/ (/\ x.status = "running" /\ x.token = r.token
                       /\ x.at \in {r.at, NoState} /\ x.log = r.log /\ e \notin suppressed),
         row' = [row EXCEPT ![e] = x], runners' = runners \cup {r},
         claims' = claims \cup {e}, UNCHANGED <<suppressed, up>>
  PROVE  ExecutionsOK'
<1>1. Of(e)' = {r}
  BY NoRunner DEF Of
<1>2. NoRow.status = "none"
  BY DEF NoRow
<1>3. Attached(r, x)
  BY DEF Attached
<1>4. Fits(x, Of(e)', e \in claims', e \in suppressed', up)
  BY <1>1, <1>2, <1>3 DEF Fits
<1>5. /\ \A q \in runners' : RunnerOK(q)
      /\ \A q \in runners \cup runners' : q.exec # e => (q \in runners <=> q \in runners')
      /\ claims' \subseteq Executions /\ suppressed' \subseteq Executions
      /\ \A d \in Executions \ {e} : d \in claims' <=> d \in claims
  BY DEF ExecutionsOK
<1> QED BY <1>4, <1>5, OneExecution

(* A row changes of an execution that nobody claims and no engine takes.            *)
LEMMA Rewriting ==
  ASSUME ExecutionsOK, NEW e \in Executions, e \notin claims, NEW x, RowOK(x),
         e \in suppressed => x = NoRow,
         x.status \in {"queued", "running"} => x.token = NoToken,
         row' = [row EXCEPT ![e] = x], UNCHANGED <<runners, suppressed, up>>,
         \/ claims' = claims
         \/ claims' = claims \cup {e} /\ up /\ x.status \in {"aborted", "succeeded", "none"}
  PROVE  ExecutionsOK'
<1>1. Of(e)' = {}
  BY NoRunner DEF Of
<1>2. Fits(x, Of(e)', e \in claims', e \in suppressed', up)
  BY <1>1 DEF Fits
<1>3. /\ \A q \in runners' : RunnerOK(q)
      /\ \A q \in runners \cup runners' : q.exec # e => (q \in runners <=> q \in runners')
      /\ claims' \subseteq Executions /\ suppressed' \subseteq Executions
      /\ \A d \in Executions \ {e} : d \in claims' <=> d \in claims
  BY DEF ExecutionsOK
<1> QED BY <1>2, <1>3, OneExecution

(* Nothing happens to the executions.                                             *)
LEMMA Untouched ==
  ASSUME ExecutionsOK, UNCHANGED <<row, runners, claims, up>>, suppressed' \subseteq suppressed
  PROVE  ExecutionsOK'
<1>1. \A e \in Executions : Of(e)' = Of(e)
  BY DEF Of
<1>2. ASSUME NEW e \in Executions
      PROVE  Fits(row'[e], Of(e)', e \in claims', e \in suppressed', up')
  <2>1. Fits(row[e], Of(e), e \in claims, e \in suppressed, up) /\ Of(e)' = Of(e)
    BY <1>1 DEF ExecutionsOK
  <2> QED BY <2>1 DEF Fits
<1> QED BY <1>2 DEF ExecutionsOK

(* All rows are deleted, their engines told to stop and their writes suppressed.     *)
LEMMA Forgetting ==
  ASSUME ExecutionsOK, Forget, UNCHANGED <<claims, up>>
  PROVE  ExecutionsOK'
<1> DEFINE S == {e \in Executions : Pending(e)}
<1>1. RowOK(NoRow) /\ NoRow \in RowType /\ NoRow.status = "none"
  BY DEF NoRow, RowOK, RowType, Statuses, Path, NoState, NoToken, NoJob
<1>2. row' = [e \in Executions |-> NoRow] /\ runners' = Signalled(S) /\ suppressed' = suppressed \cup S
  BY DEF Forget
<1>3. S \in SUBSET Executions /\ \A e \in Executions : e \in S <=> row[e].status \in {"queued", "running"}
  BY DEF Pending
<1> HIDE DEF S
<1>4. \A r \in runners' : RunnerOK(r) /\ r \in RunnerType
  BY <1>2, <1>3, AbortedAndTold DEF RunnerOK
<1>5. ASSUME NEW e \in Executions
      PROVE  Fits(NoRow, Of(e)', e \in claims', e \in suppressed', up')
  <2>0. /\ Fits(row[e], Of(e), e \in claims, e \in suppressed, up) /\ row[e] \in RowType
        /\ Of(e) \in SUBSET RunnerType
    BY DEF ExecutionsOK, Of
  <2>1. (\A r, q \in Of(e) : r = q) /\ \A r \in Of(e) : Attached(r, row[e])
    BY <2>0 DEF Fits
  <2>2. CASE e \in S
    <3>1. Of(e)' = {[r EXCEPT !.aborted = TRUE] : r \in Of(e)}
      BY <1>2, <1>3, <2>2, AbortedAndTold DEF Of
    <3>2. \A r \in Of(e)' : r.aborted = TRUE
      BY <2>0, <3>1 DEF RunnerType
    <3>3. (\A r, q \in Of(e)' : r = q) /\ (Of(e) = {} <=> Of(e)' = {})
      BY <2>1, <3>1
    <3> QED BY <1>1, <2>0, <3>2, <3>3 DEF Fits, Attached
  <2>3. CASE e \notin S
    <3>1. Of(e)' = Of(e)
      BY <1>2, <1>3, <2>3, AbortedAndTold DEF Of
    <3> QED BY <1>1, <2>0, <3>1 DEF Fits, Attached
  <2> QED BY <2>2, <2>3
<1> QED BY <1>1, <1>2, <1>3, <1>4, <1>5 DEF ExecutionsOK

(* A crash leaves rows that could be resumed, and no memory.                         *)
LEMMA Crashing ==
  ASSUME NEW rows, rows \in [Executions -> RowType], \A e \in Executions : RowOK(rows[e]),
         row' = rows, up' = FALSE, runners' = {}, claims' = {}, suppressed' = {}
  PROVE  ExecutionsOK'
<1>1. \A e \in Executions : Of(e)' = {}
  BY DEF Of
<1>2. \A e \in Executions : Fits(row'[e], Of(e)', e \in claims', e \in suppressed', up')
  BY <1>1 DEF Fits
<1> QED BY <1>2 DEF ExecutionsOK

\* The end of r is written to its row.
Takes(r) == r.exec \notin suppressed /\ row[r.exec].status \notin {"aborted", "none"}

\* What an engine may report when its step at r.at is over.
Result(r, status, at, log) ==
  Takes(r) =>
    /\ status \in {"succeeded", "failed", "timeout", "cancelled"} /\ at \in States \cup {NoState}
    /\ \E l \in LogEntries :
         /\ l.step = r.at /\ log = Append(r.log, l)
         /\ status = "succeeded" => l.ok /\ l.next = End
         /\ status = "failed" /\ at # NoState => Follows(l, at)

(* A runner, the row of its execution, and when one writes the other.                *)
LEMMA RunnerAndRow ==
  ASSUME ExecutionsOK, NEW r \in runners
  PROVE  /\ r \in RunnerType /\ r.exec \in Executions /\ RunnerOK(r) /\ Of(r.exec) = {r}
         /\ r.exec \in claims /\ up
         /\ RowOK(row[r.exec]) /\ row[r.exec] \in RowType /\ Attached(r, row[r.exec])
         /\ r.exec \in suppressed => row[r.exec] = NoRow
         /\ row[r.exec].status # "queued"
         /\ Takes(r) => /\ Persists(r) /\ Refused(r) = "none" /\ ~r.aborted
                        /\ row[r.exec].log = r.log /\ row[r.exec].status = "running"
                        /\ row[r.exec].token = r.token /\ row[r.exec].at \in {r.at, NoState}
         /\ Persists(r) => Takes(r)
         /\ Refused(r) = "none" /\ ~r.aborted /\ ~Persists(r) => row[r.exec] = NoRow
<1>1. r \in RunnerType /\ r.exec \in Executions /\ RunnerOK(r) /\ r \in Of(r.exec)
  BY DEF ExecutionsOK, RunnerType, Of
<1>2. /\ Of(r.exec) = {r} /\ r.exec \in claims /\ up
      /\ RowOK(row[r.exec]) /\ row[r.exec] \in RowType /\ Attached(r, row[r.exec])
      /\ r.exec \in suppressed => row[r.exec] = NoRow
  BY <1>1 DEF ExecutionsOK, Fits
<1>3. NoRow.status = "none" /\ (row[r.exec].status = "none" => row[r.exec] = NoRow)
  BY <1>2 DEF NoRow, RowOK
<1>4. row[r.exec].status # "queued"
  BY <1>2, <1>3 DEF Attached
<1>5. Takes(r) => /\ Persists(r) /\ Refused(r) = "none" /\ ~r.aborted
                  /\ row[r.exec].log = r.log /\ row[r.exec].status = "running"
                  /\ row[r.exec].token = r.token /\ row[r.exec].at \in {r.at, NoState}
  BY <1>2, <1>3 DEF Takes, Attached, Persists, Refused
<1>6. Persists(r) => Takes(r)
  BY DEF Persists, Takes
<1>7. Refused(r) = "none" /\ ~r.aborted /\ ~Persists(r) => row[r.exec] = NoRow
  BY <1>2, <1>3 DEF Refused, Persists, Attached
<1> QED BY <1>1, <1>2, <1>4, <1>5, <1>6, <1>7

(* The row of an execution that ends.                                             *)
LEMMA SavedRow ==
  ASSUME ExecutionsOK, NEW r \in runners, NEW status, NEW at, NEW log, Result(r, status, at, log)
  PROVE  /\ RowOK(Saved(r, status, at, log)) /\ Saved(r, status, at, log) \in RowType
         /\ Saved(r, status, at, log).status \notin {"queued", "running"}
         /\ ~Takes(r) => Saved(r, status, at, log) = row[r.exec]
         /\ Takes(r) => Saved(r, status, at, log).status = status
<1>1. NoRow.status = "none"
  BY DEF NoRow
<1>2. CASE ~Takes(r)
  <2>1. Saved(r, status, at, log) = row[r.exec]
    BY <1>2 DEF Takes, Saved
  <2>2. row[r.exec].status \in {"aborted", "none"}
    BY <1>1, <1>2, RunnerAndRow DEF Takes
  <2> QED BY <1>2, <2>1, <2>2, RunnerAndRow
<1>3. CASE Takes(r)
  <2> DEFINE x == [status |-> status, at |-> at, log |-> log, token |-> NoToken, job |-> r.job]
  <2>1. Saved(r, status, at, log) = x
    BY <1>3 DEF Takes, Saved
  <2>2. PICK l \in LogEntries : /\ l.step = r.at /\ log = Append(r.log, l)
                                /\ status = "succeeded" => l.ok /\ l.next = End
                                /\ status = "failed" /\ at # NoState => Follows(l, at)
    BY <1>3 DEF Result
  <2>3. r.log \in Seq(LogEntries) /\ Path(r.log) /\ Continues(r.log, r.at) /\ r.job \in Numbers \cup {NoJob}
    BY RunnerAndRow DEF RunnerOK, RunnerType
  <2>4. log \in Seq(LogEntries) /\ log # <<>> /\ Last(log) = l /\ Path(log)
    BY <2>2, <2>3, PathGoesOn
  <2>5. status \in {"succeeded", "failed", "timeout", "cancelled"} /\ at \in States \cup {NoState}
    BY <1>3 DEF Result
  <2>6. x \in RowType
    BY <2>3, <2>4, <2>5 DEF RowType, Statuses
  <2>7. RowOK(x)
    BY <2>2, <2>4, <2>5, <2>6 DEF RowOK, Reached, Continues
  <2> QED BY <1>3, <2>1, <2>5, <2>6, <2>7
<1> QED BY <1>2, <1>3

(* An engine ends: the claim goes with it.                                         *)
LEMMA Finishing ==
  ASSUME ExecutionsOK, NEW r \in runners, NEW status, NEW at, NEW log, Result(r, status, at, log),
         Finish(r, status, at, log)
  PROVE  ExecutionsOK'
<1> DEFINE x == Saved(r, status, at, log)
<1>1. /\ row' = [row EXCEPT ![r.exec] = x] /\ runners' = runners \ {r}
      /\ claims' = claims \ {r.exec} /\ suppressed' = suppressed \ {r.exec} /\ up' = up
  BY DEF Finish
<1>2. RowOK(x) /\ x.status \notin {"queued", "running"}
  BY SavedRow
<1> HIDE DEF x
<1>3. Of(r.exec)' = {}
  BY <1>1, RunnerAndRow DEF Of
<1>4. Fits(x, Of(r.exec)', r.exec \in claims', r.exec \in suppressed', up)
  BY <1>1, <1>2, <1>3 DEF Fits
<1>5. /\ \A q \in runners' : RunnerOK(q)
      /\ \A q \in runners \cup runners' : q.exec # r.exec => (q \in runners <=> q \in runners')
      /\ claims' \subseteq Executions /\ suppressed' \subseteq Executions
      /\ \A d \in Executions \ {r.exec} : d \in claims' <=> d \in claims
      /\ \A d \in Executions \ {r.exec} : d \in suppressed' <=> d \in suppressed
  BY <1>1 DEF ExecutionsOK
<1> QED BY <1>1, <1>2, <1>4, <1>5, RunnerAndRow, OneExecution

(* A row with a checkpoint, and its engine.                                         *)
LEMMA Checkpointing ==
  ASSUME ExecutionsOK, NEW r \in runners, NEW next, NEW l \in LogEntries,
         next \in DOMAIN r.def.next, l.step = r.at, Follows(l, next),
         Refused(r) = "none", ~r.aborted,
         row' = IF Persists(r) THEN [row EXCEPT ![r.exec].at = next, ![r.exec].log = Append(r.log, l)]
                ELSE row,
         runners' = (runners \ {r}) \cup {[r EXCEPT !.at = next, !.log = Append(r.log, l)]},
         UNCHANGED <<claims, suppressed, up>>
  PROVE  ExecutionsOK'
<1> DEFINE log == Append(r.log, l)
           q == [r EXCEPT !.at = next, !.log = log]
           y == [row[r.exec] EXCEPT !.at = next, !.log = log]
           x == IF Persists(r) THEN y ELSE row[r.exec]
<1>1. r.log \in Seq(LogEntries) /\ Path(r.log) /\ Continues(r.log, r.at) /\ r.def \in Definitions
  BY RunnerAndRow DEF RunnerOK, RunnerType
<1>2. log \in Seq(LogEntries) /\ log # <<>> /\ Last(log) = l /\ Path(log)
  BY <1>1, PathGoesOn
<1>3. next \in States /\ Continues(log, next)
  BY <1>1, <1>2, StatesAreNoMarks DEF Continues
<1> HIDE DEF log
<1>4. /\ q \in RunnerType /\ q.exec = r.exec /\ q.at = next /\ q.log = log /\ q.def = r.def
      /\ q.token = r.token /\ q.aborted = r.aborted
  BY <1>2, <1>3, RunnerAndRow DEF RunnerType
<1>5. RunnerOK(q)
  BY <1>2, <1>3, <1>4 DEF RunnerOK
<1>6. y \in RowType /\ y.at = next /\ y.log = log /\ y.status = row[r.exec].status /\ y.token = row[r.exec].token
  BY <1>2, <1>3, RunnerAndRow DEF RowType
<1>7. Persists(r) => row[r.exec].status = "running" /\ row[r.exec].token = r.token
  BY RunnerAndRow
<1>8. RowOK(x)
  BY <1>2, <1>3, <1>6, <1>7, RunnerAndRow DEF RowOK
<1>9. Attached(q, x)
  BY <1>4, <1>6, <1>7, RunnerAndRow DEF Attached
<1>10. row' = [row EXCEPT ![r.exec] = x]
  <2>1. CASE Persists(r)
    <3>1. row' = [row EXCEPT ![r.exec].at = next, ![r.exec].log = log]
      BY <2>1 DEF log
    <3> QED BY <2>1, <3>1 DEF ExecutionsOK
  <2>2. CASE ~Persists(r)
    BY <2>2 DEF ExecutionsOK
  <2> QED BY <2>1, <2>2
<1>11. runners' = (runners \ {r}) \cup {q}
  BY DEF log
<1> HIDE DEF q, y
<1>12. Of(r.exec)' = {q}
  BY <1>4, <1>11, RunnerAndRow DEF Of
<1>13. r.exec \in suppressed => x = NoRow
  BY RunnerAndRow DEF Persists
<1>14. x.status \in {"queued", "running"} /\ x.token # NoToken => q.token = x.token
  BY <1>4, <1>6, <1>7, <1>9, RunnerAndRow DEF Attached, NoRow
<1> HIDE DEF x
<1>15. Fits(x, Of(r.exec)', r.exec \in claims', r.exec \in suppressed', up)
  BY <1>9, <1>12, <1>13, <1>14, RunnerAndRow DEF Fits
<1>16. /\ \A p \in runners' : RunnerOK(p)
       /\ \A p \in runners \cup runners' : p.exec # r.exec => (p \in runners <=> p \in runners')
       /\ claims' \subseteq Executions /\ suppressed' \subseteq Executions
  BY <1>4, <1>5, <1>11 DEF ExecutionsOK
<1> QED BY <1>8, <1>10, <1>15, <1>16, RunnerAndRow, OneExecution

-----------------------------------------------------------------------------
(* Every step keeps the executions in order.                                   *)

(* A row an execution may start from, and the rows it gets then.                    *)
LEMMA NewRows ==
  ASSUME ContextOK, NEW e \in Executions, NEW status \in {"queued", "failed", "running"},
         NEW t \in Tokens \cup {NoToken},
         NEW n \in Numbers \cup {NoJob}, status = "queued" => t = NoToken /\ n # NoJob
  PROVE  RowOK(New(e, status, t, n)) /\ New(e, status, t, n) \in RowType
<1> DEFINE x == New(e, status, t, n)
<1>1. flow.def \in Definitions /\ flow.def.start \in States /\ flow.def.start \in Starts
  BY StatesAreNoMarks DEF ContextOK, Starts
<1>2. /\ x.status = status /\ x.at = flow.def.start /\ x.log = <<>> /\ x.token = t /\ x.job = n
      /\ x = [status |-> status, at |-> flow.def.start, log |-> <<>>, token |-> t, job |-> n]
  BY DEF New
<1>3. x \in RowType
  <2>1. <<>> \in Seq(LogEntries)
    OBVIOUS
  <2> QED BY <1>1, <1>2, <2>1 DEF RowType, Statuses
<1> HIDE DEF x
<1>4. RowOK(x)
  BY <1>1, <1>2, <1>3 DEF RowOK, Path, Continues
<1> QED BY <1>3, <1>4 DEF x

(* Where an execution is resumed it goes on with its path.                            *)
LEMMA ResumesItsPath ==
  ASSUME NEW x \in RowType, RowOK(x), x.status \in {"queued", "running", "failed"},
         NEW d \in Definitions, NEW s \in Resumable(x, d)
  PROVE  /\ s = End => x.at = NoState /\ Reached(x.log)
         /\ s # End => /\ s \in DOMAIN d.next /\ s \in States /\ Continues(x.log, s)
                       /\ x.at \in {s, NoState}
<1> DEFINE l == Last(x.log)
<1>1. /\ End \notin States /\ End # NoState /\ NoState \notin States
      /\ d.start \in DOMAIN d.next /\ DOMAIN d.next \subseteq States /\ d.start \in Starts
  BY StatesAreNoMarks DEF Starts
<1>2. x.log # <<>> => l \in LogEntries
  BY DEF Last, RowType
<1>3. s \in DOMAIN d.next \cup {End} /\ (s # End => s \in DOMAIN d.next)
  BY DEF Resumable
<1>4. CASE x.at # NoState
  <2>1. s = x.at /\ x.at \in States
    BY <1>4 DEF Resumable, RowType
  <2> QED BY <1>1, <1>3, <1>4, <2>1 DEF RowOK
<1>5. CASE x.at = NoState /\ x.log = <<>>
  <2>1. s = d.start
    BY <1>5 DEF Resumable
  <2> QED BY <1>1, <1>3, <1>5, <2>1 DEF Continues
<1>6. CASE x.at = NoState /\ x.log # <<>> /\ ~l.ok
  <2>1. s = l.step
    BY <1>6 DEF Resumable
  <2> QED BY <1>1, <1>2, <1>3, <1>6, <2>1 DEF Continues, Follows, LogEntries
<1>7. CASE x.at = NoState /\ x.log # <<>> /\ l.ok /\ l.next # End
  <2>1. s = l.next
    BY <1>7 DEF Resumable
  <2> QED BY <1>1, <1>3, <1>7, <2>1 DEF Continues, Follows
<1>8. CASE x.at = NoState /\ x.log # <<>> /\ l.ok /\ l.next = End
  <2>1. l.step \in DOMAIN d.next /\ s \in d.next[l.step]
    BY <1>8 DEF Resumable
  <2> QED BY <1>1, <1>3, <1>8, <2>1 DEF Continues, Follows, Reached
<1> QED BY <1>4, <1>5, <1>6, <1>7, <1>8

(* The rows of an execution that goes on, waits again or had nothing left to do.        *)
LEMMA ResumedRows ==
  ASSUME NEW x \in RowType, RowOK(x), x.status \in {"queued", "running", "failed"}
  PROVE  /\ \A t \in Tokens : LET y == [x EXCEPT !.status = "running", !.token = t] IN
              /\ RowOK(y) /\ y \in RowType /\ y.status = "running" /\ y.token = t
              /\ y.at = x.at /\ y.log = x.log
         /\ x.token = NoToken => \A n \in Numbers :
              LET y == [x EXCEPT !.status = "queued", !.job = n] IN
              /\ RowOK(y) /\ y \in RowType /\ y.status = "queued" /\ y.token = NoToken
              /\ y.job = n
         /\ Reached(x.log) => /\ RowOK(Succeeded(x)) /\ Succeeded(x) \in RowType
                              /\ Succeeded(x).status = "succeeded"
<1>1. ASSUME NEW t \in Tokens
      PROVE  LET y == [x EXCEPT !.status = "running", !.token = t] IN
              /\ RowOK(y) /\ y \in RowType /\ y.status = "running" /\ y.token = t
              /\ y.at = x.at /\ y.log = x.log
  <2> DEFINE y == [x EXCEPT !.status = "running", !.token = t]
  <2>1. /\ y \in RowType /\ y.status = "running" /\ y.token = t
        /\ y.at = x.at /\ y.log = x.log
    BY DEF RowType, Statuses
  <2> HIDE DEF y
  <2>2. RowOK(y)
    BY <2>1 DEF RowOK
  <2> QED BY <2>1, <2>2 DEF y
<1>2. ASSUME NEW n \in Numbers, x.token = NoToken
      PROVE  LET y == [x EXCEPT !.status = "queued", !.job = n] IN
              /\ RowOK(y) /\ y \in RowType /\ y.status = "queued" /\ y.token = NoToken
              /\ y.job = n
  <2> DEFINE y == [x EXCEPT !.status = "queued", !.job = n]
  <2>1. /\ y \in RowType /\ y.status = "queued" /\ y.token = x.token /\ y.job = n
        /\ y.at = x.at /\ y.log = x.log
    BY DEF RowType, Statuses
  <2>2. n # NoJob
    BY BoundsAssumption DEF Numbers, NoJob
  <2> HIDE DEF y
  <2>3. RowOK(y)
    BY <1>2, <2>1, <2>2 DEF RowOK
  <2> QED BY <1>2, <2>1, <2>3 DEF y
<1>3. ASSUME Reached(x.log)
      PROVE  /\ RowOK(Succeeded(x)) /\ Succeeded(x) \in RowType
             /\ Succeeded(x).status = "succeeded"
  <2>1. /\ Succeeded(x) \in RowType /\ Succeeded(x).status = "succeeded"
        /\ Succeeded(x).log = x.log
    BY DEF RowType, Statuses, Succeeded
  <2>2. RowOK(Succeeded(x))
    BY <1>3, <2>1 DEF RowOK
  <2> QED BY <2>1, <2>2
<1> QED BY <1>1, <1>2, <1>3

(* Executions of clients.                                                       *)
LEMMA ExecutesWell ==
  ASSUME IInv, NEW e \in Executions, ExecuteQueued(e) \/ ExecuteDirectly(e)
  PROVE  ExecutionsOK'
<1>0. /\ ExecutionsOK /\ ContextOK /\ e \notin claims /\ row[e] = NoRow /\ up
      /\ RowOK(row[e]) /\ flow.def \in Definitions
  BY DEF IInv, ExecutionsOK, ContextOK, ExecuteQueued, ExecuteDirectly, MayExecute
<1>1. 1 \in Numbers /\ NoJob # 1
  BY BoundsAssumption DEF Numbers, NoJob
<1>2. row = [row EXCEPT ![e] = NoRow]
  BY <1>0 DEF ExecutionsOK
<1>3. CASE ExecuteQueued(e)
  <2> DEFINE new(status) == New(e, status, NoToken, 1)
  <2>1. PICK status \in {"queued", "failed"} : row' = Recorded(e, new(status))
    BY <1>3 DEF ExecuteQueued
  <2> DEFINE x == IF e \in suppressed THEN NoRow ELSE new(status)
  <2>2. RowOK(new(status)) /\ new(status).token = NoToken
    BY <1>0, <1>1, NewRows DEF New
  <2>3. row' = [row EXCEPT ![e] = x]
    BY <1>2, <2>1 DEF Recorded
  <2>4. RowOK(x) /\ x.token = NoToken
    BY <1>0, <2>2 DEF NoRow
  <2>5. UNCHANGED <<runners, suppressed, claims, up>>
    BY <1>3 DEF ExecuteQueued
  <2>6. e \in suppressed => x = NoRow
    OBVIOUS
  <2> HIDE DEF x, new
  <2> QED BY <1>0, <2>3, <2>4, <2>5, <2>6, Rewriting
<1>4. CASE ExecuteDirectly(e)
  <2> DEFINE new == New(e, "running", Fresh, NoJob)
             x == IF e \in suppressed THEN NoRow ELSE new
             r == Runner(e, Fresh, NoJob, FALSE, flow.def.start, <<>>)
  <2>1. Fresh \in Tokens
    BY <1>0, FreshToken
  <2>2. RowOK(new) /\ /\ new.status = "running" /\ new.token = Fresh
                      /\ new.at = flow.def.start /\ new.log = <<>>
    BY <1>0, <2>1, NewRows DEF New
  <2>3. /\ r \in RunnerType /\ r.exec = e /\ r.aborted = FALSE /\ r.token = Fresh
        /\ r.at = flow.def.start /\ r.log = <<>> /\ r.def = flow.def
    <3>1. flow.def.start \in States /\ <<>> \in Seq(LogEntries)
      BY <1>0, StatesAreNoMarks
    <3> QED BY <1>0, <2>1, <3>1 DEF Runner, RunnerType
  <2>4. row' = [row EXCEPT ![e] = x]
    BY <1>2, <1>4 DEF Recorded, ExecuteDirectly
  <2>5. runners' = runners \cup {r} /\ claims' = claims \cup {e} /\ UNCHANGED <<suppressed, up>>
    BY <1>4 DEF ExecuteDirectly
  <2> HIDE DEF r
  <2>6. RunnerOK(r)
    BY <1>0, <2>3, StatesAreNoMarks DEF RunnerOK, Path, Continues, Starts
  <2>7. RowOK(x)
    BY <1>0, <2>2
  <2>8. x = NoRow \/ (/\ x.status = "running" /\ x.token = r.token
                      /\ x.at \in {r.at, NoState} /\ x.log = r.log /\ e \notin suppressed)
    BY <2>2, <2>3
  <2> HIDE DEF x, new
  <2> QED BY <1>0, <2>3, <2>4, <2>5, <2>6, <2>7, <2>8, Starting
<1> QED BY <1>3, <1>4

(* What the queue hands to its worker.                                            *)
LEMMA WorksWell ==
  ASSUME IInv, NEW j \in JobIds, WorkerStep(j[1], j[2])
  PROVE  ExecutionsOK'
<1> DEFINE e == j[1]
           n == j[2]
<1>0. /\ ExecutionsOK /\ ContextOK /\ e \in Executions /\ n \in Numbers /\ flow.def \in Definitions
      /\ RowOK(row[e]) /\ row[e] \in RowType /\ row \in [Executions -> RowType] /\ up
  BY DEF IInv, JobIds, ContextOK, ExecutionsOK, WorkerStep, WorkerStarts, WorkerLoses,
         WorkerCompletes, WorkerRefuses, WorkerSkips, Take
<1> HIDE DEF e, n
<1>1. CASE WorkerStarts(e, n)
  <2>1. e \notin claims /\ row[e].status = "queued"
    BY <1>1 DEF WorkerStarts, Startable
  <2>2. PICK s \in Resumable(row[e], flow.def) \ {End} :
          runners' = runners \cup {Runner(e, Fresh, n, TRUE, s, row[e].log)}
    BY <1>1 DEF WorkerStarts
  <2> DEFINE x == [row[e] EXCEPT !.status = "running", !.token = Fresh]
             r == Runner(e, Fresh, n, TRUE, s, row[e].log)
  <2>3. Fresh \in Tokens
    BY <1>0, FreshToken
  <2>4. /\ RowOK(x) /\ x.status = "running" /\ x.token = Fresh
        /\ x.at = row[e].at /\ x.log = row[e].log
    <3>1. \A t \in Tokens : LET y == [row[e] EXCEPT !.status = "running", !.token = t] IN
              /\ RowOK(y) /\ y \in RowType /\ y.status = "running" /\ y.token = t
              /\ y.at = row[e].at /\ y.log = row[e].log
      BY <1>0, <2>1, ResumedRows
    <3> QED BY <2>3, <3>1
  <2>5. s \in DOMAIN flow.def.next /\ s \in States /\ Continues(row[e].log, s) /\ row[e].at \in {s, NoState}
    BY <1>0, <2>1, ResumesItsPath
  <2>6. /\ r \in RunnerType /\ r.exec = e /\ r.aborted = FALSE /\ r.token = Fresh
        /\ r.at = s /\ r.log = row[e].log /\ r.def = flow.def
    BY <1>0, <2>3, <2>5 DEF Runner, RunnerType, RowType
  <2>7. row' = [row EXCEPT ![e] = x]
    <3>1. row' = [row EXCEPT ![e].status = "running", ![e].token = Fresh]
      BY <1>1 DEF WorkerStarts
    <3> QED BY <1>0, <3>1
  <2>8. runners' = runners \cup {r} /\ claims' = claims \cup {e} /\ UNCHANGED <<suppressed, up>>
    BY <1>1, <2>2 DEF WorkerStarts
  <2>9. e \notin suppressed
    BY <1>0, <2>1 DEF ExecutionsOK, Fits, NoRow
  <2> HIDE DEF r, x
  <2>10. RunnerOK(r)
    BY <1>0, <2>5, <2>6 DEF RunnerOK, RowOK
  <2> QED BY <1>0, <2>1, <2>4, <2>5, <2>6, <2>7, <2>8, <2>9, <2>10, Starting
<1>2. CASE WorkerLoses(e, n)
  <2>1. /\ row' = AbortedRows({e}) /\ runners' = Signalled({e}) /\ claims' = claims \cup {e}
        /\ UNCHANGED <<suppressed, up>> /\ Pending(e)
    BY <1>2 DEF WorkerLoses, AbortAll, Startable, Pending
  <2>2. {e} \in SUBSET Executions /\ claims' \subseteq Executions
    BY <1>0, <2>1 DEF ExecutionsOK
  <2> QED BY <1>0, <2>1, <2>2, Aborting
<1>3. CASE WorkerCompletes(e, n)
  <2>1. /\ row' = [row EXCEPT ![e] = Succeeded(row[e])] /\ claims' = claims \cup {e}
        /\ UNCHANGED <<runners, suppressed, up>>
        /\ e \notin claims /\ row[e].status = "queued" /\ End \in Resumable(row[e], flow.def)
    BY <1>0, <1>3 DEF WorkerCompletes, Startable
  <2>2. Reached(row[e].log)
    BY <1>0, <2>1, ResumesItsPath
  <2>3. RowOK(Succeeded(row[e])) /\ Succeeded(row[e]).status = "succeeded"
    BY <1>0, <2>1, <2>2, ResumedRows
  <2>4. e \notin suppressed
    BY <1>0, <2>1 DEF ExecutionsOK, Fits, NoRow
  <2> QED BY <1>0, <2>1, <2>3, <2>4, Rewriting
<1>4. CASE WorkerRefuses(e, n)
  <2>1. row' = AbortedRows({e}) /\ runners' = Signalled({e}) /\ UNCHANGED <<claims, suppressed, up>>
    BY <1>4 DEF WorkerRefuses
  <2>2. {e} \in SUBSET Executions /\ claims' \subseteq Executions
    BY <1>0, <2>1 DEF ExecutionsOK
  <2> QED BY <1>0, <2>1, <2>2, Aborting
<1>5. CASE WorkerSkips(e, n)
  <2>1. UNCHANGED <<row, runners, claims, suppressed, up>>
    BY <1>5 DEF WorkerSkips, memory
  <2> QED BY <1>0, <2>1, Untouched
<1> QED BY <1>1, <1>2, <1>3, <1>4, <1>5 DEF WorkerStep, e, n

(* Every step of an engine reports what it may.                                   *)
LEMMA ReportsResult ==
  ASSUME ExecutionsOK, NEW r \in runners, NEW status, NEW at, NEW l \in LogEntries, l.step = r.at,
         Takes(r) => /\ status \in {"succeeded", "failed", "timeout", "cancelled"}
                     /\ at \in States \cup {NoState}
                     /\ status = "succeeded" => l.ok /\ l.next = End
                     /\ status = "failed" /\ at # NoState => Follows(l, at)
  PROVE  Result(r, status, at, Append(r.log, l))
BY DEF Result

(* The handler of a step is over, the flow goes on or is stopped.                   *)
LEMMA AdvancesWell ==
  ASSUME ExecutionsOK, NEW r \in runners, NEW next, NEW l \in LogEntries, NEW at,
         l.step = r.at, next \in DOMAIN r.def.next, Follows(l, next),
         Advance(r, next, Append(r.log, l), at)
  PROVE  ExecutionsOK'
<1> DEFINE log == Append(r.log, l)
<1>0. next \in States
  BY StatesAreNoMarks, RunnerAndRow DEF RunnerType
<1>1. CASE Refused(r) # "none" /\ Finish(r, Refused(r), at, log)
  <2>1. ~Takes(r)
    BY <1>1, RunnerAndRow
  <2>2. Result(r, Refused(r), at, log)
    BY <2>1, ReportsResult
  <2> QED BY <1>1, <2>2, Finishing
<1>2. CASE Refused(r) = "none" /\ r.aborted /\ Finish(r, "cancelled", next, log)
  <2>1. Result(r, "cancelled", next, log)
    BY <1>0, ReportsResult
  <2> QED BY <1>2, <2>1, Finishing
<1>3. CASE Finish(r, "timeout", next, log)
  <2>1. Result(r, "timeout", next, log)
    BY <1>0, ReportsResult
  <2> QED BY <1>3, <2>1, Finishing
<1>4. CASE /\ Refused(r) = "none" /\ ~r.aborted
           /\ row' = IF Persists(r) THEN [row EXCEPT ![r.exec].at = next, ![r.exec].log = log]
                     ELSE row
           /\ runners' = (runners \ {r}) \cup {[r EXCEPT !.at = next, !.log = log]}
           /\ UNCHANGED <<flow, queue, jobs, up, claims, waiters, suppressed, recovery, count>>
  BY <1>4, Checkpointing
<1> QED BY <1>1, <1>2, <1>3, <1>4 DEF Advance

(* Every step of an engine.                                                       *)
LEMMA RunsWell ==
  ASSUME ExecutionsOK, NEW r \in runners, RunnerStep(r)
  PROVE  ExecutionsOK'
<1>0. /\ r.at \in DOMAIN r.def.next /\ r.at \in States /\ r.def \in Definitions
      /\ r.def.next[r.at] \subseteq DOMAIN r.def.next \cup {End}
      /\ r.def.caught[r.at] \subseteq DOMAIN r.def.next /\ DOMAIN r.def.next \subseteq States
  BY RunnerAndRow, StatesAreNoMarks DEF RunnerOK, RunnerType
<1>1. ASSUME NEW ok \in BOOLEAN, NEW next \in States \cup {End, NoState}
      PROVE  /\ Log(r.at, ok, next) \in LogEntries /\ Log(r.at, ok, next).step = r.at
             /\ Log(r.at, ok, next).ok = ok /\ Log(r.at, ok, next).next = next
             /\ Follows(Log(r.at, ok, next), next)
             /\ ok = FALSE => Follows(Log(r.at, ok, next), r.at)
  BY <1>0 DEF Log, LogEntries, Follows
<1>2. ASSUME NEW next \in States, StepSucceeds(r, next) PROVE ExecutionsOK'
  <2>1. next \in DOMAIN r.def.next /\ Advance(r, next, Append(r.log, Log(r.at, TRUE, next)), r.at)
    BY <1>0, <1>2 DEF StepSucceeds
  <2>2. /\ Log(r.at, TRUE, next) \in LogEntries /\ Log(r.at, TRUE, next).step = r.at
        /\ Follows(Log(r.at, TRUE, next), next)
    BY <1>1
  <2> QED BY <2>1, <2>2, AdvancesWell
<1>3. ASSUME NEW next \in States, StepCaught(r, next) PROVE ExecutionsOK'
  <2>1. next \in DOMAIN r.def.next /\ Advance(r, next, Append(r.log, Log(r.at, FALSE, next)), next)
    BY <1>0, <1>3 DEF StepCaught
  <2>2. /\ Log(r.at, FALSE, next) \in LogEntries /\ Log(r.at, FALSE, next).step = r.at
        /\ Follows(Log(r.at, FALSE, next), next)
    BY <1>1
  <2> QED BY <2>1, <2>2, AdvancesWell
<1>4. CASE FlowSucceeds(r)
  <2> DEFINE l == Log(r.at, TRUE, End)
  <2>1. l \in LogEntries /\ l.step = r.at /\ l.ok = TRUE /\ l.next = End
    BY <1>1
  <2>2. PICK at \in {NoState, r.at}, status \in {"succeeded", Refused(r)} :
          /\ Finish(r, status, at, Append(r.log, l))
          /\ Takes(r) => status = "succeeded"
    BY <1>4, RunnerAndRow DEF FlowSucceeds
  <2> HIDE DEF l
  <2>3. Takes(r) => at = NoState \/ at \in States
    BY <1>0
  <2>4. Result(r, status, at, Append(r.log, l))
    <3>1. at \in States \cup {NoState}
      BY <1>0
    <3> QED BY <2>1, <2>2, <3>1, ReportsResult
  <2> QED BY <2>2, <2>4, Finishing
<1>5. ASSUME NEW status \in {"failed", "cancelled"}, StepFails(r, status) PROVE ExecutionsOK'
  <2> DEFINE l == Log(r.at, FALSE, NoState)
             s == IF Refused(r) = "none" THEN status ELSE Refused(r)
  <2>1. l \in LogEntries /\ l.step = r.at /\ Follows(l, r.at)
    BY <1>1
  <2>2. Finish(r, s, r.at, Append(r.log, l))
    BY <1>5 DEF StepFails
  <2>3. Takes(r) => s = status
    BY RunnerAndRow
  <2> HIDE DEF l, s
  <2>4. Result(r, s, r.at, Append(r.log, l))
    BY <1>0, <2>1, <2>3, ReportsResult
  <2> QED BY <2>2, <2>4, Finishing
<1>6. CASE DeadlinePasses(r)
  <2>1. CASE Finish(r, IF Refused(r) = "none" THEN "timeout" ELSE Refused(r), r.at,
                    Append(r.log, Log(r.at, FALSE, NoState)))
    <3> DEFINE l == Log(r.at, FALSE, NoState)
               s == IF Refused(r) = "none" THEN "timeout" ELSE Refused(r)
    <3>1. l \in LogEntries /\ l.step = r.at
      BY <1>1
    <3>2. Takes(r) => s = "timeout"
      BY RunnerAndRow
    <3>3. Finish(r, s, r.at, Append(r.log, l))
      BY <2>1
    <3> HIDE DEF l, s
    <3>4. Result(r, s, r.at, Append(r.log, l))
      BY <1>0, <3>1, <3>2, ReportsResult
    <3> QED BY <3>3, <3>4, Finishing
  <2>2. ASSUME NEW next \in r.def.next[r.at],
               Finish(r, "timeout", r.at, Append(r.log, Log(r.at, TRUE, next)))
        PROVE  ExecutionsOK'
    <3>1. Log(r.at, TRUE, next) \in LogEntries /\ Log(r.at, TRUE, next).step = r.at
      BY <1>0, <1>1
    <3>2. Result(r, "timeout", r.at, Append(r.log, Log(r.at, TRUE, next)))
      BY <1>0, <3>1, ReportsResult
    <3> QED BY <2>2, <3>2, Finishing
  <2> QED BY <1>6, <2>1, <2>2 DEF DeadlinePasses
<1>7. CASE PersistFails(r)
  <2>1. PICK ok \in BOOLEAN, next \in States \cup {End, NoState} :
          Finish(r, "failed", NoState, Append(r.log, Log(r.at, ok, next)))
    BY <1>0, <1>7 DEF PersistFails
  <2>2. Log(r.at, ok, next) \in LogEntries /\ Log(r.at, ok, next).step = r.at
    BY <1>1
  <2>3. Result(r, "failed", NoState, Append(r.log, Log(r.at, ok, next)))
    BY <2>2, ReportsResult
  <2> QED BY <2>1, <2>3, Finishing
<1> QED BY <1>2, <1>3, <1>4, <1>5, <1>6, <1>7 DEF RunnerStep

(* A resume, called by a client or by the recovery.                               *)
LEMMA ResumesWell ==
  ASSUME IInv, up, NEW e \in Executions, MayResume(e), NEW jobs0, NEW todo, NEW wait,
         Resumes(e, jobs0, todo, wait), UNCHANGED <<suppressed, up>>
  PROVE  ExecutionsOK'
<1>0. /\ ExecutionsOK /\ ContextOK /\ flow.def \in Definitions
      /\ RowOK(row[e]) /\ row[e] \in RowType /\ row \in [Executions -> RowType]
      /\ e \notin claims /\ row[e].token = NoToken /\ row[e].status \in {"running", "failed"}
  BY DEF IInv, ContextOK, ExecutionsOK, MayResume
<1>1. e \notin suppressed
  BY <1>0 DEF ExecutionsOK, Fits, NoRow
<1>2. CASE row' = AbortedRows({e}) /\ runners' = Signalled({e}) /\ UNCHANGED claims
  <2>1. {e} \in SUBSET Executions /\ claims' \subseteq Executions
    BY <1>0, <1>2 DEF ExecutionsOK
  <2> QED BY <1>0, <1>2, <2>1, Aborting
<1>3. CASE /\ End \in Resumable(row[e], flow.def)
           /\ row' = [row EXCEPT ![e] = Succeeded(@)] /\ UNCHANGED <<runners, claims>>
  <2>1. Reached(row[e].log)
    BY <1>0, <1>3, ResumesItsPath
  <2>2. RowOK(Succeeded(row[e])) /\ Succeeded(row[e]).status = "succeeded"
    BY <1>0, <2>1, ResumedRows
  <2>3. row' = [row EXCEPT ![e] = Succeeded(row[e])]
    BY <1>0, <1>3
  <2> QED BY <1>0, <1>1, <1>3, <2>2, <2>3, Rewriting
<1>4. ASSUME NEW n \in FreshJobs(e, todo), row' = [row EXCEPT ![e].status = "queued", ![e].job = n],
             UNCHANGED <<runners, claims>>
      PROVE  ExecutionsOK'
  <2> DEFINE x == [row[e] EXCEPT !.status = "queued", !.job = n]
  <2>1. n \in Numbers
    BY DEF FreshJobs
  <2>2. RowOK(x) /\ x.token = NoToken
    <3>1. \A m \in Numbers : LET y == [row[e] EXCEPT !.status = "queued", !.job = m] IN
              /\ RowOK(y) /\ y \in RowType /\ y.status = "queued" /\ y.token = NoToken
              /\ y.job = m
      <4>1. row[e].status \in {"queued", "running", "failed"}
        BY <1>0
      <4> QED BY <1>0, <4>1, ResumedRows
    <3> QED BY <2>1, <3>1
  <2>3. row' = [row EXCEPT ![e] = x]
    BY <1>0, <1>4
  <2> HIDE DEF x
  <2> QED BY <1>0, <1>1, <1>4, <2>2, <2>3, Rewriting
<1>5. ASSUME NEW s \in Resumable(row[e], flow.def), s # End,
             row' = [row EXCEPT ![e].status = "running", ![e].token = Fresh],
             runners' = runners \cup {Runner(e, Fresh, row[e].job, FALSE, s, row[e].log)},
             claims' = claims \cup {e}
      PROVE  ExecutionsOK'
  <2> DEFINE x == [row[e] EXCEPT !.status = "running", !.token = Fresh]
             r == Runner(e, Fresh, row[e].job, FALSE, s, row[e].log)
  <2>1. Fresh \in Tokens
    BY <1>0, FreshToken
  <2>2. /\ RowOK(x) /\ x.status = "running" /\ x.token = Fresh
        /\ x.at = row[e].at /\ x.log = row[e].log
    <3>1. \A t \in Tokens : LET y == [row[e] EXCEPT !.status = "running", !.token = t] IN
              /\ RowOK(y) /\ y \in RowType /\ y.status = "running" /\ y.token = t
              /\ y.at = row[e].at /\ y.log = row[e].log
      BY <1>0, ResumedRows
    <3> QED BY <2>1, <3>1
  <2>3. s \in DOMAIN flow.def.next /\ s \in States /\ Continues(row[e].log, s) /\ row[e].at \in {s, NoState}
    BY <1>0, <1>5, ResumesItsPath
  <2>4. /\ r \in RunnerType /\ r.exec = e /\ r.aborted = FALSE /\ r.token = Fresh
        /\ r.at = s /\ r.log = row[e].log /\ r.def = flow.def
    BY <1>0, <2>1, <2>3 DEF Runner, RunnerType, RowType
  <2>5. row' = [row EXCEPT ![e] = x]
    BY <1>0, <1>5
  <2>6. runners' = runners \cup {r}
    BY <1>5
  <2> HIDE DEF r, x
  <2>7. RunnerOK(r)
    BY <1>0, <2>3, <2>4 DEF RunnerOK, RowOK
  <2> QED BY <1>0, <1>1, <1>5, <2>2, <2>3, <2>4, <2>5, <2>6, <2>7, Starting
<1> QED BY <1>2, <1>3, <1>4, <1>5 DEF Resumes

(* The recovery, and the start of the process.                                    *)
LEMMA RecoversWell ==
  ASSUME IInv, Recover \/ Restart \/ RecoverStep
  PROVE  ExecutionsOK'
<1>0. /\ ExecutionsOK /\ ContextOK /\ row \in [Executions -> RowType]
      /\ \A e \in Executions : row[e] \in RowType
  BY DEF IInv, ExecutionsOK
<1>1. CASE Recover \/ Restart
  <2>1. UNCHANGED <<claims, suppressed>> /\ up' = TRUE
    BY <1>1 DEF Recover, Restart
  <2>2. CASE AbortOrphans
    <3> DEFINE A == Orphans \cup Lost(Stranded(claims))
    <3>1. /\ A \in SUBSET Executions /\ A \cap claims = {}
      BY DEF Orphans, Lost, Stranded
    <3>2. row' = [e \in Executions |-> IF e \in A THEN AbortedRows(A)[e] ELSE Unclaimed[e]]
      BY <2>2 DEF AbortOrphans
    <3>3. runners' = Signalled(A)
      BY <2>2 DEF AbortOrphans
    <3> HIDE DEF A
    <3>4. runners' = runners
      BY <1>0, <3>1, <3>3, NobodyToTell
    <3>5. \A e \in A : AbortedRows(A)[e] = Aborted(row[e])
      BY <1>0, <3>1, AbortedAndTold
    <3>6. row' = [e \in Executions |-> IF e \in A THEN Aborted(row[e]) ELSE Unclaimed[e]]
      BY <3>2, <3>5
    <3> QED BY <1>0, <2>1, <3>1, <3>4, <3>6, Recovering
  <2>3. CASE ResumeOrphans
    <3>1. row' = [e \in Executions |-> IF e \in {} THEN Aborted(row[e]) ELSE Unclaimed[e]]
      BY <2>3 DEF ResumeOrphans, Unclaimed
    <3>2. runners' = runners
      BY <2>3 DEF ResumeOrphans
    <3>3. {} \in SUBSET Executions /\ {} \cap claims = {}
      OBVIOUS
    <3> QED BY <1>0, <2>1, <3>1, <3>2, <3>3, Recovering
  <2> QED BY <1>1, <2>2, <2>3 DEF Recover, Restart
<1>2. ASSUME NEW t \in recovery.todo, RecoverOne(t[1], t[2]) PROVE ExecutionsOK'
  <2> DEFINE e == t[1]
  <2>1. e \in Executions /\ up /\ UNCHANGED <<suppressed, up>>
    BY <1>0, <1>2 DEF ContextOK, RecoverOne
  <2>2. CASE MayResume(e)
    BY <1>2, <2>1, <2>2, ResumesWell DEF RecoverOne
  <2>3. CASE ~MayResume(e)
    <3>1. UNCHANGED claims
      BY <1>2, <2>3 DEF RecoverOne
    <3>2. CASE UNCHANGED <<row, runners, waiters>>
      BY <1>0, <2>1, <3>1, <3>2, Untouched
    <3>3. CASE AbortAll({e})
      <4>1. {e} \in SUBSET Executions /\ claims' \subseteq Executions
        BY <1>0, <2>1, <3>1 DEF ExecutionsOK
      <4> QED BY <1>0, <2>1, <3>1, <3>3, <4>1, Aborting DEF AbortAll
    <3> QED BY <1>2, <2>3, <3>2, <3>3 DEF RecoverOne
  <2> QED BY <2>2, <2>3
<1>3. CASE RecoverQueued
  <2> DEFINE A == Lost(Stranded(recovery.active))
  <2>1. A \in SUBSET Executions
    BY DEF Lost, Stranded
  <2>2. AbortAll(A) /\ UNCHANGED <<suppressed, up, claims>>
    BY <1>3 DEF RecoverQueued
  <2> HIDE DEF A
  <2>3. claims' \subseteq Executions
    BY <1>0, <2>2 DEF ExecutionsOK
  <2> QED BY <1>0, <2>1, <2>2, <2>3, Aborting DEF AbortAll
<1> QED BY <1>1, <1>2, <1>3 DEF RecoverStep

(* The last step of an engine was saved, or its error.                             *)
LEMMA LastSaved ==
  ASSUME ExecutionsOK, NEW r \in runners, Persists(r)
  PROVE  /\ End \in r.def.next[r.at] =>
              LET y == [row[r.exec] EXCEPT !.status = "succeeded", !.at = NoState,
                                           !.log = Append(r.log, Log(r.at, TRUE, End))]
              IN RowOK(y) /\ y \in RowType
         /\ LET y == [row[r.exec] EXCEPT !.status = "failed",
                                         !.log = Append(r.log, Log(r.at, FALSE, NoState))]
            IN RowOK(y) /\ y \in RowType
<1>1. /\ row[r.exec] \in RowType /\ row[r.exec].at \in {r.at, NoState}
      /\ r.log \in Seq(LogEntries) /\ Path(r.log) /\ Continues(r.log, r.at) /\ r.at \in States
  BY RunnerAndRow DEF RunnerOK, RunnerType
<1> DEFINE s == Log(r.at, TRUE, End)
           f == Log(r.at, FALSE, NoState)
<1>2. /\ s \in LogEntries /\ s.step = r.at /\ s.ok = TRUE /\ s.next = End
      /\ f \in LogEntries /\ f.step = r.at /\ f.ok = FALSE
  BY <1>1 DEF Log, LogEntries
<1> DEFINE slog == Append(r.log, s)
           flog == Append(r.log, f)
<1> HIDE DEF s, f
<1>3. slog \in Seq(LogEntries) /\ slog # <<>> /\ Last(slog) = s /\ Path(slog)
  BY <1>1, <1>2, PathGoesOn
<1>4. flog \in Seq(LogEntries) /\ flog # <<>> /\ Last(flog) = f /\ Path(flog)
  BY <1>1, <1>2, PathGoesOn
<1> HIDE DEF slog, flog
<1> DEFINE ys == [row[r.exec] EXCEPT !.status = "succeeded", !.at = NoState, !.log = slog]
           yf == [row[r.exec] EXCEPT !.status = "failed", !.log = flog]
<1>5. ys \in RowType /\ ys.status = "succeeded" /\ ys.log = slog
  BY <1>1, <1>3 DEF RowType, Statuses
<1>6. yf \in RowType /\ yf.status = "failed" /\ yf.log = flog /\ yf.at \in {r.at, NoState}
  BY <1>1, <1>4 DEF RowType, Statuses
<1> HIDE DEF ys, yf
<1>7. RowOK(ys)
  BY <1>2, <1>3, <1>5 DEF RowOK, Reached
<1>8. RowOK(yf)
  BY <1>2, <1>4, <1>6 DEF RowOK, Continues, Follows
<1> QED BY <1>5, <1>6, <1>7, <1>8 DEF ys, yf, slog, flog, s, f

(* The rows a crash leaves, and how many executions there were under an id.          *)
LEMMA CrashesWell ==
  ASSUME IInv, Crashes
  PROVE  ExecutionsOK' /\ up' = FALSE /\ ContextOK'
<1>0. /\ ExecutionsOK /\ ContextOK /\ row \in [Executions -> RowType]
      /\ \A e \in Executions : RowOK(row[e]) /\ row[e] \in RowType
  BY DEF IInv, ExecutionsOK
<1> DEFINE Fine(rows, messages) ==
             /\ rows \in [Executions -> RowType] /\ \A e \in Executions : RowOK(rows[e])
             /\ messages \in [JobIds -> {"none", "queued", "processing", "done"}]
             /\ \A e \in Executions : row[e] = NoRow /\ rows[e] # NoRow => uses[e] < MaxUses
<1>1. ASSUME NEW rows, NEW messages, Fine(rows, messages), Down(rows, messages)
      PROVE  ExecutionsOK' /\ up' = FALSE /\ ContextOK'
  <2>1. ExecutionsOK' /\ up' = FALSE
    BY <1>1, Crashing DEF Down
  <2>2. uses' \in [Executions -> 0 .. MaxUses]
    <3>1. MaxUses \in Nat /\ uses \in [Executions -> 0 .. MaxUses]
      BY <1>0, BoundsAssumption DEF ContextOK
    <3> QED BY <1>1, <3>1 DEF Down
  <2>3. crashes' \in 0 .. MaxCrashes
    BY <1>0, <1>1, BoundsAssumption DEF Down, ContextOK
  <2> QED BY <1>0, <1>1, <2>1, <2>2, <2>3 DEF Down, ContextOK, Idle
<1>2. Fine(row, jobs)
  BY <1>0 DEF ContextOK
<1>3. \A J : Fine(row, Without(J))
  BY <1>0 DEF ContextOK, Without
<1>4. CASE Crash
  BY <1>1, <1>2, <1>4 DEF Crash
<1>5. ASSUME NEW e \in Executions, CrashInExecute(e) PROVE ExecutionsOK' /\ up' = FALSE /\ ContextOK'
  <2>1. 1 \in Numbers /\ NoJob # 1
    BY BoundsAssumption DEF Numbers, NoJob
  <2> DEFINE rows == Recorded(e, New(e, "queued", NoToken, 1))
  <2>2. RowOK(New(e, "queued", NoToken, 1)) /\ New(e, "queued", NoToken, 1) \in RowType
    BY <1>0, <2>1, NewRows
  <2>3. rows \in [Executions -> RowType] /\ \A d \in Executions : RowOK(rows[d])
    BY <1>0, <2>2 DEF Recorded
  <2>4. \A d \in Executions : row[d] = NoRow /\ rows[d] # NoRow => uses[d] < MaxUses
    BY <1>0, <1>5 DEF CrashInExecute, MayExecute, Recorded
  <2>5. Down(rows, jobs)
    BY <1>5 DEF CrashInExecute
  <2> HIDE DEF rows
  <2> QED BY <1>1, <1>2, <2>3, <2>4, <2>5
<1>6. ASSUME NEW e \in Executions, CrashInResume(e) PROVE ExecutionsOK' /\ up' = FALSE /\ ContextOK'
  <2>1. PICK n \in FreshJobs(e, recovery.todo), gone \in SUBSET ({<<e, row[e].job>>} \cap JobIds) :
          Down([row EXCEPT ![e].status = "queued", ![e].job = n], Without(gone))
    BY <1>6 DEF CrashInResume
  <2>2. row[e].token = NoToken /\ row[e].status \in {"running", "failed"} /\ n \in Numbers
    BY <1>6 DEF CrashInResume, MayResume, FreshJobs
  <2> DEFINE x == [row[e] EXCEPT !.status = "queued", !.job = n]
             rows == [row EXCEPT ![e] = x]
  <2>3. RowOK(x) /\ x \in RowType
    BY <1>0, <2>2, ResumedRows
  <2>4. row[e] # NoRow
    BY <2>2 DEF NoRow
  <2>5. Down(rows, Without(gone))
    BY <1>0, <2>1
  <2> HIDE DEF x
  <2>6. rows \in [Executions -> RowType] /\ \A d \in Executions : RowOK(rows[d])
    BY <1>0, <2>3
  <2>7. \A d \in Executions : row[d] = NoRow /\ rows[d] # NoRow => uses[d] < MaxUses
    BY <1>0, <2>4
  <2> HIDE DEF rows
  <2> QED BY <1>1, <1>3, <2>5, <2>6, <2>7
<1>7. ASSUME NEW e \in Executions, CrashInAbort(e) PROVE ExecutionsOK' /\ up' = FALSE /\ ContextOK'
  BY <1>1, <1>3, <1>7 DEF CrashInAbort
<1>8. ASSUME NEW j \in JobIds, CrashInClaim(j) PROVE ExecutionsOK' /\ up' = FALSE /\ ContextOK'
  <2>1. Fine(row, [jobs EXCEPT ![j] = "processing"])
    BY <1>0 DEF ContextOK
  <2> QED BY <1>1, <1>8, <2>1 DEF CrashInClaim
<1>9. ASSUME NEW r \in runners, CrashInSave(r) PROVE ExecutionsOK' /\ up' = FALSE /\ ContextOK'
  <2>1. Persists(r) /\ r.exec \in Executions /\ row[r.exec].log = r.log /\ row[r.exec] # NoRow
    BY <1>0, <1>9, RunnerAndRow DEF CrashInSave, Persists, NoRow
  <2> DEFINE s == [row[r.exec] EXCEPT !.status = "succeeded", !.at = NoState,
                                      !.log = Append(r.log, Log(r.at, TRUE, End))]
             f == [row[r.exec] EXCEPT !.status = "failed",
                                      !.log = Append(r.log, Log(r.at, FALSE, NoState))]
  <2>2. PICK x \in {s, f} : Down([row EXCEPT ![r.exec] = x], jobs) /\ RowOK(x) /\ x \in RowType
    <3>1. CASE /\ End \in r.def.next[r.at]
               /\ Down([row EXCEPT ![r.exec].status = "succeeded", ![r.exec].at = NoState,
                                   ![r.exec].log = Append(@, Log(r.at, TRUE, End))], jobs)
      <4>1. RowOK(s) /\ s \in RowType
        BY <1>0, <2>1, <3>1, LastSaved
      <4>2. [row EXCEPT ![r.exec].status = "succeeded", ![r.exec].at = NoState,
                        ![r.exec].log = Append(@, Log(r.at, TRUE, End))] = [row EXCEPT ![r.exec] = s]
        BY <1>0, <2>1 DEF RowType
      <4> HIDE DEF s, f
      <4> QED BY <3>1, <4>1, <4>2
    <3>2. CASE Down([row EXCEPT ![r.exec].status = "failed",
                                ![r.exec].log = Append(@, Log(r.at, FALSE, NoState))], jobs)
      <4>1. RowOK(f) /\ f \in RowType
        BY <1>0, <2>1, LastSaved
      <4>2. [row EXCEPT ![r.exec].status = "failed",
                        ![r.exec].log = Append(@, Log(r.at, FALSE, NoState))] = [row EXCEPT ![r.exec] = f]
        BY <1>0, <2>1 DEF RowType
      <4> HIDE DEF s, f
      <4> QED BY <3>2, <4>1, <4>2
    <3> QED BY <1>9, <3>1, <3>2 DEF CrashInSave
  <2> HIDE DEF s, f
  <2>3. Fine([row EXCEPT ![r.exec] = x], jobs)
    BY <1>0, <1>2, <2>1, <2>2
  <2> QED BY <1>1, <2>2, <2>3
<1>10. ASSUME NEW r \in runners, CrashAfterSave(r) PROVE ExecutionsOK' /\ up' = FALSE /\ ContextOK'
  <2> DEFINE l == Log(r.at, TRUE, End)
             x == Saved(r, "succeeded", NoState, Append(r.log, l))
  <2>1. l \in LogEntries /\ l.step = r.at /\ l.ok = TRUE /\ l.next = End
    BY <1>0, RunnerAndRow DEF Log, LogEntries, RunnerType
  <2> HIDE DEF l
  <2>2. Result(r, "succeeded", NoState, Append(r.log, l))
    BY <1>0, <2>1, ReportsResult
  <2>3. RowOK(x) /\ x \in RowType /\ (row[r.exec] = NoRow => x = NoRow) /\ r.exec \in Executions
    <3>1. row[r.exec] = NoRow => ~Takes(r)
      BY DEF Takes, NoRow
    <3> QED BY <1>0, <2>2, <3>1, SavedRow, RunnerAndRow
  <2>4. Down([row EXCEPT ![r.exec] = x], jobs)
    BY <1>10 DEF CrashAfterSave, l
  <2> HIDE DEF x
  <2>5. Fine([row EXCEPT ![r.exec] = x], jobs)
    BY <1>0, <1>2, <2>3
  <2> QED BY <1>1, <2>4, <2>5
<1> QED BY <1>4, <1>5, <1>6, <1>7, <1>8, <1>9, <1>10 DEF Crashes

(* Clients and timers.                                                            *)
LEMMA ClientsWell ==
  ASSUME IInv, ClientStep \/ TimerStep
  PROVE  ExecutionsOK'
<1>0. ExecutionsOK /\ ContextOK
  BY DEF IInv
<1>1. CASE UpdateFlow
  <2>1. UNCHANGED <<row, runners, claims, up, suppressed>>
    BY <1>1 DEF UpdateFlow, memory
  <2> QED BY <1>0, <2>1, Untouched
<1>2. CASE ClearExecutions \/ DeleteFlow
  BY <1>0, <1>2, Forgetting DEF ClearExecutions, DeleteFlow
<1>3. CASE Recover
  BY <1>3, RecoversWell
<1>4. ASSUME NEW e \in Executions, ExecuteQueued(e) \/ ExecuteDirectly(e) PROVE ExecutionsOK'
  BY <1>4, ExecutesWell
<1>5. ASSUME NEW e \in Executions, Resume(e) PROVE ExecutionsOK'
  <2>1. PICK wait \in BOOLEAN : Resumes(e, jobs, recovery.todo, wait)
    BY <1>5 DEF Resume
  <2> QED BY <1>5, <2>1, ResumesWell DEF Resume
<1>6. ASSUME NEW e \in Executions, Abort(e) \/ WaiterTimesOut(e) PROVE ExecutionsOK'
  <2>1. row' = AbortedRows({e}) /\ runners' = Signalled({e}) /\ UNCHANGED <<claims, suppressed, up>>
    BY <1>6 DEF Abort, WaiterTimesOut, AbortAll
  <2>2. {e} \in SUBSET Executions /\ claims' \subseteq Executions
    BY <1>0, <2>1 DEF ExecutionsOK
  <2> QED BY <1>0, <2>1, <2>2, Aborting
<1>7. ASSUME NEW e \in Executions, Unsuppress(e) PROVE ExecutionsOK'
  <2>1. UNCHANGED <<row, runners, claims, up>> /\ suppressed' \subseteq suppressed
    BY <1>7 DEF Unsuppress, disk
  <2> QED BY <1>0, <2>1, Untouched
<1>8. ASSUME NEW j \in JobIds, SweepJob(j) PROVE ExecutionsOK'
  <2>1. UNCHANGED <<row, runners, claims, up, suppressed>>
    BY <1>8 DEF SweepJob, memory
  <2> QED BY <1>0, <2>1, Untouched
<1> QED BY <1>1, <1>2, <1>3, <1>4, <1>5, <1>6, <1>7, <1>8 DEF ClientStep, TimerStep

-----------------------------------------------------------------------------
(* Every step keeps the flow, its queue and the recovery in order.               *)

(* Messages that were deleted.                                                    *)
LEMMA JobTypes ==
  ASSUME ContextOK, NEW J
  PROVE  Without(J) \in [JobIds -> {"none", "queued", "processing", "done"}]
BY DEF ContextOK, Without

(* Executing, aborting, the timers.                                               *)
LEMMA ClientsContext ==
  ASSUME IInv, ClientStep \/ TimerStep, ~Recover, \A e \in Executions : ~Resume(e)
  PROVE  ContextOK'
<1> USE DEF JobIds, Numbers
<1>0. ContextOK /\ MaxUses \in Nat /\ (1 \in Numbers) /\ waiters \subseteq Executions
  BY BoundsAssumption DEF IInv, ContextOK
<1>1. CASE UpdateFlow
  <2>1. PICK f \in [exists : BOOLEAN, enabled : BOOLEAN, limit : Limits, def : Definitions] :
          flow' = f /\ SyncFlowQueue(f)
    BY <1>1 DEF UpdateFlow
  <2>2. queue' \in Limits \cup {NoQueue, DrainConcurrency}
    BY <1>0, <2>1 DEF SyncFlowQueue, ContextOK
  <2>3. jobs' \in [JobIds -> {"none", "queued", "processing", "done"}]
    BY <1>0, <2>1 DEF SyncFlowQueue, ContextOK, Without
  <2> QED BY <1>0, <1>1, <2>1, <2>2, <2>3 DEF UpdateFlow, ContextOK, memory, count
<1>2. CASE ClearExecutions
  BY <1>0, <1>2 DEF ClearExecutions, Forget, Without, ContextOK, count
<1>3. CASE DeleteFlow
  BY <1>0, <1>3 DEF DeleteFlow, Forget, Without, ContextOK, count
<1>4. ASSUME NEW e \in Executions, ExecuteQueued(e) PROVE ContextOK'
  <2>1. uses' \in [Executions -> 0 .. MaxUses]
    BY <1>0, <1>4 DEF ExecuteQueued, MayExecute, ContextOK
  <2>2. jobs' \in [JobIds -> {"none", "queued", "processing", "done"}] /\ waiters' \subseteq Executions
    BY <1>0, <1>4 DEF ExecuteQueued, ContextOK
  <2> QED BY <1>0, <1>4, <2>1, <2>2 DEF ExecuteQueued, ContextOK
<1>5. ASSUME NEW e \in Executions, ExecuteDirectly(e) PROVE ContextOK'
  <2>1. uses' \in [Executions -> 0 .. MaxUses]
    BY <1>0, <1>5 DEF ExecuteDirectly, MayExecute, ContextOK
  <2> QED BY <1>0, <1>5, <2>1 DEF ExecuteDirectly, ContextOK
<1>6. ASSUME NEW e \in Executions, Abort(e) \/ WaiterTimesOut(e) PROVE ContextOK'
  BY <1>0, <1>6 DEF Abort, WaiterTimesOut, AbortAll, Without, ContextOK, count
<1>7. ASSUME NEW e \in Executions, Unsuppress(e) PROVE ContextOK'
  BY <1>0, <1>7 DEF Unsuppress, ContextOK, count, disk
<1>8. ASSUME NEW j \in JobIds, SweepJob(j) PROVE ContextOK'
  BY <1>0, <1>8 DEF SweepJob, ContextOK, count, memory
<1> QED BY <1>1, <1>2, <1>3, <1>4, <1>5, <1>6, <1>7, <1>8 DEF ClientStep, TimerStep

(* The queue's worker and the engine.                                             *)
LEMMA WorkersContext ==
  ASSUME IInv, \/ \E j \in JobIds : WorkerStep(j[1], j[2])
               \/ \E r \in runners : RunnerStep(r)
  PROVE  ContextOK'
<1>0. ContextOK
  BY DEF IInv
<1>1. ASSUME NEW j \in JobIds, WorkerStep(j[1], j[2]) PROVE ContextOK'
  <2>0. <<j[1], j[2]>> = j /\ j[1] \in Executions
    BY DEF JobIds
  <2>1. jobs' \in [JobIds -> {"none", "queued", "processing", "done"}]
    BY <1>0, <1>1, <2>0 DEF WorkerStep, WorkerStarts, WorkerLoses, WorkerCompletes, WorkerRefuses,
       WorkerSkips, Without, ContextOK
  <2>2. /\ waiters' \subseteq waiters
        /\ UNCHANGED <<flow, queue, recovery, up, crashes, uses>>
    BY <1>1 DEF WorkerStep, WorkerStarts, WorkerLoses, WorkerCompletes, WorkerRefuses,
       WorkerSkips, AbortAll, count, memory
  <2> QED BY <1>0, <2>1, <2>2 DEF ContextOK
<1>2. ASSUME NEW r \in runners, NEW status, NEW at, NEW log, Finish(r, status, at, log)
      PROVE  ContextOK'
  <2>1. jobs' \in [JobIds -> {"none", "queued", "processing", "done"}]
        /\ queue' \in {queue, NoQueue}
    BY <1>0, <1>2 DEF Finish, Without, ContextOK
  <2>2. recovery' \in {recovery, [recovery EXCEPT !.waits = NoExecution]}
    BY <1>2 DEF Finish
  <2>3. /\ recovery' \in [on : BOOLEAN, todo : SUBSET (Executions \X (Numbers \cup {NoJob})),
                          active : SUBSET Executions, waits : Executions \cup {NoExecution}]
        /\ recovery'.on = recovery.on
    BY <1>0, <2>2 DEF ContextOK
  <2> QED BY <1>0, <1>2, <2>1, <2>3 DEF Finish, ContextOK, count
<1>3. ASSUME NEW r \in runners, RunnerStep(r) PROVE ContextOK'
  <2>1. ASSUME NEW next, NEW log, NEW at, Advance(r, next, log, at) PROVE ContextOK'
    BY <1>0, <1>2, <2>1 DEF Advance, ContextOK, count
  <2> QED BY <1>2, <1>3, <2>1 DEF RunnerStep, StepSucceeds, StepCaught, FlowSucceeds, StepFails,
             DeadlinePasses, PersistFails
<1> QED BY <1>1, <1>3

(* A resume.                                                                      *)
LEMMA ResumesContext ==
  ASSUME IInv, NEW e \in Executions,
         NEW jobs0 \in [JobIds -> {"none", "queued", "processing", "done"}], NEW todo,
         NEW wait \in BOOLEAN, Resumes(e, jobs0, todo, wait)
  PROVE  /\ queue' \in Limits \cup {NoQueue, DrainConcurrency}
         /\ jobs' \in [JobIds -> {"none", "queued", "processing", "done"}]
         /\ waiters' \subseteq Executions
<1>0. /\ flow.limit \in Limits /\ queue \in Limits \cup {NoQueue, DrainConcurrency}
      /\ waiters \subseteq Executions
  BY DEF IInv, ContextOK
<1>1. queue' \in {queue, flow.limit}
  BY DEF Resumes
<1>2. waiters' \subseteq waiters \cup {e}
  BY DEF Resumes
<1>3. \/ jobs' = [j \in JobIds |-> IF j \in JobsOf({e}) THEN "none" ELSE jobs0[j]]
      \/ jobs' = jobs0
      \/ \E n \in FreshJobs(e, todo) :
           jobs' = [j \in JobIds |-> IF j = <<e, n>> THEN "queued"
                                     ELSE IF j = <<e, row[e].job>> THEN "none" ELSE jobs0[j]]
  BY DEF Resumes
<1>4. jobs' \in [JobIds -> {"none", "queued", "processing", "done"}]
  BY <1>3
<1> QED BY <1>0, <1>1, <1>2, <1>4

(* The recovery.                                                                  *)
LEMMA RecoveryContext ==
  ASSUME IInv, Recover \/ Restart \/ RecoverStep \/ \E e \in Executions : Resume(e)
  PROVE  ContextOK'
<1> DEFINE JobType == [JobIds -> {"none", "queued", "processing", "done"}]
           QueueType == Limits \cup {NoQueue, DrainConcurrency}
           RecoveryType == [on : BOOLEAN, todo : SUBSET (Executions \X (Numbers \cup {NoJob})),
                            active : SUBSET Executions, waits : Executions \cup {NoExecution}]
<1>0. /\ ContextOK /\ ExecutionsOK /\ claims \subseteq Executions
      /\ \A e \in Executions : row[e].job \in Numbers \cup {NoJob}
      /\ flow.limit \in Limits /\ queue \in QueueType /\ jobs \in JobType
      /\ recovery \in RecoveryType /\ (recovery.on => up)
  BY DEF IInv, ContextOK, ExecutionsOK, RowType
<1>1. ASSUME NEW S, NEW jobs0 \in JobType, RequeueAll(S, jobs0)
      PROVE  jobs' \in JobType /\ queue' \in QueueType
  BY <1>0, <1>1 DEF RequeueAll
<1>2. \A J : Without(J) \in JobType
  BY <1>0, JobTypes
<1>3. CASE Recover \/ Restart
  <2>1. UNCHANGED <<flow, crashes, uses>> /\ up' = TRUE
    BY <1>3 DEF Recover, Restart, count
  <2>2. CASE AbortOrphans /\ UNCHANGED recovery
    <3>1. jobs' \in JobType /\ queue' \in QueueType
      BY <1>1, <1>2, <2>2 DEF AbortOrphans
    <3>2. waiters' \subseteq waiters
      BY <2>2 DEF AbortOrphans
    <3> HIDE DEF JobType, QueueType, RecoveryType
    <3>3. recovery' \in RecoveryType
      BY <1>0, <2>2
    <3> QED BY <1>0, <2>1, <3>1, <3>2, <3>3 DEF ContextOK, JobType, QueueType, RecoveryType
  <2>3. CASE ResumeOrphans /\ queue' \in {queue, flow.limit}
    <3>1. jobs' \in JobType /\ queue' \in QueueType /\ UNCHANGED waiters
      BY <1>0, <2>3 DEF ResumeOrphans
    <3>2. {<<e, row[e].job>> : e \in Orphans} \in SUBSET (Executions \X (Numbers \cup {NoJob}))
      BY <1>0 DEF Orphans
    <3>3. recovery' \in RecoveryType
      BY <1>0, <2>3, <3>2 DEF ResumeOrphans
    <3> HIDE DEF JobType, QueueType, RecoveryType
    <3> QED BY <1>0, <2>1, <3>1, <3>3 DEF ContextOK, JobType, QueueType, RecoveryType
  <2> QED BY <1>3, <2>2, <2>3 DEF Recover, Restart
<1>4. ASSUME NEW t \in recovery.todo, RecoverOne(t[1], t[2]) PROVE ContextOK'
  <2> DEFINE e == t[1]
             n == t[2]
             jobs0 == Without({<<e, n>>})
  <2>1. e \in Executions /\ n \in Numbers \cup {NoJob} /\ jobs0 \in JobType
    BY <1>0, <1>2
  <2>2. UNCHANGED <<flow, up, crashes, uses>>
    BY <1>4 DEF RecoverOne, count
  <2>3. jobs' \in JobType /\ queue' \in QueueType /\ waiters' \subseteq Executions
    <3>1. CASE MayResume(e)
      <4>1. Resumes(e, jobs0, recovery.todo \ {<<e, n>>}, FALSE)
        BY <1>4, <3>1 DEF RecoverOne
      <4> HIDE DEF jobs0
      <4> QED BY <2>1, <4>1, ResumesContext
    <3>2. CASE ~MayResume(e)
      <4>1. queue' = queue /\ waiters' \subseteq waiters
        BY <1>4, <3>2 DEF RecoverOne, AbortAll
      <4>2. jobs' \in {jobs0, [j \in JobIds |-> IF j \in JobsOf({e}) THEN "none" ELSE jobs0[j]]}
        BY <1>4, <3>2 DEF RecoverOne
      <4>3. jobs' \in JobType
        BY <2>1, <4>2
      <4> QED BY <1>0, <4>1, <4>3 DEF ContextOK
    <3> QED BY <3>1, <3>2
  <2>4. PICK w \in {NoExecution, e} :
          recovery' = [recovery EXCEPT !.todo = @ \ {<<e, n>>}, !.waits = w]
    BY <1>4 DEF RecoverOne
  <2>5. recovery' \in RecoveryType /\ recovery'.on = recovery.on
    BY <1>0, <2>1, <2>4
  <2> HIDE DEF JobType, QueueType, RecoveryType, e, n, jobs0
  <2> QED BY <1>0, <2>2, <2>3, <2>5 DEF ContextOK, JobType, QueueType, RecoveryType
<1>5. CASE RecoverQueued
  <2>1. jobs' \in JobType /\ queue' \in QueueType
    BY <1>0, <1>1, <1>5 DEF RecoverQueued
  <2>2. waiters' \subseteq waiters /\ UNCHANGED <<flow, up, crashes, uses>>
    BY <1>5 DEF RecoverQueued, AbortAll, count
  <2>3. recovery' \in RecoveryType /\ recovery'.on = FALSE
    BY <1>5 DEF RecoverQueued, Idle
  <2> HIDE DEF JobType, QueueType, RecoveryType
  <2> QED BY <1>0, <2>1, <2>2, <2>3 DEF ContextOK, JobType, QueueType, RecoveryType
<1>6. ASSUME NEW e \in Executions, Resume(e) PROVE ContextOK'
  <2>1. PICK wait \in BOOLEAN : Resumes(e, jobs, recovery.todo, wait)
    BY <1>6 DEF Resume
  <2>2. jobs' \in JobType /\ queue' \in QueueType /\ waiters' \subseteq Executions
    BY <1>0, <2>1, ResumesContext
  <2>3. UNCHANGED <<flow, up, recovery, crashes, uses>>
    BY <1>6 DEF Resume, count
  <2> HIDE DEF JobType, QueueType, RecoveryType
  <2> QED BY <1>0, <2>2, <2>3 DEF ContextOK, JobType, QueueType, RecoveryType
<1> QED BY <1>3, <1>4, <1>5, <1>6 DEF RecoverStep

-----------------------------------------------------------------------------
(* Every step keeps the messages of queued executions.                           *)

(* A step that touches the message of no execution that stays queued.               *)
LEMMA MessagesKept ==
  ASSUME MessagesOK, up' => up, recovery'.on = recovery.on, recovery'.active = recovery.active,
         queue # NoQueue => queue' # NoQueue,
         \A d \in Executions : row'[d].status = "queued" =>
           \/ /\ row[d].status = "queued" /\ row'[d].job = row[d].job
              /\ jobs[<<d, row[d].job>>] = "queued" => jobs'[<<d, row[d].job>>] = "queued"
           \/ queue' # NoQueue /\ jobs'[<<d, row'[d].job>>] = "queued"
  PROVE  MessagesOK'
BY DEF MessagesOK

(* The messages an abort deletes, and those of the other executions.               *)
LEMMA OtherMessages ==
  ASSUME ExecutionsOK, ContextOK, NEW d \in Executions, row[d].status = "queued"
  PROVE  /\ <<d, row[d].job>> \in JobIds
         /\ \A S \in SUBSET Executions : d \notin S => <<d, row[d].job>> \notin JobsOf(S)
         /\ \A e \in Executions : d # e => \A n : <<d, row[d].job>> # <<e, n>>
BY DEF ExecutionsOK, RowOK, RowType, JobIds, JobsOf

(* A claimed execution is not queued.                                             *)
LEMMA ClaimedIsNotQueued ==
  ASSUME ExecutionsOK, NEW e \in claims
  PROVE  e \in Executions /\ row[e].status # "queued"
<1>1. e \in Executions /\ Fits(row[e], Of(e), e \in claims, e \in suppressed, up)
  BY DEF ExecutionsOK
<1>2. CASE Of(e) = {}
  BY <1>1, <1>2 DEF Fits
<1>3. ASSUME NEW r \in Of(e) PROVE row[e].status # "queued"
  BY <1>1, RunnerAndRow DEF Of
<1> QED BY <1>1, <1>2, <1>3

(* Clients and timers.                                                            *)
LEMMA ClientsMessages ==
  ASSUME IInv, ClientStep \/ TimerStep, ~Recover, \A e \in Executions : ~Resume(e)
  PROVE  MessagesOK'
<1>0. /\ ExecutionsOK /\ ContextOK /\ MessagesOK /\ row \in [Executions -> RowType]
      /\ jobs \in [JobIds -> {"none", "queued", "processing", "done"}]
      /\ \A d \in Executions : row[d].status = "queued" => <<d, row[d].job>> \in JobIds
  BY OtherMessages DEF IInv, ExecutionsOK, ContextOK
<1>1. CASE UpdateFlow
  <2>1. PICK f \in [exists : BOOLEAN, enabled : BOOLEAN, limit : Limits, def : Definitions] :
          flow' = f /\ SyncFlowQueue(f)
    BY <1>1 DEF UpdateFlow
  <2>2. UNCHANGED <<row, recovery, up>> /\ f.limit \in Nat /\ up
    BY <1>1, BoundsAssumption DEF UpdateFlow, memory
  <2>3. CASE f.limit >= 1
    <3>1. queue' \in {f.limit, queue} /\ jobs' = jobs /\ f.limit # NoQueue
      BY <2>1, <2>2, <2>3 DEF SyncFlowQueue, NoQueue
    <3> QED BY <1>0, <2>2, <3>1, MessagesKept
  <2>4. CASE ~(f.limit >= 1) /\ (queue = NoQueue \/ NothingQueued)
    <3>1. ASSUME NEW d \in Executions, row[d].status = "queued", ~recovery.on \/ d \in recovery.active
          PROVE  FALSE
      <4>1. queue # NoQueue
        BY <1>0, <2>2, <3>1 DEF MessagesOK
      <4>2. ~NothingQueued
        BY <3>1 DEF NothingQueued
      <4> QED BY <2>4, <4>1, <4>2
    <3> QED BY <2>2, <3>1 DEF MessagesOK
  <2>5. CASE ~(f.limit >= 1) /\ ~(queue = NoQueue \/ NothingQueued)
    <3>1. /\ queue' = DrainConcurrency
          /\ jobs' = [j \in JobIds |-> IF j \in Unsent /\ jobs[j] = "none" THEN "queued" ELSE jobs[j]]
      BY <2>1, <2>5 DEF SyncFlowQueue
    <3>2. queue' # NoQueue
      BY <3>1 DEF DrainConcurrency, NoQueue
    <3>3. \A j \in JobIds : jobs[j] = "queued" => jobs'[j] = "queued"
      BY <3>1
    <3> QED BY <1>0, <2>2, <3>2, <3>3, MessagesKept
  <2> QED BY <2>3, <2>4, <2>5
<1>2. CASE ClearExecutions \/ DeleteFlow
  <2>1. \A d \in Executions : row'[d].status # "queued"
    BY <1>2 DEF ClearExecutions, DeleteFlow, Forget, NoRow
  <2> QED BY <2>1 DEF MessagesOK
<1>3. ASSUME NEW e \in Executions, ExecuteQueued(e) PROVE MessagesOK'
  <2>1. queue' = flow.limit /\ flow.limit # NoQueue /\ UNCHANGED <<up, recovery>>
    BY <1>0, <1>3 DEF ExecuteQueued, Throttled, NoQueue
  <2>2. <<e, 1>> \in JobIds
    BY BoundsAssumption DEF JobIds, Numbers
  <2>3. row[e].status # "queued"
    BY <1>3 DEF ExecuteQueued, MayExecute, NoRow
  <2>4. row'[e].status = "queued" => row'[e].job = 1 /\ jobs' = [jobs EXCEPT ![<<e, 1>>] = "queued"]
    BY <1>0, <1>3, <2>3 DEF ExecuteQueued, Recorded, New
  <2>5. \A d \in Executions \ {e} : row'[d] = row[d]
    BY <1>0, <1>3 DEF ExecuteQueued, Recorded
  <2>6. jobs' \in {jobs, [jobs EXCEPT ![<<e, 1>>] = "queued"]}
    BY <1>3 DEF ExecuteQueued
  <2>7. \A d \in Executions : row'[d].status = "queued" =>
           \/ /\ row[d].status = "queued" /\ row'[d].job = row[d].job
              /\ jobs[<<d, row[d].job>>] = "queued" => jobs'[<<d, row[d].job>>] = "queued"
           \/ jobs'[<<d, row'[d].job>>] = "queued"
    BY <1>0, <2>2, <2>3, <2>4, <2>5, <2>6
  <2> QED BY <1>0, <2>1, <2>7, MessagesKept
<1>4. ASSUME NEW e \in Executions, ExecuteDirectly(e) PROVE MessagesOK'
  <2>1. UNCHANGED <<jobs, queue, recovery, up>>
    BY <1>4 DEF ExecuteDirectly
  <2>2. \A d \in Executions : row'[d].status = "queued" => row'[d] = row[d]
    BY <1>0, <1>4 DEF ExecuteDirectly, Recorded, New
  <2> QED BY <1>0, <2>1, <2>2, MessagesKept
<1>5. ASSUME NEW e \in Executions, Abort(e) \/ WaiterTimesOut(e) PROVE MessagesOK'
  <2>1. row' = AbortedRows({e}) /\ jobs' = Without(JobsOf({e})) /\ UNCHANGED <<queue, recovery, up>>
    BY <1>5 DEF Abort, WaiterTimesOut, AbortAll
  <2>2. \A d \in Executions : row'[d].status = "queued" => d # e /\ row'[d] = row[d]
    BY <1>0, <2>1 DEF AbortedRows, Pending, RowType
  <2>3. \A d \in Executions \ {e} : row[d].status = "queued" =>
          jobs'[<<d, row[d].job>>] = jobs[<<d, row[d].job>>]
    BY <1>0, <2>1, OtherMessages DEF Without
  <2> QED BY <1>0, <2>1, <2>2, <2>3, MessagesKept
<1>6. ASSUME NEW e \in Executions, Unsuppress(e) PROVE MessagesOK'
  <2>1. UNCHANGED <<row, jobs, queue, recovery, up>>
    BY <1>6 DEF Unsuppress, disk
  <2> QED BY <1>0, <2>1, MessagesKept
<1>7. ASSUME NEW j \in JobIds, SweepJob(j) PROVE MessagesOK'
  <2>1. UNCHANGED <<row, queue, recovery, up>>
    BY <1>7 DEF SweepJob, memory
  <2>2. \A i \in JobIds : jobs[i] = "queued" => jobs'[i] = "queued"
    BY <1>0, <1>7 DEF SweepJob
  <2> QED BY <1>0, <2>1, <2>2, MessagesKept
<1> QED BY <1>1, <1>2, <1>3, <1>4, <1>5, <1>6, <1>7 DEF ClientStep, TimerStep

(* The queue's worker.                                                            *)
LEMMA WorkersMessages ==
  ASSUME IInv, NEW j \in JobIds, WorkerStep(j[1], j[2])
  PROVE  MessagesOK'
<1> DEFINE e == j[1]
           n == j[2]
<1>0. /\ ExecutionsOK /\ ContextOK /\ MessagesOK /\ row \in [Executions -> RowType]
      /\ jobs \in [JobIds -> {"none", "queued", "processing", "done"}]
      /\ e \in Executions /\ \A d \in Executions : row[d].status = "queued" => <<d, row[d].job>> \in JobIds
  BY OtherMessages DEF IInv, ExecutionsOK, ContextOK, JobIds
<1> HIDE DEF e, n
<1>1. UNCHANGED <<queue, recovery, up>>
  BY <1>0 DEF WorkerStep, WorkerStarts, WorkerLoses, WorkerCompletes, WorkerRefuses,
     WorkerSkips, memory
<1>2. \A d \in Executions : d # e => row'[d] = row[d]
  BY <1>0 DEF WorkerStep, WorkerStarts, WorkerLoses, WorkerCompletes, WorkerRefuses,
     WorkerSkips, AbortAll, AbortedRows, e, n
<1>3. row'[e].status # "queued"
  <2>0. row[e].status = "queued" => e \notin claims
    BY <1>0, ClaimedIsNotQueued
  <2>1. CASE WorkerStarts(e, n)
    BY <1>0, <2>1 DEF WorkerStarts, RowType
  <2>2. CASE WorkerLoses(e, n) \/ WorkerRefuses(e, n)
    <3>1. row' = AbortedRows({e})
      BY <2>2 DEF WorkerLoses, WorkerRefuses, AbortAll
    <3>2. row'[e] = Aborted(row[e])
      BY <1>0, <3>1, AbortedAndTold
    <3> QED BY <1>0, <3>2 DEF Aborted, RowType
  <2>3. CASE WorkerCompletes(e, n)
    BY <1>0, <2>3 DEF WorkerCompletes, Succeeded, RowType
  <2>4. CASE WorkerSkips(e, n)
    BY <2>0, <2>4 DEF WorkerSkips, Startable
  <2> QED BY <2>1, <2>2, <2>3, <2>4 DEF WorkerStep, e, n
<1>4. \A d \in Executions : d # e /\ row[d].status = "queued" =>
        jobs'[<<d, row[d].job>>] = jobs[<<d, row[d].job>>]
  <2>1. ASSUME NEW d \in Executions, d # e, row[d].status = "queued"
        PROVE  jobs'[<<d, row[d].job>>] = jobs[<<d, row[d].job>>]
    <3>1. /\ <<d, row[d].job>> # <<e, n>> /\ <<d, row[d].job>> \notin JobsOf({e})
          /\ <<d, row[d].job>> \in JobIds
      BY <1>0, <2>1, OtherMessages
    <3>2. \E x : \/ jobs' = [jobs EXCEPT ![<<e, n>>] = x]
                 \/ jobs' = [Without(JobsOf({e})) EXCEPT ![<<e, n>>] = x]
      BY DEF WorkerStep, WorkerStarts, WorkerLoses, WorkerCompletes, WorkerRefuses,
         WorkerSkips, e, n
    <3> QED BY <1>0, <3>1, <3>2 DEF Without
  <2> QED BY <2>1
<1> QED BY <1>0, <1>1, <1>2, <1>3, <1>4, MessagesKept

(* The engine.                                                                    *)
LEMMA RunnersMessages ==
  ASSUME IInv, NEW r \in runners, RunnerStep(r)
  PROVE  MessagesOK'
<1>0. /\ ExecutionsOK /\ ContextOK /\ MessagesOK /\ row \in [Executions -> RowType]
      /\ jobs \in [JobIds -> {"none", "queued", "processing", "done"}]
      /\ r.exec \in Executions /\ row[r.exec].status # "queued"
      /\ \A d \in Executions : row[d].status = "queued" => <<d, row[d].job>> \in JobIds
  BY OtherMessages, RunnerAndRow DEF IInv, ExecutionsOK, ContextOK
<1>1. ASSUME NEW status, NEW at, NEW log, Finish(r, status, at, log), status # "queued"
      PROVE  MessagesOK'
  <2>1. CASE r.worker /\ Drained
    <3>1. \A d \in Executions : row'[d].status # "queued"
      BY <2>1 DEF Drained
    <3> QED BY <3>1 DEF MessagesOK
  <2>2. CASE ~(r.worker /\ Drained)
    <3>1. /\ row' = [row EXCEPT ![r.exec] = Saved(r, status, at, log)]
          /\ jobs' \in {jobs, [jobs EXCEPT ![<<r.exec, r.job>>] = "done"]}
          /\ UNCHANGED <<queue, up>> /\ recovery' \in {recovery, [recovery EXCEPT !.waits = NoExecution]}
      BY <1>1, <2>2 DEF Finish
    <3>2. Saved(r, status, at, log).status # "queued"
      BY <1>0, <1>1 DEF Saved
    <3>3. recovery'.on = recovery.on /\ recovery'.active = recovery.active
      BY <1>0, <3>1 DEF ContextOK
    <3>4. \A d \in Executions : row'[d].status = "queued" => row'[d] = row[d] /\ d # r.exec
      BY <1>0, <3>1, <3>2
    <3>5. \A d \in Executions \ {r.exec} : row[d].status = "queued" =>
             jobs'[<<d, row[d].job>>] = jobs[<<d, row[d].job>>]
      BY <1>0, <3>1, OtherMessages
    <3> QED BY <1>0, <3>1, <3>3, <3>4, <3>5, MessagesKept
  <2> QED BY <2>1, <2>2
<1>2. Refused(r) # "queued"
  BY DEF Refused
<1>3. ASSUME NEW next, NEW log, NEW at, Advance(r, next, log, at) PROVE MessagesOK'
  <2>1. CASE /\ row' = IF Persists(r) THEN [row EXCEPT ![r.exec].at = next, ![r.exec].log = log]
                       ELSE row
             /\ UNCHANGED <<queue, jobs, up, recovery>>
    <3>1. \A d \in Executions : row'[d].status = "queued" => row'[d] = row[d]
      BY <1>0, <2>1 DEF RowType
    <3> QED BY <1>0, <2>1, <3>1, MessagesKept
  <2> QED BY <1>1, <1>2, <1>3, <2>1 DEF Advance
<1> QED BY <1>1, <1>2, <1>3 DEF RunnerStep, StepSucceeds, StepCaught, FlowSucceeds, StepFails,
           DeadlinePasses, PersistFails

(* A resume, by a client or by the recovery, which has deleted a message of this      *)
(* execution.                                                                     *)
LEMMA ResumesMessages ==
  ASSUME IInv, NEW e \in Executions, MayResume(e), NEW n, NEW jobs0,
         jobs0 \in {jobs, Without({<<e, n>>})},
         NEW todo, NEW wait \in BOOLEAN, Resumes(e, jobs0, todo, wait),
         up' = up, recovery'.on = recovery.on, recovery'.active = recovery.active
  PROVE  MessagesOK'
<1>0. /\ ExecutionsOK /\ ContextOK /\ MessagesOK /\ row \in [Executions -> RowType]
      /\ jobs \in [JobIds -> {"none", "queued", "processing", "done"}]
      /\ row[e].status # "queued"
      /\ \A d \in Executions : row[d].status = "queued" => <<d, row[d].job>> \in JobIds
  BY OtherMessages DEF IInv, ExecutionsOK, ContextOK, MayResume
<1>1. queue' \in {queue, flow.limit} /\ (queue' = flow.limit => queue' = queue \/ queue' # NoQueue)
  <2>1. queue' = queue \/ (Throttled /\ queue' = flow.limit)
    BY DEF Resumes
  <2>2. Throttled => flow.limit # NoQueue
    BY DEF Throttled, NoQueue
  <2> QED BY <2>1, <2>2
<1>2. \A d \in Executions \ {e} : row'[d] = row[d]
  BY <1>0 DEF Resumes, AbortedRows
<1>3. \A d \in Executions : d # e /\ row[d].status = "queued" =>
        (jobs[<<d, row[d].job>>] = "queued" => jobs'[<<d, row[d].job>>] = "queued")
  <2>1. ASSUME NEW d \in Executions, d # e, row[d].status = "queued"
        PROVE  jobs'[<<d, row[d].job>>] = jobs[<<d, row[d].job>>]
    <3>1. /\ <<d, row[d].job>> \in JobIds /\ <<d, row[d].job>> \notin JobsOf({e})
          /\ \A m : <<d, row[d].job>> # <<e, m>>
      BY <1>0, <2>1, OtherMessages
    <3>2. jobs0[<<d, row[d].job>>] = jobs[<<d, row[d].job>>]
      BY <3>1 DEF Without
    <3>3. \/ jobs' = [j \in JobIds |-> IF j \in JobsOf({e}) THEN "none" ELSE jobs0[j]]
          \/ jobs' = jobs0
          \/ \E m \in FreshJobs(e, todo) :
               jobs' = [j \in JobIds |-> IF j = <<e, m>> THEN "queued"
                                         ELSE IF j = <<e, row[e].job>> THEN "none" ELSE jobs0[j]]
      BY DEF Resumes
    <3> QED BY <3>1, <3>2, <3>3
  <2> QED BY <2>1
<1>4. row'[e].status = "queued" =>
        queue' # NoQueue /\ jobs'[<<e, row'[e].job>>] = "queued"
  <2>1. \/ row' = AbortedRows({e})
        \/ row' = [row EXCEPT ![e] = Succeeded(@)]
        \/ row' = [row EXCEPT ![e].status = "running", ![e].token = Fresh]
        \/ /\ Throttled /\ queue' = flow.limit
           /\ \E m \in FreshJobs(e, todo) :
                /\ row' = [row EXCEPT ![e].status = "queued", ![e].job = m]
                /\ jobs' = [j \in JobIds |-> IF j = <<e, m>> THEN "queued"
                                         ELSE IF j = <<e, row[e].job>> THEN "none" ELSE jobs0[j]]
    <3>1. FreshJobs(e, todo) # {} =>
            (CHOOSE m \in FreshJobs(e, todo) : TRUE) \in FreshJobs(e, todo)
      OBVIOUS
    <3> QED BY <3>1, Zenon DEF Resumes
  <2>2. CASE row' = AbortedRows({e})
    <3>1. row'[e] = Aborted(row[e])
      BY <1>0, <2>2, AbortedAndTold
    <3> QED BY <1>0, <3>1 DEF Aborted, RowType
  <2>3. CASE row' = [row EXCEPT ![e] = Succeeded(@)]
    BY <1>0, <2>3 DEF Succeeded, RowType
  <2>4. CASE row' = [row EXCEPT ![e].status = "running", ![e].token = Fresh]
    BY <1>0, <2>4 DEF RowType
  <2>5. ASSUME NEW m \in FreshJobs(e, todo), Throttled, queue' = flow.limit,
               row' = [row EXCEPT ![e].status = "queued", ![e].job = m],
               jobs' = [j \in JobIds |-> IF j = <<e, m>> THEN "queued"
                                         ELSE IF j = <<e, row[e].job>> THEN "none" ELSE jobs0[j]]
        PROVE  queue' # NoQueue /\ jobs'[<<e, row'[e].job>>] = "queued"
    <3>1. m \in Numbers /\ <<e, m>> \in JobIds
      BY DEF FreshJobs, JobIds
    <3>2. row'[e].job = m
      BY <1>0, <2>5 DEF RowType
    <3>3. queue' # NoQueue
      BY <2>5 DEF Throttled, NoQueue
    <3> QED BY <2>5, <3>1, <3>2, <3>3
  <2> QED BY <2>1, <2>2, <2>3, <2>4, <2>5
<1>5. \A d \in Executions : row'[d].status = "queued" =>
           \/ /\ row[d].status = "queued" /\ row'[d].job = row[d].job
              /\ jobs[<<d, row[d].job>>] = "queued" => jobs'[<<d, row[d].job>>] = "queued"
           \/ queue' # NoQueue /\ jobs'[<<d, row'[d].job>>] = "queued"
  BY <1>2, <1>3, <1>4
<1> QED BY <1>0, <1>1, <1>5, MessagesKept

(* The recovery sends the messages that are missing.                               *)
LEMMA RecoveryMessages ==
  ASSUME IInv, Recover \/ Restart \/ RecoverStep \/ \E e \in Executions : Resume(e)
  PROVE  MessagesOK'
<1>0. /\ ExecutionsOK /\ ContextOK /\ MessagesOK /\ row \in [Executions -> RowType]
      /\ \A d \in Executions : RowOK(row[d])
      /\ jobs \in [JobIds -> {"none", "queued", "processing", "done"}]
      /\ \A d \in Executions : row[d].status = "queued" => <<d, row[d].job>> \in JobIds
  BY OtherMessages DEF IInv, ExecutionsOK, ContextOK
<1>1. CASE Recover \/ Restart
  <2>1. CASE AbortOrphans
    <3> DEFINE S == Stranded(claims)
               A == Orphans \cup Lost(S)
    <3>1. ASSUME NEW d \in Executions, row'[d].status = "queued"
          PROVE  queue' # NoQueue /\ jobs'[<<d, row'[d].job>>] = "queued"
      <4>1. /\ row' = [e \in Executions |-> IF e \in A THEN AbortedRows(A)[e] ELSE Unclaimed[e]]
            /\ RequeueAll(S, Without(JobsOf(Orphans)))
        BY <2>1 DEF AbortOrphans
      <4>2. \A e \in A : AbortedRows(A)[e] = Aborted(row[e])
        <5>1. A \in SUBSET Executions
          BY DEF Orphans, Lost, Stranded
        <5> HIDE DEF A
        <5> QED BY <1>0, <5>1, AbortedAndTold
      <4>3. d \notin A
        BY <1>0, <3>1, <4>1, <4>2 DEF Aborted, RowType
      <4>4. row'[d] = Unclaimed[d]
        BY <4>1, <4>3
      <4>5. row[d].status = "queued" /\ row'[d].job = row[d].job
        BY <1>0, <3>1, <4>4 DEF Unclaimed, RowType
      <4>6. d \in S
        BY <1>0, <4>5, ClaimedIsNotQueued DEF Stranded
      <4>7. flow.exists /\ flow.enabled
        BY <4>3, <4>6 DEF Lost
      <4>8. queue' # NoQueue
        BY <4>1, <4>6, <4>7 DEF RequeueAll, Throttled, NoQueue, DrainConcurrency
      <4>9. jobs'[<<d, row[d].job>>] = "queued"
        BY <1>0, <4>1, <4>5, <4>6, <4>7 DEF RequeueAll
      <4> QED BY <4>5, <4>8, <4>9
    <3> QED BY <3>1 DEF MessagesOK
  <2>2. CASE ResumeOrphans
    <3>1. recovery'.on = TRUE /\ recovery'.active = claims /\ row' = Unclaimed
      BY <2>2 DEF ResumeOrphans
    <3>2. \A d \in Executions : row'[d].status = "queued" => row[d].status = "queued"
      BY <1>0, <3>1 DEF Unclaimed, RowType
    <3>3. \A d \in claims : row[d].status # "queued"
      BY <1>0, ClaimedIsNotQueued
    <3> QED BY <3>1, <3>2, <3>3 DEF MessagesOK
  <2> QED BY <1>1, <2>1, <2>2 DEF Recover, Restart
<1>2. ASSUME NEW t \in recovery.todo, RecoverOne(t[1], t[2]) PROVE MessagesOK'
  <2> DEFINE e == t[1]
             n == t[2]
             jobs0 == Without({<<e, n>>})
  <2>1. e \in Executions /\ up' = up
    BY <1>0, <1>2 DEF ContextOK, RecoverOne
  <2>2. recovery'.on = recovery.on /\ recovery'.active = recovery.active
    <3>1. PICK w \in {NoExecution, e} :
            recovery' = [recovery EXCEPT !.todo = @ \ {<<e, n>>}, !.waits = w]
      BY <1>2 DEF RecoverOne
    <3> QED BY <1>0, <3>1 DEF ContextOK
  <2>3. CASE MayResume(e)
    <3>1. Resumes(e, jobs0, recovery.todo \ {<<e, n>>}, FALSE)
      BY <1>2, <2>3 DEF RecoverOne
    <3> HIDE DEF e, n
    <3> QED BY <2>1, <2>2, <2>3, <3>1, ResumesMessages
  <2>4. CASE ~MayResume(e)
    <3>1. queue' = queue
      BY <1>2, <2>4 DEF RecoverOne
    <3>2. \/ jobs' = jobs0 /\ row' = row /\ (e \in claims \/ row[e].token # NoToken)
          \/ /\ row' = AbortedRows({e})
             /\ jobs' = [j \in JobIds |-> IF j \in JobsOf({e}) THEN "none" ELSE jobs0[j]]
      BY <1>2, <2>4 DEF RecoverOne, AbortAll
    <3>3. row'[e].status # "queued"
      <4>1. CASE row' = row /\ (e \in claims \/ row[e].token # NoToken)
        BY <1>0, <2>1, <4>1, ClaimedIsNotQueued DEF RowOK
      <4>2. CASE row' = AbortedRows({e})
        <5>1. row'[e] = Aborted(row[e])
          BY <1>0, <2>1, <4>2, AbortedAndTold
        <5> QED BY <1>0, <2>1, <5>1 DEF Aborted, RowType
      <4> QED BY <3>2, <4>1, <4>2
    <3>4. \A d \in Executions \ {e} : row'[d] = row[d]
      BY <1>0, <2>1, <3>2 DEF AbortedRows
    <3>5. \A d \in Executions : d # e /\ row[d].status = "queued" =>
             jobs'[<<d, row[d].job>>] = jobs[<<d, row[d].job>>]
      <4>1. ASSUME NEW d \in Executions, d # e, row[d].status = "queued"
            PROVE  jobs'[<<d, row[d].job>>] = jobs[<<d, row[d].job>>]
        <5>1. /\ <<d, row[d].job>> \in JobIds /\ <<d, row[d].job>> \notin JobsOf({e})
              /\ <<d, row[d].job>> # <<e, n>>
          BY <1>0, <2>1, <4>1, OtherMessages
        <5> QED BY <3>2, <5>1 DEF Without
      <4> QED BY <4>1
    <3> HIDE DEF e
    <3> QED BY <1>0, <2>1, <2>2, <3>1, <3>3, <3>4, <3>5, MessagesKept
  <2> QED BY <2>3, <2>4
<1>3. CASE RecoverQueued
  <2> DEFINE S == Stranded(recovery.active)
  <2>1. RequeueAll(S, jobs) /\ AbortAll(Lost(S)) /\ up' = up /\ up
    BY <1>3 DEF RecoverQueued
  <2>2. ASSUME NEW d \in Executions, row'[d].status = "queued"
        PROVE  queue' # NoQueue /\ jobs'[<<d, row'[d].job>>] = "queued"
    <3>1. S \in SUBSET Executions /\ Lost(S) \in SUBSET Executions
      BY DEF Stranded, Lost
    <3>2. row' = [e \in Executions |-> IF e \in Lost(S) THEN Aborted(row[e]) ELSE row[e]]
      BY <1>0, <2>1, <3>1, AbortedAndTold DEF AbortAll
    <3>3. d \notin Lost(S) /\ row'[d] = row[d] /\ row[d].status = "queued"
      BY <1>0, <2>2, <3>2 DEF Aborted, RowType
    <3>4. CASE d \in S
      <4>1. flow.exists /\ flow.enabled
        BY <3>3, <3>4 DEF Lost
      <4>2. queue' # NoQueue
        BY <2>1, <3>4, <4>1 DEF RequeueAll, Throttled, NoQueue, DrainConcurrency
      <4>3. jobs'[<<d, row[d].job>>] = "queued"
        BY <1>0, <2>1, <3>3, <3>4, <4>1 DEF RequeueAll
      <4> QED BY <3>3, <4>2, <4>3
    <3>5. CASE d \notin S
      <4>1. d \in recovery.active
        BY <3>3, <3>5 DEF Stranded
      <4>2. queue # NoQueue /\ jobs[<<d, row[d].job>>] = "queued"
        BY <1>0, <2>1, <3>3, <4>1 DEF MessagesOK
      <4>3. queue' # NoQueue
        BY <2>1, <4>2 DEF RequeueAll, Throttled, NoQueue, DrainConcurrency
      <4>4. <<d, row[d].job>> \in JobIds /\ <<d, row[d].job>> \notin JobsOf(S)
        BY <1>0, <3>1, <3>3, <3>5, OtherMessages
      <4>5. jobs'[<<d, row[d].job>>] = "queued"
        BY <2>1, <4>2, <4>4 DEF RequeueAll
      <4> QED BY <3>3, <4>3, <4>5
    <3> QED BY <3>4, <3>5
  <2> QED BY <2>2 DEF MessagesOK
<1>4. ASSUME NEW e \in Executions, Resume(e) PROVE MessagesOK'
  <2>1. PICK wait \in BOOLEAN : Resumes(e, jobs, recovery.todo, wait)
    BY <1>4 DEF Resume
  <2>2. MayResume(e) /\ UNCHANGED <<up, recovery>>
    BY <1>4 DEF Resume
  <2> QED BY <2>1, <2>2, ResumesMessages
<1> QED BY <1>1, <1>2, <1>3, <1>4 DEF RecoverStep

-----------------------------------------------------------------------------
(* The invariant, and what follows from it.                                       *)

(* No execution is there at first.                                                *)
LEMMA StartsWell == ASSUME Init PROVE IInv
<1>1. RowOK(NoRow) /\ NoRow \in RowType /\ NoRow.status = "none"
  BY DEF NoRow, RowOK, RowType, Statuses, Path, NoState, NoToken, NoJob
<1>2. /\ runners = {} /\ claims = {} /\ suppressed = {} /\ waiters = {} /\ up = TRUE
      /\ row = [e \in Executions |-> NoRow] /\ jobs = [j \in JobIds |-> "none"] /\ recovery = Idle
      /\ crashes = 0 /\ uses = [e \in Executions |-> 0]
      /\ flow \in [exists : BOOLEAN, enabled : BOOLEAN, limit : Limits, def : Definitions]
      /\ queue \in Limits
  BY DEF Init
<1>3. \A e \in Executions : Of(e) = {}
  BY <1>2 DEF Of
<1>4. \A e \in Executions : Fits(row[e], Of(e), e \in claims, e \in suppressed, up)
  BY <1>1, <1>2, <1>3 DEF Fits
<1>5. ExecutionsOK
  BY <1>1, <1>2, <1>4 DEF ExecutionsOK
<1>6. MessagesOK
  BY <1>1, <1>2 DEF MessagesOK
<1>7. ContextOK
  <2>1. 0 \in 0 .. MaxCrashes /\ 0 \in 0 .. MaxUses
    BY BoundsAssumption
  <2> QED BY <1>2, <2>1 DEF ContextOK, Idle
<1> QED BY <1>5, <1>6, <1>7 DEF IInv

(* Every step keeps the invariant.                                                *)
LEMMA StepKeeps == IInv /\ [Next]_vars => IInv'
<1> SUFFICES ASSUME IInv, [Next]_vars PROVE IInv'
  OBVIOUS
<1>1. CASE (ClientStep \/ TimerStep) /\ ~Recover /\ \A e \in Executions : ~Resume(e)
  BY <1>1, ClientsWell, ClientsContext, ClientsMessages DEF IInv
<1>2. CASE Recover \/ Restart \/ RecoverStep \/ \E e \in Executions : Resume(e)
  <2>1. ExecutionsOK'
    BY <1>2, RecoversWell, ClientsWell DEF ClientStep
  <2> QED BY <1>2, <2>1, RecoveryContext, RecoveryMessages DEF IInv
<1>3. CASE Crashes
  BY <1>3, CrashesWell DEF IInv, MessagesOK
<1>4. ASSUME NEW j \in JobIds, WorkerStep(j[1], j[2]) PROVE IInv'
  BY <1>4, WorksWell, WorkersContext, WorkersMessages DEF IInv
<1>5. ASSUME NEW r \in runners, RunnerStep(r) PROVE IInv'
  BY <1>5, RunsWell, WorkersContext, RunnersMessages DEF IInv
<1>6. CASE UNCHANGED vars
  <2>1. /\ UNCHANGED <<row, runners, claims, up, suppressed>>
        /\ UNCHANGED <<flow, queue, jobs, crashes, uses, waiters, recovery>>
    BY <1>6 DEF vars, disk, memory, count
  <2>2. ExecutionsOK'
    BY <2>1, Untouched DEF IInv
  <2>3. MessagesOK' /\ ContextOK'
    BY <2>1 DEF IInv, MessagesOK, ContextOK
  <2> QED BY <2>2, <2>3 DEF IInv
<1> QED BY <1>1, <1>2, <1>3, <1>4, <1>5, <1>6 DEF Next

(* The invariant holds in every state.                                            *)
LEMMA FlowInvariant == Spec => []IInv
<1>1. Init => IInv
  BY StartsWell
<1> QED BY <1>1, StepKeeps, PTL DEF Spec

RobbedOK == robbed \subseteq Executions

(* Only an execution with an engine loses its message while it works.              *)
LEMMA RobbedHaveEngines ==
  ASSUME IInv, robbed \subseteq Executions, [Next]_vars
  PROVE  robbed' \subseteq Executions
<1>0. WorkingOn(Processing) \subseteq Executions /\ \A J : WorkingOn(J) \subseteq Executions
  BY DEF WorkingOn, Working, IInv, ExecutionsOK, RunnerType
<1>1. ASSUME NEW r \in runners, RunnerStep(r) PROVE robbed' \subseteq Executions
  <2>1. ASSUME NEW status, NEW at, NEW log, Finish(r, status, at, log)
        PROVE  robbed' \subseteq Executions
    BY <1>0, <2>1 DEF Finish
  <2>2. ASSUME NEW next, NEW log, NEW at, Advance(r, next, log, at)
        PROVE  robbed' \subseteq Executions
    BY <2>1, <2>2 DEF Advance, count
  <2> QED BY <1>1, <2>1, <2>2 DEF RunnerStep, StepSucceeds, StepCaught, FlowSucceeds, StepFails,
             DeadlinePasses, PersistFails
<1>2. CASE Crashes
  BY <1>2 DEF Crashes, Crash, CrashInExecute, CrashInResume, CrashInAbort, CrashInClaim,
     CrashInSave, CrashAfterSave, Down
<1>3. CASE RecoverStep
  <2>1. ASSUME NEW t \in recovery.todo, RecoverOne(t[1], t[2]) PROVE robbed' \subseteq Executions
    BY <1>0, <2>1 DEF RecoverOne
  <2> QED BY <1>3, <2>1 DEF RecoverStep, RecoverQueued, count
<1>4. CASE ClientStep \/ TimerStep \/ Restart
  <2>1. robbed' = robbed
    BY <1>4 DEF ClientStep, TimerStep, Restart, UpdateFlow, ClearExecutions, DeleteFlow, Recover,
       ExecuteQueued, ExecuteDirectly, Resume, Abort, WaiterTimesOut, Unsuppress, SweepJob, count
  <2> QED BY <2>1
<1>5. ASSUME NEW j \in JobIds, WorkerStep(j[1], j[2]) PROVE robbed' \subseteq Executions
  BY <1>5 DEF WorkerStep, WorkerStarts, WorkerLoses, WorkerCompletes, WorkerRefuses, WorkerSkips,
     count
<1>6. CASE UNCHANGED vars
  BY <1>6 DEF vars, count
<1> QED BY <1>1, <1>2, <1>3, <1>4, <1>5, <1>6 DEF Next

(* Every variable has its type.                                                   *)
THEOREM FlowTypes == Spec => []TypeOK
<1>1. Init => RobbedOK
  BY DEF Init, RobbedOK
<1>2. IInv /\ RobbedOK /\ [Next]_vars => RobbedOK'
  BY RobbedHaveEngines DEF RobbedOK
<1>3. IInv /\ RobbedOK => TypeOK
  BY WhatTheInvariantSays DEF RobbedOK
<1> QED BY <1>1, <1>2, <1>3, FlowInvariant, PTL DEF Spec

(* At most one call of the engine works on an execution, it holds the claim, and     *)
(* until it is told to stop the row is its own (persistCheckpoint and the claims).   *)
THEOREM OneEnginePerExecution == Spec => []RunnerOwnsRow
<1>1. IInv => RunnerOwnsRow
  BY WhatTheInvariantSays
<1> QED BY <1>1, FlowInvariant, PTL

(* What an execution ran is a path of the flow, across checkpoints, crashes, resumes  *)
(* and changes of the definition, and one that succeeded reached the end.            *)
THEOREM ExecutionsFollowTheFlow == Spec => []LogIsAPath
<1>1. IInv => LogIsAPath
  BY WhatTheInvariantSays
<1> QED BY <1>1, FlowInvariant, PTL

(* Outside a recovery every queued execution has a message the queue hands out.      *)
THEOREM QueuedExecutionsCanStart == Spec => []QueuedHasMessage
<1>1. IInv => QueuedHasMessage
  BY WhatTheInvariantSays
<1> QED BY <1>1, FlowInvariant, PTL

(* No execution that could go on is held back by a claim or a token nobody holds.    *)
THEOREM NoStaleClaims == Spec => []ClaimsAreHeld
<1>1. IInv => ClaimsAreHeld
  BY WhatTheInvariantSays
<1> QED BY <1>1, FlowInvariant, PTL

-----------------------------------------------------------------------------
(* An aborted execution stays aborted.                                            *)

AbortsKept == \A e \in Executions : row[e].status = "aborted" => row'[e] \in {row[e], NoRow}

(* What is not queued and not running is not aborted again, nor is its token taken.   *)
LEMMA AbortKeepsAborted ==
  ASSUME ExecutionsOK, NEW S, NEW e \in Executions, row[e].status = "aborted"
  PROVE  AbortedRows(S)[e] = row[e] /\ Unclaimed[e] = row[e]
BY DEF AbortedRows, Unclaimed, Pending

(* A step that changes the row of one execution, which was not aborted.              *)
LEMMA OneRowChanges ==
  ASSUME NEW e \in Executions, \A d \in Executions \ {e} : row'[d] = row[d],
         row[e].status = "aborted" => row'[e] = row[e]
  PROVE  AbortsKept
BY DEF AbortsKept

(* A resume does not bring back what was aborted.                                    *)
LEMMA ResumesKeepAborted ==
  ASSUME ExecutionsOK, NEW e \in Executions, MayResume(e), NEW jobs0, NEW todo, NEW wait,
         Resumes(e, jobs0, todo, wait)
  PROVE  AbortsKept
<1>1. row[e].status # "aborted"
  BY DEF MayResume
<1>2. row' = AbortedRows({e}) \/ \A d \in Executions \ {e} : row'[d] = row[d]
  BY DEF Resumes, ExecutionsOK
<1> QED BY <1>1, <1>2, AbortKeepsAborted, OneRowChanges DEF AbortsKept

(* Every step keeps aborted rows or deletes them.                                    *)
LEMMA StepKeepsAborted == IInv /\ [Next]_vars => AbortsKept
<1> SUFFICES ASSUME IInv, [Next]_vars PROVE AbortsKept
  OBVIOUS
<1>0. ExecutionsOK /\ row \in [Executions -> RowType] /\ ContextOK
  BY DEF IInv, ExecutionsOK
<1>1. ASSUME NEW S, row' = AbortedRows(S) PROVE AbortsKept
  BY <1>0, <1>1, AbortKeepsAborted DEF AbortsKept
<1>2. ASSUME row' = row PROVE AbortsKept
  BY <1>2 DEF AbortsKept
<1>3. CASE ClientStep \/ TimerStep \/ Restart
  <2>1. CASE UpdateFlow
    BY <1>2, <2>1 DEF UpdateFlow
  <2>2. CASE ClearExecutions \/ DeleteFlow
    BY <2>2 DEF ClearExecutions, DeleteFlow, Forget, AbortsKept
  <2>3. CASE Recover \/ Restart
    <3>1. CASE AbortOrphans
      <4>1. PICK A : row' = [e \in Executions |-> IF e \in A THEN AbortedRows(A)[e] ELSE Unclaimed[e]]
        BY <3>1 DEF AbortOrphans
      <4> QED BY <1>0, <4>1, AbortKeepsAborted DEF AbortsKept
    <3>2. CASE ResumeOrphans
      <4>1. row' = Unclaimed
        BY <3>2 DEF ResumeOrphans
      <4> QED BY <1>0, <4>1, AbortKeepsAborted DEF AbortsKept
    <3> QED BY <2>3, <3>1, <3>2 DEF Recover, Restart
  <2>4. ASSUME NEW e \in Executions, ExecuteQueued(e) \/ ExecuteDirectly(e) PROVE AbortsKept
    <3>1. row[e] = NoRow
      BY <2>4 DEF ExecuteQueued, ExecuteDirectly, MayExecute
    <3>2. row[e].status # "aborted"
      BY <3>1 DEF NoRow
    <3>3. \A d \in Executions \ {e} : row'[d] = row[d]
      BY <1>0, <2>4 DEF ExecuteQueued, ExecuteDirectly, Recorded
    <3> QED BY <3>2, <3>3, OneRowChanges
  <2>5. ASSUME NEW e \in Executions, Resume(e) PROVE AbortsKept
    <3>1. PICK wait \in BOOLEAN : Resumes(e, jobs, recovery.todo, wait)
      BY <2>5 DEF Resume
    <3> QED BY <1>0, <2>5, <3>1, ResumesKeepAborted DEF Resume
  <2>6. ASSUME NEW e \in Executions, Abort(e) \/ WaiterTimesOut(e) PROVE AbortsKept
    BY <1>1, <2>6 DEF Abort, WaiterTimesOut, AbortAll
  <2>7. ASSUME NEW e \in Executions, Unsuppress(e) PROVE AbortsKept
    BY <1>2, <2>7 DEF Unsuppress, disk
  <2>8. ASSUME NEW j \in JobIds, SweepJob(j) PROVE AbortsKept
    BY <1>2, <2>8 DEF SweepJob
  <2> QED BY <1>3, <2>1, <2>2, <2>3, <2>4, <2>5, <2>6, <2>7, <2>8 DEF ClientStep, TimerStep
<1>4. CASE RecoverStep
  <2>1. CASE RecoverQueued
    BY <1>1, <2>1 DEF RecoverQueued, AbortAll
  <2>2. ASSUME NEW t \in recovery.todo, RecoverOne(t[1], t[2]) PROVE AbortsKept
    <3>1. t[1] \in Executions
      BY <1>0 DEF ContextOK
    <3>2. CASE MayResume(t[1])
      BY <1>0, <2>2, <3>1, <3>2, ResumesKeepAborted DEF RecoverOne
    <3>3. CASE ~MayResume(t[1])
      BY <1>1, <1>2, <2>2, <3>3 DEF RecoverOne, AbortAll
    <3> QED BY <3>2, <3>3
  <2> QED BY <1>4, <2>1, <2>2 DEF RecoverStep
<1>5. ASSUME NEW j \in JobIds, WorkerStep(j[1], j[2]) PROVE AbortsKept
  <2> DEFINE e == j[1]
  <2>1. e \in Executions
    BY DEF JobIds
  <2>2. \/ \E S : row' = AbortedRows(S)
        \/ row' = row
        \/ row[e].status # "aborted" /\ \A d \in Executions \ {e} : row'[d] = row[d]
    BY <1>0, <1>5 DEF WorkerStep, WorkerStarts, WorkerLoses, WorkerCompletes, WorkerRefuses,
       WorkerSkips, AbortAll, Startable
  <2> QED BY <1>0, <1>1, <1>2, <2>1, <2>2, OneRowChanges
<1>6. ASSUME NEW r \in runners, RunnerStep(r) PROVE AbortsKept
  <2>1. r.exec \in Executions
    BY <1>0, RunnerAndRow
  <2>2. ASSUME NEW status, NEW at, NEW log, Finish(r, status, at, log) PROVE AbortsKept
    <3>1. row' = [row EXCEPT ![r.exec] = Saved(r, status, at, log)]
      BY <2>2 DEF Finish
    <3>2. row[r.exec].status = "aborted" => Saved(r, status, at, log) = row[r.exec]
      BY DEF Saved
    <3>3. \A d \in Executions \ {r.exec} : row'[d] = row[d]
      BY <1>0, <3>1
    <3> QED BY <1>0, <2>1, <3>1, <3>2, <3>3, OneRowChanges
  <2>3. ASSUME NEW next, NEW log, NEW at, Advance(r, next, log, at) PROVE AbortsKept
    <3>1. CASE row' = IF Persists(r) THEN [row EXCEPT ![r.exec].at = next, ![r.exec].log = log]
                      ELSE row
      <4>1. CASE Persists(r)
        <5>1. row[r.exec].status # "aborted"
          BY <4>1 DEF Persists
        <5>2. \A d \in Executions \ {r.exec} : row'[d] = row[d]
          BY <1>0, <3>1, <4>1
        <5> QED BY <1>0, <2>1, <5>1, <5>2, OneRowChanges
      <4>2. CASE ~Persists(r)
        BY <1>2, <3>1, <4>2
      <4> QED BY <4>1, <4>2
    <3> QED BY <2>2, <2>3, <3>1 DEF Advance
  <2> QED BY <1>6, <2>2, <2>3 DEF RunnerStep, StepSucceeds, StepCaught, FlowSucceeds, StepFails,
             DeadlinePasses, PersistFails
<1>7. CASE Crashes
  <2>0. ASSUME NEW messages, Down(row, messages) PROVE AbortsKept
    BY <1>2, <2>0 DEF Down
  <2>1. CASE Crash \/ (\E e \in Executions : CrashInAbort(e)) \/ (\E j \in JobIds : CrashInClaim(j))
    BY <2>0, <2>1 DEF Crash, CrashInAbort, CrashInClaim
  <2>2. ASSUME NEW e \in Executions, CrashInExecute(e) PROVE AbortsKept
    <3>1. row[e].status # "aborted"
      BY <2>2 DEF CrashInExecute, MayExecute, NoRow
    <3>2. \A d \in Executions \ {e} : row'[d] = row[d]
      BY <1>0, <2>2 DEF CrashInExecute, Down, Recorded
    <3> QED BY <3>1, <3>2, OneRowChanges
  <2>3. ASSUME NEW e \in Executions, CrashInResume(e) PROVE AbortsKept
    <3>1. row[e].status # "aborted"
      BY <2>3 DEF CrashInResume, MayResume
    <3>2. \A d \in Executions \ {e} : row'[d] = row[d]
      BY <1>0, <2>3 DEF CrashInResume, Down
    <3> QED BY <1>0, <3>1, <3>2, OneRowChanges
  <2>4. ASSUME NEW r \in runners, CrashInSave(r) PROVE AbortsKept
    <3>1. row[r.exec].status # "aborted" /\ r.exec \in Executions
      BY <1>0, <2>4, RunnerAndRow DEF CrashInSave, Persists
    <3>2. \A d \in Executions \ {r.exec} : row'[d] = row[d]
      BY <1>0, <2>4, <3>1 DEF CrashInSave, Down
    <3> QED BY <1>0, <3>1, <3>2, OneRowChanges
  <2>5. ASSUME NEW r \in runners, CrashAfterSave(r) PROVE AbortsKept
    <3> DEFINE x == Saved(r, "succeeded", NoState, Append(r.log, Log(r.at, TRUE, End)))
    <3>1. row' = [row EXCEPT ![r.exec] = x]
      BY <2>5 DEF CrashAfterSave, Down
    <3>2. row[r.exec].status = "aborted" => x = row[r.exec]
      BY DEF Saved
    <3>3. r.exec \in Executions
      BY <1>0, RunnerAndRow
    <3> HIDE DEF x
    <3>4. \A d \in Executions \ {r.exec} : row'[d] = row[d]
      BY <1>0, <3>1
    <3> QED BY <1>0, <3>1, <3>2, <3>3, <3>4, OneRowChanges
  <2> QED BY <1>7, <2>1, <2>2, <2>3, <2>4, <2>5 DEF Crashes
<1>8. CASE UNCHANGED vars
  BY <1>2, <1>8 DEF vars, disk
<1> QED BY <1>3, <1>4, <1>5, <1>6, <1>7, <1>8 DEF Next

(* An aborted execution stays aborted until its row is deleted, whatever its engine    *)
(* still reports and whoever resumes or recovers.                                     *)
THEOREM AbortsAreFinal == Spec => AbortedIsFinal
<1>1. IInv /\ [Next]_vars => [AbortsKept]_vars
  BY StepKeepsAborted
<1>2. Spec => [][AbortsKept]_vars
  BY <1>1, FlowInvariant, PTL DEF Spec
<1> QED BY <1>2, PTL DEF AbortedIsFinal, AbortsKept

-----------------------------------------------------------------------------
(* Nobody waits for an execution that is over.                                    *)

\* The engine that the queue's worker started will settle the waiter.
Settles(e) == \E r \in runners : r.exec = e /\ r.worker /\ ~r.aborted

WaitersOK == \A e \in waiters : row[e] # NoRow => row[e].status = "queued" \/ Settles(e)

\* Under an id that was never used there is nothing.
UnusedOK == \A e \in Executions : uses[e] = 0 => e \notin waiters /\ row[e] = NoRow

\* Either a flow always has a limit, or no id is used for a second execution.
AlwaysLimited == 0 \notin Limits
UsedOnce      == MaxUses = 1

(* A flow that always has a limit never starts an execution past its queue.         *)
LEMMA LimitedFlows ==
  ASSUME ContextOK, AlwaysLimited
  PROVE  Throttled
<1>1. flow.limit \in Limits /\ flow.limit # 0 /\ Limits \subseteq Nat
  BY BoundsAssumption DEF ContextOK, AlwaysLimited
<1>2. \A n \in Nat : n # 0 => n >= 1
  OBVIOUS
<1>3. flow.limit \in Nat
  BY <1>1
<1> QED BY <1>1, <1>2, <1>3 DEF Throttled

(* A waiter whose execution is not queued has a runner, which works on the row.      *)
LEMMA WaiterAndRow ==
  ASSUME ExecutionsOK, WaitersOK, NEW e \in waiters, e \in Executions
  PROVE  /\ row[e].status \notin {"none", "queued", "running"} => FALSE
         /\ Settles(e) => row[e] = NoRow \/ row[e].status = "running"
         /\ row[e] # NoRow /\ e \notin claims => row[e].status = "queued"
<1>1. NoRow.status = "none" /\ RowOK(row[e])
  BY DEF NoRow, ExecutionsOK
<1>2. Settles(e) => (row[e] = NoRow \/ row[e].status = "running") /\ e \in claims
  BY RunnerAndRow DEF Settles, Attached
<1> QED BY <1>1, <1>2 DEF WaitersOK

(* A step that leaves waiters what they wait for.                                  *)
LEMMA WaitersKept ==
  ASSUME WaitersOK,
         \A e \in waiters' : \/ row'[e] = NoRow
                             \/ row'[e].status = "queued"
                             \/ Settles(e)'
                             \/ e \in waiters /\ row'[e] = row[e] /\ (Settles(e) => Settles(e)')
  PROVE  WaitersOK'
BY DEF WaitersOK

(* An abort settles the waiters of what it aborts.                                 *)
LEMMA AbortSettles ==
  ASSUME ExecutionsOK, WaitersOK, waiters \subseteq Executions, NEW S \in SUBSET Executions,
         row' = AbortedRows(S), runners' = Signalled(S), waiters' \subseteq waiters,
         \A e \in waiters' \cap S : ~Pending(e)
  PROVE  WaitersOK'
<1>1. ASSUME NEW e \in waiters', e \in S PROVE row'[e] = NoRow
  <2>1. e \in waiters /\ row[e].status \notin {"queued", "running"} /\ row'[e] = row[e]
    BY <1>1 DEF Pending, AbortedRows
  <2> QED BY <2>1, WaiterAndRow DEF ExecutionsOK, RowOK
<1>2. ASSUME NEW e \in waiters', e \notin S PROVE row'[e] = row[e] /\ (Settles(e) => Settles(e)')
  <2>1. {r \in runners' : r.exec = e} = Of(e) /\ row'[e] = row[e]
    BY <1>2, AbortedAndTold DEF AbortedRows
  <2> QED BY <2>1 DEF Settles, Of
<1> QED BY <1>1, <1>2, WaitersKept

(* A resume leaves nobody waiting for what it ends.                                *)
LEMMA ResumeSettles ==
  ASSUME IInv, WaitersOK, NEW e \in Executions, MayResume(e), NEW jobs0, NEW todo,
         NEW wait \in BOOLEAN, Resumes(e, jobs0, todo, wait)
  PROVE  WaitersOK'
<1>0. ExecutionsOK /\ waiters \subseteq Executions /\ row \in [Executions -> RowType] /\ e \notin claims
  BY DEF IInv, ExecutionsOK, ContextOK, MayResume
<1>1. e \notin waiters
  <2>1. row[e] # NoRow /\ row[e].status # "queued"
    BY DEF MayResume, NoRow
  <2> QED BY <1>0, <2>1, WaiterAndRow
<1>2. CASE row' = AbortedRows({e}) /\ runners' = Signalled({e}) /\ waiters' \subseteq waiters
  BY <1>0, <1>1, <1>2, AbortSettles
<1>3. CASE /\ runners \subseteq runners'
           /\ \A d \in Executions \ {e} : row'[d] = row[d]
           /\ waiters' \subseteq waiters \/ (waiters' \subseteq waiters \cup {e} /\ row'[e].status = "queued")
  <2>1. \A d \in Executions : Settles(d) => Settles(d)'
    BY <1>3 DEF Settles
  <2> QED BY <1>0, <1>1, <1>3, <2>1, WaitersKept
<1>4. \/ row' = AbortedRows({e}) /\ runners' = Signalled({e}) /\ waiters' \subseteq waiters
      \/ \E x : row' = [row EXCEPT ![e] = x] /\ runners \subseteq runners' /\ waiters' = waiters
      \/ /\ \E n : row' = [row EXCEPT ![e].status = "queued", ![e].job = n]
         /\ runners' = runners /\ waiters' \subseteq waiters \cup {e}
  BY DEF Resumes
<1>5. ASSUME NEW x, row' = [row EXCEPT ![e] = x] PROVE \A d \in Executions \ {e} : row'[d] = row[d]
  BY <1>0, <1>5
<1>6. ASSUME NEW n, row' = [row EXCEPT ![e].status = "queued", ![e].job = n]
      PROVE  (\A d \in Executions \ {e} : row'[d] = row[d]) /\ row'[e].status = "queued"
  BY <1>0, <1>6 DEF RowType
<1> QED BY <1>2, <1>3, <1>4, <1>5, <1>6

(* Every step settles the waiters of the executions it ends.                         *)
LEMMA StepSettles ==
  ASSUME AlwaysLimited \/ UsedOnce, IInv, WaitersOK, UnusedOK, [Next]_vars
  PROVE  WaitersOK'
<1>0. /\ ExecutionsOK /\ ContextOK /\ waiters \subseteq Executions
      /\ row \in [Executions -> RowType] /\ claims \subseteq Executions
  BY DEF IInv, ExecutionsOK, ContextOK
<1>1. ASSUME waiters' \subseteq waiters, runners' = runners, row' = row PROVE WaitersOK'
  BY <1>1, WaitersKept DEF Settles
<1>2. ASSUME NEW e \in Executions, waiters' \subseteq waiters \ {e} \/ row'[e].status = "queued" \/ row'[e] = NoRow,
             waiters' \subseteq waiters \cup {e},
             \A d \in Executions \ {e} : row'[d] = row[d],
             \A r \in runners : r.exec # e => r \in runners'
      PROVE  WaitersOK'
  <2>1. \A d \in Executions \ {e} : Settles(d) => Settles(d)'
    BY <1>2 DEF Settles
  <2> QED BY <1>0, <1>2, <2>1, WaitersKept
<1>3. CASE ClientStep \/ TimerStep \/ Restart
  <2>1. CASE UpdateFlow
    BY <1>1, <2>1 DEF UpdateFlow, memory
  <2>2. CASE ClearExecutions \/ DeleteFlow
    <3>1. /\ \A e \in Executions : row'[e] = NoRow
          /\ waiters' \subseteq waiters
      BY <2>2 DEF ClearExecutions, DeleteFlow, Forget
    <3> QED BY <1>0, <3>1 DEF WaitersOK
  <2>3. CASE Recover \/ Restart
    <3>1. PICK A \in SUBSET Executions :
            /\ \A e \in Executions \ A : row'[e] = Unclaimed[e]
            /\ runners' = runners /\ waiters' \subseteq waiters \ A
      <4>1. CASE AbortOrphans
        <5> DEFINE A == Orphans \cup Lost(Stranded(claims))
        <5>1. A \in SUBSET Executions /\ A \cap claims = {}
          BY DEF Orphans, Lost, Stranded
        <5>2. /\ \A e \in Executions \ A : row'[e] = Unclaimed[e]
              /\ runners' = Signalled(A) /\ waiters' = waiters \ A
          BY <4>1 DEF AbortOrphans
        <5> HIDE DEF A
        <5> QED BY <1>0, <5>1, <5>2, NobodyToTell
      <4>2. CASE ResumeOrphans
        BY <4>2 DEF ResumeOrphans
      <4> QED BY <2>3, <4>1, <4>2 DEF Recover, Restart
    <3>2. ASSUME NEW e \in waiters'
          PROVE  \/ row'[e] = NoRow
                 \/ row'[e].status = "queued"
                 \/ Settles(e)'
      <4>1. e \in waiters /\ e \in Executions /\ row'[e] = Unclaimed[e]
        BY <1>0, <3>1
      <4>2. row[e] = NoRow => row'[e] = NoRow
        BY <4>1 DEF Unclaimed, Pending, NoRow
      <4>3. row[e].status = "queued" => row'[e].status = "queued"
        BY <1>0, <4>1 DEF Unclaimed, RowType
      <4>4. Settles(e) => Settles(e)'
        BY <3>1 DEF Settles
      <4> QED BY <4>1, <4>2, <4>3, <4>4 DEF WaitersOK
    <3> QED BY <3>2, WaitersKept
  <2>4. ASSUME NEW e \in Executions, ExecuteQueued(e) PROVE WaitersOK'
    <3>1. runners' = runners /\ row[e] = NoRow /\ waiters' \subseteq waiters \cup {e}
      BY <2>4 DEF ExecuteQueued, MayExecute
    <3>2. \A d \in Executions \ {e} : row'[d] = row[d]
      BY <1>0, <2>4 DEF ExecuteQueued, Recorded
    <3>3. waiters' \subseteq waiters \ {e} \/ row'[e].status = "queued" \/ row'[e] = NoRow
      BY <1>0, <2>4, <3>1 DEF ExecuteQueued, Recorded, New
    <3> QED BY <1>2, <3>1, <3>2, <3>3
  <2>5. ASSUME NEW e \in Executions, ExecuteDirectly(e) PROVE WaitersOK'
    <3>1. e \notin waiters
      <4>1. UsedOnce
        BY <1>0, <2>5, LimitedFlows DEF ExecuteDirectly
      <4>2. uses[e] = 0
        BY <1>0, <2>5, <4>1 DEF ExecuteDirectly, MayExecute, UsedOnce, ContextOK
      <4> QED BY <4>2 DEF UnusedOK
    <3>2. runners \subseteq runners' /\ waiters' = waiters
      BY <2>5 DEF ExecuteDirectly
    <3>3. \A d \in Executions \ {e} : row'[d] = row[d]
      BY <1>0, <2>5 DEF ExecuteDirectly, Recorded
    <3> QED BY <1>2, <3>1, <3>2, <3>3
  <2>6. ASSUME NEW e \in Executions, Resume(e) PROVE WaitersOK'
    <3>1. PICK wait \in BOOLEAN : Resumes(e, jobs, recovery.todo, wait)
      BY <2>6 DEF Resume
    <3> QED BY <2>6, <3>1, ResumeSettles DEF Resume
  <2>7. ASSUME NEW e \in Executions, Abort(e) \/ WaiterTimesOut(e) PROVE WaitersOK'
    <3>1. /\ row' = AbortedRows({e}) /\ runners' = Signalled({e}) /\ waiters' \subseteq waiters
          /\ e \in waiters' => ~Pending(e)
      BY <2>7 DEF Abort, WaiterTimesOut, AbortAll
    <3>2. {e} \in SUBSET Executions /\ \A d \in waiters' \cap {e} : ~Pending(d)
      BY <3>1
    <3> QED BY <1>0, <3>1, <3>2, AbortSettles
  <2>8. ASSUME NEW e \in Executions, Unsuppress(e) PROVE WaitersOK'
    BY <1>1, <2>8 DEF Unsuppress, disk
  <2>9. ASSUME NEW j \in JobIds, SweepJob(j) PROVE WaitersOK'
    BY <1>1, <2>9 DEF SweepJob, memory
  <2> QED BY <1>3, <2>1, <2>2, <2>3, <2>4, <2>5, <2>6, <2>7, <2>8, <2>9 DEF ClientStep, TimerStep
<1>4. CASE RecoverStep
  <2>1. CASE RecoverQueued
    <3> DEFINE A == Lost(Stranded(recovery.active))
    <3>1. A \in SUBSET Executions /\ AbortAll(A)
      BY <2>1 DEF RecoverQueued, Lost, Stranded
    <3> HIDE DEF A
    <3> QED BY <1>0, <3>1, AbortSettles DEF AbortAll
  <2>2. ASSUME NEW t \in recovery.todo, RecoverOne(t[1], t[2]) PROVE WaitersOK'
    <3>1. t[1] \in Executions
      BY <1>0 DEF ContextOK
    <3>2. CASE MayResume(t[1])
      BY <2>2, <3>1, <3>2, ResumeSettles DEF RecoverOne
    <3>3. CASE ~MayResume(t[1])
      <4>1. UNCHANGED <<row, runners, waiters>> \/ AbortAll({t[1]})
        BY <2>2, <3>3 DEF RecoverOne
      <4>2. {t[1]} \in SUBSET Executions
        BY <3>1
      <4> QED BY <1>0, <1>1, <4>1, <4>2, AbortSettles DEF AbortAll
    <3> QED BY <3>2, <3>3
  <2> QED BY <1>4, <2>1, <2>2 DEF RecoverStep
<1>5. ASSUME NEW j \in JobIds, WorkerStep(j[1], j[2]) PROVE WaitersOK'
  <2> DEFINE e == j[1]
             n == j[2]
  <2>0. e \in Executions /\ {e} \in SUBSET Executions
    BY DEF JobIds
  <2> HIDE DEF e, n
  <2>1. CASE WorkerStarts(e, n)
    <3>1. PICK s : runners' = runners \cup {Runner(e, Fresh, n, TRUE, s, row[e].log)}
      BY <2>1 DEF WorkerStarts
    <3>2. Settles(e)'
      <4> DEFINE r == Runner(e, Fresh, n, TRUE, s, row[e].log)
      <4>1. r.exec = e /\ r.worker = TRUE /\ r.aborted = FALSE
        BY DEF Runner
      <4> HIDE DEF r
      <4>2. r \in runners'
        BY <3>1 DEF r
      <4> QED BY <4>1, <4>2 DEF Settles
    <3>3. \A d \in Executions : Settles(d) => Settles(d)'
      BY <3>1 DEF Settles
    <3>4. waiters' = waiters /\ \A d \in Executions \ {e} : row'[d] = row[d]
      BY <1>0, <2>1 DEF WorkerStarts
    <3> QED BY <1>0, <3>2, <3>3, <3>4, WaitersKept
  <2>2. CASE WorkerLoses(e, n) \/ WorkerRefuses(e, n)
    <3>1. /\ row' = AbortedRows({e}) /\ runners' = Signalled({e}) /\ waiters' \subseteq waiters
          /\ e \in waiters' => ~Pending(e)
      BY <2>2 DEF WorkerLoses, WorkerRefuses, AbortAll
    <3> QED BY <1>0, <2>0, <3>1, AbortSettles
  <2>3. CASE WorkerCompletes(e, n)
    <3>1. runners' = runners /\ waiters' = waiters \ {e} /\ \A d \in Executions \ {e} : row'[d] = row[d]
      BY <1>0, <2>3 DEF WorkerCompletes
    <3> QED BY <1>2, <2>0, <3>1
  <2>4. CASE WorkerSkips(e, n)
    BY <1>1, <2>4 DEF WorkerSkips, memory
  <2> QED BY <1>5, <2>1, <2>2, <2>3, <2>4 DEF WorkerStep, e, n
<1>6. ASSUME NEW r \in runners, RunnerStep(r) PROVE WaitersOK'
  <2>1. r.exec \in Executions /\ Of(r.exec) = {r} /\ Attached(r, row[r.exec]) /\ r \in RunnerType
    BY <1>0, RunnerAndRow
  <2>2. ASSUME NEW status, NEW at, NEW log, Finish(r, status, at, log) PROVE WaitersOK'
    <3>1. /\ row' = [row EXCEPT ![r.exec] = Saved(r, status, at, log)] /\ runners' = runners \ {r}
          /\ waiters' = IF r.worker THEN waiters \ {r.exec} ELSE waiters
      BY <2>2 DEF Finish
    <3>2. CASE row[r.exec] = NoRow
      <4>1. Saved(r, status, at, log) = NoRow
        BY <3>2 DEF Saved, NoRow
      <4> QED BY <1>0, <1>2, <2>1, <3>1, <4>1
    <3>3. CASE row[r.exec] # NoRow
      <4>1. r.exec \in waiters => r.worker
        BY <1>0, <2>1, <3>3, RunnerAndRow DEF WaitersOK, Settles, Of
      <4>2. waiters' \subseteq waiters \ {r.exec}
        BY <3>1, <4>1
      <4> QED BY <1>0, <1>2, <2>1, <3>1, <4>2
    <3> QED BY <3>2, <3>3
  <2>3. ASSUME NEW next, NEW log, NEW at, Advance(r, next, log, at) PROVE WaitersOK'
    <3>1. CASE /\ Refused(r) = "none" /\ ~r.aborted
               /\ row' = IF Persists(r) THEN [row EXCEPT ![r.exec].at = next, ![r.exec].log = log]
                         ELSE row
               /\ runners' = (runners \ {r}) \cup {[r EXCEPT !.at = next, !.log = log]}
               /\ waiters' = waiters
      <4> DEFINE q == [r EXCEPT !.at = next, !.log = log]
      <4>1. q.exec = r.exec /\ q.worker = r.worker /\ q.aborted = r.aborted /\ q \in runners'
        BY <2>1, <3>1 DEF RunnerType
      <4> HIDE DEF q
      <4>2. \A d \in Executions : Settles(d) => Settles(d)'
        BY <3>1, <4>1 DEF Settles
      <4>3. \A d \in Executions \ {r.exec} : row'[d] = row[d]
        BY <1>0, <3>1
      <4>4. r.exec \in waiters /\ row[r.exec] # NoRow => Settles(r.exec)
        BY <1>0, RunnerAndRow DEF WaitersOK
      <4>5. row[r.exec] = NoRow => row'[r.exec] = NoRow
        BY <1>0, <3>1 DEF Persists, NoRow
      <4> QED BY <1>0, <3>1, <4>2, <4>3, <4>4, <4>5, WaitersKept
    <3> QED BY <2>2, <2>3, <3>1 DEF Advance
  <2> QED BY <1>6, <2>2, <2>3 DEF RunnerStep, StepSucceeds, StepCaught, FlowSucceeds, StepFails,
             DeadlinePasses, PersistFails
<1>7. CASE Crashes
  <2>1. waiters' = {}
    BY <1>7 DEF Crashes, Crash, CrashInExecute, CrashInResume, CrashInAbort, CrashInClaim,
       CrashInSave, CrashAfterSave, Down
  <2> QED BY <2>1 DEF WaitersOK
<1>8. CASE UNCHANGED vars
  BY <1>1, <1>8 DEF vars, disk, memory
<1> QED BY <1>3, <1>4, <1>5, <1>6, <1>7, <1>8 DEF Next

(* A step that begins no execution.                                                 *)
LEMMA UnusedKept ==
  ASSUME UnusedOK, uses' = uses, \A e \in Executions : row[e] = NoRow => row'[e] = NoRow,
         \A e \in waiters' \ waiters : row[e] # NoRow
  PROVE  UnusedOK'
BY DEF UnusedOK

(* A row that is not there is not aborted, and its token is not taken.               *)
LEMMA NothingToRewrite ==
  ASSUME NEW S, NEW e \in Executions, row[e] = NoRow
  PROVE  AbortedRows(S)[e] = NoRow /\ Unclaimed[e] = NoRow
BY DEF AbortedRows, Unclaimed, Pending, NoRow

(* A step that rewrites the row of one execution, which has one.                     *)
LEMMA UnusedOthers ==
  ASSUME UnusedOK, uses' = uses, NEW e \in Executions, row[e] # NoRow \/ row'[e] = row[e],
         \A d \in Executions \ {e} : row'[d] = row[d],
         \A d \in waiters' \ waiters : d = e /\ row[e] # NoRow
  PROVE  UnusedOK'
BY UnusedKept

(* A resume is of an execution that has a row.                                      *)
LEMMA ResumesAreUsed ==
  ASSUME ExecutionsOK, UnusedOK, NEW e \in Executions, MayResume(e), NEW jobs0, NEW todo,
         NEW wait \in BOOLEAN, Resumes(e, jobs0, todo, wait), uses' = uses
  PROVE  UnusedOK'
<1>1. row[e] # NoRow /\ row \in [Executions -> RowType]
  BY DEF MayResume, NoRow, ExecutionsOK
<1>2. CASE row' = AbortedRows({e}) /\ waiters' \subseteq waiters
  BY <1>2, NothingToRewrite, UnusedKept
<1>3. CASE (\A d \in Executions \ {e} : row'[d] = row[d]) /\ waiters' \subseteq waiters \cup {e}
  BY <1>1, <1>3, UnusedOthers
<1>4. \/ row' = AbortedRows({e}) /\ waiters' \subseteq waiters
      \/ (\A d \in Executions \ {e} : row'[d] = row[d]) /\ waiters' \subseteq waiters \cup {e}
  BY <1>1 DEF Resumes
<1> QED BY <1>2, <1>3, <1>4

(* A crash counts the execution whose row it leaves.                                 *)
LEMMA CrashesAreCounted ==
  ASSUME ContextOK, UnusedOK, NEW rows, NEW messages, Down(rows, messages)
  PROVE  UnusedOK'
<1>1. /\ row' = rows /\ waiters' = {}
      /\ uses' = [e \in Executions |-> IF row[e] = NoRow /\ rows[e] # NoRow THEN uses[e] + 1 ELSE uses[e]]
      /\ uses \in [Executions -> 0 .. MaxUses] /\ MaxUses \in Nat
  BY BoundsAssumption DEF Down, ContextOK
<1>2. ASSUME NEW e \in Executions, uses'[e] = 0 PROVE row'[e] = NoRow
  <2>1. uses[e] \in Nat
    BY <1>1
  <2>2. ~(row[e] = NoRow /\ rows[e] # NoRow) /\ uses[e] = 0
    BY <1>1, <1>2, <2>1
  <2> QED BY <1>1, <2>2 DEF UnusedOK
<1> QED BY <1>1, <1>2 DEF UnusedOK

(* Rows and waiters are only under ids that were used.                               *)
LEMMA StepsAreUsed ==
  ASSUME IInv, UnusedOK, [Next]_vars
  PROVE  UnusedOK'
<1>0. /\ ExecutionsOK /\ ContextOK /\ row \in [Executions -> RowType]
      /\ uses \in [Executions -> 0 .. MaxUses] /\ MaxUses \in Nat
  BY BoundsAssumption DEF IInv, ExecutionsOK, ContextOK
<1>1. ASSUME uses' = uses, row' = row, waiters' \subseteq waiters PROVE UnusedOK'
  BY <1>1, UnusedKept
<1>2. ASSUME uses' = uses, waiters' \subseteq waiters, NEW S, row' = AbortedRows(S) PROVE UnusedOK'
  BY <1>2, UnusedKept, NothingToRewrite
<1>3. CASE ClientStep \/ TimerStep \/ Restart
  <2>1. CASE UpdateFlow
    BY <1>1, <2>1 DEF UpdateFlow, memory, count
  <2>2. CASE ClearExecutions \/ DeleteFlow
    <3>1. uses' = uses /\ waiters' \subseteq waiters /\ \A e \in Executions : row'[e] = NoRow
      BY <2>2 DEF ClearExecutions, DeleteFlow, Forget, count
    <3> QED BY <3>1, UnusedKept
  <2>3. CASE Recover \/ Restart
    <3>1. uses' = uses /\ waiters' \subseteq waiters
      BY <2>3 DEF Recover, Restart, AbortOrphans, ResumeOrphans, count
    <3>2. PICK A : \A e \in Executions : row'[e] \in {AbortedRows(A)[e], Unclaimed[e]}
      BY <2>3 DEF Recover, Restart, AbortOrphans, ResumeOrphans, Unclaimed
    <3> QED BY <3>1, <3>2, UnusedKept, NothingToRewrite
  <2>4. ASSUME NEW e \in Executions, ExecuteQueued(e) \/ ExecuteDirectly(e) PROVE UnusedOK'
    <3>1. /\ uses' = [uses EXCEPT ![e] = @ + 1] /\ waiters' \subseteq waiters \cup {e}
          /\ \A d \in Executions \ {e} : row'[d] = row[d]
      BY <1>0, <2>4 DEF ExecuteQueued, ExecuteDirectly, Recorded
    <3>2. uses'[e] # 0 /\ \A d \in Executions \ {e} : uses'[d] = uses[d]
      <4>1. uses[e] \in Nat
        BY <1>0
      <4> QED BY <1>0, <3>1, <4>1
    <3> QED BY <3>1, <3>2 DEF UnusedOK
  <2>5. ASSUME NEW e \in Executions, Resume(e) PROVE UnusedOK'
    <3>1. PICK wait \in BOOLEAN : Resumes(e, jobs, recovery.todo, wait)
      BY <2>5 DEF Resume
    <3> QED BY <1>0, <2>5, <3>1, ResumesAreUsed DEF Resume, count
  <2>6. ASSUME NEW e \in Executions, Abort(e) \/ WaiterTimesOut(e) PROVE UnusedOK'
    BY <1>2, <2>6 DEF Abort, WaiterTimesOut, AbortAll, count
  <2>7. ASSUME NEW e \in Executions, Unsuppress(e) PROVE UnusedOK'
    BY <1>1, <2>7 DEF Unsuppress, disk, count
  <2>8. ASSUME NEW j \in JobIds, SweepJob(j) PROVE UnusedOK'
    BY <1>1, <2>8 DEF SweepJob, memory, count
  <2> QED BY <1>3, <2>1, <2>2, <2>3, <2>4, <2>5, <2>6, <2>7, <2>8 DEF ClientStep, TimerStep
<1>4. CASE RecoverStep
  <2>1. CASE RecoverQueued
    BY <1>2, <2>1 DEF RecoverQueued, AbortAll, count
  <2>2. ASSUME NEW t \in recovery.todo, RecoverOne(t[1], t[2]) PROVE UnusedOK'
    <3>1. t[1] \in Executions
      BY <1>0 DEF ContextOK
    <3>2. CASE MayResume(t[1])
      BY <1>0, <2>2, <3>1, <3>2, ResumesAreUsed DEF RecoverOne, count
    <3>3. CASE ~MayResume(t[1])
      BY <1>1, <1>2, <2>2, <3>3 DEF RecoverOne, AbortAll, count
    <3> QED BY <3>2, <3>3
  <2> QED BY <1>4, <2>1, <2>2 DEF RecoverStep
<1>5. ASSUME NEW j \in JobIds, WorkerStep(j[1], j[2]) PROVE UnusedOK'
  <2> DEFINE e == j[1]
  <2>1. e \in Executions
    BY DEF JobIds
  <2>2. uses' = uses /\ waiters' \subseteq waiters
    BY <1>5 DEF WorkerStep, WorkerStarts, WorkerLoses, WorkerCompletes, WorkerRefuses,
       WorkerSkips, AbortAll, memory, count
  <2>3. \/ \E S : row' = AbortedRows(S)
        \/ row' = row
        \/ row[e] # NoRow /\ \A d \in Executions \ {e} : row'[d] = row[d]
    <3>1. CASE WorkerStarts(e, j[2]) \/ WorkerCompletes(e, j[2])
      <4>1. row[e].status = "queued" /\ \A d \in Executions \ {e} : row'[d] = row[d]
        BY <1>0, <3>1 DEF WorkerStarts, WorkerCompletes, Startable
      <4> QED BY <4>1 DEF NoRow
    <3>2. CASE WorkerLoses(e, j[2]) \/ WorkerRefuses(e, j[2])
      <4>1. row' = AbortedRows({e})
        BY <3>2 DEF WorkerLoses, WorkerRefuses, AbortAll
      <4> QED BY <4>1
    <3>3. CASE WorkerSkips(e, j[2])
      BY <3>3 DEF WorkerSkips
    <3> QED BY <1>5, <3>1, <3>2, <3>3 DEF WorkerStep
  <2> HIDE DEF e
  <2> QED BY <1>1, <1>2, <2>1, <2>2, <2>3, UnusedOthers
<1>6. ASSUME NEW r \in runners, RunnerStep(r) PROVE UnusedOK'
  <2>1. r.exec \in Executions
    BY <1>0, RunnerAndRow
  <2>2. ASSUME NEW status, NEW at, NEW log, Finish(r, status, at, log) PROVE UnusedOK'
    <3>1. /\ row' = [row EXCEPT ![r.exec] = Saved(r, status, at, log)]
          /\ uses' = uses /\ waiters' \subseteq waiters
      BY <2>2 DEF Finish, count
    <3>2. row[r.exec] = NoRow => Saved(r, status, at, log) = NoRow
      BY DEF Saved, NoRow
    <3>3. row'[r.exec] = Saved(r, status, at, log) /\ \A d \in Executions \ {r.exec} : row'[d] = row[d]
      BY <1>0, <2>1, <3>1
    <3> QED BY <2>1, <3>1, <3>2, <3>3, UnusedOthers
  <2>3. ASSUME NEW next, NEW log, NEW at, Advance(r, next, log, at) PROVE UnusedOK'
    <3>1. CASE /\ row' = IF Persists(r) THEN [row EXCEPT ![r.exec].at = next, ![r.exec].log = log]
                         ELSE row
               /\ UNCHANGED <<waiters, uses>>
      <4>1. Persists(r) => row[r.exec] # NoRow
        BY DEF Persists, NoRow
      <4>2. (\A d \in Executions \ {r.exec} : row'[d] = row[d]) /\ (row[r.exec] # NoRow \/ row' = row)
        BY <1>0, <3>1, <4>1
      <4> QED BY <2>1, <3>1, <4>2, UnusedOthers
    <3> QED BY <2>2, <2>3, <3>1 DEF Advance, count
  <2> QED BY <1>6, <2>2, <2>3 DEF RunnerStep, StepSucceeds, StepCaught, FlowSucceeds, StepFails,
             DeadlinePasses, PersistFails
<1>7. CASE Crashes
  <2>1. PICK rows, messages : Down(rows, messages)
    BY <1>7 DEF Crashes, Crash, CrashInExecute, CrashInResume, CrashInAbort, CrashInClaim,
       CrashInSave, CrashAfterSave
  <2> QED BY <1>0, <2>1, CrashesAreCounted
<1>8. CASE UNCHANGED vars
  BY <1>1, <1>8 DEF vars, disk, memory, count
<1> QED BY <1>3, <1>4, <1>5, <1>6, <1>7, <1>8 DEF Next

(* Where a flow always has a limit, or no id is used twice, nobody waits for an        *)
(* execution that is over: whatever ends it settles the waiter.                        *)
THEOREM NobodyIsForgotten ==
  ASSUME AlwaysLimited \/ UsedOnce
  PROVE  Spec => []NobodyWaitsInVain
<1>1. Init => WaitersOK /\ UnusedOK
  BY DEF Init, WaitersOK, UnusedOK
<1>2. IInv /\ WaitersOK /\ UnusedOK /\ [Next]_vars => (WaitersOK /\ UnusedOK)'
  BY StepSettles, StepsAreUsed
<1>3. IInv /\ WaitersOK => NobodyWaitsInVain
  <2> SUFFICES ASSUME IInv, WaitersOK PROVE NobodyWaitsInVain
    OBVIOUS
  <2>1. ExecutionsOK /\ waiters \subseteq Executions
    BY DEF IInv, ContextOK
  <2> QED BY <2>1, WaiterAndRow DEF NobodyWaitsInVain, WaitersOK, Pending
<1> QED BY <1>1, <1>2, <1>3, FlowInvariant, PTL DEF Spec

-----------------------------------------------------------------------------
(* The limit of the flow.                                                         *)

\* The queue of a flow that can start executions under a limit has that limit.
QueueFits == flow.exists /\ flow.enabled /\ Throttled => queue = flow.limit

\* A flow without a queue has no message that is processed.
NoQueueNoWork == queue = NoQueue => Processing = {}

Works(r) == r.worker /\ ~r.aborted

\* An engine the queue's worker started holds a message that is processed, unless
\* it was taken from it.
Holds(e) ==
  flow.exists => \A r \in Of(e) : Works(r) => <<e, r.job>> \in Processing \/ e \in robbed

LimitInv == QueueFits /\ NoQueueNoWork /\ \A e \in Executions : Holds(e)

(* A step that starts nothing from the queue for an execution and takes its message   *)
(* from no engine but one it robs.                                                  *)
LEMMA LimitKept ==
  ASSUME NEW e \in Executions, Holds(e), flow'.exists => flow.exists,
         \A r \in Of(e)' : Works(r) => \E q \in Of(e) : r.job = q.job /\ Works(q),
         \A r \in Of(e)' : flow'.exists /\ Works(r) /\ <<e, r.job>> \in Processing =>
                             <<e, r.job>> \in Processing' \/ e \in robbed',
         Of(e)' # {} /\ e \in robbed => e \in robbed'
  PROVE  Holds(e)'
BY DEF Holds

(* A step that tells the engines of S to stop and leaves the others their messages.   *)
LEMMA AbortsKeepLimit ==
  ASSUME ExecutionsOK, \A e \in Executions : Holds(e), NEW S \in SUBSET Executions,
         flow'.exists => flow.exists, robbed \subseteq robbed', runners' = Signalled(S),
         \A e \in Executions, n \in Numbers :
           e \notin S /\ flow'.exists /\ (\E r \in Of(e) : Works(r) /\ r.job = n)
             /\ jobs[<<e, n>>] = "processing" => jobs'[<<e, n>>] = "processing" \/ e \in robbed'
  PROVE  \A e \in Executions : Holds(e)'
<1> TAKE e \in Executions
<1>1. \A r \in Of(e)' : Works(r) => e \notin S /\ r \in Of(e)
  <2>1. Of(e)' = {r \in Signalled(S) : r.exec = e}
    BY DEF Of
  <2>2. CASE e \in S
    <3>1. Of(e)' = {[r EXCEPT !.aborted = TRUE] : r \in Of(e)}
      BY <2>1, <2>2, AbortedAndTold
    <3>2. \A q \in Of(e) : LET r == [q EXCEPT !.aborted = TRUE] IN r.aborted = TRUE
      BY DEF Of, ExecutionsOK, RunnerType
    <3> QED BY <3>1, <3>2 DEF Works
  <2>3. CASE e \notin S
    BY <2>1, <2>3, AbortedAndTold
  <2> QED BY <2>2, <2>3
<1>2. \A n : /\ <<e, n>> \in Processing <=> n \in Numbers /\ jobs[<<e, n>>] = "processing"
             /\ <<e, n>> \in Processing' <=> n \in Numbers /\ jobs'[<<e, n>>] = "processing"
  BY DEF Processing, JobIds
<1>3. \A r \in Of(e)' : flow'.exists /\ Works(r) /\ <<e, r.job>> \in Processing =>
                          <<e, r.job>> \in Processing' \/ e \in robbed'
  BY <1>1, <1>2
<1> QED BY <1>1, <1>3, LimitKept

(* A step about one execution.                                                      *)
LEMMA LimitOfOthers ==
  ASSUME \A d \in Executions : Holds(d), NEW e \in Executions, flow' = flow,
         \A d \in Executions \ {e} : /\ d \in robbed => d \in robbed'
                                     /\ \A n \in Numbers : jobs'[<<d, n>>] = jobs[<<d, n>>],
         \A r \in runners' : r.exec # e => r \in runners,
         Holds(e)'
  PROVE  \A d \in Executions : Holds(d)'
<1> SUFFICES ASSUME NEW d \in Executions \ {e} PROVE Holds(d)'
  OBVIOUS
<1>1. Of(d)' \subseteq Of(d)
  BY DEF Of
<1>2. \A n : <<d, n>> \in Processing' <=> <<d, n>> \in Processing
  BY DEF Processing, JobIds
<1> QED BY <1>1, <1>2, LimitKept

(* The worker of the queue.                                                         *)
LEMMA WorkersKeepLimit ==
  ASSUME IInv, LimitInv, NEW j \in JobIds, WorkerStep(j[1], j[2])
  PROVE  QueueFits' /\ \A d \in Executions : Holds(d)'
<1> DEFINE e == j[1]
           n == j[2]
<1>0. /\ ExecutionsOK /\ ContextOK /\ row \in [Executions -> RowType]
      /\ e \in Executions /\ n \in Numbers /\ jobs \in [JobIds -> {"none", "queued", "processing", "done"}]
      /\ \A d \in Executions : Holds(d)
  BY DEF IInv, ExecutionsOK, ContextOK, LimitInv, JobIds
<1> HIDE DEF e, n
<1>1. UNCHANGED <<flow, queue, robbed>> /\ QueueFits'
  BY DEF WorkerStep, WorkerStarts, WorkerLoses, WorkerCompletes, WorkerRefuses, WorkerSkips, memory,
     count, LimitInv, QueueFits, Throttled
<1>3. CASE WorkerStarts(e, n)
  <2>1. e \notin claims /\ row[e].status = "queued"
    BY <1>3 DEF WorkerStarts, Startable
  <2>2. PICK s : runners' = runners \cup {Runner(e, Fresh, n, TRUE, s, row[e].log)}
    BY <1>3 DEF WorkerStarts
  <2>3. Of(e)' \subseteq {Runner(e, Fresh, n, TRUE, s, row[e].log)}
    BY <1>0, <2>1, <2>2, NoRunner DEF Of
  <2>4. \A r \in Of(e)' : r.job = n
    BY <2>3 DEF Runner
  <2>5. \A r \in runners' : r.exec # e => r \in runners
    BY <2>2 DEF Runner
  <2>6. jobs' = [jobs EXCEPT ![<<e, n>>] = "processing"]
    BY <1>3 DEF WorkerStarts
  <2>7. <<e, n>> \in Processing'
    BY <1>0, <2>6 DEF Processing, JobIds
  <2>8. Holds(e)'
    BY <2>4, <2>7 DEF Holds
  <2>9. \A d \in Executions \ {e} : \A m \in Numbers : jobs'[<<d, m>>] = jobs[<<d, m>>]
    BY <1>0, <2>6 DEF JobIds
  <2> QED BY <1>0, <1>1, <2>5, <2>8, <2>9, LimitOfOthers
<1>4. CASE WorkerLoses(e, n) \/ WorkerCompletes(e, n) \/ WorkerRefuses(e, n) \/ WorkerSkips(e, n)
  <2>0. jobs[<<e, n>>] = "queued"
    BY <1>4 DEF WorkerLoses, WorkerCompletes, WorkerRefuses, WorkerSkips, Take
  <2>1. PICK S \in SUBSET Executions :
          /\ runners' = Signalled(S)
          /\ \A d \in Executions \ S : \A m \in Numbers :
               jobs[<<d, m>>] = "processing" => jobs'[<<d, m>>] = "processing"
    <3>1. CASE WorkerLoses(e, n) \/ WorkerRefuses(e, n)
      <4>1. runners' = Signalled({e}) /\ {e} \in SUBSET Executions
        BY <1>0, <3>1 DEF WorkerLoses, WorkerRefuses, AbortAll
      <4>2. PICK x \in {"none", "done"} : jobs' = [Without(JobsOf({e})) EXCEPT ![<<e, n>>] = x]
        BY <3>1 DEF WorkerLoses, WorkerRefuses
      <4>3. ASSUME NEW d \in Executions, NEW m \in Numbers
            PROVE  jobs'[<<d, m>>] = IF d = e /\ m = n THEN x
                                     ELSE IF <<d, m>> \in JobsOf({e}) THEN "none" ELSE jobs[<<d, m>>]
        BY <4>2 DEF Without, JobIds
      <4>4. \A d \in Executions \ {e} : \A m \in Numbers : <<d, m>> \notin JobsOf({e})
        BY DEF JobsOf
      <4> QED BY <4>1, <4>3, <4>4
    <3>2. CASE WorkerCompletes(e, n) \/ WorkerSkips(e, n)
      <4>1. runners' = Signalled({}) /\ {} \in SUBSET Executions
        BY <1>0, <3>2, NobodyToTell DEF WorkerCompletes, WorkerSkips, memory
      <4>2. jobs' = [jobs EXCEPT ![<<e, n>>] = "done"]
        BY <3>2 DEF WorkerCompletes, WorkerSkips
      <4>3. ASSUME NEW d \in Executions, NEW m \in Numbers
            PROVE  jobs'[<<d, m>>] = IF d = e /\ m = n THEN "done" ELSE jobs[<<d, m>>]
        BY <1>0, <4>2 DEF JobIds
      <4> QED BY <2>0, <4>1, <4>3
    <3> QED BY <1>4, <3>1, <3>2
  <2>2. (flow'.exists => flow.exists) /\ robbed \subseteq robbed'
    BY <1>1
  <2> QED BY <1>0, <1>1, <2>1, <2>2, AbortsKeepLimit
<1> QED BY <1>3, <1>4 DEF WorkerStep, e, n

(* The end of an engine takes its own message, and under a limit no other.            *)
LEMMA EndsKeepLimit ==
  ASSUME IInv, LimitInv, NEW r \in runners, NEW status, NEW at, NEW log,
         Finish(r, status, at, log)
  PROVE  QueueFits' /\ \A d \in Executions : Holds(d)'
<1>0. /\ ExecutionsOK /\ ContextOK
      /\ jobs \in [JobIds -> {"none", "queued", "processing", "done"}]
      /\ r.exec \in Executions /\ Of(r.exec) = {r} /\ \A d \in Executions : Holds(d)
  BY RunnerAndRow DEF IInv, ExecutionsOK, ContextOK, LimitInv
<1>1. flow' = flow /\ runners' = runners \ {r}
  BY DEF Finish
<1>2. QueueFits'
  <2>1. CASE r.worker /\ Drained
    BY <1>1, <2>1 DEF Drained, QueueFits, Throttled
  <2>2. CASE ~(r.worker /\ Drained)
    BY <1>1, <2>2 DEF Finish, LimitInv, QueueFits, Throttled
  <2> QED BY <2>1, <2>2
<1>3. ASSUME NEW d \in Executions PROVE Holds(d)'
  <2>1. Of(d)' \subseteq Of(d) /\ (d = r.exec => Of(d)' = {})
    BY <1>0, <1>1 DEF Of
  <2>2. ASSUME d # r.exec, NEW q \in Of(d)', Works(q), <<d, q.job>> \in Processing
        PROVE  <<d, q.job>> \in Processing' \/ d \in robbed'
    <3>1. CASE r.worker /\ Drained
      <4>1. robbed' = (robbed \cup WorkingOn(Processing)) \ {r.exec}
        BY <3>1 DEF Finish
      <4>2. q \in runners /\ q.exec = d
        BY <2>1, <2>2 DEF Of
      <4>3. d \in WorkingOn(Processing)
        BY <2>2, <4>2 DEF WorkingOn, Working, Works
      <4> QED BY <2>2, <4>1, <4>3
    <3>2. CASE ~(r.worker /\ Drained)
      <4>1. \/ jobs' = [jobs EXCEPT ![<<r.exec, r.job>>] = "done"]
            \/ jobs' = jobs
        BY <3>2 DEF Finish
      <4>2. <<d, q.job>> \in JobIds /\ <<d, q.job>> # <<r.exec, r.job>> /\ jobs[<<d, q.job>>] = "processing"
        BY <2>2 DEF Processing
      <4>3. jobs'[<<d, q.job>>] = "processing"
        BY <1>0, <4>1, <4>2
      <4> QED BY <4>2, <4>3 DEF Processing
    <3> QED BY <3>1, <3>2
  <2>3. d # r.exec /\ d \in robbed => d \in robbed'
    BY DEF Finish
  <2> QED BY <1>0, <1>1, <2>1, <2>2, <2>3, LimitKept
<1> QED BY <1>2, <1>3

(* The engines.                                                                     *)
LEMMA RunnersKeepLimit ==
  ASSUME IInv, LimitInv, NEW r \in runners, RunnerStep(r)
  PROVE  QueueFits' /\ \A d \in Executions : Holds(d)'
<1>0. r \in RunnerType /\ \A d \in Executions : Holds(d)
  BY RunnerAndRow DEF IInv, LimitInv
<1>1. ASSUME NEW next, NEW log, NEW at, Advance(r, next, log, at)
      PROVE  QueueFits' /\ \A d \in Executions : Holds(d)'
  <2>1. CASE /\ runners' = (runners \ {r}) \cup {[r EXCEPT !.at = next, !.log = log]}
             /\ UNCHANGED <<flow, queue, jobs, robbed>>
    <3> DEFINE q == [r EXCEPT !.at = next, !.log = log]
    <3>1. q.exec = r.exec /\ q.job = r.job /\ (Works(q) <=> Works(r))
      BY <1>0 DEF RunnerType, Works
    <3>2. runners' = (runners \ {r}) \cup {q}
      BY <2>1
    <3> HIDE DEF q
    <3>3. ASSUME NEW d \in Executions PROVE Holds(d)'
      <4>1. \A p \in Of(d)' : Works(p) => \E o \in Of(d) : p.job = o.job /\ Works(o)
        BY <3>1, <3>2 DEF Of
      <4> QED BY <1>0, <2>1, <4>1, LimitKept DEF Processing
    <3> QED BY <2>1, <3>3 DEF LimitInv, QueueFits, Throttled
  <2> QED BY <1>1, <2>1, EndsKeepLimit DEF Advance, count
<1> QED BY <1>1, EndsKeepLimit DEF RunnerStep, StepSucceeds, StepCaught, FlowSucceeds, StepFails,
             DeadlinePasses, PersistFails

(* A resume touches the messages of an execution without an engine, and starts an     *)
(* engine itself only where there is no limit.                                      *)
LEMMA ResumesKeepLimit ==
  ASSUME IInv, LimitInv, NEW e \in Executions, MayResume(e), NEW jobs0, NEW todo, NEW wait \in BOOLEAN,
         Resumes(e, jobs0, todo, wait), flow' = flow, robbed \subseteq robbed',
         \A d \in Executions \ {e} : \A n \in Numbers : jobs0[<<d, n>>] = jobs[<<d, n>>]
  PROVE  QueueFits' /\ \A d \in Executions : Holds(d)'
<1>0. /\ ExecutionsOK /\ \A d \in Executions : Holds(d)
      /\ Of(e) = {} /\ \A r \in runners : r.exec # e
  BY NoRunner DEF IInv, LimitInv, MayResume
<1>1. QueueFits'
  BY DEF Resumes, LimitInv, QueueFits, Throttled
<1>2. \A d \in Executions \ {e} : \A n \in Numbers : jobs'[<<d, n>>] = jobs[<<d, n>>]
  <2>1. \A d \in Executions \ {e} : \A n \in Numbers :
          /\ <<d, n>> \in JobIds /\ <<d, n>> \notin JobsOf({e})
          /\ \A m : <<d, n>> # <<e, m>>
    BY DEF JobIds, JobsOf
  <2> DEFINE n0 == CHOOSE n \in FreshJobs(e, todo) : TRUE
  <2>2. \/ jobs' = jobs0
        \/ jobs' = [j \in JobIds |-> IF j \in JobsOf({e}) THEN "none" ELSE jobs0[j]]
        \/ jobs' = [j \in JobIds |-> IF j = <<e, n0>> THEN "queued"
                                     ELSE IF j = <<e, row[e].job>> THEN "none" ELSE jobs0[j]]
    BY DEF Resumes
  <2> HIDE DEF n0
  <2> QED BY <2>1, <2>2
<1>3. \/ runners' = runners
      \/ \E s : runners' = runners \cup {Runner(e, Fresh, row[e].job, FALSE, s, row[e].log)}
  <2>1. Signalled({e}) = runners
    BY <1>0, NobodyToTell DEF MayResume
  <2> QED BY <2>1 DEF Resumes
<1>4. \A r \in runners' : r.exec # e => r \in runners
  BY <1>3 DEF Runner
<1>5. \A r \in Of(e)' : ~Works(r)
  <2>1. \A r \in Of(e)' : r \notin runners
    BY <1>0 DEF Of
  <2> QED BY <1>3, <2>1 DEF Of, Runner, Works
<1>6. Holds(e)'
  BY <1>5 DEF Holds
<1> QED BY <1>0, <1>1, <1>2, <1>4, <1>6, LimitOfOthers

(* A call that begins an execution.                                                  *)
LEMMA ExecutesInLimit ==
  ASSUME IInv, LimitInv, NEW e \in Executions, ExecuteQueued(e) \/ ExecuteDirectly(e)
  PROVE  QueueFits' /\ \A d \in Executions : Holds(d)'
<1>0. /\ ExecutionsOK /\ \A d \in Executions : Holds(d)
      /\ jobs \in [JobIds -> {"none", "queued", "processing", "done"}]
      /\ Of(e) = {} /\ \A r \in runners : r.exec # e
  BY NoRunner DEF IInv, ContextOK, LimitInv, ExecuteQueued, ExecuteDirectly, MayExecute
<1>1. /\ UNCHANGED <<flow, robbed>> /\ QueueFits'
      /\ jobs' \in {jobs, [jobs EXCEPT ![<<e, 1>>] = "queued"]}
      /\ runners' \in {runners, runners \cup {Runner(e, Fresh, NoJob, FALSE, flow.def.start, <<>>)}}
  BY DEF ExecuteQueued, ExecuteDirectly, LimitInv, QueueFits, Throttled
<1>2. \A r \in runners' : r.exec # e => r \in runners
  BY <1>1 DEF Runner
<1>3. \A r \in Of(e)' : ~Works(r)
  <2>1. \A r \in Of(e)' : r \notin runners
    BY <1>0 DEF Of
  <2> QED BY <1>1, <2>1 DEF Of, Runner, Works
<1>4. Holds(e)'
  BY <1>3 DEF Holds
<1>5. \A d \in Executions \ {e} : \A n \in Numbers : jobs'[<<d, n>>] = jobs[<<d, n>>]
  BY <1>0, <1>1 DEF JobIds
<1> QED BY <1>0, <1>1, <1>2, <1>4, <1>5, LimitOfOthers

(* An update of the flow: a queue is deleted with its messages when none of them is    *)
(* processed, or when there was no queue.                                            *)
LEMMA UpdatesKeepLimit ==
  ASSUME IInv, LimitInv, UpdateFlow
  PROVE  QueueFits' /\ \A d \in Executions : Holds(d)'
<1>0. ExecutionsOK /\ \A d \in Executions : Holds(d)
  BY DEF IInv, LimitInv
<1>1. PICK enabled \in BOOLEAN, limit \in Limits, def \in Definitions :
        /\ flow' = [exists |-> TRUE, enabled |-> enabled, limit |-> limit, def |-> def]
        /\ SyncFlowQueue(flow')
  BY DEF UpdateFlow
<1>2. flow.exists /\ UNCHANGED <<runners, robbed>>
  BY DEF UpdateFlow, memory, count
<1>3. QueueFits'
  BY <1>1 DEF SyncFlowQueue, QueueFits, Throttled
<1>4. ASSUME NEW d \in Executions, NEW n \in Numbers, jobs[<<d, n>>] = "processing"
      PROVE  jobs'[<<d, n>>] = "processing"
  <2>1. <<d, n>> \in JobIds /\ Processing # {}
    BY <1>4 DEF JobIds, Processing
  <2>2. ~(queue = NoQueue \/ NothingQueued)
    BY <2>1 DEF LimitInv, NoQueueNoWork, NothingQueued
  <2>3. \/ jobs' = jobs
        \/ jobs' = [j \in JobIds |-> IF j \in Unsent /\ jobs[j] = "none" THEN "queued" ELSE jobs[j]]
    BY <1>1, <2>2 DEF SyncFlowQueue
  <2> QED BY <1>4, <2>1, <2>3
<1>5. runners' = Signalled({}) /\ {} \in SUBSET Executions /\ (flow'.exists => flow.exists)
      /\ robbed \subseteq robbed'
  BY <1>0, <1>2, NobodyToTell
<1> QED BY <1>0, <1>3, <1>4, <1>5, AbortsKeepLimit

(* Clients and timers.                                                               *)
LEMMA ClientsKeepLimit ==
  ASSUME IInv, LimitInv, ClientStep \/ TimerStep, ~Recover
  PROVE  QueueFits' /\ \A d \in Executions : Holds(d)'
<1>0. /\ ExecutionsOK /\ ContextOK
      /\ jobs \in [JobIds -> {"none", "queued", "processing", "done"}]
      /\ \A d \in Executions : Holds(d)
  BY DEF IInv, ExecutionsOK, LimitInv, ContextOK
<1>2. Signalled({}) = runners /\ {} \in SUBSET Executions
  BY <1>0, NobodyToTell
<1>3. ASSUME flow' = flow, queue' = queue PROVE QueueFits'
  BY <1>3 DEF LimitInv, QueueFits, Throttled
<1>5. CASE ClearExecutions \/ DeleteFlow
  <2> DEFINE S == {e \in Executions : Pending(e)}
  <2>1. S \in SUBSET Executions /\ runners' = Signalled(S) /\ robbed \subseteq robbed'
    BY <1>5 DEF ClearExecutions, DeleteFlow, Forget, count
  <2>2. QueueFits' /\ (flow'.exists => flow.exists)
    BY <1>0, <1>5 DEF ClearExecutions, DeleteFlow, LimitInv, QueueFits, Throttled, ContextOK
  <2>3. ASSUME NEW d \in Executions, NEW n \in Numbers, d \notin S, flow'.exists
        PROVE  jobs'[<<d, n>>] = jobs[<<d, n>>]
    <3>1. <<d, n>> \in JobIds /\ <<d, n>> \notin JobsOf(Executions)
      BY <2>3 DEF JobIds, JobsOf
    <3>2. CASE ClearExecutions
      BY <3>1, <3>2 DEF ClearExecutions, Without
    <3>3. CASE DeleteFlow
      BY <1>0, <2>3, <3>3 DEF DeleteFlow, ContextOK
    <3> QED BY <1>5, <3>2, <3>3
  <2> HIDE DEF S
  <2> QED BY <1>0, <2>1, <2>2, <2>3, AbortsKeepLimit
<1>6. ASSUME NEW e \in Executions, Abort(e) \/ WaiterTimesOut(e)
      PROVE  QueueFits' /\ \A d \in Executions : Holds(d)'
  <2>1. PICK S \in SUBSET Executions : S = {e}
    OBVIOUS
  <2>2. /\ runners' = Signalled(S) /\ jobs' = Without(JobsOf(S))
        /\ UNCHANGED <<flow, queue, robbed>>
    BY <1>6, <2>1 DEF Abort, WaiterTimesOut, AbortAll, count
  <2>3. ASSUME NEW d \in Executions, NEW n \in Numbers, d \notin S
        PROVE  jobs'[<<d, n>>] = jobs[<<d, n>>]
    BY <2>1, <2>2, <2>3 DEF Without, JobsOf, JobIds
  <2>4. (flow'.exists => flow.exists) /\ robbed \subseteq robbed'
    BY <2>2
  <2> QED BY <1>0, <1>3, <2>2, <2>3, <2>4, AbortsKeepLimit
<1>7. ASSUME NEW e \in Executions, Unsuppress(e)
      PROVE  QueueFits' /\ \A d \in Executions : Holds(d)'
  <2>1. UNCHANGED <<flow, queue, jobs, runners, robbed>>
    BY <1>7 DEF Unsuppress, disk, count
  <2>2. (flow'.exists => flow.exists) /\ robbed \subseteq robbed' /\ runners' = Signalled({})
    BY <1>2, <2>1
  <2> QED BY <1>0, <1>2, <1>3, <2>1, <2>2, AbortsKeepLimit
<1>8. ASSUME NEW j \in JobIds, SweepJob(j)
      PROVE  QueueFits' /\ \A d \in Executions : Holds(d)'
  <2>1. UNCHANGED <<flow, queue, runners, robbed>>
    BY <1>8 DEF SweepJob, memory, count
  <2>2. ASSUME NEW d \in Executions, NEW n \in Numbers, \E r \in Of(d) : r.job = n,
               jobs[<<d, n>>] = "processing"
        PROVE  jobs'[<<d, n>>] = "processing"
    <3>1. <<d, n>> \in JobIds /\ (<<d, n>> = j => \A r \in Of(d) : r.job = n => <<r.exec, r.job>> = j)
      BY DEF JobIds, Of
    <3>2. CASE <<d, n>> = j
      BY <1>0, <1>8, <2>2, <3>1, <3>2 DEF SweepJob, Of
    <3>3. CASE <<d, n>> # j
      BY <1>0, <1>8, <2>2, <3>1, <3>3 DEF SweepJob
    <3> QED BY <3>2, <3>3
  <2>3. (flow'.exists => flow.exists) /\ robbed \subseteq robbed' /\ runners' = Signalled({})
    BY <1>2, <2>1
  <2> QED BY <1>0, <1>2, <1>3, <2>1, <2>2, <2>3, AbortsKeepLimit
<1>9. ASSUME NEW e \in Executions, Resume(e)
      PROVE  QueueFits' /\ \A d \in Executions : Holds(d)'
  <2>1. PICK wait \in BOOLEAN : Resumes(e, jobs, recovery.todo, wait)
    BY <1>9 DEF Resume
  <2>2. flow' = flow /\ robbed \subseteq robbed' /\ MayResume(e)
    BY <1>9 DEF Resume, count
  <2> QED BY <2>1, <2>2, ResumesKeepLimit
<1> QED BY <1>5, <1>6, <1>7, <1>8, <1>9, ExecutesInLimit, UpdatesKeepLimit DEF ClientStep, TimerStep

(* The restart and the recovery.                                                    *)
LEMMA RecoveryKeepsLimit ==
  ASSUME IInv, LimitInv, Recover \/ Restart \/ RecoverStep
  PROVE  QueueFits' /\ \A d \in Executions : Holds(d)'
<1>0. /\ ExecutionsOK /\ ContextOK
      /\ jobs \in [JobIds -> {"none", "queued", "processing", "done"}]
      /\ \A d \in Executions : Holds(d)
  BY DEF IInv, ExecutionsOK, LimitInv, ContextOK
<1>2. ASSUME NEW active, NEW jobs0, RequeueAll(Stranded(active), jobs0), flow' = flow
      PROVE  /\ QueueFits'
             /\ \A d \in Executions : Of(d) # {} => \A n \in Numbers : jobs'[<<d, n>>] = jobs0[<<d, n>>]
  <2>1. QueueFits'
    BY <1>2 DEF RequeueAll, QueueFits, Throttled
  <2>2. ASSUME NEW d \in Executions, Of(d) # {}, NEW n \in Numbers
        PROVE  jobs'[<<d, n>>] = jobs0[<<d, n>>]
    <3>1. d \notin Stranded(active)
      BY <1>0, <2>2, RunnerAndRow DEF Stranded, Of
    <3>2. /\ <<d, n>> \in JobIds /\ <<d, n>> \notin JobsOf(Stranded(active))
          /\ <<d, n>> \notin {<<e, row[e].job>> : e \in Stranded(active)}
      BY <3>1 DEF JobIds, JobsOf
    <3> QED BY <1>2, <3>2 DEF RequeueAll
  <2> QED BY <2>1, <2>2
<1>3. CASE Recover \/ Restart
  <2>1. flow' = flow /\ robbed \subseteq robbed' /\ (flow'.exists => flow.exists)
    BY <1>3 DEF Recover, Restart, count
  <2>3. CASE AbortOrphans
    <3> DEFINE A == Orphans \cup Lost(Stranded(claims))
    <3>1. /\ A \in SUBSET Executions /\ runners' = Signalled(A)
          /\ RequeueAll(Stranded(claims), Without(JobsOf(Orphans)))
      BY <2>3 DEF AbortOrphans, Orphans, Lost, Stranded
    <3>3. ASSUME NEW d \in Executions, NEW n \in Numbers, \E r \in Of(d) : Works(r) /\ r.job = n
          PROVE  jobs'[<<d, n>>] = jobs[<<d, n>>]
      <4>1. Of(d) # {} /\ d \notin Orphans
        BY <1>0, <3>3, NoRunner DEF Orphans
      <4>2. <<d, n>> \in JobIds /\ <<d, n>> \notin JobsOf(Orphans)
        BY <4>1 DEF JobIds, JobsOf
      <4> QED BY <1>2, <2>1, <3>1, <4>1, <4>2 DEF Without
    <3> HIDE DEF A
    <3>4. QueueFits'
      BY <1>2, <2>1, <3>1
    <3> QED BY <1>0, <2>1, <3>1, <3>3, <3>4, AbortsKeepLimit
  <2>4. CASE ResumeOrphans
    <3>1. UNCHANGED <<jobs, runners>>
      BY <2>4 DEF ResumeOrphans
    <3>2. QueueFits'
      <4>1. CASE AbortOrphans
        BY <1>2, <2>1, <4>1 DEF AbortOrphans
      <4>2. CASE ~AbortOrphans
        BY <1>3, <2>1, <4>2 DEF Recover, Restart, LimitInv, QueueFits, Throttled
      <4> QED BY <4>1, <4>2
    <3>3. Signalled({}) = runners /\ {} \in SUBSET Executions
      BY <1>0, NobodyToTell
    <3>4. \A d \in Executions, n \in Numbers : jobs'[<<d, n>>] = jobs[<<d, n>>]
      BY <3>1
    <3> QED BY <1>0, <2>1, <3>1, <3>2, <3>3, <3>4, AbortsKeepLimit
  <2> QED BY <1>3, <2>3, <2>4 DEF Recover, Restart
<1>4. CASE RecoverQueued
  <2> DEFINE S == Lost(Stranded(recovery.active))
  <2>1. /\ S \in SUBSET Executions /\ runners' = Signalled(S)
        /\ RequeueAll(Stranded(recovery.active), jobs) /\ UNCHANGED <<flow, robbed>>
    BY <1>4 DEF RecoverQueued, AbortAll, Lost, Stranded, count
  <2> HIDE DEF S
  <2>2. QueueFits' /\ \A d \in Executions, n \in Numbers :
          (\E r \in Of(d) : Works(r) /\ r.job = n) => jobs'[<<d, n>>] = jobs[<<d, n>>]
    BY <1>2, <2>1
  <2>3. (flow'.exists => flow.exists) /\ robbed \subseteq robbed'
    BY <2>1
  <2> QED BY <1>0, <2>1, <2>2, <2>3, AbortsKeepLimit
<1>5. ASSUME NEW t \in recovery.todo, RecoverOne(t[1], t[2])
      PROVE  QueueFits' /\ \A d \in Executions : Holds(d)'
  <2> DEFINE e == t[1]
             n == t[2]
             jobs0 == Without({<<e, n>>})
  <2>1. e \in Executions
    BY <1>0 DEF ContextOK
  <2>2. flow' = flow /\ robbed' = robbed \cup WorkingOn(Processing \cap {<<e, n>>})
    BY <1>5 DEF RecoverOne
  <2>3. \A d \in Executions, m \in Numbers : <<d, m>> # <<e, n>> => jobs0[<<d, m>>] = jobs[<<d, m>>]
    BY DEF Without, JobIds
  <2>4. CASE MayResume(e)
    <3>1. Resumes(e, jobs0, recovery.todo \ {<<e, n>>}, FALSE)
      BY <1>5, <2>4 DEF RecoverOne
    <3>2. \A d \in Executions \ {e} : \A m \in Numbers : jobs0[<<d, m>>] = jobs[<<d, m>>]
      <4>1. \A d \in Executions \ {e} : \A m \in Numbers : <<d, m>> # <<e, n>>
        OBVIOUS
      <4> QED BY <2>3, <4>1
    <3>3. robbed \subseteq robbed'
      BY <2>2
    <3> HIDE DEF jobs0
    <3> QED BY <2>1, <2>2, <2>4, <3>1, <3>2, <3>3, ResumesKeepLimit
  <2>5. CASE ~MayResume(e)
    <3>0. queue' = queue /\ QueueFits'
      BY <1>5, <2>2, <2>5 DEF RecoverOne, LimitInv, QueueFits, Throttled
    <3>1. PICK S \in SUBSET Executions :
            /\ runners' = Signalled(S)
            /\ \A d \in Executions \ S : \A m \in Numbers : <<d, m>> # <<e, n>> =>
                 jobs'[<<d, m>>] = jobs[<<d, m>>]
      <4>1. CASE jobs' = jobs0 /\ UNCHANGED runners
        <5>1. Signalled({}) = runners /\ {} \in SUBSET Executions
          BY <1>0, NobodyToTell
        <5>2. \A d \in Executions, m \in Numbers : <<d, m>> # <<e, n>> => jobs'[<<d, m>>] = jobs[<<d, m>>]
          BY <2>3, <4>1
        <5> HIDE DEF jobs0
        <5> QED BY <4>1, <5>1, <5>2
      <4>2. CASE /\ AbortAll({e})
                 /\ jobs' = [j \in JobIds |-> IF j \in JobsOf({e}) THEN "none" ELSE jobs0[j]]
        <5> HIDE DEF jobs0
        <5>1. ASSUME NEW d \in Executions, NEW m \in Numbers
              PROVE  jobs'[<<d, m>>] = IF <<d, m>> \in JobsOf({e}) THEN "none" ELSE jobs0[<<d, m>>]
          BY <4>2 DEF JobIds
        <5>2. \A d \in Executions \ {e} : \A m \in Numbers : <<d, m>> \notin JobsOf({e})
          BY DEF JobsOf
        <5>3. runners' = Signalled({e}) /\ {e} \in SUBSET Executions
          BY <2>1, <4>2 DEF AbortAll
        <5>4. \A d \in Executions \ {e} : \A m \in Numbers : <<d, m>> # <<e, n>> =>
                jobs'[<<d, m>>] = jobs[<<d, m>>]
          BY <2>3, <5>1, <5>2
        <5> QED BY <5>3, <5>4
      <4> QED BY <1>5, <2>5, <4>1, <4>2 DEF RecoverOne
    <3>2. ASSUME NEW d \in Executions, NEW m \in Numbers, <<d, m>> = <<e, n>>,
                 \E r \in Of(d) : Works(r) /\ r.job = m, jobs[<<d, m>>] = "processing"
          PROVE  d \in robbed'
      <4>1. <<d, m>> \in Processing \cap {<<e, n>>}
        BY <3>2 DEF Processing, JobIds
      <4>2. d \in WorkingOn(Processing \cap {<<e, n>>})
        BY <3>2, <4>1 DEF WorkingOn, Working, Works, Of
      <4> QED BY <2>2, <4>2
    <3>3. \A d \in Executions, m \in Numbers :
            d \notin S /\ (\E r \in Of(d) : Works(r) /\ r.job = m) /\ jobs[<<d, m>>] = "processing" =>
              jobs'[<<d, m>>] = "processing" \/ d \in robbed'
      BY <3>1, <3>2
    <3>4. (flow'.exists => flow.exists) /\ robbed \subseteq robbed'
      BY <2>2
    <3> QED BY <1>0, <3>0, <3>1, <3>3, <3>4, AbortsKeepLimit
  <2> QED BY <2>4, <2>5
<1> QED BY <1>3, <1>4, <1>5 DEF RecoverStep

-----------------------------------------------------------------------------
(* Messages are processed only while there is a queue.                              *)

(* A free slot is one of a queue.                                                    *)
LEMMA ProcessingIsFinite ==
  ASSUME IsFiniteSet(Executions)
  PROVE  IsFiniteSet(Processing) /\ Cardinality(Processing) \in Nat
<1>1. IsFiniteSet(Numbers)
  BY FS_Interval, BoundsAssumption DEF Numbers
<1>2. IsFiniteSet(JobIds)
  BY <1>1, FS_Product DEF JobIds
<1>3. IsFiniteSet(Processing)
  BY <1>2, FS_Subset DEF Processing
<1> QED BY <1>3, FS_CardinalityType

LEMMA QueueHasSlots ==
  ASSUME IsFiniteSet(Executions), FreeSlot
  PROVE  queue # NoQueue
<1>1. Cardinality(Processing) \in Nat /\ Cardinality(Processing) < queue
  BY ProcessingIsFinite DEF FreeSlot
<1> QED BY <1>1 DEF NoQueue

LEMMA QueueKept ==
  ASSUME NoQueueNoWork, queue' = NoQueue => queue = NoQueue,
         \A j \in JobIds : jobs'[j] = "processing" => jobs[j] = "processing"
  PROVE  NoQueueNoWork'
BY DEF NoQueueNoWork, Processing

LEMMA StepsKeepQueue ==
  ASSUME IInv, NoQueueNoWork, IsFiniteSet(Executions), [Next]_vars
  PROVE  NoQueueNoWork'
<1>0. jobs \in [JobIds -> {"none", "queued", "processing", "done"}]
  BY DEF IInv, ContextOK
<1>1. Throttled => flow.limit # NoQueue
  BY DEF Throttled, NoQueue
<1>2. \A J : \A j \in JobIds : Without(J)[j] = "processing" => jobs[j] = "processing"
  BY DEF Without
<1>3. ASSUME jobs' = Without(JobIds) PROVE NoQueueNoWork'
  BY <1>3 DEF Without, NoQueueNoWork, Processing
<1>4. ASSUME queue' = queue, jobs' = jobs PROVE NoQueueNoWork'
  BY <1>4, QueueKept
<1>5. ASSUME NEW e, NEW jobs0, NEW todo, NEW wait, Resumes(e, jobs0, todo, wait),
             \A j \in JobIds : jobs0[j] = "processing" => jobs[j] = "processing"
      PROVE  NoQueueNoWork'
  <2>1. \A j \in JobIds : jobs'[j] = "processing" => jobs[j] = "processing"
    <3> DEFINE n0 == CHOOSE n \in FreshJobs(e, todo) : TRUE
    <3>1. \/ jobs' = jobs0
          \/ jobs' = [j \in JobIds |-> IF j \in JobsOf({e}) THEN "none" ELSE jobs0[j]]
          \/ jobs' = [j \in JobIds |-> IF j = <<e, n0>> THEN "queued"
                                       ELSE IF j = <<e, row[e].job>> THEN "none" ELSE jobs0[j]]
      BY <1>5 DEF Resumes
    <3> HIDE DEF n0
    <3> QED BY <1>5, <3>1
  <2>2. queue' = queue \/ (Throttled /\ queue' = flow.limit)
    BY <1>5 DEF Resumes
  <2> QED BY <1>1, <2>1, <2>2, QueueKept
<1>6. ASSUME NEW S, NEW jobs0, RequeueAll(S, jobs0),
             \A j \in JobIds : jobs0[j] = "processing" => jobs[j] = "processing"
      PROVE  NoQueueNoWork'
  <2>1. \A j \in JobIds : jobs'[j] = "processing" => jobs[j] = "processing"
    BY <1>6 DEF RequeueAll
  <2>2. queue' = queue \/ (Throttled /\ queue' = flow.limit) \/ queue' = DrainConcurrency
    BY <1>6 DEF RequeueAll
  <2>3. DrainConcurrency # NoQueue
    BY DEF DrainConcurrency, NoQueue
  <2> QED BY <1>1, <2>1, <2>2, <2>3, QueueKept
<1>7. CASE ClientStep \/ TimerStep \/ Restart
  <2>1. CASE UpdateFlow
    <3>1. PICK f : SyncFlowQueue(f)
      BY <2>1 DEF UpdateFlow
    <3>2. CASE f.limit >= 1
      <4>1. jobs' = jobs /\ queue' \in {f.limit, queue} /\ f.limit # NoQueue
        BY <3>1, <3>2 DEF SyncFlowQueue, NoQueue
      <4> QED BY <4>1, QueueKept
    <3>3. CASE ~(f.limit >= 1) /\ (queue = NoQueue \/ NothingQueued)
      BY <1>3, <3>1, <3>3 DEF SyncFlowQueue
    <3>4. CASE ~(f.limit >= 1) /\ ~(queue = NoQueue \/ NothingQueued)
      BY <3>1, <3>4 DEF SyncFlowQueue, NoQueueNoWork, DrainConcurrency, NoQueue
    <3> QED BY <3>2, <3>3, <3>4
  <2>2. CASE ClearExecutions
    BY <1>2, <2>2, QueueKept DEF ClearExecutions
  <2>3. CASE DeleteFlow
    BY <1>3, <2>3 DEF DeleteFlow
  <2>4. ASSUME NEW e \in Executions, ExecuteQueued(e) \/ ExecuteDirectly(e) PROVE NoQueueNoWork'
    <3>1. CASE ExecuteQueued(e)
      <4>1. queue' # NoQueue
        BY <1>1, <3>1 DEF ExecuteQueued
      <4> QED BY <4>1 DEF NoQueueNoWork
    <3>2. CASE ExecuteDirectly(e)
      BY <1>4, <3>2 DEF ExecuteDirectly
    <3> QED BY <2>4, <3>1, <3>2
  <2>5. ASSUME NEW e \in Executions, Resume(e) PROVE NoQueueNoWork'
    BY <1>5, <2>5 DEF Resume
  <2>6. ASSUME NEW e \in Executions, Abort(e) \/ WaiterTimesOut(e) PROVE NoQueueNoWork'
    BY <1>2, <2>6, QueueKept DEF Abort, WaiterTimesOut
  <2>7. ASSUME NEW e \in Executions, Unsuppress(e) PROVE NoQueueNoWork'
    BY <1>4, <2>7 DEF Unsuppress, disk
  <2>8. ASSUME NEW j \in JobIds, SweepJob(j) PROVE NoQueueNoWork'
    <3>1. queue' = queue /\ jobs' \in {[jobs EXCEPT ![j] = "done"], [jobs EXCEPT ![j] = "none"]}
      BY <2>8 DEF SweepJob
    <3> QED BY <1>0, <3>1, QueueKept
  <2>9. CASE Recover \/ Restart
    <3>1. CASE AbortOrphans
      BY <1>2, <1>6, <3>1 DEF AbortOrphans
    <3>2. CASE ~AbortOrphans
      <4>1. jobs' = jobs /\ (queue' = queue \/ (Throttled /\ queue' = flow.limit))
        BY <2>9, <3>2 DEF Recover, Restart, ResumeOrphans
      <4> QED BY <1>1, <4>1, QueueKept
    <3> QED BY <3>1, <3>2
  <2> QED BY <1>7, <2>1, <2>2, <2>3, <2>4, <2>5, <2>6, <2>7, <2>8, <2>9 DEF ClientStep, TimerStep
<1>8. CASE RecoverStep
  <2>1. CASE RecoverQueued
    BY <1>6, <2>1 DEF RecoverQueued
  <2>2. ASSUME NEW t \in recovery.todo, RecoverOne(t[1], t[2]) PROVE NoQueueNoWork'
    <3> DEFINE jobs0 == Without({<<t[1], t[2]>>})
    <3>1. \A j \in JobIds : jobs0[j] = "processing" => jobs[j] = "processing"
      BY <1>2
    <3>2. CASE MayResume(t[1])
      <4>1. Resumes(t[1], jobs0, recovery.todo \ {<<t[1], t[2]>>}, FALSE)
        BY <2>2, <3>2 DEF RecoverOne
      <4> HIDE DEF jobs0
      <4> QED BY <1>5, <3>1, <4>1
    <3>3. CASE ~MayResume(t[1])
      <4>1. queue' = queue /\ \/ jobs' = jobs0
                              \/ jobs' = [j \in JobIds |-> IF j \in JobsOf({t[1]}) THEN "none" ELSE jobs0[j]]
        BY <2>2, <3>3 DEF RecoverOne
      <4> HIDE DEF jobs0
      <4> QED BY <3>1, <4>1, QueueKept
    <3> QED BY <3>2, <3>3
  <2> QED BY <1>8, <2>1, <2>2 DEF RecoverStep
<1>9. ASSUME NEW j \in JobIds, WorkerStep(j[1], j[2]) PROVE NoQueueNoWork'
  <2> DEFINE e == j[1]
             n == j[2]
  <2>1. queue' = queue /\ queue # NoQueue
    BY <1>9, QueueHasSlots DEF WorkerStep, WorkerStarts, WorkerLoses, WorkerCompletes, WorkerRefuses,
       WorkerSkips, Take
  <2> QED BY <2>1 DEF NoQueueNoWork
<1>10. ASSUME NEW r \in runners, RunnerStep(r) PROVE NoQueueNoWork'
  <2>1. ASSUME NEW status, NEW at, NEW log, Finish(r, status, at, log) PROVE NoQueueNoWork'
    <3>1. \/ jobs' = Without(JobIds)
          \/ queue' = queue /\ jobs' \in {jobs, [jobs EXCEPT ![<<r.exec, r.job>>] = "done"]}
      BY <2>1 DEF Finish
    <3> QED BY <1>0, <1>3, <3>1, QueueKept
  <2>2. ASSUME NEW next, NEW log, NEW at, Advance(r, next, log, at) PROVE NoQueueNoWork'
    BY <1>4, <2>1, <2>2 DEF Advance
  <2> QED BY <1>10, <2>1, <2>2 DEF RunnerStep, StepSucceeds, StepCaught, FlowSucceeds, StepFails,
             DeadlinePasses, PersistFails
<1>11. CASE Crashes
  <2>1. CASE \E j \in JobIds : CrashInClaim(j)
    <3>1. queue' = queue /\ queue # NoQueue
      BY <2>1, QueueHasSlots DEF CrashInClaim, Take, Down
    <3> QED BY <3>1 DEF NoQueueNoWork
  <2>2. CASE ~ \E j \in JobIds : CrashInClaim(j)
    <3>1. queue' = queue /\ (jobs' = jobs \/ \E J : jobs' = Without(J))
      BY <1>11, <2>2 DEF Crashes, Crash, CrashInExecute, CrashInResume, CrashInAbort, CrashInSave,
         CrashAfterSave, Down
    <3> QED BY <1>2, <3>1, QueueKept
  <2> QED BY <2>1, <2>2
<1>12. CASE UNCHANGED vars
  BY <1>4, <1>12 DEF vars, disk
<1> QED BY <1>7, <1>8, <1>9, <1>10, <1>11, <1>12 DEF Next

(* Every step keeps the invariant of the limit.                                      *)
LEMMA StepsKeepLimit ==
  ASSUME IInv, LimitInv, IsFiniteSet(Executions), [Next]_vars
  PROVE  LimitInv'
<1>0. NoQueueNoWork'
  BY StepsKeepQueue DEF LimitInv
<1>1. CASE Crashes
  <2>1. UNCHANGED <<flow, queue>> /\ runners' = {}
    BY <1>1 DEF Crashes, Crash, CrashInExecute, CrashInResume, CrashInAbort, CrashInClaim,
       CrashInSave, CrashAfterSave, Down
  <2>2. \A e \in Executions : Of(e)' = {}
    BY <2>1 DEF Of
  <2> QED BY <1>0, <2>1, <2>2 DEF LimitInv, QueueFits, Throttled, Holds
<1>2. CASE UNCHANGED vars
  <2>1. UNCHANGED <<flow, queue, jobs, runners, robbed>>
    BY <1>2 DEF vars, disk, memory, count
  <2> QED BY <1>0, <2>1 DEF LimitInv, QueueFits, Throttled, Holds, Of, Processing
<1>3. CASE ClientStep \/ TimerStep \/ Restart \/ RecoverStep
  BY <1>0, <1>3, ClientsKeepLimit, RecoveryKeepsLimit DEF LimitInv
<1> QED BY <1>0, <1>1, <1>2, <1>3, WorkersKeepLimit, RunnersKeepLimit DEF Next, LimitInv

(* As many executions work on a message as messages are processed, at the most.       *)
LEMMA WorkingHoldMessages ==
  ASSUME IInv, LimitInv, flow.exists, IsFiniteSet(Executions)
  PROVE  LET W == {r \in Working : r.exec \notin robbed} IN
         Cardinality(W) <= Cardinality(Processing) /\ {Cardinality(W), Cardinality(Processing)} \subseteq Nat
<1> DEFINE W == {r \in Working : r.exec \notin robbed}
           f == [r \in W |-> <<r.exec, r.job>>]
<1>1. IsFiniteSet(Processing)
  BY ProcessingIsFinite
<1>2. \A r \in W : <<r.exec, r.job>> \in Processing
  <2>1. \A r \in W : r.exec \in Executions /\ r \in Of(r.exec) /\ Works(r) /\ r.exec \notin robbed
    BY DEF Working, Works, Of, IInv, ExecutionsOK, RunnerType
  <2> QED BY <2>1 DEF LimitInv, Holds
<1>3. \A r, q \in W : r.exec = q.exec => r = q
  BY WhatTheInvariantSays DEF RunnerOwnsRow, Working
<1> HIDE DEF W
<1>4. f \in Injection(W, Processing)
  <2>1. f \in [W -> Processing]
    BY <1>2
  <2>2. \A r, q \in W : f[r] = f[q] => r = q
    BY <1>3
  <2>3. DOMAIN f = W
    OBVIOUS
  <2> HIDE DEF f
  <2> QED BY <2>1, <2>2, <2>3 DEF Injection, IsInjective
<1>5. IsFiniteSet(W) /\ Cardinality(W) <= Cardinality(Processing)
  BY <1>1, <1>4, FS_Injection
<1>6. {Cardinality(W), Cardinality(Processing)} \subseteq Nat
  BY <1>1, <1>5, FS_CardinalityType
<1> QED BY <1>5, <1>6 DEF W

(* Only the worker of the queue starts an execution that is queued.                    *)
LEMMA OnlyWorkersStart ==
  ASSUME IInv, [Next]_vars, NEW e \in Executions, row[e].status = "queued", row'[e].status = "running"
  PROVE  \E n \in Numbers : WorkerStarts(e, n)
<1>0. ExecutionsOK /\ ContextOK /\ row \in [Executions -> RowType]
  BY DEF IInv, ExecutionsOK
<1>1. ASSUME NEW S, row'[e] \in {row[e], AbortedRows(S)[e], Unclaimed[e], NoRow} PROVE FALSE
  <2>1. AbortedRows(S)[e] = row[e] \/ AbortedRows(S)[e].status = "aborted"
    BY <1>0 DEF AbortedRows, RowType
  <2>2. Unclaimed[e].status = row[e].status /\ NoRow.status = "none"
    BY <1>0 DEF Unclaimed, RowType, NoRow
  <2> QED BY <1>1, <2>1, <2>2
<1>2. ASSUME NEW d \in Executions, row[d].status # "queued", \A c \in Executions \ {d} : row'[c] = row[c]
      PROVE  FALSE
  BY <1>2
<1>3. ASSUME NEW d \in Executions, MayResume(d), NEW jobs0, NEW todo, NEW wait, Resumes(d, jobs0, todo, wait)
      PROVE  FALSE
  <2>1. row' = AbortedRows({d}) \/ \A c \in Executions \ {d} : row'[c] = row[c]
    BY <1>0, <1>3 DEF Resumes
  <2> QED BY <1>1, <1>2, <1>3, <2>1 DEF MayResume
<1>4. ASSUME ClientStep \/ TimerStep \/ Restart PROVE FALSE
  <2>1. ASSUME NEW d \in Executions, ExecuteQueued(d) \/ ExecuteDirectly(d) PROVE FALSE
    <3>0. row[d] = NoRow
      BY <2>1 DEF ExecuteQueued, ExecuteDirectly, MayExecute
    <3>1. row[d].status # "queued"
      BY <3>0 DEF NoRow
    <3>2. \A c \in Executions \ {d} : row'[c] = row[c]
      BY <1>0, <2>1 DEF ExecuteQueued, ExecuteDirectly, Recorded
    <3> QED BY <1>2, <3>1, <3>2
  <2>2. ASSUME NEW d \in Executions, Resume(d) PROVE FALSE
    BY <1>3, <2>2 DEF Resume
  <2>3. ASSUME Recover \/ Restart PROVE FALSE
    <3>1. PICK A : row'[e] \in {AbortedRows(A)[e], Unclaimed[e]}
      BY <2>3 DEF Recover, Restart, AbortOrphans, ResumeOrphans, Unclaimed
    <3> QED BY <1>1, <3>1
  <2>4. ASSUME UpdateFlow \/ ClearExecutions \/ DeleteFlow PROVE FALSE
    <3>1. row'[e] \in {row[e], NoRow}
      BY <2>4 DEF UpdateFlow, ClearExecutions, DeleteFlow, Forget
    <3> QED BY <1>1, <3>1
  <2>5. ASSUME NEW d \in Executions, Abort(d) \/ WaiterTimesOut(d) PROVE FALSE
    BY <1>1, <2>5 DEF Abort, WaiterTimesOut, AbortAll
  <2>6. ASSUME TimerStep, \A d \in Executions : ~WaiterTimesOut(d) PROVE FALSE
    BY <1>1, <2>6 DEF TimerStep, Unsuppress, SweepJob, disk
  <2> QED BY <1>4, <2>1, <2>2, <2>3, <2>4, <2>5, <2>6 DEF ClientStep
<1>5. ASSUME RecoverStep PROVE FALSE
  <2>1. ASSUME NEW t \in recovery.todo, RecoverOne(t[1], t[2]) PROVE FALSE
    <3>1. t[1] \in Executions
      BY <1>0 DEF ContextOK
    <3>2. MayResume(t[1]) \/ row' = row \/ row' = AbortedRows({t[1]})
      BY <2>1 DEF RecoverOne, AbortAll
    <3>3. ASSUME MayResume(t[1]) PROVE FALSE
      <4>1. PICK jobs0, todo : Resumes(t[1], jobs0, todo, FALSE)
        BY <2>1, <3>3 DEF RecoverOne
      <4> QED BY <1>3, <3>1, <3>3, <4>1
    <3> QED BY <1>1, <3>2, <3>3
  <2> QED BY <1>1, <1>5, <2>1 DEF RecoverStep, RecoverQueued, AbortAll
<1>6. ASSUME NEW r \in runners, RunnerStep(r) PROVE FALSE
  <2>1. r.exec \in Executions /\ row[r.exec].status # "queued"
    BY <1>0, RunnerAndRow
  <2>2. ASSUME NEW status, NEW at, NEW log, Finish(r, status, at, log) PROVE FALSE
    <3>1. \A c \in Executions \ {r.exec} : row'[c] = row[c]
      BY <1>0, <2>2 DEF Finish
    <3> QED BY <1>2, <2>1, <3>1
  <2>3. ASSUME NEW next, NEW log, NEW at, Advance(r, next, log, at) PROVE FALSE
    <3>1. ASSUME row' = IF Persists(r) THEN [row EXCEPT ![r.exec].at = next, ![r.exec].log = log]
                        ELSE row
          PROVE  FALSE
      <4>1. \A c \in Executions \ {r.exec} : row'[c] = row[c]
        BY <1>0, <3>1
      <4> QED BY <1>2, <2>1, <4>1
    <3> QED BY <2>2, <2>3, <3>1 DEF Advance
  <2> QED BY <1>6, <2>2, <2>3 DEF RunnerStep, StepSucceeds, StepCaught, FlowSucceeds, StepFails,
             DeadlinePasses, PersistFails
<1>7. ASSUME Crashes PROVE FALSE
  <2>1. ASSUME NEW messages, Down(row, messages) PROVE FALSE
    BY <1>1, <2>1 DEF Down
  <2>2. ASSUME NEW d \in Executions, CrashInExecute(d) \/ CrashInResume(d) PROVE FALSE
    <3>1. row[d].status # "queued"
      BY <2>2 DEF CrashInExecute, CrashInResume, MayExecute, MayResume, NoRow
    <3>2. \A c \in Executions \ {d} : row'[c] = row[c]
      BY <1>0, <2>2 DEF CrashInExecute, CrashInResume, Down, Recorded
    <3> QED BY <1>2, <3>1, <3>2
  <2>3. ASSUME NEW r \in runners, CrashInSave(r) \/ CrashAfterSave(r) PROVE FALSE
    <3>1. r.exec \in Executions /\ row[r.exec].status # "queued"
      BY <1>0, RunnerAndRow
    <3>2. \A c \in Executions \ {r.exec} : row'[c] = row[c]
      BY <1>0, <2>3 DEF CrashInSave, CrashAfterSave, Down
    <3> QED BY <1>2, <3>1, <3>2
  <2> QED BY <1>7, <2>1, <2>2, <2>3 DEF Crashes, Crash, CrashInAbort, CrashInClaim
<1>8. ASSUME NEW j \in JobIds, WorkerStep(j[1], j[2]) PROVE WorkerStarts(e, j[2])
  <2>1. j[1] \in Executions
    BY DEF JobIds
  <2>2. CASE WorkerStarts(j[1], j[2])
    <3>1. \A c \in Executions \ {j[1]} : row'[c] = row[c]
      BY <1>0, <2>2 DEF WorkerStarts
    <3>2. e = j[1]
      BY <3>1
    <3> QED BY <2>2, <3>2
  <2>3. CASE WorkerCompletes(j[1], j[2])
    <3>1. row' = [row EXCEPT ![j[1]] = Succeeded(@)]
      BY <2>3 DEF WorkerCompletes
    <3>2. row'[e] = row[e] \/ row'[e].status = "succeeded"
      BY <1>0, <2>1, <3>1 DEF Succeeded, RowType
    <3> QED BY <3>2
  <2>4. CASE WorkerLoses(j[1], j[2]) \/ WorkerRefuses(j[1], j[2]) \/ WorkerSkips(j[1], j[2])
    BY <1>1, <2>4 DEF WorkerLoses, WorkerRefuses, WorkerSkips, AbortAll
  <2> QED BY <1>8, <2>2, <2>3, <2>4 DEF WorkerStep
<1>9. ASSUME UNCHANGED vars PROVE FALSE
  BY <1>1, <1>9 DEF vars, disk
<1>10. \A j \in JobIds : j[2] \in Numbers
  BY DEF JobIds
<1> QED BY <1>4, <1>5, <1>6, <1>7, <1>8, <1>9, <1>10 DEF Next

LimitStep == \A e \in Executions :
  IsStarted(e) /\ Throttled => Cardinality({r \in Working : r.exec \notin robbed}) < flow.limit

(* The queue starts an execution only while fewer than the limit run from it, across    *)
(* updates that set, change or remove the limit, aborts, resumes, crashes, recoveries   *)
(* and ids used again, but for the executions whose message was taken from them.       *)
THEOREM LimitIsRespected ==
  ASSUME IsFiniteSet(Executions)
  PROVE  Spec => LimitRespected
<1>1. Init => LimitInv
  BY DEF Init, LimitInv, QueueFits, NoQueueNoWork, Processing, Holds, Of
<1>2. IInv /\ LimitInv /\ [Next]_vars => LimitInv'
  BY StepsKeepLimit
<1>3. IInv /\ LimitInv /\ [Next]_vars => [LimitStep]_vars
  <2> SUFFICES ASSUME IInv, LimitInv, [Next]_vars, NEW e \in Executions, IsStarted(e), Throttled
               PROVE  Cardinality({r \in Working : r.exec \notin robbed}) < flow.limit
    BY DEF LimitStep
  <2>1. PICK n \in Numbers : WorkerStarts(e, n)
    BY OnlyWorkersStart DEF IsStarted
  <2>2. flow.exists /\ queue = flow.limit /\ Cardinality(Processing) < queue
    BY <2>1 DEF WorkerStarts, Take, FreeSlot, Startable, LimitInv, QueueFits
  <2>3. flow.limit \in Nat
    BY BoundsAssumption DEF IInv, ContextOK
  <2> QED BY <2>2, <2>3, WorkingHoldMessages
<1>4. Spec => [][LimitStep]_vars
  BY <1>1, <1>2, <1>3, FlowInvariant, PTL DEF Spec
<1> QED BY <1>4, PTL DEF LimitRespected, LimitStep
=============================================================================
