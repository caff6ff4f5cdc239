---------------------------- MODULE SnapshotService ----------------------------
(***************************************************************************)
(* Snapshots of an application (src/snapshots/SnapshotService.ts), taken     *)
(* and restored as exclusive operations of its MaintenanceGate while         *)
(* requests create and delete records that own files                         *)
(* (src/http/controllers/RecordController.ts, src/records/RecordService.ts,  *)
(* src/files/FileStorageService.ts) across awaits.                           *)
(*                                                                         *)
(* The state of the application is its rows and its files.  What an action    *)
(* does to them between two awaits is one step; the steps that a failing      *)
(* disk ends early are steps of their own.                                   *)
(***************************************************************************)
EXTENDS MaintenanceGate

CONSTANTS
  Record,         \* the records, each with a file of its own
  MaxSnapshots,   \* maxSnapshots
  MaxCaptures     \* bound: snapshots ever taken

VARIABLES
  rows,          \* the records in data.db
  files,         \* the records whose file is in storageDir
  writing,       \* writing[r]: the record that request r writes, and how
  snapshots,     \* the snapshots on disk, by age: [id, rows, files]
  activeId,      \* activeSnapshotId of the manifest, or 0
  captures,      \* history: snapshots taken, the last one's id
  job,           \* job[o]: what operation o was asked for
  away,          \* the database is locked or closed
  unreconciled,  \* rows replaced, and 'snapshot:restore' not handled yet
  excused        \* history: why rows and files may differ

storage == <<rows, files, snapshots, activeId, captures, away, unreconciled, excused>>
snapshotVars == <<vars, storage, writing, job>>

NoWriting == [record |-> "none", kind |-> "none"]
NoJob == [kind |-> "none", id |-> 0, confirmed |-> FALSE]
Jobs == [kind : {"create"}, id : {0}, confirmed : BOOLEAN]
        \cup [kind : {"restore", "delete"}, id : 1..MaxCaptures, confirmed : {FALSE}]
        \cup [kind : {"clear"}, id : {0}, confirmed : {FALSE}]

SnapshotInit ==
  /\ Init
  /\ rows = {} /\ files = {} /\ writing = [r \in Request |-> NoWriting]
  /\ snapshots = {} /\ activeId = 0 /\ captures = 0
  /\ job = [o \in Operation |-> NoJob]
  /\ away = FALSE /\ unreconciled = FALSE /\ excused = FALSE

\* Ids grow with the age, by which listSnapshots sorts.
Ids(s) == {x.id : x \in s}
Find(id) == CHOOSE x \in snapshots : x.id = id
Without(ids) == {x \in snapshots : x.id \notin ids}
LastId(s) == IF s = {} THEN 0 ELSE CHOOSE id \in Ids(s) : \A other \in Ids(s) : other <= id

-----------------------------------------------------------------------------
(* Handlers.  A record is created file first and deleted file first; the     *)
(* handler may die of an error between the two steps of a creation.  While the *)
(* database is away no record is found and no row written; a handler that      *)
(* found its collection before may still save a file.                        *)

Unwritten(x) == \A r \in Request : writing[r].record # x
HandlerFrame == UNCHANGED <<vars, snapshots, activeId, captures, job, away, unreconciled, excused>>

SaveFile(r, x) ==
  /\ request[r] = "running" /\ writing[r] = NoWriting
  /\ x \notin rows /\ Unwritten(x)
  /\ files' = files \cup {x}
  /\ writing' = [writing EXCEPT ![r] = [record |-> x, kind |-> "create"]]
  /\ UNCHANGED rows /\ HandlerFrame

\* The insert, or an error of the rules, the hooks or the database before it.
InsertRow(r) ==
  /\ request[r] = "running" /\ writing[r].kind = "create"
  /\ rows' \in {rows} \cup (IF away THEN {} ELSE {rows \cup {writing[r].record}})
  /\ writing' = [writing EXCEPT ![r] = NoWriting]
  /\ UNCHANGED files /\ HandlerFrame

DeleteRecordFiles(r, x) ==
  /\ request[r] = "running" /\ writing[r] = NoWriting
  /\ ~away /\ x \in rows /\ Unwritten(x)
  /\ files' = files \ {x}
  /\ writing' = [writing EXCEPT ![r] = [record |-> x, kind |-> "delete"]]
  /\ UNCHANGED rows /\ HandlerFrame

DeleteRow(r) ==
  /\ request[r] = "running" /\ writing[r].kind = "delete"
  /\ rows' = IF away THEN rows ELSE rows \ {writing[r].record}
  /\ writing' = [writing EXCEPT ![r] = NoWriting]
  /\ UNCHANGED files /\ HandlerFrame

\* A request of the gate; the handler ends when its write has.
HttpStep(r) ==
  /\ RequestStep(r)
  /\ request[r] = "running" /\ request'[r] = "done" => writing[r] = NoWriting
  /\ UNCHANGED <<storage, writing, job>>

-----------------------------------------------------------------------------
(* Exclusive operations.                                                     *)

\* The operation asks the gate.  restoreSnapshot looks its target up first.
Request_(o, j) ==
  /\ j.kind = "restore" => j.id \in Ids(snapshots)
  /\ ExecuteExclusive(o)
  /\ job' = [job EXCEPT ![o] = j]
  /\ UNCHANGED <<storage, writing>>

DrainGivesUp(o) == DrainTimeout(o) /\ UNCHANGED <<storage, writing, job>>

\* A handler the gate does not wait for may be in the middle of a write.
Crossed(o) ==
  \/ closed \/ o \in gaveUp
  \/ \E r \in Request : request[r] = "running" /\ r \notin activeRequests

Returned(o) == ActionEnds(o) /\ job' = [job EXCEPT ![o] = NoJob]

AtLimit == Cardinality(snapshots) >= MaxSnapshots

Newer(s) == {x \in snapshots : x.id > s.id}

\* The oldest snapshots, which a confirmed creation at the limit evicts: all but
\* the newest MaxSnapshots - 1.
Evicted(j) ==
  IF AtLimit /\ j.confirmed
  THEN Ids({s \in snapshots : Cardinality(Newer(s)) + 1 >= MaxSnapshots}) ELSE {}

\* createSnapshot.  A conflict at the limit, or a failure up to the metadata,
\* changes nothing; a failure to write the manifest after that removes the new
\* snapshot and not the eviction.
Create(o) ==
  LET j == job[o]
      new == [id |-> captures + 1, rows |-> rows, files |-> files] IN
  /\ operation[o] = "acting" /\ j.kind = "create" /\ captures < MaxCaptures
  /\ \/ /\ ~away
        /\ AtLimit => j.confirmed
        /\ snapshots' = Without(Evicted(j)) \cup {new}
        /\ activeId' = new.id
        /\ captures' = captures + 1
        /\ excused' = (excused \/ Crossed(o))
     \/ UNCHANGED <<snapshots, activeId, captures, excused>>
     \/ /\ ~away /\ Evicted(j) # {}
        /\ snapshots' = Without(Evicted(j))
        /\ UNCHANGED <<activeId, captures, excused>>
  /\ Returned(o)
  /\ UNCHANGED <<rows, files, writing, away, unreconciled>>

\* restoreSnapshot, up to its first await: the database is locked, closed,
\* replaced and reopened, the files are replaced and the manifest is written.  A
\* failing step leaves the old database, or the new one with part of its files,
\* or a manifest that was not written; the operation fails and the gate opens.
\* If it was the closing (L412), before the try, the database stays locked; if
\* it was the reopening (L449), closed.
Restore(o) ==
  LET s == Find(job[o].id) IN
  /\ operation[o] = "acting" /\ job[o].kind = "restore" /\ ~unreconciled
  /\ \/ /\ job[o].id \in Ids(snapshots)
        /\ rows' = s.rows /\ files' = s.files /\ activeId' = s.id
        /\ away' = FALSE /\ unreconciled' = TRUE
        /\ excused' = (excused \/ Crossed(o))
        /\ UNCHANGED <<vars, job>>
     \/ /\ job[o].id \in Ids(snapshots)
        /\ rows' = s.rows /\ files' \in SUBSET (files \cup s.files)
        /\ away' \in BOOLEAN /\ excused' = TRUE
        /\ UNCHANGED <<activeId, unreconciled>> /\ Returned(o)
     \/ /\ away' \in BOOLEAN
        /\ excused' = (excused \/ (away' /\ Crossed(o)))
        /\ UNCHANGED <<rows, files, activeId, unreconciled>> /\ Returned(o)
  /\ UNCHANGED <<writing, snapshots, captures>>

\* The handlers of 'snapshot:restore' (AppScope) reset the queue and its
\* flows; the operation awaits them.
RestoreEmitted(o) ==
  /\ operation[o] = "acting" /\ job[o].kind = "restore" /\ unreconciled
  /\ unreconciled' = FALSE
  /\ Returned(o)
  /\ UNCHANGED <<writing, rows, files, snapshots, activeId, captures, away, excused>>

\* deleteSnapshot: the newest of the others becomes active if it was.
Delete(o) ==
  LET left == Without({job[o].id}) IN
  /\ operation[o] = "acting" /\ job[o].kind = "delete"
  /\ snapshots' = left
  /\ activeId' = IF activeId \in Ids(left) THEN activeId
                 ELSE IF activeId = job[o].id THEN LastId(left) ELSE activeId
  /\ Returned(o)
  /\ UNCHANGED <<writing, rows, files, captures, away, excused, unreconciled>>

ClearAll(o) ==
  /\ operation[o] = "acting" /\ job[o].kind = "clear"
  /\ snapshots' = {} /\ activeId' = 0
  /\ Returned(o)
  /\ UNCHANGED <<writing, rows, files, captures, away, excused, unreconciled>>

\* listSnapshots, by any reader: an active id that is not on disk is replaced
\* by the newest.
ListSnapshots ==
  /\ activeId # 0 /\ activeId \notin Ids(snapshots)
  /\ activeId' = LastId(snapshots)
  /\ UNCHANGED <<vars, job, writing, rows, files, snapshots, captures, away, excused, unreconciled>>

Close == Reset /\ UNCHANGED <<storage, writing, job>>

SnapshotNext ==
  \/ \E r \in Request : HttpStep(r) \/ InsertRow(r) \/ DeleteRow(r)
  \/ \E r \in Request, x \in Record : SaveFile(r, x) \/ DeleteRecordFiles(r, x)
  \/ \E o \in Operation, j \in Jobs : Request_(o, j)
  \/ \E o \in Operation : DrainGivesUp(o) \/ Create(o) \/ Restore(o) \/ RestoreEmitted(o)
                          \/ Delete(o) \/ ClearAll(o)
  \/ ListSnapshots
  \/ Close

SnapshotSpec == SnapshotInit /\ [][SnapshotNext]_snapshotVars

-----------------------------------------------------------------------------
SnapshotTypeOK ==
  /\ TypeOK
  /\ rows \subseteq Record /\ files \subseteq Record
  /\ Cardinality(snapshots) <= MaxSnapshots
  /\ activeId \in 0..captures

(* Every row has its file, in each snapshot and in the live state outside of *)
(* a deletion in progress: the gate keeps a snapshot and a restore out of    *)
(* the middle of a handler's write.  The excuses are those the gate is known  *)
(* to allow (a drain that gave up, a client that disconnected, the closing    *)
(* of the application) and a restore that failed half-way; a database that is  *)
(* locked or closed is none, as long as no handler was in the middle of a write. *)
RowsHaveFiles ==
  \/ excused
  \/ /\ \A s \in snapshots : s.rows \subseteq s.files
     /\ \A x \in rows \ files :
          \E r \in Request : writing[r] = [record |-> x, kind |-> "delete"]

(* After the database was replaced no request is let in until the queue and  *)
(* the flows were reset to it: they would deliver messages that the restored  *)
(* rows say nothing of.                                                      *)
ResetBeforeRequests == unreconciled /\ ~closed => isGated

(* Comment at SnapshotService.ts:447: "Guaranteed database driver reconnection  *)
(* and unlock".  The database is open whenever no operation is in progress.    *)
(* The lock and the closing come before the try of that finally, so a failure   *)
(* to close leaves the database locked behind an open gate, until a later       *)
(* restore succeeds or the process ends.                                     *)
OpenWhenGateIs == away => isExecutingExclusive

(* Comment at SnapshotService.ts:363: after a creation that failed the oldest *)
(* snapshots remain.  The eviction comes before the manifest is written, and *)
(* nothing undoes it.                                                        *)
FailedCreationKeepsOldest ==
  [][captures' = captures /\ (\E o \in Operation : job[o].kind = "create" /\ job'[o] = NoJob)
       => Ids(snapshots) \subseteq Ids(snapshots')]_snapshotVars
=============================================================================
