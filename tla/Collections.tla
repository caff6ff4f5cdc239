------------------------------ MODULE Collections -----------------------------
(***************************************************************************)
(* The collections of one application: their rows in _collections, their     *)
(* SQL tables, the full-text indexes that triggers keep                      *)
(* (src/schema/SchemaService.ts, src/records/FtsService.ts), their stored     *)
(* files, and what reads a collection before an await and writes its table    *)
(* after it: src/records/RecordService.ts, MockDataService.ts,                *)
(* src/templates/TemplateService.ts and the controllers.                     *)
(*                                                                         *)
(* A change of the schema is one synchronous transaction, so one action; an   *)
(* operation on records is cut at its awaits (hooks, password hashes, files).  *)
(* A row is 0 (absent) or one of two contents; a field of a schema says       *)
(* whether it is indexed and whether it is unique.  Rules, validation and     *)
(* hooks that refuse are OperationFails.  System collections are left out.    *)
(***************************************************************************)
EXTENDS Naturals, FiniteSets

CONSTANTS
  Id,          \* ids of collections
  Name,        \* their names, which are those of their tables
  Field,
  Schemas,     \* the schemas in use: functions from fields to [fts, unique]
  RecordId,
  Caller       \* requests in flight

Kind == [fts : BOOLEAN, unique : BOOLEAN]

ASSUME CollectionsAssumption ==
  \A s \in Schemas : DOMAIN s \subseteq Field /\ s \in [DOMAIN s -> Kind]

VARIABLES
  catalog,     \* the rows of _collections
  table,
  index,       \* the tables _fts_<name>, with their triggers
  stored,       \* the directories <id>/<record>
  op

collectionsVars == <<catalog, table, index, stored, op>>

NoCollection == [absent |-> "collection"]
NoTable == [absent |-> "table"]
NoIndex == [absent |-> "index"]
NoRows == [r \in RecordId |-> 0]
Unused == [kind |-> "unused"]

CollectionsInit ==
  /\ catalog = [c \in Id |-> NoCollection]
  /\ table = [n \in Name |-> NoTable]
  /\ index = [n \in Name |-> NoIndex]
  /\ stored = {}
  /\ op = [o \in Caller |-> Unused]

Named(n) == {c \in Id : catalog[c] # NoCollection /\ catalog[c].name = n}
FtsFields(s) == {f \in DOMAIN s : s[f].fts}

-----------------------------------------------------------------------------
(* The full-text index.                                                      *)

\* CREATE VIRTUAL TABLE and the copy of the rows, which fails, and is given up, if a
\* column is missing.
NewIndex(columns, t) ==
  [columns |-> columns, rows |-> IF columns \subseteq t.columns THEN t.rows ELSE NoRows]

\* An index that exists already is kept, however its columns compare.
Synced_KeepsIndex(i, t, s) ==
  IF FtsFields(s) = {} THEN NoIndex
  ELSE IF i # NoIndex THEN [i EXCEPT !.columns = FtsFields(s)]
  ELSE NewIndex(FtsFields(s), t)

\* syncCollection: the index of table t for schema s, if i was there.
Synced(i, t, s) ==
  IF FtsFields(s) = {} THEN NoIndex
  ELSE IF i # NoIndex /\ i.columns = FtsFields(s) THEN i
  ELSE NewIndex(FtsFields(s), t)

\* SQLite compiles the triggers with every INSERT and UPDATE, and all of them with a RENAME.
TriggersCompile(n) == index[n] # NoIndex => index[n].columns \subseteq table[n].columns

-----------------------------------------------------------------------------
(* The schema.                                                               *)

\* createCollection with these records: those of importJson are in a transaction of
\* their own, after whose failure the collection is deleted again.
Created(c, n, s, records) ==
  LET t == IF table[n] = NoTable
           THEN [columns |-> DOMAIN s, rows |-> [r \in RecordId |-> IF r \in records THEN 1 ELSE 0]]
           ELSE table[n]
  IN /\ catalog' = [catalog EXCEPT ![c] = [name |-> n, schema |-> s]]
     /\ table' = [table EXCEPT ![n] = t]
     /\ index' = [index EXCEPT ![n] = Synced(@, t, s)]

CreateCollection(c, n, s) ==
  /\ catalog[c] = NoCollection /\ Named(n) = {}
  /\ Created(c, n, s, {})
  /\ UNCHANGED <<stored, op>>

ImportJson(c, n, s, records) ==
  /\ catalog[c] = NoCollection /\ Named(n) = {}
  /\ Created(c, n, s, records)
  /\ UNCHANGED <<stored, op>>

\* ALTER TABLE RENAME: no table has the name, and the triggers of all others compile.
Renames(from, to) ==
  /\ Named(to) = {} /\ table[to] = NoTable
  /\ \A m \in Name \ {from} : TriggersCompile(m)

\* ADD COLUMN refuses a unique column; the error is caught and logged.
Added(old, s) == {f \in DOMAIN s \ DOMAIN old : ~s[f].unique}

UpdateCollection(c, n, s) ==
  /\ catalog[c] # NoCollection
  /\ LET from == catalog[c].name
         t == [table[from] EXCEPT !.columns = @ \cup Added(catalog[c].schema, s)]
         i == IF n = from THEN index[from] ELSE NoIndex
     IN /\ n # from => Renames(from, n)
        /\ catalog' = [catalog EXCEPT ![c] = [name |-> n, schema |-> s]]
        /\ table' = [table EXCEPT ![from] = NoTable, ![n] = t]
        /\ index' = [index EXCEPT ![from] = NoIndex, ![n] = Synced(i, t, s)]
  /\ UNCHANGED <<stored, op>>

DeleteCollection(c) ==
  /\ catalog' = [catalog EXCEPT ![c] = NoCollection]
  /\ table' = [table EXCEPT ![catalog[c].name] = NoTable]
  /\ index' = [index EXCEPT ![catalog[c].name] = NoIndex]

\* What the path of a request names, by name or id, when it is looked up again.
Addressed(request) ==
  {c \in Id : catalog[c] # NoCollection /\ (c = request.id \/ catalog[c].name = request.name)}

\* The controller removes the files of the collection first, and then looks it up again.
BeginDrop(o, c) ==
  /\ op[o] = Unused /\ catalog[c] # NoCollection
  /\ op' = [op EXCEPT ![o] = [kind |-> "drop", id |-> c, name |-> catalog[c].name]]
  /\ UNCHANGED <<catalog, table, index, stored>>

RemoveFiles(o) ==
  /\ op[o].kind = "drop"
  /\ stored' = {f \in stored : f[1] # op[o].id}
  /\ op' = [op EXCEPT ![o].kind = "cleaned"]
  /\ UNCHANGED <<catalog, table, index>>

EndDrop(o) ==
  /\ op[o].kind = "cleaned"
  /\ \E c \in Addressed(op[o]) : DeleteCollection(c)
  /\ op' = [op EXCEPT ![o] = Unused]
  /\ UNCHANGED stored

-----------------------------------------------------------------------------
(* Records.                                                                  *)

\* An operation on records of a collection as it found it, naming these columns.
Requested(kind, c, columns, records) ==
  [kind |-> kind, id |-> c, name |-> catalog[c].name, columns |-> columns, records |-> records]

\* A multipart request: the controller stores its files, then calls the service.
BeginUpload(o, c, records) ==
  /\ op[o] = Unused /\ catalog[c] # NoCollection
  /\ op' = [op EXCEPT ![o] = Requested("upload", c, {}, records)]
  /\ UNCHANGED <<catalog, table, index, stored>>

StoreFiles(o) ==
  /\ op[o].kind \in {"upload", "seed"}
  /\ stored' = stored \cup ({op[o].id} \X op[o].records)
  /\ op' = [op EXCEPT ![o].kind = IF @ = "upload" THEN "uploaded" ELSE "insert"]
  /\ UNCHANGED <<catalog, table, index>>

\* A call of the service: the collection is looked up, again after an upload.
Calls(o, c, records) ==
  /\ catalog[c] # NoCollection
  /\ \/ op[o] = Unused
     \/ op[o].kind = "uploaded" /\ c \in Addressed(op[o]) /\ op[o].records = records

\* create, and importRecords with many.
BeginInsert(o, c, records) ==
  /\ Calls(o, c, records)
  /\ op' = [op EXCEPT ![o] = Requested("insert", c, DOMAIN catalog[c].schema, records)]
  /\ UNCHANGED <<catalog, table, index, stored>>

\* MockDataService: the files it makes up are stored under the collection it found.
BeginMock(o, c, records) ==
  /\ op[o] = Unused /\ catalog[c] # NoCollection
  /\ op' = [op EXCEPT ![o] = Requested("seed", c, DOMAIN catalog[c].schema, records)]
  /\ UNCHANGED <<catalog, table, index, stored>>

\* What the record has, and what was given of the schema.
BeginUpdate(o, c, r, given) ==
  /\ Calls(o, c, {r})
  /\ table[catalog[c].name].rows[r] # 0
  /\ LET schema == DOMAIN catalog[c].schema
     IN op' = [op EXCEPT ![o] =
          Requested("update", c, (schema \cap table[catalog[c].name].columns) \cup (schema \cap given), {r})]
  /\ UNCHANGED <<catalog, table, index, stored>>

BeginDelete(o, c, r) ==
  /\ op[o] = Unused /\ catalog[c] # NoCollection
  /\ table[catalog[c].name].rows[r] # 0
  /\ op' = [op EXCEPT ![o] = Requested("delete", c, {}, {r})]
  /\ UNCHANGED <<catalog, table, index, stored>>

RemoveRecordFiles(o) ==
  /\ op[o].kind = "delete"
  /\ stored' = stored \ ({op[o].id} \X op[o].records)
  /\ op' = [op EXCEPT ![o].kind = "purged"]
  /\ UNCHANGED <<catalog, table, index>>

\* The statement compiles, on the table that has the name by now.
Executes(o) ==
  LET n == op[o].name
  IN table[n] # NoTable /\ op[o].columns \subseteq table[n].columns /\ TriggersCompile(n)

\* The rows are written, and the triggers write the index.
Write(n, rows) ==
  /\ table' = [table EXCEPT ![n].rows = rows]
  /\ index' = IF index[n] = NoIndex THEN index
              ELSE [index EXCEPT ![n].rows = rows]

EndInsert(o) ==
  /\ op[o].kind = "insert" /\ Executes(o)
  /\ LET n == op[o].name
         before == table[n].rows
     IN /\ \A r \in op[o].records : before[r] = 0
        /\ Write(n, [r \in RecordId |-> IF r \in op[o].records THEN 1 ELSE before[r]])
  /\ op' = [op EXCEPT ![o] = Unused]
  /\ UNCHANGED <<catalog, stored>>

\* A record that was deleted meanwhile is not there to be updated.
EndUpdate(o, content) ==
  /\ op[o].kind = "update" /\ Executes(o)
  /\ LET n == op[o].name
         before == table[n].rows
     IN Write(n, [r \in RecordId |-> IF r \in op[o].records /\ before[r] # 0 THEN content ELSE before[r]])
  /\ op' = [op EXCEPT ![o] = Unused]
  /\ UNCHANGED <<catalog, stored>>

\* The trigger of a deletion reads no column.
EndDelete(o) ==
  /\ op[o].kind = "purged" /\ table[op[o].name] # NoTable
  /\ LET n == op[o].name
     IN /\ table' = [table EXCEPT ![n].rows = [r \in RecordId |-> IF r \in op[o].records THEN 0 ELSE @[r]]]
        /\ index' = IF index[n] = NoIndex THEN index
                    ELSE [index EXCEPT ![n].rows = [r \in RecordId |-> IF r \in op[o].records THEN 0 ELSE @[r]]]
  /\ op' = [op EXCEPT ![o] = Unused]
  /\ UNCHANGED <<catalog, stored>>

OperationFails(o) ==
  /\ op[o] # Unused
  /\ op' = [op EXCEPT ![o] = Unused]
  /\ UNCHANGED <<catalog, table, index, stored>>

-----------------------------------------------------------------------------
(* A starter template, one collection of it: created if it is missing, and    *)
(* seeded, after an await, if it has no records.  To overwrite it, it is       *)
(* dropped; its files stay.                                                   *)

Seeds(o, c, n, s, records) ==
  op' = [op EXCEPT ![o] = [kind |-> "seed", id |-> c, name |-> n, columns |-> DOMAIN s,
                           records |-> records]]

ApplyTemplate(o, c, n, s, records) ==
  /\ op[o] = Unused
  /\ \/ /\ Named(n) = {} /\ catalog[c] = NoCollection
        /\ Created(c, n, s, {})
     \/ /\ c \in Named(n) /\ table[n].rows = NoRows
        /\ UNCHANGED <<catalog, table, index>>
  /\ Seeds(o, c, n, s, records)
  /\ UNCHANGED stored

OverwriteTemplate(o, c, d, n, s, records) ==
  /\ op[o] = Unused
  /\ c \in Named(n)
  /\ d = c \/ catalog[d] = NoCollection
  /\ LET t == [columns |-> DOMAIN s, rows |-> NoRows]
     IN /\ catalog' = [catalog EXCEPT ![c] = NoCollection, ![d] = [name |-> n, schema |-> s]]
        /\ table' = [table EXCEPT ![n] = t]
        /\ index' = [index EXCEPT ![n] = Synced(NoIndex, t, s)]
  /\ Seeds(o, d, n, s, records)
  /\ UNCHANGED stored

-----------------------------------------------------------------------------

SchemaStep ==
  \E c \in Id, n \in Name, s \in Schemas :
    \/ CreateCollection(c, n, s)
    \/ UpdateCollection(c, n, s)
    \/ \E records \in SUBSET RecordId :
         \/ ImportJson(c, n, s, records)
         \/ \E o \in Caller :
              \/ ApplyTemplate(o, c, n, s, records)
              \/ \E d \in Id : OverwriteTemplate(o, c, d, n, s, records)

Begins(o) ==
  \E c \in Id :
    \/ BeginDrop(o, c)
    \/ \E records \in SUBSET RecordId :
         BeginUpload(o, c, records) \/ BeginInsert(o, c, records) \/ BeginMock(o, c, records)
    \/ \E r \in RecordId :
         \/ \E given \in SUBSET Field : BeginUpdate(o, c, r, given)
         \/ BeginDelete(o, c, r)

Goes(o) ==
  \/ RemoveFiles(o) \/ EndDrop(o)
  \/ StoreFiles(o) \/ RemoveRecordFiles(o)
  \/ EndInsert(o) \/ (\E content \in 1..2 : EndUpdate(o, content)) \/ EndDelete(o)
  \/ OperationFails(o)

CollectionsNext == SchemaStep \/ (\E o \in Caller : Begins(o) \/ Goes(o))

CollectionsSpec == CollectionsInit /\ [][CollectionsNext]_collectionsVars

-----------------------------------------------------------------------------

RowsType == [RecordId -> 0..2]

CollectionsTypeOK ==
  /\ catalog \in [Id -> [name : Name, schema : Schemas] \cup {NoCollection}]
  /\ table \in [Name -> [columns : SUBSET Field, rows : RowsType] \cup {NoTable}]
  /\ index \in [Name -> [columns : SUBSET Field, rows : RowsType] \cup {NoIndex}]
  /\ stored \subseteq Id \X RecordId
  /\ \A o \in Caller : op[o] # Unused => op[o].name \in Name

(* A collection with indexed fields has an index of exactly these, and it holds *)
(* exactly the rows of the table, whatever is renamed, added, removed, created *)
(* again or rolled back in between, also by operations that began before.  The  *)
(* excuse is an indexed field that never got its column.                      *)
IndexMatchesRows ==
  \A c \in Id : catalog[c] # NoCollection =>
    LET n == catalog[c].name
        indexed == FtsFields(catalog[c].schema)
    IN /\ (index[n] = NoIndex) <=> (indexed = {})
       /\ index[n] # NoIndex /\ indexed \subseteq table[n].columns
            => index[n].columns = indexed /\ index[n].rows = table[n].rows

(* openwiki/database-and-records.md:115: updateCollection issues ALTER TABLE    *)
(* ADD COLUMN for newly added fields.  SQLite refuses a unique one, and the      *)
(* field is saved in the schema without its column: from then on no record can *)
(* be created, and none updated if the field is indexed.                       *)
FieldsHaveColumns ==
  \A c \in Id : catalog[c] # NoCollection =>
    DOMAIN catalog[c].schema \subseteq table[catalog[c].name].columns
=============================================================================
