--------------------------- MODULE CollectionsProofs --------------------------
(* Proofs about Collections, for any collections, schemas, records and callers. *)
EXTENDS Collections, TLAPS

StoredRows == [columns : SUBSET Field, rows : RowsType]

Types ==
  /\ catalog \in [Id -> [name : Name, schema : Schemas] \cup {NoCollection}]
  /\ table \in [Name -> StoredRows \cup {NoTable}]
  /\ index \in [Name -> StoredRows \cup {NoIndex}]
  /\ \A o \in Caller : op[o] # Unused => op[o].name \in Name

NamesAreUnique ==
  \A c, d \in Id :
    catalog[c] # NoCollection /\ catalog[d] # NoCollection /\ catalog[c].name = catalog[d].name => c = d

(* An index and a table are only there for a collection.                     *)
NothingLeftOver ==
  \A n \in Name : Named(n) = {} => table[n] = NoTable /\ index[n] = NoIndex

(* Index i, of table t, is what schema s asks for.                           *)
Mirrors(i, t, s) ==
  /\ (i = NoIndex) <=> (FtsFields(s) = {})
  /\ i # NoIndex => /\ i.columns = FtsFields(s)
                    /\ FtsFields(s) \subseteq t.columns => i.rows = t.rows

Mirrored(c) ==
  catalog[c] # NoCollection =>
    /\ table[catalog[c].name] # NoTable
    /\ Mirrors(index[catalog[c].name], table[catalog[c].name], catalog[c].schema)

CollectionsInv ==
  /\ Types /\ NamesAreUnique /\ NothingLeftOver
  /\ \A c \in Id : Mirrored(c)

-----------------------------------------------------------------------------
(* What the absent things are not.                                           *)

LEMMA AbsentIsNotStored ==
  /\ NoTable \notin StoredRows /\ NoIndex \notin StoredRows
  /\ \A n, s : [name |-> n, schema |-> s] # NoCollection
  BY DEF NoTable, NoIndex, NoCollection, StoredRows

LEMMA FtsFieldsAreFields ==
  ASSUME NEW s \in Schemas
  PROVE  FtsFields(s) \subseteq DOMAIN s /\ DOMAIN s \subseteq Field
  BY CollectionsAssumption DEF FtsFields

LEMMA NoRowsType == NoRows \in RowsType
  BY DEF NoRows, RowsType

(* syncCollection leaves the index the schema asks for, unless it was given    *)
(* one that is right but for its rows.                                       *)
LEMMA SyncedMirrors ==
  ASSUME NEW s \in Schemas, NEW t \in StoredRows, NEW i \in StoredRows \cup {NoIndex},
         i # NoIndex /\ i.columns = FtsFields(s) /\ FtsFields(s) \subseteq t.columns => i.rows = t.rows
  PROVE  /\ Synced(i, t, s) \in StoredRows \cup {NoIndex}
         /\ Mirrors(Synced(i, t, s), t, s)
<1>1. CASE FtsFields(s) = {}
  BY <1>1 DEF Synced, Mirrors
<1>2. CASE FtsFields(s) # {} /\ i # NoIndex /\ i.columns = FtsFields(s)
  BY <1>2 DEF Synced, Mirrors
<1>3. CASE FtsFields(s) # {} /\ ~(i # NoIndex /\ i.columns = FtsFields(s))
  <2> DEFINE new == NewIndex(FtsFields(s), t)
  <2>1. FtsFields(s) \in SUBSET Field
    BY FtsFieldsAreFields
  <2>2. t.rows \in RowsType /\ NoRows \in RowsType
    BY NoRowsType DEF StoredRows
  <2>3. new \in StoredRows /\ new.columns = FtsFields(s) /\ (FtsFields(s) \subseteq t.columns => new.rows = t.rows)
    BY <2>1, <2>2 DEF NewIndex, StoredRows
  <2>4. new # NoIndex
    BY <2>3, AbsentIsNotStored
  <2>5. Synced(i, t, s) = new
    BY <1>3 DEF Synced
  <2>6. QED
    BY <1>3, <2>3, <2>4, <2>5 DEF Mirrors
<1>4. QED
  BY <1>1, <1>2, <1>3

-----------------------------------------------------------------------------
LEMMA CollectionsInvInit == CollectionsInit => CollectionsInv
  BY DEF CollectionsInit, CollectionsInv, Types, NamesAreUnique, NothingLeftOver, Mirrored, Unused

(* A change of the schema that puts collection c, with name n and schema s, in the *)
(* place of what had the names in gone, and leaves the others alone.          *)
LEMMA PutKeeps ==
  ASSUME CollectionsInv, NEW c \in Id, NEW n \in Name, NEW s \in Schemas,
         NEW from \in Name, NEW t \in StoredRows, NEW i \in StoredRows \cup {NoIndex},
         i # NoIndex /\ i.columns = FtsFields(s) /\ FtsFields(s) \subseteq t.columns => i.rows = t.rows,
         \A d \in Id \ {c} : catalog[d] # NoCollection => catalog[d].name \notin {from, n},
         catalog[c] = NoCollection \/ catalog[c].name = from,
         catalog' = [catalog EXCEPT ![c] = [name |-> n, schema |-> s]],
         table' = [table EXCEPT ![from] = NoTable, ![n] = t],
         index' = [index EXCEPT ![from] = NoIndex, ![n] = Synced(i, t, s)],
         \A o \in Caller : op'[o] # Unused => op'[o].name \in Name
  PROVE  CollectionsInv'
<1> USE DEF CollectionsInv
<1> DEFINE put == [name |-> n, schema |-> s]
<1>1. /\ Synced(i, t, s) \in StoredRows \cup {NoIndex}
      /\ Mirrors(Synced(i, t, s), t, s)
  BY SyncedMirrors
<1>2. Types'
  <2>1. put \in [name : Name, schema : Schemas]
    OBVIOUS
  <2>2. QED
    BY <1>1, <2>1 DEF Types
<1>3. /\ catalog'[c] = put /\ catalog'[c].name = n /\ catalog'[c].schema = s
      /\ put # NoCollection
  BY AbsentIsNotStored DEF Types
<1>4. \A d \in Id \ {c} : catalog'[d] = catalog[d]
  BY DEF Types
<1>5. \A m \in Name \ {from, n} : table'[m] = table[m] /\ index'[m] = index[m]
  BY DEF Types
<1>6. /\ table'[n] = t /\ index'[n] = Synced(i, t, s)
      /\ from # n => table'[from] = NoTable /\ index'[from] = NoIndex
  BY DEF Types
<1>7. NamesAreUnique'
  BY <1>3, <1>4 DEF NamesAreUnique
<1>8. NothingLeftOver'
  <2> SUFFICES ASSUME NEW m \in Name, Named(m)' = {} PROVE table'[m] = NoTable /\ index'[m] = NoIndex
    BY DEF NothingLeftOver
  <2>1. m # n
    BY <1>3 DEF Named
  <2>2. CASE m = from
    BY <1>6, <2>1, <2>2
  <2>3. CASE m # from
    <3>1. Named(m) = {}
      BY <1>3, <1>4, <2>3 DEF Named
    <3>2. QED
      BY <1>5, <2>1, <2>3, <3>1 DEF NothingLeftOver
  <2>4. QED
    BY <2>2, <2>3
<1>9. ASSUME NEW d \in Id PROVE Mirrored(d)'
  <2>1. CASE d = c
    <3>1. t # NoTable
      BY AbsentIsNotStored
    <3>2. Mirrors(index'[n], table'[n], s)
      BY <1>1, <1>6
    <3>3. QED
      BY <1>3, <1>6, <2>1, <3>1, <3>2 DEF Mirrored
  <2>2. CASE d # c /\ catalog[d] # NoCollection
    <3>1. catalog'[d] = catalog[d] /\ catalog[d].name \in Name \ {from, n}
      BY <1>4, <2>2 DEF Types
    <3>2. QED
      BY <1>5, <2>2, <3>1 DEF Mirrored
  <2>3. CASE d # c /\ catalog[d] = NoCollection
    BY <1>4, <2>3 DEF Mirrored
  <2>4. QED
    BY <2>1, <2>2, <2>3
<1>10. QED
  BY <1>2, <1>7, <1>8, <1>9

(* A new collection takes a name nothing has.                                *)
LEMMA CreatedKeeps ==
  ASSUME CollectionsInv, NEW c \in Id, NEW n \in Name, NEW s \in Schemas, NEW records \in SUBSET RecordId,
         catalog[c] = NoCollection, Named(n) = {}, Created(c, n, s, records),
         \A o \in Caller : op'[o] # Unused => op'[o].name \in Name
  PROVE  CollectionsInv'
<1> DEFINE t == [columns |-> DOMAIN s, rows |-> [r \in RecordId |-> IF r \in records THEN 1 ELSE 0]]
<1>1. table[n] = NoTable /\ index[n] = NoIndex
  BY DEF CollectionsInv, NothingLeftOver
<1>2. t \in StoredRows
  BY FtsFieldsAreFields DEF StoredRows, RowsType
<1>3. /\ catalog' = [catalog EXCEPT ![c] = [name |-> n, schema |-> s]]
      /\ table' = [table EXCEPT ![n] = t]
      /\ index' = [index EXCEPT ![n] = Synced(NoIndex, t, s)]
  BY <1>1 DEF Created
<1>4. /\ table' = [table EXCEPT ![n] = NoTable, ![n] = t]
      /\ index' = [index EXCEPT ![n] = NoIndex, ![n] = Synced(NoIndex, t, s)]
  BY <1>3 DEF CollectionsInv, Types
<1>5. \A d \in Id \ {c} : catalog[d] # NoCollection => catalog[d].name \notin {n, n}
  BY DEF Named
<1> HIDE DEF t
<1>6. QED
  BY <1>2, <1>3, <1>4, <1>5, PutKeeps

(* An update carries the rows over; a column is missing for a new field only,   *)
(* so an index that stays, with the same columns, had the rows before.         *)
LEMMA UpdateCollectionKeeps ==
  ASSUME CollectionsInv, NEW c \in Id, NEW n \in Name, NEW s \in Schemas, UpdateCollection(c, n, s)
  PROVE  CollectionsInv'
<1>1. catalog[c] # NoCollection
  BY DEF UpdateCollection
<1>2. catalog[c] \in [name : Name, schema : Schemas]
  BY <1>1 DEF CollectionsInv, Types
<1>3. /\ table[catalog[c].name] # NoTable
      /\ Mirrors(index[catalog[c].name], table[catalog[c].name], catalog[c].schema)
  BY <1>1 DEF CollectionsInv, Mirrored
<1>4. ASSUME NEW d \in Id \ {c}, catalog[d] # NoCollection PROVE catalog[d].name # catalog[c].name
  BY <1>1, <1>4 DEF CollectionsInv, NamesAreUnique
<1>5. n # catalog[c].name => Named(n) = {}
  BY DEF UpdateCollection, Renames
<1> DEFINE from == catalog[c].name
           old == catalog[c].schema
           t == [table[from] EXCEPT !.columns = @ \cup Added(old, s)]
           i == IF n = from THEN index[from] ELSE NoIndex
<1>6. /\ catalog' = [catalog EXCEPT ![c] = [name |-> n, schema |-> s]]
      /\ table' = [table EXCEPT ![from] = NoTable, ![n] = t]
      /\ index' = [index EXCEPT ![from] = NoIndex, ![n] = Synced(i, t, s)]
      /\ op' = op
  BY DEF UpdateCollection
<1>7. from \in Name /\ old \in Schemas
  BY <1>2
<1>8. /\ table[from] \in StoredRows
      /\ Mirrors(index[from], table[from], old)
  <2>2. table[from] \in StoredRows \cup {NoTable}
    BY <1>7 DEF CollectionsInv, Types
  <2>3. QED
    BY <1>3, <2>2
<1>9. Added(old, s) \subseteq Field /\ Added(old, s) \cap DOMAIN old = {}
  BY FtsFieldsAreFields DEF Added
<1>10. /\ t \in StoredRows
      /\ t.columns = table[from].columns \cup Added(old, s)
      /\ t.rows = table[from].rows
  BY <1>8, <1>9 DEF StoredRows
<1>11. i \in StoredRows \cup {NoIndex}
  BY <1>7 DEF CollectionsInv, Types
<1>12. ASSUME i # NoIndex, i.columns = FtsFields(s), FtsFields(s) \subseteq t.columns
      PROVE  i.rows = t.rows
  <2>1. index[from] = i /\ i.columns = FtsFields(old)
    BY <1>8, <1>12 DEF Mirrors
  <2>2. FtsFields(old) \subseteq DOMAIN old
    BY <1>7, FtsFieldsAreFields
  <2>3. FtsFields(old) \subseteq table[from].columns
    BY <1>9, <1>10, <1>12, <2>1, <2>2
  <2>4. QED
    BY <1>8, <1>10, <1>12, <2>1, <2>3 DEF Mirrors
<1>13. \A d \in Id \ {c} : catalog[d] # NoCollection => catalog[d].name \notin {from, n}
  <2> SUFFICES ASSUME NEW d \in Id \ {c}, catalog[d] # NoCollection
               PROVE  catalog[d].name # from /\ (n # from => catalog[d].name # n)
    OBVIOUS
  <2>1. catalog[d].name # from
    BY <1>4
  <2>2. ASSUME n # from PROVE catalog[d].name # n
    BY <1>5, <2>2 DEF Named
  <2>3. QED
    BY <2>1, <2>2
<1>14. \A o \in Caller : op'[o] # Unused => op'[o].name \in Name
  BY <1>6 DEF CollectionsInv, Types
<1> HIDE DEF t, i
<1>15. QED
  BY <1>6, <1>7, <1>10, <1>11, <1>12, <1>13, <1>14, PutKeeps

(* An operation that is begun, or goes on, with a name.                       *)
LEMMA OpStaysNamed ==
  ASSUME CollectionsInv, NEW o \in Caller, NEW new, op' = [op EXCEPT ![o] = new],
         new # Unused => new.name \in Name
  PROVE  \A p \in Caller : op'[p] # Unused => op'[p].name \in Name
  BY DEF CollectionsInv, Types

(* A deletion takes the table and the index along, and no other collection has *)
(* the name.                                                                 *)
LEMMA DeleteCollectionKeeps ==
  ASSUME CollectionsInv, NEW c \in Id, catalog[c] # NoCollection, DeleteCollection(c),
         \A o \in Caller : op'[o] # Unused => op'[o].name \in Name
  PROVE  CollectionsInv'
<1> USE DEF CollectionsInv
<1>1. catalog[c] \in [name : Name, schema : Schemas]
  BY DEF Types
<1> DEFINE n == catalog[c].name
<1>2. n \in Name
  BY <1>1
<1>3. \A d \in Id \ {c} : catalog[d] # NoCollection => catalog[d].name # n
  BY DEF NamesAreUnique
<1>4. /\ catalog' = [catalog EXCEPT ![c] = NoCollection]
      /\ table' = [table EXCEPT ![n] = NoTable]
      /\ index' = [index EXCEPT ![n] = NoIndex]
  BY DEF DeleteCollection
<1> HIDE DEF n
<1>5. /\ catalog'[c] = NoCollection /\ table'[n] = NoTable /\ index'[n] = NoIndex
      /\ \A d \in Id \ {c} : catalog'[d] = catalog[d]
      /\ \A m \in Name \ {n} : table'[m] = table[m] /\ index'[m] = index[m]
  BY <1>2, <1>4 DEF Types
<1>6. Types'
  BY <1>2, <1>4 DEF Types
<1>7. NamesAreUnique'
  BY <1>5 DEF NamesAreUnique
<1>8. NothingLeftOver'
  <2> SUFFICES ASSUME NEW m \in Name, Named(m)' = {}, m # n PROVE table'[m] = NoTable /\ index'[m] = NoIndex
    BY <1>5 DEF NothingLeftOver
  <2>1. Named(m) = {}
    <3> SUFFICES ASSUME NEW d \in Id, catalog[d] # NoCollection, catalog[d].name = m PROVE FALSE
      BY DEF Named
    <3>1. d # c
      BY DEF n
    <3>2. QED
      BY <1>5, <3>1 DEF Named
  <2>2. QED
    BY <1>5, <2>1 DEF NothingLeftOver
<1>9. ASSUME NEW d \in Id PROVE Mirrored(d)'
  <2>1. CASE d = c \/ catalog[d] = NoCollection
    BY <1>5, <2>1 DEF Mirrored
  <2>2. CASE d # c /\ catalog[d] # NoCollection
    <3>1. catalog[d].name \in Name \ {n} /\ catalog'[d] = catalog[d]
      BY <1>3, <1>5, <2>2 DEF Types
    <3>2. QED
      BY <1>5, <2>2, <3>1 DEF Mirrored
  <2>3. QED
    BY <2>1, <2>2
<1>10. QED
  BY <1>6, <1>7, <1>8, <1>9

(* The template is overwritten in the place of the collection it drops.       *)
LEMMA OverwriteTemplateKeeps ==
  ASSUME CollectionsInv, NEW o \in Caller, NEW c \in Id, NEW d \in Id, NEW n \in Name, NEW s \in Schemas,
         NEW records \in SUBSET RecordId, OverwriteTemplate(o, c, d, n, s, records)
  PROVE  CollectionsInv'
<1> DEFINE t == [columns |-> DOMAIN s, rows |-> NoRows]
           put == [name |-> n, schema |-> s]
<1>1. /\ catalog[c] # NoCollection /\ catalog[c].name = n
      /\ d = c \/ catalog[d] = NoCollection
      /\ catalog' = [catalog EXCEPT ![c] = NoCollection, ![d] = put]
      /\ table' = [table EXCEPT ![n] = t]
      /\ index' = [index EXCEPT ![n] = Synced(NoIndex, t, s)]
  BY DEF OverwriteTemplate, Named
<1>2. t \in StoredRows /\ put \in [name : Name, schema : Schemas] /\ put # NoCollection
  BY FtsFieldsAreFields, NoRowsType, AbsentIsNotStored DEF StoredRows
<1>3. t # NoTable
  BY <1>2, AbsentIsNotStored
<1>4. /\ Synced(NoIndex, t, s) \in StoredRows \cup {NoIndex}
      /\ Mirrors(Synced(NoIndex, t, s), t, s)
  BY <1>2, SyncedMirrors
<1>5. \A e \in Id \ {c} : catalog[e] # NoCollection => catalog[e].name # n
  BY <1>1 DEF CollectionsInv, NamesAreUnique
<1>6. /\ catalog'[d] = put
      /\ \A e \in Id \ {d} : catalog'[e] # NoCollection => catalog'[e] = catalog[e] /\ e # c
      /\ table'[n] = t /\ index'[n] = Synced(NoIndex, t, s)
      /\ \A m \in Name \ {n} : table'[m] = table[m] /\ index'[m] = index[m]
  BY <1>1 DEF CollectionsInv, Types
<1>7. \A m \in Name \ {n} : Named(m)' = {} => Named(m) = {}
  <2> SUFFICES ASSUME NEW m \in Name \ {n}, NEW e \in Id, catalog[e] # NoCollection, catalog[e].name = m
               PROVE  e \in Named(m)'
    BY DEF Named
  <2>1. e # c /\ e # d
    BY <1>1
  <2>2. catalog'[e] = catalog[e]
    BY <1>1, <2>1 DEF CollectionsInv, Types
  <2>3. QED
    BY <2>2 DEF Named
<1>8. op' = [op EXCEPT ![o] = [kind |-> "seed", id |-> d, name |-> n, columns |-> DOMAIN s, records |-> records]]
  BY DEF OverwriteTemplate, Seeds
<1>9. \A p \in Caller : op'[p] # Unused => op'[p].name \in Name
  BY <1>8, OpStaysNamed
<1> HIDE DEF t, put
<1>10. Types'
  BY <1>1, <1>2, <1>4, <1>9 DEF CollectionsInv, Types
<1>11. put.name = n /\ put.schema = s
  BY DEF put
<1>12. NamesAreUnique'
  BY <1>5, <1>6, <1>11 DEF CollectionsInv, NamesAreUnique
<1>13. NothingLeftOver'
  <2>1. d \in Named(n)'
    BY <1>2, <1>6, <1>11 DEF Named
  <2>2. QED
    BY <1>6, <1>7, <2>1 DEF CollectionsInv, NothingLeftOver
<1>14. ASSUME NEW e \in Id PROVE Mirrored(e)'
  <2>1. CASE e = d
    BY <1>3, <1>4, <1>6, <1>11, <2>1 DEF Mirrored
  <2>2. CASE e # d /\ catalog'[e] # NoCollection
    <3>1. catalog'[e] = catalog[e] /\ catalog[e].name \in Name \ {n}
      BY <1>5, <1>6, <2>2 DEF CollectionsInv, Types
    <3>2. QED
      BY <1>6, <2>2, <3>1 DEF CollectionsInv, Mirrored
  <2>3. QED
    BY <2>1, <2>2 DEF Mirrored
<1>15. QED
  BY <1>10, <1>12, <1>13, <1>14 DEF CollectionsInv

(* Table n has a collection, whose index has the rows of the table unless a    *)
(* column is missing.                                                        *)
LEMMA TableHasCollection ==
  ASSUME CollectionsInv, NEW n \in Name, table[n] # NoTable
  PROVE  /\ \E c \in Id : catalog[c] # NoCollection /\ catalog[c].name = n
         /\ index[n] # NoIndex /\ index[n].columns \subseteq table[n].columns => index[n].rows = table[n].rows
<1>1. Named(n) # {}
  BY DEF CollectionsInv, NothingLeftOver
<1>2. PICK c \in Id : catalog[c] # NoCollection /\ catalog[c].name = n
  BY <1>1 DEF Named
<1>3. Mirrors(index[n], table[n], catalog[c].schema)
  BY <1>2 DEF CollectionsInv, Mirrored
<1>4. QED
  BY <1>2, <1>3 DEF Mirrors

(* The rows of a table are written, and the entries of its index, which are the *)
(* same unless a column is missing.                                          *)
LEMMA RowsKeep ==
  ASSUME CollectionsInv, NEW n \in Name, NEW rows \in RowsType, NEW entries \in RowsType, table[n] # NoTable,
         index[n] # NoIndex /\ index[n].columns \subseteq table[n].columns => entries = rows,
         catalog' = catalog,
         table' = [table EXCEPT ![n].rows = rows],
         index' = IF index[n] = NoIndex THEN index ELSE [index EXCEPT ![n].rows = entries],
         \A o \in Caller : op'[o] # Unused => op'[o].name \in Name
  PROVE  CollectionsInv'
<1> USE DEF CollectionsInv
<1>1. table[n] \in StoredRows /\ index[n] \in StoredRows \cup {NoIndex}
  BY DEF Types
<1>2. /\ table'[n] \in StoredRows /\ table'[n].columns = table[n].columns /\ table'[n].rows = rows
      /\ \A m \in Name \ {n} : table'[m] = table[m] /\ index'[m] = index[m]
  BY <1>1 DEF Types, StoredRows
<1>3. /\ index[n] = NoIndex => index'[n] = NoIndex
      /\ index[n] # NoIndex =>
           index'[n] \in StoredRows /\ index'[n].columns = index[n].columns /\ index'[n].rows = entries
  BY <1>1 DEF Types, StoredRows
<1>4. table'[n] # NoTable /\ (index'[n] = NoIndex <=> index[n] = NoIndex)
  BY <1>2, <1>3, AbsentIsNotStored
<1>5. Types'
  <2>1. table' \in [Name -> StoredRows \cup {NoTable}]
    <3>1. table' = [table EXCEPT ![n] = table'[n]]
      BY DEF Types
    <3>2. QED
      BY <1>2, <3>1 DEF Types
  <2>2. index' \in [Name -> StoredRows \cup {NoIndex}]
    <3>1. CASE index[n] = NoIndex
      BY <3>1 DEF Types
    <3>2. CASE index[n] # NoIndex
      <4>1. index' = [index EXCEPT ![n] = index'[n]]
        BY <3>2 DEF Types
      <4>2. QED
        BY <1>3, <3>2, <4>1 DEF Types
    <3>3. QED
      BY <3>1, <3>2
  <2>3. QED
    BY <2>1, <2>2 DEF Types
<1>6. NamesAreUnique'
  BY DEF NamesAreUnique
<1>7. NothingLeftOver'
  <2> SUFFICES ASSUME NEW m \in Name, Named(m) = {} PROVE table'[m] = NoTable /\ index'[m] = NoIndex
    BY DEF NothingLeftOver, Named
  <2>1. table[m] = NoTable /\ index[m] = NoIndex
    BY DEF NothingLeftOver
  <2>2. QED
    BY <1>2, <2>1
<1>8. ASSUME NEW c \in Id PROVE Mirrored(c)'
  <2> SUFFICES ASSUME catalog[c] # NoCollection PROVE Mirrored(c)'
    BY DEF Mirrored
  <2>1. catalog[c].name \in Name /\ Mirrored(c)
    BY DEF Types
  <2>2. CASE catalog[c].name = n
    <3>1. Mirrors(index[n], table[n], catalog[c].schema)
      BY <2>1, <2>2 DEF Mirrored
    <3>2. Mirrors(index'[n], table'[n], catalog[c].schema)
      BY <1>2, <1>3, <1>4, <3>1 DEF Mirrors
    <3>3. QED
      BY <1>4, <2>2, <3>2 DEF Mirrored
  <2>3. CASE catalog[c].name # n
    BY <1>2, <2>1, <2>3 DEF Mirrored
  <2>4. QED
    BY <2>2, <2>3
<1>9. QED
  BY <1>5, <1>6, <1>7, <1>8

(* A statement that inserts or updates: its triggers compile, so it writes the  *)
(* same to the table and to the index.                                       *)
LEMMA WriteKeeps ==
  ASSUME CollectionsInv, NEW o \in Caller, op[o] # Unused, Executes(o), NEW rows \in RowsType,
         Write(op[o].name, rows), catalog' = catalog, op' = [op EXCEPT ![o] = Unused]
  PROVE  CollectionsInv'
<1> DEFINE n == op[o].name
<1>1. n \in Name /\ table[n] # NoTable
  BY DEF CollectionsInv, Types, Executes
<1>2. /\ table' = [table EXCEPT ![n].rows = rows]
      /\ index' = IF index[n] = NoIndex THEN index ELSE [index EXCEPT ![n].rows = rows]
  BY DEF Write
<1>3. \A p \in Caller : op'[p] # Unused => op'[p].name \in Name
  BY OpStaysNamed
<1> HIDE DEF n
<1>4. QED
  BY <1>1, <1>2, <1>3, RowsKeep

LEMMA RowsOfTable ==
  ASSUME CollectionsInv, NEW n \in Name, table[n] # NoTable
  PROVE  table[n].rows \in RowsType
  BY DEF CollectionsInv, Types, StoredRows

LEMMA EndInsertKeeps ==
  ASSUME CollectionsInv, NEW o \in Caller, EndInsert(o)
  PROVE  CollectionsInv'
<1> DEFINE rows == [r \in RecordId |-> IF r \in op[o].records THEN 1 ELSE table[op[o].name].rows[r]]
<1>1. op[o] # Unused /\ Executes(o) /\ Write(op[o].name, rows) /\ catalog' = catalog /\ op' = [op EXCEPT ![o] = Unused]
  BY DEF EndInsert, Unused
<1>2. rows \in RowsType
  <2>1. table[op[o].name].rows \in RowsType
    BY <1>1, RowsOfTable DEF CollectionsInv, Types, Executes
  <2>2. QED
    BY <2>1 DEF RowsType
<1> HIDE DEF rows
<1>3. QED
  BY <1>1, <1>2, WriteKeeps

LEMMA EndUpdateKeeps ==
  ASSUME CollectionsInv, NEW o \in Caller, NEW content \in 1..2, EndUpdate(o, content)
  PROVE  CollectionsInv'
<1> DEFINE before == table[op[o].name].rows
           rows == [r \in RecordId |-> IF r \in op[o].records /\ before[r] # 0 THEN content ELSE before[r]]
<1>1. op[o] # Unused /\ Executes(o) /\ Write(op[o].name, rows) /\ catalog' = catalog /\ op' = [op EXCEPT ![o] = Unused]
  BY DEF EndUpdate, Unused
<1>2. rows \in RowsType
  <2>1. before \in RowsType
    BY <1>1, RowsOfTable DEF CollectionsInv, Types, Executes
  <2>2. QED
    BY <2>1 DEF RowsType
<1> HIDE DEF rows
<1>3. QED
  BY <1>1, <1>2, WriteKeeps

LEMMA EndDeleteKeeps ==
  ASSUME CollectionsInv, NEW o \in Caller, EndDelete(o)
  PROVE  CollectionsInv'
<1> DEFINE n == op[o].name
           Kept(rows) == [r \in RecordId |-> IF r \in op[o].records THEN 0 ELSE rows[r]]
           entries == IF index[n] = NoIndex THEN NoRows ELSE Kept(index[n].rows)
<1>1. /\ op[o] # Unused /\ table[n] # NoTable /\ catalog' = catalog /\ op' = [op EXCEPT ![o] = Unused]
      /\ table' = [table EXCEPT ![n].rows = Kept(@)]
      /\ index' = IF index[n] = NoIndex THEN index ELSE [index EXCEPT ![n].rows = Kept(@)]
  BY DEF EndDelete, Unused
<1>2. n \in Name
  BY <1>1 DEF CollectionsInv, Types
<1>3. table[n].rows \in RowsType /\ (index[n] # NoIndex => index[n].rows \in RowsType)
  BY <1>1, <1>2, RowsOfTable DEF CollectionsInv, Types, StoredRows
<1>4. Kept(table[n].rows) \in RowsType /\ entries \in RowsType
  BY <1>3, NoRowsType DEF RowsType
<1>5. index[n] # NoIndex /\ index[n].columns \subseteq table[n].columns => entries = Kept(table[n].rows)
  BY <1>1, <1>2, TableHasCollection
<1>6. /\ table' = [table EXCEPT ![n].rows = Kept(table[n].rows)]
      /\ index' = IF index[n] = NoIndex THEN index ELSE [index EXCEPT ![n].rows = entries]
  BY <1>1, <1>2 DEF CollectionsInv, Types
<1>7. \A p \in Caller : op'[p] # Unused => op'[p].name \in Name
  BY <1>1, OpStaysNamed
<1> HIDE DEF n, Kept, entries
<1>8. QED
  BY <1>1, <1>2, <1>4, <1>5, <1>6, <1>7, RowsKeep

(* What only moves an operation on, or stores and removes files.              *)
LEMMA OnlyOpKeeps ==
  ASSUME CollectionsInv, UNCHANGED <<catalog, table, index>>,
         \A o \in Caller : op'[o] # Unused => op'[o].name \in Name
  PROVE  CollectionsInv'
  BY DEF CollectionsInv, Types, NamesAreUnique, NothingLeftOver, Mirrored, Named

LEMMA CatalogNames ==
  ASSUME CollectionsInv, NEW c \in Id, catalog[c] # NoCollection
  PROVE  catalog[c].name \in Name
<1>1. catalog[c] \in [name : Name, schema : Schemas]
  BY DEF CollectionsInv, Types
<1>2. QED
  BY <1>1

LEMMA BeginsKeep ==
  ASSUME CollectionsInv, NEW o \in Caller, Begins(o)
  PROVE  CollectionsInv'
<1> SUFFICES ASSUME NEW c \in Id, UNCHANGED <<catalog, table, index>>, catalog[c] # NoCollection,
                    NEW new, op' = [op EXCEPT ![o] = new], new.name = catalog[c].name
             PROVE  CollectionsInv'
  BY DEF Begins, BeginDrop, BeginUpload, BeginInsert, BeginMock, BeginUpdate, BeginDelete, Calls, Requested
<1>1. \A p \in Caller : op'[p] # Unused => op'[p].name \in Name
  BY CatalogNames, OpStaysNamed
<1>2. QED
  BY <1>1, OnlyOpKeeps

LEMMA GoesKeep ==
  ASSUME CollectionsInv, NEW o \in Caller, Goes(o)
  PROVE  CollectionsInv'
<1>1. ASSUME NEW kind, op[o] # Unused, op' = [op EXCEPT ![o].kind = kind]
      PROVE  \A p \in Caller : op'[p] # Unused => op'[p].name \in Name
  <2> DEFINE new == [op[o] EXCEPT !.kind = kind]
  <2>1. op' = [op EXCEPT ![o] = new]
    BY <1>1
  <2>2. new.name \in Name
    BY <1>1 DEF CollectionsInv, Types
  <2> HIDE DEF new
  <2>3. QED
    BY <2>1, <2>2, OpStaysNamed
<1>2. op' = [op EXCEPT ![o] = Unused] => \A p \in Caller : op'[p] # Unused => op'[p].name \in Name
  BY OpStaysNamed
<1>3. CASE RemoveFiles(o) \/ StoreFiles(o) \/ RemoveRecordFiles(o)
  <2>1. /\ UNCHANGED <<catalog, table, index>> /\ op[o] # Unused
        /\ \E kind : op' = [op EXCEPT ![o].kind = kind]
    BY <1>3 DEF RemoveFiles, StoreFiles, RemoveRecordFiles, Unused
  <2>2. QED
    BY <1>1, <2>1, OnlyOpKeeps
<1>4. CASE OperationFails(o)
  BY <1>2, <1>4, OnlyOpKeeps DEF OperationFails
<1>5. CASE EndDrop(o)
  <2>1. PICK c \in Id : catalog[c] # NoCollection /\ DeleteCollection(c)
    BY <1>5 DEF EndDrop, Addressed
  <2>2. QED
    BY <1>2, <1>5, <2>1, DeleteCollectionKeeps DEF EndDrop
<1>6. QED
  BY <1>3, <1>4, <1>5, EndInsertKeeps, EndUpdateKeeps, EndDeleteKeeps DEF Goes

LEMMA SchemaStepKeeps ==
  ASSUME CollectionsInv, SchemaStep
  PROVE  CollectionsInv'
<1> SUFFICES ASSUME NEW c \in Id, NEW n \in Name, NEW s \in Schemas,
                    \/ CreateCollection(c, n, s)
                    \/ UpdateCollection(c, n, s)
                    \/ \E records \in SUBSET RecordId :
                         \/ ImportJson(c, n, s, records)
                         \/ \E o \in Caller :
                              \/ ApplyTemplate(o, c, n, s, records)
                              \/ \E d \in Id : OverwriteTemplate(o, c, d, n, s, records)
             PROVE  CollectionsInv'
  BY DEF SchemaStep
<1>1. CASE CreateCollection(c, n, s)
  BY <1>1, CreatedKeeps DEF CreateCollection, CollectionsInv, Types
<1>2. CASE UpdateCollection(c, n, s)
  BY <1>2, UpdateCollectionKeeps
<1>3. ASSUME NEW records \in SUBSET RecordId, ImportJson(c, n, s, records) PROVE CollectionsInv'
  BY <1>3, CreatedKeeps DEF ImportJson, CollectionsInv, Types
<1>4. ASSUME NEW records \in SUBSET RecordId, NEW o \in Caller, ApplyTemplate(o, c, n, s, records)
      PROVE  CollectionsInv'
  <2>1. \A p \in Caller : op'[p] # Unused => op'[p].name \in Name
    <3> DEFINE new == [kind |-> "seed", id |-> c, name |-> n, columns |-> DOMAIN s, records |-> records]
    <3>1. op' = [op EXCEPT ![o] = new] /\ new.name \in Name
      BY <1>4 DEF ApplyTemplate, Seeds
    <3> HIDE DEF new
    <3>2. QED
      BY <3>1, OpStaysNamed
  <2>2. CASE Named(n) = {} /\ catalog[c] = NoCollection /\ Created(c, n, s, {})
    BY <2>1, <2>2, CreatedKeeps
  <2>3. CASE UNCHANGED <<catalog, table, index>>
    BY <2>1, <2>3, OnlyOpKeeps
  <2>4. QED
    BY <1>4, <2>2, <2>3 DEF ApplyTemplate
<1>5. QED
  BY <1>1, <1>2, <1>3, <1>4, OverwriteTemplateKeeps

-----------------------------------------------------------------------------
(* The inductive invariant of the collections: their tables and indexes exist   *)
(* exactly for them, and an index has its fields and its rows.               *)
THEOREM CollectionsInvariant == CollectionsSpec => []CollectionsInv
<1>1. CollectionsInv /\ [CollectionsNext]_collectionsVars => CollectionsInv'
  <2> SUFFICES ASSUME CollectionsInv, [CollectionsNext]_collectionsVars PROVE CollectionsInv'
    OBVIOUS
  <2>1. CASE CollectionsNext
    BY <2>1, SchemaStepKeeps, BeginsKeep, GoesKeep DEF CollectionsNext
  <2>2. CASE UNCHANGED collectionsVars
    <3>1. UNCHANGED <<catalog, table, index, op>>
      BY <2>2 DEF collectionsVars
    <3>2. \A o \in Caller : op'[o] # Unused => op'[o].name \in Name
      BY <3>1 DEF CollectionsInv, Types
    <3>3. QED
      BY <3>1, <3>2, OnlyOpKeeps
  <2>3. QED
    BY <2>1, <2>2
<1>2. QED
  BY <1>1, CollectionsInvInit, PTL DEF CollectionsSpec

(* The full-text index has the rows of its table, for any collections, schemas  *)
(* and operations on their way (SchemaService, FtsService, RecordService).    *)
THEOREM IndexesFollowRows == CollectionsSpec => []IndexMatchesRows
<1>1. CollectionsInv => IndexMatchesRows
  BY DEF CollectionsInv, Mirrored, Mirrors, IndexMatchesRows
<1>2. QED
  BY <1>1, CollectionsInvariant, PTL
=============================================================================
