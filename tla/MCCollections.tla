---------------------------- MODULE MCCollections -----------------------------
(* Values for Collections.                                                   *)
EXTENDS Collections

\* A field that is indexed, or not, and one that is added, unique or not.
SomeSchemas ==
  LET t(f) == [fts |-> f, unique |-> FALSE]
      one(f) == [x \in {"t"} |-> t(f)]
      two(u) == [x \in {"t", "u"} |-> IF x = "t" THEN t(TRUE) ELSE [fts |-> TRUE, unique |-> u]]
  IN {one(TRUE), one(FALSE), two(TRUE), two(FALSE)}
=============================================================================
