----------------------------- MODULE Documents -----------------------------
(***************************************************************************)
(* What TypeORM's save(entity) does to the row of a document. It reads the *)
(* row again and writes the columns in which the object, loaded earlier    *)
(* and changed since, differs from what it has just read. Both a row and   *)
(* an object are functions from column names to values.                    *)
(***************************************************************************)

\* The columns the UPDATE will set, found when the row is read again.
Dirty(entity, row) == {f \in DOMAIN entity : entity[f] # row[f]}

\* The row after the UPDATE, whatever it had become in between.
Merge(row, entity, dirty) == [f \in DOMAIN row |-> IF f \in dirty THEN entity[f] ELSE row[f]]

\* A table after the INSERT of a row.
With(table, id, row) ==
    [x \in DOMAIN table \cup {id} |-> IF x = id THEN row ELSE table[x]]
=============================================================================
