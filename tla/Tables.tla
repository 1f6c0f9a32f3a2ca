------------------------------- MODULE Tables -------------------------------
(***************************************************************************)
(* A database table with a primary key, or a Redis keyspace, as a function *)
(* from the keys present to their rows.  These are the statements the code *)
(* issues: INSERT of a new key, UPDATE of a present one, DELETE by key.    *)
(***************************************************************************)

\* INSERT (or SET): the table with key k mapped to row v.
Put(t, k, v) == [x \in DOMAIN t \cup {k} |-> IF x = k THEN v ELSE t[x]]

\* DELETE (or DEL): the table without the keys of K; keys absent already
\* are ignored, as DELETE ... WHERE and DEL ignore them.
Drop(t, K) == [x \in DOMAIN t \ K |-> t[x]]

\* A table before its first row.
Empty == [x \in {} |-> x]
=============================================================================
