------------------------------- MODULE Nullable -------------------------------
(***************************************************************************)
(* What the components' tables have in common: a value that may be missing *)
(* (None, NULL), a table as a function from its keys to its rows, and what *)
(* a SQLAlchemy session writes of a row: the columns it has changed.       *)
(***************************************************************************)
CONSTANT None

Put(table, id, row) ==
  [x \in DOMAIN table \cup {id} |-> IF x = id THEN row ELSE table[x]]

Column(base, want, now) == IF want = base THEN now ELSE want
=============================================================================
