-------------------------- MODULE MCContactStore --------------------------
(* Instances of ContactStore for TLC: how many rows each table may get.    *)
EXTENDS ContactQueries

Rows(f) == [t \in Tables |-> IF t \in DOMAIN f THEN f[t] ELSE 0]

\* A forest of units with names in two locales.
Forest == Rows([orgunit |-> 3, localizedorgunit |-> 3])

\* Every table.
Everything == [t \in Tables |-> IF t \in {"person", "orgunit"} THEN 2 ELSE 1]

\* No action reads log: states that differ only in it are the same.
Stored == <<rows, nextId, mvVars>>
===========================================================================
