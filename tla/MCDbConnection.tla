-------------------------- MODULE MCDbConnection --------------------------
(* Instances of DbConnection for TLC: three threads compete for two slots. *)
EXTENDS DbConnection, TLC

Symmetry == Permutations(Threads) \cup Permutations(Slots)
            \cup Permutations(Users)
===========================================================================
