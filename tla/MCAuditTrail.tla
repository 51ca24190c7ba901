--------------------------- MODULE MCAuditTrail ---------------------------
(* Instances of AuditTrail for TLC. *)
EXTENDS AuditTrail, TLC

Symmetry == Permutations(Threads) \cup Permutations(Slots)
            \cup Permutations(Values)
===========================================================================
