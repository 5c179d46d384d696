----------------------- MODULE MCDatabaseTransaction -----------------------
(* Instances of DatabaseTransaction for TLC. *)
EXTENDS DatabaseTransaction, TLC

CONSTANTS k1, k2, s1, s2

Symmetry == Permutations(Keys) \cup Permutations(Scans)
=============================================================================
