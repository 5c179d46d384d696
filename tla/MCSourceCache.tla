--------------------------- MODULE MCSourceCache ---------------------------
(* Instances of SourceCache for TLC. *)
EXTENDS SourceCache, TLC

CONSTANTS r1, r2, r3

\* The requests that do not say mustRevalidate are alike.
Symmetry == Permutations(Requests \ MustRevalidate)
=============================================================================
