--------------------------- MODULE MCIdAllocation ---------------------------
EXTENDS IdAllocation, TLC

CONSTANTS t1, t2, t3

\* Which thread does what is all that tells them apart.
Symmetry == Permutations(Threads)

\* What comes after a second cause is left out.
OneCause == Cardinality(causes) <= 1
=============================================================================
