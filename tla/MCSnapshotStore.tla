--------------------------- MODULE MCSnapshotStore ---------------------------
EXTENDS SnapshotStore, TLC

CONSTANTS c1, c2

MCComponents == {c1, c2}

\* Components are told apart by name only, and the order they are written in
\* is left open.
Symmetry == Permutations(MCComponents)
=============================================================================
