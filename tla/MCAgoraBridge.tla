--------------------------- MODULE MCAgoraBridge ---------------------------
\* Three messages, of every combination of kinds.
EXTENDS AgoraBridge

CONSTANTS m1, m2, m3

MCMessages == {m1, m2, m3}
=============================================================================
