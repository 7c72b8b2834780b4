-------------------------- MODULE MCAgoraSession --------------------------
\* Two requests, the three loops, and a hub that issues a handful of tokens.
EXTENDS AgoraSession, TLC

CONSTANTS r1, r2

MCRequests == {r1, r2}
MCSymmetry == Permutations(MCRequests)
=============================================================================
