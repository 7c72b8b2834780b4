--------------------------- MODULE MCConversation ---------------------------
\* A message of each of two peers over a history of two turns.
EXTENDS Conversation

CONSTANTS m1, m2, p, q, s, t

MCMessages == {m1, m2}
MCPeers == {p, q}
MCSpeaker == [m \in MCMessages |-> IF m = m1 THEN p ELSE q]
MCSignatures == {s, t}
=============================================================================
