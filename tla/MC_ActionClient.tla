--------------------------- MODULE MC_ActionClient ---------------------------
EXTENDS ActionClientPeer

CONSTANTS g1, g2

MC_Goals == {g1, g2}

=============================================================================
