--------------------------- MODULE MC_ActionSystem ---------------------------
EXTENDS ActionSystem

CONSTANTS g1, g2

MC_Goals == {g1, g2}

=============================================================================
