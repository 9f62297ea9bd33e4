--------------------------- MODULE MC_BasicStation --------------------------
(* Model values for the Basic Station runs.                                *)
EXTENDS BasicStation

CONSTANTS g1, g2, c1, c2

MCGateways  == {g1, g2}
MCGateways1 == {g1}
MCConns     == {c1, c2}
=============================================================================
