----------------------------- MODULE MC_Bridge -----------------------------
(* Small instances of the lifecycle path for TLC.                          *)
EXTENDS Bridge

CONSTANTS g1, g2

MCGateways  == {g1, g2}
MCGateways1 == {g1}
MCNone      == {}
=============================================================================
