--------------------------- MODULE MC_SemtechUDP ---------------------------
(* Small instances of the UDP backend for TLC.                             *)
EXTENDS SemtechUDP

CONSTANTS g1, g2, a1, a2, v1, v2

MCGateways == {g1, g2}
MCGateways1 == {g1}
MCConfigured == {g1}
MCAddrs == {a1}
MCVersions == {v1, v2}
MCVersions1 == {v1}
MCKinds == {"PULL_DATA", "PUSH_DATA", "TX_ACK", "BAD"}
MCKindsAck == {"PULL_DATA", "PUSH_DATA"}
MCKindsPull == {"PULL_DATA"}
=============================================================================
