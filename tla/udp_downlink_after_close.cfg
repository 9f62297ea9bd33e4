\* A SendDownlinkFrame to a gateway that sent PULL_DATA, with Close
\* possible at any point: does any goroutine send on the closed channel?
CONSTANTS
  g1 = g1  g2 = g2  a1 = a1  a2 = a2  v1 = v1  v2 = v2
  NoVersion = NoVersion
  Gateways <- MCGateways1
  Configured <- MCConfigured
  Addrs <- MCAddrs
  ProtoVersions = {2}
  Versions <- MCVersions1
  PacketKinds <- MCKindsPull
  MaxPackets = 1
  MaxUplinks = 1
  MaxDownlinks = 1
  MaxApplies = 0
  MayClose = TRUE
  MayCloseFail = FALSE
SPECIFICATION Spec
INVARIANT NoPanic
