\* Two ApplyConfiguration calls for one gateway with different versions,
\* no datagrams: does currentVersion end up naming the loaded file?
CONSTANTS
  g1 = g1  g2 = g2  a1 = a1  a2 = a2  v1 = v1  v2 = v2
  NoVersion = NoVersion
  Gateways <- MCGateways1
  Configured <- MCConfigured
  Addrs <- MCAddrs
  ProtoVersions = {2}
  Versions <- MCVersions
  PacketKinds <- MCKindsPull
  MaxPackets = 0
  MaxUplinks = 1
  MaxDownlinks = 0
  MaxApplies = 2
  MayClose = FALSE
  MayCloseFail = FALSE
SPECIFICATION Spec
INVARIANT ReportedVersionIsRunning
