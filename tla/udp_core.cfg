\* The running bridge: Close is never called (cmd run only waits for a
\* signal); two datagrams of every kind from two gateways race each other,
\* the registry sweeper and a downlink.
CONSTANTS
  g1 = g1  g2 = g2  a1 = a1  a2 = a2  v1 = v1  v2 = v2
  NoVersion = NoVersion
  Gateways <- MCGateways
  Configured <- MCConfigured
  Addrs <- MCAddrs
  ProtoVersions = {2}
  Versions <- MCVersions1
  PacketKinds <- MCKinds
  MaxPackets = 2
  MaxUplinks = 1
  MaxDownlinks = 1
  MaxApplies = 0
  MayClose = FALSE
  MayCloseFail = FALSE
SPECIFICATION Spec
INVARIANT TypeOK
 
