\* Close against handlePacket: two PULL_DATA/PUSH_DATA datagrams, an
\* apply taking b.Lock() and a Close that may come at any point and whose
\* conn.Close() may fail.  A failed Close keeps b.Lock(), so later handlers
\* and applies block for good: the system really stops there, hence no
\* deadlock check; CloseReturns and EveryPacketAnswered cover the progress.
CONSTANTS
  g1 = g1  g2 = g2  a1 = a1  a2 = a2  v1 = v1  v2 = v2
  NoVersion = NoVersion
  Gateways <- MCGateways1
  Configured <- MCConfigured
  Addrs <- MCAddrs
  ProtoVersions = {2}
  Versions <- MCVersions1
  PacketKinds <- MCKindsAck
  MaxPackets = 2
  MaxUplinks = 1
  MaxDownlinks = 0
  MaxApplies = 1
  MayClose = TRUE
  MayCloseFail = TRUE
SPECIFICATION Spec
 
INVARIANT NoHandlerSendsOnClosedChannel
 
CHECK_DEADLOCK FALSE
