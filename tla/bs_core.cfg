\* Two connection attempts, possibly for the same id, each with one ping,
\* racing two downlink/configuration sends: registry entries always name a
\* live connection of their id.
\* A served system idles (the HTTP server keeps listening), which the
\* stuttering step of Served allows, so deadlock is checked.
CONSTANTS
  g1 = g1  g2 = g2  c1 = c1  c2 = c2
  NoConn = NoConn
  Gateways <- MCGateways
  Conns <- MCConns
  MaxPings = 1
  MaxSends = 2
SPECIFICATION Spec
INVARIANT RegistryEntryLive
