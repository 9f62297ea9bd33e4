\* One gateway, one ping and two sends: the ping goroutine and a downlink,
\* or two downlinks, write to the same websocket at the same time.
CONSTANTS
  g1 = g1  g2 = g2  c1 = c1  c2 = c2
  NoConn = NoConn
  Gateways <- MCGateways1
  Conns <- MCConns
  MaxPings = 1
  MaxSends = 2
SPECIFICATION Spec
INVARIANT NoConcurrentWrite
