\* One always-subscribe id and two lost connections: the second loss hits
\* the onConnected goroutine of the first reconnect while it re-subscribes
\* under b.RLock(), so the next connect() never gets b.Lock().
CONSTANTS
  g1 = g1  g2 = g2
  Gateways <- MCGateways1
  AlwaysSubscribe <- MCGateways1
  MaxPulls = 0
  MaxCleanups = 0
  MaxLosses = 2
  MaxConnectFails = 0
  Reconnects = FALSE
  MaxReconnects = 0
SPECIFICATION Spec
CHECK_DEADLOCK FALSE
PROPERTY ConnectionRestored
