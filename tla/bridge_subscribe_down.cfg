\* One gateway connects while the broker connection is down: SubscribeGateway
\* fails, the error is only logged, and the reconnect does not retry it.
CONSTANTS
  g1 = g1  g2 = g2
  Gateways <- MCGateways1
  AlwaysSubscribe <- MCNone
  MaxPulls = 1
  MaxCleanups = 0
  MaxLosses = 1
  MaxConnectFails = 0
  Reconnects = FALSE
  MaxReconnects = 0
SPECIFICATION Spec
CHECK_DEADLOCK FALSE
INVARIANT SubscriptionsFollowRegistry
