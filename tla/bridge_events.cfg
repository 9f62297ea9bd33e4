\* No always-subscribe ids (no [[backend.semtech_udp.configuration]]) and a
\* broker that stays up: three PULL_DATA handlers and two sweeper rounds over
\* two gateways race the two forwarder loops on the integration's lock.
CONSTANTS
  g1 = g1  g2 = g2
  Gateways <- MCGateways
  AlwaysSubscribe <- MCNone
  MaxPulls = 3
  MaxCleanups = 2
  MaxLosses = 0
  MaxConnectFails = 0
  Reconnects = FALSE
  MaxReconnects = 0
SPECIFICATION Spec
INVARIANT TypeOK
PROPERTY ConnectEventsDelivered
