\* One always-subscribe id (g1) and one other gateway; a broker connection
\* lost once (also during Setup, which is then fatal), a connect() that
\* fails once and a periodic re-connect (ReconnectAfter() > 0) race two
\* PULL_DATA handlers and a sweeper round.  The break of either loop and the
\* resubscribe deadlock of onConnected (bridge_resubscribe_deadlock) really
\* stop goroutines for good, so deadlock is not checked.  The run also checks
\* that the integration implements the abstract MQTTSubscriptions.
CONSTANTS
  g1 = g1  g2 = g2
  Gateways <- MCGateways
  AlwaysSubscribe <- MCGateways1
  MaxPulls = 2
  MaxCleanups = 1
  MaxLosses = 1
  MaxConnectFails = 1
  Reconnects = TRUE
  MaxReconnects = 1
SPECIFICATION Spec
CHECK_DEADLOCK FALSE
INVARIANT BrokerMatchesKnownSet
INVARIANT AlwaysSubscribedKept
PROPERTY ImplementsSubscriptions
