\* Azure IoT Hub authentication (one ClientID, ReconnectAfter() > 0): two
\* lost connections, one failed Connect(), two periods of reconnectLoop and
\* a Close race each other; five client slots.  Deadlock is checked.
CONSTANTS
  Clients = {1, 2, 3, 4, 5}
  MaxLosses = 2
  MaxFails = 1
  Reconnects = TRUE
  MaxReconnects = 2
  MayClose = TRUE
  FixedClientID = TRUE
SPECIFICATION Spec
INVARIANT NeverAbandoned
INVARIANT SingleSession
 
