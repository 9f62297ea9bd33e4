\* One lost connection while reconnectLoop is due: the two connectLoops
\* each connect a client with the integration's ClientID.
CONSTANTS
  Clients = {1, 2, 3, 4}
  MaxLosses = 1
  MaxFails = 0
  Reconnects = TRUE
  MaxReconnects = 1
  MayClose = FALSE
  FixedClientID = TRUE
SPECIFICATION Spec
PROPERTY ConnectionSettles
