----------------------------- MODULE MQTTClients -----------------------------
(***************************************************************************)
(* The broker clients of the MQTT integration (integration/mqtt).          *)
(*                                                                         *)
(* Every connect() makes a new paho client, stores it in b.conn and calls  *)
(* Connect() on it, all under b.Lock().  The clients replaced in b.conn    *)
(* are not disconnected.  Goroutines that run connectLoop:                 *)
(*  - one onConnectionLost goroutine per client whose connection drops     *)
(*    (SetAutoReconnect(false), so paho calls the handler instead);        *)
(*  - reconnectLoop, when auth.ReconnectAfter() > 0 (Azure IoT Hub and GCP *)
(*    tokens), which calls disconnect() and then connectLoop each period.  *)
(* Close takes the lock to set b.closed, then disconnects b.conn.          *)
(*                                                                         *)
(* The broker side: a client connecting with the ClientID of a connected  *)
(* client makes the broker drop the older one (MQTT 3.1.1, 3.1.4).  The    *)
(* Azure IoT Hub auth sets one fixed ClientID (its Init), so a successful  *)
(* Connect() drops every other connected client of the integration, and    *)
(* paho then runs onConnectionLost for it.                                 *)
(*                                                                         *)
(* A client is a slot of Clients.  A slot is used again once its client is *)
(* disconnected, no longer b.conn, and its onConnectionLost goroutine has  *)
(* returned: nothing refers to the old client then, so an infinite run of  *)
(* connects needs only a few slots.  Subscriptions and onConnected are     *)
(* modelled in Bridge.                                                     *)
(***************************************************************************)
EXTENDS Naturals, FiniteSets

CONSTANTS
  Clients,       \* slots for paho client objects
  MaxLosses,     \* bound: connections dropped by the network
  MaxFails,      \* bound: Connect() calls that fail
  Reconnects,    \* auth.ReconnectAfter() > 0
  MaxReconnects, \* bound: periods of reconnectLoop
  MayClose,      \* some caller calls Close (cmd run never does)
  FixedClientID  \* auth.Init sets one ClientID for every client (Azure)

ASSUME MQTTClientsAssumption ==
  /\ IsFiniteSet(Clients) /\ Cardinality(Clients) >= 2
  /\ MaxLosses \in Nat /\ MaxFails \in Nat /\ MaxReconnects \in Nat
  /\ Reconnects \in BOOLEAN /\ MayClose \in BOOLEAN
  /\ FixedClientID \in BOOLEAN

\* Callers of b.Lock() in this module.
LostId(c) == <<"lost", c>>      \* onConnectionLost of client c
RcId      == <<"rc", 0>>        \* reconnectLoop
CloseId   == <<"close", 0>>     \* Close
NoOwner   == <<"none", 0>>
Actors    == {LostId(c) : c \in Clients} \cup {RcId, CloseId}

\* Program counters inside connectLoop.
Looping == {"lock", "dial", "sleep"}

VARIABLES
  cst,     \* client slot -> "down" (not connected), "dialing", "up"
  conn,    \* b.conn
  owner,   \* holder of b.Lock()
  pc,      \* actor -> program counter
  closed,  \* b.closed
  nloss, nfail, nrec

vars == <<cst, conn, owner, pc, closed, nloss, nfail, nrec>>

TypeOK ==
  /\ cst \in [Clients -> {"down", "dialing", "up"}]
  /\ conn \in Clients
  /\ owner \in Actors \cup {NoOwner}
  /\ pc \in [Actors -> {"idle", "check", "disc", "exited", "done"} \cup Looping]
  /\ closed \in BOOLEAN
  /\ nloss \in 0..MaxLosses /\ nfail \in 0..MaxFails
  /\ nrec \in 0..MaxReconnects

\* The state NewBackend returns: its connectLoop has connected b.conn and
\* reconnectLoop has started (it returns at once if ReconnectAfter() = 0).
Init ==
  /\ conn \in Clients
  /\ cst = [c \in Clients |-> IF c = conn THEN "up" ELSE "down"]
  /\ owner = NoOwner
  /\ pc = [a \in Actors |-> IF a = RcId
                            THEN IF Reconnects THEN "check" ELSE "exited"
                            ELSE "idle"]
  /\ closed = FALSE
  /\ nloss = 0 /\ nfail = 0 /\ nrec = 0

-----------------------------------------------------------------------------
(* The network, and the broker's take-over of a duplicate ClientID.       *)

Lose(c) ==
  /\ cst[c] = "up" /\ nloss < MaxLosses
  /\ nloss' = nloss + 1
  /\ cst' = [cst EXCEPT ![c] = "down"]
  /\ pc' = [pc EXCEPT ![LostId(c)] = "lock"]
  /\ UNCHANGED <<conn, owner, closed, nfail, nrec>>

-----------------------------------------------------------------------------
(* connectLoop, shared by onConnectionLost and reconnectLoop.              *)

\* A slot whose client nothing refers to any more.
Reusable(n) == n # conn /\ cst[n] = "down" /\ pc[LostId(n)] = "idle"

\* connect(): b.Lock(), auth.Update, b.conn = paho.NewClient(opts), then
\* Connect() is called and waited for with the lock held.
ConnLock(a) ==
  /\ pc[a] = "lock" /\ owner = NoOwner
  /\ \E n \in Clients :
       /\ Reusable(n)
       /\ conn' = n
       /\ cst' = [cst EXCEPT ![n] = "dialing"]
  /\ owner' = a
  /\ pc' = [pc EXCEPT ![a] = "dial"]
  /\ UNCHANGED <<closed, nloss, nfail, nrec>>

\* The clients the broker drops when b.conn connects: with one ClientID
\* for all clients, every other connected one.
\* Mutant: an auth Init that sets no common ClientID.
KickedNone == {}

Kicked ==
  IF FixedClientID THEN {c \in Clients : c # conn /\ cst[c] = "up"} ELSE {}

\* Where connectLoop returns to.
AfterConnect(a) == IF a = RcId THEN "check" ELSE "idle"

\* Connect() succeeds; the deferred Unlock releases b.Lock() and
\* connectLoop breaks out.  The broker drops the Kicked clients, and paho
\* starts onConnectionLost for each.
DialOK(a) ==
  /\ pc[a] = "dial" /\ owner = a
  /\ LET kicked == Kicked
     IN  /\ cst' = [c \in Clients |-> IF c = conn THEN "up"
                                      ELSE IF c \in kicked THEN "down"
                                      ELSE cst[c]]
         /\ pc' = [x \in Actors |->
                     IF x = a THEN AfterConnect(a)
                     ELSE IF x \in {LostId(c) : c \in kicked} THEN "lock"
                     ELSE pc[x]]
  /\ owner' = NoOwner
  /\ UNCHANGED <<conn, closed, nloss, nfail, nrec>>

\* Mutant: connectLoop breaks out on an error instead of retrying.
DialFailGiveUp(a) ==
  /\ pc[a] = "dial" /\ owner = a /\ nfail < MaxFails
  /\ nfail' = nfail + 1
  /\ cst' = [cst EXCEPT ![conn] = "down"]
  /\ owner' = NoOwner
  /\ pc' = [pc EXCEPT ![a] = AfterConnect(a)]
  /\ UNCHANGED <<conn, closed, nloss, nrec>>

\* Connect() fails: connect() returns the error, the lock is released,
\* connectLoop logs it and sleeps 2 s.
DialFail(a) ==
  /\ pc[a] = "dial" /\ owner = a /\ nfail < MaxFails
  /\ nfail' = nfail + 1
  /\ cst' = [cst EXCEPT ![conn] = "down"]
  /\ owner' = NoOwner
  /\ pc' = [pc EXCEPT ![a] = "sleep"]
  /\ UNCHANGED <<conn, closed, nloss, nrec>>

\* After the sleep connectLoop calls connect() again.
Retry(a) ==
  /\ pc[a] = "sleep"
  /\ pc' = [pc EXCEPT ![a] = "lock"]
  /\ UNCHANGED <<cst, conn, owner, closed, nloss, nfail, nrec>>

ConnectLoop(a) == ConnLock(a) \/ DialOK(a) \/ DialFail(a) \/ Retry(a)

-----------------------------------------------------------------------------
(* reconnectLoop and Close.                                                *)

\* b.conn.Disconnect(250): a no-op on a client that is not connected; paho
\* does not call OnConnectionLost for it.
DisconnectConn ==
  cst' = [cst EXCEPT ![conn] = IF @ = "up" THEN "down" ELSE @]

\* if b.closed { break }: read without the lock.
RExit ==
  /\ pc[RcId] = "check" /\ closed
  /\ pc' = [pc EXCEPT ![RcId] = "exited"]
  /\ UNCHANGED <<cst, conn, owner, closed, nloss, nfail, nrec>>

\* b.closed read FALSE; time.Sleep(ReconnectAfter()).
RWake ==
  /\ pc[RcId] = "check" /\ ~closed /\ nrec < MaxReconnects
  /\ nrec' = nrec + 1
  /\ pc' = [pc EXCEPT ![RcId] = "disc"]
  /\ UNCHANGED <<cst, conn, owner, closed, nloss, nfail>>

\* disconnect(): b.Lock(), b.conn.Disconnect(250), deferred Unlock; then
\* connectLoop.
RDisc ==
  /\ pc[RcId] = "disc" /\ owner = NoOwner
  /\ DisconnectConn
  /\ pc' = [pc EXCEPT ![RcId] = "lock"]
  /\ UNCHANGED <<conn, owner, closed, nloss, nfail, nrec>>

ReconnectLoop == RExit \/ RWake \/ RDisc \/ ConnectLoop(RcId)

\* Close: b.Lock(); b.closed = true; b.Unlock().
CloseLock ==
  /\ MayClose /\ pc[CloseId] = "idle" /\ owner = NoOwner
  /\ closed' = TRUE
  /\ pc' = [pc EXCEPT ![CloseId] = "disc"]
  /\ UNCHANGED <<cst, conn, owner, nloss, nfail, nrec>>

\* Close: b.conn.Disconnect(250), b.conn read without the lock.
CloseDisc ==
  /\ pc[CloseId] = "disc"
  /\ DisconnectConn
  /\ pc' = [pc EXCEPT ![CloseId] = "done"]
  /\ UNCHANGED <<conn, owner, closed, nloss, nfail, nrec>>

-----------------------------------------------------------------------------

\* Nothing is running and no bounded event is left: the timer of
\* reconnectLoop does not fire again within MaxReconnects.
Finished ==
  /\ \A c \in Clients : pc[LostId(c)] = "idle"
  /\ pc[RcId] = "exited" \/ (pc[RcId] = "check" /\ ~closed /\ nrec = MaxReconnects)
  /\ pc[CloseId] \in {"idle", "done"}

Terminating == Finished /\ UNCHANGED vars

Next ==
  \/ \E c \in Clients : Lose(c) \/ ConnectLoop(LostId(c))
  \/ ReconnectLoop
  \/ CloseLock \/ CloseDisc
  \/ Terminating

\* Each goroutine that can run is scheduled (weak fairness per goroutine);
\* losses, failures and the call of Close are not forced.
Fairness ==
  /\ \A c \in Clients : WF_vars(ConnectLoop(LostId(c)))
  /\ WF_vars(ReconnectLoop)
  /\ WF_vars(CloseDisc)

Spec == Init /\ [][Next]_vars /\ Fairness

-----------------------------------------------------------------------------
(* Properties.                                                             *)

\* Recovery is never abandoned: while the integration is not closed and
\* b.conn is not connected, onConnectionLost or reconnectLoop is inside
\* connectLoop (or reconnectLoop is about to disconnect and enter it).  A
\* connectLoop that gave up after an error, or a lost connection without
\* its handler, would leave b.conn down for good.
NeverAbandoned ==
  ~closed /\ cst[conn] # "up" =>
    \E a \in Actors \ {CloseId} : pc[a] \in Looping \cup {"disc"}

ConnectionSettles ==
  <>[](cst[conn] = "up" /\ \A c \in Clients : pc[LostId(c)] = "idle")

\* One broker session, with the fixed ClientID of the Azure auth: whenever
\* b.conn is connected it is the only connected client, and another client
\* is connected only while a connectLoop of onConnectionLost or
\* reconnectLoop is running, whose successful Connect() makes the broker
\* drop it.  connect() replaces b.conn without disconnecting the old
\* client; only the broker's take-over of the ClientID gets rid of it.
SingleSession ==
  FixedClientID =>
    \A c \in Clients :
      cst[c] = "up" /\ c # conn =>
        /\ cst[conn] # "up"
        /\ \E a \in Actors \ {CloseId} : pc[a] \in Looping

====
