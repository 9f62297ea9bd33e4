------------------------------- MODULE Bridge -------------------------------
(***************************************************************************)
(* The gateway lifecycle path: backend registry -> forwarder -> MQTT       *)
(* integration (packages forwarder and integration/mqtt).                  *)
(*                                                                         *)
(* Goroutines modelled, each with its own program counter:                *)
(*  - the UDP handlers whose gateways.set emits a connect event, and the   *)
(*    registry sweeper whose cleanup emits disconnect events; both send on *)
(*    unbuffered channels, so a send is a rendezvous with the receiver;   *)
(*  - the main goroutine running forwarder.Setup (always-subscribe ids);   *)
(*  - the forwarder's onConnectedLoop and onDisconnectedLoop;              *)
(*  - the paho callbacks: one onConnectionLost goroutine per lost          *)
(*    connection, one onConnected goroutine per successful connect;        *)
(*  - the integration's reconnectLoop.                                     *)
(* The integration's sync.RWMutex keeps Go's writer preference: Lock()    *)
(* first claims the mutex (blocking later RLock()), then waits for the    *)
(* readers inside.  The broker connection is the flag connected and the   *)
(* set subs of topics subscribed on the current b.conn; b.gateways is igw. *)
(* A broker call on a client that is not connected fails; otherwise it    *)
(* succeeds.  A gateway id, a topic and its template are one model value. *)
(***************************************************************************)
EXTENDS Integers, FiniteSets

CONSTANTS
  Gateways,         \* gateway EUIs (model values)
  AlwaysSubscribe,  \* ids of the [[backend.semtech_udp.configuration]] list
  MaxPulls,         \* bound: PULL_DATA handlers that call gateways.set
  MaxCleanups,      \* bound: sweeper rounds that remove gateways
  MaxLosses,        \* bound: broker connections lost (paho OnConnectionLost)
  MaxConnectFails,  \* bound: failed connect() attempts
  Reconnects,       \* auth.ReconnectAfter() > 0
  MaxReconnects     \* bound: iterations of reconnectLoop

ASSUME BridgeAssumption ==
  /\ Gateways # {}
  /\ AlwaysSubscribe \subseteq Gateways
  /\ MaxPulls \in Nat /\ MaxCleanups \in Nat /\ MaxLosses \in Nat
  /\ MaxConnectFails \in Nat /\ MaxReconnects \in Nat
  /\ Reconnects \in BOOLEAN

Handlers == 1..MaxPulls
AnyGw    == CHOOSE g \in Gateways : TRUE   \* value of an unused id variable

\* Callers of the integration's b.Lock().
MainId  == <<"main", 0>>
FcId    == <<"fc", 0>>
FdId    == <<"fd", 0>>
RcId    == <<"rc", 0>>
LostId(k) == <<"lost", k>>
NoOne   == <<"none", 0>>
LockIds == {MainId, FcId, FdId, RcId} \cup {LostId(k) : k \in 1..MaxLosses}

\* onConnected goroutines, named after the connect that started them: the
\* one of NewBackend's connectLoop, of onConnectionLost k, of reconnect r.
OCs == {<<"init", 0>>} \cup {<<"lost", k>> : k \in 1..MaxLosses}
                       \cup {<<"rc", r>> : r \in 1..MaxReconnects}

VARIABLES
  present,    \* gateways.gateways: ids in the backend registry
  hpc, hgw,   \* PULL_DATA handlers: "idle", "send" (connect event), "done"
  npull,
  swpc,       \* sweeper: "sleep" or "send" (disconnect events pending)
  spending,   \* ids removed by cleanup, disconnect event not yet received
  ncleanup,
  mpc,        \* forwarder.Setup: "setup", "sub", "done", "fatal"
  mtodo,      \* always-subscribe ids not yet subscribed by Setup
  fcpc, fcgw, \* onConnectedLoop: "start", "recv", "lock", "sub", "exited"
  fdpc, fdgw, \* onDisconnectedLoop: same
  irl,        \* onConnected goroutines holding b.RLock()
  iwl,        \* the caller owning or waiting for b.Lock()
  connected,  \* b.conn is connected to the broker
  subs,       \* command topics subscribed on b.conn
  igw,        \* b.gateways
  lpc,        \* onConnectionLost k: "idle", "lock", "connect", "done"
  nlost,
  nfail,
  rpc,        \* reconnectLoop: "sleep", "dlock", "disc", "clock", "connect", "exited"
  nrec,
  opc,        \* onConnected o: "idle", "rlock", "sub", "done"
  otodo       \* ids of b.gateways it has not subscribed yet

srcVars  == <<present, hpc, hgw, npull, swpc, spending, ncleanup>>
fwdVars  == <<mpc, mtodo, fcpc, fcgw, fdpc, fdgw>>
connVars == <<irl, iwl, connected, subs, igw>>
cbVars   == <<lpc, nlost, nfail, rpc, nrec, opc, otodo>>
vars     == <<srcVars, fwdVars, connVars, cbVars>>

TypeOK ==
  /\ present \in [Gateways -> BOOLEAN]
  /\ hpc \in [Handlers -> {"idle", "send", "done"}]
  /\ hgw \in [Handlers -> Gateways]
  /\ npull \in 0..MaxPulls
  /\ swpc \in {"sleep", "send"} /\ spending \subseteq Gateways
  /\ ncleanup \in 0..MaxCleanups
  /\ mpc \in {"setup", "sub", "done", "fatal"} /\ mtodo \subseteq AlwaysSubscribe
  /\ fcpc \in {"start", "recv", "lock", "sub", "exited"} /\ fcgw \in Gateways
  /\ fdpc \in {"start", "recv", "lock", "sub", "exited"} /\ fdgw \in Gateways
  /\ irl \subseteq OCs /\ iwl \in LockIds \cup {NoOne}
  /\ connected \in BOOLEAN /\ subs \subseteq Gateways /\ igw \subseteq Gateways
  /\ lpc \in [1..MaxLosses -> {"idle", "lock", "connect", "done"}]
  /\ nlost \in 0..MaxLosses /\ nfail \in 0..MaxConnectFails
  /\ rpc \in {"sleep", "dlock", "disc", "clock", "connect", "exited"}
  /\ nrec \in 0..MaxReconnects
  /\ opc \in [OCs -> {"idle", "rlock", "sub", "done"}]
  /\ otodo \in [OCs -> SUBSET Gateways]

\* State right after setupBackend and setupIntegration: NewBackend's
\* connectLoop has connected (its onConnected is still to run), nothing is
\* subscribed, reconnectLoop runs iff ReconnectAfter() > 0.
Init ==
  /\ present = [g \in Gateways |-> FALSE]
  /\ hpc = [h \in Handlers |-> "idle"] /\ hgw = [h \in Handlers |-> AnyGw]
  /\ npull = 0
  /\ swpc = "sleep" /\ spending = {} /\ ncleanup = 0
  /\ mpc = "setup" /\ mtodo = AlwaysSubscribe
  /\ fcpc = "start" /\ fcgw = AnyGw /\ fdpc = "start" /\ fdgw = AnyGw
  /\ irl = {} /\ iwl = NoOne
  /\ connected = TRUE /\ subs = {} /\ igw = {}
  /\ lpc = [k \in 1..MaxLosses |-> "idle"] /\ nlost = 0 /\ nfail = 0
  /\ rpc = (IF Reconnects THEN "sleep" ELSE "exited") /\ nrec = 0
  /\ opc = [o \in OCs |-> IF o = <<"init", 0>> THEN "rlock" ELSE "idle"]
  /\ otodo = [o \in OCs |-> {}]

-----------------------------------------------------------------------------
(* The integration's lock and broker calls.                                *)

Claim(w)   == iwl = NoOne /\ iwl' = w
InCS(w)    == iwl = w /\ irl = {}
Release    == iwl' = NoOne

\* SubscribeGateway's body under b.Lock(): subscribeGateway on b.conn, then
\* b.gateways[id] on success; the error is returned to the caller.
SubscribeBody(g) ==
  IF connected THEN subs' = subs \cup {g} /\ igw' = igw \cup {g}
               ELSE UNCHANGED <<subs, igw>>

\* UnsubscribeGateway's body: unsubscribe on b.conn, delete on success.
UnsubscribeBody(g) ==
  IF connected THEN subs' = subs \ {g} /\ igw' = igw \ {g}
               ELSE UNCHANGED <<subs, igw>>

\* Mutant: SetOnConnectHandler is never called, so nothing re-subscribes.
ConnectOKNoHandler(o) ==
  /\ connected' = TRUE /\ subs' = {}
  /\ UNCHANGED <<opc, nfail>>

\* connect() under b.Lock(): auth.Update, b.conn = paho.NewClient, Connect.
\* On success paho starts the OnConnect handler in a goroutine.
ConnectOK(o) ==
  /\ connected' = TRUE /\ subs' = {}
  /\ opc' = [opc EXCEPT ![o] = "rlock"]
  /\ UNCHANGED nfail
ConnectFail ==
  /\ nfail < MaxConnectFails /\ nfail' = nfail + 1
  /\ connected' = FALSE /\ subs' = {}
  /\ UNCHANGED opc

-----------------------------------------------------------------------------
(* The event sources (registry handlers and sweeper).                      *)

\* A PULL_DATA handler calls gateways.set; a new id makes it send on the
\* unbuffered connect channel after the registry lock is released.
PullData(g) ==
  /\ npull < MaxPulls
  /\ LET h == npull + 1 IN
       /\ npull' = h /\ hgw' = [hgw EXCEPT ![h] = g]
       /\ hpc' = [hpc EXCEPT ![h] = IF present[g] THEN "done" ELSE "send"]
       /\ present' = [present EXCEPT ![g] = TRUE]
  /\ UNCHANGED <<swpc, spending, ncleanup, fwdVars, connVars, cbVars>>

\* gateways.cleanup removes the ids silent for 30 s and then sends one
\* disconnect event per removed id.
Cleanup ==
  /\ swpc = "sleep" /\ ncleanup < MaxCleanups
  /\ \E S \in SUBSET {g \in Gateways : present[g]} :
       /\ S # {}
       /\ present' = [g \in Gateways |-> present[g] /\ g \notin S]
       /\ spending' = S
  /\ swpc' = "send" /\ ncleanup' = ncleanup + 1
  /\ UNCHANGED <<hpc, hgw, npull, fwdVars, connVars, cbVars>>

-----------------------------------------------------------------------------
(* forwarder.Setup and the two lifecycle loops.                            *)

SetupLock ==
  /\ mpc = "setup" /\ mtodo # {} /\ Claim(MainId) /\ mpc' = "sub"
  /\ UNCHANGED <<srcVars, mtodo, fcpc, fcgw, fdpc, fdgw, irl, connected,
                 subs, igw, cbVars>>

\* i.SubscribeGateway(id) for the next configured id; an error makes Setup
\* return it and run() calls log.Fatal: the process exits.
SetupSubscribe ==
  /\ mpc = "sub" /\ InCS(MainId) /\ Release
  /\ \E g \in mtodo :
       /\ SubscribeBody(g)
       /\ mtodo' = mtodo \ {g}
       /\ mpc' = IF connected THEN "setup" ELSE "fatal"
  /\ UNCHANGED <<srcVars, fcpc, fcgw, fdpc, fdgw, irl, connected, cbVars>>

SetupStartLoops ==
  /\ mpc = "setup" /\ mtodo = {}
  /\ mpc' = "done" /\ fcpc' = "recv" /\ fdpc' = "recv"
  /\ UNCHANGED <<srcVars, mtodo, fcgw, fdgw, connVars, cbVars>>

\* Mutant: the loop hands on the channel's element index, not its id.
FcReceiveWrongId(h) ==
  /\ fcpc = "recv" /\ hpc[h] = "send"
  /\ hpc' = [hpc EXCEPT ![h] = "done"]
  /\ IF hgw[h] \in AlwaysSubscribe
       THEN fcpc' = "exited" /\ UNCHANGED fcgw
       ELSE fcpc' = "lock" /\ fcgw' = h
  /\ UNCHANGED <<present, hgw, npull, swpc, spending, ncleanup, mpc, mtodo,
                 fdpc, fdgw, connVars, cbVars>>

\* onConnectedLoop receives a connect event; an always-subscribe id makes
\* it break out of the range loop, ending the goroutine.
FcReceive(h) ==
  /\ fcpc = "recv" /\ hpc[h] = "send"
  /\ hpc' = [hpc EXCEPT ![h] = "done"]
  /\ IF hgw[h] \in AlwaysSubscribe
       THEN fcpc' = "exited" /\ UNCHANGED fcgw
       ELSE fcpc' = "lock" /\ fcgw' = hgw[h]
  /\ UNCHANGED <<present, hgw, npull, swpc, spending, ncleanup, mpc, mtodo,
                 fdpc, fdgw, connVars, cbVars>>

FcLock ==
  /\ fcpc = "lock" /\ Claim(FcId) /\ fcpc' = "sub"
  /\ UNCHANGED <<srcVars, mpc, mtodo, fcgw, fdpc, fdgw, irl, connected,
                 subs, igw, cbVars>>

\* Mutant: SubscribeGateway without its deferred b.Unlock().
FcSubscribeNoUnlock ==
  /\ fcpc = "sub" /\ InCS(FcId) /\ UNCHANGED iwl
  /\ SubscribeBody(fcgw) /\ fcpc' = "recv"
  /\ UNCHANGED <<srcVars, mpc, mtodo, fcgw, fdpc, fdgw, irl, connected,
                 cbVars>>

\* SubscribeGateway; an error is only logged.
FcSubscribe ==
  /\ fcpc = "sub" /\ InCS(FcId) /\ Release
  /\ SubscribeBody(fcgw) /\ fcpc' = "recv"
  /\ UNCHANGED <<srcVars, mpc, mtodo, fcgw, fdpc, fdgw, irl, connected,
                 cbVars>>

\* Mutant: onDisconnectedLoop without the alwaysSubscribe check.
FdReceiveNoAlwaysCheck(g) ==
  /\ fdpc = "recv" /\ swpc = "send" /\ g \in spending
  /\ spending' = spending \ {g}
  /\ swpc' = IF spending = {g} THEN "sleep" ELSE "send"
  /\ fdpc' = "lock" /\ fdgw' = g
  /\ UNCHANGED <<present, hpc, hgw, npull, ncleanup, mpc, mtodo, fcpc, fcgw,
                 connVars, cbVars>>

\* onDisconnectedLoop receives a disconnect event from the sweeper; the
\* same break on an always-subscribe id.
FdReceive(g) ==
  /\ fdpc = "recv" /\ swpc = "send" /\ g \in spending
  /\ spending' = spending \ {g}
  /\ swpc' = IF spending = {g} THEN "sleep" ELSE "send"
  /\ IF g \in AlwaysSubscribe
       THEN fdpc' = "exited" /\ UNCHANGED fdgw
       ELSE fdpc' = "lock" /\ fdgw' = g
  /\ UNCHANGED <<present, hpc, hgw, npull, ncleanup, mpc, mtodo, fcpc, fcgw,
                 connVars, cbVars>>

FdLock ==
  /\ fdpc = "lock" /\ Claim(FdId) /\ fdpc' = "sub"
  /\ UNCHANGED <<srcVars, mpc, mtodo, fcpc, fcgw, fdgw, irl, connected,
                 subs, igw, cbVars>>

\* UnsubscribeGateway; an error is only logged.
FdUnsubscribe ==
  /\ fdpc = "sub" /\ InCS(FdId) /\ Release
  /\ UnsubscribeBody(fdgw) /\ fdpc' = "recv"
  /\ UNCHANGED <<srcVars, mpc, mtodo, fcpc, fcgw, fdgw, irl, connected,
                 cbVars>>

-----------------------------------------------------------------------------
(* The paho callbacks and reconnectLoop.                                   *)

\* The broker connection drops; with SetAutoReconnect(false) paho starts
\* OnConnectionLost (b.onConnectionLost, which runs connectLoop).
LoseConnection ==
  /\ connected /\ nlost < MaxLosses
  /\ nlost' = nlost + 1 /\ lpc' = [lpc EXCEPT ![nlost + 1] = "lock"]
  /\ connected' = FALSE /\ subs' = {}
  /\ UNCHANGED <<srcVars, fwdVars, irl, iwl, igw, nfail, rpc, nrec, opc,
                 otodo>>

LostLock(k) ==
  /\ lpc[k] = "lock" /\ Claim(LostId(k))
  /\ lpc' = [lpc EXCEPT ![k] = "connect"]
  /\ UNCHANGED <<srcVars, fwdVars, irl, connected, subs, igw, nlost, nfail,
                 rpc, nrec, opc, otodo>>

\* connectLoop: connect(); on error sleep 2 s and call connect() again.
LostConnect(k) ==
  /\ lpc[k] = "connect" /\ InCS(LostId(k)) /\ Release
  /\ \/ ConnectOK(<<"lost", k>>) /\ lpc' = [lpc EXCEPT ![k] = "done"]
     \/ ConnectFail /\ lpc' = [lpc EXCEPT ![k] = "lock"]
  /\ UNCHANGED <<srcVars, fwdVars, irl, igw, nlost, rpc, nrec, otodo>>

\* reconnectLoop: b.closed is read without the lock (Close is never called
\* by run(), so it reads FALSE), then sleep ReconnectAfter().
RWake ==
  /\ rpc = "sleep" /\ nrec < MaxReconnects
  /\ rpc' = "dlock" /\ nrec' = nrec + 1
  /\ UNCHANGED <<srcVars, fwdVars, connVars, lpc, nlost, nfail, opc, otodo>>

RDiscLock ==
  /\ rpc = "dlock" /\ Claim(RcId) /\ rpc' = "disc"
  /\ UNCHANGED <<srcVars, fwdVars, irl, connected, subs, igw, lpc, nlost,
                 nfail, nrec, opc, otodo>>

\* disconnect(): b.conn.Disconnect(250) under b.Lock(); paho does not call
\* OnConnectionLost for a requested disconnect.
RDisconnect ==
  /\ rpc = "disc" /\ InCS(RcId) /\ Release
  /\ connected' = FALSE /\ subs' = {} /\ rpc' = "clock"
  /\ UNCHANGED <<srcVars, fwdVars, irl, igw, lpc, nlost, nfail, nrec, opc,
                 otodo>>

RConnLock ==
  /\ rpc = "clock" /\ Claim(RcId) /\ rpc' = "connect"
  /\ UNCHANGED <<srcVars, fwdVars, irl, connected, subs, igw, lpc, nlost,
                 nfail, nrec, opc, otodo>>

RConnect ==
  /\ rpc = "connect" /\ InCS(RcId) /\ Release
  /\ \/ ConnectOK(<<"rc", nrec>>) /\ rpc' = "sleep"
     \/ ConnectFail /\ rpc' = "clock"
  /\ UNCHANGED <<srcVars, fwdVars, irl, igw, lpc, nlost, nrec, otodo>>

\* onConnected: b.RLock(), then range over b.gateways.
OCRLock(o) ==
  /\ opc[o] = "rlock" /\ iwl = NoOne
  /\ irl' = irl \cup {o}
  /\ opc' = [opc EXCEPT ![o] = "sub"] /\ otodo' = [otodo EXCEPT ![o] = igw]
  /\ UNCHANGED <<srcVars, fwdVars, iwl, connected, subs, igw, lpc, nlost,
                 nfail, rpc, nrec>>

\* subscribeGateway(id) on the current b.conn; on error it sleeps 1 s and
\* retries the same id, still holding the read lock, so while b.conn is
\* not connected the goroutine makes no progress.
OCSubscribe(o) ==
  /\ opc[o] = "sub" /\ connected
  /\ \E g \in otodo[o] :
       /\ subs' = subs \cup {g}
       /\ otodo' = [otodo EXCEPT ![o] = otodo[o] \ {g}]
  /\ UNCHANGED <<srcVars, fwdVars, irl, iwl, connected, igw, lpc, nlost,
                 nfail, rpc, nrec, opc>>

OCDone(o) ==
  /\ opc[o] = "sub" /\ otodo[o] = {}
  /\ irl' = irl \ {o} /\ opc' = [opc EXCEPT ![o] = "done"]
  /\ UNCHANGED <<srcVars, fwdVars, iwl, connected, subs, igw, lpc, nlost,
                 nfail, rpc, nrec, otodo>>

-----------------------------------------------------------------------------

\* log.Fatal in run() ends the process.
Exited == mpc = "fatal"

\* Every goroutine is blocked on a receive or has returned, and no event or
\* callback is pending.
Finished ==
  \/ Exited
  \/ /\ mpc = "done"
     /\ \A h \in Handlers : hpc[h] # "send"
     /\ swpc = "sleep"
     /\ fcpc \in {"recv", "exited"} /\ fdpc \in {"recv", "exited"}
     /\ \A k \in 1..MaxLosses : lpc[k] \in {"idle", "done"}
     /\ rpc \in {"sleep", "exited"}
     /\ \A o \in OCs : opc[o] \in {"idle", "done"}

Terminating == Finished /\ UNCHANGED vars

Source ==
  \/ \E g \in Gateways : PullData(g)
  \/ Cleanup

Forwarder ==
  \/ SetupLock \/ SetupSubscribe \/ SetupStartLoops
  \/ \E h \in Handlers : FcReceive(h)
  \/ FcLock \/ FcSubscribe
  \/ \E g \in Gateways : FdReceive(g)
  \/ FdLock \/ FdUnsubscribe

Callbacks ==
  \/ LoseConnection
  \/ \E k \in 1..MaxLosses : LostLock(k) \/ LostConnect(k)
  \/ RWake \/ RDiscLock \/ RDisconnect \/ RConnLock \/ RConnect
  \/ \E o \in OCs : OCRLock(o) \/ OCSubscribe(o) \/ OCDone(o)

Next ==
  \/ ~Exited /\ (Source \/ Forwarder \/ Callbacks)
  \/ Terminating

\* The Go scheduler runs every runnable goroutine (weak fairness on each);
\* reconnectLoop's timer fires.  Arrivals, silences and lost connections
\* are not forced.
Fairness ==
  /\ WF_vars(~Exited /\ (SetupLock \/ SetupSubscribe \/ SetupStartLoops))
  /\ \A h \in Handlers : WF_vars(~Exited /\ FcReceive(h))
  /\ WF_vars(~Exited /\ (FcLock \/ FcSubscribe))
  /\ \A g \in Gateways : WF_vars(~Exited /\ FdReceive(g))
  /\ WF_vars(~Exited /\ (FdLock \/ FdUnsubscribe))
  /\ \A k \in 1..MaxLosses : WF_vars(~Exited /\ (LostLock(k) \/ LostConnect(k)))
  /\ WF_vars(~Exited /\ (RWake \/ RDiscLock \/ RDisconnect \/ RConnLock \/ RConnect))
  /\ \A o \in OCs : WF_vars(~Exited /\ (OCRLock(o) \/ OCSubscribe(o) \/ OCDone(o)))

Spec == Init /\ [][Next]_vars /\ Fairness

-----------------------------------------------------------------------------
(* Properties.                                                             *)

\* No onConnected goroutine is pending or re-subscribing and b.conn is up.
Settled == connected /\ \A o \in OCs : opc[o] \in {"idle", "done"}

\* Nothing of the lifecycle path is in flight.
Quiescent ==
  /\ Settled /\ mpc = "done"
  /\ \A h \in Handlers : hpc[h] # "send"
  /\ swpc = "sleep" /\ fcpc = "recv" /\ fdpc = "recv"
  /\ \A k \in 1..MaxLosses : lpc[k] \in {"idle", "done"}
  /\ rpc \in {"sleep", "exited"}

\* Once the connection has settled, the command topics subscribed on b.conn
\* are exactly the ids in b.gateways: onConnected restores what connect()
\* dropped, SubscribeGateway/UnsubscribeGateway change both together.
BrokerMatchesKnownSet == Settled => subs = igw

\* Spec section 8: an always-subscribe id, subscribed by Setup, is never
\* unsubscribed because of a disconnect event.
AlwaysSubscribedKept == mpc = "done" => AlwaysSubscribe \subseteq igw

\* A handler that sends a connect event on the unbuffered connect channel
\* (gateways.set for a new id) eventually has it received by
\* onConnectedLoop; otherwise it blocks forever holding the backend's RLock.
ConnectEventsDelivered ==
  \A h \in Handlers : hpc[h] = "send" ~> hpc[h] = "done"

\* Spec sections 2 and 4.6: the lifecycle path drives subscriptions, so when
\* nothing is in flight every id the registry holds is in b.gateways and
\* every id it dropped is not (always-subscribe ids excepted).
SubscriptionsFollowRegistry ==
  Quiescent =>
    \A g \in Gateways \ AlwaysSubscribe : present[g] <=> g \in igw

\* Spec section 4.5: a lost broker connection is restored (onConnectionLost
\* runs connectLoop), unless the process has exited.
ConnectionRestored ==
  (~connected /\ ~Exited) ~> (connected \/ Exited)


-----------------------------------------------------------------------------
(* Refinement of the integration's promise (module MQTTSubscriptions).     *)

\* The link as the abstract specification sees it: b.conn down; connected
\* while an onConnected goroutine is pending or re-subscribing; settled.
Link == IF ~connected THEN "down" ELSE IF Settled THEN "up" ELSE "restoring"

Subscriptions ==
  INSTANCE MQTTSubscriptions WITH known <- igw, link <- Link, subs <- subs

\* The integration implements MQTTSubscriptions: b.gateways changes only
\* through SubscribeGateway/UnsubscribeGateway on a connected client, and
\* the last onConnected to finish leaves the broker holding exactly
\* b.gateways.
ImplementsSubscriptions == Subscriptions!ASpec

=============================================================================
