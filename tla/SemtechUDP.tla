----------------------------- MODULE SemtechUDP -----------------------------
(***************************************************************************)
(* The Semtech UDP packet-forwarder backend (package semtechudp, Backend). *)
(*                                                                         *)
(* Goroutines modelled, each with its own program counter:                *)
(*  - one handler per received datagram (readPackets spawns handlePacket), *)
(*  - the writer sendPackets draining the unbuffered udpSendChan,          *)
(*  - the registry sweeper (gateways.cleanup, once a minute),              *)
(*  - one caller per SendDownlinkFrame and per ApplyConfiguration (the     *)
(*    forwarder starts a goroutine per MQTT command),                      *)
(*  - the caller of Close.                                                 *)
(* The Backend's sync.RWMutex is modelled with Go's writer preference: a  *)
(* writer that called Lock() blocks every later RLock() while it waits    *)
(* for the readers already inside to leave.                                *)
(*                                                                         *)
(* The channels towards the forwarder (connect, notifyMac, stats, uplink,  *)
(* txack, disconnect) are unbuffered; in this module their receiver, the   *)
(* forwarder loop, is always ready, so a send is one step.  Data is        *)
(* abstracted to what the properties tell apart: a datagram is a record   *)
(* of its type, gateway, source address, protocol version and token.      *)
(***************************************************************************)
EXTENDS Integers, Sequences, FiniteSets

CONSTANTS
  Gateways,       \* gateway EUIs (model values)
  Configured,     \* gateways with a [[backend.semtech_udp.configuration]] entry
  Addrs,          \* UDP source addresses
  ProtoVersions,  \* packet-forwarder protocol versions (1 and 2)
  Versions,       \* configuration versions sent by the network server
  NoVersion,      \* the empty currentVersion of a configuration never applied
  PacketKinds,    \* packet types a gateway may send, "BAD" for undecodable
  MaxPackets,     \* bound: datagrams received
  MaxUplinks,     \* bound: rxpk records in one PUSH_DATA
  MaxDownlinks,   \* bound: SendDownlinkFrame calls
  MaxApplies,     \* bound: ApplyConfiguration calls
  MayClose,       \* whether some caller invokes Backend.Close
  MayCloseFail    \* whether conn.Close() may return an error in Close

ASSUME ConstantsAssumption ==
  /\ Gateways # {} /\ Addrs # {} /\ ProtoVersions # {} /\ Versions # {}
  /\ PacketKinds # {}
  /\ Configured \subseteq Gateways
  /\ NoVersion \notin Versions
  /\ PacketKinds \subseteq {"PULL_DATA", "PUSH_DATA", "TX_ACK", "BAD"}
  /\ MaxPackets \in Nat /\ MaxUplinks \in Nat
  /\ MaxDownlinks \in Nat /\ MaxApplies \in Nat
  /\ MayClose \in BOOLEAN /\ MayCloseFail \in BOOLEAN

Handlers  == 1..MaxPackets     \* one goroutine per received datagram
Downlinks == 1..MaxDownlinks   \* one goroutine per SendDownlinkFrame call
Appliers  == 1..MaxApplies     \* one goroutine per ApplyConfiguration call
CloseId   == 0                 \* the goroutine calling Close
Writers   == Appliers \cup {CloseId}   \* callers of b.Lock()
NoOne     == -1

Packet ==
  [kind: PacketKinds, gw: Gateways, addr: Addrs, pver: ProtoVersions,
   stats: BOOLEAN, up: 0..MaxUplinks]

\* A datagram written by sendPackets: an ACK echoes the request's token (the
\* handler id), a PULL_RESP carries the low 16 bits of the frame's token
\* (the downlink id).
Datagram ==
  [type: {"PULL_ACK", "PUSH_ACK", "PULL_RESP"}, to: Addrs,
   pver: ProtoVersions, token: Nat]

\* A registry entry: address, protocol version and whether lastSeen is
\* older than the 30 s cleanup duration.
Entry == [addr: Addrs, pver: ProtoVersions, stale: BOOLEAN]
NoEntry == [none |-> TRUE]

HandlerPCs == {"idle", "rlock", "dispatch", "connect", "ack", "notify",
               "stats", "uplink", "txack", "done"}
\* Program counters at which a handler holds the read lock.
Holding == HandlerPCs \ {"idle", "rlock", "done"}
\* Program counters a handler reaches only after it checked b.closed.
PastCheck == Holding \ {"dispatch"}

VARIABLES
  closed,          \* b.closed
  chanClosed,      \* conn and udpSendChan closed by Close
  rlocks,          \* handlers holding b.RLock()
  wlock,           \* the writer that owns b.Lock(), or NoOne
  nrecv,           \* datagrams received so far (handlers 1..nrecv exist)
  pkt,             \* pkt[h]: the datagram handler h works on
  hpc,             \* handler program counters
  hup,             \* uplink frames handler h has still to send
  reg,             \* the gateway registry: gateway -> Entry or NoEntry
  spc,             \* sweeper: "sleep" or "disconnect"
  spending,        \* gateways removed by cleanup, disconnect not yet sent
  wpc,             \* writer: "recv", "write" or "exited"
  wbuf,            \* datagram the writer received and is writing
  wire,            \* datagrams written to the socket, in order
  ndl,             \* SendDownlinkFrame calls so far
  dgw,             \* dgw[d]: target gateway of downlink d
  dpc,             \* downlink caller program counters
  dhold,           \* registry entry downlink d looked up
  nap,             \* ApplyConfiguration calls so far
  areq,            \* areq[a]: [gw, version] of apply a
  apc,             \* apply caller program counters
  cpc,             \* Close caller program counter
  currentVersion,  \* b.configurations[i].currentVersion, per gateway
  cfgFile,         \* version written to the gateway's output_file
  running,         \* version the packet-forwarder loaded at its last restart
  panicked         \* a goroutine sent on the closed udpSendChan

lockVars == <<rlocks, wlock>>
handlerVars == <<nrecv, pkt, hpc, hup>>
writerVars == <<wpc, wbuf, wire>>
dlVars == <<ndl, dgw, dpc, dhold>>
applyVars == <<nap, areq, apc, currentVersion, cfgFile, running>>
vars == <<closed, chanClosed, lockVars, handlerVars, reg, spc, spending,
          writerVars, dlVars, applyVars, cpc, panicked>>

-----------------------------------------------------------------------------
(* Helpers                                                                 *)

IsPush(h) == pkt[h].kind = "PUSH_DATA"

\* Handler h moves on; at "done" the deferred b.RUnlock() runs.
HGoto(h, to) ==
  /\ hpc' = [hpc EXCEPT ![h] = to]
  /\ rlocks' = IF to = "done" THEN rlocks \ {h} ELSE rlocks

\* Seeded fault: the frame count tested with >= instead of >, so a
\* PUSH_DATA without rxpk still enters the uplink loop.
AfterStatsOffByOne(h) == IF hup[h] >= 0 THEN "uplink" ELSE "done"

\* What a PUSH_DATA handler does after an event: handleStats is followed by
\* handleUplinkFrames, which sends the remaining uplink frames.
AfterStats(h) == IF hup[h] > 0 THEN "uplink" ELSE "done"

\* b.udpSendChan <- p: a send on the closed channel panics, otherwise the
\* writer, waiting in its range loop, receives p.
SendUDP(p) ==
  IF chanClosed
  THEN /\ panicked' = TRUE
       /\ UNCHANGED <<wpc, wbuf>>
  ELSE /\ wpc = "recv"
       /\ wbuf' = p
       /\ wpc' = "write"
       /\ UNCHANGED panicked

-----------------------------------------------------------------------------
Init ==
  /\ closed = FALSE
  /\ chanClosed = FALSE
  /\ rlocks = {}
  /\ wlock = NoOne
  /\ nrecv = 0
  /\ pkt = [h \in Handlers |-> CHOOSE p \in Packet : TRUE]
  /\ hpc = [h \in Handlers |-> "idle"]
  /\ hup = [h \in Handlers |-> 0]
  /\ reg = [g \in Gateways |-> NoEntry]
  /\ spc = "sleep"
  /\ spending = {}
  /\ wpc = "recv"
  /\ wbuf = [type |-> "PULL_ACK", to |-> CHOOSE a \in Addrs : TRUE,
              pver |-> CHOOSE v \in ProtoVersions : TRUE, token |-> 0]
  /\ wire = <<>>
  /\ ndl = 0
  /\ dgw = [d \in Downlinks |-> CHOOSE g \in Gateways : TRUE]
  /\ dpc = [d \in Downlinks |-> "idle"]
  /\ dhold = [d \in Downlinks |-> NoEntry]
  /\ nap = 0
  /\ areq = [a \in Appliers |-> [gw |-> CHOOSE g \in Gateways : TRUE,
                                 version |-> CHOOSE v \in Versions : TRUE]]
  /\ apc = [a \in Appliers |-> "idle"]
  /\ cpc = "idle"
  /\ currentVersion = [g \in Configured |-> NoVersion]
  /\ cfgFile = [g \in Configured |-> NoVersion]
  /\ running = [g \in Configured |-> NoVersion]
  /\ panicked = FALSE

-----------------------------------------------------------------------------
(* readPackets: ReadFromUDP returns a datagram while the socket is open;  *)
(* a goroutine running handlePacket is started for it.                     *)

\* Only PUSH_DATA carries a stat object and rxpk records.
Packets == {p \in Packet : p.kind # "PUSH_DATA" => (~p.stats /\ p.up = 0)}

Receive ==
  /\ ~chanClosed
  /\ nrecv < MaxPackets
  /\ \E p \in Packets :
       /\ nrecv' = nrecv + 1
       /\ pkt' = [pkt EXCEPT ![nrecv + 1] = p]
       /\ hpc' = [hpc EXCEPT ![nrecv + 1] = "rlock"]
       /\ hup' = [hup EXCEPT ![nrecv + 1] = p.up]
  /\ UNCHANGED <<closed, chanClosed, lockVars, reg, spc, spending, writerVars, dlVars,
                 applyVars, cpc, panicked>>

(* handlePacket: b.RLock(), held until the handler returns.               *)
HRLock(h) ==
  /\ hpc[h] = "rlock"
  /\ wlock = NoOne
  /\ rlocks' = rlocks \cup {h}
  /\ hpc' = [hpc EXCEPT ![h] = "dispatch"]
  /\ UNCHANGED <<closed, chanClosed, wlock, nrecv, pkt, hup, reg, spc, spending,
                 writerVars, dlVars, applyVars, cpc, panicked>>

\* The unchanged part of a handler step that touches only hpc and rlocks.
HUnchanged ==
  UNCHANGED <<closed, chanClosed, wlock, nrecv, pkt, hup, reg, spc, spending,
              writerVars, dlVars, applyVars, cpc, panicked>>

DropPacket(h) ==
  /\ hpc[h] = "dispatch"
  /\ closed \/ pkt[h].kind = "BAD"
  /\ HGoto(h, "done")
  /\ HUnchanged

HandlePullData(h) ==
  LET p == pkt[h] IN
  /\ hpc[h] = "dispatch"
  /\ ~closed
  /\ p.kind = "PULL_DATA"
  /\ reg' = [reg EXCEPT ![p.gw] = [addr |-> p.addr, pver |-> p.pver,
                                    stale |-> FALSE]]
  /\ HGoto(h, IF reg[p.gw] = NoEntry THEN "connect" ELSE "ack")
  /\ UNCHANGED <<closed, chanClosed, wlock, nrecv, pkt, hup, spc, spending,
                 writerVars, dlVars, applyVars, cpc, panicked>>

(* handlePushData: decode, then the PUSH_ACK, then stats, then uplinks.   *)
HandlePushData(h) ==
  /\ hpc[h] = "dispatch"
  /\ ~closed
  /\ IsPush(h)
  /\ HGoto(h, "ack")
  /\ HUnchanged

(* handleTXACK: one DownlinkTXAck on downlinkTXAckChan.                   *)
HandleTXACK(h) ==
  /\ hpc[h] = "dispatch"
  /\ ~closed
  /\ pkt[h].kind = "TX_ACK"
  /\ HGoto(h, "txack")
  /\ HUnchanged

\* gateways.set: the connect event for a gateway that was absent.
EmitConnect(h) ==
  /\ hpc[h] = "connect"
  /\ HGoto(h, "ack")
  /\ HUnchanged

\* The PULL_ACK / PUSH_ACK with the request's version and token, on
\* udpSendChan, to the address the request came from.
SendAck(h) ==
  LET p == pkt[h] IN
  /\ hpc[h] = "ack"
  /\ SendUDP([type |-> IF IsPush(h) THEN "PUSH_ACK" ELSE "PULL_ACK",
              to |-> p.addr, pver |-> p.pver, token |-> h])
  /\ HGoto(h, IF ~IsPush(h) THEN "notify"
              ELSE IF p.stats THEN "stats" ELSE AfterStats(h))
  /\ UNCHANGED <<closed, chanClosed, wlock, nrecv, pkt, hup, reg, spc, spending,
                 wire, dlVars, applyVars, cpc>>

\* handlePullData: notifyMacChan <- GatewayStats{GatewayId}.
EmitNotifyMac(h) ==
  /\ hpc[h] = "notify"
  /\ HGoto(h, "done")
  /\ HUnchanged

\* handleStats: the stats, with ConfigVersion = currentVersion, on
\* gatewayStatsChan.
EmitStats(h) ==
  /\ hpc[h] = "stats"
  /\ HGoto(h, AfterStats(h))
  /\ HUnchanged

\* handleUplinkFrames: each frame, with the tracing carrier, on
\* uplinkFrameChan.
EmitUplink(h) ==
  /\ hpc[h] = "uplink"
  /\ hup' = [hup EXCEPT ![h] = @ - 1]
  /\ HGoto(h, IF hup[h] = 1 THEN "done" ELSE "uplink")
  /\ UNCHANGED <<closed, chanClosed, wlock, nrecv, pkt, reg, spc, spending,
                 writerVars, dlVars, applyVars, cpc, panicked>>

\* handleTXACK: the DownlinkTXAck on downlinkTXAckChan.
EmitTXAck(h) ==
  /\ hpc[h] = "txack"
  /\ HGoto(h, "done")
  /\ HUnchanged

Handler(h) ==
  \/ HRLock(h) \/ DropPacket(h) \/ HandlePullData(h) \/ HandlePushData(h)
  \/ HandleTXACK(h) \/ EmitConnect(h) \/ SendAck(h) \/ EmitNotifyMac(h)
  \/ EmitStats(h) \/ EmitUplink(h) \/ EmitTXAck(h)

-----------------------------------------------------------------------------
(* sendPackets: the writer goroutine ranges over udpSendChan and writes   *)
(* each datagram with WriteToUDP; once conn is closed the write fails and *)
(* is only logged.  The range loop ends when udpSendChan is closed.       *)

WriteUDP ==
  /\ wpc = "write"
  /\ wire' = IF chanClosed THEN wire ELSE Append(wire, wbuf)
  /\ wpc' = "recv"
  /\ UNCHANGED <<closed, chanClosed, lockVars, handlerVars, reg, spc, spending, wbuf,
                 dlVars, applyVars, cpc, panicked>>

WriterExit ==
  /\ wpc = "recv"
  /\ chanClosed
  /\ wpc' = "exited"
  /\ UNCHANGED <<closed, chanClosed, lockVars, handlerVars, reg, spc, spending, wbuf,
                 wire, dlVars, applyVars, cpc, panicked>>

-----------------------------------------------------------------------------
(* The gateway registry and its sweeper (gateways.go, modelled from the   *)
(* spec).  Silence(g) is the passing of 30 s without a PULL_DATA from g;  *)
(* cleanup removes the stale entries under the registry lock and then     *)
(* sends one disconnect event per removed gateway.                        *)

Silence(g) ==
  /\ reg[g] # NoEntry
  /\ ~reg[g].stale
  /\ reg' = [reg EXCEPT ![g].stale = TRUE]
  /\ UNCHANGED <<closed, chanClosed, lockVars, handlerVars, spc, spending, writerVars,
                 dlVars, applyVars, cpc, panicked>>

Cleanup ==
  LET gone == {g \in Gateways : reg[g] # NoEntry /\ reg[g].stale} IN
  /\ spc = "sleep"
  /\ gone # {}
  /\ reg' = [g \in Gateways |-> IF g \in gone THEN NoEntry ELSE reg[g]]
  /\ spending' = gone
  /\ spc' = "disconnect"
  /\ UNCHANGED <<closed, chanClosed, lockVars, handlerVars, writerVars, dlVars,
                 applyVars, cpc, panicked>>

EmitDisconnect ==
  /\ spc = "disconnect"
  /\ \E g \in spending :
       /\ spending' = spending \ {g}
       /\ spc' = IF spending = {g} THEN "sleep" ELSE "disconnect"
  /\ UNCHANGED <<closed, chanClosed, lockVars, handlerVars, reg, writerVars, dlVars,
                 applyVars, cpc, panicked>>

-----------------------------------------------------------------------------
(* SendDownlinkFrame: gateways.get (error "gateway does not exist" when  *)
(* absent), then the PULL_RESP to the stored address with the stored     *)
(* protocol version, sent on udpSendChan without holding b's lock.        *)

CallSendDownlinkFrame ==
  /\ ndl < MaxDownlinks
  /\ \E g \in Gateways :
       /\ ndl' = ndl + 1
       /\ dgw' = [dgw EXCEPT ![ndl + 1] = g]
       /\ dpc' = [dpc EXCEPT ![ndl + 1] = "get"]
  /\ UNCHANGED <<closed, chanClosed, lockVars, handlerVars, reg, spc, spending,
                 writerVars, dhold, applyVars, cpc, panicked>>

DLGet(d) ==
  /\ dpc[d] = "get"
  /\ dhold' = [dhold EXCEPT ![d] = reg[dgw[d]]]
  /\ dpc' = [dpc EXCEPT ![d] = IF reg[dgw[d]] = NoEntry THEN "done" ELSE "send"]
  /\ UNCHANGED <<closed, chanClosed, lockVars, handlerVars, reg, spc, spending,
                 writerVars, ndl, dgw, applyVars, cpc, panicked>>

DLSend(d) ==
  /\ dpc[d] = "send"
  /\ SendUDP([type |-> "PULL_RESP", to |-> dhold[d].addr,
              pver |-> dhold[d].pver, token |-> d])
  /\ dpc' = [dpc EXCEPT ![d] = "done"]
  /\ UNCHANGED <<closed, chanClosed, lockVars, handlerVars, reg, spc, spending, wire,
                 ndl, dgw, dhold, applyVars, cpc>>

-----------------------------------------------------------------------------
(* ApplyConfiguration: under b.Lock() find the pfConfiguration of the     *)
(* gateway (errGatewayDoesNotExist when none); then, without the lock,   *)
(* applyConfiguration writes output_file and invokes restart_command;    *)
(* each may fail, which ends the call.  Last, under b.Lock() again,      *)
(* currentVersion is set.  A Lock() call first waits for the lock to be  *)
(* free (wlock); its critical section runs once no reader is inside.     *)

CallApplyConfiguration ==
  /\ nap < MaxApplies
  /\ \E g \in Gateways, v \in Versions :
       /\ nap' = nap + 1
       /\ areq' = [areq EXCEPT ![nap + 1] = [gw |-> g, version |-> v]]
       /\ apc' = [apc EXCEPT ![nap + 1] = "lock"]
  /\ UNCHANGED <<closed, chanClosed, lockVars, handlerVars, reg, spc, spending,
                 writerVars, dlVars, currentVersion, cfgFile, running, cpc,
                 panicked>>

\* Applier a at program counter from calls b.Lock() and goes to to.
ALock(a, from, to) ==
  /\ apc[a] = from
  /\ wlock = NoOne
  /\ wlock' = a
  /\ apc' = [apc EXCEPT ![a] = to]
  /\ UNCHANGED <<closed, chanClosed, rlocks, handlerVars, reg, spc, spending, writerVars,
                 dlVars, nap, areq, currentVersion, cfgFile, running, cpc,
                 panicked>>

ALookup(a) ==
  /\ apc[a] = "lookup"
  /\ rlocks = {}
  /\ wlock' = NoOne
  /\ apc' = [apc EXCEPT ![a] = IF areq[a].gw \in Configured THEN "write"
                                                           ELSE "done"]
  /\ UNCHANGED <<closed, chanClosed, rlocks, handlerVars, reg, spc, spending, writerVars,
                 dlVars, nap, areq, currentVersion, cfgFile, running, cpc,
                 panicked>>

\* getGatewayConfig, loadConfigFile, mergeConfig, json.Marshal and
\* ioutil.WriteFile: any of them may fail.
AWriteFile(a) ==
  /\ apc[a] = "write"
  /\ \/ /\ cfgFile' = [cfgFile EXCEPT ![areq[a].gw] = areq[a].version]
        /\ apc' = [apc EXCEPT ![a] = "restart"]
     \/ /\ apc' = [apc EXCEPT ![a] = "done"]
        /\ UNCHANGED cfgFile
  /\ UNCHANGED <<closed, chanClosed, lockVars, handlerVars, reg, spc, spending,
                 writerVars, dlVars, nap, areq, currentVersion, running, cpc,
                 panicked>>

\* invokePFRestart: the packet-forwarder restarts and loads output_file.
ARestart(a) ==
  /\ apc[a] = "restart"
  /\ \/ /\ running' = [running EXCEPT ![areq[a].gw] = cfgFile[areq[a].gw]]
        /\ apc' = [apc EXCEPT ![a] = "lock2"]
     \/ /\ apc' = [apc EXCEPT ![a] = "done"]
        /\ UNCHANGED running
  /\ UNCHANGED <<closed, chanClosed, lockVars, handlerVars, reg, spc, spending,
                 writerVars, dlVars, nap, areq, currentVersion, cfgFile, cpc,
                 panicked>>

ASetVersion(a) ==
  /\ apc[a] = "set"
  /\ rlocks = {}
  /\ currentVersion' = [currentVersion EXCEPT ![areq[a].gw] = areq[a].version]
  /\ wlock' = NoOne
  /\ apc' = [apc EXCEPT ![a] = "done"]
  /\ UNCHANGED <<closed, chanClosed, rlocks, handlerVars, reg, spc, spending, writerVars,
                 dlVars, nap, areq, cfgFile, running, cpc, panicked>>

Applier(a) ==
  \/ ALock(a, "lock", "lookup") \/ ALookup(a) \/ AWriteFile(a)
  \/ ARestart(a) \/ ALock(a, "lock2", "set") \/ ASetVersion(a)

-----------------------------------------------------------------------------
(* Close: b.Lock(); closed = true; conn.Close(); close(udpSendChan);      *)
(* b.Unlock(); wg.Wait() for the reader and the writer goroutines.        *)

CallClose ==
  /\ MayClose
  /\ cpc = "idle"
  /\ cpc' = "lock"
  /\ UNCHANGED <<closed, chanClosed, lockVars, handlerVars, reg, spc, spending,
                 writerVars, dlVars, applyVars, panicked>>

CloseLock ==
  /\ cpc = "lock"
  /\ wlock = NoOne
  /\ wlock' = CloseId
  /\ cpc' = "close"
  /\ UNCHANGED <<closed, chanClosed, rlocks, handlerVars, reg, spc, spending,
                 writerVars, dlVars, applyVars, panicked>>

\* Seeded fault: Close setting b.closed without waiting for the readers,
\* as if it did not take b.Lock().
CloseBackendNoWait ==
  /\ cpc = "close"
  /\ closed' = TRUE
  /\ chanClosed' = TRUE
  /\ wlock' = NoOne
  /\ cpc' = "wait"
  /\ UNCHANGED <<rlocks, handlerVars, reg, spc, spending, writerVars,
                 dlVars, applyVars, panicked>>

CloseBackend ==
  /\ cpc = "close"
  /\ rlocks = {}
  /\ closed' = TRUE
  /\ chanClosed' = TRUE
  /\ wlock' = NoOne
  /\ cpc' = "wait"
  /\ UNCHANGED <<rlocks, handlerVars, reg, spc, spending, writerVars,
                 dlVars, applyVars, panicked>>

CloseWait ==
  /\ cpc = "wait"
  /\ wpc = "exited"
  /\ cpc' = "closed"
  /\ UNCHANGED <<closed, chanClosed, lockVars, handlerVars, reg, spc, spending,
                 writerVars, dlVars, applyVars, panicked>>

\* b.conn.Close() fails: Close has set b.closed and returns the error at
\* once, without closing udpSendChan and without b.Unlock().
CloseFail ==
  /\ MayCloseFail
  /\ cpc = "close"
  /\ rlocks = {}
  /\ closed' = TRUE
  /\ cpc' = "failed"
  /\ UNCHANGED <<chanClosed, lockVars, handlerVars, reg, spc, spending,
                 writerVars, dlVars, applyVars, panicked>>

Closer == CallClose \/ CloseLock \/ CloseBackend \/ CloseFail \/ CloseWait

-----------------------------------------------------------------------------
(* Every bounded input used and every goroutine back at rest: the model   *)
(* stops here (the program would wait for the next datagram).             *)
Finished ==
  /\ nrecv = MaxPackets \/ chanClosed
  /\ \A h \in Handlers : hpc[h] \in {"idle", "done"}
  /\ ndl = MaxDownlinks /\ \A d \in Downlinks : dpc[d] \in {"idle", "done"}
  /\ nap = MaxApplies /\ \A a \in Appliers : apc[a] \in {"idle", "done"}
  /\ cpc \in {"idle", "closed", "failed"}
  /\ wpc # "write"
  /\ spc = "sleep"
  /\ \A g \in Gateways : reg[g] = NoEntry

Terminating == Finished /\ UNCHANGED vars

\* An unrecovered panic ends the process: nothing runs after it.
Next ==
  /\ ~panicked
  /\ \/ Receive
     \/ \E h \in Handlers : Handler(h)
     \/ WriteUDP \/ WriterExit
     \/ \E g \in Gateways : Silence(g)
     \/ Cleanup \/ EmitDisconnect
     \/ CallSendDownlinkFrame
     \/ \E d \in Downlinks : DLGet(d) \/ DLSend(d)
     \/ CallApplyConfiguration
     \/ \E a \in Appliers : Applier(a)
     \/ Closer
     \/ Terminating

\* The Go scheduler eventually runs every runnable goroutine: weak fairness
\* for each goroutine of the backend.  Arrivals of datagrams and calls from
\* the forwarder, and the passing of time, are not forced.
Fairness ==
  /\ \A h \in Handlers : WF_vars(Handler(h))
  /\ WF_vars(WriteUDP) /\ WF_vars(WriterExit)
  /\ WF_vars(Cleanup) /\ WF_vars(EmitDisconnect)
  /\ \A d \in Downlinks : WF_vars(DLGet(d) \/ DLSend(d))
  /\ \A a \in Appliers : WF_vars(Applier(a))
  /\ WF_vars(CloseLock \/ CloseBackend \/ CloseFail \/ CloseWait)

Spec == Init /\ [][Next]_vars /\ Fairness

-----------------------------------------------------------------------------
(* Properties                                                              *)

TypeOK ==
  /\ closed \in BOOLEAN
  /\ chanClosed \in BOOLEAN
  /\ rlocks \subseteq Handlers
  /\ wlock \in Writers \cup {NoOne}
  /\ nrecv \in 0..MaxPackets
  /\ pkt \in [Handlers -> Packet]
  /\ hpc \in [Handlers -> HandlerPCs]
  /\ hup \in [Handlers -> 0..MaxUplinks]
  /\ reg \in [Gateways -> Entry \cup {NoEntry}]
  /\ spc \in {"sleep", "disconnect"}
  /\ spending \subseteq Gateways
  /\ wpc \in {"recv", "write", "exited"}
  /\ wbuf \in Datagram
  /\ wire \in Seq(Datagram)
  /\ ndl \in 0..MaxDownlinks
  /\ dgw \in [Downlinks -> Gateways]
  /\ dpc \in [Downlinks -> {"idle", "get", "send", "done"}]
  /\ dhold \in [Downlinks -> Entry \cup {NoEntry}]
  /\ nap \in 0..MaxApplies
  /\ areq \in [Appliers -> [gw: Gateways, version: Versions]]
  /\ apc \in [Appliers -> {"idle", "lock", "lookup", "write", "restart",
                           "lock2", "set", "done"}]
  /\ cpc \in {"idle", "lock", "close", "wait", "closed", "failed"}
  /\ currentVersion \in [Configured -> Versions \cup {NoVersion}]
  /\ cfgFile \in [Configured -> Versions \cup {NoVersion}]
  /\ running \in [Configured -> Versions \cup {NoVersion}]
  /\ panicked \in BOOLEAN

\* The handler sent the ACK of its PULL_DATA / PUSH_DATA: the writer wrote a
\* datagram of an ACK type carrying the handler's token.
Acked(h) ==
  \E i \in 1..Len(wire) :
    /\ wire[i].type \in {"PULL_ACK", "PUSH_ACK"}
    /\ wire[i].token = h

\* Safety of shutdown (Close against handlePacket): once Close has set
\* b.closed and closed udpSendChan, no packet handler is past its
\* b.closed check, so none can still send its ACK on the closed channel.
\* It rests on handlePacket keeping b.RLock() until it returns and on Close
\* taking b.Lock(), which waits for every reader to leave.
NoHandlerSendsOnClosedChannel ==
  \A h \in Handlers : hpc[h] \in PastCheck => ~closed

NoPanic == ~panicked

\* The ConfigVersion that handleStats reports for a gateway is the version
\* of the configuration its packet-forwarder was last restarted with,
\* whenever no ApplyConfiguration for that gateway is between writing
\* output_file and setting currentVersion.
ReportedVersionIsRunning ==
  \A g \in Configured :
    (\A a \in Appliers :
        ~(apc[a] \in {"restart", "lock2", "set"} /\ areq[a].gw = g))
      => currentVersion[g] = running[g]

=============================================================================
