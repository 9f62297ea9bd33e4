------------------------- MODULE SemtechUDPProofs --------------------------
(***************************************************************************)
(* Proofs about the UDP backend model, for every value of the constants:  *)
(*  - type correctness (TypeOK is invariant), and                         *)
(*  - NoHandlerSendsOnClosedChannel: Close and handlePacket never race on *)
(*    udpSendChan.                                                         *)
(* Neither invariant is inductive as it stands.  TypeOK needs two facts   *)
(* about the program counters (an uplink sender has a frame left, a       *)
(* downlink sender holds a registry entry); the shutdown invariant needs  *)
(* the read-lock discipline: a handler is in rlocks exactly while it runs *)
(* handlePacket past RLock(), which is what lets CloseBackend, enabled   *)
(* only when rlocks is empty, know that no handler is past its check.     *)
(***************************************************************************)
EXTENDS SemtechUDP, TLAPS

\* The counters that make TypeOK inductive.
PCFacts ==
  /\ \A h \in Handlers : hpc[h] = "uplink" => hup[h] > 0
  /\ \A d \in Downlinks : dpc[d] = "send" => dhold[d] \in Entry
  /\ \A a \in Appliers :
       apc[a] \in {"write", "restart", "lock2", "set"} => areq[a].gw \in Configured

TypeInv == TypeOK /\ PCFacts

\* rlocks holds exactly the handlers between RLock() and the deferred
\* RUnlock().
ReadLockDiscipline == \A h \in Handlers : h \in rlocks <=> hpc[h] \in Holding

\* Handlers beyond the datagrams received so far have not started.
NotStarted == \A h \in Handlers : h > nrecv => hpc[h] = "idle"

-----------------------------------------------------------------------------
USE ConstantsAssumption

LEMMA NoEntryNotEntry == NoEntry \notin Entry
  BY DEF NoEntry, Entry

\* The values Init picks with CHOOSE are members of their sets.
LEMMA InitChoices ==
  /\ (CHOOSE p \in Packet : TRUE) \in Packet
  /\ (CHOOSE a \in Addrs : TRUE) \in Addrs
  /\ (CHOOSE v \in ProtoVersions : TRUE) \in ProtoVersions
  /\ (CHOOSE g \in Gateways : TRUE) \in Gateways
  /\ (CHOOSE v \in Versions : TRUE) \in Versions
  <1>1. PICK k \in PacketKinds, g \in Gateways, a \in Addrs, v \in ProtoVersions
          : TRUE
    OBVIOUS
  <1>2. [kind |-> k, gw |-> g, addr |-> a, pver |-> v, stats |-> FALSE,
         up |-> 0] \in Packet
    BY <1>1 DEF Packet
  <1>3. PICK cv \in Versions : TRUE
    OBVIOUS
  <1>4. QED
    BY <1>1, <1>2, <1>3

LEMMA TypeInit == Init => TypeInv
  <1> SUFFICES ASSUME Init PROVE TypeInv
    OBVIOUS
  <1>1. wbuf \in Datagram
    BY InitChoices DEF Init, Datagram
  <1>2. pkt \in [Handlers -> Packet] /\ dgw \in [Downlinks -> Gateways]
        /\ areq \in [Appliers -> [gw: Gateways, version: Versions]]
    BY InitChoices DEF Init
  <1>3. reg \in [Gateways -> Entry \cup {NoEntry}]
        /\ dhold \in [Downlinks -> Entry \cup {NoEntry}]
    BY DEF Init
  <1>4. hpc \in [Handlers -> HandlerPCs] /\ hup \in [Handlers -> 0..MaxUplinks]
    BY DEF Init, HandlerPCs
  <1>5. wire \in Seq(Datagram)
    BY DEF Init
  <1>6. wlock \in Writers \cup {NoOne}
    BY DEF Init, Writers
  <1>7. /\ nrecv \in 0..MaxPackets /\ ndl \in 0..MaxDownlinks
        /\ nap \in 0..MaxApplies
        /\ dpc \in [Downlinks -> {"idle", "get", "send", "done"}]
        /\ apc \in [Appliers -> {"idle", "lock", "lookup", "write", "restart",
                                 "lock2", "set", "done"}]
        /\ currentVersion \in [Configured -> Versions \cup {NoVersion}]
        /\ cfgFile \in [Configured -> Versions \cup {NoVersion}]
        /\ running \in [Configured -> Versions \cup {NoVersion}]
    BY DEF Init
  <1>8. /\ closed \in BOOLEAN /\ chanClosed \in BOOLEAN
        /\ rlocks \subseteq Handlers
         /\ spc \in {"sleep", "disconnect"} /\ spending \subseteq Gateways
         /\ wpc \in {"recv", "write", "exited"}
         /\ cpc \in {"idle", "lock", "close", "wait", "closed", "failed"}
         /\ panicked \in BOOLEAN
    BY DEF Init
  <1>9. TypeOK
    BY <1>1, <1>2, <1>3, <1>4, <1>5, <1>6, <1>7, <1>8 DEF TypeOK
  <1>10. PCFacts
    BY DEF Init, PCFacts
  <1>11. QED
    BY <1>9, <1>10 DEF TypeInv

LEMMA TypeStep == TypeInv /\ [Next]_vars => TypeInv'
  <1> SUFFICES ASSUME TypeInv, [Next]_vars PROVE TypeInv'
    OBVIOUS
  <1> USE DEF TypeInv, TypeOK, PCFacts, lockVars, handlerVars, writerVars,
             dlVars, applyVars
  <1>1. ASSUME NEW h \in Handlers, HRLock(h) PROVE TypeInv'
    BY <1>1 DEF HRLock, HGoto, HUnchanged, HandlerPCs
  <1>2. ASSUME NEW h \in Handlers, DropPacket(h) PROVE TypeInv'
    BY <1>2 DEF DropPacket, HGoto, HUnchanged, HandlerPCs
  <1>3. ASSUME NEW h \in Handlers, HandlePullData(h) PROVE TypeInv'
    <2>1. [addr |-> pkt[h].addr, pver |-> pkt[h].pver, stale |-> FALSE] \in Entry
      BY DEF Packet, Entry
    <2>2. reg' \in [Gateways -> Entry \cup {NoEntry}]
      BY <1>3, <2>1 DEF HandlePullData, Packet
    <2>3. hpc' \in [Handlers -> HandlerPCs]
      BY <1>3 DEF HandlePullData, HGoto, HandlerPCs
    <2>4. QED
      BY <1>3, <2>2, <2>3 DEF HandlePullData, HGoto
  <1>4. ASSUME NEW h \in Handlers, HandlePushData(h) PROVE TypeInv'
    BY <1>4 DEF HandlePushData, HGoto, HUnchanged, HandlerPCs, IsPush
  <1>5. ASSUME NEW h \in Handlers, HandleTXACK(h) PROVE TypeInv'
    BY <1>5 DEF HandleTXACK, HGoto, HUnchanged, HandlerPCs
  <1>6. ASSUME NEW h \in Handlers, EmitConnect(h) PROVE TypeInv'
    BY <1>6 DEF EmitConnect, HGoto, HUnchanged, HandlerPCs
  <1>7. ASSUME NEW h \in Handlers, SendAck(h) PROVE TypeInv'
    <2>1. [type |-> IF IsPush(h) THEN "PUSH_ACK" ELSE "PULL_ACK",
           to |-> pkt[h].addr, pver |-> pkt[h].pver, token |-> h] \in Datagram
      BY DEF Packet, Datagram, Handlers
    <2>2. wbuf' \in Datagram /\ wpc' \in {"recv", "write", "exited"}
          /\ panicked' \in BOOLEAN
      BY <1>7, <2>1 DEF SendAck, SendUDP
    <2>3. hpc' \in [Handlers -> HandlerPCs]
      BY <1>7 DEF SendAck, HGoto, HandlerPCs, AfterStats
    <2>4. hpc'[h] = "uplink" => hup[h] > 0
      BY <1>7 DEF SendAck, HGoto, AfterStats
    <2>5. QED
      BY <1>7, <2>2, <2>3, <2>4 DEF SendAck, HGoto
  <1>8. ASSUME NEW h \in Handlers, EmitNotifyMac(h) PROVE TypeInv'
    BY <1>8 DEF EmitNotifyMac, HGoto, HUnchanged, HandlerPCs
  <1>9. ASSUME NEW h \in Handlers, EmitStats(h) PROVE TypeInv'
    BY <1>9 DEF EmitStats, HGoto, HUnchanged, HandlerPCs, AfterStats
  <1>10. ASSUME NEW h \in Handlers, EmitUplink(h) PROVE TypeInv'
    BY <1>10 DEF EmitUplink, HGoto, HUnchanged, HandlerPCs
  <1>11. ASSUME NEW h \in Handlers, EmitTXAck(h) PROVE TypeInv'
    BY <1>11 DEF EmitTXAck, HGoto, HUnchanged, HandlerPCs
  <1>12. CASE Receive
    <2>1. PICK p \in Packets :
            /\ nrecv' = nrecv + 1
            /\ pkt' = [pkt EXCEPT ![nrecv + 1] = p]
            /\ hpc' = [hpc EXCEPT ![nrecv + 1] = "rlock"]
            /\ hup' = [hup EXCEPT ![nrecv + 1] = p.up]
      BY <1>12 DEF Receive
    <2>2. p \in Packet
      BY DEF Packets
    <2>3. /\ pkt' \in [Handlers -> Packet]
          /\ hpc' \in [Handlers -> HandlerPCs]
          /\ hup' \in [Handlers -> 0..MaxUplinks]
      BY <2>1, <2>2 DEF Packet, HandlerPCs
    <2>4. nrecv' \in 0..MaxPackets
      BY <1>12, <2>1 DEF Receive
    <2>5. \A k \in Handlers : hpc'[k] = "uplink" => hup'[k] > 0
      BY <2>1 DEF HandlerPCs
    <2>6. QED
      BY <1>12, <2>3, <2>4, <2>5 DEF Receive
  <1>13. CASE WriteUDP
    BY <1>13 DEF WriteUDP
  <1>14. CASE WriterExit
    BY <1>14 DEF WriterExit
  <1>15. CASE Cleanup
    BY <1>15 DEF Cleanup
  <1>16. CASE EmitDisconnect
    BY <1>16 DEF EmitDisconnect
  <1>17. CASE CallSendDownlinkFrame
    <2>1. PICK g \in Gateways :
            /\ ndl' = ndl + 1
            /\ dgw' = [dgw EXCEPT ![ndl + 1] = g]
            /\ dpc' = [dpc EXCEPT ![ndl + 1] = "get"]
      BY <1>17 DEF CallSendDownlinkFrame
    <2>2. ndl' \in 0..MaxDownlinks
      BY <1>17, <2>1 DEF CallSendDownlinkFrame
    <2>3. dgw' \in [Downlinks -> Gateways]
      BY <2>1
    <2>4. dpc' \in [Downlinks -> {"idle", "get", "send", "done"}]
      BY <2>1
    <2>5. \A d \in Downlinks : dpc'[d] = "send" => dpc[d] = "send"
      BY <2>1
    <2>6. QED
      BY <1>17, <2>2, <2>3, <2>4, <2>5 DEF CallSendDownlinkFrame
  <1>18. CASE CallApplyConfiguration
    <2>1. PICK g \in Gateways, v \in Versions :
            /\ nap' = nap + 1
            /\ areq' = [areq EXCEPT ![nap + 1] = [gw |-> g, version |-> v]]
            /\ apc' = [apc EXCEPT ![nap + 1] = "lock"]
      BY <1>18 DEF CallApplyConfiguration
    <2>2. nap' \in 0..MaxApplies
      BY <1>18, <2>1 DEF CallApplyConfiguration
    <2>3. areq' \in [Appliers -> [gw: Gateways, version: Versions]]
      BY <2>1
    <2>4. apc' \in [Appliers -> {"idle", "lock", "lookup", "write",
                                "restart", "lock2", "set", "done"}]
      BY <2>1
    <2>5. \A a \in Appliers :
            apc'[a] \in {"write", "restart", "lock2", "set"}
              => areq'[a] = areq[a] /\ apc[a] = apc'[a]
      BY <2>1
    <2>6. QED
      BY <1>18, <2>2, <2>3, <2>4, <2>5 DEF CallApplyConfiguration
  <1>19. CASE CallClose
    BY <1>19 DEF CallClose
  <1>20. CASE CloseLock
    BY <1>20 DEF CloseLock, Writers
  <1>21. CASE CloseBackend
    BY <1>21 DEF CloseBackend, NoOne, Writers
  <1>22. CASE CloseFail
    BY <1>22 DEF CloseFail
  <1>23. CASE CloseWait
    BY <1>23 DEF CloseWait
  <1>24. ASSUME NEW g \in Gateways, Silence(g) PROVE TypeInv'
    <2>1. reg[g] \in Entry
      BY <1>24 DEF Silence
    <2>2. [reg[g] EXCEPT !.stale = TRUE] \in Entry
      BY <2>1 DEF Entry
    <2>3. reg' \in [Gateways -> Entry \cup {NoEntry}]
      BY <1>24, <2>2 DEF Silence
    <2>4. QED
      BY <1>24, <2>3 DEF Silence
  <1>25. ASSUME NEW d \in Downlinks, DLGet(d) PROVE TypeInv'
    BY <1>25 DEF DLGet
  <1>26. ASSUME NEW d \in Downlinks, DLSend(d) PROVE TypeInv'
    <2>1. dhold[d] \in Entry
      BY <1>26 DEF DLSend
    <2>2. [type |-> "PULL_RESP", to |-> dhold[d].addr, pver |-> dhold[d].pver,
           token |-> d] \in Datagram
      BY <2>1 DEF Entry, Datagram, Downlinks
    <2>3. wbuf' \in Datagram /\ wpc' \in {"recv", "write", "exited"}
          /\ panicked' \in BOOLEAN
      BY <1>26, <2>2 DEF DLSend, SendUDP
    <2>4. QED
      BY <1>26, <2>3 DEF DLSend
  <1>27. ASSUME NEW a \in Appliers, ALock(a, "lock", "lookup") PROVE TypeInv'
    BY <1>27 DEF ALock, Writers
  <1>28. ASSUME NEW a \in Appliers, ALookup(a) PROVE TypeInv'
    BY <1>28 DEF ALookup, NoOne, Writers
  <1>29. ASSUME NEW a \in Appliers, AWriteFile(a) PROVE TypeInv'
    <2>1. areq[a].gw \in Configured /\ areq[a].version \in Versions
      BY <1>29 DEF AWriteFile
    <2>2. cfgFile' \in [Configured -> Versions \cup {NoVersion}]
      BY <1>29, <2>1 DEF AWriteFile
    <2>3. apc' \in [Appliers -> {"idle", "lock", "lookup", "write", "restart",
                                "lock2", "set", "done"}]
      BY <1>29 DEF AWriteFile
    <2>4. \A b \in Appliers :
            apc'[b] \in {"write", "restart", "lock2", "set"}
              => areq'[b].gw \in Configured
      BY <1>29, <2>1 DEF AWriteFile
    <2>5. QED
      BY <1>29, <2>2, <2>3, <2>4 DEF AWriteFile
  <1>30. ASSUME NEW a \in Appliers, ARestart(a) PROVE TypeInv'
    <2>1. areq[a].gw \in Configured
      BY <1>30 DEF ARestart
    <2>2. running' \in [Configured -> Versions \cup {NoVersion}]
      <3>1. cfgFile[areq[a].gw] \in Versions \cup {NoVersion}
        BY <2>1
      <3>2. CASE running' = [running EXCEPT ![areq[a].gw] = cfgFile[areq[a].gw]]
        BY <3>1, <3>2
      <3>3. CASE UNCHANGED running
        BY <3>3
      <3>4. QED
        BY <1>30, <3>2, <3>3 DEF ARestart
    <2>3. apc' \in [Appliers -> {"idle", "lock", "lookup", "write", "restart",
                                "lock2", "set", "done"}]
      BY <1>30 DEF ARestart
    <2>4. \A b \in Appliers :
            apc'[b] \in {"write", "restart", "lock2", "set"}
              => areq'[b].gw \in Configured
      BY <1>30, <2>1 DEF ARestart
    <2>5. QED
      BY <1>30, <2>2, <2>3, <2>4 DEF ARestart
  <1>31. ASSUME NEW a \in Appliers, ALock(a, "lock2", "set") PROVE TypeInv'
    BY <1>31 DEF ALock, Writers
  <1>32. ASSUME NEW a \in Appliers, ASetVersion(a) PROVE TypeInv'
    BY <1>32 DEF ASetVersion, NoOne, Writers
  <1>33. CASE UNCHANGED vars
    BY <1>33 DEF vars, lockVars, handlerVars, writerVars, dlVars, applyVars
  <1>34. QED
    BY <1>1, <1>2, <1>3, <1>4, <1>5, <1>6, <1>7, <1>8, <1>9, <1>10, <1>11,
       <1>12, <1>13, <1>14, <1>15, <1>16, <1>17, <1>18, <1>19, <1>20, <1>21,
       <1>22, <1>23, <1>24, <1>25, <1>26, <1>27, <1>28, <1>29, <1>30, <1>31,
       <1>32, <1>33
    DEF Next, Handler, Applier, Closer, Terminating

\* The lock discipline, NotStarted and the shutdown invariant are kept
\* by every step.
LockInv == NotStarted /\ ReadLockDiscipline /\ NoHandlerSendsOnClosedChannel

\* The inductive invariant for NoHandlerSendsOnClosedChannel.
IInv == TypeInv /\ LockInv

LEMMA LockStep == TypeInv /\ LockInv /\ [Next]_vars => LockInv'
  <1> SUFFICES ASSUME TypeInv, LockInv, [Next]_vars PROVE LockInv'
    OBVIOUS
  <1> USE DEF TypeInv, TypeOK, LockInv, NotStarted, ReadLockDiscipline,
             lockVars, handlerVars, writerVars, dlVars, applyVars,
             NoHandlerSendsOnClosedChannel, Holding, PastCheck, HandlerPCs
  <1>1. ASSUME NEW h \in Handlers, HRLock(h) PROVE LockInv'
    BY <1>1 DEF HRLock, HGoto, HUnchanged
  <1>2. ASSUME NEW h \in Handlers, DropPacket(h) PROVE LockInv'
    BY <1>2 DEF DropPacket, HGoto, HUnchanged
  <1>3. ASSUME NEW h \in Handlers, HandlePullData(h) PROVE LockInv'
    BY <1>3 DEF HandlePullData, HGoto, HUnchanged
  <1>4. ASSUME NEW h \in Handlers, HandlePushData(h) PROVE LockInv'
    BY <1>4 DEF HandlePushData, HGoto, HUnchanged
  <1>5. ASSUME NEW h \in Handlers, HandleTXACK(h) PROVE LockInv'
    BY <1>5 DEF HandleTXACK, HGoto, HUnchanged
  <1>6. ASSUME NEW h \in Handlers, EmitConnect(h) PROVE LockInv'
    BY <1>6 DEF EmitConnect, HGoto, HUnchanged
  <1>7. ASSUME NEW h \in Handlers, SendAck(h) PROVE LockInv'
    BY <1>7 DEF SendAck, HGoto, HUnchanged, SendUDP, IsPush, AfterStats
  <1>8. ASSUME NEW h \in Handlers, EmitNotifyMac(h) PROVE LockInv'
    BY <1>8 DEF EmitNotifyMac, HGoto, HUnchanged
  <1>9. ASSUME NEW h \in Handlers, EmitStats(h) PROVE LockInv'
    BY <1>9 DEF EmitStats, HGoto, HUnchanged, AfterStats
  <1>10. ASSUME NEW h \in Handlers, EmitUplink(h) PROVE LockInv'
    BY <1>10 DEF EmitUplink, HGoto, HUnchanged
  <1>11. ASSUME NEW h \in Handlers, EmitTXAck(h) PROVE LockInv'
    BY <1>11 DEF EmitTXAck, HGoto, HUnchanged
  <1>12. CASE Receive
    BY <1>12 DEF Receive, Handlers
  <1>13. CASE WriteUDP
    BY <1>13 DEF WriteUDP
  <1>14. CASE WriterExit
    BY <1>14 DEF WriterExit
  <1>15. CASE Cleanup
    BY <1>15 DEF Cleanup
  <1>16. CASE EmitDisconnect
    BY <1>16 DEF EmitDisconnect
  <1>17. CASE CallSendDownlinkFrame
    BY <1>17 DEF CallSendDownlinkFrame
  <1>18. CASE CallApplyConfiguration
    BY <1>18 DEF CallApplyConfiguration
  <1>19. CASE CallClose
    BY <1>19 DEF CallClose
  <1>20. CASE CloseLock
    BY <1>20 DEF CloseLock
  <1>21. CASE CloseBackend
    BY <1>21 DEF CloseBackend
  <1>22. CASE CloseFail
    BY <1>22 DEF CloseFail
  <1>23. CASE CloseWait
    BY <1>23 DEF CloseWait
  <1>24. ASSUME NEW g \in Gateways, Silence(g) PROVE LockInv'
    BY <1>24 DEF Silence
  <1>25. ASSUME NEW d \in Downlinks, DLGet(d) PROVE LockInv'
    BY <1>25 DEF DLGet
  <1>26. ASSUME NEW d \in Downlinks, DLSend(d) PROVE LockInv'
    BY <1>26 DEF DLSend, SendUDP
  <1>27. ASSUME NEW a \in Appliers, ALock(a, "lock", "lookup") PROVE LockInv'
    BY <1>27 DEF ALock
  <1>28. ASSUME NEW a \in Appliers, ALookup(a) PROVE LockInv'
    BY <1>28 DEF ALookup
  <1>29. ASSUME NEW a \in Appliers, AWriteFile(a) PROVE LockInv'
    BY <1>29 DEF AWriteFile
  <1>30. ASSUME NEW a \in Appliers, ARestart(a) PROVE LockInv'
    BY <1>30 DEF ARestart
  <1>31. ASSUME NEW a \in Appliers, ALock(a, "lock2", "set") PROVE LockInv'
    BY <1>31 DEF ALock
  <1>32. ASSUME NEW a \in Appliers, ASetVersion(a) PROVE LockInv'
    BY <1>32 DEF ASetVersion
  <1>33. CASE UNCHANGED vars
    BY <1>33 DEF vars, lockVars, handlerVars, writerVars, dlVars, applyVars
  <1>34. QED
    BY <1>1, <1>2, <1>3, <1>4, <1>5, <1>6, <1>7, <1>8, <1>9, <1>10, <1>11,
       <1>12, <1>13, <1>14, <1>15, <1>16, <1>17, <1>18, <1>19, <1>20, <1>21,
       <1>22, <1>23, <1>24, <1>25, <1>26, <1>27, <1>28, <1>29, <1>30, <1>31,
       <1>32, <1>33
    DEF Next, Handler, Applier, Closer, Terminating

LEMMA LockInit == Init => LockInv
  BY DEF Init, LockInv, NotStarted, ReadLockDiscipline,
         NoHandlerSendsOnClosedChannel, Holding, PastCheck

-----------------------------------------------------------------------------
\* Type correctness: every variable of the backend model keeps its type in
\* every reachable state (the registry holds entries, the writer's buffer
\* a datagram, and so on), whatever the sizes of the bounded inputs.
THEOREM TypeCorrect == Spec => []TypeOK
  <1>1. Init => TypeInv
    BY TypeInit
  <1>2. TypeInv /\ [Next]_vars => TypeInv'
    BY TypeStep
  <1>3. TypeInv => TypeOK
    BY DEF TypeInv
  <1>4. QED
    BY <1>1, <1>2, <1>3, PTL DEF Spec

\* Shutdown safety for every number of datagrams, downlinks and applies:
\* once Close has set b.closed and closed udpSendChan, no handlePacket
\* goroutine is past its b.closed check, because Close's b.Lock() waits for
\* every handler holding b.RLock() and handlers check b.closed under it.
THEOREM ShutdownSafe == Spec => []NoHandlerSendsOnClosedChannel
  <1>1. Init => IInv
    BY TypeInit, LockInit DEF IInv
  <1>2. IInv /\ [Next]_vars => IInv'
    BY TypeStep, LockStep DEF IInv
  <1>3. IInv => NoHandlerSendsOnClosedChannel
    BY DEF IInv, LockInv
  <1>4. QED
    BY <1>1, <1>2, <1>3, PTL DEF Spec
=============================================================================
