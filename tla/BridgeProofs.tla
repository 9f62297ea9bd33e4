--------------------------- MODULE BridgeProofs ----------------------------
(***************************************************************************)
(* Proofs about the lifecycle-path model, for every value of the          *)
(* constants:                                                              *)
(*  - type correctness (TypeOK is invariant), and                         *)
(*  - BrokerMatchesKnownSet: once no onConnected goroutine is pending or   *)
(*    running and b.conn is connected, the topics subscribed on b.conn    *)
(*    are exactly b.gateways.                                              *)
(* BrokerMatchesKnownSet is not inductive.  It rests on the read-lock     *)
(* discipline of onConnected (a goroutine holds b.RLock() exactly while   *)
(* it re-subscribes), on its snapshot of b.gateways staying a subset of   *)
(* b.gateways while it holds the lock (writers wait for readers), and on  *)
(* a coverage fact: while b.conn is connected and no onConnected is       *)
(* pending, every id of b.gateways not subscribed on b.conn is still in   *)
(* the snapshot of a running onConnected.                                  *)
(***************************************************************************)
EXTENDS Bridge, TLAPS

\* The reconnect iteration connecting names an onConnected goroutine.
CounterFacts ==
  rpc \in {"dlock", "disc", "clock", "connect"} => nrec \in 1..MaxReconnects

TypeInv == TypeOK /\ CounterFacts

\* irl holds exactly the onConnected goroutines between RLock() and the
\* deferred RUnlock().
ReadLockDiscipline == \A o \in OCs : o \in irl <=> opc[o] = "sub"

\* A subscribed topic belongs to a known id; an onConnected snapshot is a
\* subset of b.gateways while its goroutine holds the read lock.
SubsKnown == subs \subseteq igw
TodoKnown == \A o \in OCs : opc[o] = "sub" => otodo[o] \subseteq igw

\* While b.conn is connected and no onConnected waits for the read lock,
\* each known id missing on b.conn is still to be re-subscribed.
Running == {o \in OCs : opc[o] = "sub"}
Coverage ==
  (connected /\ \A o \in OCs : opc[o] # "rlock")
    => igw \ subs \subseteq UNION {otodo[o] : o \in Running}

InvRest == ReadLockDiscipline /\ SubsKnown /\ TodoKnown /\ Coverage
IInv    == TypeInv /\ InvRest

\* Setup has subscribed every always-subscribe id it is done with, and
\* onDisconnectedLoop only unsubscribes ids outside the always-subscribe set.
AlwaysInv ==
  /\ mpc \in {"setup", "sub", "done"} => AlwaysSubscribe \ mtodo \subseteq igw
  /\ mpc = "done" => mtodo = {}
  /\ fdpc \in {"lock", "sub"} => fdgw \notin AlwaysSubscribe

-----------------------------------------------------------------------------
USE BridgeAssumption

\* The actions of Next, each with the process still running.
LEMMA NextCases ==
  ASSUME Next
  PROVE  \/ \E g \in Gateways : PullData(g)
         \/ Cleanup \/ SetupLock \/ SetupSubscribe \/ SetupStartLoops
         \/ \E h \in Handlers : FcReceive(h)
         \/ FcLock \/ FcSubscribe
         \/ \E g \in Gateways : FdReceive(g)
         \/ FdLock \/ FdUnsubscribe \/ LoseConnection
         \/ \E k \in 1..MaxLosses : LostLock(k) \/ LostConnect(k)
         \/ RWake \/ RDiscLock \/ RDisconnect \/ RConnLock \/ RConnect
         \/ \E o \in OCs : OCRLock(o) \/ OCSubscribe(o) \/ OCDone(o)
         \/ UNCHANGED vars
  BY DEF Next, Source, Forwarder, Callbacks, Terminating

LEMMA TypeInit == Init => TypeInv
  <1> SUFFICES ASSUME Init PROVE TypeInv
    OBVIOUS
  <1>1. AnyGw \in Gateways
    BY DEF AnyGw
  <1>2. NoOne \in LockIds \cup {NoOne} /\ <<"init", 0>> \in OCs
    BY DEF LockIds, OCs
  <1>3. QED
    BY <1>1, <1>2 DEF Init, TypeInv, TypeOK, CounterFacts, Handlers

LEMMA TypeNext == TypeInv /\ Next => TypeInv'
  <1> SUFFICES ASSUME TypeInv, Next PROVE TypeInv'
    OBVIOUS
  <1> USE DEF TypeInv, TypeOK, CounterFacts, srcVars, fwdVars, connVars,
             cbVars, Claim, InCS, Release
  <1>1. ASSUME NEW g \in Gateways, PullData(g) PROVE TypeInv'
    BY <1>1 DEF PullData, Handlers
  <1>2. CASE Cleanup
    <2>1. PICK S \in SUBSET {g \in Gateways : present[g]} :
            /\ S # {}
            /\ present' = [g \in Gateways |-> present[g] /\ g \notin S]
            /\ spending' = S
      BY <1>2 DEF Cleanup
    <2>2. QED
      BY <1>2, <2>1 DEF Cleanup
  <1>3. CASE SetupLock
    BY <1>3 DEF SetupLock, LockIds, MainId
  <1>4. CASE SetupSubscribe
    BY <1>4 DEF SetupSubscribe, SubscribeBody
  <1>5. CASE SetupStartLoops
    BY <1>5 DEF SetupStartLoops
  <1>6. ASSUME NEW h \in Handlers, FcReceive(h) PROVE TypeInv'
    BY <1>6 DEF FcReceive
  <1>7. CASE FcLock
    BY <1>7 DEF FcLock, LockIds, FcId
  <1>8. CASE FcSubscribe
    BY <1>8 DEF FcSubscribe, SubscribeBody
  <1>9. ASSUME NEW g \in Gateways, FdReceive(g) PROVE TypeInv'
    BY <1>9 DEF FdReceive
  <1>10. CASE FdLock
    BY <1>10 DEF FdLock, LockIds, FdId
  <1>11. CASE FdUnsubscribe
    BY <1>11 DEF FdUnsubscribe, UnsubscribeBody
  <1>12. CASE LoseConnection
    <2>1. nlost' \in 0..MaxLosses /\ nlost + 1 \in 1..MaxLosses
      BY <1>12 DEF LoseConnection
    <2>2. lpc' \in [1..MaxLosses -> {"idle", "lock", "connect", "done"}]
      BY <1>12, <2>1 DEF LoseConnection
    <2>3. /\ UNCHANGED <<srcVars, fwdVars, irl, iwl, igw, nfail, rpc, nrec,
                        opc, otodo>>
          /\ connected' = FALSE /\ subs' = {}
      BY <1>12 DEF LoseConnection
    <2>7. (/\ present \in [Gateways -> BOOLEAN]
           /\ hpc \in [Handlers -> {"idle", "send", "done"}]
           /\ hgw \in [Handlers -> Gateways]
           /\ npull \in 0..MaxPulls
           /\ swpc \in {"sleep", "send"} /\ spending \subseteq Gateways
           /\ ncleanup \in 0..MaxCleanups)'
      BY <2>3
    <2>8. (/\ mpc \in {"setup", "sub", "done", "fatal"}
           /\ mtodo \subseteq AlwaysSubscribe
           /\ fcpc \in {"start", "recv", "lock", "sub", "exited"}
           /\ fcgw \in Gateways
           /\ fdpc \in {"start", "recv", "lock", "sub", "exited"}
           /\ fdgw \in Gateways)'
      BY <2>3
    <2>9. (/\ irl \subseteq OCs /\ iwl \in LockIds \cup {NoOne}
           /\ connected \in BOOLEAN /\ subs \subseteq Gateways
           /\ igw \subseteq Gateways)'
      BY <2>3
    <2>10. (/\ nfail \in 0..MaxConnectFails
            /\ rpc \in {"sleep", "dlock", "disc", "clock", "connect", "exited"}
            /\ nrec \in 0..MaxReconnects
            /\ opc \in [OCs -> {"idle", "rlock", "sub", "done"}]
            /\ otodo \in [OCs -> SUBSET Gateways])'
      BY <2>3
    <2>4. TypeOK'
      BY <2>1, <2>2, <2>7, <2>8, <2>9, <2>10, Zenon
    <2>5. CounterFacts'
      BY <1>12 DEF LoseConnection
    <2>6. QED
      BY <2>4, <2>5
  <1>13. ASSUME NEW k \in 1..MaxLosses, LostLock(k) PROVE TypeInv'
    BY <1>13 DEF LostLock, LockIds, LostId
  <1>14. ASSUME NEW k \in 1..MaxLosses, LostConnect(k) PROVE TypeInv'
    <2>1. lpc' \in [1..MaxLosses -> {"idle", "lock", "connect", "done"}]
      BY <1>14 DEF LostConnect
    <2>2. opc' \in [OCs -> {"idle", "rlock", "sub", "done"}]
          /\ nfail' \in 0..MaxConnectFails
          /\ connected' \in BOOLEAN /\ subs' = {}
      <3>1. CASE ConnectOK(<<"lost", k>>)
        BY <3>1 DEF ConnectOK
      <3>2. CASE ConnectFail
        <4>1. nfail' \in 0..MaxConnectFails
          BY <3>2 DEF ConnectFail
        <4>2. opc' \in [OCs -> {"idle", "rlock", "sub", "done"}]
          BY <3>2 DEF ConnectFail
        <4>3. connected' \in BOOLEAN /\ subs' = {}
          BY <3>2 DEF ConnectFail
        <4>4. QED
          BY <4>1, <4>2, <4>3
      <3>3. QED
        BY <1>14, <3>1, <3>2 DEF LostConnect
    <2>3. TypeOK'
      BY <1>14, <2>1, <2>2 DEF LostConnect
    <2>4. CounterFacts'
      BY <1>14 DEF LostConnect
    <2>5. QED
      BY <2>3, <2>4
  <1>15. CASE RWake
    BY <1>15 DEF RWake
  <1>16. CASE RDiscLock
    BY <1>16 DEF RDiscLock, LockIds, RcId
  <1>17. CASE RDisconnect
    BY <1>17 DEF RDisconnect
  <1>18. CASE RConnLock
    BY <1>18 DEF RConnLock, LockIds, RcId
  <1>19. CASE RConnect
    <2>1. opc' \in [OCs -> {"idle", "rlock", "sub", "done"}]
          /\ nfail' \in 0..MaxConnectFails
          /\ connected' \in BOOLEAN /\ subs' = {}
          /\ rpc' \in {"sleep", "clock"}
      <3>1. CASE ConnectOK(<<"rc", nrec>>) /\ rpc' = "sleep"
        BY <3>1 DEF ConnectOK
      <3>2. CASE ConnectFail /\ rpc' = "clock"
        <4>1. nfail' \in 0..MaxConnectFails
          BY <3>2 DEF ConnectFail
        <4>2. opc' \in [OCs -> {"idle", "rlock", "sub", "done"}]
          BY <3>2 DEF ConnectFail
        <4>3. connected' \in BOOLEAN /\ subs' = {}
          BY <3>2 DEF ConnectFail
        <4>4. QED
          BY <3>2, <4>1, <4>2, <4>3
      <3>3. QED
        BY <1>19, <3>1, <3>2 DEF RConnect
    <2>2. TypeOK'
      BY <1>19, <2>1 DEF RConnect
    <2>3. CounterFacts'
      BY <1>19, <2>1 DEF RConnect
    <2>4. QED
      BY <2>2, <2>3
  <1>20. ASSUME NEW o \in OCs, OCRLock(o) PROVE TypeInv'
    BY <1>20 DEF OCRLock
  <1>21. ASSUME NEW o \in OCs, OCSubscribe(o) PROVE TypeInv'
    BY <1>21 DEF OCSubscribe
  <1>22. ASSUME NEW o \in OCs, OCDone(o) PROVE TypeInv'
    BY <1>22 DEF OCDone
  <1>23. CASE UNCHANGED vars
    BY <1>23 DEF vars
  <1>24. QED
    BY <1>1, <1>2, <1>3, <1>4, <1>5, <1>6, <1>7, <1>8, <1>9, <1>10, <1>11,
       <1>12, <1>13, <1>14, <1>15, <1>16, <1>17, <1>18, <1>19, <1>20,
       <1>21, <1>22, <1>23, NextCases

LEMMA TypeStep == TypeInv /\ [Next]_vars => TypeInv'
  <1>1. CASE UNCHANGED vars
    BY <1>1 DEF vars, srcVars, fwdVars, connVars, cbVars, TypeInv, TypeOK,
                CounterFacts
  <1>2. QED
    BY <1>1, TypeNext

-----------------------------------------------------------------------------
(* The strengthening of BrokerMatchesKnownSet.  Actions are grouped by     *)
(* what they do to the integration's lock, connection and onConnected     *)
(* goroutines.                                                             *)

\* A step that touches none of that state keeps it.
LEMMA FrameStep ==
  ASSUME InvRest, UNCHANGED <<irl, connected, subs, igw, opc, otodo>>
  PROVE  InvRest'
  BY DEF InvRest, ReadLockDiscipline, SubsKnown, TodoKnown, Coverage, Running

\* With no reader inside b.RLock() no onConnected re-subscribes, so
\* Coverage says every known id is subscribed.
LEMMA NoReaderRunning ==
  ASSUME TypeOK, ReadLockDiscipline, irl = {}
  PROVE  Running = {}
  BY DEF TypeOK, ReadLockDiscipline, Running

\* SubscribeGateway under b.Lock() (Setup and onConnectedLoop).
LEMMA SubscribeStep ==
  ASSUME TypeOK, InvRest, irl = {}, NEW g \in Gateways, SubscribeBody(g),
         UNCHANGED <<irl, connected, opc, otodo>>
  PROVE  InvRest'
  <1>1. Running = {} /\ Running' = {}
    BY NoReaderRunning DEF ReadLockDiscipline, InvRest, Running
  <1>2. SubsKnown'
    BY DEF SubscribeBody, InvRest, SubsKnown
  <1>3. igw' \ subs' \subseteq igw \ subs
    BY DEF SubscribeBody
  <1>4. Coverage'
    BY <1>1, <1>3 DEF InvRest, Coverage
  <1>5. QED
    BY <1>1, <1>2, <1>4 DEF InvRest, TodoKnown, ReadLockDiscipline, Running

\* UnsubscribeGateway under b.Lock() (onDisconnectedLoop).
LEMMA UnsubscribeStep ==
  ASSUME TypeOK, InvRest, irl = {}, NEW g \in Gateways, UnsubscribeBody(g),
         UNCHANGED <<irl, connected, opc, otodo>>
  PROVE  InvRest'
  <1>1. Running = {} /\ Running' = {}
    BY NoReaderRunning DEF ReadLockDiscipline, InvRest, Running
  <1>2. SubsKnown'
    BY DEF UnsubscribeBody, InvRest, SubsKnown
  <1>3. igw' \ subs' \subseteq igw \ subs
    BY DEF UnsubscribeBody
  <1>4. Coverage'
    BY <1>1, <1>3 DEF InvRest, Coverage
  <1>5. QED
    BY <1>1, <1>2, <1>4 DEF InvRest, TodoKnown, ReadLockDiscipline, Running

\* The connection drops or a connect() fails: nothing is subscribed.
LEMMA DropStep ==
  ASSUME InvRest, connected' = FALSE, subs' = {},
         UNCHANGED <<irl, igw, opc, otodo>>
  PROVE  InvRest'
  BY DEF InvRest, ReadLockDiscipline, SubsKnown, TodoKnown, Coverage, Running

\* A successful connect() under b.Lock() starts onConnected o.
LEMMA ConnectStep ==
  ASSUME TypeOK, InvRest, irl = {}, NEW o \in OCs,
         connected' = TRUE, subs' = {}, opc' = [opc EXCEPT ![o] = "rlock"],
         UNCHANGED <<irl, igw, otodo>>
  PROVE  InvRest'
  <1>1. \A p \in OCs : opc[p] # "sub"
    BY DEF InvRest, ReadLockDiscipline
  <1>2. ReadLockDiscipline'
    BY <1>1 DEF TypeOK, ReadLockDiscipline
  <1>3. TodoKnown'
    BY <1>1 DEF TypeOK, TodoKnown
  <1>4. Coverage'
    BY DEF TypeOK, Coverage
  <1>5. QED
    BY <1>2, <1>3, <1>4 DEF InvRest, SubsKnown

\* onConnected o takes b.RLock() and snapshots b.gateways.
LEMMA OCRLockStep ==
  ASSUME TypeOK, InvRest, NEW o \in OCs, OCRLock(o)
  PROVE  InvRest'
  <1>1. ReadLockDiscipline'
    BY DEF OCRLock, TypeOK, InvRest, ReadLockDiscipline
  <1>2. TodoKnown'
    BY DEF OCRLock, TypeOK, InvRest, TodoKnown
  <1>3. o \in Running' /\ otodo'[o] = igw'
    BY DEF OCRLock, TypeOK, Running
  <1>4. Coverage'
    BY <1>3 DEF OCRLock, Coverage
  <1>5. QED
    BY <1>1, <1>2, <1>4 DEF OCRLock, InvRest, SubsKnown

\* onConnected o re-subscribes one id of its snapshot on b.conn.
LEMMA OCSubscribeStep ==
  ASSUME TypeOK, InvRest, NEW o \in OCs, OCSubscribe(o)
  PROVE  InvRest'
  <1>1. PICK g \in otodo[o] :
          /\ subs' = subs \cup {g}
          /\ otodo' = [otodo EXCEPT ![o] = otodo[o] \ {g}]
    BY DEF OCSubscribe
  <1>2. g \in igw
    BY <1>1 DEF OCSubscribe, InvRest, TodoKnown
  <1>3. Running' = Running
    BY DEF OCSubscribe, Running
  <1>4. SubsKnown'
    BY <1>1, <1>2 DEF OCSubscribe, InvRest, SubsKnown
  <1>5. TodoKnown'
    BY <1>1 DEF OCSubscribe, TypeOK, InvRest, TodoKnown
  <1>6. Coverage'
    <2>1. SUFFICES ASSUME connected', \A p \in OCs : opc'[p] # "rlock",
                          NEW x \in igw' \ subs'
                   PROVE  \E p \in Running' : x \in otodo'[p]
      BY DEF Coverage
    <2>2. PICK p \in Running : x \in otodo[p]
      BY <1>1, <2>1 DEF OCSubscribe, InvRest, Coverage
    <2>3. x # g
      BY <1>1, <2>1
    <2>4. x \in otodo'[p]
      BY <1>1, <2>2, <2>3 DEF TypeOK, Running
    <2>5. QED
      BY <1>3, <2>2, <2>4
  <1>7. QED
    BY <1>4, <1>5, <1>6 DEF OCSubscribe, InvRest, ReadLockDiscipline

\* onConnected o has re-subscribed its whole snapshot and returns,
\* running the deferred b.RUnlock().
LEMMA OCDoneStep ==
  ASSUME TypeOK, InvRest, NEW o \in OCs, OCDone(o)
  PROVE  InvRest'
  <1>1. ReadLockDiscipline'
    BY DEF OCDone, TypeOK, InvRest, ReadLockDiscipline
  <1>2. TodoKnown'
    BY DEF OCDone, TypeOK, InvRest, TodoKnown
  <1>3. UNION {otodo'[p] : p \in Running'} = UNION {otodo[p] : p \in Running}
    BY DEF OCDone, TypeOK, Running
  <1>4. Coverage'
    BY <1>3 DEF OCDone, TypeOK, InvRest, Coverage
  <1>5. QED
    BY <1>1, <1>2, <1>4 DEF OCDone, InvRest, SubsKnown

\* Every step of the model keeps the strengthening.
LEMMA InvRestNext ==
  ASSUME TypeInv, InvRest, Next
  PROVE  InvRest'
  <1> USE DEF srcVars, fwdVars, connVars, cbVars, Claim, InCS, Release
  <1>1. ASSUME NEW g \in Gateways, PullData(g) PROVE InvRest'
    BY <1>1, FrameStep DEF PullData
  <1>2. CASE Cleanup
    BY <1>2, FrameStep DEF Cleanup
  <1>3. CASE SetupLock
    BY <1>3, FrameStep DEF SetupLock
  <1>4. CASE SetupSubscribe
    <2>1. PICK g \in mtodo : SubscribeBody(g)
      BY <1>4 DEF SetupSubscribe
    <2>2. g \in Gateways
      BY DEF TypeInv, TypeOK
    <2>3. QED
      BY <1>4, <2>1, <2>2, SubscribeStep DEF SetupSubscribe, TypeInv
  <1>5. CASE SetupStartLoops
    BY <1>5, FrameStep DEF SetupStartLoops
  <1>6. ASSUME NEW h \in Handlers, FcReceive(h) PROVE InvRest'
    BY <1>6, FrameStep DEF FcReceive
  <1>7. CASE FcLock
    BY <1>7, FrameStep DEF FcLock
  <1>8. CASE FcSubscribe
    BY <1>8, SubscribeStep DEF FcSubscribe, TypeInv, TypeOK
  <1>9. ASSUME NEW g \in Gateways, FdReceive(g) PROVE InvRest'
    BY <1>9, FrameStep DEF FdReceive
  <1>10. CASE FdLock
    BY <1>10, FrameStep DEF FdLock
  <1>11. CASE FdUnsubscribe
    BY <1>11, UnsubscribeStep DEF FdUnsubscribe, TypeInv, TypeOK
  <1>12. CASE LoseConnection
    BY <1>12, DropStep DEF LoseConnection
  <1>13. ASSUME NEW k \in 1..MaxLosses, LostLock(k) PROVE InvRest'
    BY <1>13, FrameStep DEF LostLock
  <1>14. ASSUME NEW k \in 1..MaxLosses, LostConnect(k) PROVE InvRest'
    <2>1. <<"lost", k>> \in OCs
      BY DEF OCs
    <2>2. CASE ConnectOK(<<"lost", k>>)
      BY <1>14, <2>1, <2>2, ConnectStep DEF LostConnect, ConnectOK, TypeInv
    <2>3. CASE ConnectFail
      BY <1>14, <2>3, DropStep DEF LostConnect, ConnectFail
    <2>4. QED
      BY <1>14, <2>2, <2>3 DEF LostConnect
  <1>15. CASE RWake
    BY <1>15, FrameStep DEF RWake
  <1>16. CASE RDiscLock
    BY <1>16, FrameStep DEF RDiscLock
  <1>17. CASE RDisconnect
    BY <1>17, DropStep DEF RDisconnect
  <1>18. CASE RConnLock
    BY <1>18, FrameStep DEF RConnLock
  <1>19. CASE RConnect
    <2>1. <<"rc", nrec>> \in OCs
      BY <1>19 DEF RConnect, TypeInv, CounterFacts, OCs
    <2>2. CASE ConnectOK(<<"rc", nrec>>)
      BY <1>19, <2>1, <2>2, ConnectStep DEF RConnect, ConnectOK, TypeInv
    <2>3. CASE ConnectFail
      BY <1>19, <2>3, DropStep DEF RConnect, ConnectFail
    <2>4. QED
      BY <1>19, <2>2, <2>3 DEF RConnect
  <1>20. ASSUME NEW o \in OCs, OCRLock(o) PROVE InvRest'
    BY <1>20, OCRLockStep DEF TypeInv
  <1>21. ASSUME NEW o \in OCs, OCSubscribe(o) PROVE InvRest'
    BY <1>21, OCSubscribeStep DEF TypeInv
  <1>22. ASSUME NEW o \in OCs, OCDone(o) PROVE InvRest'
    BY <1>22, OCDoneStep DEF TypeInv
  <1>23. CASE UNCHANGED vars
    BY <1>23, FrameStep DEF vars
  <1>24. QED
    BY <1>1, <1>2, <1>3, <1>4, <1>5, <1>6, <1>7, <1>8, <1>9, <1>10, <1>11,
       <1>12, <1>13, <1>14, <1>15, <1>16, <1>17, <1>18, <1>19, <1>20,
       <1>21, <1>22, <1>23, NextCases

LEMMA InvRestInit == Init => InvRest
  BY DEF Init, InvRest, ReadLockDiscipline, SubsKnown, TodoKnown, Coverage,
         Running

\* A settled connection leaves no snapshot to cover what b.conn lacks.
LEMMA InvRestSettled ==
  ASSUME InvRest, Settled
  PROVE  BrokerMatchesKnownSet
  <1>1. Running = {}
    BY DEF Settled, Running
  <1>2. QED
    BY <1>1 DEF Settled, InvRest, SubsKnown, Coverage, BrokerMatchesKnownSet

\* Every variable of the lifecycle-path model keeps its type: the
\* handlers, the sweeper, Setup, both loops, the integration's lock and
\* connection, and the paho callbacks.
THEOREM BridgeTypeCorrect == Spec => []TypeOK
  <1>1. Init => TypeInv
    BY TypeInit
  <1>2. TypeInv /\ [Next]_vars => TypeInv'
    BY TypeStep
  <1>3. TypeInv => TypeOK
    BY DEF TypeInv
  <1>4. QED
    BY <1>1, <1>2, <1>3, PTL DEF Spec


\* Once no onConnected goroutine is pending or re-subscribing and b.conn is
\* connected, the topics subscribed on b.conn are exactly b.gateways, for
\* every interleaving of SubscribeGateway/UnsubscribeGateway with lost
\* connections, connect() retries, reconnectLoop and onConnected.
LEMMA IInvInvariant == Spec => []IInv
  <1>1. Init => IInv
    BY TypeInit, InvRestInit DEF IInv
  <1>2. IInv /\ [Next]_vars => IInv'
    <2>1. CASE UNCHANGED vars
      BY <2>1, TypeStep, FrameStep DEF IInv, vars, connVars, cbVars
    <2>2. CASE Next
      BY <2>2, TypeNext, InvRestNext DEF IInv
    <2>3. QED
      BY <2>1, <2>2
  <1>3. QED
    BY <1>1, <1>2, PTL DEF Spec

THEOREM BrokerSettled == Spec => []BrokerMatchesKnownSet
  <1>1. IInv => BrokerMatchesKnownSet
    BY InvRestSettled DEF IInv, BrokerMatchesKnownSet
  <1>2. QED
    BY <1>1, IInvInvariant, PTL


-----------------------------------------------------------------------------
(* AlwaysSubscribedKept.  Setup adds each configured id to b.gateways      *)
(* (or the process exits), and only UnsubscribeGateway removes one, for    *)
(* an id onDisconnectedLoop has checked against alwaysSubscribe.           *)

LEMMA AlwaysNext ==
  ASSUME TypeInv, AlwaysInv, Next
  PROVE  AlwaysInv'
  <1> USE DEF srcVars, fwdVars, connVars, cbVars, Claim, InCS, Release
  <1>1. ASSUME NEW g \in Gateways, PullData(g) PROVE AlwaysInv'
    BY <1>1 DEF PullData, AlwaysInv
  <1>2. CASE Cleanup
    BY <1>2 DEF Cleanup, AlwaysInv
  <1>3. CASE SetupLock
    BY <1>3 DEF SetupLock, AlwaysInv
  <1>4. CASE SetupSubscribe
    <2>1. PICK g \in mtodo : /\ SubscribeBody(g) /\ mtodo' = mtodo \ {g}
                             /\ mpc' = IF connected THEN "setup" ELSE "fatal"
      BY <1>4 DEF SetupSubscribe
    <2>2. CASE connected
      BY <1>4, <2>1, <2>2 DEF SetupSubscribe, SubscribeBody, AlwaysInv
    <2>3. CASE ~connected
      BY <1>4, <2>1, <2>3 DEF SetupSubscribe, AlwaysInv
    <2>4. QED
      BY <2>2, <2>3
  <1>5. CASE SetupStartLoops
    BY <1>5 DEF SetupStartLoops, AlwaysInv
  <1>6. ASSUME NEW h \in Handlers, FcReceive(h) PROVE AlwaysInv'
    BY <1>6 DEF FcReceive, AlwaysInv
  <1>7. CASE FcLock
    BY <1>7 DEF FcLock, AlwaysInv
  <1>8. CASE FcSubscribe
    BY <1>8 DEF FcSubscribe, SubscribeBody, AlwaysInv
  <1>9. ASSUME NEW g \in Gateways, FdReceive(g) PROVE AlwaysInv'
    BY <1>9 DEF FdReceive, AlwaysInv
  <1>10. CASE FdLock
    BY <1>10 DEF FdLock, AlwaysInv
  <1>11. CASE FdUnsubscribe
    BY <1>11 DEF FdUnsubscribe, UnsubscribeBody, AlwaysInv
  <1>12. CASE LoseConnection
    BY <1>12 DEF LoseConnection, AlwaysInv
  <1>13. ASSUME NEW k \in 1..MaxLosses, LostLock(k) PROVE AlwaysInv'
    BY <1>13 DEF LostLock, AlwaysInv
  <1>14. ASSUME NEW k \in 1..MaxLosses, LostConnect(k) PROVE AlwaysInv'
    BY <1>14 DEF LostConnect, AlwaysInv
  <1>15. CASE RWake
    BY <1>15 DEF RWake, AlwaysInv
  <1>16. CASE RDiscLock
    BY <1>16 DEF RDiscLock, AlwaysInv
  <1>17. CASE RDisconnect
    BY <1>17 DEF RDisconnect, AlwaysInv
  <1>18. CASE RConnLock
    BY <1>18 DEF RConnLock, AlwaysInv
  <1>19. CASE RConnect
    BY <1>19 DEF RConnect, AlwaysInv
  <1>20. ASSUME NEW o \in OCs, OCRLock(o) PROVE AlwaysInv'
    BY <1>20 DEF OCRLock, AlwaysInv
  <1>21. ASSUME NEW o \in OCs, OCSubscribe(o) PROVE AlwaysInv'
    BY <1>21 DEF OCSubscribe, AlwaysInv
  <1>22. ASSUME NEW o \in OCs, OCDone(o) PROVE AlwaysInv'
    BY <1>22 DEF OCDone, AlwaysInv
  <1>23. CASE UNCHANGED vars
    BY <1>23 DEF vars, AlwaysInv
  <1>24. QED
    BY <1>1, <1>2, <1>3, <1>4, <1>5, <1>6, <1>7, <1>8, <1>9, <1>10, <1>11,
       <1>12, <1>13, <1>14, <1>15, <1>16, <1>17, <1>18, <1>19, <1>20,
       <1>21, <1>22, <1>23, NextCases

\* Once forwarder.Setup has returned and started the loops, every
\* always-subscribe id is in b.gateways, whatever disconnect events
\* onDisconnectedLoop receives.
THEOREM AlwaysKept == Spec => []AlwaysSubscribedKept
  <1>1. Init => TypeInv /\ AlwaysInv
    BY TypeInit DEF Init, AlwaysInv
  <1>2. TypeInv /\ AlwaysInv /\ [Next]_vars => (TypeInv /\ AlwaysInv)'
    <2>1. CASE UNCHANGED vars
      BY <2>1, TypeStep DEF vars, srcVars, fwdVars, connVars, AlwaysInv
    <2>2. CASE Next
      BY <2>2, TypeNext, AlwaysNext
    <2>3. QED
      BY <2>1, <2>2
  <1>3. AlwaysInv => AlwaysSubscribedKept
    BY DEF AlwaysInv, AlwaysSubscribedKept
  <1>4. QED
    BY <1>1, <1>2, <1>3, PTL DEF Spec


-----------------------------------------------------------------------------
(* Refinement: the lifecycle path implements MQTTSubscriptions under the   *)
(* mapping known <- b.gateways, subs <- subs, link <- Link.  Each step      *)
(* group of the integration maps to one abstract step or to a stutter; the *)
(* step of the last onConnected maps to Restored, whose guard subs = known *)
(* is where IInv is needed.                                                *)

AStep == [Subscriptions!ANext]_Subscriptions!avars

\* A step that leaves the connection, the broker subscriptions, b.gateways
\* and the onConnected goroutines alone is an abstract stutter.
LEMMA RefFrame ==
  ASSUME UNCHANGED <<connected, subs, igw, opc>>
  PROVE  AStep
  BY DEF AStep, Subscriptions!avars, Link, Settled

\* SubscribeGateway: an abstract Subscribe on a connected client, else a
\* stutter.
LEMMA RefSubscribe ==
  ASSUME NEW g \in Gateways, SubscribeBody(g), UNCHANGED <<connected, opc>>
  PROVE  AStep
  <1>1. CASE connected
    <2>1. Subscriptions!Subscribe(g)
      BY <1>1 DEF SubscribeBody, Subscriptions!Subscribe, Link, Settled
    <2>2. QED
      BY <2>1 DEF AStep, Subscriptions!ANext
  <1>2. CASE ~connected
    BY <1>2 DEF SubscribeBody, AStep, Subscriptions!avars, Link, Settled
  <1>3. QED
    BY <1>1, <1>2

\* UnsubscribeGateway: an abstract Unsubscribe, or a stutter.
LEMMA RefUnsubscribe ==
  ASSUME NEW g \in Gateways, UnsubscribeBody(g), UNCHANGED <<connected, opc>>
  PROVE  AStep
  <1>1. CASE connected
    <2>1. Subscriptions!Unsubscribe(g)
      BY <1>1 DEF UnsubscribeBody, Subscriptions!Unsubscribe, Link, Settled
    <2>2. QED
      BY <2>1 DEF AStep, Subscriptions!ANext
  <1>2. CASE ~connected
    BY <1>2 DEF UnsubscribeBody, AStep, Subscriptions!avars, Link, Settled
  <1>3. QED
    BY <1>1, <1>2

\* A lost connection, a requested disconnect or a failed connect().
LEMMA RefLose ==
  ASSUME connected' = FALSE, subs' = {}, UNCHANGED igw
  PROVE  AStep
  <1>1. Subscriptions!Lose
    BY DEF Subscriptions!Lose, Link
  <1>2. QED
    BY <1>1 DEF AStep, Subscriptions!ANext

\* A successful connect() starts onConnected o: an abstract Connect.
LEMMA RefConnect ==
  ASSUME TypeOK, NEW o \in OCs, connected' = TRUE, subs' = {},
         opc' = [opc EXCEPT ![o] = "rlock"], UNCHANGED igw
  PROVE  AStep
  <1>1. ~Settled'
    BY DEF TypeOK, Settled
  <1>2. Subscriptions!Connect
    BY <1>1 DEF Subscriptions!Connect, Link
  <1>3. QED
    BY <1>2 DEF AStep, Subscriptions!ANext

\* onConnected o takes the read lock: neither state is settled.
LEMMA RefOCRLock ==
  ASSUME TypeOK, NEW o \in OCs, OCRLock(o)
  PROVE  AStep
  <1>1. ~Settled /\ ~Settled'
    BY DEF OCRLock, TypeOK, Settled
  <1>2. QED
    BY <1>1 DEF OCRLock, AStep, Subscriptions!avars, Link

\* onConnected o re-subscribes an id of its snapshot: an abstract Restore.
LEMMA RefOCSubscribe ==
  ASSUME TypeOK, TodoKnown, NEW o \in OCs, OCSubscribe(o)
  PROVE  AStep
  <1>1. PICK g \in otodo[o] :
          /\ subs' = subs \cup {g}
          /\ otodo' = [otodo EXCEPT ![o] = otodo[o] \ {g}]
    BY DEF OCSubscribe
  <1>2. g \in Gateways /\ g \in igw
    BY <1>1 DEF OCSubscribe, TodoKnown, TypeOK
  <1>3. ~Settled /\ ~Settled' /\ connected /\ connected'
    BY DEF OCSubscribe, Settled
  <1>4. Subscriptions!Restore(g)
    BY <1>1, <1>2, <1>3 DEF OCSubscribe, Subscriptions!Restore, Link
  <1>5. QED
    BY <1>2, <1>4 DEF AStep, Subscriptions!ANext

\* onConnected o returns.  If it was the last one and b.conn is connected,
\* the step is Restored, and IInv gives subs = b.gateways before it.
LEMMA RefOCDone ==
  ASSUME TypeOK, InvRest, NEW o \in OCs, OCDone(o)
  PROVE  AStep
  <1>1. ~Settled
    BY DEF OCDone, Settled
  <1>2. CASE ~connected \/ ~Settled'
    BY <1>1, <1>2 DEF OCDone, AStep, Subscriptions!avars, Link
  <1>3. CASE connected /\ Settled'
    <2>1. \A p \in OCs : opc[p] # "rlock"
      BY <1>3 DEF OCDone, TypeOK, Settled
    <2>2. Running = {o}
      BY <1>3 DEF OCDone, TypeOK, Settled, Running
    <2>3. igw \ subs \subseteq otodo[o]
      BY <1>3, <2>1, <2>2 DEF InvRest, Coverage
    <2>4. subs = igw
      BY <2>3 DEF OCDone, InvRest, SubsKnown
    <2>5. Subscriptions!Restored
      BY <1>1, <1>3, <2>4 DEF OCDone, Subscriptions!Restored, Link
    <2>6. QED
      BY <2>5 DEF AStep, Subscriptions!ANext
  <1>4. QED
    BY <1>2, <1>3


\* Every step of the integration, from a state of IInv, is a step of the
\* abstract specification or a stutter of it.
LEMMA RefNext ==
  ASSUME IInv, [Next]_vars
  PROVE  AStep
  <1> USE DEF srcVars, fwdVars, connVars, cbVars, Claim, InCS, Release
  <1>0. TypeOK /\ InvRest /\ TodoKnown
    BY DEF IInv, TypeInv, InvRest
  <1>1. ASSUME NEW g \in Gateways, PullData(g) PROVE AStep
    BY <1>1, RefFrame DEF PullData
  <1>2. CASE Cleanup
    BY <1>2, RefFrame DEF Cleanup
  <1>3. CASE SetupLock
    BY <1>3, RefFrame DEF SetupLock
  <1>4. CASE SetupSubscribe
    <2>1. PICK g \in mtodo : SubscribeBody(g)
      BY <1>4 DEF SetupSubscribe
    <2>2. g \in Gateways
      BY <1>0 DEF TypeOK
    <2>3. QED
      BY <1>4, <2>1, <2>2, RefSubscribe DEF SetupSubscribe
  <1>5. CASE SetupStartLoops
    BY <1>5, RefFrame DEF SetupStartLoops
  <1>6. ASSUME NEW h \in Handlers, FcReceive(h) PROVE AStep
    BY <1>6, RefFrame DEF FcReceive
  <1>7. CASE FcLock
    BY <1>7, RefFrame DEF FcLock
  <1>8. CASE FcSubscribe
    BY <1>0, <1>8, RefSubscribe DEF FcSubscribe, TypeOK
  <1>9. ASSUME NEW g \in Gateways, FdReceive(g) PROVE AStep
    BY <1>9, RefFrame DEF FdReceive
  <1>10. CASE FdLock
    BY <1>10, RefFrame DEF FdLock
  <1>11. CASE FdUnsubscribe
    BY <1>0, <1>11, RefUnsubscribe DEF FdUnsubscribe, TypeOK
  <1>12. CASE LoseConnection
    BY <1>12, RefLose DEF LoseConnection
  <1>13. ASSUME NEW k \in 1..MaxLosses, LostLock(k) PROVE AStep
    BY <1>13, RefFrame DEF LostLock
  <1>14. ASSUME NEW k \in 1..MaxLosses, LostConnect(k) PROVE AStep
    <2>1. <<"lost", k>> \in OCs
      BY DEF OCs
    <2>2. CASE ConnectOK(<<"lost", k>>)
      BY <1>0, <1>14, <2>1, <2>2, RefConnect DEF LostConnect, ConnectOK
    <2>3. CASE ConnectFail
      BY <1>14, <2>3, RefLose DEF LostConnect, ConnectFail
    <2>4. QED
      BY <1>14, <2>2, <2>3 DEF LostConnect
  <1>15. CASE RWake
    BY <1>15, RefFrame DEF RWake
  <1>16. CASE RDiscLock
    BY <1>16, RefFrame DEF RDiscLock
  <1>17. CASE RDisconnect
    BY <1>17, RefLose DEF RDisconnect
  <1>18. CASE RConnLock
    BY <1>18, RefFrame DEF RConnLock
  <1>19. CASE RConnect
    <2>1. <<"rc", nrec>> \in OCs
      BY <1>19 DEF RConnect, IInv, TypeInv, CounterFacts, OCs
    <2>2. CASE ConnectOK(<<"rc", nrec>>)
      BY <1>0, <1>19, <2>1, <2>2, RefConnect DEF RConnect, ConnectOK
    <2>3. CASE ConnectFail
      BY <1>19, <2>3, RefLose DEF RConnect, ConnectFail
    <2>4. QED
      BY <1>19, <2>2, <2>3 DEF RConnect
  <1>20. ASSUME NEW o \in OCs, OCRLock(o) PROVE AStep
    BY <1>0, <1>20, RefOCRLock
  <1>21. ASSUME NEW o \in OCs, OCSubscribe(o) PROVE AStep
    BY <1>0, <1>21, RefOCSubscribe
  <1>22. ASSUME NEW o \in OCs, OCDone(o) PROVE AStep
    BY <1>0, <1>22, RefOCDone
  <1>23. CASE UNCHANGED vars
    BY <1>23, RefFrame DEF vars
  <1>24. QED
    BY <1>1, <1>2, <1>3, <1>4, <1>5, <1>6, <1>7, <1>8, <1>9, <1>10, <1>11,
       <1>12, <1>13, <1>14, <1>15, <1>16, <1>17, <1>18, <1>19, <1>20,
       <1>21, <1>22, <1>23, NextCases

\* The integration starts where the abstract specification does: nothing
\* known, nothing subscribed, and the first onConnected pending.
LEMMA RefInit == Init => Subscriptions!AInit
  <1> SUFFICES ASSUME Init PROVE Subscriptions!AInit
    OBVIOUS
  <1>1. <<"init", 0>> \in OCs
    BY DEF OCs
  <1>2. ~Settled
    BY <1>1 DEF Init, Settled
  <1>3. QED
    BY <1>2 DEF Init, Subscriptions!AInit, Link

\* The lifecycle path of the MQTT integration (SubscribeGateway,
\* UnsubscribeGateway, connect, onConnected, onConnectionLost, reconnect)
\* implements the abstract subscription specification MQTTSubscriptions
\* under the mapping known <- b.gateways, link <- Link, subs <- subs.
THEOREM BridgeRefines == Spec => ImplementsSubscriptions
  <1>1. IInv /\ [Next]_vars => AStep
    BY RefNext
  <1>2. QED
    BY <1>1, RefInit, IInvInvariant, PTL
       DEF Spec, ImplementsSubscriptions, Subscriptions!ASpec, AStep

=============================================================================
