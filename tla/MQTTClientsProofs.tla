------------------------- MODULE MQTTClientsProofs -------------------------
(***************************************************************************)
(* Proofs about the broker clients of the MQTT integration: b.conn is     *)
(* never left disconnected without a goroutine in connectLoop, for every  *)
(* number of client slots and every bound.                                 *)
(***************************************************************************)
EXTENDS MQTTClients, TLAPS

\* Where each goroutine can be: an onConnectionLost goroutine is idle or in
\* connectLoop, reconnectLoop is at its check, about to disconnect, in
\* connectLoop or returned, and Close has set b.closed once it is past
\* its locked section.
ActorPCs ==
  /\ \A c \in Clients : pc[LostId(c)] \in {"idle"} \cup Looping
  /\ pc[RcId] \in {"check", "disc", "exited"} \cup Looping
  /\ pc[CloseId] \in {"idle", "disc", "done"}
  /\ pc[CloseId] # "idle" => closed

IInv == TypeOK /\ ActorPCs /\ NeverAbandoned


\* The goroutines are told apart by their ids.
LEMMA ActorIds ==
  /\ \A c \in Clients : LostId(c) # RcId /\ LostId(c) # CloseId
  /\ RcId # CloseId
  /\ \A c, d \in Clients : LostId(c) = LostId(d) => c = d
  /\ NoOwner \notin Actors
  BY DEF LostId, RcId, CloseId, NoOwner, Actors

LEMMA NextCases ==
  ASSUME Next
  PROVE  \/ \E c \in Clients : Lose(c)
         \/ \E a \in Actors : ConnLock(a) \/ DialOK(a) \/ DialFail(a) \/ Retry(a)
         \/ RExit \/ RWake \/ RDisc \/ CloseLock \/ CloseDisc
         \/ UNCHANGED vars
  BY DEF Next, ConnectLoop, ReconnectLoop, Terminating, Actors

PCs == {"idle", "check", "disc", "exited", "done"} \cup Looping

\* Every step keeps the types.
LEMMA TypeNext ==
  ASSUME TypeOK, Next
  PROVE  TypeOK'
  <1> USE MQTTClientsAssumption DEF TypeOK, Looping, Actors
  <1>1. ASSUME NEW c \in Clients, Lose(c) PROVE TypeOK'
    BY <1>1 DEF Lose, LostId
  <1>2. ASSUME NEW a \in Actors, ConnLock(a) PROVE TypeOK'
    BY <1>2 DEF ConnLock
  <1>3. ASSUME NEW a \in Actors, DialOK(a) PROVE TypeOK'
    <2>1. Kicked \subseteq Clients
      BY DEF Kicked
    <2>2. AfterConnect(a) \in PCs
      BY DEF AfterConnect, PCs
    <2>3. {LostId(c) : c \in Kicked} \subseteq Actors
      BY <2>1 DEF Actors
    <2>4. pc' \in [Actors -> PCs]
      BY <1>3, <2>2 DEF DialOK, PCs, Looping
    <2>5. cst' \in [Clients -> {"down", "dialing", "up"}]
      BY <1>3 DEF DialOK
    <2>6. QED
      BY <1>3, <2>4, <2>5 DEF DialOK, PCs
  <1>4. ASSUME NEW a \in Actors, DialFail(a) PROVE TypeOK'
    BY <1>4 DEF DialFail
  <1>5. ASSUME NEW a \in Actors, Retry(a) PROVE TypeOK'
    BY <1>5 DEF Retry
  <1>6. CASE RExit
    BY <1>6 DEF RExit, Actors
  <1>7. CASE RWake
    BY <1>7 DEF RWake, Actors
  <1>8. CASE RDisc
    BY <1>8 DEF RDisc, DisconnectConn, Actors
  <1>9. CASE CloseLock
    BY <1>9 DEF CloseLock, Actors
  <1>10. CASE CloseDisc
    BY <1>10 DEF CloseDisc, DisconnectConn, Actors
  <1>11. CASE UNCHANGED vars
    BY <1>11 DEF vars
  <1>12. QED
    BY <1>1, <1>2, <1>3, <1>4, <1>5, <1>6, <1>7, <1>8, <1>9, <1>10, <1>11,
       NextCases

LEMMA TypeInit == Init => TypeOK
  <1> SUFFICES ASSUME Init PROVE TypeOK
    OBVIOUS
  <1>1. pc \in [Actors -> PCs]
    <2>1. \A a \in Actors : (IF Reconnects THEN "check" ELSE "exited") \in PCs
      BY DEF PCs
    <2>2. QED
      BY <2>1 DEF Init, PCs
  <1>2. cst \in [Clients -> {"down", "dialing", "up"}] /\ conn \in Clients
    BY DEF Init
  <1>3. owner \in Actors \cup {NoOwner} /\ closed \in BOOLEAN
    BY DEF Init
  <1>4. nloss \in 0..MaxLosses /\ nfail \in 0..MaxFails /\ nrec \in 0..MaxReconnects
    BY MQTTClientsAssumption DEF Init
  <1>5. QED
    BY <1>1, <1>2, <1>3, <1>4 DEF TypeOK, PCs

LEMMA TypeStep == TypeOK /\ [Next]_vars => TypeOK'
  BY TypeNext DEF vars, TypeOK

\* The goroutines of the integration's client handling only take the
\* values their code gives them.
THEOREM ClientsTypeCorrect == Spec => []TypeOK
  BY TypeInit, TypeStep, PTL DEF Spec


-----------------------------------------------------------------------------
(* Recovery is never abandoned.                                            *)

Working == Looping \cup {"disc"}

LEMMA IInvInit == Init => IInv
  <1> SUFFICES ASSUME Init PROVE IInv
    OBVIOUS
  <1>1. TypeOK
    BY TypeInit
  <1>2. ActorPCs
    BY ActorIds, MQTTClientsAssumption DEF Init, ActorPCs, Looping, Actors
  <1>3. NeverAbandoned
    BY DEF Init, NeverAbandoned
  <1>4. QED
    BY <1>1, <1>2, <1>3 DEF IInv

\* The goroutine-position facts are kept by every step.
LEMMA PCsNext ==
  ASSUME TypeOK, ActorPCs, Next
  PROVE  (ActorPCs)'
  <1> USE ActorIds DEF ActorPCs, TypeOK, Looping
  <1>1. ASSUME NEW c \in Clients, Lose(c) PROVE ActorPCs'
    BY <1>1 DEF Lose
  <1>2. ASSUME NEW a \in Actors, ConnLock(a) PROVE ActorPCs'
    BY <1>2 DEF ConnLock, Actors
  <1>3. ASSUME NEW a \in Actors, DialOK(a) PROVE ActorPCs'
    <2>1. a # CloseId
      BY <1>3 DEF DialOK
    <2>2. \A c \in Clients : pc'[LostId(c)] \in {"idle"} \cup Looping
      BY <1>3 DEF DialOK, AfterConnect, Actors
    <2>3. pc'[RcId] \in {"check", "disc", "exited"} \cup Looping
      BY <1>3 DEF DialOK, AfterConnect, Actors
    <2>4. pc'[CloseId] = pc[CloseId] /\ closed' = closed
      BY <1>3, <2>1 DEF DialOK, Actors, Kicked
    <2>5. QED
      BY <2>2, <2>3, <2>4
  <1>4. ASSUME NEW a \in Actors, DialFail(a) PROVE ActorPCs'
    BY <1>4 DEF DialFail, Actors
  <1>5. ASSUME NEW a \in Actors, Retry(a) PROVE ActorPCs'
    BY <1>5 DEF Retry, Actors
  <1>6. CASE RExit
    BY <1>6 DEF RExit
  <1>7. CASE RWake
    BY <1>7 DEF RWake
  <1>8. CASE RDisc
    BY <1>8 DEF RDisc, DisconnectConn
  <1>9. CASE CloseLock
    BY <1>9 DEF CloseLock
  <1>10. CASE CloseDisc
    BY <1>10 DEF CloseDisc, DisconnectConn
  <1>11. CASE UNCHANGED vars
    BY <1>11 DEF vars
  <1>12. QED
    BY <1>1, <1>2, <1>3, <1>4, <1>5, <1>6, <1>7, <1>8, <1>9, <1>10, <1>11,
       NextCases

\* Every step keeps a goroutine in connectLoop while b.conn is down.
LEMMA AbandonNext ==
  ASSUME TypeOK, ActorPCs, NeverAbandoned, Next
  PROVE  (NeverAbandoned)'
  <1> SUFFICES ASSUME ~closed', cst'[conn'] # "up"
               PROVE  \E a \in Actors \ {CloseId} : pc'[a] \in Working
    BY DEF NeverAbandoned, Working
  <1> USE ActorIds DEF TypeOK, Looping, Working
  <1>1. ASSUME NEW c \in Clients, Lose(c)
        PROVE  \E a \in Actors \ {CloseId} : pc'[a] \in Working
    <2>1. CASE c = conn
      BY <1>1, <2>1 DEF Lose, Actors
    <2>2. CASE c # conn
      <3>1. PICK b \in Actors \ {CloseId} : pc[b] \in Working
        BY <1>1, <2>2 DEF Lose, NeverAbandoned
      <3>2. pc'[b] \in Working
        BY <1>1, <3>1 DEF Lose, Actors
      <3>3. QED
        BY <3>1, <3>2
    <2>3. QED
      BY <2>1, <2>2
  <1>2. ASSUME NEW a \in Actors, ConnLock(a)
        PROVE  \E x \in Actors \ {CloseId} : pc'[x] \in Working
    <2>1. a # CloseId
      BY <1>2 DEF ConnLock, ActorPCs
    <2>2. QED
      BY <1>2, <2>1 DEF ConnLock
  <1>3. ASSUME NEW a \in Actors, DialOK(a)
        PROVE  \E x \in Actors \ {CloseId} : pc'[x] \in Working
    BY <1>3 DEF DialOK
  <1>4. ASSUME NEW a \in Actors, DialFail(a)
        PROVE  \E x \in Actors \ {CloseId} : pc'[x] \in Working
    <2>1. a # CloseId
      BY <1>4 DEF DialFail, ActorPCs
    <2>2. QED
      BY <1>4, <2>1 DEF DialFail
  <1>5. ASSUME NEW a \in Actors, Retry(a)
        PROVE  \E x \in Actors \ {CloseId} : pc'[x] \in Working
    <2>1. a # CloseId
      BY <1>5 DEF Retry, ActorPCs
    <2>2. QED
      BY <1>5, <2>1 DEF Retry
  <1>6. CASE RExit
    <2>1. PICK b \in Actors \ {CloseId} : pc[b] \in Working
      BY <1>6 DEF RExit, NeverAbandoned
    <2>2. b # RcId
      BY <1>6, <2>1 DEF RExit
    <2>3. QED
      BY <1>6, <2>1, <2>2 DEF RExit
  <1>7. CASE RWake
    BY <1>7 DEF RWake, Actors
  <1>8. CASE RDisc
    BY <1>8 DEF RDisc, Actors
  <1>9. CASE CloseLock
    BY <1>9 DEF CloseLock
  <1>10. CASE CloseDisc
    BY <1>10 DEF CloseDisc, ActorPCs
  <1>11. CASE UNCHANGED vars
    BY <1>11 DEF vars, NeverAbandoned
  <1>12. QED
    BY <1>1, <1>2, <1>3, <1>4, <1>5, <1>6, <1>7, <1>8, <1>9, <1>10, <1>11,
       NextCases

LEMMA IInvStep == IInv /\ [Next]_vars => IInv'
  <1> SUFFICES ASSUME IInv, [Next]_vars PROVE IInv'
    OBVIOUS
  <1>1. CASE Next
    BY <1>1, TypeNext, PCsNext, AbandonNext DEF IInv
  <1>2. CASE UNCHANGED vars
    BY <1>2 DEF IInv, vars, TypeOK, ActorPCs, NeverAbandoned
  <1>3. QED
    BY <1>1, <1>2

\* While the integration is not closed and b.conn is not connected, an
\* onConnectionLost goroutine or reconnectLoop is in connectLoop (or about
\* to disconnect and enter it): connectLoop retries every failed connect()
\* and every lost connection starts its handler.
THEOREM RecoveryNeverAbandoned == Spec => []NeverAbandoned
  <1>1. IInv => NeverAbandoned
    BY DEF IInv
  <1>2. QED
    BY <1>1, IInvInit, IInvStep, PTL DEF Spec


---------------------------------------------------------------------------------
(* One broker session.                                                     *)

LEMMA SessionInit == Init => SingleSession
  BY DEF Init, SingleSession

LEMMA SessionNext ==
  ASSUME TypeOK, ActorPCs, SingleSession, Next
  PROVE  SingleSession'
  <1> SUFFICES ASSUME FixedClientID, NEW c \in Clients,
                      cst'[c] = "up", c # conn'
               PROVE  /\ cst'[conn'] # "up"
                      /\ \E a \in Actors \ {CloseId} : pc'[a] \in Looping
    BY DEF SingleSession
  <1> USE ActorIds DEF TypeOK, Looping
  \* The goroutine in connectLoop that SingleSession names before the step.
  <1> DEFINE Witness ==
             cst[conn] # "up" /\ \E a \in Actors \ {CloseId} : pc[a] \in Looping
  <1>1. ASSUME NEW x \in Clients, Lose(x)
        PROVE  cst'[conn'] # "up" /\ \E a \in Actors \ {CloseId} : pc'[a] \in Looping
    <2>1. cst[c] = "up" /\ c # conn /\ conn' = conn
      BY <1>1 DEF Lose
    <2>2. PICK b \in Actors \ {CloseId} : pc[b] \in Looping
      BY <2>1 DEF SingleSession
    <2>3. cst[conn] # "up"
      BY <2>1 DEF SingleSession
    <2>4. QED
      BY <1>1, <2>2, <2>3 DEF Lose, Actors
  <1>2. ASSUME NEW a \in Actors, ConnLock(a)
        PROVE  cst'[conn'] # "up" /\ \E x \in Actors \ {CloseId} : pc'[x] \in Looping
    <2>1. a # CloseId
      BY <1>2 DEF ConnLock, ActorPCs
    <2>2. QED
      BY <1>2, <2>1 DEF ConnLock
  <1>3. ASSUME NEW a \in Actors, DialOK(a)
        PROVE  cst'[conn'] # "up" /\ \E x \in Actors \ {CloseId} : pc'[x] \in Looping
    <2>1. conn' = conn /\ cst'[c] = IF c \in Kicked THEN "down" ELSE cst[c]
      BY <1>3 DEF DialOK
    <2>2. FALSE
      BY <2>1 DEF Kicked
    <2>3. QED
      BY <2>2
  <1>4. ASSUME NEW a \in Actors, DialFail(a)
        PROVE  cst'[conn'] # "up" /\ \E x \in Actors \ {CloseId} : pc'[x] \in Looping
    <2>1. a # CloseId
      BY <1>4 DEF DialFail, ActorPCs
    <2>2. QED
      BY <1>4, <2>1 DEF DialFail
  <1>5. ASSUME NEW a \in Actors, Retry(a)
        PROVE  cst'[conn'] # "up" /\ \E x \in Actors \ {CloseId} : pc'[x] \in Looping
    <2>1. Witness
      BY <1>5 DEF Retry, SingleSession
    <2>2. QED
      BY <1>5, <2>1 DEF Retry
  <1>6. ASSUME RExit \/ RWake \/ RDisc
        PROVE  cst'[conn'] # "up" /\ \E x \in Actors \ {CloseId} : pc'[x] \in Looping
    <2>1. cst[c] = "up" /\ c # conn /\ conn' = conn
      BY <1>6 DEF RExit, RWake, RDisc, DisconnectConn
    <2>2. PICK b \in Actors \ {CloseId} : pc[b] \in Looping
      BY <2>1 DEF SingleSession
    <2>3. cst[conn] # "up"
      BY <2>1 DEF SingleSession
    <2>4. b # RcId
      BY <1>6, <2>2 DEF RExit, RWake, RDisc
    <2>5. pc'[b] = pc[b] /\ cst'[conn] # "up"
      BY <1>6, <2>3, <2>4 DEF RExit, RWake, RDisc, DisconnectConn
    <2>6. QED
      BY <2>1, <2>2, <2>5
  <1>7. ASSUME CloseLock \/ CloseDisc
        PROVE  cst'[conn'] # "up" /\ \E x \in Actors \ {CloseId} : pc'[x] \in Looping
    <2>1. cst[c] = "up" /\ c # conn /\ conn' = conn
      BY <1>7 DEF CloseLock, CloseDisc, DisconnectConn
    <2>2. PICK b \in Actors \ {CloseId} : pc[b] \in Looping
      BY <2>1 DEF SingleSession
    <2>3. cst[conn] # "up"
      BY <2>1 DEF SingleSession
    <2>4. pc'[b] = pc[b] /\ cst'[conn] # "up"
      BY <1>7, <2>2, <2>3 DEF CloseLock, CloseDisc, DisconnectConn
    <2>5. QED
      BY <2>1, <2>2, <2>4
  <1>8. CASE UNCHANGED vars
    BY <1>8 DEF vars, SingleSession
  <1>9. QED
    BY <1>1, <1>2, <1>3, <1>4, <1>5, <1>6, <1>7, <1>8, NextCases

LEMMA SessionStep ==
  IInv /\ SingleSession /\ [Next]_vars => SingleSession'
  <1> SUFFICES ASSUME IInv, SingleSession, [Next]_vars PROVE SingleSession'
    OBVIOUS
  <1>1. CASE Next
    BY <1>1, SessionNext DEF IInv
  <1>2. CASE UNCHANGED vars
    BY <1>2 DEF vars, SingleSession
  <1>3. QED
    BY <1>1, <1>2

\* With the Azure auth's fixed ClientID, for every number of client slots
\* and every bound: whenever b.conn is connected it is the integration's
\* only broker session, and a client that connect() replaced without
\* disconnecting it stays connected only while a connectLoop runs.
THEOREM OneBrokerSession == Spec => []SingleSession
  <1>1. IInv /\ SingleSession /\ [Next]_vars => (IInv /\ SingleSession)'
    BY IInvStep, SessionStep
  <1>2. Init => IInv /\ SingleSession
    BY IInvInit, SessionInit
  <1>3. QED
    BY <1>1, <1>2, PTL DEF Spec

====
