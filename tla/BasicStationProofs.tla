------------------------- MODULE BasicStationProofs -------------------------
(***************************************************************************)
(* Proofs about the Basic Station model, for every value of the constants: *)
(*  - type correctness, and                                                *)
(*  - RegistryEntryLive: a registry entry names a connection of its own id *)
(*    whose handleGateway is still in its read loop.                       *)
(* RegistryEntryLive is inductive given TypeOK: only SetEntry writes a     *)
(* connection into the registry, under the id of its URL and entering the  *)
(* loop, and the loop is left only by ReadError, whose remove clears the   *)
(* entry of that id.                                                       *)
(***************************************************************************)
EXTENDS BasicStation, TLAPS

USE BasicStationAssumption

\* The actions of Next.
LEMMA BSNextCases ==
  ASSUME Next
  PROVE  \/ \E c \in Conns : \E g \in Gateways : Accept(c, g)
         \/ \E c \in Conns : GetCheck(c) \/ SetEntry(c) \/ ReadError(c)
                             \/ WrapReturn(c) \/ PingTick(c) \/ PingDone(c)
         \/ \E s \in Sends : (\E g \in Gateways : SendLookup(s, g))
                             \/ SendWrite(s)
         \/ UNCHANGED vars
  BY DEF Next, Handler, Pinger, Sender

LEMMA BSTypeInit == Init => TypeOK
  BY DEF Init, TypeOK, AnyGw, Sends

LEMMA BSTypeNext == TypeOK /\ [Next]_vars => TypeOK'
  <1> SUFFICES ASSUME TypeOK, [Next]_vars PROVE TypeOK'
    OBVIOUS
  <1> USE DEF TypeOK, handlerVars, pingVars, sendVars
  <1>1. ASSUME NEW c \in Conns, NEW g \in Gateways, Accept(c, g) PROVE TypeOK'
    BY <1>1 DEF Accept
  <1>2. ASSUME NEW c \in Conns, GetCheck(c) PROVE TypeOK'
    BY <1>2 DEF GetCheck
  <1>3. ASSUME NEW c \in Conns, SetEntry(c) PROVE TypeOK'
    BY <1>3 DEF SetEntry, RegSet
  <1>4. ASSUME NEW c \in Conns, ReadError(c) PROVE TypeOK'
    BY <1>4 DEF ReadError, RegRemove
  <1>5. ASSUME NEW c \in Conns, WrapReturn(c) PROVE TypeOK'
    BY <1>5 DEF WrapReturn
  <1>6. ASSUME NEW c \in Conns, PingTick(c) PROVE TypeOK'
    BY <1>6 DEF PingTick
  <1>7. ASSUME NEW c \in Conns, PingDone(c) PROVE TypeOK'
    BY <1>7 DEF PingDone
  <1>8. ASSUME NEW s \in Sends, NEW g \in Gateways, SendLookup(s, g)
        PROVE TypeOK'
    BY <1>8 DEF SendLookup
  <1>9. ASSUME NEW s \in Sends, SendWrite(s) PROVE TypeOK'
    BY <1>9 DEF SendWrite
  <1>10. CASE UNCHANGED vars
    BY <1>10 DEF vars
  <1>11. QED
    BY <1>1, <1>2, <1>3, <1>4, <1>5, <1>6, <1>7, <1>8, <1>9, <1>10,
       BSNextCases

\* Every variable of the Basic Station model keeps its type: handlers,
\* ping goroutines, the registry and the sendToGateway goroutines.
THEOREM BasicStationTypeCorrect == Spec => []TypeOK
  BY BSTypeInit, BSTypeNext, PTL DEF Spec

-----------------------------------------------------------------------------

LEMMA LiveNext == TypeOK /\ RegistryEntryLive /\ [Next]_vars
                    => RegistryEntryLive'
  <1> SUFFICES ASSUME TypeOK, RegistryEntryLive, [Next]_vars
               PROVE  RegistryEntryLive'
    OBVIOUS
  <1> USE DEF handlerVars, pingVars, sendVars
  <1>1. ASSUME NEW c \in Conns, NEW g \in Gateways, Accept(c, g)
        PROVE RegistryEntryLive'
    BY <1>1 DEF Accept, RegistryEntryLive, TypeOK
  <1>2. ASSUME NEW c \in Conns, GetCheck(c) PROVE RegistryEntryLive'
    BY <1>2 DEF GetCheck, RegistryEntryLive, TypeOK
  <1>3. ASSUME NEW c \in Conns, SetEntry(c) PROVE RegistryEntryLive'
    BY <1>3 DEF SetEntry, RegSet, RegistryEntryLive, TypeOK
  <1>4. ASSUME NEW c \in Conns, ReadError(c) PROVE RegistryEntryLive'
    BY <1>4 DEF ReadError, RegRemove, RegistryEntryLive, TypeOK
  <1>5. ASSUME NEW c \in Conns, WrapReturn(c) PROVE RegistryEntryLive'
    BY <1>5 DEF WrapReturn, RegistryEntryLive, TypeOK
  <1>6. ASSUME NEW c \in Conns, PingTick(c) \/ PingDone(c)
        PROVE RegistryEntryLive'
    BY <1>6 DEF PingTick, PingDone, RegistryEntryLive
  <1>7. ASSUME NEW s \in Sends, (\E g \in Gateways : SendLookup(s, g))
                                \/ SendWrite(s)
        PROVE RegistryEntryLive'
    BY <1>7 DEF SendLookup, SendWrite, RegistryEntryLive
  <1>8. CASE UNCHANGED vars
    BY <1>8 DEF vars, RegistryEntryLive
  <1>9. QED
    BY <1>1, <1>2, <1>3, <1>4, <1>5, <1>6, <1>7, <1>8, BSNextCases

\* For every number of connections, gateways, pings and sends, a registry
\* entry names a connection opened for that id whose handleGateway has
\* not returned: sendToGateway never finds a connection of another
\* gateway or one whose handler is gone.
THEOREM RegistryLive == Spec => []RegistryEntryLive
  <1>1. Init => TypeOK /\ RegistryEntryLive
    BY BSTypeInit DEF Init, RegistryEntryLive
  <1>2. TypeOK /\ RegistryEntryLive /\ [Next]_vars
          => (TypeOK /\ RegistryEntryLive)'
    BY BSTypeNext, LiveNext
  <1>3. QED
    BY <1>1, <1>2, PTL DEF Spec

=============================================================================
