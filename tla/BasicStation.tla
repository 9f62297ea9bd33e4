---------------------------- MODULE BasicStation ----------------------------
(***************************************************************************)
(* The Basic Station backend (package basicstation): per-connection        *)
(* goroutines and the writers of a websocket connection.                   *)
(*                                                                         *)
(* Goroutines modelled, each with its own program counter:                *)
(*  - the HTTP handler of one websocket connection c: websocketWrap        *)
(*    (upgrade, ping goroutine, deferred ticker.Stop and conn.Close)       *)
(*    around handleGateway (id check, registry set, read loop, deferred    *)
(*    registry remove);                                                    *)
(*  - the ping goroutine websocketWrap starts for c;                       *)
(*  - the goroutines the forwarder starts for each downlink frame and      *)
(*    gateway configuration: SendDownlinkFrame and ApplyConfiguration     *)
(*    both end in sendToGateway (registry get, then conn.WriteJSON).       *)
(* The registry (gateways.get/set/remove, each atomic under its own lock)  *)
(* maps an id to the connection set for it.  Messages read by the loop    *)
(* are handed to forwarder loops that start a goroutine per message, so   *)
(* a read message changes none of the modelled state; the loop is the     *)
(* read that ends it.  A read or a write may fail at any time (deadline,  *)
(* peer gone).  The connect and disconnect events of set and remove are   *)
(* left to module Bridge.                                                  *)
(***************************************************************************)
EXTENDS Integers, FiniteSets

CONSTANTS
  Gateways,   \* gateway EUIs named in /gateway/{id} URLs (model values)
  Conns,      \* websocket connection attempts (model values)
  NoConn,     \* registry value of an id with no entry
  MaxPings,   \* bound: ticks of one ping goroutine
  MaxSends    \* bound: SendDownlinkFrame / ApplyConfiguration calls

ASSUME BasicStationAssumption ==
  /\ Gateways # {} /\ NoConn \notin Conns
  /\ MaxPings \in Nat /\ MaxSends \in Nat

Sends == 1..MaxSends
AnyGw == CHOOSE g \in Gateways : TRUE   \* value of an unused id variable

VARIABLES
  cpc,      \* handler of c: "idle", "get", "set", "loop", "ret", "closed"
  cid,      \* the id of c's URL
  open,     \* c's websocket is not closed
  ticking,  \* c's ticker runs (not yet stopped)
  ppc,      \* ping goroutine of c: "off", "wait", "write"
  npings,
  reg,      \* b.gateways.gateways: id -> connection
  spc,      \* sender s: "idle", "write", "done"
  sconn     \* the connection sender s writes to

handlerVars == <<cpc, cid, open, ticking>>
pingVars    == <<ppc, npings>>
sendVars    == <<spc, sconn>>
vars        == <<handlerVars, pingVars, reg, sendVars>>

TypeOK ==
  /\ cpc \in [Conns -> {"idle", "get", "set", "loop", "ret", "closed"}]
  /\ cid \in [Conns -> Gateways]
  /\ open \in [Conns -> BOOLEAN] /\ ticking \in [Conns -> BOOLEAN]
  /\ ppc \in [Conns -> {"off", "wait", "write"}]
  /\ npings \in [Conns -> 0..MaxPings]
  /\ reg \in [Gateways -> Conns \cup {NoConn}]
  /\ spc \in [Sends -> {"idle", "write", "done"}]
  /\ sconn \in [Sends -> Conns \cup {NoConn}]

Init ==
  /\ cpc = [c \in Conns |-> "idle"] /\ cid = [c \in Conns |-> AnyGw]
  /\ open = [c \in Conns |-> FALSE] /\ ticking = [c \in Conns |-> FALSE]
  /\ ppc = [c \in Conns |-> "off"] /\ npings = [c \in Conns |-> 0]
  /\ reg = [g \in Gateways |-> NoConn]
  /\ spc = [s \in Sends |-> "idle"] /\ sconn = [s \in Sends |-> NoConn]

-----------------------------------------------------------------------------
(* The registry (not under src/; the spec's "Basic Station registry").     *)

RegSet(g, c) == reg' = [reg EXCEPT ![g] = c]
RegRemove(g) == reg' = [reg EXCEPT ![g] = NoConn]

-----------------------------------------------------------------------------
(* websocketWrap and handleGateway.                                        *)

\* A request on "/" for /gateway/{g}: upgrader.Upgrade; on error return.
\* Otherwise start the ticker and the ping goroutine, then handleGateway,
\* whose URL parsing may fail (return before anything is registered).
Accept(c, g) ==
  /\ cpc[c] = "idle" /\ cid' = [cid EXCEPT ![c] = g]
  /\ \/ cpc' = [cpc EXCEPT ![c] = "closed"]
        /\ UNCHANGED <<open, ticking, pingVars>>
     \/ /\ cpc' \in {[cpc EXCEPT ![c] = "get"], [cpc EXCEPT ![c] = "ret"]}
        /\ open' = [open EXCEPT ![c] = TRUE]
        /\ ticking' = [ticking EXCEPT ![c] = TRUE]
        /\ ppc' = [ppc EXCEPT ![c] = "wait"] /\ UNCHANGED npings
  /\ UNCHANGED <<reg, sendVars>>

\* "make sure we're not overwriting an existing connection": b.gateways.get.
GetCheck(c) ==
  /\ cpc[c] = "get"
  /\ cpc' = [cpc EXCEPT ![c] = IF reg[cid[c]] # NoConn THEN "ret" ELSE "set"]
  /\ UNCHANGED <<cid, open, ticking, pingVars, reg, sendVars>>

\* b.gateways.set(gatewayID, gateway{conn: c}), then the read loop.
SetEntry(c) ==
  /\ cpc[c] = "set" /\ RegSet(cid[c], c)
  /\ cpc' = [cpc EXCEPT ![c] = "loop"]
  /\ UNCHANGED <<cid, open, ticking, pingVars, sendVars>>

\* Mutant: handleGateway without its deferred b.gateways.remove.
ReadErrorNoRemove(c) ==
  /\ cpc[c] = "loop" /\ cpc' = [cpc EXCEPT ![c] = "ret"]
  /\ UNCHANGED <<cid, open, ticking, pingVars, reg, sendVars>>

\* c.ReadMessage fails (read deadline, peer closed, conn.Close by the ping
\* goroutine): the loop returns and the deferred b.gateways.remove(id) runs.
ReadError(c) ==
  /\ cpc[c] = "loop" /\ RegRemove(cid[c])
  /\ cpc' = [cpc EXCEPT ![c] = "ret"]
  /\ UNCHANGED <<cid, open, ticking, pingVars, sendVars>>

\* handleGateway has returned: websocketWrap's deferred ticker.Stop(), then
\* its deferred conn.Close().
WrapReturn(c) ==
  /\ cpc[c] = "ret"
  /\ cpc' = [cpc EXCEPT ![c] = "closed"]
  /\ ticking' = [ticking EXCEPT ![c] = FALSE]
  /\ open' = [open EXCEPT ![c] = FALSE]
  /\ UNCHANGED <<cid, pingVars, reg, sendVars>>

-----------------------------------------------------------------------------
(* The ping goroutine: for { select { case <-ticker.C: ... } }.            *)

\* The ticker fires: conn.SetWriteDeadline, conn.WriteMessage(PingMessage).
PingTick(c) ==
  /\ ppc[c] = "wait" /\ ticking[c] /\ npings[c] < MaxPings
  /\ ppc' = [ppc EXCEPT ![c] = "write"]
  /\ npings' = [npings EXCEPT ![c] = npings[c] + 1]
  /\ UNCHANGED <<handlerVars, reg, sendVars>>

\* WriteMessage returns; on error (always on a closed connection) the
\* goroutine calls conn.Close().  Either way it waits for the next tick.
PingDone(c) ==
  /\ ppc[c] = "write"
  /\ ppc' = [ppc EXCEPT ![c] = "wait"]
  /\ \/ open[c] /\ UNCHANGED open
     \/ open' = [open EXCEPT ![c] = FALSE]
  /\ UNCHANGED <<cpc, cid, ticking, npings, reg, sendVars>>

-----------------------------------------------------------------------------
(* sendToGateway, from a forwarder goroutine.                              *)

\* SendDownlinkFrame or ApplyConfiguration for gateway g: b.gateways.get;
\* an unknown id returns "get gateway error", else SetWriteDeadline and
\* WriteJSON on the connection found.
SendLookup(s, g) ==
  /\ spc[s] = "idle"
  /\ IF reg[g] = NoConn
       THEN spc' = [spc EXCEPT ![s] = "done"] /\ UNCHANGED sconn
       ELSE spc' = [spc EXCEPT ![s] = "write"]
            /\ sconn' = [sconn EXCEPT ![s] = reg[g]]
  /\ UNCHANGED <<handlerVars, pingVars, reg>>

\* WriteJSON returns (an error on a closed connection is returned).
SendWrite(s) ==
  /\ spc[s] = "write" /\ spc' = [spc EXCEPT ![s] = "done"]
  /\ UNCHANGED <<handlerVars, pingVars, reg, sconn>>

-----------------------------------------------------------------------------

Handler(c) ==
  \/ \E g \in Gateways : Accept(c, g)
  \/ GetCheck(c) \/ SetEntry(c) \/ ReadError(c) \/ WrapReturn(c)

Pinger(c) == PingTick(c) \/ PingDone(c)

Sender(s) == \/ \E g \in Gateways : SendLookup(s, g)
             \/ SendWrite(s)

\* Every connection attempt has been served and every sender has returned;
\* ping goroutines wait on a stopped ticker for good.
Served ==
  /\ \A c \in Conns : cpc[c] \in {"idle", "closed"} /\ ppc[c] # "write"
  /\ \A s \in Sends : spc[s] # "write"

Next ==
  \/ \E c \in Conns : Handler(c) \/ Pinger(c)
  \/ \E s \in Sends : Sender(s)
  \/ Served /\ UNCHANGED vars

\* The Go scheduler runs each runnable goroutine, and the ticker fires
\* while the ping goroutine runs.  A read error is not forced: a live
\* gateway's every message resets the read deadline (part_001:862), so its
\* read loop need not end.  Arriving connections and calls are not forced.
Fairness ==
  /\ \A c \in Conns :
       /\ WF_vars(GetCheck(c) \/ SetEntry(c) \/ WrapReturn(c))
       /\ WF_vars(Pinger(c))
  /\ \A s \in Sends : WF_vars(SendWrite(s))

Spec == Init /\ [][Next]_vars /\ Fairness

-----------------------------------------------------------------------------
(* Properties.                                                             *)

\* The goroutines inside a write method of connection c: its ping
\* goroutine and the senders that looked c up.
PingWriting(c) == IF ppc[c] = "write" THEN 1 ELSE 0
SendWriters(c) == {s \in Sends : spc[s] = "write" /\ sconn[s] = c}

\* sendToGateway relies on the registry: an entry names a connection whose
\* handleGateway has not returned (its deferred remove is still to run) and
\* that was opened for that id, so a downlink never reaches a connection
\* that is gone for good or belongs to another gateway.
RegistryEntryLive ==
  \A g \in Gateways :
    reg[g] # NoConn => cpc[reg[g]] = "loop" /\ cid[reg[g]] = g

\* gorilla/websocket allows one concurrent writer per connection (it panics
\* on "concurrent write to websocket connection"): the ping goroutine and
\* the sendToGateway calls of the forwarder's goroutines never write to one
\* connection at the same time.
NoConcurrentWrite ==
  \A c \in Conns : PingWriting(c) + Cardinality(SendWriters(c)) <= 1

\* Spec section 3: a second connection for an id that has a live entry is
\* rejected, so at most one handler per id is in its read loop.
OneLiveConnectionPerId ==
  \A c, d \in Conns :
    cpc[c] = "loop" /\ cpc[d] = "loop" /\ cid[c] = cid[d] => c = d

=============================================================================
