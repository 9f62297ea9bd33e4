-------------------------- MODULE MQTTSubscriptions --------------------------
(***************************************************************************)
(* What the MQTT integration promises about command subscriptions (spec   *)
(* section 4.5), without goroutines or locks:                              *)
(*  - known, the known-subscriptions set, changes one id at a time, by     *)
(*    SubscribeGateway or UnsubscribeGateway, and only on a live link      *)
(*    (a failed call changes nothing);                                     *)
(*  - a lost link, or a new connection, drops every subscription;          *)
(*  - after a connect the link is "restoring" while ids of known are       *)
(*    subscribed again, and it is "up" only once the broker holds exactly  *)
(*    known.                                                               *)
(***************************************************************************)
EXTENDS TLAPS

CONSTANT Gateways

VARIABLES
  known,  \* ids whose command topic should be subscribed
  link,   \* "down", "restoring", "up"
  subs    \* ids whose command topic the broker client has subscribed

avars == <<known, link, subs>>

ATypeOK ==
  /\ known \subseteq Gateways /\ subs \subseteq Gateways
  /\ link \in {"down", "restoring", "up"}

AInit == known = {} /\ link = "restoring" /\ subs = {}

Subscribe(g) ==
  /\ link # "down"
  /\ known' = known \cup {g} /\ subs' = subs \cup {g}
  /\ UNCHANGED link

Unsubscribe(g) ==
  /\ link # "down"
  /\ known' = known \ {g} /\ subs' = subs \ {g}
  /\ UNCHANGED link

Lose ==
  /\ link' = "down" /\ subs' = {}
  /\ UNCHANGED known

Connect ==
  /\ link' = "restoring" /\ subs' = {}
  /\ UNCHANGED known

Restore(g) ==
  /\ link = "restoring" /\ g \in known
  /\ subs' = subs \cup {g}
  /\ UNCHANGED <<known, link>>

Restored ==
  /\ link = "restoring" /\ subs = known
  /\ link' = "up"
  /\ UNCHANGED <<known, subs>>

ANext ==
  \/ \E g \in Gateways : Subscribe(g) \/ Unsubscribe(g) \/ Restore(g)
  \/ Lose \/ Connect \/ Restored

ASpec == AInit /\ [][ANext]_avars

\* The promise: on a link that is up the broker holds exactly the known
\* set, and nothing that is not known is ever subscribed.
Consistent ==
  /\ subs \subseteq known
  /\ link = "up" => subs = known

\* Every behaviour of the abstract specification keeps the broker's
\* subscriptions within the known set, and equal to it while the link is
\* up.
THEOREM AbstractConsistent == ASpec => []Consistent
  <1>1. AInit => Consistent
    BY DEF AInit, Consistent
  <1>2. Consistent /\ [ANext]_avars => Consistent'
    BY DEF Consistent, ANext, Subscribe, Unsubscribe, Lose, Connect, Restore,
           Restored, avars
  <1>3. QED
    BY <1>1, <1>2, PTL DEF ASpec

=============================================================================
