------------------------------ MODULE Dispatch ------------------------------
(***************************************************************************)
(* What the delivery service promises for a message, whatever publishers,  *)
(* consumers, sweeps and replays do at the same time.  A message is routed *)
(* to one address for ever.  It is delivered to a consumer of that address *)
(* or of one that its dead letters go to, under an id that no other        *)
(* delivery has.  From then on that consumer holds it: nobody else is      *)
(* given it and it is not on offer, until an at-least-once consumer gives  *)
(* it back.  A message that nobody holds may be offered again at any time, *)
(* be it released, dead-lettered or replayed.                              *)
(***************************************************************************)
CONSTANTS Msgs, Addresses, DeadLetter, None

VARIABLES
  routed,    \* the address of each message
  offered,   \* the messages that can be taken
  delivered, \* the deliveries: id, message, address and semantics of the consumer
  returned   \* the ids of the deliveries that were given back

vars == <<routed, offered, delivered, returned>>

Held == {d \in delivered : d.id \notin returned}

\* The addresses a message that is routed to a may get to as a dead letter: the
\* ones that are in every set that has a and is closed under DeadLetter.
Chain(a) ==
  {b \in Addresses :
     \A S \in SUBSET Addresses :
       a \in S /\ (\A x \in S : DeadLetter[x] \in S \cup {None}) => b \in S}

Init ==
  /\ DOMAIN routed = {}
  /\ offered = {}
  /\ delivered = {}
  /\ returned = {}

Route(m, a) ==
  /\ m \notin DOMAIN routed
  /\ routed' = [x \in DOMAIN routed \cup {m} |-> IF x = m THEN a ELSE routed[x]]
  /\ offered' \in {offered, offered \cup {m}}
  /\ UNCHANGED <<delivered, returned>>

Withdraw ==
  /\ offered' \in SUBSET offered
  /\ UNCHANGED <<routed, delivered, returned>>

Offer(m) ==
  /\ m \in DOMAIN routed
  /\ \A d \in Held : d.msg # m
  /\ offered' = offered \cup {m}
  /\ UNCHANGED <<routed, delivered, returned>>

Deliver(d) ==
  /\ d.msg \in DOMAIN routed \ offered
  /\ d.address \in Chain(routed[d.msg])
  /\ \A e \in Held : e.msg # d.msg
  /\ \A e \in delivered : e.id # d.id
  /\ delivered' = delivered \cup {d}
  /\ UNCHANGED <<routed, offered, returned>>

Return(D) ==
  /\ \A d \in D : d.semantics = "at-least-once"
  /\ returned' = returned \cup {d.id : d \in D}
  /\ offered' \in SUBSET (offered \cup {d.msg : d \in D})
  /\ UNCHANGED <<routed, delivered>>

Next ==
  \/ \E m \in Msgs, a \in Addresses : Route(m, a)
  \/ Withdraw
  \/ \E m \in Msgs : Offer(m)
  \/ \E d \in delivered' : Deliver(d)
  \/ \E D \in SUBSET delivered : Return(D)

Spec == Init /\ [][Next]_vars
=============================================================================
