------------------------------ MODULE Fencing -------------------------------
(***************************************************************************)
(* What the lease coordinator promises, whoever calls it in whatever       *)
(* order: a shard has at most one holder at a time, an unexpired holder    *)
(* is never displaced by another node, and every grant carries a fencing   *)
(* token that no earlier grant of the shard has carried.                   *)
(***************************************************************************)
EXTENDS Naturals

CONSTANTS Shards, Nodes

VARIABLES clock, token, holder

vars == <<clock, token, holder>>

Init ==
  /\ clock \in Nat
  /\ token = [s \in Shards |-> 0]
  /\ DOMAIN holder = {}

Free(s, n) ==
  \/ s \notin DOMAIN holder
  \/ holder[s].node = n
  \/ holder[s].until <= clock

Grant(s, n) ==
  /\ Free(s, n)
  /\ token' = [token EXCEPT ![s] = @ + 1]
  /\ DOMAIN holder' = DOMAIN holder \cup {s}
  /\ holder'[s].node = n
  /\ holder'[s].until > clock
  /\ \A x \in DOMAIN holder \ {s} : holder'[x] = holder[x]
  /\ UNCHANGED clock

Extend(s) ==
  /\ s \in DOMAIN holder
  /\ holder[s].until > clock
  /\ DOMAIN holder' = DOMAIN holder
  /\ holder'[s].node = holder[s].node
  /\ holder'[s].until >= holder[s].until
  /\ \A x \in DOMAIN holder \ {s} : holder'[x] = holder[x]
  /\ UNCHANGED <<clock, token>>

Drop(s) ==
  /\ s \in DOMAIN holder
  /\ holder' = [x \in DOMAIN holder \ {s} |-> holder[x]]
  /\ UNCHANGED <<clock, token>>

Advance ==
  /\ clock' = clock + 1
  /\ UNCHANGED <<token, holder>>

Next ==
  \/ \E s \in Shards : Extend(s) \/ Drop(s) \/ \E n \in Nodes : Grant(s, n)
  \/ Advance

Spec == Init /\ [][Next]_vars
=============================================================================
