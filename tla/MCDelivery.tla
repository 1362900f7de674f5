----------------------------- MODULE MCDelivery -----------------------------
(* Instances of Delivery for TLC.  Queue "q" dead-letters to "d"; "d" to    *)
(* nothing.  "f" is a fanout address bound to both.                        *)
EXTENDS Delivery, TLC

Queues     == {"q", "d"}
WithFanout == {"q", "d", "f"}

DeadLetterQ  == [a \in Addresses |-> IF a = "q" THEN "d" ELSE None]
RoutesSelf   == [a \in Addresses |-> IF a = "f" THEN <<"q", "d">> ELSE <<a>>]
NoLimit      == [a \in Addresses |-> 0]
OneOnQ       == [a \in Addresses |-> IF a = "q" THEN 1 ELSE 0]
DefaultOneOnQ == [a \in Addresses |-> IF a = "q" THEN 1 ELSE 0]

PublishQ == {[address |-> "q", ttl |-> 0, priority |-> 0]}
PublishQF == {[address |-> a, ttl |-> 0, priority |-> IF a = "q" THEN 1 ELSE 0] :
                a \in {"q", "f"}}
ConsumeOnceQ == {[address |-> "q", prefetch |-> 1, semantics |-> "at-least-once"]}
ConsumeOnceQD == {[address |-> a, prefetch |-> 1, semantics |-> "at-least-once"] :
                    a \in Queues}
ConsumeQ == {[address |-> "q", prefetch |-> 0, semantics |-> s] : s \in Semantics}

Symmetry == Permutations(Msgs) \cup Permutations(Clients)
=============================================================================
