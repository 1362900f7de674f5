----------------------------- MODULE MCRouting ------------------------------
EXTENDS Routing, TLC

CONSTANTS x, y, q

\* "[" is a malformed pattern, "a?" a well-formed one with a wildcard.
MCParts == {"#", "*", "", "a", "ab", "a?", "["}
MCGlob  == {<<"", "">>, <<"a", "a">>, <<"ab", "ab">>, <<"a?", "ab">>, <<"a?", "a?">>}

MCKeys    == {Empty, <<"a">>, <<"a", "ab">>, <<"[">>}
MCHeaders == {<<>>, ("region" :> "apac"), ("region" :> "eu")}

\* Exchange x of any routing kind, and two queues that may be asked for with
\* each other, with x or with themselves as dead-letter address.
MCCreations ==
  {[name |-> x, kind |-> k, deadLetter |-> None] : k \in {"topic", "direct", "fanout"}}
    \cup {[name |-> y, kind |-> "queue", deadLetter |-> d] : d \in {None, x, y, q}}
    \cup {[name |-> q, kind |-> "temporary", deadLetter |-> d] : d \in {None, y}}

To(destination, key, filter, priority) ==
  [source |-> x, destination |-> destination, key |-> key, filter |-> filter,
   priority |-> priority]

\* The last two are refused: a self binding, and a priority out of bounds.
MCBindings ==
  {To(y, Empty, <<>>, 0), To(y, <<"a", "#">>, <<>>, 9), To(q, <<"a">>, <<>>, 5),
   To(q, <<"[">>, <<>>, 0), To(q, <<"*">>, ("region" :> "apac"), 5),
   To(x, Empty, <<>>, 0), To(y, Empty, <<>>, 10)}

Symmetry == Permutations(Clients)
=============================================================================
