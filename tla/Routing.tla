------------------------------ MODULE Routing -------------------------------
(***************************************************************************)
(* Router.Resolve (internal/routing/application/router.go) over the        *)
(* addresses and bindings that the clients of the address service create.  *)
(* Resolve reads them with one call of ListBindings, and addresses and     *)
(* bindings are never deleted, so it is a function of one state.           *)
(***************************************************************************)
EXTENDS Addresses, Matcher, FiniteSets

CONSTANTS
  Keys,     \* the routing keys of messages
  Headers,  \* the headers of messages
  MaxParts  \* bounds the patterns and keys of MatchIsExact

\* A routing key has a part even when it is empty; ids are strings, of which
\* only the order matters.
ASSUME RoutingConstants ==
  /\ \A key \in Keys : key \in Seq(Parts) /\ key # <<>>
  /\ \A in \in Bindings : in.key \in Seq(Parts) /\ in.key # <<>>
  /\ Ids \subseteq Int

-----------------------------------------------------------------------------
\* The elements of a finite set, each in the relation before to the later ones.
InOrder(S, before) ==
  CHOOSE s \in [1 .. Cardinality(S) -> S] :
    \A i, j \in 1 .. Cardinality(S) : i < j => <<s[i], s[j]>> \in before

\* By priority, the highest first; equal ones by id or position.
ByPriority(f, S) ==
  {e \in S \X S : \/ f[e[1]].priority > f[e[2]].priority
                  \/ f[e[1]].priority = f[e[2]].priority /\ e[1] < e[2]}

ListBindings(source) ==
  LET found == {id \in DOMAIN bindings : bindings[id].source = source}
      ids   == InOrder(found, ByPriority(bindings, found))
  IN  [i \in 1 .. Cardinality(found) |-> bindings[ids[i]]]

\* The pattern of a fanout address is "#"; a direct one also wants equal keys.
Selects(kind, b, key, headers) ==
  /\ kind = "direct" => b.key = key
  /\ Match(key, headers, IF kind = "fanout" THEN <<"#">> ELSE b.key, b.filter)

\* sort.SliceStable keeps the order of routes of the same priority.
SortRoutes(out) ==
  LET order == InOrder(DOMAIN out, ByPriority(out, DOMAIN out))
  IN  [i \in DOMAIN out |-> out[order[i]]]

\* The bindings of the list that reach the loop's check of the destination.
Passing(list, kind, key, headers) ==
  {i \in DOMAIN list : Selects(kind, list[i], key, headers) /\ Exists(list[i].destination)}

\* The routes for some bindings of the list, in its order.
Routes(list, chosen) ==
  LET order == InOrder(chosen, {e \in chosen \X chosen : e[1] < e[2]})
  IN  [i \in 1 .. Cardinality(chosen) |-> [destination |-> list[order[i]].destination,
                                           priority    |-> list[order[i]].priority]]

\* Mutation: a destination is not remembered.
ResolveUnseen(source, key, headers) ==
  LET kind    == addresses[source].kind
      list    == ListBindings(source)
      passing == Passing(list, kind, key, headers)
  IN  IF kind \in {"queue", "temporary"} THEN <<[destination |-> source, priority |-> 0]>>
      ELSE SortRoutes(Routes(list, passing))

\* Of the passing bindings to one destination the loop sees the first.
Resolve(source, key, headers) ==
  LET kind    == addresses[source].kind
      list    == ListBindings(source)
      passing == Passing(list, kind, key, headers)
      unseen  == {i \in passing :
                    \A j \in passing : j < i => list[j].destination # list[i].destination}
  IN  IF kind \in {"queue", "temporary"} THEN <<[destination |-> source, priority |-> 0]>>
      ELSE SortRoutes(Routes(list, unseen))

-----------------------------------------------------------------------------
(* Properties the code has.                                                *)

\* What the kinds of addresses mean.  A direct key is a pattern, too: where
\* path.Match does not let a part of it match itself, no message has that key.
Wanted(source, key, headers) ==
  LET kind == addresses[source].kind
  IN  {b \in {bindings[id] : id \in DOMAIN bindings} :
         /\ b.source = source
         /\ \A h \in DOMAIN b.filter : h \in DOMAIN headers /\ headers[h] = b.filter[h]
         /\ kind = "direct" => b.key = key
         /\ kind = "fanout" \/ b.key = Empty \/ Cuttable(b.key, key)}

Exchanges == {n \in DOMAIN addresses : addresses[n].kind \notin {"queue", "temporary"}}

\* README.md: "Each destination receives at most one copy even when multiple
\* bindings match".  Resolve returns each destination of a matching binding
\* once, and no other, whatever the order of the bindings.  The routes come by
\* priority, and of the bindings to one destination that of the highest counts.
RoutesExact ==
  \A source \in Exchanges, key \in Keys, headers \in Headers :
    LET routes == Resolve(source, key, headers)
        wanted == Wanted(source, key, headers)
    IN  /\ {routes[i].destination : i \in DOMAIN routes} = {b.destination : b \in wanted}
        /\ \A i, j \in DOMAIN routes :
             /\ routes[i].destination = routes[j].destination => i = j
             /\ i < j => routes[i].priority >= routes[j].priority
        /\ \A i \in DOMAIN routes, b \in wanted :
             b.destination = routes[i].destination => b.priority <= routes[i].priority

\* README.md: "Topic matching supports `*` for one segment and `#` for zero or
\* more segments".  The loop of matchParts, which tries the lengths of "#" one
\* by one and recurs, decides exactly whether the key can be cut up that way;
\* the empty pattern matches every key.  No variable occurs in it, so the
\* initial state decides.
MatchIsExact ==
  Init => \A pattern, key \in UNION {[1 .. n -> Parts] : n \in 1 .. MaxParts} :
            topicMatch(pattern, key) <=> pattern = Empty \/ Cuttable(pattern, key)

-----------------------------------------------------------------------------
\* README.md: "`POST /v1/addresses/{name}/pause` defaults to pausing ingress".
\* Publish checks the address it is sent to, so no message may be routed from
\* one that accepts to one that is paused.
PausedTakesNothing ==
  \A source \in DOMAIN addresses, key \in Keys, headers \in Headers :
    ~addresses[source].paused =>
      LET routes == Resolve(source, key, headers)
      IN  \A i \in DOMAIN routes : ~addresses[routes[i].destination].paused
=============================================================================
