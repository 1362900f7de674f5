------------------------------ MODULE Matcher -------------------------------
(***************************************************************************)
(* StandardMatcher (internal/routing/domain/matcher.go).  A pattern and a  *)
(* routing key are the sequences of their parts between the dots; the      *)
(* empty string has one part, the empty one.                               *)
(***************************************************************************)
EXTENDS Naturals, Sequences

CONSTANTS
  Parts, \* the parts of patterns and keys, "#", "*" and "" among them
  Glob   \* the pairs for which path.Match(pattern part, key part) reports true

Empty == <<"">>

\* The mutation of matchParts for topicMatchPlus.
matchPartsPlus[args \in Seq(Parts) \X Seq(Parts)] ==
  LET pattern == args[1]
      key     == args[2]
      rest    == Tail(pattern)
  IN  IF pattern = <<>> THEN key = <<>>
      ELSE CASE Head(pattern) = "#" ->
                  Len(pattern) = 1
                    \/ \E i \in 1 .. Len(key) :
                         matchPartsPlus[<<rest, SubSeq(key, i + 1, Len(key))>>]
             [] Head(pattern) = "*" -> key # <<>> /\ matchPartsPlus[<<rest, Tail(key)>>]
             [] OTHER -> /\ key # <<>>
                         /\ <<Head(pattern), Head(key)>> \in Glob
                         /\ matchPartsPlus[<<rest, Tail(key)>>]

matchParts[args \in Seq(Parts) \X Seq(Parts)] ==
  LET pattern == args[1]
      key     == args[2]
      rest    == Tail(pattern)
  IN  IF pattern = <<>> THEN key = <<>>
      ELSE CASE Head(pattern) = "#" ->
                  Len(pattern) = 1
                    \/ \E i \in 0 .. Len(key) :
                         matchParts[<<rest, SubSeq(key, i + 1, Len(key))>>]
             [] Head(pattern) = "*" -> key # <<>> /\ matchParts[<<rest, Tail(key)>>]
             [] OTHER -> /\ key # <<>>
                         /\ <<Head(pattern), Head(key)>> \in Glob
                         /\ matchParts[<<rest, Tail(key)>>]

\* Mutation: "#" stands for one part or more.
topicMatchPlus(pattern, key) ==
  pattern \in {<<"#">>, Empty} \/ matchPartsPlus[<<pattern, key>>]

topicMatch(pattern, key) ==
  pattern \in {<<"#">>, Empty} \/ matchParts[<<pattern, key>>]

\* headers and filter are functions from header names to values.
Match(key, headers, pattern, filter) ==
  /\ pattern = Empty \/ topicMatch(pattern, key)
  /\ \A k \in DOMAIN filter : k \in DOMAIN headers /\ headers[k] = filter[k]

-----------------------------------------------------------------------------
\* What a pattern means: the key can be cut into one piece for each part of the
\* pattern, of any length for "#", of one part that matches for the others.
Cuttable(pattern, key) ==
  \E cut \in [0 .. Len(pattern) -> 0 .. Len(key)] :
    /\ cut[0] = 0
    /\ cut[Len(pattern)] = Len(key)
    /\ \A i \in 1 .. Len(pattern) :
         IF pattern[i] = "#" THEN cut[i - 1] <= cut[i]
         ELSE /\ cut[i] = cut[i - 1] + 1
              /\ pattern[i] = "*" \/ <<pattern[i], key[cut[i]]>> \in Glob
=============================================================================
