------------------------------- MODULE MCPeer -------------------------------
(***************************************************************************)
(* Peers that differ only in name, two of them connected at a time.        *)
(* Channels 1 and 2 are no code points; handle 2 is above the maximum.     *)
(***************************************************************************)
EXTENDS Wire, TLC

MCRune == [n \in 0 .. 2 |-> IF n = 0 THEN "itself" ELSE "replacement"]

\* Fields of every type, on both sides of every change of form, and lists whose
\* elements take up just as much as a short list may, and one byte more.
Filled(n) == [i \in 1 .. n |-> 7]

Some ==
  {Null, <<"bool", TRUE>>, <<"bool", FALSE>>, <<"uint8", 7>>, <<"uint16", 300>>,
   <<"uint32", 0>>, <<"uint32", 255>>, <<"uint32", 256>>, <<"uint64", 0>>,
   <<"uint64", 255>>, <<"uint64", 65536>>, <<"string", <<>>>>, <<"string", Filled(1)>>,
   <<"symbol", Filled(2)>>, <<"binary", Filled(1)>>,
   <<"list", <<>>>>, <<"list", <<Null, <<"list", <<<<"uint8", 7>>, Null>>>>>>>>,
   <<"described", \h24, <<"list", <<>>>>>>, <<"described", \h28, <<"string", Filled(1)>>>>}

MCFieldLists ==
  UNION {[1 .. n -> Some] : n \in 0 .. 2}
  \cup {<<<<type, Filled(n)>>>> : type \in {"string", "symbol", "binary"}, n \in 251 .. 256}
  \cup {<<<<"string", Filled(1)>>, <<"list", <<Null, <<"binary", Filled(n)>>>>>>>> : n \in 244 .. 252}

MCBodies == {<<>>, Filled(1), Filled(255), Filled(256)}

PeersAlike == Permutations(Peers)
=============================================================================
