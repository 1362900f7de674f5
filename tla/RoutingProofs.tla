--------------------------- MODULE RoutingProofs ----------------------------
(***************************************************************************)
(* Proofs about Addresses and Routing, for every set of names, requests    *)
(* and clients, and for patterns, keys and lists of bindings of any        *)
(* length.                                                                 *)
(*                                                                         *)
(* The lemmas about finite sets stand at the end, after the library's      *)
(* theorems; until then Least and Counting state what is used of them.     *)
(***************************************************************************)
EXTENDS Routing, TLAPS

-----------------------------------------------------------------------------
(* The inductive invariant: what a request was checked for still holds     *)
(* when it is stored.                                                      *)

Checked(in) ==
  /\ in \in Creations => /\ in.deadLetter # in.name
                         /\ in.deadLetter = None \/ Exists(in.deadLetter)
  /\ in \in Bindings  => Bindable(in) /\ Exists(in.source) /\ Exists(in.destination)

AllChecked == \A c \in Clients : Checked(call[c])

AddressInv == TypeOK /\ NamesResolve /\ ChainsEnd /\ AllChecked

-----------------------------------------------------------------------------
\* Addresses are never deleted.
LEMMA ExistsStays ==
  ASSUME NEW n, Exists(n), DOMAIN addresses \subseteq DOMAIN addresses'
  PROVE  Exists(n)'
BY Zenon DEF Exists

\* A request that was checked stays so.
LEMMA CheckedStays ==
  ASSUME NEW in, Checked(in), DOMAIN addresses \subseteq DOMAIN addresses'
  PROVE  Checked(in)'
BY ExistsStays, Zenon DEF Checked, Bindable

\* A client whose request was checked, and others that keep theirs.
LEMMA CallChecked ==
  ASSUME TypeOK, AllChecked, NEW c \in Clients, NEW in, Checked(in),
         call' = [call EXCEPT ![c] = in], DOMAIN addresses \subseteq DOMAIN addresses'
  PROVE  AllChecked'
<1> SUFFICES ASSUME NEW d \in Clients PROVE Checked(call[d])'
  BY Zenon DEF AllChecked
<1>1. PICK v : v = call'[d]
  BY Zenon
<1>2. Checked(v)
  BY <1>1, Zenon DEF AllChecked, TypeOK
<1>3. Checked(v)'
  BY <1>2, CheckedStays, Zenon
<1> QED
  BY <1>1, <1>3, Zenon DEF Checked, Bindable, Exists

\* What Memory.Create does to the addresses when the name is free.
LEMMA StoreEffect ==
  ASSUME TypeOK, NEW in \in Creations, ~Exists(in.name),
         addresses' = Put(addresses, in.name, [kind |-> in.kind, deadLetter |-> in.deadLetter,
                                               paused |-> FALSE])
  PROVE  /\ DOMAIN addresses' = DOMAIN addresses \cup {in.name}
         /\ DOMAIN addresses' \subseteq Names
         /\ addresses' \in [DOMAIN addresses' -> Address]
         /\ \A n \in DOMAIN addresses : addresses'[n] = addresses[n]
         /\ addresses'[in.name].deadLetter = in.deadLetter
<1>1. in \in [name : Names, kind : Kinds, deadLetter : Names \cup {None}]
  BY AddressConstants, Zenon
<1>2. [kind |-> in.kind, deadLetter |-> in.deadLetter, paused |-> FALSE] \in Address
  BY <1>1, Zenon DEF Address
<1> QED
  BY <1>1, <1>2, Zenon DEF TypeOK, Put, Exists

\* A new address at the head of a chain leaves all chains finite.
LEMMA ChainsExtended ==
  ASSUME TypeOK, NamesResolve, ChainsEnd, NEW in \in Creations, ~Exists(in.name),
         in.deadLetter # in.name,
         addresses' = Put(addresses, in.name, [kind |-> in.kind, deadLetter |-> in.deadLetter,
                                               paused |-> FALSE])
  PROVE  ChainsEnd'
<1> SUFFICES ASSUME NEW S \in SUBSET DOMAIN addresses', S # {}
             PROVE  \E n \in S : addresses'[n].deadLetter \notin S
  BY Zenon DEF ChainsEnd
<1> DEFINE R == S \ {in.name}
<1>1. CASE R = {}
  <2>1. S = {in.name}
    BY <1>1, Zenon
  <2> QED
    BY <2>1, StoreEffect, Zenon
<1>2. CASE R # {}
  <2>1. R \in SUBSET DOMAIN addresses
    BY StoreEffect, Zenon
  <2>2. PICK n \in R : addresses[n].deadLetter \notin R
    BY <1>2, <2>1, Zenon DEF ChainsEnd
  <2>3. addresses[n].deadLetter # in.name
    <3>1. in.name \in Names
      BY AddressConstants, Zenon
    <3> QED
      BY <2>1, <3>1, AddressConstants, Zenon DEF NamesResolve, Exists
  <2> QED
    BY <2>1, <2>2, <2>3, StoreEffect, Zenon
<1> QED
  BY <1>1, <1>2, Zenon

\* A step that keeps the addresses keeps what is said of them.
LEMMA SameAddresses ==
  ASSUME NamesResolve, ChainsEnd, UNCHANGED <<addresses, bindings>>
  PROVE  NamesResolve' /\ ChainsEnd'
BY Zenon DEF NamesResolve, ChainsEnd, Exists

\* Every step preserves the invariant.
LEMMA StepInv ==
  ASSUME AddressInv, [Next]_vars
  PROVE  AddressInv'
<1> USE DEF AddressInv
<1>1. CASE UNCHANGED vars
  BY <1>1, SameAddresses, Zenon DEF vars, TypeOK, Bindable, Checked, AllChecked, Exists
<1>2. ASSUME NEW c \in Clients, NEW in, in \in Creations \cup Bindings \cup {Idle},
             Call(c, in), Checked(in)
      PROVE  AddressInv'
  <2>1. TypeOK'
    BY <1>2, Zenon DEF Call, TypeOK, Bindable
  <2>2. AllChecked'
    BY <1>2, CallChecked, Zenon DEF Call
  <2> QED
    BY <1>2, <2>1, <2>2, SameAddresses, Zenon DEF Call
<1>3. ASSUME NEW c \in Clients, NEW in \in Creations, Create(c, in) PROVE AddressInv'
  <2>1. Checked(in)
    BY <1>3, AddressConstants, Zenon DEF Create, Checked
  <2> QED
    BY <1>2, <1>3, <2>1, Zenon DEF Create
<1>4. ASSUME NEW c \in Clients, NEW in \in Bindings, Bind(c, in) PROVE AddressInv'
  <2>1. Checked(in)
    BY <1>4, AddressConstants, Zenon DEF Bind, Checked, Bindable
  <2> QED
    BY <1>2, <1>4, <2>1, Zenon DEF Bind
<1>5. ASSUME NEW c \in Clients, Cancel(c) PROVE AddressInv'
  <2>1. Checked(Idle)
    BY AddressConstants, Zenon DEF Checked
  <2> QED
    BY <1>2, <1>5, <2>1, Zenon DEF Cancel
<1>6. ASSUME NEW c \in Clients, Store(c) PROVE AddressInv'
  <2> DEFINE in == call[c]
  <2>1. in \in Creations /\ in.deadLetter # in.name /\ (in.deadLetter = None \/ Exists(in.deadLetter))
    BY <1>6, Zenon DEF Store, Checked, AllChecked
  <2>2. Checked(Idle)
    BY AddressConstants, Zenon DEF Checked
  <2>3. CASE Exists(in.name)
    <3>1. UNCHANGED <<addresses, bindings>>
      BY <1>6, <2>3, Zenon DEF Store
    <3>2. TypeOK'
      BY <1>6, <3>1, Zenon DEF Store, TypeOK, Bindable
    <3>3. AllChecked'
      BY <1>6, <2>2, <3>1, CallChecked, Zenon DEF Store
    <3> QED
      BY <3>1, <3>2, <3>3, SameAddresses, Zenon
  <2>4. CASE ~Exists(in.name)
    <3>1. addresses' = Put(addresses, in.name, [kind |-> in.kind, deadLetter |-> in.deadLetter,
                                                paused |-> FALSE])
      BY <1>6, <2>4, Zenon DEF Store
    <3>2. /\ DOMAIN addresses' = DOMAIN addresses \cup {in.name}
          /\ DOMAIN addresses' \subseteq Names
          /\ addresses' \in [DOMAIN addresses' -> Address]
          /\ \A n \in DOMAIN addresses : addresses'[n] = addresses[n]
          /\ addresses'[in.name].deadLetter = in.deadLetter
      BY <2>1, <2>4, <3>1, StoreEffect, Zenon
    <3>3. TypeOK'
      BY <1>6, <3>2, Zenon DEF Store, TypeOK, Bindable
    <3>4. ChainsEnd'
      BY <2>1, <2>4, <3>1, ChainsExtended, Zenon
    <3>5. NamesResolve'
      BY <1>6, <2>1, <3>2, ZenonT(40) DEF NamesResolve, Exists, Store
    <3>6. AllChecked'
      BY <1>6, <2>2, <3>2, CallChecked, Zenon DEF Store
    <3> QED
      BY <3>3, <3>4, <3>5, <3>6, Zenon
  <2> QED
    BY <2>3, <2>4, Zenon
<1>7. ASSUME NEW c \in Clients, NEW id \in Ids, CreateBinding(c, id) PROVE AddressInv'
  <2>1. Bindable(call[c]) /\ Exists(call[c].source) /\ Exists(call[c].destination)
    BY <1>7, Zenon DEF CreateBinding, Checked, AllChecked
  <2>2. TypeOK'
    BY <1>7, <2>1, Zenon DEF CreateBinding, TypeOK, Put, Bindable
  <2>3. NamesResolve'
    BY <1>7, <2>1, Zenon DEF CreateBinding, NamesResolve, Put, Exists
  <2>4. ChainsEnd'
    BY <1>7, Zenon DEF CreateBinding, ChainsEnd
  <2>5. Checked(Idle)
    BY AddressConstants, Zenon DEF Checked
  <2>6. AllChecked'
    BY <1>7, <2>5, CallChecked, Zenon DEF CreateBinding
  <2> QED
    BY <2>2, <2>3, <2>4, <2>6, Zenon
<1>8. ASSUME NEW n \in Pausable, NEW paused \in BOOLEAN, SetPaused(n, paused) PROVE AddressInv'
  <2>1. /\ DOMAIN addresses' = DOMAIN addresses
        /\ addresses' \in [DOMAIN addresses' -> Address]
        /\ \A m \in DOMAIN addresses : addresses'[m].deadLetter = addresses[m].deadLetter
    BY <1>8 DEF SetPaused, TypeOK, Exists, Address
  <2>2. TypeOK'
    BY <1>8, <2>1, Zenon DEF SetPaused, TypeOK, Bindable
  <2>3. NamesResolve' /\ ChainsEnd'
    BY <1>8, <2>1, Zenon DEF SetPaused, NamesResolve, ChainsEnd, Exists
  <2>4. AllChecked'
    BY <1>8, <2>1, Zenon DEF SetPaused, AllChecked, Checked, Bindable, Exists
  <2> QED
    BY <2>2, <2>3, <2>4, Zenon
<1> QED
  BY <1>1, <1>3, <1>4, <1>5, <1>6, <1>7, <1>8, Zenon DEF Next

-----------------------------------------------------------------------------
(* The theorems.                                                           *)

\* The invariant holds of every behaviour.
LEMMA Invariance == Spec => []AddressInv
<1>1. Init => AddressInv
  BY AddressConstants
     DEF Init, AddressInv, TypeOK, NamesResolve, ChainsEnd, Checked, AllChecked
<1>2. AddressInv /\ [Next]_vars => AddressInv'
  BY StepInv, Zenon
<1> QED
  BY <1>1, <1>2, PTL DEF Spec

\* Type correctness: only addresses and bindings that were checked are stored.
THEOREM TypeCorrect == Spec => []TypeOK
BY Invariance, PTL DEF AddressInv

\* Bindings and dead-letter names never dangle, for any number of concurrent
\* clients.
THEOREM NoDanglingNames == Spec => []NamesResolve
BY Invariance, PTL DEF AddressInv

\* No concurrent creation of addresses closes a cycle of dead-letter addresses.
THEOREM DeadLetterChainsEnd == Spec => []ChainsEnd
BY Invariance, PTL DEF AddressInv

-----------------------------------------------------------------------------
(* The recursive matcher decides what a pattern means.                     *)

\* Every set of numbers has a least one (LeastExists, below).
Least == \A T \in SUBSET Nat : T # {} => \E n \in T : \A m \in T : n <= m

\* The body of matchParts, with g for the recursive calls.
Step(g, pattern, key) ==
  LET rest == Tail(pattern)
  IN  IF pattern = <<>> THEN key = <<>>
      ELSE CASE Head(pattern) = "#" ->
                  Len(pattern) = 1
                    \/ \E i \in 0 .. Len(key) :
                         g[<<rest, SubSeq(key, i + 1, Len(key))>>]
             [] Head(pattern) = "*" -> key # <<>> /\ g[<<rest, Tail(key)>>]
             [] OTHER -> /\ key # <<>>
                         /\ <<Head(pattern), Head(key)>> \in Glob
                         /\ g[<<rest, Tail(key)>>]

\* g satisfies the equation that defines matchParts.
Solves(g) ==
  g = [args \in Seq(Parts) \X Seq(Parts) |-> Step(g, args[1], args[2])]

\* If the equation of matchParts has a solution, matchParts is one.
LEMMA Chosen ==
  ASSUME NEW g, Solves(g)
  PROVE  Solves(matchParts)
<1>1. matchParts = CHOOSE f : Solves(f)
  BY Zenon DEF matchParts, Solves, Step
<1>2. QED
  BY ONLY <1>1, Solves(g), Zenon

\* What a solution is at each pair.
LEMMA SolvedAt ==
  ASSUME NEW g, Solves(g), NEW p \in Seq(Parts), NEW k \in Seq(Parts)
  PROVE  g[<<p, k>>] = Step(g, p, k)
<1>1. <<p, k>> \in Seq(Parts) \X Seq(Parts)
  BY Zenon
<1>2. g[<<p, k>>] = Step(g, <<p, k>>[1], <<p, k>>[2])
  BY <1>1, Zenon DEF Solves
<1>3. <<p, k>>[1] = p /\ <<p, k>>[2] = k
  BY Zenon
<1>4. QED
  BY ONLY <1>2, <1>3, Zenon

\* The body for the empty pattern.
LEMMA StepEmpty ==
  ASSUME NEW g, NEW k
  PROVE  Step(g, <<>>, k) <=> k = <<>>
  BY Zenon DEF Step

\* The body for a pattern that begins with "#".
LEMMA StepAny ==
  ASSUME NEW g, NEW k, NEW p, p # <<>>, Head(p) = "#"
  PROVE  Step(g, p, k) <=>
           Len(p) = 1 \/ \E i \in 0 .. Len(k) : g[<<Tail(p), SubSeq(k, i + 1, Len(k))>>]
  BY Zenon DEF Step

\* The body for a pattern that begins otherwise.
LEMMA StepOne ==
  ASSUME NEW g, NEW k, NEW p, p # <<>>, Head(p) # "#"
  PROVE  Step(g, p, k) <=> /\ k # <<>>
                           /\ Head(p) = "*" \/ <<Head(p), Head(k)>> \in Glob
                           /\ g[<<Tail(p), Tail(k)>>]
<1>1. CASE Head(p) = "*"
  BY <1>1, Zenon DEF Step
<1>2. CASE Head(p) # "*"
  BY <1>2, Zenon DEF Step
<1>3. QED
  BY <1>1, <1>2, Zenon

\* A sequence without its first i elements.
LEMMA Rest ==
  ASSUME NEW S, NEW k \in Seq(S), NEW i \in 0 .. Len(k)
  PROVE  /\ SubSeq(k, i + 1, Len(k)) \in Seq(S)
         /\ Len(SubSeq(k, i + 1, Len(k))) = Len(k) - i
         /\ \A j \in 1 .. Len(k) - i : SubSeq(k, i + 1, Len(k))[j] = k[i + j]
  OBVIOUS

\* A sequence without its first element.
LEMMA RestOfPattern ==
  ASSUME NEW S, NEW p \in Seq(S), p # <<>>
  PROVE  /\ Len(p) \in Nat \ {0}
         /\ Tail(p) \in Seq(S) /\ Len(Tail(p)) = Len(p) - 1
         /\ \A j \in 1 .. Len(p) - 1 : Tail(p)[j] = p[j + 1]
         /\ Head(p) = p[1]
         /\ Tail(p) = SubSeq(p, 2, Len(p))
  OBVIOUS

\* What Cuttable asks of a cut: the i-th piece is right, and all are.
Piece(cut, p, k, i) ==
  IF p[i] = "#" THEN cut[i - 1] <= cut[i]
  ELSE /\ cut[i] = cut[i - 1] + 1
       /\ p[i] = "*" \/ <<p[i], k[cut[i]]>> \in Glob

IsCut(cut, p, k) ==
  /\ cut \in [0 .. Len(p) -> 0 .. Len(k)]
  /\ cut[0] = 0
  /\ cut[Len(p)] = Len(k)
  /\ \A i \in 1 .. Len(p) : Piece(cut, p, k, i)

\* Cuts do not go back.
LEMMA Ascending ==
  ASSUME Least, NEW p \in Seq(Parts), NEW k \in Seq(Parts), NEW cut, IsCut(cut, p, k)
  PROVE  \A j \in 1 .. Len(p) : cut[1] <= cut[j]
<1> DEFINE T == {j \in 1 .. Len(p) : ~(cut[1] <= cut[j])}
<1>1. SUFFICES ASSUME T # {} PROVE FALSE
  BY Zenon
<1>2. T \in SUBSET Nat
  OBVIOUS
<1>3. PICK n \in T : \A m \in T : n <= m
  BY <1>1, <1>2, Zenon DEF Least
<1>4. n \in 1 .. Len(p) /\ ~(cut[1] <= cut[n]) /\ Len(p) \in Nat /\ Len(k) \in Nat
  OBVIOUS
<1>5. \A j \in 0 .. Len(p) : cut[j] \in Nat
  <2>1. \A j \in 0 .. Len(p) : cut[j] \in 0 .. Len(k)
    BY Zenon DEF IsCut
  <2>2. \A c \in 0 .. Len(k) : c \in Nat
    OBVIOUS
  <2>3. QED
    BY ONLY <2>1, <2>2, Zenon
<1>6. n # 1
  BY ONLY <1>4, <1>5
<1>7. n - 1 \in 1 .. Len(p) /\ n - 1 \notin T
  <2>1. n - 1 \in 1 .. Len(p) /\ ~(n <= n - 1)
    BY ONLY <1>4, <1>6
  <2>2. QED
    BY <1>3, <2>1, Zenon
<1>8. cut[1] <= cut[n - 1]
  BY <1>7, Zenon
<1>9. cut[n - 1] <= cut[n]
  <2>1. Piece(cut, p, k, n)
    BY <1>4, Zenon DEF IsCut
  <2>2. cut[n] \in Nat /\ cut[n - 1] \in Nat
    BY ONLY <1>4, <1>5
  <2>3. QED
    BY ONLY <2>1, <2>2 DEF Piece
<1>10. QED
  BY ONLY <1>4, <1>5, <1>7, <1>8, <1>9, SMTT(30)

\* What the first part of a pattern may take of a key: i parts.
First(p, k, i) ==
  \/ p[1] = "#"
  \/ i = 1 /\ (p[1] = "*" \/ <<p[1], k[1]>> \in Glob)

\* A step of one part, counted from the i-th part on.
LEMMA Shift ==
  ASSUME NEW i \in Nat, NEW a \in Nat, NEW b \in Nat, NEW n \in Nat,
         i <= a, b = a + 1, b <= n
  PROVE  b - i = (a - i) + 1 /\ b - i \in 1 .. n - i /\ i + (b - i) = b
  OBVIOUS

\* The rest of a cut cuts the rest of the key.
LEMMA CutRest ==
  ASSUME Least, NEW p \in Seq(Parts), p # <<>>, NEW k \in Seq(Parts),
         NEW cut, IsCut(cut, p, k)
  PROVE  /\ cut[1] \in 0 .. Len(k)
         /\ First(p, k, cut[1])
         /\ Cuttable(Tail(p), SubSeq(k, cut[1] + 1, Len(k)))
<1>0. /\ cut \in [0 .. Len(p) -> 0 .. Len(k)] /\ Len(k) \in Nat
      /\ cut[0] = 0 /\ cut[Len(p)] = Len(k) /\ Len(p) \in Nat \ {0}
  BY RestOfPattern DEF IsCut
<1>3. PICK i \in 0 .. Len(k) : i = cut[1]
  BY ONLY <1>0
<1> DEFINE q  == Tail(p)
           l  == SubSeq(k, i + 1, Len(k))
           c  == [j \in 0 .. Len(q) |-> cut[j + 1] - i]
<1>1. /\ Len(p) \in Nat \ {0} /\ q \in Seq(Parts) /\ Len(q) = Len(p) - 1
      /\ \A j \in 1 .. Len(q) : q[j] = p[j + 1]
  BY RestOfPattern, Zenon
<1>2. /\ cut \in [0 .. Len(p) -> 0 .. Len(k)] /\ Len(k) \in Nat
      /\ cut[0] = 0 /\ cut[Len(p)] = Len(k)
  BY ONLY <1>0, Zenon
<1>4. /\ Len(l) = Len(k) - i
      /\ \A j \in 1 .. Len(l) : l[j] = k[i + j]
  BY <1>3, Rest, ZenonT(40)
<1>5. \A j \in 1 .. Len(p) : i <= cut[j]
  BY <1>3, Ascending, Zenon
<1>6. First(p, k, i)
  <2>1. 1 \in 1 .. Len(p)
    BY ONLY <1>1
  <2>2. Piece(cut, p, k, 1)
    BY <2>1, Zenon DEF IsCut
  <2>3. QED
    BY ONLY <1>2, <1>3, <2>2 DEF Piece, First
<1> HIDE DEF q, l
<1>7. /\ c \in [0 .. Len(q) -> 0 .. Len(l)]
      /\ \A j \in 0 .. Len(q) : c[j] = cut[j + 1] - i
  <2>1. ASSUME NEW j \in 0 .. Len(q)
        PROVE  cut[j + 1] - i \in 0 .. Len(l)
    <3>1. j + 1 \in 1 .. Len(p) /\ j + 1 \in 0 .. Len(p)
      BY ONLY <1>1, <2>1
    <3>2. cut[j + 1] \in 0 .. Len(k) /\ i <= cut[j + 1]
      BY ONLY <1>2, <1>5, <3>1, Zenon
    <3>3. Len(k) \in Nat /\ Len(l) = Len(k) - i /\ i \in 0 .. Len(k)
      BY ONLY <1>2, <1>3, <1>4, Zenon
    <3>4. QED
      BY ONLY <3>2, <3>3
  <2>2. QED
    BY ONLY <2>1, Zenon
<1>8. c[0] = 0 /\ c[Len(q)] = Len(l)
  BY ONLY <1>1, <1>2, <1>3, <1>4, <1>7
<1> HIDE DEF c
<1>9. ASSUME NEW j \in 1 .. Len(q)
      PROVE  Piece(c, q, l, j)
  <2>1. Piece(cut, p, k, j + 1)
    <3>1. j + 1 \in 1 .. Len(p)
      BY ONLY <1>1, <1>9
    <3>2. QED
      BY <3>1, Zenon DEF IsCut
  <2>2. q[j] = p[j + 1] /\ c[j] = cut[j + 1] - i /\ c[j - 1] = cut[j] - i
    BY ONLY <1>1, <1>7, <1>9
  <2>3. /\ cut[j] \in Nat /\ cut[j + 1] \in 0 .. Len(k)
        /\ i <= cut[j] /\ i <= cut[j + 1] /\ i \in Nat
    <3>1. j \in 1 .. Len(p) /\ j + 1 \in 1 .. Len(p) /\ j \in 0 .. Len(p) /\ j + 1 \in 0 .. Len(p)
      BY ONLY <1>1, <1>9
    <3>2. i <= cut[j] /\ i <= cut[j + 1]
      BY ONLY <1>5, <3>1, Zenon
    <3>3. cut[j] \in 0 .. Len(k) /\ cut[j + 1] \in 0 .. Len(k)
      BY ONLY <1>2, <3>1, Zenon
    <3>4. QED
      BY ONLY <1>3, <3>2, <3>3
  <2>4. CASE p[j + 1] = "#"
    BY ONLY <2>1, <2>2, <2>3, <2>4 DEF Piece
  <2>5. CASE p[j + 1] # "#"
    <3>1. /\ cut[j + 1] = cut[j + 1 - 1] + 1
          /\ p[j + 1] = "*" \/ <<p[j + 1], k[cut[j + 1]]>> \in Glob
      BY ONLY <2>1, <2>5 DEF Piece
    <3>2. c[j] = c[j - 1] + 1 /\ c[j] \in 1 .. Len(l) /\ i + c[j] = cut[j + 1]
      <4>1. j + 1 - 1 = j
        BY ONLY <1>9
      <4>2. cut[j + 1] = cut[j] + 1
        BY ONLY <3>1, <4>1, Zenon
      <4>3. Len(k) \in Nat /\ i \in 0 .. Len(k) /\ Len(l) = Len(k) - i
        BY ONLY <1>2, <1>3, <1>4, Zenon
      <4>4. cut[j] \in Nat /\ cut[j + 1] \in Nat /\ cut[j + 1] <= Len(k) /\ i \in Nat
        BY ONLY <2>3, <4>3
      <4>5. /\ cut[j + 1] - i = (cut[j] - i) + 1
            /\ cut[j + 1] - i \in 1 .. Len(k) - i
            /\ i + (cut[j + 1] - i) = cut[j + 1]
        BY <2>3, <4>2, <4>3, <4>4, Shift, ZenonT(40)
      <4>6. QED
        BY ONLY <2>2, <4>3, <4>5, Zenon
    <3>3. l[c[j]] = k[cut[j + 1]]
      BY ONLY <1>4, <3>2, Zenon
    <3>4. QED
      BY ONLY <2>2, <2>5, <3>1, <3>2, <3>3, Zenon DEF Piece
  <2>6. QED
    BY <2>4, <2>5, Zenon
<1>10. IsCut(c, q, l)
  BY <1>7, <1>8, <1>9, Zenon DEF IsCut
<1>11. Cuttable(q, l)
  BY ONLY <1>10, Zenon DEF Cuttable, IsCut, Piece
<1>12. QED
  BY <1>3, <1>6, <1>11, Zenon DEF q, l

\* A cut of the rest of a key, with the first i parts before it, is a cut.
LEMMA CutWhole ==
  ASSUME NEW p \in Seq(Parts), p # <<>>, NEW k \in Seq(Parts), NEW i \in 0 .. Len(k),
         First(p, k, i), Cuttable(Tail(p), SubSeq(k, i + 1, Len(k)))
  PROVE  Cuttable(p, k)
<1> DEFINE q  == Tail(p)
           l  == SubSeq(k, i + 1, Len(k))
<1>1. /\ Len(p) \in Nat \ {0} /\ q \in Seq(Parts) /\ Len(q) = Len(p) - 1
      /\ \A j \in 1 .. Len(q) : q[j] = p[j + 1]
  BY RestOfPattern, Zenon
<1>2. /\ Len(l) = Len(k) - i /\ Len(k) \in Nat /\ i \in Nat
      /\ \A j \in 1 .. Len(l) : l[j] = k[i + j]
  BY Rest
<1>3. PICK c : IsCut(c, q, l)
  BY Zenon DEF Cuttable, IsCut, Piece
<1> HIDE DEF q, l
<1> DEFINE cut == [j \in 0 .. Len(p) |-> IF j = 0 THEN 0 ELSE i + c[j - 1]]
<1>4. /\ c \in [0 .. Len(q) -> 0 .. Len(l)]
      /\ c[0] = 0 /\ c[Len(q)] = Len(l)
      /\ \A j \in 1 .. Len(q) : Piece(c, q, l, j)
  BY <1>3, Zenon DEF IsCut
<1>5. ASSUME NEW j \in 1 .. Len(p)
      PROVE  j - 1 \in 0 .. Len(q) /\ c[j - 1] \in 0 .. Len(l)
  <2>1. j - 1 \in 0 .. Len(q)
    BY ONLY <1>1, <1>5
  <2>2. QED
    BY ONLY <1>4, <2>1, Zenon
<1>6. cut \in [0 .. Len(p) -> 0 .. Len(k)]
  <2>1. ASSUME NEW j \in 0 .. Len(p)
        PROVE  (IF j = 0 THEN 0 ELSE i + c[j - 1]) \in 0 .. Len(k)
    <3>1. CASE j = 0
      BY ONLY <1>2, <3>1
    <3>2. CASE j # 0
      <4>1. j \in 1 .. Len(p)
        BY ONLY <1>1, <2>1, <3>2
      <4>2. c[j - 1] \in 0 .. Len(l)
        BY ONLY <1>5, <4>1, Zenon
      <4>3. QED
        BY ONLY <1>2, <3>2, <4>2
    <3>3. QED
      BY <3>1, <3>2, Zenon
  <2>2. QED
    BY ONLY <2>1, Zenon
<1>7. /\ cut[0] = 0
      /\ \A j \in 1 .. Len(p) : cut[j] = i + c[j - 1]
  BY ONLY <1>1
<1> HIDE DEF cut
<1>8. cut[Len(p)] = Len(k)
  <2>1. Len(p) \in 1 .. Len(p) /\ Len(p) - 1 = Len(q)
    BY ONLY <1>1
  <2>2. cut[Len(p)] = i + Len(l)
    BY ONLY <1>4, <1>7, <2>1, Zenon
  <2>3. QED
    BY ONLY <1>2, <2>2
<1>9. ASSUME NEW j \in 1 .. Len(p)
      PROVE  Piece(cut, p, k, j)
  <2>1. CASE j = 1
    <3>1. cut[j - 1] = 0 /\ cut[j] = i
      <4>1. 1 - 1 = 0 /\ 1 \in 1 .. Len(p)
        BY ONLY <1>1
      <4>2. cut[1] = i + c[1 - 1]
        BY ONLY <1>7, <4>1, Zenon
      <4>3. QED
        BY ONLY <1>2, <1>4, <1>7, <2>1, <4>1, <4>2
    <3>2. CASE p[j] = "#"
      <4>1. cut[j - 1] <= cut[j]
        BY ONLY <1>2, <3>1
      <4>2. QED
        BY ONLY <3>2, <4>1, Zenon DEF Piece
    <3>3. CASE p[j] # "#"
      <4>1. i = 1 /\ (p[j] = "*" \/ <<p[j], k[i]>> \in Glob)
        BY ONLY <2>1, <3>3, First(p, k, i), Zenon DEF First
      <4>2. cut[j] = cut[j - 1] + 1
        BY ONLY <3>1, <4>1
      <4>3. QED
        BY ONLY <3>1, <3>3, <4>1, <4>2, Zenon DEF Piece
    <3>4. QED
      BY <3>2, <3>3, Zenon
  <2>2. CASE j # 1
    <3>0. j - 1 \in 1 .. Len(q) /\ j - 1 \in 1 .. Len(p) /\ (j - 1) + 1 = j
      BY ONLY <1>1, <1>9, <2>2
    <3>1. Piece(c, q, l, j - 1)
      BY ONLY <1>4, <3>0, Zenon
    <3>2. q[j - 1] = p[j]
      BY ONLY <1>1, <3>0, Zenon
    <3>3. cut[j] = i + c[j - 1] /\ cut[j - 1] = i + c[(j - 1) - 1]
      BY ONLY <1>7, <1>9, <3>0, Zenon
    <3>4. c[j - 1] \in 0 .. Len(l) /\ c[(j - 1) - 1] \in 0 .. Len(l)
      BY ONLY <1>5, <1>9, <3>0, Zenon
    <3>5. CASE p[j] = "#"
      <4>1. c[(j - 1) - 1] <= c[j - 1]
        BY ONLY <3>1, <3>2, <3>5, Zenon DEF Piece
      <4>2. cut[j - 1] <= cut[j]
        BY ONLY <1>2, <3>3, <3>4, <4>1
      <4>3. QED
        BY ONLY <3>5, <4>2, Zenon DEF Piece
    <3>6. CASE p[j] # "#"
      <4>1. /\ c[j - 1] = c[(j - 1) - 1] + 1
            /\ p[j] = "*" \/ <<p[j], l[c[j - 1]]>> \in Glob
        BY ONLY <3>1, <3>2, <3>6, Zenon DEF Piece
      <4>2. cut[j] = cut[j - 1] + 1
        BY ONLY <1>2, <3>3, <3>4, <4>1
      <4>3. l[c[j - 1]] = k[cut[j]]
        <5>1. c[j - 1] \in 1 .. Len(l)
          BY ONLY <1>2, <3>4, <4>1
        <5>2. QED
          BY ONLY <1>2, <3>3, <5>1, Zenon
      <4>4. QED
        BY ONLY <3>6, <4>1, <4>2, <4>3, Zenon DEF Piece
    <3>7. QED
      BY <3>5, <3>6, Zenon
  <2>3. QED
    BY <2>1, <2>2, Zenon
<1>10. QED
  <2>1. IsCut(cut, p, k)
    BY <1>6, <1>7, <1>8, <1>9, Zenon DEF IsCut
  <2>2. QED
    BY ONLY <2>1, Zenon DEF Cuttable, IsCut, Piece

\* So a pattern means something about its first part and something about the
\* rest.
LEMMA CuttableParts ==
  ASSUME Least, NEW p \in Seq(Parts), p # <<>>, NEW k \in Seq(Parts)
  PROVE  Cuttable(p, k) <=>
           \E i \in 0 .. Len(k) : First(p, k, i) /\ Cuttable(Tail(p), SubSeq(k, i + 1, Len(k)))
<1>1. ASSUME Cuttable(p, k)
      PROVE  \E i \in 0 .. Len(k) :
               First(p, k, i) /\ Cuttable(Tail(p), SubSeq(k, i + 1, Len(k)))
  <2>1. PICK cut : IsCut(cut, p, k)
    BY <1>1, Zenon DEF Cuttable, IsCut, Piece
  <2>2. QED
    BY <2>1, CutRest, Zenon
<1>2. QED
  BY <1>1, CutWhole, Zenon

\* The empty pattern means the empty key.
LEMMA CuttableEmpty ==
  ASSUME NEW k \in Seq(Parts)
  PROVE  Cuttable(<<>>, k) <=> k = <<>>
<1>1. Len(<<>>) = 0 /\ Len(k) \in Nat /\ (Len(k) = 0 <=> k = <<>>)
  OBVIOUS
<1>2. Cuttable(<<>>, k) <=> Len(k) = 0
  <2>1. ASSUME Cuttable(<<>>, k) PROVE Len(k) = 0
    BY <1>1, <2>1, Zenon DEF Cuttable
  <2>2. ASSUME Len(k) = 0 PROVE Cuttable(<<>>, k)
    <3> DEFINE c == [j \in 0 .. 0 |-> 0]
    <3>1. c \in [0 .. 0 -> 0 .. 0] /\ c[0] = 0
      OBVIOUS
    <3>2. 1 .. 0 = {}
      OBVIOUS
    <3> HIDE DEF c
    <3>3. QED
      BY ONLY <1>1, <2>2, <3>1, <3>2, Zenon DEF Cuttable
  <2>3. QED
    BY <2>1, <2>2, Zenon
<1>3. QED
  BY <1>1, <1>2, Zenon

\* What patterns mean, as a function of pattern and key.
Meaning == [args \in Seq(Parts) \X Seq(Parts) |-> Cuttable(args[1], args[2])]

\* What it is at a pair.
LEMMA MeaningAt ==
  ASSUME NEW p \in Seq(Parts), NEW k \in Seq(Parts)
  PROVE  Meaning[<<p, k>>] = Cuttable(p, k)
<1>1. <<p, k>> \in Seq(Parts) \X Seq(Parts) /\ <<p, k>>[1] = p /\ <<p, k>>[2] = k
  BY Zenon
<1>2. Meaning[<<p, k>>] = Cuttable(<<p, k>>[1], <<p, k>>[2])
  BY <1>1, Zenon DEF Meaning
<1>3. QED
  BY ONLY <1>1, <1>2, Zenon

\* The first part of a pattern takes one part of the key unless it is "#".
LEMMA OnePart ==
  ASSUME Least, NEW p \in Seq(Parts), p # <<>>, Head(p) # "#", NEW k \in Seq(Parts)
  PROVE  Cuttable(p, k) <=> /\ k # <<>>
                            /\ Head(p) = "*" \/ <<Head(p), Head(k)>> \in Glob
                            /\ Cuttable(Tail(p), Tail(k))
<1>0. Cuttable(p, k) <=>
        \E i \in 0 .. Len(k) : First(p, k, i) /\ Cuttable(Tail(p), SubSeq(k, i + 1, Len(k)))
  BY CuttableParts, Zenon
<1>1. Head(p) = p[1]
  BY RestOfPattern, Zenon
<1>2. \A i : First(p, k, i) <=> i = 1 /\ (Head(p) = "*" \/ <<Head(p), k[1]>> \in Glob)
  BY <1>1, Zenon DEF First
<1>3. CASE k = <<>>
  <2>1. 1 \notin 0 .. Len(k)
    BY <1>3
  <2>2. QED
    BY ONLY <1>0, <1>2, <1>3, <2>1, Zenon
<1>4. CASE k # <<>>
  <2>1. 1 \in 0 .. Len(k) /\ Head(k) = k[1] /\ SubSeq(k, 1 + 1, Len(k)) = Tail(k)
    BY <1>4, RestOfPattern
  <2>2. QED
    BY ONLY <1>0, <1>2, <1>4, <2>1, Zenon
<1>5. QED
  BY <1>3, <1>4, Zenon

\* "#" takes any number of them, and all of them if it is the last.
LEMMA AnyParts ==
  ASSUME Least, NEW p \in Seq(Parts), p # <<>>, Head(p) = "#", NEW k \in Seq(Parts)
  PROVE  Cuttable(p, k) <=>
           Len(p) = 1 \/ \E i \in 0 .. Len(k) : Cuttable(Tail(p), SubSeq(k, i + 1, Len(k)))
<1>1. \A i : First(p, k, i)
  <2>1. p[1] = "#"
    BY RestOfPattern, Zenon
  <2>2. QED
    BY <2>1, Zenon DEF First
<1>2. Cuttable(p, k) <=>
        \E i \in 0 .. Len(k) : Cuttable(Tail(p), SubSeq(k, i + 1, Len(k)))
  BY <1>1, CuttableParts, Zenon
<1>3. ASSUME Len(p) = 1
      PROVE  \E i \in 0 .. Len(k) : Cuttable(Tail(p), SubSeq(k, i + 1, Len(k)))
  <2>1. Tail(p) = <<>> /\ Len(k) \in 0 .. Len(k) /\ SubSeq(k, Len(k) + 1, Len(k)) = <<>>
    <3>1. Tail(p) \in Seq(Parts) /\ Len(Tail(p)) = 0
      BY <1>3, RestOfPattern
    <3>2. Len(k) \in 0 .. Len(k)
      OBVIOUS
    <3>3. /\ SubSeq(k, Len(k) + 1, Len(k)) \in Seq(Parts)
          /\ Len(SubSeq(k, Len(k) + 1, Len(k))) = 0
      BY <3>2, Rest
    <3>4. \A t \in Seq(Parts) : Len(t) = 0 => t = <<>>
      OBVIOUS
    <3>5. QED
      BY ONLY <3>1, <3>2, <3>3, <3>4, Zenon
  <2>2. <<>> \in Seq(Parts)
    OBVIOUS
  <2>3. Cuttable(<<>>, <<>>)
    BY <2>2, CuttableEmpty, Zenon
  <2>4. QED
    BY ONLY <2>1, <2>3, Zenon
<1>4. QED
  BY ONLY <1>2, <1>3, Zenon

\* One level of the recursion is right if the next one is.
LEMMA StepMeans ==
  ASSUME Least, NEW g, NEW p \in Seq(Parts), NEW k \in Seq(Parts),
         p # <<>> => \A l \in Seq(Parts) : g[<<Tail(p), l>>] <=> Cuttable(Tail(p), l)
  PROVE  Step(g, p, k) <=> Cuttable(p, k)
<1>1. CASE p = <<>>
  <2>1. Step(g, <<>>, k) <=> k = <<>>
    BY ONLY StepEmpty
  <2>2. Cuttable(<<>>, k) <=> k = <<>>
    BY CuttableEmpty, Zenon
  <2>3. QED
    BY ONLY <1>1, <2>1, <2>2, Zenon
<1>2. CASE p # <<>> /\ Head(p) = "#"
  <2>1. Step(g, p, k) <=>
          Len(p) = 1 \/ \E i \in 0 .. Len(k) : g[<<Tail(p), SubSeq(k, i + 1, Len(k))>>]
    BY <1>2, StepAny, Zenon
  <2>2. \A i \in 0 .. Len(k) : SubSeq(k, i + 1, Len(k)) \in Seq(Parts)
    BY Rest, Zenon
  <2>3. QED
    BY <1>2, <2>1, <2>2, AnyParts, Zenon
<1>3. CASE p # <<>> /\ Head(p) # "#"
  <2>1. k # <<>> => Tail(k) \in Seq(Parts)
    BY RestOfPattern, Zenon
  <2>2. Step(g, p, k) <=> /\ k # <<>>
                          /\ Head(p) = "*" \/ <<Head(p), Head(k)>> \in Glob
                          /\ g[<<Tail(p), Tail(k)>>]
    BY <1>3, StepOne, Zenon
  <2>3. QED
    BY <1>3, <2>1, <2>2, OnePart, Zenon
<1>4. QED
  BY <1>1, <1>2, <1>3, Zenon

\* The meaning of patterns solves the equation of matchParts.
LEMMA MeaningSolves ==
  ASSUME Least
  PROVE  Solves(Meaning)
<1>1. ASSUME NEW p \in Seq(Parts), NEW k \in Seq(Parts)
      PROVE  Cuttable(p, k) = Step(Meaning, p, k)
  <2>1. p # <<>> => \A l \in Seq(Parts) : Meaning[<<Tail(p), l>>] <=> Cuttable(Tail(p), l)
    <3>1. p # <<>> => Tail(p) \in Seq(Parts)
      BY RestOfPattern, Zenon
    <3>2. QED
      BY <3>1, MeaningAt, Zenon
  <2>2. Step(Meaning, p, k) <=> Cuttable(p, k)
    BY <2>1, StepMeans, Zenon
  <2>3. Step(Meaning, p, k) \in BOOLEAN /\ Cuttable(p, k) \in BOOLEAN
    BY Zenon DEF Step, Cuttable
  <2>4. QED
    BY ONLY <2>2, <2>3, Zenon
<1>2. ASSUME NEW args \in Seq(Parts) \X Seq(Parts)
      PROVE  Cuttable(args[1], args[2]) = Step(Meaning, args[1], args[2])
  BY <1>1, Zenon
<1>3. QED
  BY <1>2, Zenon DEF Solves, Meaning

\* No other function solves it: the recursion ends.
LEMMA SolutionMeans ==
  ASSUME Least, NEW g, Solves(g), NEW p \in Seq(Parts), NEW k \in Seq(Parts)
  PROVE  g[<<p, k>>] <=> Cuttable(p, k)
<1> DEFINE Wrong(q, l) == ~(g[<<q, l>>] <=> Cuttable(q, l))
           T == {n \in Nat : \E q \in Seq(Parts), l \in Seq(Parts) : Len(q) = n /\ Wrong(q, l)}
<1>1. SUFFICES ASSUME T # {} PROVE FALSE
  <2>1. Len(p) \in Nat
    OBVIOUS
  <2>2. QED
    BY <2>1, Zenon
<1>2. PICK n \in T : \A m \in T : n <= m
  <2>1. T \in SUBSET Nat
    BY Zenon
  <2>2. QED
    BY <1>1, <2>1, Zenon DEF Least
<1>3. PICK q \in Seq(Parts), l \in Seq(Parts) : Len(q) = n /\ Wrong(q, l)
  BY <1>2, Zenon
<1>4. q # <<>> => \A j \in Seq(Parts) : g[<<Tail(q), j>>] <=> Cuttable(Tail(q), j)
  <2>1. SUFFICES ASSUME q # <<>>, NEW j \in Seq(Parts), Wrong(Tail(q), j) PROVE FALSE
    BY Zenon
  <2>2. Tail(q) \in Seq(Parts) /\ Len(Tail(q)) \in Nat /\ ~(n <= Len(Tail(q)))
    <3>1. /\ Tail(q) \in Seq(Parts) /\ Len(Tail(q)) = Len(q) - 1 /\ Len(q) \in Nat \ {0}
      BY <2>1, RestOfPattern, Zenon
    <3>2. QED
      BY ONLY <1>3, <3>1
  <2>3. Len(Tail(q)) \in T
    BY <2>1, <2>2, Zenon
  <2>4. QED
    BY ONLY <1>2, <2>2, <2>3, Zenon
<1>5. g[<<q, l>>] = Step(g, q, l)
  BY SolvedAt, Zenon
<1>6. Step(g, q, l) <=> Cuttable(q, l)
  BY <1>4, StepMeans, Zenon
<1>7. QED
  BY ONLY <1>3, <1>5, <1>6, Zenon

\* matchParts decides whether a key can be cut up as the pattern says.
LEMMA MatchPartsMeans ==
  ASSUME Least, NEW p \in Seq(Parts), NEW k \in Seq(Parts)
  PROVE  matchParts[<<p, k>>] <=> Cuttable(p, k)
<1>1. Solves(matchParts)
  BY MeaningSolves, Chosen, Zenon
<1>2. QED
  BY <1>1, SolutionMeans, Zenon

\* "#" alone takes every key in one piece.
LEMMA AloneTakesAll ==
  ASSUME NEW p, p = <<"#">>, NEW k \in Seq(Parts)
  PROVE  Cuttable(p, k)
<1>1. IsCut([i \in 0 .. 1 |-> IF i = 0 THEN 0 ELSE Len(k)], p, k)
  BY DEF IsCut, Piece
<1>2. QED
  BY <1>1, Zenon DEF IsCut, Piece, Cuttable

\* What MatchIsExact says, of patterns and keys of any length.
Means == \A p, k \in Seq(Parts) : topicMatch(p, k) <=> p = Empty \/ Cuttable(p, k)

\* topicMatch decides what a pattern means.
LEMMA TopicMatchMeans ==
  ASSUME Least
  PROVE  Means
<1>1. SUFFICES ASSUME NEW p \in Seq(Parts), NEW k \in Seq(Parts)
               PROVE  topicMatch(p, k) <=> p = Empty \/ Cuttable(p, k)
  BY Zenon DEF Means
<1>2. matchParts[<<p, k>>] <=> Cuttable(p, k)
  BY MatchPartsMeans, Zenon
<1>3. p = <<"#">> => Cuttable(p, k)
  BY AloneTakesAll, Zenon
<1>4. QED
  BY <1>2, <1>3, Zenon DEF topicMatch

-----------------------------------------------------------------------------
(* Lists of finite sets.                                                   *)

\* A strict total order of S.
Total(S, before) ==
  /\ \A x \in S : <<x, x>> \notin before
  /\ \A x, y \in S : x # y => <<x, y>> \in before \/ <<y, x>> \in before
  /\ \A x, y, z \in S : <<x, y>> \in before /\ <<y, z>> \in before => <<x, z>> \in before

IsList(s, S, before) ==
  /\ s \in [1 .. Cardinality(S) -> S]
  /\ \A i, j \in 1 .. Cardinality(S) : i < j => <<s[i], s[j]>> \in before

\* A finite set can be listed in any order, and a list leaves nothing out.
Listable ==
  \A S, before : IsFiniteSet(S) /\ Total(S, before) =>
    /\ Cardinality(S) \in Nat
    /\ \E s : IsList(s, S, before)
    /\ \A s : IsList(s, S, before) => \A x \in S : \E i \in 1 .. Cardinality(S) : s[i] = x

\* What the proofs below use of finite sets (CountingHolds, at the end).
Counting ==
  /\ Least
  /\ Listable
  /\ IsFiniteSet({})
  /\ \A S, x : IsFiniteSet(S) => IsFiniteSet(S \cup {x})
  /\ \A S, T : IsFiniteSet(S) /\ T \subseteq S => IsFiniteSet(T)
  /\ \A n \in Nat : IsFiniteSet(1 .. n) /\ Cardinality(1 .. n) = n

\* InOrder lists every element of the set once.
LEMMA InOrderLists ==
  ASSUME Counting, NEW S, NEW before, IsFiniteSet(S), Total(S, before)
  PROVE  /\ Cardinality(S) \in Nat
         /\ IsList(InOrder(S, before), S, before)
         /\ \A x \in S : \E i \in 1 .. Cardinality(S) : InOrder(S, before)[i] = x
         /\ \A i, j \in 1 .. Cardinality(S) :
              i # j => InOrder(S, before)[i] # InOrder(S, before)[j]
<1>1. /\ Cardinality(S) \in Nat
      /\ \E s : IsList(s, S, before)
      /\ \A s : IsList(s, S, before) => \A x \in S : \E i \in 1 .. Cardinality(S) : s[i] = x
  <2>1. Listable
    BY Zenon DEF Counting
  <2>2. QED
    BY ONLY <2>1, IsFiniteSet(S), Total(S, before) DEF Listable
<1>2. IsList(InOrder(S, before), S, before)
  <2>1. PICK s : IsList(s, S, before)
    BY <1>1, Zenon
  <2>2. \E t \in [1 .. Cardinality(S) -> S] :
          \A i, j \in 1 .. Cardinality(S) : i < j => <<t[i], t[j]>> \in before
    BY <2>1, Zenon DEF IsList
  <2>3. QED
    BY <2>2, Zenon DEF InOrder, IsList
<1>3. ASSUME NEW i \in 1 .. Cardinality(S), NEW j \in 1 .. Cardinality(S), i # j
      PROVE  InOrder(S, before)[i] # InOrder(S, before)[j]
  <2>1. i < j \/ j < i
    BY <1>1, <1>3
  <2>2. /\ InOrder(S, before)[i] \in S
        /\ i < j => <<InOrder(S, before)[i], InOrder(S, before)[j]>> \in before
        /\ j < i => <<InOrder(S, before)[j], InOrder(S, before)[i]>> \in before
    BY <1>2, Zenon DEF IsList
  <2>3. QED
    BY <2>1, <2>2, Zenon DEF Total
<1>4. QED
  BY ONLY <1>1, <1>2, <1>3, Zenon

\* Descending priority, then the id or position, is a strict total order.
LEMMA PriorityTotal ==
  ASSUME NEW f, NEW S, S \subseteq Int, \A x \in S : f[x].priority \in Int
  PROVE  Total(S, ByPriority(f, S))
<1>1. ASSUME NEW x \in S, NEW y \in S
      PROVE  <<x, y>> \in ByPriority(f, S) <=>
               f[x].priority > f[y].priority \/ (f[x].priority = f[y].priority /\ x < y)
  BY Zenon DEF ByPriority
<1>2. QED
  BY ONLY <1>1, S \subseteq Int, \A x \in S : f[x].priority \in Int DEF Total

\* So are the numbers.
LEMMA NumbersTotal ==
  ASSUME NEW S, S \subseteq Int
  PROVE  Total(S, {e \in S \X S : e[1] < e[2]})
<1>1. ASSUME NEW x \in S, NEW y \in S
      PROVE  <<x, y>> \in {e \in S \X S : e[1] < e[2]} <=> x < y
  BY Zenon
<1>2. QED
  BY ONLY <1>1, S \subseteq Int DEF Total

-----------------------------------------------------------------------------
(* Resolve returns the right routes.                                       *)

\* The bindings of the source, by descending priority.
Listing(list, source) ==
  /\ \E n \in Nat : DOMAIN list = 1 .. n
  /\ \A i \in DOMAIN list : \E id \in DOMAIN bindings :
       bindings[id].source = source /\ list[i] = bindings[id]
  /\ \A id \in DOMAIN bindings :
       bindings[id].source = source => \E i \in DOMAIN list : list[i] = bindings[id]
  /\ \A i, j \in DOMAIN list : i < j => list[i].priority >= list[j].priority

\* ListBindings returns every binding of the source.
LEMMA ListBindingsLists ==
  ASSUME Counting, TypeOK, IsFiniteSet(DOMAIN bindings), NEW source
  PROVE  Listing(ListBindings(source), source)
<1> DEFINE found == {id \in DOMAIN bindings : bindings[id].source = source}
           before == ByPriority(bindings, found)
           ids == InOrder(found, before)
           n == Cardinality(found)
<1> HIDE DEF found
<1>0. found = {id \in DOMAIN bindings : bindings[id].source = source}
  BY Zenon DEF found
<1>1. found \subseteq Int /\ \A x \in found : bindings[x].priority \in Int
  BY <1>0, AddressConstants, RoutingConstants, Zenon DEF TypeOK, Bindable
<1>2. IsFiniteSet(found)
  BY <1>0, Zenon DEF Counting
<1>3. Total(found, before)
  BY <1>1, PriorityTotal, Zenon
<1>4. /\ n \in Nat
      /\ IsList(ids, found, before)
      /\ \A x \in found : \E i \in 1 .. n : ids[i] = x
  BY <1>2, <1>3, InOrderLists
<1>5. /\ \A i \in 1 .. n : ids[i] \in found
      /\ \A i, j \in 1 .. n : i < j => <<ids[i], ids[j]>> \in before
  BY <1>4, Zenon DEF IsList
<1>6. ListBindings(source) = [i \in 1 .. n |-> bindings[ids[i]]]
  BY <1>0, Zenon DEF ListBindings
<1>7. \A x, y \in found : <<x, y>> \in before => bindings[x].priority >= bindings[y].priority
  BY <1>1 DEF ByPriority
<1> HIDE DEF before, ids, n
<1>8. QED
  <2> DEFINE list == [i \in 1 .. n |-> bindings[ids[i]]]
  <2>1. DOMAIN list = 1 .. n /\ \A i \in 1 .. n : list[i] = bindings[ids[i]]
    BY Zenon
  <2>2. \A i \in 1 .. n : \E id \in DOMAIN bindings :
          bindings[id].source = source /\ list[i] = bindings[id]
    BY <1>0, <1>5, <2>1, Zenon
  <2>3. \A id \in DOMAIN bindings :
          bindings[id].source = source => \E i \in 1 .. n : list[i] = bindings[id]
    BY <1>0, <1>4, <2>1, Zenon
  <2>4. \A i, j \in 1 .. n : i < j => list[i].priority >= list[j].priority
    BY <1>5, <1>7, <2>1, Zenon
  <2>5. Listing(list, source)
    BY <1>4, <2>1, <2>2, <2>3, <2>4, Zenon DEF Listing
  <2>6. QED
    BY <1>6, <2>5, Zenon

\* The route for a binding.
Route(b) == [destination |-> b.destination, priority |-> b.priority]

\* routes has one route for each of the chosen bindings, by descending priority.
RoutesFor(routes, list, chosen) ==
  \E m \in Nat : \E o \in [1 .. m -> chosen] :
    /\ routes = [i \in 1 .. m |-> Route(list[o[i]])]
    /\ \A i, j \in 1 .. m : i # j => o[i] # o[j]
    /\ \A k \in chosen : \E i \in 1 .. m : o[i] = k
    /\ \A i, j \in 1 .. m : i < j => list[o[i]].priority >= list[o[j]].priority

\* Routes and SortRoutes yield a route for each of the chosen bindings.
LEMMA SortedRoutes ==
  ASSUME Counting, NEW list, NEW n \in Nat, DOMAIN list = 1 .. n,
         \A i \in 1 .. n : list[i].priority \in Int,
         NEW chosen, chosen \subseteq 1 .. n
  PROVE  RoutesFor(SortRoutes(Routes(list, chosen)), list, chosen)
<1> DEFINE m == Cardinality(chosen)
           less == {e \in chosen \X chosen : e[1] < e[2]}
           first == InOrder(chosen, less)
           out == Routes(list, chosen)
           before == ByPriority(out, DOMAIN out)
           second == InOrder(DOMAIN out, before)
           o == [i \in 1 .. m |-> first[second[i]]]
<1>1. IsFiniteSet(chosen) /\ Total(chosen, less)
  <2>1. IsFiniteSet(chosen)
    BY Zenon DEF Counting
  <2>2. chosen \subseteq Int
    OBVIOUS
  <2>3. QED
    BY <2>1, <2>2, NumbersTotal, Zenon
<1> HIDE DEF less
<1>2. /\ m \in Nat
      /\ IsList(first, chosen, less)
      /\ \A x \in chosen : \E i \in 1 .. m : first[i] = x
      /\ \A i, j \in 1 .. m : i # j => first[i] # first[j]
  BY ONLY Counting, <1>1, InOrderLists
<1>3. \A i \in 1 .. m : first[i] \in chosen
  BY <1>2, Zenon DEF IsList
<1>4. out = [i \in 1 .. m |-> Route(list[first[i]])]
  BY Zenon DEF Routes, Route, less
<1> HIDE DEF m, first, out
<1>5. /\ DOMAIN out = 1 .. m
      /\ \A i \in 1 .. m : out[i] = Route(list[first[i]])
  BY <1>4, Zenon
<1>6. \A i \in 1 .. m : out[i].priority = list[first[i]].priority /\ out[i].priority \in Int
  <2>1. ASSUME NEW i \in 1 .. m
        PROVE  out[i].priority = list[first[i]].priority /\ out[i].priority \in Int
    <3>1. first[i] \in 1 .. n
      BY <1>3, Zenon
    <3>2. out[i].priority = list[first[i]].priority
      BY <1>5 DEF Route
    <3>3. QED
      BY <3>1, <3>2, Zenon
  <2>2. QED
    BY <2>1, Zenon
<1>7. IsFiniteSet(1 .. m) /\ Cardinality(1 .. m) = m
  BY <1>2, Zenon DEF Counting
<1>8. Total(1 .. m, ByPriority(out, 1 .. m))
  <2>1. 1 .. m \subseteq Int
    OBVIOUS
  <2>2. QED
    BY <1>6, <2>1, PriorityTotal, Zenon
<1>9. /\ IsList(second, 1 .. m, before)
      /\ \A x \in 1 .. m : \E i \in 1 .. m : second[i] = x
      /\ \A i, j \in 1 .. m : i # j => second[i] # second[j]
  <2> DEFINE S == 1 .. m
             R == ByPriority(out, S)
  <2> HIDE DEF S, R
  <2>1. IsFiniteSet(S) /\ Cardinality(S) = m /\ Total(S, R)
    BY <1>7, <1>8, Zenon DEF S, R
  <2>2. /\ IsList(InOrder(S, R), S, R)
        /\ \A x \in S : \E i \in 1 .. Cardinality(S) : InOrder(S, R)[i] = x
        /\ \A i, j \in 1 .. Cardinality(S) : i # j => InOrder(S, R)[i] # InOrder(S, R)[j]
    BY ONLY Counting, <2>1, InOrderLists
  <2>3. QED
    BY ONLY <1>5, <2>1, <2>2, Zenon DEF S, R
<1>10. SortRoutes(out) = [i \in 1 .. m |-> out[second[i]]]
  BY <1>5, Zenon DEF SortRoutes
<1>11. /\ \A i \in 1 .. m : second[i] \in 1 .. m
       /\ \A i, j \in 1 .. m : i < j => <<second[i], second[j]>> \in ByPriority(out, 1 .. m)
  BY ONLY <1>5, <1>7, <1>9, Zenon DEF IsList
<1>12. \A x, y \in 1 .. m :
         <<x, y>> \in ByPriority(out, 1 .. m) => out[x].priority >= out[y].priority
  BY <1>6 DEF ByPriority
<1> HIDE DEF before, second
<1>13. o \in [1 .. m -> chosen] /\ \A i \in 1 .. m : o[i] = first[second[i]]
  BY <1>3, <1>11, Zenon
<1> HIDE DEF o
<1>14. SortRoutes(out) = [i \in 1 .. m |-> Route(list[o[i]])]
  BY <1>5, <1>10, <1>11, <1>13
<1>15. \A i, j \in 1 .. m : i # j => o[i] # o[j]
  <2>1. ASSUME NEW i \in 1 .. m, NEW j \in 1 .. m, i # j
        PROVE  o[i] # o[j]
    <3>1. second[i] \in 1 .. m /\ second[j] \in 1 .. m
      BY <1>11, Zenon
    <3>2. second[i] # second[j]
      BY <1>9, <2>1, Zenon
    <3>3. first[second[i]] # first[second[j]]
      BY ONLY <1>2, <3>1, <3>2, Zenon
    <3>4. QED
      BY ONLY <1>13, <3>3, i \in 1 .. m, j \in 1 .. m, Zenon
  <2>2. QED
    BY <2>1, Zenon
<1>16. \A k \in chosen : \E i \in 1 .. m : o[i] = k
  <2>1. ASSUME NEW k \in chosen
        PROVE  \E i \in 1 .. m : o[i] = k
    <3>1. PICK x \in 1 .. m : first[x] = k
      BY <1>2, Zenon
    <3>2. PICK i \in 1 .. m : second[i] = x
      BY <1>9, Zenon
    <3>3. QED
      BY ONLY <1>13, <3>1, <3>2, Zenon
  <2>2. QED
    BY <2>1, Zenon
<1>17. \A i, j \in 1 .. m : i < j => list[o[i]].priority >= list[o[j]].priority
  <2>1. ASSUME NEW i \in 1 .. m, NEW j \in 1 .. m, i < j
        PROVE  list[o[i]].priority >= list[o[j]].priority
    <3>1. second[i] \in 1 .. m /\ second[j] \in 1 .. m
      BY <1>11, Zenon
    <3>2. <<second[i], second[j]>> \in ByPriority(out, 1 .. m)
      BY <1>11, <2>1, Zenon
    <3>3. out[second[i]].priority >= out[second[j]].priority
      BY ONLY <1>12, <3>1, <3>2, Zenon
    <3>4. list[first[second[i]]].priority >= list[first[second[j]]].priority
      BY ONLY <1>6, <3>1, <3>3, Zenon
    <3>5. o[i] = first[second[i]] /\ o[j] = first[second[j]]
      BY <1>13, Zenon
    <3>6. QED
      BY ONLY <3>4, <3>5, Zenon
  <2>2. QED
    BY <2>1, Zenon
<1>18. QED
  BY <1>2, <1>13, <1>14, <1>15, <1>16, <1>17, Zenon DEF RoutesFor, out

\* What Resolve asks of a binding is what the kind of its source means.
WantedFor(kind, b, key, headers) ==
  /\ \A h \in DOMAIN b.filter : h \in DOMAIN headers /\ headers[h] = b.filter[h]
  /\ kind = "direct" => b.key = key
  /\ kind = "fanout" \/ b.key = Empty \/ Cuttable(b.key, key)

\* Selects decides it.
LEMMA SelectsWanted ==
  ASSUME Means, NEW kind, NEW b \in Bindings, NEW key \in Keys, NEW headers
  PROVE  Selects(kind, b, key, headers) <=> WantedFor(kind, b, key, headers)
<1>1. b.key \in Seq(Parts) /\ key \in Seq(Parts)
  BY RoutingConstants, Zenon
<1>2. topicMatch(b.key, key) <=> b.key = Empty \/ Cuttable(b.key, key)
  BY <1>1, Zenon DEF Means
<1>3. CASE kind = "fanout"
  <2>1. topicMatch(<<"#">>, key)
    BY Zenon DEF topicMatch
  <2>2. kind # "direct"
    BY <1>3, Zenon
  <2>3. QED
    BY <1>3, <2>1, <2>2, Zenon DEF Selects, WantedFor, Match
<1>4. CASE kind # "fanout"
  BY <1>2, <1>4, Zenon DEF Selects, WantedFor, Match
<1>5. QED
  BY <1>3, <1>4, Zenon

\* Every source, key and headers get the right routes.
LEMMA RoutesExactHere ==
  ASSUME Counting, Means, TypeOK, NamesResolve, IsFiniteSet(DOMAIN bindings)
  PROVE  RoutesExact
<1> SUFFICES ASSUME NEW source \in Exchanges, NEW key \in Keys, NEW headers \in Headers
             PROVE  LET routes == Resolve(source, key, headers)
                        wanted == Wanted(source, key, headers)
                    IN  /\ {routes[i].destination : i \in DOMAIN routes}
                             = {b.destination : b \in wanted}
                        /\ \A i, j \in DOMAIN routes :
                             /\ routes[i].destination = routes[j].destination => i = j
                             /\ i < j => routes[i].priority >= routes[j].priority
                        /\ \A i \in DOMAIN routes, b \in wanted :
                             b.destination = routes[i].destination
                               => b.priority <= routes[i].priority
  BY Zenon DEF RoutesExact
<1> DEFINE kind    == addresses[source].kind
           list    == ListBindings(source)
           passing == Passing(list, kind, key, headers)
           unseen  == {i \in passing :
                         \A j \in passing : j < i => list[j].destination # list[i].destination}
           routes  == Resolve(source, key, headers)
           wanted  == Wanted(source, key, headers)
<1>1. Listing(list, source)
  BY ListBindingsLists, Zenon
<1>2. routes = SortRoutes(Routes(list, unseen))
  BY Zenon DEF Resolve, Exchanges
<1>3. PICK n \in Nat : DOMAIN list = 1 .. n
  BY <1>1, Zenon DEF Listing
<1>4. \A i \in 1 .. n : \E id \in DOMAIN bindings :
        bindings[id].source = source /\ list[i] = bindings[id]
  BY <1>1, <1>3, Zenon DEF Listing
<1>5. \A id \in DOMAIN bindings :
        bindings[id].source = source => \E i \in 1 .. n : list[i] = bindings[id]
  BY <1>1, <1>3, Zenon DEF Listing
<1>6. \A i, j \in 1 .. n : i < j => list[i].priority >= list[j].priority
  BY <1>1, <1>3, Zenon DEF Listing
<1>7. passing = {i \in 1 .. n : Selects(kind, list[i], key, headers) /\ Exists(list[i].destination)}
  BY <1>3, Zenon DEF Passing
<1>8. wanted = {b \in {bindings[id] : id \in DOMAIN bindings} :
                  b.source = source /\ WantedFor(kind, b, key, headers)}
  BY Zenon DEF Wanted, WantedFor
<1> HIDE DEF kind, list, passing, routes, wanted
<1>9. \A id \in DOMAIN bindings :
        /\ bindings[id] \in Bindings
        /\ bindings[id].priority \in Int
        /\ Exists(bindings[id].destination)
  BY AddressConstants, Zenon DEF TypeOK, Bindable, NamesResolve
<1>10. \A i \in 1 .. n : list[i] \in Bindings /\ list[i].priority \in Int
  BY <1>4, <1>9, Zenon
\* The passing bindings are the wanted ones.
<1>11. \A k \in passing : list[k] \in wanted
  BY <1>4, <1>7, <1>8, <1>10, SelectsWanted, Zenon
<1>12. \A b \in wanted : \E k \in passing : list[k] = b
  <2>1. SUFFICES ASSUME NEW b \in wanted
                 PROVE  \E k \in passing : list[k] = b
    BY Zenon
  <2>2. PICK id \in DOMAIN bindings : b = bindings[id]
    BY <1>8, Zenon
  <2>3. b.source = source /\ WantedFor(kind, b, key, headers)
    BY <1>8, Zenon
  <2>4. PICK k \in 1 .. n : list[k] = b
    BY <1>5, <2>2, <2>3, Zenon
  <2>5. b \in Bindings /\ Exists(b.destination)
    BY <1>9, <2>2, Zenon
  <2>6. Selects(kind, b, key, headers)
    BY <2>3, <2>5, SelectsWanted, Zenon
  <2>7. QED
    BY <1>7, <2>4, <2>5, <2>6, Zenon
<1>13. passing \subseteq Nat /\ passing \subseteq 1 .. n /\ unseen \subseteq 1 .. n
  BY <1>7
<1>14. /\ \A k \in passing : \E i \in unseen : i <= k /\ list[i].destination = list[k].destination
       /\ \A i \in unseen : i \in passing
       /\ \A i, j \in unseen : i # j => list[i].destination # list[j].destination
  <2>1. \A k \in passing : \E i \in unseen : i <= k /\ list[i].destination = list[k].destination
    <3>1. SUFFICES ASSUME NEW k \in passing
                   PROVE  \E i \in unseen : i <= k /\ list[i].destination = list[k].destination
      BY Zenon
    <3> DEFINE T == {i \in passing : list[i].destination = list[k].destination}
    <3>2. T \in SUBSET Nat /\ T # {} /\ k \in T
      BY <1>13, Zenon
    <3>3. PICK i \in T : \A j \in T : i <= j
      BY <3>2, Zenon DEF Counting, Least
    <3>4. ASSUME NEW j \in passing, j < i, list[j].destination = list[i].destination
          PROVE  FALSE
      <4>1. j \in T
        BY <3>3, <3>4, Zenon
      <4>2. i <= j
        BY <3>3, <4>1, Zenon
      <4>3. i \in Nat /\ j \in Nat
        BY <3>2, <4>1, Zenon
      <4>4. QED
        BY ONLY <3>4, <4>2, <4>3
    <3>5. i \in unseen
      BY <3>3, <3>4, Zenon
    <3>6. QED
      BY <3>2, <3>3, <3>5, Zenon
  <2>2. \A i \in unseen : i \in passing
    BY Zenon
  <2>3. ASSUME NEW i \in unseen, NEW j \in unseen, i # j
        PROVE  list[i].destination # list[j].destination
    <3>1. i \in Nat /\ j \in Nat
      BY <1>13, Zenon
    <3>2. i < j \/ j < i
      BY ONLY <2>3, <3>1
    <3>3. QED
      BY <3>2, Zenon
  <2>4. QED
    BY <2>1, <2>2, <2>3, Zenon
<1>15. RoutesFor(routes, list, unseen)
  BY <1>2, <1>3, <1>10, <1>13, SortedRoutes, Zenon
<1> HIDE DEF unseen
<1>0. PICK m \in Nat : \E o \in [1 .. m -> unseen] :
         /\ routes = [i \in 1 .. m |-> Route(list[o[i]])]
         /\ \A i, j \in 1 .. m : i # j => o[i] # o[j]
         /\ \A k \in unseen : \E i \in 1 .. m : o[i] = k
         /\ \A i, j \in 1 .. m : i < j => list[o[i]].priority >= list[o[j]].priority
  BY <1>15, Zenon DEF RoutesFor
<1>16. PICK o \in [1 .. m -> unseen] :
         /\ routes = [i \in 1 .. m |-> Route(list[o[i]])]
         /\ \A i, j \in 1 .. m : i # j => o[i] # o[j]
         /\ \A k \in unseen : \E i \in 1 .. m : o[i] = k
         /\ \A i, j \in 1 .. m : i < j => list[o[i]].priority >= list[o[j]].priority
  BY <1>0, Zenon
<1>17. /\ DOMAIN routes = 1 .. m
       /\ \A i \in 1 .. m : /\ o[i] \in unseen
                             /\ routes[i].destination = list[o[i]].destination
                             /\ routes[i].priority = list[o[i]].priority
  BY <1>16, Zenon DEF Route
<1>18. {routes[i].destination : i \in DOMAIN routes} = {b.destination : b \in wanted}
  <2>1. ASSUME NEW i \in 1 .. m
        PROVE  \E b \in wanted : routes[i].destination = b.destination
    BY <1>11, <1>14, <1>17, Zenon
  <2>2. ASSUME NEW b \in wanted
        PROVE  \E i \in 1 .. m : routes[i].destination = b.destination
    <3>1. PICK k \in passing : list[k] = b
      BY <1>12, Zenon
    <3>2. PICK l \in unseen : list[l].destination = list[k].destination
      BY <1>14, Zenon
    <3>3. PICK i \in 1 .. m : o[i] = l
      BY <1>16, Zenon
    <3>4. QED
      BY ONLY <1>17, <3>1, <3>2, <3>3, Zenon
  <2>3. {routes[i].destination : i \in 1 .. m} = {b.destination : b \in wanted}
    <3>1. ASSUME NEW d \in {routes[i].destination : i \in 1 .. m}
          PROVE  d \in {b.destination : b \in wanted}
      BY <2>1, Zenon
    <3>2. ASSUME NEW d \in {b.destination : b \in wanted}
          PROVE  d \in {routes[i].destination : i \in 1 .. m}
      BY <2>2, Zenon
    <3>3. QED
      BY <3>1, <3>2, Zenon
  <2>4. QED
    BY ONLY <1>17, <2>3, Zenon
<1>19. ASSUME NEW i \in 1 .. m, NEW j \in 1 .. m
       PROVE  /\ routes[i].destination = routes[j].destination => i = j
              /\ i < j => routes[i].priority >= routes[j].priority
  <2>1. o[i] \in unseen /\ o[j] \in unseen
    BY <1>17, Zenon
  <2>2. /\ routes[i].destination = list[o[i]].destination
        /\ routes[j].destination = list[o[j]].destination
        /\ routes[i].priority = list[o[i]].priority
        /\ routes[j].priority = list[o[j]].priority
    BY <1>17, Zenon
  <2>3. list[o[i]].destination = list[o[j]].destination => o[i] = o[j]
    BY ONLY <1>14, <2>1, Zenon
  <2>4. o[i] = o[j] => i = j
    BY <1>16, Zenon
  <2>5. i < j => list[o[i]].priority >= list[o[j]].priority
    BY <1>16, Zenon
  <2>6. QED
    BY ONLY <2>2, <2>3, <2>4, <2>5, Zenon
<1>20. ASSUME NEW i \in 1 .. m, NEW b \in wanted, b.destination = routes[i].destination
       PROVE  b.priority <= routes[i].priority
  <2>1. PICK k \in passing : list[k] = b
    BY <1>12, Zenon
  <2>2. PICK l \in unseen : l <= k /\ list[l].destination = list[k].destination
    BY <1>14, Zenon
  <2>3. l = o[i]
    <3>1. o[i] \in unseen /\ routes[i].destination = list[o[i]].destination
      BY <1>17, Zenon
    <3>2. list[l].destination = list[o[i]].destination
      BY ONLY <1>20, <2>1, <2>2, <3>1, Zenon
    <3>3. QED
      BY ONLY <1>14, <2>2, <3>1, <3>2, Zenon
  <2>4. k \in 1 .. n /\ l \in 1 .. n
    BY <1>13, Zenon
  <2>5. list[k].priority \in Int /\ list[l].priority \in Int
    BY <1>10, <2>4, Zenon
  <2>6. list[k].priority <= list[l].priority
    <3>1. CASE l = k
      BY <2>5, <3>1
    <3>2. CASE l # k
      <4>1. l < k
        BY ONLY <2>2, <2>4, <3>2
      <4>2. list[l].priority >= list[k].priority
        BY <1>6, <2>4, <4>1, Zenon
      <4>3. QED
        BY ONLY <2>5, <4>2, Zenon
    <3>3. QED
      BY <3>1, <3>2, Zenon
  <2>7. QED
    BY <1>17, <2>1, <2>3, <2>6, Zenon
<1>21. QED
  BY <1>17, <1>18, <1>19, <1>20, Zenon DEF routes, wanted

\* The bindings are finitely many: one is added at a time.
LEMMA FinitelyMany ==
  ASSUME Counting
  PROVE  Spec => []IsFiniteSet(DOMAIN bindings)
<1>1. Init => IsFiniteSet(DOMAIN bindings)
  BY DEF Init, Counting
<1>2. IsFiniteSet(DOMAIN bindings) /\ [Next]_vars => IsFiniteSet(DOMAIN bindings)'
  <2>1. SUFFICES ASSUME IsFiniteSet(DOMAIN bindings), [Next]_vars
                 PROVE  IsFiniteSet(DOMAIN bindings')
    BY Zenon
  <2>2. \/ bindings' = bindings
        \/ \E id \in Ids : DOMAIN bindings' = DOMAIN bindings \cup {id}
    BY <2>1, Zenon
       DEF Next, vars, Create, Bind, Call, Store, CreateBinding, Cancel, SetPaused, Put
  <2>3. \A S, x : IsFiniteSet(S) => IsFiniteSet(S \cup {x})
    BY Zenon DEF Counting
  <2>4. QED
    BY ONLY <2>1, <2>2, <2>3, Zenon
<1>3. QED
  BY <1>1, <1>2, PTL DEF Spec

-----------------------------------------------------------------------------
(* Finite sets.                                                            *)

INSTANCE FiniteSetTheorems

\* The sets 1 .. n are finite, and inclusion of finite sets is well-founded.
LEMMA LeastExists == Least
<1> SUFFICES ASSUME NEW T \in SUBSET Nat, T # {}
             PROVE  \E n \in T : \A m \in T : n <= m
  BY Zenon DEF Least
<1> DEFINE Below == {1 .. n : n \in T}
<1>1. Below \subseteq FiniteSubsetsOf(Nat) /\ Below # {}
  <2>1. \A n \in T : 1 .. n \in SUBSET Nat /\ IsFiniteSet(1 .. n)
    BY FS_Interval
  <2>2. QED
    BY <2>1, Zenon DEF FiniteSubsetsOf
<1>2. IsWellFoundedOn(StrictSubsetOrdering(Nat), FiniteSubsetsOf(Nat))
  BY FS_StrictSubsetOrderingWellFounded, Zenon
<1>3. PICK S \in Below : \A R \in Below : <<R, S>> \notin StrictSubsetOrdering(Nat)
  BY <1>1, <1>2, WFMin, Zenon
<1>4. PICK n \in T : S = 1 .. n
  BY Zenon
<1>5. ASSUME NEW m \in T, m < n
      PROVE  FALSE
  <2>1. 1 .. m \in SUBSET Nat /\ 1 .. n \in SUBSET Nat
    OBVIOUS
  <2>2. 1 .. m \subseteq 1 .. n /\ 1 .. m # 1 .. n
    BY <1>5
  <2>3. <<1 .. m, 1 .. n>> \in StrictSubsetOrdering(Nat)
    BY ONLY <2>1, <2>2, Zenon DEF StrictSubsetOrdering
  <2>4. QED
    BY <1>3, <1>4, <2>3, Zenon
<1>6. QED
  BY <1>5

\* A finite set has a greatest element.
LEMMA Greatest ==
  ASSUME NEW R, NEW before, IsFiniteSet(R), R # {}, Total(R, before)
  PROVE  \E x \in R : \A y \in R : y # x => <<y, x>> \in before
<1> DEFINE After(x) == {y \in R : <<x, y>> \in before}
           All == {After(x) : x \in R}
<1>1. All \subseteq FiniteSubsetsOf(R) /\ All # {}
  <2>1. \A x \in R : After(x) \in SUBSET R /\ IsFiniteSet(After(x))
    BY FS_Subset, Zenon
  <2>2. QED
    BY <2>1, Zenon DEF FiniteSubsetsOf
<1>2. IsWellFoundedOn(StrictSubsetOrdering(R), FiniteSubsetsOf(R))
  BY FS_StrictSubsetOrderingWellFounded, Zenon
<1>3. PICK A \in All : \A B \in All : <<B, A>> \notin StrictSubsetOrdering(R)
  BY <1>1, <1>2, WFMin, Zenon
<1>4. PICK x \in R : A = After(x)
  BY Zenon
<1>5. ASSUME NEW y \in R, <<x, y>> \in before
      PROVE  FALSE
  <2>1. After(y) \in SUBSET R /\ After(x) \in SUBSET R /\ After(y) \in All
    BY Zenon
  <2>2. After(y) \subseteq After(x)
    BY <1>5, Zenon DEF Total
  <2>3. y \in After(x) /\ y \notin After(y)
    BY <1>5, Zenon DEF Total
  <2>4. <<After(y), After(x)>> \in StrictSubsetOrdering(R)
    BY ONLY <2>1, <2>2, <2>3, Zenon DEF StrictSubsetOrdering
  <2>5. QED
    BY <1>3, <1>4, <2>1, <2>4, Zenon
<1>6. QED
  BY <1>5, Zenon DEF Total

\* The greatest element goes last, after a list of the others.
LEMMA ListAppend ==
  ASSUME NEW R, NEW before, IsFiniteSet(R), NEW x \in R,
         \A y \in R : y # x => <<y, x>> \in before,
         NEW s, IsList(s, R \ {x}, before)
  PROVE  \E t : IsList(t, R, before)
<1> DEFINE n == Cardinality(R)
           t == [i \in 1 .. n |-> IF i = n THEN x ELSE s[i]]
<1>1. n \in Nat \ {0} /\ Cardinality(R \ {x}) = n - 1
  <2>1. n \in Nat /\ (n = 0 <=> R = {})
    BY FS_CardinalityType, FS_EmptySet, Zenon
  <2>2. Cardinality(R \ {x}) = n - 1
    BY FS_RemoveElement, Zenon
  <2>3. QED
    BY <2>1, <2>2, Zenon
<1>2. /\ \A i \in 1 .. n - 1 : s[i] \in R /\ s[i] # x
      /\ \A i, j \in 1 .. n - 1 : i < j => <<s[i], s[j]>> \in before
  <2>1. /\ s \in [1 .. n - 1 -> R \ {x}]
        /\ \A i, j \in 1 .. n - 1 : i < j => <<s[i], s[j]>> \in before
    BY ONLY <1>1, IsList(s, R \ {x}, before), Zenon DEF IsList
  <2>2. QED
    BY <2>1, Zenon
<1> HIDE DEF n
<1>3. ASSUME NEW i \in 1 .. n
      PROVE  i # n => i \in 1 .. n - 1
  BY <1>1
<1>4. t \in [1 .. n -> R] /\ \A i \in 1 .. n : t[i] = IF i = n THEN x ELSE s[i]
  BY <1>2, <1>3, Zenon
<1> HIDE DEF t
<1>5. ASSUME NEW i \in 1 .. n, NEW j \in 1 .. n, i < j
      PROVE  <<t[i], t[j]>> \in before
  <2>1. i # n /\ i \in 1 .. n - 1
    BY <1>1, <1>5
  <2>2. CASE j = n
    BY <1>2, <1>4, <2>1, <2>2, Zenon
  <2>3. CASE j # n
    BY <1>2, <1>3, <1>4, <1>5, <2>1, <2>3, Zenon
  <2>4. QED
    BY <2>2, <2>3, Zenon
<1>6. IsList(t, R, before)
  BY <1>4, <1>5, Zenon DEF IsList, n
<1>7. QED
  BY <1>6, Zenon

\* A smallest set without a list would have one.
LEMMA ListExists ==
  ASSUME NEW S, NEW before, IsFiniteSet(S), Total(S, before)
  PROVE  \E s : IsList(s, S, before)
<1> DEFINE Unlisted(R) == ~ \E s : IsList(s, R, before)
           T == {n \in Nat : \E R \in SUBSET S : Cardinality(R) = n /\ Unlisted(R)}
<1>1. SUFFICES ASSUME T # {} PROVE FALSE
  <2>1. Cardinality(S) \in Nat
    BY FS_CardinalityType, Zenon
  <2>2. QED
    BY <2>1, Zenon
<1>2. PICK n \in T : \A m \in T : n <= m
  <2>1. T \in SUBSET Nat
    BY Zenon
  <2>2. QED
    BY <1>1, <2>1, LeastExists, Zenon DEF Least
<1>3. PICK R \in SUBSET S : Cardinality(R) = n /\ Unlisted(R)
  BY <1>2, Zenon
<1>4. IsFiniteSet(R)
  BY FS_Subset, Zenon
<1>5. Total(R, before)
  BY <1>3, Zenon DEF Total
<1>6. R # {}
  <2>1. SUFFICES ASSUME R = {} PROVE FALSE
    BY Zenon
  <2>2. Cardinality(R) = 0
    BY <2>1, FS_EmptySet, Zenon
  <2>3. IsList([i \in 1 .. 0 |-> i], R, before)
    BY <2>1, <2>2 DEF IsList
  <2>4. QED
    BY <1>3, <2>3, Zenon
<1>7. PICK x \in R : \A y \in R : y # x => <<y, x>> \in before
  BY <1>4, <1>5, <1>6, Greatest, ZenonT(40)
<1>8. Cardinality(R \ {x}) \in Nat /\ ~(n <= Cardinality(R \ {x}))
  <2>1. Cardinality(R \ {x}) = Cardinality(R) - 1 /\ IsFiniteSet(R \ {x})
    BY <1>4, FS_RemoveElement, Zenon
  <2>2. Cardinality(R \ {x}) \in Nat /\ Cardinality(R) \in Nat
    BY <1>4, <2>1, FS_CardinalityType, Zenon
  <2>3. QED
    BY ONLY <1>3, <2>1, <2>2
<1>9. \E s : IsList(s, R \ {x}, before)
  <2>1. R \ {x} \in SUBSET S
    BY Zenon
  <2>2. Cardinality(R \ {x}) \notin T
    BY <1>2, <1>8, Zenon
  <2>3. QED
    BY <1>8, <2>1, <2>2, Zenon
<1>10. QED
  BY <1>3, <1>4, <1>7, <1>9, ListAppend, Zenon

\* A list leaves nothing out: it has as many places as there are elements.
LEMMA ListComplete ==
  ASSUME NEW S, NEW before, IsFiniteSet(S), Total(S, before), NEW s, IsList(s, S, before)
  PROVE  \A x \in S : \E i \in 1 .. Cardinality(S) : s[i] = x
<1> DEFINE n == Cardinality(S)
<1>1. n \in Nat
  BY FS_CardinalityType, Zenon
<1>2. IsFiniteSet(1 .. n) /\ Cardinality(1 .. n) = n
  BY <1>1, FS_Interval
<1>3. s \in [1 .. n -> S] /\ \A i, j \in 1 .. n : i < j => <<s[i], s[j]>> \in before
  BY Zenon DEF IsList
<1>4. \A i, j \in 1 .. n : s[i] = s[j] => i = j
  <2>1. ASSUME NEW i \in 1 .. n, NEW j \in 1 .. n, s[i] = s[j], i < j \/ j < i
        PROVE  FALSE
    BY <1>3, <2>1, Zenon DEF Total
  <2>2. \A i, j \in 1 .. n : i # j => i < j \/ j < i
    BY <1>1
  <2>3. QED
    BY <2>1, <2>2, Zenon
<1>5. s \in Injection(1 .. n, S)
  BY <1>3, <1>4, Zenon DEF Injection, IsInjective
<1>6. s \in Surjection(1 .. n, S)
  BY <1>2, <1>5, FS_Injection, Zenon
<1>7. QED
  BY <1>6, Zenon DEF Surjection

\* The facts about finite sets that the lemmas above assume.
LEMMA CountingHolds == Counting
<1>1. Listable
  <2>1. SUFFICES ASSUME NEW S, NEW before, IsFiniteSet(S), Total(S, before)
                 PROVE  /\ Cardinality(S) \in Nat
                        /\ \E s : IsList(s, S, before)
                        /\ \A s : IsList(s, S, before) =>
                             \A x \in S : \E i \in 1 .. Cardinality(S) : s[i] = x
    BY DEF Listable
  <2>2. Cardinality(S) \in Nat
    BY <2>1, FS_CardinalityType, Zenon
  <2>3. \E s : IsList(s, S, before)
    BY <2>1, ListExists, Zenon
  <2>4. ASSUME NEW s, IsList(s, S, before)
        PROVE  \A x \in S : \E i \in 1 .. Cardinality(S) : s[i] = x
    BY <2>1, <2>4, ListComplete
  <2>5. QED
    BY ONLY <2>2, <2>3, <2>4, ZenonT(40)
<1>2. IsFiniteSet({}) /\ \A S, x : IsFiniteSet(S) => IsFiniteSet(S \cup {x})
  BY FS_EmptySet, FS_AddElement, Zenon
<1>3. \A S, T : IsFiniteSet(S) /\ T \subseteq S => IsFiniteSet(T)
  BY FS_Subset, Zenon
<1>4. \A n \in Nat : IsFiniteSet(1 .. n) /\ Cardinality(1 .. n) = n
  BY FS_Interval
<1>5. QED
  BY <1>1, <1>2, <1>3, <1>4, LeastExists, ZenonT(40) DEF Counting

-----------------------------------------------------------------------------
(* The theorems about routing.                                             *)

\* For patterns and keys of any length and every relation Glob, topicMatch
\* accepts exactly the keys that can be cut up as the pattern says.
THEOREM MatchExact == Spec => []MatchIsExact
<1>1. Means
  BY CountingHolds, TopicMatchMeans, Zenon DEF Counting
<1>2. UNION {[1 .. n -> Parts] : n \in 1 .. MaxParts} \subseteq Seq(Parts)
  OBVIOUS
<1>3. MatchIsExact
  BY <1>1, <1>2, Zenon DEF MatchIsExact, Means
<1>4. QED
  BY <1>3, PTL

\* Whatever bindings concurrent clients create, Resolve returns a route to each
\* destination of a matching binding, one only, with the highest priority of
\* those bindings, and the routes by descending priority.
THEOREM RoutesCorrect == Spec => []RoutesExact
<1>1. Counting /\ Means
  BY CountingHolds, TopicMatchMeans, Zenon DEF Counting
<1>2. Spec => []IsFiniteSet(DOMAIN bindings)
  BY <1>1, FinitelyMany, Zenon
<1>3. TypeOK /\ NamesResolve /\ IsFiniteSet(DOMAIN bindings) => RoutesExact
  BY <1>1, RoutesExactHere, Zenon
<1>4. QED
  BY <1>2, <1>3, TypeCorrect, NoDanglingNames, PTL
=============================================================================
