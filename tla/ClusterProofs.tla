--------------------------- MODULE ClusterProofs ----------------------------
(***************************************************************************)
(* Proofs about Cluster, for every set of shards, nodes and goroutines,    *)
(* every lease duration and every bound on the clock and the epochs.       *)
(***************************************************************************)
EXTENDS Cluster, TLAPS

-----------------------------------------------------------------------------
(* The inductive invariant.                                                *)

\* A lease that node n has in hand for shard s carries a token that was drawn,
\* and as long as it is good the coordinator's lease covers it, unless the node
\* has called ReleaseAll.
Covered(n, s, l) ==
  /\ l.node = n
  /\ (n \notin quit /\ ~Expired(l)) =>
       /\ s \in DOMAIN leases
       /\ leases[s].node = n
       /\ leases[s].expiresAt >= l.expiresAt

InHand(t) == pc[t] \in {"keep", "renewing", "renewed", "releasing"}

\* Every lease a node has cached or a goroutine has in hand is covered.
AllCovered ==
  /\ \A n \in Nodes : \A s \in DOMAIN owned[n] : Covered(n, s, owned[n][s])
  /\ \A t \in Threads : InHand(t) => Covered(Node[t], shard[t], got[t])

\* Only a node that has called ReleaseAll releases, and no lease outlives the
\* duration it could be given now.
Orderly ==
  /\ \A t \in Threads : pc[t] \in {"release", "releasing", "forget"} => Node[t] \in quit
  /\ \A s \in DOMAIN leases : leases[s].expiresAt <= now + TTL

\* No grant carries a token that has still to be drawn.
TokensDrawn == \A g \in granted : g.epoch <= epochs[g.shard]

ClusterInv == TypeOK /\ TokensDrawn /\ TokensUnique /\ Orderly /\ AllCovered

\* HeldUntilExpiry of one shard, as an action.
Held(s) ==
  (s \in DOMAIN leases /\ leases[s].node \notin quit /\ ~Expired(leases[s])) =>
    /\ s \in DOMAIN leases'
    /\ leases'[s].node = leases[s].node
    /\ leases'[s].expiresAt >= leases[s].expiresAt

-----------------------------------------------------------------------------
(* The helpers on maps.                                                    *)

\* Storing a lease in a map of leases gives a map of leases.
LEMMA PutType ==
  ASSUME NEW f, NEW s \in Shards, NEW l \in Lease,
         LeaseMap(f)
  PROVE  /\ LeaseMap(Put(f, s, l))
         /\ DOMAIN Put(f, s, l) = DOMAIN f \cup {s}
         /\ Put(f, s, l)[s] = l
         /\ \A x \in DOMAIN f : x # s => Put(f, s, l)[x] = f[x]
  BY Zenon DEF Put, LeaseMap

\* Deleting an entry of a map of leases gives a map of leases.
LEMMA WithoutType ==
  ASSUME NEW f, NEW s, LeaseMap(f)
  PROVE  /\ LeaseMap(Without(f, s))
         /\ DOMAIN Without(f, s) = DOMAIN f \ {s}
         /\ \A x \in DOMAIN f : x # s => Without(f, s)[x] = f[x]
  BY Zenon DEF Without, LeaseMap

\* A new lease is a lease.
LEMMA NewLeaseType ==
  ASSUME NEW n \in Nodes, NEW e \in Nat, now \in Nat
  PROVE  NewLease(n, e) \in Lease
  BY ClusterConstants DEF NewLease, Lease

\* A renewed lease is a lease of the same node and token.
LEMMA RenewedType ==
  ASSUME NEW k \in Lease, now \in Nat
  PROVE  LET l == [k EXCEPT !.expiresAt = now + TTL]
         IN  /\ l \in Lease
             /\ l.node = k.node
             /\ l.epoch = k.epoch
             /\ l.expiresAt = now + TTL
  BY ClusterConstants DEF Lease

\* There is a shard for an idle goroutine to name.
LEMMA AnyShardType == AnyShard \in Shards
  BY ClusterConstants, Zenon DEF AnyShard

-----------------------------------------------------------------------------
(* Type correctness.                                                       *)

\* The initial state has the types.
LEMMA InitTyped == Init => TypeOK
<1> SUFFICES ASSUME Init PROVE TypeOK
  BY Zenon
<1>1. LeaseMap(leases)
  BY DEF Init, LeaseMap
<1>2. \A n \in Nodes : LeaseMap(owned[n])
  BY DEF Init, LeaseMap
<1> QED
  BY <1>1, <1>2, AnyShardType, Zenon DEF Init, TypeOK, Labels

\* Every step preserves the types.
LEMMA StepTyped ==
  ASSUME TypeOK, [Next]_vars
  PROVE  TypeOK'
<1> USE ClusterConstants, AnyShardType
<1>1. CASE UNCHANGED vars
  BY <1>1, Zenon DEF TypeOK, vars, locals
<1>2. CASE Tick
  BY <1>2 DEF TypeOK, Tick, locals
<1>3. ASSUME NEW t \in Threads, Call(t) PROVE TypeOK'
  <2>1. DOMAIN owned[Node[t]] \subseteq Shards
    BY Zenon DEF TypeOK, LeaseMap
  <2>2. CASE Renew(t)
    BY <2>1, <2>2, Zenon DEF Renew, TypeOK, Labels
  <2>3. CASE ReleaseAll(t)
    BY <2>1, <2>3, Zenon DEF ReleaseAll, TypeOK, Labels
  <2>4. ASSUME NEW s \in Shards, Ensure(t, s) PROVE TypeOK'
    BY <2>4, Zenon DEF Ensure, TypeOK, Labels
  <2> QED
    BY <1>3, <2>2, <2>3, <2>4, Zenon DEF Call
<1>4. ASSUME NEW t \in Threads, Acquire(t) PROVE TypeOK'
  <2> DEFINE s == shard[t]
             l == NewLease(Node[t], NextEpoch(s))
  <2>1. s \in Shards /\ Node[t] \in Nodes /\ NextEpoch(s) \in Nat
    BY DEF TypeOK, NextEpoch
  <2>2. l \in Lease /\ l.epoch = NextEpoch(s)
    BY <2>1, NewLeaseType, Zenon DEF TypeOK, NewLease
  <2>3. LeaseMap(leases')
    BY <1>4, <2>1, <2>2, PutType, Zenon DEF Acquire, TypeOK
  <2>4. epochs' \in [Shards -> Nat] /\ got' \in [Threads -> Lease \cup {NoLease}]
    BY <1>4, <2>1, <2>2, Zenon DEF Acquire, TypeOK
  <2>5. granted' \in SUBSET [shard : Shards, node : Nodes, epoch : Nat]
    BY <1>4, <2>1, <2>2 DEF Acquire, TypeOK
  <2>6. got'[t] = l /\ \A u \in Threads : u # t => got'[u] = got[u] /\ pc'[u] = pc[u]
    BY <1>4, Zenon DEF Acquire, Goto, TypeOK
  <2> HIDE DEF s, l
  <2> QED
    BY <1>4, <2>2, <2>3, <2>4, <2>5, <2>6, Zenon DEF Acquire, Goto, TypeOK, Labels
<1>5. ASSUME NEW t \in Threads, AcquireFails(t) PROVE TypeOK'
  BY <1>5, Zenon DEF AcquireFails, Return, TypeOK, Labels
<1>6. ASSUME NEW t \in Threads, Keep(t) \/ RenewStore(t) PROVE TypeOK'
  <2> DEFINE m == Put(owned[Node[t]], shard[t], got[t])
  <2>1. shard[t] \in Shards /\ Node[t] \in Nodes /\ got[t] \in Lease
    BY <1>6, Zenon DEF TypeOK, Keep, RenewStore
  <2>2. LeaseMap(m)
    BY <2>1, PutType, Zenon DEF TypeOK
  <2>3. owned' = [owned EXCEPT ![Node[t]] = m]
    BY <1>6, Zenon DEF Keep, RenewStore
  <2> HIDE DEF m
  <2>4. owned' = [n \in Nodes |-> owned'[n]] /\ \A n \in Nodes : LeaseMap(owned'[n])
    BY <2>2, <2>3, Zenon DEF TypeOK
  <2>5. CASE Keep(t)
    BY <2>4, <2>5 DEF Keep, Return, TypeOK, Labels
  <2>6. CASE RenewStore(t)
    BY <2>4, <2>6 DEF RenewStore, Goto, TypeOK, Labels
  <2> QED
    BY <1>6, <2>5, <2>6, Zenon
<1>7. ASSUME NEW t \in Threads, VisitNext(t) PROVE TypeOK'
  <2>1. PICK s \in DOMAIN owned[Node[t]], label \in {"renewing", "releasing"} :
          /\ pc' = [pc EXCEPT ![t] = label]
          /\ shard' = [shard EXCEPT ![t] = s]
          /\ got' = [got EXCEPT ![t] = owned[Node[t]][s]]
          /\ left' = [left EXCEPT ![t] = @ \ {s}]
          /\ seen' = [seen EXCEPT ![t] = @ \cup {s}]
    BY <1>7, Zenon DEF VisitNext, Visit
  <2>2. s \in Shards /\ owned[Node[t]][s] \in Lease
    BY DEF TypeOK, LeaseMap
  <2> QED
    BY <1>7, <2>1, <2>2, Zenon DEF VisitNext, TypeOK, Labels
<1>8. ASSUME NEW t \in Threads, VisitDone(t) PROVE TypeOK'
  BY <1>8, Zenon DEF VisitDone, Return, TypeOK, Labels
<1>9. ASSUME NEW t \in Threads, RenewCall(t) PROVE TypeOK'
  <2> DEFINE s == shard[t]
             l == [leases[s] EXCEPT !.expiresAt = now + TTL]
  <2>1. s \in Shards /\ leases[s] \in Lease
    BY <1>9, Zenon DEF TypeOK, RenewCall, Renewable, Current, LeaseMap
  <2>2. l \in Lease
    BY <2>1, RenewedType, Zenon DEF TypeOK
  <2>3. leases' = Put(leases, s, l) /\ got' = [got EXCEPT ![t] = l]
    BY <1>9, Zenon DEF RenewCall
  <2> HIDE DEF s, l
  <2>4. LeaseMap(leases')
    BY <2>1, <2>2, <2>3, PutType, Zenon DEF TypeOK
  <2>5. /\ pc' = [pc EXCEPT ![t] = "renewed"]
        /\ UNCHANGED <<now, epochs, owned, shard, left, seen, granted, quit>>
    BY <1>9, Zenon DEF RenewCall, Goto
  <2> QED
    BY <2>2, <2>3, <2>4, <2>5, Zenon DEF TypeOK, Labels
<1>10. ASSUME NEW t \in Threads, RenewFails(t) PROVE TypeOK'
  BY <1>10, Zenon DEF RenewFails, Goto, TypeOK, Labels
<1>11. ASSUME NEW t \in Threads, RenewDrop(t) \/ ReleaseForget(t) PROVE TypeOK'
  <2> DEFINE m == Without(owned[Node[t]], shard[t])
             F == Removed(left, t)
             G == Removed(seen, t)
  <2>1. LeaseMap(m)
    BY WithoutType, Zenon DEF TypeOK
  <2>2. owned' = [owned EXCEPT ![Node[t]] = m]
    BY <1>11, Zenon DEF RenewDrop, ReleaseForget
  <2>3. F \in [Threads -> SUBSET Shards] /\ G \in [Threads -> SUBSET Shards]
    BY Zenon DEF Removed, TypeOK
  <2>4. \/ left' = F /\ seen' = G
        \/ left' = [F EXCEPT ![t] = {}] /\ seen' = [G EXCEPT ![t] = {}]
    BY <1>11, Zenon DEF RenewDrop, ReleaseForget
  <2> HIDE DEF m, F, G
  <2>5. owned' = [n \in Nodes |-> owned'[n]] /\ \A n \in Nodes : LeaseMap(owned'[n])
    BY <2>1, <2>2, Zenon DEF TypeOK
  <2>6. left' \in [Threads -> SUBSET Shards] /\ seen' \in [Threads -> SUBSET Shards]
    BY <2>3, <2>4, Zenon
  <2>7. CASE RenewDrop(t)
    BY <2>5, <2>6, <2>7 DEF RenewDrop, TypeOK, Labels
  <2>8. CASE ReleaseForget(t)
    BY <2>5, <2>6, <2>8 DEF ReleaseForget, TypeOK, Labels
  <2> QED
    BY <1>11, <2>7, <2>8, Zenon
<1>12. ASSUME NEW t \in Threads, ReleaseCall(t) PROVE TypeOK'
  <2>1. leases' = leases \/ leases' = Without(leases, shard[t])
    BY <1>12, Zenon DEF ReleaseCall
  <2>2. LeaseMap(leases) /\ LeaseMap(Without(leases, shard[t]))
    BY WithoutType, Zenon DEF TypeOK
  <2>3. LeaseMap(leases')
    BY <2>1, <2>2, Zenon
  <2> QED
    BY <1>12, <2>3, Zenon DEF ReleaseCall, Goto, TypeOK, Labels
<1> QED
  BY <1>1, <1>2, <1>3, <1>4, <1>5, <1>6, <1>7, <1>8, <1>9, <1>10, <1>11, <1>12, Zenon
     DEF Next, Proceed

-----------------------------------------------------------------------------
(* What a step can do to each piece of state.                              *)

\* Only the coordinator's three operations touch its leases.
LEMMA LeasesChange ==
  ASSUME [Next]_vars
  PROVE  \/ UNCHANGED <<leases, epochs, granted>>
         \/ \E t \in Threads : Acquire(t) \/ RenewCall(t) \/ ReleaseCall(t)
<1>1. CASE UNCHANGED vars
  BY <1>1, Zenon DEF vars
<1>2. CASE Tick
  BY <1>2, Zenon DEF Tick
<1>3. ASSUME NEW t \in Threads, Call(t) PROVE UNCHANGED <<leases, epochs, granted>>
  BY <1>3, Zenon DEF Call, Ensure, Renew, ReleaseAll
<1>4. ASSUME NEW t \in Threads, Proceed(t), ~Acquire(t), ~RenewCall(t), ~ReleaseCall(t)
      PROVE  UNCHANGED <<leases, epochs, granted>>
  BY <1>4, Zenon DEF Proceed, AcquireFails, Keep, VisitNext, VisitDone, RenewStore,
              RenewFails, RenewDrop, ReleaseForget
<1> QED
  BY <1>1, <1>2, <1>3, <1>4, Zenon DEF Next

\* Time does not run backwards and a node that has released stays so.
LEMMA Forward ==
  ASSUME TypeOK, [Next]_vars
  PROVE  now' >= now /\ quit \subseteq quit'
<1>1. CASE UNCHANGED vars
  BY <1>1 DEF vars, TypeOK
<1>2. CASE Tick
  BY <1>2 DEF Tick, TypeOK
<1>3. ASSUME NEW t \in Threads, Call(t) PROVE now' = now /\ quit \subseteq quit'
  BY <1>3, Zenon DEF Call, Ensure, Renew, ReleaseAll
<1>4. ASSUME NEW t \in Threads, Proceed(t) PROVE now' = now /\ quit \subseteq quit'
  BY <1>4, Zenon DEF Proceed, Acquire, AcquireFails, Keep, VisitNext, VisitDone, RenewCall,
              RenewStore, RenewFails, RenewDrop, ReleaseCall, ReleaseForget
<1> QED
  BY <1>1, <1>2, <1>3, <1>4 DEF Next, TypeOK

\* A cache entry after a step was there before it, or is what a goroutine of the
\* node had in hand for the shard.
LEMMA OwnedChange ==
  ASSUME TypeOK, [Next]_vars, NEW n \in Nodes, NEW s \in DOMAIN owned'[n]
  PROVE  \/ s \in DOMAIN owned[n] /\ owned'[n][s] = owned[n][s]
         \/ \E t \in Threads : /\ InHand(t)
                               /\ Node[t] = n
                               /\ shard[t] = s
                               /\ owned'[n][s] = got[t]
<1> USE ClusterConstants
<1>1. CASE UNCHANGED owned
  BY <1>1, Zenon
<1>2. ASSUME NEW t \in Threads, Keep(t) \/ RenewStore(t)
      PROVE  \/ s \in DOMAIN owned[n] /\ owned'[n][s] = owned[n][s]
             \/ InHand(t) /\ Node[t] = n /\ shard[t] = s /\ owned'[n][s] = got[t]
  <2>1. InHand(t) /\ owned' = [owned EXCEPT ![Node[t]] = Put(@, shard[t], got[t])]
    BY <1>2, Zenon DEF Keep, RenewStore, InHand
  <2>2. CASE n # Node[t]
    BY <2>1, <2>2, Zenon DEF TypeOK
  <2>3. CASE n = Node[t]
    <3>1. owned'[n] = Put(owned[n], shard[t], got[t])
      BY <2>1, <2>3, Zenon DEF TypeOK
    <3> QED
      BY <2>1, <2>3, <3>1 DEF Put
  <2> QED
    BY <2>2, <2>3, Zenon
<1>3. ASSUME NEW t \in Threads, RenewDrop(t) \/ ReleaseForget(t)
      PROVE  s \in DOMAIN owned[n] /\ owned'[n][s] = owned[n][s]
  <2>1. owned' = [owned EXCEPT ![Node[t]] = Without(@, shard[t])]
    BY <1>3, Zenon DEF RenewDrop, ReleaseForget
  <2>2. CASE n # Node[t]
    BY <2>1, <2>2, Zenon DEF TypeOK
  <2>3. CASE n = Node[t]
    <3>1. owned'[n] = Without(owned[n], shard[t])
      BY <2>1, <2>3, Zenon DEF TypeOK
    <3> QED
      BY <3>1, Zenon DEF Without
  <2> QED
    BY <2>2, <2>3, Zenon
<1>4. ASSUME NEW t \in Threads, Call(t) PROVE UNCHANGED owned
  BY <1>4, Zenon DEF Call, Ensure, Renew, ReleaseAll
<1>5. ASSUME NEW t \in Threads, Proceed(t),
             ~Keep(t), ~RenewStore(t), ~RenewDrop(t), ~ReleaseForget(t)
      PROVE  UNCHANGED owned
  BY <1>5, Zenon DEF Proceed, Acquire, AcquireFails, VisitNext, VisitDone, RenewCall,
              RenewFails, ReleaseCall
<1> QED
  BY <1>1, <1>2, <1>3, <1>4, <1>5, Zenon DEF Next, Tick, vars

\* What a goroutine has in hand after a step it had before it, or it was read
\* from the cache, or the coordinator has given it out in that step.
LEMMA HandChange ==
  ASSUME TypeOK, [Next]_vars, NEW t \in Threads, InHand(t)'
  PROVE  \/ InHand(t) /\ shard'[t] = shard[t] /\ got'[t] = got[t]
         \/ shard'[t] \in DOMAIN owned[Node[t]] /\ got'[t] = owned[Node[t]][shard'[t]]
         \/ Acquire(t) \/ RenewCall(t)
<1>1. CASE UNCHANGED locals
  BY <1>1, Zenon DEF locals, InHand
<1>2. ASSUME NEW u \in Threads, u # t, Call(u)
      PROVE  InHand(t) /\ shard'[t] = shard[t] /\ got'[t] = got[t]
  BY <1>2, Zenon DEF Call, Ensure, Renew, ReleaseAll, InHand, TypeOK
<1>3. ASSUME NEW u \in Threads, u # t, Proceed(u)
      PROVE  InHand(t) /\ shard'[t] = shard[t] /\ got'[t] = got[t]
  <2>1. CASE Acquire(u) \/ AcquireFails(u) \/ Keep(u)
    BY <1>3, <2>1, Zenon DEF Acquire, AcquireFails, Keep, Return, Goto, InHand, TypeOK
  <2>2. CASE VisitNext(u) \/ VisitDone(u)
    BY <1>3, <2>2 DEF VisitNext, VisitDone, Visit, Return, InHand, TypeOK
  <2>3. CASE RenewCall(u) \/ RenewStore(u) \/ RenewFails(u) \/ RenewDrop(u)
    BY <1>3, <2>3, Zenon
       DEF RenewCall, RenewStore, RenewFails, RenewDrop, Goto, InHand, TypeOK
  <2>4. CASE ReleaseCall(u) \/ ReleaseForget(u)
    BY <1>3, <2>4, Zenon DEF ReleaseCall, ReleaseForget, Goto, InHand, TypeOK
  <2> QED
    BY <1>3, <2>1, <2>2, <2>3, <2>4, Zenon DEF Proceed
<1>4. CASE Call(t)
  BY <1>4, Zenon DEF Call, Ensure, Renew, ReleaseAll, InHand, TypeOK
<1>5. CASE VisitNext(t)
  BY <1>5 DEF VisitNext, Visit, TypeOK
<1>6. CASE AcquireFails(t) \/ Keep(t) \/ VisitDone(t)
  BY <1>6, Zenon DEF AcquireFails, Keep, VisitDone, Return, InHand, TypeOK
<1>7. CASE RenewStore(t) \/ RenewFails(t) \/ RenewDrop(t) \/ ReleaseCall(t) \/ ReleaseForget(t)
  BY <1>7
     DEF RenewStore, RenewFails, RenewDrop, ReleaseCall, ReleaseForget, Goto, InHand, TypeOK
<1> QED
  BY <1>1, <1>2, <1>3, <1>4, <1>5, <1>6, <1>7, Zenon DEF Next, Proceed, Tick, vars

-----------------------------------------------------------------------------
(* The invariant is preserved.                                             *)

\* What Acquire does to the shard's lease.
LEMMA AcquireEffect ==
  ASSUME TypeOK, NEW t \in Threads, Acquire(t)
  PROVE  /\ shard[t] \in Shards
         /\ DOMAIN leases' = DOMAIN leases \cup {shard[t]}
         /\ leases'[shard[t]] = got'[t]
         /\ got'[t].node = Node[t]
         /\ got'[t].epoch = epochs[shard[t]] + 1
         /\ got'[t].expiresAt = now + TTL
         /\ \A x \in DOMAIN leases : x # shard[t] => leases'[x] = leases[x]
         /\ shard'[t] = shard[t] /\ now' = now /\ quit' = quit
<1> DEFINE l == NewLease(Node[t], NextEpoch(shard[t]))
<1>1. shard[t] \in Shards /\ Node[t] \in Nodes /\ NextEpoch(shard[t]) \in Nat
  BY ClusterConstants DEF TypeOK, NextEpoch
<1>2. l \in Lease
  BY <1>1, NewLeaseType, Zenon DEF TypeOK
<1>3. l.node = Node[t] /\ l.epoch = epochs[shard[t]] + 1 /\ l.expiresAt = now + TTL
  BY Zenon DEF NewLease, NextEpoch
<1>4. leases' = Put(leases, shard[t], l) /\ got' = [got EXCEPT ![t] = l]
  BY Zenon DEF Acquire
<1>5. shard'[t] = shard[t] /\ now' = now /\ quit' = quit
  BY Zenon DEF Acquire, Goto
<1> HIDE DEF l
<1>6. got'[t] = l
  BY <1>4, Zenon DEF TypeOK
<1>7. /\ DOMAIN Put(leases, shard[t], l) = DOMAIN leases \cup {shard[t]}
      /\ Put(leases, shard[t], l)[shard[t]] = l
      /\ \A x \in DOMAIN leases : x # shard[t] => Put(leases, shard[t], l)[x] = leases[x]
  BY Zenon DEF Put
<1> QED
  BY <1>1, <1>3, <1>4, <1>5, <1>6, <1>7, Zenon

\* What Renew does to the shard's lease.
LEMMA RenewEffect ==
  ASSUME TypeOK, NEW t \in Threads, RenewCall(t)
  PROVE  /\ Renewable(shard[t], got[t])
         /\ DOMAIN leases' = DOMAIN leases
         /\ leases'[shard[t]] = got'[t]
         /\ got'[t].node = leases[shard[t]].node
         /\ got'[t].epoch = leases[shard[t]].epoch
         /\ got'[t].expiresAt = now + TTL
         /\ \A x \in DOMAIN leases : x # shard[t] => leases'[x] = leases[x]
         /\ shard'[t] = shard[t] /\ now' = now /\ quit' = quit
         /\ UNCHANGED <<epochs, granted>>
<1> DEFINE k == leases[shard[t]]
           l == [k EXCEPT !.expiresAt = now + TTL]
<1>1. shard[t] \in DOMAIN leases /\ shard[t] \in Shards /\ k \in Lease
  BY Zenon DEF TypeOK, RenewCall, Renewable, Current, LeaseMap
<1>2. l \in Lease /\ l.node = k.node /\ l.epoch = k.epoch /\ l.expiresAt = now + TTL
  BY <1>1, RenewedType, Zenon DEF TypeOK
<1>3. leases' = Put(leases, shard[t], l) /\ got' = [got EXCEPT ![t] = l]
  BY Zenon DEF RenewCall
<1>4. /\ shard'[t] = shard[t] /\ now' = now /\ quit' = quit
      /\ UNCHANGED <<epochs, granted>> /\ Renewable(shard[t], got[t])
  BY Zenon DEF RenewCall, Goto
<1> HIDE DEF l
<1>5. got'[t] = l
  BY <1>3, Zenon DEF TypeOK
<1>6. /\ DOMAIN Put(leases, shard[t], l) = DOMAIN leases \cup {shard[t]}
      /\ Put(leases, shard[t], l)[shard[t]] = l
      /\ \A x \in DOMAIN leases : x # shard[t] => Put(leases, shard[t], l)[x] = leases[x]
  BY Zenon DEF Put
<1> QED
  BY <1>1, <1>2, <1>3, <1>4, <1>5, <1>6, Zenon

\* What Release does: it removes the lease whose token it presents, or nothing.
LEMMA ReleaseEffect ==
  ASSUME TypeOK, NEW t \in Threads, ReleaseCall(t)
  PROVE  /\ UNCHANGED <<now, epochs, granted, quit>>
         /\ \/ UNCHANGED leases
            \/ /\ Current(shard[t], got[t])
               /\ leases' = Without(leases, shard[t])
               /\ DOMAIN leases' = DOMAIN leases \ {shard[t]}
               /\ \A x \in DOMAIN leases' : leases'[x] = leases[x]
<1>1. LeaseMap(leases)
  BY Zenon DEF TypeOK
<1>2. /\ DOMAIN Without(leases, shard[t]) = DOMAIN leases \ {shard[t]}
      /\ \A x \in DOMAIN leases : x # shard[t] => Without(leases, shard[t])[x] = leases[x]
  BY <1>1, WithoutType, Zenon
<1> QED
  BY <1>2, Zenon DEF ReleaseCall

\* No step takes an unexpired lease from a node that has not called ReleaseAll.
LEMMA HeldStep ==
  ASSUME ClusterInv, [Next]_vars, NEW s
  PROVE  Held(s)
<1> SUFFICES ASSUME s \in DOMAIN leases, leases[s].node \notin quit, now < leases[s].expiresAt
             PROVE  /\ s \in DOMAIN leases'
                    /\ leases'[s].node = leases[s].node
                    /\ leases'[s].expiresAt >= leases[s].expiresAt
  BY DEF Held, Expired, ClusterInv, TypeOK, LeaseMap, Lease
<1>0. leases[s] \in Lease /\ leases[s].expiresAt \in Nat /\ now \in Nat /\ TTL \in Nat /\ TypeOK
  BY ClusterConstants, Zenon DEF ClusterInv, TypeOK, LeaseMap, Lease
<1>1. leases[s].expiresAt <= now + TTL
  BY Zenon DEF ClusterInv, Orderly
<1>2. CASE UNCHANGED leases
  BY <1>0, <1>2
<1>3. ASSUME NEW t \in Threads, Acquire(t), shard[t] = s
      PROVE  leases'[s].node = leases[s].node /\ leases'[s].expiresAt >= leases[s].expiresAt
  <2>1. leases[s].node = Node[t]
    BY <1>0, <1>3 DEF Acquire, Refused, Expired
  <2> QED
    BY <1>0, <1>1, <1>3, <2>1, AcquireEffect, Zenon
<1>4. ASSUME NEW t \in Threads, RenewCall(t), shard[t] = s
      PROVE  leases'[s].node = leases[s].node /\ leases'[s].expiresAt >= leases[s].expiresAt
  BY <1>0, <1>1, <1>4, RenewEffect, Zenon
<1>5. ASSUME NEW t \in Threads, ReleaseCall(t), shard[t] = s
      PROVE  UNCHANGED leases
  <2>1. Node[t] \in quit /\ got[t].node = Node[t]
    BY <1>5, Zenon DEF ClusterInv, Orderly, AllCovered, Covered, InHand, ReleaseCall
  <2>2. ~Current(shard[t], got[t])
    BY <1>5, <2>1, Zenon DEF Current
  <2> QED
    BY <1>0, <1>5, <2>2, ReleaseEffect, Zenon
<1>6. ASSUME NEW t \in Threads, Acquire(t) \/ RenewCall(t) \/ ReleaseCall(t), shard[t] # s
      PROVE  s \in DOMAIN leases' /\ leases'[s] = leases[s]
  BY <1>0, <1>6, AcquireEffect, RenewEffect, ReleaseEffect, Zenon
<1>7. ASSUME NEW t \in Threads, Acquire(t) \/ RenewCall(t), shard[t] = s
      PROVE  s \in DOMAIN leases'
  BY <1>0, <1>7, AcquireEffect, RenewEffect, Zenon
<1> QED
  BY <1>0, <1>2, <1>3, <1>4, <1>5, <1>6, <1>7, LeasesChange

\* Covered, said of the lease l as it was before the step.
CoveredNext(n, s, l) ==
  /\ l.node = n
  /\ (n \notin quit' /\ now' < l.expiresAt) =>
       /\ s \in DOMAIN leases'
       /\ leases'[s].node = n
       /\ leases'[s].expiresAt >= l.expiresAt

\* A lease that is covered stays covered.
LEMMA CoveredStays ==
  ASSUME ClusterInv, [Next]_vars, TypeOK', NEW n, NEW s, NEW l \in Lease, Covered(n, s, l)
  PROVE  CoveredNext(n, s, l)
<1> SUFFICES ASSUME n \notin quit', now' < l.expiresAt
             PROVE  /\ s \in DOMAIN leases'
                    /\ leases'[s].node = n
                    /\ leases'[s].expiresAt >= l.expiresAt
  BY Zenon DEF CoveredNext, Covered
<1>1. now \in Nat /\ now' \in Nat /\ l.expiresAt \in Nat /\ now' >= now /\ n \notin quit
  BY Forward, Zenon DEF ClusterInv, TypeOK, Lease
<1>2. s \in DOMAIN leases /\ leases[s].node = n /\ leases[s].expiresAt >= l.expiresAt
  BY <1>1 DEF Covered, Expired
<1>3. leases[s].expiresAt \in Nat
  BY <1>2, Zenon DEF ClusterInv, TypeOK, LeaseMap, Lease
<1>4. ~Expired(leases[s])
  BY <1>1, <1>2, <1>3 DEF Expired
<1>5. s \in DOMAIN leases' /\ leases'[s].node = n /\ leases'[s].expiresAt >= leases[s].expiresAt
  BY <1>1, <1>2, <1>4, HeldStep, Zenon DEF Held
<1>6. leases'[s].expiresAt \in Nat
  BY <1>5, Zenon DEF TypeOK, LeaseMap, Lease
<1> QED
  BY <1>1, <1>2, <1>3, <1>5, <1>6

\* Every lease in a cache or in hand stays covered.
LEMMA CoveredStep ==
  ASSUME ClusterInv, [Next]_vars, TypeOK'
  PROVE  AllCovered'
<1> USE ClusterConstants
<1>0. TypeOK /\ AllCovered
  BY Zenon DEF ClusterInv
<1>1. \A n \in Nodes : \A s \in DOMAIN owned[n] : owned[n][s] \in Lease /\ CoveredNext(n, s, owned[n][s])
  BY <1>0, CoveredStays DEF AllCovered, TypeOK, LeaseMap
<1>2. \A t \in Threads : InHand(t) => got[t] \in Lease /\ CoveredNext(Node[t], shard[t], got[t])
  BY <1>0, CoveredStays, Zenon DEF AllCovered, TypeOK, InHand
<1>3. ASSUME NEW n \in Nodes, NEW s \in DOMAIN owned'[n]
      PROVE  CoveredNext(n, s, owned'[n][s]) /\ owned'[n][s] \in Lease
  BY <1>0, <1>1, <1>2, <1>3, OwnedChange
<1>4. ASSUME NEW t \in Threads, InHand(t)'
      PROVE  CoveredNext(Node[t], shard'[t], got'[t]) /\ got'[t] \in Lease
  <2>1. got'[t] \in Lease /\ got'[t].expiresAt \in Nat
    BY <1>0, <1>4, Zenon DEF TypeOK, InHand, Lease
  <2>2. CASE Acquire(t)
    <3>1. /\ shard'[t] \in DOMAIN leases' /\ leases'[shard'[t]] = got'[t]
          /\ got'[t].node = Node[t]
      BY <1>0, <2>2, AcquireEffect, Zenon
    <3> QED
      BY <2>1, <3>1 DEF CoveredNext
  <2>3. CASE RenewCall(t)
    <3>1. got[t].node = Node[t] /\ leases[shard[t]].node = got[t].node
      BY <1>0, <2>3, Zenon DEF AllCovered, Covered, InHand, RenewCall, Renewable, Current
    <3>2. shard[t] \in DOMAIN leases
      BY <2>3, Zenon DEF RenewCall, Renewable, Current
    <3> QED
      BY <1>0, <2>1, <2>3, <3>1, <3>2, RenewEffect DEF CoveredNext
  <2>4. CASE InHand(t) /\ shard'[t] = shard[t] /\ got'[t] = got[t]
    BY <1>2, <2>4, Zenon
  <2>5. CASE shard'[t] \in DOMAIN owned[Node[t]] /\ got'[t] = owned[Node[t]][shard'[t]]
    BY <1>1, <2>5, Zenon
  <2> QED
    BY <1>0, <1>4, <2>2, <2>3, <2>4, <2>5, HandChange, Zenon
<1> QED
  BY <1>3, <1>4 DEF AllCovered, Covered, CoveredNext, Expired, TypeOK, Lease

\* The lease a step leaves for a shard was there before it, or was acquired or
\* renewed in that step and runs for the lease duration from now.
LEMMA OrderlyStep ==
  ASSUME ClusterInv, [Next]_vars, TypeOK'
  PROVE  Orderly'
<1>0. TypeOK /\ TTL \in Nat /\ now \in Nat /\ now' \in Nat /\ now' >= now
  BY ClusterConstants, Forward, Zenon DEF ClusterInv, TypeOK
<1>1. ASSUME NEW s \in DOMAIN leases' PROVE leases'[s].expiresAt <= now' + TTL
  <2>1. s \in DOMAIN leases => leases[s].expiresAt \in Nat /\ leases[s].expiresAt <= now + TTL
    BY Zenon DEF ClusterInv, Orderly, TypeOK, LeaseMap, Lease
  <2>2. \/ s \in DOMAIN leases /\ leases'[s] = leases[s]
        \/ leases'[s].expiresAt = now + TTL
    BY <1>0, LeasesChange, AcquireEffect, RenewEffect, ReleaseEffect, ZenonT(30)
  <2> QED
    BY <1>0, <2>1, <2>2
<1>2. ASSUME NEW t \in Threads, pc'[t] \in {"release", "releasing", "forget"}
      PROVE  Node[t] \in quit'
  <2>1. CASE pc[t] \in {"release", "releasing", "forget"}
    BY <1>0, <2>1, Forward, Zenon DEF ClusterInv, Orderly
  <2>2. CASE pc[t] \notin {"release", "releasing", "forget"} /\ pc'[t] # pc[t]
    <3>1. PICK u \in Threads : Call(u) \/ Proceed(u)
      BY <2>2, Zenon DEF Next, vars, locals, Tick
    <3>2. CASE Call(u)
      BY <1>0, <1>2, <2>2, <3>2 DEF Call, Ensure, Renew, ReleaseAll, TypeOK
    <3>3. ASSUME VisitNext(u) PROVE FALSE
      BY <1>0, <1>2, <2>2, <3>3 DEF VisitNext, Visit, TypeOK
    <3>4. ASSUME Acquire(u) \/ AcquireFails(u) \/ Keep(u) \/ VisitDone(u) PROVE FALSE
      BY <1>0, <1>2, <2>2, <3>4
         DEF Acquire, AcquireFails, Keep, VisitDone, Return, Goto, TypeOK
    <3>5. ASSUME RenewCall(u) \/ RenewStore(u) \/ RenewFails(u) \/ RenewDrop(u) PROVE FALSE
      BY <1>0, <1>2, <2>2, <3>5
         DEF RenewCall, RenewStore, RenewFails, RenewDrop, Goto, TypeOK
    <3>6. ASSUME ReleaseCall(u) \/ ReleaseForget(u) PROVE FALSE
      BY <1>0, <1>2, <2>2, <3>6, Zenon DEF ReleaseCall, ReleaseForget, Goto, TypeOK
    <3> QED
      BY <3>1, <3>2, <3>3, <3>4, <3>5, <3>6, Zenon DEF Proceed
  <2> QED
    BY <1>2, <2>1, <2>2, Zenon
<1> QED
  BY <1>1, <1>2, Zenon DEF Orderly

\* A grant draws a token above all that were drawn before.
LEMMA TokensStep ==
  ASSUME ClusterInv, [Next]_vars, TypeOK'
  PROVE  TokensDrawn' /\ TokensUnique'
<1>0. TypeOK /\ TokensDrawn /\ TokensUnique
  BY Zenon DEF ClusterInv
<1>1. CASE UNCHANGED <<leases, epochs, granted>>
  BY <1>0, <1>1, Zenon DEF TokensDrawn, TokensUnique
<1>2. ASSUME NEW t \in Threads, Acquire(t) PROVE TokensDrawn' /\ TokensUnique'
  <2> DEFINE s == shard[t]
             e == epochs[s] + 1
             g == [shard |-> s, node |-> Node[t], epoch |-> e]
  <2>1. s \in Shards /\ epochs[s] \in Nat /\ epochs' = [epochs EXCEPT ![s] = e]
    BY <1>0, <1>2, Zenon DEF TypeOK, Acquire, NextEpoch
  <2>2. granted' = granted \cup {g}
    BY <1>0, <1>2, Zenon DEF Acquire, NextEpoch, NewLease
  <2>3. g.shard = s /\ g.epoch = e /\ g.node = Node[t]
    BY Zenon
  <2>4. \A h \in granted : h.shard \in Shards /\ h.epoch \in Nat /\ h.epoch <= epochs[h.shard]
    BY <1>0, Zenon DEF TypeOK, TokensDrawn
  <2>5. \A x \in Shards : epochs'[x] = IF x = s THEN e ELSE epochs[x]
    BY <1>0, <2>1, Zenon DEF TypeOK
  <2>6. /\ DOMAIN leases' = DOMAIN leases \cup {s}
        /\ leases'[s].node = Node[t] /\ leases'[s].epoch = e
        /\ \A x \in DOMAIN leases : x # s => leases'[x] = leases[x]
    BY <1>0, <1>2, AcquireEffect, Zenon
  <2>7. DOMAIN leases \subseteq Shards /\ \A x \in Shards : epochs[x] \in Nat
    BY <1>0, Zenon DEF TypeOK, LeaseMap
  <2> HIDE DEF g
  <2>8. \A h \in granted : h.shard = s => h.epoch < e
    BY <2>1, <2>4
  <2>9. TokensDrawn'
    BY <2>1, <2>2, <2>3, <2>4, <2>5 DEF TokensDrawn
  <2>10. \A h, k \in granted' : h.shard = k.shard /\ h.epoch = k.epoch => h = k
    BY <1>0, <2>1, <2>2, <2>3, <2>4, <2>8 DEF TokensUnique
  <2>11. \A x \in DOMAIN leases' :
           /\ leases'[x].epoch = epochs'[x]
           /\ [shard |-> x, node |-> leases'[x].node, epoch |-> epochs'[x]] \in granted'
    <3> SUFFICES ASSUME NEW x \in DOMAIN leases'
                 PROVE  /\ leases'[x].epoch = epochs'[x]
                        /\ [shard |-> x, node |-> leases'[x].node, epoch |-> epochs'[x]] \in granted'
      BY Zenon
    <3>1. CASE x = s
      BY <2>1, <2>2, <2>5, <2>6, <3>1 DEF g
    <3>2. CASE x # s
      BY <1>0, <2>2, <2>5, <2>6, <2>7, <3>2, Zenon DEF TokensUnique
    <3> QED
      BY <3>1, <3>2, Zenon
  <2> QED
    BY <2>9, <2>10, <2>11, Zenon DEF TokensUnique
<1>3. ASSUME NEW t \in Threads, RenewCall(t) PROVE TokensDrawn' /\ TokensUnique'
  <2>1. /\ DOMAIN leases' = DOMAIN leases /\ UNCHANGED <<epochs, granted>>
        /\ \A x \in DOMAIN leases : /\ leases'[x].epoch = leases[x].epoch
                                    /\ leases'[x].node = leases[x].node
    BY <1>0, <1>3, RenewEffect, Zenon
  <2> QED
    BY <1>0, <2>1, Zenon DEF TokensDrawn, TokensUnique
<1>4. ASSUME NEW t \in Threads, ReleaseCall(t) PROVE TokensDrawn' /\ TokensUnique'
  <2>1. /\ DOMAIN leases' \subseteq DOMAIN leases /\ UNCHANGED <<epochs, granted>>
        /\ \A x \in DOMAIN leases' : leases'[x] = leases[x]
    BY <1>0, <1>4, ReleaseEffect, Zenon
  <2> QED
    BY <1>0, <2>1, Zenon DEF TokensDrawn, TokensUnique
<1> QED
  BY <1>1, <1>2, <1>3, <1>4, LeasesChange, Zenon

\* Every reachable state satisfies the invariant.
LEMMA Invariance == Spec => []ClusterInv
<1>1. Init => ClusterInv
  <2> SUFFICES ASSUME Init PROVE ClusterInv
    BY Zenon
  <2>1. DOMAIN leases = {} /\ \A n \in Nodes : DOMAIN owned[n] = {}
    BY DEF Init
  <2>2. \A t \in Threads : pc[t] = "idle"
    BY Zenon DEF Init
  <2>3. TokensDrawn /\ TokensUnique
    BY <2>1, Zenon DEF Init, TokensDrawn, TokensUnique
  <2> QED
    BY <2>1, <2>2, <2>3, InitTyped, Zenon DEF ClusterInv, Orderly, AllCovered, InHand
<1>2. ClusterInv /\ [Next]_vars => ClusterInv'
  <2> SUFFICES ASSUME ClusterInv, [Next]_vars PROVE ClusterInv'
    BY Zenon
  <2>1. TypeOK'
    BY StepTyped, Zenon DEF ClusterInv
  <2> QED
    BY <2>1, CoveredStep, OrderlyStep, TokensStep, Zenon DEF ClusterInv
<1> QED
  BY <1>1, <1>2, PTL DEF Spec

-----------------------------------------------------------------------------
(* The theorems.                                                           *)

\* Every variable of the lease service keeps its type: a goroutine of Renew or
\* ReleaseAll never presents a lease it has not read.
THEOREM TypeCorrect == Spec => []TypeOK
<1>1. ClusterInv => TypeOK
  BY Zenon DEF ClusterInv
<1> QED
  BY <1>1, Invariance, PTL

\* No two grants of the coordinator carry the same token for a shard.
THEOREM FencingTokens == Spec => []TokensUnique
<1>1. ClusterInv => TokensUnique
  BY Zenon DEF ClusterInv
<1> QED
  BY <1>1, Invariance, PTL

\* Two nodes that have not shut down never both take themselves for the owner of
\* a shard, though Ensure answers from an unguarded cache.
THEOREM SingleOwner == Spec => []OneOwner
<1>1. ClusterInv => OneOwner
  <2> SUFFICES ASSUME ClusterInv,
                      NEW s \in Shards, NEW m \in Nodes \ quit, NEW n \in Nodes \ quit,
                      Believes(m, s), Believes(n, s)
               PROVE  m = n
    BY Zenon DEF OneOwner
  <2>1. Covered(m, s, owned[m][s]) /\ Covered(n, s, owned[n][s])
    BY Zenon DEF ClusterInv, AllCovered, Believes
  <2> QED
    BY <2>1, Zenon DEF Covered, Believes, OwnedBy
<1> QED
  BY <1>1, Invariance, PTL

\* No step of the coordinator takes an unexpired lease from a node that has not
\* called ReleaseAll.
THEOREM LeaseHeld == Spec => HeldUntilExpiry
<1>1. ClusterInv /\ [Next]_vars =>
        [\A s \in DOMAIN leases :
           (leases[s].node \notin quit /\ ~Expired(leases[s])) =>
             /\ s \in DOMAIN leases'
             /\ leases'[s].node = leases[s].node
             /\ leases'[s].expiresAt >= leases[s].expiresAt]_vars
  BY HeldStep, Zenon DEF Held
<1> QED
  BY <1>1, Invariance, PTL DEF Spec, HeldUntilExpiry

\* A Renew or Release that presents an old token changes nothing.
THEOREM StaleTokens == Spec => StaleRejected
<1>1. ASSUME ClusterInv, [Next]_vars, NEW t \in Threads,
             pc[t] \in {"renewing", "releasing"}, pc'[t] # pc[t],
             got[t].epoch # epochs[shard[t]]
      PROVE  UNCHANGED leases
  <2>0. TypeOK /\ TokensUnique
    BY <1>1, Zenon DEF ClusterInv
  <2>1. ~Current(shard[t], got[t])
    BY <1>1, <2>0, Zenon DEF Current, TokensUnique
  <2>2. ASSUME NEW u \in Threads, Acquire(u) \/ RenewCall(u) \/ ReleaseCall(u)
        PROVE  u = t
    BY <1>1, <2>0, <2>2, Zenon DEF Acquire, RenewCall, ReleaseCall, Goto, TypeOK
  <2>3. ~Acquire(t) /\ ~RenewCall(t)
    BY <1>1, <2>1, Zenon DEF Acquire, RenewCall, Renewable
  <2>4. ReleaseCall(t) => UNCHANGED leases
    BY <2>0, <2>1, ReleaseEffect, Zenon
  <2> QED
    BY <1>1, <2>2, <2>3, <2>4, LeasesChange, Zenon
<1>2. ClusterInv /\ [Next]_vars =>
        [\A t \in Threads :
           (/\ pc[t] \in {"renewing", "releasing"}
            /\ pc'[t] # pc[t]
            /\ got[t].epoch # epochs[shard[t]]) => UNCHANGED leases]_vars
  BY <1>1, Zenon
<1> QED
  BY <1>2, Invariance, PTL DEF Spec, StaleRejected

-----------------------------------------------------------------------------
(* The services and the coordinator implement the abstract specification.  *)

\* Acquire is an abstract grant.
LEMMA AcquireGrants ==
  ASSUME ClusterInv, NEW t \in Threads, Acquire(t)
  PROVE  Promise!Next
<1> PICK s \in Shards : s = shard[t]
  BY Zenon DEF ClusterInv, TypeOK
<1>0. TypeOK /\ now \in Nat /\ TTL \in Nat \ {0} /\ Node[t] \in Nodes
  BY ClusterConstants, Zenon DEF ClusterInv, TypeOK
<1>1. Promise!Free(s, Node[t])
  <2>1. s \in DOMAIN leases => leases[s].expiresAt \in Nat
    BY <1>0, Zenon DEF TypeOK, LeaseMap, Lease
  <2>2. ~Refused(s, Node[t])
    BY Zenon DEF Acquire
  <2> QED
    BY <1>0, <2>1, <2>2, Zenon DEF Promise!Free, Refused, Expired
<1>2. epochs' = [epochs EXCEPT ![s] = @ + 1]
  BY Zenon DEF Acquire, NextEpoch
<1>3. /\ DOMAIN leases' = DOMAIN leases \cup {s}
      /\ leases'[s].node = Node[t] /\ leases'[s].expiresAt = now + TTL
      /\ \A x \in DOMAIN leases : x # s => leases'[x] = leases[x]
      /\ now' = now
  <2>1. /\ DOMAIN leases' = DOMAIN leases \cup {s} /\ now' = now
        /\ \A x \in DOMAIN leases : x # s => leases'[x] = leases[x]
    BY <1>0, AcquireEffect, Zenon
  <2>2. leases'[s] = got'[t] /\ got'[t].node = Node[t] /\ got'[t].expiresAt = now + TTL
    BY <1>0, AcquireEffect, Zenon
  <2> QED
    BY ONLY <2>1, <2>2, Zenon
<1>4. now + TTL > now
  BY <1>0
<1>5. Promise!Grant(s, Node[t])
  BY <1>1, <1>2, <1>3, <1>4, Zenon DEF Promise!Grant
<1> QED
  BY <1>0, <1>5, Zenon DEF Promise!Next

\* Renew is an abstract extension of an unexpired lease.
LEMMA RenewExtends ==
  ASSUME ClusterInv, NEW t \in Threads, RenewCall(t)
  PROVE  Promise!Next
<1> PICK s \in Shards : s = shard[t]
  BY Zenon DEF ClusterInv, TypeOK
<1>0. TypeOK /\ now \in Nat /\ TTL \in Nat
  BY ClusterConstants, Zenon DEF ClusterInv, TypeOK
<1>1. /\ Renewable(s, got[t]) /\ DOMAIN leases' = DOMAIN leases
      /\ leases'[s].node = leases[s].node /\ leases'[s].expiresAt = now + TTL
      /\ \A x \in DOMAIN leases : x # s => leases'[x] = leases[x]
      /\ now' = now /\ epochs' = epochs
  BY <1>0, RenewEffect
<1>2. s \in DOMAIN leases /\ ~Expired(leases[s])
  BY <1>1, Zenon DEF Renewable, Current
<1>3. leases[s].expiresAt \in Nat /\ leases[s].expiresAt <= now + TTL
  BY <1>2, Zenon DEF ClusterInv, Orderly, TypeOK, LeaseMap, Lease
<1>4. leases[s].expiresAt > now
  BY <1>0, <1>2, <1>3 DEF Expired
<1>5. now + TTL >= leases[s].expiresAt
  BY <1>0, <1>3, Zenon
<1>6. Promise!Extend(s)
  BY <1>1, <1>2, <1>4, <1>5, Zenon DEF Promise!Extend
<1> QED
  BY <1>6, Zenon DEF Promise!Next

\* Release is an abstract drop, or is refused and changes nothing.
LEMMA ReleaseDrops ==
  ASSUME ClusterInv, NEW t \in Threads, ReleaseCall(t)
  PROVE  Promise!Next \/ UNCHANGED <<now, epochs, leases>>
<1> PICK s \in Shards : s = shard[t]
  BY Zenon DEF ClusterInv, TypeOK
<1>0. TypeOK
  BY Zenon DEF ClusterInv
<1>1. CASE UNCHANGED leases
  BY <1>0, <1>1, ReleaseEffect, Zenon
<1>2. CASE ~UNCHANGED leases
  <2>1. /\ UNCHANGED <<now, epochs>> /\ s \in DOMAIN leases
        /\ DOMAIN leases' = DOMAIN leases \ {s}
        /\ \A x \in DOMAIN leases' : leases'[x] = leases[x]
    BY <1>0, <1>2, ReleaseEffect, Zenon DEF Current
  <2>2. Promise!Drop(s)
    BY <2>1, Zenon DEF Promise!Drop
  <2> QED
    BY <2>2, Zenon DEF Promise!Next
<1> QED
  BY <1>1, <1>2, Zenon

\* Whatever the goroutines of the nodes do, in whatever order, the coordinator
\* behaves as the abstract lease specification.
THEOREM Refinement == Spec => KeepsPromise
<1>1. Init => Promise!Init
  BY DEF Init, Promise!Init
<1>2. ASSUME ClusterInv, [Next]_vars PROVE [Promise!Next]_(Promise!vars)
  <2>1. CASE UNCHANGED <<now, epochs, leases>>
    BY <2>1, Zenon DEF Promise!vars
  <2>2. CASE Tick
    BY <2>2, Zenon DEF Tick, Promise!Next, Promise!Advance
  <2>3. ASSUME NEW t \in Threads, Call(t) PROVE UNCHANGED <<now, epochs, leases>>
    BY <2>3, Zenon DEF Call, Ensure, Renew, ReleaseAll
  <2>4. ASSUME NEW t \in Threads, Proceed(t), ~Acquire(t), ~RenewCall(t), ~ReleaseCall(t)
        PROVE  UNCHANGED <<now, epochs, leases>>
    BY <2>4, Zenon DEF Proceed, AcquireFails, Keep, VisitNext, VisitDone, RenewStore,
                RenewFails, RenewDrop, ReleaseForget
  <2>5. CASE UNCHANGED vars
    BY <2>1, <2>5, Zenon DEF vars
  <2> QED
    BY <1>2, <2>1, <2>2, <2>3, <2>4, <2>5, AcquireGrants, RenewExtends, ReleaseDrops, Zenon
       DEF Next
<1> QED
  BY <1>1, <1>2, Invariance, PTL DEF Spec, KeepsPromise, Promise!Spec

=============================================================================
