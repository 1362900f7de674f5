--------------------------- MODULE DeliveryProofs ---------------------------
(***************************************************************************)
(* Type correctness of Delivery, mutual exclusion by Service.mu, and the   *)
(* proofs that no message is held twice, that none is on offer while it is *)
(* held, that no delivery id is used twice, that an                        *)
(* address's backlog exceeds its limit only by the publishers that are     *)
(* about to trim it, and that Delivery implements Dispatch, for every set  *)
(* of messages, addresses, consumers, goroutines and requests.             *)
(***************************************************************************)
EXTENDS Delivery, TLAPS

Inside == {"acquire", "save"}

\* What a goroutine's locals are at each place: the routes Publish has left,
\* the consumer Acquire has read, and snapshots of stored messages only.
ProcOK(p) ==
  /\ pc[p] \in {"put", "enforce", "evict"} => pub[p].routes # <<>>
  /\ pc[p] \in Inside => /\ sub[p] \in [id : Consumers, record : Consumer]
                         /\ sub[p].record.unsettled = {}
                         /\ \A r, s \in todo[p] : r = s
  /\ \A r \in todo[p] : r.id \in DOMAIN messages

LocalsOK == \A p \in Procs : ProcOK(p)

\* Consumer.Acquire records nothing, so no consumer ever has an unsettled
\* delivery on record.
NothingUnsettled == \A c \in DOMAIN consumers : consumers[c].unsettled = {}

\* Service.mu is held by exactly the goroutine inside Acquire.
Exclusion == \A p \in Procs : pc[p] \in Inside <=> mu = p

-----------------------------------------------------------------------------
(* The records the operations write.                                       *)

\* deadLetter yields a well-formed record of the same message, which is either
\* not available or has no expiry left.
LEMMA DeadRecord ==
  ASSUME DeliveryConstants, paused \in [Addresses -> BOOLEAN],
         NEW r \in Message, NEW why \in Reasons
  PROVE  Dead(r, why) \in Message /\ Dead(r, why).id = r.id
         /\ ~Deliverable(Dead(r, why))
BY Zenon DEF DeliveryConstants, Message, States, Dead, Deliverable

\* A record Acquire has taken is well formed and no longer available.
LEMMA TakenRecord ==
  ASSUME NEW r \in Message, NEW sem \in Semantics
  PROVE  Taken(r, sem) \in Message /\ Taken(r, sem).id = r.id
         /\ ~Deliverable(Taken(r, sem))
<1>1. PICK n \in Nat : n = r.count + 1
  BY DEF Message
<1>2. PICK s \in States : s = IF sem = "at-most-once" THEN "accepted" ELSE "acquired"
  BY Zenon DEF States
<1>3. s # "available"
  BY <1>2, Zenon
<1>4. CASE n > 1
  <2>1. Taken(r, sem) = [r EXCEPT !.state = s, !.count = n, !.redelivered = TRUE]
    BY <1>1, <1>2, <1>4, Zenon DEF Taken
  <2>2. QED
    BY <1>3, <2>1, Zenon DEF Message, Deliverable
<1>5. CASE ~(n > 1)
  <2>1. Taken(r, sem) = [r EXCEPT !.state = s, !.count = n, !.redelivered = FALSE]
    <3>1. (r.count + 1 > 1) = FALSE
      BY <1>1, <1>5
    <3>2. QED
      BY <3>1, <1>1, <1>2, Zenon DEF Taken
  <2>2. QED
    BY <1>3, <2>1, ZenonT(40) DEF Message, Deliverable
<1>6. QED
  BY <1>4, <1>5, Zenon

\* A replayed record is well formed and has no expiry.
LEMMA ReplayedRecord ==
  ASSUME NEW r \in Message
  PROVE  Replayed(r) \in Message /\ Replayed(r).id = r.id
         /\ ~Deliverable(Replayed(r))
BY Zenon DEF Message, States, Replayed, Deliverable

\* A new record is well formed.
LEMMA NewRecord ==
  ASSUME now \in Nat, NEW m \in Msgs, NEW a \in Addresses, NEW p \in Publication
  PROVE  NewMessage(m, a, p) \in Message /\ NewMessage(m, a, p).id = m
BY DEF Publication, Message, States, Reasons, NewMessage

StoreOK ==
  /\ messages \in [DOMAIN messages -> Message]
  /\ DOMAIN messages \subseteq Msgs
  /\ \A m \in DOMAIN messages : messages[m].id = m

\* Memory.Update of a well-formed record keeps the store well formed, keeps
\* its ids, and changes no other record.
LEMMA UpdateStore ==
  ASSUME StoreOK, NEW r \in Message, Update(r)
  PROVE  /\ StoreOK'
         /\ DOMAIN messages' = DOMAIN messages
         /\ \A m \in DOMAIN messages :
              messages'[m] = IF m = r.id THEN r ELSE messages[m]
BY Zenon DEF StoreOK, Update

\* Moving a record to the dead letters leaves the store well formed.
LEMMA DeadStore ==
  ASSUME DeliveryConstants, StoreOK, paused \in [Addresses -> BOOLEAN],
         NEW r \in Message, NEW why \in Reasons,
         UNCHANGED messages \/ Update(Dead(r, why))
  PROVE  StoreOK' /\ DOMAIN messages' = DOMAIN messages
<1>1. CASE UNCHANGED messages
  BY ONLY StoreOK, <1>1, Zenon DEF StoreOK
<1>2. CASE Update(Dead(r, why))
  <2>1. Dead(r, why) \in Message
    BY ONLY DeliveryConstants, paused \in [Addresses -> BOOLEAN], r \in Message,
            why \in Reasons, DeadRecord, Zenon
  <2>2. QED
    BY ONLY StoreOK, <1>2, <2>1, UpdateStore, Zenon
<1>3. QED
  BY <1>1, <1>2, Zenon

\* Every stored record, and so every snapshot of the store, is well formed.
LEMMA StoredRecords ==
  ASSUME StoreOK
  PROVE  Stored \subseteq Message /\ \A r \in Stored : r.id \in DOMAIN messages
                                                     /\ messages[r.id] = r
BY Zenon DEF StoreOK, Stored

-----------------------------------------------------------------------------
(* Type correctness.                                                       *)

Typed == TypeOK /\ LocalsOK /\ NothingUnsettled

\* Before the first request every table is empty and every goroutine idle.
LEMMA TypedInit ==
  ASSUME DeliveryConstants, Init
  PROVE  Typed
BY DEF DeliveryConstants, Init, Typed, TypeOK, LocalsOK, ProcOK, NothingUnsettled, Inside,
       Labels, Procs, Publication, NoPublication, NoConsumer

\* When the loop of Publish moves on, what is left is a publication with at
\* least one route, or Publish is over.
LEMMA RoutesMoveOn ==
  ASSUME NEW p \in Procs, pub \in [Procs -> Publication], pc \in [Procs -> Labels],
         pub[p].routes # <<>>, NextRoute(p)
  PROVE  /\ pub' \in [Procs -> Publication]
         /\ pc' \in [Procs -> Labels]
         /\ pc'[p] \in {"idle", "put"}
         /\ pc'[p] = "put" => pub'[p].routes # <<>>
         /\ \A q \in Procs \ {p} : pc'[q] = pc[q] /\ pub'[q] = pub[q]
<1>0. pub[p].routes \in Seq(Addresses) /\ Len(pub[p].routes) # 0
  BY DEF Publication
<1>1. PICK rest \in Seq(Addresses) : rest = Tail(pub[p].routes)
  <2>1. Tail(pub[p].routes) \in Seq(Addresses)
    BY <1>0
  <2>2. QED
    BY <2>1, Zenon
<1>2. CASE rest = <<>>
  BY <1>1, <1>2 DEF NextRoute, Goto, NoPublication, Publication, Labels
<1>3. CASE rest # <<>>
  <2>1. [pub[p] EXCEPT !.routes = rest] \in Publication
        /\ [pub[p] EXCEPT !.routes = rest].routes = rest
    BY Zenon DEF Publication
  <2>2. QED
    BY <1>1, <1>3, <2>1, Zenon DEF NextRoute, Goto, Labels
<1>4. QED
  BY <1>2, <1>3, Zenon

\* Register stores a well-formed consumer that has nothing unsettled.
LEMMA NewConsumerRecord ==
  ASSUME DeliveryConstants, NEW in \in Registrations
  PROVE  NewConsumer(in) \in Consumer /\ NewConsumer(in).unsettled = {}
BY Zenon DEF DeliveryConstants, NewConsumer, Consumer

\* Publish reads an address from a list of routes that is not empty.
LEMMA FirstRoute ==
  ASSUME NEW routes \in Seq(Addresses), routes # <<>>
  PROVE  Head(routes) \in Addresses
OBVIOUS

\* A goroutine whose locals a step leaves alone keeps its local invariant as
\* long as no message leaves the store.
LEMMA ProcFrame ==
  ASSUME NEW q, ProcOK(q), pc'[q] = pc[q], pub'[q] = pub[q], sub'[q] = sub[q],
         todo'[q] = todo[q], DOMAIN messages \subseteq DOMAIN messages'
  PROVE  ProcOK(q)'
BY Zenon DEF ProcOK

\* A loop over a snapshot that rewrites one record keeps everything else.
LEMMA LoopStep ==
  ASSUME Typed, StoreOK', DOMAIN messages' = DOMAIN messages, NEW p \in Procs, NEW r,
         todo' = [todo EXCEPT ![p] = @ \ {r}],
         UNCHANGED <<now, paused, consumers, deliverySeq, mu, pc, pub, sub,
                     home, handed, settled, returned>>
  PROVE  Typed'
<1>1. /\ todo' \in [Procs -> SUBSET Message]
      /\ \A q \in Procs : todo'[q] \subseteq todo[q]
  BY Zenon DEF Typed, TypeOK
<1>2. TypeOK'
  BY <1>1, Zenon DEF Typed, TypeOK, StoreOK
<1>3. LocalsOK'
  BY <1>1 DEF Typed, LocalsOK, ProcOK
<1>4. QED
  BY <1>2, <1>3, Zenon DEF Typed, NothingUnsettled

\* A loop begins with a snapshot of stored records.
LEMMA SnapshotStep ==
  ASSUME Typed, NEW p \in Procs, NEW S \in SUBSET Stored, NEW l \in {"sweep", "replay"},
         todo' = [todo EXCEPT ![p] = S], Goto(p, l),
         UNCHANGED <<now, store, mu, pub, sub, history>>
  PROVE  Typed'
<1>1. S \subseteq Message /\ \A r \in S : r.id \in DOMAIN messages
  BY StoredRecords, Zenon DEF Typed, TypeOK, StoreOK
<1>2. /\ todo' \in [Procs -> SUBSET Message] /\ todo'[p] = S
      /\ pc' \in [Procs -> Labels] /\ pc'[p] = l
      /\ \A q \in Procs \ {p} : todo'[q] = todo[q] /\ pc'[q] = pc[q]
  BY <1>1, Zenon DEF Typed, TypeOK, Goto, Labels
<1>3. TypeOK'
  BY <1>2, Zenon DEF Typed, TypeOK, store, history
<1>4. LocalsOK'
  <2>1. ProcOK(p)'
    BY <1>1, <1>2, Zenon DEF ProcOK, Inside, store
  <2>2. ASSUME NEW q \in Procs \ {p} PROVE ProcOK(q)'
    BY <1>2, <2>2, ProcFrame, Zenon DEF Typed, LocalsOK, store
  <2>3. QED
    BY <2>1, <2>2, Zenon DEF LocalsOK
<1>5. QED
  BY <1>3, <1>4, Zenon DEF Typed, NothingUnsettled, store

\* A goroutine that releases Service.mu has nothing left of Acquire.
LEMMA UnlockStep ==
  ASSUME Typed, NEW p \in Procs, Unlock(p), StoreOK', DOMAIN messages' = DOMAIN messages,
         consumers' \in [DOMAIN consumers' -> Consumer], DOMAIN consumers' \subseteq Consumers,
         NothingUnsettled', deliverySeq' \in Nat,
         handed' \in SUBSET [id : Nat, consumer : Consumers, msg : Msgs,
                             address : Addresses, semantics : Semantics],
         UNCHANGED <<now, paused, pub, home, settled, returned>>
  PROVE  Typed'
<1>1. /\ todo' \in [Procs -> SUBSET Message] /\ todo'[p] = {}
      /\ pc' \in [Procs -> Labels] /\ pc'[p] = "idle" /\ mu' = None
      /\ sub' \in [Procs -> [id : Consumers, record : Consumer] \cup {NoConsumer}]
  BY Zenon DEF Typed, TypeOK, Unlock, Goto, Labels
<1>2. \A q \in Procs \ {p} : todo'[q] = todo[q] /\ pc'[q] = pc[q] /\ sub'[q] = sub[q]
  BY Zenon DEF Typed, TypeOK, Unlock, Goto
<1>3. TypeOK'
  BY <1>1, Zenon DEF Typed, TypeOK, StoreOK
<1>4. LocalsOK'
  <2>1. ProcOK(p)'
    BY <1>1, Zenon DEF ProcOK, Inside
  <2>2. ASSUME NEW q \in Procs \ {p} PROVE ProcOK(q)'
    BY <1>2, <2>2, ProcFrame, Zenon DEF Typed, LocalsOK
  <2>3. QED
    BY <2>1, <2>2, Zenon DEF LocalsOK
<1>5. QED
  BY <1>3, <1>4, Zenon DEF Typed

\* Every step keeps store and locals well formed.
LEMMA TypedNext ==
  ASSUME DeliveryConstants, Typed, [Next]_vars
  PROVE  Typed'
<1> USE DEF Typed, TypeOK, LocalsOK, ProcOK, NothingUnsettled, Inside, Labels, store, locals, history,
            Goto
<1>0. StoreOK /\ Clients \subseteq Procs /\ Worker \in Procs
  BY Zenon DEF StoreOK, Procs
<1>1. ASSUME NEW p \in Clients, NEW in \in Publications, Publish(p, in)
      PROVE  Typed'
  <2>1. PICK new \in Publication :
          new.routes # <<>> /\ pub' = [pub EXCEPT ![p] = new]
    <3>1. in.ttl \in Nat /\ in.priority \in 0..9 /\ in.address \in Addresses
          /\ DefaultTTL[in.address] \in Nat /\ Routes[in.address] \in Seq(Addresses)
      BY Zenon DEF DeliveryConstants
    <3>2. PICK ttl \in Nat : ttl = IF in.ttl = 0 THEN DefaultTTL[in.address] ELSE in.ttl
      BY <3>1, Zenon
    <3>3. pub' = [pub EXCEPT ![p] = [ttl |-> ttl, priority |-> in.priority,
                                     routes |-> Routes[in.address]]]
          /\ Routes[in.address] # <<>>
      BY <1>1, <3>2, Zenon DEF Publish
    <3>4. [ttl |-> ttl, priority |-> in.priority, routes |-> Routes[in.address]]
            \in Publication
      BY <3>1, <3>2, Zenon DEF Publication
    <3>5. QED
      BY <3>3, <3>4, Zenon
  <2>2. UNCHANGED <<now, store, mu, sub, todo, history>>
        /\ pc' = [pc EXCEPT ![p] = "put"]
    BY <1>1, Zenon DEF Publish
  <2>3. TypeOK'
    BY <1>0, <2>1, <2>2, Zenon
  <2>4. LocalsOK'
    BY <1>0, <2>1, <2>2
  <2>5. QED
    BY <2>2, <2>3, <2>4, Zenon
<1>2. ASSUME NEW p \in Clients, NEW m \in Msgs, PublishPut(p, m)
      PROVE  Typed'
  <2>1. pub[p].routes \in Seq(Addresses) /\ pub[p].routes # <<>>
    BY <1>0, <1>2, Zenon DEF PublishPut, Publication
  <2>2. PICK dest \in Addresses : dest = Head(pub[p].routes)
    <3>1. Head(pub[p].routes) \in Addresses
      BY ONLY <2>1, FirstRoute, Zenon
    <3>2. QED
      BY ONLY <3>1, Zenon
  <2>3. NewMessage(m, dest, pub[p]) \in Message /\ NewMessage(m, dest, pub[p]).id = m
    BY <1>0, NewRecord
  <2>4. /\ messages' = [x \in DOMAIN messages \cup {m} |->
                          IF x = m THEN NewMessage(m, dest, pub[p]) ELSE messages[x]]
        /\ home' = [x \in DOMAIN home \cup {m} |-> IF x = m THEN dest ELSE home[x]]
        /\ UNCHANGED <<now, paused, consumers, deliverySeq, mu, sub, todo,
                       handed, settled, returned>>
        /\ NextRoute(p) \/ (pc' = [pc EXCEPT ![p] = "enforce"] /\ UNCHANGED pub)
    BY <1>2, <2>2, Zenon DEF PublishPut
  <2>5. StoreOK' /\ home' \in [DOMAIN messages' -> Addresses]
        /\ DOMAIN messages \subseteq DOMAIN messages'
    BY <2>3, <2>4 DEF StoreOK
  <2>6. CASE NextRoute(p)
    <3>1. /\ pub' \in [Procs -> Publication] /\ pc' \in [Procs -> Labels]
          /\ pc'[p] \in {"idle", "put"} /\ (pc'[p] = "put" => pub'[p].routes # <<>>)
          /\ \A q \in Procs \ {p} : pc'[q] = pc[q] /\ pub'[q] = pub[q]
      BY <1>0, <2>1, <2>6, RoutesMoveOn, Zenon
    <3>2. TypeOK'
      BY <2>4, <2>5, <3>1, Zenon DEF StoreOK
    <3>3. LocalsOK'
      <4>1. ProcOK(p)'
        BY <1>0, <2>4, <2>5, <3>1, Zenon
      <4>2. \A q \in Procs \ {p} : ProcOK(q)'
        BY <2>4, <2>5, <3>1, ProcFrame, Zenon
      <4>3. QED
        BY <4>1, <4>2, Zenon
    <3>4. QED
      BY <2>4, <3>2, <3>3, Zenon
  <2>7. CASE pc' = [pc EXCEPT ![p] = "enforce"] /\ UNCHANGED pub
    <3>1. TypeOK'
      BY <1>0, <2>4, <2>5, <2>7, Zenon DEF StoreOK
    <3>2. LocalsOK'
      <4>1. ProcOK(p)'
        BY <1>0, <2>1, <2>4, <2>5, <2>7, ZenonT(40)
      <4>2. \A q \in Procs \ {p} : ProcOK(q)'
        BY <2>4, <2>5, <2>7, ProcFrame
      <4>3. QED
        BY <4>1, <4>2, Zenon
    <3>3. QED
      BY <2>4, <3>1, <3>2, Zenon
  <2>8. QED
    BY <2>4, <2>6, <2>7, Zenon
<1>3. ASSUME NEW p \in Clients, EnforceMaxLength(p)
      PROVE  Typed'
  <2>1. PICK V \in Surplus(Head(pub[p].routes)) :
          /\ todo' = [todo EXCEPT ![p] = V]
          /\ NextRoute(p) \/ (pc' = [pc EXCEPT ![p] = "evict"] /\ UNCHANGED pub)
    BY <1>3, Zenon DEF EnforceMaxLength
  <2>2. V \subseteq Message /\ \A v \in V : v.id \in DOMAIN messages
    BY <1>0, StoredRecords, Zenon DEF Surplus, ListReady
  <2>3. UNCHANGED <<now, paused, messages, consumers, deliverySeq, mu, sub,
                    home, handed, settled, returned>>
    BY <1>3, Zenon DEF EnforceMaxLength
  <2>4. CASE NextRoute(p)
    <3>1. /\ pub' \in [Procs -> Publication] /\ pc' \in [Procs -> Labels]
          /\ pc'[p] \in {"idle", "put"} /\ (pc'[p] = "put" => pub'[p].routes # <<>>)
          /\ \A q \in Procs \ {p} : pc'[q] = pc[q] /\ pub'[q] = pub[q]
      BY <1>0, <1>3, <2>4, RoutesMoveOn, Zenon DEF EnforceMaxLength
    <3>2. TypeOK'
      BY <2>1, <2>2, <2>3, <3>1, Zenon
    <3>3. LocalsOK'
      <4>1. ProcOK(p)'
        BY <1>0, <2>1, <2>2, <2>3, <3>1, Zenon
      <4>2. \A q \in Procs \ {p} : ProcOK(q)'
        BY <2>1, <2>2, <2>3, <3>1, ProcFrame
      <4>3. QED
        BY <4>1, <4>2, Zenon
    <3>4. QED
      BY <2>3, <3>2, <3>3, Zenon
  <2>5. CASE pc' = [pc EXCEPT ![p] = "evict"] /\ UNCHANGED pub
    BY <1>0, <1>3, <2>1, <2>2, <2>3, <2>5 DEF EnforceMaxLength
  <2>6. QED
    BY <2>1, <2>4, <2>5, Zenon
<1>4. ASSUME NEW p \in Clients, Evict(p)
      PROVE  Typed'
  <2>1. PICK r \in todo[p] :
          /\ Update(Dead(r, "max-length"))
          /\ todo' = [todo EXCEPT ![p] = @ \ {r}]
          /\ NextRoute(p) \/ UNCHANGED <<pc, pub>>
    BY <1>4, Zenon DEF Evict, Lasts
  <2>2. StoreOK' /\ DOMAIN messages' = DOMAIN messages
    BY <1>0, <2>1, DeadRecord, UpdateStore, Zenon DEF Reasons
  <2>3. UNCHANGED <<now, paused, consumers, deliverySeq, mu, sub,
                    home, handed, settled, returned>>
    BY <1>4, Zenon DEF Evict
  <2>4. CASE NextRoute(p)
    <3>1. /\ pub' \in [Procs -> Publication] /\ pc' \in [Procs -> Labels]
          /\ pc'[p] \in {"idle", "put"} /\ (pc'[p] = "put" => pub'[p].routes # <<>>)
          /\ \A q \in Procs \ {p} : pc'[q] = pc[q] /\ pub'[q] = pub[q]
      BY <1>0, <1>4, <2>4, RoutesMoveOn, Zenon DEF Evict
    <3>2. TypeOK'
      <4>1. todo' \in [Procs -> SUBSET Message]
        BY <1>0, <2>1
      <4>2. QED
        BY <2>2, <2>3, <3>1, <4>1, Zenon DEF StoreOK
    <3>3. LocalsOK'
      <4>1. ProcOK(p)'
        BY <1>0, <2>1, <2>2, <2>3, <3>1, Zenon
      <4>2. \A q \in Procs \ {p} : ProcOK(q)'
        <5> SUFFICES ASSUME NEW q \in Procs \ {p}
                     PROVE  ProcOK(q)'
          BY Zenon
        <5>1. ProcOK(q)
          BY Zenon
        <5>2. pc'[q] = pc[q] /\ pub'[q] = pub[q]
          BY <3>1, Zenon
        <5>3. sub'[q] = sub[q] /\ todo'[q] = todo[q]
          BY <1>0, <2>1, <2>3
        <5>4. DOMAIN messages \subseteq DOMAIN messages'
          BY <2>2, Zenon
        <5>5. QED
          BY ONLY <5>1, <5>2, <5>3, <5>4, ProcFrame, Zenon
      <4>3. QED
        BY <4>1, <4>2, Zenon
    <3>4. QED
      BY <2>3, <3>2, <3>3, Zenon
  <2>5. CASE UNCHANGED <<pc, pub>>
    <3> HIDE DEF Typed, TypeOK, LocalsOK, ProcOK, NothingUnsettled
    <3> QED
      BY <1>0, <2>1, <2>2, <2>3, <2>5, LoopStep, Zenon
  <2>6. QED
    BY <2>1, <2>4, <2>5, Zenon
<1>5. ASSUME NEW p \in Clients, NEW c \in Consumers, NEW in \in Registrations,
             Register(p, c, in)
      PROVE  Typed'
  <2>1. PICK new \in Consumer : new.unsettled = {} /\ SaveConsumer(c, new)
    BY <1>5, NewConsumerRecord, Zenon DEF Register
  <2>2. /\ consumers' \in [DOMAIN consumers' -> Consumer]
        /\ DOMAIN consumers' \subseteq Consumers
        /\ \A x \in DOMAIN consumers' : consumers'[x].unsettled = {}
    BY <2>1, Zenon DEF SaveConsumer
  <2>3. UNCHANGED <<now, paused, messages, deliverySeq, locals, history>>
    BY <1>5, Zenon DEF Register
  <2>4. TypeOK'
    BY <2>2, <2>3, Zenon
  <2>5. LocalsOK'
    BY <2>3
  <2>6. QED
    BY <2>2, <2>4, <2>5, Zenon
<1>6. ASSUME NEW p \in Clients, NEW c \in Consumers, Acquire(p, c)
      PROVE  Typed'
  BY <1>0, <1>6, StoredRecords, SMTT(30) DEF Acquire, Firsts, ListReady
<1>7. ASSUME NEW p \in Clients, AcquireExpired(p)
      PROVE  Typed'
  <2>1. PICK r \in todo[p] : Update(Dead(r, "ttl-expired"))
    BY <1>7, Zenon DEF AcquireExpired
  <2>2. StoreOK' /\ DOMAIN messages' = DOMAIN messages
    BY <1>0, <2>1, DeadRecord, UpdateStore, Zenon DEF Reasons
  <2>3. Unlock(p) /\ UNCHANGED <<now, paused, consumers, deliverySeq, pub, history>>
    BY <1>7, Zenon DEF AcquireExpired
  <2>4. QED
    BY <1>0, <2>2, <2>3, UnlockStep, Zenon
<1>8. ASSUME NEW p \in Clients, AcquireUpdate(p)
      PROVE  Typed'
  <2>1. PICK r \in todo[p] :
          \/ /\ Update(Taken(r, sub[p].record.semantics))
             /\ pc' = [pc EXCEPT ![p] = "save"]
             /\ UNCHANGED <<mu, sub, todo>>
          \/ Unlock(p) /\ UNCHANGED messages
    BY <1>8, Zenon DEF AcquireUpdate
  <2>2. sub[p] \in [id : Consumers, record : Consumer]
    BY <1>0, <1>8, Zenon DEF AcquireUpdate
  <2>3. StoreOK' /\ DOMAIN messages' = DOMAIN messages
    <3>1. Taken(r, sub[p].record.semantics) \in Message
      BY <1>0, <2>2, TakenRecord DEF Consumer
    <3>2. CASE Update(Taken(r, sub[p].record.semantics))
      BY <1>0, <3>1, <3>2, UpdateStore, Zenon
    <3>3. CASE UNCHANGED messages
      BY <1>0, <3>3, Zenon DEF StoreOK
    <3>4. QED
      BY <2>1, <3>2, <3>3, Zenon
  <2>4. UNCHANGED <<now, paused, consumers, pub, home, handed, settled, returned>>
        /\ deliverySeq' \in Nat
    BY <1>8 DEF AcquireUpdate
  <2>5. CASE pc' = [pc EXCEPT ![p] = "save"] /\ UNCHANGED <<mu, sub, todo>>
    <3>1. TypeOK'
      BY <1>0, <2>3, <2>4, <2>5, Zenon DEF StoreOK
    <3>2. pc[p] \in Inside
      BY <1>8, Zenon DEF AcquireUpdate
    <3>3. LocalsOK' /\ NothingUnsettled'
      <4>1. ASSUME NEW q \in Procs PROVE ProcOK(q)'
        <5>1. ProcOK(q) /\ ProcOK(p)
          BY <1>0, Zenon
        <5>2. CASE q = p
          BY <1>0, <2>3, <2>4, <2>5, <3>2, <5>1, <5>2, Zenon
        <5>3. CASE q # p
          <6>1. pc'[q] = pc[q] /\ DOMAIN messages' = DOMAIN messages
            BY <2>3, <2>5, <5>3
          <6> HIDE DEF ProcOK
          <6>2. QED
            BY <2>4, <2>5, <5>1, <6>1, ProcFrame, Zenon
        <5>4. QED
          BY <5>2, <5>3, Zenon
      <4>2. NothingUnsettled'
        BY <2>4, Zenon
      <4>3. QED
        BY <4>1, <4>2, Zenon
    <3>4. QED
      BY <3>1, <3>3, Zenon
  <2>6. CASE Unlock(p)
    BY <1>0, <2>3, <2>4, <2>6, UnlockStep, Zenon
  <2>7. QED
    BY <2>1, <2>5, <2>6, Zenon
<1>9. ASSUME NEW p \in Clients, AcquireSave(p)
      PROVE  Typed'
  <2>1. sub[p] \in [id : Consumers, record : Consumer] /\ sub[p].record.unsettled = {}
    BY <1>0, <1>9, Zenon DEF AcquireSave
  <2>2. handed' \in SUBSET [id : Nat, consumer : Consumers, msg : Msgs,
                            address : Addresses, semantics : Semantics]
    <3>0. CASE UNCHANGED handed
      BY <3>0, Zenon
    <3> SUFFICES ASSUME handed' # handed
                 PROVE  handed' \in SUBSET [id : Nat, consumer : Consumers, msg : Msgs,
                                            address : Addresses, semantics : Semantics]
      BY <3>0, Zenon
    <3>1. PICK r \in todo[p] :
            handed' = handed \cup
              {[id |-> deliverySeq, consumer |-> sub[p].id, msg |-> r.id,
                address |-> sub[p].record.address,
                semantics |-> sub[p].record.semantics]}
      BY <1>9, Zenon DEF AcquireSave
    <3>2. r.id \in Msgs
      BY <1>0, Zenon DEF Message
    <3>3. /\ sub[p].id \in Consumers /\ sub[p].record.semantics \in Semantics
          /\ sub[p].record.address \in Addresses
      BY <2>1, Zenon DEF Consumer
    <3>4. deliverySeq \in Nat
      BY Zenon
    <3>5. handed \in SUBSET [id : Nat, consumer : Consumers, msg : Msgs,
                             address : Addresses, semantics : Semantics]
      BY Zenon
    <3>6. QED
      BY ONLY <3>1, <3>2, <3>3, <3>4, <3>5
  <2>3. consumers' \in [DOMAIN consumers' -> Consumer] /\ DOMAIN consumers' \subseteq Consumers
        /\ \A c \in DOMAIN consumers' : consumers'[c].unsettled = {}
    BY <1>0, <1>9, <2>1 DEF AcquireSave, SaveConsumer
  <2>4. /\ Unlock(p) /\ deliverySeq' \in Nat
        /\ UNCHANGED <<now, paused, messages, pub, home, settled, returned>>
    BY <1>9, Zenon DEF AcquireSave
  <2>5. StoreOK'
    BY <1>0, <2>4, Zenon DEF StoreOK
  <2>6. QED
    BY <1>0, <2>2, <2>3, <2>4, <2>5, UnlockStep, Zenon
<1>10. ASSUME NEW p \in Clients, NEW c \in Consumers, NEW id \in 1..deliverySeq,
              NEW o \in {"accepted", "released", "rejected"}, Settle(p, c, id, o)
       PROVE  Typed'
  <2>1. UNCHANGED messages
    BY <1>10, Zenon DEF Settle
  <2>2. settled' \in SUBSET Nat /\ returned' \in SUBSET Nat
    <3>1. settled' \in {settled, settled \cup {id}}
      BY <1>10, Zenon DEF Settle
    <3>2. settled' \in SUBSET Nat
      BY <3>1
    <3>3. returned' \in SUBSET Nat
      <4>1. PICK D \in SUBSET handed : returned' = returned \cup {h.id : h \in D}
        BY <1>10, Zenon DEF Settle, Outstanding
      <4>2. returned \in SUBSET Nat /\ \A h \in handed : h.id \in Nat
        BY Zenon
      <4>3. QED
        BY ONLY <4>1, <4>2, Zenon
    <3>4. QED
      BY <3>2, <3>3, Zenon
  <2>3. UNCHANGED <<now, paused, consumers, deliverySeq, locals, home, handed>>
    BY <1>10, Zenon DEF Settle
  <2>4. TypeOK' /\ NothingUnsettled'
    BY <2>1, <2>2, <2>3, Zenon
  <2>5. LocalsOK'
    BY <2>1, <2>3
  <2>6. QED
    BY <2>4, <2>5, Zenon
<1>11. ASSUME NEW p \in Clients, NEW c \in Consumers, Disconnect(p, c)
       PROVE  Typed'
  <2>1. messages' = messages
    <3>1. {u.msg : u \in consumers[c].unsettled} = {}
      BY <1>11, ZenonT(40) DEF Disconnect
    <3>2. messages' = [m \in DOMAIN messages |-> messages[m]]
      BY <1>11, <3>1, Zenon DEF Disconnect
    <3>3. QED
      BY <3>2, Zenon
  <2>2. PICK rec \in Consumer :
          rec.unsettled = {} /\ consumers' = [consumers EXCEPT ![c] = rec]
    <3>1. c \in DOMAIN consumers
      BY <1>11, Zenon DEF Disconnect
    <3>2. consumers' = [consumers EXCEPT ![c] =
            [consumers[c] EXCEPT !.unsettled = {}, !.connected = FALSE, !.credit = 0]]
      BY <1>11, <3>1, Zenon DEF Disconnect
    <3>3. [consumers[c] EXCEPT !.unsettled = {}, !.connected = FALSE, !.credit = 0] \in Consumer
      <4>1. PICK old \in Consumer : old = consumers[c]
        BY <3>1, Zenon
      <4>2. [old EXCEPT !.unsettled = {}, !.connected = FALSE, !.credit = 0] \in Consumer
        BY Zenon DEF Consumer
      <4>3. QED
        BY <4>1, <4>2, Zenon
    <3>4. QED
      BY <3>1, <3>2, <3>3, Zenon DEF Consumer
  <2>3. /\ consumers' \in [DOMAIN consumers' -> Consumer]
        /\ DOMAIN consumers' \subseteq Consumers
        /\ \A x \in DOMAIN consumers' : consumers'[x].unsettled = {}
    BY <2>2, Zenon
  <2>4. UNCHANGED <<now, paused, deliverySeq, locals, home, handed, settled>>
        /\ returned' \in SUBSET Nat
    <3>1. UNCHANGED <<now, paused, deliverySeq, locals, home, handed, settled>>
      BY <1>11, Zenon DEF Disconnect
    <3>2. PICK D \in SUBSET handed : returned' = returned \cup {h.id : h \in D}
      BY <1>11, Zenon DEF Disconnect, Outstanding
    <3>3. returned \in SUBSET Nat /\ \A h \in handed : h.id \in Nat
      BY Zenon
    <3>4. returned' \in SUBSET Nat
      BY ONLY <3>2, <3>3, Zenon
    <3>5. QED
      BY <3>1, <3>4, Zenon
  <2>5. TypeOK'
    BY <2>1, <2>3, <2>4, Zenon
  <2>6. LocalsOK'
    BY <2>1, <2>4
  <2>7. QED
    BY <2>3, <2>5, <2>6, Zenon
<1>12. ASSUME NEW p \in Clients, NEW n \in Limits, ReplayDead(p, n)
       PROVE  Typed'
  <2>1. PICK S \in SUBSET Stored : todo' = [todo EXCEPT ![p] = S]
    BY <1>12, Zenon DEF ReplayDead, Replayable
  <2>2. Goto(p, "replay") /\ UNCHANGED <<now, store, mu, pub, sub, history>>
    BY <1>12, Zenon DEF ReplayDead
  <2> HIDE DEF Typed, TypeOK, LocalsOK, ProcOK, NothingUnsettled, Goto, store, history
  <2>3. QED
    BY <1>0, <2>1, <2>2, SnapshotStep, Zenon
<1>13. ASSUME NEW p \in Clients, ReplayOne(p)
       PROVE  Typed'
  <2>1. PICK r \in todo[p] :
          /\ UNCHANGED messages \/ Update(Replayed(r))
          /\ todo' = [todo EXCEPT ![p] = @ \ {r}]
          /\ pc' = [pc EXCEPT ![p] = "idle"] \/ UNCHANGED pc
    BY <1>13, Zenon DEF ReplayOne
  <2>2. StoreOK' /\ DOMAIN messages' = DOMAIN messages
    BY <1>0, <2>1, ReplayedRecord, UpdateStore, SMTT(30) DEF StoreOK
  <2>3. QED
    <3>1. UNCHANGED <<now, paused, consumers, deliverySeq, mu, pub, sub,
                      home, handed, settled, returned>>
          /\ pc[p] = "replay"
      BY <1>13, Zenon DEF ReplayOne
    <3>2. TypeOK'
      <4>1. todo' \in [Procs -> SUBSET Message]
        BY <1>0, <2>1
      <4>2. pc' \in [Procs -> Labels]
        <5>1. pc \in [Procs -> Labels] /\ p \in Procs /\ "idle" \in Labels
          BY <1>0, Zenon
        <5>2. QED
          BY ONLY <2>1, <5>1, Zenon
      <4>3. QED
        BY <2>2, <3>1, <4>1, <4>2, Zenon DEF StoreOK
    <3>3. LocalsOK'
      <4>1. todo'[p] \subseteq todo[p] /\ pc'[p] \in {"idle", "replay"}
        BY <1>0, <2>1, <3>1
      <4>2. ProcOK(p)'
        BY <1>0, <2>2, <4>1, Zenon
      <4>3. ASSUME NEW q \in Procs \ {p}
            PROVE  ProcOK(q)'
        <5>1. pc'[q] = pc[q] /\ pub'[q] = pub[q] /\ sub'[q] = sub[q] /\ todo'[q] = todo[q]
          BY <2>1, <3>1, <4>3
        <5>2. ProcOK(q)
          BY <4>3, Zenon
        <5>3. QED
          BY <2>2, <5>1, <5>2, ProcFrame, Zenon
      <4>4. QED
        BY <4>2, <4>3, Zenon
    <3>4. NothingUnsettled'
      BY <3>1, Zenon
    <3>5. QED
      BY <3>2, <3>3, <3>4, Zenon
<1>14. ASSUME NEW p \in Clients, Cancel(p)
       PROVE  Typed'
  <2>1. /\ mu' \in Clients \cup {None} /\ pc' \in [Procs -> Labels]
        /\ todo' \in [Procs -> SUBSET Message]
        /\ sub' \in [Procs -> [id : Consumers, record : Consumer] \cup {NoConsumer}]
    BY <1>0, <1>14, Zenon DEF Cancel
  <2>2. pub' \in [Procs -> Publication]
    <3>1. NoPublication \in Publication
      BY DEF NoPublication, Publication
    <3>2. pub \in [Procs -> Publication] /\ pub' = [pub EXCEPT ![p] = NoPublication]
      BY <1>14, Zenon DEF Cancel
    <3>3. QED
      BY ONLY <3>1, <3>2, Zenon
  <2>3. UNCHANGED <<now, paused, messages, consumers, deliverySeq, home, handed, settled, returned>>
    BY <1>14, Zenon DEF Cancel
  <2>4. TypeOK' /\ NothingUnsettled'
    BY <2>1, <2>2, <2>3, Zenon
  <2>5. ProcOK(p)'
    <3>1. pc'[p] = "idle" /\ todo'[p] = {}
      BY <1>0, <1>14, Zenon DEF Cancel
    <3>2. QED
      BY ONLY <3>1, Zenon DEF ProcOK, Inside
  <2>6. ASSUME NEW q \in Procs \ {p}
        PROVE  ProcOK(q)'
    <3>1. pc'[q] = pc[q] /\ pub'[q] = pub[q] /\ sub'[q] = sub[q] /\ todo'[q] = todo[q]
      BY <1>14, <2>6 DEF Cancel
    <3>2. ProcOK(q)
      BY <2>6, Zenon
    <3>3. QED
      BY <2>3, <3>1, <3>2, ProcFrame, Zenon
  <2>7. QED
    BY <2>4, <2>5, <2>6, Zenon
<1>15. CASE SweepExpired
  <2>1. PICK S \in SUBSET Stored : todo' = [todo EXCEPT ![Worker] = S]
    BY <1>15, Zenon DEF SweepExpired
  <2>2. Goto(Worker, "sweep") /\ UNCHANGED <<now, store, mu, pub, sub, history>>
    BY <1>15, Zenon DEF SweepExpired
  <2> HIDE DEF Typed, TypeOK, LocalsOK, ProcOK, NothingUnsettled, Goto, store, history
  <2>3. QED
    BY <1>0, <2>1, <2>2, SnapshotStep, Zenon
<1>16. CASE SweepOne
  <2>1. PICK r \in todo[Worker] :
          /\ UNCHANGED messages \/ Update(Dead(r, "ttl-expired"))
          /\ todo' = [todo EXCEPT ![Worker] = @ \ {r}]
    BY ONLY <1>16, Zenon DEF SweepOne
  <2>5. StoreOK /\ paused \in [Addresses -> BOOLEAN] /\ r \in Message
    BY <1>0, Zenon
  <2>6. "ttl-expired" \in Reasons
    BY Zenon DEF Reasons
  <2>2. StoreOK' /\ DOMAIN messages' = DOMAIN messages
    BY ONLY DeliveryConstants, <2>1, <2>5, <2>6, DeadStore, Zenon
  <2>3. UNCHANGED <<now, paused, consumers, deliverySeq, mu, pc, pub, sub,
                    home, handed, settled, returned>>
    BY <1>16, Zenon DEF SweepOne
  <2> HIDE DEF Typed, TypeOK, LocalsOK, ProcOK, NothingUnsettled
  <2>4. QED
    BY <1>0, <2>1, <2>2, <2>3, LoopStep, Zenon
<1>17. CASE SweepDone
  <2>1. /\ pc[Worker] = "sweep" /\ pc' = [pc EXCEPT ![Worker] = "idle"]
        /\ UNCHANGED <<now, store, mu, pub, sub, todo, history>>
    BY <1>17, Zenon DEF SweepDone
  <2>2. TypeOK' /\ NothingUnsettled'
    BY <1>0, <2>1, Zenon
  <2>3. LocalsOK'
    BY <1>0, <2>1
  <2>4. QED
    BY <2>2, <2>3, Zenon
<1>18. ASSUME NEW a \in Pausable, Pause(a)
       PROVE  Typed'
  BY <1>18 DEF Pause
<1>19. CASE Tick
  BY <1>19 DEF Tick
<1>20. CASE UNCHANGED vars
  BY <1>20 DEF vars
<1> HIDE DEF Typed
<1>21. QED
  BY <1>1, <1>2, <1>3, <1>4, <1>5, <1>6, <1>7, <1>8, <1>9, <1>10, <1>11, <1>12,
     <1>13, <1>14, <1>15, <1>16, <1>17, <1>18, <1>19, <1>20
     DEF Next, Request, Proceed, Sweep

\* Store and locals are always well formed.
LEMMA TypedAlways == Spec => []Typed
<1>1. Init => Typed
  BY DeliveryConstants, TypedInit, Zenon
<1>2. Typed /\ [Next]_vars => Typed'
  BY DeliveryConstants, TypedNext, Zenon
<1>3. QED
  BY <1>1, <1>2, PTL DEF Spec

\* Delivery keeps its types: the store holds well-formed records under their
\* own ids, whatever stale snapshots are written back to it.
THEOREM TypeCorrect == Spec => []TypeOK
<1>1. Typed => TypeOK
  BY Zenon DEF Typed
<1>2. QED
  BY <1>1, TypedAlways, PTL

-----------------------------------------------------------------------------
(* Mutual exclusion by Service.mu.                                         *)

\* Lock and unlock of Service.mu bracket Acquire on every path through it.
LEMMA ExclusionNext ==
  ASSUME DeliveryConstants, Typed, Exclusion, [Next]_vars
  PROVE  Exclusion'
<1> USE DEF Exclusion, Inside, Goto
<1>0. /\ pc \in [Procs -> Labels] /\ mu \in Clients \cup {None}
      /\ Clients \subseteq Procs /\ Worker \in Procs
      /\ None \notin Procs /\ Worker \notin Clients
  BY Zenon DEF Typed, TypeOK, Procs, DeliveryConstants
<1>1. ASSUME NEW p \in Clients, pc[p] \notin Inside, mu' = mu,
             NEW l \in Labels \ Inside, pc' = [pc EXCEPT ![p] = l]
      PROVE  Exclusion'
  BY <1>0, <1>1, Zenon
<1>2. ASSUME UNCHANGED <<mu, pc>>
      PROVE  Exclusion'
  BY <1>2, Zenon
<1>3. ASSUME NEW p \in Clients, NextRoute(p), pc[p] \notin Inside, mu' = mu
      PROVE  Exclusion'
  BY <1>1, <1>3, Zenon DEF NextRoute, Labels
<1>4. ASSUME NEW p \in Clients, Unlock(p), pc[p] \in Inside
      PROVE  Exclusion'
  BY <1>0, <1>4, Zenon DEF Unlock
<1>5. ASSUME NEW p \in Clients, Request(p)
      PROVE  Exclusion'
  <2>1. ASSUME NEW in \in Publications, Publish(p, in)
        PROVE  Exclusion'
    BY <1>1, <2>1, Zenon DEF Publish, Labels
  <2>2. ASSUME NEW c \in Consumers, Acquire(p, c)
        PROVE  Exclusion'
    BY <1>0, <2>2, Zenon DEF Acquire
  <2>3. ASSUME NEW n \in Limits, ReplayDead(p, n)
        PROVE  Exclusion'
    BY <1>1, <2>3, Zenon DEF ReplayDead, Labels
  <2>4. QED
    <3>1. ASSUME \/ \E c \in Consumers, in \in Registrations : Register(p, c, in)
                 \/ \E c \in Consumers, id \in 1..deliverySeq,
                        o \in {"accepted", "released", "rejected"} : Settle(p, c, id, o)
                 \/ \E c \in Consumers : Disconnect(p, c)
          PROVE  UNCHANGED <<mu, pc>>
      BY ONLY <3>1, ZenonT(40) DEF Register, Settle, Disconnect, locals
    <3>2. QED
      BY <1>2, <1>5, <2>1, <2>2, <2>3, <3>1, Zenon DEF Request
<1>6. ASSUME NEW p \in Clients, Proceed(p)
      PROVE  Exclusion'
  <2>1. ASSUME NEW m \in Msgs, PublishPut(p, m)
        PROVE  Exclusion'
    BY <1>1, <1>3, <2>1, Zenon DEF PublishPut, Labels
  <2>2. CASE EnforceMaxLength(p)
    BY <1>1, <1>3, <2>2, Zenon DEF EnforceMaxLength, Labels
  <2>3. CASE Evict(p)
    BY <1>2, <1>3, <2>3, Zenon DEF Evict
  <2>4. CASE AcquireExpired(p)
    BY <1>4, <2>4, Zenon DEF AcquireExpired
  <2>5. CASE AcquireUpdate(p)
    BY <1>0, <1>4, <2>5, Zenon DEF AcquireUpdate
  <2>6. CASE AcquireSave(p)
    BY <1>4, <2>6, Zenon DEF AcquireSave
  <2>7. CASE ReplayOne(p)
    BY <1>1, <1>2, <2>7, Zenon DEF ReplayOne, Labels
  <2>8. QED
    BY <1>6, <2>1, <2>2, <2>3, <2>4, <2>5, <2>6, <2>7, Zenon DEF Proceed
<1>7. ASSUME NEW p \in Clients, Cancel(p)
      PROVE  Exclusion'
  BY <1>0, <1>7, Zenon DEF Cancel
<1>8. CASE Sweep
  BY <1>0, <1>8 DEF Sweep, SweepExpired, SweepOne, SweepDone
<1>9. QED
  BY <1>2, <1>5, <1>6, <1>7, <1>8, Zenon DEF Next, Pause, Tick, vars, locals

-----------------------------------------------------------------------------
(* No whole-record write makes a message deliverable again.                *)

NotAgain ==
  \A m \in DOMAIN messages :
    m \in DOMAIN messages' /\ (Deliverable(messages'[m]) => messages'[m] = messages[m])

\* Writing back a record that is not deliverable makes nothing deliverable.
LEMMA SafeWrite ==
  ASSUME StoreOK, NEW r \in Message, Update(r), ~Deliverable(r)
  PROVE  NotAgain
BY UpdateStore DEF NotAgain

\* Every write of the service is of a safe record, or of a new message.
LEMMA NotAgainStep ==
  ASSUME DeliveryConstants, Typed, [Next]_vars
  PROVE  NotAgain
<1>0. /\ StoreOK /\ paused \in [Addresses -> BOOLEAN]
      /\ todo \in [Procs -> SUBSET Message]
      /\ Clients \subseteq Procs /\ Worker \in Procs
  BY Zenon DEF Typed, TypeOK, StoreOK, Procs
<1>1. ASSUME UNCHANGED messages
      PROVE  NotAgain
  BY <1>1, Zenon DEF NotAgain
<1>2. ASSUME NEW p \in Procs, NEW r \in todo[p], NEW why \in Reasons,
             Update(Dead(r, why))
      PROVE  NotAgain
  BY <1>0, <1>2, DeadRecord, SafeWrite, Zenon
<1>3. ASSUME NEW p \in Clients, NEW m \in Msgs, PublishPut(p, m)
      PROVE  NotAgain
  BY <1>3, Zenon DEF PublishPut, NotAgain
<1>4. ASSUME NEW p \in Clients, Evict(p)
      PROVE  NotAgain
  BY <1>0, <1>2, <1>4, Zenon DEF Evict, Lasts, Reasons
<1>5. ASSUME NEW p \in Clients, AcquireExpired(p)
      PROVE  NotAgain
  BY <1>0, <1>2, <1>5, Zenon DEF AcquireExpired, Reasons
<1>6. ASSUME NEW p \in Clients, AcquireUpdate(p)
      PROVE  NotAgain
  <2>1. sub[p].record.semantics \in Semantics
    BY <1>0, <1>6, Zenon DEF AcquireUpdate, Typed, LocalsOK, ProcOK, Inside, Consumer
  <2>2. ASSUME NEW r \in todo[p], Update(Taken(r, sub[p].record.semantics))
        PROVE  NotAgain
    BY <1>0, <2>1, <2>2, TakenRecord, SafeWrite, Zenon
  <2>3. QED
    BY <1>1, <1>6, <2>2, Zenon DEF AcquireUpdate
<1>7. ASSUME NEW p \in Clients, NEW c \in Consumers, NEW id \in 1..deliverySeq,
             NEW o \in {"accepted", "released", "rejected"}, Settle(p, c, id, o)
      PROVE  NotAgain
  BY <1>1, <1>7, Zenon DEF Settle, Typed, NothingUnsettled
<1>8. ASSUME NEW p \in Clients, NEW c \in Consumers, Disconnect(p, c)
      PROVE  NotAgain
  <2>1. {u.msg : u \in consumers[c].unsettled} = {}
    BY <1>8, Zenon DEF Disconnect, Typed, NothingUnsettled
  <2>2. messages' = [m \in DOMAIN messages |-> messages[m]]
    BY <1>8, <2>1, Zenon DEF Disconnect
  <2>3. QED
    BY <2>2, Zenon DEF NotAgain
<1>9. ASSUME NEW p \in Clients, ReplayOne(p)
      PROVE  NotAgain
  <2>1. ASSUME NEW r \in todo[p], Update(Replayed(r))
        PROVE  NotAgain
    BY <1>0, <2>1, ReplayedRecord, SafeWrite, Zenon
  <2>2. QED
    BY <1>1, <1>9, <2>1, Zenon DEF ReplayOne
<1>10. CASE SweepOne
  BY <1>0, <1>1, <1>2, <1>10, Zenon DEF SweepOne, Reasons
<1>11. QED
  <2>1. ASSUME NEW p \in Clients, Request(p)
        PROVE  NotAgain
    <3>1. CASE \/ \E in \in Publications : Publish(p, in)
               \/ \E c \in Consumers, in \in Registrations : Register(p, c, in)
               \/ \E c \in Consumers : Acquire(p, c)
               \/ \E n \in Limits : ReplayDead(p, n)
      <4>1. UNCHANGED messages
        BY <3>1, Zenon DEF Publish, Register, Acquire, ReplayDead, store
      <4>2. QED
        BY <1>1, <4>1, Zenon
    <3>2. QED
      BY <1>7, <1>8, <2>1, <3>1 DEF Request
  <2>2. ASSUME NEW p \in Clients, Proceed(p)
        PROVE  NotAgain
    BY <1>1, <1>3, <1>4, <1>5, <1>6, <1>9, <2>2, Zenon
       DEF Proceed, EnforceMaxLength, AcquireSave, store
  <2>3. QED
    BY <1>1, <1>10, <2>1, <2>2, Zenon
       DEF Next, Sweep, SweepExpired, SweepDone, Cancel, Pause, Tick, vars, store

\* A delivery that was handed out is of a stored message Acquire cannot hand
\* out again; the one about to be handed out is too, and was not handed out
\* before; the one Acquire is looking at, if not expired, was not either.
Handed(m) == \E h \in handed : h.msg = m

Spent ==
  /\ \A h \in handed : h.msg \in DOMAIN messages /\ ~Deliverable(messages[h.msg])
  /\ \A p \in Procs : pc[p] = "acquire" =>
       \A r \in todo[p] : r.expiresAt # 0 => ~Handed(r.id)
  /\ \A p \in Procs : pc[p] = "save" =>
       \A r \in todo[p] : ~Handed(r.id) /\ ~Deliverable(messages[r.id])

\* Ids handed out were drawn from the sequence, and the id of the delivery
\* about to be handed out is newer than all of them.
IdsDrawn ==
  /\ \A h \in handed : h.id <= deliverySeq
  /\ \A p \in Procs : pc[p] = "save" => \A h \in handed : h.id < deliverySeq

-----------------------------------------------------------------------------
(* Acquire hands out each message and each id once.                        *)

\* How a goroutine comes to be inside Acquire, and who hands out deliveries.
Moves(p) ==
  /\ pc'[p] = "acquire" =>
       \/ pc[p] = "acquire" /\ todo'[p] = todo[p] /\ sub'[p] = sub[p]
       \/ \E c \in Consumers : Acquire(p, c)
  /\ pc'[p] = "save" =>
       \/ pc[p] = "save" /\ todo'[p] = todo[p] /\ sub'[p] = sub[p]
       \/ AcquireUpdate(p)

\* Every step moves every goroutine like that.
LEMMA ProcMoves ==
  ASSUME DeliveryConstants, Typed, [Next]_vars, NEW q \in Procs
  PROVE  Moves(q)
<1>0. /\ pc \in [Procs -> Labels] /\ todo \in [Procs -> SUBSET Message]
      /\ sub \in [Procs -> [id : Consumers, record : Consumer] \cup {NoConsumer}]
      /\ Clients \subseteq Procs /\ Worker \in Procs /\ Worker \notin Clients
  BY Zenon DEF Typed, TypeOK, Procs, DeliveryConstants
<1>1. ASSUME UNCHANGED <<pc, todo, sub>>
      PROVE  Moves(q)
  BY <1>1, Zenon DEF Moves
<1>2. ASSUME NEW p \in Clients, Request(p)
      PROVE  Moves(q)
  <2>1. ASSUME NEW in \in Publications, Publish(p, in)
        PROVE  Moves(q)
    BY <1>0, <2>1, Zenon DEF Publish, Goto, Moves
  <2>2. ASSUME NEW c \in Consumers, Acquire(p, c)
        PROVE  Moves(q)
    <3>1. CASE q = p
      BY <1>0, <2>2, <3>1, Zenon DEF Acquire, Goto, Moves
    <3>2. CASE q # p
      <4>1. pc'[q] = pc[q] /\ todo'[q] = todo[q] /\ sub'[q] = sub[q]
        BY <1>0, <2>2, <3>2, Zenon DEF Acquire, Goto
      <4>2. QED
        BY <4>1, Zenon DEF Moves
    <3>3. QED
      BY <3>1, <3>2, Zenon
  <2>3. ASSUME NEW n \in Limits, ReplayDead(p, n)
        PROVE  Moves(q)
    BY <1>0, <2>3, Zenon DEF ReplayDead, Goto, Moves
  <2>4. CASE \/ \E c \in Consumers, in \in Registrations : Register(p, c, in)
             \/ \E c \in Consumers : Disconnect(p, c)
             \/ \E c \in Consumers, id \in 1..deliverySeq,
                   o \in {"accepted", "released", "rejected"} : Settle(p, c, id, o)
    <3>1. UNCHANGED <<pc, todo, sub>>
      BY <2>4, ZenonT(40) DEF Register, Disconnect, Settle, locals
    <3>2. QED
      BY <1>1, <3>1, Zenon
  <2>5. QED
    BY <1>2, <2>1, <2>2, <2>3, <2>4, Zenon DEF Request
<1>3. ASSUME NEW p \in Clients, NextRoute(p), todo'[q] = todo[q] \/ q = p, UNCHANGED sub
      PROVE  Moves(q)
  BY <1>0, <1>3, Zenon DEF NextRoute, Goto, Moves
<1>4. ASSUME NEW p \in Clients, Proceed(p)
      PROVE  Moves(q)
  <2>1. ASSUME NEW m \in Msgs, PublishPut(p, m)
        PROVE  Moves(q)
    BY <1>0, <1>3, <2>1, Zenon DEF PublishPut, Goto, Moves
  <2>2. CASE EnforceMaxLength(p)
    BY <1>0, <1>3, <2>2 DEF EnforceMaxLength, Goto, Moves
  <2>3. CASE Evict(p)
    <3>1. /\ NextRoute(p) \/ (pc' = pc /\ pc[p] = "evict")
          /\ todo'[q] = todo[q] \/ q = p
          /\ UNCHANGED sub
      BY <1>0, <2>3, Zenon DEF Evict
    <3>2. QED
      BY <1>3, <3>1, Zenon DEF Moves
  <2>4. CASE AcquireExpired(p) \/ AcquireSave(p)
    BY <1>0, <2>4 DEF AcquireExpired, AcquireSave, Unlock, Goto, Moves
  <2>5. CASE AcquireUpdate(p)
    <3>1. CASE q = p
      <4>1. pc'[p] \in {"save", "idle"}
        BY <1>0, <2>5, Zenon DEF AcquireUpdate, Unlock, Goto
      <4>2. QED
        BY <2>5, <3>1, <4>1, Zenon DEF Moves
    <3>2. CASE q # p
      <4>1. pc'[q] = pc[q] /\ todo'[q] = todo[q] /\ sub'[q] = sub[q]
        BY <1>0, <2>5, <3>2, ZenonT(40) DEF AcquireUpdate, Unlock, Goto
      <4>2. QED
        BY <4>1, Zenon DEF Moves
    <3>3. QED
      BY <3>1, <3>2, Zenon
  <2>6. CASE ReplayOne(p)
    <3>1. (pc'[q] = pc[q] /\ todo'[q] = todo[q] /\ sub'[q] = sub[q]) \/ pc'[q] \in {"idle", "replay"}
      BY <1>0, <2>6, ZenonT(40) DEF ReplayOne, Goto
    <3>2. QED
      BY <3>1, Zenon DEF Moves
  <2>7. QED
    BY <1>4, <2>1, <2>2, <2>3, <2>4, <2>5, <2>6, Zenon DEF Proceed
<1>5. ASSUME NEW p \in Clients, Cancel(p)
      PROVE  Moves(q)
  BY <1>0, <1>5, Zenon DEF Cancel, Goto, Moves
<1>6. CASE Sweep
  BY <1>0, <1>6 DEF Sweep, SweepExpired, SweepOne, SweepDone, Goto, Moves
<1>7. QED
  BY <1>1, <1>2, <1>4, <1>5, <1>6, Zenon DEF Next, Pause, Tick, vars, locals

\* Only the end of Acquire hands out, and only its middle draws an id.
LEMMA HandsOut ==
  ASSUME [Next]_vars
  PROVE  /\ UNCHANGED handed \/ \E p \in Clients : AcquireSave(p) /\ handed' # handed
         /\ UNCHANGED deliverySeq \/ \E p \in Clients : AcquireUpdate(p)
<1>1. ASSUME NEW p \in Clients, Request(p)
      PROVE  UNCHANGED <<handed, deliverySeq>>
  BY <1>1, ZenonT(40)
     DEF Request, Publish, Register, Acquire, ReplayDead, Settle, Disconnect,
         store, history
<1>2. ASSUME NEW p \in Clients, Proceed(p)
      PROVE  /\ UNCHANGED handed \/ AcquireSave(p)
             /\ UNCHANGED deliverySeq \/ AcquireUpdate(p)
  BY <1>2, Zenon
     DEF Proceed, PublishPut, EnforceMaxLength, Evict, AcquireExpired,
         AcquireUpdate, AcquireSave, ReplayOne, store, history
<1>3. QED
  BY <1>1, <1>2, Zenon
     DEF Next, Cancel, Sweep, SweepExpired, SweepOne, SweepDone, Pause, Tick,
         vars, store, history

\* Handed-out messages stay spent while stale snapshots are written back.
LEMMA SpentNext ==
  ASSUME DeliveryConstants, Typed, Exclusion, Exclusion', Spent, [Next]_vars
  PROVE  Spent'
<1>0. /\ NotAgain
      /\ pc \in [Procs -> Labels] /\ todo \in [Procs -> SUBSET Message]
      /\ StoreOK /\ Clients \subseteq Procs /\ None \notin Procs
  BY NotAgainStep, Zenon DEF Typed, TypeOK, StoreOK, Procs, DeliveryConstants
<1>1. \A h \in handed' : h.msg \in DOMAIN messages' /\ ~Deliverable(messages'[h.msg])
  <2>1. ASSUME NEW h \in handed
        PROVE  h.msg \in DOMAIN messages' /\ ~Deliverable(messages'[h.msg])
    BY <1>0, Zenon DEF Spent, NotAgain
  <2>2. ASSUME NEW p \in Clients, AcquireSave(p), NEW h \in handed' \ handed
        PROVE  h.msg \in DOMAIN messages' /\ ~Deliverable(messages'[h.msg])
    <3>1. PICK r \in todo[p] : h.msg = r.id
      <4>1. PICK s \in todo[p] :
              handed' = handed \cup {[id |-> deliverySeq, consumer |-> sub[p].id,
                                      msg |-> s.id, address |-> sub[p].record.address,
                                      semantics |-> sub[p].record.semantics]}
        BY <2>2, Zenon DEF AcquireSave
      <4>2. h = [id |-> deliverySeq, consumer |-> sub[p].id,
                 msg |-> s.id, address |-> sub[p].record.address,
                 semantics |-> sub[p].record.semantics]
        BY <2>2, <4>1, Zenon
      <4>3. QED
        BY ONLY <4>1, <4>2, Zenon
    <3>2. r.id \in DOMAIN messages /\ ~Deliverable(messages[r.id])
      BY <1>0, <2>2, Zenon DEF AcquireSave, Spent, Typed, LocalsOK, ProcOK
    <3>3. r.id \in DOMAIN messages' /\ ~Deliverable(messages'[r.id])
      BY <1>0, <3>2, Zenon DEF NotAgain
    <3>4. QED
      BY ONLY <3>1, <3>3, Zenon
  <2>3. QED
    BY <2>1, <2>2, HandsOut, Zenon
<1>2. ASSUME NEW q \in Procs, pc'[q] = "acquire", NEW r \in todo'[q], r.expiresAt # 0
      PROVE  ~Handed(r.id)'
  <2>1. handed' = handed
    <3>1. ASSUME NEW p \in Clients, AcquireSave(p)
          PROVE  FALSE
      BY <1>0, <1>2, <3>1, Zenon DEF AcquireSave, Unlock, Exclusion, Inside
    <3>2. QED
      BY <3>1, HandsOut, Zenon
  <2>2. CASE pc[q] = "acquire" /\ todo'[q] = todo[q]
    BY <1>2, <2>1, <2>2, Zenon DEF Spent, Handed
  <2>3. ASSUME NEW c \in Consumers, Acquire(q, c)
        PROVE  ~Handed(r.id)'
    <3>1. r \in Stored /\ r.state = "available"
      <4>1. PICK s \in Firsts(ListReady(consumers[c].address)) :
              todo' = [todo EXCEPT ![q] = {s}]
        BY <2>3, Zenon DEF Acquire
      <4>2. s \in Stored /\ s.state = "available"
        BY <4>1, Zenon DEF Firsts, ListReady
      <4>3. r = s
        BY <1>0, <1>2, <4>1, Zenon DEF Typed, TypeOK
      <4>4. QED
        BY <4>2, <4>3, Zenon
    <3>2. r = messages[r.id] /\ Deliverable(r)
      BY <1>0, <1>2, <3>1, StoredRecords, Zenon DEF Deliverable
    <3>3. ~Handed(r.id)
      <4>1. Deliverable(messages[r.id])
        BY ONLY <3>2, Zenon
      <4>2. \A h \in handed : ~Deliverable(messages[h.msg])
        BY Zenon DEF Spent
      <4>3. QED
        BY ONLY <4>1, <4>2, Zenon DEF Handed
    <3>4. QED
      BY ONLY <2>1, <3>3, Zenon DEF Handed
  <2>4. QED
    BY <1>2, <2>2, <2>3, ProcMoves, Zenon DEF Moves
<1>3. ASSUME NEW q \in Procs, pc'[q] = "save", NEW r \in todo'[q]
      PROVE  ~Handed(r.id)' /\ ~Deliverable(messages'[r.id])
  <2>1. handed' = handed
    <3>1. ASSUME NEW p \in Clients, AcquireSave(p)
          PROVE  FALSE
      BY <1>0, <1>3, <3>1, Zenon DEF AcquireSave, Unlock, Exclusion, Inside
    <3>2. QED
      BY <3>1, HandsOut, Zenon
  <2>2. CASE pc[q] = "save" /\ todo'[q] = todo[q]
    <3>1. r.id \in DOMAIN messages
      BY <1>3, <2>2, Zenon DEF Typed, LocalsOK, ProcOK
    <3>2. QED
      BY <1>0, <1>3, <2>1, <2>2, <3>1, Zenon DEF Spent, Handed, NotAgain
  <2>3. CASE AcquireUpdate(q)
    <3>1. PICK s \in todo[q] :
            ~Expired(s) /\ Update(Taken(s, sub[q].record.semantics))
            /\ UNCHANGED todo
      BY <1>0, <1>3, <2>3, Zenon DEF AcquireUpdate, Unlock, Goto
    <3>2. pc[q] = "acquire" /\ sub[q].record.semantics \in Semantics /\ s = r
      BY <1>0, <1>3, <2>3, <3>1, Zenon
         DEF AcquireUpdate, Typed, LocalsOK, ProcOK, Inside, Consumer
    <3>3. ~Handed(r.id)'
      BY <2>1, <3>1, <3>2, Zenon DEF Spent, Handed, Expired
    <3>4. Taken(s, sub[q].record.semantics) \in Message
          /\ Taken(s, sub[q].record.semantics).id = r.id
          /\ ~Deliverable(Taken(s, sub[q].record.semantics))
      BY <1>0, <3>2, TakenRecord, Zenon
    <3>5. r.id \in DOMAIN messages
      BY <3>2, Zenon DEF Typed, LocalsOK, ProcOK
    <3>6. QED
      BY <1>0, <3>1, <3>3, <3>4, <3>5, UpdateStore, Zenon
  <2>4. QED
    BY <1>3, <2>2, <2>3, ProcMoves, Zenon DEF Moves
<1>4. QED
  BY <1>1, <1>2, <1>3, Zenon DEF Spent

\* The id drawn inside Acquire stays the newest until it is handed out.
LEMMA IdsDrawnNext ==
  ASSUME DeliveryConstants, Typed, Exclusion, Exclusion', IdsDrawn, [Next]_vars
  PROVE  IdsDrawn'
<1>0. /\ deliverySeq \in Nat /\ \A h \in handed : h.id \in Nat
      /\ pc \in [Procs -> Labels] /\ Clients \subseteq Procs /\ None \notin Procs
  BY Zenon DEF Typed, TypeOK, Procs, DeliveryConstants
<1>1. ASSUME NEW p \in Clients, AcquireSave(p), handed' # handed
      PROVE  IdsDrawn'
  <2>1. \A h \in handed' : h.id <= deliverySeq'
    <3>1. PICK new : new.id = deliverySeq /\ handed' = handed \cup {new}
      BY <1>1, Zenon DEF AcquireSave
    <3>2. deliverySeq' = deliverySeq
      BY <1>1, Zenon DEF AcquireSave
    <3>3. deliverySeq \in Nat /\ \A h \in handed : h.id <= deliverySeq
      BY <1>0, Zenon DEF IdsDrawn
    <3>4. QED
      BY ONLY <3>1, <3>2, <3>3
  <2>2. \A q \in Procs : pc'[q] # "save"
    BY <1>0, <1>1, Zenon DEF AcquireSave, Unlock, Exclusion, Inside
  <2>3. QED
    BY <2>1, <2>2, Zenon DEF IdsDrawn
<1>2. ASSUME NEW p \in Clients, AcquireUpdate(p), UNCHANGED handed
      PROVE  IdsDrawn'
  <2>1. deliverySeq' = deliverySeq + 1
    BY <1>2, Zenon DEF AcquireUpdate
  <2>2. \A h \in handed : h.id <= deliverySeq
    BY Zenon DEF IdsDrawn
  <2>3. \A h \in handed' : h.id < deliverySeq'
    <3>1. deliverySeq \in Nat /\ \A h \in handed : h.id \in Nat
      BY <1>0, Zenon
    <3>2. handed' = handed
      BY <1>2, Zenon
    <3>3. QED
      BY ONLY <2>1, <2>2, <3>1, <3>2
  <2>4. deliverySeq' \in Nat /\ \A h \in handed' : h.id \in Nat
    BY <1>0, <1>2, <2>1
  <2>5. \A h \in handed' : h.id <= deliverySeq'
    BY ONLY <2>3, <2>4
  <2>6. QED
    BY <2>3, <2>5, Zenon DEF IdsDrawn
<1>3. ASSUME UNCHANGED <<handed, deliverySeq>>
      PROVE  IdsDrawn'
  <2>1. ASSUME NEW q \in Procs, pc'[q] = "save"
        PROVE  \A h \in handed : h.id < deliverySeq
    <3>1. CASE pc[q] = "save"
      BY <3>1, Zenon DEF IdsDrawn
    <3>2. CASE AcquireUpdate(q)
      <4>1. deliverySeq' = deliverySeq + 1 /\ deliverySeq' = deliverySeq
        BY <1>3, <3>2, Zenon DEF AcquireUpdate
      <4>2. deliverySeq \in Nat
        BY <1>0, Zenon
      <4>3. QED
        BY ONLY <4>1, <4>2
    <3>3. QED
      BY <2>1, <3>1, <3>2, ProcMoves, Zenon DEF Moves
  <2>2. QED
    BY <1>3, <2>1, Zenon DEF IdsDrawn
<1>4. QED
  <2>1. ASSUME NEW p \in Clients, AcquireUpdate(p)
        PROVE  UNCHANGED handed
    BY <2>1, Zenon DEF AcquireUpdate, history
  <2>2. QED
    BY <1>1, <1>2, <1>3, <2>1, HandsOut, Zenon

\* No message is handed out twice at all.  That is more than is promised: the
\* service never lists a message again that was given back.
HandedOnce == \A g, h \in handed : g.msg = h.msg => g = h

\* The inductive invariant behind the properties of deliveries.
DeliveryInv ==
  /\ Typed
  /\ Exclusion
  /\ Spent
  /\ IdsDrawn
  /\ HandedOnce
  /\ DeliveryIdsUnique

\* Every step preserves it.
LEMMA DeliveryInvNext ==
  ASSUME DeliveryConstants, DeliveryInv, [Next]_vars
  PROVE  DeliveryInv'
<1>1. Typed' /\ Exclusion'
  BY TypedNext, ExclusionNext, Zenon DEF DeliveryInv
<1>2. Spent' /\ IdsDrawn'
  BY <1>1, SpentNext, IdsDrawnNext, Zenon DEF DeliveryInv
<1>3. HandedOnce' /\ DeliveryIdsUnique'
  <2>1. CASE UNCHANGED handed
    BY <2>1, Zenon DEF DeliveryInv, HandedOnce, DeliveryIdsUnique
  <2>2. ASSUME NEW p \in Clients, AcquireSave(p), handed' # handed
        PROVE  HandedOnce' /\ DeliveryIdsUnique'
    <3>0. /\ p \in Procs /\ pc[p] = "save" /\ deliverySeq \in Nat
          /\ \A h \in handed : h.id \in Nat
      BY <2>2, Zenon DEF AcquireSave, DeliveryInv, Typed, TypeOK, Procs
    <3>1. PICK r \in todo[p] :
            handed' = handed \cup {[id |-> deliverySeq, consumer |-> sub[p].id,
                                    msg |-> r.id, address |-> sub[p].record.address,
                                    semantics |-> sub[p].record.semantics]}
      BY <2>2, Zenon DEF AcquireSave
    <3>2. \A h \in handed : h.msg # r.id /\ h.id # deliverySeq
      <4>1. ~Handed(r.id)
        BY <3>0, Zenon DEF DeliveryInv, Spent
      <4>2. \A h \in handed : h.id < deliverySeq
        BY <3>0, Zenon DEF DeliveryInv, IdsDrawn
      <4>3. \A h \in handed : h.id # deliverySeq
        BY ONLY <3>0, <4>2
      <4>4. QED
        BY <4>1, <4>3, Zenon DEF Handed
    <3>3. QED
      <4>1. HandedOnce /\ DeliveryIdsUnique
        BY Zenon DEF DeliveryInv
      <4>2. PICK d : d = [id |-> deliverySeq, consumer |-> sub[p].id, msg |-> r.id,
                          address |-> sub[p].record.address,
                          semantics |-> sub[p].record.semantics]
        BY Zenon
      <4>3. handed' = handed \cup {d} /\ d.id = deliverySeq /\ d.msg = r.id
        BY ONLY <3>1, <4>2, Zenon
      <4>4. QED
        BY ONLY <3>2, <4>1, <4>3 DEF HandedOnce, DeliveryIdsUnique
  <2>3. QED
    BY <2>1, <2>2, HandsOut, Zenon
<1>4. QED
  BY <1>1, <1>2, <1>3, Zenon DEF DeliveryInv

\* So it always holds.
LEMMA DeliveryInvAlways == Spec => []DeliveryInv
<1>1. Init => DeliveryInv
  <2>1. ASSUME Init PROVE Typed
    BY <2>1, DeliveryConstants, TypedInit, Zenon
  <2>2. ASSUME Init PROVE Exclusion
    BY <2>2, DeliveryConstants, Zenon DEF Init, Exclusion, Inside, DeliveryConstants, Procs
  <2>3. ASSUME Init PROVE Spent /\ IdsDrawn /\ HandedOnce /\ DeliveryIdsUnique
    BY <2>3, Zenon DEF Init, Spent, IdsDrawn, HandedOnce, DeliveryIdsUnique
  <2>4. QED
    BY <2>1, <2>2, <2>3, Zenon DEF DeliveryInv
<1>2. DeliveryInv /\ [Next]_vars => DeliveryInv'
  BY DeliveryConstants, DeliveryInvNext, Zenon
<1>3. QED
  BY <1>1, <1>2, PTL DEF Spec

\* No message is held by two consumers, or twice by one: Service.mu keeps the
\* calls of Acquire apart, and no write-back outside it makes the message that
\* one of them took deliverable again.
THEOREM OneHolder == Spec => []HeldOnce
<1>1. DeliveryInv => HeldOnce
  BY Zenon DEF DeliveryInv, HandedOnce, HeldOnce, Held
<1>2. QED
  BY <1>1, DeliveryInvAlways, PTL

\* Whatever stale record a sweep, an eviction or a replay writes back, a message
\* that a consumer holds or has accepted is not on offer.
THEOREM NotOfferedWhileHeld == Spec => []HeldNotOffered
<1>1. DeliveryInv => HeldNotOffered
  BY Zenon DEF DeliveryInv, Spent, HeldNotOffered, Held
<1>2. QED
  BY <1>1, DeliveryInvAlways, PTL

\* No delivery id is given to two deliveries, however many calls of Acquire
\* fail or are cancelled after drawing theirs.
THEOREM IdsUnique == Spec => []DeliveryIdsUnique
<1>1. DeliveryInv => DeliveryIdsUnique
  BY Zenon DEF DeliveryInv
<1>2. QED
  BY <1>1, DeliveryInvAlways, PTL

-----------------------------------------------------------------------------
(* What the service does to a message is what Dispatch allows.             *)

\* A message that can be taken is at the address it was routed to, and a
\* goroutine inside Acquire serves a consumer of the address its message was
\* routed to.
Homeward ==
  /\ \A m \in DOMAIN messages : Deliverable(messages[m]) => messages[m].address = home[m]
  /\ \A p \in Procs : pc[p] = "acquire" =>
       \A r \in todo[p] : r.expiresAt # 0 => sub[p].record.address = home[r.id]
  /\ \A p \in Procs : pc[p] = "save" =>
       \A r \in todo[p] : sub[p].record.address = home[r.id]

\* Only Publish routes.
LEMMA Routing ==
  ASSUME [Next]_vars
  PROVE  UNCHANGED home \/ \E p \in Clients, m \in Msgs : PublishPut(p, m)
<1>1. ASSUME NEW p \in Clients, Request(p)
      PROVE  UNCHANGED home
  BY <1>1, ZenonT(40)
     DEF Request, Publish, Register, Acquire, ReplayDead, Settle, Disconnect, history
<1>2. ASSUME NEW p \in Clients, Proceed(p)
      PROVE  UNCHANGED home \/ \E m \in Msgs : PublishPut(p, m)
  BY <1>2, Zenon
     DEF Proceed, EnforceMaxLength, Evict, AcquireExpired, AcquireUpdate, AcquireSave,
         ReplayOne, history
<1>3. QED
  BY <1>1, <1>2, Zenon
     DEF Next, Cancel, Sweep, SweepExpired, SweepOne, SweepDone, Pause, Tick,
         vars, history

\* A route is for ever, and a new message starts out at its route.
LEMMA RoutesKept ==
  ASSUME DeliveryConstants, Typed, Typed', [Next]_vars
  PROVE  /\ \A m \in DOMAIN messages : home'[m] = home[m]
         /\ \A m \in DOMAIN messages' \ DOMAIN messages : messages'[m].address = home'[m]
<1>1. DOMAIN home = DOMAIN messages /\ DOMAIN home' = DOMAIN messages'
  BY Zenon DEF Typed, TypeOK
<1>2. CASE UNCHANGED home
  BY ONLY <1>1, <1>2, Zenon
<1>3. ASSUME NEW p \in Clients, NEW n \in Msgs, PublishPut(p, n)
      PROVE  /\ \A m \in DOMAIN messages : home'[m] = home[m]
             /\ \A m \in DOMAIN messages' \ DOMAIN messages : messages'[m].address = home'[m]
  <2>1. PICK a :
          /\ messages' = [x \in DOMAIN messages \cup {n} |->
                            IF x = n THEN NewMessage(n, a, pub[p]) ELSE messages[x]]
          /\ home' = [x \in DOMAIN home \cup {n} |-> IF x = n THEN a ELSE home[x]]
    BY <1>3, Zenon DEF PublishPut
  <2>2. n \notin DOMAIN messages
    BY <1>3, Zenon DEF PublishPut
  <2>3. NewMessage(n, a, pub[p]).address = a
    BY Zenon DEF NewMessage
  <2>4. QED
    BY ONLY <1>1, <2>1, <2>2, <2>3, Zenon
<1>4. QED
  BY <1>2, <1>3, Routing, Zenon

\* Every step preserves it: a record that moves along the dead-letter chain, or
\* back by a replay, can no longer be taken.
LEMMA HomewardNext ==
  ASSUME DeliveryConstants, Typed, Typed', Homeward, [Next]_vars
  PROVE  Homeward'
<1>0. /\ NotAgain
      /\ pc \in [Procs -> Labels] /\ todo \in [Procs -> SUBSET Message]
      /\ sub \in [Procs -> [id : Consumers, record : Consumer] \cup {NoConsumer}]
      /\ StoreOK
  BY NotAgainStep, Zenon DEF Typed, TypeOK, StoreOK
<1>1. \A m \in DOMAIN messages : home'[m] = home[m]
  BY RoutesKept, Zenon
<1>2. ASSUME NEW m \in DOMAIN messages', Deliverable(messages'[m])
      PROVE  messages'[m].address = home'[m]
  <2>1. CASE m \notin DOMAIN messages
    BY <2>1, RoutesKept, Zenon
  <2>2. CASE m \in DOMAIN messages
    <3>1. messages'[m] = messages[m]
      BY <1>0, <1>2, <2>2, Zenon DEF NotAgain
    <3>2. Deliverable(messages[m])
      BY ONLY <1>2, <3>1, Zenon
    <3>3. messages[m].address = home[m]
      BY <2>2, <3>2, Zenon DEF Homeward
    <3>4. QED
      BY ONLY <1>1, <2>2, <3>1, <3>3, Zenon
  <2>3. QED
    BY <2>1, <2>2, Zenon
<1>3. ASSUME NEW q \in Procs, NEW r \in todo[q]
      PROVE  home'[r.id] = home[r.id]
  <2>1. r.id \in DOMAIN messages
    BY <1>3, Zenon DEF Typed, LocalsOK, ProcOK
  <2>2. QED
    BY ONLY <1>1, <2>1, Zenon
<1>4. ASSUME NEW q \in Procs, pc'[q] = "acquire", NEW r \in todo'[q], r.expiresAt # 0
      PROVE  sub'[q].record.address = home'[r.id]
  <2>1. CASE pc[q] = "acquire" /\ todo'[q] = todo[q] /\ sub'[q] = sub[q]
    <3>1. sub[q].record.address = home[r.id] /\ r \in todo[q]
      BY <1>4, <2>1, Zenon DEF Homeward
    <3>2. QED
      BY <1>3, <2>1, <3>1, Zenon
  <2>2. ASSUME NEW c \in Consumers, Acquire(q, c)
        PROVE  sub'[q].record.address = home'[r.id]
    <3>1. PICK s \in Firsts(ListReady(consumers[c].address)) :
            todo' = [todo EXCEPT ![q] = {s}]
      BY <2>2, Zenon DEF Acquire
    <3>2. s \in Stored /\ s.state = "available" /\ s.address = consumers[c].address
      BY <3>1, Zenon DEF Firsts, ListReady
    <3>3. r = s
      BY <1>0, <1>4, <3>1, Zenon
    <3>4. r.id \in DOMAIN messages /\ r = messages[r.id] /\ Deliverable(r)
      BY <1>0, <1>4, <3>2, <3>3, StoredRecords, Zenon DEF Deliverable
    <3>5. r.address = home'[r.id]
      <4>1. Deliverable(messages[r.id])
        BY ONLY <3>4, Zenon
      <4>2. messages[r.id].address = home[r.id]
        BY <3>4, <4>1, Zenon DEF Homeward
      <4>3. QED
        BY ONLY <1>1, <3>4, <4>2, Zenon
    <3>6. PICK d : d = [id |-> c, record |-> consumers[c]]
      BY Zenon
    <3>7. sub'[q].record = consumers[c]
      <4>1. sub'[q] = d
        BY <1>0, <2>2, <3>6, Zenon DEF Acquire
      <4>2. d.record = consumers[c]
        BY ONLY <3>6, Zenon
      <4>3. QED
        BY ONLY <4>1, <4>2, Zenon
    <3>8. QED
      BY ONLY <3>2, <3>3, <3>5, <3>7, Zenon
  <2>3. QED
    BY <1>4, <2>1, <2>2, ProcMoves, Zenon DEF Moves
<1>5. ASSUME NEW q \in Procs, pc'[q] = "save", NEW r \in todo'[q]
      PROVE  sub'[q].record.address = home'[r.id]
  <2>1. CASE pc[q] = "save" /\ todo'[q] = todo[q] /\ sub'[q] = sub[q]
    <3>1. sub[q].record.address = home[r.id] /\ r \in todo[q]
      BY <1>5, <2>1, Zenon DEF Homeward
    <3>2. QED
      BY <1>3, <2>1, <3>1, Zenon
  <2>2. CASE AcquireUpdate(q)
    <3>1. PICK s \in todo[q] : ~Expired(s) /\ UNCHANGED <<todo, sub>>
      BY <1>0, <1>5, <2>2, Zenon DEF AcquireUpdate, Unlock, Goto
    <3>2. pc[q] = "acquire" /\ s = r
      BY <1>5, <2>2, <3>1, Zenon DEF AcquireUpdate, Typed, LocalsOK, ProcOK, Inside
    <3>3. r \in todo[q] /\ r.expiresAt # 0
      BY <3>1, <3>2, Zenon DEF Expired
    <3>4. sub[q].record.address = home[r.id]
      BY <3>2, <3>3, Zenon DEF Homeward
    <3>5. QED
      BY <1>3, <3>1, <3>3, <3>4, Zenon
  <2>3. QED
    BY <1>5, <2>1, <2>2, ProcMoves, Zenon DEF Moves
<1>6. QED
  BY <1>2, <1>4, <1>5, Zenon DEF Homeward

\* Storing a routed message is a step Route.
LEMMA PutRoutes ==
  ASSUME DeliveryConstants, Typed, NEW p \in Clients, NEW n \in Msgs, PublishPut(p, n)
  PROVE  \E a \in Addresses : Promise!Route(n, a)
<1> DEFINE a == Head(pub[p].routes)
           offered == {m \in DOMAIN messages : Deliverable(messages[m])}
<1>1. /\ n \notin DOMAIN messages /\ UNCHANGED <<handed, returned>>
      /\ messages' = [x \in DOMAIN messages \cup {n} |->
                        IF x = n THEN NewMessage(n, a, pub[p]) ELSE messages[x]]
      /\ home' = [x \in DOMAIN home \cup {n} |-> IF x = n THEN a ELSE home[x]]
  BY Zenon DEF PublishPut
<1>2. DOMAIN home = DOMAIN messages
  BY Zenon DEF Typed, TypeOK
<1>3. a \in Addresses
  <2>1. pub[p] \in Publication /\ pub[p].routes # <<>>
    BY Zenon DEF PublishPut, Typed, TypeOK, LocalsOK, ProcOK, Procs
  <2>2. pub[p].routes \in Seq(Addresses)
    BY <2>1, Zenon DEF Publication
  <2>3. QED
    BY ONLY <2>1, <2>2
<1> HIDE DEF a
<1>4. offered' \in {offered, offered \cup {n}}
  <2>1. DOMAIN messages' = DOMAIN messages \cup {n}
    BY <1>1, Zenon
  <2>2. \A x \in DOMAIN messages : messages'[x] = messages[x]
    BY <1>1, Zenon
  <2>3. \A x : x \in offered' <=>
          (x \in DOMAIN messages /\ Deliverable(messages[x]))
          \/ (x = n /\ Deliverable(messages'[n]))
    BY ONLY <1>1, <2>1, <2>2, Zenon
  <2>4. QED
    BY ONLY <2>3, Zenon
<1>5. Promise!Route(n, a)
  BY <1>1, <1>2, <1>4, Zenon DEF Promise!Route
<1>6. QED
  BY <1>3, <1>5, Zenon

\* The last step of Acquire is a step Deliver.
LEMMA SaveDelivers ==
  ASSUME DeliveryConstants, DeliveryInv, Homeward, NEW p \in Clients, AcquireSave(p),
         handed' # handed
  PROVE  \E d \in handed' : Promise!Deliver(d)
<1> DEFINE offered == {m \in DOMAIN messages : Deliverable(messages[m])}
<1>0. /\ p \in Procs /\ pc[p] = "save" /\ UNCHANGED <<messages, home, returned>>
      /\ deliverySeq \in Nat /\ \A h \in handed : h.id \in Nat
  BY Zenon DEF AcquireSave, DeliveryInv, Typed, TypeOK, Procs
<1>1. PICK r \in todo[p] :
        handed' = handed \cup {[id |-> deliverySeq, consumer |-> sub[p].id, msg |-> r.id,
                                address |-> sub[p].record.address,
                                semantics |-> sub[p].record.semantics]}
  BY Zenon DEF AcquireSave
<1>2. PICK d : d = [id |-> deliverySeq, consumer |-> sub[p].id, msg |-> r.id,
                    address |-> sub[p].record.address,
                    semantics |-> sub[p].record.semantics]
  BY Zenon
<1>3. /\ handed' = handed \cup {d} /\ d.id = deliverySeq /\ d.msg = r.id
      /\ d.address = sub[p].record.address
  BY ONLY <1>1, <1>2, Zenon
<1>4. /\ r.id \in DOMAIN messages /\ ~Deliverable(messages[r.id])
      /\ ~Handed(r.id) /\ sub[p].record.address = home[r.id]
  BY <1>0, <1>1, Zenon DEF DeliveryInv, Spent, Typed, LocalsOK, ProcOK, Homeward
<1>5. \A h \in handed : h.id # deliverySeq
  <2>1. \A h \in handed : h.id < deliverySeq
    BY <1>0, Zenon DEF DeliveryInv, IdsDrawn
  <2>2. QED
    BY ONLY <1>0, <2>1
<1>6. \A h \in handed : h.msg # d.msg /\ h.id # d.id
  BY ONLY <1>3, <1>4, <1>5, Zenon DEF Handed
<1>7. d.msg \in DOMAIN home \ offered /\ d.address \in Promise!Chain(home[d.msg])
  <2>1. DOMAIN home = DOMAIN messages /\ home \in [DOMAIN messages -> Addresses]
    BY Zenon DEF DeliveryInv, Typed, TypeOK
  <2>2. d.msg \in DOMAIN home \ offered /\ d.address = home[d.msg]
    BY ONLY <1>3, <1>4, <2>1, Zenon
  <2>3. home[d.msg] \in Addresses
    BY ONLY <2>1, <2>2, Zenon
  <2>4. QED
    BY <2>2, <2>3, Zenon DEF Promise!Chain
<1>8. offered' = offered
  BY ONLY <1>0, Zenon
<1>9. Promise!Deliver(d)
  BY <1>0, <1>3, <1>6, <1>7, <1>8, Zenon DEF Promise!Deliver, Promise!Held
<1>10. QED
  BY <1>3, <1>9, Zenon

GivenBack(D) ==
  /\ \A d \in D : d.semantics = "at-least-once"
  /\ returned' = returned \cup {d.id : d \in D}

\* Only Settle and Disconnect give deliveries back, and only at-least-once ones.
LEMMA Returning ==
  ASSUME [Next]_vars
  PROVE  UNCHANGED returned \/ \E D \in SUBSET handed : GivenBack(D)
<1>1. ASSUME NEW p \in Clients, NEW c \in Consumers, NEW id, NEW o, Settle(p, c, id, o)
      PROVE  \E D \in SUBSET handed : GivenBack(D)
  <2> DEFINE D == {g \in Outstanding(c) : g.id = id /\ o # "accepted"}
  <2>1. returned' = returned \cup {h.id : h \in D}
    BY <1>1, Zenon DEF Settle
  <2>2. D \in SUBSET handed /\ \A d \in D : d.semantics = "at-least-once"
    BY Zenon DEF Outstanding
  <2>3. QED
    BY <2>1, <2>2, Zenon DEF GivenBack
<1>2. ASSUME NEW p \in Clients, NEW c \in Consumers, Disconnect(p, c)
      PROVE  \E D \in SUBSET handed : GivenBack(D)
  <2>1. returned' = returned \cup {h.id : h \in Outstanding(c)}
    BY <1>2, Zenon DEF Disconnect
  <2>2. Outstanding(c) \in SUBSET handed
        /\ \A d \in Outstanding(c) : d.semantics = "at-least-once"
    BY Zenon DEF Outstanding
  <2>3. QED
    BY <2>1, <2>2, Zenon DEF GivenBack
<1>3. ASSUME NEW p \in Clients, Request(p)
      PROVE  UNCHANGED returned \/ \E D \in SUBSET handed : GivenBack(D)
  BY <1>1, <1>2, <1>3, Zenon
     DEF Request, Publish, Register, Acquire, ReplayDead, history
<1>4. ASSUME NEW p \in Clients, Proceed(p)
      PROVE  UNCHANGED returned
  BY <1>4, Zenon
     DEF Proceed, PublishPut, EnforceMaxLength, Evict, AcquireExpired, AcquireUpdate,
         AcquireSave, ReplayOne, history
<1>5. QED
  BY <1>3, <1>4, Zenon
     DEF Next, Cancel, Sweep, SweepExpired, SweepOne, SweepDone, Pause, Tick,
         vars, history

\* Every step of the service is a step of the abstract specification; one that
\* concerns no message is a Withdraw of none.
LEMMA StepDispatches ==
  ASSUME DeliveryConstants, DeliveryInv, DeliveryInv', Homeward, [Next]_vars
  PROVE  Promise!Next
<1>1. ASSUME NEW p \in Clients, NEW m \in Msgs, PublishPut(p, m)
      PROVE  Promise!Next
  BY <1>1, PutRoutes, Zenon DEF DeliveryInv, Promise!Next
<1>2. ASSUME NEW p \in Clients, AcquireSave(p), handed' # handed
      PROVE  Promise!Next
  BY <1>2, SaveDelivers, Zenon DEF Promise!Next
<1>3. CASE UNCHANGED <<home, handed>>
  <2>1. NotAgain
    BY NotAgainStep, Zenon DEF DeliveryInv
  <2>2. DOMAIN messages' = DOMAIN messages
    BY <1>3, Zenon DEF DeliveryInv, Typed, TypeOK
  <2>3. ASSUME NEW m \in DOMAIN messages', Deliverable(messages'[m])
        PROVE  m \in DOMAIN messages /\ Deliverable(messages[m])
    <3>1. m \in DOMAIN messages /\ messages'[m] = messages[m]
      BY <2>1, <2>2, <2>3, Zenon DEF NotAgain
    <3>2. QED
      BY ONLY <2>3, <3>1, Zenon
  <2>4. CASE UNCHANGED returned
    <3>1. Promise!Withdraw
      BY <1>3, <2>3, <2>4, Zenon DEF Promise!Withdraw
    <3>2. QED
      BY <3>1, Zenon DEF Promise!Next
  <2>5. ASSUME NEW D \in SUBSET handed, GivenBack(D)
        PROVE  Promise!Next
    <3>1. Promise!Return(D)
      BY <1>3, <2>3, <2>5, Zenon DEF Promise!Return, GivenBack
    <3>2. QED
      BY <3>1, Zenon DEF Promise!Next
  <2>6. QED
    BY <2>4, <2>5, Returning, Zenon
<1>4. QED
  BY <1>1, <1>2, <1>3, HandsOut, Routing, Zenon

\* Whatever publishers, consumers, sweeps and replays do, in whatever order, a
\* message is routed, offered, withdrawn and delivered as Dispatch says.
THEOREM Refinement == Spec => DispatchesHeld
<1>1. Init => Homeward /\ Promise!Init
  BY DEF Init, Homeward, Promise!Init
<1>2. ASSUME DeliveryInv, DeliveryInv', Homeward, [Next]_vars
      PROVE  Homeward' /\ [Promise!Next]_(Promise!vars)
  BY <1>2, DeliveryConstants, HomewardNext, StepDispatches, Zenon DEF DeliveryInv
<1>3. QED
  BY <1>1, <1>2, DeliveryInvAlways, PTL DEF Spec, DispatchesHeld, Promise!Spec

-----------------------------------------------------------------------------
(* The backlog stays near MaxLength.                                       *)

\* What the bound needs to know of finite sets.  FiniteSetTheorems shows all of
\* it (FiniteSetsCount, below).
Counting ==
  /\ IsFiniteSet({}) /\ Cardinality({}) = 0
  /\ \A S : IsFiniteSet(S) => Cardinality(S) \in Nat
  /\ \A S : IsFiniteSet(S) =>
       \A T \in SUBSET S : IsFiniteSet(T) /\ Cardinality(T) <= Cardinality(S)
  /\ \A S, x : IsFiniteSet(S) =>
       /\ IsFiniteSet(S \cup {x})
       /\ Cardinality(S \cup {x}) = IF x \in S THEN Cardinality(S) ELSE Cardinality(S) + 1
  /\ \A S, T : IsFiniteSet(S) => Cardinality(S \ T) = Cardinality(S) - Cardinality(S \cap T)

\* The size of a finite set is a number.
LEMMA CountType ==
  ASSUME Counting, NEW S, IsFiniteSet(S)
  PROVE  Cardinality(S) \in Nat
  BY Zenon DEF Counting

\* A subset is no larger.
LEMMA SubsetCount ==
  ASSUME Counting, NEW S, IsFiniteSet(S), NEW T \in SUBSET S
  PROVE  IsFiniteSet(T) /\ Cardinality(T) <= Cardinality(S)
  BY Zenon DEF Counting

\* One element more.
LEMMA AddCount ==
  ASSUME Counting, NEW S, IsFiniteSet(S), NEW x
  PROVE  /\ IsFiniteSet(S \cup {x})
         /\ Cardinality(S \cup {x}) = IF x \in S THEN Cardinality(S) ELSE Cardinality(S) + 1
  BY Zenon DEF Counting

\* What is left of a finite set.
LEMMA DifferenceCount ==
  ASSUME Counting, NEW S, IsFiniteSet(S), NEW T
  PROVE  Cardinality(S \ T) = Cardinality(S) - Cardinality(S \cap T)
  BY Zenon DEF Counting

Limited(a) == MaxLength[a] > 0 /\ \A b \in Addresses : DeadLetter[b] # a

Evicting(a) == {p \in Trimming(a) : pc[p] = "evict"}

\* The ready messages that no evicting publisher of S has on its list.
Unmarked(a, S) == {r \in ListReady(a) : \A p \in S : \A t \in todo[p] : t.id # r.id}

\* The publishers that are evicting do not count, as soon as what they are
\* about to evict does not count either, whichever of them one leaves out.
Backlog(a) ==
  /\ IsFiniteSet(ListReady(a))
  /\ IsFiniteSet(Trimming(a))
  /\ \A S \in SUBSET Evicting(a) :
       Cardinality(Unmarked(a, S)) <= MaxLength[a] + Cardinality(Trimming(a) \ S)

\* A step that adds nothing to the ready messages of a and does not move its
\* publishers.
Quiet(a) ==
  /\ ListReady(a)' \subseteq ListReady(a)
  /\ Trimming(a)' = Trimming(a)
  /\ Evicting(a)' = Evicting(a)
  /\ \A p \in Evicting(a) : todo'[p] = todo[p]

\* A set no larger than a finite one.
LEMMA FewerUnmarked ==
  ASSUME Counting, NEW B, IsFiniteSet(B), NEW A, A \subseteq B, NEW T, IsFiniteSet(T),
         NEW n \in Nat, Cardinality(B) <= n + Cardinality(T)
  PROVE  Cardinality(A) <= n + Cardinality(T)
<1>1. Cardinality(A) <= Cardinality(B) /\ IsFiniteSet(A)
  BY SubsetCount, Zenon
<1>2. Cardinality(A) \in Nat /\ Cardinality(B) \in Nat /\ Cardinality(T) \in Nat
  BY <1>1, CountType, Zenon
<1>3. QED
  BY <1>1, <1>2

\* Quiet steps keep the bound.
LEMMA QuietStep ==
  ASSUME Counting, NEW a, MaxLength[a] \in Nat, Backlog(a), Quiet(a)
  PROVE  Backlog(a)'
<1>1. IsFiniteSet(ListReady(a)') /\ IsFiniteSet(Trimming(a)')
  BY SubsetCount, Zenon DEF Backlog, Quiet
<1>2. ASSUME NEW S \in SUBSET Evicting(a)'
      PROVE  Cardinality(Unmarked(a, S)') <= MaxLength[a] + Cardinality(Trimming(a)' \ S)
  <2>1. S \in SUBSET Evicting(a) /\ Trimming(a)' = Trimming(a)
    BY <1>2, Zenon DEF Quiet
  <2>2. Unmarked(a, S)' \subseteq Unmarked(a, S) /\ Unmarked(a, S) \subseteq ListReady(a)
    BY <2>1, Zenon DEF Unmarked, Quiet
  <2>3. IsFiniteSet(Unmarked(a, S)) /\ IsFiniteSet(Trimming(a) \ S)
    BY <2>2, SubsetCount, Zenon DEF Backlog
  <2>4. Cardinality(Unmarked(a, S)) <= MaxLength[a] + Cardinality(Trimming(a) \ S)
    BY <2>1, Zenon DEF Backlog
  <2>5. QED
    BY <2>1, <2>2, <2>3, <2>4, FewerUnmarked, Zenon
<1>3. QED
  BY <1>1, <1>2, Zenon DEF Backlog

\* A step of one goroutine that is not trimming a, before or after.
LEMMA StepElsewhere ==
  ASSUME NEW a, NEW p,
         \A q \in Clients \ {p} : pc'[q] = pc[q] /\ pub'[q] = pub[q] /\ todo'[q] = todo[q],
         p \notin Trimming(a), p \notin Trimming(a)',
         ListReady(a)' \subseteq ListReady(a)
  PROVE  Quiet(a)
<1>1. Trimming(a)' = Trimming(a)
  BY Zenon DEF Trimming
<1>2. Evicting(a)' = Evicting(a)
  BY <1>1, Zenon DEF Trimming, Evicting
<1>3. QED
  BY <1>1, <1>2, Zenon DEF Trimming, Evicting, Quiet

\* Writing a record that is not ready at a adds nothing to what is ready
\* there, and takes the old record of that message away.
LEMMA WriteElsewhere ==
  ASSUME StoreOK, NEW a, NEW d \in Message, Update(d),
         d.address # a \/ d.state # "available"
  PROVE  ListReady(a)' \subseteq {r \in ListReady(a) : r.id # d.id}
<1>1. /\ DOMAIN messages' = DOMAIN messages
      /\ \A m \in DOMAIN messages : messages'[m] = IF m = d.id THEN d ELSE messages[m]
  BY UpdateStore, Zenon
<1>2. ASSUME NEW r \in ListReady(a)'
      PROVE  r \in ListReady(a) /\ r.id # d.id
  <2>1. PICK m \in DOMAIN messages' : r = messages'[m] /\ r.address = a /\ r.state = "available"
    BY <1>2, Zenon DEF ListReady, Stored
  <2>2. m # d.id /\ r = messages[m]
    BY <1>1, <2>1, Zenon
  <2>3. r.id = m
    BY <1>1, <2>1, <2>2, Zenon DEF StoreOK
  <2>4. QED
    BY <1>1, <2>1, <2>2, <2>3, Zenon DEF ListReady, Stored
<1>3. QED
  BY <1>2, Zenon

\* A dead-lettered record is not ready at an address nobody dead-letters to.
LEMMA DeadElsewhere ==
  ASSUME DeliveryConstants, StoreOK, paused \in [Addresses -> BOOLEAN],
         NEW a, Limited(a), NEW r \in Message, NEW why \in Reasons, Update(Dead(r, why))
  PROVE  ListReady(a)' \subseteq {x \in ListReady(a) : x.id # r.id}
<1>1. Dead(r, why) \in Message /\ Dead(r, why).id = r.id
  BY DeadRecord, Zenon
<1>2. Dead(r, why).address # a \/ Dead(r, why).state # "available"
  BY Zenon DEF Limited, Dead, Message
<1>3. QED
  BY <1>1, <1>2, WriteElsewhere, Zenon

\* When a publisher stores a message at a, it is one more that has to trim.
LEMMA BacklogPut ==
  ASSUME Counting, DeliveryConstants, Typed, NEW a \in Addresses, Limited(a), Backlog(a),
         NEW p \in Clients, NEW m \in Msgs, PublishPut(p, m)
  PROVE  Backlog(a)'
<1>0. /\ pc \in [Procs -> Labels] /\ pub \in [Procs -> Publication] /\ p \in Procs
      /\ pub[p].routes # <<>> /\ StoreOK /\ MaxLength[a] \in Nat
  BY Zenon
     DEF PublishPut, Typed, TypeOK, LocalsOK, ProcOK, Procs, StoreOK, DeliveryConstants
<1>1. p \notin Trimming(a)
  BY Zenon DEF PublishPut, Trimming
<1>2. PICK dest : dest = Head(pub[p].routes)
  BY Zenon
<1>3. PICK new : new = NewMessage(m, dest, pub[p])
  BY Zenon
<1>4. /\ messages' = [x \in DOMAIN messages \cup {m} |-> IF x = m THEN new ELSE messages[x]]
      /\ UNCHANGED todo
      /\ IF MaxLength[dest] = 0 THEN NextRoute(p) ELSE Goto(p, "enforce") /\ UNCHANGED pub
  BY <1>2, <1>3, Zenon DEF PublishPut
<1>5. ListReady(a)' \subseteq ListReady(a) \cup {new}
  BY <1>4, Zenon DEF ListReady, Stored
<1>6. CASE dest # a
  <2>1. new.address # a
    BY <1>3, <1>6, Zenon DEF NewMessage
  <2>2. ListReady(a)' \subseteq ListReady(a)
    BY <1>5, <2>1, Zenon DEF ListReady
  <2>3. /\ \A q \in Clients \ {p} : pc'[q] = pc[q] /\ pub'[q] = pub[q]
        /\ p \notin Trimming(a)'
    <3>1. CASE NextRoute(p)
      BY <1>0, <3>1, RoutesMoveOn, Zenon DEF Trimming, Procs
    <3>2. CASE Goto(p, "enforce") /\ UNCHANGED pub
      BY <1>0, <1>2, <1>6, <3>2, Zenon DEF Goto, Trimming, Procs
    <3>3. QED
      BY <1>4, <3>1, <3>2, Zenon
  <2>4. QED
    BY <1>0, <1>1, <1>4, <2>2, <2>3, StepElsewhere, QuietStep, Zenon
<1>7. CASE dest = a
  <2>1. pc' = [pc EXCEPT ![p] = "enforce"] /\ UNCHANGED pub
    <3>1. MaxLength[dest] # 0
      <4>1. MaxLength[a] > 0 /\ MaxLength[a] \in Nat
        BY <1>0, Zenon DEF Limited
      <4>2. QED
        BY ONLY <1>7, <4>1
    <3>2. QED
      BY <1>4, <3>1, Zenon DEF Goto
  <2>2. Trimming(a)' = Trimming(a) \cup {p} /\ Evicting(a)' = Evicting(a)
    <3>1. /\ \A q \in Clients : pub'[q] = pub[q] /\ (q # p => pc'[q] = pc[q])
          /\ pc'[p] = "enforce" /\ Head(pub[p].routes) = a
      BY <1>0, <1>2, <1>7, <2>1, Zenon DEF Procs
    <3>2. QED
      BY ONLY <1>1, <3>1, p \in Clients, Zenon DEF Trimming, Evicting
  <2>3. IsFiniteSet(ListReady(a)') /\ IsFiniteSet(Trimming(a)')
    BY <1>5, <2>2, AddCount, SubsetCount, ZenonT(40) DEF Backlog
  <2>4. ASSUME NEW S \in SUBSET Evicting(a)'
        PROVE  Cardinality(Unmarked(a, S)') <= MaxLength[a] + Cardinality(Trimming(a)' \ S)
    <3>1. S \in SUBSET Evicting(a) /\ p \notin S
      BY <1>1, <2>2, <2>4, Zenon DEF Evicting
    <3>2. /\ Unmarked(a, S) \subseteq ListReady(a)
          /\ Unmarked(a, S)' \subseteq Unmarked(a, S) \cup {new}
      BY <1>4, <1>5, Zenon DEF Unmarked
    <3>3. IsFiniteSet(Unmarked(a, S)) /\ IsFiniteSet(Trimming(a) \ S)
      BY <3>2, SubsetCount, Zenon DEF Backlog
    <3>4. Trimming(a)' \ S = (Trimming(a) \ S) \cup {p} /\ p \notin Trimming(a) \ S
      BY <1>1, <2>2, <3>1
    <3>5. Cardinality(Unmarked(a, S) \cup {new}) <= Cardinality(Unmarked(a, S)) + 1
          /\ IsFiniteSet(Unmarked(a, S) \cup {new})
          /\ Cardinality(Trimming(a)' \ S) = Cardinality(Trimming(a) \ S) + 1
      <4>1. Cardinality(Trimming(a)' \ S) = Cardinality(Trimming(a) \ S) + 1
        BY <3>3, <3>4, AddCount, Zenon
      <4>2. /\ IsFiniteSet(Unmarked(a, S) \cup {new})
            /\ \/ Cardinality(Unmarked(a, S) \cup {new}) = Cardinality(Unmarked(a, S))
               \/ Cardinality(Unmarked(a, S) \cup {new}) = Cardinality(Unmarked(a, S)) + 1
        BY <3>3, AddCount, Zenon
      <4>3. QED
        BY <3>3, <4>1, <4>2, CountType
    <3>6. Cardinality(Unmarked(a, S)) <= MaxLength[a] + Cardinality(Trimming(a) \ S)
      BY <3>1, Zenon DEF Backlog
    <3>7. Cardinality(Unmarked(a, S) \cup {new}) <= MaxLength[a] + Cardinality(Trimming(a)' \ S)
      <4>1. Cardinality(Unmarked(a, S)) \in Nat /\ Cardinality(Trimming(a) \ S) \in Nat
            /\ Cardinality(Unmarked(a, S) \cup {new}) \in Nat
        BY <3>3, <3>5, CountType, Zenon
      <4>2. QED
        <5>1. MaxLength[a] \in Nat
          BY <1>0, Zenon
        <5>2. QED
          BY ONLY <3>5, <3>6, <4>1, <5>1
    <3>8. QED
      BY <1>0, <2>3, <3>2, <3>5, <3>7, FewerUnmarked, SubsetCount, Zenon
  <2>5. QED
    BY <2>3, <2>4, Zenon DEF Backlog
<1>8. QED
  BY <1>6, <1>7, Zenon

\* What is kept when the surplus goes is no more than MaxLength.
LEMMA SurplusGone ==
  ASSUME Counting, NEW a, MaxLength[a] \in Nat, IsFiniteSet(ListReady(a)), NEW V \in Surplus(a)
  PROVE  Cardinality(ListReady(a) \ V) <= MaxLength[a] /\ V \subseteq ListReady(a)
<1>1. V \subseteq ListReady(a) /\ IsFiniteSet(V)
  BY SubsetCount, Zenon DEF Surplus
<1>2. Cardinality(ListReady(a)) \in Nat /\ Cardinality(V) \in Nat
  BY <1>1, CountType, Zenon
<1>3. MaxLength[a] + Cardinality(V) =
        IF Cardinality(ListReady(a)) > MaxLength[a]
        THEN Cardinality(ListReady(a)) ELSE MaxLength[a]
  BY Zenon DEF Surplus
<1>4. Cardinality(ListReady(a)) <= MaxLength[a] + Cardinality(V)
  BY ONLY <1>2, <1>3, MaxLength[a] \in Nat
<1>5. Cardinality(ListReady(a) \ V) = Cardinality(ListReady(a)) - Cardinality(V)
  <2>1. V \cap ListReady(a) = V
    BY <1>1, Zenon
  <2>2. Cardinality(ListReady(a) \ V)
          = Cardinality(ListReady(a)) - Cardinality(ListReady(a) \cap V)
    BY DifferenceCount, Zenon
  <2>3. QED
    BY <1>1, <2>2, Zenon
<1>6. QED
  BY ONLY <1>1, <1>2, <1>4, <1>5, MaxLength[a] \in Nat

\* A publisher that has found the surplus of a has it on its list from then on.
LEMMA BacklogEnforce ==
  ASSUME Counting, DeliveryConstants, Typed, NEW a \in Addresses, Limited(a), Backlog(a),
         NEW p \in Clients, EnforceMaxLength(p)
  PROVE  Backlog(a)'
<1>0. /\ pc \in [Procs -> Labels] /\ pub \in [Procs -> Publication] /\ p \in Procs
      /\ todo \in [Procs -> SUBSET Message]
      /\ pub[p].routes # <<>> /\ MaxLength[a] \in Nat /\ pc[p] = "enforce"
  BY Zenon DEF EnforceMaxLength, Typed, TypeOK, LocalsOK, ProcOK, Procs, DeliveryConstants
<1>1. PICK V \in Surplus(Head(pub[p].routes)) :
        /\ todo' = [todo EXCEPT ![p] = V]
        /\ IF V = {} THEN NextRoute(p) ELSE Goto(p, "evict") /\ UNCHANGED pub
  BY Zenon DEF EnforceMaxLength
<1>2. ListReady(a)' = ListReady(a)
  <2>1. messages' = messages
    BY Zenon DEF EnforceMaxLength, store
  <2>2. QED
    BY ONLY <2>1, Zenon DEF ListReady, Stored
<1>3. \A q \in Clients \ {p} : pc'[q] = pc[q] /\ pub'[q] = pub[q] /\ todo'[q] = todo[q]
  <2>1. CASE NextRoute(p)
    BY <1>0, <1>1, <2>1, RoutesMoveOn, Zenon DEF Procs
  <2>2. CASE Goto(p, "evict") /\ UNCHANGED pub
    BY <1>0, <1>1, <2>2, Zenon DEF Goto, Procs
  <2>3. QED
    BY <1>1, <2>1, <2>2, Zenon
<1>4. CASE Head(pub[p].routes) # a
  <2>1. p \notin Trimming(a)
    BY <1>4, Zenon DEF Trimming
  <2>2. p \notin Trimming(a)'
    <3>1. CASE NextRoute(p)
      BY <1>0, <3>1, RoutesMoveOn, Zenon DEF Trimming
    <3>2. CASE UNCHANGED pub
      BY <1>4, <3>2, Zenon DEF Trimming
    <3>3. QED
      BY <1>1, <3>1, <3>2, Zenon
  <2>3. QED
    BY <1>0, <1>2, <1>3, <2>1, <2>2, StepElsewhere, QuietStep, Zenon
<1>5. CASE Head(pub[p].routes) = a
  <2>1. Cardinality(ListReady(a) \ V) <= MaxLength[a] /\ V \subseteq ListReady(a)
    BY <1>0, <1>1, <1>5, SurplusGone, Zenon DEF Backlog
  <2>2. Trimming(a)' \subseteq Trimming(a)
    BY <1>0, <1>3, <1>5, Zenon DEF Trimming
  <2>3. IsFiniteSet(ListReady(a)') /\ IsFiniteSet(Trimming(a)')
    BY <1>2, <2>2, SubsetCount, Zenon DEF Backlog
  <2>4. ASSUME NEW S \in SUBSET Evicting(a)', p \in S \/ V = {}
        PROVE  Cardinality(Unmarked(a, S)') <= MaxLength[a] + Cardinality(Trimming(a)' \ S)
    <3>1. Unmarked(a, S)' \subseteq ListReady(a) \ V
      BY <1>0, <1>1, <1>2, <2>4, Zenon DEF Unmarked
    <3>2. IsFiniteSet(ListReady(a) \ V) /\ IsFiniteSet(Trimming(a)' \ S)
      BY <2>3, SubsetCount, Zenon DEF Backlog
    <3>3. Cardinality(ListReady(a) \ V) <= MaxLength[a] + Cardinality(Trimming(a)' \ S)
      <4>1. Cardinality(ListReady(a) \ V) \in Nat /\ Cardinality(Trimming(a)' \ S) \in Nat
        BY <3>2, CountType, Zenon
      <4>2. Cardinality(ListReady(a) \ V) <= MaxLength[a] /\ MaxLength[a] \in Nat
        BY <1>0, <2>1, Zenon
      <4>3. QED
        BY ONLY <4>1, <4>2
    <3>4. QED
      BY <1>0, <3>1, <3>2, <3>3, FewerUnmarked, Zenon
  <2>5. ASSUME NEW S \in SUBSET Evicting(a)', p \notin S, V # {}
        PROVE  Cardinality(Unmarked(a, S)') <= MaxLength[a] + Cardinality(Trimming(a)' \ S)
    <3>1. pc' = [pc EXCEPT ![p] = "evict"] /\ UNCHANGED pub
      BY <1>1, <2>5, Zenon DEF Goto
    <3>2. Trimming(a)' = Trimming(a)
      BY <1>0, <3>1, Zenon DEF Trimming, Procs
    <3>3. S \in SUBSET Evicting(a)
      BY <1>3, <2>5, <3>2, Zenon DEF Evicting, Trimming
    <3>4. Unmarked(a, S)' = Unmarked(a, S)
      BY <1>2, <1>3, <2>5, <3>3, Zenon DEF Unmarked, Evicting, Trimming
    <3>5. QED
      BY <3>2, <3>3, <3>4, Zenon DEF Backlog
  <2>6. QED
    BY <2>3, <2>4, <2>5, Zenon DEF Backlog
<1>6. QED
  BY <1>4, <1>5, Zenon

\* A publisher that evicts its last victim has nothing on its list any more,
\* and is no longer counted.
LEMMA BacklogEvict ==
  ASSUME Counting, DeliveryConstants, Typed, NEW a \in Addresses, Limited(a), Backlog(a),
         NEW p \in Clients, Evict(p)
  PROVE  Backlog(a)'
<1>0. /\ pc \in [Procs -> Labels] /\ pub \in [Procs -> Publication] /\ p \in Procs
      /\ todo \in [Procs -> SUBSET Message] /\ paused \in [Addresses -> BOOLEAN]
      /\ pub[p].routes # <<>> /\ MaxLength[a] \in Nat /\ pc[p] = "evict" /\ StoreOK
  BY Zenon DEF Evict, Typed, TypeOK, LocalsOK, ProcOK, Procs, DeliveryConstants, StoreOK
<1>1. PICK r \in todo[p] :
        /\ Update(Dead(r, "max-length"))
        /\ todo' = [todo EXCEPT ![p] = @ \ {r}]
        /\ IF todo[p] = {r} THEN NextRoute(p) ELSE UNCHANGED <<pc, pub>>
  BY Zenon DEF Evict, Lasts
<1>2. ListReady(a)' \subseteq {x \in ListReady(a) : x.id # r.id}
  <2>1. r \in Message /\ "max-length" \in Reasons
    BY <1>0, Zenon DEF Reasons
  <2>2. QED
    BY <1>0, <1>1, <2>1, DeadElsewhere, Zenon
<1>3. \A q \in Clients \ {p} : pc'[q] = pc[q] /\ pub'[q] = pub[q] /\ todo'[q] = todo[q]
  <2>1. CASE NextRoute(p)
    BY <1>0, <1>1, <2>1, RoutesMoveOn, Zenon DEF Procs
  <2>2. CASE UNCHANGED <<pc, pub>>
    BY <1>0, <1>1, <2>2, Zenon DEF Procs
  <2>3. QED
    BY <1>1, <2>1, <2>2, Zenon
<1>4. CASE Head(pub[p].routes) # a
  <2>1. p \notin Trimming(a)
    BY <1>4, Zenon DEF Trimming
  <2>2. p \notin Trimming(a)'
    <3>1. CASE NextRoute(p)
      BY <1>0, <3>1, RoutesMoveOn, Zenon DEF Trimming
    <3>2. CASE UNCHANGED pub
      BY <1>4, <3>2, Zenon DEF Trimming
    <3>3. QED
      BY <1>1, <3>1, <3>2, Zenon
  <2>3. QED
    BY <1>0, <1>2, <1>3, <2>1, <2>2, StepElsewhere, QuietStep, Zenon
<1>5. CASE Head(pub[p].routes) = a
  <2>0. p \in Evicting(a)
    BY <1>0, <1>5, Zenon DEF Evicting, Trimming
  <2>1. Trimming(a)' \subseteq Trimming(a) /\ Evicting(a)' \subseteq Evicting(a)
    BY <1>0, <1>3, <2>0, Zenon DEF Trimming, Evicting
  <2>2. IsFiniteSet(ListReady(a)') /\ IsFiniteSet(Trimming(a)')
    BY <1>2, <2>1, SubsetCount, Zenon DEF Backlog
  <2>3. ASSUME NEW S \in SUBSET Evicting(a)', todo[p] = {r}
        PROVE  Cardinality(Unmarked(a, S)') <= MaxLength[a] + Cardinality(Trimming(a)' \ S)
    <3>1. pc'[p] \in {"idle", "put"}
      BY <1>0, <1>1, <2>3, RoutesMoveOn, Zenon
    <3>2. Trimming(a)' = Trimming(a) \ {p}
      BY <1>3, <3>1, Zenon DEF Trimming
    <3>3. p \notin S /\ S \cup {p} \in SUBSET Evicting(a)
      BY <2>0, <2>1, <2>3, <3>1, Zenon DEF Evicting
    <3>4. /\ Unmarked(a, S \cup {p}) \subseteq ListReady(a)
          /\ Unmarked(a, S)' \subseteq Unmarked(a, S \cup {p})
      <4>1. \A q \in S : todo'[q] = todo[q]
        BY <1>3, <2>1, <2>3, <3>3, Zenon DEF Evicting, Trimming
      <4>2. QED
        BY <1>2, <2>3, <4>1, Zenon DEF Unmarked
    <3>5. Trimming(a)' \ S = Trimming(a) \ (S \cup {p})
      BY <3>2, Zenon
    <3>6. IsFiniteSet(Unmarked(a, S \cup {p})) /\ IsFiniteSet(Trimming(a)' \ S)
      BY <2>2, <3>4, SubsetCount, Zenon DEF Backlog
    <3>7. Cardinality(Unmarked(a, S \cup {p})) <= MaxLength[a] + Cardinality(Trimming(a)' \ S)
      BY <3>3, <3>5, Zenon DEF Backlog
    <3>8. QED
      BY <1>0, <3>4, <3>6, <3>7, FewerUnmarked, Zenon
  <2>4. ASSUME NEW S \in SUBSET Evicting(a)', todo[p] # {r}
        PROVE  Cardinality(Unmarked(a, S)') <= MaxLength[a] + Cardinality(Trimming(a)' \ S)
    <3>1. UNCHANGED <<pc, pub>>
      BY <1>1, <2>4, Zenon
    <3>2. Trimming(a)' = Trimming(a) /\ S \in SUBSET Evicting(a)
      BY <2>1, <2>4, <3>1, Zenon DEF Trimming
    <3>3. /\ Unmarked(a, S) \subseteq ListReady(a)
          /\ Unmarked(a, S)' \subseteq Unmarked(a, S)
      <4>1. \A q \in S : todo[q] \subseteq todo'[q] \cup {r}
        <5>1. todo'[p] = todo[p] \ {r}
          BY <1>0, <1>1, Zenon
        <5>2. \A q \in S : q = p \/ todo'[q] = todo[q]
          BY <1>3, <3>2, Zenon DEF Evicting, Trimming
        <5>3. QED
          BY ONLY <5>1, <5>2, Zenon
      <4>2. QED
        BY <1>2, <4>1, Zenon DEF Unmarked
    <3>4. IsFiniteSet(Unmarked(a, S)) /\ IsFiniteSet(Trimming(a)' \ S)
      BY <2>2, <3>3, SubsetCount, Zenon DEF Backlog
    <3>5. Cardinality(Unmarked(a, S)) <= MaxLength[a] + Cardinality(Trimming(a)' \ S)
      BY <3>2, Zenon DEF Backlog
    <3>6. QED
      BY <1>0, <3>3, <3>4, <3>5, FewerUnmarked, Zenon
  <2>5. QED
    BY <2>2, <2>3, <2>4, Zenon DEF Backlog
<1>6. QED
  BY <1>4, <1>5, Zenon

\* Every other step is quiet where nothing is replayed and nothing cancelled.
LEMMA BacklogQuiet ==
  ASSUME DeliveryConstants, Typed, Limits = {}, ~Cancels, [Next]_vars,
         \A p \in Clients : pc[p] # "replay",
         ~ \E p \in Clients : \/ \E m \in Msgs : PublishPut(p, m)
                              \/ EnforceMaxLength(p)
                              \/ Evict(p),
         NEW a \in Addresses, Limited(a)
  PROVE  Quiet(a)
<1>0. /\ pc \in [Procs -> Labels] /\ pub \in [Procs -> Publication]
      /\ todo \in [Procs -> SUBSET Message] /\ paused \in [Addresses -> BOOLEAN]
      /\ Clients \subseteq Procs /\ Worker \in Procs /\ Worker \notin Clients /\ StoreOK
      /\ "ttl-expired" \in Reasons
  BY Zenon DEF Typed, TypeOK, Procs, DeliveryConstants, StoreOK, Reasons
<1>1. ASSUME UNCHANGED messages
      PROVE  ListReady(a)' \subseteq ListReady(a)
  BY <1>1, Zenon DEF ListReady, Stored
<1>2. ASSUME NEW p \in Procs, NEW r \in todo[p], Update(Dead(r, "ttl-expired"))
      PROVE  ListReady(a)' \subseteq ListReady(a)
  BY <1>0, <1>2, DeadElsewhere, Zenon
<1>3. ASSUME UNCHANGED <<pc, pub, todo>>, ListReady(a)' \subseteq ListReady(a)
      PROVE  Quiet(a)
  BY <1>3, Zenon DEF Quiet, Trimming, Evicting
<1>4. ASSUME NEW p \in Procs, UNCHANGED pub, NEW l, NEW T,
             pc' = [pc EXCEPT ![p] = l], todo' = [todo EXCEPT ![p] = T],
             p \in Clients => pc[p] \notin {"enforce", "evict"} /\ l \notin {"enforce", "evict"},
             ListReady(a)' \subseteq ListReady(a)
      PROVE  Quiet(a)
  <2>1. \A q \in Clients \ {p} : pc'[q] = pc[q] /\ pub'[q] = pub[q] /\ todo'[q] = todo[q]
    BY <1>0, <1>4, Zenon
  <2>2. p \notin Trimming(a) /\ p \notin Trimming(a)'
    BY <1>0, <1>4, Zenon DEF Trimming
  <2>3. QED
    BY ONLY <1>4, <2>1, <2>2, StepElsewhere, Zenon
<1>5. ASSUME NEW p \in Clients, NEW in \in Publications, Publish(p, in)
      PROVE  Quiet(a)
  <2>1. /\ \A q \in Clients \ {p} : pc'[q] = pc[q] /\ pub'[q] = pub[q] /\ todo'[q] = todo[q]
        /\ pc[p] = "idle" /\ pc'[p] = "put" /\ UNCHANGED messages
    BY <1>0, <1>5, Zenon DEF Publish, Goto, store
  <2>2. QED
    BY <1>1, <2>1, StepElsewhere, Zenon DEF Trimming
<1>6. ASSUME NEW p \in Clients, NEW c \in Consumers, Acquire(p, c)
      PROVE  Quiet(a)
  BY <1>0, <1>1, <1>4, <1>6, Zenon DEF Acquire, Goto, store
<1>7. ASSUME NEW p \in Clients, NEW c \in Consumers, NEW id \in 1..deliverySeq,
             NEW o \in {"accepted", "released", "rejected"}, Settle(p, c, id, o)
      PROVE  Quiet(a)
  BY <1>1, <1>3, <1>7, Zenon DEF Settle, Typed, NothingUnsettled, locals
<1>8. ASSUME NEW p \in Clients, NEW c \in Consumers, Disconnect(p, c)
      PROVE  Quiet(a)
  <2>1. {u.msg : u \in consumers[c].unsettled} = {}
    BY <1>8, Zenon DEF Disconnect, Typed, NothingUnsettled
  <2>2. messages' = [m \in DOMAIN messages |-> messages[m]]
    BY <1>8, <2>1, Zenon DEF Disconnect
  <2>3. messages' = messages
    BY <1>0, <2>2, Zenon DEF StoreOK
  <2>4. UNCHANGED <<pc, pub, todo>>
    BY <1>8, Zenon DEF Disconnect, locals
  <2>5. QED
    BY <1>1, <1>3, <2>3, <2>4, Zenon
<1>9. ASSUME NEW p \in Clients, AcquireExpired(p)
      PROVE  Quiet(a)
  <2>1. PICK r \in todo[p] : Update(Dead(r, "ttl-expired"))
    BY <1>9, Zenon DEF AcquireExpired
  <2>2. QED
    BY <1>0, <1>2, <1>4, <1>9, <2>1, Zenon DEF AcquireExpired, Unlock, Goto
<1>10. ASSUME NEW p \in Clients, AcquireUpdate(p)
       PROVE  Quiet(a)
  <2>1. PICK r \in todo[p] :
          \/ /\ Update(Taken(r, sub[p].record.semantics))
             /\ pc' = [pc EXCEPT ![p] = "save"]
             /\ UNCHANGED todo
          \/ Unlock(p) /\ UNCHANGED messages
    BY <1>10, Zenon DEF AcquireUpdate, Goto
  <2>2. pc[p] = "acquire" /\ UNCHANGED pub /\ sub[p].record.semantics \in Semantics
    BY <1>0, <1>10, Zenon DEF AcquireUpdate, Typed, LocalsOK, ProcOK, Inside, Consumer
  <2>3. CASE /\ Update(Taken(r, sub[p].record.semantics))
             /\ pc' = [pc EXCEPT ![p] = "save"]
             /\ UNCHANGED todo
    <3>1. /\ Taken(r, sub[p].record.semantics) \in Message
          /\ Taken(r, sub[p].record.semantics).state # "available"
      <4>1. Taken(r, sub[p].record.semantics) \in Message
        BY <1>0, <2>2, TakenRecord, Zenon
      <4>2. r \in Message
        BY <1>0, Zenon
      <4>3. QED
        BY <4>1, <4>2, Zenon DEF Taken, Message
    <3>2. ListReady(a)' \subseteq ListReady(a)
      BY <1>0, <2>3, <3>1, WriteElsewhere, Zenon
    <3>3. todo' = [todo EXCEPT ![p] = todo[p]]
      BY <1>0, <2>3, Zenon
    <3>4. QED
      BY <1>0, <1>4, <2>2, <2>3, <3>2, <3>3, Zenon
  <2>4. CASE Unlock(p) /\ UNCHANGED messages
    BY <1>0, <1>1, <1>4, <2>2, <2>4, Zenon DEF Unlock, Goto
  <2>5. QED
    BY <2>1, <2>3, <2>4, Zenon
<1>11. ASSUME NEW p \in Clients, AcquireSave(p)
       PROVE  Quiet(a)
  BY <1>0, <1>1, <1>4, <1>11, Zenon DEF AcquireSave, Unlock, Goto
<1>12. CASE SweepExpired
  BY <1>0, <1>1, <1>4, <1>12, Zenon DEF SweepExpired, Goto, store
<1>13. CASE SweepOne
  <2>1. PICK r \in todo[Worker] :
          /\ UNCHANGED messages \/ Update(Dead(r, "ttl-expired"))
          /\ todo' = [todo EXCEPT ![Worker] = todo[Worker] \ {r}]
    BY <1>13, Zenon DEF SweepOne
  <2>2. ListReady(a)' \subseteq ListReady(a)
    BY <1>0, <1>1, <1>2, <2>1, Zenon
  <2>3. UNCHANGED <<pc, pub>>
    BY <1>13, Zenon DEF SweepOne
  <2>4. pc' = [pc EXCEPT ![Worker] = pc[Worker]]
    BY <1>0, <2>3, Zenon
  <2>5. QED
    BY <1>0, <1>4, <2>1, <2>2, <2>3, <2>4, Zenon
<1>14. CASE SweepDone
  <2>1. /\ pc' = [pc EXCEPT ![Worker] = "idle"] /\ UNCHANGED <<messages, pub, todo>>
    BY <1>14, Zenon DEF SweepDone, Goto, store
  <2>2. todo' = [todo EXCEPT ![Worker] = todo[Worker]]
    BY <1>0, <2>1, Zenon
  <2>3. QED
    BY <1>0, <1>1, <1>4, <2>1, <2>2, Zenon
<1>15. CASE \/ \E p \in Clients, c \in Consumers, in \in Registrations : Register(p, c, in)
            \/ \E b \in Pausable : Pause(b)
            \/ Tick
            \/ UNCHANGED vars
  <2>1. UNCHANGED <<messages, pc, pub, todo>>
    BY <1>15, Zenon DEF Register, Pause, Tick, vars, store, locals
  <2>2. QED
    BY <1>1, <1>3, <2>1, Zenon
<1>16. \A p \in Clients : ~ReplayOne(p) /\ ~Cancel(p) /\ \A n \in Limits : ~ReplayDead(p, n)
  BY Zenon DEF ReplayOne, Cancel
<1>17. QED
  <2>1. ASSUME NEW p \in Clients, Request(p)
        PROVE  Quiet(a)
    BY ONLY <1>5, <1>6, <1>7, <1>8, <1>15, <1>16, <2>1, Zenon DEF Request
  <2>2. ASSUME NEW p \in Clients, Proceed(p)
        PROVE  Quiet(a)
    BY <1>9, <1>10, <1>11, <1>16, <2>2, Zenon DEF Proceed
  <2>3. QED
    BY <1>12, <1>13, <1>14, <1>15, <1>16, <2>1, <2>2, Zenon DEF Next, Sweep

\* Nobody replays, and every limited address keeps its bound.
BacklogInv ==
  /\ \A p \in Clients : pc[p] # "replay"
  /\ \A a \in Addresses : Limited(a) => Backlog(a)

\* Only a replay request makes a goroutine replay.
LEMMA NobodyReplays ==
  ASSUME DeliveryConstants, Typed, Limits = {}, [Next]_vars,
         NEW q \in Clients, pc[q] # "replay"
  PROVE  pc'[q] # "replay"
<1>0. pc \in [Procs -> Labels] /\ Clients \subseteq Procs /\ Worker \in Procs
      /\ Worker \notin Clients
  BY Zenon DEF Typed, TypeOK, Procs, DeliveryConstants
<1>1. ASSUME NEW p \in Procs, NEW l, pc' = [pc EXCEPT ![p] = l], l # "replay"
      PROVE  pc'[q] # "replay"
  BY <1>0, <1>1, Zenon
<1>2. ASSUME NEW p \in Clients, Request(p)
      PROVE  pc'[q] # "replay"
  BY <1>0, <1>1, <1>2, ZenonT(40)
     DEF Request, Publish, Register, Acquire, Disconnect, Settle, Goto, locals
<1>3. ASSUME NEW p \in Clients, NextRoute(p)
      PROVE  pc'[q] # "replay"
  BY <1>0, <1>1, <1>3, Zenon DEF NextRoute, Goto
<1>4. ASSUME NEW p \in Clients, Proceed(p)
      PROVE  pc'[q] # "replay"
  BY <1>0, <1>1, <1>3, <1>4, Zenon
     DEF Proceed, PublishPut, EnforceMaxLength, Evict, AcquireExpired, AcquireUpdate,
         AcquireSave, ReplayOne, Unlock, Goto
<1>5. ASSUME NEW p \in Clients, Cancel(p)
      PROVE  pc'[q] # "replay"
  BY <1>0, <1>1, <1>5, ZenonT(40) DEF Cancel, Goto
<1>6. CASE Sweep
  BY <1>0, <1>1, <1>6, ZenonT(40) DEF Sweep, SweepExpired, SweepOne, SweepDone, Goto
<1>7. QED
  BY <1>2, <1>4, <1>5, <1>6, Zenon DEF Next, Pause, Tick, vars, locals

\* Every step preserves the invariant of the backlog.
LEMMA BacklogInvNext ==
  ASSUME Counting, DeliveryConstants, Typed, Limits = {}, ~Cancels, BacklogInv, [Next]_vars
  PROVE  BacklogInv'
<1>1. \A p \in Clients : pc'[p] # "replay"
  BY NobodyReplays, Zenon DEF BacklogInv
<1>2. ASSUME NEW a \in Addresses, Limited(a)
      PROVE  Backlog(a)'
  <2>0. Backlog(a) /\ MaxLength[a] \in Nat
    BY <1>2, Zenon DEF BacklogInv, DeliveryConstants
  <2>1. CASE \E p \in Clients, m \in Msgs : PublishPut(p, m)
    BY <1>2, <2>0, <2>1, BacklogPut, Zenon
  <2>2. CASE \E p \in Clients : EnforceMaxLength(p)
    BY <1>2, <2>0, <2>2, BacklogEnforce, Zenon
  <2>3. CASE \E p \in Clients : Evict(p)
    BY <1>2, <2>0, <2>3, BacklogEvict, Zenon
  <2>4. CASE ~ \E p \in Clients : \/ \E m \in Msgs : PublishPut(p, m)
                                  \/ EnforceMaxLength(p)
                                  \/ Evict(p)
    <3>1. Quiet(a)
      BY <1>2, <2>4, BacklogQuiet, Zenon DEF BacklogInv
    <3>2. QED
      BY ONLY Counting, <2>0, <3>1, QuietStep, Zenon
  <2>5. QED
    BY <2>1, <2>2, <2>3, <2>4, Zenon
<1>3. QED
  BY <1>1, <1>2, Zenon DEF BacklogInv, Limited

INSTANCE FiniteSetTheorems

\* Finite sets are counted as the proofs above assume.
LEMMA FiniteSetsCount == Counting
<1>1. IsFiniteSet({}) /\ Cardinality({}) = 0
  BY FS_EmptySet, Zenon
<1>2. \A S : IsFiniteSet(S) => Cardinality(S) \in Nat
  BY FS_CardinalityType, Zenon
<1>3. \A S : IsFiniteSet(S) =>
        \A T \in SUBSET S : IsFiniteSet(T) /\ Cardinality(T) <= Cardinality(S)
  BY FS_Subset, Zenon
<1>4. \A S, x : IsFiniteSet(S) =>
        /\ IsFiniteSet(S \cup {x})
        /\ Cardinality(S \cup {x}) = IF x \in S THEN Cardinality(S) ELSE Cardinality(S) + 1
  BY FS_AddElement, Zenon
<1>5. \A S, T : IsFiniteSet(S) => Cardinality(S \ T) = Cardinality(S) - Cardinality(S \cap T)
  BY FS_Difference, Zenon
<1>6. QED
  BY <1>1, <1>2, <1>3, <1>4, <1>5, ZenonT(40) DEF Counting

\* Where nothing is replayed and no request is cancelled half way, the ready
\* backlog of a limited address that is no dead-letter destination exceeds
\* MaxLength by no more than the publishers that have still to trim it,
\* however many of them work on stale snapshots at once.
THEOREM BacklogNearLimit ==
  ASSUME Limits = {}, ~Cancels
  PROVE  Spec => []BacklogBounded
<1>1. Init => BacklogInv
  <2> SUFFICES ASSUME Init PROVE BacklogInv
    BY Zenon
  <2>1. \A p \in Clients : pc[p] = "idle"
    BY Zenon DEF Init, Procs
  <2>2. \A a \in Addresses : ListReady(a) = {} /\ Trimming(a) = {}
    BY <2>1 DEF Init, ListReady, Stored, Trimming
  <2>3. ASSUME NEW a \in Addresses
        PROVE  Backlog(a)
    <3>1. \A S \in SUBSET Evicting(a) : Unmarked(a, S) = {} /\ Trimming(a) \ S = {}
      BY <2>2, Zenon DEF Unmarked
    <3>2. IsFiniteSet({}) /\ Cardinality({}) = 0 /\ MaxLength[a] \in Nat
      BY DeliveryConstants, FiniteSetsCount, ZenonT(40) DEF DeliveryConstants, Counting
    <3>3. ASSUME NEW S \in SUBSET Evicting(a)
          PROVE  Cardinality(Unmarked(a, S)) <= MaxLength[a] + Cardinality(Trimming(a) \ S)
      <4>1. Cardinality(Unmarked(a, S)) = 0 /\ Cardinality(Trimming(a) \ S) = 0
        BY <3>1, <3>2, ZenonT(40)
      <4>2. QED
        BY <3>2, <4>1
    <3>4. QED
      BY <2>2, <3>2, <3>3, ZenonT(40) DEF Backlog
  <2>4. QED
    BY <2>1, <2>3, ZenonT(40) DEF BacklogInv
<1>2. Typed /\ BacklogInv /\ [Next]_vars => BacklogInv'
  BY DeliveryConstants, FiniteSetsCount, BacklogInvNext, ZenonT(40)
<1>3. BacklogInv => BacklogBounded
  <2> SUFFICES ASSUME BacklogInv, NEW a \in Addresses, Limited(a)
               PROVE  Cardinality(ListReady(a)) <= MaxLength[a] + Cardinality(Trimming(a))
    BY Zenon DEF BacklogBounded, Limited
  <2>1. Backlog(a)
    BY Zenon DEF BacklogInv
  <2>2. Unmarked(a, {}) = ListReady(a) /\ Trimming(a) \ {} = Trimming(a)
    BY Zenon DEF Unmarked
  <2>3. {} \in SUBSET Evicting(a)
    BY Zenon
  <2>4. Cardinality(Unmarked(a, {})) <= MaxLength[a] + Cardinality(Trimming(a) \ {})
    BY <2>1, <2>3, Zenon DEF Backlog
  <2>5. QED
    BY <2>2, <2>4, ZenonT(40)
<1>4. QED
  BY <1>1, <1>2, <1>3, TypedAlways, PTL DEF Spec
=============================================================================
