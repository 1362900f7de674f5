------------------------------ MODULE Delivery ------------------------------
(***************************************************************************)
(* The delivery service (internal/delivery/application/service.go) over    *)
(* the in-memory metadata store (internal/storage/infrastructure).         *)
(*                                                                         *)
(* Every repository call is one atomic step, because the store's lock is   *)
(* taken per call.  Acquire, Settle and Disconnect hold Service.mu from    *)
(* their first to their last step.  Publish, ReplayDead and SweepExpired   *)
(* do not: they read a snapshot of message records and write whole records *)
(* back one by one, so their writes interleave with everything else.       *)
(*                                                                         *)
(* Addresses are created before the behaviour starts and, as in the        *)
(* program, never deleted.  Routes[a] is what Router.Resolve returns for   *)
(* a publish to a.  Body bytes live in the body log, a module of its own.  *)
(***************************************************************************)
EXTENDS Naturals, Sequences, FiniteSets

CONSTANTS
  Msgs,        \* message ids randomID may produce (bounds the publishes)
  Addresses,   \* the created addresses
  Consumers,   \* consumer ids
  Clients,     \* goroutines that serve management and AMQP requests
  Worker,      \* the sweep goroutine of internal/worker
  None,        \* the empty string: no address, and no holder of Service.mu
  DeadLetter,  \* Address.DeadLetter, None when not configured
  MaxLength,   \* Address.MaxLength, 0 when unlimited
  DefaultTTL,  \* Address.DefaultTTL, 0 when not configured
  Routes,      \* destinations of a publish to each address
  Publications,  \* the publish requests: address, TTL (0: not given), priority
  Registrations, \* the consumer registrations: address, prefetch, semantics
  Limits,      \* limit of the replay requests, 0 for no limit
  Pausable,    \* addresses an operator pauses and resumes
  Cancels,     \* whether requests may be cancelled half way
  MaxTime,     \* bound on the clock
  MaxSeq       \* bound on deliverySeq

Procs     == Clients \cup {Worker}
Semantics == {"at-most-once", "at-least-once"}

ASSUME DeliveryConstants ==
  /\ None \notin Addresses \cup Procs
  /\ Worker \notin Clients
  /\ DeadLetter \in [Addresses -> Addresses \cup {None}]
  /\ MaxLength \in [Addresses -> Nat]
  /\ DefaultTTL \in [Addresses -> Nat]
  /\ Routes \in [Addresses -> Seq(Addresses)]
  /\ Publications \subseteq [address : Addresses, ttl : Nat, priority : 0..9]
  /\ Registrations \subseteq
       [address : Addresses, prefetch : Nat, semantics : Semantics]
  /\ Limits \subseteq Nat
  /\ Pausable \subseteq Addresses
  /\ Cancels \in BOOLEAN
  /\ MaxTime \in Nat
  /\ MaxSeq \in Nat

VARIABLES
  now,         \* the clock; 0 is the zero time.Time, which no clock shows
  paused,      \* Address.Paused
  messages,    \* Memory.messages
  consumers,   \* Memory.consumers
  deliverySeq, \* Service.deliverySeq
  mu,          \* the holder of Service.mu
  pc,          \* where each goroutine is
  pub,         \* the request of the Publish a goroutine is serving
  sub,         \* the consumer record the Acquire in progress has read
  todo,        \* the snapshot records a goroutine has still to write back
  home,        \* history: the destination each message was routed to
  handed,      \* history: the deliveries returned to callers of Acquire
  settled,     \* history: delivery ids a caller of Settle was told are settled
  returned     \* history: ids of deliveries consumers gave back

store   == <<paused, messages, consumers, deliverySeq>>
locals  == <<mu, pc, pub, sub, todo>>
history == <<home, handed, settled, returned>>
vars    == <<now, store, locals, history>>

-----------------------------------------------------------------------------
(* Messages, consumers and the queries of the store.                       *)

States    == {"available", "acquired", "accepted", "released", "dead-lettered"}
Reasons   == {"none", "ttl-expired", "max-length", "rejected"}

\* reason and origin are the headers x-death-reason and x-original-address.
Message ==
  [id : Msgs, address : Addresses, state : States, expiresAt : Nat,
   createdAt : Nat, priority : 0..9, count : Nat, redelivered : BOOLEAN,
   reason : Reasons, origin : Addresses \cup {None}]

\* Unsettled maps delivery ids to messages; here it is a set of records.
Consumer ==
  [address : Addresses, prefetch : Nat, credit : Nat,
   unsettled : SUBSET [id : Nat, msg : Msgs], semantics : Semantics, connected : BOOLEAN]

Publication == [ttl : Nat, priority : 0..9, routes : Seq(Addresses)]

NoPublication == [ttl |-> 0, priority |-> 0, routes |-> <<>>]
NoConsumer    == [id |-> None, record |-> None]

Stored == {messages[m] : m \in DOMAIN messages}

\* Message.Expired: the zero ExpiresAt, "no expiry given", counts as expired.
Expired(r) == r.expiresAt = 0 \/ now > r.expiresAt

ListReady(a) == {r \in Stored : r.address = a /\ r.state = "available"}

\* The sort order of ListReady; records it leaves unordered come in any order.
Before(r, s) ==
  \/ r.priority > s.priority
  \/ r.priority = s.priority /\ r.createdAt < s.createdAt

Firsts(S) == {r \in S : \A s \in S : ~Before(s, r)}
Lasts(S)  == {r \in S : \A s \in S : ~Before(r, s)}

NewMessage(m, a, p) ==
  [id |-> m, address |-> a, state |-> "available",
   expiresAt |-> IF p.ttl > 0 THEN now + p.ttl ELSE 0,
   createdAt |-> now, priority |-> p.priority, count |-> 0,
   redelivered |-> FALSE, reason |-> "none", origin |-> None]

\* Mutation: the configured dead-letter name is used without asking whether
\* there is one.
DeadUnchecked(r, why) ==
  [r EXCEPT !.reason = why, !.origin = r.address, !.state = "available",
            !.address = DeadLetter[r.address], !.expiresAt = 0]

\* Mutation: the dead-lettered record keeps its expiry.
DeadKeepsExpiry(r, why) ==
  LET dead == [r EXCEPT !.reason = why, !.origin = r.address,
                        !.state = "dead-lettered"]
      dl   == DeadLetter[r.address]
  IN  IF dl # None /\ ~paused[dl]
      THEN [dead EXCEPT !.address = dl, !.state = "available"]
      ELSE dead

\* The record deadLetter writes for its, possibly stale, argument.
Dead(r, why) ==
  LET dead == [r EXCEPT !.reason = why, !.origin = r.address,
                        !.state = "dead-lettered"]
      dl   == DeadLetter[r.address]
  IN  IF dl # None /\ ~paused[dl]
      THEN [dead EXCEPT !.address = dl, !.state = "available", !.expiresAt = 0]
      ELSE dead

\* Memory.Update overwrites the whole record; it compares no version.
Update(r) == messages' = [messages EXCEPT ![r.id] = r]

Goto(p, label) == pc' = [pc EXCEPT ![p] = label]

-----------------------------------------------------------------------------
(* Publish and enforceMaxLength, without Service.mu.                       *)

Publish(p, in) ==
  /\ pc[p] = "idle"
  /\ ~paused[in.address]
  /\ Routes[in.address] # <<>>
  /\ pub' = [pub EXCEPT ![p] =
               [ttl |-> IF in.ttl = 0 THEN DefaultTTL[in.address] ELSE in.ttl,
                priority |-> in.priority, routes |-> Routes[in.address]]]
  /\ Goto(p, "put")
  /\ UNCHANGED <<now, store, mu, sub, todo, history>>

\* The loop of Publish moves on to the next route, or Publish returns.
NextRoute(p) ==
  LET rest == Tail(pub[p].routes)
  IN  /\ pub' = [pub EXCEPT ![p] = IF rest = <<>> THEN NoPublication
                                   ELSE [pub[p] EXCEPT !.routes = rest]]
      /\ Goto(p, IF rest = <<>> THEN "idle" ELSE "put")

PublishPut(p, m) ==
  /\ pc[p] = "put"
  /\ m \notin DOMAIN messages
  /\ LET dest == Head(pub[p].routes)
     IN  /\ messages' = [x \in DOMAIN messages \cup {m} |->
                           IF x = m THEN NewMessage(m, dest, pub[p])
                                    ELSE messages[x]]
         /\ home' = [x \in DOMAIN home \cup {m} |->
                       IF x = m THEN dest ELSE home[x]]
         /\ IF MaxLength[dest] = 0
            THEN NextRoute(p)
            ELSE Goto(p, "enforce") /\ UNCHANGED pub
  /\ UNCHANGED <<now, paused, consumers, deliverySeq, mu, sub, todo,
                 handed, settled, returned>>

\* Mutation: one victim per publish, an if in place of the for.
SurplusOne(a) ==
  IF Cardinality(ListReady(a)) > MaxLength[a]
  THEN {{r} : r \in Lasts(ListReady(a))} ELSE {{}}

\* enforceMaxLength reads the ready records and keeps the surplus, which is at
\* the end of the list, to evict.
Surplus(a) ==
  {V \in SUBSET ListReady(a) :
     /\ MaxLength[a] + Cardinality(V) =
          IF Cardinality(ListReady(a)) > MaxLength[a]
          THEN Cardinality(ListReady(a)) ELSE MaxLength[a]
     /\ \A v \in V, r \in ListReady(a) \ V : ~Before(v, r)}

EnforceMaxLength(p) ==
  /\ pc[p] = "enforce"
  /\ \E V \in Surplus(Head(pub[p].routes)) :
       /\ todo' = [todo EXCEPT ![p] = V]
       /\ IF V = {} THEN NextRoute(p)
                    ELSE Goto(p, "evict") /\ UNCHANGED pub
  /\ UNCHANGED <<now, store, mu, sub, history>>

Evict(p) ==
  /\ pc[p] = "evict"
  /\ \E r \in Lasts(todo[p]) :
       /\ Update(Dead(r, "max-length"))
       /\ todo' = [todo EXCEPT ![p] = @ \ {r}]
       /\ IF todo[p] = {r} THEN NextRoute(p) ELSE UNCHANGED <<pc, pub>>
  /\ UNCHANGED <<now, paused, consumers, deliverySeq, mu, sub, history>>

-----------------------------------------------------------------------------
(* Consumers: Register without Service.mu, the rest under it.              *)

NewConsumer(in) ==
  LET n == IF in.prefetch = 0 THEN 1 ELSE in.prefetch
  IN  [address |-> in.address, prefetch |-> n, credit |-> n, unsettled |-> {},
       semantics |-> in.semantics, connected |-> TRUE]

SaveConsumer(c, r) ==
  consumers' = [x \in DOMAIN consumers \cup {c} |->
                  IF x = c THEN r ELSE consumers[x]]

Register(p, c, in) ==
  /\ pc[p] = "idle"
  /\ SaveConsumer(c, NewConsumer(in))
  /\ UNCHANGED <<now, paused, messages, deliverySeq, locals, history>>

\* Mutation: Acquire without Service.mu.
AcquireUnlocked(p, c) ==
  /\ pc[p] = "idle"
  /\ c \in DOMAIN consumers
  /\ consumers[c].credit # 0
  /\ deliverySeq < MaxSeq
  /\ \E r \in Firsts(ListReady(consumers[c].address)) :
       todo' = [todo EXCEPT ![p] = {r}]
  /\ sub' = [sub EXCEPT ![p] = [id |-> c, record |-> consumers[c]]]
  /\ Goto(p, "acquire")
  /\ UNCHANGED <<now, store, mu, pub, history>>

Acquire(p, c) ==
  /\ pc[p] = "idle"
  /\ mu = None
  /\ c \in DOMAIN consumers
  /\ consumers[c].credit # 0
  /\ deliverySeq < MaxSeq
  /\ \E r \in Firsts(ListReady(consumers[c].address)) :
       todo' = [todo EXCEPT ![p] = {r}]
  /\ sub' = [sub EXCEPT ![p] = [id |-> c, record |-> consumers[c]]]
  /\ mu' = p
  /\ Goto(p, "acquire")
  /\ UNCHANGED <<now, store, pub, history>>

Unlock(p) ==
  /\ mu' = None
  /\ Goto(p, "idle")
  /\ todo' = [todo EXCEPT ![p] = {}]
  /\ sub' = [sub EXCEPT ![p] = NoConsumer]

\* Mutation: the early return for an expired message skips the unlock.
AcquireExpiredLocked(p) ==
  /\ pc[p] = "acquire"
  /\ \E r \in todo[p] : Expired(r) /\ Update(Dead(r, "ttl-expired"))
  /\ Goto(p, "idle")
  /\ UNCHANGED <<now, paused, consumers, deliverySeq, mu, sub, todo, pub, history>>

AcquireExpired(p) ==
  /\ pc[p] = "acquire"
  /\ \E r \in todo[p] : Expired(r) /\ Update(Dead(r, "ttl-expired"))
  /\ Unlock(p)
  /\ UNCHANGED <<now, paused, consumers, deliverySeq, pub, history>>

\* Consumer.Acquire only checks: it takes no credit and records no delivery.
CanAcquire(c, id) ==
  /\ c.connected
  /\ c.credit # 0
  /\ \A u \in c.unsettled : u.id # id

Taken(r, sem) ==
  [r EXCEPT !.state = IF sem = "at-most-once" THEN "accepted" ELSE "acquired",
            !.count = @ + 1, !.redelivered = r.count + 1 > 1]

AcquireUpdate(p) ==
  /\ pc[p] = "acquire"
  /\ deliverySeq' = deliverySeq + 1
  /\ \E r \in todo[p] :
       /\ ~Expired(r)
       /\ IF CanAcquire(sub[p].record, deliverySeq + 1)
          THEN /\ Update(Taken(r, sub[p].record.semantics))
               /\ Goto(p, "save")
               /\ UNCHANGED <<mu, sub, todo>>
          ELSE Unlock(p) /\ UNCHANGED messages
  /\ UNCHANGED <<now, paused, consumers, pub, history>>

\* The consumer record read at the start is written back, and the delivery is
\* returned with its body; or the body cannot be read, and nobody is given the
\* message that was taken.
AcquireSave(p) ==
  /\ pc[p] = "save"
  /\ SaveConsumer(sub[p].id, sub[p].record)
  /\ \/ \E r \in todo[p] :
          handed' = handed \cup
            {[id |-> deliverySeq, consumer |-> sub[p].id, msg |-> r.id,
              address |-> sub[p].record.address,
              semantics |-> sub[p].record.semantics]}
     \/ UNCHANGED handed
  /\ Unlock(p)
  /\ UNCHANGED <<now, paused, messages, deliverySeq, pub, home, settled, returned>>

\* The deliveries an at-least-once consumer has not settled.
Outstanding(c) ==
  {h \in handed : h.consumer = c /\ h.semantics = "at-least-once"
                  /\ h.id \notin settled}

\* Consumer.Settle, too, only checks.  A consumer that asks to release or reject
\* a delivery has given it back, even if it is told that there is none.
Settle(p, c, id, outcome) ==
  /\ pc[p] = "idle"
  /\ mu = None
  /\ c \in DOMAIN consumers
  /\ LET found == {u \in consumers[c].unsettled : u.id = id}
     IN  /\ IF found = {}
            THEN UNCHANGED messages
            ELSE \E u \in found :
                   Update(IF outcome = "rejected"
                          THEN Dead(messages[u.msg], "rejected")
                          ELSE [messages[u.msg] EXCEPT
                                  !.state = outcome,
                                  !.redelivered = @ \/ outcome = "released"])
         /\ settled' = IF found = {} THEN settled ELSE settled \cup {id}
  /\ returned' = returned \cup
       {h.id : h \in {g \in Outstanding(c) : g.id = id /\ outcome # "accepted"}}
  /\ UNCHANGED <<now, paused, consumers, deliverySeq, locals, home, handed>>

Disconnect(p, c) ==
  /\ pc[p] = "idle"
  /\ mu = None
  /\ c \in DOMAIN consumers
  /\ LET lost == {u.msg : u \in consumers[c].unsettled}
     IN  messages' = [m \in DOMAIN messages |->
                        IF m \in lost
                        THEN [messages[m] EXCEPT !.state = "released",
                                                 !.redelivered = TRUE]
                        ELSE messages[m]]
  /\ consumers' = [consumers EXCEPT ![c].unsettled = {},
                                    ![c].connected = FALSE, ![c].credit = 0]
  /\ returned' = returned \cup {h.id : h \in Outstanding(c)}
  /\ UNCHANGED <<now, paused, deliverySeq, locals, home, handed, settled>>

-----------------------------------------------------------------------------
(* SweepExpired (worker) and ReplayDead (request), without Service.mu.     *)

\* Mutation: the sweep looks at released messages only.
SweepReleasedOnly ==
  /\ pc[Worker] = "idle"
  /\ todo' = [todo EXCEPT ![Worker] = {r \in Stored : r.state = "released"}]
  /\ Goto(Worker, "sweep")
  /\ UNCHANGED <<now, store, mu, pub, sub, history>>

SweepExpired ==
  /\ pc[Worker] = "idle"
  /\ todo' = [todo EXCEPT ![Worker] =
                {r \in Stored : r.state \in {"available", "released"}}]
  /\ Goto(Worker, "sweep")
  /\ UNCHANGED <<now, store, mu, pub, sub, history>>

SweepOne ==
  /\ pc[Worker] = "sweep"
  /\ \E r \in todo[Worker] :
       /\ IF Expired(r) THEN Update(Dead(r, "ttl-expired"))
                        ELSE UNCHANGED messages
       /\ todo' = [todo EXCEPT ![Worker] = @ \ {r}]
  /\ UNCHANGED <<now, paused, consumers, deliverySeq, mu, pc, pub, sub, history>>

SweepDone ==
  /\ pc[Worker] = "sweep"
  /\ todo[Worker] = {}
  /\ Goto(Worker, "idle")
  /\ UNCHANGED <<now, store, mu, pub, sub, todo, history>>

Replayable == {r \in Stored : r.state = "dead-lettered" \/ r.origin # None}

ReplayDead(p, limit) ==
  /\ pc[p] = "idle"
  /\ \E D \in SUBSET Replayable :
       /\ D # {}
       /\ Cardinality(D) = IF limit > 0 /\ limit < Cardinality(Replayable)
                           THEN limit ELSE Cardinality(Replayable)
       /\ todo' = [todo EXCEPT ![p] = D]
  /\ Goto(p, "replay")
  /\ UNCHANGED <<now, store, mu, pub, sub, history>>

\* Mutation: replay keeps the expiry it should clear.
ReplayedKeepsExpiry(r) ==
  [r EXCEPT !.address = IF r.origin = None THEN @ ELSE r.origin,
            !.state = "available", !.redelivered = TRUE]

Replayed(r) ==
  [r EXCEPT !.address = IF r.origin = None THEN @ ELSE r.origin,
            !.state = "available", !.expiresAt = 0, !.redelivered = TRUE]

ReplayOne(p) ==
  /\ pc[p] = "replay"
  /\ \E r \in todo[p] :
       /\ IF paused[Replayed(r).address] THEN UNCHANGED messages
                                         ELSE Update(Replayed(r))
       /\ todo' = [todo EXCEPT ![p] = @ \ {r}]
       /\ IF todo[p] = {r} THEN Goto(p, "idle") ELSE UNCHANGED pc
  /\ UNCHANGED <<now, paused, consumers, deliverySeq, mu, pub, sub, history>>

-----------------------------------------------------------------------------
\* Every repository call first returns ctx.Err(): a request whose context ends
\* (client gone, HTTP timeout) stops before its next step and undoes nothing.
Cancel(p) ==
  /\ Cancels
  /\ pc[p] # "idle"
  /\ mu' = IF mu = p THEN None ELSE mu
  /\ todo' = [todo EXCEPT ![p] = {}]
  /\ pub' = [pub EXCEPT ![p] = NoPublication]
  /\ sub' = [sub EXCEPT ![p] = NoConsumer]
  /\ Goto(p, "idle")
  /\ UNCHANGED <<now, store, history>>

Pause(a) ==
  /\ paused' = [paused EXCEPT ![a] = ~@]
  /\ UNCHANGED <<now, messages, consumers, deliverySeq, locals, history>>

Tick ==
  /\ now < MaxTime
  /\ now' = now + 1
  /\ UNCHANGED <<store, locals, history>>

Init ==
  /\ now = 1
  /\ paused = [a \in Addresses |-> FALSE]
  /\ messages = <<>>
  /\ consumers = <<>>
  /\ deliverySeq = 0
  /\ mu = None
  /\ pc = [p \in Procs |-> "idle"]
  /\ pub = [p \in Procs |-> NoPublication]
  /\ sub = [p \in Procs |-> NoConsumer]
  /\ todo = [p \in Procs |-> {}]
  /\ home = <<>>
  /\ handed = {}
  /\ settled = {}
  /\ returned = {}

Sweep == SweepExpired \/ SweepOne \/ SweepDone

\* The rest of an operation a client goroutine has begun.
Proceed(p) ==
  \/ \E m \in Msgs : PublishPut(p, m)
  \/ EnforceMaxLength(p)
  \/ Evict(p)
  \/ AcquireExpired(p)
  \/ AcquireUpdate(p)
  \/ AcquireSave(p)
  \/ ReplayOne(p)

Request(p) ==
  \/ \E in \in Publications : Publish(p, in)
  \/ \E c \in Consumers, in \in Registrations : Register(p, c, in)
  \/ \E c \in Consumers : Acquire(p, c) \/ Disconnect(p, c)
  \/ \E c \in Consumers, id \in 1..deliverySeq,
        o \in {"accepted", "released", "rejected"} : Settle(p, c, id, o)
  \/ \E n \in Limits : ReplayDead(p, n)

Next ==
  \/ \E p \in Clients : Request(p) \/ Proceed(p) \/ Cancel(p)
  \/ Sweep
  \/ \E a \in Pausable : Pause(a)
  \/ Tick

Spec == Init /\ [][Next]_vars

\* The worker's ticker keeps sweeping, and a goroutine that has begun an
\* operation is scheduled again; nothing obliges a client to send requests.
FairSpec ==
  /\ Spec
  /\ WF_vars(Sweep)
  /\ \A p \in Clients : WF_vars(Proceed(p))

-----------------------------------------------------------------------------
(* Properties the code has.                                                *)

Labels == {"idle", "put", "enforce", "evict", "acquire", "save", "sweep", "replay"}

\* Every variable has its type: the store holds well-formed records under
\* their own ids, and each goroutine's locals fit the place it is at.
TypeOK ==
  /\ now \in Nat \ {0}
  /\ paused \in [Addresses -> BOOLEAN]
  /\ messages \in [DOMAIN messages -> Message]
  /\ DOMAIN messages \subseteq Msgs
  /\ \A m \in DOMAIN messages : messages[m].id = m
  /\ consumers \in [DOMAIN consumers -> Consumer]
  /\ DOMAIN consumers \subseteq Consumers
  /\ deliverySeq \in Nat
  /\ mu \in Clients \cup {None}
  /\ pc \in [Procs -> Labels]
  /\ pub \in [Procs -> Publication]
  /\ sub \in [Procs -> [id : Consumers, record : Consumer] \cup {NoConsumer}]
  /\ todo \in [Procs -> SUBSET Message]
  /\ home \in [DOMAIN messages -> Addresses]
  /\ handed \in SUBSET [id : Nat, consumer : Consumers, msg : Msgs,
                        address : Addresses, semantics : Semantics]
  /\ settled \in SUBSET Nat
  /\ returned \in SUBSET Nat

\* What Acquire can still hand out.  A record without ExpiresAt is none: it is
\* what Expired takes for expired.
Deliverable(r) == r.state = "available" /\ r.expiresAt # 0

\* The deliveries whose consumer has neither released nor rejected them nor gone.
Held == {h \in handed : h.id \notin returned}

\* Two calls of Acquire return one message only if it was given back in between:
\* no message is held twice, whatever stale records eviction, sweep and replay
\* write over the one Acquire took, and whichever calls are cut off midway.
HeldOnce ==
  \A g, h \in Held : g.msg = h.msg => g = h

\* While a consumer holds a message, or has accepted it, no write-back of a
\* sweep, an eviction or a replay puts it on offer again: each of them may write
\* a copy from before the Acquire, and a replay takes any record that was ever a
\* dead letter, delivered or not.
HeldNotOffered ==
  \A h \in Held : ~Deliverable(messages[h.msg])

\* Two deliveries never share a delivery id, although ids are drawn before the
\* delivery is known to succeed and cancelled calls waste theirs.
DeliveryIdsUnique ==
  \A g, h \in handed : g.id = h.id => g = h

Promise == INSTANCE Dispatch WITH
  routed    <- home,
  offered   <- {m \in DOMAIN messages : Deliverable(messages[m])},
  delivered <- handed

\* Publishers, consumers, evictions, sweeps and replays, in any interleaving, do
\* to a message nothing but what the abstract specification allows: above all,
\* one consumer holds it at a time, of the address it was routed to or one along
\* the dead-letter chain, and what an at-most-once consumer got is gone for good.
DispatchesHeld == Promise!Spec

Trimming(a) ==
  {p \in Clients : pc[p] \in {"enforce", "evict"} /\ Head(pub[p].routes) = a}

\* enforceMaxLength works on a snapshot, yet the ready backlog of an address
\* that is no dead-letter destination exceeds MaxLength by no more than the
\* publishers that have stored a message there and not yet trimmed it.
BacklogBounded ==
  \A a \in Addresses :
    MaxLength[a] > 0 /\ (\A b \in Addresses : DeadLetter[b] # a) =>
      Cardinality(ListReady(a)) <= MaxLength[a] + Cardinality(Trimming(a))

\* Service.mu is held by at most the goroutine that is inside Acquire, and is
\* given back: nobody keeps Acquire, Settle and Disconnect out for ever.
LockIsReleased ==
  \A p \in Clients : []<>(mu # p)

\* An available message whose ExpiresAt has passed does not stay where it is: the
\* sweep or a consumer moves it along the dead-letter chain or marks it dead.
\* Messages without ExpiresAt, which must not expire, are not spoken of.
ExpiredMovesOn ==
  \A m \in Msgs, a \in Addresses :
    (\E r \in ListReady(a) : r.id = m /\ r.expiresAt # 0 /\ Expired(r))
      ~> (\A r \in ListReady(a) : r.id # m)

-----------------------------------------------------------------------------
(* What the documentation and the tests say, and the code does not do.     *)

\* README.md: "prefetch/credit flow control".  An at-least-once consumer has no
\* more deliveries outstanding than its prefetch.
CreditHonoured ==
  \A c \in DOMAIN consumers :
    Cardinality(Outstanding(c)) <= consumers[c].prefetch

\* README.md: "Releasing a delivery makes it available again".  A delivery that a
\* consumer gave back leaves no message acquired.
ReturnedIsFree ==
  \A h \in handed \ Held : messages[h.msg].state # "acquired"

\* README.md: "disconnect recovery".  A consumer that is disconnected holds no
\* acquired message back.
DisconnectRecovers ==
  \A c \in DOMAIN consumers : ~consumers[c].connected =>
    \A h \in Outstanding(c) : messages[h.msg].state # "acquired"

\* service_test.go: a message without TTL is delivered by Acquire.  Where no
\* request and no address gives a TTL, no message dies of expiry.
NoTTLNeverExpires ==
  ((\A in \in Publications : in.ttl = 0) /\ \A a \in Addresses : DefaultTTL[a] = 0) =>
    \A m \in DOMAIN messages : messages[m].reason # "ttl-expired"

\* README.md: "resets eligible dead letters to their original address".  A
\* message that a replay makes available is back where it was routed to.
ReplayReturnsHome ==
  [][\A p \in Clients, m \in DOMAIN messages :
       /\ pc[p] = "replay"
       /\ ReplayOne(p)
       /\ messages'[m] # messages[m]
       => messages'[m].address = home[m]]_vars
=============================================================================
