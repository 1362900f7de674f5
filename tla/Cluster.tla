------------------------------ MODULE Cluster -------------------------------
(***************************************************************************)
(* Shard leases: the Coordinator of internal/cluster/infrastructure and    *)
(* the per-node Service of internal/cluster/application, whose map `owned' *)
(* of cached leases several requests of a node use without a lock.  Each   *)
(* access to the map and each call of the coordinator is one step.         *)
(***************************************************************************)
EXTENDS Naturals, FiniteSets

CONSTANTS
  Shards,
  Nodes,
  Threads,   \* the goroutines that call the services
  Node,      \* the node each goroutine belongs to
  NoLease,   \* the zero Lease
  TTL,
  Cancels,   \* whether the context of a call may have ended
  MaxTime,   \* bound on the clock
  MaxEpoch   \* bound on the epochs

ASSUME ClusterConstants ==
  /\ Node \in [Threads -> Nodes]
  /\ Shards # {}
  /\ TTL \in Nat \ {0}
  /\ Cancels \in BOOLEAN
  /\ MaxTime \in Nat
  /\ MaxEpoch \in Nat

VARIABLES
  now,
  leases,   \* Coordinator.leases
  epochs,   \* Coordinator.epochs
  owned,    \* Service.owned of each node
  pc,       \* where each goroutine is
  shard,    \* the shard it is dealing with
  got,      \* the lease it has read or been given
  left,     \* shards the range over owned has still to visit
  seen,     \* shards the range over owned has visited
  granted,  \* history: every grant of the coordinator
  quit      \* history: nodes that have called ReleaseAll

locals == <<pc, shard, got, left, seen>>
vars   == <<now, leases, epochs, owned, locals, granted, quit>>

-----------------------------------------------------------------------------
AnyShard == CHOOSE s \in Shards : TRUE

Lease == [node : Nodes, epoch : Nat, expiresAt : Nat]

NewLease(n, e) == [node |-> n, epoch |-> e, expiresAt |-> now + TTL]

Expired(l) == now >= l.expiresAt

\* Mutation: a cached lease is good for ever.
OwnedByForever(l, n) == l.node = n

OwnedBy(l, n) == l.node = n /\ ~Expired(l)

\* The fencing check of Renew and Release.
Current(s, l) ==
  s \in DOMAIN leases /\ leases[s].node = l.node /\ leases[s].epoch = l.epoch

Put(f, s, l) == [x \in DOMAIN f \cup {s} |-> IF x = s THEN l ELSE f[x]]
Without(f, s) == [x \in DOMAIN f \ {s} |-> f[x]]

Return(t) ==
  /\ pc' = [pc EXCEPT ![t] = "idle"]
  /\ got' = [got EXCEPT ![t] = NoLease]
  /\ left' = [left EXCEPT ![t] = {}]
  /\ seen' = [seen EXCEPT ![t] = {}]
  /\ shard' = [shard EXCEPT ![t] = AnyShard]

Goto(t, label) ==
  /\ pc' = [pc EXCEPT ![t] = label]
  /\ UNCHANGED <<shard, left, seen>>

-----------------------------------------------------------------------------
(* Ensure.                                                                 *)

\* A cached lease that the node still owns is returned without a call.
Ensure(t, s) ==
  /\ pc[t] = "idle"
  /\ ~(s \in DOMAIN owned[Node[t]] /\ OwnedBy(owned[Node[t]][s], Node[t]))
  /\ pc' = [pc EXCEPT ![t] = "acquire"]
  /\ shard' = [shard EXCEPT ![t] = s]
  /\ UNCHANGED <<now, leases, epochs, owned, got, left, seen, granted, quit>>

\* Mutation: an unexpired lease of another node does not count.
RefusedNever(s, n) == FALSE

Refused(s, n) ==
  s \in DOMAIN leases /\ ~Expired(leases[s]) /\ leases[s].node # n

\* Mutation: the epoch starts again when the shard has no lease.
NextEpochRestarts(s) == IF s \in DOMAIN leases THEN epochs[s] + 1 ELSE 1

NextEpoch(s) == epochs[s] + 1

Acquire(t) ==
  /\ pc[t] = "acquire"
  /\ LET s == shard[t]
         l == NewLease(Node[t], NextEpoch(s))
     IN  /\ ~Refused(s, Node[t])
         /\ epochs[s] < MaxEpoch
         /\ leases' = Put(leases, s, l)
         /\ epochs' = [epochs EXCEPT ![s] = NextEpoch(s)]
         /\ got' = [got EXCEPT ![t] = l]
         /\ granted' = granted \cup {[shard |-> s, node |-> Node[t], epoch |-> l.epoch]}
  /\ Goto(t, "keep")
  /\ UNCHANGED <<now, owned, quit>>

AcquireFails(t) ==
  /\ pc[t] = "acquire"
  /\ Refused(shard[t], Node[t]) \/ Cancels
  /\ Return(t)
  /\ UNCHANGED <<now, leases, epochs, owned, granted, quit>>

Keep(t) ==
  /\ pc[t] = "keep"
  /\ owned' = [owned EXCEPT ![Node[t]] = Put(@, shard[t], got[t])]
  /\ Return(t)
  /\ UNCHANGED <<now, leases, epochs, granted, quit>>

-----------------------------------------------------------------------------
(* Renew and ReleaseAll range over the map.  An entry that is removed in   *)
(* the meantime is not visited; one that is added, or added again, may be. *)

Renew(t) ==
  /\ pc[t] = "idle"
  /\ pc' = [pc EXCEPT ![t] = "renew"]
  /\ left' = [left EXCEPT ![t] = DOMAIN owned[Node[t]]]
  /\ UNCHANGED <<now, leases, epochs, owned, shard, got, seen, granted, quit>>

ReleaseAll(t) ==
  /\ pc[t] = "idle"
  /\ pc' = [pc EXCEPT ![t] = "release"]
  /\ left' = [left EXCEPT ![t] = DOMAIN owned[Node[t]]]
  /\ quit' = quit \cup {Node[t]}
  /\ UNCHANGED <<now, leases, epochs, owned, shard, got, seen, granted>>

\* Mutation: the lease of the entry is not read.
VisitUnread(t, label) ==
  \E s \in DOMAIN owned[Node[t]] \ seen[t] :
    /\ pc' = [pc EXCEPT ![t] = label]
    /\ shard' = [shard EXCEPT ![t] = s]
    /\ left' = [left EXCEPT ![t] = @ \ {s}]
    /\ seen' = [seen EXCEPT ![t] = @ \cup {s}]
    /\ UNCHANGED got

Visit(t, label) ==
  \E s \in DOMAIN owned[Node[t]] \ seen[t] :
    /\ pc' = [pc EXCEPT ![t] = label]
    /\ shard' = [shard EXCEPT ![t] = s]
    /\ got' = [got EXCEPT ![t] = owned[Node[t]][s]]
    /\ left' = [left EXCEPT ![t] = @ \ {s}]
    /\ seen' = [seen EXCEPT ![t] = @ \cup {s}]

VisitNext(t) ==
  /\ \/ pc[t] = "renew" /\ Visit(t, "renewing")
     \/ pc[t] = "release" /\ Visit(t, "releasing")
  /\ UNCHANGED <<now, leases, epochs, owned, granted, quit>>

VisitDone(t) ==
  /\ pc[t] \in {"renew", "release"}
  /\ left[t] = {}
  /\ Return(t)
  /\ UNCHANGED <<now, leases, epochs, owned, granted, quit>>

\* An entry that is deleted is new to every range of the node when it is added
\* again.
Removed(shards, t) ==
  [u \in Threads |-> IF Node[u] = Node[t] THEN shards[u] \ {shard[t]} ELSE shards[u]]

Renewable(s, l) == Current(s, l) /\ ~Expired(leases[s])

RenewCall(t) ==
  /\ pc[t] = "renewing"
  /\ LET s == shard[t]
         l == [leases[s] EXCEPT !.expiresAt = now + TTL]
     IN  /\ Renewable(s, got[t])
         /\ leases' = Put(leases, s, l)
         /\ got' = [got EXCEPT ![t] = l]
  /\ Goto(t, "renewed")
  /\ UNCHANGED <<now, epochs, owned, granted, quit>>

RenewStore(t) ==
  /\ pc[t] = "renewed"
  /\ owned' = [owned EXCEPT ![Node[t]] = Put(@, shard[t], got[t])]
  /\ got' = [got EXCEPT ![t] = NoLease]
  /\ Goto(t, "renew")
  /\ UNCHANGED <<now, leases, epochs, granted, quit>>

\* A refused renewal drops the cached lease, whichever it is by now, and ends
\* Renew.
RenewFails(t) ==
  /\ pc[t] = "renewing"
  /\ ~Renewable(shard[t], got[t]) \/ Cancels
  /\ Goto(t, "drop")
  /\ UNCHANGED <<now, leases, epochs, owned, got, granted, quit>>

RenewDrop(t) ==
  /\ pc[t] = "drop"
  /\ owned' = [owned EXCEPT ![Node[t]] = Without(@, shard[t])]
  /\ pc' = [pc EXCEPT ![t] = "idle"]
  /\ got' = [got EXCEPT ![t] = NoLease]
  /\ shard' = [shard EXCEPT ![t] = AnyShard]
  /\ left' = [Removed(left, t) EXCEPT ![t] = {}]
  /\ seen' = [Removed(seen, t) EXCEPT ![t] = {}]
  /\ UNCHANGED <<now, leases, epochs, granted, quit>>

ReleaseCall(t) ==
  /\ pc[t] = "releasing"
  /\ \/ leases' = IF Current(shard[t], got[t]) THEN Without(leases, shard[t]) ELSE leases
     \/ Cancels /\ UNCHANGED leases
  /\ got' = [got EXCEPT ![t] = NoLease]
  /\ Goto(t, "forget")
  /\ UNCHANGED <<now, epochs, owned, granted, quit>>

\* The cached lease is dropped even if the release was refused.
ReleaseForget(t) ==
  /\ pc[t] = "forget"
  /\ owned' = [owned EXCEPT ![Node[t]] = Without(@, shard[t])]
  /\ pc' = [pc EXCEPT ![t] = "release"]
  /\ left' = Removed(left, t)
  /\ seen' = Removed(seen, t)
  /\ UNCHANGED <<now, leases, epochs, shard, got, granted, quit>>

-----------------------------------------------------------------------------
Tick ==
  /\ now < MaxTime
  /\ now' = now + 1
  /\ UNCHANGED <<leases, epochs, owned, locals, granted, quit>>

Init ==
  /\ now = 0
  /\ leases = <<>>
  /\ epochs = [s \in Shards |-> 0]
  /\ owned = [n \in Nodes |-> <<>>]
  /\ pc = [t \in Threads |-> "idle"]
  /\ shard = [t \in Threads |-> AnyShard]
  /\ got = [t \in Threads |-> NoLease]
  /\ left = [t \in Threads |-> {}]
  /\ seen = [t \in Threads |-> {}]
  /\ granted = {}
  /\ quit = {}

Call(t) == Renew(t) \/ ReleaseAll(t) \/ \E s \in Shards : Ensure(t, s)

Proceed(t) ==
  \/ Acquire(t) \/ AcquireFails(t) \/ Keep(t)
  \/ VisitNext(t) \/ VisitDone(t)
  \/ RenewCall(t) \/ RenewStore(t) \/ RenewFails(t) \/ RenewDrop(t)
  \/ ReleaseCall(t) \/ ReleaseForget(t)

Next == Tick \/ \E t \in Threads : Call(t) \/ Proceed(t)

Spec == Init /\ [][Next]_vars

-----------------------------------------------------------------------------
(* Properties the code has.                                                *)

Labels == {"idle", "acquire", "keep", "renew", "renewing", "renewed", "drop",
           "release", "releasing", "forget"}

\* A map from some shards to leases.
LeaseMap(f) == f \in [DOMAIN f -> Lease] /\ DOMAIN f \subseteq Shards

\* Every variable has its type, and a goroutine that is about to use a lease
\* has one.
TypeOK ==
  /\ now \in Nat
  /\ LeaseMap(leases)
  /\ epochs \in [Shards -> Nat]
  /\ owned = [n \in Nodes |-> owned[n]]
  /\ \A n \in Nodes : LeaseMap(owned[n])
  /\ pc \in [Threads -> Labels]
  /\ shard \in [Threads -> Shards]
  /\ got \in [Threads -> Lease \cup {NoLease}]
  /\ \A t \in Threads : pc[t] \in {"keep", "renewing", "renewed", "releasing"} =>
       got[t] \in Lease
  /\ left \in [Threads -> SUBSET Shards]
  /\ seen \in [Threads -> SUBSET Shards]
  /\ granted \in SUBSET [shard : Shards, node : Nodes, epoch : Nat]
  /\ quit \in SUBSET Nodes

\* No two grants of a shard carry the same fencing token, and the lease the
\* coordinator holds is always the newest grant: a token seen once is never
\* valid again for anyone else, across expiry, release and re-acquisition.
TokensUnique ==
  /\ \A g, h \in granted : g.shard = h.shard /\ g.epoch = h.epoch => g = h
  /\ \A s \in DOMAIN leases :
       /\ leases[s].epoch = epochs[s]
       /\ [shard |-> s, node |-> leases[s].node, epoch |-> epochs[s]] \in granted

\* The lease of a node that has not called ReleaseAll is not taken away from it
\* before it expires, neither by another node's Ensure nor by a stale Renew or
\* Release.
HeldUntilExpiry ==
  [][\A s \in DOMAIN leases :
       (leases[s].node \notin quit /\ ~Expired(leases[s])) =>
         /\ s \in DOMAIN leases'
         /\ leases'[s].node = leases[s].node
         /\ leases'[s].expiresAt >= leases[s].expiresAt]_vars

\* README.md: "stale renew/release requests are rejected".  A Renew or Release
\* that presents an older token than the shard's newest, because the lease was
\* acquired anew since it was read, leaves the coordinator's leases alone.
StaleRejected ==
  [][\A t \in Threads :
       (/\ pc[t] \in {"renewing", "releasing"}
        /\ pc'[t] # pc[t]
        /\ got[t].epoch # epochs[shard[t]]) => UNCHANGED leases]_vars

Believes(n, s) == s \in DOMAIN owned[n] /\ OwnedBy(owned[n][s], n)

\* Two nodes never answer Ensure for one shard from their caches at the same
\* time, although a cache may hold a lease the coordinator has replaced.  A
\* node that has called ReleaseAll is left out: an Ensure that was under way
\* puts the released lease back into its cache.
OneOwner ==
  \A s \in Shards, m, n \in Nodes \ quit : Believes(m, s) /\ Believes(n, s) => m = n

Promise == INSTANCE Fencing WITH
  clock  <- now,
  token  <- epochs,
  holder <- [s \in DOMAIN leases |->
               [node |-> leases[s].node, until |-> leases[s].expiresAt]]

\* Ensure, Renew and ReleaseAll of any nodes, in any interleaving, make the
\* coordinator do nothing but what the abstract lease specification allows.
KeepsPromise == Promise!Spec
=============================================================================
