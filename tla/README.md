# A TLA+ model of the AMQP broker

The broker is one Go process. Clients reach it over AMQP, HTTP and gRPC; each
request runs in a goroutine of its own and calls application services
(`internal/*/application`), which keep their state in one in-memory store
(`storage/infrastructure/memory*.go`), in an append-only log of message bodies
and, at a graceful end, in a snapshot file. A worker goroutine sweeps expired
messages and transactions.

Most services have no lock of their own. They read a record from the store,
change the copy and write the whole record back. The store makes each *call*
atomic and nothing larger. What the broker promises therefore depends on how
the calls of several requests interleave, on a context that is cancelled
between two of them, and on the process ending between two of them. The models
split every operation at its store calls and let everything else happen in
between.

`PROJECT.json` lists components, runs, mutants, the lines each definition
models, findings, hazards and theorems.

## Parts of the system

| part | state | operations | what is hard |
|---|---|---|---|
| delivery | messages, consumers, `deliverySeq`, `mu` | Publish, Register, Acquire, Settle, Disconnect, SweepExpired, ReplayDead | only Acquire, Settle and Disconnect lock; sweep, eviction and replay write records they read earlier |
| transactions | transactions with operations and version, staged messages | Declare, StagePublish, Commit, Rollback, Sweep | many store calls each, optimistic versions, any of them may be the last |
| cluster | leases and epochs of the coordinator, `owned` of each node | Ensure, Renew, ReleaseAll | `owned` is shared without a lock, leases expire meanwhile |
| body log | file, index | OpenFileLog, Append, Read, Compact, Close | torn and failed writes, numbering by position |
| process | memory, snapshot, worker, connections | Build, serve, sweep, shut down, Save, restart | one deadline for all waits, abandoned handlers, kills |
| addresses | addresses, bindings | Create, Bind, SetPaused | lookup and store are separate calls |
| routing | none | Resolve, Match | recursion of `#`, several bindings per destination |
| AMQP peer | connection, session and link registries, the peer's tables | one handler per performative | seven tables that have to agree, every handler may fail midway |
| AMQP codec | none | EncodePerformative, DecodePerformative, Marshal, ReadFrame, data sections | short and long forms, nested sizes, streams cut anywhere |
| HTTP and gRPC | window and count of the rate limit, metrics | the middleware, one handler per route, the interceptor | a request is two goroutines, of which the timeout abandons one |
| authentication, configuration, PostgreSQL adapters, tools, console | | | not modelled, see below |

## Modules

Each row names the module, the code, and how state and actions correspond.

**Delivery** (`delivery/application/service.go`, `delivery/domain`, memory
store). `pc[p]` says between which two store calls goroutine `p` is, `todo[p]`
holds the stale records it has still to write, `mu` the lock. Publish is
`Publish`, then `PublishPut` and `EnforceMaxLength`/`Evict` per route. Acquire
is `Acquire`, `AcquireUpdate`/`AcquireExpired`, `AcquireSave`. `SweepExpired`
and `ReplayDead` read everything once and then write record by record
(`SweepOne`, `ReplayOne`). `Cancel` is a context that ends between two calls.
`Dead` is `deadLetter`; its two address lookups and its update are one step,
since the addresses it looks up are never deleted. A change of `Paused` between
its lookup and its update is equivalent to one right after it. Published
headers are taken not to contain `x-original-address`. Bodies are in FileLog.
The message states `expired` and `rejected` are never assigned by the code and
left out. If the body cannot be read, `AcquireSave` returns nothing and the message
stays acquired with no consumer, as it does when the context ends before.
`home`, `handed`, `settled` and `returned` are history. `returned` has the ids of
the at-least-once deliveries that their consumers asked to release or to reject,
or had not settled when they were disconnected; the other deliveries are `Held`.
**Dispatch** is what the service promises for a message: it is routed to one
address for ever and delivered to a consumer of that address, or of one along the
dead-letter chain, under an id of its own. That consumer holds it, and nobody else
is given it and it is not on offer, until it is given back; what an at-most-once
consumer got never is. A message that nobody holds may be offered again at any
time: released, dead-lettered or replayed. Delivery maps `home` to what is routed,
the messages that Acquire could take to what is on offer, `handed` to the
deliveries, and `returned` to what was given back.

**Transactions** (`transaction/application/service.go`, and Stage, CommitStaged,
RollbackStaged of the delivery service). `copy[p]` is the transaction a
goroutine read, `next[p]` its place in the operations. Rollback, the timeout
inside Commit and the sweep share `UndoRead`, `UndoDelete` and `UndoDone`, as
they share `rollback` in the code. `Fanouts` is the set of route counts a
publication may have. `Consume` is a consumer taking an exposed message.
Addresses accept and have no maximum length here.

**Sweeps** (`broker/runtime.go` Sweep, `worker/service.go`) extends Transactions
with the other half of the worker's tick: `SweepMessages` reads the expired
messages and `SweepMessage` writes them back one by one, on the records that
commits expose and rollbacks delete meanwhile. If one is gone the tick ends, and
`SweepTransactions` is not reached. Which available messages have expired is left
open.

**Fencing, Cluster** (`cluster`). Fencing is the abstract lease: a shard is
granted with a fresh token when nobody holds it, extended or given up by its
holder. Cluster has the coordinator (`leases`, `epochs`) and one service per
node (`owned`), each used by several goroutines. The range loops over `owned`
are visited entry by entry; Go allows an entry added during the loop to be
visited or not, and both happen. The unsynchronised accesses to the map are
atomic reads and writes of one entry: what the race detector would report
beyond that is not modelled.

**FileLog** (`storage/infrastructure/filelog.go`). The file is a sequence of
digits in base `Base`; a record is a two-digit length (for the four bytes of
the code), a one-digit id, the newline digit and the body. The scan of reindex and
`Read` are defined on the digits, so a torn record is misread as the code misreads
it. The loops of reindex (`ReindexRecord`) and Compact (`CompactSkip`,
`CompactCopy`) take a step per record and a stop may fall between two. Append is
three steps, its header, its record and its sync, each of which may fail.
`CompactFails` is any error before the old file is closed, `RenameFails` one
after it. `Crash` keeps the synced prefix and any part of the rest; `Kill` keeps
all. `used`, `acked`, `damaged` and `marks` are history: `damaged` says where
records start whose Append gave no offset, `marks` where the records before the
first of these end. After a compaction the earlier acknowledgements are void,
since Compact renumbers the records.

**Runtime** (`broker/runtime.go`, `worker/service.go`, `cmd/broker/main.go`,
`snapshot.go`). `phase` is where `main` is: serving, then the waits for HTTP,
gRPC, worker and AMQP, `Save`, closing the log, exit. `Expire` is the deadline
that all waits share. A request may do to a message whatever the store's calls
can do (`After`), so what holds here holds for all handlers. A `ghost` is an
HTTP handler that `http.TimeoutHandler` has answered for and that still runs.
Failing file operations of Save, Build's two-second context and the restore of
consumers are left out.

**Addresses** (`address`, `memory.go`), **Matcher**, **Routing** (`routing`).
A client's Create or Bind is a lookup step (`Create`, `Bind`) and a store step
(`Store`, `CreateBinding`). Routing extends Addresses and evaluates `Resolve` in
every state of it; nothing is deleted, so Resolve is a function of one state.
`Matcher` has the recursive `matchParts` and, as reference, `Cuttable`: the key
can be cut into consecutive pieces that the parts of the pattern accept.
`path.Match` on one segment is the constant relation `Glob`. `InOrder` is what
sorting does: the elements of a set, each before the later ones. The loop of
Resolve keeps those of the bindings that pass (`Passing`) that have no earlier
one with the same destination.

**Peer** (`amqp/adapter/server.go` and the connection, session and link
registries). One goroutine per connection. Each performative is one action,
except a flow, which delivers message by message (`OnFlow`, `FlowDeliver`,
`FlowEnds`). A reply may fail to be written, which ends the connection. The
delivery service may answer anything it can answer. `Rune` is the conversion of
channel and handle numbers to map keys; it is not injective.
`panicked` is a handler that dereferences a missing link, which stops the
process. Link and session states are left out: what is registered is attached
or mapped.

**Codec** (`amqp/application`, `amqp/domain`). Operators on sequences of bytes.
A value is a pair of its Go type and its content. The 8- and 32-bit variants of
lists and binaries are one operator with the width as parameter. `Frames` is the
reading loop of a connection. Numbers above 2^31 are not tried, since TLC's
integers end there. **Wire** puts it beside Peer and states what two ends make of
the bytes between them.

**Api** (`platform/httpx`, `platform/grpcx`). `outer[q]` is the goroutine that
serves request `q`, `inner[q]` the handler, which `http.TimeoutHandler` runs in a
goroutine of its own; `Expire` and `Hangup` answer while it goes on. The route
tables have a line per handler: what it decodes and which statuses it answers
with. What the service behind it does is in the other modules; here it returns
an error or a number of copies; the counter of publications is compared with the
set `Copied` of numbered copies. `allow` is evaluated in the action of the
arrival, under the lock of the middleware. A gRPC call waits for its handler.

## Runs

`tlc -config <cfg> <module>`; all of them end within five minutes.

What holds:

| run | instance | shows |
|---|---|---|
| delivery_races | 1 message, 2 clients and the worker, queue with dead-letter queue, cancellation, pause, replay; fair handlers and ticker | Acquire returns a message again only if it was given back; a message is not on offer while it is held; the lock is released; a message whose expiry has passed leaves |
| delivery_evict | 3 messages of 2 priorities, fanout, maximum length 1, consumers of the address or its dead-letter address, 2 clients and the worker | Delivery implements Dispatch; the backlog exceeds the limit only by messages that are about to be trimmed |
| transactions_races | 1 transaction, 2 messages, 2 clients and the worker, one route, cancellation | acknowledged operations are kept, completion is final, commit is complete, rollback is complete |
| sweeps | 1 transaction, 2 messages, 2 clients and the worker, one route, no cancellation; fair worker, clock and handlers | every transaction is completed, unless one is stuck for good |
| cluster_races | 2 nodes, 3 goroutines, 1 shard, 3 epochs, cancellation | unique tokens, one owner; Cluster implements Fencing |
| filelog_crashes | 3 messages, 3 openings, crashes, kills, failed writes, compaction with its errors, stops between any two records of a scan or a copy | an acknowledged body reads back unless an incomplete record lies before it; only incomplete records make the log refuse to open; compaction keeps the live bodies in order |
| runtime_restart | 1 message, a client each over HTTP, gRPC, AMQP, 3 starts, kills; fair shutdown and deadline | the snapshot is the last word; clean restarts keep and resume every message; a process told to stop stops |
| routing | 3 names, 2 clients, 2 bindings, patterns and keys up to 3 parts | names resolve, dead-letter chains end, each destination once and by priority, the matcher is exact |
| peer | 3 peers, limit 2, 3 channels and handles of which two share a key; for the codec field lists and bodies around the sizes 254 to 256 and the maximum frame | the tables agree, slots are freed, flow bookkeeping adds up; the codec is exact |
| api | 4 requests, rate 2, a second of 2 ticks, timeout of 1; fair clock and serving goroutines | the rate is bounded in any second, statuses and metrics agree with the services, every HTTP request is answered |

`MatchIsExact`, `DecodesTheEncoded` and `StreamIsExact` depend on no variable;
they are evaluated once, for every pattern and key, field list, and pair of
transfers with every place the connection may break at. The last two belong to
the run of Peer because its connections are what uses the codec.

`CompletesUnlessStuck` is what remains true of the timeout of transactions.
`Stuck` names the one state that defeats it: an active transaction with a message
that a commit has exposed. The run transactions_stuck shows how two clients get
there.

Each property of these runs has a mutant of the code in the modules (an operator
right before the definition it would replace) under which TLC finds it violated.

What the documentation or a test says and the code does not do. Each of two
runs checks one such statement and TLC prints the steps:

| run | statement | what happens |
|---|---|---|
| delivery_credit | credit bounds what a consumer holds | `Consumer.Acquire` neither lowers the credit nor records the delivery |
| transactions_stuck | the worker times expired transactions out | a commit exposes its messages, then its update is refused since a StagePublish came between; rollback fails on an exposed message, on every sweep |

The models contain more such disagreements. The statements are defined at the end
of the modules. No run lists them; TLC finds each one violated when it is the only property of a
cfg with the constants named here:

| definition | statement | what happens |
|---|---|---|
| Delivery `ReturnedIsFree`, `DisconnectRecovers` (as delivery_credit) | a released delivery is available again; disconnect recovery | Acquire records no delivery to settle or to release |
| Delivery `NoTTLNeverExpires` (no default TTL) | a message without TTL is delivered | the zero `ExpiresAt` counts as past |
| Delivery `ReplayReturnsHome` (a chain of two dead-letter addresses) | replay to the original address | the header holds only the last address left |
| Transactions `InvisibleUntilCommit` (cancellation) | invisible until commit | a commit that stops midway leaves messages exposed |
| Transactions `NotExposedAgain` (2 clients) | at most once | two commits expose one message twice |
| Transactions `EventuallyCompleted` (cancellation, one client) | the worker times transactions out | a commit cut off midway leaves the same state as in transactions_stuck |
| Transactions `TerminalIsFinal` (publications with two routes) | a completed transaction is not changed | two added operations raise the version past a concurrent commit |
| Transactions `StagedRecordsRemoved` | staged records are removed | those staged after completion are in no transaction |
| FileLog `Reopens`, `AckedDurable` (crashes; failed writes; a body at the limit) | durable log | partial header; torn record; failed append; a limit checked on the body here and on the record there |
| Runtime `ShutdownPersists` | shutdown persists metadata | Close returns before Save when an idle AMQP connection outlasts the deadline |
| Runtime `LeasesReleased` | shutdown releases leases | nothing calls ReleaseAll |
| Runtime `AckedSurvives` (kills) | durable storage | metadata is only saved by a graceful shutdown |
| Runtime `ReleasedIsReady` | released messages are available again | ListReady lists available ones only |
| Routing `PausedTakesNothing` | pause stops ingress | destinations of bindings are not checked |
| Peer `ConsumersLeave` | disconnect recovery | a dropped connection leaves its consumers connected |
| Peer `HeartbeatKeeps` | heartbeats through idle frames | an empty frame is a decoding error |

Three of these bear on the deliveries. The documentation and
`TestCreditReleaseAndRedelivery` want released, replayed and dead-lettered messages,
and messages without TTL, to be delivered. The code delivers none of them: Settle
finds no delivery to release, `ListReady` lists no released message, and dead-lettering
and replay clear `ExpiresAt`, which `Message.Expired` takes for expired. So a message
is handed out once at most. No property of a run says so. `HeldOnce`,
`HeldNotOffered` and Dispatch speak of a message only while a consumer holds it and
leave open what becomes of one that was given back, has died or is replayed.
`ExpiredMovesOn` speaks only of messages that have an expiry.

What these properties do say is in part owed to the same mistake: sweep, eviction
and replay overwrite what Acquire wrote, and only the cleared expiry keeps the
message they make available from a second consumer. A correction of
`Message.Expired` alone would show in `HeldNotOffered`, as its mutant does.

### Bounds

`MaxTime` bounds the clock: time passes the TTL (1 or 2) once with room before
and after; in Api it bounds the arrivals, which cover the end of one window of the
limiter and the beginning of the next. `MaxSeq`, `MaxEpoch`, `MaxIds`, `MaxDeliveries`, `MaxOpens` and
`MaxStarts` bound what is drawn or restarted; two draws are enough for a
conflict, three for one after a release. Two clients and the worker give every
pair of operations on one record, and a third writer. The limits are in guards
only, and the theorems hold for any value of them. So it is with what the runs
have one of: shards, transactions under race, messages of a process, and routes
for the completeness of commit and rollback.

In the runs whose cfg says `CHECK_DEADLOCK FALSE`, the instance may use up its
messages, ids or openings, or the process has stopped.

### Fairness

A goroutine that has begun a handler is scheduled again (`WF` of `Proceed(p)`),
as is the ticker's sweep (`WF` of `Sweep`, `Sweeping`). Nothing makes a client
start a request. The clock goes on (`WF` of `Tick`) in Transactions,
Sweeps and Api. In Sweeps the worker's steps are those of both halves. In Api the
goroutine that serves a request is scheduled; nothing is assumed of handlers, so
that a service that never returns is among the cases.
In Runtime, the steps of the shutdown are taken when they can be, and its
deadline passes; nothing is assumed of clients or handlers.

## Proofs

`tlapm <module>Proofs.tla`. The theorems hold for every value of the constants
that satisfies the named assumptions, which say only what kind of value each
constant is.

- **DeliveryProofs.** `DeliveryInv`: types; the goroutine inside Acquire is the
  holder of the lock; what was handed out is not deliverable; ids handed
  out were drawn before. `HeldOnce` is not inductive alone, since Acquire relies on
  the record it read under the lock not having been handed out since: `Spent` says
  so for each place Acquire can be at. `HandedOnce`, which the code also
  satisfies and nobody wants, is a conjunct of the invariant and not a theorem.
  `NotAgain` is about steps and needs only the types of the stale records.
  `Refinement`: the steps of the service are steps of Dispatch (it never takes
  `Offer`).
  Besides `DeliveryInv` it needs `Homeward`: a message that can be taken is at its
  home, since eviction, sweep and dead-lettering move a record only as they make
  it undeliverable. `BacklogNearLimit` assumes that there are no replays (a replay
  makes messages available at an address without trimming it) and that no request
  is cancelled (a cancelled publisher never trims). Its invariant `Backlog` is
  stronger than the property: for every set S of publishers that are evicting, the
  ready messages that are on none of their lists are at most the maximum length
  and one for each trimming publisher outside S. Without it nothing is known
  of what remains when several publishers evict from lists they read at different
  times.
- **TransactionsProofs.** `TxInv`: types, what each goroutine's copy knows about
  the store (`ProcOK`: the operations before its place are exposed, or gone), and
  the two completeness properties. `VersionInv`, for one route only: a copy is no
  more than one version ahead of the stored transaction it was read from, so the
  version check lets one writer through.
- **ClusterProofs.** `ClusterInv`: types, tokens drawn in order, and `AllCovered`:
  every lease cached or in the hands of a goroutine, unless expired or of a node
  that released, is covered by the coordinator's lease of the same node with no
  earlier expiry. One owner follows from it, and the refinement of Fencing.
- **RuntimeProofs.** `RuntimeInv`: types, `Quiet` (what the shutdown waited for is
  over), the snapshot is the last word, and what was acknowledged is in memory or
  in the snapshot as long as every process saved.
- **RoutingProofs.** `AddressInv`: a request between lookup and store was
  checked, and still is, since nothing is deleted; a new address is in no chain.
  `MatchExact` is about a recursive function, for patterns of any length.
  `Cuttable`, as a function of pattern and key, satisfies the equation that
  `matchParts` is defined by (`MeaningSolves`), so the equation has a solution
  and `matchParts` is one; a shortest pattern at which a solution differs from
  `Cuttable` leads to a shorter one (`SolutionMeans`), so there is no other.
  `RoutesCorrect`: a finite set with a strict total order has a list
  (`ListExists`) that leaves nothing out (`ListComplete`), so the two sorts
  and the loop of Resolve each yield one (`ListBindingsLists`, `SortedRoutes`); the
  first binding of a destination in the sorted list has its highest priority. It
  needs the types, that names resolve and that the bindings are finitely many, and
  assumes of the constants that keys are non-empty sequences of parts and that
  ids are ordered as numbers are.
- **FileLogProofs.** Three layers. `TypeInv`: the types, what is in memory in
  which state of the process, and that every position of an index has its header
  in the file. `LogInv` is about the part of the file before the first damage: by
  `Chain`, each of its records begins where the one before ends, and `marks` are
  these places; all of it is on the disk (`Sound`); the index has these records
  first (`Match`), and a scan that is under way is at the next of them (`Scan`); an
  acknowledged append is on the disk, in the index of its own opening (`Found`),
  and at the place in `marks` that its offset names if no damage lies before it
  (`Placed`). `AckedReadable` alone is not inductive: it says nothing while the log
  is closed, and a scan has to be known to find what the lost index had. A write
  that fails, a kill and a torn write only add bytes behind the sound part, so
  `Agree` (two files have the same first digits) carries everything over.
  `LimitInv`, for `RefusesDamaged`: no length of a sound record is above the limit.
  It has the hypothesis `Fits`, that every record is within the limit. The code
  bounds the body when it appends and the record when it reindexes, and a body at
  the limit that was acknowledged makes the next opening fail (`Reopens` above).
  `CopyInv`, for `CompactOrder`: the copies made so far are those of the live
  records passed so far, in their order; it counts them with `Cardinality`.
- **PeerProofs.** `PeerInv`: the types; the connections of the registry are the
  handlers that run; the four tables that know a session (`SessionTables`: the
  registry, its channels, the peer's `sessionIDs` and the connection's `mapped`)
  agree; `LinkInv` and `FlowInv`. `TablesAgree` is not inductive about links. An
  end removes those of its session and leaves stale handles behind, so `LinkInv`
  adds that ids were drawn before (`Drawn`), that the index of the registry of
  links is complete (`Indexed`), that no two handles know one link (`OneHandle`)
  and that a peer's handles lead to links of its own sessions (`OfPeer`).
  `FlowInv` adds to `FlowAgrees` that the link of a flow under way is known to
  its peer (`FlowKnown`), so that no other peer removes it.
- **ApiProofs.** `RequestInv`: where the two goroutines of a request are and what
  they have written (`Stages`). `LimitInv`: those let in since the window began are
  as many as were counted, and fewer than `Rate` passed in what a second leaves
  before it.
  `AccountInv`: each counter is the number of requests, or copies, it counts.

Facts about finite sets stand at the end of a module, after the library's
theorems, because the provers are slow once these are in sight; the lemmas before
assume them as `Counting` or `Least`, and a last lemma discharges the assumption.
Most leaves name `Zenon`: `tlapm` translates an obligation for the SMT solver within
a fixed five seconds and the translation slows down with every obligation of a run,
so only the leaves that need arithmetic or sequences are left to SMT.
The library's induction theorems take an operator, which the provers cannot
instantiate. Least elements do instead: `LeastExists` gets one for every set of
numbers from the well-foundedness of inclusion on finite sets.

Only model-checked: liveness, `LockIsReleased`, `ExpiredMovesOn`,
`CompletesUnlessStuck`, `ShutdownEnds` and `EventuallyAnswered` (fairness is out of
the prover's reach); and the codec, `DecodesTheEncoded` and `StreamIsExact`, whose
operators recur over nested values and bytes and are declared RECURSIVE, which
the prover does not support.
`LeaseHeld`, `StaleTokens`, `DeliveryIdsUnique` and the types of Addresses are
proved and in no run.

## Not modelled

Authentication and configuration (read once, no state), the PostgreSQL adapters
(the executable does not use them, and what they do is what a database does), the
in-memory log (tests only), the simulator and the probe, the console, migrations
and scripts. In the modelled parts: the registration of nodes, the hash of an
address to a shard, wrap-around of the 32-bit delivery sequence, TLS and SASL
frames, the protocol header, the negotiation of the frame size, request ids, response
bodies, the conversion between gRPC structs and JSON, HTTP requests that match no
route, and the 503 of the readiness probe, which nothing can cause as it is wired. A
compaction's rename lasts although the directory is not synced; a detach finds its
consumer, whose error the code ignores; Settle and Disconnect, which find no delivery to
write back, and the two reads that begin Acquire are one step each, under the lock.

## Plan

Done, in this order: Delivery with its proofs, Transactions with its proofs,
Cluster with Fencing and its proofs, FileLog, Runtime with its proofs, Addresses
with its proofs, Matcher and Routing, Peer, Codec, Api, Sweeps; proofs of Peer's
slots and sessions, Api and FileLog; Dispatch and that Delivery implements it, the
backlog, the links and flows of Peer, the matcher and Resolve.

Left:

1. An abstract all-or-nothing transaction for the one-route, uncancelled case.
2. Codec without RECURSIVE operators, and its round trip for values of any depth.
3. Compositions: body log, snapshot and store across a crash; Peer with Delivery.
4. Hash and wrap-around with their width.
