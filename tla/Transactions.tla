---------------------------- MODULE Transactions ----------------------------
(***************************************************************************)
(* Local transactions: internal/transaction (Service and Transaction), the *)
(* staging operations of internal/delivery/application, and the            *)
(* transaction table of internal/storage.  Requests and the worker's sweep *)
(* run concurrently and hold no lock across repository calls: each works   *)
(* on its own copy of the transaction, and the table refuses a copy whose  *)
(* version is not newer than the stored one.  The addresses are taken to   *)
(* accept messages and to have no maximum length, so that                  *)
(* enforceMaxLength has nothing to do; Delivery models it.                 *)
(***************************************************************************)
EXTENDS Naturals, Sequences, FiniteSets

CONSTANTS
  Txs,      \* transaction ids
  Msgs,     \* message ids
  Clients,  \* goroutines serving requests
  Worker,   \* the goroutine of worker.Service
  None,     \* no transaction
  TTL,      \* Service.ttl
  Fanouts,  \* the numbers of routes a staged publication may have
  Cancels,  \* whether request contexts may end before the request is done
  MaxTime   \* bound on the clock

Procs == Clients \cup {Worker}

ASSUME TransactionConstants ==
  /\ Worker \notin Clients
  /\ None \notin Txs
  /\ TTL \in Nat \ {0}
  /\ Fanouts \subseteq Nat \ {0}
  /\ Cancels \in BOOLEAN
  /\ MaxTime \in Nat

VARIABLES
  now,
  txs,      \* Memory.transactions
  msgs,     \* the staged and the committed records of Memory.messages
  pc,       \* where each goroutine is
  copy,     \* the transaction a goroutine has read and perhaps changed
  next,     \* index of the next operation, or number of routes still to stage
  goal,     \* the terminal state a rollback will set
  active,   \* the transactions the sweep has listed and not yet visited
  owner,    \* history: the transaction each message was staged for
  acked,    \* history: messages whose StagePublish returned without error
  exposed,  \* history: messages CommitStaged has made available
  taken     \* history: messages a consumer has acquired

locals  == <<pc, copy, next, goal, active>>
history == <<owner, acked, exposed, taken>>
vars    == <<now, txs, msgs, locals, history>>

-----------------------------------------------------------------------------
Terminal == {"committed", "rolled-back", "timed-out"}

Transaction ==
  [id : Txs, state : Terminal \cup {"active"}, ops : Seq(Msgs),
   version : Nat \ {0}, expiresAt : Nat]

NoTx == [id |-> None, state |-> "none", ops |-> <<>>, version |-> 1, expiresAt |-> 0]

New(t) ==
  [id |-> t, state |-> "active", ops |-> <<>>, version |-> 1, expiresAt |-> now + TTL]

Add(t, m) == [t EXCEPT !.ops = Append(@, m), !.version = @ + 1]

Complete(t, state) == [t EXCEPT !.state = state, !.version = @ + 1]

Expired(t) == t.state = "active" /\ now >= t.expiresAt

Ops(t) == {t.ops[i] : i \in 1..Len(t.ops)}

\* A staged record: acquired, so that no consumer is given it, and marked with
\* its transaction.
Staged(m) == m \in DOMAIN msgs /\ msgs[m].state = "acquired" /\ msgs[m].tx # None

\* Mutation: equal versions are accepted.
NewerOrEqual(t) == t.version >= txs[t.id].version

\* Mutation: no version is compared.
NewerUnchecked(t) == TRUE

\* The condition under which TransactionMemory.Update stores a copy.
Newer(t) == t.version > txs[t.id].version

UpdateTx(t) ==
  txs' = IF Newer(t) THEN [txs EXCEPT ![t.id] = t] ELSE txs

\* The operation of a goroutine is over.  A rollback run by the sweep goes on
\* with the next transaction if it succeeded and ends the sweep if it did not.
Return(p, ok) ==
  /\ pc' = [pc EXCEPT ![p] = IF p = Worker /\ ok THEN "sweep" ELSE "idle"]
  /\ copy' = [copy EXCEPT ![p] = NoTx]
  /\ next' = [next EXCEPT ![p] = 1]
  /\ goal' = [goal EXCEPT ![p] = "none"]
  /\ active' = IF p = Worker /\ ~ok THEN {} ELSE active

\* Begin to go through the operations of the copy t.
Begin(p, t, label, state) ==
  /\ pc' = [pc EXCEPT ![p] = label]
  /\ copy' = [copy EXCEPT ![p] = t]
  /\ next' = [next EXCEPT ![p] = 1]
  /\ goal' = [goal EXCEPT ![p] = state]

\* Mutation: the loop skips an operation.
AdvanceTwo(p, label) ==
  /\ pc' = [pc EXCEPT ![p] = label]
  /\ next' = [next EXCEPT ![p] = @ + 2]
  /\ UNCHANGED <<copy, goal, active>>

Advance(p, label) ==
  /\ pc' = [pc EXCEPT ![p] = label]
  /\ next' = [next EXCEPT ![p] = @ + 1]
  /\ UNCHANGED <<copy, goal, active>>

Goto(p, label) ==
  /\ pc' = [pc EXCEPT ![p] = label]
  /\ UNCHANGED <<copy, next, goal, active>>

MoreOps(p) == next[p] <= Len(copy[p].ops)
Op(p)      == copy[p].ops[next[p]]

-----------------------------------------------------------------------------
\* A bound: transactions are declared while the clock can still reach their
\* expiry.
Declare(p, t) ==
  /\ pc[p] = "idle"
  /\ now + TTL <= MaxTime
  /\ t \notin DOMAIN txs
  /\ txs' = [x \in DOMAIN txs \cup {t} |-> IF x = t THEN New(t) ELSE txs[x]]
  /\ UNCHANGED <<now, msgs, locals, history>>

\* A completed transaction does not count as expired: staging goes ahead.
StagePublish(p, t, k) ==
  /\ pc[p] = "idle"
  /\ t \in DOMAIN txs
  /\ ~Expired(txs[t])
  /\ pc' = [pc EXCEPT ![p] = "stage"]
  /\ copy' = [copy EXCEPT ![p] = txs[t]]
  /\ next' = [next EXCEPT ![p] = k]
  /\ UNCHANGED <<now, txs, msgs, goal, active, history>>

\* One route of Stage.  Transaction.Add, which the code calls once all routes
\* are staged, changes the copy only, so that it may as well be called here.
StagePut(p, m) ==
  /\ pc[p] = "stage"
  /\ m \notin DOMAIN owner
  /\ msgs' = [x \in DOMAIN msgs \cup {m} |->
                IF x = m THEN [state |-> "acquired", tx |-> copy[p].id] ELSE msgs[x]]
  /\ owner' = [x \in DOMAIN owner \cup {m} |->
                 IF x = m THEN copy[p].id ELSE owner[x]]
  /\ copy' = [copy EXCEPT ![p] = Add(@, m)]
  /\ next' = [next EXCEPT ![p] = @ - 1]
  /\ pc' = [pc EXCEPT ![p] = IF next[p] = 1 THEN "add" ELSE "stage"]
  /\ UNCHANGED <<now, txs, goal, active, acked, exposed, taken>>

\* Add fails on a completed transaction and Update on an outdated copy; both
\* leave the staged records behind.
StageUpdate(p) ==
  /\ pc[p] = "add"
  /\ IF copy[p].state = "active" /\ Newer(copy[p])
     THEN UpdateTx(copy[p]) /\ acked' = acked \cup Ops(copy[p])
     ELSE UNCHANGED <<txs, acked>>
  /\ Return(p, TRUE)
  /\ UNCHANGED <<now, msgs, owner, exposed, taken>>

-----------------------------------------------------------------------------
\* An expired transaction is rolled back instead.
Commit(p, t) ==
  /\ pc[p] = "idle"
  /\ t \in DOMAIN txs
  /\ IF Expired(txs[t]) THEN Begin(p, txs[t], "undo", "timed-out")
                        ELSE Begin(p, txs[t], "commit", "none")
  /\ UNCHANGED <<now, txs, msgs, active, history>>

\* Mutation: an operation that cannot be committed is skipped.
CommitReadSkips(p) ==
  /\ pc[p] = "commit"
  /\ MoreOps(p)
  /\ IF Staged(Op(p)) THEN Goto(p, "expose") ELSE Advance(p, "commit")
  /\ UNCHANGED <<now, txs, msgs, history>>

CommitRead(p) ==
  /\ pc[p] = "commit"
  /\ MoreOps(p)
  /\ IF Staged(Op(p)) THEN Goto(p, "expose") ELSE Return(p, FALSE)
  /\ UNCHANGED <<now, txs, msgs, history>>

\* Mutation: Update stores a record that has been deleted meanwhile.
CommitWriteRevives(p) ==
  /\ pc[p] = "expose"
  /\ msgs' = [x \in DOMAIN msgs \cup {Op(p)} |->
                IF x = Op(p) THEN [state |-> "available", tx |-> None] ELSE msgs[x]]
  /\ exposed' = exposed \cup {Op(p)}
  /\ Advance(p, "commit")
  /\ UNCHANGED <<now, txs, owner, acked, taken>>

\* The record as it was read is written back, available and unmarked.
CommitWrite(p) ==
  /\ pc[p] = "expose"
  /\ IF Op(p) \in DOMAIN msgs
     THEN /\ msgs' = [msgs EXCEPT ![Op(p)] = [state |-> "available", tx |-> None]]
          /\ exposed' = exposed \cup {Op(p)}
          /\ Advance(p, "commit")
     ELSE Return(p, FALSE) /\ UNCHANGED <<msgs, exposed>>
  /\ UNCHANGED <<now, txs, owner, acked, taken>>

CommitDone(p) ==
  /\ pc[p] = "commit"
  /\ ~MoreOps(p)
  /\ IF copy[p].state = "active"
     THEN UpdateTx(Complete(copy[p], "committed"))
     ELSE UNCHANGED txs
  /\ Return(p, TRUE)
  /\ UNCHANGED <<now, msgs, history>>

-----------------------------------------------------------------------------
Rollback(p, t) ==
  /\ pc[p] = "idle"
  /\ t \in DOMAIN txs
  /\ Begin(p, txs[t], "undo", "rolled-back")
  /\ UNCHANGED <<now, txs, msgs, active, history>>

\* A record that is gone is passed over; one that is not staged any more ends
\* the rollback.
UndoRead(p) ==
  /\ pc[p] = "undo"
  /\ MoreOps(p)
  /\ IF Op(p) \notin DOMAIN msgs THEN Advance(p, "undo")
     ELSE IF msgs[Op(p)].tx = None THEN Return(p, FALSE)
     ELSE Goto(p, "delete")
  /\ UNCHANGED <<now, txs, msgs, history>>

UndoDelete(p) ==
  /\ pc[p] = "delete"
  /\ msgs' = [x \in DOMAIN msgs \ {Op(p)} |-> msgs[x]]
  /\ Advance(p, "undo")
  /\ UNCHANGED <<now, txs, history>>

UndoDone(p) ==
  /\ pc[p] = "undo"
  /\ ~MoreOps(p)
  /\ LET done == Complete(copy[p], goal[p])
         ok   == copy[p].state = "active" /\ Newer(done)
     IN  /\ IF ok THEN UpdateTx(done) ELSE UNCHANGED txs
         /\ Return(p, ok)
  /\ UNCHANGED <<now, msgs, history>>

\* Mutation: the sweep lists transactions that have operations only.
ListActiveWithOps == {t \in {txs[x] : x \in DOMAIN txs} : t.state = "active" /\ t.ops # <<>>}

ListActive == {t \in {txs[x] : x \in DOMAIN txs} : t.state = "active"}

Sweep ==
  /\ pc[Worker] = "idle"
  /\ pc' = [pc EXCEPT ![Worker] = "sweep"]
  /\ active' = ListActive
  /\ UNCHANGED <<now, txs, msgs, copy, next, goal, history>>

\* Transactions are visited in the order they were created in, which is the
\* order they expire in.
SweepNext ==
  /\ pc[Worker] = "sweep"
  /\ \E t \in active :
       /\ \A u \in active : t.expiresAt <= u.expiresAt
       /\ active' = active \ {t}
       /\ IF Expired(t) THEN Begin(Worker, t, "undo", "timed-out")
                        ELSE UNCHANGED <<pc, copy, next, goal>>
  /\ UNCHANGED <<now, txs, msgs, history>>

SweepDone ==
  /\ pc[Worker] = "sweep"
  /\ active = {}
  /\ pc' = [pc EXCEPT ![Worker] = "idle"]
  /\ UNCHANGED <<now, txs, msgs, copy, next, goal, active, history>>

-----------------------------------------------------------------------------
\* Acquire of internal/delivery gives an available message to a consumer.
Consume(m) ==
  /\ m \in DOMAIN msgs
  /\ msgs[m].state = "available"
  /\ msgs' = [msgs EXCEPT ![m].state = "acquired"]
  /\ taken' = taken \cup {m}
  /\ UNCHANGED <<now, txs, locals, owner, acked, exposed>>

\* Every repository call first returns ctx.Err(): a request whose context ends
\* stops before its next step and undoes nothing.
Cancel(p) ==
  /\ Cancels
  /\ pc[p] # "idle"
  /\ Return(p, FALSE)
  /\ UNCHANGED <<now, txs, msgs, history>>

Tick ==
  /\ now < MaxTime
  /\ now' = now + 1
  /\ UNCHANGED <<txs, msgs, locals, history>>

Init ==
  /\ now = 0
  /\ txs = <<>>
  /\ msgs = <<>>
  /\ pc = [p \in Procs |-> "idle"]
  /\ copy = [p \in Procs |-> NoTx]
  /\ next = [p \in Procs |-> 1]
  /\ goal = [p \in Procs |-> "none"]
  /\ active = {}
  /\ owner = <<>>
  /\ acked = {}
  /\ exposed = {}
  /\ taken = {}

Request(p) ==
  \E t \in Txs :
    \/ Declare(p, t)
    \/ \E k \in Fanouts : StagePublish(p, t, k)
    \/ Commit(p, t)
    \/ Rollback(p, t)

Undo(p) == UndoRead(p) \/ UndoDelete(p) \/ UndoDone(p)

\* The rest of an operation a client goroutine has begun.
Proceed(p) ==
  \/ \E m \in Msgs : StagePut(p, m)
  \/ StageUpdate(p)
  \/ CommitRead(p)
  \/ CommitWrite(p)
  \/ CommitDone(p)
  \/ Undo(p)

Sweeping == Sweep \/ SweepNext \/ SweepDone \/ Undo(Worker)

Next ==
  \/ \E p \in Clients : Request(p) \/ Proceed(p) \/ Cancel(p)
  \/ Sweeping
  \/ \E m \in Msgs : Consume(m)
  \/ Tick

Spec == Init /\ [][Next]_vars

\* Time passes, the worker's ticker keeps sweeping and a goroutine that has
\* begun an operation is scheduled again.
FairSpec ==
  /\ Spec
  /\ WF_vars(Tick)
  /\ WF_vars(Sweeping)
  /\ \A p \in Clients : WF_vars(Proceed(p))

-----------------------------------------------------------------------------
(* Properties the code has.                                                *)

Labels == {"idle", "stage", "add", "commit", "expose", "undo", "delete", "sweep"}

\* Every variable has its type; transactions are stored under their own ids,
\* and no loop over a transaction's operations runs past their end.
TypeOK ==
  /\ now \in Nat
  /\ txs \in [DOMAIN txs -> Transaction]
  /\ DOMAIN txs \subseteq Txs
  /\ \A t \in DOMAIN txs : txs[t].id = t
  /\ msgs \in [DOMAIN msgs -> [state : {"acquired", "available"}, tx : Txs \cup {None}]]
  /\ DOMAIN msgs \subseteq DOMAIN owner
  /\ pc \in [Procs -> Labels]
  /\ copy \in [Procs -> Transaction \cup {NoTx}]
  /\ next \in [Procs -> Nat]
  /\ \A p \in Procs : pc[p] \in {"commit", "expose", "undo", "delete"} =>
       next[p] \in 1..(Len(copy[p].ops) + 1)
  /\ goal \in [Procs -> Terminal \cup {"none"}]
  /\ active \in SUBSET Transaction
  /\ owner \in [DOMAIN owner -> Txs]
  /\ DOMAIN owner \subseteq Msgs
  /\ acked \in SUBSET Msgs
  /\ exposed \in SUBSET Msgs
  /\ taken \in SUBSET Msgs

\* A completed transaction never changes again, although copies that were read
\* while it was active are still being written.  It is so where every
\* publication has one route.
TerminalIsFinal ==
  [][\A t \in DOMAIN txs : txs[t].state \in Terminal => txs'[t] = txs[t]]_vars

\* A message whose staging was reported as successful stays an operation of its
\* transaction: no concurrent StagePublish, Commit or Rollback writes a copy
\* without it.  It is so where every publication has one route.
AckedKept == \A m \in acked : m \in Ops(txs[owner[m]])

\* A committed transaction has made every one of its messages available: no
\* message slips in between the loop of Commit and the update that ends it.
CommittedExposedAll ==
  \A t \in DOMAIN txs : txs[t].state = "committed" => Ops(txs[t]) \subseteq exposed

\* A rolled-back or timed-out transaction has none of its messages left in the
\* store, even if a commit of it runs at the same time and writes them back.
UndoneIsGone ==
  \A t \in DOMAIN txs : txs[t].state \in {"rolled-back", "timed-out"} =>
    Ops(txs[t]) \cap DOMAIN msgs = {}

Completes(t) == (t \in DOMAIN txs) ~> (t \in DOMAIN txs /\ txs[t].state \in Terminal)

\* An active transaction has a message that was made available: the commit that
\* did so was cut off, or refused because of a concurrent StagePublish.  No
\* rollback of it can succeed.
Stuck ==
  \E t \in DOMAIN txs :
    /\ txs[t].state = "active"
    /\ \E m \in Ops(txs[t]) \cap DOMAIN msgs : msgs[m].tx = None

\* Every declared transaction is completed in the end, by its client or, once it
\* has expired, by the sweep, unless one is stuck for good: that one, and all the
\* sweep would visit after it, stay as they are.
CompletesUnlessStuck == (\A t \in Txs : Completes(t)) \/ <>[]Stuck

-----------------------------------------------------------------------------
(* What the documentation says, and the code does not do.                  *)

\* README.md:116: "The worker marks expired transactions timed out and removes
\* their staged records."  Every declared transaction is completed in the end, by
\* its client or by that worker.
EventuallyCompleted == \A t \in Txs : Completes(t)

\* openapi.yaml: "Message staged and invisible until commit".  A message a
\* consumer can see belongs to a transaction that is committed or being
\* committed.
InvisibleUntilCommit ==
  \A m \in exposed :
    \/ txs[owner[m]].state = "committed"
    \/ \E p \in Clients : pc[p] \in {"commit", "expose"} /\ copy[p].id = owner[m]

\* README.md: "At-most-once ... consumers".  A message given to a consumer is
\* not made available to consumers again.
NotExposedAgain ==
  [][\A m \in taken \cap DOMAIN msgs' : msgs'[m].state # "available"]_vars

\* README.md: "removes their staged records".  No record stays staged for a
\* transaction that was rolled back or has timed out.
StagedRecordsRemoved ==
  \A m \in Msgs, t \in Txs :
    (Staged(m) /\ msgs[m].tx = t /\ txs[t].state \in {"rolled-back", "timed-out"})
      ~> ~Staged(m)
=============================================================================
