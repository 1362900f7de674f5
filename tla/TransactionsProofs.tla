------------------------- MODULE TransactionsProofs -------------------------
(***************************************************************************)
(* Type correctness of Transactions and, for any number of transactions,   *)
(* messages, requests and routes, what the terminal states say about the   *)
(* messages.  Where publications have one route, the version check of      *)
(* TransactionMemory.Update is shown to protect completed transactions and *)
(* acknowledged operations.                                                *)
(***************************************************************************)
EXTENDS Transactions, TLAPS

Busy   == {"stage", "add", "commit", "expose", "undo", "delete"}
Undone == {"rolled-back", "timed-out"}

\* A transaction record or a copy of one: of a stored transaction, with
\* operations that were staged for it.
Known(c) ==
  /\ c \in Transaction
  /\ c.id \in DOMAIN txs
  /\ \A i \in 1..Len(c.ops) : c.ops[i] \in DOMAIN owner /\ owner[c.ops[i]] = c.id

\* What a goroutine's locals are at each place, and what its loop has done to
\* the operations it has passed.
ProcOK(p) ==
  /\ pc[p] \in Busy => Known(copy[p])
  /\ pc[p] = "stage" => next[p] >= 1
  /\ pc[p] \in {"expose", "delete"} => next[p] <= Len(copy[p].ops)
  /\ pc[p] \in {"undo", "delete"} => goal[p] \in Undone
  /\ pc[p] \in {"commit", "expose"} =>
       \A i \in 1..(next[p] - 1) : copy[p].ops[i] \in exposed
  /\ pc[p] \in {"undo", "delete"} =>
       \A i \in 1..(next[p] - 1) : copy[p].ops[i] \notin DOMAIN msgs

StoredKnown == \A t \in DOMAIN txs : Known(txs[t])

TablesOK ==
  /\ StoredKnown
  /\ \A t \in active : Known(t)

TxInv ==
  /\ TypeOK
  /\ TablesOK
  /\ \A p \in Procs : ProcOK(p)
  /\ CommittedExposedAll
  /\ UndoneIsGone

-----------------------------------------------------------------------------
(* The records the operations build.                                       *)

\* A new transaction is well formed and has no operation.
LEMMA NewRecord ==
  ASSUME TransactionConstants, now \in Nat, NEW t \in Txs
  PROVE  /\ New(t) \in Transaction /\ New(t).id = t
         /\ New(t).state = "active" /\ Len(New(t).ops) = 0
BY DEF TransactionConstants, Transaction, New

\* Transaction.Add appends one operation and counts the version up.
LEMMA AddRecord ==
  ASSUME NEW c \in Transaction, NEW m \in Msgs
  PROVE  /\ Add(c, m) \in Transaction
         /\ Add(c, m).id = c.id
         /\ Add(c, m).state = c.state
         /\ Add(c, m).version = c.version + 1
         /\ Len(Add(c, m).ops) = Len(c.ops) + 1
         /\ Add(c, m).ops[Len(c.ops) + 1] = m
         /\ \A i \in 1..Len(c.ops) : Add(c, m).ops[i] = c.ops[i]
<1>1. c.ops \in Seq(Msgs) /\ c.version \in Nat
  BY Zenon DEF Transaction
<1> DEFINE s == Append(c.ops, m)
<1>2. /\ s \in Seq(Msgs)
      /\ Len(s) = Len(c.ops) + 1 /\ s[Len(c.ops) + 1] = m
      /\ \A i \in 1..Len(c.ops) : s[i] = c.ops[i]
  <2>1. s \in Seq(Msgs) /\ Len(s) = Len(c.ops) + 1
    BY <1>1
  <2>2. s[Len(c.ops) + 1] = m
    BY <1>1
  <2>3. \A i \in 1..Len(c.ops) : s[i] = c.ops[i]
    BY <1>1
  <2>4. QED
    BY <2>1, <2>2, <2>3, Zenon
<1>3. PICK n \in Nat \ {0} : n = c.version + 1
  BY <1>1
<1>4. Add(c, m) = [c EXCEPT !.ops = s, !.version = n]
  BY <1>2, <1>3, Zenon DEF Add
<1> HIDE DEF s
<1>5. QED
  BY <1>2, <1>3, <1>4, ZenonT(30) DEF Transaction

\* Transaction.Complete changes the state and counts the version up.
LEMMA CompleteRecord ==
  ASSUME NEW c \in Transaction, NEW s \in Terminal
  PROVE  /\ Complete(c, s) \in Transaction
         /\ Complete(c, s).id = c.id
         /\ Complete(c, s).state = s
         /\ Complete(c, s).version = c.version + 1
         /\ Complete(c, s).ops = c.ops
<1>1. PICK n \in Nat \ {0} : n = c.version + 1
  BY DEF Transaction
<1>2. Complete(c, s) = [c EXCEPT !.state = s, !.version = n]
  BY <1>1, Zenon DEF Complete
<1>3. QED
  BY <1>1, <1>2, ZenonT(30) DEF Transaction

-----------------------------------------------------------------------------
(* What no step undoes: transactions, staged ids and exposures stay known, *)
(* and a deleted message does not come back.                               *)

Grows ==
  /\ DOMAIN txs \subseteq DOMAIN txs'
  /\ DOMAIN owner \subseteq DOMAIN owner'
  /\ \A m \in DOMAIN owner : owner'[m] = owner[m]
  /\ exposed \subseteq exposed'
  /\ DOMAIN msgs' \cap DOMAIN owner \subseteq DOMAIN msgs

\* Every step grows the tables like that.
LEMMA GrowsStep ==
  ASSUME TypeOK, [Next]_vars
  PROVE  Grows
<1>1. ASSUME UNCHANGED <<owner, exposed, msgs>>, DOMAIN txs \subseteq DOMAIN txs'
      PROVE  Grows
  BY <1>1, Zenon DEF Grows
<1>2. ASSUME NEW c, UpdateTx(c)
      PROVE  DOMAIN txs' = DOMAIN txs
  BY <1>2, Zenon DEF UpdateTx
<1>3. ASSUME NEW p, NEW m \in Msgs, StagePut(p, m)
      PROVE  Grows
  BY <1>3, Zenon DEF StagePut, Grows
<1>4. ASSUME NEW p, CommitWrite(p)
      PROVE  Grows
  BY <1>4, Zenon DEF CommitWrite, Grows
<1>5. ASSUME NEW p, UndoDelete(p)
      PROVE  Grows
  BY <1>5, Zenon DEF UndoDelete, Grows, history
<1>6. ASSUME NEW m \in Msgs, Consume(m)
      PROVE  Grows
  BY <1>6, Zenon DEF Consume, Grows
<1>7. ASSUME NEW p, Undo(p)
      PROVE  Grows
  BY <1>1, <1>2, <1>5, <1>7, Zenon DEF Undo, UndoRead, UndoDone, history
<1>8. ASSUME NEW p, Request(p) \/ Proceed(p) \/ Cancel(p)
      PROVE  Grows
  BY <1>1, <1>2, <1>3, <1>4, <1>7, <1>8, Zenon
     DEF Request, Declare, StagePublish, Commit, Rollback, Proceed, StageUpdate,
         CommitRead, CommitDone, Cancel, history
<1>9. QED
  BY <1>1, <1>6, <1>7, <1>8, Zenon
     DEF Next, Sweeping, Sweep, SweepNext, SweepDone, Tick, vars, history

\* A transaction has finitely many operations.
LEMMA OpsLength ==
  ASSUME NEW t \in Transaction
  PROVE  Len(t.ops) \in Nat
BY DEF Transaction

\* What is known of a record stays known.
LEMMA KnownFrame ==
  ASSUME Grows, NEW c, Known(c)
  PROVE  Known(c)'
BY Zenon DEF Grows, Known

\* A goroutine that does not move is not disturbed by one that does.
LEMMA ProcFrame ==
  ASSUME TypeOK, Grows, NEW q \in Procs, ProcOK(q),
         pc'[q] = pc[q], copy'[q] = copy[q], next'[q] = next[q], goal'[q] = goal[q]
  PROVE  ProcOK(q)'
<1>1. pc[q] \in Busy => Known(copy[q])'
  BY DEF Grows, ProcOK, Known
<1>2. pc[q] \in {"undo", "delete"} =>
        \A i \in 1..(next[q] - 1) : copy[q].ops[i] \notin DOMAIN msgs'
  <2>1. SUFFICES ASSUME pc[q] \in {"undo", "delete"}, NEW i \in 1..(next[q] - 1)
                 PROVE  copy[q].ops[i] \notin DOMAIN msgs'
    BY Zenon
  <2>2. i \in 1..Len(copy[q].ops) /\ pc[q] \in Busy
    BY <2>1 DEF TypeOK, ProcOK, Known, Transaction, Busy
  <2>3. copy[q].ops[i] \in DOMAIN owner /\ copy[q].ops[i] \notin DOMAIN msgs
    BY <2>1, <2>2, Zenon DEF ProcOK, Known
  <2>4. QED
    BY <2>3, Zenon DEF Grows
<1>3. pc[q] \in {"commit", "expose"} =>
        \A i \in 1..(next[q] - 1) : copy[q].ops[i] \in exposed'
  BY Zenon DEF ProcOK, Grows
<1>4. QED
  BY <1>1, <1>2, <1>3, Zenon DEF ProcOK

\* A step that stores no record under a terminal state keeps what the terminal
\* states say of the messages.
LEMMA TerminalFrame ==
  ASSUME Grows, TablesOK, CommittedExposedAll, UndoneIsGone,
         \A t \in DOMAIN txs' : txs'[t].state \in Terminal =>
            t \in DOMAIN txs /\ txs'[t] = txs[t]
  PROVE  CommittedExposedAll' /\ UndoneIsGone'
BY DEF Grows, TablesOK, StoredKnown, Known, CommittedExposedAll, UndoneIsGone, Terminal, Ops

-----------------------------------------------------------------------------
(* The goroutines' locals.                                                 *)

LocalsTyped ==
  /\ pc \in [Procs -> Labels]
  /\ copy \in [Procs -> Transaction \cup {NoTx}]
  /\ next \in [Procs -> Nat]
  /\ \A p \in Procs : pc[p] \in {"commit", "expose", "undo", "delete"} =>
       next[p] \in 1..(Len(copy[p].ops) + 1)
  /\ goal \in [Procs -> Terminal \cup {"none"}]

LocalsOK == LocalsTyped /\ \A p \in Procs : ProcOK(p)

SharedTyped ==
  /\ now \in Nat
  /\ txs \in [DOMAIN txs -> Transaction]
  /\ DOMAIN txs \subseteq Txs
  /\ \A t \in DOMAIN txs : txs[t].id = t
  /\ msgs \in [DOMAIN msgs -> [state : {"acquired", "available"}, tx : Txs \cup {None}]]
  /\ DOMAIN msgs \subseteq DOMAIN owner
  /\ active \in SUBSET Transaction
  /\ owner \in [DOMAIN owner -> Txs]
  /\ DOMAIN owner \subseteq Msgs
  /\ acked \in SUBSET Msgs
  /\ exposed \in SUBSET Msgs
  /\ taken \in SUBSET Msgs

\* The two halves of the type invariant.
LEMMA TypeHalves == TypeOK <=> LocalsTyped /\ SharedTyped
BY Zenon DEF TypeOK, LocalsTyped, SharedTyped

\* One goroutine moves to a new place with new locals.
Moves(p, l, c, n, g) ==
  /\ pc' = [pc EXCEPT ![p] = l]
  /\ copy' = [copy EXCEPT ![p] = c]
  /\ next' = [next EXCEPT ![p] = n]
  /\ goal' = [goal EXCEPT ![p] = g]

\* The locals stay well formed when those of the moving goroutine do.
LEMMA MoveOK ==
  ASSUME TypeOK, LocalsOK, Grows, NEW p \in Procs,
         NEW l \in Labels, NEW c \in Transaction \cup {NoTx}, NEW n \in Nat,
         NEW g \in Terminal \cup {"none"}, Moves(p, l, c, n, g),
         l \in {"commit", "expose", "undo", "delete"} => n \in 1..(Len(c.ops) + 1),
         ProcOK(p)'
  PROVE  LocalsOK'
<1>1. LocalsTyped'
  BY Zenon DEF LocalsOK, LocalsTyped, Moves
<1>2. ASSUME NEW q \in Procs PROVE ProcOK(q)'
  <2>1. CASE q = p
    BY <2>1, Zenon
  <2>2. CASE q # p
    <3>1. /\ pc'[q] = pc[q] /\ copy'[q] = copy[q]
          /\ next'[q] = next[q] /\ goal'[q] = goal[q]
      BY <2>2, Zenon DEF LocalsOK, LocalsTyped, Moves
    <3>2. QED
      BY <3>1, ProcFrame, Zenon DEF LocalsOK
  <2>3. QED
    BY <2>1, <2>2, Zenon
<1>3. QED
  BY <1>1, <1>2, Zenon DEF LocalsOK

\* Returning leaves nothing behind.
LEMMA ReturnOK ==
  ASSUME TypeOK, LocalsOK, Grows, NEW p \in Procs, NEW ok \in BOOLEAN, Return(p, ok)
  PROVE  LocalsOK' /\ active' \subseteq active
<1>1. PICK l \in {"idle", "sweep"} : Moves(p, l, NoTx, 1, "none")
  BY Zenon DEF Return, Moves
<1>2. ProcOK(p)'
  BY <1>1, Zenon DEF Moves, ProcOK, Busy, LocalsOK, LocalsTyped
<1>3. LocalsOK'
  BY <1>1, <1>2, MoveOK, Zenon DEF Labels
<1>4. QED
  BY <1>3, Zenon DEF Return

\* A loop begins with a known copy and nothing done.
LEMMA BeginOK ==
  ASSUME TypeOK, LocalsOK, Grows, NEW p \in Procs, NEW c, Known(c),
         NEW l \in {"commit", "undo"}, NEW g \in Terminal \cup {"none"},
         l = "undo" => g \in Undone, Begin(p, c, l, g)
  PROVE  LocalsOK'
<1>1. Moves(p, l, c, 1, g)
  BY Zenon DEF Begin, Moves
<1>2. c \in Transaction /\ Known(c)'
  BY Zenon DEF Known, Grows
<1>3. pc'[p] = l /\ copy'[p] = c /\ next'[p] = 1 /\ goal'[p] = g
  BY <1>1, Zenon DEF Moves, LocalsOK, LocalsTyped
<1>4. ProcOK(p)'
  BY <1>2, <1>3 DEF ProcOK, Known, Busy
<1>5. Len(c.ops) \in Nat
  BY <1>2 DEF Transaction
<1>6. QED
  BY <1>1, <1>2, <1>4, <1>5, MoveOK DEF Labels

\* A loop moves on past an operation that is dealt with.
LEMMA AdvanceOK ==
  ASSUME TypeOK, LocalsOK, Grows, NEW p \in Procs, pc[p] \in Busy, MoreOps(p),
         NEW l \in {"commit", "undo"}, Advance(p, l),
         \/ l = "commit" /\ pc[p] = "expose" /\ Op(p) \in exposed'
         \/ l = "undo" /\ pc[p] \in {"undo", "delete"} /\ Op(p) \notin DOMAIN msgs'
  PROVE  LocalsOK' /\ active' = active
<1>0. /\ Known(copy[p]) /\ next[p] \in Nat /\ goal[p] \in Terminal \cup {"none"}
      /\ Len(copy[p].ops) \in Nat /\ next[p] \in 1..Len(copy[p].ops)
  BY DEF LocalsOK, LocalsTyped, ProcOK, Known, Transaction, MoreOps
<1>1. Moves(p, l, copy[p], next[p] + 1, goal[p]) /\ active' = active
  BY Zenon DEF Advance, Moves, LocalsOK, LocalsTyped
<1>2. /\ pc'[p] = l /\ copy'[p] = copy[p] /\ next'[p] = next[p] + 1
      /\ goal'[p] = goal[p]
  BY <1>1, Zenon DEF Moves, LocalsOK, LocalsTyped
<1>3. Known(copy[p])'
  BY <1>0, <1>2 DEF Known, Grows
<1>4. l = "undo" => goal[p] \in Undone
  BY Zenon DEF LocalsOK, ProcOK
<1>5. ASSUME l = "commit", NEW i \in 1..next[p]
      PROVE  copy[p].ops[i] \in exposed'
  <2>1. pc[p] = "expose" /\ Op(p) \in exposed'
    BY <1>5, Zenon
  <2>2. CASE i = next[p]
    BY ONLY <2>1, <2>2, Zenon DEF Op
  <2>3. CASE i \in 1..(next[p] - 1)
    <3>1. copy[p].ops[i] \in exposed
      BY <2>1, <2>3, Zenon DEF LocalsOK, ProcOK
    <3>2. QED
      BY <3>1, Zenon DEF Grows
  <2>4. i = next[p] \/ i \in 1..(next[p] - 1)
    BY <1>0
  <2>5. QED
    BY <2>2, <2>3, <2>4, Zenon
<1>6. ASSUME l = "undo", NEW i \in 1..next[p]
      PROVE  copy[p].ops[i] \notin DOMAIN msgs'
  <2>1. pc[p] \in {"undo", "delete"} /\ Op(p) \notin DOMAIN msgs'
    BY <1>6, Zenon
  <2>2. CASE i = next[p]
    BY ONLY <2>1, <2>2, Zenon DEF Op
  <2>3. CASE i \in 1..(next[p] - 1)
    <3>1. i \in 1..Len(copy[p].ops)
      BY <1>0, <2>3
    <3>2. copy[p].ops[i] \notin DOMAIN msgs
      BY <2>1, <2>3, Zenon DEF LocalsOK, ProcOK
    <3>3. copy[p].ops[i] \in DOMAIN owner
      BY <1>0, <3>1, Zenon DEF Known
    <3>4. QED
      BY <3>2, <3>3, Zenon DEF Grows
  <2>4. i = next[p] \/ i \in 1..(next[p] - 1)
    BY <1>0
  <2>5. QED
    BY <2>2, <2>3, <2>4, Zenon
<1>7. ProcOK(p)'
  <2>1. next'[p] - 1 = next[p] /\ l \in {"commit", "undo"}
    BY <1>0, <1>2
  <2>2. QED
    BY ONLY <1>2, <1>3, <1>4, <1>5, <1>6, <2>1, Zenon DEF ProcOK
<1>8. QED
  BY <1>0, <1>1, <1>7, MoveOK DEF Known, Labels

\* A loop goes from reading an operation's record to writing it.
LEMMA GotoOK ==
  ASSUME TypeOK, LocalsOK, Grows, NEW p \in Procs, MoreOps(p),
         NEW l \in {"expose", "delete"}, Goto(p, l),
         \/ l = "expose" /\ pc[p] = "commit"
         \/ l = "delete" /\ pc[p] = "undo"
  PROVE  LocalsOK' /\ active' = active
<1>0. /\ Known(copy[p]) /\ next[p] \in Nat /\ goal[p] \in Terminal \cup {"none"}
      /\ Len(copy[p].ops) \in Nat /\ next[p] \in 1..Len(copy[p].ops)
  BY DEF LocalsOK, LocalsTyped, ProcOK, Known, Transaction, MoreOps, Busy
<1>1. Moves(p, l, copy[p], next[p], goal[p]) /\ active' = active
  BY Zenon DEF Goto, Moves, LocalsOK, LocalsTyped
<1>2. /\ pc'[p] = l /\ copy'[p] = copy[p] /\ next'[p] = next[p]
      /\ goal'[p] = goal[p]
  BY <1>1, Zenon DEF Moves, LocalsOK, LocalsTyped
<1>3. Known(copy[p])'
  BY <1>0, <1>2 DEF Known, Grows
<1>4. l = "expose" => \A i \in 1..(next[p] - 1) : copy[p].ops[i] \in exposed'
  BY <1>0, Zenon DEF LocalsOK, ProcOK, Grows
<1>5. l = "delete" => \A i \in 1..(next[p] - 1) : copy[p].ops[i] \notin DOMAIN msgs'
  BY <1>0 DEF LocalsOK, ProcOK, Grows, Known
<1>6. l = "delete" => goal[p] \in Undone
  BY Zenon DEF LocalsOK, ProcOK
<1>7. ProcOK(p)'
  <2>1. next[p] <= Len(copy[p].ops) /\ l \in {"expose", "delete"}
    BY <1>0
  <2>2. QED
    BY ONLY <1>2, <1>3, <1>4, <1>5, <1>6, <2>1, Zenon DEF ProcOK
<1>8. QED
  BY <1>0, <1>1, <1>7, MoveOK DEF Known, Labels

-----------------------------------------------------------------------------
(* Every step preserves the invariant.                                     *)

\* What is known stays known.
LEMMA TablesFrame ==
  ASSUME TablesOK, Grows, active' \subseteq active \cup {txs[t] : t \in DOMAIN txs},
         StoredKnown'
  PROVE  TablesOK'
<1>1. ASSUME NEW c \in active' PROVE Known(c)
  BY <1>1, Zenon DEF TablesOK, StoredKnown
<1>2. QED
  BY <1>1, KnownFrame, Zenon DEF TablesOK

\* A step that leaves the two tables alone, or only deletes messages.
LEMMA QuietStep ==
  ASSUME TxInv, Grows, LocalsOK', UNCHANGED <<txs, owner, acked, exposed, taken>>,
         now' \in Nat, DOMAIN msgs' \subseteq DOMAIN msgs,
         \A m \in DOMAIN msgs' : msgs'[m] = msgs[m],
         msgs' = [m \in DOMAIN msgs' |-> msgs'[m]],
         active' \subseteq active \cup {txs[t] : t \in DOMAIN txs}
  PROVE  TxInv'
<1>1. SharedTyped'
  <2>1. msgs' \in [DOMAIN msgs' -> [state : {"acquired", "available"},
                                   tx : Txs \cup {None}]]
    BY Zenon DEF TxInv, TypeOK
  <2>2. active' \in SUBSET Transaction
    BY DEF TxInv, TypeOK
  <2>3. QED
    BY <2>1, <2>2, Zenon DEF TxInv, TypeOK, SharedTyped
<1>2. StoredKnown'
  BY DEF TxInv, TablesOK, StoredKnown, Known, Grows
<1>3. TablesOK'
  BY <1>2, TablesFrame, Zenon DEF TxInv
<1>4. CommittedExposedAll' /\ UndoneIsGone'
  BY TerminalFrame, Zenon DEF TxInv
<1>5. TypeOK'
  BY <1>1, TypeHalves, Zenon DEF LocalsOK, TypeOK, LocalsTyped, SharedTyped
<1>6. QED
  BY <1>3, <1>4, <1>5, Zenon DEF TxInv, LocalsOK

\* A step that stores one known record and touches no message.
LEMMA StoreStep ==
  ASSUME TxInv, Grows, LocalsOK', UNCHANGED <<now, msgs, owner, exposed, taken>>,
         acked' \in SUBSET Msgs, active' \subseteq active,
         NEW c, Known(c), UpdateTx(c),
         c.state = "committed" => Ops(c) \subseteq exposed,
         c.state \in Undone => Ops(c) \cap DOMAIN msgs = {}
  PROVE  TxInv'
<1>1. \A t \in DOMAIN txs' : txs'[t] = txs[t] \/ (t = c.id /\ txs'[t] = c)
  BY Zenon DEF UpdateTx
<1>2. DOMAIN txs' = DOMAIN txs
  BY Zenon DEF UpdateTx
<1>3. SharedTyped'
  <2>1. /\ txs' \in [DOMAIN txs' -> Transaction]
        /\ \A t \in DOMAIN txs' : txs'[t].id = t
    BY <1>1, <1>2, Zenon DEF TxInv, TypeOK, Known, UpdateTx
  <2>2. QED
    BY <1>2, <2>1, Zenon DEF TxInv, TypeOK, SharedTyped
<1>4. StoredKnown'
  <2>1. ASSUME NEW t \in DOMAIN txs' PROVE Known(txs[t])'
    <3>1. PICK d : d = txs'[t]
      BY Zenon
    <3>2. Known(d)
      BY <1>1, <1>2, <3>1, Zenon DEF TxInv, TablesOK, StoredKnown
    <3>3. Known(d)'
      BY <3>2, KnownFrame, Zenon
    <3>4. QED
      BY ONLY <3>1, <3>3, Zenon DEF Known
  <2>2. QED
    BY <2>1, Zenon DEF StoredKnown
<1>5. TablesOK'
  BY <1>4, TablesFrame, Zenon DEF TxInv
<1>6. CommittedExposedAll' /\ UndoneIsGone'
  BY <1>1, <1>2 DEF TxInv, CommittedExposedAll, UndoneIsGone, Ops, Undone
<1>7. TypeOK'
  BY <1>3, Zenon DEF LocalsOK, TypeOK, LocalsTyped, SharedTyped
<1>8. QED
  BY <1>5, <1>6, <1>7, Zenon DEF TxInv, LocalsOK

\* The loops of Rollback, whoever runs them.
LEMMA UndoNext ==
  ASSUME TransactionConstants, TxInv, Grows, NEW p \in Procs, Undo(p)
  PROVE  TxInv'
<1>0. TypeOK /\ LocalsOK
  BY TypeHalves, Zenon DEF TxInv, LocalsOK
<1>m. msgs = [m \in DOMAIN msgs |-> msgs[m]]
  BY <1>0, Zenon DEF TypeOK
<1>1. CASE UndoRead(p)
  <2>1. LocalsOK' /\ active' \subseteq active
    <3>1. CASE Op(p) \notin DOMAIN msgs /\ Advance(p, "undo")
      BY <1>0, <1>1, <3>1, AdvanceOK, Zenon DEF UndoRead, Busy
    <3>2. CASE Return(p, FALSE)
      BY <1>0, <3>2, ReturnOK, Zenon
    <3>3. CASE Goto(p, "delete")
      BY <1>0, <1>1, <3>3, GotoOK, Zenon DEF UndoRead
    <3>4. QED
      BY <1>1, <3>1, <3>2, <3>3, Zenon DEF UndoRead
  <2>2. QED
    BY <1>0, <1>m, <1>1, <2>1, QuietStep DEF UndoRead, history, TypeOK
<1>2. CASE UndoDelete(p)
  <2>1. MoreOps(p) /\ pc[p] \in Busy
    BY <1>0, <1>2, Zenon DEF UndoDelete, LocalsOK, ProcOK, MoreOps, Busy
  <2>2. LocalsOK' /\ active' = active
    BY <1>0, <1>2, <2>1, AdvanceOK, Zenon DEF UndoDelete
  <2>3. QED
    BY <1>0, <1>m, <1>2, <2>2, QuietStep DEF UndoDelete, history, TypeOK
<1>3. CASE UndoDone(p)
  <2> DEFINE done == Complete(copy[p], goal[p])
             ok   == copy[p].state = "active" /\ Newer(done)
  <2>1. /\ Known(copy[p]) /\ goal[p] \in Undone /\ next[p] = Len(copy[p].ops) + 1
        /\ \A i \in 1..Len(copy[p].ops) : copy[p].ops[i] \notin DOMAIN msgs
    <3>1. pc[p] = "undo" /\ ~MoreOps(p)
      BY <1>3, Zenon DEF UndoDone
    <3>2. /\ Known(copy[p]) /\ goal[p] \in Undone
          /\ \A i \in 1..(next[p] - 1) : copy[p].ops[i] \notin DOMAIN msgs
      BY <1>0, <3>1, Zenon DEF LocalsOK, ProcOK, Busy
    <3>3. next[p] \in 1..(Len(copy[p].ops) + 1) /\ Len(copy[p].ops) \in Nat
      BY <1>0, <3>1, <3>2 DEF LocalsOK, LocalsTyped, Known, Transaction
    <3>4. next[p] = Len(copy[p].ops) + 1
      BY ONLY <3>1, <3>3 DEF MoreOps
    <3>5. next[p] - 1 = Len(copy[p].ops)
      BY ONLY <3>3, <3>4
    <3>6. QED
      BY ONLY <3>2, <3>4, <3>5, Zenon
  <2>2. Known(done) /\ done.state \in Undone /\ Ops(done) \cap DOMAIN msgs = {}
    <3>1. copy[p] \in Transaction /\ goal[p] \in Terminal
      BY <2>1, Zenon DEF Known, Undone, Terminal
    <3>2. /\ done \in Transaction /\ done.id = copy[p].id
          /\ done.state = goal[p] /\ done.ops = copy[p].ops
      BY ONLY <3>1, CompleteRecord, Zenon
    <3> HIDE DEF done
    <3>3. Known(done)
      BY ONLY <2>1, <3>2, Zenon DEF Known
    <3>4. Ops(done) \cap DOMAIN msgs = {}
      BY ONLY <2>1, <3>2, Zenon DEF Ops
    <3>5. QED
      BY <2>1, <3>2, <3>3, <3>4, Zenon
  <2>3. LocalsOK' /\ active' \subseteq active
    BY <1>0, <1>3, ReturnOK, Zenon DEF UndoDone
  <2> HIDE DEF done
  <2>4. CASE UpdateTx(done)
    BY <1>0, <1>3, <2>2, <2>3, <2>4, StoreStep, Zenon
       DEF UndoDone, history, Undone, TypeOK
  <2>5. CASE UNCHANGED txs
    BY <1>0, <1>m, <1>3, <2>3, <2>5, QuietStep DEF UndoDone, history, TypeOK
  <2>6. QED
    BY <1>3, <2>4, <2>5, Zenon DEF UndoDone, done
<1>4. QED
  BY <1>1, <1>2, <1>3, Zenon DEF Undo

\* Staging: a record for a new message, and the copy that knows it.
LEMMA StagePutNext ==
  ASSUME TransactionConstants, TxInv, Grows, NEW p \in Procs, NEW m \in Msgs,
         StagePut(p, m)
  PROVE  TxInv'
<1>0. /\ TypeOK /\ LocalsOK /\ Known(copy[p]) /\ next[p] \in Nat /\ next[p] >= 1
      /\ goal[p] \in Terminal \cup {"none"} /\ m \notin DOMAIN owner
  BY TypeHalves, Zenon DEF TxInv, LocalsOK, LocalsTyped, StagePut, ProcOK, Busy
<1> DEFINE l == IF next[p] = 1 THEN "add" ELSE "stage"
<1>1. Moves(p, l, Add(copy[p], m), next[p] - 1, goal[p])
  <2>1. goal' = [goal EXCEPT ![p] = goal[p]]
    BY <1>0, Zenon DEF StagePut, LocalsOK, LocalsTyped
  <2>2. QED
    BY <2>1, Zenon DEF StagePut, Moves
<1>2. /\ pc'[p] = l /\ copy'[p] = Add(copy[p], m) /\ next'[p] = next[p] - 1
  BY <1>0, <1>1, Zenon DEF Moves, LocalsOK, LocalsTyped
<1>l. /\ l \in {"stage", "add"} /\ next[p] - 1 \in Nat
      /\ l = "stage" => next[p] - 1 >= 1
  <2>1. next[p] \in Nat /\ next[p] >= 1
    BY <1>0, Zenon
  <2>2. QED
    BY ONLY <2>1
<1> HIDE DEF l
<1>3. Add(copy[p], m) \in Transaction
  BY <1>0, AddRecord, Zenon DEF Known
<1>4. Known(copy[p])'
  <2>1. owner'[m] = copy[p].id /\ m \in DOMAIN owner' /\ copy[p].id \in DOMAIN txs'
    BY <1>0, Zenon DEF StagePut, Known
  <2>2. copy[p] \in Transaction /\ Len(copy[p].ops) \in Nat
    <3>1. copy[p] \in Transaction
      BY <1>0, Zenon DEF Known
    <3>2. QED
      BY <3>1, OpsLength, Zenon
  <2>3. PICK d \in Transaction :
          /\ d = Add(copy[p], m) /\ d.id = copy[p].id
          /\ Len(d.ops) = Len(copy[p].ops) + 1 /\ d.ops[Len(copy[p].ops) + 1] = m
          /\ \A i \in 1..Len(copy[p].ops) : d.ops[i] = copy[p].ops[i]
    BY ONLY <2>2, m \in Msgs, AddRecord
  <2>4. ASSUME NEW i \in 1..Len(d.ops)
        PROVE  d.ops[i] \in DOMAIN owner' /\ owner'[d.ops[i]] = d.id
    <3>1. CASE i \in 1..Len(copy[p].ops)
      <4>1. d.ops[i] \in DOMAIN owner /\ owner[d.ops[i]] = d.id
        BY <1>0, <2>3, <3>1, Zenon DEF Known
      <4>2. QED
        BY <4>1, Zenon DEF Grows
    <3>2. CASE i = Len(copy[p].ops) + 1
      BY ONLY <2>1, <2>3, <3>2, Zenon
    <3>3. i \in 1..Len(copy[p].ops) \/ i = Len(copy[p].ops) + 1
      BY ONLY <2>2, <2>3, <2>4
    <3>4. QED
      BY <3>1, <3>2, <3>3, Zenon
  <2>5. copy'[p] = d /\ d.id \in DOMAIN txs'
    BY <1>2, <2>1, <2>3, Zenon
  <2>6. QED
    BY ONLY <2>3, <2>4, <2>5, Zenon DEF Known
<1>5. ProcOK(p)'
  BY <1>l, <1>2, <1>4, Zenon DEF ProcOK
<1>6. LocalsOK'
  BY <1>0, <1>l, <1>1, <1>3, <1>5, MoveOK DEF Labels
<1>7. SharedTyped'
  <2>1. copy[p].id \in Txs
    BY <1>0, Zenon DEF Known, Transaction
  <2>2. msgs' \in [DOMAIN msgs' -> [state : {"acquired", "available"},
                                   tx : Txs \cup {None}]]
    BY <1>0, <2>1, Zenon DEF StagePut, TypeOK
  <2>3. owner' \in [DOMAIN owner' -> Txs] /\ DOMAIN owner' \subseteq Msgs
        /\ DOMAIN msgs' \subseteq DOMAIN owner'
    BY <1>0, <2>1, Zenon DEF StagePut, TypeOK
  <2>4. QED
    BY <1>0, <2>2, <2>3, Zenon DEF StagePut, TypeOK, SharedTyped
<1>8. StoredKnown'
  <2>1. txs' = txs
    BY Zenon DEF StagePut
  <2>2. StoredKnown
    BY Zenon DEF TxInv, TablesOK
  <2>3. Grows
    BY <1>0, Zenon
  <2>4. QED
    BY ONLY <2>1, <2>2, <2>3, Zenon DEF StoredKnown, Known, Grows
<1>9. TablesOK'
  BY <1>8, TablesFrame, Zenon DEF TxInv, StagePut
<1>10. CommittedExposedAll' /\ UndoneIsGone'
  BY TerminalFrame, Zenon DEF TxInv, StagePut
<1>11. TypeOK'
  BY <1>6, <1>7, Zenon DEF LocalsOK, TypeOK, LocalsTyped, SharedTyped
<1>12. QED
  BY <1>6, <1>9, <1>10, <1>11, Zenon DEF TxInv, LocalsOK

\* A message is made available, or given to a consumer.
LEMMA ExposeStep ==
  ASSUME TxInv, Grows, LocalsOK', UNCHANGED <<now, txs, owner, acked, active>>,
         NEW m \in DOMAIN msgs,
         NEW r \in [state : {"acquired", "available"}, tx : Txs \cup {None}],
         msgs' = [msgs EXCEPT ![m] = r],
         exposed' \in SUBSET Msgs, taken' \in SUBSET Msgs
  PROVE  TxInv'
<1>1. SharedTyped'
  <2>1. /\ msgs' \in [DOMAIN msgs' -> [state : {"acquired", "available"},
                                      tx : Txs \cup {None}]]
        /\ DOMAIN msgs' = DOMAIN msgs
    BY Zenon DEF TxInv, TypeOK
  <2>2. QED
    BY <2>1, Zenon DEF TxInv, TypeOK, SharedTyped
<1>2. StoredKnown'
  BY Zenon DEF TxInv, TablesOK, StoredKnown, Known, Grows
<1>3. TablesOK'
  BY <1>2, TablesFrame, Zenon DEF TxInv
<1>4. CommittedExposedAll' /\ UndoneIsGone'
  BY TerminalFrame, Zenon DEF TxInv
<1>5. TypeOK'
  BY <1>1, Zenon DEF LocalsOK, TypeOK, LocalsTyped, SharedTyped
<1>6. QED
  BY <1>3, <1>4, <1>5, Zenon DEF TxInv, LocalsOK

\* The loop of Commit and the update that ends it.
LEMMA CommitNext ==
  ASSUME TransactionConstants, TxInv, Grows, NEW p \in Clients,
         CommitRead(p) \/ CommitWrite(p) \/ CommitDone(p)
  PROVE  TxInv'
<1>0. TypeOK /\ LocalsOK /\ p \in Procs /\ msgs = [m \in DOMAIN msgs |-> msgs[m]]
  BY TypeHalves, Zenon DEF TxInv, LocalsOK, Procs, TypeOK
<1>1. CASE CommitRead(p)
  <2>1. LocalsOK' /\ active' \subseteq active
    <3>1. CASE Goto(p, "expose")
      BY <1>0, <1>1, <3>1, GotoOK, Zenon DEF CommitRead
    <3>2. CASE Return(p, FALSE)
      BY <1>0, <3>2, ReturnOK, Zenon
    <3>3. QED
      BY <1>1, <3>1, <3>2, Zenon DEF CommitRead
  <2>2. QED
    BY <1>0, <1>1, <2>1, QuietStep DEF CommitRead, history, TypeOK
<1>2. CASE CommitWrite(p)
  <2>1. MoreOps(p) /\ pc[p] \in Busy /\ pc[p] = "expose"
    BY <1>0, <1>2, Zenon DEF CommitWrite, LocalsOK, ProcOK, MoreOps, Busy
  <2>2. CASE Op(p) \in DOMAIN msgs
    <3>1. /\ msgs' = [msgs EXCEPT ![Op(p)] = [state |-> "available", tx |-> None]]
          /\ exposed' = exposed \cup {Op(p)} /\ Advance(p, "commit")
          /\ UNCHANGED <<now, txs, owner, acked, taken>>
      BY <1>2, <2>2, Zenon DEF CommitWrite
    <3>2. LocalsOK' /\ active' = active
      BY <1>0, <2>1, <3>1, AdvanceOK, Zenon
    <3>3. exposed' \in SUBSET Msgs /\ taken' \in SUBSET Msgs
      BY <1>0, <2>2, <3>1, Zenon DEF TypeOK
    <3>4. QED
      BY <2>2, <3>1, <3>2, <3>3, ExposeStep, Zenon
  <2>3. CASE Op(p) \notin DOMAIN msgs
    <3>1. LocalsOK' /\ active' \subseteq active
      BY <1>0, <1>2, <2>3, ReturnOK, Zenon DEF CommitWrite
    <3>2. QED
      BY <1>0, <1>2, <2>3, <3>1, QuietStep DEF CommitWrite, TypeOK
  <2>4. QED
    BY <2>2, <2>3, Zenon
<1>3. CASE CommitDone(p)
  <2> DEFINE done == Complete(copy[p], "committed")
  <2>1. /\ Known(copy[p]) /\ next[p] = Len(copy[p].ops) + 1
        /\ \A i \in 1..Len(copy[p].ops) : copy[p].ops[i] \in exposed
    <3>1. pc[p] = "commit" /\ ~MoreOps(p)
      BY <1>3, Zenon DEF CommitDone
    <3>2. Known(copy[p]) /\ \A i \in 1..(next[p] - 1) : copy[p].ops[i] \in exposed
      BY <1>0, <3>1, Zenon DEF LocalsOK, ProcOK, Busy
    <3>3. next[p] \in 1..(Len(copy[p].ops) + 1) /\ Len(copy[p].ops) \in Nat
      BY <1>0, <3>1, <3>2 DEF LocalsOK, LocalsTyped, Known, Transaction
    <3>4. next[p] = Len(copy[p].ops) + 1
      BY ONLY <3>1, <3>3 DEF MoreOps
    <3>5. next[p] - 1 = Len(copy[p].ops)
      BY ONLY <3>3, <3>4
    <3>6. QED
      BY ONLY <3>2, <3>4, <3>5, Zenon
  <2>2. Known(done) /\ done.state = "committed" /\ Ops(done) \subseteq exposed
    <3>1. copy[p] \in Transaction /\ "committed" \in Terminal
      BY <2>1, Zenon DEF Known, Terminal
    <3>2. /\ done \in Transaction /\ done.id = copy[p].id
          /\ done.state = "committed" /\ done.ops = copy[p].ops
      BY ONLY <3>1, CompleteRecord, Zenon
    <3> HIDE DEF done
    <3>3. Known(done)
      BY ONLY <2>1, <3>2, Zenon DEF Known
    <3>4. Ops(done) \subseteq exposed
      BY ONLY <2>1, <3>2, Zenon DEF Ops
    <3>5. QED
      BY <3>2, <3>3, <3>4, Zenon
  <2>3. LocalsOK' /\ active' \subseteq active
    BY <1>0, <1>3, ReturnOK, Zenon DEF CommitDone
  <2> HIDE DEF done
  <2>4. CASE UpdateTx(done)
    BY <1>0, <1>3, <2>2, <2>3, <2>4, StoreStep, Zenon
       DEF CommitDone, history, Undone, TypeOK
  <2>5. CASE UNCHANGED txs
    BY <1>0, <1>3, <2>3, <2>5, QuietStep DEF CommitDone, history, TypeOK
  <2>6. QED
    BY <1>3, <2>4, <2>5, Zenon DEF CommitDone, done
<1>4. QED
  BY <1>1, <1>2, <1>3, Zenon

\* Every step preserves the invariant.
LEMMA TxInvNext ==
  ASSUME TransactionConstants, TxInv, [Next]_vars
  PROVE  TxInv'
<1>0. /\ TypeOK /\ LocalsOK /\ Grows /\ Clients \subseteq Procs /\ Worker \in Procs
      /\ msgs = [m \in DOMAIN msgs |-> msgs[m]]
  BY TypeHalves, GrowsStep, Zenon DEF TxInv, LocalsOK, Procs, TypeOK
<1>1. ASSUME UNCHANGED locals PROVE LocalsOK' /\ active' = active
  BY <1>0, <1>1, ProcFrame, Zenon DEF LocalsOK, LocalsTyped, locals
<1>2. ASSUME NEW p \in Clients, NEW t \in Txs, Declare(p, t)
      PROVE  TxInv'
  <2>1. New(t) \in Transaction /\ New(t).id = t /\ New(t).state = "active"
        /\ Len(New(t).ops) = 0
    BY <1>0, NewRecord, Zenon DEF TypeOK
  <2>2. LocalsOK' /\ active' = active
    BY <1>1, <1>2, Zenon DEF Declare
  <2>3. /\ DOMAIN txs' = DOMAIN txs \cup {t} /\ txs'[t] = New(t)
        /\ \A u \in DOMAIN txs : u # t /\ txs'[u] = txs[u]
    BY <1>2, Zenon DEF Declare
  <2>4. StoredKnown'
    <3>1. ASSUME NEW u \in DOMAIN txs' PROVE Known(txs[u])'
      <4>1. CASE u = t
        BY <2>1, <2>3, <4>1 DEF Known
      <4>2. CASE u # t
        <5>1. Known(txs[u]) /\ txs'[u] = txs[u]
          BY <2>3, <4>2, Zenon DEF TxInv, TablesOK, StoredKnown
        <5>2. QED
          BY <1>0, <5>1, Zenon DEF Known, Grows
      <4>3. QED
        BY <4>1, <4>2, Zenon
    <3>2. QED
      BY <3>1, Zenon DEF StoredKnown
  <2>5. TablesOK'
    BY <1>0, <2>2, <2>4, TablesFrame, Zenon DEF TxInv
  <2>6. CommittedExposedAll' /\ UndoneIsGone'
    BY <1>0, <2>1, <2>3, TerminalFrame, Zenon DEF TxInv, Terminal
  <2>7. SharedTyped'
    <3>1. txs' \in [DOMAIN txs' -> Transaction] /\ \A u \in DOMAIN txs' : txs'[u].id = u
      BY <1>0, <1>2, <2>1, Zenon DEF Declare, TypeOK
    <3>2. QED
      BY <1>0, <1>2, <2>3, <3>1, Zenon DEF Declare, TypeOK, SharedTyped, locals, history
  <2>8. TypeOK'
    BY <2>2, <2>7, Zenon DEF LocalsOK, TypeOK, LocalsTyped, SharedTyped
  <2>9. QED
    BY <2>2, <2>5, <2>6, <2>8, Zenon DEF TxInv, LocalsOK
<1>3. ASSUME NEW p \in Clients, NEW t \in Txs, NEW k \in Fanouts, StagePublish(p, t, k)
      PROVE  TxInv'
  <2>1. Known(txs[t]) /\ k \in Nat /\ k >= 1 /\ p \in Procs
    BY <1>0, <1>3 DEF StagePublish, TxInv, TablesOK, StoredKnown, TransactionConstants
  <2>2. Moves(p, "stage", txs[t], k, goal[p])
    BY <1>0, <1>3, Zenon DEF StagePublish, Moves, LocalsOK, LocalsTyped
  <2>3. pc'[p] = "stage" /\ copy'[p] = txs[t] /\ next'[p] = k
    BY <1>0, <2>1, <2>2, Zenon DEF Moves, LocalsOK, LocalsTyped
  <2>4. Known(copy[p])'
    BY <1>0, <2>1, <2>3, Zenon DEF Known, Grows
  <2>5. ProcOK(p)'
    BY <2>1, <2>3, <2>4, Zenon DEF ProcOK
  <2>6. txs[t] \in Transaction /\ goal[p] \in Terminal \cup {"none"}
    BY <1>0, <2>1, Zenon DEF Known, LocalsOK, LocalsTyped
  <2>7. LocalsOK'
    BY <1>0, <2>1, <2>2, <2>5, <2>6, MoveOK, Zenon DEF Labels
  <2>8. QED
    BY <1>0, <1>3, <2>7, QuietStep DEF StagePublish, history, TypeOK
<1>4. ASSUME NEW p \in Clients, NEW t \in Txs, Commit(p, t) \/ Rollback(p, t)
      PROVE  TxInv'
  <2>1. Known(txs[t]) /\ p \in Procs
    BY <1>0, <1>4, Zenon DEF Commit, Rollback, TxInv, TablesOK, StoredKnown
  <2>2. PICK l \in {"commit", "undo"}, g \in Terminal \cup {"none"} :
          Begin(p, txs[t], l, g) /\ (l = "undo" => g \in Undone)
    BY <1>4, Zenon DEF Commit, Rollback, Terminal, Undone
  <2>3. LocalsOK'
    BY <1>0, <2>1, <2>2, BeginOK, Zenon
  <2>4. QED
    BY <1>0, <1>4, <2>3, QuietStep DEF Commit, Rollback, history, TypeOK
<1>5. ASSUME NEW p \in Clients, StageUpdate(p)
      PROVE  TxInv'
  <2>1. LocalsOK' /\ active' \subseteq active
    BY <1>0, <1>5, ReturnOK, Zenon DEF StageUpdate
  <2>2. Known(copy[p]) /\ acked' \in SUBSET Msgs
    <3>1. Known(copy[p])
      BY <1>0, <1>5, Zenon DEF StageUpdate, LocalsOK, ProcOK, Busy
    <3>2. Ops(copy[p]) \subseteq Msgs
      BY <3>1 DEF Known, Ops, Transaction
    <3>3. QED
      BY <1>0, <1>5, <3>1, <3>2, Zenon DEF StageUpdate, TypeOK
  <2>3. CASE UpdateTx(copy[p]) /\ copy[p].state = "active"
    BY <1>0, <1>5, <2>1, <2>2, <2>3, StoreStep, Zenon DEF StageUpdate, Undone
  <2>4. CASE UNCHANGED <<txs, acked>>
    BY <1>0, <1>5, <2>1, <2>4, QuietStep DEF StageUpdate, TypeOK
  <2>5. QED
    BY <1>5, <2>3, <2>4, Zenon DEF StageUpdate
<1>6. ASSUME NEW p \in Clients, Cancel(p)
      PROVE  TxInv'
  <2>1. LocalsOK' /\ active' \subseteq active
    BY <1>0, <1>6, ReturnOK, Zenon DEF Cancel
  <2>2. QED
    BY <1>0, <1>6, <2>1, QuietStep DEF Cancel, history, TypeOK
<1>7. CASE Sweep \/ SweepDone
  <2>1. PICK l \in {"idle", "sweep"} :
          Moves(Worker, l, copy[Worker], next[Worker], goal[Worker])
    BY <1>0, <1>7 DEF Sweep, SweepDone, Moves, LocalsOK, LocalsTyped
  <2>2. pc'[Worker] = l
    BY <1>0, <2>1, Zenon DEF Moves, LocalsOK, LocalsTyped
  <2>3. ProcOK(Worker)'
    BY <2>2, Zenon DEF ProcOK, Busy
  <2>4. PICK c \in Transaction \cup {NoTx}, n \in Nat, g \in Terminal \cup {"none"} :
          Moves(Worker, l, c, n, g)
    BY <1>0, <2>1, Zenon DEF LocalsOK, LocalsTyped
  <2>5. l \in Labels /\ l \notin {"commit", "expose", "undo", "delete"}
    BY Zenon DEF Labels
  <2>6. LocalsOK'
    BY <1>0, <2>3, <2>4, <2>5, MoveOK, Zenon
  <2>7. QED
    <3>1. active' \subseteq active \cup {txs[t] : t \in DOMAIN txs}
      BY <1>7, Zenon DEF Sweep, SweepDone, ListActive
    <3>2. UNCHANGED <<now, txs, msgs, owner, acked, exposed, taken>> /\ now \in Nat
      BY <1>0, <1>7, Zenon DEF Sweep, SweepDone, history, TypeOK
    <3>3. QED
      BY <1>0, <2>6, <3>1, <3>2, QuietStep, Zenon
<1>8. CASE SweepNext
  <2>1. PICK t \in active :
          /\ active' = active \ {t}
          /\ Begin(Worker, t, "undo", "timed-out") \/ UNCHANGED <<pc, copy, next, goal>>
    BY <1>8, Zenon DEF SweepNext
  <2>2. Known(t)
    BY Zenon DEF TxInv, TablesOK
  <2>3. LocalsOK'
    <3>1. CASE Begin(Worker, t, "undo", "timed-out")
      BY <1>0, <2>2, <3>1, BeginOK, Zenon DEF Undone, Terminal
    <3>2. CASE UNCHANGED <<pc, copy, next, goal>>
      BY <1>0, <3>2, ProcFrame, Zenon DEF LocalsOK, LocalsTyped
    <3>3. QED
      BY <2>1, <3>1, <3>2, Zenon
  <2>4. QED
    <3>1. active' \subseteq active
      BY <2>1, Zenon
    <3>2. UNCHANGED <<now, txs, msgs, owner, acked, exposed, taken>> /\ now \in Nat
      BY <1>0, <1>8, Zenon DEF SweepNext, history, TypeOK
    <3>3. QED
      BY <1>0, <2>3, <3>1, <3>2, QuietStep, Zenon
<1>9. ASSUME NEW m \in Msgs, Consume(m)
      PROVE  TxInv'
  <2>1. LocalsOK' /\ active' = active
    BY <1>1, <1>9, Zenon DEF Consume
  <2>2. PICK r \in [state : {"acquired", "available"}, tx : Txs \cup {None}] :
          msgs' = [msgs EXCEPT ![m] = r]
    <3>1. PICK s \in [state : {"acquired", "available"}, tx : Txs \cup {None}] :
            s = msgs[m]
      BY <1>0, <1>9, Zenon DEF Consume, TypeOK
    <3>2. [s EXCEPT !.state = "acquired"]
            \in [state : {"acquired", "available"}, tx : Txs \cup {None}]
      BY Zenon
    <3>3. msgs' = [msgs EXCEPT ![m] = [s EXCEPT !.state = "acquired"]]
      BY <1>9, <3>1, Zenon DEF Consume
    <3>4. QED
      BY <3>2, <3>3, Zenon
  <2>3. /\ m \in DOMAIN msgs /\ UNCHANGED <<now, txs, owner, acked, active>>
        /\ exposed' \in SUBSET Msgs /\ taken' \in SUBSET Msgs
    BY <1>0, <1>9, Zenon DEF Consume, TypeOK, locals
  <2>4. QED
    BY <1>0, <2>1, <2>2, <2>3, ExposeStep, Zenon
<1>10. CASE Tick
  BY <1>0, <1>1, <1>10, QuietStep DEF Tick, history, TypeOK
<1>11. CASE UNCHANGED vars
  BY <1>0, <1>1, <1>11, QuietStep DEF vars, history, TypeOK
<1>12. QED
  BY <1>0, <1>2, <1>3, <1>4, <1>5, <1>6, <1>7, <1>8, <1>9, <1>10, <1>11,
     UndoNext, StagePutNext, CommitNext, Zenon DEF Next, Request, Proceed, Sweeping

-----------------------------------------------------------------------------
(* The theorems.                                                           *)

\* The invariant always holds.
LEMMA TxInvAlways == Spec => []TxInv
<1>1. ASSUME Init PROVE TxInv
  <2>1. LocalsTyped
    BY <1>1, Zenon DEF Init, LocalsTyped, Labels
  <2>2. SharedTyped
    BY <1>1 DEF Init, SharedTyped
  <2>3. TablesOK /\ CommittedExposedAll /\ UndoneIsGone
    BY <1>1 DEF Init, TablesOK, StoredKnown, CommittedExposedAll, UndoneIsGone
  <2>4. \A p \in Procs : ProcOK(p)
    BY <1>1, Zenon DEF Init, ProcOK, Busy
  <2>5. QED
    BY <2>1, <2>2, <2>3, <2>4, TypeHalves, Zenon DEF TxInv
<1>2. TxInv /\ [Next]_vars => TxInv'
  BY TransactionConstants, TxInvNext, Zenon
<1>3. QED
  BY <1>1, <1>2, PTL DEF Spec

\* Tables and locals keep their types: in particular no loop over operations
\* runs past their end, whatever happens to the messages meanwhile.
THEOREM TypeCorrect == Spec => []TypeOK
<1>1. TxInv => TypeOK
  BY Zenon DEF TxInv
<1>2. QED
  BY <1>1, TxInvAlways, PTL

\* Commit marks a transaction committed only when every one of the operations
\* it stores has been made available.
THEOREM CommitIsComplete == Spec => []CommittedExposedAll
<1>1. TxInv => CommittedExposedAll
  BY Zenon DEF TxInv
<1>2. QED
  BY <1>1, TxInvAlways, PTL

\* Rollback, and the sweep, mark a transaction undone only when none of its
\* messages is stored any more, and none comes back.
THEOREM RollbackIsComplete == Spec => []UndoneIsGone
<1>1. TxInv => UndoneIsGone
  BY Zenon DEF TxInv
<1>2. QED
  BY <1>1, TxInvAlways, PTL


-----------------------------------------------------------------------------
(* One route per publication: the version check is a compare-and-swap.     *)

\* A copy as it was read: not newer than the stored record, and equal to it if
\* the versions are.
Fresh(c) ==
  /\ c.version <= txs[c.id].version
  /\ c.version = txs[c.id].version => c = txs[c.id]

\* A copy with one operation added: if Update would still accept it, it has the
\* state and all operations of the stored record.
Added(c) ==
  /\ c.version <= txs[c.id].version + 1
  /\ c.version = txs[c.id].version + 1 =>
       c.state = txs[c.id].state /\ Ops(txs[c.id]) \subseteq Ops(c)

Versions(p) ==
  /\ pc[p] \in Busy \ {"add"} => Fresh(copy[p])
  /\ pc[p] = "stage" => next[p] = 1
  /\ pc[p] = "add" => Added(copy[p])

VersionInv ==
  /\ \A t \in active : Fresh(t)
  /\ \A p \in Procs : Versions(p)
  /\ \A m \in acked : m \in DOMAIN owner /\ owner[m] \in DOMAIN txs
  /\ AckedKept

\* What a step may do to a stored transaction.
Forward ==
  \A t \in DOMAIN txs :
    \/ txs'[t] = txs[t]
    \/ /\ txs[t].state = "active"
       /\ txs'[t].version > txs[t].version
       /\ Ops(txs[t]) \subseteq Ops(txs'[t])

\* Storing a completed or extended copy is such a step.
LEMMA ForwardStep ==
  ASSUME TransactionConstants, TxInv, VersionInv, [Next]_vars
  PROVE  Forward
<1>0. /\ Clients \subseteq Procs /\ Worker \in Procs
      /\ \A t \in DOMAIN txs : txs[t] \in Transaction /\ txs[t].id = t
  BY Zenon DEF Procs, TxInv, TypeOK
<1>1. ASSUME UNCHANGED txs PROVE Forward
  BY <1>1, Zenon DEF Forward
<1>2. ASSUME NEW c \in Transaction, c.id \in DOMAIN txs, UpdateTx(c),
             Newer(c) => txs[c.id].state = "active" /\ Ops(txs[c.id]) \subseteq Ops(c)
      PROVE  Forward
  BY <1>0, <1>2, Zenon DEF UpdateTx, Newer, Forward, Transaction
<1>3. ASSUME NEW p \in Procs, NEW g \in Terminal, pc[p] \in {"commit", "undo"},
             copy[p].state = "active", UpdateTx(Complete(copy[p], g))
      PROVE  Forward
  <2>1. Known(copy[p]) /\ Fresh(copy[p])
    BY <1>3, Zenon DEF TxInv, VersionInv, Versions, ProcOK, Busy
  <2>2. PICK c \in Transaction : /\ c = Complete(copy[p], g) /\ c.id = copy[p].id
                                 /\ c.version = copy[p].version + 1
                                 /\ c.ops = copy[p].ops
    <3>1. copy[p] \in Transaction
      BY <2>1, Zenon DEF Known
    <3>2. QED
      BY ONLY <3>1, g \in Terminal, CompleteRecord
  <2>3. copy[p].version \in Nat /\ txs[c.id].version \in Nat /\ c.id \in DOMAIN txs
    BY <1>0, <2>1, <2>2, Zenon DEF Known, Transaction
  <2>4. Newer(c) => copy[p] = txs[c.id]
    <3>1. c.version > txs[c.id].version => copy[p].version >= txs[c.id].version
      BY ONLY <2>2, <2>3
    <3>2. /\ copy[p].version <= txs[c.id].version
          /\ copy[p].version = txs[c.id].version => copy[p] = txs[c.id]
      BY ONLY <2>1, <2>2, Zenon DEF Fresh
    <3>3. QED
      BY ONLY <2>3, <3>1, <3>2 DEF Newer
  <2>5. Newer(c) => txs[c.id].state = "active" /\ Ops(txs[c.id]) \subseteq Ops(c)
    BY ONLY <1>3, <2>2, <2>4 DEF Ops
  <2>6. QED
    BY <1>2, <1>3, <2>2, <2>3, <2>5, Zenon
<1>4. ASSUME NEW p \in Clients, StageUpdate(p)
      PROVE  Forward
  <2>1. CASE copy[p].state = "active" /\ UpdateTx(copy[p])
    <3>1. Known(copy[p]) /\ Added(copy[p])
      BY <1>0, <1>4, Zenon DEF StageUpdate, TxInv, VersionInv, Versions, ProcOK, Busy
    <3>2. copy[p].version \in Nat /\ txs[copy[p].id].version \in Nat
      BY <1>0, <3>1, Zenon DEF Known, Transaction
    <3>3. Newer(copy[p]) => copy[p].version = txs[copy[p].id].version + 1
      BY ONLY <3>1, <3>2 DEF Newer, Added
    <3>4. QED
      BY <1>2, <2>1, <3>1, <3>3, Zenon DEF Added, Known
  <2>2. QED
    BY <1>1, <1>4, <2>1, Zenon DEF StageUpdate
<1>5. ASSUME NEW p \in Clients, CommitDone(p)
      PROVE  Forward
  BY <1>0, <1>1, <1>3, <1>5, Zenon DEF CommitDone, Terminal
<1>6. ASSUME NEW p \in Procs, Undo(p)
      PROVE  Forward
  <2>1. CASE UndoDone(p) /\ txs' # txs
    <3>1. /\ copy[p].state = "active" /\ UpdateTx(Complete(copy[p], goal[p]))
          /\ pc[p] = "undo"
      BY <2>1, Zenon DEF UndoDone
    <3>2. goal[p] \in Terminal
      BY <3>1, Zenon DEF TxInv, ProcOK, Undone, Terminal
    <3>3. QED
      BY <1>3, <3>1, <3>2, Zenon
  <2>2. QED
    BY <1>1, <1>6, <2>1, Zenon DEF Undo, UndoRead, UndoDelete
<1>7. ASSUME NEW p \in Clients, NEW t \in Txs, Declare(p, t)
      PROVE  Forward
  BY <1>7, Zenon DEF Declare, Forward
<1>8. ASSUME NEW p \in Clients, Request(p) \/ Proceed(p) \/ Cancel(p)
      PROVE  Forward
  BY <1>0, <1>1, <1>4, <1>5, <1>6, <1>7, <1>8, Zenon
     DEF Request, StagePublish, Commit, Rollback, Proceed, StagePut, CommitRead,
         CommitWrite, Cancel
<1>9. QED
  BY <1>0, <1>1, <1>6, <1>8, Zenon
     DEF Next, Sweeping, Sweep, SweepNext, SweepDone, Consume, Tick, vars

\* A copy that is not changed stays as fresh as it was.
LEMMA FreshFrame ==
  ASSUME TxInv, TxInv', Forward, Grows, NEW c, Known(c)
  PROVE  (Fresh(c) => Fresh(c)') /\ (Added(c) => Added(c)')
<1>1. c.id \in DOMAIN txs /\ c.id \in DOMAIN txs' /\ c.version \in Nat
  BY Zenon DEF Known, Grows, Transaction
<1>2. txs[c.id].version \in Nat /\ txs'[c.id].version \in Nat
  BY <1>1, Zenon DEF TxInv, TypeOK, Transaction
<1>3. txs'[c.id] = txs[c.id] \/ txs'[c.id].version > txs[c.id].version
  BY <1>1, Zenon DEF Forward
<1>4. CASE txs'[c.id] = txs[c.id]
  BY <1>4, Zenon DEF Fresh, Added, Ops
<1>5. CASE txs'[c.id].version > txs[c.id].version
  <2>1. Fresh(c) => c.version < txs'[c.id].version
    BY ONLY <1>1, <1>2, <1>5 DEF Fresh
  <2>2. Added(c) => c.version < txs'[c.id].version + 1
    BY ONLY <1>1, <1>2, <1>5 DEF Added
  <2>3. Fresh(c) => Fresh(c)'
    BY ONLY <1>1, <1>2, <2>1 DEF Fresh
  <2>4. Added(c) => Added(c)'
    BY ONLY <1>1, <1>2, <2>2 DEF Added
  <2>5. QED
    BY <2>3, <2>4, Zenon
<1>6. QED
  BY <1>3, <1>4, <1>5, Zenon

\* How a step moves a goroutine: it goes idle, keeps its copy, reads a stored
\* record, or adds one operation.
Step(p) ==
  \/ pc'[p] \in {"idle", "sweep"}
  \/ pc'[p] = pc[p] /\ copy'[p] = copy[p] /\ next'[p] = next[p]
  \/ /\ pc[p] \in Busy \ {"add", "stage"} /\ pc'[p] \in Busy \ {"add", "stage"}
     /\ copy'[p] = copy[p]
  \/ /\ pc'[p] \in Busy \ {"add"} /\ UNCHANGED txs
     /\ \/ copy'[p] \in {txs[t] : t \in DOMAIN txs}
        \/ copy'[p] \in active
     /\ pc'[p] = "stage" => next'[p] \in Fanouts
  \/ /\ pc[p] = "stage" /\ UNCHANGED txs
     /\ \E m \in Msgs : copy'[p] = Add(copy[p], m)
     /\ pc'[p] = IF next[p] = 1 THEN "add" ELSE "stage"

\* Every step moves every goroutine like that.
LEMMA Steps ==
  ASSUME TransactionConstants, TxInv, [Next]_vars, NEW q \in Procs
  PROVE  Step(q)
<1>0. /\ LocalsOK /\ LocalsTyped /\ Clients \subseteq Procs /\ Worker \in Procs
  BY TypeHalves, Zenon DEF TxInv, LocalsOK, Procs
<1>1. ASSUME UNCHANGED <<pc, copy, next>> PROVE Step(q)
  BY <1>1, Zenon DEF Step
<1>2. ASSUME NEW p \in Procs, NEW ok, Return(p, ok) PROVE Step(q)
  BY <1>0, <1>2, Zenon DEF Return, Step, LocalsTyped
<1>3. ASSUME NEW p \in Procs, pc[p] \in Busy \ {"add", "stage"},
             NEW l \in Busy \ {"add", "stage"}, Advance(p, l) \/ Goto(p, l)
      PROVE  Step(q)
  BY <1>0, <1>3 DEF Advance, Goto, Step, LocalsTyped
<1>4. ASSUME NEW p \in Procs, NEW c, NEW g, NEW l \in {"commit", "undo"},
             Begin(p, c, l, g), UNCHANGED txs,
             c \in {txs[t] : t \in DOMAIN txs} \/ c \in active
      PROVE  Step(q)
  BY <1>0, <1>4, Zenon DEF Begin, Step, LocalsTyped, Busy
<1>5. ASSUME NEW p \in Procs, Undo(p) PROVE Step(q)
  BY <1>2, <1>3, <1>5, Zenon DEF Undo, UndoRead, UndoDelete, UndoDone, Busy
<1>6. ASSUME NEW p \in Clients, Request(p) PROVE Step(q)
  <2>1. ASSUME NEW t \in Txs, NEW k \in Fanouts, StagePublish(p, t, k) PROVE Step(q)
    BY <1>0, <2>1, Zenon DEF StagePublish, Step, LocalsTyped, Busy
  <2>2. ASSUME NEW t \in Txs, Commit(p, t) \/ Rollback(p, t) PROVE Step(q)
    BY <1>0, <1>4, <2>2, Zenon DEF Commit, Rollback
  <2>3. QED
    BY <1>1, <1>6, <2>1, <2>2, Zenon DEF Request, Declare, locals
<1>7. ASSUME NEW p \in Clients, Proceed(p) PROVE Step(q)
  <2>1. ASSUME NEW m \in Msgs, StagePut(p, m) PROVE Step(q)
    <3>1. CASE q = p
      <4>1. /\ pc[p] = "stage" /\ UNCHANGED txs /\ copy'[p] = Add(copy[p], m)
            /\ pc'[p] = IF next[p] = 1 THEN "add" ELSE "stage"
        BY <1>0, <2>1, Zenon DEF StagePut, LocalsTyped
      <4>2. QED
        BY <3>1, <4>1, Zenon DEF Step
    <3>2. CASE q # p
      BY <1>0, <2>1, <3>2, Zenon DEF StagePut, Step, LocalsTyped
    <3>3. QED
      BY <3>1, <3>2, Zenon
  <2>2. CASE StageUpdate(p) \/ CommitDone(p)
    BY <1>0, <1>2, <2>2, Zenon DEF StageUpdate, CommitDone
  <2>3. CASE CommitRead(p) \/ CommitWrite(p)
    BY <1>0, <1>2, <1>3, <2>3, Zenon DEF CommitRead, CommitWrite, Busy
  <2>4. QED
    BY <1>0, <1>5, <1>7, <2>1, <2>2, <2>3, Zenon DEF Proceed
<1>8. CASE Sweeping
  <2>1. CASE Sweep \/ SweepDone
    BY <1>0, <2>1, Zenon DEF Sweep, SweepDone, Step, LocalsTyped
  <2>2. CASE SweepNext
    BY <1>0, <1>1, <1>4, <2>2, Zenon DEF SweepNext
  <2>3. QED
    BY <1>0, <1>5, <1>8, <2>1, <2>2, Zenon DEF Sweeping
<1>9. QED
  BY <1>0, <1>1, <1>2, <1>6, <1>7, <1>8, Zenon DEF Next, Cancel, Consume, Tick, vars, locals

\* With one route, every step keeps every copy fresh.
LEMMA VersionsNext ==
  ASSUME TransactionConstants, Fanouts = {1}, TxInv, TxInv', VersionInv, Forward,
         Grows, [Next]_vars, NEW q \in Procs
  PROVE  Versions(q)'
<1>0. /\ Versions(q) /\ ProcOK(q) /\ Step(q) /\ LocalsTyped /\ LocalsTyped'
      /\ \A t \in DOMAIN txs : Known(txs[t]) /\ txs[t].id = t /\ txs[t].version \in Nat
      /\ \A t \in active : Known(t) /\ Fresh(t)
  BY Steps, TypeHalves, Zenon
     DEF VersionInv, TxInv, TypeOK, TablesOK, StoredKnown, Known, LocalsTyped,
         Transaction
<1>1. CASE pc'[q] \in {"idle", "sweep"}
  BY <1>1, Zenon DEF Versions, Busy
<1>2. ASSUME copy'[q] = copy[q], pc[q] \in Busy
      PROVE  /\ Fresh(copy[q]) => Fresh(copy[q])'
             /\ Added(copy[q]) => Added(copy[q])'
  <2>1. PICK c : c = copy[q]
    BY Zenon
  <2>2. (Fresh(c) => Fresh(c)') /\ (Added(c) => Added(c)')
    BY <1>0, <1>2, <2>1, FreshFrame, Zenon DEF ProcOK
  <2>3. QED
    BY <1>2, <2>1, <2>2, Zenon DEF Fresh, Added
<1>3. CASE pc'[q] = pc[q] /\ copy'[q] = copy[q] /\ next'[q] = next[q]
  BY <1>0, <1>2, <1>3, Zenon DEF Versions, Busy
<1>4. CASE /\ pc[q] \in Busy \ {"add", "stage"} /\ pc'[q] \in Busy \ {"add", "stage"}
           /\ copy'[q] = copy[q]
  BY <1>0, <1>2, <1>4, Zenon DEF Versions
<1>5. CASE /\ pc'[q] \in Busy \ {"add"} /\ UNCHANGED txs
           /\ \/ copy'[q] \in {txs[t] : t \in DOMAIN txs}
              \/ copy'[q] \in active
           /\ pc'[q] = "stage" => next'[q] \in Fanouts
  <2>1. PICK c : c = copy'[q]
    BY Zenon
  <2>2. Fresh(c)
    <3>1. CASE c \in active
      BY <1>0, <3>1, Zenon
    <3>2. CASE c \in {txs[t] : t \in DOMAIN txs}
      <4>1. PICK t \in DOMAIN txs : c = txs[t]
        BY <3>2, Zenon
      <4>2. c.id = t /\ c.version = txs[t].version /\ c.version \in Nat
        BY <1>0, <4>1, Zenon
      <4>3. QED
        BY ONLY <4>1, <4>2 DEF Fresh
    <3>3. QED
      BY <1>5, <2>1, <3>1, <3>2, Zenon
  <2>3. Fresh(copy[q])'
    <3>1. txs' = txs
      BY <1>5, Zenon
    <3>2. QED
      BY ONLY <2>1, <2>2, <3>1, Zenon DEF Fresh
  <2>4. QED
    BY <1>5, <2>3, Zenon DEF Versions
<1>6. CASE /\ pc[q] = "stage" /\ UNCHANGED txs
           /\ \E m \in Msgs : copy'[q] = Add(copy[q], m)
           /\ pc'[q] = IF next[q] = 1 THEN "add" ELSE "stage"
  <2>1. PICK m \in Msgs : copy'[q] = Add(copy[q], m)
    BY <1>6, Zenon
  <2>2. Known(copy[q]) /\ Fresh(copy[q]) /\ pc'[q] = "add"
    BY <1>0, <1>6, Zenon DEF ProcOK, Versions, Busy
  <2>3. PICK c \in Transaction : c = copy[q]
    BY <2>2, Zenon DEF Known
  <2>4. Ops(c) \subseteq Ops(Add(c, m))
    <3>1. Len(c.ops) \in Nat
      BY DEF Transaction
    <3>2. ASSUME NEW i \in 1..Len(c.ops)
          PROVE  i \in 1..Len(Add(c, m).ops) /\ Add(c, m).ops[i] = c.ops[i]
      <4>1. Len(Add(c, m).ops) = Len(c.ops) + 1
        BY AddRecord, Zenon
      <4>2. Add(c, m).ops[i] = c.ops[i]
        BY AddRecord
      <4>3. QED
        BY <3>1, <4>1, <4>2
    <3>3. QED
      BY <3>2, Zenon DEF Ops
  <2>5. PICK d : d = Add(c, m) /\ d = copy'[q]
    BY <2>1, <2>3, Zenon
  <2>6. d.id = c.id /\ d.state = c.state /\ d.version = c.version + 1 /\ Ops(c) \subseteq Ops(d)
    <3>1. /\ Add(c, m).id = c.id /\ Add(c, m).state = c.state
          /\ Add(c, m).version = c.version + 1
      BY AddRecord, Zenon
    <3>2. QED
      BY <2>4, <2>5, <3>1, Zenon
  <2>7. c.id \in DOMAIN txs /\ txs[c.id].version \in Nat /\ c.version \in Nat /\ Fresh(c)
    BY <1>0, <2>2, <2>3, Zenon DEF Known, Transaction
  <2>8. /\ d.version <= txs[d.id].version + 1
        /\ d.version = txs[d.id].version + 1 => c = txs[c.id]
    BY ONLY <2>6, <2>7 DEF Fresh
  <2>9. Added(d)
    BY ONLY <2>6, <2>8, Zenon DEF Added
  <2>10. Added(copy[q])'
    <3>1. txs' = txs
      BY <1>6, Zenon
    <3>2. /\ d.version <= txs'[d.id].version + 1
          /\ d.version = txs'[d.id].version + 1 =>
               d.state = txs'[d.id].state /\ Ops(txs'[d.id]) \subseteq Ops(d)
      BY ONLY <2>9, <3>1, Zenon DEF Added
    <3>3. QED
      BY ONLY <2>5, <3>2, Zenon DEF Added, Ops
  <2>11. QED
    BY <2>2, <2>10, Zenon DEF Versions
<1>7. QED
  BY <1>0, <1>1, <1>3, <1>4, <1>5, <1>6, Zenon DEF Step

\* With one route, every step keeps the version invariant.
LEMMA VersionInvNext ==
  ASSUME TransactionConstants, Fanouts = {1}, TxInv, TxInv', VersionInv, [Next]_vars
  PROVE  VersionInv'
<1>0. Forward /\ Grows
  BY ForwardStep, GrowsStep, Zenon DEF TxInv
<1>1. \A p \in Procs : Versions(p)'
  BY <1>0, VersionsNext, Zenon
<1>2. \A t \in active' : Fresh(t)'
  <2>1. ASSUME NEW t \in active PROVE Fresh(t)'
    BY <1>0, FreshFrame, Zenon DEF TxInv, TablesOK, VersionInv
  <2>2. ASSUME active' = ListActive, UNCHANGED txs, NEW t \in active' PROVE Fresh(t)'
    <3>1. PICK x \in DOMAIN txs : t = txs[x]
      BY <2>2, Zenon DEF ListActive
    <3>2. t.id = x /\ t.version \in Nat
      BY <3>1, Zenon DEF TxInv, TypeOK, Transaction
    <3>3. QED
      BY <2>2, <3>1, <3>2 DEF Fresh
  <2>3. active' \subseteq active \/ (active' = ListActive /\ UNCHANGED txs)
    <3>1. ASSUME NEW p, NEW ok, Return(p, ok) PROVE active' \subseteq active
      BY <3>1, Zenon DEF Return
    <3>2. ASSUME NEW p, Undo(p) PROVE active' \subseteq active
      BY <3>1, <3>2, Zenon DEF Undo, UndoRead, UndoDelete, UndoDone, Advance, Goto
    <3>3. ASSUME NEW p, Request(p) PROVE active' \subseteq active
      BY <3>3, Zenon DEF Request, Declare, StagePublish, Commit, Rollback, locals
    <3>4. ASSUME NEW p, Proceed(p) PROVE active' \subseteq active
      BY <3>1, <3>2, <3>4, Zenon
         DEF Proceed, StagePut, StageUpdate, CommitRead, CommitWrite, CommitDone,
             Advance, Goto
    <3>5. CASE Sweep \/ SweepNext \/ SweepDone
      BY <3>5, Zenon DEF Sweep, SweepNext, SweepDone
    <3>6. QED
      BY <3>1, <3>2, <3>3, <3>4, <3>5, Zenon
         DEF Next, Sweeping, Cancel, Consume, Tick, vars, locals
  <2>4. QED
    BY <2>1, <2>2, <2>3, Zenon
<1>3. ASSUME NEW m \in acked
      PROVE  /\ m \in DOMAIN owner' /\ owner'[m] \in DOMAIN txs'
             /\ m \in Ops(txs'[owner'[m]])
  <2>1. m \in DOMAIN owner /\ owner[m] \in DOMAIN txs /\ m \in Ops(txs[owner[m]])
    BY Zenon DEF VersionInv, AckedKept
  <2>2. QED
    BY <1>0, <2>1, Zenon DEF Grows, Forward
<1>4. ASSUME NEW m \in acked' \ acked
      PROVE  /\ m \in DOMAIN owner' /\ owner'[m] \in DOMAIN txs'
             /\ m \in Ops(txs'[owner'[m]])
  <2>1. PICK p \in Clients : StageUpdate(p)
    <3>1. acked' # acked
      BY <1>4, Zenon
    <3>2. ASSUME NEW p, Undo(p) PROVE acked' = acked
      BY ONLY <3>2, Zenon DEF Undo, UndoRead, UndoDelete, UndoDone, history
    <3>3. ASSUME NEW p, Request(p) PROVE acked' = acked
      BY ONLY <3>3, Zenon DEF Request, Declare, StagePublish, Commit, Rollback, history
    <3>4. ASSUME NEW p, Proceed(p) PROVE acked' = acked \/ StageUpdate(p)
      BY ONLY <3>2, <3>4, Zenon
         DEF Proceed, StagePut, CommitRead, CommitWrite, CommitDone, history
    <3>5. ASSUME Sweep \/ SweepNext \/ SweepDone PROVE acked' = acked
      BY ONLY <3>5, Zenon DEF Sweep, SweepNext, SweepDone, history
    <3>6. ASSUME (\E p \in Clients : Cancel(p)) \/ (\E x \in Msgs : Consume(x)) \/ Tick
                   \/ UNCHANGED vars
          PROVE  acked' = acked
      BY ONLY <3>6, Zenon DEF Cancel, Consume, Tick, vars, history
    <3>7. QED
      BY <3>1, <3>2, <3>3, <3>4, <3>5, <3>6, Zenon DEF Next, Sweeping
  <2>2. /\ UpdateTx(copy[p]) /\ Newer(copy[p]) /\ m \in Ops(copy[p])
        /\ owner' = owner
    BY <1>4, <2>1, Zenon DEF StageUpdate
  <2>3. Known(copy[p])
    BY <2>1, Zenon DEF StageUpdate, TxInv, ProcOK, Procs, Busy
  <2>4. m \in DOMAIN owner /\ owner[m] = copy[p].id /\ copy[p].id \in DOMAIN txs
    BY <2>2, <2>3 DEF Known, Ops
  <2>5. txs'[copy[p].id] = copy[p] /\ DOMAIN txs' = DOMAIN txs
    BY <2>2, <2>4, Zenon DEF UpdateTx
  <2>6. QED
    BY <2>2, <2>4, <2>5, Zenon
<1>5. QED
  <2>1. \A m \in acked' : /\ m \in DOMAIN owner' /\ owner'[m] \in DOMAIN txs'
                          /\ m \in Ops(txs'[owner'[m]])
    BY <1>3, <1>4, Zenon
  <2>2. AckedKept'
    BY <2>1, Zenon DEF AckedKept, Ops
  <2>3. QED
    BY <1>1, <1>2, <2>1, <2>2, Zenon DEF VersionInv

\* With one route, the version invariant always holds.
LEMMA VersionInvAlways ==
  ASSUME Fanouts = {1}
  PROVE  Spec => [](TxInv /\ VersionInv)
<1>1. Init => VersionInv
  BY Zenon DEF Init, VersionInv, Versions, AckedKept, Busy
<1>2. TxInv /\ VersionInv /\ [Next]_vars => VersionInv'
  BY TransactionConstants, TxInvNext, VersionInvNext, Zenon
<1>3. QED
  BY <1>1, <1>2, TxInvAlways, PTL DEF Spec

\* Where publications have one route, a completed transaction is never written
\* again: TransactionMemory.Update refuses every copy read while it was active.
THEOREM OneRouteFinal ==
  ASSUME Fanouts = {1}
  PROVE  Spec => TerminalIsFinal
<1>1. TxInv /\ VersionInv /\ [Next]_vars =>
        [\A t \in DOMAIN txs : txs[t].state \in Terminal => txs'[t] = txs[t]]_vars
  BY TransactionConstants, ForwardStep, Zenon DEF Forward, Terminal
<1>2. QED
  BY <1>1, VersionInvAlways, PTL DEF Spec, TerminalIsFinal

\* Where publications have one route, no operation StagePublish reported as
\* staged is lost from its transaction to a concurrent update.
THEOREM OneRouteKept ==
  ASSUME Fanouts = {1}
  PROVE  Spec => []AckedKept
<1>1. VersionInv => AckedKept
  BY Zenon DEF VersionInv
<1>2. QED
  BY <1>1, VersionInvAlways, PTL
=============================================================================
