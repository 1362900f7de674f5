------------------------------- MODULE FileLog ------------------------------
(***************************************************************************)
(* The append-only body log of internal/storage/infrastructure/filelog.go: *)
(* a file of records, each a length header followed by an identifier, a    *)
(* newline and the body; an index from logical offsets to file positions   *)
(* that lives in memory and is rebuilt when the log is opened.  A crash    *)
(* keeps any prefix of the bytes that were not yet synced.                 *)
(*                                                                         *)
(* The layout decides what reindex finds after a torn write, so the file   *)
(* is modelled as a sequence of digits: a header is two digits in base     *)
(* Base where the program has four bytes.  The loops of reindex and of      *)
(* Compact take one step for each record: a stop may fall between two.      *)
(***************************************************************************)
EXTENDS Naturals, Sequences, FiniteSets

CONSTANTS
  Msgs,
  Base,      \* the number of digits
  Id,        \* the identifier of each message, one digit
  Body,      \* the body of each message, a sequence of digits
  NL,        \* the newline
  Limit,     \* longest body accepted and longest record read: 64 MiB
  Crashes,   \* whether the process or the machine may stop at any point
  Failures,  \* whether writes and syncs may fail
  Compacts,  \* whether Compact is called
  MaxOpens,  \* bound on how often the log is opened
  Error      \* what Read returns when it fails

ASSUME FileLogConstants ==
  /\ Base \in Nat \ {0, 1}
  /\ NL \in 0 .. Base - 1
  /\ \A m \in Msgs : /\ Id[m] \in (0 .. Base - 1) \ {NL}
                     /\ Body[m] \in Seq(0 .. Base - 1)
                     /\ Len(Body[m]) + 2 < Base * Base
  /\ Limit \in Nat
  /\ Crashes \in BOOLEAN
  /\ Failures \in BOOLEAN
  /\ Compacts \in BOOLEAN
  /\ MaxOpens \in Nat

VARIABLES
  file,       \* what a reader of the file sees
  synced,     \* how much of it is on the disk for certain
  state,      \* of the process: "down", "opening", "up" or "refused"
  offsets,    \* FileLog.offsets: the position of each logical offset, from 0 on
  pos,        \* where reindex has come to in the file
  pc,         \* where the Append or Compact that holds the mutex is
  msg,        \* what that Append appends
  live,       \* what that Compact keeps,
  old,        \* the logical offset it has come to,
  tmp,        \* its temporary file
  newOffsets, \* and the index of that file
  opens,      \* how often the log has been opened
  used,       \* history: messages an Append was called for
  acked,      \* history: the appends that returned an offset
  damaged,    \* history: where records start that were left without an answer
  marks       \* history: 0 and the ends of the records before the first damage

compaction == <<live, old, tmp, newOffsets>>
history == <<used, acked, damaged, marks>>

vars == <<file, synced, state, offsets, pos, pc, msg, compaction, opens, history>>

-----------------------------------------------------------------------------
(* The layout of the file.                                                 *)

HeaderSize == 2

Record(m) == <<Id[m], NL>> \o Body[m]
Header(m) == <<Len(Record(m)) \div Base, Len(Record(m)) % Base>>

\* The length a header at position p of a file stands for, whether the file
\* holds the header, and whether it holds all of the record.
Length(f, p) == f[p + 1] * Base + f[p + 2]
HasHeader(f, p) == p + HeaderSize <= Len(f)
Complete(f, p) == HasHeader(f, p) /\ p + HeaderSize + Length(f, p) <= Len(f)

Bytes(f, p) == SubSeq(f, p + 1, p + HeaderSize + Length(f, p))

\* What follows the first line, and that of the record at position p.
AfterLine(data) ==
  LET lines == {i \in 1 .. Len(data) : data[i] = NL}
  IN  IF lines = {} THEN Error
      ELSE SubSeq(data, (CHOOSE i \in lines : \A j \in lines : i <= j) + 1, Len(data))

ReadAt(f, p) ==
  IF Complete(f, p)
  THEN AfterLine(SubSeq(f, p + HeaderSize + 1, p + HeaderSize + Length(f, p)))
  ELSE Error

Read(offset) == IF offset < Len(offsets) THEN ReadAt(file, offsets[offset + 1]) ELSE Error

-----------------------------------------------------------------------------
(* OpenFileLog and reindex, which notes where each record starts and gives *)
(* up on an incomplete header, or on a length above the limit.  A record   *)
(* may end behind the end of the file.                                     *)

OpenFileLog ==
  /\ state = "down"
  /\ opens < MaxOpens
  /\ opens' = opens + 1
  /\ state' = "opening"
  /\ UNCHANGED <<file, synced, offsets, pos, pc, msg, compaction, history>>

\* Mutation: a record of the greatest length is refused.
AcceptedBelowLimit == HasHeader(file, pos) /\ Length(file, pos) < Limit

Accepted == HasHeader(file, pos) /\ Length(file, pos) <= Limit

ReindexRecord ==
  /\ state = "opening"
  /\ pos < Len(file)
  /\ Accepted
  /\ offsets' = Append(offsets, pos)
  /\ pos' = pos + HeaderSize + Length(file, pos)
  /\ UNCHANGED <<file, synced, state, pc, msg, compaction, opens, history>>

ReindexFails ==
  /\ state = "opening"
  /\ pos < Len(file)
  /\ ~Accepted
  /\ state' = "refused"
  /\ offsets' = <<>>
  /\ pos' = 0
  /\ UNCHANGED <<file, synced, pc, msg, compaction, opens, history>>

ReindexDone ==
  /\ state = "opening"
  /\ pos >= Len(file)
  /\ state' = "up"
  /\ pos' = 0
  /\ UNCHANGED <<file, synced, offsets, pc, msg, compaction, opens, history>>

-----------------------------------------------------------------------------
(* Append: the header, the record and the sync.                            *)

Start == Len(file) - (IF pc = "record" THEN HeaderSize ELSE HeaderSize + Len(Record(msg)))

BeginAppend(m) ==
  /\ state = "up"
  /\ pc = "idle"
  /\ m \in Msgs \ used
  /\ Len(Body[m]) <= Limit
  /\ used' = used \cup {m}
  /\ msg' = m

AppendHeader(m) ==
  /\ BeginAppend(m)
  /\ file' = file \o Header(m)
  /\ pc' = "record"
  /\ UNCHANGED <<synced, state, offsets, pos, compaction, opens, acked, damaged, marks>>

AppendRecord ==
  /\ pc = "record"
  /\ file' = file \o Record(msg)
  /\ pc' = "sync"
  /\ UNCHANGED <<synced, state, offsets, pos, msg, compaction, opens, history>>

Answer(start) ==
  /\ pc = "sync"
  /\ offsets' = Append(offsets, start)
  /\ acked' = acked \cup
       {[msg |-> msg, offset |-> Len(offsets), pos |-> start, opens |-> opens]}
  /\ marks' = IF damaged = {} THEN Append(marks, Len(file)) ELSE marks
  /\ pc' = "idle"
  /\ UNCHANGED <<file, state, pos, msg, compaction, opens, used, damaged>>

\* Mutation: Append returns without waiting for the disk.
AppendUnsynced == Answer(Start) /\ UNCHANGED synced

\* Mutation: the position is asked for when the record is written.
AppendSeeksLate == Answer(Len(file)) /\ synced' = Len(file)

AppendSync == Answer(Start) /\ synced' = Len(file)

\* A write that fails leaves a proper part of its bytes; Append returns the
\* error and the file stays as it is.
HeaderFails(m) ==
  /\ Failures
  /\ BeginAppend(m)
  /\ file' = file \o SubSeq(Header(m), 1, 1)
  /\ damaged' = damaged \cup {Len(file)}
  /\ UNCHANGED <<synced, state, offsets, pos, pc, compaction, opens, acked, marks>>

RecordFails ==
  /\ Failures
  /\ pc = "record"
  /\ \E k \in 0 .. Len(Record(msg)) - 1 : file' = file \o SubSeq(Record(msg), 1, k)
  /\ damaged' = damaged \cup {Start}
  /\ pc' = "idle"
  /\ UNCHANGED <<synced, state, offsets, pos, msg, compaction, opens, used, acked, marks>>

SyncFails ==
  /\ Failures
  /\ pc = "sync"
  /\ damaged' = damaged \cup {Start}
  /\ pc' = "idle"
  /\ UNCHANGED <<file, synced, state, offsets, pos, msg, compaction, opens, used, acked, marks>>

-----------------------------------------------------------------------------
(* Compact copies the live records to a temporary file, numbers them anew  *)
(* and puts the file in the place of the old one.  The holders of offsets  *)
(* are not told: what was acknowledged before is void.                     *)

Discard == live' = {} /\ old' = 0 /\ tmp' = <<>> /\ newOffsets' = <<>>

CompactBegin(keep) ==
  /\ Compacts
  /\ state = "up"
  /\ pc = "idle"
  /\ pc' = "compact"
  /\ live' = keep
  /\ UNCHANGED <<file, synced, state, offsets, pos, msg, old, tmp, newOffsets, opens, history>>

CompactSkip ==
  /\ pc = "compact"
  /\ old < Len(offsets) /\ old \notin live
  /\ old' = old + 1
  /\ UNCHANGED <<file, synced, state, offsets, pos, pc, msg, live, tmp, newOffsets, opens, history>>

Copy(newPos) ==
  /\ pc = "compact"
  /\ old < Len(offsets) /\ old \in live
  /\ Complete(file, offsets[old + 1])
  /\ tmp' = tmp \o Bytes(file, offsets[old + 1])
  /\ newOffsets' = Append(newOffsets, newPos)
  /\ old' = old + 1
  /\ UNCHANGED <<file, synced, state, offsets, pos, pc, msg, live, opens, history>>

\* Mutation: the positions of the old file are kept.
CompactOldPositions == old < Len(offsets) /\ Copy(offsets[old + 1])

CompactCopy == Copy(Len(tmp))

\* An incomplete live record, or an error on either file: the log stays as it is.
CompactFails ==
  /\ pc = "compact"
  /\ \/ Failures
     \/ old < Len(offsets) /\ old \in live /\ ~Complete(file, offsets[old + 1])
  /\ pc' = "idle"
  /\ Discard
  /\ UNCHANGED <<file, synced, state, offsets, pos, msg, opens, history>>

CompactRename ==
  /\ pc = "compact"
  /\ old = Len(offsets)
  /\ file' = tmp
  /\ synced' = Len(tmp)
  /\ acked' = {} /\ damaged' = {} /\ marks' = Append(newOffsets, Len(tmp))
  /\ pc' = "idle"
  /\ Discard
  /\ \/ state' = "up" /\ offsets' = newOffsets
     \/ Failures /\ state' = "down" /\ offsets' = <<>>  \* the new file does not open
  /\ UNCHANGED <<pos, msg, opens, used>>

\* The old file is closed and the new one not in its place: the log is of no use
\* until it is opened again.
RenameFails ==
  /\ Failures
  /\ pc = "compact"
  /\ old = Len(offsets)
  /\ pc' = "idle"
  /\ state' = "down"
  /\ offsets' = <<>>
  /\ Discard
  /\ UNCHANGED <<file, synced, pos, msg, opens, history>>

-----------------------------------------------------------------------------
\* Close waits for the mutex.
Close ==
  /\ state = "up"
  /\ pc = "idle"
  /\ state' = "down"
  /\ offsets' = <<>>
  /\ UNCHANGED <<file, synced, pos, pc, msg, compaction, opens, history>>

\* The process is gone, and with it what it had in memory.
Stop ==
  /\ Crashes
  /\ state \in {"opening", "up"}
  /\ state' = "down"
  /\ offsets' = <<>>
  /\ pos' = 0
  /\ pc' = "idle"
  /\ Discard
  /\ UNCHANGED <<msg, opens, used, acked>>

Appending == pc \in {"record", "sync"}

\* The machine stops: the disk has what was synced and some of the bytes after
\* it.  An Append under way is damage if part of its record is left.
Crash ==
  /\ Stop
  /\ \E k \in synced .. Len(file) :
       /\ file' = SubSeq(file, 1, k)
       /\ synced' = k
       /\ LET end == Start + HeaderSize + Len(Record(msg))
          IN  /\ damaged' = IF Appending /\ k > Start /\ k < end
                            THEN damaged \cup {Start} ELSE damaged
              /\ marks' = IF Appending /\ k = end /\ damaged = {}
                          THEN Append(marks, k) ELSE marks

\* The process is killed: the system still has all that was written.
Kill ==
  /\ Stop
  /\ damaged' = IF Appending THEN damaged \cup {Start} ELSE damaged
  /\ UNCHANGED <<file, synced, marks>>

Init ==
  /\ file = <<>>
  /\ synced = 0
  /\ state = "down"
  /\ offsets = <<>>
  /\ pos = 0
  /\ pc = "idle"
  /\ msg \in Msgs
  /\ live = {} /\ old = 0 /\ tmp = <<>> /\ newOffsets = <<>>
  /\ opens = 0
  /\ used = {}
  /\ acked = {}
  /\ damaged = {}
  /\ marks = <<0>>

Next ==
  \/ OpenFileLog \/ ReindexRecord \/ ReindexFails \/ ReindexDone
  \/ Close \/ Crash \/ Kill
  \/ \E m \in Msgs : AppendHeader(m) \/ HeaderFails(m)
  \/ AppendRecord \/ RecordFails \/ AppendSync \/ SyncFails
  \/ \E keep \in SUBSET (0 .. Len(offsets) - 1) : CompactBegin(keep)
  \/ CompactSkip \/ CompactCopy \/ CompactFails \/ CompactRename \/ RenameFails

Spec == Init /\ [][Next]_vars

-----------------------------------------------------------------------------
(* Properties the code has.                                                *)

\* Every variable has its type; the index only points into the file.
TypeOK ==
  /\ file \in Seq(0 .. Base - 1)
  /\ synced \in 0 .. Len(file)
  /\ state \in {"down", "opening", "up", "refused"}
  /\ offsets \in Seq(Nat)
  /\ \A i \in DOMAIN offsets : HasHeader(file, offsets[i])
  /\ pos \in Nat
  /\ pc \in {"idle", "record", "sync", "compact"}
  /\ msg \in Msgs
  /\ live \in SUBSET (0 .. Len(offsets) - 1)
  /\ old \in 0 .. Len(offsets)
  /\ tmp \in Seq(0 .. Base - 1)
  /\ newOffsets \in Seq(Nat)
  /\ opens \in 0 .. MaxOpens
  /\ used \subseteq Msgs
  /\ acked \subseteq [msg : used, offset : Nat, pos : Nat, opens : 0 .. MaxOpens]
  /\ damaged \subseteq Nat
  /\ marks \in Seq(Nat)

\* An append that was acknowledged reads back as its own body at its offset:
\* until the log is next closed or the machine stops, whatever writes fail in the
\* meantime, and for ever, across crashes, if it lies before the first record
\* whose Append did not return an offset.
AckedReadable ==
  state = "up" =>
    \A a \in acked :
      (a.opens = opens \/ \A d \in damaged : a.pos < d) => Read(a.offset) = Body[a.msg]

\* The log is only ever refused when some append before did not complete.
RefusedOnlyIfDamaged == state = "refused" => damaged # {}

\* Compact keeps the bodies of the live records, in their order: each is numbered
\* by how many live ones were before it.
CompactKeepsOrder ==
  [][CompactRename /\ state' = "up" =>
       /\ Len(offsets') = Cardinality(live)
       /\ \A i \in live :
            LET n == Cardinality({j \in live : j < i})
            IN  n < Len(offsets') /\ ReadAt(file', offsets'[n + 1]) = Read(i)]_vars

-----------------------------------------------------------------------------
(* What the documentation says and the code does not do.                   *)

\* README.md: "a durable, replaceable append-only message-body log".  The log
\* opens again after every crash and every restart.
Reopens == state # "refused"

\* The same claim: an acknowledged append reads back as its own body for as long
\* as it is kept.
AckedDurable == state = "up" => \A a \in acked : Read(a.offset) = Body[a.msg]
=============================================================================
