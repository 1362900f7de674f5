---------------------------- MODULE FileLogProofs ---------------------------
(***************************************************************************)
(* Proofs about FileLog for any messages, any base, any limit and any       *)
(* number of openings.  TypeCorrect: every variable has its type, and the   *)
(* index only points into the file.  Readable: what was acknowledged reads  *)
(* back.  RefusesDamaged: only an append that did not complete makes the    *)
(* log refuse to open, if every record is within the limit of reindex.      *)
(* CompactOrder: a compaction keeps the live bodies in their order.         *)
(*                                                                         *)
(* The argument is about the part of the file before the first damage.     *)
(* There the records follow each other without a gap (Chain), all of it is *)
(* on the disk, and whatever reindex has found so far agrees with it.      *)
(***************************************************************************)
EXTENDS FileLog, TLAPS

-----------------------------------------------------------------------------
(* The file.                                                               *)

Digits == 0 .. Base - 1

\* Two files have the same first n digits.
Agree(f, g, n) ==
  /\ n <= Len(f) /\ n <= Len(g)
  /\ \A i \in 1 .. n : f[i] = g[i]

\* From 0 on, records follow each other at the positions of s, the last of which
\* is where the last record ends.
Chain(f, s) ==
  /\ s \in Seq(Nat)
  /\ Len(s) > 0
  /\ s[1] = 0
  /\ s[Len(s)] <= Len(f)
  /\ \A i \in 1 .. Len(s) - 1 : /\ s[i + 1] = s[i] + HeaderSize + Length(f, s[i])
                                /\ s[i] + HeaderSize <= s[i + 1]
                                /\ s[i + 1] <= s[Len(s)]

Last(s) == s[Len(s)]

\* How long the record of a message is with its header, and that it is at
\* position p.
Size(m) == HeaderSize + Len(Record(m))

Holds(f, p, m) ==
  /\ p + Size(m) <= Len(f)
  /\ HeaderSize + Length(f, p) = Size(m)
  /\ \A i \in 1 .. Len(Record(m)) : f[p + HeaderSize + i] = Record(m)[i]

-----------------------------------------------------------------------------
(* The invariants.                                                         *)

\* What the process has in memory while it is not at work.
Memory ==
  /\ state # "up" => pc = "idle"
  /\ state \notin {"opening", "up"} => offsets = <<>>
  /\ state # "opening" => pos = 0
  /\ pc # "compact" => live = {} /\ old = 0 /\ tmp = <<>> /\ newOffsets = <<>>

\* What has been written is in the file, and what was copied in the new one.
Written ==
  /\ pc = "record" => Len(file) >= HeaderSize
  /\ pc = "sync" => Len(file) >= Size(msg)
  /\ pc \in {"record", "sync"} => msg \in used
  /\ \A i \in DOMAIN newOffsets : HasHeader(tmp, newOffsets[i])

TypeInv == TypeOK /\ Memory /\ Written

\* What the Append under way has written.
Pending ==
  /\ pc = "record" => HeaderSize + Length(file, Len(file) - HeaderSize) = Size(msg)
  /\ pc = "sync" => Holds(file, Len(file) - Size(msg), msg)

\* The part of a file before the first damage, of which all is on the disk.
Sound(f, s, n, d, end) ==
  /\ Chain(f, s)
  /\ Last(s) <= n /\ n <= end
  /\ d = {} => n = Last(s) /\ Last(s) = end
  /\ d # {} => Last(s) \in d

\* The index has the sound records first.
Match(o, s) == \A i \in 1 .. Len(o) : i < Len(s) => o[i] = s[i]

\* The scan comes by every sound record; the log has no other if nothing is damaged.
Scan ==
  /\ state = "opening" => /\ Len(offsets) < Len(marks) => pos = marks[Len(offsets) + 1]
                          /\ damaged = {} => Len(offsets) < Len(marks)
  /\ state = "up" => /\ Len(marks) <= Len(offsets) + 1
                     /\ damaged = {} => Len(marks) = Len(offsets) + 1

\* An acknowledged append is on the disk, is in the index of its opening, and is
\* a sound record if nothing before it is damaged.
OnDisk(a, f, n) == Holds(f, a.pos, a.msg) /\ a.pos + Size(a.msg) <= n

Found(a, st, k, o) ==
  /\ a.opens <= k
  /\ st = "opening" => a.opens < k
  /\ st = "up" /\ a.opens = k => a.offset < Len(o) /\ o[a.offset + 1] = a.pos

Placed(a, s, d) ==
  (\A x \in d : a.pos < x) => a.offset + 1 < Len(s) /\ s[a.offset + 1] = a.pos

\* Where the next record will start, or the one of the Append under way does.
End == IF Appending THEN Start ELSE Len(file)

LogInv ==
  /\ Pending
  /\ Sound(file, marks, synced, damaged, End)
  /\ Match(offsets, marks)
  /\ Scan
  /\ \A a \in acked : OnDisk(a, file, synced)
  /\ \A a \in acked : Found(a, state, opens, offsets)
  /\ \A a \in acked : Placed(a, marks, damaged)
  /\ Chain(tmp, Append(newOffsets, Len(tmp)))

\* No length is above the limit of reindex.
Fits == \A m \in Msgs : Len(Record(m)) <= Limit

Small(f, s) == \A i \in 1 .. Len(s) : Length(f, s[i]) <= Limit

Short(f, s) == \A i \in 1 .. Len(s) - 1 : Length(f, s[i]) <= Limit

LimitInv ==
  /\ Short(file, marks)
  /\ Small(file, offsets)
  /\ Small(tmp, newOffsets)
  /\ state = "refused" => damaged # {}

\* The record at q of g is the one at p of f.
Same(g, q, f, p) ==
  /\ Complete(f, p) /\ Complete(g, q)
  /\ Length(g, q) = Length(f, p)
  /\ \A k \in 1 .. Length(f, p) : g[q + HeaderSize + k] = f[p + HeaderSize + k]

\* The copies of the live records up to the one Compact has come to, in order.
Below(k, n) == {j \in k : j < n}

CopyInv ==
  /\ Len(newOffsets) = Cardinality(Below(live, old))
  /\ \A i \in Below(live, old) :
       /\ Cardinality(Below(live, i)) < Len(newOffsets)
       /\ Same(tmp, newOffsets[Cardinality(Below(live, i)) + 1], file, offsets[i + 1])

-----------------------------------------------------------------------------
(* Lemmas about the layout.                                                *)

\* A number below the square of the base is two digits.
LEMMA TwoDigits ==
  ASSUME NEW b \in Nat \ {0, 1}, NEW n \in Nat, n < b * b
  PROVE  /\ n \div b \in 0 .. b - 1
         /\ n % b \in 0 .. b - 1
         /\ (n \div b) * b + (n % b) = n
<1> DEFINE q == n \div b
           r == n % b
<1>1. q \in Nat /\ r \in 0 .. b - 1 /\ n = b * q + r
  BY Z3
<1> HIDE DEF q, r
<1>2. q < b
  <2>1. SUFFICES ASSUME q >= b PROVE FALSE
    BY <1>1
  <2>2. b * q >= b * b
    BY <2>1, <1>1
  <2> QED
    BY <2>2, <1>1
<1>3. q * b + r = n
  BY <1>1
<1> QED
  BY <1>1, <1>2, <1>3 DEF q, r

\* Sequences: their elements, one that is longer by a position, and a part of one.
LEMMA SeqFacts ==
  ASSUME NEW S, NEW s \in Seq(S)
  PROVE  Len(s) \in Nat /\ \A i \in 1 .. Len(s) : s[i] \in S
OBVIOUS

\* Append puts a position behind the others.
LEMMA Longer ==
  ASSUME NEW s \in Seq(Nat), NEW x \in Nat
  PROVE  /\ Append(s, x) \in Seq(Nat)
         /\ Len(Append(s, x)) = Len(s) + 1
         /\ Append(s, x)[Len(s) + 1] = x
         /\ \A i \in 1 .. Len(s) : Append(s, x)[i] = s[i]
OBVIOUS

\* The n digits after the first k.
LEMMA Slice ==
  ASSUME NEW f \in Seq(Digits), NEW k \in Nat, NEW n \in Nat, k + n <= Len(f)
  PROVE  /\ SubSeq(f, k + 1, k + n) \in Seq(Digits)
         /\ Len(SubSeq(f, k + 1, k + n)) = n
         /\ \A i \in 1 .. n : SubSeq(f, k + 1, k + n)[i] = f[k + i]
OBVIOUS

\* The record of a message: its identifier, a newline and its body.
LEMMA RecordLayout ==
  ASSUME NEW m \in Msgs
  PROVE  /\ Body[m] \in Seq(Digits)
         /\ Record(m) \in Seq(Digits)
         /\ Len(Record(m)) = Len(Body[m]) + 2
         /\ Record(m)[1] = Id[m] /\ Record(m)[2] = NL
         /\ \A i \in 1 .. Len(Body[m]) : Record(m)[i + 2] = Body[m][i]
<1>1. /\ Body[m] \in Seq(Digits)
      /\ <<Id[m], NL>> \in Seq(Digits)
  BY FileLogConstants DEF Digits
<1> QED
  BY <1>1 DEF Record

\* Its header: two digits that stand for the length of the record.
LEMMA HeaderLayout ==
  ASSUME NEW m \in Msgs
  PROVE  /\ Header(m) \in Seq(Digits)
         /\ Len(Header(m)) = 2
         /\ Header(m)[1] * Base + Header(m)[2] = Len(Body[m]) + 2
<1>1. Len(Record(m)) \in Nat /\ Len(Record(m)) = Len(Body[m]) + 2
  BY RecordLayout
<1>2. Base \in Nat \ {0, 1} /\ Len(Record(m)) < Base * Base
  BY <1>1, FileLogConstants, Zenon
<1> DEFINE n == Len(Record(m))
<1> HIDE DEF n
<1>3. /\ n \div Base \in 0 .. Base - 1
      /\ n % Base \in 0 .. Base - 1
      /\ (n \div Base) * Base + (n % Base) = n
  BY <1>1, <1>2, TwoDigits, Zenon DEF n
<1>4. Header(m) = <<n \div Base, n % Base>>
  BY Zenon DEF Header, n
<1> QED
  BY <1>1, <1>3, <1>4 DEF Digits, n

\* Sizes are numbers.
LEMMA SizeType ==
  ASSUME NEW m \in Msgs
  PROVE  Len(Record(m)) \in Nat /\ Size(m) \in Nat /\ Size(m) >= HeaderSize
<1>1. Len(Record(m)) \in Nat
  BY RecordLayout
<1> QED
  BY <1>1 DEF Size, HeaderSize

\* Files that agree do so in any shorter part.
LEMMA AgreeLess ==
  ASSUME NEW f, NEW g, NEW n \in Nat, Agree(f, g, n), NEW k \in Nat, k <= n,
         Len(f) \in Nat, Len(g) \in Nat
  PROVE  Agree(f, g, k)
BY DEF Agree

\* A file agrees with itself.
LEMMA AgreeSelf ==
  ASSUME NEW f \in Seq(Digits)
  PROVE  Agree(f, f, Len(f)) /\ Len(f) \in Nat
<1>1. Len(f) \in Nat
  BY SeqFacts, Zenon
<1>2. Len(f) <= Len(f)
  BY <1>1
<1> QED
  BY <1>1, <1>2, Zenon DEF Agree

\* What a file has in its first digits it has in every file that agrees with it.
LEMMA AgreeLength ==
  ASSUME NEW f \in Seq(Digits), NEW g \in Seq(Digits), NEW n \in Nat, Agree(f, g, n),
         NEW p \in Nat, p + HeaderSize <= n
  PROVE  Length(g, p) = Length(f, p) /\ Length(f, p) \in Nat
<1>1. /\ p + 1 \in 1 .. n /\ p + 2 \in 1 .. n
      /\ p + 1 \in 1 .. Len(f) /\ p + 2 \in 1 .. Len(f)
  BY DEF Agree, HeaderSize
<1>2. f[p + 1] \in Nat /\ f[p + 2] \in Nat
  BY <1>1, FileLogConstants, SMTT(30) DEF Digits
<1>3. g[p + 1] = f[p + 1] /\ g[p + 2] = f[p + 2]
  BY <1>1, Zenon DEF Agree
<1>4. Base \in Nat
  BY FileLogConstants, Zenon
<1>5. ASSUME NEW x \in Nat, NEW y \in Nat
      PROVE  x * Base + y \in Nat
  BY <1>4
<1> QED
  BY <1>2, <1>3, <1>5, Zenon DEF Length

\* The same of a chain of records,
LEMMA AgreeChain ==
  ASSUME NEW f \in Seq(Digits), NEW g \in Seq(Digits), NEW s \in Seq(Nat),
         Chain(f, s), Agree(f, g, Last(s))
  PROVE  Chain(g, s) /\ \A i \in 1 .. Len(s) - 1 : Length(g, s[i]) = Length(f, s[i])
<1>1. Last(s) \in Nat /\ Last(s) <= Len(g)
  BY DEF Chain, Agree, Last
<1>2. ASSUME NEW i \in 1 .. Len(s) - 1
      PROVE  Length(g, s[i]) = Length(f, s[i])
  <2>1. s[i] \in Nat /\ s[i + 1] \in Nat /\ s[i + 1] <= Last(s)
        /\ s[i] + HeaderSize <= s[i + 1]
    BY SMTT(30) DEF Chain, Last
  <2>2. s[i] + HeaderSize <= Last(s)
    <3> DEFINE x == s[i]
               y == s[i + 1]
               z == Last(s)
    <3>1. x \in Nat /\ y \in Nat /\ z \in Nat /\ y <= z /\ x + HeaderSize <= y
      BY <1>1, <2>1, Zenon
    <3> HIDE DEF x, y, z
    <3>2. x + HeaderSize <= z
      BY <3>1 DEF HeaderSize
    <3> QED
      BY <3>2, Zenon DEF x, y, z
  <2> QED
    BY <2>1, <2>2, <1>1, AgreeLength
<1> QED
  BY <1>1, <1>2, Zenon DEF Chain, Last

\* and of the record of a message.
LEMMA AgreeHolds ==
  ASSUME NEW f \in Seq(Digits), NEW g \in Seq(Digits), NEW n \in Nat, Agree(f, g, n),
         NEW m \in Msgs, NEW p \in Nat, Holds(f, p, m), p + Size(m) <= n
  PROVE  Holds(g, p, m)
<1>1. Size(m) \in Nat /\ Size(m) >= HeaderSize /\ Len(Record(m)) \in Nat
  BY SizeType, Zenon
<1>2. Length(g, p) = Length(f, p)
  BY <1>1, AgreeLength DEF HeaderSize
<1>3. Size(m) = HeaderSize + Len(Record(m))
  BY Zenon DEF Size
<1>4. ASSUME NEW i \in 1 .. Len(Record(m))
      PROVE  g[p + HeaderSize + i] = f[p + HeaderSize + i]
  <2>1. p + HeaderSize + i \in 1 .. n
    BY <1>1, <1>3 DEF HeaderSize
  <2> QED
    BY <2>1, Zenon DEF Agree
<1>5. p + Size(m) <= Len(g)
  BY <1>1 DEF Agree
<1> QED
  BY <1>2, <1>4, <1>5, Zenon DEF Holds

\* A file that has grown agrees with what it was.
LEMMA AgreeLonger ==
  ASSUME NEW f \in Seq(Digits), NEW x \in Seq(Digits)
  PROVE  /\ f \o x \in Seq(Digits)
         /\ Len(f \o x) = Len(f) + Len(x)
         /\ \A n \in 0 .. Len(f) : Agree(f, f \o x, n)
         /\ \A i \in 1 .. Len(x) : (f \o x)[Len(f) + i] = x[i]
BY DEF Agree

\* A file that is cut off agrees with the whole up to there.
LEMMA AgreeCut ==
  ASSUME NEW f \in Seq(Digits), NEW k \in 0 .. Len(f)
  PROVE  /\ SubSeq(f, 1, k) \in Seq(Digits)
         /\ Len(SubSeq(f, 1, k)) = k
         /\ \A n \in 0 .. k : Agree(f, SubSeq(f, 1, k), n)
BY DEF Agree

\* A chain that reaches to the end of the file grows by a record that is added.
LEMMA ChainGrows ==
  ASSUME NEW f \in Seq(Digits), NEW g \in Seq(Digits), NEW s \in Seq(Nat),
         Chain(f, s), Agree(f, g, Last(s)),
         Last(s) + HeaderSize + Length(g, Last(s)) = Len(g),
         Last(s) + HeaderSize <= Len(g)
  PROVE  Chain(g, Append(s, Len(g)))
<1>1. Chain(g, s)
  BY AgreeChain, Zenon
<1>2. Len(g) \in Nat /\ Last(s) \in Nat /\ Last(s) <= Len(g) /\ Len(s) \in Nat \ {0}
  BY <1>1 DEF Chain, Last
<1> DEFINE t == Append(s, Len(g))
<1>3. /\ t \in Seq(Nat)
      /\ Len(t) = Len(s) + 1
      /\ t[Len(s) + 1] = Len(g)
      /\ \A i \in 1 .. Len(s) : t[i] = s[i]
  BY <1>2
<1> HIDE DEF t
<1>4. ASSUME NEW i \in 1 .. Len(s)
      PROVE  /\ t[i + 1] = t[i] + HeaderSize + Length(g, t[i])
             /\ t[i] + HeaderSize <= t[i + 1]
             /\ t[i + 1] <= Len(g)
  <2>1. CASE i = Len(s)
    BY <2>1, <1>2, <1>3 DEF Last
  <2>2. CASE i # Len(s)
    <3>1. i \in 1 .. Len(s) - 1 /\ i + 1 \in 1 .. Len(s)
      BY <2>2
    <3>2. t[i] = s[i] /\ t[i + 1] = s[i + 1]
      BY <3>1, <1>3, Zenon
    <3>3. /\ s[i + 1] = s[i] + HeaderSize + Length(g, s[i])
          /\ s[i] + HeaderSize <= s[i + 1]
          /\ s[i + 1] <= Last(s)
      BY <3>1, <1>1, Zenon DEF Chain, Last
    <3>4. s[i + 1] \in Nat
      BY <3>1
    <3> QED
      BY <3>2, <3>3, <3>4, <1>2
  <2> QED
    BY <2>1, <2>2, Zenon
<1>5. t[1] = 0
  <2>1. s[1] = 0 /\ 1 \in 1 .. Len(s)
    BY <1>1 DEF Chain
  <2> QED
    BY <2>1, <1>3, Zenon
<1>6. Len(t) > 0 /\ t[Len(t)] = Len(g) /\ 1 .. Len(t) - 1 = 1 .. Len(s)
  BY <1>2, <1>3
<1> QED
  BY <1>2, <1>3, <1>4, <1>5, <1>6, SMTT(30) DEF Chain, t

\* The bytes of a record that is all in the file.
LEMMA BytesType ==
  ASSUME NEW f \in Seq(Digits), NEW p \in Nat, Complete(f, p)
  PROVE  /\ Length(f, p) \in Nat
         /\ Bytes(f, p) \in Seq(Digits)
         /\ Len(Bytes(f, p)) = HeaderSize + Length(f, p)
         /\ \A i \in 1 .. HeaderSize + Length(f, p) : Bytes(f, p)[i] = f[p + i]
<1>1. Agree(f, f, Len(f)) /\ Len(f) \in Nat
  BY AgreeSelf, Zenon
<1>2. Length(f, p) \in Nat /\ p + HeaderSize + Length(f, p) <= Len(f)
  BY <1>1, AgreeLength, Zenon DEF Complete, HasHeader
<1> DEFINE n == Length(f, p)
<1> HIDE DEF n
<1>3. n \in Nat /\ 2 + n \in Nat /\ p + (2 + n) <= Len(f) /\ p + (2 + n) = p + 2 + n
  BY <1>1, <1>2 DEF n, HeaderSize
<1>4. /\ SubSeq(f, p + 1, p + 2 + n) \in Seq(Digits)
      /\ Len(SubSeq(f, p + 1, p + 2 + n)) = 2 + n
      /\ \A i \in 1 .. 2 + n : SubSeq(f, p + 1, p + 2 + n)[i] = f[p + i]
  <2>1. /\ SubSeq(f, p + 1, p + (2 + n)) \in Seq(Digits)
        /\ Len(SubSeq(f, p + 1, p + (2 + n))) = 2 + n
        /\ \A i \in 1 .. 2 + n : SubSeq(f, p + 1, p + (2 + n))[i] = f[p + i]
    BY <1>3, Slice, ZenonT(40)
  <2> QED
    BY <1>3, <2>1, Zenon
<1> QED
  BY <1>3, <1>4, Zenon DEF Bytes, n, HeaderSize

\* A copy is still one when the new file grows.
LEMMA SameStays ==
  ASSUME NEW f, NEW g \in Seq(Digits), NEW h \in Seq(Digits), Agree(g, h, Len(g)),
         NEW p \in Nat, NEW q \in Nat, Same(g, q, f, p)
  PROVE  Same(h, q, f, p)
<1>0. Len(g) \in Nat /\ Len(h) \in Nat /\ Len(g) <= Len(h)
  BY SeqFacts, Zenon DEF Agree
<1>1. q + HeaderSize <= Len(g) /\ q + HeaderSize + Length(g, q) <= Len(g)
  BY Zenon DEF Same, Complete, HasHeader
<1>2. Length(h, q) = Length(g, q) /\ Length(g, q) \in Nat
  BY <1>0, <1>1, AgreeLength, Zenon
<1> DEFINE n == Length(g, q)
<1>3. n = Length(f, p) /\ n \in Nat
  BY <1>2, Zenon DEF Same
<1> HIDE DEF n
<1>4. q + 2 + n <= Len(g) /\ q + 2 <= Len(g)
  BY <1>1, Zenon DEF n, HeaderSize
<1>5. Complete(h, q)
  BY <1>0, <1>2, <1>3, <1>4 DEF Complete, HasHeader, HeaderSize, n
<1>6. ASSUME NEW k \in 1 .. n PROVE h[q + HeaderSize + k] = g[q + HeaderSize + k]
  <2>1. q + HeaderSize + k \in 1 .. Len(g)
    BY <1>0, <1>3, <1>4 DEF HeaderSize
  <2> QED
    BY <2>1, Zenon DEF Agree
<1> QED
  BY <1>2, <1>3, <1>5, <1>6, Zenon DEF Same, n

\* A copy reads as the record it was made from.
LEMMA SameReads ==
  ASSUME NEW f \in Seq(Digits), NEW g \in Seq(Digits), NEW p \in Nat, NEW q \in Nat,
         Same(g, q, f, p)
  PROVE  ReadAt(g, q) = ReadAt(f, p)
<1> DEFINE n == Length(f, p)
           a == p + 2
           b == q + 2
           x == SubSeq(f, a + 1, a + n)
           y == SubSeq(g, b + 1, b + n)
<1>n. n \in Nat /\ Length(g, q) = n
  BY BytesType, Zenon DEF Same
<1>a. a \in Nat /\ a + n <= Len(f)
  BY <1>n DEF Same, Complete, HeaderSize
<1>b. b \in Nat /\ b + n <= Len(g)
  BY <1>n DEF Same, Complete, HeaderSize
<1>1. \A k \in 1 .. n : g[b + k] = f[a + k]
  BY <1>n, Zenon DEF Same, HeaderSize
<1> HIDE DEF n, a, b
<1>2. x \in Seq(Digits) /\ Len(x) = n /\ \A k \in 1 .. n : x[k] = f[a + k]
  BY ONLY <1>n, <1>a, f \in Seq(Digits), Slice, ZenonT(40)
<1>3. y \in Seq(Digits) /\ Len(y) = n /\ \A k \in 1 .. n : y[k] = g[b + k]
  BY ONLY <1>n, <1>b, g \in Seq(Digits), Slice, ZenonT(40)
<1>4. x = y
  <2>1. \A k \in 1 .. n : x[k] = y[k]
    BY <1>1, <1>2, <1>3, Zenon
  <2> HIDE DEF x, y
  <2> QED
    BY <1>2, <1>3, <2>1
<1>5. Complete(f, p) /\ Complete(g, q)
  BY Zenon DEF Same
<1> HIDE DEF x, y
<1>6. ReadAt(f, p) = AfterLine(x)
  BY <1>5, Zenon DEF ReadAt, x, n, a, HeaderSize
<1>7. ReadAt(g, q) = AfterLine(y)
  BY <1>n, <1>5, Zenon DEF ReadAt, y, b, HeaderSize
<1> QED
  BY <1>4, <1>6, <1>7, Zenon

-----------------------------------------------------------------------------
(* Types.                                                                  *)

\* Where the record of the Append under way starts.
LEMMA StartType ==
  ASSUME TypeInv, Appending
  PROVE  /\ Start \in Nat
         /\ Start + HeaderSize <= Len(file)
         /\ pc = "record" => Start = Len(file) - HeaderSize
         /\ pc = "sync" => Start = Len(file) - Size(msg)
<1>1. msg \in Msgs /\ Len(file) \in Nat /\ pc \in {"record", "sync"}
  BY DEF TypeInv, TypeOK, Appending
<1>2. Size(msg) \in Nat /\ Size(msg) >= HeaderSize
  BY <1>1, SizeType, Zenon
<1> QED
  BY <1>1, <1>2 DEF Start, Size, HeaderSize, TypeInv, Written

\* Where a record of the file begins there is still a header when the file grows.
LEMMA HeadersStay ==
  ASSUME NEW f \in Seq(Digits), NEW g \in Seq(Digits), Len(f) <= Len(g), NEW s \in Seq(Nat),
         \A i \in DOMAIN s : HasHeader(f, s[i])
  PROVE  \A i \in DOMAIN s : HasHeader(g, s[i])
<1>1. ASSUME NEW p \in Nat, HasHeader(f, p) PROVE HasHeader(g, p)
  BY <1>1 DEF HasHeader, HeaderSize
<1> QED
  BY <1>1

\* The parts of the type invariant, with what they are about as parameters.
DiskOK(f, n) == f \in Seq(Digits) /\ n \in 0 .. Len(f)
IndexOK(f, s) == s \in Seq(Nat) /\ \A i \in DOMAIN s : HasHeader(f, s[i])
LoopOK(s, k, i) == k \in SUBSET (0 .. Len(s) - 1) /\ i \in 0 .. Len(s)
HistoryOK(u, a, d, s) ==
  /\ u \subseteq Msgs
  /\ a \subseteq [msg : u, offset : Nat, pos : Nat, opens : 0 .. MaxOpens]
  /\ d \subseteq Nat
  /\ s \in Seq(Nat)
ControlOK ==
  /\ state \in {"down", "opening", "up", "refused"}
  /\ pos \in Nat
  /\ pc \in {"idle", "record", "sync", "compact"}
  /\ msg \in Msgs
  /\ opens \in 0 .. MaxOpens
  /\ Memory
  /\ pc = "record" => Len(file) >= HeaderSize
  /\ pc = "sync" => Len(file) >= Size(msg)
  /\ pc \in {"record", "sync"} => msg \in used

Parts ==
  /\ DiskOK(file, synced)
  /\ IndexOK(file, offsets)
  /\ LoopOK(offsets, live, old)
  /\ tmp \in Seq(Digits) /\ IndexOK(tmp, newOffsets)
  /\ HistoryOK(used, acked, damaged, marks)
  /\ ControlOK

\* They make up the type invariant, before and after a step.
LEMMA TypeParts ==
  (TypeInv <=> Parts) /\ (TypeInv' <=> Parts')
BY Zenon
   DEF TypeInv, TypeOK, Parts, Written, DiskOK, IndexOK, LoopOK, HistoryOK, ControlOK, Digits

\* The same index in a file that has grown, and with one more position.
LEMMA IndexGrows ==
  ASSUME NEW f \in Seq(Digits), NEW g \in Seq(Digits), Len(f) <= Len(g), NEW s, IndexOK(f, s)
  PROVE  /\ IndexOK(g, s)
         /\ \A p \in Nat : HasHeader(g, p) => IndexOK(g, Append(s, p))
<1>1. IndexOK(g, s)
  BY HeadersStay, Zenon DEF IndexOK
<1> QED
  BY <1>1 DEF IndexOK

\* An empty index is an index, and a loop that has not begun is at 0.
LEMMA Empty ==
  /\ \A f : IndexOK(f, <<>>)
  /\ \A s \in Seq(Nat) : LoopOK(s, {}, 0)
  /\ LoopOK(<<>>, {}, 0)
BY DEF IndexOK, LoopOK

\* The initial state has its types.
LEMMA TypeInit ==
  Init => TypeInv
BY FileLogConstants DEF Init, TypeInv, TypeOK, Memory, Written, Digits

\* Every step keeps them.
LEMMA TypeNext ==
  TypeInv /\ [Next]_vars => TypeInv'
<1> SUFFICES ASSUME TypeInv, [Next]_vars PROVE TypeInv'
  BY Zenon
<1> USE DEF TypeInv
<1>p. Parts /\ (TypeInv' <=> Parts')
  BY TypeParts, Zenon
<1>0. /\ Base \in Nat \ {0, 1} /\ MaxOpens \in Nat
      /\ file \in Seq(Digits) /\ tmp \in Seq(Digits) /\ Len(file) \in Nat /\ Len(tmp) \in Nat
      /\ Len(offsets) \in Nat /\ Len(newOffsets) \in Nat
  BY FileLogConstants, SMTT(30) DEF TypeOK, Digits
<1>1. CASE OpenFileLog
  BY <1>0, <1>1 DEF OpenFileLog, TypeOK, Memory, Written, compaction, history
<1>2. CASE ReindexRecord
  <2>1. pos' \in Nat
    <3>1. Agree(file, file, Len(file))
      BY <1>0 DEF Agree
    <3>2. Length(file, pos) \in Nat
      BY <1>0, <1>2, <3>1, AgreeLength, Zenon DEF ReindexRecord, Accepted, HasHeader, TypeOK
    <3> QED
      BY <1>2, <3>2, SMTT(30) DEF ReindexRecord, TypeOK, HeaderSize
  <2>2. /\ offsets' \in Seq(Nat)
        /\ \A i \in DOMAIN offsets' : HasHeader(file, offsets'[i])
        /\ live = {} /\ old = 0
    BY <1>2, SMTT(30) DEF ReindexRecord, TypeOK, Memory, Accepted
  <2>3. live' \in SUBSET (0 .. Len(offsets') - 1) /\ old' \in 0 .. Len(offsets')
    BY <1>2, <2>2 DEF ReindexRecord, compaction
  <2>4. TypeOK'
    BY <1>0, <1>2, <2>1, <2>2, <2>3, Zenon DEF ReindexRecord, TypeOK, compaction, history
  <2> QED
    BY <1>2, <2>4, Zenon DEF ReindexRecord, Memory, Written, compaction, history
<1>3. CASE ReindexFails
  BY <1>0, <1>3, SMTT(30) DEF ReindexFails, TypeOK, Memory, Written, compaction, history
<1>4. CASE ReindexDone
  BY <1>0, <1>4, Zenon DEF ReindexDone, TypeOK, Memory, Written, compaction, history
<1>5. CASE Close
  BY <1>0, <1>5 DEF Close, TypeOK, Memory, Written, compaction, history
<1>6. CASE Crash
  <2>1. PICK k \in synced .. Len(file) : file' = SubSeq(file, 1, k) /\ synced' = k
    BY <1>6, Zenon DEF Crash
  <2>2. k \in 0 .. Len(file)
    BY <1>0 DEF TypeOK
  <2>3. DiskOK(file', synced')
    BY <1>0, <2>1, <2>2, AgreeCut DEF DiskOK
  <2>4. damaged' \subseteq Nat
    BY <1>6, StartType, Zenon DEF Crash, TypeOK
  <2>5. marks' = marks \/ marks' = Append(marks, Len(file'))
    <3>1. Len(file') = k
      BY <1>0, <2>1, <2>2, AgreeCut, Zenon
    <3> QED
      BY <1>6, <2>1, <3>1, Zenon DEF Crash
  <2>6. HistoryOK(used', acked', damaged', marks')
    <3>1. Len(file') \in Nat /\ marks \in Seq(Nat)
      BY <2>3 DEF DiskOK, TypeOK
    <3>2. marks' \in Seq(Nat)
      BY <2>5, <3>1, Longer, Zenon
    <3> QED
      BY <1>6, <1>p, <2>4, <3>2, Zenon DEF Crash, Stop, Parts, HistoryOK
  <2>7. offsets' = <<>> /\ live' = {} /\ old' = 0 /\ newOffsets' = <<>> /\ tmp' = <<>>
    BY <1>6, Zenon DEF Crash, Stop, Discard
  <2>8. ControlOK'
    BY <1>6, <1>p, <2>7, Zenon DEF Crash, Stop, Parts, ControlOK, Memory
  <2> QED
    BY <1>p, <2>3, <2>6, <2>7, <2>8, Empty DEF Parts
<1>7. CASE Kill
  <2>1. damaged' \subseteq Nat
    BY <1>7, StartType, Zenon DEF Kill, TypeOK
  <2>2. HistoryOK(used', acked', damaged', marks')
    BY <1>7, <1>p, <2>1, Zenon DEF Kill, Stop, Parts, HistoryOK
  <2>3. offsets' = <<>> /\ live' = {} /\ old' = 0 /\ newOffsets' = <<>> /\ tmp' = <<>>
    BY <1>7, Zenon DEF Kill, Stop, Discard
  <2>4. ControlOK'
    BY <1>7, <1>p, <2>3, Zenon DEF Kill, Stop, Parts, ControlOK, Memory
  <2> QED
    BY <1>7, <1>p, <2>2, <2>3, <2>4, Empty DEF Parts, Kill
<1>8. ASSUME NEW m \in Msgs, AppendHeader(m) PROVE TypeInv'
  <2>1. file' \in Seq(Digits) /\ Len(file') = Len(file) + 2 /\ Len(file) <= Len(file')
    <3>1. Header(m) \in Seq(Digits) /\ Len(Header(m)) = 2
      BY HeaderLayout, Zenon
    <3>2. file' = file \o Header(m)
      BY <1>8, Zenon DEF AppendHeader
    <3>3. file' \in Seq(Digits) /\ Len(file') = Len(file) + Len(Header(m))
      BY <1>0, <3>1, <3>2, AgreeLonger, Zenon
    <3> QED
      BY <1>0, <3>1, <3>3
  <2>2. DiskOK(file', synced')
    BY <1>0, <1>p, <1>8, <2>1 DEF AppendHeader, Parts, DiskOK
  <2>3. IndexOK(file', offsets')
    <3>1. offsets' = offsets /\ IndexOK(file, offsets)
      BY <1>p, <1>8, Zenon DEF AppendHeader, Parts
    <3> QED
      BY <1>0, <2>1, <3>1, IndexGrows, Zenon
  <2>4. HistoryOK(used', acked', damaged', marks')
    BY <1>p, <1>8, Zenon DEF AppendHeader, BeginAppend, Parts, HistoryOK
  <2>5. ControlOK'
    BY <1>0, <1>p, <1>8, <2>1
       DEF AppendHeader, BeginAppend, Parts, ControlOK, Memory, HeaderSize, compaction
  <2> QED
    BY <1>p, <1>8, <2>2, <2>3, <2>4, <2>5, Zenon DEF AppendHeader, Parts, compaction
<1>9. ASSUME NEW m \in Msgs, HeaderFails(m) PROVE TypeInv'
  <2>1. file' \in Seq(Digits) /\ Len(file') = Len(file) + 1 /\ Len(file) <= Len(file')
    <3>1. SubSeq(Header(m), 1, 1) \in Seq(Digits) /\ Len(SubSeq(Header(m), 1, 1)) = 1
      BY HeaderLayout
    <3> QED
      BY <1>0, <1>9, <3>1, AgreeLonger DEF HeaderFails
  <2>2. DiskOK(file', synced')
    BY <1>0, <1>p, <1>9, <2>1 DEF HeaderFails, Parts, DiskOK
  <2>3. IndexOK(file', offsets')
    <3>1. offsets' = offsets /\ IndexOK(file, offsets)
      BY <1>p, <1>9, Zenon DEF HeaderFails, Parts
    <3> QED
      BY <1>0, <2>1, <3>1, IndexGrows, Zenon
  <2>4. HistoryOK(used', acked', damaged', marks')
    BY <1>0, <1>p, <1>9, Zenon DEF HeaderFails, BeginAppend, Parts, HistoryOK
  <2>5. ControlOK'
    BY <1>0, <1>p, <1>9, <2>1, Zenon
       DEF HeaderFails, BeginAppend, Parts, ControlOK, Memory, compaction
  <2> QED
    BY <1>p, <1>9, <2>2, <2>3, <2>4, <2>5, Zenon DEF HeaderFails, Parts, compaction
<1>10. CASE AppendRecord
  <2>0. Len(Record(msg)) \in Nat /\ Record(msg) \in Seq(Digits)
    BY RecordLayout, SizeType, Zenon DEF TypeOK
  <2>1. file' \in Seq(Digits) /\ Len(file') = Len(file) + Len(Record(msg))
    BY <1>0, <1>10, <2>0, AgreeLonger, Zenon DEF AppendRecord
  <2>2. DiskOK(file', synced')
    BY <1>0, <1>p, <1>10, <2>0, <2>1 DEF AppendRecord, Parts, DiskOK
  <2>3. Len(file) <= Len(file') /\ Len(file') >= Size(msg)
    BY <1>0, <1>10, <2>0, <2>1 DEF AppendRecord, Written, Size, HeaderSize
  <2>4. IndexOK(file', offsets')
    BY <1>0, <1>p, <1>10, <2>1, <2>3, IndexGrows, Zenon DEF AppendRecord, Parts
  <2>5. ControlOK'
    BY <1>p, <1>10, <2>3, Zenon
       DEF AppendRecord, Parts, ControlOK, Memory, compaction, history
  <2> QED
    BY <1>p, <1>10, <2>2, <2>4, <2>5, Zenon DEF AppendRecord, Parts, compaction, history
<1>11. CASE RecordFails
  <2>0. PICK k \in 0 .. Len(Record(msg)) - 1 : file' = file \o SubSeq(Record(msg), 1, k)
    BY <1>11, Zenon DEF RecordFails
  <2>1. file' \in Seq(Digits) /\ Len(file) <= Len(file')
    <3>1. Record(msg) \in Seq(Digits) /\ k \in 0 .. Len(Record(msg))
      BY RecordLayout, SizeType DEF TypeOK
    <3>2. SubSeq(Record(msg), 1, k) \in Seq(Digits) /\ Len(SubSeq(Record(msg), 1, k)) = k
      BY <3>1, AgreeCut, Zenon
    <3> QED
      BY <1>0, <2>0, <3>1, <3>2, AgreeLonger
  <2>2. DiskOK(file', synced')
    BY <1>0, <1>p, <1>11, <2>1 DEF RecordFails, Parts, DiskOK
  <2>3. IndexOK(file', offsets')
    BY <1>0, <1>p, <1>11, <2>1, IndexGrows, Zenon DEF RecordFails, Parts
  <2>4. damaged' \subseteq Nat
    BY <1>11, StartType, Zenon DEF RecordFails, Appending, TypeOK
  <2>5. HistoryOK(used', acked', damaged', marks')
    BY <1>p, <1>11, <2>4, Zenon DEF RecordFails, Parts, HistoryOK
  <2>6. ControlOK'
    BY <1>p, <1>11, Zenon DEF RecordFails, Parts, ControlOK, Memory, compaction
  <2> QED
    BY <1>p, <1>11, <2>2, <2>3, <2>5, <2>6, Zenon DEF RecordFails, Parts, compaction
<1>12. CASE AppendSync
  <2>0. pc = "sync" /\ Start \in Nat /\ HasHeader(file, Start)
    BY <1>12, StartType, Zenon DEF AppendSync, Answer, Appending, HasHeader
  <2>1. IndexOK(file', offsets')
    BY <1>0, <1>p, <1>12, <2>0, IndexGrows DEF AppendSync, Answer, Parts
  <2>2. marks' \in Seq(Nat)
    <3>1. marks' = marks \/ marks' = Append(marks, Len(file))
      BY <1>12, Zenon DEF AppendSync, Answer
    <3>2. marks \in Seq(Nat)
      BY Zenon DEF TypeOK
    <3> QED
      BY <1>0, <3>1, <3>2, Longer, ZenonT(40)
  <2>3. msg \in used /\ opens \in 0 .. MaxOpens
    BY <2>0, Zenon DEF Written, TypeOK
  <2>4. HistoryOK(used', acked', damaged', marks')
    <3>1. [msg |-> msg, offset |-> Len(offsets), pos |-> Start, opens |-> opens]
            \in [msg : used, offset : Nat, pos : Nat, opens : 0 .. MaxOpens]
      BY <1>0, <2>0, <2>3, Zenon
    <3>2. /\ acked' = acked \cup {[msg |-> msg, offset |-> Len(offsets), pos |-> Start, opens |-> opens]}
          /\ used' = used /\ damaged' = damaged
      BY <1>12, Zenon DEF AppendSync, Answer
    <3> QED
      BY <1>p, <2>2, <3>1, <3>2, Zenon DEF Parts, HistoryOK
  <2>5. live' = {} /\ old' = 0
    BY <1>12, <2>0, Zenon DEF AppendSync, Answer, Memory, compaction
  <2>6. LoopOK(offsets', live', old')
    BY <2>1, <2>5, Empty, Zenon DEF IndexOK
  <2>7. DiskOK(file', synced')
    BY <1>0, <1>p, <1>12 DEF AppendSync, Answer, Parts, DiskOK
  <2>8. ControlOK'
    BY <1>p, <1>12, <2>0, Zenon DEF AppendSync, Answer, Parts, ControlOK, Memory, compaction
  <2> QED
    BY <1>p, <1>12, <2>1, <2>4, <2>6, <2>7, <2>8, Zenon
       DEF AppendSync, Answer, Parts, compaction
<1>13. CASE SyncFails
  <2>1. damaged' \subseteq Nat
    BY <1>13, StartType, Zenon DEF SyncFails, Appending, TypeOK
  <2> QED
    BY <1>0, <1>13, <2>1, Zenon DEF SyncFails, TypeOK, Memory, Written, compaction
<1>14. ASSUME NEW keep \in SUBSET (0 .. Len(offsets) - 1), CompactBegin(keep) PROVE TypeInv'
  BY <1>0, <1>14, Zenon DEF CompactBegin, TypeOK, Memory, Written, history
<1>15. CASE CompactSkip
  <2>1. old' \in 0 .. Len(offsets)
    BY <1>0, <1>15 DEF CompactSkip, TypeOK
  <2> QED
    BY <1>0, <1>15, <2>1, Zenon DEF CompactSkip, TypeOK, Memory, Written, history
<1>16. CASE CompactCopy
  <2> DEFINE p == offsets[old + 1]
             x == Bytes(file, p)
  <2>0. old + 1 \in 1 .. Len(offsets) /\ old' \in 0 .. Len(offsets)
    BY <1>0, <1>16 DEF CompactCopy, Copy, TypeOK
  <2>1. p \in Nat /\ Complete(file, p)
    <3>1. p \in Nat
      <4>1. offsets \in Seq(Nat)
        BY Zenon DEF TypeOK
      <4> QED
        BY <2>0, <4>1, SeqFacts, Zenon
    <3> QED
      BY <1>16, <3>1, Zenon DEF CompactCopy, Copy
  <2> HIDE DEF p
  <2>2. x \in Seq(Digits) /\ Len(x) = HeaderSize + Length(file, p) /\ Length(file, p) \in Nat
    BY <1>0, <2>1, BytesType, Zenon
  <2> HIDE DEF x
  <2>3. tmp' = tmp \o x
    BY <1>16, Zenon DEF CompactCopy, Copy, p, x
  <2>4. tmp' \in Seq(Digits) /\ Len(tmp') = Len(tmp) + Len(x)
    BY <1>0, <2>2, <2>3, AgreeLonger, Zenon
  <2>5. Len(tmp) <= Len(tmp') /\ HasHeader(tmp', Len(tmp))
    BY <1>0, <2>2, <2>4, SMTT(30) DEF HeaderSize, HasHeader
  <2>6. IndexOK(tmp', newOffsets')
    BY <1>0, <1>p, <1>16, <2>4, <2>5, IndexGrows, Zenon DEF CompactCopy, Copy, Parts
  <2>7. LoopOK(offsets', live', old')
    BY <1>p, <1>16, <2>0, Zenon DEF CompactCopy, Copy, Parts, LoopOK
  <2>8. ControlOK'
    BY <1>p, <1>16, Zenon DEF CompactCopy, Copy, Parts, ControlOK, Memory
  <2> QED
    BY <1>p, <1>16, <2>4, <2>6, <2>7, <2>8, Zenon DEF CompactCopy, Copy, Parts, history
<1>17. CASE CompactFails
  BY <1>0, <1>17 DEF CompactFails, Discard, TypeOK, Memory, Written, history
<1>18. CASE CompactRename
  <2>1. marks' \in Seq(Nat)
    BY <1>0, <1>18 DEF CompactRename, TypeOK
  <2>2. HistoryOK(used', acked', damaged', marks')
    BY <1>p, <1>18, <2>1, Zenon DEF CompactRename, Parts, HistoryOK
  <2>3. DiskOK(file', synced')
    BY <1>0, <1>18 DEF CompactRename, DiskOK
  <2>4. live' = {} /\ old' = 0 /\ newOffsets' = <<>> /\ tmp' = <<>>
    BY <1>18, Zenon DEF CompactRename, Discard
  <2>5. \/ state' = "up" /\ offsets' = newOffsets
        \/ state' = "down" /\ offsets' = <<>>
    BY <1>18, Zenon DEF CompactRename
  <2>6. IndexOK(file', offsets')
    BY <1>p, <1>18, <2>5, Empty, Zenon DEF CompactRename, Parts
  <2>7. LoopOK(offsets', live', old')
    BY <2>4, <2>6, Empty, Zenon DEF IndexOK
  <2>8. ControlOK'
    BY <1>p, <1>18, <2>4, <2>5, Zenon DEF CompactRename, Parts, ControlOK, Memory
  <2> QED
    BY <1>p, <2>2, <2>3, <2>4, <2>6, <2>7, <2>8, Empty DEF Parts
<1>19. CASE RenameFails
  BY <1>0, <1>19 DEF RenameFails, Discard, TypeOK, Memory, Written, history
<1>20. CASE UNCHANGED vars
  BY <1>0, <1>20, Zenon DEF vars, TypeOK, Memory, Written, compaction, history, HasHeader
<1> QED
  BY <1>1, <1>2, <1>3, <1>4, <1>5, <1>6, <1>7, <1>8, <1>9, <1>10, <1>11, <1>12, <1>13,
     <1>14, <1>15, <1>16, <1>17, <1>18, <1>19, <1>20, Zenon DEF Next

\* Every variable has its type in every reachable state, and the index only
\* points at headers that are in the file.
THEOREM TypeCorrect == Spec => []TypeOK
<1>1. Spec => []TypeInv
  BY TypeInit, TypeNext, PTL DEF Spec
<1>2. TypeInv => TypeOK
  BY Zenon DEF TypeInv
<1> QED
  BY <1>1, <1>2, PTL

-----------------------------------------------------------------------------
(* The acknowledged appends.                                               *)

\* What was on the disk stays there when the file keeps those digits.
LEMMA OnDiskStays ==
  ASSUME NEW f \in Seq(Digits), NEW g \in Seq(Digits), NEW n \in Nat, Agree(f, g, n),
         NEW k \in Nat, n <= k, NEW a \in [msg : Msgs, offset : Nat, pos : Nat, opens : Nat],
         OnDisk(a, f, n)
  PROVE  OnDisk(a, g, k)
<1>1. a.msg \in Msgs /\ a.pos \in Nat
  BY Zenon
<1>2. Size(a.msg) \in Nat
  BY <1>1, SizeType, Zenon
<1>3. Holds(f, a.pos, a.msg) /\ a.pos + Size(a.msg) <= n
  BY Zenon DEF OnDisk
<1>4. Holds(g, a.pos, a.msg)
  BY <1>1, <1>3, AgreeHolds, Zenon
<1>5. a.pos + Size(a.msg) <= k
  BY <1>1, <1>2, <1>3
<1> QED
  BY <1>4, <1>5, Zenon DEF OnDisk

\* More damage and more sound records change nothing about the earlier ones.
LEMMA PlacedStays ==
  ASSUME NEW a \in [msg : Msgs, offset : Nat, pos : Nat, opens : Nat],
         NEW s \in Seq(Nat), NEW d, Placed(a, s, d)
  PROVE  /\ \A x : Placed(a, s, d \cup {x})
         /\ \A x \in Nat : Placed(a, Append(s, x), d)
<1>1. a.offset \in Nat
  BY Zenon
<1>2. ASSUME NEW x PROVE Placed(a, s, d \cup {x})
  BY Zenon DEF Placed
<1>3. ASSUME NEW x \in Nat PROVE Placed(a, Append(s, x), d)
  <2>1. Len(Append(s, x)) = Len(s) + 1 /\ \A i \in 1 .. Len(s) : Append(s, x)[i] = s[i]
    OBVIOUS
  <2>2. ASSUME a.offset + 1 < Len(s)
        PROVE  a.offset + 1 < Len(Append(s, x)) /\ Append(s, x)[a.offset + 1] = s[a.offset + 1]
    BY <1>1, <2>1, <2>2
  <2> QED
    BY <2>2, Zenon DEF Placed
<1> QED
  BY <1>2, <1>3, Zenon

\* The sound part stays sound in a file that keeps what is on the disk.
LEMMA ChainStays ==
  ASSUME NEW f \in Seq(Digits), NEW g \in Seq(Digits), NEW n \in Nat, Agree(f, g, n),
         NEW s \in Seq(Nat), NEW d, NEW e, Sound(f, s, n, d, e)
  PROVE  /\ Chain(f, s) /\ Chain(g, s)
         /\ Agree(f, g, Last(s))
         /\ Last(s) \in Nat /\ Last(s) <= n
<1>1. Chain(f, s) /\ Last(s) <= n
  BY Zenon DEF Sound
<1>2. Last(s) \in Nat
  BY <1>1 DEF Chain, Last
<1>3. Agree(f, g, Last(s))
  <2> DEFINE l == Last(s)
  <2>1. l \in Nat /\ l <= n
    BY <1>1, <1>2, Zenon
  <2> HIDE DEF l
  <2>2. Agree(f, g, l)
    BY <2>1 DEF Agree
  <2> QED
    BY <2>2, Zenon DEF l
<1>4. Chain(g, s)
  BY <1>1, <1>3, AgreeChain, Zenon
<1> QED
  BY <1>1, <1>2, <1>3, <1>4, Zenon

\* The positions of a chain: the first is 0, and each but the last is followed
\* by a record that ends at the next.
LEMMA ChainStep ==
  ASSUME NEW f, NEW s, Chain(f, s), NEW i \in 1 .. Len(s) - 1
  PROVE  /\ s[i] \in Nat /\ s[i + 1] \in Nat
         /\ s[i + 1] = s[i] + HeaderSize + Length(f, s[i])
         /\ s[i] + HeaderSize <= s[i + 1]
         /\ s[i + 1] <= Last(s)
BY SMTT(30) DEF Chain, Last

\* A file without records.
LEMMA EmptyChain ==
  /\ Append(<<>>, 0) = <<0>> /\ <<0>> \in Seq(Nat) /\ Len(<<0>>) = 1 /\ Len(<<>>) = 0
  /\ Last(<<0>>) = 0
  /\ \A f \in Seq(Digits) : Chain(f, <<0>>)
BY DEF Chain, Last

\* An empty index agrees with any.
LEMMA EmptyIndex ==
  \A s : Match(<<>>, s)
BY DEF Match

\* The initial state.
LEMMA LogInit ==
  Init => LogInv
<1> SUFFICES ASSUME Init PROVE LogInv
  BY Zenon
<1>1. /\ file = <<>> /\ tmp = <<>> /\ newOffsets = <<>> /\ offsets = <<>> /\ marks = <<0>>
      /\ pc = "idle" /\ state = "down" /\ acked = {} /\ damaged = {} /\ synced = 0
  BY Zenon DEF Init
<1>2. <<>> \in Seq(Digits)
  OBVIOUS
<1>3. End = 0 /\ Pending /\ Scan
  BY <1>1, EmptyChain, Zenon DEF End, Appending, Pending, Scan
<1>4. Sound(file, marks, synced, damaged, End)
  <2>1. Chain(file, marks) /\ Last(marks) = 0
    BY <1>1, <1>2, EmptyChain, Zenon
  <2> QED
    BY <1>1, <1>3, <2>1 DEF Sound
<1>5. Chain(tmp, Append(newOffsets, Len(tmp)))
  BY <1>1, <1>2, EmptyChain, Zenon
<1>6. Match(offsets, marks)
  BY <1>1 DEF Match
<1> QED
  BY <1>1, <1>3, <1>4, <1>5, <1>6, Zenon DEF LogInv

\* What both ends of a step have in common.
LEMMA LogTypes ==
  ASSUME TypeInv
  PROVE  /\ file \in Seq(Digits) /\ Len(file) \in Nat /\ tmp \in Seq(Digits) /\ Len(tmp) \in Nat
         /\ synced \in Nat /\ synced <= Len(file)
         /\ offsets \in Seq(Nat) /\ Len(offsets) \in Nat
         /\ newOffsets \in Seq(Nat) /\ Len(newOffsets) \in Nat
         /\ marks \in Seq(Nat) /\ Len(marks) \in Nat
         /\ pos \in Nat /\ msg \in Msgs /\ opens \in Nat
         /\ acked \subseteq [msg : Msgs, offset : Nat, pos : Nat, opens : Nat]
         /\ damaged \subseteq Nat
BY FileLogConstants, SMTT(30) DEF TypeInv, TypeOK, Digits

\* The numbers among them.
LEMMA Lens ==
  ASSUME TypeInv
  PROVE  /\ Len(file) \in Nat /\ Len(tmp) \in Nat /\ synced \in Nat /\ synced <= Len(file)
         /\ Len(offsets) \in Nat /\ Len(newOffsets) \in Nat /\ Len(marks) \in Nat
         /\ pos \in Nat /\ opens \in Nat
BY LogTypes, Zenon

\* A step that leaves the file and the histories alone, outside of an Append,
\* only has to answer for the index.
LEMMA QuietStep ==
  ASSUME LogInv, ~Appending, ~Appending', UNCHANGED <<file, synced, acked, damaged, marks>>
  PROVE  /\ Pending'
         /\ Sound(file', marks', synced', damaged', End')
         /\ \A a \in acked' : OnDisk(a, file', synced')
         /\ \A a \in acked' : Placed(a, marks', damaged')
<1>1. End' = End
  BY Zenon DEF End
<1> QED
  BY <1>1, Zenon DEF LogInv, Pending, Appending

\* OpenFileLog and the steps of reindex.
LEMMA LogOpening ==
  ASSUME TypeInv, LogInv,
         OpenFileLog \/ ReindexRecord \/ ReindexFails \/ ReindexDone
  PROVE  LogInv'
<1>0. state # "up" /\ pc = "idle" /\ pc' = "idle" /\ tmp' = tmp /\ newOffsets' = newOffsets
  BY Zenon
     DEF TypeInv, Memory, OpenFileLog, ReindexRecord, ReindexFails, ReindexDone, compaction
<1>1. ~Appending /\ ~Appending' /\ UNCHANGED <<file, synced, acked, damaged, marks>>
  BY <1>0, Zenon
     DEF Appending, OpenFileLog, ReindexRecord, ReindexFails, ReindexDone, history
<1>2. /\ Pending'
      /\ Sound(file', marks', synced', damaged', End')
      /\ \A a \in acked' : OnDisk(a, file', synced')
      /\ \A a \in acked' : Placed(a, marks', damaged')
  BY <1>1, QuietStep, Zenon
<1>3. Chain(tmp', Append(newOffsets', Len(tmp')))
  BY <1>0, Zenon DEF LogInv
<1>4. /\ Chain(file, marks) /\ Last(marks) <= synced
      /\ damaged = {} => Last(marks) = Len(file)
  BY <1>1, Zenon DEF LogInv, Sound, End
<1>5. Last(marks) = marks[Len(marks)] /\ Len(marks) > 0 /\ marks[1] = 0
  BY <1>4, Zenon DEF Chain, Last
<1>6. CASE OpenFileLog
  <2>1. offsets = <<>> /\ pos = 0 /\ Len(offsets) = 0
    BY <1>6, Zenon DEF OpenFileLog, TypeInv, Memory
  <2>2. state' = "opening" /\ offsets' = offsets /\ pos' = pos /\ opens' = opens + 1
    BY <1>6, Zenon DEF OpenFileLog
  <2>3. Match(offsets', marks') /\ Scan'
    BY <1>1, <1>5, <2>1, <2>2 DEF Match, Scan
  <2>4. \A a \in acked' : Found(a, state', opens', offsets')
    <3>1. ASSUME NEW a \in acked PROVE a.opens \in Nat /\ a.opens <= opens
      BY LogTypes, Zenon DEF LogInv, Found
    <3> QED
      BY <1>1, <2>2, <3>1, Lens DEF Found
  <2> QED
    BY <1>2, <1>3, <2>3, <2>4, Zenon DEF LogInv
<1>7. CASE ReindexRecord
  <2>1. /\ state = "opening" /\ state' = "opening" /\ opens' = opens
        /\ offsets' = Append(offsets, pos) /\ pos < Len(file)
        /\ pos' = pos + HeaderSize + Length(file, pos)
    BY <1>7, Zenon DEF ReindexRecord
  <2>2. /\ Len(offsets') = Len(offsets) + 1
        /\ offsets'[Len(offsets) + 1] = pos
        /\ \A i \in 1 .. Len(offsets) : offsets'[i] = offsets[i]
    BY <2>1, Lens
  <2>3. Match(offsets', marks')
    <3> SUFFICES ASSUME NEW i \in 1 .. Len(offsets'), i < Len(marks)
                 PROVE  offsets'[i] = marks[i]
      BY <1>1, Zenon DEF Match
    <3>1. CASE i \in 1 .. Len(offsets)
      BY <2>2, <3>1, Zenon DEF LogInv, Match
    <3>2. CASE i \notin 1 .. Len(offsets)
      <4>1. i = Len(offsets) + 1
        <5>1. Len(offsets) \in Nat
          BY Lens, Zenon
        <5>2. i \in 1 .. Len(offsets) + 1
          BY <2>2, Zenon
        <5> QED
          BY ONLY <3>2, <5>1, <5>2
      <4>2. Len(offsets) < Len(marks)
        BY <4>1, Lens
      <4> QED
        BY <2>1, <2>2, <4>1, <4>2, Zenon DEF LogInv, Scan
    <3> QED
      BY <3>1, <3>2, Zenon
  <2>4. ASSUME Len(offsets) + 1 < Len(marks)
        PROVE  pos' = marks[Len(offsets) + 2]
    <3>1. Len(offsets) + 1 \in 1 .. Len(marks) - 1 /\ Len(offsets) < Len(marks)
      BY <2>4, Lens
    <3>2. pos = marks[Len(offsets) + 1]
      BY <2>1, <3>1, Zenon DEF LogInv, Scan
    <3>3. marks[Len(offsets) + 1 + 1] = pos + HeaderSize + Length(file, pos)
      BY <1>4, <3>1, <3>2, ChainStep, Zenon
    <3>4. Len(offsets) + 1 + 1 = Len(offsets) + 2
      BY Lens
    <3> QED
      BY <2>1, <3>3, <3>4, Zenon
  <2>5. ASSUME damaged = {}
        PROVE  Len(offsets) + 1 < Len(marks)
    <3>1. Len(offsets) < Len(marks) /\ pos = marks[Len(offsets) + 1]
      BY <2>1, <2>5, Zenon DEF LogInv, Scan
    <3>2. Len(offsets) + 1 # Len(marks)
      BY <1>4, <1>5, <2>1, <2>5, <3>1, Lens
    <3> QED
      BY <3>1, <3>2, Lens
  <2>6. Scan'
    <3>1. Len(offsets') + 1 = Len(offsets) + 2
      BY <2>2, Lens
    <3> QED
      BY <1>1, <2>1, <2>2, <2>4, <2>5, <3>1, Zenon DEF Scan
  <2>7. \A a \in acked' : Found(a, state', opens', offsets')
    BY <1>1, <2>1, Zenon DEF LogInv, Found
  <2> QED
    BY <1>2, <1>3, <2>3, <2>6, <2>7, Zenon DEF LogInv
<1>8. CASE ReindexFails
  <2>1. state' = "refused" /\ offsets' = <<>> /\ opens' = opens
    BY <1>8, Zenon DEF ReindexFails
  <2>2. Match(offsets', marks') /\ Scan'
    BY <2>1, EmptyIndex, Zenon DEF Scan
  <2>3. \A a \in acked' : Found(a, state', opens', offsets')
    BY <1>1, <2>1, Zenon DEF LogInv, Found
  <2> QED
    BY <1>2, <1>3, <2>2, <2>3, Zenon DEF LogInv
<1>9. CASE ReindexDone
  <2>1. /\ state = "opening" /\ state' = "up" /\ offsets' = offsets /\ opens' = opens
        /\ pos >= Len(file)
    BY <1>9, Zenon DEF ReindexDone
  <2>2. Match(offsets', marks')
    BY <1>1, <2>1, Zenon DEF LogInv
  <2>3. Len(marks) <= Len(offsets) + 1
    <3> SUFFICES ASSUME Len(offsets) + 1 < Len(marks) PROVE FALSE
      BY Lens
    <3>1. Len(offsets) + 1 \in 1 .. Len(marks) - 1 /\ Len(offsets) < Len(marks)
      BY Lens
    <3>2. pos = marks[Len(offsets) + 1]
      BY <2>1, <3>1, Zenon DEF LogInv, Scan
    <3> DEFINE q == marks[Len(offsets) + 1 + 1]
    <3>3. q \in Nat /\ pos + HeaderSize <= q /\ q <= Last(marks)
      BY <1>4, <3>1, <3>2, ChainStep, Zenon
    <3>4. Last(marks) <= synced /\ Last(marks) \in Nat
      BY <1>4, <1>5, LogTypes, SMTT(30)
    <3> HIDE DEF q
    <3> QED
      BY <2>1, <3>3, <3>4, Lens DEF HeaderSize
  <2>4. damaged = {} => Len(marks) = Len(offsets) + 1
    BY <2>1, <2>3, Lens DEF LogInv, Scan
  <2>5. Scan'
    BY <1>1, <2>1, <2>3, <2>4, Zenon DEF Scan
  <2>6. \A a \in acked' : Found(a, state', opens', offsets')
    <3>1. ASSUME NEW a \in acked PROVE a.opens \in Nat /\ a.opens <= opens /\ a.opens < opens
      BY <2>1, LogTypes, Zenon DEF LogInv, Found
    <3> QED
      BY <1>1, <2>1, <3>1, Lens DEF Found
  <2> QED
    BY <1>2, <1>3, <2>2, <2>5, <2>6, Zenon DEF LogInv
<1> QED
  BY <1>6, <1>7, <1>8, <1>9, Zenon

\* Compact writes a record behind the others: header and data as they were.
LEMMA CopiesRecord ==
  ASSUME TypeInv, CompactCopy
  PROVE  /\ old + 1 \in 1 .. Len(offsets)
         /\ Complete(file, offsets[old + 1])
         /\ tmp' \in Seq(Digits) /\ Length(file, offsets[old + 1]) \in Nat
         /\ Len(tmp') = Len(tmp) + (HeaderSize + Length(file, offsets[old + 1]))
         /\ Agree(tmp, tmp', Len(tmp))
         /\ Length(tmp', Len(tmp)) = Length(file, offsets[old + 1])
         /\ \A i \in 1 .. HeaderSize + Length(file, offsets[old + 1]) :
              tmp'[Len(tmp) + i] = file[offsets[old + 1] + i]
<1> DEFINE p == offsets[old + 1]
           x == Bytes(file, p)
<1>1. old + 1 \in 1 .. Len(offsets)
  BY Lens DEF CompactCopy, Copy, TypeInv, TypeOK
<1>2. p \in Nat /\ Complete(file, p)
  <2>1. p \in Nat
    BY <1>1, LogTypes, SeqFacts, Zenon
  <2> QED
    BY <2>1, Zenon DEF CompactCopy, Copy
<1>3. tmp' = tmp \o x
  BY Zenon DEF CompactCopy, Copy
<1> HIDE DEF p
<1>4. /\ Length(file, p) \in Nat
      /\ x \in Seq(Digits) /\ Len(x) = HeaderSize + Length(file, p)
      /\ \A i \in 1 .. HeaderSize + Length(file, p) : x[i] = file[p + i]
  BY <1>2, LogTypes, BytesType, Zenon
<1> HIDE DEF x
<1>5. /\ tmp' \in Seq(Digits) /\ Len(tmp') = Len(tmp) + Len(x)
      /\ Agree(tmp, tmp', Len(tmp))
      /\ \A i \in 1 .. Len(x) : tmp'[Len(tmp) + i] = x[i]
  <2>1. Len(tmp) \in 0 .. Len(tmp)
    BY Lens
  <2> QED
    BY <1>3, <1>4, <2>1, LogTypes, AgreeLonger, SMTT(30)
<1>6. \A i \in 1 .. HeaderSize + Length(file, p) : tmp'[Len(tmp) + i] = file[p + i]
  BY <1>4, <1>5, Zenon
<1>7. 1 \in 1 .. HeaderSize + Length(file, p) /\ 2 \in 1 .. HeaderSize + Length(file, p)
  BY <1>4 DEF HeaderSize
<1>8. Length(tmp', Len(tmp)) = Length(file, p)
  BY <1>6, <1>7, Zenon DEF Length
<1> QED
  BY <1>1, <1>2, <1>4, <1>5, <1>6, <1>8, Zenon DEF p

\* Compact and Close.
LEMMA LogClosing ==
  ASSUME TypeInv, LogInv,
         \/ Close \/ CompactSkip \/ CompactCopy \/ CompactFails \/ RenameFails
         \/ \E keep \in SUBSET (0 .. Len(offsets) - 1) : CompactBegin(keep)
  PROVE  LogInv'
<1>0. /\ pc \in {"idle", "compact"} /\ pc' \in {"idle", "compact"}
      /\ UNCHANGED <<file, synced, acked, damaged, marks, opens>>
  BY Zenon
     DEF Close, CompactSkip, CompactCopy, Copy, CompactFails, RenameFails, CompactBegin, history
<1>1. ~Appending /\ ~Appending'
  BY <1>0, Zenon DEF Appending
<1>2. /\ Pending'
      /\ Sound(file', marks', synced', damaged', End')
      /\ \A a \in acked' : OnDisk(a, file', synced')
      /\ \A a \in acked' : Placed(a, marks', damaged')
  BY <1>0, <1>1, QuietStep, Zenon
<1>3. \/ state' = state /\ offsets' = offsets /\ pos' = pos
      \/ state' = "down" /\ offsets' = <<>>
  BY Zenon
     DEF Close, CompactSkip, CompactCopy, Copy, CompactFails, RenameFails, CompactBegin
<1>4. Match(offsets', marks') /\ Scan' /\ \A a \in acked' : Found(a, state', opens', offsets')
  <2>1. CASE state' = state /\ offsets' = offsets /\ pos' = pos
    BY <1>0, <2>1, Zenon DEF LogInv, Scan
  <2>2. CASE state' = "down" /\ offsets' = <<>>
    <3>1. Match(offsets', marks') /\ Scan'
      BY <2>2, EmptyIndex, Zenon DEF Scan
    <3>2. \A a \in acked' : Found(a, state', opens', offsets')
      BY <1>0, <2>2, Zenon DEF LogInv, Found
    <3> QED
      BY <3>1, <3>2, Zenon
  <2> QED
    BY <1>3, <2>1, <2>2, Zenon
<1>5. CASE tmp' = tmp /\ newOffsets' = newOffsets
  <2>1. Chain(tmp', Append(newOffsets', Len(tmp')))
    BY <1>5, Zenon DEF LogInv
  <2> QED
    BY <1>2, <1>4, <2>1, Zenon DEF LogInv
<1>6. CASE tmp' = <<>> /\ newOffsets' = <<>>
  <2>1. <<>> \in Seq(Digits)
    OBVIOUS
  <2>2. Chain(tmp', Append(newOffsets', Len(tmp')))
    BY <1>6, <2>1, EmptyChain, Zenon
  <2> QED
    BY <1>2, <1>4, <2>2, Zenon DEF LogInv
<1>7. CASE CompactCopy
  <2> DEFINE p == offsets[old + 1]
             s == Append(newOffsets, Len(tmp))
  <2>2. newOffsets' = s
    BY <1>7, Zenon DEF CompactCopy, Copy
  <2>3. Chain(tmp, s) /\ s \in Seq(Nat) /\ Last(s) = Len(tmp)
    BY LogTypes DEF LogInv, Last
  <2> HIDE DEF p, s
  <2>4. /\ tmp' \in Seq(Digits) /\ Length(file, p) \in Nat
        /\ Len(tmp') = Len(tmp) + (HeaderSize + Length(file, p))
        /\ Agree(tmp, tmp', Len(tmp))
        /\ Length(tmp', Len(tmp)) = Length(file, p)
    BY <1>7, CopiesRecord, Zenon DEF p
  <2>7. /\ Last(s) + HeaderSize + Length(tmp', Last(s)) = Len(tmp')
        /\ Last(s) + HeaderSize <= Len(tmp')
    <3> DEFINE n == Len(tmp)
               l == Length(file, p)
    <3>1. n \in Nat /\ l \in Nat /\ Len(tmp') = n + (HeaderSize + l)
      BY <2>4, Lens, Zenon
    <3> HIDE DEF n, l
    <3>2. n + HeaderSize + l = Len(tmp') /\ n + HeaderSize <= Len(tmp')
      BY <3>1, SMTT(30) DEF HeaderSize
    <3> QED
      BY <2>3, <2>4, <3>2, Zenon DEF n, l
  <2>8. Chain(tmp', Append(s, Len(tmp')))
    BY <2>3, <2>4, <2>7, LogTypes, ChainGrows, Zenon
  <2>9. Chain(tmp', Append(newOffsets', Len(tmp')))
    BY <2>2, <2>8, Zenon
  <2> QED
    BY <1>2, <1>4, <2>9, Zenon DEF LogInv
<1>8. \/ tmp' = tmp /\ newOffsets' = newOffsets
      \/ tmp' = <<>> /\ newOffsets' = <<>>
      \/ CompactCopy
  BY Zenon
     DEF Close, CompactSkip, CompactFails, RenameFails, CompactBegin, Discard, compaction
<1> QED
  BY <1>5, <1>6, <1>7, <1>8, Zenon

\* The new file takes the place of the old.
LEMMA LogRename ==
  ASSUME TypeInv, LogInv, CompactRename
  PROVE  LogInv'
<1>1. /\ file' = tmp /\ synced' = Len(tmp) /\ acked' = {} /\ damaged' = {}
      /\ marks' = Append(newOffsets, Len(tmp)) /\ pc' = "idle"
      /\ tmp' = <<>> /\ newOffsets' = <<>>
      /\ \/ state' = "up" /\ offsets' = newOffsets
         \/ state' = "down" /\ offsets' = <<>>
  BY Zenon DEF CompactRename, Discard
<1>2. /\ Len(marks') = Len(newOffsets) + 1 /\ Last(marks') = Len(tmp)
      /\ \A i \in 1 .. Len(newOffsets) : marks'[i] = newOffsets[i]
  BY <1>1, Lens DEF Last
<1>3. Pending' /\ End' = Len(tmp)
  BY <1>1, Zenon DEF Pending, End, Appending
<1>4. Sound(file', marks', synced', damaged', End')
  <2>1. Chain(file', marks')
    BY <1>1, Zenon DEF LogInv
  <2> QED
    BY <1>1, <1>2, <1>3, <2>1, Lens DEF Sound
<1>5. Match(offsets', marks') /\ Scan'
  <2>1. CASE state' = "up" /\ offsets' = newOffsets
    BY <1>1, <1>2, <2>1, Lens DEF Match, Scan
  <2>2. CASE state' = "down" /\ offsets' = <<>>
    BY <2>2 DEF Match, Scan
  <2> QED
    BY <1>1, <2>1, <2>2, Zenon
<1>6. <<>> \in Seq(Digits)
  OBVIOUS
<1>7. Chain(tmp', Append(newOffsets', Len(tmp')))
  BY <1>1, <1>6, EmptyChain, Zenon
<1> QED
  BY <1>1, <1>3, <1>4, <1>5, <1>7, Zenon DEF LogInv

\* Whatever an Append does to the file is behind its end.
LEMMA GrowsOnly ==
  ASSUME TypeInv,
         \/ AppendRecord \/ RecordFails \/ SyncFails
         \/ \E m \in Msgs : AppendHeader(m) \/ HeaderFails(m)
  PROVE  Agree(file, file', Len(file))
<1>0. Len(file) \in 0 .. Len(file) /\ file \in Seq(Digits)
  BY LogTypes
<1>1. ASSUME NEW m \in Msgs, AppendHeader(m) \/ HeaderFails(m)
      PROVE  \E x \in Seq(Digits) : file' = file \o x
  <2>1. Header(m) \in Seq(Digits) /\ SubSeq(Header(m), 1, 1) \in Seq(Digits)
    BY HeaderLayout
  <2> QED
    BY <1>1, <2>1, Zenon DEF AppendHeader, HeaderFails
<1>2. ASSUME AppendRecord
      PROVE  \E x \in Seq(Digits) : file' = file \o x
  <2>1. Record(msg) \in Seq(Digits)
    BY RecordLayout, LogTypes, Zenon
  <2> QED
    BY <1>2, <2>1, Zenon DEF AppendRecord
<1>3. ASSUME RecordFails
      PROVE  \E x \in Seq(Digits) : file' = file \o x
  <2>1. PICK k \in 0 .. Len(Record(msg)) - 1 : file' = file \o SubSeq(Record(msg), 1, k)
    BY <1>3, Zenon DEF RecordFails
  <2>2. Record(msg) \in Seq(Digits) /\ k \in 0 .. Len(Record(msg))
    BY RecordLayout, SizeType, LogTypes
  <2>3. SubSeq(Record(msg), 1, k) \in Seq(Digits)
    BY <2>2, AgreeCut, Zenon
  <2> QED
    BY <2>1, <2>3, Zenon
<1>4. ASSUME NEW x \in Seq(Digits), file' = file \o x
      PROVE  Agree(file, file', Len(file))
  BY <1>0, <1>4, AgreeLonger, Zenon
<1>5. CASE SyncFails
  BY <1>0, <1>5 DEF SyncFails, Agree
<1> QED
  BY <1>1, <1>2, <1>3, <1>4, <1>5, Zenon

\* A file that has grown keeps all that was said of it, as long as the end of its
\* sound part stays where it is.
LEMMA GrowingStep ==
  ASSUME TypeInv, TypeInv', LogInv, Agree(file, file', Len(file)),
         UNCHANGED <<synced, acked, marks, state, offsets, pos, opens, tmp, newOffsets>>
  PROVE  /\ Chain(file', marks') /\ Last(marks') <= synced'
         /\ Match(offsets', marks')
         /\ \A a \in acked' : OnDisk(a, file', synced')
         /\ \A a \in acked' : Found(a, state', opens', offsets')
         /\ Chain(tmp', Append(newOffsets', Len(tmp')))
<1>1. /\ file \in Seq(Digits) /\ file' \in Seq(Digits) /\ synced \in Nat /\ marks \in Seq(Nat)
      /\ acked \subseteq [msg : Msgs, offset : Nat, pos : Nat, opens : Nat]
  BY Lens DEF TypeInv, TypeOK, Digits
<1>2. Agree(file, file', synced)
  BY <1>1, Lens, AgreeSelf, AgreeLess, Zenon
<1>3. Chain(file', marks) /\ Last(marks) <= synced
  BY <1>1, <1>2, ChainStays, Zenon DEF LogInv
<1>4. ASSUME NEW a \in acked PROVE OnDisk(a, file', synced)
  <2>1. OnDisk(a, file, synced) /\ a \in [msg : Msgs, offset : Nat, pos : Nat, opens : Nat]
    BY <1>1, Zenon DEF LogInv
  <2> QED
    BY <1>1, <1>2, <2>1, OnDiskStays
<1> QED
  BY <1>3, <1>4, ZenonT(40) DEF LogInv

\* An Append that goes on: the header, then the record.
LEMMA LogAppend ==
  ASSUME TypeInv, TypeInv', LogInv,
         AppendRecord \/ \E m \in Msgs : AppendHeader(m)
  PROVE  LogInv'
<1>0. /\ UNCHANGED <<synced, acked, damaged, marks, state, offsets, pos, opens, tmp, newOffsets>>
      /\ pos' = pos
  BY Zenon DEF AppendHeader, AppendRecord, compaction, history
<1>1. Agree(file, file', Len(file)) /\ End' = End /\ Pending'
  <2>1. ASSUME NEW m \in Msgs, AppendHeader(m)
        PROVE  Agree(file, file', Len(file)) /\ End' = End /\ Pending'
    <3>1. /\ file' = file \o Header(m) /\ pc = "idle" /\ pc' = "record" /\ msg' = m
      BY <2>1, Zenon DEF AppendHeader, BeginAppend
    <3>2. /\ Header(m) \in Seq(Digits) /\ Len(Header(m)) = 2
          /\ Header(m)[1] * Base + Header(m)[2] = Len(Body[m]) + 2
          /\ Len(Record(m)) = Len(Body[m]) + 2
      BY HeaderLayout, RecordLayout, Zenon
    <3>3. /\ Len(file') = Len(file) + 2
          /\ Agree(file, file', Len(file))
          /\ file'[Len(file) + 1] = Header(m)[1] /\ file'[Len(file) + 2] = Header(m)[2]
      <4>1. 1 \in 1 .. Len(Header(m)) /\ 2 \in 1 .. Len(Header(m)) /\ Len(file) \in 0 .. Len(file)
        BY <3>2, Lens
      <4>2. /\ Len(file') = Len(file) + Len(Header(m))
            /\ Agree(file, file', Len(file))
            /\ file'[Len(file) + 1] = Header(m)[1] /\ file'[Len(file) + 2] = Header(m)[2]
        BY <3>1, <3>2, <4>1, LogTypes, AgreeLonger, ZenonT(40)
      <4> QED
        BY <3>2, <4>2, Zenon
    <3>4. Len(file') - HeaderSize = Len(file)
      BY <3>3, Lens DEF HeaderSize
    <3>5. End' = End
      BY <3>1, <3>4, Zenon DEF End, Appending, Start
    <3>6. HeaderSize + Length(file', Len(file)) = Size(m)
      BY <3>2, <3>3, Zenon DEF Length, Size
    <3> QED
      BY <3>1, <3>3, <3>4, <3>5, <3>6, Zenon DEF Pending
  <2>2. ASSUME AppendRecord
        PROVE  Agree(file, file', Len(file)) /\ End' = End /\ Pending'
    <3>1. /\ file' = file \o Record(msg) /\ pc = "record" /\ pc' = "sync" /\ msg' = msg
      BY <2>2, Zenon DEF AppendRecord
    <3>2. Record(msg) \in Seq(Digits) /\ Len(Record(msg)) \in Nat
      BY LogTypes, RecordLayout, SizeType, Zenon
    <3>3. /\ Len(file') = Len(file) + Len(Record(msg))
          /\ Agree(file, file', Len(file))
          /\ \A i \in 1 .. Len(Record(msg)) : file'[Len(file) + i] = Record(msg)[i]
      <4>1. Len(file) \in 0 .. Len(file)
        BY Lens
      <4> QED
        BY <3>1, <3>2, <4>1, LogTypes, AgreeLonger, SMTT(30)
    <3>4. Start \in Nat /\ Start + HeaderSize = Len(file)
      BY <3>1, LogTypes, StartType DEF Appending, HeaderSize
    <3>5. Len(file') - Size(msg) = Start /\ Start + Size(msg) = Len(file') /\ Size(msg) \in Nat
      <4> DEFINE n == Len(file)
                 r == Len(Record(msg))
                 e == Len(file')
      <4>1. n \in Nat /\ r \in Nat /\ e = n + r /\ Start \in Nat /\ Start + 2 = n
        BY <3>2, <3>3, <3>4, Lens, Zenon DEF HeaderSize
      <4>2. Size(msg) = 2 + r
        BY Zenon DEF Size, HeaderSize
      <4> HIDE DEF n, r, e
      <4>3. e - Size(msg) = Start /\ Start + Size(msg) = e /\ Size(msg) \in Nat
        BY <4>1, <4>2
      <4> QED
        BY <4>3, Zenon DEF e
    <3>6. End' = End
      <4>1. Start' = Len(file') - Size(msg)
        BY <3>1, Zenon DEF Start, Size
      <4> QED
        BY <3>1, <3>5, <4>1, Zenon DEF End, Appending
    <3>7. HeaderSize + Length(file', Start) = Size(msg)
      <4>1. HeaderSize + Length(file, Start) = Size(msg)
        BY <3>1, StartType, Zenon DEF LogInv, Pending, Appending
      <4>2. Length(file', Start) = Length(file, Start)
        <5>1. file' \in Seq(Digits)
          BY Zenon DEF TypeInv, TypeOK, Digits
        <5>2. Start + HeaderSize <= Len(file)
          BY <3>4, Lens, SMTT(30)
        <5>3. file \in Seq(Digits) /\ Len(file) \in Nat /\ Agree(file, file', Len(file))
          BY <3>3, LogTypes, Zenon
        <5> QED
          BY ONLY <3>4, <5>1, <5>2, <5>3, AgreeLength, SMTT(30)
      <4> QED
        BY <4>1, <4>2, Zenon
    <3>8. Holds(file', Start, msg)
      <4>1. ASSUME NEW i \in 1 .. Len(Record(msg))
            PROVE  file'[Start + HeaderSize + i] = Record(msg)[i]
        BY <3>3, <3>4, Zenon
      <4>2. Start + Size(msg) <= Len(file')
        BY <3>3, <3>4, <3>5, Lens, SMTT(30)
      <4> QED
        BY <3>7, <4>1, <4>2, Zenon DEF Holds
    <3> QED
      BY <3>1, <3>3, <3>5, <3>6, <3>8, Zenon DEF Pending
  <2> QED
    BY <2>1, <2>2, Zenon
<1>2. /\ Chain(file', marks') /\ Last(marks') <= synced'
      /\ Match(offsets', marks')
      /\ \A a \in acked' : OnDisk(a, file', synced')
      /\ \A a \in acked' : Found(a, state', opens', offsets')
      /\ Chain(tmp', Append(newOffsets', Len(tmp')))
  BY <1>0, <1>1, GrowingStep, Zenon
<1>3. Sound(file', marks', synced', damaged', End')
  BY <1>0, <1>1, <1>2, Zenon DEF LogInv, Sound
<1>4. Scan' /\ \A a \in acked' : Placed(a, marks', damaged')
  BY <1>0, Zenon DEF LogInv, Scan
<1> QED
  BY <1>1, <1>2, <1>3, <1>4, Zenon DEF LogInv

\* An Append that fails leaves damage where its record starts.
LEMMA LogFails ==
  ASSUME TypeInv, TypeInv', LogInv,
         RecordFails \/ SyncFails \/ \E m \in Msgs : HeaderFails(m)
  PROVE  LogInv'
<1>0. /\ UNCHANGED <<synced, acked, marks, state, offsets, pos, opens, tmp, newOffsets>>
      /\ damaged' = damaged \cup {End} /\ pc' = "idle"
  <2>1. ASSUME NEW m \in Msgs, HeaderFails(m)
        PROVE  pc = "idle" /\ damaged' = damaged \cup {Len(file)}
    BY <2>1, Zenon DEF HeaderFails, BeginAppend
  <2>2. ASSUME RecordFails \/ SyncFails
        PROVE  Appending /\ damaged' = damaged \cup {Start}
    BY <2>2, Zenon DEF RecordFails, SyncFails, Appending
  <2>3. damaged' = damaged \cup {End}
    BY <2>1, <2>2, Zenon DEF End, Appending
  <2> QED
    BY <2>3, Zenon DEF HeaderFails, BeginAppend, RecordFails, SyncFails, compaction
<1>1. Agree(file, file', Len(file))
  BY GrowsOnly, Zenon
<1>2. /\ Chain(file', marks') /\ Last(marks') <= synced'
      /\ Match(offsets', marks')
      /\ \A a \in acked' : OnDisk(a, file', synced')
      /\ \A a \in acked' : Found(a, state', opens', offsets')
      /\ Chain(tmp', Append(newOffsets', Len(tmp')))
  BY <1>0, <1>1, GrowingStep, Zenon
<1>3. damaged' # {} /\ Last(marks') \in damaged'
  BY <1>0, Zenon DEF LogInv, Sound
<1>4. Sound(file', marks', synced', damaged', End')
  <2>1. synced' <= End'
    BY <1>0 DEF TypeInv, TypeOK, End, Appending
  <2> QED
    BY <1>2, <1>3, <2>1, ZenonT(40) DEF Sound
<1>5. Pending'
  BY <1>0, Zenon DEF Pending
<1>6. Scan'
  BY <1>0, <1>3, Zenon DEF LogInv, Scan
<1>7. ASSUME NEW a \in acked' PROVE Placed(a, marks', damaged')
  <2>1. Placed(a, marks, damaged) /\ a \in [msg : Msgs, offset : Nat, pos : Nat, opens : Nat]
    BY <1>0, LogTypes, Zenon DEF LogInv
  <2>2. Placed(a, marks, damaged \cup {End})
    BY <2>1, LogTypes, PlacedStays, Zenon
  <2> QED
    BY <1>0, <2>2, Zenon
<1> QED
  BY <1>2, <1>4, <1>5, <1>6, <1>7, Zenon DEF LogInv

\* The sync: the append is acknowledged, and its record is sound if all before is.
LEMMA LogSync ==
  ASSUME TypeInv, TypeInv', LogInv, AppendSync
  PROVE  LogInv'
<1> DEFINE new == [msg |-> msg, offset |-> Len(offsets), pos |-> Start, opens |-> opens]
<1>0. /\ UNCHANGED <<file, damaged, state, opens, tmp, newOffsets>>
      /\ pc = "sync" /\ pc' = "idle" /\ synced' = Len(file)
      /\ offsets' = Append(offsets, Start)
      /\ acked' = acked \cup {new}
      /\ marks' = IF damaged = {} THEN Append(marks, Len(file)) ELSE marks
  BY Zenon DEF AppendSync, Answer, compaction
<1>1. state = "up" /\ Appending /\ End' = Len(file) /\ End = Start /\ Pending'
  BY <1>0, ZenonT(40) DEF TypeInv, Memory, End, Appending, Pending
<1>2. /\ Start \in Nat /\ Size(msg) \in Nat /\ Start + Size(msg) = Len(file)
      /\ Holds(file, Start, msg)
  <2>1. Start \in Nat /\ Start = Len(file) - Size(msg) /\ Size(msg) \in Nat /\ Len(file) \in Nat
    BY <1>0, <1>1, LogTypes, StartType, SizeType, Zenon
  <2> QED
    BY <1>0, <2>1 DEF LogInv, Pending
<1>3. /\ Chain(file, marks) /\ Last(marks) <= synced /\ Last(marks) \in Nat
      /\ Agree(file, file, Last(marks)) /\ Agree(file, file, synced)
  <2>1. Agree(file, file, synced)
    BY Lens, Zenon DEF Agree
  <2> QED
    BY <2>1, LogTypes, ChainStays, Zenon DEF LogInv
<1>4. /\ Len(offsets') = Len(offsets) + 1 /\ offsets'[Len(offsets) + 1] = Start
      /\ \A i \in 1 .. Len(offsets) : offsets'[i] = offsets[i]
  BY <1>0, <1>2, LogTypes, Longer, ZenonT(40)
<1>5. Sound(file', marks', synced', damaged', End') /\ Match(offsets', marks') /\ Scan'
      /\ Placed(new, marks', damaged')
  <2>1. CASE damaged = {}
    <3>1. Last(marks) = Start /\ marks' = Append(marks, Len(file)) /\ Len(marks) = Len(offsets) + 1
      BY <1>0, <1>1, <2>1, Zenon DEF LogInv, Sound, Scan
    <3>2. /\ Len(marks') = Len(marks) + 1 /\ Last(marks') = Len(file)
          /\ \A i \in 1 .. Len(marks) : marks'[i] = marks[i]
      BY <3>1, Lens, SMTT(30) DEF Last
    <3>3. Chain(file, marks')
      <4>1. /\ Last(marks) + HeaderSize + Length(file, Last(marks)) = Len(file)
            /\ Last(marks) + HeaderSize <= Len(file)
        <5>1. HeaderSize + Length(file, Start) = Size(msg) /\ Start + HeaderSize <= Len(file)
          BY <1>1, <1>2, StartType, Zenon DEF Holds
        <5>2. Length(file, Start) \in Nat
          <6>1. Agree(file, file, Len(file))
            BY Lens DEF Agree
          <6> QED
            BY <1>2, <5>1, <6>1, LogTypes, AgreeLength, Zenon
        <5>3. Start + HeaderSize + Length(file, Start) = Start + Size(msg)
          BY <1>2, <5>1, <5>2 DEF HeaderSize
        <5> QED
          BY <1>2, <3>1, <5>1, <5>3, Zenon
      <4> QED
        BY <1>3, <3>1, <4>1, LogTypes, ChainGrows, Zenon
    <3>4. Sound(file', marks', synced', damaged', End')
      <4>1. Len(file) <= Len(file)
        BY Lens
      <4> QED
        BY <1>0, <1>1, <2>1, <3>2, <3>3, <4>1, Zenon DEF Sound
    <3>5. marks[Len(offsets) + 1] = Start /\ Len(marks) \in Nat \ {0}
      BY <1>3, <3>1, Lens DEF Last, Chain
    <3>6. Match(offsets', marks')
      <4> SUFFICES ASSUME NEW i \in 1 .. Len(offsets) + 1
                   PROVE  offsets'[i] = marks'[i]
        BY <1>4, Zenon DEF Match
      <4>1. marks'[i] = marks[i]
        BY <3>1, <3>2, Zenon
      <4>2. CASE i = Len(offsets) + 1
        BY <1>4, <3>5, <4>1, <4>2, Zenon
      <4>3. CASE i # Len(offsets) + 1
        <5>1. i \in 1 .. Len(offsets) /\ i < Len(marks)
          <6>1. Len(offsets) \in Nat /\ Len(marks) = Len(offsets) + 1
            BY <3>1, Lens, Zenon
          <6> QED
            BY <4>3, <6>1
        <5> QED
          BY <1>4, <4>1, <5>1, Zenon DEF LogInv, Match
      <4> QED
        BY <4>2, <4>3, Zenon
    <3>7. Scan'
      <4>1. Len(marks') = Len(offsets') + 1 /\ Len(marks') \in Nat
        BY <1>4, <3>1, <3>2, Lens
      <4>2. Len(marks') <= Len(offsets') + 1
        BY <4>1
      <4> QED
        BY <1>0, <1>1, <4>1, <4>2, Zenon DEF Scan
    <3>8. Placed(new, marks', damaged')
      <4>1. Len(offsets) + 1 < Len(marks') /\ marks'[Len(offsets) + 1] = Start
        BY <3>1, <3>2, <3>5, Lens, SMTT(30)
      <4> QED
        BY <4>1, Zenon DEF Placed
    <3> QED
      BY <3>4, <3>6, <3>7, <3>8, Zenon
  <2>2. CASE damaged # {}
    <3>1. marks' = marks /\ Last(marks) \in damaged
      BY <1>0, <2>2, Zenon DEF LogInv, Sound
    <3>2. Sound(file', marks', synced', damaged', End')
      <4>1. Last(marks) <= Len(file) /\ Len(file) <= Len(file)
        BY <1>3, Lens
      <4> QED
        BY <1>0, <1>1, <1>3, <2>2, <3>1, <4>1, Zenon DEF Sound
    <3>3. Len(marks) <= Len(offsets) + 1
      BY <1>1, Zenon DEF LogInv, Scan
    <3>4. Match(offsets', marks')
      <4> SUFFICES ASSUME NEW i \in 1 .. Len(offsets'), i < Len(marks)
                   PROVE  offsets'[i] = marks[i]
        BY <3>1, Zenon DEF Match
      <4>1. i \in 1 .. Len(offsets)
        <5>1. Len(offsets) \in Nat /\ Len(marks) \in Nat /\ i \in 1 .. Len(offsets) + 1
          BY <1>4, Lens, Zenon
        <5> QED
          BY ONLY <3>3, <5>1, i < Len(marks)
      <4> QED
        BY <1>4, <4>1, Zenon DEF LogInv, Match
    <3>5. Scan'
      <4>1. Len(marks) <= Len(offsets') + 1
        BY <1>4, <3>3, Lens, SMTT(30)
      <4> QED
        BY <1>0, <1>1, <2>2, <3>1, <4>1, Zenon DEF Scan
    <3>6. Placed(new, marks', damaged')
      \* the first damage is on the disk, and so before the record
      <4>1. Last(marks) <= Start
        <5>1. synced <= Start
          BY <1>1, Zenon DEF LogInv, Sound
        <5> QED
          BY <1>2, <1>3, <5>1, Lens, SMTT(30)
      <4>2. ~(Start < Last(marks))
        BY <1>2, <1>3, <4>1
      <4> QED
        BY <1>0, <3>1, <4>2, Zenon DEF Placed
    <3> QED
      BY <3>2, <3>4, <3>5, <3>6, Zenon
  <2> QED
    BY <2>1, <2>2, Zenon
<1>6. ASSUME NEW a \in acked
      PROVE  OnDisk(a, file', synced') /\ Placed(a, marks', damaged') /\ Found(a, state', opens', offsets')
  <2>1. /\ OnDisk(a, file, synced) /\ Placed(a, marks, damaged) /\ Found(a, state, opens, offsets)
        /\ a \in [msg : Msgs, offset : Nat, pos : Nat, opens : Nat]
    BY LogTypes, Zenon DEF LogInv
  <2>2. OnDisk(a, file', synced')
    BY <1>0, <1>3, <2>1, LogTypes, OnDiskStays, Zenon
  <2>3. Placed(a, marks', damaged')
    BY <1>0, <2>1, LogTypes, PlacedStays, Zenon
  <2>4. Found(a, state', opens', offsets')
    <3>1. ASSUME a.offset < Len(offsets)
          PROVE  a.offset < Len(offsets') /\ offsets'[a.offset + 1] = offsets[a.offset + 1]
      <4>1. a.offset \in Nat
        BY <2>1, Zenon
      <4> QED
        <5>1. Len(offsets) \in Nat
          BY Lens, Zenon
        <5>2. a.offset + 1 \in 1 .. Len(offsets)
          BY <3>1, <4>1, <5>1
        <5>3. a.offset < Len(offsets')
          BY <1>4, <3>1, <4>1, <5>1
        <5> QED
          BY <1>4, <5>2, <5>3, Zenon
    <3> QED
      BY <1>0, <2>1, <3>1, Zenon DEF Found
  <2> QED
    BY <2>2, <2>3, <2>4, Zenon
<1>7. OnDisk(new, file', synced') /\ Found(new, state', opens', offsets')
  <2>1. new.msg = msg /\ new.pos = Start /\ new.offset = Len(offsets) /\ new.opens = opens
    BY Zenon
  <2>2. /\ Start + Size(msg) <= Len(file) /\ Len(offsets) < Len(offsets') /\ opens <= opens
        /\ ~(state' = "opening")
    BY <1>0, <1>1, <1>2, <1>4, Lens, SMTT(30)
  <2> HIDE DEF new
  <2> QED
    BY <1>0, <1>2, <1>4, <2>1, <2>2, Zenon DEF OnDisk, Found
<1>8. Chain(tmp', Append(newOffsets', Len(tmp')))
  BY <1>0, Zenon DEF LogInv
<1> HIDE DEF new
<1> QED
  BY <1>0, <1>1, <1>5, <1>6, <1>7, <1>8, Zenon DEF LogInv

\* A stop: the process loses its index, the disk what was not synced.
LEMMA LogStop ==
  ASSUME TypeInv, TypeInv', LogInv, Crash \/ Kill
  PROVE  LogInv'
<1>0. /\ state' = "down" /\ offsets' = <<>> /\ pc' = "idle" /\ tmp' = <<>> /\ newOffsets' = <<>>
      /\ opens' = opens /\ acked' = acked
  BY Zenon DEF Crash, Kill, Stop, Discard
<1>1. End' = Len(file') /\ Pending' /\ Scan' /\ Match(offsets', marks')
  BY <1>0 DEF End, Appending, Pending, Scan, Match
<1>2. \A a \in acked' : Found(a, state', opens', offsets')
  BY <1>0, Zenon DEF LogInv, Found
<1>3. Chain(tmp', Append(newOffsets', Len(tmp')))
  <2>1. <<>> \in Seq(Digits)
    OBVIOUS
  <2> QED
    BY <1>0, <2>1, EmptyChain, Zenon
<1>4. /\ file \in Seq(Digits) /\ file' \in Seq(Digits) /\ synced \in Nat /\ synced' \in Nat
      /\ Len(file') \in Nat /\ marks \in Seq(Nat) /\ synced' <= Len(file')
      /\ acked \subseteq [msg : Msgs, offset : Nat, pos : Nat, opens : Nat]
  <2>1. file' \in Seq(Digits) /\ synced' \in 0 .. Len(file')
    BY Zenon DEF TypeInv, TypeOK, Digits
  <2>2. Len(file') \in Nat /\ synced' \in Nat /\ synced' <= Len(file')
    BY <2>1
  <2> QED
    BY <2>1, <2>2, LogTypes, Zenon
<1>5. Agree(file, file', synced) /\ synced <= synced'
  <2>1. ASSUME Kill PROVE file' = file /\ synced' = synced
    BY <2>1, Zenon DEF Kill
  <2>2. ASSUME Crash PROVE Agree(file, file', synced) /\ synced <= synced'
    <3>1. PICK k \in synced .. Len(file) : file' = SubSeq(file, 1, k) /\ synced' = k
      BY <2>2, Zenon DEF Crash
    <3>2. k \in 0 .. Len(file) /\ synced \in 0 .. k
      BY Lens, SMTT(30)
    <3> QED
      BY <1>4, <3>1, <3>2, AgreeCut, SMTT(30)
  <2> QED
    BY <1>4, <2>1, <2>2, Lens DEF Agree
<1>6. /\ Chain(file', marks) /\ Last(marks) \in Nat /\ Last(marks) <= synced
      /\ Chain(file, marks) /\ Agree(file, file', Last(marks))
  BY <1>4, <1>5, ChainStays, Zenon DEF LogInv
<1>7. ASSUME NEW a \in acked' PROVE OnDisk(a, file', synced')
  <2>1. OnDisk(a, file, synced) /\ a \in [msg : Msgs, offset : Nat, pos : Nat, opens : Nat]
    BY <1>0, <1>4, Zenon DEF LogInv
  <2> QED
    BY <1>4, <1>5, <2>1, OnDiskStays, Zenon
<1>8. CASE damaged' = damaged /\ marks' = marks /\ (damaged = {} => Last(marks) = Len(file') /\ synced' = Last(marks))
  <2>1. Sound(file', marks', synced', damaged', End')
    BY <1>1, <1>4, <1>5, <1>6, <1>8, SMTT(30) DEF LogInv, Sound
  <2>2. \A a \in acked' : Placed(a, marks', damaged')
    BY <1>0, <1>8, Zenon DEF LogInv
  <2> QED
    BY <1>1, <1>2, <1>3, <1>7, <2>1, <2>2, ZenonT(40) DEF LogInv
<1>9. CASE damaged' = damaged \cup {End} /\ marks' = marks
  <2>1. damaged' # {} /\ Last(marks') \in damaged'
    BY <1>9, Zenon DEF LogInv, Sound
  <2>2. Last(marks) <= synced'
    BY <1>4, <1>5, <1>6, SMTT(30)
  <2>3. Sound(file', marks', synced', damaged', End')
    BY <1>1, <1>4, <1>6, <1>9, <2>1, <2>2, Zenon DEF Sound
  <2>4. \A a \in acked' : Placed(a, marks', damaged')
    BY <1>0, <1>4, <1>9, PlacedStays, ZenonT(40) DEF LogInv
  <2> QED
    BY <1>1, <1>2, <1>3, <1>7, <2>3, <2>4, Zenon DEF LogInv
<1>10. CASE /\ damaged = {} /\ damaged' = {} /\ marks' = Append(marks, Len(file'))
            /\ synced' = Len(file')
            /\ Last(marks) + HeaderSize + Length(file', Last(marks)) = Len(file')
            /\ Last(marks) + HeaderSize <= Len(file')
  <2>1. Chain(file', marks')
    BY <1>4, <1>6, <1>10, ChainGrows, Zenon
  <2>2. Last(marks') = Len(file')
    BY <1>4, <1>10, SMTT(30) DEF Last
  <2>3. Sound(file', marks', synced', damaged', End')
    BY <1>1, <1>4, <1>10, <2>1, <2>2, Zenon DEF Sound
  <2>4. \A a \in acked' : Placed(a, marks', damaged')
    <3>1. ASSUME NEW a \in acked PROVE Placed(a, Append(marks, Len(file')), damaged)
      <4>1. Placed(a, marks, damaged) /\ a \in [msg : Msgs, offset : Nat, pos : Nat, opens : Nat]
        BY <1>4, Zenon DEF LogInv
      <4> QED
        BY <1>4, <4>1, PlacedStays, Zenon
    <3> QED
      BY <1>0, <1>10, <3>1, Zenon
  <2> QED
    BY <1>1, <1>2, <1>3, <1>7, <2>3, <2>4, Zenon DEF LogInv
<1>11. CASE Kill
  <2>1. file' = file /\ synced' = synced /\ marks' = marks
    BY <1>11, Zenon DEF Kill
  <2>2. CASE Appending
    BY <1>9, <1>11, <2>1, <2>2, Zenon DEF Kill, End
  <2>3. CASE ~Appending
    <3>1. damaged' = damaged /\ End = Len(file)
      BY <1>11, <2>3, Zenon DEF Kill, End
    <3> QED
      BY <1>8, <2>1, <3>1, Zenon DEF LogInv, Sound
  <2> QED
    BY <2>2, <2>3, Zenon
<1>12. CASE Crash
  <2> DEFINE end == Start + HeaderSize + Len(Record(msg))
  <2>1. PICK k \in synced .. Len(file) :
             /\ file' = SubSeq(file, 1, k)
             /\ synced' = k
             /\ damaged' = IF Appending /\ k > Start /\ k < end THEN damaged \cup {Start} ELSE damaged
             /\ marks' = IF Appending /\ k = end /\ damaged = {} THEN Append(marks, k) ELSE marks
    BY <1>12, Zenon DEF Crash
  <2>2. k \in Nat /\ k \in 0 .. Len(file) /\ synced <= k /\ k <= Len(file) /\ Len(file') = k
    <3>1. k \in Nat /\ k \in 0 .. Len(file) /\ synced <= k /\ k <= Len(file)
      BY Lens
    <3> QED
      BY <1>4, <2>1, <3>1, AgreeCut, Zenon
  <2>3. CASE ~Appending
    <3>1. damaged' = damaged /\ marks' = marks
      BY <2>1, <2>3, Zenon
    <3>2. damaged = {} => Last(marks) = Len(file') /\ synced' = Last(marks)
      <4>1. SUFFICES ASSUME damaged = {} PROVE Last(marks) = k
        BY <2>1, <2>2, Zenon
      <4>2. synced = Len(file) /\ Last(marks) = Len(file)
        BY <2>3, <4>1, Zenon DEF LogInv, Sound, End
      <4> QED
        BY <2>2, <4>2, Lens
    <3> QED
      BY <1>8, <3>1, <3>2, Zenon
  <2>4. CASE Appending
    <3>0. Start \in Nat /\ Size(msg) \in Nat /\ Size(msg) >= HeaderSize /\ end = Start + Size(msg)
      <4>1. Start \in Nat /\ Len(Record(msg)) \in Nat /\ Size(msg) \in Nat /\ Size(msg) >= HeaderSize
        BY <2>4, LogTypes, StartType, SizeType, Zenon
      <4> QED
        BY <4>1, SMTT(30) DEF Size, HeaderSize
    <3>1. CASE k > Start /\ k < end
      <4>1. damaged' = damaged \cup {End}
        BY <2>1, <2>4, <3>1, Zenon DEF End
      <4>2. marks' = marks
        BY <2>1, <2>2, <3>0, <3>1, SMTT(30)
      <4> QED
        BY <1>9, <4>1, <4>2, Zenon
    <3>2. CASE k = end /\ damaged = {}
      <4>1. damaged' = {} /\ marks' = Append(marks, Len(file')) /\ synced' = Len(file')
        BY <2>1, <2>2, <2>4, <3>2, SMTT(30)
      <4>2. Last(marks) = Start
        BY <2>4, <3>2, Zenon DEF LogInv, Sound, End
      <4>3. Start + HeaderSize <= k
        BY <2>2, <3>0, <3>2 DEF HeaderSize
      <4>4. HeaderSize + Length(file, Start) = Size(msg)
        BY <2>4, StartType, Zenon DEF Appending, LogInv, Pending, Holds
      <4>5. Length(file', Start) = Length(file, Start) /\ Length(file, Start) \in Nat
        <5>1. Agree(file, file', k)
          <6>1. k \in 0 .. k
            BY <2>2
          <6> QED
            BY <1>4, <2>1, <2>2, <6>1, AgreeCut, Zenon
        <5> QED
          BY <1>4, <2>2, <3>0, <4>3, <5>1, AgreeLength, Zenon
      <4>6. Start + HeaderSize + Length(file', Start) = Len(file')
        BY <2>2, <3>0, <3>2, <4>4, <4>5, SMTT(30) DEF HeaderSize
      <4> QED
        BY <1>10, <2>2, <3>2, <4>1, <4>2, <4>3, <4>6, ZenonT(40)
    <3>3. CASE ~(k > Start /\ k < end) /\ ~(k = end /\ damaged = {})
      <4>1. damaged' = damaged /\ marks' = marks
        BY <2>1, <3>3, Zenon
      <4>2. damaged = {} => Last(marks) = Len(file') /\ synced' = Last(marks)
        <5>1. SUFFICES ASSUME damaged = {} PROVE Last(marks) = k
          BY <2>1, <2>2, Zenon
        <5>2. synced = Start /\ Last(marks) = Start
          BY <2>4, <5>1, Zenon DEF LogInv, Sound, End
        <5>3. k <= end
          <6>1. Len(file) <= end
            <7>1. CASE pc = "record"
              BY <2>4, <3>0, <7>1, StartType, LogTypes, SMTT(30) DEF HeaderSize
            <7>2. CASE pc = "sync"
              BY <2>4, <3>0, <7>2, StartType, LogTypes, SMTT(30)
            <7> QED
              BY <2>4, <7>1, <7>2, Zenon DEF Appending
          <6> QED
            BY <2>2, <3>0, <6>1, Lens, SMTT(30)
        <5> QED
          BY <2>2, <3>0, <3>3, <5>1, <5>2, <5>3, SMTT(30)
      <4> QED
        BY <1>8, <4>1, <4>2, Zenon
    <3> QED
      BY <3>1, <3>2, <3>3, Zenon
  <2> QED
    BY <2>3, <2>4, Zenon
<1> QED
  BY <1>11, <1>12, Zenon

\* Every step keeps the invariant.
LEMMA LogNext ==
  TypeInv /\ TypeInv' /\ LogInv /\ [Next]_vars => LogInv'
<1> SUFFICES ASSUME TypeInv, TypeInv', LogInv, [Next]_vars PROVE LogInv'
  BY Zenon
<1>1. CASE UNCHANGED vars
  <2>1. /\ UNCHANGED <<file, synced, state, offsets, pos, pc, msg, opens>>
        /\ UNCHANGED <<tmp, newOffsets, acked, damaged, marks>>
    BY <1>1, Zenon DEF vars, compaction, history
  <2>2. End' = End /\ Pending' = Pending /\ Scan' = Scan
    BY <2>1, Zenon DEF End, Appending, Start, Pending, Scan
  <2> QED
    BY <2>1, <2>2, Zenon DEF LogInv
<1> QED
  BY <1>1, LogOpening, LogClosing, LogRename, LogAppend, LogFails, LogSync, LogStop, Zenon
     DEF Next

\* Both invariants hold throughout.
LEMMA LogHolds ==
  Spec => [](TypeInv /\ LogInv)
<1>1. Init => TypeInv /\ LogInv
  BY TypeInit, LogInit, Zenon
<1>2. TypeInv /\ LogInv /\ [Next]_vars => (TypeInv /\ LogInv)'
  BY TypeNext, LogNext, Zenon
<1> QED
  BY <1>1, <1>2, PTL DEF Spec

-----------------------------------------------------------------------------
(* Reading.                                                                *)

\* A record reads back as the body of its message.
LEMMA ReadsBack ==
  ASSUME NEW f \in Seq(Digits), NEW p \in Nat, NEW m \in Msgs, Holds(f, p, m)
  PROVE  ReadAt(f, p) = Body[m]
<1> DEFINE r == Record(m)
           b == Body[m]
           n == Len(Record(m))
<1>1. /\ b \in Seq(Digits) /\ r \in Seq(Digits) /\ Len(b) \in Nat
      /\ n = Len(b) + 2 /\ n \in Nat
      /\ r[1] # NL /\ r[2] = NL
      /\ \A i \in 1 .. Len(b) : r[i + 2] = b[i]
  <2>1. b \in Seq(Digits) /\ r \in Seq(Digits) /\ n = Len(b) + 2 /\ r[1] = Id[m] /\ r[2] = NL
        /\ \A i \in 1 .. Len(b) : r[i + 2] = b[i]
    BY RecordLayout, Zenon
  <2>2. Len(b) \in Nat /\ n \in Nat
    BY <2>1, SeqFacts, Zenon
  <2>3. Id[m] # NL
    BY FileLogConstants, Zenon
  <2> QED
    BY <2>1, <2>2, <2>3, Zenon
<1>0. /\ p + Size(m) <= Len(f) /\ Size(m) = 2 + n /\ 2 + Length(f, p) = Size(m)
      /\ \A i \in 1 .. n : f[p + 2 + i] = r[i]
  BY Zenon DEF Holds, HeaderSize, Size
<1> HIDE DEF n, r, b
<1>2. /\ p + 2 + n <= Len(f)
      /\ \A i \in 1 .. n : f[p + 2 + i] = r[i]
      /\ 2 + Length(f, p) = 2 + n
  BY <1>0, <1>1, SMTT(30)
<1>3. Length(f, p) = n
  <2>1. Length(f, p) \in Nat
    <3>1. Agree(f, f, Len(f)) /\ p + HeaderSize <= Len(f) /\ Len(f) \in Nat
      BY <1>1, <1>2, SMTT(30) DEF Agree, HeaderSize
    <3> QED
      BY <3>1, AgreeLength, Zenon
  <2> QED
    BY <1>1, <1>2, <2>1
<1>4. Complete(f, p)
  <2>1. p + 2 <= Len(f)
    BY <1>1, <1>2, SMTT(30)
  <2> QED
    BY <1>2, <1>3, <2>1, Zenon DEF Complete, HasHeader, HeaderSize
<1> DEFINE data  == SubSeq(f, p + 2 + 1, p + 2 + n)
           lines == {i \in 1 .. Len(data) : data[i] = NL}
<1>5. data \in Seq(Digits) /\ Len(data) = n /\ \A i \in 1 .. n : data[i] = f[p + 2 + i]
  <2>1. p + 2 \in Nat
    OBVIOUS
  <2> QED
    BY ONLY <1>1, <1>2, <2>1, f \in Seq(Digits), Slice, SMTT(30)
<1>6. \A i \in 1 .. n : data[i] = r[i]
  BY <1>2, <1>5, Zenon
<1> HIDE DEF data
<1>7. 1 \in 1 .. n /\ 2 \in 1 .. n
  BY <1>1
<1>8. 2 \in lines /\ \A j \in lines : j \in Nat /\ 2 <= j
  <2>1. 2 \in lines
    BY <1>1, <1>5, <1>6, <1>7, ZenonT(40)
  <2>2. ASSUME NEW j \in lines PROVE j \in Nat /\ 2 <= j
    <3>1. j \in 1 .. n /\ j # 1
      BY <1>1, <1>5, <1>6, <1>7, Zenon
    <3> QED
      BY <1>1, <3>1, SMTT(30)
  <2> QED
    BY <2>1, <2>2, Zenon
<1> HIDE DEF lines
<1>9. (CHOOSE i \in lines : \A j \in lines : i <= j) = 2
  <2>1. \E i \in lines : \A j \in lines : i <= j
    BY <1>8, ZenonT(40)
  <2>2. ASSUME NEW i \in lines, \A j \in lines : i <= j PROVE i = 2
    BY <1>8, <2>2
  <2> QED
    BY <2>1, <2>2, Zenon
<1>10. SubSeq(data, 2 + 1, Len(data)) = b
  <2> DEFINE c == SubSeq(data, 3, Len(data))
  <2>1. c \in Seq(Digits) /\ Len(c) = Len(b) /\ \A i \in 1 .. Len(b) : c[i] = data[i + 2]
    BY <1>1, <1>5, SMTT(30)
  <2>2. ASSUME NEW i \in 1 .. Len(b) PROVE c[i] = b[i]
    <3>1. i + 2 \in 1 .. n
      BY <1>1, SMTT(30)
    <3> QED
      BY <1>1, <1>6, <2>1, <3>1, Zenon
  <2>3. c = b
    <3>1. /\ b \in Seq(Digits) /\ c \in Seq(Digits) /\ Len(c) = Len(b)
          /\ \A i \in 1 .. Len(b) : c[i] = b[i]
      BY <1>1, <2>1, <2>2, Zenon
    <3> HIDE DEF c
    <3> QED
      BY ONLY <3>1
  <2> QED
    BY <2>3, SMTT(30)
<1>11. lines # {}
  BY <1>8, Zenon
<1>12. ReadAt(f, p) = AfterLine(data)
  BY <1>3, <1>4, Zenon DEF ReadAt, HeaderSize, data, n
<1>13. AfterLine(data) = SubSeq(data, (CHOOSE i \in lines : \A j \in lines : i <= j) + 1, Len(data))
  BY <1>11, Zenon DEF AfterLine, lines
<1> QED
  BY <1>9, <1>10, <1>12, <1>13, Zenon DEF b

\* An append that was acknowledged reads back as its own body: in its opening
\* whatever fails in the meantime, and after any number of crashes if nothing
\* before it is damaged.
THEOREM Readable == Spec => []AckedReadable
<1>1. TypeInv /\ LogInv => AckedReadable
  <2> SUFFICES ASSUME TypeInv, LogInv, state = "up", NEW a \in acked,
                      a.opens = opens \/ \A d \in damaged : a.pos < d
               PROVE  Read(a.offset) = Body[a.msg]
    BY Zenon DEF AckedReadable
  <2>1. a.msg \in Msgs /\ a.pos \in Nat /\ a.offset \in Nat
    BY LogTypes, Zenon
  <2>2. /\ OnDisk(a, file, synced) /\ Found(a, state, opens, offsets) /\ Placed(a, marks, damaged)
        /\ Match(offsets, marks) /\ Len(marks) <= Len(offsets) + 1
    BY Zenon DEF LogInv, Scan
  <2>3. a.offset < Len(offsets) /\ offsets[a.offset + 1] = a.pos
    <3>1. CASE a.opens = opens
      BY <2>2, <3>1, Zenon DEF Found
    <3>2. CASE \A d \in damaged : a.pos < d
      <4>1. a.offset + 1 < Len(marks) /\ marks[a.offset + 1] = a.pos
        BY <2>2, <3>2, Zenon DEF Placed
      <4>2. a.offset < Len(offsets) /\ a.offset + 1 \in 1 .. Len(offsets)
        <5> DEFINE i == a.offset
                   k == Len(offsets)
                   l == Len(marks)
        <5>1. i \in Nat /\ k \in Nat /\ l \in Nat /\ i + 1 < l /\ l <= k + 1
          BY <2>1, <2>2, <4>1, Lens, Zenon
        <5> HIDE DEF i, k, l
        <5>2. i < k /\ i + 1 \in 1 .. k
          BY <5>1, SMTT(30)
        <5> QED
          BY <5>2, Zenon DEF i, k
      <4> QED
        BY <2>2, <4>1, <4>2, Zenon DEF Match
    <3> QED
      BY <3>1, <3>2, Zenon
  <2>4. ReadAt(file, a.pos) = Body[a.msg]
    BY <2>1, <2>2, LogTypes, ReadsBack, Zenon DEF OnDisk
  <2> QED
    BY <2>3, <2>4, Zenon DEF Read
<1> QED
  BY <1>1, LogHolds, PTL

-----------------------------------------------------------------------------
(* What reindex refuses.                                                   *)

\* The lengths stay within the limit in a file that keeps the headers.
LEMMA ShortStays ==
  ASSUME NEW f \in Seq(Digits), NEW g \in Seq(Digits), NEW n \in Nat, Agree(f, g, n),
         NEW s \in Seq(Nat), NEW d, NEW e, Sound(f, s, n, d, e), Short(f, s)
  PROVE  Short(g, s)
<1>1. Chain(f, s) /\ Agree(f, g, Last(s))
  BY ChainStays, Zenon
<1>2. \A i \in 1 .. Len(s) - 1 : Length(g, s[i]) = Length(f, s[i])
  BY <1>1, AgreeChain, Zenon
<1> QED
  BY <1>2, Zenon DEF Short

\* The same of all the positions of an index.
LEMMA SmallStays ==
  ASSUME NEW f \in Seq(Digits), NEW g \in Seq(Digits), Agree(f, g, Len(f)),
         NEW s, IndexOK(f, s), Small(f, s)
  PROVE  Small(g, s)
<1> SUFFICES ASSUME NEW i \in 1 .. Len(s) PROVE Length(g, s[i]) <= Limit
  BY Zenon DEF Small
<1>1. s[i] \in Nat /\ s[i] + HeaderSize <= Len(f) /\ Len(f) \in Nat
  BY DEF IndexOK, HasHeader
<1>2. Length(g, s[i]) = Length(f, s[i])
  BY <1>1, AgreeLength
<1> QED
  BY <1>2, Zenon DEF Small

\* One more position.
LEMMA SmallGrows ==
  ASSUME NEW f, NEW s \in Seq(Nat), NEW p \in Nat, Small(f, s), Length(f, p) <= Limit
  PROVE  Small(f, Append(s, p))
<1>1. /\ Len(Append(s, p)) = Len(s) + 1 /\ Append(s, p)[Len(s) + 1] = p
      /\ \A i \in 1 .. Len(s) : Append(s, p)[i] = s[i]
  OBVIOUS
<1> SUFFICES ASSUME NEW i \in 1 .. Len(s) + 1 PROVE Length(f, Append(s, p)[i]) <= Limit
  BY <1>1, Zenon DEF Small
<1>2. CASE i = Len(s) + 1
  BY <1>1, <1>2, Zenon
<1>3. CASE i # Len(s) + 1
  <2>1. i \in 1 .. Len(s)
    BY <1>3
  <2> QED
    BY <1>1, <2>1, Zenon DEF Small
<1> QED
  BY <1>2, <1>3, Zenon

\* One more mark.
LEMMA ShortGrows ==
  ASSUME NEW f, NEW s \in Seq(Nat), Len(s) # 0, Short(f, s), Length(f, Last(s)) <= Limit,
         NEW x \in Nat
  PROVE  Short(f, Append(s, x))
<1>1. /\ Len(Append(s, x)) - 1 = Len(s)
      /\ \A i \in 1 .. Len(s) : Append(s, x)[i] = s[i]
  BY SMTT(30)
<1> SUFFICES ASSUME NEW i \in 1 .. Len(s) PROVE Length(f, s[i]) <= Limit
  BY <1>1, Zenon DEF Short
<1>2. CASE i = Len(s)
  BY <1>2, Zenon DEF Last
<1>3. CASE i # Len(s)
  <2>1. i \in 1 .. Len(s) - 1
    BY <1>3
  <2> QED
    BY <2>1, Zenon DEF Short
<1> QED
  BY <1>2, <1>3, Zenon

\* The record of the Append under way is within the limit.
LEMMA PendingShort ==
  ASSUME TypeInv, LogInv, Fits, Appending
  PROVE  Length(file, Start) <= Limit
<1>1. HeaderSize + Length(file, Start) = Size(msg) /\ msg \in Msgs
  BY StartType, LogTypes, Zenon DEF Appending, LogInv, Pending, Holds
<1>2. Length(file, Start) \in Nat
  <2>1. Agree(file, file, Len(file))
    BY Lens DEF Agree
  <2> QED
    BY <2>1, LogTypes, StartType, AgreeLength, Zenon
<1>3. Len(Record(msg)) \in Nat /\ Len(Record(msg)) <= Limit /\ Size(msg) = HeaderSize + Len(Record(msg))
  BY <1>1, SizeType, Zenon DEF Fits, Size
<1>4. Length(file, Start) = Len(Record(msg))
  BY <1>1, <1>2, <1>3, SMTT(30) DEF HeaderSize
<1> QED
  BY <1>3, <1>4, Zenon

\* Every step keeps the lengths within the limit, and reindex refuses nothing
\* but damage.
LEMMA LimitNext ==
  ASSUME Fits, TypeInv, TypeInv', LogInv, LogInv', LimitInv, [Next]_vars
  PROVE  LimitInv'
<1>0. /\ file \in Seq(Digits) /\ file' \in Seq(Digits) /\ tmp \in Seq(Digits) /\ tmp' \in Seq(Digits)
      /\ IndexOK(file, offsets) /\ IndexOK(tmp, newOffsets) /\ Limit \in Nat
      /\ \A f : Small(f, <<>>)
  <2>1. \A f : Small(f, <<>>)
    BY DEF Small
  <2>2. Parts /\ Parts'
    BY TypeParts, Zenon
  <2> QED
    BY <2>1, <2>2, FileLogConstants, Zenon DEF Parts, DiskOK
<1>1. CASE UNCHANGED <<file, offsets, marks, tmp, newOffsets>> /\ (state' = state \/ state' \in {"opening", "up"})
           /\ (damaged' = damaged \/ damaged' # {})
  BY <1>1, Zenon DEF LimitInv
<1>2. CASE UNCHANGED <<file, marks, damaged>> /\ offsets' = <<>> /\ tmp' = <<>> /\ newOffsets' = <<>> /\ state' = "down"
  BY <1>0, <1>2, Zenon DEF LimitInv
<1>3. CASE ReindexRecord
  <2>1. /\ UNCHANGED <<file, marks, tmp, newOffsets, state, damaged>>
        /\ offsets' = Append(offsets, pos) /\ Length(file, pos) <= Limit
    BY <1>3, Zenon DEF ReindexRecord, Accepted, compaction, history
  <2>2. Small(file, offsets')
    BY <2>1, LogTypes, SmallGrows, Zenon DEF LimitInv
  <2> QED
    BY <2>1, <2>2, Zenon DEF LimitInv
<1>4. CASE ReindexFails
  <2>1. /\ UNCHANGED <<file, marks, tmp, newOffsets, damaged>> /\ offsets' = <<>>
        /\ state = "opening" /\ pos < Len(file) /\ ~Accepted
    BY <1>4, Zenon DEF ReindexFails, compaction, history
  <2>2. damaged # {}
    <3> SUFFICES ASSUME damaged = {} PROVE FALSE
      BY Zenon
    <3>1. ~Appending
      BY <2>1, Zenon DEF TypeInv, Memory, Appending
    <3>2. /\ Chain(file, marks) /\ Last(marks) = Len(file)
          /\ Len(offsets) < Len(marks) /\ pos = marks[Len(offsets) + 1]
      BY <2>1, <3>1, Zenon DEF LogInv, Sound, Scan, End
    <3>3. Len(offsets) + 1 # Len(marks)
      BY <2>1, <3>2, Lens DEF Last
    <3>4. Len(offsets) + 1 \in 1 .. Len(marks) - 1
      <4>1. Len(offsets) \in Nat /\ Len(marks) \in Nat
        BY Lens, Zenon
      <4> QED
        BY <3>2, <3>3, <4>1
    <3>5. Length(file, pos) <= Limit
      BY <3>2, <3>4, Zenon DEF LimitInv, Short
    <3>6. HasHeader(file, pos)
      <4> DEFINE q == marks[Len(offsets) + 1 + 1]
      <4>1. q \in Nat /\ pos + HeaderSize <= q /\ q <= Len(file)
        BY <3>2, <3>4, ChainStep, Zenon
      <4> HIDE DEF q
      <4>2. pos + HeaderSize <= Len(file)
        BY <4>1, Lens DEF HeaderSize
      <4> QED
        BY <4>2, Zenon DEF HasHeader
    <3> QED
      BY <2>1, <3>5, <3>6, Zenon DEF Accepted
  <2> QED
    BY <1>0, <2>1, <2>2, Zenon DEF LimitInv
<1>5. ASSUME AppendRecord \/ RecordFails \/ \E m \in Msgs : AppendHeader(m) \/ HeaderFails(m)
      PROVE  LimitInv'
  <2>1. /\ UNCHANGED <<offsets, marks, tmp, newOffsets, state, synced>>
        /\ state = "up"
    BY <1>5, Zenon
       DEF AppendRecord, RecordFails, AppendHeader, HeaderFails, BeginAppend, compaction, history,
               TypeInv, Memory
  <2>2. Agree(file, file', Len(file))
    BY <1>5, GrowsOnly, Zenon
  <2>3. Agree(file, file', synced)
    BY <2>2, Lens, SMTT(30) DEF Agree
  <2>4. Short(file', marks)
    BY <1>0, <2>3, LogTypes, ShortStays, Zenon DEF LogInv, LimitInv
  <2>5. Small(file', offsets)
    BY <1>0, <2>2, SmallStays, Zenon DEF LimitInv
  <2> QED
    BY <2>1, <2>4, <2>5, Zenon DEF LimitInv
<1>6. CASE AppendSync
  <2>1. /\ UNCHANGED <<file, tmp, newOffsets, state, damaged>> /\ state = "up" /\ Appending
        /\ offsets' = Append(offsets, Start)
        /\ marks' = IF damaged = {} THEN Append(marks, Len(file)) ELSE marks
    BY <1>6, Zenon DEF AppendSync, Answer, compaction, TypeInv, Memory, Appending
  <2>2. Length(file, Start) <= Limit /\ Start \in Nat
    BY <2>1, PendingShort, StartType, Zenon
  <2>3. Small(file', offsets')
    BY <2>1, <2>2, LogTypes, SmallGrows, Zenon DEF LimitInv
  <2>4. Short(file', marks')
    <3>1. CASE damaged = {}
      <4>1. Last(marks) = Start /\ Len(marks) \in Nat \ {0}
        <5>1. Last(marks) = Start /\ Len(marks) > 0
          BY <2>1, <3>1, Zenon DEF LogInv, Sound, End, Chain
        <5> QED
          BY <5>1, Lens
      <4>2. Short(file, Append(marks, Len(file)))
        BY <2>2, <4>1, LogTypes, ShortGrows, Zenon DEF LimitInv
      <4> QED
        BY <2>1, <3>1, <4>2, Zenon
    <3>2. CASE damaged # {}
      BY <2>1, <3>2, Zenon DEF LimitInv
    <3> QED
      BY <3>1, <3>2, Zenon
  <2> QED
    BY <2>1, <2>3, <2>4, Zenon DEF LimitInv
<1>7. CASE Crash
  <2>0. PICK k \in synced .. Len(file) :
             /\ file' = SubSeq(file, 1, k)
             /\ marks' = IF Appending /\ k = Start + HeaderSize + Len(Record(msg)) /\ damaged = {}
                         THEN Append(marks, k) ELSE marks
    BY <1>7, Zenon DEF Crash
  <2>1. offsets' = <<>> /\ tmp' = <<>> /\ newOffsets' = <<>> /\ state' = "down"
    BY <1>7, Zenon DEF Crash, Stop, Discard
  <2>2. k \in 0 .. Len(file) /\ synced \in 0 .. k /\ k \in 0 .. k /\ k \in Nat
    BY Lens, SMTT(30)
  <2>3. Agree(file, file', synced) /\ Agree(file, file', k)
    BY <1>0, <2>0, <2>2, AgreeCut, Zenon
  <2>4. Short(file', marks)
    BY <1>0, <2>3, LogTypes, ShortStays, Zenon DEF LogInv, LimitInv
  <2>5. Short(file', marks')
    <3>1. CASE Appending /\ k = Start + HeaderSize + Len(Record(msg)) /\ damaged = {}
      <4>1. Last(marks) = Start /\ Len(marks) \in Nat \ {0}
        <5>1. Last(marks) = Start /\ Len(marks) > 0
          BY <3>1, Zenon DEF LogInv, Sound, End, Chain
        <5> QED
          BY <5>1, Lens
      <4>2. Length(file, Start) <= Limit /\ Start \in Nat /\ Len(Record(msg)) \in Nat
        BY <3>1, PendingShort, StartType, SizeType, LogTypes, Zenon
      <4>3. Start + HeaderSize <= k
        BY <3>1, <4>2, SMTT(30) DEF HeaderSize
      <4>4. Length(file', Start) <= Limit
        BY <1>0, <2>2, <2>3, <4>2, <4>3, AgreeLength, SMTT(30)
      <4> QED
        BY <2>0, <2>2, <2>4, <3>1, <4>1, <4>4, LogTypes, ShortGrows, Zenon
    <3>2. CASE ~(Appending /\ k = Start + HeaderSize + Len(Record(msg)) /\ damaged = {})
      BY <2>0, <2>4, <3>2, Zenon
    <3> QED
      BY <3>1, <3>2, Zenon
  <2> QED
    BY <1>0, <2>1, <2>5, Zenon DEF LimitInv
<1>8. CASE Kill
  BY <1>0, <1>8, Zenon DEF Kill, Stop, Discard, LimitInv
<1>9. CASE CompactCopy
  <2>1. /\ UNCHANGED <<file, offsets, marks, damaged, state>>
        /\ newOffsets' = Append(newOffsets, Len(tmp))
        /\ tmp' = tmp \o Bytes(file, offsets[old + 1])
    BY <1>9, Zenon DEF CompactCopy, Copy, history
  <2>2. Agree(tmp, tmp', Len(tmp)) /\ Length(tmp', Len(tmp)) = Length(file, offsets[old + 1])
        /\ old + 1 \in 1 .. Len(offsets)
    BY <1>9, CopiesRecord, Zenon
  <2>3. Small(tmp', newOffsets)
    BY <1>0, <2>2, SmallStays, Zenon DEF LimitInv
  <2>4. Length(tmp', Len(tmp)) <= Limit
    BY <2>2, Zenon DEF LimitInv, Small
  <2>5. Small(tmp', newOffsets')
    BY <2>1, <2>3, <2>4, LogTypes, SmallGrows, Zenon
  <2> QED
    BY <2>1, <2>5, Zenon DEF LimitInv
<1>10. CASE CompactRename
  <2>1. /\ file' = tmp /\ tmp' = <<>> /\ newOffsets' = <<>> /\ marks' = Append(newOffsets, Len(tmp))
        /\ offsets' \in {newOffsets, <<>>} /\ state' \in {"up", "down"}
    BY <1>10, Zenon DEF CompactRename, Discard
  <2>2. Short(file', marks')
    <3>1. ASSUME NEW i \in 1 .. Len(newOffsets)
          PROVE  marks'[i] = newOffsets[i] /\ Len(marks') - 1 = Len(newOffsets)
      BY <2>1, Lens, SMTT(30)
    <3>2. Len(marks') - 1 = Len(newOffsets)
      BY <2>1, Lens
    <3> QED
      BY <2>1, <3>1, <3>2, Zenon DEF LimitInv, Short, Small
  <2> QED
    BY <1>0, <2>1, <2>2, Zenon DEF LimitInv
<1>11. CASE OpenFileLog \/ ReindexDone \/ SyncFails \/ CompactSkip
            \/ \E keep \in SUBSET (0 .. Len(offsets) - 1) : CompactBegin(keep)
  BY <1>1, <1>11, Zenon
     DEF OpenFileLog, ReindexDone, SyncFails, CompactSkip, CompactBegin, compaction, history
<1>12. CASE Close
  <2>1. tmp = <<>> /\ newOffsets = <<>>
    BY <1>12, Zenon DEF Close, TypeInv, Memory
  <2> QED
    BY <1>2, <1>12, <2>1, Zenon DEF Close, compaction, history
<1>13. CASE RenameFails
  BY <1>2, <1>13, Zenon DEF RenameFails, Discard, history
<1>14. CASE CompactFails
  <2>1. UNCHANGED <<file, offsets, marks, state, damaged>> /\ tmp' = <<>> /\ newOffsets' = <<>>
    BY <1>14, Zenon DEF CompactFails, Discard, history
  <2> QED
    BY <1>0, <2>1, Zenon DEF LimitInv
<1>15. CASE UNCHANGED vars
  BY <1>1, <1>15, Zenon DEF vars, compaction, history
<1> QED
  BY <1>3, <1>4, <1>5, <1>6, <1>7, <1>8, <1>9, <1>10, <1>11, <1>12, <1>13, <1>14, <1>15, SMTT(30) DEF Next

\* If every record is within the limit of reindex, the log refuses to open only
\* after an append that did not complete.  Append bounds the body, which is
\* shorter by the identifier and the newline.
THEOREM RefusesDamaged ==
  ASSUME Fits
  PROVE  Spec => []RefusedOnlyIfDamaged
<1>1. Init => LimitInv
  BY FileLogConstants DEF Init, LimitInv, Short, Small
<1>2. TypeInv /\ LogInv /\ (TypeInv /\ LogInv)' /\ LimitInv /\ [Next]_vars => LimitInv'
  BY LimitNext, Zenon
<1>3. LimitInv => RefusedOnlyIfDamaged
  BY Zenon DEF LimitInv, RefusedOnlyIfDamaged
<1> QED
  BY <1>1, <1>2, <1>3, LogHolds, PTL DEF Spec

-----------------------------------------------------------------------------
(* Compaction.                                                             *)

INSTANCE FiniteSetTheorems

\* How many live records there are below a number.
LEMMA BelowCount ==
  ASSUME NEW l \in Nat, NEW k \in SUBSET (0 .. l - 1), NEW n \in Nat
  PROVE  /\ Cardinality(Below(k, n)) \in Nat
         /\ n \notin k => Below(k, n + 1) = Below(k, n)
         /\ n \in k => /\ Below(k, n + 1) = Below(k, n) \cup {n}
                       /\ Cardinality(Below(k, n + 1)) = Cardinality(Below(k, n)) + 1
<1>1. IsFiniteSet(0 .. l - 1)
  BY FS_Interval, SMTT(30)
<1>2. IsFiniteSet(Below(k, n))
  <2>1. Below(k, n) \subseteq 0 .. l - 1
    BY Zenon DEF Below
  <2> QED
    BY <1>1, <2>1, FS_Subset, ZenonT(40)
<1>3. Cardinality(Below(k, n)) \in Nat
  BY <1>2, FS_CardinalityType, ZenonT(40)
<1>0. \A j \in k : j \in Nat /\ (j < n + 1 <=> j < n \/ j = n)
  OBVIOUS
<1>4. n \notin k => Below(k, n + 1) = Below(k, n)
  BY <1>0, Zenon DEF Below
<1>5. n \in k => Below(k, n + 1) = Below(k, n) \cup {n}
  BY <1>0, Zenon DEF Below
<1>6. n \notin Below(k, n)
  BY DEF Below
<1>7. Cardinality(Below(k, n) \cup {n}) = Cardinality(Below(k, n)) + 1
  BY <1>2, <1>6, FS_AddElement, ZenonT(40)
<1> QED
  BY <1>3, <1>4, <1>5, <1>7

\* No live records, no copies.
LEMMA BelowNone ==
  /\ \A n : Below({}, n) = {}
  /\ \A k \in SUBSET Nat : Below(k, 0) = {}
  /\ Cardinality({}) = 0
<1>1. \A n : Below({}, n) = {}
  BY Zenon DEF Below
<1>2. ASSUME NEW k \in SUBSET Nat PROVE Below(k, 0) = {}
  <2>1. \A j \in k : ~(j < 0)
    OBVIOUS
  <2> QED
    BY <2>1, Zenon DEF Below
<1>3. Cardinality({}) = 0
  BY FS_EmptySet, Zenon
<1> QED
  BY <1>1, <1>2, <1>3, ZenonT(40)

\* Compact keeps the copies in order.
LEMMA CopyNext ==
  TypeInv /\ TypeInv' /\ CopyInv /\ [Next]_vars => CopyInv'
<1> SUFFICES ASSUME TypeInv, TypeInv', CopyInv, [Next]_vars PROVE CopyInv'
  BY Zenon
<1>1. CASE pc' # "compact"
  <2>1. live' = {} /\ newOffsets' = <<>>
    BY <1>1, Zenon DEF TypeInv, Memory
  <2>2. Below(live', old') = {} /\ Len(newOffsets') = 0
    BY <2>1, BelowNone, Zenon
  <2> QED
    BY <2>2, BelowNone, ZenonT(40) DEF CopyInv
<1>2. CASE UNCHANGED <<file, offsets, live, old, tmp, newOffsets>>
  BY <1>2, Zenon DEF CopyInv
<1>3. ASSUME NEW keep \in SUBSET (0 .. Len(offsets) - 1), CompactBegin(keep) PROVE CopyInv'
  <2>1. old' = 0 /\ newOffsets' = <<>> /\ live' \in SUBSET Nat
    <3>1. \A j \in 0 .. Len(offsets) - 1 : j \in Nat
      BY Lens, SMTT(30)
    <3>2. pc = "idle" /\ live' = keep /\ old' = old /\ newOffsets' = newOffsets
      BY <1>3, Zenon DEF CompactBegin
    <3>3. old = 0 /\ newOffsets = <<>>
      BY <3>2, Zenon DEF TypeInv, Memory
    <3> QED
      BY <3>1, <3>2, <3>3, ZenonT(40)
  <2>2. Below(live', old') = {} /\ Len(newOffsets') = 0
    BY <2>1, BelowNone, Zenon
  <2> QED
    BY <2>2, BelowNone, ZenonT(40) DEF CopyInv
<1>4. old \in Nat /\ Len(offsets) \in Nat /\ live \in SUBSET (0 .. Len(offsets) - 1)
  <2>1. Len(offsets) \in Nat
    BY Lens, Zenon
  <2>2. old \in 0 .. Len(offsets) /\ live \in SUBSET (0 .. Len(offsets) - 1)
    BY Zenon DEF TypeInv, TypeOK
  <2>3. old \in Nat
    BY <2>1, <2>2
  <2> QED
    BY <2>1, <2>2, <2>3, ZenonT(40)
<1>5. CASE CompactSkip
  <2>1. old' = old + 1 /\ old \notin live /\ UNCHANGED <<file, offsets, live, tmp, newOffsets>>
    BY <1>5, Zenon DEF CompactSkip
  <2>2. Below(live', old') = Below(live, old)
    BY <1>4, <2>1, BelowCount, ZenonT(40)
  <2> QED
    BY <2>1, <2>2, ZenonT(40) DEF CopyInv
<1>6. CASE CompactCopy
  <2>1. /\ old' = old + 1 /\ old \in live /\ UNCHANGED <<file, offsets, live>>
        /\ newOffsets' = Append(newOffsets, Len(tmp))
    BY <1>6, Zenon DEF CompactCopy, Copy
  <2>2. /\ Below(live', old') = Below(live, old) \cup {old}
        /\ Cardinality(Below(live', old')) = Cardinality(Below(live, old)) + 1
        /\ Cardinality(Below(live, old)) \in Nat
    BY <1>4, <2>1, BelowCount, ZenonT(40)
  <2>3. /\ Len(newOffsets') = Len(newOffsets) + 1
        /\ newOffsets'[Len(newOffsets) + 1] = Len(tmp)
        /\ \A j \in 1 .. Len(newOffsets) : newOffsets'[j] = newOffsets[j]
    BY <2>1, LogTypes, Longer, ZenonT(40)
  <2>4. Len(newOffsets') = Cardinality(Below(live', old'))
    BY <2>2, <2>3, ZenonT(40) DEF CopyInv
  <2> DEFINE r(i) == Cardinality(Below(live, i))
  <2>5. ASSUME NEW i \in Below(live, old)
        PROVE  r(i) < Len(newOffsets') /\ Same(tmp', newOffsets'[r(i) + 1], file, offsets[i + 1])
    <3>1. i \in Nat /\ r(i) \in Nat /\ i + 1 \in 1 .. Len(offsets)
      <4>1. i \in Nat /\ i + 1 \in 1 .. Len(offsets)
        BY <1>4, SMTT(30) DEF Below
      <4> QED
        BY <1>4, <4>1, BelowCount, ZenonT(40)
    <3>2. r(i) < Len(newOffsets) /\ Same(tmp, newOffsets[r(i) + 1], file, offsets[i + 1])
      BY Zenon DEF CopyInv
    <3> HIDE DEF r
    <3>3. r(i) + 1 \in 1 .. Len(newOffsets) /\ r(i) < Len(newOffsets')
      <4> DEFINE c == r(i)
                 l == Len(newOffsets)
      <4>1. c \in Nat /\ l \in Nat /\ c < l /\ Len(newOffsets') = l + 1
        BY <2>3, <3>1, <3>2, LogTypes, ZenonT(40)
      <4> HIDE DEF c, l
      <4>2. c + 1 \in 1 .. l /\ c < l + 1
        BY <4>1, SMTT(30)
      <4> QED
        BY <4>1, <4>2, ZenonT(40) DEF c, l
    <3>4. newOffsets'[r(i) + 1] = newOffsets[r(i) + 1] /\ newOffsets[r(i) + 1] \in Nat /\ offsets[i + 1] \in Nat
      <4>1. \A j \in 1 .. Len(newOffsets) : newOffsets[j] \in Nat
        BY LogTypes, SeqFacts, ZenonT(40)
      <4>2. \A j \in 1 .. Len(offsets) : offsets[j] \in Nat
        BY LogTypes, SeqFacts, ZenonT(40)
      <4> QED
        BY <2>3, <3>1, <3>3, <4>1, <4>2, SMTT(30)
    <3>5. Agree(tmp, tmp', Len(tmp)) /\ tmp' \in Seq(Digits)
      BY <1>6, CopiesRecord, ZenonT(40)
    <3>6. Same(tmp', newOffsets[r(i) + 1], file, offsets[i + 1])
      BY <3>2, <3>4, <3>5, LogTypes, SameStays, ZenonT(40)
    <3> QED
      BY <3>3, <3>4, <3>6
  <2>6. r(old) < Len(newOffsets') /\ Same(tmp', newOffsets'[r(old) + 1], file, offsets[old + 1])
    <3>1. r(old) = Len(newOffsets)
      BY Zenon DEF CopyInv
    <3>2. Same(tmp', Len(tmp), file, offsets[old + 1])
      <4> DEFINE p == offsets[old + 1]
                 n == Length(file, offsets[old + 1])
      <4>1. /\ Complete(file, p) /\ n \in Nat /\ Len(tmp') = Len(tmp) + (HeaderSize + n)
            /\ Length(tmp', Len(tmp)) = n /\ Len(tmp) \in Nat
            /\ \A i \in 1 .. HeaderSize + n : tmp'[Len(tmp) + i] = file[p + i]
            /\ old + 1 \in 1 .. Len(offsets)
        BY <1>6, CopiesRecord, LogTypes, ZenonT(40)
      <4>2. p \in Nat
        <5>1. \A j \in 1 .. Len(offsets) : offsets[j] \in Nat
          BY LogTypes, SeqFacts, ZenonT(40)
        <5> QED
          BY <4>1, <5>1, ZenonT(40)
      <4> DEFINE t == Len(tmp)
                 u == Len(tmp')
      <4> HIDE DEF p, n, t, u
      <4>3. t \in Nat /\ n \in Nat /\ u = t + (2 + n) /\ \A i \in 1 .. 2 + n : tmp'[t + i] = file[p + i]
        BY <4>1, ZenonT(40) DEF t, u, HeaderSize
      <4>4. t + 2 <= u /\ t + 2 + n <= u
        BY <4>3, SMTT(30)
      <4>5. ASSUME NEW k \in 1 .. n PROVE tmp'[t + 2 + k] = file[p + 2 + k]
        <5>1. 2 + k \in 1 .. 2 + n /\ t + (2 + k) = t + 2 + k /\ p + (2 + k) = p + 2 + k
          BY <4>2, <4>3, SMTT(30)
        <5>2. tmp'[t + (2 + k)] = file[p + (2 + k)]
          BY <4>3, <5>1, ZenonT(40)
        <5> QED
          BY <5>1, <5>2, ZenonT(40)
      <4>6. Length(tmp', t) = n /\ Length(file, p) = n
        BY <4>1, Zenon DEF t, n, p
      <4>7. Complete(tmp', t)
        BY <4>4, <4>6, ZenonT(40) DEF Complete, HasHeader, HeaderSize, u
      <4>8. Same(tmp', t, file, p)
        BY <4>1, <4>5, <4>6, <4>7, SMTT(30) DEF Same, HeaderSize
      <4> QED
        BY <4>8, Zenon DEF t, p
    <3>3. r(old) < Len(newOffsets')
      <4>1. Len(newOffsets) \in Nat /\ Len(newOffsets') = Len(newOffsets) + 1
        BY <2>3, Lens, ZenonT(40)
      <4>2. Len(newOffsets) < Len(newOffsets')
        BY ONLY <4>1, SMTT(30)
      <4> QED
        BY <3>1, <4>2, ZenonT(40)
    <3> QED
      BY <2>3, <3>1, <3>2, <3>3, ZenonT(40)
  <2> QED
    BY <2>1, <2>2, <2>4, <2>5, <2>6, ZenonT(40) DEF CopyInv
<1>7. CASE UNCHANGED vars
  BY <1>2, <1>7, ZenonT(40) DEF vars, compaction
<1>8. \/ pc' # "compact" \/ UNCHANGED vars \/ CompactSkip \/ CompactCopy
      \/ \E keep \in SUBSET (0 .. Len(offsets) - 1) : CompactBegin(keep)
  <2>1. CASE pc = "compact"
    BY <2>1, ZenonT(40)
       DEF Next, TypeInv, Memory, OpenFileLog, ReindexRecord, ReindexFails, ReindexDone, Close,
               Crash, Kill, Stop, AppendHeader, HeaderFails, BeginAppend, AppendRecord, RecordFails,
               AppendSync, Answer, SyncFails, CompactFails, CompactRename, RenameFails
  <2>2. CASE pc # "compact"
    BY <2>2, ZenonT(40)
       DEF Next, TypeInv, Memory, OpenFileLog, ReindexRecord, ReindexFails, ReindexDone, Close,
               Crash, Kill, Stop, AppendHeader, HeaderFails, BeginAppend, AppendRecord, RecordFails,
               AppendSync, Answer, SyncFails, CompactFails, CompactRename, RenameFails
  <2> QED
    BY <2>1, <2>2, SMTT(30)
<1> QED
  BY <1>1, <1>3, <1>5, <1>6, <1>7, <1>8, SMTT(30)

\* A compaction keeps the bodies of the live records and their order: each gets
\* the number of live ones before it.
THEOREM CompactOrder == Spec => CompactKeepsOrder
<1>1. Init => CopyInv
  <2> SUFFICES ASSUME Init PROVE CopyInv
    BY Zenon
  <2>1. live = {} /\ newOffsets = <<>>
    BY Zenon DEF Init
  <2>2. Below(live, old) = {} /\ Len(newOffsets) = 0
    BY <2>1, BelowNone, ZenonT(40)
  <2> QED
    BY <2>2, BelowNone, SMTT(30) DEF CopyInv
<1>2. TypeInv /\ CopyInv => [CompactRename /\ state' = "up" =>
        /\ Len(offsets') = Cardinality(live)
        /\ \A i \in live :
             LET n == Cardinality({j \in live : j < i})
             IN  n < Len(offsets') /\ ReadAt(file', offsets'[n + 1]) = Read(i)]_vars
  <2> SUFFICES ASSUME TypeInv, CopyInv, CompactRename, state' = "up"
               PROVE  /\ Len(offsets') = Cardinality(live)
                      /\ \A i \in live :
                           LET n == Cardinality({j \in live : j < i})
                           IN  n < Len(offsets') /\ ReadAt(file', offsets'[n + 1]) = Read(i)
    BY Zenon
  <2>1. offsets' = newOffsets /\ file' = tmp /\ old = Len(offsets)
    BY Zenon DEF CompactRename
  <2>2. live \in SUBSET (0 .. Len(offsets) - 1) /\ Len(offsets) \in Nat
    BY DEF TypeInv, TypeOK
  <2>3. Below(live, old) = live
    <3>1. \A j \in live : j < old
      BY <2>1, <2>2
    <3> QED
      BY <3>1, Zenon DEF Below
  <2>4. ASSUME NEW i \in live
        PROVE  /\ Cardinality(Below(live, i)) < Len(newOffsets)
               /\ ReadAt(tmp, newOffsets[Cardinality(Below(live, i)) + 1]) = Read(i)
    <3> DEFINE r == Cardinality(Below(live, i))
    <3>1. i \in Nat /\ i < Len(offsets) /\ i + 1 \in 1 .. Len(offsets)
      BY <2>2
    <3>2. r \in Nat
      BY <2>2, <3>1, BelowCount, ZenonT(40)
    <3>3. r < Len(newOffsets) /\ Same(tmp, newOffsets[r + 1], file, offsets[i + 1])
      BY <2>3, ZenonT(40) DEF CopyInv
    <3> HIDE DEF r
    <3>4. newOffsets[r + 1] \in Nat /\ offsets[i + 1] \in Nat
      <4>1. r + 1 \in 1 .. Len(newOffsets)
        BY <3>2, <3>3, Lens
      <4>2. \A j \in 1 .. Len(newOffsets) : newOffsets[j] \in Nat
        BY LogTypes, SeqFacts, ZenonT(40)
      <4>3. \A j \in 1 .. Len(offsets) : offsets[j] \in Nat
        BY LogTypes, SeqFacts, ZenonT(40)
      <4> QED
        BY <3>1, <4>1, <4>2, <4>3, SMTT(30)
    <3> DEFINE q == newOffsets[r + 1]
               p == offsets[i + 1]
    <3>5. ReadAt(tmp, q) = ReadAt(file, p)
      <4>1. q \in Nat /\ p \in Nat /\ Same(tmp, q, file, p)
        BY <3>3, <3>4, ZenonT(40)
      <4> HIDE DEF p, q
      <4> QED
        BY <4>1, LogTypes, SameReads, SMTT(30)
    <3>6. Read(i) = ReadAt(file, offsets[i + 1])
      BY <3>1, ZenonT(40) DEF Read
    <3> QED
      BY <3>3, <3>5, <3>6, ZenonT(40) DEF r
  <2>5. Len(offsets') = Cardinality(live)
    BY <2>1, <2>3, SMTT(30) DEF CopyInv
  <2> QED
    BY <2>1, <2>4, <2>5, ZenonT(40) DEF Below
<1>3. Spec => [](TypeInv /\ CopyInv)
  <2>1. Init => TypeInv /\ CopyInv
    BY <1>1, TypeInit
  <2>2. TypeInv /\ CopyInv /\ [Next]_vars => (TypeInv /\ CopyInv)'
    BY TypeNext, CopyNext, Zenon
  <2> QED
    BY <2>1, <2>2, PTL DEF Spec
<1> QED
  BY <1>2, <1>3, PTL DEF Spec, CompactKeepsOrder

=============================================================================
