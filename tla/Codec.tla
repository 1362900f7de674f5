------------------------------- MODULE Codec --------------------------------
(***************************************************************************)
(* The AMQP codec: internal/amqp/application and the frames and            *)
(* performatives of internal/amqp/domain, as operators on sequences of     *)
(* bytes.  A value is a pair of its Go type and its content.  A decoding   *)
(* operator returns what it has read and the position behind it.           *)
(***************************************************************************)
EXTENDS Integers, Sequences
LOCAL INSTANCE SequencesExt

Null == <<"null">>

Bad        == [ok |-> FALSE, v |-> Null, pos |-> 0]
Read(v, p) == [ok |-> TRUE, v |-> v, pos |-> p]

need(data, pos, n) == Len(data) - pos >= n

\* The big-endian number in the n bytes behind pos.
Unsigned(data, pos, n) ==
  FoldLeft(LAMBDA high, byte : 256 * high + byte, 0, SubSeq(data, pos + 1, pos + n))

\* The last n bytes of x, big-endian.
RECURSIVE Bytes(_, _)
Bytes(n, x) == IF n = 0 THEN <<>> ELSE Append(Bytes(n - 1, x \div 256), x % 256)

-----------------------------------------------------------------------------
\* Performative: a descriptor and its fields; a field that is not there is nil.
Field(p, i) == IF i < Len(p.fields) THEN p.fields[i + 1] ELSE Null

HasString(p, i) ==
  LET v == Field(p, i) IN v[1] \in {"string", "symbol"} /\ v[2] # <<>>

Open == \h10
Begin == \h11
Attach == \h12
Flow == \h13
Transfer == \h14
Disposition == \h15
Detach == \h16
End == \h17
Close == \h18
SASL == \h40 .. \h44

Minimum(descriptor) ==
  CASE descriptor \in {Begin, Flow, End, Close}               -> 0
    [] descriptor \in {Open, Transfer, Detach} \cup SASL      -> 1
    [] descriptor = Disposition                               -> 2
    [] descriptor = Attach                                    -> 3

Validate(p) ==
  /\ p.descriptor \in Open .. Close \cup SASL
  /\ Len(p.fields) >= Minimum(p.descriptor)
  /\ p.descriptor \in {Open, Attach} => HasString(p, 0)
  /\ p.descriptor = Transfer => Field(p, 0) # Null

-----------------------------------------------------------------------------
\* Encoder.
encodeBytes(short, long, v) ==
  IF Len(v) <= 255 THEN <<short, Len(v)>> \o v ELSE <<long>> \o Bytes(4, Len(v)) \o v

encodeNumber(zero, short, long, n, x) ==
  IF x = 0 THEN <<zero>> ELSE IF x < 256 THEN <<short, x>> ELSE <<long>> \o Bytes(n, x)

RECURSIVE encodeValue(_)

Payload(fields) == FlattenSeq([i \in DOMAIN fields |-> encodeValue(fields[i])])

ListOf(fields, payload, short) ==
  IF fields = <<>> THEN <<\h45>>
  ELSE IF short
       THEN <<\hc0>> \o Bytes(1, Len(payload) + 1) \o Bytes(1, Len(fields)) \o payload
       ELSE <<\hd0>> \o Bytes(4, Len(payload) + 4) \o Bytes(4, Len(fields)) \o payload

\* Mutation: the count byte is not counted in the size.
encodeListOneMore(fields) ==
  LET payload == Payload(fields)
  IN  ListOf(fields, payload, Len(payload) <= 255 /\ Len(fields) <= 255)

encodeList(fields) ==
  LET payload == Payload(fields)
  IN  ListOf(fields, payload, Len(payload) + 1 <= 255 /\ Len(fields) <= 255)

encodeValue(v) ==
  CASE v[1] = "null"      -> <<\h40>>
    [] v[1] = "bool"      -> IF v[2] THEN <<\h41>> ELSE <<\h42>>
    [] v[1] = "uint8"     -> <<\h50, v[2]>>
    [] v[1] = "uint16"    -> <<\h60>> \o Bytes(2, v[2])
    [] v[1] = "uint32"    -> encodeNumber(\h43, \h52, \h70, 4, v[2])
    [] v[1] = "uint64"    -> encodeNumber(\h44, \h53, \h80, 8, v[2])
    [] v[1] = "string"    -> encodeBytes(\ha1, \hb1, v[2])
    [] v[1] = "symbol"    -> encodeBytes(\ha3, \hb3, v[2])
    [] v[1] = "binary"    -> encodeBytes(\ha0, \hb0, v[2])
    [] v[1] = "list"      -> encodeList(v[2])
    [] v[1] = "described" -> <<\h00, \h53, v[2]>> \o encodeValue(v[3])

trimNulls(fields) ==
  SubSeq(fields, 1, CHOOSE n \in 0..Len(fields) :
                      /\ n > 0 => fields[n] # Null
                      /\ \A i \in n+1..Len(fields) : fields[i] = Null)

\* Only what Validate accepts is encoded.
EncodePerformative(p) ==
  <<\h00, \h53, p.descriptor>> \o encodeList(trimNulls(p.fields))

-----------------------------------------------------------------------------
\* Decoder.
descriptor(data, pos) ==
  LET n == IF need(data, pos, 1) /\ data[pos + 1] = \h53 THEN 1
           ELSE IF need(data, pos, 1) /\ data[pos + 1] = \h70 THEN 4
           ELSE 0
  IN  IF n > 0 /\ need(data, pos + 1, n) /\ Unsigned(data, pos + 1, n) <= 255
      THEN Read(Unsigned(data, pos + 1, n), pos + 1 + n) ELSE Bad

\* Constructors that are a value, that have n bytes of it, and that have a
\* length of n bytes before it.
Whole(code) ==
  CASE code = \h40 -> Null            [] code = \h41 -> <<"bool", TRUE>>
    [] code = \h42 -> <<"bool", FALSE>> [] code = \h43 -> <<"uint32", 0>>
    [] code = \h44 -> <<"uint64", 0>> [] code = \h45 -> <<"list", <<>>>>

Scalar(code) ==
  CASE code = \h50 -> <<"uint8", 1>>  [] code = \h52 -> <<"uint32", 1>>
    [] code = \h53 -> <<"uint64", 1>> [] code = \h60 -> <<"uint16", 2>>
    [] code = \h70 -> <<"uint32", 4>> [] code = \h80 -> <<"uint64", 8>>

Variable(code) ==
  CASE code = \ha0 -> <<"binary", 1>> [] code = \hb0 -> <<"binary", 4>>
    [] code = \ha1 -> <<"string", 1>> [] code = \hb1 -> <<"string", 4>>
    [] code = \ha3 -> <<"symbol", 1>> [] code = \hb3 -> <<"symbol", 4>>

\* binary8 and binary32
binary(data, pos, n) ==
  LET size == Unsigned(data, pos, n)
  IN  IF need(data, pos, n) /\ need(data, pos + n, size)
      THEN Read(SubSeq(data, pos + n + 1, pos + n + size), pos + n + size) ELSE Bad

RECURSIVE value(_, _)

\* The loop of list8 and list32 over the elements still to come.
RECURSIVE elements(_, _, _, _)
elements(data, pos, count, out) ==
  IF count = 0 THEN Read(out, pos)
  ELSE LET v == value(data, pos)
       IN  IF v.ok THEN elements(data, v.pos, count - 1, Append(out, v.v)) ELSE Bad

\* list8 and list32, with n bytes each for size and count.  Elements are read
\* from all the data; that they stay within the list is checked afterwards.
list(data, pos, n) ==
  LET size  == Unsigned(data, pos, n)
      start == pos + 2 * n
      end   == start + size - n
      out   == elements(data, start, Unsigned(data, pos + n, n), <<>>)
  IN  IF /\ need(data, pos, 2 * n)
         /\ size >= n
         /\ size - n <= Len(data) - start
         /\ out.ok
         /\ out.pos <= end
      THEN Read(out.v, end) ELSE Bad

Typed(type, r) == IF r.ok THEN Read(<<type, r.v>>, r.pos) ELSE Bad

value(data, pos) ==
  LET code == data[pos + 1]
      at   == pos + 1
  IN  IF ~need(data, pos, 1) THEN Bad ELSE
      CASE code \in \h40 .. \h45 -> Read(Whole(code), at)
        [] code = \h56 ->
             IF need(data, at, 1) THEN Read(<<"bool", data[at + 1] # 0>>, at + 1) ELSE Bad
        [] code \in {\h50, \h52, \h53, \h60, \h70, \h80} ->
             LET n == Scalar(code)[2]
             IN  IF need(data, at, n)
                 THEN Read(<<Scalar(code)[1], Unsigned(data, at, n)>>, at + n) ELSE Bad
        [] code \in {\ha0, \ha1, \ha3, \hb0, \hb1, \hb3} ->
             Typed(Variable(code)[1], binary(data, at, Variable(code)[2]))
        [] code = \hc0 -> Typed("list", list(data, at, 1))
        [] code = \hd0 -> Typed("list", list(data, at, 4))
        [] code = \h00 ->
             LET d == descriptor(data, at)
                 v == value(data, d.pos)
             IN  IF d.ok /\ v.ok THEN Read(<<"described", d.v, v.v>>, v.pos) ELSE Bad
        [] OTHER -> Bad

DecodePerformative(data) ==
  LET d == descriptor(data, 1)
      v == value(data, d.pos)
      p == [descriptor |-> d.v, fields |-> v.v[2]]
  IN  IF /\ need(data, 0, 3)
         /\ data[1] = \h00
         /\ d.ok
         /\ v.ok
         /\ v.v[1] = "list"
         /\ Validate(p)
      THEN Read(p, v.pos) ELSE Bad

-----------------------------------------------------------------------------
\* Frames.  Offset is DataOffset, in words of four bytes; the bytes of the
\* header behind the first eight are zero.
Size(f) == f.offset * 4 + Len(f.body)

Marshal(f, max) ==
  IF max > 0 /\ Size(f) > max THEN Bad
  ELSE Read(Bytes(4, Size(f)) \o <<f.offset, f.type>> \o Bytes(2, f.channel)
              \o [i \in 1 .. f.offset * 4 - 8 |-> 0] \o f.body, Size(f))

\* Mutation: an extended header is taken for the start of the body.
ParseFrameShort(raw) ==
  IF raw[5] >= 2 /\ raw[6] \in {0, 1}
  THEN Read([offset |-> raw[5], type |-> raw[6], channel |-> Unsigned(raw, 6, 2),
             body |-> SubSeq(raw, 9, Len(raw))], Len(raw))
  ELSE Bad

\* raw is as long as its header says, which ReadFrame has seen to.
ParseFrame(raw) ==
  IF raw[5] >= 2 /\ raw[5] * 4 <= Len(raw) /\ raw[6] \in {0, 1}
  THEN Read([offset |-> raw[5], type |-> raw[6], channel |-> Unsigned(raw, 6, 2),
             body |-> SubSeq(raw, raw[5] * 4 + 1, Len(raw))], Len(raw))
  ELSE Bad

\* One frame from the bytes of a connection that come behind pos.
ReadFrame(data, pos, max) ==
  LET size == Unsigned(data, pos, 4)
      f    == ParseFrame(SubSeq(data, pos + 1, pos + size))
  IN  IF /\ need(data, pos, 8)
         /\ size >= 8
         /\ max > 0 => size <= max
         /\ need(data, pos, size)
         /\ f.ok
      THEN Read(f.v, pos + size) ELSE Bad

FrameFor(channel, p, payload) ==
  [offset |-> 2, type |-> 0, channel |-> channel, body |-> EncodePerformative(p) \o payload]

EncodeDataSection(body) == <<\h00, \h53, \h75>> \o encodeBytes(\ha0, \hb0, body)

\* A payload that does not begin like a data section is the body itself.
DecodeDataSection(raw) ==
  LET v == value(raw, 3)
  IN  IF raw = <<>> THEN Bad
      ELSE IF ~(Len(raw) >= 3 /\ SubSeq(raw, 1, 3) = <<\h00, \h53, \h75>>)
           THEN Read(raw, Len(raw))
      ELSE IF v.ok /\ v.v[1] = "binary" THEN Read(v.v[2], v.pos) ELSE Bad

\* The loop of handle: frames are read until one cannot be.
RECURSIVE Frames(_, _, _)
Frames(data, pos, max) ==
  LET f == ReadFrame(data, pos, max)
  IN  IF f.ok THEN <<f.v>> \o Frames(data, f.pos, max) ELSE <<>>
=============================================================================
