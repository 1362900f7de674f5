-------------------------------- MODULE Wire --------------------------------
(***************************************************************************)
(* The bytes between the peers of Peer: what the codec makes of the        *)
(* performatives one end encodes and of a connection that breaks.  No      *)
(* variable occurs in the properties, so the initial state decides.        *)
(***************************************************************************)
EXTENDS Peer, Codec

CONSTANTS
  FieldLists,  \* the lists of fields that are tried
  Bodies,      \* the message bodies that are tried
  MaxFrame     \* Connection.MaxFrame

\* DecodePerformative gives back what EncodePerformative was given, but for the
\* nulls at its end, and stops where the performative ends and the payload
\* begins; without its last byte, or any more of them, it is refused.  A
\* performative that needs the nulls it has lost is refused too.  The sizes on
\* both sides of the short and the long forms of strings and lists are tried.
DecodesTheEncoded ==
  Init => \A d \in {Open, Flow, Transfer, Disposition}, fields \in FieldLists :
    LET p    == [descriptor |-> d, fields |-> fields]
        kept == [p EXCEPT !.fields = trimNulls(fields)]
        raw  == EncodePerformative(p)
        out  == DecodePerformative(raw \o <<\h40>>)
    IN  Validate(p) =>
          /\ out.ok = Validate(kept)
          /\ out.ok => out.v = kept /\ out.pos = Len(raw)
          /\ \A n \in 0 .. Len(raw) - 1 : ~DecodePerformative(SubSeq(raw, 1, n)).ok

\* The frame of a transfer, and what onTransfer makes of it.
Sent == [channel : {0, 300}, body : Bodies, offset : {2, 3}]

FrameOf(t) ==
  [FrameFor(t.channel, [descriptor |-> Transfer, fields |-> <<<<"uint32", 1>>>>],
            EncodeDataSection(t.body)) EXCEPT !.offset = t.offset]

Received(f) ==
  LET p == DecodePerformative(f.body)
  IN  [channel |-> f.channel, offset |-> f.offset,
       body |-> DecodeDataSection(SubSeq(f.body, p.pos + 1, Len(f.body))).v]

\* A connection that breaks after any byte of two transfers has yielded those
\* that were complete, in order, each with its channel and its body; one that is
\* larger than the maximum ends it, and what comes behind is not read.
StreamIsExact ==
  Init => \A t, u \in Sent :
    LET f     == FrameOf(t)
        g     == FrameOf(u)
        bytes == Marshal(f, 0).v \o Marshal(g, 0).v
    IN  \A n \in 0 .. Len(bytes) :
          LET frames == Frames(SubSeq(bytes, 1, n), 0, MaxFrame)
          IN  [i \in DOMAIN frames |-> Received(frames[i])] =
                CASE n < Size(f) \/ Size(f) > MaxFrame            -> <<>>
                  [] OTHER -> IF n < Len(bytes) \/ Size(g) > MaxFrame THEN <<t>> ELSE <<t, u>>
=============================================================================
