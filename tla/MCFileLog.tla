----------------------------- MODULE MCFileLog ------------------------------
EXTENDS FileLog, TLC

CONSTANTS m1, m2, m3

\* Identifiers and bodies whose digits can be taken for the header of a short or
\* of an empty record.
ThreeMsgs == {m1, m2, m3}
Ids       == (m1 :> 2) @@ (m2 :> 0) @@ (m3 :> 3)
MCBodies  == (m1 :> <<0>>) @@ (m2 :> <<>>) @@ (m3 :> <<0, 2>>)
=============================================================================
