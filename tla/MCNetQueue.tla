----------------------------- MODULE MCNetQueue -----------------------------
(* Small instances of NetQueue for TLC. *)
EXTENDS NetQueue

\* Messages of length 0, 1 and 3: with a prefix of two bytes and a ring of
\* seven cells all three layouts of EnQueue occur, and so does a message that
\* ends exactly at the end of the ring.
MCMessages == {<<>>, <<1>>, <<1, 0, 1>>}
MCShort    == {<<>>, <<1>>}
=============================================================================
