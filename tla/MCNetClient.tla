----------------------------- MODULE MCNetClient ----------------------------
(* Small instances of NetClient for TLC. *)
EXTENDS NetClient

\* Packets behind a length of one byte: one and three bytes, and one whose
\* length is larger than MaxPack.
MCPrefixed == {[hdr |-> 1, body |-> 0, decl |-> 1], [hdr |-> 1, body |-> 2, decl |-> 1]}
MCOne      == {[hdr |-> 1, body |-> 0, decl |-> 1]}
MCTooLong  == MCPrefixed \cup {[hdr |-> 1, body |-> 9, decl |-> 1]}

\* HTTP: a short header without a body, a longer one that announces a body of
\* one byte in its second byte.
MCHttp == {[hdr |-> 1, body |-> 0, decl |-> 0], [hdr |-> 2, body |-> 1, decl |-> 2]}
\* HTTP with an announced body, which may be empty.
MCAnnounced == {[hdr |-> 2, body |-> 1, decl |-> 2], [hdr |-> 3, body |-> 0, decl |-> 1]}

Longconn  == [http |-> FALSE, keepalive |-> TRUE]
HttpKeep  == [http |-> TRUE, keepalive |-> TRUE]
HttpClose == [http |-> TRUE, keepalive |-> FALSE]
MCLongconn == {Longconn}
MCAll      == {Longconn, HttpKeep, HttpClose}
MCKeep     == {HttpKeep}
=============================================================================
