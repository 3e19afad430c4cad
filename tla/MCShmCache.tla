----------------------------- MODULE MCShmCache -----------------------------
(* Small instances of ShmCacheLru for TLC. *)
EXTENDS ShmCacheLru

\* With three blocks of two bytes: no block, a partly filled one, two blocks,
\* and a value that is longer than the whole cache.
MCValues == {<<>>, <<1>>, <<2, 3, 4>>, <<5, 6, 7, 8, 9, 10, 11>>}
MCNoLong == {<<1>>, <<2, 3>>}
=============================================================================
