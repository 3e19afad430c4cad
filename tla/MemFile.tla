------------------------------ MODULE MemFile -------------------------------
(***************************************************************************)
(* MemFile (src/utils/memfile.cpp): a file in a chain of memory blocks     *)
(* with a read and a write position of its own.                            *)
(***************************************************************************)
EXTENDS Text, SequencesExt

CONSTANTS
  BLOCKSIZE,
  Contents,                 \* what is written or loaded at a time
  Newline, Junk,            \* bytes; Junk is what a new block holds
  MaxBytes,                 \* bound: bytes in one file
  MaxBlocks,                \* bound: blocks ever allocated
  MaxPast                   \* bound: bytes read beyond the end of the file

VARIABLES
  blocks,    \* every block allocated: its data and the next one's number, or 0
  cur,       \* m_current_read, m_current_write
  nr,        \* m_current_write_nr
  ptr,       \* m_read_ptr, m_write_ptr
  eof,       \* m_b_read_caused_eof
  got,       \* what the last call read
  file,      \* history: the bytes written since the file was emptied
  want,      \* history: what the last call should have read
  last       \* history: which call it was

memVars == <<blocks, cur, nr, ptr, eof, got, file, want, last>>

NewBlock == [data |-> [i \in 1..BLOCKSIZE |-> Junk], next |-> 0]

Init ==
  /\ blocks = <<NewBlock>>
  /\ cur = [read |-> 1, write |-> 1] /\ nr = 0
  /\ ptr = [read |-> 0, write |-> 0]
  /\ eof = FALSE /\ last = "none"
  /\ got = <<>> /\ file = <<>> /\ want = <<>>

-----------------------------------------------------------------------------
\* What Fread copies from the blocks behind b, and the block it ends in.
RECURSIVE Following(_, _)
Following(b, n) ==
  LET next == blocks[b].next
      rest == Following(next, n - BLOCKSIZE)
  IN  IF next = 0 THEN [bytes |-> <<>>, at |-> b]
      ELSE IF n <= BLOCKSIZE THEN [bytes |-> Sub(blocks[next].data, 0, n), at |-> next]
      ELSE [rest EXCEPT !.bytes = blocks[next].data \o @]

\* Fread of n bytes by a reader r = [at, pos, eof].  What is available is a
\* size_t: beyond the end it is too large ever to be asked for.
Fread(r, n) ==
  LET available == IF r.pos <= ptr.write THEN ptr.write - r.pos ELSE n
      sz == Min({n, available})
      p == r.pos % BLOCKSIZE
      here == Sub(blocks[r.at].data, p, sz)
      behind == Following(r.at, sz - Len(here))
      past == p + sz >= BLOCKSIZE
      bytes == IF past THEN here \o behind.bytes ELSE here
  IN  [bytes |-> bytes, at |-> IF past /\ sz > 0 THEN behind.at ELSE r.at,
       pos |-> r.pos + Len(bytes), eof |-> r.eof \/ n > available]

Reader == [bytes |-> <<>>, at |-> cur.read, pos |-> ptr.read, eof |-> eof]

Done(r) ==
  /\ cur' = [cur EXCEPT !.read = r.at]
  /\ ptr' = [ptr EXCEPT !.read = r.pos]
  /\ eof' = r.eof /\ got' = r.bytes
  /\ UNCHANGED <<blocks, nr, file>>

\* After ResetWrite, or Load of a shorter file, the read position may lie beyond
\* the end.
InFile == ptr.read <= ptr.write
Bounded == ptr.read <= ptr.write + MaxPast

Read(n) ==
  /\ Bounded
  /\ Done(Fread(Reader, n))
  /\ want' = Sub(file, ptr.read, n) /\ last' = "Fread"

\* Byte by byte, until a newline, the size or the end of the file; once the end
\* has been met, by whatever call, there are no more lines.
RECURSIVE Gets(_, _, _)
Gets(r, s, n) ==
  LET one == Fread(r, 1)
  IN  IF n = 0 \/ r.eof THEN [r EXCEPT !.bytes = s]
      ELSE IF one.bytes = <<Newline>> THEN [one EXCEPT !.bytes = s]
      ELSE Gets(one, s \o one.bytes, n - 1)
Fgets(size) ==
  /\ Bounded
  /\ Done(Gets(Reader, <<>>, size - 1))
  /\ want' = LET line == Sub(file, ptr.read, size - 1) IN Sub(line, 0, Skip(line, 0, {Newline}))
  /\ last' = "Fgets"

\* Save reads the whole file into another one.
RECURSIVE ReadAll(_, _)
ReadAll(r, s) ==
  LET chunk == Fread(r, BLOCKSIZE)
  IN  IF chunk.bytes = <<>> THEN [chunk EXCEPT !.bytes = s] ELSE ReadAll(chunk, s \o chunk.bytes)
Save ==
  /\ Done(ReadAll([Reader EXCEPT !.at = 1, !.pos = 0], <<>>))
  /\ want' = file /\ last' = "Save"

-----------------------------------------------------------------------------

\* A writer is w = [heap, at, nr].  The block behind it, if need be a new one.
Onward(w, anew) ==
  LET next == w.heap[w.at].next
      fresh == Len(w.heap) + 1
  IN  IF next # 0 /\ ~anew THEN [w EXCEPT !.at = next, !.nr = @ + 1]
      ELSE [heap |-> Append([w.heap EXCEPT ![w.at].next = fresh], NewBlock), at |-> fresh, nr |-> w.nr + 1]

Stored(w, p, bytes) ==
  [w EXCEPT !.heap[w.at].data = [i \in 1..BLOCKSIZE |-> IF i - p \in DOMAIN bytes THEN bytes[i - p] ELSE @[i]]]
RECURSIVE Fill(_, _)
Fill(w, bytes) ==
  LET first == Sub(bytes, 0, BLOCKSIZE)
      then == Stored(Onward(w, FALSE), 0, first)
  IN  IF Len(bytes) <= BLOCKSIZE THEN then ELSE Fill(then, From(bytes, BLOCKSIZE))

\* Fwrite.  A position at the end of the writer's block asks for a new block,
\* also where one follows that an earlier file has left.
Written(w, pos, bytes) ==
  LET p == pos % BLOCKSIZE
      start == IF w.nr < pos \div BLOCKSIZE THEN Onward(w, TRUE) ELSE w
      here == Stored(start, p, Sub(bytes, 0, BLOCKSIZE - p))
  IN  IF p + Len(bytes) <= BLOCKSIZE THEN here ELSE Fill(here, From(bytes, BLOCKSIZE - p))

NothingRead(call) == got' = <<>> /\ want' = <<>> /\ last' = call
Writer == [heap |-> blocks, at |-> cur.write, nr |-> nr]
Empty == [heap |-> blocks, at |-> 1, nr |-> 0]
Fwrite(bytes) ==
  /\ Len(file) + Len(bytes) <= MaxBytes
  /\ LET w == Written(Writer, ptr.write, bytes)
     IN  /\ Len(w.heap) <= MaxBlocks
         /\ blocks' = w.heap /\ cur' = [cur EXCEPT !.write = w.at] /\ nr' = w.nr
  /\ ptr' = [ptr EXCEPT !.write = @ + Len(bytes)]
  /\ file' = file \o bytes
  /\ UNCHANGED eof /\ NothingRead("Fwrite")

\* Load starts the file anew, in pieces of a block, and puts the reader in the
\* first block but leaves its position.  One that finds no file is a ResetWrite.
RECURSIVE Loaded(_, _, _)
Loaded(w, pos, bytes) ==
  LET chunk == Sub(bytes, 0, BLOCKSIZE)
  IN  IF bytes = <<>> THEN w ELSE Loaded(Written(w, pos, chunk), pos + Len(chunk), From(bytes, BLOCKSIZE))
Load(bytes) ==
  /\ LET w == Loaded(Empty, 0, bytes)
     IN  /\ Len(w.heap) <= MaxBlocks
         /\ blocks' = w.heap /\ cur' = [read |-> 1, write |-> w.at] /\ nr' = w.nr
  /\ ptr' = [ptr EXCEPT !.write = Len(bytes)]
  /\ file' = bytes
  /\ UNCHANGED eof /\ NothingRead("Load")

ResetRead ==
  /\ ptr' = [ptr EXCEPT !.read = 0] /\ cur' = [cur EXCEPT !.read = 1]
  /\ UNCHANGED <<blocks, nr, eof, file>> /\ NothingRead("ResetRead")

ResetWrite ==
  /\ ptr' = [ptr EXCEPT !.write = 0] /\ cur' = [cur EXCEPT !.write = 1] /\ nr' = 0
  /\ file' = <<>>
  /\ UNCHANGED <<blocks, eof>> /\ NothingRead("ResetWrite")

Next ==
  \/ \E n \in 1..(2 * BLOCKSIZE + 1) : Read(n)
  \/ \E size \in {2, 4} : Fgets(size)
  \/ \E bytes \in Contents : Fwrite(bytes) \/ Load(bytes)
  \/ Save \/ ResetRead \/ ResetWrite

-----------------------------------------------------------------------------
(* PROPERTIES                                                              *)

\* The block that follows k others in the chain, 0 if there is none.
RECURSIVE NthBlock(_)
NthBlock(k) ==
  IF k = 0 THEN 1
  ELSE IF NthBlock(k - 1) = 0 THEN 0 ELSE blocks[NthBlock(k - 1)].next

\* The reader is in the block in which its position lies.
InPlace == cur.read = NthBlock(ptr.read \div BLOCKSIZE)

=============================================================================
