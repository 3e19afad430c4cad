------------------------------- MODULE Digest -------------------------------
(***************************************************************************)
(* MD5 (src/utils/md5.cpp) and SHA1 (src/utils/sha1.cpp) as what they feed *)
(* to the block transformation: bytes are buffered, padded and followed by *)
(* the length.  The transformation itself stands for its arguments, all    *)
(* the blocks so far.  Block, length field and word are scaled down.       *)
(***************************************************************************)
EXTENDS Text, SequencesExt

CONSTANTS
  BlockSize,     \* 64 bytes
  LenBytes,      \* 8 bytes of length at the end
  Word,          \* 2^32, the range of a counter
  Mark, Zero     \* the bytes 0x80 and 0 of the padding

PadTo == BlockSize - LenBytes
Bits(n) == (8 * n) % Word

\* Faulty variant: the carry into the high word is lost.
AddDataLenNoCarry(count, n) ==
  LET lo == (count.lo + Bits(n)) % Word
      carry == 0
  IN  [lo |-> lo, hi |-> (count.hi + carry + (8 * n) \div Word) % Word]

\* The bit count, in two words, after n more bytes, in both classes.
AddDataLen(count, n) ==
  LET lo == (count.lo + Bits(n)) % Word
      carry == IF lo < Bits(n) THEN 1 ELSE 0
  IN  [lo |-> lo, hi |-> (count.hi + carry + (8 * n) \div Word) % Word]

Zeros(n) == [i \in 1..n |-> Zero]
Blocks(s) == [i \in 1..(Len(s) \div BlockSize) |-> Sub(s, (i - 1) * BlockSize, BlockSize)]

-----------------------------------------------------------------------------
(* MD5: an object is its state, count, buffer and finalized.               *)

Md5Init == [state |-> <<>>, count |-> [lo |-> 0, hi |-> 0], buffer |-> Zeros(BlockSize), finalized |-> FALSE]

Transform(state, block) == Append(state, block)

Buffered(buffer, index, input) ==
  [i \in DOMAIN buffer |-> IF i - index \in DOMAIN input THEN input[i - index] ELSE buffer[i]]

Update(m, input) ==
  LET index == (m.count.lo \div 8) % BlockSize
      firstpart == BlockSize - index
      filled == Buffered(m.buffer, index, Sub(input, 0, firstpart))
      whole == firstpart + ((Len(input) - firstpart) \div BlockSize) * BlockSize
      counted == [m EXCEPT !.count = AddDataLen(m.count, Len(input))]
  IN  IF Len(input) < firstpart THEN [counted EXCEPT !.buffer = filled]
      ELSE [counted EXCEPT
              !.state = FoldLeft(Transform, Transform(@, filled), Blocks(Sub(input, firstpart, whole - firstpart))),
              !.buffer = Buffered(filled, 0, From(input, whole))]

\* The length field, of a byte for a word here: the low word first.
Md5Length(count) == <<count.lo, count.hi>>
Finalize(m) ==
  LET bits == Md5Length(m.count)
      index == (m.count.lo \div 8) % BlockSize
      padLen == IF index < PadTo THEN PadTo - index ELSE BlockSize + PadTo - index
      padded == Update(m, <<Mark>> \o Zeros(padLen - 1))
  IN  IF m.finalized THEN m
      ELSE [Md5Init EXCEPT !.state = Update(padded, bits).state, !.finalized = TRUE]
Hexdigest(m) == IF m.finalized THEN m.state ELSE <<>>
Md5(chunks) == Hexdigest(Finalize(FoldLeft(Update, Md5Init, chunks)))

-----------------------------------------------------------------------------
(* SHA1: the whole message at once.                                        *)

ShaLength(count) == <<count.hi, count.lo>>

\* PadMessage, of the block that holds the last n bytes.  Behind a block that
\* had no room for the length the index stays at the end of the block: the
\* second one is not cleared.
PadMessage(block, n, length) ==
  LET marked == Buffered(block, n, <<Mark>> \o Zeros(BlockSize - n - 1))
  IN  IF n >= PadTo THEN <<marked, Buffered(marked, PadTo, length)>>
      ELSE <<Buffered(marked, PadTo, length)>>

ShaGo(input) ==
  LET whole == (Len(input) \div BlockSize) * BlockSize
      rest == From(input, whole)
      count == FoldLeft(AddDataLen, [lo |-> 0, hi |-> 0], [i \in 1..(Len(input) \div BlockSize) |-> BlockSize])
  IN  Blocks(Sub(input, 0, whole))
        \o PadMessage(Buffered(Zeros(BlockSize), 0, rest), Len(rest), ShaLength(AddDataLen(count, Len(rest))))

-----------------------------------------------------------------------------
\* The standards: the message, a mark, as few zeros as fill the block up to the
\* length, the length in bits.
Padded(input, length) ==
  LET zeros == CHOOSE k \in 0..(BlockSize - 1) : (Len(input) + 1 + k + LenBytes) % BlockSize = 0
  IN  Blocks(input \o <<Mark>> \o Zeros(zeros) \o length)
BitLength(n) == [lo |-> (8 * n) % Word, hi |-> ((8 * n) \div Word) % Word]
=============================================================================
