--------------------------- MODULE NetQueueProofs ---------------------------
(***************************************************************************)
(* Proofs about NetQueue, for every number of threads, every length of the *)
(* ring and of the prefix and every set of messages: first the types, then *)
(* that no message is torn, misread or overwritten although pushers and    *)
(* poppers share no lock, and last what this means for the callers.        *)
(***************************************************************************)
EXTENDS NetQueue, Arithmetic, SequenceTheorems

-----------------------------------------------------------------------------
(* The inductive invariant *)

\* Whoever is inside Push holds m_wmutex, if there is one, and has a message.
WriterInv ==
  \A p \in Producers : ppc[p] # "idle" =>
    /\ WLock => wowner = p
    /\ pdata[p] \in Messages

\* m_tail is out of the ring only between the two stores of the writer, and
\* nobody else moves it between EnQueue's test and its store.
TailInv ==
  /\ tail = N => \E p \in Producers : ppc[p] = "wrap"
  /\ \A p \in Producers : ppc[p] \in {"copy", "tail"} =>
       ptail[p] = tail /\ TotalLen(pdata[p]) < N

\* Whoever is inside DeQueue holds m_rmutex, if there is one.
ReaderInv ==
  \A c \in Consumers : cpc[c] \notin {"idle", "lock"} => (RLock => rowner = c)

\* The mirror image of TailInv, and what the assertion has established.
HeadInv ==
  /\ head = N => \E c \in Consumers : cpc[c] = "wrap"
  /\ \A c \in Consumers : cpc[c] \in {"header", "copy", "head"} => chead[c] = head
  /\ \A c \in Consumers : cpc[c] \in {"copy", "head"} => clen[c] + H <= cused[c]

IInv == TypeOK /\ WriterInv /\ TailInv /\ ReaderInv /\ HeadInv

-----------------------------------------------------------------------------
(* Lemmas about the operators *)

\* Sequences of a given length, as functions and glued together.
LEMMA SeqOfLength ==
  ASSUME NEW S, NEW s \in Seq(S), NEW t \in Seq(S), NEW n \in Nat,
         Len(s) + Len(t) = n
  PROVE  s \o t \in [1 .. n -> S]
<1>1. s \o t \in Seq(S) /\ Len(s \o t) = n
  BY ConcatProperties
<1> QED
  BY <1>1, LenProperties

\* memcpy leaves a ring of bytes a ring of bytes.
LEMMA MemcpyType ==
  ASSUME NEW b \in [Cells -> Byte], NEW dst \in Int, NEW s \in Seq(Byte)
  PROVE  Memcpy(b, dst, s) \in [Cells -> Byte]
BY DEF Memcpy

\* Reading k cells inside the ring gives k bytes.
LEMMA SliceType ==
  ASSUME NEW b \in [Cells -> Byte], NEW from \in Nat, NEW k \in Nat,
         from + k <= N
  PROVE  /\ Slice(b, from, k) \in Seq(Byte)
         /\ Len(Slice(b, from, k)) = k
<1>1. Slice(b, from, k) \in [1 .. k -> Byte]
  BY ConstantsAssumption DEF Slice, Cells
<1> QED
  BY <1>1

\* The prefix of a message is a sequence of H bytes.
LEMMA HeaderType ==
  ASSUME NEW m \in Messages
  PROVE  /\ Header(Len(m)) \in Seq(Byte)
         /\ Len(Header(Len(m))) = H
<1>1. Header(Len(m)) \in [1 .. H -> Byte]
  BY HeaderAssumption
<1> QED
  BY <1>1, ConstantsAssumption

\* Writing a message that fits leaves a ring of bytes.
LEMMA StoreType ==
  ASSUME NEW b \in [Cells -> Byte], NEW tl \in Cells, NEW m \in Messages,
         TotalLen(m) < N
  PROVE  Store(b, tl, m) \in [Cells -> Byte]
<1> DEFINE hdr      == Header(Len(m))
           tail_len == N - tl
           first    == tail_len - H
           second   == H - tail_len
<1>1. /\ m \in Seq(Byte) /\ hdr \in Seq(Byte) /\ Len(hdr) = H
      /\ N \in Nat /\ H \in Nat /\ tl \in Nat /\ tl < N
  BY HeaderType, ConstantsAssumption DEF Cells
<1>2. CASE tail_len >= TotalLen(m)
  <2> DEFINE b1 == Memcpy(b, tl, hdr)
             b2 == Memcpy(b1, tl + H, m)
  <2>1. b1 \in [Cells -> Byte]
    BY <1>1, MemcpyType
  <2>2. b2 \in [Cells -> Byte]
    <3> HIDE DEF b1
    <3> QED BY <1>1, <2>1, MemcpyType
  <2>3. Store(b, tl, m) = b2
    BY <1>2 DEF Store
  <2> QED
    BY <2>2, <2>3
<1>3. CASE tail_len < TotalLen(m) /\ tail_len >= H
  <2> DEFINE m1 == SubSeq(m, 1, first)
             m2 == SubSeq(m, first + 1, Len(m))
             b1 == Memcpy(b, tl, hdr)
             b2 == Memcpy(b1, tl + H, m1)
             b3 == Memcpy(b2, 0, m2)
  <2>1. m1 \in Seq(Byte) /\ m2 \in Seq(Byte)
    BY <1>1, <1>3, SubSeqProperties DEF TotalLen
  <2>2. b1 \in [Cells -> Byte]
    BY <1>1, MemcpyType
  <2>3. b2 \in [Cells -> Byte]
    <3> HIDE DEF b1, m1
    <3> QED BY <1>1, <2>1, <2>2, MemcpyType
  <2>4. b3 \in [Cells -> Byte]
    <3> HIDE DEF b2, m2
    <3> QED BY <2>1, <2>3, MemcpyType
  <2>5. Store(b, tl, m) = b3
    BY <1>1, <1>3 DEF Store, TotalLen
  <2> QED
    BY <2>4, <2>5
<1>4. CASE tail_len < H
  <2> DEFINE h1 == SubSeq(hdr, 1, tail_len)
             h2 == SubSeq(hdr, tail_len + 1, H)
             b1 == Memcpy(b, tl, h1)
             b2 == Memcpy(b1, 0, h2)
             b3 == Memcpy(b2, second, m)
  <2>1. h1 \in Seq(Byte) /\ h2 \in Seq(Byte)
    <3> HIDE DEF hdr
    <3> QED BY <1>1, <1>4, SubSeqProperties
  <2>2. b1 \in [Cells -> Byte]
    <3> HIDE DEF h1
    <3> QED BY <1>1, <2>1, MemcpyType
  <2>3. b2 \in [Cells -> Byte]
    <3> HIDE DEF b1, h2
    <3> QED BY <2>1, <2>2, MemcpyType
  <2>4. b3 \in [Cells -> Byte]
    <3> HIDE DEF b2
    <3> QED BY <1>1, <2>3, MemcpyType
  <2>5. Store(b, tl, m) = b3
    BY <1>1, <1>4 DEF Store, TotalLen
  <2> QED
    BY <2>4, <2>5
<1> QED
  BY <1>1, <1>2, <1>3, <1>4 DEF TotalLen

\* The tail behind a message that fits is at most one cell out of the ring.
LEMMA EndOfRange ==
  ASSUME NEW tl \in Cells, NEW m \in Messages, TotalLen(m) < N
  PROVE  EndOf(tl, m) \in 0 .. N
<1>1. Len(m) \in Nat /\ N \in Nat /\ H \in Nat
  BY ConstantsAssumption
<1> QED
  BY <1>1 DEF EndOf, TotalLen, Cells

\* What is read as a prefix is H bytes, wherever in the ring it starts.
LEMMA ReadHeaderType ==
  ASSUME NEW b \in [Cells -> Byte], NEW hd \in Cells
  PROVE  ReadHeader(b, hd) \in [1 .. H -> Byte]
<1>1. N \in Nat /\ H \in Nat /\ H < N /\ hd \in Nat /\ hd < N
  BY ConstantsAssumption DEF Cells
<1>2. CASE hd + H >= N
  <2> DEFINE s1 == Slice(b, hd, N - hd)
             s2 == Slice(b, 0, H - (N - hd))
  <2>0. /\ N - hd \in Nat /\ hd + (N - hd) <= N
        /\ H - (N - hd) \in Nat /\ 0 + (H - (N - hd)) <= N
    BY <1>1, <1>2
  <2>1. s1 \in Seq(Byte) /\ Len(s1) = N - hd
    <3>1. hd \in Nat
      BY <1>1
    <3> HIDE DEF s1
    <3> QED BY <3>1, <2>0, SliceType DEF s1
  <2>2. s2 \in Seq(Byte) /\ Len(s2) = H - (N - hd)
    BY <2>0, SliceType
  <2>3. ReadHeader(b, hd) = s1 \o s2
    BY <1>2 DEF ReadHeader
  <2>4. Len(s1) + Len(s2) = H
    <3> HIDE DEF s1, s2
    <3> QED BY <1>1, <2>1, <2>2
  <2> HIDE DEF s1, s2
  <2> QED
    <3>1. s1 \in Seq(Byte) /\ s2 \in Seq(Byte) /\ H \in Nat
      BY <1>1, <2>1, <2>2
    <3>2. s1 \o s2 \in [1 .. H -> Byte]
      BY ONLY <3>1, <2>4, SeqOfLength
    <3> QED
      BY <2>3, <3>2
<1>3. CASE hd + H < N
  <2>1. Slice(b, hd, H) \in Seq(Byte) /\ Len(Slice(b, hd, H)) = H
    BY <1>1, <1>3, SliceType
  <2> QED
    BY <1>1, <1>3, <2>1 DEF ReadHeader
<1> QED
  BY <1>1, <1>2, <1>3

LEMMA AfterHeaderRange ==
  ASSUME NEW hd \in Cells
  PROVE  AfterHeader(hd) \in Cells
BY ConstantsAssumption DEF AfterHeader, Cells

\* A length that passed the assertion keeps the read inside the ring.
LEMMA ReadDataType ==
  ASSUME NEW b \in [Cells -> Byte], NEW k \in Cells, NEW len \in Nat,
         len + H <= N
  PROVE  /\ ReadData(b, k, len) \in Seq(Byte)
         /\ AfterData(k, len) \in 0 .. N
<1>1. N \in Nat /\ H \in Nat /\ k \in Nat /\ k < N
  BY ConstantsAssumption DEF Cells
<1>2. CASE k + len <= N
  <2>1. Slice(b, k, len) \in Seq(Byte)
    BY <1>1, <1>2, SliceType
  <2> QED
    BY <1>1, <1>2, <2>1 DEF ReadData, AfterData
<1>3. CASE k + len > N
  <2>1. Slice(b, k, N - k) \in Seq(Byte)
    BY <1>1, SliceType
  <2>2. Slice(b, 0, len - (N - k)) \in Seq(Byte)
    BY <1>1, <1>3, SliceType
  <2>3. Slice(b, k, N - k) \o Slice(b, 0, len - (N - k)) \in Seq(Byte)
    BY <2>1, <2>2
  <2> QED
    BY <1>1, <1>3, <2>3 DEF ReadData, AfterData
<1> QED
  BY <1>1, <1>2, <1>3

-----------------------------------------------------------------------------
(* At most one thread on either side *)

LEMMA OneWriter ==
  ASSUME WriterInv, NEW p \in Producers, NEW q \in Producers,
         ppc[p] # "idle", ppc[q] # "idle"
  PROVE  p = q
BY LockAssumption, ConstantsAssumption DEF WriterInv

LEMMA OneReader ==
  ASSUME ReaderInv, NEW c \in Consumers, NEW d \in Consumers,
         cpc[c] \notin {"idle", "lock"}, cpc[d] \notin {"idle", "lock"}
  PROVE  c = d
BY LockAssumption, ConstantsAssumption DEF ReaderInv

-----------------------------------------------------------------------------
(* The invariant is inductive *)

LEMMA InitInv == Init => IInv
<1> SUFFICES ASSUME Init PROVE IInv
  OBVIOUS
<1>1. TypeOK
  BY ConstantsAssumption DEF Init, TypeOK, Cells, Byte, PpcSet, CpcSet
<1> QED
  BY <1>1, ConstantsAssumption DEF Init, IInv, WriterInv, TailInv, ReaderInv, HeadInv

\* The steps of Push.
LEMMA PushInv ==
  ASSUME IInv, NEW p \in Producers,
         (\E m \in Messages : PushCall(p, m)) \/ PushStep(p)
  PROVE  IInv'
<1> USE ConstantsAssumption
<1>1. TypeOK /\ WriterInv /\ TailInv /\ ReaderInv /\ HeadInv
  BY DEF IInv
<1>2. \A q \in Producers : ppc[p] # "idle" /\ ppc[q] # "idle" => q = p
  BY <1>1, OneWriter
<1>3. CASE \E m \in Messages : PushCall(p, m)
  <2> PICK m \in Messages : PushCall(p, m)
    BY <1>3
  <2>1. TypeOK'
    BY <1>1 DEF TypeOK, PushCall, PpcSet, consVars
  <2>2. WriterInv' /\ TailInv'
    BY <1>1, LockAssumption DEF TypeOK, WriterInv, TailInv, PushCall, TotalLen
  <2>3. ReaderInv' /\ HeadInv'
    BY <1>1 DEF ReaderInv, HeadInv, PushCall, consVars
  <2> QED
    BY <2>1, <2>2, <2>3 DEF IInv
<1>4. CASE EnQueueFull(p)
  <2>1. TypeOK'
    <3>1. /\ ppc' \in [Producers -> PpcSet]
          /\ pdata' \in [Producers -> Messages \cup {<<>>}]
          /\ ptail' \in [Producers -> Cells]
          /\ wowner' \in Producers \cup {None}
      <4>1. 0 \in Cells
        BY DEF Cells
      <4>2. ppc' \in [Producers -> PpcSet]
        BY <1>1, <1>4 DEF TypeOK, EnQueueFull, PushReturn, PpcSet
      <4>3. pdata' \in [Producers -> Messages \cup {<<>>}]
        BY <1>1, <1>4 DEF TypeOK, EnQueueFull, PushReturn
      <4>4. ptail' \in [Producers -> Cells]
        BY <1>1, <1>4, <4>1 DEF TypeOK, EnQueueFull, PushReturn
      <4>5. wowner' \in Producers \cup {None}
        BY <1>1, <1>4 DEF TypeOK, EnQueueFull, PushReturn
      <4> QED
        BY <4>2, <4>3, <4>4, <4>5
    <3> QED
      BY <1>1, <1>4, <3>1 DEF TypeOK, EnQueueFull, consVars
  <2>2. WriterInv' /\ TailInv'
    BY <1>1, <1>2, <1>4 DEF TypeOK, WriterInv, TailInv, EnQueueFull, PushReturn, TotalLen
  <2>3. ReaderInv' /\ HeadInv'
    BY <1>1, <1>4 DEF ReaderInv, HeadInv, EnQueueFull, consVars
  <2> QED
    BY <2>1, <2>2, <2>3 DEF IInv
<1>5. CASE EnQueueFits(p)
  <2>1. tail \in Cells
    <3>1. tail # N
      BY <1>1, <1>2, <1>5, Zenon DEF TailInv, EnQueueFits
    <3>2. tail \in 0 .. N
      BY <1>1 DEF TypeOK
    <3> QED
      BY <3>1, <3>2 DEF Cells
  <2>2. TotalLen(pdata[p]) < N
    <3>1. pdata[p] \in Messages
      BY <1>1, <1>5 DEF WriterInv, EnQueueFits
    <3>2. TotalLen(pdata[p]) \in Nat
      BY <3>1 DEF TotalLen
    <3>3. FreeLen(head, tail) <= N
      BY <1>1, <2>1 DEF TypeOK, FreeLen, Cells
    <3>4. FreeLen(head, tail) > TotalLen(pdata[p]) /\ FreeLen(head, tail) \in Int
      BY <1>1, <1>5 DEF EnQueueFits, TypeOK, FreeLen
    <3> QED
      BY <3>2, <3>3, <3>4
  <2>3. TypeOK'
    BY <1>1, <1>5, <2>1 DEF TypeOK, EnQueueFits, PpcSet, consVars
  <2>4. WriterInv' /\ TailInv'
    BY <1>1, <1>2, <1>5, <2>1, <2>2 DEF TypeOK, WriterInv, TailInv, EnQueueFits, TotalLen, Cells
  <2>5. ReaderInv' /\ HeadInv'
    BY <1>1, <1>5 DEF ReaderInv, HeadInv, EnQueueFits, consVars
  <2> QED
    BY <2>3, <2>4, <2>5 DEF IInv
<1>6. CASE EnQueueCopy(p)
  <2>1. /\ pdata[p] \in Messages /\ ptail[p] \in Cells
        /\ buffer \in [Cells -> Byte] /\ TotalLen(pdata[p]) < N
    BY <1>1, <1>6 DEF TypeOK, WriterInv, TailInv, EnQueueCopy
  <2>2. buffer' \in [Cells -> Byte]
    BY <1>6, <2>1, StoreType DEF EnQueueCopy
  <2>3. TypeOK'
    BY <1>1, <1>6, <2>2 DEF TypeOK, EnQueueCopy, PpcSet, consVars
  <2>4. WriterInv' /\ TailInv'
    BY <1>1, <1>2, <1>6 DEF TypeOK, WriterInv, TailInv, EnQueueCopy, TotalLen
  <2>5. ReaderInv' /\ HeadInv'
    BY <1>1, <1>6 DEF ReaderInv, HeadInv, EnQueueCopy, consVars
  <2> QED
    BY <2>3, <2>4, <2>5 DEF IInv
<1>7. CASE EnQueueTail(p)
  <2>1. /\ pdata[p] \in Messages /\ ptail[p] \in Cells
        /\ TotalLen(pdata[p]) < N
    BY <1>1, <1>7 DEF TypeOK, WriterInv, TailInv, EnQueueTail
  <2>2. EndOf(ptail[p], pdata[p]) \in 0 .. N
    BY <2>1, EndOfRange
  <2>3. tail' \in 0 .. N
    BY <1>7, <2>2 DEF EnQueueTail, Wrap
  <2>4. fifo' \in Seq([pos : Cells, data : Messages])
    BY <1>1, <1>7, <2>1 DEF TypeOK, EnQueueTail
  <2>5. TypeOK'
    BY <1>1, <1>7, <2>3, <2>4 DEF TypeOK, EnQueueTail, PpcSet, consVars
  <2>6. WriterInv' /\ TailInv'
    BY <1>1, <1>2, <1>7 DEF TypeOK, WriterInv, TailInv, EnQueueTail, TotalLen
  <2>7. ReaderInv' /\ HeadInv'
    BY <1>1, <1>7 DEF ReaderInv, HeadInv, EnQueueTail, consVars
  <2> QED
    BY <2>5, <2>6, <2>7 DEF IInv
<1>8. CASE EnQueueWrap(p)
  <2>1. tail' \in 0 .. N /\ tail' # N
    BY <1>1, <1>8 DEF TypeOK, EnQueueWrap, Wrap
  <2>2. TypeOK'
    BY <1>1, <1>8, <2>1 DEF TypeOK, EnQueueWrap, PpcSet, consVars
  <2>3. WriterInv' /\ TailInv'
    BY <1>1, <1>2, <1>8, <2>1 DEF TypeOK, WriterInv, TailInv, EnQueueWrap, TotalLen
  <2>4. ReaderInv' /\ HeadInv'
    BY <1>1, <1>8 DEF ReaderInv, HeadInv, EnQueueWrap, consVars
  <2> QED
    BY <2>2, <2>3, <2>4 DEF IInv
<1>9. CASE EnQueueNotify(p)
  <2>1. TypeOK'
    BY <1>1, <1>9 DEF TypeOK, EnQueueNotify, PpcSet, consVars
  <2>2. WriterInv' /\ TailInv'
    BY <1>1, <1>2, <1>9 DEF TypeOK, WriterInv, TailInv, EnQueueNotify, TotalLen
  <2>3. ReaderInv' /\ HeadInv'
    BY <1>1, <1>9 DEF ReaderInv, HeadInv, EnQueueNotify, consVars
  <2> QED
    BY <2>1, <2>2, <2>3 DEF IInv
<1>10. CASE PushDone(p)
  <2>1. TypeOK'
    BY <1>1, <1>10 DEF TypeOK, PushDone, PushReturn, Incr, PpcSet, Cells, consVars
  <2>2. WriterInv' /\ TailInv'
    BY <1>1, <1>2, <1>10 DEF TypeOK, WriterInv, TailInv, PushDone, PushReturn, TotalLen
  <2>3. ReaderInv' /\ HeadInv'
    BY <1>1, <1>10 DEF ReaderInv, HeadInv, PushDone, consVars
  <2> QED
    BY <2>1, <2>2, <2>3 DEF IInv
<1> QED
  BY <1>3, <1>4, <1>5, <1>6, <1>7, <1>8, <1>9, <1>10 DEF PushStep

\* The steps of Pop.
LEMMA PopInv ==
  ASSUME IInv, NEW c \in Consumers,
         (\E n \in BufSizes : PopCall(c, n)) \/ PopStep(c)
  PROVE  IInv'
<1> USE ConstantsAssumption
<1>1. TypeOK /\ WriterInv /\ TailInv /\ ReaderInv /\ HeadInv
  BY DEF IInv
<1>2. \A d \in Consumers :
        cpc[c] \notin {"idle", "lock"} /\ cpc[d] \notin {"idle", "lock"} => d = c
  BY <1>1, OneReader
<1>3. UNCHANGED <<tail, prodVars>> => WriterInv' /\ TailInv'
  BY <1>1 DEF WriterInv, TailInv, prodVars
<1>4. CASE \E n \in BufSizes : PopCall(c, n)
  <2> PICK n \in BufSizes : PopCall(c, n)
    BY <1>4
  <2>1. TypeOK'
    BY <1>1 DEF TypeOK, PopCall, CpcSet, prodVars
  <2>2. ReaderInv' /\ HeadInv'
    BY <1>1 DEF TypeOK, ReaderInv, HeadInv, PopCall
  <2> QED
    BY <1>3, <2>1, <2>2 DEF IInv, PopCall
<1>5. CASE PopLock(c)
  <2>1. TypeOK'
    BY <1>1, <1>5 DEF TypeOK, PopLock, CpcSet, prodVars
  <2>2. ReaderInv' /\ HeadInv'
    BY <1>1, <1>5, LockAssumption DEF TypeOK, ReaderInv, HeadInv, PopLock
  <2> QED
    BY <1>3, <1>5, <2>1, <2>2 DEF IInv, PopLock
<1>6. CASE DeQueueEmpty(c)
  <2>1. TypeOK'
    BY <1>1, <1>6 DEF TypeOK, DeQueueEmpty, CpcSet, prodVars
  <2>2. ReaderInv' /\ HeadInv'
    BY <1>1, <1>6 DEF TypeOK, ReaderInv, HeadInv, DeQueueEmpty
  <2> QED
    BY <1>3, <1>6, <2>1, <2>2 DEF IInv, DeQueueEmpty
\* What PopReturn does to the types and to the invariants, for all its callers.
<1>7. ASSUME PopReturn(c), cpc[c] \notin {"idle", "lock", "wrap"}, head' = head
      PROVE  ReaderInv' /\ HeadInv'
  BY <1>1, <1>2, <1>7 DEF TypeOK, ReaderInv, HeadInv, PopReturn
<1>8. ASSUME PopReturn(c)
      PROVE  /\ rowner' \in Consumers \cup {None}
             /\ cpc' \in [Consumers -> CpcSet]
             /\ csize' \in [Consumers -> BufSizes \cup {0}]
             /\ chead' \in [Consumers -> Cells]
             /\ cused' \in [Consumers -> 0 .. N]
             /\ clen' \in [Consumers -> Nat]
             /\ cbuf' \in [Consumers -> Seq(Byte)]
  <2>1. 0 \in Cells /\ 0 \in 0 .. N /\ <<>> \in Seq(Byte)
    BY DEF Cells
  <2>2. rowner' \in Consumers \cup {None} /\ cpc' \in [Consumers -> CpcSet]
    BY <1>1, <1>8 DEF TypeOK, PopReturn, CpcSet
  <2>3. csize' \in [Consumers -> BufSizes \cup {0}]
    BY <1>1, <1>8 DEF TypeOK, PopReturn
  <2>4. chead' \in [Consumers -> Cells]
    BY <1>1, <1>8, <2>1 DEF TypeOK, PopReturn
  <2>5. cused' \in [Consumers -> 0 .. N]
    BY <1>1, <1>8, <2>1 DEF TypeOK, PopReturn
  <2>6. clen' \in [Consumers -> Nat]
    BY <1>1, <1>8 DEF TypeOK, PopReturn
  <2>7. cbuf' \in [Consumers -> Seq(Byte)]
    BY <1>1, <1>8, <2>1 DEF TypeOK, PopReturn
  <2> QED
    BY <2>2, <2>3, <2>4, <2>5, <2>6, <2>7
<1>9. CASE DeQueueEmptyReturn(c)
  <2>1. TypeOK'
    <3>1. pipe' \in 0 .. PipeCap
      BY <1>1, <1>9 DEF TypeOK, DeQueueEmptyReturn
    <3> QED
      BY <1>1, <1>8, <1>9, <3>1 DEF TypeOK, DeQueueEmptyReturn, prodVars
  <2> QED
    BY <1>3, <1>7, <1>9, <2>1 DEF IInv, DeQueueEmptyReturn
<1>10. CASE DeQueueTiny(c)
  <2>1. TypeOK'
    BY <1>1, <1>8, <1>10 DEF TypeOK, DeQueueTiny, prodVars
  <2> QED
    BY <1>3, <1>7, <1>10, <2>1 DEF IInv, DeQueueTiny
<1>11. CASE DeQueueTooLong(c)
  <2>1. TypeOK'
    BY <1>1, <1>8, <1>11 DEF TypeOK, DeQueueTooLong, prodVars
  <2> QED
    BY <1>3, <1>7, <1>11, <2>1 DEF IInv, DeQueueTooLong
<1>12. CASE PopDone(c)
  <2>1. TypeOK'
    <3>1. pipe' \in 0 .. PipeCap
      BY <1>1, <1>12 DEF TypeOK, PopDone
    <3>2. dequeue_num' \in 0 .. CountMod - 1
      BY <1>1, <1>12 DEF TypeOK, PopDone, Incr
    <3> QED
      BY <1>1, <1>8, <1>12, <3>1, <3>2 DEF TypeOK, PopDone, prodVars
  <2> QED
    BY <1>3, <1>7, <1>12, <2>1 DEF IInv, PopDone
<1>13. CASE DeQueueCursors(c)
  <2>1. head \in Cells
    <3>1. head # N
      BY <1>1, <1>2, <1>13, Zenon DEF HeadInv, DeQueueCursors
    <3> QED
      BY <1>1, <3>1 DEF TypeOK, Cells
  <2>2. UsedLen(head, tail) \in 0 .. N
    BY <1>1, <2>1 DEF TypeOK, UsedLen, Cells
  <2>3. TypeOK'
    BY <1>1, <1>13, <2>1, <2>2 DEF TypeOK, DeQueueCursors, CpcSet, prodVars
  <2>4. ReaderInv' /\ HeadInv'
    BY <1>1, <1>2, <1>13 DEF TypeOK, ReaderInv, HeadInv, DeQueueCursors
  <2> QED
    BY <1>3, <1>13, <2>3, <2>4 DEF IInv, DeQueueCursors
<1>14. CASE DeQueueHeader(c)
  <2> DEFINE len == LengthOf(ReadHeader(buffer, chead[c]))
  <2>1. len \in Nat
    <3>1. ReadHeader(buffer, chead[c]) \in [1 .. H -> Byte]
      BY <1>1, ReadHeaderType DEF TypeOK
    <3> QED
      BY <3>1, HeaderAssumption
  <2>2. /\ clen' = [clen EXCEPT ![c] = len]
        /\ cpc' = [cpc EXCEPT ![c] = IF cused[c] >= len + H THEN "copy" ELSE "abort"]
    BY <1>14 DEF DeQueueHeader
  <2> HIDE DEF len
  <2>3. TypeOK'
    BY <1>1, <1>14, <2>1, <2>2 DEF TypeOK, DeQueueHeader, CpcSet, prodVars
  <2>4. ReaderInv' /\ HeadInv'
    BY <1>1, <1>2, <1>14, <2>1, <2>2 DEF TypeOK, ReaderInv, HeadInv, DeQueueHeader
  <2> QED
    BY <1>3, <1>14, <2>3, <2>4 DEF IInv, DeQueueHeader
<1>15. CASE DeQueueCopy(c)
  <2> DEFINE data == ReadData(buffer, AfterHeader(chead[c]), clen[c])
  <2>1. data \in Seq(Byte)
    <3>1. AfterHeader(chead[c]) \in Cells
      BY <1>1, AfterHeaderRange DEF TypeOK
    <3>2. clen[c] \in Nat /\ clen[c] + H <= N
      BY <1>1, <1>15 DEF TypeOK, HeadInv, DeQueueCopy
    <3>3. buffer \in [Cells -> Byte]
      BY <1>1 DEF TypeOK
    <3> QED
      BY <3>1, <3>2, <3>3, ReadDataType
  <2>2. cbuf' = [cbuf EXCEPT ![c] = data]
    BY <1>15 DEF DeQueueCopy
  <2> HIDE DEF data
  <2>3. TypeOK'
    BY <1>1, <1>15, <2>1, <2>2 DEF TypeOK, DeQueueCopy, CpcSet, prodVars
  <2>4. ReaderInv' /\ HeadInv'
    BY <1>1, <1>2, <1>15 DEF TypeOK, ReaderInv, HeadInv, DeQueueCopy
  <2> QED
    BY <1>3, <1>15, <2>3, <2>4 DEF IInv, DeQueueCopy
<1>16. CASE DeQueueHead(c)
  <2> DEFINE end == AfterData(AfterHeader(chead[c]), clen[c])
  <2>1. end \in 0 .. N
    <3>1. AfterHeader(chead[c]) \in Cells
      BY <1>1, AfterHeaderRange DEF TypeOK
    <3>2. clen[c] \in Nat /\ clen[c] + H <= N
      BY <1>1, <1>16 DEF TypeOK, HeadInv, DeQueueHead
    <3>3. buffer \in [Cells -> Byte]
      BY <1>1 DEF TypeOK
    <3> QED
      BY <3>1, <3>2, <3>3, ReadDataType
  <2>2. head' = IF SplitStores THEN end ELSE Wrap(end)
    BY <1>16 DEF DeQueueHead
  <2> HIDE DEF end
  <2>3. head' \in 0 .. N
    BY <2>1, <2>2 DEF Wrap
  <2>4. fifo' \in Seq([pos : Cells, data : Messages])
    <3>1. fifo \in Seq([pos : Cells, data : Messages])
      BY <1>1 DEF TypeOK
    <3>2. fifo # <<>> => Tail(fifo) \in Seq([pos : Cells, data : Messages])
      BY <3>1, HeadTailProperties
    <3> QED
      BY <1>16, <3>1, <3>2 DEF DeQueueHead
  <2>5. TypeOK'
    BY <1>1, <1>16, <2>3, <2>4 DEF TypeOK, DeQueueHead, CpcSet, prodVars
  <2>6. ReaderInv' /\ HeadInv'
    BY <1>1, <1>2, <1>16 DEF TypeOK, ReaderInv, HeadInv, DeQueueHead
  <2> QED
    BY <1>3, <1>16, <2>5, <2>6 DEF IInv, DeQueueHead
<1>17. CASE DeQueueWrap(c)
  <2>1. head' \in 0 .. N /\ head' # N
    BY <1>1, <1>17 DEF TypeOK, DeQueueWrap, Wrap
  <2>2. TypeOK'
    BY <1>1, <1>17, <2>1 DEF TypeOK, DeQueueWrap, CpcSet, prodVars
  <2>3. ReaderInv' /\ HeadInv'
    BY <1>1, <1>2, <1>17, <2>1 DEF TypeOK, ReaderInv, HeadInv, DeQueueWrap
  <2> QED
    BY <1>3, <1>17, <2>2, <2>3 DEF IInv, DeQueueWrap
<1> QED
  BY <1>4, <1>5, <1>6, <1>9, <1>10, <1>11, <1>12, <1>13, <1>14, <1>15, <1>16, <1>17
     DEF PopStep

LEMMA StepInv == IInv /\ [Next]_vars => IInv'
<1> SUFFICES ASSUME IInv, [Next]_vars PROVE IInv'
  OBVIOUS
<1>1. CASE Next
  BY <1>1, PushInv, PopInv DEF Next
<1>2. CASE UNCHANGED vars
  BY <1>2 DEF IInv, TypeOK, WriterInv, TailInv, ReaderInv, HeadInv, vars,
              prodVars, consVars
<1> QED
  BY <1>1, <1>2

THEOREM Invariance == Spec => []IInv
BY InitInv, StepInv, PTL DEF Spec

-----------------------------------------------------------------------------
(* What follows *)

\* The state keeps its types: the cursors stay on the ring, also while the
\* compiler's two stores to them are half done, and everything that is copied
\* in or out is a sequence of bytes of the ring (net_queue.cc:57-149).
THEOREM TypeCorrect == Spec => []TypeOK
BY Invariance, PTL DEF IInv

-----------------------------------------------------------------------------
(* The ring *)

\* When the compiler splits the store to a cursor from its wrap, the queue is
\* for one consumer that pops once per epoll event.
SafeUse == SplitStores => ~Polling /\ \A c, d \in Consumers : c = d

-----------------------------------------------------------------------------
(* What is in the cells *)

\* Byte k of a stored message: its prefix, then its data.
ByteOf(m, k) == IF k < H THEN Header(Len(m))[k + 1] ELSE m[k - H + 1]

\* The cells from offset o on hold message m.
Holds(b, o, m) == \A k \in 0 .. TotalLen(m) - 1 : b[CellAt(o, k)] = ByteOf(m, k)

LEMMA Numbers ==
  /\ N \in Nat /\ H \in Nat /\ 0 < H /\ H < N
  /\ Cells = 0 .. N - 1
  /\ \A m \in Messages : /\ m \in Seq(Byte) /\ Len(m) \in Nat /\ TotalLen(m) = Len(m) + H
                         /\ Header(Len(m)) \in Seq(Byte) /\ Len(Header(Len(m))) = H
  BY ConstantsAssumption, HeaderType DEF Cells, TotalLen

LEMMA Pieces ==
  ASSUME NEW s \in Seq(Byte), NEW n \in 0 .. Len(s)
  PROVE  /\ Len(SubSeq(s, 1, n)) = n /\ Len(SubSeq(s, n + 1, Len(s))) = Len(s) - n
         /\ \A i \in 1 .. n : SubSeq(s, 1, n)[i] = s[i]
         /\ \A i \in 1 .. Len(s) - n : SubSeq(s, n + 1, Len(s))[i] = s[n + i]
         /\ SubSeq(s, 1, n) \in Seq(Byte) /\ SubSeq(s, n + 1, Len(s)) \in Seq(Byte)
  BY SubSeqProperties

\* EnQueue puts every byte of a message into its cell, whatever the layout, and
\* leaves the other cells alone.
LEMMA StoreCell ==
  ASSUME NEW b \in [Cells -> Byte], NEW tl \in Cells, NEW m \in Messages,
         TotalLen(m) < N, NEW x \in Cells
  PROVE  LET k == IF x >= tl THEN x - tl ELSE x - tl + N
         IN  Store(b, tl, m)[x] = IF k < TotalLen(m) THEN ByteOf(m, k) ELSE b[x]
<1> DEFINE hdr      == Header(Len(m))
           tail_len == N - tl
           first    == tail_len - H
           second   == H - tail_len
           k        == IF x >= tl THEN x - tl ELSE x - tl + N
<1>1. /\ m \in Seq(Byte) /\ hdr \in Seq(Byte) /\ Len(hdr) = H
      /\ N \in Nat /\ H \in Nat /\ 0 < H /\ tl \in Nat /\ tl < N /\ x \in Nat /\ x < N
      /\ Len(m) \in Nat /\ TotalLen(m) = Len(m) + H
  BY Numbers
<1>2. CASE tail_len >= TotalLen(m)
  <2> DEFINE b1 == Memcpy(b, tl, hdr)
             b2 == Memcpy(b1, tl + H, m)
  <2>4. Store(b, tl, m) = b2
    BY <1>2 DEF Store
  <2> HIDE DEF hdr, b1, b2
  <2>1. b1 \in [Cells -> Byte]
    BY <1>1, MemcpyType DEF b1
  <2>2. b1[x] = IF x \in tl .. tl + H - 1 THEN hdr[x - tl + 1] ELSE b[x]
    BY <1>1 DEF b1, Memcpy
  <2>3. b2[x] = IF x \in (tl + H) .. (tl + H) + Len(m) - 1 THEN m[x - (tl + H) + 1] ELSE b1[x]
    BY <2>1 DEF b2, Memcpy
  <2>5. QED
    BY <1>1, <1>2, <2>2, <2>3, <2>4 DEF ByteOf, hdr
<1>3. CASE tail_len < TotalLen(m) /\ tail_len >= H
  <2> DEFINE m1 == SubSeq(m, 1, first)
             m2 == SubSeq(m, first + 1, Len(m))
             b1 == Memcpy(b, tl, hdr)
             b2 == Memcpy(b1, tl + H, m1)
             b3 == Memcpy(b2, 0, m2)
  <2>0. first \in 0 .. Len(m)
    BY <1>1, <1>3
  <2>1. m1 \in Seq(Byte) /\ m2 \in Seq(Byte) /\ Len(m1) = first /\ Len(m2) = Len(m) - first
    <3> HIDE DEF first
    <3> QED BY <1>1, <2>0, Pieces
  <2>2. /\ \A i \in 1 .. first : m1[i] = m[i]
        /\ \A i \in 1 .. Len(m) - first : m2[i] = m[first + i]
    <3> HIDE DEF first
    <3> QED BY <1>1, <2>0, Pieces
  <2>8. Store(b, tl, m) = b3
    BY <1>1, <1>3 DEF Store, TotalLen, m1, m2
  <2> HIDE DEF m1, m2, hdr, b1, b2, b3
  <2>3. b1 \in [Cells -> Byte]
    BY <1>1, MemcpyType DEF b1
  <2>4. b1[x] = IF x \in tl .. tl + H - 1 THEN hdr[x - tl + 1] ELSE b[x]
    BY <1>1 DEF b1, Memcpy
  <2>5. b2 \in [Cells -> Byte]
    <3>1. tl + H \in Int /\ m1 \in Seq(Byte) /\ b1 \in [Cells -> Byte]
      BY <1>1, <2>1, <2>3
    <3>2. Memcpy(b1, tl + H, m1) \in [Cells -> Byte]
      BY <3>1, MemcpyType
    <3>3. QED
      BY <3>2 DEF b2
  <2>6. b2[x] = IF x \in (tl + H) .. (tl + H) + first - 1 THEN m1[x - (tl + H) + 1] ELSE b1[x]
    BY <2>1, <2>3 DEF b2, Memcpy
  <2>7. b3[x] = IF x \in 0 .. 0 + (Len(m) - first) - 1 THEN m2[x - 0 + 1] ELSE b2[x]
    BY <2>1, <2>5 DEF b3, Memcpy
  <2>9. QED
    BY <1>1, <1>3, <2>0, <2>2, <2>4, <2>6, <2>7, <2>8 DEF ByteOf, hdr
<1>4. CASE tail_len < H
  <2> DEFINE h1 == SubSeq(hdr, 1, tail_len)
             h2 == SubSeq(hdr, tail_len + 1, H)
             b1 == Memcpy(b, tl, h1)
             b2 == Memcpy(b1, 0, h2)
             b3 == Memcpy(b2, second, m)
  <2>0. tail_len \in 0 .. Len(hdr)
    BY <1>1, <1>4
  <2>1. h1 \in Seq(Byte) /\ h2 \in Seq(Byte) /\ Len(h1) = tail_len /\ Len(h2) = H - tail_len
    <3> HIDE DEF hdr, tail_len
    <3> QED BY <1>1, <2>0, Pieces
  <2>2. /\ \A i \in 1 .. tail_len : h1[i] = hdr[i]
        /\ \A i \in 1 .. H - tail_len : h2[i] = hdr[tail_len + i]
    <3> HIDE DEF hdr, tail_len
    <3> QED BY <1>1, <2>0, Pieces
  <2>8. Store(b, tl, m) = b3
    BY <1>1, <1>4 DEF Store, TotalLen, h1, h2
  <2> HIDE DEF h1, h2, hdr, b1, b2, b3
  <2>3. b1 \in [Cells -> Byte]
    <3>1. tl \in Int /\ h1 \in Seq(Byte) /\ b \in [Cells -> Byte]
      BY <1>1, <2>1
    <3>2. Memcpy(b, tl, h1) \in [Cells -> Byte]
      BY <3>1, MemcpyType
    <3>3. QED
      BY <3>2 DEF b1
  <2>4. b1[x] = IF x \in tl .. tl + tail_len - 1 THEN h1[x - tl + 1] ELSE b[x]
    BY <1>1, <2>1 DEF b1, Memcpy
  <2>5. b2 \in [Cells -> Byte]
    <3>1. 0 \in Int /\ h2 \in Seq(Byte) /\ b1 \in [Cells -> Byte]
      BY <1>1, <2>1, <2>3
    <3>2. Memcpy(b1, 0, h2) \in [Cells -> Byte]
      BY <3>1, MemcpyType
    <3>3. QED
      BY <3>2 DEF b2
  <2>6. b2[x] = IF x \in 0 .. 0 + (H - tail_len) - 1 THEN h2[x - 0 + 1] ELSE b1[x]
    BY <2>1, <2>3 DEF b2, Memcpy
  <2>7. b3[x] = IF x \in second .. second + Len(m) - 1 THEN m[x - second + 1] ELSE b2[x]
    BY <2>5 DEF b3, Memcpy
  <2>9. QED
    BY <1>1, <1>4, <2>0, <2>2, <2>4, <2>6, <2>7, <2>8 DEF ByteOf, hdr
<1>5. QED
  BY <1>1, <1>2, <1>3, <1>4

\* A stretch of the ring that may go over its end, read in one or two slices.
LEMMA SliceCell ==
  ASSUME NEW b \in [Cells -> Byte], NEW from \in Nat, NEW n \in Nat, from + n <= N
  PROVE  /\ Slice(b, from, n) \in Seq(Byte) /\ Len(Slice(b, from, n)) = n
         /\ \A i \in 1 .. n : Slice(b, from, n)[i] = b[from + i - 1]
<1>1. Slice(b, from, n) \in Seq(Byte) /\ Len(Slice(b, from, n)) = n
  BY SliceType
<1>2. QED
  BY <1>1 DEF Slice

LEMMA TwoSlices ==
  ASSUME NEW b \in [Cells -> Byte], NEW s \in Cells, NEW n \in Nat, n <= N, s + n >= N
  PROVE  LET r == Slice(b, s, N - s) \o Slice(b, 0, n - (N - s))
         IN  /\ r \in Seq(Byte) /\ Len(r) = n
             /\ \A i \in 1 .. n : r[i] = b[CellAt(s, i - 1)]
<1> DEFINE s1 == Slice(b, s, N - s)
           s2 == Slice(b, 0, n - (N - s))
<1>1. /\ N \in Nat /\ s \in Nat /\ s < N /\ N - s \in Nat /\ s + (N - s) <= N
      /\ n - (N - s) \in Nat /\ 0 + (n - (N - s)) <= N
  BY Numbers
<1>2. /\ s1 \in Seq(Byte) /\ Len(s1) = N - s
      /\ \A i \in 1 .. N - s : s1[i] = b[s + i - 1]
  BY <1>1, SliceCell
<1>3. /\ s2 \in Seq(Byte) /\ Len(s2) = n - (N - s)
      /\ \A i \in 1 .. n - (N - s) : s2[i] = b[0 + i - 1]
  BY <1>1, SliceCell, ZenonT(40)
<1> HIDE DEF s1, s2
<1>4. /\ s1 \o s2 \in Seq(Byte) /\ Len(s1 \o s2) = n
      /\ \A i \in 1 .. n : (s1 \o s2)[i] = IF i <= N - s THEN s1[i] ELSE s2[i - (N - s)]
  <2>1. /\ s1 \o s2 \in Seq(Byte) /\ Len(s1 \o s2) = Len(s1) + Len(s2)
        /\ \A i \in 1 .. Len(s1) + Len(s2) :
             (s1 \o s2)[i] = IF i <= Len(s1) THEN s1[i] ELSE s2[i - Len(s1)]
    BY <1>2, <1>3, ConcatProperties
  <2>2. Len(s1) = N - s /\ Len(s1) + Len(s2) = n
    BY <1>1, <1>2, <1>3
  <2>3. ASSUME NEW i \in 1 .. n
        PROVE  (s1 \o s2)[i] = IF i <= N - s THEN s1[i] ELSE s2[i - (N - s)]
    <3>1. i \in 1 .. Len(s1) + Len(s2)
      BY <2>2
    <3>2. QED
      BY <2>1, <2>2, <3>1
  <2>4. QED
    BY <2>1, <2>2, <2>3
<1>5. ASSUME NEW i \in 1 .. n PROVE (s1 \o s2)[i] = b[CellAt(s, i - 1)]
  <2>1. CASE i <= N - s
    <3>1. (s1 \o s2)[i] = s1[i] /\ s1[i] = b[s + i - 1]
      BY <1>1, <1>2, <1>4, <2>1
    <3>2. CellAt(s, i - 1) = s + i - 1
      BY <1>1, <2>1 DEF CellAt
    <3>3. QED
      BY <3>1, <3>2
  <2>2. CASE ~(i <= N - s)
    <3>1. i - (N - s) \in 1 .. n - (N - s)
      BY <1>1, <2>2
    <3>2. (s1 \o s2)[i] = s2[i - (N - s)] /\ s2[i - (N - s)] = b[0 + (i - (N - s)) - 1]
      BY <1>1, <1>3, <1>4, <2>2, <3>1
    <3>3. CellAt(s, i - 1) = 0 + (i - (N - s)) - 1
      BY <1>1, <2>2 DEF CellAt
    <3>4. QED
      BY <3>2, <3>3
  <2>3. QED
    BY <2>1, <2>2
<1>6. QED
  BY <1>4, <1>5 DEF s1, s2

\* DeQueue reads back what the cells hold.
LEMMA ReadBack ==
  ASSUME NEW b \in [Cells -> Byte], NEW hd \in Cells, NEW m \in Messages,
         TotalLen(m) < N, Holds(b, hd, m)
  PROVE  /\ ReadHeader(b, hd) = Header(Len(m))
         /\ ReadData(b, AfterHeader(hd), Len(m)) = m
<1> DEFINE hdr == Header(Len(m))
           at  == AfterHeader(hd)
           len == Len(m)
<1>1. /\ m \in Seq(Byte) /\ hdr \in Seq(Byte) /\ Len(hdr) = H
      /\ N \in Nat /\ H \in Nat /\ 0 < H /\ H < N /\ hd \in Nat /\ hd < N
      /\ len \in Nat /\ TotalLen(m) = len + H
  BY Numbers
<1>2. at \in Cells /\ at \in Nat /\ at < N
  BY <1>1, AfterHeaderRange DEF Cells
<1>3. \A k \in 0 .. H - 1 : b[CellAt(hd, k)] = hdr[k + 1]
  BY <1>1 DEF Holds, ByteOf
<1>4. \A k \in 0 .. len - 1 : b[CellAt(at, k)] = m[k + 1]
  <2> SUFFICES ASSUME NEW k \in 0 .. len - 1 PROVE b[CellAt(at, k)] = m[k + 1]
    OBVIOUS
  <2>1. CellAt(at, k) = CellAt(hd, k + H)
    BY <1>1 DEF CellAt, AfterHeader
  <2>2. b[CellAt(hd, k + H)] = ByteOf(m, k + H)
    BY <1>1 DEF Holds
  <2>3. ByteOf(m, k + H) = m[k + 1]
    BY <1>1 DEF ByteOf
  <2>4. QED
    BY <2>1, <2>2, <2>3
<1> HIDE DEF hdr, at, len
<1>5. ReadHeader(b, hd) = hdr
  <2> DEFINE r == ReadHeader(b, hd)
  <2>1. /\ r \in Seq(Byte) /\ Len(r) = H
        /\ \A i \in 1 .. H : r[i] = b[CellAt(hd, i - 1)]
    <3>1. CASE hd + H >= N
      <4>1. r = Slice(b, hd, N - hd) \o Slice(b, 0, H - (N - hd))
        BY <3>1 DEF ReadHeader
      <4> HIDE DEF r
      <4>2. H \in Nat /\ H <= N
        BY <1>1
      <4>3. QED
        BY <3>1, <4>1, <4>2, TwoSlices
    <3>2. CASE hd + H < N
      <4>1. /\ Slice(b, hd, H) \in Seq(Byte) /\ Len(Slice(b, hd, H)) = H
            /\ \A i \in 1 .. H : Slice(b, hd, H)[i] = b[hd + i - 1]
        BY <1>1, <3>2, SliceCell
      <4>2. r = Slice(b, hd, H)
        BY <1>1, <3>2 DEF ReadHeader
      <4> HIDE DEF r
      <4>3. QED
        BY <1>1, <3>2, <4>1, <4>2 DEF CellAt
    <3>3. QED
      BY <1>1, <3>1, <3>2
  <2> HIDE DEF r
  <2>2. \A i \in 1 .. H : r[i] = hdr[i]
    BY <1>1, <1>3, <2>1
  <2>3. r = hdr
    BY <1>1, <2>1, <2>2, SeqEqual
  <2>4. QED
    BY <2>3 DEF r
<1>6. ReadData(b, at, len) = m
  <2> DEFINE r == ReadData(b, at, len)
  <2>1. /\ r \in Seq(Byte) /\ Len(r) = len
        /\ \A i \in 1 .. len : r[i] = b[CellAt(at, i - 1)]
    <3>1. CASE at + len > N
      <4>1. r = Slice(b, at, N - at) \o Slice(b, 0, len - (N - at))
        BY <1>1, <1>2, <3>1 DEF ReadData
      <4> HIDE DEF r
      <4>2. len \in Nat /\ len <= N /\ at + len >= N
        BY <1>1, <1>2, <3>1
      <4>3. QED
        BY <1>2, <4>1, <4>2, TwoSlices
    <3>2. CASE at + len <= N
      <4>1. /\ Slice(b, at, len) \in Seq(Byte) /\ Len(Slice(b, at, len)) = len
            /\ \A i \in 1 .. len : Slice(b, at, len)[i] = b[at + i - 1]
        BY <1>1, <1>2, <3>2, SliceCell, ZenonT(40)
      <4>2. r = Slice(b, at, len)
        BY <1>1, <3>2 DEF ReadData
      <4> HIDE DEF r
      <4>3. QED
        BY <1>1, <1>2, <3>2, <4>1, <4>2 DEF CellAt
    <3>3. QED
      BY <1>1, <1>2, <3>1, <3>2
  <2> HIDE DEF r
  <2>2. ASSUME NEW i \in 1 .. len PROVE r[i] = m[i]
    <3>1. i - 1 \in 0 .. len - 1 /\ (i - 1) + 1 = i
      BY <1>1
    <3>2. b[CellAt(at, i - 1)] = m[(i - 1) + 1]
      BY <1>4, <3>1
    <3>3. QED
      BY <2>1, <3>1, <3>2
  <2>3. r = m
    BY <1>1, <2>1, <2>2, SeqEqual DEF len
  <2>4. QED
    BY <2>3 DEF r
<1>7. QED
  BY <1>5, <1>6 DEF hdr, at, len

\* Both sides move their cursor to the cell behind the message.
LEMMA CursorBehind ==
  ASSUME NEW k \in Cells, NEW m \in Messages, TotalLen(m) < N
  PROVE  /\ Wrap(EndOf(k, m)) = CellAt(k, TotalLen(m))
         /\ Wrap(AfterData(AfterHeader(k), Len(m))) = CellAt(k, TotalLen(m))
<1>1. N \in Nat /\ H \in Nat /\ 0 < H /\ k \in Nat /\ k < N /\ Len(m) \in Nat
  BY Numbers
<1>2. QED
  BY <1>1 DEF Wrap, EndOf, AfterData, AfterHeader, CellAt, TotalLen

-----------------------------------------------------------------------------
(* The inductive invariant *)

\* The messages lie one behind the other from the head on, at offsets that are
\* not wrapped, and leave at least one cell free.
Laid(off) ==
  LET n == Len(fifo)
  IN  /\ off \in [1 .. n + 1 -> Nat]
      /\ off[1] = Wrap(head)
      /\ off[n + 1] < Wrap(head) + N
      /\ Wrap(tail) = CellAt(off[n + 1], 0)
      /\ \A i \in 1 .. n : /\ fifo[i].pos = CellAt(off[i], 0)
                           /\ off[i + 1] = off[i] + TotalLen(fifo[i].data)
                           /\ Holds(buffer, off[i], fifo[i].data)
      /\ \A i, j \in 1 .. n + 1 : i <= j => off[i] <= off[j]

\* What is being pushed fits behind them, and is there when m_tail is stored.
Writing(off) ==
  \A p \in Producers :
    /\ ppc[p] \in {"copy", "tail"} =>
         off[Len(fifo) + 1] + TotalLen(pdata[p]) < Wrap(head) + N
    /\ ppc[p] = "tail" => Holds(buffer, ptail[p], pdata[p])

RingInv == \E off : Laid(off) /\ Writing(off)

\* What is being popped is the oldest message.
ReadingInv ==
  \A c \in Consumers :
    /\ cpc[c] # "abort"
    /\ cpc[c] \in {"header", "copy", "head"} => fifo # <<>> /\ cused[c] >= TotalLen(fifo[1].data)
    /\ cpc[c] \in {"idle", "lock", "cursors", "header"} => clen[c] = 0
    /\ cpc[c] \in {"copy", "head"} => clen[c] = Len(fifo[1].data)
    /\ cpc[c] = "head" => cbuf[c] = fifo[1].data

\* Unless the stores are split no cursor is ever seen outside the ring.
TornInv == ~SplitStores => head # N /\ tail # N

Unnotified == IF \E p \in Producers : ppc[p] \in {"wrap", "notify"} THEN 1 ELSE 0
Uncounted == IF \E p \in Producers : ppc[p] \in {"wrap", "notify", "count"} THEN 1 ELSE 0
Undrained == IF \E c \in Consumers : cpc[c] \in {"wrap", "drain"} THEN 1 ELSE 0

\* If they are, every byte in the pipe stands for a message whose push is past
\* both stores.
TokenInv ==
  SplitStores => /\ \A c \in Consumers : cpc[c] # "idle" => pipe > 0
                 /\ pipe + Unnotified <= Len(fifo) + Undrained

\* The counters, while a push or a pop has still to count itself.
CountInv ==
  \E z \in Int : enqueue_num + Uncounted = dequeue_num + Undrained + Len(fifo) + z * CountMod

RInv == IInv /\ RingInv /\ ReadingInv /\ TornInv /\ TokenInv /\ CountInv

-----------------------------------------------------------------------------
(* Offsets *)

LEMMA CellAtRange ==
  ASSUME NEW o \in Nat, NEW k \in Nat, o + k < 2 * N
  PROVE  CellAt(o, k) \in Cells /\ CellAt(o, 0) \in Nat /\ CellAt(CellAt(o, 0), k) = CellAt(o, k)
  BY Numbers DEF CellAt

\* Different offsets less than a round apart are different cells.
LEMMA CellAtInjective ==
  ASSUME NEW h \in Cells, NEW o1 \in h .. h + N - 1, NEW o2 \in h .. h + N - 1,
         CellAt(o1, 0) = CellAt(o2, 0)
  PROVE  o1 = o2
  BY Numbers DEF CellAt

\* A message may as well be said to start in its cell.
LEMMA HoldsInCell ==
  ASSUME NEW b, NEW o \in Nat, NEW m \in Messages, o + TotalLen(m) <= 2 * N
  PROVE  Holds(b, o, m) <=> Holds(b, CellAt(o, 0), m)
<1>1. N \in Nat /\ TotalLen(m) \in Nat /\ o \in Nat
  BY Numbers
<1>2. \A k \in 0 .. TotalLen(m) - 1 : CellAt(CellAt(o, 0), k) = CellAt(o, k)
  BY <1>1, CellAtRange
<1>3. QED
  BY <1>2 DEF Holds

\* Numbers that differ by rounds of a counter have the same remainder.
LEMMA SameRemainder ==
  ASSUME NEW M \in Nat \ {0}, NEW a \in Int, NEW b \in Int, NEW z \in Int, a = b + z * M
  PROVE  a % M = b % M
<1>1. PICK q \in Int, r \in 0 .. M - 1 : a = M * q + r /\ r = a % M
  BY Divided
<1>2. PICK p \in Int, s \in 0 .. M - 1 : b = M * p + s /\ s = b % M
  BY Divided
<1> DEFINE k == p + z - q
<1>3. r - s = M * k
  <2>1. M * q + r = M * p + s + M * z
    BY <1>1, <1>2
  <2>2. M * (p + z - q) = M * p + M * z - M * q
    OBVIOUS
  <2>3. M * p \in Int /\ M * q \in Int /\ M * z \in Int
    OBVIOUS
  <2>4. QED
    BY <2>1, <2>2, <2>3
<1> HIDE DEF k
<1>4. k \in Int
  BY DEF k
<1>5. CASE k >= 1
  <2>1. M * k >= M
    BY <1>4, <1>5
  <2>2. QED
    BY <1>3, <2>1
<1>6. CASE k <= -1
  <2>1. M * k <= -M
    BY <1>4, <1>6
  <2>2. QED
    BY <1>3, <2>1
<1>7. CASE k = 0
  <2>1. M * k = 0
    BY <1>7
  <2>2. r = s
    BY <1>3, <2>1
  <2>3. QED
    BY <1>1, <1>2, <2>2
<1>8. QED
  BY <1>4, <1>5, <1>6, <1>7

-----------------------------------------------------------------------------
(* What the invariant says *)

LEMMA MessageTypes ==
  ASSUME TypeOK
  PROVE  /\ Len(fifo) \in Nat
         /\ \A i \in 1 .. Len(fifo) : fifo[i].pos \in Cells /\ fifo[i].data \in Messages
<1>1. fifo \in Seq([pos : Cells, data : Messages])
  BY DEF TypeOK
<1>2. Len(fifo) \in Nat /\ \A i \in 1 .. Len(fifo) : fifo[i] \in [pos : Cells, data : Messages]
  BY <1>1, ElementOfSeq, LenProperties
<1>3. QED
  BY <1>2

LEMMA WrapRange ==
  ASSUME NEW k \in 0 .. N
  PROVE  Wrap(k) \in Cells /\ (k # N => Wrap(k) = k) /\ Wrap(Wrap(k)) = Wrap(k)
  BY Numbers DEF Wrap

\* Offsets and lengths of the messages.
LEMMA OffsetTypes ==
  ASSUME TypeOK, NEW off, Laid(off)
  PROVE  LET h == Wrap(head)
         IN  /\ h \in Cells /\ h \in Nat /\ h < N
             /\ \A i \in 1 .. Len(fifo) + 1 : off[i] \in Nat /\ off[i] \in h .. h + N - 1
             /\ \A i \in 1 .. Len(fifo) :
                  LET t == TotalLen(fifo[i].data)
                  IN  t \in Nat /\ t > 0 /\ t < N /\ off[i] + t <= off[Len(fifo) + 1] /\ off[i] + t < 2 * N
<1> DEFINE h == Wrap(head)
           n == Len(fifo)
<1>1. h \in Cells /\ h \in Nat /\ h < N /\ N \in Nat
  BY WrapRange, Numbers DEF TypeOK
<1>2. n \in Nat /\ \A i \in 1 .. n : fifo[i].data \in Messages
  BY MessageTypes
<1>3. \A i \in 1 .. n + 1 : off[i] \in Nat /\ h <= off[i] /\ off[i] <= off[n + 1] /\ off[n + 1] < h + N
  BY <1>2 DEF Laid
<1>4. ASSUME NEW i \in 1 .. n
      PROVE  LET t == TotalLen(fifo[i].data)
             IN  t \in Nat /\ t > 0 /\ t < N /\ off[i] + t <= off[n + 1] /\ off[i] + t < 2 * N
  <2>1. TotalLen(fifo[i].data) \in Nat /\ TotalLen(fifo[i].data) > 0
    BY <1>2, Numbers
  <2>2. off[i + 1] = off[i] + TotalLen(fifo[i].data) /\ i \in 1 .. n + 1 /\ i + 1 \in 1 .. n + 1
    BY <1>2 DEF Laid
  <2>3. /\ off[i] \in Nat /\ h <= off[i] /\ off[n + 1] \in Nat /\ off[i + 1] <= off[n + 1]
        /\ off[n + 1] < h + N
    BY <1>2, <1>3, <2>2
  <2>4. QED
    BY <1>1, <2>1, <2>2, <2>3
<1>5. \A i \in 1 .. n + 1 : off[i] \in h .. h + N - 1
  <2>1. n + 1 \in 1 .. n + 1
    BY <1>2
  <2>2. off[n + 1] \in Nat
    BY <1>3, <2>1
  <2> HIDE DEF h, n
  <2>3. QED
    BY <1>1, <1>3, <2>2
<1> HIDE DEF h, n
<1>6. QED
  BY <1>1, <1>3, <1>4, <1>5 DEF h, n

LEMMA CursorsFollow == ASSUME TypeOK, RingInv PROVE CursorsDelimitFifo
<1> PICK off : Laid(off)
  BY DEF RingInv
<1> DEFINE n == Len(fifo)
           h == Wrap(head)
<1>1. /\ n \in Nat /\ h \in Cells /\ N \in Nat
      /\ \A i \in 1 .. n + 1 : off[i] \in Nat /\ off[i] < 2 * N
      /\ \A i \in 1 .. n : TotalLen(fifo[i].data) \in Nat /\ off[i] + TotalLen(fifo[i].data) < 2 * N
  BY OffsetTypes, MessageTypes, Numbers
<1>2. off[1] = h /\ CellAt(h, 0) = h
  BY <1>1, Numbers DEF Laid, CellAt
<1>3. ASSUME NEW i \in 1 .. n PROVE FifoEnd(fifo[i]) = CellAt(off[i + 1], 0)
  <2>1. /\ fifo[i].pos = CellAt(off[i], 0)
        /\ off[i + 1] = off[i] + TotalLen(fifo[i].data)
    BY DEF Laid
  <2>2. off[i] \in Nat /\ TotalLen(fifo[i].data) \in Nat /\ off[i] + TotalLen(fifo[i].data) < 2 * N
    BY <1>1
  <2>3. CellAt(CellAt(off[i], 0), TotalLen(fifo[i].data)) = CellAt(off[i], TotalLen(fifo[i].data))
    BY <2>2, CellAtRange
  <2>4. CellAt(off[i], TotalLen(fifo[i].data)) = CellAt(off[i] + TotalLen(fifo[i].data), 0)
    BY <1>1, <2>2 DEF CellAt
  <2>5. QED
    BY <2>1, <2>3, <2>4 DEF FifoEnd
<1>4. n = 0 => h = Wrap(tail)
  BY <1>2 DEF Laid
<1>5. n > 0 => h = fifo[1].pos /\ FifoEnd(fifo[n]) = Wrap(tail)
  <2> SUFFICES ASSUME n > 0 PROVE h = fifo[1].pos /\ FifoEnd(fifo[n]) = Wrap(tail)
    OBVIOUS
  <2>1. 1 \in 1 .. n /\ n \in 1 .. n
    BY <1>1
  <2>2. fifo[1].pos = CellAt(off[1], 0) /\ Wrap(tail) = CellAt(off[n + 1], 0)
    BY <2>1 DEF Laid
  <2>3. QED
    BY <1>2, <1>3, <2>1, <2>2
<1>6. ASSUME NEW i \in 1 .. n - 1 PROVE fifo[i + 1].pos = FifoEnd(fifo[i])
  <2>1. i \in 1 .. n /\ i + 1 \in 1 .. n
    BY <1>1
  <2>2. fifo[i + 1].pos = CellAt(off[i + 1], 0)
    BY <2>1 DEF Laid
  <2>3. QED
    BY <1>3, <2>1, <2>2
<1>7. QED
  BY <1>4, <1>5, <1>6 DEF CursorsDelimitFifo

LEMMA StoredFollow == ASSUME TypeOK, RingInv PROVE StoredIntact
<1> PICK off : Laid(off)
  BY DEF RingInv
<1> SUFFICES ASSUME NEW i \in 1 .. Len(fifo)
    PROVE  /\ ReadHeader(buffer, fifo[i].pos) = Header(Len(fifo[i].data))
           /\ ReadData(buffer, AfterHeader(fifo[i].pos), Len(fifo[i].data)) = fifo[i].data
  BY DEF StoredIntact
<1>1. fifo[i].pos \in Cells /\ fifo[i].data \in Messages /\ buffer \in [Cells -> Byte]
  BY MessageTypes DEF TypeOK
<1>2. off[i] \in Nat /\ TotalLen(fifo[i].data) < N /\ off[i] + TotalLen(fifo[i].data) < 2 * N
  <2>1. i \in 1 .. Len(fifo) + 1
    BY MessageTypes
  <2>2. QED
    BY <2>1, OffsetTypes
<1>3. fifo[i].pos = CellAt(off[i], 0) /\ Holds(buffer, off[i], fifo[i].data)
  BY DEF Laid
<1>4. off[i] + TotalLen(fifo[i].data) <= 2 * N
  BY <1>1, <1>2, Numbers
<1>5. Holds(buffer, fifo[i].pos, fifo[i].data)
  BY <1>1, <1>2, <1>3, <1>4, HoldsInCell
<1>6. QED
  BY <1>1, <1>2, <1>5, ReadBack

\* Where the two sides are while they copy.
LEMMA WriterAt ==
  ASSUME IInv, NEW off, Laid(off), NEW p \in Producers, ppc[p] \in {"copy", "tail"}
  PROVE  /\ ptail[p] = tail /\ tail \in Cells /\ tail = CellAt(off[Len(fifo) + 1], 0)
         /\ pdata[p] \in Messages
<1>1. tail # N
  <2>1. \A q \in Producers : ppc[q] = "wrap" => q = p
    BY OneWriter DEF IInv
  <2>2. QED
    BY <2>1, Zenon DEF IInv, TailInv
<1>2. tail \in 0 .. N /\ tail = Wrap(tail) /\ tail \in Cells
  BY <1>1, WrapRange DEF IInv, TypeOK
<1>3. ptail[p] = tail /\ pdata[p] \in Messages
  BY DEF IInv, TailInv, WriterInv
<1>4. QED
  BY <1>2, <1>3 DEF Laid

LEMMA ReaderAt ==
  ASSUME IInv, NEW off, Laid(off), NEW c \in Consumers, cpc[c] \in {"cursors", "header", "copy", "head"}
  PROVE  /\ head \in Cells /\ head = Wrap(head) /\ head = off[1]
         /\ cpc[c] # "cursors" => chead[c] = head
<1>1. head # N
  <2>1. \A d \in Consumers : cpc[d] = "wrap" => d = c
    BY OneReader DEF IInv
  <2>2. QED
    BY <2>1, Zenon DEF IInv, HeadInv
<1>2. head \in 0 .. N /\ head = Wrap(head) /\ head \in Cells
  BY <1>1, WrapRange DEF IInv, TypeOK
<1>3. cpc[c] # "cursors" => chead[c] = head
  BY DEF IInv, HeadInv
<1>4. QED
  BY <1>2, <1>3 DEF Laid

LEMMA DisjointFollow == ASSUME IInv, RingInv, ReadingInv PROVE CopiesDisjoint
<1> SUFFICES ASSUME NEW p \in Producers, NEW c \in Consumers,
                    ppc[p] = "copy", cpc[c] \in {"header", "copy"},
                    NEW x \in Footprint(ptail[p], TotalLen(pdata[p])),
                    x \in Footprint(chead[c], H + clen[c])
             PROVE  FALSE
  BY DEF CopiesDisjoint
<1> PICK i \in 0 .. TotalLen(pdata[p]) - 1 : x = CellAt(ptail[p], i)
  BY DEF Footprint
<1> PICK j \in 0 .. (H + clen[c]) - 1 : x = CellAt(chead[c], j)
  BY DEF Footprint
<1> PICK off : Laid(off) /\ Writing(off)
  BY DEF RingInv
<1> DEFINE n == Len(fifo)
           h == Wrap(head)
           e == off[n + 1]
           t == TotalLen(pdata[p])
<1>1. TypeOK /\ h \in Cells /\ h \in Nat /\ h < N /\ N \in Nat /\ n \in Nat
  BY OffsetTypes, MessageTypes, Numbers DEF IInv
<1>2. ptail[p] = CellAt(e, 0) /\ pdata[p] \in Messages /\ e + t < h + N
  BY WriterAt DEF Writing
<1>3. t \in Nat /\ e \in Nat /\ h <= e
  <2>1. n + 1 \in 1 .. n + 1
    BY <1>1
  <2>2. e \in Nat /\ e \in h .. h + N - 1
    BY <1>1, <2>1, OffsetTypes
  <2>3. QED
    BY <1>1, <1>2, <2>2, Numbers
<1>4. /\ n >= 1 /\ chead[c] = h /\ off[1] = h /\ fifo[1].data \in Messages
      /\ H + clen[c] <= TotalLen(fifo[1].data) /\ H + clen[c] \in Nat
  <2>1. chead[c] = h /\ off[1] = h
    BY ReaderAt
  <2>2. fifo # <<>> /\ (clen[c] = 0 \/ clen[c] = Len(fifo[1].data))
    BY DEF ReadingInv
  <2>3. n >= 1
    BY <1>1, <2>2 DEF TypeOK
  <2>4. fifo[1].data \in Messages
    BY <1>1, <2>3, MessageTypes
  <2>5. QED
    BY <2>1, <2>2, <2>3, <2>4, Numbers, SMTT(30)
<1>5. h + TotalLen(fifo[1].data) <= e
  BY <1>1, <1>4, OffsetTypes
<1> HIDE DEF n, h, e, t
<1>6. e + i \in h .. h + N - 1 /\ h + j \in h .. h + N - 1 /\ e + i # h + j
  <2>1. i \in Nat /\ i < t /\ j \in Nat /\ j < H + clen[c]
    BY <1>3, <1>4 DEF t
  <2>2. TotalLen(fifo[1].data) \in Nat
    BY <1>4, Numbers
  <2>3. h + j < e /\ h + j \in Nat
    BY <1>1, <1>3, <1>4, <1>5, <2>1, <2>2
  <2>4. e <= e + i /\ e + i < h + N
    BY <1>1, <1>2, <1>3, <2>1
  <2>5. QED
    BY <1>1, <1>3, <2>1, <2>3, <2>4
<1>7. CellAt(ptail[p], i) = CellAt(e + i, 0)
  BY <1>1, <1>2, <1>3, <1>6 DEF CellAt, t
<1>8. CellAt(chead[c], j) = CellAt(h + j, 0)
  BY <1>1, <1>4, <1>6 DEF CellAt
<1>9. QED
  BY <1>1, <1>6, <1>7, <1>8, CellAtInjective

LEMMA CountersFollow == ASSUME TypeOK, CountInv PROVE CountersAgree
<1> SUFFICES ASSUME Quiet PROVE (enqueue_num - dequeue_num) % CountMod = Len(fifo) % CountMod
  BY DEF CountersAgree
<1>1. Uncounted = 0 /\ Undrained = 0
  BY DEF Quiet, Uncounted, Undrained
<1>2. /\ enqueue_num \in Int /\ dequeue_num \in Int /\ Len(fifo) \in Int
      /\ CountMod \in Nat \ {0}
  BY ConstantsAssumption, MessageTypes DEF TypeOK
<1>3. PICK z \in Int : enqueue_num = dequeue_num + Len(fifo) + z * CountMod
  BY <1>1, <1>2 DEF CountInv
<1>4. enqueue_num - dequeue_num = Len(fifo) + z * CountMod
  BY <1>2, <1>3
<1> DEFINE a == enqueue_num - dequeue_num
<1>5. a \in Int
  BY <1>2
<1> HIDE DEF a
<1>6. a % CountMod = Len(fifo) % CountMod
  BY <1>2, <1>4, <1>5, SameRemainder DEF a
<1>7. QED
  BY <1>6 DEF a

-----------------------------------------------------------------------------
(* The invariant is inductive *)

LEMMA RInvInit == Init => RInv
<1> SUFFICES ASSUME Init PROVE RInv
  OBVIOUS
<1>1. /\ head = 0 /\ tail = 0 /\ fifo = <<>> /\ Len(fifo) = 0 /\ pipe = 0
      /\ enqueue_num = 0 /\ dequeue_num = 0
      /\ \A p \in Producers : ppc[p] = "idle"
      /\ \A c \in Consumers : cpc[c] = "idle" /\ clen[c] = 0
  BY DEF Init
<1>2. RingInv
  <2> DEFINE off == [i \in 1 .. 1 |-> 0]
  <2>1. Wrap(head) = 0 /\ Wrap(tail) = 0 /\ CellAt(0, 0) = 0
    BY <1>1, Numbers DEF Wrap, CellAt
  <2>2. Laid(off)
    BY <1>1, <2>1, Numbers DEF Laid
  <2>3. Writing(off)
    BY <1>1 DEF Writing
  <2>4. QED
    BY <2>2, <2>3 DEF RingInv
<1>3. ReadingInv /\ TornInv
  BY <1>1, Numbers DEF ReadingInv, TornInv
<1>4. Unnotified = 0 /\ Uncounted = 0 /\ Undrained = 0
  BY <1>1 DEF Unnotified, Uncounted, Undrained
<1>5. TokenInv
  BY <1>1, <1>4 DEF TokenInv
<1>6. CountInv
  <2>1. 0 * CountMod = 0 /\ 0 \in Int
    BY ConstantsAssumption
  <2>2. QED
    BY <1>1, <1>4, <2>1 DEF CountInv
<1>7. QED
  BY <1>2, <1>3, <1>5, <1>6, InitInv DEF RInv

\* Steps that move no message and start no copy.
LEMMA RingStays ==
  ASSUME RingInv, Wrap(head') = Wrap(head), Wrap(tail') = Wrap(tail),
         buffer' = buffer, fifo' = fifo,
         \A p \in Producers : ppc'[p] \in {"copy", "tail"} =>
           ppc'[p] = ppc[p] /\ pdata'[p] = pdata[p] /\ ptail'[p] = ptail[p]
  PROVE  RingInv'
<1> PICK off : Laid(off) /\ Writing(off)
  BY DEF RingInv
<1>1. Laid(off)'
  BY DEF Laid, Holds, ByteOf, Wrap
<1>2. Writing(off)'
  BY DEF Writing, Holds, ByteOf, Wrap
<1>3. QED
  BY <1>1, <1>2 DEF RingInv

\* While one producer works the others are outside, so where it is decides what
\* is not yet announced or counted.
LEMMA PushFlags ==
  ASSUME IInv, NEW p \in Producers, (\E m \in Messages : PushCall(p, m)) \/ PushStep(p)
  PROVE  /\ \A q \in Producers : q # p => ppc[q] = "idle" /\ ppc'[q] = "idle"
         /\ Unnotified = IF ppc[p] \in {"wrap", "notify"} THEN 1 ELSE 0
         /\ Unnotified' = IF ppc'[p] \in {"wrap", "notify"} THEN 1 ELSE 0
         /\ Uncounted = IF ppc[p] \in {"wrap", "notify", "count"} THEN 1 ELSE 0
         /\ Uncounted' = IF ppc'[p] \in {"wrap", "notify", "count"} THEN 1 ELSE 0
         /\ Undrained' = Undrained /\ cpc' = cpc
<1>1. ppc \in [Producers -> PpcSet] /\ WriterInv
  BY DEF IInv, TypeOK
<1>2. CASE \E m \in Messages : PushCall(p, m)
  <2>1. /\ ppc[p] = "idle" /\ ppc' = [ppc EXCEPT ![p] = "check"] /\ cpc' = cpc
        /\ WLock => wowner = None
    BY <1>2 DEF PushCall, consVars
  <2>2. \A q \in Producers : q # p => ppc[q] = "idle"
    BY <1>1, <2>1, LockAssumption, ConstantsAssumption DEF WriterInv
  <2>3. \A q \in Producers : q # p => ppc'[q] = "idle"
    BY <1>1, <2>1, <2>2
  <2>4. QED
    BY <2>1, <2>2, <2>3 DEF Unnotified, Uncounted, Undrained
<1>3. CASE PushStep(p)
  <2>1. ppc[p] # "idle" /\ cpc' = cpc /\ \A q \in Producers : q # p => ppc'[q] = ppc[q]
    BY <1>1, <1>3 DEF PushStep, EnQueueFull, EnQueueFits, EnQueueCopy, EnQueueTail, EnQueueWrap,
                     EnQueueNotify, PushDone, PushReturn, consVars
  <2>2. \A q \in Producers : q # p => ppc[q] = "idle" /\ ppc'[q] = "idle"
    BY <1>1, <2>1, OneWriter
  <2>3. QED
    BY <2>1, <2>2 DEF Unnotified, Uncounted, Undrained
<1>4. QED
  BY <1>2, <1>3

\* What a writer and a reader see of a ring whose messages fill u bytes.
LEMMA RoomSeen ==
  ASSUME NEW hd \in 0 .. N, NEW tl \in Cells, NEW e \in Wrap(hd) .. Wrap(hd) + N - 1, tl = CellAt(e, 0)
  PROVE  FreeLen(hd, tl) = Wrap(hd) + N - e
  BY Numbers DEF FreeLen, CellAt, Wrap

LEMMA FitsRing ==
  ASSUME IInv, RingInv, NEW p \in Producers, EnQueueFits(p)
  PROVE  RingInv'
<1> PICK off : Laid(off) /\ Writing(off)
  BY DEF RingInv
<1> DEFINE e == off[Len(fifo) + 1]
           h == Wrap(head)
           t == TotalLen(pdata[p])
<1>1. TypeOK /\ h \in Nat /\ N \in Nat /\ e \in Nat /\ e \in h .. h + N - 1
  <2>1. Len(fifo) + 1 \in 1 .. Len(fifo) + 1
    BY MessageTypes DEF IInv
  <2>2. QED
    BY <2>1, OffsetTypes, Numbers DEF IInv
<1>2. /\ ppc[p] = "check" /\ FreeLen(head, tail) > t
      /\ UNCHANGED <<head, tail, buffer, fifo, pdata>>
      /\ ppc' = [ppc EXCEPT ![p] = "copy"]
  BY DEF EnQueueFits
<1>3. \A q \in Producers : q # p => ppc'[q] = "idle"
  BY PushFlags DEF PushStep
<1>4. tail \in Cells /\ tail = CellAt(e, 0)
  <2>1. tail # N
    <3>1. \A q \in Producers : ppc[q] = "wrap" => q = p
      BY <1>2, OneWriter DEF IInv
    <3>2. QED
      BY <1>2, <3>1, Zenon DEF IInv, TailInv
  <2>2. tail \in 0 .. N /\ tail = Wrap(tail) /\ tail \in Cells
    BY <2>1, WrapRange DEF IInv, TypeOK
  <2>3. QED
    BY <2>2 DEF Laid
<1>5. pdata[p] \in Messages
  BY <1>2 DEF IInv, WriterInv
<1>6. e + t < h + N
  <2>1. FreeLen(head, tail) = h + N - e
    BY <1>1, <1>4, RoomSeen DEF TypeOK
  <2>2. t \in Nat
    BY <1>5, Numbers
  <2>3. QED
    BY <1>1, <1>2, <2>1, <2>2
<1>7. Laid(off)'
  BY <1>2 DEF Laid, Holds, ByteOf, Wrap
<1>8. Writing(off)'
  <2>1. (e + t < h + N)'
    BY <1>2, <1>6 DEF Wrap
  <2>2. ppc'[p] = "copy"
    BY <1>1, <1>2 DEF TypeOK
  <2>3. QED
    BY <1>3, <2>1, <2>2 DEF Writing
<1>9. QED
  BY <1>7, <1>8 DEF RingInv

\* How far a cell lies behind the one the copy starts in.
LEMMA Displacement ==
  ASSUME NEW h \in Cells, NEW e \in h .. h + N - 1, NEW o \in h .. h + N - 1
  PROVE  LET tl == CellAt(e, 0)
             x  == CellAt(o, 0)
         IN  (IF x >= tl THEN x - tl ELSE x - tl + N) = IF o >= e THEN o - e ELSE o - e + N
  BY Numbers DEF CellAt

LEMMA CopyRing ==
  ASSUME IInv, RingInv, NEW p \in Producers, EnQueueCopy(p)
  PROVE  RingInv'
<1> PICK off : Laid(off) /\ Writing(off)
  BY DEF RingInv
<1> DEFINE n == Len(fifo)
           e == off[n + 1]
           h == Wrap(head)
           m == pdata[p]
           t == TotalLen(m)
<1>1. /\ TypeOK /\ h \in Cells /\ h \in Nat /\ h < N /\ N \in Nat /\ e \in Nat /\ e \in h .. h + N - 1
      /\ n \in Nat
  <2>1. n + 1 \in 1 .. n + 1 /\ n \in Nat
    BY MessageTypes DEF IInv
  <2>2. QED
    BY <2>1, OffsetTypes, Numbers DEF IInv
<1>2. /\ ppc[p] = "copy" /\ buffer' = Store(buffer, ptail[p], m)
      /\ UNCHANGED <<head, tail, fifo, pdata, ptail>>
      /\ ppc' = [ppc EXCEPT ![p] = "tail"]
  BY DEF EnQueueCopy
<1>3. \A q \in Producers : q # p => ppc'[q] = "idle"
  BY PushFlags DEF PushStep
<1>4. ptail[p] = CellAt(e, 0) /\ ptail[p] \in Cells /\ m \in Messages
  BY <1>2, WriterAt
<1>5. t \in Nat /\ e + t < h + N /\ t < N
  <2>1. t \in Nat
    BY <1>4, Numbers
  <2>2. e + t < h + N
    BY <1>2 DEF Writing
  <2>3. QED
    BY <1>1, <2>1, <2>2
<1> HIDE DEF n, e, h, m, t
<1>6. ASSUME NEW o \in h .. h + N - 1
      PROVE  /\ o >= e /\ o - e < t => buffer'[CellAt(o, 0)] = ByteOf(m, o - e)
             /\ o < e => buffer'[CellAt(o, 0)] = buffer[CellAt(o, 0)]
  <2> DEFINE x == CellAt(o, 0)
             k == IF x >= ptail[p] THEN x - ptail[p] ELSE x - ptail[p] + N
  <2>1. x \in Cells
    BY <1>1, Numbers DEF CellAt
  <2>2. buffer'[x] = IF k < t THEN ByteOf(m, k) ELSE buffer[x]
    BY <1>1, <1>2, <1>4, <1>5, <2>1, StoreCell DEF t, TypeOK
  <2>3. k = IF o >= e THEN o - e ELSE o - e + N
    BY <1>1, <1>4, Displacement
  <2> HIDE DEF x, k
  <2>4. CASE o >= e
    BY <1>1, <2>2, <2>3, <2>4 DEF x
  <2>5. CASE o < e
    <3>1. ~(k < t) /\ ~(o >= e)
      BY <1>1, <1>5, <2>3, <2>5
    <3>2. QED
      BY <2>2, <3>1 DEF x
  <2>6. QED
    BY <1>1, <2>4, <2>5
<1>7. ASSUME NEW i \in 1 .. n
      PROVE  Holds(buffer', off[i], fifo[i].data)
  <2> DEFINE ti == TotalLen(fifo[i].data)
  <2>1. off[i] \in Nat /\ h <= off[i] /\ ti \in Nat /\ off[i] + ti <= e /\ off[i] + ti < 2 * N
    <3>1. i \in 1 .. n + 1
      BY <1>1
    <3>2. off[i] \in Nat /\ off[i] \in h .. h + N - 1
      BY <1>1, <3>1, OffsetTypes DEF h, n
    <3>3. ti \in Nat /\ off[i] + ti <= e /\ off[i] + ti < 2 * N
      BY <1>1, OffsetTypes DEF h, n, e
    <3>4. QED
      BY <1>1, <3>2, <3>3
  <2>2. Holds(buffer, off[i], fifo[i].data)
    BY DEF Laid, n
  <2>3. SUFFICES ASSUME NEW k \in 0 .. ti - 1
                 PROVE  buffer'[CellAt(off[i], k)] = ByteOf(fifo[i].data, k)
    BY DEF Holds
  <2>4. buffer[CellAt(off[i], k)] = ByteOf(fifo[i].data, k)
    BY <2>2 DEF Holds
  <2> HIDE DEF ti
  <2>5. off[i] + k \in h .. h + N - 1 /\ off[i] + k < e /\ CellAt(off[i], k) = CellAt(off[i] + k, 0)
    BY <1>1, <2>1 DEF CellAt
  <2>6. QED
    BY <1>1, <1>6, <2>4, <2>5
<1>8. Holds(buffer', ptail[p], m)
  <2>1. ASSUME NEW k \in 0 .. t - 1 PROVE buffer'[CellAt(e, k)] = ByteOf(m, k)
    <3>1. /\ e + k \in h .. h + N - 1 /\ e + k >= e /\ (e + k) - e = k /\ k < t
          /\ CellAt(e, k) = CellAt(e + k, 0)
      BY <1>1, <1>5 DEF CellAt
    <3>2. QED
      BY <1>6, <3>1
  <2>2. Holds(buffer', e, m)
    BY <2>1 DEF Holds, t
  <2>3. e + TotalLen(m) <= 2 * N
    BY <1>1, <1>5 DEF t
  <2>4. QED
    BY <1>1, <1>4, <2>2, <2>3, HoldsInCell
<1>9. Laid(off)'
  <2>1. \A i \in 1 .. Len(fifo) : Holds(buffer, off[i], fifo[i].data)'
    BY <1>2, <1>7 DEF n, Holds, ByteOf
  <2>2. QED
    BY <1>2, <2>1 DEF Laid, Wrap
<1>10. Writing(off)'
  <2>1. Holds(buffer, ptail[p], pdata[p])'
    BY <1>2, <1>8 DEF m, Holds, ByteOf
  <2>2. (off[Len(fifo) + 1] + TotalLen(pdata[p]) < Wrap(head) + N)'
    BY <1>2, <1>5 DEF e, h, m, n, t, Wrap
  <2>3. QED
    BY <1>3, <2>1, <2>2 DEF Writing
<1>11. QED
  BY <1>9, <1>10 DEF RingInv

LEMMA TailRing ==
  ASSUME IInv, RingInv, NEW p \in Producers, EnQueueTail(p)
  PROVE  RingInv'
<1> PICK off : Laid(off) /\ Writing(off)
  BY DEF RingInv
<1> DEFINE n == Len(fifo)
           e == off[n + 1]
           h == Wrap(head)
           m == pdata[p]
           t == TotalLen(m)
           r == [pos |-> ptail[p], data |-> m]
<1>1. /\ TypeOK /\ h \in Cells /\ h \in Nat /\ h < N /\ N \in Nat /\ e \in Nat /\ e \in h .. h + N - 1
      /\ n \in Nat
  <2>1. n + 1 \in 1 .. n + 1 /\ n \in Nat
    BY MessageTypes DEF IInv
  <2>2. QED
    BY <2>1, OffsetTypes, Numbers DEF IInv
<1>2. /\ ppc[p] = "tail" /\ fifo' = Append(fifo, r)
      /\ UNCHANGED <<head, buffer, pdata, ptail>>
      /\ tail' = IF SplitStores THEN EndOf(ptail[p], m) ELSE Wrap(EndOf(ptail[p], m))
      /\ ppc' = [ppc EXCEPT ![p] = "wrap"]
  BY DEF EnQueueTail
<1>3. \A q \in Producers : ppc'[q] \notin {"copy", "tail"}
  <2>1. \A q \in Producers : q # p => ppc'[q] = "idle"
    BY PushFlags DEF PushStep
  <2>2. QED
    BY <1>1, <1>2, <2>1 DEF TypeOK
<1>4. ptail[p] = CellAt(e, 0) /\ ptail[p] \in Cells /\ m \in Messages
  BY <1>2, WriterAt
<1>5. t \in Nat /\ e + t < h + N /\ t < N /\ Holds(buffer, ptail[p], m)
  <2>1. t \in Nat
    BY <1>4, Numbers
  <2>2. e + t < h + N /\ Holds(buffer, ptail[p], m)
    BY <1>2 DEF Writing
  <2>3. QED
    BY <1>1, <2>1, <2>2
<1>6. Wrap(tail') = CellAt(e + t, 0)
  <2>1. Wrap(EndOf(ptail[p], m)) = CellAt(ptail[p], t)
    BY <1>4, <1>5, CursorBehind
  <2>2. EndOf(ptail[p], m) \in 0 .. N
    BY <1>4, <1>5, EndOfRange
  <2>3. Wrap(tail') = CellAt(ptail[p], t)
    BY <1>2, <2>1, <2>2, WrapRange
  <2>4. CellAt(ptail[p], t) = CellAt(e + t, 0)
    BY <1>1, <1>4, <1>5 DEF CellAt
  <2>5. QED
    BY <2>3, <2>4
<1>7. /\ Len(fifo') = n + 1 /\ fifo'[n + 1] = r
      /\ \A i \in 1 .. n : fifo'[i] = fifo[i]
  <2>1. fifo \in Seq([pos : Cells, data : Messages]) /\ r \in [pos : Cells, data : Messages]
    BY <1>1, <1>4 DEF TypeOK
  <2>2. QED
    BY <1>2, <2>1, AppendProperties
<1>8. Holds(buffer, e, m)
  <2>1. e + TotalLen(m) <= 2 * N
    BY <1>1, <1>5
  <2>2. QED
    BY <1>1, <1>4, <1>5, <2>1, HoldsInCell
<1>9. /\ off \in [1 .. n + 1 -> Nat] /\ off[1] = h
      /\ \A i, j \in 1 .. n + 1 : i <= j => off[i] <= off[j]
      /\ \A i \in 1 .. n : /\ fifo[i].pos = CellAt(off[i], 0)
                           /\ off[i + 1] = off[i] + TotalLen(fifo[i].data)
                           /\ Holds(buffer, off[i], fifo[i].data)
  BY DEF Laid
<1>10. r.pos = ptail[p] /\ r.data = m
  OBVIOUS
<1> HIDE DEF n, e, h, m, t, r
<1> PICK off2 : off2 = [i \in 1 .. n + 2 |-> IF i <= n + 1 THEN off[i] ELSE e + t]
  OBVIOUS
<1>11. off2 \in [1 .. n + 2 -> Nat] /\ off2[n + 2] = e + t /\ \A i \in 1 .. n + 1 : off2[i] = off[i]
  BY <1>1, <1>5, <1>9
<1>12. \A i, j \in 1 .. n + 2 : i <= j => off2[i] <= off2[j]
  <2> SUFFICES ASSUME NEW i \in 1 .. n + 2, NEW j \in 1 .. n + 2, i <= j
               PROVE  off2[i] <= off2[j]
    OBVIOUS
  <2>1. CASE j \in 1 .. n + 1
    BY <1>1, <1>9, <1>11, <2>1
  <2>2. CASE j = n + 2 /\ i \in 1 .. n + 1
    <3>1. off[i] <= e /\ off[i] \in Nat
      BY <1>1, <1>9, <2>2 DEF e
    <3>2. QED
      BY <1>1, <1>5, <1>11, <2>2, <3>1
  <2>3. CASE j = n + 2 /\ i = n + 2
    BY <1>1, <1>5, <1>11, <2>3
  <2>4. QED
    BY <1>1, <2>1, <2>2, <2>3
<1>13. ASSUME NEW i \in 1 .. n + 1
       PROVE  /\ fifo'[i].pos = CellAt(off2[i], 0)
              /\ off2[i + 1] = off2[i] + TotalLen(fifo'[i].data)
              /\ Holds(buffer, off2[i], fifo'[i].data)
  <2>1. CASE i \in 1 .. n
    <3>1. i + 1 \in 1 .. n + 1 /\ off2[i] = off[i] /\ off2[i + 1] = off[i + 1] /\ fifo'[i] = fifo[i]
      BY <1>1, <1>7, <1>11, <2>1
    <3>2. QED
      BY <1>9, <2>1, <3>1
  <2>2. CASE i = n + 1
    <3>1. off2[i] = e /\ off2[i + 1] = e + t /\ fifo'[i] = r
      BY <1>1, <1>7, <1>11, <2>2 DEF e
    <3>2. QED
      BY <1>4, <1>8, <1>10, <3>1 DEF t
  <2>3. QED
    BY <1>1, <2>1, <2>2
<1>14. Laid(off2)'
  <2>1. Len(fifo') + 1 = n + 2 /\ off2[1] = h /\ Wrap(head') = h
    BY <1>1, <1>2, <1>7, <1>9, <1>11 DEF h
  <2>2. \A i \in 1 .. Len(fifo') : Holds(buffer, off2[i], fifo[i].data)'
    BY <1>2, <1>7, <1>13, ZenonT(40) DEF Holds, ByteOf
  <2>3. Wrap(tail)' = CellAt(off2[Len(fifo) + 1], 0)' /\ (off2[Len(fifo) + 1] < Wrap(head) + N)'
    <3>1. (off2[Len(fifo) + 1])' = e + t
      BY <1>11, <2>1
    <3>2. QED
      BY <1>5, <1>6, <2>1, <3>1 DEF Wrap, CellAt
  <2>4. off2 \in [1 .. Len(fifo') + 1 -> Nat] /\ off2[1] = Wrap(head')
    BY <1>11, <2>1
  <2>5. \A i, j \in 1 .. Len(fifo') + 1 : i <= j => off2[i] <= off2[j]
    BY <1>12, <2>1
  <2>6. \A i \in 1 .. Len(fifo') : /\ fifo'[i].pos = CellAt(off2[i], 0)
                                   /\ off2[i + 1] = off2[i] + TotalLen(fifo'[i].data)
    BY <1>7, <1>13
  <2>7. QED
    BY <2>2, <2>3, <2>4, <2>5, <2>6 DEF Laid, Wrap, CellAt, TotalLen
<1>15. Writing(off2)'
  BY <1>3 DEF Writing
<1>16. QED
  BY <1>14, <1>15 DEF RingInv

LEMMA HeadRing ==
  ASSUME IInv, RingInv, ReadingInv, NEW c \in Consumers, DeQueueHead(c)
  PROVE  RingInv'
<1> PICK off : Laid(off) /\ Writing(off)
  BY DEF RingInv
<1> DEFINE n == Len(fifo)
           h == Wrap(head)
           m == fifo[1].data
           t == TotalLen(m)
           back == IF off[2] >= N THEN N ELSE 0
<1>1. TypeOK /\ h \in Cells /\ h \in Nat /\ h < N /\ N \in Nat /\ n \in Nat
  BY OffsetTypes, MessageTypes, Numbers DEF IInv
<1>2. /\ cpc[c] = "head" /\ UNCHANGED <<tail, buffer, ppc, pdata, ptail>>
      /\ LET end == AfterData(AfterHeader(chead[c]), clen[c])
         IN  head' = IF SplitStores THEN end ELSE Wrap(end)
      /\ fifo' = IF fifo = <<>> THEN fifo ELSE Tail(fifo)
  BY DEF DeQueueHead, prodVars
<1>3. n >= 1 /\ fifo # <<>> /\ clen[c] = Len(m) /\ m \in Messages
  <2>1. fifo # <<>> /\ clen[c] = Len(m)
    BY <1>2 DEF ReadingInv
  <2>2. n >= 1
    BY <1>1, <2>1 DEF TypeOK
  <2>3. QED
    BY <1>1, <2>1, <2>2, MessageTypes
<1>4. chead[c] = h /\ h = off[1]
  BY <1>2, ReaderAt
<1>5. /\ \A i \in 1 .. n + 1 : off[i] \in Nat /\ off[i] < h + N
      /\ \A i, j \in 1 .. n + 1 : i <= j => off[i] <= off[j]
      /\ \A i \in 1 .. n : /\ fifo[i].pos = CellAt(off[i], 0)
                           /\ off[i + 1] = off[i] + TotalLen(fifo[i].data)
                           /\ Holds(buffer, off[i], fifo[i].data)
      /\ Wrap(tail) = CellAt(off[n + 1], 0)
  <2>1. \A i \in 1 .. n + 1 : off[i] \in Nat /\ off[i] < h + N
    BY <1>1, OffsetTypes
  <2>2. QED
    BY <2>1 DEF Laid
<1>6. t \in Nat /\ t < N /\ off[2] = h + t /\ off[2] \in Nat /\ off[2] < h + N
  <2>1. 1 \in 1 .. n /\ 2 \in 1 .. n + 1
    BY <1>1, <1>3
  <2>2. QED
    BY <1>1, <1>4, <1>5, <2>1, OffsetTypes
<1>7. Wrap(head') = off[2] - back
  <2>1. Wrap(AfterData(AfterHeader(h), Len(m))) = CellAt(h, t)
    BY <1>1, <1>3, <1>6, CursorBehind
  <2>2. AfterData(AfterHeader(h), Len(m)) \in 0 .. N
    <3>1. AfterHeader(h) \in Cells
      BY <1>1, AfterHeaderRange
    <3>2. Len(m) \in Nat /\ Len(m) + H <= N
      BY <1>1, <1>3, <1>6, Numbers
    <3>3. buffer \in [Cells -> Byte]
      BY <1>1 DEF TypeOK
    <3>4. QED
      BY <3>1, <3>2, <3>3, ReadDataType
  <2>3. Wrap(head') = CellAt(h, t)
    BY <1>2, <1>3, <1>4, <2>1, <2>2, WrapRange
  <2>4. QED
    BY <1>1, <1>6, <2>3 DEF CellAt
<1>8. back \in Nat /\ \A i \in 2 .. n + 1 : off[i] - back \in Nat
  <2>1. 2 \in 1 .. n + 1 /\ \A i \in 2 .. n + 1 : i \in 1 .. n + 1 /\ 2 <= i
    BY <1>1, <1>3
  <2>2. \A i \in 2 .. n + 1 : off[i] \in Nat /\ off[2] <= off[i]
    BY <1>5, <2>1
  <2>3. back \in Nat /\ back <= off[2]
    BY <1>1, <1>6
  <2> HIDE DEF back
  <2>4. QED
    BY <1>6, <2>2, <2>3
\* The round that is taken off is one that the offset has gone.
<1>9. ASSUME NEW i \in 2 .. n + 1, NEW k \in Nat, off[i] + k < 2 * N
      PROVE  CellAt(off[i] - back, k) = CellAt(off[i], k)
  <2>1. 2 \in 1 .. n + 1 /\ i \in 1 .. n + 1
    BY <1>1, <1>3
  <2>2. off[2] <= off[i] /\ off[i] \in Nat
    BY <1>5, <2>1
  <2>3. CASE off[2] >= N
    <3>1. back = N /\ off[i] >= N
      BY <1>1, <1>6, <2>2, <2>3
    <3> HIDE DEF back
    <3>2. CellAt(off[i] - N, k) = CellAt(off[i], k)
      BY <1>1, <1>9, <2>2, <3>1 DEF CellAt
    <3>3. QED
      BY <3>1, <3>2
  <2>4. CASE ~(off[2] >= N)
    <3>1. back = 0 /\ off[i] - 0 = off[i]
      BY <2>2, <2>4
    <3>2. QED
      BY <3>1
  <2>5. QED
    BY <2>3, <2>4
<1>10. Len(fifo') = n - 1 /\ \A i \in 1 .. n - 1 : fifo'[i] = fifo[i + 1]
  <2>1. fifo \in Seq([pos : Cells, data : Messages])
    BY <1>1 DEF TypeOK
  <2>2. fifo' = Tail(fifo)
    BY <1>2, <1>3
  <2>3. QED
    BY <1>3, <2>1, <2>2, HeadTailProperties
<1> HIDE DEF n, h, m, t, back
<1> PICK off2 : off2 = [i \in 1 .. n |-> off[i + 1] - back]
  OBVIOUS
<1>11. off2 \in [1 .. n -> Nat] /\ \A i \in 1 .. n : off2[i] = off[i + 1] - back /\ i + 1 \in 2 .. n + 1
  <2>1. \A i \in 1 .. n : i + 1 \in 2 .. n + 1
    BY <1>1
  <2>2. \A i \in 1 .. n : off[i + 1] - back \in Nat
    BY <1>8, <2>1
  <2>3. QED
    BY <2>1, <2>2
<1>12. \A i, j \in 1 .. n : i <= j => off2[i] <= off2[j]
  <2> SUFFICES ASSUME NEW i \in 1 .. n, NEW j \in 1 .. n, i <= j
               PROVE  off2[i] <= off2[j]
    OBVIOUS
  <2>1. i + 1 \in 1 .. n + 1 /\ j + 1 \in 1 .. n + 1 /\ i + 1 <= j + 1
    BY <1>1
  <2>2. off[i + 1] \in Nat /\ off[j + 1] \in Nat /\ off[i + 1] <= off[j + 1]
    BY <1>5, <2>1
  <2>3. QED
    BY <1>8, <1>11, <2>2
<1>13. ASSUME NEW i \in 1 .. n - 1
       PROVE  /\ fifo'[i].pos = CellAt(off2[i], 0)
              /\ off2[i + 1] = off2[i] + TotalLen(fifo'[i].data)
              /\ Holds(buffer, off2[i], fifo'[i].data)
  <2>1. /\ i \in 1 .. n /\ i + 1 \in 1 .. n /\ i + 1 \in 2 .. n + 1
        /\ off2[i] = off[i + 1] - back /\ off2[i + 1] = off[(i + 1) + 1] - back
        /\ fifo'[i] = fifo[i + 1]
    BY <1>1, <1>10, <1>11
  <2> DEFINE o  == off[i + 1]
             mi == fifo[i + 1].data
             ti == TotalLen(mi)
  <2>2. o \in Nat /\ ti \in Nat /\ o + ti < 2 * N /\ mi \in Messages
    <3>1. i + 1 \in 1 .. n + 1
      BY <2>1
    <3>2. o \in Nat
      BY <1>5, <3>1
    <3>3. ti \in Nat /\ o + ti < 2 * N
      BY <1>1, <2>1, OffsetTypes DEF n
    <3>4. mi \in Messages
      BY <1>1, <2>1, MessageTypes DEF n
    <3>5. QED
      BY <3>2, <3>3, <3>4
  <2>3. fifo[i + 1].pos = CellAt(o, 0) /\ off[(i + 1) + 1] = o + ti /\ Holds(buffer, o, mi)
    BY <1>5, <2>1
  <2>4. CellAt(off2[i], 0) = CellAt(o, 0)
    <3>1. 0 \in Nat /\ o + 0 < 2 * N
      BY <1>1, <2>2
    <3>2. QED
      BY <1>9, <2>1, <3>1
  <2>5. off2[i + 1] = off2[i] + ti
    BY <1>8, <2>1, <2>2, <2>3
  <2>6. \A k \in 0 .. ti - 1 : CellAt(off2[i], k) = CellAt(o, k)
    <3> TAKE k \in 0 .. ti - 1
    <3> HIDE DEF o, ti, mi
    <3>1. k \in Nat /\ o + k < 2 * N
      BY <1>1, <2>2
    <3>2. QED
      BY <1>9, <2>1, <3>1 DEF o
  <2>7. Holds(buffer, off2[i], mi)
    BY <2>3, <2>6 DEF Holds
  <2>8. QED
    BY <2>1, <2>3, <2>4, <2>5, <2>7
<1>14. Laid(off2)'
  <2>1. Len(fifo') = n - 1 /\ Len(fifo') + 1 = n /\ off2[1] = Wrap(head')
    BY <1>1, <1>3, <1>7, <1>10, <1>11
  <2>2. \A i \in 1 .. Len(fifo') : Holds(buffer, off2[i], fifo[i].data)'
    <3>1. buffer' = buffer /\ \A i \in 1 .. Len(fifo') : Holds(buffer, off2[i], fifo'[i].data)
      BY <1>2, <1>13, <2>1
    <3>2. QED
      BY <3>1 DEF Holds, ByteOf, TotalLen
  <2>3. off2[n] = off[n + 1] - back /\ n \in 1 .. n /\ n + 1 \in 2 .. n + 1 /\ n + 1 \in 1 .. n + 1
    BY <1>1, <1>3, <1>11
  <2>4. Wrap(tail') = CellAt(off2[n], 0)
    <3>1. 0 \in Nat /\ off[n + 1] + 0 < 2 * N
      BY <1>1, <1>5, <2>3
    <3>2. QED
      BY <1>2, <1>5, <1>9, <2>3, <3>1
  <2>5. off2[n] < Wrap(head') + N
    <3>1. off[n + 1] \in Nat /\ off[n + 1] < h + N
      BY <1>5, <2>3
    <3>2. QED
      BY <1>1, <1>6, <1>7, <1>8, <2>3, <3>1
  <2>6. off2 \in [1 .. Len(fifo') + 1 -> Nat]
    BY <1>11, <2>1
  <2>7. \A i, j \in 1 .. Len(fifo') + 1 : i <= j => off2[i] <= off2[j]
    BY <1>12, <2>1
  <2>8. \A i \in 1 .. Len(fifo') : /\ fifo'[i].pos = CellAt(off2[i], 0)
                                   /\ off2[i + 1] = off2[i] + TotalLen(fifo'[i].data)
    BY <1>13, <2>1
  <2>9. off2[Len(fifo') + 1] < Wrap(head') + N /\ Wrap(tail') = CellAt(off2[Len(fifo') + 1], 0)
    BY <2>1, <2>4, <2>5
  <2>10. QED
    BY <2>1, <2>2, <2>6, <2>7, <2>8, <2>9 DEF Laid, Wrap, CellAt, TotalLen
<1>15. Writing(off2)'
  <2> SUFFICES ASSUME NEW p \in Producers, ppc[p] \in {"copy", "tail"}
               PROVE  off2[n] + TotalLen(pdata[p]) < Wrap(head') + N
    <3>1. Len(fifo') + 1 = n
      BY <1>1, <1>10
    <3>2. \A p \in Producers : ppc[p] = "tail" => Holds(buffer, ptail[p], pdata[p])
      BY DEF Writing
    <3>3. QED
      BY <1>2, <3>1, <3>2 DEF Writing, Holds, ByteOf, Wrap, TotalLen
  <2>1. off[n + 1] + TotalLen(pdata[p]) < h + N
    BY DEF Writing, n, h
  <2>2. off2[n] = off[n + 1] - back /\ off[n + 1] \in Nat
    BY <1>1, <1>3, <1>5, <1>11
  <2>3. TotalLen(pdata[p]) \in Nat
    <3>1. pdata[p] \in Messages
      BY WriterAt
    <3>2. QED
      BY <3>1, Numbers
  <2>4. QED
    BY <1>1, <1>6, <1>7, <1>8, <2>1, <2>2, <2>3, SMTT(30)
<1>16. QED
  BY <1>14, <1>15 DEF RingInv

\* A counter moves by one, up to rounds.
LEMMA IncrRound ==
  ASSUME NEW k \in 0 .. CountMod - 1
  PROVE  Incr(k) \in Nat /\ \E y \in {0, 1} : Incr(k) = k + 1 - y * CountMod
  BY ConstantsAssumption DEF Incr

LEMMA Rounds ==
  ASSUME NEW z \in Int, NEW y \in {0, 1}
  PROVE  z - y \in Int /\ (z - y) * CountMod = z * CountMod - y * CountMod /\ z * CountMod \in Int
<1>1. CountMod \in Int
  BY ConstantsAssumption
<1>2. QED
  BY <1>1

LEMMA FlagTypes ==
  /\ Unnotified \in {0, 1} /\ Uncounted \in {0, 1} /\ Undrained \in {0, 1}
  BY DEF Unnotified, Uncounted, Undrained

\* The steps of Push.
LEMMA PushRInv ==
  ASSUME RInv, NEW p \in Producers, (\E m \in Messages : PushCall(p, m)) \/ PushStep(p)
  PROVE  RInv'
<1>1. IInv /\ TypeOK /\ RingInv /\ ReadingInv /\ TornInv /\ TokenInv /\ CountInv
  BY DEF RInv, IInv
<1>2. /\ \A q \in Producers : q # p => ppc[q] = "idle" /\ ppc'[q] = "idle"
      /\ Unnotified = IF ppc[p] \in {"wrap", "notify"} THEN 1 ELSE 0
      /\ Unnotified' = IF ppc'[p] \in {"wrap", "notify"} THEN 1 ELSE 0
      /\ Uncounted = IF ppc[p] \in {"wrap", "notify", "count"} THEN 1 ELSE 0
      /\ Uncounted' = IF ppc'[p] \in {"wrap", "notify", "count"} THEN 1 ELSE 0
      /\ Undrained' = Undrained /\ cpc' = cpc
  BY <1>1, PushFlags
<1>3. Len(fifo) \in Nat /\ pipe \in Nat /\ Undrained \in {0, 1} /\ N \in Nat /\ 0 < N
  BY <1>1, MessageTypes, FlagTypes, Numbers, ConstantsAssumption DEF TypeOK
<1>4. fifo' = fifo /\ UNCHANGED consVars => ReadingInv'
  BY <1>1 DEF ReadingInv, consVars, TotalLen
\* Steps that announce and count nothing.
<1>5. ASSUME fifo' = fifo, pipe' = pipe, enqueue_num' = enqueue_num, dequeue_num' = dequeue_num,
             Unnotified' = Unnotified, Uncounted' = Uncounted
      PROVE  TokenInv' /\ CountInv'
  BY <1>1, <1>2, <1>5 DEF TokenInv, CountInv
\* Steps after which p is not about to store what it copied.
<1>6. ASSUME fifo' = fifo, buffer' = buffer, Wrap(head') = Wrap(head), Wrap(tail') = Wrap(tail),
             ppc'[p] \notin {"copy", "tail"}
      PROVE  RingInv'
  <2>1. \A q \in Producers : ppc'[q] \notin {"copy", "tail"}
    BY <1>2, <1>6
  <2>2. QED
    BY <1>1, <1>6, <2>1, RingStays
<1>7. CASE \E m \in Messages : PushCall(p, m)
  <2>1. /\ ppc[p] = "idle" /\ ppc'[p] = "check"
        /\ UNCHANGED <<fifo, buffer, head, tail, pipe, enqueue_num, dequeue_num, consVars>>
    BY <1>1, <1>7 DEF PushCall, TypeOK
  <2>2. TornInv'
    BY <1>1, <2>1 DEF TornInv
  <2>3. QED
    BY <1>1, <1>2, <1>4, <1>5, <1>6, <2>1, <2>2, PushInv DEF RInv, Wrap
<1>8. CASE EnQueueFull(p)
  <2>1. /\ ppc[p] = "check" /\ ppc'[p] = "idle"
        /\ UNCHANGED <<fifo, buffer, head, tail, pipe, enqueue_num, dequeue_num, consVars>>
    BY <1>1, <1>8 DEF EnQueueFull, PushReturn, TypeOK
  <2>2. TornInv'
    BY <1>1, <2>1 DEF TornInv
  <2>3. QED
    BY <1>1, <1>2, <1>4, <1>5, <1>6, <1>8, <2>1, <2>2, PushInv DEF RInv, Wrap, PushStep
<1>9. CASE EnQueueFits(p)
  <2>1. /\ ppc[p] = "check" /\ ppc'[p] = "copy"
        /\ UNCHANGED <<fifo, buffer, head, tail, pipe, enqueue_num, dequeue_num, consVars>>
    BY <1>1, <1>9 DEF EnQueueFits, TypeOK
  <2>2. TornInv'
    BY <1>1, <2>1 DEF TornInv
  <2>3. RingInv'
    BY <1>1, <1>9, FitsRing
  <2>4. QED
    BY <1>1, <1>2, <1>4, <1>5, <1>9, <2>1, <2>2, <2>3, PushInv DEF RInv, PushStep
<1>10. CASE EnQueueCopy(p)
  <2>1. /\ ppc[p] = "copy" /\ ppc'[p] = "tail"
        /\ UNCHANGED <<fifo, head, tail, pipe, enqueue_num, dequeue_num, consVars>>
    BY <1>1, <1>10 DEF EnQueueCopy, TypeOK
  <2>2. TornInv'
    BY <1>1, <2>1 DEF TornInv
  <2>3. RingInv'
    BY <1>1, <1>10, CopyRing
  <2>4. QED
    BY <1>1, <1>2, <1>4, <1>5, <1>10, <2>1, <2>2, <2>3, PushInv DEF RInv, PushStep
<1>11. CASE EnQueueTail(p)
  <2>1. /\ ppc[p] = "tail" /\ ppc'[p] = "wrap"
        /\ fifo' = Append(fifo, [pos |-> ptail[p], data |-> pdata[p]])
        /\ UNCHANGED <<buffer, head, pipe, enqueue_num, dequeue_num, consVars>>
        /\ tail' = IF SplitStores THEN EndOf(ptail[p], pdata[p]) ELSE Wrap(EndOf(ptail[p], pdata[p]))
    BY <1>1, <1>11 DEF EnQueueTail, TypeOK
  <2>2. TornInv'
    <3>1. /\ ptail[p] \in Cells /\ pdata[p] \in Messages /\ TotalLen(pdata[p]) < N
      BY <1>1, <2>1 DEF IInv, TypeOK, WriterInv, TailInv
    <3>2. EndOf(ptail[p], pdata[p]) \in 0 .. N
      BY <3>1, EndOfRange
    <3>3. Wrap(EndOf(ptail[p], pdata[p])) # N
      BY <1>3, <3>2 DEF Wrap
    <3>4. QED
      BY <1>1, <2>1, <3>3 DEF TornInv
  <2>3. RingInv'
    BY <1>1, <1>11, TailRing
  <2>4. Len(fifo') = Len(fifo) + 1 /\ fifo' # <<>> /\ (fifo # <<>> => fifo'[1] = fifo[1])
    <3>1. fifo \in Seq([pos : Cells, data : Messages])
          /\ [pos |-> ptail[p], data |-> pdata[p]] \in [pos : Cells, data : Messages]
      BY <1>1, <2>1 DEF IInv, TypeOK, WriterInv
    <3>2. QED
      BY <2>1, <3>1, AppendProperties
  <2>5. ReadingInv'
    BY <1>1, <2>1, <2>4 DEF ReadingInv, consVars, TotalLen
  <2>6. TokenInv' /\ CountInv'
    <3>1. Unnotified = 0 /\ Unnotified' = 1 /\ Uncounted = 0 /\ Uncounted' = 1
      BY <1>2, <2>1
    <3>2. TokenInv'
      BY <1>1, <1>2, <1>3, <2>1, <2>4, <3>1 DEF TokenInv
    <3>3. PICK z \in Int : enqueue_num + Uncounted = dequeue_num + Undrained + Len(fifo) + z * CountMod
      BY <1>1 DEF CountInv
    <3>4. enqueue_num \in Int /\ dequeue_num \in Int /\ z * CountMod \in Int
      BY <1>1, ConstantsAssumption DEF TypeOK
    <3>5. enqueue_num' + Uncounted' = dequeue_num' + Undrained' + Len(fifo') + z * CountMod
      BY <1>2, <1>3, <2>1, <2>4, <3>1, <3>3, <3>4
    <3>6. QED
      BY <3>2, <3>5 DEF CountInv
  <2>7. QED
    BY <1>1, <1>11, <2>2, <2>3, <2>5, <2>6, PushInv DEF RInv, PushStep
<1>12. CASE EnQueueWrap(p)
  <2>1. /\ ppc[p] = "wrap" /\ ppc'[p] = "notify" /\ tail' = Wrap(tail)
        /\ UNCHANGED <<fifo, buffer, head, pipe, enqueue_num, dequeue_num, consVars>>
    BY <1>1, <1>12 DEF EnQueueWrap, TypeOK
  <2>2. Wrap(tail') = Wrap(tail) /\ Wrap(head') = Wrap(head)
    BY <1>1, <2>1, WrapRange DEF TypeOK
  <2>3. TornInv'
    BY <1>1, <1>3, <2>1 DEF TornInv, TypeOK, Wrap
  <2>4. QED
    BY <1>1, <1>2, <1>4, <1>5, <1>6, <1>12, <2>1, <2>2, <2>3, PushInv DEF RInv, PushStep
<1>13. CASE EnQueueNotify(p)
  <2>1. /\ ppc[p] = "notify" /\ ppc'[p] = "count" /\ pipe' = IF pipe < PipeCap THEN pipe + 1 ELSE pipe
        /\ UNCHANGED <<fifo, buffer, head, tail, enqueue_num, dequeue_num, consVars>>
    BY <1>1, <1>13 DEF EnQueueNotify, TypeOK
  <2>2. TornInv'
    BY <1>1, <2>1 DEF TornInv
  <2>3. TokenInv'
    <3>1. Unnotified = 1 /\ Unnotified' = 0
      BY <1>2, <2>1
    <3>2. pipe' \in Nat /\ pipe <= pipe' /\ pipe' <= pipe + 1
      BY <1>3, <2>1
    <3>3. QED
      BY <1>1, <1>2, <1>3, <2>1, <3>1, <3>2 DEF TokenInv
  <2>4. CountInv'
    BY <1>1, <1>2, <2>1 DEF CountInv
  <2>5. QED
    BY <1>1, <1>4, <1>6, <1>13, <2>1, <2>2, <2>3, <2>4, PushInv DEF RInv, PushStep, Wrap
<1>14. CASE PushDone(p)
  <2>1. /\ ppc[p] = "count" /\ ppc'[p] = "idle" /\ enqueue_num' = Incr(enqueue_num)
        /\ UNCHANGED <<fifo, buffer, head, tail, pipe, dequeue_num, consVars>>
    BY <1>1, <1>14 DEF PushDone, PushReturn, TypeOK
  <2>2. TornInv'
    BY <1>1, <2>1 DEF TornInv
  <2>3. TokenInv'
    BY <1>1, <1>2, <2>1 DEF TokenInv
  <2>4. CountInv'
    <3>1. PICK z \in Int : enqueue_num + Uncounted = dequeue_num + Undrained + Len(fifo) + z * CountMod
      BY <1>1 DEF CountInv
    <3>2. PICK y \in {0, 1} : Incr(enqueue_num) = enqueue_num + 1 - y * CountMod
      BY <1>1, IncrRound DEF TypeOK
    <3>3. Uncounted = 1 /\ Uncounted' = 0
      BY <1>2, <2>1
    <3>4. /\ enqueue_num \in Int /\ dequeue_num \in Int /\ z * CountMod \in Int /\ y * CountMod \in Int
          /\ z - y \in Int /\ (z - y) * CountMod = z * CountMod - y * CountMod
      BY <1>1, ConstantsAssumption, Rounds DEF TypeOK
    <3>5. enqueue_num' + Uncounted' = dequeue_num' + Undrained' + Len(fifo') + (z - y) * CountMod
      BY <1>2, <1>3, <2>1, <3>1, <3>2, <3>3, <3>4
    <3>6. QED
      BY <3>4, <3>5 DEF CountInv
  <2>5. QED
    BY <1>1, <1>4, <1>6, <1>14, <2>1, <2>2, <2>3, <2>4, PushInv DEF RInv, PushStep, Wrap
<1>15. QED
  BY <1>7, <1>8, <1>9, <1>10, <1>11, <1>12, <1>13, <1>14 DEF PushStep

\* While one consumer works the others wait outside.
LEMMA PopFlags ==
  ASSUME IInv, NEW c \in Consumers, PopStep(c), ~PopLock(c)
  PROVE  /\ \A d \in Consumers : d # c => cpc[d] \in {"idle", "lock"}
         /\ \A d \in Consumers : d # c => /\ cpc'[d] = cpc[d] /\ clen'[d] = clen[d]
                                          /\ cused'[d] = cused[d] /\ cbuf'[d] = cbuf[d]
         /\ Undrained = IF cpc[c] \in {"wrap", "drain"} THEN 1 ELSE 0
         /\ Undrained' = IF cpc'[c] \in {"wrap", "drain"} THEN 1 ELSE 0
<1>1. TypeOK /\ ReaderInv
  BY DEF IInv
<1>2. cpc[c] \notin {"idle", "lock"}
  BY DEF PopStep, DeQueueEmpty, DeQueueEmptyReturn, DeQueueTiny, DeQueueCursors, DeQueueHeader,
         DeQueueTooLong, DeQueueCopy, DeQueueHead, DeQueueWrap, PopDone
<1>3. \A d \in Consumers : d # c => cpc[d] \in {"idle", "lock"}
  BY <1>1, <1>2, OneReader
<1>4. \A d \in Consumers : d # c => /\ cpc'[d] = cpc[d] /\ clen'[d] = clen[d]
                                    /\ cused'[d] = cused[d] /\ cbuf'[d] = cbuf[d]
  BY <1>1 DEF TypeOK, PopStep, DeQueueEmpty, DeQueueEmptyReturn, DeQueueTiny, DeQueueCursors,
              DeQueueHeader, DeQueueTooLong, DeQueueCopy, DeQueueHead, DeQueueWrap, PopDone, PopReturn
<1>5. QED
  BY <1>3, <1>4 DEF Undrained

\* When DeQueue finds the cursors apart there is a message, and all of it.
LEMMA CursorsSeen ==
  ASSUME RInv, NEW c \in Consumers, cpc[c] = "cursors", head # tail
  PROVE  fifo # <<>> /\ UsedLen(head, tail) >= TotalLen(fifo[1].data)
<1>1. IInv /\ TypeOK /\ RingInv /\ TornInv /\ TokenInv
  BY DEF RInv, IInv
<1> PICK off : Laid(off)
  BY <1>1 DEF RingInv
<1> DEFINE n == Len(fifo)
           h == Wrap(head)
           e == off[n + 1]
<1>2. /\ n \in Nat /\ N \in Nat /\ 0 < N /\ h \in Cells /\ h \in Nat /\ h < N
      /\ e \in Nat /\ e \in h .. h + N - 1
  <2>1. n + 1 \in 1 .. n + 1 /\ n \in Nat
    BY <1>1, MessageTypes
  <2>2. QED
    BY <1>1, <2>1, OffsetTypes, Numbers
<1>3. head = h /\ off[1] = h /\ tail \in 0 .. N /\ Wrap(tail) = CellAt(e, 0)
  BY <1>1, ReaderAt DEF Laid, TypeOK
<1>4. n # 0
  <2> SUFFICES ASSUME n = 0 PROVE FALSE
    OBVIOUS
  <2>1. Wrap(tail) = h
    BY <1>2, <1>3 DEF CellAt
  <2>2. tail = N
    BY <1>3, <2>1, WrapRange
  <2>3. SplitStores /\ Unnotified = 1
    BY <1>1, <2>2 DEF TornInv, IInv, TailInv, Unnotified
  <2>4. pipe > 0 /\ pipe + 1 <= 0 + Undrained
    BY <1>1, <2>3 DEF TokenInv
  <2>5. pipe \in Nat /\ Undrained \in {0, 1}
    BY <1>1, FlagTypes, ConstantsAssumption DEF TypeOK
  <2>6. QED
    BY <2>4, <2>5
<1>5. TotalLen(fifo[1].data) \in Nat /\ TotalLen(fifo[1].data) > 0 /\ h + TotalLen(fifo[1].data) <= e
  <2>1. 1 \in 1 .. n
    BY <1>2, <1>4
  <2>2. QED
    BY <1>1, <1>3, <2>1, OffsetTypes
<1> HIDE DEF n, h, e
<1>6. UsedLen(head, tail) = e - h
  BY <1>2, <1>3, <1>5 DEF UsedLen, Wrap, CellAt
<1>7. UsedLen(head, tail) >= TotalLen(fifo[1].data)
  BY <1>2, <1>5, <1>6
<1>8. fifo # <<>>
  BY <1>4 DEF n
<1>9. QED
  BY <1>7, <1>8

\* What DeQueue copies out is the oldest message.
LEMMA FrontRead ==
  ASSUME RInv, NEW c \in Consumers, cpc[c] \in {"header", "copy"}
  PROVE  /\ fifo[1].data \in Messages
         /\ LengthOf(ReadHeader(buffer, chead[c])) = Len(fifo[1].data)
         /\ ReadData(buffer, AfterHeader(chead[c]), Len(fifo[1].data)) = fifo[1].data
<1>1. IInv /\ TypeOK /\ RingInv /\ ReadingInv
  BY DEF RInv, IInv
<1> PICK off : Laid(off)
  BY <1>1 DEF RingInv
<1>2. fifo # <<>>
  BY <1>1 DEF ReadingInv
<1>3. 1 \in 1 .. Len(fifo)
  BY <1>1, <1>2, MessageTypes DEF TypeOK
<1>4. fifo[1].data \in Messages
  BY <1>1, <1>3, MessageTypes
<1>5. chead[c] = fifo[1].pos
  <2>1. chead[c] = off[1] /\ off[1] \in Cells
    BY <1>1, ReaderAt
  <2>2. fifo[1].pos = CellAt(off[1], 0)
    BY <1>3 DEF Laid
  <2>3. QED
    BY <2>1, <2>2, Numbers DEF CellAt
<1>6. StoredIntact
  BY <1>1, StoredFollow
<1>7. /\ ReadHeader(buffer, chead[c]) = Header(Len(fifo[1].data))
      /\ ReadData(buffer, AfterHeader(chead[c]), Len(fifo[1].data)) = fifo[1].data
  BY <1>3, <1>5, <1>6 DEF StoredIntact
<1>8. QED
  BY <1>4, <1>7, HeaderAssumption

\* The steps of Pop.
LEMMA PopRInv ==
  ASSUME SafeUse, RInv, NEW c \in Consumers, (\E k \in BufSizes : PopCall(c, k)) \/ PopStep(c)
  PROVE  RInv'
<1>1. IInv /\ TypeOK /\ RingInv /\ ReadingInv /\ TornInv /\ TokenInv /\ CountInv
  BY DEF RInv, IInv
<1>2. IInv'
  BY <1>1, PopInv
<1>3. /\ Len(fifo) \in Nat /\ pipe \in Nat /\ N \in Nat /\ 0 < N
      /\ Undrained \in {0, 1} /\ Unnotified \in {0, 1} /\ Uncounted \in {0, 1}
  BY <1>1, MessageTypes, FlagTypes, Numbers, ConstantsAssumption DEF TypeOK
<1>4. UNCHANGED prodVars => Unnotified' = Unnotified /\ Uncounted' = Uncounted
  BY DEF prodVars, Unnotified, Uncounted
<1>5. UNCHANGED <<head, tail>> => TornInv'
  BY <1>1 DEF TornInv
\* Steps that leave the ring alone.
<1>6. UNCHANGED <<buffer, head, tail, fifo, prodVars>> => RingInv'
  BY <1>1, RingStays DEF prodVars, Wrap
<1>7. ASSUME fifo' = fifo, enqueue_num' = enqueue_num, dequeue_num' = dequeue_num,
             UNCHANGED prodVars, Undrained' = Undrained
      PROVE  CountInv'
  BY <1>1, <1>4, <1>7 DEF CountInv
<1>8. ASSUME fifo' = fifo, pipe' = pipe, UNCHANGED prodVars, Undrained' = Undrained,
             \A d \in Consumers : cpc'[d] = "idle" \/ cpc[d] # "idle" \/ (SplitStores => pipe > 0)
      PROVE  TokenInv'
  BY <1>1, <1>4, <1>8 DEF TokenInv
<1>9. CASE \E k \in BufSizes : PopCall(c, k)
  <2>1. /\ cpc[c] = "idle" /\ cpc' = [cpc EXCEPT ![c] = "lock"] /\ (Polling \/ pipe > 0)
        /\ UNCHANGED <<buffer, head, tail, pipe, enqueue_num, dequeue_num, fifo, prodVars>>
        /\ UNCHANGED <<clen, cused, cbuf>>
    BY <1>9 DEF PopCall
  <2>2. \A d \in Consumers : d # c => cpc'[d] = cpc[d]
    BY <1>1, <2>1 DEF TypeOK
  <2>3. cpc'[c] = "lock"
    BY <1>1, <2>1 DEF TypeOK
  <2>4. Undrained' = Undrained
    BY <2>1, <2>2, <2>3 DEF Undrained
  <2>5. ReadingInv'
    BY <1>1, <2>1, <2>2, <2>3 DEF ReadingInv, TotalLen
  <2>6. SplitStores => pipe > 0
    BY <2>1 DEF SafeUse
  <2>7. TokenInv'
    BY <1>8, <2>1, <2>4, <2>6
  <2>8. QED
    BY <1>2, <1>5, <1>6, <1>7, <2>1, <2>4, <2>5, <2>7 DEF RInv
<1>10. CASE PopLock(c)
  <2>1. /\ cpc[c] = "lock" /\ cpc' = [cpc EXCEPT ![c] = "cursors"]
        /\ UNCHANGED <<buffer, head, tail, pipe, enqueue_num, dequeue_num, fifo, prodVars>>
        /\ UNCHANGED <<clen, cused, cbuf>>
    BY <1>10 DEF PopLock
  <2>2. \A d \in Consumers : d # c => cpc'[d] = cpc[d]
    BY <1>1, <2>1 DEF TypeOK
  <2>3. cpc'[c] = "cursors"
    BY <1>1, <2>1 DEF TypeOK
  <2>4. Undrained' = Undrained
    BY <2>1, <2>2, <2>3 DEF Undrained
  <2>5. ReadingInv'
    BY <1>1, <2>1, <2>2, <2>3 DEF ReadingInv, TotalLen
  <2>6. TokenInv'
    BY <1>8, <2>1, <2>2, <2>4
  <2>7. QED
    BY <1>2, <1>5, <1>6, <1>7, <2>1, <2>4, <2>5, <2>6 DEF RInv
<1>11. ASSUME PopStep(c), ~PopLock(c)
       PROVE  /\ \A d \in Consumers : d # c => cpc[d] \in {"idle", "lock"}
              /\ \A d \in Consumers : d # c => /\ cpc'[d] = cpc[d] /\ clen'[d] = clen[d]
                                               /\ cused'[d] = cused[d] /\ cbuf'[d] = cbuf[d]
              /\ Undrained = IF cpc[c] \in {"wrap", "drain"} THEN 1 ELSE 0
              /\ Undrained' = IF cpc'[c] \in {"wrap", "drain"} THEN 1 ELSE 0
  BY <1>1, <1>11, PopFlags
\* Inside DeQueue only c's own entries matter.
<1>12. ASSUME PopStep(c), ~PopLock(c), cpc'[c] # "abort",
              cpc'[c] \in {"header", "copy", "head"} => fifo' # <<>> /\ cused'[c] >= TotalLen(fifo'[1].data),
              cpc'[c] \in {"idle", "lock", "cursors", "header"} => clen'[c] = 0,
              cpc'[c] \in {"copy", "head"} => clen'[c] = Len(fifo'[1].data),
              cpc'[c] = "head" => cbuf'[c] = fifo'[1].data
       PROVE  ReadingInv'
  <2>1. \A d \in Consumers : d # c => cpc'[d] \in {"idle", "lock"} /\ clen'[d] = 0
    BY <1>1, <1>11, <1>12 DEF ReadingInv
  <2>2. QED
    BY <1>12, <2>1 DEF ReadingInv, TotalLen
\* Under SafeUse nobody else counts on the byte that c takes out of the pipe.
<1>13. ASSUME SplitStores, cpc[c] # "idle"
       PROVE  pipe > 0 /\ \A d \in Consumers : d = c
  BY <1>1, <1>13 DEF TokenInv, SafeUse
<1>14. CASE DeQueueEmpty(c)
  <2>1. /\ cpc[c] = "cursors" /\ cpc'[c] = "empty" /\ PopStep(c) /\ ~PopLock(c)
        /\ UNCHANGED <<buffer, head, tail, pipe, enqueue_num, dequeue_num, fifo, prodVars>>
    BY <1>1, <1>14 DEF DeQueueEmpty, TypeOK, PopStep, PopLock
  <2>2. Undrained' = Undrained /\ ReadingInv'
    BY <1>11, <1>12, <2>1
  <2>3. TokenInv'
    BY <1>8, <1>11, <2>1, <2>2
  <2>4. QED
    BY <1>2, <1>5, <1>6, <1>7, <2>1, <2>2, <2>3 DEF RInv
<1>15. CASE DeQueueEmptyReturn(c)
  <2>1. /\ cpc[c] = "empty" /\ cpc'[c] = "idle" /\ clen'[c] = 0 /\ PopStep(c) /\ ~PopLock(c)
        /\ pipe' = (IF pipe > 0 THEN pipe - 1 ELSE 0)
        /\ UNCHANGED <<buffer, head, tail, enqueue_num, dequeue_num, fifo, prodVars>>
    BY <1>1, <1>15 DEF DeQueueEmptyReturn, PopReturn, TypeOK, PopStep, PopLock
  <2>2. Undrained' = Undrained /\ ReadingInv'
    BY <1>11, <1>12, <2>1
  <2>3. TokenInv'
    <3> SUFFICES ASSUME SplitStores
                 PROVE  /\ \A d \in Consumers : cpc'[d] # "idle" => pipe' > 0
                        /\ pipe' + Unnotified' <= Len(fifo') + Undrained'
      BY DEF TokenInv
    <3>1. \A d \in Consumers : cpc'[d] = "idle"
      BY <1>13, <2>1
    <3>2. pipe' = pipe - 1 /\ pipe + Unnotified <= Len(fifo) + Undrained
      BY <1>1, <1>13, <2>1 DEF TokenInv
    <3>3. QED
      BY <1>3, <1>4, <2>1, <2>2, <3>1, <3>2
  <2>4. QED
    BY <1>2, <1>5, <1>6, <1>7, <2>1, <2>2, <2>3 DEF RInv
<1>16. CASE DeQueueTiny(c) \/ DeQueueTooLong(c)
  <2>1. /\ cpc[c] \in {"cursors", "copy"} /\ cpc'[c] = "idle" /\ clen'[c] = 0 /\ PopStep(c) /\ ~PopLock(c)
        /\ UNCHANGED <<buffer, head, tail, pipe, enqueue_num, dequeue_num, fifo, prodVars>>
    BY <1>1, <1>16 DEF DeQueueTiny, DeQueueTooLong, PopReturn, TypeOK, PopStep, PopLock
  <2>2. Undrained' = Undrained /\ ReadingInv'
    BY <1>11, <1>12, <2>1
  <2>3. TokenInv'
    BY <1>8, <1>11, <2>1, <2>2
  <2>4. QED
    BY <1>2, <1>5, <1>6, <1>7, <2>1, <2>2, <2>3 DEF RInv
<1>17. CASE DeQueueCursors(c)
  <2>1. /\ cpc[c] = "cursors" /\ cpc'[c] = "header" /\ head # tail /\ PopStep(c) /\ ~PopLock(c)
        /\ cused'[c] = UsedLen(head, tail) /\ clen' = clen
        /\ UNCHANGED <<buffer, head, tail, pipe, enqueue_num, dequeue_num, fifo, prodVars>>
    BY <1>1, <1>17 DEF DeQueueCursors, TypeOK, PopStep, PopLock
  <2>2. fifo # <<>> /\ UsedLen(head, tail) >= TotalLen(fifo[1].data)
    BY <2>1, CursorsSeen
  <2>3. clen[c] = 0
    BY <1>1, <2>1 DEF ReadingInv
  <2>4. Undrained' = Undrained /\ ReadingInv'
    BY <1>11, <1>12, <2>1, <2>2, <2>3
  <2>5. TokenInv'
    BY <1>8, <1>11, <2>1, <2>4
  <2>6. QED
    BY <1>2, <1>5, <1>6, <1>7, <2>1, <2>4, <2>5 DEF RInv
<1>18. CASE DeQueueHeader(c)
  <2>1. /\ cpc[c] = "header" /\ PopStep(c) /\ ~PopLock(c) /\ cused' = cused
        /\ clen'[c] = LengthOf(ReadHeader(buffer, chead[c]))
        /\ cpc'[c] = IF cused[c] >= LengthOf(ReadHeader(buffer, chead[c])) + H THEN "copy" ELSE "abort"
        /\ UNCHANGED <<buffer, head, tail, pipe, enqueue_num, dequeue_num, fifo, prodVars>>
    BY <1>1, <1>18 DEF DeQueueHeader, TypeOK, PopStep, PopLock
  <2>2. /\ LengthOf(ReadHeader(buffer, chead[c])) = Len(fifo[1].data)
        /\ fifo # <<>> /\ cused[c] >= TotalLen(fifo[1].data)
    BY <1>1, <2>1, FrontRead DEF ReadingInv
  <2>3. cpc'[c] = "copy"
    BY <2>1, <2>2 DEF TotalLen
  <2>4. Undrained' = Undrained /\ ReadingInv'
    BY <1>11, <1>12, <2>1, <2>2, <2>3
  <2>5. TokenInv'
    BY <1>8, <1>11, <2>1, <2>4
  <2>6. QED
    BY <1>2, <1>5, <1>6, <1>7, <2>1, <2>4, <2>5 DEF RInv
<1>19. CASE DeQueueCopy(c)
  <2>1. /\ cpc[c] = "copy" /\ cpc'[c] = "head" /\ PopStep(c) /\ ~PopLock(c) /\ cused' = cused /\ clen' = clen
        /\ cbuf'[c] = ReadData(buffer, AfterHeader(chead[c]), clen[c])
        /\ UNCHANGED <<buffer, head, tail, pipe, enqueue_num, dequeue_num, fifo, prodVars>>
    BY <1>1, <1>19 DEF DeQueueCopy, TypeOK, PopStep, PopLock
  <2>2. /\ ReadData(buffer, AfterHeader(chead[c]), Len(fifo[1].data)) = fifo[1].data
        /\ fifo # <<>> /\ cused[c] >= TotalLen(fifo[1].data) /\ clen[c] = Len(fifo[1].data)
    BY <1>1, <2>1, FrontRead DEF ReadingInv
  <2>3. Undrained' = Undrained /\ ReadingInv'
    BY <1>11, <1>12, <2>1, <2>2
  <2>4. TokenInv'
    BY <1>8, <1>11, <2>1, <2>3
  <2>5. QED
    BY <1>2, <1>5, <1>6, <1>7, <2>1, <2>3, <2>4 DEF RInv
<1>20. CASE DeQueueHead(c)
  <2>1. /\ cpc[c] = "head" /\ cpc'[c] = "wrap" /\ PopStep(c) /\ ~PopLock(c)
        /\ fifo' = IF fifo = <<>> THEN fifo ELSE Tail(fifo)
        /\ UNCHANGED <<buffer, tail, pipe, enqueue_num, dequeue_num, prodVars>>
    BY <1>1, <1>20 DEF DeQueueHead, TypeOK, PopStep, PopLock
  <2>2. RingInv'
    BY <1>1, <1>20, HeadRing
  <2>3. ReadingInv' /\ Undrained = 0 /\ Undrained' = 1
    BY <1>11, <1>12, <2>1
  <2>4. Len(fifo') = Len(fifo) - 1
    <3>1. fifo # <<>> /\ fifo \in Seq([pos : Cells, data : Messages])
      BY <1>1, <2>1 DEF ReadingInv, TypeOK
    <3>2. QED
      BY <2>1, <3>1, HeadTailProperties
  <2>5. TornInv'
    <3>1. ASSUME ~SplitStores PROVE head' # N
      <4>1. head' = Wrap(AfterData(AfterHeader(chead[c]), clen[c]))
        BY <1>20, <3>1 DEF DeQueueHead
      <4>2. head' \in 0 .. N
        BY <1>2 DEF IInv, TypeOK
      <4>3. QED
        BY <1>3, <4>1, <4>2 DEF Wrap
    <3>2. QED
      BY <1>1, <2>1, <3>1 DEF TornInv
  <2>6. TokenInv'
    <3>1. \A d \in Consumers : cpc'[d] = "idle" \/ cpc[d] # "idle"
      BY <1>11, <2>1
    <3>2. QED
      BY <1>1, <1>3, <1>4, <2>1, <2>3, <2>4, <3>1 DEF TokenInv
  <2>7. CountInv'
    <3>1. PICK z \in Int : enqueue_num + Uncounted = dequeue_num + Undrained + Len(fifo) + z * CountMod
      BY <1>1 DEF CountInv
    <3>2. enqueue_num \in Int /\ dequeue_num \in Int /\ z * CountMod \in Int
      BY <1>1, ConstantsAssumption DEF TypeOK
    <3>3. enqueue_num' + Uncounted' = dequeue_num' + Undrained' + Len(fifo') + z * CountMod
      BY <1>3, <1>4, <2>1, <2>3, <2>4, <3>1, <3>2
    <3>4. QED
      BY <3>3 DEF CountInv
  <2>8. QED
    BY <1>2, <2>2, <2>3, <2>5, <2>6, <2>7 DEF RInv
<1>21. CASE DeQueueWrap(c)
  <2>1. /\ cpc[c] = "wrap" /\ cpc'[c] = "drain" /\ head' = Wrap(head) /\ PopStep(c) /\ ~PopLock(c)
        /\ UNCHANGED <<buffer, tail, pipe, enqueue_num, dequeue_num, fifo, prodVars>>
    BY <1>1, <1>21 DEF DeQueueWrap, TypeOK, PopStep, PopLock
  <2>2. Wrap(head') = Wrap(head) /\ Wrap(tail') = Wrap(tail)
    BY <1>1, <2>1, WrapRange DEF TypeOK
  <2>3. RingInv'
    BY <1>1, <2>1, <2>2, RingStays DEF prodVars
  <2>4. Undrained' = Undrained /\ ReadingInv'
    BY <1>11, <1>12, <2>1
  <2>5. TornInv'
    BY <1>1, <1>3, <2>1 DEF TornInv, TypeOK, Wrap
  <2>6. TokenInv'
    BY <1>8, <1>11, <2>1, <2>4
  <2>7. QED
    BY <1>2, <1>7, <2>1, <2>3, <2>4, <2>5, <2>6 DEF RInv
<1>22. CASE PopDone(c)
  <2>1. /\ cpc[c] = "drain" /\ cpc'[c] = "idle" /\ clen'[c] = 0 /\ PopStep(c) /\ ~PopLock(c)
        /\ pipe' = (IF pipe > 0 THEN pipe - 1 ELSE 0) /\ dequeue_num' = Incr(dequeue_num)
        /\ UNCHANGED <<buffer, head, tail, enqueue_num, fifo, prodVars>>
    BY <1>1, <1>22 DEF PopDone, PopReturn, TypeOK, PopStep, PopLock
  <2>2. Undrained = 1 /\ Undrained' = 0 /\ ReadingInv'
    BY <1>11, <1>12, <2>1
  <2>3. TokenInv'
    <3> SUFFICES ASSUME SplitStores
                 PROVE  /\ \A d \in Consumers : cpc'[d] # "idle" => pipe' > 0
                        /\ pipe' + Unnotified' <= Len(fifo') + Undrained'
      BY DEF TokenInv
    <3>1. \A d \in Consumers : cpc'[d] = "idle"
      BY <1>13, <2>1
    <3>2. pipe' = pipe - 1 /\ pipe + Unnotified <= Len(fifo) + Undrained
      BY <1>1, <1>13, <2>1 DEF TokenInv
    <3>3. QED
      BY <1>3, <1>4, <2>1, <2>2, <3>1, <3>2
  <2>4. CountInv'
    <3>1. PICK z \in Int : enqueue_num + Uncounted = dequeue_num + Undrained + Len(fifo) + z * CountMod
      BY <1>1 DEF CountInv
    <3>2. PICK y \in {0, 1} : Incr(dequeue_num) = dequeue_num + 1 - y * CountMod
      BY <1>1, IncrRound DEF TypeOK
    <3>3. /\ enqueue_num \in Int /\ dequeue_num \in Int /\ z * CountMod \in Int /\ y * CountMod \in Int
          /\ z + y \in Int /\ (z + y) * CountMod = z * CountMod + y * CountMod
      BY <1>1, ConstantsAssumption, Rounds DEF TypeOK
    <3>4. enqueue_num' + Uncounted' = dequeue_num' + Undrained' + Len(fifo') + (z + y) * CountMod
      BY <1>3, <1>4, <2>1, <2>2, <3>1, <3>2, <3>3
    <3>5. QED
      BY <3>3, <3>4 DEF CountInv
  <2>5. QED
    BY <1>2, <1>5, <1>6, <2>1, <2>2, <2>3, <2>4 DEF RInv
<1>23. QED
  BY <1>9, <1>10, <1>14, <1>15, <1>16, <1>17, <1>18, <1>19, <1>20, <1>21, <1>22 DEF PopStep

LEMMA StepRInv == SafeUse /\ RInv /\ [Next]_vars => RInv'
<1> SUFFICES ASSUME SafeUse, RInv, [Next]_vars PROVE RInv'
  OBVIOUS
<1>1. CASE Next
  BY <1>1, PushRInv, PopRInv DEF Next
<1>2. CASE UNCHANGED vars
  <2>1. IInv'
    BY <1>2, StepInv DEF RInv
  <2>2. RingInv'
    BY <1>2, RingStays DEF RInv, vars, prodVars, Wrap
  <2>3. ReadingInv' /\ TornInv'
    BY <1>2 DEF RInv, ReadingInv, TornInv, TotalLen, vars, consVars
  <2>4. TokenInv' /\ CountInv'
    BY <1>2 DEF RInv, TokenInv, CountInv, Unnotified, Uncounted, Undrained, vars, prodVars, consVars
  <2>5. QED
    BY <2>1, <2>2, <2>3, <2>4 DEF RInv
<1>3. QED
  BY <1>1, <1>2

-----------------------------------------------------------------------------
(* What follows *)

LEMMA RInvSound == RInv => RingSound
<1> SUFFICES ASSUME RInv PROVE RingSound
  OBVIOUS
<1>1. IInv /\ TypeOK /\ RingInv /\ ReadingInv /\ CountInv
  BY DEF RInv, IInv
<1>2. CursorsDelimitFifo /\ StoredIntact /\ CopiesDisjoint /\ CountersAgree
  BY <1>1, CursorsFollow, StoredFollow, DisjointFollow, CountersFollow
<1>3. AssertHolds
  BY <1>1 DEF ReadingInv, AssertHolds
<1>4. QED
  BY <1>1, <1>2, <1>3 DEF RingSound

\* The cursors delimit the accepted messages, what DeQueue would read is what
\* EnQueue wrote, no copy overlaps another, the assertion at net_queue.cc:127
\* never fails and the counters agree (net_queue.cc:57-149), as long as the
\* stores to the cursors are single ones or the queue is used by one consumer
\* that pops once per epoll event.
THEOREM RingCorrect == SafeUse => (Spec => []RingSound)
<1> SUFFICES ASSUME SafeUse PROVE Spec => []RingSound
  OBVIOUS
<1>1. RInv /\ [Next]_vars => RInv'
  BY StepRInv
<1>2. QED
  BY RInvInit, RInvSound, <1>1, PTL DEF Spec

-----------------------------------------------------------------------------
(* What the callers get: the bounded first-in first-out queue *)

\* The stored messages lie end to end, so their sizes add up to the distance
\* between the cursors.
LEMMA QueuedSize ==
  ASSUME TypeOK, NEW off, Laid(off)
  PROVE  BytesOf(Queued) = off[Len(fifo) + 1] - off[1]
<1> DEFINE n == Len(fifo)
           f == [i \in DOMAIN Queued |-> TotalLen(Queued[i])]
<1>1. n \in Nat /\ DOMAIN Queued = 1 .. n /\ \A i \in 1 .. n : Queued[i] = fifo[i].data
  BY MessageTypes DEF TypeOK, Queued
<1>2. \A i \in 1 .. n : f[i] = TotalLen(fifo[i].data)
  BY <1>1
<1>3. \A i \in 1 .. n : TotalLen(fifo[i].data) \in Nat
  BY OffsetTypes
<1>4. \A i \in 1 .. n + 1 : off[i] \in Int
  BY OffsetTypes
<1>5. \A i \in 1 .. n : off[i + 1] = off[i] + TotalLen(fifo[i].data)
  BY DEF Laid
<1>6. BytesOf(Queued) = SumFunctionOnSet(f, 1 .. n)
  BY <1>1 DEF BytesOf
<1> HIDE DEF f
<1>7. SumFunctionOnSet(f, 1 .. n) = off[n + 1] - off[1]
  <2>1. /\ \A i \in 1 .. n : f[i] \in Int
        /\ \A i \in 1 .. n : off[i + 1] = off[i] + f[i]
    BY <1>2, <1>3, <1>5
  <2> HIDE DEF n
  <2>2. n \in Nat
    BY <1>1
  <2>3. QED
    BY ONLY <1>4, <2>1, <2>2, SumSteps, Zenon
<1>8. QED
  BY <1>6, <1>7

\* They never fill the ring: one cell stays free.
LEMMA BytesFit == RInv => BytesOf(Queued) <= N - 1
<1> SUFFICES ASSUME RInv PROVE BytesOf(Queued) <= N - 1
  OBVIOUS
<1>1. TypeOK /\ RingInv
  BY DEF RInv, IInv
<1> PICK off : Laid(off)
  BY <1>1 DEF RingInv
<1>2. Len(fifo) + 1 \in 1 .. Len(fifo) + 1 /\ 1 \in 1 .. Len(fifo) + 1
  BY <1>1, MessageTypes
<1>3. off[Len(fifo) + 1] \in Nat /\ off[1] \in Nat
  BY <1>1, <1>2, OffsetTypes
<1>4. off[Len(fifo) + 1] < off[1] + N
  BY DEF Laid
<1>5. BytesOf(Queued) = off[Len(fifo) + 1] - off[1]
  BY <1>1, QueuedSize
<1>6. QED
  BY <1>3, <1>4, <1>5, Numbers

\* Push does what Put does, and otherwise nothing that the callers see.
LEMMA PushRefines ==
  ASSUME RInv, RInv', NEW p \in Producers,
         (\E m \in Messages : PushCall(p, m)) \/ PushStep(p)
  PROVE  [Fifo!Next]_(Fifo!vars)
<1>1. TypeOK /\ WriterInv
  BY DEF RInv, IInv
<1>2. CASE EnQueueTail(p)
  <2> DEFINE m == pdata[p]
  <2>1. m \in Messages /\ fifo' = Append(fifo, [pos |-> ptail[p], data |-> m]) /\ got' = got
    BY <1>1, <1>2 DEF WriterInv, EnQueueTail
  <2>2. fifo \in Seq([pos : Cells, data : Messages])
    BY <1>1 DEF TypeOK
  <2> HIDE DEF m
  <2>3. Queued' = Append(Queued, m)
    <3>1. Len(fifo) \in Nat /\ DOMAIN fifo = 1 .. Len(fifo)
      BY <2>2, LenProperties
    <3>2. /\ DOMAIN fifo' = 1 .. Len(fifo) + 1
          /\ \A i \in 1 .. Len(fifo) : fifo'[i] = fifo[i]
          /\ fifo'[Len(fifo) + 1].data = m
      BY <2>1, <2>2, <3>1
    <3>3. Queued = [i \in 1 .. Len(fifo) |-> fifo[i].data]
      BY <3>1 DEF Queued
    <3>4. Queued' = [i \in 1 .. Len(fifo) + 1 |-> fifo'[i].data]
      BY <3>2 DEF Queued
    <3>5. QED
      BY <3>1, <3>2, <3>3, <3>4
  <2>4. BytesOf(Queued)' <= N - 1
    <3>1. RInv'
      OBVIOUS
    <3>2. RInv' => (BytesOf(Queued) <= N - 1)'
      BY BytesFit, PTL
    <3>3. QED
      BY <3>1, <3>2
  <2>5. BytesOf(Append(Queued, m)) <= N - 1
    BY <2>3, <2>4
  <2>6. Fifo!Put(m)
    BY <2>1, <2>3, <2>5 DEF Fifo!Put
  <2>7. QED
    BY <2>1, <2>6 DEF Fifo!Next
<1>3. CASE ~EnQueueTail(p)
  <2>1. fifo' = fifo /\ got' = got
    BY <1>3 DEF PushStep, PushCall, EnQueueFull, EnQueueFits, EnQueueCopy, EnQueueWrap,
                EnQueueNotify, PushDone
  <2>2. QED
    BY <2>1 DEF Fifo!vars, Queued
<1>4. QED
  BY <1>2, <1>3

\* Pop does what Take does when it stores m_head.
LEMMA PopRefines ==
  ASSUME RInv, NEW c \in Consumers, (\E k \in BufSizes : PopCall(c, k)) \/ PopStep(c)
  PROVE  [Fifo!Next]_(Fifo!vars)
<1>1. TypeOK /\ ReadingInv
  BY DEF RInv, IInv
<1>2. CASE DeQueueHead(c)
  <2>1. fifo # <<>> /\ cbuf[c] = fifo[1].data
    BY <1>1, <1>2 DEF ReadingInv, DeQueueHead
  <2>2. fifo' = Tail(fifo) /\ got' = [got EXCEPT ![c] = fifo[1].data]
    BY <1>2, <2>1 DEF DeQueueHead
  <2>3. fifo \in Seq([pos : Cells, data : Messages])
    BY <1>1 DEF TypeOK
  <2>4. Len(fifo) \in Nat /\ Len(fifo) # 0 /\ DOMAIN fifo = 1 .. Len(fifo)
    BY <2>1, <2>3, LenProperties, EmptySeq
  <2>5. /\ DOMAIN fifo' = 1 .. Len(fifo) - 1
        /\ \A i \in 1 .. Len(fifo) - 1 : fifo'[i] = fifo[i + 1]
    BY <2>2, <2>3, <2>4
  <2>6. Queued = [i \in 1 .. Len(fifo) |-> fifo[i].data]
    BY <2>4 DEF Queued
  <2>7. Queued' = [i \in 1 .. Len(fifo) - 1 |-> fifo[i + 1].data]
    BY <2>5 DEF Queued
  <2>8. Queued' = Tail(Queued) /\ Queued # <<>> /\ Head(Queued) = fifo[1].data
    BY <2>4, <2>6, <2>7
  <2>9. Fifo!Take(c)
    BY <2>2, <2>8 DEF Fifo!Take
  <2>10. QED
    BY <2>9 DEF Fifo!Next
<1>3. CASE ~DeQueueHead(c)
  <2>1. fifo' = fifo /\ got' = got
    BY <1>3 DEF PopStep, PopCall, PopLock, DeQueueEmpty, DeQueueEmptyReturn, DeQueueTiny,
                DeQueueCursors, DeQueueHeader, DeQueueTooLong, DeQueueCopy, DeQueueWrap, PopDone
  <2>2. QED
    BY <2>1 DEF Fifo!vars, Queued
<1>4. QED
  BY <1>2, <1>3

\* The queue implements the bounded first-in first-out queue: every accepted
\* message is popped once, unchanged and in order, and the messages inside
\* never weigh more than the ring can hold (net_queue.cc:57-149).
THEOREM Refinement == SafeUse => (Spec => ImplementsFifo)
<1> SUFFICES ASSUME SafeUse PROVE Spec => ImplementsFifo
  OBVIOUS
<1>1. Init => Fifo!Init
  BY DEF Init, Fifo!Init, Queued
<1>2. RInv /\ [Next]_vars => RInv'
  BY StepRInv
<1>3. RInv /\ RInv' /\ [Next]_vars => [Fifo!Next]_(Fifo!vars)
  <2> SUFFICES ASSUME RInv, RInv', [Next]_vars PROVE [Fifo!Next]_(Fifo!vars)
    OBVIOUS
  <2>1. CASE UNCHANGED vars
    BY <2>1 DEF vars, Fifo!vars, Queued
  <2>2. QED
    BY <2>1, PushRefines, PopRefines DEF Next
<1>4. QED
  BY RInvInit, <1>1, <1>2, <1>3, PTL DEF Spec, ImplementsFifo, Fifo!Spec

-----------------------------------------------------------------------------
(* A rejected push, a message that nobody comes back for *)

\* What EnQueue computes from the cursors is what the stored messages leave free.
LEMMA FreeSeen ==
  ASSUME RInv, NEW p \in Producers, ppc[p] = "check"
  PROVE  FreeLen(head, tail) = N - BytesOf(Queued)
<1>1. IInv /\ TypeOK /\ RingInv /\ WriterInv /\ TailInv
  BY DEF RInv, IInv
<1> PICK off : Laid(off)
  BY <1>1 DEF RingInv
<1> DEFINE e == off[Len(fifo) + 1]
<1>2. Len(fifo) + 1 \in 1 .. Len(fifo) + 1
  BY <1>1, MessageTypes
<1>3. e \in Nat /\ e \in Wrap(head) .. Wrap(head) + N - 1 /\ Wrap(head) \in Nat
  BY <1>1, <1>2, OffsetTypes
<1>4. tail \in Cells /\ tail = CellAt(e, 0)
  <2>1. tail # N
    BY <1>1, OneWriter DEF TailInv
  <2>2. tail \in 0 .. N
    BY <1>1 DEF TypeOK
  <2>3. Wrap(tail) = tail /\ Wrap(tail) \in Cells
    BY <2>1, <2>2, WrapRange
  <2>4. QED
    BY <2>3 DEF Laid
<1>5. head \in 0 .. N
  BY <1>1 DEF TypeOK
<1>6. off[1] = Wrap(head) /\ BytesOf(Queued) = e - off[1]
  BY <1>1, QueuedSize DEF Laid
<1> HIDE DEF e
<1>7. FreeLen(head, tail) = Wrap(head) + N - e
  BY <1>3, <1>4, <1>5, RoomSeen
<1>8. QED
  BY <1>3, <1>6, <1>7, Numbers

\* Push returns -1 only for a message that does not fit next to what is stored:
\* neither a cursor in transit nor a pop in progress makes the ring look fuller
\* than it is (net_queue.cc:63-67).
THEOREM RejectedOnlyWhenFull == SafeUse => (Spec => RejectOnlyWhenFull)
<1> SUFFICES ASSUME SafeUse PROVE Spec => RejectOnlyWhenFull
  OBVIOUS
<1> DEFINE Full(p) == BytesOf(Queued) + TotalLen(pdata[p]) >= N
           Fair == \A p \in Producers : ppc[p] = "check" /\ ppc'[p] = "idle" => Full(p)
<1>1. RInv /\ [Next]_vars => RInv'
  BY StepRInv
<1>2. RInv /\ [Next]_vars => [Fair]_vars
  <2> SUFFICES ASSUME RInv, [Next]_vars, NEW p \in Producers, ppc[p] = "check", ppc'[p] = "idle"
               PROVE  Full(p)
    OBVIOUS
  <2>1. TypeOK /\ WriterInv
    BY DEF RInv, IInv
  <2>2. ppc' # ppc
    OBVIOUS
  <2>3. PICK q \in Producers : (\E m \in Messages : PushCall(q, m)) \/ PushStep(q)
    <3>1. CASE UNCHANGED vars
      BY <2>2, <3>1 DEF vars, prodVars
    <3>2. ASSUME NEW c \in Consumers, (\E k \in BufSizes : PopCall(c, k)) \/ PopStep(c)
          PROVE  ppc' = ppc
      BY <3>2 DEF PopStep, PopCall, PopLock, DeQueueEmpty, DeQueueEmptyReturn, DeQueueTiny,
                  DeQueueCursors, DeQueueHeader, DeQueueTooLong, DeQueueCopy, DeQueueHead,
                  DeQueueWrap, PopDone, prodVars
    <3>3. QED
      BY <2>2, <3>1, <3>2 DEF Next
  <2>4. q = p
    BY <2>1, <2>3 DEF TypeOK, PushStep, PushCall, EnQueueFull, EnQueueFits, EnQueueCopy,
                      EnQueueTail, EnQueueWrap, EnQueueNotify, PushDone, PushReturn
  <2>5. EnQueueFull(p)
    BY <2>1, <2>3, <2>4 DEF TypeOK, PushStep, PushCall, EnQueueFull, EnQueueFits, EnQueueCopy,
                            EnQueueTail, EnQueueWrap, EnQueueNotify, PushDone
  <2>6. FreeLen(head, tail) <= TotalLen(pdata[p])
    BY <2>5 DEF EnQueueFull
  <2>7. FreeLen(head, tail) = N - BytesOf(Queued)
    BY FreeSeen
  <2>8. BytesOf(Queued) \in Int
    <3>1. TypeOK /\ RingInv
      BY DEF RInv, IInv
    <3> PICK off : Laid(off)
      BY <3>1 DEF RingInv
    <3>2. Len(fifo) + 1 \in 1 .. Len(fifo) + 1 /\ 1 \in 1 .. Len(fifo) + 1
      BY <3>1, MessageTypes
    <3>3. off[Len(fifo) + 1] \in Nat /\ off[1] \in Nat
      BY <3>1, <3>2, OffsetTypes
    <3>4. BytesOf(Queued) = off[Len(fifo) + 1] - off[1]
      BY <3>1, QueuedSize
    <3>5. QED
      BY <3>3, <3>4
  <2>9. TotalLen(pdata[p]) \in Nat
    BY <2>1, Numbers DEF WriterInv
  <2>10. QED
    BY <2>6, <2>7, <2>8, <2>9, Numbers
<1>3. QED
  BY RInvInit, <1>1, <1>2, PTL DEF Spec, RejectOnlyWhenFull

\* The use that the event loops of the library make of the queue: one consumer,
\* who pops once whenever epoll reports the pipe readable.
EpollUse == ~Polling /\ \A c, d \in Consumers : c = d

\* No push is about to write its byte into a full pipe.
PipeTakes == \A p \in Producers : ppc[p] = "notify" => pipe < PipeCap

\* The pipe has room for a byte per message the ring can hold and one more, for
\* the message that has just left the ring.
PipeRoom == N - 1 <= (PipeCap - 1) * H

\* While that is so the pipe counts the messages: a byte for each that is past
\* both stores and has not been drained.
WakeInv ==
  /\ \A c \in Consumers : cpc[c] # "idle" => pipe > 0
  /\ \A c \in Consumers : cpc[c] # "empty"
  /\ pipe + Unnotified = Len(fifo) + Undrained

\* Every message takes at least its prefix.
LEMMA FewMessages == ASSUME RInv PROVE Len(fifo) * H <= N - 1
<1>1. TypeOK /\ RingInv
  BY DEF RInv, IInv
<1> PICK off : Laid(off)
  BY <1>1 DEF RingInv
<1> DEFINE n == Len(fifo)
           T == {k \in Nat : k <= n => off[1] + k * H <= off[k + 1]}
<1>2. n \in Nat /\ H \in Nat /\ N \in Nat
  BY <1>1, MessageTypes, Numbers
<1>3. \A i \in 1 .. n + 1 : off[i] \in Nat
  BY <1>1, OffsetTypes
<1>4. \A i \in 1 .. n : off[i + 1] >= off[i] + H
  <2>1. ASSUME NEW i \in 1 .. n PROVE off[i + 1] >= off[i] + H
    <3>1. TotalLen(fifo[i].data) = Len(fifo[i].data) + H /\ Len(fifo[i].data) \in Nat
      BY <1>1, MessageTypes, Numbers
    <3>2. off[i + 1] = off[i] + TotalLen(fifo[i].data) /\ off[i] \in Nat
      BY <1>2, <1>3 DEF Laid
    <3>3. QED
      BY <1>2, <3>1, <3>2
  <2>2. QED
    BY <2>1
<1>5. off[n + 1] < off[1] + N
  BY DEF Laid
<1> HIDE DEF n
<1>6. 0 \in T
  BY <1>2, <1>3
<1>7. ASSUME NEW k \in T PROVE k + 1 \in T
  <2> SUFFICES ASSUME k + 1 <= n PROVE off[1] + (k + 1) * H <= off[k + 1 + 1]
    OBVIOUS
  <2>1. k \in Nat /\ off[1] + k * H <= off[k + 1]
    BY <1>2
  <2>2. k + 1 \in 1 .. n /\ k + 1 \in 1 .. n + 1 /\ k + 1 + 1 \in 1 .. n + 1 /\ 1 \in 1 .. n + 1
    BY <1>2, <2>1
  <2>3. off[k + 1 + 1] >= off[k + 1] + H
    BY <1>4, <2>2
  <2>4. off[1] \in Nat /\ off[k + 1] \in Nat /\ off[k + 1 + 1] \in Nat
    BY <1>3, <2>2
  <2>5. (k + 1) * H = k * H + H /\ k * H \in Nat
    BY <1>2, <2>1
  <2>6. QED
    BY <1>2, <2>1, <2>3, <2>4, <2>5
<1>8. T = Nat
  <2>1. T \in SUBSET Nat
    OBVIOUS
  <2> HIDE DEF T
  <2>2. QED
    BY <1>6, <1>7, <2>1, FromZero
<1>9. off[1] + n * H <= off[n + 1]
  <2>1. n \in T
    <3> HIDE DEF T
    <3>1. QED
      BY <1>2, <1>8
  <2>2. QED
    BY <1>2, <2>1
<1>10. off[1] \in Nat /\ off[n + 1] \in Nat /\ n * H \in Nat
  BY <1>2, <1>3
<1>11. n * H <= N - 1
  BY <1>2, <1>5, <1>9, <1>10
<1>12. QED
  BY <1>11 DEF n

LEMMA PipeSuffices ==
  ASSUME PipeRoom, RInv PROVE Len(fifo) + 1 <= PipeCap /\ Len(fifo) \in Nat
<1>1. Len(fifo) \in Nat /\ H \in Nat /\ 0 < H /\ N \in Nat /\ PipeCap \in Nat
  BY MessageTypes, Numbers, ConstantsAssumption DEF RInv, IInv
<1>2. Len(fifo) * H <= (PipeCap - 1) * H
  BY <1>1, FewMessages DEF PipeRoom
<1>3. \A a, b, m \in Int : 0 < m /\ a * m <= b * m => a <= b
  OBVIOUS
<1>4. Len(fifo) <= PipeCap - 1
  BY <1>1, <1>2, <1>3
<1>5. QED
  BY <1>1, <1>4

\* Equal cursors mean an empty queue.
LEMMA EmptySeen == ASSUME RInv, head = tail PROVE Len(fifo) = 0
<1>1. IInv /\ TypeOK /\ RingInv
  BY DEF RInv, IInv
<1> PICK off : Laid(off)
  BY <1>1 DEF RingInv
<1> DEFINE n == Len(fifo)
           e == off[n + 1]
           h == Wrap(head)
<1>2. n \in Nat /\ n + 1 \in 1 .. n + 1
  BY <1>1, MessageTypes
<1>3. e \in Nat /\ e \in h .. h + N - 1 /\ h \in Cells /\ h \in Nat /\ h < N
  BY <1>1, <1>2, OffsetTypes
<1>4. CellAt(e, 0) = h
  BY DEF Laid
<1>5. e = h /\ off[1] = h
  <2>1. off[1] = h
    BY DEF Laid
  <2> HIDE DEF e, h
  <2>2. QED
    BY <1>3, <1>4, <2>1, Numbers DEF CellAt
<1>6. SUFFICES ASSUME n # 0 PROVE FALSE
  OBVIOUS
<1>7. 1 \in 1 .. n
  BY <1>2, <1>6
<1>8. LET t == TotalLen(fifo[1].data) IN t \in Nat /\ t > 0 /\ off[1] + t <= e
  BY <1>1, <1>7, OffsetTypes
<1> HIDE DEF e, h
<1>9. QED
  BY <1>3, <1>5, <1>8

LEMMA PushWake ==
  ASSUME EpollUse, PipeTakes, RInv, WakeInv, NEW p \in Producers,
         (\E m \in Messages : PushCall(p, m)) \/ PushStep(p)
  PROVE  WakeInv'
<1>1. IInv /\ TypeOK
  BY DEF RInv, IInv
<1>2. /\ Len(fifo) \in Nat /\ pipe \in Nat /\ Undrained \in {0, 1} /\ Unnotified \in {0, 1}
      /\ PipeCap \in Nat /\ (ppc[p] = "notify" => pipe < PipeCap)
  BY <1>1, FlagTypes, MessageTypes, ConstantsAssumption DEF TypeOK, PipeTakes
<1>3. /\ Unnotified = IF ppc[p] \in {"wrap", "notify"} THEN 1 ELSE 0
      /\ Unnotified' = IF ppc'[p] \in {"wrap", "notify"} THEN 1 ELSE 0
      /\ Undrained' = Undrained /\ cpc' = cpc
  BY <1>1, PushFlags
<1>4. SUFFICES /\ pipe' \in Nat /\ pipe' >= pipe
               /\ pipe' + Unnotified' = Len(fifo') + Undrained
  BY <1>2, <1>3 DEF WakeInv
<1>5. pipe + Unnotified = Len(fifo) + Undrained
  BY DEF WakeInv
<1>6. CASE \/ \E m \in Messages : PushCall(p, m)
           \/ EnQueueFull(p) \/ EnQueueFits(p) \/ EnQueueCopy(p) \/ EnQueueWrap(p) \/ PushDone(p)
  <2>1. /\ pipe' = pipe /\ fifo' = fifo
        /\ ppc[p] \in {"wrap", "notify"} <=> ppc'[p] \in {"wrap", "notify"}
    BY <1>1, <1>6 DEF TypeOK, PushCall, EnQueueFull, EnQueueFits, EnQueueCopy, EnQueueWrap,
                      PushDone, PushReturn
  <2>2. QED
    BY <1>2, <1>3, <1>5, <2>1
<1>7. CASE EnQueueTail(p)
  <2>1. /\ ppc[p] = "tail" /\ ppc'[p] = "wrap" /\ pipe' = pipe
        /\ fifo' = Append(fifo, [pos |-> ptail[p], data |-> pdata[p]])
    BY <1>1, <1>7 DEF TypeOK, EnQueueTail
  <2>2. Len(fifo') = Len(fifo) + 1
    BY <1>1, <2>1, AppendProperties DEF TypeOK
  <2>3. QED
    BY <1>2, <1>3, <1>5, <2>1, <2>2
<1>8. CASE EnQueueNotify(p)
  <2>1. /\ ppc[p] = "notify" /\ ppc'[p] = "count" /\ fifo' = fifo
        /\ pipe' = IF pipe < PipeCap THEN pipe + 1 ELSE pipe
    BY <1>1, <1>8 DEF TypeOK, EnQueueNotify
  <2>2. QED
    BY <1>2, <1>3, <1>5, <2>1
<1>9. QED
  BY <1>6, <1>7, <1>8 DEF PushStep

LEMMA PopWake ==
  ASSUME EpollUse, RInv, WakeInv, NEW c \in Consumers,
         (\E k \in BufSizes : PopCall(c, k)) \/ PopStep(c)
  PROVE  WakeInv'
<1>1. IInv /\ TypeOK /\ ReadingInv
  BY DEF RInv, IInv
<1>2. Len(fifo) \in Nat /\ pipe \in Nat /\ Undrained \in {0, 1} /\ Unnotified \in {0, 1}
  BY <1>1, FlagTypes, MessageTypes, ConstantsAssumption DEF TypeOK
<1>3. \A d \in Consumers : d = c
  BY DEF EpollUse
<1>4. Unnotified' = Unnotified
  BY DEF Unnotified, PopStep, PopCall, PopLock, DeQueueEmpty, DeQueueEmptyReturn, DeQueueTiny,
         DeQueueCursors, DeQueueHeader, DeQueueTooLong, DeQueueCopy, DeQueueHead, DeQueueWrap,
         PopDone, prodVars
<1>5. /\ Undrained = IF cpc[c] \in {"wrap", "drain"} THEN 1 ELSE 0
      /\ Undrained' = IF cpc'[c] \in {"wrap", "drain"} THEN 1 ELSE 0
  BY <1>3 DEF Undrained
<1>6. /\ pipe + Unnotified = Len(fifo) + Undrained /\ cpc[c] # "empty"
      /\ cpc[c] # "idle" => pipe > 0
  BY DEF WakeInv
<1>7. SUFFICES /\ pipe' + Unnotified = Len(fifo') + Undrained' /\ cpc'[c] # "empty"
               /\ cpc'[c] # "idle" => pipe' > 0
  BY <1>3, <1>4 DEF WakeInv
\* Steps that leave the pipe and the messages alone.
<1>8. CASE \/ \E k \in BufSizes : PopCall(c, k)
           \/ PopLock(c) \/ DeQueueTiny(c) \/ DeQueueCursors(c) \/ DeQueueHeader(c)
           \/ DeQueueTooLong(c) \/ DeQueueCopy(c) \/ DeQueueWrap(c)
  <2>1. /\ pipe' = pipe /\ fifo' = fifo /\ cpc'[c] # "empty"
        /\ cpc[c] \in {"wrap", "drain"} <=> cpc'[c] \in {"wrap", "drain"}
    BY <1>1, <1>8 DEF TypeOK, PopCall, PopLock, DeQueueTiny, DeQueueCursors, DeQueueHeader,
                      DeQueueTooLong, DeQueueCopy, DeQueueWrap, PopReturn
  <2>2. cpc[c] = "idle" => pipe > 0
    BY <1>8 DEF EpollUse, PopCall, PopLock, DeQueueTiny, DeQueueCursors, DeQueueHeader,
                DeQueueTooLong, DeQueueCopy, DeQueueWrap
  <2>3. QED
    BY <1>5, <1>6, <2>1, <2>2
\* The consumer comes for a byte, and the byte stands for a message.
<1>9. ~DeQueueEmpty(c) /\ ~DeQueueEmptyReturn(c)
  <2>1. ~DeQueueEmptyReturn(c)
    BY <1>6 DEF DeQueueEmptyReturn
  <2>2. SUFFICES ASSUME DeQueueEmpty(c) PROVE FALSE
    BY <2>1
  <2>3. head = tail /\ cpc[c] = "cursors"
    BY <2>2 DEF DeQueueEmpty
  <2>4. Len(fifo) = 0
    BY <2>3, EmptySeen
  <2>5. QED
    BY <1>2, <1>5, <1>6, <2>3, <2>4
<1>10. CASE DeQueueHead(c)
  <2>1. /\ cpc[c] = "head" /\ cpc'[c] = "wrap" /\ pipe' = pipe
        /\ fifo # <<>> /\ fifo' = Tail(fifo)
    BY <1>1, <1>10 DEF TypeOK, DeQueueHead, ReadingInv
  <2>2. Len(fifo') = Len(fifo) - 1
    BY <1>1, <2>1, HeadTailProperties DEF TypeOK
  <2>3. QED
    BY <1>2, <1>5, <1>6, <2>1, <2>2
<1>11. CASE PopDone(c)
  <2>1. /\ cpc[c] = "drain" /\ cpc'[c] = "idle" /\ fifo' = fifo
        /\ pipe' = IF pipe > 0 THEN pipe - 1 ELSE 0
    BY <1>1, <1>11 DEF TypeOK, PopDone, PopReturn
  <2>2. QED
    BY <1>2, <1>5, <1>6, <2>1
<1>12. QED
  BY <1>8, <1>9, <1>10, <1>11 DEF PopStep

LEMMA WakeInvInit == Init => WakeInv
BY DEF Init, WakeInv, Unnotified, Undrained

LEMMA WakeInvStep ==
  ASSUME EpollUse, PipeTakes, RInv, WakeInv, [Next]_vars PROVE WakeInv'
<1>1. CASE UNCHANGED vars
  BY <1>1 DEF WakeInv, Unnotified, Undrained, vars, prodVars, consVars
<1>2. QED
  BY <1>1, PushWake, PopWake DEF Next

LEMMA WakeInvKeeps == RInv /\ WakeInv => NoLostWakeup
<1> SUFFICES ASSUME RInv, WakeInv, Quiet, fifo # <<>> PROVE pipe > 0
  BY DEF NoLostWakeup
<1>1. Unnotified = 0 /\ Undrained = 0
  BY DEF Quiet, Unnotified, Undrained
<1>2. TypeOK
  BY DEF RInv, IInv
<1>3. Len(fifo) \in Nat /\ Len(fifo) # 0 /\ pipe \in Nat
  BY <1>2, ConstantsAssumption, EmptySeq, LenProperties DEF TypeOK
<1>4. QED
  BY <1>1, <1>3 DEF WakeInv

\* With one epoll consumer, and for as long as no push has met a full pipe,
\* however small it is for the ring, the pipe is readable whenever nobody is
\* inside Push or Pop and messages are left, also after a message that was too
\* long for the caller's buffer was left at the front (net_queue.cc:90, 102, 147).
THEOREM WakeupKept == EpollUse => (Spec /\ []PipeTakes => []NoLostWakeup)
<1> SUFFICES ASSUME EpollUse PROVE Spec /\ []PipeTakes => []NoLostWakeup
  OBVIOUS
<1>1. SafeUse
  BY DEF EpollUse, SafeUse
<1>2. RInv /\ [Next]_vars => RInv'
  BY <1>1, StepRInv
<1>3. PipeTakes /\ RInv /\ WakeInv /\ [Next]_vars => WakeInv'
  BY WakeInvStep
<1>4. QED
  BY RInvInit, WakeInvInit, <1>2, <1>3, WakeInvKeeps, PTL DEF Spec

\* No push ever meets a full pipe that holds a byte for every message the ring
\* can hold (net_queue.cc:90), so that the wake-up of every message is kept.
THEOREM WakeupKeptWithRoom == EpollUse /\ PipeRoom => (Spec => [](PipeTakes /\ NoLostWakeup))
<1> SUFFICES ASSUME EpollUse, PipeRoom PROVE Spec => [](PipeTakes /\ NoLostWakeup)
  OBVIOUS
<1>1. SafeUse
  BY DEF EpollUse, SafeUse
<1>2. RInv /\ [Next]_vars => RInv'
  BY <1>1, StepRInv
<1>3. RInv /\ WakeInv => PipeTakes
  <2> SUFFICES ASSUME RInv, WakeInv, NEW p \in Producers, ppc[p] = "notify"
               PROVE  pipe < PipeCap
    BY DEF PipeTakes
  <2>1. TypeOK
    BY DEF RInv, IInv
  <2>2. Unnotified = 1 /\ Undrained \in {0, 1}
    BY <2>1, FlagTypes DEF Unnotified
  <2>3. pipe \in Nat /\ PipeCap \in Nat
    BY <2>1, ConstantsAssumption DEF TypeOK
  <2>4. QED
    BY <2>2, <2>3, PipeSuffices DEF WakeInv
<1>4. PipeTakes /\ RInv /\ WakeInv /\ [Next]_vars => WakeInv'
  BY WakeInvStep
<1>5. QED
  BY RInvInit, WakeInvInit, <1>2, <1>3, <1>4, WakeInvKeeps, PTL DEF Spec
=============================================================================
