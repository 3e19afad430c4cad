------------------------------ MODULE NetQueue ------------------------------
(***************************************************************************)
(* CNetQueue (net/net_queue.h, net/net_queue.cc): a byte ring in which     *)
(* every message is stored behind its length, with one optional mutex for  *)
(* the pushers, one for the poppers, none between the two sides, and a     *)
(* non-blocking pipe whose bytes tell an epoll loop that there is work.    *)
(* A step is what one thread does between two accesses to memory that the  *)
(* other side writes.                                                      *)
(***************************************************************************)
EXTENDS Integers, Sequences, FiniteSets, FiniteSetsExt, Functions

CONSTANTS
  Producers, Consumers,
  WLock, RLock,         \* the constructor's wlock and rlock
  N,                    \* m_buffer_len
  H,                    \* sizeof(uint32_t), the length prefix
  Base,                 \* values of one byte
  Fresh,                \* the bytes that new char[] may leave in the buffer
  Messages,             \* the data that callers push
  BufSizes,             \* the buf_size arguments of Pop
  PipeCap,              \* bytes the pipe holds before write() returns EAGAIN
  Polling,              \* TRUE: Pop is called at any time;
                        \* FALSE: only after epoll reported the pipe readable
  SplitStores,          \* TRUE: the store to a cursor and its wrap to 0 are
                        \* two stores (what g++ -O2 emits); FALSE: one store
  CountMod,             \* the statistics counters wrap here (2^32)
  None                  \* no thread, no item

Byte   == 0 .. Base - 1
Cells  == 0 .. N - 1

\* The length prefix: the bytes of an integer, low byte first.
Header(len) == [i \in 1 .. H |-> (len \div Base ^ (i - 1)) % Base]
LengthOf(h) == MapThenSumSet(LAMBDA i : h[i] * Base ^ (i - 1), 1 .. H)

ASSUME ConstantsAssumption ==
  /\ N \in Nat /\ H \in Nat \ {0} /\ H < N
  /\ Base \in Nat \ {0, 1} /\ PipeCap \in Nat \ {0} /\ CountMod \in Nat \ {0, 1}
  /\ {WLock, RLock, Polling, SplitStores} \subseteq BOOLEAN
  /\ Fresh \subseteq Byte /\ Messages \subseteq Seq(Byte)
  /\ BufSizes \subseteq Nat
  /\ None \notin Producers \cup Consumers

\* A side without a mutex is meant for a single thread.
ASSUME LockAssumption ==
  /\ WLock \/ \A p1, p2 \in Producers : p1 = p2
  /\ RLock \/ \A c1, c2 \in Consumers : c1 = c2

\* The prefix can represent the length of every message that is pushed.
ASSUME HeaderAssumption ==
  /\ \A m \in Messages : /\ Header(Len(m)) \in [1 .. H -> Byte]
                         /\ LengthOf(Header(Len(m))) = Len(m)
  /\ \A h \in [1 .. H -> Byte] : LengthOf(h) \in Nat

VARIABLES
  buffer,               \* m_buffer
  head, tail,           \* m_head, m_tail
  wowner, rowner,       \* who holds m_wmutex, m_rmutex
  pipe,                 \* bytes in the pipe
  enqueue_num, dequeue_num,
  ppc, pdata, ptail,    \* Push in progress: where it is, its data, its tail
  cpc, csize, chead, cused, clen, cbuf,  \* Pop in progress: where it is, its
                        \* buf_size, head, used_len, real_len, what it copied
  got,                  \* got[c]: what the last successful Pop of c returned
  fifo                  \* history: the messages in the ring, with their cell

prodVars == <<wowner, ppc, pdata, ptail>>
consVars == <<rowner, cpc, csize, chead, cused, clen, cbuf>>
vars == <<buffer, head, tail, pipe, enqueue_num, dequeue_num, got, fifo,
          prodVars, consVars>>

PpcSet == {"idle", "check", "copy", "tail", "wrap", "notify", "count"}
CpcSet == {"idle", "lock", "cursors", "header", "copy", "head", "wrap",
           "drain", "empty", "abort"}

Init ==
  /\ buffer \in [Cells -> Fresh]
  /\ head = 0 /\ tail = 0
  /\ wowner = None /\ rowner = None /\ pipe = 0
  /\ enqueue_num = 0 /\ dequeue_num = 0
  /\ ppc = [p \in Producers |-> "idle"]
  /\ pdata = [p \in Producers |-> <<>>]
  /\ ptail = [p \in Producers |-> 0]
  /\ cpc = [c \in Consumers |-> "idle"]
  /\ csize = [c \in Consumers |-> 0]
  /\ chead = [c \in Consumers |-> 0]
  /\ cused = [c \in Consumers |-> 0]
  /\ clen = [c \in Consumers |-> 0]
  /\ cbuf = [c \in Consumers |-> <<>>]
  /\ got = [c \in Consumers |-> None]
  /\ fifo = <<>>

-----------------------------------------------------------------------------
(* Push and EnQueue *)

TotalLen(m) == Len(m) + H
\* Faulty variant: equal cursors mean full.
FreeLenEmptyFull(hd, tl) == IF hd >= tl THEN hd - tl ELSE hd + N - tl

FreeLen(hd, tl) == IF hd > tl THEN hd - tl ELSE hd + N - tl

\* memcpy(b + dst, bytes, Len(bytes))
Memcpy(b, dst, bytes) ==
  [k \in DOMAIN b |->
     IF k \in dst .. dst + Len(bytes) - 1 THEN bytes[k - dst + 1] ELSE b[k]]

\* The three ways to lay out a message that starts in cell tl.
Store(b, tl, m) ==
  LET hdr      == Header(Len(m))
      tail_len == N - tl
      first    == tail_len - H     \* data bytes before the wrap, case 2
      second   == H - tail_len     \* prefix bytes after the wrap, case 3
  IN  IF tail_len >= TotalLen(m)
        THEN Memcpy(Memcpy(b, tl, hdr), tl + H, m)
      ELSE IF tail_len >= H
        THEN Memcpy(Memcpy(Memcpy(b, tl, hdr), tl + H, SubSeq(m, 1, first)),
                    0, SubSeq(m, first + 1, Len(m)))
        ELSE Memcpy(Memcpy(Memcpy(b, tl, SubSeq(hdr, 1, tail_len)),
                           0, SubSeq(hdr, tail_len + 1, H)), second, m)

\* Faulty variant: forgets the part of the prefix behind the wrap.
EndOfSplit(tl, m) ==
  LET tail_len == N - tl
  IN  IF tail_len >= TotalLen(m) THEN tl + TotalLen(m)
      ELSE IF tail_len >= H THEN tl + TotalLen(m) - N
      ELSE Len(m)

\* The value of m_tail after the message, before the test against N.
EndOf(tl, m) ==
  LET tail_len == N - tl
  IN  IF tail_len >= TotalLen(m) THEN tl + TotalLen(m)
      ELSE IF tail_len >= H THEN tl + TotalLen(m) - N
      ELSE (H - tail_len) + Len(m)

Wrap(k) == IF k >= N THEN 0 ELSE k

Incr(n) == IF n + 1 = CountMod THEN 0 ELSE n + 1

\* Faulty variant: m_wmutex is not taken.
PushCallUnlocked(p, m) ==
  /\ ppc[p] = "idle"
  /\ wowner' = IF WLock THEN p ELSE wowner
  /\ ppc' = [ppc EXCEPT ![p] = "check"]
  /\ pdata' = [pdata EXCEPT ![p] = m]
  /\ UNCHANGED <<buffer, head, tail, pipe, enqueue_num, dequeue_num, got,
                 fifo, ptail, consVars>>

\* Push(m) is called; with wlock it waits for m_wmutex.
PushCall(p, m) ==
  /\ ppc[p] = "idle"
  /\ WLock => wowner = None
  /\ wowner' = IF WLock THEN p ELSE wowner
  /\ ppc' = [ppc EXCEPT ![p] = "check"]
  /\ pdata' = [pdata EXCEPT ![p] = m]
  /\ UNCHANGED <<buffer, head, tail, pipe, enqueue_num, dequeue_num, got,
                 fifo, ptail, consVars>>

\* Leaving Push: the mutex is released, the locals are forgotten.
PushReturn(p) ==
  /\ wowner' = IF WLock THEN None ELSE wowner
  /\ ppc' = [ppc EXCEPT ![p] = "idle"]
  /\ pdata' = [pdata EXCEPT ![p] = <<>>]
  /\ ptail' = [ptail EXCEPT ![p] = 0]

\* EnQueue reads both cursors and finds too little room: -1.
EnQueueFull(p) ==
  /\ ppc[p] = "check"
  /\ FreeLen(head, tail) <= TotalLen(pdata[p])
  /\ PushReturn(p)
  /\ UNCHANGED <<buffer, head, tail, pipe, enqueue_num, dequeue_num, got,
                 fifo, consVars>>

\* EnQueue reads both cursors and finds room.
EnQueueFits(p) ==
  /\ ppc[p] = "check"
  /\ FreeLen(head, tail) > TotalLen(pdata[p])
  /\ ppc' = [ppc EXCEPT ![p] = "copy"]
  /\ ptail' = [ptail EXCEPT ![p] = tail]
  /\ UNCHANGED <<buffer, head, tail, pipe, enqueue_num, dequeue_num, got,
                 fifo, wowner, pdata, consVars>>

\* The memcpy calls; CopiesDisjoint justifies taking them as one step.
EnQueueCopy(p) ==
  /\ ppc[p] = "copy"
  /\ buffer' = Store(buffer, ptail[p], pdata[p])
  /\ ppc' = [ppc EXCEPT ![p] = "tail"]
  /\ UNCHANGED <<head, tail, pipe, enqueue_num, dequeue_num, got, fifo,
                 wowner, pdata, ptail, consVars>>

\* The store to m_tail: from here on the message is in the queue.
EnQueueTail(p) ==
  /\ ppc[p] = "tail"
  /\ LET end == EndOf(ptail[p], pdata[p])
     IN  tail' = IF SplitStores THEN end ELSE Wrap(end)
  /\ fifo' = Append(fifo, [pos |-> ptail[p], data |-> pdata[p]])
  /\ ppc' = [ppc EXCEPT ![p] = "wrap"]
  /\ UNCHANGED <<buffer, head, pipe, enqueue_num, dequeue_num, got,
                 wowner, pdata, ptail, consVars>>

\* if (m_tail >= m_buffer_len) m_tail = 0
EnQueueWrap(p) ==
  /\ ppc[p] = "wrap"
  /\ tail' = Wrap(tail)
  /\ ppc' = [ppc EXCEPT ![p] = "notify"]
  /\ UNCHANGED <<buffer, head, pipe, enqueue_num, dequeue_num, got, fifo,
                 wowner, pdata, ptail, consVars>>

\* Faulty variant: one byte stands for any number of messages.
EnQueueNotifyOnce(p) ==
  /\ ppc[p] = "notify"
  /\ pipe' = IF pipe = 0 THEN pipe + 1 ELSE pipe
  /\ ppc' = [ppc EXCEPT ![p] = "count"]
  /\ UNCHANGED <<buffer, head, tail, enqueue_num, dequeue_num, got, fifo,
                 wowner, pdata, ptail, consVars>>

\* write(m_fd[1], "\0", 1); the byte is lost when the pipe is full.
EnQueueNotify(p) ==
  /\ ppc[p] = "notify"
  /\ pipe' = IF pipe < PipeCap THEN pipe + 1 ELSE pipe
  /\ ppc' = [ppc EXCEPT ![p] = "count"]
  /\ UNCHANGED <<buffer, head, tail, enqueue_num, dequeue_num, got, fifo,
                 wowner, pdata, ptail, consVars>>

PushDone(p) ==
  /\ ppc[p] = "count"
  /\ enqueue_num' = Incr(enqueue_num)
  /\ PushReturn(p)
  /\ UNCHANGED <<buffer, head, tail, pipe, dequeue_num, got, fifo, consVars>>

-----------------------------------------------------------------------------
(* Pop and DeQueue *)

UsedLen(hd, tl) == IF tl > hd THEN tl - hd ELSE tl + N - hd

\* k consecutive cells of b, from cell "from" on.
Slice(b, from, k) == [i \in 1 .. k |-> b[from + i - 1]]

\* The prefix that starts in cell hd, and the cell behind it.
ReadHeader(b, hd) ==
  IF hd + H >= N THEN Slice(b, hd, N - hd) \o Slice(b, 0, H - (N - hd))
                 ELSE Slice(b, hd, H)
AfterHeader(hd) == IF hd + H >= N THEN H - (N - hd) ELSE hd + H

\* len bytes from cell next on, and the new m_head before the test against N.
ReadData(b, next, len) ==
  IF next + len <= N THEN Slice(b, next, len)
                     ELSE Slice(b, next, N - next) \o Slice(b, 0, len - (N - next))
AfterData(next, len) == IF next + len <= N THEN next + len ELSE len - (N - next)

\* The caller decides to pop: at any time, or because epoll_wait returned.
PopCall(c, size) ==
  /\ cpc[c] = "idle"
  /\ Polling \/ pipe > 0
  /\ cpc' = [cpc EXCEPT ![c] = "lock"]
  /\ csize' = [csize EXCEPT ![c] = size]
  /\ UNCHANGED <<buffer, head, tail, pipe, enqueue_num, dequeue_num, got,
                 fifo, prodVars, rowner, chead, cused, clen, cbuf>>

\* Faulty variant: m_rmutex is not taken.
PopLockNoMutex(c) ==
  /\ cpc[c] = "lock"
  /\ rowner' = IF RLock THEN c ELSE rowner
  /\ cpc' = [cpc EXCEPT ![c] = "cursors"]
  /\ UNCHANGED <<buffer, head, tail, pipe, enqueue_num, dequeue_num, got,
                 fifo, prodVars, csize, chead, cused, clen, cbuf>>

PopLock(c) ==
  /\ cpc[c] = "lock"
  /\ RLock => rowner = None
  /\ rowner' = IF RLock THEN c ELSE rowner
  /\ cpc' = [cpc EXCEPT ![c] = "cursors"]
  /\ UNCHANGED <<buffer, head, tail, pipe, enqueue_num, dequeue_num, got,
                 fifo, prodVars, csize, chead, cused, clen, cbuf>>

\* Leaving Pop: the mutex is released, the locals are forgotten.
PopReturn(c) ==
  /\ rowner' = IF RLock THEN None ELSE rowner
  /\ cpc' = [cpc EXCEPT ![c] = "idle"]
  /\ csize' = [csize EXCEPT ![c] = 0]
  /\ chead' = [chead EXCEPT ![c] = 0]
  /\ cused' = [cused EXCEPT ![c] = 0]
  /\ clen' = [clen EXCEPT ![c] = 0]
  /\ cbuf' = [cbuf EXCEPT ![c] = <<>>]

\* DeQueue reads both cursors and finds them equal.
DeQueueEmpty(c) ==
  /\ cpc[c] = "cursors"
  /\ head = tail
  /\ cpc' = [cpc EXCEPT ![c] = "empty"]
  /\ UNCHANGED <<buffer, head, tail, pipe, enqueue_num, dequeue_num, got,
                 fifo, prodVars, rowner, csize, chead, cused, clen, cbuf>>

\* ... takes a byte out of the pipe all the same, and returns -1.
DeQueueEmptyReturn(c) ==
  /\ cpc[c] = "empty"
  /\ pipe' = IF pipe > 0 THEN pipe - 1 ELSE 0
  /\ PopReturn(c)
  /\ UNCHANGED <<buffer, head, tail, enqueue_num, dequeue_num, got, fifo,
                 prodVars>>

\* The caller's buffer cannot even hold a prefix: -2.
DeQueueTiny(c) ==
  /\ cpc[c] = "cursors"
  /\ head # tail
  /\ csize[c] < H
  /\ PopReturn(c)
  /\ UNCHANGED <<buffer, head, tail, pipe, enqueue_num, dequeue_num, got,
                 fifo, prodVars>>

DeQueueCursors(c) ==
  /\ cpc[c] = "cursors"
  /\ head # tail
  /\ csize[c] >= H
  /\ chead' = [chead EXCEPT ![c] = head]
  /\ cused' = [cused EXCEPT ![c] = UsedLen(head, tail)]
  /\ cpc' = [cpc EXCEPT ![c] = "header"]
  /\ UNCHANGED <<buffer, head, tail, pipe, enqueue_num, dequeue_num, got,
                 fifo, prodVars, rowner, csize, clen, cbuf>>

\* real_len is read and the assertion evaluated; "abort" if it fails.
DeQueueHeader(c) ==
  /\ cpc[c] = "header"
  /\ LET len == LengthOf(ReadHeader(buffer, chead[c]))
     IN  /\ clen' = [clen EXCEPT ![c] = len]
         /\ cpc' = [cpc EXCEPT ![c] =
                      IF cused[c] >= len + H THEN "copy" ELSE "abort"]
  /\ UNCHANGED <<buffer, head, tail, pipe, enqueue_num, dequeue_num, got,
                 fifo, prodVars, rowner, csize, chead, cused, cbuf>>

\* The message does not fit the caller's buffer: -3, it stays in the queue.
DeQueueTooLong(c) ==
  /\ cpc[c] = "copy"
  /\ clen[c] + H > csize[c]
  /\ PopReturn(c)
  /\ UNCHANGED <<buffer, head, tail, pipe, enqueue_num, dequeue_num, got,
                 fifo, prodVars>>

DeQueueCopy(c) ==
  /\ cpc[c] = "copy"
  /\ clen[c] + H <= csize[c]
  /\ cbuf' = [cbuf EXCEPT ![c] =
                ReadData(buffer, AfterHeader(chead[c]), clen[c])]
  /\ cpc' = [cpc EXCEPT ![c] = "head"]
  /\ UNCHANGED <<buffer, head, tail, pipe, enqueue_num, dequeue_num, got,
                 fifo, prodVars, rowner, csize, chead, cused, clen>>

\* The store to m_head: the message has left the queue.
DeQueueHead(c) ==
  /\ cpc[c] = "head"
  /\ LET end == AfterData(AfterHeader(chead[c]), clen[c])
     IN  head' = IF SplitStores THEN end ELSE Wrap(end)
  /\ got' = [got EXCEPT ![c] = cbuf[c]]
  /\ fifo' = IF fifo = <<>> THEN fifo ELSE Tail(fifo)
  /\ cpc' = [cpc EXCEPT ![c] = "wrap"]
  /\ UNCHANGED <<buffer, tail, pipe, enqueue_num, dequeue_num, prodVars,
                 rowner, csize, chead, cused, clen, cbuf>>

\* if (m_head >= m_buffer_len) m_head = 0
DeQueueWrap(c) ==
  /\ cpc[c] = "wrap"
  /\ head' = Wrap(head)
  /\ cpc' = [cpc EXCEPT ![c] = "drain"]
  /\ UNCHANGED <<buffer, tail, pipe, enqueue_num, dequeue_num, got, fifo,
                 prodVars, rowner, csize, chead, cused, clen, cbuf>>

\* One byte is read from the pipe, the pop is counted, 0 is returned.
PopDone(c) ==
  /\ cpc[c] = "drain"
  /\ pipe' = IF pipe > 0 THEN pipe - 1 ELSE 0
  /\ dequeue_num' = Incr(dequeue_num)
  /\ PopReturn(c)
  /\ UNCHANGED <<buffer, head, tail, enqueue_num, got, fifo, prodVars>>

-----------------------------------------------------------------------------
PushStep(p) == \/ EnQueueFull(p) \/ EnQueueFits(p) \/ EnQueueCopy(p)
               \/ EnQueueTail(p) \/ EnQueueWrap(p) \/ EnQueueNotify(p)
               \/ PushDone(p)

PopStep(c) == \/ PopLock(c) \/ DeQueueEmpty(c) \/ DeQueueEmptyReturn(c)
              \/ DeQueueTiny(c) \/ DeQueueCursors(c) \/ DeQueueHeader(c)
              \/ DeQueueTooLong(c) \/ DeQueueCopy(c) \/ DeQueueHead(c)
              \/ DeQueueWrap(c) \/ PopDone(c)

\* A failed assertion ends the process.
Alive == \A c \in Consumers : cpc[c] # "abort"

Next ==
  /\ Alive
  /\ \/ \E p \in Producers : (\E m \in Messages : PushCall(p, m)) \/ PushStep(p)
     \/ \E c \in Consumers : (\E s \in BufSizes : PopCall(c, s)) \/ PopStep(c)

Spec == Init /\ [][Next]_vars

\* Every thread that is inside Push or Pop keeps running, and the event loop
\* (or the polling loop) of a consumer calls Pop again and again.  No thread
\* is ever obliged to push.
Fairness ==
  /\ \A p \in Producers : WF_vars(Alive /\ PushStep(p))
  /\ \A c \in Consumers :
       WF_vars(Alive /\ (PopStep(c) \/ \E s \in BufSizes : PopCall(c, s)))

FairSpec == Spec /\ Fairness

-----------------------------------------------------------------------------
(* Correctness *)

\* Types of the state.
TypeOK ==
  /\ buffer \in [Cells -> Byte]
  /\ head \in 0 .. N /\ tail \in 0 .. N
  /\ wowner \in Producers \cup {None} /\ rowner \in Consumers \cup {None}
  /\ pipe \in 0 .. PipeCap
  /\ enqueue_num \in 0 .. CountMod - 1 /\ dequeue_num \in 0 .. CountMod - 1
  /\ ppc \in [Producers -> PpcSet]
  /\ pdata \in [Producers -> Messages \cup {<<>>}]
  /\ ptail \in [Producers -> Cells]
  /\ cpc \in [Consumers -> CpcSet]
  /\ csize \in [Consumers -> BufSizes \cup {0}]
  /\ chead \in [Consumers -> Cells]
  /\ cused \in [Consumers -> 0 .. N]
  /\ clen \in [Consumers -> Nat]
  /\ cbuf \in [Consumers -> Seq(Byte)]
  /\ got \in [Consumers -> Seq(Byte) \cup {None}]
  /\ fifo \in Seq([pos : Cells, data : Messages])

\* The cell i places behind cell k.
CellAt(k, i) == IF k + i >= N THEN k + i - N ELSE k + i
Footprint(k, n) == {CellAt(k, i) : i \in 0 .. n - 1}
FifoEnd(r) == CellAt(r.pos, TotalLen(r.data))

\* The cursors delimit exactly the messages that were accepted and not yet
\* popped: m_head is where the oldest starts, each starts where the one before
\* it ends, m_tail is where the newest ends (net_queue.cc:57-149).
CursorsDelimitFifo ==
  LET n == Len(fifo)
  IN  /\ n = 0 => Wrap(head) = Wrap(tail)
      /\ n > 0 => Wrap(head) = fifo[1].pos /\ FifoEnd(fifo[n]) = Wrap(tail)
      /\ \A i \in 1 .. n - 1 : fifo[i + 1].pos = FifoEnd(fifo[i])

\* What DeQueue would read at the start of a stored message is that message,
\* in whichever of the three layouts EnQueue wrote it (net_queue.cc:69-85
\* against 115-141), whatever was pushed and popped since.
StoredIntact ==
  \A i \in 1 .. Len(fifo) :
    LET r == fifo[i]
    IN  /\ ReadHeader(buffer, r.pos) = Header(Len(r.data))
        /\ ReadData(buffer, AfterHeader(r.pos), Len(r.data)) = r.data

\* No cell is written by EnQueue's memcpy while DeQueue reads it, although no
\* lock is shared by the two sides (net_queue.cc:69-85 and 115-141).
CopiesDisjoint ==
  \A p \in Producers, c \in Consumers :
    ppc[p] = "copy" /\ cpc[c] \in {"header", "copy"} =>
      Footprint(ptail[p], TotalLen(pdata[p]))
        \cap Footprint(chead[c], H + clen[c]) = {}

\* assert(used_len >= real_len + sizeof(uint32_t)), net_queue.cc:127.
AssertHolds == \A c \in Consumers : cpc[c] # "abort"

Quiet == /\ \A p \in Producers : ppc[p] = "idle"
         /\ \A c \in Consumers : cpc[c] = "idle"

\* Whenever nobody is inside Push or Pop and messages are left, the pipe is
\* readable: an epoll loop that pops once per event will come back for them
\* (net_queue.cc:90, 102, 147).
NoLostWakeup == Quiet /\ fifo # <<>> => pipe > 0

\* The size that DebugString prints (net_queue.cc:188-195) is right whenever
\* nobody is inside Push or Pop, also after the counters wrapped.
CountersAgree ==
  Quiet => (enqueue_num - dequeue_num) % CountMod = Len(fifo) % CountMod

\* The ring is sound: cursors, stored bytes, copies in progress and counters.
RingSound ==
  /\ TypeOK /\ CursorsDelimitFifo /\ StoredIntact
  /\ CopiesDisjoint /\ AssertHolds /\ CountersAgree

BytesOf(msgs) == SumFunctionOnSet([i \in DOMAIN msgs |-> TotalLen(msgs[i])], DOMAIN msgs)
Queued == [i \in DOMAIN fifo |-> fifo[i].data]

\* Push fails only if the message really does not fit next to what is stored:
\* a cursor that is in transit never makes the ring look fuller than it is
\* (net_queue.cc:63-67).
RejectOnlyWhenFull ==
  [][\A p \in Producers :
       ppc[p] = "check" /\ ppc'[p] = "idle"
         => BytesOf(Queued) + TotalLen(pdata[p]) >= N]_vars

\* The queue implements a bounded first-in first-out queue: a Pop returns the
\* bytes of the oldest message, each message once.
Fifo == INSTANCE BoundedFifo WITH
          Items <- Messages, Takers <- Consumers, Capacity <- N - 1,
          Weight <- BytesOf, NoItem <- None, q <- Queued
ImplementsFifo == Fifo!Spec

\* A message at the front of the queue is popped sooner or later: no wake-up
\* is lost for good and nobody waits for somebody who waits.
Delivery == \A k \in Cells : fifo # <<>> /\ head = k ~> head # k
=============================================================================
