--------------------------- MODULE NetClientProofs ---------------------------
(***************************************************************************)
(* Proofs about NetClient, for every number of addresses and connections,  *)
(* every buffer and socket size, and all messages and packets.             *)
(***************************************************************************)
EXTENDS NetClient, Arithmetic, SequenceTheorems

-----------------------------------------------------------------------------
(* The inductive invariant *)

Bytes  == Nat \X Nat
Msg    == [addr : Addrs, data : {d \in Seq(Bytes) : Len(d) \in HeaderLen .. MaxPack}]
Kind   == [hdr : Nat, body : Nat, decl : Nat]
Byte   == [no : Nat, kind : Kind, at : Nat]
Client == [live : BOOLEAN, addr : Addrs \cup {None}, sbuf : Seq(Bytes), spos : Nat,
           rbuf : Seq(Byte), rlen : Nat]
Sock   == [in : Seq(Byte), wire : Seq(Bytes), taken : Nat,
           peer : {"open", "closed", "reset"}, no : Nat, kind : Kind, at : Nat]
Cut    == [no : Nat, last : Seq(Byte)]

Types ==
  /\ mode \in [http : BOOLEAN, keepalive : BOOLEAN]
  /\ sendq \in Seq(Msg) /\ pushed \in Nat
  /\ connects \in [Addrs -> Conns \cup {None}]
  /\ client \in [Conns -> Client] /\ sock \in [Conns -> Sock]
  /\ armed \in [Conns -> {"none", "in", "inout"}]
  /\ queued \in [Conns -> Seq(Bytes)] /\ cut \in [Conns -> Cut]
  /\ reads \subseteq Conns \cup {Queue} /\ writes \subseteq Conns
  /\ stopped \in BOOLEAN

\* An object waits in one of the lists only, and what it waits for is still there.
Events ==
  /\ reads \cap writes = {} /\ NoStaleEvent
  /\ Queue \in reads => sendq # <<>>
  /\ Len(sendq) <= pushed /\ pushed <= MaxPush

Sizes(c) ==
  LET d == client[c]
      s == sock[c]
  IN  /\ Len(d.sbuf) <= MaxPack /\ d.spos <= Len(d.sbuf)
      /\ d.rlen <= Len(d.rbuf) /\ Len(d.rbuf) <= MaxPack
      /\ s.taken <= Len(s.wire) /\ Len(s.wire) <= s.taken + SockCap

\* Nothing is left of a connection that was closed.
Fresh(c) ==
  /\ client[c].live <=> armed[c] # "none"
  /\ client[c].live => client[c].addr \in Addrs
  /\ ~client[c].live => /\ client[c] = NoClient /\ sock[c] = NewSock
                        /\ queued[c] = <<>> /\ cut[c] = NoCut

Sending(c) ==
  /\ sock[c].wire \o Unsent(c) = queued[c]
  /\ Unsent(c) # <<>> => armed[c] = "inout"

\* The bytes that arrived and are not yet part of a packet.
Pending(c) == SubSeq(client[c].rbuf, 1, client[c].rlen) \o sock[c].in

\* p is what the peer with socket s has sent since packet n: byte after byte,
\* packet after packet.
Follows(p, n, s) ==
  /\ \A i \in 1 .. Len(p) : p[i].at \in 1 .. Total(p[i].kind)
  /\ \A i, j \in 1 .. Len(p) : i <= j =>
       /\ p[i].at + (j - i) <= Total(p[i].kind) =>
            p[j] = [no |-> p[i].no, kind |-> p[i].kind, at |-> p[i].at + (j - i)]
       /\ p[i].at + (j - i) = Total(p[i].kind) + 1 => p[j].at = 1 /\ p[j].no = p[i].no + 1
  /\ Len(p) > 0 => /\ p[1].at = 1 /\ p[1].no = n + 1
                   /\ p[Len(p)] = [no |-> s.no, kind |-> s.kind, at |-> s.at]
  /\ Len(p) = 0 => s.at = Total(s.kind) /\ s.no = n

LastCut(c) == cut[c].no > 0 => /\ cut[c].last # <<>>
                               /\ cut[c].last = Packet(cut[c].no, cut[c].last[1].kind)

\* The packets that peers send tell how long they are: all that have a length
\* in front, and those of HTTP whose header announces the body.
Announced   == \A k \in HttpKinds : k.decl \in 1 .. k.hdr
Kinds       == IF mode.http THEN HttpKinds ELSE LongconnKinds
Measured    == ~mode.http \/ Announced
OfKinds(p, K) == \A i \in 1 .. Len(p) : p[i].kind \in K

Framed(c) ==
  /\ ~HasRecvQueue => cut[c].no = 0
  /\ Measured => LastCut(c)
  /\ HasRecvQueue /\ Measured /\ sock[c].peer # "reset"
       => Follows(Pending(c), cut[c].no, sock[c]) /\ OfKinds(Pending(c), Kinds)

Sound(c) == Sizes(c) /\ Fresh(c) /\ Sending(c) /\ Framed(c)

IInv == Types /\ Events /\ OneOwner /\ \A c \in Conns : Sound(c)

-----------------------------------------------------------------------------
(* Buffers and streams *)

\* One sequence and another behind it.
LEMMA Joined ==
  ASSUME NEW S, NEW s \in Seq(S), NEW t \in Seq(S)
  PROVE  /\ s \o t \in Seq(S) /\ Len(s \o t) = Len(s) + Len(t)
         /\ \A i \in 1 .. Len(s) : (s \o t)[i] = s[i]
         /\ \A i \in 1 .. Len(t) : (s \o t)[Len(s) + i] = t[i]
BY ConcatProperties

\* What Overwrite leaves in the buffer.
LEMMA Overwritten ==
  ASSUME NEW S, NEW mem \in Seq(S), NEW k \in 0 .. Len(mem), NEW b \in Seq(S)
  PROVE  /\ Overwrite(mem, k, b) \in Seq(S)
         /\ Len(Overwrite(mem, k, b)) =
              IF k + Len(b) <= Len(mem) THEN Len(mem) ELSE k + Len(b)
         /\ \A i \in 1 .. k : Overwrite(mem, k, b)[i] = mem[i]
         /\ \A i \in 1 .. Len(b) : Overwrite(mem, k, b)[k + i] = b[i]
<1> DEFINE front == SubSeq(mem, 1, k)
           rest == SubSeq(mem, k + Len(b) + 1, Len(mem))
<1>1. /\ front \in Seq(S) /\ Len(front) = k
      /\ \A i \in 1 .. k : front[i] = mem[i]
  BY SubSeqProperties, ElementOfSeq
<1>2. /\ rest \in Seq(S)
      /\ Len(rest) = IF k + Len(b) < Len(mem) THEN Len(mem) - k - Len(b) ELSE 0
  BY SubSeqProperties, ElementOfSeq
<1> DEFINE fb == front \o b
<1>3. /\ fb \in Seq(S) /\ Len(fb) = k + Len(b)
      /\ \A i \in 1 .. k + Len(b) : fb[i] = IF i <= k THEN front[i] ELSE b[i - k]
  BY <1>1, ConcatProperties
<1>4. Overwrite(mem, k, b) = fb \o rest
  BY DEF Overwrite
<1> HIDE DEF front, rest, fb
<1> DEFINE all == fb \o rest
<1>5. /\ all \in Seq(S) /\ Len(all) = Len(fb) + Len(rest)
      /\ \A i \in 1 .. Len(fb) : all[i] = fb[i]
  <2>1. fb \in Seq(S) /\ rest \in Seq(S)
    BY <1>2, <1>3
  <2>2. QED
    BY ONLY <2>1, Joined
<1>6. Len(mem) \in Nat /\ Len(b) \in Nat /\ Overwrite(mem, k, b) = all
  BY <1>4, LenProperties
<1> HIDE DEF all
<1>7. ASSUME NEW i \in 1 .. k PROVE all[i] = mem[i]
  <2>1. k \in Nat /\ i \in 1 .. k + Len(b) /\ i \in 1 .. Len(fb)
    BY <1>3, <1>6
  <2>2. fb[i] = front[i] /\ front[i] = mem[i] /\ all[i] = fb[i]
    BY <1>1, <1>3, <1>5, <2>1
  <2>3. QED
    BY <2>2
<1>8. ASSUME NEW i \in 1 .. Len(b) PROVE all[k + i] = b[i]
  <2>1. PICK n : n = Len(b)
    OBVIOUS
  <2>2. PICK j : j = k + i
    OBVIOUS
  <2>3. k \in Nat /\ i \in Nat /\ n \in Nat /\ 1 <= i /\ i <= n
    BY <1>6, <2>1
  <2>4. j \in 1 .. k + n /\ ~(j <= k) /\ j - k = i
    BY ONLY <2>2, <2>3
  <2>5. fb[j] = b[i]
    BY ONLY <1>3, <2>1, <2>4
  <2>6. all[j] = fb[j]
    BY ONLY <1>3, <1>5, <2>1, <2>4
  <2>7. QED
    BY ONLY <2>2, <2>5, <2>6
<1>9. Len(all) = IF k + Len(b) <= Len(mem) THEN Len(mem) ELSE k + Len(b)
  <2>1. k \in Nat /\ Len(mem) \in Nat /\ Len(b) \in Nat
    BY <1>6
  <2>2. Len(fb) = k + Len(b) /\ Len(all) = Len(fb) + Len(rest)
    BY <1>3, <1>5
  <2>3. Len(rest) = IF k + Len(b) < Len(mem) THEN Len(mem) - k - Len(b) ELSE 0
    BY <1>2
  <2>4. CASE k + Len(b) < Len(mem)
    BY <2>1, <2>2, <2>3, <2>4
  <2>5. CASE ~(k + Len(b) < Len(mem))
    BY <2>1, <2>2, <2>3, <2>5
  <2>6. QED
    BY <2>4, <2>5
<1>10. QED
  BY <1>5, <1>6, <1>7, <1>8, <1>9, Zenon

\* The first bytes of a sequence and the others.
LEMMA Parted ==
  ASSUME NEW S, NEW s \in Seq(S), NEW n \in 0 .. Len(s)
  PROVE  /\ SubSeq(s, 1, n) \in Seq(S) /\ Len(SubSeq(s, 1, n)) = n
         /\ \A i \in 1 .. n : SubSeq(s, 1, n)[i] = s[i]
         /\ SubSeq(s, n + 1, Len(s)) \in Seq(S)
         /\ Len(SubSeq(s, n + 1, Len(s))) = Len(s) - n
         /\ \A i \in 1 .. Len(s) - n : SubSeq(s, n + 1, Len(s))[i] = s[n + i]
         /\ SubSeq(s, 1, n) \o SubSeq(s, n + 1, Len(s)) = s
<1> DEFINE a == SubSeq(s, 1, n)
           b == SubSeq(s, n + 1, Len(s))
<1>1. Len(s) \in Nat /\ \A i \in 1 .. Len(s) : s[i] \in S
  BY ElementOfSeq, LenProperties
<1>2. a \in Seq(S) /\ Len(a) = n /\ \A i \in 1 .. n : a[i] = s[i]
  BY <1>1, SubSeqProperties
<1>3. /\ b \in Seq(S) /\ Len(b) = Len(s) - n
      /\ \A i \in 1 .. Len(s) - n : b[i] = s[n + i]
  BY <1>1, SubSeqProperties
<1> HIDE DEF a, b
<1> DEFINE all == a \o b
<1>4. /\ all \in Seq(S) /\ Len(all) = Len(a) + Len(b)
      /\ \A i \in 1 .. Len(a) : all[i] = a[i]
      /\ \A i \in 1 .. Len(b) : all[Len(a) + i] = b[i]
  <2>1. a \in Seq(S) /\ b \in Seq(S)
    BY <1>2, <1>3
  <2>2. QED
    BY ONLY <2>1, Joined
<1> HIDE DEF all
<1>5. all = s
  <2>1. Len(all) = Len(s)
    BY <1>1, <1>2, <1>3, <1>4
  <2>2. ASSUME NEW i \in 1 .. Len(s) PROVE all[i] = s[i]
    <3>1. CASE i <= n
      BY <1>1, <1>2, <1>3, <1>4, <3>1
    <3>2. CASE i > n
      <4>1. i - n \in 1 .. Len(s) - n /\ n + (i - n) = i
        BY <1>1, <3>2
      <4>2. all[i] = b[i - n]
        BY <1>2, <1>3, <1>4, <4>1
      <4>3. QED
        BY <1>3, <4>1, <4>2
    <3>3. QED
      BY <1>1, <3>1, <3>2
  <2>3. QED
    BY <1>4, <2>1, <2>2, SeqEqual
<1>6. QED
  BY <1>2, <1>3, <1>5 DEF a, b, all

\* The front of the buffer is what was there and the new bytes.
LEMMA OverwrittenFront ==
  ASSUME NEW S, NEW mem \in Seq(S), NEW k \in 0 .. Len(mem), NEW b \in Seq(S)
  PROVE  SubSeq(Overwrite(mem, k, b), 1, k + Len(b)) = SubSeq(mem, 1, k) \o b
<1> DEFINE o == Overwrite(mem, k, b)
           n == k + Len(b)
           a == SubSeq(mem, 1, k)
           ab == a \o b
           x == SubSeq(o, 1, n)
<1>1. /\ o \in Seq(S) /\ Len(o) = IF n <= Len(mem) THEN Len(mem) ELSE n
      /\ \A i \in 1 .. k : o[i] = mem[i]
      /\ \A i \in 1 .. Len(b) : o[k + i] = b[i]
  BY Overwritten
<1>2. Len(mem) \in Nat /\ Len(b) \in Nat /\ k \in Nat /\ n \in Nat
  BY LenProperties
<1>3. n \in 0 .. Len(o)
  <2> HIDE DEF o
  <2>1. QED
    BY <1>1, <1>2
<1> HIDE DEF o
<1>4. x \in Seq(S) /\ Len(x) = n /\ \A i \in 1 .. n : x[i] = o[i]
  BY <1>1, <1>3, Parted
<1>5. a \in Seq(S) /\ Len(a) = k /\ \A i \in 1 .. k : a[i] = mem[i]
  BY Parted
<1> HIDE DEF a, x
<1>6. /\ ab \in Seq(S) /\ Len(ab) = Len(a) + Len(b)
      /\ \A i \in 1 .. Len(a) : ab[i] = a[i]
      /\ \A i \in 1 .. Len(b) : ab[Len(a) + i] = b[i]
  <2>1. a \in Seq(S)
    BY <1>5
  <2>2. QED
    BY ONLY <2>1, b \in Seq(S), Joined
<1> HIDE DEF ab
<1>7. ASSUME NEW i \in 1 .. n PROVE x[i] = ab[i]
  <2>1. CASE i <= k
    BY <1>1, <1>2, <1>4, <1>5, <1>6, <2>1
  <2>2. CASE i > k
    <3>1. i - k \in 1 .. Len(b) /\ k + (i - k) = i
      BY <1>2, <2>2
    <3>2. o[i] = b[i - k] /\ ab[i] = b[i - k]
      BY <1>1, <1>5, <1>6, <3>1
    <3>3. QED
      BY <1>4, <3>2
  <2>3. QED
    BY <1>2, <2>1, <2>2
<1>8. x = ab
  BY <1>4, <1>5, <1>6, <1>7, SeqEqual
<1>9. QED
  BY <1>8 DEF x, ab, a, o

LEMMA Grouping ==
  ASSUME NEW S, NEW s \in Seq(S), NEW t \in Seq(S), NEW u \in Seq(S)
  PROVE  (s \o t) \o u = s \o (t \o u) /\ t \o u \in Seq(S)
BY ConcatAssociative, ConcatProperties

\* Something is taken off the front of a buffer and what is still to come.
LEMMA TakenOff ==
  ASSUME NEW S, NEW buf \in Seq(S), NEW n \in 0 .. Len(buf), NEW rest \in Seq(S),
         NEW ret \in 0 .. n, NEW p, p = SubSeq(buf, 1, n) \o rest
  PROVE  /\ p \in Seq(S) /\ ret <= Len(p) /\ \A i \in 1 .. n : p[i] = buf[i]
         /\ SubSeq(p, 1, ret) = SubSeq(buf, 1, ret)
         /\ SubSeq(p, ret + 1, Len(p)) = SubSeq(buf, ret + 1, n) \o rest
<1> DEFINE a == SubSeq(buf, 1, n)
           all == a \o rest
           b == SubSeq(a, 1, ret)
           c == SubSeq(a, ret + 1, Len(a))
<1>1. Len(buf) \in Nat /\ n \in Nat /\ ret \in Nat
  BY LenProperties
<1>2. a \in Seq(S) /\ Len(a) = n /\ \A i \in 1 .. n : a[i] = buf[i]
  BY Parted
<1>3. SubSeq(buf, 1, ret) = b /\ SubSeq(buf, ret + 1, n) = c
  <2>1. CASE n = 0
    BY <1>1, <1>2, <2>1, SubSeqEmpty
  <2>2. CASE n # 0 /\ ret # 0
    <3>1. ret \in 1 .. n - 1 + 1 /\ 1 \in 1 .. n - 1 + 1 /\ 1 \in 1 .. Len(buf)
          /\ n \in 1 .. Len(buf)
      BY <1>1, <2>2
    <3>2. SubSeq(buf, 1, ret) = b
      <4>1. SubSeq(SubSeq(buf, 1, n), 1, ret) = SubSeq(buf, 1 + 1 - 1, 1 + ret - 1)
        BY <3>1, SubSeqOfSubSeq
      <4>2. 1 + 1 - 1 = 1 /\ 1 + ret - 1 = ret
        BY <1>1
      <4>3. QED
        BY <4>1, <4>2
    <3>3. CASE ret = n
      BY <1>1, <1>2, <3>2, <3>3, SubSeqEmpty
    <3>4. CASE ret # n
      <4>1. ret + 1 \in 1 .. n - 1 + 1 /\ n \in 1 .. n - 1 + 1
        BY <1>1, <3>4
      <4>2. SubSeq(SubSeq(buf, 1, n), ret + 1, n) = SubSeq(buf, 1 + (ret + 1) - 1, 1 + n - 1)
        BY <3>1, <4>1, SubSeqOfSubSeq
      <4>3. 1 + (ret + 1) - 1 = ret + 1 /\ 1 + n - 1 = n
        BY <1>1
      <4>4. QED
        BY <1>2, <3>2, <4>2, <4>3
    <3>5. QED
      BY <3>3, <3>4
  <2>3. CASE n # 0 /\ ret = 0
    <3>1. SubSeq(buf, 1, 0) = <<>> /\ b = <<>>
      BY <2>3, SubSeqEmpty
    <3>2. c = a
      <4>1. c = SubSeq(a, 1, Len(a))
        BY <2>3
      <4>2. QED
        BY <1>2, <4>1, SubSeqFull
    <3>3. QED
      BY <2>3, <3>1, <3>2
  <2>4. QED
    BY <2>1, <2>2, <2>3
<1>4. ret \in 0 .. Len(a)
  BY <1>1, <1>2
<1> HIDE DEF a
<1>5. b \in Seq(S) /\ Len(b) = ret /\ c \in Seq(S) /\ b \o c = a
  BY <1>2, <1>4, Parted
<1> HIDE DEF b, c
<1>6. all = b \o (c \o rest) /\ c \o rest \in Seq(S)
  <2>1. b \in Seq(S) /\ c \in Seq(S) /\ b \o c = a
    BY <1>5
  <2>2. (b \o c) \o rest = b \o (c \o rest) /\ c \o rest \in Seq(S)
    BY ONLY <2>1, rest \in Seq(S), Grouping
  <2>3. QED
    BY <2>1, <2>2
<1> HIDE DEF all
<1>7. /\ all \in Seq(S) /\ Len(all) = n + Len(rest) /\ Len(rest) \in Nat
      /\ \A i \in 1 .. n : all[i] = a[i]
  <2>1. a \in Seq(S)
    BY <1>2
  <2>2. /\ all \in Seq(S) /\ Len(all) = Len(a) + Len(rest)
        /\ \A i \in 1 .. Len(a) : all[i] = a[i]
    BY ONLY <2>1, rest \in Seq(S), Joined DEF all
  <2>3. QED
    BY <1>2, <2>2, LenProperties
<1> DEFINE d == c \o rest
<1>8. SubSeq(all, 1, ret) = b /\ SubSeq(all, ret + 1, Len(all)) = d
  <2>1. b \in Seq(S) /\ d \in Seq(S) /\ all = b \o d /\ Len(b) = ret
    BY <1>5, <1>6
  <2> HIDE DEF d
  <2>2. /\ Len(all) = ret + Len(d) /\ \A i \in 1 .. ret : all[i] = b[i]
        /\ \A i \in 1 .. Len(d) : all[ret + i] = d[i]
    <3>1. PICK u \in Seq(S), v \in Seq(S) : u = b /\ v = d
      BY <2>1
    <3>2. Len(u \o v) = Len(u) + Len(v)
      BY Joined
    <3>3. \A i \in 1 .. Len(u) : (u \o v)[i] = u[i]
      BY Joined
    <3>4. \A i \in 1 .. Len(v) : (u \o v)[Len(u) + i] = v[i]
      BY Joined
    <3>5. QED
      BY ONLY <2>1, <3>1, <3>2, <3>3, <3>4, Zenon
  <2>3. Len(all) \in Nat /\ Len(d) \in Nat /\ ret \in 0 .. Len(all)
    BY <1>1, <2>1, <2>2, LenProperties
  <2> DEFINE x == SubSeq(all, 1, ret)
             y == SubSeq(all, ret + 1, Len(all))
  <2>4. /\ x \in Seq(S) /\ Len(x) = ret /\ \A i \in 1 .. ret : x[i] = all[i]
        /\ y \in Seq(S) /\ Len(y) = Len(all) - ret
        /\ \A i \in 1 .. Len(all) - ret : y[i] = all[ret + i]
    BY <1>7, <2>3, Parted
  <2> HIDE DEF x, y
  <2>5. x = b
    BY <2>1, <2>2, <2>4, SeqEqual
  <2>6. Len(y) = Len(d) /\ \A i \in 1 .. Len(d) : y[i] = d[i]
    BY <1>1, <2>2, <2>3, <2>4
  <2>7. y = d
    BY <2>1, <2>4, <2>6, SeqEqual
  <2>8. QED
    BY <2>5, <2>7 DEF x, y
<1>9. ret <= Len(all) /\ \A i \in 1 .. n : all[i] = buf[i]
  BY <1>1, <1>2, <1>7
<1>10. p = all
  BY DEF all, a
<1>11. QED
  BY <1>3, <1>7, <1>8, <1>9, <1>10

\* The peer sends one byte more.
LEMMA FollowsMore ==
  ASSUME NEW p \in Seq(Byte), NEW n \in Nat, NEW s \in Sock, Follows(p, n, s),
         NEW b \in Byte, b.at \in 1 .. Total(b.kind), NEW r \in Sock,
         b = [no |-> r.no, kind |-> r.kind, at |-> r.at],
         \/ s.at < Total(s.kind) /\ r.no = s.no /\ r.kind = s.kind /\ r.at = s.at + 1
         \/ s.at = Total(s.kind) /\ r.no = s.no + 1 /\ r.at = 1
  PROVE  Follows(Append(p, b), n, r)
<1> DEFINE q == Append(p, b)
           l == Len(p)
<1>1. /\ q \in Seq(Byte) /\ Len(q) = l + 1 /\ l \in Nat
      /\ \A i \in 1 .. l : q[i] = p[i] /\ p[i] \in Byte
      /\ q[l + 1] = b
  BY AppendProperties, LenProperties, ElementOfSeq
<1> HIDE DEF q, l
<1>2. \A k \in Kind : Total(k) \in Nat
  BY DEF Kind, Total
<1>3. \A x \in Byte : x.no \in Nat /\ x.kind \in Kind /\ x.at \in Nat
  BY DEF Byte
<1>4. s.no \in Nat /\ s.kind \in Kind /\ s.at \in Nat /\ r.no \in Nat /\ r.at \in Nat
  BY DEF Sock
<1>5. \A i \in 1 .. Len(q) : q[i].at \in 1 .. Total(q[i].kind)
  BY <1>1 DEF Follows, l
<1>6. ASSUME NEW i \in 1 .. Len(q), NEW j \in 1 .. Len(q), i <= j
      PROVE  /\ q[i].at + (j - i) <= Total(q[i].kind) =>
                  q[j] = [no |-> q[i].no, kind |-> q[i].kind, at |-> q[i].at + (j - i)]
             /\ q[i].at + (j - i) = Total(q[i].kind) + 1 =>
                  q[j].at = 1 /\ q[j].no = q[i].no + 1
  <2>1. CASE j <= l
    <3>1. i \in 1 .. Len(p) /\ j \in 1 .. Len(p) /\ q[i] = p[i] /\ q[j] = p[j]
      BY <1>1, <1>6, <2>1 DEF l
    <3>2. QED
      BY <1>6, <3>1 DEF Follows
  <2>2. CASE i = l + 1
    <3>1. i = j /\ q[i] = b
      BY <1>1, <1>6, <2>2
    <3>2. b = [no |-> b.no, kind |-> b.kind, at |-> b.at]
      BY DEF Byte
    <3>3. b.at \in Nat /\ Total(b.kind) \in Nat /\ b.at <= Total(b.kind)
      BY <1>2, <1>3
    <3>4. QED
      BY <3>1, <3>2, <3>3
  <2>3. CASE i <= l /\ j = l + 1
    <3> DEFINE x == p[i]
    <3>1. x \in Byte /\ q[i] = x /\ q[j] = b /\ i \in 1 .. l /\ l > 0
      BY <1>1, <2>3
    <3>2. x.at \in Nat /\ Total(x.kind) \in Nat /\ Total(s.kind) \in Nat /\ x.no \in Nat
      BY <1>2, <1>3, <1>4, <3>1
    <3>3. p[l] = [no |-> s.no, kind |-> s.kind, at |-> s.at]
      BY <3>1 DEF Follows, l
    <3>4. x.at + (l - i) <= Total(x.kind) =>
            p[l] = [no |-> x.no, kind |-> x.kind, at |-> x.at + (l - i)]
      BY <3>1 DEF Follows, l
    <3>5. x.at + (l - i) <= Total(x.kind) =>
            s.no = x.no /\ s.kind = x.kind /\ s.at = x.at + (l - i)
      BY <3>3, <3>4
    <3> HIDE DEF x
    <3>6. ASSUME x.at + (j - i) <= Total(x.kind)
          PROVE  b = [no |-> x.no, kind |-> x.kind, at |-> x.at + (j - i)]
      <4>1. x.at + (l - i) < Total(x.kind) /\ j - i = (l - i) + 1
        BY <1>1, <2>3, <3>2, <3>6
      <4>2. s.at < Total(s.kind) /\ s.no = x.no /\ s.kind = x.kind /\ s.at = x.at + (l - i)
        BY <3>5, <4>1, <3>2, <1>1
      <4>3. r.no = x.no /\ r.kind = x.kind /\ r.at = s.at + 1
        BY <4>2, <1>4, <3>2
      <4>4. r.at = x.at + (j - i)
        BY <4>1, <4>2, <4>3, <1>1, <3>2
      <4>5. QED
        BY <4>3, <4>4
    <3>7. ASSUME x.at + (j - i) = Total(x.kind) + 1
          PROVE  b.at = 1 /\ b.no = x.no + 1
      <4>1. x.at + (l - i) = Total(x.kind)
        BY <1>1, <2>3, <3>2, <3>7, SMTT(30)
      <4>2. s.at = Total(s.kind) /\ s.no = x.no
        BY <3>5, <4>1, <3>2
      <4>3. r.no = s.no + 1 /\ r.at = 1
        BY <4>2, <1>4, <3>2
      <4>4. QED
        BY <4>2, <4>3
    <3>8. QED
      BY <3>1, <3>6, <3>7
  <2>4. QED
    BY <1>1, <2>1, <2>2, <2>3
<1>7. q[1].at = 1 /\ q[1].no = n + 1 /\ q[Len(q)] = b
  <2>1. CASE l = 0
    <3>1. s.at = Total(s.kind) /\ s.no = n
      BY <2>1 DEF Follows, l
    <3>2. q[1] = b /\ b.no = r.no /\ b.at = r.at
      BY <1>1, <2>1
    <3>3. QED
      BY <1>1, <2>1, <3>1, <3>2, <1>2, <1>4
  <2>2. CASE l > 0
    BY <1>1, <2>2 DEF Follows, l
  <2>3. QED
    BY <1>1, <2>1, <2>2
<1>8. QED
  BY <1>1, <1>5, <1>6, <1>7 DEF Follows, q

\* The first packet is taken off.
LEMMA FollowsCut ==
  ASSUME NEW p \in Seq(Byte), NEW n \in Nat, NEW s \in Sock, Follows(p, n, s),
         NEW ret \in 1 .. Len(p), ret = Total(p[1].kind)
  PROVE  /\ SubSeq(p, 1, ret) = Packet(n + 1, p[1].kind)
         /\ Follows(SubSeq(p, ret + 1, Len(p)), n + 1, s)
<1> DEFINE a == SubSeq(p, 1, ret)
           q == SubSeq(p, ret + 1, Len(p))
           l == Len(p)
<1>1. /\ a \in Seq(Byte) /\ Len(a) = ret /\ \A i \in 1 .. ret : a[i] = p[i]
      /\ q \in Seq(Byte) /\ Len(q) = l - ret /\ \A i \in 1 .. l - ret : q[i] = p[ret + i]
  BY Parted
<1>2. l \in Nat /\ \A i \in 1 .. l : p[i] \in Byte
  BY LenProperties, ElementOfSeq
<1>3. p[1].at = 1 /\ p[1].no = n + 1 /\ p[l] = [no |-> s.no, kind |-> s.kind, at |-> s.at]
  BY <1>2 DEF Follows
<1>4. ASSUME NEW i \in 1 .. ret
      PROVE  p[i] = [no |-> n + 1, kind |-> p[1].kind, at |-> i]
  <2>1. 1 \in 1 .. l /\ i \in 1 .. l /\ 1 <= i
    BY <1>2
  <2>2. p[1].at + (i - 1) <= Total(p[1].kind) /\ p[1].at + (i - 1) = i
    BY <1>3
  <2>3. p[i] = [no |-> p[1].no, kind |-> p[1].kind, at |-> p[1].at + (i - 1)]
    BY <2>1, <2>2 DEF Follows
  <2>4. QED
    BY <1>3, <2>2, <2>3
<1>5. a = Packet(n + 1, p[1].kind)
  <2> DEFINE k == p[1].kind
  <2>1. a = [i \in 1 .. ret |-> a[i]]
    BY <1>1, LenProperties
  <2>2. \A i \in 1 .. ret : a[i] = [no |-> n + 1, kind |-> k, at |-> i]
    BY <1>1, <1>4
  <2>3. a = [i \in 1 .. ret |-> [no |-> n + 1, kind |-> k, at |-> i]]
    BY <2>1, <2>2
  <2>4. QED
    BY <2>3 DEF Packet
<1>6. ret \in 1 .. l
  OBVIOUS
<1> HIDE DEF a, q, l
<1>7. ASSUME NEW i \in 1 .. Len(q) PROVE ret + i \in 1 .. l /\ q[i] = p[ret + i]
  BY <1>1, <1>2, <1>6
<1>8. \A i \in 1 .. Len(q) : q[i].at \in 1 .. Total(q[i].kind)
  <2>1. TAKE i \in 1 .. Len(q)
  <2>2. ret + i \in 1 .. Len(p) /\ q[i] = p[ret + i]
    BY <1>7 DEF l
  <2>3. QED
    BY <2>2 DEF Follows
<1>9. ASSUME NEW i \in 1 .. Len(q), NEW j \in 1 .. Len(q), i <= j
      PROVE  /\ q[i].at + (j - i) <= Total(q[i].kind) =>
                  q[j] = [no |-> q[i].no, kind |-> q[i].kind, at |-> q[i].at + (j - i)]
             /\ q[i].at + (j - i) = Total(q[i].kind) + 1 =>
                  q[j].at = 1 /\ q[j].no = q[i].no + 1
  <2>1. /\ ret + i \in 1 .. Len(p) /\ ret + j \in 1 .. Len(p)
        /\ q[i] = p[ret + i] /\ q[j] = p[ret + j]
    BY <1>7 DEF l
  <2>2. ret + i <= ret + j /\ (ret + j) - (ret + i) = j - i
    BY <1>6, <1>9, <1>1, <1>2
  <2> DEFINE u == ret + i
             v == ret + j
  <2>3. /\ p[u].at + (v - u) <= Total(p[u].kind) =>
             p[v] = [no |-> p[u].no, kind |-> p[u].kind, at |-> p[u].at + (v - u)]
        /\ p[u].at + (v - u) = Total(p[u].kind) + 1 => p[v].at = 1 /\ p[v].no = p[u].no + 1
    <3>1. u \in 1 .. Len(p) /\ v \in 1 .. Len(p) /\ u <= v
      BY <2>1, <2>2
    <3> HIDE DEF u, v
    <3>2. QED
      BY <3>1 DEF Follows
  <2>4. QED
    BY <2>1, <2>2, <2>3
<1>10. ASSUME Len(q) > 0
      PROVE  /\ q[1].at = 1 /\ q[1].no = n + 2
             /\ q[Len(q)] = [no |-> s.no, kind |-> s.kind, at |-> s.at]
  <2>1. 1 \in 1 .. l /\ ret + 1 \in 1 .. l /\ (ret + 1) - 1 = ret /\ ret + (l - ret) = l
    BY <1>1, <1>2, <1>6, <1>10
  <2>2. p[1].at + ret = Total(p[1].kind) + 1
    BY <1>3, <1>6
  <2> DEFINE v == ret + 1
  <2>3. p[v].at = 1 /\ p[v].no = p[1].no + 1
    <3>1. 1 \in 1 .. Len(p) /\ v \in 1 .. Len(p) /\ 1 <= v /\ p[1].at + (v - 1) = Total(p[1].kind) + 1
      BY <2>1, <2>2 DEF l
    <3> HIDE DEF v
    <3>2. QED
      BY <3>1 DEF Follows
  <2>4. q[1] = p[ret + 1] /\ q[Len(q)] = p[l]
    <3>1. 1 \in 1 .. Len(q) /\ Len(q) \in 1 .. Len(q) /\ ret + Len(q) = l
      BY <1>1, <1>2, <1>6, <1>10
    <3>2. q[1] = p[ret + 1] /\ q[Len(q)] = p[ret + Len(q)]
      BY <1>7, <3>1
    <3>3. QED
      BY <3>1, <3>2
  <2>5. QED
    BY <1>3, <2>3, <2>4
<1>11. ASSUME Len(q) = 0 PROVE s.at = Total(s.kind) /\ s.no = n + 1
  <2>1. ret = l /\ ret \in 1 .. ret
    BY <1>1, <1>2, <1>6, <1>11
  <2>2. p[l] = [no |-> n + 1, kind |-> p[1].kind, at |-> ret]
    BY <1>4, <2>1
  <2>3. QED
    BY <1>3, <2>2
<1>12. Follows(q, n + 1, s)
  <2>1. (n + 1) + 1 = n + 2
    OBVIOUS
  <2>2. QED
    BY <1>8, <1>9, <1>10, <1>11, <2>1 DEF Follows
<1>13. QED
  BY <1>5, <1>12 DEF a, q, l

-----------------------------------------------------------------------------
(* One connection *)

LEMMA TypesOf ==
  ASSUME Types, NEW c \in Conns
  PROVE  /\ client[c] \in Client /\ sock[c] \in Sock /\ queued[c] \in Seq(Bytes)
         /\ cut[c] \in Cut /\ armed[c] \in {"none", "in", "inout"}
         /\ client[c].live \in BOOLEAN /\ client[c].sbuf \in Seq(Bytes)
         /\ client[c].spos \in Nat /\ client[c].rbuf \in Seq(Byte) /\ client[c].rlen \in Nat
         /\ sock[c].in \in Seq(Byte) /\ sock[c].wire \in Seq(Bytes) /\ sock[c].taken \in Nat
         /\ cut[c].no \in Nat
         /\ Len(client[c].sbuf) \in Nat /\ Len(client[c].rbuf) \in Nat
         /\ Len(sock[c].in) \in Nat /\ Len(sock[c].wire) \in Nat
<1>1. /\ client[c] \in Client /\ sock[c] \in Sock /\ queued[c] \in Seq(Bytes)
      /\ cut[c] \in Cut /\ armed[c] \in {"none", "in", "inout"}
  BY DEF Types
<1>2. /\ client[c].live \in BOOLEAN /\ client[c].sbuf \in Seq(Bytes)
      /\ client[c].spos \in Nat /\ client[c].rbuf \in Seq(Byte) /\ client[c].rlen \in Nat
  BY <1>1 DEF Client
<1>3. /\ sock[c].in \in Seq(Byte) /\ sock[c].wire \in Seq(Bytes) /\ sock[c].taken \in Nat
      /\ cut[c].no \in Nat
  BY <1>1 DEF Sock, Cut
<1>4. /\ Len(client[c].sbuf) \in Nat /\ Len(client[c].rbuf) \in Nat
      /\ Len(sock[c].in) \in Nat /\ Len(sock[c].wire) \in Nat
  BY <1>2, <1>3, LenProperties
<1>5. QED
  BY <1>1, <1>2, <1>3, <1>4

LEMMA UnsentType ==
  ASSUME Types, NEW c \in Conns, Sizes(c)
  PROVE  /\ Unsent(c) \in Seq(Bytes) /\ Len(Unsent(c)) = Len(client[c].sbuf) - client[c].spos
         /\ Len(Unsent(c)) \in Nat
<1> DEFINE d == client[c]
<1>1. d.sbuf \in Seq(Bytes) /\ d.spos \in 0 .. Len(d.sbuf) /\ Len(d.sbuf) \in Nat /\ d.spos \in Nat
  BY TypesOf DEF Sizes
<1>2. QED
  BY <1>1, Parted, SMTT(30) DEF Unsent

\* What recv() puts into the buffer, and what is left in the socket.
LEMMA Reception ==
  ASSUME Types, NEW c \in Conns, Sizes(c)
  PROVE  LET got  == Received(c)
             left == SubSeq(sock[c].in, Len(got) + 1, Len(sock[c].in))
         IN  /\ got \in Seq(Byte) /\ Len(got) \in Nat
             /\ Len(got) <= MaxPack - client[c].rlen
             /\ left \in Seq(Byte) /\ got \o left = sock[c].in
             /\ Arrived(c) \in Seq(Byte) /\ ArrivedLen(c) \in 0 .. Len(Arrived(c))
             /\ Len(Arrived(c)) \in 0 .. MaxPack
             /\ SubSeq(Arrived(c), 1, ArrivedLen(c)) \o left = Pending(c)
<1> DEFINE in == sock[c].in
           mem == client[c].rbuf
           k == client[c].rlen
           m == Least(Len(in), MaxPack - k)
           got == Received(c)
           left == SubSeq(in, Len(got) + 1, Len(in))
<1>1. /\ in \in Seq(Byte) /\ Len(in) \in Nat /\ mem \in Seq(Byte) /\ Len(mem) \in Nat
      /\ k \in Nat /\ k <= Len(mem) /\ Len(mem) <= MaxPack /\ MaxPack \in Nat
  BY TypesOf, NetClientAssumption DEF Sizes
<1>2. got = SubSeq(in, 1, m)
  BY DEF Received
<1>3. ArrivedLen(c) = k + Len(got) /\ Arrived(c) = Overwrite(mem, k, got)
      /\ Pending(c) = SubSeq(mem, 1, k) \o in
  BY DEF ArrivedLen, Arrived, Pending
<1> HIDE DEF in, mem, k, got
<1>4. m \in 0 .. Len(in) /\ m <= MaxPack - k
  BY <1>1 DEF Least
<1> HIDE DEF m
<1>5. got \in Seq(Byte) /\ Len(got) = m
  BY <1>1, <1>2, <1>4, Parted
<1>6. left \in Seq(Byte) /\ got \o left = in
  BY <1>1, <1>2, <1>4, <1>5, Parted
<1> HIDE DEF left
<1> DEFINE o == Overwrite(mem, k, got)
<1>7. o \in Seq(Byte) /\ Len(o) = IF k + Len(got) <= Len(mem) THEN Len(mem) ELSE k + Len(got)
  BY <1>1, <1>5, Overwritten
<1> HIDE DEF o
<1>8. k + Len(got) \in 0 .. Len(o) /\ Len(o) \in 0 .. MaxPack
  BY <1>1, <1>4, <1>5, <1>7
<1> DEFINE a == SubSeq(mem, 1, k)
<1>9. SubSeq(o, 1, k + Len(got)) = a \o got
  <2>1. k \in 0 .. Len(mem) /\ mem \in Seq(Byte) /\ got \in Seq(Byte)
    BY <1>1, <1>5
  <2>2. QED
    BY ONLY <2>1, OverwrittenFront DEF o
<1>10. a \in Seq(Byte)
  BY <1>1, Parted
<1> HIDE DEF a
<1>11. (a \o got) \o left = a \o in
  <2>1. a \in Seq(Byte) /\ got \in Seq(Byte) /\ left \in Seq(Byte) /\ got \o left = in
    BY <1>5, <1>6, <1>10
  <2>2. \A s, t, u \in Seq(Byte) : (s \o t) \o u = s \o (t \o u)
    BY ConcatAssociative
  <2>3. (a \o got) \o left = a \o (got \o left)
    BY <2>1, <2>2, Zenon
  <2>4. QED
    BY <2>1, <2>3
<1>12. SubSeq(o, 1, k + Len(got)) \o left = Pending(c)
  BY <1>3, <1>9, <1>11 DEF a
<1>13. m \in Nat
  BY <1>1, <1>4
<1>14. QED
  BY <1>3, <1>4, <1>5, <1>6, <1>7, <1>8, <1>12, <1>13 DEF o, left, in, got, k

\* How long a packet is, is a number.
LEMMA FirstType ==
  ASSUME NEW T \in SUBSET Nat PROVE FirstByte(T) \in Nat
<1>1. CASE T = {}
  BY <1>1 DEF FirstByte
<1>2. CASE T # {}
  <2>1. PICK m \in T : \A k \in T : m <= k
    BY <1>2, LeastNat
  <2>2. Min(T) \in T
    BY <2>1 DEF Min
  <2>3. QED
    BY <1>2, <2>2 DEF FirstByte
<1>3. QED
  BY <1>1, <1>2

\* The first of some places, and that there is one.
LEMMA FirstIs ==
  ASSUME NEW T \in SUBSET Nat
  PROVE  /\ FirstByte(T) = 0 \/ FirstByte(T) \in T
         /\ \A m \in T : (\A i \in T : m <= i) => FirstByte(T) = m
<1>1. ASSUME NEW m \in T, \A i \in T : m <= i PROVE Min(T) = m
  <2>1. \A x \in T : (\A y \in T : x <= y) => x = m
    BY <1>1
  <2>2. QED
    BY <1>1, <2>1 DEF Min
<1>2. T # {} => \E m \in T : \A i \in T : m <= i
  BY LeastNat
<1>3. QED
  BY <1>1, <1>2 DEF FirstByte

\* What net_complete_http makes of a buffer with a packet at its front that
\* announces its body, whatever was left behind byte n by longer packets.
HttpFront(buf, n, k) ==
  \A i \in 1 .. n : i <= Total(k) => buf[i].at = i /\ buf[i].kind = k

LEMMA HttpPacket ==
  ASSUME NEW buf \in Seq(Byte), NEW n \in 1 .. Len(buf), NEW k \in Kind,
         k.decl \in 1 .. k.hdr, HttpFront(buf, n, k), NEW ret, ret = CompleteHttp(buf, n)
  PROVE  /\ ret \in 1 .. n => ret = Total(k)
         /\ n >= Total(k) /\ n >= MinLen => ret = Total(k)
         /\ Len(buf) = n /\ ret > 0 => ret = Total(k) /\ n >= Total(k)
<1>1. /\ Len(buf) \in Nat /\ DOMAIN buf = 1 .. Len(buf) /\ n \in Nat /\ 1 <= n
      /\ \A i \in 1 .. Len(buf) : buf[i] \in Byte
  BY LenProperties, ElementOfSeq
<1>2. PICK h, b, d \in Nat : h = k.hdr /\ b = k.body /\ d = k.decl /\ Total(k) = h + b
  BY DEF Kind, Total
<1>3. 1 <= d /\ d <= h
  BY <1>2
<1>4. \A i \in 1 .. n : i <= h + b => i \in DOMAIN buf /\ buf[i].at = i /\ buf[i].kind = k
  BY <1>1, <1>2 DEF HttpFront
<1>5. PICK H, D : /\ H = {i \in DOMAIN buf : buf[i].at = buf[i].kind.hdr}
                  /\ D = {i \in DOMAIN buf : buf[i].at = buf[i].kind.decl}
  OBVIOUS
<1>6. H \in SUBSET Nat /\ D \in SUBSET Nat
  BY <1>1, <1>5
<1>7. PICK p, q \in Nat : p = FirstByte(H) /\ q = FirstByte(D)
  BY <1>6, FirstType
<1>8. ret = IF n < MinLen THEN 0
            ELSE IF p = 0 THEN (IF n > HttpLimit THEN -1 ELSE 0)
            ELSE IF q = 0 THEN p
            ELSE IF n >= p + buf[q].kind.body THEN p + buf[q].kind.body ELSE 0
  BY <1>5, <1>7 DEF CompleteHttp, HeaderEnd, ContentLength
<1>9. MinLen \in Nat
  BY NetClientAssumption
<1>10. CASE n >= h
  <2>1. h \in 1 .. n /\ d \in 1 .. n /\ h <= h + b /\ d <= h + b
    BY <1>1, <1>2, <1>3, <1>10
  <2>2. h \in H /\ d \in D
    BY <1>2, <1>4, <1>5, <2>1
  <2>3. ASSUME NEW i \in H PROVE h <= i
    <3>1. i \in Nat /\ 1 <= i /\ buf[i].at = buf[i].kind.hdr
      BY <1>1, <1>5
    <3>2. CASE i < h
      <4>1. i \in 1 .. n /\ i <= h + b
        BY <1>1, <1>2, <1>10, <3>1, <3>2
      <4>2. QED
        BY <1>2, <1>4, <3>1, <3>2, <4>1
    <3>3. QED
      BY <1>2, <3>1, <3>2
  <2>4. ASSUME NEW i \in D PROVE d <= i
    <3>1. i \in Nat /\ 1 <= i /\ buf[i].at = buf[i].kind.decl
      BY <1>1, <1>5
    <3>2. CASE i < d
      <4>1. i \in 1 .. n /\ i <= h + b
        BY <1>1, <1>2, <1>3, <1>10, <3>1, <3>2
      <4>2. QED
        BY <1>2, <1>4, <3>1, <3>2, <4>1
    <3>3. QED
      BY <1>2, <3>1, <3>2
  <2>5. p = h /\ q = d
    BY <1>6, <1>7, <2>2, <2>3, <2>4, FirstIs
  <2>6. buf[q].kind.body = b
    BY <1>2, <1>4, <2>1, <2>5
  <2>7. ret = IF n < MinLen THEN 0 ELSE IF n >= h + b THEN h + b ELSE 0
    BY <1>2, <1>3, <1>8, <2>5, <2>6
  <2>8. PICK t \in Nat : t = Total(k) /\ t = h + b /\ t >= 1
    BY <1>2, <1>3
  <2>9. /\ ret = IF n < MinLen THEN 0 ELSE IF n >= t THEN t ELSE 0
        /\ n \in Nat /\ Len(buf) \in Nat
    BY <1>1, <2>7, <2>8
  <2>10. /\ ret \in 1 .. n => ret = t
         /\ n >= t /\ n >= MinLen => ret = t
         /\ Len(buf) = n /\ ret > 0 => ret = t /\ n >= t
    BY ONLY <1>9, <2>9, t \in Nat
  <2>11. QED
    BY <2>8, <2>10
<1>11. CASE n < h
  <2>1. ASSUME NEW i \in H PROVE i > n /\ i <= Len(buf)
    <3>1. i \in Nat /\ 1 <= i /\ i <= Len(buf) /\ buf[i].at = buf[i].kind.hdr
      BY <1>1, <1>5
    <3>2. CASE i <= n
      <4>1. i \in 1 .. n /\ i <= h + b /\ i # h
        BY <1>1, <1>2, <1>11, <3>1, <3>2
      <4>2. QED
        BY <1>2, <1>4, <3>1, <4>1
    <3>3. QED
      BY <1>1, <3>1, <3>2
  <2>2. p = 0 \/ (p > n /\ p <= Len(buf))
    BY <1>6, <1>7, <2>1, FirstIs
  <2>3. q # 0 => buf[q].kind.body \in Nat
    <3>1. q # 0 => q \in 1 .. Len(buf)
      BY <1>1, <1>5, <1>6, <1>7, FirstIs
    <3>2. \A x \in Byte : x.kind.body \in Nat
      BY DEF Byte, Kind
    <3>3. QED
      BY <1>1, <3>1, <3>2
  <2>4. PICK y : y = buf[q].kind.body
    OBVIOUS
  <2>5. ret <= 0 \/ (ret = p /\ p > n)
    BY ONLY <1>1, <1>7, <1>8, <1>9, <2>2, <2>3, <2>4, p \in Nat, q \in Nat
  <2>6. ret \in Int
    BY ONLY <1>8, <2>3, p \in Nat, q \in Nat
  <2>7. PICK t \in Nat : t = Total(k) /\ t >= h
    BY <1>2
  <2>8. n < t
    BY <1>1, <1>11, <2>7
  <2>9. /\ ret \in 1 .. n => ret = t
        /\ n >= t /\ n >= MinLen => ret = t
        /\ Len(buf) = n /\ ret > 0 => ret = t /\ n >= t
    <3>1. n \in Nat /\ Len(buf) \in Nat
      BY <1>1
    <3>2. QED
      BY ONLY <2>2, <2>5, <2>6, <2>8, <3>1, t \in Nat, p \in Nat
  <2>10. QED
    BY <2>7, <2>9
<1>12. n >= h \/ n < h
  BY <1>1, <1>2
<1>13. QED
  BY <1>10, <1>11, <1>12

\* The packet at the front of what was sent.
LEMMA FrontOf ==
  ASSUME NEW p \in Seq(Byte), NEW m \in Nat, NEW s, Follows(p, m, s), Announced,
         OfKinds(p, HttpKinds), NEW buf \in Seq(Byte), NEW n \in 1 .. Len(buf),
         n <= Len(p), \A i \in 1 .. n : p[i] = buf[i]
  PROVE  /\ p[1].kind \in HttpKinds /\ p[1].kind \in Kind
         /\ p[1].kind.decl \in 1 .. p[1].kind.hdr
         /\ HttpFront(buf, n, p[1].kind)
<1>1. Len(p) \in Nat /\ Len(buf) \in Nat /\ 1 \in 1 .. Len(p)
  BY LenProperties
<1>2. p[1] \in Byte /\ p[1].kind \in HttpKinds /\ p[1].at = 1
  BY <1>1, ElementOfSeq DEF OfKinds, Follows
<1>3. p[1].kind \in Kind /\ Total(p[1].kind) \in Nat
  <2>1. p[1].kind \in Kind
    BY <1>2 DEF Byte
  <2>2. QED
    BY <2>1 DEF Kind, Total
<1>4. ASSUME NEW i \in 1 .. n, i <= Total(p[1].kind)
      PROVE  buf[i].at = i /\ buf[i].kind = p[1].kind
  <2>1. i \in 1 .. Len(p) /\ 1 <= i /\ 1 + (i - 1) = i
    BY <1>1
  <2>2. p[i] = [no |-> p[1].no, kind |-> p[1].kind, at |-> i]
    <3>1. p[1].at + (i - 1) = i
      BY <1>2, <2>1
    <3>2. p[1].at + (i - 1) <= Total(p[1].kind)
            => p[i] = [no |-> p[1].no, kind |-> p[1].kind, at |-> p[1].at + (i - 1)]
      BY <1>1, <2>1 DEF Follows
    <3>3. QED
      BY <1>4, <3>1, <3>2
  <2>3. QED
    BY <2>2
<1>5. QED
  BY <1>2, <1>3, <1>4 DEF HttpFront, Announced

LEMMA HttpLength ==
  ASSUME NEW p \in Seq(Byte), NEW m \in Nat, NEW s, Follows(p, m, s), Announced,
         OfKinds(p, HttpKinds), NEW buf \in Seq(Byte), NEW n \in 1 .. Len(buf),
         n <= Len(p), \A i \in 1 .. n : p[i] = buf[i], NEW ret, ret = CompleteHttp(buf, n)
  PROVE  /\ ret \in 1 .. n => ret = Total(p[1].kind)
         /\ n >= Total(p[1].kind) /\ n >= MinLen => ret = Total(p[1].kind)
         /\ Len(buf) = n /\ ret > 0 => ret = Total(p[1].kind) /\ n >= Total(p[1].kind)
BY FrontOf, HttpPacket

LEMMA CompleteType ==
  ASSUME NEW mem \in Seq(Byte), NEW n \in 1 .. Len(mem)
  PROVE  Complete(mem, n) \in Int
<1>1. DOMAIN mem = 1 .. Len(mem) /\ Len(mem) \in Nat /\ \A i \in 1 .. Len(mem) : mem[i] \in Byte
  BY LenProperties, ElementOfSeq
<1>2. \A x \in Byte : x.kind.body \in Nat /\ Total(x.kind) \in Nat
  <2>1. \A x \in Byte : x.kind \in Kind
    BY DEF Byte
  <2>2. \A k \in Kind : k.body \in Nat /\ Total(k) \in Nat
    BY DEF Kind, Total
  <2>3. QED
    BY <2>1, <2>2
<1>3. HeaderEnd(mem) \in Nat /\ ContentLength(mem) \in Nat
  BY <1>1, FirstType DEF HeaderEnd, ContentLength
<1>4. ContentLength(mem) # 0 => ContentLength(mem) \in DOMAIN mem
  <2> DEFINE T == {i \in DOMAIN mem : mem[i].at = mem[i].kind.decl}
  <2>1. CASE T # {}
    <3>1. T \subseteq DOMAIN mem /\ DOMAIN mem \subseteq Nat
      BY <1>1
    <3>2. ContentLength(mem) = Min(T)
      BY <2>1 DEF ContentLength, FirstByte
    <3> HIDE DEF T
    <3>3. PICK m \in T : \A k \in T : m <= k
      BY <2>1, <3>1, LeastNat
    <3>4. Min(T) \in T
      BY <3>3 DEF Min
    <3>5. QED
      BY <3>1, <3>2, <3>4
  <2>2. CASE T = {}
    BY <2>2 DEF ContentLength, FirstByte
  <2>3. QED
    BY <2>1, <2>2
<1>5. CompleteHttp(mem, n) \in Int
  <2> DEFINE p == HeaderEnd(mem)
             q == ContentLength(mem)
             body == mem[q].kind.body
  <2>1. q # 0 => body \in Nat
    BY <1>1, <1>2, <1>4
  <2> HIDE DEF p, q, body
  <2>2. CompleteHttp(mem, n) = IF n < MinLen THEN 0
          ELSE IF p = 0 THEN (IF n > HttpLimit THEN -1 ELSE 0)
          ELSE IF q = 0 THEN p
          ELSE IF n >= p + body THEN p + body ELSE 0
    BY DEF CompleteHttp, p, q, body
  <2>3. QED
    BY <1>3, <2>1, <2>2 DEF p, q
<1>6. CompleteLongconn(mem, n) \in Int
  <2>1. Total(mem[1].kind) \in Nat /\ MaxPack \in Nat
    BY <1>1, <1>2, NetClientAssumption
  <2>2. QED
    BY <2>1 DEF CompleteLongconn
<1>7. QED
  BY <1>5, <1>6 DEF Complete

-----------------------------------------------------------------------------
(* Steps *)

OnlyOf(c) ==
  \A x \in Conns \ {c} : /\ client'[x] = client[x] /\ sock'[x] = sock[x]
                         /\ queued'[x] = queued[x] /\ cut'[x] = cut[x]
                         /\ armed'[x] = armed[x]

\* What happens to one connection leaves the others sound.
LEMMA OthersSound ==
  ASSUME IInv, NEW c \in Conns, mode' = mode, OnlyOf(c), Sound(c)'
  PROVE  \A x \in Conns : Sound(x)'
<1>1. ASSUME NEW x \in Conns \ {c} PROVE Sound(x)'
  <2>1. /\ client'[x] = client[x] /\ sock'[x] = sock[x] /\ queued'[x] = queued[x]
        /\ cut'[x] = cut[x] /\ armed'[x] = armed[x]
    BY DEF OnlyOf
  <2>2. Sound(x)
    BY DEF IInv
  <2>3. Sizes(x)' /\ Fresh(x)'
    BY <2>1, <2>2 DEF Sound, Sizes, Fresh
  <2>4. Sending(x)'
    BY <2>1, <2>2 DEF Sound, Sending, Unsent
  <2>5. Framed(x)'
    BY <2>1, <2>2 DEF Sound, Framed, LastCut, Pending, Measured, Kinds
  <2>6. QED
    BY <2>3, <2>4, <2>5 DEF Sound
<1>2. QED
  BY <1>1

\* As long as no connection is opened or closed, the map stays right.
LEMMA OwnerSteady ==
  ASSUME IInv, connects' = connects, \A x \in Conns : Sound(x)',
         \A x \in Conns : client'[x].live = client[x].live /\ client'[x].addr = client[x].addr
  PROVE  OneOwner'
<1>1. \A x \in Conns : (client[x].live <=> armed[x] # "none")'
  BY DEF Sound, Fresh
<1>2. \A x \in Conns : (client[x].live => connects[client[x].addr] = x)'
  BY DEF IInv, OneOwner
<1>3. ASSUME NEW a \in Addrs, connects'[a] # None
      PROVE  client'[connects'[a]].live /\ client'[connects'[a]].addr = a
  <2>1. connects'[a] = connects[a] /\ connects[a] \in Conns
    BY <1>3 DEF IInv, Types
  <2>2. client[connects[a]].live /\ client[connects[a]].addr = a
    BY <1>3, <2>1 DEF IInv, OneOwner
  <2>3. QED
    BY <2>1, <2>2
<1>4. QED
  BY <1>1, <1>2, <1>3 DEF OneOwner

\* A step of one connection that neither opens nor closes it.
LEMMA Steady ==
  ASSUME IInv, NEW c \in Conns, mode' = mode, OnlyOf(c), Types', Sound(c)',
         client'[c].live = client[c].live, client'[c].addr = client[c].addr,
         connects' = connects, sendq' = sendq, pushed' = pushed,
         reads' \subseteq reads, writes' \subseteq writes
  PROVE  IInv'
<1>1. \A x \in Conns : client'[x].live = client[x].live /\ client'[x].addr = client[x].addr
  BY DEF OnlyOf
<1>2. \A x \in Conns : Sound(x)'
  BY OthersSound
<1>3. Events'
  BY <1>1 DEF IInv, Events, NoStaleEvent, Types
<1>4. OneOwner'
  BY <1>1, <1>2, OwnerSteady
<1>5. QED
  BY <1>2, <1>3, <1>4 DEF IInv

NoClientFacts == NoClient \in Client /\ NewSock \in Sock /\ NoCut \in Cut

LEMMA Empty == NoClientFacts
<1>1. <<>> \in Seq(Byte) /\ <<>> \in Seq(Bytes)
  BY EmptySeq
<1>2. [hdr |-> 0, body |-> 0, decl |-> 0] \in Kind
  BY DEF Kind
<1>3. NoClient \in Client
  BY <1>1 DEF NoClient, Client
<1>4. NewSock \in Sock
  BY <1>1, <1>2 DEF NewSock, Sock
<1>5. NoCut \in Cut
  BY <1>1 DEF NoCut, Cut
<1>6. QED
  BY <1>3, <1>4, <1>5 DEF NoClientFacts

\* A connection of which nothing is there is sound.
LEMMA EmptySound ==
  ASSUME NEW c \in Conns, client[c] = NoClient, sock[c] = NewSock, queued[c] = <<>>,
         cut[c] = NoCut, armed[c] = "none"
  PROVE  Sound(c)
<1>1. Len(<<>>) = 0
  BY EmptySeq
<1>2. /\ client[c].live = FALSE /\ client[c].sbuf = <<>> /\ client[c].spos = 0
      /\ client[c].rbuf = <<>> /\ client[c].rlen = 0
  BY DEF NoClient
<1>3. /\ sock[c].in = <<>> /\ sock[c].wire = <<>> /\ sock[c].taken = 0 /\ sock[c].no = 0
      /\ sock[c].at = 0 /\ sock[c].kind = [hdr |-> 0, body |-> 0, decl |-> 0]
  BY DEF NewSock
<1>4. cut[c].no = 0
  BY DEF NoCut
<1>5. Sizes(c)
  BY <1>1, <1>2, <1>3, NetClientAssumption DEF Sizes
<1>6. Fresh(c)
  BY <1>2 DEF Fresh
<1>7. Unsent(c) = <<>> /\ Pending(c) = <<>>
  <2>1. SubSeq(<<>>, 1, 0) = <<>>
    BY SubSeqEmpty
  <2>2. <<>> \o <<>> = <<>>
    BY EmptySeq, ConcatEmptySeq
  <2>3. QED
    BY <1>1, <1>2, <1>3, <2>1, <2>2 DEF Unsent, Pending
<1>8. Sending(c)
  <2>1. <<>> \o <<>> = <<>>
    BY EmptySeq, ConcatEmptySeq
  <2>2. QED
    BY <1>3, <1>7, <2>1 DEF Sending
<1>9. Total(sock[c].kind) = 0
  BY <1>3 DEF Total
<1>10. Follows(<<>>, 0, sock[c])
  BY <1>1, <1>3, <1>9 DEF Follows
<1>11. Framed(c)
  BY <1>1, <1>4, <1>7, <1>10 DEF Framed, LastCut, OfKinds
<1>12. QED
  BY <1>5, <1>6, <1>8, <1>11 DEF Sound

LEMMA EmptyThen ==
  ASSUME NEW c \in Conns
  PROVE  (client[c] = NoClient /\ sock[c] = NewSock /\ queued[c] = <<>>
            /\ cut[c] = NoCut /\ armed[c] = "none" => Sound(c))'
<1>1. client[c] = NoClient /\ sock[c] = NewSock /\ queued[c] = <<>>
        /\ cut[c] = NoCut /\ armed[c] = "none" => Sound(c)
  BY EmptySound
<1>2. QED
  BY <1>1, PTL

LEMMA InitInv == Init => IInv
<1> SUFFICES ASSUME Init PROVE IInv
  OBVIOUS
<1>1. \A c \in Conns : Sound(c)
  BY EmptySound DEF Init
<1>2. Types
  <2>1. mode \in [http : BOOLEAN, keepalive : BOOLEAN]
    BY NetClientAssumption DEF Init
  <2>2. sendq \in Seq(Msg) /\ \A c \in Conns : queued[c] \in Seq(Bytes)
    BY EmptySeq DEF Init
  <2>3. QED
    BY <2>1, <2>2, Empty, NetClientAssumption, EmptySeq DEF Init, Types, NoClientFacts
<1>3. Events
  <2>1. Len(<<>>) = 0
    BY EmptySeq
  <2>2. QED
    BY <2>1, NetClientAssumption DEF Init, Events, NoStaleEvent
<1>4. OneOwner
  <2>1. \A c \in Conns : client[c].live = FALSE
    BY DEF Init, NoClient
  <2>2. QED
    BY <2>1 DEF Init, OneOwner
<1>5. QED
  BY <1>1, <1>2, <1>3, <1>4 DEF IInv

\* A connection is closed while its event is handled.
LEMMA Closing ==
  ASSUME IInv, NEW c \in Conns, OnClose(c), mode' = mode, sendq' = sendq,
         pushed' = pushed, stopped' = stopped,
         reads' \subseteq reads, writes' \subseteq writes, c \notin reads' \cup writes'
  PROVE  IInv'
<1>1. Types'
  <2>1. <<>> \in Seq(Bytes)
    BY EmptySeq
  <2>2. QED
    BY <2>1, Empty DEF IInv, Types, OnClose, NoClientFacts
<1>2. OnlyOf(c)
  BY DEF OnlyOf, OnClose, IInv, Types
<1>3. /\ client'[c] = NoClient /\ sock'[c] = NewSock /\ queued'[c] = <<>>
      /\ cut'[c] = NoCut /\ armed'[c] = "none"
  BY DEF OnClose, IInv, Types
<1>4. Sound(c)'
  BY <1>3, EmptyThen
<1>5. \A x \in Conns : Sound(x)'
  BY <1>2, <1>4, OthersSound
<1>6. Events'
  BY <1>2 DEF OnlyOf, IInv, Events, NoStaleEvent, Types
<1>7. OneOwner'
  <2>1. \A x \in Conns : (client[x].live <=> armed[x] # "none")'
    BY <1>5 DEF Sound, Fresh
  <2>2. client'[c].live = FALSE
    BY <1>3 DEF NoClient
  <2>3. ASSUME NEW x \in Conns, client'[x].live PROVE connects'[client'[x].addr] = x
    <3>1. x # c /\ client'[x] = client[x]
      BY <1>2, <2>2, <2>3 DEF OnlyOf
    <3>2. client[x].addr \in Addrs /\ connects[client[x].addr] = x
      BY <2>3, <3>1 DEF IInv, OneOwner, Sound, Fresh
    <3>3. QED
      BY <3>1, <3>2 DEF OnClose
  <2>4. ASSUME NEW a \in Addrs, connects'[a] # None
        PROVE  client'[connects'[a]].live /\ client'[connects'[a]].addr = a
    <3>1. connects'[a] = connects[a] /\ connects[a] # c /\ connects[a] \in Conns
      BY <2>4 DEF OnClose, IInv, Types
    <3>2. client'[connects[a]] = client[connects[a]]
      BY <1>2, <3>1 DEF OnlyOf
    <3>3. QED
      BY <2>4, <3>1, <3>2 DEF IInv, OneOwner
  <2>5. QED
    BY <2>1, <2>3, <2>4 DEF OneOwner
<1>8. QED
  BY <1>1, <1>5, <1>6, <1>7 DEF IInv

\* Steps that leave every connection alone.
LEMMA SoundStays ==
  ASSUME IInv, UNCHANGED <<mode, client, sock, queued, cut, armed>>
  PROVE  \A x \in Conns : Sound(x)'
<1> SUFFICES ASSUME NEW x \in Conns PROVE Sound(x)'
  OBVIOUS
<1>1. Sound(x)
  BY DEF IInv
<1>2. Sizes(x)' /\ Fresh(x)' /\ Sending(x)'
  BY <1>1 DEF Sound, Sizes, Fresh, Sending, Unsent
<1>3. Framed(x)'
  BY <1>1 DEF Sound, Framed, LastCut, Pending, Measured, Kinds
<1>4. QED
  BY <1>2, <1>3 DEF Sound

LEMMA PushInv == ASSUME IInv, PushMessage PROVE IInv'
<1>1. PICK a \in Addrs, l \in Lengths : sendq' = Append(sendq, Message(pushed + 1, a, l))
  BY DEF PushMessage
<1>2. Message(pushed + 1, a, l) \in Msg
  <2> DEFINE d == [i \in 1 .. l |-> <<pushed + 1, i>>]
  <2>1. l \in HeaderLen .. MaxPack /\ HeaderLen \in Nat /\ MaxPack \in Nat /\ pushed \in Nat
    BY NetClientAssumption DEF IInv, Types
  <2>2. l \in Nat /\ d \in [1 .. l -> Bytes]
    BY <2>1 DEF Bytes
  <2>3. d \in Seq(Bytes) /\ Len(d) = l
    BY <2>2, SeqDef, LenProperties
  <2> HIDE DEF d
  <2>4. [addr |-> a, data |-> d] \in Msg
    BY <2>1, <2>3 DEF Msg
  <2>5. QED
    BY <2>4 DEF Message, d
<1>3. sendq \in Seq(Msg) /\ pushed \in Nat /\ MaxPush \in Nat
  BY NetClientAssumption DEF IInv, Types
<1>4. sendq' \in Seq(Msg) /\ Len(sendq') = Len(sendq) + 1 /\ sendq' # <<>> /\ Len(sendq) \in Nat
  BY <1>1, <1>2, <1>3, AppendProperties, LenProperties
<1>5. Types'
  BY <1>3, <1>4 DEF PushMessage, IInv, Types
<1>6. Events'
  BY <1>3, <1>4 DEF PushMessage, IInv, Events, NoStaleEvent
<1>7. OneOwner'
  BY DEF PushMessage, IInv, OneOwner
<1>8. \A x \in Conns : Sound(x)'
  BY SoundStays DEF PushMessage
<1>9. QED
  BY <1>5, <1>6, <1>7, <1>8 DEF IInv

LEMMA StopInv == ASSUME IInv, Stop PROVE IInv'
<1>1. Types' /\ Events' /\ OneOwner'
  BY DEF Stop, IInv, Types, Events, NoStaleEvent, OneOwner
<1>2. \A x \in Conns : Sound(x)'
  BY SoundStays DEF Stop
<1>3. QED
  BY <1>1, <1>2 DEF IInv

LEMMA WaitInv == ASSUME IInv, Wait PROVE IInv'
<1>1. Types' /\ OneOwner'
  BY DEF Wait, IInv, Types, OneOwner
<1>2. Events'
  <2>1. \A x \in Conns : Readable(x) \/ Writable(x) => client[x].live
    BY DEF Readable, Writable, IInv, Sound, Fresh
  <2>2. Queue \notin Conns
    BY NetClientAssumption
  <2>3. reads' \cap writes' = {} /\ NoStaleEvent'
    BY <2>1, <2>2 DEF Wait, NoStaleEvent
  <2>4. Queue \in reads' => sendq' # <<>>
    BY <2>2 DEF Wait
  <2>5. QED
    BY <2>3, <2>4 DEF Wait, IInv, Events
<1>3. \A x \in Conns : Sound(x)'
  BY SoundStays DEF Wait
<1>4. QED
  BY <1>1, <1>2, <1>3 DEF IInv

\* What OnQueue takes, and what is left.
LEMMA Popped ==
  ASSUME IInv, OnQueuePops
  PROVE  /\ Head(sendq) \in Msg /\ sendq' \in Seq(Msg) /\ Len(sendq') <= pushed
         /\ Payload(Head(sendq)) \in Seq(Bytes) /\ Len(Payload(Head(sendq))) <= MaxPack
         /\ Len(Payload(Head(sendq))) \in Nat
         /\ Head(sendq).addr \in Addrs
<1> DEFINE m == Head(sendq)
<1>1. sendq # <<>> /\ sendq \in Seq(Msg) /\ Len(sendq) <= pushed /\ pushed \in Nat
  BY DEF IInv, Events, Types, OnQueuePops
<1>2. m \in Msg /\ Tail(sendq) \in Seq(Msg)
  BY <1>1, HeadTailProperties
<1>3. Len(Tail(sendq)) = Len(sendq) - 1 /\ Len(sendq) \in Nat
  BY <1>1, HeadTailProperties, LenProperties
<1>4. m.addr \in Addrs /\ m.data \in Seq(Bytes) /\ Len(m.data) \in HeaderLen .. MaxPack
  BY <1>2 DEF Msg
<1>5. HeaderLen \in Nat /\ MaxPack \in Nat
  BY NetClientAssumption
<1>6. HeaderLen \in 0 .. Len(m.data)
  BY <1>4, <1>5
<1>7. Payload(m) \in Seq(Bytes) /\ Len(Payload(m)) = Len(m.data) - HeaderLen
  BY <1>4, <1>6, Parted DEF Payload
<1>8. QED
  BY <1>1, <1>2, <1>3, <1>4, <1>5, <1>7 DEF OnQueuePops

\* The queue's event is over; the others wait.
LEMMA PoppedEvents ==
  ASSUME IInv, OnQueuePops, \A x \in Conns : client[x].live => client'[x].live
  PROVE  Events'
<1>1. Queue \notin reads' /\ reads' \subseteq reads /\ writes' = writes /\ pushed' = pushed
  BY DEF OnQueuePops
<1>2. Len(sendq') <= pushed
  BY Popped
<1>3. (reads \cup writes) \ {Queue} \subseteq Conns
  BY DEF IInv, Types
<1>4. QED
  BY <1>1, <1>2, <1>3 DEF IInv, Events, NoStaleEvent

LEMMA DroppedInv ==
  ASSUME IInv, OnQueuePops, UNCHANGED <<connects, client, armed, sock, queued>> PROVE IInv'
<1>1. Types'
  BY Popped DEF IInv, Types, OnQueuePops
<1>2. Events'
  BY PoppedEvents
<1>3. OneOwner'
  BY DEF IInv, OneOwner
<1>4. \A x \in Conns : Sound(x)'
  BY SoundStays DEF OnQueuePops
<1>5. QED
  BY <1>1, <1>2, <1>3, <1>4 DEF IInv

LEMMA ConnectsInv == ASSUME IInv, OnQueueConnects PROVE IInv'
<1> DEFINE m == Head(sendq)
           p == Payload(m)
<1>1. m.addr \in Addrs /\ p \in Seq(Bytes) /\ Len(p) <= MaxPack /\ Len(p) \in Nat
  BY Popped DEF OnQueueConnects
<1>2. PICK c \in Conns :
        /\ ~client[c].live
        /\ connects' = [connects EXCEPT ![m.addr] = c]
        /\ client' = [client EXCEPT ![c] =
             [NoClient EXCEPT !.live = TRUE, !.addr = m.addr, !.sbuf = p]]
        /\ armed' = [armed EXCEPT ![c] = "inout"]
        /\ queued' = [queued EXCEPT ![c] = p]
        /\ sock' = sock
  BY DEF OnQueueConnects
<1> DEFINE d == [NoClient EXCEPT !.live = TRUE, !.addr = m.addr, !.sbuf = p]
<1>3. /\ OnQueuePops /\ connects[m.addr] = None
      /\ mode' = mode /\ cut' = cut /\ pushed' = pushed /\ stopped' = stopped
      /\ writes' = writes /\ reads' = reads \ {Queue}
  BY DEF OnQueueConnects, OnQueuePops
<1>4. Types
  BY DEF IInv
<1> HIDE DEF m, p
<1>5. /\ d.live /\ d.addr = m.addr /\ d.sbuf = p /\ d.spos = 0 /\ d.rbuf = <<>>
      /\ d.rlen = 0 /\ client' = [client EXCEPT ![c] = d]
  BY <1>2 DEF NoClient
<1>6. d \in Client
  <2>1. NoClient \in Client
    BY Empty DEF NoClientFacts
  <2>2. QED
    BY <1>1, <2>1 DEF Client
<1> HIDE DEF d
<1>7. Types'
  <2>1. client' \in [Conns -> Client] /\ queued' \in [Conns -> Seq(Bytes)]
    BY <1>1, <1>2, <1>4, <1>5, <1>6 DEF Types
  <2>2. sendq' \in Seq(Msg)
    BY <1>3, Popped
  <2>3. connects' \in [Addrs -> Conns \cup {None}] /\ armed' \in [Conns -> {"none", "in", "inout"}]
    BY <1>1, <1>2, <1>4 DEF Types
  <2>4. QED
    BY <1>2, <1>3, <1>4, <2>1, <2>2, <2>3 DEF Types
<1>8. OnlyOf(c)
  BY <1>2, <1>3, <1>4 DEF OnlyOf, Types
<1>9. /\ client'[c] = d /\ sock'[c] = sock[c] /\ queued'[c] = p /\ cut'[c] = cut[c]
      /\ armed'[c] = "inout"
  BY <1>2, <1>3, <1>5, <1>4 DEF Types
<1>10. Sound(c)'
  <2>1. /\ d.live /\ d.addr = m.addr /\ d.sbuf = p /\ d.spos = 0 /\ d.rbuf = <<>>
        /\ d.rlen = 0
    BY <1>5
  <2>2. /\ client[c] = NoClient /\ sock[c] = NewSock /\ cut[c] = NoCut
        /\ queued[c] = <<>> /\ Sound(c)
    BY <1>2 DEF IInv, Sound, Fresh
  <2>3. sock[c].wire = <<>> /\ sock[c].taken = 0 /\ sock[c].in = <<>>
    BY <2>2 DEF NewSock
  <2>4. Len(<<>>) = 0
    BY EmptySeq
  <2>5. MaxPack \in Nat /\ SockCap \in Nat
    BY NetClientAssumption
  <2>6. Sizes(c)'
    BY <1>1, <1>9, <2>1, <2>3, <2>4, <2>5 DEF Sizes
  <2>7. Fresh(c)'
    BY <1>1, <1>9, <2>1 DEF Fresh
  <2>8. Sending(c)'
    <3>1. SubSeq(p, 0 + 1, Len(p)) = p
      BY <1>1, SubSeqFull
    <3>2. <<>> \o p = p
      BY <1>1, ConcatEmptySeq
    <3>3. QED
      BY <1>9, <2>1, <2>3, <3>1, <3>2 DEF Sending, Unsent
  <2>9. Framed(c)'
    <3>1. Pending(c)' = Pending(c)
      <4>1. client[c].rbuf = <<>> /\ client[c].rlen = 0
        BY <2>2 DEF NoClient
      <4>2. QED
        BY <1>9, <2>1, <4>1 DEF Pending
    <3>2. QED
      BY <1>3, <1>9, <2>2, <3>1 DEF Sound, Framed, LastCut, Measured, Kinds
  <2>10. QED
    BY <2>6, <2>7, <2>8, <2>9 DEF Sound
<1>11. \A x \in Conns : Sound(x)'
  BY <1>3, <1>8, <1>10, OthersSound
<1>12. d.live /\ d.addr = m.addr
  BY <1>5
<1>13. Events'
  <2>1. \A x \in Conns : client[x].live => client'[x].live
    BY <1>2, <1>8 DEF OnlyOf
  <2>2. QED
    BY <1>3, <2>1, PoppedEvents
<1>14. OneOwner'
  <2>1. \A x \in Conns : (client[x].live <=> armed[x] # "none")'
    BY <1>11 DEF Sound, Fresh
  <2>2. None \notin Conns
    BY NetClientAssumption
  <2>3. ASSUME NEW x \in Conns, client'[x].live PROVE connects'[client'[x].addr] = x
    <3>1. CASE x = c
      BY <1>1, <1>2, <1>4, <1>9, <1>12, <3>1 DEF Types
    <3>2. CASE x # c
      <4>1. client'[x] = client[x] /\ client[x].addr \in Addrs
        BY <1>8, <2>3, <3>2 DEF OnlyOf, IInv, Sound, Fresh
      <4>2. connects[client[x].addr] = x
        BY <2>3, <4>1 DEF IInv, OneOwner
      <4>3. client[x].addr # m.addr
        BY <1>3, <2>2, <4>2
      <4>4. QED
        BY <1>2, <1>4, <4>1, <4>2, <4>3 DEF Types
    <3>3. QED
      BY <3>1, <3>2
  <2>4. ASSUME NEW a \in Addrs, connects'[a] # None
        PROVE  client'[connects'[a]].live /\ client'[connects'[a]].addr = a
    <3>1. CASE a = m.addr
      BY <1>1, <1>2, <1>4, <1>9, <1>12, <3>1 DEF Types
    <3>2. CASE a # m.addr
      <4>1. connects'[a] = connects[a] /\ connects[a] \in Conns
        BY <1>2, <1>4, <2>4, <3>2 DEF Types
      <4>2. client[connects[a]].live /\ client[connects[a]].addr = a
        BY <2>4, <4>1 DEF IInv, OneOwner
      <4>3. client'[connects[a]] = client[connects[a]]
        BY <1>2, <1>8, <4>1, <4>2 DEF OnlyOf
      <4>4. QED
        BY <4>1, <4>2, <4>3
    <3>3. QED
      BY <3>1, <3>2
  <2>5. QED
    BY <2>1, <2>3, <2>4 DEF OneOwner
<1>15. QED
  BY <1>7, <1>11, <1>13, <1>14 DEF IInv

\* What is to be sent, behind what is sent already.
LEMMA SubSeqBehind ==
  ASSUME NEW S, NEW s \in Seq(S), NEW k \in 0 .. Len(s), NEW n \in 0 .. Len(s) - k
  PROVE  SubSeq(s, k + n + 1, Len(s)) =
           SubSeq(SubSeq(s, k + 1, Len(s)), n + 1, Len(s) - k)
<1>1. Len(s) \in Nat /\ k \in Nat /\ n \in Nat
  BY LenProperties
<1>2. CASE n = Len(s) - k
  BY <1>1, <1>2, SubSeqEmpty
<1>3. CASE n # Len(s) - k
  <2> DEFINE i == k + 1
             j == Len(s)
             m == n + 1
             l == Len(s) - k
  <2>1. /\ i \in 1 .. Len(s) /\ j \in 1 .. Len(s)
        /\ m \in 1 .. j - i + 1 /\ l \in 1 .. j - i + 1
    BY <1>1, <1>3
  <2>2. i + m - 1 = k + n + 1 /\ i + l - 1 = Len(s)
    BY <1>1
  <2> HIDE DEF i, j, m, l
  <2>3. SubSeq(SubSeq(s, i, j), m, l) = SubSeq(s, i + m - 1, i + l - 1)
    BY <2>1, SubSeqOfSubSeq
  <2>4. QED
    BY <2>2, <2>3 DEF i, j, m, l
<1>4. QED
  BY <1>2, <1>3

LEMMA RestOfFront ==
  ASSUME NEW S, NEW s \in Seq(S), NEW t \in Seq(S), NEW l, NEW k \in 0 .. l, NEW p,
         p = SubSeq(s, 1, l) \o t, l \in 0 .. Len(s)
  PROVE  SubSeq(p, k + 1, Len(p)) = SubSeq(s, k + 1, l) \o t
BY TakenOff, SMTT(30)

LEMMA RestBehind ==
  ASSUME NEW S, NEW s \in Seq(S), NEW t \in Seq(S), NEW k, k \in 0 .. Len(s)
  PROVE  SubSeq(s \o t, k + 1, Len(s \o t)) = SubSeq(s, k + 1, Len(s)) \o t
<1> DEFINE l == Len(s)
           p == s \o t
<1>1. l \in 0 .. Len(s) /\ k \in 0 .. l /\ p = SubSeq(s, 1, l) \o t
  BY LenProperties, SubSeqFull
<1> HIDE DEF l, p
<1>2. SubSeq(p, k + 1, Len(p)) = SubSeq(s, k + 1, l) \o t
  BY <1>1, RestOfFront, ZenonT(40)
<1>3. QED
  BY <1>2 DEF l, p

LEMMA AppendsInv == ASSUME IInv, OnQueueAppends PROVE IInv'
<1> DEFINE m == Head(sendq)
           p == Payload(m)
<1>1. m.addr \in Addrs /\ p \in Seq(Bytes)
  BY Popped DEF OnQueueAppends
<1>2. Types /\ connects[m.addr] # None
  BY DEF IInv, OnQueueAppends
<1>3. PICK c \in Conns : c = connects[m.addr] /\ client[c].live
  BY <1>1, <1>2 DEF Types, IInv, OneOwner
<1> DEFINE d == [client[c] EXCEPT !.sbuf = @ \o p]
<1>4. /\ OnQueuePops
      /\ Len(client[c].sbuf) + Len(p) <= MaxPack
      /\ client' = [client EXCEPT ![c] = d]
      /\ armed' = [armed EXCEPT ![c] = "inout"]
      /\ queued' = [queued EXCEPT ![c] = @ \o p]
      /\ connects' = connects /\ sock' = sock
  BY <1>3 DEF OnQueueAppends
<1>5. mode' = mode /\ cut' = cut /\ pushed' = pushed /\ stopped' = stopped
      /\ writes' = writes /\ reads' = reads \ {Queue}
  BY <1>4 DEF OnQueuePops
<1>6. sendq' \in Seq(Msg)
  BY <1>4, Popped
<1> HIDE DEF m, p
<1>7. Sound(c)
  BY DEF IInv
<1> DEFINE buf == client[c].sbuf
           pos == client[c].spos
<1>8. /\ client[c] \in Client /\ buf \in Seq(Bytes) /\ pos \in Nat /\ queued[c] \in Seq(Bytes)
      /\ Len(buf) \in Nat /\ pos <= Len(buf) /\ sock[c].wire \in Seq(Bytes)
  BY <1>2, <1>3, <1>7, TypesOf DEF Sound, Sizes
<1>9. buf \o p \in Seq(Bytes) /\ Len(buf \o p) = Len(buf) + Len(p) /\ Len(p) \in Nat
  <2>1. buf \in Seq(Bytes)
    BY <1>8
  <2> HIDE DEF buf
  <2>2. QED
    BY <1>1, <2>1, ConcatProperties, LenProperties
<1>10. /\ d \in Client /\ d.sbuf = buf \o p /\ d.spos = pos /\ d.live = client[c].live
       /\ d.addr = client[c].addr /\ d.rbuf = client[c].rbuf /\ d.rlen = client[c].rlen
  <2>1. buf \o p \in Seq(Bytes)
    BY <1>9
  <2> DEFINE b == buf \o p
  <2>2. d = [client[c] EXCEPT !.sbuf = b]
    OBVIOUS
  <2> HIDE DEF b, d
  <2>3. b \in Seq(Bytes) /\ client[c] \in Client
    BY <1>8, <2>1 DEF b
  <2>4. /\ d \in Client /\ d.sbuf = b /\ d.spos = pos /\ d.live = client[c].live
        /\ d.addr = client[c].addr /\ d.rbuf = client[c].rbuf /\ d.rlen = client[c].rlen
    BY <2>2, <2>3 DEF Client
  <2>5. QED
    BY <2>4 DEF b
<1> HIDE DEF d, buf, pos
<1>11. /\ client'[c] = d /\ sock'[c] = sock[c] /\ queued'[c] = queued[c] \o p
       /\ cut'[c] = cut[c] /\ armed'[c] = "inout"
  BY <1>4, <1>5, <1>2, <1>3 DEF Types
<1>12. OnlyOf(c)
  BY <1>4, <1>5, <1>2 DEF OnlyOf, Types
<1>13. Types'
  <2>1. queued[c] \o p \in Seq(Bytes)
    BY <1>1, <1>8, ConcatProperties
  <2>2. client' \in [Conns -> Client] /\ queued' \in [Conns -> Seq(Bytes)]
        /\ armed' \in [Conns -> {"none", "in", "inout"}]
    BY <1>4, <1>2, <1>3, <1>10, <2>1 DEF Types
  <2>3. QED
    BY <1>4, <1>5, <1>2, <1>6, <2>2 DEF Types
<1>14. Sound(c)'
  <2>1. Sizes(c)'
    <3>1. Sizes(c) /\ MaxPack \in Nat
      BY <1>7, NetClientAssumption DEF Sound
    <3>2. Len(d.sbuf) <= MaxPack /\ d.spos <= Len(d.sbuf)
      BY <1>4, <1>8, <1>9, <1>10, <3>1 DEF buf
    <3>3. QED
      BY <1>10, <1>11, <3>1, <3>2 DEF Sizes
  <2>2. Fresh(c)'
    BY <1>3, <1>7, <1>10, <1>11 DEF Sound, Fresh
  <2>3. Unsent(c)' = Unsent(c) \o p
    <3>1. pos \in 0 .. Len(buf) /\ buf \in Seq(Bytes)
      BY <1>8
    <3>2. SubSeq(buf \o p, pos + 1, Len(buf \o p)) = SubSeq(buf, pos + 1, Len(buf)) \o p
      BY ONLY <1>1, <3>1, RestBehind
    <3>3. QED
      BY <1>10, <1>11, <3>2 DEF Unsent, buf, pos
  <2>4. Sending(c)'
    <3> DEFINE u == Unsent(c)
               w == sock[c].wire
    <3>1. u \in Seq(Bytes) /\ w \in Seq(Bytes) /\ w \o u = queued[c]
      BY <1>2, <1>3, <1>7, <1>8, UnsentType DEF Sound, Sending
    <3> HIDE DEF u, w
    <3>2. (w \o u) \o p = w \o (u \o p)
      <4>1. w \in Seq(Bytes) /\ u \in Seq(Bytes) /\ p \in Seq(Bytes)
        BY <1>1, <3>1
      <4>2. QED
        BY ONLY <4>1, Grouping
    <3>3. w \o (u \o p) = queued[c] \o p
      BY <3>1, <3>2
    <3>4. QED
      BY <1>11, <2>3, <3>3 DEF Sending, u, w
  <2>5. Pending(c)' = Pending(c)
    BY <1>10, <1>11 DEF Pending
  <2>6. Framed(c)'
    BY <1>5, <1>7, <1>11, <2>5 DEF Sound, Framed, LastCut, Measured, Kinds
  <2>7. QED
    BY <2>1, <2>2, <2>4, <2>6 DEF Sound
<1>15. \A x \in Conns : Sound(x)'
  BY <1>5, <1>3, <1>12, <1>14, OthersSound
<1>16. \A x \in Conns : client'[x].live = client[x].live /\ client'[x].addr = client[x].addr
  BY <1>3, <1>10, <1>11, <1>12 DEF OnlyOf
<1>17. Events'
  BY <1>4, <1>16, PoppedEvents
<1>18. OneOwner'
  BY <1>4, <1>15, <1>16, OwnerSteady
<1>19. QED
  BY <1>13, <1>15, <1>17, <1>18 DEF IInv

LEMMA SendTurn ==
  ASSUME IInv, NEW c, OnSendTurn(c)
  PROVE  /\ c \in Conns /\ client[c].live /\ mode' = mode /\ sendq' = sendq
         /\ pushed' = pushed /\ stopped' = stopped
         /\ reads' \subseteq reads /\ writes' \subseteq writes /\ c \notin reads' \cup writes'
<1>1. c \in writes /\ reads' = reads /\ writes' = writes \ {c} /\ c \notin reads
  BY DEF OnSendTurn, IInv, Events
<1>2. c \in Conns /\ c # Queue
  BY <1>1, NetClientAssumption DEF IInv, Types
<1>3. client[c].live
  BY <1>1, <1>2 DEF IInv, Events, NoStaleEvent
<1>4. QED
  BY <1>1, <1>2, <1>3 DEF OnSendTurn

LEMMA RecvTurn ==
  ASSUME IInv, NEW c \in Conns, OnRecvTurn(c)
  PROVE  /\ client[c].live /\ mode' = mode /\ sendq' = sendq
         /\ pushed' = pushed /\ stopped' = stopped
         /\ reads' \subseteq reads /\ writes' \subseteq writes /\ c \notin reads' \cup writes'
<1>1. c \in reads /\ reads' = reads \ {c} /\ writes' = writes /\ c \notin writes /\ c # Queue
  BY NetClientAssumption DEF OnRecvTurn, IInv, Events
<1>2. client[c].live
  BY <1>1 DEF IInv, Events, NoStaleEvent
<1>3. QED
  BY <1>1, <1>2 DEF OnRecvTurn

LEMMA SendFailsInv == ASSUME IInv, NEW c \in Conns, OnSendFails(c) PROVE IInv'
BY SendTurn, Closing DEF OnSendFails

LEMMA RecvEndsInv ==
  ASSUME IInv, NEW c \in Conns, OnRecvEnds(c) \/ OnRecvLast(c) PROVE IInv'
BY RecvTurn, Closing DEF OnRecvEnds, OnRecvLast

LEMMA SendNothingInv == ASSUME IInv, NEW c \in Conns, OnSendNothing(c) PROVE IInv'
<1>1. /\ Unsent(c) = <<>> /\ armed' = [armed EXCEPT ![c] = "in"]
      /\ UNCHANGED <<connects, client, sock, queued, cut>>
  BY DEF OnSendNothing
<1>2. /\ client[c].live /\ mode' = mode /\ sendq' = sendq /\ pushed' = pushed
      /\ stopped' = stopped /\ reads' \subseteq reads /\ writes' \subseteq writes
  BY SendTurn DEF OnSendNothing
<1>3. Types /\ Sound(c)
  BY DEF IInv
<1>4. Types'
  BY <1>1, <1>2, <1>3 DEF Types
<1>5. OnlyOf(c) /\ armed'[c] = "in"
  BY <1>1, <1>3 DEF OnlyOf, Types
<1>6. Unsent(c)' = Unsent(c) /\ Pending(c)' = Pending(c)
  BY <1>1 DEF Unsent, Pending
<1>7. Sound(c)'
  BY <1>1, <1>2, <1>3, <1>5, <1>6 DEF Sound, Sizes, Fresh, Sending, Framed, LastCut, Measured, Kinds
<1>8. QED
  BY <1>1, <1>2, <1>4, <1>5, <1>7, Steady

LEMMA SendSomeInv == ASSUME IInv, NEW c \in Conns, OnSendSome(c) PROVE IInv'
<1>1. PICK n \in 1 .. Len(Unsent(c)) :
        /\ n <= Free(c)
        /\ sock' = [sock EXCEPT ![c].wire = @ \o SubSeq(Unsent(c), 1, n)]
        /\ \/ /\ n < Len(Unsent(c))
              /\ client' = [client EXCEPT ![c].spos = @ + n]
              /\ UNCHANGED armed
           \/ /\ n = Len(Unsent(c))
              /\ client' = [client EXCEPT ![c].sbuf = <<>>, ![c].spos = 0]
              /\ armed' = [armed EXCEPT ![c] = "inout"]
  BY DEF OnSendSome
<1>2. /\ client[c].live /\ mode' = mode /\ sendq' = sendq /\ pushed' = pushed
      /\ stopped' = stopped /\ reads' \subseteq reads /\ writes' \subseteq writes
      /\ connects' = connects /\ queued' = queued /\ cut' = cut
  BY SendTurn DEF OnSendSome
<1>3. Types /\ Sound(c) /\ Sizes(c)
  BY DEF IInv, Sound
<1> DEFINE w == sock[c].wire
           buf == client[c].sbuf
           pos == client[c].spos
           u == Unsent(c)
           sent == w \o SubSeq(u, 1, n)
           rest == SubSeq(buf, pos + n + 1, Len(buf))
<1>4. /\ client[c] \in Client /\ sock[c] \in Sock /\ w \in Seq(Bytes) /\ buf \in Seq(Bytes)
      /\ pos \in 0 .. Len(buf) /\ Len(buf) \in Nat /\ Len(w) \in Nat /\ sock[c].taken \in Nat
      /\ pos \in Nat
  BY <1>3, TypesOf DEF Sizes
<1>5. n \in 1 .. Len(u) /\ u = SubSeq(buf, pos + 1, Len(buf))
  BY DEF Unsent
<1>6. n \in Nat /\ n >= 1 /\ Len(w) + n <= sock[c].taken + SockCap
  <2>1. SockCap \in Nat
    BY NetClientAssumption
  <2>2. Len(Unsent(c)) \in Nat
    BY <1>3, UnsentType
  <2>3. n \in Nat /\ n >= 1
    BY <2>2
  <2>4. n <= SockCap - (Len(w) - sock[c].taken)
    BY <1>1 DEF Free
  <2>5. Len(w) \in Nat /\ sock[c].taken \in Nat
    BY <1>4
  <2>6. QED
    BY <2>1, <2>3, <2>4, <2>5
<1>7. w \o u = queued[c] /\ (u # <<>> => armed[c] = "inout") /\ u # <<>>
  <2>1. Len(u) # 0
    <3>1. Len(u) \in Nat /\ n \in 1 .. Len(u)
      BY <1>3, UnsentType
    <3> HIDE DEF u
    <3>2. QED
      BY <3>1
  <2>2. Len(<<>>) = 0
    BY EmptySeq
  <2>3. u # <<>>
    <3> HIDE DEF u
    <3>1. QED
      BY <2>1, <2>2
  <2>4. QED
    BY <1>3, <2>3 DEF Sound, Sending
<1>8. /\ sent \in Seq(Bytes) /\ Len(sent) = Len(w) + n
      /\ n < Len(u) => pos + n \in 0 .. Len(buf) /\ sent \o rest = queued[c]
      /\ n = Len(u) => sent \o <<>> = queued[c]
  <2> DEFINE a == SubSeq(u, 1, n)
             b == SubSeq(u, n + 1, Len(u))
  <2>1. /\ w \in Seq(Bytes) /\ buf \in Seq(Bytes) /\ pos \in 0 .. Len(buf) /\ pos \in Nat
        /\ Len(buf) \in Nat
    BY <1>4
  <2>2. sent = w \o a
    OBVIOUS
  <2>3. w \o u = queued[c]
    BY <1>7
  <2>4. u \in Seq(Bytes) /\ Len(u) = Len(buf) - pos /\ Len(u) \in Nat
    BY <1>3, UnsentType
  <2> HIDE DEF u, w, buf, pos, sent
  <2>5. n \in 0 .. Len(u)
    BY <1>5, <1>6, <2>4
  <2>6. a \in Seq(Bytes) /\ Len(a) = n /\ b \in Seq(Bytes) /\ a \o b = u
    BY <2>4, <2>5, Parted
  <2>7. rest = b
    <3>1. n \in 0 .. Len(buf) - pos
      BY <2>4, <2>5
    <3>2. SubSeq(buf, pos + n + 1, Len(buf)) =
            SubSeq(SubSeq(buf, pos + 1, Len(buf)), n + 1, Len(buf) - pos)
      BY <2>1, <3>1, SubSeqBehind
    <3>3. QED
      BY <1>5, <2>4, <3>2
  <2>8. n = Len(u) => a = u
    BY <2>4, SubSeqFull
  <2>9. n < Len(u) => pos + n \in 0 .. Len(buf)
    BY <2>1, <2>4, <2>5
  <2> HIDE DEF a, b, rest
  <2>10. w \o a \in Seq(Bytes) /\ Len(w \o a) = Len(w) + n
    BY <2>1, <2>6, ConcatProperties
  <2>11. sent \o rest = queued[c]
    <3>1. w \in Seq(Bytes) /\ a \in Seq(Bytes) /\ b \in Seq(Bytes)
      BY <2>1, <2>6
    <3>2. (w \o a) \o b = w \o (a \o b)
      BY ONLY <3>1, Grouping
    <3>3. QED
      BY <2>2, <2>3, <2>6, <2>7, <3>2
  <2>12. n = Len(u) => sent \o <<>> = queued[c]
    <3>1. (w \o a) \o <<>> = w \o a
      BY <2>10, ConcatEmptySeq
    <3>2. QED
      BY <2>2, <2>3, <2>8, <3>1
  <2>13. QED
    BY <2>2, <2>9, <2>10, <2>11, <2>12
<1> HIDE DEF sent
<1>9. /\ sock' = [sock EXCEPT ![c].wire = sent]
      /\ sock'[c].wire = sent /\ sock'[c].taken = sock[c].taken /\ sock'[c].in = sock[c].in
      /\ sock'[c].peer = sock[c].peer /\ sock'[c].no = sock[c].no
      /\ sock'[c].kind = sock[c].kind /\ sock'[c].at = sock[c].at
      /\ sock' \in [Conns -> Sock]
  <2>1. sock' = [sock EXCEPT ![c].wire = sent]
    BY <1>1 DEF sent
  <2>2. sock \in [Conns -> Sock]
    BY <1>3 DEF Types
  <2>3. QED
    BY <1>8, <2>1, <2>2 DEF Sock
<1> HIDE DEF u, w, rest
<1>10. /\ client' \in [Conns -> Client] /\ client'[c].live = client[c].live
       /\ client'[c].addr = client[c].addr /\ client'[c].rbuf = client[c].rbuf
       /\ client'[c].rlen = client[c].rlen /\ armed' \in [Conns -> {"none", "in", "inout"}]
       /\ \A x \in Conns \ {c} : client'[x] = client[x] /\ armed'[x] = armed[x]
       /\ armed'[c] = "inout"
       /\ \/ n < Len(u) /\ client'[c].sbuf = buf /\ client'[c].spos = pos + n
          \/ n = Len(u) /\ client'[c].sbuf = <<>> /\ client'[c].spos = 0
  <2>1. /\ client \in [Conns -> Client] /\ armed \in [Conns -> {"none", "in", "inout"}]
        /\ <<>> \in Seq(Bytes) /\ armed[c] = "inout"
    BY <1>3, <1>7, EmptySeq DEF Types
  <2>2. CASE n < Len(u) /\ client' = [client EXCEPT ![c].spos = @ + n] /\ armed' = armed
    <3>1. pos + n \in Nat
      BY <1>4, <1>6
    <3>2. QED
      BY <2>1, <2>2, <3>1 DEF Client
  <2>3. CASE /\ n = Len(u)
             /\ client' = [client EXCEPT ![c].sbuf = <<>>, ![c].spos = 0]
             /\ armed' = [armed EXCEPT ![c] = "inout"]
    BY <2>1, <2>3 DEF Client
  <2>4. QED
    BY <1>1, <2>2, <2>3 DEF u
<1> HIDE DEF buf, pos
<1>11. Types'
  BY <1>2, <1>3, <1>9, <1>10 DEF Types
<1>12. OnlyOf(c)
  BY <1>2, <1>3, <1>9, <1>10 DEF OnlyOf, Types
<1>13. Sound(c)'
  <2>1. Sizes(c)'
    <3>1. Len(<<>>) = 0 /\ MaxPack \in Nat
      BY EmptySeq, NetClientAssumption
    <3>2. /\ sock'[c].taken <= Len(sock'[c].wire)
          /\ Len(sock'[c].wire) <= sock'[c].taken + SockCap
      BY <1>3, <1>4, <1>8, <1>6, <1>9 DEF Sizes, w
    <3>3. Len(client'[c].sbuf) <= MaxPack /\ client'[c].spos <= Len(client'[c].sbuf)
      BY <1>3, <1>4, <1>8, <1>10, <3>1 DEF Sizes, buf, pos
    <3>4. QED
      BY <1>3, <1>10, <3>2, <3>3 DEF Sizes
  <2>2. Fresh(c)'
    BY <1>2, <1>3, <1>10 DEF Sound, Fresh
  <2>3. Sending(c)'
    <3>1. CASE n < Len(u) /\ client'[c].sbuf = buf /\ client'[c].spos = pos + n
      <4>1. Unsent(c)' = rest
        BY <3>1 DEF Unsent, rest
      <4>2. QED
        BY <1>2, <1>8, <1>7, <1>9, <1>10, <3>1, <4>1 DEF Sending
    <3>2. CASE n = Len(u) /\ client'[c].sbuf = <<>> /\ client'[c].spos = 0
      <4>1. Unsent(c)' = <<>>
        <5>1. SubSeq(<<>>, 0 + 1, Len(<<>>)) = <<>>
          BY EmptySeq, SubSeqEmpty
        <5>2. QED
          BY <3>2, <5>1 DEF Unsent
      <4>2. QED
        BY <1>2, <1>8, <1>7, <1>9, <1>10, <3>2, <4>1 DEF Sending
    <3>3. QED
      BY <1>10, <3>1, <3>2
  <2>4. Pending(c)' = Pending(c)
    BY <1>9, <1>10 DEF Pending
  <2>5. Framed(c)'
    BY <1>2, <1>3, <1>9, <2>4 DEF Sound, Framed, LastCut, Follows, Measured, Kinds
  <2>6. QED
    BY <2>1, <2>2, <2>3, <2>5 DEF Sound
<1>14. QED
  BY <1>2, <1>10, <1>11, <1>12, <1>13, Steady

\* Between packets only the numbers of the socket count.
LEMMA FollowsSame ==
  ASSUME NEW p, NEW n, NEW s, NEW r, Follows(p, n, s),
         r.no = s.no, r.kind = s.kind, r.at = s.at
  PROVE  Follows(p, n, r)
BY DEF Follows

\* What changes when recv() has put its bytes somewhere.
LEMMA Fetched ==
  ASSUME IInv, NEW c \in Conns, sock' = Fetch(c)
  PROVE  /\ sock' \in [Conns -> Sock]
         /\ sock'[c].in = SubSeq(sock[c].in, Len(Received(c)) + 1, Len(sock[c].in))
         /\ sock'[c].wire = sock[c].wire /\ sock'[c].taken = sock[c].taken
         /\ sock'[c].peer = sock[c].peer /\ sock'[c].no = sock[c].no
         /\ sock'[c].kind = sock[c].kind /\ sock'[c].at = sock[c].at
         /\ \A x \in Conns \ {c} : sock'[x] = sock[x]
<1> DEFINE left == SubSeq(sock[c].in, Len(Received(c)) + 1, Len(sock[c].in))
<1>1. left \in Seq(Byte) /\ sock \in [Conns -> Sock]
  BY Reception DEF IInv, Sound, Types
<1>2. sock' = [sock EXCEPT ![c].in = left]
  BY DEF Fetch
<1> HIDE DEF left
<1>3. /\ sock' \in [Conns -> Sock] /\ sock'[c].in = left
      /\ sock'[c].wire = sock[c].wire /\ sock'[c].taken = sock[c].taken
      /\ sock'[c].peer = sock[c].peer /\ sock'[c].no = sock[c].no
      /\ sock'[c].kind = sock[c].kind /\ sock'[c].at = sock[c].at
      /\ \A x \in Conns \ {c} : sock'[x] = sock[x]
  BY <1>1, <1>2, ZenonT(40) DEF Sock
<1>4. QED
  BY <1>3 DEF left

\* A buffer of received bytes changes: what is sent does not.
LEMMA Buffered ==
  ASSUME IInv, NEW c \in Conns, OnRecvTurn(c), sock' = Fetch(c), NEW buf \in Seq(Byte),
         NEW n \in Nat, n <= Len(buf), Len(buf) <= MaxPack,
         client' = [client EXCEPT ![c].rbuf = buf, ![c].rlen = n],
         cut' \in [Conns -> Cut], \A x \in Conns \ {c} : cut'[x] = cut[x],
         UNCHANGED <<connects, armed, queued>>, Framed(c)'
  PROVE  IInv'
<1>1. /\ client[c].live /\ mode' = mode /\ sendq' = sendq /\ pushed' = pushed
      /\ stopped' = stopped /\ reads' \subseteq reads /\ writes' \subseteq writes
  BY RecvTurn
<1>2. Types /\ Sound(c)
  BY DEF IInv
<1>3. /\ client' \in [Conns -> Client]
      /\ client'[c].live = client[c].live /\ client'[c].addr = client[c].addr
      /\ client'[c].sbuf = client[c].sbuf /\ client'[c].spos = client[c].spos
      /\ client'[c].rbuf = buf /\ client'[c].rlen = n
      /\ \A x \in Conns \ {c} : client'[x] = client[x]
  <2>1. client \in [Conns -> Client]
    BY <1>2 DEF Types
  <2>2. QED
    BY <2>1 DEF Client
<1>4. /\ sock' \in [Conns -> Sock] /\ sock'[c].wire = sock[c].wire
      /\ sock'[c].taken = sock[c].taken /\ \A x \in Conns \ {c} : sock'[x] = sock[x]
  BY Fetched
<1>5. Types'
  BY <1>1, <1>2, <1>3, <1>4 DEF Types
<1>6. OnlyOf(c)
  BY <1>3, <1>4 DEF OnlyOf
<1>7. Sizes(c)'
  BY <1>2, <1>3, <1>4 DEF Sound, Sizes
<1>8. Fresh(c)'
  BY <1>1, <1>2, <1>3 DEF Sound, Fresh
<1>9. Sending(c)'
  <2>1. Unsent(c)' = Unsent(c)
    BY <1>3 DEF Unsent
  <2>2. QED
    BY <1>2, <1>4, <2>1 DEF Sound, Sending
<1>10. Sound(c)'
  BY <1>7, <1>8, <1>9 DEF Sound
<1>11. QED
  BY <1>1, <1>3, <1>5, <1>6, <1>10, Steady

LEMMA DiscardsInv == ASSUME IInv, NEW c \in Conns, OnRecvDiscards(c) PROVE IInv'
<1> DEFINE got == Received(c)
           old == client[c].rbuf
           buf == Overwrite(old, 0, got)
           n   == client[c].rlen
<1>1. Types /\ Sizes(c) /\ Sound(c)
  BY DEF IInv, Sound
<1>2. /\ got \in Seq(Byte) /\ Len(got) \in Nat /\ Len(got) <= MaxPack - n
      /\ old \in Seq(Byte) /\ Len(old) \in Nat /\ n \in Nat
      /\ n <= Len(old) /\ Len(old) <= MaxPack /\ MaxPack \in Nat
  BY <1>1, Reception, TypesOf, NetClientAssumption DEF Sizes
<1>3. /\ OnRecvTurn(c) /\ sock' = Fetch(c)
      /\ client' = [client EXCEPT ![c].rbuf = buf]
      /\ UNCHANGED <<connects, armed, queued, cut>> /\ ~HasRecvQueue
  BY DEF OnRecvDiscards
<1>4. client' = [client EXCEPT ![c].rbuf = buf, ![c].rlen = n]
  <2>1. client \in [Conns -> Client]
    BY <1>1 DEF Types
  <2> HIDE DEF buf
  <2>2. [client[c] EXCEPT !.rbuf = buf, !.rlen = client[c].rlen] = [client[c] EXCEPT !.rbuf = buf]
    BY <2>1 DEF Client
  <2>3. QED
    BY <1>3, <2>1, <2>2
<1> HIDE DEF got, old, n
<1>5. /\ buf \in Seq(Byte)
      /\ Len(buf) = IF 0 + Len(got) <= Len(old) THEN Len(old) ELSE 0 + Len(got)
  <2>1. 0 \in 0 .. Len(old)
    BY <1>2
  <2>2. QED
    BY <1>2, <2>1, Overwritten
<1> HIDE DEF buf
<1>6. n <= Len(buf) /\ Len(buf) <= MaxPack
  BY <1>2, <1>5
<1>7. cut' \in [Conns -> Cut] /\ \A x \in Conns : cut'[x] = cut[x]
  BY <1>1, <1>3 DEF Types
<1>8. Framed(c)'
  BY <1>1, <1>3, <1>7 DEF Sound, Framed, LastCut, OnRecvTurn, Measured
<1>9. QED
  BY <1>2, <1>3, <1>4, <1>5, <1>6, <1>7, <1>8, Buffered

LEMMA NoPacketInv == ASSUME IInv, NEW c \in Conns, OnRecvNoPacket(c) PROVE IInv'
<1>1. Types /\ Sizes(c) /\ Sound(c)
  BY DEF IInv, Sound
<1>2. /\ OnRecvTurn(c) /\ sock' = Fetch(c) /\ mode' = mode
      /\ client' = [client EXCEPT ![c].rbuf = Arrived(c), ![c].rlen = ArrivedLen(c)]
      /\ UNCHANGED <<connects, armed, queued, cut>>
  BY DEF OnRecvNoPacket, OnRecvTurn
<1> DEFINE left == SubSeq(sock[c].in, Len(Received(c)) + 1, Len(sock[c].in))
           buf == Arrived(c)
           n == ArrivedLen(c)
<1>3. /\ buf \in Seq(Byte) /\ n \in 0 .. Len(buf) /\ Len(buf) \in 0 .. MaxPack
      /\ SubSeq(buf, 1, n) \o left = Pending(c)
  BY <1>1, Reception
<1> HIDE DEF left, buf, n
<1>4. /\ sock'[c].in = left /\ sock'[c].peer = sock[c].peer /\ sock'[c].no = sock[c].no
      /\ sock'[c].kind = sock[c].kind /\ sock'[c].at = sock[c].at
  BY <1>2, Fetched DEF left
<1>5. client'[c].rbuf = buf /\ client'[c].rlen = n
  BY <1>1, <1>2 DEF Types, Client, buf, n
<1>6. Pending(c)' = Pending(c)
  BY <1>3, <1>4, <1>5 DEF Pending
<1>7. cut' \in [Conns -> Cut] /\ \A x \in Conns : cut'[x] = cut[x]
  BY <1>1, <1>2 DEF Types
<1>8. Framed(c)'
  <2>0. Kinds' = Kinds /\ Measured' = Measured
    BY <1>2 DEF Kinds, Measured
  <2>1. ASSUME HasRecvQueue, Measured, sock'[c].peer # "reset"
        PROVE  Follows(Pending(c)', cut'[c].no, sock'[c]) /\ OfKinds(Pending(c)', Kinds)
    <3>1. Follows(Pending(c), cut[c].no, sock[c]) /\ OfKinds(Pending(c), Kinds)
      BY <1>1, <1>2, <1>4, <2>1 DEF Sound, Framed
    <3>2. QED
      BY <1>4, <1>6, <1>7, <3>1, FollowsSame
  <2>2. QED
    BY <1>1, <1>2, <1>7, <2>0, <2>1 DEF Sound, Framed, LastCut
<1>9. n \in Nat /\ n <= Len(buf) /\ Len(buf) <= MaxPack
  <2>1. MaxPack \in Nat
    BY NetClientAssumption
  <2>2. QED
    BY <1>3, <2>1
<1>10. QED
  BY <1>2, <1>3, <1>7, <1>8, <1>9, Buffered DEF buf, n

\* One packet is cut off the front of the buffer.
LEMMA PacketInv == ASSUME IInv, NEW c \in Conns, OnRecvPacket(c) PROVE IInv'
<1> DEFINE left == SubSeq(sock[c].in, Len(Received(c)) + 1, Len(sock[c].in))
           buf == Arrived(c)
           n == ArrivedLen(c)
           ret == Complete(buf, n)
           rest == SubSeq(buf, ret + 1, n)
           moved == Overwrite(buf, 0, rest)
           k == cut[c].no
           last == SubSeq(buf, 1, ret)
<1>1. Types /\ Sizes(c) /\ Sound(c) /\ k \in Nat /\ sock[c] \in Sock
  BY TypesOf DEF IInv, Sound
<1>2. /\ OnRecvTurn(c) /\ sock' = Fetch(c) /\ mode' = mode /\ HasRecvQueue
      /\ sock[c].peer # "reset" /\ ret > 0 /\ ret <= n
      /\ client' = [client EXCEPT ![c].rbuf = moved, ![c].rlen = n - ret]
      /\ cut' = [cut EXCEPT ![c] = [no |-> @.no + 1, last |-> last]]
      /\ UNCHANGED <<connects, armed, queued>>
  BY DEF OnRecvPacket, OnRecvTurn
<1>3. /\ buf \in Seq(Byte) /\ n \in 0 .. Len(buf) /\ Len(buf) \in 0 .. MaxPack
      /\ left \in Seq(Byte) /\ SubSeq(buf, 1, n) \o left = Pending(c)
      /\ Received(c) \in Seq(Byte) /\ Received(c) # <<>>
  BY <1>1, Reception DEF OnRecvPacket
<1>4. n \in 1 .. Len(buf)
  <2>1. Len(Received(c)) > 0 /\ Len(Received(c)) \in Nat /\ client[c].rlen \in Nat
    BY <1>1, <1>3, EmptySeq, TypesOf
  <2>2. n > 0
    BY <2>1 DEF ArrivedLen
  <2> HIDE DEF n, buf
  <2>3. QED
    BY <1>3, <2>2
<1>5. ret = IF mode.http THEN CompleteHttp(buf, n) ELSE CompleteLongconn(buf, n)
  BY DEF Complete
<1> HIDE DEF left, buf, n
<1>6. ret \in Int
  BY <1>3, <1>4, CompleteType
<1> HIDE DEF ret
<1>7. ret \in 1 .. n /\ ret \in 0 .. Len(buf) /\ n \in Nat /\ ret \in Nat /\ n - ret \in Nat
      /\ Len(buf) \in Nat /\ MaxPack \in Nat
  <2>1. MaxPack \in Nat
    BY NetClientAssumption
  <2>2. QED
    BY <1>2, <1>3, <1>4, <1>6, <2>1
<1>8. last \in Seq(Byte)
  BY <1>3, <1>7, Parted
<1>9. rest \in Seq(Byte) /\ Len(rest) = n - ret
  <2>1. \A i \in ret + 1 .. n : buf[i] \in Byte
    BY <1>3, <1>7, ElementOfSeq
  <2>2. rest \in Seq(Byte) /\ Len(rest) = IF ret + 1 <= n THEN n - (ret + 1) + 1 ELSE 0
    BY <1>7, <2>1, SubSeqProperties
  <2> HIDE DEF rest
  <2>3. QED
    BY <1>7, <2>2
<1> HIDE DEF last, rest
<1>10. /\ moved \in Seq(Byte) /\ Len(moved) = Len(buf)
       /\ SubSeq(moved, 1, n - ret) = rest
  <2>1. 0 \in 0 .. Len(buf) /\ 0 + Len(rest) = n - ret /\ n - ret <= Len(buf)
    BY <1>3, <1>7, <1>9
  <2>2. /\ moved \in Seq(Byte)
        /\ Len(moved) = IF 0 + Len(rest) <= Len(buf) THEN Len(buf) ELSE 0 + Len(rest)
    BY <1>3, <1>9, <2>1, Overwritten
  <2>3. SubSeq(moved, 1, 0 + Len(rest)) = SubSeq(buf, 1, 0) \o rest
    BY <1>3, <1>9, <2>1, OverwrittenFront
  <2>4. SubSeq(buf, 1, 0) = <<>> /\ <<>> \o rest = rest
    BY <1>9, SubSeqEmpty, ConcatEmptySeq
  <2> HIDE DEF moved
  <2>5. QED
    BY <2>1, <2>2, <2>3, <2>4
<1> HIDE DEF moved
<1>11. /\ sock'[c].in = left /\ sock'[c].peer = sock[c].peer /\ sock'[c].no = sock[c].no
       /\ sock'[c].kind = sock[c].kind /\ sock'[c].at = sock[c].at
  BY <1>2, Fetched DEF left
<1>12. client'[c].rbuf = moved /\ client'[c].rlen = n - ret
  BY <1>1, <1>2 DEF Types, Client
<1>13. Pending(c)' = rest \o left
  BY <1>10, <1>11, <1>12 DEF Pending
<1>14. /\ cut' \in [Conns -> Cut] /\ \A x \in Conns \ {c} : cut'[x] = cut[x]
       /\ cut'[c].no = k + 1 /\ cut'[c].last = last
  <2>1. [no |-> k + 1, last |-> last] \in Cut
    BY <1>1, <1>8 DEF Cut
  <2>2. cut \in [Conns -> Cut]
    BY <1>1 DEF Types
  <2>3. QED
    BY <1>2, <2>1, <2>2
<1>15. Framed(c)'
  <2>1. ASSUME Measured
        PROVE  /\ last # <<>> /\ last = Packet(k + 1, last[1].kind)
               /\ Follows(rest \o left, k + 1, sock'[c]) /\ OfKinds(rest \o left, Kinds)
    <3> DEFINE p == Pending(c)
               q == rest \o left
    <3>1. Follows(p, k, sock[c]) /\ OfKinds(p, Kinds)
      BY <1>1, <1>2, <2>1 DEF Sound, Framed
    <3>2. p = SubSeq(buf, 1, n) \o left /\ q = SubSeq(buf, ret + 1, n) \o left
      BY <1>3 DEF rest
    <3> HIDE DEF p, q, k
    <3>4. p \in Seq(Byte) /\ ret <= Len(p) /\ \A i \in 1 .. n : p[i] = buf[i]
      <4>1. n \in 0 .. Len(buf) /\ ret \in 0 .. n
        BY <1>7, <1>3
      <4>2. QED
        BY <1>3, <3>2, <4>1, TakenOff
    <3>5. SubSeq(p, 1, ret) = SubSeq(buf, 1, ret)
      <4>1. n \in 0 .. Len(buf) /\ ret \in 0 .. n
        BY <1>7, <1>3
      <4>2. QED
        BY <1>3, <3>2, <4>1, TakenOff
    <3>6. SubSeq(p, ret + 1, Len(p)) = q
      <4>1. n \in 0 .. Len(buf) /\ ret \in 0 .. n
        BY <1>7, <1>3
      <4>2. SubSeq(p, ret + 1, Len(p)) = SubSeq(buf, ret + 1, n) \o left
        BY <1>3, <3>2, <4>1, RestOfFront
      <4>3. QED
        BY <3>2, <4>2
    <3>7. Len(p) \in Nat /\ ret \in 1 .. Len(p) /\ 1 \in 1 .. n
      <4>1. Len(p) \in Nat
        BY <3>4, LenProperties
      <4>2. QED
        BY <1>7, <3>4, <4>1
    <3>8. p[1].at = 1 /\ buf[1] = p[1]
      BY <3>1, <3>4, <3>7 DEF Follows
    <3>9. ret = Total(p[1].kind)
      <4>1. CASE ~mode.http
        BY <1>2, <1>5, <3>8, <4>1 DEF CompleteLongconn
      <4>2. CASE mode.http
        <5>1. ret = CompleteHttp(buf, n) /\ OfKinds(p, HttpKinds) /\ Announced
          BY <1>5, <2>1, <3>1, <4>2 DEF Kinds, Measured
        <5>2. p \in Seq(Byte) /\ buf \in Seq(Byte) /\ n \in 1 .. Len(buf) /\ n <= Len(p)
              /\ k \in Nat /\ ret \in 1 .. n /\ \A i \in 1 .. n : p[i] = buf[i]
          <6>1. n <= Len(p)
            BY <1>3, <1>4, <3>2, TakenOff
          <6>2. QED
            BY <1>1, <1>3, <1>4, <1>7, <3>4, <6>1 DEF k
        <5>3. QED
          BY ONLY <3>1, <5>1, <5>2, HttpLength
      <4>3. QED
        BY <4>1, <4>2
    <3>10. SubSeq(p, 1, ret) = Packet(k + 1, p[1].kind) /\ Follows(q, k + 1, sock[c])
      BY <1>1, <3>1, <3>4, <3>6, <3>7, <3>9, FollowsCut
    <3>11. Len(last) = ret /\ last[1] = p[1]
      <4>1. ret \in 0 .. Len(p) /\ 1 \in 1 .. ret
        BY <1>7, <3>7
      <4>2. last = SubSeq(p, 1, ret)
        BY <3>5 DEF last
      <4>3. QED
        BY <3>4, <4>1, <4>2, Parted
    <3>12. last # <<>>
      <4>1. Len(<<>>) = 0
        BY EmptySeq
      <4>2. QED
        BY <1>7, <3>11, <4>1
    <3>13. last = Packet(k + 1, last[1].kind)
      BY <3>5, <3>10, <3>11 DEF last
    <3>14. Follows(q, k + 1, sock'[c])
      BY <1>11, <3>10, FollowsSame
    <3>15. OfKinds(q, Kinds)
      <4>1. /\ Len(q) = Len(p) - ret /\ \A i \in 1 .. Len(p) - ret : q[i] = p[ret + i]
        <5>1. ret \in 0 .. Len(p)
          BY <3>7
        <5>2. QED
          BY <3>4, <3>6, <5>1, Parted
      <4>2. \A i \in 1 .. Len(p) - ret : ret + i \in 1 .. Len(p)
        BY <3>7
      <4>3. QED
        BY <3>1, <4>1, <4>2 DEF OfKinds
    <3>16. QED
      BY <3>12, <3>13, <3>14, <3>15 DEF q
  <2>2. Kinds' = Kinds /\ Measured' = Measured
    BY <1>2 DEF Kinds, Measured
  <2>3. QED
    BY <1>2, <1>13, <1>14, <2>1, <2>2 DEF Framed, LastCut
<1>16. n - ret <= Len(moved) /\ Len(moved) <= MaxPack
  BY <1>3, <1>7, <1>10
<1>17. QED
  BY <1>2, <1>7, <1>10, <1>14, <1>15, <1>16, Buffered

-----------------------------------------------------------------------------
(* The kernel and the peers *)

\* A step of the socket that leaves alone what was sent.
LEMMA Arriving ==
  ASSUME IInv, NEW c \in Conns, client[c].live, NEW r \in Sock,
         sock' = [sock EXCEPT ![c] = r], r.wire = sock[c].wire,
         sock[c].taken <= r.taken, r.taken <= Len(r.wire),
         UNCHANGED <<local, queued, cut>>, Framed(c)'
  PROVE  IInv'
<1>1. Types /\ Sound(c)
  BY DEF IInv
<1>2. /\ mode' = mode /\ sendq' = sendq /\ pushed' = pushed /\ connects' = connects
      /\ client' = client /\ armed' = armed /\ reads' = reads /\ writes' = writes
      /\ stopped' = stopped /\ queued' = queued /\ cut' = cut
  BY DEF local
<1>3. sock' \in [Conns -> Sock] /\ sock'[c] = r /\ \A x \in Conns \ {c} : sock'[x] = sock[x]
  BY <1>1 DEF Types
<1>4. Types'
  BY <1>1, <1>2, <1>3 DEF Types
<1>5. OnlyOf(c)
  BY <1>2, <1>3 DEF OnlyOf
<1>6. Sizes(c)'
  <2>1. /\ r.taken \in Nat /\ sock[c].taken \in Nat /\ SockCap \in Nat
        /\ Len(sock[c].wire) \in Nat
    BY <1>1, TypesOf, NetClientAssumption DEF Sock
  <2>2. QED
    BY <1>1, <1>2, <1>3, <2>1 DEF Sound, Sizes
<1>7. Fresh(c)'
  BY <1>1, <1>2 DEF Sound, Fresh
<1>8. Sending(c)'
  BY <1>1, <1>2, <1>3 DEF Sound, Sending, Unsent
<1>9. Sound(c)'
  BY <1>6, <1>7, <1>8 DEF Sound
<1>10. QED
  BY <1>2, <1>4, <1>5, <1>9, Steady

LEMMA TakesInv == ASSUME IInv, NEW c \in Conns, PeerTakes(c) PROVE IInv'
<1> DEFINE s == sock[c]
           r == [s EXCEPT !.taken = @ + 1]
<1>1. Types /\ Sound(c)
  BY DEF IInv
<1>2. s \in Sock /\ s.taken \in Nat /\ Len(s.wire) \in Nat
  BY <1>1, TypesOf
<1>3. client[c].live
  <2>1. NewSock.taken = 0 /\ Len(NewSock.wire) = 0
    BY EmptySeq DEF NewSock
  <2>2. QED
    BY <1>1, <2>1 DEF PeerTakes, Sound, Fresh
<1>4. sock' = [sock EXCEPT ![c] = r] /\ UNCHANGED <<local, queued, cut>> /\ s.taken < Len(s.wire)
  BY DEF PeerTakes
<1>5. /\ r \in Sock /\ r.wire = s.wire /\ r.in = s.in /\ r.taken = s.taken + 1
      /\ r.peer = s.peer /\ r.no = s.no /\ r.kind = s.kind /\ r.at = s.at
  BY <1>2, SMTT(30) DEF Sock
<1>6. s.taken <= r.taken /\ r.taken <= Len(r.wire)
  BY <1>2, <1>4, <1>5
<1> HIDE DEF r
<1>7. sock'[c] = r /\ client' = client /\ cut' = cut /\ mode' = mode
  BY <1>1, <1>4 DEF Types, local
<1>8. Framed(c)'
  <2>1. Pending(c)' = Pending(c)
    BY <1>5, <1>7 DEF Pending
  <2>2. QED
    BY <1>1, <1>5, <1>7, <2>1, FollowsSame DEF Sound, Framed, LastCut, Measured, Kinds
<1>9. QED
  BY <1>3, <1>4, <1>5, <1>6, <1>8, Arriving

LEMMA HangUpInv ==
  ASSUME IInv, NEW c \in Conns, PeerCloses(c) \/ PeerResets(c) PROVE IInv'
<1> DEFINE s == sock[c]
<1>1. Types /\ Sound(c)
  BY DEF IInv
<1>2. s \in Sock /\ s.taken \in Nat /\ Len(s.wire) \in Nat /\ s.taken <= Len(s.wire)
  BY <1>1, TypesOf DEF Sound, Sizes
<1>3. CASE PeerCloses(c)
  <2> DEFINE r == [s EXCEPT !.peer = "closed"]
  <2>1. /\ sock' = [sock EXCEPT ![c] = r] /\ UNCHANGED <<local, queued, cut>>
        /\ client[c].live /\ s.peer = "open"
    BY <1>3 DEF PeerCloses
  <2>2. /\ r \in Sock /\ r.wire = s.wire /\ r.in = s.in /\ r.taken = s.taken
        /\ r.no = s.no /\ r.kind = s.kind /\ r.at = s.at
    BY <1>2 DEF Sock
  <2> HIDE DEF r
  <2>3. sock'[c] = r /\ client' = client /\ cut' = cut /\ mode' = mode
    BY <1>1, <2>1 DEF Types, local
  <2>4. Pending(c)' = Pending(c)
    BY <2>2, <2>3 DEF Pending
  <2>5. Framed(c)'
    BY <1>1, <2>1, <2>2, <2>3, <2>4, FollowsSame DEF Sound, Framed, LastCut, Measured, Kinds
  <2>6. s.taken <= r.taken /\ r.taken <= Len(r.wire)
    BY <1>2, <2>2
  <2>7. QED
    BY <2>1, <2>2, <2>5, <2>6, Arriving
<1>4. CASE PeerResets(c)
  <2> DEFINE r == [s EXCEPT !.peer = "reset", !.in = <<>>]
  <2>1. /\ sock' = [sock EXCEPT ![c] = r] /\ UNCHANGED <<local, queued, cut>>
        /\ client[c].live
    BY <1>4 DEF PeerResets
  <2>2. /\ r \in Sock /\ r.wire = s.wire /\ r.peer = "reset" /\ r.taken = s.taken
    BY <1>2, EmptySeq DEF Sock
  <2> HIDE DEF r
  <2>3. sock'[c] = r /\ client' = client /\ cut' = cut /\ mode' = mode
    BY <1>1, <2>1 DEF Types, local
  <2>4. Framed(c)'
    BY <1>1, <2>2, <2>3 DEF Sound, Framed, LastCut, Measured
  <2>5. s.taken <= r.taken /\ r.taken <= Len(r.wire)
    BY <1>2, <2>2
  <2>6. QED
    BY <2>1, <2>2, <2>4, <2>5, Arriving
<1>5. QED
  BY <1>3, <1>4

LEMMA ChatsInv == ASSUME IInv, NEW c \in Conns, PeerChats(c) PROVE IInv'
<1> DEFINE s == sock[c]
           b == [no |-> 0, kind |-> NewSock.kind, at |-> 1]
           r == [s EXCEPT !.in = <<b>>]
<1>1. Types /\ Sound(c)
  BY DEF IInv
<1>2. s \in Sock /\ s.taken \in Nat /\ Len(s.wire) \in Nat /\ s.taken <= Len(s.wire)
  BY <1>1, TypesOf DEF Sound, Sizes
<1>3. /\ sock' = [sock EXCEPT ![c] = r] /\ UNCHANGED <<local, queued, cut>>
      /\ client[c].live /\ ~HasRecvQueue
  BY DEF PeerChats
<1>4. <<b>> \in Seq(Byte)
  <2>1. NewSock.kind \in Kind
    BY DEF NewSock, Kind
  <2>2. b \in Byte
    BY <2>1 DEF Byte
  <2>3. QED
    BY <2>2
<1> HIDE DEF b
<1>5. r \in Sock /\ r.wire = s.wire /\ r.taken = s.taken
  BY <1>2, <1>4 DEF Sock
<1> HIDE DEF r
<1>6. cut' = cut /\ mode' = mode
  BY <1>3 DEF local
<1>7. Framed(c)'
  BY <1>1, <1>3, <1>6 DEF Sound, Framed, LastCut, Measured
<1>8. s.taken <= r.taken /\ r.taken <= Len(r.wire)
  BY <1>2, <1>5
<1>9. QED
  BY <1>3, <1>5, <1>7, <1>8, Arriving

LEMMA ByteInv == ASSUME IInv, NEW c \in Conns, PeerByte(c) PROVE IInv'
<1> DEFINE s == sock[c]
<1>1. Types /\ Sound(c)
  BY DEF IInv
<1>2. /\ s \in Sock /\ s.taken \in Nat /\ Len(s.wire) \in Nat /\ s.taken <= Len(s.wire)
      /\ s.in \in Seq(Byte) /\ s.no \in Nat /\ s.kind \in Kind /\ s.at \in Nat
  BY <1>1, TypesOf DEF Sound, Sizes, Sock
<1>3. client[c].live /\ s.peer = "open" /\ UNCHANGED <<local, queued, cut>>
  BY DEF PeerByte
<1> DEFINE Sends(b) ==
        /\ b.at \in 1 .. Total(b.kind)
        /\ sock' = [sock EXCEPT ![c] = [s EXCEPT !.in = Append(@, b), !.no = b.no,
                                                !.kind = b.kind, !.at = b.at]]
        /\ \/ s.at < Total(s.kind) /\ b.no = s.no /\ b.kind = s.kind /\ b.at = s.at + 1
           \/ s.at = Total(s.kind) /\ b.no = s.no + 1 /\ b.at = 1 /\ b.kind \in Kinds
<1>4. \E b \in Byte : Sends(b)
  <2>1. sock \in [Conns -> Sock]
    BY <1>1 DEF Types
  <2>2. CASE /\ s.at < Total(s.kind)
             /\ sock' = [sock EXCEPT
                  ![c].in = Append(@, [no |-> s.no, kind |-> s.kind, at |-> s.at + 1]),
                  ![c].at = @ + 1]
    <3> DEFINE b == [no |-> s.no, kind |-> s.kind, at |-> s.at + 1]
               in == Append(s.in, b)
    <3>1. b \in Byte /\ b.no = s.no /\ b.kind = s.kind /\ b.at = s.at + 1
      BY <1>2 DEF Byte
    <3>2. b.at \in 1 .. Total(b.kind)
      <4>1. Total(s.kind) \in Nat
        BY <1>2 DEF Kind, Total
      <4>2. QED
        BY <1>2, <2>2, <3>1, <4>1
    <3>3. sock' = [sock EXCEPT ![c] = [s EXCEPT !.in = in, !.at = s.at + 1]]
      BY <2>2
    <3> HIDE DEF b, in
    <3>4. [s EXCEPT !.in = in, !.at = s.at + 1]
            = [s EXCEPT !.in = in, !.no = b.no, !.kind = b.kind, !.at = b.at]
      BY <1>2, <3>1 DEF Sock
    <3>5. QED
      BY <2>2, <3>1, <3>2, <3>3, <3>4 DEF in
  <2>3. ASSUME s.at = Total(s.kind), NEW k \in Kinds,
               sock' = [sock EXCEPT
                  ![c].in = Append(@, [no |-> s.no + 1, kind |-> k, at |-> 1]),
                  ![c].no = @ + 1, ![c].kind = k, ![c].at = 1]
        PROVE  \E b \in Byte : Sends(b)
    <3> DEFINE b == [no |-> s.no + 1, kind |-> k, at |-> 1]
    <3>1. k \in [hdr : Nat \ {0}, body : Nat, decl : Nat]
      BY NetClientAssumption DEF Kinds
    <3>2. k \in Kind /\ Total(k) \in Nat /\ Total(k) >= 1
      BY <3>1 DEF Kind, Total
    <3>3. b \in Byte /\ b.no = s.no + 1 /\ b.kind = k /\ b.at = 1
      BY <1>2, <3>2 DEF Byte
    <3>4. b.at \in 1 .. Total(b.kind)
      BY <3>2, <3>3
    <3>5. sock' = [sock EXCEPT ![c] = [s EXCEPT !.in = Append(@, b), !.no = b.no,
                                                !.kind = b.kind, !.at = b.at]]
      BY <2>3
    <3> HIDE DEF b
    <3>6. QED
      BY <2>3, <3>3, <3>4, <3>5
  <2>4. QED
    BY <2>2, <2>3 DEF PeerByte, Kinds
<1>5. PICK b \in Byte : Sends(b)
  BY <1>4
<1> DEFINE in == Append(s.in, b)
           r == [s EXCEPT !.in = in, !.no = b.no, !.kind = b.kind, !.at = b.at]
<1>6. in \in Seq(Byte) /\ in = s.in \o <<b>> /\ <<b>> \in Seq(Byte)
  BY <1>2, AppendProperties, AppendIsConcat
<1>7. sock' = [sock EXCEPT ![c] = r]
  BY <1>5
<1> HIDE DEF in
<1>8. /\ r \in Sock /\ r.wire = s.wire /\ r.in = in /\ r.taken = s.taken /\ r.peer = s.peer
      /\ r.no = b.no /\ r.kind = b.kind /\ r.at = b.at
  <2>1. b.no \in Nat /\ b.kind \in Kind /\ b.at \in Nat
    BY DEF Byte
  <2>2. QED
    BY <1>2, <1>6, <2>1 DEF Sock
<1> HIDE DEF r
<1>9. sock'[c] = r /\ client' = client /\ cut' = cut /\ mode' = mode
  BY <1>1, <1>3, <1>7 DEF Types, local
<1> DEFINE p == Pending(c)
           held == SubSeq(client[c].rbuf, 1, client[c].rlen)
<1>10. held \in Seq(Byte)
  <2>1. client[c].rbuf \in Seq(Byte) /\ client[c].rlen \in 0 .. Len(client[c].rbuf)
    BY <1>1, TypesOf DEF Sound, Sizes
  <2>2. QED
    BY <2>1, Parted
<1>11. p = held \o s.in /\ Pending(c)' = held \o in
  BY <1>8, <1>9 DEF Pending
<1> HIDE DEF held, p
<1>12. p \in Seq(Byte) /\ held \o in = Append(p, b)
  <2> DEFINE old == s.in
             one == <<b>>
  <2>1. held \in Seq(Byte) /\ old \in Seq(Byte) /\ one \in Seq(Byte)
    BY <1>2, <1>6, <1>10
  <2> HIDE DEF old, one
  <2>2. (held \o old) \o one = held \o (old \o one)
    BY ONLY <2>1, Grouping
  <2>3. p \in Seq(Byte)
    <3>1. held \o old \in Seq(Byte)
      BY ONLY <2>1, ConcatProperties
    <3>2. QED
      BY <1>11, <3>1 DEF old
  <2>4. Append(p, b) = p \o <<b>>
    BY <2>3, AppendIsConcat
  <2>5. QED
    BY <1>6, <1>11, <2>2, <2>3, <2>4 DEF old, one
<1>13. Framed(c)'
  <2>1. ASSUME HasRecvQueue, Measured
        PROVE  Follows(Append(p, b), cut[c].no, r) /\ OfKinds(Append(p, b), Kinds)
    <3>1. Follows(p, cut[c].no, s) /\ OfKinds(p, Kinds)
      BY <1>1, <1>3, <2>1 DEF Sound, Framed, p
    <3>2. cut[c].no \in Nat
      BY <1>1, TypesOf
    <3>3. b = [no |-> r.no, kind |-> r.kind, at |-> r.at]
      BY <1>8 DEF Byte
    <3>4. \/ s.at < Total(s.kind) /\ r.no = s.no /\ r.kind = s.kind /\ r.at = s.at + 1
          \/ s.at = Total(s.kind) /\ r.no = s.no + 1 /\ r.at = 1
      BY <1>5, <1>8
    <3>5. Follows(Append(p, b), cut[c].no, r)
      BY <1>2, <1>5, <1>8, <1>12, <3>1, <3>2, <3>3, <3>4, FollowsMore
    <3>6. b.kind \in Kinds
      <4>1. CASE s.at < Total(s.kind)
        <5>1. s.at \in Nat /\ Total(s.kind) \in Nat
          BY <1>2 DEF Kind, Total
        <5>2. Len(p) # 0 /\ Len(p) \in Nat
          BY <1>12, <3>1, <4>1, <5>1, LenProperties DEF Follows
        <5>3. Len(p) \in 1 .. Len(p) /\ p[Len(p)].kind = s.kind
          BY <3>1, <5>2 DEF Follows
        <5>4. b.kind = s.kind
          BY <1>5, <4>1, <5>1
        <5>5. QED
          BY <3>1, <5>3, <5>4 DEF OfKinds
      <4>2. CASE ~ (s.at < Total(s.kind))
        BY <1>5, <4>2
      <4>3. QED
        BY <4>1, <4>2
    <3>7. OfKinds(Append(p, b), Kinds)
      <4>1. /\ Len(Append(p, b)) = Len(p) + 1 /\ Append(p, b)[Len(p) + 1] = b /\ Len(p) \in Nat
            /\ \A i \in 1 .. Len(p) : Append(p, b)[i] = p[i]
        BY <1>12, AppendProperties, LenProperties
      <4>2. \A i \in 1 .. Len(p) + 1 : i \in 1 .. Len(p) \/ i = Len(p) + 1
        BY <4>1
      <4>3. QED
        BY <3>1, <3>6, <4>1, <4>2 DEF OfKinds
    <3>8. QED
      BY <3>5, <3>7
  <2>2. Pending(c)' = Append(p, b)
    BY <1>11, <1>12
  <2>3. Kinds' = Kinds /\ Measured' = Measured
    BY <1>9 DEF Kinds, Measured
  <2>4. QED
    BY <1>1, <1>9, <2>1, <2>2, <2>3 DEF Sound, Framed, LastCut
<1>14. s.taken <= r.taken /\ r.taken <= Len(r.wire)
  BY <1>2, <1>8
<1>15. QED
  BY <1>3, <1>7, <1>8, <1>13, <1>14, Arriving

-----------------------------------------------------------------------------
(* The theorems *)

LEMMA StepInv == IInv /\ [Next]_vars => IInv'
<1> SUFFICES ASSUME IInv, [Next]_vars PROVE IInv'
  OBVIOUS
<1>1. CASE PushMessage
  BY <1>1, PushInv
<1>2. CASE Stop
  BY <1>2, StopInv
<1>3. CASE Wait
  BY <1>3, WaitInv
<1>4. CASE OnQueueNoConnection \/ OnQueueNoRoom
  BY <1>4, DroppedInv DEF OnQueueNoConnection, OnQueueNoRoom
<1>5. CASE OnQueueConnects
  BY <1>5, ConnectsInv
<1>6. CASE OnQueueAppends
  BY <1>6, AppendsInv
<1>7. ASSUME NEW c \in Conns, OnSend(c) PROVE IInv'
  BY <1>7, SendFailsInv, SendNothingInv, SendSomeInv DEF OnSend
<1>8. ASSUME NEW c \in Conns, OnRecv(c) PROVE IInv'
  BY <1>8, RecvEndsInv, DiscardsInv, NoPacketInv, PacketInv DEF OnRecv
<1>9. ASSUME NEW c \in Conns, Peer(c) PROVE IInv'
  BY <1>9, TakesInv, ByteInv, ChatsInv, HangUpInv DEF Peer
<1>10. CASE UNCHANGED vars
  <2>1. /\ UNCHANGED <<mode, sendq, pushed, connects, client, armed, reads, writes, stopped>>
        /\ UNCHANGED <<sock, queued, cut>>
    BY <1>10 DEF vars, local
  <2>2. Types' /\ Events' /\ OneOwner'
    BY <2>1 DEF IInv, Types, Events, NoStaleEvent, OneOwner
  <2>3. \A x \in Conns : Sound(x)'
    BY <2>1, SoundStays
  <2>4. QED
    BY <2>2, <2>3 DEF IInv
<1>11. QED
  BY <1>1, <1>2, <1>3, <1>4, <1>5, <1>6, <1>7, <1>8, <1>9, <1>10 DEF Next, Run, OnQueue

LEMMA Invariant == Spec => []IInv
<1>1. Init => IInv
  BY InitInv
<1>2. IInv /\ [Next]_vars => IInv'
  BY StepInv
<1>3. QED
  BY <1>1, <1>2, PTL DEF Spec

\* Objects, map, epoll and sockets agree, and what was sent and what is still to
\* be sent is what was queued, for every buffer and socket size, also after any
\* order of partial sends, hang-ups and reconnections (net_client.cc:142-237).
THEOREM StreamsCorrect == Spec => []StreamsSound
<1>1. IInv => StreamsSound
  <2> SUFFICES ASSUME IInv PROVE StreamsSound
    OBVIOUS
  <2>1. Types /\ Events /\ OneOwner /\ MaxPush \in Nat /\ SockCap \in Nat
    BY NetClientAssumption DEF IInv
  <2>2. ASSUME NEW c \in Conns
        PROVE  /\ client[c].live \in BOOLEAN /\ client[c].addr \in Addrs \cup {None}
               /\ Len(client[c].sbuf) <= MaxPack
               /\ client[c].spos \in 0 .. Len(client[c].sbuf)
               /\ client[c].rlen \in 0 .. Len(client[c].rbuf)
               /\ Len(client[c].rbuf) <= MaxPack
               /\ sock[c].taken \in 0 .. Len(sock[c].wire) /\ Free(c) \in 0 .. SockCap
               /\ sock[c].wire \o Unsent(c) = queued[c]
    <3>1. Sizes(c) /\ Sending(c)
      BY DEF IInv, Sound
    <3>2. client[c].addr \in Addrs \cup {None}
      BY <2>1, TypesOf DEF Client
    <3>3. sock[c].taken \in 0 .. Len(sock[c].wire) /\ Free(c) \in 0 .. SockCap
      BY <2>1, <3>1, TypesOf, SMTT(30) DEF Sizes, Free
    <3>4. QED
      BY <2>1, <3>1, <3>2, <3>3, TypesOf DEF Sizes, Sending
  <2>3. Len(sendq) <= pushed /\ pushed \in 0 .. MaxPush
    BY <2>1 DEF Types, Events
  <2>4. TypeOK
    BY <2>1, <2>2, <2>3 DEF TypeOK, Types
  <2>5. QED
    BY <2>1, <2>2, <2>4 DEF StreamsSound, StreamIntact
<1>2. QED
  BY <1>1, Invariant, PTL

\* No handler meets an object that another of the same batch has deleted, for
\* every number of connections and every batch (net_client.cc:106-118, 187-210).
THEOREM EventsCurrent == Spec => []NoStaleEvent
<1>1. IInv => NoStaleEvent
  BY DEF IInv, Events
<1>2. QED
  BY <1>1, Invariant, PTL

\* A connection with something to send is registered for writing, whatever was
\* queued or sent last (net_client.cc:149-154, 222-236).
THEOREM SendersArmed == Spec => []UnsentArmed
<1>1. IInv => UnsentArmed
  BY DEF IInv, Sound, Sending, UnsentArmed
<1>2. QED
  BY <1>1, Invariant, PTL

\* Packets behind a length are cut exactly where they end, in their order, for
\* every buffer, all packets and every way the stream is chopped, resets and
\* full buffers included (net_client.cc:256-287, net_check.cc).
THEOREM FramesCut == Spec => [](Measured => FramesIntact)
<1>1. IInv => (Measured => FramesIntact)
  BY TypesOf DEF IInv, Sound, Framed, LastCut, FramesIntact
<1>2. QED
  BY <1>1, Invariant, PTL

-----------------------------------------------------------------------------
(* HTTP connections that their peers keep open *)

\* The packets that peers send fit into the receive buffer.
Fits == MaxPack > 0 /\ MinLen <= MaxPack /\ \A k \in HttpKinds : Total(k) <= MaxPack

\* What waits to be read is there or the peer has hung up, and there is room
\* for it.  With one packet per connection nothing is cut, and the buffer has
\* never held more than it does.
Room(c) ==
  /\ c \in reads /\ sock[c].peer = "open" => sock[c].in # <<>>
  /\ ~HasRecvQueue => client[c].rlen = 0
  /\ OneShot => cut[c].no = 0 /\ (HasRecvQueue => Len(client[c].rbuf) = client[c].rlen)
  /\ mode.http => client[c].rlen < MaxPack

RInv == IInv /\ \A c \in Conns : Room(c)

LEMMA RoomKept ==
  ASSUME NEW x \in Conns, Room(x), mode' = mode, cut'[x].no = cut[x].no,
         client'[x].rbuf = client[x].rbuf, client'[x].rlen = client[x].rlen,
         x \in reads' /\ sock'[x].peer = "open" => sock'[x].in # <<>>
  PROVE  Room(x)'
<1>1. OneShot' = OneShot
  BY DEF OneShot
<1>2. QED
  BY <1>1 DEF Room

\* Nothing happens to the connections that are not c.
LEMMA RoomOthers ==
  ASSUME RInv, NEW c \in Conns, mode' = mode, reads' \subseteq reads, OnlyOf(c), Room(c)'
  PROVE  \A x \in Conns : Room(x)'
<1>1. ASSUME NEW x \in Conns \ {c} PROVE Room(x)'
  <2>1. client'[x] = client[x] /\ sock'[x] = sock[x] /\ cut'[x] = cut[x] /\ Room(x)
    BY DEF OnlyOf, RInv
  <2>2. x \in reads' /\ sock'[x].peer = "open" => sock'[x].in # <<>>
    BY <2>1 DEF Room
  <2>3. QED
    BY <2>1, <2>2, RoomKept
<1>2. QED
  BY <1>1

\* No buffer is touched, and no socket that waits to be read loses anything.
LEMMA RoomSteady ==
  ASSUME RInv, mode' = mode, cut' = cut,
         \A x \in Conns : /\ client'[x].rbuf = client[x].rbuf
                          /\ client'[x].rlen = client[x].rlen
                          /\ sock'[x].peer = "open" => sock[x].peer = "open"
                          /\ sock'[x].peer = "open" /\ sock[x].in # <<>> => sock'[x].in # <<>>,
         reads' \subseteq reads
  PROVE  \A x \in Conns : Room(x)'
<1> SUFFICES ASSUME NEW x \in Conns PROVE Room(x)'
  OBVIOUS
<1>1. Room(x)
  BY DEF RInv
<1>2. x \in reads' /\ sock'[x].peer = "open" => sock'[x].in # <<>>
  BY <1>1 DEF Room
<1>3. QED
  BY <1>1, <1>2, RoomKept

LEMMA RoomClosed ==
  ASSUME RInv, Fits, NEW c \in Conns, OnClose(c), mode' = mode,
         reads' \subseteq reads, c \notin reads'
  PROVE  \A x \in Conns : Room(x)'
<1>1. OnlyOf(c) /\ client'[c] = NoClient /\ cut'[c] = NoCut
  BY DEF OnlyOf, OnClose, RInv, IInv, Types
<1>2. Room(c)'
  <2>1. client'[c].rlen = 0 /\ cut'[c].no = 0 /\ Len(client'[c].rbuf) = 0
    BY <1>1, EmptySeq DEF NoClient, NoCut
  <2>2. QED
    BY <2>1 DEF Room, Fits
<1>3. QED
  BY <1>1, <1>2, RoomOthers

LEMMA RoomWait ==
  ASSUME RInv, Wait PROVE \A x \in Conns : Room(x)'
<1> SUFFICES ASSUME NEW x \in Conns PROVE Room(x)'
  OBVIOUS
<1>1. x \in reads' /\ sock'[x].peer = "open" => sock'[x].in # <<>>
  BY NetClientAssumption DEF Wait, Readable
<1>2. Room(x)
  BY DEF RInv
<1>3. QED
  BY <1>1, <1>2, RoomKept DEF Wait

LEMMA RoomQueue ==
  ASSUME RInv, OnQueue PROVE \A x \in Conns : Room(x)'
<1>1. /\ IInv /\ client \in [Conns -> Client] /\ sock \in [Conns -> Sock]
      /\ \A x \in Conns : Fresh(x)
  BY DEF RInv, IInv, Types, Sound
<1>2. OnQueuePops /\ mode' = mode /\ cut' = cut /\ reads' \subseteq reads /\ sock' = sock
  BY DEF OnQueue, OnQueueNoConnection, OnQueueConnects, OnQueueNoRoom, OnQueueAppends,
         OnQueuePops
<1>3. ASSUME NEW x \in Conns
      PROVE  client'[x].rbuf = client[x].rbuf /\ client'[x].rlen = client[x].rlen
  <2>1. CASE OnQueueNoConnection \/ OnQueueNoRoom
    BY <2>1 DEF OnQueueNoConnection, OnQueueNoRoom
  <2>2. CASE OnQueueConnects
    <3>1. PICK c \in Conns :
            /\ ~client[c].live
            /\ client' = [client EXCEPT ![c] =
                 [NoClient EXCEPT !.live = TRUE, !.addr = Head(sendq).addr,
                                  !.sbuf = Payload(Head(sendq))]]
      BY <2>2 DEF OnQueueConnects
    <3>2. client[c] = NoClient
      BY <1>1, <3>1 DEF Fresh
    <3>3. QED
      BY <1>1, <3>1, <3>2 DEF NoClient
  <2>3. CASE OnQueueAppends
    <3>1. PICK c, b : client' = [client EXCEPT ![c].sbuf = b]
      BY <2>3 DEF OnQueueAppends
    <3>2. QED
      BY <1>1, <3>1 DEF Client
  <2>4. QED
    BY <2>1, <2>2, <2>3 DEF OnQueue
<1>4. QED
  BY <1>2, <1>3, RoomSteady

LEMMA RoomSend ==
  ASSUME RInv, Fits, NEW c \in Conns, OnSend(c) PROVE \A x \in Conns : Room(x)'
<1>1. IInv /\ client \in [Conns -> Client] /\ sock \in [Conns -> Sock]
  BY DEF RInv, IInv, Types
<1>2. OnSendTurn(c)
  BY DEF OnSend, OnSendFails, OnSendNothing, OnSendSome
<1>3. mode' = mode /\ reads' \subseteq reads /\ c \notin reads'
  BY <1>1, <1>2, SendTurn
<1>4. CASE OnSendFails(c)
  BY <1>3, <1>4, RoomClosed DEF OnSendFails
<1>5. CASE OnSendNothing(c)
  BY <1>3, <1>5, RoomSteady DEF OnSendNothing
<1>6. CASE OnSendSome(c)
  <2>1. PICK n : /\ sock' = [sock EXCEPT ![c].wire = @ \o SubSeq(Unsent(c), 1, n)]
                 /\ \/ client' = [client EXCEPT ![c].spos = @ + n]
                    \/ client' = [client EXCEPT ![c].sbuf = <<>>, ![c].spos = 0]
    BY <1>6 DEF OnSendSome
  <2>2. \A x \in Conns : client'[x].rbuf = client[x].rbuf /\ client'[x].rlen = client[x].rlen
    <3>1. PICK b, k : client' = [client EXCEPT ![c].sbuf = b, ![c].spos = k]
      <4>1. client' = [client EXCEPT ![c].spos = client[c].spos + n]
              => client' = [client EXCEPT ![c].sbuf = client[c].sbuf,
                                          ![c].spos = client[c].spos + n]
        <5>1. [client[c] EXCEPT !.spos = client[c].spos + n]
                = [client[c] EXCEPT !.sbuf = client[c].sbuf, !.spos = client[c].spos + n]
          BY <1>1 DEF Client
        <5>2. QED
          BY <1>1, <5>1
      <4>2. QED
        BY <2>1, <4>1
    <3>2. QED
      BY <1>1, <3>1 DEF Client
  <2>3. \A x \in Conns : sock'[x].peer = sock[x].peer /\ sock'[x].in = sock[x].in
    BY <1>1, <2>1 DEF Sock
  <2>4. QED
    BY <1>3, <1>6, <2>2, <2>3, RoomSteady DEF OnSendSome
<1>7. QED
  BY <1>4, <1>5, <1>6 DEF OnSend

LEMMA RoomPeer ==
  ASSUME RInv, NEW c \in Conns, Peer(c) PROVE \A x \in Conns : Room(x)'
<1>1. IInv /\ sock \in [Conns -> Sock]
  BY DEF RInv, IInv, Types
<1>2. UNCHANGED <<local, queued, cut>>
  BY DEF Peer, PeerTakes, PeerByte, PeerChats, PeerCloses, PeerResets
<1>3. mode' = mode /\ cut' = cut /\ client' = client /\ reads' = reads
  BY <1>2 DEF local
<1>4. ASSUME NEW x \in Conns
      PROVE  /\ sock'[x].peer = "open" => sock[x].peer = "open"
             /\ sock'[x].peer = "open" /\ sock[x].in # <<>> => sock'[x].in # <<>>
  <2>1. CASE PeerTakes(c)
    BY <1>1, <2>1 DEF PeerTakes, Sock
  <2>2. CASE PeerByte(c)
    <3>1. PICK b : sock'[c].in = Append(sock[c].in, b) /\ sock'[c].peer = sock[c].peer
      <4>1. \/ sock' = [sock EXCEPT
                  ![c].in = Append(@, [no |-> sock[c].no, kind |-> sock[c].kind,
                                       at |-> sock[c].at + 1]),
                  ![c].at = @ + 1]
            \/ \E k : sock' = [sock EXCEPT
                  ![c].in = Append(@, [no |-> sock[c].no + 1, kind |-> k, at |-> 1]),
                  ![c].no = @ + 1, ![c].kind = k, ![c].at = 1]
        BY <2>2 DEF PeerByte
      <4>2. CASE \E k : sock' = [sock EXCEPT
                  ![c].in = Append(@, [no |-> sock[c].no + 1, kind |-> k, at |-> 1]),
                  ![c].no = @ + 1, ![c].kind = k, ![c].at = 1]
        BY <1>1, <4>2 DEF Sock
      <4>3. CASE \E b, k : sock' = [sock EXCEPT ![c].in = Append(@, b), ![c].at = k]
        BY <1>1, <4>3 DEF Sock
      <4>4. QED
        BY <4>1, <4>2, <4>3
    <3>2. sock[c].in \in Seq(Byte)
      BY <1>1 DEF Sock
    <3>3. sock'[c].in # <<>>
      BY <3>1, <3>2
    <3>4. x # c => sock'[x] = sock[x]
      BY <1>1, <2>2 DEF PeerByte
    <3>5. QED
      BY <3>1, <3>3, <3>4
  <2>3. CASE PeerCloses(c)
    BY <1>1, <2>3 DEF PeerCloses, Sock
  <2>4. CASE PeerResets(c)
    BY <1>1, <2>4 DEF PeerResets, Sock
  <2>5. CASE PeerChats(c)
    <3> DEFINE b == <<[no |-> 0, kind |-> NewSock.kind, at |-> 1]>>
    <3>1. sock' = [sock EXCEPT ![c].in = b] /\ b # <<>>
      BY <2>5 DEF PeerChats
    <3> HIDE DEF b
    <3>2. QED
      BY <1>1, <3>1 DEF Sock
  <2>6. QED
    BY <2>1, <2>2, <2>3, <2>4, <2>5 DEF Peer
<1>5. QED
  BY <1>3, <1>4, RoomSteady

\* Bytes arrive behind a buffer that has only held those it holds now.
LEMMA ArrivedWhole ==
  ASSUME Types, NEW c \in Conns, Sizes(c), Received(c) # <<>>,
         Len(client[c].rbuf) = client[c].rlen
  PROVE  Len(Arrived(c)) = ArrivedLen(c)
<1>1. /\ Received(c) \in Seq(Byte) /\ Len(Received(c)) \in Nat
      /\ client[c].rbuf \in Seq(Byte) /\ client[c].rlen \in Nat
  BY Reception, TypesOf
<1>2. client[c].rlen \in 0 .. Len(client[c].rbuf)
  BY <1>1
<1>3. Len(Arrived(c)) = IF client[c].rlen + Len(Received(c)) <= Len(client[c].rbuf)
                        THEN Len(client[c].rbuf) ELSE client[c].rlen + Len(Received(c))
  BY <1>1, <1>2, Overwritten DEF Arrived
<1>4. QED
  BY <1>1, <1>3 DEF ArrivedLen

\* What is known of an HTTP buffer to which recv() has added: how long the packet
\* at its front is, and that it has come from the socket in order.
LEMMA HttpArrived ==
  ASSUME IInv, Announced, mode.http, HasRecvQueue, NEW c \in Conns,
         sock[c].peer # "reset", Received(c) # <<>>
  PROVE  LET p   == Pending(c)
             buf == Arrived(c)
             n   == ArrivedLen(c)
             ret == Complete(buf, n)
         IN  /\ p \in Seq(Byte) /\ Follows(p, cut[c].no, sock[c]) /\ OfKinds(p, HttpKinds)
             /\ n \in 1 .. Len(buf) /\ n <= Len(p) /\ ret \in Int /\ Len(buf) \in Nat
             /\ ret \in 1 .. n => ret = Total(p[1].kind)
             /\ n >= Total(p[1].kind) /\ n >= MinLen => ret = Total(p[1].kind)
             /\ Len(buf) = n /\ ret > 0 => ret = Total(p[1].kind) /\ n >= Total(p[1].kind)
<1> DEFINE left == SubSeq(sock[c].in, Len(Received(c)) + 1, Len(sock[c].in))
           p == Pending(c)
           buf == Arrived(c)
           n == ArrivedLen(c)
           ret == Complete(buf, n)
<1>1. Types /\ Sizes(c) /\ Sound(c) /\ cut[c].no \in Nat
  BY TypesOf DEF IInv, Sound
<1>2. /\ buf \in Seq(Byte) /\ n \in 0 .. Len(buf) /\ Len(buf) \in 0 .. MaxPack
      /\ left \in Seq(Byte) /\ SubSeq(buf, 1, n) \o left = p
      /\ Received(c) \in Seq(Byte)
  BY <1>1, Reception
<1>3. n \in 1 .. Len(buf) /\ Len(buf) \in Nat
  <2>1. Len(Received(c)) > 0 /\ Len(Received(c)) \in Nat /\ client[c].rlen \in Nat
    BY <1>1, <1>2, EmptySeq, TypesOf
  <2>2. n > 0
    BY <2>1 DEF ArrivedLen
  <2>3. Len(buf) \in Nat
    BY <1>2, LenProperties
  <2> HIDE DEF n, buf
  <2>4. QED
    BY <1>2, <2>2, <2>3
<1>4. Follows(p, cut[c].no, sock[c]) /\ OfKinds(p, HttpKinds)
  BY <1>1 DEF Sound, Framed, Measured, Kinds
<1>5. ret = CompleteHttp(buf, n)
  BY DEF Complete
<1> HIDE DEF left, buf, n, p
<1>6. ret \in Int
  BY <1>2, <1>3, CompleteType
<1> HIDE DEF ret
<1>7. p \in Seq(Byte) /\ n <= Len(p) /\ \A i \in 1 .. n : p[i] = buf[i]
  <2>1. n \in 0 .. n /\ n \in 0 .. Len(buf) /\ p = SubSeq(buf, 1, n) \o left
    BY <1>2, <1>3
  <2>2. QED
    BY ONLY <1>2, <2>1, TakenOff
<1>8. /\ ret \in 1 .. n => ret = Total(p[1].kind)
      /\ n >= Total(p[1].kind) /\ n >= MinLen => ret = Total(p[1].kind)
      /\ Len(buf) = n /\ ret > 0 => ret = Total(p[1].kind) /\ n >= Total(p[1].kind)
  <2>1. cut[c].no \in Nat /\ buf \in Seq(Byte)
    BY <1>1, <1>2
  <2>2. QED
    BY ONLY <1>3, <1>4, <1>5, <1>7, <2>1, Announced, HttpLength
<1>9. QED
  BY <1>3, <1>4, <1>6, <1>7, <1>8 DEF p, buf, n, ret

LEMMA RoomRecv ==
  ASSUME RInv, Announced, Fits, NEW c \in Conns, OnRecv(c) PROVE \A x \in Conns : Room(x)'
<1> DEFINE p == Pending(c)
           n == ArrivedLen(c)
           ret == Complete(Arrived(c), n)
<1>1. /\ IInv /\ Types /\ Sizes(c) /\ Room(c)
      /\ client \in [Conns -> Client] /\ cut \in [Conns -> Cut]
      /\ client[c].rlen \in Nat /\ MaxPack \in Nat /\ MinLen \in Nat
  BY TypesOf, NetClientAssumption DEF RInv, IInv, Types, Sound
<1>2. OnRecvTurn(c)
  BY DEF OnRecv, OnRecvEnds, OnRecvDiscards, OnRecvNoPacket, OnRecvPacket, OnRecvLast
<1>3. mode' = mode /\ OneShot' = OneShot /\ reads' \subseteq reads /\ c \notin reads'
  BY <1>1, <1>2, RecvTurn DEF OneShot
<1>4. CASE OnRecvEnds(c) \/ OnRecvLast(c)
  BY <1>3, <1>4, RoomClosed DEF OnRecvEnds, OnRecvLast
<1>5. CASE OnRecvDiscards(c)
  <2>1. PICK b : client' = [client EXCEPT ![c].rbuf = b]
    BY <1>5 DEF OnRecvDiscards
  <2>2. sock' = Fetch(c) /\ UNCHANGED <<armed, queued, cut>> /\ ~HasRecvQueue
    BY <1>5 DEF OnRecvDiscards
  <2>3. client'[c].rlen = client[c].rlen /\ \A x \in Conns \ {c} : client'[x] = client[x]
    BY <1>1, <2>1 DEF Client
  <2>4. OnlyOf(c)
    BY <1>1, <2>2, <2>3, Fetched DEF OnlyOf
  <2>5. Room(c)'
    BY <1>1, <1>3, <2>2, <2>3 DEF Room
  <2>6. QED
    BY <1>3, <2>4, <2>5, RoomOthers
<1>6. CASE OnRecvNoPacket(c)
  <2>1. /\ sock' = Fetch(c) /\ UNCHANGED <<armed, queued, cut>> /\ HasRecvQueue
        /\ sock[c].peer # "reset" /\ Received(c) # <<>>
        /\ ret <= 0 \/ (ret > n /\ ~OneShot)
        /\ client' = [client EXCEPT ![c].rbuf = Arrived(c), ![c].rlen = n]
    BY <1>6 DEF OnRecvNoPacket
  <2>2. /\ client'[c].rbuf = Arrived(c) /\ client'[c].rlen = n
        /\ \A x \in Conns \ {c} : client'[x] = client[x]
    BY <1>1, <2>1 DEF Client
  <2>3. OnlyOf(c)
    BY <1>1, <2>1, <2>2, Fetched DEF OnlyOf
  <2>4. ASSUME OneShot PROVE Len(client'[c].rbuf) = client'[c].rlen
    <3>1. Len(client[c].rbuf) = client[c].rlen
      BY <1>1, <2>1, <2>4 DEF Room
    <3>2. QED
      BY <1>1, <2>1, <2>2, <3>1, ArrivedWhole
  <2>5. ASSUME mode.http PROVE n < MaxPack
    <3>1. /\ p \in Seq(Byte) /\ OfKinds(p, HttpKinds) /\ Len(Arrived(c)) \in Nat
          /\ n \in 1 .. Len(Arrived(c)) /\ n <= Len(p) /\ ret \in Int
          /\ n >= Total(p[1].kind) /\ n >= MinLen => ret = Total(p[1].kind)
      BY <1>1, <2>1, <2>5, HttpArrived
    <3>2. Len(Arrived(c)) \in 0 .. MaxPack
      BY <1>1, Reception
    <3>3. PICK len, t : len = Len(Arrived(c)) /\ t = Total(p[1].kind)
      OBVIOUS
    <3> HIDE DEF p, n, ret
    <3>4. p[1].kind \in HttpKinds
      <4>1. Len(p) \in Nat
        BY <3>1, LenProperties
      <4>2. 1 \in 1 .. Len(p)
        BY <3>1, <4>1
      <4>3. QED
        BY <3>1, <4>2 DEF OfKinds
    <3>5. t \in Nat /\ t > 0 /\ t <= MaxPack
      <4>1. p[1].kind.hdr \in Nat /\ p[1].kind.body \in Nat
        BY <3>4, NetClientAssumption
      <4>2. p[1].kind.hdr > 0
        BY <3>4, <4>1 DEF Announced
      <4>3. QED
        BY <3>3, <3>4, <4>1, <4>2 DEF Total, Fits
    <3>6. MinLen <= MaxPack
      BY DEF Fits
    <3>7. /\ len \in Nat /\ len \in 0 .. MaxPack /\ n \in 1 .. len /\ ret \in Int
          /\ n >= t /\ n >= MinLen => ret = t
          /\ ret <= 0 \/ ret > n
      BY <2>1, <3>1, <3>2, <3>3
    <3>8. QED
      BY ONLY <1>1, <3>5, <3>6, <3>7
  <2>6. Room(c)'
    BY <1>1, <1>3, <2>1, <2>2, <2>4, <2>5 DEF Room
  <2>7. QED
    BY <1>3, <2>3, <2>6, RoomOthers
<1>7. CASE OnRecvPacket(c)
  <2>1. PICK b : client' = [client EXCEPT ![c].rbuf = b, ![c].rlen = n - ret]
    BY <1>7 DEF OnRecvPacket
  <2>2. PICK k : cut' = [cut EXCEPT ![c] = k]
    BY <1>7 DEF OnRecvPacket
  <2>3. /\ sock' = Fetch(c) /\ UNCHANGED <<armed, queued>> /\ HasRecvQueue /\ ~OneShot
        /\ sock[c].peer # "reset" /\ Received(c) # <<>> /\ ret > 0 /\ ret <= n
    BY <1>7 DEF OnRecvPacket
  <2>4. client'[c].rlen = n - ret /\ \A x \in Conns \ {c} : client'[x] = client[x]
    BY <1>1, <2>1 DEF Client
  <2>5. OnlyOf(c)
    BY <1>1, <2>2, <2>3, <2>4, Fetched DEF OnlyOf
  <2>6. mode.http => n - ret < MaxPack
    <3>1. ASSUME mode.http
          PROVE  n \in 1 .. Len(Arrived(c)) /\ Len(Arrived(c)) \in 0 .. MaxPack /\ ret \in Int
      BY <1>1, <2>3, <3>1, HttpArrived, Reception
    <3> HIDE DEF n, ret
    <3>2. QED
      BY <1>1, <2>3, <3>1
  <2>7. Room(c)'
    BY <1>1, <1>3, <2>3, <2>4, <2>6 DEF Room
  <2>8. QED
    BY <1>3, <2>5, <2>7, RoomOthers
<1>8. QED
  BY <1>4, <1>5, <1>6, <1>7 DEF OnRecv

\* There is always something to read, and room for it.
LEMMA StepRoom ==
  ASSUME Announced, Fits PROVE RInv /\ [Next]_vars => RInv'
<1> SUFFICES ASSUME RInv, [Next]_vars PROVE RInv'
  OBVIOUS
<1>1. IInv'
  BY StepInv DEF RInv
<1>2. CASE PushMessage \/ Stop
  BY <1>1, <1>2, RoomSteady DEF PushMessage, Stop, RInv
<1>3. CASE Wait
  BY <1>1, <1>3, RoomWait DEF RInv
<1>4. CASE OnQueue
  BY <1>1, <1>4, RoomQueue DEF RInv
<1>5. ASSUME NEW c \in Conns, OnSend(c) \/ OnRecv(c) \/ Peer(c) PROVE RInv'
  BY <1>1, <1>5, RoomSend, RoomRecv, RoomPeer DEF RInv
<1>6. CASE UNCHANGED vars
  <2>1. mode' = mode /\ client' = client /\ sock' = sock /\ cut' = cut /\ reads' = reads
    BY <1>6 DEF vars, local
  <2>2. QED
    BY <1>1, <2>1, RoomSteady DEF RInv
<1>7. QED
  BY <1>2, <1>3, <1>4, <1>5, <1>6 DEF Next, Run

LEMMA InitRoom == ASSUME Fits PROVE Init => RInv
<1> SUFFICES ASSUME Init PROVE RInv
  OBVIOUS
<1>1. ASSUME NEW c \in Conns PROVE Room(c)
  <2>1. client[c].rlen = 0 /\ Len(client[c].rbuf) = 0 /\ cut[c].no = 0 /\ c \notin reads
    BY EmptySeq DEF Init, NoClient, NoCut
  <2>2. QED
    BY <2>1 DEF Room, Fits
<1>2. QED
  BY <1>1, InitInv DEF RInv

LEMMA RoomInvariant == ASSUME Announced, Fits PROVE Spec => []RInv
<1>1. Init => RInv
  BY InitRoom
<1>2. RInv /\ [Next]_vars => RInv'
  BY StepRoom
<1>3. QED
  BY <1>1, <1>2, PTL DEF Spec

\* Once the first packet is whole, the peer has sent its last byte, or is at a
\* later packet.
LEMMA FirstWhole ==
  ASSUME NEW p \in Seq(Byte), NEW s, Follows(p, 0, s), Len(p) >= 1,
         Len(p) >= Total(p[1].kind)
  PROVE  s.no > 1 \/ s.at = Total(s.kind)
<1> DEFINE t == Total(p[1].kind)
           l == Len(p)
<1>1. /\ l \in Nat /\ \A i \in 1 .. l : p[i] \in Byte
  BY LenProperties, ElementOfSeq
<1>2. \A x \in Byte : x.no \in Nat /\ x.at \in Nat /\ Total(x.kind) \in Nat
  BY SMTT(30) DEF Byte, Kind, Total
<1>3. /\ 1 \in 1 .. l /\ l \in 1 .. l /\ p[1].at = 1 /\ p[1].no = 1
      /\ s.no = p[l].no /\ s.kind = p[l].kind /\ s.at = p[l].at
  BY <1>1 DEF Follows
<1>4. t \in Nat /\ t >= 1 /\ l >= t
  BY <1>1, <1>2, <1>3 DEF Follows
<1> HIDE DEF t, l
<1>5. CASE l = t
  <2>1. p[1].at + (l - 1) = l
    BY <1>1, <1>3
  <2>2. p[1].at + (l - 1) <= t =>
          p[l] = [no |-> p[1].no, kind |-> p[1].kind, at |-> p[1].at + (l - 1)]
    BY <1>1, <1>3 DEF Follows, t, l
  <2>3. p[l] = [no |-> p[1].no, kind |-> p[1].kind, at |-> t]
    <3>1. p[1].at + (l - 1) <= t
      BY <1>4, <1>5, <2>1
    <3>2. QED
      BY <1>5, <2>1, <2>2, <3>1
  <2>4. QED
    BY <1>3, <2>3 DEF t
<1>6. CASE l > t
  <2> DEFINE Early == {i \in 1 .. l : i > t /\ p[i].no < 2}
  <2>1. ASSUME Early # {} PROVE FALSE
    <3>1. Early \in SUBSET Nat
      BY <1>1
    <3>2. PICK m \in Early : \A i \in Early : m <= i
      BY <2>1, <3>1, LeastNat
    <3>3. m \in 1 .. l /\ m \in Nat /\ m > t /\ p[m].no < 2
      BY <1>1, <3>2
    <3>4. CASE m = t + 1
      <4>1. p[1].at + (m - 1) = t + 1
        BY <1>3, <1>4, <3>3, <3>4
      <4>2. p[1].at + (m - 1) = t + 1 => p[m].no = p[1].no + 1
        <5>1. 1 <= m /\ m \in 1 .. l /\ 1 \in 1 .. l
          BY <1>1, <1>3, <3>3
        <5>2. QED
          BY <5>1 DEF Follows, t, l
      <4>3. QED
        BY <1>3, <3>3, <4>1, <4>2
    <3>5. CASE m > t + 1
      <4>1. m - 1 \in 1 .. l /\ m - 1 > t /\ m - 1 < m /\ m - 1 <= m /\ m - (m - 1) = 1
        BY <1>1, <1>4, <3>3, <3>5
      <4>2. PICK j \in 1 .. l : j = m - 1
        BY <4>1
      <4>3. p[j].no >= 2
        <5>1. j \notin Early /\ j > t
          BY <1>1, <3>2, <3>3, <4>1, <4>2
        <5>2. QED
          BY <1>1, <1>2, <5>1
      <4>4. p[j].at \in 1 .. Total(p[j].kind)
        BY DEF Follows, l
      <4>5. /\ p[j].at + (m - j) <= Total(p[j].kind) =>
                 p[m] = [no |-> p[j].no, kind |-> p[j].kind, at |-> p[j].at + (m - j)]
            /\ p[j].at + (m - j) = Total(p[j].kind) + 1 => p[m].no = p[j].no + 1
        BY <3>3, <4>1, <4>2 DEF Follows, l
      <4>6. p[j].no \in Nat /\ p[j].at \in Nat /\ Total(p[j].kind) \in Nat /\ m - j = 1
        BY <1>1, <1>2, <4>1, <4>2
      <4>7. \/ p[j].at + (m - j) <= Total(p[j].kind)
            \/ p[j].at + (m - j) = Total(p[j].kind) + 1
        <5>1. PICK a, b, g : a = p[j].at /\ b = Total(p[j].kind) /\ g = m - j
          OBVIOUS
        <5>2. a \in Nat /\ b \in Nat /\ g = 1 /\ a \in 1 .. b
          BY <4>4, <4>6, <5>1
        <5>3. a + g <= b \/ a + g = b + 1
          BY ONLY <5>2
        <5>4. QED
          BY <5>1, <5>3
      <4>8. p[m].no = p[j].no \/ p[m].no = p[j].no + 1
        BY <4>5, <4>7
      <4>9. p[m].no >= 2
        <5>1. PICK a, b : a = p[j].no /\ b = p[m].no
          OBVIOUS
        <5>2. a \in Nat /\ a >= 2 /\ (b = a \/ b = a + 1)
          BY <4>3, <4>6, <4>8, <5>1
        <5>3. b >= 2
          BY ONLY <5>2
        <5>4. QED
          BY <5>1, <5>3
      <4>10. p[m].no \in Nat
        BY <1>1, <1>2, <3>3
      <4>11. QED
        BY <3>3, <4>9, <4>10
    <3>6. QED
      BY <1>4, <3>3, <3>4, <3>5
  <2>2. l \in 1 .. l /\ l \notin Early
    BY <1>3, <2>1
  <2>3. QED
    BY <1>1, <1>2, <1>3, <1>6, <2>2
<1>7. QED
  BY <1>1, <1>4, <1>5, <1>6

\* A connection goes only by OnClose.
LEMMA Ends ==
  ASSUME IInv, [Next]_vars, NEW c \in Conns, client[c].live, ~client'[c].live
  PROVE  OnSendFails(c) \/ OnRecvEnds(c) \/ OnRecvLast(c)
<1>1. client \in [Conns -> Client]
  BY DEF IInv, Types
<1>2. ASSUME NEW x, NEW r, client' = [client EXCEPT ![x] = r], r.live \/ ~client[x].live
      PROVE  FALSE
  <2>1. client'[c] = IF x = c THEN r ELSE client[c]
    BY <1>1, <1>2
  <2>2. QED
    BY <1>2, <2>1
<1>3. client' # client
  OBVIOUS
<1>4. ASSUME NEW d \in Conns, OnClose(d) PROVE d = c
  BY <1>1, <1>4 DEF OnClose
<1>5. CASE PushMessage \/ Stop \/ Wait \/ UNCHANGED vars
  BY <1>3, <1>5 DEF PushMessage, Stop, Wait, vars, local
<1>6. CASE OnQueue
  <2>1. CASE OnQueueNoConnection \/ OnQueueNoRoom
    BY <1>3, <2>1 DEF OnQueueNoConnection, OnQueueNoRoom
  <2>2. CASE OnQueueConnects
    <3>1. PICK d \in Conns :
            client' = [client EXCEPT ![d] =
                 [NoClient EXCEPT !.live = TRUE, !.addr = Head(sendq).addr,
                                  !.sbuf = Payload(Head(sendq))]]
      BY <2>2 DEF OnQueueConnects
    <3>2. [NoClient EXCEPT !.live = TRUE, !.addr = Head(sendq).addr,
                           !.sbuf = Payload(Head(sendq))].live
      BY DEF NoClient
    <3>3. QED
      BY <1>2, <3>1, <3>2
  <2>3. CASE OnQueueAppends
    <3>1. PICK d, b : client' = [client EXCEPT ![d].sbuf = b]
      BY <2>3 DEF OnQueueAppends
    <3>2. QED
      BY <1>1, <3>1 DEF Client
  <2>4. QED
    BY <1>6, <2>1, <2>2, <2>3 DEF OnQueue
<1>7. ASSUME NEW d \in Conns, OnSend(d) PROVE OnSendFails(c)
  <2>1. CASE OnSendFails(d)
    BY <1>4, <2>1 DEF OnSendFails
  <2>2. CASE OnSendNothing(d)
    BY <1>3, <2>2 DEF OnSendNothing
  <2>3. CASE OnSendSome(d)
    <3>1. PICK n : \/ client' = client
                   \/ client' = [client EXCEPT ![d].spos = @ + n]
                   \/ client' = [client EXCEPT ![d].sbuf = <<>>, ![d].spos = 0]
      BY <2>3 DEF OnSendSome
    <3>2. CASE client' = [client EXCEPT ![d].spos = @ + n]
      BY <1>1, <3>2 DEF Client
    <3>3. CASE client' = [client EXCEPT ![d].sbuf = <<>>, ![d].spos = 0]
      BY <1>1, <3>3 DEF Client
    <3>4. QED
      BY <3>1, <3>2, <3>3
  <2>4. QED
    BY <1>7, <2>1, <2>2, <2>3 DEF OnSend
<1>8. ASSUME NEW d \in Conns, OnRecv(d) PROVE OnRecvEnds(c) \/ OnRecvLast(c)
  <2>1. CASE OnRecvEnds(d) \/ OnRecvLast(d)
    BY <1>4, <2>1 DEF OnRecvEnds, OnRecvLast
  <2>2. CASE OnRecvDiscards(d) \/ OnRecvNoPacket(d) \/ OnRecvPacket(d)
    <3>1. \/ \E b : client' = [client EXCEPT ![d].rbuf = b]
          \/ \E b, n : client' = [client EXCEPT ![d].rbuf = b, ![d].rlen = n]
      BY <2>2 DEF OnRecvDiscards, OnRecvNoPacket, OnRecvPacket
    <3>2. CASE \E b : client' = [client EXCEPT ![d].rbuf = b]
      BY <1>1, <3>2 DEF Client
    <3>3. CASE \E b, n : client' = [client EXCEPT ![d].rbuf = b, ![d].rlen = n]
      BY <1>1, <3>3 DEF Client
    <3>4. QED
      BY <3>1, <3>2, <3>3
  <2>3. QED
    BY <1>8, <2>1, <2>2 DEF OnRecv
<1>9. ASSUME NEW d \in Conns, Peer(d) PROVE FALSE
  BY <1>3, <1>9 DEF Peer, PeerTakes, PeerByte, PeerChats, PeerCloses, PeerResets, local
<1>10. QED
  BY <1>5, <1>6, <1>7, <1>8, <1>9 DEF Next, Run

\* Without keep-alive an HTTP connection that its peer keeps open is closed after
\* its first packet and not before; with keep-alive never.  That is so for every
\* buffer size and all packets, if they announce their bodies and fit into the
\* buffer (net_client.cc:240-291).
THEOREM ClosedWhenWhole == ASSUME Announced, Fits PROVE Spec => ClosedAfterPacket
<1>1. ASSUME RInv, [Next]_vars, NEW c \in Conns, mode.http, client[c].live,
             ~client'[c].live, sock[c].peer = "open"
      PROVE  ~mode.keepalive /\ (sock[c].no > 1 \/ sock[c].at = Total(sock[c].kind))
  <2>1. IInv /\ Types /\ Sizes(c) /\ Room(c)
    BY <1>1 DEF RInv, IInv, Sound
  <2>2. OnSendFails(c) \/ OnRecvEnds(c) \/ OnRecvLast(c)
    BY <1>1, <2>1, Ends
  <2>3. ~OnSendFails(c)
    BY <1>1 DEF OnSendFails
  <2>4. ~OnRecvEnds(c)
    <3>1. SUFFICES ASSUME OnRecvEnds(c) PROVE FALSE
      OBVIOUS
    <3>2. Received(c) = <<>> /\ sock[c].in # <<>> /\ client[c].rlen < MaxPack
      BY <1>1, <2>1, <3>1 DEF OnRecvEnds, OnRecvTurn, Room
    <3>3. sock[c].in \in Seq(Byte) /\ client[c].rlen \in Nat /\ MaxPack \in Nat
      BY <2>1, TypesOf, NetClientAssumption
    <3>4. PICK m \in 0 .. Len(sock[c].in) :
            m > 0 /\ m = Least(Len(sock[c].in), MaxPack - client[c].rlen)
      <4>1. Len(sock[c].in) \in Nat /\ Len(sock[c].in) > 0
        BY <3>2, <3>3, EmptySeq, LenProperties
      <4>2. QED
        BY <3>2, <3>3, <4>1, SMTT(30) DEF Least
    <3>5. Len(Received(c)) = m
      BY <3>3, <3>4, Parted DEF Received
    <3>6. QED
      BY <3>2, <3>4, <3>5, EmptySeq
  <2>5. OnRecvLast(c)
    BY <2>2, <2>3, <2>4
  <2>6. /\ HasRecvQueue /\ OneShot /\ Received(c) # <<>>
        /\ Complete(Arrived(c), ArrivedLen(c)) > 0
    BY <2>5 DEF OnRecvLast
  <2>7. cut[c].no = 0 /\ Len(Arrived(c)) = ArrivedLen(c)
    BY <2>1, <2>6, ArrivedWhole DEF Room
  <2>8. PICK p \in Seq(Byte), n \in Nat :
          /\ Follows(p, 0, sock[c]) /\ 1 <= n /\ n <= Len(p)
          /\ n >= Total(p[1].kind)
    BY <1>1, <2>1, <2>6, <2>7, HttpArrived
  <2>9. Len(p) >= 1 /\ Len(p) >= Total(p[1].kind)
    <3>1. PICK len, t : len = Len(p) /\ t = Total(p[1].kind)
      OBVIOUS
    <3>2. len \in Nat /\ len >= 1 /\ n \in Nat /\ n <= len /\ n >= t
      BY <2>8, <3>1, LenProperties
    <3>3. p[1].kind \in Kind
      <4>1. 1 \in 1 .. Len(p)
        BY <3>1, <3>2
      <4>2. p[1] \in Byte
        BY <4>1, ElementOfSeq
      <4>3. QED
        BY <4>2 DEF Byte
    <3>4. t \in Nat
      BY <3>1, <3>3 DEF Kind, Total
    <3>5. len >= t
      BY ONLY <3>2, <3>4
    <3>6. QED
      BY <3>1, <3>2, <3>5
  <2>10. QED
    BY <2>6, <2>8, <2>9, FirstWhole DEF OneShot
<1>2. RInv /\ [Next]_vars =>
        [\A c \in Conns :
           mode.http /\ client[c].live /\ ~client[c]'.live /\ sock[c].peer = "open"
             => ~mode.keepalive /\ (sock[c].no > 1 \/ sock[c].at = Total(sock[c].kind))]_vars
  BY <1>1
<1>3. Spec => []RInv
  BY RoomInvariant
<1>4. QED
  BY <1>2, <1>3, PTL DEF Spec, ClosedAfterPacket
=============================================================================
