----------------------------- MODULE NetClient ------------------------------
(***************************************************************************)
(* CNetClient (net/net_client.h, net/net_client.cc) with CEpoll            *)
(* (net/net_epoll.cc) and the packet checks (net/net_check.cc): one thread *)
(* takes messages from m_send_queue, keeps a connection per address, sends *)
(* what the messages carry and cuts what arrives into packets.  The        *)
(* handlers run one after the other; what runs beside them are the threads *)
(* that push, the kernel and the peers.                                    *)
(***************************************************************************)
EXTENDS Integers, Sequences, SequencesExt, FiniteSets

CONSTANTS
  Addrs,                \* ip and port
  Conns,                \* client_data_t objects, each with its descriptor
  Queue,                \* the object of the send queue's descriptor
  Lengths,              \* lengths of the messages that are pushed
  HeaderLen,            \* sizeof(send_header_t)
  MaxPack,              \* m_max_pack_len, which is also PKT_MAX_LEN
  HasRecvQueue,         \* m_recv_queue is not NULL
  Modes,                \* how SetProtocol and SetKeepalive may have set it up
  MinLen,               \* bytes a packet check wants at least (4 or 14)
  HttpLimit,            \* the header must end before this (10240000)
  LongconnKinds, HttpKinds,  \* the packets that peers send: [hdr, body, decl],
                        \* where decl is the byte of the header with the
                        \* length of the body (0: none)
  SockCap,              \* bytes the kernel takes before send() would block
  Pipelined,            \* a peer may send before its last packet was delivered
  MayStop,              \* Stop may be called
  MaxPush, MaxPackets,  \* bounds: messages pushed, packets per connection
  None

ASSUME NetClientAssumption ==
  /\ Cardinality(Conns) >= Cardinality(Addrs) /\ None \notin Addrs \cup Conns
  /\ Queue \notin Conns
  /\ HeaderLen \in Nat /\ SockCap \in Nat \ {0}
  /\ MaxPack \in Nat /\ MinLen \in Nat /\ HttpLimit \in Nat
  /\ \A l \in Lengths : l \in HeaderLen .. MaxPack
  /\ LongconnKinds \cup HttpKinds \subseteq [hdr : Nat \ {0}, body : Nat, decl : Nat]
  /\ HasRecvQueue \in BOOLEAN /\ MaxPush \in Nat /\ MaxPackets \in Nat
  /\ Modes \subseteq [http : BOOLEAN, keepalive : BOOLEAN]

VARIABLES
  mode,                 \* m_protocol = PROTOCOL_HTTP, m_use_keepalive
  sendq, pushed,        \* m_send_queue, and how many messages were pushed
  connects,             \* m_connects
  client,               \* the fields of the client_data_t objects
  armed,                \* what each descriptor is registered for with epoll
  reads, writes,        \* what is left of recv_fds and send_fds
  stopped,              \* Run has returned
  sock,                 \* kernel and peer of each connection
  queued,               \* history: what OnQueue put into the send buffer
  cut                   \* history: how many packets were cut, and the last one

local == <<mode, sendq, pushed, connects, client, armed, reads, writes, stopped>>
vars  == <<local, sock, queued, cut>>

\* client_data_t: sbuf is send_buf up to send_len; rbuf is recv_buf as far as it
\* was ever written, of which only the first rlen bytes are valid.
NoClient == [live |-> FALSE, addr |-> None, sbuf |-> <<>>, spos |-> 0,
             rbuf |-> <<>>, rlen |-> 0]

\* in: bytes that arrived; wire: all bytes that send() took, of which the peer
\* has taken "taken"; no, kind, at: the packet the peer is sending.
NewSock == [in |-> <<>>, wire |-> <<>>, taken |-> 0, peer |-> "open",
            no |-> 0, kind |-> [hdr |-> 0, body |-> 0, decl |-> 0], at |-> 0]

NoCut == [no |-> 0, last |-> <<>>]

Init ==
  /\ mode \in Modes
  /\ sendq = <<>> /\ pushed = 0
  /\ connects = [a \in Addrs |-> None]
  /\ client = [c \in Conns |-> NoClient]
  /\ armed = [c \in Conns |-> "none"]
  /\ reads = {} /\ writes = {} /\ stopped = FALSE
  /\ sock = [c \in Conns |-> NewSock]
  /\ queued = [c \in Conns |-> <<>>]
  /\ cut = [c \in Conns |-> NoCut]

-----------------------------------------------------------------------------
(* Other threads *)

\* Message n: its bytes are told apart by their place.
Message(n, a, len) == [addr |-> a, data |-> [i \in 1 .. len |-> <<n, i>>]]

PushMessage ==
  /\ pushed < MaxPush
  /\ \E a \in Addrs, len \in Lengths :
       sendq' = Append(sendq, Message(pushed + 1, a, len))
  /\ pushed' = pushed + 1
  /\ UNCHANGED <<mode, connects, client, armed, reads, writes, stopped, sock,
                 queued, cut>>

\* m_stop is read at the head of the loop only.
Stop ==
  /\ MayStop /\ ~stopped
  /\ reads = {} /\ writes = {}
  /\ stopped' = TRUE
  /\ UNCHANGED <<mode, sendq, pushed, connects, client, armed, reads, writes,
                 sock, queued, cut>>

-----------------------------------------------------------------------------
(* CEpoll::Wait *)

Free(c) == SockCap - (Len(sock[c].wire) - sock[c].taken)

Readable(c) == armed[c] # "none" /\ (sock[c].in # <<>> \/ sock[c].peer # "open")
Writable(c) == armed[c] = "inout" /\ Free(c) > 0

\* Faulty variant: an object may be in both lists.
WaitBoth ==
  /\ ~stopped /\ reads = {} /\ writes = {}
  /\ reads' = {c \in Conns : Readable(c)} \cup {q \in {Queue} : sendq # <<>>}
  /\ writes' = {c \in Conns : Writable(c)}
  /\ UNCHANGED <<mode, sendq, pushed, connects, client, armed, stopped, sock,
                 queued, cut>>

\* An object is put into one of the lists, reading first.
Wait ==
  /\ ~stopped /\ reads = {} /\ writes = {}
  /\ reads' = {c \in Conns : Readable(c)} \cup {q \in {Queue} : sendq # <<>>}
  /\ writes' = {c \in Conns : Writable(c) /\ ~Readable(c)}
  /\ UNCHANGED <<mode, sendq, pushed, connects, client, armed, stopped, sock,
                 queued, cut>>

-----------------------------------------------------------------------------
(* OnClose *)

\* Faulty variant: the map keeps the connection.
OnCloseKeep(c) ==
  /\ armed' = [armed EXCEPT ![c] = "none"]
  /\ client' = [client EXCEPT ![c] = NoClient]
  /\ sock' = [sock EXCEPT ![c] = NewSock]
  /\ queued' = [queued EXCEPT ![c] = <<>>]
  /\ cut' = [cut EXCEPT ![c] = NoCut]
  /\ UNCHANGED connects

\* The connection leaves the map and epoll, is closed and deleted.
OnClose(c) ==
  /\ connects' = [a \in Addrs |-> IF connects[a] = c THEN None ELSE connects[a]]
  /\ armed' = [armed EXCEPT ![c] = "none"]
  /\ client' = [client EXCEPT ![c] = NoClient]
  /\ sock' = [sock EXCEPT ![c] = NewSock]
  /\ queued' = [queued EXCEPT ![c] = <<>>]
  /\ cut' = [cut EXCEPT ![c] = NoCut]

-----------------------------------------------------------------------------
(* OnQueue: one message is popped, whatever becomes of it *)

OnQueuePops ==
  /\ Queue \in reads
  /\ reads' = reads \ {Queue}
  /\ sendq' = Tail(sendq)
  /\ UNCHANGED <<mode, pushed, writes, stopped, cut>>

Payload(m) == SubSeq(m.data, HeaderLen + 1, Len(m.data))

\* There is no connection and connect() fails.
OnQueueNoConnection ==
  /\ OnQueuePops
  /\ connects[Head(sendq).addr] = None
  /\ UNCHANGED <<connects, client, armed, sock, queued>>

\* Connect makes an object; it is added to epoll for both directions.
OnQueueConnects ==
  LET m == Head(sendq)
  IN  /\ OnQueuePops
      /\ connects[m.addr] = None
      /\ \E c \in Conns :
           /\ ~client[c].live
           /\ connects' = [connects EXCEPT ![m.addr] = c]
           /\ client' = [client EXCEPT ![c] =
                [NoClient EXCEPT !.live = TRUE, !.addr = m.addr, !.sbuf = Payload(m)]]
           /\ armed' = [armed EXCEPT ![c] = "inout"]
           /\ queued' = [queued EXCEPT ![c] = Payload(m)]
           /\ UNCHANGED sock

\* The send buffer, from which nothing is taken before all is sent, is too full.
OnQueueNoRoom ==
  LET m == Head(sendq)
      c == connects[m.addr]
  IN  /\ OnQueuePops
      /\ c # None
      /\ Len(client[c].sbuf) + Len(Payload(m)) > MaxPack
      /\ UNCHANGED <<connects, client, armed, sock, queued>>

\* Faulty variant: epoll is not told.
OnQueueAppendsUnarmed ==
  LET m == Head(sendq)
      c == connects[m.addr]
  IN  /\ OnQueuePops
      /\ c # None
      /\ Len(client[c].sbuf) + Len(Payload(m)) <= MaxPack
      /\ client' = [client EXCEPT ![c].sbuf = @ \o Payload(m)]
      /\ queued' = [queued EXCEPT ![c] = @ \o Payload(m)]
      /\ UNCHANGED <<connects, sock, armed>>

OnQueueAppends ==
  LET m == Head(sendq)
      c == connects[m.addr]
  IN  /\ OnQueuePops
      /\ c # None
      /\ Len(client[c].sbuf) + Len(Payload(m)) <= MaxPack
      /\ client' = [client EXCEPT ![c].sbuf = @ \o Payload(m)]
      /\ armed' = [armed EXCEPT ![c] = "inout"]
      /\ queued' = [queued EXCEPT ![c] = @ \o Payload(m)]
      /\ UNCHANGED <<connects, sock>>

-----------------------------------------------------------------------------
(* OnSend *)

Unsent(c) == SubSeq(client[c].sbuf, client[c].spos + 1, Len(client[c].sbuf))

OnSendTurn(c) ==
  /\ reads = {} /\ c \in writes
  /\ writes' = writes \ {c}
  /\ UNCHANGED <<mode, sendq, pushed, reads, stopped>>

OnSendFails(c) ==
  /\ OnSendTurn(c)
  /\ sock[c].peer = "reset"
  /\ OnClose(c)

\* Faulty variant: stays registered for writing.
OnSendNothingArmed(c) ==
  /\ OnSendTurn(c)
  /\ sock[c].peer # "reset"
  /\ Unsent(c) = <<>>
  /\ UNCHANGED <<connects, client, sock, queued, cut, armed>>

\* send() of no bytes returns 0.
OnSendNothing(c) ==
  /\ OnSendTurn(c)
  /\ sock[c].peer # "reset"
  /\ Unsent(c) = <<>>
  /\ armed' = [armed EXCEPT ![c] = "in"]
  /\ UNCHANGED <<connects, client, sock, queued, cut>>


\* Some or all of the rest is taken; the buffer is reset only at its end.
OnSendSome(c) ==
  /\ OnSendTurn(c)
  /\ sock[c].peer # "reset"
  /\ \E n \in 1 .. Len(Unsent(c)) :
       /\ n <= Free(c)
       /\ sock' = [sock EXCEPT ![c].wire = @ \o SubSeq(Unsent(c), 1, n)]
       /\ \/ /\ n < Len(Unsent(c))
             /\ client' = [client EXCEPT ![c].spos = @ + n]
             /\ UNCHANGED armed
          \/ /\ n = Len(Unsent(c))
             /\ client' = [client EXCEPT ![c].sbuf = <<>>, ![c].spos = 0]
             /\ armed' = [armed EXCEPT ![c] = "inout"]
  /\ UNCHANGED <<connects, queued, cut>>

-----------------------------------------------------------------------------
(* How long is the packet at the front?  0: not yet complete, -1: broken.   *)
(* A byte is known by its packet and its place in it; what the code looks   *)
(* for with strstr is taken to be one byte.                                 *)

Total(kind) == kind.hdr + kind.body
Packet(no, kind) == [i \in 1 .. Total(kind) |-> [no |-> no, kind |-> kind, at |-> i]]

\* The first of some places in a buffer, 0 if there is none.
FirstByte(places) == IF places = {} THEN 0 ELSE Min(places)

\* Faulty variant: one byte more than the packet is waited for.
CompleteLongconnMore(mem, n) ==
  LET total == IF mem[1].at = 1 THEN Total(mem[1].kind) ELSE MaxPack + 1
  IN  IF n < MinLen THEN 0
      ELSE IF total > MaxPack THEN -1
      ELSE IF n <= total THEN 0
      ELSE total

\* net_complete_longconn: a length in front.  (Bytes from inside a packet would
\* be taken for some length; the model takes one that is too large.)
CompleteLongconn(mem, n) ==
  LET total == IF mem[1].at = 1 THEN Total(mem[1].kind) ELSE MaxPack + 1
  IN  IF n < MinLen THEN 0
      ELSE IF total > MaxPack THEN -1
      ELSE IF n < total THEN 0
      ELSE total

\* net_complete_http: strstr does not stop at n, but at the first byte of the
\* buffer that was never written.
HeaderEnd(mem) == FirstByte({i \in DOMAIN mem : mem[i].at = mem[i].kind.hdr})
ContentLength(mem) == FirstByte({i \in DOMAIN mem : mem[i].at = mem[i].kind.decl})

\* Faulty variant: the body is not waited for.
CompleteHttpHeader(mem, n) ==
  LET p == HeaderEnd(mem)
      q == ContentLength(mem)
  IN  IF n < MinLen THEN 0
      ELSE IF p = 0 THEN (IF n > HttpLimit THEN -1 ELSE 0)
      ELSE IF q = 0 THEN p
      ELSE IF n >= p THEN p
      ELSE 0

CompleteHttp(mem, n) ==
  LET p == HeaderEnd(mem)
      q == ContentLength(mem)
  IN  IF n < MinLen THEN 0
      ELSE IF p = 0 THEN (IF n > HttpLimit THEN -1 ELSE 0)
      ELSE IF q = 0 THEN p
      ELSE IF n >= p + mem[q].kind.body THEN p + mem[q].kind.body
      ELSE 0

Complete(mem, n) ==
  IF mode.http THEN CompleteHttp(mem, n) ELSE CompleteLongconn(mem, n)

\* A connection ends with its first packet.
OneShot == mode.http /\ ~mode.keepalive

-----------------------------------------------------------------------------
(* OnRecv *)

\* Bytes are copied into mem behind its first k.
Overwrite(mem, k, bytes) ==
  SubSeq(mem, 1, k) \o bytes \o SubSeq(mem, k + Len(bytes) + 1, Len(mem))

Least(a, b) == IF a <= b THEN a ELSE b

OnRecvTurn(c) ==
  /\ c \in reads
  /\ reads' = reads \ {c}
  /\ UNCHANGED <<mode, sendq, pushed, writes, stopped>>

\* What recv() returns; nothing if there is no room for it.
Received(c) ==
  SubSeq(sock[c].in, 1, Least(Len(sock[c].in), MaxPack - client[c].rlen))

\* An error, the end of the stream, or no room.
OnRecvEnds(c) ==
  /\ OnRecvTurn(c)
  /\ sock[c].peer = "reset" \/ Received(c) = <<>>
  /\ OnClose(c)

Fetch(c) == [sock EXCEPT ![c].in = SubSeq(@, Len(Received(c)) + 1, Len(@))]

\* Without a receive queue the bytes are thrown away.
OnRecvDiscards(c) ==
  /\ OnRecvTurn(c)
  /\ sock[c].peer # "reset" /\ Received(c) # <<>>
  /\ ~HasRecvQueue
  /\ sock' = Fetch(c)
  /\ client' = [client EXCEPT ![c].rbuf = Overwrite(@, 0, Received(c))]
  /\ UNCHANGED <<connects, armed, queued, cut>>

\* The buffer and its length after recv().
Arrived(c)    == Overwrite(client[c].rbuf, client[c].rlen, Received(c))
ArrivedLen(c) == client[c].rlen + Len(Received(c))

\* No packet, or one that is broken, or one whose length makes no sense.
OnRecvNoPacket(c) ==
  LET ret == Complete(Arrived(c), ArrivedLen(c))
  IN  /\ OnRecvTurn(c)
      /\ sock[c].peer # "reset" /\ Received(c) # <<>>
      /\ HasRecvQueue
      /\ ret <= 0 \/ (ret > ArrivedLen(c) /\ ~OneShot)
      /\ sock' = Fetch(c)
      /\ client' = [client EXCEPT ![c].rbuf = Arrived(c), ![c].rlen = ArrivedLen(c)]
      /\ UNCHANGED <<connects, armed, queued, cut>>

\* Faulty variant: what follows the packet is dropped.
OnRecvPacketDrop(c) ==
  LET ret == Complete(Arrived(c), ArrivedLen(c))
  IN  /\ OnRecvTurn(c)
      /\ sock[c].peer # "reset" /\ Received(c) # <<>>
      /\ HasRecvQueue /\ ~OneShot
      /\ ret > 0 /\ ret <= ArrivedLen(c)
      /\ sock' = Fetch(c)
      /\ client' = [client EXCEPT ![c].rbuf = Arrived(c), ![c].rlen = 0]
      /\ cut' = [cut EXCEPT ![c] = [no |-> @.no + 1, last |-> SubSeq(Arrived(c), 1, ret)]]
      /\ UNCHANGED <<connects, armed, queued>>

\* One packet is pushed to m_recv_queue, whether or not it has room, and the
\* rest is moved to the front of the buffer.
OnRecvPacket(c) ==
  LET ret == Complete(Arrived(c), ArrivedLen(c))
  IN  /\ OnRecvTurn(c)
      /\ sock[c].peer # "reset" /\ Received(c) # <<>>
      /\ HasRecvQueue /\ ~OneShot
      /\ ret > 0 /\ ret <= ArrivedLen(c)
      /\ sock' = Fetch(c)
      /\ client' = [client EXCEPT
           ![c].rbuf = Overwrite(Arrived(c), 0, SubSeq(Arrived(c), ret + 1, ArrivedLen(c))),
           ![c].rlen = ArrivedLen(c) - ret]
      /\ cut' = [cut EXCEPT ![c] = [no |-> @.no + 1, last |-> SubSeq(Arrived(c), 1, ret)]]
      /\ UNCHANGED <<connects, armed, queued>>

\* HTTP without keep-alive: OnClose follows the push.
OnRecvLast(c) ==
  /\ OnRecvTurn(c)
  /\ sock[c].peer # "reset" /\ Received(c) # <<>>
  /\ HasRecvQueue /\ OneShot
  /\ Complete(Arrived(c), ArrivedLen(c)) > 0
  /\ OnClose(c)

-----------------------------------------------------------------------------
(* The kernel and the peers *)

PeerTakes(c) ==
  /\ sock[c].taken < Len(sock[c].wire)
  /\ sock' = [sock EXCEPT ![c].taken = @ + 1]
  /\ UNCHANGED <<local, queued, cut>>

\* The next byte arrives: of the packet under way, or the first of a new one.
PeerByte(c) ==
  LET s == sock[c]
  IN  /\ client[c].live /\ s.peer = "open"
      /\ \/ /\ s.at < Total(s.kind)
            /\ sock' = [sock EXCEPT
                 ![c].in = Append(@, [no |-> s.no, kind |-> s.kind, at |-> s.at + 1]),
                 ![c].at = @ + 1]
         \/ /\ s.at = Total(s.kind)
            /\ HasRecvQueue /\ s.no < MaxPackets
            /\ Pipelined \/ cut[c].no = s.no
            /\ \E k \in (IF mode.http THEN HttpKinds ELSE LongconnKinds) :
                 sock' = [sock EXCEPT
                   ![c].in = Append(@, [no |-> s.no + 1, kind |-> k, at |-> 1]),
                   ![c].no = @ + 1, ![c].kind = k, ![c].at = 1]
  /\ UNCHANGED <<local, queued, cut>>

\* Where what arrives is thrown away a peer may send for ever: whenever its last
\* byte was read, another one.
PeerChats(c) ==
  /\ client[c].live /\ sock[c].peer = "open"
  /\ ~HasRecvQueue /\ sock[c].in = <<>>
  /\ sock' = [sock EXCEPT ![c].in = <<[no |-> 0, kind |-> NewSock.kind, at |-> 1]>>]
  /\ UNCHANGED <<local, queued, cut>>

PeerCloses(c) ==
  /\ client[c].live /\ sock[c].peer = "open"
  /\ sock' = [sock EXCEPT ![c].peer = "closed"]
  /\ UNCHANGED <<local, queued, cut>>

\* A reset discards what has arrived.
PeerResets(c) ==
  /\ client[c].live /\ sock[c].peer # "reset"
  /\ sock' = [sock EXCEPT ![c].peer = "reset", ![c].in = <<>>]
  /\ UNCHANGED <<local, queued, cut>>

-----------------------------------------------------------------------------
OnQueue == \/ OnQueueNoConnection \/ OnQueueConnects \/ OnQueueNoRoom
           \/ OnQueueAppends
OnSend(c) == OnSendFails(c) \/ OnSendNothing(c) \/ OnSendSome(c)
OnRecv(c) == \/ OnRecvEnds(c) \/ OnRecvDiscards(c) \/ OnRecvNoPacket(c)
             \/ OnRecvPacket(c) \/ OnRecvLast(c)
Run  == Wait \/ OnQueue \/ \E c \in Conns : OnSend(c) \/ OnRecv(c)
Peer(c) == PeerTakes(c) \/ PeerByte(c) \/ PeerChats(c) \/ PeerCloses(c) \/ PeerResets(c)

Next == PushMessage \/ Stop \/ Run \/ \E c \in Conns : Peer(c)

Spec == Init /\ [][Next]_vars

\* The thread keeps running, and a peer takes what it is sent.
FairSpec == Spec /\ WF_vars(Run) /\ \A c \in Conns : WF_vars(PeerTakes(c))

-----------------------------------------------------------------------------
(* Correctness *)

\* Types of the state.
TypeOK ==
  /\ Len(sendq) <= pushed /\ pushed \in 0 .. MaxPush
  /\ connects \in [Addrs -> Conns \cup {None}]
  /\ armed \in [Conns -> {"none", "in", "inout"}]
  /\ reads \subseteq Conns \cup {Queue} /\ writes \subseteq Conns
  /\ stopped \in BOOLEAN
  /\ \A c \in Conns :
       LET d == client[c]
       IN  /\ d.live \in BOOLEAN /\ d.addr \in Addrs \cup {None}
           /\ Len(d.sbuf) <= MaxPack /\ d.spos \in 0 .. Len(d.sbuf)
           /\ d.rlen \in 0 .. Len(d.rbuf) /\ Len(d.rbuf) <= MaxPack
           /\ sock[c].taken \in 0 .. Len(sock[c].wire) /\ Free(c) \in 0 .. SockCap

\* An event that is still to be handled never belongs to a connection that a
\* handler of the same batch has deleted (net_client.cc:106-118, 187-210).
NoStaleEvent == \A c \in (reads \cup writes) \ {Queue} : client[c].live

\* The map, the objects and epoll agree: each open connection is found under
\* its own address and watched, each entry of the map is open
\* (net_client.cc:149-184, 199-209).
OneOwner ==
  /\ \A c \in Conns : client[c].live => connects[client[c].addr] = c
  /\ \A a \in Addrs : connects[a] # None =>
       client[connects[a]].live /\ client[connects[a]].addr = a
  /\ \A c \in Conns : client[c].live <=> armed[c] # "none"

\* Whoever has something to send is registered for writing, after every order
\* of queueing, partial sends and empty sends (net_client.cc:149-154, 222-236).
UnsentArmed == \A c \in Conns : Unsent(c) # <<>> => armed[c] = "inout"

\* A connection carries the payloads that were queued for its address, in that
\* order, each byte once (net_client.cc:142-147, 214-233).
StreamIntact == \A c \in Conns : sock[c].wire \o Unsent(c) = queued[c]

\* Objects, map, epoll and sockets agree, and the streams with what was queued.
StreamsSound == TypeOK /\ OneOwner /\ StreamIntact

\* Packets with a length in front are cut where they end, in the order in which
\* they came, however the stream was chopped (net_client.cc:256-287).
FramesIntact ==
  \A c \in Conns :
    LET n == cut[c].no
    IN  n > 0 => /\ cut[c].last # <<>>
                 /\ cut[c].last = Packet(n, cut[c].last[1].kind)

\* An HTTP connection that its peer keeps open is closed only without
\* keep-alive, and then not before its first packet is whole
\* (net_client.cc:289-291).
ClosedAfterPacket ==
  [][\A c \in Conns :
       mode.http /\ client[c].live /\ ~client[c]'.live /\ sock[c].peer = "open"
         => ~mode.keepalive /\ (sock[c].no > 1 \/ sock[c].at = Total(sock[c].kind))]_vars

\* Again and again CEpoll::Wait finds a connection with nothing to read.  A peer
\* can prevent it by sending for ever: Wait then puts the connection among the
\* reads every time, and its OnSend never runs (net_epoll.cc:139-142).
FoundQuiet(c) == []<><<Wait /\ ~Readable(c)>>_vars


\* An open connection with nothing to send does not stay registered for writing:
\* the loop does not spin on it, unless the peer sends for ever
\* (net_client.cc:222-226).
NoSpin ==
  \A c \in Conns :
    FoundQuiet(c) =>
      (client[c].live ~> armed[c] # "inout" \/ Unsent(c) # <<>> \/ stopped)

\* The packet at the front is pushed to the receive queue once its last byte
\* waits in the socket (net_client.cc:240-292).  A packet whose last byte is
\* read together with the one before it has to wait for more bytes.
LastByteWaits(c, n) ==
  /\ client[c].live /\ cut[c].no = n - 1
  /\ \E b \in Range(sock[c].in) : b.no = n /\ b.at = Total(b.kind)
Delivered ==
  \A c \in Conns, n \in 1 .. MaxPackets :
    LastByteWaits(c, n) ~> cut[c].no # n - 1 \/ ~client[c].live \/ stopped

\* The length of a body is added only to a packet that has one ("has http
\* body", net_check.cc:45).
BodyOnlyIfDeclared ==
  \A c \in Conns :
    LET d == client[c]
        p == HeaderEnd(d.rbuf)
    IN  mode.http /\ p > 0 /\ p <= d.rlen /\ ContentLength(d.rbuf) > 0
          => d.rbuf[1].kind.decl > 0
=============================================================================
