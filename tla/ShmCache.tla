------------------------------ MODULE ShmCache ------------------------------
(***************************************************************************)
(* CShmCache (utils/shmcache.h, utils/shmcache.cpp): a cache of byte       *)
(* strings in shared memory.  A value is cut into blocks; the blocks of    *)
(* all keys of a hash bucket form one singly linked chain sorted by key,   *)
(* and all blocks, free or used, form one circular doubly linked list from *)
(* the least to the most recently used.  Lock serialises the operations,   *)
(* so one operation is in progress at a time; its steps are the iterations *)
(* of its loops.                                                           *)
(***************************************************************************)
EXTENDS Integers, Sequences, FiniteSets

CONSTANTS
  Keys,                 \* the keys callers use, none of them 0
  Values,               \* the values they set
  BlockNum,             \* m_block_num
  BlockSize,            \* m_block_size
  Buckets,              \* HASH_MASK
  Timeout,              \* m_timeout
  MaxTime               \* bound: the clock stops here

Nil == -1
Idx == 0 .. BlockNum - 1
Links == Idx \cup {Nil}

ASSUME ShmCacheAssumption ==
  /\ Keys \subseteq Nat \ {0} /\ Values \subseteq Seq(Nat)
  /\ BlockNum \in Nat \ {0} /\ BlockSize \in Nat \ {0} /\ Buckets \in Nat \ {0}
  /\ Timeout \in Nat /\ MaxTime \in Nat

VARIABLES
  key,                  \* m_key of every block; 0: the block is free
  chunk,                \* its bytes; m_len is Len(chunk[i])
  next,                 \* m_next: the chain
  pre, nxt,             \* m_lru_pre, m_lru_next
  up,                   \* m_uptime
  hhead, hlen,          \* m_hash[b].m_head, m_hash[b].m_len
  lhead, ltail,         \* *m_lru_head, *m_lru_tail
  now,                  \* time(NULL)
  op,                   \* the operation in progress
  result                \* what the last operation returned

lru  == <<pre, nxt, lhead, ltail>>
heap == <<key, chunk, next, up, hhead, hlen, lru>>
vars == <<heap, now, op, result>>

\* Where an operation is: pc is the loop it is in, call the loop that a
\* DeleteHash returns to; the other fields are its arguments and locals.
Idle == [pc |-> "idle", call |-> "idle", key |-> 0, rest |-> <<>>, dkey |-> 0,
         cur |-> Nil, prev |-> Nil, idx |-> 0, bucket |-> 0, resume |-> Nil,
         ret |-> "none", out |-> <<>>]

Hash(k) == k % Buckets

\* CShmCache::Init on memory that no process has initialised.
Init ==
  /\ key = [i \in Idx |-> 0]
  /\ chunk = [i \in Idx |-> <<>>]
  /\ next = [i \in Idx |-> Nil]
  /\ pre = [i \in Idx |-> IF i = 0 THEN BlockNum - 1 ELSE i - 1]
  /\ nxt = [i \in Idx |-> IF i = BlockNum - 1 THEN 0 ELSE i + 1]
  /\ up = [i \in Idx |-> 0]
  /\ hhead = [b \in 0 .. Buckets - 1 |-> Nil]
  /\ hlen = [b \in 0 .. Buckets - 1 |-> 0]
  /\ lhead = 0 /\ ltail = BlockNum - 1
  /\ now = 0 /\ op = Idle
  /\ result = [ret |-> "none", out |-> <<>>]

-----------------------------------------------------------------------------
(* The list of all blocks *)

\* Faulty variant: the old head keeps its predecessor.
RelinkOneWay(i) ==
  LET nxt1 == [nxt EXCEPT ![pre[i]] = nxt[i]]
      pre1 == [pre EXCEPT ![nxt[i]] = pre[i]]
  IN  /\ nxt' = [nxt1 EXCEPT ![i] = lhead, ![ltail] = i]
      /\ pre' = [pre1 EXCEPT ![i] = ltail]

\* Block i leaves its place between two others and closes the ring between
\* tail and head.
Relink(i) ==
  LET nxt1 == [nxt EXCEPT ![pre[i]] = nxt[i]]
      pre1 == [pre EXCEPT ![nxt[i]] = pre[i]]
  IN  /\ nxt' = [nxt1 EXCEPT ![i] = lhead, ![ltail] = i]
      /\ pre' = [pre1 EXCEPT ![i] = ltail, ![lhead] = i]

MoveLRUTail(i) ==
  \/ /\ ltail = i
     /\ UNCHANGED lru
  \/ /\ ltail # i /\ lhead = i
     /\ ltail' = lhead /\ lhead' = nxt[i]
     /\ UNCHANGED <<pre, nxt>>
  \/ /\ ltail # i /\ lhead # i
     /\ Relink(i)
     /\ ltail' = i
     /\ UNCHANGED lhead

MoveLRUHead(i) ==
  \/ /\ lhead = i
     /\ UNCHANGED lru
  \/ /\ lhead # i /\ ltail = i
     /\ lhead' = ltail /\ ltail' = pre[i]
     /\ UNCHANGED <<pre, nxt>>
  \/ /\ lhead # i /\ ltail # i
     /\ Relink(i)
     /\ lhead' = i
     /\ UNCHANGED ltail

-----------------------------------------------------------------------------
(* DeleteHash(op.dkey), called from Set, Get, Del and Check *)

Deleting(o, k, caller) ==
  [o EXCEPT !.pc = "delete", !.call = caller, !.dkey = k,
            !.cur = hhead[Hash(k)], !.prev = Nil]

\* A block of the key leaves the chain and becomes the next one to be used.
DeleteBlock ==
  /\ op.pc = "delete" /\ op.cur # Nil
  /\ key[op.cur] = op.dkey
  /\ IF op.prev # Nil
       THEN /\ next' = [next EXCEPT ![op.prev] = next[op.cur], ![op.cur] = Nil]
            /\ UNCHANGED hhead
       ELSE /\ hhead' = [hhead EXCEPT ![Hash(op.dkey)] = next[op.cur]]
            /\ next' = [next EXCEPT ![op.cur] = Nil]
  /\ key' = [key EXCEPT ![op.cur] = 0]
  /\ chunk' = [chunk EXCEPT ![op.cur] = <<>>]
  /\ hlen' = [hlen EXCEPT ![Hash(op.dkey)] = @ - 1]
  /\ MoveLRUHead(op.cur)
  /\ op' = [op EXCEPT !.cur = next[op.cur]]
  /\ UNCHANGED <<up, now, result>>

DeleteSkip ==
  /\ op.pc = "delete" /\ op.cur # Nil
  /\ op.dkey > key[op.cur]
  /\ op' = [op EXCEPT !.prev = op.cur, !.cur = next[op.cur]]
  /\ UNCHANGED <<heap, now, result>>

DeleteEnd ==
  /\ op.pc = "delete"
  /\ op.cur # Nil => op.dkey < key[op.cur]
  /\ op' = [op EXCEPT !.pc = op.call, !.cur = op.resume, !.prev = Nil,
                      !.resume = Nil]
  /\ UNCHANGED <<heap, now, result>>

-----------------------------------------------------------------------------
(* Set *)

\* Lock, then DeleteHash(key) throws the old value away.  A key of 0 is refused
\* before that (ERR_KEY_ZERO) and changes nothing; Keys does not have it.
SetCall(k, v) ==
  /\ op.pc = "idle"
  /\ op' = Deleting([Idle EXCEPT !.key = k, !.rest = v, !.ret = "OK"], k, "set")
  /\ UNCHANGED <<heap, now, result>>

\* The least recently used block belongs to a key, which loses all its blocks.
SetEvict ==
  /\ op.pc = "set" /\ op.rest # <<>>
  /\ key[lhead] # 0
  /\ op' = Deleting(op, key[lhead], "set")
  /\ UNCHANGED <<heap, now, result>>

\* The least recently used block is free and takes the next bytes.
SetFill ==
  /\ op.pc = "set" /\ op.rest # <<>>
  /\ key[lhead] = 0
  /\ LET n == IF Len(op.rest) <= BlockSize THEN Len(op.rest) ELSE BlockSize
     IN  /\ chunk' = [chunk EXCEPT ![lhead] = SubSeq(op.rest, 1, n)]
         /\ op' = [op EXCEPT !.pc = "insert", !.idx = lhead,
                             !.rest = SubSeq(op.rest, n + 1, Len(op.rest)),
                             !.cur = hhead[Hash(op.key)], !.prev = Nil]
  /\ key' = [key EXCEPT ![lhead] = op.key]
  /\ up' = [up EXCEPT ![lhead] = now]
  /\ hlen' = [hlen EXCEPT ![Hash(op.key)] = @ + 1]
  /\ UNCHANGED <<next, hhead, lru, now, result>>

\* InsertHash walks behind all blocks whose key is not greater ...
InsertSkip ==
  /\ op.pc = "insert" /\ op.cur # Nil
  /\ op.key >= key[op.cur]
  /\ op' = [op EXCEPT !.prev = op.cur, !.cur = next[op.cur]]
  /\ UNCHANGED <<heap, now, result>>

\* ... and links the block in there; it is the most recently used one.
InsertLink ==
  /\ op.pc = "insert"
  /\ op.cur # Nil => op.key < key[op.cur]
  /\ IF op.prev # Nil
       THEN /\ next' = [next EXCEPT ![op.idx] = op.cur, ![op.prev] = op.idx]
            /\ UNCHANGED hhead
       ELSE /\ next' = [next EXCEPT ![op.idx] = op.cur]
            /\ hhead' = [hhead EXCEPT ![Hash(op.key)] = op.idx]
  /\ MoveLRUTail(op.idx)
  /\ op' = [op EXCEPT !.pc = "set", !.cur = Nil, !.prev = Nil, !.idx = 0]
  /\ UNCHANGED <<key, chunk, up, hlen, now, result>>

SetEnd ==
  /\ op.pc = "set" /\ op.rest = <<>>
  /\ op' = [op EXCEPT !.pc = "unlock"]
  /\ UNCHANGED <<heap, now, result>>

-----------------------------------------------------------------------------
(* Get *)

Stale(i) == now - up[i] > Timeout

GetCall(k) ==
  /\ op.pc = "idle"
  /\ op' = [Idle EXCEPT !.pc = "get", !.key = k, !.ret = "KEY_NO_EXIST",
                        !.cur = hhead[Hash(k)]]
  /\ UNCHANGED <<heap, now, result>>

\* Faulty variant: a hit does not make the blocks recent.
GetHitUntouched ==
  /\ op.pc = "get" /\ op.cur # Nil
  /\ key[op.cur] = op.key /\ ~ Stale(op.cur)
  /\ op' = [op EXCEPT !.out = @ \o chunk[op.cur], !.ret = "OK",
                      !.cur = next[op.cur]]
  /\ UNCHANGED <<key, chunk, next, up, hhead, hlen, now, result, lru>>

GetHit ==
  /\ op.pc = "get" /\ op.cur # Nil
  /\ key[op.cur] = op.key /\ ~ Stale(op.cur)
  /\ MoveLRUTail(op.cur)
  /\ op' = [op EXCEPT !.out = @ \o chunk[op.cur], !.ret = "OK",
                      !.cur = next[op.cur]]
  /\ UNCHANGED <<key, chunk, next, up, hhead, hlen, now, result>>

GetStale ==
  /\ op.pc = "get" /\ op.cur # Nil
  /\ key[op.cur] = op.key /\ Stale(op.cur)
  /\ op' = Deleting([op EXCEPT !.ret = "KEY_TIMEOUT"], op.key, "unlock")
  /\ UNCHANGED <<heap, now, result>>

GetSkip ==
  /\ op.pc = "get" /\ op.cur # Nil
  /\ key[op.cur] < op.key
  /\ op' = [op EXCEPT !.cur = next[op.cur]]
  /\ UNCHANGED <<heap, now, result>>

GetEnd ==
  /\ op.pc = "get"
  /\ op.cur # Nil => key[op.cur] > op.key
  /\ op' = [op EXCEPT !.pc = "unlock"]
  /\ UNCHANGED <<heap, now, result>>

-----------------------------------------------------------------------------
(* Del and Check *)

DelCall(k) ==
  /\ op.pc = "idle"
  /\ op' = Deleting([Idle EXCEPT !.key = k, !.ret = "OK"], k, "unlock")
  /\ UNCHANGED <<heap, now, result>>

CheckCall ==
  /\ op.pc = "idle"
  /\ op' = [Idle EXCEPT !.pc = "check", !.ret = "OK", !.cur = hhead[0]]
  /\ UNCHANGED <<heap, now, result>>

\* Faulty variant: cur does not move on.
CheckStaleStay ==
  /\ op.pc = "check" /\ op.cur # Nil
  /\ Stale(op.cur)
  /\ op' = Deleting([op EXCEPT !.resume = op.cur], key[op.cur], "check")
  /\ UNCHANGED <<heap, now, result>>

\* cur moves on before DeleteHash, which may free the block it moves to.
CheckStale ==
  /\ op.pc = "check" /\ op.cur # Nil
  /\ Stale(op.cur)
  /\ op' = Deleting([op EXCEPT !.resume = next[op.cur]], key[op.cur], "check")
  /\ UNCHANGED <<heap, now, result>>

CheckFresh ==
  /\ op.pc = "check" /\ op.cur # Nil
  /\ ~ Stale(op.cur)
  /\ op' = [op EXCEPT !.cur = next[op.cur]]
  /\ UNCHANGED <<heap, now, result>>

CheckBucket ==
  /\ op.pc = "check" /\ op.cur = Nil
  /\ op' = IF op.bucket + 1 < Buckets
             THEN [op EXCEPT !.bucket = @ + 1, !.cur = hhead[op.bucket + 1]]
             ELSE [op EXCEPT !.pc = "unlock"]
  /\ UNCHANGED <<heap, now, result>>

-----------------------------------------------------------------------------
Unlock ==
  /\ op.pc = "unlock"
  /\ result' = [ret |-> op.ret, out |-> op.out]
  /\ op' = Idle
  /\ UNCHANGED <<heap, now>>

\* The clock is read once in every operation, right behind Lock.
Tick ==
  /\ op.pc = "idle" /\ now < MaxTime
  /\ now' = now + 1
  /\ UNCHANGED <<heap, op, result>>

Step == \/ DeleteBlock \/ DeleteSkip \/ DeleteEnd
        \/ SetEvict \/ SetFill \/ InsertSkip \/ InsertLink \/ SetEnd
        \/ GetHit \/ GetStale \/ GetSkip \/ GetEnd
        \/ CheckStale \/ CheckFresh \/ CheckBucket
        \/ Unlock

Next == \/ \E k \in Keys : \/ \E v \in Values : SetCall(k, v)
                           \/ GetCall(k) \/ DelCall(k)
        \/ CheckCall
        \/ Step
        \/ Tick

Spec == Init /\ [][Next]_vars

\* A process that is inside an operation keeps running.
Fairness == WF_vars(Step)

-----------------------------------------------------------------------------
(* Correctness *)

PcSet == {"idle", "delete", "set", "insert", "get", "check", "unlock"}
Rets == {"none", "OK", "KEY_NO_EXIST", "KEY_TIMEOUT"}

\* Types of the state.
TypeOK ==
  /\ key \in [Idx -> Keys \cup {0}]
  /\ \A i \in Idx : Len(chunk[i]) <= BlockSize
  /\ next \in [Idx -> Links]
  /\ pre \in [Idx -> Idx] /\ nxt \in [Idx -> Idx]
  /\ up \in [Idx -> 0 .. MaxTime] /\ now \in 0 .. MaxTime
  /\ hhead \in [0 .. Buckets - 1 -> Links]
  /\ hlen \in [0 .. Buckets - 1 -> 0 .. BlockNum]
  /\ lhead \in Idx /\ ltail \in Idx
  /\ op.pc \in PcSet /\ op.call \in PcSet
  /\ op.key \in Keys \cup {0} /\ op.dkey \in Keys \cup {0}
  /\ op.cur \in Links /\ op.prev \in Links /\ op.resume \in Links
  /\ op.idx \in Idx /\ op.bucket \in 0 .. Buckets - 1
  /\ op.ret \in Rets /\ result.ret \in Rets

\* The blocks from the least to the most recently used, and those of a chain.
LruOrder ==
  LET at[n \in 1 .. BlockNum] == IF n = 1 THEN lhead ELSE nxt[at[n-1]] IN at
Chain(b) ==
  LET at[n \in 1 .. BlockNum + 1] ==
        IF n = 1 THEN hhead[b]
        ELSE IF at[n-1] = Nil THEN Nil ELSE next[at[n-1]]
  IN  [n \in {m \in 1 .. BlockNum + 1 : at[m] # Nil} |-> at[n]]

\* The two ways round the list are inverse to each other, tail and head are
\* neighbours, and the list is one ring of all blocks: no block is lost to
\* reuse and none is on it twice, at every step of every operation
\* (shmcache.cpp:299-345).
LruRing ==
  /\ \A i \in Idx : nxt[pre[i]] = i /\ pre[nxt[i]] = i
  /\ nxt[ltail] = lhead
  /\ LET o == LruOrder IN {o[n] : n \in 1 .. BlockNum} = Idx

\* Free blocks come first: Set throws nothing away while a block is free.
\* Only the block that is being filled may stand before them.
FreeFirst ==
  LET o == LruOrder
  IN  \A m, n \in 1 .. BlockNum :
        m < n /\ key[o[m]] # 0 /\ key[o[n]] = 0
          => op.pc = "insert" /\ o[m] = op.idx

\* The chains hold every used block once, in the bucket of its key, sorted by
\* key, and m_len counts them.  Only the block that InsertHash is about to link
\* is counted and not yet there (shmcache.cpp:236-297).
ChainsSound ==
  \A b \in 0 .. Buckets - 1 :
    LET c       == Chain(b)
        pending == IF op.pc = "insert" THEN {op.idx} ELSE {}
        here    == {i \in Idx : key[i] # 0 /\ Hash(key[i]) = b}
    IN  /\ {c[n] : n \in DOMAIN c} = here \ pending
        /\ \A m, n \in DOMAIN c : m < n => c[m] # c[n] /\ key[c[m]] <= key[c[n]]
        /\ hlen[b] = Cardinality(here)

\* assert(pre != idx), shmcache.cpp:253 and 263: InsertHash never meets the
\* block it inserts.
InsertAsserts ==
  op.pc = "insert" => op.prev # op.idx /\ op.cur # op.idx

\* The list of all blocks and the chains are sound at every step of every
\* operation, also half way through a deletion or an insertion.
CacheSound == TypeOK /\ LruRing /\ FreeFirst /\ ChainsSound /\ InsertAsserts

\* Every operation comes to its Unlock: no loop runs in circles on the links
\* it changes itself, and eviction always frees the block it is after.
OperationsEnd == op.pc # "idle" ~> op.pc = "idle"
=============================================================================
