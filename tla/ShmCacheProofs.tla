--------------------------- MODULE ShmCacheProofs ---------------------------
(***************************************************************************)
(* That the list of all blocks and the chains of ShmCache are sound at     *)
(* every step, for every number of blocks and buckets.                     *)
(*                                                                         *)
(* The invariants of the module walk along the links.  Here every block    *)
(* has a number instead, its place on the list (pos) and on its chain      *)
(* (depth): a link leads from one number to the next.  An operation on     *)
(* the links is then an operation on the numbers, and what the walks meet  *)
(* follows by induction on the steps of the walk.                          *)
(***************************************************************************)
EXTENDS ShmCache, Arithmetic

-----------------------------------------------------------------------------
(* The inductive invariant *)

Ops == [pc : PcSet, call : PcSet, key : Keys \cup {0}, rest : Seq(Nat),
        dkey : Keys \cup {0}, cur : Links, prev : Links, idx : Idx,
        bucket : 0 .. Buckets - 1, resume : Links, ret : Rets, out : Seq(Nat)]

Typed ==
  /\ key \in [Idx -> Keys \cup {0}]
  /\ chunk \in [Idx -> Seq(Nat)]
  /\ \A i \in Idx : Len(chunk[i]) <= BlockSize
  /\ next \in [Idx -> Links]
  /\ pre \in [Idx -> Idx] /\ nxt \in [Idx -> Idx]
  /\ up \in [Idx -> 0 .. MaxTime] /\ now \in 0 .. MaxTime
  /\ hhead \in [0 .. Buckets - 1 -> Links]
  /\ hlen \in [0 .. Buckets - 1 -> Int]
  /\ lhead \in Idx /\ ltail \in Idx
  /\ op \in Ops /\ result.ret \in Rets

\* What a loop knows of its arguments.
Called ==
  /\ op.pc \in {"set", "insert", "get"} => op.key \in Keys
  /\ op.pc = "delete" => op.call \in {"set", "unlock", "check"}
  /\ op.pc = "delete" /\ op.call = "set" => op.key \in Keys
  /\ op.pc = "insert" => key[op.idx] = op.key

\* pos numbers the blocks from head to tail.
Numbers(pos) ==
  /\ pos \in [Idx -> 0 .. BlockNum - 1]
  /\ \A i, j \in Idx : pos[i] = pos[j] => i = j
  /\ pos[lhead] = 0 /\ pos[ltail] = BlockNum - 1
  /\ \A i \in Idx :
       pos[nxt[i]] = IF pos[i] = BlockNum - 1 THEN 0 ELSE pos[i] + 1
  /\ \A i \in Idx :
       pos[pre[i]] = IF pos[i] = 0 THEN BlockNum - 1 ELSE pos[i] - 1

\* A used block before a free one is the one that is being filled.
Filling(pos) ==
  \A i, j \in Idx : pos[i] < pos[j] /\ key[i] # 0 /\ key[j] = 0
                      => op.pc = "insert" /\ i = op.idx

Ring == \E pos : Numbers(pos) /\ Filling(pos)

\* The blocks on the chains, and all used blocks of a bucket.
Linked == {i \in Idx : key[i] # 0 /\ ~ (op.pc = "insert" /\ i = op.idx)}
Here(b) == {i \in Idx : key[i] # 0 /\ Hash(key[i]) = b}

\* depth numbers the blocks of every chain from 1 ...
Heads(depth) ==
  \A b \in 0 .. Buckets - 1 :
    hhead[b] # Nil => /\ hhead[b] \in Linked /\ Hash(key[hhead[b]]) = b
                      /\ depth[hhead[b]] = 1
Firsts(depth) ==
  \A i \in Linked : /\ depth[i] >= 1
                    /\ hhead[Hash(key[i])] # Nil
                    /\ depth[i] = 1 => hhead[Hash(key[i])] = i
Follows(depth) ==
  \A i \in Linked :
    next[i] # Nil => /\ next[i] \in Linked /\ Hash(key[next[i]]) = Hash(key[i])
                     /\ depth[next[i]] = depth[i] + 1
Reached(depth) ==
  \A i \in Linked : depth[i] > 1 => \E j \in Linked : next[j] = i

\* ... without gaps, in the order of their keys, and as many as are counted.
Sorted(depth) ==
  \A i, j \in Linked :
    Hash(key[i]) = Hash(key[j]) =>
      /\ depth[i] = depth[j] => i = j
      /\ depth[i] < depth[j] => key[i] <= key[j] /\ next[i] # Nil
Within(depth) ==
  \A i \in Linked :
    /\ depth[i] <= hlen[Hash(key[i])]
    /\ op.pc = "insert" /\ Hash(key[i]) = Hash(op.key)
         => depth[i] < hlen[Hash(key[i])]

Depths(depth) ==
  /\ depth \in [Idx -> Nat]
  /\ Heads(depth) /\ Firsts(depth) /\ Follows(depth) /\ Reached(depth)
  /\ Sorted(depth) /\ Within(depth)

Chains == \E depth : Depths(depth)

Counted == \A b \in 0 .. Buckets - 1 : hlen[b] = Cardinality(Here(b))

\* prev and cur of DeleteHash and InsertHash are neighbours on the chain.
Cursor(k) ==
  IF op.prev = Nil THEN op.cur = hhead[Hash(k)]
  ELSE op.prev \in Linked /\ Hash(key[op.prev]) = Hash(k) /\ next[op.prev] = op.cur
Walked ==
  /\ op.pc = "delete" => Cursor(op.dkey)
  /\ op.pc = "insert" => Cursor(op.key) /\ (op.prev # Nil => key[op.prev] <= op.key)

CacheInv == Typed /\ Called /\ Ring /\ Chains /\ Counted /\ Walked

-----------------------------------------------------------------------------
(* Moving a block on the list *)

ToTail(pos, i) ==
  [j \in Idx |-> IF j = i THEN BlockNum - 1
                 ELSE IF pos[j] > pos[i] THEN pos[j] - 1 ELSE pos[j]]
ToHead(pos, i) ==
  [j \in Idx |-> IF j = i THEN 0
                 ELSE IF pos[j] < pos[i] THEN pos[j] + 1 ELSE pos[j]]

ListTyped == /\ pre \in [Idx -> Idx] /\ nxt \in [Idx -> Idx]
             /\ lhead \in Idx /\ ltail \in Idx

\* The links of the ring after block i has been taken out and put between
\* tail and head.
LEMMA Relinked ==
  ASSUME NEW i \in Idx, NEW pos, ListTyped, Numbers(pos), i # lhead, i # ltail,
         Relink(i), ShmCacheAssumption
  PROVE  /\ nxt' \in [Idx -> Idx] /\ pre' \in [Idx -> Idx]
         /\ \A j \in Idx : nxt'[j] = IF j = ltail THEN i ELSE IF j = i THEN lhead
                                     ELSE IF j = pre[i] THEN nxt[i] ELSE nxt[j]
         /\ \A j \in Idx : pre'[j] = IF j = lhead THEN i ELSE IF j = i THEN ltail
                                     ELSE IF j = nxt[i] THEN pre[i] ELSE pre[j]
         /\ pos[i] > 0 /\ pos[i] < BlockNum - 1
         /\ pos[pre[i]] = pos[i] - 1 /\ pos[nxt[i]] = pos[i] + 1
<1>1. /\ pre[i] \in Idx /\ nxt[i] \in Idx /\ pos[i] \in 0 .. BlockNum - 1
      /\ BlockNum \in Nat \ {0}
  BY DEF ListTyped, Numbers, ShmCacheAssumption
<1>2. pos[i] # 0 /\ pos[i] # BlockNum - 1
  BY DEF ListTyped, Numbers
<1>3. pos[pre[i]] = pos[i] - 1 /\ pos[nxt[i]] = pos[i] + 1
  BY <1>2 DEF Numbers
<1>4. pos[i] > 0 /\ pos[i] < BlockNum - 1
  BY <1>1, <1>2
<1>5. nxt' \in [Idx -> Idx] /\ pre' \in [Idx -> Idx]
  BY <1>1 DEF Relink, ListTyped
<1>6. ASSUME NEW j \in Idx
      PROVE  nxt'[j] = IF j = ltail THEN i ELSE IF j = i THEN lhead
                                     ELSE IF j = pre[i] THEN nxt[i] ELSE nxt[j]
  BY <1>1 DEF Relink, ListTyped
<1>7. ASSUME NEW j \in Idx
      PROVE  pre'[j] = IF j = lhead THEN i ELSE IF j = i THEN ltail
                                     ELSE IF j = nxt[i] THEN pre[i] ELSE pre[j]
  BY <1>1 DEF Relink, ListTyped
<1>8. QED
  BY <1>3, <1>4, <1>5, <1>6, <1>7

\* A block that MoveLRUTail moves gets the last number (shmcache.cpp:299-321).
LEMMA TailNumbers ==
  ASSUME NEW i \in Idx, NEW pos, ListTyped, Numbers(pos), MoveLRUTail(i),
         ShmCacheAssumption
  PROVE  ListTyped' /\ Numbers(ToTail(pos, i))'
<1> DEFINE q == ToTail(pos, i)
<1>0. /\ BlockNum \in Nat \ {0} /\ pos \in [Idx -> 0 .. BlockNum - 1]
      /\ \A j, k \in Idx : pos[j] = pos[k] => j = k
      /\ pos[lhead] = 0 /\ pos[ltail] = BlockNum - 1
      /\ lhead \in Idx /\ ltail \in Idx
      /\ pre \in [Idx -> Idx] /\ nxt \in [Idx -> Idx]
  BY DEF Numbers, ListTyped, ShmCacheAssumption
<1>1. /\ q \in [Idx -> Int]
      /\ \A j \in Idx : q[j] = IF j = i THEN BlockNum - 1
                               ELSE IF pos[j] > pos[i] THEN pos[j] - 1 ELSE pos[j]
  BY <1>0 DEF ToTail
<1> HIDE DEF q
<1>2. \A j \in Idx : j # i => pos[j] # pos[i]
  BY <1>0
<1>3. \A j \in Idx : q[j] \in 0 .. BlockNum - 1
  BY <1>0, <1>1, <1>2
<1>4. \A j, k \in Idx : q[j] = q[k] => j = k
  BY <1>0, <1>1, <1>2
<1>5. q \in [Idx -> 0 .. BlockNum - 1]
  BY <1>1, <1>3
<1>6. /\ \A j \in Idx : pos[nxt[j]] = IF pos[j] = BlockNum - 1 THEN 0 ELSE pos[j] + 1
      /\ \A j \in Idx : pos[pre[j]] = IF pos[j] = 0 THEN BlockNum - 1 ELSE pos[j] - 1
  BY DEF Numbers
<1>7. CASE ltail = i
  <2>1. UNCHANGED <<pre, nxt, lhead, ltail>>
    BY <1>7 DEF MoveLRUTail, lru
  <2>2. \A j \in Idx : q[j] = pos[j]
    BY <1>0, <1>1, <1>7
  <2>3. QED
    BY <1>0, <1>4, <1>5, <1>6, <2>1, <2>2 DEF Numbers, ListTyped, q
<1>8. CASE ltail # i /\ lhead = i
  <2>1. ltail' = i /\ lhead' = nxt[i] /\ pre' = pre /\ nxt' = nxt
    BY <1>8 DEF MoveLRUTail
  <2>2. pos[i] = 0 /\ pos[nxt[i]] = 1 /\ BlockNum > 1
    BY <1>0, <1>6, <1>8
  <2>3. \A j \in Idx : q[j] = IF pos[j] = 0 THEN BlockNum - 1 ELSE pos[j] - 1
    BY <1>0, <1>1, <2>2
  <2>4. q[lhead'] = 0 /\ q[ltail'] = BlockNum - 1
    BY <1>0, <2>1, <2>2, <2>3
  <2>5. ASSUME NEW j \in Idx
        PROVE  q[nxt[j]] = IF q[j] = BlockNum - 1 THEN 0 ELSE q[j] + 1
    <3>1. nxt[j] \in Idx /\ pos[j] \in 0 .. BlockNum - 1 /\ pos[nxt[j]] \in 0 .. BlockNum - 1
      BY <1>0
    <3>2. q[nxt[j]] = IF pos[nxt[j]] = 0 THEN BlockNum - 1 ELSE pos[nxt[j]] - 1
      BY <2>3, <3>1
    <3>3. q[j] = IF pos[j] = 0 THEN BlockNum - 1 ELSE pos[j] - 1
      BY <2>3
    <3>4. pos[nxt[j]] = IF pos[j] = BlockNum - 1 THEN 0 ELSE pos[j] + 1
      BY <1>6
    <3>5. BlockNum \in Nat /\ BlockNum > 1
      BY <1>0, <2>2
    <3>6. QED
      BY ONLY <3>1, <3>2, <3>3, <3>4, <3>5
  <2>6. ASSUME NEW j \in Idx
        PROVE  q[pre[j]] = IF q[j] = 0 THEN BlockNum - 1 ELSE q[j] - 1
    <3>1. pre[j] \in Idx /\ pos[j] \in 0 .. BlockNum - 1 /\ pos[pre[j]] \in 0 .. BlockNum - 1
      BY <1>0
    <3>2. q[pre[j]] = IF pos[pre[j]] = 0 THEN BlockNum - 1 ELSE pos[pre[j]] - 1
      BY <2>3, <3>1
    <3>3. q[j] = IF pos[j] = 0 THEN BlockNum - 1 ELSE pos[j] - 1
      BY <2>3
    <3>4. pos[pre[j]] = IF pos[j] = 0 THEN BlockNum - 1 ELSE pos[j] - 1
      BY <1>6
    <3>5. BlockNum \in Nat /\ BlockNum > 1
      BY <1>0, <2>2
    <3>6. QED
      BY ONLY <3>1, <3>2, <3>3, <3>4, <3>5
  <2>7. ListTyped'
    BY <1>0, <2>1 DEF ListTyped
  <2>8. QED
    BY <1>4, <1>5, <2>1, <2>4, <2>5, <2>6, <2>7 DEF Numbers, q
<1>9. CASE ltail # i /\ lhead # i
  <2>1. Relink(i) /\ ltail' = i /\ lhead' = lhead
    BY <1>9 DEF MoveLRUTail
  <2>2. /\ nxt' \in [Idx -> Idx] /\ pre' \in [Idx -> Idx]
        /\ \A j \in Idx : nxt'[j] = IF j = ltail THEN i ELSE IF j = i THEN lhead
                                     ELSE IF j = pre[i] THEN nxt[i] ELSE nxt[j]
        /\ \A j \in Idx : pre'[j] = IF j = lhead THEN i ELSE IF j = i THEN ltail
                                     ELSE IF j = nxt[i] THEN pre[i] ELSE pre[j]
        /\ pos[i] > 0 /\ pos[i] < BlockNum - 1
        /\ pos[pre[i]] = pos[i] - 1 /\ pos[nxt[i]] = pos[i] + 1
    BY <1>9, <2>1, Relinked
  <2>3. q[lhead] = 0 /\ q[i] = BlockNum - 1 /\ q[ltail] = BlockNum - 2
    BY <1>0, <1>1, <1>9, <2>2
  <2>4. ASSUME NEW j \in Idx
        PROVE  q[nxt'[j]] = IF q[j] = BlockNum - 1 THEN 0 ELSE q[j] + 1
    <3>1. /\ nxt[j] \in Idx /\ nxt[i] \in Idx /\ pre[i] \in Idx
          /\ pos[j] \in 0 .. BlockNum - 1 /\ pos[i] \in 0 .. BlockNum - 1
      BY <1>0
    <3>2. CASE j = ltail
      <4>1. nxt'[j] = i
        BY <2>2, <3>2
      <4>2. q[j] # BlockNum - 1 /\ q[j] + 1 = BlockNum - 1
        BY <1>0, <2>3, <3>2
      <4>3. QED
        BY <2>3, <4>1, <4>2
    <3>3. CASE j = i
      BY <1>0, <1>9, <2>2, <2>3, <3>3
    <3>4. CASE j # i /\ j # ltail /\ j = pre[i]
      <4>1. nxt'[j] = nxt[i]
        BY <2>2, <3>4
      <4>2. q[j] = pos[i] - 1
        BY <1>1, <2>2, <3>1, <3>4
      <4>3. q[nxt[i]] = pos[i]
        <5>1. nxt[i] # i /\ pos[nxt[i]] > pos[i]
          BY <2>2, <3>1
        <5>2. q[nxt[i]] = pos[nxt[i]] - 1
          BY <1>1, <3>1, <5>1
        <5>3. QED
          BY <2>2, <3>1, <5>2
      <4>4. QED
        BY <2>2, <3>1, <4>1, <4>2, <4>3, <1>0
    <3>5. CASE j # i /\ j # ltail /\ j # pre[i]
      <4>1. nxt'[j] = nxt[j]
        BY <2>2, <3>5
      <4>2. pos[j] # BlockNum - 1 /\ pos[nxt[j]] = pos[j] + 1
        BY <1>0, <1>6, <3>5
      <4>3. pos[j] # pos[i] - 1 /\ pos[j] # pos[i]
        BY <1>0, <2>2, <3>1, <3>5
      <4>4. nxt[j] # i
        BY <4>2, <4>3, <3>1
      <4>5. q[nxt[j]] = IF pos[j] + 1 > pos[i] THEN pos[j] ELSE pos[j] + 1
        BY <1>1, <3>1, <4>2, <4>4
      <4>6. q[j] = IF pos[j] > pos[i] THEN pos[j] - 1 ELSE pos[j]
        BY <1>1, <3>5
      <4>7. QED
        BY <1>0, <2>2, <3>1, <4>1, <4>2, <4>3, <4>5, <4>6
    <3>6. QED
      BY <3>2, <3>3, <3>4, <3>5
  <2>5. ASSUME NEW j \in Idx
        PROVE  q[pre'[j]] = IF q[j] = 0 THEN BlockNum - 1 ELSE q[j] - 1
    <3>1. /\ pre[j] \in Idx /\ nxt[i] \in Idx /\ pre[i] \in Idx
          /\ pos[j] \in 0 .. BlockNum - 1 /\ pos[i] \in 0 .. BlockNum - 1
      BY <1>0
    <3>2. CASE j = lhead
      BY <1>0, <2>2, <2>3, <3>2
    <3>3. CASE j = i
      BY <1>0, <1>9, <2>2, <2>3, <3>3
    <3>4. CASE j # i /\ j # lhead /\ j = nxt[i]
      <4>1. pre'[j] = pre[i]
        BY <2>2, <3>4
      <4>2. q[j] = pos[i]
        <5>1. j # i /\ pos[j] > pos[i]
          BY <2>2, <3>1, <3>4
        <5>2. q[j] = pos[j] - 1
          BY <1>1, <5>1
        <5>3. QED
          BY <2>2, <3>1, <3>4, <5>2
      <4>3. q[pre[i]] = pos[i] - 1
        <5>1. pre[i] # i /\ ~ pos[pre[i]] > pos[i]
          BY <2>2, <3>1
        <5>2. q[pre[i]] = pos[pre[i]]
          BY <1>1, <3>1, <5>1
        <5>3. QED
          BY <2>2, <5>2
      <4>4. QED
        BY <2>2, <3>1, <4>1, <4>2, <4>3, <1>0
    <3>5. CASE j # i /\ j # lhead /\ j # nxt[i]
      <4>1. pre'[j] = pre[j]
        BY <2>2, <3>5
      <4>2. pos[j] # 0 /\ pos[pre[j]] = pos[j] - 1
        BY <1>0, <1>6, <3>5
      <4>3. pos[j] # pos[i] + 1 /\ pos[j] # pos[i]
        BY <1>0, <2>2, <3>1, <3>5
      <4>4. pre[j] # i
        BY <4>2, <4>3, <3>1
      <4>5. q[pre[j]] = IF pos[j] - 1 > pos[i] THEN pos[j] - 2 ELSE pos[j] - 1
        BY <1>1, <3>1, <4>2, <4>4
      <4>6. q[j] = IF pos[j] > pos[i] THEN pos[j] - 1 ELSE pos[j]
        BY <1>1, <3>5
      <4>7. QED
        BY <1>0, <2>2, <3>1, <4>1, <4>2, <4>3, <4>5, <4>6
    <3>6. QED
      BY <3>2, <3>3, <3>4, <3>5
  <2>6. ListTyped'
    BY <1>0, <2>1, <2>2 DEF ListTyped
  <2>7. QED
    BY <1>4, <1>5, <2>1, <2>3, <2>4, <2>5, <2>6 DEF Numbers, q
<1>10. QED
  BY <1>7, <1>8, <1>9
\* A block that MoveLRUHead moves gets the first number (shmcache.cpp:323-345).
LEMMA HeadNumbers ==
  ASSUME NEW i \in Idx, NEW pos, ListTyped, Numbers(pos), MoveLRUHead(i),
         ShmCacheAssumption
  PROVE  ListTyped' /\ Numbers(ToHead(pos, i))'
<1> DEFINE q == ToHead(pos, i)
<1>0. /\ BlockNum \in Nat \ {0} /\ pos \in [Idx -> 0 .. BlockNum - 1]
      /\ \A j, k \in Idx : pos[j] = pos[k] => j = k
      /\ pos[lhead] = 0 /\ pos[ltail] = BlockNum - 1
      /\ lhead \in Idx /\ ltail \in Idx
      /\ pre \in [Idx -> Idx] /\ nxt \in [Idx -> Idx]
  BY DEF Numbers, ListTyped, ShmCacheAssumption
<1>1. /\ q \in [Idx -> Int]
      /\ \A j \in Idx : q[j] = IF j = i THEN 0
                               ELSE IF pos[j] < pos[i] THEN pos[j] + 1 ELSE pos[j]
  BY <1>0 DEF ToHead
<1> HIDE DEF q
<1>2. \A j \in Idx : j # i => pos[j] # pos[i]
  BY <1>0
<1>3. \A j \in Idx : q[j] \in 0 .. BlockNum - 1
  BY <1>0, <1>1, <1>2
<1>4. \A j, k \in Idx : q[j] = q[k] => j = k
  BY <1>0, <1>1, <1>2
<1>5. q \in [Idx -> 0 .. BlockNum - 1]
  BY <1>1, <1>3
<1>6. /\ \A j \in Idx : pos[nxt[j]] = IF pos[j] = BlockNum - 1 THEN 0 ELSE pos[j] + 1
      /\ \A j \in Idx : pos[pre[j]] = IF pos[j] = 0 THEN BlockNum - 1 ELSE pos[j] - 1
  BY DEF Numbers
<1>7. CASE lhead = i
  <2>1. UNCHANGED <<pre, nxt, lhead, ltail>>
    BY <1>7 DEF MoveLRUHead, lru
  <2>2. \A j \in Idx : q[j] = pos[j]
    <3> SUFFICES ASSUME NEW j \in Idx PROVE q[j] = pos[j]
      OBVIOUS
    <3>1. pos[j] \in Nat /\ pos[i] = 0
      BY <1>0, <1>7
    <3>2. QED
      BY <1>1, <3>1
  <2>3. QED
    BY <1>0, <1>4, <1>5, <1>6, <2>1, <2>2 DEF Numbers, ListTyped, q
<1>8. CASE lhead # i /\ ltail = i
  <2>1. lhead' = i /\ ltail' = pre[i] /\ pre' = pre /\ nxt' = nxt
    BY <1>8 DEF MoveLRUHead
  <2>2. pos[i] = BlockNum - 1 /\ pos[pre[i]] = BlockNum - 2 /\ BlockNum > 1
    BY <1>0, <1>6, <1>8
  <2>3. \A j \in Idx : q[j] = IF pos[j] = BlockNum - 1 THEN 0 ELSE pos[j] + 1
    BY <1>0, <1>1, <2>2
  <2>4. q[lhead'] = 0 /\ q[ltail'] = BlockNum - 1
    BY <1>0, <2>1, <2>2, <2>3
  <2>5. ASSUME NEW j \in Idx
        PROVE  q[nxt[j]] = IF q[j] = BlockNum - 1 THEN 0 ELSE q[j] + 1
    <3>1. nxt[j] \in Idx /\ pos[j] \in 0 .. BlockNum - 1 /\ pos[nxt[j]] \in 0 .. BlockNum - 1
      BY <1>0
    <3>2. q[nxt[j]] = IF pos[nxt[j]] = BlockNum - 1 THEN 0 ELSE pos[nxt[j]] + 1
      BY <2>3, <3>1
    <3>3. q[j] = IF pos[j] = BlockNum - 1 THEN 0 ELSE pos[j] + 1
      BY <2>3
    <3>4. pos[nxt[j]] = IF pos[j] = BlockNum - 1 THEN 0 ELSE pos[j] + 1
      BY <1>6
    <3>5. BlockNum \in Nat /\ BlockNum > 1
      BY <1>0, <2>2
    <3>6. QED
      BY ONLY <3>1, <3>2, <3>3, <3>4, <3>5
  <2>6. ASSUME NEW j \in Idx
        PROVE  q[pre[j]] = IF q[j] = 0 THEN BlockNum - 1 ELSE q[j] - 1
    <3>1. pre[j] \in Idx /\ pos[j] \in 0 .. BlockNum - 1 /\ pos[pre[j]] \in 0 .. BlockNum - 1
      BY <1>0
    <3>2. q[pre[j]] = IF pos[pre[j]] = BlockNum - 1 THEN 0 ELSE pos[pre[j]] + 1
      BY <2>3, <3>1
    <3>3. q[j] = IF pos[j] = BlockNum - 1 THEN 0 ELSE pos[j] + 1
      BY <2>3
    <3>4. pos[pre[j]] = IF pos[j] = 0 THEN BlockNum - 1 ELSE pos[j] - 1
      BY <1>6
    <3>5. BlockNum \in Nat /\ BlockNum > 1
      BY <1>0, <2>2
    <3>6. QED
      BY ONLY <3>1, <3>2, <3>3, <3>4, <3>5
  <2>7. ListTyped'
    BY <1>0, <2>1 DEF ListTyped
  <2>8. QED
    BY <1>4, <1>5, <2>1, <2>4, <2>5, <2>6, <2>7 DEF Numbers, q
<1>9. CASE lhead # i /\ ltail # i
  <2>1. Relink(i) /\ lhead' = i /\ ltail' = ltail
    BY <1>9 DEF MoveLRUHead
  <2>2. /\ nxt' \in [Idx -> Idx] /\ pre' \in [Idx -> Idx]
        /\ \A j \in Idx : nxt'[j] = IF j = ltail THEN i ELSE IF j = i THEN lhead
                                     ELSE IF j = pre[i] THEN nxt[i] ELSE nxt[j]
        /\ \A j \in Idx : pre'[j] = IF j = lhead THEN i ELSE IF j = i THEN ltail
                                     ELSE IF j = nxt[i] THEN pre[i] ELSE pre[j]
        /\ pos[i] > 0 /\ pos[i] < BlockNum - 1
        /\ pos[pre[i]] = pos[i] - 1 /\ pos[nxt[i]] = pos[i] + 1
    BY <1>9, <2>1, Relinked
  <2>3. q[lhead] = 1 /\ q[i] = 0 /\ q[ltail] = BlockNum - 1
    BY <1>0, <1>1, <1>9, <2>2
  <2>4. ASSUME NEW j \in Idx
        PROVE  q[nxt'[j]] = IF q[j] = BlockNum - 1 THEN 0 ELSE q[j] + 1
    <3>1. /\ nxt[j] \in Idx /\ nxt[i] \in Idx /\ pre[i] \in Idx
          /\ pos[j] \in 0 .. BlockNum - 1 /\ pos[i] \in 0 .. BlockNum - 1
      BY <1>0
    <3>2. CASE j = ltail
      BY <1>0, <2>2, <2>3, <3>2
    <3>3. CASE j = i
      <4>1. nxt'[j] = lhead /\ q[j] = 0 /\ BlockNum - 1 > 0
        BY <1>9, <2>2, <2>3, <3>1, <3>3
      <4>2. QED
        BY <2>3, <4>1
    <3>4. CASE j # i /\ j # ltail /\ j = pre[i]
      <4>1. nxt'[j] = nxt[i]
        BY <2>2, <3>4
      <4>2. q[j] = pos[i]
        <5>1. j # i /\ pos[j] < pos[i]
          BY <2>2, <3>1, <3>4
        <5>2. q[j] = pos[j] + 1
          BY <1>1, <5>1
        <5>3. QED
          BY <2>2, <3>1, <3>4, <5>2
      <4>3. q[nxt[i]] = pos[i] + 1
        <5>1. nxt[i] # i /\ ~ pos[nxt[i]] < pos[i]
          BY <2>2, <3>1
        <5>2. q[nxt[i]] = pos[nxt[i]]
          BY <1>1, <3>1, <5>1
        <5>3. QED
          BY <2>2, <5>2
      <4>4. QED
        BY <2>2, <3>1, <4>1, <4>2, <4>3, <1>0
    <3>5. CASE j # i /\ j # ltail /\ j # pre[i]
      <4>1. nxt'[j] = nxt[j]
        BY <2>2, <3>5
      <4>2. pos[j] # BlockNum - 1 /\ pos[nxt[j]] = pos[j] + 1
        BY <1>0, <1>6, <3>5
      <4>3. pos[j] # pos[i] - 1 /\ pos[j] # pos[i]
        BY <1>0, <2>2, <3>1, <3>5
      <4>4. nxt[j] # i
        BY <4>2, <4>3, <3>1
      <4>5. q[nxt[j]] = IF pos[j] + 1 < pos[i] THEN pos[j] + 2 ELSE pos[j] + 1
        BY <1>1, <3>1, <4>2, <4>4
      <4>6. q[j] = IF pos[j] < pos[i] THEN pos[j] + 1 ELSE pos[j]
        BY <1>1, <3>5
      <4>7. QED
        BY <1>0, <2>2, <3>1, <4>1, <4>2, <4>3, <4>5, <4>6
    <3>6. QED
      BY <3>2, <3>3, <3>4, <3>5
  <2>5. ASSUME NEW j \in Idx
        PROVE  q[pre'[j]] = IF q[j] = 0 THEN BlockNum - 1 ELSE q[j] - 1
    <3>1. /\ pre[j] \in Idx /\ nxt[i] \in Idx /\ pre[i] \in Idx
          /\ pos[j] \in 0 .. BlockNum - 1 /\ pos[i] \in 0 .. BlockNum - 1
      BY <1>0
    <3>2. CASE j = lhead
      <4>1. pre'[j] = i
        BY <2>2, <3>2
      <4>2. QED
        BY <2>3, <3>2, <4>1
    <3>3. CASE j = i
      BY <1>0, <1>9, <2>2, <2>3, <3>3
    <3>4. CASE j # i /\ j # lhead /\ j = nxt[i]
      <4>1. pre'[j] = pre[i]
        BY <2>2, <3>4
      <4>2. q[j] = pos[i] + 1
        <5>1. j # i /\ ~ pos[j] < pos[i]
          BY <2>2, <3>1, <3>4
        <5>2. q[j] = pos[j]
          BY <1>1, <5>1
        <5>3. QED
          BY <2>2, <3>4, <5>2
      <4>3. q[pre[i]] = pos[i]
        <5>1. pre[i] # i /\ pos[pre[i]] < pos[i]
          BY <2>2, <3>1
        <5>2. q[pre[i]] = pos[pre[i]] + 1
          BY <1>1, <3>1, <5>1
        <5>3. QED
          BY <2>2, <3>1, <5>2
      <4>4. QED
        BY <2>2, <3>1, <4>1, <4>2, <4>3, <1>0
    <3>5. CASE j # i /\ j # lhead /\ j # nxt[i]
      <4>1. pre'[j] = pre[j]
        BY <2>2, <3>5
      <4>2. pos[j] # 0 /\ pos[pre[j]] = pos[j] - 1
        BY <1>0, <1>6, <3>5
      <4>3. pos[j] # pos[i] + 1 /\ pos[j] # pos[i]
        BY <1>0, <2>2, <3>1, <3>5
      <4>4. pre[j] # i
        BY <4>2, <4>3, <3>1
      <4>5. q[pre[j]] = IF pos[j] - 1 < pos[i] THEN pos[j] ELSE pos[j] - 1
        BY <1>1, <3>1, <4>2, <4>4
      <4>6. q[j] = IF pos[j] < pos[i] THEN pos[j] + 1 ELSE pos[j]
        BY <1>1, <3>5
      <4>7. QED
        BY <1>0, <2>2, <3>1, <4>1, <4>2, <4>3, <4>5, <4>6
    <3>6. QED
      BY <3>2, <3>3, <3>4, <3>5
  <2>6. ListTyped'
    BY <1>0, <2>1, <2>2 DEF ListTyped
  <2>7. QED
    BY <1>4, <1>5, <2>1, <2>3, <2>4, <2>5, <2>6 DEF Numbers, q
<1>10. QED
  BY <1>7, <1>8, <1>9

\* What the walk from head to tail meets: every block, at its number.
LEMMA RingWalk ==
  ASSUME NEW pos, ListTyped, Numbers(pos), ShmCacheAssumption
  PROVE  \A n \in 1 .. BlockNum : LruOrder[n] \in Idx /\ pos[LruOrder[n]] = n - 1
<1> DEFINE Next1(at) == [n \in 1 .. BlockNum |-> IF n = 1 THEN lhead ELSE nxt[at[n-1]]]
<1>0. BlockNum \in Nat \ {0} /\ pos \in [Idx -> 0 .. BlockNum - 1]
  BY DEF Numbers, ShmCacheAssumption
<1>a. /\ lhead \in Idx /\ pos[lhead] = 0
      /\ \A j \in Idx : nxt[j] \in Idx /\ pos[j] \in 0 .. BlockNum - 1
  BY DEF Numbers, ListTyped
<1>b. \A j \in Idx : pos[j] # BlockNum - 1 => pos[nxt[j]] = pos[j] + 1
  BY DEF Numbers
<1>c. \A i, j \in Idx : pos[i] = pos[j] => i = j
  BY DEF Numbers
<1>1. \A n \in 0 .. BlockNum - 1 : \E j \in Idx : pos[j] = n
  <2> DEFINE T == {n \in Nat : n < BlockNum => \E j \in Idx : pos[j] = n}
  <2>1. 0 \in T
    BY <1>a
  <2>2. ASSUME NEW n \in T PROVE n + 1 \in T
    <3>1. CASE n + 1 < BlockNum
      <4>1. PICK j \in Idx : pos[j] = n
        BY <1>0, <3>1
      <4>2. nxt[j] \in Idx /\ pos[nxt[j]] = n + 1
        BY <1>0, <1>a, <1>b, <3>1, <4>1
      <4>3. QED
        BY <4>2
    <3>2. QED
      BY <1>0, <3>1
  <2>3. T \in SUBSET Nat
    OBVIOUS
  <2> HIDE DEF T
  <2>4. T = Nat
    BY <2>1, <2>2, <2>3, FromZero
  <2>5. SUFFICES ASSUME NEW n \in 0 .. BlockNum - 1 PROVE \E j \in Idx : pos[j] = n
    OBVIOUS
  <2>6. n \in Nat /\ n < BlockNum
    BY <1>0
  <2>7. n \in T
    BY <2>4, <2>6
  <2>8. QED
    BY <2>6, <2>7 DEF T
<1> DEFINE f == [n \in 1 .. BlockNum |-> CHOOSE j \in Idx : pos[j] = n - 1]
<1>2. \A n \in 1 .. BlockNum : f[n] \in Idx /\ pos[f[n]] = n - 1
  <2> SUFFICES ASSUME NEW n \in 1 .. BlockNum PROVE f[n] \in Idx /\ pos[f[n]] = n - 1
    OBVIOUS
  <2>1. n - 1 \in 0 .. BlockNum - 1
    BY <1>0
  <2>2. QED
    BY <1>1, <2>1
<1>3. f = Next1(f)
  <2>1. ASSUME NEW n \in 1 .. BlockNum
        PROVE  f[n] = IF n = 1 THEN lhead ELSE nxt[f[n-1]]
    <3>0. f[n] \in Idx /\ pos[f[n]] = n - 1
      BY <1>2
    <3> HIDE DEF f
    <3>1. CASE n = 1
      BY <1>a, <1>c, <3>0, <3>1
    <3>2. CASE n # 1
      <4>1. n - 1 \in 1 .. BlockNum
        BY <1>0, <3>2
      <4>2. f[n-1] \in Idx /\ pos[f[n-1]] = n - 2
        BY <1>2, <4>1
      <4>3. nxt[f[n-1]] \in Idx /\ pos[nxt[f[n-1]]] = n - 1
        <5>1. n - 2 # BlockNum - 1 /\ n - 2 + 1 = n - 1
          BY <1>0
        <5>2. QED
          BY <1>a, <1>b, <4>2, <5>1
      <4>4. QED
        BY <1>c, <3>0, <3>2, <4>3
    <3>3. QED
      BY <3>1, <3>2
  <2>2. f = [n \in 1 .. BlockNum |-> f[n]]
    OBVIOUS
  <2> HIDE DEF f
  <2>3. QED
    BY <2>1, <2>2, Zenon
<1>4. LruOrder = CHOOSE at : at = Next1(at)
  BY DEF LruOrder
<1>5. LruOrder = Next1(LruOrder)
  <2> DEFINE P(at) == at = Next1(at)
  <2>1. P(f)
    BY <1>3
  <2>2. P(CHOOSE at : P(at))
    BY <2>1, Zenon
  <2>3. QED
    BY <1>4, <2>2, SMTT(30)
<1> HIDE DEF f
<1>6. ASSUME NEW n \in 1 .. BlockNum
      PROVE  LruOrder[n] = IF n = 1 THEN lhead ELSE nxt[LruOrder[n-1]]
  BY <1>5
<1> HIDE DEF Next1
<1>7. QED
  <2> DEFINE T == {n \in Nat : n < BlockNum => LruOrder[n+1] \in Idx
                                               /\ pos[LruOrder[n+1]] = n}
  <2>1. 0 \in T
    <3>1. 0 + 1 \in 1 .. BlockNum /\ 0 + 1 = 1
      BY <1>0
    <3>2. QED
      BY <1>6, <1>a, <3>1
  <2>2. ASSUME NEW n \in T PROVE n + 1 \in T
    <3>1. CASE n + 1 < BlockNum
      <4>1. LruOrder[n+1] \in Idx /\ pos[LruOrder[n+1]] = n
        BY <1>0, <3>1
      <4>2. LruOrder[n+2] = nxt[LruOrder[n+1]]
        <5>1. n + 2 \in 1 .. BlockNum /\ n + 2 # 1 /\ n + 2 - 1 = n + 1
          BY <1>0, <3>1
        <5>2. QED
          BY <1>6, <5>1
      <4>3. nxt[LruOrder[n+1]] \in Idx /\ pos[nxt[LruOrder[n+1]]] = n + 1
        <5>1. n # BlockNum - 1
          BY <1>0, <3>1
        <5>2. QED
          BY <1>a, <1>b, <4>1, <5>1
      <4>4. n + 1 + 1 = n + 2
        OBVIOUS
      <4>5. QED
        BY <4>2, <4>3, <4>4
    <3>2. QED
      BY <1>0, <3>1
  <2>3. T \in SUBSET Nat
    OBVIOUS
  <2> HIDE DEF T
  <2>4. T = Nat
    BY <2>1, <2>2, <2>3, FromZero
  <2> USE DEF T
  <2>5. SUFFICES ASSUME NEW n \in 1 .. BlockNum
                 PROVE  LruOrder[n] \in Idx /\ pos[LruOrder[n]] = n - 1
    OBVIOUS
  <2>6. n - 1 \in Nat /\ n - 1 < BlockNum /\ n - 1 + 1 = n
    BY <1>0
  <2>7. n - 1 \in T
    BY <2>4, <2>6
  <2>8. QED
    BY <2>6, <2>7

\* From the numbers to what the runs check.
LEMMA RingSoundly ==
  ASSUME Typed, Ring, ShmCacheAssumption
  PROVE  LruRing /\ FreeFirst
<1>1. PICK pos : Numbers(pos) /\ Filling(pos)
  BY DEF Ring
<1>2. ListTyped
  BY DEF Typed, ListTyped
<1>3. \A n \in 1 .. BlockNum : LruOrder[n] \in Idx /\ pos[LruOrder[n]] = n - 1
  BY <1>1, <1>2, RingWalk
<1>4. BlockNum \in Nat \ {0} /\ pos \in [Idx -> 0 .. BlockNum - 1]
  BY <1>1 DEF Numbers, ShmCacheAssumption
<1>5. \A i \in Idx : nxt[pre[i]] = i /\ pre[nxt[i]] = i
  <2> SUFFICES ASSUME NEW i \in Idx PROVE nxt[pre[i]] = i /\ pre[nxt[i]] = i
    OBVIOUS
  <2>1. /\ pre[i] \in Idx /\ nxt[i] \in Idx /\ pos[i] \in 0 .. BlockNum - 1
        /\ nxt[pre[i]] \in Idx /\ pre[nxt[i]] \in Idx
    BY <1>2, <1>4 DEF ListTyped
  <2>2. pos[nxt[pre[i]]] = pos[i] /\ pos[pre[nxt[i]]] = pos[i]
    <3>1. pos[pre[i]] = IF pos[i] = 0 THEN BlockNum - 1 ELSE pos[i] - 1
      BY <1>1 DEF Numbers
    <3>2. pos[nxt[i]] = IF pos[i] = BlockNum - 1 THEN 0 ELSE pos[i] + 1
      BY <1>1 DEF Numbers
    <3>3. pos[nxt[pre[i]]] = IF pos[pre[i]] = BlockNum - 1 THEN 0 ELSE pos[pre[i]] + 1
      BY <1>1, <2>1 DEF Numbers
    <3>4. pos[pre[nxt[i]]] = IF pos[nxt[i]] = 0 THEN BlockNum - 1 ELSE pos[nxt[i]] - 1
      BY <1>1, <2>1 DEF Numbers
    <3>5. QED
      BY ONLY <1>4, <2>1, <3>1, <3>2, <3>3, <3>4
  <2>3. QED
    BY <1>1, <2>1, <2>2 DEF Numbers
<1>6. nxt[ltail] = lhead
  <2>1. pos[nxt[ltail]] = 0
    BY <1>1, <1>2 DEF Numbers, ListTyped
  <2>2. QED
    BY <1>1, <1>2, <2>1 DEF Numbers, ListTyped
<1>7. \A i \in Idx : pos[i] + 1 \in 1 .. BlockNum /\ LruOrder[pos[i] + 1] = i
  <2> SUFFICES ASSUME NEW i \in Idx
               PROVE  pos[i] + 1 \in 1 .. BlockNum /\ LruOrder[pos[i] + 1] = i
    OBVIOUS
  <2>1. pos[i] + 1 \in 1 .. BlockNum /\ pos[i] + 1 - 1 = pos[i]
    BY <1>4
  <2>2. LruOrder[pos[i] + 1] \in Idx /\ pos[LruOrder[pos[i] + 1]] = pos[i]
    <3> DEFINE m == pos[i] + 1
    <3>1. m \in 1 .. BlockNum /\ m - 1 = pos[i]
      BY <1>4
    <3> HIDE DEF m
    <3>2. LruOrder[m] \in Idx /\ pos[LruOrder[m]] = pos[i]
      BY <1>3, <3>1
    <3>3. QED
      BY <3>2 DEF m
  <2>3. QED
    BY <1>1, <2>1, <2>2 DEF Numbers
<1>8. {LruOrder[n] : n \in 1 .. BlockNum} = Idx
  BY <1>3, <1>7
<1>9. LruRing
  BY <1>5, <1>6, <1>8 DEF LruRing
<1>10. FreeFirst
  <2> SUFFICES ASSUME NEW m \in 1 .. BlockNum, NEW n \in 1 .. BlockNum, m < n,
                      key[LruOrder[m]] # 0, key[LruOrder[n]] = 0
               PROVE  op.pc = "insert" /\ LruOrder[m] = op.idx
    BY DEF FreeFirst
  <2>1. pos[LruOrder[m]] < pos[LruOrder[n]]
    BY <1>3, <1>4
  <2>2. QED
    BY <1>1, <1>3, <2>1 DEF Filling
<1>11. QED
  BY <1>9, <1>10

-----------------------------------------------------------------------------
(* The chains *)

\* Every key has a bucket.
LEMMA Hashes ==
  ASSUME ShmCacheAssumption, NEW k \in Keys \cup {0}
  PROVE  Hash(k) \in 0 .. Buckets - 1
<1>1. k \in Nat /\ Buckets \in Nat /\ Buckets > 0
  BY DEF ShmCacheAssumption
<1>2. QED
  BY <1>1 DEF Hash

\* No block has the number that ends a chain.
LEMMA NilIsNone ==
  ASSUME ShmCacheAssumption
  PROVE  Nil \notin Idx
<1>1. BlockNum \in Nat
  BY DEF ShmCacheAssumption
<1>2. QED
  BY <1>1 DEF Idx, Nil

\* There are BlockNum blocks.
LEMMA BlocksFinite ==
  ASSUME ShmCacheAssumption
  PROVE  IsFiniteSet(Idx) /\ Cardinality(Idx) = BlockNum
<1>1. BlockNum \in Nat /\ BlockNum > 0
  BY DEF ShmCacheAssumption
<1>2. IsFiniteSet(0 .. BlockNum - 1)
      /\ Cardinality(0 .. BlockNum - 1)
           = IF 0 > BlockNum - 1 THEN 0 ELSE (BlockNum - 1) - 0 + 1
  BY <1>1, FS_Interval
<1>3. QED
  BY <1>1, <1>2 DEF Idx

\* The walk along a chain meets the blocks at their numbers.
LEMMA ChainWalk ==
  ASSUME NEW depth, Depths(depth), Typed, Counted, ShmCacheAssumption,
         NEW b \in 0 .. Buckets - 1
  PROVE  /\ DOMAIN Chain(b) \subseteq Int
         /\ \A n \in DOMAIN Chain(b) :
              /\ Chain(b)[n] \in Linked /\ Hash(key[Chain(b)[n]]) = b
              /\ depth[Chain(b)[n]] = n
         /\ \A i \in Linked : Hash(key[i]) = b =>
              depth[i] \in DOMAIN Chain(b) /\ Chain(b)[depth[i]] = i
<1> DEFINE M == BlockNum + 1
           Step1(at) == [n \in 1 .. M |->
                           IF n = 1 THEN hhead[b]
                           ELSE IF at[n-1] = Nil THEN Nil ELSE next[at[n-1]]]
           walk == CHOOSE at : at = Step1(at)
           In(i) == i \in Linked /\ Hash(key[i]) = b
           f == [n \in 1 .. M |-> IF \E i \in Idx : In(i) /\ depth[i] = n
                                  THEN CHOOSE i \in Idx : In(i) /\ depth[i] = n
                                  ELSE Nil]
<1>1. Chain(b) = [n \in {m \in 1 .. M : walk[m] # Nil} |-> walk[n]]
  BY DEF Chain
<1>2. /\ BlockNum \in Nat /\ M \in Nat /\ M > 1 /\ depth \in [Idx -> Nat]
      /\ next \in [Idx -> Links] /\ Linked \subseteq Idx
      /\ \A i \in Idx : i # Nil
  <2>1. BlockNum \in Nat /\ BlockNum > 0
    BY DEF ShmCacheAssumption
  <2>2. \A i \in Idx : i # Nil
    BY <2>1 DEF Idx, Nil
  <2>3. QED
    BY <2>1, <2>2 DEF Depths, Typed, Linked
<1>3. \A i, j \in Idx : In(i) /\ In(j) /\ depth[i] = depth[j] => i = j
  BY DEF Depths, Sorted
<1>4. /\ \A n \in 1 .. M : f[n] # Nil => f[n] \in Idx /\ In(f[n]) /\ depth[f[n]] = n
      /\ \A i \in Idx, n \in 1 .. M : In(i) /\ depth[i] = n => f[n] = i
  <2>1. ASSUME NEW n \in 1 .. M, f[n] # Nil
        PROVE  f[n] \in Idx /\ In(f[n]) /\ depth[f[n]] = n
    <3>1. \E i \in Idx : In(i) /\ depth[i] = n
      BY <2>1
    <3>2. f[n] = CHOOSE i \in Idx : In(i) /\ depth[i] = n
      BY <3>1
    <3> HIDE DEF f, In
    <3>3. QED
      BY <3>1, <3>2, Zenon
  <2>2. ASSUME NEW i \in Idx, NEW n \in 1 .. M, In(i), depth[i] = n
        PROVE  f[n] = i
    <3>1. f[n] = CHOOSE j \in Idx : In(j) /\ depth[j] = n
      BY <2>2
    <3> HIDE DEF f, In
    <3>2. f[n] \in Idx /\ In(f[n]) /\ depth[f[n]] = n
      BY <2>2, <3>1, Zenon
    <3>3. QED
      BY <1>3, <2>2, <3>2
  <2>3. QED
    BY <2>1, <2>2
<1>5. f = [n \in 1 .. M |-> f[n]]
  OBVIOUS
<1> HIDE DEF f
<1>6. ASSUME NEW n \in 1 .. M
      PROVE  f[n] = IF n = 1 THEN hhead[b]
                    ELSE IF f[n-1] = Nil THEN Nil ELSE next[f[n-1]]
  <2>1. CASE n = 1
    <3>1. CASE hhead[b] = Nil
      <4>1. \A i \in Idx : ~ In(i)
        BY <3>1 DEF Depths, Firsts
      <4>2. f[n] = Nil
        BY <1>4, <4>1
      <4>3. QED
        BY <2>1, <3>1, <4>2
    <3>2. CASE hhead[b] # Nil
      <4>1. hhead[b] \in Idx /\ In(hhead[b]) /\ depth[hhead[b]] = n
        BY <1>2, <2>1, <3>2 DEF Depths, Heads
      <4>2. QED
        BY <1>4, <2>1, <4>1
    <3>3. QED
      BY <3>1, <3>2
  <2>2. CASE n # 1
    <3>0. n - 1 \in 1 .. M /\ n > 1 /\ n - 1 + 1 = n
      BY <1>2, <2>2
    <3>1. CASE f[n-1] = Nil
      <4>1. ASSUME f[n] # Nil PROVE FALSE
        <5>1. f[n] \in Idx /\ In(f[n]) /\ depth[f[n]] = n
          BY <1>4, <4>1
        <5>2. PICK j \in Linked : next[j] = f[n]
          BY <3>0, <5>1 DEF Depths, Reached
        <5>3. Hash(key[j]) = b /\ depth[f[n]] = depth[j] + 1
          BY <4>1, <5>1, <5>2 DEF Depths, Follows
        <5>4. j \in Idx /\ In(j) /\ depth[j] = n - 1
          BY <1>2, <3>0, <5>1, <5>2, <5>3
        <5>5. f[n-1] = j
          BY <1>4, <3>0, <5>4
        <5>6. QED
          BY <1>2, <3>1, <5>4, <5>5
      <4>2. QED
        BY <2>2, <3>1, <4>1
    <3>2. CASE f[n-1] # Nil
      <4>1. f[n-1] \in Idx /\ In(f[n-1]) /\ depth[f[n-1]] = n - 1
        BY <1>4, <3>0, <3>2
      <4>2. CASE next[f[n-1]] = Nil
        <5>1. ASSUME f[n] # Nil PROVE FALSE
          <6>1. In(f[n]) /\ depth[f[n]] = n
            BY <1>4, <5>1
          <6>2. depth[f[n-1]] < depth[f[n]]
            BY <3>0, <4>1, <6>1
          <6>3. QED
            BY <4>1, <4>2, <6>1, <6>2 DEF Depths, Sorted
        <5>2. QED
          BY <2>2, <3>2, <4>2, <5>1
      <4>3. CASE next[f[n-1]] # Nil
        <5>1. next[f[n-1]] \in Linked /\ Hash(key[next[f[n-1]]]) = b
              /\ depth[next[f[n-1]]] = n
          BY <3>0, <4>1, <4>3 DEF Depths, Follows
        <5>2. f[n] = next[f[n-1]]
          BY <1>2, <1>4, <5>1
        <5>3. QED
          BY <2>2, <3>2, <5>2
      <4>4. QED
        BY <4>2, <4>3
    <3>3. QED
      BY <3>1, <3>2
  <2>3. QED
    BY <2>1, <2>2
<1>7. walk = Step1(walk)
  <2> DEFINE P(at) == at = Step1(at)
  <2>1. P(f)
    BY <1>5, <1>6, Zenon
  <2>2. P(CHOOSE at : P(at))
    BY <2>1, Zenon
  <2>3. QED
    BY <2>2
<1>8. ASSUME NEW n \in 1 .. M
      PROVE  walk[n] = IF n = 1 THEN hhead[b]
                       ELSE IF walk[n-1] = Nil THEN Nil ELSE next[walk[n-1]]
  BY <1>7
<1> HIDE DEF walk, Step1
<1>9. \A n \in 1 .. M : walk[n] = f[n]
  <2> DEFINE T == {n \in Nat : n < M => walk[n+1] = f[n+1]}
  <2>1. 0 \in T
    <3>1. 0 + 1 \in 1 .. M /\ 0 + 1 = 1
      BY <1>2
    <3>2. QED
      BY <1>6, <1>8, <3>1
  <2>2. ASSUME NEW n \in T PROVE n + 1 \in T
    <3>1. CASE n + 1 < M
      <4>1. walk[n+1] = f[n+1]
        BY <1>2, <3>1
      <4>2. n + 2 \in 1 .. M /\ n + 2 # 1 /\ n + 2 - 1 = n + 1 /\ n + 1 + 1 = n + 2
        BY <1>2, <3>1
      <4>3. walk[n+2] = f[n+2]
        BY <1>6, <1>8, <4>1, <4>2
      <4>4. QED
        BY <4>2, <4>3
    <3>2. QED
      BY <1>2, <3>1
  <2>3. T \in SUBSET Nat
    OBVIOUS
  <2> HIDE DEF T
  <2>4. T = Nat
    BY <2>1, <2>2, <2>3, FromZero
  <2>5. SUFFICES ASSUME NEW n \in 1 .. M PROVE walk[n] = f[n]
    OBVIOUS
  <2>6. n - 1 \in Nat /\ n - 1 < M /\ n - 1 + 1 = n
    BY <1>2
  <2>7. n - 1 \in T
    BY <2>4, <2>6
  <2>8. QED
    BY <2>6, <2>7 DEF T
<1>10. DOMAIN Chain(b) \subseteq Int
  BY <1>1, <1>2
<1>11. ASSUME NEW n \in DOMAIN Chain(b)
       PROVE  Chain(b)[n] \in Linked /\ Hash(key[Chain(b)[n]]) = b
              /\ depth[Chain(b)[n]] = n
  <2>1. n \in 1 .. M /\ walk[n] # Nil /\ Chain(b)[n] = walk[n]
    BY <1>1, <1>11
  <2>2. QED
    BY <1>4, <1>9, <2>1
<1>12. ASSUME NEW i \in Linked, Hash(key[i]) = b
       PROVE  depth[i] \in DOMAIN Chain(b) /\ Chain(b)[depth[i]] = i
  <2>1. depth[i] <= hlen[b] /\ depth[i] >= 1
    BY <1>12 DEF Depths, Within, Firsts
  <2>2. hlen[b] <= BlockNum /\ hlen[b] \in Nat
    <3>1. IsFiniteSet(Idx) /\ Cardinality(Idx) = BlockNum
      BY BlocksFinite
    <3>2. Here(b) \in SUBSET Idx
      BY DEF Here
    <3>3. Cardinality(Here(b)) <= BlockNum /\ Cardinality(Here(b)) \in Nat
      BY <3>1, <3>2, FS_Subset, FS_CardinalityType
    <3>4. QED
      BY <3>3 DEF Counted
  <2>3. depth[i] \in 1 .. M
    BY <1>2, <2>1, <2>2
  <2>4. walk[depth[i]] = i
    BY <1>2, <1>4, <1>9, <1>12, <2>3
  <2>5. QED
    BY <1>1, <1>2, <2>3, <2>4
<1>13. QED
  BY <1>10, <1>11, <1>12


\* From the numbers to what the runs check.
LEMMA ChainsSoundly ==
  ASSUME Typed, Called, Chains, Counted, ShmCacheAssumption
  PROVE  ChainsSound
<1>1. PICK depth : Depths(depth)
  BY DEF Chains
<1> SUFFICES ASSUME NEW b \in 0 .. Buckets - 1
             PROVE  LET c       == Chain(b)
                        pending == IF op.pc = "insert" THEN {op.idx} ELSE {}
                        here    == {i \in Idx : key[i] # 0 /\ Hash(key[i]) = b}
                    IN  /\ {c[n] : n \in DOMAIN c} = here \ pending
                        /\ \A m, n \in DOMAIN c :
                             m < n => c[m] # c[n] /\ key[c[m]] <= key[c[n]]
                        /\ hlen[b] = Cardinality(here)
  BY Zenon DEF ChainsSound
<1> DEFINE c == Chain(b)
           pending == IF op.pc = "insert" THEN {op.idx} ELSE {}
<1>2. /\ DOMAIN c \subseteq Int
      /\ \A n \in DOMAIN c : c[n] \in Linked /\ Hash(key[c[n]]) = b /\ depth[c[n]] = n
      /\ \A i \in Linked : Hash(key[i]) = b => depth[i] \in DOMAIN c /\ c[depth[i]] = i
  BY <1>1, ChainWalk, Zenon
<1> HIDE DEF c
<1>3. Here(b) \ pending = {i \in Linked : Hash(key[i]) = b}
  BY DEF Here, Linked
<1>4. {c[n] : n \in DOMAIN c} = {i \in Linked : Hash(key[i]) = b}
  BY <1>2
<1>5. ASSUME NEW m \in DOMAIN c, NEW n \in DOMAIN c, m < n
      PROVE  c[m] # c[n] /\ key[c[m]] <= key[c[n]]
  <2>1. depth[c[m]] < depth[c[n]] /\ depth[c[m]] # depth[c[n]]
    BY <1>2, <1>5
  <2>2. QED
    BY <1>1, <1>2, <2>1 DEF Depths, Sorted
<1>6. hlen[b] = Cardinality(Here(b))
  BY DEF Counted
<1>7. QED
  BY <1>3, <1>4, <1>5, <1>6 DEF c, Here

\* What the loops of DeleteHash and InsertHash stand on is on the chain.
LEMMA CursorLinked ==
  ASSUME NEW depth, Depths(depth), Typed, ShmCacheAssumption,
         NEW k \in Keys \cup {0}, Cursor(k)
  PROVE  /\ op.prev # Nil => op.prev \in Linked /\ Hash(key[op.prev]) = Hash(k)
         /\ op.cur # Nil => /\ op.cur \in Linked /\ Hash(key[op.cur]) = Hash(k)
                            /\ depth[op.cur] = IF op.prev = Nil THEN 1
                                               ELSE depth[op.prev] + 1
         /\ op.cur = Nil /\ op.prev = Nil => \A i \in Linked : Hash(key[i]) # Hash(k)
<1>1. Hash(k) \in 0 .. Buckets - 1
  BY Hashes
<1>2. CASE op.prev = Nil
  BY <1>1, <1>2 DEF Cursor, Depths, Heads, Firsts
<1>3. CASE op.prev # Nil
  BY <1>3 DEF Cursor, Depths, Follows
<1>4. QED
  BY <1>2, <1>3

-----------------------------------------------------------------------------
(* Taking a block off its chain *)

\* The blocks behind the one that DeleteHash takes off move up by one.
LEMMA DeleteKeepsChains ==
  ASSUME DeleteBlock, Typed, Chains, Walked, ShmCacheAssumption
  PROVE  Chains'
<1>1. PICK depth : Depths(depth)
  BY DEF Chains
<1>2. PICK c \in Idx : c = op.cur
  BY DEF Typed, Ops, Links, DeleteBlock
<1>3. PICK p \in Links : p = op.prev
  BY DEF Typed, Ops
<1>4. op.pc = "delete" /\ op.cur # Nil /\ key[c] = op.dkey /\ op.dkey \in Keys \cup {0}
  BY <1>2 DEF DeleteBlock, Typed, Ops
<1>5. PICK b \in 0 .. Buckets - 1 : b = Hash(key[c])
  BY <1>4, Hashes
<1>6. Cursor(op.dkey)
  BY <1>4 DEF Walked
<1>7. /\ c \in Linked
      /\ p # Nil => p \in Linked /\ Hash(key[p]) = b /\ next[p] = c
      /\ p = Nil => hhead[b] = c /\ depth[c] = 1
      /\ p # Nil => depth[c] = depth[p] + 1
  <2>1. /\ op.prev # Nil => op.prev \in Linked /\ Hash(key[op.prev]) = Hash(op.dkey)
        /\ op.cur # Nil => /\ op.cur \in Linked /\ Hash(key[op.cur]) = Hash(op.dkey)
                           /\ depth[op.cur] = IF op.prev = Nil THEN 1
                                              ELSE depth[op.prev] + 1
    BY <1>1, <1>4, <1>6, CursorLinked
  <2>2. QED
    BY <1>2, <1>3, <1>4, <1>5, <1>6, <2>1 DEF Cursor
<1>8. /\ depth \in [Idx -> Nat] /\ Linked \subseteq Idx /\ next \in [Idx -> Links]
      /\ hlen \in [0 .. Buckets - 1 -> Int]
      /\ hhead \in [0 .. Buckets - 1 -> Links] /\ key \in [Idx -> Keys \cup {0}]
  BY <1>1 DEF Depths, Linked, Typed
<1>9. \A i \in Idx : Hash(key[i]) \in 0 .. Buckets - 1
  BY <1>8, Hashes
<1>10. Linked' = Linked \ {c}
  <2>1. op'.pc = "delete"
    BY <1>4 DEF DeleteBlock, Typed, Ops
  <2>2. \A i \in Idx : key'[i] = IF i = c THEN 0 ELSE key[i]
    BY <1>2, <1>8 DEF DeleteBlock
  <2>3. QED
    BY <1>4, <2>1, <2>2 DEF Linked
<1>11. \A i \in Linked' : i \in Linked /\ i # c /\ i \in Idx /\ key'[i] = key[i]
  <2>1. \A i \in Idx : i # c => key'[i] = key[i]
    BY <1>2, <1>8 DEF DeleteBlock
  <2>2. QED
    BY <1>8, <1>10, <2>1
<1>12. \A i \in Linked' : next'[i] = IF i = p THEN next[c] ELSE next[i]
  <2>1. \A i \in Idx : i # c => next'[i] = IF i = p THEN next[c] ELSE next[i]
    <3>1. CASE p = Nil
      <4>1. next' = [next EXCEPT ![c] = Nil]
        BY <1>2, <1>3, <3>1 DEF DeleteBlock
      <4>2. QED
        BY <1>8, <3>1, <4>1, NilIsNone
    <3>2. CASE p # Nil
      <4>1. next' = [next EXCEPT ![p] = next[c], ![c] = Nil]
        BY <1>2, <1>3, <3>2 DEF DeleteBlock
      <4>2. QED
        BY <1>8, <4>1
    <3>3. QED
      BY <3>1, <3>2
  <2>2. QED
    BY <1>11, <2>1
<1>13. \A x \in 0 .. Buckets - 1 :
         /\ hhead'[x] = IF p = Nil /\ x = b THEN next[c] ELSE hhead[x]
         /\ hlen'[x] = IF x = b THEN hlen[x] - 1 ELSE hlen[x]
  BY <1>2, <1>3, <1>4, <1>5, <1>8 DEF DeleteBlock
<1>14. PICK e \in [Idx -> Nat] :
         \A j \in Idx : e[j] = IF Hash(key[j]) = b /\ depth[j] > depth[c]
                               THEN depth[j] - 1 ELSE depth[j]
  <2> DEFINE f == [j \in Idx |-> IF Hash(key[j]) = b /\ depth[j] > depth[c]
                                 THEN depth[j] - 1 ELSE depth[j]]
  <2>1. f \in [Idx -> Nat]
    BY <1>8
  <2>2. QED
    BY <2>1
<1>15. e \in [Idx -> Nat]
  BY <1>14
<1>16. next[c] # Nil => /\ next[c] \in Linked /\ next[c] # c /\ Hash(key[next[c]]) = b
                        /\ depth[next[c]] = depth[c] + 1
  BY <1>1, <1>5, <1>7, <1>8 DEF Depths, Follows
<1>17. \A i, j \in Linked : Hash(key[i]) = Hash(key[j]) =>
         /\ depth[i] = depth[j] => i = j
         /\ depth[i] < depth[j] => key[i] <= key[j] /\ next[i] # Nil
  BY <1>1 DEF Depths, Sorted
<1>18. \A i \in Linked : /\ depth[i] >= 1
                         /\ hhead[Hash(key[i])] # Nil
                         /\ depth[i] = 1 => hhead[Hash(key[i])] = i
  BY <1>1 DEF Depths, Firsts
<1>19. \A i \in Linked :
         next[i] # Nil => /\ next[i] \in Linked /\ Hash(key[next[i]]) = Hash(key[i])
                          /\ depth[next[i]] = depth[i] + 1
  BY <1>1 DEF Depths, Follows
<1>20. Heads(e)'
  <2> SUFFICES ASSUME NEW x \in 0 .. Buckets - 1, hhead'[x] # Nil
               PROVE  /\ hhead'[x] \in Linked' /\ Hash(key'[hhead'[x]]) = x
                      /\ e[hhead'[x]] = 1
    BY DEF Heads
  <2>1. CASE p = Nil /\ x = b
    <3>1. hhead'[x] = next[c] /\ next[c] # Nil
      BY <1>13, <2>1
    <3>2. next[c] \in Linked' /\ next[c] \in Idx /\ key'[next[c]] = key[next[c]]
      BY <1>8, <1>10, <1>11, <1>16, <3>1
    <3>3. e[next[c]] = depth[c]
      <4>1. depth[next[c]] = depth[c] + 1 /\ Hash(key[next[c]]) = b /\ depth[c] \in Nat
        BY <1>8, <1>16, <3>1
      <4>2. e[next[c]] = depth[next[c]] - 1
        BY <1>14, <3>2, <4>1
      <4>3. QED
        BY <4>1, <4>2
    <3>4. QED
      BY <1>7, <1>16, <2>1, <3>1, <3>2, <3>3
  <2>2. CASE ~ (p = Nil /\ x = b)
    <3>1. hhead[x] # Nil /\ hhead'[x] = hhead[x]
      BY <1>13, <2>2
    <3>2. hhead[x] \in Linked /\ Hash(key[hhead[x]]) = x /\ depth[hhead[x]] = 1
      BY <1>1, <3>1 DEF Depths, Heads
    <3>3. hhead[x] # c
      BY <1>5, <1>7, <1>8, <1>18, <2>2, <3>2
    <3>4. e[hhead[x]] = 1
      BY <1>7, <1>8, <1>14, <1>18, <3>2
    <3>5. QED
      BY <1>10, <1>11, <3>1, <3>2, <3>3, <3>4
  <2>3. QED
    BY <2>1, <2>2
<1>21. Firsts(e)'
  <2> SUFFICES ASSUME NEW i \in Linked'
               PROVE  /\ e[i] >= 1
                      /\ hhead'[Hash(key'[i])] # Nil
                      /\ e[i] = 1 => hhead'[Hash(key'[i])] = i
    BY DEF Firsts
  <2>1. i \in Linked /\ i # c /\ i \in Idx /\ key'[i] = key[i]
    BY <1>11
  <2>2. CASE Hash(key[i]) = b
    <3>1. depth[i] # depth[c]
      BY <1>5, <1>7, <1>17, <2>1, <2>2
    <3>2. CASE depth[i] < depth[c]
      <4>1. p # Nil /\ e[i] = depth[i]
        BY <1>7, <1>8, <1>14, <1>18, <2>1, <3>2
      <4>2. QED
        BY <1>9, <1>13, <1>18, <2>1, <4>1
    <3>3. CASE depth[i] > depth[c]
      <4>1. e[i] = depth[i] - 1 /\ next[c] # Nil /\ depth[c] >= 1
        BY <1>5, <1>7, <1>14, <1>17, <1>18, <2>1, <2>2, <3>3
      <4>2. e[i] >= 1
        BY <1>8, <2>1, <3>3, <4>1
      <4>3. hhead'[b] # Nil
        BY <1>7, <1>13, <1>18, <2>1, <2>2, <4>1
      <4>4. ASSUME e[i] = 1 PROVE hhead'[b] = i
        <5>1. depth[c] = 1 /\ depth[i] = 2
          BY <1>8, <2>1, <3>3, <4>1, <4>4
        <5>2. p = Nil
          BY <1>7, <1>8, <1>18, <5>1
        <5>3. next[c] = i
          BY <1>5, <1>7, <1>16, <1>17, <2>1, <2>2, <4>1, <5>1
        <5>4. QED
          BY <1>13, <5>2, <5>3
      <4>5. QED
        BY <2>1, <2>2, <4>2, <4>3, <4>4
    <3>4. QED
      BY <1>8, <2>1, <3>1, <3>2, <3>3
  <2>3. CASE Hash(key[i]) # b
    BY <1>9, <1>13, <1>14, <1>18, <2>1, <2>3
  <2>4. QED
    BY <2>2, <2>3
<1>22. Follows(e)'
  <2> SUFFICES ASSUME NEW i \in Linked', next'[i] # Nil
               PROVE  /\ next'[i] \in Linked' /\ Hash(key'[next'[i]]) = Hash(key'[i])
                      /\ e[next'[i]] = e[i] + 1
    BY DEF Follows
  <2>1. i \in Linked /\ i # c /\ i \in Idx /\ key'[i] = key[i]
    BY <1>11
  <2>2. CASE i = p
    <3>1. next'[i] = next[c] /\ p # Nil
      BY <1>8, <1>12, <2>2, <2>1 DEF Idx, Nil
    <3>2. next[c] \in Linked' /\ next[c] \in Idx /\ key'[next[c]] = key[next[c]]
      BY <1>8, <1>10, <1>11, <1>16, <3>1
    <3>3. e[next[c]] = depth[c] /\ e[i] = depth[p]
      <4>1. /\ depth[next[c]] = depth[c] + 1 /\ Hash(key[next[c]]) = b
            /\ depth[c] = depth[i] + 1 /\ depth[c] \in Nat /\ depth[i] \in Nat
        BY <1>7, <1>8, <1>16, <2>1, <2>2, <3>1
      <4>2. e[next[c]] = depth[next[c]] - 1
        BY <1>14, <3>2, <4>1
      <4>3. e[i] = depth[i]
        BY <1>14, <2>1, <4>1
      <4>4. QED
        BY <2>2, <4>1, <4>2, <4>3
    <3>4. QED
      BY <1>7, <1>8, <1>16, <2>1, <2>2, <3>1, <3>2, <3>3
  <2>3. CASE i # p
    <3>1. next'[i] = next[i] /\ next[i] # Nil
      BY <1>12, <2>3
    <3>2. /\ next[i] \in Linked /\ Hash(key[next[i]]) = Hash(key[i])
          /\ depth[next[i]] = depth[i] + 1
      BY <1>19, <2>1, <3>1
    <3>3. next[i] # c
      <4>1. ASSUME next[i] = c PROVE FALSE
        <5>1. Hash(key[i]) = b /\ depth[c] = depth[i] + 1 /\ depth[i] >= 1
          BY <1>5, <1>18, <2>1, <3>2, <4>1
        <5>2. p # Nil
          BY <1>7, <1>8, <2>1, <5>1
        <5>3. depth[p] = depth[i]
          BY <1>7, <1>8, <2>1, <5>1, <5>2
        <5>4. QED
          BY <1>7, <1>17, <2>1, <2>3, <5>1, <5>2, <5>3
      <4>2. QED
        BY <4>1
    <3>4. next[i] \in Linked' /\ next[i] \in Idx /\ key'[next[i]] = key[next[i]]
      BY <1>10, <1>11, <3>2, <3>3
    <3>5. e[next[i]] = e[i] + 1
      <4>1. Hash(key[i]) = b => depth[i] # depth[c]
        BY <1>5, <1>7, <1>17, <2>1
      <4>2. Hash(key[i]) = b => depth[next[i]] # depth[c]
        BY <1>5, <1>7, <1>17, <3>2, <3>3
      <4>3. QED
        BY <1>7, <1>8, <1>14, <2>1, <3>2, <3>4, <4>1, <4>2
    <3>6. QED
      BY <2>1, <3>1, <3>2, <3>4, <3>5
  <2>4. QED
    BY <2>2, <2>3
<1>23. Reached(e)'
  <2> SUFFICES ASSUME NEW i \in Linked', e[i] > 1
               PROVE  \E j \in Linked' : next'[j] = i
    BY DEF Reached
  <2>1. i \in Linked /\ i # c /\ i \in Idx /\ key'[i] = key[i]
    BY <1>11
  <2>2. depth[i] > 1
    <3>1. depth[i] \in Nat
      BY <1>8, <2>1
    <3>2. e[i] = depth[i] - 1 \/ e[i] = depth[i]
      BY <1>14, <2>1
    <3>3. QED
      BY <3>1, <3>2
  <2>3. PICK j \in Linked : next[j] = i
    BY <1>1, <2>1, <2>2 DEF Depths, Reached
  <2>4. CASE j = c
    <3>1. depth[i] = depth[c] + 1 /\ Hash(key[i]) = b
      <4>1. next[c] = i /\ next[c] # Nil
        BY <1>8, <2>1, <2>3, <2>4, NilIsNone
      <4>2. QED
        BY <1>16, <4>1
    <3>2. e[i] = depth[c] /\ depth[c] # 1
      <4>1. depth[c] \in Nat /\ depth[i] > depth[c]
        BY <1>8, <3>1
      <4>2. e[i] = depth[i] - 1
        BY <1>14, <2>1, <3>1, <4>1
      <4>3. QED
        BY <3>1, <4>1, <4>2
    <3>3. p # Nil /\ p \in Linked /\ p # c
      BY <1>7, <1>8, <3>2
    <3>4. p \in Linked' /\ next'[p] = i
      BY <1>10, <1>12, <2>3, <2>4, <3>3
    <3>5. QED
      BY <3>4
  <2>5. CASE j # c
    <3>1. j \in Linked' /\ (j = p => i = c)
      BY <1>7, <1>8, <1>10, <2>3, <2>5, NilIsNone
    <3>2. QED
      BY <1>12, <2>1, <2>3, <3>1
  <2>6. QED
    BY <2>4, <2>5
<1>24. Sorted(e)'
  <2> SUFFICES ASSUME NEW i \in Linked', NEW j \in Linked', Hash(key'[i]) = Hash(key'[j])
               PROVE  /\ e[i] = e[j] => i = j
                      /\ e[i] < e[j] => key'[i] <= key'[j] /\ next'[i] # Nil
    BY DEF Sorted
  <2>1. /\ i \in Linked /\ i # c /\ i \in Idx /\ key'[i] = key[i]
        /\ j \in Linked /\ j # c /\ j \in Idx /\ key'[j] = key[j]
    BY <1>11
  <2>2. Hash(key[i]) = b => depth[i] # depth[c] /\ depth[j] # depth[c]
    BY <1>5, <1>7, <1>17, <2>1
  <2>3. /\ e[i] = e[j] => depth[i] = depth[j]
        /\ e[i] < e[j] => depth[i] < depth[j]
    BY <1>7, <1>8, <1>14, <2>1, <2>2
  <2>4. e[i] = e[j] => i = j
    BY <1>17, <2>1, <2>3
  <2>5. ASSUME e[i] < e[j] PROVE key'[i] <= key'[j] /\ next'[i] # Nil
    <3>1. key[i] <= key[j] /\ next[i] # Nil
      BY <1>17, <2>1, <2>3, <2>5
    <3>2. CASE i = p
      <4>1. Hash(key[j]) = b /\ depth[j] > depth[p] /\ p # Nil
        <5>1. p # Nil
          BY <2>1, <3>2, NilIsNone
        <5>2. Hash(key[j]) = b
          BY <1>7, <2>1, <3>2, <5>1
        <5>3. depth[i] < depth[j] /\ depth[i] \in Nat /\ depth[j] \in Nat
          BY <1>8, <2>1, <2>3, <2>5
        <5>4. QED
          BY <3>2, <5>1, <5>2, <5>3
      <4>2. depth[j] > depth[c]
        BY <1>7, <1>8, <2>1, <2>2, <3>2, <4>1
      <4>3. next[c] # Nil
        BY <1>5, <1>7, <1>17, <2>1, <4>1, <4>2
      <4>4. QED
        BY <1>12, <2>1, <3>1, <3>2, <4>3
    <3>3. CASE i # p
      BY <1>12, <2>1, <3>1, <3>3
    <3>4. QED
      BY <3>2, <3>3
  <2>6. QED
    BY <2>4, <2>5
<1>25. Within(e)'
  <2>1. op'.pc = "delete"
    BY <1>4 DEF DeleteBlock, Typed, Ops
  <2> SUFFICES ASSUME NEW i \in Linked' PROVE e[i] <= hlen'[Hash(key'[i])]
    BY <2>1 DEF Within
  <2>2. i \in Linked /\ i # c /\ i \in Idx /\ key'[i] = key[i]
    BY <1>11
  <2>3. depth[i] <= hlen[Hash(key[i])] /\ depth[c] <= hlen[b]
    BY <1>1, <1>5, <1>7, <2>2 DEF Depths, Within
  <2>4. CASE Hash(key[i]) = b
    <3>1. hlen'[b] = hlen[b] - 1 /\ hlen[b] \in Int /\ depth[i] # depth[c]
      BY <1>5, <1>7, <1>8, <1>13, <1>17, <2>2, <2>4
    <3>2. QED
      <4>1. depth[i] \in Nat /\ depth[c] \in Nat /\ hlen'[Hash(key'[i])] = hlen[b] - 1
        BY <1>7, <1>8, <2>2, <2>4, <3>1
      <4>2. e[i] = IF depth[i] > depth[c] THEN depth[i] - 1 ELSE depth[i]
        BY <1>14, <2>2, <2>4
      <4>3. depth[i] <= hlen[b]
        BY <2>3, <2>4
      <4>4. QED
        BY ONLY <2>3, <3>1, <4>1, <4>2, <4>3
  <2>5. CASE Hash(key[i]) # b
    BY <1>9, <1>13, <1>14, <2>2, <2>3, <2>5
  <2>6. QED
    BY <2>4, <2>5
<1>26. QED
  <2>1. Depths(e)'
    BY <1>15, <1>20, <1>21, <1>22, <1>23, <1>24, <1>25 DEF Depths
  <2>2. QED
    BY <2>1 DEF Chains

-----------------------------------------------------------------------------
(* Putting a block on its chain *)

\* The blocks behind the place where InsertHash links move down by one.
LEMMA InsertKeepsChains ==
  ASSUME InsertLink, Typed, Called, Chains, Counted, Walked, ShmCacheAssumption
  PROVE  Chains'
<1>1. PICK depth : Depths(depth)
  BY DEF Chains
<1>2. PICK x \in Idx : x = op.idx
  BY DEF Typed, Ops
<1>3. PICK p \in Links, n \in Links : p = op.prev /\ n = op.cur
  BY DEF Typed, Ops
<1>4. /\ op.pc = "insert" /\ op.key \in Keys /\ key[x] = op.key
      /\ n # Nil => op.key < key[n]
  BY <1>2, <1>3 DEF InsertLink, Called
<1>5. PICK b \in 0 .. Buckets - 1 : b = Hash(op.key)
  BY <1>4, Hashes
<1>6. Cursor(op.key) /\ (p # Nil => key[p] <= key[x])
  BY <1>3, <1>4 DEF Walked
<1>7. /\ p # Nil => p \in Linked /\ Hash(key[p]) = b /\ next[p] = n
      /\ p = Nil => hhead[b] = n
      /\ n # Nil => n \in Linked /\ Hash(key[n]) = b
      /\ n # Nil => depth[n] = IF p = Nil THEN 1 ELSE depth[p] + 1
      /\ n = Nil /\ p = Nil => \A i \in Linked : Hash(key[i]) # b
  <2>1. /\ op.prev # Nil => op.prev \in Linked /\ Hash(key[op.prev]) = Hash(op.key)
        /\ op.cur # Nil => /\ op.cur \in Linked /\ Hash(key[op.cur]) = Hash(op.key)
                           /\ depth[op.cur] = IF op.prev = Nil THEN 1
                                              ELSE depth[op.prev] + 1
        /\ op.cur = Nil /\ op.prev = Nil => \A i \in Linked : Hash(key[i]) # Hash(op.key)
    BY <1>1, <1>4, <1>6, CursorLinked
  <2>2. QED
    BY <1>2, <1>3, <1>4, <1>5, <1>6, <2>1 DEF Cursor
<1>8. /\ depth \in [Idx -> Nat] /\ Linked \subseteq Idx /\ next \in [Idx -> Links]
      /\ hlen \in [0 .. Buckets - 1 -> Int]
      /\ hhead \in [0 .. Buckets - 1 -> Links] /\ key \in [Idx -> Nat]
      /\ key \in [Idx -> Keys \cup {0}]
  <2>1. Keys \cup {0} \subseteq Nat
    BY DEF ShmCacheAssumption
  <2>2. QED
    BY <1>1, <2>1 DEF Depths, Linked, Typed
<1>9. \A i \in Idx : Hash(key[i]) \in 0 .. Buckets - 1
  BY <1>8, Hashes
<1>10. Linked' = Linked \cup {x} /\ x \notin Linked /\ Hash(key[x]) = b
  <2>1. op'.pc = "set" /\ key' = key
    BY DEF InsertLink, Typed, Ops
  <2>2. key[x] # 0
    BY <1>4 DEF ShmCacheAssumption
  <2>3. QED
    BY <1>2, <1>4, <1>5, <2>1, <2>2 DEF Linked
<1>11. key' = key /\ hlen' = hlen /\ p # x /\ n # x
  BY <1>7, <1>8, <1>10, NilIsNone DEF InsertLink
<1>12. \A i \in Idx : next'[i] = IF i = x THEN n ELSE IF i = p THEN x ELSE next[i]
  BY <1>2, <1>3, <1>8, <1>11, NilIsNone DEF InsertLink
<1>13. \A y \in 0 .. Buckets - 1 :
         hhead'[y] = IF p = Nil /\ y = b THEN x ELSE hhead[y]
  BY <1>2, <1>3, <1>5, <1>8 DEF InsertLink
<1>14. PICK m \in Nat : m = IF p = Nil THEN 1 ELSE depth[p] + 1
  BY <1>7, <1>8
<1>15. PICK e \in [Idx -> Nat] :
         \A j \in Idx : e[j] = IF j = x THEN m
                               ELSE IF Hash(key[j]) = b /\ depth[j] >= m
                               THEN depth[j] + 1 ELSE depth[j]
  <2> DEFINE f == [j \in Idx |-> IF j = x THEN m
                                 ELSE IF Hash(key[j]) = b /\ depth[j] >= m
                                 THEN depth[j] + 1 ELSE depth[j]]
  <2>1. f \in [Idx -> Nat]
    BY <1>8
  <2>2. QED
    BY <2>1
<1>16. \A i, j \in Linked : Hash(key[i]) = Hash(key[j]) =>
         /\ depth[i] = depth[j] => i = j
         /\ depth[i] < depth[j] => key[i] <= key[j] /\ next[i] # Nil
  BY <1>1 DEF Depths, Sorted
<1>17. \A i \in Linked : /\ depth[i] >= 1
                         /\ hhead[Hash(key[i])] # Nil
                         /\ depth[i] = 1 => hhead[Hash(key[i])] = i
  BY <1>1 DEF Depths, Firsts
<1>18. \A i \in Linked :
         next[i] # Nil => /\ next[i] \in Linked /\ Hash(key[next[i]]) = Hash(key[i])
                          /\ depth[next[i]] = depth[i] + 1
  BY <1>1 DEF Depths, Follows
<1>19. e[x] = m /\ m >= 1 /\ (n # Nil => depth[n] = m /\ e[n] = m + 1)
  BY <1>7, <1>8, <1>11, <1>14, <1>15, <1>17
<1>20. \A i \in Linked : i \in Idx /\ i # x
  BY <1>8, <1>10
<1>21. Heads(e)'
  <2> SUFFICES ASSUME NEW y \in 0 .. Buckets - 1, hhead'[y] # Nil
               PROVE  /\ hhead'[y] \in Linked' /\ Hash(key[hhead'[y]]) = y
                      /\ e[hhead'[y]] = 1
    BY <1>11 DEF Heads
  <2>1. CASE p = Nil /\ y = b
    BY <1>10, <1>13, <1>14, <1>19, <2>1
  <2>2. CASE ~ (p = Nil /\ y = b)
    <3>1. hhead[y] # Nil /\ hhead'[y] = hhead[y]
      BY <1>13, <2>2
    <3>2. hhead[y] \in Linked /\ Hash(key[hhead[y]]) = y /\ depth[hhead[y]] = 1
      BY <1>1, <3>1 DEF Depths, Heads
    <3>3. y = b => m > 1
      BY <1>7, <1>8, <1>14, <1>17, <2>2
    <3>4. e[hhead[y]] = 1
      BY <1>15, <1>20, <3>2, <3>3
    <3>5. QED
      BY <1>10, <3>1, <3>2, <3>4
  <2>3. QED
    BY <2>1, <2>2
<1>22. Firsts(e)'
  <2> SUFFICES ASSUME NEW i \in Linked'
               PROVE  /\ e[i] >= 1
                      /\ hhead'[Hash(key[i])] # Nil
                      /\ e[i] = 1 => hhead'[Hash(key[i])] = i
    BY <1>11 DEF Firsts
  <2>1. CASE i = x
    <3>1. p # Nil => hhead[b] # Nil /\ depth[p] >= 1
      BY <1>7, <1>17
    <3>2. p # Nil => m # 1
      BY <1>7, <1>8, <1>14, <3>1
    <3>3. x # Nil
      BY NilIsNone
    <3>4. QED
      BY <1>10, <1>13, <1>19, <2>1, <3>1, <3>2, <3>3
  <2>2. CASE i # x
    <3>1. i \in Linked /\ i \in Idx
      BY <1>10, <1>20, <2>2
    <3>2. e[i] = IF Hash(key[i]) = b /\ depth[i] >= m THEN depth[i] + 1 ELSE depth[i]
      BY <1>15, <2>2, <3>1
    <3>3. depth[i] >= 1 /\ depth[i] \in Nat
      BY <1>8, <1>17, <3>1
    <3>4. e[i] >= 1 /\ (e[i] = 1 => depth[i] = 1 /\ (Hash(key[i]) = b => m > 1))
      BY <3>2, <3>3
    <3>5. hhead'[Hash(key[i])] # Nil
      BY <1>9, <1>13, <1>17, <3>1, NilIsNone
    <3>6. ASSUME e[i] = 1 PROVE hhead'[Hash(key[i])] = i
      <4>1. Hash(key[i]) = b => p # Nil
        BY <1>14, <3>4, <3>6
      <4>2. QED
        BY <1>9, <1>13, <1>17, <3>1, <3>4, <3>6, <4>1
    <3>7. QED
      BY <3>4, <3>5, <3>6
  <2>3. QED
    BY <2>1, <2>2
<1>23. Follows(e)'
  <2> SUFFICES ASSUME NEW i \in Linked', next'[i] # Nil
               PROVE  /\ next'[i] \in Linked' /\ Hash(key[next'[i]]) = Hash(key[i])
                      /\ e[next'[i]] = e[i] + 1
    BY <1>11 DEF Follows
  <2>1. CASE i = x
    BY <1>7, <1>10, <1>12, <1>19, <2>1
  <2>2. CASE i = p
    <3>1. i \in Linked /\ i \in Idx /\ p # Nil /\ next'[i] = x
      BY <1>10, <1>11, <1>12, <1>20, <2>2, NilIsNone
    <3>2. m = depth[p] + 1 /\ depth[p] \in Nat
      BY <1>8, <1>14, <2>2, <3>1
    <3>3. e[i] = depth[p]
      BY <1>11, <1>15, <2>2, <3>1, <3>2
    <3>4. QED
      BY <1>7, <1>10, <1>19, <2>2, <3>1, <3>2, <3>3
  <2>3. CASE i # x /\ i # p
    <3>1. i \in Linked /\ i \in Idx /\ next'[i] = next[i] /\ next[i] # Nil
      BY <1>10, <1>12, <1>20, <2>3
    <3>2. /\ next[i] \in Linked /\ Hash(key[next[i]]) = Hash(key[i])
          /\ depth[next[i]] = depth[i] + 1 /\ next[i] \in Idx /\ next[i] # x
      BY <1>18, <1>20, <3>1
    <3>3. depth[i] \in Nat
      BY <1>8, <3>1
    <3>4. Hash(key[i]) = b => depth[i] + 1 # m
      <4>1. CASE p = Nil
        BY <1>14, <1>17, <3>1, <3>3, <4>1
      <4>2. CASE p # Nil
        <5>1. Hash(key[i]) = b => depth[i] # depth[p]
          BY <1>7, <1>16, <2>3, <3>1, <4>2
        <5>2. depth[p] \in Nat
          BY <1>7, <1>8, <4>2
        <5>3. QED
          BY <1>14, <3>3, <4>2, <5>1, <5>2
      <4>3. QED
        BY <4>1, <4>2
    <3>5. e[i] = IF Hash(key[i]) = b /\ depth[i] >= m THEN depth[i] + 1 ELSE depth[i]
      BY <1>15, <2>3, <3>1
    <3>6. e[next[i]] = IF Hash(key[i]) = b /\ depth[i] + 1 >= m THEN depth[i] + 2
                       ELSE depth[i] + 1
      BY <1>15, <3>2, <3>3
    <3>7. e[next[i]] = e[i] + 1
      BY <3>3, <3>4, <3>5, <3>6
    <3>8. QED
      BY <1>10, <3>1, <3>2, <3>7
  <2>4. QED
    BY <2>1, <2>2, <2>3
<1>24. Reached(e)'
  <2> SUFFICES ASSUME NEW i \in Linked', e[i] > 1
               PROVE  \E j \in Linked' : next'[j] = i
    BY DEF Reached
  <2>1. CASE i = x
    <3>1. p # Nil
      BY <1>14, <1>19, <2>1
    <3>2. p \in Linked' /\ next'[p] = x
      BY <1>7, <1>10, <1>11, <1>12, <1>20, <3>1
    <3>3. QED
      BY <2>1, <3>2
  <2>2. CASE i = n
    BY <1>10, <1>12, <2>2
  <2>3. CASE i # x /\ i # n
    <3>1. i \in Linked /\ i \in Idx /\ depth[i] \in Nat
      BY <1>8, <1>10, <1>20, <2>3
    <3>2. depth[i] > 1
      <4>1. ASSUME depth[i] = 1 PROVE FALSE
        <5>1. e[i] = IF Hash(key[i]) = b /\ 1 >= m THEN 2 ELSE 1
          BY <1>15, <2>3, <3>1, <4>1
        <5>2. Hash(key[i]) = b /\ m = 1
          BY <1>19, <5>1
        <5>3. p = Nil
          BY <1>7, <1>8, <1>14, <1>17, <5>2
        <5>4. hhead[b] = i
          BY <1>17, <3>1, <4>1, <5>2
        <5>5. QED
          BY <1>7, <2>3, <5>3, <5>4
      <4>2. QED
        BY <1>17, <3>1, <4>1
    <3>3. PICK j \in Linked : next[j] = i
      BY <1>1, <3>1, <3>2 DEF Depths, Reached
    <3>4. j # p
      BY <1>7, <2>3, <3>3, <1>20, NilIsNone
    <3>5. j \in Linked' /\ next'[j] = i
      BY <1>10, <1>12, <1>20, <3>3, <3>4
    <3>6. QED
      BY <3>5
  <2>4. QED
    BY <2>1, <2>2, <2>3
<1>25. ASSUME NEW i \in Linked, Hash(key[i]) = b
       PROVE  /\ depth[i] < m => i = p \/ key[i] <= key[p]
              /\ depth[i] < m => p # Nil /\ key[i] <= key[x] /\ (i # p => next[i] # Nil)
              /\ depth[i] >= m => n # Nil /\ key[x] <= key[i]
  <2>1. depth[i] \in Nat /\ depth[i] >= 1 /\ i \in Idx /\ key[i] \in Nat /\ key[x] \in Nat
    BY <1>8, <1>17, <1>20
  <2>2. ASSUME depth[i] < m
        PROVE  /\ i = p \/ key[i] <= key[p]
               /\ p # Nil /\ key[i] <= key[x] /\ (i # p => next[i] # Nil)
    <3>1. p # Nil
      BY <1>14, <2>1, <2>2
    <3>2. p \in Linked /\ Hash(key[p]) = b /\ depth[p] \in Nat /\ key[p] \in Nat
      BY <1>7, <1>8, <1>20, <3>1
    <3>3. i = p \/ depth[i] < depth[p]
      BY <1>14, <1>16, <1>25, <2>1, <2>2, <3>1, <3>2
    <3>4. i = p \/ (key[i] <= key[p] /\ next[i] # Nil)
      BY <1>16, <1>25, <3>2, <3>3
    <3>5. QED
      BY <1>6, <2>1, <3>1, <3>2, <3>4
  <2>3. ASSUME depth[i] >= m PROVE n # Nil /\ key[x] <= key[i]
    <3>1. n # Nil
      <4>1. CASE p = Nil
        BY <1>7, <1>25, <4>1
      <4>2. CASE p # Nil
        <5>1. p \in Linked /\ Hash(key[p]) = b /\ depth[p] \in Nat /\ next[p] = n
          BY <1>7, <1>8, <1>20, <4>2
        <5>2. depth[p] < depth[i]
          BY <1>14, <2>1, <2>3, <4>2, <5>1
        <5>3. QED
          BY <1>16, <1>25, <5>1, <5>2
      <4>3. QED
        BY <4>1, <4>2
    <3>2. n \in Linked /\ Hash(key[n]) = b /\ depth[n] = m /\ key[n] \in Nat
      BY <1>7, <1>8, <1>19, <1>20, <3>1
    <3>3. key[n] <= key[i]
      <4>1. n = i \/ depth[n] < depth[i]
        BY <1>16, <1>25, <2>1, <2>3, <3>2
      <4>2. QED
        BY <1>16, <1>25, <2>1, <3>2, <4>1
    <3>4. key[x] < key[n]
      BY <1>4, <3>1
    <3>5. QED
      BY <2>1, <3>1, <3>2, <3>3, <3>4
  <2>4. QED
    BY <2>2, <2>3
<1>26. Sorted(e)'
  <2> SUFFICES ASSUME NEW i \in Linked', NEW j \in Linked', Hash(key[i]) = Hash(key[j])
               PROVE  /\ e[i] = e[j] => i = j
                      /\ e[i] < e[j] => key[i] <= key[j] /\ next'[i] # Nil
    BY <1>11 DEF Sorted
  <2>1. CASE i = x /\ j = x
    BY <1>19, <2>1
  <2>2. CASE i = x /\ j # x
    <3>1. j \in Linked /\ j \in Idx /\ Hash(key[j]) = b /\ depth[j] \in Nat
      BY <1>8, <1>10, <1>20, <2>2
    <3>2. e[j] = IF depth[j] >= m THEN depth[j] + 1 ELSE depth[j]
      BY <1>15, <2>2, <3>1
    <3>3. e[i] # e[j] /\ (e[i] < e[j] => depth[j] >= m)
      BY <1>19, <2>2, <3>1, <3>2
    <3>4. QED
      BY <1>12, <1>25, <2>2, <3>1, <3>3
  <2>3. CASE i # x /\ j = x
    <3>1. i \in Linked /\ i \in Idx /\ Hash(key[i]) = b /\ depth[i] \in Nat
      BY <1>8, <1>10, <1>20, <2>3
    <3>2. e[i] = IF depth[i] >= m THEN depth[i] + 1 ELSE depth[i]
      BY <1>15, <2>3, <3>1
    <3>3. e[i] # e[j] /\ (e[i] < e[j] => depth[i] < m)
      BY <1>19, <2>3, <3>1, <3>2
    <3>4. QED
      BY <1>12, <1>25, <2>3, <3>1, <3>3, NilIsNone
  <2>4. CASE i # x /\ j # x
    <3>1. /\ i \in Linked /\ i \in Idx /\ depth[i] \in Nat
          /\ j \in Linked /\ j \in Idx /\ depth[j] \in Nat
      BY <1>8, <1>10, <1>20, <2>4
    <3>2. /\ e[i] = e[j] => depth[i] = depth[j]
          /\ e[i] < e[j] => depth[i] < depth[j]
      BY <1>15, <2>4, <3>1
    <3>3. QED
      BY <1>12, <1>16, <2>4, <3>1, <3>2, NilIsNone
  <2>5. QED
    BY <2>1, <2>2, <2>3, <2>4
<1>27. Within(e)'
  <2>1. op'.pc = "set"
    BY DEF InsertLink, Typed, Ops
  <2> SUFFICES ASSUME NEW i \in Linked' PROVE e[i] <= hlen[Hash(key[i])]
    BY <1>11, <2>1 DEF Within
  <2>2. \A j \in Linked : /\ depth[j] <= hlen[Hash(key[j])]
                          /\ Hash(key[j]) = b => depth[j] < hlen[b]
    BY <1>1, <1>4, <1>5 DEF Depths, Within
  <2>3. hlen[b] \in Int /\ hlen[b] >= 1
    <3>1. x \in Here(b) /\ Here(b) \subseteq Idx
      BY <1>4, <1>10 DEF Here, ShmCacheAssumption
    <3>2. IsFiniteSet(Here(b))
      BY <3>1, BlocksFinite, FS_Subset
    <3>3. Cardinality(Here(b)) \in Nat /\ Cardinality(Here(b)) # 0
      BY <3>1, <3>2, FS_CardinalityType, FS_EmptySet
    <3>4. QED
      BY <3>3 DEF Counted
  <2>4. CASE i = x
    BY <1>7, <1>8, <1>10, <1>14, <1>19, <2>2, <2>3, <2>4
  <2>5. CASE i # x
    <3>1. i \in Linked /\ i \in Idx /\ depth[i] \in Nat
      BY <1>8, <1>10, <1>20, <2>5
    <3>2. e[i] = IF Hash(key[i]) = b /\ depth[i] >= m THEN depth[i] + 1 ELSE depth[i]
      BY <1>15, <2>5, <3>1
    <3>3. CASE Hash(key[i]) = b
      BY <2>2, <2>3, <3>1, <3>2, <3>3
    <3>4. CASE Hash(key[i]) # b
      BY <2>2, <3>1, <3>2, <3>4
    <3>5. QED
      BY <3>3, <3>4
  <2>6. QED
    BY <2>4, <2>5
<1>28. QED
  <2>1. Depths(e)'
    BY <1>15, <1>21, <1>22, <1>23, <1>24, <1>26, <1>27 DEF Depths
  <2>2. QED
    BY <2>1 DEF Chains

-----------------------------------------------------------------------------
(* Types, and what the loops know *)

\* The fields of the operation in progress.
LEMMA OpRecord ==
  ASSUME Typed
  PROVE  /\ op \in Ops
         /\ op.pc \in PcSet /\ op.call \in PcSet /\ op.key \in Keys \cup {0}
         /\ op.rest \in Seq(Nat) /\ op.dkey \in Keys \cup {0}
         /\ op.cur \in Links /\ op.prev \in Links /\ op.idx \in Idx
         /\ op.bucket \in 0 .. Buckets - 1 /\ op.resume \in Links
         /\ op.ret \in Rets /\ op.out \in Seq(Nat)
BY DEF Typed, Ops

\* Where chains begin is a link, and so is where a block leads.
LEMMA LinkTypes ==
  ASSUME Typed, ShmCacheAssumption
  PROVE  /\ \A k \in Keys \cup {0} : hhead[Hash(k)] \in Links
         /\ \A i \in Links : i # Nil => i \in Idx /\ next[i] \in Links
                                        /\ key[i] \in Keys \cup {0}
                                        /\ chunk[i] \in Seq(Nat)
         /\ Nil \in Links /\ 0 \in Idx /\ 0 \in 0 .. Buckets - 1
         /\ hhead[0] \in Links
<1>1. BlockNum \in Nat /\ BlockNum > 0 /\ Buckets \in Nat /\ Buckets > 0
  BY DEF ShmCacheAssumption
<1>2. 0 \in Idx /\ 0 \in 0 .. Buckets - 1
  BY <1>1 DEF Idx
<1>3. \A k \in Keys \cup {0} : hhead[Hash(k)] \in Links
  BY Hashes DEF Typed
<1>4. QED
  BY <1>2, <1>3 DEF Typed, Links

\* The record between two operations.
LEMMA IdleTyped ==
  ASSUME ShmCacheAssumption
  PROVE  Idle \in Ops
<1>1. BlockNum \in Nat /\ BlockNum > 0 /\ Buckets \in Nat /\ Buckets > 0
  BY DEF ShmCacheAssumption
<1>2. 0 \in Idx /\ 0 \in 0 .. Buckets - 1 /\ Nil \in Links
  BY <1>1 DEF Idx, Links
<1>3. <<>> \in Seq(Nat)
  OBVIOUS
<1>4. QED
  BY <1>2, <1>3 DEF Idle, Ops, PcSet, Rets

\* The loops that call DeleteHash.
LEMMA Pcs == {"set", "unlock", "check"} \subseteq PcSet
             /\ "unlock" \in PcSet
BY DEF PcSet

\* A call of DeleteHash stands at the head of the chain.
LEMMA DeletingTyped ==
  ASSUME NEW o \in Ops, NEW k \in Keys \cup {0}, NEW caller \in PcSet,
         op' = Deleting(o, k, caller), Typed, ShmCacheAssumption
  PROVE  /\ op' \in Ops /\ op'.pc = "delete" /\ op'.call = caller
         /\ op'.key = o.key /\ op'.prev = Nil /\ op'.cur = hhead[Hash(op'.dkey)]
<1>1. hhead[Hash(k)] \in Links /\ Nil \in Links /\ "delete" \in PcSet
  BY LinkTypes DEF PcSet
<1>2. PICK h \in Links : h = hhead[Hash(k)]
  BY <1>1
<1>3. op' = [o EXCEPT !.pc = "delete", !.call = caller, !.dkey = k,
                      !.cur = h, !.prev = Nil]
  BY <1>2 DEF Deleting
<1>4. /\ op'.pc = "delete" /\ op'.call = caller /\ op'.key = o.key
      /\ op'.dkey = k /\ op'.cur = h /\ op'.prev = Nil
  BY <1>3 DEF Ops
<1>5. op' \in Ops
  BY <1>1, <1>3, ZenonT(40) DEF Ops
<1>6. QED
  BY <1>2, <1>4, <1>5

\* Every step keeps the types and what the loops know of their arguments.
LEMMA TypedKept ==
  ASSUME Typed, Called, Ring, Next, ShmCacheAssumption
  PROVE  Typed' /\ Called'
<1> USE OpRecord, LinkTypes, IdleTyped
<1>0. PICK pos : Numbers(pos)
  BY DEF Ring
<1>l. ListTyped
  BY DEF Typed, ListTyped
<1>1. ASSUME NEW k \in Keys, NEW v \in Values, SetCall(k, v)
      PROVE  Typed' /\ Called'
  <2> DEFINE o == [Idle EXCEPT !.key = k, !.rest = v, !.ret = "OK"]
  <2>1. v \in Seq(Nat)
    BY DEF ShmCacheAssumption
  <2>2. o \in Ops /\ o.key = k
    BY <2>1 DEF Ops, Rets, Idle
  <2>3. op' = Deleting(o, k, "set")
    BY <1>1 DEF SetCall
  <2> HIDE DEF o
  <2>4. op' \in Ops /\ op'.pc = "delete" /\ op'.call = "set" /\ op'.key = k
    <3>1. k \in Keys \cup {0}
      BY Pcs
    <3>2. PICK u \in Ops, kk \in Keys \cup {0} :
             op' = Deleting(u, kk, "set") /\ u.key = o.key
      BY <2>2, <2>3, <3>1
    <3>3. QED
      BY ONLY <2>2, <3>2, Pcs, DeletingTyped, Typed, ShmCacheAssumption
  <2>5. QED
    BY <1>1, <2>4 DEF SetCall, Typed, Called, heap, lru
<1>2. ASSUME NEW k \in Keys, GetCall(k)
      PROVE  Typed' /\ Called'
  <2>1. op' \in Ops /\ op'.pc = "get" /\ op'.key = k
    BY <1>2 DEF GetCall, Ops, Rets, PcSet, Idle
  <2>2. QED
    BY <1>2, <2>1 DEF GetCall, Typed, Called, heap, lru
<1>3. ASSUME NEW k \in Keys, DelCall(k)
      PROVE  Typed' /\ Called'
  <2> DEFINE o == [Idle EXCEPT !.key = k, !.ret = "OK"]
  <2>1. o \in Ops
    BY DEF Ops, Rets, Idle
  <2>2. op' = Deleting(o, k, "unlock")
    BY <1>3 DEF DelCall
  <2> HIDE DEF o
  <2>3. op' \in Ops /\ op'.pc = "delete" /\ op'.call = "unlock"
    <3>1. k \in Keys \cup {0}
      BY Pcs
    <3>2. PICK u \in Ops, kk \in Keys \cup {0} :
             op' = Deleting(u, kk, "unlock") /\ u.key = o.key
      BY <2>1, <2>2, <3>1
    <3>3. QED
      BY ONLY <3>2, Pcs, DeletingTyped, Typed, ShmCacheAssumption
  <2>4. QED
    BY <1>3, <2>3 DEF DelCall, Typed, Called, heap, lru
<1>4. CASE CheckCall
  <2>1. op' \in Ops /\ op'.pc = "check"
    BY <1>4 DEF CheckCall, Ops, Rets, PcSet, Idle
  <2>2. QED
    BY <1>4, <2>1 DEF CheckCall, Typed, Called, heap, lru
<1>5. CASE DeleteBlock
  <2>1. op.cur \in Idx /\ next[op.cur] \in Links /\ op.pc = "delete"
    BY <1>5 DEF DeleteBlock
  <2>2. op' \in Ops /\ op'.pc = op.pc /\ op'.call = op.call /\ op'.key = op.key
    BY <1>5, <2>1 DEF DeleteBlock, Ops
  <2>3. PICK c \in Idx : c = op.cur
    BY <2>1
  <2>4. ListTyped'
    BY <1>0, <1>5, <1>l, <2>3, HeadNumbers DEF DeleteBlock
  <2>5. <<>> \in Seq(Nat) /\ Len(<<>>) <= BlockSize
    BY DEF ShmCacheAssumption
  <2>6. key' \in [Idx -> Keys \cup {0}] /\ next' \in [Idx -> Links]
    <3>1. key' = [key EXCEPT ![op.cur] = 0] /\ key \in [Idx -> Keys \cup {0}]
      BY <1>5 DEF DeleteBlock, Typed
    <3>2. key' \in [Idx -> Keys \cup {0}]
      BY <3>1
    <3>3. next \in [Idx -> Links]
      BY DEF Typed
    <3>4. \/ next' = [next EXCEPT ![op.prev] = next[op.cur], ![op.cur] = Nil]
          \/ next' = [next EXCEPT ![op.cur] = Nil]
      BY <1>5 DEF DeleteBlock
    <3>5. next' \in [Idx -> Links]
      BY ONLY <2>1, <3>3, <3>4, LinkTypes, Typed, ShmCacheAssumption
    <3>6. QED
      BY <3>2, <3>5
  <2>7. chunk' \in [Idx -> Seq(Nat)] /\ \A i \in Idx : Len(chunk'[i]) <= BlockSize
    BY <1>5, <2>1, <2>5 DEF DeleteBlock, Typed
  <2>8. hhead' \in [0 .. Buckets - 1 -> Links] /\ hlen' \in [0 .. Buckets - 1 -> Int]
    <3>1. /\ hhead \in [0 .. Buckets - 1 -> Links]
          /\ hlen \in [0 .. Buckets - 1 -> Int]
      BY DEF Typed
    <3>2. \/ hhead' = hhead
          \/ hhead' = [hhead EXCEPT ![Hash(op.dkey)] = next[op.cur]]
      BY <1>5 DEF DeleteBlock
    <3>3. hlen' = [hlen EXCEPT ![Hash(op.dkey)] = hlen[Hash(op.dkey)] - 1]
      BY <1>5 DEF DeleteBlock
    <3>4. hhead' \in [0 .. Buckets - 1 -> Links]
      BY <2>1, <3>1, <3>2
    <3>5. Hash(op.dkey) \in 0 .. Buckets - 1
      BY Hashes
    <3>6. hlen' \in [0 .. Buckets - 1 -> Int]
      BY <3>1, <3>3, <3>5
    <3>7. QED
      BY <3>4, <3>6
  <2>9. QED
    BY <1>5, <2>1, <2>2, <2>4, <2>6, <2>7, <2>8 DEF DeleteBlock, Typed, ListTyped, Called
<1>6. CASE DeleteSkip
  <2>1. /\ op' \in Ops /\ op'.pc = op.pc /\ op'.call = op.call /\ op'.key = op.key
        /\ op.pc = "delete"
    BY <1>6 DEF DeleteSkip, Ops
  <2>2. QED
    BY <1>6, <2>1 DEF DeleteSkip, Typed, Called, heap, lru
<1>7. CASE DeleteEnd
  <2>1. op' \in Ops /\ op'.pc = op.call /\ op'.key = op.key /\ op.pc = "delete"
    BY <1>7 DEF DeleteEnd, Ops
  <2>2. QED
    BY <1>7, <2>1 DEF DeleteEnd, Typed, Called, heap, lru
<1>8. CASE SetEvict
  <2>1. key[lhead] \in Keys \cup {0} /\ op.pc = "set"
    BY <1>8 DEF SetEvict, Typed
  <2>2. op' \in Ops /\ op'.pc = "delete" /\ op'.call = "set" /\ op'.key = op.key
    <3>1. op' = Deleting(op, key[lhead], "set")
      BY <1>8 DEF SetEvict
    <3>2. op \in Ops
      BY Pcs
    <3>3. PICK u \in Ops, kk \in Keys \cup {0} :
             op' = Deleting(u, kk, "set") /\ u.key = op.key
      BY <2>1, <3>1, <3>2
    <3>4. QED
      BY ONLY <3>3, Pcs, DeletingTyped, Typed, ShmCacheAssumption
  <2>3. QED
    BY <1>8, <2>1, <2>2 DEF SetEvict, Typed, Called, heap, lru
<1>9. CASE SetFill
  <2>1. PICK n : n = IF Len(op.rest) <= BlockSize THEN Len(op.rest) ELSE BlockSize
    OBVIOUS
  <2>2. PICK r \in Seq(Nat) : r = op.rest
    OBVIOUS
  <2>3. Len(r) \in Nat /\ BlockSize \in Nat /\ n = IF Len(r) <= BlockSize THEN Len(r) ELSE BlockSize
    BY <2>1, <2>2 DEF ShmCacheAssumption
  <2>4. n \in Nat /\ n <= Len(r) /\ n <= BlockSize
    BY <2>3
  <2>5. SubSeq(r, 1, n) \in Seq(Nat) /\ Len(SubSeq(r, 1, n)) = n
    <3>1. SubSeq(r, 1, n) \in Seq(Nat)
      BY <2>3, <2>4
    <3>2. Len(SubSeq(r, 1, n)) = n
      BY ONLY <2>4, r \in Seq(Nat), Len(r) \in Nat
    <3>3. QED
      BY <3>1, <3>2
  <2>6. SubSeq(r, n + 1, Len(r)) \in Seq(Nat)
    BY <2>3, <2>4
  <2>7. PICK h \in Seq(Nat), t \in Seq(Nat) :
          h = SubSeq(r, 1, n) /\ t = SubSeq(r, n + 1, Len(r)) /\ Len(h) = n
    BY <2>5, <2>6
  <2>8. /\ chunk' = [chunk EXCEPT ![lhead] = h]
        /\ op' = [op EXCEPT !.pc = "insert", !.idx = lhead, !.rest = t,
                             !.cur = hhead[Hash(op.key)], !.prev = Nil]
    BY <1>9, <2>1, <2>2, <2>7, Zenon DEF SetFill
  <2>9. op.pc = "set" /\ op.key \in Keys /\ lhead \in Idx
    BY <1>9 DEF SetFill, Called, Typed
  <2>10. op' \in Ops /\ op'.pc = "insert" /\ op'.key = op.key /\ op'.idx = lhead
    BY <2>8, <2>9 DEF Ops, PcSet
  <2>11. chunk' \in [Idx -> Seq(Nat)] /\ \A i \in Idx : Len(chunk'[i]) <= BlockSize
    BY <2>4, <2>7, <2>8, <2>9 DEF Typed
  <2>12. key' \in [Idx -> Keys \cup {0}] /\ key'[lhead] = op.key
    BY <1>9, <2>9 DEF SetFill, Typed
  <2>13. up' \in [Idx -> 0 .. MaxTime] /\ hlen' \in [0 .. Buckets - 1 -> Int]
    <3>1. up \in [Idx -> 0 .. MaxTime] /\ now \in 0 .. MaxTime
          /\ hlen \in [0 .. Buckets - 1 -> Int]
      BY DEF Typed
    <3>2. up' = [up EXCEPT ![lhead] = now]
      BY <1>9 DEF SetFill
    <3>3. hlen' = [hlen EXCEPT ![Hash(op.key)] = hlen[Hash(op.key)] + 1]
      BY <1>9 DEF SetFill
    <3>4. Hash(op.key) \in 0 .. Buckets - 1
      BY Hashes
    <3>5. up' \in [Idx -> 0 .. MaxTime]
      BY <3>1, <3>2
    <3>6. hlen' \in [0 .. Buckets - 1 -> Int]
      BY <3>1, <3>3, <3>4
    <3>7. QED
      BY <3>5, <3>6
  <2>14. /\ next' = next /\ hhead' = hhead /\ pre' = pre /\ nxt' = nxt
         /\ lhead' = lhead /\ ltail' = ltail /\ now' = now /\ result' = result
    BY <1>9 DEF SetFill, lru
  <2>15. QED
    BY <2>9, <2>10, <2>11, <2>12, <2>13, <2>14 DEF Typed, Called
<1>10. CASE InsertSkip
  <2>1. /\ op' \in Ops /\ op'.pc = op.pc /\ op'.key = op.key
        /\ op.pc = "insert" /\ op'.idx = op.idx
    BY <1>10 DEF InsertSkip, Ops
  <2>2. QED
    BY <1>10, <2>1 DEF InsertSkip, Typed, Called, heap, lru
<1>11. CASE InsertLink
  <2>1. op.idx \in Idx /\ op.cur \in Links /\ op.pc = "insert" /\ op.key \in Keys
    BY <1>11 DEF InsertLink, Called
  <2>2. op' \in Ops /\ op'.pc = "set" /\ op'.key = op.key
    BY <1>11, <2>1 DEF InsertLink, Ops, PcSet
  <2>3. PICK c \in Idx : c = op.idx
    BY <2>1
  <2>4. ListTyped'
    BY <1>0, <1>11, <1>l, <2>3, TailNumbers DEF InsertLink
  <2>5. next' \in [Idx -> Links]
    BY <1>11, <2>1 DEF InsertLink, Typed, Links
  <2>6. hhead' \in [0 .. Buckets - 1 -> Links]
    BY <1>11, <2>1, Hashes DEF InsertLink, Typed, Links
  <2>7. QED
    BY <1>11, <2>1, <2>2, <2>4, <2>5, <2>6 DEF InsertLink, Typed, ListTyped, Called
<1>12. CASE SetEnd
  <2>1. op' \in Ops /\ op'.pc = "unlock"
    BY <1>12 DEF SetEnd, Ops, PcSet
  <2>2. QED
    BY <1>12, <2>1 DEF SetEnd, Typed, Called, heap, lru
<1>13. CASE GetHit
  <2>1. /\ op.cur \in Idx /\ next[op.cur] \in Links /\ chunk[op.cur] \in Seq(Nat)
        /\ op.pc = "get" /\ op.key \in Keys
    BY <1>13 DEF GetHit, Called
  <2>2. op.out \o chunk[op.cur] \in Seq(Nat)
    BY <2>1
  <2>3. op' \in Ops /\ op'.pc = "get" /\ op'.key = op.key
    BY <1>13, <2>1, <2>2 DEF GetHit, Ops, Rets
  <2>4. PICK c \in Idx : c = op.cur
    BY <2>1
  <2>5. ListTyped'
    BY <1>0, <1>13, <1>l, <2>4, TailNumbers DEF GetHit
  <2>6. QED
    BY <1>13, <2>1, <2>3, <2>5 DEF GetHit, Typed, ListTyped, Called
<1>14. CASE GetStale
  <2> DEFINE o == [op EXCEPT !.ret = "KEY_TIMEOUT"]
  <2>1. o \in Ops
    BY DEF Ops, Rets
  <2>2. op' = Deleting(o, op.key, "unlock")
    BY <1>14 DEF GetStale
  <2> HIDE DEF o
  <2>3. op' \in Ops /\ op'.pc = "delete" /\ op'.call = "unlock"
    <3>1. op.key \in Keys \cup {0}
      BY Pcs
    <3>2. PICK u \in Ops, kk \in Keys \cup {0} :
             op' = Deleting(u, kk, "unlock") /\ u.key = o.key
      BY <2>1, <2>2, <3>1
    <3>3. QED
      BY ONLY <3>2, Pcs, DeletingTyped, Typed, ShmCacheAssumption
  <2>4. QED
    BY <1>14, <2>3 DEF GetStale, Typed, Called, heap, lru
<1>15. CASE GetSkip
  <2>1. op' \in Ops /\ op'.pc = "get" /\ op'.key = op.key /\ op.pc = "get"
    BY <1>15 DEF GetSkip, Ops
  <2>2. QED
    BY <1>15, <2>1 DEF GetSkip, Typed, Called, heap, lru
<1>16. CASE GetEnd
  <2>1. op' \in Ops /\ op'.pc = "unlock"
    BY <1>16 DEF GetEnd, Ops, PcSet
  <2>2. QED
    BY <1>16, <2>1 DEF GetEnd, Typed, Called, heap, lru
<1>17. CASE CheckStale
  <2> DEFINE o == [op EXCEPT !.resume = next[op.cur]]
  <2>1. o \in Ops
    BY <1>17 DEF CheckStale, Ops
  <2>2. op' = Deleting(o, key[op.cur], "check")
    BY <1>17 DEF CheckStale
  <2>3. key[op.cur] \in Keys \cup {0}
    BY <1>17 DEF CheckStale
  <2> HIDE DEF o
  <2>4. op' \in Ops /\ op'.pc = "delete" /\ op'.call = "check"
    <3>1. "check" \in PcSet
      BY Pcs
    <3>2. PICK u \in Ops, kk \in Keys \cup {0} :
             op' = Deleting(u, kk, "check") /\ u.key = o.key
      BY <2>1, <2>2, <2>3, <3>1
    <3>3. QED
      BY ONLY <3>2, Pcs, DeletingTyped, Typed, ShmCacheAssumption
  <2>5. QED
    BY <1>17, <2>4 DEF CheckStale, Typed, Called, heap, lru
<1>18. CASE CheckFresh
  <2>1. op' \in Ops /\ op'.pc = "check"
    BY <1>18 DEF CheckFresh, Ops
  <2>2. QED
    BY <1>18, <2>1 DEF CheckFresh, Typed, Called, heap, lru
<1>19. CASE CheckBucket
  <2>1. op' \in Ops /\ op'.pc \in {"check", "unlock"}
    <3>1. CASE op.bucket + 1 < Buckets
      <4>1. op.bucket + 1 \in 0 .. Buckets - 1
        BY <3>1 DEF ShmCacheAssumption
      <4>2. hhead[op.bucket + 1] \in Links
        BY <4>1 DEF Typed
      <4>3. QED
        BY <1>19, <3>1, <4>1, <4>2 DEF CheckBucket, Ops
    <3>2. CASE ~ (op.bucket + 1 < Buckets)
      BY <1>19, <3>2 DEF CheckBucket, Ops, PcSet
    <3>3. QED
      BY <3>1, <3>2
  <2>2. QED
    BY <1>19, <2>1 DEF CheckBucket, Typed, Called, heap, lru
<1>20. CASE Unlock
  <2>1. op' \in Ops /\ op'.pc = "idle" /\ result'.ret \in Rets
    BY <1>20 DEF Unlock, Idle
  <2>2. QED
    BY <1>20, <2>1 DEF Unlock, Typed, Called, heap, lru
<1>21. CASE Tick
  <2>1. now' \in 0 .. MaxTime
    BY <1>21 DEF Tick, Typed, ShmCacheAssumption
  <2>2. QED
    BY <1>21, <2>1 DEF Tick, Typed, Called, heap, lru
<1>22. QED
  BY <1>1, <1>2, <1>3, <1>4, <1>5, <1>6, <1>7, <1>8, <1>9, <1>10, <1>11, <1>12,
     <1>13, <1>14, <1>15, <1>16, <1>17, <1>18, <1>19, <1>20, <1>21 DEF Next, Step

-----------------------------------------------------------------------------
(* The steps that leave the blocks alone *)

\* A walk that does not end an insertion, and does not begin one.
Reading == /\ UNCHANGED heap
           /\ op'.pc = "insert" <=> op.pc = "insert"
           /\ op.pc = "insert" => op'.idx = op.idx /\ op'.key = op.key

\* What does not change the blocks keeps their numbers.
LEMMA ReadingKeeps ==
  ASSUME Reading, Typed, Ring, Chains, Counted
  PROVE  /\ Ring' /\ Chains' /\ Counted' /\ Linked' = Linked
         /\ key' = key /\ next' = next /\ hhead' = hhead
<1>1. /\ key' = key /\ next' = next /\ hhead' = hhead /\ hlen' = hlen
      /\ pre' = pre /\ nxt' = nxt /\ lhead' = lhead /\ ltail' = ltail
      /\ op'.pc = "insert" <=> op.pc = "insert"
      /\ op.pc = "insert" => op'.idx = op.idx /\ op'.key = op.key
  BY DEF Reading, heap, lru
<1>2. Linked' = Linked
  BY <1>1 DEF Linked
<1>3. Ring'
  <2>1. PICK pos : Numbers(pos) /\ Filling(pos)
    BY DEF Ring
  <2>2. Numbers(pos)'
    BY <1>1, <2>1 DEF Numbers
  <2>3. Filling(pos)'
    BY <1>1, <2>1 DEF Filling
  <2>4. QED
    BY <2>2, <2>3 DEF Ring
<1>4. Chains'
  <2>1. PICK depth : Depths(depth)
    BY DEF Chains
  <2>2. depth \in [Idx -> Nat] /\ Heads(depth)' /\ Firsts(depth)'
    BY <1>1, <1>2, <2>1 DEF Depths, Heads, Firsts
  <2>3. Follows(depth)' /\ Reached(depth)'
    BY <1>1, <1>2, <2>1 DEF Depths, Follows, Reached
  <2>4. Sorted(depth)' /\ Within(depth)'
    BY <1>1, <1>2, <2>1 DEF Depths, Sorted, Within
  <2>5. Depths(depth)'
    BY <2>2, <2>3, <2>4 DEF Depths
  <2>6. QED
    BY <2>5 DEF Chains
<1>5. Counted'
  BY <1>1 DEF Counted, Here
<1>6. QED
  BY <1>1, <1>2, <1>3, <1>4, <1>5

\* A deletion begins at the head of the chain.
LEMMA BeginsWalk ==
  ASSUME Reading, op'.pc = "delete", op'.prev = Nil, op'.cur = hhead[Hash(op'.dkey)]
  PROVE  Walked'
<1>1. hhead' = hhead
  BY DEF Reading, heap
<1>2. op'.cur = hhead'[Hash(op'.dkey)]
  BY <1>1
<1>3. QED
  BY <1>2 DEF Walked, Cursor

\* The steps that only read keep the lists sound.
LEMMA ReadersKeep ==
  ASSUME CacheInv, Next, ShmCacheAssumption,
         ~ DeleteBlock, ~ SetFill, ~ InsertLink, ~ GetHit
  PROVE  Ring' /\ Chains' /\ Counted' /\ Walked'
<1> SUFFICES Reading /\ Walked'
  BY ReadingKeeps DEF CacheInv
<1> USE OpRecord, LinkTypes DEF CacheInv
<1>1. ASSUME NEW k \in Keys, NEW v \in Values, SetCall(k, v)
      PROVE  Reading /\ Walked'
  <2> DEFINE o == [Idle EXCEPT !.key = k, !.rest = v, !.ret = "OK"]
  <2>1. v \in Seq(Nat)
    BY DEF ShmCacheAssumption
  <2>2. o \in Ops
    BY <2>1, IdleTyped DEF Ops, Rets, Idle
  <2>3. op' = Deleting(o, k, "set") /\ op.pc = "idle" /\ UNCHANGED heap
    BY <1>1 DEF SetCall
  <2> HIDE DEF o
  <2>4. k \in Keys \cup {0}
    BY Pcs
  <2>5. op'.pc = "delete" /\ op'.prev = Nil /\ op'.cur = hhead[Hash(op'.dkey)]
    <3>1. PICK u \in Ops, kk \in Keys \cup {0} :
             op' = Deleting(u, kk, "set") /\ u.key = o.key
      BY <2>2, <2>3, <2>4
    <3>2. QED
      BY ONLY <3>1, Pcs, DeletingTyped, Typed, ShmCacheAssumption
  <2>6. Reading
    BY <2>3, <2>5 DEF Reading
  <2>7. QED
    BY <2>5, <2>6, BeginsWalk
<1>2. ASSUME NEW k \in Keys, DelCall(k)
      PROVE  Reading /\ Walked'
  <2> DEFINE o == [Idle EXCEPT !.key = k, !.ret = "OK"]
  <2>1. o \in Ops
    BY IdleTyped DEF Ops, Rets, Idle
  <2>2. op' = Deleting(o, k, "unlock") /\ op.pc = "idle" /\ UNCHANGED heap
    BY <1>2 DEF DelCall
  <2> HIDE DEF o
  <2>3. k \in Keys \cup {0}
    BY Pcs
  <2>4. op'.pc = "delete" /\ op'.prev = Nil /\ op'.cur = hhead[Hash(op'.dkey)]
    <3>1. PICK u \in Ops, kk \in Keys \cup {0} :
             op' = Deleting(u, kk, "unlock") /\ u.key = o.key
      BY <2>1, <2>2, <2>3
    <3>2. QED
      BY ONLY <3>1, Pcs, DeletingTyped, Typed, ShmCacheAssumption
  <2>5. Reading
    BY <2>2, <2>4 DEF Reading
  <2>6. QED
    BY <2>4, <2>5, BeginsWalk
<1>3. CASE SetEvict
  <2>1. /\ op' = Deleting(op, key[lhead], "set") /\ op.pc = "set" /\ UNCHANGED heap
        /\ key[lhead] \in Keys \cup {0} /\ "set" \in PcSet /\ op \in Ops
    BY <1>3, Pcs DEF SetEvict, Typed
  <2>2. op'.pc = "delete" /\ op'.prev = Nil /\ op'.cur = hhead[Hash(op'.dkey)]
    <3>1. PICK k \in Keys \cup {0} : k = key[lhead]
      BY <2>1
    <3>2. op' = Deleting(op, k, "set") /\ "set" \in PcSet /\ op \in Ops
      BY <2>1, <3>1
    <3>3. PICK u \in Ops, kk \in Keys \cup {0} :
             op' = Deleting(u, kk, "set") /\ u.key = op.key
      BY <3>2
    <3>4. QED
      BY ONLY <3>3, Pcs, DeletingTyped, Typed, ShmCacheAssumption
  <2>3. Reading
    BY <2>1, <2>2 DEF Reading
  <2>4. QED
    BY <2>2, <2>3, BeginsWalk
<1>4. CASE GetStale
  <2> DEFINE o == [op EXCEPT !.ret = "KEY_TIMEOUT"]
  <2>1. o \in Ops
    BY DEF Ops, Rets
  <2>2. op' = Deleting(o, op.key, "unlock") /\ op.pc = "get" /\ UNCHANGED heap
    BY <1>4 DEF GetStale
  <2> HIDE DEF o
  <2>3. op.key \in Keys \cup {0}
    BY Pcs
  <2>4. op'.pc = "delete" /\ op'.prev = Nil /\ op'.cur = hhead[Hash(op'.dkey)]
    <3>1. PICK u \in Ops, kk \in Keys \cup {0} :
             op' = Deleting(u, kk, "unlock") /\ u.key = o.key
      BY <2>1, <2>2, <2>3
    <3>2. QED
      BY ONLY <3>1, Pcs, DeletingTyped, Typed, ShmCacheAssumption
  <2>5. Reading
    BY <2>2, <2>4 DEF Reading
  <2>6. QED
    BY <2>4, <2>5, BeginsWalk
<1>5. CASE CheckStale
  <2> DEFINE o == [op EXCEPT !.resume = next[op.cur]]
  <2>1. o \in Ops
    BY <1>5 DEF CheckStale, Ops
  <2>2. op' = Deleting(o, key[op.cur], "check") /\ op.pc = "check" /\ UNCHANGED heap
    BY <1>5 DEF CheckStale
  <2>3. key[op.cur] \in Keys \cup {0}
    BY <1>5, Pcs DEF CheckStale
  <2> HIDE DEF o
  <2>4. op'.pc = "delete" /\ op'.prev = Nil /\ op'.cur = hhead[Hash(op'.dkey)]
    <3>1. PICK u \in Ops, kk \in Keys \cup {0} :
             op' = Deleting(u, kk, "check") /\ u.key = o.key
      BY <2>1, <2>2, <2>3
    <3>2. QED
      BY ONLY <3>1, Pcs, DeletingTyped, Typed, ShmCacheAssumption
  <2>5. Reading
    BY <2>2, <2>4 DEF Reading
  <2>6. QED
    BY <2>4, <2>5, BeginsWalk
<1>6. CASE DeleteSkip
  <2>1. /\ op.pc = "delete" /\ op.cur # Nil /\ UNCHANGED heap
        /\ op'.pc = "delete" /\ op'.prev = op.cur /\ op'.cur = next[op.cur]
        /\ op'.dkey = op.dkey
    BY <1>6 DEF DeleteSkip, Ops
  <2>2. Reading
    BY <2>1 DEF Reading
  <2>3. op.cur \in Linked /\ Hash(key[op.cur]) = Hash(op.dkey)
    <3>1. PICK depth : Depths(depth)
      BY DEF Chains
    <3>2. Cursor(op.dkey) /\ op.dkey \in Keys \cup {0}
      BY <2>1 DEF Walked
    <3>3. QED
      BY ONLY <2>1, <3>1, <3>2, CursorLinked, Typed, ShmCacheAssumption
  <2>4. Linked' = Linked /\ key' = key /\ next' = next
    BY <2>2, ReadingKeeps
  <2>5. QED
    BY <2>1, <2>2, <2>3, <2>4 DEF Walked, Cursor
<1>7. CASE InsertSkip
  <2>1. /\ op.pc = "insert" /\ op.cur # Nil /\ UNCHANGED heap
        /\ op'.pc = "insert" /\ op'.prev = op.cur /\ op'.cur = next[op.cur]
        /\ op'.key = op.key /\ op'.idx = op.idx /\ key[op.cur] <= op.key
    <3>1. Keys \cup {0} \subseteq Nat
      BY DEF ShmCacheAssumption
    <3>2. QED
      BY <1>7, <3>1 DEF InsertSkip, Ops
  <2>2. Reading
    BY <2>1 DEF Reading
  <2>3. op.cur \in Linked /\ Hash(key[op.cur]) = Hash(op.key)
    <3>1. PICK depth : Depths(depth)
      BY DEF Chains
    <3>2. Cursor(op.key) /\ op.key \in Keys \cup {0}
      BY <2>1 DEF Walked
    <3>3. QED
      BY ONLY <2>1, <3>1, <3>2, CursorLinked, Typed, ShmCacheAssumption
  <2>4. Linked' = Linked /\ key' = key /\ next' = next
    BY <2>2, ReadingKeeps
  <2>5. QED
    BY <2>1, <2>2, <2>3, <2>4 DEF Walked, Cursor
<1>8. ASSUME UNCHANGED heap, op.pc # "insert", op'.pc # "insert", op'.pc # "delete"
      PROVE  Reading /\ Walked'
  BY <1>8 DEF Reading, Walked
<1>9. CASE DeleteEnd
  <2>1. op.pc = "delete" /\ op'.pc = op.call /\ op.call \in {"set", "unlock", "check"}
    BY <1>9 DEF DeleteEnd, Ops, Called
  <2>2. QED
    BY <1>8, <1>9, <2>1 DEF DeleteEnd
<1>10. ASSUME NEW k \in Keys, GetCall(k)
       PROVE  Reading /\ Walked'
  <2>1. op.pc = "idle" /\ op'.pc = "get"
    BY <1>10 DEF GetCall, Idle
  <2>2. QED
    BY <1>8, <1>10, <2>1 DEF GetCall
<1>11. CASE CheckCall
  <2>1. op.pc = "idle" /\ op'.pc = "check"
    BY <1>11 DEF CheckCall, Idle
  <2>2. QED
    BY <1>8, <1>11, <2>1 DEF CheckCall
<1>12. CASE SetEnd \/ GetEnd
  <2>1. op.pc \in {"set", "get"} /\ op'.pc = "unlock" /\ UNCHANGED heap
    BY <1>12 DEF SetEnd, GetEnd, Ops
  <2>2. QED
    BY <1>8, <2>1
<1>13. CASE GetSkip \/ CheckFresh
  <2>1. op.pc \in {"get", "check"} /\ op'.pc = op.pc /\ UNCHANGED heap
    BY <1>13 DEF GetSkip, CheckFresh, Ops
  <2>2. QED
    BY <1>8, <2>1
<1>14. CASE CheckBucket
  <2>1. op.pc = "check" /\ op'.pc \in {"check", "unlock"} /\ UNCHANGED heap
    BY <1>14 DEF CheckBucket, Ops
  <2>2. QED
    BY <1>8, <2>1
<1>15. CASE Unlock
  <2>1. op.pc = "unlock" /\ op'.pc = "idle" /\ UNCHANGED heap
    BY <1>15 DEF Unlock, Idle
  <2>2. QED
    BY <1>8, <2>1
<1>16. CASE Tick
  <2>1. op.pc = "idle" /\ op' = op /\ UNCHANGED heap
    BY <1>16 DEF Tick
  <2>2. QED
    BY <1>8, <2>1
<1>17. QED
  BY <1>1, <1>2, <1>3, <1>4, <1>5, <1>6, <1>7, <1>9, <1>10, <1>11, <1>12,
     <1>13, <1>14, <1>15, <1>16 DEF Next, Step

-----------------------------------------------------------------------------
(* The steps that change the blocks *)

\* Among the others, a block that moves leaves the order as it is.
LEMMA TailOrder ==
  ASSUME NEW i \in Idx, NEW pos, Numbers(pos), ShmCacheAssumption
  PROVE  \A j, k \in Idx :
           ToTail(pos, i)[j] < ToTail(pos, i)[k] => j # i /\ (k # i => pos[j] < pos[k])
<1>1. /\ pos \in [Idx -> 0 .. BlockNum - 1]
      /\ \A j, k \in Idx : pos[j] = pos[k] => j = k
  BY DEF Numbers
<1>2. \A j \in Idx : pos[j] \in 0 .. BlockNum - 1 /\ pos[j] \in Int
  BY <1>1
<1>3. ASSUME NEW j \in Idx, NEW k \in Idx, ToTail(pos, i)[j] < ToTail(pos, i)[k]
      PROVE  j # i /\ (k # i => pos[j] < pos[k])
  <2>1. BlockNum \in Int
    BY DEF ShmCacheAssumption
  <2>2. /\ ToTail(pos, i)[j] = IF j = i THEN BlockNum - 1
                               ELSE IF pos[j] > pos[i] THEN pos[j] - 1 ELSE pos[j]
        /\ ToTail(pos, i)[k] = IF k = i THEN BlockNum - 1
                               ELSE IF pos[k] > pos[i] THEN pos[k] - 1 ELSE pos[k]
    BY DEF ToTail
  <2>3. (pos[j] = pos[i] => j = i) /\ (pos[k] = pos[i] => k = i)
    BY <1>1
  <2>4. /\ pos[i] \in 0 .. BlockNum - 1 /\ pos[j] \in 0 .. BlockNum - 1
        /\ pos[k] \in 0 .. BlockNum - 1
    BY <1>2
  <2>5. QED
    BY ONLY <1>3, <2>1, <2>2, <2>3, <2>4
<1>4. QED
  BY <1>3

\* The same for a block that moves to the head.
LEMMA HeadOrder ==
  ASSUME NEW i \in Idx, NEW pos, Numbers(pos)
  PROVE  \A j, k \in Idx :
           ToHead(pos, i)[j] < ToHead(pos, i)[k] => k # i /\ (j # i => pos[j] < pos[k])
<1>1. /\ pos \in [Idx -> 0 .. BlockNum - 1]
      /\ \A j, k \in Idx : pos[j] = pos[k] => j = k
  BY DEF Numbers
<1>2. \A j \in Idx : pos[j] \in 0 .. BlockNum - 1 /\ pos[j] \in Int
  BY <1>1
<1>3. ASSUME NEW j \in Idx, NEW k \in Idx, ToHead(pos, i)[j] < ToHead(pos, i)[k]
      PROVE  k # i /\ (j # i => pos[j] < pos[k])
  BY <1>1, <1>2, <1>3 DEF ToHead
<1>4. QED
  BY <1>3

\* DeleteHash keeps the lists sound while it frees a block (shmcache.cpp:268-297).
LEMMA DeleteKeeps ==
  ASSUME CacheInv, DeleteBlock, ShmCacheAssumption
  PROVE  Ring' /\ Chains' /\ Counted' /\ Walked'
<1> USE OpRecord, LinkTypes DEF CacheInv
<1>1. PICK c \in Idx : c = op.cur
  BY DEF DeleteBlock
<1>2. /\ op.pc = "delete" /\ op.cur # Nil /\ key[c] = op.dkey
      /\ key \in [Idx -> Keys \cup {0}]
  BY <1>1 DEF DeleteBlock, Typed
<1>3. \A i \in Idx : key'[i] = IF i = c THEN 0 ELSE key[i]
  BY <1>1, <1>2 DEF DeleteBlock
<1>4. op'.pc = "delete" /\ op'.dkey = op.dkey /\ op'.prev = op.prev /\ op'.cur = next[c]
  BY <1>1, <1>2 DEF DeleteBlock, Ops
<1>5. Cursor(op.dkey) /\ op.dkey \in Keys \cup {0}
  BY <1>2 DEF Walked
<1>6. /\ op.prev # Nil => op.prev \in Linked /\ Hash(key[op.prev]) = Hash(op.dkey)
      /\ c \in Linked /\ (op.prev # Nil => op.prev # c)
  <2>1. PICK depth : Depths(depth)
    BY DEF Chains
  <2>2. /\ op.prev # Nil => op.prev \in Linked /\ Hash(key[op.prev]) = Hash(op.dkey)
        /\ op.cur # Nil => /\ op.cur \in Linked /\ Hash(key[op.cur]) = Hash(op.dkey)
                           /\ depth[op.cur] = IF op.prev = Nil THEN 1
                                              ELSE depth[op.prev] + 1
    BY ONLY <1>5, <2>1, CursorLinked, Typed, ShmCacheAssumption
  <2>3. \A i \in Linked : depth[i] \in Nat
    BY <2>1 DEF Depths, Linked
  <2>4. QED
    BY <1>1, <1>2, <2>2, <2>3
<1>7. key[c] # 0
  BY <1>6 DEF Linked
<1>8. Ring'
  <2>1. PICK pos : Numbers(pos) /\ Filling(pos)
    BY DEF Ring
  <2>2. PICK q : q = ToHead(pos, c)
    OBVIOUS
  <2>3. Numbers(q)'
    <3>1. ListTyped /\ MoveLRUHead(c)
      BY <1>1 DEF Typed, ListTyped, DeleteBlock
    <3>2. QED
      BY <2>1, <2>2, <3>1, HeadNumbers
  <2>4. \A j, k \in Idx : q[j] < q[k] => k # c /\ (j # c => pos[j] < pos[k])
    BY <2>1, <2>2, HeadOrder
  <2>5. Filling(q)'
    <3> SUFFICES ASSUME NEW j \in Idx, NEW k \in Idx, q[j] < q[k], key'[j] # 0, key'[k] = 0
                 PROVE  FALSE
      BY DEF Filling
    <3>1. j # c /\ k # c
      BY <1>3, <2>4
    <3>2. QED
      BY <1>2, <1>3, <2>1, <2>4, <3>1 DEF Filling
  <2>6. QED
    BY <2>3, <2>5 DEF Ring
<1>9. Chains'
  BY DeleteKeepsChains
<1>10. Counted'
  <2> SUFFICES ASSUME NEW b \in 0 .. Buckets - 1
               PROVE  hlen'[b] = Cardinality(Here(b)')
    BY DEF Counted
  <2>1. hlen[b] = Cardinality(Here(b)) /\ hlen \in [0 .. Buckets - 1 -> Int]
    BY DEF Counted, Typed
  <2>2. hlen'[b] = IF b = Hash(op.dkey) THEN hlen[b] - 1 ELSE hlen[b]
    BY <2>1 DEF DeleteBlock
  <2>3. Here(b)' = Here(b) \ {c}
    BY <1>3 DEF Here
  <2>4. c \in Here(b) <=> b = Hash(op.dkey)
    BY <1>2, <1>7 DEF Here
  <2>5. IsFiniteSet(Here(b))
    BY BlocksFinite, FS_Subset DEF Here
  <2>6. Cardinality(Here(b) \ {c}) = IF c \in Here(b) THEN Cardinality(Here(b)) - 1
                                     ELSE Cardinality(Here(b))
    BY <2>5, FS_RemoveElement
  <2>7. QED
    BY <2>1, <2>2, <2>3, <2>4, <2>6
<1>11. Walked'
  <2>1. CASE op.prev = Nil
    <3>1. hhead'[Hash(op.dkey)] = next[c]
      BY <1>1, <1>5, <2>1, Hashes DEF DeleteBlock, Typed
    <3>2. QED
      BY <1>4, <2>1, <3>1 DEF Walked, Cursor
  <2>2. CASE op.prev # Nil
    <3>1. op.prev \in Linked' /\ key'[op.prev] = key[op.prev] /\ op.prev \in Idx
      BY <1>2, <1>3, <1>4, <1>6, <2>2 DEF Linked
    <3>2. next'[op.prev] = next[c]
      BY <1>1, <1>6, <2>2, <3>1 DEF DeleteBlock, Typed
    <3>3. QED
      BY <1>4, <1>6, <2>2, <3>1, <3>2 DEF Walked, Cursor
  <2>3. QED
    BY <2>1, <2>2
<1>12. QED
  BY <1>8, <1>9, <1>10, <1>11

\* InsertHash keeps the lists sound when it links the block (shmcache.cpp:236-266).
LEMMA InsertKeeps ==
  ASSUME CacheInv, InsertLink, ShmCacheAssumption
  PROVE  Ring' /\ Chains' /\ Counted' /\ Walked'
<1> USE OpRecord, LinkTypes DEF CacheInv
<1>1. PICK x \in Idx : x = op.idx
  OBVIOUS
<1>2. /\ op.pc = "insert" /\ op'.pc = "set" /\ key' = key /\ hlen' = hlen
      /\ key[x] # 0
  <2>1. op.pc = "insert" /\ key[x] = op.key /\ op.key \in Keys
    BY <1>1 DEF InsertLink, Called
  <2>2. QED
    BY <2>1 DEF InsertLink, Ops, ShmCacheAssumption
<1>3. Ring'
  <2>1. PICK pos : Numbers(pos) /\ Filling(pos)
    BY DEF Ring
  <2>2. PICK q : q = ToTail(pos, x)
    OBVIOUS
  <2>3. Numbers(q)'
    <3>1. ListTyped /\ MoveLRUTail(x)
      BY <1>1 DEF Typed, ListTyped, InsertLink
    <3>2. QED
      BY <2>1, <2>2, <3>1, TailNumbers
  <2>4. \A j, k \in Idx : q[j] < q[k] => j # x /\ (k # x => pos[j] < pos[k])
    BY <2>1, <2>2, TailOrder
  <2>5. Filling(q)'
    <3> SUFFICES ASSUME NEW j \in Idx, NEW k \in Idx, q[j] < q[k], key[j] # 0, key[k] = 0
                 PROVE  FALSE
      BY <1>2 DEF Filling
    <3>1. j # x /\ k # x
      BY <1>2, <2>4
    <3>2. QED
      BY <1>1, <2>1, <2>4, <3>1 DEF Filling
  <2>6. QED
    BY <2>3, <2>5 DEF Ring
<1>4. Chains'
  BY InsertKeepsChains
<1>5. Counted'
  BY <1>2 DEF Counted, Here
<1>6. Walked'
  BY <1>2 DEF Walked
<1>7. QED
  BY <1>3, <1>4, <1>5, <1>6

\* Get keeps the lists sound while it makes blocks recent.
LEMMA HitKeeps ==
  ASSUME CacheInv, GetHit, ShmCacheAssumption
  PROVE  Ring' /\ Chains' /\ Counted' /\ Walked'
<1> USE OpRecord, LinkTypes DEF CacheInv
<1>1. PICK c \in Idx : c = op.cur
  BY DEF GetHit
<1>2. /\ op.pc = "get" /\ op'.pc = "get" /\ key' = key /\ hlen' = hlen
      /\ next' = next /\ hhead' = hhead /\ key[c] # 0
  <2>1. op.pc = "get" /\ key[c] = op.key /\ op.key \in Keys
    BY <1>1 DEF GetHit, Called
  <2>2. QED
    BY <2>1 DEF GetHit, Ops, ShmCacheAssumption
<1>3. Ring'
  <2>1. PICK pos : Numbers(pos) /\ Filling(pos)
    BY DEF Ring
  <2>2. PICK q : q = ToTail(pos, c)
    OBVIOUS
  <2>3. Numbers(q)'
    <3>1. ListTyped /\ MoveLRUTail(c)
      BY <1>1 DEF Typed, ListTyped, GetHit
    <3>2. QED
      BY <2>1, <2>2, <3>1, TailNumbers
  <2>4. \A j, k \in Idx : q[j] < q[k] => j # c /\ (k # c => pos[j] < pos[k])
    BY <2>1, <2>2, TailOrder
  <2>5. Filling(q)'
    <3> SUFFICES ASSUME NEW j \in Idx, NEW k \in Idx, q[j] < q[k], key[j] # 0, key[k] = 0
                 PROVE  FALSE
      BY <1>2 DEF Filling
    <3>1. j # c /\ k # c
      BY <1>2, <2>4
    <3>2. QED
      BY <1>2, <2>1, <2>4, <3>1 DEF Filling
  <2>6. QED
    BY <2>3, <2>5 DEF Ring
<1>4. Chains'
  <2>1. PICK depth : Depths(depth)
    BY DEF Chains
  <2>2. Linked' = Linked
    BY <1>2 DEF Linked
  <2>3. depth \in [Idx -> Nat] /\ Heads(depth)' /\ Firsts(depth)'
    BY <1>2, <2>1, <2>2 DEF Depths, Heads, Firsts
  <2>4. Follows(depth)' /\ Reached(depth)'
    BY <1>2, <2>1, <2>2 DEF Depths, Follows, Reached
  <2>5. Sorted(depth)' /\ Within(depth)'
    BY <1>2, <2>1, <2>2 DEF Depths, Sorted, Within
  <2>6. Depths(depth)'
    BY <2>3, <2>4, <2>5 DEF Depths
  <2>7. QED
    BY <2>6 DEF Chains
<1>5. Counted'
  BY <1>2 DEF Counted, Here
<1>6. Walked'
  BY <1>2 DEF Walked
<1>7. QED
  BY <1>3, <1>4, <1>5, <1>6

\* Set keeps the lists sound when it fills a block that is not linked yet.
LEMMA FillKeeps ==
  ASSUME CacheInv, SetFill, ShmCacheAssumption
  PROVE  Ring' /\ Chains' /\ Counted' /\ Walked'
<1> USE OpRecord, LinkTypes DEF CacheInv
<1>1. PICK x \in Idx : x = lhead
  BY DEF Typed
<1>2. /\ op.pc = "set" /\ key[x] = 0 /\ op.key \in Keys /\ op.key # 0
      /\ next' = next /\ hhead' = hhead /\ pre' = pre /\ nxt' = nxt
      /\ lhead' = lhead /\ ltail' = ltail
  BY <1>1 DEF SetFill, Called, ShmCacheAssumption, lru
<1>3. /\ op'.pc = "insert" /\ op'.idx = x /\ op'.key = op.key /\ op'.prev = Nil
      /\ op'.cur = hhead[Hash(op.key)]
  BY <1>1 DEF SetFill, Ops
<1>4. PICK b \in 0 .. Buckets - 1 : b = Hash(op.key)
  BY Hashes
<1>5. /\ \A i \in Idx : key'[i] = IF i = x THEN op.key ELSE key[i]
      /\ \A y \in 0 .. Buckets - 1 : hlen'[y] = IF y = b THEN hlen[y] + 1 ELSE hlen[y]
  BY <1>1, <1>4 DEF SetFill, Typed
<1>6. Linked' = Linked /\ \A i \in Linked : i \in Idx /\ key'[i] = key[i]
  <2>1. Linked = {i \in Idx : key[i] # 0}
    BY <1>2 DEF Linked
  <2>2. Linked' = {i \in Idx : key'[i] # 0 /\ i # x}
    BY <1>3 DEF Linked
  <2>3. QED
    BY <1>2, <1>5, <2>1, <2>2
<1>7. Ring'
  <2>1. PICK pos : Numbers(pos) /\ Filling(pos)
    BY DEF Ring
  <2>2. Numbers(pos)'
    BY <1>2, <2>1 DEF Numbers
  <2>3. Filling(pos)'
    <3> SUFFICES ASSUME NEW j \in Idx, NEW k \in Idx, pos[j] < pos[k], key'[j] # 0, key'[k] = 0
                 PROVE  j = x
      BY <1>3 DEF Filling
    <3>1. QED
      BY <1>2, <1>5, <2>1 DEF Filling
  <2>4. QED
    BY <2>2, <2>3 DEF Ring
<1>8. Chains'
  <2>1. PICK depth : Depths(depth)
    BY DEF Chains
  <2>2. depth \in [Idx -> Nat] /\ Heads(depth)' /\ Firsts(depth)'
    BY <1>2, <1>6, <2>1 DEF Depths, Heads, Firsts
  <2>3. Follows(depth)' /\ Reached(depth)'
    BY <1>2, <1>6, <2>1 DEF Depths, Follows, Reached
  <2>4. Sorted(depth)'
    BY <1>2, <1>6, <2>1 DEF Depths, Sorted
  <2>5. Within(depth)'
    <3> SUFFICES ASSUME NEW i \in Linked
                 PROVE  /\ depth[i] <= hlen'[Hash(key[i])]
                        /\ Hash(key[i]) = b => depth[i] < hlen'[Hash(key[i])]
      BY <1>3, <1>4, <1>6 DEF Within
    <3>1. /\ Hash(key[i]) \in 0 .. Buckets - 1 /\ depth[i] \in Nat
          /\ hlen[Hash(key[i])] \in Int /\ depth[i] <= hlen[Hash(key[i])]
      <4>1. key[i] \in Keys \cup {0} /\ i \in Idx
        BY <1>6 DEF Typed
      <4>2. Hash(key[i]) \in 0 .. Buckets - 1
        BY <4>1, Hashes
      <4>3. QED
        BY <2>1, <4>1, <4>2 DEF Depths, Within, Typed
    <3>2. QED
      BY <1>5, <3>1
  <2>6. Depths(depth)'
    BY <2>2, <2>3, <2>4, <2>5 DEF Depths
  <2>7. QED
    BY <2>6 DEF Chains
<1>9. Counted'
  <2> SUFFICES ASSUME NEW y \in 0 .. Buckets - 1
               PROVE  hlen'[y] = Cardinality(Here(y)')
    BY DEF Counted
  <2>1. hlen[y] = Cardinality(Here(y))
    BY DEF Counted
  <2>2. IsFiniteSet(Here(y)) /\ x \notin Here(y)
    BY <1>2, BlocksFinite, FS_Subset DEF Here
  <2>3. Cardinality(Here(y) \cup {x}) = Cardinality(Here(y)) + 1
    BY <2>2, FS_AddElement
  <2>4. CASE y = b
    <3>1. Here(y)' = Here(y) \cup {x}
      BY <1>2, <1>4, <1>5, <2>4 DEF Here
    <3>2. QED
      BY <1>5, <2>1, <2>3, <2>4, <3>1
  <2>5. CASE y # b
    <3>1. Here(y)' = Here(y)
      BY <1>2, <1>4, <1>5, <2>5, ZenonT(40) DEF Here
    <3>2. QED
      BY <1>5, <2>1, <2>5, <3>1
  <2>6. QED
    BY <2>4, <2>5
<1>10. Walked'
  BY <1>2, <1>3 DEF Walked, Cursor
<1>11. QED
  BY <1>7, <1>8, <1>9, <1>10

-----------------------------------------------------------------------------
\* CShmCache::Init establishes the invariant,
LEMMA InitHolds ==
  ASSUME Init, ShmCacheAssumption
  PROVE  CacheInv
<1>1. BlockNum \in Nat /\ BlockNum > 0 /\ Buckets \in Nat /\ Buckets > 0
      /\ MaxTime \in Nat /\ BlockSize \in Nat
  BY DEF ShmCacheAssumption
<1>2. <<>> \in Seq(Nat) /\ Len(<<>>) = 0
  OBVIOUS
<1>3. Typed
  <2>1. key \in [Idx -> Keys \cup {0}] /\ up \in [Idx -> 0 .. MaxTime] /\ now \in 0 .. MaxTime
    BY <1>1 DEF Init
  <2>2. chunk \in [Idx -> Seq(Nat)] /\ \A i \in Idx : Len(chunk[i]) <= BlockSize
    BY <1>1, <1>2 DEF Init
  <2>3. next \in [Idx -> Links] /\ hhead \in [0 .. Buckets - 1 -> Links]
        /\ hlen \in [0 .. Buckets - 1 -> Int]
    BY DEF Init, Links
  <2>4. pre \in [Idx -> Idx] /\ nxt \in [Idx -> Idx] /\ lhead \in Idx /\ ltail \in Idx
    BY <1>1 DEF Init, Idx
  <2>5. op \in Ops /\ result.ret \in Rets
    BY IdleTyped DEF Init, Rets
  <2>6. QED
    BY <2>1, <2>2, <2>3, <2>4, <2>5 DEF Typed
<1>4. op.pc = "idle"
  BY DEF Init, Idle
<1>5. Called /\ Walked
  BY <1>4 DEF Called, Walked
<1>6. Ring
  <2>1. PICK pos : pos = [i \in Idx |-> i]
    OBVIOUS
  <2>2. Numbers(pos)
    BY <1>1, <2>1 DEF Init, Numbers, Idx
  <2>3. Filling(pos)
    BY DEF Init, Filling
  <2>4. QED
    BY <2>2, <2>3 DEF Ring
<1>7. Chains
  <2>1. PICK depth : depth = [i \in Idx |-> 0]
    OBVIOUS
  <2>2. Linked = {}
    BY DEF Init, Linked
  <2>3. Depths(depth)
    BY <2>1, <2>2 DEF Init, Depths, Heads, Firsts, Follows, Reached, Sorted, Within
  <2>4. QED
    BY <2>3 DEF Chains
<1>8. Counted
  <2> SUFFICES ASSUME NEW b \in 0 .. Buckets - 1 PROVE hlen[b] = Cardinality(Here(b))
    BY DEF Counted
  <2>1. Here(b) = {}
    BY DEF Init, Here
  <2>2. QED
    BY <2>1, FS_EmptySet DEF Init
<1>9. QED
  BY <1>3, <1>5, <1>6, <1>7, <1>8 DEF CacheInv

\* every step keeps it,
LEMMA StepHolds ==
  ASSUME CacheInv, [Next]_vars, ShmCacheAssumption
  PROVE  CacheInv'
<1>1. CASE Next
  <2>1. Typed' /\ Called'
    BY <1>1, TypedKept DEF CacheInv
  <2>2. Ring' /\ Chains' /\ Counted' /\ Walked'
    BY <1>1, ReadersKeep, DeleteKeeps, InsertKeeps, HitKeeps, FillKeeps
  <2>3. QED
    BY <2>1, <2>2 DEF CacheInv
<1>2. CASE UNCHANGED vars
  <2>1. Reading
    BY <1>2 DEF Reading, vars
  <2>2. Ring' /\ Chains' /\ Counted' /\ Linked' = Linked /\ key' = key /\ next' = next
        /\ hhead' = hhead
    BY <2>1, ReadingKeeps DEF CacheInv
  <2>3. op' = op
    BY <1>2 DEF vars
  <2>4. Typed' /\ Called'
    BY <1>2 DEF CacheInv, Typed, Called, vars, heap, lru
  <2>5. Walked'
    BY <2>2, <2>3 DEF CacheInv, Walked, Cursor
  <2>6. QED
    BY <2>2, <2>4, <2>5 DEF CacheInv
<1>3. QED
  BY <1>1, <1>2

\* and it implies what the runs check.
LEMMA Soundly ==
  ASSUME CacheInv, ShmCacheAssumption
  PROVE  CacheSound
<1>1. LruRing /\ FreeFirst
  BY RingSoundly DEF CacheInv
<1>2. ChainsSound
  BY ChainsSoundly DEF CacheInv
<1>3. InsertAsserts
  <2> SUFFICES ASSUME op.pc = "insert" PROVE op.prev # op.idx /\ op.cur # op.idx
    BY DEF InsertAsserts
  <2>1. Cursor(op.key) /\ op.key \in Keys \cup {0} /\ op.idx \in Idx
    BY OpRecord DEF CacheInv, Walked
  <2>2. PICK depth : Depths(depth)
    BY DEF CacheInv, Chains
  <2>3. /\ op.prev # Nil => op.prev \in Linked
        /\ op.cur # Nil => op.cur \in Linked
    BY <2>1, <2>2, CursorLinked DEF CacheInv
  <2>4. op.idx \notin Linked
    BY DEF Linked
  <2>5. QED
    BY <2>1, <2>3, <2>4, NilIsNone
<1>4. TypeOK
  <2>1. \A b \in 0 .. Buckets - 1 : hlen[b] \in 0 .. BlockNum
    <3> SUFFICES ASSUME NEW b \in 0 .. Buckets - 1 PROVE hlen[b] \in 0 .. BlockNum
      OBVIOUS
    <3>1. IsFiniteSet(Idx) /\ Cardinality(Idx) = BlockNum /\ Here(b) \in SUBSET Idx
      BY BlocksFinite DEF Here
    <3>2. IsFiniteSet(Here(b)) /\ Cardinality(Here(b)) <= BlockNum
      BY <3>1, FS_Subset
    <3>3. Cardinality(Here(b)) \in Nat
      BY <3>2, FS_CardinalityType
    <3>4. BlockNum \in Nat
      BY DEF ShmCacheAssumption
    <3>5. QED
      BY <3>2, <3>3, <3>4 DEF CacheInv, Counted
  <2>2. hlen \in [0 .. Buckets - 1 -> 0 .. BlockNum]
    BY <2>1 DEF CacheInv, Typed
  <2>3. QED
    BY <2>2, OpRecord DEF CacheInv, Typed, TypeOK
<1>5. QED
  BY <1>1, <1>2, <1>3, <1>4 DEF CacheSound

\* For every number of blocks and buckets, at every step of every operation:
\* all blocks are on one ring, free ones first, every used block is once on
\* the chain of its bucket, in the order of the keys, m_len counts them, and
\* InsertHash never meets the block it inserts (shmcache.cpp:119-345).
THEOREM ListsCorrect == Spec => []CacheSound
<1>1. Init => CacheInv
  BY InitHolds, ShmCacheAssumption
<1>2. CacheInv /\ [Next]_vars => CacheInv'
  BY StepHolds, ShmCacheAssumption
<1>3. CacheInv => CacheSound
  BY Soundly, ShmCacheAssumption
<1>4. QED
  BY <1>1, <1>2, <1>3, PTL DEF Spec
=============================================================================
