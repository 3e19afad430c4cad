---------------------------- MODULE ShmCacheLru ----------------------------
(***************************************************************************)
(* That ShmCache implements LruCache.  The entries of the cache are read   *)
(* off the two lists when an operation is over; it takes effect with its   *)
(* Unlock.                                                                 *)
(***************************************************************************)
EXTENDS ShmCache, Functions

VARIABLE entries        \* history: what was stored at the last Unlock

hvars == <<vars, entries>>

\* The bytes that Get(k) collects on its way along the chain.
ValueOf(k) ==
  LET c == Chain(Hash(k))
      bytes[n \in 0 .. BlockNum] ==
        IF n = 0 THEN <<>>
        ELSE IF n \in DOMAIN c /\ key[c[n]] = k THEN bytes[n-1] \o chunk[c[n]]
        ELSE bytes[n-1]
  IN  bytes[BlockNum]

\* The keys in use, least recently used first: a key is as old as the block
\* of it that is the first to be reused.
UsedKeys == {key[i] : i \in Idx} \ {0}
Turn(k)  ==
  LET turns == {n \in 1 .. BlockNum : key[LruOrder[n]] = k}
  IN  CHOOSE n \in turns : \A m \in turns : n <= m
KeyAt(n) == CHOOSE k \in UsedKeys : Cardinality({l \in UsedKeys : Turn(l) <= Turn(k)}) = n

Entry(k) == [key |-> k, val |-> ValueOf(k), up |-> up[LruOrder[Turn(k)]]]
Entries  == [n \in 1 .. Cardinality(UsedKeys) |-> Entry(KeyAt(n))]

InitH == Init /\ entries = Entries
NextH == Next /\ entries' = IF op.pc = "unlock" THEN Entries ELSE entries
SpecH == InitH /\ [][NextH]_hvars
FairSpecH == SpecH /\ Fairness

Lru == INSTANCE LruCache WITH Blocks <- BlockNum

\* Get returns the bytes of the last Set, or a miss; a key disappears only
\* when its turn as the least recently used one has come and room is needed,
\* when it is deleted or when it is too old (shmcache.cpp:119-297).
ImplementsLru == Lru!Spec

\* Faulty variant: the first key of a chain is not counted.
KeyChangesNotFirst(c) == {n \in DOMAIN c : n # 1 /\ key[c[n]] # key[c[n-1]]}

\* GetStat walks the chains and counts a key where the key changes
\* (shmcache.cpp:382-415).  The calls and hits it returns too are not modelled.
KeyChanges(c) == {n \in DOMAIN c : n = 1 \/ key[c[n]] # key[c[n-1]]}
BytesOn(c)    == SumFunction([n \in DOMAIN c |-> Len(chunk[c[n]])])
GetStat ==
  [use_block |-> SumFunction(hlen),
   use_size  |-> SumFunction([b \in 0 .. Buckets - 1 |-> BytesOn(Chain(b))]),
   has_key   |-> SumFunction([b \in 0 .. Buckets - 1 |-> Cardinality(KeyChanges(Chain(b)))])]

\* The statistics are those of the entries: keys, their blocks, their bytes
\* (shmcache.cpp:382-415).
StatRight ==
  op.pc = "idle" =>
    /\ GetStat.has_key = Len(entries)
    /\ GetStat.use_block = Lru!BlocksUsed(entries)
    /\ GetStat.use_size = SumFunction([i \in DOMAIN entries |-> Len(entries[i].val)])
=============================================================================
