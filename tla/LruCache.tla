------------------------------ MODULE LruCache ------------------------------
(***************************************************************************)
(* What CShmCache promises: a store of values under keys, in room for a    *)
(* fixed number of blocks, that throws away the least recently used values *)
(* when it needs room, and values that are older than a timeout when it    *)
(* meets them.                                                             *)
(***************************************************************************)
EXTENDS Integers, Sequences, Functions

CONSTANTS Keys, Values, Blocks, BlockSize, Timeout, MaxTime

VARIABLES entries,      \* least recently used first: [key, val, up]
          result,       \* what the last operation returned: [ret, out]
          now

vars == <<entries, result, now>>

BlocksOf(v) == (Len(v) + BlockSize - 1) \div BlockSize

\* What is stored of a value that is longer than the whole store, about which
\* nothing is promised: what the code leaves of it.  Its blocks go round, and only
\* those of the last round stay.
Kept(v) ==
  IF BlocksOf(v) <= Blocks THEN v
  ELSE SubSeq(v, ((BlocksOf(v) - 1) \div Blocks) * (Blocks * BlockSize) + 1, Len(v))

BlocksUsed(s) == SumFunction([i \in DOMAIN s |-> BlocksOf(s[i].val)])

\* The places of key k, one or none, and what the store is without it and
\* with it in the most recent place.
Places(k)  == {i \in DOMAIN entries : entries[i].key = k}
Place(k)   == CHOOSE i \in Places(k) : TRUE
Without(k) ==
  IF Places(k) = {} THEN entries
  ELSE SubSeq(entries, 1, Place(k) - 1) \o SubSeq(entries, Place(k) + 1, Len(entries))
Moved(k)   == IF Places(k) = {} THEN entries ELSE Append(Without(k), entries[Place(k)])
Stale(e)   == now - e.up > Timeout

\* What is left of s behind the i-th entry, and the longest such part that
\* leaves room for n blocks.
Behind(s, i) == SubSeq(s, i + 1, Len(s))
Fits(s, n)   == {i \in 0 .. Len(s) : BlocksUsed(Behind(s, i)) + n <= Blocks}
Evicted(s, n) ==
  IF Fits(s, n) = {} THEN <<>>
  ELSE Behind(s, CHOOSE i \in Fits(s, n) : \A j \in Fits(s, n) : i <= j)

\* s is t with some of its stale entries left out.
Thinned(t, s) ==
  \E f \in [DOMAIN s -> DOMAIN t] :
    /\ \A m, n \in DOMAIN s : m < n => f[m] < f[n]
    /\ \A m \in DOMAIN s : s[m] = t[f[m]]
    /\ \A i \in DOMAIN t : Stale(t[i]) \/ \E m \in DOMAIN s : f[m] = i

Init == entries = <<>> /\ result = [ret |-> "none", out |-> <<>>] /\ now = 0

AfterSet(k, v) ==
  IF v = <<>> THEN Without(k)
  ELSE Append(Evicted(Without(k), BlocksOf(v)), [key |-> k, val |-> Kept(v), up |-> now])

Set(k, v) ==
  /\ entries' = AfterSet(k, v)
  /\ result' = [ret |-> "OK", out |-> <<>>]
  /\ UNCHANGED now

Get(k) ==
  /\ UNCHANGED now
  /\ \/ /\ Places(k) = {}
        /\ result' = [ret |-> "KEY_NO_EXIST", out |-> <<>>]
        /\ UNCHANGED entries
     \/ /\ Places(k) # {} /\ Stale(entries[Place(k)])
        /\ result' = [ret |-> "KEY_TIMEOUT", out |-> <<>>]
        /\ entries' = Without(k)
     \/ /\ Places(k) # {} /\ ~ Stale(entries[Place(k)])
        /\ result' = [ret |-> "OK", out |-> entries[Place(k)].val]
        /\ entries' = Moved(k)

Del(k) ==
  /\ entries' = Without(k)
  /\ result' = [ret |-> "OK", out |-> <<>>]
  /\ UNCHANGED now

\* Stale values are thrown away, but not necessarily all of them.
Check ==
  /\ Thinned(entries, entries')
  /\ result' = [ret |-> "OK", out |-> <<>>]
  /\ UNCHANGED now

Tick == now < MaxTime /\ now' = now + 1 /\ UNCHANGED <<entries, result>>

Next == \/ \E k \in Keys : (\E v \in Values : Set(k, v)) \/ Get(k) \/ Del(k)
        \/ Check
        \/ Tick

Spec == Init /\ [][Next]_vars
=============================================================================
