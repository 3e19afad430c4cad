-------------------------- MODULE ShmCacheLruProofs --------------------------
(***************************************************************************)
(* That ShmCache implements LruCache, and that GetStat counts what is      *)
(* stored, for every number of blocks, block size and number of buckets.   *)
(***************************************************************************)
EXTENDS ShmCacheLru, ShmCacheProofs, SequenceTheorems

-----------------------------------------------------------------------------
(* The blocks of a value *)

\* The bytes up to block r, and those of block r (counted from 0).
Upto(v, r)  == IF r * BlockSize <= Len(v) THEN r * BlockSize ELSE Len(v)
First(v, r) == SubSeq(v, 1, Upto(v, r))
Part(v, r)  == SubSeq(v, r * BlockSize + 1, Upto(v, r + 1))

LEMMA Multiples ==
  ASSUME NEW a \in Int, NEW b \in Int, NEW U \in Nat \ {0}
  PROVE  /\ a * U \in Int /\ (a + 1) * U = a * U + U
         /\ a < b => a * U + U <= b * U
         /\ a <= b => a * U <= b * U
<1>1. a * U \in Int /\ (a + 1) * U = a * U + U /\ a * U = U * a /\ b * U = U * b
  OBVIOUS
<1>2. a < b => U * a + U <= U * b
  BY Times
<1>3. a = b => a * U = b * U
  OBVIOUS
<1>4. QED
  BY <1>1, <1>2, <1>3

\* What a part of a sequence is.
LEMMA Slice ==
  ASSUME NEW S, NEW v \in Seq(S), NEW m \in Nat \ {0}, NEW n \in 0 .. Len(v)
  PROVE  /\ SubSeq(v, m, n) \in Seq(S)
         /\ Len(SubSeq(v, m, n)) = IF m <= n THEN n - m + 1 ELSE 0
         /\ \A i \in 1 .. n - m + 1 : SubSeq(v, m, n)[i] = v[m + i - 1]
<1>1. m \in Int /\ n \in Int /\ \A i \in m .. n : v[i] \in S
  BY ElementOfSeq
<1>2. QED
  BY <1>1, SubSeqProperties

\* How many blocks a value takes.
LEMMA BlocksAre ==
  ASSUME NEW v \in Seq(Nat), ShmCacheAssumption
  PROVE  /\ Lru!BlocksOf(v) \in Nat
         /\ Lru!BlocksOf(v) = 0 <=> v = <<>>
         /\ Len(v) <= Lru!BlocksOf(v) * BlockSize
         /\ v # <<>> => (Lru!BlocksOf(v) - 1) * BlockSize < Len(v)
<1>1. BlockSize \in Nat \ {0} /\ Len(v) \in Nat /\ (v = <<>> <=> Len(v) = 0)
  BY DEF ShmCacheAssumption
<1>2. PICK x \in Int : x = Len(v) + BlockSize - 1 /\ x >= 0
  <2>1. PICK l \in Nat : l = Len(v)
    BY <1>1
  <2>2. l + BlockSize - 1 \in Int /\ l + BlockSize - 1 >= 0
    BY <1>1
  <2>3. QED
    BY <2>1, <2>2
<1>3. PICK b, m : b = x \div BlockSize /\ m = x % BlockSize
  OBVIOUS
<1>4. Lru!BlocksOf(v) = b
  BY <1>2, <1>3 DEF Lru!BlocksOf
<1>5. b \in Int /\ m \in 0 .. BlockSize - 1 /\ x = BlockSize * b + m
  BY <1>1, <1>3, Divided
<1>6. b * BlockSize = BlockSize * b /\ b * BlockSize \in Int
      /\ (b - 1) * BlockSize = b * BlockSize - BlockSize
  BY <1>1, <1>5
<1>8. b >= 0
  <2>1. b < 0 => b * BlockSize + BlockSize <= 0 * BlockSize
    BY <1>1, <1>5, Multiples
  <2>2. QED
    BY <1>1, <1>2, <1>5, <1>6, <2>1
<1>9. Len(v) = 0 => b = 0
  <2>1. 0 < b => 0 * BlockSize + BlockSize <= b * BlockSize
    BY <1>1, <1>5, Multiples
  <2>2. QED
    BY <1>1, <1>2, <1>5, <1>6, <1>8, <2>1
<1>10. b = 0 => Len(v) = 0
  BY <1>1, <1>2, <1>5, <1>6
<1>11. Len(v) # 0 => (b - 1) * BlockSize < Len(v)
  BY <1>1, <1>2, <1>5, <1>6
<1>12. Len(v) <= b * BlockSize
  BY <1>1, <1>2, <1>5, <1>6
<1>13. QED
  BY <1>1, <1>4, <1>5, <1>8, <1>9, <1>10, <1>11, <1>12

\* No other number of blocks would do.
LEMMA BlocksUnique ==
  ASSUME NEW v \in Seq(Nat), NEW n \in Nat, ShmCacheAssumption,
         Len(v) <= n * BlockSize, n > 0 => (n - 1) * BlockSize < Len(v)
  PROVE  Lru!BlocksOf(v) = n
<1>1. PICK b \in Nat : b = Lru!BlocksOf(v)
  BY BlocksAre
<1>2. /\ BlockSize \in Nat \ {0} /\ Len(v) \in Nat /\ (v = <<>> <=> Len(v) = 0)
      /\ Len(v) <= b * BlockSize
      /\ v # <<>> => (b - 1) * BlockSize < Len(v)
      /\ b = 0 <=> v = <<>>
  BY <1>1, BlocksAre DEF ShmCacheAssumption
<1>3. /\ b * BlockSize \in Int /\ n * BlockSize \in Int
      /\ (b - 1) * BlockSize = b * BlockSize - BlockSize
      /\ (n - 1) * BlockSize = n * BlockSize - BlockSize
  BY <1>2
<1>4. ~ (b < n)
  <2>1. b < n => b * BlockSize + BlockSize <= n * BlockSize
    BY <1>2, Multiples
  <2>2. QED
    BY <1>2, <1>3, <2>1
<1>5. ~ (n < b)
  <2>1. n < b => n * BlockSize + BlockSize <= b * BlockSize
    BY <1>2, Multiples
  <2>2. QED
    BY <1>2, <1>3, <2>1
<1>6. QED
  BY <1>1, <1>4, <1>5

\* The parts of a value, one behind the other, are the value.
LEMMA PartsJoin ==
  ASSUME NEW v \in Seq(Nat), ShmCacheAssumption
  PROVE  /\ First(v, 0) = <<>>
         /\ First(v, Lru!BlocksOf(v)) = v
         /\ \A r \in Nat : /\ Part(v, r) \in Seq(Nat) /\ First(v, r) \in Seq(Nat)
                           /\ Len(First(v, r)) = Upto(v, r)
         /\ \A r \in Nat : r < Lru!BlocksOf(v) =>
              /\ First(v, r + 1) = First(v, r) \o Part(v, r)
              /\ Len(Part(v, r)) = Upto(v, r + 1) - Upto(v, r)
<1>1. PICK b \in Nat : b = Lru!BlocksOf(v)
  BY BlocksAre
<1>2. /\ BlockSize \in Nat \ {0} /\ Len(v) \in Nat /\ (v = <<>> <=> Len(v) = 0)
      /\ Len(v) <= b * BlockSize
      /\ v # <<>> => (b - 1) * BlockSize < Len(v)
      /\ b = 0 <=> v = <<>>
  BY <1>1, BlocksAre DEF ShmCacheAssumption
<1>3. First(v, 0) = <<>>
  BY <1>2 DEF First, Upto
<1>4. First(v, b) = v
  <2>1. Upto(v, b) = Len(v)
    BY <1>2 DEF Upto
  <2>2. QED
    BY <1>2, <2>1, SubSeqFull DEF First
<1>5. ASSUME NEW r \in Nat
      PROVE  /\ Part(v, r) \in Seq(Nat) /\ First(v, r) \in Seq(Nat)
             /\ Len(First(v, r)) = Upto(v, r)
  <2>1. PICK x \in Nat, y \in Nat : x = r * BlockSize /\ y = (r + 1) * BlockSize
    BY <1>2
  <2>2. Upto(v, r) \in 0 .. Len(v) /\ Upto(v, r + 1) \in 0 .. Len(v)
    BY <1>2, <2>1 DEF Upto
  <2>3. x + 1 \in Nat \ {0} /\ 1 \in Nat \ {0}
    BY <2>1
  <2>4. Part(v, r) \in Seq(Nat)
    BY <2>1, <2>2, <2>3, Slice, Zenon DEF Part
  <2>5. First(v, r) \in Seq(Nat) /\ Len(First(v, r)) = IF 1 <= Upto(v, r) THEN Upto(v, r) - 1 + 1 ELSE 0
    BY <2>2, <2>3, Slice, Zenon DEF First
  <2>6. QED
    BY <2>2, <2>4, <2>5
<1>6. ASSUME NEW r \in Nat, r < b
      PROVE  /\ First(v, r + 1) = First(v, r) \o Part(v, r)
             /\ Len(Part(v, r)) = Upto(v, r + 1) - Upto(v, r)
  <2>1. PICK x \in Nat, y \in Nat : x = r * BlockSize /\ y = (r + 1) * BlockSize
    BY <1>2
  <2>2. y = x + BlockSize
    BY <1>2, <2>1, Multiples
  <2>3. x < Len(v)
    <3>1. r * BlockSize <= (b - 1) * BlockSize
      BY <1>2, <1>6, Multiples
    <3>2. (b - 1) * BlockSize \in Int /\ v # <<>>
      BY <1>2, <1>6
    <3>3. QED
      BY <1>2, <2>1, <3>1, <3>2
  <2>4. PICK z \in Nat : z = Upto(v, r + 1)
    BY <1>2, <2>1 DEF Upto
  <2>5. x <= z /\ z <= Len(v) /\ Upto(v, r) = x
    BY <1>2, <2>1, <2>2, <2>3, <2>4 DEF Upto
  <2>6. First(v, r + 1) = SubSeq(v, 1, z) /\ First(v, r) = SubSeq(v, 1, x)
        /\ Part(v, r) = SubSeq(v, x + 1, z)
    BY <2>1, <2>4, <2>5 DEF First, Part
  <2>7. SubSeq(v, 1, x) \o SubSeq(v, x + 1, z) = SubSeq(v, 1, z)
    <3>1. 1 \in 1 .. Len(v) + 1 /\ x \in 1 - 1 .. Len(v) /\ z \in x .. Len(v)
      BY <1>2, <2>3, <2>4, <2>5
    <3>2. QED
      BY <3>1, ConcatAdjacentSubSeq
  <2>8. Len(Part(v, r)) = z - x
    <3>1. x + 1 \in Nat \ {0} /\ z \in 0 .. Len(v)
      BY <1>2, <2>4, <2>5
    <3>2. Len(SubSeq(v, x + 1, z)) = IF x + 1 <= z THEN z - (x + 1) + 1 ELSE 0
      BY <3>1, Slice
    <3>3. QED
      BY <2>5, <2>6, <3>2
  <2>9. QED
    BY <2>4, <2>5, <2>6, <2>7, <2>8
<1>7. QED
  BY <1>1, <1>3, <1>4, <1>5, <1>6

\* One more part behind whole blocks.
LEMMA PartAdded ==
  ASSUME NEW w \in Seq(Nat), NEW x \in Seq(Nat), NEW r \in Nat, ShmCacheAssumption,
         Len(w) = r * BlockSize, Len(x) > 0, Len(x) <= BlockSize
  PROVE  /\ w \o x \in Seq(Nat) /\ w \o x # <<>>
         /\ Lru!BlocksOf(w) = r /\ Lru!BlocksOf(w \o x) = r + 1
         /\ Part(w \o x, r) = x
         /\ \A s \in Nat : s < r => Part(w \o x, s) = Part(w, s)
<1>1. BlockSize \in Nat \ {0} /\ Len(w) \in Nat /\ Len(x) \in Nat /\ r * BlockSize \in Nat
  BY DEF ShmCacheAssumption
<1>2. /\ (r + 1) * BlockSize = r * BlockSize + BlockSize
      /\ (r - 1) * BlockSize = r * BlockSize - BlockSize
      /\ (r + 1) - 1 = r /\ r + 1 \in Nat
  BY <1>1
<1>3. PICK u : u = w \o x
  OBVIOUS
<1>4. u \in Seq(Nat) /\ Len(u) = Len(w) + Len(x)
  BY <1>3, ConcatProperties, Zenon
<1>5. Lru!BlocksOf(w) = r
  <2>1. Len(w) <= r * BlockSize /\ (r > 0 => (r - 1) * BlockSize < Len(w))
    BY ONLY <1>1, <1>2, Len(w) = r * BlockSize
  <2>2. QED
    BY ONLY <2>1, BlocksUnique, ShmCacheAssumption, r \in Nat, w \in Seq(Nat)
<1>6. Lru!BlocksOf(u) = r + 1
  <2>1. PICK n \in Nat : n = r + 1
    BY <1>2
  <2>2. Len(u) <= n * BlockSize /\ (n > 0 => (n - 1) * BlockSize < Len(u))
    BY <1>1, <1>2, <1>4, <2>1
  <2>3. QED
    BY ONLY <1>4, <2>1, <2>2, BlocksUnique, ShmCacheAssumption
<1>7. Part(u, r) = x
  <2>1. Upto(u, r + 1) = Len(w) + Len(x)
    <3>1. PICK z \in Nat : z = (r + 1) * BlockSize
      BY <1>1, <1>2
    <3>2. Len(w) + Len(x) <= z
      BY <1>1, <1>2, <3>1
    <3>3. Upto(u, r + 1) = IF z <= Len(u) THEN z ELSE Len(u)
      BY <3>1, Zenon DEF Upto
    <3>4. z \in Nat /\ Len(w) \in Nat /\ Len(x) \in Nat /\ Len(u) = Len(w) + Len(x)
      BY <1>1, <1>4
    <3>5. QED
      BY ONLY <3>2, <3>3, <3>4
  <2>2. r * BlockSize + 1 \in Len(w) + 1 .. Len(w) + Len(x)
        /\ Len(w) + Len(x) \in Len(w) + 1 .. Len(w) + Len(x)
    BY <1>1
  <2>3. SubSeq(w \o x, r * BlockSize + 1, Len(w) + Len(x))
          = SubSeq(x, r * BlockSize + 1 - Len(w), Len(w) + Len(x) - Len(w))
    BY <2>2, SubSeqOfConcat2
  <2>4. r * BlockSize + 1 - Len(w) = 1 /\ Len(w) + Len(x) - Len(w) = Len(x)
    BY <1>1
  <2>5. SubSeq(x, 1, Len(x)) = x
    BY SubSeqFull
  <2>6. QED
    BY <1>3, <2>1, <2>3, <2>4, <2>5 DEF Part
<1>8. ASSUME NEW s \in Nat, s < r PROVE Part(u, s) = Part(w, s)
  <2>1. PICK a \in Nat, z \in Nat : a = s * BlockSize /\ z = (s + 1) * BlockSize
    BY <1>1
  <2>2. z = a + BlockSize /\ z <= Len(w)
    <3>1. a + BlockSize <= r * BlockSize
      BY <1>1, <1>8, <2>1, Multiples
    <3>2. z = a + BlockSize
      BY <1>1, <2>1, Multiples
    <3>3. QED
      BY <3>1, <3>2
  <2>3. Upto(u, s + 1) = z /\ Upto(w, s + 1) = z
    BY ONLY <1>1, <1>4, <2>1, <2>2 DEF Upto
  <2>4. a + 1 \in 1 .. Len(w) /\ z \in 1 .. Len(w)
    BY ONLY <1>1, <2>1, <2>2
  <2>5. SubSeq(w \o x, a + 1, z) = SubSeq(w, a + 1, z)
    BY <2>4, SubSeqOfConcat1
  <2>6. QED
    BY <1>3, <2>1, <2>3, <2>5 DEF Part
<1>9. u # <<>>
  BY <1>1, <1>4
<1>10. QED
  BY <1>3, <1>5, <1>6, <1>7, <1>8, <1>9

-----------------------------------------------------------------------------
(* Stores: the entries of the cache, before and after one is taken out *)

EntrySet == [key : Keys, val : Seq(Nat), up : 0 .. MaxTime]

IsStore(s) ==
  /\ s \in Seq(EntrySet)
  /\ \A m, n \in DOMAIN s : s[m].key = s[n].key => m = n
  /\ \A m \in DOMAIN s : s[m].val # <<>>

\* s is what is left of t, in the same order, without key k and nothing else.
Loses(t, s, k) ==
  \E f \in [DOMAIN s -> DOMAIN t] :
    /\ \A m, n \in DOMAIN s : m < n => f[m] < f[n]
    /\ \A m \in DOMAIN s : s[m] = t[f[m]] /\ s[m].key # k
    /\ \A i \in DOMAIN t : t[i].key # k => \E m \in DOMAIN s : f[m] = i

CutOut(s, p) == SubSeq(s, 1, p - 1) \o SubSeq(s, p + 1, Len(s))

LEMMA CutIs ==
  ASSUME NEW S, NEW s \in Seq(S), NEW p \in DOMAIN s
  PROVE  /\ CutOut(s, p) \in Seq(S)
         /\ Len(CutOut(s, p)) = Len(s) - 1
         /\ \A m \in 1 .. Len(s) - 1 : CutOut(s, p)[m] = IF m < p THEN s[m] ELSE s[m + 1]
<1>1. p \in 1 .. Len(s) /\ Len(s) \in Nat
  OBVIOUS
<1>2. PICK a : a = SubSeq(s, 1, p - 1)
  OBVIOUS
<1>3. PICK b : b = SubSeq(s, p + 1, Len(s))
  OBVIOUS
<1>4. /\ a \in Seq(S) /\ Len(a) = p - 1
      /\ \A i \in 1 .. p - 1 : a[i] = s[i]
  <2>1. 1 \in Nat \ {0} /\ p - 1 \in 0 .. Len(s)
    BY <1>1
  <2>2. /\ a \in Seq(S) /\ Len(a) = IF 1 <= p - 1 THEN (p - 1) - 1 + 1 ELSE 0
        /\ \A i \in 1 .. (p - 1) - 1 + 1 : a[i] = s[1 + i - 1]
    BY ONLY <1>2, <2>1, Slice, s \in Seq(S)
  <2>3. QED
    BY <1>1, <2>2
<1>5. /\ b \in Seq(S) /\ Len(b) = Len(s) - p
      /\ \A i \in 1 .. Len(s) - p : b[i] = s[p + i]
  <2>1. p + 1 \in Nat \ {0} /\ Len(s) \in 0 .. Len(s)
    BY <1>1
  <2>2. /\ b \in Seq(S) /\ Len(b) = IF p + 1 <= Len(s) THEN Len(s) - (p + 1) + 1 ELSE 0
        /\ \A i \in 1 .. Len(s) - (p + 1) + 1 : b[i] = s[p + 1 + i - 1]
    BY ONLY <1>3, <2>1, Slice, s \in Seq(S)
  <2>3. QED
    BY <1>1, <2>2
<1>6. /\ a \o b \in Seq(S) /\ Len(a \o b) = Len(a) + Len(b)
      /\ \A i \in 1 .. Len(a) + Len(b) : (a \o b)[i] = IF i <= Len(a) THEN a[i] ELSE b[i - Len(a)]
  BY <1>4, <1>5, ConcatProperties
<1>7. ASSUME NEW m \in 1 .. Len(s) - 1
      PROVE  (a \o b)[m] = IF m < p THEN s[m] ELSE s[m + 1]
  <2>1. m \in 1 .. Len(a) + Len(b)
    BY <1>1, <1>4, <1>5
  <2>2. CASE m < p
    <3>1. m <= Len(a) /\ m \in 1 .. p - 1
      BY <1>1, <1>4, <2>2
    <3>2. QED
      BY <1>4, <1>6, <2>1, <2>2, <3>1
  <2>3. CASE ~ (m < p)
    <3>1. ~ (m <= Len(a)) /\ m - Len(a) \in 1 .. Len(s) - p /\ p + (m - Len(a)) = m + 1
      BY <1>1, <1>4, <2>3
    <3>2. (a \o b)[m] = b[m - Len(a)]
      BY <1>6, <2>1, <3>1
    <3>3. QED
      BY <1>5, <2>3, <3>1, <3>2
  <2>4. QED
    BY <2>2, <2>3
<1>8. Len(a) + Len(b) = Len(s) - 1
  BY <1>1, <1>4, <1>5
<1>9. QED
  BY <1>2, <1>3, <1>6, <1>7, <1>8 DEF CutOut

\* An entry is cut out of a store.
LEMMA CutLoses ==
  ASSUME NEW s, IsStore(s), NEW p \in DOMAIN s
  PROVE  IsStore(CutOut(s, p)) /\ Loses(s, CutOut(s, p), s[p].key)
<1>1. /\ s \in Seq(EntrySet) /\ Len(s) \in Nat /\ DOMAIN s = 1 .. Len(s) /\ p \in 1 .. Len(s)
      /\ \A m, n \in DOMAIN s : s[m].key = s[n].key => m = n
      /\ \A m \in DOMAIN s : s[m].val # <<>>
  BY DEF IsStore
<1>2. PICK c : c = CutOut(s, p)
  OBVIOUS
<1>3. /\ c \in Seq(EntrySet) /\ Len(c) = Len(s) - 1 /\ DOMAIN c = 1 .. Len(s) - 1
      /\ \A m \in 1 .. Len(s) - 1 : c[m] = IF m < p THEN s[m] ELSE s[m + 1]
  <2>1. /\ c \in Seq(EntrySet) /\ Len(c) = Len(s) - 1
        /\ \A m \in 1 .. Len(s) - 1 : c[m] = IF m < p THEN s[m] ELSE s[m + 1]
    BY ONLY <1>1, <1>2, CutIs, p \in DOMAIN s
  <2>2. QED
    BY <2>1
<1> DEFINE f == [m \in DOMAIN c |-> IF m < p THEN m ELSE m + 1]
<1>4. \A m \in DOMAIN c : f[m] = IF m < p THEN m ELSE m + 1
  OBVIOUS
<1>5. f \in [DOMAIN c -> DOMAIN s]
  BY <1>1, <1>3
<1> HIDE DEF f
<1>6. \A m \in DOMAIN c : c[m] = s[f[m]] /\ f[m] # p
  BY <1>1, <1>3, <1>4
<1>7. \A m, n \in DOMAIN c : m < n => f[m] < f[n]
  BY <1>1, <1>3, <1>4
<1>8. ASSUME NEW i \in DOMAIN s, i # p PROVE \E m \in DOMAIN c : f[m] = i
  <2>1. CASE i < p
    BY <1>1, <1>3, <1>4, <2>1
  <2>2. CASE i > p
    <3>1. i - 1 \in DOMAIN c /\ ~ (i - 1 < p) /\ i - 1 + 1 = i
      BY <1>1, <1>3, <2>2
    <3>2. QED
      BY <1>4, <3>1
  <2>3. QED
    BY <1>1, <1>8, <2>1, <2>2
<1>9. \A m \in DOMAIN c : c[m] = s[f[m]] /\ c[m].key # s[p].key
  BY <1>1, <1>5, <1>6
<1>10. Loses(s, c, s[p].key)
  BY <1>5, <1>7, <1>8, <1>9 DEF Loses
<1>11. \A m, n \in DOMAIN c : c[m].key = c[n].key => m = n
  <2>1. \A m, n \in DOMAIN c : f[m] = f[n] => m = n
    BY <1>3, <1>4, <1>1
  <2>2. QED
    BY <1>1, <1>5, <1>6, <2>1
<1>12. \A m \in DOMAIN c : c[m].val # <<>>
  BY <1>1, <1>5, <1>6
<1>13. QED
  BY <1>2, <1>3, <1>10, <1>11, <1>12 DEF IsStore

-----------------------------------------------------------------------------
(* The inductive invariant                                                 *)
(*                                                                         *)
(* N is what is stored at this moment of an operation: entries, less what  *)
(* the operation has thrown away, and with what it has stored.  A key that *)
(* DeleteHash is at work on is not in N; its blocks may be in any state.   *)

Doomed == IF op.pc = "delete" THEN op.dkey ELSE 0
Live   == {i \in Idx : key[i] # 0 /\ key[i] # Doomed}

\* rank numbers the blocks of a key, from 0, in the order of its bytes: every
\* part of every value is in one block, and the chain leads from part to part.
Parts(N, rank) ==
  /\ rank \in [Idx -> Nat]
  /\ \A m \in DOMAIN N : N[m].key # Doomed
  /\ \A i \in Live : \E m \in DOMAIN N : N[m].key = key[i]
  /\ \A i \in Live : \A m \in DOMAIN N : N[m].key = key[i] =>
       /\ up[i] = N[m].up
       /\ rank[i] < Lru!BlocksOf(N[m].val) /\ chunk[i] = Part(N[m].val, rank[i])
  /\ \A m \in DOMAIN N : \A r \in Nat : r < Lru!BlocksOf(N[m].val) =>
       \E i \in Live : key[i] = N[m].key /\ rank[i] = r
  /\ \A i, j \in Live : key[i] = key[j] /\ rank[i] = rank[j] => i = j
InRow(rank) ==
  /\ \A i \in Live \cap Linked :
       next[i] # Nil /\ key[next[i]] = key[i] => rank[next[i]] = rank[i] + 1
  /\ op.pc = "insert" => \A j \in Live : key[j] = op.key => rank[j] <= rank[op.idx]
Stored(N, rank) == IsStore(N) /\ Parts(N, rank) /\ InRow(rank)

\* The blocks of an older entry are before those of a more recent one, except
\* for a block that is not linked yet and those that Get is going to move.
Unplaced(i, rank, g) ==
  \/ op.pc = "insert" /\ i = op.idx
  \/ op.pc = "get" /\ key[i] = op.key /\ rank[i] >= g
InTurn(N, pos, rank, g) ==
  \A m, n \in DOMAIN N : m < n =>
    \A i, j \in Live : key[i] = N[m].key /\ key[j] = N[n].key =>
      pos[i] < pos[j] \/ Unplaced(j, rank, g)

\* Set of v: lost has gone round the whole store q times, w is stored and the
\* rest is to come; the e oldest entries had to go.
SetUntil(N, v, e, q, lost, w) ==
  LET W == Lru!Without(op.key)
  IN  /\ v = lost \o (w \o op.rest) /\ Len(lost) = q * (BlockNum * BlockSize)
      /\ op.rest # <<>> => \E r \in Nat : Len(w) = r * BlockSize
      /\ w = <<>> => op.rest # <<>> \/ v = <<>>
      /\ q > 0 => e = Len(W)
      /\ v = <<>> => e = 0
      /\ \A j \in 0 .. e - 1 : Lru!BlocksUsed(Lru!Behind(W, j)) + Lru!BlocksOf(v) > BlockNum
      /\ N = IF w = <<>> THEN Lru!Behind(W, e)
             ELSE Append(Lru!Behind(W, e), [key |-> op.key, val |-> w, up |-> now])
Setting(N) ==
  /\ op.ret = "OK" /\ op.out = <<>> /\ op.key \in Keys
  /\ \E v \in Values, q \in Nat, lost \in Seq(Nat), w \in Seq(Nat) :
       \E e \in 0 .. Len(Lru!Without(op.key)) : SetUntil(N, v, e, q, lost, w)

\* Get has moved and collected g blocks, and stands behind the last of them.
Getting(N, rank, g) ==
  /\ op.key \in Keys /\ N = Lru!Moved(op.key) /\ g \in Nat
  /\ op.cur # Nil => op.cur \in Linked /\ Hash(key[op.cur]) = Hash(op.key)
  /\ g = 0 => /\ op.ret = "KEY_NO_EXIST" /\ op.out = <<>>
              /\ \E depth : /\ Depths(depth)
                            /\ \A j \in Linked : key[j] = op.key =>
                                 op.cur # Nil /\ depth[op.cur] <= depth[j]
  /\ g > 0 => /\ op.ret = "OK" /\ Lru!Places(op.key) # {}
              /\ LET e == entries[Lru!Place(op.key)]
                 IN  /\ ~ Lru!Stale(e) /\ g <= Lru!BlocksOf(e.val)
                     /\ op.out = First(e.val, g)
              /\ \E p \in Linked : key[p] = op.key /\ rank[p] = g - 1 /\ next[p] = op.cur

\* What an operation has done when it comes to its Unlock.
Done(N) ==
  \/ /\ op.ret = "OK" /\ op.out = <<>>
     /\ \/ \E k \in Keys, v \in Values : N = Lru!AfterSet(k, v)
        \/ \E k \in Keys : N = Lru!Without(k)
        \/ Lru!Thinned(entries, N)
  \/ \E k \in Keys :
       \/ /\ Lru!Places(k) = {} /\ N = entries
          /\ op.ret = "KEY_NO_EXIST" /\ op.out = <<>>
       \/ /\ Lru!Places(k) # {} /\ Lru!Stale(entries[Lru!Place(k)]) /\ N = Lru!Without(k)
          /\ op.ret = "KEY_TIMEOUT" /\ op.out = <<>>
       \/ /\ Lru!Places(k) # {} /\ ~ Lru!Stale(entries[Lru!Place(k)]) /\ N = Lru!Moved(k)
          /\ op.ret = "OK" /\ op.out = entries[Lru!Place(k)].val

Phase == IF op.pc = "delete" THEN op.call ELSE IF op.pc = "insert" THEN "set" ELSE op.pc

Doing(N, rank, g) ==
  /\ Phase = "idle"   => N = entries
  /\ Phase = "set"    => Setting(N)
  /\ Phase = "get"    => Getting(N, rank, g)
  /\ Phase = "check"  => Lru!Thinned(entries, N) /\ op.ret = "OK" /\ op.out = <<>>
  /\ Phase = "unlock" => Done(N)

\* DeleteHash goes on while the keys are smaller.
Passed == op.pc = "delete" /\ op.prev # Nil => key[op.prev] < op.dkey

Holding ==
  \E N, rank, pos, g :
    Numbers(pos) /\ Stored(N, rank) /\ InTurn(N, pos, rank, g) /\ Doing(N, rank, g)

LruInv == CacheInv /\ IsStore(entries) /\ Passed /\ Holding

-----------------------------------------------------------------------------
(* What follows from the invariant in one state *)

\* Blocks that are not Nil have the types of the record.
LEMMA LiveAre ==
  ASSUME Typed, ShmCacheAssumption
  PROVE  /\ \A i \in Live : i \in Idx /\ key[i] \in Keys /\ key[i] # 0
         /\ op.pc # "delete" => \A i \in Idx : key[i] # 0 => i \in Live
         /\ \A i \in Linked : i \in Idx /\ key[i] \in Keys /\ key[i] # 0
         /\ 0 \notin Keys
BY DEF Live, Doomed, Linked, Typed, ShmCacheAssumption

\* Along a chain the parts of a value are one behind the other.
LEMMA RanksFollow ==
  ASSUME Typed, ShmCacheAssumption, NEW N, NEW rank, Stored(N, rank),
         NEW depth, Depths(depth), NEW i \in Live \cap Linked
  PROVE  \A j \in Live \cap Linked : key[j] = key[i] /\ depth[i] <= depth[j] =>
           rank[j] = rank[i] + (depth[j] - depth[i])
<1>0. /\ \A j \in Idx : depth[j] \in Nat /\ rank[j] \in Nat
      /\ \A j \in Linked : j \in Idx
  BY DEF Depths, Stored, Parts, Linked
<1> DEFINE T == {n \in Nat : \A j \in Live \cap Linked :
                   key[j] = key[i] /\ depth[j] = depth[i] + n => rank[j] = rank[i] + n}
<1>1. 0 \in T
  <2>1. ASSUME NEW j \in Live \cap Linked, key[j] = key[i], depth[j] = depth[i] + 0
        PROVE  rank[j] = rank[i] + 0
    <3>1. depth[j] = depth[i]
      BY <1>0, <2>1
    <3>2. j = i
      BY <2>1, <3>1 DEF Depths, Sorted
    <3>3. QED
      BY <1>0, <3>2
  <2>2. QED
    BY <2>1
<1>2. ASSUME NEW n \in T PROVE n + 1 \in T
  <2>1. ASSUME NEW j \in Live \cap Linked, key[j] = key[i], depth[j] = depth[i] + (n + 1)
        PROVE  rank[j] = rank[i] + (n + 1)
    <3>1. /\ i \in Linked /\ j \in Linked /\ n \in Nat
          /\ \A x \in Linked : depth[x] \in Nat /\ rank[x] \in Nat
          /\ depth[i] >= 1
      BY <1>0 DEF Depths, Firsts
    <3>2. depth[j] > 1
      BY <2>1, <3>1
    <3>3. PICK p \in Linked : next[p] = j
      BY <3>1, <3>2 DEF Depths, Reached
    <3>4. j # Nil
      BY <3>1, NilIsNone DEF Linked
    <3>5. Hash(key[p]) = Hash(key[j]) /\ depth[j] = depth[p] + 1
      BY <3>3, <3>4 DEF Depths, Follows
    <3>6. depth[p] = depth[i] + n
      BY <2>1, <3>1, <3>5
    <3>7. key[p] = key[i]
      <4>1. CASE n = 0
        <5>1. depth[p] = depth[i]
          BY <3>1, <3>6, <4>1
        <5>2. p = i
          BY <2>1, <3>1, <3>5, <5>1 DEF Depths, Sorted
        <5>3. QED
          BY <5>2
      <4>2. CASE n > 0
        <5>1. depth[i] < depth[p] /\ depth[p] < depth[j]
          BY <3>1, <3>5, <3>6, <4>2
        <5>2. key[i] <= key[p] /\ key[p] <= key[j]
          BY <2>1, <3>1, <3>5, <5>1 DEF Depths, Sorted
        <5>3. key[i] \in Nat /\ key[p] \in Nat
          BY <3>1, LiveAre DEF ShmCacheAssumption
        <5>4. QED
          BY <2>1, <5>2, <5>3
      <4>3. QED
        BY <3>1, <4>1, <4>2
    <3>8. p \in Live \cap Linked
      BY <3>1, <3>7, <1>0 DEF Live
    <3>9. rank[p] = rank[i] + n
      BY <3>6, <3>7, <3>8
    <3>10. rank[j] = rank[p] + 1
      BY <2>1, <3>3, <3>4, <3>7, <3>8 DEF Stored, InRow
    <3>11. QED
      BY <3>1, <3>9, <3>10
  <2>2. n + 1 \in Nat
    OBVIOUS
  <2>3. QED
    BY <2>1, <2>2
<1>3. T \in SUBSET Nat
  OBVIOUS
<1> HIDE DEF T
<1>4. T = Nat
  BY <1>1, <1>2, <1>3, FromZero
<1>5. ASSUME NEW j \in Live \cap Linked, key[j] = key[i], depth[i] <= depth[j]
      PROVE  rank[j] = rank[i] + (depth[j] - depth[i])
  <2>1. PICK n \in Nat : n = depth[j] - depth[i] /\ depth[j] = depth[i] + n
    <3>1. depth[j] \in Nat /\ depth[i] \in Nat
      BY <1>0
    <3>2. QED
      BY <1>5, <3>1
  <2>2. n \in T
    BY <1>4
  <2>3. QED
    BY <1>5, <2>1, <2>2 DEF T
<1>6. QED
  BY <1>5

-----------------------------------------------------------------------------
(* Steps that leave the blocks alone *)

\* The parts are where they were when the blocks in use are what they were.
LEMMA PartsSame ==
  ASSUME NEW N, NEW rank, Parts(N, rank), Live' = Live,
         \A i \in Live : key'[i] = key[i] /\ chunk'[i] = chunk[i] /\ up'[i] = up[i],
         \A m \in DOMAIN N : N[m].key # Doomed'
  PROVE  Parts(N, rank)'
<1>1. rank \in [Idx -> Nat]
  BY DEF Parts
<1>2. \A i \in Live' : \E m \in DOMAIN N : N[m].key = key'[i]
  BY DEF Parts
<1>3. \A i \in Live' : \A m \in DOMAIN N : N[m].key = key'[i] =>
       /\ up'[i] = N[m].up
       /\ rank[i] < Lru!BlocksOf(N[m].val) /\ chunk'[i] = Part(N[m].val, rank[i])
  BY DEF Parts
<1>4. ASSUME NEW m \in DOMAIN N, NEW r \in Nat, r < Lru!BlocksOf(N[m].val)
      PROVE  \E i \in Live' : key'[i] = N[m].key /\ rank[i] = r
  <2>1. PICK i \in Live : key[i] = N[m].key /\ rank[i] = r
    BY <1>4 DEF Parts
  <2>2. QED
    BY <2>1
<1>5. \A i, j \in Live' : key'[i] = key'[j] /\ rank[i] = rank[j] => i = j
  BY DEF Parts
<1>6. QED
  BY <1>1, <1>2, <1>3, <1>4, <1>5 DEF Parts

\* A walk that throws nothing away leaves what is stored in its place.
LEMMA ReaderKeeps ==
  ASSUME CacheInv, ShmCacheAssumption, Reading, Live' = Live,
         Doomed' = Doomed \/ Doomed' = 0,
         NEW N, NEW rank, NEW pos, NEW g,
         Numbers(pos), Stored(N, rank), InTurn(N, pos, rank, g),
         \A j \in Live : Unplaced(j, rank, g) => Unplaced(j, rank, g)'
  PROVE  Numbers(pos)' /\ Stored(N, rank)' /\ InTurn(N, pos, rank, g)'
<1>1. /\ key' = key /\ next' = next /\ chunk' = chunk /\ up' = up
      /\ pre' = pre /\ nxt' = nxt /\ lhead' = lhead /\ ltail' = ltail
      /\ Linked' = Linked
  BY ReadingKeeps DEF CacheInv, Reading, heap, lru
<1>2. Numbers(pos)'
  BY <1>1 DEF Numbers
<1>3. \A m \in DOMAIN N : N[m].key # Doomed'
  <2>1. \A m \in DOMAIN N : N[m] \in EntrySet
    BY DEF Stored, IsStore
  <2>2. \A m \in DOMAIN N : N[m].key # 0
    BY <2>1 DEF EntrySet, ShmCacheAssumption
  <2>3. QED
    BY <2>2 DEF Stored, Parts
<1>4. Parts(N, rank)'
  BY <1>1, <1>3, PartsSame DEF Stored
<1>5. InRow(rank)'
  <2>1. op'.pc = "insert" => op.pc = "insert" /\ op'.key = op.key /\ op'.idx = op.idx
    BY DEF Reading
  <2>2. \A i \in (Live \cap Linked)' :
          next'[i] # Nil /\ key'[next'[i]] = key'[i] => rank[next'[i]] = rank[i] + 1
    BY <1>1 DEF Stored, InRow
  <2>3. op'.pc = "insert" => \A j \in Live' : key'[j] = op'.key => rank[j] <= rank[op'.idx]
    BY <1>1, <2>1 DEF Stored, InRow
  <2>4. QED
    BY <2>2, <2>3 DEF InRow
<1>6. InTurn(N, pos, rank, g)'
  BY <1>1 DEF InTurn
<1>7. QED
  BY <1>2, <1>4, <1>5, <1>6 DEF Stored

\* When DeleteHash begins, its key is no longer stored.
LEMMA Begins ==
  ASSUME CacheInv, ShmCacheAssumption, Reading,
         op.pc # "delete", op'.pc = "delete", op'.prev = Nil, NEW k, op'.dkey = k,
         NEW N, NEW M, NEW rank, NEW pos, NEW g,
         Numbers(pos), Stored(N, rank), InTurn(N, pos, rank, g),
         IsStore(M), Loses(N, M, k),
         \A j \in Live : key[j] # k => ~ Unplaced(j, rank, g)
  PROVE  Numbers(pos)' /\ Stored(M, rank)' /\ InTurn(M, pos, rank, g)' /\ Passed'
<1>1. /\ key' = key /\ next' = next /\ chunk' = chunk /\ up' = up
      /\ pre' = pre /\ nxt' = nxt /\ lhead' = lhead /\ ltail' = ltail
      /\ Linked' = Linked
  BY ReadingKeeps DEF CacheInv, Reading, heap, lru
<1>2. Numbers(pos)'
  BY <1>1 DEF Numbers
<1>3. Doomed = 0 /\ Doomed' = k
  BY DEF Doomed
<1>4. Live' = {i \in Live : key[i] # k}
  BY <1>1, <1>3 DEF Live
<1>5. PICK f \in [DOMAIN M -> DOMAIN N] :
         /\ \A m, n \in DOMAIN M : m < n => f[m] < f[n]
         /\ \A m \in DOMAIN M : M[m] = N[f[m]] /\ M[m].key # k
         /\ \A i \in DOMAIN N : N[i].key # k => \E m \in DOMAIN M : f[m] = i
  BY DEF Loses
<1>6. Parts(M, rank)'
  <2>1. \A m \in DOMAIN M : M[m].key # Doomed'
    BY <1>3, <1>5
  <2>2. ASSUME NEW i \in Live' PROVE \E m \in DOMAIN M : M[m].key = key[i]
    <3>1. PICK n \in DOMAIN N : N[n].key = key[i]
      BY <1>4 DEF Stored, Parts
    <3>2. PICK m \in DOMAIN M : f[m] = n
      BY <1>4, <1>5, <3>1
    <3>3. QED
      BY <1>5, <3>1, <3>2
  <2>3. ASSUME NEW i \in Live', NEW m \in DOMAIN M, M[m].key = key[i]
        PROVE  /\ up[i] = M[m].up
               /\ rank[i] < Lru!BlocksOf(M[m].val) /\ chunk[i] = Part(M[m].val, rank[i])
    BY <1>4, <1>5, <2>3 DEF Stored, Parts
  <2>4. ASSUME NEW m \in DOMAIN M, NEW r \in Nat, r < Lru!BlocksOf(M[m].val)
        PROVE  \E i \in Live' : key[i] = M[m].key /\ rank[i] = r
    <3>1. PICK i \in Live : key[i] = M[m].key /\ rank[i] = r
      BY <1>5, <2>4 DEF Stored, Parts
    <3>2. QED
      BY <1>4, <1>5, <3>1
  <2>5. \A i, j \in Live' : key[i] = key[j] /\ rank[i] = rank[j] => i = j
    BY <1>4 DEF Stored, Parts
  <2>6. rank \in [Idx -> Nat]
    BY DEF Stored, Parts
  <2>7. QED
    BY <1>1, <2>1, <2>2, <2>3, <2>4, <2>5, <2>6 DEF Parts
<1>7. InRow(rank)'
  BY <1>1, <1>4 DEF Stored, InRow
<1>8. InTurn(M, pos, rank, g)'
  <2> SUFFICES ASSUME NEW m \in DOMAIN M, NEW n \in DOMAIN M, m < n,
                      NEW i \in Live', NEW j \in Live', key[i] = M[m].key, key[j] = M[n].key
               PROVE  pos[i] < pos[j]
    BY <1>1 DEF InTurn
  <2>1. /\ f[m] < f[n] /\ f[m] \in DOMAIN N /\ f[n] \in DOMAIN N
        /\ key[i] = N[f[m]].key /\ key[j] = N[f[n]].key
    BY <1>5
  <2>2. i \in Live /\ j \in Live /\ key[j] # k
    BY <1>4
  <2>3. pos[i] < pos[j] \/ Unplaced(j, rank, g)
    BY <2>1, <2>2 DEF InTurn
  <2>4. QED
    BY <2>2, <2>3
<1>9. Passed'
  BY DEF Passed
<1>10. QED
  BY <1>2, <1>6, <1>7, <1>8, <1>9 DEF Stored

-----------------------------------------------------------------------------
(* Steps that change the blocks *)

\* The order of the other blocks when one is moved to an end of the list.
LEMMA TailKeeps ==
  ASSUME NEW c \in Idx, NEW pos, Numbers(pos), ShmCacheAssumption
  PROVE  /\ \A i \in Idx : i # c => ToTail(pos, c)[i] < ToTail(pos, c)[c]
         /\ \A i, j \in Idx : i # c /\ pos[i] < pos[j] => ToTail(pos, c)[i] < ToTail(pos, c)[j]
<1>1. /\ pos \in [Idx -> 0 .. BlockNum - 1] /\ BlockNum \in Nat
      /\ \A i, j \in Idx : pos[i] = pos[j] => i = j
  BY DEF Numbers, ShmCacheAssumption
<1>2. \A i \in Idx : pos[i] \in 0 .. BlockNum - 1 /\ (i # c => pos[i] # pos[c])
  BY <1>1
<1>3. PICK q : q = ToTail(pos, c)
  OBVIOUS
<1>4. \A i \in Idx : q[i] = IF i = c THEN BlockNum - 1
                            ELSE IF pos[i] > pos[c] THEN pos[i] - 1 ELSE pos[i]
  BY <1>3 DEF ToTail
<1>5. ASSUME NEW i \in Idx, i # c PROVE q[i] < q[c]
  BY <1>1, <1>2, <1>4, <1>5
<1>6. ASSUME NEW i \in Idx, NEW j \in Idx, i # c, pos[i] < pos[j] PROVE q[i] < q[j]
  BY <1>1, <1>2, <1>4, <1>5, <1>6
<1>7. QED
  BY <1>3, <1>5, <1>6

LEMMA HeadKeeps ==
  ASSUME NEW c \in Idx, NEW pos, Numbers(pos), ShmCacheAssumption
  PROVE  \A i, j \in Idx : i # c /\ j # c /\ pos[i] < pos[j]
                             => ToHead(pos, c)[i] < ToHead(pos, c)[j]
<1>1. /\ pos \in [Idx -> 0 .. BlockNum - 1] /\ BlockNum \in Nat
      /\ \A i, j \in Idx : pos[i] = pos[j] => i = j
  BY DEF Numbers, ShmCacheAssumption
<1>2. \A i \in Idx : pos[i] \in 0 .. BlockNum - 1 /\ (i # c => pos[i] # pos[c])
  BY <1>1
<1>3. PICK q : q = ToHead(pos, c)
  OBVIOUS
<1>4. \A i \in Idx : q[i] = IF i = c THEN 0
                            ELSE IF pos[i] < pos[c] THEN pos[i] + 1 ELSE pos[i]
  BY <1>3 DEF ToHead
<1>5. ASSUME NEW i \in Idx, NEW j \in Idx, i # c, j # c, pos[i] < pos[j] PROVE q[i] < q[j]
  BY <1>1, <1>2, <1>4, <1>5
<1>6. QED
  BY <1>3, <1>5

\* A block that DeleteHash frees was not stored any more.
LEMMA DeleteHolds ==
  ASSUME CacheInv, Passed, DeleteBlock, ShmCacheAssumption,
         NEW N, NEW rank, NEW pos, NEW g,
         Numbers(pos), Stored(N, rank), InTurn(N, pos, rank, g)
  PROVE  Passed' /\ \E q : Numbers(q)' /\ Stored(N, rank)' /\ InTurn(N, q, rank, g)'
<1> USE OpRecord, LinkTypes DEF CacheInv
<1>1. PICK c \in Idx : c = op.cur
  BY DEF DeleteBlock
<1>2. /\ op.pc = "delete" /\ op.cur # Nil /\ key[c] = op.dkey
      /\ key \in [Idx -> Keys \cup {0}]
  BY <1>1 DEF DeleteBlock, Typed
<1>3. \A i \in Idx : key'[i] = IF i = c THEN 0 ELSE key[i]
  BY <1>1, <1>2 DEF DeleteBlock
<1>4. op'.pc = "delete" /\ op'.dkey = op.dkey /\ op'.prev = op.prev
  BY <1>1, <1>2 DEF DeleteBlock, Ops
<1>5. PICK depth : Depths(depth)
  BY DEF Chains
<1>6. /\ c \in Linked /\ key[c] # 0
      /\ op.prev # Nil => /\ op.prev \in Linked /\ op.prev # c /\ next[op.prev] = c
                          /\ Hash(key[op.prev]) = Hash(key[c])
  <2>1. Cursor(op.dkey) /\ op.dkey \in Keys \cup {0}
    BY <1>2 DEF Walked
  <2>2. /\ op.prev # Nil => op.prev \in Linked /\ Hash(key[op.prev]) = Hash(op.dkey)
        /\ op.cur # Nil => /\ op.cur \in Linked /\ Hash(key[op.cur]) = Hash(op.dkey)
                           /\ depth[op.cur] = IF op.prev = Nil THEN 1
                                              ELSE depth[op.prev] + 1
    BY ONLY <1>5, <2>1, CursorLinked, Typed, ShmCacheAssumption
  <2>3. \A i \in Linked : depth[i] \in Nat
    BY <1>5 DEF Depths, Linked
  <2>4. op.prev # Nil => next[op.prev] = c
    BY <1>1, <2>1 DEF Cursor
  <2>5. QED
    BY <1>1, <1>2, <2>2, <2>3, <2>4 DEF Linked
<1>7. Live' = Live /\ \A i \in Live : i \in Idx /\ i # c /\ key'[i] = key[i]
  BY <1>2, <1>3, <1>4, <1>6 DEF Live, Doomed
<1>8. Linked' = Linked \ {c}
  BY <1>2, <1>3, <1>4 DEF Linked
<1>9. Parts(N, rank)'
  <2>1. \A i \in Live : chunk'[i] = chunk[i] /\ up'[i] = up[i]
    BY <1>1, <1>7 DEF DeleteBlock, Typed
  <2>2. \A m \in DOMAIN N : N[m].key # Doomed'
    BY <1>2, <1>4 DEF Stored, Parts, Doomed
  <2>3. QED
    BY <1>7, <2>1, <2>2, PartsSame DEF Stored
<1>10. InRow(rank)'
  <2> SUFFICES ASSUME NEW i \in Live, i \in Linked, i # c,
                      next'[i] # Nil, key'[next'[i]] = key[i]
               PROVE  rank[next'[i]] = rank[i] + 1
    BY <1>4, <1>7, <1>8 DEF InRow
  <2>0. i \in Idx /\ key[i] # 0 /\ key[i] \in Keys
    BY LiveAre
  <2>1. next'[i] = IF i = op.prev THEN next[c] ELSE next[i]
    <3>1. next \in [Idx -> Links]
      BY DEF Typed
    <3>2. CASE op.prev = Nil
      <4>1. next' = [next EXCEPT ![c] = Nil]
        BY <1>1, <3>2 DEF DeleteBlock
      <4>2. i # op.prev
        BY <2>0, <3>2, NilIsNone
      <4>3. QED
        BY <2>0, <3>1, <4>1, <4>2
    <3>3. CASE op.prev # Nil
      <4>1. next' = [next EXCEPT ![op.prev] = next[c], ![c] = Nil]
        BY <1>1, <3>3 DEF DeleteBlock
      <4>2. op.prev \in Idx
        BY <1>6, <3>3 DEF Linked
      <4>3. QED
        BY <2>0, <3>1, <4>1, <4>2
    <3>4. QED
      BY <3>2, <3>3
  <2>2. CASE i # op.prev
    <3>1. next[i] # Nil /\ next[i] \in Linked
      BY <1>5, <2>1, <2>2 DEF Depths, Follows
    <3>2. key[next[i]] = key[i]
      BY <1>3, <2>0, <2>1, <2>2, <3>1 DEF Linked
    <3>3. QED
      BY <2>1, <2>2, <3>1, <3>2 DEF Stored, InRow
  <2>3. CASE i = op.prev
    <3>1. next[c] # Nil /\ next'[i] = next[c]
      BY <2>1, <2>3
    <3>2. /\ next[c] \in Linked /\ Hash(key[next[c]]) = Hash(key[c])
          /\ depth[next[c]] = depth[c] + 1 /\ depth[c] \in Nat
      BY <1>5, <1>6, <3>1 DEF Depths, Follows
    <3>3. key[c] <= key[next[c]]
      <4>1. depth[c] < depth[next[c]]
        BY <3>2
      <4>2. QED
        BY <1>5, <1>6, <3>2, <4>1 DEF Depths, Sorted
    <3>4. next[c] # c /\ key[next[c]] = key[i]
      <4>1. next[c] # c
        BY <3>2
      <4>2. QED
        BY <1>3, <3>1, <3>2, <4>1 DEF Linked
    <3>5. key[i] < key[c]
      <4>1. op.prev # Nil
        BY <2>0, <2>3, NilIsNone
      <4>2. QED
        BY <1>2, <2>3, <4>1 DEF Passed
    <3>6. key[c] \in Nat /\ key[i] \in Nat
      BY <1>6, <2>0, LiveAre DEF ShmCacheAssumption
    <3>7. QED
      BY <3>3, <3>4, <3>5, <3>6
  <2>4. QED
    BY <2>2, <2>3
<1>11. PICK q : q = ToHead(pos, c)
  OBVIOUS
<1>12. Numbers(q)'
  <2>1. ListTyped /\ MoveLRUHead(c)
    BY <1>1 DEF Typed, ListTyped, DeleteBlock
  <2>2. QED
    BY <1>11, <2>1, HeadNumbers
<1>13. InTurn(N, q, rank, g)'
  <2> SUFFICES ASSUME NEW m \in DOMAIN N, NEW n \in DOMAIN N, m < n,
                      NEW i \in Live, NEW j \in Live, key[i] = N[m].key, key[j] = N[n].key
               PROVE  q[i] < q[j]
    BY <1>7 DEF InTurn
  <2>1. pos[i] < pos[j]
    BY <1>2 DEF InTurn, Unplaced
  <2>2. QED
    BY <1>7, <1>11, <2>1, HeadKeeps
<1>14. Passed'
  <2> SUFFICES ASSUME op.prev # Nil PROVE key'[op.prev] < op.dkey
    BY <1>4 DEF Passed
  <2>1. QED
    BY <1>2, <1>3, <1>6 DEF Passed, Linked
<1>15. QED
  BY <1>9, <1>10, <1>12, <1>13, <1>14 DEF Stored

-----------------------------------------------------------------------------
(* What Set, Get and eviction leave of a store *)

LEMMA WithoutIs ==
  ASSUME IsStore(entries), NEW k
  PROVE  /\ IsStore(Lru!Without(k)) /\ Loses(entries, Lru!Without(k), k)
         /\ \A m \in DOMAIN Lru!Without(k) : Lru!Without(k)[m].key # k
<1>1. IsStore(Lru!Without(k)) /\ Loses(entries, Lru!Without(k), k)
  <2>1. CASE Lru!Places(k) = {}
    <3>1. Lru!Without(k) = entries
      BY <2>1 DEF Lru!Without
    <3>2. \A m \in DOMAIN entries : entries[m].key # k
      BY <2>1 DEF Lru!Places
    <3> DEFINE f == [m \in DOMAIN entries |-> m]
    <3>3. f \in [DOMAIN entries -> DOMAIN entries] /\ \A m \in DOMAIN entries : f[m] = m
      OBVIOUS
    <3> HIDE DEF f
    <3>4. Loses(entries, entries, k)
      BY <3>2, <3>3 DEF Loses
    <3>5. QED
      BY <3>1, <3>4
  <2>2. CASE Lru!Places(k) # {}
    <3>1. Lru!Place(k) \in DOMAIN entries /\ entries[Lru!Place(k)].key = k
      BY <2>2 DEF Lru!Place, Lru!Places
    <3>2. Lru!Without(k) = CutOut(entries, Lru!Place(k))
      BY <2>2 DEF Lru!Without, CutOut
    <3>3. QED
      BY <3>1, <3>2, CutLoses
  <2>3. QED
    BY <2>1, <2>2
<1>2. \A m \in DOMAIN Lru!Without(k) : Lru!Without(k)[m].key # k
  BY <1>1 DEF Loses
<1>3. QED
  BY <1>1, <1>2

LEMMA BehindIs ==
  ASSUME NEW s, IsStore(s), NEW e \in 0 .. Len(s)
  PROVE  /\ IsStore(Lru!Behind(s, e)) /\ Len(Lru!Behind(s, e)) = Len(s) - e
         /\ \A m \in 1 .. Len(s) - e : Lru!Behind(s, e)[m] = s[e + m]
<1>1. /\ s \in Seq(EntrySet) /\ Len(s) \in Nat /\ DOMAIN s = 1 .. Len(s)
      /\ \A m, n \in DOMAIN s : s[m].key = s[n].key => m = n
      /\ \A m \in DOMAIN s : s[m].val # <<>>
  BY DEF IsStore
<1>2. PICK t : t = Lru!Behind(s, e)
  OBVIOUS
<1>3. t = SubSeq(s, e + 1, Len(s))
  BY <1>2 DEF Lru!Behind
<1>4. e + 1 \in Nat \ {0} /\ Len(s) \in 0 .. Len(s)
  BY <1>1
<1>5. /\ t \in Seq(EntrySet)
      /\ Len(t) = IF e + 1 <= Len(s) THEN Len(s) - (e + 1) + 1 ELSE 0
      /\ \A i \in 1 .. Len(s) - (e + 1) + 1 : t[i] = s[e + 1 + i - 1]
  BY ONLY <1>1, <1>3, <1>4, Slice
<1>6. Len(t) = Len(s) - e /\ \A m \in 1 .. Len(s) - e : t[m] = s[e + m]
  <2>1. PICK l \in Nat : l = Len(s) /\ e \in 0 .. l
    BY <1>1
  <2>2. Len(t) = l - e
    BY ONLY <1>5, <2>1
  <2>3. ASSUME NEW m \in 1 .. l - e PROVE t[m] = s[e + m]
    <3>1. m \in 1 .. l - (e + 1) + 1 /\ e + 1 + m - 1 = e + m
      BY ONLY <2>1, m \in 1 .. l - e
    <3>2. QED
      BY ONLY <1>5, <2>1, <3>1
  <2>4. QED
    BY ONLY <2>1, <2>2, <2>3
<1>7. DOMAIN t = 1 .. Len(s) - e /\ \A m \in DOMAIN t : e + m \in DOMAIN s
  <2>1. DOMAIN t = 1 .. Len(s) - e
    BY ONLY <1>5, <1>6
  <2>2. QED
    BY ONLY <1>1, <2>1, e \in 0 .. Len(s)
<1>8. IsStore(t)
  <2>1. \A m, n \in DOMAIN t : t[m].key = t[n].key => m = n
    <3>1. ASSUME NEW m \in DOMAIN t, NEW n \in DOMAIN t, t[m].key = t[n].key PROVE m = n
      <4>1. e + m = e + n
        BY <1>1, <1>6, <1>7, <3>1
      <4>2. QED
        BY <1>1, <1>7, <4>1
    <3>2. QED
      BY <3>1
  <2>2. \A m \in DOMAIN t : t[m].val # <<>>
    <3>1. ASSUME NEW m \in DOMAIN t PROVE t[m].val # <<>>
      <4>1. t[m] = s[e + m] /\ e + m \in DOMAIN s
        BY <1>6, <1>7
      <4>2. QED
        BY ONLY <1>1, <4>1
    <3>2. QED
      BY <3>1
  <2>3. QED
    BY ONLY <1>5, <2>1, <2>2 DEF IsStore
<1>9. QED
  BY <1>2, <1>6, <1>8

\* The key that is set is the most recent one, once it is stored.
LEMMA SetIsLast ==
  ASSUME IsStore(entries), NEW N, IsStore(N), Setting(N),
         NEW m \in DOMAIN N, N[m].key = op.key
  PROVE  m = Len(N)
<1>0. PICK v \in Values, q \in Nat, lost \in Seq(Nat), w \in Seq(Nat) :
        \E e \in 0 .. Len(Lru!Without(op.key)) : SetUntil(N, v, e, q, lost, w)
  BY DEF Setting
<1>1. PICK e \in 0 .. Len(Lru!Without(op.key)) : SetUntil(N, v, e, q, lost, w)
  BY <1>0
<1>2. PICK W : W = Lru!Without(op.key)
  OBVIOUS
<1>3. IsStore(W) /\ \A n \in DOMAIN W : W[n].key # op.key
  BY <1>2, WithoutIs
<1>4. PICK B : B = Lru!Behind(W, e)
  OBVIOUS
<1>5. /\ IsStore(B) /\ Len(B) = Len(W) - e
      /\ \A n \in 1 .. Len(W) - e : B[n] = W[e + n]
  BY <1>2, <1>3, <1>4, BehindIs
<1>6. N = IF w = <<>> THEN B
          ELSE Append(B, [key |-> op.key, val |-> w, up |-> now])
  BY <1>1, <1>2, <1>4 DEF SetUntil
<1>7. CASE w = <<>>
  <2>1. Len(W) \in Nat /\ DOMAIN W = 1 .. Len(W) /\ DOMAIN B = 1 .. Len(B)
    BY <1>3, <1>5 DEF IsStore
  <2>2. m \in 1 .. Len(W) - e /\ e + m \in DOMAIN W
    BY <1>2, <1>5, <1>6, <1>7, <2>1
  <2>3. QED
    BY <1>3, <1>5, <1>6, <1>7, <2>2
<1>8. CASE w # <<>>
  <2>1. B \in Seq(EntrySet)
    BY <1>5 DEF IsStore
  <2>2. Len(B) + 1 \in DOMAIN N /\ N[Len(B) + 1].key = op.key /\ Len(N) = Len(B) + 1
    BY <1>6, <1>8, <2>1
  <2>3. QED
    BY <2>2 DEF IsStore
<1>9. QED
  BY <1>7, <1>8

\* InsertHash puts a block behind the other blocks of its key, and at the most
\* recent end of the list.
LEMMA InsertHolds ==
  ASSUME CacheInv, InsertLink, ShmCacheAssumption, IsStore(entries),
         NEW N, NEW rank, NEW pos, NEW g,
         Numbers(pos), Stored(N, rank), InTurn(N, pos, rank, g), Setting(N)
  PROVE  \E q : Numbers(q)' /\ Stored(N, rank)' /\ InTurn(N, q, rank, g)'
<1> USE OpRecord, LinkTypes DEF CacheInv
<1>1. PICK x \in Idx : x = op.idx
  OBVIOUS
<1>2. /\ op.pc = "insert" /\ key[x] = op.key /\ op.key \in Keys
      /\ key' = key /\ chunk' = chunk /\ up' = up
      /\ op.cur # Nil => op.key < key[op.cur]
  BY <1>1 DEF InsertLink, Called
<1>3. op'.pc = "set"
  BY DEF InsertLink, Ops
<1>4. PICK depth : Depths(depth)
  BY DEF Chains
<1>5. Live' = Live /\ \A i \in Live : i \in Idx /\ key[i] \in Keys /\ key[i] # 0
  BY <1>2, <1>3, LiveAre DEF Live, Doomed
<1>6. x \in Live /\ x \notin Linked /\ Linked = Live \ {x} /\ Linked' = Live
  <2>1. op.key # 0
    BY <1>2, LiveAre
  <2>2. QED
    BY <1>1, <1>2, <1>3, <2>1 DEF Live, Linked, Doomed
<1>7. /\ op.prev # Nil => /\ op.prev \in Linked /\ op.prev \in Idx
                          /\ Hash(key[op.prev]) = Hash(op.key)
                          /\ next[op.prev] = op.cur
      /\ op.cur # Nil => /\ op.cur \in Linked /\ Hash(key[op.cur]) = Hash(op.key)
                         /\ depth[op.cur] = IF op.prev = Nil THEN 1
                                            ELSE depth[op.prev] + 1
  <2>1. Cursor(op.key) /\ op.key \in Keys \cup {0}
    BY <1>2 DEF Walked
  <2>2. /\ op.prev # Nil => op.prev \in Linked /\ Hash(key[op.prev]) = Hash(op.key)
        /\ op.cur # Nil => /\ op.cur \in Linked /\ Hash(key[op.cur]) = Hash(op.key)
                           /\ depth[op.cur] = IF op.prev = Nil THEN 1
                                              ELSE depth[op.prev] + 1
    BY ONLY <1>4, <2>1, CursorLinked, Typed, ShmCacheAssumption
  <2>3. QED
    BY <2>1, <2>2 DEF Cursor, Linked
<1>8. \A i \in Idx : next'[i] = IF i = x THEN op.cur
                                ELSE IF i = op.prev THEN x ELSE next[i]
  <2>1. next \in [Idx -> Links]
    BY DEF Typed
  <2>2. CASE op.prev = Nil
    <3>1. next' = [next EXCEPT ![x] = op.cur] /\ op.prev \notin Idx
      BY <1>1, <2>2, NilIsNone DEF InsertLink
    <3>2. QED
      BY <2>1, <3>1
  <2>3. CASE op.prev # Nil
    <3>1. next' = [next EXCEPT ![x] = op.cur, ![op.prev] = x] /\ op.prev # x
      BY <1>1, <1>6, <1>7, <2>3 DEF InsertLink
    <3>2. QED
      BY <1>7, <2>1, <2>3, <3>1
  <2>4. QED
    BY <2>2, <2>3
<1>9. Parts(N, rank)'
  <2>1. \A m \in DOMAIN N : N[m].key # Doomed'
    <3>1. Doomed' = Doomed
      BY <1>2, <1>3 DEF Doomed
    <3>2. QED
      BY <3>1 DEF Stored, Parts
  <2>2. QED
    BY <1>2, <1>5, <2>1, PartsSame DEF Stored
<1>10. op.prev # Nil /\ key[op.prev] = op.key => rank[x] = rank[op.prev] + 1
  <2> SUFFICES ASSUME op.prev # Nil, key[op.prev] = op.key PROVE rank[x] = rank[op.prev] + 1
    OBVIOUS
  <2>1. PICK p \in Linked : p = op.prev
    BY <1>7
  <2>2. p \in Live /\ p # x /\ key[p] = op.key /\ rank[p] \in Nat /\ rank[x] \in Nat
    BY <1>5, <1>6, <2>1 DEF Stored, Parts
  <2>3. rank[p] <= rank[x] /\ rank[p] # rank[x]
    BY <1>1, <1>2, <1>6, <2>2 DEF Stored, InRow, Parts
  <2>4. PICK m \in DOMAIN N : N[m].key = op.key /\ rank[x] < Lru!BlocksOf(N[m].val)
    BY <1>2, <1>6 DEF Stored, Parts
  <2>5. rank[p] + 1 \in Nat /\ rank[p] + 1 < Lru!BlocksOf(N[m].val)
    <3>1. Lru!BlocksOf(N[m].val) \in Nat
      <4>0. N[m] \in EntrySet
        BY DEF Stored, IsStore
      <4>1. N[m].val \in Seq(Nat)
        BY <4>0 DEF EntrySet
      <4>2. QED
        BY <4>1, BlocksAre
    <3>2. QED
      BY <2>2, <2>3, <2>4, <3>1
  <2>6. PICK j \in Live : key[j] = op.key /\ rank[j] = rank[p] + 1
    <3>1. \A r \in Nat : r < Lru!BlocksOf(N[m].val) =>
            \E i \in Live : key[i] = N[m].key /\ rank[i] = r
      BY DEF Stored, Parts
    <3>2. QED
      BY <2>4, <2>5, <3>1
  <2>7. SUFFICES ASSUME j # x PROVE FALSE
    BY <2>1, <2>6
  <2>8. /\ j \in Linked /\ Hash(key[j]) = Hash(key[p])
        /\ depth[j] \in Nat /\ depth[p] \in Nat
    BY <1>4, <1>5, <1>6, <2>2, <2>6, <2>7 DEF Depths
  <2>9. CASE depth[j] <= depth[p]
    <3>1. rank[p] = rank[j] + (depth[p] - depth[j])
      BY <1>4, <2>1, <2>2, <2>6, <2>8, <2>9, RanksFollow, SMTT(30)
    <3>2. QED
      BY <2>2, <2>6, <2>8, <2>9, <3>1
  <2>10. CASE depth[p] < depth[j]
    <3>1. op.cur # Nil
      BY <1>4, <1>7, <2>1, <2>8, <2>10 DEF Depths, Sorted
    <3>2. depth[op.cur] <= depth[j] /\ depth[op.cur] \in Nat
      BY <1>4, <1>7, <2>1, <2>8, <2>10, <3>1 DEF Depths
    <3>3. key[op.cur] <= key[j] \/ op.cur = j
      <4>1. depth[op.cur] = depth[j] \/ depth[op.cur] < depth[j]
        BY <2>8, <3>2
      <4>2. QED
        BY <1>4, <1>7, <2>6, <2>8, <3>1, <4>1 DEF Depths, Sorted
    <3>4. key[op.cur] \in Nat /\ op.key \in Nat
      BY <1>2, <1>7, <3>1, LiveAre DEF ShmCacheAssumption
    <3>5. QED
      BY <1>2, <2>6, <3>1, <3>3, <3>4
  <2>11. QED
    BY <2>8, <2>9, <2>10
<1>11. InRow(rank)'
  <2> SUFFICES ASSUME NEW i \in Live, next'[i] # Nil, key[next'[i]] = key[i]
               PROVE  rank[next'[i]] = rank[i] + 1
    BY <1>2, <1>3, <1>5, <1>6 DEF InRow
  <2>1. CASE i = x
    <3>1. op.cur # Nil /\ key[op.cur] = op.key
      BY <1>2, <1>8, <2>1
    <3>2. op.key \in Nat /\ op.key < op.key
      BY <1>2, <3>1 DEF ShmCacheAssumption
    <3>3. QED
      BY <3>2
  <2>2. CASE i # x /\ i = op.prev
    BY <1>2, <1>5, <1>8, <1>10, <2>2, NilIsNone
  <2>3. CASE i # x /\ i # op.prev
    BY <1>5, <1>6, <1>8, <2>3 DEF Stored, InRow
  <2>4. QED
    BY <2>1, <2>2, <2>3
<1>12. PICK q : q = ToTail(pos, x)
  OBVIOUS
<1>13. Numbers(q)'
  <2>1. ListTyped /\ MoveLRUTail(x)
    BY <1>1 DEF Typed, ListTyped, InsertLink
  <2>2. QED
    BY <1>12, <2>1, TailNumbers
<1>14. InTurn(N, q, rank, g)'
  <2> SUFFICES ASSUME NEW m \in DOMAIN N, NEW n \in DOMAIN N, m < n,
                      NEW i \in Live, NEW j \in Live, key[i] = N[m].key, key[j] = N[n].key
               PROVE  q[i] < q[j]
    BY <1>2, <1>5 DEF InTurn
  <2>0. i \in Idx /\ j \in Idx /\ m \in Nat /\ n \in Nat /\ Len(N) \in Nat /\ n <= Len(N)
    BY <1>5 DEF Stored, IsStore
  <2>1. i # x
    <3>1. i = x => m = Len(N)
      BY <1>2, SetIsLast DEF Stored
    <3>2. QED
      BY <2>0, <3>1
  <2>2. CASE j = x
    BY <1>12, <2>0, <2>1, <2>2, TailKeeps
  <2>3. CASE j # x
    <3>1. pos[i] < pos[j]
      BY <1>1, <1>2, <2>3 DEF InTurn, Unplaced
    <3>2. QED
      BY <1>12, <2>0, <2>1, <3>1, TailKeeps
  <2>4. QED
    BY <2>2, <2>3
<1>15. QED
  BY <1>9, <1>11, <1>13, <1>14 DEF Stored

LEMMA PlaceIs ==
  ASSUME IsStore(entries), NEW k, Lru!Places(k) # {}
  PROVE  Lru!Place(k) \in DOMAIN entries /\ entries[Lru!Place(k)].key = k
BY DEF Lru!Place, Lru!Places

\* The store with key k in the most recent place.
LEMMA MovedIs ==
  ASSUME IsStore(entries), NEW k, NEW M, M = Lru!Moved(k)
  PROVE  /\ IsStore(M) /\ Loses(M, Lru!Without(k), k)
         /\ \A m \in DOMAIN M : M[m].key = k =>
              m = Len(M) /\ Lru!Places(k) # {} /\ M[m] = entries[Lru!Place(k)]
         /\ \A m \in DOMAIN M : \E a \in DOMAIN entries : entries[a] = M[m]
         /\ \A a \in DOMAIN entries : \E m \in DOMAIN M : entries[a] = M[m]
         /\ \A m, n \in DOMAIN M : m < n /\ M[n].key # k =>
              \E a, b \in DOMAIN entries : a < b /\ entries[a] = M[m] /\ entries[b] = M[n]
<1>1. PICK W : W = Lru!Without(k)
  OBVIOUS
<1>2. IsStore(W) /\ Loses(entries, W, k) /\ \A m \in DOMAIN W : W[m].key # k
  BY <1>1, WithoutIs
<1>3. PICK f \in [DOMAIN W -> DOMAIN entries] :
         /\ \A m, n \in DOMAIN W : m < n => f[m] < f[n]
         /\ \A m \in DOMAIN W : W[m] = entries[f[m]] /\ W[m].key # k
         /\ \A i \in DOMAIN entries : entries[i].key # k => \E m \in DOMAIN W : f[m] = i
  BY <1>2 DEF Loses
<1>4. CASE Lru!Places(k) = {}
  <2>1. M = entries /\ W = entries
    BY <1>1, <1>4 DEF Lru!Moved, Lru!Without
  <2>2. QED
    BY <1>1, <1>2, <2>1
<1>5. CASE Lru!Places(k) # {}
  <2>1. PICK y : y = entries[Lru!Place(k)]
    OBVIOUS
  <2>2. y \in EntrySet /\ y.key = k /\ y.val # <<>> /\ \E a \in DOMAIN entries : entries[a] = y
    BY <1>5, <2>1, PlaceIs DEF IsStore
  <2>3. M = Append(W, y)
    BY <1>1, <1>5, <2>1 DEF Lru!Moved
  <2>4. PICK l \in Nat : l = Len(W) /\ DOMAIN W = 1 .. l /\ W \in Seq(EntrySet)
    BY <1>2 DEF IsStore
  <2>5. /\ M \in Seq(EntrySet) /\ Len(M) = l + 1 /\ DOMAIN M = 1 .. l + 1
        /\ M[l + 1] = y /\ \A m \in 1 .. l : M[m] = W[m]
    BY <2>2, <2>3, <2>4
  <2>6. \A m \in DOMAIN M : M[m].key = k => m = l + 1
    <3>1. ASSUME NEW m \in DOMAIN M, m # l + 1 PROVE M[m].key # k
      <4>1. m \in 1 .. l
        BY <2>5, <3>1
      <4>2. QED
        BY <1>2, <2>4, <2>5, <4>1
    <3>2. QED
      BY <3>1
  <2>7. IsStore(M)
    <3>1. \A m, n \in DOMAIN M : M[m].key = M[n].key => m = n
      <4>1. ASSUME NEW m \in DOMAIN M, NEW n \in DOMAIN M, M[m].key = M[n].key PROVE m = n
        <5>1. CASE m = l + 1
          BY <2>2, <2>5, <2>6, <4>1, <5>1
        <5>2. CASE n = l + 1
          BY <2>2, <2>5, <2>6, <4>1, <5>2
        <5>3. CASE m # l + 1 /\ n # l + 1
          <6>1. m \in 1 .. l /\ n \in 1 .. l
            BY <2>5, <5>3
          <6>2. QED
            BY <1>2, <2>4, <2>5, <4>1, <6>1 DEF IsStore
        <5>4. QED
          BY <5>1, <5>2, <5>3
      <4>2. QED
        BY <4>1
    <3>2. \A m \in DOMAIN M : M[m].val # <<>>
      <4>1. ASSUME NEW m \in DOMAIN M PROVE M[m].val # <<>>
        <5>1. m = l + 1 \/ m \in 1 .. l
          BY <2>5
        <5>2. QED
          BY <1>2, <2>2, <2>4, <2>5, <5>1 DEF IsStore
      <4>2. QED
        BY <4>1
    <3>3. QED
      BY <2>5, <3>1, <3>2 DEF IsStore
  <2>8. Loses(M, W, k)
    <3> DEFINE h == [m \in DOMAIN W |-> m]
    <3>1. h \in [DOMAIN W -> DOMAIN M] /\ \A m \in DOMAIN W : h[m] = m
      BY <2>4, <2>5
    <3> HIDE DEF h
    <3>2. \A m, n \in DOMAIN W : m < n => h[m] < h[n]
      BY <3>1
    <3>3. \A m \in DOMAIN W : W[m] = M[h[m]] /\ W[m].key # k
      BY <1>2, <2>4, <2>5, <3>1
    <3>4. \A i \in DOMAIN M : M[i].key # k => \E m \in DOMAIN W : h[m] = i
      <4>1. ASSUME NEW i \in DOMAIN M, M[i].key # k PROVE i \in DOMAIN W
        BY <2>2, <2>4, <2>5, <4>1
      <4>2. QED
        BY <3>1, <4>1
    <3>5. QED
      BY <3>1, <3>2, <3>3, <3>4 DEF Loses
  <2>9. \A m \in DOMAIN M : \E a \in DOMAIN entries : entries[a] = M[m]
    <3>1. ASSUME NEW m \in DOMAIN M PROVE \E a \in DOMAIN entries : entries[a] = M[m]
      <4>1. m = l + 1 \/ m \in 1 .. l
        BY <2>5
      <4>2. QED
        BY <1>3, <2>2, <2>4, <2>5, <4>1
    <3>2. QED
      BY <3>1
  <2>10. \A a \in DOMAIN entries : \E m \in DOMAIN M : entries[a] = M[m]
    <3>1. ASSUME NEW a \in DOMAIN entries PROVE \E m \in DOMAIN M : entries[a] = M[m]
      <4>1. CASE entries[a].key = k
        <5>1. entries[a] = y
          BY <1>5, <2>1, <4>1, PlaceIs DEF IsStore
        <5>2. l + 1 \in DOMAIN M
          BY <2>5
        <5>3. QED
          BY <2>5, <5>1, <5>2
      <4>2. CASE entries[a].key # k
        <5>1. PICK m \in DOMAIN W : f[m] = a
          BY <1>3, <4>2
        <5>2. m \in DOMAIN M /\ M[m] = entries[a]
          BY <1>3, <2>4, <2>5, <5>1
        <5>3. QED
          BY <5>2
      <4>3. QED
        BY <4>1, <4>2
    <3>2. QED
      BY <3>1
  <2>11. ASSUME NEW m \in DOMAIN M, NEW n \in DOMAIN M, m < n, M[n].key # k
         PROVE  \E a, b \in DOMAIN entries : a < b /\ entries[a] = M[m] /\ entries[b] = M[n]
    <3>1. n \in DOMAIN W /\ m \in DOMAIN W
      BY <2>2, <2>4, <2>5, <2>11
    <3>2. f[m] < f[n] /\ entries[f[m]] = M[m] /\ entries[f[n]] = M[n]
      BY <1>3, <2>4, <2>5, <2>11, <3>1
    <3>3. f[m] \in DOMAIN entries /\ f[n] \in DOMAIN entries
      BY <1>3, <3>1
    <3>4. QED
      BY <3>2, <3>3
  <2>12. \A m \in DOMAIN M : M[m].key = k => m = Len(M) /\ M[m] = y
    BY <2>5, <2>6
  <2>13. QED
    BY <1>1, <1>5, <2>1, <2>7, <2>8, <2>9, <2>10, <2>11, <2>12
<1>6. QED
  BY <1>4, <1>5

-----------------------------------------------------------------------------
(* Get *)

\* What is said of the entries is still said after a step that leaves them.
LEMMA EntriesSame ==
  ASSUME entries' = entries, NEW k
  PROVE  /\ (Lru!Places(k))' = Lru!Places(k) /\ (Lru!Place(k))' = Lru!Place(k)
         /\ (Lru!Without(k))' = Lru!Without(k) /\ (Lru!Moved(k))' = Lru!Moved(k)
<1>1. (Lru!Places(k))' = Lru!Places(k)
  BY DEF Lru!Places
<1>2. (Lru!Place(k))' = Lru!Place(k)
  BY <1>1 DEF Lru!Place
<1>3. (Lru!Without(k))' = Lru!Without(k)
  BY <1>1, <1>2 DEF Lru!Without
<1>4. (Lru!Moved(k))' = Lru!Moved(k)
  BY <1>1, <1>2, <1>3 DEF Lru!Moved
<1>5. QED
  BY <1>1, <1>2, <1>3, <1>4

\* Get collects the next part of the value, and moves its block.
LEMMA HitHolds ==
  ASSUME CacheInv, GetHit, ShmCacheAssumption, IsStore(entries), entries' = entries,
         NEW N, NEW rank, NEW pos, NEW g,
         Numbers(pos), Stored(N, rank), InTurn(N, pos, rank, g), Getting(N, rank, g)
  PROVE  \E q : /\ Numbers(q)' /\ Stored(N, rank)' /\ InTurn(N, q, rank, g + 1)'
                /\ Getting(N, rank, g + 1)'
<1> USE OpRecord, LinkTypes DEF CacheInv
<1>1. PICK c \in Idx : c = op.cur
  BY DEF GetHit
<1>2. PICK k \in Keys : k = op.key
  BY DEF Getting
<1>3. /\ op.pc = "get" /\ key[c] = k /\ ~ Stale(c)
      /\ key' = key /\ chunk' = chunk /\ up' = up /\ next' = next /\ now' = now
  BY <1>1, <1>2 DEF GetHit
<1>4. /\ op'.pc = "get" /\ op'.key = k /\ op'.ret = "OK"
      /\ op'.out = op.out \o chunk[c] /\ op'.cur = next[c]
  BY <1>1, <1>2, <1>3 DEF GetHit, Ops
<1>5. PICK depth : Depths(depth)
  BY DEF Chains
<1>6. /\ Live' = Live /\ \A i \in Live : i \in Idx /\ key[i] \in Keys /\ key[i] # 0
      /\ Linked = Live /\ Linked' = Linked
  BY <1>3, <1>4, LiveAre DEF Live, Doomed, Linked
<1>7. c \in Live
  BY <1>2, <1>3, LiveAre DEF Live, Doomed
<1>8. N = Lru!Moved(k) /\ g \in Nat
  BY <1>2 DEF Getting
<1>9. PICK m \in DOMAIN N : N[m].key = k
  BY <1>3, <1>7 DEF Stored, Parts
<1>10. /\ m = Len(N) /\ Lru!Places(k) # {} /\ N[m] = entries[Lru!Place(k)]
       /\ \A n \in DOMAIN N : N[n].key = k => n = Len(N)
  BY <1>8, <1>9, MovedIs
<1>11. PICK e \in EntrySet : e = N[m]
  BY DEF Stored, IsStore
<1>12. /\ e.key = k /\ e.val \in Seq(Nat) /\ e.val # <<>>
       /\ Lru!BlocksOf(e.val) \in Nat /\ Lru!BlocksOf(e.val) # 0
  <2>1. e.key = k /\ e.val \in Seq(Nat) /\ e.val # <<>>
    BY <1>9, <1>11 DEF EntrySet, Stored, IsStore
  <2>2. QED
    BY <2>1, BlocksAre
<1>13. /\ up[c] = e.up /\ rank[c] \in Nat /\ rank[c] < Lru!BlocksOf(e.val)
       /\ chunk[c] = Part(e.val, rank[c])
  BY <1>3, <1>7, <1>9, <1>11 DEF Stored, Parts
<1>14. rank[c] = g
  <2>1. CASE g = 0
    <3>1. PICK d : Depths(d) /\ \A j \in Linked : key[j] = k =>
                                  op.cur # Nil /\ d[op.cur] <= d[j]
      BY <1>2, <2>1 DEF Getting
    <3>2. PICK j \in Live : key[j] = k /\ rank[j] = 0
      <4>1. \A r \in Nat : r < Lru!BlocksOf(e.val) => \E j \in Live : key[j] = k /\ rank[j] = r
        <5>1. \A n \in DOMAIN N : \A r \in Nat : r < Lru!BlocksOf(N[n].val) =>
                \E j \in Live : key[j] = N[n].key /\ rank[j] = r
          BY DEF Stored, Parts
        <5>2. QED
          BY <1>9, <1>11, <5>1
      <4>2. 0 \in Nat /\ 0 < Lru!BlocksOf(e.val)
        BY <1>12
      <4>3. QED
        BY <4>1, <4>2
    <3>3. d[c] <= d[j] /\ d[c] \in Nat /\ d[j] \in Nat
      BY <1>1, <1>6, <3>1, <3>2 DEF Depths
    <3>4. rank[j] = rank[c] + (d[j] - d[c])
      <4>1. c \in Live \cap Linked /\ j \in Live \cap Linked /\ key[j] = key[c]
        BY <1>3, <1>6, <1>7, <3>2
      <4>2. \A i \in Live \cap Linked : key[i] = key[c] /\ d[c] <= d[i] =>
              rank[i] = rank[c] + (d[i] - d[c])
        BY ONLY <3>1, <4>1, RanksFollow, Typed, ShmCacheAssumption, Stored(N, rank)
      <4>3. QED
        BY <3>3, <4>1, <4>2
    <3>5. QED
      BY <1>13, <2>1, <3>2, <3>3, <3>4
  <2>2. CASE g > 0
    <3>1. PICK p \in Linked : key[p] = k /\ rank[p] = g - 1 /\ next[p] = op.cur
      BY <1>2, <2>2 DEF Getting
    <3>2. rank[next[p]] = rank[p] + 1
      BY <1>1, <1>3, <1>6, <3>1, NilIsNone DEF Stored, InRow
    <3>3. QED
      BY <1>1, <1>8, <3>1, <3>2
  <2>3. QED
    BY <1>8, <2>1, <2>2
<1>15. op'.out = First(e.val, g + 1)
  <2>1. op.out = First(e.val, g)
    <3>1. CASE g = 0
      <4>1. op.out = <<>>
        BY <3>1 DEF Getting
      <4>2. First(e.val, 0) = <<>>
        BY <1>12, PartsJoin
      <4>3. QED
        BY <3>1, <4>1, <4>2
    <3>2. CASE g > 0
      BY <1>2, <1>10, <1>11, <3>2 DEF Getting
    <3>3. QED
      BY <1>8, <3>1, <3>2
  <2>2. chunk[c] = Part(e.val, g)
    BY <1>13, <1>14
  <2>3. First(e.val, g + 1) = First(e.val, g) \o Part(e.val, g)
    BY <1>12, <1>13, <1>14, PartsJoin
  <2>4. QED
    BY <1>4, <2>1, <2>2, <2>3
<1>16. Getting(N, rank, g + 1)'
  <2>1. PICK h \in Nat : h = g + 1 /\ h > 0 /\ h <= Lru!BlocksOf(e.val) /\ h - 1 = g
    BY <1>8, <1>12, <1>13, <1>14
  <2>2. op'.cur # Nil => op'.cur \in Linked' /\ Hash(key'[op'.cur]) = Hash(op'.key)
    BY <1>3, <1>4, <1>5, <1>6, <1>7 DEF Depths, Follows
  <2>3. /\ (Lru!Places(op.key))' # {} /\ N = (Lru!Moved(op.key))'
        /\ (Lru!Place(op.key))' = Lru!Place(k)
    BY <1>4, <1>8, <1>10, EntriesSame
  <2>4. ~ (Lru!Stale(entries[Lru!Place(op.key)]))'
    <3>1. now' = now /\ entries'[(Lru!Place(op.key))'] = e
      BY <1>3, <1>10, <1>11, <2>3
    <3>2. ~ (now - e.up > Timeout)
      BY <1>3, <1>13 DEF Stale
    <3>3. QED
      BY <3>1, <3>2 DEF Lru!Stale
  <2>5. entries'[(Lru!Place(op.key))'] = e
    BY <1>10, <1>11, <2>3
  <2>6. \E p \in Linked' : key'[p] = op'.key /\ rank[p] = h - 1 /\ next'[p] = op'.cur
    BY <1>3, <1>4, <1>6, <1>7, <1>14, <2>1
  <2>7. Getting(N, rank, h)'
    BY <1>2, <1>4, <1>15, <2>1, <2>2, <2>3, <2>4, <2>5, <2>6 DEF Getting
  <2>8. QED
    BY <2>1, <2>7
<1>17. Parts(N, rank)'
  <2>1. \A n \in DOMAIN N : N[n].key # Doomed'
    <3>1. Doomed' = Doomed
      BY <1>3, <1>4 DEF Doomed
    <3>2. QED
      BY <3>1 DEF Stored, Parts
  <2>2. QED
    BY <1>3, <1>6, <2>1, PartsSame DEF Stored
<1>18. InRow(rank)'
  BY <1>3, <1>4, <1>6 DEF Stored, InRow
<1>19. PICK q : q = ToTail(pos, c)
  OBVIOUS
<1>20. Numbers(q)'
  <2>1. ListTyped /\ MoveLRUTail(c)
    BY <1>1 DEF Typed, ListTyped, GetHit
  <2>2. QED
    BY <1>19, <2>1, TailNumbers
<1>21. InTurn(N, q, rank, g + 1)'
  <2> SUFFICES ASSUME NEW a \in DOMAIN N, NEW b \in DOMAIN N, a < b,
                      NEW i \in Live, NEW j \in Live, key[i] = N[a].key, key[j] = N[b].key
               PROVE  q[i] < q[j] \/ (key[j] = k /\ rank[j] >= g + 1)
    BY <1>3, <1>4, <1>6, SMTT(30) DEF InTurn, Unplaced
  <2>0. i \in Idx /\ j \in Idx /\ a \in Nat /\ b \in Nat /\ Len(N) \in Nat /\ b <= Len(N)
    BY <1>6 DEF Stored, IsStore
  <2>6. /\ \A x \in Idx : x # c => q[x] < q[c]
        /\ \A x, y \in Idx : x # c /\ pos[x] < pos[y] => q[x] < q[y]
    BY ONLY <1>19, TailKeeps, c \in Idx, Numbers(pos), ShmCacheAssumption
  <2>1. i # c
    <3>1. i = c => a = Len(N)
      BY <1>3, <1>10
    <3>2. QED
      BY <2>0, <3>1
  <2>2. CASE j = c
    <3>1. q[i] < q[c]
      BY <2>0, <2>1, <2>6, Zenon
    <3>2. QED
      BY <2>2, <3>1, Zenon
  <2>3. CASE j # c /\ pos[i] < pos[j]
    <3>1. q[i] < q[j]
      BY <2>0, <2>1, <2>3, <2>6, Zenon
    <3>2. QED
      BY <3>1, Zenon
  <2>4. CASE j # c /\ ~ (pos[i] < pos[j])
    <3>1. key[j] = k /\ rank[j] >= g
      BY <1>2, <1>3, <2>4 DEF InTurn, Unplaced
    <3>2. rank[j] # rank[c] /\ rank[j] \in Nat
      BY <1>3, <1>6, <1>7, <2>4, <3>1 DEF Stored, Parts
    <3>3. QED
      BY <1>8, <1>14, <3>1, <3>2
  <2>5. QED
    BY <2>2, <2>3, <2>4
<1>22. QED
  BY <1>16, <1>17, <1>18, <1>20, <1>21 DEF Stored

-----------------------------------------------------------------------------
(* Set *)

LEMMA Regroup ==
  ASSUME NEW a \in Seq(Nat), NEW b \in Seq(Nat), NEW c \in Seq(Nat)
  PROVE  (a \o b) \o c = a \o (b \o c)
BY ConcatAssociative

\* The next block takes the first n bytes of what is left.
LEMMA Taken ==
  ASSUME NEW rest \in Seq(Nat), rest # <<>>, ShmCacheAssumption,
         NEW n \in Nat, n = IF Len(rest) <= BlockSize THEN Len(rest) ELSE BlockSize
  PROVE  /\ SubSeq(rest, 1, n) \in Seq(Nat) /\ SubSeq(rest, n + 1, Len(rest)) \in Seq(Nat)
         /\ rest = SubSeq(rest, 1, n) \o SubSeq(rest, n + 1, Len(rest))
         /\ Len(SubSeq(rest, 1, n)) > 0 /\ Len(SubSeq(rest, 1, n)) <= BlockSize
         /\ SubSeq(rest, n + 1, Len(rest)) # <<>> => Len(SubSeq(rest, 1, n)) = BlockSize
<1>0. PICK s, t : s = SubSeq(rest, 1, n) /\ t = SubSeq(rest, n + 1, Len(rest))
  OBVIOUS
<1>1. BlockSize \in Nat \ {0} /\ Len(rest) \in Nat \ {0}
  BY DEF ShmCacheAssumption
<1>2. n \in 1 .. Len(rest) /\ n <= BlockSize /\ (n # Len(rest) => n = BlockSize)
  BY <1>1
<1>3. s \in Seq(Nat) /\ Len(s) = n
  <2>1. 1 \in Nat \ {0} /\ n \in 0 .. Len(rest)
    BY <1>2
  <2>2. s \in Seq(Nat) /\ Len(s) = IF 1 <= n THEN n - 1 + 1 ELSE 0
    BY <1>0, <2>1, Slice
  <2>3. QED
    BY <1>2, <2>2
<1>4. t \in Seq(Nat) /\ (t # <<>> => n # Len(rest))
  <2>1. n + 1 \in Nat \ {0} /\ Len(rest) \in 0 .. Len(rest)
    BY <1>1, <1>2
  <2>2. t \in Seq(Nat) /\ Len(t) = IF n + 1 <= Len(rest) THEN Len(rest) - (n + 1) + 1 ELSE 0
    <3>1. PICK i, j : i = n + 1 /\ j = Len(rest)
      OBVIOUS
    <3>2. i \in Nat \ {0} /\ j \in 0 .. Len(rest) /\ t = SubSeq(rest, i, j)
      BY <1>0, <2>1, <3>1
    <3>3. t \in Seq(Nat) /\ Len(t) = IF i <= j THEN j - i + 1 ELSE 0
      BY ONLY <3>2, rest \in Seq(Nat), Slice
    <3>4. QED
      BY <3>1, <3>3
  <2>3. n = Len(rest) => Len(t) = 0
    BY <1>1, <2>2
  <2>4. QED
    BY <2>2, <2>3
<1>5. rest = s \o t
  <2>1. 1 \in 1 .. Len(rest) + 1 /\ n \in 1 - 1 .. Len(rest) /\ Len(rest) \in n .. Len(rest)
    BY <1>1, <1>2
  <2>2. SubSeq(rest, 1, n) \o SubSeq(rest, n + 1, Len(rest)) = SubSeq(rest, 1, Len(rest))
    BY <2>1, ConcatAdjacentSubSeq
  <2>3. SubSeq(rest, 1, Len(rest)) = rest
    BY SubSeqFull
  <2>4. QED
    BY <1>0, <2>2, <2>3
<1>6. Len(s) > 0 /\ Len(s) <= BlockSize /\ (t # <<>> => Len(s) = BlockSize)
  BY ONLY <1>1, <1>2, <1>3, <1>4
<1>7. QED
  BY ONLY <1>0, <1>3, <1>4, <1>5, <1>6

\* The first free block takes the next part of the value that is set.
LEMMA FillHolds ==
  ASSUME CacheInv, SetFill, ShmCacheAssumption, IsStore(entries), entries' = entries,
         NEW N, NEW rank, NEW pos, NEW g,
         Numbers(pos), Stored(N, rank), InTurn(N, pos, rank, g), Setting(N)
  PROVE  \E M, r : Numbers(pos)' /\ Stored(M, r)' /\ InTurn(M, pos, r, g)' /\ Setting(M)'
<1>0. Typed /\ Called /\ Chains /\ op \in Ops /\ op.rest \in Seq(Nat)
  BY OpRecord DEF CacheInv
<1>1. PICK x \in Idx : x = lhead
  BY <1>0 DEF Typed
<1>2. PICK k \in Keys : k = op.key
  BY DEF Setting
<1>3. PICK n : n = IF Len(op.rest) <= BlockSize THEN Len(op.rest) ELSE BlockSize
  OBVIOUS
<1>4. PICK s, t : s = SubSeq(op.rest, 1, n) /\ t = SubSeq(op.rest, n + 1, Len(op.rest))
  OBVIOUS
<1>5. /\ op.pc = "set" /\ op.rest # <<>> /\ key[x] = 0 /\ k # 0
      /\ next' = next /\ pre' = pre /\ nxt' = nxt /\ lhead' = lhead /\ ltail' = ltail
      /\ now' = now
  BY <1>1, <1>2 DEF SetFill, ShmCacheAssumption, lru
<1>6. \A i \in Idx : /\ key'[i] = IF i = x THEN k ELSE key[i]
                     /\ chunk'[i] = IF i = x THEN s ELSE chunk[i]
                     /\ up'[i] = IF i = x THEN now ELSE up[i]
  <2>1. key' = [key EXCEPT ![x] = k] /\ up' = [up EXCEPT ![x] = now]
    BY <1>1, <1>2 DEF SetFill
  <2>2. chunk' = [chunk EXCEPT ![x] = s]
    BY <1>1, <1>3, <1>4 DEF SetFill
  <2>3. QED
    BY <1>0, <2>1, <2>2 DEF Typed
<1>7. /\ op'.pc = "insert" /\ op'.idx = x /\ op'.key = k /\ op'.rest = t
      /\ op'.ret = op.ret /\ op'.out = op.out
  <2>1. op' = [op EXCEPT !.pc = "insert", !.idx = x, !.rest = t,
                         !.cur = hhead[Hash(op.key)], !.prev = Nil]
    BY <1>1, <1>3, <1>4 DEF SetFill
  <2>2. QED
    BY <1>0, <1>2, <2>1 DEF Ops
<1>8. /\ s \in Seq(Nat) /\ t \in Seq(Nat) /\ op.rest = s \o t
      /\ Len(s) > 0 /\ Len(s) <= BlockSize /\ (t # <<>> => Len(s) = BlockSize)
  <2>1. op.rest \in Seq(Nat) /\ op.rest # <<>>
    BY <1>0, <1>5
  <2>2. n \in Nat
    BY <1>3, <2>1 DEF ShmCacheAssumption
  <2>3. QED
    BY ONLY <1>3, <1>4, <2>1, <2>2, Taken, ShmCacheAssumption
<1>9. PICK v \in Values, q \in Nat, lost \in Seq(Nat), w \in Seq(Nat) :
        \E e \in 0 .. Len(Lru!Without(op.key)) : SetUntil(N, v, e, q, lost, w)
  BY DEF Setting
<1>10. PICK W : W = Lru!Without(k)
  OBVIOUS
<1>11. PICK e \in 0 .. Len(W) : SetUntil(N, v, e, q, lost, w)
  BY <1>2, <1>9, <1>10
<1>12. PICK B : B = Lru!Behind(W, e)
  OBVIOUS
<1>13. /\ v = lost \o (w \o op.rest) /\ Len(lost) = q * (BlockNum * BlockSize)
       /\ q > 0 => e = Len(W)
       /\ v = <<>> => e = 0
       /\ \A j \in 0 .. e - 1 : Lru!BlocksUsed(Lru!Behind(W, j)) + Lru!BlocksOf(v) > BlockNum
       /\ N = IF w = <<>> THEN B ELSE Append(B, [key |-> k, val |-> w, up |-> now])
  BY <1>2, <1>10, <1>11, <1>12 DEF SetUntil
<1>14. PICK r \in Nat : Len(w) = r * BlockSize
  BY <1>5, <1>11 DEF SetUntil
<1>15. PICK u : u = w \o s
  OBVIOUS
<1>16. /\ u \in Seq(Nat) /\ u # <<>>
       /\ Lru!BlocksOf(w) = r /\ Lru!BlocksOf(u) = r + 1 /\ Part(u, r) = s
       /\ \A y \in Nat : y < r => Part(u, y) = Part(w, y)
  <2>1. s \in Seq(Nat) /\ Len(s) > 0 /\ Len(s) <= BlockSize
    BY <1>8
  <2>2. /\ w \o s \in Seq(Nat) /\ w \o s # <<>>
        /\ Lru!BlocksOf(w) = r /\ Lru!BlocksOf(w \o s) = r + 1
        /\ Part(w \o s, r) = s
        /\ \A y \in Nat : y < r => Part(w \o s, y) = Part(w, y)
    BY ONLY <1>14, <2>1, PartAdded, ShmCacheAssumption, w \in Seq(Nat), r \in Nat, ZenonT(40)
  <2>3. QED
    BY <1>15, <2>2
<1>17. /\ IsStore(B) /\ \A m \in DOMAIN B : B[m].key # k
  <2>1. IsStore(W) /\ \A m \in DOMAIN W : W[m].key # k
    BY <1>10, WithoutIs
  <2>2. /\ IsStore(B) /\ Len(B) = Len(W) - e
        /\ \A m \in 1 .. Len(W) - e : B[m] = W[e + m]
    BY ONLY <1>12, <2>1, BehindIs, e \in 0 .. Len(W)
  <2>3. Len(W) \in Nat /\ DOMAIN W = 1 .. Len(W) /\ DOMAIN B = 1 .. Len(B)
    BY <2>1, <2>2 DEF IsStore
  <2>4. ASSUME NEW m \in DOMAIN B PROVE B[m].key # k
    <3>1. m \in 1 .. Len(W) - e /\ e + m \in DOMAIN W
      BY <2>2, <2>3
    <3>2. QED
      BY <2>1, <2>2, <3>1
  <2>5. QED
    BY <2>2, <2>4
<1>18. PICK l \in Nat : l = Len(B) /\ DOMAIN B = 1 .. l /\ B \in Seq(EntrySet)
  BY <1>17 DEF IsStore
<1>19. PICK z \in EntrySet : z = [key |-> k, val |-> u, up |-> now]
  <2>1. now \in 0 .. MaxTime
    BY <1>0 DEF Typed
  <2>2. QED
    BY <1>16, <2>1 DEF EntrySet
<1>20. z.key = k /\ z.val = u /\ z.up = now
  BY <1>19
<1>21. PICK M : M = Append(B, z)
  OBVIOUS
<1>22. /\ M \in Seq(EntrySet) /\ DOMAIN M = 1 .. l + 1
       /\ M[l + 1] = z /\ \A m \in 1 .. l : M[m] = B[m]
  BY <1>18, <1>21
<1>23. /\ \A m \in 1 .. l : m \in DOMAIN N /\ N[m] = B[m] /\ N[m] = M[m] /\ M[m].key # k
       /\ \A m \in DOMAIN N : m \in 1 .. l \/ (m = l + 1 /\ w # <<>>)
       /\ w # <<>> => l + 1 \in DOMAIN N /\ N[l + 1] = [key |-> k, val |-> w, up |-> now]
  <2>1. CASE w = <<>>
    BY <1>13, <1>17, <1>18, <1>22, <2>1
  <2>2. CASE w # <<>>
    <3>1. /\ DOMAIN N = 1 .. l + 1 /\ \A m \in 1 .. l : N[m] = B[m]
          /\ N[l + 1] = [key |-> k, val |-> w, up |-> now]
      BY <1>13, <1>18, <2>2
    <3>2. QED
      BY ONLY <1>17, <1>18, <1>22, <2>2, <3>1
  <2>3. QED
    BY <2>1, <2>2
<1>24. /\ Live' = Live \cup {x} /\ x \notin Live
       /\ \A i \in Live : i \in Idx /\ i # x /\ key[i] # 0 /\ rank[i] \in Nat
                          /\ key'[i] = key[i] /\ chunk'[i] = chunk[i] /\ up'[i] = up[i]
  <2>1. Live = {i \in Idx : key[i] # 0} /\ Live' = {i \in Idx : key'[i] # 0}
    BY <1>5, <1>7 DEF Live, Doomed
  <2>2. rank \in [Idx -> Nat]
    BY DEF Stored, Parts
  <2>3. QED
    BY <1>5, <1>6, <2>1, <2>2
<1>25. ASSUME NEW i \in Live, key[i] = k
       PROVE  /\ w # <<>> /\ up[i] = now /\ rank[i] < r
              /\ chunk[i] = Part(u, rank[i])
  <2>1. PICK m \in DOMAIN N : N[m].key = key[i]
    BY DEF Stored, Parts
  <2>2. m = l + 1 /\ w # <<>>
    BY <1>23, <1>25, <2>1
  <2>3. N[m].up = now /\ N[m].val = w
    BY <1>23, <2>2
  <2>4. up[i] = N[m].up /\ rank[i] < Lru!BlocksOf(N[m].val) /\ chunk[i] = Part(N[m].val, rank[i])
    BY <2>1 DEF Stored, Parts
  <2>5. QED
    BY <1>16, <1>24, <2>2, <2>3, <2>4
<1>26. PICK rk \in [Idx -> Nat] : \A i \in Idx : rk[i] = IF i = x THEN r ELSE rank[i]
  <2>1. rank \in [Idx -> Nat]
    BY DEF Stored, Parts
  <2>2. [rank EXCEPT ![x] = r] \in [Idx -> Nat]
        /\ \A i \in Idx : [rank EXCEPT ![x] = r][i] = IF i = x THEN r ELSE rank[i]
    BY <2>1
  <2>3. QED
    BY <2>2

<1>27. IsStore(M)
  <2>1. \A m, n_ \in DOMAIN M : M[m].key = M[n_].key => m = n_
    <3>1. ASSUME NEW a \in DOMAIN M, NEW b \in DOMAIN M, M[a].key = M[b].key PROVE a = b
      <4>1. (a = l + 1 \/ a \in 1 .. l) /\ (b = l + 1 \/ b \in 1 .. l)
        BY <1>22
      <4>2. a \in 1 .. l /\ b \in 1 .. l => a = b
        BY <1>17, <1>18, <1>22, <3>1 DEF IsStore
      <4>3. QED
        BY <1>20, <1>22, <1>23, <3>1, <4>1, <4>2
    <3>2. QED
      BY <3>1
  <2>2. \A m \in DOMAIN M : M[m].val # <<>>
    <3>1. ASSUME NEW a \in DOMAIN M PROVE M[a].val # <<>>
      <4>1. a = l + 1 \/ a \in 1 .. l
        BY <1>22
      <4>2. a \in 1 .. l => M[a].val # <<>>
        BY <1>17, <1>18, <1>22 DEF IsStore
      <4>3. QED
        BY <1>16, <1>20, <1>22, <4>1, <4>2
    <3>2. QED
      BY <3>1
  <2>3. QED
    BY <1>22, <2>1, <2>2 DEF IsStore
<1>28. Parts(M, rk)'
  <2>1. \A m \in DOMAIN M : M[m].key # Doomed'
    <3>1. Doomed' = 0
      BY <1>7 DEF Doomed
    <3>2. \A m \in DOMAIN M : M[m] \in EntrySet
      BY <1>27 DEF IsStore
    <3>3. QED
      BY <3>1, <3>2 DEF EntrySet, ShmCacheAssumption
  <2>2. ASSUME NEW i \in Live' PROVE \E m \in DOMAIN M : M[m].key = key'[i]
    <3>0. l + 1 \in DOMAIN M
      BY <1>22
    <3>1. CASE i = x
      BY <1>6, <1>20, <1>22, <3>0, <3>1
    <3>2. CASE i # x
      <4>1. i \in Live /\ key'[i] = key[i]
        BY <1>24, <3>2
      <4>2. PICK m \in DOMAIN N : N[m].key = key[i]
        BY <4>1 DEF Stored, Parts
      <4>3. CASE m \in 1 .. l
        BY ONLY <1>22, <1>23, <4>1, <4>2, <4>3, SMTT(30)
      <4>4. CASE m = l + 1 /\ w # <<>>
        <5>1. N[l + 1].key = k
          BY <1>23, <4>4
        <5>2. M[l + 1].key = key'[i]
          BY <1>20, <1>22, <4>1, <4>2, <4>4, <5>1
        <5>3. QED
          BY <3>0, <5>2
      <4>5. QED
        BY <1>23, <4>3, <4>4
    <3>3. QED
      BY <3>1, <3>2
  <2>3. ASSUME NEW i \in Live', NEW m \in DOMAIN M, M[m].key = key'[i]
        PROVE  /\ up'[i] = M[m].up
               /\ rk[i] < Lru!BlocksOf(M[m].val) /\ chunk'[i] = Part(M[m].val, rk[i])
    <3>0. m = l + 1 \/ m \in 1 .. l
      BY <1>22
    <3>1. CASE i = x
      <4>1. key'[i] = k /\ up'[i] = now /\ chunk'[i] = s /\ rk[i] = r
        BY <1>6, <1>26, <3>1
      <4>2. M[m] = z
        BY <1>22, <1>23, <2>3, <3>0, <4>1
      <4>3. QED
        BY <1>16, <1>20, <4>1, <4>2
    <3>2. CASE i # x /\ m \in 1 .. l
      <4>1. /\ i \in Live /\ key'[i] = key[i] /\ chunk'[i] = chunk[i] /\ up'[i] = up[i]
            /\ rk[i] = rank[i] /\ m \in DOMAIN N /\ N[m] = M[m]
        BY <1>23, <1>24, <1>26, <3>2
      <4>2. \A j \in Live : \A b \in DOMAIN N : N[b].key = key[j] =>
               /\ up[j] = N[b].up
               /\ rank[j] < Lru!BlocksOf(N[b].val) /\ chunk[j] = Part(N[b].val, rank[j])
        BY DEF Stored, Parts
      <4>3. QED
        BY ONLY <2>3, <4>1, <4>2
    <3>3. CASE i # x /\ m = l + 1
      <4>1. /\ i \in Live /\ key'[i] = key[i] /\ chunk'[i] = chunk[i] /\ up'[i] = up[i]
            /\ rk[i] = rank[i] /\ rank[i] \in Nat
        BY <1>24, <1>26, <3>3
      <4>2. key[i] = k /\ M[m].up = now /\ M[m].val = u
        BY <1>20, <1>22, <2>3, <3>3, <4>1
      <4>3. up[i] = now /\ rank[i] < r /\ chunk[i] = Part(u, rank[i])
        BY <1>25, <4>1, <4>2
      <4>4. rank[i] < Lru!BlocksOf(u)
        BY <1>16, <4>1, <4>3
      <4>5. QED
        BY <4>1, <4>2, <4>3, <4>4
    <3>4. QED
      BY <3>0, <3>1, <3>2, <3>3
  <2>4. ASSUME NEW m \in DOMAIN M, NEW y \in Nat, y < Lru!BlocksOf(M[m].val)
        PROVE  \E i \in Live' : key'[i] = M[m].key /\ rk[i] = y
    <3>0. m = l + 1 \/ m \in 1 .. l
      BY <1>22
    <3>1. \A b \in DOMAIN N : \A c \in Nat : c < Lru!BlocksOf(N[b].val) =>
            \E i \in Live : key[i] = N[b].key /\ rank[i] = c
      BY DEF Stored, Parts
    <3>2. \A i \in Live : i \in Live' /\ key'[i] = key[i] /\ rk[i] = rank[i]
      BY <1>24, <1>26
    <3>3. CASE m \in 1 .. l
      <4>1. PICK i \in Live : key[i] = M[m].key /\ rank[i] = y
        BY ONLY <1>23, <2>4, <3>1, <3>3
      <4>2. QED
        BY <3>2, <4>1
    <3>4. CASE m = l + 1 /\ y = r
      <4>1. M[m].key = k /\ x \in Live' /\ key'[x] = k /\ rk[x] = r
        BY <1>6, <1>20, <1>22, <1>24, <1>26, <3>4
      <4>2. QED
        BY <3>4, <4>1
    <3>5. CASE m = l + 1 /\ y # r
      <4>1. M[m].key = k /\ M[m].val = u
        BY <1>20, <1>22, <3>5
      <4>2. y < r
        BY <1>16, <2>4, <3>5, <4>1
      <4>3. w # <<>>
        <5>1. Lru!BlocksOf(w) = 0 <=> w = <<>>
          BY BlocksAre
        <5>2. QED
          BY <1>16, <4>2, <5>1
      <4>4. l + 1 \in DOMAIN N /\ N[l + 1].key = k /\ N[l + 1].val = w
        BY <1>23, <4>3
      <4>5. PICK i \in Live : key[i] = k /\ rank[i] = y
        BY ONLY <1>16, <2>4, <3>1, <4>2, <4>4
      <4>6. QED
        BY <3>2, <4>1, <4>5
    <3>6. QED
      BY <3>0, <3>3, <3>4, <3>5
  <2>5. ASSUME NEW i \in Live', NEW j \in Live', key'[i] = key'[j], rk[i] = rk[j]
        PROVE  i = j
    <3>1. /\ i # x => i \in Live /\ key'[i] = key[i] /\ rk[i] = rank[i]
          /\ j # x => j \in Live /\ key'[j] = key[j] /\ rk[j] = rank[j]
      BY <1>24, <1>26
    <3>2. key'[x] = k /\ rk[x] = r
      BY <1>6, <1>26
    <3>3. i = x /\ j # x => FALSE
      <4>1. i = x /\ j # x => rank[j] < r /\ rank[j] = r
        BY <1>25, <2>5, <3>1, <3>2
      <4>2. QED
        BY <4>1
    <3>4. j = x /\ i # x => FALSE
      <4>1. j = x /\ i # x => rank[i] < r /\ rank[i] = r
        BY <1>25, <2>5, <3>1, <3>2
      <4>2. QED
        BY <4>1
    <3>5. i # x /\ j # x => i = j
      BY <2>5, <3>1 DEF Stored, Parts
    <3>6. QED
      BY <3>3, <3>4, <3>5
  <2>6. QED
    BY <1>26, <2>1, <2>2, <2>3, <2>4, <2>5 DEF Parts
<1>29. InRow(rk)'
  <2>1. Linked = Live
    BY <1>5 DEF Live, Linked, Doomed
  <2>2. \A i \in (Live \cap Linked)' : i \in Live
    BY <1>7, <1>24 DEF Linked
  <2>3. ASSUME NEW i \in Live, next[i] # Nil, key'[next[i]] = key'[i]
        PROVE  rk[next[i]] = rk[i] + 1
    <3>1. PICK depth : Depths(depth)
      BY <1>0 DEF Chains
    <3>2. next[i] \in Live
      BY <2>1, <2>3, <3>1 DEF Depths, Follows
    <3>3. key[next[i]] = key[i]
      BY <1>24, <2>3, <3>2
    <3>4. rank[next[i]] = rank[i] + 1
      BY <2>1, <2>3, <3>3 DEF Stored, InRow
    <3>5. QED
      BY <1>24, <1>26, <3>2, <3>4
  <2>4. ASSUME NEW j \in Live', key'[j] = k PROVE rk[j] <= rk[x]
    <3>1. CASE j = x
      BY <1>26, <3>1
    <3>2. CASE j # x
      <4>1. j \in Live /\ key[j] = k /\ rk[j] = rank[j] /\ rk[x] = r
        BY <1>24, <1>26, <2>4, <3>2
      <4>2. rank[j] < r /\ rank[j] \in Nat
        BY <1>24, <1>25, <4>1
      <4>3. QED
        BY <4>1, <4>2
    <3>3. QED
      BY <3>1, <3>2
  <2>5. QED
    BY <1>5, <1>7, <2>2, <2>3, <2>4 DEF InRow
<1>30. InTurn(M, pos, rk, g)'
  <2> SUFFICES ASSUME NEW a \in DOMAIN M, NEW b \in DOMAIN M, a < b,
                      NEW i \in Live', NEW j \in Live', key'[i] = M[a].key, key'[j] = M[b].key,
                      j # x
               PROVE  pos[i] < pos[j]
    BY <1>7 DEF InTurn, Unplaced
  <2>1. a \in 1 .. l /\ (b \in 1 .. l \/ b = l + 1)
    BY ONLY <1>22, l \in Nat, a \in DOMAIN M, b \in DOMAIN M, a < b
  <2>2. i # x
    BY <1>6, <1>23, <2>1
  <2>3. i \in Live /\ j \in Live /\ key'[i] = key[i] /\ key'[j] = key[j]
    BY <1>24, <2>2
  <2>4. a \in DOMAIN N /\ N[a].key = key[i]
    BY <1>23, <2>1, <2>3
  <2>5. b \in DOMAIN N /\ N[b].key = key[j]
    <3>1. CASE b \in 1 .. l
      BY <1>23, <2>3, <3>1
    <3>2. CASE b = l + 1
      <4>1. key[j] = k
        BY <1>20, <1>22, <2>3, <3>2
      <4>2. w # <<>>
        BY <1>25, <2>3, <4>1
      <4>3. QED
        BY <1>23, <3>2, <4>1, <4>2
    <3>3. QED
      BY <2>1, <3>1, <3>2
  <2>6. pos[i] < pos[j] \/ Unplaced(j, rank, g)
    BY <2>3, <2>4, <2>5 DEF InTurn
  <2>7. QED
    BY <1>5, <2>6 DEF Unplaced
<1>31. Setting(M)'
  <2>1. v = lost \o (u \o t)
    <3>1. (w \o s) \o t = w \o (s \o t)
      <4>1. s \in Seq(Nat) /\ t \in Seq(Nat) /\ w \in Seq(Nat)
        BY <1>8
      <4>2. QED
        BY ONLY <4>1, Regroup
    <3>2. QED
      BY <1>8, <1>13, <1>15, <3>1
  <2>2. t # <<>> => \E y \in Nat : Len(u) = y * BlockSize
    <3>1. r * BlockSize \in Nat /\ (r + 1) * BlockSize = r * BlockSize + BlockSize
      BY DEF ShmCacheAssumption
    <3>2. Len(u) = Len(w) + Len(s)
      BY <1>8, <1>15, ConcatProperties
    <3>3. t # <<>> => Len(u) = (r + 1) * BlockSize
      BY <1>8, <1>14, <3>1, <3>2
    <3>4. r + 1 \in Nat
      OBVIOUS
    <3>5. QED
      BY <3>3, <3>4
  <2>3. (Lru!Without(op.key))' = W
    BY <1>7, <1>10, EntriesSame
  <2>4. M = IF u = <<>> THEN Lru!Behind(W, e)
            ELSE Append(Lru!Behind(W, e), [key |-> k, val |-> u, up |-> now])
    BY <1>12, <1>16, <1>19, <1>21
  <2>5. SetUntil(M, v, e, q, lost, u)'
    BY <1>5, <1>7, <1>13, <1>16, <2>1, <2>2, <2>3, <2>4 DEF SetUntil
  <2>6. op'.ret = "OK" /\ op'.out = <<>> /\ op'.key \in Keys
    BY <1>7 DEF Setting
  <2>7. e \in 0 .. Len((Lru!Without(op.key))')
    BY <2>3
  <2>8. QED
    BY <1>16, <2>5, <2>6, <2>7 DEF Setting
<1>32. Numbers(pos)'
  BY <1>5 DEF Numbers
<1>33. QED
  BY <1>27, <1>28, <1>29, <1>30, <1>31, <1>32 DEF Stored

-----------------------------------------------------------------------------
(* How many blocks are in use *)

\* The instance of LruCache adds up as ShmCacheLru does.
LEMMA SameSum ==
  ASSUME NEW f PROVE Lru!SumFunction(f) = SumFunctionOnSet(f, DOMAIN f)
BY DEF Lru!SumFunction, Lru!SumFunctionOnSet, Lru!FoldFunctionOnSet, Lru!MapThenFoldSet,
       SumFunctionOnSet, FoldFunctionOnSet, MapThenFoldSet

\* The blocks of a store, and of one with another entry behind it.
LEMMA UsedIs ==
  ASSUME NEW s \in Seq(EntrySet), ShmCacheAssumption
  PROVE  /\ Lru!BlocksUsed(s) \in Nat
         /\ \A y \in EntrySet : Lru!BlocksUsed(Append(s, y)) = Lru!BlocksUsed(s) + Lru!BlocksOf(y.val)
<1>1. PICK l \in Nat : l = Len(s) /\ DOMAIN s = 1 .. l
  OBVIOUS
<1>2. \A y \in EntrySet : Lru!BlocksOf(y.val) \in Nat
  BY BlocksAre DEF EntrySet
<1>3. PICK f : f = [i \in DOMAIN s |-> Lru!BlocksOf(s[i].val)]
  OBVIOUS
<1>4. /\ DOMAIN f = 1 .. l /\ \A i \in 1 .. l : f[i] = Lru!BlocksOf(s[i].val)
      /\ \A i \in 1 .. l : f[i] \in Nat
  <2>1. DOMAIN f = 1 .. l /\ \A i \in 1 .. l : f[i] = Lru!BlocksOf(s[i].val)
    BY <1>1, <1>3
  <2>2. \A i \in 1 .. l : s[i] \in EntrySet
    BY <1>1
  <2>3. QED
    BY <1>2, <2>1, <2>2
<1>5. IsFiniteSet(1 .. l)
  BY FS_Interval
<1>6. Lru!BlocksUsed(s) = SumFunctionOnSet(f, 1 .. l)
  BY <1>3, <1>4, SameSum DEF Lru!BlocksUsed
<1>7. Lru!BlocksUsed(s) \in Nat
  BY <1>4, <1>5, <1>6, SumNat
<1>8. ASSUME NEW y \in EntrySet
      PROVE  Lru!BlocksUsed(Append(s, y)) = Lru!BlocksUsed(s) + Lru!BlocksOf(y.val)
  <2>1. PICK t : t = Append(s, y)
    OBVIOUS
  <2>2. /\ DOMAIN t = 1 .. l + 1 /\ t[l + 1] = y /\ \A i \in 1 .. l : t[i] = s[i]
    BY <1>1, <2>1
  <2>3. PICK h : h = [i \in DOMAIN t |-> Lru!BlocksOf(t[i].val)]
    OBVIOUS
  <2>4. /\ DOMAIN h = 1 .. l + 1 /\ \A i \in 1 .. l : h[i] = f[i]
        /\ h[l + 1] = Lru!BlocksOf(y.val)
    <3>1. DOMAIN h = 1 .. l + 1 /\ \A i \in 1 .. l + 1 : h[i] = Lru!BlocksOf(t[i].val)
      BY <2>2, <2>3
    <3>2. l + 1 \in 1 .. l + 1 /\ \A i \in 1 .. l : i \in 1 .. l + 1
      OBVIOUS
    <3>3. QED
      BY <1>4, <2>2, <3>1, <3>2
  <2>5. 1 .. l + 1 = (1 .. l) \cup {l + 1} /\ l + 1 \notin 1 .. l
    OBVIOUS
  <2>6. Lru!BlocksUsed(t) = SumFunctionOnSet(h, 1 .. l + 1)
    BY <2>3, <2>4, SameSum DEF Lru!BlocksUsed
  <2>7. /\ \A x \in 1 .. l : f[x] \in Int /\ h[x] = f[x]
        /\ h[l + 1] \in Int
    BY <1>2, <1>4, <2>4
  <2>8. SumFunctionOnSet(h, (1 .. l) \cup {l + 1}) = SumFunctionOnSet(f, 1 .. l) + h[l + 1]
    <3>1. PICK S, k : S = 1 .. l /\ k = l + 1
      OBVIOUS
    <3>2. /\ IsFiniteSet(S) /\ k \notin S /\ h[k] \in Int
          /\ \A x \in S : f[x] \in Int /\ h[x] = f[x]
      BY <1>5, <2>5, <2>7, <3>1
    <3>3. SumFunctionOnSet(h, S \cup {k}) = SumFunctionOnSet(f, S) + h[k]
      BY ONLY <3>2, SumMore
    <3>4. QED
      BY <3>1, <3>3
  <2>9. QED
    BY <1>6, <2>1, <2>4, <2>5, <2>6, <2>8
<1>9. QED
  BY <1>7, <1>8

\* The blocks that are stored are those in use.
LEMMA UsedAre ==
  ASSUME Typed, ShmCacheAssumption, NEW N, NEW rank, Stored(N, rank)
  PROVE  Lru!BlocksUsed(N) = Cardinality(Live)
<1>1. /\ N \in Seq(EntrySet) /\ \A m, n \in DOMAIN N : N[m].key = N[n].key => m = n
      /\ \A i \in Live : \E m \in DOMAIN N : N[m].key = key[i]
      /\ \A m \in DOMAIN N : N[m] \in EntrySet
  BY DEF Stored, IsStore, Parts
<1>2. IsFiniteSet(Live) /\ IsFiniteSet(DOMAIN N)
  <2>1. Live \in SUBSET Idx
    BY DEF Live
  <2>2. IsFiniteSet(DOMAIN N)
    <3>1. DOMAIN N = 1 .. Len(N) /\ Len(N) \in Nat
      BY <1>1
    <3>2. QED
      BY <3>1, FS_Interval
  <2>3. QED
    BY <2>1, <2>2, BlocksFinite, FS_Subset
<1>3. PICK h : \A t \in Live : h[t] \in DOMAIN N /\ N[h[t]].key = key[t]
  <2>1. \A t \in Live : [i \in Live |-> CHOOSE m \in DOMAIN N : N[m].key = key[i]][t]
                           = CHOOSE m \in DOMAIN N : N[m].key = key[t]
    OBVIOUS
  <2>2. QED
    BY <1>1, <2>1
<1>4. PICK f : \A t \in Live : f[t] = 1
  <2>1. \A t \in Live : [i \in Live |-> 1][t] = 1
    OBVIOUS
  <2>2. QED
    BY <2>1
<1>5. PICK K : \A c \in DOMAIN N : K[c] = {t \in Live : h[t] = c}
  <2>1. \A c \in DOMAIN N : [m \in DOMAIN N |-> {t \in Live : h[t] = m}][c] = {t \in Live : h[t] = c}
    OBVIOUS
  <2>2. QED
    BY <2>1
<1>6. PICK u : u = [i \in DOMAIN N |-> Lru!BlocksOf(N[i].val)]
  OBVIOUS
<1>7. ASSUME NEW c \in DOMAIN N
      PROVE  u[c] = SumFunctionOnSet(f, K[c])
  <2>1. PICK n \in Nat : n = Lru!BlocksOf(N[c].val)
    <3>1. N[c].val \in Seq(Nat)
      BY <1>1 DEF EntrySet
    <3>2. QED
      BY <3>1, BlocksAre
  <2>2. K[c] = {t \in Live : key[t] = N[c].key}
    BY <1>1, <1>3, <1>5
  <2>3. \A t \in K[c] : rank[t] \in 0 .. n - 1
    <3>1. rank \in [Idx -> Nat]
      BY DEF Stored, Parts
    <3>2. ASSUME NEW t \in K[c] PROVE rank[t] \in Nat /\ rank[t] < n
      BY <2>1, <2>2, <3>1 DEF Stored, Parts, Live
    <3>3. QED
      BY <3>2
  <2>4. \A s, t \in K[c] : rank[s] = rank[t] => s = t
    BY <2>2 DEF Stored, Parts
  <2>5. \A i \in 0 .. n - 1 : \E t \in K[c] : rank[t] = i
    <3>1. \A m \in DOMAIN N : \A r \in Nat : r < Lru!BlocksOf(N[m].val) =>
            \E t \in Live : key[t] = N[m].key /\ rank[t] = r
      BY DEF Stored, Parts
    <3>2. ASSUME NEW i \in 0 .. n - 1 PROVE \E t \in Live : key[t] = N[c].key /\ rank[t] = i
      <4>1. i \in Nat /\ i < n
        OBVIOUS
      <4>2. QED
        BY <2>1, <3>1, <4>1
    <3>3. QED
      BY <2>2, <3>2
  <2>6. IsFiniteSet(K[c]) /\ Cardinality(K[c]) = n
    BY <2>3, <2>4, <2>5, CountedBy
  <2>7. SumFunctionOnSet(f, K[c]) = Cardinality(K[c])
    BY <1>4, <2>2, <2>6, SumOnes
  <2>8. QED
    BY <1>6, <2>1, <2>6, <2>7
<1>8. SumFunctionOnSet(u, DOMAIN N) = SumFunctionOnSet(f, Live)
  <2>1. \A t \in Live : f[t] \in Int
    BY <1>4
  <2>2. \A c \in DOMAIN N : \A t : t \in K[c] <=> t \in Live /\ h[t] = c
    BY <1>5
  <2>3. \A t : t \in Live <=> t \in Live /\ h[t] \in DOMAIN N
    BY <1>3
  <2>4. QED
    BY ONLY <1>2, <1>7, <2>1, <2>2, <2>3, SumSlots
<1>9. SumFunctionOnSet(f, Live) = Cardinality(Live)
  BY <1>2, <1>4, SumOnes
<1>10. Lru!BlocksUsed(N) = SumFunctionOnSet(u, DOMAIN N)
  <2>1. DOMAIN u = DOMAIN N
    BY <1>6
  <2>2. QED
    BY <1>6, <2>1, SameSum DEF Lru!BlocksUsed
<1>11. QED
  BY <1>8, <1>9, <1>10

\* Set finds no free block only when all blocks are in use.
LEMMA AllUsed ==
  ASSUME CacheInv, ShmCacheAssumption, op.pc = "set", key[lhead] # 0
  PROVE  Live = Idx /\ Cardinality(Live) = BlockNum
<1>1. PICK pos : Numbers(pos) /\ Filling(pos)
  BY DEF CacheInv, Ring
<1>2. lhead \in Idx /\ pos[lhead] = 0 /\ BlockNum \in Nat
  BY <1>1 DEF CacheInv, Typed, Numbers, ShmCacheAssumption
<1>3. ASSUME NEW i \in Idx, key[i] = 0 PROVE FALSE
  <2>1. pos[i] \in 0 .. BlockNum - 1 /\ pos[i] # 0
    BY <1>1, <1>2, <1>3 DEF Numbers
  <2>2. pos[lhead] < pos[i]
    BY <1>2, <2>1
  <2>3. QED
    BY <1>1, <1>2, <1>3, <2>2 DEF Filling
<1>4. Live = Idx
  BY <1>3 DEF Live, Doomed
<1>5. QED
  BY <1>4, BlocksFinite

LEMMA UsedNone ==
  ASSUME ShmCacheAssumption
  PROVE  Lru!BlocksUsed(<<>>) = 0
<1>1. PICK f : f = [i \in DOMAIN <<>> |-> Lru!BlocksOf((<<>>)[i].val)]
  OBVIOUS
<1>2. DOMAIN f = {}
  BY <1>1
<1>3. Lru!BlocksUsed(<<>>) = SumFunctionOnSet(f, {})
  BY <1>1, <1>2, SameSum DEF Lru!BlocksUsed
<1>4. QED
  BY <1>3, SumEmpty

\* What more bytes take more blocks than whole blocks.
LEMMA MoreBlocks ==
  ASSUME NEW v \in Seq(Nat), NEW r \in Nat, ShmCacheAssumption, Len(v) > r * BlockSize
  PROVE  Lru!BlocksOf(v) > r
<1>1. PICK b \in Nat : b = Lru!BlocksOf(v)
  BY BlocksAre
<1>2. Len(v) <= b * BlockSize /\ Len(v) \in Nat /\ BlockSize \in Nat \ {0}
  BY <1>1, BlocksAre DEF ShmCacheAssumption
<1>3. b <= r => b * BlockSize <= r * BlockSize
  BY <1>2, Multiples
<1>4. r * BlockSize \in Int /\ b * BlockSize \in Int
  BY <1>2
<1>5. QED
  BY <1>1, <1>2, <1>3, <1>4

\* The oldest entry goes.
LEMMA FirstCut ==
  ASSUME NEW W, IsStore(W), NEW e \in Nat, e < Len(W), NEW z \in EntrySet
  PROVE  /\ CutOut(Lru!Behind(W, e), 1) = Lru!Behind(W, e + 1)
         /\ CutOut(Append(Lru!Behind(W, e), z), 1) = Append(Lru!Behind(W, e + 1), z)
<1>1. PICK l \in Nat : l = Len(W) /\ e < l
  BY DEF IsStore
<1>2. PICK B : B = Lru!Behind(W, e)
  OBVIOUS
<1>3. /\ B \in Seq(EntrySet) /\ Len(B) = l - e
      /\ \A m \in 1 .. l - e : B[m] = W[e + m]
  <2>1. e \in 0 .. Len(W)
    BY <1>1
  <2>2. QED
    BY <1>1, <1>2, <2>1, BehindIs DEF IsStore
<1>4. PICK X : X = Lru!Behind(W, e + 1)
  OBVIOUS
<1>5. /\ X \in Seq(EntrySet) /\ Len(X) = l - (e + 1)
      /\ \A m \in 1 .. l - (e + 1) : X[m] = W[(e + 1) + m]
  <2>1. e + 1 \in 0 .. Len(W)
    BY <1>1
  <2>2. PICK d \in 0 .. Len(W) : d = e + 1
    BY <2>1
  <2>3. /\ IsStore(Lru!Behind(W, d)) /\ Len(Lru!Behind(W, d)) = Len(W) - d
        /\ \A m \in 1 .. Len(W) - d : Lru!Behind(W, d)[m] = W[d + m]
    BY BehindIs
  <2>4. QED
    BY <1>1, <1>4, <2>2, <2>3 DEF IsStore
<1>6. \A m \in 1 .. l - (e + 1) : X[m] = B[m + 1]
  <2>1. ASSUME NEW m \in 1 .. l - (e + 1) PROVE X[m] = B[m + 1]
    <3>1. m + 1 \in 1 .. l - e /\ e + (m + 1) = (e + 1) + m
      BY <1>1
    <3>2. QED
      BY <1>3, <1>5, <3>1
  <2>2. QED
    BY <2>1
<1>7. CutOut(B, 1) = X
  <2>1. 1 \in DOMAIN B
    BY <1>1, <1>3
  <2>2. /\ CutOut(B, 1) \in Seq(EntrySet) /\ Len(CutOut(B, 1)) = Len(B) - 1
        /\ \A m \in 1 .. Len(B) - 1 : CutOut(B, 1)[m] = IF m < 1 THEN B[m] ELSE B[m + 1]
    BY <1>3, <2>1, CutIs
  <2>3. Len(B) - 1 = l - (e + 1)
    BY <1>1, <1>3
  <2>4. \A m \in 1 .. Len(X) : CutOut(B, 1)[m] = X[m]
    <3>1. ASSUME NEW m \in 1 .. Len(X) PROVE CutOut(B, 1)[m] = X[m]
      <4>1. m \in 1 .. Len(B) - 1 /\ m \in 1 .. l - (e + 1) /\ ~ (m < 1)
        BY <1>5, <2>3
      <4>2. QED
        BY <1>6, <2>2, <4>1
    <3>2. QED
      BY <3>1
  <2>5. Len(CutOut(B, 1)) = Len(X)
    BY <1>5, <2>2, <2>3
  <2>6. QED
    BY <1>5, <2>2, <2>4, <2>5, SeqEqual
<1>8. CutOut(Append(B, z), 1) = Append(X, z)
  <2>1. PICK Y, Z : Y = Append(B, z) /\ Z = Append(X, z)
    OBVIOUS
  <2>2. /\ Y \in Seq(EntrySet) /\ Len(Y) = l - e + 1
        /\ Y[l - e + 1] = z /\ \A m \in 1 .. l - e : Y[m] = B[m]
    BY <1>3, <2>1
  <2>3. /\ Z \in Seq(EntrySet) /\ Len(Z) = l - e
        /\ Z[l - e] = z /\ \A m \in 1 .. l - (e + 1) : Z[m] = X[m]
    BY <1>1, <1>5, <2>1
  <2>4. 1 \in DOMAIN Y
    BY <1>1, <2>2
  <2>5. /\ CutOut(Y, 1) \in Seq(EntrySet) /\ Len(CutOut(Y, 1)) = Len(Y) - 1
        /\ \A m \in 1 .. Len(Y) - 1 : CutOut(Y, 1)[m] = IF m < 1 THEN Y[m] ELSE Y[m + 1]
    BY <2>2, <2>4, CutIs
  <2>6. Len(Y) - 1 = l - e
    BY <1>1, <2>2
  <2>7. ASSUME NEW m \in 1 .. l - e PROVE CutOut(Y, 1)[m] = Z[m]
    <3>1. CutOut(Y, 1)[m] = Y[m + 1]
      BY <2>5, <2>6
    <3>2. CASE m = l - e
      BY <2>2, <2>3, <3>1, <3>2
    <3>3. CASE m # l - e
      <4>1. m + 1 \in 1 .. l - e /\ m \in 1 .. l - (e + 1)
        BY <1>1, <3>3
      <4>2. QED
        BY <1>6, <2>2, <2>3, <3>1, <4>1
    <3>4. QED
      BY <3>2, <3>3
  <2>8. Len(CutOut(Y, 1)) = Len(Z)
    BY <2>3, <2>5, <2>6
  <2>9. QED
    BY <2>1, <2>3, <2>5, <2>7, <2>8, SeqEqual
<1>9. QED
  BY <1>2, <1>4, <1>7, <1>8

\* The least recently used block in use belongs to the oldest entry.
LEMMA OldestFirst ==
  ASSUME CacheInv, ShmCacheAssumption, op.pc = "set", key[lhead] # 0,
         NEW N, NEW rank, NEW pos, NEW g,
         Numbers(pos), Stored(N, rank), InTurn(N, pos, rank, g)
  PROVE  1 \in DOMAIN N /\ N[1].key = key[lhead]
<1>1. PICK c \in Idx : c = lhead
  BY DEF CacheInv, Typed
<1>2. c \in Live /\ pos[c] = 0
  BY <1>1 DEF Live, Doomed, Numbers
<1>3. PICK m \in DOMAIN N : N[m].key = key[c]
  BY <1>2 DEF Stored, Parts
<1>4. /\ DOMAIN N = 1 .. Len(N) /\ Len(N) \in Nat /\ N \in Seq(EntrySet)
  BY DEF Stored, IsStore
<1>5. 1 \in DOMAIN N /\ m >= 1 /\ m \in Int
  BY <1>4
<1>6. ASSUME m # 1 PROVE FALSE
  <2>1. PICK j \in Live : key[j] = N[1].key
    <3>1. N[1].val \in Seq(Nat) /\ N[1].val # <<>>
      <4>1. N[1] \in EntrySet /\ N[1].val # <<>>
        BY <1>5 DEF Stored, IsStore
      <4>2. QED
        BY <4>1 DEF EntrySet
    <3>2. PICK b \in Nat : b = Lru!BlocksOf(N[1].val) /\ b # 0
      BY <3>1, BlocksAre
    <3>3. 0 \in Nat /\ 0 < Lru!BlocksOf(N[1].val)
      BY <3>2
    <3>4. QED
      BY <1>5, <3>3 DEF Stored, Parts
  <2>2. 1 < m
    BY <1>5, <1>6
  <2>3. pos[j] < pos[c] \/ Unplaced(c, rank, g)
    BY <1>2, <1>3, <1>5, <2>1, <2>2 DEF InTurn
  <2>4. pos[j] \in 0 .. BlockNum - 1
    BY <2>1 DEF Numbers, Live
  <2>5. QED
    BY <1>2, <2>3, <2>4 DEF Unplaced
<1>7. QED
  BY <1>1, <1>3, <1>5, <1>6

\* What SetUntil says of the next state.
LEMMA UntilNext ==
  ASSUME NEW k, op'.key = k, NEW rest, op'.rest = rest, NEW t, now' = t,
         NEW W, (Lru!Without(op.key))' = W,
         NEW M, NEW v, NEW e, NEW q, NEW lost, NEW w,
         v = lost \o (w \o rest) /\ Len(lost) = q * (BlockNum * BlockSize),
         rest # <<>> => \E r \in Nat : Len(w) = r * BlockSize,
         w = <<>> => rest # <<>> \/ v = <<>>,
         q > 0 => e = Len(W),
         v = <<>> => e = 0,
         \A j \in 0 .. e - 1 : Lru!BlocksUsed(Lru!Behind(W, j)) + Lru!BlocksOf(v) > BlockNum,
         M = IF w = <<>> THEN Lru!Behind(W, e)
             ELSE Append(Lru!Behind(W, e), [key |-> k, val |-> w, up |-> t])
  PROVE  SetUntil(M, v, e, q, lost, w)'
BY DEF SetUntil

\* Room is needed, and the oldest entry is thrown away: one of another key, or
\* what has been stored of a value that is longer than the whole store.
LEMMA EvictHolds ==
  ASSUME CacheInv, SetEvict, ShmCacheAssumption, IsStore(entries), entries' = entries,
         NEW N, NEW rank, NEW pos, NEW g,
         Numbers(pos), Stored(N, rank), InTurn(N, pos, rank, g), Setting(N)
  PROVE  \E M : /\ Numbers(pos)' /\ Stored(M, rank)' /\ InTurn(M, pos, rank, g)'
                /\ Passed' /\ Setting(M)'
<1>0. Typed /\ op \in Ops /\ op.rest \in Seq(Nat)
  BY OpRecord DEF CacheInv
<1>1. PICK c \in Idx : c = lhead
  BY <1>0 DEF Typed
<1>2. PICK k \in Keys : k = op.key
  BY DEF Setting
<1>3. /\ op.pc = "set" /\ op.rest # <<>> /\ key[c] # 0 /\ now' = now /\ UNCHANGED heap
      /\ op' = [op EXCEPT !.pc = "delete", !.call = "set", !.dkey = key[c],
                          !.cur = hhead[Hash(key[c])], !.prev = Nil]
  BY <1>1 DEF SetEvict, Deleting
<1>4. /\ op'.pc = "delete" /\ op'.key = k /\ op'.rest = op.rest /\ op'.prev = Nil
      /\ op'.dkey = key[c] /\ op'.ret = op.ret /\ op'.out = op.out
  BY <1>0, <1>2, <1>3 DEF Ops
<1>5. Reading
  BY <1>3, <1>4 DEF Reading
<1>6. 1 \in DOMAIN N /\ N[1].key = key[c] /\ IsStore(N)
  BY <1>1, <1>3, OldestFirst DEF Stored
<1>7. PICK M : M = CutOut(N, 1)
  OBVIOUS
<1>8. IsStore(M) /\ Loses(N, M, key[c])
  BY <1>6, <1>7, CutLoses
<1>9. Numbers(pos)' /\ Stored(M, rank)' /\ InTurn(M, pos, rank, g)' /\ Passed'
  <2>1. \A j \in Live : key[j] # key[c] => ~ Unplaced(j, rank, g)
    BY <1>3 DEF Unplaced
  <2>2. op.pc # "delete"
    BY <1>3
  <2>3. PICK d : d = key[c]
    OBVIOUS
  <2>4. op'.dkey = d /\ Loses(N, M, d) /\ \A j \in Live : key[j] # d => ~ Unplaced(j, rank, g)
    BY <1>4, <1>8, <2>1, <2>3
  <2>5. QED
    BY <1>4, <1>5, <1>8, <2>2, <2>4, Begins
<1>10. Lru!BlocksUsed(N) = BlockNum
  BY <1>0, <1>1, <1>3, AllUsed, UsedAre
<1>11. PICK v \in Values, q \in Nat, lost \in Seq(Nat), w \in Seq(Nat) :
        \E e \in 0 .. Len(Lru!Without(op.key)) : SetUntil(N, v, e, q, lost, w)
  BY DEF Setting
<1>12. PICK W : W = Lru!Without(k)
  OBVIOUS
<1>13. PICK e \in 0 .. Len(W) : SetUntil(N, v, e, q, lost, w)
  BY <1>2, <1>11, <1>12
<1>14. PICK B : B = Lru!Behind(W, e)
  OBVIOUS
<1>15. /\ v = lost \o (w \o op.rest) /\ Len(lost) = q * (BlockNum * BlockSize)
       /\ q > 0 => e = Len(W)
       /\ v = <<>> => e = 0
       /\ \A j \in 0 .. e - 1 : Lru!BlocksUsed(Lru!Behind(W, j)) + Lru!BlocksOf(v) > BlockNum
       /\ N = IF w = <<>> THEN B ELSE Append(B, [key |-> k, val |-> w, up |-> now])
  BY <1>2, <1>12, <1>13, <1>14 DEF SetUntil
<1>16. PICK r \in Nat : Len(w) = r * BlockSize
  BY <1>3, <1>13 DEF SetUntil
<1>17. IsStore(W) /\ W \in Seq(EntrySet) /\ Len(W) \in Nat /\ B \in Seq(EntrySet) /\ Len(B) = Len(W) - e
  <2>1. IsStore(W)
    BY <1>12, WithoutIs
  <2>2. IsStore(B) /\ Len(B) = Len(W) - e
    BY <1>14, <2>1, BehindIs
  <2>3. QED
    BY <2>1, <2>2 DEF IsStore
<1>18. w # <<>> => [key |-> k, val |-> w, up |-> now] \in EntrySet
  BY <1>0 DEF EntrySet, Typed
<1>19. (Lru!Without(op.key))' = W
  BY <1>4, <1>12, EntriesSame
<1>20. BlockNum \in Nat \ {0} /\ BlockSize \in Nat \ {0} /\ v \in Seq(Nat)
  BY DEF ShmCacheAssumption
<1>21. Lru!BlocksOf(w) = r
  <2>1. r * BlockSize \in Int /\ (r - 1) * BlockSize = r * BlockSize - BlockSize
    BY <1>20
  <2>2. Len(w) <= r * BlockSize /\ (r > 0 => (r - 1) * BlockSize < Len(w))
    BY ONLY <1>16, <1>20, <2>1
  <2>3. QED
    BY <2>2, BlocksUnique
<1>22. PICK z : z = [key |-> k, val |-> w, up |-> now]
  OBVIOUS
<1>23. CASE e < Len(W)
  <2>1. q = 0
    <3>1. q > 0 => e = Len(W)
      BY <1>15
    <3>2. Len(W) \in Nat
      BY <1>17
    <3>3. QED
      BY ONLY <1>23, <3>1, <3>2, q \in Nat
  <2>2. v = w \o op.rest
    <3>1. Len(lost) = 0
      BY <1>15, <1>20, <2>1
    <3>2. lost = <<>>
      BY <3>1
    <3>3. w \o op.rest \in Seq(Nat)
      BY <1>0
    <3>4. QED
      BY <1>15, <3>2, <3>3
  <2>3. Lru!BlocksOf(v) > r /\ Lru!BlocksOf(v) \in Nat
    <3>1. Len(v) = Len(w) + Len(op.rest) /\ Len(op.rest) > 0 /\ Len(op.rest) \in Nat
      BY <1>0, <1>3, <2>2, SMTT(30)
    <3>2. Len(v) > r * BlockSize
      <4>1. r * BlockSize \in Int
        BY <1>20
      <4>2. QED
        BY ONLY <1>16, <3>1, <4>1
    <3>3. QED
      BY <1>20, <3>2, MoreBlocks, BlocksAre
  <2>4. Lru!BlocksUsed(B) + Lru!BlocksOf(v) > BlockNum
    <3>1. Lru!BlocksUsed(B) \in Nat
      BY <1>17, UsedIs
    <3>2. CASE w = <<>>
      <4>1. Lru!BlocksUsed(B) = BlockNum
        BY <1>10, <1>15, <3>2
      <4>2. QED
        BY <1>20, <2>3, <4>1
    <3>3. CASE w # <<>>
      <4>1. z \in EntrySet /\ N = Append(B, z) /\ z.val = w
        BY <1>15, <1>18, <1>22, <3>3
      <4>2. Lru!BlocksUsed(Append(B, z)) = Lru!BlocksUsed(B) + Lru!BlocksOf(z.val)
        BY <1>17, <4>1, UsedIs
      <4>3. BlockNum = Lru!BlocksUsed(B) + r
        BY <1>10, <1>21, <4>1, <4>2
      <4>4. QED
        BY <1>20, <2>3, <3>1, <4>3
    <3>4. QED
      BY <3>2, <3>3
  <2>5. M = IF w = <<>> THEN Lru!Behind(W, e + 1)
            ELSE Append(Lru!Behind(W, e + 1), [key |-> k, val |-> w, up |-> now])
    <3>0. PICK y \in EntrySet : y = N[1]
      BY <1>6 DEF IsStore
    <3>1. CASE w = <<>>
      <4>1. CutOut(Lru!Behind(W, e), 1) = Lru!Behind(W, e + 1)
        BY <1>17, <1>23, <3>0, FirstCut
      <4>2. QED
        BY <1>7, <1>14, <1>15, <3>1, <4>1
    <3>2. CASE w # <<>>
      <4>1. z \in EntrySet /\ N = Append(B, z)
        BY <1>15, <1>18, <1>22, <3>2
      <4>2. CutOut(Append(Lru!Behind(W, e), z), 1) = Append(Lru!Behind(W, e + 1), z)
        BY <1>17, <1>23, <4>1, FirstCut
      <4>3. QED
        BY <1>7, <1>14, <1>22, <3>2, <4>1, <4>2
    <3>3. QED
      BY <3>1, <3>2
  <2>6. PICK d \in 0 .. Len(W) : d = e + 1
    BY <1>17, <1>23
  <2>7. \A j \in 0 .. d - 1 : Lru!BlocksUsed(Lru!Behind(W, j)) + Lru!BlocksOf(v) > BlockNum
    <3>1. ASSUME NEW j \in 0 .. d - 1
          PROVE  Lru!BlocksUsed(Lru!Behind(W, j)) + Lru!BlocksOf(v) > BlockNum
      <4>1. j = e \/ j \in 0 .. e - 1
        BY <1>17, <2>6
      <4>2. QED
        BY <1>14, <1>15, <2>4, <4>1
    <3>2. QED
      BY <3>1
  <2>8. v # <<>>
    <3>1. Len(v) = Len(w) + Len(op.rest) /\ Len(op.rest) > 0 /\ Len(w) \in Nat
      BY <1>0, <1>3, <2>2, SMTT(30)
    <3>2. QED
      BY <3>1
  <2>9. SetUntil(M, v, d, q, lost, w)'
    <3>1. op.rest # <<>> => \E b \in Nat : Len(w) = b * BlockSize
      BY <1>16
    <3>2. M = IF w = <<>> THEN Lru!Behind(W, d)
              ELSE Append(Lru!Behind(W, d), [key |-> k, val |-> w, up |-> now])
      BY <2>5, <2>6
    <3>3. ~ (q > 0)
      BY <2>1
    <3>4. PICK rest, t : rest = op.rest /\ t = now
      OBVIOUS
    <3>5. /\ op'.key = k /\ op'.rest = rest /\ now' = t /\ rest # <<>>
          /\ v = lost \o (w \o rest)
          /\ M = IF w = <<>> THEN Lru!Behind(W, d)
                 ELSE Append(Lru!Behind(W, d), [key |-> k, val |-> w, up |-> t])
          /\ rest # <<>> => \E b \in Nat : Len(w) = b * BlockSize
      BY <1>3, <1>4, <1>15, <3>1, <3>2, <3>4
    <3>6. Len(lost) = q * (BlockNum * BlockSize)
      BY <1>15
    <3>7. QED
      BY ONLY <1>19, <2>7, <2>8, <3>3, <3>5, <3>6, UntilNext
  <2>10. op'.ret = "OK" /\ op'.out = <<>> /\ op'.key \in Keys
    BY <1>4 DEF Setting
  <2>11. Setting(M)'
    BY <1>19, <2>6, <2>9, <2>10 DEF Setting
  <2>12. QED
    BY <1>9, <2>11
<1>24. CASE ~ (e < Len(W))
  <2>1. e = Len(W) /\ B = <<>>
    BY <1>17, <1>24
  <2>2. w # <<>> /\ z \in EntrySet /\ N = Append(<<>>, z) /\ z.val = w
    BY <1>6, <1>15, <1>18, <1>22, <2>1
  <2>3. M = <<>>
    <3>1. N \in Seq(EntrySet) /\ Len(N) = 1 /\ 1 \in DOMAIN N
      BY <2>2
    <3>2. CutOut(N, 1) \in Seq(EntrySet) /\ Len(CutOut(N, 1)) = Len(N) - 1
      BY <3>1, CutIs
    <3>3. QED
      BY <1>7, <3>1, <3>2
  <2>4. r = BlockNum
    <3>1. <<>> \in Seq(EntrySet)
      OBVIOUS
    <3>2. Lru!BlocksUsed(Append(<<>>, z)) = Lru!BlocksUsed(<<>>) + Lru!BlocksOf(z.val)
      BY <2>2, <3>1, UsedIs
    <3>3. QED
      BY <1>10, <1>21, <2>2, <3>2, UsedNone
  <2>5. PICK o : o = lost \o w
    OBVIOUS
  <2>6. o \in Seq(Nat) /\ Len(o) = (q + 1) * (BlockNum * BlockSize)
    <3>1. o \in Seq(Nat) /\ Len(o) = Len(lost) + Len(w)
      BY <2>5, ConcatProperties
    <3>2. PICK p \in Nat : p = BlockNum * BlockSize
      BY <1>20
    <3>3. (q + 1) * p = q * p + p
      BY ONLY q \in Nat, p \in Nat
    <3>4. QED
      BY <1>15, <1>16, <2>4, <3>1, <3>2, <3>3
  <2>7. v = o \o (<<>> \o op.rest)
    <3>1. (lost \o w) \o op.rest = lost \o (w \o op.rest)
      BY <1>0, Regroup
    <3>2. <<>> \o op.rest = op.rest
      BY <1>0
    <3>3. QED
      BY <1>15, <2>5, <3>1, <3>2
  <2>8. Len(<<>>) = 0 * BlockSize
    BY <1>20
  <2>9. M = Lru!Behind(W, e)
    BY <1>14, <2>1, <2>3
  <2>10. v # <<>>
    <3>1. v = lost \o (w \o op.rest) /\ w \o op.rest # <<>> /\ w \o op.rest \in Seq(Nat)
      BY <1>0, <1>3, <1>15, ConcatProperties, ConcatEqualIffEmpty, SMTT(30)
    <3>2. QED
      BY <3>1, ConcatEqualIffEmpty
  <2>11. PICK x \in Seq(Nat), p \in Nat : x = <<>> /\ p = q + 1
    <3>1. <<>> \in Seq(Nat) /\ q + 1 \in Nat
      OBVIOUS
    <3>2. QED
      BY <3>1
  <2>12. SetUntil(M, v, e, p, o, x)'
    <3>1. PICK rest, t : rest = op.rest /\ t = now
      OBVIOUS
    <3>2. /\ op'.key = k /\ op'.rest = rest /\ now' = t /\ rest # <<>>
          /\ v = o \o (x \o rest)
      BY <1>3, <1>4, <2>7, <2>11, <3>1
    <3>3. Len(o) = p * (BlockNum * BlockSize)
      BY <2>6, <2>11
    <3>4. rest # <<>> => \E b \in Nat : Len(x) = b * BlockSize
      BY <2>8, <2>11
    <3>5. M = IF x = <<>> THEN Lru!Behind(W, e)
              ELSE Append(Lru!Behind(W, e), [key |-> k, val |-> x, up |-> t])
      BY <2>9, <2>11
    <3>6. /\ p > 0 => e = Len(W)
          /\ \A j \in 0 .. e - 1 : Lru!BlocksUsed(Lru!Behind(W, j)) + Lru!BlocksOf(v) > BlockNum
      BY <1>15, <2>1
    <3>7. QED
      BY ONLY <1>19, <2>10, <3>2, <3>3, <3>4, <3>5, <3>6, UntilNext
  <2>13. op'.ret = "OK" /\ op'.out = <<>> /\ op'.key \in Keys
    BY <1>4 DEF Setting
  <2>14. Setting(M)'
    BY <1>19, <2>6, <2>12, <2>13 DEF Setting
  <2>15. QED
    BY <1>9, <2>14
<1>25. QED
  BY <1>23, <1>24

-----------------------------------------------------------------------------
(* The steps of the walks *)

\* What an operation has done so far does not change when its results, what
\* is left to set and the entries do not change.
LEMMA DoingSame ==
  ASSUME entries' = entries, now' = now, NEW k, k = op.key, op'.key = k,
         op'.ret = op.ret, op'.out = op.out, op'.rest = op.rest,
         Phase' = Phase, Phase # "get", NEW N, NEW rank, NEW g, Doing(N, rank, g)
  PROVE  Doing(N, rank, g)'
<1>1. Phase = "idle" => N = entries'
  BY DEF Doing
<1>2. ASSUME Phase = "set" PROVE Setting(N)'
  <2>1. Setting(N)
    BY <1>2 DEF Doing
  <2>2. PICK v \in Values, q \in Nat, lost \in Seq(Nat), w \in Seq(Nat) :
          \E e \in 0 .. Len(Lru!Without(op.key)) : SetUntil(N, v, e, q, lost, w)
    BY <2>1 DEF Setting
  <2>3. PICK W : W = Lru!Without(k)
    OBVIOUS
  <2>4. PICK e \in 0 .. Len(W) : SetUntil(N, v, e, q, lost, w)
    BY <2>2, <2>3
  <2>5. (Lru!Without(op.key))' = W
    BY <2>3, EntriesSame
  <2>6. PICK rest, t : rest = op.rest /\ t = now
    OBVIOUS
  <2>7. op'.rest = rest /\ now' = t
    BY <2>6
  <2>8. /\ v = lost \o (w \o rest)
        /\ rest # <<>> => \E r \in Nat : Len(w) = r * BlockSize
        /\ w = <<>> => rest # <<>> \/ v = <<>>
        /\ q > 0 => e = Len(W)
        /\ v = <<>> => e = 0
        /\ N = IF w = <<>> THEN Lru!Behind(W, e)
               ELSE Append(Lru!Behind(W, e), [key |-> k, val |-> w, up |-> t])
    BY <2>3, <2>4, <2>6 DEF SetUntil
  <2>12. /\ Len(lost) = q * (BlockNum * BlockSize)
         /\ \A j \in 0 .. e - 1 : Lru!BlocksUsed(Lru!Behind(W, j)) + Lru!BlocksOf(v) > BlockNum
    BY <2>3, <2>4 DEF SetUntil
  <2>9. SetUntil(N, v, e, q, lost, w)'
    BY ONLY <2>5, <2>7, <2>8, <2>12, op'.key = k DEF SetUntil
  <2>10. op'.ret = "OK" /\ op'.out = <<>> /\ op'.key \in Keys
    BY <2>1 DEF Setting
  <2>11. QED
    BY <2>5, <2>9, <2>10 DEF Setting
<1>3. ASSUME Phase = "check" PROVE (Lru!Thinned(entries, N))' /\ op'.ret = "OK" /\ op'.out = <<>>
  <2>1. Lru!Thinned(entries, N) /\ op.ret = "OK" /\ op.out = <<>>
    BY <1>3 DEF Doing
  <2>2. (Lru!Thinned(entries, N))'
    BY <2>1 DEF Lru!Thinned, Lru!Stale
  <2>3. QED
    BY <2>1, <2>2
<1>4. ASSUME Phase = "unlock" PROVE Done(N)'
  <2>1. Done(N)
    BY <1>4 DEF Doing
  <2>2. \A c, v : (Lru!AfterSet(c, v))' = Lru!AfterSet(c, v)
    <3>1. \A c : (Lru!Without(c))' = Lru!Without(c)
      BY EntriesSame
    <3>2. QED
      BY <3>1 DEF Lru!AfterSet
  <2>3. \A c : /\ (Lru!Places(c))' = Lru!Places(c) /\ (Lru!Place(c))' = Lru!Place(c)
               /\ (Lru!Without(c))' = Lru!Without(c) /\ (Lru!Moved(c))' = Lru!Moved(c)
    BY EntriesSame
  <2>4. (Lru!Thinned(entries, N))' <=> Lru!Thinned(entries, N)
    BY DEF Lru!Thinned, Lru!Stale
  <2>5. \A c : (Lru!Stale(entries[Lru!Place(c)]))' <=> Lru!Stale(entries[Lru!Place(c)])
    BY <2>3 DEF Lru!Stale
  <2>6. QED
    BY <2>1, <2>2, <2>3, <2>4, <2>5 DEF Done
<1>5. QED
  BY <1>1, <1>2, <1>3, <1>4 DEF Doing

\* A step of a walk that changes no block.
LEMMA WalkHolds ==
  ASSUME CacheInv, ShmCacheAssumption, Holding, entries' = entries, now' = now,
         Reading, Live' = Live, Doomed' = Doomed \/ Doomed' = 0,
         op'.key = op.key, op'.ret = op.ret, op'.out = op.out, op'.rest = op.rest,
         Phase' = Phase, Phase # "get"
  PROVE  Holding'
<1>1. PICK N, rank, pos, g :
        Numbers(pos) /\ Stored(N, rank) /\ InTurn(N, pos, rank, g) /\ Doing(N, rank, g)
  BY DEF Holding
<1>2. op.pc # "get" /\ (op.pc = "insert" => op'.pc = "insert" /\ op'.idx = op.idx)
  BY DEF Phase, Reading
<1>3. \A j \in Live : Unplaced(j, rank, g) => Unplaced(j, rank, g)'
  BY <1>2 DEF Unplaced
<1>4. Numbers(pos)' /\ Stored(N, rank)' /\ InTurn(N, pos, rank, g)'
  BY <1>1, <1>3, ReaderKeeps
<1>5. PICK k : k = op.key
  OBVIOUS
<1>6. op'.key = k
  BY <1>5
<1>7. Doing(N, rank, g)'
  BY <1>1, <1>5, <1>6, DoingSame
<1>8. QED
  BY <1>4, <1>7 DEF Holding

LEMMA DeleteSkipHolds ==
  ASSUME CacheInv, ShmCacheAssumption, Holding, Passed, entries' = entries, DeleteSkip
  PROVE  Holding' /\ Passed'
<1>0. Typed /\ op \in Ops /\ Called
  BY OpRecord DEF CacheInv
<1>1. /\ op.pc = "delete" /\ op.cur # Nil /\ op.dkey > key[op.cur]
      /\ now' = now /\ UNCHANGED heap
      /\ op' = [op EXCEPT !.prev = op.cur, !.cur = next[op.cur]]
  BY DEF DeleteSkip
<1>2. /\ op'.pc = op.pc /\ op'.call = op.call /\ op'.key = op.key /\ op'.dkey = op.dkey
      /\ op'.ret = op.ret /\ op'.out = op.out /\ op'.rest = op.rest /\ op'.idx = op.idx
      /\ op'.prev = op.cur
  BY <1>0, <1>1 DEF Ops
<1>3. Reading /\ key' = key
  BY <1>1, <1>2 DEF Reading, heap
<1>4. Live' = Live /\ Doomed' = Doomed /\ Phase' = Phase
  BY <1>2, <1>3 DEF Live, Doomed, Phase
<1>5. Phase # "get"
  BY <1>0, <1>1 DEF Phase, Called
<1>6. Holding'
  BY <1>1, <1>2, <1>3, <1>4, <1>5, WalkHolds
<1>7. op.cur \in Idx /\ key[op.cur] \in Nat /\ op.dkey \in Nat
  BY <1>0, <1>1, OpRecord, LinkTypes DEF ShmCacheAssumption
<1>8. Passed'
  BY <1>1, <1>2, <1>3, <1>7 DEF Passed
<1>9. QED
  BY <1>6, <1>8

LEMMA InsertSkipHolds ==
  ASSUME CacheInv, ShmCacheAssumption, Holding, Passed, entries' = entries, InsertSkip
  PROVE  Holding' /\ Passed'
<1>0. Typed /\ op \in Ops /\ Called
  BY OpRecord DEF CacheInv
<1>1. /\ op.pc = "insert" /\ now' = now /\ UNCHANGED heap
      /\ op' = [op EXCEPT !.prev = op.cur, !.cur = next[op.cur]]
  BY DEF InsertSkip
<1>2. /\ op'.pc = op.pc /\ op'.call = op.call /\ op'.key = op.key /\ op'.dkey = op.dkey
      /\ op'.ret = op.ret /\ op'.out = op.out /\ op'.rest = op.rest /\ op'.idx = op.idx
  BY <1>0, <1>1 DEF Ops
<1>3. Reading /\ key' = key
  BY <1>1, <1>2 DEF Reading, heap
<1>4. Live' = Live /\ Doomed' = Doomed /\ Phase' = Phase
  BY <1>2, <1>3 DEF Live, Doomed, Phase
<1>5. Phase # "get"
  BY <1>1 DEF Phase
<1>6. Holding'
  BY <1>1, <1>2, <1>3, <1>4, <1>5, WalkHolds
<1>7. QED
  BY <1>1, <1>2, <1>6 DEF Passed

LEMMA CheckFreshHolds ==
  ASSUME CacheInv, ShmCacheAssumption, Holding, Passed, entries' = entries, CheckFresh
  PROVE  Holding' /\ Passed'
<1>0. Typed /\ op \in Ops /\ Called
  BY OpRecord DEF CacheInv
<1>1. /\ op.pc = "check" /\ now' = now /\ UNCHANGED heap
      /\ op' = [op EXCEPT !.cur = next[op.cur]]
  BY DEF CheckFresh
<1>2. /\ op'.pc = op.pc /\ op'.call = op.call /\ op'.key = op.key /\ op'.dkey = op.dkey
      /\ op'.ret = op.ret /\ op'.out = op.out /\ op'.rest = op.rest /\ op'.idx = op.idx
  BY <1>0, <1>1 DEF Ops
<1>3. Reading /\ key' = key
  BY <1>1, <1>2 DEF Reading, heap
<1>4. Live' = Live /\ Doomed' = Doomed /\ Phase' = Phase
  BY <1>2, <1>3 DEF Live, Doomed, Phase
<1>5. Phase # "get"
  BY <1>1 DEF Phase
<1>6. Holding'
  BY <1>1, <1>2, <1>3, <1>4, <1>5, WalkHolds
<1>7. QED
  BY <1>1, <1>2, <1>6 DEF Passed

\* When DeleteHash ends, no block of the key is left.
LEMMA DeleteEndHolds ==
  ASSUME CacheInv, ShmCacheAssumption, Holding, Passed, entries' = entries, DeleteEnd
  PROVE  Holding' /\ Passed'
<1>0. Typed /\ op \in Ops /\ Called /\ Chains /\ Walked
  BY OpRecord DEF CacheInv
<1>1. /\ op.pc = "delete" /\ now' = now /\ UNCHANGED heap
      /\ op.cur # Nil => op.dkey < key[op.cur]
      /\ op' = [op EXCEPT !.pc = op.call, !.cur = op.resume, !.prev = Nil, !.resume = Nil]
  BY DEF DeleteEnd
<1>2. /\ op'.pc = op.call /\ op'.call = op.call /\ op'.key = op.key /\ op'.dkey = op.dkey
      /\ op'.ret = op.ret /\ op'.out = op.out /\ op'.rest = op.rest /\ op'.idx = op.idx
      /\ op.call \in {"set", "unlock", "check"}
  BY <1>0, <1>1 DEF Ops, Called
<1>3. Reading /\ key' = key
  BY <1>1, <1>2 DEF Reading, heap
<1>4. Doomed' = 0 /\ Phase' = Phase /\ Phase # "get"
  BY <1>1, <1>2 DEF Doomed, Phase
<1>5. PICK d \in Keys \cup {0} : d = op.dkey
  BY <1>0, OpRecord
<1>6. ASSUME NEW i \in Idx, key[i] = d, d # 0 PROVE FALSE
  <2>1. PICK depth : Depths(depth)
    BY <1>0 DEF Chains
  <2>2. Cursor(d)
    BY <1>0, <1>1, <1>5 DEF Walked
  <2>3. /\ op.prev # Nil => op.prev \in Linked /\ Hash(key[op.prev]) = Hash(d)
        /\ op.cur # Nil => /\ op.cur \in Linked /\ Hash(key[op.cur]) = Hash(d)
                           /\ depth[op.cur] = IF op.prev = Nil THEN 1 ELSE depth[op.prev] + 1
        /\ op.cur = Nil /\ op.prev = Nil => \A j \in Linked : Hash(key[j]) # Hash(d)
    BY <1>0, <2>1, <2>2, CursorLinked
  <2>4. i \in Linked
    BY <1>1, <1>6 DEF Linked
  <2>5. d \in Nat /\ \A j \in Idx : key[j] \in Nat
    <3>1. Keys \cup {0} \subseteq Nat
      BY DEF ShmCacheAssumption
    <3>2. key \in [Idx -> Keys \cup {0}]
      BY <1>0 DEF Typed
    <3>3. QED
      BY ONLY <3>1, <3>2, d \in Keys \cup {0}
  <2>6. depth[i] \in Nat /\ depth[i] >= 1
        /\ \A j \in Linked : j \in Idx /\ depth[j] \in Nat
    BY <2>1, <2>4 DEF Depths, Firsts, Linked
  <2>7. op.prev # Nil => depth[op.prev] < depth[i]
    <3>1. ASSUME op.prev # Nil PROVE depth[op.prev] < depth[i]
      <4>1. op.prev \in Linked /\ Hash(key[op.prev]) = Hash(key[i]) /\ key[op.prev] < d
        BY <1>1, <1>5, <1>6, <2>3, <3>1 DEF Passed
      <4>2. depth[i] = depth[op.prev] => i = op.prev
        BY <2>1, <2>4, <4>1 DEF Depths, Sorted
      <4>3. depth[i] < depth[op.prev] => key[i] <= key[op.prev]
        BY <2>1, <2>4, <4>1 DEF Depths, Sorted
      <4>4. QED
        BY <1>6, <2>5, <2>6, <4>1, <4>2, <4>3
    <3>2. QED
      BY <3>1
  <2>8. CASE op.cur # Nil
    <3>1. op.cur \in Linked /\ Hash(key[op.cur]) = Hash(key[i]) /\ d < key[op.cur]
      BY <1>1, <1>5, <1>6, <2>3, <2>8
    <3>2. depth[op.cur] <= depth[i]
      BY <2>3, <2>6, <2>7, <2>8
    <3>3. depth[op.cur] = depth[i] => i = op.cur
      BY <2>1, <2>4, <3>1 DEF Depths, Sorted
    <3>4. depth[op.cur] < depth[i] => key[op.cur] <= key[i]
      BY <2>1, <2>4, <3>1 DEF Depths, Sorted
    <3>5. QED
      BY <1>6, <2>5, <2>6, <3>1, <3>2, <3>3, <3>4
  <2>9. CASE op.cur = Nil
    <3>1. op.prev \in Linked /\ Hash(key[op.prev]) = Hash(key[i])
      BY <1>6, <2>3, <2>4, <2>9
    <3>2. op.prev # Nil
      BY <3>1, NilIsNone DEF Linked
    <3>3. next[op.prev] # Nil
      BY <2>1, <2>4, <2>7, <3>1, <3>2 DEF Depths, Sorted
    <3>4. QED
      BY <1>1, <1>5, <2>2, <2>9, <3>2, <3>3 DEF Cursor
  <2>10. QED
    BY <2>8, <2>9
<1>7. Live' = Live
  BY <1>1, <1>3, <1>4, <1>5, <1>6 DEF Live, Doomed
<1>8. Holding'
  BY <1>1, <1>2, <1>3, <1>4, <1>7, WalkHolds
<1>9. Passed'
  BY <1>2 DEF Passed
<1>10. QED
  BY <1>8, <1>9

\* The steps that change blocks.
LEMMA DeleteBlockHolds ==
  ASSUME CacheInv, ShmCacheAssumption, Holding, Passed, entries' = entries, DeleteBlock
  PROVE  Holding' /\ Passed'
<1>0. Typed /\ op \in Ops /\ Called
  BY OpRecord DEF CacheInv
<1>1. op.pc = "delete" /\ now' = now /\ op' = [op EXCEPT !.cur = next[op.cur]]
  BY DEF DeleteBlock
<1>2. /\ op'.pc = op.pc /\ op'.call = op.call /\ op'.key = op.key
      /\ op'.ret = op.ret /\ op'.out = op.out /\ op'.rest = op.rest
  BY <1>0, <1>1 DEF Ops
<1>3. Phase' = Phase /\ Phase # "get"
  BY <1>0, <1>1, <1>2 DEF Phase, Called
<1>4. PICK N, rank, pos, g :
        Numbers(pos) /\ Stored(N, rank) /\ InTurn(N, pos, rank, g) /\ Doing(N, rank, g)
  BY DEF Holding
<1>5. Passed' /\ \E q : Numbers(q)' /\ Stored(N, rank)' /\ InTurn(N, q, rank, g)'
  BY <1>4, DeleteHolds
<1>6. PICK k : k = op.key
  OBVIOUS
<1>7. op'.key = k
  BY <1>2, <1>6
<1>8. Doing(N, rank, g)'
  BY <1>1, <1>2, <1>3, <1>4, <1>6, <1>7, DoingSame
<1>9. QED
  BY <1>5, <1>8 DEF Holding

LEMMA InsertLinkHolds ==
  ASSUME CacheInv, ShmCacheAssumption, IsStore(entries), Holding, entries' = entries,
         InsertLink
  PROVE  Holding' /\ Passed'
<1>0. Typed /\ op \in Ops
  BY OpRecord DEF CacheInv
<1>1. /\ op.pc = "insert" /\ now' = now
      /\ op' = [op EXCEPT !.pc = "set", !.cur = Nil, !.prev = Nil, !.idx = 0]
  BY DEF InsertLink
<1>2. /\ op'.pc = "set" /\ op'.key = op.key
      /\ op'.ret = op.ret /\ op'.out = op.out /\ op'.rest = op.rest
  BY <1>0, <1>1 DEF Ops
<1>3. Phase' = Phase /\ Phase = "set"
  BY <1>1, <1>2 DEF Phase
<1>4. PICK N, rank, pos, g :
        Numbers(pos) /\ Stored(N, rank) /\ InTurn(N, pos, rank, g) /\ Doing(N, rank, g)
  BY DEF Holding
<1>5. Setting(N)
  BY <1>3, <1>4 DEF Doing
<1>6. \E q : Numbers(q)' /\ Stored(N, rank)' /\ InTurn(N, q, rank, g)'
  BY <1>4, <1>5, InsertHolds
<1>7. PICK k : k = op.key
  OBVIOUS
<1>8. op'.key = k
  BY <1>2, <1>7
<1>9. Doing(N, rank, g)'
  BY <1>1, <1>2, <1>3, <1>4, <1>7, <1>8, DoingSame
<1>10. Passed'
  BY <1>2 DEF Passed
<1>11. QED
  BY <1>6, <1>9, <1>10 DEF Holding

LEMMA SetFillHolds ==
  ASSUME CacheInv, ShmCacheAssumption, IsStore(entries), Holding, entries' = entries,
         SetFill
  PROVE  Holding' /\ Passed'
<1>0. Typed /\ op \in Ops
  BY OpRecord DEF CacheInv
<1>1. op.pc = "set"
  BY DEF SetFill
<1>2. op'.pc = "insert"
  BY <1>0 DEF SetFill, Ops
<1>3. Phase = "set" /\ Phase' = "set"
  BY <1>1, <1>2 DEF Phase
<1>4. PICK N, rank, pos, g :
        Numbers(pos) /\ Stored(N, rank) /\ InTurn(N, pos, rank, g) /\ Doing(N, rank, g)
  BY DEF Holding
<1>5. Setting(N)
  BY <1>3, <1>4 DEF Doing
<1>6. PICK M, r : Numbers(pos)' /\ Stored(M, r)' /\ InTurn(M, pos, r, g)' /\ Setting(M)'
  BY <1>4, <1>5, FillHolds
<1>7. Doing(M, r, g)'
  BY <1>3, <1>6 DEF Doing
<1>8. Passed'
  BY <1>2 DEF Passed
<1>9. QED
  BY <1>6, <1>7, <1>8 DEF Holding

LEMMA SetEvictHolds ==
  ASSUME CacheInv, ShmCacheAssumption, IsStore(entries), Holding, entries' = entries,
         SetEvict
  PROVE  Holding' /\ Passed'
<1>0. Typed /\ op \in Ops
  BY OpRecord DEF CacheInv
<1>1. op.pc = "set"
  BY DEF SetEvict
<1>2. op'.pc = "delete" /\ op'.call = "set"
  BY <1>0 DEF SetEvict, Deleting, Ops
<1>3. Phase = "set" /\ Phase' = "set"
  BY <1>1, <1>2 DEF Phase
<1>4. PICK N, rank, pos, g :
        Numbers(pos) /\ Stored(N, rank) /\ InTurn(N, pos, rank, g) /\ Doing(N, rank, g)
  BY DEF Holding
<1>5. Setting(N)
  BY <1>3, <1>4 DEF Doing
<1>6. PICK M : /\ Numbers(pos)' /\ Stored(M, rank)' /\ InTurn(M, pos, rank, g)'
               /\ Passed' /\ Setting(M)'
  BY <1>4, <1>5, EvictHolds
<1>7. Doing(M, rank, g)'
  BY <1>3, <1>6 DEF Doing
<1>8. QED
  BY <1>6, <1>7 DEF Holding

LEMMA GetHitHolds ==
  ASSUME CacheInv, ShmCacheAssumption, IsStore(entries), Holding, entries' = entries,
         GetHit
  PROVE  Holding' /\ Passed'
<1>0. Typed /\ op \in Ops
  BY OpRecord DEF CacheInv
<1>1. op.pc = "get"
  BY DEF GetHit
<1>2. op'.pc = "get"
  BY <1>0, <1>1 DEF GetHit, Ops
<1>3. Phase = "get" /\ Phase' = "get"
  BY <1>1, <1>2 DEF Phase
<1>4. PICK N, rank, pos, g :
        Numbers(pos) /\ Stored(N, rank) /\ InTurn(N, pos, rank, g) /\ Doing(N, rank, g)
  BY DEF Holding
<1>5. Getting(N, rank, g)
  BY <1>3, <1>4 DEF Doing
<1>6. PICK q : /\ Numbers(q)' /\ Stored(N, rank)' /\ InTurn(N, q, rank, g + 1)'
               /\ Getting(N, rank, g + 1)'
  BY <1>4, <1>5, HitHolds
<1>7. PICK h : h = g + 1
  OBVIOUS
<1>8. Numbers(q)' /\ Stored(N, rank)' /\ InTurn(N, q, rank, h)' /\ Getting(N, rank, h)'
  BY <1>6, <1>7
<1>9. Doing(N, rank, h)'
  BY <1>3, <1>8 DEF Doing
<1>10. Passed'
  BY <1>2 DEF Passed
<1>11. QED
  BY <1>8, <1>9, <1>10 DEF Holding

\* The calls.
LEMMA SetCallHolds ==
  ASSUME CacheInv, ShmCacheAssumption, IsStore(entries), Holding, entries' = entries,
         NEW k \in Keys, NEW v \in Values, SetCall(k, v)
  PROVE  Holding' /\ Passed'
<1>0. Typed
  BY DEF CacheInv
<1>1. /\ op.pc = "idle" /\ now' = now /\ UNCHANGED heap
      /\ op'.pc = "delete" /\ op'.call = "set" /\ op'.key = k /\ op'.rest = v
      /\ op'.dkey = k /\ op'.prev = Nil /\ op'.ret = "OK" /\ op'.out = <<>>
  BY DEF SetCall, Deleting, Idle
<1>2. PICK N, rank, pos, g :
        Numbers(pos) /\ Stored(N, rank) /\ InTurn(N, pos, rank, g) /\ Doing(N, rank, g)
  BY DEF Holding
<1>3. N = entries
  BY <1>1, <1>2 DEF Doing, Phase
<1>4. PICK W : W = Lru!Without(k)
  OBVIOUS
<1>5. IsStore(W) /\ Loses(N, W, k)
  BY <1>3, <1>4, WithoutIs
<1>6. Reading
  BY <1>1 DEF Reading
<1>7. \A j \in Live : key[j] # k => ~ Unplaced(j, rank, g)
  BY <1>1 DEF Unplaced
<1>8. Numbers(pos)' /\ Stored(W, rank)' /\ InTurn(W, pos, rank, g)' /\ Passed'
  BY <1>1, <1>2, <1>5, <1>6, <1>7, Begins
<1>9. (Lru!Without(op.key))' = W
  BY <1>1, <1>4, EntriesSame
<1>10. W \in Seq(EntrySet) /\ Len(W) \in Nat
  BY <1>5 DEF IsStore
<1>11. v \in Seq(Nat)
  BY DEF ShmCacheAssumption
<1>12. PICK x \in Seq(Nat), z \in 0 .. Len(W) : x = <<>> /\ z = 0
  <2>1. <<>> \in Seq(Nat) /\ 0 \in 0 .. Len(W)
    BY <1>10
  <2>2. QED
    BY <2>1
<1>13. SetUntil(W, v, z, z, x, x)'
  <2>1. W = Lru!Behind(W, z)
    BY <1>10, <1>12, SubSeqFull DEF Lru!Behind
  <2>2. v = x \o (x \o v)
    BY <1>11, <1>12
  <2>3. Len(x) = z * (BlockNum * BlockSize)
    BY <1>12 DEF ShmCacheAssumption
  <2>4. Len(x) = z * BlockSize
    BY <1>12 DEF ShmCacheAssumption
  <2>5. PICK t : t = now
    OBVIOUS
  <2>6. v # <<>> => \E r \in Nat : Len(x) = r * BlockSize
    BY <1>12, <2>4
  <2>7. \A j \in 0 .. z - 1 : Lru!BlocksUsed(Lru!Behind(W, j)) + Lru!BlocksOf(v) > BlockNum
    BY ONLY <1>12
  <2>8. x = <<>> => v # <<>> \/ v = <<>>
    OBVIOUS
  <2>9. W = IF x = <<>> THEN Lru!Behind(W, z)
            ELSE Append(Lru!Behind(W, z), [key |-> k, val |-> x, up |-> t])
    BY <1>12, <2>1
  <2>10. /\ op'.key = k /\ op'.rest = v /\ now' = t /\ ~ (z > 0) /\ z = 0
    BY <1>1, <1>12, <2>5
  <2>11. QED
    BY ONLY <1>9, <2>2, <2>3, <2>6, <2>7, <2>8, <2>9, <2>10 DEF SetUntil
<1>14. z \in Nat /\ z \in 0 .. Len((Lru!Without(op.key))')
  BY <1>9, <1>10
<1>15. Setting(W)'
  BY <1>1, <1>12, <1>13, <1>14 DEF Setting
<1>16. Doing(W, rank, g)'
  BY <1>1, <1>15 DEF Doing, Phase
<1>17. QED
  BY <1>8, <1>16 DEF Holding

LEMMA DelCallHolds ==
  ASSUME CacheInv, ShmCacheAssumption, IsStore(entries), Holding, entries' = entries,
         NEW k \in Keys, DelCall(k)
  PROVE  Holding' /\ Passed'
<1>1. /\ op.pc = "idle" /\ now' = now /\ UNCHANGED heap
      /\ op'.pc = "delete" /\ op'.call = "unlock" /\ op'.key = k
      /\ op'.dkey = k /\ op'.prev = Nil /\ op'.ret = "OK" /\ op'.out = <<>>
  BY DEF DelCall, Deleting, Idle
<1>2. PICK N, rank, pos, g :
        Numbers(pos) /\ Stored(N, rank) /\ InTurn(N, pos, rank, g) /\ Doing(N, rank, g)
  BY DEF Holding
<1>3. N = entries
  BY <1>1, <1>2 DEF Doing, Phase
<1>4. PICK W : W = Lru!Without(k)
  OBVIOUS
<1>5. IsStore(W) /\ Loses(N, W, k)
  BY <1>3, <1>4, WithoutIs
<1>6. Reading
  BY <1>1 DEF Reading
<1>7. \A j \in Live : key[j] # k => ~ Unplaced(j, rank, g)
  BY <1>1 DEF Unplaced
<1>8. Numbers(pos)' /\ Stored(W, rank)' /\ InTurn(W, pos, rank, g)' /\ Passed'
  BY <1>1, <1>2, <1>5, <1>6, <1>7, Begins
<1>9. W = (Lru!Without(k))'
  BY <1>4, EntriesSame
<1>10. Done(W)'
  BY <1>1, <1>9 DEF Done
<1>11. Doing(W, rank, g)'
  BY <1>1, <1>10 DEF Doing, Phase
<1>12. QED
  BY <1>8, <1>11 DEF Holding

\* At first Check has thrown away nothing.
LEMMA ThinnedSame ==
  ASSUME NEW s, s \in Seq(EntrySet)
  PROVE  Lru!Thinned(s, s)
<1>1. PICK f : f = [m \in DOMAIN s |-> m]
  OBVIOUS
<1>2. f \in [DOMAIN s -> DOMAIN s]
  BY <1>1
<1>3. /\ \A m, n \in DOMAIN s : m < n => f[m] < f[n]
      /\ \A m \in DOMAIN s : s[m] = s[f[m]]
      /\ \A i \in DOMAIN s : Lru!Stale(s[i]) \/ \E m \in DOMAIN s : f[m] = i
  BY <1>1
<1>4. QED
  BY <1>2, <1>3 DEF Lru!Thinned

LEMMA CheckCallHolds ==
  ASSUME CacheInv, ShmCacheAssumption, IsStore(entries), Holding, entries' = entries,
         CheckCall
  PROVE  Holding' /\ Passed'
<1>1. /\ op.pc = "idle" /\ now' = now /\ UNCHANGED heap
      /\ op'.pc = "check" /\ op'.ret = "OK" /\ op'.out = <<>>
  BY DEF CheckCall, Idle
<1>2. PICK N, rank, pos, g :
        Numbers(pos) /\ Stored(N, rank) /\ InTurn(N, pos, rank, g) /\ Doing(N, rank, g)
  BY DEF Holding
<1>3. N = entries
  BY <1>1, <1>2 DEF Doing, Phase
<1>4. Reading /\ key' = key
  BY <1>1 DEF Reading, heap
<1>5. Live' = Live /\ Doomed' = Doomed
  BY <1>1, <1>4 DEF Live, Doomed
<1>6. \A j \in Live : Unplaced(j, rank, g) => Unplaced(j, rank, g)'
  BY <1>1 DEF Unplaced
<1>7. Numbers(pos)' /\ Stored(N, rank)' /\ InTurn(N, pos, rank, g)'
  BY <1>2, <1>4, <1>5, <1>6, ReaderKeeps
<1>8. Lru!Thinned(entries, N)
  BY <1>3, ThinnedSame DEF IsStore
<1>9. (Lru!Thinned(entries, N))'
  BY <1>1, <1>8 DEF Lru!Thinned, Lru!Stale
<1>10. Doing(N, rank, g)'
  BY <1>1, <1>9 DEF Doing, Phase
<1>11. QED
  BY <1>1, <1>7, <1>10 DEF Holding, Passed

-----------------------------------------------------------------------------
(* Get *)

LEMMA DepthsSame ==
  ASSUME Reading, NEW depth, Depths(depth)
  PROVE  Depths(depth)' /\ Linked' = Linked
<1>1. /\ key' = key /\ next' = next /\ hhead' = hhead /\ hlen' = hlen
      /\ op'.pc = "insert" <=> op.pc = "insert"
      /\ op.pc = "insert" => op'.idx = op.idx /\ op'.key = op.key
  BY DEF Reading, heap
<1>2. Linked' = Linked
  BY <1>1 DEF Linked
<1>3. depth \in [Idx -> Nat] /\ Heads(depth)' /\ Firsts(depth)'
  BY <1>1, <1>2 DEF Depths, Heads, Firsts
<1>4. Follows(depth)' /\ Reached(depth)'
  BY <1>1, <1>2 DEF Depths, Follows, Reached
<1>5. Sorted(depth)' /\ Within(depth)'
  BY <1>1, <1>2 DEF Depths, Sorted, Within
<1>6. QED
  BY <1>2, <1>3, <1>4, <1>5 DEF Depths

\* Get is about to put the blocks of its key into the most recent place.
LEMMA GetCallHolds ==
  ASSUME CacheInv, ShmCacheAssumption, IsStore(entries), Holding, entries' = entries,
         NEW k \in Keys, GetCall(k)
  PROVE  Holding' /\ Passed'
<1>0. Typed /\ Chains
  BY DEF CacheInv
<1>1. /\ op.pc = "idle" /\ now' = now /\ UNCHANGED heap
      /\ op'.pc = "get" /\ op'.key = k /\ op'.ret = "KEY_NO_EXIST" /\ op'.out = <<>>
      /\ op'.cur = hhead[Hash(k)]
  BY DEF GetCall, Idle
<1>2. PICK N, rank, pos, g :
        Numbers(pos) /\ Stored(N, rank) /\ InTurn(N, pos, rank, g) /\ Doing(N, rank, g)
  BY DEF Holding
<1>3. N = entries
  BY <1>1, <1>2 DEF Doing, Phase
<1>4. Reading /\ key' = key /\ chunk' = chunk /\ up' = up /\ next' = next
  BY <1>1 DEF Reading, heap
<1>5. Live' = Live /\ Doomed' = Doomed /\ Linked' = Linked
  BY <1>1, <1>4 DEF Live, Doomed, Linked
<1>6. Numbers(pos)'
  BY <1>1, <1>2 DEF Numbers, heap, lru
<1>7. PICK M : M = Lru!Moved(k)
  OBVIOUS
<1>8. /\ IsStore(M)
      /\ \A m \in DOMAIN M : \E a \in DOMAIN N : N[a] = M[m]
      /\ \A a \in DOMAIN N : \E m \in DOMAIN M : N[a] = M[m]
      /\ \A m, n \in DOMAIN M : m < n /\ M[n].key # k =>
           \E a, b \in DOMAIN N : a < b /\ N[a] = M[m] /\ N[b] = M[n]
  BY <1>3, <1>7, MovedIs
<1>9. Parts(M, rank)
  <2>1. rank \in [Idx -> Nat] /\ \A m \in DOMAIN M : M[m].key # Doomed
    BY <1>2, <1>8 DEF Stored, Parts
  <2>2. \A i \in Live : \E m \in DOMAIN M : M[m].key = key[i]
    <3>1. \A i \in Live : \E a \in DOMAIN N : N[a].key = key[i]
      BY <1>2 DEF Stored, Parts
    <3>2. QED
      BY <1>8, <3>1
  <2>3. \A i \in Live : \A m \in DOMAIN M : M[m].key = key[i] =>
          /\ up[i] = M[m].up
          /\ rank[i] < Lru!BlocksOf(M[m].val) /\ chunk[i] = Part(M[m].val, rank[i])
    <3>1. \A i \in Live : \A a \in DOMAIN N : N[a].key = key[i] =>
            /\ up[i] = N[a].up
            /\ rank[i] < Lru!BlocksOf(N[a].val) /\ chunk[i] = Part(N[a].val, rank[i])
      BY <1>2 DEF Stored, Parts
    <3>2. QED
      BY <1>8, <3>1
  <2>4. \A m \in DOMAIN M : \A r \in Nat : r < Lru!BlocksOf(M[m].val) =>
          \E i \in Live : key[i] = M[m].key /\ rank[i] = r
    <3>1. \A a \in DOMAIN N : \A r \in Nat : r < Lru!BlocksOf(N[a].val) =>
            \E i \in Live : key[i] = N[a].key /\ rank[i] = r
      BY <1>2 DEF Stored, Parts
    <3>2. QED
      BY <1>8, <3>1
  <2>5. \A i, j \in Live : key[i] = key[j] /\ rank[i] = rank[j] => i = j
    BY <1>2 DEF Stored, Parts
  <2>6. QED
    BY <2>1, <2>2, <2>3, <2>4, <2>5 DEF Parts
<1>10. Parts(M, rank)'
  <2>1. \A m \in DOMAIN M : M[m].key # Doomed'
    BY <1>5, <1>9 DEF Parts
  <2>2. QED
    BY <1>4, <1>5, <1>9, <2>1, PartsSame
<1>11. Stored(M, rank)'
  <2>1. InRow(rank)'
    BY <1>1, <1>2, <1>4, <1>5 DEF Stored, InRow
  <2>2. QED
    BY <1>8, <1>10, <2>1 DEF Stored
<1>12. InTurn(M, pos, rank, 0)'
  <2>1. ASSUME NEW m \in DOMAIN M, NEW n \in DOMAIN M, m < n,
               NEW i \in Live, NEW j \in Live, key[i] = M[m].key, key[j] = M[n].key
        PROVE  pos[i] < pos[j] \/ Unplaced(j, rank, 0)'
    <3>1. CASE M[n].key = k
      <4>1. rank[j] \in Nat
        BY <1>9 DEF Parts, Live
      <4>2. QED
        BY <1>1, <1>4, <2>1, <3>1, <4>1 DEF Unplaced
    <3>2. CASE M[n].key # k
      <4>1. PICK a, b \in DOMAIN N : a < b /\ N[a] = M[m] /\ N[b] = M[n]
        BY <1>8, <2>1, <3>2
      <4>2. pos[i] < pos[j] \/ Unplaced(j, rank, g)
        BY <1>2, <2>1, <4>1 DEF InTurn
      <4>3. QED
        BY <1>1, <4>2 DEF Unplaced
    <3>3. QED
      BY <3>1, <3>2
  <2>2. QED
    BY <1>4, <1>5, <2>1 DEF InTurn
<1>13. Getting(M, rank, 0)'
  <2>1. PICK depth : Depths(depth)
    BY <1>0 DEF Chains
  <2>2. PICK b \in 0 .. Buckets - 1 : b = Hash(k)
    BY Hashes
  <2>3. op'.cur # Nil => op'.cur \in Linked /\ Hash(key[op'.cur]) = Hash(k) /\ depth[op'.cur] = 1
    BY <1>1, <2>1, <2>2 DEF Depths, Heads
  <2>4. ASSUME NEW j \in Linked, key[j] = k PROVE op'.cur # Nil /\ depth[op'.cur] <= depth[j]
    <3>1. hhead[Hash(key[j])] # Nil /\ depth[j] >= 1
      BY <2>1 DEF Depths, Firsts
    <3>2. QED
      BY <1>1, <2>3, <2>4, <3>1
  <2>5. Depths(depth)'
    BY <1>4, <2>1, DepthsSame
  <2>6. (Lru!Moved(op.key))' = M
    BY <1>1, <1>7, EntriesSame
  <2>7. \E d : Depths(d)' /\ \A j \in Linked : key[j] = k => op'.cur # Nil /\ d[op'.cur] <= d[j]
    BY <2>4, <2>5
  <2>8. op'.cur # Nil => op'.cur \in Linked /\ Hash(key[op'.cur]) = Hash(k)
    BY <2>3
  <2>9. QED
    BY <1>1, <1>4, <1>5, <2>6, <2>7, <2>8 DEF Getting, Hash
<1>14. Doing(M, rank, 0)'
  BY <1>1, <1>13 DEF Doing, Phase
<1>15. QED
  BY <1>1, <1>6, <1>11, <1>12, <1>14 DEF Holding, Passed

LEMMA GetSkipHolds ==
  ASSUME CacheInv, ShmCacheAssumption, IsStore(entries), Holding, entries' = entries,
         GetSkip
  PROVE  Holding' /\ Passed'
<1>0. Typed /\ op \in Ops /\ Called
  BY OpRecord DEF CacheInv
<1>1. /\ op.pc = "get" /\ op.cur # Nil /\ key[op.cur] < op.key
      /\ now' = now /\ UNCHANGED heap /\ op' = [op EXCEPT !.cur = next[op.cur]]
  BY DEF GetSkip
<1>2. /\ op'.pc = "get" /\ op'.key = op.key /\ op'.cur = next[op.cur]
      /\ op'.ret = op.ret /\ op'.out = op.out
  BY <1>0, <1>1 DEF Ops
<1>3. Reading /\ key' = key /\ next' = next
  BY <1>1, <1>2 DEF Reading, heap
<1>4. Live' = Live /\ Doomed' = Doomed
  BY <1>1, <1>2, <1>3 DEF Live, Doomed
<1>5. PICK N, rank, pos, g :
        Numbers(pos) /\ Stored(N, rank) /\ InTurn(N, pos, rank, g) /\ Doing(N, rank, g)
  BY DEF Holding
<1>6. \A j \in Live : Unplaced(j, rank, g) => Unplaced(j, rank, g)'
  BY <1>1, <1>2, <1>3 DEF Unplaced
<1>7. Numbers(pos)' /\ Stored(N, rank)' /\ InTurn(N, pos, rank, g)'
  BY <1>3, <1>4, <1>5, <1>6, ReaderKeeps
<1>8. Getting(N, rank, g)
  BY <1>1, <1>5 DEF Doing, Phase
<1>9. PICK k \in Keys : k = op.key
  BY <1>8 DEF Getting
<1>10. PICK c \in Linked : c = op.cur /\ Hash(key[c]) = Hash(k) /\ key[c] < k
  BY <1>1, <1>8, <1>9 DEF Getting
<1>11. k \in Nat /\ \A j \in Linked : j \in Idx /\ key[j] \in Nat
  <2>1. \A j \in Linked : j \in Idx /\ key[j] \in Keys
    BY <1>0, LiveAre
  <2>2. QED
    BY <2>1 DEF ShmCacheAssumption
<1>12. ASSUME g > 0 PROVE FALSE
  <2>1. PICK p \in Linked : key[p] = k /\ next[p] = c
    BY <1>8, <1>9, <1>10, <1>12 DEF Getting
  <2>2. PICK depth : Depths(depth)
    BY <1>0 DEF CacheInv, Chains
  <2>3. depth[c] = depth[p] + 1 /\ depth[p] \in Nat
    BY <1>1, <1>10, <1>11, <2>1, <2>2 DEF Depths, Follows
  <2>4. depth[p] < depth[c] => key[p] <= key[c]
    BY <1>10, <2>1, <2>2 DEF Depths, Sorted
  <2>5. QED
    BY <1>10, <1>11, <2>1, <2>3, <2>4
<1>13. g = 0 /\ g \in Nat
  BY <1>8, <1>12 DEF Getting
<1>14. PICK depth : /\ Depths(depth)
                    /\ \A j \in Linked : key[j] = k => depth[c] <= depth[j]
  BY <1>8, <1>9, <1>10, <1>13 DEF Getting
<1>15. ASSUME NEW j \in Linked, key[j] = k
       PROVE  next[c] # Nil /\ depth[next[c]] <= depth[j]
  <2>1. depth[c] \in Nat /\ depth[j] \in Nat /\ depth[c] <= depth[j]
    BY <1>11, <1>14, <1>15 DEF Depths
  <2>2. Hash(key[c]) = Hash(key[j]) /\ c # j
    BY <1>10, <1>11, <1>15
  <2>3. depth[c] # depth[j]
    BY <1>14, <2>2 DEF Depths, Sorted
  <2>4. next[c] # Nil
    BY <1>14, <2>1, <2>2, <2>3 DEF Depths, Sorted
  <2>5. depth[next[c]] = depth[c] + 1
    BY <1>14, <2>4 DEF Depths, Follows
  <2>6. QED
    BY <2>1, <2>3, <2>4, <2>5
<1>16. Getting(N, rank, g)'
  <2>1. Depths(depth)' /\ Linked' = Linked
    BY <1>3, <1>14, DepthsSame
  <2>2. op'.cur = next[c] /\ op'.key = k /\ op'.ret = "KEY_NO_EXIST" /\ op'.out = <<>>
    BY <1>2, <1>8, <1>9, <1>10, <1>13 DEF Getting
  <2>3. op'.cur # Nil => op'.cur \in Linked /\ Hash(key[op'.cur]) = Hash(k)
    BY <1>10, <1>14, <2>2 DEF Depths, Follows
  <2>4. N = (Lru!Moved(op.key))'
    BY <1>8, <1>9, <2>2, EntriesSame DEF Getting
  <2>5. \E d : Depths(d)' /\ \A j \in Linked : key[j] = k => op'.cur # Nil /\ d[op'.cur] <= d[j]
    BY <1>15, <2>1, <2>2
  <2>6. QED
    BY <1>3, <1>13, <2>1, <2>2, <2>3, <2>4, <2>5 DEF Getting, Hash
<1>17. Doing(N, rank, g)'
  BY <1>2, <1>16 DEF Doing, Phase
<1>18. QED
  BY <1>2, <1>7, <1>17 DEF Holding, Passed

\* A value that is stored has at least one block.
LEMMA HasBlock ==
  ASSUME NEW N, NEW rank, Stored(N, rank), NEW m \in DOMAIN N, ShmCacheAssumption
  PROVE  \E i \in Live : key[i] = N[m].key
<1>1. N[m] \in EntrySet /\ N[m].val # <<>>
  BY DEF Stored, IsStore
<1>2. N[m].val \in Seq(Nat)
  BY <1>1 DEF EntrySet
<1>3. PICK b \in Nat : b = Lru!BlocksOf(N[m].val) /\ b # 0
  BY <1>1, <1>2, BlocksAre
<1>4. 0 \in Nat /\ 0 < Lru!BlocksOf(N[m].val)
  BY <1>3
<1>5. QED
  BY <1>4 DEF Stored, Parts

\* Behind the last block of its key Get has collected the whole value.
LEMMA GetEndHolds ==
  ASSUME CacheInv, ShmCacheAssumption, IsStore(entries), Holding, entries' = entries,
         GetEnd
  PROVE  Holding' /\ Passed'
<1>0. Typed /\ op \in Ops /\ Called
  BY OpRecord DEF CacheInv
<1>1. /\ op.pc = "get" /\ (op.cur # Nil => key[op.cur] > op.key)
      /\ now' = now /\ UNCHANGED heap /\ op' = [op EXCEPT !.pc = "unlock"]
  BY DEF GetEnd
<1>2. op'.pc = "unlock" /\ op'.ret = op.ret /\ op'.out = op.out
  BY <1>0, <1>1 DEF Ops
<1>3. Reading /\ key' = key
  BY <1>1, <1>2 DEF Reading, heap
<1>4. Live' = Live /\ Doomed' = Doomed /\ Linked = Live
  BY <1>1, <1>2, <1>3 DEF Live, Doomed, Linked
<1>5. PICK N, rank, pos, g :
        Numbers(pos) /\ Stored(N, rank) /\ InTurn(N, pos, rank, g) /\ Doing(N, rank, g)
  BY DEF Holding
<1>8. Getting(N, rank, g)
  BY <1>1, <1>5 DEF Doing, Phase
<1>9. PICK k \in Keys : k = op.key
  BY <1>8 DEF Getting
<1>10. op.cur # Nil => op.cur \in Linked /\ Hash(key[op.cur]) = Hash(k) /\ key[op.cur] > k
  BY <1>1, <1>8, <1>9 DEF Getting
<1>11. k \in Nat /\ \A j \in Linked : j \in Idx /\ key[j] \in Nat
  <2>1. \A j \in Linked : j \in Idx /\ key[j] \in Keys
    BY <1>0, LiveAre
  <2>2. QED
    BY <2>1 DEF ShmCacheAssumption
<1>12. /\ \A m \in DOMAIN N : \E i \in Live : key[i] = N[m].key
       /\ N = Lru!Moved(k) /\ \A a \in DOMAIN entries : \E m \in DOMAIN N : entries[a] = N[m]
  <2>1. N = Lru!Moved(k)
    BY <1>8, <1>9 DEF Getting
  <2>2. QED
    BY <1>5, <2>1, HasBlock, MovedIs
<1>13. CASE ~ (g > 0)
  <2>1. g = 0
    BY <1>8, <1>13 DEF Getting
  <2>2. PICK depth : /\ Depths(depth)
                     /\ \A j \in Linked : key[j] = k => op.cur # Nil /\ depth[op.cur] <= depth[j]
    BY <1>8, <1>9, <2>1 DEF Getting
  <2>3. ASSUME NEW j \in Linked, key[j] = k PROVE FALSE
    <3>1. PICK c \in Linked : c = op.cur /\ Hash(key[c]) = Hash(key[j]) /\ key[c] > k
      BY <1>10, <2>2, <2>3
    <3>2. depth[c] \in Nat /\ depth[j] \in Nat /\ depth[c] <= depth[j]
      BY <1>11, <2>2, <2>3, <3>1 DEF Depths
    <3>3. /\ depth[c] = depth[j] => c = j
          /\ depth[c] < depth[j] => key[c] <= key[j]
      BY <2>2, <3>1 DEF Depths, Sorted
    <3>4. QED
      BY <1>11, <2>3, <3>1, <3>2, <3>3
  <2>4. Lru!Places(k) = {}
    <3>1. ASSUME NEW a \in DOMAIN entries, entries[a].key = k PROVE FALSE
      <4>1. PICK m \in DOMAIN N : entries[a] = N[m]
        BY <1>12
      <4>2. PICK i \in Live : key[i] = N[m].key
        BY <1>12
      <4>3. QED
        BY <1>4, <2>3, <3>1, <4>1, <4>2
    <3>2. QED
      BY <3>1 DEF Lru!Places
  <2>5. N = entries
    BY <1>12, <2>4 DEF Lru!Moved
  <2>6. \A j \in Live : Unplaced(j, rank, g) => Unplaced(j, rank, g)'
    BY <1>1, <1>4, <1>9, <2>3 DEF Unplaced
  <2>7. Numbers(pos)' /\ Stored(N, rank)' /\ InTurn(N, pos, rank, g)'
    BY <1>3, <1>4, <1>5, <2>6, ReaderKeeps
  <2>8. (Lru!Places(k))' = {}
    BY <2>4, EntriesSame
  <2>9. op.ret = "KEY_NO_EXIST" /\ op.out = <<>>
    BY <1>8, <2>1 DEF Getting
  <2>10. Done(N)'
    BY <1>2, <2>5, <2>8, <2>9 DEF Done
  <2>11. Doing(N, rank, g)'
    BY <1>2, <2>10 DEF Doing, Phase
  <2>12. QED
    BY <1>2, <2>7, <2>11 DEF Holding, Passed
<1>14. CASE g > 0
  <2>1. g \in Nat /\ op.ret = "OK" /\ Lru!Places(k) # {}
    BY <1>8, <1>9, <1>14 DEF Getting
  <2>2. PICK e : e = entries[Lru!Place(k)]
    OBVIOUS
  <2>3. ~ Lru!Stale(e) /\ g <= Lru!BlocksOf(e.val) /\ op.out = First(e.val, g)
    BY <1>8, <1>9, <1>14, <2>2 DEF Getting
  <2>4. PICK p \in Linked : key[p] = k /\ rank[p] = g - 1 /\ next[p] = op.cur
    BY <1>8, <1>9, <1>14 DEF Getting
  <2>5. Lru!Place(k) \in DOMAIN entries /\ e.key = k
    BY <2>1, <2>2, PlaceIs
  <2>6. PICK m \in DOMAIN N : N[m] = e
    BY <1>12, <2>2, <2>5
  <2>7. e.val \in Seq(Nat)
    <3>1. e \in EntrySet
      BY <2>2, <2>5 DEF IsStore
    <3>2. QED
      BY <3>1 DEF EntrySet
  <2>8. PICK B \in Nat : B = Lru!BlocksOf(e.val)
    BY <2>7, BlocksAre
  <2>9. ASSUME g < B PROVE FALSE
    <3>1. PICK j \in Live : key[j] = k /\ rank[j] = g
      <4>1. \A r \in Nat : r < Lru!BlocksOf(N[m].val) =>
              \E i \in Live : key[i] = N[m].key /\ rank[i] = r
        BY <1>5 DEF Stored, Parts
      <4>2. QED
        BY <2>1, <2>5, <2>6, <2>8, <2>9, <4>1
    <3>2. PICK depth : Depths(depth)
      BY <1>0 DEF CacheInv, Chains
    <3>3. PICK x, y \in Nat : x = depth[p] /\ y = depth[j]
      BY <1>4, <1>11, <3>2 DEF Depths
    <3>4. x <= y => rank[j] = rank[p] + (y - x)
      BY <1>0, <1>4, <1>5, <2>4, <3>1, <3>2, <3>3, RanksFollow
    <3>5. y <= x => rank[p] = rank[j] + (x - y)
      BY <1>0, <1>4, <1>5, <2>4, <3>1, <3>2, <3>3, RanksFollow
    <3>6. y = x + 1
      BY <2>1, <2>4, <3>1, <3>4, <3>5
    <3>7. next[p] # Nil
      <4>1. depth[p] < depth[j] /\ Hash(key[p]) = Hash(key[j]) /\ j \in Linked
        BY <1>4, <2>4, <3>1, <3>3, <3>6
      <4>2. QED
        BY <3>2, <4>1 DEF Depths, Sorted
    <3>8. next[p] \in Linked /\ Hash(key[next[p]]) = Hash(key[p]) /\ depth[next[p]] = y
      BY <2>4, <3>2, <3>3, <3>6, <3>7 DEF Depths, Follows
    <3>9. next[p] = j
      BY <1>4, <2>4, <3>1, <3>2, <3>3, <3>8 DEF Depths, Sorted
    <3>10. QED
      BY <1>4, <1>10, <1>11, <2>4, <3>1, <3>7, <3>9
  <2>10. g = B
    BY <2>1, <2>3, <2>8, <2>9
  <2>11. op.out = e.val
    BY <2>3, <2>7, <2>8, <2>10, PartsJoin
  <2>12. ASSUME NEW j \in Live, Unplaced(j, rank, g) PROVE FALSE
    <3>1. key[j] = k /\ rank[j] >= g
      BY <1>1, <1>9, <2>12 DEF Unplaced
    <3>2. rank[j] < B
      BY <1>5, <2>5, <2>6, <2>8, <3>1 DEF Stored, Parts
    <3>3. rank[j] \in Nat
      BY <1>5 DEF Stored, Parts, Live
    <3>4. QED
      BY <2>10, <3>1, <3>2, <3>3
  <2>13. Numbers(pos)' /\ Stored(N, rank)' /\ InTurn(N, pos, rank, g)'
    BY <1>3, <1>4, <1>5, <2>12, ReaderKeeps
  <2>14. /\ (Lru!Places(k))' # {} /\ N = (Lru!Moved(k))' /\ (Lru!Place(k))' = Lru!Place(k)
    BY <1>12, <2>1, EntriesSame
  <2>15. ~ (Lru!Stale(entries[Lru!Place(k)]))'
    BY <1>1, <2>2, <2>3, <2>14 DEF Lru!Stale
  <2>16. op'.ret = "OK" /\ op'.out = entries'[(Lru!Place(k))'].val
    BY <1>2, <2>1, <2>2, <2>11, <2>14
  <2>17. Done(N)'
    BY <2>14, <2>15, <2>16 DEF Done
  <2>18. Doing(N, rank, g)'
    BY <1>2, <2>17 DEF Doing, Phase
  <2>19. QED
    BY <1>2, <2>13, <2>18 DEF Holding, Passed
<1>15. QED
  BY <1>13, <1>14

\* A value that is too old is thrown away.
LEMMA GetStaleHolds ==
  ASSUME CacheInv, ShmCacheAssumption, IsStore(entries), Holding, entries' = entries,
         GetStale
  PROVE  Holding' /\ Passed'
<1>0. Typed /\ op \in Ops /\ Called
  BY OpRecord DEF CacheInv
<1>1. /\ op.pc = "get" /\ op.cur # Nil /\ key[op.cur] = op.key /\ Stale(op.cur)
      /\ now' = now /\ UNCHANGED heap
      /\ op' = [[op EXCEPT !.ret = "KEY_TIMEOUT"] EXCEPT !.pc = "delete", !.call = "unlock",
                  !.dkey = op.key, !.cur = hhead[Hash(op.key)], !.prev = Nil]
  BY DEF GetStale, Deleting
<1>2. /\ op'.pc = "delete" /\ op'.call = "unlock" /\ op'.prev = Nil /\ op'.dkey = op.key
      /\ op'.ret = "KEY_TIMEOUT" /\ op'.out = op.out
  BY <1>0, <1>1 DEF Ops
<1>3. Reading
  BY <1>1, <1>2 DEF Reading
<1>4. PICK N, rank, pos, g :
        Numbers(pos) /\ Stored(N, rank) /\ InTurn(N, pos, rank, g) /\ Doing(N, rank, g)
  BY DEF Holding
<1>5. Getting(N, rank, g)
  BY <1>1, <1>4 DEF Doing, Phase
<1>6. PICK k \in Keys : k = op.key
  BY <1>5 DEF Getting
<1>7. PICK c \in Linked : c = op.cur /\ key[c] = k /\ now - up[c] > Timeout
  BY <1>1, <1>5, <1>6 DEF Getting, Stale
<1>8. c \in Live
  BY <1>1, <1>7 DEF Live, Linked, Doomed
<1>9. N = Lru!Moved(k)
  BY <1>5, <1>6 DEF Getting
<1>10. PICK m \in DOMAIN N : N[m].key = k /\ up[c] = N[m].up
  BY <1>4, <1>7, <1>8 DEF Stored, Parts
<1>11. Lru!Places(k) # {} /\ N[m] = entries[Lru!Place(k)] /\ Lru!Stale(entries[Lru!Place(k)])
  <2>1. Lru!Places(k) # {} /\ N[m] = entries[Lru!Place(k)]
    BY <1>9, <1>10, MovedIs
  <2>2. QED
    BY <1>7, <1>10, <2>1 DEF Lru!Stale
<1>12. g \in Nat /\ ~ (g > 0)
  BY <1>5, <1>6, <1>11 DEF Getting
<1>13. op.out = <<>>
  BY <1>5, <1>12 DEF Getting
<1>14. PICK W : W = Lru!Without(k)
  OBVIOUS
<1>15. IsStore(W) /\ Loses(N, W, k)
  BY <1>9, <1>14, WithoutIs, MovedIs
<1>16. \A j \in Live : key[j] # k => ~ Unplaced(j, rank, g)
  BY <1>1, <1>6 DEF Unplaced
<1>17. Numbers(pos)' /\ Stored(W, rank)' /\ InTurn(W, pos, rank, g)' /\ Passed'
  <2>1. op.pc # "delete" /\ op'.dkey = k
    BY <1>1, <1>2, <1>6
  <2>2. QED
    BY <1>2, <1>3, <1>4, <1>15, <1>16, <2>1, Begins
<1>18. /\ (Lru!Places(k))' # {} /\ W = (Lru!Without(k))' /\ (Lru!Place(k))' = Lru!Place(k)
  BY <1>11, <1>14, EntriesSame
<1>19. (Lru!Stale(entries[Lru!Place(k)]))'
  BY <1>1, <1>11, <1>18 DEF Lru!Stale
<1>20. Done(W)'
  BY <1>2, <1>13, <1>18, <1>19 DEF Done
<1>21. Doing(W, rank, g)'
  BY <1>2, <1>20 DEF Doing, Phase
<1>22. QED
  BY <1>17, <1>21 DEF Holding

-----------------------------------------------------------------------------
(* Check *)

\* What has been thinned and then loses another stale entry is thinned.
LEMMA ThinnedMore ==
  ASSUME NEW t, t \in Seq(EntrySet), NEW s, s \in Seq(EntrySet), Lru!Thinned(t, s),
         NEW M, M \in Seq(EntrySet), NEW k, Loses(s, M, k),
         \A m \in DOMAIN s : s[m].key = k => Lru!Stale(s[m])
  PROVE  Lru!Thinned(t, M)
<1>1. PICK f \in [DOMAIN s -> DOMAIN t] :
        /\ \A m, n \in DOMAIN s : m < n => f[m] < f[n]
        /\ \A m \in DOMAIN s : s[m] = t[f[m]]
        /\ \A i \in DOMAIN t : Lru!Stale(t[i]) \/ \E m \in DOMAIN s : f[m] = i
  BY DEF Lru!Thinned
<1>2. PICK h \in [DOMAIN M -> DOMAIN s] :
        /\ \A m, n \in DOMAIN M : m < n => h[m] < h[n]
        /\ \A m \in DOMAIN M : M[m] = s[h[m]] /\ M[m].key # k
        /\ \A i \in DOMAIN s : s[i].key # k => \E m \in DOMAIN M : h[m] = i
  BY DEF Loses
<1>3. PICK d : d = [m \in DOMAIN M |-> f[h[m]]]
  OBVIOUS
<1>4. d \in [DOMAIN M -> DOMAIN t]
  BY <1>1, <1>2, <1>3
<1>5. \A m, n \in DOMAIN M : m < n => d[m] < d[n]
  BY <1>1, <1>2, <1>3
<1>6. \A m \in DOMAIN M : M[m] = t[d[m]]
  BY <1>1, <1>2, <1>3
<1>7. ASSUME NEW i \in DOMAIN t, ~ Lru!Stale(t[i]) PROVE \E m \in DOMAIN M : d[m] = i
  <2>1. PICK a \in DOMAIN s : f[a] = i
    BY <1>1, <1>7
  <2>2. s[a].key # k
    BY <1>1, <1>7, <2>1
  <2>3. PICK m \in DOMAIN M : h[m] = a
    BY <1>2, <2>2
  <2>4. d[m] = i
    BY <1>3, <2>1, <2>3
  <2>5. QED
    BY <2>4
<1>8. QED
  BY <1>4, <1>5, <1>6, <1>7 DEF Lru!Thinned

\* A store loses nothing with a key that it has no entry of.
LEMMA LosesNone ==
  ASSUME NEW s, s \in Seq(EntrySet), NEW k, \A m \in DOMAIN s : s[m].key # k
  PROVE  Loses(s, s, k)
<1>1. PICK f : f = [m \in DOMAIN s |-> m]
  OBVIOUS
<1>2. f \in [DOMAIN s -> DOMAIN s]
  BY <1>1
<1>3. /\ \A m, n \in DOMAIN s : m < n => f[m] < f[n]
      /\ \A m \in DOMAIN s : s[m] = s[f[m]] /\ s[m].key # k
      /\ \A i \in DOMAIN s : s[i].key # k => \E m \in DOMAIN s : f[m] = i
  BY <1>1
<1>4. QED
  BY <1>2, <1>3 DEF Loses

\* Check throws away what the block it stands on belongs to; a block that a
\* deletion has freed under it belongs to nothing.
LEMMA CheckStaleHolds ==
  ASSUME CacheInv, ShmCacheAssumption, IsStore(entries), Holding, entries' = entries,
         CheckStale
  PROVE  Holding' /\ Passed'
<1>0. Typed /\ op \in Ops /\ Called
  BY OpRecord DEF CacheInv
<1>1. /\ op.pc = "check" /\ op.cur # Nil /\ now - up[op.cur] > Timeout
      /\ now' = now /\ UNCHANGED heap
      /\ op' = [[op EXCEPT !.resume = next[op.cur]] EXCEPT !.pc = "delete", !.call = "check",
                  !.dkey = key[op.cur], !.cur = hhead[Hash(key[op.cur])], !.prev = Nil]
  BY DEF CheckStale, Deleting, Stale
<1>2. PICK d \in Keys \cup {0} : d = key[op.cur]
  BY <1>0, <1>1, OpRecord, LinkTypes
<1>3. /\ op'.pc = "delete" /\ op'.call = "check" /\ op'.prev = Nil /\ op'.dkey = d
      /\ op'.ret = op.ret /\ op'.out = op.out
  BY <1>0, <1>1, <1>2 DEF Ops
<1>4. Reading
  BY <1>1, <1>3 DEF Reading
<1>5. PICK N, rank, pos, g :
        Numbers(pos) /\ Stored(N, rank) /\ InTurn(N, pos, rank, g) /\ Doing(N, rank, g)
  BY DEF Holding
<1>6. Lru!Thinned(entries, N) /\ op.ret = "OK" /\ op.out = <<>>
  BY <1>1, <1>5 DEF Doing, Phase
<1>7. IsStore(N) /\ N \in Seq(EntrySet) /\ entries \in Seq(EntrySet)
  BY <1>5 DEF Stored, IsStore
<1>8. PICK M : /\ IsStore(M) /\ Loses(N, M, d)
               /\ \A m \in DOMAIN N : N[m].key = d => Lru!Stale(N[m])
  <2>1. CASE d = 0
    <3>1. \A m \in DOMAIN N : N[m].key # d
      <4>1. \A m \in DOMAIN N : N[m].key \in Keys
        <5>1. \A m \in DOMAIN N : N[m] \in EntrySet
          BY <1>7
        <5>2. QED
          BY <5>1 DEF EntrySet
      <4>2. QED
        BY <2>1, <4>1 DEF ShmCacheAssumption
    <3>2. Loses(N, N, d)
      BY <1>7, <3>1, LosesNone
    <3>3. QED
      BY <1>7, <3>1, <3>2
  <2>2. CASE d # 0
    <3>1. PICK c \in Live : c = op.cur /\ key[c] = d
      <4>1. op.cur \in Idx
        BY <1>0, <1>1, OpRecord, LinkTypes
      <4>2. QED
        BY <1>1, <1>2, <2>2, <4>1 DEF Live, Doomed
    <3>2. PICK m \in DOMAIN N : N[m].key = d /\ up[c] = N[m].up
      BY <1>5, <3>1 DEF Stored, Parts
    <3>3. IsStore(CutOut(N, m)) /\ Loses(N, CutOut(N, m), d)
      BY <1>7, <3>2, CutLoses
    <3>4. Lru!Stale(N[m])
      BY <1>1, <3>1, <3>2 DEF Lru!Stale
    <3>5. \A n \in DOMAIN N : N[n].key = d => n = m
      BY <1>7, <3>2 DEF IsStore
    <3>6. QED
      BY <3>3, <3>4, <3>5
  <2>3. QED
    BY <2>1, <2>2
<1>9. \A j \in Live : key[j] # d => ~ Unplaced(j, rank, g)
  BY <1>1 DEF Unplaced
<1>10. Numbers(pos)' /\ Stored(M, rank)' /\ InTurn(M, pos, rank, g)' /\ Passed'
  <2>1. op.pc # "delete"
    BY <1>1
  <2>2. QED
    BY <1>3, <1>4, <1>5, <1>8, <1>9, <2>1, Begins
<1>11. Lru!Thinned(entries, M)
  <2>1. M \in Seq(EntrySet)
    BY <1>8 DEF IsStore
  <2>2. QED
    BY <1>6, <1>7, <1>8, <2>1, ThinnedMore
<1>12. (Lru!Thinned(entries, M))'
  BY <1>1, <1>11 DEF Lru!Thinned, Lru!Stale
<1>13. Doing(M, rank, g)'
  BY <1>3, <1>6, <1>12 DEF Doing, Phase
<1>14. QED
  BY <1>10, <1>13 DEF Holding

LEMMA CheckBucketHolds ==
  ASSUME CacheInv, ShmCacheAssumption, IsStore(entries), Holding, entries' = entries,
         CheckBucket
  PROVE  Holding' /\ Passed'
<1>0. Typed /\ op \in Ops /\ Called
  BY OpRecord DEF CacheInv
<1>1. /\ op.pc = "check" /\ now' = now /\ UNCHANGED heap
      /\ op' = IF op.bucket + 1 < Buckets
                 THEN [op EXCEPT !.bucket = @ + 1, !.cur = hhead[op.bucket + 1]]
                 ELSE [op EXCEPT !.pc = "unlock"]
  BY DEF CheckBucket
<1>2. op'.pc \in {"check", "unlock"} /\ op'.ret = op.ret /\ op'.out = op.out
  BY <1>0, <1>1 DEF Ops
<1>3. Reading /\ key' = key
  BY <1>1, <1>2 DEF Reading, heap
<1>4. Live' = Live /\ Doomed' = Doomed
  BY <1>1, <1>2, <1>3 DEF Live, Doomed
<1>5. PICK N, rank, pos, g :
        Numbers(pos) /\ Stored(N, rank) /\ InTurn(N, pos, rank, g) /\ Doing(N, rank, g)
  BY DEF Holding
<1>6. Lru!Thinned(entries, N) /\ op.ret = "OK" /\ op.out = <<>>
  BY <1>1, <1>5 DEF Doing, Phase
<1>7. \A j \in Live : Unplaced(j, rank, g) => Unplaced(j, rank, g)'
  BY <1>1 DEF Unplaced
<1>8. Numbers(pos)' /\ Stored(N, rank)' /\ InTurn(N, pos, rank, g)'
  BY <1>3, <1>4, <1>5, <1>7, ReaderKeeps
<1>9. (Lru!Thinned(entries, N))'
  BY <1>1, <1>6 DEF Lru!Thinned, Lru!Stale
<1>10. Done(N)'
  BY <1>2, <1>6, <1>9 DEF Done
<1>11. Doing(N, rank, g)'
  BY <1>2, <1>6, <1>9, <1>10 DEF Doing, Phase
<1>12. QED
  BY <1>2, <1>8, <1>11 DEF Holding, Passed

-----------------------------------------------------------------------------
(* The end of Set *)

LEMMA Associate == ASSUME NEW a \in Nat, NEW b \in Nat, NEW c \in Nat PROVE a * (b * c) = (a * b) * c
OBVIOUS

LEMMA Distribute ==
  ASSUME NEW a \in Int, NEW b \in Int, NEW c \in Int PROVE (a + b) * c = a * c + b * c
OBVIOUS

\* The blocks of a value whose first q rounds are lost, and what is kept of it.
LEMMA RoundsAre ==
  ASSUME ShmCacheAssumption, NEW lost \in Seq(Nat), NEW w \in Seq(Nat), w # <<>>,
         NEW q \in Nat, Len(lost) = q * (BlockNum * BlockSize),
         Lru!BlocksOf(w) <= BlockNum, NEW v, v = lost \o w
  PROVE  /\ Lru!BlocksOf(v) = q * BlockNum + Lru!BlocksOf(w)
         /\ Lru!Kept(v) = w
<1>1. PICK b \in Nat : b = Lru!BlocksOf(w)
  BY BlocksAre
<1>2. /\ BlockNum \in Nat \ {0} /\ BlockSize \in Nat \ {0}
      /\ b # 0 /\ b <= BlockNum /\ Len(w) <= b * BlockSize /\ (b - 1) * BlockSize < Len(w)
  BY <1>1, BlocksAre DEF ShmCacheAssumption
<1>3. PICK Q \in Nat : Q = q * BlockNum
  BY <1>2
<1>4. Q * BlockSize = Len(lost)
  BY <1>2, <1>3, Associate
<1>5. v \in Seq(Nat) /\ Len(v) = Len(lost) + Len(w) /\ Len(lost) \in Nat /\ Len(w) \in Nat
  <2>1. lost \o w \in Seq(Nat) /\ Len(lost \o w) = Len(lost) + Len(w)
    BY ConcatProperties, Zenon
  <2>2. QED
    BY ONLY <2>1, v = lost \o w, lost \in Seq(Nat), w \in Seq(Nat)
<1>6. Lru!BlocksOf(v) = Q + b
  <2>1. /\ (Q + b) * BlockSize = Q * BlockSize + b * BlockSize
        /\ (Q + (b - 1)) * BlockSize = Q * BlockSize + (b - 1) * BlockSize
    BY <1>2, Distribute
  <2>2. PICK n \in Nat : n = Q + b
    OBVIOUS
  <2>3. n - 1 = Q + (b - 1)
    BY <2>2
  <2>4. n * BlockSize = Q * BlockSize + b * BlockSize
        /\ (n - 1) * BlockSize = Q * BlockSize + (b - 1) * BlockSize
    BY <2>1, <2>2, <2>3
  <2>5. b * BlockSize \in Int /\ (b - 1) * BlockSize \in Int
    BY <1>2
  <2>6. Len(v) <= n * BlockSize /\ (n - 1) * BlockSize < Len(v)
    <3>1. PICK x, y \in Int : x = b * BlockSize /\ y = (b - 1) * BlockSize
      BY ONLY <2>5
    <3>2. n * BlockSize = Len(lost) + x /\ (n - 1) * BlockSize = Len(lost) + y
      BY ONLY <1>4, <2>4, <3>1
    <3>3. Len(w) <= x /\ y < Len(w)
      BY <1>2, <3>1
    <3>4. QED
      BY ONLY <1>5, <3>1, <3>2, <3>3
  <2>7. QED
    BY ONLY <1>5, <2>2, <2>6, BlocksUnique, ShmCacheAssumption
<1>7. Lru!Kept(v) = w
  <2>1. CASE q = 0
    <3>1. Q = 0 /\ Len(lost) = 0
      BY <1>2, <1>3, <2>1
    <3>2. lost = <<>> /\ v = w
      BY <3>1
    <3>3. Lru!BlocksOf(v) <= BlockNum
      BY <3>2
    <3>4. QED
      BY <3>2, <3>3 DEF Lru!Kept
  <2>2. CASE q # 0
    <3>1. Q >= BlockNum
      <4>1. 1 * BlockNum <= q * BlockNum
        BY <1>2, <2>2, Multiples
      <4>2. QED
        BY <1>2, <1>3, <4>1
    <3>2. ~ (Lru!BlocksOf(v) <= BlockNum)
      BY <1>2, <1>6, <3>1
    <3>3. (Q + b - 1) \div BlockNum = q
      <4>1. PICK x \in Int : x = Q + b - 1
        BY <1>2
      <4>2. PICK p, r : p = x \div BlockNum /\ r = x % BlockNum
        OBVIOUS
      <4>3. p \in Int /\ r \in 0 .. BlockNum - 1 /\ x = BlockNum * p + r
        BY <1>2, <4>1, <4>2, Divided
      <4>4. PICK s \in 0 .. BlockNum - 1 : s = b - 1
        BY <1>2
      <4>5. BlockNum * q + s = x
        BY <1>2, <1>3, <4>1, <4>4
      <4>6. BlockNum * p + r = BlockNum * q + s
        BY <4>3, <4>5
      <4>9. p \in Int /\ q \in Int /\ r \in 0 .. BlockNum - 1 /\ BlockNum \in Nat \ {0}
        BY <1>2, <4>3
      <4>7. p = q
        BY ONLY <4>6, <4>9, s \in 0 .. BlockNum - 1, Unique
      <4>8. QED
        BY <4>1, <4>2, <4>7
    <3>4. Lru!Kept(v) = SubSeq(v, Len(lost) + 1, Len(v))
      <4>1. Lru!Kept(v) = SubSeq(v, q * (BlockNum * BlockSize) + 1, Len(v))
        <5>1. (Lru!BlocksOf(v) - 1) \div BlockNum = q
          BY ONLY <1>6, <3>3
        <5>2. QED
          BY ONLY <3>2, <5>1 DEF Lru!Kept
      <4>2. QED
        BY <4>1
    <3>5. SubSeq(lost \o w, Len(lost) + 1, Len(v)) = SubSeq(w, Len(lost) + 1 - Len(lost), Len(v) - Len(lost))
      <4>1. Len(w) > 0
        BY <1>5
      <4>2. /\ Len(lost) + 1 \in Len(lost) + 1 .. Len(lost) + Len(w)
            /\ Len(v) \in Len(lost) + 1 .. Len(lost) + Len(w)
        BY <1>5, <4>1
      <4>3. QED
        BY <4>2, SubSeqOfConcat2
    <3>6. Len(lost) + 1 - Len(lost) = 1 /\ Len(v) - Len(lost) = Len(w)
      BY <1>5
    <3>7. SubSeq(w, 1, Len(w)) = w
      BY SubSeqFull
    <3>8. QED
      BY <3>4, <3>5, <3>6, <3>7
  <2>3. QED
    BY <2>1, <2>2
<1>8. QED
  BY <1>1, <1>3, <1>6, <1>7

\* What Set has thrown away is what had to go, and no more.
LEMMA EvictedIs ==
  ASSUME ShmCacheAssumption, NEW W, IsStore(W), NEW e \in 0 .. Len(W), NEW n \in Nat,
         \A j \in 0 .. e - 1 : Lru!BlocksUsed(Lru!Behind(W, j)) + n > BlockNum,
         Lru!BlocksUsed(Lru!Behind(W, e)) + n <= BlockNum \/ (n > BlockNum /\ e = Len(W))
  PROVE  Lru!Evicted(W, n) = Lru!Behind(W, e)
<1>1. Len(W) \in Nat /\ BlockNum \in Nat
  BY DEF IsStore, ShmCacheAssumption
<1>2. CASE Lru!BlocksUsed(Lru!Behind(W, e)) + n <= BlockNum
  <2>1. e \in Lru!Fits(W, n)
    BY <1>2 DEF Lru!Fits
  <2>2. \A j \in Lru!Fits(W, n) : e <= j
    <3>1. ASSUME NEW j \in Lru!Fits(W, n), ~ (e <= j) PROVE FALSE
      <4>1. j \in 0 .. Len(W) /\ Lru!BlocksUsed(Lru!Behind(W, j)) + n <= BlockNum
        BY DEF Lru!Fits
      <4>2. j \in 0 .. e - 1
        BY <1>1, <3>1, <4>1
      <4>3. Lru!BlocksUsed(Lru!Behind(W, j)) \in Nat
        <5>1. Lru!Behind(W, j) \in Seq(EntrySet)
          BY <4>1, BehindIs DEF IsStore
        <5>2. QED
          BY <5>1, UsedIs
      <4>4. QED
        BY <1>1, <4>1, <4>2, <4>3
    <3>2. QED
      BY <3>1
  <2>3. \A j \in Lru!Fits(W, n) : (\A i \in Lru!Fits(W, n) : j <= i) => j = e
    <3>1. \A j \in Lru!Fits(W, n) : j \in Int
      BY DEF Lru!Fits
    <3>2. QED
      BY <2>1, <2>2, <3>1
  <2>4. (CHOOSE i \in Lru!Fits(W, n) : \A j \in Lru!Fits(W, n) : i <= j) = e
    BY <2>1, <2>2, <2>3
  <2>5. QED
    BY <2>1, <2>4 DEF Lru!Evicted
<1>3. CASE n > BlockNum /\ e = Len(W)
  <2>1. Lru!Fits(W, n) = {}
    <3>1. ASSUME NEW j \in Lru!Fits(W, n) PROVE FALSE
      <4>1. j \in 0 .. Len(W) /\ Lru!BlocksUsed(Lru!Behind(W, j)) + n <= BlockNum
        BY DEF Lru!Fits
      <4>2. Lru!BlocksUsed(Lru!Behind(W, j)) \in Nat
        <5>1. Lru!Behind(W, j) \in Seq(EntrySet)
          BY <4>1, BehindIs DEF IsStore
        <5>2. QED
          BY <5>1, UsedIs
      <4>3. QED
        BY <1>1, <1>3, <4>1, <4>2
    <3>2. QED
      BY <3>1
  <2>2. Lru!Behind(W, e) = <<>>
    <3>1. Lru!Behind(W, e) \in Seq(EntrySet) /\ Len(Lru!Behind(W, e)) = 0
      BY <1>1, <1>3, BehindIs DEF IsStore
    <3>2. QED
      BY <3>1
  <2>3. QED
    BY <2>1, <2>2 DEF Lru!Evicted
<1>4. QED
  BY <1>2, <1>3

LEMMA SetEndHolds ==
  ASSUME CacheInv, ShmCacheAssumption, IsStore(entries), Holding, entries' = entries,
         SetEnd
  PROVE  Holding' /\ Passed'
<1>0. Typed /\ op \in Ops
  BY OpRecord DEF CacheInv
<1>1. /\ op.pc = "set" /\ op.rest = <<>>
      /\ now' = now /\ UNCHANGED heap /\ op' = [op EXCEPT !.pc = "unlock"]
  BY DEF SetEnd
<1>2. op'.pc = "unlock" /\ op'.ret = op.ret /\ op'.out = op.out
  BY <1>0, <1>1 DEF Ops
<1>3. Reading /\ key' = key
  BY <1>1, <1>2 DEF Reading, heap
<1>4. Live' = Live /\ Doomed' = Doomed
  BY <1>1, <1>2, <1>3 DEF Live, Doomed
<1>5. PICK N, rank, pos, g :
        Numbers(pos) /\ Stored(N, rank) /\ InTurn(N, pos, rank, g) /\ Doing(N, rank, g)
  BY DEF Holding
<1>6. \A j \in Live : Unplaced(j, rank, g) => Unplaced(j, rank, g)'
  BY <1>1 DEF Unplaced
<1>7. Numbers(pos)' /\ Stored(N, rank)' /\ InTurn(N, pos, rank, g)'
  BY <1>3, <1>4, <1>5, <1>6, ReaderKeeps
<1>8. Setting(N)
  BY <1>1, <1>5 DEF Doing, Phase
<1>9. PICK k \in Keys : k = op.key
  BY <1>8 DEF Setting
<1>10. PICK v \in Values, q \in Nat, lost \in Seq(Nat), w \in Seq(Nat) :
        \E e \in 0 .. Len(Lru!Without(op.key)) : SetUntil(N, v, e, q, lost, w)
  BY <1>8 DEF Setting
<1>11. PICK W : W = Lru!Without(k)
  OBVIOUS
<1>12. PICK e \in 0 .. Len(W) : SetUntil(N, v, e, q, lost, w)
  BY <1>9, <1>10, <1>11
<1>13. IsStore(W) /\ Len(W) \in Nat /\ W \in Seq(EntrySet)
  BY <1>11, WithoutIs DEF IsStore
<1>14. PICK B : B = Lru!Behind(W, e)
  OBVIOUS
<1>15. B \in Seq(EntrySet)
  BY <1>13, <1>14, BehindIs DEF IsStore
<1>16. v = lost \o w /\ (w = <<>> => v = <<>>) /\ (v = <<>> => e = 0) /\ (q > 0 => e = Len(W))
  <2>1. v = lost \o (w \o op.rest) /\ (w = <<>> => op.rest # <<>> \/ v = <<>>)
        /\ (v = <<>> => e = 0) /\ (q > 0 => e = Len(W))
    BY <1>9, <1>11, <1>12 DEF SetUntil
  <2>2. w \o <<>> = w
    OBVIOUS
  <2>3. QED
    BY <1>1, <2>1, <2>2
<1>17. /\ Len(lost) = q * (BlockNum * BlockSize)
       /\ \A j \in 0 .. e - 1 : Lru!BlocksUsed(Lru!Behind(W, j)) + Lru!BlocksOf(v) > BlockNum
       /\ N = IF w = <<>> THEN B ELSE Append(B, [key |-> k, val |-> w, up |-> now])
  BY <1>9, <1>11, <1>12, <1>14 DEF SetUntil
<1>18. N = Lru!AfterSet(k, v)
  <2>1. CASE v = <<>>
    <3>1. w = <<>>
      <4>1. Len(lost \o w) = Len(lost) + Len(w) /\ lost \o w = <<>>
        <5>1. Len(lost \o w) = Len(lost) + Len(w)
          BY ConcatProperties, Zenon
        <5>2. lost \o w = <<>>
          BY <1>16, <2>1
        <5>3. QED
          BY ONLY <5>1, <5>2
      <4>2. Len(lost) \in Nat /\ Len(w) \in Nat /\ Len(<<>>) = 0
        OBVIOUS
      <4>3. Len(w) = 0
        BY ONLY <4>1, <4>2
      <4>4. QED
        BY <4>3
    <3>2. B = W
      <4>1. e = 0
        BY <1>16, <2>1
      <4>2. QED
        BY <1>13, <1>14, <4>1, SubSeqFull DEF Lru!Behind
    <3>3. QED
      BY <1>11, <1>17, <2>1, <3>1, <3>2 DEF Lru!AfterSet
  <2>2. CASE v # <<>>
    <3>1. w # <<>>
      BY <1>16, <2>2
    <3>2. PICK z \in EntrySet : z = [key |-> k, val |-> w, up |-> now]
      <4>1. now \in 0 .. MaxTime
        BY <1>0 DEF Typed
      <4>2. QED
        BY <4>1 DEF EntrySet
    <3>3. N = Append(B, z) /\ z.val = w
      BY <1>17, <3>1, <3>2
    <3>4. PICK b \in Nat : b = Lru!BlocksOf(w)
      BY BlocksAre
    <3>5. PICK u \in Nat : u = Lru!BlocksUsed(B)
      BY <1>15, UsedIs
    <3>6. u + b <= BlockNum
      <4>1. Lru!BlocksUsed(N) = u + b
        BY <1>15, <3>3, <3>4, <3>5, UsedIs
      <4>2. Lru!BlocksUsed(N) = Cardinality(Live)
        BY <1>0, <1>5, UsedAre
      <4>3. Cardinality(Live) <= BlockNum
        BY BlocksFinite, FS_Subset DEF Live
      <4>4. QED
        BY <4>1, <4>2, <4>3
    <3>7. BlockNum \in Nat \ {0} /\ b <= BlockNum
      BY <3>6 DEF ShmCacheAssumption
    <3>8. PICK Q \in Nat : Q = q * BlockNum
      BY <3>7
    <3>9. Lru!BlocksOf(v) = Q + b /\ Lru!Kept(v) = w
      <4>1. Lru!BlocksOf(w) <= BlockNum
        BY <3>4, <3>7
      <4>2. QED
        <5>1. v = lost \o w /\ Len(lost) = q * (BlockNum * BlockSize)
          BY <1>16, <1>17
        <5>2. Lru!BlocksOf(v) = q * BlockNum + Lru!BlocksOf(w) /\ Lru!Kept(v) = w
          BY ONLY <3>1, <4>1, <5>1, ShmCacheAssumption, RoundsAre,
                  q \in Nat, lost \in Seq(Nat), w \in Seq(Nat)
        <5>3. QED
          BY ONLY <3>4, <3>8, <5>2
    <3>10. PICK n \in Nat : n = Lru!BlocksOf(v) /\ n = Q + b
      BY <3>9
    <3>11. Lru!BlocksUsed(Lru!Behind(W, e)) + n <= BlockNum \/ (n > BlockNum /\ e = Len(W))
      <4>1. CASE q = 0
        <5>1. Q = 0
          BY <3>7, <3>8, <4>1
        <5>2. QED
          BY ONLY <1>14, <3>5, <3>6, <3>7, <3>10, <5>1, b \in Nat, n \in Nat, u \in Nat
      <4>2. CASE q # 0
        <5>1. 1 * BlockNum <= q * BlockNum
          BY <3>7, <4>2, Multiples
        <5>2. b # 0
          BY <3>1, <3>4, BlocksAre
        <5>3. e = Len(W)
          BY <1>16, <4>2
        <5>4. QED
          <6>1. 1 * BlockNum <= Q /\ 1 * BlockNum = BlockNum
            BY <3>7, <3>8, <5>1
          <6>2. n > BlockNum
            BY ONLY <3>7, <3>10, <5>2, <6>1, b \in Nat, Q \in Nat, n \in Nat
          <6>3. QED
            BY <5>3, <6>2
      <4>3. QED
        BY <4>1, <4>2
    <3>12. Lru!Evicted(W, n) = B
      <4>1. \A j \in 0 .. e - 1 : Lru!BlocksUsed(Lru!Behind(W, j)) + n > BlockNum
        BY <1>17, <3>10
      <4>2. QED
        BY <1>13, <1>14, <3>11, <4>1, EvictedIs
    <3>13. QED
      BY <1>11, <2>2, <3>2, <3>3, <3>9, <3>10, <3>12 DEF Lru!AfterSet
  <2>3. QED
    BY <2>1, <2>2
<1>19. N = (Lru!AfterSet(k, v))'
  <2>1. (Lru!Without(k))' = W
    BY <1>11, EntriesSame
  <2>2. QED
    BY <1>1, <1>11, <1>18, <2>1 DEF Lru!AfterSet
<1>20. op.ret = "OK" /\ op.out = <<>>
  BY <1>8 DEF Setting
<1>21. Done(N)'
  BY <1>2, <1>19, <1>20 DEF Done
<1>22. Doing(N, rank, g)'
  BY <1>2, <1>21 DEF Doing, Phase
<1>23. QED
  BY <1>2, <1>7, <1>22 DEF Holding, Passed

-----------------------------------------------------------------------------
(* What the lists hold when no operation is half way *)

Resting == op.pc \in {"idle", "unlock"}

\* The B blocks of value v stand on chain c from its d-th place on.
Occupies(k, v, c, d, B) ==
  /\ d + B - 1 <= BlockNum /\ B > 0
  /\ \A n \in 1 .. BlockNum :
       /\ (n \in DOMAIN c /\ key[c[n]] = k) <=> (d <= n /\ n <= d + B - 1)
       /\ n \in DOMAIN c /\ key[c[n]] = k => chunk[c[n]] = Part(v, n - d)

\* The blocks of an entry are neighbours on their chain, in the order of the
\* bytes.
LEMMA Positions ==
  ASSUME CacheInv, ShmCacheAssumption, Resting, NEW N, NEW rank, Stored(N, rank),
         NEW m \in DOMAIN N, NEW k, k = N[m].key
  PROVE  \E d \in Nat \ {0} : Occupies(k, N[m].val, Chain(Hash(k)), d, Lru!BlocksOf(N[m].val))
<1>a. PICK v, c : v = N[m].val /\ c = Chain(Hash(k))
  OBVIOUS
<1>0. Typed /\ Chains /\ Counted
  BY DEF CacheInv
<1>1. Linked = Live /\ Live = {i \in Idx : key[i] # 0}
  BY DEF Linked, Live, Doomed, Resting
<1>2. PICK depth : Depths(depth)
  BY <1>0 DEF Chains
<1>3. N[m] \in EntrySet /\ v # <<>>
  BY <1>a DEF Stored, IsStore
<1>b. PICK B \in Nat : B = Lru!BlocksOf(v)
  <2>1. v \in Seq(Nat)
    BY <1>3, <1>a DEF EntrySet
  <2>2. QED
    BY <2>1, BlocksAre
<1>4. k \in Keys /\ v \in Seq(Nat) /\ B > 0
  <2>1. k \in Keys /\ v \in Seq(Nat)
    BY <1>3, <1>a DEF EntrySet
  <2>2. B # 0
    BY <1>3, <1>b, <2>1, BlocksAre
  <2>3. QED
    BY <2>1, <2>2
<1>5. /\ \A r \in Nat : r < B => \E i \in Live : key[i] = k /\ rank[i] = r
      /\ \A i \in Live : key[i] = k => rank[i] < B /\ rank[i] \in Nat /\ chunk[i] = Part(v, rank[i])
  <2>1. \A i \in Live : i \in Idx
    BY <1>1
  <2>2. QED
    BY <1>a, <1>b, <2>1 DEF Stored, Parts
<1>6. PICK first \in Live : key[first] = k /\ rank[first] = 0
  BY <1>4, <1>5
<1>7. /\ \A i \in Live : depth[i] \in Nat /\ depth[i] >= 1
      /\ \A i \in Live : depth[i] <= hlen[Hash(key[i])]
  BY <1>1, <1>2 DEF Depths, Firsts, Within
<1>8. PICK d \in Nat \ {0} : d = depth[first]
  BY <1>7
<1>9. ASSUME NEW j \in Live, key[j] = k PROVE depth[j] = d + rank[j]
  <2>1. PICK x, y \in Nat : x = depth[j] /\ y = rank[j]
    BY <1>5, <1>7, <1>9
  <2>2. d <= x => y = 0 + (x - d)
    BY <1>0, <1>1, <1>2, <1>6, <1>8, <1>9, <2>1, RanksFollow
  <2>3. x <= d => 0 = y + (d - x)
    BY <1>0, <1>1, <1>2, <1>6, <1>8, <1>9, <2>1, RanksFollow
  <2>4. QED
    BY <2>1, <2>2, <2>3
<1>10. d + B - 1 <= BlockNum
  <2>1. B - 1 \in Nat /\ B - 1 < B
    BY <1>4
  <2>2. PICK j \in Live : key[j] = k /\ rank[j] = B - 1
    BY <1>5, <2>1
  <2>3. depth[j] = d + (B - 1)
    BY <1>9, <2>2
  <2>4. PICK b \in 0 .. Buckets - 1 : b = Hash(k)
    BY <1>4, Hashes
  <2>5. hlen[b] <= BlockNum /\ hlen[b] \in Nat
    <3>1. IsFiniteSet(Idx) /\ Cardinality(Idx) = BlockNum
      BY BlocksFinite
    <3>2. Here(b) \in SUBSET Idx
      BY DEF Here
    <3>3. Cardinality(Here(b)) <= BlockNum /\ Cardinality(Here(b)) \in Nat
      BY <3>1, <3>2, FS_Subset, FS_CardinalityType
    <3>4. QED
      BY <1>0, <3>3 DEF Counted
  <2>6. depth[j] <= hlen[b]
    BY <1>7, <2>2, <2>4
  <2>7. BlockNum \in Nat
    BY DEF ShmCacheAssumption
  <2>8. QED
    BY <2>3, <2>5, <2>6, <2>7
<1>11. PICK b \in 0 .. Buckets - 1 : b = Hash(k)
  BY <1>4, Hashes
<1>12. /\ \A n \in DOMAIN c : c[n] \in Live /\ depth[c[n]] = n
       /\ \A i \in Live : key[i] = k => depth[i] \in DOMAIN c /\ c[depth[i]] = i
  <2>1. /\ \A n \in DOMAIN Chain(b) :
             /\ Chain(b)[n] \in Linked /\ Hash(key[Chain(b)[n]]) = b
             /\ depth[Chain(b)[n]] = n
        /\ \A i \in Linked : Hash(key[i]) = b =>
             depth[i] \in DOMAIN Chain(b) /\ Chain(b)[depth[i]] = i
    BY <1>0, <1>2, ChainWalk
  <2>2. QED
    BY <1>1, <1>a, <1>11, <2>1
<1>13. ASSUME NEW n \in 1 .. BlockNum, n \in DOMAIN c, key[c[n]] = k
       PROVE  d <= n /\ n <= d + B - 1 /\ chunk[c[n]] = Part(v, n - d)
  <2>1. PICK j \in Live : j = c[n] /\ key[j] = k /\ depth[j] = n
    BY <1>12, <1>13
  <2>2. n = d + rank[j] /\ rank[j] < B /\ rank[j] \in Nat /\ chunk[j] = Part(v, rank[j])
    BY <1>5, <1>9, <2>1
  <2>3. rank[j] = n - d
    BY <2>2
  <2>4. QED
    BY <2>1, <2>2, <2>3
<1>14. ASSUME NEW n \in 1 .. BlockNum, d <= n, n <= d + B - 1
       PROVE  n \in DOMAIN c /\ key[c[n]] = k
  <2>1. n - d \in Nat /\ n - d < B
    BY <1>14
  <2>2. PICK j \in Live : key[j] = k /\ rank[j] = n - d
    BY <1>5, <2>1
  <2>3. depth[j] = n
    BY <1>9, <2>2
  <2>4. QED
    BY <1>12, <2>2, <2>3
<1>15. Occupies(k, v, c, d, B)
  BY <1>4, <1>10, <1>13, <1>14 DEF Occupies
<1>16. QED
  BY <1>a, <1>b, <1>15

\* So Get collects the value.
LEMMA ValueIs ==
  ASSUME CacheInv, ShmCacheAssumption, Resting, NEW N, NEW rank, Stored(N, rank),
         NEW m \in DOMAIN N, NEW k, k = N[m].key
  PROVE  ValueOf(k) = N[m].val
<1>1. PICK v, c : v = N[m].val /\ c = Chain(Hash(k))
  OBVIOUS
<1>2. v \in Seq(Nat)
  <2>1. N[m] \in EntrySet
    BY DEF Stored, IsStore
  <2>2. QED
    BY <1>1, <2>1 DEF EntrySet
<1>3. PICK B \in Nat : B = Lru!BlocksOf(v)
  BY <1>2, BlocksAre
<1>b. PICK d \in Nat \ {0} : Occupies(k, v, c, d, B)
  BY <1>1, <1>3, Positions
<1>4. /\ d + B - 1 <= BlockNum /\ B > 0
      /\ \A n \in 1 .. BlockNum :
           /\ (n \in DOMAIN c /\ key[c[n]] = k) <=> (d <= n /\ n <= d + B - 1)
           /\ n \in DOMAIN c /\ key[c[n]] = k => chunk[c[n]] = Part(v, n - d)
  BY <1>b DEF Occupies
<1>5. BlockNum \in Nat \ {0}
  BY DEF ShmCacheAssumption
<1> DEFINE Here1(n) == n \in DOMAIN c /\ key[c[n]] = k
           Step1(at) == [n \in 0 .. BlockNum |->
                           IF n = 0 THEN <<>>
                           ELSE IF n \in DOMAIN c /\ key[c[n]] = k THEN at[n-1] \o chunk[c[n]]
                           ELSE at[n-1]]
           walk == CHOOSE at : at = Step1(at)
           f == [n \in 0 .. BlockNum |->
                   First(v, IF n < d THEN 0 ELSE IF n <= d + B - 1 THEN n - d + 1 ELSE B)]
<1>6. ValueOf(k) = walk[BlockNum]
  BY <1>1 DEF ValueOf
<1>7. /\ f = [n \in 0 .. BlockNum |-> f[n]]
      /\ \A n \in 0 .. BlockNum : /\ n < d => f[n] = First(v, 0)
                                  /\ d <= n /\ n <= d + B - 1 => f[n] = First(v, n - d + 1)
                                  /\ n > d + B - 1 => f[n] = First(v, B)
  BY <1>4
<1> HIDE DEF f
<1>8. First(v, 0) = <<>> /\ First(v, B) = v
  BY <1>2, <1>3, PartsJoin
<1>9. \A r \in Nat : r < B => First(v, r + 1) = First(v, r) \o Part(v, r)
  BY <1>2, <1>3, PartsJoin
<1>10. ASSUME NEW n \in 0 .. BlockNum
       PROVE  f[n] = IF n = 0 THEN <<>>
                     ELSE IF n \in DOMAIN c /\ key[c[n]] = k THEN f[n-1] \o chunk[c[n]]
                     ELSE f[n-1]
  <2>1. CASE n = 0
    BY <1>7, <1>8, <2>1
  <2>2. CASE n # 0
    <3>1. n \in 1 .. BlockNum /\ n - 1 \in 0 .. BlockNum
      BY <1>5, <2>2
    <3>2. CASE d <= n /\ n <= d + B - 1
      <4>1. n \in DOMAIN c /\ key[c[n]] = k /\ chunk[c[n]] = Part(v, n - d)
        BY <1>4, <3>1, <3>2
      <4>2. PICK r \in Nat : r = n - d /\ r < B /\ n - d + 1 = r + 1
        BY <3>1, <3>2
      <4>3. f[n] = First(v, r) \o Part(v, r)
        BY <1>7, <1>9, <3>2, <4>2
      <4>4. f[n-1] = First(v, r)
        <5>1. CASE n = d
          <6>1. n - 1 < d /\ r = 0
            BY <4>2, <5>1
          <6>2. QED
            BY <1>7, <3>1, <6>1
        <5>2. CASE n # d
          <6>1. d <= n - 1 /\ n - 1 <= d + B - 1 /\ (n - 1) - d + 1 = r
            BY <3>1, <3>2, <4>2, <5>2
          <6>2. QED
            BY <1>7, <3>1, <6>1
        <5>3. QED
          BY <5>1, <5>2
      <4>5. QED
        BY <2>2, <4>1, <4>2, <4>3, <4>4
    <3>3. CASE ~ (d <= n /\ n <= d + B - 1)
      <4>1. ~ (n \in DOMAIN c /\ key[c[n]] = k)
        BY <1>4, <3>1, <3>3
      <4>2. f[n] = f[n-1]
        <5>1. CASE n < d
          <6>1. n - 1 < d
            BY <5>1
          <6>2. QED
            BY <1>7, <3>1, <5>1, <6>1
        <5>2. CASE n > d + B - 1
          <6>1. f[n] = First(v, B)
            BY <1>7, <5>2
          <6>2. CASE n - 1 > d + B - 1
            BY <1>7, <3>1, <6>1, <6>2
          <6>3. CASE ~ (n - 1 > d + B - 1)
            <7>1. d <= n - 1 /\ n - 1 <= d + B - 1 /\ (n - 1) - d + 1 = B
              BY <1>4, <3>1, <5>2, <6>3
            <7>2. QED
              BY <1>7, <3>1, <6>1, <7>1
          <6>4. QED
            BY <6>2, <6>3
        <5>3. QED
          BY <1>4, <3>1, <3>3, <5>1, <5>2
      <4>3. QED
        BY <2>2, <4>1, <4>2
    <3>4. QED
      BY <3>2, <3>3
  <2>3. QED
    BY <2>1, <2>2
<1>11. walk = Step1(walk)
  <2> DEFINE P(at) == at = Step1(at)
  <2>1. P(f)
    BY <1>7, <1>10, Zenon
  <2>2. P(CHOOSE at : P(at))
    BY <2>1, Zenon
  <2>3. QED
    BY <2>2
<1>12. ASSUME NEW n \in 0 .. BlockNum
       PROVE  walk[n] = IF n = 0 THEN <<>>
                        ELSE IF n \in DOMAIN c /\ key[c[n]] = k THEN walk[n-1] \o chunk[c[n]]
                        ELSE walk[n-1]
  BY <1>11
<1> HIDE DEF walk, Step1
<1>13. walk[BlockNum] = f[BlockNum]
  <2> DEFINE T == {n \in Nat : n <= BlockNum => walk[n] = f[n]}
  <2>1. 0 \in T
    BY <1>5, <1>10, <1>12
  <2>2. ASSUME NEW n \in T PROVE n + 1 \in T
    <3>1. CASE n + 1 <= BlockNum
      <4>1. n + 1 \in 0 .. BlockNum /\ n + 1 # 0 /\ n + 1 - 1 = n /\ n <= BlockNum
        BY <1>5, <3>1
      <4>2. walk[n] = f[n]
        BY <4>1
      <4>3. walk[n + 1] = f[n + 1]
        BY <1>10, <1>12, <4>1, <4>2
      <4>4. QED
        BY <4>3
    <3>2. QED
      BY <3>1
  <2>3. T \in SUBSET Nat
    OBVIOUS
  <2> HIDE DEF T
  <2>4. T = Nat
    BY <2>1, <2>2, <2>3, FromZero
  <2>5. BlockNum \in T
    BY <1>5, <2>4
  <2>6. QED
    BY <1>5, <2>5 DEF T
<1>14. f[BlockNum] = v
  <2>1. BlockNum \in 0 .. BlockNum
    BY <1>5
  <2>2. CASE BlockNum <= d + B - 1
    <3>1. d <= BlockNum /\ BlockNum - d + 1 = B
      BY <1>4, <1>5, <2>2
    <3>2. QED
      BY <1>7, <1>8, <2>1, <2>2, <3>1
  <2>3. CASE BlockNum > d + B - 1
    BY <1>7, <1>8, <2>1, <2>3
  <2>4. QED
    BY <1>5, <2>2, <2>3
<1>15. QED
  BY <1>1, <1>6, <1>13, <1>14

\* The turn of a key is the place of one of its blocks.
LEMMA TurnIs ==
  ASSUME CacheInv, ShmCacheAssumption, Resting, NEW N, NEW rank, Stored(N, rank),
         NEW pos, Numbers(pos), NEW m \in DOMAIN N
  PROVE  /\ Turn(N[m].key) \in 1 .. BlockNum
         /\ LruOrder[Turn(N[m].key)] \in Live
         /\ key[LruOrder[Turn(N[m].key)]] = N[m].key
         /\ pos[LruOrder[Turn(N[m].key)]] = Turn(N[m].key) - 1
<1>1. PICK k : k = N[m].key
  OBVIOUS
<1>2. \A n \in 1 .. BlockNum : LruOrder[n] \in Idx /\ pos[LruOrder[n]] = n - 1
  <2>1. ListTyped
    BY DEF CacheInv, Typed, ListTyped
  <2>2. QED
    BY <2>1, RingWalk
<1>3. PICK turns : turns = {n \in 1 .. BlockNum : key[LruOrder[n]] = k}
  OBVIOUS
<1>4. Turn(k) = CHOOSE n \in turns : \A l \in turns : n <= l
  BY <1>3 DEF Turn
<1>5. BlockNum \in Nat
  BY DEF ShmCacheAssumption
<1>6. turns # {}
  <2>1. PICK i \in Live : key[i] = k
    BY <1>1, HasBlock
  <2>2. i \in Idx /\ pos[i] \in 0 .. BlockNum - 1
    BY DEF Live, Numbers
  <2>3. PICK n \in 1 .. BlockNum : n = pos[i] + 1
    BY <1>5, <2>2
  <2>4. LruOrder[n] \in Idx /\ pos[LruOrder[n]] = pos[i]
    BY <1>2, <2>2, <2>3
  <2>5. LruOrder[n] = i
    BY <2>2, <2>4 DEF Numbers
  <2>6. QED
    BY <1>3, <2>1, <2>5
<1>7. PICK t \in turns : t = Turn(k)
  <2>1. turns \in SUBSET Nat
    BY <1>3
  <2>2. \E n \in turns : \A l \in turns : n <= l
    BY <1>6, <2>1, LeastNat
  <2>3. QED
    BY <1>4, <2>2
<1>8. t \in 1 .. BlockNum /\ key[LruOrder[t]] = k
  BY <1>3
<1>9. LruOrder[t] \in Live
  <2>1. N[m].key # Doomed /\ N[m] \in EntrySet
    BY DEF Stored, Parts, IsStore
  <2>2. k # 0
    BY <1>1, <2>1 DEF EntrySet, ShmCacheAssumption
  <2>3. QED
    BY <1>1, <1>2, <1>8, <2>1, <2>2 DEF Live
<1>10. QED
  BY <1>1, <1>2, <1>7, <1>8, <1>9

LEMMA TurnsFollow ==
  ASSUME CacheInv, ShmCacheAssumption, Resting, NEW N, NEW rank, Stored(N, rank),
         NEW pos, Numbers(pos), NEW g, InTurn(N, pos, rank, g)
  PROVE  \A m, n \in DOMAIN N : m <= n <=> Turn(N[m].key) <= Turn(N[n].key)
<1>1. ASSUME NEW m \in DOMAIN N, NEW n \in DOMAIN N, m < n
      PROVE  Turn(N[m].key) < Turn(N[n].key)
  <2>1. PICK i \in Live : /\ key[i] = N[m].key /\ pos[i] = Turn(N[m].key) - 1
                          /\ Turn(N[m].key) \in 1 .. BlockNum
    BY TurnIs
  <2>2. PICK j \in Live : /\ key[j] = N[n].key /\ pos[j] = Turn(N[n].key) - 1
                          /\ Turn(N[n].key) \in 1 .. BlockNum
    BY TurnIs
  <2>3. pos[i] < pos[j] \/ Unplaced(j, rank, g)
    BY <1>1, <2>1, <2>2 DEF InTurn
  <2>4. pos[i] < pos[j]
    BY <2>3 DEF Unplaced, Resting
  <2>5. QED
    BY <2>1, <2>2, <2>4
<1>2. \A m \in DOMAIN N : Turn(N[m].key) \in Int
  BY TurnIs
<1>3. \A m, n \in DOMAIN N : m \in Int /\ n \in Int
  BY DEF Stored, IsStore
<1>4. ASSUME NEW m \in DOMAIN N, NEW n \in DOMAIN N
      PROVE  m <= n <=> Turn(N[m].key) <= Turn(N[n].key)
  <2>1. m \in Int /\ n \in Int /\ Turn(N[m].key) \in Int /\ Turn(N[n].key) \in Int
    BY <1>2, <1>3
  <2>2. /\ m < n => Turn(N[m].key) < Turn(N[n].key)
        /\ n < m => Turn(N[n].key) < Turn(N[m].key)
        /\ m = n => Turn(N[n].key) = Turn(N[m].key)
    BY <1>1
  <2>3. QED
    BY <2>1, <2>2
<1>5. QED
  BY <1>4

\* The keys of the first m entries are m keys.
LEMMA KeysCounted ==
  ASSUME NEW N, IsStore(N), NEW m \in 0 .. Len(N)
  PROVE  Cardinality({N[a].key : a \in 1 .. m}) = m
<1>1. Len(N) \in Nat /\ DOMAIN N = 1 .. Len(N)
  BY DEF IsStore
<1>2. PICK S : S = {N[a].key : a \in 1 .. m}
  OBVIOUS
<1>3. PICK h : h = [l \in S |-> (CHOOSE a \in 1 .. m : N[a].key = l) - 1]
  OBVIOUS
<1>4. ASSUME NEW a \in 1 .. m PROVE N[a].key \in S /\ h[N[a].key] = a - 1
  <2>1. N[a].key \in S
    BY <1>2
  <2>2. a \in DOMAIN N /\ \A b \in 1 .. m : b \in DOMAIN N
    BY <1>1
  <2>3. \A b \in 1 .. m : N[b].key = N[a].key => b = a
    BY <2>2 DEF IsStore
  <2>4. (CHOOSE b \in 1 .. m : N[b].key = N[a].key) = a
    BY <2>3
  <2>5. QED
    BY <1>3, <2>1, <2>4
<1>5. m \in Nat
  BY <1>1
<1>6. \A x \in S : h[x] \in 0 .. m - 1
  <2>1. ASSUME NEW x \in S PROVE h[x] \in 0 .. m - 1
    <3>1. PICK a \in 1 .. m : x = N[a].key
      BY <1>2
    <3>2. h[x] = a - 1
      BY <1>4, <3>1
    <3>3. QED
      BY <1>5, <3>2
  <2>2. QED
    BY <2>1
<1>7. \A x, y \in S : h[x] = h[y] => x = y
  <2>1. ASSUME NEW x \in S, NEW y \in S, h[x] = h[y] PROVE x = y
    <3>1. PICK a \in 1 .. m : x = N[a].key
      BY <1>2
    <3>2. PICK b \in 1 .. m : y = N[b].key
      BY <1>2
    <3>3. h[x] = a - 1 /\ h[y] = b - 1
      BY <1>4, <3>1, <3>2
    <3>4. a = b
      <4>1. a - 1 = b - 1
        BY ONLY <2>1, <3>3
      <4>2. a \in Int /\ b \in Int
        OBVIOUS
      <4>3. QED
        BY ONLY <4>1, <4>2
    <3>5. QED
      BY <3>1, <3>2, <3>4
  <2>2. QED
    BY <2>1
<1>8. \A i \in 0 .. m - 1 : \E x \in S : h[x] = i
  <2>1. ASSUME NEW i \in 0 .. m - 1 PROVE \E x \in S : h[x] = i
    <3>1. i + 1 \in 1 .. m /\ (i + 1) - 1 = i
      BY <1>5
    <3>2. QED
      BY <1>4, <3>1
  <2>2. QED
    BY <2>1
<1>9. QED
  <2>1. IsFiniteSet(S) /\ Cardinality(S) = m
    BY <1>5, <1>6, <1>7, <1>8, CountedBy
  <2>2. QED
    BY <1>2, <2>1

LEMMA KeysUsed ==
  ASSUME CacheInv, ShmCacheAssumption, Resting, NEW N, NEW rank, Stored(N, rank),
         NEW pos, Numbers(pos), NEW g, InTurn(N, pos, rank, g)
  PROVE  /\ UsedKeys = {N[a].key : a \in DOMAIN N} /\ Cardinality(UsedKeys) = Len(N)
         /\ \A m \in DOMAIN N : KeyAt(m) = N[m].key
<1>1. IsStore(N) /\ Len(N) \in Nat /\ DOMAIN N = 1 .. Len(N)
  BY DEF Stored, IsStore
<1>2. Live = {i \in Idx : key[i] # 0}
  BY DEF Live, Doomed, Resting
<1>3. UsedKeys = {N[a].key : a \in DOMAIN N}
  <2>1. ASSUME NEW l \in UsedKeys PROVE l \in {N[a].key : a \in DOMAIN N}
    <3>1. PICK i \in Live : key[i] = l
      BY <1>2 DEF UsedKeys
    <3>2. QED
      BY <3>1 DEF Stored, Parts
  <2>2. ASSUME NEW a \in DOMAIN N PROVE N[a].key \in UsedKeys
    <3>1. PICK i \in Live : key[i] = N[a].key
      BY HasBlock
    <3>2. QED
      BY <1>2, <3>1 DEF UsedKeys
  <2>3. QED
    BY <2>1, <2>2
<1>4. Cardinality(UsedKeys) = Len(N)
  <2>1. Len(N) \in 0 .. Len(N)
    BY <1>1
  <2>2. QED
    BY <1>1, <1>3, <2>1, KeysCounted
<1>5. ASSUME NEW m \in DOMAIN N
      PROVE  Cardinality({l \in UsedKeys : Turn(l) <= Turn(N[m].key)}) = m
  <2>1. \A a \in DOMAIN N : a <= m <=> Turn(N[a].key) <= Turn(N[m].key)
    BY TurnsFollow
  <2>2. {l \in UsedKeys : Turn(l) <= Turn(N[m].key)} = {N[a].key : a \in 1 .. m}
    <3>1. 1 .. m = {a \in DOMAIN N : a <= m}
      BY <1>1
    <3>2. QED
      BY <1>3, <2>1, <3>1
  <2>3. m \in 0 .. Len(N)
    BY <1>1
  <2>4. QED
    BY <1>1, <2>2, <2>3, KeysCounted
<1>6. ASSUME NEW m \in DOMAIN N PROVE KeyAt(m) = N[m].key
  <2>1. N[m].key \in UsedKeys
    BY <1>3
  <2>2. \A k \in UsedKeys : Cardinality({l \in UsedKeys : Turn(l) <= Turn(k)}) = m => k = N[m].key
    <3>1. ASSUME NEW k \in UsedKeys, Cardinality({l \in UsedKeys : Turn(l) <= Turn(k)}) = m
          PROVE  k = N[m].key
      <4>1. PICK a \in DOMAIN N : k = N[a].key
        BY <1>3
      <4>2. a = m
        BY <1>5, <3>1, <4>1
      <4>3. QED
        BY <4>1, <4>2
    <3>2. QED
      BY <3>1
  <2>3. QED
    BY <1>5, <2>1, <2>2 DEF KeyAt
<1>7. QED
  BY <1>3, <1>4, <1>6

\* What is read off the lists is what is stored.
LEMMA EntriesAre ==
  ASSUME CacheInv, ShmCacheAssumption, Resting, NEW N, NEW rank, Stored(N, rank),
         NEW pos, Numbers(pos), NEW g, InTurn(N, pos, rank, g)
  PROVE  Entries = N
<1>1. IsStore(N) /\ N \in Seq(EntrySet) /\ Len(N) \in Nat /\ DOMAIN N = 1 .. Len(N)
  BY DEF Stored, IsStore
<1>2. Cardinality(UsedKeys) = Len(N) /\ \A m \in DOMAIN N : KeyAt(m) = N[m].key
  BY KeysUsed
<1>3. ASSUME NEW m \in DOMAIN N PROVE Entry(N[m].key) = N[m]
  <2>1. ValueOf(N[m].key) = N[m].val
    BY ValueIs
  <2>2. up[LruOrder[Turn(N[m].key)]] = N[m].up
    <3>1. PICK i \in Live : i = LruOrder[Turn(N[m].key)] /\ key[i] = N[m].key
      BY TurnIs
    <3>2. QED
      BY <3>1 DEF Stored, Parts
  <2>3. N[m] \in EntrySet
    BY <1>1
  <2>4. N[m] = [key |-> N[m].key, val |-> N[m].val, up |-> N[m].up]
    BY <2>3 DEF EntrySet
  <2>5. QED
    BY <2>1, <2>2, <2>4 DEF Entry
<1>4. N = [m \in 1 .. Len(N) |-> N[m]]
  BY <1>1
<1>5. Entries = [m \in 1 .. Len(N) |-> Entry(KeyAt(m))]
  BY <1>2 DEF Entries
<1>6. \A m \in 1 .. Len(N) : Entry(KeyAt(m)) = N[m]
  BY <1>1, <1>2, <1>3
<1>7. QED
  BY <1>4, <1>5, <1>6

-----------------------------------------------------------------------------
(* The invariant, and that the lists implement the store *)

LEMMA UnlockHolds ==
  ASSUME CacheInv, ShmCacheAssumption, Holding, Unlock, entries' = Entries
  PROVE  /\ IsStore(entries') /\ Holding' /\ Passed'
         /\ \E N : Done(N) /\ entries' = N
<1>1. /\ op.pc = "unlock" /\ op'.pc = "idle" /\ now' = now /\ UNCHANGED heap
  BY DEF Unlock, Idle
<1>2. PICK N, rank, pos, g :
        Numbers(pos) /\ Stored(N, rank) /\ InTurn(N, pos, rank, g) /\ Doing(N, rank, g)
  BY DEF Holding
<1>3. Entries = N /\ IsStore(N)
  BY <1>1, <1>2, EntriesAre DEF Resting, Stored
<1>4. Reading /\ key' = key
  BY <1>1 DEF Reading, heap
<1>5. Live' = Live /\ Doomed' = Doomed
  BY <1>1, <1>4 DEF Live, Doomed
<1>6. \A j \in Live : Unplaced(j, rank, g) => Unplaced(j, rank, g)'
  BY <1>1 DEF Unplaced
<1>7. Numbers(pos)' /\ Stored(N, rank)' /\ InTurn(N, pos, rank, g)'
  BY <1>2, <1>4, <1>5, <1>6, ReaderKeeps
<1>8. Doing(N, rank, g)'
  BY <1>1, <1>3 DEF Doing, Phase
<1>9. Done(N)
  BY <1>1, <1>2 DEF Doing, Phase
<1>10. QED
  BY <1>1, <1>3, <1>7, <1>8, <1>9 DEF Holding, Passed

LEMMA TickHolds ==
  ASSUME CacheInv, ShmCacheAssumption, Holding, Tick, entries' = entries
  PROVE  Holding' /\ Passed'
<1>1. op.pc = "idle" /\ op' = op /\ UNCHANGED heap
  BY DEF Tick
<1>2. PICK N, rank, pos, g :
        Numbers(pos) /\ Stored(N, rank) /\ InTurn(N, pos, rank, g) /\ Doing(N, rank, g)
  BY DEF Holding
<1>3. Reading /\ key' = key
  BY <1>1 DEF Reading, heap
<1>4. Live' = Live /\ Doomed' = Doomed
  BY <1>1, <1>3 DEF Live, Doomed
<1>5. \A j \in Live : Unplaced(j, rank, g) => Unplaced(j, rank, g)'
  BY <1>1 DEF Unplaced
<1>6. Numbers(pos)' /\ Stored(N, rank)' /\ InTurn(N, pos, rank, g)'
  BY <1>2, <1>3, <1>4, <1>5, ReaderKeeps
<1>7. Doing(N, rank, g)'
  BY <1>1, <1>2 DEF Doing, Phase
<1>8. QED
  BY <1>1, <1>6, <1>7 DEF Holding, Passed

LEMMA StutterHolds ==
  ASSUME CacheInv, ShmCacheAssumption, Holding, Passed, UNCHANGED hvars
  PROVE  Holding' /\ Passed'
<1>1. op' = op /\ now' = now /\ entries' = entries /\ UNCHANGED heap
  BY DEF hvars, vars
<1>2. Reading /\ key' = key /\ next' = next
  BY <1>1 DEF Reading, heap
<1>3. Live' = Live /\ Doomed' = Doomed /\ Phase' = Phase
  BY <1>1, <1>2 DEF Live, Doomed, Phase
<1>4. Passed'
  BY <1>1, <1>2 DEF Passed
<1>5. CASE Phase # "get"
  <2>1. Holding'
    BY <1>1, <1>2, <1>3, <1>5, WalkHolds
  <2>2. QED
    BY <1>4, <2>1
<1>6. CASE Phase = "get"
  <2>1. PICK N, rank, pos, g :
          Numbers(pos) /\ Stored(N, rank) /\ InTurn(N, pos, rank, g) /\ Doing(N, rank, g)
    BY DEF Holding
  <2>2. \A j \in Live : Unplaced(j, rank, g) => Unplaced(j, rank, g)'
    BY <1>1, <1>2 DEF Unplaced
  <2>3. Numbers(pos)' /\ Stored(N, rank)' /\ InTurn(N, pos, rank, g)'
    BY <1>2, <1>3, <2>1, <2>2, ReaderKeeps
  <2>4. Getting(N, rank, g)
    BY <1>6, <2>1 DEF Doing
  <2>5. PICK k \in Keys : k = op.key
    BY <2>4 DEF Getting
  <2>6. /\ (Lru!Moved(op.key))' = Lru!Moved(k) /\ (Lru!Places(op.key))' = Lru!Places(k)
        /\ (Lru!Place(op.key))' = Lru!Place(k)
    BY <1>1, <2>5, EntriesSame
  <2>7. Linked' = Linked /\ \A depth : Depths(depth) => Depths(depth)'
    <3>1. Linked' = Linked
      BY <1>1, <1>2 DEF Linked
    <3>2. QED
      BY <1>2, <3>1, DepthsSame
  <2>8. /\ g = 0 => /\ op.ret = "KEY_NO_EXIST" /\ op.out = <<>>
                    /\ \E depth : /\ Depths(depth)'
                                  /\ \A j \in Linked : key[j] = k =>
                                       op.cur # Nil /\ depth[op.cur] <= depth[j]
    BY <2>4, <2>5, <2>7 DEF Getting
  <2>9. PICK e : e = entries[Lru!Place(k)]
    OBVIOUS
  <2>10. /\ g > 0 => /\ op.ret = "OK" /\ Lru!Places(k) # {}
                     /\ ~ Lru!Stale(e) /\ g <= Lru!BlocksOf(e.val) /\ op.out = First(e.val, g)
                     /\ \E p \in Linked : key[p] = k /\ rank[p] = g - 1 /\ next[p] = op.cur
    BY <2>4, <2>5, <2>9 DEF Getting
  <2>11. /\ N = Lru!Moved(k) /\ g \in Nat
         /\ op.cur # Nil => op.cur \in Linked /\ Hash(key[op.cur]) = Hash(k)
    BY <2>4, <2>5 DEF Getting
  <2>12. ~ Lru!Stale(e) => ~ (Lru!Stale(entries[Lru!Place(op.key)]))'
    BY <1>1, <2>6, <2>9 DEF Lru!Stale
  <2>13. entries'[(Lru!Place(op.key))'] = e
    BY <1>1, <2>6, <2>9
  <2>14. Getting(N, rank, g)'
    BY <1>1, <1>2, <2>5, <2>6, <2>7, <2>8, <2>10, <2>11, <2>12, <2>13 DEF Getting
  <2>15. Doing(N, rank, g)'
    BY <1>3, <1>6, <2>14 DEF Doing
  <2>16. QED
    BY <1>4, <2>3, <2>15 DEF Holding
<1>7. QED
  BY <1>5, <1>6

LEMMA LruInitHolds ==
  ASSUME InitH, ShmCacheAssumption
  PROVE  LruInv /\ entries = <<>>
<1>1. CacheInv
  BY InitHolds DEF InitH
<1>2. /\ \A i \in Idx : key[i] = 0
      /\ op.pc = "idle" /\ Live = {}
  BY DEF InitH, Init, Idle, Live
<1>3. entries = <<>>
  <2>1. UsedKeys = {}
    BY <1>2 DEF UsedKeys
  <2>2. Cardinality(UsedKeys) = 0
    BY <2>1, FS_EmptySet
  <2>3. Entries = [n \in 1 .. 0 |-> Entry(KeyAt(n))]
    BY <2>2 DEF Entries
  <2>4. QED
    BY <2>3 DEF InitH
<1>4. IsStore(entries) /\ DOMAIN entries = {}
  BY <1>3 DEF IsStore
<1>5. PICK rank : rank = [i \in Idx |-> 0]
  OBVIOUS
<1>6. Stored(entries, rank)
  <2>1. rank \in [Idx -> Nat]
    BY <1>5
  <2>2. Parts(entries, rank)
    BY <1>2, <1>4, <2>1 DEF Parts
  <2>3. InRow(rank)
    BY <1>2 DEF InRow
  <2>4. QED
    BY <1>4, <2>2, <2>3 DEF Stored
<1>7. PICK pos : Numbers(pos)
  BY <1>1 DEF CacheInv, Ring
<1>8. InTurn(entries, pos, rank, 0)
  BY <1>4 DEF InTurn
<1>9. Doing(entries, rank, 0)
  BY <1>2 DEF Doing, Phase
<1>10. Holding /\ Passed
  BY <1>2, <1>6, <1>7, <1>8, <1>9 DEF Holding, Passed
<1>11. QED
  BY <1>1, <1>3, <1>4, <1>10 DEF LruInv

\* The steps other than Unlock leave the entries alone.
LEMMA EntriesStay ==
  ASSUME NextH, ~ Unlock
  PROVE  entries' = entries
<1>1. ASSUME op.pc = "unlock" PROVE FALSE
  <2>1. Next
    BY DEF NextH
  <2>2. ~ DeleteBlock /\ ~ DeleteSkip /\ ~ DeleteEnd
    BY <1>1 DEF DeleteBlock, DeleteSkip, DeleteEnd
  <2>3. ~ SetEvict /\ ~ SetFill /\ ~ InsertSkip /\ ~ InsertLink /\ ~ SetEnd
    BY <1>1 DEF SetEvict, SetFill, InsertSkip, InsertLink, SetEnd
  <2>4. ~ GetHit /\ ~ GetStale /\ ~ GetSkip /\ ~ GetEnd
    BY <1>1 DEF GetHit, GetStale, GetSkip, GetEnd
  <2>5. ~ CheckStale /\ ~ CheckFresh /\ ~ CheckBucket /\ ~ CheckCall /\ ~ Tick
    BY <1>1 DEF CheckStale, CheckFresh, CheckBucket, CheckCall, Tick
  <2>6. \A k \in Keys : ~ GetCall(k) /\ ~ DelCall(k) /\ \A v \in Values : ~ SetCall(k, v)
    BY <1>1 DEF GetCall, DelCall, SetCall
  <2>7. QED
    BY <2>1, <2>2, <2>3, <2>4, <2>5, <2>6 DEF Next, Step
<1>2. QED
  BY <1>1 DEF NextH

LEMMA HoldingKept ==
  ASSUME LruInv, [NextH]_hvars, ~ Unlock, ShmCacheAssumption
  PROVE  entries' = entries /\ Holding' /\ Passed'
<1>1. CacheInv /\ IsStore(entries) /\ Passed /\ Holding
  BY DEF LruInv
<1>2. CASE UNCHANGED hvars
  BY <1>1, <1>2, StutterHolds DEF hvars
<1>3. CASE NextH
  <2>1. entries' = entries
    BY <1>3, EntriesStay
  <2>2. /\ DeleteBlock => Holding' /\ Passed'
        /\ DeleteSkip  => Holding' /\ Passed'
        /\ DeleteEnd   => Holding' /\ Passed'
    BY <1>1, <2>1, DeleteBlockHolds, DeleteSkipHolds, DeleteEndHolds
  <2>3. /\ SetEvict    => Holding' /\ Passed'
        /\ SetFill     => Holding' /\ Passed'
        /\ InsertSkip  => Holding' /\ Passed'
        /\ InsertLink  => Holding' /\ Passed'
        /\ SetEnd      => Holding' /\ Passed'
    BY <1>1, <2>1, SetEvictHolds, SetFillHolds, InsertSkipHolds, InsertLinkHolds, SetEndHolds
  <2>4. /\ GetHit      => Holding' /\ Passed'
        /\ GetStale    => Holding' /\ Passed'
        /\ GetSkip     => Holding' /\ Passed'
        /\ GetEnd      => Holding' /\ Passed'
    BY <1>1, <2>1, GetHitHolds, GetStaleHolds, GetSkipHolds, GetEndHolds
  <2>5. /\ CheckStale  => Holding' /\ Passed'
        /\ CheckFresh  => Holding' /\ Passed'
        /\ CheckBucket => Holding' /\ Passed'
    BY <1>1, <2>1, CheckStaleHolds, CheckFreshHolds, CheckBucketHolds
  <2>6. /\ CheckCall   => Holding' /\ Passed'
        /\ Tick        => Holding' /\ Passed'
        /\ \A k \in Keys : /\ GetCall(k) => Holding' /\ Passed'
                           /\ DelCall(k) => Holding' /\ Passed'
                           /\ \A v \in Values : SetCall(k, v) => Holding' /\ Passed'
    BY <1>1, <2>1, CheckCallHolds, TickHolds, GetCallHolds, DelCallHolds, SetCallHolds
  <2>7. Next
    BY <1>3 DEF NextH
  <2>8. QED
    BY <2>1, <2>2, <2>3, <2>4, <2>5, <2>6, <2>7 DEF Next, Step
<1>4. QED
  BY <1>2, <1>3

LEMMA LruStepHolds ==
  ASSUME LruInv, [NextH]_hvars, ShmCacheAssumption
  PROVE  LruInv'
<1>1. CacheInv'
  <2>1. [Next]_vars
    BY DEF NextH, hvars
  <2>2. QED
    BY <2>1, StepHolds DEF LruInv
<1>2. CASE ~ Unlock
  <2>1. entries' = entries /\ Holding' /\ Passed'
    BY <1>2, HoldingKept
  <2>2. IsStore(entries')
    BY <2>1 DEF LruInv
  <2>3. QED
    BY <1>1, <2>1, <2>2 DEF LruInv
<1>3. CASE Unlock
  <2>1. op.pc = "unlock" /\ op'.pc = "idle"
    BY <1>3 DEF Unlock, Idle
  <2>2. NextH
    BY <2>1 DEF hvars, vars
  <2>3. entries' = Entries
    BY <2>1, <2>2 DEF NextH
  <2>4. IsStore(entries') /\ Holding' /\ Passed'
    BY <1>3, <2>3, UnlockHolds DEF LruInv
  <2>5. QED
    BY <1>1, <2>4 DEF LruInv
<1>4. QED
  BY <1>2, <1>3

\* Every step of the cache is a step of the store, or none.
LEMMA StepImplements ==
  ASSUME LruInv, [NextH]_hvars, ShmCacheAssumption
  PROVE  [Lru!Next]_Lru!vars
<1>1. CASE UNCHANGED hvars
  BY <1>1 DEF hvars, vars, Lru!vars
<1>2. CASE NextH /\ Unlock
  <2>1. /\ op.pc = "unlock" /\ now' = now
        /\ result' = [ret |-> op.ret, out |-> op.out]
    BY <1>2 DEF Unlock
  <2>2. entries' = Entries
    BY <1>2, <2>1 DEF NextH
  <2>3. PICK N : Done(N) /\ entries' = N
    BY <1>2, <2>2, UnlockHolds DEF LruInv
  <2>4. Lru!Next
    BY <2>1, <2>3 DEF Done, Lru!Next, Lru!Set, Lru!Get, Lru!Del, Lru!Check
  <2>5. QED
    BY <2>4
<1>3. CASE NextH /\ ~ Unlock /\ ~ Tick
  <2>1. entries' = entries
    BY <1>3, EntriesStay
  <2>2. now' = now /\ result' = result
    BY <1>3 DEF NextH, Next, Step, DeleteBlock, DeleteSkip, DeleteEnd, SetEvict, SetFill,
       InsertSkip, InsertLink, SetEnd, GetHit, GetStale, GetSkip, GetEnd, CheckStale,
       CheckFresh, CheckBucket, CheckCall, GetCall, DelCall, SetCall
  <2>3. QED
    BY <2>1, <2>2 DEF Lru!vars
<1>4. CASE NextH /\ Tick
  <2>1. op.pc = "idle" /\ now < MaxTime /\ now' = now + 1 /\ result' = result
    BY <1>4 DEF Tick
  <2>2. entries' = entries
    BY <1>4, <2>1 DEF NextH
  <2>3. Lru!Tick
    BY <2>1, <2>2 DEF Lru!Tick
  <2>4. QED
    BY <2>3 DEF Lru!Next
<1>5. QED
  BY <1>1, <1>2, <1>3, <1>4

\* shmcache.cpp:119-297: the two lists and the loops over them keep what
\* LruCache says: Get returns the bytes of the last Set, or a miss, and a value
\* disappears only when it is replaced, deleted, too old, or the least recently
\* used one when room is needed.
THEOREM ListsImplementLru == SpecH => ImplementsLru
<1>1. InitH => LruInv /\ Lru!Init
  <2>1. SUFFICES ASSUME InitH PROVE LruInv /\ Lru!Init
    OBVIOUS
  <2>2. LruInv /\ entries = <<>>
    BY <2>1, ShmCacheAssumption, LruInitHolds
  <2>3. QED
    BY <2>1, <2>2 DEF InitH, Init, Lru!Init
<1>2. LruInv /\ [NextH]_hvars => LruInv'
  BY ShmCacheAssumption, LruStepHolds
<1>3. LruInv /\ [NextH]_hvars => [Lru!Next]_Lru!vars
  BY ShmCacheAssumption, StepImplements
<1>4. QED
  BY <1>1, <1>2, <1>3, PTL DEF SpecH, ImplementsLru, Lru!Spec

-----------------------------------------------------------------------------
(* What GetStat counts *)

\* The blocks of a bucket are those of its chain, and there is an end to it.
LEMMA ChainIs ==
  ASSUME CacheInv, ShmCacheAssumption, Resting, NEW depth, Depths(depth),
         NEW b \in 0 .. Buckets - 1
  PROVE  /\ \A n \in DOMAIN Chain(b) : Chain(b)[n] \in Here(b) /\ depth[Chain(b)[n]] = n
         /\ \A i \in Here(b) : depth[i] \in DOMAIN Chain(b) /\ Chain(b)[depth[i]] = i
         /\ IsFiniteSet(DOMAIN Chain(b)) /\ IsFiniteSet(Here(b))
         /\ Here(b) \subseteq Live
<1>0. Typed /\ Counted
  BY DEF CacheInv
<1>1. Linked = Live /\ Live = {i \in Idx : key[i] # 0}
  BY DEF Linked, Live, Doomed, Resting
<1>2. /\ \A n \in DOMAIN Chain(b) : /\ Chain(b)[n] \in Linked /\ Hash(key[Chain(b)[n]]) = b
                                    /\ depth[Chain(b)[n]] = n
      /\ \A i \in Linked : Hash(key[i]) = b =>
           depth[i] \in DOMAIN Chain(b) /\ Chain(b)[depth[i]] = i
  BY <1>0, ChainWalk
<1>3. Here(b) = {i \in Live : Hash(key[i]) = b}
  BY <1>1 DEF Here
<1>4. IsFiniteSet(Here(b))
  <2>1. Here(b) \in SUBSET Idx
    BY DEF Here
  <2>2. QED
    BY <2>1, BlocksFinite, FS_Subset
<1>5. IsFiniteSet(DOMAIN Chain(b))
  <2>1. BlockNum + 1 \in Nat
    BY DEF ShmCacheAssumption
  <2>2. IsFiniteSet(1 .. BlockNum + 1)
    BY <2>1, FS_Interval
  <2>3. DOMAIN Chain(b) \in SUBSET (1 .. BlockNum + 1)
    BY DEF Chain
  <2>4. QED
    BY <2>2, <2>3, FS_Subset
<1>6. QED
  BY <1>1, <1>2, <1>3, <1>4, <1>5

\* A sum along one chain, and along all of them.
LEMMA SumOfChain ==
  ASSUME CacheInv, ShmCacheAssumption, Resting, NEW b \in 0 .. Buckets - 1,
         NEW f, \A i \in Live : f[i] \in Int,
         NEW g, \A n \in DOMAIN Chain(b) : g[n] = f[Chain(b)[n]]
  PROVE  SumFunctionOnSet(g, DOMAIN Chain(b)) = SumFunctionOnSet(f, Here(b))
<1>1. PICK depth : Depths(depth)
  BY DEF CacheInv, Chains
<1>2. PICK S, C : S = Here(b) /\ C = DOMAIN Chain(b)
  OBVIOUS
<1>3. /\ \A n \in C : Chain(b)[n] \in S /\ depth[Chain(b)[n]] = n
      /\ \A i \in S : depth[i] \in C /\ Chain(b)[depth[i]] = i
      /\ IsFiniteSet(C) /\ IsFiniteSet(S) /\ \A i \in S : i \in Live
  BY <1>1, <1>2, ChainIs
<1>4. /\ \A x \in S : depth[x] \in C
      /\ \A x, y \in S : depth[x] = depth[y] => x = y
      /\ \A c \in C : \E x \in S : depth[x] = c
      /\ \A x \in S : f[x] \in Int
      /\ \A x \in S : g[depth[x]] = f[x]
  BY <1>2, <1>3
<1>5. SumFunctionOnSet(g, C) = SumFunctionOnSet(f, S)
  BY ONLY <1>3, <1>4, SumRenamed
<1>6. QED
  BY <1>2, <1>5

LEMMA SumOfChains ==
  ASSUME CacheInv, ShmCacheAssumption, Resting,
         NEW f, \A i \in Live : f[i] \in Int,
         NEW g, \A b \in 0 .. Buckets - 1 : g[b] = SumFunctionOnSet(f, Here(b))
  PROVE  SumFunctionOnSet(g, 0 .. Buckets - 1) = SumFunctionOnSet(f, Live)
<1>1. Live = {i \in Idx : key[i] # 0} /\ IsFiniteSet(Live)
  <2>1. Live = {i \in Idx : key[i] # 0}
    BY DEF Live, Doomed, Resting
  <2>2. Live \in SUBSET Idx
    BY <2>1
  <2>3. QED
    BY <2>1, <2>2, BlocksFinite, FS_Subset
<1>2. PICK C : C = 0 .. Buckets - 1
  OBVIOUS
<1>3. IsFiniteSet(C)
  <2>1. Buckets - 1 \in Int
    BY DEF ShmCacheAssumption
  <2>2. QED
    BY <1>2, <2>1, FS_Interval
<1>4. PICK h : \A t \in Live : h[t] = Hash(key[t])
  <2>1. \A t \in Live : [i \in Live |-> Hash(key[i])][t] = Hash(key[t])
    OBVIOUS
  <2>2. QED
    BY <2>1
<1>5. PICK K : \A c \in C : K[c] = Here(c)
  <2>1. \A c \in C : [b \in C |-> Here(b)][c] = Here(c)
    OBVIOUS
  <2>2. QED
    BY <2>1
<1>6. \A c \in C : \A t : t \in K[c] <=> t \in Live /\ h[t] = c
  BY <1>1, <1>4, <1>5 DEF Here
<1>7. \A t : t \in Live <=> t \in Live /\ h[t] \in C
  <2>1. \A t \in Live : key[t] \in Keys
    BY LiveAre DEF CacheInv
  <2>2. \A t \in Live : Hash(key[t]) \in C
    BY <1>2, <2>1, Hashes
  <2>3. QED
    BY <1>4, <2>2
<1>8. \A c \in C : g[c] = SumFunctionOnSet(f, K[c])
  BY <1>2, <1>5
<1>9. SumFunctionOnSet(g, C) = SumFunctionOnSet(f, Live)
  BY ONLY <1>1, <1>3, <1>6, <1>7, <1>8, SumSlots, \A i \in Live : f[i] \in Int
<1>10. QED
  BY <1>2, <1>9

\* o adds up what f says of the blocks of key k, from rank to rank.
AddsUp(o, f, k, rank) ==
  \A i \in Live : key[i] = k => o[rank[i] + 2] = o[rank[i] + 1] + f[i]

\* A sum over the blocks of one entry, and over those of all entries.
LEMMA SumOfEntry ==
  ASSUME Typed, ShmCacheAssumption, NEW N, NEW rank, Stored(N, rank), NEW m \in DOMAIN N,
         NEW B \in Nat, B = Lru!BlocksOf(N[m].val),
         NEW f, \A i \in Live : f[i] \in Int,
         NEW o, \A r \in 1 .. B + 1 : o[r] \in Int, AddsUp(o, f, N[m].key, rank)
  PROVE  SumFunctionOnSet(f, {i \in Live : key[i] = N[m].key}) = o[B + 1] - o[1]
<1>1. PICK S : S = {i \in Live : key[i] = N[m].key}
  OBVIOUS
<1>2. IsFiniteSet(S)
  <2>1. S \in SUBSET Idx
    BY <1>1 DEF Live
  <2>2. QED
    BY <2>1, BlocksFinite, FS_Subset
<1>3. \A i \in S : rank[i] \in Nat /\ rank[i] < B
  <2>1. \A i \in Live : rank[i] \in Nat
    BY DEF Stored, Parts, Live
  <2>2. QED
    BY <1>1, <2>1 DEF Stored, Parts
<1>4. \A i, j \in S : rank[i] = rank[j] => i = j
  BY <1>1 DEF Stored, Parts
<1>5. \A r \in Nat : r < B => \E i \in S : rank[i] = r
  BY <1>1 DEF Stored, Parts
<1>6. PICK h : \A i \in S : h[i] = rank[i] + 1
  <2>1. \A i \in S : [j \in S |-> rank[j] + 1][i] = rank[i] + 1
    OBVIOUS
  <2>2. QED
    BY <2>1
<1>7. PICK C : C = 1 .. B
  OBVIOUS
<1>8. \A i \in S : h[i] \in C
  BY <1>3, <1>6, <1>7
<1>9. \A i, j \in S : h[i] = h[j] => i = j
  <2>1. ASSUME NEW i \in S, NEW j \in S, h[i] = h[j] PROVE i = j
    <3>1. rank[i] + 1 = rank[j] + 1 /\ rank[i] \in Nat /\ rank[j] \in Nat
      BY <1>3, <1>6, <2>1
    <3>2. rank[i] = rank[j]
      BY ONLY <3>1
    <3>3. QED
      BY <1>4, <3>2
  <2>2. QED
    BY <2>1
<1>10. \A c \in C : \E i \in S : h[i] = c
  <2>1. ASSUME NEW c \in C PROVE \E i \in S : h[i] = c
    <3>1. c - 1 \in Nat /\ c - 1 < B /\ (c - 1) + 1 = c
      BY <1>7
    <3>2. PICK i \in S : rank[i] = c - 1
      BY <1>5, <3>1
    <3>3. QED
      BY <1>6, <3>1, <3>2
  <2>2. QED
    BY <2>1
<1>11. PICK g : \A r \in C : g[r] = o[r + 1] - o[r]
  <2>1. \A r \in C : [s \in C |-> o[s + 1] - o[s]][r] = o[r + 1] - o[r]
    OBVIOUS
  <2>2. QED
    BY <2>1
<1>12. \A r \in C : o[r] \in Int /\ o[r + 1] \in Int
  <2>1. \A r \in C : r \in 1 .. B + 1 /\ r + 1 \in 1 .. B + 1
    BY <1>7
  <2>2. QED
    BY <2>1
<1>13. \A i \in S : f[i] \in Int /\ g[h[i]] = f[i]
  <2>1. ASSUME NEW i \in S PROVE f[i] \in Int /\ g[h[i]] = f[i]
    <3>1. f[i] \in Int /\ rank[i] \in Nat /\ o[rank[i] + 2] = o[rank[i] + 1] + f[i]
      BY <1>1, <1>3 DEF AddsUp
    <3>2. PICK r \in C : r = h[i] /\ r = rank[i] + 1 /\ r + 1 = rank[i] + 2
      BY <1>6, <1>8, <3>1
    <3>3. o[r + 1] = o[r] + f[i] /\ g[r] = o[r + 1] - o[r] /\ o[r] \in Int
      BY <1>11, <1>12, <3>1, <3>2
    <3>4. QED
      BY <3>1, <3>2, <3>3
  <2>2. QED
    BY <2>1
<1>14. IsFiniteSet(C)
  BY <1>7, FS_Interval
<1>15. SumFunctionOnSet(g, C) = SumFunctionOnSet(f, S)
  BY ONLY <1>2, <1>8, <1>9, <1>10, <1>13, <1>14, SumRenamed
<1>16. SumFunctionOnSet(g, 1 .. B) = o[B + 1] - o[1]
  <2>1. \A r \in 1 .. B : g[r] \in Int /\ o[r + 1] = o[r] + g[r]
    BY <1>7, <1>11, <1>12
  <2>2. QED
    BY ONLY <2>1, SumSteps, B \in Nat, \A r \in 1 .. B + 1 : o[r] \in Int
<1>17. QED
  BY <1>1, <1>7, <1>15, <1>16

LEMMA SumOfEntries ==
  ASSUME Typed, ShmCacheAssumption, NEW N, NEW rank, Stored(N, rank),
         NEW f, \A i \in Live : f[i] \in Int,
         NEW g, \A m \in DOMAIN N :
                  g[m] = SumFunctionOnSet(f, {i \in Live : key[i] = N[m].key})
  PROVE  SumFunctionOnSet(g, DOMAIN N) = SumFunctionOnSet(f, Live)
<1>1. /\ N \in Seq(EntrySet) /\ \A m, n \in DOMAIN N : N[m].key = N[n].key => m = n
      /\ \A i \in Live : \E m \in DOMAIN N : N[m].key = key[i]
  BY DEF Stored, IsStore, Parts
<1>2. PICK C : C = DOMAIN N
  OBVIOUS
<1>3. IsFiniteSet(Live) /\ IsFiniteSet(C)
  <2>1. Live \in SUBSET Idx
    BY DEF Live
  <2>2. DOMAIN N = 1 .. Len(N) /\ Len(N) \in Nat
    BY <1>1
  <2>3. IsFiniteSet(C)
    BY <1>2, <2>2, FS_Interval
  <2>4. QED
    BY <2>1, <2>3, BlocksFinite, FS_Subset
<1>4. PICK h : \A t \in Live : h[t] \in C /\ N[h[t]].key = key[t]
  <2>1. \A t \in Live : [i \in Live |-> CHOOSE m \in DOMAIN N : N[m].key = key[i]][t]
                           = CHOOSE m \in DOMAIN N : N[m].key = key[t]
    OBVIOUS
  <2>2. QED
    BY <1>1, <1>2, <2>1
<1>5. PICK K : \A c \in C : K[c] = {i \in Live : key[i] = N[c].key}
  <2>1. \A c \in C : [m \in C |-> {i \in Live : key[i] = N[m].key}][c]
                       = {i \in Live : key[i] = N[c].key}
    OBVIOUS
  <2>2. QED
    BY <2>1
<1>6. \A c \in C : \A t : t \in K[c] <=> t \in Live /\ h[t] = c
  BY <1>1, <1>2, <1>4, <1>5
<1>7. \A t : t \in Live <=> t \in Live /\ h[t] \in C
  BY <1>4
<1>8. \A c \in C : g[c] = SumFunctionOnSet(f, K[c])
  BY <1>2, <1>5
<1>9. SumFunctionOnSet(g, C) = SumFunctionOnSet(f, Live)
  BY ONLY <1>3, <1>6, <1>7, <1>8, SumSlots, \A i \in Live : f[i] \in Int
<1>10. QED
  BY <1>2, <1>9

LEMMA CountsBlocks ==
  ASSUME CacheInv, ShmCacheAssumption, Resting, NEW N, NEW rank, Stored(N, rank)
  PROVE  GetStat.use_block = Lru!BlocksUsed(N)
<1>1. Typed /\ Counted /\ Chains
  BY DEF CacheInv
<1>2. PICK depth : Depths(depth)
  BY <1>1 DEF Chains
<1>3. PICK f : \A i \in Live : f[i] = 1
  <2>1. \A i \in Live : [j \in Live |-> 1][i] = 1
    OBVIOUS
  <2>2. QED
    BY <2>1
<1>4. \A i \in Live : f[i] \in Int
  BY <1>3
<1>5. ASSUME NEW b \in 0 .. Buckets - 1 PROVE hlen[b] = SumFunctionOnSet(f, Here(b))
  <2>1. IsFiniteSet(Here(b)) /\ Here(b) \subseteq Live
    BY <1>2, ChainIs
  <2>2. \A x \in Here(b) : f[x] = 1
    BY <1>3, <2>1
  <2>3. SumFunctionOnSet(f, Here(b)) = Cardinality(Here(b))
    BY ONLY <2>1, <2>2, SumOnes
  <2>4. QED
    BY <1>1, <2>3 DEF Counted
<1>6. SumFunctionOnSet(hlen, 0 .. Buckets - 1) = SumFunctionOnSet(f, Live)
  BY <1>4, <1>5, SumOfChains
<1>7. SumFunctionOnSet(f, Live) = Cardinality(Live)
  <2>1. Live \in SUBSET Idx
    BY DEF Live
  <2>2. IsFiniteSet(Live)
    BY <2>1, BlocksFinite, FS_Subset
  <2>3. QED
    BY ONLY <1>3, <2>2, SumOnes
<1>8. DOMAIN hlen = 0 .. Buckets - 1
  BY <1>1 DEF Typed
<1>9. GetStat.use_block = SumFunctionOnSet(hlen, 0 .. Buckets - 1)
  BY <1>8 DEF GetStat, SumFunction
<1>10. QED
  BY <1>1, <1>6, <1>7, <1>9, UsedAre

LEMMA CountsBytes ==
  ASSUME CacheInv, ShmCacheAssumption, Resting, NEW N, NEW rank, Stored(N, rank)
  PROVE  GetStat.use_size = SumFunction([m \in DOMAIN N |-> Len(N[m].val)])
<1>1. Typed /\ \A m \in DOMAIN N : N[m].val \in Seq(Nat)
  <2>1. \A m \in DOMAIN N : N[m] \in EntrySet
    BY DEF Stored, IsStore
  <2>2. QED
    BY <2>1 DEF EntrySet, CacheInv
<1>2. PICK f : \A i \in Live : f[i] = Len(chunk[i])
  <2>1. \A i \in Live : [j \in Live |-> Len(chunk[j])][i] = Len(chunk[i])
    OBVIOUS
  <2>2. QED
    BY <2>1
<1>3. \A i \in Live : f[i] \in Int
  <2>1. \A i \in Live : Len(chunk[i]) \in Nat
    BY <1>1 DEF Typed, Live
  <2>2. QED
    BY <1>2, <2>1
<1>4. PICK g : g = [b \in 0 .. Buckets - 1 |-> BytesOn(Chain(b))]
  OBVIOUS
<1>5. ASSUME NEW b \in 0 .. Buckets - 1 PROVE g[b] = SumFunctionOnSet(f, Here(b))
  <2>1. PICK e : e = [n \in DOMAIN Chain(b) |-> Len(chunk[Chain(b)[n]])]
    OBVIOUS
  <2>2. PICK depth : Depths(depth)
    BY DEF CacheInv, Chains
  <2>3. \A n \in DOMAIN Chain(b) : Chain(b)[n] \in Live
    BY <2>2, ChainIs
  <2>4. \A n \in DOMAIN Chain(b) : e[n] = f[Chain(b)[n]]
    BY <1>2, <2>1, <2>3
  <2>5. SumFunctionOnSet(e, DOMAIN Chain(b)) = SumFunctionOnSet(f, Here(b))
    BY <1>3, <2>4, SumOfChain
  <2>6. DOMAIN e = DOMAIN Chain(b)
    BY <2>1
  <2>7. QED
    BY <1>4, <2>1, <2>5, <2>6 DEF BytesOn, SumFunction
<1>6. GetStat.use_size = SumFunctionOnSet(f, Live)
  <2>1. SumFunctionOnSet(g, 0 .. Buckets - 1) = SumFunctionOnSet(f, Live)
    BY <1>3, <1>5, SumOfChains
  <2>2. DOMAIN g = 0 .. Buckets - 1
    BY <1>4
  <2>3. GetStat.use_size = SumFunction(g)
    BY <1>4 DEF GetStat
  <2>4. QED
    BY <2>1, <2>2, <2>3 DEF SumFunction
<1>7. PICK s : s = [m \in DOMAIN N |-> Len(N[m].val)]
  OBVIOUS
<1>8. ASSUME NEW m \in DOMAIN N
      PROVE  s[m] = SumFunctionOnSet(f, {i \in Live : key[i] = N[m].key})
  <2>1. PICK v \in Seq(Nat) : v = N[m].val
    BY <1>1
  <2>2. PICK B \in Nat : B = Lru!BlocksOf(v)
    BY BlocksAre
  <2>3. PICK o : \A r \in 1 .. B + 1 : o[r] = Upto(v, r - 1)
    <3>1. \A r \in 1 .. B + 1 : [q \in 1 .. B + 1 |-> Upto(v, q - 1)][r] = Upto(v, r - 1)
      OBVIOUS
    <3>2. QED
      BY <3>1
  <2>4. /\ \A r \in Nat : Len(First(v, r)) = Upto(v, r) /\ First(v, r) \in Seq(Nat)
        /\ \A r \in Nat : r < B => Len(Part(v, r)) = Upto(v, r + 1) - Upto(v, r)
        /\ First(v, 0) = <<>> /\ First(v, B) = v
    BY <2>2, PartsJoin
  <2>5. \A r \in Nat : Upto(v, r) \in Nat
    BY <2>4
  <2>6. ASSUME NEW r \in 1 .. B + 1 PROVE o[r] \in Int
    <3>1. r - 1 \in Nat
      OBVIOUS
    <3>2. QED
      BY <2>3, <2>5, <3>1, SMTT(30)
  <2>7. ASSUME NEW i \in Live, key[i] = N[m].key PROVE o[rank[i] + 2] = o[rank[i] + 1] + f[i]
    <3>1. /\ rank[i] \in Nat /\ rank[i] < B /\ chunk[i] = Part(v, rank[i])
      <4>1. rank[i] \in Nat
        BY DEF Stored, Parts, Live
      <4>2. QED
        BY <2>1, <2>2, <2>7, <4>1 DEF Stored, Parts
    <3>2. PICK r \in Nat : r = rank[i] /\ r < B /\ Len(chunk[i]) = Upto(v, r + 1) - Upto(v, r)
      BY <2>4, <3>1
    <3>3. r + 2 \in 1 .. B + 1 /\ r + 1 \in 1 .. B + 1 /\ (r + 2) - 1 = r + 1 /\ (r + 1) - 1 = r
      BY <3>2
    <3>4. o[r + 2] = Upto(v, r + 1) /\ o[r + 1] = Upto(v, r)
      BY <2>3, <3>3
    <3>5. Upto(v, r + 1) \in Nat /\ Upto(v, r) \in Nat
      BY <2>5
    <3>6. QED
      BY <1>2, <3>2, <3>4, <3>5
  <2>8. SumFunctionOnSet(f, {i \in Live : key[i] = N[m].key}) = o[B + 1] - o[1]
    <3>1. AddsUp(o, f, N[m].key, rank)
      BY <2>7 DEF AddsUp
    <3>2. \A r \in 1 .. B + 1 : o[r] \in Int
      BY <2>6
    <3>3. Typed /\ B = Lru!BlocksOf(N[m].val)
      BY <1>1, <2>1, <2>2
    <3>4. QED
      BY ONLY <1>3, <3>1, <3>2, <3>3, SumOfEntry, ShmCacheAssumption, Stored(N, rank),
              m \in DOMAIN N, B \in Nat
  <2>9. o[B + 1] = Len(v) /\ o[1] = 0
    <3>1. B + 1 \in 1 .. B + 1 /\ 1 \in 1 .. B + 1 /\ (B + 1) - 1 = B /\ 1 - 1 = 0 /\ 0 \in Nat
      OBVIOUS
    <3>2. o[B + 1] = Upto(v, B) /\ o[1] = Upto(v, 0)
      BY <2>3, <3>1
    <3>3. Upto(v, B) = Len(v) /\ Upto(v, 0) = Len(<<>>)
      BY <2>4, <3>1
    <3>4. QED
      BY <3>2, <3>3
  <2>10. s[m] = Len(v) /\ Len(v) \in Nat
    BY <1>7, <2>1
  <2>11. QED
    BY <2>8, <2>9, <2>10
<1>9. SumFunctionOnSet(s, DOMAIN N) = SumFunctionOnSet(f, Live)
  BY <1>1, <1>3, <1>8, SumOfEntries
<1>10. DOMAIN s = DOMAIN N
  BY <1>7
<1>11. QED
  BY <1>6, <1>7, <1>9, <1>10 DEF SumFunction

\* A key changes on a chain where its first part stands.
LEMMA ChangesAre ==
  ASSUME CacheInv, ShmCacheAssumption, Resting, NEW N, NEW rank, Stored(N, rank),
         NEW b \in 0 .. Buckets - 1, NEW n \in DOMAIN Chain(b)
  PROVE  n \in KeyChanges(Chain(b)) <=> rank[Chain(b)[n]] = 0
<1>1. Typed /\ Chains
  BY DEF CacheInv
<1>2. PICK depth : Depths(depth)
  BY <1>1 DEF Chains
<1>3. Linked = Live /\ Live = {i \in Idx : key[i] # 0}
  BY DEF Linked, Live, Doomed, Resting
<1>4. PICK c : c = Chain(b)
  OBVIOUS
<1>5. /\ \A l \in DOMAIN c : c[l] \in Here(b) /\ c[l] \in Live /\ depth[c[l]] = l
      /\ \A i \in Here(b) : depth[i] \in DOMAIN c /\ c[depth[i]] = i
  BY <1>2, <1>4, ChainIs
<1>6. PICK i \in Live : i = c[n] /\ depth[i] = n /\ Hash(key[i]) = b
  BY <1>4, <1>5 DEF Here
<1>7. n \in KeyChanges(Chain(b)) <=> n = 1 \/ key[i] # key[c[n-1]]
  BY <1>4, <1>6 DEF KeyChanges
<1>8. /\ \A j \in Live : rank[j] \in Nat /\ depth[j] \in Nat
      /\ n \in Nat /\ n >= 1
  <2>1. \A j \in Live : rank[j] \in Nat /\ depth[j] \in Nat
    BY <1>2 DEF Stored, Parts, Live, Depths
  <2>2. depth[i] >= 1
    BY <1>2, <1>3 DEF Depths, Firsts
  <2>3. QED
    BY <1>6, <2>1, <2>2
<1>9. ASSUME n # 1
      PROVE  /\ n - 1 \in DOMAIN c /\ c[n-1] \in Live /\ depth[c[n-1]] = n - 1
             /\ next[c[n-1]] = i
  <2>1. depth[i] > 1
    BY <1>6, <1>8, <1>9
  <2>2. PICK j \in Live : next[j] = i
    BY <1>2, <1>3, <2>1 DEF Depths, Reached
  <2>3. i # Nil
    BY <1>3, NilIsNone
  <2>4. Hash(key[j]) = b /\ n = depth[j] + 1
    BY <1>2, <1>3, <1>6, <2>2, <2>3 DEF Depths, Follows
  <2>5. depth[j] = n - 1
    BY <1>8, <2>2, <2>4
  <2>6. j \in Here(b)
    BY <1>3, <2>2, <2>4 DEF Here
  <2>7. QED
    BY <1>5, <2>2, <2>5, <2>6
<1>10. ASSUME n # 1, key[i] = key[c[n-1]] PROVE rank[i] # 0
  <2>1. PICK j \in Live : j = c[n-1] /\ next[j] = i /\ key[j] = key[i]
    BY <1>9, <1>10
  <2>2. i # Nil
    BY <1>3, NilIsNone
  <2>3. rank[i] = rank[j] + 1
    BY <1>3, <2>1, <2>2 DEF Stored, InRow
  <2>4. QED
    BY <1>8, <2>1, <2>3
<1>11. ASSUME rank[i] # 0 PROVE n # 1 /\ key[i] = key[c[n-1]]
  <2>1. PICK m \in DOMAIN N : N[m].key = key[i] /\ rank[i] < Lru!BlocksOf(N[m].val)
    <3>1. PICK m \in DOMAIN N : N[m].key = key[i]
      BY <1>6 DEF Stored, Parts
    <3>2. QED
      BY <1>6, <3>1 DEF Stored, Parts
  <2>2. PICK r \in Nat : r + 1 = rank[i]
    <3>1. rank[i] \in Nat
      BY <1>8
    <3>2. rank[i] - 1 \in Nat /\ (rank[i] - 1) + 1 = rank[i]
      BY <1>11, <3>1
    <3>3. QED
      BY <3>2
  <2>3. Lru!BlocksOf(N[m].val) \in Nat
    <3>1. N[m].val \in Seq(Nat)
      <4>1. N[m] \in EntrySet
        BY DEF Stored, IsStore
      <4>2. QED
        BY <4>1 DEF EntrySet
    <3>2. QED
      BY <3>1, BlocksAre
  <2>4. r < Lru!BlocksOf(N[m].val)
    BY <2>1, <2>2, <2>3
  <2>5. PICK j \in Live : key[j] = key[i] /\ rank[j] = r
    BY <2>1, <2>4 DEF Stored, Parts
  <2>6. depth[i] = depth[j] + 1
    <3>1. i \in Live \cap Linked /\ j \in Live \cap Linked
      BY <1>3
    <3>2. PICK x, y \in Nat : x = depth[i] /\ y = depth[j]
      BY <1>8
    <3>3. x <= y => r = (r + 1) + (y - x)
      BY <1>1, <1>2, <2>2, <2>5, <3>1, <3>2, RanksFollow
    <3>4. y <= x => r + 1 = r + (x - y)
      BY <1>1, <1>2, <2>2, <2>5, <3>1, <3>2, RanksFollow
    <3>5. QED
      BY <3>2, <3>3, <3>4
  <2>7. j \in Here(b)
    BY <1>3, <1>6, <2>5 DEF Here
  <2>8. depth[j] = n - 1 /\ c[depth[j]] = j /\ depth[j] >= 1
    <3>1. depth[j] = n - 1
      BY <1>6, <1>8, <2>6
    <3>2. depth[j] >= 1
      BY <1>2, <1>3 DEF Depths, Firsts
    <3>3. QED
      BY <1>5, <2>7, <3>1, <3>2
  <2>9. QED
    BY <1>8, <2>5, <2>8
<1>12. QED
  BY <1>4, <1>6, <1>7, <1>10, <1>11

LEMMA CountsKeys ==
  ASSUME CacheInv, ShmCacheAssumption, Resting, NEW N, NEW rank, Stored(N, rank)
  PROVE  GetStat.has_key = Len(N)
<1>1. Typed /\ N \in Seq(EntrySet) /\ Len(N) \in Nat /\ DOMAIN N = 1 .. Len(N)
  BY DEF Stored, IsStore, CacheInv
<1>2. PICK f : \A i \in Live : f[i] = IF rank[i] = 0 THEN 1 ELSE 0
  <2>1. \A i \in Live : [j \in Live |-> IF rank[j] = 0 THEN 1 ELSE 0][i]
                          = IF rank[i] = 0 THEN 1 ELSE 0
    OBVIOUS
  <2>2. QED
    BY <2>1
<1>3. \A i \in Live : f[i] \in Int
  BY <1>2
<1>4. PICK g : g = [b \in 0 .. Buckets - 1 |-> Cardinality(KeyChanges(Chain(b)))]
  OBVIOUS
<1>5. ASSUME NEW b \in 0 .. Buckets - 1 PROVE g[b] = SumFunctionOnSet(f, Here(b))
  <2>1. PICK D, A : D = DOMAIN Chain(b) /\ A = KeyChanges(Chain(b))
    OBVIOUS
  <2>2. PICK e : \A n \in D : e[n] = f[Chain(b)[n]]
    <3>1. \A n \in D : [l \in D |-> f[Chain(b)[l]]][n] = f[Chain(b)[n]]
      OBVIOUS
    <3>2. QED
      BY <3>1
  <2>3. PICK depth : Depths(depth)
    BY DEF CacheInv, Chains
  <2>4. IsFiniteSet(D) /\ \A n \in D : Chain(b)[n] \in Live
    BY <2>1, <2>3, ChainIs
  <2>5. SumFunctionOnSet(e, D) = SumFunctionOnSet(f, Here(b))
    BY <1>3, <2>1, <2>2, SumOfChain
  <2>6. \A n \in D : n \in A <=> rank[Chain(b)[n]] = 0
    BY <2>1, ChangesAre
  <2>7. \A n \in D : /\ n \in A => e[n] = 1
                     /\ n \notin A => e[n] = 0
    BY <1>2, <2>2, <2>4, <2>6
  <2>8. A \in SUBSET D /\ D \in SUBSET D
    BY <2>1 DEF KeyChanges
  <2>9. SumFunctionOnSet(e, D) = SumFunctionOnSet(e, A)
    <3>1. /\ \A n \in D : e[n] \in Nat
          /\ \A n \in D : e[n] # 0 => (n \in D <=> n \in A)
      BY <2>7
    <3>2. QED
      BY ONLY <2>4, <2>8, <3>1, SumSupport
  <2>10. SumFunctionOnSet(e, A) = Cardinality(A)
    <3>1. IsFiniteSet(A) /\ \A n \in A : e[n] = 1
      BY <2>4, <2>7, <2>8, FS_Subset
    <3>2. QED
      BY ONLY <3>1, SumOnes
  <2>11. QED
    BY <1>4, <2>1, <2>5, <2>9, <2>10
<1>6. GetStat.has_key = SumFunctionOnSet(f, Live)
  <2>1. SumFunctionOnSet(g, 0 .. Buckets - 1) = SumFunctionOnSet(f, Live)
    BY <1>3, <1>5, SumOfChains
  <2>2. DOMAIN g = 0 .. Buckets - 1
    BY <1>4
  <2>3. GetStat.has_key = SumFunction(g)
    BY <1>4 DEF GetStat
  <2>4. QED
    BY <2>1, <2>2, <2>3 DEF SumFunction
<1>7. PICK s : \A m \in DOMAIN N : s[m] = 1
  <2>1. \A m \in DOMAIN N : [n \in DOMAIN N |-> 1][m] = 1
    OBVIOUS
  <2>2. QED
    BY <2>1
<1>8. ASSUME NEW m \in DOMAIN N
      PROVE  s[m] = SumFunctionOnSet(f, {i \in Live : key[i] = N[m].key})
  <2>1. N[m] \in EntrySet /\ N[m].val # <<>>
    BY DEF Stored, IsStore
  <2>2. N[m].val \in Seq(Nat)
    BY <2>1 DEF EntrySet
  <2>3. PICK B \in Nat : B = Lru!BlocksOf(N[m].val) /\ B # 0
    BY <2>1, <2>2, BlocksAre
  <2>4. PICK o : \A r \in 1 .. B + 1 : o[r] = IF r = 1 THEN 0 ELSE 1
    <3>1. \A r \in 1 .. B + 1 : [q \in 1 .. B + 1 |-> IF q = 1 THEN 0 ELSE 1][r]
                                  = IF r = 1 THEN 0 ELSE 1
      OBVIOUS
    <3>2. QED
      BY <3>1
  <2>5. AddsUp(o, f, N[m].key, rank)
    <3>1. ASSUME NEW i \in Live, key[i] = N[m].key
          PROVE  o[rank[i] + 2] = o[rank[i] + 1] + f[i]
      <4>1. rank[i] \in Nat
        BY DEF Stored, Parts, Live
      <4>2. rank[i] < B
        BY <2>3, <3>1 DEF Stored, Parts
      <4>3. PICK r \in Nat : r = rank[i] /\ r < B
        BY <4>1, <4>2
      <4>4. r + 2 \in 1 .. B + 1 /\ r + 1 \in 1 .. B + 1 /\ r + 2 # 1
        BY <4>3
      <4>5. o[r + 2] = 1 /\ o[r + 1] = IF r + 1 = 1 THEN 0 ELSE 1
        BY <2>4, <4>4
      <4>6. f[i] = IF r = 0 THEN 1 ELSE 0
        BY <1>2, <4>3
      <4>7. QED
        BY ONLY <4>3, <4>5, <4>6, r \in Nat
    <3>2. QED
      BY <3>1 DEF AddsUp
  <2>6. \A r \in 1 .. B + 1 : o[r] \in Int
    BY <2>4
  <2>7. SumFunctionOnSet(f, {i \in Live : key[i] = N[m].key}) = o[B + 1] - o[1]
    <3>1. Typed /\ B = Lru!BlocksOf(N[m].val)
      BY <1>1, <2>3
    <3>2. QED
      BY ONLY <1>3, <2>5, <2>6, <3>1, SumOfEntry, ShmCacheAssumption, Stored(N, rank),
              m \in DOMAIN N, B \in Nat
  <2>8. o[B + 1] = 1 /\ o[1] = 0
    <3>1. B + 1 \in 1 .. B + 1 /\ 1 \in 1 .. B + 1 /\ B + 1 # 1
      BY <2>3
    <3>2. QED
      BY <2>4, <3>1
  <2>9. QED
    BY <1>7, <2>7, <2>8
<1>9. SumFunctionOnSet(s, DOMAIN N) = SumFunctionOnSet(f, Live)
  BY <1>1, <1>3, <1>8, SumOfEntries
<1>10. SumFunctionOnSet(s, DOMAIN N) = Len(N)
  <2>1. IsFiniteSet(1 .. Len(N)) /\ Cardinality(1 .. Len(N)) = Len(N)
    BY <1>1, FS_Interval
  <2>2. \A m \in 1 .. Len(N) : s[m] = 1
    BY <1>1, <1>7
  <2>3. SumFunctionOnSet(s, 1 .. Len(N)) = Cardinality(1 .. Len(N))
    BY ONLY <2>1, <2>2, SumOnes
  <2>4. QED
    BY <1>1, <2>1, <2>3
<1>11. QED
  BY <1>6, <1>9, <1>10

\* shmcache.cpp:382-415: the walk along the chains counts the keys that are
\* stored, their blocks and their bytes, when no operation is half way.
THEOREM GetStatCounts == SpecH => []StatRight
<1>1. InitH => LruInv
  BY ShmCacheAssumption, LruInitHolds
<1>2. LruInv /\ [NextH]_hvars => LruInv'
  BY ShmCacheAssumption, LruStepHolds
<1>3. LruInv => StatRight
  <2>1. SUFFICES ASSUME LruInv, op.pc = "idle"
                 PROVE  /\ GetStat.has_key = Len(entries)
                        /\ GetStat.use_block = Lru!BlocksUsed(entries)
                        /\ GetStat.use_size
                             = SumFunction([i \in DOMAIN entries |-> Len(entries[i].val)])
    BY DEF StatRight
  <2>2. Resting /\ CacheInv /\ ShmCacheAssumption
    BY <2>1, ShmCacheAssumption DEF Resting, LruInv
  <2>3. PICK rank : Stored(entries, rank)
    <3>1. PICK N, rank, g : Stored(N, rank) /\ Doing(N, rank, g)
      BY <2>1 DEF LruInv, Holding
    <3>2. N = entries
      BY <2>1, <3>1 DEF Doing, Phase
    <3>3. QED
      BY <3>1, <3>2
  <2>4. QED
    BY <2>2, <2>3, CountsKeys, CountsBlocks, CountsBytes
<1>4. QED
  BY <1>1, <1>2, <1>3, PTL DEF SpecH
=============================================================================
