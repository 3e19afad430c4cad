----------------------------- MODULE UtilsProofs -----------------------------
(***************************************************************************)
(* Proofs about the utilities: the external merge sort, for every number   *)
(* and order of items and every length of a run; and the arithmetic of     *)
(* ticks, for every unit of time.                                          *)
(***************************************************************************)
EXTENDS ExternSort, TimeTick, Arithmetic, SequenceTheorems

-----------------------------------------------------------------------------
(* How often an item is in a sequence *)

Places(s, x) == {i \in DOMAIN s : s[i] = x}

LEMMA CopiesType ==
  ASSUME NEW S, NEW s \in Seq(S), NEW x
  PROVE  /\ IsFiniteSet(Places(s, x)) /\ Copies(s, x) = Cardinality(Places(s, x))
         /\ Copies(s, x) \in Nat /\ Copies(<<>>, x) = 0
<1>1. DOMAIN s = 1 .. Len(s) /\ Len(s) \in Nat /\ 1 \in Int
  BY LenProperties
<1>2. IsFiniteSet(1 .. Len(s))
  BY <1>1, FS_Interval
<1>3. IsFiniteSet(Places(s, x))
  BY <1>1, <1>2, FS_Subset DEF Places
<1>4. Copies(s, x) = Cardinality(Places(s, x))
  BY DEF Copies, Places
<1>5. Copies(<<>>, x) = 0
  <2>1. {i \in DOMAIN <<>> : <<>>[i] = x} = {}
    OBVIOUS
  <2>2. QED
    BY <2>1, FS_EmptySet DEF Copies
<1>6. QED
  BY <1>3, <1>4, <1>5, FS_CardinalityType

\* Sequences have the same copies when a bijection of their places shows it.
LEMMA CopiesSame ==
  ASSUME NEW S, NEW s \in Seq(S), NEW t \in Seq(S), NEW x, NEW h,
         \A i \in Places(s, x) : h[i] \in Places(t, x),
         \A i, j \in Places(s, x) : h[i] = h[j] => i = j,
         \A j \in Places(t, x) : \E i \in Places(s, x) : h[i] = j
  PROVE  Copies(s, x) = Copies(t, x)
<1> DEFINE A == Places(s, x)
           B == Places(t, x)
           f == [i \in A |-> h[i]]
<1>1. IsFiniteSet(A) /\ Copies(s, x) = Cardinality(A) /\ Copies(t, x) = Cardinality(B)
  BY CopiesType
<1> HIDE DEF A, B
<1>2. f \in [A -> B] /\ (\A i, j \in A : f[i] = f[j] => i = j) /\ \A j \in B : \E i \in A : f[i] = j
  BY DEF A, B
<1> HIDE DEF f
<1>3. f \in Bijection(A, B)
  BY <1>2 DEF Bijection, Injection, IsInjective, Surjection
<1>4. QED
  BY <1>1, <1>3, FS_Bijection DEF ExistsBijection

LEMMA CopiesAppend ==
  ASSUME NEW S, NEW s \in Seq(S), NEW y \in S, NEW x
  PROVE  Copies(Append(s, y), x) = Copies(s, x) + (IF y = x THEN 1 ELSE 0)
<1> DEFINE t == Append(s, y)
           n == Len(s)
<1>1. /\ t \in Seq(S) /\ Len(t) = n + 1 /\ n \in Nat /\ DOMAIN s = 1 .. n /\ DOMAIN t = 1 .. n + 1
      /\ \A i \in 1 .. n : t[i] = s[i]
      /\ t[n + 1] = y
  <2>1. /\ t \in Seq(S) /\ Len(t) = n + 1 /\ \A i \in 1 .. n : t[i] = s[i]
        /\ t[n + 1] = y
    BY AppendProperties
  <2>2. QED
    BY <2>1, LenProperties
<1>2. IsFiniteSet(Places(s, x)) /\ Copies(s, x) = Cardinality(Places(s, x))
      /\ Copies(t, x) = Cardinality(Places(t, x)) /\ Copies(s, x) \in Nat
  <2>1. \A r \in Seq(S) : IsFiniteSet(Places(r, x)) /\ Copies(r, x) = Cardinality(Places(r, x))
                          /\ Copies(r, x) \in Nat
    BY CopiesType
  <2>2. QED
    BY <1>1, <2>1
<1> HIDE DEF t, n
<1>3. n + 1 \notin Places(s, x)
  BY <1>1 DEF Places
<1>4. CASE y = x
  <2>1. Places(t, x) = Places(s, x) \cup {n + 1}
    BY <1>1, <1>4 DEF Places
  <2>2. QED
    BY <1>2, <1>3, <1>4, <2>1, FS_AddElement DEF t
<1>5. CASE y # x
  <2>1. Places(t, x) = Places(s, x)
    BY <1>1, <1>5 DEF Places
  <2>2. QED
    BY <1>2, <1>5, <2>1 DEF t
<1>6. QED
  BY <1>4, <1>5

LEMMA CopiesTail ==
  ASSUME NEW S, NEW s \in Seq(S), s # <<>>, NEW x
  PROVE  /\ Head(s) = s[1] /\ Tail(s) \in Seq(S)
         /\ Copies(s, x) = Copies(Tail(s), x) + (IF s[1] = x THEN 1 ELSE 0)
<1> DEFINE t == Tail(s)
           n == Len(s)
           C == Places(s, x) \ {1}
<1>1. /\ t \in Seq(S) /\ Len(t) = n - 1 /\ n \in Nat /\ n >= 1 /\ DOMAIN s = 1 .. n
      /\ DOMAIN t = 1 .. n - 1 /\ \A i \in 1 .. n - 1 : t[i] = s[i + 1]
  <2>1. t \in Seq(S) /\ Len(t) = n - 1 /\ \A i \in 1 .. Len(t) : t[i] = s[i + 1]
    BY HeadTailProperties
  <2>2. n \in Nat /\ n >= 1 /\ DOMAIN s = 1 .. n
    BY LenProperties, EmptySeq
  <2>3. DOMAIN t = 1 .. Len(t)
    BY <2>1, LenProperties
  <2>4. QED
    BY <2>1, <2>2, <2>3
<1>2. IsFiniteSet(Places(s, x)) /\ IsFiniteSet(Places(t, x)) /\ Copies(s, x) = Cardinality(Places(s, x))
      /\ Copies(t, x) = Cardinality(Places(t, x)) /\ Copies(s, x) \in Nat /\ Copies(t, x) \in Nat
  <2>1. \A r \in Seq(S) : IsFiniteSet(Places(r, x)) /\ Copies(r, x) = Cardinality(Places(r, x))
                          /\ Copies(r, x) \in Nat
    BY CopiesType
  <2>2. QED
    BY <1>1, <2>1
<1> HIDE DEF t, n
<1>3. Cardinality(Places(t, x)) = Cardinality(C) /\ IsFiniteSet(C)
  <2> DEFINE f == [i \in Places(t, x) |-> i + 1]
  <2>1. f \in [Places(t, x) -> C]
    BY <1>1 DEF Places
  <2>2. \A i, j \in Places(t, x) : f[i] = f[j] => i = j
    BY <1>1 DEF Places
  <2>3. ASSUME NEW j \in C PROVE \E i \in Places(t, x) : f[i] = j
    <3>1. j \in 1 .. n /\ j # 1 /\ s[j] = x
      BY <1>1 DEF Places
    <3>2. j - 1 \in 1 .. n - 1 /\ (j - 1) + 1 = j
      BY <1>1, <3>1
    <3>3. j - 1 \in Places(t, x)
      BY <1>1, <3>1, <3>2 DEF Places
    <3>4. QED
      BY <3>2, <3>3
  <2> HIDE DEF f, C
  <2>4. f \in Bijection(Places(t, x), C)
    BY <2>1, <2>2, <2>3 DEF Bijection, Injection, IsInjective, Surjection
  <2>5. QED
    BY <1>2, <2>4, FS_Bijection DEF ExistsBijection
<1>4. ASSUME s[1] = x PROVE Copies(s, x) = Copies(t, x) + 1
  <2>1. 1 \in Places(s, x)
    BY <1>1, <1>4 DEF Places
  <2>2. Cardinality(C) = Cardinality(Places(s, x)) - 1
    BY <1>2, <2>1, FS_RemoveElement
  <2>3. PICK a, b \in Nat : a = Copies(s, x) /\ b = Copies(t, x)
    BY <1>2
  <2>4. b = a - 1
    BY <1>2, <1>3, <2>2, <2>3
  <2>5. a = b + 1
    BY ONLY <2>4, a \in Nat, b \in Nat
  <2>6. QED
    BY <2>3, <2>5
<1>5. ASSUME s[1] # x PROVE Copies(s, x) = Copies(t, x)
  <2>1. C = Places(s, x)
    BY <1>5 DEF Places
  <2>2. QED
    BY <1>2, <1>3, <2>1
<1>6. Copies(s, x) = Copies(t, x) + (IF s[1] = x THEN 1 ELSE 0)
  BY <1>2, <1>4, <1>5
<1>7. Head(s) = s[1] /\ t \in Seq(S)
  BY <1>1
<1>8. QED
  BY <1>6, <1>7 DEF t

\* What has copies, is there.
LEMMA CopiesFound ==
  ASSUME NEW S, NEW s \in Seq(S), NEW x
  PROVE  Copies(s, x) > 0 <=> \E i \in DOMAIN s : s[i] = x
<1>1. IsFiniteSet(Places(s, x)) /\ Copies(s, x) = Cardinality(Places(s, x)) /\ Copies(s, x) \in Nat
  BY CopiesType
<1>2. Cardinality(Places(s, x)) = 0 <=> Places(s, x) = {}
  BY <1>1, FS_EmptySet
<1>3. QED
  BY <1>1, <1>2 DEF Places

\* Sorting keeps every copy.
LEMMA CopiesOrdered ==
  ASSUME NEW S, NEW s \in Seq(S), NEW r \in Orders(s), NEW x
  PROVE  /\ r \in Seq(S) /\ Len(r) = Len(s) /\ Copies(r, x) = Copies(s, x)
         /\ \A i \in 1 .. Len(r) - 1 : r[i].rank >= r[i + 1].rank
<1> DEFINE n == Len(s)
           D == 1 .. n
<1>1. D = DOMAIN s /\ n \in Nat /\ \A i \in D : s[i] \in S
  BY LenProperties, ElementOfSeq
<1> HIDE DEF D, n
<1>2. PICK q \in [D -> D] : ToSet(q) = D /\ r = [i \in D |-> s[q[i]]]
  BY <1>1 DEF Orders
<1>3. q \in Surjection(D, D)
  BY <1>2 DEF ToSet, Surjection
<1>4. IsFiniteSet(D)
  <2>1. 1 \in Int /\ n \in Int
    BY <1>1
  <2>2. QED
    BY <2>1, FS_Interval DEF D
<1>5. \A i, j \in D : q[i] = q[j] => i = j
  <2>1. q \in Injection(D, D)
    BY <1>3, <1>4, FS_SurjSameCardinalityImpliesInj
  <2>2. QED
    BY <2>1 DEF Injection, IsInjective
<1>6. r \in Seq(S) /\ Len(r) = n /\ DOMAIN r = D
  <2>1. r \in [1 .. n -> S]
    BY <1>1, <1>2 DEF D
  <2>2. r \in Seq(S)
    BY <1>1, <2>1, SeqDef
  <2>3. DOMAIN r = 1 .. Len(r) /\ Len(r) \in Nat /\ DOMAIN r = 1 .. n
    BY <2>1, <2>2, LenProperties
  <2>4. Len(r) = n
    <3>1. \A a, b \in Nat : 1 .. a = 1 .. b => a = b
      <4>1. SUFFICES ASSUME NEW a \in Nat, NEW b \in Nat, 1 .. a = 1 .. b, a # b PROVE FALSE
        OBVIOUS
      <4>2. a < b \/ b < a
        BY <4>1
      <4>3. a < b => b \in 1 .. b /\ b \notin 1 .. a
        OBVIOUS
      <4>4. b < a => a \in 1 .. a /\ a \notin 1 .. b
        OBVIOUS
      <4>5. QED
        BY <4>1, <4>2, <4>3, <4>4
    <3>2. QED
      BY <1>1, <2>3, <3>1
  <2>5. QED
    BY <2>2, <2>3, <2>4 DEF D
<1>7. Copies(r, x) = Copies(s, x)
  <2>1. \A i \in Places(r, x) : q[i] \in Places(s, x)
    BY <1>1, <1>2, <1>6 DEF Places
  <2>2. \A i, j \in Places(r, x) : q[i] = q[j] => i = j
    BY <1>5, <1>6 DEF Places
  <2>3. \A j \in Places(s, x) : \E i \in Places(r, x) : q[i] = j
    BY <1>1, <1>2, <1>3, <1>6 DEF Places, Surjection
  <2>4. QED
    BY <1>6, <2>1, <2>2, <2>3, CopiesSame
<1>8. \A i \in 1 .. n - 1 : r[i].rank >= r[i + 1].rank
  BY DEF Orders, n
<1>9. QED
  BY <1>6, <1>7, <1>8 DEF n

-----------------------------------------------------------------------------
(* The merge sort: its inductive invariant *)

Descending(s) == \A i \in 1 .. Len(s) - 1 : s[i].rank >= s[i + 1].rank

\* The copies that wait in the files, the heads of the open ones included.
Held(x) == [i \in DOMAIN files |-> Copies(files[i], x) + (IF i \in open /\ heads[i] = x THEN 1 ELSE 0)]
Left(x) == SumFunctionOnSet(Held(x), DOMAIN files)

Sequenced ==
  /\ taken \in Seq(Items) /\ mem \in Seq(Items) /\ out \in Seq(Items)
  /\ files \in Seq(Seq(Items)) /\ \A i \in DOMAIN files : Descending(files[i])
  /\ phase \in {"memory", "merge", "done", "failed", "broken"}

\* Before the merge nothing is open or delivered, and no file is empty.
Writing ==
  /\ open = {} /\ out = <<>>
  /\ \A i \in DOMAIN files : files[i] # <<>>

\* In the merge the head of an open file is not below what is left of it, and a
\* closed file has been read to its end.
Merging ==
  /\ mem = <<>> /\ heads \in [DOMAIN files -> Items] /\ open \subseteq DOMAIN files
  /\ \A i \in DOMAIN files \ open : files[i] = <<>>
  /\ \A i \in open : files[i] # <<>> => heads[i].rank >= files[i][1].rank

\* The item delivered last is not below a head.
Delivered ==
  /\ Descending(out)
  /\ out # <<>> => \A i \in open : out[Len(out)].rank >= heads[i].rank

\* Every item is as often in memory, in the files and among those delivered as
\* it was taken.
Accounted == \A x \in Items : Copies(taken, x) = Copies(mem, x) + Left(x) + Copies(out, x)

\* What a sort that has stopped has given back, and the item it stopped at.
Silent   == out = <<>>
Nameless == \E i \in DOMAIN taken : taken[i].name = ""

SInv ==
  /\ Sequenced
  /\ phase = "memory" => Writing
  /\ phase \in {"merge", "done"} => Merging /\ Delivered
  /\ phase = "merge" => max.index \in open /\ max.rank = heads[max.index].rank
  /\ phase = "done" => open = {}
  /\ phase \in {"memory", "merge", "done"} => Accounted
  /\ phase \in {"failed", "broken"} => Silent
  /\ phase = "failed" => Nameless

LEMMA HeldType ==
  ASSUME Sequenced, NEW x
  PROVE  /\ IsFiniteSet(DOMAIN files) /\ DOMAIN files = 1 .. Len(files) /\ Len(files) \in Nat
         /\ \A i \in DOMAIN files : files[i] \in Seq(Items) /\ Held(x)[i] \in Nat
         /\ Left(x) \in Nat
<1>1. /\ DOMAIN files = 1 .. Len(files) /\ Len(files) \in Nat
      /\ \A i \in DOMAIN files : files[i] \in Seq(Items)
  BY LenProperties, ElementOfSeq DEF Sequenced
<1>2. IsFiniteSet(DOMAIN files)
  <2>1. 1 \in Int /\ Len(files) \in Int
    BY <1>1
  <2>2. QED
    BY <1>1, <2>1, FS_Interval
<1>3. ASSUME NEW i \in DOMAIN files PROVE Held(x)[i] \in Nat
  <2>1. Copies(files[i], x) \in Nat
    BY <1>1, CopiesType
  <2>2. QED
    BY <2>1 DEF Held
<1>4. Left(x) \in Nat
  BY <1>2, <1>3, SumNat DEF Left
<1>5. QED
  BY <1>1, <1>2, <1>3, <1>4

\* The same holds of the next state.
LEMMA HeldNext == ASSUME Sequenced', NEW x PROVE Left(x)' \in Nat
<1>1. /\ DOMAIN files' = 1 .. Len(files') /\ Len(files') \in Nat
      /\ \A i \in DOMAIN files' : files'[i] \in Seq(Items)
  BY LenProperties, ElementOfSeq DEF Sequenced
<1>2. IsFiniteSet(DOMAIN files')
  <2>1. 1 \in Int /\ Len(files') \in Int
    BY <1>1
  <2>2. QED
    BY <1>1, <2>1, FS_Interval
<1>3. ASSUME NEW i \in DOMAIN files' PROVE Held(x)'[i] \in Nat
  <2>1. Copies(files'[i], x) \in Nat
    BY <1>1, CopiesType
  <2>2. QED
    BY <2>1 DEF Held
<1>4. QED
  BY <1>2, <1>3, SumNat DEF Left

\* A run that is written is left to be merged.
LEMMA LeftWritten ==
  ASSUME Sequenced, open = {}, open' = {}, NEW run \in Seq(Items), files' = Append(files, run), NEW x
  PROVE  Left(x)' = Left(x) + Copies(run, x)
<1> DEFINE n == Len(files)
           D == DOMAIN files
<1>1. /\ IsFiniteSet(D) /\ D = 1 .. n /\ n \in Nat
      /\ \A i \in D : files[i] \in Seq(Items) /\ Held(x)[i] \in Nat
  BY HeldType
<1>2. /\ DOMAIN files' = D \cup {n + 1} /\ n + 1 \notin D
      /\ files'[n + 1] = run /\ \A i \in D : files'[i] = files[i]
  <2>1. files \in Seq(Seq(Items))
    BY DEF Sequenced
  <2>2. /\ files' \in Seq(Seq(Items)) /\ Len(files') = n + 1 /\ files'[n + 1] = run
        /\ \A i \in 1 .. n : files'[i] = files[i]
    BY <2>1, AppendProperties
  <2>3. DOMAIN files' = 1 .. n + 1
    BY <2>2, LenProperties
  <2>4. QED
    BY <1>1, <2>2, <2>3
<1>3. Copies(run, x) \in Nat
  BY CopiesType
<1> HIDE DEF n, D
<1>4. ASSUME NEW i \in D PROVE Held(x)[i] \in Int /\ Held(x)'[i] = Held(x)[i]
  <2>1. Held(x)[i] = Copies(files[i], x) + 0 /\ Held(x)'[i] = Copies(files'[i], x) + 0
    BY <1>2 DEF Held, D
  <2>2. files'[i] = files[i] /\ Held(x)[i] \in Nat
    BY <1>1, <1>2
  <2>3. PICK c : c = Copies(files[i], x)
    OBVIOUS
  <2>4. Held(x)[i] = c + 0 /\ Held(x)'[i] = c + 0
    BY <2>1, <2>2, <2>3
  <2>5. QED
    BY <2>2, <2>4
<1>5. Held(x)'[n + 1] = Copies(run, x)
  <2>1. Held(x)'[n + 1] = Copies(files'[n + 1], x) + 0
    BY <1>2 DEF Held
  <2>2. QED
    BY <1>2, <1>3, <2>1
<1>6. PICK f, g, k : f = Held(x) /\ g = Held(x)' /\ k = n + 1
  OBVIOUS
<1>7. SumFunctionOnSet(g, D \cup {k}) = SumFunctionOnSet(f, D) + g[k]
  <2>1. /\ IsFiniteSet(D) /\ k \notin D /\ g[k] \in Int
        /\ \A i \in D : f[i] \in Int /\ g[i] = f[i]
    BY <1>1, <1>2, <1>3, <1>4, <1>5, <1>6
  <2>2. QED
    BY ONLY <2>1, SumMore
<1>8. QED
  BY <1>2, <1>5, <1>6, <1>7 DEF Left, D

\* What was taken before is taken, and what is in memory.
LEMMA TakenMore ==
  ASSUME taken \in Seq(Items), NEW item \in Items, taken' = Append(taken, item)
  PROVE  taken' \in Seq(Items) /\ \A i \in DOMAIN taken : i \in DOMAIN taken' /\ taken'[i] = taken[i]
<1>1. /\ taken' \in Seq(Items) /\ Len(taken') = Len(taken) + 1 /\ Len(taken) \in Nat
      /\ \A i \in 1 .. Len(taken) : taken'[i] = taken[i]
  BY AppendProperties, LenProperties
<1>2. DOMAIN taken = 1 .. Len(taken) /\ DOMAIN taken' = 1 .. Len(taken')
  BY <1>1, LenProperties
<1>3. QED
  BY <1>1, <1>2

\* The first items of a sequence.
LEMMA Fore ==
  ASSUME NEW S, NEW s \in Seq(S), NEW n \in 0 .. Len(s)
  PROVE  /\ SubSeq(s, 1, n) \in Seq(S) /\ Len(SubSeq(s, 1, n)) = n
         /\ \A i \in 1 .. n : SubSeq(s, 1, n)[i] = s[i]
<1>1. Len(s) \in Nat /\ \A i \in 1 .. Len(s) : s[i] \in S
  BY ElementOfSeq, LenProperties
<1>2. QED
  BY <1>1, SubSeqProperties

\* A run is sorted and written, or breaks off at an empty name ...
LEMMA RunInv ==
  ASSUME SInv, phase = "memory", NEW items \in Seq(Items), items # <<>>, Written(items),
         taken' \in Seq(Items), UNCHANGED <<heads, open, max, out>>,
         \A x \in Items : Copies(taken', x) = Copies(items, x) + Left(x) + Copies(out, x)
  PROVE  SInv'
<1>1. Sequenced /\ Writing
  BY DEF SInv
<1>2. PICK run \in Orders(items) :
        LET bad == {i \in DOMAIN run : run[i].name = ""}
        IN  /\ files' = Append(files, IF bad = {} THEN run ELSE SubSeq(run, 1, Min(bad) - 1))
            /\ IF bad = {} THEN mem' = <<>> /\ UNCHANGED phase ELSE phase' = "failed" /\ mem' = items
  BY DEF Written
<1>3. /\ run \in Seq(Items) /\ Len(run) = Len(items) /\ Descending(run)
      /\ \A x : Copies(run, x) = Copies(items, x)
  BY CopiesOrdered DEF Descending
<1>4. /\ DOMAIN run = 1 .. Len(run) /\ Len(run) \in Nat /\ Len(run) > 0 /\ run # <<>>
      /\ \A i \in DOMAIN run : run[i] \in Items
  BY <1>3, LenProperties, ElementOfSeq, EmptySeq
<1>5. files \in Seq(Seq(Items)) /\ \A i \in DOMAIN files : Descending(files[i]) /\ files[i] # <<>>
  BY <1>1 DEF Sequenced, Writing
<1>6. ASSUME NEW r \in Seq(Items), files' = Append(files, r), Descending(r)
      PROVE  /\ files' \in Seq(Seq(Items)) /\ \A i \in DOMAIN files' : Descending(files'[i])
             /\ r # <<>> => \A i \in DOMAIN files' : files'[i] # <<>>
  <2>1. /\ files' \in Seq(Seq(Items)) /\ Len(files') = Len(files) + 1 /\ Len(files) \in Nat
        /\ \A i \in 1 .. Len(files) : files'[i] = files[i]
        /\ files'[Len(files) + 1] = r
    BY <1>5, <1>6, AppendProperties, LenProperties
  <2>2. DOMAIN files' = 1 .. Len(files') /\ DOMAIN files = 1 .. Len(files)
    BY <1>5, <2>1, LenProperties
  <2>3. ASSUME NEW i \in DOMAIN files' PROVE files'[i] = r \/ (i \in DOMAIN files /\ files'[i] = files[i])
    BY <2>1, <2>2
  <2>4. QED
    BY <1>5, <1>6, <2>1, <2>3
<1>7. CASE {i \in DOMAIN run : run[i].name = ""} = {}
  <2>1. files' = Append(files, run) /\ mem' = <<>> /\ phase' = "memory"
    BY <1>2, <1>7
  <2>2. mem' \in Seq(Items) /\ \A x : Copies(mem', x) = 0
    <3>1. <<>> \in Seq(Items)
      BY EmptySeq
    <3>2. QED
      BY <2>1, <3>1, CopiesType
  <2>3. Sequenced'
    BY <1>1, <1>3, <1>6, <2>1, <2>2 DEF Sequenced
  <2>4. Writing'
    BY <1>1, <1>3, <1>4, <1>6, <2>1 DEF Writing
  <2>5. Accounted'
    <3>1. SUFFICES ASSUME NEW x \in Items
                   PROVE  Copies(taken', x) = Copies(mem', x) + Left(x)' + Copies(out', x)
      BY DEF Accounted
    <3>2. Left(x)' = Left(x) + Copies(items, x)
      BY <1>1, <1>3, <2>1, LeftWritten DEF Writing
    <3>3. Left(x) \in Nat /\ Copies(items, x) \in Nat /\ Copies(out, x) \in Nat
      BY <1>1, HeldType, CopiesType DEF Sequenced
    <3>4. Copies(taken', x) = Copies(items, x) + Left(x) + Copies(out, x)
      OBVIOUS
    <3>5. PICK a, b, c, d : a = Copies(taken', x) /\ b = Left(x) /\ c = Copies(items, x) /\ d = Copies(out, x)
      OBVIOUS
    <3>6. a = c + b + d /\ b \in Nat /\ c \in Nat /\ d \in Nat
      BY <3>3, <3>4, <3>5
    <3>7. a = 0 + (b + c) + d
      BY ONLY <3>6
    <3>8. QED
      BY <2>2, <3>2, <3>5, <3>7
  <2>6. QED
    BY <2>1, <2>3, <2>4, <2>5 DEF SInv
<1>8. CASE {i \in DOMAIN run : run[i].name = ""} # {}
  <2> DEFINE bad == {i \in DOMAIN run : run[i].name = ""}
             part == SubSeq(run, 1, Min(bad) - 1)
  <2>1. files' = Append(files, part) /\ mem' = items /\ phase' = "failed"
    BY <1>2, <1>8
  <2>2. PICK m \in bad : \A k \in bad : m <= k
    <3>1. bad \in SUBSET Nat
      <4>1. \A i \in DOMAIN run : i \in Nat
        BY <1>4
      <4>2. QED
        BY <4>1
    <3>2. QED
      BY <1>8, <3>1, LeastNat
  <2>3. Min(bad) \in bad
    BY <2>2 DEF Min
  <2>4. PICK k \in 1 .. Len(run) : k = Min(bad) /\ run[k].name = ""
    BY <1>4, <2>3
  <2> HIDE DEF bad
  <2>5. part \in Seq(Items) /\ Descending(part)
    <3>1. PICK len, l \in Nat : len = k - 1 /\ l = Len(run) /\ len <= l
      <4>1. PICK l : l = Len(run)
        OBVIOUS
      <4>2. l \in Nat /\ k \in 1 .. l
        BY <1>4, <4>1
      <4>3. k - 1 \in Nat /\ k - 1 <= l
        BY ONLY <4>2
      <4>4. QED
        BY <4>1, <4>2, <4>3
    <3>2. len \in 0 .. Len(run)
      BY <3>1
    <3>2a. part = SubSeq(run, 1, len)
      BY <2>4, <3>1
    <3>3. /\ part \in Seq(Items) /\ Len(part) = len
          /\ \A i \in 1 .. len : part[i] = run[i]
      <4>1. \A n \in 0 .. Len(run) : /\ SubSeq(run, 1, n) \in Seq(Items) /\ Len(SubSeq(run, 1, n)) = n
                                     /\ \A i \in 1 .. n : SubSeq(run, 1, n)[i] = run[i]
        BY <1>3, Fore
      <4>2. QED
        BY <3>2, <3>2a, <4>1
    <3> HIDE DEF part
    <3>4. ASSUME NEW i \in 1 .. len - 1 PROVE part[i].rank >= part[i + 1].rank
      <4>1. i \in 1 .. len /\ i + 1 \in 1 .. len /\ i \in 1 .. l - 1
        BY <3>1
      <4>2. run[i].rank >= run[i + 1].rank
        BY <1>3, <3>1, <4>1 DEF Descending
      <4>3. QED
        BY <3>3, <4>1, <4>2
    <3>5. QED
      BY <3>3, <3>4 DEF Descending
  <2>6. Sequenced'
    BY <1>1, <1>6, <2>1, <2>5 DEF Sequenced
  <2>7. \E i \in DOMAIN taken' : taken'[i].name = ""
    <3>1. Copies(run, run[k]) > 0 /\ run[k] \in Items
      BY <1>3, <1>4, CopiesFound
    <3>2. Copies(items, run[k]) > 0
      BY <1>3, <3>1
    <3>3. /\ Left(run[k]) \in Nat /\ Copies(items, run[k]) \in Nat /\ Copies(out, run[k]) \in Nat
          /\ Copies(taken', run[k]) = Copies(items, run[k]) + Left(run[k]) + Copies(out, run[k])
      BY <1>1, <3>1, HeldType, CopiesType DEF Sequenced
    <3>4. Copies(taken', run[k]) > 0
      BY <3>2, <3>3
    <3>5. PICK i \in DOMAIN taken' : taken'[i] = run[k]
      BY <3>4, CopiesFound
    <3>6. QED
      BY <2>4, <3>5
  <2>8. QED
    BY <1>1, <2>1, <2>6, <2>7 DEF SInv, Writing, Silent, Nameless
<1>9. QED
  BY <1>7, <1>8

\* ... or at a failure of the file.
LEMMA BrokenInv ==
  ASSUME SInv, phase = "memory", NEW items \in Seq(Items), items # <<>>, BrokenOff(items),
         taken' \in Seq(Items), UNCHANGED <<heads, open, max, out>>
  PROVE  SInv'
<1>1. Sequenced /\ Writing
  BY DEF SInv
<1>2. PICK run \in Orders(items), n \in 0 .. Len(items) - 1 :
        files' = Append(files, SubSeq(run, 1, n)) /\ mem' = items /\ phase' = "broken"
  BY DEF BrokenOff
<1>3. run \in Seq(Items) /\ Len(run) = Len(items) /\ Descending(run)
  BY CopiesOrdered DEF Descending
<1>4. PICK l \in Nat : l = Len(run) /\ n \in 0 .. l /\ n \in Nat
  BY <1>3, LenProperties
<1>5. PICK part : part = SubSeq(run, 1, n)
  OBVIOUS
<1>6. /\ part \in Seq(Items) /\ Len(part) = n
      /\ \A i \in 1 .. n : part[i] = run[i]
  BY <1>3, <1>4, <1>5, Fore
<1>7. Descending(part)
  <2>1. ASSUME NEW i \in 1 .. n - 1 PROVE part[i].rank >= part[i + 1].rank
    <3>1. i \in 1 .. n /\ i + 1 \in 1 .. n /\ i \in 1 .. l - 1
      BY <1>4
    <3>2. run[i].rank >= run[i + 1].rank
      BY <1>3, <1>4, <3>1 DEF Descending
    <3>3. QED
      BY <1>6, <3>1, <3>2
  <2>2. QED
    BY <1>6, <2>1 DEF Descending
<1>8. /\ files \in Seq(Seq(Items)) /\ \A i \in DOMAIN files : Descending(files[i])
      /\ files' = Append(files, part)
  BY <1>1, <1>2, <1>5 DEF Sequenced
<1>9. files' \in Seq(Seq(Items)) /\ \A i \in DOMAIN files' : Descending(files'[i])
  <2>1. /\ files' \in Seq(Seq(Items)) /\ Len(files') = Len(files) + 1 /\ Len(files) \in Nat
        /\ \A i \in 1 .. Len(files) : files'[i] = files[i]
        /\ files'[Len(files) + 1] = part
    BY <1>6, <1>8, AppendProperties, LenProperties
  <2>2. DOMAIN files' = 1 .. Len(files') /\ DOMAIN files = 1 .. Len(files)
    BY <1>8, <2>1, LenProperties
  <2>3. ASSUME NEW i \in DOMAIN files' PROVE files'[i] = part \/ (i \in DOMAIN files /\ files'[i] = files[i])
    BY <2>1, <2>2
  <2>4. QED
    BY <1>7, <1>8, <2>1, <2>3
<1>10. Sequenced' /\ out' = <<>> /\ phase' = "broken"
  BY <1>1, <1>2, <1>9 DEF Sequenced, Writing
<1>11. QED
  BY <1>10 DEF SInv, Silent

LEMMA TakeInv == ASSUME SInv, NEW item \in Items, TakeItem(item) PROVE SInv'
<1>1. /\ phase = "memory" /\ Sequenced /\ Writing /\ Accounted
      /\ taken \in Seq(Items) /\ mem \in Seq(Items) /\ out \in Seq(Items)
  BY DEF SInv, TakeItem, Sequenced
<1>2. taken' = Append(taken, item) /\ UNCHANGED <<heads, open, max, out>>
  BY DEF TakeItem
<1>3. taken' \in Seq(Items)
  BY <1>1, <1>2, TakenMore
<1>4. PICK more \in Seq(Items) : more = Append(mem, item) /\ more # <<>>
  BY <1>1, AppendProperties, EmptySeq
<1>5. ASSUME NEW x \in Items
      PROVE  Copies(taken', x) = Copies(more, x) + Left(x) + Copies(out, x)
  <2>1. PICK e \in {0, 1} : Copies(taken', x) = Copies(taken, x) + e /\ Copies(more, x) = Copies(mem, x) + e
    BY <1>1, <1>2, <1>4, CopiesAppend
  <2>2. Copies(taken, x) = Copies(mem, x) + Left(x) + Copies(out, x)
    BY <1>1 DEF Accounted
  <2>3. Left(x) \in Nat /\ Copies(mem, x) \in Nat /\ Copies(out, x) \in Nat
    BY <1>1, HeldType, CopiesType
  <2>4. QED
    BY <2>1, <2>2, <2>3
<1>6. CASE WriteRun(more)
  BY <1>1, <1>2, <1>3, <1>4, <1>5, <1>6, RunInv, BrokenInv DEF WriteRun
<1>7. CASE mem' = more /\ UNCHANGED <<phase, files>>
  <2>1. Sequenced' /\ Writing'
    BY <1>1, <1>2, <1>3, <1>7 DEF Sequenced, Writing
  <2>2. Accounted'
    <3>1. \A x : Left(x)' = Left(x)
      BY <1>2, <1>7 DEF Left, Held
    <3>2. QED
      BY <1>2, <1>5, <1>7, <3>1 DEF Accounted
  <2>3. QED
    BY <1>1, <1>7, <2>1, <2>2 DEF SInv
<1>8. QED
  BY <1>4, <1>6, <1>7 DEF TakeItem

LEMMA LastInv == ASSUME SInv, LastRun PROVE SInv'
<1>1. /\ phase = "memory" /\ Accounted /\ mem \in Seq(Items) /\ taken \in Seq(Items)
      /\ mem # <<>> /\ WriteRun(mem) /\ UNCHANGED <<taken, heads, open, max, out>>
  BY DEF SInv, LastRun, Sequenced
<1>2. QED
  BY <1>1, RunInv, BrokenInv DEF Accounted, WriteRun

\* What Head and Tail leave of a file that descends.
LEMMA TailDescends ==
  ASSUME NEW s \in Seq(Items), s # <<>>, Descending(s)
  PROVE  /\ Head(s) = s[1] /\ s[1] \in Items /\ Tail(s) \in Seq(Items) /\ Descending(Tail(s))
         /\ Tail(s) # <<>> => s[1].rank >= Tail(s)[1].rank
<1> DEFINE t == Tail(s)
<1>1. PICK n, k \in Nat : n = Len(s) /\ n = k + 1
  <2>1. Len(s) \in Nat /\ Len(s) # 0
    BY LenProperties, EmptySeq
  <2>2. PICK n \in Nat : n = Len(s) /\ n # 0
    BY <2>1
  <2>3. n - 1 \in Nat /\ n = (n - 1) + 1
    BY ONLY <2>2
  <2>4. QED
    BY <2>2, <2>3
<1>2. /\ Head(s) = s[1] /\ Head(s) \in Items /\ t \in Seq(Items) /\ Len(t) = Len(s) - 1
      /\ \A i \in 1 .. Len(t) : t[i] = s[i + 1]
  BY HeadTailProperties
<1> HIDE DEF t
<1>3. Len(t) = k /\ \A i \in 1 .. k : t[i] = s[i + 1] /\ s[i].rank >= s[i + 1].rank
  <2>1. PICK m : m = Len(s)
    OBVIOUS
  <2>2. m - 1 = k
    <3>1. m = k + 1 /\ k \in Nat
      BY <1>1, <2>1
    <3>2. QED
      BY ONLY <3>1
  <2>3. Len(t) = m - 1 /\ (\A i \in 1 .. Len(t) : t[i] = s[i + 1])
        /\ \A i \in 1 .. m - 1 : s[i].rank >= s[i + 1].rank
    BY <1>2, <2>1 DEF Descending
  <2>4. QED
    BY ONLY <2>2, <2>3
<1>4. Descending(t)
  <2>1. ASSUME NEW i \in 1 .. k - 1 PROVE t[i].rank >= t[i + 1].rank
    <3>1. i \in 1 .. k /\ i + 1 \in 1 .. k
      OBVIOUS
    <3>2. t[i] = s[i + 1] /\ t[i + 1] = s[(i + 1) + 1] /\ s[i + 1].rank >= s[(i + 1) + 1].rank
      BY <1>3, <3>1
    <3>3. QED
      BY <3>2
  <2>2. QED
    BY <1>3, <2>1 DEF Descending
<1>5. ASSUME t # <<>> PROVE s[1].rank >= t[1].rank
  <2>1. k # 0
    BY <1>2, <1>3, <1>5, EmptySeq
  <2>2. 1 \in 1 .. k /\ 1 + 1 = 2
    BY <2>1
  <2>3. QED
    BY <1>3, <2>2
<1>6. QED
  BY <1>2, <1>4, <1>5 DEF t

\* A sequence of as many files.
LEMMA SameFiles ==
  ASSUME files \in Seq(Seq(Items)), NEW g, DOMAIN g = DOMAIN files, g = [i \in DOMAIN files |-> g[i]],
         \A i \in DOMAIN files : g[i] \in Seq(Items)
  PROVE  g \in Seq(Seq(Items))
<1>1. DOMAIN files = 1 .. Len(files) /\ Len(files) \in Nat
  BY LenProperties
<1>2. g \in [1 .. Len(files) -> Seq(Items)]
  BY <1>1
<1>3. QED
  BY <1>1, <1>2, SeqDef

LEMMA OpenInv == ASSUME SInv, MergeOpen PROVE SInv'
<1>1. /\ phase = "memory" /\ mem = <<>> /\ files # <<>> /\ phase' = "merge"
      /\ heads' = [i \in DOMAIN files |-> files[i][1]] /\ files' = [i \in DOMAIN files |-> Tail(files[i])]
      /\ open' = DOMAIN files /\ max' = [index |-> 1, rank |-> files[1][1].rank]
      /\ UNCHANGED <<taken, mem, out>>
  BY DEF MergeOpen
<1>2. Sequenced /\ Writing /\ Accounted
  BY <1>1 DEF SInv
<1>3. ASSUME NEW i \in DOMAIN files
      PROVE  /\ files[i] \in Seq(Items) /\ files[i] # <<>> /\ files[i][1] \in Items
             /\ files'[i] = Tail(files[i]) /\ files'[i] \in Seq(Items) /\ Descending(files'[i])
             /\ files'[i] # <<>> => files[i][1].rank >= files'[i][1].rank
             /\ heads'[i] = files[i][1]
  <2>1. files[i] \in Seq(Items) /\ files[i] # <<>> /\ Descending(files[i])
    BY <1>2, HeldType DEF Sequenced, Writing
  <2>2. files'[i] = Tail(files[i]) /\ heads'[i] = files[i][1]
    BY <1>1
  <2>3. QED
    BY <2>1, <2>2, TailDescends
<1>4. 1 \in DOMAIN files
  <2>1. DOMAIN files = 1 .. Len(files) /\ Len(files) \in Nat /\ files \in Seq(Seq(Items))
    BY <1>2, HeldType DEF Sequenced
  <2>2. Len(files) # 0
    BY <1>1, <2>1, EmptySeq
  <2>3. QED
    BY <2>1, <2>2
<1>5. DOMAIN files' = DOMAIN files
  BY <1>1
<1>6. Sequenced'
  <2>1. files' \in Seq(Seq(Items))
    BY <1>1, <1>2, <1>3, SameFiles DEF Sequenced
  <2>2. QED
    BY <1>1, <1>2, <1>3, <1>5, <2>1 DEF Sequenced
<1>7. Merging'
  <2>1. heads' \in [DOMAIN files' -> Items]
    BY <1>1, <1>3, <1>5
  <2>2. QED
    BY <1>1, <1>3, <1>5, <2>1 DEF Merging
<1>8. Delivered'
  <2>1. out' = <<>> /\ Len(out') = 0
    BY <1>1, <1>2, EmptySeq DEF Writing
  <2>2. QED
    BY <2>1 DEF Delivered, Descending
<1>9. max'.index \in open' /\ max'.rank = heads'[max'.index].rank
  BY <1>1, <1>3, <1>4
<1>10. Accounted'
  <2>1. ASSUME NEW x \in Items PROVE Left(x)' = Left(x)
    <3>1. ASSUME NEW i \in DOMAIN files PROVE Held(x)[i] = Held(x)'[i]
      <4>1. Copies(files[i], x) = Copies(files'[i], x) + (IF files[i][1] = x THEN 1 ELSE 0)
        <5>1. files[i] \in Seq(Items) /\ files[i] # <<>> /\ files'[i] = Tail(files[i])
          BY <1>3
        <5>2. Copies(files[i], x) = Copies(Tail(files[i]), x) + (IF files[i][1] = x THEN 1 ELSE 0)
          BY ONLY <5>1, CopiesTail
        <5>3. QED
          BY <5>1, <5>2
      <4>2. Held(x)'[i] = Copies(files'[i], x) + (IF heads'[i] = x THEN 1 ELSE 0)
        BY <1>1, <1>5 DEF Held
      <4>3. Held(x)[i] = Copies(files[i], x) + 0
        BY <1>2 DEF Held, Writing
      <4>4. Copies(files[i], x) \in Nat
        BY <1>3, CopiesType
      <4>5. QED
        BY <1>3, <4>1, <4>2, <4>3, <4>4
    <3>2. IsFiniteSet(DOMAIN files)
      BY <1>2, HeldType
    <3>3. QED
      BY <1>5, <3>1, <3>2, SumAgrees DEF Left
  <2>2. QED
    BY <1>1, <1>2, <2>1 DEF Accounted
<1>11. QED
  BY <1>1, <1>6, <1>7, <1>8, <1>9, <1>10 DEF SInv

\* Of finitely many places one has the greatest number.
LEMMA Greatest ==
  ASSUME NEW S, IsFiniteSet(S), S # {}, NEW f, \A i \in S : f[i] \in Int
  PROVE  \E i \in S : \A j \in S : f[j] <= f[i]
<1> DEFINE P == {s \in SUBSET S : s # {} => \E i \in s : \A j \in s : f[j] <= f[i]}
<1>1. {} \in P
  OBVIOUS
<1>2. ASSUME NEW s \in SUBSET S, NEW x \in s, s \ {x} \in P PROVE s \in P
  <2>1. CASE s \ {x} = {}
    <3>1. s = {x} /\ f[x] \in Int
      BY <2>1
    <3>2. \A j \in s : f[j] <= f[x]
      BY <3>1
    <3>3. QED
      BY <3>2
  <2>2. CASE s \ {x} # {}
    <3>1. PICK i \in s \ {x} : \A j \in s \ {x} : f[j] <= f[i]
      BY <1>2, <2>2
    <3>2. \A j \in s : f[j] \in Int
      OBVIOUS
    <3>3. CASE f[x] <= f[i]
      <4>1. \A j \in s : f[j] <= f[i]
        BY <3>1, <3>3
      <4>2. QED
        BY <4>1
    <3>4. CASE ~(f[x] <= f[i])
      <4>1. \A j \in s : f[j] <= f[x]
        BY <3>1, <3>2, <3>4
      <4>2. QED
        BY <4>1
    <3>5. QED
      BY <3>3, <3>4
  <2>3. QED
    BY <2>1, <2>2
<1>3. P \in SUBSET SUBSET S
  OBVIOUS
<1> HIDE DEF P
<1>4. P = SUBSET S
  BY <1>1, <1>2, <1>3, FromEmpty
<1>5. S \in P
  BY <1>4
<1>6. QED
  BY <1>5 DEF P

LEMMA Least ==
  ASSUME NEW T \in SUBSET Nat, T # {}
  PROVE  Min(T) \in T
<1>1. PICK m \in T : \A k \in T : m <= k
  BY LeastNat
<1>2. QED
  BY <1>1 DEF Min

\* What the scan finds is open, and no head is above it.
LEMMA BestHighest ==
  ASSUME SInv, phase = "merge", Ranks \subseteq Int
  PROVE  Best \in open /\ \A j \in open : heads[j].rank \in Int /\ heads[j].rank <= heads[Best].rank
<1> DEFINE f == [i \in open |-> heads[i].rank]
           T == {i \in Higher : \A j \in Higher : f[j] <= f[i]}
<1>1. Merging /\ Sequenced /\ max.index \in open /\ max.rank = heads[max.index].rank
  BY DEF SInv
<1>2. open \subseteq DOMAIN files /\ IsFiniteSet(open) /\ open \subseteq Nat
  <2>1. open \subseteq DOMAIN files
    BY <1>1 DEF Merging
  <2>2. IsFiniteSet(DOMAIN files) /\ DOMAIN files \subseteq Nat
    <3>1. IsFiniteSet(DOMAIN files) /\ DOMAIN files = 1 .. Len(files) /\ Len(files) \in Nat
      BY <1>1, HeldType
    <3>2. QED
      BY <3>1
  <2>3. QED
    BY <2>1, <2>2, FS_Subset
<1>3. \A i \in open : f[i] = heads[i].rank /\ f[i] \in Int
  <2>1. ASSUME NEW i \in open PROVE heads[i].rank \in Int
    <3>1. heads[i] \in Items
      BY <1>1, <1>2 DEF Merging
    <3>2. QED
      BY <3>1 DEF Items
  <2>2. QED
    BY <2>1
<1>4. \A i \in open : i \in Higher <=> f[i] > f[max.index]
  BY <1>1, <1>3 DEF Higher
<1>5. Higher \subseteq open
  BY DEF Higher
<1>6. Best = IF Higher = {} THEN max.index ELSE Min(T)
  <2>1. {i \in Higher : \A j \in Higher : heads[j].rank <= heads[i].rank} = T
    BY <1>3, <1>5
  <2>2. QED
    BY <2>1 DEF Best
<1> HIDE DEF f
<1>7. Best \in open /\ \A j \in open : f[j] <= f[Best]
  <2>1. CASE Higher = {}
    BY <1>1, <1>3, <1>4, <1>6, <2>1
  <2>2. CASE Higher # {}
    <3>1. IsFiniteSet(Higher) /\ \A i \in Higher : f[i] \in Int
      BY <1>2, <1>3, <1>5, FS_Subset
    <3>2. T # {}
      <4>1. \E i \in Higher : \A j \in Higher : f[j] <= f[i]
        BY <2>2, <3>1, Greatest
      <4>2. QED
        BY <4>1
    <3>3. Min(T) \in T
      <4>1. T \in SUBSET Nat
        BY <1>2, <1>5
      <4>2. QED
        BY <3>2, <4>1, Least
    <3>4. Best \in Higher /\ \A j \in Higher : f[j] <= f[Best]
      BY <1>6, <2>2, <3>3
    <3>5. \A j \in open \ Higher : f[j] <= f[max.index] /\ f[max.index] < f[Best]
      BY <1>1, <1>3, <1>4, <1>5, <3>4
    <3>6. QED
      BY <1>1, <1>3, <1>5, <3>4, <3>5
  <2>3. QED
    BY <2>1, <2>2
<1>8. QED
  BY <1>3, <1>7

\* What the step takes from a file is what it delivers.
LEMMA LeftTaken ==
  ASSUME Sequenced, NEW b \in DOMAIN files, DOMAIN files' = DOMAIN files, NEW x,
         \A i \in DOMAIN files \ {b} : files'[i] = files[i] /\ heads'[i] = heads[i]
                                       /\ (i \in open' <=> i \in open),
         Held(x)[b] = Held(x)'[b] + (IF heads[b] = x THEN 1 ELSE 0), Held(x)'[b] \in Int
  PROVE  Left(x) = Left(x)' + (IF heads[b] = x THEN 1 ELSE 0)
<1> DEFINE D == DOMAIN files
<1>1. PICK f, g, e : f = Held(x)' /\ g = Held(x) /\ e = IF heads[b] = x THEN 1 ELSE 0
  OBVIOUS
<1>2. IsFiniteSet(D) /\ e \in Int /\ (\A i \in D : g[i] \in Int) /\ g[b] = f[b] + e
  BY <1>1, HeldType
<1>3. \A i \in D \ {b} : g[i] = f[i]
  BY <1>1 DEF Held
<1>4. \A i \in D : f[i] \in Int
  BY <1>1, <1>2, <1>3
<1> HIDE DEF D
<1>5. SumFunctionOnSet(g, D) = SumFunctionOnSet(f, D) + e
  <2>1. b \in D
    BY DEF D
  <2>2. SumFunctionOnSet(g, D) = SumFunctionOnSet(f, D) + (IF b \in D THEN e ELSE 0)
    BY ONLY <1>2, <1>3, <1>4, <2>1, SumGrows
  <2>3. QED
    BY <2>1, <2>2
<1>6. QED
  BY <1>1, <1>5 DEF Left, D

\* What is delivered still descends.
LEMMA MoreDelivered ==
  ASSUME out \in Seq(Items), Descending(out), NEW y \in Items, out' = Append(out, y),
         out # <<>> => out[Len(out)].rank >= y.rank
  PROVE  out' \in Seq(Items) /\ out' # <<>> /\ out'[Len(out')] = y /\ Descending(out')
<1>1. PICK n \in Nat : n = Len(out)
  BY LenProperties
<1>2. /\ out' \in Seq(Items) /\ Len(out') = n + 1 /\ out'[n + 1] = y
      /\ \A i \in 1 .. n : out'[i] = out[i]
  BY <1>1, AppendProperties
<1>3. out' # <<>> /\ out'[Len(out')] = y
  <2>1. n + 1 # 0
    OBVIOUS
  <2>2. QED
    BY <1>2, <2>1, EmptySeq
<1>4. ASSUME NEW i \in 1 .. n PROVE out'[i].rank >= out'[i + 1].rank
  <2>1. CASE i = n
    <3>1. out # <<>>
      BY <1>1, EmptySeq
    <3>2. QED
      BY <1>1, <1>2, <2>1, <3>1
  <2>2. CASE i # n
    <3>1. i \in 1 .. n - 1 /\ i \in 1 .. n /\ i + 1 \in 1 .. n
      BY <2>2
    <3>2. out[i].rank >= out[i + 1].rank
      BY <1>1, <3>1 DEF Descending
    <3>3. QED
      BY <1>2, <3>1, <3>2
  <2>3. QED
    BY <2>1, <2>2
<1>5. Descending(out')
  <2>1. Len(out') - 1 = n
    <3>1. PICK m : m = Len(out')
      OBVIOUS
    <3>2. m - 1 = n
      <4>1. m = n + 1 /\ n \in Nat
        BY <1>2, <3>1
      <4>2. QED
        BY ONLY <4>1
    <3>3. QED
      BY <3>1, <3>2
  <2>2. QED
    BY <1>4, <2>1 DEF Descending
<1>6. QED
  BY <1>2, <1>3, <1>5

LEMMA MergeInv == ASSUME SInv, Ranks \subseteq Int, MergeStep PROVE SInv'
<1> DEFINE b == Best
           rest == open \ {b}
<1>1. /\ phase = "merge" /\ out' = Append(out, heads[b]) /\ UNCHANGED <<taken, mem>>
      /\ IF files[b] # <<>>
         THEN /\ heads' = [heads EXCEPT ![b] = Head(files[b])]
              /\ files' = [files EXCEPT ![b] = Tail(@)]
              /\ max' = [index |-> b, rank |-> Head(files[b]).rank]
              /\ UNCHANGED <<open, phase>>
         ELSE /\ open' = rest
              /\ IF rest = {} THEN phase' = "done" /\ UNCHANGED max ELSE max' = Restart(rest) /\ UNCHANGED phase
              /\ UNCHANGED <<heads, files>>
  BY DEF MergeStep
<1>2. /\ Sequenced /\ Merging /\ Delivered /\ Accounted
      /\ taken \in Seq(Items) /\ mem \in Seq(Items) /\ out \in Seq(Items)
      /\ heads \in [DOMAIN files -> Items]
  BY <1>1 DEF SInv, Sequenced, Merging
<1>3. /\ b \in open /\ b \in DOMAIN files /\ heads[b] \in Items
      /\ \A j \in open : heads[j].rank \in Int /\ heads[j].rank <= heads[b].rank
  BY <1>1, <1>2, BestHighest DEF Merging
<1> HIDE DEF b
<1>4. /\ out' \in Seq(Items) /\ out' # <<>> /\ out'[Len(out')] = heads[b] /\ Descending(out')
      /\ \A x : Copies(out', x) = Copies(out, x) + (IF heads[b] = x THEN 1 ELSE 0)
  <2>1. Descending(out) /\ (out # <<>> => out[Len(out)].rank >= heads[b].rank)
    BY <1>2, <1>3 DEF Delivered
  <2>2. QED
    BY <1>1, <1>2, <1>3, <2>1, MoreDelivered, CopiesAppend
\* The copies add up when what is left has lost the one that is delivered.
<1>5. ASSUME \A x \in Items : Left(x) = Left(x)' + (IF heads[b] = x THEN 1 ELSE 0),
             \A x \in Items : Left(x)' \in Nat
      PROVE  Accounted'
  <2>1. SUFFICES ASSUME NEW x \in Items
                 PROVE  Copies(taken, x) = Copies(mem, x) + Left(x)' + Copies(out', x)
    BY <1>1 DEF Accounted
  <2>2. PICK e \in {0, 1} : Left(x) = Left(x)' + e /\ Copies(out', x) = Copies(out, x) + e
    BY <1>4, <1>5
  <2>3. Copies(taken, x) = Copies(mem, x) + Left(x) + Copies(out, x)
    BY <1>2 DEF Accounted
  <2>4. Copies(mem, x) \in Nat /\ Copies(out, x) \in Nat /\ Left(x)' \in Nat
    BY <1>2, <1>5, CopiesType
  <2>5. QED
    BY <2>2, <2>3, <2>4
<1>6. CASE files[b] # <<>>
  <2>1. /\ heads' = [heads EXCEPT ![b] = Head(files[b])] /\ files' = [files EXCEPT ![b] = Tail(@)]
        /\ max' = [index |-> b, rank |-> Head(files[b]).rank] /\ UNCHANGED <<open, phase>>
    BY <1>1, <1>6
  <2>2. /\ files[b] \in Seq(Items) /\ Head(files[b]) = files[b][1] /\ files[b][1] \in Items
        /\ Tail(files[b]) \in Seq(Items) /\ Descending(Tail(files[b]))
        /\ Tail(files[b]) # <<>> => files[b][1].rank >= Tail(files[b])[1].rank
    <3>1. files[b] \in Seq(Items) /\ Descending(files[b])
      BY <1>2, <1>3, HeldType DEF Sequenced
    <3>2. QED
      BY <1>6, <3>1, TailDescends
  <2>3. /\ DOMAIN files' = DOMAIN files /\ files'[b] = Tail(files[b]) /\ heads'[b] = files[b][1]
        /\ heads' \in [DOMAIN files -> Items] /\ heads[b].rank >= heads'[b].rank
        /\ \A i \in DOMAIN files \ {b} : files'[i] = files[i] /\ heads'[i] = heads[i]
    <3>1. heads[b].rank >= files[b][1].rank
      BY <1>2, <1>3, <1>6 DEF Merging
    <3>2. DOMAIN heads = DOMAIN files
      BY <1>2
    <3>3. QED
      BY <1>2, <1>3, <2>1, <2>2, <3>1, <3>2
  <2>4. Sequenced'
    <3>1. \A i \in DOMAIN files : files'[i] \in Seq(Items) /\ Descending(files'[i])
      BY <1>2, <2>2, <2>3, HeldType DEF Sequenced
    <3>2. files' = [i \in DOMAIN files |-> files'[i]]
      BY <2>1
    <3>3. files' \in Seq(Seq(Items))
      BY <1>2, <2>3, <3>1, <3>2, SameFiles DEF Sequenced
    <3>4. QED
      BY <1>1, <1>2, <1>4, <2>1, <2>3, <3>1, <3>3 DEF Sequenced
  <2>5. Merging'
    BY <1>1, <1>2, <1>3, <2>1, <2>2, <2>3 DEF Merging
  <2>6. Delivered'
    <3>1. ASSUME NEW i \in open' PROVE heads[b].rank >= heads'[i].rank
      <4>1. i \in open /\ i \in DOMAIN files
        BY <1>2, <2>1 DEF Merging
      <4>2. i # b => heads[b].rank >= heads[i].rank /\ heads'[i] = heads[i]
        BY <1>3, <2>3, <4>1, <1>2
      <4>3. QED
        BY <2>3, <4>2
    <3>2. QED
      BY <1>4, <3>1 DEF Delivered
  <2>7. Accounted'
    <3>1. ASSUME NEW x \in Items PROVE Left(x) = Left(x)' + (IF heads[b] = x THEN 1 ELSE 0)
      <4>1. Copies(files[b], x) = Copies(files'[b], x) + (IF heads'[b] = x THEN 1 ELSE 0)
        BY <1>6, <2>2, <2>3, CopiesTail
      <4>2. Held(x)[b] = Copies(files[b], x) + (IF heads[b] = x THEN 1 ELSE 0)
        BY <1>3 DEF Held
      <4>3. Held(x)'[b] = Copies(files'[b], x) + (IF heads'[b] = x THEN 1 ELSE 0)
        BY <1>3, <2>1, <2>3 DEF Held
      <4>4. Copies(files'[b], x) \in Nat
        BY <2>2, <2>3, CopiesType
      <4>5. Held(x)[b] = Held(x)'[b] + (IF heads[b] = x THEN 1 ELSE 0) /\ Held(x)'[b] \in Int
        BY <4>1, <4>2, <4>3, <4>4
      <4>6. \A i \in DOMAIN files \ {b} : files'[i] = files[i] /\ heads'[i] = heads[i] /\ (i \in open' <=> i \in open)
        BY <2>1, <2>3
      <4>7. QED
        BY <1>2, <1>3, <2>3, <4>5, <4>6, LeftTaken
    <3>2. ASSUME NEW x \in Items PROVE Left(x)' \in Nat
      BY <2>4, HeldNext
    <3>3. QED
      BY <1>5, <3>1, <3>2
  <2>8. max'.index \in open' /\ max'.rank = heads'[max'.index].rank
    BY <1>3, <2>1, <2>2, <2>3
  <2>9. QED
    BY <1>1, <2>1, <2>4, <2>5, <2>6, <2>7, <2>8 DEF SInv
<1>7. CASE files[b] = <<>>
  <2>1. /\ open' = rest /\ UNCHANGED <<heads, files>>
        /\ IF rest = {} THEN phase' = "done" /\ UNCHANGED max ELSE max' = Restart(rest) /\ UNCHANGED phase
    BY <1>1, <1>7
  <2>2. Sequenced'
    BY <1>1, <1>2, <1>4, <2>1 DEF Sequenced
  <2>3. Merging'
    BY <1>1, <1>2, <1>7, <2>1 DEF Merging
  <2>4. Delivered'
    BY <1>3, <1>4, <2>1 DEF Delivered
  <2>5. Accounted'
    <3>1. ASSUME NEW x \in Items PROVE Left(x) = Left(x)' + (IF heads[b] = x THEN 1 ELSE 0)
      <4>1. Held(x)[b] = Copies(files[b], x) + (IF heads[b] = x THEN 1 ELSE 0)
        BY <1>3 DEF Held
      <4>2. Held(x)'[b] = Copies(files[b], x) + 0
        BY <1>3, <2>1 DEF Held
      <4>3. Copies(files[b], x) \in Nat
        BY <1>2, <1>3, HeldType, CopiesType
      <4>4. Held(x)[b] = Held(x)'[b] + (IF heads[b] = x THEN 1 ELSE 0) /\ Held(x)'[b] \in Int
        BY <4>1, <4>2, <4>3
      <4>5. /\ DOMAIN files' = DOMAIN files
            /\ \A i \in DOMAIN files \ {b} : files'[i] = files[i] /\ heads'[i] = heads[i] /\ (i \in open' <=> i \in open)
        BY <2>1
      <4>6. QED
        BY <1>2, <1>3, <4>4, <4>5, LeftTaken
    <3>2. ASSUME NEW x \in Items PROVE Left(x)' \in Nat
      BY <2>2, HeldNext
    <3>3. QED
      BY <1>5, <3>1, <3>2
  <2>6. rest # {} => max'.index \in open' /\ max'.rank = heads'[max'.index].rank
    <3>1. rest \in SUBSET Nat
      <4>1. rest \subseteq DOMAIN files
        BY <1>2 DEF Merging
      <4>2. DOMAIN files = 1 .. Len(files)
        BY <1>2, HeldType
      <4>3. QED
        BY <4>1, <4>2
    <3>2. rest # {} => Min(rest) \in rest
      BY <3>1, Least
    <3>3. QED
      BY <2>1, <3>2 DEF Restart
  <2>7. phase' \in {"merge", "done"} /\ (phase' = "done" <=> rest = {})
    BY <1>1, <2>1
  <2>8. QED
    BY <2>1, <2>2, <2>3, <2>4, <2>5, <2>6, <2>7 DEF SInv
<1>8. QED
  BY <1>6, <1>7

LEMMA InitSInv == Init => SInv
<1> SUFFICES ASSUME Init PROVE SInv
  OBVIOUS
<1>1. /\ phase = "memory" /\ taken = <<>> /\ mem = <<>> /\ files = <<>> /\ out = <<>> /\ open = {}
      /\ DOMAIN files = {}
  BY DEF Init
<1>2. Sequenced
  <2>1. <<>> \in Seq(Items) /\ <<>> \in Seq(Seq(Items))
    BY EmptySeq
  <2>2. QED
    BY <1>1, <2>1 DEF Sequenced
<1>3. Writing
  BY <1>1 DEF Writing
<1>4. Accounted
  <2>1. ASSUME NEW x \in Items PROVE Copies(taken, x) = Copies(mem, x) + Left(x) + Copies(out, x)
    <3>1. Copies(<<>>, x) = 0
      <4>1. <<>> \in Seq(Items)
        BY EmptySeq
      <4>2. QED
        BY <4>1, CopiesType
    <3>2. Left(x) = 0
      BY <1>1, SumEmpty DEF Left
    <3>3. QED
      BY <1>1, <3>1, <3>2
  <2>2. QED
    BY <2>1 DEF Accounted
<1>5. QED
  BY <1>1, <1>2, <1>3, <1>4 DEF SInv

LEMMA StepSInv == ASSUME Ranks \subseteq Int PROVE SInv /\ [Next]_sortVars => SInv'
<1> SUFFICES ASSUME SInv, [Next]_sortVars PROVE SInv'
  OBVIOUS
<1>1. CASE \E item \in Items : TakeItem(item)
  BY <1>1, TakeInv
<1>2. CASE LastRun
  BY <1>2, LastInv
<1>3. CASE MergeOpen
  BY <1>3, OpenInv
<1>4. CASE MergeStep
  BY <1>4, MergeInv
<1>5. CASE UNCHANGED sortVars
  BY Zenon, <1>5 DEF sortVars, SInv, Sequenced, Writing, Merging, Delivered, Accounted, Left, Held, Silent, Nameless
<1>6. QED
  BY <1>1, <1>2, <1>3, <1>4, <1>5 DEF Next

\* What the invariant says of the sort when it is done.
LEMMA SInvSorts == SInv => Sorts
<1> SUFFICES ASSUME SInv PROVE Sorts
  OBVIOUS
<1>1. Descending(out)
  <2>1. Descending(<<>>)
    <3>1. Len(<<>>) = 0
      OBVIOUS
    <3>2. QED
      BY <3>1 DEF Descending
  <2>2. QED
    BY <2>1 DEF SInv, Sequenced, Writing, Delivered, Silent
<1>2. ASSUME phase = "done", NEW x \in Items PROVE Copies(out, x) = Copies(taken, x)
  <2>1. Sequenced /\ Merging /\ Accounted /\ open = {} /\ mem = <<>> /\ \A i \in DOMAIN files : files[i] = <<>>
    BY <1>2 DEF SInv, Merging
  <2>2. Copies(<<>>, x) = 0 /\ Copies(out, x) \in Nat
    BY <2>1, EmptySeq, CopiesType DEF Sequenced
  <2>3. Left(x) = 0
    <3>1. \A i \in DOMAIN files : Held(x)[i] = 0
      BY <2>1, <2>2 DEF Held
    <3>2. QED
      BY <2>1, <3>1, HeldType, SumZero DEF Left
  <2>4. QED
    BY <2>1, <2>2, <2>3 DEF Accounted
<1>3. phase = "failed" => \E i \in DOMAIN taken : taken[i].name = ""
  BY Zenon DEF SInv, Nameless
<1>4. phase \in {"failed", "broken"} => out = <<>>
  BY DEF SInv, Silent
<1>5. QED
  BY Zenon, <1>1, <1>2, <1>3, <1>4 DEF Sorts, Descending

\* The sort gives back every item as often as it took it, the highest rank first,
\* and fails only over an empty name or a file that cannot be written, before it
\* has given back anything: for every number of items, every length of a
\* run and every rank (CBaseExternSort::Sort).
THEOREM ItemsSorted == Spec => []Sorts
<1>1. Init => SInv
  BY InitSInv
<1>2. SInv /\ [Next]_sortVars => SInv'
  BY RanksAssumption, StepSInv
<1>3. SInv => Sorts
  BY SInvSorts
<1>4. QED
  BY <1>1, <1>2, <1>3, PTL DEF Spec

-----------------------------------------------------------------------------
(* Ticks *)

\* C's quotient and remainder: the remainder is on the side of the number.
OnSide(n, r, d) == (n >= 0 => r \in 0 .. d - 1) /\ (n <= 0 => r \in 1 - d .. 0)

LEMMA Truncated ==
  ASSUME NEW n \in Int, NEW d \in Nat \ {0}
  PROVE  /\ Quot(n, d) \in Int /\ Rem(n, d) \in Int
         /\ n = d * Quot(n, d) + Rem(n, d) /\ OnSide(n, Rem(n, d), d)
<1>1. CASE n >= 0
  <2>1. PICK q, r : q = n \div d /\ r = n % d
    OBVIOUS
  <2>2. q \in Int /\ r \in 0 .. d - 1 /\ n = d * q + r
    BY <2>1, Divided
  <2>3. Quot(n, d) = q /\ Rem(n, d) = n - d * q
    BY <1>1, <2>1 DEF Quot, Rem
  <2>4. n - d * q = r
    BY ONLY <2>2, n \in Int, d \in Nat \ {0}
  <2>5. n <= 0 => r = 0
    <3>1. SUFFICES ASSUME n = 0 PROVE r = 0
      BY <1>1
    <3>2. d * q + r = d * 0 + 0 /\ 0 \in 0 .. d - 1
      BY <2>2, <3>1
    <3>3. QED
      BY ONLY <2>2, <3>2, d \in Nat \ {0}, 0 \in Int, Unique
  <2>6. QED
    BY <1>1, <2>2, <2>3, <2>4, <2>5 DEF OnSide
<1>2. CASE n < 0
  <2>1. PICK q, r : q = (-n) \div d /\ r = (-n) % d
    OBVIOUS
  <2>2. q \in Int /\ r \in 0 .. d - 1 /\ -n = d * q + r
    BY <2>1, Divided
  <2>3. Quot(n, d) = -q /\ Rem(n, d) = n - d * (-q)
    BY <1>2, <2>1 DEF Quot, Rem
  <2>4. n - d * (-q) = -r
    BY ONLY <2>2, n \in Int, d \in Nat \ {0}
  <2>5. n = d * (-q) + (-r)
    BY ONLY <2>2, n \in Int, d \in Nat \ {0}
  <2>6. QED
    BY <1>2, <2>2, <2>3, <2>4, <2>5 DEF OnSide
<1>3. QED
  BY <1>1, <1>2

\* They are the only ones on that side.
LEMMA OneSide ==
  ASSUME NEW n \in Int, NEW d \in Nat \ {0}, NEW q \in Int, NEW p \in Int, NEW r \in Int, NEW s \in Int,
         n = d * q + r, n = d * p + s, OnSide(n, r, d), OnSide(n, s, d)
  PROVE  q = p /\ r = s
<1>1. CASE n >= 0
  <2>1. r \in 0 .. d - 1 /\ s \in 0 .. d - 1 /\ d * q + r = d * p + s
    BY <1>1 DEF OnSide
  <2>2. QED
    BY <2>1, Unique
<1>2. CASE n < 0
  <2>1. PICK qq, pp, rr, ss \in Int : qq = -q /\ pp = -p /\ rr = -r /\ ss = -s
    OBVIOUS
  <2>2. rr \in 0 .. d - 1 /\ ss \in 0 .. d - 1
    BY <1>2, <2>1 DEF OnSide
  <2>3. d * qq + rr = d * pp + ss
    BY <2>1
  <2>4. qq = pp /\ rr = ss
    BY ONLY <2>2, <2>3, qq \in Int, pp \in Int, d \in Nat \ {0}, Unique
  <2>5. QED
    BY <2>1, <2>4
<1>3. QED
  BY <1>1, <1>2

\* The remainder by a multiple leaves the remainder as it is.
LEMMA Through ==
  ASSUME NEW n \in Int, NEW h \in Nat \ {0}, NEW k \in Nat \ {0}, NEW d, d = k * h
  PROVE  Rem(Rem(n, d), h) = Rem(n, h) /\ Rem(n, d) = h * Quot(Rem(n, d), h) + Rem(n, h)
<1>1. d \in Nat \ {0}
  <2>1. d = k * h
    OBVIOUS
  <2>2. k * h \in Nat /\ k * h > 0
    BY ONLY k \in Nat \ {0}, h \in Nat \ {0}
  <2>3. QED
    BY <2>1, <2>2
<1>2. PICK q, r : q = Quot(n, d) /\ r = Rem(n, d)
  OBVIOUS
<1>3. q \in Int /\ r \in Int /\ n = d * q + r /\ OnSide(n, r, d)
  BY <1>1, <1>2, Truncated
<1>4. PICK v, s : v = Quot(r, h) /\ s = Rem(r, h)
  OBVIOUS
<1>5. v \in Int /\ s \in Int /\ r = h * v + s /\ OnSide(r, s, h)
  BY <1>3, <1>4, Truncated
<1>6. PICK p, t : p = Quot(n, h) /\ t = Rem(n, h)
  OBVIOUS
<1>7. p \in Int /\ t \in Int /\ n = h * p + t /\ OnSide(n, t, h)
  BY <1>6, Truncated
<1>8. PICK m \in Int : m = k * q + v
  BY <1>3, <1>5
<1>9. n = h * m + s
  <2>1. d * q = h * (k * q)
    <3>1. k \in Int /\ h \in Int /\ q \in Int
      BY <1>3
    <3>2. (k * h) * q = h * (k * q)
      BY ONLY <3>1
    <3>3. QED
      BY <3>2
  <2>2. h * m = h * (k * q) + h * v
    BY ONLY <1>8, <1>3, <1>5, k \in Nat \ {0}, h \in Nat \ {0}
  <2>3. QED
    BY <1>3, <1>5, <2>1, <2>2
<1>10. OnSide(n, s, h)
  <2>1. (n >= 0 => r >= 0) /\ (n <= 0 => r <= 0)
    BY <1>1, <1>3 DEF OnSide
  <2>2. QED
    BY <1>3, <1>5, <2>1 DEF OnSide
<1>11. s = t
  BY <1>5, <1>7, <1>8, <1>9, <1>10, OneSide
<1>12. QED
  BY <1>2, <1>4, <1>5, <1>6, <1>11

\* A number that divides another is a factor of it.
LEMMA Multiple ==
  ASSUME NEW d \in Nat \ {0}, NEW h \in Nat \ {0}, d % h = 0
  PROVE  \E k \in Nat \ {0} : d = k * h
<1>1. PICK q, r : q = d \div h /\ r = d % h
  OBVIOUS
<1>2. q \in Int /\ r = 0 /\ d = h * q + r
  BY <1>1, Divided
<1>3. PICK p \in Int : p = h * q
  BY <1>2
<1>4. p > 0
  BY <1>2, <1>3
<1>5. q > 0
  <2>1. SUFFICES ASSUME q <= 0 PROVE FALSE
    BY <1>2
  <2>2. h * q <= 0
    BY ONLY <2>1, <1>2, h \in Nat \ {0}
  <2>3. QED
    BY <1>3, <1>4, <2>2
<1>6. d = q * h
  BY ONLY <1>2, h \in Nat \ {0}
<1>7. QED
  BY <1>2, <1>5, <1>6

\* A number on the side of the seconds that is less than one of them.
LEMMA Normal ==
  ASSUME PerSecond \in Nat \ {0}, NEW a \in Int, NEW b \in Int
  PROVE  LET u == Tick(a, b)
         IN  /\ u = [sec |-> u.sec, usec |-> u.usec] /\ u.sec \in Int /\ u.usec \in Int
             /\ GetTotalMicroSeconds(u) = a * PerSecond + b /\ IsNormalized(u)
<1> DEFINE t == [sec |-> a, usec |-> b]
           u == Tick(a, b)
<1>1. PICK P \in Nat \ {0} : P = PerSecond
  OBVIOUS
<1>2. CASE IsNormalized(t)
  <2>1. u = t
    BY <1>2 DEF Tick, Normalize
  <2>2. QED
    BY <1>2, <2>1 DEF GetTotalMicroSeconds
<1>3. CASE ~IsNormalized(t)
  <2>1. PICK q, r \in Int : /\ q = Quot(b, PerSecond) /\ r = Rem(b, PerSecond)
                            /\ b = P * q + r /\ OnSide(b, r, P)
    BY <1>1, Truncated
  <2>2. PICK x \in Int : x = a + q
    OBVIOUS
  <2>3. u = Borrow([sec |-> x, usec |-> r])
    BY <1>3, <2>1, <2>2 DEF Tick, Normalize
  <2>4. r \in 1 - P .. P - 1
    BY <2>1 DEF OnSide
  <2>5. x * P + r = a * P + b
    <3>1. x * P = a * P + P * q
      BY ONLY <2>2, <2>1, a \in Int, P \in Nat \ {0}
    <3>2. QED
      BY <2>1, <3>1
  <2>6. CASE x > 0 /\ r < 0
    <3>1. u = [sec |-> x - 1, usec |-> r + P]
      BY <1>1, <2>3, <2>6 DEF Borrow
    <3>2. (x - 1) * P + (r + P) = x * P + r
      BY ONLY <2>1, <2>2, P \in Nat \ {0}
    <3>3. x - 1 >= 0 /\ r + P \in 0 .. P - 1
      BY <2>4, <2>6
    <3>4. QED
      BY <1>1, <2>5, <3>1, <3>2, <3>3 DEF GetTotalMicroSeconds, IsNormalized
  <2>7. CASE x < 0 /\ r > 0
    <3>1. u = [sec |-> x + 1, usec |-> r - P]
      BY <1>1, <2>3, <2>7 DEF Borrow
    <3>2. (x + 1) * P + (r - P) = x * P + r
      BY ONLY <2>1, <2>2, P \in Nat \ {0}
    <3>3. x + 1 <= 0 /\ r - P \in 1 - P .. 0
      BY <2>4, <2>7
    <3>4. QED
      BY <1>1, <2>5, <3>1, <3>2, <3>3 DEF GetTotalMicroSeconds, IsNormalized
  <2>8. CASE ~(x > 0 /\ r < 0) /\ ~(x < 0 /\ r > 0)
    <3>1. u = [sec |-> x, usec |-> r]
      BY <2>3, <2>8 DEF Borrow
    <3>2. (x >= 0 /\ r \in 0 .. P - 1) \/ (x <= 0 /\ r \in 1 - P .. 0)
      BY <2>4, <2>8
    <3>3. QED
      BY <1>1, <2>5, <3>1, <3>2 DEF GetTotalMicroSeconds, IsNormalized
  <2>9. QED
    BY <2>6, <2>7, <2>8
<1>4. QED
  BY <1>2, <1>3

\* Of two normalised ticks the one with fewer seconds is the earlier.
LEMMA Earlier ==
  ASSUME NEW P \in Nat \ {0}, PerSecond = P, NEW a \in Int, NEW b \in Int, NEW x \in Int, NEW y \in Int,
         IsNormalized([sec |-> a, usec |-> x]), IsNormalized([sec |-> b, usec |-> y]), a < b
  PROVE  a * P + x < b * P + y
<1>1. PICK p, q \in Int : p = P * a /\ q = P * b
  OBVIOUS
<1>2. p + P <= q
  BY <1>1, Times
<1>3. a * P = p /\ b * P = q
  BY <1>1
<1>4. \/ a >= 0 /\ x \in 0 .. P - 1
      \/ a <= 0 /\ x \in 1 - P .. 0
  BY DEF IsNormalized
<1>5. \/ b >= 0 /\ y \in 0 .. P - 1
      \/ b <= 0 /\ y \in 1 - P .. 0
  BY DEF IsNormalized
<1>6. x < P + y
  <2>1. CASE a >= 0 /\ x \in 0 .. P - 1
    BY <1>5, <2>1
  <2>2. CASE a <= 0 /\ x \in 1 - P .. 0
    BY <1>5, <2>2
  <2>3. QED
    BY <1>4, <2>1, <2>2
<1>7. QED
  BY <1>2, <1>3, <1>6

-----------------------------------------------------------------------------
\* The object: a normalised tick that stands for the total.
TickInv ==
  /\ tick = [sec |-> tick.sec, usec |-> tick.usec] /\ tick.sec \in Int /\ tick.usec \in Int
  /\ IsNormalized(tick) /\ total = GetTotalMicroSeconds(tick)

LEMMA TickInitInv == TickInit => TickInv
<1> SUFFICES ASSUME TickInit PROVE TickInv
  OBVIOUS
<1>1. PICK P \in Nat \ {0} : P = PerSecond
  BY UnitsAssumption
<1>2. /\ tick = [sec |-> tick.sec, usec |-> tick.usec] /\ tick.sec \in Int /\ tick.usec \in Int
      /\ GetTotalMicroSeconds(tick) = 0 * P + 0 /\ IsNormalized(tick)
  <2>1. 0 \in Int /\ tick = Tick(0, 0)
    BY DEF TickInit
  <2>2. QED
    BY <1>1, <2>1, Normal
<1>3. 0 * P + 0 = 0
  BY <1>1
<1>4. QED
  BY <1>2, <1>3 DEF TickInit, TickInv

\* What the operators make of a normalised tick.
LEMMA Summed ==
  ASSUME TickInv, NEW sec \in Int, NEW usec \in Int
  PROVE  LET u == Tick(sec, usec)
         IN  /\ GetTotalMicroSeconds(Plus(tick, u)) = total + (sec * PerSecond + usec)
             /\ GetTotalMicroSeconds(Minus(tick, u)) = total - (sec * PerSecond + usec)
             /\ \A n \in {Plus(tick, u), Minus(tick, u)} :
                  n = [sec |-> n.sec, usec |-> n.usec] /\ n.sec \in Int /\ n.usec \in Int /\ IsNormalized(n)
<1>1. PICK P \in Nat \ {0} : P = PerSecond
  BY UnitsAssumption
<1>2. PICK ts, tu \in Int : tick = [sec |-> ts, usec |-> tu] /\ total = ts * P + tu
  BY <1>1 DEF TickInv, GetTotalMicroSeconds
<1>3. PICK us, uu \in Int : /\ Tick(sec, usec) = [sec |-> us, usec |-> uu]
                            /\ us * P + uu = sec * P + usec
  BY <1>1, Normal DEF GetTotalMicroSeconds
<1>4. Plus(tick, Tick(sec, usec)) = Tick(ts + us, tu + uu)
  BY <1>2, <1>3 DEF Plus
<1>5. Minus(tick, Tick(sec, usec)) = Tick(ts - us, tu - uu)
  BY <1>2, <1>3 DEF Minus
<1>6. /\ (ts + us) * P + (tu + uu) = (ts * P + tu) + (us * P + uu)
      /\ (ts - us) * P + (tu - uu) = (ts * P + tu) - (us * P + uu)
  BY ONLY <1>2, <1>3, P \in Nat \ {0}
<1>7. ts + us \in Int /\ tu + uu \in Int /\ ts - us \in Int /\ tu - uu \in Int
  BY <1>2, <1>3
<1>8. \A a, b \in Int : LET n == Tick(a, b)
                        IN  /\ n = [sec |-> n.sec, usec |-> n.usec] /\ n.sec \in Int /\ n.usec \in Int
                            /\ GetTotalMicroSeconds(n) = a * P + b /\ IsNormalized(n)
  BY <1>1, Normal
<1>9. QED
  BY <1>1, <1>2, <1>3, <1>4, <1>5, <1>6, <1>7, <1>8

LEMMA Negated ==
  ASSUME TickInv
  PROVE  LET n == Negative(tick)
         IN  /\ n = [sec |-> n.sec, usec |-> n.usec] /\ n.sec \in Int /\ n.usec \in Int
             /\ GetTotalMicroSeconds(n) = -total /\ IsNormalized(n)
<1>1. PICK P \in Nat \ {0} : P = PerSecond
  BY UnitsAssumption
<1>2. PICK ts, tu \in Int : tick = [sec |-> ts, usec |-> tu] /\ total = ts * P + tu
  BY <1>1 DEF TickInv, GetTotalMicroSeconds
<1>3. Negative(tick) = [sec |-> -ts, usec |-> -tu]
  BY <1>2 DEF Negative
<1>4. (-ts) * P + (-tu) = -(ts * P + tu)
  BY ONLY <1>2, P \in Nat \ {0}
<1>5. (ts >= 0 /\ tu \in 0 .. P - 1) \/ (ts <= 0 /\ tu \in 1 - P .. 0)
  BY <1>1, <1>2 DEF TickInv, IsNormalized
<1>6. (-ts >= 0 /\ -tu \in 0 .. P - 1) \/ (-ts <= 0 /\ -tu \in 1 - P .. 0)
  BY <1>2, <1>5
<1>7. QED
  BY <1>1, <1>2, <1>3, <1>4, <1>6 DEF GetTotalMicroSeconds, IsNormalized

LEMMA TickStepInv == TickInv /\ [TickNext]_tickVars => TickInv'
<1> SUFFICES ASSUME TickInv, [TickNext]_tickVars PROVE TickInv'
  OBVIOUS
<1>1. ASSUME NEW sec \in Secs, NEW usec \in Usecs PROVE sec \in Int /\ usec \in Int
  BY UnitsAssumption DEF Secs, Usecs
<1>2. ASSUME NEW sec \in Secs, NEW usec \in Usecs, Assign(sec, usec) PROVE TickInv'
  BY <1>1, <1>2, UnitsAssumption, Normal DEF Assign, Became, TickInv, IsNormalized, GetTotalMicroSeconds
<1>3. ASSUME NEW sec \in Secs, NEW usec \in Usecs, Add(sec, usec) PROVE TickInv'
  BY <1>1, <1>3, Summed DEF Add, Became, TickInv, IsNormalized, GetTotalMicroSeconds
<1>4. ASSUME NEW sec \in Secs, NEW usec \in Usecs, Subtract(sec, usec) PROVE TickInv'
  BY <1>1, <1>4, Summed DEF Subtract, Became, TickInv, IsNormalized, GetTotalMicroSeconds
<1>5. CASE Negate
  BY <1>5, Negated DEF Negate, Became, TickInv, IsNormalized, GetTotalMicroSeconds
<1>6. CASE UNCHANGED tickVars
  BY <1>6 DEF tickVars, TickInv, IsNormalized, GetTotalMicroSeconds
<1>7. QED
  BY <1>2, <1>3, <1>4, <1>5, <1>6 DEF TickNext

-----------------------------------------------------------------------------
\* The object compared with a tick of sec and usec.
LEMMA Compared ==
  ASSUME TickInv, NEW sec \in Int, NEW usec \in Int
  PROVE  LET u == Tick(sec, usec)
             n == GetTotalMicroSeconds(u)
         IN  /\ n = sec * PerSecond + usec
             /\ Pause(u, tick) = Plus(tick, Negative(u))
             /\ Less(tick, u) <=> total < n
             /\ ~Less(tick, u) => GreaterEqual(tick, u)
             /\ Greater(tick, u) <=> Less(u, tick)
             /\ ~Greater(tick, u) => LessEqual(tick, u)
             /\ Equal(tick, u) <=> total = n
<1>1. PICK P \in Nat \ {0} : P = PerSecond
  BY UnitsAssumption
<1>2. PICK ts, tu \in Int : tick = [sec |-> ts, usec |-> tu] /\ total = ts * P + tu
  BY <1>1 DEF TickInv, GetTotalMicroSeconds
<1>3. PICK u, us, uu : /\ u = Tick(sec, usec) /\ u = [sec |-> us, usec |-> uu] /\ us \in Int /\ uu \in Int
                       /\ IsNormalized(u) /\ GetTotalMicroSeconds(u) = sec * PerSecond + usec
  BY <1>1, Normal
<1>4. PICK n \in Int : n = us * P + uu
  BY <1>3
<1>5. GetTotalMicroSeconds(u) = n
  BY <1>1, <1>3, <1>4 DEF GetTotalMicroSeconds
<1>6. PICK m \in Int : m = total
  BY <1>2
<1>7. Pause(u, tick) = Plus(tick, Negative(u))
  <2>1. ts - us = ts + (-us) /\ tu - uu = tu + (-uu)
    BY <1>2, <1>3
  <2>2. QED
    BY <1>2, <1>3, <2>1 DEF Minus, Plus, Negative, Pause
<1>8. (ts < us => m < n) /\ (us < ts => n < m)
  <2>1. IsNormalized([sec |-> ts, usec |-> tu]) /\ IsNormalized([sec |-> us, usec |-> uu])
    BY <1>2, <1>3 DEF TickInv
  <2>2. QED
    BY <1>1, <1>2, <1>3, <1>4, <1>6, <2>1, Earlier
<1>9. ts = us => (tu < uu <=> m < n) /\ (tu > uu <=> m > n) /\ (tu = uu <=> m = n)
  <2>1. PICK p \in Int : p = ts * P
    BY <1>2
  <2>2. QED
    BY <1>2, <1>3, <1>4, <1>6, <2>1
<1>10. /\ Less(tick, u) <=> m < n
       /\ ~Less(tick, u) => GreaterEqual(tick, u)
       /\ Greater(tick, u) <=> Less(u, tick)
       /\ ~Greater(tick, u) => LessEqual(tick, u)
       /\ Equal(tick, u) <=> m = n
  <2>1. tick.sec = ts /\ tick.usec = tu /\ u.sec = us /\ u.usec = uu
    BY <1>2, <1>3
  <2>2. CASE ts < us
    BY <1>2, <1>3, <1>8, <2>1, <2>2 DEF Less, Greater, Equal, LessEqual, GreaterEqual
  <2>3. CASE us < ts
    BY <1>2, <1>3, <1>8, <2>1, <2>3 DEF Less, Greater, Equal, LessEqual, GreaterEqual
  <2>4. CASE ts = us
    BY <1>2, <1>3, <1>9, <2>1, <2>4 DEF Less, Greater, Equal, LessEqual, GreaterEqual
  <2>5. QED
    BY <1>2, <1>3, <2>2, <2>3, <2>4
<1>11. QED
  BY <1>3, <1>5, <1>6, <1>7, <1>10

\* The parts of the object put together are the object.
LEMMA Parts ==
  ASSUME TickInv
  PROVE  /\ tick.sec = Day * GetDays(tick) + Hour * GetHours(tick) + Minute * GetMinutes(tick) + GetSeconds(tick)
         /\ tick.usec = PerMilli * GetMilliSeconds(tick) + GetMicroSeconds(tick)
<1>1. PICK s \in Int : s = tick.sec
  BY DEF TickInv
<1>2. PICK g, h, d \in Nat \ {0} : g = Minute /\ h = Hour /\ d = Day
  BY UnitsAssumption
<1>3. PICK k \in Nat \ {0} : h = k * g
  BY <1>2, UnitsAssumption, Multiple
<1>4. PICK j \in Nat \ {0} : d = j * h
  BY <1>2, UnitsAssumption, Multiple
<1>5. s = d * Quot(s, d) + Rem(s, d) /\ Quot(s, d) \in Int /\ Rem(s, d) \in Int
  BY <1>1, <1>2, Truncated
<1>6. Rem(s, d) = h * Quot(Rem(s, d), h) + Rem(s, h)
  BY <1>1, <1>2, <1>4, Through
<1>7. Rem(s, h) = g * Quot(Rem(s, h), g) + Rem(s, g)
  BY <1>1, <1>2, <1>3, Through
<1>8. /\ Rem(s, h) \in Int /\ Rem(s, g) \in Int
      /\ Quot(Rem(s, d), h) \in Int /\ Quot(Rem(s, h), g) \in Int
  <2>1. Rem(s, h) \in Int /\ Rem(s, g) \in Int
    BY <1>1, <1>2, Truncated
  <2>2. QED
    BY <1>2, <1>5, <2>1, Truncated
<1>9. PICK x, y, z, w \in Int : /\ x = d * Quot(s, d) /\ y = h * Quot(Rem(s, d), h)
                                /\ z = g * Quot(Rem(s, h), g) /\ w = Rem(s, g)
  BY <1>2, <1>5, <1>8
<1>10. s = x + y + z + w
  BY <1>5, <1>6, <1>7, <1>9
<1>11. tick.sec = Day * GetDays(tick) + Hour * GetHours(tick) + Minute * GetMinutes(tick) + GetSeconds(tick)
  BY <1>1, <1>2, <1>9, <1>10 DEF GetDays, GetHours, GetMinutes, GetSeconds
<1>12. tick.usec = PerMilli * GetMilliSeconds(tick) + GetMicroSeconds(tick)
  BY UnitsAssumption, Truncated DEF TickInv, GetMilliSeconds, GetMicroSeconds
<1>13. QED
  BY <1>11, <1>12

\* A tick that is set, added to, subtracted from and negated, again and again, is the
\* number it should stand for, compares as the numbers do and is the sum of its parts:
\* whatever the units, as long as hours are whole minutes and days whole hours
\* (TimeTick).
THEOREM TicksAreExact == TickSpec => []TicksExact
<1>1. TickInit => TickInv
  BY TickInitInv
<1>2. TickInv /\ [TickNext]_tickVars => TickInv'
  BY TickStepInv
<1>3. TickInv => TicksExact
  <2> SUFFICES ASSUME TickInv PROVE TicksExact
    OBVIOUS
  <2>1. ASSUME NEW sec \in Secs, NEW usec \in Usecs PROVE sec \in Int /\ usec \in Int
    BY UnitsAssumption DEF Secs, Usecs
  <2>2. GetTotalMicroSeconds(tick) = total /\ IsNormalized(tick)
    BY DEF TickInv
  <2>3. QED
    BY <2>1, <2>2, Parts, Compared DEF TicksExact
<1>4. QED
  BY <1>1, <1>2, <1>3, PTL DEF TickSpec
=============================================================================
