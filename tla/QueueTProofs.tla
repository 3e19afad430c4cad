---------------------------- MODULE QueueTProofs ----------------------------
(***************************************************************************)
(* Proofs about QueueT, for every number of threads, every capacity, and   *)
(* every clock.                                                            *)
(***************************************************************************)
EXTENDS QueueT, SequenceTheorems, FiniteSetTheorems, TLAPS

-----------------------------------------------------------------------------
(* The inductive invariant *)

\* A pusher brings a node until it has put it into the queue.
NodeInv ==
  \A t \in Pushers : pc[t] \in {"wait", "lock", "move"} => node[t] \in Nodes

\* A deadline is less than a second before the time the caller asked for.
DeadlineInv ==
  \A t \in Threads :
    deadline[t] # Forever => deadline[t] > start[t] + asked[t] - Second

IInv == /\ TypeOK /\ NodeInv /\ DeadlineInv
        /\ Exclusive /\ PlacesAccounted /\ NodesAccounted

-----------------------------------------------------------------------------
(* Counting threads *)

\* The sets of threads that are counted are finite.
LEMMA Counted ==
  ASSUME NEW T \in SUBSET Threads, NEW S
  PROVE  IsFiniteSet(At(T, S)) /\ Cardinality(At(T, S)) \in Nat
<1>1. At(T, S) \in SUBSET Threads
  BY DEF At
<1>2. IsFiniteSet(At(T, S))
  BY <1>1, FS_Subset, QueueTAssumption
<1> QED
  BY <1>2, FS_CardinalityType

\* By how much their number changes when thread t goes from place a to place b.
Change(T, S, t, a, b) ==
  IF t \notin T \/ (a \in S <=> b \in S) THEN 0 ELSE IF b \in S THEN 1 ELSE -1

\* When one thread goes to another place, the threads at some places are one
\* more, one less or as many as before.
LEMMA CountMoves ==
  ASSUME TypeOK, NEW T \in SUBSET Threads, NEW S, NEW t \in Threads, NEW b,
         pc' = [pc EXCEPT ![t] = b]
  PROVE  Cardinality(At(T, S))' = Cardinality(At(T, S)) + Change(T, S, t, pc[t], b)
<1>1. \A x \in T : pc'[x] = IF x = t THEN b ELSE pc[x]
  BY DEF TypeOK
<1>2. CASE t \notin T \/ (pc[t] \in S <=> b \in S)
  <2>1. At(T, S)' = At(T, S)
    BY <1>1, <1>2 DEF At
  <2> QED
    BY <1>2, <2>1, Counted DEF Change
<1>3. CASE t \in T /\ pc[t] \notin S /\ b \in S
  <2>1. At(T, S)' = At(T, S) \cup {t} /\ t \notin At(T, S)
    BY <1>1, <1>3 DEF At
  <2> QED
    BY <1>3, <2>1, Counted, FS_AddElement DEF Change
<1>4. CASE t \in T /\ pc[t] \in S /\ b \notin S
  <2>1. At(T, S)' = At(T, S) \ {t} /\ t \in At(T, S)
    BY <1>1, <1>4 DEF At
  <2> QED
    BY <1>4, <2>1, Counted, FS_RemoveElement DEF Change
<1> QED
  BY <1>2, <1>3, <1>4

\* The threads that PlacesAccounted and NodesAccounted count, after such a move.
Reserved == Cardinality(At(Pushers, {"lock", "move"}))
Unsaid   == Cardinality(At(Pushers, {"post"}))
Claimed  == Cardinality(At(Poppers, {"lock", "move"}))
Emptied  == Cardinality(At(Poppers, {"post"}))

CountsAfter(t, b) ==
  /\ Reserved' = Reserved + Change(Pushers, {"lock", "move"}, t, pc[t], b)
  /\ Unsaid'   = Unsaid + Change(Pushers, {"post"}, t, pc[t], b)
  /\ Claimed'  = Claimed + Change(Poppers, {"lock", "move"}, t, pc[t], b)
  /\ Emptied'  = Emptied + Change(Poppers, {"post"}, t, pc[t], b)

\* All four numbers are natural numbers.
LEMMA CountsTyped ==
  Reserved \in Nat /\ Unsaid \in Nat /\ Claimed \in Nat /\ Emptied \in Nat
<1>1. Pushers \in SUBSET Threads /\ Poppers \in SUBSET Threads
  BY DEF Threads
<1> QED
  BY <1>1, Counted DEF Reserved, Unsaid, Claimed, Emptied

\* The four numbers after a move of one thread.
LEMMA CountsMove ==
  ASSUME TypeOK, NEW t \in Threads, NEW b, pc' = [pc EXCEPT ![t] = b]
  PROVE  CountsAfter(t, b)
<1>1. Pushers \in SUBSET Threads /\ Poppers \in SUBSET Threads
  BY DEF Threads
<1>2. Reserved' = Reserved + Change(Pushers, {"lock", "move"}, t, pc[t], b)
  BY <1>1, CountMoves DEF Reserved
<1>3. Unsaid' = Unsaid + Change(Pushers, {"post"}, t, pc[t], b)
  BY <1>1, CountMoves DEF Unsaid
<1>4. Claimed' = Claimed + Change(Poppers, {"lock", "move"}, t, pc[t], b)
  BY <1>1, CountMoves, ZenonT(40) DEF Claimed
<1>5. Emptied' = Emptied + Change(Poppers, {"post"}, t, pc[t], b)
  BY <1>1, CountMoves, ZenonT(40) DEF Emptied
<1> QED
  BY <1>2, <1>3, <1>4, <1>5 DEF CountsAfter

\* What the two invariants say in these numbers, before and after a step.
LEMMA AccountsInNumbers ==
  /\ PlacesAccounted <=> MaxNodeNum = empty + Len(queue) + Reserved + Emptied
  /\ NodesAccounted <=> Len(queue) = exist + Claimed + Unsaid
  /\ PlacesAccounted' <=> MaxNodeNum = empty' + Len(queue') + Reserved' + Emptied'
  /\ NodesAccounted' <=> Len(queue') = exist' + Claimed' + Unsaid'
BY DEF PlacesAccounted, NodesAccounted, Reserved, Unsaid, Claimed, Emptied

\* The rounding of the clock loses less than a second and never goes below zero.
LEMMA DeadlineOfBounds ==
  ASSUME now \in Nat, NEW usec \in Nat
  PROVE  DeadlineOf(usec) \in Nat /\ DeadlineOf(usec) > now + usec - Second
<1>1. Second \in Nat /\ Second > 0
  BY QueueTAssumption
<1>2. now % Second \in 0 .. Second - 1 /\ now = Second * (now \div Second) + (now % Second)
  BY <1>1
<1>3. now \div Second \in Nat
  BY <1>1
<1>4. Second * (now \div Second) \in Nat
  BY <1>1, <1>3
<1> QED
  BY <1>1, <1>2, <1>4 DEF DeadlineOf

-----------------------------------------------------------------------------
(* Every step preserves the invariant *)

\* Init(udwMaxNodeNum) establishes the invariant.
LEMMA InitInv == ASSUME Init PROVE IInv
<1>1. TypeOK
  BY QueueTAssumption DEF Init, TypeOK, PcSet, Threads
<1>2. NodeInv /\ DeadlineInv /\ Exclusive
  BY DEF Init, NodeInv, DeadlineInv, Exclusive, Threads
<1>3. /\ At(Pushers, {"lock", "move"}) = {} /\ At(Poppers, {"post"}) = {}
      /\ At(Poppers, {"lock", "move"}) = {} /\ At(Pushers, {"post"}) = {}
  BY DEF Init, At, Threads
<1>4. Reserved = 0 /\ Unsaid = 0 /\ Claimed = 0 /\ Emptied = 0
  BY <1>3, FS_EmptySet DEF Reserved, Unsaid, Claimed, Emptied
<1>5. PlacesAccounted /\ NodesAccounted
  BY <1>4, AccountsInNumbers, QueueTAssumption DEF Init
<1> QED
  BY <1>1, <1>2, <1>5 DEF IInv

\* What a call needs so that its beginning preserves the invariant.
LEMMA CallInv ==
  ASSUME IInv, NEW t \in Threads, NEW n \in Nodes \cup {None},
         NEW dl \in Nat \cup {Forever}, NEW since \in 0 .. MaxTime,
         NEW usec \in Waits \cup {0}, Call(t, n, dl, since, usec),
         t \in Pushers => n \in Nodes,
         dl # Forever => dl > since + usec - Second
  PROVE  IInv'
<1> USE DEF IInv
<1>1. TypeOK'
  BY DEF TypeOK, Call, PcSet
<1>2. NodeInv'
  BY DEF NodeInv, TypeOK, Call, Threads
<1>3. DeadlineInv'
  BY DEF DeadlineInv, TypeOK, Call
<1>4. Exclusive'
  BY DEF Exclusive, TypeOK, Call
<1>5. /\ pc[t] = "idle" /\ pc' = [pc EXCEPT ![t] = "wait"]
      /\ UNCHANGED <<queue, exist, empty>>
  BY DEF Call
<1>6. CountsAfter(t, "wait")
  BY <1>5, CountsMove
<1>7. /\ Reserved' = Reserved /\ Unsaid' = Unsaid
      /\ Claimed' = Claimed /\ Emptied' = Emptied
  BY <1>5, <1>6, CountsTyped DEF CountsAfter, Change
<1>8. PlacesAccounted' /\ NodesAccounted'
  BY <1>5, <1>7, AccountsInNumbers
<1> QED
  BY <1>1, <1>2, <1>3, <1>4, <1>8

\* Entering WaitTillPush or WaitTimePush.
LEMMA PushCallInv ==
  ASSUME IInv, NEW t \in Pushers, PushCall(t)
  PROVE  IInv'
<1>1. t \in Threads /\ now \in 0 .. MaxTime /\ now \in Nat
  BY QueueTAssumption DEF IInv, TypeOK, Threads
<1>2. ASSUME NEW n \in Nodes, WaitTillPush(t, n) PROVE IInv'
  <2>1. /\ Forever \in Nat \cup {Forever} /\ 0 \in 0 .. MaxTime
        /\ 0 \in Waits \cup {0} /\ n \in Nodes \cup {None}
    BY QueueTAssumption
  <2> QED
    BY <1>1, <1>2, <2>1, CallInv DEF WaitTillPush
<1>3. ASSUME NEW n \in Nodes, NEW usec \in Waits, WaitTimePush(t, n, usec) PROVE IInv'
  <2>1. DeadlineOf(usec) \in Nat /\ DeadlineOf(usec) > now + usec - Second
    BY <1>1, DeadlineOfBounds, QueueTAssumption
  <2> QED
    BY <1>1, <1>3, <2>1, CallInv DEF WaitTimePush
<1> QED
  BY <1>2, <1>3 DEF PushCall

\* Entering WaitTillPop or WaitTimePop.
LEMMA PopCallInv ==
  ASSUME IInv, NEW t \in Poppers, PopCall(t)
  PROVE  IInv'
<1>1. t \in Threads /\ t \notin Pushers /\ now \in 0 .. MaxTime /\ now \in Nat
  BY QueueTAssumption DEF IInv, TypeOK, Threads
<1>2. ASSUME WaitTillPop(t) PROVE IInv'
  <2>1. /\ Forever \in Nat \cup {Forever} /\ 0 \in 0 .. MaxTime
        /\ 0 \in Waits \cup {0} /\ None \in Nodes \cup {None}
    BY QueueTAssumption
  <2> QED
    BY <1>1, <1>2, <2>1, CallInv DEF WaitTillPop
<1>3. ASSUME NEW usec \in Waits, WaitTimePop(t, usec) PROVE IInv'
  <2>1. DeadlineOf(usec) \in Nat /\ DeadlineOf(usec) > now + usec - Second
    BY <1>1, DeadlineOfBounds, QueueTAssumption
  <2> QED
    BY <1>1, <1>3, <2>1, CallInv DEF WaitTimePop
<1> QED
  BY <1>2, <1>3 DEF PopCall

\* A pusher takes a token of m_semEmpty: a free place becomes reserved.
LEMMA PushWaitInv ==
  ASSUME IInv, NEW t \in Pushers, PushWait(t)
  PROVE  IInv'
<1> USE DEF IInv
<1>1. t \in Threads /\ (t \in Pushers <=> t \notin Poppers)
  BY QueueTAssumption DEF Threads
<1>2. TypeOK'
  BY <1>1 DEF TypeOK, NodeInv, PushWait, PcSet
<1>3. NodeInv'
  BY <1>1 DEF NodeInv, TypeOK, PushWait, Threads
<1>4. DeadlineInv'
  BY <1>1, QueueTAssumption DEF DeadlineInv, TypeOK, PushWait
<1>5. Exclusive'
  BY <1>1, QueueTAssumption DEF Exclusive, TypeOK, PushWait
<1>6. pc[t] = "wait" /\ pc' = [pc EXCEPT ![t] = "lock"]
  BY DEF PushWait
<1>7. CountsAfter(t, "lock")
  BY <1>1, <1>6, CountsMove
<1>8. Reserved' = Reserved + 1 /\ Unsaid' = Unsaid /\ Claimed' = Claimed /\ Emptied' = Emptied
  BY <1>1, <1>6, <1>7, CountsTyped DEF CountsAfter, Change
<1>9. PlacesAccounted' /\ NodesAccounted'
  BY <1>1, <1>8, CountsTyped, AccountsInNumbers DEF TypeOK, PushWait
<1> QED
  BY <1>2, <1>3, <1>4, <1>5, <1>9

\* A popper takes a token of m_semExist: an announced node becomes claimed.
LEMMA PopWaitInv ==
  ASSUME IInv, NEW t \in Poppers, PopWait(t)
  PROVE  IInv'
<1> USE DEF IInv
<1>1. t \in Threads /\ (t \in Pushers <=> t \notin Poppers)
  BY QueueTAssumption DEF Threads
<1>2. TypeOK'
  BY <1>1 DEF TypeOK, NodeInv, PopWait, PcSet
<1>3. NodeInv'
  BY <1>1 DEF NodeInv, TypeOK, PopWait, Threads
<1>4. DeadlineInv'
  BY <1>1, QueueTAssumption DEF DeadlineInv, TypeOK, PopWait
<1>5. Exclusive'
  BY <1>1, QueueTAssumption DEF Exclusive, TypeOK, PopWait
<1>6. pc[t] = "wait" /\ pc' = [pc EXCEPT ![t] = "lock"]
  BY DEF PopWait
<1>7. CountsAfter(t, "lock")
  BY <1>1, <1>6, CountsMove
<1>8. Claimed' = Claimed + 1 /\ Reserved' = Reserved /\ Unsaid' = Unsaid /\ Emptied' = Emptied
  BY <1>1, <1>6, <1>7, CountsTyped DEF CountsAfter, Change
<1>9. /\ exist \in Nat /\ exist' = exist - 1 /\ Len(queue) \in Nat
      /\ UNCHANGED <<queue, empty>>
  BY DEF TypeOK, PopWait
<1>10. PlacesAccounted'
  BY <1>8, <1>9, AccountsInNumbers
<1>11. NodesAccounted'
  BY <1>8, <1>9, CountsTyped, AccountsInNumbers
<1> QED
  BY <1>2, <1>3, <1>4, <1>5, <1>10, <1>11

\* A timed wait gives up: nothing was taken.
LEMMA TimedOutInv ==
  ASSUME IInv, NEW t \in Threads, NEW STATE sem, TimedOut(t, sem)
  PROVE  IInv'
<1> USE DEF IInv
<1>1. t \in Threads /\ (t \in Pushers <=> t \notin Poppers)
  BY QueueTAssumption DEF Threads
<1>2. TypeOK'
  BY <1>1, QueueTAssumption DEF TypeOK, NodeInv, Return, TimedOut, PcSet
<1>3. NodeInv'
  BY <1>1 DEF NodeInv, TypeOK, Return, TimedOut, Threads
<1>4. DeadlineInv'
  BY <1>1, QueueTAssumption DEF DeadlineInv, TypeOK, Return, TimedOut
<1>5. Exclusive'
  BY <1>1, QueueTAssumption DEF Exclusive, TypeOK, Return, TimedOut
<1>6. pc[t] = "wait" /\ pc' = [pc EXCEPT ![t] = "idle"]
  BY DEF Return, TimedOut
<1>7. CountsAfter(t, "idle")
  BY <1>1, <1>6, CountsMove
<1>8. Reserved' = Reserved /\ Unsaid' = Unsaid /\ Claimed' = Claimed /\ Emptied' = Emptied
  BY <1>1, <1>6, <1>7, CountsTyped DEF CountsAfter, Change
<1>9. PlacesAccounted' /\ NodesAccounted'
  BY <1>1, <1>8, CountsTyped, AccountsInNumbers DEF TypeOK, TimedOut
<1> QED
  BY <1>2, <1>3, <1>4, <1>5, <1>9

\* The mutex is taken.
LEMMA LockInv ==
  ASSUME IInv, NEW t \in Threads, Lock(t)
  PROVE  IInv'
<1> USE DEF IInv
<1>1. t \in Threads /\ (t \in Pushers <=> t \notin Poppers)
  BY QueueTAssumption DEF Threads
<1>2. TypeOK'
  BY <1>1 DEF TypeOK, NodeInv, Lock, PcSet
<1>3. NodeInv'
  BY <1>1 DEF NodeInv, TypeOK, Lock, Threads
<1>4. DeadlineInv'
  BY <1>1, QueueTAssumption DEF DeadlineInv, TypeOK, Lock
<1>5. Exclusive'
  BY <1>1, QueueTAssumption DEF Exclusive, TypeOK, Lock
<1>6. pc[t] = "lock" /\ pc' = [pc EXCEPT ![t] = "move"]
  BY DEF Lock
<1>7. CountsAfter(t, "move")
  BY <1>1, <1>6, CountsMove
<1>8. Reserved' = Reserved /\ Unsaid' = Unsaid /\ Claimed' = Claimed /\ Emptied' = Emptied
  BY <1>1, <1>6, <1>7, CountsTyped DEF CountsAfter, Change
<1>9. PlacesAccounted' /\ NodesAccounted'
  BY <1>1, <1>8, CountsTyped, AccountsInNumbers DEF TypeOK, Lock
<1> QED
  BY <1>2, <1>3, <1>4, <1>5, <1>9

\* A reserved place gets its node, which is not yet announced.
LEMMA PushMoveInv ==
  ASSUME IInv, NEW t \in Pushers, PushMove(t)
  PROVE  IInv'
<1> USE DEF IInv
<1>1. t \in Threads /\ (t \in Pushers <=> t \notin Poppers)
  BY QueueTAssumption DEF Threads
<1>2. TypeOK'
  BY <1>1 DEF TypeOK, NodeInv, PushMove, PcSet
<1>3. NodeInv'
  BY <1>1 DEF NodeInv, TypeOK, PushMove, Threads
<1>4. DeadlineInv'
  BY <1>1, QueueTAssumption DEF DeadlineInv, TypeOK, PushMove
<1>5. Exclusive'
  BY <1>1, QueueTAssumption DEF Exclusive, TypeOK, PushMove
<1>6. pc[t] = "move" /\ pc' = [pc EXCEPT ![t] = "post"]
  BY DEF PushMove
<1>7. CountsAfter(t, "post")
  BY <1>1, <1>6, CountsMove
<1>8. Reserved' = Reserved - 1 /\ Unsaid' = Unsaid + 1 /\ Claimed' = Claimed /\ Emptied' = Emptied
  BY <1>1, <1>6, <1>7, CountsTyped DEF CountsAfter, Change
<1>9. PlacesAccounted' /\ NodesAccounted'
  BY <1>1, <1>8, CountsTyped, AccountsInNumbers DEF TypeOK, PushMove
<1> QED
  BY <1>2, <1>3, <1>4, <1>5, <1>9

\* A claimed node leaves the queue; its place is not yet free.
LEMMA PopMoveInv ==
  ASSUME IInv, NEW t \in Poppers, PopMove(t)
  PROVE  IInv'
<1> USE DEF IInv
<1>1. t \in Threads /\ (t \in Pushers <=> t \notin Poppers)
  BY QueueTAssumption DEF Threads
<1>2. TypeOK'
  BY <1>1 DEF TypeOK, NodeInv, PopMove, PcSet
<1>3. NodeInv'
  BY <1>1 DEF NodeInv, TypeOK, PopMove, Threads
<1>4. DeadlineInv'
  BY <1>1, QueueTAssumption DEF DeadlineInv, TypeOK, PopMove
<1>5. Exclusive'
  BY <1>1, QueueTAssumption DEF Exclusive, TypeOK, PopMove
<1>6. pc[t] = "move" /\ pc' = [pc EXCEPT ![t] = "post"]
  BY DEF PopMove
<1>7. CountsAfter(t, "post")
  BY <1>1, <1>6, CountsMove
<1>8. Claimed' = Claimed - 1 /\ Emptied' = Emptied + 1 /\ Reserved' = Reserved /\ Unsaid' = Unsaid
  BY <1>1, <1>6, <1>7, CountsTyped DEF CountsAfter, Change
<1>9. PlacesAccounted' /\ NodesAccounted'
  BY <1>1, <1>8, CountsTyped, AccountsInNumbers DEF TypeOK, PopMove
<1> QED
  BY <1>2, <1>3, <1>4, <1>5, <1>9

\* The node is announced.
LEMMA PushPostInv ==
  ASSUME IInv, NEW t \in Pushers, PushPost(t)
  PROVE  IInv'
<1> USE DEF IInv
<1>1. t \in Threads /\ (t \in Pushers <=> t \notin Poppers)
  BY QueueTAssumption DEF Threads
<1>2. TypeOK'
  BY <1>1 DEF TypeOK, NodeInv, PushPost, PcSet
<1>3. NodeInv'
  BY <1>1 DEF NodeInv, TypeOK, PushPost, Threads
<1>4. DeadlineInv'
  BY <1>1, QueueTAssumption DEF DeadlineInv, TypeOK, PushPost
<1>5. Exclusive'
  BY <1>1, QueueTAssumption DEF Exclusive, TypeOK, PushPost
<1>6. pc[t] = "post" /\ pc' = [pc EXCEPT ![t] = "unlock"]
  BY DEF PushPost
<1>7. CountsAfter(t, "unlock")
  BY <1>1, <1>6, CountsMove
<1>8. Unsaid' = Unsaid - 1 /\ Reserved' = Reserved /\ Claimed' = Claimed /\ Emptied' = Emptied
  BY <1>1, <1>6, <1>7, CountsTyped DEF CountsAfter, Change
<1>9. PlacesAccounted' /\ NodesAccounted'
  BY <1>1, <1>8, CountsTyped, AccountsInNumbers DEF TypeOK, PushPost
<1> QED
  BY <1>2, <1>3, <1>4, <1>5, <1>9

\* The place is free.
LEMMA PopPostInv ==
  ASSUME IInv, NEW t \in Poppers, PopPost(t)
  PROVE  IInv'
<1> USE DEF IInv
<1>1. t \in Threads /\ (t \in Pushers <=> t \notin Poppers)
  BY QueueTAssumption DEF Threads
<1>2. TypeOK'
  BY <1>1 DEF TypeOK, NodeInv, PopPost, PcSet
<1>3. NodeInv'
  BY <1>1 DEF NodeInv, TypeOK, PopPost, Threads
<1>4. DeadlineInv'
  BY <1>1, QueueTAssumption DEF DeadlineInv, TypeOK, PopPost
<1>5. Exclusive'
  BY <1>1, QueueTAssumption DEF Exclusive, TypeOK, PopPost
<1>6. pc[t] = "post" /\ pc' = [pc EXCEPT ![t] = "unlock"]
  BY DEF PopPost
<1>7. CountsAfter(t, "unlock")
  BY <1>1, <1>6, CountsMove
<1>8. Emptied' = Emptied - 1 /\ Reserved' = Reserved /\ Unsaid' = Unsaid /\ Claimed' = Claimed
  BY <1>1, <1>6, <1>7, CountsTyped DEF CountsAfter, Change
<1>9. PlacesAccounted' /\ NodesAccounted'
  BY <1>1, <1>8, CountsTyped, AccountsInNumbers DEF TypeOK, PopPost
<1> QED
  BY <1>2, <1>3, <1>4, <1>5, <1>9

\* The mutex is let go and the call returns.
LEMMA UnlockInv ==
  ASSUME IInv, NEW t \in Threads, Unlock(t)
  PROVE  IInv'
<1> USE DEF IInv
<1>1. t \in Threads /\ (t \in Pushers <=> t \notin Poppers)
  BY QueueTAssumption DEF Threads
<1>2. TypeOK'
  BY <1>1, QueueTAssumption DEF TypeOK, NodeInv, Return, Unlock, PcSet
<1>3. NodeInv'
  BY <1>1 DEF NodeInv, TypeOK, Return, Unlock, Threads
<1>4. DeadlineInv'
  BY <1>1, QueueTAssumption DEF DeadlineInv, TypeOK, Return, Unlock
<1>5. Exclusive'
  BY <1>1, QueueTAssumption DEF Exclusive, TypeOK, Return, Unlock
<1>6. pc[t] = "unlock" /\ pc' = [pc EXCEPT ![t] = "idle"]
  BY DEF Return, Unlock
<1>7. CountsAfter(t, "idle")
  BY <1>1, <1>6, CountsMove
<1>8. Reserved' = Reserved /\ Unsaid' = Unsaid /\ Claimed' = Claimed /\ Emptied' = Emptied
  BY <1>1, <1>6, <1>7, CountsTyped DEF CountsAfter, Change
<1>9. PlacesAccounted' /\ NodesAccounted'
  BY <1>1, <1>8, CountsTyped, AccountsInNumbers DEF TypeOK, Unlock
<1> QED
  BY <1>2, <1>3, <1>4, <1>5, <1>9

\* One step of any thread or of the clock.
LEMMA NextInv == ASSUME IInv, [Next]_vars PROVE IInv'
<1>1. CASE \E t \in Pushers : PushCall(t) \/ PushStep(t)
  <2>1. PICK t \in Pushers : PushCall(t) \/ PushStep(t)
    BY <1>1
  <2>2. t \in Threads
    BY DEF Threads
  <2> QED
    BY <2>1, <2>2, PushCallInv, PushWaitInv, TimedOutInv, LockInv, PushMoveInv,
       PushPostInv, UnlockInv DEF PushStep
<1>2. CASE \E t \in Poppers : PopCall(t) \/ PopStep(t)
  <2>1. PICK t \in Poppers : PopCall(t) \/ PopStep(t)
    BY <1>2
  <2>2. t \in Threads
    BY DEF Threads
  <2> QED
    BY <2>1, <2>2, PopCallInv, PopWaitInv, TimedOutInv, LockInv, PopMoveInv,
       PopPostInv, UnlockInv DEF PopStep
<1>3. CASE Tick
  <2>1. now' \in 0 .. MaxTime
    BY <1>3, QueueTAssumption DEF IInv, TypeOK, Tick
  <2>2. TypeOK'
    BY <1>3, <2>1 DEF IInv, TypeOK, Tick
  <2> QED
    BY <1>3, <2>2 DEF IInv, Tick, NodeInv, DeadlineInv, Exclusive, PlacesAccounted,
                      NodesAccounted, At
<1>4. CASE UNCHANGED vars
  BY <1>4 DEF vars, IInv, TypeOK, NodeInv, DeadlineInv, Exclusive, PlacesAccounted,
              NodesAccounted, At
<1> QED
  BY <1>1, <1>2, <1>3, <1>4 DEF Next

-----------------------------------------------------------------------------
(* The theorems *)

\* IInv is an invariant of the queue (queue_t.h:81-336).
THEOREM Invariance == Spec => []IInv
BY InitInv, NextInv, PTL DEF Spec

\* The state has its types: in particular neither semaphore is ever taken below
\* zero and only nodes that were pushed are in the queue.
THEOREM TypeCorrect == Spec => []TypeOK
<1>1. IInv => TypeOK
  BY DEF IInv
<1> QED
  BY <1>1, Invariance, PTL

\* m_mtxQue is held by whoever touches m_queue or posts (queue_t.h:148-166).
THEOREM MutualExclusion == Spec => []Exclusive
<1>1. IInv => Exclusive
  BY DEF IInv
<1> QED
  BY <1>1, Invariance, PTL

\* Both semaphores account for the places and the nodes of the queue, through
\* timeouts and interruptions of any thread (queue_t.h:130-166, 175-212).
THEOREM Accounting == Spec => [](PlacesAccounted /\ NodesAccounted)
<1>1. IInv => PlacesAccounted /\ NodesAccounted
  BY DEF IInv
<1> QED
  BY <1>1, Invariance, PTL

\* The queue never holds more than Init was told (queue_t.h:103).
THEOREM Bounded == Spec => [](Len(queue) <= MaxNodeNum)
<1>1. IInv => Len(queue) <= MaxNodeNum
  <2> SUFFICES ASSUME IInv PROVE Len(queue) <= MaxNodeNum
    OBVIOUS
  <2>1. empty \in Nat /\ Len(queue) \in Nat
    BY DEF IInv, TypeOK
  <2>2. MaxNodeNum = empty + Len(queue) + Reserved + Emptied
    BY AccountsInNumbers DEF IInv
  <2> QED
    BY <2>1, <2>2, CountsTyped
<1> QED
  BY <1>1, Invariance, PTL

\* front() and pop() never meet an empty queue (queue_t.h:198-199, 321-322).
THEOREM FrontNeverMissing == Spec => []FrontExists
<1>1. IInv => FrontExists
  <2> SUFFICES ASSUME IInv, NEW t \in Poppers, pc[t] = "move"
               PROVE  queue # <<>>
    BY DEF FrontExists
  <2>1. Poppers \in SUBSET Threads /\ t \in At(Poppers, {"lock", "move"})
    BY DEF Threads, At
  <2>2. Claimed # 0
    BY <2>1, Counted, FS_EmptySet DEF Claimed
  <2>3. exist \in Nat /\ Len(queue) = exist + Claimed + Unsaid
    BY AccountsInNumbers DEF IInv, TypeOK
  <2>4. Len(queue) # 0
    BY <2>2, <2>3, CountsTyped
  <2> QED
    BY <2>4
<1> QED
  BY <1>1, Invariance, PTL

\* What a thread may rely on between its steps, in one formula.
THEOREM Safety == Spec => []QueueSafe
BY TypeCorrect, MutualExclusion, Accounting, FrontNeverMissing, PTL DEF QueueSafe

\* A timed call gives up less than a second before the time it was given
\* (queue_t.h:218-248), for every clock and every wait.
THEOREM NotMuchTooEarly == Spec => TimeoutNotMuchTooEarly
<1>1. ASSUME IInv, [Next]_vars, NEW t \in Threads, pc[t] = "wait", pc'[t] = "idle"
      PROVE  now - start[t] > asked[t] - Second
  <2>1. pc \in [Threads -> PcSet]
    BY <1>1 DEF IInv, TypeOK
  <2>2. TimedOut(t, empty) \/ TimedOut(t, exist)
    <3>1. CASE \E u \in Pushers : PushCall(u) \/ PushStep(u)
      <4>1. PICK u \in Pushers : PushCall(u) \/ PushStep(u)
        BY <3>1
      <4>2. u \in Threads
        BY DEF Threads
      <4>3. \/ TimedOut(u, empty)
            \/ \E b \in PcSet : /\ pc' = [pc EXCEPT ![u] = b]
                                /\ b = "idle" => pc[u] = "unlock"
        BY <4>1 DEF PushCall, WaitTillPush, WaitTimePush, Call, PushStep, PushWait, Lock,
                    PushMove, PushPost, Unlock, Return, PcSet
      <4> QED
        BY <1>1, <2>1, <4>2, <4>3 DEF TimedOut, Return
    <3>2. CASE \E u \in Poppers : PopCall(u) \/ PopStep(u)
      <4>1. PICK u \in Poppers : PopCall(u) \/ PopStep(u)
        BY <3>2
      <4>2. u \in Threads
        BY DEF Threads
      <4>3. \/ TimedOut(u, exist)
            \/ \E b \in PcSet : /\ pc' = [pc EXCEPT ![u] = b]
                                /\ b = "idle" => pc[u] = "unlock"
        BY <4>1 DEF PopCall, WaitTillPop, WaitTimePop, Call, PopStep, PopWait, Lock,
                    PopMove, PopPost, Unlock, Return, PcSet
      <4> QED
        BY <1>1, <2>1, <4>2, <4>3 DEF TimedOut, Return
    <3>3. CASE Tick \/ UNCHANGED vars
      BY <1>1, <3>3 DEF Tick, vars
    <3> QED
      BY <1>1, <3>1, <3>2, <3>3 DEF Next
  <2>3. deadline[t] # Forever /\ now >= deadline[t]
    BY <2>2 DEF TimedOut
  <2>4. /\ deadline[t] \in Nat /\ now \in Nat /\ start[t] \in Nat
        /\ asked[t] \in Waits \cup {0}
    BY <1>1, <2>3, QueueTAssumption DEF IInv, TypeOK
  <2>5. asked[t] \in Nat /\ Second \in Nat
    <3>1. Second \in Nat
      BY QueueTAssumption
    <3>2. \A w \in Waits \cup {0} : w \in Nat
      BY QueueTAssumption
    <3> QED
      BY <2>4, <3>1, <3>2, Zenon
  <2>6. deadline[t] > start[t] + asked[t] - Second
    BY <1>1, <2>3 DEF IInv, DeadlineInv
  <2> QED
    BY <2>3, <2>4, <2>5, <2>6
<1>2. IInv /\ [Next]_vars =>
        [\A t \in Threads : pc[t] = "wait" /\ pc'[t] = "idle"
           => now - start[t] > asked[t] - Second]_vars
  BY <1>1
<1> QED
  BY <1>2, Invariance, PTL DEF Spec, TimeoutNotMuchTooEarly

\* The queue implements a bounded first-in first-out queue (queue_t.h:124-336):
\* whatever waits, times out or is interrupted, a step appends a node that was
\* pushed, gives the oldest node to one popper, or leaves both as they are.
THEOREM Refinement == Spec => ImplementsFifo
<1>1. Init => Fifo!Init
  BY DEF Init, Fifo!Init
<1>2. ASSUME IInv, (Len(queue) <= MaxNodeNum)', [Next]_vars
      PROVE  [Fifo!Next]_(Fifo!vars)
  <2>1. CASE \E t \in Pushers : PushCall(t) \/ PushStep(t)
    <3>1. PICK t \in Pushers : PushCall(t) \/ PushStep(t)
      BY <2>1
    <3>2. CASE PushMove(t)
      <4>1. node[t] \in Nodes
        BY <1>2, <3>2 DEF IInv, NodeInv, PushMove
      <4> QED
        BY <1>2, <3>2, <4>1 DEF PushMove, Fifo!Next, Fifo!Put
    <3>3. CASE ~PushMove(t)
      <4>1. UNCHANGED <<queue, got>>
        BY <3>1, <3>3 DEF PushCall, WaitTillPush, WaitTimePush, Call, PushStep, PushWait,
                          TimedOut, Lock, PushPost, Unlock
      <4> QED
        BY <4>1 DEF Fifo!vars
    <3> QED
      BY <3>2, <3>3
  <2>2. CASE \E t \in Poppers : PopCall(t) \/ PopStep(t)
    <3>1. PICK t \in Poppers : PopCall(t) \/ PopStep(t)
      BY <2>2
    <3>2. CASE PopMove(t)
      BY <3>2 DEF PopMove, Fifo!Next, Fifo!Take
    <3>3. CASE ~PopMove(t)
      <4>1. UNCHANGED <<queue, got>>
        BY <3>1, <3>3 DEF PopCall, WaitTillPop, WaitTimePop, Call, PopStep, PopWait,
                          TimedOut, Lock, PopPost, Unlock
      <4> QED
        BY <4>1 DEF Fifo!vars
    <3> QED
      BY <3>2, <3>3
  <2>3. CASE Tick \/ UNCHANGED vars
    BY <2>3 DEF Tick, vars, Fifo!vars
  <2> QED
    BY <1>2, <2>1, <2>2, <2>3 DEF Next
<1> QED
  BY <1>1, <1>2, Invariance, Bounded, PTL DEF Spec, ImplementsFifo, Fifo!Spec
=============================================================================
