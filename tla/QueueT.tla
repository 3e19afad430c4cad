------------------------------- MODULE QueueT -------------------------------
(***************************************************************************)
(* CQueueT (templates/queue_t.h): a bounded queue for threads, made of two *)
(* counting semaphores and a mutex.  A push waits for an empty place,      *)
(* takes the mutex, appends, announces the item and lets the mutex go; a   *)
(* pop is the mirror image.  Either may wait for ever (WaitTill...) or up  *)
(* to a deadline (WaitTime...) that is computed from the seconds of the    *)
(* clock alone.                                                            *)
(***************************************************************************)
EXTENDS Integers, Sequences, FiniteSets

CONSTANTS
  Pushers, Poppers,
  Nodes,                \* what callers push
  MaxNodeNum,           \* m_udwMaxNodeNum
  Waits,                \* the usec arguments of the timed calls, in ticks
  Second,               \* ticks in a second (10^6 in the code)
  MaxTime,              \* bound: the clock stops here
  Forever,              \* the deadline of the untimed calls
  None                  \* no thread, no item

Threads == Pushers \cup Poppers

ASSUME QueueTAssumption ==
  /\ MaxNodeNum \in Nat /\ Second \in Nat \ {0} /\ MaxTime \in Nat
  /\ Waits \subseteq Nat /\ Forever \notin Nat
  /\ Pushers \cap Poppers = {} /\ None \notin Threads
  /\ IsFiniteSet(Threads)

VARIABLES
  queue,                \* m_queue
  exist, empty,         \* the values of m_semExist and m_semEmpty
  owner,                \* who holds m_mtxQue
  pc,                   \* where each thread is in its call
  node,                 \* the node a push brings or a pop took
  deadline,             \* ts of the call
  start, asked,         \* history: when the call was made, for how long
  got,                  \* got[t]: what the last pop of t returned
  now                   \* the clock

vars == <<queue, exist, empty, owner, pc, node, deadline, start, asked, got, now>>

PcSet == {"idle", "wait", "lock", "move", "post", "unlock"}

\* Faulty variant: one place too many.
InitOneMore ==
  /\ queue = <<>> /\ exist = 0 /\ empty = MaxNodeNum + 1 /\ owner = None
  /\ pc = [t \in Threads |-> "idle"]
  /\ node = [t \in Threads |-> None]
  /\ deadline = [t \in Threads |-> Forever]
  /\ start = [t \in Threads |-> 0]
  /\ asked = [t \in Threads |-> 0]
  /\ got = [t \in Poppers |-> None]
  /\ now = 0

\* Init(udwMaxNodeNum)
Init ==
  /\ queue = <<>> /\ exist = 0 /\ empty = MaxNodeNum /\ owner = None
  /\ pc = [t \in Threads |-> "idle"]
  /\ node = [t \in Threads |-> None]
  /\ deadline = [t \in Threads |-> Forever]
  /\ start = [t \in Threads |-> 0]
  /\ asked = [t \in Threads |-> 0]
  /\ got = [t \in Poppers |-> None]
  /\ now = 0

-----------------------------------------------------------------------------
\* Faulty variant: the whole seconds of usec are not carried.
DeadlineOfRest(usec) == (now - (now % Second)) + (usec % Second)

\* ts: time(NULL), which has lost the fraction of the second, plus usec.
DeadlineOf(usec) == (now - (now % Second)) + usec

Call(t, n, dl, since, usec) ==
  /\ pc[t] = "idle"
  /\ pc' = [pc EXCEPT ![t] = "wait"]
  /\ node' = [node EXCEPT ![t] = n]
  /\ deadline' = [deadline EXCEPT ![t] = dl]
  /\ start' = [start EXCEPT ![t] = since]
  /\ asked' = [asked EXCEPT ![t] = usec]
  /\ UNCHANGED <<queue, exist, empty, owner, got, now>>

WaitTillPush(t, n)       == Call(t, n, Forever, 0, 0)
WaitTimePush(t, n, usec) == Call(t, n, DeadlineOf(usec), now, usec)
WaitTillPop(t)           == Call(t, None, Forever, 0, 0)
WaitTimePop(t, usec)     == Call(t, None, DeadlineOf(usec), now, usec)

\* The call is over: its locals are forgotten.
Return(t) ==
  /\ pc' = [pc EXCEPT ![t] = "idle"]
  /\ node' = [node EXCEPT ![t] = None]
  /\ deadline' = [deadline EXCEPT ![t] = Forever]
  /\ start' = [start EXCEPT ![t] = 0]
  /\ asked' = [asked EXCEPT ![t] = 0]

\* sem_wait or sem_timedwait gets the semaphore.  EINTR only repeats the wait.
PushWait(t) ==
  /\ pc[t] = "wait" /\ empty > 0
  /\ empty' = empty - 1
  /\ pc' = [pc EXCEPT ![t] = "lock"]
  /\ UNCHANGED <<queue, exist, owner, node, deadline, start, asked, got, now>>

\* Faulty variant: EINTR counts as success.
PopWaitInterrupted(t) ==
  /\ pc[t] = "wait"
  /\ exist' = IF exist > 0 THEN exist - 1 ELSE exist
  /\ pc' = [pc EXCEPT ![t] = "lock"]
  /\ UNCHANGED <<queue, empty, owner, node, deadline, start, asked, got, now>>

PopWait(t) ==
  /\ pc[t] = "wait" /\ exist > 0
  /\ exist' = exist - 1
  /\ pc' = [pc EXCEPT ![t] = "lock"]
  /\ UNCHANGED <<queue, empty, owner, node, deadline, start, asked, got, now>>

\* ETIMEDOUT: the semaphore is not available and the deadline has passed; -1.
TimedOut(t, sem) ==
  /\ pc[t] = "wait" /\ sem = 0
  /\ deadline[t] # Forever /\ now >= deadline[t]
  /\ Return(t)
  /\ UNCHANGED <<queue, exist, empty, owner, got, now>>

Lock(t) ==
  /\ pc[t] = "lock" /\ owner = None
  /\ owner' = t
  /\ pc' = [pc EXCEPT ![t] = "move"]
  /\ UNCHANGED <<queue, exist, empty, node, deadline, start, asked, got, now>>

\* m_queue.push(Node)
PushMove(t) ==
  /\ pc[t] = "move"
  /\ queue' = Append(queue, node[t])
  /\ pc' = [pc EXCEPT ![t] = "post"]
  /\ UNCHANGED <<exist, empty, owner, node, deadline, start, asked, got, now>>

\* Node = m_queue.front(); m_queue.pop().  Both are undefined on an empty
\* queue: then the step is not possible, see FrontExists.
PopMove(t) ==
  /\ pc[t] = "move" /\ queue # <<>>
  /\ got' = [got EXCEPT ![t] = Head(queue)]
  /\ queue' = Tail(queue)
  /\ pc' = [pc EXCEPT ![t] = "post"]
  /\ UNCHANGED <<exist, empty, owner, node, deadline, start, asked, now>>

PushPost(t) ==
  /\ pc[t] = "post"
  /\ exist' = exist + 1
  /\ pc' = [pc EXCEPT ![t] = "unlock"]
  /\ UNCHANGED <<queue, empty, owner, node, deadline, start, asked, got, now>>

\* Faulty variant: posts the wrong semaphore.
PopPostExist(t) ==
  /\ pc[t] = "post"
  /\ exist' = exist + 1
  /\ pc' = [pc EXCEPT ![t] = "unlock"]
  /\ UNCHANGED <<queue, empty, owner, node, deadline, start, asked, got, now>>

PopPost(t) ==
  /\ pc[t] = "post"
  /\ empty' = empty + 1
  /\ pc' = [pc EXCEPT ![t] = "unlock"]
  /\ UNCHANGED <<queue, exist, owner, node, deadline, start, asked, got, now>>

Unlock(t) ==
  /\ pc[t] = "unlock"
  /\ owner' = None
  /\ Return(t)
  /\ UNCHANGED <<queue, exist, empty, got, now>>

Tick == /\ now < MaxTime
        /\ now' = now + 1
        /\ UNCHANGED <<queue, exist, empty, owner, pc, node, deadline, start, asked, got>>

-----------------------------------------------------------------------------
PushCall(t) == \E n \in Nodes : \/ WaitTillPush(t, n)
                                \/ \E usec \in Waits : WaitTimePush(t, n, usec)
PopCall(t) == WaitTillPop(t) \/ \E usec \in Waits : WaitTimePop(t, usec)

PushStep(t) == PushWait(t) \/ TimedOut(t, empty) \/ Lock(t) \/ PushMove(t)
                 \/ PushPost(t) \/ Unlock(t)
PopStep(t) == PopWait(t) \/ TimedOut(t, exist) \/ Lock(t) \/ PopMove(t)
                \/ PopPost(t) \/ Unlock(t)

Next == \/ \E t \in Pushers : PushCall(t) \/ PushStep(t)
        \/ \E t \in Poppers : PopCall(t) \/ PopStep(t)
        \/ Tick

Spec == Init /\ [][Next]_vars

\* Threads inside a call keep running.  Mutex and semaphores are not fair:
\* a thread that waits may be overtaken, but some thread gets through.
\* Consumers call again and again, with untimed or timed pops.
Fairness ==
  /\ \A t \in Pushers : WF_vars(PushStep(t))
  /\ \A t \in Poppers : WF_vars(PopStep(t) \/ PopCall(t))

FairSpec == Spec /\ Fairness

-----------------------------------------------------------------------------
(* Correctness *)

\* Types of the state.
TypeOK ==
  /\ queue \in Seq(Nodes)
  /\ exist \in Nat /\ empty \in Nat
  /\ owner \in Threads \cup {None}
  /\ pc \in [Threads -> PcSet]
  /\ node \in [Threads -> Nodes \cup {None}]
  /\ deadline \in [Threads -> Nat \cup {Forever}]
  /\ start \in [Threads -> 0 .. MaxTime]
  /\ asked \in [Threads -> Waits \cup {0}]
  /\ got \in [Poppers -> Nodes \cup {None}]
  /\ now \in 0 .. MaxTime

At(T, places) == {t \in T : pc[t] \in places}

\* Every place of the queue is accounted for: it is free, or a pusher has
\* reserved it, or it holds a node, or a popper has emptied it and not said so
\* yet (queue_t.h:130-166 and 175-212).
PlacesAccounted ==
  MaxNodeNum = empty + Len(queue) + Cardinality(At(Pushers, {"lock", "move"}))
                 + Cardinality(At(Poppers, {"post"}))

\* Every node is accounted for: announced, or claimed by a popper, or pushed by
\* a thread that has not announced it yet.
NodesAccounted ==
  Len(queue) = exist + Cardinality(At(Poppers, {"lock", "move"}))
                 + Cardinality(At(Pushers, {"post"}))

\* front() and pop() never meet an empty queue (queue_t.h:198-199, 321-322):
\* a semaphore token always stands for a node of its own.
FrontExists == \A t \in Poppers : pc[t] = "move" => queue # <<>>

\* One thread at a time touches m_queue.
Exclusive == \A t \in Threads : pc[t] \in {"move", "post", "unlock"} => owner = t

\* What every thread may rely on between its own steps: nodes and places are
\* accounted for, front() finds a node, and m_queue is touched by one at a time.
QueueSafe ==
  /\ TypeOK /\ Exclusive
  /\ PlacesAccounted /\ NodesAccounted /\ FrontExists

\* A timed call returns -1 at most a second before the time it was given: all
\* that time(NULL) loses is the fraction of a second (queue_t.h:218-229).
TimeoutNotMuchTooEarly ==
  [][\A t \in Threads :
       pc[t] = "wait" /\ pc'[t] = "idle"
         => now - start[t] > asked[t] - Second]_vars

\* What the comments of the timed calls say (queue_t.h:35-53): they wait for
\* the time they are given before they give up.
TimeoutNotEarly ==
  [][\A t \in Threads :
       pc[t] = "wait" /\ pc'[t] = "idle"
         => now - start[t] >= asked[t]]_vars

\* The queue implements a bounded first-in first-out queue; timeouts lose
\* nothing and duplicate nothing.
Fifo == INSTANCE BoundedFifo WITH
          Items <- Nodes, Takers <- Poppers, Capacity <- MaxNodeNum,
          Weight <- Len, NoItem <- None, q <- queue
ImplementsFifo == Fifo!Spec

\* A push always gets through while somebody pops, although the semaphores and
\* the mutex are not fair, if no other pusher competes with it (with a second
\* pusher it may be overtaken for ever).
PushReturns == \A t \in Pushers : pc[t] = "wait" ~> pc[t] = "idle"
=============================================================================
