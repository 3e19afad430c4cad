---------------------------- MODULE ServerProofs ----------------------------
(***************************************************************************)
(* Proofs about the parts of Server, for every value of their constants:   *)
(* each part has an inductive invariant of its own, and a step of the      *)
(* server is a step of the part or leaves it alone.                        *)
(***************************************************************************)
EXTENDS Server, Arithmetic, SequenceTheorems

-----------------------------------------------------------------------------
\* A step of the server is a step of a part or leaves the part alone.
LEMMA PartSteps ==
  ASSUME [Next]_vars
  PROVE  /\ Session!Next \/ UNCHANGED Session!sessionVars
         /\ Grid!Next \/ UNCHANGED Grid!gridVars
         /\ Logger!Next \/ UNCHANGED Logger!logVars
         /\ Stats!Next \/ UNCHANGED Stats!statVars
         /\ Fifo!Next \/ UNCHANGED Fifo!fifoVars
         /\ Http!Next \/ UNCHANGED <<Http!serverVars, Http!clientVars>>
         /\ Db!Next \/ UNCHANGED Db!dbVars
         /\ Sem!Next \/ UNCHANGED Sem!ipcVars
         /\ now' = now \/ Session!Next \/ Grid!Next \/ Logger!Next \/ Stats!Next
BY DEF Next, vars, sessionVars, gridVars, logVars, statVars, fifoVars, httpVars, dbVars, ipcVars,
       Session!sessionVars, Grid!gridVars, Logger!logVars, Stats!statVars, Fifo!fifoVars,
       Http!serverVars, Http!clientVars, Db!dbVars, Sem!ipcVars

-----------------------------------------------------------------------------
(* The semaphore: the lock survives the death of any process *)

Labels == {"out", "setval", "initLock", "init", "idle", "cache", "csem", "inside"}

SemTypes ==
  /\ pc \in [Processes -> Labels]
  /\ sem \in Int /\ undo \in [Processes -> Int]
  /\ shmSize \in BOOLEAN
  /\ interrupts \in [Processes -> Int]
  /\ underUsers \in BOOLEAN

\* What the kernel would undo is the lock, of whoever holds it.
UndoIsLock == \A p \in Processes : undo[p] = IF pc[p] \in {"inside", "init"} THEN 1 ELSE 0

\* LockSurvives, member by member.
LockHeld ==
  shmSize \/ (\E p \in Processes : pc[p] \notin {"out", "setval"}) =>
    /\ sem \in {0, 1}
    /\ sem = 1 => \A p \in Processes : pc[p] \notin {"inside", "init"}
    /\ sem = 0 => \E p \in Processes : pc[p] \in {"inside", "init"}
    /\ \A p, q \in Processes : pc[p] \in {"inside", "init"} /\ pc[q] \in {"inside", "init"} => p = q

SemInv == SemTypes /\ (~underUsers => UndoIsLock /\ LockHeld)

LEMMA SemInvInit == Sem!Init => SemInv
<1> SUFFICES ASSUME Sem!Init PROVE SemInv
  OBVIOUS
<1>1. \A p \in Processes : pc[p] = "out" /\ undo[p] = 0
  BY DEF Sem!Init
<1>2. SemTypes
  <2>1. pc \in [Processes -> Labels]
    BY DEF Sem!Init, Labels
  <2>2. undo \in [Processes -> Int] /\ interrupts \in [Processes -> Int]
    BY DEF Sem!Init
  <2>3. sem \in Int
    BY DEF Sem!Init
  <2>4. shmSize \in BOOLEAN /\ underUsers \in BOOLEAN
    BY Zenon DEF Sem!Init
  <2>5. QED
    BY <2>1, <2>2, <2>3, <2>4 DEF SemTypes
<1>3. UndoIsLock /\ LockHeld
  BY <1>1 DEF Sem!Init, UndoIsLock, LockHeld
<1>4. QED
  BY <1>2, <1>3 DEF SemInv

LEMMA SemInvStep == ASSUME SemInv, [Sem!Next]_(Sem!ipcVars) PROVE SemInv'
<1> USE DEF SemInv, SemTypes, UndoIsLock, LockHeld, Labels, Sem!Go, Sem!Semop, Sem!Undo, Sem!Attached
<1>1. CASE UNCHANGED Sem!ipcVars
  BY <1>1 DEF Sem!ipcVars
<1>2. ASSUME NEW p \in Processes, Sem!Attach(p) PROVE SemInv'
  BY <1>2 DEF Sem!Attach
<1>3. ASSUME NEW p \in Processes, Sem!SetVal(p) PROVE SemInv'
  <2>1. sem' = 1 /\ undo' = [q \in Processes |-> 0] /\ pc' = [pc EXCEPT ![p] = "initLock"]
    BY <1>3 DEF Sem!SetVal
  <2>2. SemTypes'
    <3>1. underUsers' \in BOOLEAN
      BY <1>3, Zenon DEF Sem!SetVal
    <3>2. shmSize' \in BOOLEAN /\ interrupts' \in [Processes -> Int]
      BY <1>3, Zenon DEF Sem!SetVal
    <3>3. pc' \in [Processes -> Labels] /\ undo' \in [Processes -> Int] /\ sem' \in Int
      BY <2>1
    <3>4. QED
      BY <3>1, <3>2, <3>3, Zenon
  <2>3. CASE underUsers'
    BY <2>2, <2>3, Zenon
  <2>4. CASE ~underUsers'
    <3>1. Sem!Users = {}
      BY <1>3, <2>4, Zenon DEF Sem!SetVal
    <3>2. \A q \in Processes : pc[q] \in {"out", "setval"}
      BY <3>1 DEF Sem!Users
    <3>3. UndoIsLock' /\ LockHeld'
      BY <2>1, <3>2
    <3>4. QED
      BY <2>2, <3>3, Zenon
  <2>5. QED
    BY <2>3, <2>4, Zenon
<1>4. ASSUME NEW p \in Processes, Sem!InitLock(p) PROVE SemInv'
  BY <1>4 DEF Sem!InitLock
<1>5. ASSUME NEW p \in Processes, Sem!InitDone(p) PROVE SemInv'
  BY <1>5 DEF Sem!InitDone
<1>6. ASSUME NEW p \in Processes, NEW user \in {"cache", "csem"}, Sem!Call(p, user) PROVE SemInv'
  BY <1>6 DEF Sem!Call
<1>7. ASSUME NEW p \in Processes, Sem!Interrupted(p) PROVE SemInv'
  BY <1>7 DEF Sem!Interrupted, Sem!Waits
<1>8. ASSUME NEW p \in Processes, Sem!Lock(p) PROVE SemInv'
  BY <1>8 DEF Sem!Lock, Sem!Waits
<1>9. ASSUME NEW p \in Processes, Sem!TryWaitFails(p) PROVE SemInv'
  BY <1>9 DEF Sem!TryWaitFails
<1>10. ASSUME NEW p \in Processes, Sem!Unlock(p) PROVE SemInv'
  BY <1>10 DEF Sem!Unlock
<1>11. ASSUME NEW p \in Processes, Sem!Crash(p) PROVE SemInv'
  BY <1>11 DEF Sem!Crash
<1>12. ASSUME NEW p \in Processes, Sem!Detach(p) PROVE SemInv'
  <2>1. /\ pc[p] = "idle" /\ pc' = [pc EXCEPT ![p] = "out"]
        /\ undo' = [undo EXCEPT ![p] = 0]
    BY <1>12 DEF Sem!Detach
  <2>2. SemTypes'
    <3>1. sem' \in Int
      BY <1>12 DEF Sem!Detach
    <3>2. shmSize' \in BOOLEAN /\ underUsers' \in BOOLEAN /\ interrupts' \in [Processes -> Int]
      BY <1>12, Zenon DEF Sem!Detach
    <3>3. pc' \in [Processes -> Labels] /\ undo' \in [Processes -> Int]
      BY <2>1
    <3>4. QED
      BY <3>1, <3>2, <3>3, Zenon
  <2>3. CASE underUsers
    BY <1>12, <2>2, <2>3, Zenon DEF Sem!Detach
  <2>4. CASE ~underUsers
    <3>1. UndoIsLock /\ LockHeld /\ undo[p] = 0
      BY <2>1, <2>4
    <3>2. sem \in {0, 1}
      BY <2>1, <3>1
    <3>3. sem' = sem
      BY <1>12, <3>1, <3>2 DEF Sem!Detach
    <3>4. UndoIsLock'
      BY <2>1, <3>1
    <3>5. LockHeld'
      BY <2>1, <3>1, <3>3
    <3>6. QED
      BY <2>2, <3>4, <3>5, Zenon
  <2>5. QED
    BY <2>3, <2>4, Zenon
<1>13. QED
  BY <1>1, <1>2, <1>3, <1>4, <1>5, <1>6, <1>7, <1>8, <1>9, <1>10, <1>11, <1>12 DEF Sem!Next

\* Whatever process dies wherever it is, at most one holds the lock, and while
\* none does the semaphore is free (Lock, Unlock, CSem, SEM_UNDO), as long as no
\* process initialised the memory under the feet of another.
THEOREM LockCorrect == Spec => []LockSurvives
<1>1. Init => SemInv
  BY SemInvInit DEF Init
<1>2. SemInv /\ [Next]_vars => SemInv'
  BY SemInvStep, PartSteps
<1>3. SemInv => LockSurvives
  BY DEF SemInv, SemTypes, LockHeld, LockSurvives, Sem!LockSurvives, Sem!Holders, Sem!Users
<1>4. QED
  BY <1>1, <1>2, <1>3, PTL DEF Spec

-----------------------------------------------------------------------------
(* The two ends of the pipe pair *)

Pipes == {"pipe1", "pipe2"}

FifoTypes ==
  /\ side \in [Fifo!Procs -> {"alone", "unborn", "both", "chosen", "ended"}]
  /\ held \in [Fifo!Procs -> SUBSET Fifo!Ends]
  /\ pipe \in [Pipes -> Seq(Nat)] /\ got \in [Fifo!Procs -> Seq(Nat)]
  /\ sent \in [Fifo!Procs -> Nat]

\* Which ends a process has open follows from what it has done.
EndsInv ==
  /\ side["child"] = "unborn" <=> side["parent"] = "alone"
  /\ side["parent"] # "unborn" /\ side["child"] # "alone"
  /\ \A p \in Fifo!Procs :
       /\ side[p] \in {"alone", "both"} => held[p] = Fifo!Ends
       /\ side[p] = "chosen" => held[p] = Fifo!Ends \ Fifo!Unused(p)
       /\ side[p] \in {"unborn", "ended"} => held[p] = {}

\* What was received and what is in the pipe are the bytes sent, in order.
FifoInOrder(p) ==
  side[p] # "ended" =>
    /\ Len(got[p]) + Len(pipe[Fifo!RecvPipe(p)]) = sent[Fifo!Peer(p)]
    /\ \A i \in 1 .. Len(got[p]) : got[p][i] = i
    /\ \A i \in 1 .. Len(pipe[Fifo!RecvPipe(p)]) : pipe[Fifo!RecvPipe(p)][i] = Len(got[p]) + i

StreamInv == \A p \in Fifo!Procs : FifoInOrder(p)

FifoInv == FifoTypes /\ EndsInv /\ StreamInv

LEMMA Wiring ==
  /\ Fifo!Peer("parent") = "child" /\ Fifo!Peer("child") = "parent"
  /\ Fifo!SendPipe("parent") = "pipe1" /\ Fifo!SendPipe("child") = "pipe2"
  /\ Fifo!RecvPipe("parent") = "pipe2" /\ Fifo!RecvPipe("child") = "pipe1"
  /\ Fifo!Unused("parent") = {<<"pipe1", "r">>, <<"pipe2", "w">>}
  /\ Fifo!Unused("child") = {<<"pipe2", "r">>, <<"pipe1", "w">>}
  /\ Fifo!Ends = {<<"pipe1", "r">>, <<"pipe1", "w">>, <<"pipe2", "r">>, <<"pipe2", "w">>}
<1>1. Fifo!Peer("parent") = "child" /\ Fifo!Peer("child") = "parent"
  BY DEF Fifo!Peer, Fifo!Procs
<1>2. /\ Fifo!SendPipe("parent") = "pipe1" /\ Fifo!SendPipe("child") = "pipe2"
      /\ Fifo!RecvPipe("parent") = "pipe2" /\ Fifo!RecvPipe("child") = "pipe1"
  BY <1>1 DEF Fifo!SendPipe, Fifo!RecvPipe
<1>3. QED
  BY <1>1, <1>2 DEF Fifo!Unused, Fifo!Ends

LEMMA FifoInvInit == Fifo!Init => FifoInv
<1> SUFFICES ASSUME Fifo!Init PROVE FifoInv
  OBVIOUS
<1>1. FifoTypes
  BY DEF Fifo!Init, FifoTypes, Fifo!Procs, Pipes, Fifo!Ends
<1>2. EndsInv
  BY DEF Fifo!Init, EndsInv, Fifo!Procs
<1>3. StreamInv
  BY Wiring DEF Fifo!Init, StreamInv, FifoInOrder, Fifo!Procs
<1>4. QED
  BY <1>1, <1>2, <1>3 DEF FifoInv

\* A process still reads from its pipe exactly while it has not ended.
LEMMA Readers ==
  ASSUME FifoInv
  PROVE  \A p \in Fifo!Procs :
           /\ side[p] \in {"chosen", "both"} => <<Fifo!RecvPipe(p), "r">> \in held[p]
           /\ side[p] = "chosen" => <<Fifo!SendPipe(p), "r">> \notin held[p] /\ <<Fifo!RecvPipe(p), "w">> \notin held[p]
BY Wiring DEF FifoInv, EndsInv, Fifo!Procs

LEMMA FifoInvStep == ASSUME FifoInv, [Fifo!Next]_(Fifo!fifoVars) PROVE FifoInv'
<1>0. FifoTypes /\ EndsInv /\ StreamInv
  BY DEF FifoInv
<1>1. CASE UNCHANGED Fifo!fifoVars
  BY <1>0, <1>1 DEF Fifo!fifoVars, FifoInv, FifoTypes, EndsInv, StreamInv, FifoInOrder
<1>2. CASE Fifo!Fork
  <2>1. FifoTypes' /\ EndsInv'
    BY <1>0, <1>2 DEF Fifo!Fork, FifoTypes, EndsInv, Fifo!Procs
  <2>2. StreamInv'
    BY <1>0, <1>2 DEF Fifo!Fork, StreamInv, FifoInOrder, EndsInv, Fifo!Procs
  <2>3. QED
    BY <2>1, <2>2 DEF FifoInv
<1>3. ASSUME NEW p \in Fifo!Procs, Fifo!CloseBy(p) PROVE FifoInv'
  <2>1. FifoTypes'
    BY <1>0, <1>3 DEF Fifo!CloseBy, FifoTypes
  <2>2. EndsInv'
    BY <1>0, <1>3 DEF Fifo!CloseBy, FifoTypes, EndsInv, Fifo!Procs
  <2>3. StreamInv'
    BY <1>0, <1>3 DEF Fifo!CloseBy, FifoTypes, StreamInv, FifoInOrder
  <2>4. QED
    BY <2>1, <2>2, <2>3 DEF FifoInv
<1>4. ASSUME NEW p \in Fifo!Procs, Fifo!Send(p) PROVE FifoInv'
  <2> DEFINE x == Fifo!SendPipe(p)
             q == Fifo!Peer(p)
  <2>1. /\ x \in Pipes /\ q \in Fifo!Procs /\ p # q /\ x = Fifo!RecvPipe(q) /\ x # Fifo!RecvPipe(p) /\ Fifo!Peer(q) = p
        /\ \A r \in Fifo!Procs : r = p \/ r = q
    BY Wiring DEF Pipes, Fifo!Procs
  <2>2. /\ sent' = [sent EXCEPT ![p] = @ + 1] /\ pipe' = [pipe EXCEPT ![x] = Append(@, sent'[p])]
        /\ UNCHANGED <<held, side, got>>
    BY <1>4 DEF Fifo!Send
  <2> HIDE DEF x, q
  <2>3. sent' \in [Fifo!Procs -> Nat] /\ sent'[p] = sent[p] + 1 /\ sent'[q] = sent[q] /\ sent[p] \in Nat
    BY <1>0, <2>1, <2>2 DEF FifoTypes
  <2>4. pipe' \in [Pipes -> Seq(Nat)] /\ pipe'[x] = Append(pipe[x], sent[p] + 1)
        /\ pipe'[Fifo!RecvPipe(p)] = pipe[Fifo!RecvPipe(p)]
    BY <1>0, <2>1, <2>2, <2>3 DEF FifoTypes
  <2>5. pipe[x] \in Seq(Nat) /\ Len(pipe[x]) \in Nat /\ Len(got[q]) \in Nat
    BY <1>0, <2>1 DEF FifoTypes
  <2>6. /\ Len(pipe'[x]) = Len(pipe[x]) + 1 /\ pipe'[x][Len(pipe[x]) + 1] = sent[p] + 1
        /\ \A i \in 1 .. Len(pipe[x]) : pipe'[x][i] = pipe[x][i]
    BY <2>3, <2>4, <2>5, AppendProperties
  <2>7. FifoTypes' /\ EndsInv'
    BY <1>0, <2>2, <2>3, <2>4 DEF FifoTypes, EndsInv
  <2>8. ASSUME side[q] # "ended"
        PROVE  /\ Len(got[q]) + Len(pipe'[x]) = sent'[p]
               /\ \A i \in 1 .. Len(pipe'[x]) : pipe'[x][i] = Len(got[q]) + i
    <3> DEFINE a == Len(got[q])
               b == Len(pipe[x])
               d == sent[p]
    <3>1. a + b = d /\ \A i \in 1 .. b : pipe[x][i] = a + i
      BY <1>0, <2>1, <2>8 DEF StreamInv, FifoInOrder
    <3>2. a \in Nat /\ b \in Nat /\ d \in Nat
      BY <2>3, <2>5
    <3>3. Len(pipe'[x]) = b + 1 /\ pipe'[x][b + 1] = d + 1 /\ \A i \in 1 .. b : pipe'[x][i] = pipe[x][i]
      BY <2>6
    <3> HIDE DEF a, b, d
    <3>4. a + (b + 1) = d + 1
      BY <3>1, <3>2
    <3>5. ASSUME NEW i \in 1 .. b + 1 PROVE pipe'[x][i] = a + i
      <4>1. CASE i \in 1 .. b
        BY <3>1, <3>3, <4>1
      <4>2. CASE i = b + 1
        BY <3>2, <3>3, <3>4, <4>2
      <4>3. QED
        BY <3>2, <4>1, <4>2
    <3>6. QED
      BY <2>3, <3>3, <3>4, <3>5 DEF a, b, d
  <2>9. StreamInv'
    <3>1. FifoInOrder(q)'
      <4>1. FifoInOrder(q)
        BY <1>0, <2>1 DEF StreamInv
      <4>2. side[q] # "ended" => \A i \in 1 .. Len(got[q]) : got[q][i] = i
        BY <4>1 DEF FifoInOrder
      <4>3. Fifo!RecvPipe(q)' = x /\ Fifo!Peer(q)' = p /\ got' = got /\ side' = side
        BY <2>1, <2>2
      <4>4. QED
        BY <2>8, <4>2, <4>3 DEF FifoInOrder
    <3>2. FifoInOrder(p)'
      <4>1. FifoInOrder(p)
        BY <1>0 DEF StreamInv
      <4>2. QED
        BY <2>2, <2>3, <2>4, <4>1 DEF FifoInOrder, q
    <3>3. QED
      BY <2>1, <3>1, <3>2 DEF StreamInv
  <2>10. QED
    BY <2>7, <2>9 DEF FifoInv
<1>5. ASSUME NEW p \in Fifo!Procs, Fifo!Recv(p) PROVE FifoInv'
  <2> DEFINE x == Fifo!RecvPipe(p)
             q == Fifo!Peer(p)
  <2>1. /\ x \in Pipes /\ q \in Fifo!Procs /\ p # q /\ x # Fifo!RecvPipe(q)
        /\ \A r \in Fifo!Procs : r = p \/ r = q
    BY Wiring DEF Pipes, Fifo!Procs
  <2>2. /\ side[p] = "chosen" /\ pipe[x] # <<>>
        /\ got' = [got EXCEPT ![p] = Append(@, Head(pipe[x]))]
        /\ pipe' = [pipe EXCEPT ![x] = Tail(@)] /\ UNCHANGED <<held, side, sent>>
    BY <1>5 DEF Fifo!Recv
  <2> HIDE DEF x, q
  <2>3. pipe[x] \in Seq(Nat) /\ got[p] \in Seq(Nat) /\ Len(got[p]) \in Nat
    BY <1>0, <2>1 DEF FifoTypes
  <2>4. /\ Head(pipe[x]) \in Nat /\ Head(pipe[x]) = pipe[x][1] /\ Tail(pipe[x]) \in Seq(Nat)
        /\ Len(pipe[x]) \in Nat /\ Len(pipe[x]) >= 1 /\ Len(Tail(pipe[x])) = Len(pipe[x]) - 1
        /\ \A i \in 1 .. Len(Tail(pipe[x])) : Tail(pipe[x])[i] = pipe[x][i + 1]
    BY <2>2, <2>3, HeadTailProperties
  <2>5. /\ pipe' \in [Pipes -> Seq(Nat)] /\ pipe'[x] = Tail(pipe[x])
        /\ pipe'[Fifo!RecvPipe(q)] = pipe[Fifo!RecvPipe(q)]
    BY <1>0, <2>1, <2>2, <2>4 DEF FifoTypes
  <2>6. /\ got' \in [Fifo!Procs -> Seq(Nat)] /\ got'[p] = Append(got[p], Head(pipe[x])) /\ got'[q] = got[q]
    BY <1>0, <2>1, <2>2, <2>3, <2>4 DEF FifoTypes
  <2>7. /\ Len(got'[p]) = Len(got[p]) + 1 /\ got'[p][Len(got[p]) + 1] = pipe[x][1]
        /\ \A i \in 1 .. Len(got[p]) : got'[p][i] = got[p][i]
    BY <2>3, <2>4, <2>6, AppendProperties
  <2>8. FifoTypes' /\ EndsInv'
    BY <1>0, <2>2, <2>5, <2>6 DEF FifoTypes, EndsInv
  <2> DEFINE a == Len(got[p])
             b == Len(pipe[x])
             d == sent[q]
  <2>9. /\ a + b = d /\ a \in Nat /\ b \in Nat /\ d \in Nat /\ b >= 1
        /\ \A i \in 1 .. a : got[p][i] = i
        /\ \A i \in 1 .. b : pipe[x][i] = a + i
    <3>1. FifoInOrder(p) /\ sent[q] \in Nat
      BY <1>0, <2>1 DEF StreamInv, FifoTypes
    <3>2. QED
      BY <2>2, <2>3, <2>4, <3>1 DEF FifoInOrder, x, q
  <2>10. /\ Len(got'[p]) = a + 1 /\ got'[p][a + 1] = pipe[x][1] /\ \A i \in 1 .. a : got'[p][i] = got[p][i]
         /\ Len(pipe'[x]) = b - 1 /\ \A i \in 1 .. b - 1 : pipe'[x][i] = pipe[x][i + 1]
    BY <2>4, <2>5, <2>7
  <2> HIDE DEF a, b, d
  <2>11. /\ (a + 1) + (b - 1) = d
         /\ \A i \in 1 .. a + 1 : got'[p][i] = i
         /\ \A i \in 1 .. b - 1 : pipe'[x][i] = (a + 1) + i
    <3>1. (a + 1) + (b - 1) = d
      BY <2>9
    <3>2. pipe[x][1] = a + 1
      BY <2>9
    <3>3. ASSUME NEW i \in 1 .. a + 1 PROVE got'[p][i] = i
      <4>1. CASE i \in 1 .. a
        BY <2>9, <2>10, <4>1
      <4>2. CASE i = a + 1
        BY <2>10, <3>2, <4>2
      <4>3. QED
        BY <2>9, <4>1, <4>2
    <3>4. ASSUME NEW i \in 1 .. b - 1 PROVE pipe'[x][i] = (a + 1) + i
      <4>1. i + 1 \in 1 .. b
        BY <2>9
      <4>2. pipe'[x][i] = a + (i + 1)
        BY <2>9, <2>10, <4>1
      <4>3. QED
        BY <2>9, <4>2
    <3>5. QED
      BY <3>1, <3>3, <3>4
  <2>12. StreamInv'
    <3>1. FifoInOrder(p)'
      <4>1. sent'[q] = d
        BY <2>2 DEF d
      <4>2. QED
        BY <2>10, <2>11, <4>1 DEF FifoInOrder, x, q
    <3>2. FifoInOrder(q)'
      <4>1. FifoInOrder(q)
        BY <1>0, <2>1 DEF StreamInv
      <4>2. QED
        BY <2>2, <2>5, <2>6, <4>1 DEF FifoInOrder
    <3>3. QED
      BY <2>1, <3>1, <3>2 DEF StreamInv
  <2>13. QED
    BY <2>8, <2>12 DEF FifoInv
<1>6. ASSUME NEW p \in Fifo!Procs, Fifo!End(p) PROVE FifoInv'
  <2>1. /\ side[p] \in {"both", "chosen"}
        /\ held' = [held EXCEPT ![p] = {}] /\ side' = [side EXCEPT ![p] = "ended"]
        /\ pipe' = [x \in DOMAIN pipe |-> IF \E q \in Fifo!Procs : <<x, "r">> \in held'[q] THEN pipe[x] ELSE <<>>]
        /\ UNCHANGED <<sent, got>>
    BY <1>6 DEF Fifo!End
  <2>2. FifoTypes'
    <3>1. pipe' \in [Pipes -> Seq(Nat)]
      BY <1>0, <2>1 DEF FifoTypes
    <3>2. QED
      BY <1>0, <2>1, <3>1 DEF FifoTypes
  <2>3. EndsInv'
    BY <1>0, <2>1 DEF FifoTypes, EndsInv, Fifo!Procs
  <2>4. ASSUME NEW q \in Fifo!Procs, side'[q] # "ended"
        PROVE  pipe'[Fifo!RecvPipe(q)] = pipe[Fifo!RecvPipe(q)]
    <3>1. q # p /\ side[q] # "ended" /\ side'[q] = side[q] /\ held'[q] = held[q]
      BY <1>0, <2>1, <2>4 DEF FifoTypes
    <3>2. side[q] \in {"both", "chosen"}
      BY <1>0, <2>1, <3>1 DEF FifoTypes, EndsInv, Fifo!Procs
    <3>3. <<Fifo!RecvPipe(q), "r">> \in held'[q]
      BY <3>1, <3>2, Readers
    <3>4. Fifo!RecvPipe(q) \in DOMAIN pipe
      BY <1>0, Wiring DEF FifoTypes, Fifo!Procs, Pipes
    <3>5. QED
      BY <2>1, <3>3, <3>4
  <2>5. \A q \in Fifo!Procs : side'[q] # "ended" => side[q] # "ended"
    BY <1>0, <2>1 DEF FifoTypes
  <2>6. StreamInv'
    <3> SUFFICES ASSUME NEW q \in Fifo!Procs PROVE FifoInOrder(q)'
      BY DEF StreamInv
    <3>1. FifoInOrder(q)
      BY <1>0 DEF StreamInv
    <3>2. QED
      BY <2>1, <2>4, <2>5, <3>1 DEF FifoInOrder
  <2>7. QED
    BY <2>2, <2>3, <2>6 DEF FifoInv
<1>7. QED
  BY <1>1, <1>2, <1>3, <1>4, <1>5, <1>6 DEF Fifo!Next

LEMMA FifoInvHangUp == FifoInv => Fifo!HangUpSeen
<1> SUFFICES ASSUME FifoInv, NEW p \in Fifo!Procs, side[p] = "chosen"
    PROVE  /\ \A i \in DOMAIN got[p] : got[p][i] = i
           /\ side[Fifo!Peer(p)] # "ended" => Len(got[p]) + Len(pipe[Fifo!RecvPipe(p)]) = sent[Fifo!Peer(p)]
           /\ side[Fifo!Peer(p)] = "ended" => /\ pipe[Fifo!RecvPipe(p)] = <<>> => Fifo!EndOfFile(p)
                                         /\ ~Fifo!HasOpen(<<Fifo!SendPipe(p), "r">>)
  BY DEF Fifo!HangUpSeen
<1>1. /\ Len(got[p]) + Len(pipe[Fifo!RecvPipe(p)]) = sent[Fifo!Peer(p)]
      /\ \A i \in 1 .. Len(got[p]) : got[p][i] = i
  BY DEF FifoInv, StreamInv, FifoInOrder
<1>2. DOMAIN got[p] = 1 .. Len(got[p])
  BY DEF FifoInv, FifoTypes
<1>3. ASSUME side[Fifo!Peer(p)] = "ended"
      PROVE  ~Fifo!HasOpen(<<Fifo!RecvPipe(p), "w">>) /\ ~Fifo!HasOpen(<<Fifo!SendPipe(p), "r">>)
  <2>1. \A q \in Fifo!Procs : q = p \/ (q = Fifo!Peer(p) /\ held[q] = {})
    BY <1>3, Wiring DEF FifoInv, EndsInv, Fifo!Procs
  <2>2. QED
    BY <2>1, Readers DEF Fifo!HasOpen
<1>4. QED
  BY <1>1, <1>2, <1>3 DEF Fifo!EndOfFile

\* A process that has chosen its side gets the bytes of the other in order, and
\* when the other ends it reads the end of file and has its writes refused: no
\* end is left open that would keep it waiting (dup_fifo.cc:35-82).
THEOREM HangUp == Spec => []HangUpSeen
<1>1. Init => FifoInv
  BY FifoInvInit DEF Init
<1>2. FifoInv /\ [Next]_vars => FifoInv'
  BY FifoInvStep, PartSteps
<1>3. FifoInv => HangUpSeen
  BY FifoInvHangUp DEF HangUpSeen
<1>4. QED
  BY <1>1, <1>2, <1>3, PTL DEF Spec

-----------------------------------------------------------------------------
(* The result set of the last query *)

Row == Nat \X Nat
ResultSet == [id : Nat, rows : Seq(Row)]

\* The absence of a result set is not one, and bounds are numbers.
LEMMA DbConstants == None \notin ResultSet /\ MaxQueries \in Nat /\ MaxRows \in Nat
BY NoneAssumption, NumbersAssumption DEF ResultSet, Row

DbTypes ==
  /\ dbResult \in ResultSet \cup {None}
  /\ answer \in [id : Nat, ok : BOOLEAN] /\ source \in [id : Nat, rows : Nat]
  /\ fetched \in Seq(Row)

\* Between them what was fetched and what is left are the rows of the source.
RowsInv ==
  /\ \A i \in 1 .. Len(fetched) : fetched[i] = <<source.id, i>>
  /\ dbResult = None => Len(fetched) = source.rows
  /\ dbResult # None =>
       /\ Len(fetched) + Len(dbResult.rows) = source.rows
       /\ \A i \in 1 .. Len(dbResult.rows) : dbResult.rows[i] = <<source.id, Len(fetched) + i>>
  /\ answer.ok => source.id = answer.id

OneKept == results = IF dbResult = None THEN {} ELSE {dbResult}

DbInv == DbTypes /\ RowsInv /\ OneKept

LEMMA DbInvInit == Db!Init => DbInv
BY DEF Db!Init, DbInv, DbTypes, RowsInv, OneKept

LEMMA DbInvStep == ASSUME DbInv, [Db!Next]_(Db!dbVars) PROVE DbInv'
<1>0. DbTypes /\ RowsInv /\ OneKept
  BY DEF DbInv
<1>1. ASSUME UNCHANGED <<dbResult, results, answer, source, fetched>> PROVE DbInv'
  BY <1>0, <1>1 DEF DbInv, DbTypes, RowsInv, OneKept
<1>2. CASE UNCHANGED Db!dbVars
  BY <1>1, <1>2 DEF Db!dbVars
<1>3. CASE Db!Connect \/ Db!ReConnect \/ Db!ServerGone \/ Db!Ping \/ Db!GetRecordOfNone
  BY <1>1, <1>3 DEF Db!Connect, Db!ReConnect, Db!ServerGone, Db!Ping, Db!GetRecordOfNone
<1>4. CASE Db!QueryFails
  <2>1. answer' = [id |-> answer.id + 1, ok |-> FALSE] /\ UNCHANGED <<dbResult, results, source, fetched>>
    BY <1>4 DEF Db!QueryFails
  <2>2. answer' \in [id : Nat, ok : BOOLEAN] /\ ~answer'.ok
    BY <1>0, <2>1 DEF DbTypes
  <2>3. QED
    BY <1>0, <2>1, <2>2 DEF DbInv, DbTypes, RowsInv, OneKept
<1>5. ASSUME NEW n \in 0 .. MaxRows, Db!QueryStores(n) PROVE DbInv'
  <2> DEFINE rows == [i \in 1 .. n |-> <<answer.id + 1, i>>]
             set  == [id |-> answer.id + 1, rows |-> rows]
  <2>1. /\ dbResult' = set /\ results' = Db!Freed \cup {set}
        /\ answer' = [id |-> answer.id + 1, ok |-> TRUE] /\ source' = [id |-> answer.id + 1, rows |-> n]
        /\ fetched' = <<>>
    BY <1>5 DEF Db!QueryStores, Db!Replaced
  <2>2. n \in Nat /\ answer.id + 1 \in Nat
    BY <1>0, DbConstants DEF DbTypes
  <2>3. rows \in Seq(Row) /\ Len(rows) = n /\ \A i \in 1 .. n : rows[i] = <<answer.id + 1, i>>
    <3>1. rows \in [1 .. n -> Row]
      BY <2>2 DEF Row
    <3>2. QED
      BY <2>2, <3>1
  <2> HIDE DEF rows
  <2>4. set \in ResultSet /\ set # None /\ set.rows = rows
    BY <2>2, <2>3, DbConstants DEF ResultSet
  <2>5. Db!Freed = {}
    BY <1>0 DEF Db!Freed, OneKept
  <2> HIDE DEF set
  <2>6. DbTypes'
    BY <2>1, <2>2, <2>4 DEF DbTypes
  <2>7. RowsInv'
    BY <2>1, <2>2, <2>3, <2>4 DEF RowsInv
  <2>8. OneKept'
    BY <2>1, <2>4, <2>5 DEF OneKept
  <2>9. QED
    BY <2>6, <2>7, <2>8 DEF DbInv
<1>6. ASSUME NEW ok \in BOOLEAN, Db!QueryUpdates(ok) PROVE DbInv'
  <2>1. /\ dbResult' = None /\ results' = Db!Freed /\ fetched' = <<>>
        /\ answer' = [id |-> answer.id + 1, ok |-> ok] /\ source' = [id |-> answer.id + 1, rows |-> 0]
    BY <1>6 DEF Db!QueryUpdates, Db!Replaced
  <2>2. Db!Freed = {}
    BY <1>0 DEF Db!Freed, OneKept
  <2>3. answer' \in [id : Nat, ok : BOOLEAN] /\ source' \in [id : Nat, rows : Nat]
    BY <1>0, <2>1 DEF DbTypes
  <2>4. QED
    BY <2>1, <2>2, <2>3 DEF DbInv, DbTypes, RowsInv, OneKept
<1>7. CASE Db!GetRecord
  <2> DEFINE row  == Head(dbResult.rows)
             left == Tail(dbResult.rows)
             rest == [dbResult EXCEPT !.rows = left]
  <2>1. /\ dbResult # None /\ dbResult.rows # <<>>
        /\ dbResult' = rest /\ results' = (results \ {dbResult}) \cup {rest}
        /\ fetched' = Append(fetched, row) /\ UNCHANGED <<answer, source>>
    BY <1>7 DEF Db!GetRecord
  <2>2. dbResult \in ResultSet /\ dbResult.rows \in Seq(Row) /\ fetched \in Seq(Row) /\ Len(fetched) \in Nat
    BY <1>0, <2>1 DEF DbTypes, ResultSet
  <2>3. /\ row \in Row /\ left \in Seq(Row) /\ row = dbResult.rows[1]
        /\ Len(dbResult.rows) \in Nat /\ Len(dbResult.rows) >= 1 /\ Len(left) = Len(dbResult.rows) - 1
        /\ \A i \in 1 .. Len(left) : left[i] = dbResult.rows[i + 1]
    BY <2>1, <2>2, HeadTailProperties
  <2>4. rest \in ResultSet /\ rest.rows = left /\ rest # None
    <3> HIDE DEF left
    <3>1. rest \in ResultSet /\ rest.rows = left
      BY <2>2, <2>3 DEF ResultSet
    <3>2. QED
      BY <3>1, DbConstants
  <2>5. /\ Append(fetched, row) \in Seq(Row) /\ Len(Append(fetched, row)) = Len(fetched) + 1
        /\ \A i \in 1 .. Len(fetched) : Append(fetched, row)[i] = fetched[i]
        /\ Append(fetched, row)[Len(fetched) + 1] = row
    BY <2>2, <2>3, AppendProperties
  <2>6. /\ \A i \in 1 .. Len(fetched) : fetched[i] = <<source.id, i>>
        /\ Len(fetched) + Len(dbResult.rows) = source.rows
        /\ \A i \in 1 .. Len(dbResult.rows) : dbResult.rows[i] = <<source.id, Len(fetched) + i>>
        /\ answer.ok => source.id = answer.id
    BY <1>0, <2>1 DEF RowsInv
  <2> HIDE DEF row, left, rest
  <2>7. \A i \in 1 .. Len(fetched') : fetched'[i] = <<source.id, i>>
    <3>1. row = <<source.id, Len(fetched) + 1>>
      BY <2>3, <2>6
    <3>2. QED
      BY <2>1, <2>2, <2>5, <2>6, <3>1
  <2>8. \A i \in 1 .. Len(left) : left[i] = <<source.id, Len(fetched) + 1 + i>>
    <3> TAKE i \in 1 .. Len(left)
    <3>1. i + 1 \in 1 .. Len(dbResult.rows) /\ Len(fetched) + (i + 1) = Len(fetched) + 1 + i
      BY <2>2, <2>3
    <3>2. QED
      BY <2>3, <2>6, <3>1
  <2>9. DbTypes'
    BY <1>0, <2>1, <2>4, <2>5 DEF DbTypes
  <2>10. RowsInv'
    <3>1. /\ dbResult' # None /\ answer' = answer /\ source' = source /\ dbResult'.rows = left
          /\ Len(fetched') = Len(fetched) + 1
      BY <2>1, <2>4, <2>5
    <3>2. Len(fetched') + Len(dbResult'.rows) = source'.rows
      <4>1. Len(fetched') = Len(fetched) + 1 /\ Len(dbResult'.rows) = Len(dbResult.rows) - 1
        BY <2>3, <3>1
      <4> DEFINE a == Len(fetched)
                 b == Len(dbResult.rows)
                 d == source.rows
      <4>2. a \in Nat /\ b \in Nat /\ d \in Nat /\ a + b = d
        BY <1>0, <2>2, <2>3, <2>6 DEF DbTypes
      <4> HIDE DEF a, b, d
      <4>3. (a + 1) + (b - 1) = d
        BY <4>2
      <4>4. QED
        BY <3>1, <4>1, <4>3 DEF a, b, d
    <3>3. \A i \in 1 .. Len(dbResult'.rows) : dbResult'.rows[i] = <<source'.id, Len(fetched') + i>>
      BY <2>8, <3>1
    <3>4. QED
      BY <2>6, <2>7, <3>1, <3>2, <3>3 DEF RowsInv
  <2>11. OneKept'
    BY <1>0, <2>1, <2>4 DEF OneKept
  <2>12. QED
    BY <2>9, <2>10, <2>11 DEF DbInv
<1>8. QED
  BY <1>2, <1>3, <1>4, <1>5, <1>6, <1>7 DEF Db!Next

LEMMA DbInvRows == DbInv => Db!RowsOfLastQuery
<1> SUFFICES ASSUME DbInv PROVE Db!RowsOfLastQuery
  OBVIOUS
<1>1. fetched \in Seq(Row) /\ DOMAIN fetched = 1 .. Len(fetched) /\ Len(fetched) \in Nat
  BY DEF DbInv, DbTypes
<1>2. QED
  BY <1>1 DEF DbInv, RowsInv, OneKept, Db!RowsOfLastQuery

\* Across failed queries, reconnects and result sets abandoned half read, the
\* rows that GetRecord returns, whatever DoQuery returned before, are those of
\* the last query that got as far as m_result, which is the last query if it
\* succeeded, each once and in order, and exactly one result set is kept
\* (database.cc:156-216).
THEOREM RowsCorrect == Spec => []RowsOfLastQuery
<1>1. Init => DbInv
  BY DbInvInit DEF Init
<1>2. DbInv /\ [Next]_vars => DbInv'
  BY DbInvStep, PartSteps
<1>3. DbInv => RowsOfLastQuery
  BY DbInvRows DEF RowsOfLastQuery
<1>4. QED
  BY <1>1, <1>2, <1>3, PTL DEF Spec

-----------------------------------------------------------------------------
(* Who owns a session, and when it expires *)

\* No number and no session is taken for the absence of one.
LEMMA Distinct == None \notin Seqs \cup Sessions
BY NoneAssumption

SessionTypes ==
  /\ table \in [Seqs -> Sessions \cup {None}]
  /\ info \in [Sessions -> [last : Int, gap : Gaps \cup {0}, del : BOOLEAN]]
  /\ owner \in [Sessions -> {"caller", "manager", "freed"}]
  /\ sweep \in [on : BOOLEAN, cur : Int, todo : SUBSET Seqs, at : Seqs \cup {None}, set : BOOLEAN]
  /\ now \in Int

\* What a sweep has still to visit is in the table, and what it is at too.
SweepInv ==
  /\ ~sweep.on => sweep.todo = {} /\ sweep.at = None
  /\ sweep.todo \subseteq Session!Present
  /\ sweep.at # None => sweep.at \in sweep.todo

\* EachHeldOnce, number by number.
HeldInv ==
  /\ \A q \in Seqs : table[q] # None => owner[table[q]] = "manager"
  /\ \A q, r \in Seqs \ {sweep.at} : table[q] # None /\ table[q] = table[r] => q = r
  /\ \A s \in Sessions : owner[s] = "manager" => \E q \in Seqs : table[q] = s

SessionInv == SessionTypes /\ (~dangling => SweepInv /\ HeldInv)

LEMMA SessionInvInit == Session!Init => SessionInv
<1> SUFFICES ASSUME Session!Init PROVE SessionInv
  OBVIOUS
<1>1. SessionTypes
  BY DEF Session!Init, SessionTypes, Session!Blank, Session!Idle
<1>2. SweepInv /\ HeldInv
  BY Distinct DEF Session!Init, SweepInv, HeldInv, Session!Idle, Session!Present
<1>3. QED
  BY <1>1, <1>2 DEF SessionInv

\* What Set does, in one formula.
LEMMA SetMeans ==
  ASSUME SessionTypes, SweepInv, NEW q \in Seqs, NEW s \in Sessions, NEW g \in Gaps, Session!Set(q, s, g)
  PROVE  /\ info' \in [Sessions -> [last : Int, gap : Gaps \cup {0}, del : BOOLEAN]]
         /\ now' = now
         /\ \/ /\ table[q] # None /\ UNCHANGED <<table, owner, dangling>>
               /\ sweep' = [sweep EXCEPT !.set = sweep.on]
            \/ /\ table[q] = None /\ table' = [table EXCEPT ![q] = s]
               /\ owner' = [owner EXCEPT ![s] = "manager"]
               /\ \/ ~sweep.on /\ sweep' = sweep
                  \/ /\ sweep.on
                     /\ \E more \in SUBSET {q} : sweep' = [sweep EXCEPT !.todo = @ \cup more, !.set = TRUE]
               /\ ~dangling' => \A p \in Seqs \ {sweep.at} : table[p] # s
<1>1. info' \in [Sessions -> [last : Int, gap : Gaps \cup {0}, del : BOOLEAN]] /\ now' = now
  <2> DEFINE timed == [info EXCEPT ![s].last = now]
  <2>1. timed \in [Sessions -> [last : Int, gap : Gaps \cup {0}, del : BOOLEAN]]
    BY DEF SessionTypes
  <2>2. info' = [timed EXCEPT ![s].gap = g] /\ now' = now
    BY DEF Session!Set
  <2> HIDE DEF timed
  <2>3. QED
    BY <2>1, <2>2
<1>2. CASE table[q] = None /\ Session!Insert(q, s)
  <2>1. /\ table' = [table EXCEPT ![q] = s] /\ owner' = [owner EXCEPT ![s] = "manager"]
        /\ \E rehash \in BOOLEAN, more \in SUBSET {q} :
             /\ sweep' = IF sweep.on THEN [sweep EXCEPT !.todo = @ \cup more, !.set = TRUE] ELSE sweep
             /\ dangling' = ((sweep.on /\ rehash) \/ \E p \in Seqs \ {sweep.at} : table[p] = s)
    BY <1>2 DEF Session!Insert
  <2>2. ~dangling' => \A p \in Seqs \ {sweep.at} : table[p] # s
    BY <2>1
  <2>3. sweep.on \in BOOLEAN
    BY DEF SessionTypes
  <2>4. QED
    BY <1>1, <1>2, <2>1, <2>2, <2>3
<1>3. CASE table[q] # None /\ sweep' = [sweep EXCEPT !.set = sweep.on] /\ UNCHANGED <<table, owner, dangling>>
  BY <1>1, <1>3
<1>4. QED
  BY <1>2, <1>3 DEF Session!Set

\* It is not the sweep's own step.
LEMMA SetKeepsSweep ==
  ASSUME SessionTypes, NEW q \in Seqs, NEW s \in Sessions, NEW g \in Gaps, Session!Set(q, s, g)
  PROVE  sweep'.at = sweep.at /\ sweep'.on = sweep.on
<1>1. ASSUME sweep' = [sweep EXCEPT !.set = sweep.on] PROVE sweep'.at = sweep.at /\ sweep'.on = sweep.on
  BY <1>1 DEF SessionTypes
<1>2. ASSUME Session!Insert(q, s) PROVE sweep'.at = sweep.at /\ sweep'.on = sweep.on
  <2>1. PICK more \in SUBSET {q} :
          sweep' = IF sweep.on THEN [sweep EXCEPT !.todo = @ \cup more, !.set = TRUE] ELSE sweep
    BY <1>2, Zenon DEF Session!Insert
  <2>2. CASE sweep.on
    BY <2>1, <2>2 DEF SessionTypes
  <2>3. CASE ~sweep.on
    BY <2>1, <2>3
  <2>4. QED
    BY <2>2, <2>3
<1>3. QED
  BY <1>1, <1>2 DEF Session!Set

LEMMA SessionInvStep == ASSUME SessionInv, [Session!Next]_<<Session!sessionVars, now>> PROVE SessionInv'
<1>1. CASE UNCHANGED <<Session!sessionVars, now>>
  BY <1>1 DEF Session!sessionVars, SessionInv, SessionTypes, SweepInv, HeldInv, Session!Present
<1> SUFFICES ASSUME Session!Next PROVE SessionInv'
  BY <1>1
<1>0. SessionTypes /\ SweepInv /\ HeldInv /\ ~dangling
  BY DEF SessionInv, Session!Next
<1> USE <1>0, Distinct DEF Session!Present
<1>2. ASSUME NEW q \in Seqs, Session!Get(q) PROVE SessionInv'
  <2>1. SessionTypes'
    BY <1>2 DEF Session!Get, SessionTypes
  <2> SUFFICES ASSUME q # sweep.at PROVE SweepInv' /\ HeldInv'
    BY <1>2, <2>1 DEF Session!Get, SessionInv
  <2>2. SweepInv'
    BY <1>2 DEF Session!Get, SessionTypes, SweepInv, HeldInv, Session!AppRuns
  <2>3. HeldInv'
    BY <1>2 DEF Session!Get, SessionTypes, SweepInv, HeldInv, Session!AppRuns
  <2>4. QED
    BY <2>2, <2>3
<1>3. ASSUME NEW q \in Seqs, Session!SweepKeeps(q) PROVE SessionInv'
  BY <1>3 DEF Session!SweepKeeps, SessionInv, SessionTypes, SweepInv, HeldInv
<1>4. ASSUME NEW q \in Seqs, Session!SweepExpires(q) PROVE SessionInv'
  BY <1>4 DEF Session!SweepExpires, SessionInv, SessionTypes, SweepInv, HeldInv
<1>5. ASSUME NEW q \in Seqs, NEW s \in Sessions, NEW g \in Gaps, Session!Set(q, s, g) PROVE SessionInv'
  <2>1. info' \in [Sessions -> [last : Int, gap : Gaps \cup {0}, del : BOOLEAN]] /\ now' = now
    BY <1>5, SetMeans
  <2>2. CASE UNCHANGED <<table, owner, dangling>> /\ sweep' = [sweep EXCEPT !.set = sweep.on]
    BY <2>1, <2>2 DEF SessionInv, SessionTypes, SweepInv, HeldInv
  <2>3. ASSUME /\ table[q] = None /\ table' = [table EXCEPT ![q] = s]
               /\ owner' = [owner EXCEPT ![s] = "manager"]
               /\ \/ ~sweep.on /\ sweep' = sweep
                  \/ /\ sweep.on
                     /\ \E more \in SUBSET {q} : sweep' = [sweep EXCEPT !.todo = @ \cup more, !.set = TRUE]
               /\ ~dangling' => \A p \in Seqs \ {sweep.at} : table[p] # s
        PROVE  SessionInv'
    <3>1. /\ sweep' \in [on : BOOLEAN, cur : Int, todo : SUBSET Seqs, at : Seqs \cup {None}, set : BOOLEAN]
          /\ sweep'.on = sweep.on /\ sweep'.at = sweep.at
          /\ sweep'.todo \subseteq sweep.todo \cup {q} /\ sweep.todo \subseteq sweep'.todo
          /\ ~sweep.on => sweep'.todo = sweep.todo
      <4>1. CASE sweep' = sweep
        BY <4>1 DEF SessionTypes
      <4>2. ASSUME sweep.on, NEW more \in SUBSET {q}, sweep' = [sweep EXCEPT !.todo = @ \cup more, !.set = TRUE]
            PROVE  <3>1!:
        <5> DEFINE todo == sweep.todo \cup more
                   grown == [sweep EXCEPT !.todo = todo]
        <5>1. todo \in SUBSET Seqs /\ todo \subseteq sweep.todo \cup {q} /\ sweep.todo \subseteq todo
          BY <4>2 DEF SessionTypes
        <5>2. sweep' = [grown EXCEPT !.set = TRUE]
          BY <4>2
        <5> HIDE DEF todo
        <5>3. /\ grown \in [on : BOOLEAN, cur : Int, todo : SUBSET Seqs, at : Seqs \cup {None}, set : BOOLEAN]
              /\ grown.on = sweep.on /\ grown.at = sweep.at /\ grown.todo = todo
          BY <5>1 DEF SessionTypes
        <5> HIDE DEF grown
        <5>4. /\ sweep' \in [on : BOOLEAN, cur : Int, todo : SUBSET Seqs, at : Seqs \cup {None}, set : BOOLEAN]
              /\ sweep'.on = grown.on /\ sweep'.at = grown.at /\ sweep'.todo = grown.todo
          BY <5>2, <5>3
        <5>5. QED
          BY <4>2, <5>1, <5>3, <5>4
      <4>3. QED
        BY <2>3, <4>1, <4>2
    <3>2. /\ table' \in [Seqs -> Sessions \cup {None}] /\ table'[q] = s
          /\ \A r \in Seqs \ {q} : table'[r] = table[r]
          /\ owner' \in [Sessions -> {"caller", "manager", "freed"}] /\ owner'[s] = "manager"
          /\ \A r \in Sessions \ {s} : owner'[r] = owner[r]
      BY <2>3 DEF SessionTypes
    <3>3. SessionTypes'
      BY <2>1, <3>1, <3>2 DEF SessionTypes
    <3>4. SweepInv'
      BY <2>3, <3>1, <3>2 DEF SweepInv
    <3>5. ASSUME ~dangling' PROVE HeldInv'
      <4>1. \A p \in Seqs \ {sweep.at} : table[p] # s
        BY <2>3, <3>5
      <4>2. \A r \in Seqs : table'[r] # None => owner'[table'[r]] = "manager"
        BY <3>2 DEF SessionTypes, HeldInv
      <4>3. \A p, r \in Seqs \ {sweep'.at} : table'[p] # None /\ table'[p] = table'[r] => p = r
        BY <3>1, <3>2, <4>1 DEF HeldInv
      <4>4. \A r \in Sessions : owner'[r] = "manager" => \E p \in Seqs : table'[p] = r
        <5>1. ASSUME NEW r \in Sessions \ {s}, owner'[r] = "manager" PROVE \E p \in Seqs : table'[p] = r
          <6>1. PICK p \in Seqs : table[p] = r
            BY <3>2, <5>1 DEF HeldInv
          <6>2. p # q
            BY <2>3, <6>1
          <6>3. QED
            BY <3>2, <6>1, <6>2
        <5>2. QED
          BY <3>2, <5>1
      <4>5. QED
        BY <4>2, <4>3, <4>4 DEF HeldInv
    <3>6. QED
      BY <3>3, <3>4, <3>5 DEF SessionInv
  <2>4. QED
    BY <1>5, <2>2, <2>3, SetMeans
<1>6. ASSUME NEW s \in Sessions, NEW del \in BOOLEAN, Session!SetDelete(s, del) PROVE SessionInv'
  BY <1>6 DEF Session!SetDelete, SessionInv, SessionTypes, SweepInv, HeldInv
<1>7. ASSUME NEW s \in Sessions, Session!Renew(s) PROVE SessionInv'
  BY <1>7 DEF Session!Renew, Session!Blank, SessionInv, SessionTypes, SweepInv, HeldInv
<1>8. CASE Session!CheckExpire
  <2>1. /\ sweep' = [on |-> TRUE, cur |-> now, todo |-> Session!Present, at |-> None, set |-> FALSE]
        /\ sweep.at = None /\ UNCHANGED <<table, info, owner, dangling, now>>
    BY <1>8 DEF Session!CheckExpire, Session!Idle, SweepInv, SessionTypes
  <2>2. SessionTypes'
    BY <2>1 DEF SessionTypes
  <2>3. SweepInv'
    BY <2>1 DEF SweepInv
  <2>4. HeldInv'
    BY <2>1 DEF HeldInv
  <2>5. QED
    BY <2>2, <2>3, <2>4 DEF SessionInv
<1>9. CASE Session!SweepErases
  <2> DEFINE s == table[sweep.at]
             kept == \E q \in Seqs \ {sweep.at} : table[q] = s
  <2>1. /\ sweep.at # None /\ sweep.at \in Seqs /\ s \in Sessions /\ owner[s] = "manager"
    BY <1>9 DEF Session!SweepErases, SessionTypes, SweepInv, HeldInv
  <2>2. /\ owner' = [owner EXCEPT ![s] = IF info[s].del THEN "freed" ELSE IF kept THEN @ ELSE "caller"]
        /\ dangling' = (info[s].del /\ kept)
        /\ table' = [table EXCEPT ![sweep.at] = None]
        /\ sweep' = [sweep EXCEPT !.todo = Session!AfterErase(sweep.at), !.at = None]
        /\ UNCHANGED <<info, now>>
    BY <1>9 DEF Session!SweepErases, Session!Expired
  <2>3. SessionTypes'
    BY <2>1, <2>2 DEF SessionTypes, Session!AfterErase
  <2>4. SweepInv'
    BY <2>1, <2>2 DEF SessionTypes, SweepInv, Session!AfterErase
  <2>5. ~dangling' => HeldInv'
    BY <2>1, <2>2 DEF SessionTypes, SweepInv, HeldInv, Session!AfterErase
  <2>6. QED
    BY <2>3, <2>4, <2>5 DEF SessionInv
<1>10. CASE Session!SweepEnds
  <2>1. /\ sweep' = [on |-> FALSE, cur |-> 0, todo |-> {}, at |-> None, set |-> FALSE]
        /\ sweep.at = None /\ UNCHANGED <<table, info, owner, dangling, now>>
    BY <1>10 DEF Session!SweepEnds, Session!Idle, SweepInv, SessionTypes
  <2>2. SessionTypes'
    BY <2>1 DEF SessionTypes
  <2>3. SweepInv'
    BY <2>1 DEF SweepInv
  <2>4. HeldInv'
    BY <2>1 DEF HeldInv
  <2>5. QED
    BY <2>2, <2>3, <2>4 DEF SessionInv
<1>11. ASSUME Session!Clock, now' \in Int PROVE SessionInv'
  BY <1>11 DEF Session!Clock, Session!sessionVars, SessionInv, SessionTypes, SweepInv, HeldInv
<1>12. Session!Clock => now' \in Int
  BY DEF Session!Clock
<1>13. QED
  BY <1>2, <1>3, <1>4, <1>5, <1>6, <1>7, <1>8, <1>9, <1>10, <1>11, <1>12 DEF Session!Next

LEMMA SessionInvHeld == SessionInv => Session!EachHeldOnce
BY Distinct DEF SessionInv, SessionTypes, SweepInv, HeldInv, Session!EachHeldOnce, Session!Present

\* Whatever part runs, the clock shows a number.
ClockInv == now \in Int

LEMMA ClockStep == ClockInv /\ [Next]_vars => ClockInv'
<1> SUFFICES ASSUME ClockInv, [Next]_vars PROVE now' \in Int
  BY DEF ClockInv
<1> USE DEF ClockInv
<1>1. CASE now' = now
  BY <1>1
<1>2. CASE Session!Next
  <2>1. CASE Session!Clock
    <3>1. now' \in 0..SessionTime
      BY <2>1 DEF Session!Clock
    <3>2. QED
      BY <3>1, NumbersAssumption
  <2>2. ASSUME NEW q \in Seqs, Session!Get(q) \/ Session!SweepKeeps(q) \/ Session!SweepExpires(q)
        PROVE now' = now
    BY <2>2 DEF Session!Get, Session!SweepKeeps, Session!SweepExpires
  <2>3. ASSUME NEW q \in Seqs, NEW s \in Sessions, NEW g \in Gaps, Session!Set(q, s, g) PROVE now' = now
    BY <2>3 DEF Session!Set
  <2>4. ASSUME NEW s \in Sessions, NEW del \in BOOLEAN, Session!SetDelete(s, del) PROVE now' = now
    BY <2>4 DEF Session!SetDelete
  <2>5. ASSUME NEW s \in Sessions, Session!Renew(s) PROVE now' = now
    BY <2>5 DEF Session!Renew
  <2>6. CASE Session!CheckExpire \/ Session!SweepErases \/ Session!SweepEnds
    BY <2>6 DEF Session!CheckExpire, Session!SweepErases, Session!Expired, Session!SweepEnds
  <2>7. QED
    BY <1>2, <2>1, <2>2, <2>3, <2>4, <2>5, <2>6 DEF Session!Next
<1>3. CASE Grid!Next
  BY <1>3 DEF Grid!Next, Grid!CheckLoadResets, Grid!CheckLoad, Grid!SetFull, Grid!Clock, Grid!Time
<1>4. CASE Logger!Next
  BY <1>4 DEF Logger!Next, Logger!Log, Logger!Restart, Logger!Clock
<1>5. CASE Stats!Next
  <2>1. ASSUME NEW d \in Costs \ {0}, now' = now + d PROVE now' \in Int
    BY <2>1, NumbersAssumption
  <2>2. QED
    BY <1>5, <2>1 DEF Stats!Next, Stats!AddStat, Stats!BeginStat, Stats!EndStat, Stats!AddCount,
                      Stats!DelStat, Stats!Enter, Stats!FindItem, Stats!FindNothing, Stats!EraseItem,
                      Stats!Store, Stats!AddStatStore, Stats!EndStatStore, Stats!AddCountStore,
                      Stats!BeginStatStore, Stats!Clock
<1>6. QED
  BY <1>1, <1>2, <1>3, <1>4, <1>5, PartSteps

\* The invariant of the sessions holds also while another part moves the clock.
SInv == SessionInv /\ ClockInv

LEMMA SInvStep == SInv /\ [Next]_vars => SInv'
<1> SUFFICES ASSUME SInv, [Next]_vars PROVE SessionInv'
  BY ClockStep DEF SInv
<1>1. ClockInv'
  BY ClockStep DEF SInv
<1>2. CASE Session!Next
  BY <1>2, SessionInvStep DEF SInv
<1>3. CASE UNCHANGED Session!sessionVars
  BY <1>1, <1>3 DEF SInv, ClockInv, SessionInv, SessionTypes, SweepInv, HeldInv, Session!Present, Session!sessionVars
<1>4. QED
  BY <1>2, <1>3, PartSteps

LEMMA SInvHolds == Spec => []SInv
<1>1. Init => SInv
  BY SessionInvInit DEF Init, SInv, ClockInv, Session!Init
<1>2. QED
  BY <1>1, SInvStep, PTL DEF Spec

\* Every session the manager has taken is in its table under one number, and
\* one that was deleted or handed back is in no entry, for as long as no entry
\* and no iterator is left dangling: OnExpire may set, get and keep any session
\* while CheckExpire runs, except in the four ways EachHeldOnce names
\* (net_session.cc:4-76).
THEOREM OwnedOnce == Spec => []EachHeldOnce
<1>1. SInv => EachHeldOnce
  BY SessionInvHeld DEF SInv, EachHeldOnce
<1>2. QED
  BY SInvHolds, <1>1, PTL

-----------------------------------------------------------------------------
(* Time *)

LEMMA Units == MsPerSec \in Nat \ {0} /\ UsPerMs \in Nat \ {0} /\ Gaps \subseteq Int
BY NumbersAssumption

\* C's division is off by less than one, in either direction.
LEMMA TruncatedClose ==
  ASSUME NEW n \in Nat \ {0}, NEW x \in Int
  PROVE  /\ Session!Truncated(x, n) \in Int
         /\ \E e \in Int : -n < e /\ e < n /\ x = n * Session!Truncated(x, n) + e
<1>1. CASE x >= 0
  <2>1. Session!Truncated(x, n) = x \div n
    BY <1>1 DEF Session!Truncated
  <2>2. x \div n \in Int /\ x % n \in Int /\ -n < x % n /\ x % n < n /\ x = n * (x \div n) + (x % n)
    BY Divided
  <2>3. QED
    BY <2>1, <2>2
<1>2. CASE x < 0
  <2> DEFINE y == -x
             k == y \div n
             r == y % n
  <2>1. y \in Int /\ Session!Truncated(x, n) = -k
    BY <1>2 DEF Session!Truncated
  <2>2. k \in Int /\ r \in Int /\ 0 <= r /\ r < n /\ y = n * k + r
    BY <2>1, Divided
  <2>3. x = -y
    OBVIOUS
  <2> HIDE DEF y, k, r
  <2>4. n * (-k) = -(n * k) /\ n * k \in Int
    BY <2>2
  <2>5. -k \in Int /\ -r \in Int /\ -n < -r /\ -r < n /\ x = n * (-k) + (-r)
    BY <2>1, <2>2, <2>3, <2>4
  <2>6. QED
    BY <2>1, <2>5
<1>3. QED
  BY <1>1, <1>2

\* TIME_DIFF_MS is off by less than a millisecond, whatever the clock did.
LEMMA DiffClose ==
  ASSUME NEW a \in Int, NEW b \in Int
  PROVE  /\ Session!TimeDiffMs(a, b) \in Int
         /\ \E e \in Int : -UsPerMs < e /\ e < UsPerMs /\ a - b = Session!TimeDiffMs(a, b) * UsPerMs + e
<1> DEFINE M == MsPerSec
           U == UsPerMs
           S == M * U
           qa == a \div S
           ra == a % S
           qb == b \div S
           rb == b % S
           t  == Session!Truncated(ra - rb, U)
<1>1. M \in Nat \ {0} /\ U \in Nat \ {0} /\ S \in Nat \ {0}
  BY Units
<1>2. Session!TimeDiffMs(a, b) = (qa - qb) * M + t
  BY DEF Session!TimeDiffMs
<1> HIDE DEF M, U
<1>3. qa \in Int /\ ra \in Int /\ a = S * qa + ra /\ qb \in Int /\ rb \in Int /\ b = S * qb + rb
  <2>1. S \in Nat \ {0}
    BY <1>1
  <2> HIDE DEF S
  <2>2. QED
    BY <2>1, Divided
<1>4. t \in Int /\ \E e \in Int : -U < e /\ e < U /\ ra - rb = U * t + e
  <2> HIDE DEF qa, ra, qb, rb
  <2>1. ra - rb \in Int /\ U \in Nat \ {0}
    BY <1>1, <1>3
  <2>2. QED
    BY <2>1, TruncatedClose DEF t
<1> HIDE DEF qa, ra, qb, rb, t
<1>5. PICK e \in Int : -U < e /\ e < U /\ ra - rb = U * t + e
  BY <1>4
<1>6. PICK k \in Int : k = qa - qb
  BY <1>3
<1>7. a - b = S * k + (ra - rb)
  <2>1. S * (qa - qb) = S * qa - S * qb /\ S * qa \in Int /\ S * qb \in Int
    BY <1>1, <1>3
  <2>2. QED
    BY <1>3, <1>6, <2>1
<1>8. S * k = (k * M) * U
  BY <1>1, <1>6
<1>9. (k * M + t) * U = (k * M) * U + U * t /\ (k * M) * U \in Int /\ U * t \in Int /\ k * M \in Int
  BY <1>1, <1>4, <1>6
<1>10. a - b = (k * M + t) * U + e
  BY <1>5, <1>7, <1>8, <1>9
<1>11. Session!TimeDiffMs(a, b) = k * M + t /\ k * M + t \in Int
  BY <1>2, <1>4, <1>6, <1>9
<1>12. QED
  BY <1>5, <1>10, <1>11 DEF U

LEMMA GapTest ==
  ASSUME NEW a \in Int, NEW b \in Int, NEW g \in Int
  PROVE  /\ Session!TimeDiffMs(a, b) > g => a - b > g * UsPerMs
         /\ ~(Session!TimeDiffMs(a, b) > g) => a - b < (g + 1) * UsPerMs
<1> DEFINE d == Session!TimeDiffMs(a, b)
           U == UsPerMs
<1>0. d \in Int /\ \E e \in Int : -U < e /\ e < U /\ a - b = d * U + e
  BY DiffClose
<1> HIDE DEF d
<1>1. PICK e \in Int : -U < e /\ e < U /\ a - b = d * U + e /\ d \in Int /\ U \in Nat \ {0}
  BY <1>0, Units
<1> HIDE DEF U
<1>2. (g + 1) * U = g * U + U /\ g * U \in Int /\ d * U \in Int
  BY <1>1
<1>3. d > g => d * U >= (g + 1) * U
  BY <1>1
<1>4. ~(d > g) => d * U <= g * U
  BY <1>1
<1>5. QED
  BY <1>1, <1>2, <1>3, <1>4 DEF d, U

\* What the sweep has passed was not due.
VisitedInv ==
  ~dangling /\ sweep.on /\ ~sweep.set =>
    \A q \in Session!Present \ sweep.todo : ~Session!Due(table[q], sweep.cur)

LEMMA VisitedStep ==
  ASSUME SessionInv, VisitedInv, [Session!Next]_<<Session!sessionVars, now>> PROVE VisitedInv'
<1>1. CASE UNCHANGED <<Session!sessionVars, now>>
  BY <1>1 DEF Session!sessionVars, VisitedInv, Session!Due, Session!Present
<1> SUFFICES ASSUME Session!Next PROVE VisitedInv'
  BY <1>1
<1>0. SessionTypes /\ SweepInv /\ HeldInv /\ ~dangling
  BY DEF SessionInv, Session!Next
<1> USE <1>0, Distinct DEF Session!Present
<1>2. ASSUME NEW q \in Seqs, Session!Get(q) PROVE VisitedInv'
  BY <1>2 DEF Session!Get, SessionTypes, VisitedInv, Session!Due
<1>3. ASSUME NEW q \in Seqs, Session!SweepKeeps(q) PROVE VisitedInv'
  BY <1>3 DEF Session!SweepKeeps, SessionTypes, VisitedInv, Session!Due
<1>4. ASSUME NEW q \in Seqs, Session!SweepExpires(q) PROVE VisitedInv'
  BY <1>4 DEF Session!SweepExpires, SessionTypes, VisitedInv, Session!Due
<1>5. ASSUME NEW q \in Seqs, NEW s \in Sessions, NEW g \in Gaps, Session!Set(q, s, g) PROVE VisitedInv'
  \* Whatever Set did, the sweep knows of it.
  <2>1. sweep'.on => sweep'.set
    <3>1. \/ sweep' = [sweep EXCEPT !.set = sweep.on]
          \/ ~sweep.on /\ sweep' = sweep
          \/ \E more \in SUBSET {q} : sweep' = [sweep EXCEPT !.todo = @ \cup more, !.set = TRUE]
      BY <1>5, SetMeans, Zenon
    <3>2. QED
      BY ONLY <1>0, <3>1 DEF SessionTypes
  <2>2. QED
    BY <2>1 DEF VisitedInv
<1>6. ASSUME NEW s \in Sessions, NEW del \in BOOLEAN, Session!SetDelete(s, del) PROVE VisitedInv'
  <2>1. UNCHANGED <<table, sweep, dangling>> /\ info' = [info EXCEPT ![s].del = del]
    BY <1>6 DEF Session!SetDelete
  <2>2. \A r \in Sessions : info'[r].last = info[r].last /\ info'[r].gap = info[r].gap
    BY <2>1 DEF SessionTypes
  <2>3. QED
    BY <2>1, <2>2 DEF VisitedInv, Session!Due, SessionTypes
<1>7. ASSUME NEW s \in Sessions, Session!Renew(s) PROVE VisitedInv'
  \* A session the manager does not own is in no entry.
  <2>1. \A q \in Session!Present : table[q] # s
    BY <1>7 DEF Session!Renew, HeldInv
  <2>2. UNCHANGED <<table, sweep, dangling>> /\ \A r \in Sessions \ {s} : info'[r] = info[r]
    BY <1>7 DEF Session!Renew, SessionTypes
  <2>3. QED
    BY <2>1, <2>2 DEF VisitedInv, Session!Due, SessionTypes
<1>8. CASE Session!CheckExpire
  BY <1>8 DEF Session!CheckExpire, Session!Idle, VisitedInv
<1>9. CASE Session!SweepErases
  BY <1>9 DEF Session!SweepErases, Session!Expired, Session!AfterErase, SessionTypes, SweepInv, VisitedInv,
              Session!Due
<1>10. CASE Session!SweepEnds
  BY <1>10 DEF Session!SweepEnds, Session!Idle, VisitedInv
<1>11. CASE Session!Clock
  BY <1>11 DEF Session!Clock, Session!sessionVars, VisitedInv, Session!Due
<1>12. QED
  BY <1>2, <1>3, <1>4, <1>5, <1>6, <1>7, <1>8, <1>9, <1>10, <1>11 DEF Session!Next

\* What a step of the sweep may do, as ExpiresInTime says it.
InTime ==
  LET elapsed(s) == sweep.cur - info[s].last
  IN  /\ sweep.at = None /\ sweep'.at # None =>
           LET s == table[sweep'.at] IN elapsed(s) > info[s].gap * UsPerMs
      /\ sweep.on /\ ~sweep'.on /\ ~sweep.set =>
           \A q \in Session!Present : elapsed(table[q]) < (info[table[q]].gap + 1) * UsPerMs

\* Due, in microseconds.
LEMMA DueMeans ==
  ASSUME SessionTypes, NEW s \in Sessions
  PROVE  LET elapsed == sweep.cur - info[s].last
         IN  /\ Session!Due(s, sweep.cur) => elapsed > info[s].gap * UsPerMs
             /\ ~Session!Due(s, sweep.cur) => elapsed < (info[s].gap + 1) * UsPerMs
<1>1. info[s] \in [last : Int, gap : Gaps \cup {0}, del : BOOLEAN]
  BY DEF SessionTypes
<1>2. info[s].last \in Int /\ info[s].gap \in Int
  <2>1. Gaps \cup {0} \subseteq Int
    BY Units
  <2>2. info[s].last \in Int /\ info[s].gap \in Gaps \cup {0}
    BY <1>1
  <2>3. QED
    BY <2>1, <2>2
<1>3. sweep.cur \in Int
  BY DEF SessionTypes
<1>4. QED
  BY <1>2, <1>3, GapTest DEF Session!Due

LEMMA InTimeStep ==
  ASSUME SessionInv, VisitedInv, [Session!Next]_<<Session!sessionVars, now>>
  PROVE  InTime \/ UNCHANGED Session!sessionVars
<1>9. CASE UNCHANGED <<Session!sessionVars, now>>
  BY <1>9
<1> SUFFICES ASSUME Session!Next PROVE InTime \/ UNCHANGED Session!sessionVars
  BY <1>9
<1>0. SessionTypes /\ SweepInv /\ ~dangling
  BY DEF SessionInv, Session!Next
<1> USE <1>0, Distinct
<1>1. ASSUME NEW q \in Seqs, Session!SweepExpires(q) PROVE InTime
  <2>1. /\ Session!Due(table[q], sweep.cur) /\ sweep'.at = q /\ sweep'.on = sweep.on
        /\ table[q] \in Sessions
    BY <1>1 DEF Session!SweepExpires, SessionTypes, SweepInv, Session!Present
  <2>2. sweep.cur - info[table[q]].last > info[table[q]].gap * UsPerMs
    BY <2>1, DueMeans
  <2>3. QED
    BY <1>1, <2>1, <2>2 DEF InTime, Session!SweepExpires
<1>2. CASE Session!SweepEnds
  <2>1. sweep.todo = {} /\ sweep'.at = None
    BY <1>2 DEF Session!SweepEnds, Session!Idle
  <2>2. ASSUME sweep.on, ~sweep.set, NEW q \in Session!Present
        PROVE  sweep.cur - info[table[q]].last < (info[table[q]].gap + 1) * UsPerMs
    <3>1. ~Session!Due(table[q], sweep.cur) /\ table[q] \in Sessions
      BY <2>1, <2>2 DEF VisitedInv, Session!Present, SessionTypes
    <3>2. QED
      BY <3>1, DueMeans
  <2>3. QED
    BY <2>1, <2>2 DEF InTime
\* No other step makes a session expire or ends the sweep.
<1>3. (sweep.at = None => sweep'.at = None) /\ (sweep.on => sweep'.on) => InTime
  BY DEF InTime
<1>4. ASSUME NEW q \in Seqs, Session!Get(q) \/ Session!SweepKeeps(q) PROVE InTime
  BY <1>3, <1>4 DEF Session!Get, Session!SweepKeeps, SessionTypes
<1>5. ASSUME NEW q \in Seqs, NEW s \in Sessions, NEW g \in Gaps, Session!Set(q, s, g) PROVE InTime
  <2>1. sweep'.at = sweep.at /\ sweep'.on = sweep.on
    BY <1>5, SetKeepsSweep
  <2>2. QED
    BY <1>3, <2>1
<1>6. ASSUME NEW s \in Sessions, NEW del \in BOOLEAN, Session!SetDelete(s, del) PROVE InTime
  BY <1>3, <1>6 DEF Session!SetDelete
<1>7. ASSUME NEW s \in Sessions, Session!Renew(s) PROVE InTime
  BY <1>3, <1>7 DEF Session!Renew
<1>8. CASE Session!CheckExpire \/ Session!SweepErases
  BY <1>3, <1>8 DEF Session!CheckExpire, Session!SweepErases, Session!Idle, SessionTypes
<1>10. CASE Session!Clock
  BY <1>10 DEF Session!Clock
<1>11. QED
  BY <1>1, <1>2, <1>4, <1>5, <1>6, <1>7, <1>8, <1>10 DEF Session!Next

\* A session expires only when more than its gap has passed since Set, to the
\* microsecond, and a sweep during which nothing is set leaves nothing that is
\* a millisecond over its gap, however many microseconds make a millisecond and
\* wherever the clock jumps (net_session.cc:43-76, net_session.h:21-23).
THEOREM ExpiryTimely == Spec => ExpiresInTime
<1>1. Init => VisitedInv
  <2>1. ~Session!Idle.on
    BY DEF Session!Idle
  <2>2. QED
    BY <2>1 DEF Init, Session!Init, VisitedInv
<1>2. SInv /\ VisitedInv /\ [Next]_vars => VisitedInv'
  <2> SUFFICES ASSUME SInv, VisitedInv, [Next]_vars PROVE VisitedInv'
    OBVIOUS
  <2>1. CASE Session!Next
    BY <2>1, VisitedStep DEF SInv
  <2>2. CASE UNCHANGED Session!sessionVars
    BY <2>2 DEF VisitedInv, Session!Due, Session!Present, Session!sessionVars
  <2>3. QED
    BY <2>1, <2>2, PartSteps
<1>3. SInv /\ VisitedInv /\ [Next]_vars => [InTime]_(Session!sessionVars)
  <2> SUFFICES ASSUME SInv, VisitedInv, [Next]_vars PROVE [InTime]_(Session!sessionVars)
    OBVIOUS
  <2>1. CASE Session!Next
    BY <2>1, InTimeStep DEF SInv
  <2>2. CASE UNCHANGED Session!sessionVars
    BY <2>2
  <2>3. QED
    BY <2>1, <2>2, PartSteps
<1>4. Spec => [][InTime]_(Session!sessionVars)
  BY SInvHolds, <1>1, <1>2, <1>3, PTL DEF Spec
<1>5. QED
  BY <1>4 DEF InTime, ExpiresInTime, Session!ExpiresInTime

-----------------------------------------------------------------------------
(* HTTP: a call that succeeds has its own reply, and all of it *)

\* What the callback sees as the body.
Seen == IF curl.post THEN curl.data ELSE None
Texts == Uris \cup Datas \cup {None, "default", "generic"}

HttpTypes ==
  /\ callbacks \subseteq Uris \cup {None}
  /\ httpd # None => httpd \subseteq Uris \cup {None}
  /\ thread \in BOOLEAN /\ thread => httpd # None
  /\ curl \in [post : BOOLEAN, data : Datas \cup {None}]
  /\ request # None => request \in [uri : Uris, data : Datas \cup {None}, res : Seq(Texts)]

\* The data of the call in progress is what the handle will send.
DataSet == request # None /\ request.data # None => curl.post /\ curl.data = request.data

\* What has come and what is to come of the reply make the whole of it; once
\* there is a reply the callbacks are fixed.
ReplySplit ==
  request # None /\ reply # Http!NoReply =>
    /\ httpd # None
    /\ \/ request.res = <<>> /\ reply = <<Http!Handler(request.uri), Seen>>
       \/ request.res = <<Http!Handler(request.uri)>> /\ reply = <<Seen>>
       \/ request.res = <<Http!Handler(request.uri), Seen>> /\ reply = <<>>

ResultWhole ==
  result # None /\ result.ok =>
    /\ httpd # None
    /\ Len(result.res) = 2 /\ result.res[1] = Http!Handler(result.uri)
    /\ result.data # None \/ ~result.posted => result.res[2] = result.data

HttpInv == HttpTypes /\ DataSet /\ ReplySplit /\ ResultWhole

LEMMA AppendTwo == ASSUME NEW h, NEW x PROVE Append(<<h>>, x) = <<h, x>>
<1>1. PICK a, b : a = Append(<<h>>, x) /\ b = <<h, x>>
  OBVIOUS
<1>2. a \in Seq({h, x}) /\ Len(a) = 2 /\ a[1] = h /\ a[2] = x
  <2>1. <<h>> \in Seq({h, x})
    OBVIOUS
  <2>2. QED
    BY <1>1, <2>1
<1>3. b \in Seq({h, x}) /\ Len(b) = 2 /\ b[1] = h /\ b[2] = x
  BY <1>1
<1>4. \A i \in 1..Len(a) : a[i] = b[i]
  BY ONLY <1>2, <1>3
<1>5. a = b
  BY ONLY <1>2, <1>3, <1>4, SeqEqual
<1>6. QED
  BY ONLY <1>1, <1>5, Zenon

LEMMA HttpInvInit == Http!Init => HttpInv
BY DEF Http!Init, HttpInv, HttpTypes, DataSet, ReplySplit, ResultWhole

LEMMA HttpInvStep == HttpInv /\ (Http!Next \/ UNCHANGED <<Http!serverVars, Http!clientVars>>) => HttpInv'
<1> SUFFICES ASSUME HttpInv, Http!Next \/ UNCHANGED <<Http!serverVars, Http!clientVars>> PROVE HttpInv'
  OBVIOUS
<1>0. HttpTypes /\ DataSet /\ ReplySplit /\ ResultWhole
  BY DEF HttpInv
<1> USE DEF Http!serverVars, Http!clientVars
<1>1. CASE UNCHANGED <<Http!serverVars, Http!clientVars>>
  BY <1>0, <1>1 DEF HttpInv, HttpTypes, DataSet, ReplySplit, ResultWhole, Seen, Http!Handler
<1>2. CASE Http!SetAddr \/ Http!WorkEnds
  BY <1>0, <1>2 DEF Http!SetAddr, Http!WorkEnds, HttpInv, HttpTypes, DataSet, ReplySplit, ResultWhole, Seen, Http!Handler
<1>3. ASSUME NEW u \in Uris \cup {None}, Http!AddHttpCallback(u) PROVE HttpInv'
  BY <1>0, <1>3 DEF Http!AddHttpCallback, HttpInv, HttpTypes, DataSet, ReplySplit, ResultWhole, Seen, Http!Handler
<1>4. CASE Http!Start
  <2>1. httpd = None /\ httpd' = callbacks /\ thread' \in BOOLEAN
        /\ UNCHANGED <<addr, callbacks, curl, request, reply, result>>
    BY <1>4 DEF Http!Start
  <2>2. callbacks # None
    BY <1>0, NoneAssumption DEF HttpTypes
  <2>3. HttpTypes'
    BY <1>0, <2>1, <2>2 DEF HttpTypes
  <2>4. QED
    BY <1>0, <2>1, <2>3 DEF HttpInv, DataSet, ReplySplit, ResultWhole
<1>5. ASSUME NEW u \in Uris, NEW d \in Datas \cup {None}, Http!Ask([uri |-> u, data |-> d]) PROVE HttpInv'
  <2>1. /\ curl' = IF d = None THEN curl ELSE [post |-> TRUE, data |-> d]
        /\ request' = [uri |-> u, data |-> d, res |-> <<>>]
        /\ reply' = IF thread THEN <<Http!Handler(u), Seen'>> ELSE Http!NoReply
        /\ UNCHANGED <<addr, callbacks, httpd, thread, result>>
    BY <1>5 DEF Http!Ask, Http!Answer, Seen
  <2>2. HttpTypes'
    <3>1. <<>> \in Seq(Texts)
      OBVIOUS
    <3>2. QED
      BY <1>0, <2>1, <3>1 DEF HttpTypes
  <2>3. DataSet'
    BY <2>1 DEF DataSet
  <2>4. Http!Handler(u)' = Http!Handler(u)
    BY <2>1 DEF Http!Handler
  <2>5. ReplySplit'
    BY <1>0, <2>1, <2>4 DEF ReplySplit, HttpTypes
  <2>6. ResultWhole'
    BY <1>0, <2>1 DEF ResultWhole, Http!Handler
  <2>7. QED
    BY <2>2, <2>3, <2>5, <2>6 DEF HttpInv
<1>6. CASE Http!OnWriteData
  <2>1. /\ request # None /\ reply # <<>> /\ reply # Http!NoReply
        /\ request' = [request EXCEPT !.res = Append(@, Head(reply))]
        /\ reply' = Tail(reply)
        /\ UNCHANGED <<addr, callbacks, httpd, thread, curl, result>>
    BY <1>6 DEF Http!OnWriteData, Http!Appended
  <2>2. PICK h, x : h = Http!Handler(request.uri) /\ x = Seen
    OBVIOUS
  <2>3. h \in Texts /\ x \in Texts
    BY <1>0, <2>1, <2>2 DEF HttpTypes, Texts, Seen, Http!Handler
  <2>4. /\ request.uri \in Uris /\ request.data \in Datas \cup {None} /\ request.res \in Seq(Texts)
        /\ request' = [request EXCEPT !.res = Append(request.res, Head(reply))]
    BY <1>0, <2>1 DEF HttpTypes
  <2>5. /\ request'.uri = request.uri /\ request'.data = request.data
        /\ request'.res = Append(request.res, Head(reply))
    BY <1>0, <2>1, <2>4 DEF HttpTypes
  <2>6. \/ request.res = <<>> /\ reply = <<h, x>>
        \/ request.res = <<h>> /\ reply = <<x>>
    BY <1>0, <2>1, <2>2 DEF ReplySplit
  <2>7. Seen' = x /\ Http!Handler(request.uri)' = h
    BY <2>1, <2>2, <2>5 DEF Seen, Http!Handler
  <2>8. \/ request'.res = <<h>> /\ reply' = <<x>>
        \/ request'.res = <<h, x>> /\ reply' = <<>>
    <3>1. CASE request.res = <<>> /\ reply = <<h, x>>
      BY ONLY <2>1, <2>5, <3>1
    <3>2. CASE request.res = <<h>> /\ reply = <<x>>
      <4>1. reply' = <<>>
        BY ONLY <2>1, <3>2
      <4>2. Head(reply) = x
        BY ONLY <3>2
      <4>3. Append(<<h>>, x) = <<h, x>>
        BY AppendTwo
      <4>4. request'.res = <<h, x>>
        BY ONLY <2>5, <3>2, <4>2, <4>3, Zenon
      <4>5. QED
        BY <4>1, <4>4
    <3>3. QED
      BY <2>6, <3>1, <3>2
  <2>9. HttpTypes'
    <3>1. request'.res \in Seq(Texts)
      <4>1. <<h>> \in Seq(Texts) /\ <<h, x>> \in Seq(Texts)
        BY ONLY <2>3
      <4>2. QED
        BY <2>8, <4>1
    <3>2. request' \in [uri : Uris, data : Datas \cup {None}, res : Seq(Texts)]
      BY <1>0, <2>1, <2>4, <2>5, <3>1 DEF HttpTypes
    <3>3. QED
      BY <1>0, <2>1, <3>2 DEF HttpTypes
  <2>10. ReplySplit'
    BY <1>0, <2>1, <2>7, <2>8 DEF ReplySplit
  <2>11. DataSet'
    BY <1>0, <2>1, <2>5 DEF DataSet
  <2>12. ResultWhole'
    BY <1>0, <2>1 DEF ResultWhole, Http!Handler
  <2>13. QED
    BY <2>9, <2>10, <2>11, <2>12 DEF HttpInv
<1>7. ASSUME NEW ok \in BOOLEAN, request # None, Http!Return(ok), ok => reply = <<>> PROVE HttpInv'
  <2>1. /\ result' = [uri |-> request.uri, data |-> request.data, res |-> request.res,
                      ok |-> ok, posted |-> curl.post, count |-> Http!Requests + 1]
        /\ request' = None /\ UNCHANGED <<addr, callbacks, httpd, thread, curl>>
    BY <1>7 DEF Http!Return
  <2>2. HttpTypes' /\ DataSet' /\ ReplySplit'
    BY <1>0, <2>1 DEF HttpTypes, DataSet, ReplySplit
  <2>3. ASSUME ok PROVE /\ httpd # None
                        /\ request.res = <<Http!Handler(request.uri), Seen>>
    BY <1>0, <1>7, <2>3 DEF ReplySplit, Http!NoReply
  <2>4. request.data # None \/ ~curl.post => Seen = request.data
    BY <1>0, <1>7 DEF DataSet, Seen, HttpTypes
  <2>5. ResultWhole'
    BY <2>1, <2>3, <2>4 DEF ResultWhole, Http!Handler
  <2>6. QED
    BY <2>2, <2>5 DEF HttpInv
<1>8. CASE Http!PerformSucceeds \/ Http!PerformFails
  BY <1>7, <1>8 DEF Http!PerformSucceeds, Http!PerformFails
<1>9. QED
  BY <1>0, <1>1, <1>2, <1>3, <1>4, <1>5, <1>6, <1>8 DEF Http!Next

\* A call that returns true has the whole reply of the callback that was set
\* for its URI before Start, and a Post was seen with its own data, whatever
\* the client asked before (http_client.cc:39-74, http_server.cc:138-211).
THEOREM ReplyCorrect == Spec => []ReplyIsWhole
<1>1. Init => HttpInv
  BY HttpInvInit DEF Init
<1>2. HttpInv /\ [Next]_vars => HttpInv'
  BY HttpInvStep, PartSteps
<1>3. HttpInv => ReplyIsWhole
  BY DEF HttpInv, ResultWhole, ReplyIsWhole, Http!ReplyIsWhole
<1>4. QED
  BY <1>1, <1>2, <1>3, PTL DEF Spec

-----------------------------------------------------------------------------
(* CStater: the items hold exactly what was stored, but for races *)

LEMMA SumSame == ASSUME NEW f, NEW S PROVE Stats!SumFunctionOnSet(f, S) = SumFunctionOnSet(f, S)
BY Zenon DEF Stats!SumFunctionOnSet, Stats!FoldFunctionOnSet, Stats!MapThenFoldSet,
             SumFunctionOnSet, FoldFunctionOnSet, MapThenFoldSet

Recs == [cost : Int \cup {None}, n : Nat]
Items == [num : Nat, total : Int, max : Int, min : Int, over : [1..3 -> Nat], begin : Int]

\* The operations recorded, and those of them whose cost is known.
Nums(m) == [i \in DOMAIN m |-> m[i].n]
CostsOf(m) == [i \in DOMAIN m |-> m[i].cost]
Timed(m) == {i \in DOMAIN m : CostsOf(m)[i] # None}
Extremes(m, c) == {CostsOf(m)[i] : i \in Timed(m)} \cup {c}
Over(m, j) == {i \in Timed(m) : CostsOf(m)[i] >= Thresholds[j]}
NumSum(m) == SumFunctionOnSet(Nums(m), DOMAIN m)
CostSum(m) == SumFunctionOnSet(CostsOf(m), Timed(m))
OverSum(m, j) == SumFunctionOnSet(Nums(m), Over(m, j))

\* The item holds what was recorded.
Right(item, m) ==
  /\ item.num = NumSum(m)
  /\ item.total = CostSum(m)
  /\ item.min \in Extremes(m, Hour) /\ \A c \in Extremes(m, Hour) : item.min <= c
  /\ item.max \in Extremes(m, 0) /\ \A c \in Extremes(m, 0) : c <= item.max
  /\ \A j \in 1..3 : item.over[j] = OverSum(m, j)

\* The item holds nothing that was not recorded.
Loose(item, m) ==
  /\ item.num <= NumSum(m)
  /\ item.min \in Extremes(m, Hour) /\ item.max \in Extremes(m, 0)
  /\ \A j \in 1..3 : item.over[j] <= OverSum(m, j)

\* One operation more.
OneMore(m, r, m2) ==
  /\ m2 \in Seq(Recs) /\ IsFiniteSet(DOMAIN m) /\ Len(m) + 1 \notin DOMAIN m
  /\ DOMAIN m2 = DOMAIN m \cup {Len(m) + 1}
  /\ CostsOf(m2)[Len(m) + 1] = r.cost /\ Nums(m2)[Len(m) + 1] = r.n
  /\ \A i \in DOMAIN m : /\ CostsOf(m2)[i] = CostsOf(m)[i] /\ CostsOf(m)[i] \in Int \cup {None}
                         /\ Nums(m2)[i] = Nums(m)[i] /\ Nums(m)[i] \in Nat

LEMMA RecAppended ==
  ASSUME NEW m \in Seq(Recs), NEW r \in Recs PROVE OneMore(m, r, Append(m, r))
<1> PICK m2 : m2 = Append(m, r)
  OBVIOUS
<1>1. /\ m2 \in Seq(Recs) /\ Len(m) \in Nat /\ Len(m2) = Len(m) + 1
      /\ m2[Len(m) + 1] = r /\ \A i \in 1..Len(m) : m2[i] = m[i] /\ m[i] \in Recs
  OBVIOUS
<1>2. DOMAIN m = 1..Len(m) /\ DOMAIN m2 = 1..(Len(m) + 1)
  BY <1>1
<1>3. IsFiniteSet(1..Len(m))
  <2>1. PICK l \in Nat : l = Len(m)
    BY <1>1
  <2>2. 1 \in Int /\ l \in Int
    OBVIOUS
  <2>3. IsFiniteSet(1..l)
    BY ONLY <2>2, FS_Interval, Zenon
  <2>4. QED
    BY <2>1, <2>3
<1>4. DOMAIN m2 = DOMAIN m \cup {Len(m) + 1} /\ Len(m) + 1 \notin DOMAIN m
  BY <1>1, <1>2
<1>5. \A i \in DOMAIN m2 : CostsOf(m2)[i] = m2[i].cost /\ Nums(m2)[i] = m2[i].n
  BY DEF CostsOf, Nums
<1>6. \A i \in DOMAIN m : CostsOf(m)[i] = m[i].cost /\ Nums(m)[i] = m[i].n
  BY DEF CostsOf, Nums
<1>7. \A i \in DOMAIN m : m[i].cost \in Int \cup {None} /\ m[i].n \in Nat
  BY <1>1, <1>2 DEF Recs
<1>8. OneMore(m, r, m2)
  BY <1>1, <1>2, <1>3, <1>4, <1>5, <1>6, <1>7 DEF OneMore
<1>9. QED
  BY <1>8

\* The fields of an item after the private AddStat.
LEMMA AddedFields ==
  ASSUME NEW item \in Items, NEW c \in Int, NEW n \in Nat, NEW a, a = Stats!Added(item, c, n)
  PROVE  /\ a \in Items
         /\ a.num = item.num + n /\ a.total = item.total + c /\ a.begin = item.begin
         /\ a.max = IF c > item.max THEN c ELSE item.max
         /\ a.min = IF c < item.min THEN c ELSE item.min
         /\ \A j \in 1..3 : a.over[j] = item.over[j] + (IF c >= Thresholds[j] THEN n ELSE 0)
<1> DEFINE over == [j \in 1..3 |-> item.over[j] + (IF c >= Thresholds[j] THEN n ELSE 0)]
<1>1. over \in [1..3 -> Nat]
  BY DEF Items
<1>2. PICK v : v = over
  OBVIOUS
<1>3. a = [item EXCEPT !.num = item.num + n, !.max = IF c > item.max THEN c ELSE item.max,
                       !.min = IF c < item.min THEN c ELSE item.min, !.over = v,
                       !.total = item.total + c]
  BY <1>2, Zenon DEF Stats!Added, Items
<1>4. /\ item.num + n \in Nat /\ item.total + c \in Int /\ v \in [1..3 -> Nat]
      /\ (IF c > item.max THEN c ELSE item.max) \in Int
      /\ (IF c < item.min THEN c ELSE item.min) \in Int
  BY <1>1, <1>2 DEF Items
<1>5. /\ a \in Items /\ a.over = v
      /\ a.num = item.num + n /\ a.total = item.total + c /\ a.begin = item.begin
      /\ a.max = IF c > item.max THEN c ELSE item.max
      /\ a.min = IF c < item.min THEN c ELSE item.min
  BY <1>3, <1>4 DEF Items
<1>6. QED
  BY <1>2, <1>5


\* What one operation more adds.
Plus(m, r, m2) ==
  /\ NumSum(m) \in Int /\ NumSum(m2) = NumSum(m) + r.n
  /\ CostSum(m2) = CostSum(m) + (IF r.cost = None THEN 0 ELSE r.cost)
  /\ \A x : Extremes(m2, x) = Extremes(m, x) \cup (IF r.cost = None THEN {} ELSE {r.cost})
  /\ \A x \in Int : Extremes(m, x) \subseteq Int
  /\ \A j \in 1..3 :
       /\ OverSum(m, j) \in Int
       /\ OverSum(m2, j) = OverSum(m, j) + (IF r.cost # None /\ r.cost >= Thresholds[j] THEN r.n ELSE 0)

LEMMA PlusOne ==
  ASSUME NEW m \in Seq(Recs), NEW r \in Recs PROVE Plus(m, r, Append(m, r))
<1> DEFINE k == Len(m) + 1
<1> PICK m2 : m2 = Append(m, r)
  OBVIOUS
<1>1. r.n \in Nat /\ r.cost \in Int \cup {None} /\ None \notin Int
  BY NoneAssumption DEF Recs
<1>2. /\ IsFiniteSet(DOMAIN m) /\ k \notin DOMAIN m
      /\ DOMAIN m2 = DOMAIN m \cup {k}
      /\ CostsOf(m2)[k] = r.cost /\ Nums(m2)[k] = r.n
      /\ \A i \in DOMAIN m : /\ CostsOf(m2)[i] = CostsOf(m)[i] /\ CostsOf(m)[i] \in Int \cup {None}
                             /\ Nums(m2)[i] = Nums(m)[i] /\ Nums(m)[i] \in Nat
  <2>1. OneMore(m, r, m2)
    BY RecAppended
  <2>2. QED
    BY <2>1 DEF OneMore, k
<1> HIDE DEF k
<1>3. /\ Timed(m) \subseteq DOMAIN m /\ Timed(m2) = Timed(m) \cup (IF r.cost = None THEN {} ELSE {k})
      /\ \A i \in Timed(m) : CostsOf(m)[i] \in Int
  BY <1>1, <1>2 DEF Timed
<1>4. /\ \A x : Extremes(m2, x) = Extremes(m, x) \cup (IF r.cost = None THEN {} ELSE {r.cost})
      /\ \A x \in Int : Extremes(m, x) \subseteq Int
  BY <1>1, <1>2, <1>3 DEF Extremes
<1>5. \A S \in SUBSET DOMAIN m : IsFiniteSet(S) /\ k \notin S
  BY <1>2, FS_Subset
<1>6. ASSUME NEW S \in SUBSET DOMAIN m
      PROVE  /\ SumFunctionOnSet(Nums(m2), S \cup {k}) = SumFunctionOnSet(Nums(m), S) + r.n
             /\ SumFunctionOnSet(Nums(m2), S) = SumFunctionOnSet(Nums(m), S)
             /\ SumFunctionOnSet(Nums(m), S) \in Int
  <2>1. IsFiniteSet(S) /\ k \notin S
    BY <1>5
  <2>2. \A i \in S : Nums(m)[i] \in Int /\ Nums(m2)[i] = Nums(m)[i]
    BY <1>2
  <2>3. Nums(m2)[k] \in Int
    BY <1>1, <1>2
  <2>4. SumFunctionOnSet(Nums(m2), S \cup {k}) = SumFunctionOnSet(Nums(m), S) + Nums(m2)[k]
    BY ONLY <2>1, <2>2, <2>3, SumMore, ZenonT(40)
  <2>5. SumFunctionOnSet(Nums(m2), S) = SumFunctionOnSet(Nums(m), S)
    BY <2>1, <2>2, SumAgrees
  <2>6. SumFunctionOnSet(Nums(m), S) \in Int
    BY <2>1, <2>2, SumAny
  <2>7. QED
    BY <1>2, <2>4, <2>5, <2>6
<1>7. NumSum(m) \in Int /\ NumSum(m2) = NumSum(m) + r.n
  BY <1>2, <1>6 DEF NumSum
<1>8. CostSum(m2) = CostSum(m) + (IF r.cost = None THEN 0 ELSE r.cost)
  <2>1. IsFiniteSet(Timed(m)) /\ k \notin Timed(m)
    BY <1>3, <1>5
  <2>2. \A i \in Timed(m) : CostsOf(m)[i] \in Int /\ CostsOf(m2)[i] = CostsOf(m)[i]
    BY <1>2, <1>3
  <2>3. CASE r.cost = None
    <3>1. Timed(m2) = Timed(m) /\ SumFunctionOnSet(CostsOf(m), Timed(m)) \in Int
      BY <1>3, <2>1, <2>2, <2>3, SumAny
    <3>2. SumFunctionOnSet(CostsOf(m2), Timed(m)) = SumFunctionOnSet(CostsOf(m), Timed(m))
      BY ONLY <2>1, <2>2, SumAgrees, Zenon
    <3>3. QED
      BY <2>3, <3>1, <3>2 DEF CostSum
  <2>4. CASE r.cost # None
    <3>1. CostsOf(m2)[k] \in Int
      BY <1>1, <1>2, <2>4
    <3>2. SumFunctionOnSet(CostsOf(m2), Timed(m) \cup {k}) = SumFunctionOnSet(CostsOf(m), Timed(m)) + CostsOf(m2)[k]
      BY ONLY <2>1, <2>2, <3>1, SumMore, ZenonT(40)
    <3>3. Timed(m2) = Timed(m) \cup {k}
      BY <1>3, <2>4
    <3>4. QED
      BY <1>2, <2>4, <3>2, <3>3 DEF CostSum
  <2>5. QED
    BY <2>3, <2>4
<1>9. ASSUME NEW j \in 1..3
      PROVE  /\ OverSum(m, j) \in Int
             /\ OverSum(m2, j) = OverSum(m, j) + (IF r.cost # None /\ r.cost >= Thresholds[j] THEN r.n ELSE 0)
  <2>1. /\ Over(m, j) \in SUBSET DOMAIN m
        /\ r.cost # None /\ r.cost >= Thresholds[j] => Over(m2, j) = Over(m, j) \cup {k}
        /\ ~(r.cost # None /\ r.cost >= Thresholds[j]) => Over(m2, j) = Over(m, j)
    BY <1>2, <1>3 DEF Over
  <2>2. OverSum(m, j) \in Int
    BY <1>6, <2>1 DEF OverSum
  <2>3. CASE r.cost # None /\ r.cost >= Thresholds[j]
    BY <1>6, <2>1, <2>2, <2>3 DEF OverSum
  <2>4. CASE ~(r.cost # None /\ r.cost >= Thresholds[j])
    <3>1. Over(m2, j) = Over(m, j)
      BY <2>1, <2>4
    <3>2. SumFunctionOnSet(Nums(m2), Over(m, j)) = SumFunctionOnSet(Nums(m), Over(m, j))
      BY <1>6, <2>1
    <3>3. OverSum(m2, j) = OverSum(m, j)
      BY <3>1, <3>2 DEF OverSum
    <3>4. QED
      BY <2>2, <2>4, <3>3
  <2>5. QED
    BY <2>2, <2>3, <2>4
<1>10. Plus(m, r, m2)
  BY <1>4, <1>7, <1>8, <1>9 DEF Plus
<1>11. QED
  BY <1>10

\* The least of the costs, and one more.
LEMMA LeastMore ==
  ASSUME NEW E \in SUBSET Int, NEW y \in E, \A x \in E : y <= x, NEW c \in Int,
         NEW z, z = IF c < y THEN c ELSE y
  PROVE  z \in E \cup {c} /\ \A x \in E \cup {c} : z <= x
<1>1. ASSUME NEW x \in E \cup {c} PROVE z <= x
  <2>1. x = c \/ (x \in Int /\ y <= x)
    OBVIOUS
  <2>2. QED
    BY <2>1
<1>2. QED
  BY <1>1

LEMMA GreatestMore ==
  ASSUME NEW E \in SUBSET Int, NEW y \in E, \A x \in E : x <= y, NEW c \in Int,
         NEW z, z = IF c > y THEN c ELSE y
  PROVE  z \in E \cup {c} /\ \A x \in E \cup {c} : x <= z
<1>1. ASSUME NEW x \in E \cup {c} PROVE x <= z
  <2>1. x = c \/ (x \in Int /\ x <= y)
    OBVIOUS
  <2>2. QED
    BY <2>1
<1>2. QED
  BY <1>1

\* An operation whose cost is known.
LEMMA RightAdded ==
  ASSUME NEW item \in Items, NEW c \in Int, NEW n \in Nat, NEW m \in Seq(Recs)
  PROVE  LET a  == Stats!Added(item, c, n)
             m2 == Append(m, [cost |-> c, n |-> n])
         IN  (Right(item, m) => Right(a, m2)) /\ (Loose(item, m) => Loose(a, m2))
<1> PICK a, m2 : a = Stats!Added(item, c, n) /\ m2 = Append(m, [cost |-> c, n |-> n])
  OBVIOUS
<1>1. PICK r \in Recs : r = [cost |-> c, n |-> n]
  BY DEF Recs
<1>2. r.cost = c /\ r.n = n /\ c # None
  BY <1>1, NoneAssumption
<1>3. Plus(m, r, m2)
  BY <1>1, PlusOne
<1>4. /\ NumSum(m) \in Int /\ NumSum(m2) = NumSum(m) + n /\ CostSum(m2) = CostSum(m) + c
      /\ \A x : Extremes(m2, x) = Extremes(m, x) \cup {c}
      /\ Extremes(m, Hour) \subseteq Int /\ Extremes(m, 0) \subseteq Int
      /\ \A j \in 1..3 : OverSum(m, j) \in Int
  BY <1>2, <1>3, NumbersAssumption DEF Plus
<1>5. \A j \in 1..3 : OverSum(m2, j) = OverSum(m, j) + (IF c >= Thresholds[j] THEN n ELSE 0)
  BY <1>2, <1>3 DEF Plus
<1>6. /\ a.num = item.num + n /\ a.total = item.total + c
      /\ a.max = IF c > item.max THEN c ELSE item.max
      /\ a.min = IF c < item.min THEN c ELSE item.min
      /\ \A j \in 1..3 : a.over[j] = item.over[j] + (IF c >= Thresholds[j] THEN n ELSE 0)
  BY AddedFields
<1>7. /\ item.num \in Int /\ item.total \in Int /\ item.max \in Int /\ item.min \in Int
      /\ \A j \in 1..3 : item.over[j] \in Int
  BY DEF Items
<1>8. ASSUME Right(item, m) PROVE Right(a, m2)
  <2>1. a.min \in Extremes(m2, Hour) /\ \A x \in Extremes(m2, Hour) : a.min <= x
    <3>1. item.min \in Extremes(m, Hour) /\ \A x \in Extremes(m, Hour) : item.min <= x
      BY <1>8 DEF Right
    <3>2. QED
      <4>1. PICK E, y, z : E = Extremes(m, Hour) /\ y = item.min /\ z = a.min
        OBVIOUS
      <4>2. E \in SUBSET Int /\ y \in E /\ z = IF c < y THEN c ELSE y
        BY <1>4, <1>6, <3>1, <4>1
      <4>3. \A x \in E : y <= x
        BY <3>1, <4>1
      <4>4. z \in E \cup {c} /\ \A x \in E \cup {c} : z <= x
        BY <4>2, <4>3, LeastMore
      <4>5. QED
        BY <1>4, <4>1, <4>4
  <2>2. a.max \in Extremes(m2, 0) /\ \A x \in Extremes(m2, 0) : x <= a.max
    <3>1. item.max \in Extremes(m, 0) /\ \A x \in Extremes(m, 0) : x <= item.max
      BY <1>8 DEF Right
    <3>2. QED
      <4>1. PICK E, y, z : E = Extremes(m, 0) /\ y = item.max /\ z = a.max
        OBVIOUS
      <4>2. E \in SUBSET Int /\ y \in E /\ z = IF c > y THEN c ELSE y
        BY <1>4, <1>6, <3>1, <4>1
      <4>3. \A x \in E : x <= y
        BY <3>1, <4>1
      <4>4. z \in E \cup {c} /\ \A x \in E \cup {c} : x <= z
        BY <4>2, <4>3, GreatestMore
      <4>5. QED
        BY <1>4, <4>1, <4>4
  <2>3. a.num = NumSum(m2) /\ a.total = CostSum(m2)
    BY <1>4, <1>6, <1>8 DEF Right
  <2>4. \A j \in 1..3 : a.over[j] = OverSum(m2, j)
    BY <1>5, <1>6, <1>8 DEF Right
  <2>5. QED
    BY <2>1, <2>2, <2>3, <2>4 DEF Right
<1>9. ASSUME Loose(item, m) PROVE Loose(a, m2)
  <2>1. a.min \in Extremes(m2, Hour) /\ a.max \in Extremes(m2, 0)
    BY <1>4, <1>6, <1>9 DEF Loose
  <2>2. a.num <= NumSum(m2)
    BY <1>4, <1>6, <1>7, <1>9 DEF Loose
  <2>3. ASSUME NEW j \in 1..3 PROVE a.over[j] <= OverSum(m2, j)
    <3>1. item.over[j] <= OverSum(m, j)
      BY <1>9 DEF Loose
    <3>2. QED
      <4>1. PICK s, v, d : s = OverSum(m, j) /\ v = item.over[j] /\ d = IF c >= Thresholds[j] THEN n ELSE 0
        OBVIOUS
      <4>2. s \in Int /\ v \in Int /\ d \in Int /\ v <= s
        <5>1. d \in Int
          BY ONLY n \in Nat, <4>1
        <5>2. s \in Int /\ v \in Int /\ v <= s
          BY ONLY <1>4, <1>7, <3>1, <4>1, j \in 1..3
        <5>3. QED
          BY <5>1, <5>2
      <4>3. a.over[j] = v + d /\ OverSum(m2, j) = s + d
        BY <1>5, <1>6, <4>1
      <4>4. QED
        BY <4>2, <4>3
  <2>4. QED
    BY <2>1, <2>2, <2>3 DEF Loose
<1>10. QED
  BY <1>8, <1>9

\* Operations whose cost is not known.
LEMMA RightCounted ==
  ASSUME NEW item \in Items, NEW n \in Nat, NEW m \in Seq(Recs)
  PROVE  LET a  == [item EXCEPT !.num = item.num + n]
             m2 == Append(m, [cost |-> None, n |-> n])
         IN  a \in Items /\ (Right(item, m) => Right(a, m2)) /\ (Loose(item, m) => Loose(a, m2))
<1> PICK a, m2 : a = [item EXCEPT !.num = item.num + n] /\ m2 = Append(m, [cost |-> None, n |-> n])
  OBVIOUS
<1>1. PICK r \in Recs : r = [cost |-> None, n |-> n]
  BY DEF Recs
<1>2. r.cost = None /\ r.n = n
  BY <1>1
<1>3. Plus(m, r, m2)
  BY <1>1, PlusOne
<1>4. /\ NumSum(m) \in Int /\ NumSum(m2) = NumSum(m) + n /\ CostSum(m2) = CostSum(m) + 0
      /\ \A x : Extremes(m2, x) = Extremes(m, x)
      /\ \A j \in 1..3 : OverSum(m, j) \in Int /\ OverSum(m2, j) = OverSum(m, j) + 0
  BY <1>2, <1>3 DEF Plus
<1>5. \A j \in 1..3 : OverSum(m2, j) = OverSum(m, j)
  BY <1>4
<1>6. /\ item.num \in Nat /\ item.total \in Int /\ item.num + n \in Nat
  BY DEF Items
<1>7. a \in Items /\ a.num = item.num + n /\ a.total = item.total /\ a.min = item.min
      /\ a.max = item.max /\ a.over = item.over
  <2>1. PICK x \in Nat : x = item.num + n
    BY <1>6
  <2>2. a = [item EXCEPT !.num = x]
    BY <2>1
  <2>3. QED
    BY <2>1, <2>2 DEF Items
<1>8. ASSUME Right(item, m) PROVE Right(a, m2)
  BY <1>4, <1>5, <1>6, <1>7, <1>8 DEF Right
<1>9. ASSUME Loose(item, m) PROVE Loose(a, m2)
  <2>1. item.num <= NumSum(m) /\ \A j \in 1..3 : item.over[j] <= OverSum(m, j)
    BY <1>9 DEF Loose
  <2>2. a.min \in Extremes(m2, Hour) /\ a.max \in Extremes(m2, 0)
    BY <1>4, <1>7, <1>9 DEF Loose
  <2>3. a.num <= NumSum(m2)
    BY ONLY <1>4, <1>6, <1>7, <2>1, n \in Nat
  <2>4. \A j \in 1..3 : a.over[j] <= OverSum(m2, j)
    BY <1>5, <1>7, <2>1
  <2>5. QED
    BY ONLY <2>2, <2>3, <2>4 DEF Loose
<1>10. QED
  BY <1>7, <1>8, <1>9

\* What another operation adds makes nothing wrong that was read before.
LEMMA LooseLater ==
  ASSUME NEW item \in Items, NEW m \in Seq(Recs), Loose(item, m), NEW r \in Recs
  PROVE  Loose(item, Append(m, r))
<1>1. PICK m2 : m2 = Append(m, r)
  OBVIOUS
<1>2. Plus(m, r, m2) /\ r.n \in Nat
  BY <1>1, PlusOne DEF Recs
<1>3. /\ NumSum(m) \in Int /\ NumSum(m2) = NumSum(m) + r.n
      /\ Extremes(m, Hour) \subseteq Extremes(m2, Hour) /\ Extremes(m, 0) \subseteq Extremes(m2, 0)
      /\ \A j \in 1..3 : /\ OverSum(m, j) \in Int
                         /\ OverSum(m2, j) = OverSum(m, j) \/ OverSum(m2, j) = OverSum(m, j) + r.n
  BY <1>2 DEF Plus
<1>4. item.num \in Int /\ \A j \in 1..3 : item.over[j] \in Int
  BY DEF Items
<1>5. Loose(item, m2)
  <2>1. item.num <= NumSum(m2)
    BY <1>2, <1>3, <1>4 DEF Loose
  <2>2. item.min \in Extremes(m2, Hour) /\ item.max \in Extremes(m2, 0)
    BY <1>3 DEF Loose
  <2>3. ASSUME NEW j \in 1..3 PROVE item.over[j] <= OverSum(m2, j)
    <3>1. item.over[j] \in Int /\ OverSum(m, j) \in Int /\ item.over[j] <= OverSum(m, j)
      BY <1>3, <1>4 DEF Loose
    <3>2. OverSum(m2, j) = OverSum(m, j) \/ OverSum(m2, j) = OverSum(m, j) + r.n
      BY <1>3
    <3>3. QED
      BY <1>2, <3>1, <3>2
  <2>4. QED
    BY <2>1, <2>2, <2>3 DEF Loose
<1>6. QED
  BY <1>1, <1>5

\* Nothing is recorded yet.
LEMMA RightNew ==
  ASSUME NEW item, item.num = 0, item.total = 0, item.max = 0, item.min = Hour,
         \A j \in 1..3 : item.over[j] = 0
  PROVE  Right(item, <<>>)
<1>1. PICK m : m = <<>> /\ DOMAIN m = {}
  OBVIOUS
<1>2. Timed(m) = {} /\ \A j \in 1..3 : Over(m, j) = {}
  BY <1>1 DEF Timed, Over
<1>3. \A x : Extremes(m, x) = {x}
  BY <1>2 DEF Extremes
<1>4. Hour <= Hour /\ 0 <= 0
  BY NumbersAssumption
<1>5. \A f : SumFunctionOnSet(f, {}) = 0
  BY SumEmpty
<1>6. NumSum(m) = 0 /\ CostSum(m) = 0 /\ \A j \in 1..3 : OverSum(m, j) = 0
  BY <1>1, <1>2, <1>5 DEF NumSum, CostSum, OverSum
<1>7. Right(item, m)
  BY <1>3, <1>4, <1>6 DEF Right
<1>8. QED
  BY <1>1, <1>7

\* Who holds all of it holds nothing else.
LEMMA RightLoose ==
  ASSUME NEW item \in Items, NEW m \in Seq(Recs), Right(item, m) PROVE Loose(item, m)
<1>1. item.num <= item.num /\ \A j \in 1..3 : item.over[j] <= item.over[j]
  BY DEF Items
<1>2. QED
  BY <1>1 DEF Right, Loose

-----------------------------------------------------------------------------
InProgress ==
  [op : {"add", "begin", "end", "count", "del"}, key : Keys, at : {"map", "item"},
   time : Int, n : Nat, item : Items \cup {None}]

StatTypes ==
  /\ isMutex \in BOOLEAN /\ broken \in BOOLEAN
  /\ stat \in [Keys -> Items \cup {None}]
  /\ mutex \in Threads \cup {None}
  /\ call \in [Threads -> InProgress \cup {Stats!NoCall}]
  /\ calls \in [Keys -> Seq(Recs)]
  /\ torn \in SUBSET Keys
  /\ \A t \in Threads : call[t].at = "item" => call[t].item \in Items /\ call[t].op # "del"

\* Of the locked calls one is in progress, that of the holder of the mutex.
Holder == \A t \in Threads : isMutex /\ call[t].op = "add" => mutex = t

\* Two items agree on some of their fields.
Agree(a, b, fields) ==
  /\ "num" \in fields => a.num = b.num
  /\ "total" \in fields => a.total = b.total
  /\ "max" \in fields => a.max = b.max
  /\ "min" \in fields => a.min = b.min
  /\ "over" \in fields => a.over = b.over
  /\ "begin" \in fields => a.begin = b.begin

\* What is in the map: all of what was stored, or some of it and nothing else.
ItemsSound ==
  \A k \in Keys : IF stat[k] = None THEN calls[k] = <<>>
                  ELSE Loose(stat[k], calls[k]) /\ (k \notin torn => Right(stat[k], calls[k]))

\* What a call has read was stored, and is still there unless it races.
ReadsSound ==
  \A t \in Threads : call[t].at = "item" =>
    LET c == call[t]
    IN  /\ stat[c.key] # None /\ Loose(c.item, calls[c.key])
        /\ c.key \notin torn => Agree(c.item, stat[c.key], Stats!Uses(c.op))

\* Two calls that use a field of one item race.
Apart ==
  \A t, u \in Threads :
    t # u /\ call[t].at = "item" /\ call[u].at = "item" /\ call[t].key = call[u].key
      => call[t].key \in torn \/ Stats!Uses(call[t].op) \cap Stats!Uses(call[u].op) = {}

StatsSound == ItemsSound /\ ReadsSound /\ Apart
StatsInv == StatTypes /\ Holder /\ (~broken => StatsSound)

LEMMA NoneNoItem == None \notin Items
BY NoneAssumption DEF Items

LEMMA StatsInvInit == Stats!Init => StatsInv
<1> SUFFICES ASSUME Stats!Init PROVE StatsInv
  OBVIOUS
<1>1. /\ stat = [k \in Keys |-> None] /\ mutex = None /\ isMutex \in BOOLEAN
      /\ call = [t \in Threads |-> Stats!NoCall] /\ calls = [k \in Keys |-> <<>>]
      /\ torn = {} /\ broken = FALSE
  BY DEF Stats!Init
<1>2. \A t \in Threads : call[t].at = "out" /\ call[t].op = "none"
  BY <1>1 DEF Stats!NoCall
<1>3. StatTypes
  <2>1. <<>> \in Seq(Recs)
    OBVIOUS
  <2>2. calls \in [Keys -> Seq(Recs)] /\ stat \in [Keys -> Items \cup {None}]
    BY <1>1, <2>1
  <2>3. call \in [Threads -> InProgress \cup {Stats!NoCall}]
    BY <1>1
  <2>4. QED
    BY <1>1, <1>2, <2>2, <2>3 DEF StatTypes
<1>4. Holder /\ ReadsSound /\ Apart
  BY <1>2 DEF Holder, ReadsSound, Apart
<1>5. ItemsSound
  BY <1>1 DEF ItemsSound
<1>6. QED
  BY <1>3, <1>4, <1>5 DEF StatsInv, StatsSound

\* A call in progress has a key; no call is nowhere.
LEMMA CallTypes ==
  ASSUME StatTypes, NEW t \in Threads
  PROVE  /\ call[t].at \in {"map", "item"} \/ call[t].op # "none" => call[t] \in InProgress
         /\ call[t] \in InProgress =>
              /\ call[t].op \in {"add", "begin", "end", "count", "del"} /\ call[t].key \in Keys
              /\ call[t].at \in {"map", "item"} /\ call[t].time \in Int /\ call[t].n \in Nat
         /\ call[t] = Stats!NoCall => call[t].at = "out" /\ call[t].op = "none"
BY DEF StatTypes, InProgress, Stats!NoCall

\* Find or new.
LEMMA ItemOfRight ==
  ASSUME StatTypes, ItemsSound, now \in Int, NEW k \in Keys
  PROVE  /\ Stats!ItemOf(k) \in Items /\ Loose(Stats!ItemOf(k), calls[k])
         /\ k \notin torn \/ stat[k] = None => Right(Stats!ItemOf(k), calls[k])
<1>1. CASE stat[k] = None
  <2>1. PICK item : item = Stats!NewItem
    OBVIOUS
  <2>2. item = [num |-> 0, total |-> 0, max |-> 0, min |-> Hour, over |-> <<0, 0, 0>>, begin |-> now]
    BY <2>1 DEF Stats!NewItem
  <2>3. <<0, 0, 0>> \in [1..3 -> Nat]
    OBVIOUS
  <2>4. item \in Items
    BY <2>2, <2>3, NumbersAssumption DEF Items
  <2>5. item.num = 0 /\ item.total = 0 /\ item.max = 0 /\ item.min = Hour
        /\ \A j \in 1..3 : item.over[j] = 0
    BY <2>2
  <2>6. Right(item, <<>>)
    BY <2>5, RightNew
  <2>7. Loose(item, <<>>)
    <3>1. <<>> \in Seq(Recs)
      OBVIOUS
    <3>2. QED
      BY <2>4, <2>6, <3>1, RightLoose, Zenon
  <2>8. calls[k] = <<>> /\ Stats!ItemOf(k) = item
    BY <1>1, <2>1 DEF ItemsSound, Stats!ItemOf
  <2>9. QED
    BY <2>4, <2>6, <2>7, <2>8
<1>2. CASE stat[k] # None
  <2>1. Stats!ItemOf(k) = stat[k] /\ stat[k] \in Items
    BY <1>2 DEF Stats!ItemOf, StatTypes
  <2>2. QED
    BY <1>2, <2>1 DEF ItemsSound
<1>3. QED
  BY <1>1, <1>2

\* A step that only moves one call, not to an item, disturbs nothing.
LEMMA CallMoves ==
  ASSUME StatsInv, ~broken, NEW t \in Threads, NEW c \in InProgress \cup {Stats!NoCall},
         c.at # "item", call' = [call EXCEPT ![t] = c],
         UNCHANGED <<isMutex, stat, calls, torn, broken>>,
         mutex' \in Threads \cup {None},
         \A u \in Threads : isMutex /\ call'[u].op = "add" => mutex' = u
  PROVE  StatsInv'
<1>1. StatTypes /\ ItemsSound /\ ReadsSound /\ Apart
  BY DEF StatsInv, StatsSound
<1>2. call'[t] = c /\ \A u \in Threads \ {t} : call'[u] = call[u]
  BY <1>1 DEF StatTypes
<1>3. call' \in [Threads -> InProgress \cup {Stats!NoCall}]
  BY <1>1 DEF StatTypes
<1>4. StatTypes'
  BY <1>1, <1>2, <1>3 DEF StatTypes
<1>5. Holder'
  BY DEF Holder
<1>6. ItemsSound'
  BY <1>1 DEF ItemsSound
<1>7. \A u \in Threads : call'[u].at = "item" => u # t /\ call'[u] = call[u]
  BY <1>2
<1>8. ReadsSound'
  BY <1>1, <1>7 DEF ReadsSound
<1>9. Apart'
  BY <1>1, <1>7 DEF Apart
<1>10. QED
  BY <1>4, <1>5, <1>6, <1>8, <1>9 DEF StatsInv, StatsSound

\* An operation enters.
LEMMA EnterStep ==
  ASSUME StatsInv, ~broken, NEW t \in Threads, NEW op \in {"add", "begin", "end", "count", "del"},
         NEW k \in Keys, NEW time \in Int, NEW n \in Nat, Stats!Enter(t, op, k, time, n),
         \/ op # "add" /\ UNCHANGED mutex
         \/ (isMutex => mutex = None) /\ mutex' = IF isMutex THEN t ELSE mutex
  PROVE  StatsInv'
<1>1. PICK c : c = [op |-> op, key |-> k, at |-> "map", time |-> time, n |-> n, item |-> None]
  OBVIOUS
<1>2. c \in InProgress /\ c.at = "map" /\ c.op = op
  BY <1>1 DEF InProgress
<1>3. /\ call' = [call EXCEPT ![t] = c] /\ UNCHANGED <<isMutex, stat, calls, torn, broken>>
  BY <1>1 DEF Stats!Enter
<1>4. StatTypes /\ Holder
  BY DEF StatsInv
<1>5. mutex' \in Threads \cup {None}
  BY <1>4 DEF StatTypes
<1>6. ASSUME NEW u \in Threads, isMutex, call'[u].op = "add" PROVE mutex' = u
  <2>1. call'[t] = c /\ \A v \in Threads \ {t} : call'[v] = call[v]
    BY <1>3, <1>4 DEF StatTypes
  <2>2. CASE u = t
    BY <1>2, <1>6, <2>1, <2>2
  <2>3. CASE u # t
    BY <1>4, <1>6, <2>1, <2>3, NoneAssumption DEF Holder
  <2>4. QED
    BY <2>2, <2>3
<1>7. QED
  BY <1>2, <1>3, <1>5, <1>6, CallMoves

\* A call finds its item, or makes it.
LEMMA FindItemStep ==
  ASSUME StatsInv, ~broken, now \in Int, NEW t \in Threads, Stats!FindItem(t) PROVE StatsInv'
<1>1. StatTypes /\ Holder /\ ItemsSound /\ ReadsSound /\ Apart
  BY DEF StatsInv, StatsSound
<1>2. PICK c, k, item : c = call[t] /\ k = call[t].key /\ item = Stats!ItemOf(call[t].key)
  OBVIOUS
<1>3. /\ c.at = "map" /\ c.op # "del" /\ c.key = k
      /\ stat' = [stat EXCEPT ![k] = item] /\ broken' = Stats!MapRaced(t)
      /\ call' = [call EXCEPT ![t].at = "item", ![t].item = item]
      /\ torn' = IF \E u \in Stats!Beside(t) : /\ call[u].at = "item" /\ call[u].key = k
                                               /\ Stats!Uses(call[u].op) \cap Stats!Uses(c.op) # {}
                 THEN torn \cup {k} ELSE torn
      /\ UNCHANGED <<isMutex, mutex, calls>>
  BY <1>2 DEF Stats!FindItem
<1>4. c \in InProgress /\ k \in Keys
  BY <1>1, <1>2, <1>3, CallTypes
<1>5. /\ item \in Items /\ Loose(item, calls[k])
      /\ k \notin torn \/ stat[k] = None => Right(item, calls[k])
  BY <1>1, <1>2, <1>4, ItemOfRight
<1>6. item # None
  BY <1>5, NoneNoItem
<1>7. PICK d : d = [c EXCEPT !.at = "item", !.item = item]
  OBVIOUS
<1>8. d \in InProgress /\ d.at = "item" /\ d.item = item /\ d.key = k /\ d.op = c.op
  BY <1>3, <1>4, <1>5, <1>7 DEF InProgress
<1>9. call'[t] = d /\ \A u \in Threads \ {t} : call'[u] = call[u]
  BY <1>1, <1>2, <1>3, <1>7 DEF StatTypes
<1>10. call' \in [Threads -> InProgress \cup {Stats!NoCall}]
  <2>1. DOMAIN call' = Threads /\ call' = [u \in Threads |-> call'[u]]
    BY <1>1, <1>3 DEF StatTypes
  <2>2. \A u \in Threads : call'[u] \in InProgress \cup {Stats!NoCall}
    BY <1>1, <1>8, <1>9 DEF StatTypes
  <2>3. QED
    BY <2>1, <2>2
<1>11. StatTypes'
  <2>1. stat' \in [Keys -> Items \cup {None}] /\ torn' \in SUBSET Keys
    BY <1>1, <1>3, <1>4, <1>5 DEF StatTypes
  <2>2. broken' \in BOOLEAN
    BY <1>3 DEF Stats!MapRaced
  <2>3. \A u \in Threads : call'[u].at = "item" => call'[u].item \in Items /\ call'[u].op # "del"
    BY <1>1, <1>3, <1>5, <1>8, <1>9 DEF StatTypes
  <2>4. QED
    BY <1>1, <1>3, <1>10, <2>1, <2>2, <2>3 DEF StatTypes
<1>12. Holder'
  BY <1>1, <1>2, <1>3, <1>8, <1>9 DEF Holder
<1>13. stat'[k] = item /\ \A q \in Keys \ {k} : stat'[q] = stat[q]
  BY <1>1, <1>3, <1>4 DEF StatTypes
<1>14. stat[k] # None => item = stat[k]
  BY <1>2 DEF Stats!ItemOf
<1>15. torn \subseteq torn' /\ torn' \subseteq torn \cup {k}
  BY <1>3
<1>16. ItemsSound'
  <2>1. ASSUME NEW q \in Keys
        PROVE  IF stat'[q] = None THEN calls'[q] = <<>>
               ELSE Loose(stat'[q], calls'[q]) /\ (q \notin torn' => Right(stat'[q], calls'[q]))
    <3>1. CASE q = k
      BY <1>3, <1>5, <1>6, <1>13, <1>15, <3>1
    <3>2. CASE q # k
      BY <1>1, <1>3, <1>13, <1>15, <3>2 DEF ItemsSound
    <3>3. QED
      BY <3>1, <3>2
  <2>2. QED
    BY <2>1 DEF ItemsSound
<1>17. ReadsSound'
  <2>1. ASSUME NEW u \in Threads, call'[u].at = "item"
        PROVE  /\ stat'[call'[u].key] # None /\ Loose(call'[u].item, calls'[call'[u].key])
               /\ call'[u].key \notin torn' =>
                    Agree(call'[u].item, stat'[call'[u].key], Stats!Uses(call'[u].op))
    <3>1. CASE u = t
      <4>1. call'[u].key = k /\ call'[u].item = item /\ stat'[k] = item /\ calls'[k] = calls[k]
        BY <1>3, <1>8, <1>9, <1>13, <3>1
      <4>2. \A U : Agree(item, item, U)
        BY DEF Agree
      <4>3. QED
        BY <1>5, <1>6, <4>1, <4>2
    <3>2. CASE u # t
      <4>1. call'[u] = call[u] /\ call[u].at = "item" /\ call[u].key \in Keys
        BY <1>1, <1>9, <2>1, <3>2, CallTypes
      <4>2. /\ stat[call[u].key] # None /\ Loose(call[u].item, calls[call[u].key])
            /\ call[u].key \notin torn => Agree(call[u].item, stat[call[u].key], Stats!Uses(call[u].op))
        BY <1>1, <4>1 DEF ReadsSound
      <4>3. stat'[call[u].key] = stat[call[u].key]
        BY <1>13, <1>14, <4>1, <4>2
      <4>4. QED
        BY <1>3, <1>15, <4>1, <4>2, <4>3
    <3>3. QED
      BY <3>1, <3>2
  <2>2. QED
    BY <2>1 DEF ReadsSound
<1>18. Apart'
  <2>1. ASSUME NEW u \in Threads \ {t}, call[u].at = "item", call[u].key = k
        PROVE  k \in torn' \/ Stats!Uses(call[u].op) \cap Stats!Uses(c.op) = {}
    <3>1. CASE u \in Stats!Beside(t)
      BY <1>3, <2>1, <3>1
    <3>2. CASE u \notin Stats!Beside(t)
      <4>1. isMutex /\ call[t].op = "add" /\ call[u].op = "add"
        BY <3>2 DEF Stats!Beside, Stats!Locked
      <4>2. QED
        BY <1>1, <4>1 DEF Holder
    <3>3. QED
      BY <3>1, <3>2
  <2>2. ASSUME NEW u \in Threads, NEW v \in Threads, u # v, call'[u].at = "item", call'[v].at = "item",
               call'[u].key = call'[v].key
        PROVE  call'[u].key \in torn' \/ Stats!Uses(call'[u].op) \cap Stats!Uses(call'[v].op) = {}
    <3>1. CASE u = t
      <4>1. call'[u].key = k /\ call'[u].op = c.op /\ v # t /\ call'[v] = call[v]
        BY <1>8, <1>9, <2>2, <3>1
      <4>2. QED
        BY <2>1, <2>2, <4>1
    <3>2. CASE v = t
      <4>1. call'[v].key = k /\ call'[v].op = c.op /\ u # t /\ call'[u] = call[u]
        BY <1>8, <1>9, <2>2, <3>2
      <4>2. QED
        BY <2>1, <2>2, <4>1
    <3>3. CASE u # t /\ v # t
      <4>1. call'[v] = call[v] /\ call'[u] = call[u]
        BY <1>9, <3>3
      <4>2. QED
        BY <1>1, <1>15, <2>2, <4>1 DEF Apart
    <3>4. QED
      BY <3>1, <3>2, <3>3
  <2>3. QED
    BY <2>2 DEF Apart
<1>19. QED
  BY <1>11, <1>12, <1>16, <1>17, <1>18 DEF StatsInv, StatsSound

\* An item is deleted while nobody works on it, or the state is broken.
LEMMA EraseItemStep ==
  ASSUME StatsInv, ~broken, NEW t \in Threads, Stats!EraseItem(t) PROVE StatsInv'
<1>1. StatTypes /\ Holder /\ ItemsSound /\ ReadsSound /\ Apart
  BY DEF StatsInv, StatsSound
<1>2. PICK k : k = call[t].key
  OBVIOUS
<1>3. /\ call[t].at = "map" /\ call[t].op = "del"
      /\ stat' = [stat EXCEPT ![k] = None] /\ calls' = [calls EXCEPT ![k] = <<>>]
      /\ torn' = torn \ {k} /\ call' = [call EXCEPT ![t] = Stats!NoCall]
      /\ broken' = (Stats!MapRaced(t) \/ \E u \in Threads : call[u].at = "item" /\ call[u].key = k)
      /\ UNCHANGED <<isMutex, mutex>>
  BY <1>2 DEF Stats!EraseItem
<1>4. k \in Keys
  BY <1>1, <1>2, <1>3, CallTypes
<1>5. call'[t] = Stats!NoCall /\ \A u \in Threads \ {t} : call'[u] = call[u]
  BY <1>1, <1>3 DEF StatTypes
<1>6. Stats!NoCall.at = "out" /\ Stats!NoCall.op = "none"
  BY DEF Stats!NoCall
<1>7. StatTypes'
  <2>1. /\ stat' \in [Keys -> Items \cup {None}] /\ torn' \in SUBSET Keys
        /\ calls' \in [Keys -> Seq(Recs)] /\ call' \in [Threads -> InProgress \cup {Stats!NoCall}]
    BY <1>1, <1>3, <1>4 DEF StatTypes
  <2>2. broken' \in BOOLEAN
    BY <1>3 DEF Stats!MapRaced
  <2>3. QED
    BY <1>1, <1>3, <1>5, <1>6, <2>1, <2>2 DEF StatTypes
<1>8. Holder'
  BY <1>1, <1>3, <1>5, <1>6 DEF Holder
<1>9. ASSUME ~broken' PROVE StatsSound'
  <2>1. \A u \in Threads : call[u].at = "item" => call[u].key # k /\ call[u].key \in Keys
    BY <1>1, <1>3, <1>9, CallTypes
  <2>2. /\ stat'[k] = None /\ calls'[k] = <<>>
        /\ \A q \in Keys \ {k} : stat'[q] = stat[q] /\ calls'[q] = calls[q] /\ (q \in torn' <=> q \in torn)
    BY <1>1, <1>3, <1>4 DEF StatTypes
  <2>3. ItemsSound'
    BY <1>1, <2>2 DEF ItemsSound
  <2>4. \A u \in Threads : call'[u].at = "item" => call'[u] = call[u] /\ call[u].key \in Keys \ {k}
    BY <1>5, <1>6, <2>1
  <2>5. ReadsSound'
    BY <1>1, <2>2, <2>4 DEF ReadsSound
  <2>6. Apart'
    BY <1>1, <2>2, <2>4 DEF Apart
  <2>7. QED
    BY <2>3, <2>5, <2>6 DEF StatsSound
<1>10. QED
  BY <1>7, <1>8, <1>9 DEF StatsInv

\* The item that a call works from.
LEMMA BaseSound ==
  ASSUME StatsInv, ~broken, NEW t \in Threads, call[t].at = "item",
         NEW stale \in SUBSET Stats!Uses(call[t].op), NEW b, b = Stats!Base(call[t], stale)
  PROVE  /\ b \in Items /\ call[t].key \in Keys /\ stat[call[t].key] \in Items
         /\ Loose(b, calls[call[t].key])
         /\ call[t].key \notin torn => b = stat[call[t].key]
         /\ \A U : U \cap Stats!Uses(call[t].op) = {} => Agree(b, stat[call[t].key], U)
<1>1. StatTypes /\ ItemsSound /\ ReadsSound
  BY DEF StatsInv, StatsSound
<1>2. PICK c, k, s : c = call[t] /\ k = call[t].key /\ s = stat[call[t].key]
  OBVIOUS
<1>3. k \in Keys /\ s \in Items /\ c.item \in Items
  BY <1>1, <1>2, CallTypes DEF StatTypes, ReadsSound
<1>4. Loose(c.item, calls[k]) /\ Loose(s, calls[k])
      /\ (k \notin torn => Agree(c.item, s, Stats!Uses(c.op)))
  BY <1>1, <1>2, <1>3, NoneNoItem DEF ReadsSound, ItemsSound
<1>5. b = [num |-> IF "num" \in stale THEN c.item.num ELSE s.num,
           total |-> IF "total" \in stale THEN c.item.total ELSE s.total,
           max |-> IF "max" \in stale THEN c.item.max ELSE s.max,
           min |-> IF "min" \in stale THEN c.item.min ELSE s.min,
           over |-> IF "over" \in stale THEN c.item.over ELSE s.over,
           begin |-> IF "begin" \in stale THEN c.item.begin ELSE s.begin]
  BY <1>2, Zenon DEF Stats!Base
<1>6. /\ b.num = IF "num" \in stale THEN c.item.num ELSE s.num
      /\ b.total = IF "total" \in stale THEN c.item.total ELSE s.total
      /\ b.max = IF "max" \in stale THEN c.item.max ELSE s.max
      /\ b.min = IF "min" \in stale THEN c.item.min ELSE s.min
      /\ b.over = IF "over" \in stale THEN c.item.over ELSE s.over
      /\ b.begin = IF "begin" \in stale THEN c.item.begin ELSE s.begin
  BY <1>5
<1>7. b \in Items
  BY <1>3, <1>5 DEF Items
<1>8. Loose(b, calls[k])
  BY <1>4, <1>6 DEF Loose
<1>9. ASSUME k \notin torn PROVE b = s
  <2>1. /\ b.num = s.num /\ b.total = s.total /\ b.max = s.max /\ b.min = s.min
        /\ b.over = s.over /\ b.begin = s.begin
    BY <1>2, <1>4, <1>6, <1>9 DEF Agree
  <2>2. QED
    BY <1>3, <1>7, <2>1 DEF Items
<1>10. ASSUME NEW U, U \cap Stats!Uses(c.op) = {} PROVE Agree(b, s, U)
  <2>1. \A f \in U : f \notin stale
    BY <1>2, <1>10
  <2>2. QED
    BY <1>6, <2>1 DEF Agree
<1>11. QED
  BY <1>2, <1>3, <1>7, <1>8, <1>9, <1>10

\* A call stores its fields and ends.
LEMMA StoreStep ==
  ASSUME StatsInv, ~broken, NEW t \in Threads, NEW k, k = call[t].key,
         NEW a \in Items, NEW m, Stats!Store(t, a, m), NEW r \in Recs,
         m = calls[k] \/ m = Append(calls[k], r),
         Loose(a, m), k \notin torn => Right(a, m),
         \A U : U \cap Stats!Uses(call[t].op) = {} => Agree(a, stat[k], U),
         mutex' = IF isMutex /\ call[t].op = "add" THEN None ELSE mutex
  PROVE  StatsInv'
<1>1. StatTypes /\ Holder /\ ItemsSound /\ ReadsSound /\ Apart
  BY DEF StatsInv, StatsSound
<1>2. /\ call[t].at = "item"
      /\ stat' = [stat EXCEPT ![k] = a] /\ calls' = [calls EXCEPT ![k] = m]
      /\ call' = [call EXCEPT ![t] = Stats!NoCall] /\ UNCHANGED <<isMutex, torn, broken>>
  BY DEF Stats!Store
<1>3. k \in Keys /\ calls[k] \in Seq(Recs)
  BY <1>1, <1>2, CallTypes DEF StatTypes
<1>4. m \in Seq(Recs)
  BY <1>3
<1>5. call'[t] = Stats!NoCall /\ \A u \in Threads \ {t} : call'[u] = call[u]
  BY <1>1, <1>2 DEF StatTypes
<1>6. Stats!NoCall.at = "out" /\ Stats!NoCall.op = "none"
  BY DEF Stats!NoCall
<1>7. StatTypes'
  <2>1. /\ stat' \in [Keys -> Items \cup {None}] /\ calls' \in [Keys -> Seq(Recs)]
        /\ call' \in [Threads -> InProgress \cup {Stats!NoCall}]
    BY <1>1, <1>2, <1>3, <1>4 DEF StatTypes
  <2>2. QED
    BY <1>1, <1>2, <1>5, <1>6, <2>1 DEF StatTypes
<1>8. Holder'
  <2>1. ASSUME NEW u \in Threads, isMutex, call'[u].op = "add" PROVE mutex' = u
    <3>1. u # t /\ call[u].op = "add"
      BY <1>5, <1>6, <2>1
    <3>2. mutex = u
      BY <1>1, <2>1, <3>1 DEF Holder
    <3>3. call[t].op # "add"
      BY <1>1, <2>1, <3>1, <3>2 DEF Holder
    <3>4. QED
      BY <3>2, <3>3
  <2>2. QED
    BY <1>2, <2>1 DEF Holder
<1>9. stat'[k] = a /\ calls'[k] = m
      /\ \A q \in Keys \ {k} : stat'[q] = stat[q] /\ calls'[q] = calls[q]
  BY <1>1, <1>2, <1>3 DEF StatTypes
<1>10. a # None
  BY NoneNoItem
<1>11. ItemsSound'
  <2>1. ASSUME NEW q \in Keys
        PROVE  IF stat'[q] = None THEN calls'[q] = <<>>
               ELSE Loose(stat'[q], calls'[q]) /\ (q \notin torn' => Right(stat'[q], calls'[q]))
    <3>1. CASE q = k
      BY <1>2, <1>9, <1>10, <3>1
    <3>2. CASE q # k
      BY <1>1, <1>2, <1>9, <3>2 DEF ItemsSound
    <3>3. QED
      BY <3>1, <3>2
  <2>2. QED
    BY <2>1 DEF ItemsSound
<1>12. \A u \in Threads : call'[u].at = "item" => u # t /\ call'[u] = call[u] /\ call[u].key \in Keys
                                               /\ call[u].item \in Items
  BY <1>1, <1>5, <1>6, CallTypes DEF StatTypes
<1>13. ReadsSound'
  <2>1. ASSUME NEW u \in Threads, call'[u].at = "item"
        PROVE  /\ stat'[call'[u].key] # None /\ Loose(call'[u].item, calls'[call'[u].key])
               /\ call'[u].key \notin torn' =>
                    Agree(call'[u].item, stat'[call'[u].key], Stats!Uses(call'[u].op))
    <3>1. PICK d, q : d = call[u] /\ q = call[u].key
      OBVIOUS
    <3>2. u # t /\ call'[u] = d /\ d.at = "item" /\ d.key = q /\ q \in Keys /\ d.item \in Items
      BY <1>12, <2>1, <3>1
    <3>3. /\ stat[q] # None /\ Loose(d.item, calls[q])
          /\ q \notin torn => Agree(d.item, stat[q], Stats!Uses(d.op))
      BY <1>1, <3>1, <3>2 DEF ReadsSound
    <3>4. CASE q # k
      BY <1>2, <1>9, <3>2, <3>3, <3>4
    <3>5. CASE q = k
      <4>1. Loose(d.item, m)
        BY <1>3, <3>2, <3>3, <3>5, LooseLater
      <4>2. ASSUME k \notin torn PROVE Agree(d.item, a, Stats!Uses(d.op))
        <5>1. Stats!Uses(d.op) \cap Stats!Uses(call[t].op) = {}
          BY <1>1, <1>2, <3>1, <3>2, <3>5, <4>2 DEF Apart
        <5>2. Agree(a, stat[k], Stats!Uses(d.op))
          BY <5>1
        <5>3. Agree(d.item, stat[k], Stats!Uses(d.op))
          BY <3>3, <3>5, <4>2
        <5>4. QED
          BY <5>2, <5>3 DEF Agree
      <4>3. QED
        BY <1>2, <1>9, <1>10, <3>2, <3>5, <4>1, <4>2
    <3>6. QED
      BY <3>4, <3>5
  <2>2. QED
    BY <2>1 DEF ReadsSound
<1>14. Apart'
  BY <1>1, <1>2, <1>12 DEF Apart
<1>15. QED
  BY <1>7, <1>8, <1>11, <1>13, <1>14 DEF StatsInv, StatsSound

LEMMA StatsInvStep ==
  ASSUME StatsInv, now \in Int, now' \in Int, Stats!Next \/ UNCHANGED Stats!statVars PROVE StatsInv'
<1>1. CASE UNCHANGED Stats!statVars
  BY <1>1 DEF Stats!statVars, StatsInv, StatsSound, StatTypes, Holder, ItemsSound, ReadsSound, Apart
<1>2. CASE Stats!Next
  <2>0. ~broken
    BY <1>2 DEF Stats!Next
  <2>1. ASSUME NEW t \in Threads, NEW k \in Keys, NEW cost \in Costs, Stats!AddStat(t, k, cost, 2)
        PROVE  StatsInv'
    <3>1. cost \in Int /\ 2 \in Nat
      BY NumbersAssumption
    <3>2. /\ Stats!Enter(t, "add", k, cost, 2) /\ (isMutex => mutex = None)
          /\ mutex' = IF isMutex THEN t ELSE mutex
      BY <2>1 DEF Stats!AddStat
    <3>3. QED
      BY <2>0, <3>1, <3>2, EnterStep
  <2>2. ASSUME NEW t \in Threads, NEW k \in Keys,
               Stats!BeginStat(t, k) \/ Stats!EndStat(t, k, 1) \/ Stats!AddCount(t, k, 1) \/ Stats!DelStat(t, k)
        PROVE  StatsInv'
    <3>1. PICK op \in {"begin", "end", "count", "del"}, time \in {0, now}, n \in {0, 1} :
            Stats!Enter(t, op, k, time, n)
      BY <2>2 DEF Stats!BeginStat, Stats!EndStat, Stats!AddCount, Stats!DelStat
    <3>2. UNCHANGED mutex
      BY <2>2 DEF Stats!BeginStat, Stats!EndStat, Stats!AddCount, Stats!DelStat
    <3>3. QED
      BY <2>0, <3>1, <3>2, EnterStep
  <2>3. ASSUME NEW t \in Threads, Stats!FindNothing(t) PROVE StatsInv'
    <3>1. /\ call' = [call EXCEPT ![t] = Stats!NoCall] /\ Stats!NoCall.at = "out"
          /\ Stats!NoCall.op = "none" /\ UNCHANGED <<isMutex, stat, mutex, calls, torn, broken>>
      BY <2>3 DEF Stats!FindNothing, Stats!NoCall
    <3>2. StatTypes /\ Holder
      BY DEF StatsInv
    <3>3. call'[t] = Stats!NoCall /\ \A u \in Threads \ {t} : call'[u] = call[u]
      BY <3>1, <3>2 DEF StatTypes
    <3>4. mutex' \in Threads \cup {None} /\ \A u \in Threads : isMutex /\ call'[u].op = "add" => mutex' = u
      BY <3>1, <3>2, <3>3 DEF StatTypes, Holder
    <3>5. QED
      BY <2>0, <3>1, <3>4, CallMoves
  <2>4. ASSUME NEW t \in Threads, Stats!AddStatStore(t) PROVE StatsInv'
    <3>1. PICK c, k : c = call[t] /\ k = call[t].key
      OBVIOUS
    <3>2. PICK stale \in SUBSET Stats!Uses(c.op) :
            Stats!Store(t, Stats!Added(Stats!Base(c, stale), c.time, c.n), Stats!Recorded(c, c.time))
      BY <2>4, <3>1 DEF Stats!AddStatStore
    <3>3. /\ c.op = "add" /\ c.at = "item" /\ mutex' = IF isMutex THEN None ELSE mutex
      BY <2>4, <3>1 DEF Stats!AddStatStore, Stats!Store
    <3>4. StatTypes
      BY DEF StatsInv
    <3>5. k \in Keys /\ c.time \in Int /\ c.n \in Nat
      BY <3>1, <3>3, <3>4, CallTypes
    <3>6. PICK b : b = Stats!Base(c, stale)
      OBVIOUS
    <3>7. /\ b \in Items /\ Loose(b, calls[k]) /\ stat[k] \in Items
          /\ k \notin torn => b = stat[k]
          /\ \A U : U \cap Stats!Uses(c.op) = {} => Agree(b, stat[k], U)
      BY <2>0, <3>1, <3>3, <3>6, BaseSound
    <3>8. PICK a, m, r : /\ a = Stats!Added(b, c.time, c.n) /\ m = Stats!Recorded(c, c.time)
                         /\ r = [cost |-> c.time, n |-> c.n]
      OBVIOUS
    <3>9. a \in Items /\ a.begin = b.begin
      BY <3>5, <3>7, <3>8, AddedFields
    <3>10. r \in Recs /\ m = Append(calls[k], r) /\ calls[k] \in Seq(Recs)
      BY <3>1, <3>4, <3>5, <3>8 DEF Recs, Stats!Recorded, StatTypes
    <3>11. Loose(a, m) /\ (k \notin torn => Right(a, m))
      <4>1. /\ Loose(b, calls[k]) => Loose(a, m)
            /\ Right(b, calls[k]) => Right(a, m)
        <5>1. PICK x \in Int, y \in Nat, q \in Seq(Recs) : x = c.time /\ y = c.n /\ q = calls[k]
          BY <3>5, <3>7, <3>8, <3>10
        <5>2. a = Stats!Added(b, x, y) /\ m = Append(q, [cost |-> x, n |-> y])
          BY <3>8, <3>10, <5>1
        <5>3. b \in Items
          BY <3>5, <3>7, <3>8, <3>10
        <5>4. QED
          <6>1. LET d  == Stats!Added(b, x, y)
                    m2 == Append(q, [cost |-> x, n |-> y])
                IN  (Right(b, q) => Right(d, m2)) /\ (Loose(b, q) => Loose(d, m2))
            BY <5>3, RightAdded, Zenon
          <6>2. QED
            BY <5>1, <5>2, <6>1
      <4>2. k \notin torn => Right(b, calls[k])
        BY <2>0, <3>5, <3>7, NoneNoItem DEF StatsInv, StatsSound, ItemsSound
      <4>3. QED
        BY <3>7, <4>1, <4>2
    <3>12. ASSUME NEW U, U \cap Stats!Uses(c.op) = {} PROVE Agree(a, stat[k], U)
      <4>1. Agree(b, stat[k], U)
        BY <3>7, <3>12
      <4>2. "num" \notin U /\ "total" \notin U /\ "max" \notin U /\ "min" \notin U /\ "over" \notin U
        BY <3>3, <3>12 DEF Stats!Uses
      <4>3. QED
        BY <3>9, <4>1, <4>2 DEF Agree
    <3>13. Stats!Store(t, a, m)
      BY <3>2, <3>6, <3>8
    <3>14. mutex' = IF isMutex /\ call[t].op = "add" THEN None ELSE mutex
      BY <3>1, <3>3
    <3>15. QED
      BY <2>0, <3>1, <3>9, <3>10, <3>11, <3>12, <3>13, <3>14, StoreStep
  <2>5. ASSUME NEW t \in Threads, Stats!EndStatStore(t) PROVE StatsInv'
    <3>1. PICK c, k : c = call[t] /\ k = call[t].key
      OBVIOUS
    <3>0. PICK stale \in SUBSET Stats!Uses(c.op) :
            \E b, cost : /\ b = Stats!Base(c, stale) /\ cost = Stats!Unsigned(c.time - b.begin)
                         /\ Stats!Store(t, Stats!Added(b, cost, c.n), Stats!Recorded(c, cost))
      BY <2>5, <3>1 DEF Stats!EndStatStore
    <3>2. PICK b, cost :
            /\ b = Stats!Base(c, stale) /\ cost = Stats!Unsigned(c.time - b.begin)
            /\ Stats!Store(t, Stats!Added(b, cost, c.n), Stats!Recorded(c, cost))
      BY <3>0
    <3>3. c.op = "end" /\ c.at = "item" /\ mutex' = mutex
      BY <2>5, <3>1 DEF Stats!EndStatStore, Stats!Store
    <3>4. StatTypes
      BY DEF StatsInv
    <3>5. k \in Keys /\ c.time \in Int /\ c.n \in Nat
      BY <3>1, <3>3, <3>4, CallTypes
    <3>6. /\ b \in Items /\ Loose(b, calls[k]) /\ stat[k] \in Items
          /\ k \notin torn => b = stat[k]
          /\ \A U : U \cap Stats!Uses(c.op) = {} => Agree(b, stat[k], U)
      BY <2>0, <3>1, <3>2, <3>3, BaseSound
    <3>7. cost \in Int
      BY <3>2, <3>5, <3>6, NumbersAssumption DEF Stats!Unsigned, Items
    <3>8. PICK a, m, r : /\ a = Stats!Added(b, cost, c.n) /\ m = Stats!Recorded(c, cost)
                         /\ r = [cost |-> cost, n |-> c.n]
      OBVIOUS
    <3>9. a \in Items
      BY <3>5, <3>6, <3>7, <3>8, AddedFields
    <3>10. r \in Recs /\ m = Append(calls[k], r) /\ calls[k] \in Seq(Recs)
      BY <3>1, <3>4, <3>5, <3>7, <3>8 DEF Recs, Stats!Recorded, StatTypes
    <3>11. Loose(a, m) /\ (k \notin torn => Right(a, m))
      <4>1. /\ Loose(b, calls[k]) => Loose(a, m)
            /\ Right(b, calls[k]) => Right(a, m)
        <5>1. PICK x \in Int, y \in Nat, q \in Seq(Recs) : x = cost /\ y = c.n /\ q = calls[k]
          BY <3>5, <3>6, <3>7, <3>8, <3>10
        <5>2. a = Stats!Added(b, x, y) /\ m = Append(q, [cost |-> x, n |-> y])
          BY <3>8, <3>10, <5>1
        <5>3. b \in Items
          BY <3>5, <3>6, <3>7, <3>8, <3>10
        <5>4. QED
          <6>1. LET d  == Stats!Added(b, x, y)
                    m2 == Append(q, [cost |-> x, n |-> y])
                IN  (Right(b, q) => Right(d, m2)) /\ (Loose(b, q) => Loose(d, m2))
            BY <5>3, RightAdded, Zenon
          <6>2. QED
            BY <5>1, <5>2, <6>1
      <4>2. k \notin torn => Right(b, calls[k])
        BY <2>0, <3>5, <3>6, NoneNoItem DEF StatsInv, StatsSound, ItemsSound
      <4>3. QED
        BY <3>6, <4>1, <4>2
    <3>12. ASSUME NEW U, U \cap Stats!Uses(c.op) = {} PROVE Agree(a, stat[k], U)
      <4>1. "num" \notin U /\ "total" \notin U /\ "max" \notin U /\ "min" \notin U /\ "over" \notin U
            /\ "begin" \notin U
        BY <3>3, <3>12 DEF Stats!Uses
      <4>2. QED
        BY <4>1 DEF Agree
    <3>13. Stats!Store(t, a, m)
      BY <3>2, <3>8
    <3>14. mutex' = IF isMutex /\ call[t].op = "add" THEN None ELSE mutex
      BY <3>1, <3>3
    <3>15. QED
      BY <2>0, <3>1, <3>9, <3>10, <3>11, <3>12, <3>13, <3>14, StoreStep
  <2>6. ASSUME NEW t \in Threads, Stats!AddCountStore(t) PROVE StatsInv'
    <3>1. PICK c, k : c = call[t] /\ k = call[t].key
      OBVIOUS
    <3>0. PICK stale \in SUBSET Stats!Uses(c.op) :
            \E b : /\ b = Stats!Base(c, stale)
                   /\ Stats!Store(t, [b EXCEPT !.num = @ + c.n], Stats!Recorded(c, None))
      BY <2>6, <3>1 DEF Stats!AddCountStore
    <3>2. PICK b :
            /\ b = Stats!Base(c, stale)
            /\ Stats!Store(t, [b EXCEPT !.num = @ + c.n], Stats!Recorded(c, None))
      BY <3>0
    <3>3. c.op = "count" /\ c.at = "item" /\ mutex' = mutex
      BY <2>6, <3>1 DEF Stats!AddCountStore, Stats!Store
    <3>4. StatTypes
      BY DEF StatsInv
    <3>5. k \in Keys /\ c.n \in Nat
      BY <3>1, <3>3, <3>4, CallTypes
    <3>6. /\ b \in Items /\ Loose(b, calls[k]) /\ stat[k] \in Items
          /\ k \notin torn => b = stat[k]
          /\ \A U : U \cap Stats!Uses(c.op) = {} => Agree(b, stat[k], U)
      BY <2>0, <3>1, <3>2, <3>3, BaseSound
    <3>7. PICK a, m, r : /\ a = [b EXCEPT !.num = b.num + c.n] /\ m = Stats!Recorded(c, None)
                         /\ r = [cost |-> None, n |-> c.n]
      OBVIOUS
    <3>8. a = [b EXCEPT !.num = @ + c.n]
      BY <3>6, <3>7 DEF Items
    <3>9. r \in Recs /\ m = Append(calls[k], r) /\ calls[k] \in Seq(Recs)
      BY <3>1, <3>4, <3>5, <3>7 DEF Recs, Stats!Recorded, StatTypes
    <3>10. /\ a \in Items
           /\ Loose(b, calls[k]) => Loose(a, m)
           /\ Right(b, calls[k]) => Right(a, m)
      <4>1. PICK y \in Nat, q \in Seq(Recs) : y = c.n /\ q = calls[k]
        BY <3>5, <3>9
      <4>2. a = [b EXCEPT !.num = b.num + y] /\ m = Append(q, [cost |-> None, n |-> y])
        BY <3>7, <3>9, <4>1
      <4>3. b \in Items
        BY <3>6
      <4>4. QED
        <5>1. LET d  == [b EXCEPT !.num = b.num + y]
                  m2 == Append(q, [cost |-> None, n |-> y])
              IN  d \in Items /\ (Right(b, q) => Right(d, m2)) /\ (Loose(b, q) => Loose(d, m2))
          BY <4>3, RightCounted, Zenon
        <5>2. QED
          BY <4>1, <4>2, <5>1
    <3>11. Loose(a, m) /\ (k \notin torn => Right(a, m))
      <4>1. k \notin torn => Right(b, calls[k])
        BY <2>0, <3>5, <3>6, NoneNoItem DEF StatsInv, StatsSound, ItemsSound
      <4>2. QED
        BY <3>6, <3>10, <4>1
    <3>12. ASSUME NEW U, U \cap Stats!Uses(c.op) = {} PROVE Agree(a, stat[k], U)
      <4>1. Agree(b, stat[k], U)
        BY <3>6, <3>12
      <4>2. "num" \notin U
        BY <3>3, <3>12 DEF Stats!Uses
      <4>3. a.total = b.total /\ a.max = b.max /\ a.min = b.min /\ a.over = b.over /\ a.begin = b.begin
        BY <3>6, <3>7 DEF Items
      <4>4. QED
        BY <4>1, <4>2, <4>3 DEF Agree
    <3>13. Stats!Store(t, a, m)
      BY <3>2, <3>7, <3>8
    <3>14. mutex' = IF isMutex /\ call[t].op = "add" THEN None ELSE mutex
      BY <3>1, <3>3
    <3>15. QED
      BY <2>0, <3>1, <3>9, <3>10, <3>11, <3>12, <3>13, <3>14, StoreStep
  <2>7. ASSUME NEW t \in Threads, Stats!BeginStatStore(t) PROVE StatsInv'
    <3>1. PICK k, s, a : k = call[t].key /\ s = stat[call[t].key] /\ a = [s EXCEPT !.begin = now]
      OBVIOUS
    <3>2. /\ call[t].op = "begin" /\ call[t].at = "item" /\ mutex' = mutex
          /\ Stats!Store(t, a, calls[k])
      BY <2>7, <3>1 DEF Stats!BeginStatStore, Stats!Store
    <3>3. StatTypes /\ ItemsSound /\ ReadsSound
      BY <2>0 DEF StatsInv, StatsSound
    <3>4. k \in Keys /\ s \in Items
      BY <3>1, <3>2, <3>3, CallTypes DEF StatTypes, ReadsSound
    <3>5. /\ a \in Items /\ a.num = s.num /\ a.total = s.total /\ a.min = s.min
          /\ a.max = s.max /\ a.over = s.over
      BY <3>1, <3>4 DEF Items
    <3>6. Loose(s, calls[k]) /\ (k \notin torn => Right(s, calls[k]))
      BY <3>1, <3>3, <3>4, NoneNoItem DEF ItemsSound
    <3>7. Loose(a, calls[k]) /\ (k \notin torn => Right(a, calls[k]))
      BY <3>5, <3>6 DEF Loose, Right
    <3>8. ASSUME NEW U, U \cap Stats!Uses(call[t].op) = {} PROVE Agree(a, stat[k], U)
      <4>1. "begin" \notin U
        BY <3>2, <3>8 DEF Stats!Uses
      <4>2. QED
        BY <3>1, <3>5, <4>1 DEF Agree
    <3>9. PICK r \in Recs : TRUE
      <4>1. [cost |-> None, n |-> 0] \in Recs
        BY DEF Recs
      <4>2. QED
        BY <4>1
    <3>10. mutex' = IF isMutex /\ call[t].op = "add" THEN None ELSE mutex
      BY <3>2
    <3>11. QED
      BY <2>0, <3>1, <3>2, <3>5, <3>7, <3>8, <3>9, <3>10, StoreStep
  <2>8. CASE Stats!Clock
    BY <1>1, <2>8 DEF Stats!Clock
  <2>9. QED
    BY <1>2, <2>0, <2>1, <2>2, <2>3, <2>4, <2>5, <2>6, <2>7, <2>8, FindItemStep, EraseItemStep
       DEF Stats!Next
<1>3. QED
  BY <1>1, <1>2

\* What is right is what StatsExact asks for.
LEMMA RightExact ==
  ASSUME NEW item \in Items, NEW m \in Seq(Recs), Right(item, m)
  PROVE  /\ item.num = Stats!SumFunctionOnSet(Nums(m), DOMAIN m)
         /\ item.total = Stats!SumFunctionOnSet(CostsOf(m), Timed(m))
         /\ item.min = Stats!Min(Extremes(m, Hour))
         /\ item.max = Stats!Max(Extremes(m, 0))
         /\ \A j \in 1..3 : item.over[j] = Stats!SumFunctionOnSet(Nums(m), Over(m, j))
<1>1. /\ item.num = SumFunctionOnSet(Nums(m), DOMAIN m)
      /\ item.total = SumFunctionOnSet(CostsOf(m), Timed(m))
      /\ item.min \in Extremes(m, Hour) /\ \A c \in Extremes(m, Hour) : item.min <= c
      /\ item.max \in Extremes(m, 0) /\ \A c \in Extremes(m, 0) : c <= item.max
      /\ \A j \in 1..3 : item.over[j] = SumFunctionOnSet(Nums(m), Over(m, j))
  BY DEF Right, NumSum, CostSum, OverSum
<1>2. Extremes(m, Hour) \subseteq Int /\ Extremes(m, 0) \subseteq Int
  <2>1. \A i \in DOMAIN m : m[i].cost \in Int \cup {None}
    <3>1. \A i \in DOMAIN m : m[i] \in Recs
      OBVIOUS
    <3>2. QED
      BY <3>1 DEF Recs
  <2>2. \A i \in Timed(m) : CostsOf(m)[i] \in Int
    BY <2>1 DEF Timed, CostsOf
  <2>3. QED
    BY <2>2, NumbersAssumption DEF Extremes
<1>3. ASSUME NEW S \in SUBSET Int, NEW x \in S, \A y \in S : x <= y PROVE x = Stats!Min(S)
  <2>1. \A z \in S : (\A y \in S : z <= y) => z = x
    BY <1>3
  <2>2. QED
    BY <1>3, <2>1 DEF Stats!Min
<1>4. ASSUME NEW S \in SUBSET Int, NEW x \in S, \A y \in S : y <= x PROVE x = Stats!Max(S)
  <2>1. \A z \in S : (\A y \in S : y <= z) => z = x
    BY <1>4
  <2>2. QED
    BY <1>4, <2>1 DEF Stats!Max
<1>5. QED
  BY <1>1, <1>2, <1>3, <1>4, SumSame

LEMMA LooseExact ==
  ASSUME NEW item \in Items, NEW m \in Seq(Recs), Loose(item, m)
  PROVE  /\ item.num <= Stats!SumFunctionOnSet(Nums(m), DOMAIN m)
         /\ item.min \in Extremes(m, Hour) /\ item.max \in Extremes(m, 0)
         /\ \A j \in 1..3 : item.over[j] <= Stats!SumFunctionOnSet(Nums(m), Over(m, j))
BY SumSame DEF Loose, NumSum, OverSum

\* So StatsExact holds.
LEMMA StatsInvExact == StatsInv => StatsExact
<1> SUFFICES ASSUME StatsInv, ~broken, NEW k \in Keys, stat[k] # None \/ calls[k] # <<>>
             PROVE  /\ stat[k] # None
                    /\ stat[k].num <= Stats!SumFunctionOnSet(Nums(calls[k]), DOMAIN calls[k])
                    /\ stat[k].min \in Extremes(calls[k], Hour)
                    /\ stat[k].max \in Extremes(calls[k], 0)
                    /\ \A j \in 1..3 : stat[k].over[j] <= Stats!SumFunctionOnSet(Nums(calls[k]), Over(calls[k], j))
                    /\ k \notin torn =>
                         /\ stat[k].num = Stats!SumFunctionOnSet(Nums(calls[k]), DOMAIN calls[k])
                         /\ stat[k].total = Stats!SumFunctionOnSet(CostsOf(calls[k]), Timed(calls[k]))
                         /\ stat[k].min = Stats!Min(Extremes(calls[k], Hour))
                         /\ stat[k].max = Stats!Max(Extremes(calls[k], 0))
                         /\ \A j \in 1..3 : stat[k].over[j] = Stats!SumFunctionOnSet(Nums(calls[k]), Over(calls[k], j))
  BY Zenon DEF StatsExact, Stats!StatsExact, Nums, CostsOf, Timed, Extremes, Over
<1>1. StatTypes /\ ItemsSound
  BY DEF StatsInv, StatsSound
<1>2. stat[k] # None /\ Loose(stat[k], calls[k]) /\ (k \notin torn => Right(stat[k], calls[k]))
  BY <1>1 DEF ItemsSound
<1>3. stat[k] \in Items /\ calls[k] \in Seq(Recs)
  BY <1>1, <1>2 DEF StatTypes
<1>4. QED
  BY <1>2, <1>3, RightExact, LooseExact

\* At every moment every item holds exactly what was stored for its key, however
\* many threads call AddStat and whatever the others call beside it, except that
\* two calls without a common lock that use one field at once may lose some of
\* it, and that nothing is said once the map has changed under a call or an item
\* was deleted under one (stater.cpp:57-178).
THEOREM StatsCorrect == Spec => []StatsExact
<1>1. Init => StatsInv
  BY StatsInvInit DEF Init
<1>2. ClockInv /\ ClockInv' /\ StatsInv /\ [Next]_vars => StatsInv'
  BY StatsInvStep, PartSteps DEF ClockInv
<1>3. StatsInv => StatsExact
  BY StatsInvExact
<1>4. SInv => ClockInv
  BY DEF SInv
<1>5. QED
  BY SInvHolds, <1>1, <1>2, <1>3, <1>4, PTL DEF Spec

-----------------------------------------------------------------------------
(* CLogger: no recent line is lost *)

Lines == [id : Nat, at : Int]

LogTypes ==
  /\ changeType \in {"num", "hour", "day", "month"}
  /\ count \in Nat /\ now \in 0..LogTime /\ lastTime \in 0..LogTime
  /\ written \in Seq(Lines) /\ cur \in Seq(Lines) /\ old \in [Logger!Suffix -> Seq(Lines)]

\* Lines are numbered as they are written.
Stamped ==
  /\ \A k \in 1..Len(written) : written[k].id = k
  /\ \A l \in Logger!ToSet(cur) : l.id <= Len(written)

FilesInOrder == Logger!InOrder(cur) /\ \A i \in Logger!Suffix : Logger!InOrder(old[i])

\* The current file and the i before it.
HeldIn(i) == Logger!ToSet(cur) \cup UNION {Logger!ToSet(old[j]) : j \in 1..i}

\* The last p + r lines are in these files.
Reaches(i, p, r) == \A k \in 1..Len(written) : k > Len(written) - p - r => written[k] \in HeldIn(i)

\* i full files and what the counter says of the current one.
Numbered ==
  \A i \in 0..(LineFileNum - 1) : \A p, r :
     p = i * (ChangeLine - 1) /\ r = count % ChangeLine => Reaches(i, p, r)

\* The lines of a file that is named after period t are not younger, or so much
\* younger that only the name of the period is the same.
NamedAfter(lines, t) == \A l \in Logger!ToSet(lines) : l.at <= t \/ l.at >= t + Cycle

Bump == IF changeType = "month" THEN 1 ELSE 0

\* Nothing is of the future, and what is not kept is old.
Dated ==
  /\ lastTime <= now /\ \A l \in Logger!ToSet(cur) : l.at <= now
  /\ NamedAfter(cur, lastTime)
  /\ \A i \in Logger!Suffix : /\ NamedAfter(old[i], i)
                              /\ \A l \in Logger!ToSet(old[i]) : l.at <= now /\ i < lastTime
  /\ \A k \in 1..Len(written) : written[k] \in Logger!Kept \/ written[k].at <= now - HourFileNum + Bump

LogInv ==
  /\ LogTypes /\ Stamped /\ FilesInOrder
  /\ changeType = "num" => Numbered
  /\ changeType # "num" /\ ~wentBack => Dated

\* The constants.
LEMMA LogNumbers ==
  /\ LogTime \in Nat /\ ChangeLine \in Nat \ {0} /\ LineFileNum \in Nat \ {0, 1}
  /\ HourFileNum \in Nat \ {0} /\ Cycle \in Nat \ {0} /\ HourFileNum + 1 < Cycle
BY NumbersAssumption

\* The lines of a file.
LEMMA LinesOf ==
  ASSUME NEW s \in Seq(Lines)
  PROVE  /\ Len(s) \in Nat
         /\ \A l : l \in Logger!ToSet(s) <=> \E i \in 1..Len(s) : l = s[i]
         /\ \A l \in Logger!ToSet(s) : l \in Lines
BY LenProperties, ElementOfSeq DEF Logger!ToSet

\* No line.
LEMMA LinesOfNone == Logger!ToSet(<<>>) = {} /\ Logger!InOrder(<<>>) /\ <<>> \in Seq(Lines)
BY DEF Logger!ToSet, Logger!InOrder

\* One line.
LEMMA LinesOfOne ==
  ASSUME NEW l \in Lines
  PROVE  /\ <<l>> \in Seq(Lines) /\ Logger!ToSet(<<l>>) = {l} /\ Logger!InOrder(<<l>>)
<1>1. PICK s : s = <<l>>
  OBVIOUS
<1>2. s \in Seq(Lines) /\ Len(s) = 1 /\ s[1] = l /\ DOMAIN s = 1..1
  BY <1>1
<1>3. Logger!ToSet(s) = {l}
  BY <1>2 DEF Logger!ToSet
<1>4. Logger!InOrder(s)
  BY <1>2 DEF Logger!InOrder
<1>5. QED
  BY <1>1, <1>2, <1>3, <1>4

\* One line more.
LEMMA LineAppended ==
  ASSUME NEW s \in Seq(Lines), NEW l \in Lines, NEW t, t = Append(s, l)
  PROVE  /\ t \in Seq(Lines) /\ Len(t) = Len(s) + 1 /\ t[Len(s) + 1] = l
         /\ \A i \in 1..Len(s) : t[i] = s[i]
         /\ Logger!ToSet(t) = Logger!ToSet(s) \cup {l}
         /\ Logger!InOrder(s) /\ (\A m \in Logger!ToSet(s) : m.id < l.id) => Logger!InOrder(t)
<1>1. t \in Seq(Lines) /\ Len(t) = Len(s) + 1 /\ t[Len(s) + 1] = l /\ \A i \in 1..Len(s) : t[i] = s[i]
  BY AppendProperties
<1>2. Len(s) \in Nat /\ DOMAIN s = 1..Len(s) /\ DOMAIN t = 1..(Len(s) + 1)
  BY <1>1, LenProperties
<1>3. \A m : m \in Logger!ToSet(t) <=> m \in Logger!ToSet(s) \/ m = l
  <2>1. PICK n : n = Len(s)
    OBVIOUS
  <2>2. \A i : i \in 1..(n + 1) <=> i \in 1..n \/ i = n + 1
    BY <1>2, <2>1
  <2>3. QED
    BY <1>1, <1>2, <2>1, <2>2 DEF Logger!ToSet
<1>4. ASSUME Logger!InOrder(s), \A m \in Logger!ToSet(s) : m.id < l.id PROVE Logger!InOrder(t)
  <2> SUFFICES ASSUME NEW i \in 1..(Len(s) + 1), NEW j \in 1..(Len(s) + 1), i < j PROVE t[i].id < t[j].id
    BY <1>2 DEF Logger!InOrder
  <2>1. i \in 1..Len(s) /\ t[i] = s[i] /\ s[i] \in Logger!ToSet(s)
    BY <1>1, <1>2 DEF Logger!ToSet
  <2>2. CASE j \in 1..Len(s)
    BY <1>1, <1>2, <1>4, <2>1, <2>2 DEF Logger!InOrder
  <2>3. CASE j = Len(s) + 1
    BY <1>1, <1>4, <2>1, <2>3
  <2>4. QED
    BY <1>2, <2>2, <2>3
<1>5. QED
  BY <1>1, <1>3, <1>4

\* The log begins empty.
LEMMA LogInvInit == Logger!Init => LogInv
<1> SUFFICES ASSUME Logger!Init PROVE LogInv
  OBVIOUS
<1>1. /\ changeType \in {"num", "hour", "day", "month"} /\ count = 0 /\ now = 0 /\ lastTime = 0
      /\ cur = <<>> /\ old = [i \in Logger!Suffix |-> <<>>] /\ written = <<>>
  BY DEF Logger!Init
<1>2. LogTypes
  BY <1>1, LogNumbers, LinesOfNone DEF LogTypes
<1>3. Stamped /\ FilesInOrder
  BY <1>1, LinesOfNone DEF Stamped, FilesInOrder
<1>4. Numbered
  BY <1>1 DEF Numbered, Reaches
<1>5. Dated
  BY <1>1, LogNumbers, LinesOfNone DEF Dated, NamedAfter
<1>6. QED
  BY <1>2, <1>3, <1>4, <1>5 DEF LogInv

\* What the invariant says of the recent lines.
LEMMA LogInvKept == LogInv => Logger!RecentKept
<1> SUFFICES ASSUME LogInv PROVE Logger!RecentKept
  OBVIOUS
<1>1. LogTypes /\ Stamped /\ FilesInOrder
  BY DEF LogInv
<1>2. Len(written) \in Nat /\ \A l : l \in Logger!ToSet(written) <=> \E k \in 1..Len(written) : l = written[k]
  BY <1>1, LinesOf DEF LogTypes
<1>3. ASSUME NEW l \in Logger!Recent, changeType = "num" \/ ~wentBack PROVE l \in Logger!Kept
  <2>1. l \in Logger!ToSet(written)
    BY <1>3 DEF Logger!Recent
  <2>2. PICK k \in 1..Len(written) : l = written[k]
    BY <1>2, <2>1
  <2>3. CASE changeType = "num"
    <3>1. l.id > Len(written) - (LineFileNum - 1) * (ChangeLine - 1)
      BY <1>3, <2>3 DEF Logger!Recent
    <3>2. l.id = k
      BY <1>1, <2>2 DEF Stamped
    <3>3. count % ChangeLine \in Nat
      <4>1. count \in Int /\ ChangeLine \in Nat \ {0}
        BY <1>1, LogNumbers DEF LogTypes
      <4>2. count % ChangeLine \in 0 .. ChangeLine - 1
        BY ONLY <4>1, Divided, Zenon
      <4>3. QED
        BY <4>2
    <3>4. PICK i : i = LineFileNum - 1
      OBVIOUS
    <3>5. PICK m : m = i * (ChangeLine - 1)
      OBVIOUS
    <3>6. i \in 0..(LineFileNum - 1) /\ m \in Int
      BY <3>4, <3>5, LogNumbers
    <3>7. PICK r, n : r = count % ChangeLine /\ n = Len(written)
      OBVIOUS
    <3>8. k > n - m - r
      BY <1>2, <3>1, <3>2, <3>3, <3>4, <3>5, <3>6, <3>7
    <3>9. written[k] \in HeldIn(i)
      <4>1. Numbered
        BY <2>3 DEF LogInv
      <4>2. Reaches(i, m, r)
        BY ONLY <3>5, <3>6, <3>7, <4>1, Zenon DEF Numbered
      <4>3. QED
        BY <3>7, <3>8, <4>2 DEF Reaches
    <3>10. Logger!Suffix = 1..i
      BY <2>3, <3>4 DEF Logger!Suffix
    <3>11. QED
      BY <2>2, <3>9, <3>10 DEF HeldIn, Logger!Kept
  <2>4. CASE changeType # "num"
    <3>1. l.at > now - HourFileNum + Bump
      BY <1>3, <2>4 DEF Logger!Recent, Bump
    <3>2. l.at \in Int /\ now \in Int /\ Bump \in Int
      <4>1. l \in Lines
        BY <1>1, <2>1, LinesOf DEF LogTypes
      <4>2. QED
        BY <1>1, <4>1 DEF LogTypes, Bump, Lines
    <3>3. l \in Logger!Kept \/ l.at <= now - HourFileNum + Bump
      <4>1. Dated
        BY <1>3, <2>4 DEF LogInv
      <4>2. QED
        BY <2>2, <4>1 DEF Dated
    <3>4. QED
      BY <3>1, <3>2, <3>3, LogNumbers
  <2>5. QED
    BY <2>3, <2>4
<1>4. QED
  BY <1>1, <1>3 DEF Logger!RecentKept, FilesInOrder

\* What Log writes, whether or not it changes the file.
LEMMA Logged ==
  ASSUME LogTypes, Stamped, FilesInOrder, Logger!Log, NEW line, line = [id |-> Len(written) + 1, at |-> now]
  PROVE  /\ line \in Lines /\ now' = now /\ changeType' = changeType /\ count' = count + 1
         /\ written' \in Seq(Lines) /\ \A k \in 1..Len(written) : written'[k] = written[k]
         /\ \/ Len(written') = Len(written)
            \/ /\ Len(written') = Len(written) + 1
               /\ written'[Len(written) + 1] = line /\ line \in Logger!ToSet(cur')
         /\ cur' \in Seq(Lines) /\ Logger!InOrder(cur')
         /\ \A l \in Logger!ToSet(cur') : l \in Logger!ToSet(cur) \/ (l = line /\ Len(written') = Len(written) + 1)
         /\ \/ ~Logger!NumChanges /\ ~Logger!TimeChanges /\ UNCHANGED <<lastTime, old>>
               /\ Logger!ToSet(cur) \subseteq Logger!ToSet(cur') /\ Len(written') = Len(written) + 1
            \/ /\ \A l \in Logger!ToSet(cur') : l = line
               /\ \/ Logger!NumChanges /\ old' = Logger!Shifted /\ lastTime' = lastTime
                  \/ /\ Logger!TimeChanges /\ lastTime' = now
                     /\ \E e \in Logger!Expired : old' = Logger!Dated(e)
<1>1. /\ written \in Seq(Lines) /\ cur \in Seq(Lines) /\ Len(written) \in Nat /\ now \in Int
  BY LinesOf DEF LogTypes
<1>2. line \in Lines /\ line.id = Len(written) + 1 /\ line.at = now
  BY <1>1 DEF Lines
<1>3. now' = now /\ changeType' = changeType /\ count' = count + 1
  BY DEF Logger!Log
<1>4. ASSUME NEW t, t = Append(written, line)
      PROVE  /\ t \in Seq(Lines) /\ Len(t) = Len(written) + 1 /\ t[Len(written) + 1] = line
             /\ \A k \in 1..Len(written) : t[k] = written[k]
  BY <1>1, <1>2, <1>4, LineAppended
<1>5. ASSUME NEW files, NEW time, Logger!Rotate(files, time)
      PROVE  /\ written' \in Seq(Lines) /\ \A k \in 1..Len(written) : written'[k] = written[k]
             /\ \/ Len(written') = Len(written)
                \/ /\ Len(written') = Len(written) + 1
                   /\ written'[Len(written) + 1] = line /\ line \in Logger!ToSet(cur')
             /\ cur' \in Seq(Lines) /\ Logger!InOrder(cur')
             /\ \A l \in Logger!ToSet(cur') : l = line /\ Len(written') = Len(written) + 1
             /\ old' = files /\ lastTime' = time
  <2>1. \/ cur' = <<line>> /\ written' = Append(written, line)
        \/ cur' = <<>> /\ written' = written
    BY <1>5 DEF Logger!Rotate
  <2>2. CASE cur' = <<line>> /\ written' = Append(written, line)
    <3>1. PICK t, c : t = written' /\ c = cur'
      OBVIOUS
    <3>2. /\ t \in Seq(Lines) /\ Len(t) = Len(written) + 1 /\ t[Len(written) + 1] = line
          /\ \A k \in 1..Len(written) : t[k] = written[k]
      BY <1>4, <2>2, <3>1
    <3>3. c \in Seq(Lines) /\ Logger!ToSet(c) = {line} /\ Logger!InOrder(c)
      BY <1>2, <2>2, <3>1, LinesOfOne
    <3>4. QED
      BY <1>5, <3>1, <3>2, <3>3 DEF Logger!Rotate
  <2>3. CASE cur' = <<>> /\ written' = written
    BY <1>1, <1>5, <2>3, LinesOfNone DEF Logger!Rotate
  <2>4. QED
    BY <2>1, <2>2, <2>3
<1>6. CASE ~Logger!NumChanges /\ ~Logger!TimeChanges
  <2>1. cur' = Append(cur, line) /\ written' = Append(written, line) /\ UNCHANGED <<lastTime, old>>
    BY <1>6 DEF Logger!Log
  <2>2. PICK t, c : t = written' /\ c = cur'
    OBVIOUS
  <2>3. /\ t \in Seq(Lines) /\ Len(t) = Len(written) + 1 /\ t[Len(written) + 1] = line
        /\ \A k \in 1..Len(written) : t[k] = written[k]
    BY <1>4, <2>1, <2>2
  <2>4. c \in Seq(Lines) /\ Logger!ToSet(c) = Logger!ToSet(cur) \cup {line} /\ Logger!InOrder(c)
    <3>1. Logger!InOrder(cur) /\ \A m \in Logger!ToSet(cur) : m.id < line.id
      <4>1. \A m \in Logger!ToSet(cur) : m \in Lines /\ m.id <= Len(written)
        BY <1>1, LinesOf DEF Stamped
      <4>2. \A m \in Logger!ToSet(cur) : m.id < line.id
        BY <1>1, <1>2, <4>1 DEF Lines
      <4>3. QED
        BY <4>2 DEF FilesInOrder
    <3>2. c = Append(cur, line)
      BY <2>1, <2>2
    <3>3. QED
      BY ONLY <1>1, <1>2, <3>1, <3>2, LineAppended, Zenon
  <2>5. QED
    BY <1>2, <1>3, <1>6, <2>1, <2>2, <2>3, <2>4
<1>7. CASE Logger!NumChanges /\ Logger!Rotate(Logger!Shifted, lastTime)
  BY <1>2, <1>3, <1>5, <1>7
<1>8. CASE Logger!TimeChanges /\ \E e \in Logger!Expired : Logger!Rotate(Logger!Dated(e), now)
  BY <1>2, <1>3, <1>5, <1>8
<1>9. QED
  BY <1>6, <1>7, <1>8 DEF Logger!Log

\* Log keeps the order of the lines.
LEMMA LogKeepsTypes ==
  ASSUME LogTypes, Stamped, FilesInOrder, Logger!Log
  PROVE  LogTypes' /\ Stamped' /\ FilesInOrder'
<1>1. PICK line : line = [id |-> Len(written) + 1, at |-> now]
  OBVIOUS
<1>2. /\ line \in Lines /\ now' = now /\ changeType' = changeType /\ count' = count + 1
      /\ written' \in Seq(Lines) /\ \A k \in 1..Len(written) : written'[k] = written[k]
      /\ \/ Len(written') = Len(written)
         \/ /\ Len(written') = Len(written) + 1
            /\ written'[Len(written) + 1] = line /\ line \in Logger!ToSet(cur')
      /\ cur' \in Seq(Lines) /\ Logger!InOrder(cur')
      /\ \A l \in Logger!ToSet(cur') : l \in Logger!ToSet(cur) \/ (l = line /\ Len(written') = Len(written) + 1)
  BY <1>1, Logged
<1>3. /\ Logger!Suffix' = Logger!Suffix /\ lastTime' \in 0..LogTime
      /\ \/ old' = old
         \/ old' = Logger!Shifted /\ changeType = "num"
         \/ \E e \in Logger!Expired : old' = Logger!Dated(e)
  <2>1. \/ UNCHANGED <<lastTime, old>>
        \/ Logger!NumChanges /\ old' = Logger!Shifted /\ lastTime' = lastTime
        \/ lastTime' = now /\ \E e \in Logger!Expired : old' = Logger!Dated(e)
    BY <1>1, Logged
  <2>2. lastTime \in 0..LogTime /\ now \in 0..LogTime
    BY DEF LogTypes
  <2>3. Logger!Suffix' = Logger!Suffix
    BY <1>2 DEF Logger!Suffix
  <2>4. lastTime' \in 0..LogTime
    BY <2>1, <2>2
  <2>5. QED
    BY <2>1, <2>3, <2>4 DEF Logger!NumChanges
\* The files are files there were, or empty.
<1>4. /\ DOMAIN old' = Logger!Suffix
      /\ \A i \in Logger!Suffix : \/ old'[i] = <<>> \/ old'[i] = cur
                                  \/ \E j \in Logger!Suffix : old'[i] = old[j]
  <2>1. DOMAIN old = Logger!Suffix
    BY DEF LogTypes
  <2>2. CASE old' = old
    BY <2>1, <2>2
  <2>3. CASE old' = Logger!Shifted /\ changeType = "num"
    <3>1. Logger!Suffix = 1..(LineFileNum - 1) /\ LineFileNum \in Nat
      BY <2>3, LogNumbers DEF Logger!Suffix
    <3>2. ASSUME NEW i \in Logger!Suffix, i # 1 PROVE i - 1 \in Logger!Suffix
      BY <3>1, <3>2
    <3>3. QED
      BY <2>3, <3>2 DEF Logger!Shifted
  <2>4. ASSUME NEW e, old' = Logger!Dated(e)
        PROVE  /\ DOMAIN old' = Logger!Suffix
               /\ \A i \in Logger!Suffix : \/ old'[i] = <<>> \/ old'[i] = cur
                                           \/ \E j \in Logger!Suffix : old'[i] = old[j]
    BY <2>4 DEF Logger!Dated
  <2>5. QED
    BY <1>3, <2>2, <2>3, <2>4
<1>5. \A i \in Logger!Suffix : old'[i] \in Seq(Lines) /\ Logger!InOrder(old'[i])
  BY <1>4, LinesOfNone DEF LogTypes, FilesInOrder
<1>6. old' \in [Logger!Suffix -> Seq(Lines)]
  <2>1. old' = [i \in DOMAIN old' |-> old'[i]]
    <3>1. \/ old' = old \/ old' = Logger!Shifted \/ \E e : old' = Logger!Dated(e)
      BY <1>3
    <3>2. CASE old' = old
      BY <3>2 DEF LogTypes
    <3>3. CASE old' = Logger!Shifted
      BY <3>3 DEF Logger!Shifted
    <3>4. ASSUME NEW e, old' = Logger!Dated(e) PROVE old' = [i \in DOMAIN old' |-> old'[i]]
      BY <3>4 DEF Logger!Dated
    <3>5. QED
      BY <3>1, <3>2, <3>3, <3>4
  <2>2. QED
    BY <1>4, <1>5, <2>1
<1>7. LogTypes'
  <2>1. now' \in 0..LogTime /\ count' \in Nat /\ changeType' \in {"num", "hour", "day", "month"}
    BY <1>2 DEF LogTypes
  <2>2. QED
    BY <1>2, <1>3, <1>6, <2>1 DEF LogTypes
<1>8. Stamped'
  <2>1. /\ Len(written) \in Nat /\ now \in Int /\ line.id = Len(written) + 1 /\ line.at = now
    BY <1>1, LinesOf DEF LogTypes
  <2>2. \A k \in 1..Len(written') : written'[k].id = k
    BY <1>2, <2>1 DEF Stamped
  <2>3. \A l \in Logger!ToSet(cur) : l.id \in Nat
    BY LinesOf DEF LogTypes, Lines
  <2>4. \A l \in Logger!ToSet(cur') : l.id <= Len(written')
    BY <1>2, <2>1, <2>3 DEF Stamped
  <2>5. QED
    BY <2>2, <2>4 DEF Stamped, Logger!ToSet
<1>9. FilesInOrder'
  BY <1>2, <1>3, <1>5 DEF FilesInOrder, Logger!InOrder
<1>10. QED
  BY <1>7, <1>8, <1>9

\* The counter's place in the file.
LEMMA Counted ==
  ASSUME NEW c \in Nat, NEW n \in Nat \ {0}
  PROVE  /\ c % n \in 0..(n - 1)
         /\ (c + 1) % n # 0 => (c + 1) % n = (c % n) + 1
         /\ (c + 1) % n = 0 => c % n = n - 1
<1>1. PICK q, r, p, s : q = c \div n /\ r = c % n /\ p = (c + 1) \div n /\ s = (c + 1) % n
  OBVIOUS
<1>2. q \in Int /\ r \in 0..(n - 1) /\ c = n * q + r
  <2>1. c \in Int /\ n \in Nat \ {0}
    OBVIOUS
  <2>2. c \div n \in Int /\ c % n \in 0 .. n - 1 /\ c = n * (c \div n) + (c % n)
    BY ONLY <2>1, Divided, Zenon
  <2>3. QED
    BY ONLY <1>1, <2>2, Zenon
<1>3. p \in Int /\ s \in 0..(n - 1) /\ c + 1 = n * p + s
  <2>1. c + 1 \in Int /\ n \in Nat \ {0}
    OBVIOUS
  <2>2. (c + 1) \div n \in Int /\ (c + 1) % n \in 0 .. n - 1 /\ c + 1 = n * ((c + 1) \div n) + ((c + 1) % n)
    BY ONLY <2>1, Divided, Zenon
  <2>3. QED
    BY ONLY <1>1, <2>2, Zenon
<1>4. CASE r + 1 < n
  <2>1. r + 1 \in 0..(n - 1) /\ n * q + (r + 1) = n * p + s
    BY <1>2, <1>3, <1>4
  <2>2. r + 1 = s
    BY ONLY <1>2, <1>3, <2>1, n \in Nat \ {0}, Unique
  <2>3. s = r + 1 /\ s # 0
    BY <1>2, <2>2
  <2>4. QED
    BY ONLY <1>1, <1>2, <2>3, n \in Nat \ {0}
<1>5. CASE r + 1 = n
  <2>1. n * (q + 1) = n * q + n /\ n * q \in Int
    BY ONLY <1>2, n \in Nat
  <2>2. n * (q + 1) + 0 = n * p + s /\ 0 \in 0..(n - 1) /\ q + 1 \in Int
    BY <1>2, <1>3, <1>5, <2>1
  <2>3. 0 = s
    BY ONLY <1>3, <2>2, n \in Nat \ {0}, Unique
  <2>4. s = 0 /\ r = n - 1
    BY <1>2, <1>5, <2>3
  <2>5. QED
    BY ONLY <1>1, <1>2, <2>4, n \in Nat \ {0}
<1>6. QED
  BY <1>2, <1>4, <1>5

\* Every line of a file that is renamed is in the next one.
LEMMA ShiftHolds ==
  ASSUME LogTypes, changeType = "num", NEW i \in 1..(LineFileNum - 1)
  PROVE  \A l \in HeldIn(i - 1) : \E j \in 1..i : l \in Logger!ToSet(Logger!Shifted[j])
<1>1. Logger!Suffix = 1..(LineFileNum - 1) /\ LineFileNum \in Nat
  BY LogNumbers DEF Logger!Suffix
<1>2. ASSUME NEW l \in Logger!ToSet(cur) PROVE l \in Logger!ToSet(Logger!Shifted[1])
  <2>1. cur # <<>>
    BY <1>2, LinesOfNone
  <2>2. 1 \in Logger!Suffix
    BY <1>1
  <2>3. Logger!Shifted[1] = cur
    BY <2>1, <2>2 DEF Logger!Shifted
  <2>4. QED
    BY <1>2, <2>3
<1>3. ASSUME NEW j \in 1..(i - 1), NEW l \in Logger!ToSet(old[j]) PROVE l \in Logger!ToSet(Logger!Shifted[j + 1])
  <2>1. old[j] # <<>>
    BY <1>3, LinesOfNone
  <2>2. j + 1 \in Logger!Suffix /\ j + 1 # 1 /\ (j + 1) - 1 = j
    BY <1>1
  <2>3. Logger!Shifted[j + 1] = old[j]
    BY <2>1, <2>2 DEF Logger!Shifted
  <2>4. QED
    BY <1>3, <2>3
<1>4. 1 \in 1..i /\ \A j \in 1..(i - 1) : j + 1 \in 1..i
  BY <1>1
<1>5. QED
  BY <1>2, <1>3, <1>4 DEF HeldIn

\* Log keeps the lines of the last full files.
LEMMA NumberedStep ==
  ASSUME LogTypes, Stamped, FilesInOrder, Numbered, changeType = "num", Logger!Log
  PROVE  Numbered'
<1> PICK line, n, c, m : line = [id |-> Len(written) + 1, at |-> now] /\ n = Len(written) /\ c = count /\ m = ChangeLine - 1
  OBVIOUS
<1>1. /\ count' = c + 1 /\ \A k \in 1..n : written'[k] = written[k]
      /\ \/ Len(written') = n
         \/ Len(written') = n + 1 /\ written'[n + 1] = line /\ line \in Logger!ToSet(cur')
  BY Logged
<1>2. /\ n \in Nat /\ c \in Nat /\ m \in Nat /\ ChangeLine \in Nat \ {0} /\ LineFileNum \in Nat \ {0, 1}
  BY LogNumbers, LinesOf DEF LogTypes
<1>3. /\ c % ChangeLine \in 0..m
      /\ (c + 1) % ChangeLine # 0 => (c + 1) % ChangeLine = (c % ChangeLine) + 1
      /\ (c + 1) % ChangeLine = 0 => c % ChangeLine = m
  BY <1>2, Counted
<1>4. ASSUME NEW i \in 0..(LineFileNum - 1), NEW p, p = i * m, NEW r, r = c % ChangeLine
      PROVE  Reaches(i, p, r)
  BY <1>4, Zenon DEF Numbered
<1>5. CASE ~Logger!NumChanges
  <2>1. /\ (c + 1) % ChangeLine = (c % ChangeLine) + 1 /\ old' = old /\ Len(written') = n + 1
        /\ Logger!ToSet(cur) \subseteq Logger!ToSet(cur')
    <3>1. (c + 1) % ChangeLine # 0 /\ ~Logger!TimeChanges
      BY <1>5 DEF Logger!NumChanges, Logger!TimeChanges
    <3>2. QED
      BY <1>3, <1>5, <3>1, Logged
  <2>2. ASSUME NEW i \in 0..(LineFileNum - 1), NEW p, p = i * m, NEW s, s = (c + 1) % ChangeLine
        PROVE  Reaches(i, p, s)'
    <3>1. PICK r : r = c % ChangeLine
      OBVIOUS
    <3>2. p \in Int /\ r \in Int /\ s = r + 1
      <4>1. r \in Int
        BY <1>2, <1>3, <3>1
      <4>2. i \in Int
        BY <1>2
      <4>3. p \in Int
        BY ONLY <1>2, <2>2, <4>2
      <4>4. s = r + 1
        BY <2>1, <2>2, <3>1
      <4>5. QED
        BY <4>1, <4>3, <4>4
    <3>3. Reaches(i, p, r)
      BY <1>4, <2>2, <3>1, Zenon
    <3>4. HeldIn(i) \subseteq HeldIn(i)'
      BY <2>1 DEF HeldIn
    <3>5. ASSUME NEW k \in 1..(n + 1), k > n + 1 - p - s PROVE written'[k] \in HeldIn(i)'
      <4>1. CASE k = n + 1
        BY <1>1, <1>2, <2>1, <4>1 DEF HeldIn
      <4>2. CASE k # n + 1
        <5>1. k \in 1..n /\ k > n - p - r
          BY <1>2, <3>2, <3>5, <4>2
        <5>2. QED
          BY <1>1, <3>3, <3>4, <5>1 DEF Reaches
      <4>3. QED
        BY <4>1, <4>2
    <3>6. \A k \in 1..Len(written') : k > Len(written') - p - s => written'[k] \in HeldIn(i)'
      <4>1. ASSUME NEW k \in 1..Len(written'), k > Len(written') - p - s PROVE written'[k] \in HeldIn(i)'
        <5>1. k \in 1..(n + 1) /\ k > n + 1 - p - s
          <6>1. PICK x : x = Len(written')
            OBVIOUS
          <6>2. x = n + 1 /\ k \in 1..x /\ k > x - p - s
            BY <2>1, <4>1, <6>1
          <6>3. QED
            BY ONLY <1>2, <3>2, <6>2
        <5>2. QED
          BY <3>5, <5>1
      <4>2. QED
        BY <4>1, Zenon
    <3>7. QED
      BY <3>6, Zenon DEF Reaches
  <2>3. QED
    BY <1>1, <2>2, Zenon DEF Numbered
<1>6. CASE Logger!NumChanges
  <2>1. /\ (c + 1) % ChangeLine = 0 /\ old' = Logger!Shifted /\ c % ChangeLine = m
    <3>1. (c + 1) % ChangeLine = 0 /\ ~Logger!TimeChanges
      BY <1>6 DEF Logger!NumChanges, Logger!TimeChanges
    <3>2. QED
      BY <1>3, <1>6, <3>1, Logged
  <2>2. ASSUME NEW i \in 0..(LineFileNum - 1), NEW p, p = i * m, NEW s, s = (c + 1) % ChangeLine
        PROVE  Reaches(i, p, s)'
    <3>1. PICK q : q = (i - 1) * m
      OBVIOUS
    <3>2. i \in Nat /\ p \in Int /\ q \in Int /\ p = q + m /\ (i = 0 => p = 0)
      <4>1. i \in Nat
        BY <1>2
      <4>2. QED
        BY ONLY <1>2, <2>2, <3>1, <4>1
    <3>3. s = 0
      BY <2>1, <2>2
    <3>4. ASSUME NEW k \in 1..Len(written'), k > Len(written') - p - s PROVE written'[k] \in HeldIn(i)'
      <4>1. CASE k = n + 1
        BY <1>1, <1>2, <4>1 DEF HeldIn
      <4>2. CASE k # n + 1
        <5>1. k \in 1..n /\ k > n - p
          BY <1>1, <1>2, <3>2, <3>3, <3>4, <4>2
        <5>2. i \in 1..(LineFileNum - 1) /\ i - 1 \in 0..(LineFileNum - 1)
          BY <1>2, <3>2, <5>1
        <5>3. Reaches(i - 1, q, m)
          BY <1>4, <2>1, <3>1, <5>2, Zenon
        <5>4. k > n - q - m
          BY <1>2, <3>2, <5>1
        <5>5. written[k] \in HeldIn(i - 1)
          BY <5>1, <5>3, <5>4 DEF Reaches
        <5>6. PICK j \in 1..i : written[k] \in Logger!ToSet(Logger!Shifted[j])
          BY <5>2, <5>5, ShiftHolds
        <5>7. QED
          BY <1>1, <2>1, <5>1, <5>6 DEF HeldIn
      <4>3. QED
        BY <4>1, <4>2
    <3>5. QED
      BY <3>4, Zenon DEF Reaches
  <2>3. QED
    BY <1>1, <2>2, Zenon DEF Numbered
<1>7. QED
  BY <1>5, <1>6

\* Two periods of one name are a whole cycle apart.
LEMMA SameName ==
  ASSUME NEW v \in Int, NEW w \in Int, v % Cycle = w % Cycle, v < w PROVE w >= v + Cycle
<1>1. Cycle \in Nat \ {0}
  BY LogNumbers
<1>2. ASSUME w < v + 2 * Cycle PROVE w = v + Cycle
  <2>1. v \in Int /\ w \in Int /\ v % Cycle = w % Cycle /\ v < w
    OBVIOUS
  <2>2. QED
    BY ONLY <1>1, <1>2, <2>1, ModSame, Zenon
<1>3. PICK C : C = Cycle
  OBVIOUS
<1>4. C \in Nat \ {0} /\ (w < v + 2 * C => w = v + C)
  BY <1>1, <1>2, <1>3
<1>5. w >= v + C
  BY ONLY <1>4, v \in Int, w \in Int
<1>6. QED
  BY <1>3, <1>5

\* Log keeps the lines of the last periods.
LEMMA DatedStep ==
  ASSUME LogTypes, Stamped, FilesInOrder, Dated, changeType # "num", Logger!Log
  PROVE  Dated'
<1> PICK line, n : line = [id |-> Len(written) + 1, at |-> now] /\ n = Len(written)
  OBVIOUS
<1>1. /\ now' = now /\ changeType' = changeType /\ \A k \in 1..n : written'[k] = written[k]
      /\ \/ Len(written') = n
         \/ Len(written') = n + 1 /\ written'[n + 1] = line /\ line \in Logger!ToSet(cur')
      /\ \A l \in Logger!ToSet(cur') : l \in Logger!ToSet(cur) \/ l = line
  BY Logged
<1>2. n \in Nat /\ now \in 0..LogTime /\ LogTime \in Nat /\ lastTime \in 0..now /\ line.at = now
      /\ Bump' = Bump /\ Bump \in {0, 1} /\ Logger!Suffix = 0..LogTime /\ Logger!Suffix' = Logger!Suffix
      /\ HourFileNum \in Nat \ {0} /\ Cycle \in Nat \ {0} /\ HourFileNum + 1 < Cycle
  BY <1>1, LogNumbers, LinesOf DEF LogTypes, Dated, Bump, Logger!Suffix
<1>3. \A l \in Logger!ToSet(cur) : l.at \in Int /\ l.at <= now /\ (l.at <= lastTime \/ l.at >= lastTime + Cycle)
  BY LinesOf DEF LogTypes, Lines, Dated, NamedAfter
<1>4. \A i \in Logger!Suffix : \A l \in Logger!ToSet(old[i]) :
        l.at \in Int /\ l.at <= now /\ i < lastTime /\ (l.at <= i \/ l.at >= i + Cycle)
  BY LinesOf DEF LogTypes, Lines, Dated, NamedAfter
<1>5. \A k \in 1..n : written[k] \in Logger!Kept \/ written[k].at <= now - HourFileNum + Bump
  BY DEF Dated
<1>6. ~Logger!NumChanges
  BY DEF Logger!NumChanges
<1>10. \A l \in Logger!ToSet(cur') : l.at <= now
  BY <1>1, <1>2, <1>3
<1>7. CASE ~Logger!TimeChanges
  <2>1. UNCHANGED <<lastTime, old>> /\ Logger!ToSet(cur) \subseteq Logger!ToSet(cur')
    BY <1>6, <1>7, Logged DEF Logger!TimeChanges
  <2>2. now = lastTime \/ now >= lastTime + Cycle
    <3>1. lastTime % Cycle = now % Cycle /\ lastTime \in Int /\ now \in Int
      BY <1>2, <1>7 DEF Logger!TimeChanges
    <3>2. lastTime < now => now >= lastTime + Cycle
      BY ONLY <3>1, SameName, Zenon
    <3>3. QED
      BY <1>2, <3>2
  <2>3. NamedAfter(cur, lastTime)'
    BY <1>1, <1>2, <1>3, <2>1, <2>2 DEF NamedAfter, Logger!ToSet
  <2>4. Logger!Kept \subseteq Logger!Kept'
    BY <1>2, <2>1 DEF Logger!Kept
  <2>5. line \in Logger!ToSet(cur') => line \in Logger!Kept'
    BY DEF Logger!Kept, Logger!ToSet
  <2>6. ASSUME NEW k \in 1..Len(written') PROVE written'[k] \in Logger!Kept' \/ written'[k].at <= now - HourFileNum + Bump
    <3>1. k \in 1..n \/ (k = n + 1 /\ written'[k] = line /\ line \in Logger!ToSet(cur'))
      BY <1>1, <1>2
    <3>2. CASE k \in 1..n
      <4>1. written'[k] = written[k]
        BY <1>1, <3>2
      <4>2. written[k] \in Logger!Kept \/ written[k].at <= now - HourFileNum + Bump
        BY <1>5, <3>2
      <4>3. QED
        BY <2>4, <4>1, <4>2
    <3>3. QED
      BY <2>5, <3>1, <3>2
  <2>7. lastTime' <= now' /\ \A l \in Logger!ToSet(cur') : l.at <= now'
    BY <1>1, <1>2, <1>10, <2>1
  <2>8. \A i \in Logger!Suffix' : /\ NamedAfter(old[i], i)'
                                /\ \A l \in Logger!ToSet(old'[i]) : l.at <= now' /\ i < lastTime'
    BY <1>1, <1>2, <1>4, <2>1 DEF NamedAfter, Logger!ToSet
  <2>9. \A k \in 1..Len(written') :
           written'[k] \in Logger!Kept' \/ written'[k].at <= now' - HourFileNum + Bump'
    BY <1>1, <1>2, <2>6
  <2>10. QED
    BY <2>3, <2>7, <2>8, <2>9 DEF Dated
<1>8. CASE Logger!TimeChanges
  <2>1. PICK e \in Logger!Expired : old' = Logger!Dated(e) /\ lastTime' = now /\ \A l \in Logger!ToSet(cur') : l = line
    BY <1>6, <1>8, Logged
  <2>2. lastTime < now
    BY <1>2, <1>8 DEF Logger!TimeChanges
  <2>3. e \in Int /\ e <= now - HourFileNum + Bump /\ e + Cycle > now
    BY <1>2 DEF Logger!Expired, Bump
  <2>4. \A i \in Logger!Suffix : old'[i] = IF i = e THEN <<>> ELSE IF i = lastTime THEN cur ELSE old[i]
    BY <2>1 DEF Logger!Dated
  <2>5. NamedAfter(cur, lastTime)'
    BY <1>2, <2>1 DEF NamedAfter, Logger!ToSet
  <2>6. ASSUME NEW i \in Logger!Suffix
        PROVE  \A l \in Logger!ToSet(old'[i]) : (l.at <= i \/ l.at >= i + Cycle) /\ l.at <= now /\ i < now
    BY <1>2, <1>3, <1>4, <2>2, <2>4, LinesOfNone
  \* What goes is old.
  <2>7. ASSUME NEW l \in Logger!Kept PROVE l \in Logger!Kept' \/ l.at <= now - HourFileNum + Bump
    <3>1. CASE l \in Logger!ToSet(cur)
      <4>1. lastTime \in Logger!Suffix
        BY <1>2
      <4>2. CASE lastTime = e
        <5>1. l.at <= e
          BY <1>2, <1>3, <2>3, <3>1, <4>2
        <5>2. QED
          BY <1>2, <1>3, <2>3, <3>1, <5>1
      <4>3. CASE lastTime # e
        <5>1. old'[lastTime] = cur
          BY <2>4, <4>1, <4>3
        <5>2. QED
          BY <1>2, <3>1, <4>1, <5>1 DEF Logger!Kept, Logger!ToSet
      <4>4. QED
        BY <4>2, <4>3
    <3>2. ASSUME NEW i \in Logger!Suffix, l \in Logger!ToSet(old[i]) PROVE l \in Logger!Kept' \/ l.at <= now - HourFileNum + Bump
      <4>1. i < lastTime /\ l.at \in Int /\ l.at <= now /\ (l.at <= i \/ l.at >= i + Cycle)
        BY <1>4, <3>2
      <4>2. CASE i = e
        <5>1. l.at <= e
          BY <1>2, <2>3, <4>1, <4>2
        <5>2. QED
          BY <1>2, <2>3, <4>1, <5>1
      <4>3. CASE i # e
        <5>1. old'[i] = old[i]
          BY <1>2, <2>4, <4>1, <4>3
        <5>2. QED
          BY <1>2, <3>2, <5>1 DEF Logger!Kept, Logger!ToSet
      <4>4. QED
        BY <4>2, <4>3
    <3>3. QED
      BY <3>1, <3>2 DEF Logger!Kept
  <2>8. line \in Logger!ToSet(cur') => line \in Logger!Kept'
    BY DEF Logger!Kept, Logger!ToSet
  <2>9. ASSUME NEW k \in 1..Len(written') PROVE written'[k] \in Logger!Kept' \/ written'[k].at <= now - HourFileNum + Bump
    BY <1>1, <1>2, <1>5, <2>7, <2>8
  <2>10. QED
    BY <1>1, <1>2, <1>10, <2>1, <2>5, <2>6, <2>9 DEF Dated, NamedAfter, Logger!ToSet
<1>9. QED
  BY <1>7, <1>8

\* No step loses a line.
LEMMA LogInvStep == LogInv /\ (Logger!Next \/ UNCHANGED <<Logger!logVars, now>>) => LogInv'
<1> SUFFICES ASSUME LogInv, Logger!Next \/ UNCHANGED <<Logger!logVars, now>> PROVE LogInv'
  OBVIOUS
<1>0. LogTypes /\ Stamped /\ FilesInOrder
  BY DEF LogInv
<1>1. CASE Logger!Log
  <2>1. changeType' = changeType /\ wentBack' = wentBack
    BY <1>1 DEF Logger!Log
  <2>2. LogTypes' /\ Stamped' /\ FilesInOrder'
    BY <1>0, <1>1, LogKeepsTypes
  <2>3. changeType = "num" => Numbered'
    BY <1>0, <1>1, NumberedStep DEF LogInv
  <2>4. changeType # "num" /\ ~wentBack => Dated'
    BY <1>0, <1>1, DatedStep DEF LogInv
  <2>5. QED
    BY <2>1, <2>2, <2>3, <2>4 DEF LogInv
<1>2. CASE UNCHANGED <<Logger!logVars, now>>
  <2>1. UNCHANGED <<changeType, open, count, lastTime, cur, old, written, wentBack, now>>
    BY <1>2 DEF Logger!logVars
  <2>2. Logger!Suffix' = Logger!Suffix
    BY <2>1 DEF Logger!Suffix
  <2>3. LogTypes'
    BY <1>0, <2>1, <2>2 DEF LogTypes
  <2>4. Stamped'
    BY <1>0, <2>1 DEF Stamped
  <2>5. FilesInOrder'
    BY <1>0, <2>1, <2>2 DEF FilesInOrder, Logger!InOrder
  <2>6. Numbered => Numbered'
    BY <2>1, Zenon DEF Numbered, Reaches, HeldIn
  <2>7. Logger!Kept' = Logger!Kept /\ Bump' = Bump
    BY <2>1, <2>2 DEF Logger!Kept, Bump
  <2>8. Dated => Dated'
    BY <2>1, <2>2, <2>7 DEF Dated, NamedAfter
  <2>9. QED
    BY <2>1, <2>3, <2>4, <2>5, <2>6, <2>8 DEF LogInv
<1>3. CASE Logger!Restart \/ Logger!Clock
  <2>1. /\ UNCHANGED <<changeType, cur, old, written>> /\ now' \in 0..LogTime /\ lastTime' \in 0..LogTime
        /\ count' \in Nat /\ (count' = count \/ count' = 0)
        /\ lastTime' = lastTime \/ lastTime' = now'
        /\ ~wentBack' => ~wentBack /\ now <= now'
    <3>1. CASE Logger!Restart
      BY <1>0, <3>1, LogNumbers DEF LogTypes, Logger!Restart
    <3>2. CASE Logger!Clock
      <4>1. /\ now' \in 0..LogTime /\ UNCHANGED <<changeType, count, lastTime, cur, old, written>>
            /\ wentBack' = (wentBack \/ now' < now)
        BY <3>2 DEF Logger!Clock
      <4>2. ~wentBack' => ~wentBack /\ ~(now' < now)
        BY <4>1
      <4>3. ~(now' < now) => now <= now'
        BY <1>0, <4>1, LogNumbers DEF LogTypes
      <4>4. count \in Nat /\ lastTime \in 0..LogTime
        BY <1>0 DEF LogTypes
      <4>5. QED
        BY <4>1, <4>2, <4>3, <4>4
    <3>3. QED
      BY <1>3, <3>1, <3>2
  <2>2. now \in Nat /\ lastTime \in 0..LogTime /\ LogTime \in Nat /\ Len(written) \in Nat
        /\ HourFileNum \in Nat /\ Bump' = Bump /\ Bump \in {0, 1}
    BY <1>0, <2>1, LogNumbers, LinesOf DEF LogTypes, Bump
  <2>3. Logger!Suffix' = Logger!Suffix /\ Logger!Kept' = Logger!Kept
    BY <2>1 DEF Logger!Suffix, Logger!Kept, Logger!ToSet
  <2>4. LogTypes'
    BY <1>0, <2>1, <2>3 DEF LogTypes
  <2>5. \A l \in Lines : l.at \in Int
    BY DEF Lines
  <2>6. (\A k \in 1..Len(written) : written[k] \in Lines) /\ (\A l \in Logger!ToSet(cur) : l \in Lines)
        /\ \A i \in Logger!Suffix : \A l \in Logger!ToSet(old[i]) : l \in Lines
    BY <1>0, LinesOf, ElementOfSeq DEF LogTypes
  <2>7. Stamped'
    BY <1>0, <2>1, <2>2 DEF Stamped, Logger!ToSet
  <2>8. FilesInOrder'
    BY <1>0, <2>1, <2>3 DEF FilesInOrder, Logger!InOrder
  <2>9. ASSUME changeType = "num" PROVE Numbered'
    <3>1. PICK r, s : r = count % ChangeLine /\ s = count' % ChangeLine
      OBVIOUS
    <3>2. r \in Nat /\ s \in Nat /\ s <= r
      <4>1. ChangeLine \in Nat \ {0} /\ count \in Nat
        BY <1>0, LogNumbers DEF LogTypes
      <4>2. count % ChangeLine \in 0..(ChangeLine - 1)
        BY ONLY <4>1, Counted, Zenon
      <4>3. 0 % ChangeLine = 0
        <5>1. 0 \in 0 .. ChangeLine - 1
          BY <4>1
        <5>2. QED
          BY ONLY <4>1, <5>1, ModSmall, Zenon
      <4>4. s = r \/ s = 0
        BY ONLY <2>1, <3>1, <4>3, Zenon
      <4>5. QED
        BY ONLY <3>1, <4>1, <4>2, <4>4
    <3>3. ASSUME NEW i \in 0..(LineFileNum - 1), NEW p, p = i * (ChangeLine - 1) PROVE Reaches(i, p, s)
      <4>1. i \in Int /\ ChangeLine \in Int
        BY LogNumbers
      <4>2. p \in Int
        BY ONLY <3>3, <4>1
      <4>3. Numbered
        BY <2>9 DEF LogInv
      <4>4. Reaches(i, p, r)
        BY <3>1, <3>3, <4>3, Zenon DEF Numbered
      <4>5. \A k \in 1..Len(written) : k > Len(written) - p - s => k > Len(written) - p - r
        BY <2>2, <3>2, <4>2
      <4>6. QED
        BY <4>4, <4>5 DEF Reaches
    <3>4. \A i, p : Reaches(i, p, s) => Reaches(i, p, s)'
      BY <2>1 DEF Reaches, HeldIn
    <3>5. QED
      BY <3>1, <3>3, <3>4, Zenon DEF Numbered
  <2>10. ASSUME changeType # "num", ~wentBack' PROVE Dated'
    <3>1. Dated /\ now <= now'
      BY <2>1, <2>10 DEF LogInv
    <3>2. NamedAfter(cur, lastTime)' /\ lastTime' <= now' /\ \A l \in Logger!ToSet(cur) : l.at <= now'
      BY <2>1, <2>2, <2>5, <2>6, <3>1 DEF Dated, NamedAfter, Logger!ToSet
    <3>3. \A i \in Logger!Suffix : NamedAfter(old[i], i)'
      BY <2>1, <3>1 DEF Dated, NamedAfter, Logger!ToSet
    <3>4. \A i \in Logger!Suffix : \A l \in Logger!ToSet(old[i]) : l.at <= now' /\ i < lastTime'
      <4>1. \A i \in Logger!Suffix : i \in Int
        BY <2>2, LogNumbers DEF Logger!Suffix
      <4>2. QED
        <5>1. \A i \in Logger!Suffix : \A l \in Logger!ToSet(old[i]) : l.at \in Int /\ l.at <= now /\ i < lastTime
          BY <2>5, <2>6, <3>1 DEF Dated
        <5>2. now \in Int /\ now' \in Int /\ now <= now' /\ lastTime \in Int /\ lastTime' \in Int /\ lastTime <= lastTime'
          BY <2>1, <2>2, <3>1 DEF Dated
        <5>3. QED
          BY <4>1, <5>1, <5>2
    <3>5. \A k \in 1..Len(written) : written[k] \in Logger!Kept \/ written[k].at <= now' - HourFileNum + Bump
      <4>1. SUFFICES ASSUME NEW k \in 1..Len(written), written[k].at <= now - HourFileNum + Bump
                     PROVE  written[k].at <= now' - HourFileNum + Bump
        BY <3>1 DEF Dated
      <4>2. now \in Int /\ now' \in Int /\ now <= now' /\ HourFileNum \in Int /\ Bump \in Int
        BY <2>1, <2>2, <3>1
      <4>3. written[k].at \in Int
        BY <2>5, <2>6
      <4>4. QED
        BY ONLY <4>1, <4>2, <4>3
    <3>6. QED
      BY <2>1, <2>2, <2>3, <3>2, <3>3, <3>4, <3>5 DEF Dated, Logger!ToSet
  <2>11. QED
    BY <2>1, <2>4, <2>7, <2>8, <2>9, <2>10 DEF LogInv
<1>4. QED
  BY <1>1, <1>2, <1>3 DEF Logger!Next

\* No rotation, restart or reopen that fails loses a line of the last full
\* files or, until the clock goes back, of the last periods, however many lines
\* a file has and however many files or periods DeleteHistory keeps, as long as
\* fewer periods are kept than have names of their own; and no file mixes up its
\* lines, whatever the clock does (net_logger.cc:52-180).
THEOREM NothingRecentLost == Spec => []RecentKept
<1> DEFINE Inv == /\ part = "logger" => LogInv
                  /\ part # "logger" => cur = <<>> /\ old = [i \in Logger!Suffix |-> <<>>] /\ written = <<>>
<1>1. Init => Inv
  BY LogInvInit DEF Init, Logger!Init
<1>2. Inv /\ [Next]_vars => Inv'
  <2> SUFFICES ASSUME Inv, [Next]_vars PROVE Inv'
    OBVIOUS
  <2>1. CASE part = "logger"
    <3>1. part' = part /\ (Logger!Next \/ UNCHANGED <<Logger!logVars, now>>)
      BY <2>1 DEF Next, vars, logVars, Logger!logVars
    <3>2. QED
      BY <2>1, <3>1, LogInvStep
  <2>2. CASE part # "logger"
    <3>1. part' = part /\ UNCHANGED <<changeType, cur, old, written>>
      BY <2>2 DEF Next, vars, logVars
    <3>2. QED
      BY <2>2, <3>1 DEF Logger!Suffix
  <2>3. QED
    BY <2>1, <2>2
<1>3. Inv => RecentKept
  <2> SUFFICES ASSUME Inv PROVE RecentKept
    OBVIOUS
  <2>1. CASE part = "logger"
    BY <2>1, LogInvKept DEF RecentKept
  <2>2. CASE part # "logger"
    <3>1. Logger!Recent = {} /\ FilesInOrder
      BY <2>2, LinesOfNone DEF Logger!Recent, FilesInOrder
    <3>2. QED
      BY <3>1 DEF RecentKept, Logger!RecentKept, FilesInOrder
  <2>3. QED
    BY <2>1, <2>2
<1>4. QED
  BY <1>1, <1>2, <1>3, PTL DEF Spec

-----------------------------------------------------------------------------
(* The load limit of NetGrid: the sum that is carried from cell to cell is  *)
(* the number of requests admitted in the window.  Every time has a cell of *)
(* its own on an unending row (Book); the array holds the last GridCount of *)
(* them, wrapped.                                                           *)

\* The instance's copy of the sum is the sum.
LEMMA GridSumSame == ASSUME NEW f, NEW S PROVE Grid!SumFunctionOnSet(f, S) = SumFunctionOnSet(f, S)
BY Zenon DEF Grid!SumFunctionOnSet, Grid!FoldFunctionOnSet, Grid!MapThenFoldSet,
             SumFunctionOnSet, FoldFunctionOnSet, MapThenFoldSet

\* The cell that a time is booked in; a full load set at the start is booked in
\* the cell before it.
Book(loaded) == [t \in Grid!Time |-> IF loaded /\ t = start THEN -1 ELSE (t - start) \div GridDistant]

InView(h, v) == {t \in Grid!Time : h[t] > v - GridCount}
InCell(h, v, j) == {t \in InView(h, v) : h[t] % GridCount = j}

\* The cells and their sum hold what was admitted in the last cells.
Booked(h, history, v, array, mark) ==
  /\ h \in [Grid!Time -> Int] /\ v \in Int
  /\ history \in [Grid!Time -> Nat] /\ \A t \in Grid!Time : history[t] # 0 => h[t] <= v
  /\ array \in [Grid!Cells -> Int]
  /\ \A j \in Grid!Cells : array[j] = SumFunctionOnSet(history, InCell(h, v, j))
  /\ mark = SumFunctionOnSet(history, InView(h, v))

\* What the constructor's arguments are.
LEMMA GridNumbers ==
  /\ GridCount \in Nat \ {0} /\ GridCount > 1 /\ GridDistant \in Nat \ {0} /\ MaxReqWaterMark \in Nat
  /\ GridTime \in Nat /\ Grid!Time = 0..GridTime /\ Grid!Cells = 0..(GridCount - 1)
  /\ IsFiniteSet(Grid!Time) /\ IsFiniteSet(Grid!Cells)
<1>1. GridTime \in Nat /\ GridCount \in Nat \ {0} /\ GridCount > 1 /\ GridDistant \in Nat \ {0} /\ MaxReqWaterMark \in Nat
  BY NumbersAssumption
<1>2. Grid!Time = 0..GridTime /\ Grid!Cells = 0..(GridCount - 1)
  BY DEF Grid!Time, Grid!Cells
<1>3. 0 \in Int /\ GridTime \in Int /\ GridCount - 1 \in Int
  BY <1>1
<1>4. IsFiniteSet(0..GridTime)
  BY ONLY <1>3, FS_Interval, Zenon
<1>5. IsFiniteSet(0..(GridCount - 1))
  BY ONLY <1>3, FS_Interval, Zenon
<1>6. QED
  BY <1>1, <1>2, <1>4, <1>5

\* Views and cells are sets of times.
LEMMA InCellIs ==
  ASSUME NEW h, NEW v, NEW j
  PROVE  InCell(h, v, j) \in SUBSET Grid!Time /\ InView(h, v) \in SUBSET Grid!Time
BY DEF InCell, InView

\* Nothing is booked.
LEMMA BookedFresh ==
  ASSUME NEW h \in [Grid!Time -> Int], NEW v \in Int
  PROVE  Booked(h, Grid!NoTime, v, Grid!NoCell, 0)
<1>1. PICK f : f = Grid!NoTime
  OBVIOUS
<1>2. f \in [Grid!Time -> Nat] /\ \A t \in Grid!Time : f[t] = 0
  BY <1>1 DEF Grid!NoTime
<1>3. ASSUME NEW S \in SUBSET Grid!Time PROVE SumFunctionOnSet(f, S) = 0
  <2>1. IsFiniteSet(S) /\ \A t \in S : f[t] = 0
    BY <1>2, GridNumbers, FS_Subset
  <2>2. QED
    BY ONLY <2>1, SumZero, Zenon
<1>4. PICK a : a = Grid!NoCell
  OBVIOUS
<1>5. a \in [Grid!Cells -> Int] /\ \A j \in Grid!Cells : a[j] = 0
  BY <1>4 DEF Grid!NoCell
<1>6. Booked(h, f, v, a, 0)
  BY <1>2, <1>3, <1>5, InCellIs DEF Booked
<1>7. QED
  BY <1>1, <1>4, <1>6

\* A number of requests at x is booked in its cell.
LEMMA BookedMore ==
  ASSUME NEW h, NEW f, NEW v, NEW array, NEW mark, Booked(h, f, v, array, mark),
         NEW x \in Grid!Time, NEW m \in Nat, h[x] <= v, h[x] > v - GridCount
  PROVE  Booked(h, [f EXCEPT ![x] = f[x] + m], v, [array EXCEPT ![h[x] % GridCount] = array[h[x] % GridCount] + m], mark + m)
<1>0. /\ h \in [Grid!Time -> Int] /\ v \in Int /\ f \in [Grid!Time -> Nat] /\ array \in [Grid!Cells -> Int]
      /\ \A t \in Grid!Time : f[t] # 0 => h[t] <= v
      /\ \A j \in Grid!Cells : array[j] = SumFunctionOnSet(f, InCell(h, v, j))
      /\ mark = SumFunctionOnSet(f, InView(h, v))
  BY DEF Booked
<1>1. PICK k : k = h[x] % GridCount
  OBVIOUS
<1>2. k \in Grid!Cells
  BY <1>0, <1>1, GridNumbers, Divided
<1>3. PICK g : g = [f EXCEPT ![x] = f[x] + m]
  OBVIOUS
<1>4. g \in [Grid!Time -> Nat] /\ g[x] = f[x] + m /\ \A t \in Grid!Time \ {x} : g[t] = f[t]
  BY <1>0, <1>3
<1>5. PICK a : a = [array EXCEPT ![k] = array[k] + m]
  OBVIOUS
<1>6. a \in [Grid!Cells -> Int] /\ a[k] = array[k] + m /\ \A j \in Grid!Cells \ {k} : a[j] = array[j]
  BY <1>0, <1>2, <1>5
<1>7. ASSUME NEW S \in SUBSET Grid!Time
      PROVE  SumFunctionOnSet(g, S) = SumFunctionOnSet(f, S) + (IF x \in S THEN m ELSE 0)
  <2>1. \A t \in Grid!Time : f[t] \in Int
    BY <1>0
  <2>2. IsFiniteSet(Grid!Time) /\ x \in Grid!Time /\ m \in Int /\ S \in SUBSET Grid!Time
    BY GridNumbers
  <2>3. QED
    <3>1. g[x] = f[x] + m /\ \A t \in Grid!Time \ {x} : g[t] = f[t]
      BY <1>4
    <3>2. PICK T : T = Grid!Time
      OBVIOUS
    <3>3. IsFiniteSet(T) /\ S \in SUBSET T /\ x \in T /\ m \in Int
      BY <2>2, <3>2
    <3>4. (\A t \in T : f[t] \in Int) /\ (\A t \in T \ {x} : g[t] = f[t])
      BY <2>1, <3>1, <3>2
    <3>5. QED
      BY ONLY <3>1, <3>3, <3>4, SumGrows
<1>8. x \in InView(h, v) /\ \A j : x \in InCell(h, v, j) <=> j = k
  BY <1>1 DEF InView, InCell
<1>9. mark + m = SumFunctionOnSet(g, InView(h, v))
  BY <1>0, <1>7, <1>8, InCellIs
<1>10. ASSUME NEW j \in Grid!Cells PROVE a[j] = SumFunctionOnSet(g, InCell(h, v, j))
  <2>1. SumFunctionOnSet(g, InCell(h, v, j)) = SumFunctionOnSet(f, InCell(h, v, j)) + (IF j = k THEN m ELSE 0)
    BY <1>7, <1>8, InCellIs
  <2>2. array[j] = SumFunctionOnSet(f, InCell(h, v, j)) /\ array[j] \in Int
    BY <1>0
  <2>3. QED
    BY <1>6, <2>1, <2>2
<1>11. \A t \in Grid!Time : g[t] # 0 => h[t] <= v
  BY <1>0, <1>4
<1>12. Booked(h, g, v, a, mark + m)
  BY <1>0, <1>4, <1>6, <1>9, <1>10, <1>11 DEF Booked
<1>13. QED
  BY <1>1, <1>3, <1>5, <1>12

\* The cells the window has moved over.
LEMMA SpannedIs ==
  ASSUME last \in Int, Grid!VirtualGrid \in Int
  PROVE  /\ Grid!Spanned \in SUBSET Grid!Cells
         /\ Grid!VirtualGrid < last => Grid!Spanned = Grid!Cells
         /\ Grid!VirtualGrid >= last =>
              \A w \in Int : w <= last /\ w > last - GridCount =>
                 (w % GridCount \in Grid!Spanned <=> w <= Grid!VirtualGrid - GridCount)
<1> PICK V, G : V = Grid!VirtualGrid /\ G = GridCount
  OBVIOUS
<1>0. V \in Int /\ G \in Nat \ {0} /\ G > 1 /\ Grid!Cells = 0..(G - 1)
  BY GridNumbers
<1>1. PICK n : n = IF V - last < 0 \/ V - last > G THEN G ELSE V - last
  OBVIOUS
<1>2. n \in Nat /\ n <= G
  BY <1>0, <1>1
<1>3. Grid!Spanned = {(V - i + G) % G : i \in 0..(n - 1)}
  BY <1>1 DEF Grid!Spanned
<1>4. \A i \in 0..(n - 1) : (V - i + G) % G = (V - i) % G
  <2>1. ASSUME NEW i \in 0..(n - 1) PROVE (V - i + G) % G = (V - i) % G
    <3>1. V - i \in Int /\ G \in Nat \ {0}
      BY <1>0, <1>2
    <3>2. QED
      BY ONLY <3>1, ModShift, Zenon
  <2>2. QED
    BY <2>1
<1>5. \A x \in Int : x % G \in 0..(G - 1)
  BY <1>0, Divided
<1>6. Grid!Spanned \in SUBSET Grid!Cells
  <2>1. \A i \in 0..(n - 1) : V - i \in Int
    BY <1>0, <1>2
  <2>2. QED
    <3>1. \A i \in 0..(n - 1) : (V - i + G) % G \in 0..(G - 1)
      BY ONLY <1>4, <1>5, <2>1, Zenon
    <3>2. QED
      BY ONLY <1>0, <1>3, <3>1, Zenon
\* Every cell is met when the window has moved over as many as there are.
<1>7. ASSUME n = G, NEW w \in Int PROVE w % G \in Grid!Spanned
  <2>1. PICK i : i = (V - w) % G
    OBVIOUS
  <2>2. PICK q : q = (V - w) \div G
    OBVIOUS
  <2>3. i \in 0..(G - 1) /\ q \in Int /\ V - w = G * q + i
    <3>1. V - w \in Int /\ G \in Nat \ {0}
      BY <1>0
    <3>2. (V - w) \div G \in Int /\ (V - w) % G \in 0..(G - 1) /\ V - w = G * ((V - w) \div G) + ((V - w) % G)
      BY ONLY <3>1, Divided, Zenon
    <3>3. QED
      BY ONLY <2>1, <2>2, <3>2, Zenon
  <2>4. V - i = w + G * q
    BY <1>0, <2>3
  <2>5. (V - i) % G = w % G
    <3>1. PICK p, r : p = w \div G /\ r = w % G
      OBVIOUS
    <3>2. PICK s, u : s = (V - i) \div G /\ u = (V - i) % G
      OBVIOUS
    <3>3. p \in Int /\ r \in 0..(G - 1) /\ w = G * p + r
      BY <1>0, <3>1, Divided
    <3>4. s \in Int /\ u \in 0..(G - 1) /\ V - i = G * s + u
      <4>1. V - i \in Int /\ G \in Nat \ {0}
        BY <1>0, <2>3
      <4>2. (V - i) \div G \in Int /\ (V - i) % G \in 0..(G - 1) /\ V - i = G * ((V - i) \div G) + ((V - i) % G)
        BY ONLY <4>1, Divided, Zenon
      <4>3. QED
        BY ONLY <3>2, <4>2, Zenon
    <3>5. G * (p + q) = G * p + G * q /\ G * p \in Int /\ G * q \in Int
      BY ONLY <1>0, <2>3, <3>3
    <3>6. G * s + u = G * (p + q) + r
      BY ONLY <1>0, <2>3, <2>4, <3>3, <3>4, <3>5
    <3>7. p + q \in Int
      BY <2>3, <3>3
    <3>8. u = r
      BY ONLY <1>0, <3>3, <3>4, <3>6, <3>7, Unique, ZenonT(40)
    <3>9. QED
      BY <3>1, <3>2, <3>8
  <2>6. i \in 0..(n - 1)
    BY <1>7, <2>3
  <2>7. (V - i + G) % G = w % G
    BY <1>4, <2>5, <2>6
  <2>8. QED
    BY <1>3, <2>6, <2>7
<1>8. V < last => Grid!Spanned = Grid!Cells
  <2> SUFFICES ASSUME V < last, NEW j \in Grid!Cells PROVE j \in Grid!Spanned
    BY <1>6
  <2>1. n = G
    BY <1>0, <1>1
  <2>2. j \in 0..(G - 1)
    BY <1>0
  <2>3. j % G = j
    <3>1. G \in Nat \ {0}
      BY <1>0
    <3>2. QED
      BY ONLY <2>2, <3>1, ModSmall, Zenon
  <2>4. QED
    BY <1>7, <2>1, <2>2, <2>3
<1>9. ASSUME V >= last, NEW w \in Int, w <= last, w > last - G
      PROVE  w % G \in Grid!Spanned <=> w <= V - G
  <2>1. CASE V - last >= G
    <3>1. n = G /\ w <= V - G
      BY <1>0, <1>1, <1>9, <2>1
    <3>2. QED
      BY <1>7, <3>1
  <2>2. CASE V - last < G
    <3>1. n = V - last
      BY <1>0, <1>1, <1>9, <2>2
    <3>2. ASSUME w % G \in Grid!Spanned PROVE w <= V - G
      <4>1. PICK i \in 0..(n - 1) : w % G = (V - i) % G
        BY <1>3, <1>4, <3>2
      <4>2. V - i \in Int /\ w < V - i /\ V - i < w + 2 * G
        BY <1>0, <1>9, <2>2, <3>1, <4>1
      <4>3. V - i = w + G
        BY <1>0, <4>1, <4>2, ModSame
      <4>4. QED
        BY <1>0, <4>1, <4>3
    <3>3. ASSUME w <= V - G PROVE w % G \in Grid!Spanned
      <4>1. PICK i : i = V - G - w
        OBVIOUS
      <4>2. i \in 0..(n - 1) /\ V - i + G = w + G + G
        BY <1>0, <1>9, <3>1, <3>3, <4>1
      <4>3. (w + G) % G = w % G
        BY <1>0, ModShift
      <4>4. ((w + G) + G) % G = (w + G) % G
        <5>1. w + G \in Int /\ G \in Nat \ {0}
          BY <1>0
        <5>2. QED
          BY ONLY <5>1, ModShift, Zenon
      <4>5. (V - i + G) % G = w % G
        BY <4>2, <4>3, <4>4
      <4>6. QED
        BY <1>3, <4>2, <4>5
    <3>4. QED
      BY <3>2, <3>3
  <2>3. QED
    BY <1>0, <2>1, <2>2
<1>10. QED
  BY <1>6, <1>8, <1>9

\* CheckLoad clears the cells it has moved over, and takes them off the sum.
LEMMA BookedCleared ==
  ASSUME NEW h, Booked(h, admitted, last, cells, waterMark), Grid!VirtualGrid \in Int
  PROVE  /\ Grid!VirtualGrid >= last =>
              Booked(h, admitted, Grid!VirtualGrid, [i \in Grid!Cells |-> IF i \in Grid!Spanned THEN 0 ELSE cells[i]],
                     Grid!MarkAfter(Grid!Spanned))
         /\ Grid!VirtualGrid < last =>
              /\ [i \in Grid!Cells |-> IF i \in Grid!Spanned THEN 0 ELSE cells[i]] = Grid!NoCell
              /\ Grid!MarkAfter(Grid!Spanned) = 0
<1>0. /\ h \in [Grid!Time -> Int] /\ last \in Int /\ admitted \in [Grid!Time -> Nat] /\ cells \in [Grid!Cells -> Int]
      /\ \A t \in Grid!Time : admitted[t] # 0 => h[t] <= last
      /\ \A j \in Grid!Cells : cells[j] = SumFunctionOnSet(admitted, InCell(h, last, j))
      /\ waterMark = SumFunctionOnSet(admitted, InView(h, last))
  BY DEF Booked
<1> PICK V, G, gone : V = Grid!VirtualGrid /\ G = GridCount /\ gone = Grid!Spanned
  OBVIOUS
<1>1. /\ V \in Int /\ G \in Nat \ {0} /\ Grid!Cells = 0..(G - 1) /\ IsFiniteSet(Grid!Cells) /\ IsFiniteSet(Grid!Time)
  BY GridNumbers
<1>2. /\ gone \in SUBSET Grid!Cells
      /\ V < last => gone = Grid!Cells
      /\ V >= last => \A w \in Int : w <= last /\ w > last - G => (w % G \in gone <=> w <= V - G)
  BY <1>0, SpannedIs
<1> PICK T : T = InView(h, last)
  OBVIOUS
<1>3. T \in SUBSET Grid!Time /\ IsFiniteSet(T)
  BY <1>1, InCellIs, FS_Subset
<1> PICK slot : slot = [t \in T |-> h[t] % G]
  OBVIOUS
<1>4. /\ \A t \in T : slot[t] \in Grid!Cells /\ h[t] > last - G /\ slot[t] = h[t] % G
      /\ \A t \in Grid!Time : t \in T <=> h[t] > last - G
  <2>1. \A t \in Grid!Time : h[t] \in Int /\ (t \in T <=> h[t] > last - G)
    BY <1>0 DEF InView
  <2>2. \A t \in T : slot[t] = h[t] % G
    OBVIOUS
  <2>3. \A x \in Int : x % G \in 0..(G - 1)
    BY <1>1, Divided
  <2>4. QED
    BY <1>1, <1>3, <2>1, <2>2, <2>3
<1>5. SumFunctionOnSet(cells, gone) = SumFunctionOnSet(admitted, {t \in T : slot[t] \in gone})
  <2>1. IsFiniteSet(gone)
    BY <1>1, <1>2, FS_Subset
  <2>2. \A t \in T : admitted[t] \in Int
    BY <1>0, <1>3
  <2>3. PICK K, A : K = [c \in gone |-> {t \in T : slot[t] = c}] /\ A = {t \in T : slot[t] \in gone}
    OBVIOUS
  <2>4. ASSUME NEW c \in gone PROVE K[c] = InCell(h, last, c)
    BY <1>4, <2>3 DEF InCell
  <2>5. \A c \in gone : cells[c] = SumFunctionOnSet(admitted, K[c])
    BY <1>0, <1>2, <2>4
  <2>6. \A c \in gone : \A t : t \in K[c] <=> t \in T /\ slot[t] = c
    BY <2>3
  <2>7. \A t : t \in A <=> t \in T /\ slot[t] \in gone
    BY <2>3
  <2>8. SumFunctionOnSet(cells, gone) = SumFunctionOnSet(admitted, A)
    <3>1. IsFiniteSet(T)
      BY <1>3
    <3>2. QED
      BY ONLY <2>1, <2>2, <2>5, <2>6, <2>7, <3>1, SumSlots
  <2>9. QED
    BY <2>3, <2>8
<1>6. SumFunctionOnSet(admitted, T) =
        SumFunctionOnSet(admitted, {t \in T : slot[t] \in gone}) + SumFunctionOnSet(admitted, {t \in T : slot[t] \notin gone})
  <2>1. PICK A, B : A = {t \in T : slot[t] \in gone} /\ B = {t \in T : slot[t] \notin gone}
    OBVIOUS
  <2>2. IsFiniteSet(A) /\ IsFiniteSet(B) /\ A \cap B = {} /\ A \cup B = T
    BY <1>3, <2>1, FS_Subset
  <2>3. \A t \in A \cup B : admitted[t] \in Int
    BY <1>0, <1>3, <2>2
  <2>4. SumFunctionOnSet(admitted, A \cup B) = SumFunctionOnSet(admitted, A) + SumFunctionOnSet(admitted, B)
    BY ONLY <2>2, <2>3, SumUnion, Zenon
  <2>5. QED
    BY ONLY <2>1, <2>2, <2>4, Zenon
<1>7. \A S \in SUBSET Grid!Time : SumFunctionOnSet(admitted, S) \in Int
  <2>1. ASSUME NEW S \in SUBSET Grid!Time PROVE SumFunctionOnSet(admitted, S) \in Int
    <3>1. IsFiniteSet(S) /\ \A t \in S : admitted[t] \in Int
      BY <1>0, <1>1, FS_Subset
    <3>2. QED
      BY <3>1, SumAny
  <2>2. QED
    BY <2>1
<1>8. Grid!MarkAfter(gone) = SumFunctionOnSet(admitted, {t \in T : slot[t] \notin gone})
  <2>1. PICK A, B : A = {t \in T : slot[t] \in gone} /\ B = {t \in T : slot[t] \notin gone}
    OBVIOUS
  <2>2. A \in SUBSET Grid!Time /\ B \in SUBSET Grid!Time
    BY <1>3, <2>1
  <2>3. Grid!MarkAfter(gone) = waterMark - SumFunctionOnSet(cells, gone)
    BY GridSumSame DEF Grid!MarkAfter
  <2>4. PICK p, q : p = SumFunctionOnSet(admitted, A) /\ q = SumFunctionOnSet(admitted, B)
    OBVIOUS
  <2>5. p \in Int /\ q \in Int
    BY <1>7, <2>2, <2>4
  <2>6. waterMark = p + q /\ SumFunctionOnSet(cells, gone) = p
    BY <1>0, <1>5, <1>6, <2>1, <2>4
  <2>7. Grid!MarkAfter(gone) = q
    BY <2>3, <2>5, <2>6
  <2>8. QED
    BY <2>1, <2>4, <2>7
<1> PICK array : array = [i \in Grid!Cells |-> IF i \in Grid!Spanned THEN 0 ELSE cells[i]]
  OBVIOUS
<1>9. array \in [Grid!Cells -> Int] /\ \A j \in Grid!Cells : array[j] = IF j \in gone THEN 0 ELSE cells[j]
  BY <1>0
<1>10. ASSUME V >= last
       PROVE  Booked(h, admitted, V, array, Grid!MarkAfter(gone))
  <2>1. \A t \in Grid!Time : admitted[t] # 0 => (t \in T /\ slot[t] \notin gone <=> h[t] > V - G)
    <3>1. ASSUME NEW t \in Grid!Time, admitted[t] # 0
          PROVE  t \in T /\ slot[t] \notin gone <=> h[t] > V - G
      <4>1. h[t] \in Int /\ h[t] <= last
        BY <1>0, <3>1
      <4>2. CASE h[t] > last - G
        <5>1. t \in T /\ slot[t] = h[t] % G
          BY <1>4, <4>2
        <5>2. h[t] % G \in gone <=> h[t] <= V - G
          BY <1>2, <1>10, <4>1, <4>2
        <5>3. QED
          BY <1>1, <4>1, <5>1, <5>2
      <4>3. CASE ~(h[t] > last - G)
        BY <1>0, <1>1, <1>4, <1>10, <4>1, <4>3
      <4>4. QED
        BY <4>2, <4>3
    <3>2. QED
      BY <3>1
  <2>2. \A t \in Grid!Time : admitted[t] \in Nat
    BY <1>0
  <2>3. Grid!MarkAfter(gone) = SumFunctionOnSet(admitted, InView(h, V))
    <3>1. PICK A : A = {t \in T : slot[t] \notin gone}
      OBVIOUS
    <3>2. A \in SUBSET Grid!Time /\ InView(h, V) \in SUBSET Grid!Time
      BY <1>3, <3>1, InCellIs
    <3>3. \A t \in Grid!Time : admitted[t] # 0 => (t \in A <=> t \in InView(h, V))
      BY <2>1, <3>1 DEF InView
    <3>4. SumFunctionOnSet(admitted, A) = SumFunctionOnSet(admitted, InView(h, V))
      BY ONLY <1>1, <2>2, <3>2, <3>3, SumSupport
    <3>5. QED
      BY <1>8, <3>1, <3>4
  <2>4. ASSUME NEW j \in Grid!Cells PROVE array[j] = SumFunctionOnSet(admitted, InCell(h, V, j))
    <3>1. InCell(h, V, j) \in SUBSET Grid!Time /\ InCell(h, last, j) \in SUBSET Grid!Time
      BY InCellIs
    <3>2. \A t \in Grid!Time : t \in InCell(h, V, j) <=> h[t] > V - G /\ h[t] % G = j
      BY DEF InCell, InView
    <3>3. \A t \in Grid!Time : t \in InCell(h, last, j) <=> t \in T /\ slot[t] = j
      BY <1>4 DEF InCell, InView
    <3>4. \A t \in T : slot[t] = h[t] % G
      BY <1>4
    <3>5. CASE j \in gone
      <4>1. \A t \in InCell(h, V, j) : admitted[t] = 0
        BY <2>1, <3>1, <3>2, <3>4, <3>5
      <4>2. IsFiniteSet(InCell(h, V, j))
        BY <1>1, <3>1, FS_Subset
      <4>3. SumFunctionOnSet(admitted, InCell(h, V, j)) = 0
        BY ONLY <4>1, <4>2, SumZero, Zenon
      <4>4. QED
        BY <1>9, <3>5, <4>3
    <3>6. CASE j \notin gone
      <4>1. \A t \in Grid!Time : admitted[t] # 0 => (t \in InCell(h, last, j) <=> t \in InCell(h, V, j))
        BY <2>1, <3>2, <3>3, <3>4, <3>6
      <4>2. SumFunctionOnSet(admitted, InCell(h, last, j)) = SumFunctionOnSet(admitted, InCell(h, V, j))
        BY ONLY <1>1, <2>2, <3>1, <4>1, SumSupport
      <4>3. QED
        BY <1>0, <1>9, <3>6, <4>2
    <3>7. QED
      BY <3>5, <3>6
  <2>5. \A t \in Grid!Time : admitted[t] # 0 => h[t] <= V
    BY <1>0, <1>1, <1>10
  <2>6. QED
    BY <1>0, <1>1, <1>9, <2>3, <2>4, <2>5 DEF Booked
<1>11. ASSUME V < last PROVE array = Grid!NoCell /\ Grid!MarkAfter(gone) = 0
  <2>1. gone = Grid!Cells
    BY <1>2, <1>11
  <2>2. array = Grid!NoCell
    BY <2>1 DEF Grid!NoCell
  <2>3. {t \in T : slot[t] \notin gone} = {}
    BY <1>4, <2>1
  <2>4. QED
    BY <1>8, <2>2, <2>3, SumEmpty
<1>12. QED
  BY <1>10, <1>11

\* The state of the window: with or without a full load that was set.
GridInv ==
  /\ start \in Grid!Time /\ last \in Nat /\ now \in Grid!Time
  /\ \E loaded \in BOOLEAN : /\ Booked(Book(loaded), admitted, last, cells, waterMark)
                             /\ loaded => admitted[start] >= MaxReqWaterMark

\* A booking names a cell for every time.
LEMMA Placed ==
  ASSUME NEW s \in Grid!Time, NEW loaded \in BOOLEAN,
         NEW h, h = [t \in Grid!Time |-> IF loaded /\ t = s THEN -1 ELSE (t - s) \div GridDistant]
  PROVE  /\ h \in [Grid!Time -> Int]
         /\ \A t \in Grid!Time : h[t] = IF loaded /\ t = s THEN -1 ELSE (t - s) \div GridDistant
<1>1. \A t \in Grid!Time : (t - s) \div GridDistant \in Int
  <2>1. ASSUME NEW t \in Grid!Time PROVE (t - s) \div GridDistant \in Int
    <3>1. t - s \in Int /\ GridDistant \in Nat \ {0}
      BY GridNumbers
    <3>2. QED
      BY ONLY <3>1, Divided, Zenon
  <2>2. QED
    BY <2>1
<1>2. QED
  BY <1>1

\* The same of the booking of the state.
LEMMA BookIs ==
  ASSUME start \in Grid!Time, NEW loaded \in BOOLEAN
  PROVE  /\ Book(loaded) \in [Grid!Time -> Int]
         /\ \A t \in Grid!Time : Book(loaded)[t] = IF loaded /\ t = start THEN -1 ELSE (t - start) \div GridDistant
<1>1. PICK h, s : s = start /\ h = Book(loaded)
  OBVIOUS
<1>2. h = [t \in Grid!Time |-> IF loaded /\ t = s THEN -1 ELSE (t - s) \div GridDistant]
  BY <1>1 DEF Book
<1>3. QED
  BY <1>1, <1>2, Placed

\* The window begins empty.
LEMMA GridInvInit == Grid!Init => GridInv
<1> SUFFICES ASSUME Grid!Init PROVE GridInv
  OBVIOUS
<1>1. /\ now \in Grid!Time /\ start = now /\ last = 0 /\ cells = Grid!NoCell /\ waterMark = 0 /\ admitted = Grid!NoTime
  BY DEF Grid!Init
<1>2. Book(FALSE) \in [Grid!Time -> Int]
  BY <1>1, BookIs
<1>3. Booked(Book(FALSE), Grid!NoTime, 0, Grid!NoCell, 0)
  <2>1. 0 \in Int
    OBVIOUS
  <2>2. QED
    BY ONLY <1>2, <2>1, BookedFresh, Zenon
<1>4. QED
  BY <1>1, <1>3 DEF GridInv

\* The cell of the present.
LEMMA VirtualGridIs ==
  ASSUME GridInv, now >= start
  PROVE  /\ Grid!VirtualGrid \in Nat /\ Grid!VirtualGrid = (now - start) \div GridDistant
         /\ now = start => Grid!VirtualGrid = 0
<1>1. now - start \in Nat /\ GridDistant \in Nat \ {0}
  BY GridNumbers DEF GridInv
<1>2. PICK d, U : d = now - start /\ U = GridDistant
  OBVIOUS
<1>3. PICK q, r : q = d \div U /\ r = d % U
  OBVIOUS
<1>4. d \in Nat /\ U \in Nat \ {0} /\ q \in Int /\ r \in 0..(U - 1) /\ d = U * q + r
  <2>1. d \in Nat /\ d \in Int /\ U \in Nat \ {0}
    BY <1>1, <1>2
  <2>2. d \div U \in Int /\ d % U \in 0 .. U - 1 /\ d = U * (d \div U) + (d % U)
    BY ONLY <2>1, Divided, Zenon
  <2>3. QED
    BY ONLY <1>3, <2>1, <2>2, Zenon
<1>5. ~(q < 0)
  <2> SUFFICES ASSUME q < 0 PROVE FALSE
    OBVIOUS
  <2>1. U * q + U <= U * 0
    BY <1>4, Times
  <2>2. QED
    BY <1>4, <2>1
<1>6. d = 0 => q = 0
  <2> SUFFICES ASSUME d = 0 PROVE q = 0
    OBVIOUS
  <2>1. U * q + r = U * 0 + 0 /\ 0 \in 0..(U - 1)
    BY <1>4
  <2>2. QED
    BY ONLY <1>4, <2>1, 0 \in Int, Unique
<1>7. Grid!VirtualGrid = q /\ q = (now - start) \div GridDistant
  BY <1>2, <1>3 DEF Grid!VirtualGrid
<1>8. now = start => d = 0
  BY <1>1, <1>2, GridNumbers DEF GridInv
<1>9. QED
  BY <1>4, <1>5, <1>6, <1>7, <1>8

\* What check_load does, once it has cleared.
LEMMA CheckLoadBooks ==
  ASSUME GridInv, Grid!CheckLoad
  PROVE  \E loaded \in BOOLEAN :
           /\ Booked(Book(loaded), admitted', last', cells', waterMark')
           /\ loaded => admitted'[start] >= MaxReqWaterMark
           /\ verdict' = "normal" => waterMark' < MaxReqWaterMark
           /\ verdict' = "full" => waterMark' >= MaxReqWaterMark - 1
<1> PICK V, G, M, mark, cleared :
      V = Grid!VirtualGrid /\ G = GridCount /\ M = MaxReqWaterMark /\ mark = Grid!MarkAfter(Grid!Spanned)
      /\ cleared = [i \in Grid!Cells |-> IF i \in Grid!Spanned THEN 0 ELSE cells[i]]
  OBVIOUS
<1>0. /\ G \in Nat \ {0} /\ G > 1 /\ GridDistant \in Nat \ {0} /\ M \in Nat /\ Grid!Cells = 0..(G - 1)
      /\ Grid!Time \subseteq Nat /\ start \in Grid!Time /\ now \in Grid!Time /\ last \in Nat
  BY GridNumbers DEF GridInv
<1>1. V \in Nat /\ V = (now - start) \div GridDistant /\ (now = start => V = 0) /\ now >= start
  BY VirtualGridIs DEF Grid!CheckLoad
<1>2. PICK history : history = IF V < last THEN Grid!NoTime ELSE admitted
  OBVIOUS
<1>3. /\ last' = V /\ UNCHANGED <<now, start>>
      /\ verdict' = IF mark + 1 >= M THEN "full" ELSE "normal"
      /\ cells' = IF mark + 1 >= M THEN cleared ELSE [cleared EXCEPT ![V % G] = cleared[V % G] + 1]
      /\ waterMark' = IF mark + 1 >= M THEN mark ELSE mark + 1
      /\ admitted' = IF mark + 1 >= M THEN history ELSE [history EXCEPT ![now] = history[now] + 1]
  <2>1. V % G \in Grid!Cells
    <3>1. V \in Int /\ G \in Nat \ {0}
      BY <1>0, <1>1
    <3>2. V % G \in 0 .. G - 1
      BY ONLY <3>1, Divided, Zenon
    <3>3. QED
      BY <1>0, <3>2
  <2>2. now \in DOMAIN history
    BY <1>0, <1>2 DEF Grid!NoTime, GridInv, Booked
  <2>3. V % G \in DOMAIN cleared
    BY <2>1
  <2>4. QED
    BY <1>2, <2>2, <2>3 DEF Grid!CheckLoad
\* Before the request is counted.
<1>4. PICK loaded \in BOOLEAN :
        /\ Booked(Book(loaded), history, V, cleared, mark)
        /\ loaded => history[start] >= M /\ V >= last
  <2>1. PICK l \in BOOLEAN : /\ Booked(Book(l), admitted, last, cells, waterMark)
                             /\ l => admitted[start] >= M
    BY DEF GridInv
  <2>2. CASE V >= last
    <3>1. Booked(Book(l), admitted, V, cleared, mark)
      BY <1>1, <2>1, <2>2, BookedCleared
    <3>2. history = admitted
      BY <1>0, <1>1, <1>2, <2>2
    <3>3. QED
      BY <2>1, <2>2, <3>1, <3>2
  <2>3. CASE V < last
    <3>1. cleared = Grid!NoCell /\ mark = 0
      BY <1>1, <2>1, <2>3, BookedCleared
    <3>2. Book(FALSE) \in [Grid!Time -> Int]
      BY <1>0, BookIs
    <3>3. Booked(Book(FALSE), Grid!NoTime, V, Grid!NoCell, 0)
      <4>1. V \in Int
        BY <1>1
      <4>2. QED
        BY ONLY <3>2, <4>1, BookedFresh, Zenon
    <3>4. QED
      BY <1>2, <2>3, <3>1, <3>3
  <2>4. QED
    BY <1>0, <1>1, <2>2, <2>3
<1> PICK h : h = Book(loaded)
  OBVIOUS
<1>5. h \in [Grid!Time -> Int] /\ \A t \in Grid!Time : h[t] = IF loaded /\ t = start THEN -1 ELSE (t - start) \div GridDistant
  BY <1>0, BookIs
<1>6. /\ history \in [Grid!Time -> Nat] /\ mark = SumFunctionOnSet(history, InView(h, V))
      /\ cleared \in [Grid!Cells -> Int]
  BY <1>4 DEF Booked
<1>7. mark \in Nat
  <2>1. IsFiniteSet(InView(h, V)) /\ \A t \in InView(h, V) : history[t] \in Nat
    BY <1>6, GridNumbers, InCellIs, FS_Subset
  <2>2. QED
    BY <1>6, <2>1, SumNat
<1>8. CASE mark + 1 >= M
  <2>1. cells' = cleared /\ waterMark' = mark /\ admitted' = history /\ verdict' = "full"
    BY <1>3, <1>8
  <2>2. mark >= M - 1
    BY <1>0, <1>7, <1>8
  <2>3. QED
    BY <1>3, <1>4, <2>1, <2>2
<1>9. CASE ~(mark + 1 >= M)
  <2>1. /\ cells' = [cleared EXCEPT ![V % G] = cleared[V % G] + 1] /\ waterMark' = mark + 1
        /\ admitted' = [history EXCEPT ![now] = history[now] + 1] /\ verdict' = "normal"
    BY <1>3, <1>9
\* While the full load is in the window nothing is admitted.
  <2>2. ~(loaded /\ now = start)
    <3> SUFFICES ASSUME loaded, now = start PROVE FALSE
      OBVIOUS
    <3>1. V = 0 /\ h[start] = -1
      BY <1>0, <1>1, <1>5
    <3>2. start \in InView(h, V)
      <4>1. PICK n, k : n = h[start] /\ k = GridCount
        OBVIOUS
      <4>2. n = -1 /\ V = 0 /\ k \in Int /\ k > 1
        BY <3>1, <4>1, GridNumbers
      <4>3. n > V - k
        BY ONLY <4>2
      <4>4. start \in Grid!Time
        BY <1>0
      <4>5. QED
        BY <4>1, <4>3, <4>4 DEF InView
    <3>3. IsFiniteSet(InView(h, V)) /\ \A t \in InView(h, V) : history[t] \in Nat
      BY <1>6, GridNumbers, InCellIs, FS_Subset
    <3>4. PICK S, one : S = InView(h, V) /\ one = {start}
      OBVIOUS
    <3>5. SumFunctionOnSet(history, one) <= SumFunctionOnSet(history, S)
      BY <3>2, <3>3, <3>4, SumPart
    <3>6. SumFunctionOnSet(history, one) = history[start]
      <4>1. IsFiniteSet(one)
        BY <3>4, FS_Singleton
      <4>6. start \in one /\ \A t \in one : history[t] \in Int
        BY <1>0, <1>6, <3>4
      <4>2. SumFunctionOnSet(history, one) = history[start] + SumFunctionOnSet(history, one \ {start})
        BY ONLY <4>1, <4>6, SumAny, Zenon
      <4>3. one \ {start} = {}
        BY <3>4
      <4>4. SumFunctionOnSet(history, one \ {start}) = 0
        BY <4>3, SumEmpty
      <4>7. PICK n : n = history[start]
        OBVIOUS
      <4>8. n \in Nat /\ SumFunctionOnSet(history, one) = n + 0
        BY <1>0, <1>6, <4>2, <4>4, <4>7
      <4>5. QED
        BY <4>7, <4>8
    <3>7. mark >= M
      <4>1. PICK n, k : n = history[start] /\ k = SumFunctionOnSet(history, one)
        OBVIOUS
      <4>2. n \in Nat /\ n = k /\ n >= M
        BY <1>0, <1>4, <1>6, <3>1, <3>6, <4>1
      <4>3. k <= mark
        BY <1>6, <3>4, <3>5, <4>1
      <4>4. QED
        BY <1>0, <1>7, <4>2, <4>3
    <3>8. QED
      BY <1>0, <1>7, <1>9, <3>7
  <2>3. h[now] = V
    BY <1>0, <1>1, <1>5, <2>2
  <2>4. Booked(h, [history EXCEPT ![now] = history[now] + 1], V, [cleared EXCEPT ![h[now] % G] = cleared[h[now] % G] + 1], mark + 1)
    <3>1. h[now] <= V /\ h[now] > V - GridCount
      BY <1>0, <1>1, <2>3
    <3>2. QED
      BY <1>0, <1>4, <3>1, BookedMore
  <2>5. Booked(h, admitted', V, cells', waterMark')
    BY <2>1, <2>3, <2>4
  <2>6. loaded => admitted'[start] >= M
    BY <1>0, <1>4, <1>6, <2>1, <2>2
  <2>7. mark + 1 < M
    BY <1>0, <1>7, <1>9
  <2>8. QED
    BY <1>3, <2>1, <2>5, <2>6, <2>7
<1>10. QED
  BY <1>8, <1>9

\* Every operation keeps the books.
LEMMA GridInvStep == GridInv /\ Grid!Next => GridInv'
<1> SUFFICES ASSUME GridInv, Grid!Next PROVE GridInv'
  OBVIOUS
<1>0. /\ GridCount \in Nat \ {0} /\ GridCount > 1 /\ MaxReqWaterMark \in Nat /\ Grid!Cells = 0..(GridCount - 1)
      /\ Grid!Time \subseteq Nat /\ start \in Grid!Time /\ now \in Grid!Time /\ last \in Nat
  BY GridNumbers DEF GridInv
<1>1. CASE Grid!CheckLoadResets
  <2>1. /\ start' = now /\ now' = now /\ last' = 0 /\ cells' = Grid!NoCell /\ waterMark' = 0 /\ admitted' = Grid!NoTime
    BY <1>1 DEF Grid!CheckLoadResets
  <2>2. PICK h : h = [t \in Grid!Time |-> IF FALSE /\ t = start' THEN -1 ELSE (t - start') \div GridDistant]
    OBVIOUS
  <2>3. h \in [Grid!Time -> Int]
    <3>1. start' \in Grid!Time
      BY <1>0, <2>1
    <3>2. QED
      BY ONLY <2>2, <3>1, FALSE \in BOOLEAN, Placed, Zenon
  <2>4. Booked(h, Grid!NoTime, 0, Grid!NoCell, 0)
    <3>1. 0 \in Int
      OBVIOUS
    <3>2. QED
      BY ONLY <2>3, <3>1, BookedFresh, Zenon
  <2>5. QED
    BY <1>0, <2>1, <2>2, <2>4 DEF GridInv, Book
<1>2. CASE Grid!CheckLoad
  <2>1. PICK loaded \in BOOLEAN : /\ Booked(Book(loaded), admitted', last', cells', waterMark')
                                  /\ loaded => admitted'[start] >= MaxReqWaterMark
    BY <1>2, CheckLoadBooks
  <2>2. last' = Grid!VirtualGrid /\ start' = start /\ now' = now /\ now >= start
    BY <1>2 DEF Grid!CheckLoad
  <2>3. last' \in Nat
    BY <2>2, VirtualGridIs
  <2>4. Book(loaded)' = Book(loaded)
    BY <2>2 DEF Book
  <2>5. QED
    BY <1>0, <2>1, <2>2, <2>3, <2>4 DEF GridInv
<1>3. CASE Grid!SetFull
  <2>1. /\ start' = now /\ now' = now /\ last' = 0
        /\ cells' = [Grid!NoCell EXCEPT ![GridCount - 1] = MaxReqWaterMark]
        /\ waterMark' = MaxReqWaterMark /\ admitted' = [Grid!NoTime EXCEPT ![now] = MaxReqWaterMark]
    BY <1>3 DEF Grid!SetFull
  <2>2. PICK h : h = [t \in Grid!Time |-> IF TRUE /\ t = start' THEN -1 ELSE (t - start') \div GridDistant]
    OBVIOUS
  <2>3. h \in [Grid!Time -> Int] /\ h[now] = -1
    <3>1. start' \in Grid!Time
      BY <1>0, <2>1
    <3>2. h \in [Grid!Time -> Int]
      BY ONLY <2>2, <3>1, TRUE \in BOOLEAN, Placed, Zenon
    <3>3. h[now] = -1
      BY <1>0, <2>1, <2>2
    <3>4. QED
      BY <3>2, <3>3
  <2>4. Booked(h, Grid!NoTime, 0, Grid!NoCell, 0)
    <3>1. 0 \in Int
      OBVIOUS
    <3>2. QED
      BY ONLY <2>3, <3>1, BookedFresh, Zenon
  <2>5. (-1) % GridCount = GridCount - 1
    <3>1. PICK v, G : v = -1 /\ G = GridCount
      OBVIOUS
    <3>2. v \in Int /\ G \in Nat \ {0} /\ v + G = G - 1 /\ G - 1 \in 0 .. G - 1
      BY <1>0, <3>1
    <3>3. (v + G) % G = v % G
      BY ONLY <3>2, ModShift, Zenon
    <3>4. (G - 1) % G = G - 1
      BY ONLY <3>2, ModSmall, Zenon
    <3>5. QED
      BY <3>1, <3>2, <3>3, <3>4
  <2>6. PICK f, a : f = Grid!NoTime /\ a = Grid!NoCell
    OBVIOUS
  <2>7. Booked(h, [f EXCEPT ![now] = f[now] + MaxReqWaterMark], 0,
               [a EXCEPT ![h[now] % GridCount] = a[h[now] % GridCount] + MaxReqWaterMark], 0 + MaxReqWaterMark)
    <3>1. h[now] <= 0 /\ h[now] > 0 - GridCount
      BY <1>0, <2>3
    <3>2. QED
      BY <1>0, <2>4, <2>6, <3>1, BookedMore
  <2>8. f[now] + MaxReqWaterMark = MaxReqWaterMark /\ 0 + MaxReqWaterMark = MaxReqWaterMark
        /\ a[GridCount - 1] + MaxReqWaterMark = MaxReqWaterMark
    BY <1>0, <2>6 DEF Grid!NoTime, Grid!NoCell
  <2>9. Booked(h, admitted', 0, cells', waterMark')
    BY <2>1, <2>3, <2>5, <2>6, <2>7, <2>8
  <2>10. admitted'[start'] >= MaxReqWaterMark
    BY <1>0, <2>1 DEF Grid!NoTime
  <2>11. Book(TRUE)' = h
    BY <2>2 DEF Book
  <2>12. QED
    BY <1>0, <2>1, <2>9, <2>10, <2>11 DEF GridInv
<1>4. CASE Grid!Clock
  BY <1>4, ZenonT(40) DEF Grid!Clock, Grid!gridVars, GridInv, Book, Booked, InView, InCell
<1>5. QED
  BY <1>1, <1>2, <1>3, <1>4 DEF Grid!Next

\* LimitExact, of one step.
Limit ==
  /\ verdict' = "normal" =>
       Grid!InWindow(admitted', (GridCount - 1) * GridDistant) < MaxReqWaterMark
  /\ verdict' = "full" =>
       Grid!InWindow(admitted', GridCount * GridDistant) >= MaxReqWaterMark - 1

\* What the books say of a verdict, in milliseconds.
LEMMA LimitStep == GridInv /\ Grid!Next => [Limit]_(Grid!gridVars)
<1> SUFFICES ASSUME GridInv, Grid!Next PROVE [Limit]_(Grid!gridVars)
  OBVIOUS
<1>1. CASE Grid!CheckLoadResets \/ Grid!SetFull
  BY <1>1 DEF Grid!CheckLoadResets, Grid!SetFull, Limit
<1>2. CASE Grid!Clock
  BY <1>2 DEF Grid!Clock
<1>3. CASE Grid!CheckLoad
  <2> PICK V, G, D, s : V = Grid!VirtualGrid /\ G = GridCount /\ D = GridDistant /\ s = start
    OBVIOUS
  <2>0. /\ G \in Nat \ {0} /\ G > 1 /\ D \in Nat \ {0} /\ MaxReqWaterMark \in Nat
        /\ Grid!Time \subseteq Nat /\ s \in Grid!Time /\ now \in Grid!Time /\ IsFiniteSet(Grid!Time)
    BY GridNumbers DEF GridInv
  <2>1. PICK loaded \in BOOLEAN :
          /\ Booked(Book(loaded), admitted', last', cells', waterMark')
          /\ verdict' = "normal" => waterMark' < MaxReqWaterMark
          /\ verdict' = "full" => waterMark' >= MaxReqWaterMark - 1
    BY <1>3, CheckLoadBooks
  <2>2. last' = V /\ now >= s /\ now' = now
    BY <1>3 DEF Grid!CheckLoad
  <2>3. V \in Nat /\ V = (now - s) \div D
    BY <2>2, VirtualGridIs
  <2> PICK h, f : h = Book(loaded) /\ f = admitted'
    OBVIOUS
  <2>4. h \in [Grid!Time -> Int] /\ \A t \in Grid!Time : h[t] = IF loaded /\ t = s THEN -1 ELSE (t - s) \div D
    BY <2>0, BookIs
  <2>5. /\ f \in [Grid!Time -> Nat] /\ waterMark' = SumFunctionOnSet(f, InView(h, V))
    BY <2>1, <2>2 DEF Booked
\* How many milliseconds ago a time is says how many cells ago it is booked.
  <2>6. ASSUME NEW t \in Grid!Time, NEW n \in Nat
        PROVE  /\ t > now - n * D => (t - s) \div D >= V - n
               /\ (t - s) \div D > V - n => t > now - n * D
    <3>1. PICK c, d, m : c = t - s /\ d = now - s /\ m = n * D
      OBVIOUS
    <3>2. c \in Int /\ d \in Int /\ m \in Int /\ (t > now - m <=> c > d - m)
      BY <2>0, <3>1
    <3>3. (c > d - n * D => c \div D >= d \div D - n) /\ (c \div D > d \div D - n => c > d - n * D)
      BY ONLY <2>0, <3>2, n \in Int, CellsApart
    <3>4. QED
      BY <2>3, <3>1, <3>2, <3>3
  <2>7. ASSUME NEW t \in Grid!Time, t > now - (G - 1) * D PROVE h[t] > V - G
    <3>1. G - 1 \in Nat
      BY <2>0
    <3>2. CASE loaded /\ t = s
      <4>1. ~(V > G - 2)
        <5> SUFFICES ASSUME V > G - 2 PROVE FALSE
          OBVIOUS
        <5>1. PICK d, m : d = now - s /\ m = (G - 1) * D
          OBVIOUS
        <5>2. d \in Int /\ m \in Int /\ d < m /\ G - 1 \in Int
          BY <2>0, <2>7, <3>2, <5>1
        <5>3. 0 > d - (G - 1) * D
          BY <5>1, <5>2
        <5>4. 0 \div D >= d \div D - (G - 1) /\ d \div D = V
          BY ONLY <2>0, <2>3, <5>1, <5>2, <5>3, 0 \in Int, CellsApart
        <5>5. d \div D - (G - 1) <= 0 \div D
          BY <5>4
        <5>6. 0 \div D = 0
          <6>1. D \in Nat \ {0} /\ 0 \in 0 .. D - 1
            BY <2>0
          <6>2. QED
            BY ONLY <6>1, ModSmall, Zenon
        <5>7. V - (G - 1) <= 0
          BY <5>4, <5>6
        <5>8. V = G - 1
          BY <2>0, <2>3, <5>7
        <5>9. d >= 0 /\ d = now - s
          BY <2>0, <2>2, <5>1
        <5>10. PICK r : r = d % D
          OBVIOUS
        <5>11. r \in 0..(D - 1) /\ d = D * V + r
          BY <2>0, <2>3, <5>1, <5>2, <5>10, Divided
        <5>12. D * V = m
          BY <2>0, <5>1, <5>8
        <5>13. QED
          BY <2>0, <5>2, <5>11, <5>12
      <4>2. h[t] = -1
        BY <2>4, <3>2
      <4>3. QED
        BY <2>0, <2>3, <4>1, <4>2
    <3>3. CASE ~(loaded /\ t = s)
      <4>1. h[t] = (t - s) \div D /\ h[t] \in Int
        BY <2>4, <3>3
      <4>2. h[t] >= V - (G - 1)
        BY <2>6, <2>7, <3>1, <4>1
      <4>3. QED
        BY <2>0, <2>3, <4>1, <4>2
    <3>4. QED
      BY <3>2, <3>3
  <2>8. ASSUME NEW t \in Grid!Time, h[t] > V - G PROVE t > now - G * D
    <3>1. CASE loaded /\ t = s
      <4>1. h[t] = -1 /\ V < G - 1
        <5>1. h[t] = -1
          BY <2>4, <3>1
        <5>2. QED
          BY <2>0, <2>3, <2>8, <5>1
      <4>2. PICK c : c = (s - s) \div D
        OBVIOUS
      <4>3. c = 0
        <5>1. s - s = 0
          BY <2>0
        <5>2. D \in Nat \ {0} /\ 0 \in 0 .. D - 1
          BY <2>0
        <5>3. 0 \div D = 0
          BY ONLY <5>2, ModSmall, Zenon
        <5>4. QED
          BY <4>2, <5>1, <5>3
      <4>4. c > V - G
        BY <2>0, <2>3, <4>1, <4>3
      <4>5. QED
        BY <2>0, <2>6, <3>1, <4>2, <4>4
    <3>2. CASE ~(loaded /\ t = s)
      <4>1. h[t] = (t - s) \div D
        BY <2>4, <3>2
      <4>2. QED
        BY <2>0, <2>6, <2>8, <4>1
    <3>3. QED
      BY <3>1, <3>2
  <2>9. \A t \in Grid!Time : f[t] \in Nat
    BY <2>5
  <2>10. \A ms : Grid!InWindow(f, ms) = SumFunctionOnSet(f, {t \in Grid!Time : t > now - ms})
    BY GridSumSame DEF Grid!InWindow
  <2>11. InView(h, V) \in SUBSET Grid!Time
    BY InCellIs
  <2>12. \A t \in Grid!Time : t \in InView(h, V) <=> h[t] > V - G
    BY DEF InView
  <2>13. PICK A : A = {t \in Grid!Time : t > now - (G - 1) * D}
    OBVIOUS
  <2>14. PICK B : B = {t \in Grid!Time : t > now - G * D}
    OBVIOUS
  <2>15. SumFunctionOnSet(f, A) <= waterMark'
    <3>1. A \in SUBSET Grid!Time /\ \A t \in A : f[t] # 0 => t \in InView(h, V)
      BY <2>7, <2>12, <2>13
    <3>2. QED
      BY <2>0, <2>5, <2>9, <2>11, <3>1, SumWithin
  <2>16. waterMark' <= SumFunctionOnSet(f, B)
    <3>1. B \in SUBSET Grid!Time /\ \A t \in InView(h, V) : f[t] # 0 => t \in B
      BY <2>8, <2>11, <2>12, <2>14
    <3>2. QED
      BY <2>0, <2>5, <2>9, <2>11, <3>1, SumWithin
  <2>17. waterMark' \in Int /\ SumFunctionOnSet(f, A) \in Int /\ SumFunctionOnSet(f, B) \in Int
    <3>1. ASSUME NEW S \in SUBSET Grid!Time PROVE SumFunctionOnSet(f, S) \in Int
      <4>1. IsFiniteSet(S)
        BY <2>0, FS_Subset
      <4>2. \A t \in S : f[t] \in Int
        BY <2>9
      <4>3. QED
        BY ONLY <4>1, <4>2, SumAny, Zenon
    <3>2. QED
      BY <2>5, <2>11, <2>13, <2>14, <3>1
  <2>18. /\ Grid!InWindow(f, (GridCount - 1) * GridDistant) = SumFunctionOnSet(f, A)
         /\ Grid!InWindow(f, GridCount * GridDistant) = SumFunctionOnSet(f, B)
    BY <2>2, <2>10, <2>13, <2>14
  <2>19. Limit
    BY <2>0, <2>1, <2>15, <2>16, <2>17, <2>18 DEF Limit
  <2>20. QED
    BY <2>19
<1>4. QED
  BY <1>1, <1>2, <1>3 DEF Grid!Next

\* What check_load admits, with what was admitted in the whole cells before,
\* stays under the water mark, and it refuses only while the window, with the
\* cell it begins in, holds the mark: over idle periods, wraps of the array,
\* clocks that step back and loads that are set, for any number of cells of any
\* length (net_grid.h, check_load).
THEOREM LimitKept == Spec => LimitExact
<1> DEFINE Inv == part = "grid" => GridInv
<1>1. Init => Inv
  BY GridInvInit DEF Init
<1>2. Inv /\ [Next]_vars => Inv'
  <2> SUFFICES ASSUME Inv, [Next]_vars, part' = "grid" PROVE GridInv'
    OBVIOUS
  <2>1. part = "grid" /\ GridInv /\ (Grid!Next \/ UNCHANGED vars)
    BY DEF Next, vars
  <2>2. CASE Grid!Next
    BY <2>1, <2>2, GridInvStep
  <2>3. CASE UNCHANGED vars
    BY <2>1, <2>3, ZenonT(40) DEF vars, gridVars, GridInv, Book, Booked, InView, InCell
  <2>4. QED
    BY <2>1, <2>2, <2>3
<1>3. Inv /\ [Next]_vars => [Limit]_(Grid!gridVars)
  <2> SUFFICES ASSUME Inv, [Next]_vars PROVE [Limit]_(Grid!gridVars)
    OBVIOUS
  <2>1. (part = "grid" /\ Grid!Next) \/ UNCHANGED Grid!gridVars
    BY DEF Next, vars, gridVars, Grid!gridVars
  <2>2. CASE part = "grid" /\ Grid!Next
    BY <2>2, LimitStep
  <2>3. QED
    BY <2>1, <2>2
<1>4. Spec => [][Limit]_(Grid!gridVars)
  BY <1>1, <1>2, <1>3, PTL DEF Spec
<1>5. QED
  BY <1>4 DEF Limit, LimitExact, Grid!LimitExact
=============================================================================
