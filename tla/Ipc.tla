--------------------------------- MODULE Ipc ---------------------------------
(***************************************************************************)
(* The System V semaphore and shared memory under CShmCache and CSem:      *)
(* CShmCache::Init, its destructor, Lock and Unlock (src/utils/            *)
(* shmcache.cpp) and CSem (src/utils/ipc.cpp).  Processes start, work under*)
(* the lock and die at any moment; the kernel undoes what they did to the  *)
(* semaphore (SEM_UNDO).                                                   *)
(***************************************************************************)
EXTENDS Integers

CONSTANTS
  Procs,
  Tries,         \* how often CSem::Wait tries: 5
  MaxInterrupts  \* bound: signals a waiting process gets

VARIABLES
  pc,            \* where a process is
  sem, undo,     \* the semaphore and every process's adjustment
  shmSize,       \* *m_shm_size = m_total_size
  interrupts,    \* semop calls of this wait that ended with EINTR
  underUsers     \* history: the last SETVAL was done under other users

ipcVars == <<pc, sem, undo, shmSize, interrupts, underUsers>>

Init ==
  /\ pc = [p \in Procs |-> "out"]
  /\ sem = 0 /\ undo = [p \in Procs |-> 0]
  /\ shmSize = FALSE
  /\ interrupts = [p \in Procs |-> 0]
  /\ underUsers = FALSE

Attached(p) == pc[p] # "out"

Go(p, label) == pc' = [pc EXCEPT ![p] = label]

\* Faulty variant: without SEM_UNDO.
SemopNoUndo(p, n) ==
  /\ sem + n >= 0
  /\ sem' = sem + n
  /\ UNCHANGED undo

\* semop with SEM_UNDO.
Semop(p, n) ==
  /\ sem + n >= 0
  /\ sem' = sem + n
  /\ undo' = [undo EXCEPT ![p] = @ - n]

-----------------------------------------------------------------------------
\* Init: whoever finds another size in the memory initialises it.  Nothing keeps
\* two processes from finding it at once, nor one from finding it while others
\* use the memory, when a destructor has cleared the size.
Attach(p) ==
  /\ pc[p] = "out"
  /\ Go(p, IF shmSize THEN "idle" ELSE "setval")
  /\ UNCHANGED <<sem, undo, shmSize, interrupts, underUsers>>

\* The processes that are past SETVAL, or did not need it.
Users == {p \in Procs : pc[p] \notin {"out", "setval"}}

\* SETVAL also clears every process's adjustment.
SetVal(p) ==
  /\ pc[p] = "setval"
  /\ sem' = 1 /\ undo' = [q \in Procs |-> 0]
  /\ underUsers' = (Users # {})
  /\ Go(p, "initLock")
  /\ UNCHANGED <<shmSize, interrupts>>

InitLock(p) ==
  /\ pc[p] = "initLock"
  /\ Semop(p, -1)
  /\ shmSize' = TRUE       \* before the lists are made
  /\ Go(p, "init")
  /\ UNCHANGED <<interrupts, underUsers>>

InitDone(p) ==
  /\ pc[p] = "init"
  /\ Semop(p, 1)
  /\ Go(p, "idle")
  /\ UNCHANGED <<shmSize, interrupts, underUsers>>

\* An operation: of the cache, whose Lock tries again after every signal, or of
\* a user of CSem, which throws after five.
Call(p, user) ==
  /\ pc[p] = "idle"
  /\ Go(p, user)
  /\ interrupts' = [interrupts EXCEPT ![p] = 0]
  /\ UNCHANGED <<sem, undo, shmSize, underUsers>>

Waits(p) == pc[p] \in {"cache", "csem"}

Interrupted(p) ==
  /\ Waits(p) /\ interrupts[p] < MaxInterrupts
  /\ interrupts' = [interrupts EXCEPT ![p] = @ + 1]
  /\ Go(p, IF pc[p] = "csem" /\ interrupts'[p] = Tries THEN "idle" ELSE pc[p])
  /\ UNCHANGED <<sem, undo, shmSize, underUsers>>

Lock(p) ==
  /\ Waits(p)
  /\ Semop(p, -1)
  /\ Go(p, "inside")
  /\ UNCHANGED <<shmSize, interrupts, underUsers>>

\* CSem::TryWait without a time, or when its time is over or a signal ends it.
TryWaitFails(p) ==
  /\ pc[p] = "csem" /\ sem = 0
  /\ Go(p, "idle")
  /\ UNCHANGED <<sem, undo, shmSize, interrupts, underUsers>>

\* Unlock and CSem::Post.
Unlock(p) ==
  /\ pc[p] = "inside"
  /\ Semop(p, 1)
  /\ Go(p, "idle")
  /\ UNCHANGED <<shmSize, interrupts, underUsers>>

\* What the kernel does when a process is gone.
Undo(p) ==
  /\ sem' = IF sem + undo[p] < 0 THEN 0 ELSE sem + undo[p]
  /\ undo' = [undo EXCEPT ![p] = 0]

\* A process dies.
Crash(p) ==
  /\ Attached(p)
  /\ Go(p, "out")
  /\ Undo(p)
  /\ UNCHANGED <<shmSize, interrupts, underUsers>>

\* ~CShmCache says that the memory is not initialised, whoever uses it.
Detach(p) ==
  /\ pc[p] = "idle"
  /\ shmSize' = FALSE
  /\ Go(p, "out")
  /\ Undo(p)
  /\ UNCHANGED <<interrupts, underUsers>>

Next == \E p \in Procs :
  \/ Attach(p) \/ SetVal(p) \/ InitLock(p) \/ InitDone(p)
  \/ \E user \in {"cache", "csem"} : Call(p, user)
  \/ Interrupted(p) \/ Lock(p) \/ TryWaitFails(p) \/ Unlock(p)
  \/ Crash(p) \/ Detach(p)

Spec == Init /\ [][Next]_ipcVars

-----------------------------------------------------------------------------
(* PROPERTIES                                                              *)

Holders == {p \in Procs : pc[p] \in {"inside", "init"}}

\* Whatever process dies wherever it is, gives up after signals or tries without
\* waiting: at most one holds the lock, and while none does the semaphore is
\* free, so nobody waits for a dead process (Lock, Unlock, CSem, SEM_UNDO).  It
\* holds until a process initialises the memory under the feet of another: two
\* that start at once, or one that starts after a destructor that was not the
\* last user's; and again once one initialises it alone.
LockSurvives ==
  ~underUsers /\ (shmSize \/ Users # {}) =>
    IF Holders = {} THEN sem = 1 ELSE sem = 0 /\ \E p \in Procs : Holders = {p}
=============================================================================
