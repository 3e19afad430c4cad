------------------------------- MODULE Stater -------------------------------
(***************************************************************************)
(* CStater (src/utils/stater.cpp): per key, how many operations there were *)
(* and what they cost.  Of its operations only AddStat with a key takes    *)
(* the mutex, and only if Init was asked for one; every other operation    *)
(* runs beside it.  So every operation is taken in three steps: it enters  *)
(* (and locks, if it does), it finds its item in the map, and it stores    *)
(* the fields it changes, from values it may have read earlier.            *)
(***************************************************************************)
EXTENDS Integers, FiniteSetsExt, SequencesExt, Functions

CONSTANTS
  Threads, Keys, None,
  Costs,       \* what the timed operations cost, in microseconds
  Hour,        \* the initial minimum
  Wrap,        \* 2^64: a negative cost is stored as one so much larger
  Thresholds,  \* <<_threshold1, _threshold2, _threshold3>>
  MaxCalls     \* bound: operations recorded or in progress

VARIABLES
  isMutex,     \* _is_mutex
  stat,        \* _stat: the item of every key, or None
  mutex,       \* the thread that holds _mutex, or None
  call,        \* the operation of every thread, where it is, the item as it read it
  now,         \* gettimeofday
  calls,       \* history: what was stored for every key since it was deleted
  torn,        \* history: keys of which two operations changed a field at once
  broken       \* history: the map changed under an operation, or an item was freed

statVars == <<isMutex, stat, mutex, call, calls, torn, broken>>

NewItem == [num |-> 0, total |-> 0, max |-> 0, min |-> Hour, over |-> <<0, 0, 0>>, begin |-> now]
NoCall == [op |-> "none", key |-> None, at |-> "out"]

Init ==
  /\ isMutex \in BOOLEAN
  /\ stat = [k \in Keys |-> None]
  /\ mutex = None
  /\ call = [t \in Threads |-> NoCall]
  /\ now = 0
  /\ calls = [k \in Keys |-> <<>>]
  /\ torn = {} /\ broken = FALSE

ItemOf(k) == IF stat[k] = None THEN NewItem ELSE stat[k]

\* The private AddStat: count operations of the same cost.
Added(item, cost, n) ==
  [item EXCEPT !.num = @ + n,
               !.max = IF cost > @ THEN cost ELSE @,
               !.min = IF cost < @ THEN cost ELSE @,
               !.over = [i \in 1..3 |-> @[i] + (IF cost >= Thresholds[i] THEN n ELSE 0)],
               !.total = @ + cost]

\* cost_usec is unsigned.
Unsigned(cost) == IF cost < 0 THEN cost + Wrap ELSE cost

\* The fields that an operation reads and writes.
Uses(op) ==
  (IF op \in {"add", "end"} THEN {"num", "total", "max", "min", "over"} ELSE {})
    \cup (IF op = "count" THEN {"num"} ELSE {})
    \cup (IF op \in {"begin", "end"} THEN {"begin"} ELSE {})

Locked(c) == isMutex /\ c.op = "add"

\* The other operations that a thread's operation is not locked against.
Beside(t) == {u \in Threads \ {t} : ~(Locked(call[t]) /\ Locked(call[u]))}

-----------------------------------------------------------------------------
(* ENTERING                                                                *)

Room ==
  SumFunctionOnSet([k \in Keys |-> Len(calls[k])], Keys)
    + Cardinality({t \in Threads : call[t].op \in {"add", "end", "count"}}) < MaxCalls

Enter(t, op, k, time, n) ==
  /\ call[t] = NoCall
  /\ call' = [call EXCEPT ![t] = [op |-> op, key |-> k, at |-> "map", time |-> time,
                                  n |-> n, item |-> None]]
  /\ UNCHANGED <<isMutex, stat, now, calls, torn, broken>>

\* Faulty variant: without the mutex.
AddStatLockFree(t, k, cost, n) ==
  Room /\ Enter(t, "add", k, cost, n) /\ UNCHANGED mutex

\* AddStat: Lock, which does nothing without _is_mutex.
AddStat(t, k, cost, n) ==
  /\ Room /\ Enter(t, "add", k, cost, n)
  /\ isMutex => mutex = None
  /\ mutex' = IF isMutex THEN t ELSE mutex

BeginStat(t, k) == Enter(t, "begin", k, 0, 0) /\ UNCHANGED mutex

\* EndStat takes the time before it looks for the item.
EndStat(t, k, n) == Room /\ Enter(t, "end", k, now, n) /\ UNCHANGED mutex

\* AddCount: operations whose cost is not known.
AddCount(t, k, n) == Room /\ Enter(t, "count", k, 0, n) /\ UNCHANGED mutex

DelStat(t, k) == Enter(t, "del", k, 0, 0) /\ UNCHANGED mutex

-----------------------------------------------------------------------------
(* IN THE MAP                                                              *)

\* Whether the operation inserts or erases.
Changes(c) ==
  IF c.op = "del" THEN stat[c.key] # None ELSE c.op # "end" /\ stat[c.key] = None

\* A std::map that changes while another thread is in it is undefined.
MapRaced(t) == Changes(call[t]) /\ \E u \in Beside(t) : call[u].at = "map"

\* Find or new: from here the operation works on the item.
FindItem(t) ==
  LET c == call[t] IN
  /\ c.at = "map" /\ c.op # "del" /\ (c.op = "end" => stat[c.key] # None)
  /\ stat' = [stat EXCEPT ![c.key] = ItemOf(c.key)]
  /\ call' = [call EXCEPT ![t].at = "item", ![t].item = ItemOf(c.key)]
  /\ broken' = MapRaced(t)
  /\ torn' = IF \E u \in Beside(t) : /\ call[u].at = "item" /\ call[u].key = c.key
                                     /\ Uses(call[u].op) \cap Uses(c.op) # {}
             THEN torn \cup {c.key} ELSE torn
  /\ UNCHANGED <<isMutex, mutex, now, calls>>

\* EndStat of a key that is not there.
FindNothing(t) ==
  /\ call[t].at = "map" /\ call[t].op = "end" /\ stat[call[t].key] = None
  /\ call' = [call EXCEPT ![t] = NoCall]
  /\ UNCHANGED <<isMutex, stat, mutex, now, calls, torn, broken>>

\* DelStat: delete the item, with whatever works on it, and erase it.
EraseItem(t) ==
  LET k == call[t].key IN
  /\ call[t].at = "map" /\ call[t].op = "del"
  /\ stat' = [stat EXCEPT ![k] = None]
  /\ calls' = [calls EXCEPT ![k] = <<>>]
  /\ torn' = torn \ {k}
  /\ call' = [call EXCEPT ![t] = NoCall]
  /\ broken' = (MapRaced(t) \/ \E u \in Threads : call[u].at = "item" /\ call[u].key = k)
  /\ UNCHANGED <<isMutex, mutex, now>>

-----------------------------------------------------------------------------
(* AT THE ITEM                                                             *)

\* The item a thread works from: of every field it uses, what it read when it
\* found the item or what is there now.
Base(c, stale) ==
  LET read(f) == IF f \in stale THEN c.item[f] ELSE stat[c.key][f]
  IN  [num |-> read("num"), total |-> read("total"), max |-> read("max"),
       min |-> read("min"), over |-> read("over"), begin |-> read("begin")]

Store(t, item, mine) ==
  LET k == call[t].key IN
  /\ call[t].at = "item"
  /\ stat' = [stat EXCEPT ![k] = item]
  /\ calls' = [calls EXCEPT ![k] = mine]
  /\ call' = [call EXCEPT ![t] = NoCall]
  /\ UNCHANGED <<isMutex, now, torn, broken>>

\* What was stored for the key of c, and one operation more.
Recorded(c, cost) == Append(calls[c.key], [cost |-> cost, n |-> c.n])

\* The fields are changed and written back, then Unlock.
AddStatStore(t) ==
  LET c == call[t] IN
  /\ c.op = "add"
  /\ \E stale \in SUBSET Uses("add") :
       Store(t, Added(Base(c, stale), c.time, c.n), Recorded(c, c.time))
  /\ mutex' = IF isMutex THEN None ELSE mutex

EndStatStore(t) ==
  LET c == call[t] IN
  /\ c.op = "end"
  /\ \E stale \in SUBSET Uses("end") :
       LET base == Base(c, stale)
           cost == Unsigned(c.time - base.begin)
       IN  Store(t, Added(base, cost, c.n), Recorded(c, cost))
  /\ UNCHANGED mutex

AddCountStore(t) ==
  LET c == call[t] IN
  /\ c.op = "count"
  /\ \E stale \in SUBSET Uses("count") :
       Store(t, [Base(c, stale) EXCEPT !.num = @ + c.n], Recorded(c, None))
  /\ UNCHANGED mutex

\* BeginStat marks the time in the item itself.
BeginStatStore(t) ==
  LET k == call[t].key IN
  /\ call[t].op = "begin"
  /\ Store(t, [stat[k] EXCEPT !.begin = now], calls[k])
  /\ UNCHANGED mutex

-----------------------------------------------------------------------------
Clock ==
  /\ \E d \in Costs \ {0} : now + d <= Max(Costs) /\ now' = now + d
  /\ UNCHANGED statVars

\* After an undefined step nothing is said of the program.
Next ==
  /\ ~broken
  /\ \/ \E t \in Threads, k \in Keys :
          \/ \E cost \in Costs : AddStat(t, k, cost, 2)
          \/ BeginStat(t, k) \/ EndStat(t, k, 1) \/ AddCount(t, k, 1) \/ DelStat(t, k)
     \/ \E t \in Threads : FindItem(t) \/ FindNothing(t) \/ EraseItem(t)
     \/ \E t \in Threads : AddStatStore(t) \/ EndStatStore(t) \/ AddCountStore(t) \/ BeginStatStore(t)
     \/ Clock

-----------------------------------------------------------------------------
(* PROPERTIES                                                              *)

\* The table holds, for every key and at every moment, exactly what was stored
\* for it: count, sum, extremes and threshold counts (stater.cpp:100-178).  What
\* BeginStat, EndStat and AddCount do without the mutex (59, 82, 155) takes this
\* away in two ways only.  When two operations that share no lock use a field of
\* one item at once, that item may lose some of what was stored, but it holds
\* nothing that was not.  And when one inserts or erases while another is in the
\* map, or deletes an item another works on, the behaviour is undefined and
\* nothing is claimed from there on.
StatsExact ==
  ~broken => \A k \in Keys :
    LET mine    == calls[k]
        nums    == [i \in DOMAIN mine |-> mine[i].n]
        costs   == [i \in DOMAIN mine |-> mine[i].cost]
        timed   == {i \in DOMAIN mine : costs[i] # None}
        over(j) == SumFunctionOnSet(nums, {i \in timed : costs[i] >= Thresholds[j]})
        item    == stat[k]
    IN  IF item = None THEN mine = <<>>
        ELSE /\ item.num <= SumFunctionOnSet(nums, DOMAIN mine)
             /\ item.min \in {costs[i] : i \in timed} \cup {Hour}
             /\ item.max \in {costs[i] : i \in timed} \cup {0}
             /\ \A j \in 1..3 : item.over[j] <= over(j)
             /\ k \notin torn =>
                  /\ item.num = SumFunctionOnSet(nums, DOMAIN mine)
                  /\ item.total = SumFunctionOnSet(costs, timed)
                  /\ item.min = Min({costs[i] : i \in timed} \cup {Hour})
                  /\ item.max = Max({costs[i] : i \in timed} \cup {0})
                  /\ \A j \in 1..3 : item.over[j] = over(j)
=============================================================================
