----------------------------- MODULE ExternSort -----------------------------
(***************************************************************************)
(* CBaseExternSort (src/utils/extern_sort.cpp): items are read through     *)
(* GetItem, sorted in runs of m_sort_num into files, and the files merged  *)
(* into SetItem, the highest rank first.                                   *)
(***************************************************************************)
EXTENDS Integers, FiniteSets, SequencesExt

CONSTANTS
  Ranks, Names,      \* an item is a rank and a name
  SortNum,           \* m_sort_num
  MaxItems           \* bound: items the derived class delivers

\* A rank is a double in the code; only the order of the ranks matters.
ASSUME RanksAssumption == Ranks \subseteq Int

VARIABLES
  phase,     \* "memory", "merge", "done", "failed" or "broken"
  taken,     \* history: what GetItem has delivered
  mem,       \* m_sort_item
  files,     \* the temporary files; when merging, what is unread of them
  heads,     \* vect_rank and vect_item
  open,      \* fp_list: the files that are not closed
  max,       \* max_index and max_rank
  out        \* history: what SetItem was given

sortVars == <<phase, taken, mem, files, heads, open, max, out>>

Items == [rank : Ranks, name : Names]

Init ==
  /\ phase = "memory"
  /\ taken = <<>> /\ mem = <<>> /\ files = <<>> /\ out = <<>>
  /\ heads = <<>> /\ open = {} /\ max = [index |-> 1, rank |-> 0]

-----------------------------------------------------------------------------
\* std::sort is not stable: any order of the items of one rank.
Orders(s) ==
  {r \in {[i \in DOMAIN s |-> s[q[i]]] : q \in {q \in [DOMAIN s -> DOMAIN s] : ToSet(q) = DOMAIN s}} :
     \A i \in 1..(Len(s) - 1) : r[i].rank >= r[i + 1].rank}

\* fwrite of an empty name writes no item, which is taken for an error; the
\* part of the file before it stays behind.
Written(items) ==
  \E run \in Orders(items) :
    LET bad == {i \in DOMAIN run : run[i].name = ""}
    IN  /\ files' = Append(files, IF bad = {} THEN run ELSE SubSeq(run, 1, Min(bad) - 1))
        /\ IF bad = {} THEN mem' = <<>> /\ UNCHANGED phase ELSE phase' = "failed" /\ mem' = items
\* So it does when fopen or an fwrite really fails; fclose and what it flushes do
\* not fail.
BrokenOff(items) ==
  /\ phase' = "broken" /\ mem' = items
  /\ \E run \in Orders(items), n \in 0..(Len(items) - 1) : files' = Append(files, SubSeq(run, 1, n))
WriteRun(items) == Written(items) \/ BrokenOff(items)

TakeItem(item) ==
  /\ phase = "memory" /\ Len(taken) < MaxItems
  /\ taken' = Append(taken, item)
  /\ IF Len(taken') % SortNum # 0
     THEN mem' = Append(mem, item) /\ UNCHANGED <<phase, files>>
     ELSE WriteRun(Append(mem, item))
  /\ UNCHANGED <<heads, open, max, out>>

\* GetItem has no more: the rest is a run of its own.
LastRun ==
  /\ phase = "memory" /\ mem # <<>>
  /\ WriteRun(mem)
  /\ UNCHANGED <<taken, heads, open, max, out>>

\* The first item of every file.  Without any item there is no file, and
\* vect_rank[0] does not exist.
MergeOpen ==
  /\ phase = "memory" /\ mem = <<>> /\ files # <<>>
  /\ phase' = "merge"
  /\ heads' = [i \in DOMAIN files |-> files[i][1]]
  /\ files' = [i \in DOMAIN files |-> Tail(files[i])]
  /\ open' = DOMAIN files
  /\ max' = [index |-> 1, rank |-> files[1][1].rank]
  /\ UNCHANGED <<taken, mem, out>>

\* The scan stops at the first of the highest ranks above max_rank; without one
\* the file last read stays.
Higher == {i \in open : heads[i].rank > max.rank}
Best ==
  IF Higher = {} THEN max.index
  ELSE Min({i \in Higher : \A j \in Higher : heads[j].rank <= heads[i].rank})

\* Faulty variant: the rank is that of the first file.
RestartStale(rest) == LET j == Min(rest) IN [index |-> j, rank |-> heads[1].rank]

\* After a file has ended the scan starts at the first that is open.
Restart(rest) == LET j == Min(rest) IN [index |-> j, rank |-> heads[j].rank]

MergeStep ==
  /\ phase = "merge"
  /\ LET b == Best
         rest == open \ {b}
     IN  /\ out' = Append(out, heads[b])
         /\ IF files[b] # <<>>
            THEN /\ heads' = [heads EXCEPT ![b] = Head(files[b])]
                 /\ files' = [files EXCEPT ![b] = Tail(@)]
                 /\ max' = [index |-> b, rank |-> Head(files[b]).rank]
                 /\ UNCHANGED <<open, phase>>
            ELSE /\ open' = rest
                 /\ IF rest = {} THEN phase' = "done" /\ UNCHANGED max ELSE max' = Restart(rest) /\ UNCHANGED phase
                 /\ UNCHANGED <<heads, files>>
  /\ UNCHANGED <<taken, mem>>

Next == (\E item \in Items : TakeItem(item)) \/ LastRun \/ MergeOpen \/ MergeStep

Spec == Init /\ [][Next]_sortVars

-----------------------------------------------------------------------------
(* PROPERTIES                                                              *)

\* How often an item is in a sequence.
Copies(s, item) == Cardinality({i \in DOMAIN s : s[i] = item})

\* Sort gives SetItem everything GetItem delivered, each item once, the highest
\* rank first, however the runs fall and in whatever order the files end; it
\* fails only when an item has an empty name or a file cannot be written, and
\* then before SetItem is given anything (Sort).
Sorts ==
  /\ \A i \in 1..(Len(out) - 1) : out[i].rank >= out[i + 1].rank
  /\ phase = "done" => \A item \in Items : Copies(out, item) = Copies(taken, item)
  /\ phase = "failed" => \E i \in DOMAIN taken : taken[i].name = ""
  /\ phase \in {"failed", "broken"} => out = <<>>
=============================================================================
