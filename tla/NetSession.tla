----------------------------- MODULE NetSession -----------------------------
(***************************************************************************)
(* CSessionMgr (src/net/net_session.cc): requests that wait for an answer, *)
(* found by sequence number, expired by a sweep that calls back into the   *)
(* application.  The application owns a session until Set takes it and     *)
(* again after Get; a swept session is deleted unless it said SetDelete.   *)
(* It may call Set, Get and SetDelete on any session that was not deleted, *)
(* inside OnExpire too, the session and the number being expired included; *)
(* only CheckExpire is not called inside itself.                           *)
(***************************************************************************)
EXTENDS Integers

CONSTANTS
  Seqs,       \* sequence numbers
  Sessions,   \* session objects
  Gaps,       \* timeouts, in milliseconds
  None,
  MsPerSec, UsPerMs,   \* the units of struct timeval, scaled down
  MaxTime              \* bound: the clock, in microseconds

VARIABLES
  table,      \* _mp_timer_info
  info,       \* the fields of every session
  owner,      \* history: who may touch the session
  now,        \* gettimeofday
  sweep,      \* CheckExpire in progress
  dangling    \* history: an iterator or an entry points at what is gone

sessionVars == <<table, info, owner, sweep, dangling>>

Idle == [on |-> FALSE, cur |-> 0, todo |-> {}, at |-> None, set |-> FALSE]
Blank == [last |-> 0, gap |-> 0, del |-> TRUE]

Init ==
  /\ table = [q \in Seqs |-> None]
  /\ info = [s \in Sessions |-> Blank]
  /\ owner = [s \in Sessions |-> "caller"]
  /\ now = 0
  /\ sweep = Idle
  /\ dangling = FALSE

Present == {q \in Seqs : table[q] # None}

\* The application runs between two calls and inside OnExpire.
AppRuns == ~sweep.on \/ sweep.at # None

\* C's division truncates towards zero.
Truncated(a, b) == IF a >= 0 THEN a \div b ELSE -((-a) \div b)
\* Faulty variant: the microseconds of b are not taken off.
TimeDiffMsBorrow(a, b) ==
  LET S == MsPerSec * UsPerMs
  IN  (a \div S - b \div S) * MsPerSec + Truncated(a % S, UsPerMs)

\* TIME_DIFF_MS
TimeDiffMs(a, b) ==
  LET S == MsPerSec * UsPerMs
  IN  (a \div S - b \div S) * MsPerSec + Truncated((a % S) - (b % S), UsPerMs)

Due(s, cur) == TimeDiffMs(cur, info[s].last) > info[s].gap

-----------------------------------------------------------------------------
\* An insertion may rehash the table, which invalidates the iterator of a sweep
\* in progress (line 59); else the sweep may meet the new entry or not.
Insert(q, s) ==
  /\ table' = [table EXCEPT ![q] = s]
  /\ owner' = [owner EXCEPT ![s] = "manager"]
  /\ \E rehash \in BOOLEAN, more \in SUBSET {q} :
       /\ sweep' = IF sweep.on THEN [sweep EXCEPT !.todo = @ \cup more, !.set = TRUE] ELSE sweep
       \* A session with two entries is deleted or handed out through one of them.
       /\ dangling' = \/ sweep.on /\ rehash
                      \/ \E p \in Seqs \ {sweep.at} : table[p] = s

\* Set writes the session's fields before it looks whether the number is free.
Set(q, s, g) ==
  /\ AppRuns /\ owner[s] # "freed"
  /\ info' = [info EXCEPT ![s].last = now, ![s].gap = g]
  /\ \/ table[q] = None /\ Insert(q, s)
     \/ /\ table[q] # None          \* returns -1
        /\ sweep' = [sweep EXCEPT !.set = sweep.on]
        /\ UNCHANGED <<table, owner, dangling>>
  /\ UNCHANGED now

SetDelete(s, del) ==
  /\ AppRuns /\ owner[s] # "freed"
  /\ info' = [info EXCEPT ![s].del = del]
  /\ UNCHANGED <<table, owner, now, sweep, dangling>>

\* Get of the number that is being expired erases the entry under the sweep's
\* iterator; the session that is being expired stays the manager's.
Get(q) ==
  /\ AppRuns /\ table[q] # None
  /\ owner' = [owner EXCEPT ![table[q]] =
                 IF sweep.at # None /\ table[sweep.at] = table[q] THEN "manager" ELSE "caller"]
  /\ table' = [table EXCEPT ![q] = None]
  /\ sweep' = [sweep EXCEPT !.todo = @ \ {q}]
  /\ dangling' = (q = sweep.at)
  /\ UNCHANGED <<info, now>>

\* The application deletes a session it owns and makes a new one.
Renew(s) ==
  /\ AppRuns /\ owner[s] \in {"caller", "freed"} /\ info[s] # Blank
  /\ owner' = [owner EXCEPT ![s] = "caller"]
  /\ info' = [info EXCEPT ![s] = Blank]
  /\ UNCHANGED <<table, now, sweep, dangling>>

CheckExpire ==
  /\ ~sweep.on /\ Present # {}
  /\ sweep' = [Idle EXCEPT !.on = TRUE, !.cur = now, !.todo = Present]
  /\ UNCHANGED <<table, info, owner, now, dangling>>

SweepKeeps(q) ==
  /\ sweep.on /\ sweep.at = None /\ q \in sweep.todo
  /\ ~Due(table[q], sweep.cur)
  /\ sweep' = [sweep EXCEPT !.todo = @ \ {q}]
  /\ UNCHANGED <<table, info, owner, now, dangling>>

SweepExpires(q) ==
  /\ sweep.on /\ sweep.at = None /\ q \in sweep.todo
  /\ Due(table[q], sweep.cur)
  /\ sweep' = [sweep EXCEPT !.at = q]
  /\ UNCHANGED <<table, info, owner, now, dangling>>

\* What is left to visit after the entry is erased.
AfterErase(q) == sweep.todo \ {q}

\* Line 54: the session is deleted if it did not say otherwise, and else it is
\* its caller's again unless it was set anew.
Expired(s) ==
  LET kept == \E q \in Seqs \ {sweep.at} : table[q] = s
  IN  /\ owner' = [owner EXCEPT ![s] = IF info[s].del THEN "freed" ELSE IF kept THEN @ ELSE "caller"]
      /\ dangling' = (info[s].del /\ kept)
      /\ UNCHANGED <<info, now>>

\* Faulty variant: the entry is deleted but not erased.
SweepErasesNot ==
  /\ sweep.at # None
  /\ Expired(table[sweep.at])
  /\ UNCHANGED table
  /\ sweep' = [sweep EXCEPT !.todo = AfterErase(sweep.at), !.at = None]

\* OnExpire has returned: lines 54-59.
SweepErases ==
  /\ sweep.at # None
  /\ Expired(table[sweep.at])
  /\ table' = [table EXCEPT ![sweep.at] = None]
  /\ sweep' = [sweep EXCEPT !.todo = AfterErase(sweep.at), !.at = None]

SweepEnds ==
  /\ sweep.on /\ sweep.todo = {}
  /\ sweep' = Idle
  /\ UNCHANGED <<table, info, owner, now, dangling>>

\* gettimeofday is not monotonic.
Clock ==
  /\ now' \in (0..MaxTime) \ {now}
  /\ UNCHANGED sessionVars

\* After a dangling pointer nothing is said of the program.
Next ==
  /\ ~dangling
  /\ \/ \E q \in Seqs : Get(q) \/ SweepKeeps(q) \/ SweepExpires(q)
     \/ \E q \in Seqs, s \in Sessions, g \in Gaps : Set(q, s, g)
     \/ \E s \in Sessions, del \in BOOLEAN : SetDelete(s, del)
     \/ \E s \in Sessions : Renew(s)
     \/ CheckExpire \/ SweepErases \/ SweepEnds \/ Clock

Spec == Init /\ [][Next]_<<sessionVars, now>>

-----------------------------------------------------------------------------
(* PROPERTIES                                                              *)

\* Every session the manager has taken is in the table under exactly one
\* number (two while it expires after it was set again), and one that was
\* deleted or handed back is not: none is leaked, none is deleted twice.  This
\* holds until one of four things happens, after which nothing is claimed: a
\* session is put under a second number, outside its own OnExpire; it is set
\* again inside it without SetDelete(false); Get takes the very number that is
\* being expired; or a Set inside OnExpire makes the table rehash, which line
\* 59 does not survive.
EachHeldOnce ==
  ~dangling => \A s \in Sessions :
    LET held == {q \in Seqs \ {sweep.at} : table[q] = s}
    IN  IF owner[s] = "manager"
        THEN \/ \E q \in Seqs : held = {q}
             \/ held = {} /\ sweep.at # None /\ table[sweep.at] = s
        ELSE held = {}

\* A session expires only when more than its gap has passed on the clock since
\* the last Set, one that returned -1 included, to the microsecond, though
\* TIME_DIFF_MS truncates; and a sweep during which nothing was set leaves
\* nothing behind that was a millisecond over it.
ExpiresInTime ==
  [][LET elapsed(s) == sweep.cur - info[s].last
     IN  /\ sweep.at = None /\ sweep'.at # None =>
              LET s == table[sweep'.at] IN elapsed(s) > info[s].gap * UsPerMs
         /\ sweep.on /\ ~sweep'.on /\ ~sweep.set =>
              \A q \in Present : elapsed(table[q]) < (info[table[q]].gap + 1) * UsPerMs]_sessionVars
=============================================================================
