------------------------------ MODULE TimeTick ------------------------------
(***************************************************************************)
(* TimeTick and TimeCounter (src/utils/datetime.cpp).  A tick is a record  *)
(* of m_sec and m_usec; the units are constants, to be scaled down.  One   *)
(* object is set, added to, subtracted from and negated again and again.   *)
(***************************************************************************)
EXTENDS Integers

CONSTANTS
  PerSecond, PerMilli, Minute, Hour, Day,
  MaxSec, MaxUsec    \* bounds: seconds of a tick, microseconds it is made with

VARIABLES
  tick,      \* the object
  total      \* history: the microseconds it should stand for

tickVars == <<tick, total>>

Secs == -MaxSec..MaxSec
Usecs == -MaxUsec..MaxUsec

ASSUME UnitsAssumption ==
  /\ PerSecond \in Nat \ {0} /\ PerMilli \in Nat \ {0}
  /\ Minute \in Nat \ {0} /\ Hour \in Nat \ {0} /\ Day \in Nat \ {0}
  /\ Hour % Minute = 0 /\ Day % Hour = 0
  /\ MaxSec \in Nat /\ MaxUsec \in Nat

\* C's division and remainder truncate towards zero.
Quot(a, b) == IF a >= 0 THEN a \div b ELSE -((-a) \div b)
Rem(a, b) == a - b * Quot(a, b)

IsNormalized(t) ==
  \/ t.sec >= 0 /\ t.usec \in 0..(PerSecond - 1)
  \/ t.sec <= 0 /\ t.usec \in (1 - PerSecond)..0

\* Faulty variant: only for a positive second.
BorrowOneWay(t) ==
  IF t.sec > 0 /\ t.usec < 0 THEN [sec |-> t.sec - 1, usec |-> t.usec + PerSecond]
  ELSE t

\* One second is lent when the signs differ after the carry.
Borrow(t) ==
  IF t.sec > 0 /\ t.usec < 0 THEN [sec |-> t.sec - 1, usec |-> t.usec + PerSecond]
  ELSE IF t.sec < 0 /\ t.usec > 0 THEN [sec |-> t.sec + 1, usec |-> t.usec - PerSecond]
  ELSE t
Normalize(t) ==
  IF IsNormalized(t) THEN t
  ELSE Borrow([sec |-> t.sec + Quot(t.usec, PerSecond), usec |-> Rem(t.usec, PerSecond)])

Tick(sec, usec) == Normalize([sec |-> sec, usec |-> usec])
Plus(t, u) == Tick(t.sec + u.sec, t.usec + u.usec)
Minus(t, u) == Tick(t.sec - u.sec, t.usec - u.usec)
Negative(t) == [sec |-> -t.sec, usec |-> -t.usec]

Greater(t, u) == t.sec > u.sec \/ (t.sec = u.sec /\ t.usec > u.usec)
Less(t, u) == t.sec < u.sec \/ (t.sec = u.sec /\ t.usec < u.usec)
GreaterEqual(t, u) == t.sec >= u.sec \/ (t.sec = u.sec /\ t.usec >= u.usec)
LessEqual(t, u) == t.sec <= u.sec \/ (t.sec = u.sec /\ t.usec <= u.usec)
Equal(t, u) == t.sec = u.sec /\ t.usec = u.usec
NotEqual(t, u) == t.sec # u.sec /\ t.usec # u.usec

GetDays(t) == Quot(t.sec, Day)
GetHours(t) == Quot(Rem(t.sec, Day), Hour)
GetMinutes(t) == Quot(Rem(t.sec, Hour), Minute)
GetSeconds(t) == Rem(t.sec, Minute)
GetMilliSeconds(t) == Quot(t.usec, PerMilli)
GetMicroSeconds(t) == Rem(t.usec, PerMilli)
GetTotalMicroSeconds(t) == t.sec * PerSecond + t.usec

\* TimeCounter: what Pause measures between Reset and now.
Pause(start, now) == Minus(now, start)

-----------------------------------------------------------------------------
TickInit == tick = Tick(0, 0) /\ total = 0

\* What is made of the object and a tick of sec and usec.
Became(t, n) == t.sec \in Secs /\ tick' = t /\ total' = n
Assign(sec, usec) == Became(Tick(sec, usec), sec * PerSecond + usec)
Add(sec, usec) == Became(Plus(tick, Tick(sec, usec)), total + (sec * PerSecond + usec))
Subtract(sec, usec) == Became(Minus(tick, Tick(sec, usec)), total - (sec * PerSecond + usec))
Negate == Became(Negative(tick), -total)

TickNext ==
  \/ \E sec \in Secs, usec \in Usecs : Assign(sec, usec) \/ Add(sec, usec) \/ Subtract(sec, usec)
  \/ Negate

TickSpec == TickInit /\ [][TickNext]_tickVars

-----------------------------------------------------------------------------
(* PROPERTIES                                                              *)

\* Ticks are the numbers of microseconds they stand for: whatever is added and
\* subtracted, the number is right and both parts have one sign, < > and == are
\* those of the numbers, <= and >= never deny what holds (of two ticks in one
\* second both hold, and != does not), and the parts put together are the tick
\* again (TimeTick).
TicksExact ==
  LET Micro(x) == GetTotalMicroSeconds(x)
  IN  /\ Micro(tick) = total /\ IsNormalized(tick)
      /\ tick.sec = Day * GetDays(tick) + Hour * GetHours(tick) + Minute * GetMinutes(tick) + GetSeconds(tick)
      /\ tick.usec = PerMilli * GetMilliSeconds(tick) + GetMicroSeconds(tick)
      /\ \A sec \in Secs, usec \in Usecs :
           LET u == Tick(sec, usec)
           IN  /\ Micro(u) = sec * PerSecond + usec
               /\ Pause(u, tick) = Plus(tick, Negative(u))
               /\ Less(tick, u) <=> total < Micro(u)
               /\ ~Less(tick, u) => GreaterEqual(tick, u)
               /\ Greater(tick, u) <=> Less(u, tick)
               /\ ~Greater(tick, u) => LessEqual(tick, u)
               /\ Equal(tick, u) <=> total = Micro(u)
=============================================================================
