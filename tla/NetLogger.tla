------------------------------ MODULE NetLogger ------------------------------
(***************************************************************************)
(* CLogger (src/net/net_logger.cc): a log file that is renamed after a     *)
(* number of lines, or when the hour, day or month of the clock changes,   *)
(* and whose oldest file is removed.  Log holds m_mutex from the first     *)
(* change to the last, so a call is one step.                              *)
(***************************************************************************)
EXTENDS Integers, SequencesExt

CONSTANTS
  ChangeLine, LineFileNum,   \* kChangeLine, kChangeLineFileNum
  HourFileNum,               \* kChangeHourFileNum, 3: DeleteHistory takes it for days and months too
  Cycle,                     \* 24 hours, the days of a month or 12 months
  MaxLines, MaxTime          \* bounds: lines written, periods that pass

VARIABLES
  changeType,  \* m_change_type
  open,        \* m_fd >= 0
  count,       \* m_count
  lastTime,    \* m_last_time, in periods of the type
  now,         \* time, in periods of the type
  cur,         \* the lines of the file m_path
  old,         \* the lines of m_path.<suffix>; <<>>: there is no such file
  written,     \* history: lines written
  wentBack     \* history: the clock has gone back to an earlier period

logVars == <<changeType, open, count, lastTime, cur, old, written, wentBack>>

Suffix == IF changeType = "num" THEN 1..(LineFileNum - 1) ELSE 0..MaxTime

Init ==
  /\ changeType \in {"num", "hour", "day", "month"}
  /\ open = TRUE /\ count = 0
  /\ now = 0 /\ lastTime = 0
  /\ cur = <<>> /\ old = [i \in Suffix |-> <<>>]
  /\ written = <<>> /\ wentBack = FALSE

-----------------------------------------------------------------------------
\* Faulty variant: the oldest file stays, the one before it is overwritten.
ShiftedOver ==
  LET source(i) == IF i = 1 THEN cur ELSE old[i]
  IN  [i \in Suffix |-> IF source(i) = <<>> /\ i = LineFileNum - 1 THEN old[i] ELSE source(i)]

\* ChangeNum: file i-1 becomes file i, from the last to the first.  A rename
\* whose source is missing changes nothing.
Shifted ==
  LET source(i) == IF i = 1 THEN cur ELSE old[i - 1]
  IN  [i \in Suffix |-> IF source(i) = <<>> /\ i = LineFileNum - 1 THEN old[i] ELSE source(i)]

NumChanges == changeType = "num" /\ (count + 1) % ChangeLine = 0
\* Only the field of the period's own name is compared.
TimeChanges == changeType # "num" /\ lastTime % Cycle # now % Cycle

\* The periods DeleteHistory may name: three months are taken as 90 days.
Expired == IF changeType = "month" THEN (now - HourFileNum - 1)..(now - HourFileNum + 1)
                                   ELSE {now - HourFileNum}

\* The files once the current one is renamed after m_last_time and the one
\* HourFileNum periods ago removed.
Dated(expired) ==
  [i \in Suffix |-> IF i = expired THEN <<>> ELSE IF i = lastTime THEN cur ELSE old[i]]

\* The open of the new file may fail; the descriptor is -1 from then on.
Rotate(files, t) ==
  /\ old' = files /\ lastTime' = t
  /\ LET line == [id |-> Len(written) + 1, at |-> now]
     IN  \/ open' = TRUE /\ cur' = <<line>> /\ written' = Append(written, line)
         \/ open' = FALSE /\ cur' = <<>> /\ UNCHANGED written

Log ==
  /\ open /\ Len(written) < MaxLines
  /\ count' = count + 1
  /\ \/ NumChanges /\ Rotate(Shifted, lastTime)
     \/ TimeChanges /\ \E expired \in Expired : Rotate(Dated(expired), now)
     \/ /\ ~NumChanges /\ ~TimeChanges
        /\ LET line == [id |-> Len(written) + 1, at |-> now]
           IN  cur' = Append(cur, line) /\ written' = Append(written, line)
        /\ UNCHANGED <<open, lastTime, old>>
  /\ UNCHANGED <<changeType, now, wentBack>>

\* The process ends and another opens the same path, appending.
Restart ==
  /\ open' = TRUE /\ count' = 0 /\ lastTime' = now
  /\ UNCHANGED <<changeType, now, cur, old, written, wentBack>>

\* The clock of the machine may be set back; once is enough for nothing more to
\* be said of dated files, and numbered ones do not look at it.
Clock ==
  /\ now' \in {now - 1, now + 1} \cap (0..MaxTime)
  /\ now' < now => ~wentBack /\ changeType # "num"
  /\ wentBack' = (wentBack \/ now' < now)
  /\ UNCHANGED <<changeType, open, count, lastTime, cur, old, written>>

Next == Log \/ Restart \/ Clock

-----------------------------------------------------------------------------
(* PROPERTIES                                                              *)

\* The lines that must still be there: of numbered files, those of all full
\* files but the current one; of dated files, those of the last HourFileNum
\* periods (a month of 31 days is longer than the 30 that DeleteHistory takes).
\* That is what the code keeps, 3 periods of any kind, and not what the header
\* says, 48 hours, 10 days and 10 months (net_logger.h:41-43): days and months
\* have constants of their own that nothing uses.
Recent ==
  IF changeType = "num"
  THEN {line \in ToSet(written) : line.id > Len(written) - (LineFileNum - 1) * (ChangeLine - 1)}
  ELSE {line \in ToSet(written) : line.at > now - HourFileNum + (IF changeType = "month" THEN 1 ELSE 0)}

Kept == ToSet(cur) \cup UNION {ToSet(old[i]) : i \in Suffix}

InOrder(s) == \A i, j \in DOMAIN s : i < j => s[i].id < s[j].id

\* Renaming, removing, a restart in the middle of a file and a reopen that fails
\* lose no recent line, and no file mixes up the order of its lines.  Of dated
\* files this holds until the clock goes back to an earlier period: then a file
\* is given the name of one that is there, which is lost.
RecentKept ==
  /\ changeType = "num" \/ ~wentBack => Recent \subseteq Kept
  /\ InOrder(cur) /\ \A i \in Suffix : InOrder(old[i])
=============================================================================
