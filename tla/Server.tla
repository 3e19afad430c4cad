------------------------------- MODULE Server -------------------------------
(***************************************************************************)
(* The parts a server built on the library runs beside its connections:    *)
(* sessions, load limit, log, statistics, a pipe pair, HTTP, the database  *)
(* and the semaphore.  They share nothing but the clock, so every          *)
(* behaviour moves one of them: part says which.                           *)
(***************************************************************************)
EXTENDS Integers, Sequences

CONSTANTS
  None,                                          \* no session, item, result, ...
  Seqs, Sessions, Gaps, MsPerSec, UsPerMs, SessionTime,            \* NetSession
  GridCount, GridDistant, MaxReqWaterMark, GridTime,               \* NetGrid
  ChangeLine, LineFileNum, HourFileNum, Cycle, MaxLines, LogTime,  \* NetLogger
  Threads, Keys, Costs, Hour, Wrap, Thresholds, MaxCalls,          \* Stater
  PipeCap, MaxSent,                                                \* DupFifo
  Uris, Datas, MaxRequests,                                        \* HttpServer
  MaxQueries, MaxRows,                                             \* Database
  Processes, Tries, MaxInterrupts                                      \* Ipc

VARIABLES
  part, now,
  table, info, owner, sweep, dangling,                      \* Session
  start, last, cells, waterMark, verdict, admitted,         \* Grid
  changeType, open, count, lastTime, cur, old, written, wentBack,  \* Logger
  isMutex, stat, mutex, call, calls, torn, broken,          \* Stats
  held, side, pipe, sent, got,                              \* Fifo
  addr, callbacks, httpd, thread, curl, request, reply, result,  \* Http
  handle, options, dbResult, results, answer, source, fetched,  \* Db
  pc, sem, undo, shmSize, interrupts, underUsers            \* Ipc

Session == INSTANCE NetSession WITH MaxTime <- SessionTime
Grid    == INSTANCE NetGrid WITH MaxTime <- GridTime
Logger  == INSTANCE NetLogger WITH MaxTime <- LogTime
Stats   == INSTANCE Stater
Fifo    == INSTANCE DupFifo
Http    == INSTANCE HttpServer
Db      == INSTANCE Database WITH result <- dbResult
Sem     == INSTANCE Ipc WITH Procs <- Processes

\* The units of time, the bounds and the costs are numbers, and fewer periods
\* are kept than have names of their own: the code keeps 3 hours of 24, days of
\* at least 28 and months of 12 (net_logger.cc:124-180).
ASSUME NumbersAssumption ==
  /\ MsPerSec \in Nat \ {0} /\ UsPerMs \in Nat \ {0} /\ Gaps \subseteq Int
  /\ SessionTime \in Nat /\ GridTime \in Nat /\ LogTime \in Nat
  /\ GridCount \in Nat \ {0, 1} /\ GridDistant \in Nat \ {0} /\ MaxReqWaterMark \in Nat
  /\ ChangeLine \in Nat \ {0} /\ LineFileNum \in Nat \ {0, 1}
  /\ HourFileNum \in Nat \ {0} /\ Cycle \in Nat \ {0} /\ HourFileNum + 1 < Cycle
  /\ Costs \subseteq Nat /\ Hour \in Nat /\ Wrap \in Nat /\ Thresholds \in [1..3 -> Nat]
  /\ MaxQueries \in Nat /\ MaxRows \in Nat

\* Nothing is taken for the absence of it.
ASSUME NoneAssumption ==
  /\ None \notin Seqs \cup Sessions \cup Keys \cup Threads \cup Int
  /\ \A set \in SUBSET (Uris \cup {None}) : set # None
  /\ None \notin [id : Nat, rows : Seq(Nat \X Nat)]
  /\ None \notin [num : Nat, total : Int, max : Int, min : Int, over : [1..3 -> Nat], begin : Int]

sessionVars == <<table, info, owner, sweep, dangling>>
gridVars == <<start, last, cells, waterMark, verdict, admitted>>
logVars == <<changeType, open, count, lastTime, cur, old, written, wentBack>>
statVars == <<isMutex, stat, mutex, call, calls, torn, broken>>
fifoVars == <<held, side, pipe, sent, got>>
httpVars == <<addr, callbacks, httpd, thread, curl, request, reply, result>>
dbVars == <<handle, options, dbResult, results, answer, source, fetched>>
ipcVars == <<pc, sem, undo, shmSize, interrupts, underUsers>>
vars == <<part, now, sessionVars, gridVars, logVars, statVars,
          fifoVars, httpVars, dbVars, ipcVars>>

Parts == {"session", "grid", "logger", "stats", "fifo", "http", "db", "ipc"}

Init ==
  /\ part \in Parts
  /\ Session!Init /\ Grid!Init /\ Logger!Init /\ Stats!Init
  /\ Fifo!Init /\ Http!Init /\ Db!Init /\ Sem!Init
  \* The choices of the parts that do not move make no difference.
  /\ part # "logger" => changeType = "num"
  /\ part # "http" => addr
  /\ part # "stats" => isMutex

\* Every part but one keeps its state.
Next ==
  /\ \/ part = "session" /\ Session!Next
     \/ part = "grid" /\ Grid!Next
     \/ part = "logger" /\ Logger!Next
     \/ part = "stats" /\ Stats!Next
     \/ part = "fifo" /\ Fifo!Next /\ UNCHANGED now
     \/ part = "http" /\ Http!Next /\ UNCHANGED now
     \/ part = "db" /\ Db!Next /\ UNCHANGED now
     \/ part = "ipc" /\ Sem!Next /\ UNCHANGED now
  /\ UNCHANGED part
  /\ part # "session" => UNCHANGED sessionVars
  /\ part # "grid" => UNCHANGED gridVars
  /\ part # "logger" => UNCHANGED logVars
  /\ part # "stats" => UNCHANGED statVars
  /\ part # "fifo" => UNCHANGED fifoVars
  /\ part # "http" => UNCHANGED httpVars
  /\ part # "db" => UNCHANGED dbVars
  /\ part # "ipc" => UNCHANGED ipcVars

Spec == Init /\ [][Next]_vars

-----------------------------------------------------------------------------
(* PROPERTIES                                                              *)

\* CSessionMgr: a session is in the table exactly while the manager owns it.
EachHeldOnce == Session!EachHeldOnce
\* CSessionMgr::CheckExpire: nothing expires early, nothing overdue stays.
ExpiresInTime == Session!ExpiresInTime
\* CNetGrid::check_load: it admits below the water mark and refuses only at it.
LimitExact == Grid!LimitExact
\* CLogger: no rotation, restart or failed reopen loses a line of the files
\* and periods the code keeps.
RecentKept == Logger!RecentKept
\* CStater: the items hold exactly what was stored, but for races of two calls.
StatsExact == Stats!StatsExact
\* CDupFifo: the end of one process reaches the other, after its last byte.
HangUpSeen == Fifo!HangUpSeen
\* CHttpClient: a call that succeeds has its own reply, and all of it.
ReplyIsWhole == Http!ReplyIsWhole
\* CDatabase: rows are those of the last query that got a result set, each once;
\* no result set is leaked.
RowsOfLastQuery == Db!RowsOfLastQuery
\* CShmCache and CSem: the lock survives the death of any process, unless one
\* initialises the memory under the feet of another.
LockSurvives == Sem!LockSurvives
=============================================================================
