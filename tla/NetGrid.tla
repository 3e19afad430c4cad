------------------------------- MODULE NetGrid -------------------------------
(***************************************************************************)
(* CLoadGrid (src/net/net_grid.h): a sliding window of grid_count cells of *)
(* grid_distant milliseconds; requests are admitted while fewer than the   *)
(* water mark lie in the window.  The template, as it stands, is compiled  *)
(* by nothing in the repository; the model follows its text.               *)
(***************************************************************************)
EXTENDS Integers, Functions

CONSTANTS
  GridCount, GridDistant, MaxReqWaterMark,   \* the constructor's arguments
  MaxTime                                    \* bound: the clock, in milliseconds

VARIABLES
  now,         \* gettimeofday
  start,       \* _start_time
  last,        \* _virtual_last_grid
  cells,       \* _grid_array
  waterMark,   \* _req_water_mark
  verdict,     \* what check_load returned
  admitted     \* history: requests admitted at each time, since the last reset

gridVars == <<start, last, cells, waterMark, verdict, admitted>>

Time == 0..MaxTime
Cells == 0..(GridCount - 1)
NoCell == [i \in Cells |-> 0]
NoTime == [t \in Time |-> 0]

Init ==
  /\ now \in Time
  /\ start = now /\ last = 0
  /\ cells = NoCell /\ waterMark = 0
  /\ verdict = "none"
  /\ admitted = NoTime

-----------------------------------------------------------------------------
\* The clock was set back before the start: reset!, returning 0, which is
\* LR_NORMAL, without counting the request.
CheckLoadResets ==
  /\ now < start
  /\ start' = now /\ last' = 0
  /\ cells' = NoCell /\ waterMark' = 0
  /\ verdict' = "reset" /\ admitted' = NoTime
  /\ UNCHANGED now

VirtualGrid == (now - start) \div GridDistant

\* The cells the window has moved over.  The difference is unsigned: a clock
\* that steps back, though not before the start, spans them all.
Spanned ==
  LET span == VirtualGrid - last
      n == IF span < 0 \/ span > GridCount THEN GridCount ELSE span
  IN  {(VirtualGrid - i + GridCount) % GridCount : i \in 0..(n - 1)}

\* Faulty variant: only the cell it moves to leaves the sum.
MarkAfterLate(cleared) == waterMark - SumFunctionOnSet(cells, cleared \cap {VirtualGrid % GridCount})

\* _req_water_mark after the loop has subtracted the cells it clears.
MarkAfter(cleared) == waterMark - SumFunctionOnSet(cells, cleared)

CheckLoad ==
  /\ now >= start
  /\ last' = VirtualGrid
  /\ LET cleared == [i \in Cells |-> IF i \in Spanned THEN 0 ELSE cells[i]]
         mark == MarkAfter(Spanned)
         full == mark + 1 >= MaxReqWaterMark
         history == IF VirtualGrid < last THEN NoTime ELSE admitted
     IN  /\ verdict' = IF full THEN "full" ELSE "normal"
         /\ cells' = IF full THEN cleared ELSE [cleared EXCEPT ![VirtualGrid % GridCount] = @ + 1]
         /\ waterMark' = IF full THEN mark ELSE mark + 1
         /\ admitted' = IF full THEN history ELSE [history EXCEPT ![now] = @ + 1]
  /\ UNCHANGED <<now, start>>

\* set_full: the caller found the server overloaded.  For the history it is as
\* if a full load had been admitted now.
SetFull ==
  /\ start' = now /\ last' = 0
  /\ cells' = [NoCell EXCEPT ![GridCount - 1] = MaxReqWaterMark]
  /\ waterMark' = MaxReqWaterMark
  /\ verdict' = "set" /\ admitted' = [NoTime EXCEPT ![now] = MaxReqWaterMark]
  /\ UNCHANGED now

Clock == now' \in Time /\ UNCHANGED gridVars

Next == CheckLoadResets \/ CheckLoad \/ SetFull \/ Clock

-----------------------------------------------------------------------------
(* PROPERTIES                                                              *)

\* Requests admitted in the last ms milliseconds.
InWindow(history, ms) == SumFunctionOnSet(history, {t \in Time : t > now - ms})

\* A request is admitted only if it and those admitted in the whole cells
\* before it stay under the water mark, and refused only if the window with the
\* cell it begins in is full: the sum that is carried from cell to cell, over
\* idle periods, wraps and overloads, stays the number of requests it stands
\* for, and what set_full puts in the last cell leaves with it (check_load).
LimitExact ==
  [][/\ verdict' = "normal" =>
          InWindow(admitted', (GridCount - 1) * GridDistant) < MaxReqWaterMark
     /\ verdict' = "full" =>
          InWindow(admitted', GridCount * GridDistant) >= MaxReqWaterMark - 1]_gridVars
=============================================================================
