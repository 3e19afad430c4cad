------------------------------ MODULE Database ------------------------------
(***************************************************************************)
(* CDatabase (src/db/database.cc): one connection to MySQL and the result  *)
(* set of its last query.  The client library and the server are external. *)
(***************************************************************************)
EXTENDS Integers, FiniteSets, Sequences

CONSTANTS
  None,
  MaxQueries,   \* bound: queries made
  MaxRows       \* bound: rows of a result set

VARIABLES
  handle,       \* m_handle: "fresh" before Connect, "up", or "lost" by the server;
                \* "crashed" when the process is no more
  options,      \* the handle carries the timeout and reconnect options of Init
  result,       \* m_result: the query it belongs to and the rows left, or None
  results,      \* the result sets allocated by the library and not freed
  answer,       \* the last DoQuery: its number and its value
  source,       \* history: the last query that got as far as m_result, its number and rows
  fetched       \* history: rows GetRecord has returned since that one

dbVars == <<handle, options, result, results, answer, source, fetched>>

Init ==
  /\ handle = "fresh" /\ options = TRUE
  /\ result = None /\ results = {}
  /\ answer = [id |-> 0, ok |-> FALSE]
  /\ source = [id |-> 0, rows |-> 0] /\ fetched = <<>>

-----------------------------------------------------------------------------
Connect ==
  /\ handle' \in {"up", "lost"}
  /\ handle # "up"
  /\ UNCHANGED <<options, result, results, answer, source, fetched>>

\* ReConnect makes a new handle, without the options Init has set; a result set
\* is not part of the handle and stays.
ReConnect ==
  /\ handle' \in {"up", "lost"}
  /\ options' = FALSE
  /\ UNCHANGED <<result, results, answer, source, fetched>>

ServerGone ==
  /\ handle = "up" /\ handle' = "lost"
  /\ UNCHANGED <<options, result, results, answer, source, fetched>>

\* Ping, and every query, reconnects if the option is set.
Ping ==
  /\ handle = "lost" /\ options /\ handle' = "up"
  /\ UNCHANGED <<options, result, results, answer, source, fetched>>

\* Faulty variant: the previous result set is not freed.
FreedNever == results

\* What is left of the previous result set when mysql_store_result is called.
Freed == results \ {result}

\* mysql_query fails: the previous result set stays where it is.
QueryFails ==
  /\ answer.id < MaxQueries
  /\ answer' = [id |-> answer.id + 1, ok |-> FALSE]
  /\ UNCHANGED <<handle, options, result, results, source, fetched>>

\* m_result is replaced: what GetRecord returns from now on is the query's.
Replaced(ok, n) ==
  /\ answer' = [id |-> answer.id + 1, ok |-> ok]
  /\ source' = [id |-> answer.id + 1, rows |-> n]
  /\ fetched' = <<>>
  /\ UNCHANGED <<handle, options>>

\* mysql_query succeeds and matches n rows.  mysql_store_result returns NULL for
\* an update, and when it fails, which the field count tells apart.
QueryStores(n) ==
  /\ handle = "up" /\ answer.id < MaxQueries
  /\ LET id == answer.id + 1
         set == [id |-> id, rows |-> [i \in 1..n |-> <<id, i>>]]
     IN  result' = set /\ results' = Freed \cup {set}
  /\ Replaced(TRUE, n)

QueryUpdates(ok) ==
  /\ handle = "up" /\ answer.id < MaxQueries
  /\ result' = None /\ results' = Freed
  /\ Replaced(ok, 0)

\* Whatever DoQuery returned.  After the last row there is none.
GetRecord ==
  /\ result # None /\ result.rows # <<>>
  /\ LET rest == [result EXCEPT !.rows = Tail(@)]
     IN  result' = rest /\ results' = (results \ {result}) \cup {rest}
  /\ fetched' = Append(fetched, Head(result.rows))
  /\ UNCHANGED <<handle, options, answer, source>>

\* Without a result set the library is given a null pointer to read from.
GetRecordOfNone ==
  /\ result = None /\ handle' = "crashed"
  /\ UNCHANGED <<options, result, results, answer, source, fetched>>

Next ==
  /\ handle # "crashed"
  /\ \/ Connect \/ ReConnect \/ ServerGone \/ Ping
     \/ QueryFails \/ GetRecord \/ GetRecordOfNone
     \/ \E n \in 0..MaxRows : QueryStores(n)
     \/ \E ok \in BOOLEAN : QueryUpdates(ok)

Spec == Init /\ [][Next]_dbVars

-----------------------------------------------------------------------------
(* PROPERTIES                                                              *)

\* Across failures, reconnects and queries abandoned half read, GetRecord gives
\* the rows of one query, each once and in order, and exactly one result set is
\* kept: none is leaked and none freed twice (DoQuery, GetRecord).  The query is
\* the last one if that succeeded; after one that failed in mysql_query it is an
\* earlier one, whose remaining rows GetRecord goes on to give as if nothing had
\* happened.
RowsOfLastQuery ==
  /\ results = IF result = None THEN {} ELSE {result}
  /\ \A i \in DOMAIN fetched : fetched[i] = <<source.id, i>>
  /\ Len(fetched) + (IF result = None THEN 0 ELSE Len(result.rows)) = source.rows
  /\ answer.ok => source.id = answer.id
=============================================================================
