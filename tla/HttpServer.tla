----------------------------- MODULE HttpServer -----------------------------
(***************************************************************************)
(* HttpServer (src/net/http_server.cc), which hands requests to callbacks  *)
(* on a thread that runs libevent, and CHttpClient (src/net/http_client.cc)*)
(* , which asks it through one curl handle and collects the reply in the   *)
(* pieces curl delivers.  libevent, curl and the network are external.     *)
(***************************************************************************)
EXTENDS Integers, Sequences

CONSTANTS
  Uris, Datas, None,
  MaxRequests      \* bound: requests of the client

VARIABLES
  addr,            \* m_http_addr and m_http_port are set
  callbacks,       \* m_callback_set and, under None, the default callback
  httpd,           \* m_httpd: the callbacks it was given, or None
  thread,          \* the thread in event_dispatch runs
  curl,            \* what the options of the handle say: POST and its data
  request,         \* the call in progress, or None
  reply,           \* what is still to come of the reply
  result           \* the last call: what it asked, its value, the text in res

serverVars == <<addr, callbacks, httpd, thread>>
clientVars == <<curl, request, reply, result>>

NoReply == <<"refused">>

Init ==
  /\ addr \in BOOLEAN
  /\ callbacks = {} /\ httpd = None /\ thread = FALSE
  /\ curl = [post |-> FALSE, data |-> None]
  /\ request = None /\ reply = <<>> /\ result = None

Requests == IF result = None THEN 0 ELSE result.count

-----------------------------------------------------------------------------
SetAddr == addr' = TRUE /\ UNCHANGED <<callbacks, httpd, thread, clientVars>>

\* AddHttpCallback and SetDefaultHttpCallback (None): what Start has not seen
\* never takes effect.
AddHttpCallback(u) ==
  /\ callbacks' = callbacks \cup {u}
  /\ UNCHANGED <<addr, httpd, thread, clientVars>>

\* Start: once; the socket may be taken and the thread may not start.  A server
\* whose thread did not start keeps m_httpd, and its socket, for good.
Start ==
  /\ httpd = None /\ addr
  /\ httpd' = callbacks
  /\ thread' \in BOOLEAN
  /\ UNCHANGED <<addr, callbacks, clientVars>>

\* event_dispatch returns; the thread frees the server.
WorkEnds == thread /\ thread' = FALSE /\ UNCHANGED <<addr, callbacks, httpd, clientVars>>

\* The callback libevent picks; GenericHandler where none was set.
Handler(u) ==
  IF u \in httpd THEN u ELSE IF None \in httpd THEN "default" ELSE "generic"

\* HttpRequest keeps the body of a POST; a callback replies with what it saw,
\* in two pieces.
Answer(req) ==
  IF thread THEN <<Handler(req.uri), IF curl'.post THEN curl'.data ELSE None>> ELSE NoReply

\* Get and Post clear res and set the options of the handle; Get leaves those
\* that an earlier Post has set.
Ask(req) ==
  /\ request = None /\ Requests < MaxRequests
  /\ curl' = IF req.data = None THEN curl ELSE [post |-> TRUE, data |-> req.data]
  /\ request' = [uri |-> req.uri, data |-> req.data, res |-> <<>>]
  /\ reply' = Answer(req)
  /\ UNCHANGED <<result, serverVars>>

\* Faulty variant: replaces what was there.
AppendedLast(res, piece) == <<piece>>

\* OnWriteData appends a piece.
Appended(res, piece) == Append(res, piece)

OnWriteData ==
  /\ request # None /\ reply # <<>> /\ reply # NoReply
  /\ request' = [request EXCEPT !.res = Appended(@, Head(reply))]
  /\ reply' = Tail(reply)
  /\ UNCHANGED <<curl, result, serverVars>>

Return(ok) ==
  /\ result' = [uri |-> request.uri, data |-> request.data, res |-> request.res,
                ok |-> ok, posted |-> curl.post, count |-> Requests + 1]
  /\ request' = None /\ reply' = <<>>
  /\ UNCHANGED <<curl, serverVars>>

\* curl_easy_perform returns 0 after the last piece, or fails: refused, reset or
\* after m_timeout, with a part of the reply in res.
PerformSucceeds == request # None /\ reply = <<>> /\ Return(TRUE)
PerformFails == request # None /\ reply # <<>> /\ Return(FALSE)

Next ==
  \/ SetAddr \/ Start \/ WorkEnds
  \/ \E u \in Uris \cup {None} : AddHttpCallback(u)
  \/ \E u \in Uris, d \in Datas \cup {None} : Ask([uri |-> u, data |-> d])
  \/ OnWriteData \/ PerformSucceeds \/ PerformFails

-----------------------------------------------------------------------------
(* PROPERTIES                                                              *)

\* A call that returns true has in res the whole reply, and nothing of an
\* earlier one, of the callback that was set for its URI before Start, or of the
\* default one; a Post was seen with its own data, and so was every Get as a
\* request without data while the client had posted nothing (Get, Post,
\* OnWriteData, Start).
ReplyIsWhole ==
  result # None /\ result.ok =>
    /\ Len(result.res) = 2
    /\ result.res[1] = Handler(result.uri)
    /\ result.data # None \/ ~result.posted => result.res[2] = result.data
=============================================================================
