------------------------------- MODULE DupFifo -------------------------------
(***************************************************************************)
(* CDupFifo (src/net/dup_fifo.cc): two pipes made before a fork, of which  *)
(* the parent and the child each close the ends they do not use.  The      *)
(* kernel keeps a pipe end open while any process holds it.                *)
(***************************************************************************)
EXTENDS Naturals, Sequences

CONSTANT PipeCap, MaxSent   \* bytes a pipe holds; bound: bytes sent

VARIABLES
  held,    \* the pipe ends every process has open
  side,    \* which of the two Close calls the process has made
  pipe,    \* the bytes in either pipe
  sent, got

fifoVars == <<held, side, pipe, sent, got>>

Procs == {"parent", "child"}
Ends == {"pipe1"} \X {"r", "w"} \cup {"pipe2"} \X {"r", "w"}
Peer(p) == CHOOSE q \in Procs : q # p

\* m_wfd and m_rfd, once the side is chosen.
SendPipe(p) == IF p = "parent" THEN "pipe1" ELSE "pipe2"
RecvPipe(p) == SendPipe(Peer(p))

Init ==
  /\ held = [p \in Procs |-> IF p = "parent" THEN Ends ELSE {}]
  /\ side = [p \in Procs |-> IF p = "parent" THEN "alone" ELSE "unborn"]
  /\ pipe = [x \in {"pipe1", "pipe2"} |-> <<>>]
  /\ sent = [p \in Procs |-> 0] /\ got = [p \in Procs |-> <<>>]

HasOpen(end) == \E p \in Procs : end \in held[p]

-----------------------------------------------------------------------------
\* The caller forks after the constructor: the child gets every open end.
Fork ==
  /\ side["parent"] = "alone"
  /\ side' = [p \in Procs |-> "both"]
  /\ held' = [held EXCEPT !["child"] = held["parent"]]
  /\ UNCHANGED <<pipe, sent, got>>

\* Faulty variant: only the end it would read from.
UnusedRead(p) == {<<SendPipe(p), "r">>}

\* The ends CloseByParent and CloseByChild close.
Unused(p) == {<<SendPipe(p), "r">>, <<RecvPipe(p), "w">>}

CloseBy(p) ==
  /\ side[p] = "both"
  /\ held' = [held EXCEPT ![p] = @ \ Unused(p)]
  /\ side' = [side EXCEPT ![p] = "chosen"]
  /\ UNCHANGED <<pipe, sent, got>>

\* write to a non-blocking pipe: nothing when it is full, an error when no
\* process has the other end.
Send(p) ==
  /\ side[p] = "chosen" /\ sent[p] < MaxSent
  /\ HasOpen(<<SendPipe(p), "r">>) /\ Len(pipe[SendPipe(p)]) < PipeCap
  /\ sent' = [sent EXCEPT ![p] = @ + 1]
  /\ pipe' = [pipe EXCEPT ![SendPipe(p)] = Append(@, sent'[p])]
  /\ UNCHANGED <<held, side, got>>

Recv(p) ==
  /\ side[p] = "chosen" /\ pipe[RecvPipe(p)] # <<>>
  /\ got' = [got EXCEPT ![p] = Append(@, Head(pipe[RecvPipe(p)]))]
  /\ pipe' = [pipe EXCEPT ![RecvPipe(p)] = Tail(@)]
  /\ UNCHANGED <<held, side, sent>>

\* read returns 0 instead of EAGAIN.
EndOfFile(p) == pipe[RecvPipe(p)] = <<>> /\ ~HasOpen(<<RecvPipe(p), "w">>)

\* A process ends, or destroys the object: every end it holds is closed.  What
\* is in a pipe that nobody can read is gone.
End(p) ==
  /\ side[p] \in {"both", "chosen"}
  /\ held' = [held EXCEPT ![p] = {}]
  /\ side' = [side EXCEPT ![p] = "ended"]
  /\ pipe' = [x \in DOMAIN pipe |-> IF \E q \in Procs : <<x, "r">> \in held'[q] THEN pipe[x] ELSE <<>>]
  /\ UNCHANGED <<sent, got>>

Next == Fork \/ \E p \in Procs : CloseBy(p) \/ Send(p) \/ Recv(p) \/ End(p)

Spec == Init /\ [][Next]_fifoVars

-----------------------------------------------------------------------------
(* PROPERTIES                                                              *)

\* A process that has chosen its side gets what the other sent, in order, and
\* once the other has ended and the pipe is drained it reads the end of file and
\* has its own writes refused, rather than waiting for ever on an end that it
\* holds itself (CloseByParent, CloseByChild).
HangUpSeen ==
  \A p \in Procs : side[p] = "chosen" =>
    /\ \A i \in DOMAIN got[p] : got[p][i] = i
    /\ side[Peer(p)] # "ended" => Len(got[p]) + Len(pipe[RecvPipe(p)]) = sent[Peer(p)]
    /\ side[Peer(p)] = "ended" => (pipe[RecvPipe(p)] = <<>> => EndOfFile(p)) /\ ~HasOpen(<<SendPipe(p), "r">>)
=============================================================================
