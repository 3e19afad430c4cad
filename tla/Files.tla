------------------------------- MODULE Files --------------------------------
(***************************************************************************)
(* FileUtility and CFile (src/utils/file.cpp) over a small file system.  A *)
(* path is a sequence of names from the working directory, which is <<>>;  *)
(* directories are not renamed or copied.                                  *)
(***************************************************************************)
EXTENDS Text, SequencesExt

CONSTANTS
  Paths,       \* every path there can be; the rest cannot be created
  Fixed,       \* paths that cannot be removed (permissions)
  MaxData,     \* bound: characters in a file
  MaxLinks,    \* bound: symbolic links, so that none leads back to itself
  NoPath

VARIABLES
  fs,          \* every path's node
  handle,      \* one CFile object
  result       \* what the last call returned

fileVars == <<fs, handle, result>>

None == [kind |-> "none", data |-> <<>>, to |-> NoPath]
Dir == [None EXCEPT !.kind = "dir"]
File(data) == [None EXCEPT !.kind = "file", !.data = data]
Link(to) == [None EXCEPT !.kind = "link", !.to = to]
Closed == [open |-> FALSE, path |-> NoPath, mode |-> "none", pos |-> 0, buf |-> <<>>]

Init == fs = [p \in Paths |-> None] /\ handle = Closed /\ result = TRUE

\* Where a path leads in f, symbolic links followed.
RECURSIVE Follow(_, _, _)
Follow(f, p, n) ==
  LET q == Append(Follow(f, Front(p), n), Last(p))
  IN  IF p = <<>> \/ n = 0 THEN p
      ELSE IF q \in Paths /\ f[q].kind = "link" THEN Follow(f, f[q].to, n - 1) ELSE q
Real(f, p) == Follow(f, p, MaxLinks + 1)
Stat(f, p) == LET q == Real(f, p) IN IF q = <<>> THEN Dir ELSE IF q \in Paths THEN f[q] ELSE None
\* The node a path names, which may be a link itself.
Named(f, p) == Append(Real(f, Front(p)), Last(p))

IsDir(f, p) == Stat(f, p).kind = "dir"
IsFile(p) == Stat(fs, p).kind = "file"
IsFileExist(p) == Stat(fs, p).kind # "none"

\* mkdir and symlink can make p; open can make or reach the file p.
Free(p) == IsDir(fs, Front(p)) /\ Named(fs, p) \in Paths /\ fs[Named(fs, p)] = None
Writable(p) == Real(fs, p) \in Paths /\ ~IsDir(fs, p) /\ IsDir(fs, Front(Real(fs, p)))

Return(ok) == result' = ok /\ UNCHANGED handle
Set(p, node) == fs' = [fs EXCEPT ![p] = node]
Appended(p, data) == Set(Real(fs, p), File(Stat(fs, p).data \o data))
\* A call that changes one node if it succeeds.
Call(ok, change) == (IF ok THEN change ELSE UNCHANGED fs) /\ Return(ok)

-----------------------------------------------------------------------------
\* WriteFile and Write, which append; a number is printed first.
WriteFile(p, data) ==
  /\ Len(Stat(fs, p).data \o data) <= MaxData
  /\ Call(Writable(p), Appended(p, data))

\* What follows the last newline is not a line: getline meets the end there.
RECURSIVE Lines(_)
Lines(data) ==
  LET n == Find(data, <<"\n">>, 0) IN IF n = NPos THEN <<>> ELSE <<Sub(data, 0, n)>> \o Lines(From(data, n + 1))
\* What these return and store through their argument.
LoadLines(p) == IF IsFile(p) THEN <<TRUE, Lines(Stat(fs, p).data)>> ELSE <<FALSE>>
LoadString(p) == IF IsFile(p) THEN <<TRUE, Stat(fs, p).data>> ELSE <<FALSE>>
GetFileSize(p) == IF IsFile(p) THEN Len(Stat(fs, p).data) ELSE -1
Entries(f, p) == {n \in {Last(q) : q \in Paths} : Append(Real(f, p), n) \in Paths /\ f[Append(Real(f, p), n)] # None}
GetFileList(p) == IF IsDir(fs, p) THEN <<TRUE, Entries(fs, p)>> ELSE <<FALSE>>

\* Faulty variant: the result of remove is not looked at.
RemovedAnyway(f, p) ==
  LET q == Named(f, p)
      ok == q \notin Fixed /\ (f[q].kind = "dir" => Entries(f, q) = {})
  IN  IF ok THEN [fs |-> [f EXCEPT ![q] = None], ok |-> TRUE] ELSE [fs |-> f, ok |-> TRUE]

\* remove(3): a directory must be empty.
Removed(f, p) ==
  LET q == Named(f, p)
      ok == q \notin Fixed /\ (f[q].kind = "dir" => Entries(f, q) = {})
  IN  IF ok THEN [fs |-> [f EXCEPT ![q] = None], ok |-> TRUE] ELSE [fs |-> f, ok |-> FALSE]

DeleteFile(p) == LET o == Removed(fs, p) IN Call(IsFile(p) /\ o.ok, fs' = o.fs)

\* What DeleteDir can leave, and return, with the entries left to remove in any
\* order: it ends at the first failure.  IsDir follows links, and so does it.
\* Paths are shorter than the 256 bytes of chBuf, which would cut them off.
RECURSIVE Deleted(_, _, _)
Deleted(f, p, left) ==
  LET one(q) == IF IsDir(f, q) THEN Deleted(f, q, Entries(f, q)) ELSE {Removed(f, q)}
      after(o, n) == IF o.ok THEN Deleted(o.fs, p, left \ {n}) ELSE {o}
  IN  IF left = {} THEN {Removed(f, p)}
      ELSE UNION {UNION {after(o, n) : o \in one(Append(p, n))} : n \in left}
DeleteDir(p) ==
  IF IsDir(fs, p) THEN \E o \in Deleted(fs, p, Entries(fs, p)) : fs' = o.fs /\ Return(o.ok)
  ELSE UNCHANGED fs /\ Return(FALSE)

CreateDir(p) == Call(Free(p), Set(Named(fs, p), Dir))
Touch(p) == Call(~IsFileExist(p) /\ Writable(p), Appended(p, <<>>))

Rename(src, dst) ==
  LET to == Named(fs, dst)
      ok == IsFile(src) /\ IsDir(fs, Front(dst)) /\ to \in Paths /\ fs[to].kind # "dir"
      moved == [fs EXCEPT ![Named(fs, src)] = None, ![to] = fs[Named(fs, src)]]
  IN  /\ ~IsDir(fs, src)
      /\ Call(ok, fs' = IF Real(fs, src) = Real(fs, dst) THEN fs ELSE moved)

\* The target is emptied when it is opened: copied onto itself, a file is lost.
Copy(src, dst) ==
  LET data == IF Real(fs, src) = Real(fs, dst) THEN <<>> ELSE Stat(fs, src).data
  IN  /\ ~IsDir(fs, src)
      /\ Call(IsFile(src) /\ Writable(dst), Set(Real(fs, dst), File(data)))

\* Without a name for the link, the source's in the working directory.
CreateLink(src, dst) ==
  LET new == IF dst = <<>> THEN <<Last(src)>> ELSE dst
  IN  /\ Cardinality({p \in Paths : fs[p].kind = "link"}) < MaxLinks
      /\ ~IsPrefix(src, new) /\ ~IsPrefix(new, src)
      /\ Call(Free(new) /\ (dst = <<>> => Len(src) > 1), Set(Named(fs, new), Link(src)))

-----------------------------------------------------------------------------
(* CFile.  Only other appenders touch a file that is open.                 *)

\* The constructor; Good tells whether the file is open.
Open(p, mode) ==
  LET ok == IF mode = "read" THEN IsFile(p) ELSE Writable(p)
  IN  /\ handle' = IF ok THEN [open |-> TRUE, path |-> Real(fs, p), mode |-> mode, pos |-> 0, buf |-> <<>>] ELSE handle
      /\ IF ok /\ mode = "trunc" THEN Set(Real(fs, p), File(<<>>))
         ELSE IF ok /\ mode = "append" THEN Appended(p, <<>>) ELSE UNCHANGED fs
      /\ result' = ok

\* Data reaches the file at the end of it or, in MODE_TRUNC, at the position.
Flushed(data) ==
  LET end == IF handle.mode = "trunc" THEN handle.pos ELSE Len(data)
  IN  Sub(data, 0, end) \o handle.buf \o From(data, end + Len(handle.buf))
Flush ==
  /\ handle.buf # <<>> /\ Len(Flushed(fs[handle.path].data)) <= MaxData
  /\ Set(handle.path, File(Flushed(fs[handle.path].data)))
  /\ handle' = [handle EXCEPT !.pos = @ + Len(handle.buf), !.buf = <<>>]
  /\ UNCHANGED result
\* The destructor flushes first.
Close == handle.buf = <<>> /\ handle' = Closed /\ UNCHANGED <<fs, result>>

WriteLine(line) ==
  LET ok == handle.mode # "read"
  IN  /\ handle.pos + Len(handle.buf) + Len(line) < MaxData
      /\ handle' = IF ok THEN [handle EXCEPT !.buf = @ \o line \o <<"\n">>] ELSE handle
      /\ result' = ok /\ UNCHANGED fs

\* A last line without a newline is read, but reported as a failure.
ReadLine ==
  LET data == fs[handle.path].data
      n == Skip(data, handle.pos, {"\n"})
      ok == handle.mode = "read" /\ n < Len(data)
  IN  /\ handle' = IF handle.mode = "read" THEN [handle EXCEPT !.pos = Min({n + 1, Len(data)})] ELSE handle
      /\ result' = ok /\ UNCHANGED fs

Texts == {<<"a", "\n">>, <<"a">>}
Next ==
  \/ ~handle.open /\ \E p \in Paths :
       \/ Touch(p) \/ CreateDir(p) \/ DeleteFile(p) \/ DeleteDir(p)
       \/ \E data \in Texts : WriteFile(p, data)
       \/ \E q \in Paths : Rename(p, q) \/ Copy(p, q)
       \/ \E q \in Paths \cup {<<>>} : CreateLink(p, q)
       \/ \E mode \in {"read", "trunc", "append"} : Open(p, mode)
  \/ handle.open /\ (Flush \/ Close \/ ReadLine \/ WriteLine(<<>>) \/ \E data \in Texts : WriteFile(handle.path, data))

-----------------------------------------------------------------------------
(* PROPERTIES                                                              *)

Below(q, p) == IsPrefix(Real(fs, p), q) \/ Named(fs, p) = q
LinkedBelow(p) == {q \in Paths : fs[q].kind = "link" /\ Below(q, p)}

\* DeleteDir that returns true has removed all below the directory and the name
\* it was given, and any DeleteDir touches nothing but what is below the directory or below what
\* a symbolic link in it leads to, which it removes too.  Flush loses no line
\* that another appender has written to an open file.
FilesKept ==
  [][/\ \A p \in Paths : ~handle.open /\ DeleteDir(p) =>
          /\ result' => \A q \in Paths : q = Named(fs, p) \/ IsStrictPrefix(Real(fs, p), q) => fs'[q] = None
          /\ \A q \in Paths : fs'[q] # fs[q] => fs'[q] = None /\ \E l \in {p} \cup LinkedBelow(p) : Below(q, l)
     /\ handle.mode = "append" /\ handle'.open =>
          IsPrefix(fs[handle.path].data, fs'[handle.path].data)]_fileVars
=============================================================================
