------------------------------ MODULE MCUtils -------------------------------
(***************************************************************************)
(* The utilities on small instances.  part says which one a behaviour is   *)
(* about: one of the state machines, or the functions on texts, messages   *)
(* and digests, whose argument arg is composed item by item.               *)
(***************************************************************************)
EXTENDS ExternSort, TimeTick, Text

VARIABLES
  part, arg,
  blocks, cur, nr, ptr, eof, got, file, want, last,       \* Mem
  fs, handle, result                                      \* Disk

S == INSTANCE Strings
U == INSTANCE Url
H == INSTANCE HttpMessage
I == INSTANCE Ini
\* 2^32 + 1 in 32 bits.
In32Bits(c) == IF c = "4294967297" THEN "1" ELSE c
J == INSTANCE Json WITH Integers64 <- {"1", "4294967297"}, Reals <- {"3.5"}, Atoi <- In32Bits
D == INSTANCE Digest WITH BlockSize <- 4, LenBytes <- 2, Word <- 64, Mark <- -1, Zero <- 0
\* A newline, a block, two blocks and more, with lines in them.
MemTexts == {<<"n">>, <<"x", "y">>, <<"x", "n", "x", "y">>, <<"x", "y", "x", "x", "n">>}
Mem == INSTANCE MemFile WITH BLOCKSIZE <- 2, Contents <- MemTexts, Newline <- "n", Junk <- "?",
         MaxBytes <- 5, MaxBlocks <- 3, MaxPast <- 1
Disk == INSTANCE Files WITH Paths <- {<<"d">>, <<"d", "e">>, <<"f">>, <<"f", "e">>},
          Fixed <- {<<"f", "e">>}, MaxData <- 2, MaxLinks <- 1, NoPath <- <<"none">>

memVars == <<blocks, cur, nr, ptr, eof, got, file, want, last>>
diskVars == <<fs, handle, result>>

A == <<"a">>
AB == <<"a", "b">>
Leaves == {J!Fresh, J!Value("integer", <<"1">>), J!Value("integer", <<"4294967297">>), J!Value("real", <<"3.5">>),
           J!Value("boolean", <<"true">>), J!Value("string", <<"\\", "a">>), J!Value("string", <<"\"", "\n">>),
           J!Value("string", <<"\\", "n">>)}

\* What the argument of a function is made of, and how many of them at most.
Pieces ==
  [ wildcard |-> {A, <<"?">>, <<"*">>, <<"[", "a", "-", "b", "]">>, <<"\\", "*">>},
    gbk |-> {A, <<"A">>, <<"0">>, <<" ">>, <<"hi", "lo">>, <<"hi", "A">>},
    words |-> {A, AB, <<"a", "b", "b">>, <<"b", "a", "b">>},
    quote |-> {"\n", "\t", "\r", "bs", "'", "\\", "\"", "\f", "nul", "n", " "},
    ip |-> {<<"0">>, <<"2", "5", "5">>, <<"5", "0", "0">>, <<" ", "1">>},
    url |-> {0, 32, 37, 43, 57, 65, 126, 255},
    json |-> [op : {"put", "add"}, leaf : Leaves] \cup [op : {"nest", "list"}, leaf : {J!Fresh}],
    http |-> {<<A, <<"1">>>>, <<A, <<":", " ">>>>, <<<<"b">>, <<"1">>>>},
    ini |-> {<<"[", "a", "]">>, <<"[", "b", "]">>, <<"k", "=", "1">>, <<"k", "=", "2">>, <<"#", "k", "=", "0">>, <<>>},
    digest |-> 0..6 ]
MaxPieces ==
  [ wildcard |-> 3, gbk |-> 4, words |-> 4, quote |-> 3, ip |-> 5, url |-> 3, json |-> 3, http |-> 3, ini |-> 4,
    digest |-> 3 ]

UtilsInit ==
  /\ part \in DOMAIN Pieces \cup {"sort", "tick", "mem", "disk"} /\ arg = <<>>
  /\ Init /\ TickInit /\ Mem!Init /\ Disk!Init

Compose ==
  /\ part \in DOMAIN Pieces /\ Len(arg) < MaxPieces[part]
  /\ \E x \in Pieces[part] : arg' = Append(arg, x)
  /\ UNCHANGED <<part, sortVars, tickVars, memVars, diskVars>>

UtilsNext ==
  \/ Compose
  \/ part = "sort" /\ Next /\ UNCHANGED <<part, arg, tickVars, memVars, diskVars>>
  \/ part = "tick" /\ TickNext /\ UNCHANGED <<part, arg, sortVars, memVars, diskVars>>
  \/ part = "mem" /\ Mem!Next /\ UNCHANGED <<part, arg, sortVars, tickVars, diskVars>>
  \/ part = "disk" /\ Disk!Next /\ UNCHANGED <<part, arg, sortVars, tickVars, memVars>>

UtilsSpec == UtilsInit /\ [][UtilsNext]_<<part, arg, sortVars, tickVars, memVars, diskVars>>

-----------------------------------------------------------------------------
(* PROPERTIES                                                              *)

Whole == FlattenSeq(arg)
Joined(words, sep) == FlattenSeq([i \in DOMAIN words |-> (IF i = 1 THEN <<>> ELSE sep) \o words[i]])
Odd == {i \in DOMAIN arg : i % 2 = 1}
Wrapped(open_, close) == FlattenSeq([i \in DOMAIN arg |-> IF i \in Odd THEN arg[i] ELSE open_ \o arg[i] \o close])
OddOnes == FlattenSeq([i \in DOMAIN arg |-> IF i \in Odd THEN arg[i] ELSE <<>>])

\* A pattern matches a text that can be cut into one piece for every item: a
\* character, an escape and a set take one character each, "*" takes one or
\* more, and at least two where it ends the pattern (MatchWildcard).
Chars == {"a", "b", "*"}
WildTexts == UNION {[1..n -> Chars] : n \in 0..4}
Takes == [item \in Pieces.wildcard |->
  CASE item[1] = "a" -> {"a"} [] item[1] = "[" -> {"a", "b"} [] item[1] = "\\" -> {"*"} [] OTHER -> Chars]
Width(w, n) == FoldLeft(+, 0, SubSeq(w, 1, n))
CanBeCut(text) ==
  \E w \in [DOMAIN arg -> 1..4] :
    /\ Width(w, Len(arg)) = Len(text)
    /\ \A i \in DOMAIN arg :
         IF arg[i] = <<"*">> THEN i = Len(arg) => w[i] > 1
         ELSE w[i] = 1 /\ text[Width(w, i)] \in Takes[arg[i]]
WildcardExact == part = "wildcard" => \A text \in WildTexts : S!MatchWildcard(Whole, text) <=> CanBeCut(text)

\* No function cuts or changes half of a double-byte character, not even one
\* whose second byte is a letter; and AbstractString keeps as many characters
\* as fit, without cutting a run of letters and digits that would fit whole
\* (ToLower, ToUpper, GetCharCount, AbstractString).
Cased(unit, change) == IF Len(unit) = 1 THEN <<S!Changed(change, unit[1])>> ELSE unit
InWord(i) == i \in DOMAIN arg /\ arg[i] \in {A, <<"A">>, <<"0">>}
FairAbstract(n, k) ==
  LET r == FlattenSeq(SubSeq(arg, 1, k))
  IN  /\ S!AbstractString(Whole, n) = r /\ Len(r) <= n
      /\ InWord(k) /\ InWord(k + 1) => \E i \in 1..k : \A j \in i..(i + n) : InWord(j)
      /\ k < Len(arg) /\ ~InWord(k + 1) => Len(r) + Len(arg[k + 1]) > n
CharactersWhole ==
  part = "gbk" =>
    /\ S!ToLower(Whole) = FlattenSeq([i \in DOMAIN arg |-> Cased(arg[i], S!CharToLower)])
    /\ S!ToUpper(Whole) = FlattenSeq([i \in DOMAIN arg |-> Cased(arg[i], S!CharToUpper)])
    /\ S!GetCharCount(Whole) = Len(arg)
    /\ \A n \in 0..5 : \E k \in 0..Len(arg) : FairAbstract(n, k)

\* Splitting, trimming, replacing and cutting undo how a text was put together,
\* of words that no two occurrences of a searched string touch in and comments
\* with text between them - but of a text of one character TrimLeft and TrimRight
\* leave nothing (string.cpp:92, 112); and QuoteWild loses only control characters
\* that have no escape, which become spaces, and what follows a NUL (SplitString,
\* SingleBlank, RemoveStr, ReplaceStr, DeleteSubstr, ExtractSubstr,
\* StripComments, QuoteWild, IsDigitIp, TrimLeft, TrimRight, RemoveChar,
\* ReplaceCharSet, ReplaceStrSet, ConvertToSpace, FindNoCase).
WordsSplit ==
  /\ S!SplitWords(Joined(arg, <<" ">>)) = arg
  /\ S!SplitString(Joined(arg, <<",", "\t">>), <<",">>) = arg
  /\ S!SingleBlank(<<" ">> \o Joined(arg, <<"\t", " ">>) \o <<"\n">>) = Joined(arg, <<" ">>)
WordsCut ==
  /\ S!RemoveStr(Joined(arg, <<" ">>), AB, TRUE) = Joined([i \in DOMAIN arg |-> IF arg[i] = AB THEN <<>> ELSE arg[i]], <<" ">>)
  /\ S!DeleteSubstr(Wrapped(<<"<">>, <<">">>), <<"<">>, <<">">>) = OddOnes
  /\ S!StripComments(Wrapped(<<"<", "!", "-", "-", " ">>, <<"-", "-", ">">>)) = OddOnes
  /\ Len(arg) = 3 => S!ExtractSubstr(Wrapped(<<"<">>, <<">">>), <<"<", "*", ">">>) = arg[2]
  /\ LET r == S!ReplaceStr(Whole, AB, <<"x">>)
     IN  Find(r, AB, 0) = NPos /\ S!ReplaceStr(r, <<"x">>, AB) = Whole
\* Two functions that go different ways to the same result.
WordsAgree ==
  /\ S!TrimLeft(<<" ">> \o Whole, {" "}) = IF Len(Whole) = 1 THEN <<>> ELSE Whole
  /\ S!TrimRight(Whole \o <<" ">>, {" "}) = IF Len(Whole) = 1 THEN <<>> ELSE Whole
  /\ S!RemoveChar(Whole, "a") = S!ReplaceStr(Whole, A, <<>>)
  /\ S!ReplaceCharSet(Whole, AB, <<"x">>) = S!ReplaceStrSet(Whole, <<<<A, <<"x">>>>, <<<<"b">>, <<>>>>>>)
  /\ S!RemoveStrSet(Joined(arg, <<" ">>), <<AB>>, TRUE) = S!RemoveStr(Joined(arg, <<" ">>), AB, TRUE)
  /\ S!ConvertToSpace(Joined(arg, <<"-", " ">>)) = Joined(arg, <<" ">>)
  /\ S!FindNoCase(S!ToUpper(Whole), AB, 0) # NPos <=> S!IsSubStrContained(Whole, {AB})
RECURSIVE Unquoted(_)
Unquoted(s) ==
  IF s = <<>> THEN <<>>
  ELSE IF s[1] = "\\" THEN <<CHOOSE c \in DOMAIN S!Escapes : S!Escapes[c] = s[2]>> \o Unquoted(From(s, 2))
  ELSE <<s[1]>> \o Unquoted(Tail(s))
EditsExact ==
  /\ part = "words" => WordsSplit /\ WordsCut /\ WordsAgree
  /\ part = "quote" => LET text == Sub(arg, 0, Skip(arg, 0, {"nul"}))
                       IN  Unquoted(S!QuoteWild(arg)) = [i \in DOMAIN text |-> IF text[i] = "\f" THEN " " ELSE text[i]]
  /\ part = "ip" => (S!IsDigitIp(Joined(arg, <<".">>)) <=> Len(arg) = 4 /\ <<"5", "0", "0">> \notin ToSet(arg))

\* What is printed is read back: any bytes as a URL; a JSON value, nested in any
\* order, exactly if its integers need no more than 32 bits (json.cpp:445) and no
\* string has a backslash before n or r (301-324); a request with a header, also into
\* an object that has held another, and a response into a new one; and of an
\* INI file the last value given to a key under its field (CUrl, Json,
\* CHttpRequest, CHttpResponse, CIniFile).
Built ==
  LET apply(j, x) == CASE j = J!Thrown -> j
                       [] x.op = "put" -> J!Put(j, <<"\"">>, x.leaf)
                       [] x.op = "add" -> J!Add(j, x.leaf)
                       [] x.op = "nest" -> J!Put(J!Put(J!Fresh, <<>>, j), A, x.leaf)
                       [] x.op = "list" -> J!Add(J!Add(J!Fresh, j), x.leaf)
  IN  FoldLeft(apply, J!Fresh, arg)
Harmless(s) == \A i \in DOMAIN s : s[i] = "\\" => i = Len(s) \/ s[i + 1] \notin {"n", "r"}
RECURSIVE ReadBack(_)
ReadBack(j) ==
  /\ j.type = "integer" => In32Bits(j.atom[1]) = j.atom[1]
  /\ j.type = "string" => Harmless(j.atom)
  /\ \A i \in DOMAIN j.array : ReadBack(j.array[i])
  /\ \A name \in DOMAIN j.object : Harmless(name) /\ ReadBack(j.object[name])
WithHeader(m) == [m EXCEPT !.header = FoldLeft(LAMBDA map, kv : H!Put(map, kv[1], kv[2]), {}, arg)]
HttpReadBack ==
  \A body \in {<<>>, <<"\n", "\n", "b">>, H!CRLF \o H!CRLF} :
    LET m == [WithHeader(H!CHttpRequest) EXCEPT !.body = body]
        r == H!SetResponseBody(WithHeader(H!CHttpResponse), body)
        used == [H!CHttpRequest EXCEPT !.header = {<<<<"z">>, <<"z">>>>}, !.params = {<<A, A>>}, !.body = A]
    IN  /\ arg # <<>> => H!ParseRequest(used, H!RequestToString(m)) = m
        /\ H!ParseResponse(H!CHttpResponse, H!ResponseToString(r)) = r
IniLast(field) ==
  LET here == {i \in DOMAIN arg : arg[i] # <<>> /\ arg[i][1] = "k"
                 /\ \E f \in 1..i : arg[f] = field /\ \A g \in f..i : arg[g] # <<>> /\ arg[g][1] = "[" => arg[g] = field}
  IN  IF here = {} THEN <<FALSE, <<"0">>>> ELSE <<TRUE, <<arg[Max(here)][3]>>>>

\* The blocks that reach the transformation are the message padded as the
\* standards say, whatever pieces it arrives in, across the wrap of a counter
\* (MD5); and, for SHA1, if mark and length fit the last block.
Total == FoldLeft(+, 0, arg)
Message == [i \in 1..Total |-> i]
Chunks == [k \in DOMAIN arg |-> Sub(Message, FoldLeft(+, 0, SubSeq(arg, 1, k - 1)), arg[k])]
ShaRight == D!ShaGo(Message) = D!Padded(Message, D!ShaLength(D!BitLength(Total)))
DigestsPadded ==
  part = "digest" =>
    /\ D!Md5(Chunks) = D!Padded(Message, D!Md5Length(D!BitLength(Total)))
    /\ Total % 4 < D!PadTo => ShaRight

\* PadMessage: every message is padded as its comment says, with zeros between
\* the mark and the length.
PadMessageByRules == part = "digest" => ShaRight

\* FileUtility::DeleteDir and CFile::Flush: what goes is what was asked for.
FilesKept == Disk!FilesKept
=============================================================================
