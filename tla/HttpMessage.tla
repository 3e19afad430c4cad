---------------------------- MODULE HttpMessage -----------------------------
(***************************************************************************)
(* CHttpRequest and CHttpResponse (src/net/http_message.cc): parsing and   *)
(* printing.  A message is a record of the object's members; start holds   *)
(* <<m_method, m_uri>> or <<m_http_version, m_ret_code, m_ret_msg>>, maps  *)
(* are sets of pairs with one pair for a key.                              *)
(***************************************************************************)
EXTENDS Text, SequencesExt

CR == <<"\r">>
LF == <<"\n">>
CRLF == CR \o LF
Space == <<" ">>

CHttpRequest == [start |-> <<<<"G">>, <<"/">>>>, header |-> {}, params |-> {}, body |-> <<>>]
CHttpResponse == [start |-> <<<<"V">>, <<"2">>, <<"K">>>>, header |-> {}, body |-> <<>>]

Put(map, key, value) == {kv \in map : kv[1] # key} \cup {<<key, value>>}

\* What an object is worth after substr threw in the middle of a parse.
Thrown == <<"thrown">>
Substr(s, p) == IF p > Len(s) THEN Thrown ELSE From(s, p)

\* The value starts two characters behind the colon, whatever the first is;
\* substr throws when the line ends at the colon.
HeaderLine(map, line) ==
  LET p == Find(line, <<":">>, 0)
  IN  IF p = NPos THEN map ELSE Put(map, Sub(line, 0, p), Substr(line, p + 2))

\* CHttpResponse::ParseHeader does not look whether its last line has a colon:
\* npos + 2 is 1.
LastResponseLine(map, line) ==
  IF Find(line, <<":">>, 0) = NPos THEN Put(map, line, Substr(line, 1)) ELSE HeaderLine(map, line)

\* The pieces of s between two separators, which may be empty.
RECURSIVE Parts(_, _)
Parts(s, sep) ==
  LET p == Find(s, sep, 0)
  IN  IF p = NPos THEN <<s>> ELSE <<Sub(s, 0, p)>> \o Parts(From(s, p + Len(sep)), sep)

Lines(headers) == Parts(headers, IF Find(headers, CRLF, 0) = NPos THEN LF ELSE CRLF)
ParseRequestHeader(map, headers) == FoldLeft(HeaderLine, map, Lines(headers))
ParseResponseHeader(map, headers) ==
  LastResponseLine(FoldLeft(HeaderLine, map, Front(Lines(headers))), Last(Lines(headers)))

Param(map, kv) ==
  LET p == Find(kv, <<"=">>, 0) IN IF p = NPos THEN map ELSE Put(map, Sub(kv, 0, p), From(kv, p + 1))
ParseParams(map, param) == FoldLeft(Param, map, Parts(param, <<"&">>))

\* A line with too few words leaves the members behind them as they were.
ParseRequestLine(m, line) ==
  LET p == Find(line, Space, 0)
      p1 == Find(line, Space, p + 1)
      uri == Sub(line, p + 1, p1 - p - 1)
      q == Find(uri, <<"?">>, 0)
      method == <<Sub(line, 0, p), m.start[2]>>
  IN  IF p = NPos THEN m
      ELSE IF p1 = NPos THEN [m EXCEPT !.start = method]
      ELSE IF q = NPos THEN [m EXCEPT !.start[1] = method[1], !.start[2] = uri]
      ELSE [m EXCEPT !.start[1] = method[1], !.start[2] = Sub(uri, 0, q), !.params = ParseParams(@, From(uri, q + 1))]
ParseResponseLine(m, line) ==
  LET p == Find(line, Space, 0)
      p1 == Find(line, Space, p + 1)
      version == Sub(line, 0, p)
  IN  IF p = NPos THEN m
      ELSE IF p1 = NPos THEN [m EXCEPT !.start[1] = version]
      ELSE [m EXCEPT !.start = <<version, Sub(line, p + 1, p1 - p - 1), From(line, p1 + 1)>>]

\* Where the header begins: behind the first line end, which is looked for as
\* CR LF in the whole message first.
LineEnd(content) ==
  LET p == Find(content, CRLF, 0) IN IF p # NPos THEN p ELSE Find(content, LF, 0)
HeaderStart(content) == LineEnd(content) + IF Find(content, CRLF, 0) = NPos THEN 1 ELSE 2

\* Behind the start line: body, then header.  With no blank line the test of
\* the wrong variable lets the search result npos through: the body is all but
\* the first character, the header all the rest.
BlankLine(content) ==
  LET p == Find(content, CRLF \o CRLF, 0) IN IF p # NPos THEN p ELSE Find(content, LF \o LF, 0)
BodyText(content) == From(content, BlankLine(content) + IF Find(content, CRLF \o CRLF, 0) # NPos THEN 4 ELSE 2)
\* With no header line either, its length wraps: it is all behind the start.
HeaderPart(content) ==
  LET head == HeaderStart(content)
      blank == BlankLine(content)
  IN  IF blank < head THEN From(content, head) ELSE Sub(content, head, blank - head)
Parsed(m, content, header) ==
  IF \E kv \in header : kv[2] = Thrown THEN Thrown ELSE [m EXCEPT !.body = BodyText(content), !.header = header]


Cleared(m) == [m EXCEPT !.header = {}, !.params = {}]
ParseRequest(m, content) ==
  LET line == LineEnd(content)
      started == ParseRequestLine(Cleared(m), Sub(content, 0, line))
  IN  IF line = NPos THEN Cleared(m)
      ELSE Parsed(started, content, ParseRequestHeader(started.header, HeaderPart(content)))
\* A response keeps the header of the message before it.
ParseResponse(m, content) ==
  LET line == LineEnd(content)
      started == ParseResponseLine(m, Sub(content, 0, line))
  IN  IF line = NPos THEN m
      ELSE Parsed(started, content, ParseResponseHeader(m.header, HeaderPart(content)))

HeaderText(map) ==
  LET line(kv) == kv[1] \o <<":">> \o Space \o kv[2] \o CRLF
      lines == SetToSeq({line(kv) : kv \in map})
  IN  FlattenSeq(lines)
RequestToString(m) ==
  m.start[1] \o Space \o m.start[2] \o Space \o <<"V">> \o CRLF \o HeaderText(m.header) \o CRLF \o m.body
ResponseToString(m) ==
  m.start[1] \o Space \o m.start[2] \o Space \o m.start[3] \o CRLF \o HeaderText(m.header) \o CRLF \o m.body
\* The length is one character here.
SetResponseBody(m, body) == [m EXCEPT !.body = body, !.header = Put(@, <<"L">>, <<ToString(Len(body))>>)]
=============================================================================
