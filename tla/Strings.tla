------------------------------ MODULE Strings -------------------------------
(***************************************************************************)
(* StringUtility (src/utils/string.cpp).  A text is a sequence of          *)
(* characters, one for every kind the functions tell apart: "hi" is a lead *)
(* byte of a GBK character, "lo" a trail byte outside ASCII; a letter may  *)
(* be a trail byte too.                                                    *)
(***************************************************************************)
EXTENDS Text, SequencesExt

Lower == {"a", "b"}
Upper == {"A", "B"}
Digits == {"0", "1", "2", "5"}
Blanks == {" ", "\r", "\n", "\t"}
Negative == {"hi", "lo"}       \* as a signed char

IsAlpha(c) == c \in Lower \cup Upper
IsDigit(c) == c \in Digits
IsAlnum(c) == IsAlpha(c) \/ IsDigit(c)
IsSeparator(c) == c \in Blanks \cup {"-", "_", "[", "]", "<", ">", "!", ",", ".", "*", "?", "="}
\* Faulty variant: trail bytes below 0x80 are not known.
IsGbkHigh(high, low) == high = "hi" /\ low \in Negative

IsGbk(high, low) == high = "hi" /\ (low \in Negative \/ IsAlpha(low) \/ low \in {"_", "[", "\\"})
CharToLower == [c \in Upper |-> IF c = "A" THEN "a" ELSE "b"]
CharToUpper == [c \in Lower |-> IF c = "a" THEN "A" ELSE "B"]
Changed(change, c) == IF c \in DOMAIN change THEN change[c] ELSE c

-----------------------------------------------------------------------------
TrimBothSides(s, T) ==
  LET keep == {i \in DOMAIN s : s[i] \notin T}
  IN  IF keep = {} THEN <<>> ELSE SubSeq(s, Min(keep), Max(keep))

\* A single character that is left is taken for none.
TrimLeft(s, T) ==
  LET keep == {i \in DOMAIN s : s[i] \notin T}
  IN  IF keep \subseteq {Len(s)} THEN <<>> ELSE SubSeq(s, Min(keep), Len(s))
TrimRight(s, T) ==
  LET keep == {i \in DOMAIN s : s[i] \notin T}
  IN  IF keep \subseteq {1} THEN <<>> ELSE SubSeq(s, 1, Max(keep))

RECURSIVE Pieces(_, _)
Pieces(s, spliter) ==
  LET t == TrimBothSides(s, Blanks)
      p == Find(t, spliter, 0)
  IN  IF p # NPos THEN <<Sub(t, 0, p)>> \o Pieces(From(t, p + Len(spliter)), spliter)
      ELSE IF t = <<>> THEN <<>> ELSE <<t>>
SplitString(s, spliter) == IF spliter = <<>> THEN <<>> ELSE Pieces(s, spliter)

Separators(s) == {c \in ToSet(s) : IsSeparator(c)}
RECURSIVE SplitWords(_)
SplitWords(s) ==
  LET b == Skip(s, 0, ToSet(s) \ Separators(s))
      e == Skip(s, b, Separators(s))
  IN  IF e > b THEN <<Sub(s, b, e - b)>> \o SplitWords(From(s, e)) ELSE <<>>

\* oldStr is not empty: with an empty one the loop does not end.
RECURSIVE ReplaceStr(_, _, _)
ReplaceStr(s, oldStr, newStr) ==
  LET p == Find(s, oldStr, 0)
  IN  IF p = NPos THEN s
      ELSE Sub(s, 0, p) \o newStr \o ReplaceStr(From(s, p + Len(oldStr)), oldStr, newStr)
\* mSet in the order of its keys.
ReplaceStrSet(s, mSet) == FoldLeft(LAMBDA t, pair : ReplaceStr(t, pair[1], pair[2]), s, mSet)

ReplaceCharSet(s, fromSet, toSet) ==
  LET new(c) == LET p == Find(fromSet, <<c>>, 0)
                IN  IF p = NPos THEN <<c>> ELSE IF p < Len(toSet) THEN <<At(toSet, p)>> ELSE <<>>
  IN  FlattenSeq([i \in DOMAIN s |-> new(s[i])])

RemoveChar(s, c) == SelectSeq(s, LAMBDA d : d # c)

\* Faulty variant: what follows is not looked at.
ApartLeft(s, p, e) == (p = 0 \/ IsSeparator(At(s, p - 1)))

\* sub at p, up to e, is a word of its own.
Apart(s, p, e) == (p = 0 \/ IsSeparator(At(s, p - 1))) /\ (e >= Len(s) \/ IsSeparator(At(s, e)))

\* What is left of the text is searched from its start: a removed or kept
\* occurrence counts as a separator in front of the next.
RECURSIVE RemoveStr(_, _, _)
RemoveStr(s, sub, needSeparator) ==
  LET p == Find(s, sub, 0)
      e == p + Len(sub)
  IN  IF p = NPos THEN s
      ELSE Sub(s, 0, IF needSeparator /\ ~Apart(s, p, e) THEN e ELSE p) \o RemoveStr(From(s, e), sub, needSeparator)
RemoveStrSet(s, sStrSet, needSeparator) ==
  FoldRight(LAMBDA sub, t : RemoveStr(t, sub, needSeparator), sStrSet, s)

RECURSIVE DeleteSubstr(_, _, _)
DeleteSubstr(s, begin, end) ==
  LET b == Find(s, begin, 0)
      e == Find(s, end, 0)
  IN  IF b # NPos /\ e > b THEN Sub(s, 0, b) \o DeleteSubstr(From(s, e + Len(end)), begin, end) ELSE s

\* A count below zero is a huge unsigned one.
ExtractSubstr(s, pattern) ==
  LET star == Find(pattern, <<"*">>, 0)
      left == Sub(pattern, 0, star)
      right == From(pattern, star + 1)
      l == IF Find(s, left, 0) = NPos THEN 0 ELSE Find(s, left, 0) + Len(left)
      r == IF right = <<>> \/ RFind(s, right) = NPos THEN Len(s) - 1 ELSE RFind(s, right) - 1
  IN  IF pattern \in {<<>>, <<"*">>} \/ star = NPos THEN s
      ELSE IF r - l + 1 < 0 THEN From(s, l) ELSE Sub(s, l, r - l + 1)

\* "bs" is a backspace, "\f" any other control character, "nul" ends a C string.
Escapes == [c \in {"\n", "\t", "\r", "bs", "'", "\\", "\""} |->
             CASE c = "\n" -> "n" [] c = "\t" -> "t" [] c = "\r" -> "r" [] c = "bs" -> "b" [] OTHER -> c]
Quoted(c) ==
  IF c \in DOMAIN Escapes THEN <<"\\", Escapes[c]>> ELSE IF c = "\f" THEN <<" ">> ELSE <<c>>
QuoteWild(s) ==
  LET raw == Sub(s, 0, Skip(s, 0, {"nul"}))
  IN  FlattenSeq([i \in DOMAIN raw |-> Quoted(raw[i])])

\* pDest after one more blank.
Blank(dest) == IF dest # <<>> /\ Last(dest) # " " THEN Append(dest, " ") ELSE dest
\* Double-byte punctuation, which becomes a blank too, is left out.
RECURSIVE Spaced(_, _)
Spaced(s, dest) ==
  IF s = <<>> THEN dest
  ELSE IF s[1] \in Negative
       THEN IF Len(s) = 1 THEN dest ELSE Spaced(From(s, 2), dest \o Sub(s, 0, 2))
       ELSE Spaced(Tail(s), IF IsAlnum(s[1]) \/ s[1] \in {"=", "?"} THEN Append(dest, Changed(CharToLower, s[1])) ELSE Blank(dest))
ConvertToSpace(s) ==
  LET dest == Spaced(s, <<>>)
  IN  IF dest # <<>> /\ Last(dest) = " " THEN Front(dest) ELSE dest

-----------------------------------------------------------------------------
Uppered(s) == [i \in DOMAIN s |-> Changed(CharToUpper, s[i])]
FindNoCase(s, sub, from) ==
  LET p == Find(Uppered(s), Uppered(sub), from) IN IF p = Len(s) THEN NPos ELSE p
IsSubStrContained(s, sSubStr) == \E sub \in sSubStr : Find(s, sub, 0) # NPos

GetNextChar(s, p) ==
  IF Len(s) < p + 1 THEN <<>> ELSE Sub(s, p, IF At(s, p) \in Negative THEN 2 ELSE 1)
RECURSIVE GetCharCount(_)
GetCharCount(s) == IF s = <<>> THEN 0 ELSE 1 + GetCharCount(From(s, IF s[1] \in Negative THEN 2 ELSE 1))

DigitValue(c) == CASE c = "0" -> 0 [] c = "1" -> 1 [] c = "2" -> 2 [] c = "5" -> 5
Str2Int(s) == FoldLeft(LAMBDA n, c : n * 10 + DigitValue(c), 0, s)
IsDigitString(s) == \A i \in DOMAIN s : IsDigit(s[i])
IsEnglishString(s, lowLineAsAlpha) == \A i \in DOMAIN s : IsAlpha(s[i]) \/ (lowLineAsAlpha /\ s[i] = "_")
IsEnglishOrDigitString(s) == \A i \in DOMAIN s : IsAlnum(s[i])
IsWhiteString(s) == ToSet(s) \subseteq {" ", "\t"}
IsDigitIp(s) ==
  LET list == SplitString(s, <<".">>)
  IN  /\ Len(list) = 4
      /\ \A i \in 1..4 : Len(list[i]) \in 1..3 /\ IsDigitString(list[i]) /\ Str2Int(list[i]) <= 255

\* A double-byte character is copied as it is.
RECURSIVE ChangeCase(_, _)
ChangeCase(s, change) ==
  IF s = <<>> THEN <<>>
  ELSE IF Len(s) > 1 /\ IsGbk(s[1], s[2]) THEN Sub(s, 0, 2) \o ChangeCase(From(s, 2), change)
  ELSE <<Changed(change, s[1])>> \o ChangeCase(Tail(s), change)
ToLower(s) == ChangeCase(s, CharToLower)
ToUpper(s) == ChangeCase(s, CharToUpper)

-----------------------------------------------------------------------------
\* Blanks in front and behind go, every run of them becomes one space.
SingleBlank(s) ==
  LET t == TrimBothSides(s, Blanks)
      spaced == [i \in DOMAIN t |-> IF t[i] \notin Blanks THEN <<t[i]>> ELSE IF t[i - 1] \in Blanks THEN <<>> ELSE <<" ">>]
  IN  FlattenSeq(spaced)

RECURSIVE Strip(_, _)
Strip(s, inside) ==
  LET opens == ~inside /\ Len(s) > 4 /\ Sub(s, 0, 4) = <<"<", "!", "-", "-">> /\ s[5] \in Blanks
      closes == inside /\ Len(s) > 2 /\ Sub(s, 0, 3) = <<"-", "-", ">">>
      rest == IF closes THEN From(s, 3) ELSE s
      in == opens \/ (inside /\ ~closes)
  IN  IF rest = <<>> THEN <<>> ELSE (IF in THEN <<>> ELSE <<rest[1]>>) \o Strip(Tail(rest), in)
StripComments(s) == Strip(s, FALSE)

\* The characters between two, of those the texts are made of.
Span(c, d) ==
  LET ascii == <<" ", "*", ",", "-", ".", "0", "1", "2", "5", "?", "A", "B", "[", "\\", "]", "_", "a", "b">>
  IN  SubSeq(ascii, Find(ascii, <<c>>, 0) + 1, Find(ascii, <<d>>, 0) + 1)
RECURSIVE MatchSet(_, _, _)
MatchSet(pattern, i, realCharSet) ==
  IF i > Len(pattern) THEN realCharSet
  ELSE IF pattern[i] = "\\" THEN MatchSet(pattern, i + 2, Append(realCharSet, pattern[i + 1]))
  ELSE IF pattern[i] # "-" \/ i = 1 THEN MatchSet(pattern, i + 1, Append(realCharSet, pattern[i]))
  ELSE IF i = Len(pattern) THEN <<>>
  ELSE MatchSet(pattern, i + 2, Front(realCharSet) \o Span(pattern[i - 1], pattern[i + 1]))

RECURSIVE SetEnd(_, _)
SetEnd(wild, i) ==
  IF i > Len(wild) THEN NPos ELSE IF wild[i] = "]" THEN i ELSE SetEnd(wild, i + IF wild[i] = "\\" THEN 2 ELSE 1)

\* Faulty variant: a star at the end takes one.
StarTakesOne(wild) == 1

\* How many characters "*" takes at least: its own and, where it ends the
\* pattern, the one that must be the last of the text.
StarTakes(wild) == IF Len(wild) = 1 THEN 2 ELSE 1

\* _MatchRemainder, of what is left of both.
RECURSIVE MatchWildcard(_, _)
MatchWildcard(wild, text) ==
  LET then(w) == MatchWildcard(From(wild, w), Tail(text))
  IN  IF wild = <<>> \/ text = <<>> THEN wild = text
      ELSE CASE wild[1] = "*" ->
                  IF Len(wild) = 1 THEN Len(text) >= StarTakes(wild)
                  ELSE \E i \in StarTakes(wild)..(Len(text) - 1) : MatchWildcard(Tail(wild), From(text, i))
             [] wild[1] = "?" -> then(1)
             [] wild[1] = "\\" -> Len(wild) > 1 /\ wild[2] = text[1] /\ then(2)
             [] wild[1] = "[" ->
                  LET e == SetEnd(wild, 2)
                  IN  e # NPos /\ Contains(MatchSet(SubSeq(wild, 2, e - 1), 1, <<>>), text[1]) /\ then(e)
             [] OTHER -> wild[1] = text[1] /\ then(1)

\* Length of the run of letters and digits at p.
WordLen(s, p) == Skip(s, p, {c \in ToSet(s) : ~IsAlnum(c)}) - p
RECURSIVE AbstractEnd(_, _, _)
AbstractEnd(s, n, p) ==
  LET w == IF At(s, p) \in Negative THEN 2 ELSE IF IsAlnum(At(s, p)) THEN WordLen(s, p) ELSE 1
  IN  IF IsAlnum(At(s, p)) /\ w > n THEN n ELSE IF p + w <= n THEN AbstractEnd(s, n, p + w) ELSE p
AbstractString(s, n) ==
  IF n <= 0 THEN <<>> ELSE IF n >= Len(s) THEN s ELSE Sub(s, 0, AbstractEnd(s, n, 0))
=============================================================================
