-------------------------------- MODULE Url ---------------------------------
(***************************************************************************)
(* CUrl (src/utils/url.cpp), on sequences of bytes.                        *)
(***************************************************************************)
EXTENDS Text, SequencesExt

Plus == 43
Percent == 37
Blank == 32
Unreserved == (48..57) \cup (65..90) \cup (97..122) \cup {45, 46, 95, 126}

ToHex(x) == x + IF x > 9 THEN 55 ELSE 48
FromHex(x) == x - IF x >= 97 THEN 87 ELSE IF x >= 65 THEN 55 ELSE 48

EncodeByte(x) ==
  IF x \in Unreserved THEN <<x>> ELSE IF x = Blank THEN <<Plus>> ELSE <<Percent, ToHex(x \div 16), ToHex(x % 16)>>
Encode(s) == FlattenSeq([i \in DOMAIN s |-> EncodeByte(s[i])])

\* A text that ends inside an escape fails an assertion: the caller's fault.
RECURSIVE Decode(_)
Decode(s) ==
  IF s = <<>> THEN <<>>
  ELSE IF s[1] = Plus THEN <<Blank>> \o Decode(Tail(s))
  ELSE IF s[1] = Percent THEN <<(FromHex(s[2]) * 16 + FromHex(s[3])) % 256>> \o Decode(From(s, 3))
  ELSE <<s[1]>> \o Decode(Tail(s))
=============================================================================
