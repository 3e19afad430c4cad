-------------------------------- MODULE Ini ---------------------------------
(***************************************************************************)
(* CIniFile (src/utils/ini.cpp) and its copy CNetConf                      *)
(* (src/net/net_conf.cc), whose getters also tell whether the key is there.*)
(* m_kv is a function from the joined field and key to the value.          *)
(***************************************************************************)
EXTENDS Text, SequencesExt

Joined(field, key) == field \o <<"-">> \o key

\* One line of the file; st holds m_kv and the field in force.
ReadLine(st, line) ==
  LET open == Find(line, <<"[">>, 0)
      close == Find(line, <<"]">>, 0)
      eq == Find(line, <<"=">>, 0)
      key == IF eq = NPos THEN line ELSE Sub(line, 0, eq)
      at == Joined(st.field, key)
      value == From(line, eq + 1)
  IN  IF line = <<>> THEN st ELSE IF line[1] = "#" THEN st
      ELSE IF open # NPos /\ close > open THEN [st EXCEPT !.field = Sub(line, open + 1, close - open - 1)]
      ELSE [st EXCEPT !.kv = [k \in DOMAIN @ \cup {at} |-> IF k = at THEN value ELSE @[k]]]

\* What a file that cannot be opened leaves alone; the field starts empty.
OpenIniFile(kv, lines) == FoldLeft(ReadLine, [kv |-> kv, field |-> <<>>], lines).kv

\* <<TRUE, value>> or <<FALSE, def>>.
GetFiledValue(kv, field, key, def) ==
  IF Joined(field, key) \in DOMAIN kv THEN <<TRUE, kv[Joined(field, key)]>> ELSE <<FALSE, def>>

\* atoi, of the digits in front.
Digit == [d \in {"0", "1", "2"} |-> CASE d = "0" -> 0 [] d = "1" -> 1 [] d = "2" -> 2]
Atoi(s) ==
  LET n == Skip(s, 0, ToSet(s) \ DOMAIN Digit)
  IN  FoldLeft(LAMBDA v, d : v * 10 + Digit[d], 0, Sub(s, 0, n))
GetInt(kv, field, key, def) ==
  LET v == GetFiledValue(kv, field, key, <<>>) IN IF v[1] THEN Atoi(v[2]) ELSE def
GetBool(kv, field, key, def) ==
  LET v == GetFiledValue(kv, field, key, <<>>) IN IF v[1] THEN Atoi(v[2]) # 0 ELSE def

NetConfOpen(kv, lines) == OpenIniFile(kv, lines)
NetConfString(kv, field, key, def) == GetFiledValue(kv, field, key, def)
NetConfInt(kv, field, key, def) == <<GetFiledValue(kv, field, key, <<>>)[1], GetInt(kv, field, key, def)>>
NetConfBool(kv, field, key, def) == <<GetFiledValue(kv, field, key, <<>>)[1], GetBool(kv, field, key, def)>>
=============================================================================
