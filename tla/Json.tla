-------------------------------- MODULE Json --------------------------------
(***************************************************************************)
(* Json (src/utils/json.cpp).  A text is a sequence of characters, with    *)
(* null, true, false and a number as one character each.  A value has the  *)
(* members of the class; atom stands for m_i_value, m_d_value, m_b_value   *)
(* or m_str_value.  A call that throws yields Thrown.                      *)
(***************************************************************************)
EXTENDS Text, SequencesExt, Functions

CONSTANTS Integers64, Reals    \* numbers, as they are printed
Booleans == {"true", "false"}

Fresh == [type |-> "unknown", atom |-> <<>>, array |-> <<>>, object |-> <<>>]
Thrown == [Fresh EXCEPT !.type = "thrown"]
Value(type, atom) == [Fresh EXCEPT !.type = type, !.atom = atom]

\* operator[] on an object or a new value; assigning through it is one step.
Put(j, name, data) ==
  IF j.type \notin {"unknown", "object"} THEN Thrown
  ELSE [j EXCEPT !.type = "object",
          !.object = [k \in DOMAIN @ \cup {name} |-> IF k = name THEN data ELSE @[k]]]
Add(j, data) ==
  IF j.type \notin {"unknown", "array"} THEN Thrown ELSE [j EXCEPT !.type = "array", !.array = Append(@, data)]
Get(j, name) ==
  IF j.type # "object" THEN Thrown ELSE IF name \in DOMAIN j.object THEN j.object[name] ELSE Thrown

-----------------------------------------------------------------------------
\* Every occurrence, none of which overlaps what another has put there.
RECURSIVE Replace(_, _, _)
Replace(s, old, new) ==
  LET p == Find(s, old, 0)
  IN  IF p = NPos THEN s ELSE Sub(s, 0, p) \o new \o Replace(From(s, p + Len(old)), old, new)

\* The four replacements, in the order the code makes them.
Escapes == << <<<<"\\">>, <<"\\", "\\">>>>, <<<<"\r">>, <<"\\", "r">>>>,
              <<<<"\n">>, <<"\\", "n">>>>, <<<<"\"">>, <<"\\", "\"">>>> >>
Unescapes == <<4, 2, 3, 1>>
Encode(s) == FoldLeft(LAMBDA t, e : Replace(t, e[1], e[2]), s, Escapes)
Decode(s) == FoldLeft(LAMBDA t, i : Replace(t, Escapes[i][2], Escapes[i][1]), s, Unescapes)

Quoted(s) == <<"\"">> \o Encode(s) \o <<"\"">>
Listed(parts) == FlattenSeq([i \in DOMAIN parts |-> (IF i = 1 THEN <<>> ELSE <<",">>) \o parts[i]])
RECURSIVE ToText(_)
ToText(j) ==
  CASE j.type = "unknown" -> <<"null">>
    [] j.type \in {"integer", "real", "boolean"} -> j.atom
    [] j.type = "string" -> Quoted(j.atom)
    [] j.type = "array" ->
         <<"[">> \o Listed([i \in DOMAIN j.array |-> ToText(j.array[i])]) \o <<"]">>
    [] j.type = "object" ->
         LET names == SetToSeq(DOMAIN j.object)
         IN  <<"{">> \o Listed([i \in DOMAIN names |-> Quoted(names[i]) \o <<":">> \o ToText(j.object[names[i]])])
               \o <<"}">>

-----------------------------------------------------------------------------
\* Where the string ends that begins at p: at the next quote that no backslash
\* stands before, or at the end of the text.
RECURSIVE StringEnd(_, _)
StringEnd(s, p) ==
  IF p >= Len(s) \/ At(s, p) = "\"" THEN p ELSE StringEnd(s, p + IF At(s, p) = "\\" THEN 2 ELSE 1)

\* A call of Parse at p: what it returns (res, "" for 0), the value, where it
\* stopped.  An error propagates as res = "throw".
Result(res, val, p) == [res |-> res, val |-> val, at |-> p]
Error(p) == Result("throw", Thrown, p)

\* What atoi makes of a number that was printed with %ld: it keeps 32 bits.
CONSTANT Atoi(_)

\* An array takes values and skips commas; an object goes from name to colon to
\* value.  state and name are the code's, j the value so far.
RECURSIVE Parse(_, _), ParseArray(_, _, _), ParseObject(_, _, _, _, _)
Parse(s, p) ==
  LET q == Skip(s, p, ToSet(s) \ {" ", "\t", "\r", "\n"})
      c == At(s, q)
      e == StringEnd(s, q + 1)
  IN  IF q >= Len(s) THEN Error(q)
      ELSE CASE c \in Integers64 -> Result("", Value("integer", <<Atoi(c)>>), q + 1)
             [] c \in Reals -> Result("", Value("real", <<c>>), q + 1)
             [] c \in Booleans -> Result("", Value("boolean", <<c>>), q + 1)
             [] c = "null" -> Result("", Fresh, q + 1)
             [] c = "\"" -> Result("", Value("string", Decode(Sub(s, q + 1, e - q - 1))), e + 1)
             [] c = "[" -> ParseArray(s, q + 1, [Fresh EXCEPT !.type = "array"])
             [] c = "{" -> ParseObject(s, q + 1, [Fresh EXCEPT !.type = "object"], 0, <<>>)
             [] c \in {"]", "}", ",", ":"} -> Result(c, Fresh, q + 1)
             [] OTHER -> Error(q)
ParseArray(s, p, j) ==
  LET o == Parse(s, p)
  IN  CASE o.res = "" -> ParseArray(s, o.at, [j EXCEPT !.array = Append(@, o.val)])
        [] o.res = "]" -> Result("", j, o.at)
        [] o.res = "," -> ParseArray(s, o.at, j)
        [] OTHER -> Error(o.at)
ParseObject(s, p, j, state, name) ==
  LET o == Parse(s, p)
  IN  CASE state = 0 /\ o.res = "," -> ParseObject(s, o.at, j, 0, name)
        [] state = 0 /\ o.res = "}" -> Result("", j, o.at)
        [] state = 0 /\ o.res = "" /\ o.val.type = "string" -> ParseObject(s, o.at, j, 1, o.val.atom)
        [] state = 1 /\ o.res = ":" -> ParseObject(s, o.at, j, 2, name)
        [] state = 2 /\ o.res = "" -> ParseObject(s, o.at, Put(j, name, o.val), 0, name)
        [] OTHER -> Error(o.at)
=============================================================================
