-------------------------------- MODULE Text --------------------------------
(***************************************************************************)
(* The part of std::string the code in src/ uses, for texts that are       *)
(* sequences of characters.  Positions count from 0, as in C++.            *)
(***************************************************************************)
EXTENDS Integers, Sequences, FiniteSetsExt

NPos == -1

At(s, p) == s[p + 1]
From(s, p) == SubSeq(s, p + 1, Len(s))
Sub(s, p, n) == SubSeq(s, p + 1, Min({p + n, Len(s)}))

Occurs(t, s, p) == p + Len(t) <= Len(s) /\ \A k \in DOMAIN t : s[p + k] = t[k]

First(P) == IF P = {} THEN NPos ELSE Min(P)
Find(s, t, p) == First({i \in p..Len(s) : Occurs(t, s, i)})
RFind(s, t) == LET P == {i \in 0..Len(s) : Occurs(t, s, i)} IN IF P = {} THEN NPos ELSE Max(P)

\* Position of the first character of s, from p on, that lies in C, or Len(s).
Skip(s, p, C) == LET P == {i \in p..(Len(s) - 1) : At(s, i) \in C} IN IF P = {} THEN Len(s) ELSE Min(P)
=============================================================================
