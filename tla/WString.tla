------------------------------ MODULE WString ------------------------------
(***************************************************************************)
(* std::wstring / std::string search as the example uses it: s.find(t)    *)
(* != npos, with strings as sequences of characters.  An empty t is found  *)
(* at position 0 of every s.                                               *)
(***************************************************************************)
EXTENDS Integers, Sequences

\* t.find(s) != npos: s occurs somewhere in t.
IsSubstring(s, t) ==
    \E i \in 0..(Len(t) - Len(s)) : SubSeq(t, i + 1, i + Len(s)) = s
=============================================================================
