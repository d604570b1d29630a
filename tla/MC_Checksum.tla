---------------------------- MODULE MC_Checksum ----------------------------
(***************************************************************************)
(* The carry-folding sum of Checksum, checked against RFC 1071's closed    *)
(* form over every sequence of up to MaxWords words drawn from the values  *)
(* at the edges of 16-bit arithmetic.  The variable ws grows one word per  *)
(* step, so every prefix is a reachable state.                             *)
(***************************************************************************)
EXTENDS Checksum, SequencesExt

CONSTANTS Words, MaxWords

ASSUME Words \subseteq 0..(Word - 1) /\ MaxWords \in Nat

VARIABLE ws

\* RFC 1071 section 2(B): the one's-complement sum is the integer sum taken
\* mod 2^16 - 1, with a nonzero sum that is a multiple of it read as 0xFFFF.
ReferenceSum(s) ==
    LET total == FoldSeq(+, 0, s)
    IN  IF total = 0 THEN 0 ELSE ((total - 1) % (Word - 1)) + 1

Init == ws = <<>>

Extend(w) == Len(ws) < MaxWords /\ ws' = Append(ws, w)

Next == \E w \in Words : Extend(w)

Spec == Init /\ [][Next]_ws

=============================================================================
