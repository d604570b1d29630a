------------------------------ MODULE Checksum ------------------------------
(***************************************************************************)
(* The Internet checksum (RFC 1071) as used by CNdisApi::RecalculateIP/    *)
(* UDP/TCPChecksum, which the rebind example calls after every address     *)
(* rewrite.  The library code is not part of src/, so these operators are  *)
(* modelled from spec.md section 4.3: one's-complement sum of 16-bit words *)
(* over the IP header, and over the pseudo-header plus transport header    *)
(* for TCP/UDP.  Addresses are 32-bit integers, split into two words.      *)
(***************************************************************************)
EXTENDS Integers, Sequences

Word == 65536

Fold(x) == (x % Word) + (x \div Word)

\* One's-complement sum of a sequence of 16-bit words.
RECURSIVE OnesSum(_)
OnesSum(ws) == IF ws = <<>> THEN 0 ELSE Fold(Head(ws) + OnesSum(Tail(ws)))

\* The checksum field written by the Recalculate* functions.
InetChecksum(ws) == (Word - 1) - OnesSum(ws)

\* The receiver's test: the sum over the words and the field is all ones.
Verifies(ws, sum) == OnesSum(Append(ws, sum)) = Word - 1

Hi(a) == a \div Word
Lo(a) == a % Word
AddrWords(a) == <<Hi(a), Lo(a)>>
=============================================================================
