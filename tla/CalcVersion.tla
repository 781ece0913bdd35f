----------------------------- MODULE CalcVersion -----------------------------
(***************************************************************************)
(* The handle under which KeyStore.receipt asks for historical entries,     *)
(* computed from the characters of a kid.                                   *)
(***************************************************************************)
EXTENDS Integers, Sequences

LOCAL INSTANCE SequencesExt

\* One round of the loop: identifier >>= 8; identifier += buf[inx].
Shifted(identifier, char) == (identifier \div 2^8) + char

\* calcVersion, on the codes of the characters of a kid.
CalcVersion(buf) == FoldLeft(Shifted, 0, SubSeq(buf, 1, 8))

\* What it comes to where characters are ASCII: each round shifts the one
\* before out, and the eighth character is left.
Eighth(buf) == buf[8]
=============================================================================
