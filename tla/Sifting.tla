-------------------------------- MODULE Sifting ----------------------------
(***************************************************************************)
(* A filter of a sequence: the code's filter() and retain().  It is what   *)
(* SelectSeq is, by a set instead of a test, and written out as a          *)
(* recursive function because that can be reasoned about.                  *)
(***************************************************************************)
EXTENDS Naturals, Sequences

\* The elements of s that are in P, in their order.
Sifted(s, P) ==
  LET upto[i \in 0..Len(s)] ==
        IF i = 0 THEN <<>>
        ELSE IF s[i] \in P THEN Append(upto[i - 1], s[i]) ELSE upto[i - 1]
  IN  upto[Len(s)]
=============================================================================
