----------------------------- MODULE MCArchive -----------------------------
(***************************************************************************)
(* Instances of Archive: d1 and d2 derive the same run identity, d3 has    *)
(* one of its own and `bad` is refused by admit().                         *)
(***************************************************************************)
EXTENDS Archive

CONSTANTS d1, d2, d3, bad, r1, r2

\* Two of the documents share an identity.
Identity == [d \in Doc |-> IF d \in {d1, d2} THEN r1 ELSE r2]

Admitted == Doc \ {bad}

=============================================================================
