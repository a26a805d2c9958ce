--------------------------- MODULE MCInplaceBench ---------------------------
(* Model-checking instance of InplaceBench. *)
EXTENDS InplaceBench

\* Words that differ in every bit from some other.
MCData == [i \in 0 .. 2 |-> IF i = 0 THEN 0 ELSE 4 + i]
=============================================================================
