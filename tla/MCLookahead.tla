----------------------------- MODULE MCLookahead -----------------------------
EXTENDS Lookahead, TLC

(* The gateways are interchangeable, and every property quantifies over    *)
(* all of them.                                                            *)
Symmetry == Permutations(Operators)
=============================================================================
