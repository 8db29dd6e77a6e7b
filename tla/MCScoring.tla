------------------------------ MODULE MCScoring ------------------------------
(* Small instances of Scoring for TLC. *)
EXTENDS Scoring, TLC

CONSTANTS a, b, c

\* 0, 1, 2^0.75 and 3^0.75, in sixths of a point.
Sixths == [n \in 0..Cardinality(Teams) |-> <<0, 6, 10, 14>>[n + 1]]

\* The attackers are interchangeable.
AttackerSymmetry == Permutations(Teams \ Victims)
=============================================================================
