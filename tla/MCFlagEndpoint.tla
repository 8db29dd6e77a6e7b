--------------------------- MODULE MCFlagEndpoint ---------------------------
(* Small instances of FlagEndpoint for TLC. *)
EXTENDS FlagEndpoint, TLC

CONSTANTS a, stranger, c1, c2, c3, c4, h1, h2

\* All connections but c4, if it is one, are of the team.
OneStranger == [c \in Conns |-> IF c = c4 THEN stranger ELSE a]

Symmetry == Permutations({c1, c2, c3}) \cup Permutations({h1, h2})
=============================================================================
