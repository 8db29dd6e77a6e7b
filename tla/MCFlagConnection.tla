-------------------------- MODULE MCFlagConnection --------------------------
(* Small instances of FlagConnection for TLC. *)
EXTENDS FlagConnection, TLC

CONSTANTS a, b, c1, c2, c3

\* Two connections of a team, and one of another.
TwoTeams == [c \in Conns |-> IF c = c3 THEN b ELSE a]

\* A limit of two flags of a kind, and of one flag of one's own.
Limits == [s \in Limited |-> IF s = "SelfFlag" THEN 1 ELSE 2]

\* One long connection, and a short one.
Lines == [c \in Conns |-> IF c = c1 THEN 3 ELSE 1]
ManyLines == [c \in Conns |-> 4]
=============================================================================
