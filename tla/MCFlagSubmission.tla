-------------------------- MODULE MCFlagSubmission --------------------------
(* Small instances of FlagSubmission for TLC. *)
EXTENDS FlagSubmission, TLC

CONSTANTS a, b, c1, c2

\* Both connections belong to the attacking team.
SameTeam == c1 :> a @@ c2 :> a

\* One connection of each team.
EachTeam == c1 :> a @@ c2 :> b
=============================================================================
