----------------------------- MODULE StateMerge -----------------------------
(***************************************************************************)
(* service.rs: the states of a service as the numbers the code compares,   *)
(* and the rule by which a new observation replaces the recorded state of  *)
(* a round.  The reason a Mumble or Corrupt carries is left out.           *)
(***************************************************************************)
EXTENDS Integers, Sequences, SequencesExt

Unknown    == 1
Up         == 2
Recovering == 3
Mumble     == 4
Corrupt    == 5
Down       == 6

State == 1..6

\* Mutant: a later Up is believed.
ShouldUpdate_AnyUp(previous, new) == new = Up \/ previous <= new

\* Up replaces only Unknown (or Up); any other state replaces one that is not
\* worse.
ShouldUpdate(previous, new) ==
    IF new = Up THEN previous \in {Unknown, Up} ELSE previous <= new

Merge(previous, new) == IF ShouldUpdate(previous, new) THEN new ELSE previous

\* Observations merged one after the other, as they come, from `start`.
Fold(start, states) == FoldLeft(Merge, start, states)
=============================================================================
