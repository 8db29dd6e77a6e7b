----------------------------- MODULE CheckFlags -----------------------------
(***************************************************************************)
(* The verdict of check_flags (game.rs): which earlier rounds' flags are   *)
(* checked, what the answers for one round amount to, and the state that   *)
(* is recorded for the current round.                                      *)
(***************************************************************************)
EXTENDS RoundJournal, StateMerge, FiniteSets

\* The last n finished rounds, without round 0.
CheckedRounds(rs, n) ==
    {i \in FinishedRows(rs) : Cardinality({j \in FinishedRows(rs) : j > i}) < n}
        \ {i \in DOMAIN rs : IsRoundZero(rs, i)}

\* Status of a round: its flags' answers merged into Unknown, as they come; a
\* flag without a token is not asked about, a failed request has no answer.
StatusOf(answers) == Fold(Unknown, answers)

\* ceil(n * 0.80), exact in f64 because the product of a multiple of 5 rounds
\* to an integer.
FourFifths(n) == (4 * n + 4) \div 5

SaturatingPred(n) == IF n = 0 THEN 0 ELSE n - 1

\* The newest checked round decides unless it is Up; then enough of the older
\* ones must be Up as well.
Verdict(status, flagLife) ==
    LET rows  == DOMAIN status
        last  == CHOOSE i \in rows : \A j \in rows : j <= i
        older == rows \ {last}
        up    == {i \in older : status[i] = Up}
        quota == FourFifths(SaturatingPred(flagLife))
    IN  IF status[last] # Up THEN status[last]
        ELSE IF Cardinality(up) >= Cardinality(older) \/ Cardinality(up) >= quota
             THEN Up ELSE Recovering
=============================================================================
