-------------------------- MODULE SubmissionCredit --------------------------
(***************************************************************************)
(* What the framework promises a team for the flags it submits, without    *)
(* connections, channels or tables: a pair of an attacker and a flag is    *)
(* credited in the round being played and becomes settled when that round  *)
(* is finished.  A crash may take back what the open round credited, never *)
(* what is settled.  Each pair counts once.                                *)
(***************************************************************************)
CONSTANT Pairs      \* the pairs that may be credited: not a team's own flag

VARIABLES
    open,           \* credited in the round being played
    settled         \* credited in finished rounds

Init == open = {} /\ settled = {}

\* A submission reaches the journal, in the open round or, late, in a round
\* that is already finished.
Accept(p) ==
    \/ p \notin settled /\ open' = open \cup {p} /\ UNCHANGED settled
    \/ settled' = settled \cup {p} /\ open' = open \ {p}

FinishRound == settled' = settled \cup open /\ open' = {}

Abandon == open' = {} /\ UNCHANGED settled

Next == FinishRound \/ Abandon \/ \E p \in Pairs : Accept(p)

Spec == Init /\ [][Next]_<<open, settled>>
=============================================================================
