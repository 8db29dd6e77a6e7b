---------------------------- MODULE MCCheckerBot ----------------------------
(* Small instances of CheckerBot for TLC. *)
EXTENDS CheckerBot, TLC

CONSTANTS web, dns, loop, check, w1, w2, w3, w4, d1, d2

\* Four requests for one service, of which a task sends three, and two for the other.
OfService == [r \in Requests |-> IF r \in {d1, d2} THEN dns ELSE web]
InTurn == loop :> <<w1, w2, d1, w3>> @@ check :> <<w4, d2>>
=============================================================================
