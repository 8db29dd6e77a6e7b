----------------------------- MODULE CheckTiming -----------------------------
(***************************************************************************)
(* When a round's checks are sent (game.rs checker_task_buffer,            *)
(* check_services and check_services_for_round), in seconds from the       *)
(* spawn of their task.  D is the duration of a round.  The tasks' own     *)
(* work takes no time here; what it takes is added to the sleeps.          *)
(***************************************************************************)
EXTENDS Integers

\* checker_task_buffer: a fifth of the round in f64, rounded up.
Buffer(D) == (D + 4) \div 5

\* random::<u64>() % n, which panics for n = 0.
Modulo(n) == {j \in Nat : j < n}

\* check_services_for_round.  Durations are u64: a negative one is an overflow.
TimeLeft(D) == D - 2 * Buffer(D)

\* A sleep of the buffer and of a jitter precedes each of the two checks; the
\* first jitter is taken from the time that is left for the second one.
FirstJitters(D) == Modulo(TimeLeft(D) \div 2)
SecondJitters(D, j) == Modulo((TimeLeft(D) - j) \div 2)

FirstCheck(D, j)     == Buffer(D) + j
SecondCheck(D, j, k) == FirstCheck(D, j) + Buffer(D) + k

\* check_services sleeps for a jitter, asks, and sleeps for the rest of a
\* round's duration.
SweepJitters(D) == Modulo(D - Buffer(D))
SweepRest(D, j) == D - j
=============================================================================
