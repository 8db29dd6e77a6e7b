--------------------------- MODULE MCServiceState ---------------------------
(* Small instances of ServiceState for TLC. *)
EXTENDS ServiceState, TLC

CONSTANTS web, dns, s1, s2, k1, k2, k3

\* Tasks are interchangeable.
TaskSymmetry == Permutations(Tasks)
=============================================================================
