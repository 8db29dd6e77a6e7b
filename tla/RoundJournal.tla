---------------------------- MODULE RoundJournal ----------------------------
(***************************************************************************)
(* The queries and updates of the `rounds` table (db.rs, struct            *)
(* RoundJournal).  A table is a sequence of rows; the autoincrement id of  *)
(* a row is its position, so "ORDER BY id" is the order of the sequence.   *)
(* A row keeps what the code reads back: the round number and the          *)
(* `finished` flag.  initialize_database inserts the row of round 0, so    *)
(* the table is never empty and always holds a finished row.               *)
(***************************************************************************)
EXTENDS Integers, Sequences

\* One row of the table.
Row == [number : Nat, finished : BOOLEAN]

\* The table that the `init` subcommand leaves behind.
InitialRounds == <<[number |-> 0, finished |-> TRUE]>>

FinishedRows(rs) == {i \in DOMAIN rs : rs[i].finished}

\* SELECT ... WHERE finished = 1 ORDER BY id DESC LIMIT 1
LastFinished(rs) ==
    CHOOSE i \in FinishedRows(rs) : \A j \in FinishedRows(rs) : j <= i

\* Mutant: continue after the newest row, abandoned or not.
StartNewRound_AfterNewestRow(rs) ==
    Append(rs, [number |-> rs[Len(rs)].number + 1, finished |-> FALSE])

\* INSERT with the number that follows the last finished one; an unfinished
\* row that a crash left behind does not count.
StartNewRound(rs) ==
    Append(rs, [number |-> rs[LastFinished(rs)].number + 1, finished |-> FALSE])

\* UPDATE rounds SET finished = 1 WHERE id = i
MarkFinished(rs, i) == [rs EXCEPT ![i].finished = TRUE]

\* SELECT ... ORDER BY id DESC LIMIT 1, abandoned or not.
CurrentRow(rs) == Len(rs)

\* SELECT ... WHERE finished = 1 ORDER BY id: the first row of a set of rows.
FirstRow(rows) == CHOOSE i \in rows : \A j \in rows : i <= j

\* A round of number 0 holds no flags: it only marks an initialised database.
IsRoundZero(rs, i) == rs[i].number = 0
=============================================================================
