------------------------------- MODULE RowLog -------------------------------
(***************************************************************************)
(* What the table behind the cache promises whoever writes to it: the ids  *)
(* it hands out are positions of a log.  Rows are only ever appended, each *)
(* under the next id, and a row never moves, changes or disappears.        *)
(* CacheServer implements it although no writer holds a lock between       *)
(* reading max(Id) and inserting.                                          *)
(***************************************************************************)
EXTENDS Sequences

CONSTANT Rows
VARIABLE log

Init == log \in Seq(Rows)

AppendRow == \E row \in Rows : log' = Append(log, row)

Spec == Init /\ [][AppendRow]_log

=============================================================================
