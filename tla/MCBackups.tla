----------------------------- MODULE MCBackups -----------------------------
(* Small instances of Backups for TLC: the clock shows three times, and the *)
(* backups there at first may be as late as a job of the run.               *)
EXTENDS Backups

Clock == 1..3
EarlierTimes == {1, 2}
=============================================================================
