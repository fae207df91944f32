--------------------------- MODULE MCFileVersions ---------------------------
(* A small instance of FileVersions for TLC.                               *)
EXTENDS FileVersions

\* Up to two earlier versions, one of whose numbers, or the next but one, may
\* also be a reservation left by a dead process.
EarlierVersions == {1, 2}
LeftReserved == {1, 3}
=============================================================================
