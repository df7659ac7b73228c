--------------------------- MODULE MCSqlite3Client ---------------------------
(***************************************************************************)
(* An instance of Sqlite3Client for TLC.                                   *)
(***************************************************************************)
EXTENDS Sqlite3Client, TLC

\* Clients are alike.
Symmetry == Permutations(Clients)
=============================================================================
