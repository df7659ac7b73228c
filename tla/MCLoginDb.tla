----------------------------- MODULE MCLoginDb ------------------------------
(***************************************************************************)
(* Instances of LoginDb for TLC: a user with one row and a name with none. *)
(***************************************************************************)
EXTENDS LoginDb, TLC

CONSTANTS t1, t2, mumu, lala

OneThread  == {t1}
TwoThreads == {t1, t2}

TwoUsers  == {mumu, lala}
RowsOfTwo == (mumu :> 1) @@ (lala :> 0)
=============================================================================
