------------------------------ MODULE MCSqlTable ------------------------------
(***************************************************************************)
(* An instance of SqlTable for TLC: a nullable field before a NOT NULL one. *)
(***************************************************************************)
EXTENDS SqlTable, TLC

CONSTANTS user_phone, user_name

PhoneAndName == <<user_phone, user_name>>

\* Objects are alike.
Symmetry == Permutations(Objects)
=============================================================================
