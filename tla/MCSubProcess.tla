----------------------------- MODULE MCSubProcess -----------------------------
(***************************************************************************)
(* SubProcess for TLC.                                                     *)
(***************************************************************************)
EXTENDS SubProcess, TLC

\* The subprocesses and the files differ in their names only; TLC uses this
\* with invariants, not with liveness.
Symmetry == Permutations(Subs) \cup Permutations(Files)
=============================================================================
