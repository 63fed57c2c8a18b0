------------------------------ MODULE MCLeaseClock ------------------------------
(***************************************************************************)
(* TLC instance of LeaseClock: executions are interchangeable.             *)
(***************************************************************************)
EXTENDS LeaseClock, TLC

Symmetry == Permutations(Executions)
=============================================================================
