-------------------------- MODULE MCAttemptOwnership --------------------------
(***************************************************************************)
(* TLC instance of AttemptOwnership: the executions are interchangeable.   *)
(***************************************************************************)
EXTENDS AttemptOwnership, TLC

Symmetry == Permutations(Executions)
=============================================================================
