--------------------------- MODULE MCInFlightCommit ---------------------------
(***************************************************************************)
(* TLC instance of InFlightCommit: one execution is enough to show what an *)
(* unfinished commit does to the cleanup.                                  *)
(***************************************************************************)
EXTENDS InFlightCommit
=============================================================================
