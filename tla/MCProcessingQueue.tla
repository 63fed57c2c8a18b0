--------------------------- MODULE MCProcessingQueue ---------------------------
(***************************************************************************)
(* TLC instances of ProcessingQueue; no symmetry, a liveness property is   *)
(* checked.                                                                *)
(***************************************************************************)
EXTENDS ProcessingQueue
=============================================================================
