---------------------------- MODULE MCPublication ----------------------------
(***************************************************************************)
(* TLC instance of Publication.                                            *)
(***************************************************************************)
EXTENDS Publication
=============================================================================
