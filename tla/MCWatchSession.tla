----------------------------- MODULE MCWatchSession -----------------------------
(***************************************************************************)
(* TLC instance of WatchSession.                                            *)
(***************************************************************************)
EXTENDS WatchSession

AllRecoveries == [network |-> 2, media |-> 1]
=============================================================================
