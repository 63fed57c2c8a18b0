---------------------------- MODULE MCWorkerShutdown ----------------------------
(***************************************************************************)
(* TLC instance of WorkerShutdown.  The streams: one on its side, with two  *)
(* renditions and odd sides, one below the ladder with odd sides, and one   *)
(* that is no picture.                                                      *)
(***************************************************************************)
EXTENDS WorkerShutdown

Stream(w, h, rotation) == [width |-> w, height |-> h, rotation |-> rotation]

SomeStreams == {Stream(483, 273, 270), Stream(203, 101, 0), Stream(1, 1, 0)}
=============================================================================
