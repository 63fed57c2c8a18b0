-------------------------- MODULE GenerationLifecycle --------------------------
(***************************************************************************)
(* What the processing of a video promises to its owner and its viewers,   *)
(* with no worker, queue, lease or storage in sight: a status, the number  *)
(* of the generation last requested, and the generation whose output a     *)
(* viewer is served (0: none).  READY appears together with the complete   *)
(* output of the generation that is current at that moment, and the output *)
(* never changes again until the owner deletes the video.                  *)
(***************************************************************************)
EXTENDS Naturals, VideoStatus

VARIABLES status, generation, output

vars == <<status, generation, output>>

Init == status = "UPLOADED" /\ generation = 1 /\ output = 0

(* The first attempt of a generation starts.                               *)
Start ==
    /\ status = "UPLOADED"
    /\ status' = "PROCESSING"
    /\ UNCHANGED <<generation, output>>

Publish ==
    /\ status = "PROCESSING"
    /\ status' = "READY"
    /\ output' = generation
    /\ UNCHANGED generation

Fail ==
    /\ status \in {"UPLOADED", "PROCESSING"}
    /\ status' = "FAILED"
    /\ UNCHANGED <<generation, output>>

Retry ==
    /\ status = "FAILED"
    /\ status' = "PROCESSING"
    /\ generation' = generation + 1
    /\ UNCHANGED output

(* From the moment deletion is accepted nothing is served any more.        *)
Delete ==
    /\ status # GONE
    /\ status' = "DELETING"
    /\ output' = 0
    /\ UNCHANGED generation

Remove ==
    /\ status = "DELETING"
    /\ status' = GONE
    /\ UNCHANGED <<generation, output>>

Next == Start \/ Publish \/ Fail \/ Retry \/ Delete \/ Remove

Spec == Init /\ [][Next]_vars
=============================================================================
