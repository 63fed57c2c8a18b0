----------------------------- MODULE VideoStatus -----------------------------
(***************************************************************************)
(* The lifecycle status of a video row and the table of transitions that   *)
(* every service of the system is meant to respect                         *)
(* (packages/types/src/index.ts).  assertVideoTransition consults the      *)
(* table before most updates, but the raw SQL of the worker's lease and of *)
(* the reconciler writes statuses without consulting it, so the modules    *)
(* that contain those statements check their steps against it.             *)
(***************************************************************************)

VideoStatus ==
    {"DRAFT", "UPLOADING", "UPLOADED", "PROCESSING", "READY", "FAILED", "DELETING"}

(* The row was deleted: a read returns null and no update matches.         *)
GONE == "GONE"

ALLOWED_VIDEO_TRANSITIONS ==
    [ DRAFT      |-> {"UPLOADING", "DELETING"},
      UPLOADING  |-> {"UPLOADED", "FAILED", "DELETING"},
      UPLOADED   |-> {"PROCESSING", "FAILED", "DELETING"},
      PROCESSING |-> {"READY", "FAILED", "DELETING"},
      READY      |-> {"DELETING"},
      FAILED     |-> {"PROCESSING", "DELETING"},
      DELETING   |-> {} ]

CanTransition(from, to) == to \in ALLOWED_VIDEO_TRANSITIONS[from]

(* What an update of the row may do to its status: keep it, follow the     *)
(* table, or, for the last step of a deletion, remove the row.             *)
LegalStatusStep(from, to) ==
    \/ from = to
    \/ from \in VideoStatus /\ to \in VideoStatus /\ CanTransition(from, to)
    \/ from = "DELETING" /\ to = GONE
=============================================================================
