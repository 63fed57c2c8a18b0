-------------------------- MODULE MCUploadCompletion --------------------------
(***************************************************************************)
(* TLC instance of UploadCompletion.                                       *)
(***************************************************************************)
EXTENDS UploadCompletion
=============================================================================
