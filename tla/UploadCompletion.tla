--------------------------- MODULE UploadCompletion ---------------------------
(***************************************************************************)
(* From a draft to an accepted upload: the browser's upload form, which    *)
(* asks for a signed policy, posts the bytes to object storage and asks    *)
(* the API to accept them; and the API's start and complete handlers,      *)
(* several of which may run at once because a browser that lost an answer  *)
(* tries again while the first call still runs.  The worker only moves the *)
(* accepted video on, and the owner may delete it from another page.       *)
(*                                                                         *)
(* A POST policy pins key, content type and exact size, so an object that  *)
(* storage accepted is the declared one.  Lost answers, outages and        *)
(* cancellations are bounded by MaxLosses.                                 *)
(***************************************************************************)
EXTENDS Naturals, VideoStatus

CONSTANTS
    Calls,           \* API calls of the form that can be under way at once
    NoCall,          \* the form waits for no call; an object key not yet chosen
    MaxLosses        \* bound on lost answers and outages

ASSUME NoCallAssumption == NoCall \notin Calls
ASSUME MaxLossesAssumption == MaxLosses \in Nat

VARIABLES
    status,          \* Video.status, or GONE
    uploadStatus,    \* VideoUpload.status; "none": no row
    objectKey,       \* VideoUpload.objectKey, named by the call that drew it
    originals,       \* object keys of the ORIGINAL assets
    events,          \* ProcessingOutbox rows written by completions
    stored,          \* keys of the objects in the originals bucket
    call,            \* handler of each call, or its answer
    keyOf,           \* key a call has read or drawn, and goes on to use
    phase,           \* phase of the upload form
    recovery,        \* recovery it offers in phase error or cancelled
    awaited,         \* call it waits for
    target,          \* key its signed policy admits
    losses

upload == <<uploadStatus, objectKey>>
completion == <<status, uploadStatus, originals, events>>
form == <<phase, recovery, awaited, target>>
vars == <<status, upload, originals, events, stored, call, keyOf, form, losses>>

Accepted == {"UPLOADED", "PROCESSING", "READY", "FAILED"}

Handlers == {"start", "claim", "sign", "complete", "head", "commit", "reread"}
Answers == {"ok", "already", "reupload", "conflict", "unavailable"}

(* "requesting" and "sending" are both phase 'uploading' of the form, and  *)
(* "checking" is the look at the owner's view within phase 'finalizing'.   *)
Phases ==
    {"idle", "requesting", "sending", "finalizing", "checking", "observing", "cancelled", "error"}

TypeOK ==
    /\ status \in VideoStatus \cup {GONE}
    /\ uploadStatus \in {"none", "PENDING", "COMPLETED"}
    /\ objectKey \in Calls \cup {NoCall}
    /\ originals \in {{}} \cup {{key} : key \in Calls}
    /\ events \in 0..1
    /\ stored \in SUBSET Calls
    /\ call \in [Calls -> {"none"} \cup Handlers \cup Answers]
    /\ keyOf \in [Calls -> Calls \cup {NoCall}]
    /\ phase \in Phases
    /\ recovery \in {"none", "upload-failed", "completion-uncertain"}
    /\ awaited \in Calls \cup {NoCall} /\ target \in Calls \cup {NoCall}
    /\ losses \in 0..MaxLosses

(* The draft exists and the form knows its id.                             *)
Init ==
    /\ status = "DRAFT"
    /\ uploadStatus = "none" /\ objectKey = NoCall
    /\ originals = {} /\ events = 0 /\ stored = {}
    /\ call = [c \in Calls |-> "none"] /\ keyOf = [c \in Calls |-> NoCall]
    /\ phase = "idle" /\ recovery = "none" /\ awaited = NoCall /\ target = NoCall
    /\ losses = 0

Lose == losses < MaxLosses /\ losses' = losses + 1

-----------------------------------------------------------------------------
(* UploadsService.start.                                                   *)

Step(c, handler) == call' = [call EXCEPT ![c] = handler]
Read(c, key) == keyOf' = [keyOf EXCEPT ![c] = key]

(* Mutation: only a draft gets a policy.                                   *)
SignedAgain_Never == status = "DRAFT" /\ uploadStatus = "PENDING"

(* An upload under way is signed again, under the same key.                *)
SignedAgain == status = "UPLOADING" /\ uploadStatus = "PENDING"

StartRead(c) ==
    /\ call[c] = "start"
    /\ \/ SignedAgain /\ Step(c, "sign") /\ Read(c, objectKey)
       \/ /\ ~SignedAgain /\ UNCHANGED keyOf
          /\ Step(c, IF status = "DRAFT" /\ uploadStatus = "none" THEN "claim" ELSE "conflict")
    /\ UNCHANGED <<completion, objectKey, stored, form, losses>>

(* Mutation: the update does not look at the status again.                 *)
StillDraft_Unguarded == status # GONE

StillDraft == status = "DRAFT"

StartClaim(c) ==
    /\ call[c] = "claim"
    /\ IF StillDraft
       THEN /\ status' = "UPLOADING" /\ uploadStatus' = "PENDING" /\ objectKey' = c
            /\ Step(c, "sign") /\ Read(c, c)
       ELSE UNCHANGED <<status, upload, keyOf>> /\ Step(c, "conflict")
    /\ UNCHANGED <<originals, events, stored, form, losses>>

(* The answer carries the key: keyOf is kept until it is heard.            *)
SignPolicy(c) ==
    /\ call[c] = "sign"
    /\ Step(c, "ok")
    /\ UNCHANGED <<completion, objectKey, stored, keyOf, form, losses>>

-----------------------------------------------------------------------------
(* UploadsService.complete.                                                *)

(* acceptedCompletion                                                      *)
AlreadyAccepted == status \in Accepted /\ uploadStatus = "COMPLETED"

CompleteRead(c) ==
    /\ call[c] = "complete"
    /\ Read(c, objectKey)
    /\ Step(c, IF uploadStatus = "none" THEN "conflict" ELSE IF AlreadyAccepted THEN "already"
               ELSE IF status = "UPLOADING" THEN "head" ELSE "conflict")
    /\ UNCHANGED <<completion, objectKey, stored, form, losses>>

(* The object under the key that was read has the declared size and type.  *)
HeadObject(c) ==
    /\ call[c] = "head"
    /\ Step(c, IF keyOf[c] \in stored THEN "commit" ELSE "reupload")
    /\ UNCHANGED <<completion, objectKey, stored, keyOf, form, losses>>

(* Object storage fails to sign or to answer.                              *)
StorageUnavailable(c) ==
    /\ call[c] \in {"sign", "head"}
    /\ Lose
    /\ Step(c, "unavailable")
    /\ UNCHANGED <<completion, objectKey, stored, keyOf, form>>

(* Mutation: the update is not conditional on the status.                  *)
StillUploading_Unguarded == status # GONE

StillUploading == status = "UPLOADING"

(* The transaction: status, upload, asset and outbox row, or nothing.      *)
CommitCompletion(c) ==
    /\ call[c] = "commit"
    /\ IF StillUploading
       THEN /\ status' = "UPLOADED" /\ uploadStatus' = "COMPLETED"
            /\ originals' = originals \cup {keyOf[c]}
            /\ events' = 1
            /\ Step(c, "ok")
       ELSE UNCHANGED completion /\ Step(c, "reread")
    /\ UNCHANGED <<objectKey, stored, keyOf, form, losses>>

(* The loser of the race reports what the winner did.                      *)
RaceLost(c) ==
    /\ call[c] = "reread"
    /\ Step(c, IF AlreadyAccepted THEN "already" ELSE "conflict")
    /\ UNCHANGED <<completion, objectKey, stored, keyOf, form, losses>>

-----------------------------------------------------------------------------
(* The upload form.                                                        *)

Become(p, r) == phase' = p /\ recovery' = r

Ask(c, handler) ==
    /\ call[c] = "none"
    /\ call' = [call EXCEPT ![c] = handler]
    /\ awaited' = c
    /\ UNCHANGED keyOf

(* What the form sees of the answer it waits for; the call is over.        *)
Hear(answers) ==
    /\ awaited # NoCall
    /\ call[awaited] \in answers
    /\ call' = [call EXCEPT ![awaited] = "none"]
    /\ keyOf' = [keyOf EXCEPT ![awaited] = NoCall]
    /\ awaited' = NoCall

(* Submit, or Retry upload: ask for a policy.                              *)
UploadBytes(c) ==
    /\ phase = "idle" \/ (phase \in {"error", "cancelled"} /\ recovery = "upload-failed")
    /\ Ask(c, "start")
    /\ Become("requesting", "none")
    /\ UNCHANGED <<target, completion, objectKey, stored, losses>>

(* A cancellation meanwhile takes effect when sending begins (BytesFail).  *)
IntentReceived ==
    /\ phase = "requesting"
    /\ Hear({"ok"})
    /\ target' = keyOf[awaited]
    /\ Become("sending", "none")
    /\ UNCHANGED <<completion, objectKey, stored, losses>>

IntentRefused ==
    /\ phase = "requesting"
    /\ Hear({"conflict", "unavailable"})
    /\ Become("error", "upload-failed")
    /\ UNCHANGED <<target, completion, objectKey, stored, losses>>

(* Storage has the object, and the form goes on to finalize.               *)
BytesAccepted(c) ==
    /\ phase = "sending"
    /\ stored' = stored \cup {target}
    /\ Ask(c, "complete")
    /\ Become("finalizing", "none")
    /\ UNCHANGED <<target, completion, objectKey, losses>>

(* Cancelled, refused or interrupted; storage may have the object anyway.  *)
BytesFail ==
    /\ phase = "sending"
    /\ Lose
    /\ stored' \in {stored, stored \cup {target}}
    /\ Become("cancelled", "upload-failed") \/ Become("error", "upload-failed")
    /\ UNCHANGED <<target, completion, objectKey, call, keyOf, awaited>>

RetryFinalization(c) ==
    /\ phase = "error" /\ recovery = "completion-uncertain"
    /\ Ask(c, "complete")
    /\ Become("finalizing", "none")
    /\ UNCHANGED <<target, completion, objectKey, stored, losses>>

CompletionAccepted ==
    /\ phase = "finalizing"
    /\ Hear({"ok", "already"})
    /\ Become("observing", "none")
    /\ UNCHANGED <<target, completion, objectKey, stored, losses>>

(* recoveryForCompletionRejection                                          *)
CompletionRejected ==
    /\ phase = "finalizing"
    /\ Hear({"reupload", "conflict"})
    /\ Become("error", IF call[awaited] = "reupload" THEN "upload-failed" ELSE "completion-uncertain")
    /\ UNCHANGED <<target, completion, objectKey, stored, losses>>

CompletionUnavailable ==
    /\ phase = "finalizing"
    /\ Hear({"unavailable"})
    /\ Become("checking", "none")
    /\ UNCHANGED <<target, completion, objectKey, stored, losses>>

(* The answer is lost or late; the handler runs on.                        *)
AnswerLost ==
    /\ phase \in {"requesting", "finalizing"}
    /\ Lose
    /\ awaited' = NoCall
    /\ IF phase = "requesting" THEN Become("error", "upload-failed") ELSE Become("checking", "none")
    /\ UNCHANGED <<target, completion, objectKey, stored, call, keyOf>>

(* Nobody hears this answer any more.                                      *)
Unheard(c) ==
    /\ c # awaited
    /\ call[c] \in Answers
    /\ Step(c, "none")
    /\ Read(c, NoCall)
    /\ UNCHANGED <<completion, objectKey, stored, form, losses>>

(* Mutation: a video that is still UPLOADING is taken for one without      *)
(* bytes.                                                                  *)
Decision_ReuploadUnlessAccepted ==
    IF status \in Accepted THEN "accepted" ELSE "reupload"

(* Mutation: any upload that exists is taken for an accepted one.          *)
Decision_UploadingIsAccepted ==
    IF status \in Accepted \cup {"UPLOADING"} THEN "accepted" ELSE "reupload"

(* decideFromOwnerState; FAILED has a generation once it was accepted.     *)
Decision ==
    IF status \in Accepted THEN "accepted" ELSE IF status = "UPLOADING" THEN "finalize" ELSE "reupload"

CheckOwnerView ==
    /\ phase = "checking"
    /\ status # GONE
    /\ \/ Decision = "accepted" /\ Become("observing", "none")
       \/ Decision = "finalize" /\ Become("error", "completion-uncertain")
       \/ Decision = "reupload" /\ Become("error", "upload-failed")
    /\ UNCHANGED <<target, completion, objectKey, stored, call, keyOf, awaited, losses>>

OwnerViewUnavailable ==
    /\ phase = "checking"
    /\ \/ status = GONE /\ UNCHANGED losses
       \/ Lose
    /\ Become("error", "completion-uncertain")
    /\ UNCHANGED <<target, completion, objectKey, stored, call, keyOf, awaited>>

-----------------------------------------------------------------------------
(* Everybody else.                                                         *)

(* The worker, the reconciler and the owner's processing retry.  A         *)
(* generation nobody took up fails out of UPLOADED.                        *)
Process ==
    /\ \/ status \in {"UPLOADED", "FAILED"} /\ status' = "PROCESSING"
       \/ status \in {"UPLOADED", "PROCESSING"} /\ status' = "FAILED"
       \/ status = "PROCESSING" /\ status' = "READY"
    /\ UNCHANGED <<upload, originals, events, stored, call, keyOf, form, losses>>

BeginDeletion ==
    /\ status \notin {"DELETING", GONE}
    /\ status' = "DELETING"
    /\ UNCHANGED <<upload, originals, events, stored, call, keyOf, form, losses>>

(* Objects first, then the row and all that cascades from it.              *)
FinishDeletion ==
    /\ status = "DELETING"
    /\ stored' = stored \ (originals \cup {objectKey})
    /\ status' = GONE /\ uploadStatus' = "none" /\ objectKey' = NoCall
    /\ originals' = {} /\ events' = 0
    /\ UNCHANGED <<call, keyOf, form, losses>>

-----------------------------------------------------------------------------
Handle(c) ==
    \/ StartRead(c) \/ StartClaim(c) \/ SignPolicy(c) \/ CompleteRead(c) \/ HeadObject(c)
    \/ CommitCompletion(c) \/ RaceLost(c) \/ Unheard(c)

FormStep ==
    \/ \E c \in Calls : UploadBytes(c) \/ BytesAccepted(c) \/ RetryFinalization(c)
    \/ IntentReceived \/ IntentRefused
    \/ CompletionAccepted \/ CompletionRejected \/ CompletionUnavailable
    \/ CheckOwnerView \/ OwnerViewUnavailable

Next ==
    \/ \E c \in Calls : Handle(c) \/ StorageUnavailable(c)
    \/ FormStep \/ BytesFail \/ AnswerLost
    \/ Process \/ BeginDeletion \/ FinishDeletion

(* Handlers finish, and the person at the form follows what it offers.     *)
Fairness == WF_vars(FormStep) /\ \A c \in Calls : WF_vars(Handle(c))

Spec == Init /\ [][Next]_vars
FairSpec == Spec /\ Fairness

-----------------------------------------------------------------------------
(* An accepted video has exactly one original, which is in storage, and    *)
(* exactly one event that asks for its first generation, however many      *)
(* completions were under way.                                             *)
AcceptedIsBacked ==
    status \in Accepted =>
        /\ uploadStatus = "COMPLETED"
        /\ originals = {objectKey} /\ objectKey \in stored
        /\ events = 1

(* No late completion takes a video back to an earlier status.             *)
LegalTransitions == [][LegalStatusStep(status, status')]_vars

(* The form sends somebody to upload the file again only if the server has *)
(* not accepted it.                                                        *)
ReuploadOnlyIfNeeded == recovery = "upload-failed" => status \notin Accepted

(* The form says "received" only of what the server accepted.              *)
ObservedMeansAccepted == phase = "observing" => status \in Accepted \cup {"DELETING", GONE}

(* Whoever follows the form's offers gets the upload accepted, unless the  *)
(* video is deleted.                                                       *)
UploadIsAccepted == <>(phase = "observing" \/ status \in {"DELETING", GONE})
=============================================================================
