------------------------ MODULE UploadCompletion_proofs ------------------------
(***************************************************************************)
(* Proofs about UploadCompletion, for any number of overlapping calls and  *)
(* any number of lost answers.                                             *)
(***************************************************************************)
EXTENDS UploadCompletion, TLAPS

Deleted == {"DELETING", GONE}

(* What the row says of its upload, before and after it is accepted.       *)
RowIsConsistent ==
    /\ status = "DRAFT" => uploadStatus = "none" /\ originals = {} /\ events = 0
    /\ status = "UPLOADING" => uploadStatus = "PENDING" /\ originals = {}
    /\ uploadStatus # "none" => objectKey \in Calls

(* A handler that has read or drawn a key goes on with the row's own key,  *)
(* and one that will commit has seen the object.                           *)
KeysInFlight ==
    \A c \in Calls : call[c] \in {"sign", "ok", "head", "commit"} =>
        /\ keyOf[c] \in Calls
        /\ status # "DRAFT"
        /\ status \notin Deleted => keyOf[c] = objectKey
        /\ call[c] = "commit" /\ status \notin Deleted => keyOf[c] \in stored

(* What has been answered stays true until the video is deleted.           *)
AnswersHold ==
    \A c \in Calls :
        /\ call[c] = "already" => status \in Accepted \cup Deleted
        /\ call[c] = "reupload" => status \in Deleted

(* A recovery is offered when nothing is under way.                        *)
RecoveryAtRest == recovery # "none" => phase \in {"error", "cancelled"}

(* The form has not asked for a completion since it last asked for bytes.  *)
Uploading == phase \in {"idle", "requesting", "sending"} \/ recovery = "upload-failed"

(* While the form may send bytes no completion is under way, unless it is  *)
(* too late for it.                                                        *)
NoCompletionWhileUploading ==
    Uploading => \/ status \in Deleted
                 \/ /\ status \in {"DRAFT", "UPLOADING"}
                    /\ \A c \in Calls : call[c] \notin {"complete", "head", "commit"}

(* Storage has the object before the form asks for the completion.         *)
BytesBeforeCompletion ==
    /\ phase = "sending" =>
          target \in Calls /\ status # "DRAFT" /\ (status \notin Deleted => target = objectKey)
    /\ ~Uploading => status # "DRAFT" /\ (status = "UPLOADING" => objectKey \in stored)

(* A form that finalizes waits for a completion and not for a start.       *)
AwaitsCompletion ==
    phase = "finalizing" =>
        /\ awaited \in Calls
        /\ call[awaited] \in {"complete", "head", "commit", "reread"} \cup Answers
        /\ call[awaited] = "ok" => status \in Accepted \cup Deleted

IInv ==
    /\ TypeOK
    /\ RowIsConsistent
    /\ AcceptedIsBacked
    /\ KeysInFlight
    /\ AnswersHold
    /\ NoCompletionWhileUploading
    /\ RecoveryAtRest
    /\ BytesBeforeCompletion
    /\ AwaitsCompletion
    /\ ObservedMeansAccepted

(* A start reads the row.                                                  *)
LEMMA StartReadIInv ==
    ASSUME IInv, NEW c \in Calls, StartRead(c)
    PROVE  IInv'
<1>1. TypeOK'
    BY DEF
        IInv, StartRead, Step, Read, SignedAgain, upload, completion, form,
        TypeOK, Handlers, Answers
<1>2. RowIsConsistent' /\ AcceptedIsBacked'
    BY DEF
        IInv, StartRead, Step, Read, SignedAgain, upload, completion,
        RowIsConsistent, AcceptedIsBacked
<1>3. KeysInFlight'
    BY DEF
        IInv, StartRead, Step, Read, SignedAgain, upload, completion, form,
        TypeOK, KeysInFlight, RowIsConsistent
<1>4. AnswersHold'
    BY DEF
        IInv, StartRead, Step, Read, SignedAgain, upload, completion, form,
        TypeOK, AnswersHold
<1>5. NoCompletionWhileUploading'
    BY DEF
        IInv, StartRead, Step, Read, SignedAgain, upload, completion, form,
        TypeOK, NoCompletionWhileUploading, Uploading
<1>6. RecoveryAtRest' /\ BytesBeforeCompletion'
    BY DEF
        IInv, StartRead, Step, Read, SignedAgain, upload, completion, form,
        RecoveryAtRest, TypeOK, BytesBeforeCompletion, Uploading
<1>7. AwaitsCompletion' /\ ObservedMeansAccepted'
    BY DEF
        IInv, StartRead, Step, Read, SignedAgain, upload, completion, form,
        TypeOK, AwaitsCompletion, ObservedMeansAccepted, Answers
<1>8. QED BY <1>1, <1>2, <1>3, <1>4, <1>5, <1>6, <1>7 DEF IInv

(* A start claims the draft, or finds it taken.                            *)
LEMMA StartClaimIInv ==
    ASSUME IInv, NEW c \in Calls, StartClaim(c)
    PROVE  IInv'
<1>1. TypeOK'
    BY DEF
        IInv, StartClaim, Step, Read, StillDraft, upload, completion, form,
        TypeOK, VideoStatus, Handlers, Answers
<1>2. RowIsConsistent' /\ AcceptedIsBacked'
    BY DEF
        IInv, StartClaim, Step, Read, StillDraft, upload, completion,
        RowIsConsistent, AcceptedIsBacked, Accepted
<1>3. KeysInFlight'
    BY DEF
        IInv, StartClaim, Step, Read, StillDraft, upload, completion, form,
        TypeOK, KeysInFlight
<1>4. AnswersHold'
    BY DEF
        IInv, StartClaim, Step, Read, StillDraft, upload, completion, form,
        TypeOK, AnswersHold, KeysInFlight, AcceptedIsBacked,
        NoCompletionWhileUploading, Accepted, Deleted, GONE
<1>5. NoCompletionWhileUploading'
    BY DEF
        IInv, StartClaim, Step, Read, StillDraft, upload, completion, form,
        TypeOK, NoCompletionWhileUploading, Uploading, Deleted, GONE
<1>6. RecoveryAtRest' /\ BytesBeforeCompletion'
    BY DEF
        IInv, StartClaim, Step, Read, StillDraft, upload, completion, form,
        RecoveryAtRest, TypeOK, BytesBeforeCompletion, Uploading
<1>7. AwaitsCompletion' /\ ObservedMeansAccepted'
    BY DEF
        IInv, StartClaim, Step, Read, StillDraft, upload, completion, form,
        TypeOK, AwaitsCompletion, AnswersHold, ObservedMeansAccepted,
        Accepted, Answers, Deleted, GONE
<1>8. QED BY <1>1, <1>2, <1>3, <1>4, <1>5, <1>6, <1>7 DEF IInv

(* A start signs a policy for its key.                                     *)
LEMMA SignPolicyIInv ==
    ASSUME IInv, NEW c \in Calls, SignPolicy(c)
    PROVE  IInv'
<1>1. TypeOK'
    BY DEF
        IInv, SignPolicy, Step, upload, completion, form, TypeOK, Answers
<1>2. RowIsConsistent' /\ AcceptedIsBacked'
    BY DEF
        IInv, SignPolicy, Step, upload, completion, RowIsConsistent,
        AcceptedIsBacked
<1>3. KeysInFlight'
    BY DEF
        IInv, SignPolicy, Step, upload, completion, form, KeysInFlight
<1>4. AnswersHold'
    BY DEF
        IInv, SignPolicy, Step, upload, completion, form, TypeOK, AnswersHold
<1>5. NoCompletionWhileUploading'
    BY DEF
        IInv, SignPolicy, Step, upload, completion, form,
        NoCompletionWhileUploading, Uploading
<1>6. RecoveryAtRest' /\ BytesBeforeCompletion'
    BY DEF
        IInv, SignPolicy, Step, upload, completion, form, RecoveryAtRest,
        TypeOK, BytesBeforeCompletion, Uploading
<1>7. AwaitsCompletion' /\ ObservedMeansAccepted'
    BY DEF
        IInv, SignPolicy, Step, upload, completion, form, TypeOK,
        AwaitsCompletion, ObservedMeansAccepted, Answers
<1>8. QED BY <1>1, <1>2, <1>3, <1>4, <1>5, <1>6, <1>7 DEF IInv

(* A completion reads the row.                                             *)
LEMMA CompleteReadIInv ==
    ASSUME IInv, NEW c \in Calls, CompleteRead(c)
    PROVE  IInv'
<1>1. TypeOK'
    BY DEF
        IInv, CompleteRead, Step, Read, AlreadyAccepted, upload, completion,
        form, TypeOK, Handlers, Answers
<1>2. RowIsConsistent' /\ AcceptedIsBacked'
    BY DEF
        IInv, CompleteRead, Step, Read, AlreadyAccepted, upload, completion,
        RowIsConsistent, AcceptedIsBacked
<1>3. KeysInFlight'
    BY DEF
        IInv, CompleteRead, Step, Read, AlreadyAccepted, upload, completion,
        form, TypeOK, KeysInFlight, RowIsConsistent
<1>4. AnswersHold'
    BY DEF
        IInv, CompleteRead, Step, Read, AlreadyAccepted, upload, completion,
        form, TypeOK, AnswersHold
<1>5. NoCompletionWhileUploading'
    BY DEF
        IInv, CompleteRead, Step, Read, AlreadyAccepted, upload, completion,
        form, NoCompletionWhileUploading, Uploading
<1>6. RecoveryAtRest' /\ BytesBeforeCompletion'
    BY DEF
        IInv, CompleteRead, Step, Read, AlreadyAccepted, upload, completion,
        form, RecoveryAtRest, TypeOK, BytesBeforeCompletion, Uploading
<1>7. AwaitsCompletion' /\ ObservedMeansAccepted'
    BY DEF
        IInv, CompleteRead, Step, Read, AlreadyAccepted, upload, completion,
        form, TypeOK, AwaitsCompletion, ObservedMeansAccepted, Answers
<1>8. QED BY <1>1, <1>2, <1>3, <1>4, <1>5, <1>6, <1>7 DEF IInv

(* A completion looks for the object.                                      *)
LEMMA HeadObjectIInv ==
    ASSUME IInv, NEW c \in Calls, HeadObject(c)
    PROVE  IInv'
<1>1. TypeOK'
    BY DEF
        IInv, HeadObject, Step, upload, completion, form, TypeOK, Handlers,
        Answers
<1>2. RowIsConsistent' /\ AcceptedIsBacked'
    BY DEF
        IInv, HeadObject, Step, upload, completion, RowIsConsistent,
        AcceptedIsBacked
<1>3. KeysInFlight'
    BY DEF
        IInv, HeadObject, Step, upload, completion, form, KeysInFlight
<1>4. AnswersHold'
    BY DEF
        IInv, HeadObject, Step, upload, completion, form, TypeOK, AnswersHold,
        KeysInFlight, AcceptedIsBacked, NoCompletionWhileUploading,
        BytesBeforeCompletion, Accepted, Deleted, VideoStatus
<1>5. NoCompletionWhileUploading'
    BY DEF
        IInv, HeadObject, Step, upload, completion, form,
        NoCompletionWhileUploading, Uploading
<1>6. RecoveryAtRest' /\ BytesBeforeCompletion'
    BY DEF
        IInv, HeadObject, Step, upload, completion, form, RecoveryAtRest,
        TypeOK, BytesBeforeCompletion, Uploading
<1>7. AwaitsCompletion' /\ ObservedMeansAccepted'
    BY DEF
        IInv, HeadObject, Step, upload, completion, form, TypeOK,
        AwaitsCompletion, ObservedMeansAccepted, Answers
<1>8. QED BY <1>1, <1>2, <1>3, <1>4, <1>5, <1>6, <1>7 DEF IInv

(* A completion commits, or finds that it lost a race.                     *)
LEMMA CommitCompletionIInv ==
    ASSUME IInv, NEW c \in Calls, CommitCompletion(c)
    PROVE  IInv'
<1>1. TypeOK'
    BY DEF
        IInv, CommitCompletion, Step, StillUploading, upload, completion,
        form, TypeOK, VideoStatus, Handlers, Answers, RowIsConsistent,
        KeysInFlight
<1>2. RowIsConsistent' /\ AcceptedIsBacked'
    BY DEF
        IInv, CommitCompletion, Step, StillUploading, upload, completion,
        form, TypeOK, RowIsConsistent, AcceptedIsBacked, KeysInFlight,
        Deleted, GONE
<1>3. KeysInFlight'
    BY DEF
        IInv, CommitCompletion, Step, StillUploading, upload, completion,
        form, TypeOK, KeysInFlight, Accepted, Deleted, GONE
<1>4. AnswersHold'
    BY DEF
        IInv, CommitCompletion, Step, StillUploading, upload, completion,
        form, TypeOK, AnswersHold, KeysInFlight, AcceptedIsBacked,
        NoCompletionWhileUploading, Accepted, Deleted, GONE
<1>5. NoCompletionWhileUploading'
    BY DEF
        IInv, CommitCompletion, Step, StillUploading, upload, completion,
        form, TypeOK, NoCompletionWhileUploading, Uploading, Deleted, GONE
<1>6. RecoveryAtRest' /\ BytesBeforeCompletion'
    BY DEF
        IInv, CommitCompletion, Step, StillUploading, upload, completion,
        form, RecoveryAtRest, TypeOK, NoCompletionWhileUploading,
        BytesBeforeCompletion, Deleted, GONE
<1>7. AwaitsCompletion' /\ ObservedMeansAccepted'
    BY DEF
        IInv, CommitCompletion, Step, StillUploading, upload, completion,
        form, TypeOK, AwaitsCompletion, ObservedMeansAccepted, Accepted,
        Answers
<1>8. QED BY <1>1, <1>2, <1>3, <1>4, <1>5, <1>6, <1>7 DEF IInv

(* The loser of a race reads the row again.                                *)
LEMMA RaceLostIInv ==
    ASSUME IInv, NEW c \in Calls, RaceLost(c)
    PROVE  IInv'
<1>1. TypeOK'
    BY DEF
        IInv, RaceLost, Step, AlreadyAccepted, upload, completion, form,
        TypeOK, Answers
<1>2. RowIsConsistent' /\ AcceptedIsBacked'
    BY DEF
        IInv, RaceLost, Step, AlreadyAccepted, upload, completion,
        RowIsConsistent, AcceptedIsBacked
<1>3. KeysInFlight'
    BY DEF
        IInv, RaceLost, Step, AlreadyAccepted, upload, completion, form,
        KeysInFlight
<1>4. AnswersHold'
    BY DEF
        IInv, RaceLost, Step, AlreadyAccepted, upload, completion, form,
        TypeOK, AnswersHold
<1>5. NoCompletionWhileUploading'
    BY DEF
        IInv, RaceLost, Step, AlreadyAccepted, upload, completion, form,
        NoCompletionWhileUploading, Uploading
<1>6. RecoveryAtRest' /\ BytesBeforeCompletion'
    BY DEF
        IInv, RaceLost, Step, AlreadyAccepted, upload, completion, form,
        RecoveryAtRest, TypeOK, BytesBeforeCompletion, Uploading
<1>7. AwaitsCompletion' /\ ObservedMeansAccepted'
    BY DEF
        IInv, RaceLost, Step, AlreadyAccepted, upload, completion, form,
        TypeOK, AwaitsCompletion, ObservedMeansAccepted, Answers
<1>8. QED BY <1>1, <1>2, <1>3, <1>4, <1>5, <1>6, <1>7 DEF IInv

(* Nobody hears an answer.                                                 *)
LEMMA UnheardIInv ==
    ASSUME IInv, NEW c \in Calls, Unheard(c)
    PROVE  IInv'
<1>1. TypeOK'
    BY DEF
        IInv, Unheard, Step, Read, upload, completion, form, TypeOK
<1>2. RowIsConsistent' /\ AcceptedIsBacked'
    BY DEF
        IInv, Unheard, Step, Read, upload, completion, RowIsConsistent,
        AcceptedIsBacked
<1>3. KeysInFlight'
    BY DEF
        IInv, Unheard, Step, Read, upload, completion, form, TypeOK,
        KeysInFlight
<1>4. AnswersHold'
    BY DEF
        IInv, Unheard, Step, Read, upload, completion, form, TypeOK,
        AnswersHold
<1>5. NoCompletionWhileUploading'
    BY DEF
        IInv, Unheard, Step, Read, upload, completion, form,
        NoCompletionWhileUploading, Uploading
<1>6. RecoveryAtRest' /\ BytesBeforeCompletion'
    BY DEF
        IInv, Unheard, Step, Read, upload, completion, form, RecoveryAtRest,
        TypeOK, BytesBeforeCompletion, Uploading
<1>7. AwaitsCompletion' /\ ObservedMeansAccepted'
    BY DEF
        IInv, Unheard, Step, Read, upload, completion, form, TypeOK,
        AwaitsCompletion, ObservedMeansAccepted
<1>8. QED BY <1>1, <1>2, <1>3, <1>4, <1>5, <1>6, <1>7 DEF IInv

(* Storage does not answer.                                                *)
LEMMA StorageUnavailableIInv ==
    ASSUME IInv, NEW c \in Calls, StorageUnavailable(c)
    PROVE  IInv'
<1>1. TypeOK'
    BY MaxLossesAssumption DEF
        IInv, StorageUnavailable, Step, Lose, upload, completion, form,
        TypeOK, Answers
<1>2. RowIsConsistent' /\ AcceptedIsBacked'
    BY DEF
        IInv, StorageUnavailable, Step, Lose, upload, completion,
        RowIsConsistent, AcceptedIsBacked
<1>3. KeysInFlight'
    BY DEF
        IInv, StorageUnavailable, Step, Lose, upload, completion, form,
        KeysInFlight
<1>4. AnswersHold'
    BY DEF
        IInv, StorageUnavailable, Step, Lose, upload, completion, form,
        TypeOK, AnswersHold
<1>5. NoCompletionWhileUploading'
    BY DEF
        IInv, StorageUnavailable, Step, Lose, upload, completion, form,
        NoCompletionWhileUploading, Uploading
<1>6. RecoveryAtRest' /\ BytesBeforeCompletion'
    BY DEF
        IInv, StorageUnavailable, Step, Lose, upload, completion, form,
        RecoveryAtRest, TypeOK, BytesBeforeCompletion, Uploading
<1>7. AwaitsCompletion' /\ ObservedMeansAccepted'
    BY DEF
        IInv, StorageUnavailable, Step, Lose, upload, completion, form,
        TypeOK, AwaitsCompletion, ObservedMeansAccepted, Answers
<1>8. QED BY <1>1, <1>2, <1>3, <1>4, <1>5, <1>6, <1>7 DEF IInv

(* The form asks for a policy.                                             *)
LEMMA UploadBytesIInv ==
    ASSUME IInv, NEW c \in Calls, UploadBytes(c)
    PROVE  IInv'
<1>1. TypeOK'
    BY DEF
        IInv, UploadBytes, Ask, Become, upload, completion, form, TypeOK,
        Handlers, Phases
<1>2. RowIsConsistent' /\ AcceptedIsBacked'
    BY DEF
        IInv, UploadBytes, Ask, Become, upload, completion, RowIsConsistent,
        AcceptedIsBacked
<1>3. KeysInFlight'
    BY DEF
        IInv, UploadBytes, Ask, Become, upload, completion, form, KeysInFlight
<1>4. AnswersHold'
    BY DEF
        IInv, UploadBytes, Ask, Become, upload, completion, form, TypeOK,
        AnswersHold
<1>5. NoCompletionWhileUploading'
    BY DEF
        IInv, UploadBytes, Ask, Become, upload, completion, form,
        NoCompletionWhileUploading, Uploading
<1>6. RecoveryAtRest' /\ BytesBeforeCompletion'
    BY DEF
        IInv, UploadBytes, Ask, Become, upload, completion, form,
        RecoveryAtRest, TypeOK, BytesBeforeCompletion, Uploading
<1>7. AwaitsCompletion' /\ ObservedMeansAccepted'
    BY DEF
        IInv, UploadBytes, Ask, Become, upload, completion, form, TypeOK,
        AwaitsCompletion, ObservedMeansAccepted
<1>8. QED BY <1>1, <1>2, <1>3, <1>4, <1>5, <1>6, <1>7 DEF IInv

(* Storage accepts the bytes.                                              *)
LEMMA BytesAcceptedIInv ==
    ASSUME IInv, NEW c \in Calls, BytesAccepted(c)
    PROVE  IInv'
<1>1. TypeOK'
    BY DEF
        IInv, BytesAccepted, Ask, Become, upload, completion, form, TypeOK,
        VideoStatus, Handlers, Phases, BytesBeforeCompletion
<1>2. RowIsConsistent' /\ AcceptedIsBacked'
    BY DEF
        IInv, BytesAccepted, Ask, Become, upload, completion, RowIsConsistent,
        AcceptedIsBacked
<1>3. KeysInFlight'
    BY DEF
        IInv, BytesAccepted, Ask, Become, upload, completion, form,
        KeysInFlight
<1>4. AnswersHold'
    BY DEF
        IInv, BytesAccepted, Ask, Become, upload, completion, form, TypeOK,
        AnswersHold
<1>5. NoCompletionWhileUploading'
    BY DEF
        IInv, BytesAccepted, Ask, Become, upload, completion, form,
        NoCompletionWhileUploading, Uploading
<1>6. RecoveryAtRest' /\ BytesBeforeCompletion'
    BY DEF
        IInv, BytesAccepted, Ask, Become, upload, completion, form,
        RecoveryAtRest, TypeOK, NoCompletionWhileUploading,
        BytesBeforeCompletion, Deleted, GONE
<1>7. AwaitsCompletion' /\ ObservedMeansAccepted'
    BY DEF
        IInv, BytesAccepted, Ask, Become, upload, completion, form, TypeOK,
        AwaitsCompletion, ObservedMeansAccepted
<1>8. QED BY <1>1, <1>2, <1>3, <1>4, <1>5, <1>6, <1>7 DEF IInv

(* The form asks again for the completion.                                 *)
LEMMA RetryFinalizationIInv ==
    ASSUME IInv, NEW c \in Calls, RetryFinalization(c)
    PROVE  IInv'
<1>1. TypeOK'
    BY DEF
        IInv, RetryFinalization, Ask, Become, upload, completion, form,
        TypeOK, Handlers, Phases
<1>2. RowIsConsistent' /\ AcceptedIsBacked'
    BY DEF
        IInv, RetryFinalization, Ask, Become, upload, completion,
        RowIsConsistent, AcceptedIsBacked
<1>3. KeysInFlight'
    BY DEF
        IInv, RetryFinalization, Ask, Become, upload, completion, form,
        KeysInFlight
<1>4. AnswersHold'
    BY DEF
        IInv, RetryFinalization, Ask, Become, upload, completion, form,
        TypeOK, AnswersHold
<1>5. NoCompletionWhileUploading'
    BY DEF
        IInv, RetryFinalization, Ask, Become, upload, completion, form,
        NoCompletionWhileUploading, Uploading
<1>6. RecoveryAtRest' /\ BytesBeforeCompletion'
    BY DEF
        IInv, RetryFinalization, Ask, Become, upload, completion, form,
        RecoveryAtRest, TypeOK, BytesBeforeCompletion, Uploading
<1>7. AwaitsCompletion' /\ ObservedMeansAccepted'
    BY DEF
        IInv, RetryFinalization, Ask, Become, upload, completion, form,
        TypeOK, AwaitsCompletion, ObservedMeansAccepted
<1>8. QED BY <1>1, <1>2, <1>3, <1>4, <1>5, <1>6, <1>7 DEF IInv

(* The form hears of its policy.                                           *)
LEMMA IntentReceivedIInv ==
    ASSUME IInv, IntentReceived
    PROVE  IInv'
<1>1. TypeOK'
    BY DEF
        IInv, IntentReceived, Hear, Become, upload, completion, form, TypeOK,
        Phases
<1>2. RowIsConsistent' /\ AcceptedIsBacked'
    BY DEF
        IInv, IntentReceived, Hear, Become, upload, completion,
        RowIsConsistent, AcceptedIsBacked
<1>3. KeysInFlight'
    BY DEF
        IInv, IntentReceived, Hear, Become, upload, completion, form, TypeOK,
        KeysInFlight
<1>4. AnswersHold'
    BY DEF
        IInv, IntentReceived, Hear, Become, upload, completion, form, TypeOK,
        AnswersHold
<1>5. NoCompletionWhileUploading'
    BY DEF
        IInv, IntentReceived, Hear, Become, upload, completion, form,
        NoCompletionWhileUploading, Uploading
<1>6. RecoveryAtRest' /\ BytesBeforeCompletion'
    BY DEF
        IInv, IntentReceived, Hear, Become, upload, completion, form,
        RecoveryAtRest, TypeOK, BytesBeforeCompletion, KeysInFlight, Uploading
<1>7. AwaitsCompletion' /\ ObservedMeansAccepted'
    BY DEF
        IInv, IntentReceived, Hear, Become, upload, completion, form, TypeOK,
        AwaitsCompletion, ObservedMeansAccepted
<1>8. QED BY <1>1, <1>2, <1>3, <1>4, <1>5, <1>6, <1>7 DEF IInv

(* The form gets no policy.                                                *)
LEMMA IntentRefusedIInv ==
    ASSUME IInv, IntentRefused
    PROVE  IInv'
<1>1. TypeOK'
    BY DEF
        IInv, IntentRefused, Hear, Become, upload, completion, form, TypeOK,
        Phases
<1>2. RowIsConsistent' /\ AcceptedIsBacked'
    BY DEF
        IInv, IntentRefused, Hear, Become, upload, completion,
        RowIsConsistent, AcceptedIsBacked
<1>3. KeysInFlight'
    BY DEF
        IInv, IntentRefused, Hear, Become, upload, completion, form,
        KeysInFlight
<1>4. AnswersHold'
    BY DEF
        IInv, IntentRefused, Hear, Become, upload, completion, form, TypeOK,
        AnswersHold
<1>5. NoCompletionWhileUploading'
    BY DEF
        IInv, IntentRefused, Hear, Become, upload, completion, form,
        NoCompletionWhileUploading, Uploading
<1>6. RecoveryAtRest' /\ BytesBeforeCompletion'
    BY DEF
        IInv, IntentRefused, Hear, Become, upload, completion, form,
        RecoveryAtRest, TypeOK, BytesBeforeCompletion, Uploading
<1>7. AwaitsCompletion' /\ ObservedMeansAccepted'
    BY DEF
        IInv, IntentRefused, Hear, Become, upload, completion, form, TypeOK,
        AwaitsCompletion, ObservedMeansAccepted
<1>8. QED BY <1>1, <1>2, <1>3, <1>4, <1>5, <1>6, <1>7 DEF IInv

(* The form hears that the upload was accepted.                            *)
LEMMA CompletionAcceptedIInv ==
    ASSUME IInv, CompletionAccepted
    PROVE  IInv'
<1>1. TypeOK'
    BY DEF
        IInv, CompletionAccepted, Hear, Become, upload, completion, form,
        TypeOK, Phases
<1>2. RowIsConsistent' /\ AcceptedIsBacked'
    BY DEF
        IInv, CompletionAccepted, Hear, Become, upload, completion,
        RowIsConsistent, AcceptedIsBacked
<1>3. KeysInFlight'
    BY DEF
        IInv, CompletionAccepted, Hear, Become, upload, completion, form,
        TypeOK, KeysInFlight
<1>4. AnswersHold'
    BY DEF
        IInv, CompletionAccepted, Hear, Become, upload, completion, form,
        TypeOK, AnswersHold
<1>5. NoCompletionWhileUploading'
    BY DEF
        IInv, CompletionAccepted, Hear, Become, upload, completion, form,
        NoCompletionWhileUploading, Uploading
<1>6. RecoveryAtRest' /\ BytesBeforeCompletion'
    BY DEF
        IInv, CompletionAccepted, Hear, Become, upload, completion, form,
        RecoveryAtRest, TypeOK, BytesBeforeCompletion, Uploading
<1>7. AwaitsCompletion' /\ ObservedMeansAccepted'
    BY DEF
        IInv, CompletionAccepted, Hear, Become, upload, completion, form,
        TypeOK, AwaitsCompletion, AnswersHold, ObservedMeansAccepted, Deleted
<1>8. QED BY <1>1, <1>2, <1>3, <1>4, <1>5, <1>6, <1>7 DEF IInv

(* The form hears that the completion was refused.                         *)
LEMMA CompletionRejectedIInv ==
    ASSUME IInv, CompletionRejected
    PROVE  IInv'
<1>1. TypeOK'
    BY DEF
        IInv, CompletionRejected, Hear, Become, upload, completion, form,
        TypeOK, Phases
<1>2. RowIsConsistent' /\ AcceptedIsBacked'
    BY DEF
        IInv, CompletionRejected, Hear, Become, upload, completion,
        RowIsConsistent, AcceptedIsBacked
<1>3. KeysInFlight'
    BY DEF
        IInv, CompletionRejected, Hear, Become, upload, completion, form,
        KeysInFlight
<1>4. AnswersHold'
    BY DEF
        IInv, CompletionRejected, Hear, Become, upload, completion, form,
        TypeOK, AnswersHold
<1>5. NoCompletionWhileUploading'
    BY DEF
        IInv, CompletionRejected, Hear, Become, upload, completion, form,
        TypeOK, NoCompletionWhileUploading, AnswersHold, Uploading
<1>6. RecoveryAtRest' /\ BytesBeforeCompletion'
    BY DEF
        IInv, CompletionRejected, Hear, Become, upload, completion, form,
        RecoveryAtRest, TypeOK, BytesBeforeCompletion, Uploading
<1>7. AwaitsCompletion' /\ ObservedMeansAccepted'
    BY DEF
        IInv, CompletionRejected, Hear, Become, upload, completion, form,
        TypeOK, AwaitsCompletion, ObservedMeansAccepted
<1>8. QED BY <1>1, <1>2, <1>3, <1>4, <1>5, <1>6, <1>7 DEF IInv

(* The form hears that storage did not answer.                             *)
LEMMA CompletionUnavailableIInv ==
    ASSUME IInv, CompletionUnavailable
    PROVE  IInv'
<1>1. TypeOK'
    BY DEF
        IInv, CompletionUnavailable, Hear, Become, upload, completion, form,
        TypeOK, Phases
<1>2. RowIsConsistent' /\ AcceptedIsBacked'
    BY DEF
        IInv, CompletionUnavailable, Hear, Become, upload, completion,
        RowIsConsistent, AcceptedIsBacked
<1>3. KeysInFlight'
    BY DEF
        IInv, CompletionUnavailable, Hear, Become, upload, completion, form,
        KeysInFlight
<1>4. AnswersHold'
    BY DEF
        IInv, CompletionUnavailable, Hear, Become, upload, completion, form,
        TypeOK, AnswersHold
<1>5. NoCompletionWhileUploading'
    BY DEF
        IInv, CompletionUnavailable, Hear, Become, upload, completion, form,
        NoCompletionWhileUploading, Uploading
<1>6. RecoveryAtRest' /\ BytesBeforeCompletion'
    BY DEF
        IInv, CompletionUnavailable, Hear, Become, upload, completion, form,
        RecoveryAtRest, TypeOK, BytesBeforeCompletion, Uploading
<1>7. AwaitsCompletion' /\ ObservedMeansAccepted'
    BY DEF
        IInv, CompletionUnavailable, Hear, Become, upload, completion, form,
        TypeOK, AwaitsCompletion, ObservedMeansAccepted
<1>8. QED BY <1>1, <1>2, <1>3, <1>4, <1>5, <1>6, <1>7 DEF IInv

(* The form looks at the owner's view.                                     *)
LEMMA CheckOwnerViewIInv ==
    ASSUME IInv, CheckOwnerView
    PROVE  IInv'
<1>1. TypeOK'
    BY DEF
        IInv, CheckOwnerView, Decision, Become, upload, completion, form,
        TypeOK, Phases
<1>2. RowIsConsistent' /\ AcceptedIsBacked'
    BY DEF
        IInv, CheckOwnerView, Decision, Become, upload, completion,
        RowIsConsistent, AcceptedIsBacked
<1>3. KeysInFlight'
    BY DEF
        IInv, CheckOwnerView, Decision, Become, upload, completion, form,
        KeysInFlight
<1>4. AnswersHold'
    BY DEF
        IInv, CheckOwnerView, Decision, Become, upload, completion, form,
        TypeOK, AnswersHold
<1>5. NoCompletionWhileUploading'
    BY DEF
        IInv, CheckOwnerView, Decision, Become, upload, completion, form,
        TypeOK, NoCompletionWhileUploading, AnswersHold,
        BytesBeforeCompletion, Uploading, Accepted, Deleted, VideoStatus
<1>6. RecoveryAtRest' /\ BytesBeforeCompletion'
    BY DEF
        IInv, CheckOwnerView, Decision, Become, upload, completion, form,
        RecoveryAtRest, TypeOK, BytesBeforeCompletion, Uploading
<1>7. AwaitsCompletion' /\ ObservedMeansAccepted'
    BY DEF
        IInv, CheckOwnerView, Decision, Become, upload, completion, form,
        TypeOK, AwaitsCompletion, ObservedMeansAccepted
<1>8. QED BY <1>1, <1>2, <1>3, <1>4, <1>5, <1>6, <1>7 DEF IInv

(* The form cannot look at the owner's view.                               *)
LEMMA OwnerViewUnavailableIInv ==
    ASSUME IInv, OwnerViewUnavailable
    PROVE  IInv'
<1>1. TypeOK'
    BY MaxLossesAssumption DEF
        IInv, OwnerViewUnavailable, Lose, Become, upload, completion, form,
        TypeOK, Phases
<1>2. RowIsConsistent' /\ AcceptedIsBacked'
    BY DEF
        IInv, OwnerViewUnavailable, Lose, Become, upload, completion,
        RowIsConsistent, AcceptedIsBacked
<1>3. KeysInFlight'
    BY DEF
        IInv, OwnerViewUnavailable, Lose, Become, upload, completion, form,
        KeysInFlight
<1>4. AnswersHold'
    BY DEF
        IInv, OwnerViewUnavailable, Lose, Become, upload, completion, form,
        TypeOK, AnswersHold
<1>5. NoCompletionWhileUploading'
    BY DEF
        IInv, OwnerViewUnavailable, Lose, Become, upload, completion, form,
        NoCompletionWhileUploading, Uploading
<1>6. RecoveryAtRest' /\ BytesBeforeCompletion'
    BY DEF
        IInv, OwnerViewUnavailable, Lose, Become, upload, completion, form,
        RecoveryAtRest, TypeOK, BytesBeforeCompletion, Uploading
<1>7. AwaitsCompletion' /\ ObservedMeansAccepted'
    BY DEF
        IInv, OwnerViewUnavailable, Lose, Become, upload, completion, form,
        TypeOK, AwaitsCompletion, ObservedMeansAccepted
<1>8. QED BY <1>1, <1>2, <1>3, <1>4, <1>5, <1>6, <1>7 DEF IInv

(* The bytes do not arrive, or not for sure.                               *)
LEMMA BytesFailIInv ==
    ASSUME IInv, BytesFail
    PROVE  IInv'
<1>1. TypeOK'
    BY MaxLossesAssumption DEF
        IInv, BytesFail, Lose, Become, upload, completion, form, TypeOK,
        VideoStatus, Phases, BytesBeforeCompletion
<1>2. RowIsConsistent' /\ AcceptedIsBacked'
    BY DEF
        IInv, BytesFail, Lose, Become, upload, completion, RowIsConsistent,
        AcceptedIsBacked
<1>3. KeysInFlight'
    BY DEF
        IInv, BytesFail, Lose, Become, upload, completion, form, KeysInFlight
<1>4. AnswersHold'
    BY DEF
        IInv, BytesFail, Lose, Become, upload, completion, form, TypeOK,
        AnswersHold
<1>5. NoCompletionWhileUploading'
    BY DEF
        IInv, BytesFail, Lose, Become, upload, completion, form,
        NoCompletionWhileUploading, Uploading
<1>6. RecoveryAtRest' /\ BytesBeforeCompletion'
    BY DEF
        IInv, BytesFail, Lose, Become, upload, completion, form,
        RecoveryAtRest, TypeOK, BytesBeforeCompletion, Uploading
<1>7. AwaitsCompletion' /\ ObservedMeansAccepted'
    BY DEF
        IInv, BytesFail, Lose, Become, upload, completion, form, TypeOK,
        AwaitsCompletion, ObservedMeansAccepted
<1>8. QED BY <1>1, <1>2, <1>3, <1>4, <1>5, <1>6, <1>7 DEF IInv

(* The form gives up waiting.                                              *)
LEMMA AnswerLostIInv ==
    ASSUME IInv, AnswerLost
    PROVE  IInv'
<1>1. TypeOK'
    BY MaxLossesAssumption DEF
        IInv, AnswerLost, Lose, Become, upload, completion, form, TypeOK,
        Phases
<1>2. RowIsConsistent' /\ AcceptedIsBacked'
    BY DEF
        IInv, AnswerLost, Lose, Become, upload, completion, RowIsConsistent,
        AcceptedIsBacked
<1>3. KeysInFlight'
    BY DEF
        IInv, AnswerLost, Lose, Become, upload, completion, form, KeysInFlight
<1>4. AnswersHold'
    BY DEF
        IInv, AnswerLost, Lose, Become, upload, completion, form, TypeOK,
        AnswersHold
<1>5. NoCompletionWhileUploading'
    BY DEF
        IInv, AnswerLost, Lose, Become, upload, completion, form,
        NoCompletionWhileUploading, Uploading
<1>6. RecoveryAtRest' /\ BytesBeforeCompletion'
    BY DEF
        IInv, AnswerLost, Lose, Become, upload, completion, form,
        RecoveryAtRest, TypeOK, BytesBeforeCompletion, Uploading
<1>7. AwaitsCompletion' /\ ObservedMeansAccepted'
    BY DEF
        IInv, AnswerLost, Lose, Become, upload, completion, form, TypeOK,
        AwaitsCompletion, ObservedMeansAccepted
<1>8. QED BY <1>1, <1>2, <1>3, <1>4, <1>5, <1>6, <1>7 DEF IInv

(* The worker moves the video on.                                          *)
LEMMA ProcessIInv ==
    ASSUME IInv, Process
    PROVE  IInv'
<1>1. TypeOK'
    BY DEF
        IInv, Process, upload, completion, form, TypeOK, VideoStatus
<1>2. RowIsConsistent' /\ AcceptedIsBacked'
    BY DEF
        IInv, Process, upload, completion, RowIsConsistent, AcceptedIsBacked,
        Accepted
<1>3. KeysInFlight'
    BY DEF
        IInv, Process, upload, completion, form, TypeOK, KeysInFlight,
        Accepted, Deleted, GONE
<1>4. AnswersHold'
    BY DEF
        IInv, Process, upload, completion, form, TypeOK, AnswersHold,
        KeysInFlight, AcceptedIsBacked, NoCompletionWhileUploading, Accepted,
        Deleted, GONE
<1>5. NoCompletionWhileUploading'
    BY DEF
        IInv, Process, upload, completion, form, TypeOK,
        NoCompletionWhileUploading, Uploading, Deleted, GONE
<1>6. RecoveryAtRest' /\ BytesBeforeCompletion'
    BY DEF
        IInv, Process, upload, completion, form, RecoveryAtRest, TypeOK,
        NoCompletionWhileUploading, BytesBeforeCompletion, Deleted, GONE
<1>7. AwaitsCompletion' /\ ObservedMeansAccepted'
    BY DEF
        IInv, Process, upload, completion, form, TypeOK, AwaitsCompletion,
        ObservedMeansAccepted, Accepted
<1>8. QED BY <1>1, <1>2, <1>3, <1>4, <1>5, <1>6, <1>7 DEF IInv

(* The owner deletes the video.                                            *)
LEMMA BeginDeletionIInv ==
    ASSUME IInv, BeginDeletion
    PROVE  IInv'
<1>1. TypeOK'
    BY DEF
        IInv, BeginDeletion, upload, completion, form, TypeOK, VideoStatus
<1>2. RowIsConsistent' /\ AcceptedIsBacked'
    BY DEF
        IInv, BeginDeletion, upload, completion, RowIsConsistent,
        AcceptedIsBacked, Accepted
<1>3. KeysInFlight'
    BY DEF
        IInv, BeginDeletion, upload, completion, form, KeysInFlight, Accepted,
        Deleted
<1>4. AnswersHold'
    BY DEF
        IInv, BeginDeletion, upload, completion, form, TypeOK, AnswersHold,
        KeysInFlight, Deleted
<1>5. NoCompletionWhileUploading'
    BY DEF
        IInv, BeginDeletion, upload, completion, form, TypeOK,
        NoCompletionWhileUploading, Deleted
<1>6. RecoveryAtRest' /\ BytesBeforeCompletion'
    BY DEF
        IInv, BeginDeletion, upload, completion, form, RecoveryAtRest, TypeOK,
        BytesBeforeCompletion, Deleted
<1>7. AwaitsCompletion' /\ ObservedMeansAccepted'
    BY DEF
        IInv, BeginDeletion, upload, completion, form, TypeOK,
        AwaitsCompletion, ObservedMeansAccepted, Deleted
<1>8. QED BY <1>1, <1>2, <1>3, <1>4, <1>5, <1>6, <1>7 DEF IInv

(* The video is gone.                                                      *)
LEMMA FinishDeletionIInv ==
    ASSUME IInv, FinishDeletion
    PROVE  IInv'
<1>1. TypeOK'
    BY DEF
        IInv, FinishDeletion, upload, completion, form, TypeOK
<1>2. RowIsConsistent' /\ AcceptedIsBacked'
    BY DEF
        IInv, FinishDeletion, upload, completion, form, RowIsConsistent,
        AcceptedIsBacked, Accepted, GONE
<1>3. KeysInFlight'
    BY DEF
        IInv, FinishDeletion, upload, completion, form, TypeOK, KeysInFlight,
        Accepted, Deleted, GONE
<1>4. AnswersHold'
    BY DEF
        IInv, FinishDeletion, upload, completion, form, TypeOK, AnswersHold,
        KeysInFlight, Deleted
<1>5. NoCompletionWhileUploading'
    BY DEF
        IInv, FinishDeletion, upload, completion, form, TypeOK,
        NoCompletionWhileUploading, Deleted
<1>6. RecoveryAtRest' /\ BytesBeforeCompletion'
    BY DEF
        IInv, FinishDeletion, upload, completion, form, RecoveryAtRest,
        TypeOK, NoCompletionWhileUploading, BytesBeforeCompletion, Deleted,
        GONE
<1>7. AwaitsCompletion' /\ ObservedMeansAccepted'
    BY DEF
        IInv, FinishDeletion, upload, completion, form, TypeOK,
        AwaitsCompletion, ObservedMeansAccepted, Deleted
<1>8. QED BY <1>1, <1>2, <1>3, <1>4, <1>5, <1>6, <1>7 DEF IInv

(* The initial states satisfy the invariant.                               *)
LEMMA InitIInv == Init => IInv
<1> SUFFICES ASSUME Init PROVE IInv
    OBVIOUS
<1>1. TypeOK
    BY MaxLossesAssumption DEF Init, TypeOK, VideoStatus, Phases
<1>2. RowIsConsistent /\ AcceptedIsBacked
    BY DEF Init, RowIsConsistent, AcceptedIsBacked, Accepted
<1>3. KeysInFlight /\ AnswersHold
    BY DEF Init, KeysInFlight, AnswersHold
<1>4. NoCompletionWhileUploading /\ RecoveryAtRest /\ BytesBeforeCompletion
    BY DEF Init, NoCompletionWhileUploading, RecoveryAtRest, BytesBeforeCompletion, Uploading
<1>5. AwaitsCompletion /\ ObservedMeansAccepted
    BY DEF Init, AwaitsCompletion, ObservedMeansAccepted
<1>6. QED
    BY <1>1, <1>2, <1>3, <1>4, <1>5 DEF IInv

(* A step that changes nothing keeps the invariant.                        *)
LEMMA StutterIInv == IInv /\ UNCHANGED vars => IInv'
BY DEF vars, upload, form, IInv, TypeOK, RowIsConsistent, AcceptedIsBacked, KeysInFlight,
       AnswersHold, NoCompletionWhileUploading, Uploading, RecoveryAtRest,
       BytesBeforeCompletion, AwaitsCompletion, ObservedMeansAccepted

(* Every step keeps the invariant.                                         *)
LEMMA NextIInv == IInv /\ [Next]_vars => IInv'
<1> SUFFICES ASSUME IInv, [Next]_vars PROVE IInv'
    OBVIOUS
<1>1. CASE UNCHANGED vars
    BY <1>1, StutterIInv
<1>2. ASSUME NEW c \in Calls, Handle(c) \/ StorageUnavailable(c) PROVE IInv'
    BY <1>2, StartReadIInv, StartClaimIInv, SignPolicyIInv, CompleteReadIInv, HeadObjectIInv,
       CommitCompletionIInv, RaceLostIInv, UnheardIInv, StorageUnavailableIInv
       DEF Handle
<1>3. CASE FormStep
    BY <1>3, UploadBytesIInv, BytesAcceptedIInv, RetryFinalizationIInv, IntentReceivedIInv,
       IntentRefusedIInv, CompletionAcceptedIInv, CompletionRejectedIInv,
       CompletionUnavailableIInv, CheckOwnerViewIInv, OwnerViewUnavailableIInv
       DEF FormStep
<1>4. CASE BytesFail \/ AnswerLost
    BY <1>4, BytesFailIInv, AnswerLostIInv
<1>5. CASE Process \/ BeginDeletion \/ FinishDeletion
    BY <1>5, ProcessIInv, BeginDeletionIInv, FinishDeletionIInv
<1>6. QED
    BY <1>1, <1>2, <1>3, <1>4, <1>5 DEF Next

(* The inductive invariant holds in every reachable state.                 *)
THEOREM IInvHolds == Spec => []IInv
BY InitIInv, NextIInv, PTL DEF Spec

(* The types.                                                              *)
THEOREM TypeCorrect == Spec => []TypeOK
<1>1. IInv => TypeOK
    BY DEF IInv
<1>2. QED BY <1>1, IInvHolds, PTL

(* However many completions overlap and whatever answers are lost, an      *)
(* accepted video has its one original, in storage, and one event          *)
(* (UploadsService.complete).                                              *)
THEOREM AcceptedIsAlwaysBacked == Spec => []AcceptedIsBacked
<1>1. IInv => AcceptedIsBacked
    BY DEF IInv
<1>2. QED BY <1>1, IInvHolds, PTL

(* The form never offers to upload again what the server has accepted      *)
(* (video-upload-form.tsx, upload-recovery.ts).                            *)
THEOREM NothingIsUploadedTwice == Spec => []ReuploadOnlyIfNeeded
<1>1. IInv => ReuploadOnlyIfNeeded
    BY DEF IInv, ReuploadOnlyIfNeeded, NoCompletionWhileUploading, Uploading, Accepted, Deleted,
           GONE
<1>2. QED BY <1>1, IInvHolds, PTL

(* The form reports success only for what the server accepted.             *)
THEOREM SuccessIsReal == Spec => []ObservedMeansAccepted
<1>1. IInv => ObservedMeansAccepted
    BY DEF IInv
<1>2. QED BY <1>1, IInvHolds, PTL

(* No handler, however late, takes a video back (the conditional updates   *)
(* of UploadsService).                                                     *)
THEOREM StatusTableRespected == Spec => LegalTransitions
<1>1. IInv /\ [Next]_vars => [LegalStatusStep(status, status')]_vars
    <2> SUFFICES ASSUME IInv, Next PROVE LegalStatusStep(status, status')
        BY DEF vars, LegalStatusStep
    <2> USE DEF LegalStatusStep, CanTransition, ALLOWED_VIDEO_TRANSITIONS, VideoStatus, GONE
    <2>1. ASSUME NEW c \in Calls, Handle(c) \/ StorageUnavailable(c)
          PROVE  LegalStatusStep(status, status')
        BY <2>1 DEF Handle, StartRead, StartClaim, StillDraft, SignPolicy, CompleteRead, HeadObject,
                    CommitCompletion, StillUploading, RaceLost, Unheard, StorageUnavailable,
                    completion
    <2>2. CASE FormStep \/ BytesFail \/ AnswerLost
        BY <2>2 DEF FormStep, UploadBytes, BytesAccepted, RetryFinalization, IntentReceived,
                    IntentRefused, CompletionAccepted, CompletionRejected, CompletionUnavailable,
                    CheckOwnerView, OwnerViewUnavailable, BytesFail, AnswerLost, completion
    <2>3. CASE Process \/ BeginDeletion \/ FinishDeletion
        BY <2>3 DEF IInv, TypeOK, Process, BeginDeletion, FinishDeletion
    <2>4. QED BY <2>1, <2>2, <2>3 DEF Next
<1>2. QED BY <1>1, IInvHolds, PTL DEF Spec, LegalTransitions
=============================================================================
