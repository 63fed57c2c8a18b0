--------------------------- MODULE AttemptOwnership ---------------------------
(***************************************************************************)
(* The ownership of a video's processing generation: the video row in      *)
(* PostgreSQL, the worker executions that compete for it, the objects they *)
(* upload, and every other actor that may take the generation away from    *)
(* them (a stranded-job handler, the API's reconciler, the owner's retry   *)
(* and the owner's deletion).                                              *)
(*                                                                         *)
(* BullMQ delivers at least once and promises no more, so a job of any     *)
(* generation requested so far may be delivered to any number of           *)
(* executions at any time; each execution carries one delivery through     *)
(* VideoProcessingPipeline.execute and VideoWorkerService.runJob.          *)
(* acquireAttempt draws a fresh UUID, so an attempt is named by the        *)
(* execution that drew it, and an attempt's objects live under a prefix of *)
(* its own.  A lease is valid until the database clock passes it; time is  *)
(* abstracted, so a lease may expire at any step (LeaseClock measures it). *)
(* A crashed execution is one that takes no further step, which every      *)
(* prefix of a behaviour allows: its lease runs out and its objects stay.  *)
(***************************************************************************)
EXTENDS Naturals, VideoStatus

CONSTANTS
    Executions,      \* worker executions, one per delivery of a job
    Janitors,        \* stranded-job handlers and reconciler passes
    NoAttempt,       \* the NULL of the row's attempt columns
    MaxGeneration    \* bound on owner retries; the code has none

ASSUME NoAttemptAssumption == NoAttempt \notin Executions
ASSUME MaxGenerationAssumption == MaxGeneration \in Nat \ {0}

VARIABLES
    status,               \* Video.status, or GONE
    processingGeneration, \* Video.processingGeneration
    processingAttemptId,  \* Video.processingAttemptId
    leaseValid,           \* processingLeaseExpiresAt > the database clock
    committedAttemptId,   \* Video.committedAttemptId
    objects,              \* objects[a]: parts stored under attempt a's prefix
    pc,                   \* where each execution is in its code
    generation,           \* generation[e]: input.generation of e's job
    failure,              \* failure[e]: class of the error e is handling
    uncleaned,            \* attempts for which a cleanup_failed was logged
    jpc,                  \* where each janitor is in its code
    jgeneration,          \* generation the janitor works on
    jattempt,             \* attempt the janitor read with its candidate
    deletion              \* progress of VideosService.delete

row == <<status, processingGeneration, processingAttemptId, leaseValid, committedAttemptId>>
execution == <<pc, generation, failure>>
janitor == <<jpc, jgeneration, jattempt>>
vars == <<status, processingGeneration, processingAttemptId, leaseValid,
          committedAttemptId, objects, pc, generation, failure, uncleaned,
          jpc, jgeneration, jattempt, deletion>>

Attempts == Executions \cup {NoAttempt}
Generations == 1..MaxGeneration

(* What an attempt uploads: the thumbnail, then the HLS tree whose master  *)
(* manifest is its last object.                                            *)
Parts == {"thumbnail", "hls"}

(* "settling" is runJob's handling of the error; "cleaning" and "removing" *)
(* run in execute's finally, and again once fail has recorded a failure.   *)
ExecutionSteps ==
    {"idle", "acquiring", "working", "uploadThumbnail", "uploadHls", "verifying",
     "publishing", "removeObsolete", "catching", "cleaning", "removing",
     "settling", "done"}

Failures == {"none", "retryable", "nonRetryable", "ownershipLost"}

JanitorSteps == {"idle", "stranded", "candidate", "cleaning", "removing"}

(* The types, and that a valid lease always belongs to a recorded attempt: *)
(* the two columns are set together and cleared together.                  *)
TypeOK ==
    /\ status \in VideoStatus \cup {GONE}
    /\ processingGeneration \in Generations
    /\ processingAttemptId \in Attempts
    /\ leaseValid \in BOOLEAN
    /\ leaseValid => processingAttemptId \in Executions
    /\ committedAttemptId \in Attempts
    /\ objects \in [Executions -> SUBSET Parts]
    /\ pc \in [Executions -> ExecutionSteps]
    /\ generation \in [Executions -> Generations \cup {0}]
    /\ failure \in [Executions -> Failures]
    /\ uncleaned \in SUBSET Executions
    /\ jpc \in [Janitors -> JanitorSteps]
    /\ jgeneration \in [Janitors -> Generations \cup {0}]
    /\ jattempt \in [Janitors -> Attempts]
    /\ deletion \in {"none", "removing", "removed"}

(* Upload completion has moved the row to UPLOADED with generation 1 and   *)
(* written that generation's outbox row in the same transaction.           *)
Init ==
    /\ status = "UPLOADED"
    /\ processingGeneration = 1
    /\ processingAttemptId = NoAttempt
    /\ leaseValid = FALSE
    /\ committedAttemptId = NoAttempt
    /\ objects = [e \in Executions |-> {}]
    /\ pc = [e \in Executions |-> "idle"]
    /\ generation = [e \in Executions |-> 0]
    /\ failure = [e \in Executions |-> "none"]
    /\ uncleaned = {}
    /\ jpc = [j \in Janitors |-> "idle"]
    /\ jgeneration = [j \in Janitors |-> 0]
    /\ jattempt = [j \in Janitors |-> NoAttempt]
    /\ deletion = "none"

-----------------------------------------------------------------------------
(* Conditions of the SQL statements.                                       *)

(* Mutation: the statements also accept a READY row.                       *)
Pending_OrReady == status \in {"UPLOADED", "PROCESSING", "READY"}

(* status IN ('UPLOADED', 'PROCESSING')                                    *)
Pending == status \in {"UPLOADED", "PROCESSING"}

(* Mutation: the lease of the recorded attempt is not looked at.           *)
NoLiveOwner_AnyLease == processingAttemptId \in Attempts

(* No attempt recorded, no lease recorded, or a lease that has run out.    *)
NoLiveOwner == processingAttemptId = NoAttempt \/ ~leaseValid

(* Mutation: fenced by status only.                                        *)
OwnedBy_StatusOnly(e) == e \in Executions /\ status = "PROCESSING"

(* The fence of release and fail: this attempt is the recorded owner.      *)
OwnedBy(e) ==
    /\ status = "PROCESSING"
    /\ processingGeneration = generation[e]
    /\ processingAttemptId = e

(* The fence of renewal and publication: owner of an unexpired lease.      *)
LiveOwner(e) == OwnedBy(e) /\ leaseValid

(* Mutation: the committed attempt is not looked at.                       *)
Committed_Unchecked(a) == a \notin Attempts

(* What a read of the row tells: this attempt is the published one; or the *)
(* video is gone, being deleted, or in another generation.                 *)
Committed(a) == status # GONE /\ committedAttemptId = a

Abandoned(e) == status \in {"DELETING", GONE} \/ processingGeneration # generation[e]

(* Mutation: only the attempt column is cleared.                           *)
ClearAttempt_KeepingLease == processingAttemptId' = NoAttempt /\ UNCHANGED leaseValid

ClearAttempt == processingAttemptId' = NoAttempt /\ leaseValid' = FALSE

MoveTo(e, step) == pc' = [pc EXCEPT ![e] = step]

Throw(e, class) ==
    /\ MoveTo(e, "catching")
    /\ failure' = [failure EXCEPT ![e] = class]

(* execute's finally done: runJob rethrows into its catch if an error is   *)
(* left to surface, and completes the job otherwise.                       *)
Unwind(e) == MoveTo(e, IF failure[e] = "none" THEN "done" ELSE "settling")

-----------------------------------------------------------------------------
(* One execution: VideoProcessingPipeline.execute.                         *)

(* The job of some generation requested so far is delivered, and the row   *)
(* read: a moot job completes at once; otherwise the attempt is acquired.  *)
Deliver(e, g) ==
    /\ pc[e] = "idle"
    /\ g \in 1..processingGeneration
    /\ generation' = [generation EXCEPT ![e] = g]
    /\ MoveTo(e, IF Pending /\ processingGeneration = g THEN "acquiring" ELSE "done")
    /\ UNCHANGED <<row, objects, failure, uncleaned, janitor, deletion>>

CanAcquire(e) ==
    /\ Pending
    /\ processingGeneration = generation[e]
    /\ NoLiveOwner

RecordOwner(e) ==
    /\ status' = "PROCESSING"
    /\ processingAttemptId' = e
    /\ leaseValid' = TRUE

(* acquireAttempt's one UPDATE: take an unowned generation, or take over   *)
(* an expired lease.                                                       *)
Acquire(e) ==
    /\ pc[e] = "acquiring"
    /\ CanAcquire(e)
    /\ RecordOwner(e)
    /\ MoveTo(e, "working")
    /\ UNCHANGED <<processingGeneration, committedAttemptId, objects, generation,
                   failure, uncleaned, janitor, deletion>>

(* The UPDATE took effect but its answer never arrived: the call throws    *)
(* an error that carries no attempt, so nobody releases this ownership.    *)
AcquireUnanswered(e) ==
    /\ pc[e] = "acquiring"
    /\ CanAcquire(e)
    /\ RecordOwner(e)
    /\ MoveTo(e, "done")
    /\ UNCHANGED <<processingGeneration, committedAttemptId, objects, generation,
                   failure, uncleaned, janitor, deletion>>

(* Nothing to take: explainRejectedAcquisition re-reads the row, and the   *)
(* job is either moot or busy.  The error of a busy attempt carries no     *)
(* attempt, so in both cases the execution ends and records nothing.       *)
RejectAcquisition(e) ==
    /\ pc[e] = "acquiring"
    /\ ~CanAcquire(e)
    /\ MoveTo(e, "done")
    /\ UNCHANGED <<row, objects, generation, failure, uncleaned, janitor, deletion>>

(* Download, probe and encoding end, and ensureOwned renews the lease: the *)
(* renewal must find this attempt the owner of an unexpired lease.         *)
VerifyBeforeUpload(e) ==
    /\ pc[e] = "working"
    /\ IF LiveOwner(e)
       THEN MoveTo(e, "uploadThumbnail") /\ UNCHANGED failure
       ELSE Throw(e, "ownershipLost")
    /\ UNCHANGED <<row, objects, generation, uncleaned, janitor, deletion>>

UploadThumbnail(e) ==
    /\ pc[e] = "uploadThumbnail"
    /\ objects' = [objects EXCEPT ![e] = @ \cup {"thumbnail"}]
    /\ MoveTo(e, "uploadHls")
    /\ UNCHANGED <<row, generation, failure, uncleaned, janitor, deletion>>

UploadHls(e) ==
    /\ pc[e] = "uploadHls"
    /\ objects' = [objects EXCEPT ![e] = @ \cup {"hls"}]
    /\ MoveTo(e, "verifying")
    /\ UNCHANGED <<row, generation, failure, uncleaned, janitor, deletion>>

VerifyBeforePublish(e) ==
    /\ pc[e] = "verifying"
    /\ IF LiveOwner(e)
       THEN MoveTo(e, "publishing") /\ UNCHANGED failure
       ELSE Throw(e, "ownershipLost")
    /\ UNCHANGED <<row, objects, generation, uncleaned, janitor, deletion>>

(* The READY transaction: the row lock, the fenced UPDATE and the assets.  *)
(* Its answer may be lost although it committed.                           *)
RecordReady(e) ==
    /\ status' = "READY"
    /\ committedAttemptId' = e
    /\ ClearAttempt
    /\ UNCHANGED processingGeneration

Publish(e) ==
    /\ pc[e] = "publishing"
    /\ LiveOwner(e)
    /\ RecordReady(e)
    /\ \/ MoveTo(e, "removeObsolete") /\ UNCHANGED failure
       \/ Throw(e, "retryable")
    /\ UNCHANGED <<objects, generation, uncleaned, janitor, deletion>>

(* The fence refuses, and the transaction rolls back.  A cancellation that *)
(* arrived meanwhile outranks the ownership error.                         *)
PublishRefused(e) ==
    /\ pc[e] = "publishing"
    /\ ~LiveOwner(e)
    /\ Throw(e, "ownershipLost") \/ Throw(e, "retryable")
    /\ UNCHANGED <<row, objects, generation, uncleaned, janitor, deletion>>

(* The heartbeat's renewal found another owner, another state or an        *)
(* expired lease, and cancelled the attempt's work.                        *)
LoseOwnership(e) ==
    /\ pc[e] \in {"working", "uploadThumbnail", "uploadHls", "verifying"}
    /\ ~LiveOwner(e)
    /\ Throw(e, "ownershipLost")
    /\ UNCHANGED <<row, objects, generation, uncleaned, janitor, deletion>>

(* Deadline, unconfirmed lease, shutdown, or a storage or database error   *)
(* (a transaction that rolled back included): retryable.  Invalid media or *)
(* a deterministic encoder failure, or renditions that uploadHls finds     *)
(* incomplete: not.                                                        *)
FailWork(e) ==
    /\ \/ /\ pc[e] \in {"working", "uploadThumbnail", "uploadHls", "verifying", "publishing"}
          /\ Throw(e, "retryable")
       \/ /\ pc[e] \in {"working", "uploadHls"}
          /\ Throw(e, "nonRetryable")
    /\ UNCHANGED <<row, objects, generation, uncleaned, janitor, deletion>>

(* Deleting prefixes: those of "removed" are emptied; the others are left, *)
(* in part or whole, because a page of deletions failed or time ran out.   *)
Empty(removed) ==
    objects' = [a \in Executions |-> IF a \in removed THEN {} ELSE objects[a]]

(* Mutation: the sweep does not keep the committed prefix.                 *)
RemoveObsolete_Everything(e) ==
    /\ pc[e] = "removeObsolete"
    /\ Empty(Executions)
    /\ MoveTo(e, "done")
    /\ UNCHANGED <<row, generation, failure, uncleaned, janitor, deletion>>

(* The committed attempt sweeps every other prefix of the video.           *)
RemoveObsolete(e) ==
    /\ pc[e] = "removeObsolete"
    /\ \E removed \in SUBSET (Executions \ {e}) : Empty(removed)
    /\ MoveTo(e, "done")
    /\ UNCHANGED <<row, generation, failure, uncleaned, janitor, deletion>>

(* classifyFailure's read of the row decides what the error means.         *)
Classify(e) ==
    /\ pc[e] = "catching"
    /\ \/ /\ Committed(e)
          /\ MoveTo(e, "removeObsolete")
          /\ failure' = [failure EXCEPT ![e] = "none"]
       \/ /\ ~Committed(e)
          /\ Abandoned(e)
          /\ MoveTo(e, "cleaning")
          /\ failure' = [failure EXCEPT ![e] = "none"]
       \/ /\ ~Committed(e)
          /\ ~Abandoned(e)
          /\ MoveTo(e, "cleaning")
          /\ failure' = [failure EXCEPT ![e] =
                IF ~OwnedBy(e) THEN "ownershipLost"
                ELSE IF @ = "ownershipLost" THEN "retryable" ELSE @]
    /\ UNCHANGED <<row, objects, generation, uncleaned, janitor, deletion>>

(* The read itself failed: the error stands as it was.                     *)
ClassifyUnread(e) ==
    /\ pc[e] = "catching"
    /\ MoveTo(e, "cleaning")
    /\ UNCHANGED <<row, objects, generation, failure, uncleaned, janitor, deletion>>

-----------------------------------------------------------------------------
(* cleanupUnpublished, in execute's finally and again after a recorded     *)
(* failure: read committedAttemptId, then remove the attempt's prefix.     *)

(* Mutation: any committed attempt stops the cleanup, not only this one.   *)
CleanupRead_AnyCommitted(e) ==
    /\ pc[e] = "cleaning"
    /\ IF committedAttemptId # NoAttempt THEN Unwind(e) ELSE MoveTo(e, "removing")
    /\ UNCHANGED <<row, objects, generation, failure, uncleaned, janitor, deletion>>

CleanupRead(e) ==
    /\ pc[e] = "cleaning"
    /\ IF Committed(e) THEN Unwind(e) ELSE MoveTo(e, "removing")
    /\ UNCHANGED <<row, objects, generation, failure, uncleaned, janitor, deletion>>

CleanupUnread(e) ==
    /\ pc[e] = "cleaning"
    /\ Unwind(e)
    /\ uncleaned' = uncleaned \cup {e}
    /\ UNCHANGED <<row, objects, generation, failure, janitor, deletion>>

RemoveAttempt(e) ==
    /\ pc[e] = "removing"
    /\ \/ Empty({e}) /\ UNCHANGED uncleaned
       \/ Empty({}) /\ uncleaned' = uncleaned \cup {e}
    /\ Unwind(e)
    /\ UNCHANGED <<row, generation, failure, janitor, deletion>>

-----------------------------------------------------------------------------
(* runJob's catch.  BullMQ's attempts are exhausted or not.                *)

(* VideoProcessingPipeline.fail: only the recorded owner fails the video,  *)
(* and only then are its objects removed once more.                        *)
Fail(e) ==
    /\ pc[e] = "settling"
    /\ IF OwnedBy(e)
       THEN /\ status' = "FAILED"
            /\ ClearAttempt
            /\ MoveTo(e, "cleaning")
       ELSE /\ UNCHANGED <<status, processingAttemptId, leaseValid>>
            /\ MoveTo(e, "done")
    /\ failure' = [failure EXCEPT ![e] = "none"]
    /\ UNCHANGED <<processingGeneration, committedAttemptId, objects, generation,
                   uncleaned, janitor, deletion>>

(* releaseAttempt hands the generation back for the next delivery.         *)
Release(e) ==
    /\ pc[e] = "settling"
    /\ failure[e] = "retryable"
    /\ IF OwnedBy(e) THEN ClearAttempt ELSE UNCHANGED <<processingAttemptId, leaseValid>>
    /\ MoveTo(e, "done")
    /\ failure' = [failure EXCEPT ![e] = "none"]
    /\ UNCHANGED <<status, processingGeneration, committedAttemptId, objects,
                   generation, uncleaned, janitor, deletion>>

(* The failure could not be recorded; BullMQ's failure still surfaces.     *)
SettleUnrecorded(e) ==
    /\ pc[e] = "settling"
    /\ MoveTo(e, "done")
    /\ failure' = [failure EXCEPT ![e] = "none"]
    /\ UNCHANGED <<row, objects, generation, uncleaned, janitor, deletion>>

LeaseExpires ==
    /\ leaseValid
    /\ leaseValid' = FALSE
    /\ UNCHANGED <<status, processingGeneration, processingAttemptId, committedAttemptId,
                   objects, execution, uncleaned, janitor, deletion>>

-----------------------------------------------------------------------------
(* Janitors: the worker's failed-job handler and the API's reconciler.     *)

Note(j, step, g, a) ==
    /\ jpc' = [jpc EXCEPT ![j] = step]
    /\ jgeneration' = [jgeneration EXCEPT ![j] = g]
    /\ jattempt' = [jattempt EXCEPT ![j] = a]

Continue(j, step) == Note(j, step, jgeneration[j], jattempt[j])

(* The pass is over; the process may start another one.                    *)
Finish(j) == Note(j, "idle", 0, NoAttempt)

(* handleJobFailed on a terminal job: failStranded first reads the owner.  *)
ReadStranded(j, g) ==
    /\ jpc[j] = "idle"
    /\ g \in 1..processingGeneration
    /\ Note(j, "stranded", g, IF status = GONE THEN NoAttempt ELSE processingAttemptId)
    /\ UNCHANGED <<row, objects, execution, uncleaned, deletion>>

(* The reconciler's scan: a pending generation without a live owner, and   *)
(* the attempt recorded for it.                                            *)
FindCandidate(j) ==
    /\ jpc[j] = "idle"
    /\ Pending
    /\ NoLiveOwner
    /\ Note(j, "candidate", processingGeneration, processingAttemptId)
    /\ UNCHANGED <<row, objects, execution, uncleaned, deletion>>

StrandedFence(g) == Pending /\ processingGeneration = g /\ NoLiveOwner

(* failStrandedGeneration, and the reconciler's failGeneration: the same   *)
(* UPDATE.  The handler then confirms that the attempt it read is not the  *)
(* committed one before removing its objects; the reconciler does not.     *)
FailStranded(j) ==
    /\ jpc[j] \in {"stranded", "candidate"}
    /\ IF StrandedFence(jgeneration[j])
       THEN /\ status' = "FAILED"
            /\ ClearAttempt
            /\ IF jattempt[j] = NoAttempt THEN Finish(j)
               ELSE Continue(j, IF jpc[j] = "stranded" THEN "cleaning" ELSE "removing")
       ELSE /\ UNCHANGED <<status, processingAttemptId, leaseValid>>
            /\ Finish(j)
    /\ UNCHANGED <<processingGeneration, committedAttemptId, objects, execution,
                   uncleaned, deletion>>

(* revokeExpiredOwner, before the job is put back in the queue.            *)
RevokeExpiredOwner(j) ==
    /\ jpc[j] = "candidate"
    /\ IF StrandedFence(jgeneration[j])
       THEN ClearAttempt
       ELSE UNCHANGED <<processingAttemptId, leaseValid>>
    /\ Finish(j)
    /\ UNCHANGED <<status, processingGeneration, committedAttemptId, objects,
                   execution, uncleaned, deletion>>

JanitorCleanupRead(j) ==
    /\ jpc[j] = "cleaning"
    /\ IF Committed(jattempt[j]) THEN Finish(j) ELSE Continue(j, "removing")
    /\ UNCHANGED <<row, objects, execution, uncleaned, deletion>>

(* removeAttempt, or removeOrphanedAttempt.                                *)
JanitorRemove(j) ==
    /\ jpc[j] = "removing"
    /\ Empty({jattempt[j]})
    /\ Finish(j)
    /\ UNCHANGED <<row, execution, uncleaned, deletion>>

(* Any step of a janitor may fail, or its process stop, and the rest of    *)
(* the pass is not done; nothing is undone.                                *)
JanitorStops(j) ==
    /\ jpc[j] # "idle"
    /\ Finish(j)
    /\ UNCHANGED <<row, objects, execution, uncleaned, deletion>>

-----------------------------------------------------------------------------
(* The owner's requests: VideosService.retryProcessing and delete.         *)

RetryProcessing ==
    /\ status = "FAILED"
    /\ processingGeneration < MaxGeneration
    /\ status' = "PROCESSING"
    /\ processingGeneration' = processingGeneration + 1
    /\ ClearAttempt
    /\ UNCHANGED <<committedAttemptId, objects, execution, uncleaned, janitor, deletion>>

(* The compare-and-set to DELETING, or a repeated DELETE of such a video.  *)
BeginDeletion ==
    /\ status # GONE
    /\ status' = "DELETING"
    /\ deletion' = "removing"
    /\ UNCHANGED <<processingGeneration, processingAttemptId, leaseValid, committedAttemptId,
                   objects, execution, uncleaned, janitor>>

(* Every prefix of the video; a deletion that failed anywhere answers 503  *)
(* and leaves the row DELETING.                                            *)
DeleteObjects ==
    /\ deletion = "removing"
    /\ \E removed \in SUBSET Executions :
          /\ Empty(removed)
          /\ deletion' = IF removed = Executions THEN "removed" ELSE "none"
    /\ UNCHANGED <<row, execution, uncleaned, janitor>>

DeleteRow ==
    /\ deletion = "removed"
    /\ status' = GONE
    /\ deletion' = "none"
    /\ UNCHANGED <<processingGeneration, processingAttemptId, leaseValid, committedAttemptId,
                   objects, execution, uncleaned, janitor>>

-----------------------------------------------------------------------------
ExecutionStep(e) ==
    \/ \E g \in Generations : Deliver(e, g)
    \/ Acquire(e) \/ AcquireUnanswered(e) \/ RejectAcquisition(e)
    \/ VerifyBeforeUpload(e) \/ UploadThumbnail(e) \/ UploadHls(e)
    \/ VerifyBeforePublish(e) \/ Publish(e) \/ PublishRefused(e)
    \/ LoseOwnership(e) \/ FailWork(e) \/ RemoveObsolete(e)
    \/ Classify(e) \/ ClassifyUnread(e)
    \/ CleanupRead(e) \/ CleanupUnread(e) \/ RemoveAttempt(e)
    \/ Fail(e) \/ Release(e) \/ SettleUnrecorded(e)

JanitorStep(j) ==
    \/ \E g \in Generations : ReadStranded(j, g)
    \/ FindCandidate(j) \/ FailStranded(j) \/ RevokeExpiredOwner(j)
    \/ JanitorCleanupRead(j) \/ JanitorRemove(j) \/ JanitorStops(j)

OwnerStep == RetryProcessing \/ BeginDeletion \/ DeleteObjects \/ DeleteRow

Next ==
    \/ \E e \in Executions : ExecutionStep(e)
    \/ \E j \in Janitors : JanitorStep(j)
    \/ LeaseExpires
    \/ OwnerStep

Spec == Init /\ [][Next]_vars

-----------------------------------------------------------------------------
(* Safety.                                                                 *)

(* What READY promises a viewer: the row names an attempt, that attempt    *)
(* belongs to the current generation, and every object it uploaded is      *)
(* still in storage, whatever losers, sweepers and janitors clean up.      *)
ReadyIsServable ==
    status = "READY" =>
        /\ committedAttemptId \in Executions
        /\ generation[committedAttemptId] = processingGeneration
        /\ objects[committedAttemptId] = Parts

(* Publication happens at most once in the life of a video: no retry, late *)
(* execution or second commit ever replaces the authoritative attempt.     *)
PublishedOnce ==
    [][committedAttemptId # NoAttempt => committedAttemptId' = committedAttemptId]_vars

(* Nobody takes the generation from the owner of an unexpired lease: it    *)
(* stays the owner until its lease runs out, the owner of the video        *)
(* deletes it, or the execution itself publishes, fails or releases.       *)
LiveOwnerUndisturbed ==
    [][\A e \in Executions :
          LiveOwner(e) => \/ LiveOwner(e)'
                          \/ pc'[e] # pc[e]
                          \/ status' = "DELETING"
                          \/ OwnedBy(e)' /\ ~leaseValid']_vars

(* An execution of a superseded generation, however late it wakes up,      *)
(* changes no column of the row and no object but those of its own prefix. *)
StaleExecutionInert ==
    [][\A e \in Executions :
          pc'[e] # pc[e] /\ generation[e] \in 1..(processingGeneration - 1) =>
              /\ UNCHANGED row
              /\ \A a \in Executions \ {e} : objects'[a] = objects[a]]_vars

(* An execution that ran to its end leaves no object behind unless it was  *)
(* published or a failed cleanup was logged.                               *)
NoSilentOrphan ==
    \A e \in Executions :
        pc[e] = "done" /\ objects[e] # {} => committedAttemptId = e \/ e \in uncleaned

(* Every status the raw SQL writes follows the shared transition table.    *)
LegalTransitions == [][LegalStatusStep(status, status')]_vars

(* The generation whose complete output a viewer is served; 0: none.       *)
ServedGeneration ==
    IF status = "READY" /\ committedAttemptId \in Executions
    THEN IF objects[committedAttemptId] = Parts THEN generation[committedAttemptId] ELSE 0
    ELSE 0

Lifecycle ==
    INSTANCE GenerationLifecycle WITH
        generation <- processingGeneration,
        output <- ServedGeneration

(* All of the above machinery only ever takes the steps of the abstract    *)
(* lifecycle: publication is atomic and complete, and nothing but the      *)
(* owner's deletion takes the served output away.                          *)
ImplementsLifecycle == Lifecycle!Spec
=============================================================================
