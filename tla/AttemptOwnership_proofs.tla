------------------------ MODULE AttemptOwnership_proofs ------------------------
(***************************************************************************)
(* Proofs, for every number of executions, janitors and generations, of    *)
(* the safety properties of AttemptOwnership.                              *)
(***************************************************************************)
EXTENDS AttemptOwnership, TLAPS

(* A published attempt stays published in its generation, and the row      *)
(* never becomes processable again.                                        *)
CommittedIsFinal ==
    committedAttemptId # NoAttempt =>
        /\ status \in {"READY", "DELETING", GONE}
        /\ generation[committedAttemptId] = processingGeneration

(* An execution that has not acquired yet is known to nobody.              *)
UnknownUntilAcquired ==
    \A e \in Executions :
        pc[e] \in {"idle", "acquiring"} =>
            /\ processingAttemptId # e
            /\ committedAttemptId # e
            /\ \A j \in Janitors : jattempt[j] # e
            /\ objects[e] = {}

(* While an attempt owns the generation, what it has uploaded is there.    *)
OwnerHasItsUploads ==
    \A e \in Executions :
        OwnedBy(e) =>
            /\ pc[e] = "uploadHls" => "thumbnail" \in objects[e]
            /\ pc[e] \in {"verifying", "publishing"} => objects[e] = Parts

(* A janitor about to remove an attempt's objects removes neither the      *)
(* owner's nor the published attempt's.                                    *)
JanitorsRemoveLosers ==
    \A j \in Janitors :
        jpc[j] \in {"cleaning", "removing"} =>
            /\ jattempt[j] \in Executions
            /\ jattempt[j] # processingAttemptId
            /\ jattempt[j] # committedAttemptId

(* The same of the executions' own cleanups.                               *)
CleanersAreUnpublished ==
    \A e \in Executions :
        /\ pc[e] = "removeObsolete" => committedAttemptId = e
        /\ pc[e] = "removing" => status = GONE \/ committedAttemptId # e

(* What an execution past its cleanup has left behind is accounted for.    *)
CleanedUp ==
    \A e \in Executions :
        /\ pc[e] = "working" => objects[e] = {}
        /\ pc[e] \in {"settling", "done"} /\ objects[e] # {} =>
               committedAttemptId = e \/ e \in uncleaned

DeletionIsUnderWay == deletion # "none" => status \in {"DELETING", GONE}

IInv ==
    /\ TypeOK
    /\ CommittedIsFinal
    /\ ReadyIsServable
    /\ UnknownUntilAcquired
    /\ OwnerHasItsUploads
    /\ JanitorsRemoveLosers
    /\ CleanersAreUnpublished
    /\ CleanedUp
    /\ DeletionIsUnderWay

-----------------------------------------------------------------------------
USE NoAttemptAssumption, MaxGenerationAssumption
    DEF TypeOK, Attempts, Generations, Parts, ExecutionSteps, Failures, JanitorSteps,
        VideoStatus, GONE, row, execution, janitor, MoveTo, Throw, Unwind, ClearAttempt,
        Pending, NoLiveOwner, OwnedBy, LiveOwner, Empty

(* The initial state satisfies the invariant.                              *)
LEMMA InitIInv == Init => IInv
<1> SUFFICES ASSUME Init PROVE IInv
  OBVIOUS
<1>1. TypeOK
  <2>1. processingGeneration \in Generations
    BY DEF Init
  <2>2. leaseValid \in BOOLEAN /\ ~leaseValid
    BY DEF Init
  <2>3. /\ objects \in [Executions -> SUBSET Parts]
        /\ pc \in [Executions -> ExecutionSteps]
        /\ generation \in [Executions -> Generations \cup {0}]
        /\ failure \in [Executions -> Failures]
    BY DEF Init
  <2>4. /\ jpc \in [Janitors -> JanitorSteps]
        /\ jgeneration \in [Janitors -> Generations \cup {0}]
        /\ jattempt \in [Janitors -> Attempts]
    BY DEF Init
  <2>5. /\ status \in VideoStatus \cup {GONE}
        /\ {processingAttemptId, committedAttemptId} \subseteq Attempts
        /\ uncleaned \in SUBSET Executions
        /\ deletion \in {"none", "removing", "removed"}
    BY DEF Init
  <2> QED
    BY <2>1, <2>2, <2>3, <2>4, <2>5
<1>2. CommittedIsFinal
  BY DEF Init, CommittedIsFinal
<1>3. ReadyIsServable
  BY DEF Init, ReadyIsServable
<1>4. UnknownUntilAcquired
  BY DEF Init, UnknownUntilAcquired
<1>5. OwnerHasItsUploads
  BY DEF Init, OwnerHasItsUploads
<1>6. JanitorsRemoveLosers
  BY DEF Init, JanitorsRemoveLosers
<1>7. CleanersAreUnpublished
  BY DEF Init, CleanersAreUnpublished
<1>8. CleanedUp
  BY DEF Init, CleanedUp
<1>9. DeletionIsUnderWay
  BY DEF Init, DeletionIsUnderWay
<1> QED
  BY <1>1, <1>2, <1>3, <1>4, <1>5, <1>6, <1>7, <1>8, <1>9 DEF IInv

(* Every step of an execution preserves it.                                *)
LEMMA ExecutionStepIInv ==
  ASSUME IInv, NEW e \in Executions, ExecutionStep(e)
  PROVE  IInv'
<1> USE DEF IInv, CommittedIsFinal, ReadyIsServable, UnknownUntilAcquired,
            OwnerHasItsUploads, JanitorsRemoveLosers, CleanersAreUnpublished, CleanedUp,
            DeletionIsUnderWay
<1>1. ASSUME NEW g \in Generations, Deliver(e, g) PROVE IInv'
  BY <1>1 DEF Deliver
<1>2. CASE Acquire(e)
  BY <1>2 DEF Acquire, CanAcquire, RecordOwner
<1>3. CASE AcquireUnanswered(e)
  BY <1>3 DEF AcquireUnanswered, CanAcquire, RecordOwner
<1>4. CASE RejectAcquisition(e)
  BY <1>4 DEF RejectAcquisition
<1>5. CASE VerifyBeforeUpload(e)
  BY <1>5 DEF VerifyBeforeUpload
<1>6. CASE UploadThumbnail(e)
  BY <1>6 DEF UploadThumbnail
<1>7. CASE UploadHls(e)
  BY <1>7 DEF UploadHls
<1>8. CASE VerifyBeforePublish(e)
  BY <1>8 DEF VerifyBeforePublish
<1>9. CASE Publish(e)
  <2> USE <1>9 DEF Publish, RecordReady
  <2>1. TypeOK'  OBVIOUS
  <2>2. CommittedIsFinal'  OBVIOUS
  <2>3. ReadyIsServable'  OBVIOUS
  <2>4. UnknownUntilAcquired'  OBVIOUS
  <2>5. OwnerHasItsUploads'  OBVIOUS
  <2>6. JanitorsRemoveLosers'  OBVIOUS
  <2>7. CleanersAreUnpublished'  OBVIOUS
  <2>8. CleanedUp'  OBVIOUS
  <2>9. DeletionIsUnderWay'  OBVIOUS
  <2> QED
    BY <2>1, <2>2, <2>3, <2>4, <2>5, <2>6, <2>7, <2>8, <2>9
<1>10. CASE PublishRefused(e)
  BY <1>10 DEF PublishRefused
<1>11. CASE LoseOwnership(e)
  BY <1>11 DEF LoseOwnership
<1>12. CASE FailWork(e)
  BY <1>12 DEF FailWork
<1>13. CASE RemoveObsolete(e)
  BY <1>13 DEF RemoveObsolete
<1>14. CASE Classify(e)
  BY <1>14 DEF Classify, Committed, Abandoned
<1>15. CASE ClassifyUnread(e)
  BY <1>15 DEF ClassifyUnread
<1>16. CASE CleanupRead(e)
  BY <1>16 DEF CleanupRead, Committed
<1>17. CASE CleanupUnread(e)
  BY <1>17 DEF CleanupUnread
<1>18. CASE RemoveAttempt(e)
  BY <1>18 DEF RemoveAttempt
<1>19. CASE Fail(e)
  <2> USE <1>19 DEF Fail
  <2>1. TypeOK'  OBVIOUS
  <2>2. CommittedIsFinal'  OBVIOUS
  <2>3. ReadyIsServable'  OBVIOUS
  <2>4. UnknownUntilAcquired'  OBVIOUS
  <2>5. OwnerHasItsUploads'  OBVIOUS
  <2>6. JanitorsRemoveLosers'  OBVIOUS
  <2>7. CleanersAreUnpublished'  OBVIOUS
  <2>8. CleanedUp'  OBVIOUS
  <2>9. DeletionIsUnderWay'  OBVIOUS
  <2> QED
    BY <2>1, <2>2, <2>3, <2>4, <2>5, <2>6, <2>7, <2>8, <2>9
<1>20. CASE Release(e)
  <2> USE <1>20 DEF Release
  <2>1. TypeOK'  OBVIOUS
  <2>2. CommittedIsFinal'  OBVIOUS
  <2>3. ReadyIsServable'  OBVIOUS
  <2>4. UnknownUntilAcquired'  OBVIOUS
  <2>5. OwnerHasItsUploads'  OBVIOUS
  <2>6. JanitorsRemoveLosers'  OBVIOUS
  <2>7. CleanersAreUnpublished'  OBVIOUS
  <2>8. CleanedUp'  OBVIOUS
  <2>9. DeletionIsUnderWay'  OBVIOUS
  <2> QED
    BY <2>1, <2>2, <2>3, <2>4, <2>5, <2>6, <2>7, <2>8, <2>9
<1>21. CASE SettleUnrecorded(e)
  BY <1>21 DEF SettleUnrecorded
<1> QED
  BY <1>1, <1>2, <1>3, <1>4, <1>5, <1>6, <1>7, <1>8, <1>9, <1>10, <1>11, <1>12, <1>13,
       <1>14, <1>15, <1>16, <1>17, <1>18, <1>19, <1>20, <1>21 DEF ExecutionStep

(* Every step of a janitor preserves it.                                   *)
LEMMA JanitorStepIInv ==
  ASSUME IInv, NEW j \in Janitors, JanitorStep(j)
  PROVE  IInv'
<1> USE DEF IInv, CommittedIsFinal, ReadyIsServable, UnknownUntilAcquired,
            OwnerHasItsUploads, JanitorsRemoveLosers, CleanersAreUnpublished, CleanedUp,
            DeletionIsUnderWay
<1>1. ASSUME NEW g \in Generations, ReadStranded(j, g) PROVE IInv'
  BY <1>1 DEF ReadStranded, Note
<1>2. CASE FindCandidate(j)
  BY <1>2 DEF FindCandidate, Note
<1>3. CASE FailStranded(j)
  <2> USE <1>3 DEF FailStranded, StrandedFence, Finish, Continue, Note
  <2>1. TypeOK'
    <3>1. leaseValid' \in BOOLEAN /\ (leaseValid' => processingAttemptId' \in Executions)
      BY <1>3 DEF FailStranded, IInv
    <3>2. /\ status' \in VideoStatus \cup {GONE}
          /\ processingAttemptId' \in Attempts
      BY <1>3 DEF FailStranded, IInv
    <3>3. /\ jpc' \in [Janitors -> JanitorSteps]
          /\ jgeneration' \in [Janitors -> Generations \cup {0}]
          /\ jattempt' \in [Janitors -> Attempts]
      BY <1>3 DEF FailStranded, Finish, Continue, Note, IInv
    <3> QED
      BY <1>3, <3>1, <3>2, <3>3 DEF FailStranded, IInv
  <2>2. CommittedIsFinal'  OBVIOUS
  <2>3. ReadyIsServable'  OBVIOUS
  <2>4. UnknownUntilAcquired'  OBVIOUS
  <2>5. OwnerHasItsUploads'  OBVIOUS
  <2>6. JanitorsRemoveLosers'  OBVIOUS
  <2>7. CleanersAreUnpublished'  OBVIOUS
  <2>8. CleanedUp'  OBVIOUS
  <2>9. DeletionIsUnderWay'  OBVIOUS
  <2> QED
    BY <2>1, <2>2, <2>3, <2>4, <2>5, <2>6, <2>7, <2>8, <2>9
<1>4. CASE RevokeExpiredOwner(j)
  <2> USE <1>4 DEF RevokeExpiredOwner, StrandedFence, Finish, Note
  <2>1. TypeOK'  OBVIOUS
  <2>2. CommittedIsFinal'  OBVIOUS
  <2>3. ReadyIsServable'  OBVIOUS
  <2>4. UnknownUntilAcquired'  OBVIOUS
  <2>5. OwnerHasItsUploads'  OBVIOUS
  <2>6. JanitorsRemoveLosers'  OBVIOUS
  <2>7. CleanersAreUnpublished'  OBVIOUS
  <2>8. CleanedUp'  OBVIOUS
  <2>9. DeletionIsUnderWay'  OBVIOUS
  <2> QED
    BY <2>1, <2>2, <2>3, <2>4, <2>5, <2>6, <2>7, <2>8, <2>9
<1>5. CASE JanitorCleanupRead(j)
  BY <1>5 DEF JanitorCleanupRead, Committed, Finish, Continue, Note
<1>6. CASE JanitorRemove(j)
  BY <1>6 DEF JanitorRemove, Finish, Note
<1>7. CASE JanitorStops(j)
  BY <1>7 DEF JanitorStops, Finish, Note
<1> QED
  BY <1>1, <1>2, <1>3, <1>4, <1>5, <1>6, <1>7 DEF JanitorStep

(* The expiry of a lease and the owner's requests preserve it.             *)
LEMMA OtherStepIInv ==
  ASSUME IInv, LeaseExpires \/ OwnerStep
  PROVE  IInv'
<1> USE DEF IInv, CommittedIsFinal, ReadyIsServable, UnknownUntilAcquired,
            OwnerHasItsUploads, JanitorsRemoveLosers, CleanersAreUnpublished, CleanedUp,
            DeletionIsUnderWay
<1>1. CASE LeaseExpires
  BY <1>1 DEF LeaseExpires
<1>2. CASE RetryProcessing
  <2> USE <1>2 DEF RetryProcessing
  <2>1. TypeOK'
    <3>1. processingGeneration' \in Generations
      BY <1>2 DEF RetryProcessing, IInv
    <3>2. leaseValid' \in BOOLEAN /\ ~leaseValid'
      BY <1>2 DEF RetryProcessing, IInv
    <3> QED
      BY <1>2, <3>1, <3>2 DEF RetryProcessing, IInv
  <2>2. CommittedIsFinal'  OBVIOUS
  <2>3. ReadyIsServable'  OBVIOUS
  <2>4. UnknownUntilAcquired'  OBVIOUS
  <2>5. OwnerHasItsUploads'  OBVIOUS
  <2>6. JanitorsRemoveLosers'  OBVIOUS
  <2>7. CleanersAreUnpublished'  OBVIOUS
  <2>8. CleanedUp'  OBVIOUS
  <2>9. DeletionIsUnderWay'  OBVIOUS
  <2> QED
    BY <2>1, <2>2, <2>3, <2>4, <2>5, <2>6, <2>7, <2>8, <2>9
<1>3. CASE BeginDeletion
  BY <1>3 DEF BeginDeletion
<1>4. CASE DeleteObjects
  BY <1>4 DEF DeleteObjects
<1>5. CASE DeleteRow
  BY <1>5 DEF DeleteRow
<1> QED
  BY <1>1, <1>2, <1>3, <1>4, <1>5 DEF OwnerStep

(* The invariant is inductive.                                             *)
LEMMA NextIInv == IInv /\ [Next]_vars => IInv'
<1> SUFFICES ASSUME IInv, [Next]_vars PROVE IInv'
  OBVIOUS
<1>1. CASE Next
  BY <1>1, ExecutionStepIInv, JanitorStepIInv, OtherStepIInv DEF Next
<1>2. CASE UNCHANGED vars
  BY <1>2 DEF vars, IInv, CommittedIsFinal, ReadyIsServable, UnknownUntilAcquired,
     OwnerHasItsUploads, JanitorsRemoveLosers, CleanersAreUnpublished, CleanedUp,
     DeletionIsUnderWay
<1> QED
  BY <1>1, <1>2

(* The invariant holds in every reachable state.                          *)
LEMMA Invariance == Spec => []IInv
  BY InitIInv, NextIInv, PTL DEF Spec

(* Every variable keeps its type, and no lease is ever recorded without an *)
(* attempt that holds it (processingAttemptId and processingLeaseExpiresAt *)
(* are written together by every statement).                               *)
THEOREM TypeCorrect == Spec => []TypeOK
<1>1. IInv => TypeOK
  BY DEF IInv
<1> QED
  BY <1>1, Invariance, PTL

(* A READY video always has the complete output of an attempt of its       *)
(* current generation in storage: no cleanup, sweep, janitor or late       *)
(* execution ever removes it.                                              *)
THEOREM ReadyIsAlwaysServable == Spec => []ReadyIsServable
<1>1. IInv => ReadyIsServable
  BY DEF IInv
<1> QED
  BY <1>1, Invariance, PTL

(* An execution that ran to its end leaves nothing in storage that was not *)
(* published, unless a cleanup failed and said so.                         *)
THEOREM NoSilentOrphans == Spec => []NoSilentOrphan
<1>1. IInv => NoSilentOrphan
  BY DEF IInv, CleanedUp, NoSilentOrphan
<1> QED
  BY <1>1, Invariance, PTL

-----------------------------------------------------------------------------
(* The steps that write the row; every other step leaves it alone.         *)
RowStep ==
    \/ \E e \in Executions :
          Acquire(e) \/ AcquireUnanswered(e) \/ Publish(e) \/ Fail(e) \/ Release(e)
    \/ \E j \in Janitors : FailStranded(j) \/ RevokeExpiredOwner(j)
    \/ LeaseExpires \/ RetryProcessing \/ BeginDeletion \/ DeleteRow

(* Every step writes the row by one of these, or leaves it.                *)
LEMMA RowSteps ==
  ASSUME [Next]_vars
  PROVE  RowStep \/ UNCHANGED row
<1>1. ASSUME NEW e \in Executions, ExecutionStep(e)
      PROVE  RowStep \/ UNCHANGED row
  BY <1>1 DEF ExecutionStep, RowStep, Deliver, RejectAcquisition, VerifyBeforeUpload,
     UploadThumbnail, UploadHls, VerifyBeforePublish, PublishRefused, LoseOwnership,
     FailWork, RemoveObsolete, Classify, ClassifyUnread, CleanupRead, CleanupUnread,
     RemoveAttempt, SettleUnrecorded
<1>2. ASSUME NEW j \in Janitors, JanitorStep(j)
      PROVE  RowStep \/ UNCHANGED row
  BY <1>2 DEF JanitorStep, RowStep, ReadStranded, FindCandidate, JanitorCleanupRead,
     JanitorRemove, JanitorStops
<1>3. CASE LeaseExpires \/ OwnerStep
  BY <1>3 DEF OwnerStep, RowStep, DeleteObjects
<1>4. CASE UNCHANGED vars
  BY <1>4 DEF vars
<1> QED
  BY <1>1, <1>2, <1>3, <1>4 DEF Next

(* The authoritative attempt, once recorded, is never replaced: acquiring, *)
(* publishing and retrying all need a status a published row never has.    *)
THEOREM PublicationIsFinal == Spec => PublishedOnce
<1>1. ASSUME IInv, [Next]_vars, committedAttemptId # NoAttempt
      PROVE  committedAttemptId' = committedAttemptId
  <2> USE <1>1 DEF IInv, CommittedIsFinal
  <2>1. ASSUME NEW e \in Executions, Acquire(e)
       PROVE  committedAttemptId' = committedAttemptId
    BY <2>1 DEF Acquire, CanAcquire, RecordOwner
  <2>2. ASSUME NEW e \in Executions, AcquireUnanswered(e)
       PROVE  committedAttemptId' = committedAttemptId
    BY <2>2 DEF AcquireUnanswered, CanAcquire, RecordOwner
  <2>3. ASSUME NEW e \in Executions, Publish(e)
       PROVE  committedAttemptId' = committedAttemptId
    BY <2>3 DEF Publish, RecordReady
  <2>4. ASSUME NEW e \in Executions, Fail(e)
       PROVE  committedAttemptId' = committedAttemptId
    BY <2>4 DEF Fail
  <2>5. ASSUME NEW e \in Executions, Release(e)
       PROVE  committedAttemptId' = committedAttemptId
    BY <2>5 DEF Release
  <2>6. ASSUME NEW j \in Janitors, FailStranded(j)
       PROVE  committedAttemptId' = committedAttemptId
    BY <2>6 DEF FailStranded, StrandedFence
  <2>7. ASSUME NEW j \in Janitors, RevokeExpiredOwner(j)
       PROVE  committedAttemptId' = committedAttemptId
    BY <2>7 DEF RevokeExpiredOwner, StrandedFence
  <2>8. CASE LeaseExpires
    BY <2>8 DEF LeaseExpires
  <2>9. CASE RetryProcessing
    BY <2>9 DEF RetryProcessing
  <2>10. CASE BeginDeletion
    BY <2>10 DEF BeginDeletion
  <2>11. CASE DeleteRow
    BY <2>11 DEF DeleteRow
  <2>12. CASE UNCHANGED row
    BY <2>12
  <2> QED
    BY RowSteps, <2>1, <2>2, <2>3, <2>4, <2>5, <2>6, <2>7, <2>8, <2>9, <2>10, <2>11,
         <2>12 DEF RowStep
<1>2. IInv /\ [Next]_vars =>
         (committedAttemptId # NoAttempt => committedAttemptId' = committedAttemptId)
  BY <1>1
<1> QED
  BY <1>2, Invariance, PTL DEF Spec, PublishedOnce

(* Every status written by the raw SQL of the lease, the pipeline and the  *)
(* reconciler is one the shared table allows after the previous one.       *)
THEOREM StatusTableRespected == Spec => LegalTransitions
<1>1. ASSUME IInv, [Next]_vars
      PROVE  LegalStatusStep(status, status')
  <2> USE <1>1 DEF LegalStatusStep, CanTransition, ALLOWED_VIDEO_TRANSITIONS, IInv,
              DeletionIsUnderWay
  <2>1. ASSUME NEW e \in Executions, Acquire(e)
       PROVE  LegalStatusStep(status, status')
    BY <2>1 DEF Acquire, CanAcquire, RecordOwner
  <2>2. ASSUME NEW e \in Executions, AcquireUnanswered(e)
       PROVE  LegalStatusStep(status, status')
    BY <2>2 DEF AcquireUnanswered, CanAcquire, RecordOwner
  <2>3. ASSUME NEW e \in Executions, Publish(e)
       PROVE  LegalStatusStep(status, status')
    BY <2>3 DEF Publish, RecordReady
  <2>4. ASSUME NEW e \in Executions, Fail(e)
       PROVE  LegalStatusStep(status, status')
    BY <2>4 DEF Fail
  <2>5. ASSUME NEW e \in Executions, Release(e)
       PROVE  LegalStatusStep(status, status')
    BY <2>5 DEF Release
  <2>6. ASSUME NEW j \in Janitors, FailStranded(j)
       PROVE  LegalStatusStep(status, status')
    BY <2>6 DEF FailStranded, StrandedFence
  <2>7. ASSUME NEW j \in Janitors, RevokeExpiredOwner(j)
       PROVE  LegalStatusStep(status, status')
    BY <2>7 DEF RevokeExpiredOwner, StrandedFence
  <2>8. CASE LeaseExpires
    BY <2>8 DEF LeaseExpires
  <2>9. CASE RetryProcessing
    BY <2>9 DEF RetryProcessing
  <2>10. CASE BeginDeletion
    BY <2>10 DEF BeginDeletion
  <2>11. CASE DeleteRow
    BY <2>11 DEF DeleteRow
  <2>12. CASE UNCHANGED row
    BY <2>12
  <2> QED
    BY RowSteps, <2>1, <2>2, <2>3, <2>4, <2>5, <2>6, <2>7, <2>8, <2>9, <2>10, <2>11,
         <2>12 DEF RowStep
<1> QED
  BY <1>1, Invariance, PTL DEF Spec, LegalTransitions

-----------------------------------------------------------------------------
(* An execution moves, and its job is fixed, only by a step of its own.    *)
LEMMA OwnSteps ==
  ASSUME TypeOK, [Next]_vars, NEW e \in Executions
  PROVE  ExecutionStep(e) \/ (pc'[e] = pc[e] /\ generation'[e] = generation[e])
<1>1. ASSUME NEW d \in Executions, ExecutionStep(d)
      PROVE  d = e \/ (pc'[e] = pc[e] /\ generation'[e] = generation[e])
  BY <1>1 DEF ExecutionStep, Deliver, Acquire, AcquireUnanswered, RejectAcquisition,
       VerifyBeforeUpload, UploadThumbnail, UploadHls, VerifyBeforePublish, Publish,
       PublishRefused, LoseOwnership, FailWork, RemoveObsolete, Classify,
       ClassifyUnread, CleanupRead, CleanupUnread, RemoveAttempt, Fail, Release,
       SettleUnrecorded
<1>2. ASSUME NEW j \in Janitors, JanitorStep(j)
      PROVE  pc'[e] = pc[e] /\ generation'[e] = generation[e]
  BY <1>2 DEF JanitorStep, ReadStranded, FindCandidate, FailStranded,
       RevokeExpiredOwner, JanitorCleanupRead, JanitorRemove, JanitorStops
<1>3. CASE LeaseExpires \/ OwnerStep
  BY <1>3 DEF LeaseExpires, OwnerStep, RetryProcessing, BeginDeletion, DeleteObjects,
       DeleteRow
<1>4. CASE UNCHANGED vars
  BY <1>4 DEF vars
<1> QED
  BY <1>1, <1>2, <1>3, <1>4 DEF Next

(* An execution of a superseded generation touches nothing but its own     *)
(* objects: every write of the row is fenced by the generation, and only a *)
(* published attempt, which is of the current one, sweeps other prefixes.  *)
THEOREM StaleExecutionsAreInert == Spec => StaleExecutionInert
<1>1. ASSUME IInv, [Next]_vars, NEW e \in Executions,
             pc'[e] # pc[e], generation[e] \in 1..(processingGeneration - 1)
      PROVE  UNCHANGED row /\ \A a \in Executions \ {e} : objects'[a] = objects[a]
  <2>1. ExecutionStep(e)
    BY <1>1, OwnSteps DEF IInv
  <2>2. generation[e] # processingGeneration /\ generation[e] # 0
    BY <1>1 DEF IInv
  <2>3. CASE \E g \in Generations : Deliver(e, g)
    BY <2>3 DEF Deliver
  <2>4. CASE Acquire(e)
    BY <1>1, <2>2, <2>4 DEF Acquire, CanAcquire
  <2>5. CASE AcquireUnanswered(e)
    BY <1>1, <2>2, <2>5 DEF AcquireUnanswered, CanAcquire
  <2>6. CASE RejectAcquisition(e)
    BY <1>1, <2>2, <2>6 DEF RejectAcquisition
  <2>7. CASE VerifyBeforeUpload(e)
    BY <1>1, <2>2, <2>7 DEF VerifyBeforeUpload
  <2>8. CASE UploadThumbnail(e)
    BY <1>1, <2>2, <2>8 DEF UploadThumbnail, IInv
  <2>9. CASE UploadHls(e)
    BY <1>1, <2>2, <2>9 DEF UploadHls, IInv
  <2>10. CASE VerifyBeforePublish(e)
    BY <1>1, <2>2, <2>10 DEF VerifyBeforePublish
  <2>11. CASE Publish(e)
    BY <1>1, <2>2, <2>11 DEF Publish
  <2>12. CASE PublishRefused(e)
    BY <1>1, <2>2, <2>12 DEF PublishRefused
  <2>13. CASE LoseOwnership(e)
    BY <1>1, <2>2, <2>13 DEF LoseOwnership
  <2>14. CASE FailWork(e)
    BY <1>1, <2>2, <2>14 DEF FailWork
  <2>15. CASE RemoveObsolete(e)
    BY <1>1, <2>2, <2>15 DEF RemoveObsolete, IInv, CleanersAreUnpublished,
         CommittedIsFinal
  <2>16. CASE Classify(e)
    BY <1>1, <2>2, <2>16 DEF Classify
  <2>17. CASE ClassifyUnread(e)
    BY <1>1, <2>2, <2>17 DEF ClassifyUnread
  <2>18. CASE CleanupRead(e)
    BY <1>1, <2>2, <2>18 DEF CleanupRead
  <2>19. CASE CleanupUnread(e)
    BY <1>1, <2>2, <2>19 DEF CleanupUnread
  <2>20. CASE RemoveAttempt(e)
    BY <1>1, <2>2, <2>20 DEF RemoveAttempt, IInv
  <2>21. CASE Fail(e)
    BY <1>1, <2>2, <2>21 DEF Fail
  <2>22. CASE Release(e)
    BY <1>1, <2>2, <2>22 DEF Release
  <2>23. CASE SettleUnrecorded(e)
    BY <1>1, <2>2, <2>23 DEF SettleUnrecorded
  <2> QED
    BY <2>1, <2>3, <2>4, <2>5, <2>6, <2>7, <2>8, <2>9, <2>10, <2>11, <2>12, <2>13,
         <2>14, <2>15, <2>16, <2>17, <2>18, <2>19, <2>20, <2>21, <2>22, <2>23 DEF
         ExecutionStep
<1>2. IInv /\ [Next]_vars =>
        \A e \in Executions :
           pc'[e] # pc[e] /\ generation[e] \in 1..(processingGeneration - 1) =>
              /\ UNCHANGED row
              /\ \A a \in Executions \ {e} : objects'[a] = objects[a]
  BY <1>1
<1> QED
  BY <1>2, Invariance, PTL DEF Spec, StaleExecutionInert

(* Until its lease runs out, the owner of the generation is displaced by   *)
(* nobody: takeovers, stranded-job handlers and the reconciler all require *)
(* an expired lease, releases and failures the attempt's own identity.     *)
THEOREM LiveOwnersAreUndisturbed == Spec => LiveOwnerUndisturbed
<1>1. ASSUME IInv, [Next]_vars, NEW e \in Executions, LiveOwner(e)
      PROVE  \/ LiveOwner(e)'
             \/ pc'[e] # pc[e]
             \/ status' = "DELETING"
             \/ OwnedBy(e)' /\ ~leaseValid'
  <2> SUFFICES ASSUME pc'[e] = pc[e]
               PROVE  \/ LiveOwner(e)'
                      \/ status' = "DELETING"
                      \/ OwnedBy(e)' /\ ~leaseValid'
    OBVIOUS
  <2>1. generation'[e] = generation[e]
    BY <1>1, OwnSteps DEF IInv, ExecutionStep, Deliver, Acquire, AcquireUnanswered,
         RejectAcquisition, VerifyBeforeUpload, UploadThumbnail, UploadHls,
         VerifyBeforePublish, Publish, PublishRefused, LoseOwnership, FailWork,
         RemoveObsolete, Classify, ClassifyUnread, CleanupRead, CleanupUnread,
         RemoveAttempt, Fail, Release, SettleUnrecorded
  <2>2. ASSUME NEW d \in Executions, Acquire(d) PROVE FALSE
    BY <1>1, <2>2 DEF Acquire, CanAcquire, RecordOwner, IInv
  <2>3. ASSUME NEW d \in Executions, AcquireUnanswered(d) PROVE FALSE
    BY <1>1, <2>3 DEF AcquireUnanswered, CanAcquire, RecordOwner, IInv
  <2>4. ASSUME NEW d \in Executions, Publish(d) PROVE FALSE
    BY <1>1, <2>4 DEF Publish, RecordReady, IInv
  <2>5. ASSUME NEW d \in Executions, Fail(d) PROVE LiveOwner(e)'
    BY <1>1, <2>1, <2>5 DEF Fail, IInv
  <2>6. ASSUME NEW d \in Executions, Release(d) PROVE LiveOwner(e)'
    BY <1>1, <2>1, <2>6 DEF Release, IInv
  <2>7. ASSUME NEW j \in Janitors, FailStranded(j) PROVE LiveOwner(e)'
    BY <1>1, <2>1, <2>7 DEF FailStranded, StrandedFence, IInv
  <2>8. ASSUME NEW j \in Janitors, RevokeExpiredOwner(j) PROVE LiveOwner(e)'
    BY <1>1, <2>1, <2>8 DEF RevokeExpiredOwner, StrandedFence, IInv
  <2>9. CASE LeaseExpires
    BY <1>1, <2>1, <2>9 DEF LeaseExpires, IInv, DeletionIsUnderWay
  <2>10. CASE RetryProcessing
    BY <1>1, <2>1, <2>10 DEF RetryProcessing, IInv, DeletionIsUnderWay
  <2>11. CASE BeginDeletion
    BY <1>1, <2>1, <2>11 DEF BeginDeletion, IInv, DeletionIsUnderWay
  <2>12. CASE DeleteRow
    BY <1>1, <2>1, <2>12 DEF DeleteRow, IInv, DeletionIsUnderWay
  <2>13. CASE UNCHANGED row
    BY <1>1, <2>1, <2>13
  <2> QED
    BY <1>1, RowSteps, <2>2, <2>3, <2>4, <2>5, <2>6, <2>7, <2>8, <2>9, <2>10, <2>11,
         <2>12, <2>13 DEF RowStep
<1>2. IInv /\ [Next]_vars =>
        \A e \in Executions :
           LiveOwner(e) => \/ LiveOwner(e)'
                           \/ pc'[e] # pc[e]
                           \/ status' = "DELETING"
                           \/ OwnedBy(e)' /\ ~leaseValid'
  BY <1>1
<1> QED
  BY <1>2, Invariance, PTL DEF Spec, LiveOwnerUndisturbed

-----------------------------------------------------------------------------
(* In the states the system reaches, what is served is the output of the   *)
(* current generation, exactly while the video is READY.                   *)
LEMMA Served ==
  ASSUME IInv
  PROVE  ServedGeneration = IF status = "READY" THEN processingGeneration ELSE 0
  BY DEF ServedGeneration, IInv, ReadyIsServable

(* The leases, attempts, cleanups and janitors implement the lifecycle     *)
(* that owners and viewers rely on, whatever the number of executions.     *)
THEOREM LifecycleImplemented == Spec => ImplementsLifecycle
<1>1. Init => Lifecycle!Init
  BY InitIInv, Served DEF Init, Lifecycle!Init
<1>2. IInv /\ IInv' /\ [Next]_vars => [Lifecycle!Next]_Lifecycle!vars
  <2> SUFFICES ASSUME IInv, IInv', [Next]_vars
               PROVE  Lifecycle!Next \/ UNCHANGED Lifecycle!vars
    OBVIOUS
  <2> DEFINE Out == IF status = "READY" THEN processingGeneration ELSE 0
  <2>1. ServedGeneration = Out /\ ServedGeneration' = Out'
    <3>1. ServedGeneration = Out
      BY Served
    <3>2. ServedGeneration' = Out'
      BY DEF ServedGeneration, IInv, ReadyIsServable
    <3> QED
      BY <3>1, <3>2
  <2>2. ASSUME NEW e \in Executions, Acquire(e) \/ AcquireUnanswered(e)
       PROVE  Lifecycle!Start \/ UNCHANGED Lifecycle!vars
    <3>1. /\ status \in {"UPLOADED", "PROCESSING"}
          /\ status' = "PROCESSING"
          /\ UNCHANGED processingGeneration
      BY <2>2 DEF Acquire, AcquireUnanswered, CanAcquire, RecordOwner
    <3>2. UNCHANGED ServedGeneration
      BY <2>1, <3>1
    <3> QED
      BY <3>1, <3>2 DEF Lifecycle!Start, Lifecycle!vars
  <2>3. ASSUME NEW e \in Executions, Acquire(e) \/ AcquireUnanswered(e)
       PROVE  Lifecycle!Next \/ UNCHANGED Lifecycle!vars
    BY <2>2, <2>3 DEF Lifecycle!Next
  <2> USE DEF Lifecycle!Next, Lifecycle!Start, Lifecycle!Publish, Lifecycle!Fail,
              Lifecycle!Retry, Lifecycle!Delete, Lifecycle!Remove, Lifecycle!vars
  <2>4. ASSUME NEW e \in Executions, Publish(e)
       PROVE  Lifecycle!Next \/ UNCHANGED Lifecycle!vars
    BY <2>1, <2>4 DEF Publish, RecordReady
  <2>5. ASSUME NEW e \in Executions, Fail(e)
       PROVE  Lifecycle!Next \/ UNCHANGED Lifecycle!vars
    BY <2>1, <2>5 DEF Fail
  <2>6. ASSUME NEW e \in Executions, Release(e)
       PROVE  Lifecycle!Next \/ UNCHANGED Lifecycle!vars
    BY <2>1, <2>6 DEF Release
  <2>7. ASSUME NEW j \in Janitors, FailStranded(j)
       PROVE  Lifecycle!Next \/ UNCHANGED Lifecycle!vars
    BY <2>1, <2>7 DEF FailStranded, StrandedFence
  <2>8. ASSUME NEW j \in Janitors, RevokeExpiredOwner(j)
       PROVE  Lifecycle!Next \/ UNCHANGED Lifecycle!vars
    BY <2>1, <2>8 DEF RevokeExpiredOwner, StrandedFence
  <2>9. CASE LeaseExpires
    BY <2>1, <2>9 DEF LeaseExpires, IInv, DeletionIsUnderWay
  <2> HIDE DEF Lifecycle!Next, Lifecycle!Start, Lifecycle!Publish, Lifecycle!Fail,
              Lifecycle!Retry, Lifecycle!Delete, Lifecycle!Remove, Lifecycle!vars
  <2>10. CASE RetryProcessing
    <3>1. /\ status = "FAILED" /\ status' = "PROCESSING"
          /\ processingGeneration' = processingGeneration + 1
      BY <2>10 DEF RetryProcessing
    <3>2. UNCHANGED ServedGeneration
      BY <2>1, <3>1
    <3>3. Lifecycle!Retry
      BY <3>1, <3>2 DEF Lifecycle!Retry
    <3> QED
      BY <3>3 DEF Lifecycle!Next
  <2>11. CASE BeginDeletion
    <3>1. /\ status # GONE /\ status' = "DELETING"
          /\ UNCHANGED processingGeneration
      BY <2>11 DEF BeginDeletion
    <3>2. ServedGeneration' = 0
      BY <2>1, <3>1
    <3>3. Lifecycle!Delete
      BY <3>1, <3>2 DEF Lifecycle!Delete, Lifecycle!GONE
    <3> QED
      BY <3>3 DEF Lifecycle!Next
  <2>12. CASE DeleteRow
    <3>1. /\ status \in {"DELETING", GONE} /\ status' = GONE
          /\ UNCHANGED processingGeneration
      BY <2>12 DEF DeleteRow, IInv, DeletionIsUnderWay
    <3>2. UNCHANGED ServedGeneration
      BY <2>1, <3>1
    <3>3. Lifecycle!Remove \/ UNCHANGED Lifecycle!vars
      BY <3>1, <3>2 DEF Lifecycle!Remove, Lifecycle!GONE, Lifecycle!vars
    <3> QED
      BY <3>3 DEF Lifecycle!Next
  <2>13. CASE UNCHANGED row
    BY <2>1, <2>13 DEF Lifecycle!vars
  <2> QED
    BY RowSteps, <2>2, <2>3, <2>4, <2>5, <2>6, <2>7, <2>8, <2>9, <2>10, <2>11, <2>12,
         <2>13 DEF RowStep
<1> QED
  BY <1>1, <1>2, Invariance, PTL DEF Spec, ImplementsLifecycle, Lifecycle!Spec

=============================================================================
