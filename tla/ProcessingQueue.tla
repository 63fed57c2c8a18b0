---------------------------- MODULE ProcessingQueue ----------------------------
(***************************************************************************)
(* How a requested generation reaches an end: the transactional outbox and *)
(* its publisher, the BullMQ queue in a Redis that may lose everything,    *)
(* workers that take jobs and crash, BullMQ's stall detection, and the     *)
(* reconciler of every API instance, which re-publishes or fails what got  *)
(* stranded.  Ownership is that of AttemptOwnership with the objects and   *)
(* the upload steps left out.                                              *)
(*                                                                         *)
(* Worker slots are reused.  An attempt is named by the slot that runs it, *)
(* or Orphan once no slot does.  Grace and cooldown are one flag, cooling, *)
(* that may drop at any time after it was set.  Faults (crashes, lost jobs *)
(* and lost job locks) are bounded by MaxFaults, nothing else is.          *)
(***************************************************************************)
EXTENDS Naturals, VideoStatus

CONSTANTS
    Workers,         \* job slots: worker processes times WORKER_CONCURRENCY
    Apis,            \* API instances, each with a publisher and a reconciler
    NoOwner,         \* NULL processingAttemptId, and a job nobody holds
    Orphan,          \* an attempt whose execution is gone
    Attempts,        \* attempts of a BullMQ job
    MaxRecoveries,   \* ProcessingReconcilerOptions.maxRecoveries
    MaxGeneration,   \* bound on owner retries
    MaxFaults        \* bound on crashes and losses

ASSUME NamesAssumption == NoOwner \notin Workers /\ Orphan \notin Workers /\ NoOwner # Orphan
ASSUME BoundsAssumption ==
    /\ Attempts \in Nat \ {0} /\ MaxGeneration \in Nat \ {0}
    /\ MaxRecoveries \in Nat /\ MaxFaults \in Nat

VARIABLES
    status, generation,    \* Video.status and processingGeneration
    owner, leaseValid,     \* processingAttemptId, and whether its lease runs
    outbox,                \* ProcessingOutbox row of each generation
    job,                   \* BullMQ job of each generation
    slot,                  \* what each worker slot does
    publishing,            \* event an API enqueued and has not marked; 0: none
    pass,                  \* reconcileOne of each API
    republished,           \* history: per generation, jobs requeued and passes that
                           \* died before they counted theirs
    faults                 \* faults so far

row == <<status, generation, owner, leaseValid>>
vars == <<row, outbox, job, slot, publishing, pass, republished, faults>>

Generations == 1..MaxGeneration

JobStates == {"missing", "queued", "active", "failed", "completed"}
Missing == [state |-> "missing", attemptsMade |-> 0, holder |-> NoOwner]
Fresh == [Missing EXCEPT !.state = "queued"]

NoEvent == [state |-> "none", cooling |-> FALSE, recoveryAttempts |-> 0]
Requested == [NoEvent EXCEPT !.state = "pending"]

(* "settling": runJob's catch; "finishing": the processor returned or      *)
(* threw; "failedHandler": handleJobFailed of a terminal failure.          *)
SlotSteps == {"idle", "acquiring", "working", "settling", "finishing", "failedHandler"}
Outcomes == {"ok", "retryable", "nonRetryable"}
Idle == [step |-> "idle", gen |-> 0, attemptsMade |-> 0, outcome |-> "ok"]

PassSteps == {"idle", "claiming", "reading", "failing", "revoking", "removing", "adding", "counting"}
NoPass == [step |-> "idle", gen |-> 0, recoveryAttempts |-> 0]

NotRepublished == [jobs |-> 0, uncounted |-> 0]

TypeOK ==
    /\ status \in VideoStatus
    /\ generation \in Generations
    /\ owner \in Workers \cup {NoOwner, Orphan}
    /\ leaseValid \in BOOLEAN
    /\ outbox \in [Generations -> [state : {"none", "pending", "published"}, cooling : BOOLEAN,
                                   recoveryAttempts : Nat]]
    /\ job \in [Generations -> [state : JobStates, attemptsMade : 0..Attempts,
                                holder : Workers \cup {NoOwner}]]
    /\ slot \in [Workers -> [step : SlotSteps, gen : Generations \cup {0},
                             attemptsMade : 0..Attempts, outcome : Outcomes]]
    /\ publishing \in [Apis -> Generations \cup {0}]
    /\ pass \in [Apis -> [step : PassSteps, gen : Generations \cup {0}, recoveryAttempts : Nat]]
    /\ republished \in [Generations -> [jobs : Nat, uncounted : Nat]]
    /\ faults \in 0..MaxFaults

(* Upload completion wrote generation 1 and its event in one transaction.  *)
Init ==
    /\ status = "UPLOADED" /\ generation = 1
    /\ owner = NoOwner /\ leaseValid = FALSE
    /\ outbox = [g \in Generations |-> IF g = 1 THEN Requested ELSE NoEvent]
    /\ job = [g \in Generations |-> Missing]
    /\ slot = [w \in Workers |-> Idle]
    /\ publishing = [a \in Apis |-> 0]
    /\ pass = [a \in Apis |-> NoPass]
    /\ republished = [g \in Generations |-> NotRepublished]
    /\ faults = 0

-----------------------------------------------------------------------------
(* Mutation: whatever is neither READY nor being deleted is pending.       *)
Pending_UnlessReady(g) == status \notin {"READY", "DELETING"} /\ generation = g

Pending(g) == status \in {"UPLOADED", "PROCESSING"} /\ generation = g

NoLiveOwner == owner = NoOwner \/ ~leaseValid

Owns(w) == status = "PROCESSING" /\ generation = slot[w].gen /\ owner = w

ClearAttempt == owner' = NoOwner /\ leaseValid' = FALSE

FailGeneration == status' = "FAILED" /\ ClearAttempt /\ UNCHANGED generation

(* Adding a job whose id exists already changes nothing.                   *)
Add(g) == job' = IF job[g].state = "missing" THEN [job EXCEPT ![g] = Fresh] ELSE job

-----------------------------------------------------------------------------
(* ProcessingOutboxPublisher: enqueue, then mark; either may fail, and the *)
(* event stays for the next scan.                                          *)

EnqueueEvent(a, g) ==
    /\ publishing[a] = 0
    /\ outbox[g].state = "pending"
    /\ Add(g)
    /\ publishing' = [publishing EXCEPT ![a] = g]
    /\ UNCHANGED <<row, outbox, slot, pass, republished, faults>>

MarkPublished(a) ==
    /\ publishing[a] # 0
    /\ LET g == publishing[a] IN
       outbox' = IF outbox[g].state = "pending"
                 THEN [outbox EXCEPT ![g].state = "published", ![g].cooling = TRUE] ELSE outbox
    /\ publishing' = [publishing EXCEPT ![a] = 0]
    /\ UNCHANGED <<row, job, slot, pass, republished, faults>>

MarkFails(a) ==
    /\ publishing[a] # 0
    /\ faults < MaxFaults
    /\ faults' = faults + 1
    /\ publishing' = [publishing EXCEPT ![a] = 0]
    /\ UNCHANGED <<row, outbox, job, slot, pass, republished>>

(* Mutation: retention looks at the age of the event only.                 *)
Expirable_AgeOnly(g) == outbox[g].state = "published" /\ ~outbox[g].cooling

(* Published long ago, and its generation is not pending.                  *)
Expirable(g) == outbox[g].state = "published" /\ ~outbox[g].cooling /\ ~Pending(g)

CleanupPublished(g) ==
    /\ Expirable(g)
    /\ outbox' = [outbox EXCEPT ![g] = NoEvent]
    /\ UNCHANGED <<row, job, slot, publishing, pass, republished, faults>>

-----------------------------------------------------------------------------
(* A worker slot and its job.                                              *)

Go(w, step, outcome) == slot' = [slot EXCEPT ![w].step = step, ![w].outcome = outcome]

(* runJob ends, and its copy of the count with it.                         *)
Finish(w, outcome) ==
    slot' = [slot EXCEPT ![w] =
                [step |-> "finishing", gen |-> slot[w].gen, attemptsMade |-> 0, outcome |-> outcome]]

(* Mutation: the attempt that runs is not counted.                         *)
Exhausted_Before(attemptsMade) == attemptsMade >= Attempts

Exhausted(attemptsMade) == attemptsMade + 1 >= Attempts

Ended(g, state) == [state |-> state, attemptsMade |-> job[g].attemptsMade + 1, holder |-> NoOwner]

(* The processor's result reaches BullMQ, which takes it from the holder   *)
(* of the job's lock, whose copy of the count is the job's, and ignores it *)
(* from anybody else.  handleJobFailed acts only if no attempt is left.    *)
Result(w, outcome) ==
    LET g == slot[w].gen
        exhausted == Exhausted(job[g].attemptsMade)
        fails == outcome = "nonRetryable" \/ (outcome \in {"retryable", "busy"} /\ exhausted)
    IN  IF ~(job[g].state = "active" /\ job[g].holder = w)
        THEN UNCHANGED job /\ slot' = [slot EXCEPT ![w] = Idle]
        ELSE /\ job' = [job EXCEPT ![g] =
                    Ended(g, IF outcome = "ok" THEN "completed" ELSE IF fails THEN "failed" ELSE "queued")]
             /\ slot' = [slot EXCEPT ![w] =
                    IF fails /\ exhausted THEN [@ EXCEPT !.step = "failedHandler"] ELSE Idle]

(* A job of a superseded generation, or of a settled one, completes.       *)
TakeJob(w, g) ==
    /\ slot[w].step = "idle"
    /\ job[g].state = "queued"
    /\ IF Pending(g)
       THEN /\ job' = [job EXCEPT ![g].state = "active", ![g].holder = w]
            /\ slot' = [slot EXCEPT ![w] = [step |-> "acquiring", gen |-> g,
                                            attemptsMade |-> job[g].attemptsMade, outcome |-> "ok"]]
       ELSE /\ job' = [job EXCEPT ![g] = Ended(g, "completed")]
            /\ UNCHANGED slot
    /\ UNCHANGED <<row, outbox, publishing, pass, republished, faults>>

AcquireAttempt(w) ==
    /\ slot[w].step = "acquiring"
    /\ Pending(slot[w].gen) /\ NoLiveOwner
    /\ status' = "PROCESSING" /\ owner' = w /\ leaseValid' = TRUE
    /\ Go(w, "working", "ok")
    /\ UNCHANGED <<generation, outbox, job, publishing, pass, republished, faults>>

(* The job is moot, or its generation busy: then the error says retryable  *)
(* but names no attempt.                                                   *)
AcquireNothing(w) ==
    /\ slot[w].step = "acquiring"
    /\ ~(Pending(slot[w].gen) /\ NoLiveOwner)
    /\ Result(w, IF Pending(slot[w].gen) THEN "busy" ELSE "ok")
    /\ UNCHANGED <<row, outbox, publishing, pass, republished, faults>>

PublishReady(w) ==
    /\ slot[w].step = "working"
    /\ Owns(w) /\ leaseValid
    /\ status' = "READY" /\ ClearAttempt
    /\ Finish(w, "ok")
    /\ UNCHANGED <<generation, outbox, job, publishing, pass, republished, faults>>

(* Work ends in an error; if the video went away meanwhile, in none.       *)
WorkFails(w) ==
    /\ slot[w].step = "working"
    /\ IF Pending(slot[w].gen)
       THEN \E outcome \in {"retryable", "nonRetryable"} : Go(w, "settling", outcome)
       ELSE Finish(w, "ok")
    /\ UNCHANGED <<row, outbox, job, publishing, pass, republished, faults>>

(* The slot forgets its attempt without having cleared it.                 *)
Abandon(w) == owner' = IF owner = w THEN Orphan ELSE owner

(* runJob records the failure or releases the attempt, if it still owns    *)
(* the generation; the count is that of the job as it was taken, which may *)
(* have been taken again since.                                            *)
Settle(w) ==
    /\ slot[w].step = "settling"
    /\ IF ~Owns(w)
       THEN UNCHANGED <<status, leaseValid>> /\ Abandon(w)
       ELSE /\ ClearAttempt
            /\ status' = IF slot[w].outcome = "nonRetryable" \/ Exhausted(slot[w].attemptsMade)
                         THEN "FAILED" ELSE status
    /\ Finish(w, slot[w].outcome)
    /\ UNCHANGED <<generation, outbox, job, publishing, pass, republished, faults>>

(* The database does not answer: logged, and left to the reconciler.       *)
SettleUnrecorded(w) ==
    /\ slot[w].step = "settling"
    /\ Abandon(w)
    /\ Finish(w, slot[w].outcome)
    /\ UNCHANGED <<status, generation, leaseValid, outbox, job, publishing, pass, republished, faults>>

FinishJob(w) ==
    /\ slot[w].step = "finishing"
    /\ Result(w, slot[w].outcome)
    /\ UNCHANGED <<row, outbox, publishing, pass, republished, faults>>

(* failStranded, unless a live lease shows that somebody is at work; if    *)
(* the database does not answer that is logged.                            *)
FailStranded(w) ==
    /\ slot[w].step = "failedHandler"
    /\ \/ Pending(slot[w].gen) /\ NoLiveOwner /\ FailGeneration
       \/ UNCHANGED row
    /\ slot' = [slot EXCEPT ![w] = Idle]
    /\ UNCHANGED <<outbox, job, publishing, pass, republished, faults>>

(* An active job nobody holds is found by the stall check of a worker that *)
(* runs: queued again, or failed when it stalled too often.                *)
Stalled(w, g) ==
    /\ slot[w].step = "idle"
    /\ job[g].state = "active" /\ job[g].holder = NoOwner
    /\ \/ job' = [job EXCEPT ![g].state = "queued"] /\ UNCHANGED slot
       \/ /\ job' = [job EXCEPT ![g].state = "failed"]
          /\ slot' = [slot EXCEPT ![w] = [Idle EXCEPT !.step = "failedHandler", !.gen = g]]
    /\ UNCHANGED <<row, outbox, publishing, pass, republished, faults>>

LeaseExpires ==
    /\ leaseValid
    /\ leaseValid' = FALSE
    /\ UNCHANGED <<status, generation, owner, outbox, job, slot, publishing, pass, republished, faults>>

-----------------------------------------------------------------------------
(* ProcessingReconciler.                                                   *)

AtStep(a, step) == pass' = [pass EXCEPT ![a].step = step]
EndPass(a) == pass' = [pass EXCEPT ![a] = NoPass]

Due(g) == outbox[g].state = "published" /\ ~outbox[g].cooling

FindCandidate(a, g) ==
    /\ pass[a].step = "idle"
    /\ Due(g) /\ Pending(g) /\ NoLiveOwner
    /\ pass' = [pass EXCEPT ![a] =
           [step |-> "claiming", gen |-> g, recoveryAttempts |-> outbox[g].recoveryAttempts]]
    /\ UNCHANGED <<row, outbox, job, slot, publishing, republished, faults>>

(* One instance wins each cooldown window.                                 *)
Claim(a) ==
    /\ pass[a].step = "claiming"
    /\ LET g == pass[a].gen IN
       IF outbox[g].state # "none" /\ ~outbox[g].cooling
       THEN outbox' = [outbox EXCEPT ![g].cooling = TRUE] /\ AtStep(a, "reading")
       ELSE UNCHANGED outbox /\ EndPass(a)
    /\ UNCHANGED <<row, job, slot, publishing, republished, faults>>

(* Mutation: a retained failed job counts as somebody else's business.     *)
Healthy_IfRetained(g) == job[g].state \in {"queued", "active", "failed"}

Healthy(g) == job[g].state \in {"queued", "active"}

(* Mutation: one recovery too many.                                        *)
BoundReached_After(a) == pass[a].recoveryAttempts > MaxRecoveries

BoundReached(a) == pass[a].recoveryAttempts >= MaxRecoveries

ReadJobState(a) ==
    /\ pass[a].step = "reading"
    /\ LET g == pass[a].gen IN
       \/ Healthy(g) /\ EndPass(a)
       \/ ~Healthy(g) /\ (job[g].state = "failed" \/ BoundReached(a)) /\ AtStep(a, "failing")
       \/ ~Healthy(g) /\ job[g].state # "failed" /\ ~BoundReached(a) /\ AtStep(a, "revoking")
    /\ UNCHANGED <<row, outbox, job, slot, publishing, republished, faults>>

ReconcilerFails(a) ==
    /\ pass[a].step = "failing"
    /\ IF Pending(pass[a].gen) /\ NoLiveOwner THEN FailGeneration ELSE UNCHANGED row
    /\ EndPass(a)
    /\ UNCHANGED <<outbox, job, slot, publishing, republished, faults>>

RevokeExpiredOwner(a) ==
    /\ pass[a].step = "revoking"
    /\ IF Pending(pass[a].gen) /\ NoLiveOwner
       THEN ClearAttempt /\ AtStep(a, "removing") ELSE UNCHANGED <<owner, leaseValid>> /\ EndPass(a)
    /\ UNCHANGED <<status, generation, outbox, job, slot, publishing, republished, faults>>

(* requeue reads the job again: live work is left alone, a finished one is *)
(* removed, and then the job is added, all in separate calls.              *)
RemoveRetained(a) ==
    /\ pass[a].step = "removing"
    /\ LET g == pass[a].gen IN
       IF Healthy(g) THEN UNCHANGED job /\ AtStep(a, "counting")
                     ELSE job' = [job EXCEPT ![g] = Missing] /\ AtStep(a, "adding")
    /\ UNCHANGED <<row, outbox, slot, publishing, republished, faults>>

AddAgain(a) ==
    /\ pass[a].step = "adding"
    /\ LET g == pass[a].gen IN
       /\ Add(g)
       /\ republished' = IF job[g].state = "missing"
                         THEN [republished EXCEPT ![g].jobs = @ + 1] ELSE republished
    /\ AtStep(a, "counting")
    /\ UNCHANGED <<row, outbox, slot, publishing, faults>>

CountRecovery(a) ==
    /\ pass[a].step = "counting"
    /\ LET g == pass[a].gen IN
       outbox' = IF outbox[g].state = "none" THEN outbox
                 ELSE [outbox EXCEPT ![g].recoveryAttempts = @ + 1]
    /\ EndPass(a)
    /\ UNCHANGED <<row, job, slot, publishing, republished, faults>>

(* Grace or cooldown is over.                                              *)
CoolDown(g) ==
    /\ outbox[g].cooling
    /\ outbox' = [outbox EXCEPT ![g].cooling = FALSE]
    /\ UNCHANGED <<row, job, slot, publishing, pass, republished, faults>>

-----------------------------------------------------------------------------
(* The owner, and what goes wrong.                                         *)

(* Mutation: the retry's event is not written with it.                     *)
RetryProcessing_WithoutEvent ==
    /\ status = "FAILED" /\ generation < MaxGeneration
    /\ status' = "PROCESSING" /\ generation' = generation + 1 /\ ClearAttempt
    /\ UNCHANGED <<outbox, job, slot, publishing, pass, republished, faults>>

RetryProcessing ==
    /\ status = "FAILED" /\ generation < MaxGeneration
    /\ status' = "PROCESSING" /\ generation' = generation + 1 /\ ClearAttempt
    /\ outbox' = [outbox EXCEPT ![generation + 1] = Requested]
    /\ UNCHANGED <<job, slot, publishing, pass, republished, faults>>

Delete ==
    /\ status # "DELETING"
    /\ status' = "DELETING"
    /\ UNCHANGED <<generation, owner, leaseValid, outbox, job, slot, publishing, pass, republished, faults>>

Fault == faults < MaxFaults /\ faults' = faults + 1

Unheld(w) ==
    [g \in Generations |->
        IF job[g].holder = w THEN [job[g] EXCEPT !.holder = NoOwner] ELSE job[g]]

CrashWorker(w) ==
    /\ slot[w].step # "idle"
    /\ Fault
    /\ slot' = [slot EXCEPT ![w] = Idle]
    /\ Abandon(w)
    /\ job' = Unheld(w)
    /\ UNCHANGED <<status, generation, leaseValid, outbox, publishing, pass, republished>>

(* The event loop stood still too long, or Redis did not answer.           *)
LoseLock(w) ==
    /\ \E g \in Generations : job[g].holder = w
    /\ Fault
    /\ job' = Unheld(w)
    /\ UNCHANGED <<row, outbox, slot, publishing, pass, republished>>

LoseJob(g) ==
    /\ job[g].state # "missing"
    /\ Fault
    /\ job' = [job EXCEPT ![g] = Missing]
    /\ UNCHANGED <<row, outbox, slot, publishing, pass, republished>>

(* The reconciler's step throws, or its process dies.                      *)
PassFails(a) ==
    /\ pass[a].step # "idle"
    /\ Fault
    /\ EndPass(a)
    /\ republished' = IF pass[a].step = "counting"
                      THEN [republished EXCEPT ![pass[a].gen].uncounted = @ + 1] ELSE republished
    /\ UNCHANGED <<row, outbox, job, slot, publishing>>

-----------------------------------------------------------------------------
SlotStep(w) ==
    \/ AcquireAttempt(w) \/ AcquireNothing(w) \/ PublishReady(w) \/ WorkFails(w)
    \/ Settle(w) \/ SettleUnrecorded(w) \/ FinishJob(w) \/ FailStranded(w)

PassStep(a) ==
    \/ Claim(a) \/ ReadJobState(a) \/ ReconcilerFails(a) \/ RevokeExpiredOwner(a)
    \/ RemoveRetained(a) \/ AddAgain(a) \/ CountRecovery(a)

Faults ==
    \/ \E w \in Workers : CrashWorker(w) \/ LoseLock(w)
    \/ \E g \in Generations : LoseJob(g)
    \/ \E a \in Apis : MarkFails(a) \/ PassFails(a)

Next ==
    \/ \E a \in Apis, g \in Generations : EnqueueEvent(a, g) \/ FindCandidate(a, g)
    \/ \E a \in Apis : MarkPublished(a) \/ PassStep(a)
    \/ \E w \in Workers, g \in Generations : TakeJob(w, g) \/ Stalled(w, g)
    \/ \E w \in Workers : SlotStep(w)
    \/ \E g \in Generations : CleanupPublished(g) \/ CoolDown(g)
    \/ LeaseExpires \/ RetryProcessing \/ Delete
    \/ Faults

(* Timers keep firing, workers keep taking jobs, work is bounded by the    *)
(* attempt deadline, and a lease nobody renews runs out.  Neither retries  *)
(* nor deletions nor faults have to happen, and no publication has to      *)
(* succeed.                                                                *)
Fairness ==
    /\ \A a \in Apis :
           /\ WF_vars(\E g \in Generations : EnqueueEvent(a, g)) /\ WF_vars(MarkPublished(a))
           /\ WF_vars(\E g \in Generations : FindCandidate(a, g)) /\ WF_vars(PassStep(a))
    /\ \A w \in Workers :
           WF_vars(SlotStep(w) \/ \E g \in Generations : TakeJob(w, g) \/ Stalled(w, g))
    /\ WF_vars(\E g \in Generations : CoolDown(g))
    /\ WF_vars(owner = Orphan /\ LeaseExpires)

Spec == Init /\ [][Next]_vars
FairSpec == Spec /\ Fairness

-----------------------------------------------------------------------------
(* A generation that is pending can be recovered: its event is still there *)
(* whatever retention deletes.                                             *)
EvidenceKept == \A g \in Generations : Pending(g) => outbox[g].state # "none"

(* The reconciler puts the job of a generation back in the queue at most   *)
(* maxRecoveries times (FAILURE_SCENARIOS, 13), and once more per pass     *)
(* that died after requeue and before the increment of recoveryAttempts    *)
(* (reconcileOne), whatever else crashes, is lost, retried or expires.     *)
RecoveryIsBounded ==
    \A g \in Generations : republished[g].jobs <= MaxRecoveries + republished[g].uncounted

(* Every requested generation is settled: published, failed with a retry   *)
(* offered to its owner, or deleted, whatever crashed or was lost before.  *)
(* (Only RetryProcessing, out of FAILED, starts another generation.)       *)
EveryGenerationSettles == []<>(status \notin {"UPLOADED", "PROCESSING"})

(* What a viewer is served: AttemptOwnership shows that READY has the      *)
(* output of the current generation.                                       *)
Lifecycle ==
    INSTANCE GenerationLifecycle WITH
        output <- IF status = "READY" THEN generation ELSE 0

(* Jobs delivered twice, lost or run by two slots, recoveries and failures *)
(* that several services record, take the row through the same lifecycle:  *)
(* one generation after the other, each published or failed at most once   *)
(* (raw SQL of ProcessingLeaseService and ProcessingReconciler).           *)
ImplementsLifecycle == Lifecycle!Spec
=============================================================================
