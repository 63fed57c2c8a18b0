------------------------ MODULE ProcessingQueue_proofs ------------------------
(***************************************************************************)
(* Proofs, for every number of workers, API instances, generations and     *)
(* faults, that the outbox keeps the event a pending generation needs,     *)
(* that every variable keeps its type and that the row goes through the    *)
(* abstract lifecycle, and for one API instance that a generation is       *)
(* re-published within its bound.                                          *)
(***************************************************************************)
EXTENDS ProcessingQueue, TLAPS

(* States an event may be in.                                              *)
EventStates == {"none", "pending", "published"}

Events == [state : EventStates, cooling : BOOLEAN, recoveryAttempts : Nat]

(* The part of the types the proof needs, and the property itself: it is   *)
(* inductive with them.                                                    *)
IInv ==
    /\ generation \in Generations
    /\ outbox \in [Generations -> Events]
    /\ EvidenceKept

USE BoundsAssumption

(* The initial state satisfies the invariant.                              *)
LEMMA InitIInv == Init => IInv
<1>1. Requested \in Events /\ NoEvent \in Events /\ Requested.state # "none"
  BY DEF Requested, NoEvent, Events, EventStates
<1> QED
  BY <1>1 DEF Init, IInv, Generations, EvidenceKept, Pending

-----------------------------------------------------------------------------
(* No step but a retry lets another generation become pending.             *)
LEMMA RowStep ==
  ASSUME IInv, Next, ~RetryProcessing
  PROVE  /\ generation' = generation
         /\ \A g \in Generations : Pending(g)' => Pending(g)
<1>1. ASSUME NEW w \in Workers, SlotStep(w)
      PROVE  generation' = generation /\ (\A g \in Generations : Pending(g)' => Pending(g))
  BY <1>1 DEF SlotStep, AcquireAttempt, AcquireNothing, PublishReady, WorkFails, Settle,
     SettleUnrecorded, FinishJob, FailStranded, FailGeneration, ClearAttempt, Abandon, Owns,
     Pending, row
<1>2. ASSUME NEW a \in Apis, PassStep(a)
      PROVE  generation' = generation /\ (\A g \in Generations : Pending(g)' => Pending(g))
  BY <1>2 DEF PassStep, Claim, ReadJobState, ReconcilerFails, RevokeExpiredOwner,
     RemoveRetained, AddAgain, CountRecovery, FailGeneration, ClearAttempt, Pending, row
<1>3. CASE Faults \/ LeaseExpires \/ Delete
  BY <1>3 DEF Faults, CrashWorker, LoseLock, LoseJob, MarkFails, PassFails, LeaseExpires, Delete,
     ClearAttempt, Abandon, Pending, row
<1>4. CASE UNCHANGED row
  BY <1>4 DEF row, Pending
<1> QED
  BY <1>1, <1>2, <1>3, <1>4 DEF Next, EnqueueEvent, FindCandidate, MarkPublished, TakeJob, Stalled,
     CleanupPublished, CoolDown

(* No step removes an event but retention, which spares pending            *)
(* generations, and every step keeps the shape of the outbox.              *)
LEMMA OutboxStep ==
  ASSUME IInv, Next, ~RetryProcessing
  PROVE  /\ outbox' \in [Generations -> Events]
         /\ \A g \in Generations :
                outbox[g].state # "none" /\ outbox'[g].state = "none" => ~Pending(g)
<1> DEFINE Shaped == outbox' \in [Generations -> Events]
           Kept == \A g \in Generations :
                       outbox[g].state # "none" /\ outbox'[g].state = "none" => ~Pending(g)
<1> USE DEF IInv, EventStates, Events
<1>1. ASSUME NEW a \in Apis, MarkPublished(a) PROVE Shaped /\ Kept
  BY <1>1 DEF MarkPublished
<1>2. ASSUME NEW a \in Apis, Claim(a) PROVE Shaped /\ Kept
  <2> DEFINE g == pass[a].gen
  <2>1. CASE outbox[g].state # "none" /\ outbox' = [outbox EXCEPT ![g].cooling = TRUE]
    <3>1. Shaped
      BY <2>1
    <3>2. \A h \in Generations : outbox'[h].state = outbox[h].state
      BY <2>1
    <3> QED
      BY <3>1, <3>2
  <2>2. CASE UNCHANGED outbox
    BY <2>2
  <2> QED
    BY <1>2, <2>1, <2>2 DEF Claim
<1>3. ASSUME NEW a \in Apis, CountRecovery(a) PROVE Shaped /\ Kept
  <2> DEFINE g == pass[a].gen
  <2>1. CASE UNCHANGED outbox
    BY <2>1
  <2>2. CASE g \notin Generations
    BY <1>3, <2>2 DEF CountRecovery
  <2>3. CASE g \in Generations /\ outbox' = [outbox EXCEPT ![g].recoveryAttempts = @ + 1]
    <3>1. [outbox[g] EXCEPT !.recoveryAttempts = @ + 1] \in Events
      BY <2>3
    <3> QED
      BY <2>3, <3>1
  <2> QED
    BY <1>3, <2>1, <2>2, <2>3 DEF CountRecovery
<1>4. ASSUME NEW g \in Generations, CleanupPublished(g) PROVE Shaped /\ Kept
  BY <1>4 DEF CleanupPublished, Expirable, NoEvent
<1>5. ASSUME NEW g \in Generations, CoolDown(g) PROVE Shaped /\ Kept
  BY <1>5 DEF CoolDown
<1>6. CASE UNCHANGED outbox
  BY <1>6
<1>7. ASSUME NEW w \in Workers, SlotStep(w) PROVE UNCHANGED outbox
  BY <1>7 DEF SlotStep, AcquireAttempt, AcquireNothing, PublishReady, WorkFails, Settle,
     SettleUnrecorded, FinishJob, FailStranded
<1>8. ASSUME NEW a \in Apis, PassStep(a) PROVE Claim(a) \/ CountRecovery(a) \/ UNCHANGED outbox
  BY <1>8 DEF PassStep, ReadJobState, ReconcilerFails, RevokeExpiredOwner, RemoveRetained, AddAgain
<1>9. CASE Faults \/ LeaseExpires \/ Delete
  BY <1>6, <1>9 DEF Faults, CrashWorker, LoseLock, LoseJob, MarkFails, PassFails, LeaseExpires, Delete
<1>10. ASSUME NEW a \in Apis, NEW g \in Generations, EnqueueEvent(a, g) \/ FindCandidate(a, g)
       PROVE  UNCHANGED outbox
  BY <1>10 DEF EnqueueEvent, FindCandidate
<1>11. ASSUME NEW w \in Workers, NEW g \in Generations, TakeJob(w, g) \/ Stalled(w, g)
       PROVE  UNCHANGED outbox
  BY <1>11 DEF TakeJob, Stalled
<1> QED
  BY <1>1, <1>2, <1>3, <1>4, <1>5, <1>6, <1>7, <1>8, <1>9, <1>10, <1>11 DEF Next

(* A retry writes the event of the generation it starts.                   *)
LEMMA RetryStep == IInv /\ RetryProcessing => IInv'
<1> SUFFICES ASSUME IInv, RetryProcessing PROVE IInv'
  OBVIOUS
<1>1. generation' \in Generations
  BY DEF IInv, RetryProcessing, Generations
<1>2. Requested \in Events /\ Requested.state # "none"
  BY DEF Requested, NoEvent, Events, EventStates
<1> QED
  BY <1>1, <1>2 DEF IInv, RetryProcessing, EvidenceKept, Pending

(* Every step keeps the invariant.                                         *)
LEMMA IInvStep == IInv /\ [Next]_vars => IInv'
<1>1. ASSUME IInv, Next, ~RetryProcessing PROVE IInv'
  BY <1>1, RowStep, OutboxStep DEF IInv, EvidenceKept
<1>2. IInv /\ UNCHANGED vars => IInv'
  BY DEF vars, row, IInv, EvidenceKept, Pending
<1> QED
  BY <1>1, <1>2, RetryStep

(* Whatever is deleted, crashes or is lost, the event of a pending         *)
(* generation is there for the publisher and the reconciler                *)
(* (ProcessingOutboxPublisher.cleanupPublished, retryProcessing).          *)
THEOREM EvidenceIsKept == Spec => []EvidenceKept
<1>1. IInv => EvidenceKept
  BY DEF IInv
<1> QED
  BY <1>1, InitIInv, IInvStep, PTL DEF Spec

-----------------------------------------------------------------------------
(* How often a generation is re-published, when one API instance runs the  *)
(* reconciler.  The count in the event lags behind what was requeued by    *)
(* the pass that is about to count and by those that died before they did. *)

Passes == [step : PassSteps, gen : Generations \cup {0}, recoveryAttempts : Nat]

Counts == [jobs : Nat, uncounted : Nat]

(* The pass of a has requeued g and not counted it yet.                    *)
InHand(a, g) == IF pass[a].step = "counting" /\ pass[a].gen = g THEN 1 ELSE 0

(* A count n accounts for everything that was requeued for g.              *)
Covers(a, n, g) == republished[g].jobs <= n + republished[g].uncounted + InHand(a, g)

(* What the pass read when it found its candidate still covers everything, *)
(* because nobody else requeues meanwhile; and it requeues only below the  *)
(* bound.                                                                  *)
PassKnows(a) ==
    pass[a].step # "idle" =>
        /\ pass[a].gen \in Generations /\ pass[a].gen <= generation
        /\ Covers(a, pass[a].recoveryAttempts, pass[a].gen)
        /\ pass[a].step \in {"revoking", "removing", "adding", "counting"} =>
               pass[a].recoveryAttempts < MaxRecoveries

EventsCover(a) ==
    \A g \in Generations : outbox[g].state # "none" => Covers(a, outbox[g].recoveryAttempts, g)

CountTypes(a) ==
    /\ generation \in Generations
    /\ outbox \in [Generations -> Events]
    /\ pass \in [{a} -> Passes]
    /\ republished \in [Generations -> Counts]

CountInv(a) ==
    /\ CountTypes(a)
    /\ \A g \in Generations : g > generation => republished[g].jobs = 0
    /\ PassKnows(a)
    /\ EventsCover(a)
    /\ RecoveryIsBounded

(* An event only appears for a generation nothing was requeued for, and no *)
(* count shrinks while its event is there.                                 *)
CountsStay ==
    /\ generation' \in Generations /\ generation' >= generation
    /\ outbox' \in [Generations -> Events]
    /\ \A g \in Generations : outbox'[g].state # "none" =>
           \/ republished[g].jobs = 0
           \/ outbox[g].state # "none" /\ outbox'[g].recoveryAttempts >= outbox[g].recoveryAttempts

(* Everything is arithmetic of natural numbers.                            *)
LEMMA CountNumbers ==
  ASSUME NEW a, CountTypes(a)
  PROVE  /\ \A g \in Generations : /\ g \in Nat /\ outbox[g].recoveryAttempts \in Nat
                                   /\ republished[g].jobs \in Nat /\ republished[g].uncounted \in Nat
         /\ pass[a] \in Passes /\ pass[a].recoveryAttempts \in Nat
         /\ generation \in Nat /\ MaxRecoveries \in Nat
BY DEF CountTypes, Events, Counts, Passes, Generations

(* Whoever requeues nothing keeps the invariant: the publisher, retention, *)
(* the owner, the workers, and most steps of the reconciler.               *)
LEMMA NothingRequeued ==
  ASSUME NEW a, CountInv(a), CountsStay, UNCHANGED republished, pass' \in [{a} -> Passes],
         pass[a].step = "counting" => pass'[a] = pass[a], PassKnows(a)'
  PROVE  CountInv(a)'
<1>1. CountTypes(a) /\ CountTypes(a)'
  BY DEF CountInv, CountTypes, CountsStay
<1>2. ASSUME NEW g \in Generations, g > generation' PROVE republished'[g].jobs = 0
  <2>1. g > generation
    BY <1>1, <1>2, CountNumbers DEF CountsStay, Generations
  <2> QED
    BY <2>1 DEF CountInv
<1>3. ASSUME NEW g \in Generations, outbox'[g].state # "none"
      PROVE  Covers(a, outbox[g].recoveryAttempts, g)'
  <2>1. InHand(a, g) \in {0, 1} /\ InHand(a, g)' \in {0, 1} /\ InHand(a, g) <= InHand(a, g)'
    BY DEF InHand
  <2>2. outbox'[g].recoveryAttempts \in Nat
    BY <1>1 DEF CountTypes, Events
  <2>3. republished[g].jobs <= outbox'[g].recoveryAttempts + republished[g].uncounted + InHand(a, g)'
    <3>1. CASE republished[g].jobs = 0
      BY <1>1, <2>1, <2>2, <3>1, CountNumbers
    <3>2. CASE /\ outbox[g].state # "none"
               /\ outbox'[g].recoveryAttempts >= outbox[g].recoveryAttempts
      <4>1. republished[g].jobs <= outbox[g].recoveryAttempts + republished[g].uncounted + InHand(a, g)
        BY <3>2 DEF CountInv, EventsCover, Covers
      <4> QED
        BY <1>1, <2>1, <2>2, <3>2, <4>1, CountNumbers
    <3> QED
      BY <1>3, <3>1, <3>2 DEF CountsStay
  <2> QED
    BY <2>3 DEF Covers
<1>4. RecoveryIsBounded'
  BY DEF CountInv, RecoveryIsBounded
<1> QED
  BY <1>1, <1>2, <1>3, <1>4 DEF CountInv, EventsCover

(* Events that stay as they are.                                           *)
LEMMA OutboxStays ==
  ASSUME NEW a, CountTypes(a), UNCHANGED <<outbox, generation>>
  PROVE  CountsStay
BY CountNumbers DEF CountsStay, CountTypes

(* One event is replaced by one that counts no less.                       *)
LEMMA EventReplaced ==
  ASSUME NEW a, CountTypes(a), NEW g \in Generations, NEW e \in Events, UNCHANGED generation,
         outbox' = [outbox EXCEPT ![g] = e],
         e.state = "none" \/ (outbox[g].state # "none" /\ e.recoveryAttempts >= outbox[g].recoveryAttempts)
  PROVE  CountsStay
<1>1. \A h \in Generations : outbox'[h] = IF h = g THEN e ELSE outbox[h]
  BY DEF CountTypes
<1>2. outbox' \in [Generations -> Events]
  BY DEF CountTypes
<1>3. generation' \in Generations /\ generation' >= generation
  BY CountNumbers DEF CountTypes
<1> QED
  BY <1>1, <1>2, <1>3, CountNumbers DEF CountsStay

-----------------------------------------------------------------------------
(* The steps of the pass.                                                  *)

(* A pass ends.                                                            *)
LEMMA NoPassTyped == NoPass \in Passes /\ NoPass.step = "idle"
BY DEF NoPass, Passes, PassSteps

(* A pass that has nothing in hand goes on, in a step that does not        *)
(* recover yet, or from one that does; or it ends.                         *)
LEMMA PassGoesOn ==
  ASSUME NEW a, CountInv(a), CountsStay, UNCHANGED <<republished, generation>>,
         pass[a].step \notin {"idle", "counting"}, NEW step \in PassSteps,
         step \in {"revoking", "removing", "adding", "counting"} =>
             pass[a].recoveryAttempts < MaxRecoveries,
         \/ pass' = [pass EXCEPT ![a] = NoPass]
         \/ pass' = [pass EXCEPT ![a] = [pass[a] EXCEPT !.step = step]]
  PROVE  CountInv(a)'
<1> DEFINE p == [pass[a] EXCEPT !.step = step]
<1>1. CountTypes(a) /\ PassKnows(a) /\ pass[a] \in Passes
  BY DEF CountInv, CountTypes
<1>2. p \in Passes /\ p.step = step /\ p.gen = pass[a].gen
      /\ p.recoveryAttempts = pass[a].recoveryAttempts
  BY <1>1 DEF Passes
<1>3. pass' \in [{a} -> Passes] /\ pass'[a] \in {p, NoPass}
  BY <1>1, <1>2, NoPassTyped DEF CountTypes
<1> HIDE DEF p
<1>4. PassKnows(a)'
  <2>1. CASE pass'[a] = NoPass
    BY <2>1, NoPassTyped DEF PassKnows
  <2>2. CASE pass'[a] = p
    <3>1. PICK g \in Generations, n \in Nat :
              /\ g = pass[a].gen /\ n = pass[a].recoveryAttempts
              /\ g <= generation /\ Covers(a, n, g)
      BY <1>1, CountNumbers DEF PassKnows
    <3>2. InHand(a, g) = 0 /\ InHand(a, g)' \in {0, 1}
      BY DEF InHand
    <3>3. Covers(a, n, g)'
      BY <1>1, <3>1, <3>2, CountNumbers DEF Covers
    <3>4. pass'[a].gen = g /\ pass'[a].step = step /\ pass'[a].recoveryAttempts = n
      BY <1>2, <2>2, <3>1
    <3> QED
      BY <3>1, <3>3, <3>4 DEF PassKnows
  <2> QED
    BY <1>3, <2>1, <2>2
<1> QED
  BY <1>3, <1>4, NothingRequeued

(* The reconciler finds and claims a generation, and looks at its job.     *)
LEMMA ScanStep ==
  ASSUME NEW a, CountInv(a),
         (\E g \in Generations : FindCandidate(a, g)) \/ Claim(a) \/ ReadJobState(a)
  PROVE  CountInv(a)'
<1>0. CountTypes(a)
  BY DEF CountInv
<1>1. ASSUME NEW g \in Generations, FindCandidate(a, g) PROVE CountInv(a)'
  <2> DEFINE p == [step |-> "claiming", gen |-> g, recoveryAttempts |-> outbox[g].recoveryAttempts]
  <2>1. p \in Passes
    BY <1>0, CountNumbers DEF Passes, PassSteps
  <2>2. UNCHANGED <<republished, generation, outbox>> /\ pass' = [pass EXCEPT ![a] = p]
        /\ outbox[g].state = "published" /\ generation = g /\ pass[a].step = "idle"
    BY <1>1 DEF FindCandidate, row, Due, Pending
  <2>3. pass' \in [{a} -> Passes] /\ pass'[a] = p
    BY <1>0, <2>1, <2>2 DEF CountTypes
  <2>4. PassKnows(a)'
    <3>1. Covers(a, outbox[g].recoveryAttempts, g)
      BY <2>2 DEF CountInv, EventsCover
    <3>2. InHand(a, g) = 0 /\ InHand(a, g)' = 0
      BY <2>2, <2>3 DEF InHand
    <3>3. Covers(a, pass[a].recoveryAttempts, g)'
      BY <2>2, <2>3, <3>1, <3>2 DEF Covers
    <3> QED
      BY <1>0, <2>2, <2>3, <3>3, CountNumbers DEF PassKnows
  <2> QED
    BY <1>0, <2>2, <2>3, <2>4, OutboxStays, NothingRequeued
<1>2. CASE Claim(a)
  <2> DEFINE g == pass[a].gen
             e == [outbox[g] EXCEPT !.cooling = TRUE]
  <2>1. pass[a].step = "claiming" /\ g \in Generations
    BY <1>2 DEF Claim, CountInv, PassKnows
  <2>2. CountsStay
    <3>1. CASE UNCHANGED outbox
      BY <1>0, <1>2, <3>1, OutboxStays DEF Claim, row
    <3>2. CASE outbox' = [outbox EXCEPT ![g].cooling = TRUE] /\ outbox[g].state # "none"
      <4>1. e \in Events /\ e.recoveryAttempts = outbox[g].recoveryAttempts
        BY <1>0, <2>1 DEF CountTypes, Events
      <4>2. outbox' = [outbox EXCEPT ![g] = e] /\ e.recoveryAttempts >= outbox[g].recoveryAttempts
        BY <1>0, <2>1, <3>2, <4>1, CountNumbers
      <4>3. UNCHANGED generation
        BY <1>2 DEF Claim, row
      <4> HIDE DEF e
      <4> QED
        BY <1>0, <2>1, <3>2, <4>1, <4>2, <4>3, EventReplaced
    <3> QED
      BY <1>2, <3>1, <3>2 DEF Claim
  <2>3. UNCHANGED <<republished, generation>>
    BY <1>2 DEF Claim, row
  <2>4. \/ pass' = [pass EXCEPT ![a] = NoPass]
        \/ pass' = [pass EXCEPT ![a] = [pass[a] EXCEPT !.step = "reading"]]
    BY <1>2 DEF Claim, AtStep, EndPass
  <2> QED
    BY <2>1, <2>2, <2>3, <2>4, PassGoesOn DEF PassSteps
<1>3. CASE ReadJobState(a)
  <2>1. pass[a].step = "reading" /\ UNCHANGED <<republished, generation, outbox>>
    BY <1>3 DEF ReadJobState, row
  <2>2. PICK step \in {"failing", "revoking"} :
            /\ step = "revoking" => ~BoundReached(a)
            /\ \/ pass' = [pass EXCEPT ![a] = NoPass]
               \/ pass' = [pass EXCEPT ![a] = [pass[a] EXCEPT !.step = step]]
    BY <1>3 DEF ReadJobState, AtStep, EndPass
  <2>3. ~BoundReached(a) => pass[a].recoveryAttempts < MaxRecoveries
    BY <1>0, CountNumbers DEF BoundReached
  <2> QED
    BY <1>0, <2>1, <2>2, <2>3, OutboxStays, PassGoesOn DEF PassSteps
<1> QED
  BY <1>1, <1>2, <1>3

(* The reconciler fails, revokes and removes.                              *)
LEMMA RecoverStep ==
  ASSUME NEW a, CountInv(a), ReconcilerFails(a) \/ RevokeExpiredOwner(a) \/ RemoveRetained(a)
  PROVE  CountInv(a)'
<1>1. CountTypes(a) /\ UNCHANGED <<republished, generation, outbox>>
  BY DEF CountInv, ReconcilerFails, RevokeExpiredOwner, RemoveRetained, FailGeneration, row
<1>2. pass[a].step \in {"failing", "revoking", "removing"}
  BY DEF ReconcilerFails, RevokeExpiredOwner, RemoveRetained
<1>3. PICK step \in {"failing", "removing", "adding", "counting"} :
          /\ step # "failing" => pass[a].step \in {"revoking", "removing"}
          /\ \/ pass' = [pass EXCEPT ![a] = NoPass]
             \/ pass' = [pass EXCEPT ![a] = [pass[a] EXCEPT !.step = step]]
  BY DEF ReconcilerFails, RevokeExpiredOwner, RemoveRetained, AtStep, EndPass
<1>4. step # "failing" => pass[a].recoveryAttempts < MaxRecoveries
  BY <1>3 DEF CountInv, PassKnows
<1> QED
  BY <1>1, <1>2, <1>3, <1>4, OutboxStays, PassGoesOn DEF PassSteps

(* The pass requeues: what was covered by a count below the bound is now   *)
(* covered by that count and the job in hand, if one was added.            *)
LEMMA AddStep ==
  ASSUME NEW a, CountInv(a), AddAgain(a)
  PROVE  CountInv(a)'
<1> PICK g : g = pass[a].gen
  OBVIOUS
<1> DEFINE p == [pass[a] EXCEPT !.step = "counting"]
           c == IF job[g].state = "missing" THEN [republished[g] EXCEPT !.jobs = @ + 1]
                                            ELSE republished[g]
<1>1. CountTypes(a) /\ UNCHANGED <<generation, outbox>> /\ pass[a].step = "adding"
  BY DEF CountInv, AddAgain, row
<1>2. /\ g \in Generations /\ g <= generation
      /\ Covers(a, pass[a].recoveryAttempts, g) /\ pass[a].recoveryAttempts < MaxRecoveries
  BY <1>1 DEF CountInv, PassKnows
<1>3. p \in Passes /\ p.step = "counting" /\ p.gen = g /\ p.recoveryAttempts = pass[a].recoveryAttempts
  BY <1>1, CountNumbers DEF Passes, PassSteps
<1>4. pass' \in [{a} -> Passes] /\ pass'[a] = p
  BY <1>1, <1>3 DEF AddAgain, AtStep, CountTypes
<1>5. /\ c \in Counts /\ c.uncounted = republished[g].uncounted
      /\ c.jobs \in {republished[g].jobs, republished[g].jobs + 1}
  BY <1>1, <1>2, CountNumbers DEF CountTypes, Counts
<1>6. republished' = [republished EXCEPT ![g] = c]
  BY <1>1, <1>2 DEF AddAgain, CountTypes
<1> HIDE DEF p, c
<1>7. /\ republished' \in [Generations -> Counts]
      /\ \A h \in Generations : republished'[h] = IF h = g THEN c ELSE republished[h]
  BY <1>1, <1>5, <1>6 DEF CountTypes
<1>8. CountTypes(a)'
  BY <1>1, <1>4, <1>7 DEF CountTypes
<1>9. \A h \in Generations : InHand(a, h) = 0 /\ InHand(a, h)' = IF h = g THEN 1 ELSE 0
  BY <1>1, <1>3, <1>4 DEF InHand
<1>10. ASSUME NEW h \in Generations, NEW n \in Nat, Covers(a, n, h) PROVE Covers(a, n, h)'
  BY <1>1, <1>2, <1>5, <1>7, <1>9, <1>10, CountNumbers DEF Covers
<1>11. \A h \in Generations : h > generation' => republished'[h].jobs = 0
  BY <1>1, <1>2, <1>7, CountNumbers DEF CountInv
<1>12. PassKnows(a)'
  BY <1>1, <1>2, <1>3, <1>4, <1>10, CountNumbers DEF PassKnows
<1>13. EventsCover(a)'
  BY <1>1, <1>10, CountNumbers DEF CountInv, EventsCover
<1>14. RecoveryIsBounded'
  <2>1. republished[g].jobs <= pass[a].recoveryAttempts + republished[g].uncounted
    BY <1>1, <1>2, <1>9, CountNumbers DEF Covers
  <2>2. c.jobs <= MaxRecoveries + c.uncounted
    BY <1>1, <1>2, <1>5, <2>1, CountNumbers
  <2> QED
    BY <1>7, <2>2 DEF CountInv, RecoveryIsBounded
<1> QED
  BY <1>8, <1>11, <1>12, <1>13, <1>14 DEF CountInv

(* The pass counts what it has in hand.                                    *)
LEMMA CountStep ==
  ASSUME NEW a, CountInv(a), CountRecovery(a)
  PROVE  CountInv(a)'
<1> DEFINE g == pass[a].gen
           e == [outbox[g] EXCEPT !.recoveryAttempts = @ + 1]
<1>1. CountTypes(a) /\ UNCHANGED <<generation, republished>> /\ pass[a].step = "counting"
  BY DEF CountInv, CountRecovery, row
<1>2. g \in Generations
  BY <1>1 DEF CountInv, PassKnows
<1>3. pass' \in [{a} -> Passes] /\ pass'[a].step = "idle"
  BY <1>1, NoPassTyped DEF CountRecovery, EndPass, CountTypes
<1>4. e \in Events /\ e.recoveryAttempts = outbox[g].recoveryAttempts + 1 /\ e.state = outbox[g].state
  BY <1>1, <1>2, CountNumbers DEF CountTypes, Events
<1>5. IF outbox[g].state = "none" THEN UNCHANGED outbox ELSE outbox' = [outbox EXCEPT ![g] = e]
  BY <1>1, <1>2 DEF CountRecovery, CountTypes
<1> HIDE DEF e
<1>6. outbox' \in [Generations -> Events]
  BY <1>1, <1>4, <1>5 DEF CountTypes
<1>7. CountTypes(a)'
  BY <1>1, <1>3, <1>6 DEF CountTypes
<1>8. ASSUME NEW h \in Generations, outbox'[h].state # "none"
      PROVE  Covers(a, outbox[h].recoveryAttempts, h)'
  <2>1. outbox[h].state # "none"
    BY <1>1, <1>2, <1>4, <1>5, <1>8 DEF CountTypes
  <2>2. Covers(a, outbox[h].recoveryAttempts, h)
    BY <2>1 DEF CountInv, EventsCover
  <2>3. InHand(a, h) = (IF h = g THEN 1 ELSE 0) /\ InHand(a, h)' = 0
    BY <1>1, <1>3 DEF InHand
  <2>4. outbox'[h].recoveryAttempts = outbox[h].recoveryAttempts + (IF h = g THEN 1 ELSE 0)
    BY <1>1, <1>2, <1>4, <1>5, <2>1, CountNumbers DEF CountTypes
  <2> QED
    BY <1>1, <2>2, <2>3, <2>4, CountNumbers DEF Covers
<1>9. PassKnows(a)'
  BY <1>3 DEF PassKnows
<1>10. \A h \in Generations : h > generation' => republished'[h].jobs = 0
  BY <1>1 DEF CountInv
<1>11. RecoveryIsBounded'
  BY <1>1 DEF CountInv, RecoveryIsBounded
<1> QED
  BY <1>7, <1>8, <1>9, <1>10, <1>11 DEF CountInv, EventsCover

(* The pass dies; what it had in hand stays uncounted.                     *)
LEMMA DeathStep ==
  ASSUME NEW a, CountInv(a), PassFails(a)
  PROVE  CountInv(a)'
<1> DEFINE g == pass[a].gen
           c == [republished[g] EXCEPT !.uncounted = @ + 1]
<1>1. CountTypes(a) /\ UNCHANGED <<generation, outbox>> /\ pass[a].step # "idle"
  BY DEF CountInv, PassFails, row
<1>2. g \in Generations
  BY <1>1 DEF CountInv, PassKnows
<1>3. pass' \in [{a} -> Passes] /\ pass'[a].step = "idle"
  BY <1>1, NoPassTyped DEF PassFails, EndPass, CountTypes
<1>4. c \in Counts /\ c.jobs = republished[g].jobs /\ c.uncounted = republished[g].uncounted + 1
  BY <1>1, <1>2, CountNumbers DEF CountTypes, Counts
<1>5. IF pass[a].step = "counting" THEN republished' = [republished EXCEPT ![g] = c]
                                   ELSE UNCHANGED republished
  BY <1>1, <1>2 DEF PassFails, CountTypes
<1> HIDE DEF c
<1>6. republished' \in [Generations -> Counts]
  BY <1>1, <1>4, <1>5 DEF CountTypes
<1>7. ASSUME NEW h \in Generations
      PROVE  /\ republished'[h].jobs = republished[h].jobs
             /\ republished'[h].uncounted = republished[h].uncounted + InHand(a, h)
             /\ InHand(a, h) \in {0, 1} /\ InHand(a, h)' = 0
  BY <1>1, <1>2, <1>3, <1>4, <1>5, CountNumbers DEF InHand, CountTypes
<1>8. CountTypes(a)'
  BY <1>1, <1>3, <1>6 DEF CountTypes
<1>9. EventsCover(a)'
  BY <1>1, <1>7, CountNumbers DEF CountInv, EventsCover, Covers
<1>10. PassKnows(a)'
  BY <1>3 DEF PassKnows
<1>11. \A h \in Generations : h > generation' => republished'[h].jobs = 0
  BY <1>1, <1>7 DEF CountInv
<1>12. RecoveryIsBounded'
  BY <1>1, <1>7, CountNumbers DEF CountInv, RecoveryIsBounded
<1> QED
  BY <1>8, <1>9, <1>10, <1>11, <1>12 DEF CountInv

-----------------------------------------------------------------------------
(* The steps of everybody else.                                            *)

(* Who leaves the pass and the history alone has only the events to mind.  *)
LEMMA OtherStep ==
  ASSUME NEW a, CountInv(a), UNCHANGED <<pass, republished>>,
         \/ \E b \in Apis : MarkPublished(b)
         \/ \E g \in Generations : CleanupPublished(g) \/ CoolDown(g)
         \/ RetryProcessing
         \/ UNCHANGED <<outbox, generation>>
  PROVE  CountInv(a)'
<1>1. CountTypes(a)
  BY DEF CountInv
<1>2. ASSUME UNCHANGED <<outbox, generation>> PROVE CountsStay
  BY <1>1, <1>2, OutboxStays
<1>3. ASSUME NEW b \in Apis, MarkPublished(b), ~UNCHANGED outbox PROVE CountsStay
  <2> DEFINE g == publishing[b]
             e == [outbox[g] EXCEPT !.state = "published", !.cooling = TRUE]
  <2>1. outbox' = [outbox EXCEPT ![g] = e] /\ outbox[g].state = "pending" /\ UNCHANGED generation
    BY <1>3 DEF MarkPublished, row
  <2>2. g \in Generations
    BY <1>1, <1>3, <2>1 DEF CountTypes
  <2>3. e \in Events /\ e.recoveryAttempts = outbox[g].recoveryAttempts
    BY <1>1, <2>2 DEF CountTypes, Events, EventStates
  <2>4. e.recoveryAttempts >= outbox[g].recoveryAttempts
    BY <1>1, <2>2, <2>3, CountNumbers
  <2> HIDE DEF e
  <2> QED
    BY <1>1, <2>1, <2>2, <2>3, <2>4, EventReplaced
<1>4. ASSUME NEW g \in Generations, CleanupPublished(g) PROVE CountsStay
  <2>1. NoEvent \in Events /\ NoEvent.state = "none"
    BY DEF NoEvent, Events, EventStates
  <2>2. outbox' = [outbox EXCEPT ![g] = NoEvent] /\ UNCHANGED generation
    BY <1>4 DEF CleanupPublished, row
  <2> QED
    BY <1>1, <2>1, <2>2, EventReplaced
<1>5. ASSUME NEW g \in Generations, CoolDown(g) PROVE CountsStay
  <2> DEFINE e == [outbox[g] EXCEPT !.cooling = FALSE]
  <2>1. /\ e \in Events /\ e.recoveryAttempts = outbox[g].recoveryAttempts
        /\ e.state = outbox[g].state
    BY <1>1 DEF CountTypes, Events, EventStates
  <2>2. outbox' = [outbox EXCEPT ![g] = e] /\ UNCHANGED generation
    BY <1>5 DEF CoolDown, row
  <2>3. e.recoveryAttempts >= outbox[g].recoveryAttempts
    BY <1>1, <2>1, CountNumbers
  <2> HIDE DEF e
  <2> QED
    BY <1>1, <2>1, <2>2, <2>3, EventReplaced
<1>6. ASSUME RetryProcessing PROVE CountsStay
  <2> DEFINE g == generation + 1
  <2>1. outbox' = [outbox EXCEPT ![g] = Requested] /\ generation' = g /\ generation < MaxGeneration
    BY <1>6 DEF RetryProcessing
  <2>2. g \in Generations /\ g > generation /\ generation' >= generation
    BY <1>1, <2>1, CountNumbers DEF Generations, CountTypes
  <2>3. Requested \in Events
    BY DEF Requested, NoEvent, Events, EventStates
  <2>4. republished[g].jobs = 0
    BY <2>2 DEF CountInv
  <2>5. outbox' \in [Generations -> Events]
        /\ \A h \in Generations : h # g => outbox'[h] = outbox[h]
    BY <1>1, <2>1, <2>3 DEF CountTypes
  <2> QED
    BY <1>1, <2>1, <2>2, <2>4, <2>5, CountNumbers DEF CountsStay
<1>7. CountsStay
  BY <1>2, <1>3, <1>4, <1>5, <1>6 DEF MarkPublished, row
<1>8. PassKnows(a)'
  <2>1. pass[a].step # "idle" => pass[a].gen <= generation'
    BY <1>1, <1>7, CountNumbers DEF CountInv, PassKnows, CountsStay, Generations
  <2>2. \A n, g : Covers(a, n, g)' <=> Covers(a, n, g)
    BY DEF Covers, InHand
  <2> QED
    BY <2>1, <2>2 DEF CountInv, PassKnows
<1>9. pass' \in [{a} -> Passes] /\ pass'[a] = pass[a]
  BY <1>1 DEF CountTypes
<1> QED
  BY <1>7, <1>8, <1>9, NothingRequeued

(* Every step keeps the invariant, as long as one API instance runs.       *)
LEMMA CountInvStep ==
  ASSUME NEW a, Apis = {a}
  PROVE  CountInv(a) /\ [Next]_vars => CountInv(a)'
<1> SUFFICES ASSUME CountInv(a), [Next]_vars PROVE CountInv(a)'
  OBVIOUS
<1>1. CASE PassStep(a) \/ PassFails(a) \/ \E g \in Generations : FindCandidate(a, g)
  BY <1>1, ScanStep, RecoverStep, AddStep, CountStep, DeathStep DEF PassStep
<1>2. ASSUME NEW g \in Generations, EnqueueEvent(a, g) \/ CleanupPublished(g) \/ CoolDown(g)
                                    \/ LoseJob(g)
      PROVE  CountInv(a)'
  BY <1>2, OtherStep DEF EnqueueEvent, CleanupPublished, CoolDown, LoseJob, row
<1>3. CASE MarkPublished(a) \/ MarkFails(a) \/ LeaseExpires \/ RetryProcessing \/ Delete
  BY <1>3, OtherStep DEF MarkPublished, MarkFails, LeaseExpires, RetryProcessing, Delete, row
<1>4. ASSUME NEW w \in Workers, NEW g \in Generations, TakeJob(w, g) \/ Stalled(w, g)
      PROVE  CountInv(a)'
  BY <1>4, OtherStep DEF TakeJob, Stalled, row
<1>5. ASSUME NEW w \in Workers, SlotStep(w) \/ CrashWorker(w) \/ LoseLock(w) PROVE CountInv(a)'
  <2>1. UNCHANGED <<pass, republished, outbox, generation>>
    BY <1>5 DEF SlotStep, AcquireAttempt, AcquireNothing, PublishReady, WorkFails, Settle,
       SettleUnrecorded, FinishJob, FailStranded, FailGeneration, CrashWorker, LoseLock, row
  <2> QED
    BY <2>1, OtherStep
<1>6. CASE UNCHANGED vars
  BY <1>6, OtherStep DEF vars, row
<1> QED
  BY <1>1, <1>2, <1>3, <1>4, <1>5, <1>6 DEF Next, Faults

(* When one API instance runs the reconciler, the job of a generation is   *)
(* requeued at most maxRecoveries times, and once more for each pass that  *)
(* died between requeue and its count: whatever crashes or is lost, and    *)
(* however many workers, retries and faults there are                      *)
(* (ProcessingReconciler.reconcileOne).                                    *)
THEOREM RecoveryIsBoundedForOneApi ==
  ASSUME NEW a, Apis = {a}
  PROVE  Spec => []RecoveryIsBounded
<1>1. Init => CountInv(a)
  <2> SUFFICES ASSUME Init PROVE CountInv(a)
    OBVIOUS
  <2>1. Requested \in Events /\ NoEvent \in Events /\ NotRepublished \in Counts
        /\ Requested.recoveryAttempts = 0 /\ NoEvent.state = "none"
        /\ NotRepublished.jobs = 0 /\ NotRepublished.uncounted = 0
    BY DEF Requested, NoEvent, Events, EventStates, NotRepublished, Counts
  <2>2. CountTypes(a) /\ pass[a].step = "idle"
    BY <2>1, NoPassTyped DEF Init, CountTypes, Generations
  <2>3. \A g \in Generations : republished[g] = NotRepublished
    BY DEF Init
  <2>4. \A g \in Generations, n \in Nat : Covers(a, n, g)
    BY <2>1, <2>3 DEF Covers, InHand
  <2>5. EventsCover(a)
    BY <2>2, <2>4, CountNumbers DEF EventsCover
  <2> QED
    BY <2>1, <2>2, <2>3, <2>5 DEF CountInv, PassKnows, RecoveryIsBounded
<1>2. CountInv(a) /\ [Next]_vars => CountInv(a)'
  BY CountInvStep
<1>3. CountInv(a) => RecoveryIsBounded
  BY DEF CountInv
<1> QED
  BY <1>1, <1>2, <1>3, PTL DEF Spec

-----------------------------------------------------------------------------
(* The types of the whole state.                                           *)

JobRecords == [state : JobStates, attemptsMade : 0..Attempts, holder : Workers \cup {NoOwner}]

SlotRecords ==
    [step : SlotSteps, gen : Generations \cup {0}, attemptsMade : 0..Attempts, outcome : Outcomes]

RowTyped == status \in VideoStatus /\ owner \in Workers \cup {NoOwner, Orphan} /\ leaseValid \in BOOLEAN

(* A job that waits or runs has an attempt left: hence their number stays  *)
(* within its type.                                                        *)
JobsTyped ==
    /\ job \in [Generations -> JobRecords]
    /\ \A g \in Generations : job[g].state \in {"queued", "active"} => job[g].attemptsMade < Attempts

SlotsTyped == slot \in [Workers -> SlotRecords]

PassesTyped == pass \in [Apis -> Passes]

Types ==
    /\ IInv
    /\ RowTyped /\ JobsTyped /\ SlotsTyped /\ PassesTyped
    /\ publishing \in [Apis -> Generations \cup {0}]
    /\ republished \in [Generations -> Counts]
    /\ faults \in 0..MaxFaults

(* Nobody writes anything else into the row.                               *)
LEMMA RowTypedStep == RowTyped /\ Next => RowTyped'
<1> SUFFICES ASSUME RowTyped, Next PROVE RowTyped'
  OBVIOUS
<1> USE DEF RowTyped, VideoStatus
<1>1. ASSUME NEW w \in Workers, SlotStep(w) PROVE RowTyped'
  BY <1>1 DEF SlotStep, AcquireAttempt, AcquireNothing, PublishReady, WorkFails, Settle,
     SettleUnrecorded, FinishJob, FailStranded, FailGeneration, ClearAttempt, Abandon, row
<1>2. ASSUME NEW a \in Apis, PassStep(a) PROVE RowTyped'
  BY <1>2 DEF PassStep, Claim, ReadJobState, ReconcilerFails, RevokeExpiredOwner, RemoveRetained,
     AddAgain, CountRecovery, FailGeneration, ClearAttempt, row
<1>3. CASE LeaseExpires \/ RetryProcessing \/ Delete
  BY <1>3 DEF LeaseExpires, RetryProcessing, Delete, ClearAttempt
<1>4. ASSUME NEW w \in Workers, CrashWorker(w) PROVE RowTyped'
  BY <1>4 DEF CrashWorker, Abandon
<1>5. CASE UNCHANGED row
  BY <1>5 DEF row
<1> QED
  BY <1>1, <1>2, <1>3, <1>4, <1>5 DEF Next, Faults, EnqueueEvent, FindCandidate, MarkPublished,
     TakeJob, Stalled, CleanupPublished, CoolDown, LoseLock, LoseJob, MarkFails, PassFails

(* What one slot becomes.                                                  *)
LEMMA SlotReplaced ==
  ASSUME SlotsTyped, NEW w \in Workers, NEW r \in SlotRecords, slot' = [slot EXCEPT ![w] = r]
  PROVE  SlotsTyped'
BY DEF SlotsTyped

(* A slot goes on with its generation.                                     *)
LEMMA GoTyped ==
  ASSUME SlotsTyped, NEW w \in Workers, NEW step \in SlotSteps, NEW outcome \in Outcomes,
         Go(w, step, outcome)
  PROVE  SlotsTyped'
<1> DEFINE r == [slot[w] EXCEPT !.step = step, !.outcome = outcome]
<1>1. r \in SlotRecords
  BY DEF SlotsTyped, SlotRecords
<1>2. slot' = [slot EXCEPT ![w] = r]
  BY DEF Go
<1> HIDE DEF r
<1> QED
  BY <1>1, <1>2, SlotReplaced

(* The work of a slot is over.                                             *)
LEMMA FinishTyped ==
  ASSUME SlotsTyped, NEW w \in Workers, NEW outcome \in Outcomes, Finish(w, outcome)
  PROVE  SlotsTyped'
<1> DEFINE r == [step |-> "finishing", gen |-> slot[w].gen, attemptsMade |-> 0, outcome |-> outcome]
<1>1. r \in SlotRecords
  <2>1. slot[w].gen \in Generations \cup {0}
    BY DEF SlotsTyped, SlotRecords
  <2>2. 0 \in 0..Attempts /\ "finishing" \in SlotSteps
    BY DEF SlotSteps
  <2> QED
    BY <2>1, <2>2 DEF SlotRecords
<1>2. slot' = [slot EXCEPT ![w] = r]
  BY DEF Finish
<1> HIDE DEF r
<1> QED
  BY <1>1, <1>2, SlotReplaced

(* A slot that is done, or whose job has just failed.                      *)
LEMMA IdleTyped == Idle \in SlotRecords
BY DEF Idle, SlotRecords, SlotSteps, Outcomes

LEMMA ResultTypesSlots ==
  ASSUME SlotsTyped, NEW w \in Workers, NEW outcome, Result(w, outcome)
  PROVE  SlotsTyped'
<1> DEFINE r == [slot[w] EXCEPT !.step = "failedHandler"]
<1>1. r \in SlotRecords
  BY DEF SlotsTyped, SlotRecords, SlotSteps
<1>2. slot' = [slot EXCEPT ![w] = r] \/ slot' = [slot EXCEPT ![w] = Idle]
  BY DEF Result
<1> HIDE DEF r
<1> QED
  BY <1>1, <1>2, IdleTyped, SlotReplaced

(* Every step keeps the slots' types.                                      *)
LEMMA SlotsTypedStep == JobsTyped /\ SlotsTyped /\ Next => SlotsTyped'
<1> SUFFICES ASSUME JobsTyped, SlotsTyped, Next PROVE SlotsTyped'
  OBVIOUS
<1>1. ASSUME NEW w \in Workers, AcquireAttempt(w) \/ PublishReady(w) \/ WorkFails(w) PROVE SlotsTyped'
  BY <1>1, GoTyped, FinishTyped DEF AcquireAttempt, PublishReady, WorkFails, SlotSteps, Outcomes
<1>2. ASSUME NEW w \in Workers, Settle(w) \/ SettleUnrecorded(w) PROVE SlotsTyped'
  <2>1. slot[w].outcome \in Outcomes
    BY DEF SlotsTyped, SlotRecords
  <2>2. Finish(w, slot[w].outcome)
    BY <1>2 DEF Settle, SettleUnrecorded
  <2> QED
    BY <2>1, <2>2, FinishTyped
<1>3. ASSUME NEW w \in Workers, AcquireNothing(w) \/ FinishJob(w) PROVE SlotsTyped'
  BY <1>3, ResultTypesSlots DEF AcquireNothing, FinishJob
<1>4. ASSUME NEW w \in Workers, FailStranded(w) \/ CrashWorker(w) PROVE SlotsTyped'
  BY <1>4, IdleTyped, SlotReplaced DEF FailStranded, CrashWorker
<1>5. ASSUME NEW w \in Workers, NEW g \in Generations, TakeJob(w, g) \/ Stalled(w, g) PROVE SlotsTyped'
  <2> DEFINE r(step, n) == [step |-> step, gen |-> g, attemptsMade |-> n, outcome |-> "ok"]
  <2>1. r("acquiring", job[g].attemptsMade) \in SlotRecords /\ r("failedHandler", 0) \in SlotRecords
    BY DEF JobsTyped, JobRecords, SlotRecords, SlotSteps, Outcomes
  <2>2. \/ UNCHANGED slot
        \/ slot' = [slot EXCEPT ![w] = r("acquiring", job[g].attemptsMade)]
        \/ slot' = [slot EXCEPT ![w] = r("failedHandler", 0)]
    BY <1>5 DEF TakeJob, Stalled, Idle
  <2>3. UNCHANGED slot => SlotsTyped'
    BY DEF SlotsTyped
  <2> HIDE DEF r
  <2> QED
    BY <2>1, <2>2, <2>3, SlotReplaced
<1>6. CASE UNCHANGED slot
  BY <1>6 DEF SlotsTyped
<1> QED
  BY <1>1, <1>2, <1>3, <1>4, <1>5, <1>6 DEF Next, SlotStep, PassStep, Faults, EnqueueEvent,
     FindCandidate, MarkPublished, Claim, ReadJobState, ReconcilerFails, RevokeExpiredOwner,
     RemoveRetained, AddAgain, CountRecovery, CleanupPublished, CoolDown, LeaseExpires,
     RetryProcessing, Delete, LoseLock, LoseJob, MarkFails, PassFails

(* What one job becomes.                                                   *)
LEMMA JobReplaced ==
  ASSUME JobsTyped, NEW g \in Generations, NEW r \in JobRecords, job' = [job EXCEPT ![g] = r],
         r.state \in {"queued", "active"} => r.attemptsMade < Attempts
  PROVE  JobsTyped'
BY DEF JobsTyped

(* A job that is lost, removed or added again.                             *)
LEMMA NewJobTyped ==
  /\ Missing \in JobRecords /\ Missing.state = "missing"
  /\ Fresh \in JobRecords /\ Fresh.attemptsMade < Attempts
BY DEF Missing, Fresh, JobRecords, JobStates

LEMMA AddTypesJobs ==
  ASSUME JobsTyped, NEW g \in Generations, Add(g)
  PROVE  JobsTyped'
<1>1. CASE job[g].state = "missing"
  BY <1>1, NewJobTyped, JobReplaced DEF Add
<1>2. CASE job[g].state # "missing"
  BY <1>2 DEF Add, JobsTyped
<1> QED
  BY <1>1, <1>2

(* A job that runs ends, or waits again if an attempt is left.             *)
LEMMA EndedTyped ==
  ASSUME JobsTyped, NEW g \in Generations, job[g].state \in {"queued", "active"},
         NEW state \in {"completed", "failed", "queued"}, state = "queued" => ~Exhausted(job[g].attemptsMade),
         job' = [job EXCEPT ![g] = Ended(g, state)]
  PROVE  JobsTyped'
<1>1. job[g].attemptsMade \in Nat /\ job[g].attemptsMade < Attempts
  BY DEF JobsTyped, JobRecords
<1>2. Ended(g, state) \in JobRecords
  BY <1>1 DEF Ended, JobRecords, JobStates
<1>3. Ended(g, state).state = state /\ Ended(g, state).attemptsMade = job[g].attemptsMade + 1
  BY DEF Ended
<1>4. state = "queued" => job[g].attemptsMade + 1 < Attempts
  BY <1>1 DEF Exhausted
<1> QED
  BY <1>2, <1>3, <1>4, JobReplaced

LEMMA ResultTypesJobs ==
  ASSUME JobsTyped, SlotsTyped, NEW w \in Workers,
         NEW outcome \in {"ok", "retryable", "nonRetryable", "busy"}, Result(w, outcome)
  PROVE  JobsTyped'
<1> DEFINE g == slot[w].gen
<1>1. CASE UNCHANGED job
  BY <1>1 DEF JobsTyped
<1>2. CASE g \notin Generations
  BY <1>1, <1>2 DEF Result, JobsTyped
<1>3. CASE g \in Generations /\ ~UNCHANGED job
  <2>1. PICK state \in {"completed", "failed", "queued"} :
            /\ state = "queued" => ~Exhausted(job[g].attemptsMade)
            /\ job' = [job EXCEPT ![g] = Ended(g, state)]
            /\ job[g].state = "active"
    BY <1>3 DEF Result
  <2> QED
    BY <1>3, <2>1, EndedTyped
<1> QED
  BY <1>1, <1>2, <1>3

(* Nobody holds the jobs of a worker that is gone.                         *)
LEMMA UnheldTyped ==
  ASSUME JobsTyped, NEW w, job' = Unheld(w)
  PROVE  JobsTyped'
<1>1. ASSUME NEW g \in Generations
      PROVE  /\ job'[g] \in JobRecords
             /\ job'[g].state = job[g].state /\ job'[g].attemptsMade = job[g].attemptsMade
  <2>1. job[g] \in JobRecords
    BY DEF JobsTyped
  <2>2. job'[g] = IF job[g].holder = w THEN [job[g] EXCEPT !.holder = NoOwner] ELSE job[g]
    BY DEF Unheld
  <2> QED
    BY <2>1, <2>2 DEF JobRecords
<1>2. job' \in [Generations -> JobRecords]
  BY <1>1 DEF Unheld
<1> QED
  BY <1>1, <1>2 DEF JobsTyped

(* A job changes its state and its holder.                                 *)
LEMMA HolderTyped ==
  ASSUME JobsTyped, NEW g \in Generations, job[g].state \in {"queued", "active"},
         NEW state \in JobStates, NEW holder \in Workers \cup {NoOwner},
         job' = [job EXCEPT ![g].state = state, ![g].holder = holder]
  PROVE  JobsTyped'
<1> DEFINE r == [job[g] EXCEPT !.state = state, !.holder = holder]
<1>1. r \in JobRecords /\ r.attemptsMade = job[g].attemptsMade
  BY DEF JobsTyped, JobRecords
<1>2. job' = [job EXCEPT ![g] = r] /\ job[g].attemptsMade < Attempts
  BY DEF JobsTyped
<1> HIDE DEF r
<1> QED
  BY <1>1, <1>2, JobReplaced

(* Every step keeps the jobs' types.                                       *)
LEMMA JobsTypedStep ==
  JobsTyped /\ SlotsTyped /\ PassesTyped /\ Next => JobsTyped'
<1> SUFFICES ASSUME JobsTyped, SlotsTyped, PassesTyped, Next PROVE JobsTyped'
  OBVIOUS
<1>1. ASSUME NEW a \in Apis, NEW g \in Generations, EnqueueEvent(a, g) PROVE JobsTyped'
  BY <1>1, AddTypesJobs DEF EnqueueEvent
<1>2. ASSUME NEW a \in Apis, RemoveRetained(a) \/ AddAgain(a) PROVE JobsTyped'
  <2> DEFINE g == pass[a].gen
  <2>1. CASE UNCHANGED job
    BY <2>1 DEF JobsTyped
  <2>2. CASE g \notin Generations
    <3>1. UNCHANGED job
      BY <1>2, <2>2 DEF RemoveRetained, AddAgain, Add, JobsTyped
    <3> QED
      BY <2>1, <3>1
  <2>3. CASE g \in Generations /\ RemoveRetained(a)
    BY <2>1, <2>3, NewJobTyped, JobReplaced DEF RemoveRetained
  <2>4. CASE g \in Generations /\ AddAgain(a)
    BY <2>4, AddTypesJobs DEF AddAgain
  <2> QED
    BY <1>2, <2>2, <2>3, <2>4
<1>3. ASSUME NEW w \in Workers, NEW g \in Generations, TakeJob(w, g) PROVE JobsTyped'
  <2>1. job[g].state = "queued"
    BY <1>3 DEF TakeJob
  <2>2. \/ job' = [job EXCEPT ![g].state = "active", ![g].holder = w]
        \/ job' = [job EXCEPT ![g] = Ended(g, "completed")]
    BY <1>3 DEF TakeJob
  <2> QED
    BY <2>1, <2>2, HolderTyped, EndedTyped DEF JobStates
<1>4. ASSUME NEW w \in Workers, NEW g \in Generations, Stalled(w, g) PROVE JobsTyped'
  <2>1. job[g].state = "active" /\ job[g].holder = NoOwner
    BY <1>4 DEF Stalled
  <2>2. PICK state \in {"queued", "failed"} : job' = [job EXCEPT ![g].state = state]
    BY <1>4 DEF Stalled
  <2>3. job' = [job EXCEPT ![g].state = state, ![g].holder = NoOwner]
    BY <2>1, <2>2 DEF JobsTyped, JobRecords
  <2> QED
    BY <2>1, <2>3, HolderTyped DEF JobStates
<1>5. ASSUME NEW w \in Workers, AcquireNothing(w) PROVE JobsTyped'
  BY <1>5, ResultTypesJobs DEF AcquireNothing
<1>6. ASSUME NEW w \in Workers, FinishJob(w) PROVE JobsTyped'
  <2>1. slot[w].outcome \in Outcomes
    BY DEF SlotsTyped, SlotRecords
  <2> QED
    BY <1>6, <2>1, ResultTypesJobs DEF FinishJob, Outcomes
<1>7. ASSUME NEW w \in Workers, CrashWorker(w) \/ LoseLock(w) PROVE JobsTyped'
  BY <1>7, UnheldTyped DEF CrashWorker, LoseLock
<1>8. ASSUME NEW g \in Generations, LoseJob(g) PROVE JobsTyped'
  BY <1>8, NewJobTyped, JobReplaced DEF LoseJob
<1>9. CASE UNCHANGED job
  BY <1>9 DEF JobsTyped
<1> QED
  BY <1>1, <1>2, <1>3, <1>4, <1>5, <1>6, <1>7, <1>8, <1>9 DEF Next, SlotStep, PassStep, Faults,
     FindCandidate, MarkPublished, Claim, ReadJobState, ReconcilerFails, RevokeExpiredOwner,
     CountRecovery, AcquireAttempt, PublishReady, WorkFails, Settle, SettleUnrecorded,
     FailStranded, CleanupPublished, CoolDown, LeaseExpires, RetryProcessing, Delete,
     MarkFails, PassFails

(* Every step keeps the passes' types.                                     *)
LEMMA PassesTypedStep == IInv /\ PassesTyped /\ Next => PassesTyped'
<1> SUFFICES ASSUME IInv, PassesTyped, Next PROVE PassesTyped'
  OBVIOUS
<1>1. ASSUME NEW a \in Apis, NEW p \in Passes, pass' = [pass EXCEPT ![a] = p] PROVE PassesTyped'
  BY <1>1 DEF PassesTyped
<1>2. ASSUME NEW a \in Apis, EndPass(a) PROVE PassesTyped'
  BY <1>1, <1>2, NoPassTyped DEF EndPass
<1>3. ASSUME NEW a \in Apis, NEW step \in PassSteps, AtStep(a, step) PROVE PassesTyped'
  <2> DEFINE p == [pass[a] EXCEPT !.step = step]
  <2>1. p \in Passes
    BY DEF PassesTyped, Passes
  <2>2. pass' = [pass EXCEPT ![a] = p]
    BY <1>3 DEF AtStep
  <2> HIDE DEF p
  <2> QED
    BY <1>1, <2>1, <2>2
<1>4. ASSUME NEW a \in Apis, NEW g \in Generations, FindCandidate(a, g) PROVE PassesTyped'
  <2> DEFINE p == [step |-> "claiming", gen |-> g, recoveryAttempts |-> outbox[g].recoveryAttempts]
  <2>1. p \in Passes
    BY DEF IInv, Events, Passes, PassSteps
  <2>2. pass' = [pass EXCEPT ![a] = p]
    BY <1>4 DEF FindCandidate
  <2> HIDE DEF p
  <2> QED
    BY <1>1, <2>1, <2>2
<1>5. ASSUME NEW a \in Apis, PassStep(a) \/ PassFails(a) PROVE PassesTyped'
  BY <1>2, <1>3, <1>5 DEF PassStep, Claim, ReadJobState, ReconcilerFails, RevokeExpiredOwner,
     RemoveRetained, AddAgain, CountRecovery, PassFails, PassSteps
<1>6. CASE UNCHANGED pass
  BY <1>6 DEF PassesTyped
<1> QED
  BY <1>4, <1>5, <1>6 DEF Next, SlotStep, Faults, EnqueueEvent, MarkPublished, TakeJob, Stalled,
     AcquireAttempt, AcquireNothing, PublishReady, WorkFails, Settle, SettleUnrecorded, FinishJob,
     FailStranded, CleanupPublished, CoolDown, LeaseExpires, RetryProcessing, Delete,
     CrashWorker, LoseLock, LoseJob, MarkFails

(* Every step keeps the types of what is left.                             *)
LEMMA RestTypedStep ==
  ASSUME publishing \in [Apis -> Generations \cup {0}], faults \in 0..MaxFaults, Next
  PROVE  publishing' \in [Apis -> Generations \cup {0}] /\ faults' \in 0..MaxFaults
<1> DEFINE Typed == publishing' \in [Apis -> Generations \cup {0}] /\ faults' \in 0..MaxFaults
<1>1. ASSUME NEW a \in Apis, NEW g \in Generations, EnqueueEvent(a, g) PROVE Typed
  BY <1>1 DEF EnqueueEvent
<1>2. ASSUME NEW a \in Apis, MarkPublished(a) PROVE Typed
  BY <1>2 DEF MarkPublished
<1>3. CASE Faults
  <2>1. publishing' \in [Apis -> Generations \cup {0}]
    BY <1>3 DEF Faults, CrashWorker, LoseLock, LoseJob, MarkFails, PassFails
  <2>2. faults' = faults + 1 /\ faults < MaxFaults
    BY <1>3 DEF Faults, CrashWorker, LoseLock, LoseJob, MarkFails, PassFails, Fault
  <2> QED
    BY <2>1, <2>2
<1>4. CASE UNCHANGED <<publishing, faults>>
  BY <1>4
<1> QED
  BY <1>1, <1>2, <1>3, <1>4 DEF Next, SlotStep, PassStep, FindCandidate, TakeJob, Stalled,
     AcquireAttempt, AcquireNothing, PublishReady, WorkFails, Settle, SettleUnrecorded, FinishJob,
     FailStranded, Claim, ReadJobState, ReconcilerFails, RevokeExpiredOwner, RemoveRetained,
     AddAgain, CountRecovery, CleanupPublished, CoolDown, LeaseExpires, RetryProcessing, Delete

(* Every step keeps the history's types.                                   *)
LEMMA RepublishedTypedStep ==
  ASSUME republished \in [Generations -> Counts], Next
  PROVE  republished' \in [Generations -> Counts]
<1>1. ASSUME NEW a \in Apis, AddAgain(a) PROVE republished' \in [Generations -> Counts]
  <2> DEFINE g == pass[a].gen
             c == [republished[g] EXCEPT !.jobs = @ + 1]
  <2>1. g \in Generations => c \in Counts
    BY DEF Counts
  <2>2. UNCHANGED republished \/ republished' = [republished EXCEPT ![g] = c]
    BY <1>1 DEF AddAgain
  <2> HIDE DEF c
  <2> QED
    BY <2>1, <2>2
<1>2. ASSUME NEW a \in Apis, PassFails(a) PROVE republished' \in [Generations -> Counts]
  <2> DEFINE g == pass[a].gen
             c == [republished[g] EXCEPT !.uncounted = @ + 1]
  <2>1. g \in Generations => c \in Counts
    BY DEF Counts
  <2>2. UNCHANGED republished \/ republished' = [republished EXCEPT ![g] = c]
    BY <1>2 DEF PassFails
  <2> HIDE DEF c
  <2> QED
    BY <2>1, <2>2
<1>3. CASE UNCHANGED republished
  BY <1>3
<1> QED
  BY <1>1, <1>2, <1>3 DEF Next, SlotStep, PassStep, Faults, EnqueueEvent, FindCandidate,
     MarkPublished, TakeJob, Stalled, AcquireAttempt, AcquireNothing, PublishReady, WorkFails,
     Settle, SettleUnrecorded, FinishJob, FailStranded, Claim, ReadJobState, ReconcilerFails,
     RevokeExpiredOwner, RemoveRetained, CountRecovery, CleanupPublished, CoolDown, LeaseExpires,
     RetryProcessing, Delete, CrashWorker, LoseLock, LoseJob, MarkFails

(* The types, for any number of everything.                                *)
THEOREM TypeCorrect == Spec => []TypeOK
<1>1. Init => Types
  <2>1. Init => JobsTyped
    BY NewJobTyped DEF Init, JobsTyped
  <2>2. Init => SlotsTyped /\ PassesTyped
    BY IdleTyped, NoPassTyped DEF Init, SlotsTyped, PassesTyped
  <2>3. Init => RowTyped /\ publishing \in [Apis -> Generations \cup {0}] /\ faults \in 0..MaxFaults
    <3>1. Init => RowTyped
      BY DEF Init, RowTyped, VideoStatus
    <3>2. 0 \in 0..MaxFaults
      OBVIOUS
    <3>3. Init => publishing \in [Apis -> Generations \cup {0}] /\ faults \in 0..MaxFaults
      BY <3>2 DEF Init
    <3> QED
      BY <3>1, <3>3
  <2>4. Init => republished \in [Generations -> Counts]
    BY DEF Init, NotRepublished, Counts
  <2> QED
    BY <2>1, <2>2, <2>3, <2>4, InitIInv DEF Types
<1>2. Types /\ [Next]_vars => Types'
  <2>1. CASE UNCHANGED vars
    BY <2>1, IInvStep DEF Types, vars, row, RowTyped, JobsTyped, SlotsTyped, PassesTyped
  <2>2. CASE Next
    BY <2>2, IInvStep, RowTypedStep, JobsTypedStep, SlotsTypedStep, PassesTypedStep, RestTypedStep,
       RepublishedTypedStep DEF Types
  <2> QED
    BY <2>1, <2>2
<1>3. Types => TypeOK
  BY DEF Types, IInv, Events, EventStates, RowTyped, JobsTyped, JobRecords, SlotsTyped, SlotRecords,
     PassesTyped, Passes, Counts, TypeOK
<1> QED
  BY <1>1, <1>2, <1>3, PTL DEF Spec

-----------------------------------------------------------------------------
(* The steps of the row are those of the lifecycle.                        *)

(* What a step may do to status and generation.                            *)
RowMoves ==
    \/ UNCHANGED <<status, generation>>
    \/ status \in {"UPLOADED", "PROCESSING"} /\ status' = "PROCESSING" /\ UNCHANGED generation
    \/ status = "PROCESSING" /\ status' = "READY" /\ UNCHANGED generation
    \/ status \in {"UPLOADED", "PROCESSING"} /\ status' = "FAILED" /\ UNCHANGED generation
    \/ status = "FAILED" /\ status' = "PROCESSING" /\ generation' = generation + 1
    \/ status # "DELETING" /\ status' = "DELETING" /\ UNCHANGED generation

(* Every writer of the row makes one of these moves.                       *)
LEMMA NextMovesRow == Next => RowMoves
<1> SUFFICES ASSUME Next PROVE RowMoves
  OBVIOUS
<1> USE DEF RowMoves
<1>1. ASSUME NEW w \in Workers, SlotStep(w) PROVE RowMoves
  BY <1>1 DEF SlotStep, AcquireAttempt, AcquireNothing, PublishReady, WorkFails, Settle,
     SettleUnrecorded, FinishJob, FailStranded, FailGeneration, Pending, Owns, row
<1>2. ASSUME NEW a \in Apis, PassStep(a) PROVE RowMoves
  BY <1>2 DEF PassStep, Claim, ReadJobState, ReconcilerFails, RevokeExpiredOwner, RemoveRetained,
     AddAgain, CountRecovery, FailGeneration, Pending, row
<1>3. CASE LeaseExpires \/ RetryProcessing \/ Delete
  BY <1>3 DEF LeaseExpires, RetryProcessing, Delete
<1>4. ASSUME NEW w \in Workers, CrashWorker(w) PROVE RowMoves
  BY <1>4 DEF CrashWorker
<1>5. CASE UNCHANGED row
  BY <1>5 DEF row
<1> QED
  BY <1>1, <1>2, <1>3, <1>4, <1>5 DEF Next, Faults, EnqueueEvent, FindCandidate, MarkPublished,
     TakeJob, Stalled, CleanupPublished, CoolDown, LoseLock, LoseJob, MarkFails, PassFails

(* A move of the row is a step of the lifecycle, or none.                  *)
LEMMA MovesAreSteps ==
  ASSUME RowTyped, RowMoves
  PROVE  Lifecycle!Next \/ UNCHANGED Lifecycle!vars
<1>1. status # Lifecycle!GONE
  BY DEF RowTyped, VideoStatus, Lifecycle!GONE
<1> QED
  BY <1>1 DEF RowMoves, Lifecycle!Next, Lifecycle!Start, Lifecycle!Publish, Lifecycle!Fail,
     Lifecycle!Retry, Lifecycle!Delete, Lifecycle!vars

(* However many workers, API instances and faults there are, the row goes  *)
(* through the lifecycle that owners and viewers rely on.                  *)
THEOREM LifecycleImplemented == Spec => ImplementsLifecycle
<1>1. Init => RowTyped /\ Lifecycle!Init
  BY DEF Init, RowTyped, VideoStatus, Lifecycle!Init
<1>2. RowTyped /\ [Next]_vars => RowTyped'
  <2>1. RowTyped /\ UNCHANGED vars => RowTyped'
    BY DEF RowTyped, vars, row
  <2> QED
    BY <2>1, RowTypedStep
<1>3. RowTyped /\ [Next]_vars => [Lifecycle!Next]_Lifecycle!vars
  <2>1. UNCHANGED vars => UNCHANGED Lifecycle!vars
    BY DEF vars, row, Lifecycle!vars
  <2> QED
    BY <2>1, NextMovesRow, MovesAreSteps
<1> QED
  BY <1>1, <1>2, <1>3, PTL DEF Spec, ImplementsLifecycle, Lifecycle!Spec
=============================================================================
