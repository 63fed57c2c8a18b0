--------------------------- MODULE LeaseClock_proofs ---------------------------
(***************************************************************************)
(* Proofs, for every number of executions and all durations, of the safety *)
(* properties of LeaseClock.                                               *)
(***************************************************************************)
EXTENDS LeaseClock, TLAPS

(* e may rely on its lease until t: if t is still to come, e is the        *)
(* recorded owner and the database's lease ends no earlier.                *)
Covered(e, t) == now < t => owner = e /\ t <= leaseUntil

Updates ==
    [stage : {"none", "sent", "started", "answered"}, sentAt : Nat, startedAt : Nat,
     renewed : BOOLEAN]

(* The types the arithmetic below needs.                                   *)
Typed ==
    /\ now \in Nat
    /\ owner \in Executions \cup {NoOwner}
    /\ leaseUntil \in Nat
    /\ phase \in [Executions -> Phases]
    /\ acquiredAt \in [Executions -> Nat]
    /\ acquireStart \in [Executions -> Nat]
    /\ validUntil \in [Executions -> Nat]
    /\ renewal \in [Executions -> Updates]

(* What e may rely on, and what is on its way to it.  A renewal that has   *)
(* started at the database must not bring the lease's end forward of what  *)
(* e relies on already: hence the bound on validUntil while it runs.       *)
LeaseOf(e) ==
    /\ phase[e] \in {"idle", "acquiring", "waiting"} => owner # e
    /\ acquiredAt[e] <= now
    /\ phase[e] = "waiting" => acquiredAt[e] <= acquireStart[e] /\ acquireStart[e] <= now
    /\ phase[e] = "acquired" => Covered(e, acquiredAt[e] + Lease)
    /\ AtWork(e) => Covered(e, validUntil[e]) /\ validUntil[e] <= now + Lease

RenewalOf(e) ==
    /\ renewal[e].sentAt <= now
    /\ renewal[e].stage = "none" \/ phase[e] \in {"working", "ensuring", "over"}
    /\ renewal[e].stage = "started" =>
           /\ renewal[e].sentAt <= renewal[e].startedAt
           /\ renewal[e].startedAt <= now
           /\ AtWork(e) => validUntil[e] <= renewal[e].startedAt + Lease
    /\ renewal[e].stage = "answered" /\ renewal[e].renewed /\ AtWork(e) =>
           Covered(e, renewal[e].sentAt + Lease)

IInv == Typed /\ \A e \in Executions : LeaseOf(e) /\ RenewalOf(e)

USE NoOwnerAssumption, DurationsAssumption

(* The initial state satisfies the invariant.                              *)
LEMMA InitIInv == Init => IInv
  BY DEF Init, IInv, Typed, Updates, LeaseOf, RenewalOf, AtWork, NoRenewal, Phases

-----------------------------------------------------------------------------
(* The types are kept by every step.                                       *)
LEMMA TypedStep == IInv /\ [Next]_vars => Typed'
<1> SUFFICES ASSUME IInv, [Next]_vars PROVE Typed'
  OBVIOUS
<1> USE DEF IInv, Typed
<1>1. CASE Tick
  BY <1>1 DEF Tick, client
<1>2. CASE RevokeExpired
  BY <1>2 DEF RevokeExpired, client
<1>3. ASSUME NEW e \in Executions, ExecutionStep(e) PROVE Typed'
  <2>1. CASE SendAcquisition(e)
    BY <2>1 DEF SendAcquisition, MoveTo, Phases
  <2>2. CASE StartAcquisition(e) \/ Acquire(e) \/ AcquireNothing(e)
    BY <2>2 DEF StartAcquisition, Acquire, AcquireNothing, MoveTo, Phases
  <2>3. CASE StartLease(e)
    BY <2>3 DEF StartLease, FirstValidity, MoveTo, Phases
  <2>4. CASE Heartbeat(e)
    BY <2>4 DEF Heartbeat
  <2>5. CASE EnsureOwned(e)
    BY <2>5 DEF EnsureOwned, MoveTo, Phases
  <2>6. CASE SendRenewal(e) \/ StartRenewal(e) \/ EvaluateRenewal(e)
    <3>1. renewal[e] \in Updates /\ renewal[e].startedAt + Lease \in Nat
      BY DEF Updates
    <3>2. leaseUntil' \in Nat /\ UNCHANGED <<now, owner, client, acquireStart>>
      BY <2>6, <3>1 DEF SendRenewal, StartRenewal, EvaluateRenewal
    <3>3. CASE SendRenewal(e)
      BY <3>1, <3>2, <3>3 DEF SendRenewal, client, Updates
    <3>4. CASE StartRenewal(e)
      BY <3>1, <3>2, <3>4 DEF StartRenewal, client, Updates
    <3>5. CASE EvaluateRenewal(e)
      <4>1. Renewable(e) \in BOOLEAN
        BY DEF Renewable
      <4> QED
        BY <3>1, <3>2, <3>5, <4>1 DEF EvaluateRenewal, client, Updates
    <3> QED
      BY <2>6, <3>3, <3>4, <3>5
  <2>8. CASE RenewalConfirmed(e)
    <3>1. RenewedValidity(e) \in Nat
      BY DEF RenewedValidity, LaterOf, Updates
    <3> QED
      BY <2>8, <3>1 DEF RenewalConfirmed, Settle, NoRenewal, MoveTo, Phases, Updates
  <2>9. CASE RenewalFails(e)
    BY <2>9 DEF RenewalFails, Settle, NoRenewal, MoveTo, Phases, Updates
  <2>10. CASE RenewalRefused(e)
    BY <2>10 DEF RenewalRefused, End, NoRenewal, MoveTo, Phases, Updates
  <2>11. CASE End(e) /\ UNCHANGED renewal
    BY <2>11 DEF End, MoveTo, Phases
  <2>12. CASE HandBack(e)
    BY <2>12 DEF HandBack, client
  <2> QED
    BY <1>3, <2>1, <2>2, <2>3, <2>4, <2>5, <2>6, <2>8, <2>9, <2>10, <2>11, <2>12
    DEF ExecutionStep, LeaseRunsOut, DeadlinePasses, Shutdown, Stop
<1>4. CASE UNCHANGED vars
  BY <1>4 DEF vars, client
<1> QED
  BY <1>1, <1>2, <1>3, <1>4 DEF Next

(* What an execution relies on survives the steps of everybody else: while *)
(* its lease is unexpired nobody takes the row or moves the lease.         *)
LEMMA OthersStep ==
  ASSUME IInv, NEW e \in Executions, NEW d \in Executions, d # e, ExecutionStep(d)
  PROVE  (LeaseOf(e) /\ RenewalOf(e))'
<1> USE DEF IInv, Typed, Updates, LeaseOf, RenewalOf, Covered, AtWork
<1>1. /\ now' = now
      /\ phase'[e] = phase[e] /\ acquiredAt'[e] = acquiredAt[e]
      /\ acquireStart'[e] = acquireStart[e]
      /\ validUntil'[e] = validUntil[e] /\ renewal'[e] = renewal[e]
  BY DEF ExecutionStep, SendAcquisition, StartAcquisition, Acquire, AcquireNothing, StartLease, Heartbeat, EnsureOwned,
         SendRenewal, StartRenewal, EvaluateRenewal, RenewalConfirmed, RenewalRefused,
         RenewalFails, LeaseRunsOut, DeadlinePasses, Shutdown, Stop, End, HandBack,
         Settle, MoveTo, client
<1>2. \/ UNCHANGED <<owner, leaseUntil>>
      \/ owner # e /\ owner' # e
      \/ owner = e /\ leaseUntil <= now /\ owner' # e
  BY DEF ExecutionStep, SendAcquisition, StartAcquisition, Acquire, AcquireNothing, Takeable, StartLease, Heartbeat, EnsureOwned,
         SendRenewal, StartRenewal, EvaluateRenewal, Renewable, RenewalConfirmed,
         RenewalRefused, RenewalFails, LeaseRunsOut, DeadlinePasses, Shutdown, Stop, End,
         HandBack, client
<1> QED
  BY <1>1, <1>2

(* An execution's own steps keep what it relies on.                        *)
LEMMA OwnStep ==
  ASSUME IInv, NEW e \in Executions, ExecutionStep(e)
  PROVE  (LeaseOf(e) /\ RenewalOf(e))'
<1> USE DEF IInv, Typed, Updates, LeaseOf, RenewalOf, Covered, AtWork
<1>1. CASE SendAcquisition(e)
  BY <1>1 DEF SendAcquisition, MoveTo
<1>2. CASE StartAcquisition(e) \/ Acquire(e) \/ AcquireNothing(e)
  BY <1>2 DEF StartAcquisition, Acquire, AcquireNothing, MoveTo
<1>3. CASE StartLease(e)
  BY <1>3 DEF StartLease, FirstValidity, MoveTo
<1>4. CASE Heartbeat(e)
  BY <1>4 DEF Heartbeat
<1>5. CASE EnsureOwned(e)
  BY <1>5 DEF EnsureOwned, MoveTo
<1>6. CASE SendRenewal(e)
  BY <1>6 DEF SendRenewal, client
<1>7. CASE StartRenewal(e)
  BY <1>7 DEF StartRenewal, client
<1>8. CASE EvaluateRenewal(e)
  BY <1>8 DEF EvaluateRenewal, Renewable, client
<1>9. CASE RenewalConfirmed(e)
  BY <1>9 DEF RenewalConfirmed, RenewedValidity, LaterOf, Settle, NoRenewal, MoveTo
<1>10. CASE RenewalFails(e)
  BY <1>10 DEF RenewalFails, Settle, NoRenewal, MoveTo
<1>11. CASE RenewalRefused(e)
  BY <1>11 DEF RenewalRefused, End, NoRenewal, MoveTo
<1>12. CASE End(e) /\ UNCHANGED renewal
  BY <1>12 DEF End, MoveTo
<1>13. CASE HandBack(e)
  BY <1>13 DEF HandBack, client
<1> QED
  BY <1>1, <1>2, <1>3, <1>4, <1>5, <1>6, <1>7, <1>8, <1>9, <1>10, <1>11, <1>12, <1>13
  DEF ExecutionStep, LeaseRunsOut, DeadlinePasses, Shutdown, Stop

(* Time passes, or the reconciler clears an owner whose lease has ended.   *)
LEMMA EnvironmentStep ==
  ASSUME IInv, NEW e \in Executions, Tick \/ RevokeExpired
  PROVE  (LeaseOf(e) /\ RenewalOf(e))'
<1> USE DEF IInv, Typed, Updates, LeaseOf, RenewalOf, Covered, AtWork
<1>1. CASE Tick
  BY <1>1 DEF Tick, client
<1>2. CASE RevokeExpired
  BY <1>2 DEF RevokeExpired, client
<1> QED
  BY <1>1, <1>2

(* IInv is an invariant.                                                   *)
LEMMA Invariance == Spec => []IInv
<1>1. ASSUME IInv, [Next]_vars, NEW e \in Executions PROVE (LeaseOf(e) /\ RenewalOf(e))'
  <2>1. CASE Tick \/ RevokeExpired
    BY <1>1, <2>1, EnvironmentStep
  <2>2. CASE ExecutionStep(e)
    BY <1>1, <2>2, OwnStep
  <2>3. ASSUME NEW d \in Executions, d # e, ExecutionStep(d) PROVE (LeaseOf(e) /\ RenewalOf(e))'
    BY <1>1, <2>3, OthersStep
  <2>4. CASE UNCHANGED vars
    BY <1>1, <2>4 DEF vars, client, IInv, LeaseOf, RenewalOf, Covered, AtWork
  <2> QED
    BY <1>1, <2>1, <2>2, <2>3, <2>4 DEF Next
<1>2. IInv /\ [Next]_vars => IInv'
  BY <1>1, TypedStep DEF IInv
<1> QED
  BY <1>2, InitIInv, PTL DEF Spec

-----------------------------------------------------------------------------
(* The local lease is conservative: whatever the delays, an attempt that   *)
(* believes its lease valid is the owner the database would confirm        *)
(* (AttemptLease.validUntil against processingLeaseExpiresAt).             *)
THEOREM LocalLeaseIsConservative == Spec => []ConfirmedMeansOwned
<1>1. IInv => ConfirmedMeansOwned
  BY DEF IInv, LeaseOf, Covered, ConfirmedMeansOwned
<1> QED
  BY <1>1, Invariance, PTL

(* Hence no two executions work at once, beyond the instant in which a     *)
(* validity timer is due.                                                  *)
THEOREM WorkersExcludeEachOther == Spec => []WorkIsExclusive
<1>1. IInv => WorkIsExclusive
  BY DEF IInv, Typed, LeaseOf, Covered, WorkIsExclusive
<1> QED
  BY <1>1, Invariance, PTL

(* renewAttempt never makes an ended lease valid again, however long its   *)
(* statement waited.                                                       *)
THEOREM EndedLeasesStayEnded == Spec => NeverResurrected
<1>1. ASSUME IInv, [Next]_vars, owner # NoOwner, leaseUntil <= now, owner' = owner
      PROVE  leaseUntil' <= now
  <2>1. ASSUME NEW e \in Executions, ExecutionStep(e) PROVE UNCHANGED leaseUntil
    BY <1>1, <2>1
    DEF ExecutionStep, SendAcquisition, StartAcquisition, Acquire, AcquireNothing, StartLease,
        Heartbeat, EnsureOwned, SendRenewal, StartRenewal, EvaluateRenewal, Renewable, RenewalConfirmed,
        RenewalRefused, RenewalFails, LeaseRunsOut, DeadlinePasses, Shutdown, Stop, End,
        HandBack, IInv, Typed, LeaseOf
  <2>2. Tick \/ UNCHANGED vars => UNCHANGED leaseUntil
    BY DEF Tick, vars
  <2>3. ~RevokeExpired
    BY <1>1 DEF RevokeExpired
  <2> QED
    BY <1>1, <2>1, <2>2, <2>3 DEF Next
<1>2. IInv /\ [Next]_vars =>
          (owner # NoOwner /\ leaseUntil <= now /\ owner' = owner => leaseUntil' <= now)
  BY <1>1
<1> QED
  BY <1>2, Invariance, PTL DEF Spec, NeverResurrected

-----------------------------------------------------------------------------
(* Neither asker waits for two renewals at once.  The heartbeat timer is   *)
(* not armed while its renewal waits, ensureOwned keeps its caller until   *)
(* it returns, and a renewal runs only for the first who waits.            *)

Has(queue, asker) == \E i \in DOMAIN queue : queue[i] = asker

QueueOf(e) ==
    /\ Has(renewals[e], "heartbeat") => heartbeatAt[e] = Never
    /\ Has(renewals[e], "ensureOwned") => phase[e] = "ensuring"
    /\ phase[e] \in {"idle", "acquiring", "waiting", "acquired"} =>
           renewals[e] = <<>> /\ renewal[e].stage = "none"
    /\ AtWork(e) /\ renewal[e].stage # "none" => renewals[e] # <<>>

QueueInv == TypeOK /\ \A e \in Executions : QueueOf(e)

(* An asker that is not in a queue joins it at its end.                    *)
LEMMA QueueGrows ==
    ASSUME NEW queue \in Seq(Askers), IsInjective(queue), NEW asker \in Askers,
           ~Has(queue, asker)
    PROVE  LET longer == Append(queue, asker)
           IN  /\ longer \in Seq(Askers) /\ IsInjective(longer) /\ longer # <<>>
               /\ \A a : Has(longer, a) => a = asker \/ Has(queue, a)
<1> DEFINE longer == Append(queue, asker)
<1>1. /\ longer \in Seq(Askers) /\ longer # <<>> /\ Len(queue) \in Nat
      /\ DOMAIN queue = 1..Len(queue) /\ DOMAIN longer = 1..(Len(queue) + 1)
      /\ \A i \in 1..Len(queue) : longer[i] = queue[i]
      /\ longer[Len(queue) + 1] = asker
  OBVIOUS
<1> HIDE DEF longer
<1>2. QED
  BY <1>1 DEF Has, IsInjective, longer

(* The first leaves a queue, and is not in it any more.                    *)
LEMMA QueueShrinks ==
    ASSUME NEW queue \in Seq(Askers), IsInjective(queue), queue # <<>>
    PROVE  /\ Head(queue) \in Askers
           /\ Tail(queue) \in Seq(Askers) /\ IsInjective(Tail(queue))
           /\ ~Has(Tail(queue), Head(queue))
           /\ \A a : Has(Tail(queue), a) => Has(queue, a)
<1> DEFINE rest == Tail(queue)
<1>1. /\ rest \in Seq(Askers) /\ Head(queue) = queue[1] /\ Len(queue) \in Nat \ {0}
      /\ DOMAIN queue = 1..Len(queue) /\ DOMAIN rest = 1..(Len(queue) - 1)
      /\ \A i \in 1..(Len(queue) - 1) : rest[i] = queue[i + 1]
  OBVIOUS
<1> HIDE DEF rest
<1>2. QED
  BY <1>1 DEF Has, IsInjective, rest

(* Nobody waits initially.                                                 *)
LEMMA InitQueueInv == Init => QueueInv
<1> SUFFICES ASSUME Init PROVE QueueInv
  OBVIOUS
<1>1. IsInjective(<<>>) /\ \A a : ~Has(<<>>, a)
  BY DEF IsInjective, Has
<1>2. NoRenewal \in Renewals
  BY DEF NoRenewal, Renewals, Time
<1>3. TypeOK
  BY <1>1, <1>2 DEF Init, TypeOK, Time, Instants, Phases, Never
<1>4. \A e \in Executions : QueueOf(e)
  BY <1>1 DEF Init, NoRenewal, QueueOf, AtWork
<1>5. QED
  BY <1>3, <1>4 DEF QueueInv

(* A renewal settles: the next in the queue is somebody else's.            *)
LEMMA SettleStep ==
    ASSUME QueueInv, NEW e \in Executions, NEW outcome \in {"working", "over"},
           AtWork(e), renewals[e] # <<>>, Settle(e, outcome),
           UNCHANGED <<now, owner, leaseUntil, acquiredAt, acquireStart>>,
           validUntil' \in [Executions -> Instants]
    PROVE  QueueInv'
<1> USE DEF QueueInv, TypeOK
<1>1. /\ renewals[e] \in Seq(Askers) /\ IsInjective(renewals[e])
      /\ renewal' = [renewal EXCEPT ![e] = NoRenewal]
      /\ renewals' = [renewals EXCEPT ![e] = Tail(renewals[e])]
      /\ \A d \in Executions : QueueOf(d)
  BY DEF Settle
<1>2. /\ Head(renewals[e]) \in Askers
      /\ Tail(renewals[e]) \in Seq(Askers) /\ IsInjective(Tail(renewals[e]))
      /\ ~Has(Tail(renewals[e]), Head(renewals[e]))
      /\ \A a : Has(Tail(renewals[e]), a) => Has(renewals[e], a)
  BY <1>1, QueueShrinks
<1>3. \/ /\ Head(renewals[e]) = "heartbeat" /\ phase' = phase
         /\ heartbeatAt' = [heartbeatAt EXCEPT ![e] = now + RenewInterval]
      \/ /\ Head(renewals[e]) = "ensureOwned" /\ heartbeatAt' = heartbeatAt
         /\ phase' = [phase EXCEPT ![e] = outcome]
  BY <1>2 DEF Settle, MoveTo, Askers
<1>4. NoRenewal \in Renewals /\ NoRenewal.stage = "none"
  BY DEF NoRenewal, Renewals, Time
<1>5. now + RenewInterval \in 0..(MaxTime + RenewInterval)
  BY DEF Time
<1>6. TypeOK'
  <2>1. /\ phase' \in [Executions -> Phases]
        /\ heartbeatAt' \in [Executions -> (0..(MaxTime + RenewInterval)) \cup {Never}]
    <3>1. phase' \in [Executions -> Phases]
      BY <1>3 DEF Phases
    <3> DEFINE due == now + RenewInterval
    <3>2. due \in (0..(MaxTime + RenewInterval)) \cup {Never}
      BY <1>5
    <3>3. heartbeatAt' = heartbeatAt \/ heartbeatAt' = [heartbeatAt EXCEPT ![e] = due]
      BY <1>3
    <3> HIDE DEF due
    <3>4. heartbeatAt' \in [Executions -> (0..(MaxTime + RenewInterval)) \cup {Never}]
      BY <3>2, <3>3
    <3>5. QED
      BY <3>1, <3>4
  <2>2. /\ renewals' \in [Executions -> Seq(Askers)]
        /\ \A d \in Executions : IsInjective(renewals'[d])
        /\ renewal' \in [Executions -> Renewals]
    BY <1>1, <1>2, <1>4
  <2>3. QED
    BY <2>1, <2>2
<1>7. ASSUME NEW d \in Executions, d # e PROVE QueueOf(d)'
  BY <1>1, <1>3, <1>7 DEF QueueOf, AtWork
<1>8. QueueOf(e)'
  <2>1. /\ renewals'[e] = Tail(renewals[e]) /\ renewal'[e] = NoRenewal
        /\ phase[e] \in {"working", "ensuring"} /\ phase'[e] \in {"working", "ensuring", "over"}
    BY <1>1, <1>3 DEF AtWork
  <2>2. CASE Head(renewals[e]) = "heartbeat"
    <3>1. phase'[e] = phase[e]
      BY <1>3, <2>2
    <3>2. /\ ~Has(renewals'[e], "heartbeat")
          /\ Has(renewals'[e], "ensureOwned") => phase[e] = "ensuring"
      BY <1>1, <1>2, <2>1, <2>2 DEF QueueOf
    <3>3. QED
      BY <1>4, <2>1, <3>1, <3>2 DEF QueueOf
  <2>3. CASE Head(renewals[e]) = "ensureOwned"
    <3>1. heartbeatAt'[e] = heartbeatAt[e]
      BY <1>3, <2>3
    <3>2. /\ ~Has(renewals'[e], "ensureOwned")
          /\ Has(renewals'[e], "heartbeat") => heartbeatAt[e] = Never
      BY <1>1, <1>2, <2>1, <2>3 DEF QueueOf
    <3>3. QED
      BY <1>4, <2>1, <3>1, <3>2 DEF QueueOf
  <2>4. QED
    BY <1>2, <2>2, <2>3 DEF Askers
<1>9. QED
  BY <1>6, <1>7, <1>8

(* An attempt ends, and its queue with it.                                 *)
LEMMA EndStep ==
    ASSUME QueueInv, NEW e \in Executions, End(e), renewal' \in [Executions -> Renewals],
           \A d \in Executions : d # e => renewal'[d] = renewal[d]
    PROVE  QueueInv'
<1> USE DEF QueueInv, TypeOK
<1>1. /\ phase' = [phase EXCEPT ![e] = "over"]
      /\ heartbeatAt' = [heartbeatAt EXCEPT ![e] = Never]
      /\ renewals' = [renewals EXCEPT ![e] = <<>>]
      /\ UNCHANGED <<now, owner, leaseUntil, acquiredAt, acquireStart, validUntil>>
  BY DEF End, MoveTo
<1>2. /\ IsInjective(<<>>) /\ \A a : ~Has(<<>>, a)
      /\ <<>> \in Seq(Askers)
  BY DEF IsInjective, Has
<1>3. TypeOK'
  BY <1>1, <1>2 DEF Phases
<1>4. \A d \in Executions : QueueOf(d)'
  BY <1>1, <1>2 DEF QueueOf, AtWork
<1>5. QED
  BY <1>3, <1>4

(* Every step keeps the queues as they should be.                          *)
LEMMA QueueStep == QueueInv /\ [Next]_vars => QueueInv'
<1> SUFFICES ASSUME QueueInv, [Next]_vars PROVE QueueInv'
  OBVIOUS
<1> USE DEF QueueInv
<1>1. CASE Tick
  BY <1>1 DEF Tick, client, TypeOK, Time, QueueOf, AtWork
<1>2. CASE RevokeExpired
  BY <1>2 DEF RevokeExpired, client, TypeOK, Instants, QueueOf, AtWork
<1>3. CASE UNCHANGED vars
  BY <1>3 DEF vars, client, TypeOK, QueueOf, AtWork
<1>4. ASSUME NEW e \in Executions, ExecutionStep(e) PROVE QueueInv'
  <2>1. CASE SendAcquisition(e)
    BY <2>1 DEF SendAcquisition, MoveTo, TypeOK, Phases, QueueOf, AtWork
  <2>2. CASE StartAcquisition(e) \/ Acquire(e) \/ AcquireNothing(e)
    <3>1. 0 \in Time /\ acquireStart[e] + Lease \in Instants
      <4>1. acquireStart[e] \in 0..MaxTime
        BY DEF TypeOK, Time
      <4> QED
        BY <4>1 DEF Time, Instants
    <3>2. TypeOK'
      <4>1. leaseUntil' \in Instants /\ owner' \in Executions \cup {NoOwner}
        BY <2>2, <3>1 DEF StartAcquisition, Acquire, AcquireNothing, TypeOK
      <4>2. phase' \in [Executions -> Phases]
        BY <2>2 DEF StartAcquisition, Acquire, AcquireNothing, MoveTo, TypeOK, Phases
      <4>3. acquiredAt' \in [Executions -> Time] /\ acquireStart' \in [Executions -> Time]
        <5>1. acquiredAt' = acquiredAt \/ acquiredAt' = [acquiredAt EXCEPT ![e] = 0]
          BY <2>2 DEF StartAcquisition, Acquire, AcquireNothing
        <5>2. PICK t \in {0, now} : acquireStart' = [acquireStart EXCEPT ![e] = t]
          BY <2>2 DEF StartAcquisition, Acquire, AcquireNothing
        <5>3. t \in Time
          BY <3>1 DEF TypeOK
        <5>4. acquireStart' \in [Executions -> Time]
          BY <5>2, <5>3 DEF TypeOK
        <5>5. acquiredAt \in [Executions -> Time] /\ 0 \in Time
          BY <3>1 DEF TypeOK
        <5> QED
          BY <5>1, <5>4, <5>5
      <4>4. UNCHANGED <<now, validUntil, heartbeatAt, renewals, renewal>>
        BY <2>2 DEF StartAcquisition, Acquire, AcquireNothing
      <4> QED
        BY <4>1, <4>2, <4>3, <4>4 DEF TypeOK
    <3>3. \A d \in Executions : QueueOf(d)'
      BY <2>2 DEF StartAcquisition, Acquire, AcquireNothing, MoveTo, TypeOK, QueueOf, AtWork
    <3>4. QED
      BY <3>2, <3>3
  <2>3. CASE StartLease(e)
    <3>1. TypeOK'
      <4>1. phase' \in [Executions -> Phases]
        BY <2>3 DEF StartLease, MoveTo, TypeOK, Phases
      <4>2. validUntil' \in [Executions -> Instants]
        BY <2>3 DEF StartLease, FirstValidity, TypeOK, Time, Instants
      <4>3. heartbeatAt' \in [Executions -> (0..(MaxTime + RenewInterval)) \cup {Never}]
        BY <2>3 DEF StartLease, TypeOK, Time
      <4> QED
        BY <2>3, <4>1, <4>2, <4>3 DEF StartLease, TypeOK
    <3>2. \A a : ~Has(renewals[e], a)
      BY <2>3 DEF StartLease, QueueOf, Has
    <3>3. renewal[e].stage = "none"
      BY <2>3 DEF StartLease, QueueOf
    <3>4. \A d \in Executions : QueueOf(d)'
      BY <2>3, <3>2, <3>3 DEF StartLease, MoveTo, TypeOK, QueueOf, AtWork
    <3>5. QED
      BY <3>1, <3>4
  <2>4. CASE Heartbeat(e)
    <3>1. ~Has(renewals[e], "heartbeat") /\ phase[e] \in {"working", "ensuring"}
      BY <2>4 DEF Heartbeat, HeartbeatDue, QueueOf, AtWork, Never, TypeOK, Time
    <3>2. /\ renewals[e] \in Seq(Askers) /\ IsInjective(renewals[e]) /\ "heartbeat" \in Askers
          /\ renewals' = [renewals EXCEPT ![e] = Append(renewals[e], "heartbeat")]
      BY <2>4 DEF TypeOK, Askers, Heartbeat, Ask
    <3>3. LET longer == Append(renewals[e], "heartbeat")
          IN  /\ longer \in Seq(Askers) /\ IsInjective(longer) /\ longer # <<>>
              /\ \A a : Has(longer, a) => a = "heartbeat" \/ Has(renewals[e], a)
      BY <3>1, <3>2, QueueGrows
    <3>4. TypeOK'
      BY <2>4, <3>2, <3>3 DEF Heartbeat, TypeOK
    <3>5. \A d \in Executions : QueueOf(d)'
      BY <2>4, <3>1, <3>2, <3>3 DEF Heartbeat, TypeOK, QueueOf, AtWork
    <3>6. QED
      BY <3>4, <3>5
  <2>5. CASE EnsureOwned(e)
    <3>1. ~Has(renewals[e], "ensureOwned") /\ phase[e] = "working"
      BY <2>5 DEF EnsureOwned, QueueOf
    <3>2. /\ renewals[e] \in Seq(Askers) /\ IsInjective(renewals[e]) /\ "ensureOwned" \in Askers
          /\ renewals' = [renewals EXCEPT ![e] = Append(renewals[e], "ensureOwned")]
      BY <2>5 DEF TypeOK, Askers, EnsureOwned, Ask
    <3>3. LET longer == Append(renewals[e], "ensureOwned")
          IN  /\ longer \in Seq(Askers) /\ IsInjective(longer) /\ longer # <<>>
              /\ \A a : Has(longer, a) => a = "ensureOwned" \/ Has(renewals[e], a)
      BY <3>1, <3>2, QueueGrows
    <3>4. TypeOK'
      BY <2>5, <3>2, <3>3 DEF EnsureOwned, MoveTo, TypeOK, Phases
    <3>5. \A d \in Executions : QueueOf(d)'
      BY <2>5, <3>1, <3>2, <3>3 DEF EnsureOwned, MoveTo, TypeOK, QueueOf, AtWork
    <3>6. QED
      BY <3>4, <3>5
  <2>6. CASE SendRenewal(e) \/ StartRenewal(e) \/ EvaluateRenewal(e)
    <3>1. renewal' \in [Executions -> Renewals] /\ leaseUntil' \in Instants
      <4>1. renewal[e] \in Renewals /\ now \in Time /\ Renewable(e) \in BOOLEAN
        BY DEF TypeOK, Renewable
      <4>2. CASE SendRenewal(e)
        BY <4>1, <4>2 DEF SendRenewal, TypeOK, Renewals
      <4>3. CASE StartRenewal(e)
        BY <4>1, <4>3 DEF StartRenewal, TypeOK, Renewals
      <4>4. CASE EvaluateRenewal(e)
        <5>1. renewal[e].startedAt + Lease \in Instants
          BY <4>1 DEF Renewals, Time, Instants
        <5>2. leaseUntil' \in Instants
          BY <4>4, <5>1 DEF EvaluateRenewal, TypeOK
        <5>3. renewal' \in [Executions -> Renewals]
          BY <4>1, <4>4 DEF EvaluateRenewal, TypeOK, Renewals
        <5>4. QED
          BY <5>2, <5>3
      <4>5. QED
        BY <2>6, <4>2, <4>3, <4>4
    <3>2. /\ UNCHANGED <<now, owner, client, acquireStart>>
          /\ renewals[e] # <<>> \/ renewal[e].stage # "none"
          /\ \A d \in Executions : d # e => renewal'[d] = renewal[d]
      BY <2>6 DEF SendRenewal, StartRenewal, EvaluateRenewal, TypeOK
    <3>3. TypeOK'
      BY <3>1, <3>2 DEF TypeOK, client
    <3>4. \A d \in Executions : QueueOf(d)'
      BY <3>2 DEF QueueOf, AtWork, client
    <3>5. QED
      BY <3>3, <3>4
  <2>7. CASE RenewalConfirmed(e)
    <3>1. RenewedValidity(e) \in Instants
      BY DEF RenewedValidity, LaterOf, TypeOK, Renewals, Time, Instants
    <3>2. validUntil' \in [Executions -> Instants]
      BY <2>7, <3>1 DEF RenewalConfirmed, TypeOK
    <3>3. AtWork(e) /\ renewals[e] # <<>> /\ Settle(e, "working")
      BY <2>7 DEF RenewalConfirmed, QueueOf
    <3>4. QED
      BY <2>7, <3>2, <3>3, SettleStep DEF RenewalConfirmed
  <2>8. CASE RenewalFails(e)
    <3>1. AtWork(e) /\ renewals[e] # <<>> /\ Settle(e, "over")
      BY <2>8 DEF RenewalFails, QueueOf
    <3>2. QED
      BY <2>8, <3>1, SettleStep DEF RenewalFails, TypeOK
  <2>9. CASE RenewalRefused(e)
    <3>1. NoRenewal \in Renewals
      BY DEF NoRenewal, Renewals, Time
    <3>2. QED
      BY <2>9, <3>1, EndStep DEF RenewalRefused, TypeOK
  <2>10. CASE End(e) /\ UNCHANGED renewal
    BY <2>10, EndStep DEF TypeOK
  <2>11. CASE HandBack(e)
    BY <2>11 DEF HandBack, client, TypeOK, Instants, QueueOf, AtWork
  <2>12. QED
    BY <1>4, <2>1, <2>2, <2>3, <2>4, <2>5, <2>6, <2>7, <2>8, <2>9, <2>10, <2>11
    DEF ExecutionStep, LeaseRunsOut, DeadlinePasses, Shutdown, Stop
<1>5. QED
  BY <1>1, <1>2, <1>3, <1>4 DEF Next

(* The clock, the lease and the timers keep their bounds, and neither the  *)
(* heartbeat nor ensureOwned ever waits for two renewals: the queue of     *)
(* renewAttempt calls behind the one that runs has a place for each.       *)
THEOREM RenewalsDoNotPileUp == Spec => []TypeOK
<1>1. QueueInv => TypeOK
  BY DEF QueueInv
<1>2. QED
  BY <1>1, InitQueueInv, QueueStep, PTL DEF Spec
=============================================================================
