------------------------------ MODULE LeaseClock ------------------------------
(***************************************************************************)
(* The attempt lease on a clock: the row's processingLeaseExpiresAt, and   *)
(* the AttemptLease object of each worker execution, which keeps its own   *)
(* idea of how long the lease is valid, renews it with a heartbeat, and    *)
(* cancels the work when it can no longer be sure.  AttemptOwnership       *)
(* abstracts all of this to a lease that may expire at any step.           *)
(*                                                                         *)
(* Time advances in ticks shared by the database and the workers: the code *)
(* compares database times only with database times and monotonic times    *)
(* only with monotonic times, so it relies on equal rates, not on equal    *)
(* readings.  A statement is sent, starts at the database (that is its     *)
(* now()), may wait there for the row lock, is evaluated (that is its      *)
(* clock_timestamp()), and is answered, each possibly much later.          *)
(* Timers are punctual: a due timer runs before time advances.  A renewal   *)
(* whose connection breaks was evaluated before the client saw the error,  *)
(* or never is.                                                            *)
(***************************************************************************)
EXTENDS Integers, Sequences, Functions

CONSTANTS
    Executions,      \* worker executions of one generation
    NoOwner,         \* NULL processingAttemptId
    Lease,           \* WORKER_LEASE_SECONDS
    RenewInterval,   \* renewIntervalMs
    MaxDuration,     \* WORKER_ATTEMPT_MAX_SECONDS
    MaxTime          \* bound on the clock; time itself has none

ASSUME NoOwnerAssumption == NoOwner \notin Executions
ASSUME DurationsAssumption ==
    /\ Lease \in Nat \ {0} /\ RenewInterval \in Nat \ {0} /\ MaxDuration \in Nat \ {0}
    /\ MaxTime \in Nat

VARIABLES
    now,
    owner,           \* processingAttemptId of the PROCESSING row
    leaseUntil,      \* processingLeaseExpiresAt
    phase,           \* where each execution is
    acquiredAt,      \* performance.now() before the acquisition was sent
    acquireStart,    \* when it started at the database; 0: it is not there
    validUntil,      \* AttemptLease.validUntil
    heartbeatAt,     \* when the heartbeat timer is due; Never: not armed
    renewals,        \* who asked for a renewal, the running one first
    renewal          \* the renewal that runs

client == <<phase, acquiredAt, validUntil, heartbeatAt, renewals>>
vars == <<now, owner, leaseUntil, client, acquireStart, renewal>>

Never == -1
Time == 0..MaxTime
Instants == 0..(MaxTime + Lease)

(* "acquiring": the UPDATE of acquireAttempt is sent; "waiting": it has     *)
(* started at the database and may wait there for the row; "acquired": it  *)
(* took the row and its answer is on the way.                              *)
(* "over": the signal aborted (deadline, lost or unconfirmed ownership,    *)
(* shutdown) or the lease was stopped; either way the timers are cleared   *)
(* and no renewal starts any more.                                         *)
Phases == {"idle", "acquiring", "waiting", "acquired", "working", "ensuring", "over"}

(* A renewal is asked for by the heartbeat or by ensureOwned.              *)
Askers == {"heartbeat", "ensureOwned"}

(* The UPDATE of renewAttempt that runs: when the client sent it, when it  *)
(* started at the database, and whether it found the row renewable.        *)
NoRenewal == [stage |-> "none", sentAt |-> 0, startedAt |-> 0, renewed |-> FALSE]
Renewals ==
    [stage : {"none", "sent", "started", "answered"}, sentAt : Time, startedAt : Time,
     renewed : BOOLEAN]

(* The types, and that neither asker ever waits for two renewals at once.  *)
TypeOK ==
    /\ now \in Time
    /\ owner \in Executions \cup {NoOwner}
    /\ leaseUntil \in Instants
    /\ phase \in [Executions -> Phases]
    /\ acquiredAt \in [Executions -> Time]
    /\ acquireStart \in [Executions -> Time]
    /\ validUntil \in [Executions -> Instants]
    /\ heartbeatAt \in [Executions -> (0..(MaxTime + RenewInterval)) \cup {Never}]
    /\ renewals \in [Executions -> Seq(Askers)]
    /\ \A e \in Executions : IsInjective(renewals[e])
    /\ renewal \in [Executions -> Renewals]

Init ==
    /\ now = 0
    /\ owner = NoOwner
    /\ leaseUntil = 0
    /\ phase = [e \in Executions |-> "idle"]
    /\ acquiredAt = [e \in Executions |-> 0]
    /\ acquireStart = [e \in Executions |-> 0]
    /\ validUntil = [e \in Executions |-> 0]
    /\ heartbeatAt = [e \in Executions |-> Never]
    /\ renewals = [e \in Executions |-> <<>>]
    /\ renewal = [e \in Executions |-> NoRenewal]

-----------------------------------------------------------------------------
(* The attempt's work goes on.                                             *)
AtWork(e) == phase[e] \in {"working", "ensuring"}

MoveTo(e, step) == phase' = [phase EXCEPT ![e] = step]

(* Timers due now run before the clock moves.                              *)
ValidityDue(e) == AtWork(e) /\ validUntil[e] <= now
DeadlineDue(e) == AtWork(e) /\ acquiredAt[e] + MaxDuration <= now
HeartbeatDue(e) == AtWork(e) /\ heartbeatAt[e] \in 0..now

Tick ==
    /\ now < MaxTime
    /\ \A e \in Executions : ~ValidityDue(e) /\ ~DeadlineDue(e) /\ ~HeartbeatDue(e)
    /\ now' = now + 1
    /\ UNCHANGED <<owner, leaseUntil, client, acquireStart, renewal>>

-----------------------------------------------------------------------------
(* Acquisition.                                                            *)

SendAcquisition(e) ==
    /\ phase[e] = "idle"
    /\ MoveTo(e, "acquiring")
    /\ acquiredAt' = [acquiredAt EXCEPT ![e] = now]
    /\ UNCHANGED <<now, owner, leaseUntil, acquireStart, validUntil, heartbeatAt, renewals, renewal>>

StartAcquisition(e) ==
    /\ phase[e] = "acquiring"
    /\ MoveTo(e, "waiting")
    /\ acquireStart' = [acquireStart EXCEPT ![e] = now]
    /\ UNCHANGED <<now, owner, leaseUntil, acquiredAt, validUntil, heartbeatAt, renewals, renewal>>

(* Expiry is judged with now(), the start of the statement.                *)
Takeable(e) == owner = NoOwner \/ leaseUntil <= acquireStart[e]

(* acquireAttempt takes the row.  The expiry is counted from the start of  *)
(* the statement too: what it waited for the row has elapsed already.      *)
Acquire(e) ==
    /\ phase[e] = "waiting"
    /\ Takeable(e)
    /\ owner' = e
    /\ leaseUntil' = acquireStart[e] + Lease
    /\ MoveTo(e, "acquired")
    /\ acquireStart' = [acquireStart EXCEPT ![e] = 0]
    /\ UNCHANGED <<now, acquiredAt, validUntil, heartbeatAt, renewals, renewal>>

(* The row is busy.  The execution ends, and as it leaves nothing behind   *)
(* that of the next delivery goes by its name.                             *)
AcquireNothing(e) ==
    /\ phase[e] = "waiting"
    /\ ~Takeable(e)
    /\ MoveTo(e, "idle")
    /\ acquiredAt' = [acquiredAt EXCEPT ![e] = 0]
    /\ acquireStart' = [acquireStart EXCEPT ![e] = 0]
    /\ UNCHANGED <<now, owner, leaseUntil, validUntil, heartbeatAt, renewals, renewal>>

(* Mutation: counted from the arrival of the answer.                       *)
FirstValidity_FromAnswer(e) == LET arrival == [x \in {e} |-> now] IN arrival[e] + Lease

(* Counted from before the request was sent.                               *)
FirstValidity(e) == acquiredAt[e] + Lease

(* The answer arrives: an AttemptLease is built and started.               *)
StartLease(e) ==
    /\ phase[e] = "acquired"
    /\ MoveTo(e, "working")
    /\ validUntil' = [validUntil EXCEPT ![e] = FirstValidity(e)]
    /\ heartbeatAt' = [heartbeatAt EXCEPT ![e] = now + RenewInterval]
    /\ UNCHANGED <<now, owner, leaseUntil, acquiredAt, acquireStart, renewals, renewal>>

-----------------------------------------------------------------------------
(* Renewal: renewAttempt, one at a time, each behind the one before.       *)

Ask(e, asker) == renewals' = [renewals EXCEPT ![e] = Append(@, asker)]

(* Mutation: the heartbeat timer keeps its period while a renewal waits.   *)
Heartbeat_Periodic(e) ==
    /\ HeartbeatDue(e)
    /\ Ask(e, "heartbeat")
    /\ heartbeatAt' = [heartbeatAt EXCEPT ![e] = now + RenewInterval]
    /\ UNCHANGED <<now, owner, leaseUntil, phase, acquiredAt, acquireStart, validUntil, renewal>>

(* The heartbeat timer fires; it is armed again when its renewal settled.  *)
Heartbeat(e) ==
    /\ HeartbeatDue(e)
    /\ Ask(e, "heartbeat")
    /\ heartbeatAt' = [heartbeatAt EXCEPT ![e] = Never]
    /\ UNCHANGED <<now, owner, leaseUntil, phase, acquiredAt, acquireStart, validUntil, renewal>>

(* ensureOwned asks for a renewal and waits for it.                        *)
EnsureOwned(e) ==
    /\ phase[e] = "working"
    /\ Ask(e, "ensureOwned")
    /\ MoveTo(e, "ensuring")
    /\ UNCHANGED <<now, owner, leaseUntil, acquiredAt, acquireStart, validUntil, heartbeatAt, renewal>>

SendRenewal(e) ==
    /\ AtWork(e)
    /\ renewals[e] # <<>>
    /\ renewal[e].stage = "none"
    /\ renewal' = [renewal EXCEPT ![e].stage = "sent", ![e].sentAt = now]
    /\ UNCHANGED <<now, owner, leaseUntil, client, acquireStart>>

StartRenewal(e) ==
    /\ renewal[e].stage = "sent"
    /\ renewal' = [renewal EXCEPT ![e].stage = "started", ![e].startedAt = now]
    /\ UNCHANGED <<now, owner, leaseUntil, client, acquireStart>>

(* Mutation: expiry judged with now(), the start of the statement.         *)
Renewable_AtStart(e) == owner = e /\ leaseUntil > renewal[e].startedAt

(* The condition is judged when the row lock is held, with                 *)
(* clock_timestamp().                                                      *)
Renewable(e) == owner = e /\ leaseUntil > now

(* The new expiry is counted from the start of the statement, now().       *)
EvaluateRenewal(e) ==
    /\ renewal[e].stage = "started"
    /\ leaseUntil' = IF Renewable(e) THEN renewal[e].startedAt + Lease ELSE leaseUntil
    /\ renewal' = [renewal EXCEPT ![e].stage = "answered", ![e].renewed = Renewable(e)]
    /\ UNCHANGED <<now, owner, client, acquireStart>>

LaterOf(s, t) == IF s > t THEN s ELSE t

(* Mutation: local validity counted from the arrival of the answer.        *)
RenewedValidity_FromAnswer(e) == LaterOf(validUntil[e], now + Lease)

RenewedValidity(e) == LaterOf(validUntil[e], renewal[e].sentAt + Lease)

(* The asker learns the outcome: the heartbeat arms its timer again,       *)
(* ensureOwned returns (or throws: outcome "over").                        *)
Settle(e, outcome) ==
    /\ renewal' = [renewal EXCEPT ![e] = NoRenewal]
    /\ renewals' = [renewals EXCEPT ![e] = Tail(@)]
    /\ IF Head(renewals[e]) = "heartbeat"
       THEN heartbeatAt' = [heartbeatAt EXCEPT ![e] = now + RenewInterval] /\ UNCHANGED phase
       ELSE MoveTo(e, outcome) /\ UNCHANGED heartbeatAt

RenewalConfirmed(e) ==
    /\ AtWork(e)
    /\ renewal[e].stage = "answered" /\ renewal[e].renewed
    /\ validUntil' = [validUntil EXCEPT ![e] = RenewedValidity(e)]
    /\ Settle(e, "working")
    /\ UNCHANGED <<now, owner, leaseUntil, acquiredAt, acquireStart>>

(* The call fails: nothing is confirmed, the heartbeat tries again after   *)
(* its interval, and ensureOwned throws into the attempt.                  *)
RenewalFails(e) ==
    /\ AtWork(e)
    /\ renewal[e].stage \in {"sent", "answered"}
    /\ Settle(e, "over")
    /\ UNCHANGED <<now, owner, leaseUntil, acquiredAt, acquireStart, validUntil>>

-----------------------------------------------------------------------------
(* The end of an attempt.  Its timers and queued renewals go; a renewal    *)
(* already at the database still runs, and its answer is ignored.          *)

End(e) ==
    /\ AtWork(e)
    /\ MoveTo(e, "over")
    /\ heartbeatAt' = [heartbeatAt EXCEPT ![e] = Never]
    /\ renewals' = [renewals EXCEPT ![e] = <<>>]
    /\ UNCHANGED <<now, owner, leaseUntil, acquiredAt, acquireStart, validUntil>>

RenewalRefused(e) ==
    /\ renewal[e].stage = "answered" /\ ~renewal[e].renewed
    /\ End(e)
    /\ renewal' = [renewal EXCEPT ![e] = NoRenewal]

LeaseRunsOut(e) == ValidityDue(e) /\ End(e) /\ UNCHANGED renewal

DeadlinePasses(e) == DeadlineDue(e) /\ End(e) /\ UNCHANGED renewal

(* The worker shuts down, or the work ended or failed: AttemptLease.stop.  *)
Stop(e) == phase[e] = "working" /\ End(e) /\ UNCHANGED renewal

Shutdown(e) == phase[e] = "ensuring" /\ End(e) /\ UNCHANGED renewal

(* The attempt hands the row back: released, failed or published, all of   *)
(* which require it to be the recorded owner and clear the lease.          *)
HandBack(e) ==
    /\ phase[e] = "over"
    /\ owner = e
    /\ owner' = NoOwner
    /\ leaseUntil' = 0
    /\ UNCHANGED <<now, client, acquireStart, renewal>>

(* The reconciler or a stranded-job handler clears an expired owner.       *)
RevokeExpired ==
    /\ owner # NoOwner
    /\ leaseUntil <= now
    /\ owner' = NoOwner
    /\ leaseUntil' = 0
    /\ UNCHANGED <<now, client, acquireStart, renewal>>

-----------------------------------------------------------------------------
ExecutionStep(e) ==
    \/ SendAcquisition(e) \/ StartAcquisition(e) \/ Acquire(e) \/ AcquireNothing(e)
    \/ StartLease(e)
    \/ Heartbeat(e) \/ EnsureOwned(e)
    \/ SendRenewal(e) \/ StartRenewal(e) \/ EvaluateRenewal(e)
    \/ RenewalConfirmed(e) \/ RenewalRefused(e) \/ RenewalFails(e)
    \/ LeaseRunsOut(e) \/ DeadlinePasses(e) \/ Shutdown(e)
    \/ Stop(e) \/ HandBack(e)

Next == Tick \/ RevokeExpired \/ \E e \in Executions : ExecutionStep(e)

Spec == Init /\ [][Next]_vars

-----------------------------------------------------------------------------
(* What the local clock claims the database confirms: while an attempt     *)
(* believes its lease valid, it is the recorded owner and the database's   *)
(* lease ends no earlier, however late requests and answers travel.        *)
ConfirmedMeansOwned ==
    \A e \in Executions :
        AtWork(e) /\ now < validUntil[e] => owner = e /\ validUntil[e] <= leaseUntil

(* Two executions never work at the same time, except in the very instant  *)
(* in which one of their leases ends.                                      *)
WorkIsExclusive ==
    \A e, f \in Executions :
        AtWork(e) /\ AtWork(f) /\ e # f => validUntil[e] <= now \/ validUntil[f] <= now

(* Once the database's clock has passed an owner's lease, no renewal makes *)
(* it valid again: not one that waited for the row, nor a delayed one.     *)
NeverResurrected ==
    [][owner # NoOwner /\ leaseUntil <= now /\ owner' = owner => leaseUntil' <= now]_vars
=============================================================================
