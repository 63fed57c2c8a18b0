---------------------------- MODULE InFlightCommit ----------------------------
(***************************************************************************)
(* AttemptOwnership with one more thing a database connection can do: break *)
(* while COMMIT is being processed.  The client sees an error at once; the  *)
(* server keeps the row locked and finishes the transaction a little later. *)
(* Until then a read on another connection returns the row as it was, and   *)
(* every update of it waits for the lock.                                   *)
(***************************************************************************)
EXTENDS AttemptOwnership

VARIABLE inFlight   \* attempt whose READY transaction is still committing

inFlightVars == <<vars, inFlight>>

InFlightInit == Init /\ inFlight = NoAttempt

(* The fenced UPDATE ran, COMMIT was sent, and the connection broke.       *)
BreakDuringCommit(e) ==
    /\ inFlight = NoAttempt
    /\ pc[e] = "publishing"
    /\ LiveOwner(e)
    /\ inFlight' = e
    /\ Throw(e, "retryable")
    /\ UNCHANGED <<row, objects, generation, uncleaned, janitor, deletion>>

(* The server completes the commit, and the row lock is released.          *)
CommitLands ==
    /\ inFlight # NoAttempt
    /\ RecordReady(inFlight)
    /\ inFlight' = NoAttempt
    /\ UNCHANGED <<objects, execution, uncleaned, janitor, deletion>>

(* Everyone else: reads go on, updates of the locked row wait.             *)
OtherStep ==
    /\ Next
    /\ inFlight # NoAttempt => UNCHANGED row
    /\ UNCHANGED inFlight

InFlightNext ==
    \/ \E e \in Executions : BreakDuringCommit(e)
    \/ CommitLands
    \/ OtherStep

InFlightSpec == InFlightInit /\ [][InFlightNext]_inFlightVars
=============================================================================
