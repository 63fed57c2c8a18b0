-------------------------- MODULE Publication_proofs --------------------------
(***************************************************************************)
(* Proofs about Publication, for any set of saves.                         *)
(***************************************************************************)
EXTENDS Publication, TLAPS

(* A save that read a date, or took one, met a READY video, and READY is   *)
(* never left but for the deletion: the strengthening of DatedOnceReady.   *)
DatesComeFromReady ==
    status \in {"PROCESSING", "FAILED"} =>
        /\ publishedAt = NoDate
        /\ \A s \in Saves : save[s].date = NoDate /\ save[s].step \notin {"date", "stopped"}

IInv == TypeOK /\ DatesComeFromReady /\ LeftOutOnlyBySaves

(* A later clock only widens the states a save may be in.                  *)
LEMMA SaveStatesGrow ==
    ASSUME now \in Nat, now' \in Nat, now <= now', NEW x \in SaveStates
    PROVE  x \in SaveStates'
<1>1. CASE x \in [step : {"write"}, input : Visibilities, date : 0..now]
    <2>1. x.date \in 0..now' BY <1>1
    <2>2. x = [step |-> x.step, input |-> x.input, date |-> x.date] BY <1>1
    <2>3. QED BY <1>1, <2>1, <2>2 DEF SaveStates
<1>2. CASE x \notin [step : {"write"}, input : Visibilities, date : 0..now]
    BY <1>2 DEF SaveStates
<1>3. QED BY <1>1, <1>2

(* The initial states satisfy the invariant.                               *)
LEMMA InitIInv == Init => IInv
<1> SUFFICES ASSUME Init PROVE IInv
    OBVIOUS
<1>1. TypeOK BY DEF Init, TypeOK, SaveStates, Visibilities, NoDate
<1>2. DatesComeFromReady BY DEF Init, DatesComeFromReady
<1>3. LeftOutOnlyBySaves BY DEF Init, LeftOutOnlyBySaves, LeftOut, Watchable
<1>4. QED BY <1>1, <1>2, <1>3 DEF IInv

(* A save that reads the row keeps the invariant.                          *)
LEMMA FindOwnedIInv ==
    ASSUME IInv, NEW s \in Saves, NEW input \in Visibilities, FindOwned(s, input)
    PROVE  IInv'
<1> USE DEF IInv
<1> DEFINE first == FirstPublication(input)
           read == [step |-> "write", input |-> input, date |-> IF first THEN now' ELSE publishedAt]
<1>1. now' \in Nat /\ now <= now' /\ publishedAt \in 0..now' /\ (first => now' \in 0..now')
    BY DEF FindOwned, TakeDate, TypeOK
<1>2. save' = [save EXCEPT ![s] = read] /\ save[s].step = "none"
    BY DEF FindOwned
<1>3. read \in SaveStates'
    BY <1>1 DEF SaveStates
<1>4. save' \in [Saves -> SaveStates']
    BY <1>1, <1>2, <1>3, SaveStatesGrow DEF TypeOK
<1>5. TypeOK'
    BY <1>1, <1>4 DEF TypeOK, FindOwned
<1>6. DatesComeFromReady'
    BY <1>2 DEF DatesComeFromReady, FindOwned, FirstPublication
<1>7. LeftOutOnlyBySaves'
    BY <1>2 DEF LeftOutOnlyBySaves, LeftOut, Listed, Watchable, FindOwned
<1>8. QED BY <1>5, <1>6, <1>7

(* What one save becomes leaves the others as they were.                   *)
LEMMA SavesKept ==
    ASSUME IInv, NEW s \in Saves, NEW x, x \in SaveStates',
           now' \in Nat, now <= now', save' = [save EXCEPT ![s] = x]
    PROVE  save' \in [Saves -> SaveStates'] /\ save'[s] = x
<1> USE DEF IInv
<1>1. ASSUME NEW t \in Saves, t # s PROVE save'[t] \in SaveStates'
    BY <1>1, SaveStatesGrow DEF TypeOK
<1>2. QED BY <1>1 DEF TypeOK

(* A save that writes the visibility keeps the invariant: a public row     *)
(* that is left without a date is noticed in what the write returns.       *)
LEMMA WriteVisibilityIInv ==
    ASSUME IInv, NEW s \in Saves, WriteVisibility(s)
    PROVE  IInv'
<1> USE DEF IInv
<1> DEFINE step == IF status # GONE /\ Undated(s) THEN "date" ELSE "over"
           x == [step |-> step, input |-> save[s].input, date |-> NoDate]
<1>1. /\ save[s] \in SaveStates /\ save[s].step = "write"
      /\ save[s].input \in Visibilities /\ save[s].date \in 0..now
      /\ now' \in Nat /\ now <= now' /\ now' = now /\ status' = status
    BY DEF WriteVisibility, TypeOK, SaveStates, NoDate
<1>2. save' = [save EXCEPT ![s] = x]
    BY DEF WriteVisibility, SaveBecomes
<1>3. x \in SaveStates'
    BY <1>1 DEF SaveStates, Undated
<1>4. save' \in [Saves -> SaveStates'] /\ save'[s] = x
    <2> HIDE DEF x
    <2>1. QED BY <1>1, <1>2, <1>3, SavesKept
<1>5. TypeOK'
    BY <1>1, <1>4 DEF TypeOK, WriteVisibility
<1>6. DatesComeFromReady'
    <2> SUFFICES ASSUME status \in {"PROCESSING", "FAILED"} PROVE DatesComeFromReady'
        BY <1>1 DEF DatesComeFromReady
    <2>1. step = "over" BY DEF Undated
    <2>2. publishedAt' = NoDate BY DEF WriteVisibility, DatesComeFromReady, GONE
    <2>3. QED BY <1>2, <1>4, <2>1, <2>2 DEF DatesComeFromReady, TypeOK
<1>7. LeftOutOnlyBySaves'
    <2>1. CASE status = GONE
        BY <1>1, <2>1 DEF LeftOutOnlyBySaves, LeftOut, Watchable, GONE
    <2>2. CASE status # GONE /\ Undated(s)
        <3>1. save'[s].step = "date" BY <1>4, <2>2
        <3>2. QED BY <3>1 DEF LeftOutOnlyBySaves
    <2>3. CASE status # GONE /\ ~Undated(s)
        BY <1>1, <2>3 DEF WriteVisibility, Undated, LeftOutOnlyBySaves, LeftOut, Listed, Watchable
    <2>4. QED BY <2>1, <2>2, <2>3
<1>8. QED BY <1>5, <1>6, <1>7

(* A save that writes its date keeps the invariant.                        *)
LEMMA WriteDateIInv ==
    ASSUME IInv, NEW s \in Saves, WriteDate(s)
    PROVE  IInv'
<1> USE DEF IInv
<1> DEFINE x == [step |-> "over", input |-> save[s].input, date |-> NoDate]
<1>1. /\ save[s] \in SaveStates /\ save[s].step = "date" /\ save[s].input = "PUBLIC"
      /\ now' \in Nat /\ now <= now' /\ status' = status /\ visibility' = visibility
    BY DEF WriteDate, TakeDate, TypeOK, SaveStates
<1>2. save' = [save EXCEPT ![s] = x]
    BY DEF WriteDate, SaveBecomes
<1>3. x \in SaveStates'
    BY <1>1 DEF SaveStates, Visibilities
<1>4. save' \in [Saves -> SaveStates'] /\ save'[s] = x
    <2> HIDE DEF x
    <2>1. QED BY <1>1, <1>2, <1>3, SavesKept
<1>5. publishedAt' \in 0..now' /\ (status # GONE => publishedAt' # NoDate)
    BY DEF WriteDate, TakeDate, TypeOK, NoDate
<1>6. TypeOK'
    BY <1>1, <1>4, <1>5 DEF TypeOK
<1>7. DatesComeFromReady'
    BY <1>1 DEF DatesComeFromReady
<1>8. LeftOutOnlyBySaves'
    BY <1>1, <1>5 DEF LeftOutOnlyBySaves, LeftOut, Listed, Watchable, GONE
<1>9. QED BY <1>6, <1>7, <1>8

(* A save that dies before it writes its date keeps the invariant.         *)
LEMMA InterruptedIInv ==
    ASSUME IInv, NEW s \in Saves, Interrupted(s)
    PROVE  IInv'
<1> USE DEF IInv
<1> DEFINE x == [step |-> "stopped", input |-> save[s].input, date |-> NoDate]
<1>1. /\ save[s] \in SaveStates /\ save[s].step = "date" /\ save[s].input = "PUBLIC"
      /\ now' \in Nat /\ now <= now' /\ UNCHANGED <<status, visibility, publishedAt, now>>
    BY DEF Interrupted, TypeOK, SaveStates
<1>2. save' = [save EXCEPT ![s] = x]
    BY DEF Interrupted, SaveBecomes
<1>3. x \in SaveStates'
    BY <1>1 DEF SaveStates
<1>4. save' \in [Saves -> SaveStates'] /\ save'[s] = x
    <2> HIDE DEF x
    <2>1. QED BY <1>1, <1>2, <1>3, SavesKept
<1>5. TypeOK'
    BY <1>1, <1>4 DEF TypeOK
<1>6. DatesComeFromReady'
    BY <1>1 DEF DatesComeFromReady
<1>7. LeftOutOnlyBySaves'
    BY <1>1, <1>4 DEF LeftOutOnlyBySaves
<1>8. QED BY <1>5, <1>6, <1>7

(* The worker's commit, a failure, a retry and the deletion keep it.       *)
LEMMA LifecycleIInv ==
    ASSUME IInv, CommitReady \/ Fail \/ RetryProcessing \/ Delete
    PROVE  IInv'
<1> USE DEF IInv
<1>1. now \in Nat /\ now' \in Nat /\ now <= now' /\ save' = save /\ visibility' = visibility
    BY DEF CommitReady, Fail, RetryProcessing, Delete, TakeDate, TypeOK
<1>2. save' \in [Saves -> SaveStates']
    BY <1>1, SaveStatesGrow DEF TypeOK
<1>3. TypeOK'
    BY <1>1, <1>2 DEF TypeOK, CommitReady, Fail, RetryProcessing, Delete, TakeDate, GONE
<1>4. DatesComeFromReady'
    BY <1>1 DEF DatesComeFromReady, CommitReady, Fail, RetryProcessing, Delete, GONE
<1>5. LeftOutOnlyBySaves'
    <2>1. CASE CommitReady
        BY <1>1, <2>1 DEF CommitReady, DatedByCommit, TakeDate, NoDate, LeftOutOnlyBySaves, LeftOut, Listed, Watchable
    <2>2. CASE Fail \/ RetryProcessing \/ Delete
        BY <1>1, <2>2 DEF Fail, RetryProcessing, Delete, LeftOutOnlyBySaves, LeftOut, Watchable, GONE
    <2>3. QED BY <2>1, <2>2
<1>6. QED BY <1>3, <1>4, <1>5

(* Every step keeps the invariant.                                         *)
LEMMA NextIInv == IInv /\ [Next]_vars => IInv'
<1> SUFFICES ASSUME IInv, [Next]_vars PROVE IInv'
    OBVIOUS
<1>1. ASSUME NEW s \in Saves, NEW input \in Visibilities, FindOwned(s, input) PROVE IInv'
    BY <1>1, FindOwnedIInv
<1>2. ASSUME NEW s \in Saves, WriteVisibility(s) PROVE IInv'
    BY <1>2, WriteVisibilityIInv
<1>3. ASSUME NEW s \in Saves, WriteDate(s) \/ Interrupted(s) PROVE IInv'
    BY <1>3, WriteDateIInv, InterruptedIInv
<1>4. ASSUME CommitReady \/ Fail \/ RetryProcessing \/ Delete PROVE IInv'
    BY <1>4, LifecycleIInv
<1>5. CASE UNCHANGED vars
    BY <1>5 DEF vars, IInv, TypeOK, SaveStates, DatesComeFromReady, LeftOutOnlyBySaves, LeftOut, Listed, Watchable
<1>6. QED BY <1>1, <1>2, <1>3, <1>4, <1>5 DEF Next, UpdateStep

(* VideosService.update and the READY transaction together: a public video *)
(* is missing from the listings only for the time between the two writes   *)
(* of a save, or because a save died there.                                *)
THEOREM OnlySavesLeaveOut == Spec => []LeftOutOnlyBySaves
<1>1. Spec => []IInv
    BY InitIInv, NextIInv, PTL DEF Spec
<1>2. IInv => LeftOutOnlyBySaves
    BY DEF IInv
<1>3. QED BY <1>1, <1>2, PTL

(* No video has a publication date before there is something to watch.     *)
THEOREM NoEarlyDates == Spec => []DatedOnceReady
<1>1. Spec => []IInv
    BY InitIInv, NextIInv, PTL DEF Spec
<1>2. IInv => DatedOnceReady
    BY DEF IInv, DatesComeFromReady, DatedOnceReady
<1>3. QED BY <1>1, <1>2, PTL

(* Every variable keeps its type: the row, the saves and the clock.        *)
THEOREM TypeCorrect == Spec => []TypeOK
<1>1. Spec => []IInv
    BY InitIInv, NextIInv, PTL DEF Spec
<1>2. IInv => TypeOK
    BY DEF IInv
<1>3. QED BY <1>1, <1>2, PTL
=============================================================================
