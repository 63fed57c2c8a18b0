------------------------------ MODULE Publication ------------------------------
(***************************************************************************)
(* Visibility and publication date of one video: the owner's saves         *)
(* (VideosService.update), each a read, a write computed from that read    *)
(* and sometimes a second write, against the worker's READY transaction    *)
(* and the deletion.  Nothing but the video's row joins them: update locks *)
(* nothing and conditions its writes on the id alone.                      *)
(*                                                                         *)
(* Saves that set only title or description touch none of this state.      *)
(* Dates are drawn from a counter, as if no two were taken at one instant. *)
(***************************************************************************)
EXTENDS Naturals, VideoStatus

CONSTANT Saves           \* calls of update; each happens once

NoDate == 0

Visibilities == {"PRIVATE", "UNLISTED", "PUBLIC"}

VARIABLES
    status,              \* Video.status, or GONE
    visibility,          \* Video.visibility
    publishedAt,         \* Video.publishedAt
    now,                 \* last date that was taken
    save                 \* each save: its step, its input, the date it will write

vars == <<status, visibility, publishedAt, now, save>>

(* "write": the row was read; "date": PUBLIC is written, the date is not;  *)
(* "stopped": the API died in between.                                     *)
SaveStates ==
    [step : {"none", "over"}, input : Visibilities, date : {NoDate}]
        \cup [step : {"write"}, input : Visibilities, date : 0..now]
        \cup [step : {"date", "stopped"}, input : {"PUBLIC"}, date : {NoDate}]

TypeOK ==
    /\ status \in {"PROCESSING", "FAILED", "READY", "DELETING", GONE}
    /\ visibility \in Visibilities
    /\ now \in Nat
    /\ publishedAt \in 0..now
    /\ save \in [Saves -> SaveStates]

(* The upload was accepted with the visibility the draft was created with. *)
Init ==
    /\ status = "PROCESSING"
    /\ visibility \in Visibilities
    /\ publishedAt = NoDate
    /\ now = 0
    /\ save = [s \in Saves |-> [step |-> "none", input |-> "PRIVATE", date |-> NoDate]]

TakeDate == now' = now + 1

SaveBecomes(s, step, date) == save' = [save EXCEPT ![s] = [step |-> step, input |-> @.input, date |-> date]]

-----------------------------------------------------------------------------
(* VideosService.update.                                                   *)

(* Mutation: the status is not looked at.                                  *)
FirstPublication_AnyStatus(input) == input = "PUBLIC" /\ publishedAt = NoDate

(* The save computes a date of its own, from the row as it reads it.       *)
FirstPublication(input) ==
    status = "READY" /\ input = "PUBLIC" /\ publishedAt = NoDate

FindOwned(s, input) ==
    /\ save[s].step = "none"
    /\ status \notin {"DELETING", GONE}
    /\ IF FirstPublication(input) THEN TakeDate ELSE UNCHANGED now
    /\ save' = [save EXCEPT ![s] = [step |-> "write", input |-> input,
                                    date |-> IF FirstPublication(input) THEN now' ELSE publishedAt]]
    /\ UNCHANGED <<status, visibility, publishedAt>>

(* Mutation: the row that the write returned is not looked at.             *)
Undated_Never(s) == FALSE

(* Mutation: any READY video without a date is dated.                      *)
Undated_AnyVisibility(s) == status = "READY" /\ save[s].date = NoDate

(* The row that the write returned is public and has no date.              *)
Undated(s) == save[s].input = "PUBLIC" /\ status = "READY" /\ save[s].date = NoDate

WriteVisibility(s) ==
    /\ save[s].step = "write"
    /\ IF status = GONE
       THEN UNCHANGED <<visibility, publishedAt>> /\ SaveBecomes(s, "over", NoDate)
       ELSE /\ visibility' = save[s].input
            /\ publishedAt' = save[s].date
            /\ SaveBecomes(s, IF Undated(s) THEN "date" ELSE "over", NoDate)
    /\ UNCHANGED <<status, now>>

WriteDate(s) ==
    /\ save[s].step = "date"
    /\ IF status = GONE THEN UNCHANGED <<publishedAt, now>> ELSE TakeDate /\ publishedAt' = now'
    /\ SaveBecomes(s, "over", NoDate)
    /\ UNCHANGED <<status, visibility>>

(* The API dies, or the database refuses the second write.                 *)
Interrupted(s) ==
    /\ save[s].step = "date"
    /\ SaveBecomes(s, "stopped", NoDate)
    /\ UNCHANGED <<status, visibility, publishedAt, now>>

-----------------------------------------------------------------------------
(* The worker, the owner's retry, and the deletion.                        *)

(* Mutation: the transaction leaves the date alone.                        *)
DatedByCommit_Never == FALSE

DatedByCommit == visibility = "PUBLIC" /\ publishedAt = NoDate

(* The READY transaction holds the row's lock from its first statement.    *)
CommitReady ==
    /\ status = "PROCESSING"
    /\ status' = "READY"
    /\ IF DatedByCommit THEN TakeDate /\ publishedAt' = now' ELSE UNCHANGED <<publishedAt, now>>
    /\ UNCHANGED <<visibility, save>>

Fail == status = "PROCESSING" /\ status' = "FAILED" /\ UNCHANGED <<visibility, publishedAt, now, save>>

RetryProcessing == status = "FAILED" /\ status' = "PROCESSING" /\ UNCHANGED <<visibility, publishedAt, now, save>>

Delete ==
    /\ \/ status \notin {"DELETING", GONE} /\ status' = "DELETING"
       \/ status = "DELETING" /\ status' = GONE
    /\ UNCHANGED <<visibility, publishedAt, now, save>>

-----------------------------------------------------------------------------
UpdateStep(s) == WriteVisibility(s) \/ WriteDate(s)

Next ==
    \/ \E s \in Saves : UpdateStep(s) \/ Interrupted(s) \/ \E input \in Visibilities : FindOwned(s, input)
    \/ CommitReady \/ Fail \/ RetryProcessing \/ Delete

(* A handler that has begun goes on.                                       *)
Fairness == \A s \in Saves : WF_vars(UpdateStep(s))

Spec == Init /\ [][Next]_vars
FairSpec == Spec /\ Fairness

-----------------------------------------------------------------------------
(* What the listings ask for: home, search, channel, feeds and playlists.  *)
Listed == status = "READY" /\ visibility = "PUBLIC" /\ publishedAt # NoDate

(* What anybody may watch, given a link.                                   *)
Watchable == status = "READY" /\ visibility \in {"PUBLIC", "UNLISTED"}

LeftOut == Watchable /\ visibility = "PUBLIC" /\ ~Listed

(* A public video is missing from the listings only while a save is about  *)
(* to write its date, or because such a save died: the worker and the      *)
(* other saves, in whatever order, leave no video out.                     *)
LeftOutOnlyBySaves == LeftOut => \E s \in Saves : save[s].step \in {"date", "stopped"}

(* And it is listed, hidden or deleted in the end.                         *)
PublicIsListed == LeftOut ~> (~LeftOut \/ \E s \in Saves : save[s].step = "stopped")

(* No date is given, by whatever save, before there is something to watch. *)
DatedOnceReady == status \in {"PROCESSING", "FAILED"} => publishedAt = NoDate

(* "Republishing retains its original timestamp so visibility toggles      *)
(* cannot game feed recency": a date, once given, stays.                   *)
OriginalDateRetained == [][publishedAt # NoDate => publishedAt' = publishedAt]_vars
=============================================================================
