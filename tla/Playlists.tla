------------------------------ MODULE Playlists ------------------------------
(***************************************************************************)
(* The playlists of one owner, under concurrent API calls: two tabs, or a  *)
(* request that is repeated.  A call is a sequence of statements, each a   *)
(* step of its own; a transaction that commits with its last write writes  *)
(* in that step.  The transactions run READ COMMITTED, so a statement sees *)
(* what has been committed when it starts.  The advisory lock of addVideo  *)
(* is held until its transaction ends.                                     *)
(*                                                                         *)
(* Titles, descriptions, visibility and the dates are left out: no outcome *)
(* of a call depends on them (the CHECK constraint on Watch Later's        *)
(* visibility is never tested, since Watch Later cannot be updated).  A    *)
(* call may also fail at any step (a lost connection, a transaction chosen *)
(* to break a deadlock): its transaction is rolled back.  Whether a video  *)
(* is listed changes at any time and concerns one statement of addVideo    *)
(* only, so that statement may find either.                                *)
(***************************************************************************)
EXTENDS Integers, FiniteSets

CONSTANTS
    Calls,          \* concurrent requests
    None,           \* no caller, no list, no video
    Lists,          \* ids of playlist rows
    Videos,
    MaxItems,       \* MAX_PLAYLIST_ITEMS
    MaxPosition     \* bound on positions: no transaction goes on to a later one

ASSUME NoneAssumption == None \notin Calls /\ None \notin Lists /\ None \notin Videos
ASSUME VideosAssumption == IsFiniteSet(Videos)
ASSUME MaxItemsAssumption == MaxItems \in Nat \ {0}
ASSUME MaxPositionAssumption == MaxPosition \in Nat

VARIABLES
    row,         \* the Playlist row of each id
    position,    \* position[l][v] of the PlaylistItem row; 0: no row
    exists,      \* videos that have a row
    lock,        \* who holds pg_advisory_xact_lock(l)
    call         \* the requests

vars == <<row, position, exists, lock, call>>

(* An id is used for one row only.                                         *)
RowStates == {"unused", "STANDARD", "WATCH_LATER", "deleted"}

Ops == {"create", "mine", "update", "delete", "addVideo", "removeVideo"}

(* The statement a call issues next.                                       *)
Steps == {"idle", "create", "findWatchLater", "createWatchLater", "findWatchLaterAgain",
          "findOwned", "write", "findListed", "lock", "findExisting", "count", "maximum",
          "insert"}

(* "gone": a row vanished between two statements of the call.              *)
(* "conflict": a unique constraint failed, and the caller gets a 500.      *)
Outcomes == {"none", "ok", "not found", "immutable", "full", "gone", "conflict", "failed"}

CallRecords ==
    [op : Ops \cup {None}, list : Lists \cup {None}, video : Videos \cup {None},
     step : Steps, maximum : Nat, outcome : Outcomes]

TypeOK ==
    /\ row \in [Lists -> RowStates]
    /\ position \in [Lists -> [Videos -> Nat]]
    /\ exists \subseteq Videos
    /\ lock \in [Lists -> Calls \cup {None}]
    /\ call \in [Calls -> CallRecords]

Live(l) == row[l] \in {"STANDARD", "WATCH_LATER"}
Members(l) == {v \in Videos : position[l][v] > 0}

(* A request slot between two requests: how the last one was answered.     *)
Idle(outcome) ==
    [op |-> None, list |-> None, video |-> None, step |-> "idle", maximum |-> 0,
     outcome |-> outcome]

Empty == [v \in Videos |-> 0]

Init ==
    /\ row \in [Lists -> {"unused", "STANDARD"}]
    /\ position = [l \in Lists |-> Empty]
    /\ exists = Videos
    /\ lock = [l \in Lists |-> None]
    /\ call = [c \in Calls |-> Idle("none")]

-----------------------------------------------------------------------------
At(c, op, step) == call[c].op = op /\ call[c].step = step

Goto(c, step) == call' = [call EXCEPT ![c].step = step]

(* The request is answered; its transaction, if any, has ended.            *)
Answer(c, outcome) == call' = [call EXCEPT ![c] = Idle(outcome)]

Request(op, l, v, first) ==
    [op |-> op, list |-> l, video |-> v, step |-> first, maximum |-> 0, outcome |-> "none"]

Requests ==
    {Request("create", None, None, "create"), Request("mine", None, None, "findWatchLater")}
    \cup {Request(op, l, None, "findOwned") : op \in {"update", "delete"}, l \in Lists}
    \cup {Request(op, l, v, "findOwned") :
              op \in {"addVideo", "removeVideo"}, l \in Lists, v \in Videos}

Begin(c) ==
    /\ call[c].step = "idle"
    /\ \E request \in Requests : call' = [call EXCEPT ![c] = request]
    /\ UNCHANGED <<row, position, exists, lock>>

Fails(c) ==
    /\ call[c].step # "idle"
    /\ Answer(c, "failed")
    /\ lock' = [l \in Lists |-> IF lock[l] = c THEN None ELSE lock[l]]
    /\ UNCHANGED <<row, position, exists>>

(* create: an insert with a fresh id.                                      *)
Create(c) ==
    /\ call[c].step = "create"
    /\ \E l \in Lists : row[l] = "unused" /\ row' = [row EXCEPT ![l] = "STANDARD"]
    /\ Answer(c, "ok")
    /\ UNCHANGED <<position, exists, lock>>

-----------------------------------------------------------------------------
(* ensureWatchLater, on behalf of mine.                                    *)

HasWatchLater == \E l \in Lists : row[l] = "WATCH_LATER"

FindWatchLater(c) ==
    /\ call[c].step = "findWatchLater"
    /\ IF HasWatchLater THEN Answer(c, "ok") ELSE Goto(c, "createWatchLater")
    /\ UNCHANGED <<row, position, exists, lock>>

(* Mutation: a lost race for the one Watch Later list is not recovered.    *)
LostRace_Reported(c) == Answer(c, "conflict")

(* The unique index refused the insert: another call created the list.     *)
LostRace(c) == Goto(c, "findWatchLaterAgain")

CreateWatchLater(c) ==
    /\ call[c].step = "createWatchLater"
    /\ IF HasWatchLater
       THEN LostRace(c) /\ UNCHANGED row
       ELSE /\ \E l \in Lists : row[l] = "unused" /\ row' = [row EXCEPT ![l] = "WATCH_LATER"]
            /\ Answer(c, "ok")
    /\ UNCHANGED <<position, exists, lock>>

FindWatchLaterAgain(c) ==
    /\ call[c].step = "findWatchLaterAgain"
    /\ Answer(c, IF HasWatchLater THEN "ok" ELSE "gone")
    /\ UNCHANGED <<row, position, exists, lock>>

-----------------------------------------------------------------------------
(* The calls on one playlist start with findOwned; update and delete also  *)
(* refuse Watch Later.                                                     *)
FindOwned(c) ==
    /\ call[c].step = "findOwned"
    /\ LET l == call[c].list op == call[c].op IN
          CASE ~Live(l) -> Answer(c, "not found")
            [] Live(l) /\ op \in {"update", "delete"} /\ row[l] = "WATCH_LATER" ->
                  Answer(c, "immutable")
            [] Live(l) /\ op = "addVideo" -> Goto(c, "findListed")
            [] OTHER -> Goto(c, "write")
    /\ UNCHANGED <<row, position, exists, lock>>

(* update: what it writes is not modelled, but the row may be gone.        *)
Update(c) ==
    /\ At(c, "update", "write")
    /\ Answer(c, IF Live(call[c].list) THEN "ok" ELSE "gone")
    /\ UNCHANGED <<row, position, exists, lock>>

(* delete: the items go with the row.                                      *)
Delete(c) ==
    /\ At(c, "delete", "write")
    /\ LET l == call[c].list IN
          IF Live(l)
          THEN /\ row' = [row EXCEPT ![l] = "deleted"]
               /\ position' = [position EXCEPT ![l] = Empty]
               /\ Answer(c, "ok")
          ELSE Answer(c, "gone") /\ UNCHANGED <<row, position>>
    /\ UNCHANGED <<exists, lock>>

(* removeVideo: one transaction, and no advisory lock.                     *)
RemoveVideo(c) ==
    /\ At(c, "removeVideo", "write")
    /\ LET l == call[c].list IN
          IF Live(l)
          THEN /\ position' = [position EXCEPT ![l][call[c].video] = 0]
               /\ Answer(c, "ok")
          ELSE Answer(c, "gone") /\ UNCHANGED position
    /\ UNCHANGED <<row, exists, lock>>

-----------------------------------------------------------------------------
(* addVideo.                                                               *)

FindListed(c) ==
    /\ call[c].step = "findListed"
    /\ \/ call[c].video \in exists /\ Goto(c, "lock")
       \/ Answer(c, "not found")
    /\ UNCHANGED <<row, position, exists, lock>>

Unlocked(c) == lock[call[c].list] = None

Lock(c) ==
    /\ call[c].step = "lock"
    /\ Unlocked(c)
    /\ lock' = [lock EXCEPT ![call[c].list] = c]
    /\ Goto(c, "findExisting")
    /\ UNCHANGED <<row, position, exists>>

(* The transaction ends, and the lock goes with it.                        *)
Finish(c, outcome) ==
    /\ Answer(c, outcome)
    /\ lock' = [lock EXCEPT ![call[c].list] = None]

FindExisting(c) ==
    /\ call[c].step = "findExisting"
    /\ IF call[c].video \in Members(call[c].list)
       THEN Finish(c, "ok")
       ELSE Goto(c, "count") /\ UNCHANGED lock
    /\ UNCHANGED <<row, position, exists>>

HasRoom(l) == Cardinality(Members(l)) < MaxItems

Count(c) ==
    /\ call[c].step = "count"
    /\ IF HasRoom(call[c].list)
       THEN Goto(c, "maximum") /\ UNCHANGED lock
       ELSE Finish(c, "full")
    /\ UNCHANGED <<row, position, exists>>

Used(l) == {0} \cup {position[l][v] : v \in Videos}

IsMaximum(l, m) == \A k \in Used(l) : k <= m

Maximum(c) ==
    /\ call[c].step = "maximum"
    /\ \E m \in Used(call[c].list) :
          /\ m < MaxPosition /\ IsMaximum(call[c].list, m)
          /\ call' = [call EXCEPT ![c].step = "insert", ![c].maximum = m]
    /\ UNCHANGED <<row, position, exists, lock>>

(* The item is inserted, the list is touched, and the transaction commits. *)
(* The insert fails if a row it refers to is gone, or if the list already  *)
(* has the video or the position.                                          *)
Insert(c) ==
    /\ call[c].step = "insert"
    /\ LET l == call[c].list  v == call[c].video  p == call[c].maximum + 1 IN
          CASE ~Live(l) \/ v \notin exists -> Finish(c, "gone") /\ UNCHANGED position
            [] Live(l) /\ v \in exists /\ (v \in Members(l) \/ p \in Used(l)) ->
                  Finish(c, "conflict") /\ UNCHANGED position
            [] OTHER -> Finish(c, "ok") /\ position' = [position EXCEPT ![l][v] = p]
    /\ UNCHANGED <<row, exists>>

-----------------------------------------------------------------------------
(* A video is deleted, and its items with it.                              *)
DeleteVideo(v) ==
    /\ v \in exists
    /\ exists' = exists \ {v}
    /\ position' = [l \in Lists |-> [position[l] EXCEPT ![v] = 0]]
    /\ UNCHANGED <<row, lock, call>>

CallStep(c) ==
    \/ Begin(c) \/ Fails(c)
    \/ Create(c) \/ FindWatchLater(c) \/ CreateWatchLater(c) \/ FindWatchLaterAgain(c)
    \/ FindOwned(c) \/ Update(c) \/ Delete(c) \/ RemoveVideo(c)
    \/ FindListed(c) \/ Lock(c) \/ FindExisting(c) \/ Count(c) \/ Maximum(c) \/ Insert(c)

Next ==
    \/ \E c \in Calls : CallStep(c)
    \/ \E v \in Videos : DeleteVideo(v)

Spec == Init /\ [][Next]_vars

-----------------------------------------------------------------------------
(* However many calls add to a list at once, it never holds more than the  *)
(* limit.                                                                  *)
LimitHolds == \A l \in Lists : Cardinality(Members(l)) <= MaxItems

(* No caller gets a constraint violation for what other callers do at the  *)
(* same time: positions and memberships do not clash, the race for the one *)
(* Watch Later list is settled, and a row goes missing under a call only   *)
(* where somebody deleted that list or that video.                         *)
NoCallerGetsConflict ==
    [][\A c \in Calls :
          call[c].step # "idle" /\ call'[c].step = "idle" =>
              /\ call'[c].outcome # "conflict"
              /\ call'[c].outcome = "gone" =>
                    /\ call[c].op # "mine"
                    /\ row[call[c].list] = "deleted" \/ call[c].video \notin exists \cup {None}
      ]_vars

(* Mutation: the items are read in the opposite order.                     *)
Line_Backwards(l) ==
    {p \in Members(l) \X Members(l) : position[l][p[1]] >= position[l][p[2]]}

(* get: the items of a list, in order.                                     *)
Line(l) == {p \in Members(l) \X Members(l) : position[l][p[1]] <= position[l][p[2]]}

(* Numbered rows behave as one line of videos per list (Shelf): a new      *)
(* video is behind every other, a removal moves nobody.                    *)
Promise == INSTANCE Shelf WITH order <- [l \in Lists |-> Line(l)], Limit <- MaxItems

ImplementsShelf == Promise!Spec
=============================================================================
