--------------------------- MODULE Playlists_proofs ---------------------------
(***************************************************************************)
(* Proofs, for any number of concurrent calls, lists and videos and for    *)
(* every limit: a list never holds more than the limit, no caller gets a   *)
(* conflict, and the rows implement Shelf.                                 *)
(*                                                                         *)
(* What carries them is what a transaction that holds the advisory lock    *)
(* has found and may still rely on when it inserts: the video is not in    *)
(* the list, there is room, and no position is beyond the one it read.     *)
(* Only the lock's owner adds to the list, and what the others do,         *)
(* removing, makes none of the three false.                                *)
(***************************************************************************)
EXTENDS Playlists, FiniteSetTheorems, TLAPS

(* The transaction of addVideo, after its first statement.                 *)
InTransaction == {"findExisting", "count", "maximum", "insert"}
AddSteps == {"findListed", "lock"} \cup InTransaction

(* Which statements belong to which call, and what they are about.         *)
ProgramInv ==
    \A c \in Calls :
        /\ call[c].step \in AddSteps =>
              call[c].op = "addVideo" /\ call[c].list \in Lists /\ call[c].video \in Videos
        /\ call[c].step \in {"findOwned", "write"} =>
              /\ call[c].op \in {"update", "delete", "addVideo", "removeVideo"}
              /\ call[c].list \in Lists
              /\ call[c].op \in {"addVideo", "removeVideo"} => call[c].video \in Videos
        /\ call[c].step \in {"findWatchLater", "createWatchLater", "findWatchLaterAgain"} =>
              call[c].op = "mine"
        /\ call[c].step \in {"write", "insert"} \cup AddSteps => row[call[c].list] # "unused"

(* The list a lost race refers to stays: no call deletes Watch Later.      *)
WatchLaterInv ==
    \A c \in Calls :
        /\ call[c].step = "findWatchLaterAgain" => HasWatchLater
        /\ call[c].step = "write" /\ call[c].op = "delete" =>
              row[call[c].list] # "WATCH_LATER"

LockInv == \A c \in Calls : call[c].step \in InTransaction => lock[call[c].list] = c

(* What the lock's owner has found.                                        *)
Found(c, l) ==
    /\ call[c].step \in {"count", "maximum", "insert"} => call[c].video \notin Members(l)
    /\ call[c].step \in {"maximum", "insert"} => HasRoom(l)
    /\ call[c].step = "insert" => \A v \in Videos : position[l][v] <= call[c].maximum

FoundInv == \A c \in Calls, l \in Lists : call[c].list = l => Found(c, l)

IInv == TypeOK /\ ProgramInv /\ WatchLaterInv /\ LockInv /\ FoundInv /\ LimitHolds

USE NoneAssumption, VideosAssumption, MaxItemsAssumption

-----------------------------------------------------------------------------
(* Members are finitely many, so counting them makes sense.                *)
LEMMA MembersFinite ==
  \A l \in Lists : IsFiniteSet(Members(l)) /\ Cardinality(Members(l)) \in Nat
<1> TAKE l \in Lists
<1>1. Members(l) \subseteq Videos
  BY DEF Members
<1> QED
  BY <1>1, FS_Subset, FS_CardinalityType

(* Rows that change position or go leave no more members than before.      *)
LEMMA FewerMembers ==
  ASSUME NEW l \in Lists, Members(l)' \subseteq Members(l)
  PROVE  /\ Cardinality(Members(l))' <= Cardinality(Members(l))
         /\ Cardinality(Members(l))' \in Nat
<1>1. IsFiniteSet(Members(l))
  BY MembersFinite
<1> QED
  BY <1>1, FS_Subset, FS_CardinalityType

(* A step that only removes items keeps the limit, and what the lock's     *)
(* owners have found.                                                      *)
LEMMA RemovalKeeps ==
  ASSUME IInv, TypeOK', ProgramInv',
         \A l \in Lists, v \in Videos : position'[l][v] \in {0, position[l][v]},
         \A c \in Calls : call'[c].step \in {"count", "maximum", "insert"} => call'[c] = call[c]
  PROVE  FoundInv' /\ LimitHolds'
<1> USE DEF IInv, TypeOK
<1>1. \A l \in Lists : Members(l)' \subseteq Members(l)
  BY DEF Members
<1>2. \A l \in Lists : Cardinality(Members(l))' <= Cardinality(Members(l))
                       /\ Cardinality(Members(l))' \in Nat
  BY <1>1, FewerMembers
<1>3. LimitHolds'
  BY <1>2, MembersFinite DEF LimitHolds
<1>4. FoundInv'
  <2> SUFFICES ASSUME NEW c \in Calls, NEW l \in Lists, call'[c].list = l
               PROVE  Found(c, l)'
    BY DEF FoundInv
  <2>1. CASE call'[c].step \notin {"count", "maximum", "insert"}
    BY <2>1 DEF Found
  <2>2. CASE call'[c].step \in {"count", "maximum", "insert"}
    <3>1. call'[c] = call[c] /\ Found(c, l)
      BY <2>2 DEF FoundInv
    <3>2. call[c].step \in {"maximum", "insert"} => HasRoom(l)'
      BY <3>1, <1>2, MembersFinite DEF Found, HasRoom
    <3>3. ASSUME call[c].step = "insert", NEW v \in Videos
          PROVE  position'[l][v] <= call[c].maximum
      <4>1. position[l][v] <= call[c].maximum /\ position[l][v] \in Nat /\ call[c].maximum \in Nat
        BY <3>1, <3>3 DEF Found, CallRecords
      <4>2. position'[l][v] \in {0, position[l][v]}
        OBVIOUS
      <4> QED
        BY <4>1, <4>2
    <3> QED
      BY <3>1, <3>2, <3>3, <1>1 DEF Found
  <2> QED
    BY <2>1, <2>2
<1> QED
  BY <1>3, <1>4

-----------------------------------------------------------------------------
(* How a call moves on, and that nobody else's call does.                  *)
Moved(c) == call' \in [Calls -> CallRecords] /\ \A d \in Calls \ {c} : call'[d] = call[d]

LEMMA AnswerMoves ==
  ASSUME TypeOK, NEW c \in Calls, NEW o \in Outcomes, Answer(c, o)
  PROVE  Moved(c) /\ call'[c] = Idle(o) /\ call'[c].step = "idle"
<1>1. Idle(o) \in CallRecords /\ Idle(o).step = "idle"
  BY DEF Idle, CallRecords, Steps
<1> QED
  BY <1>1 DEF Answer, TypeOK, Moved

LEMMA GotoMoves ==
  ASSUME TypeOK, NEW c \in Calls, NEW s \in Steps, Goto(c, s)
  PROVE  /\ Moved(c)
         /\ call'[c].step = s /\ call'[c].op = call[c].op /\ call'[c].list = call[c].list
         /\ call'[c].video = call[c].video /\ call'[c].maximum = call[c].maximum
<1>1. [call[c] EXCEPT !.step = s] \in CallRecords
  BY DEF TypeOK, CallRecords
<1> QED
  BY <1>1 DEF Goto, TypeOK, Moved, CallRecords

LEMMA FinishMoves ==
  ASSUME TypeOK, NEW c \in Calls, NEW o \in Outcomes, Finish(c, o),
         call[c].list \in Lists
  PROVE  /\ Moved(c) /\ call'[c] = Idle(o) /\ call'[c].step = "idle"
         /\ lock' \in [Lists -> Calls \cup {None}]
         /\ \A l \in Lists \ {call[c].list} : lock'[l] = lock[l]
<1>1. Answer(c, o) /\ lock' = [lock EXCEPT ![call[c].list] = None]
  BY DEF Finish
<1> QED
  BY <1>1, AnswerMoves DEF TypeOK

(* A call that is answered, and rows that keep their states or come into   *)
(* use, leave the program's shape and the races' results as they were.     *)
LEMMA AnswerKeepsProgram ==
  ASSUME TypeOK, ProgramInv, WatchLaterInv, NEW c \in Calls,
         Moved(c), call'[c].step = "idle",
         \A l \in Lists : row'[l] = row[l] \/ (row[l] = "unused" /\ row'[l] # "unused")
                          \/ (row[l] # "WATCH_LATER" /\ row'[l] = "deleted")
  PROVE  ProgramInv' /\ WatchLaterInv'
<1> USE DEF Moved, TypeOK
<1>1. ProgramInv'
  BY DEF ProgramInv, AddSteps, InTransaction
<1>2. HasWatchLater => HasWatchLater'
  BY DEF HasWatchLater
<1>3. \A d \in Calls : call[d].step = "write" => call[d].list \in Lists /\ row[call[d].list] # "unused"
  BY DEF ProgramInv
<1>4. WatchLaterInv'
  BY <1>2, <1>3 DEF WatchLaterInv
<1> QED
  BY <1>1, <1>4

(* An answer, with or without the release of the caller's own lock, leaves *)
(* the others their locks.                                                 *)
LEMMA AnswerKeepsLocks ==
  ASSUME TypeOK, ProgramInv, LockInv, NEW c \in Calls, Moved(c), call'[c].step = "idle",
         \A l \in Lists : lock'[l] = lock[l] \/ lock[l] = c
  PROVE  LockInv'
BY DEF Moved, LockInv, ProgramInv, InTransaction, AddSteps

-----------------------------------------------------------------------------
(* What every step but those of addVideo's transaction keeps.  One step    *)
(* per action.                                                             *)
Shape == TypeOK /\ ProgramInv /\ WatchLaterInv /\ LockInv

LEMMA InitIInv == Init => IInv
<1> SUFFICES ASSUME Init PROVE IInv
  OBVIOUS
<1> USE DEF Init
<1>1. Idle("none") \in CallRecords /\ Idle("none").step = "idle"
  BY DEF Idle, CallRecords, Steps, Outcomes
<1>2. TypeOK
  BY <1>1 DEF TypeOK, RowStates, Empty
<1>3. ProgramInv /\ WatchLaterInv /\ LockInv /\ FoundInv
  BY <1>1 DEF ProgramInv, WatchLaterInv, LockInv, FoundInv, Found, AddSteps, InTransaction
<1>4. \A l \in Lists : Members(l) = {}
  BY DEF Members, Empty
<1>5. LimitHolds
  BY <1>4, FS_EmptySet DEF LimitHolds
<1> QED
  BY <1>2, <1>3, <1>5 DEF IInv

LEMMA BeginShape == ASSUME Shape, NEW c \in Calls, Begin(c) PROVE Shape'
<1> USE DEF Shape
<1>1. PICK request \in Requests : call' = [call EXCEPT ![c] = request]
  BY DEF Begin
<1>2. request \in CallRecords
  <2>1. PICK op \in Ops, l \in Lists \cup {None}, v \in Videos \cup {None},
             step \in {"create", "findWatchLater", "findOwned"} : request = Request(op, l, v, step)
    BY DEF Requests, Ops
  <2> QED
    BY <2>1 DEF Request, CallRecords, Steps, Outcomes
<1>3. TypeOK' /\ Moved(c) /\ call'[c] = request
  BY <1>1, <1>2 DEF Begin, TypeOK, Moved
<1>4. ProgramInv'
  BY <1>3 DEF Begin, Moved, ProgramInv, Requests, Request, AddSteps, InTransaction
<1>5. WatchLaterInv' /\ LockInv'
  BY <1>3 DEF Begin, Moved, WatchLaterInv, HasWatchLater, LockInv, Requests, Request, InTransaction
<1> QED
  BY <1>3, <1>4, <1>5

LEMMA FailsShape == ASSUME Shape, NEW c \in Calls, Fails(c) PROVE Shape'
<1> USE DEF Shape
<1>1. Moved(c) /\ call'[c].step = "idle"
  BY AnswerMoves DEF Fails, Outcomes
<1>2. TypeOK'
  BY <1>1 DEF Fails, TypeOK, Moved
<1>3. ProgramInv' /\ WatchLaterInv'
  BY <1>1, AnswerKeepsProgram DEF Fails
<1>4. LockInv'
  BY <1>1, AnswerKeepsLocks DEF Fails
<1> QED
  BY <1>2, <1>3, <1>4

LEMMA CreateShape == ASSUME Shape, NEW c \in Calls, Create(c) PROVE Shape'
<1> USE DEF Shape
<1>1. Moved(c) /\ call'[c].step = "idle"
  BY AnswerMoves DEF Create, Outcomes
<1>2. TypeOK'
  BY <1>1 DEF Create, TypeOK, Moved, RowStates
<1>3. ProgramInv' /\ WatchLaterInv'
  BY <1>1, AnswerKeepsProgram DEF Create, TypeOK
<1>4. LockInv'
  BY <1>1, AnswerKeepsLocks DEF Create
<1> QED
  BY <1>2, <1>3, <1>4

(* Moving on outside the transaction, with the rows as they are.           *)
LEMMA GotoShape ==
  ASSUME Shape, NEW c \in Calls, NEW s \in Steps, Goto(c, s),
         UNCHANGED <<row, position, exists, lock>>,
         s \notin InTransaction \/ call[c].step \in InTransaction,
         s \in AddSteps => /\ call[c].op = "addVideo"
                           /\ call[c].list \in Lists /\ call[c].video \in Videos
                           /\ row[call[c].list] # "unused",
         s \notin {"findOwned", "findWatchLater"},
         s = "write" => /\ call[c].op \in {"update", "delete", "removeVideo"}
                        /\ call[c].list \in Lists
                        /\ call[c].op = "removeVideo" => call[c].video \in Videos
                        /\ row[call[c].list] # "unused"
                        /\ call[c].op = "delete" => row[call[c].list] # "WATCH_LATER",
         s \in {"createWatchLater", "findWatchLaterAgain"} => call[c].op = "mine",
         s = "findWatchLaterAgain" => HasWatchLater
  PROVE  Shape'
<1> USE DEF Shape
<1>1. /\ Moved(c) /\ call'[c].step = s /\ call'[c].op = call[c].op
      /\ call'[c].list = call[c].list /\ call'[c].video = call[c].video
  BY GotoMoves
<1>2. TypeOK'
  BY <1>1 DEF TypeOK, Moved
<1>3. ProgramInv'
  <2> SUFFICES ASSUME NEW d \in Calls
               PROVE  /\ call'[d].step \in AddSteps =>
                            call'[d].op = "addVideo" /\ call'[d].list \in Lists /\ call'[d].video \in Videos
                      /\ call'[d].step \in {"findOwned", "write"} =>
                            /\ call'[d].op \in {"update", "delete", "addVideo", "removeVideo"}
                            /\ call'[d].list \in Lists
                            /\ call'[d].op \in {"addVideo", "removeVideo"} => call'[d].video \in Videos
                      /\ call'[d].step \in {"findWatchLater", "createWatchLater", "findWatchLaterAgain"} =>
                            call'[d].op = "mine"
                      /\ call'[d].step \in {"write", "insert"} \cup AddSteps => row[call'[d].list] # "unused"
    BY DEF ProgramInv
  <2>1. CASE d = c
    BY <1>1, <2>1 DEF AddSteps, InTransaction
  <2>2. CASE d # c
    BY <1>1, <2>2 DEF Moved, ProgramInv
  <2> QED
    BY <2>1, <2>2
<1>4. WatchLaterInv'
  BY <1>1 DEF Moved, WatchLaterInv, HasWatchLater
<1>5. LockInv'
  BY <1>1 DEF Moved, LockInv
<1> QED
  BY <1>2, <1>3, <1>4, <1>5

(* An answer with the rows as they are.                                    *)
LEMMA AnswerShape ==
  ASSUME Shape, NEW c \in Calls, NEW o \in Outcomes, Answer(c, o),
         UNCHANGED <<row, position, exists, lock>>
  PROVE  Shape'
<1> USE DEF Shape
<1>1. Moved(c) /\ call'[c].step = "idle"
  BY AnswerMoves
<1>2. TypeOK'
  BY <1>1 DEF TypeOK, Moved
<1>3. ProgramInv' /\ WatchLaterInv' /\ LockInv'
  BY <1>1, AnswerKeepsProgram, AnswerKeepsLocks
<1> QED
  BY <1>2, <1>3

LEMMA WatchLaterShape ==
  ASSUME Shape, NEW c \in Calls,
         FindWatchLater(c) \/ CreateWatchLater(c) \/ FindWatchLaterAgain(c)
  PROVE  Shape'
<1> USE DEF Shape
<1>1. call[c].step \in {"findWatchLater", "createWatchLater", "findWatchLaterAgain"}
      /\ call[c].op = "mine"
  BY DEF FindWatchLater, CreateWatchLater, FindWatchLaterAgain, ProgramInv
<1>2. CASE FindWatchLater(c)
  <2>1. CASE HasWatchLater
    BY <1>2, <2>1, AnswerShape DEF FindWatchLater, Outcomes
  <2>2. CASE ~HasWatchLater
    <3>1. Goto(c, "createWatchLater") /\ UNCHANGED <<row, position, exists, lock>>
      BY <1>2, <2>2 DEF FindWatchLater
    <3>2. "createWatchLater" \in Steps
      BY DEF Steps
    <3> QED
      BY <1>1, <3>1, <3>2, GotoShape DEF AddSteps, InTransaction
  <2> QED
    BY <2>1, <2>2
<1>3. CASE CreateWatchLater(c) /\ HasWatchLater
  <2>1. Goto(c, "findWatchLaterAgain") /\ UNCHANGED <<row, position, exists, lock>>
    BY <1>3 DEF CreateWatchLater, LostRace
  <2>2. "findWatchLaterAgain" \in Steps
    BY DEF Steps
  <2> QED
    BY <1>1, <1>3, <2>1, <2>2, GotoShape DEF AddSteps, InTransaction
<1>4. CASE CreateWatchLater(c) /\ ~HasWatchLater
  <2>1. Moved(c) /\ call'[c].step = "idle"
    BY <1>4, AnswerMoves DEF CreateWatchLater, Outcomes
  <2>2. TypeOK'
    BY <1>4, <2>1 DEF CreateWatchLater, TypeOK, Moved, RowStates
  <2>3. ProgramInv' /\ WatchLaterInv'
    BY <1>4, <2>1, AnswerKeepsProgram DEF CreateWatchLater, TypeOK
  <2>4. LockInv'
    BY <1>4, <2>1, AnswerKeepsLocks DEF CreateWatchLater
  <2> QED
    BY <2>2, <2>3, <2>4
<1>5. CASE FindWatchLaterAgain(c)
  BY <1>5, AnswerShape DEF FindWatchLaterAgain, Outcomes
<1> QED
  BY <1>2, <1>3, <1>4, <1>5

LEMMA FindOwnedShape == ASSUME Shape, NEW c \in Calls, FindOwned(c) PROVE Shape'
<1> USE DEF Shape
<1> DEFINE l == call[c].list  op == call[c].op
<1>1. /\ op \in {"update", "delete", "addVideo", "removeVideo"} /\ l \in Lists
      /\ op \in {"addVideo", "removeVideo"} => call[c].video \in Videos
  BY DEF FindOwned, ProgramInv
<1>2. UNCHANGED <<row, position, exists, lock>>
  BY DEF FindOwned
<1>3. CASE Answer(c, "not found") \/ Answer(c, "immutable")
  BY <1>2, <1>3, AnswerShape DEF Outcomes
<1>4. CASE Live(l) /\ op = "addVideo" /\ Goto(c, "findListed")
  <2>1. "findListed" \in Steps /\ "findListed" \notin InTransaction
    BY DEF Steps, InTransaction
  <2> QED
    BY <1>1, <1>2, <1>4, <2>1, GotoShape DEF Live
<1>5. CASE Live(l) /\ op # "addVideo" /\ Goto(c, "write")
           /\ ~(op \in {"update", "delete"} /\ row[l] = "WATCH_LATER")
  <2>1. "write" \in Steps /\ "write" \notin AddSteps
    BY DEF Steps, AddSteps, InTransaction
  <2> QED
    BY <1>1, <1>2, <1>5, <2>1, GotoShape DEF Live, AddSteps
<1> QED
  BY <1>3, <1>4, <1>5 DEF FindOwned

LEMMA UpdateShape == ASSUME Shape, NEW c \in Calls, Update(c) PROVE Shape'
BY AnswerShape DEF Update, Outcomes

LEMMA DeleteShape == ASSUME Shape, NEW c \in Calls, Delete(c) PROVE Shape'
<1> USE DEF Shape
<1> DEFINE l == call[c].list
<1>1. l \in Lists /\ row[l] # "WATCH_LATER"
  BY DEF Delete, At, ProgramInv, WatchLaterInv
<1>2. CASE ~Live(l)
  BY <1>2, AnswerShape DEF Delete, Outcomes
<1>3. CASE Live(l)
  <2>1. /\ row' = [row EXCEPT ![l] = "deleted"] /\ Answer(c, "ok")
        /\ position' = [position EXCEPT ![l] = Empty]
        /\ UNCHANGED <<exists, lock>>
    BY <1>3 DEF Delete
  <2>2. Moved(c) /\ call'[c].step = "idle"
    BY <2>1, AnswerMoves DEF Outcomes
  <2>3. TypeOK'
    BY <2>1, <2>2 DEF TypeOK, Moved, RowStates, Empty
  <2>4. ProgramInv' /\ WatchLaterInv'
    BY <1>1, <2>1, <2>2, AnswerKeepsProgram DEF TypeOK
  <2>5. LockInv'
    BY <2>1, <2>2, AnswerKeepsLocks
  <2> QED
    BY <2>3, <2>4, <2>5
<1> QED
  BY <1>2, <1>3

LEMMA RemoveVideoShape == ASSUME Shape, NEW c \in Calls, RemoveVideo(c) PROVE Shape'
<1> USE DEF Shape
<1> DEFINE l == call[c].list  v == call[c].video
<1>1. l \in Lists /\ v \in Videos
  BY DEF RemoveVideo, At, ProgramInv
<1>2. CASE ~Live(l)
  BY <1>2, AnswerShape DEF RemoveVideo, Outcomes
<1>3. CASE Live(l)
  <2>1. /\ position' = [position EXCEPT ![l][v] = 0] /\ Answer(c, "ok")
        /\ UNCHANGED <<row, exists, lock>>
    BY <1>3 DEF RemoveVideo
  <2>2. Moved(c) /\ call'[c].step = "idle"
    BY <2>1, AnswerMoves DEF Outcomes
  <2>3. TypeOK'
    BY <1>1, <2>1, <2>2 DEF TypeOK, Moved
  <2>4. ProgramInv' /\ WatchLaterInv'
    BY <2>1, <2>2, AnswerKeepsProgram
  <2>5. LockInv'
    BY <2>1, <2>2, AnswerKeepsLocks
  <2> QED
    BY <2>3, <2>4, <2>5
<1> QED
  BY <1>2, <1>3

LEMMA FindListedShape == ASSUME Shape, NEW c \in Calls, FindListed(c) PROVE Shape'
<1> USE DEF Shape
<1>1. /\ call[c].op = "addVideo" /\ call[c].list \in Lists /\ call[c].video \in Videos
      /\ row[call[c].list] # "unused"
  BY DEF FindListed, ProgramInv, AddSteps
<1>2. CASE Answer(c, "not found")
  BY <1>2, AnswerShape DEF FindListed, Outcomes
<1>3. CASE Goto(c, "lock")
  <2>1. "lock" \in Steps /\ "lock" \notin InTransaction
    BY DEF Steps, InTransaction
  <2> QED
    BY <1>1, <1>3, <2>1, GotoShape DEF FindListed
<1> QED
  BY <1>2, <1>3 DEF FindListed

LEMMA DeleteVideoShape == ASSUME Shape, NEW v \in Videos, DeleteVideo(v) PROVE Shape'
BY DEF Shape, DeleteVideo, TypeOK, ProgramInv, WatchLaterInv, HasWatchLater, LockInv

-----------------------------------------------------------------------------
(* The transaction of addVideo.                                            *)

LEMMA FinishShape ==
  ASSUME Shape, NEW c \in Calls, NEW o \in Outcomes, Finish(c, o), UNCHANGED <<row, exists>>,
         call[c].step \in InTransaction, position' \in [Lists -> [Videos -> Nat]]
  PROVE  Shape' /\ Moved(c) /\ call'[c].step = "idle"
<1> USE DEF Shape
<1>1. call[c].list \in Lists /\ lock[call[c].list] = c
  BY DEF ProgramInv, LockInv, AddSteps
<1>2. /\ Moved(c) /\ call'[c].step = "idle"
      /\ lock' \in [Lists -> Calls \cup {None}]
      /\ \A l \in Lists \ {call[c].list} : lock'[l] = lock[l]
  BY <1>1, FinishMoves
<1>3. TypeOK'
  BY <1>2 DEF TypeOK, Moved
<1>4. ProgramInv' /\ WatchLaterInv'
  BY <1>2, AnswerKeepsProgram
<1>5. LockInv'
  BY <1>1, <1>2, AnswerKeepsLocks
<1> QED
  BY <1>2, <1>3, <1>4, <1>5

LEMMA LockShape == ASSUME Shape, NEW c \in Calls, Lock(c) PROVE Shape' /\ Moved(c)
<1> USE DEF Shape
<1> DEFINE l == call[c].list
<1>1. /\ call[c].op = "addVideo" /\ l \in Lists /\ call[c].video \in Videos
      /\ row[l] # "unused" /\ lock[l] = None
  BY DEF Lock, Unlocked, ProgramInv, AddSteps
<1>2. /\ Moved(c) /\ call'[c].step = "findExisting" /\ call'[c].op = call[c].op
      /\ call'[c].list = l /\ call'[c].video = call[c].video
  BY GotoMoves DEF Lock, Steps
<1>3. lock' \in [Lists -> Calls \cup {None}] /\ lock'[l] = c
      /\ \A m \in Lists \ {l} : lock'[m] = lock[m]
  BY <1>1 DEF Lock, TypeOK
<1>4. TypeOK'
  BY <1>2, <1>3 DEF Lock, TypeOK, Moved
<1>5. ProgramInv'
  BY <1>1, <1>2 DEF Lock, Moved, ProgramInv, AddSteps, InTransaction
<1>6. WatchLaterInv'
  BY <1>2 DEF Lock, Moved, WatchLaterInv, HasWatchLater
<1>7. LockInv'
  <2> SUFFICES ASSUME NEW d \in Calls, call'[d].step \in InTransaction
               PROVE  lock'[call'[d].list] = d
    BY DEF LockInv
  <2>1. CASE d = c
    BY <1>2, <1>3, <2>1
  <2>2. CASE d # c
    <3>1. call'[d] = call[d] /\ call[d].list \in Lists /\ lock[call[d].list] = d
      BY <1>2, <2>2 DEF Moved, LockInv, ProgramInv, AddSteps
    <3> QED
      BY <1>1, <1>3, <3>1
  <2> QED
    BY <2>1, <2>2
<1> QED
  BY <1>2, <1>4, <1>5, <1>6, <1>7

(* The reads of the transaction: it goes on to a later statement.          *)
LEMMA ReadShape ==
  ASSUME Shape, NEW c \in Calls, NEW s \in {"count", "maximum"}, Goto(c, s),
         UNCHANGED <<row, position, exists, lock>>, call[c].step \in InTransaction
  PROVE  Shape'
<1> USE DEF Shape
<1>1. /\ call[c].op = "addVideo" /\ call[c].list \in Lists /\ call[c].video \in Videos
      /\ row[call[c].list] # "unused"
  BY DEF ProgramInv, AddSteps
<1>2. s \in Steps
  BY DEF Steps
<1> QED
  BY <1>1, <1>2, GotoShape

LEMMA MaximumShape == ASSUME Shape, NEW c \in Calls, Maximum(c) PROVE Shape' /\ Moved(c)
<1> USE DEF Shape
<1>1. /\ call[c].op = "addVideo" /\ call[c].list \in Lists /\ call[c].video \in Videos
      /\ row[call[c].list] # "unused" /\ lock[call[c].list] = c
  BY DEF Maximum, ProgramInv, LockInv, AddSteps, InTransaction
<1>2. PICK m \in Used(call[c].list) :
         call' = [call EXCEPT ![c].step = "insert", ![c].maximum = m]
  BY DEF Maximum
<1>3. m \in Nat
  BY <1>1 DEF Used, TypeOK
<1> DEFINE r == [call[c] EXCEPT !.step = "insert", !.maximum = m]
<1>4. r \in CallRecords /\ r.step = "insert" /\ r.op = "addVideo" /\ r.list = call[c].list
      /\ r.video = call[c].video
  BY <1>1, <1>3 DEF TypeOK, CallRecords, Steps
<1>5. Moved(c) /\ call'[c] = r
  BY <1>2, <1>4 DEF Moved, TypeOK
<1> HIDE DEF r
<1>6. TypeOK'
  BY <1>5 DEF Maximum, TypeOK, Moved
<1>7. ProgramInv' /\ WatchLaterInv' /\ LockInv'
  BY <1>1, <1>4, <1>5 DEF Maximum, Moved, ProgramInv, WatchLaterInv, HasWatchLater, LockInv,
     AddSteps, InTransaction
<1> QED
  BY <1>5, <1>6, <1>7

LEMMA FindExistingShape == ASSUME Shape, NEW c \in Calls, FindExisting(c) PROVE Shape'
<1>1. CASE Finish(c, "ok")
  BY <1>1, FinishShape DEF FindExisting, Outcomes, InTransaction, Shape, TypeOK
<1>2. CASE Goto(c, "count") /\ UNCHANGED lock
  BY <1>2, ReadShape DEF FindExisting, InTransaction
<1> QED
  BY <1>1, <1>2 DEF FindExisting

LEMMA CountShape == ASSUME Shape, NEW c \in Calls, Count(c) PROVE Shape'
<1>1. CASE Finish(c, "full")
  BY <1>1, FinishShape DEF Count, Outcomes, InTransaction, Shape, TypeOK
<1>2. CASE Goto(c, "maximum") /\ UNCHANGED lock
  BY <1>2, ReadShape DEF Count, InTransaction
<1> QED
  BY <1>1, <1>2 DEF Count

LEMMA InsertShape == ASSUME Shape, NEW c \in Calls, Insert(c) PROVE Shape'
<1> DEFINE l == call[c].list  v == call[c].video  p == call[c].maximum + 1
<1>1. call[c].step \in InTransaction /\ UNCHANGED <<row, exists>> /\ l \in Lists /\ v \in Videos
  BY DEF Insert, InTransaction, Shape, ProgramInv, AddSteps
<1>2. p \in Nat
  BY DEF Shape, TypeOK, CallRecords
<1>3. position \in [Lists -> [Videos -> Nat]]
  BY DEF Shape, TypeOK
<1>4. \E o \in {"gone", "conflict", "ok"} :
         Finish(c, o) /\ (UNCHANGED position \/ position' = [position EXCEPT ![l][v] = p])
  BY DEF Insert
<1>5. position' \in [Lists -> [Videos -> Nat]]
  BY <1>1, <1>2, <1>3, <1>4
<1> QED
  BY <1>1, <1>4, <1>5, FinishShape DEF Outcomes

LEMMA ShapeStep == Shape /\ [Next]_vars => Shape'
<1> SUFFICES ASSUME Shape, [Next]_vars PROVE Shape'
  OBVIOUS
<1>1. ASSUME NEW c \in Calls, CallStep(c) PROVE Shape'
  BY <1>1, BeginShape, FailsShape, CreateShape, WatchLaterShape, FindOwnedShape, UpdateShape,
     DeleteShape, RemoveVideoShape, FindListedShape, LockShape, FindExistingShape, CountShape,
     MaximumShape, InsertShape DEF CallStep
<1>2. ASSUME NEW v \in Videos, DeleteVideo(v) PROVE Shape'
  BY <1>2, DeleteVideoShape
<1>3. CASE UNCHANGED vars
  BY <1>3 DEF vars, Shape, TypeOK, ProgramInv, WatchLaterInv, HasWatchLater, LockInv
<1> QED
  BY <1>1, <1>2, <1>3 DEF Next

-----------------------------------------------------------------------------
(* What the positions do in a step: stay, lose items, or take in one.      *)
Inserts(c, l, v) ==
    /\ Insert(c) /\ call[c].list = l /\ call[c].video = v
    /\ l \in Lists /\ v \in Videos
    /\ position' = [position EXCEPT ![l][v] = call[c].maximum + 1]

LEMMA PositionStep ==
  ASSUME IInv, [Next]_vars
  PROVE  \/ \A l \in Lists, v \in Videos : position'[l][v] \in {0, position[l][v]}
         \/ \E c \in Calls, l \in Lists, v \in Videos : Inserts(c, l, v)
<1> USE DEF IInv
<1> DEFINE Loses == \A l \in Lists, v \in Videos : position'[l][v] \in {0, position[l][v]}
<1>1. CASE UNCHANGED position
  BY <1>1
<1>2. ASSUME NEW c \in Calls, Delete(c) \/ RemoveVideo(c) PROVE Loses
  BY <1>2 DEF Delete, RemoveVideo, TypeOK, Empty
<1>3. ASSUME NEW v \in Videos, DeleteVideo(v) PROVE Loses
  BY <1>3 DEF DeleteVideo, TypeOK
<1>4. ASSUME NEW c \in Calls, Insert(c), position' # position
      PROVE  Inserts(c, call[c].list, call[c].video)
             /\ call[c].list \in Lists /\ call[c].video \in Videos
  <2>1. call[c].list \in Lists /\ call[c].video \in Videos
    BY <1>4 DEF Insert, ProgramInv, AddSteps, InTransaction
  <2> QED
    BY <1>4, <2>1 DEF Insert, Inserts
<1>5. ASSUME NEW c \in Calls, CallStep(c)
      PROVE  UNCHANGED position \/ Delete(c) \/ RemoveVideo(c) \/ Insert(c)
  BY <1>5 DEF CallStep, Begin, Fails, Create, FindWatchLater, CreateWatchLater,
     FindWatchLaterAgain, FindOwned, Update, FindListed, Lock, FindExisting, Count, Maximum
<1>6. CASE UNCHANGED vars
  BY <1>1, <1>6 DEF vars
<1>7. ASSUME NEW c \in Calls, CallStep(c)
      PROVE  Loses \/ \E l \in Lists, v \in Videos : Inserts(c, l, v)
  BY <1>1, <1>2, <1>4, <1>5, <1>7
<1> QED
  BY <1>3, <1>6, <1>7 DEF Next

(* Only one call moves in a step; one that gets further in a transaction   *)
(* found what FoundInv says.                                               *)
LEMMA FoundStep ==
  ASSUME IInv, NEW c \in Calls, FindExisting(c) \/ Count(c) \/ Maximum(c), Shape'
  PROVE  FoundInv' /\ LimitHolds'
<1> USE DEF IInv
<1>1. UNCHANGED position /\ call[c].list \in Lists
  BY DEF FindExisting, Count, Maximum, ProgramInv, AddSteps, InTransaction
<1>2. LimitHolds'
  BY <1>1 DEF LimitHolds, Members
<1>3. Moved(c)
  <2>1. CASE Maximum(c)
    BY <2>1, MaximumShape DEF Shape
  <2>2. ASSUME NEW o \in {"ok", "full"}, Finish(c, o) PROVE Moved(c)
    BY <1>1, <2>2, FinishMoves DEF Outcomes
  <2>3. ASSUME NEW s \in {"count", "maximum"}, Goto(c, s) PROVE Moved(c)
    BY <2>3, GotoMoves DEF Steps
  <2> QED
    BY <2>1, <2>2, <2>3 DEF FindExisting, Count
<1>4. ASSUME NEW d \in Calls, d # c, NEW l \in Lists, call'[d].list = l
      PROVE  Found(d, l)'
  BY <1>1, <1>3, <1>4 DEF Moved, FoundInv, Found, HasRoom, Members
<1>5. ASSUME NEW l \in Lists, call'[c].list = l PROVE Found(c, l)'
  <2>1. CASE call'[c].step \notin {"count", "maximum", "insert"}
    BY <2>1 DEF Found
  <2>2. CASE FindExisting(c) /\ Goto(c, "count") /\ call[c].video \notin Members(call[c].list)
    <3>1. call'[c].step = "count" /\ call'[c].video = call[c].video /\ call[c].list = l
      BY <1>5, <2>2, GotoMoves DEF Steps
    <3> QED
      BY <1>1, <2>2, <3>1 DEF Found, Members
  <2>3. CASE Count(c) /\ Goto(c, "maximum") /\ HasRoom(call[c].list)
    <3>1. call'[c].step = "maximum" /\ call'[c].video = call[c].video /\ call[c].list = l
      BY <1>5, <2>3, GotoMoves DEF Steps
    <3>2. call[c].video \notin Members(l)
      BY <2>3, <3>1 DEF Count, FoundInv, Found
    <3> QED
      BY <1>1, <2>3, <3>1, <3>2 DEF Found, Members, HasRoom
  <2>4. CASE Maximum(c)
    <3>1. PICK m \in Used(call[c].list) :
             /\ IsMaximum(call[c].list, m)
             /\ call' = [call EXCEPT ![c].step = "insert", ![c].maximum = m]
      BY <2>4 DEF Maximum
    <3>2. call'[c].step = "insert" /\ call'[c].video = call[c].video /\ call[c].list = l
          /\ call'[c].maximum = m
      BY <1>5, <3>1 DEF TypeOK, CallRecords
    <3>3. \A v \in Videos : position[l][v] <= m
      BY <3>1, <3>2 DEF IsMaximum, Used
    <3>4. call[c].video \notin Members(l) /\ HasRoom(l)
      BY <2>4, <3>2 DEF Maximum, FoundInv, Found
    <3> QED
      BY <1>1, <3>2, <3>3, <3>4 DEF Found, Members, HasRoom
  <2>5. FindExisting(c) =>
           \/ call'[c].step = "idle"
           \/ Goto(c, "count") /\ call[c].video \notin Members(call[c].list)
    <3>1. Finish(c, "ok") => call'[c].step = "idle"
      BY <1>1, FinishMoves DEF Outcomes
    <3> QED
      BY <3>1 DEF FindExisting
  <2>6. Count(c) =>
           \/ call'[c].step = "idle"
           \/ Goto(c, "maximum") /\ HasRoom(call[c].list)
    <3>1. Finish(c, "full") => call'[c].step = "idle"
      BY <1>1, FinishMoves DEF Outcomes
    <3> QED
      BY <3>1 DEF Count
  <2>7. CASE call'[c].step = "idle"
    BY <2>1, <2>7
  <2>8. CASE FindExisting(c)
    BY <2>2, <2>5, <2>7, <2>8
  <2>9. CASE Count(c)
    BY <2>3, <2>6, <2>7, <2>9
  <2> QED
    BY <2>4, <2>8, <2>9
<1>6. FoundInv'
  BY <1>4, <1>5 DEF FoundInv
<1> QED
  BY <1>2, <1>6

(* An insert: the list has one member more, there was room for it, and no  *)
(* other call is inside a transaction on that list.                        *)
LEMMA InsertStep ==
  ASSUME IInv, NEW c \in Calls, NEW l \in Lists, NEW v \in Videos, Inserts(c, l, v), Shape'
  PROVE  FoundInv' /\ LimitHolds' /\ Members(l)' = Members(l) \cup {v} /\ v \notin Members(l)
<1> USE DEF IInv
<1>1. /\ call[c].step = "insert" /\ lock[l] = c /\ call[c].maximum \in Nat
      /\ Found(c, l)
  BY DEF Inserts, Insert, LockInv, InTransaction, FoundInv, TypeOK, CallRecords
<1>2. v \notin Members(l) /\ HasRoom(l)
  BY <1>1 DEF Found, Inserts
<1>3. position'[l] = [position[l] EXCEPT ![v] = call[c].maximum + 1]
      /\ \A m \in Lists \ {l} : position'[m] = position[m]
  BY DEF Inserts, TypeOK
<1>4. Members(l)' = Members(l) \cup {v}
  BY <1>1, <1>3 DEF Members, TypeOK
<1>5. \A m \in Lists \ {l} : Members(m)' = Members(m)
  BY <1>3 DEF Members
<1>6. Cardinality(Members(l)') = Cardinality(Members(l)) + 1
  BY <1>2, <1>4, MembersFinite, FS_AddElement
<1>7. LimitHolds'
  <2>1. Cardinality(Members(l))' <= MaxItems
    BY <1>2, <1>6, MembersFinite DEF HasRoom
  <2> QED
    BY <1>5, <2>1 DEF LimitHolds
<1>8. Moved(c) /\ call'[c].step = "idle"
  <2>1. ASSUME NEW o \in {"gone", "conflict", "ok"}, Finish(c, o)
        PROVE  Moved(c) /\ call'[c].step = "idle"
    BY <2>1, FinishMoves DEF Outcomes, Inserts
  <2> QED
    BY <2>1 DEF Inserts, Insert
<1>9. FoundInv'
  <2> SUFFICES ASSUME NEW d \in Calls, NEW m \in Lists, call'[d].list = m
               PROVE  Found(d, m)'
    BY DEF FoundInv
  <2>1. CASE call'[d].step \notin {"count", "maximum", "insert"}
    BY <2>1 DEF Found
  <2>2. CASE call'[d].step \in {"count", "maximum", "insert"}
    <3>1. call'[d] = call[d] /\ d # c
      BY <1>8, <2>2 DEF Moved
    <3>2. m # l
      BY <1>1, <2>2, <3>1 DEF LockInv, InTransaction
    <3> QED
      BY <1>3, <1>5, <3>1, <3>2 DEF FoundInv, Found, HasRoom
  <2> QED
    BY <2>1, <2>2
<1> QED
  BY <1>2, <1>4, <1>7, <1>9

LEMMA IInvStep == IInv /\ [Next]_vars => IInv'
<1> SUFFICES ASSUME IInv, [Next]_vars PROVE IInv'
  OBVIOUS
<1>1. Shape /\ Shape'
  BY ShapeStep DEF IInv, Shape
<1>2. FoundInv' /\ LimitHolds'
  <2>1. ASSUME NEW c \in Calls, FindExisting(c) \/ Count(c) \/ Maximum(c)
        PROVE  FoundInv' /\ LimitHolds'
    BY <1>1, <2>1, FoundStep
  <2>2. ASSUME NEW c \in Calls, NEW l \in Lists, NEW v \in Videos, Inserts(c, l, v)
        PROVE  FoundInv' /\ LimitHolds'
    BY <1>1, <2>2, InsertStep
  <2>3. ASSUME \A l \in Lists, v \in Videos : position'[l][v] \in {0, position[l][v]},
               NEW c \in Calls, CallStep(c), ~(FindExisting(c) \/ Count(c) \/ Maximum(c))
        PROVE  FoundInv' /\ LimitHolds'
    <3>1. Moved(c) /\ call'[c].step \notin {"count", "maximum", "insert"}
      <4>1. ASSUME NEW o \in Outcomes, Answer(c, o)
            PROVE  Moved(c) /\ call'[c].step = "idle"
        BY <4>1, AnswerMoves DEF IInv
      <4>2. ASSUME NEW s \in Steps, Goto(c, s) PROVE Moved(c) /\ call'[c].step = s
        BY <4>2, GotoMoves DEF IInv
      <4>3. CASE Begin(c)
        <5>1. PICK request \in Requests : call' = [call EXCEPT ![c] = request]
          BY <4>3 DEF Begin
        <5>2. request.step \in {"create", "findWatchLater", "findOwned"}
          BY DEF Requests, Request
        <5> QED
          BY <1>1, <5>1, <5>2 DEF Shape, TypeOK, Moved
      <4>4. CASE Fails(c) \/ Create(c) \/ Update(c) \/ Delete(c) \/ RemoveVideo(c)
        BY <4>4, <4>1 DEF Fails, Create, Update, Delete, RemoveVideo, Outcomes
      <4>5. CASE FindWatchLater(c) \/ CreateWatchLater(c) \/ FindWatchLaterAgain(c)
        BY <4>5, <4>1, <4>2 DEF FindWatchLater, CreateWatchLater, LostRace, FindWatchLaterAgain,
           Outcomes, Steps
      <4>6. CASE FindOwned(c) \/ FindListed(c) \/ Lock(c)
        BY <4>6, <4>1, <4>2 DEF FindOwned, FindListed, Lock, Outcomes, Steps
      <4>7. CASE Insert(c)
        BY <4>7, <4>1 DEF Insert, Finish, Outcomes
      <4> QED
        BY <2>3, <4>3, <4>4, <4>5, <4>6, <4>7 DEF CallStep
    <3>2. \A d \in Calls : call'[d].step \in {"count", "maximum", "insert"} => call'[d] = call[d]
      BY <3>1 DEF Moved
    <3> QED
      BY <1>1, <2>3, <3>2, RemovalKeeps DEF Shape
  <2>4. ASSUME \A l \in Lists, v \in Videos : position'[l][v] \in {0, position[l][v]},
               UNCHANGED call
        PROVE  FoundInv' /\ LimitHolds'
    BY <1>1, <2>4, RemovalKeeps DEF Shape
  <2> QED
    BY <2>1, <2>2, <2>3, <2>4, PositionStep DEF Next, DeleteVideo, vars
<1> QED
  BY <1>1, <1>2 DEF IInv, Shape

-----------------------------------------------------------------------------
LEMMA IInvHolds == Spec => []IInv
  BY InitIInv, IInvStep, PTL DEF Spec

(* The types (PlaylistsService and its tables).                            *)
THEOREM TypesOK == Spec => []TypeOK
<1>1. IInv => TypeOK
  BY DEF IInv
<1> QED
  BY <1>1, IInvHolds, PTL

(* However many requests add videos to a list at once, the list never      *)
(* holds more than MAX_PLAYLIST_ITEMS (addVideo counts under its lock,     *)
(* removeVideo takes none).                                                *)
THEOREM LimitIsHeld == Spec => []LimitHolds
<1>1. IInv => LimitHolds
  BY DEF IInv
<1> QED
  BY <1>1, IInvHolds, PTL

(* No request is answered with a constraint violation: the insert of       *)
(* addVideo finds its video and its position free, a lost race for Watch   *)
(* Later finds the winner's list, and a row that goes missing under a call *)
(* was deleted by somebody.                                                *)
THEOREM NobodyGetsConflict == Spec => NoCallerGetsConflict
<1> DEFINE Fair(c) ==
             /\ call'[c].outcome # "conflict"
             /\ call'[c].outcome = "gone" =>
                   /\ call[c].op # "mine"
                   /\ row[call[c].list] = "deleted" \/ call[c].video \notin exists \cup {None}
           Ends(c) == call[c].step # "idle" /\ call'[c].step = "idle"
<1>1. ASSUME IInv, Next, NEW c \in Calls, Ends(c) PROVE Fair(c)
  <2> USE <1>1 DEF IInv
  <2>1. ASSUME NEW o \in Outcomes, Answer(c, o) PROVE call'[c].outcome = o
    <3>1. call'[c] = Idle(o)
      BY <2>1, AnswerMoves
    <3> QED
      BY <3>1 DEF Idle
  <2>2. CallStep(c)
    <3>1. ASSUME NEW d \in Calls, CallStep(d), d # c PROVE call'[c] = call[c]
      BY <3>1 DEF CallStep, Begin, Fails, Create, FindWatchLater, CreateWatchLater, LostRace,
         FindWatchLaterAgain, FindOwned, Update, Delete, RemoveVideo, FindListed, Lock,
         FindExisting, Count, Maximum, Insert, Finish, Answer, Goto, TypeOK
    <3>2. ASSUME NEW v \in Videos, DeleteVideo(v) PROVE call'[c] = call[c]
      BY <3>2 DEF DeleteVideo
    <3> QED
      BY <1>1, <3>1, <3>2 DEF Next
  <2>3. ASSUME NEW o \in Outcomes \ {"conflict", "gone"}, Answer(c, o) PROVE Fair(c)
    BY <2>1, <2>3
  <2>4. CASE FindWatchLaterAgain(c)
    <3>1. HasWatchLater
      BY <2>4 DEF FindWatchLaterAgain, WatchLaterInv
    <3> QED
      BY <2>3, <2>4, <3>1 DEF FindWatchLaterAgain, Outcomes
  <2>5. CASE Update(c) \/ Delete(c) \/ RemoveVideo(c)
    <3> DEFINE l == call[c].list
    <3>1. l \in Lists /\ row[l] \in RowStates /\ row[l] # "unused" /\ call[c].op # "mine"
      BY <2>5 DEF Update, Delete, RemoveVideo, At, ProgramInv, TypeOK
    <3>2. CASE Live(l)
      BY <2>3, <2>5, <3>2 DEF Update, Delete, RemoveVideo, Outcomes
    <3>3. CASE ~Live(l)
      <4>1. Answer(c, "gone")
        BY <2>5, <3>3 DEF Update, Delete, RemoveVideo
      <4> QED
        BY <2>1, <3>1, <3>3, <4>1 DEF Live, RowStates, Outcomes
    <3> QED
      BY <3>2, <3>3
  <2>6. CASE Insert(c)
    <3> DEFINE l == call[c].list  v == call[c].video  p == call[c].maximum + 1
    <3>1. /\ l \in Lists /\ v \in Videos /\ row[l] \in RowStates /\ row[l] # "unused"
          /\ call[c].op = "addVideo" /\ call[c].maximum \in Nat
      BY <2>6 DEF Insert, ProgramInv, AddSteps, InTransaction, TypeOK, CallRecords
    <3>2. v \notin Members(l) /\ p \notin Used(l)
      <4>1. Found(c, l) /\ call[c].step = "insert"
        BY <2>6, <3>1 DEF FoundInv, Insert
      <4>2. v \notin Members(l) /\ \A u \in Videos : position[l][u] <= call[c].maximum
        BY <4>1 DEF Found
      <4>3. \A u \in Videos : position[l][u] \in Nat
        BY <3>1 DEF TypeOK
      <4> QED
        BY <3>1, <4>2, <4>3 DEF Used
    <3>3. CASE Answer(c, "gone") /\ (~Live(l) \/ v \notin exists)
      BY <2>1, <3>1, <3>3 DEF Live, RowStates, Outcomes
    <3>4. CASE Answer(c, "ok")
      BY <2>3, <3>4 DEF Outcomes
    <3> QED
      BY <2>6, <3>2, <3>3, <3>4 DEF Insert, Finish
  <2>7. CASE \/ Begin(c) \/ Fails(c) \/ Create(c) \/ FindWatchLater(c)
             \/ FindListed(c) \/ FindExisting(c) \/ Count(c)
    BY <1>1, <2>3, <2>7, GotoMoves DEF Begin, Fails, Create, FindWatchLater, FindListed,
       FindExisting, Count, Finish, Outcomes, Steps
  <2>8. CASE CreateWatchLater(c)
    BY <1>1, <2>3, <2>8, GotoMoves DEF CreateWatchLater, LostRace, Outcomes, Steps
  <2>9. CASE FindOwned(c)
    BY <1>1, <2>3, <2>9, GotoMoves DEF FindOwned, Outcomes, Steps
  <2>10. CASE Lock(c) \/ Maximum(c)
    <3>1. Lock(c) => call'[c].step = "findExisting"
      BY GotoMoves DEF Lock, Steps
    <3>2. Maximum(c) => call'[c].step = "insert"
      BY DEF Maximum, TypeOK, CallRecords
    <3> QED
      BY <1>1, <2>10, <3>1, <3>2
  <2> QED
    BY <2>2, <2>4, <2>5, <2>6, <2>7, <2>8, <2>9, <2>10 DEF CallStep
<1>2. IInv /\ [Next]_vars => [\A c \in Calls : Ends(c) => Fair(c)]_vars
  BY <1>1
<1> QED
  BY <1>2, IInvHolds, PTL DEF Spec, NoCallerGetsConflict

-----------------------------------------------------------------------------
(* Refinement.                                                             *)

LEMMA ShownAreMembers ==
  ASSUME IInv, NEW l \in Lists
  PROVE  Promise!Shown(l) = Members(l)
BY DEF IInv, TypeOK, Promise!Shown, Line, Members

(* Rows that lose items lose them from the line.                           *)
LEMMA SameLine ==
  ASSUME NEW l \in Lists, position'[l] = position[l]
  PROVE  Line(l)' = Line(l)
BY DEF Line, Members

(* Each step is a step of Shelf, or leaves every line as it was.           *)
LEMMA ShelfStep ==
  ASSUME IInv, IInv', [Next]_vars
  PROVE  [Promise!Next]_([l \in Lists |-> Line(l)])
<1> USE DEF IInv
<1> DEFINE order == [l \in Lists |-> Line(l)]
<1>1. CASE UNCHANGED position
  BY <1>1 DEF Line, Members
<1>2. ASSUME NEW c \in Calls, Delete(c), position' # position PROVE Promise!Next
  <2> DEFINE l == call[c].list
  <2>1. l \in Lists /\ position' = [position EXCEPT ![l] = Empty]
    BY <1>2 DEF Delete, At, ProgramInv
  <2>2. position'[l] = Empty /\ \A m \in Lists \ {l} : position'[m] = position[m]
    BY <2>1 DEF TypeOK
  <2>3. \A m \in Lists : Line(m)' = IF m = l THEN {} ELSE Line(m)
    BY <2>1, <2>2 DEF Line, Members, Empty
  <2>4. order' = [order EXCEPT ![l] = {}]
    BY <2>1, <2>3
  <2> QED
    BY <2>1, <2>4 DEF Promise!Next, Promise!Drop
<1>3. ASSUME NEW c \in Calls, RemoveVideo(c), position' # position PROVE Promise!Next
  <2> DEFINE l == call[c].list  v == call[c].video
  <2>1. l \in Lists /\ v \in Videos /\ position' = [position EXCEPT ![l][v] = 0]
    BY <1>3 DEF RemoveVideo, At, ProgramInv
  <2>2. position'[l] = [position[l] EXCEPT ![v] = 0]
        /\ \A m \in Lists \ {l} : position'[m] = position[m]
    BY <2>1 DEF TypeOK
  <2>3. \A m \in Lists : Line(m)' = IF m = l THEN Promise!Without(Line(l), v) ELSE Line(m)
    BY <2>1, <2>2 DEF Line, Members, TypeOK, Promise!Without
  <2>4. order' = [order EXCEPT ![l] = Promise!Without(@, v)]
    BY <2>1, <2>3
  <2> QED
    BY <2>1, <2>4 DEF Promise!Next, Promise!TakeOut
<1>4. ASSUME NEW v \in Videos, DeleteVideo(v) PROVE Promise!Next
  <2>1. \A m \in Lists : position'[m] = [position[m] EXCEPT ![v] = 0]
    BY <1>4 DEF DeleteVideo
  <2>2. \A m \in Lists : Line(m)' = Promise!Without(Line(m), v)
    BY <2>1 DEF Line, Members, TypeOK, Promise!Without
  <2>3. order' = [m \in Lists |-> Promise!Without(order[m], v)]
    BY <2>2
  <2> QED
    BY <2>3 DEF Promise!Next, Promise!TakeOutEverywhere
<1>5. ASSUME NEW c \in Calls, NEW l \in Lists, NEW v \in Videos, Inserts(c, l, v)
      PROVE  Promise!Next
  <2> DEFINE p == call[c].maximum + 1
  <2>1. Found(c, l) /\ call[c].step = "insert" /\ call[c].maximum \in Nat
    BY <1>5 DEF Inserts, Insert, FoundInv, TypeOK, CallRecords
  <2>2. v \notin Members(l) /\ HasRoom(l)
        /\ \A u \in Videos : position[l][u] \in Nat /\ position[l][u] < p
    BY <1>5, <2>1 DEF Found, TypeOK, Inserts
  <2>3. position'[l] = [position[l] EXCEPT ![v] = p]
        /\ \A m \in Lists \ {l} : position'[m] = position[m]
    BY <1>5 DEF Inserts, TypeOK
  <2>4. Members(l)' = Members(l) \cup {v}
    BY <2>1, <2>3 DEF Members, TypeOK
  <2>5. Line(l)' = Line(l) \cup (Members(l) \X {v}) \cup {<<v, v>>}
    BY <2>1, <2>2, <2>3, <2>4 DEF Line, Members, TypeOK
  <2>6. \A m \in Lists \ {l} : Line(m)' = Line(m)
    BY <2>3, SameLine
  <2>7. order' = [order EXCEPT ![l] = @ \cup (Members(l) \X {v}) \cup {<<v, v>>}]
    BY <2>5, <2>6
  <2>8. Promise!Append(l, v)
    <3>1. Promise!Shown(l) = Members(l)
      BY ShownAreMembers
    <3>2. order' = [order EXCEPT ![l] = @ \cup (Promise!Shown(l) \X {v}) \cup {<<v, v>>}]
      BY <2>7, <3>1
    <3>3. v \notin Promise!Shown(l) /\ Cardinality(Promise!Shown(l)) < MaxItems
      BY <2>2, <3>1 DEF HasRoom
    <3>4. Promise!Cardinality(Promise!Shown(l)) = Cardinality(Promise!Shown(l))
      BY DEF Promise!Cardinality, Cardinality
    <3> QED
      BY <3>2, <3>3, <3>4 DEF Promise!Append
  <2> QED
    BY <2>8 DEF Promise!Next
<1>6. ASSUME NEW c \in Calls, CallStep(c)
      PROVE  UNCHANGED position \/ Delete(c) \/ RemoveVideo(c)
             \/ \E l \in Lists, v \in Videos : Inserts(c, l, v)
  <2>1. CASE Insert(c) /\ position' # position
    <3>1. call[c].list \in Lists /\ call[c].video \in Videos
      BY <2>1 DEF Insert, ProgramInv, AddSteps, InTransaction
    <3>2. Inserts(c, call[c].list, call[c].video)
      BY <2>1, <3>1 DEF Insert, Inserts
    <3> QED
      BY <3>1, <3>2
  <2> QED
    BY <1>6, <2>1 DEF CallStep, Begin, Fails, Create, FindWatchLater, CreateWatchLater,
       FindWatchLaterAgain, FindOwned, Update, FindListed, Lock, FindExisting, Count, Maximum
<1>7. UNCHANGED position => UNCHANGED order
  BY <1>1 DEF Line, Members
<1> QED
  BY <1>2, <1>3, <1>4, <1>5, <1>6, <1>7 DEF Next, vars

(* The numbered rows and interleaved transactions of PlaylistsService are  *)
(* one line of videos per list, as Shelf promises.                         *)
THEOREM RowsImplementShelf == Spec => ImplementsShelf
<1>1. Init => Promise!Init
  BY DEF Init, Promise!Init, Line, Members, Empty
<1>2. IInv /\ IInv' /\ [Next]_vars => [Promise!Next]_([l \in Lists |-> Line(l)])
  BY ShelfStep
<1> QED
  BY <1>1, <1>2, IInvHolds, PTL DEF Spec, ImplementsShelf, Promise!Spec
=============================================================================
