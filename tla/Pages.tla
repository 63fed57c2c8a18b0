--------------------------------- MODULE Pages ---------------------------------
(***************************************************************************)
(* The lists a viewer pages through: what each endpoint selects and how it *)
(* orders it, the cursor that carries the end of one page to the next, and *)
(* the pages a browser keeps while rows come, go and move.  One list is    *)
(* open; the other requests of the system are the changes.                 *)
(*                                                                         *)
(* The browser's side is useInfiniteQuery of a library, modelled from how  *)
(* the widgets use it: "Load more" sends the last page's cursor and appends*)
(* the answer; a refetch asks again for as many pages as there are, each   *)
(* with the cursor of the new page before it, and replaces them together;  *)
(* each of the two cancels the other.                                      *)
(*                                                                         *)
(* No two changes share a moment; rows that are there from the start may   *)
(* have equal dates.  Text match, views and likes of a row are one fixed   *)
(* number: docs/SEARCH.md says that engagement may shift a ranking between *)
(* two pages.  The 7 days of recent history have no beginning here, and    *)
(* the viewer watched at most 200 videos in them: of more, the feed takes  *)
(* any 200 (feeds.service.ts:88-98).                                       *)
(***************************************************************************)
EXTENDS Integers, FiniteSets, Sequences, Functions

CONSTANTS
    LastRow,        \* ids are 1..LastRow
    ChannelOf,      \* whose video: 0 is the viewer's channel, 1 the one whose page may be open
    Weight,         \* Weight[r]: text match, views and likes
    FirstDates,     \* dates of upload and publication the rows may start with; 0: none yet
    Limit,          \* rows on a page
    Pool,           \* candidates from each query of the home feed (150, 75 and 75)
    MaxTime         \* bound: changes happen until then

VARIABLES
    list,        \* the list on the screen
    clock,       \* the moment of the last change
    db,          \* the rows
    shown,       \* the pages on the screen
    building,    \* the pages a refetch has so far
    request      \* what the browser waits for

vars == <<list, clock, db, shown, building, request>>

Rows == 1..LastRow

(* A viewer cannot subscribe to the own channel.                           *)
Channels == {ChannelOf[r] : r \in Rows} \ {0}

VideoLists == {"home", "subscriptions", "channel", "public", "search", "studio", "history"}
PagedLists == VideoLists \cup {"comments", "playlists"}

(* A row is a video, a comment or a playlist, as the list has it.  A video *)
(* with a visibility is READY.  touched: lastWatchedAt of the viewer's     *)
(* history, updatedAt of a playlist; 0: not watched.                       *)
States == {"none", "PROCESSING", "PUBLIC", "UNLISTED", "PRIVATE", "deleted"}

Db == [state : [Rows -> States], created : [Rows -> 0..MaxTime],
       published : [Rows -> 0..MaxTime], touched : [Rows -> 0..MaxTime],
       follows : SUBSET Channels]

(* asOf and next are the cursor; an empty next: there is no more.          *)
PageRecords == [rows : Seq(Rows), asOf : 0..MaxTime, next : {<<>>} \cup (Int \X Nat \X Rows)]

(* History, since the first page was loaded.  steady: the rows the list    *)
(* has had in the same place.  demoted: the rows whose publication was     *)
(* dated back, or whose channel lost its subscription boost.               *)
Views == [pages : Seq(PageRecords), steady : SUBSET Rows, demoted : SUBSET Rows]

TypeOK ==
    /\ list \in PagedLists
    /\ clock \in 0..MaxTime
    /\ db \in Db
    /\ shown \in Views /\ building \in Views
    /\ request \in {"none", "more", "refetch"}
    /\ request = "more" => shown.pages # <<>>
    /\ request # "refetch" => building.pages = <<>>

-----------------------------------------------------------------------------
(* What a query selects from the rows d, and by which key it sorts, latest *)
(* and greatest first.                                                     *)

Exists(d, r) == d.state[r] \notin {"none", "deleted"}

Listed(d, r) == d.state[r] = "PUBLIC" /\ d.published[r] # 0

(* assertWatchAccess *)
CanWatch(d, r) ==
    \/ d.state[r] \in {"PUBLIC", "UNLISTED"}
    \/ d.state[r] = "PRIVATE" /\ ChannelOf[r] = 0

Followed(d, r) == ChannelOf[r] \in d.follows

Before(a, b) ==
    \/ a[1] > b[1]
    \/ a[1] = b[1] /\ a[2] > b[2]
    \/ a[1] = b[1] /\ a[2] = b[2] /\ a[3] > b[3]

(* How many rows come before r, where key has the keys of some rows.       *)
Rank(key, r) == Cardinality({s \in DOMAIN key : Before(key[s], key[r])})

Top(k, key) == {r \in DOMAIN key : Rank(key, r) < k}

(* The first k rows, in order: ORDER BY ... LIMIT k.                       *)
FirstRows(k, key) ==
    LET n == Cardinality(DOMAIN key) IN
    [i \in 1..(IF k < n THEN k ELSE n) |-> CHOOSE r \in DOMAIN key : Rank(key, r) = i - 1]

Subscriptions(d) == {r \in Rows : Listed(d, r) /\ Followed(d, r)}
ChannelVideos(d) == {r \in Rows : Listed(d, r) /\ ChannelOf[r] = 1}
PublicVideos(d) == {r \in Rows : Listed(d, r)}
SearchResults(d) == {r \in Rows : Listed(d, r) /\ Weight[r] > 0}
StudioVideos(d) == {r \in Rows : Exists(d, r) /\ ChannelOf[r] = 0}
History(d) == {r \in Rows : d.touched[r] # 0 /\ CanWatch(d, r)}
Comments(d) == {r \in Rows : Exists(d, r)}
Playlists(d) == {r \in Rows : Exists(d, r)}

Published(d, asOf) == {r \in Rows : Listed(d, r) /\ d.published[r] <= asOf}

Recent(d, S) == [r \in S |-> <<0, d.published[r], r>>]
Popular(d, S) == [r \in S |-> <<Weight[r], d.published[r], r>>]

SubscriptionRows(d, asOf) ==
    Top(Pool, Recent(d, {r \in Published(d, asOf) : Followed(d, r)}))

HomeCandidates(d, asOf) ==
    LET published == Published(d, asOf) IN
    Top(Pool, Recent(d, published)) \cup Top(Pool, Popular(d, published))
        \cup SubscriptionRows(d, asOf)

(* The channels that get the boost: not those the viewer follows, but those*)
(* with a video among the rows of the third query.                         *)
Subscribed(d, asOf) == {ChannelOf[r] : r \in SubscriptionRows(d, asOf)}

Freshness(asOf, date) == LET f == 4 - 2 * (asOf - date) IN IF f > 0 THEN f ELSE 0

(* Mutation: watching a video now counts for the pages that follow.        *)
WatchedRecently_Now(d, r, asOf) == d.touched[r] # 0

WatchedRecently(d, r, asOf) == d.touched[r] # 0 /\ d.touched[r] <= asOf

(* The proportions of a subscription, of having watched the video, and of  *)
(* half a freshness.                                                       *)
FeedScore(d, r, asOf) ==
    Weight[r] + Freshness(asOf, d.published[r])
    + (IF ChannelOf[r] \in Subscribed(d, asOf) THEN 2 ELSE 0)
    - (IF WatchedRecently(d, r, asOf) THEN 3 ELSE 0)

SearchRank(d, r, asOf) == 2 * Weight[r] + Freshness(asOf, d.published[r])

Selected(d, asOf) ==
    CASE list = "home" -> HomeCandidates(d, asOf)
      [] list = "subscriptions" -> Subscriptions(d)
      [] list = "channel" -> ChannelVideos(d)
      [] list = "public" -> PublicVideos(d)
      [] list = "search" -> SearchResults(d)
      [] list = "studio" -> StudioVideos(d)
      [] list = "history" -> History(d)
      [] list = "comments" -> Comments(d)
      [] list = "playlists" -> Playlists(d)

KeyOf(d, r, asOf) ==
    CASE list = "home" -> <<FeedScore(d, r, asOf), d.published[r], r>>
      [] list = "search" -> <<SearchRank(d, r, asOf), d.published[r], r>>
      [] list \in {"subscriptions", "channel", "public"} -> <<0, d.published[r], r>>
      [] list \in {"studio", "comments"} -> <<0, d.created[r], r>>
      [] list \in {"history", "playlists"} -> <<0, d.touched[r], r>>

-----------------------------------------------------------------------------
(* Mutation: only the dates are compared.                                  *)
IsAfter_DateOnly(cursor, key) ==
    cursor[1] > key[1] \/ (cursor[1] = key[1] /\ cursor[2] > key[2])

IsAfter(cursor, key) == Before(cursor, key)

LastPage(view) == view.pages[Len(view.pages)]

(* The first page freezes the time of the ranking.                         *)
RankingTime(view) == IF view.pages = <<>> THEN clock ELSE LastPage(view).asOf

(* The next page of a view: limit + 1 rows are read to see if there are    *)
(* more, and the cursor is the key of the last one that is sent.           *)
NextPage(view) ==
    LET asOf == RankingTime(view)
        ahead == {r \in Selected(db, asOf) :
                     view.pages = <<>> \/ IsAfter(LastPage(view).next, KeyOf(db, r, asOf))}
        rows == FirstRows(Limit, [r \in ahead |-> KeyOf(db, r, asOf)])
    IN  [rows |-> rows, asOf |-> asOf,
         next |-> IF Cardinality(ahead) > Limit THEN KeyOf(db, rows[Len(rows)], asOf) ELSE <<>>]

NoView == [pages |-> <<>>, steady |-> {}, demoted |-> {}]

Extended(view) ==
    IF view.pages = <<>>
    THEN [NoView EXCEPT !.pages = <<NextPage(view)>>, !.steady = Selected(db, clock)]
    ELSE [view EXCEPT !.pages = Append(@, NextPage(view))]

Init ==
    \E dates \in FirstDates :
        /\ list \in PagedLists
        /\ clock = 2
        /\ \E f \in SUBSET Channels :
              db = [state |-> [r \in Rows |-> IF dates.created[r] = 0 THEN "none" ELSE "PUBLIC"],
                    created |-> dates.created, published |-> dates.published,
                    touched |-> dates.published, follows |-> f]
        /\ shown = NoView /\ building = NoView
        /\ request = "none"

-----------------------------------------------------------------------------
(* The browser.                                                            *)

(* The list is opened, or something invalidates it: a change made on this  *)
(* page, the studio's poll, or the viewer asks again after an error.       *)
Refetch ==
    /\ request' = "refetch"
    /\ building' = NoView
    /\ UNCHANGED <<list, clock, db, shown>>

(* Mutation: more is asked for before there is a page to go on from.       *)
HasNextPage_Unasked(view) == view.pages = <<>> \/ LastPage(view).next # <<>>

HasNextPage(view) == view.pages # <<>> /\ LastPage(view).next # <<>>

LoadMore ==
    /\ request # "more" /\ HasNextPage(shown)
    /\ request' = "more"
    /\ building' = NoView
    /\ UNCHANGED <<list, clock, db, shown>>

MorePages ==
    /\ request = "more"
    /\ shown' = Extended(shown)
    /\ request' = "none"
    /\ UNCHANGED <<list, clock, db, building>>

RefetchedPage ==
    /\ request = "refetch"
    /\ LET built == Extended(building) IN
          IF HasNextPage(built) /\ Len(built.pages) < Len(shown.pages)
          THEN building' = built /\ UNCHANGED <<shown, request>>
          ELSE shown' = built /\ building' = NoView /\ request' = "none"
    /\ UNCHANGED <<list, clock, db>>

RequestFails ==
    /\ request # "none"
    /\ request' = "none"
    /\ building' = NoView
    /\ UNCHANGED <<list, clock, db, shown>>

-----------------------------------------------------------------------------
(* The changes.                                                            *)

Now == clock + 1

(* The rows that lose their place to more than newer or better ones: an    *)
(* overlapping save dates them back, or their channel has no video any     *)
(* more among the subscription rows of the home feed.                      *)
DatedBack(new) == {r \in Rows : new.published[r] < db.published[r]}

Unboosted(new, asOf) ==
    IF list # "home" THEN {}
    ELSE LET lost == Subscribed(db, asOf) \ Subscribed(new, asOf) IN
         {r \in Rows : ChannelOf[r] \in lost}

(* History: what becomes of the rows of a view.                            *)
Disturbed(view, new) ==
    IF view.pages = <<>> THEN view
    ELSE LET asOf == view.pages[1].asOf IN
         [view EXCEPT
            !.steady = {r \in @ \cap Selected(new, asOf) :
                           KeyOf(new, r, asOf) = KeyOf(db, r, asOf)},
            !.demoted = @ \cup DatedBack(new) \cup Unboosted(new, asOf)]

Becomes(new) ==
    /\ Now <= MaxTime
    /\ clock' = Now
    /\ db' = new
    /\ shown' = Disturbed(shown, new)
    /\ building' = Disturbed(building, new)
    /\ UNCHANGED <<list, request>>

Upload(r) ==
    /\ list \in VideoLists /\ db.state[r] = "none"
    /\ Becomes([db EXCEPT !.state[r] = "PROCESSING", !.created[r] = Now])

(* Processing ends, or the owner edits the visibility.  The video is dated *)
(* when it is first public.                                                *)
Release(r) ==
    /\ list \in VideoLists /\ Exists(db, r)
    /\ \E visibility \in {"PUBLIC", "UNLISTED", "PRIVATE"} :
          /\ visibility # db.state[r] \/ (visibility = "PUBLIC" /\ db.published[r] = 0)
          /\ Becomes([db EXCEPT !.state[r] = visibility,
                         !.published[r] = IF visibility = "PUBLIC" /\ @ = 0 THEN Now ELSE @])

(* A save that read the row earlier, and overlapped with others, writes    *)
(* the date it made of what it read: none, or any moment since the upload. *)
(* The studio and the history do not look at it.                           *)
LateSave(r) ==
    /\ list \in VideoLists \ {"studio", "history"}
    /\ db.state[r] \in {"PUBLIC", "UNLISTED", "PRIVATE"}
    /\ \E visibility \in {"PUBLIC", "UNLISTED", "PRIVATE"},
          date \in {0} \cup db.created[r]..clock :
          /\ date # db.published[r]
          /\ Becomes([db EXCEPT !.state[r] = visibility, !.published[r] = date])

DeleteVideo(r) ==
    /\ list \in VideoLists /\ Exists(db, r)
    /\ Becomes([db EXCEPT !.state[r] = "deleted", !.touched[r] = 0])

(* The position of the viewer in a video is saved.                         *)
Watch(r) ==
    /\ list \in {"home", "history"} /\ CanWatch(db, r)
    /\ Becomes([db EXCEPT !.touched[r] = Now])

Forget(r) ==
    /\ list \in {"home", "history"} /\ db.touched[r] # 0
    /\ Becomes([db EXCEPT !.touched[r] = 0])

Subscribe(c) ==
    /\ list \in {"home", "subscriptions"} /\ c \notin db.follows
    /\ Becomes([db EXCEPT !.follows = @ \cup {c}])

Unsubscribe(c) ==
    /\ list \in {"home", "subscriptions"} /\ c \in db.follows
    /\ Becomes([db EXCEPT !.follows = @ \ {c}])

PostComment(r) ==
    /\ list = "comments" /\ db.state[r] = "none"
    /\ Becomes([db EXCEPT !.state[r] = "PUBLIC", !.created[r] = Now])

DeleteComment(r) ==
    /\ list = "comments" /\ Exists(db, r)
    /\ Becomes([db EXCEPT !.state[r] = "deleted"])

CreatePlaylist(r) ==
    /\ list = "playlists" /\ db.state[r] = "none"
    /\ Becomes([db EXCEPT !.state[r] = "PUBLIC", !.touched[r] = Now])

(* Its title, visibility or videos change.                                 *)
ChangePlaylist(r) ==
    /\ list = "playlists" /\ Exists(db, r)
    /\ Becomes([db EXCEPT !.touched[r] = Now])

DeletePlaylist(r) ==
    /\ list = "playlists" /\ Exists(db, r)
    /\ Becomes([db EXCEPT !.state[r] = "deleted"])

-----------------------------------------------------------------------------
Browser == Refetch \/ LoadMore \/ MorePages \/ RefetchedPage \/ RequestFails

Change ==
    \/ \E c \in Channels : Subscribe(c) \/ Unsubscribe(c)
    \/ \E r \in Rows :
          \/ Upload(r) \/ Release(r) \/ LateSave(r) \/ DeleteVideo(r) \/ Watch(r) \/ Forget(r)
          \/ PostComment(r) \/ DeleteComment(r)
          \/ CreatePlaylist(r) \/ ChangePlaylist(r) \/ DeletePlaylist(r)

Next == Browser \/ Change

Spec == Init /\ [][Next]_vars

-----------------------------------------------------------------------------
RowsOf(view) == UNION {Range(view.pages[i].rows) : i \in DOMAIN view.pages}

(* No list shows a row twice, whatever happens between two pages: a row    *)
(* that moves only moves to the front, and what the viewer watches, what   *)
(* is published and the passing of time do not take it behind the cursor   *)
(* of a ranking the first page froze.  Two things do, and only for the row *)
(* they happen to.  Overlapping saves can date its publication back        *)
(* (videos.service.ts:355-371).  And in the home feed its channel loses    *)
(* the boost when it has no video among the subscription rows any more: it *)
(* is unsubscribed, its videos there are taken away, or those of another   *)
(* followed channel fill the rows, because that channel is followed now or *)
(* its videos were dated back or listed again (feeds.service.ts:76-86,     *)
(* 102-104, 119; search.service.ts and the keysets of the other lists).    *)
NoRowTwice ==
    \A i, j \in DOMAIN shown.pages :
        \A k \in DOMAIN shown.pages[i].rows, l \in DOMAIN shown.pages[j].rows :
            /\ shown.pages[i].rows[k] = shown.pages[j].rows[l]
            /\ shown.pages[i].rows[k] \notin shown.demoted
            => i = j /\ k = l

(* A row that was in the list all the time and kept its place is on the    *)
(* screen or still ahead, whatever was inserted, removed or moved around   *)
(* it (the cursor names a place, not a count; ties are broken by id).      *)
NothingSkipped ==
    shown.pages # <<>> =>
        \A r \in shown.steady :
            \/ r \in RowsOf(shown)
            \/ /\ HasNextPage(shown)
               /\ Before(LastPage(shown).next, KeyOf(db, r, shown.pages[1].asOf))
=============================================================================
