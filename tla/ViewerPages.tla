------------------------------ MODULE ViewerPages ------------------------------
(***************************************************************************)
(* The three parts a viewer's pages are made of: Playlists, Pages and      *)
(* WatchSession.  They share no state, so a behaviour moves one of them    *)
(* (subject), and the other two stay where they are: every behaviour of    *)
(* each part is there, and their numbers of states add up.                 *)
(***************************************************************************)
EXTENDS Playlists

CONSTANTS
    LastRow, ChannelOf, Weight, FirstDates, Limit, Pool, MaxTime,
    Titles, Duration, ResumeAfter, ResumeBefore, Limits, MaxAttachments, MaxSaves

ASSUME RowsAssumption ==
    /\ LastRow \in Nat /\ ChannelOf \in [1..LastRow -> Nat] /\ Weight \in [1..LastRow -> Nat]
    /\ FirstDates \subseteq [created : [1..LastRow -> 0..2], published : [1..LastRow -> 0..2]]
ASSUME PagesAssumption == Limit \in Nat \ {0} /\ Pool \in Nat /\ MaxTime \in Nat /\ MaxTime >= 2
ASSUME SessionAssumption ==
    /\ Duration \in Nat /\ ResumeAfter \in Nat /\ ResumeBefore \in Nat
    /\ Limits \in [network : Nat, media : Nat]
    /\ MaxAttachments \in Nat \ {0} /\ MaxSaves \in Nat

VARIABLES
    subject,
    list, clock, db, shown, building, request,
    video, attachment, loader, screen, recoveries, playhead, rewound, initial, resumeAt,
    last, tracking, saving, saves, viewing, history, viewed, forward, seen

Feed == INSTANCE Pages

Session == INSTANCE WatchSession WITH Videos <- Titles, position <- playhead

pageVars == <<list, clock, db, shown, building, request>>

sessionVars ==
    <<video, attachment, loader, screen, recoveries, playhead, rewound, initial, resumeAt, last,
      tracking, saving, saves, viewing, history, viewed, forward, seen>>

allVars == <<subject, vars, pageVars, sessionVars>>

-----------------------------------------------------------------------------
NoPlaylists ==
    /\ row = [l \in Lists |-> "unused"] /\ position = [l \in Lists |-> Empty]
    /\ exists = Videos /\ lock = [l \in Lists |-> None]
    /\ call = [c \in Calls |-> Idle("none")]

NoPages ==
    /\ list = None /\ clock = None /\ db = None
    /\ shown = None /\ building = None /\ request = None

NoSession ==
    /\ video = None /\ attachment = None /\ loader = None /\ screen = None /\ recoveries = None
    /\ playhead = None /\ rewound = None /\ initial = None /\ resumeAt = None /\ last = None
    /\ tracking = None /\ saving = None /\ saves = None /\ viewing = None
    /\ history = None /\ viewed = None /\ forward = None /\ seen = None

ViewerInit ==
    \/ subject = "playlists" /\ Init /\ NoPages /\ NoSession
    \/ subject = "pages" /\ NoPlaylists /\ Feed!Init /\ NoSession
    \/ subject = "session" /\ NoPlaylists /\ NoPages /\ Session!Init

ViewerNext ==
    \/ subject = "playlists" /\ Next /\ UNCHANGED <<subject, pageVars, sessionVars>>
    \/ subject = "pages" /\ Feed!Next /\ UNCHANGED <<subject, vars, sessionVars>>
    \/ subject = "session" /\ Session!Next /\ UNCHANGED <<subject, vars, pageVars>>

ViewerSpec == ViewerInit /\ [][ViewerNext]_allVars

-----------------------------------------------------------------------------
(* The type invariants of the three parts.                                  *)
AllTypesOK ==
    /\ TypeOK
    /\ subject = "pages" => Feed!TypeOK
    /\ subject = "session" => Session!TypeOK

(* No list shows a row twice while rows come, go and move between two       *)
(* pages, unless its publication was dated back by overlapping saves or its *)
(* channel lost the home feed's subscription boost (feeds.service.ts,       *)
(* search.service.ts and the other keysets).                                *)
NoRowTwice == subject = "pages" => Feed!NoRowTwice

(* No page skips a row that stayed in its place (the cursors).              *)
NothingSkipped == subject = "pages" => Feed!NothingSkipped

(* No late import of hls.js takes the media element (hls-video-player.tsx). *)
OnlyCurrentPlays == subject = "session" => Session!OnlyCurrentPlays

(* A view is counted only for a video that was played long enough since it  *)
(* was opened (use-watch-tracking.ts, history.service.ts).                  *)
ViewNeedsWatching == subject = "session" => Session!ViewNeedsWatching
=============================================================================
