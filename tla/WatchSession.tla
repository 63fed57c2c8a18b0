------------------------------ MODULE WatchSession ------------------------------
(***************************************************************************)
(* A logged-in viewer on the watch page, who goes from video to video: the *)
(* player (hls-video-player.tsx) attaches the media element to a source,   *)
(* recovers from errors and resumes; the tracking (use-watch-tracking.ts)  *)
(* turns its events into a counted view and saved positions; the API keeps *)
(* them.                                                                   *)
(*                                                                         *)
(* The media element and hls.js are external.  What the code builds on: an *)
(* element that loses its source goes back to 0 and later says so, with a  *)
(* timeupdate event, to whoever listens then; every other move of the      *)
(* position is reported at once.  Positions are whole seconds.  The twelve *)
(* seconds between two saves may have passed at any event.                 *)
(***************************************************************************)
EXTENDS Integers, FiniteSets

CONSTANTS
    Videos,
    None,            \* no position, no video
    Duration,        \* of each video
    ResumeAfter,     \* a saved position is resumed beyond this (5) ...
    ResumeBefore,    \* ... and this long before the end (10)
    Limits,          \* of recoveries: MAX_NETWORK_ and MAX_MEDIA_RECOVERY_ATTEMPTS
    MaxAttachments,  \* bound: how often a source is attached; no player closes after that
    MaxSaves         \* bound: how often a position is saved

VARIABLES
    video,       \* the video on the page
    attachment,  \* number of the player's effect run
    loader,      \* loader[n]: how far run n has come with its source
    screen,      \* playerState; "closed": the page shows no player
    recoveries,  \* what the hls.js instance has tried after fatal errors
    position,    \* the element's currentTime
    rewound,     \* the element has yet to say that it went back to 0
    initial,     \* initialPosition: from the last watch query
    resumeAt,    \* where this run resumes; 0: the start, None: it has
    last,        \* lastPosition
    tracking,    \* the refs of useWatchTracking
    saving,      \* history requests under way
    saves,       \* how many have been sent
    viewing,     \* view requests under way, and the seconds they report
    history,     \* API: the viewer's saved position
    viewed,      \* API: videos whose view is counted today
    forward,     \* history: seconds played since this video was opened
    seen         \* history: videos once played long enough for a view

player == <<attachment, loader, screen, recoveries, position, rewound, resumeAt, last>>
requests == <<saving, saves, viewing>>
api == <<history, viewed>>
log == <<forward, seen>>
vars == <<video, initial, player, tracking, requests, api, log>>

Positions == 0..Duration
Attachments == 1..MaxAttachments

Least(a, b) == IF a < b THEN a ELSE b

(* Half the video, at least 1 and at most 10 seconds.                      *)
QualifyingSeconds == LET half == (Duration + 1) \div 2 IN Least(10, IF half > 1 THEN half ELSE 1)

TypeOK ==
    /\ video \in Videos
    /\ attachment \in Attachments
    /\ loader \in [Attachments -> {"none", "native", "importing", "live", "gone"}]
    /\ screen \in {"loading", "ready", "playing", "error", "closed"}
    /\ recoveries \in [network : 0..Limits.network, media : 0..Limits.media]
    /\ position \in Positions /\ rewound \in BOOLEAN
    /\ initial \in Positions
    /\ resumeAt \in Positions \cup {None}
    /\ last \in [video : Videos \cup {None}, seconds : Positions]
    /\ tracking \in [watched : 0..QualifyingSeconds, previous : Positions \cup {None},
                     saved : Positions \cup {None}, viewSent : BOOLEAN]
    /\ saving \subseteq [video : Videos, position : Positions, before : Positions \cup {None}]
    /\ saves \in 0..MaxSaves
    /\ viewing \subseteq [video : Videos, watched : 0..QualifyingSeconds]
    /\ history \in [Videos -> Positions \cup {None}]
    /\ viewed \subseteq Videos
    /\ forward \in 0..QualifyingSeconds /\ seen \subseteq Videos

-----------------------------------------------------------------------------
(* getWatch: a position worth resuming, or 0.                              *)
ResumePosition(v) ==
    IF history[v] # None /\ history[v] > ResumeAfter /\ history[v] < Duration - ResumeBefore
    THEN history[v] ELSE 0

NoRecoveries == [network |-> 0, media |-> 0]

NothingTracked == [watched |-> 0, previous |-> None, saved |-> None, viewSent |-> FALSE]

(* Mutation: the seconds of the video before count on.                     *)
TrackingAnew_KeepsWatched == [NothingTracked EXCEPT !.watched = tracking.watched]

(* The effect on a new videoId.                                            *)
TrackingAnew == NothingTracked

(* A run that is disposed of may wait for the import of hls.js then, and   *)
(* is not stopped by that.                                                 *)
Disposed == IF loader[attachment] = "importing" THEN "importing" ELSE "gone"

(* The next run of the effect.                                             *)
Attach(from) ==
    /\ attachment < MaxAttachments
    /\ attachment' = attachment + 1
    /\ \E how \in {"native", "importing"} :
          loader' = [loader EXCEPT ![attachment + 1] = how, ![attachment] = Disposed]
    /\ screen' = "loading"
    /\ recoveries' = NoRecoveries
    /\ position' = 0
    /\ resumeAt' = from

Init ==
    /\ video \in Videos
    /\ attachment = 1
    /\ loader \in {[n \in Attachments |-> IF n = 1 THEN how ELSE "none"] :
                       how \in {"native", "importing"}}
    /\ screen = "loading"
    /\ recoveries = NoRecoveries
    /\ position = 0 /\ rewound = FALSE
    /\ history = [v \in Videos |-> Duration \div 2]
    /\ initial = ResumePosition(video) /\ resumeAt = initial
    /\ last = [video |-> None, seconds |-> 0]
    /\ tracking = NothingTracked
    /\ saving = {} /\ saves = 0 /\ viewing = {} /\ viewed = {}
    /\ forward = 0 /\ seen = {}

(* The viewer goes to another video.  While its data is loaded the player  *)
(* is unmounted, and a new one has nothing to remember; with data in the   *)
(* cache the same player, and the same element, get the new source.  The   *)
(* callbacks change when this renders, the refs in the effects after it.   *)
(* They are one step: the router mounts the page of another video anew,    *)
(* whose refs no event has reached; and where a page is kept, React is     *)
(* taken to run the effects before the element's next event.               *)
Open(v) ==
    /\ v # video
    /\ video' = v
    /\ initial' = ResumePosition(v)
    /\ Attach(ResumePosition(v))
    /\ \/ rewound' = FALSE /\ last' = [video |-> None, seconds |-> 0]
       \/ screen # "closed" /\ rewound' = (rewound \/ position > 0) /\ UNCHANGED last
    /\ tracking' = TrackingAnew
    /\ forward' = 0
    /\ UNCHANGED <<requests, api, seen>>

(* The watch query is fetched again.  The player attaches nothing anew; if *)
(* the page had no player, it has a new one.                               *)
Refetch ==
    /\ initial' = ResumePosition(video)
    /\ IF screen = "closed"
       THEN Attach(ResumePosition(video)) /\ UNCHANGED <<rewound, last>>
       ELSE UNCHANGED player
    /\ UNCHANGED <<video, tracking, requests, api, log>>

(* The query is in error, whether it has data or not: the page shows the   *)
(* error in the player's place.                                            *)
RefetchFails ==
    /\ screen # "closed" /\ attachment < MaxAttachments
    /\ screen' = "closed"
    /\ loader' = [loader EXCEPT ![attachment] = Disposed]
    /\ recoveries' = NoRecoveries /\ resumeAt' = 0
    /\ position' = 0 /\ rewound' = FALSE
    /\ last' = [video |-> None, seconds |-> 0]
    /\ UNCHANGED <<video, initial, attachment, tracking, requests, api, log>>

(* "Retry playback": the same source again.                                *)
RetryPlayback ==
    /\ screen = "error"
    /\ Attach(IF last.video = video /\ last.seconds > 0 THEN last.seconds ELSE initial)
    /\ rewound' = (rewound \/ position > 0)
    /\ UNCHANGED <<video, initial, last, tracking, requests, api, log>>

-----------------------------------------------------------------------------
(* useWatchTracking.                                                       *)

(* save: nothing within a second of the last saved position.               *)
NeedsSave(p) == tracking.saved = None \/ p # tracking.saved

Save(t, p) ==
    IF NeedsSave(p) /\ saves < MaxSaves
    THEN /\ saves' = saves + 1
         /\ saving' = saving \cup {[video |-> video, position |-> p, before |-> t.saved]}
         /\ tracking' = [t EXCEPT !.saved = p]
    ELSE tracking' = t /\ UNCHANGED <<saving, saves>>

Moved(p) == IF tracking.previous = None THEN 0 ELSE p - tracking.previous

(* A move forward of less than two seconds is playback.                    *)
IsPlayback(delta) == delta > 0 /\ delta < 2

(* onProgress: a view is sent once, and a position at most every 12 s.     *)
Progress(p) ==
    LET played == IF IsPlayback(Moved(p)) THEN Moved(p) ELSE 0
        watched == Least(QualifyingSeconds, tracking.watched + played)
        send == ~tracking.viewSent /\ watched >= QualifyingSeconds
        t == [tracking EXCEPT !.watched = watched, !.previous = p, !.viewSent = @ \/ send]
        f == Least(QualifyingSeconds, forward + played)
    IN  /\ viewing' = IF send THEN viewing \cup {[video |-> video, watched |-> watched]}
                      ELSE viewing
        /\ Save(t, p) \/ (tracking' = t /\ UNCHANGED <<saving, saves>>)
        /\ forward' = f
        /\ seen' = IF f = QualifyingSeconds THEN seen \cup {video} ELSE seen

(* The handler of timeupdate.                                              *)
TimeUpdate(p) ==
    /\ last' = [video |-> video, seconds |-> p]
    /\ Progress(p)

Move(p) ==
    /\ position' = p
    /\ TimeUpdate(p)

Attached == loader[attachment] \in {"native", "live"}

(* loadedmetadata, once for each run.                                      *)
Loaded ==
    /\ Attached /\ resumeAt # None
    /\ resumeAt' = None
    /\ IF resumeAt > 0 /\ resumeAt < Duration - 1
       THEN Move(resumeAt)
       ELSE UNCHANGED <<position, last, tracking, requests, log>>
    /\ UNCHANGED <<video, initial, attachment, loader, screen, recoveries, rewound, api>>

(* canplay, even after an error; waiting.                                  *)
CanPlay ==
    /\ Attached /\ resumeAt = None
    /\ screen' = "ready"
    /\ UNCHANGED <<video, initial, attachment, loader, recoveries, position, rewound, resumeAt,
                   last, tracking, requests, api, log>>

Waiting ==
    /\ Attached /\ resumeAt = None /\ screen # "error"
    /\ screen' = "loading"
    /\ UNCHANGED <<video, initial, attachment, loader, recoveries, position, rewound, resumeAt,
                   last, tracking, requests, api, log>>

(* The event that the rewind of a lost source left behind.                 *)
Rewound ==
    /\ rewound
    /\ rewound' = FALSE
    /\ TimeUpdate(position)
    /\ UNCHANGED <<video, initial, attachment, loader, screen, recoveries, position, resumeAt,
                   api>>

(* Metadata is there: playback goes on by a second, or the viewer seeks.   *)
Play ==
    /\ resumeAt = None /\ screen \notin {"error", "closed"} /\ position < Duration
    /\ Move(position + 1)
    /\ screen' = "playing"
    /\ UNCHANGED <<video, initial, attachment, loader, recoveries, rewound, resumeAt, api>>

Seek(p) ==
    /\ resumeAt = None /\ screen \notin {"error", "closed"} /\ p # position
    /\ Move(p)
    /\ UNCHANGED <<video, initial, attachment, loader, screen, recoveries, rewound, resumeAt, api>>

(* pause, ended, and the flush of a page that is hidden.                   *)
SavePosition ==
    /\ \/ screen # "closed" /\ Save(tracking, position)
       \/ screen # "closed" /\ position = Duration /\ Save(tracking, Duration)
       \/ tracking.previous # None /\ Save(tracking, tracking.previous)
    /\ UNCHANGED <<video, initial, player, viewing, api, log>>

-----------------------------------------------------------------------------
(* hls.js.                                                                 *)

(* Mutation: the import goes on for a source that is not wanted any more.  *)
StillWanted_Ignored(n) == TRUE

(* disposed *)
StillWanted(n) == n = attachment /\ screen # "closed"

Imported(n) ==
    /\ loader[n] = "importing"
    /\ loader' = [loader EXCEPT ![n] = IF StillWanted(n) THEN "live" ELSE "gone"]
    /\ UNCHANGED <<video, initial, attachment, screen, recoveries, position, rewound, resumeAt,
                   last, tracking, requests, api, log>>

(* The import fails, or this browser has no HLS, or the element reports an *)
(* error.                                                                  *)
Unplayable ==
    /\ screen # "closed"
    /\ screen' = "error"
    /\ UNCHANGED <<video, initial, attachment, loader, recoveries, position, rewound, resumeAt,
                   last, tracking, requests, api, log>>

(* A fatal ERROR event: only so many recoveries of the network and of the  *)
(* media for each instance.                                                *)
FatalError(type) ==
    /\ loader[attachment] = "live"
    /\ IF type \in DOMAIN Limits /\ recoveries[type] < Limits[type]
       THEN recoveries' = [recoveries EXCEPT ![type] = @ + 1] /\ screen' = "loading"
       ELSE screen' = "error" /\ UNCHANGED recoveries
    /\ UNCHANGED <<video, initial, attachment, loader, position, rewound, resumeAt,
                   last, tracking, requests, api, log>>

-----------------------------------------------------------------------------
(* The API.                                                                *)

(* The position is stored, and the answer may still be lost; or the        *)
(* request fails, and the tracking takes its last position back unless a   *)
(* later one was sent.                                                     *)
SaveReturns(s) ==
    /\ saving' = saving \ {s}
    /\ \E stored, answered \in BOOLEAN :
          /\ answered => stored
          /\ history' = IF stored THEN [history EXCEPT ![s.video] = s.position] ELSE history
          /\ tracking' = IF ~answered /\ tracking.saved = s.position
                         THEN [tracking EXCEPT !.saved = s.before] ELSE tracking
    /\ UNCHANGED <<video, initial, player, saves, viewing, viewed, log>>

Eligible(w) == w.watched >= QualifyingSeconds

(* recordView counts one view of a video a day.                            *)
ViewReturns(w) ==
    /\ viewing' = viewing \ {w}
    /\ \E stored, answered \in BOOLEAN :
          /\ answered => stored
          /\ viewed' = IF stored /\ Eligible(w) THEN viewed \cup {w.video} ELSE viewed
          /\ tracking' = IF answered THEN tracking ELSE [tracking EXCEPT !.viewSent = FALSE]
    /\ UNCHANGED <<video, initial, player, saving, saves, history, log>>

-----------------------------------------------------------------------------
Next ==
    \/ Refetch \/ RefetchFails \/ RetryPlayback \/ Loaded \/ CanPlay \/ Waiting
    \/ Rewound \/ Play \/ SavePosition \/ Unplayable
    \/ \E v \in Videos : Open(v)
    \/ \E p \in Positions : Seek(p)
    \/ \E n \in Attachments : Imported(n)
    \/ \E type \in {"network", "media", "other"} : FatalError(type)
    \/ \E s \in saving : SaveReturns(s)
    \/ \E w \in viewing : ViewReturns(w)

Spec == Init /\ [][Next]_vars

-----------------------------------------------------------------------------
(* However late the import of hls.js arrives, no instance of an earlier    *)
(* source takes the element (disposed, destroyHls).                        *)
OnlyCurrentPlays ==
    \A n \in Attachments :
        loader[n] \in {"live", "native"} => n = attachment /\ screen # "closed"

(* A view is counted only for a video that was played long enough within   *)
(* one session, however the viewer went to and fro, sought, retried, and   *)
(* whatever answer was lost (useWatchTracking, recordView).                *)
ViewNeedsWatching == viewed \subseteq seen

(* docs/FRONTEND.md: a refetch of the watch query never reloads, destroys  *)
(* or seeks active playback.                                               *)
PlaybackIsKept ==
    [][video' = video /\ screen \in {"ready", "playing"} =>
          attachment' = attachment /\ loader'[attachment] = loader[attachment]]_vars
=============================================================================
