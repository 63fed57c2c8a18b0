---------------------------- MODULE WorkerShutdown ----------------------------
(***************************************************************************)
(* A worker process and the media tools it runs, from the delivery of a    *)
(* job to the end of the process: VideoWorkerService.onApplicationShutdown *)
(* pauses the queue, lets running executions finish, cancels those that do *)
(* not, and abandons those that ignore it, each wait under a bound; and    *)
(* runProcess, which runs ffprobe and ffmpeg, answers an abort or a        *)
(* timeout by ending the child, and settles when the child is gone.        *)
(*                                                                         *)
(* AttemptOwnership models what an execution does to the row and to the    *)
(* storage; here an execution is what shutdown and cancellation see of it. *)
(* Time is left out: a bounded wait may run out at any step, with one      *)
(* exception, which is named where it is used (ToolsHadTheirGrace).        *)
(* BullMQ is external: after pause() a fetch already under way may still   *)
(* deliver one job, and close() waits for the executions unless forced.    *)
(***************************************************************************)
EXTENDS HlsRenditions

CONSTANTS
    Jobs,           \* the jobs the queue has for this worker
    Concurrency,    \* WORKER_CONCURRENCY
    Streams,        \* what ffprobe may find in their files
    NoSource        \* the file has not been probed

ASSUME JobsAssumption == IsFiniteSet(Jobs)
ASSUME ConcurrencyAssumption == Concurrency \in Nat \ {0}
ASSUME StreamsAssumption == \A s \in Streams : s.width \in Nat /\ s.height \in Nat
ASSUME NoSourceAssumption == NoSource \notin {Displayed(s) : s \in Streams}

VARIABLES
    phase,        \* how far the shutdown is
    fetching,     \* BullMQ may deliver another job
    awaited,      \* the executions the current wait was started for
    cancelled,    \* shutdown.signal is aborted
    stage,        \* where each execution is
    aborted,      \* the signal of the execution's lease
    source,       \* the size of the probed picture
    plan,         \* the media tools still to run
    child,        \* the process of the tool that runs
    terminated,   \* runProcess: why the child was told to end
    late          \* history: delivered when nobody waited for it any more

shutdown == <<phase, fetching, awaited, cancelled>>
tool == <<child, terminated>>
vars == <<shutdown, stage, aborted, source, plan, tool, late>>

Phases == {"serving", "pausing", "grace", "settling", "closing", "forcedClosing", "stopped"}

(* "reading": the rows are read and the attempt acquired, no lease yet.    *)
(* "tool": runProcess is pending.  "ready": between two tools.             *)
(* "cleaning": finally blocks, and the record of the failure.              *)
Stages == {"queued", "reading", "transferring", "ready", "tool", "publishing", "cleaning",
           "settled"}

(* "unborn": the executable could not be spawned.  "asked": SIGTERM was    *)
(* sent and SIGKILL is due after killGraceMs.  "exited": it ended by       *)
(* itself, and its pipes have not closed yet.                              *)
Children == {"none", "unborn", "running", "asked", "killed", "exited"}

Probe == Picture("ffprobe", [width |-> 0, height |-> 0])
Sources == {Displayed(s) : s \in {t \in Streams : Usable(t)}}
Tools == {Probe} \cup UNION {{Pictures(s)[i] : i \in DOMAIN Pictures(s)} : s \in Sources}

(* The types, and that there is a child while, and only while, a           *)
(* runProcess is pending.                                                  *)
TypeOK ==
    /\ phase \in Phases
    /\ fetching \in BOOLEAN
    /\ awaited \subseteq Jobs
    /\ cancelled \in BOOLEAN
    /\ stage \in [Jobs -> Stages]
    /\ aborted \in [Jobs -> BOOLEAN]
    /\ source \in [Jobs -> Sources \cup {NoSource}]
    /\ plan \in [Jobs -> Seq(Tools)]
    /\ child \in [Jobs -> Children]
    /\ terminated \in [Jobs -> {"no", "aborted", "timeout"}]
    /\ late \in [Jobs -> BOOLEAN]
    /\ \A j \in Jobs : child[j] # "none" <=> stage[j] = "tool"

Init ==
    /\ phase = "serving"
    /\ fetching = TRUE
    /\ awaited = {}
    /\ cancelled = FALSE
    /\ stage = [j \in Jobs |-> "queued"]
    /\ aborted = [j \in Jobs |-> FALSE]
    /\ source = [j \in Jobs |-> NoSource]
    /\ plan = [j \in Jobs |-> <<>>]
    /\ child = [j \in Jobs |-> "none"]
    /\ terminated = [j \in Jobs |-> "no"]
    /\ late = [j \in Jobs |-> FALSE]

-----------------------------------------------------------------------------
(* Mutation: executions are tracked once they own their row.               *)
Active_Acquired == {j \in Jobs : stage[j] \notin {"queued", "reading", "settled"}}

(* VideoWorkerService.active                                               *)
Active == {j \in Jobs : stage[j] \notin {"queued", "settled"}}

(* The signal reaches the tool at once, in the same turn of the event      *)
(* loop.  A child that has ended, or never started, is not disturbed.      *)
Told(j) == child[j] # "none" /\ terminated[j] = "no"

Terminate(cancelledJobs) ==
    /\ terminated' = [j \in Jobs |-> IF j \in cancelledJobs /\ Told(j) THEN "aborted"
                                     ELSE terminated[j]]
    /\ child' = [j \in Jobs |-> IF j \in cancelledJobs /\ child[j] = "running" THEN "asked"
                                ELSE child[j]]

(* A lease listens from its start to its end.                              *)
HasLease(j) == stage[j] \in {"transferring", "ready", "tool", "publishing"}

Move(j, next) == stage' = [stage EXCEPT ![j] = next]

(* The work of an execution is over, done or not: what remains is finally. *)
EndWork(j) ==
    /\ Move(j, "cleaning")
    /\ source' = [source EXCEPT ![j] = NoSource]
    /\ plan' = [plan EXCEPT ![j] = <<>>]

(* Mutation: it settles with the request to end, not with the end.         *)
ToolSettles_Detached(j) ==
    /\ child' = [child EXCEPT ![j] = IF @ = "asked" THEN "asked" ELSE "none"]
    /\ terminated' = [terminated EXCEPT ![j] = "no"]

(* A pending runProcess settles.                                           *)
ToolSettles(j) ==
    /\ child' = [child EXCEPT ![j] = "none"]
    /\ terminated' = [terminated EXCEPT ![j] = "no"]

-----------------------------------------------------------------------------
(* An execution.                                                           *)

Deliver(j) ==
    /\ stage[j] = "queued"
    /\ fetching /\ Cardinality({k \in Jobs : stage[k] \notin {"queued", "settled"}}) < Concurrency
    /\ Move(j, "reading")
    /\ fetching' = (phase = "serving")
    /\ late' = [late EXCEPT ![j] = phase \notin {"serving", "pausing"}]
    /\ UNCHANGED <<phase, awaited, cancelled, aborted, source, plan, tool>>

(* The job is refused, skipped or could not be acquired.                   *)
TakeNothing(j) ==
    /\ stage[j] = "reading"
    /\ Move(j, "settled")
    /\ UNCHANGED <<shutdown, aborted, source, plan, tool, late>>

(* Mutation: a shutdown that came first is not noticed.                    *)
StartsCancelled_Never == FALSE

(* AttemptLease.start: a shutdown that came first cancels at once.         *)
StartsCancelled == cancelled

StartLease(j) ==
    /\ stage[j] = "reading"
    /\ aborted' = [aborted EXCEPT ![j] = StartsCancelled]
    /\ Move(j, IF StartsCancelled THEN "cleaning" ELSE "transferring")
    /\ UNCHANGED <<shutdown, source, plan, tool, late>>

Downloaded(j) ==
    /\ stage[j] = "transferring" /\ ~aborted[j]
    /\ Move(j, "ready")
    /\ plan' = [plan EXCEPT ![j] = <<Probe>>]
    /\ UNCHANGED <<shutdown, aborted, source, tool, late>>

(* throwIfAborted before each rendition, and runProcess itself.            *)
MayStart(j) == ~aborted[j]

StartTool(j) ==
    /\ stage[j] = "ready" /\ plan[j] # <<>>
    /\ MayStart(j)
    /\ Move(j, "tool")
    /\ \E c \in {"running", "unborn"} : child' = [child EXCEPT ![j] = c]
    /\ UNCHANGED <<shutdown, aborted, source, plan, terminated, late>>

(* The work fails, or an abort interrupts it, between two tools or in a    *)
(* transfer.                                                               *)
Interrupted(j) ==
    /\ stage[j] \in {"transferring", "ready", "publishing"}
    /\ EndWork(j)
    /\ UNCHANGED <<shutdown, aborted, tool, late>>

StartPublishing(j) ==
    /\ stage[j] = "ready" /\ plan[j] = <<>> /\ ~aborted[j]
    /\ Move(j, "publishing")
    /\ UNCHANGED <<shutdown, aborted, source, plan, tool, late>>

(* Uploads, commit, and the removal of what the commit replaced.           *)
Published(j) ==
    /\ stage[j] = "publishing"
    /\ EndWork(j)
    /\ UNCHANGED <<shutdown, aborted, tool, late>>

(* Cleanup and the record of a failure are bounded and do not listen to    *)
(* the shutdown.                                                           *)
Settle(j) ==
    /\ stage[j] = "cleaning"
    /\ Move(j, "settled")
    /\ aborted' = [aborted EXCEPT ![j] = FALSE]
    /\ UNCHANGED <<shutdown, source, plan, tool, late>>

(* Ownership is lost or unconfirmed, or the attempt's deadline passes.     *)
LoseLease(j) ==
    /\ HasLease(j) /\ ~aborted[j]
    /\ aborted' = [aborted EXCEPT ![j] = TRUE]
    /\ Terminate({j})
    /\ UNCHANGED <<shutdown, stage, source, plan, late>>

-----------------------------------------------------------------------------
(* The pending runProcess of an execution.                                 *)

(* 'error': the executable could not be spawned.                           *)
CouldNotStart(j) ==
    /\ child[j] = "unborn"
    /\ ToolSettles(j) /\ EndWork(j)
    /\ UNCHANGED <<shutdown, aborted, late>>

(* The child ends by itself.  After an abort or a timeout 'exit' settles;  *)
(* otherwise 'close' does, when its pipes are closed.                      *)
Exit(j) ==
    /\ child[j] \in {"running", "asked"}
    /\ IF terminated[j] # "no"
       THEN ToolSettles(j) /\ EndWork(j)
       ELSE child' = [child EXCEPT ![j] = "exited"] /\ UNCHANGED <<stage, source, plan, terminated>>
    /\ UNCHANGED <<shutdown, aborted, late>>

(* 'close', with the output of a tool that did its work: the probe says    *)
(* what is left to do, or that the file is no usable video.                *)
Succeeds(j) ==
    /\ child[j] = "exited" /\ terminated[j] = "no"
    /\ ToolSettles(j) /\ Move(j, "ready")
    /\ IF Head(plan[j]) = Probe
       THEN \E s \in Sources :
               /\ source' = [source EXCEPT ![j] = s]
               /\ plan' = [plan EXCEPT ![j] = Pictures(s)]
       ELSE plan' = [plan EXCEPT ![j] = Tail(@)] /\ UNCHANGED source
    /\ UNCHANGED <<shutdown, aborted, late>>

(* 'close' after a failure, an unusable result, or an abort that came when *)
(* the child had already ended.                                            *)
FailsOrUnusable(j) ==
    /\ child[j] = "exited"
    /\ ToolSettles(j) /\ EndWork(j)
    /\ UNCHANGED <<shutdown, aborted, late>>

TimeOut(j) ==
    /\ Told(j)
    /\ terminated' = [terminated EXCEPT ![j] = "timeout"]
    /\ child' = [child EXCEPT ![j] = IF @ = "running" THEN "killed" ELSE @]
    /\ UNCHANGED <<shutdown, stage, aborted, source, plan, late>>

(* Mutation: the timer is cleared with the polite request.                 *)
EscalationDue_Never(j) == FALSE

EscalationDue(j) == child[j] = "asked"

(* killGraceMs after SIGTERM.                                              *)
Escalate(j) ==
    /\ EscalationDue(j)
    /\ child' = [child EXCEPT ![j] = "killed"]
    /\ UNCHANGED <<shutdown, stage, aborted, source, plan, terminated, late>>

(* SIGKILL is not refused: 'exit'.                                         *)
Killed(j) ==
    /\ child[j] = "killed"
    /\ ToolSettles(j) /\ EndWork(j)
    /\ UNCHANGED <<shutdown, aborted, late>>

-----------------------------------------------------------------------------
(* onApplicationShutdown.                                                  *)

RequestShutdown ==
    /\ phase = "serving"
    /\ phase' = "pausing"
    /\ UNCHANGED <<fetching, awaited, cancelled, stage, aborted, source, plan, tool, late>>

(* Wait for the executions there are, or go on if there is none.           *)
Await(waiting, otherwise) ==
    IF Active = {}
    THEN phase' = otherwise /\ awaited' = {}
    ELSE phase' = waiting /\ awaited' = Active

(* pause(true) resolved, or its time is up.                                *)
Paused ==
    /\ phase = "pausing"
    /\ Await("grace", "closing")
    /\ UNCHANGED <<fetching, cancelled, stage, aborted, source, plan, tool, late>>

AwaitedSettled == awaited \cap Active = {}

AllSettled ==
    /\ phase \in {"grace", "settling"} /\ AwaitedSettled
    /\ phase' = "closing"
    /\ awaited' = {}
    /\ UNCHANGED <<fetching, cancelled, stage, aborted, source, plan, tool, late>>

(* The grace period is over: every lease is cancelled, and every tool told.*)
CancelAttempts ==
    /\ phase = "grace"
    /\ cancelled' = TRUE
    /\ aborted' = [j \in Jobs |-> aborted[j] \/ HasLease(j)]
    /\ Terminate({j \in Jobs : HasLease(j) /\ ~aborted[j]})
    /\ Await("settling", "closing")
    /\ UNCHANGED <<fetching, stage, source, plan, late>>

(* settleTimeoutMs is longer than killGraceMs: whoever was asked to end    *)
(* when the wait began has ended or been killed when it is over.           *)
ToolsHadTheirGrace == \A j \in Jobs : child[j] # "asked"

(* Mutation: the wait is not bounded.                                      *)
SettleTimeIsUp_WhenSettled == AwaitedSettled

SettleTimeIsUp == ToolsHadTheirGrace

Abandon ==
    /\ phase = "settling" /\ SettleTimeIsUp
    /\ phase' = "forcedClosing"
    /\ awaited' = {}
    /\ UNCHANGED <<fetching, cancelled, stage, aborted, source, plan, tool, late>>

(* close(force) resolved, or its time is up: the process ends.             *)
Stop ==
    /\ phase \in {"closing", "forcedClosing"}
    /\ phase' = "stopped"
    /\ fetching' = FALSE
    /\ UNCHANGED <<awaited, cancelled, stage, aborted, source, plan, tool, late>>

(* The fetch under way when the queue was paused finds nothing.            *)
FetchEnds ==
    /\ fetching /\ phase # "serving"
    /\ fetching' = FALSE
    /\ UNCHANGED <<phase, awaited, cancelled, stage, aborted, source, plan, tool, late>>

-----------------------------------------------------------------------------
ExecutionStep(j) ==
    \/ Deliver(j) \/ TakeNothing(j) \/ StartLease(j) \/ Downloaded(j) \/ StartTool(j)
    \/ Interrupted(j) \/ StartPublishing(j) \/ Published(j) \/ Settle(j) \/ LoseLease(j)

ToolStep(j) ==
    \/ CouldNotStart(j) \/ Exit(j) \/ Succeeds(j) \/ FailsOrUnusable(j) \/ TimeOut(j)
    \/ Escalate(j) \/ Killed(j)

ShutdownStep ==
    Paused \/ AllSettled \/ CancelAttempts \/ Abandon \/ Stop

(* Nothing of this happens any more when the process has ended.            *)
Next ==
    /\ phase # "stopped"
    /\ \/ RequestShutdown \/ ShutdownStep \/ FetchEnds
       \/ \E j \in Jobs : ExecutionStep(j) \/ ToolStep(j)

(* Timers fire, a killed child ends, and the pipes of a child that has     *)
(* ended close.  Nothing is assumed of the work itself: downloads, tools   *)
(* and uploads may take forever.                                           *)
Fairness ==
    /\ WF_vars(phase # "stopped" /\ ShutdownStep)
    /\ \A j \in Jobs :
          /\ WF_vars(phase # "stopped" /\ Escalate(j))
          /\ WF_vars(phase # "stopped" /\ (Killed(j) \/ CouldNotStart(j)))
          /\ WF_vars(phase # "stopped" /\ (Succeeds(j) \/ FailsOrUnusable(j)))

Spec == Init /\ [][Next]_vars /\ Fairness

-----------------------------------------------------------------------------
Alive(j) == child[j] \in {"running", "asked", "killed"}

(* A media process always has a runProcess that waits for it, and none     *)
(* runs on untold after its attempt, or the whole worker, was cancelled    *)
(* (runProcess, AttemptLease.start, onApplicationShutdown).                *)
ChildrenObey ==
    \A j \in Jobs :
        Alive(j) => stage[j] = "tool" /\ (aborted[j] \/ cancelled => terminated[j] # "no")

(* When the process ends, the executions it leaves behind were cancelled,  *)
(* and their tools have ended or been killed, except for those of a job    *)
(* that a fetch under way delivered after the shutdown had counted         *)
(* (activeSettledWithin, process).                                         *)
LeftBehindWasTold ==
    phase = "stopped" =>
        \A j \in Active : late[j] \/ (cancelled /\ child[j] \notin {"running", "asked"})

FitsSource(picture, s) ==
    /\ picture.width \in 2..s.width /\ picture.width % 2 = 0
    /\ picture.height \in 2..s.height /\ picture.height % 2 = 0

(* Every picture ffmpeg is asked for has even sides within the source's    *)
(* (selectRenditions, fitWithin720p).                                      *)
PicturesFit ==
    \A j \in Jobs : source[j] # NoSource =>
        \A i \in DOMAIN plan[j] : FitsSource(plan[j][i], source[j])

(* A tool that is told to end keeps its execution waiting only so long,    *)
(* even if it ignores the request (runProcess escalates).                  *)
ToldToolSettles ==
    \A j \in Jobs :
        terminated[j] # "no" ~> stage[j] # "tool" \/ phase = "stopped"

(* The process ends, whatever its executions do (every wait of             *)
(* onApplicationShutdown is bounded).                                      *)
ShutdownEnds == phase # "serving" ~> phase = "stopped"
=============================================================================
