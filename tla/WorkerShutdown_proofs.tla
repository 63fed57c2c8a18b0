------------------------- MODULE WorkerShutdown_proofs -------------------------
(***************************************************************************)
(* Proofs about WorkerShutdown, for any number of jobs, any concurrency    *)
(* and any streams that their files may hold; and about the sizes of       *)
(* HlsRenditions, for any source.                                          *)
(***************************************************************************)
EXTENDS WorkerShutdown, FiniteSetTheorems, TLAPS

(* What the invariant needs to know of the types.                          *)
Typed ==
    /\ phase \in Phases
    /\ awaited \subseteq Jobs
    /\ cancelled \in BOOLEAN
    /\ stage \in [Jobs -> Stages]
    /\ aborted \in [Jobs -> BOOLEAN]
    /\ child \in [Jobs -> Children]
    /\ terminated \in [Jobs -> {"no", "aborted", "timeout"}]
    /\ late \in [Jobs -> BOOLEAN]

(* There is a child while, and only while, a runProcess is pending, and a  *)
(* child was told to end if it was asked or killed; one that runs was not. *)
OneChildPerTool ==
    \A j \in Jobs :
        /\ child[j] # "none" <=> stage[j] = "tool"
        /\ terminated[j] # "no" => child[j] # "none"
        /\ child[j] \in {"asked", "killed"} => terminated[j] # "no"
        /\ child[j] = "running" => terminated[j] = "no"

(* The shutdown aborts every lease, also one that starts later, and an     *)
(* abort tells the tool that runs.                                         *)
AbortsReachTools ==
    \A j \in Jobs :
        /\ cancelled /\ HasLease(j) => aborted[j]
        /\ aborted[j] /\ child[j] # "none" => terminated[j] # "no"

(* Whom the shutdown waits for: everybody but the late ones; and once it   *)
(* has given up waiting, everybody was cancelled and nobody is only asked. *)
EverybodyCounted ==
    /\ phase \in {"grace", "settling"} => \A j \in Active : late[j] \/ j \in awaited
    /\ phase = "closing" => \A j \in Active : late[j]
    /\ phase = "settling" => cancelled
    /\ phase = "forcedClosing" => cancelled /\ ToolsHadTheirGrace

IInv ==
    /\ Typed
    /\ OneChildPerTool
    /\ AbortsReachTools
    /\ EverybodyCounted
    /\ LeftBehindWasTold

(* BullMQ delivers a job.                                                  *)
LEMMA DeliverIInv ==
    ASSUME IInv, NEW j \in Jobs, Deliver(j)
    PROVE  IInv'
<1>1. Typed'
    BY DEF
        IInv, Deliver, Move, shutdown, tool, Typed, Phases, Stages
<1>2. OneChildPerTool'
    BY DEF
        IInv, Deliver, Move, shutdown, tool, Typed, OneChildPerTool
<1>3. AbortsReachTools'
    BY DEF
        IInv, Deliver, Move, shutdown, tool, Typed, OneChildPerTool,
        AbortsReachTools, HasLease
<1>4. EverybodyCounted' /\ LeftBehindWasTold'
    BY DEF
        IInv, Deliver, Move, shutdown, tool, Typed, OneChildPerTool,
        AbortsReachTools, EverybodyCounted, LeftBehindWasTold,
        ToolsHadTheirGrace, HasLease, Active
<1>5. QED BY <1>1, <1>2, <1>3, <1>4 DEF IInv

(* An execution has nothing to do.                                         *)
LEMMA TakeNothingIInv ==
    ASSUME IInv, NEW j \in Jobs, TakeNothing(j)
    PROVE  IInv'
<1>1. Typed'
    BY DEF
        IInv, TakeNothing, Move, shutdown, tool, Typed, Phases, Stages
<1>2. OneChildPerTool'
    BY DEF
        IInv, TakeNothing, Move, shutdown, tool, Typed, OneChildPerTool
<1>3. AbortsReachTools'
    BY DEF
        IInv, TakeNothing, Move, shutdown, tool, Typed, OneChildPerTool,
        AbortsReachTools, HasLease
<1>4. EverybodyCounted' /\ LeftBehindWasTold'
    BY DEF
        IInv, TakeNothing, Move, shutdown, tool, Typed, OneChildPerTool,
        AbortsReachTools, EverybodyCounted, LeftBehindWasTold,
        ToolsHadTheirGrace, HasLease, Active
<1>5. QED BY <1>1, <1>2, <1>3, <1>4 DEF IInv

(* A lease starts.                                                         *)
LEMMA StartLeaseIInv ==
    ASSUME IInv, NEW j \in Jobs, StartLease(j)
    PROVE  IInv'
<1>1. Typed'
    BY DEF
        IInv, StartLease, Move, StartsCancelled, shutdown, tool, Typed,
        Phases, Stages
<1>2. OneChildPerTool'
    BY DEF
        IInv, StartLease, Move, StartsCancelled, shutdown, tool, Typed,
        OneChildPerTool
<1>3. AbortsReachTools'
    BY DEF
        IInv, StartLease, Move, StartsCancelled, shutdown, tool, Typed,
        OneChildPerTool, AbortsReachTools, HasLease
<1>4. EverybodyCounted' /\ LeftBehindWasTold'
    BY DEF
        IInv, StartLease, Move, StartsCancelled, shutdown, tool, Typed,
        OneChildPerTool, AbortsReachTools, EverybodyCounted,
        LeftBehindWasTold, ToolsHadTheirGrace, HasLease, Active
<1>5. QED BY <1>1, <1>2, <1>3, <1>4 DEF IInv

(* The source is there.                                                    *)
LEMMA DownloadedIInv ==
    ASSUME IInv, NEW j \in Jobs, Downloaded(j)
    PROVE  IInv'
<1>1. Typed'
    BY DEF
        IInv, Downloaded, Move, shutdown, tool, Typed, Phases, Stages
<1>2. OneChildPerTool'
    BY DEF
        IInv, Downloaded, Move, shutdown, tool, Typed, OneChildPerTool
<1>3. AbortsReachTools'
    BY DEF
        IInv, Downloaded, Move, shutdown, tool, Typed, OneChildPerTool,
        AbortsReachTools, HasLease
<1>4. EverybodyCounted' /\ LeftBehindWasTold'
    BY DEF
        IInv, Downloaded, Move, shutdown, tool, Typed, OneChildPerTool,
        AbortsReachTools, EverybodyCounted, LeftBehindWasTold,
        ToolsHadTheirGrace, HasLease, Active
<1>5. QED BY <1>1, <1>2, <1>3, <1>4 DEF IInv

(* A tool is started.                                                      *)
LEMMA StartToolIInv ==
    ASSUME IInv, NEW j \in Jobs, StartTool(j)
    PROVE  IInv'
<1>1. Typed'
    BY DEF
        IInv, StartTool, Move, MayStart, shutdown, tool, Typed, Phases,
        Stages, Children
<1>2. OneChildPerTool'
    BY DEF
        IInv, StartTool, Move, MayStart, shutdown, tool, Typed,
        OneChildPerTool
<1>3. AbortsReachTools'
    BY DEF
        IInv, StartTool, Move, MayStart, shutdown, tool, Typed,
        OneChildPerTool, AbortsReachTools, HasLease
<1>4. EverybodyCounted' /\ LeftBehindWasTold'
    BY DEF
        IInv, StartTool, Move, MayStart, shutdown, tool, Typed,
        OneChildPerTool, AbortsReachTools, EverybodyCounted,
        LeftBehindWasTold, ToolsHadTheirGrace, HasLease, Active
<1>5. QED BY <1>1, <1>2, <1>3, <1>4 DEF IInv

(* The work ends between two tools.                                        *)
LEMMA InterruptedIInv ==
    ASSUME IInv, NEW j \in Jobs, Interrupted(j)
    PROVE  IInv'
<1>1. Typed'
    BY DEF
        IInv, Interrupted, Move, EndWork, shutdown, tool, Typed, Phases,
        Stages
<1>2. OneChildPerTool'
    BY DEF
        IInv, Interrupted, Move, EndWork, shutdown, tool, Typed,
        OneChildPerTool
<1>3. AbortsReachTools'
    BY DEF
        IInv, Interrupted, Move, EndWork, shutdown, tool, Typed,
        OneChildPerTool, AbortsReachTools, HasLease
<1>4. EverybodyCounted' /\ LeftBehindWasTold'
    BY DEF
        IInv, Interrupted, Move, EndWork, shutdown, tool, Typed,
        OneChildPerTool, AbortsReachTools, EverybodyCounted,
        LeftBehindWasTold, ToolsHadTheirGrace, HasLease, Active
<1>5. QED BY <1>1, <1>2, <1>3, <1>4 DEF IInv

(* The work is ready to be published.                                      *)
LEMMA StartPublishingIInv ==
    ASSUME IInv, NEW j \in Jobs, StartPublishing(j)
    PROVE  IInv'
<1>1. Typed'
    BY DEF
        IInv, StartPublishing, Move, shutdown, tool, Typed, Phases, Stages
<1>2. OneChildPerTool'
    BY DEF
        IInv, StartPublishing, Move, shutdown, tool, Typed, OneChildPerTool
<1>3. AbortsReachTools'
    BY DEF
        IInv, StartPublishing, Move, shutdown, tool, Typed, OneChildPerTool,
        AbortsReachTools, HasLease
<1>4. EverybodyCounted' /\ LeftBehindWasTold'
    BY DEF
        IInv, StartPublishing, Move, shutdown, tool, Typed, OneChildPerTool,
        AbortsReachTools, EverybodyCounted, LeftBehindWasTold,
        ToolsHadTheirGrace, HasLease, Active
<1>5. QED BY <1>1, <1>2, <1>3, <1>4 DEF IInv

(* The work is published.                                                  *)
LEMMA PublishedIInv ==
    ASSUME IInv, NEW j \in Jobs, Published(j)
    PROVE  IInv'
<1>1. Typed'
    BY DEF
        IInv, Published, Move, EndWork, shutdown, tool, Typed, Phases, Stages
<1>2. OneChildPerTool'
    BY DEF
        IInv, Published, Move, EndWork, shutdown, tool, Typed, OneChildPerTool
<1>3. AbortsReachTools'
    BY DEF
        IInv, Published, Move, EndWork, shutdown, tool, Typed,
        OneChildPerTool, AbortsReachTools, HasLease
<1>4. EverybodyCounted' /\ LeftBehindWasTold'
    BY DEF
        IInv, Published, Move, EndWork, shutdown, tool, Typed,
        OneChildPerTool, AbortsReachTools, EverybodyCounted,
        LeftBehindWasTold, ToolsHadTheirGrace, HasLease, Active
<1>5. QED BY <1>1, <1>2, <1>3, <1>4 DEF IInv

(* An execution ends.                                                      *)
LEMMA SettleIInv ==
    ASSUME IInv, NEW j \in Jobs, Settle(j)
    PROVE  IInv'
<1>1. Typed'
    BY DEF
        IInv, Settle, Move, shutdown, tool, Typed, Phases, Stages
<1>2. OneChildPerTool'
    BY DEF
        IInv, Settle, Move, shutdown, tool, Typed, OneChildPerTool
<1>3. AbortsReachTools'
    BY DEF
        IInv, Settle, Move, shutdown, tool, Typed, OneChildPerTool,
        AbortsReachTools, HasLease
<1>4. EverybodyCounted' /\ LeftBehindWasTold'
    BY DEF
        IInv, Settle, Move, shutdown, tool, Typed, OneChildPerTool,
        AbortsReachTools, EverybodyCounted, LeftBehindWasTold,
        ToolsHadTheirGrace, HasLease, Active
<1>5. QED BY <1>1, <1>2, <1>3, <1>4 DEF IInv

(* A lease is lost.                                                        *)
LEMMA LoseLeaseIInv ==
    ASSUME IInv, NEW j \in Jobs, LoseLease(j)
    PROVE  IInv'
<1>1. Typed'
    BY DEF
        IInv, LoseLease, Terminate, Told, shutdown, tool, Typed, Phases,
        Stages, Children
<1>2. OneChildPerTool'
    BY DEF
        IInv, LoseLease, Terminate, Told, shutdown, tool, Typed,
        OneChildPerTool
<1>3. AbortsReachTools'
    BY DEF
        IInv, LoseLease, Terminate, Told, shutdown, tool, Typed,
        OneChildPerTool, AbortsReachTools
<1>4. EverybodyCounted' /\ LeftBehindWasTold'
    BY DEF
        IInv, LoseLease, Terminate, Told, shutdown, tool, Typed,
        OneChildPerTool, AbortsReachTools, EverybodyCounted,
        LeftBehindWasTold, ToolsHadTheirGrace, HasLease, Active
<1>5. QED BY <1>1, <1>2, <1>3, <1>4 DEF IInv

(* A child could not be spawned.                                           *)
LEMMA CouldNotStartIInv ==
    ASSUME IInv, NEW j \in Jobs, CouldNotStart(j)
    PROVE  IInv'
<1>1. Typed'
    BY DEF
        IInv, CouldNotStart, Move, EndWork, ToolSettles, shutdown, tool,
        Typed, Phases, Stages, Children
<1>2. OneChildPerTool'
    BY DEF
        IInv, CouldNotStart, Move, EndWork, ToolSettles, shutdown, tool,
        Typed, OneChildPerTool
<1>3. AbortsReachTools'
    BY DEF
        IInv, CouldNotStart, Move, EndWork, ToolSettles, shutdown, tool,
        Typed, OneChildPerTool, AbortsReachTools, HasLease
<1>4. EverybodyCounted' /\ LeftBehindWasTold'
    BY DEF
        IInv, CouldNotStart, Move, EndWork, ToolSettles, shutdown, tool,
        Typed, OneChildPerTool, AbortsReachTools, EverybodyCounted,
        LeftBehindWasTold, ToolsHadTheirGrace, HasLease, Active
<1>5. QED BY <1>1, <1>2, <1>3, <1>4 DEF IInv

(* A child ends by itself.                                                 *)
LEMMA ExitIInv ==
    ASSUME IInv, NEW j \in Jobs, Exit(j)
    PROVE  IInv'
<1>1. Typed'
    BY DEF
        IInv, Exit, Move, EndWork, ToolSettles, shutdown, tool, Typed, Phases,
        Stages, Children
<1>2. OneChildPerTool'
    BY DEF
        IInv, Exit, Move, EndWork, ToolSettles, shutdown, tool, Typed,
        OneChildPerTool
<1>3. AbortsReachTools'
    BY DEF
        IInv, Exit, Move, EndWork, ToolSettles, shutdown, tool, Typed,
        OneChildPerTool, AbortsReachTools, HasLease
<1>4. EverybodyCounted' /\ LeftBehindWasTold'
    BY DEF
        IInv, Exit, Move, EndWork, ToolSettles, shutdown, tool, Typed,
        OneChildPerTool, AbortsReachTools, EverybodyCounted,
        LeftBehindWasTold, ToolsHadTheirGrace, HasLease, Active
<1>5. QED BY <1>1, <1>2, <1>3, <1>4 DEF IInv

(* A tool has done its work.                                               *)
LEMMA SucceedsIInv ==
    ASSUME IInv, NEW j \in Jobs, Succeeds(j)
    PROVE  IInv'
<1>1. Typed'
    BY DEF
        IInv, Succeeds, Move, ToolSettles, shutdown, tool, Typed, Phases,
        Stages, Children
<1>2. OneChildPerTool'
    BY DEF
        IInv, Succeeds, Move, ToolSettles, shutdown, tool, Typed,
        OneChildPerTool
<1>3. AbortsReachTools'
    BY DEF
        IInv, Succeeds, Move, ToolSettles, shutdown, tool, Typed,
        OneChildPerTool, AbortsReachTools, HasLease
<1>4. EverybodyCounted' /\ LeftBehindWasTold'
    BY DEF
        IInv, Succeeds, Move, ToolSettles, shutdown, tool, Typed,
        OneChildPerTool, AbortsReachTools, EverybodyCounted,
        LeftBehindWasTold, ToolsHadTheirGrace, HasLease, Active
<1>5. QED BY <1>1, <1>2, <1>3, <1>4 DEF IInv

(* A tool has failed.                                                      *)
LEMMA FailsOrUnusableIInv ==
    ASSUME IInv, NEW j \in Jobs, FailsOrUnusable(j)
    PROVE  IInv'
<1>1. Typed'
    BY DEF
        IInv, FailsOrUnusable, Move, EndWork, ToolSettles, shutdown, tool,
        Typed, Phases, Stages, Children
<1>2. OneChildPerTool'
    BY DEF
        IInv, FailsOrUnusable, Move, EndWork, ToolSettles, shutdown, tool,
        Typed, OneChildPerTool
<1>3. AbortsReachTools'
    BY DEF
        IInv, FailsOrUnusable, Move, EndWork, ToolSettles, shutdown, tool,
        Typed, OneChildPerTool, AbortsReachTools, HasLease
<1>4. EverybodyCounted' /\ LeftBehindWasTold'
    BY DEF
        IInv, FailsOrUnusable, Move, EndWork, ToolSettles, shutdown, tool,
        Typed, OneChildPerTool, AbortsReachTools, EverybodyCounted,
        LeftBehindWasTold, ToolsHadTheirGrace, HasLease, Active
<1>5. QED BY <1>1, <1>2, <1>3, <1>4 DEF IInv

(* A tool takes too long.                                                  *)
LEMMA TimeOutIInv ==
    ASSUME IInv, NEW j \in Jobs, TimeOut(j)
    PROVE  IInv'
<1>1. Typed'
    BY DEF
        IInv, TimeOut, Told, shutdown, tool, Typed, Phases, Stages, Children
<1>2. OneChildPerTool'
    BY DEF
        IInv, TimeOut, Told, shutdown, tool, Typed, OneChildPerTool
<1>3. AbortsReachTools'
    BY DEF
        IInv, TimeOut, Told, shutdown, tool, Typed, OneChildPerTool,
        AbortsReachTools, HasLease
<1>4. EverybodyCounted' /\ LeftBehindWasTold'
    BY DEF
        IInv, TimeOut, Told, shutdown, tool, Typed, OneChildPerTool,
        AbortsReachTools, EverybodyCounted, LeftBehindWasTold,
        ToolsHadTheirGrace, HasLease, Active
<1>5. QED BY <1>1, <1>2, <1>3, <1>4 DEF IInv

(* A child is killed.                                                      *)
LEMMA EscalateIInv ==
    ASSUME IInv, NEW j \in Jobs, Escalate(j)
    PROVE  IInv'
<1>1. Typed'
    BY DEF
        IInv, Escalate, EscalationDue, shutdown, tool, Typed, Phases, Stages,
        Children
<1>2. OneChildPerTool'
    BY DEF
        IInv, Escalate, EscalationDue, shutdown, tool, Typed, OneChildPerTool
<1>3. AbortsReachTools'
    BY DEF
        IInv, Escalate, EscalationDue, shutdown, tool, Typed, OneChildPerTool,
        AbortsReachTools, HasLease
<1>4. EverybodyCounted' /\ LeftBehindWasTold'
    BY DEF
        IInv, Escalate, EscalationDue, shutdown, tool, Typed, OneChildPerTool,
        AbortsReachTools, EverybodyCounted, LeftBehindWasTold,
        ToolsHadTheirGrace, HasLease, Active
<1>5. QED BY <1>1, <1>2, <1>3, <1>4 DEF IInv

(* A killed child ends.                                                    *)
LEMMA KilledIInv ==
    ASSUME IInv, NEW j \in Jobs, Killed(j)
    PROVE  IInv'
<1>1. Typed'
    BY DEF
        IInv, Killed, Move, EndWork, ToolSettles, shutdown, tool, Typed,
        Phases, Stages, Children
<1>2. OneChildPerTool'
    BY DEF
        IInv, Killed, Move, EndWork, ToolSettles, shutdown, tool, Typed,
        OneChildPerTool
<1>3. AbortsReachTools'
    BY DEF
        IInv, Killed, Move, EndWork, ToolSettles, shutdown, tool, Typed,
        OneChildPerTool, AbortsReachTools, HasLease
<1>4. EverybodyCounted' /\ LeftBehindWasTold'
    BY DEF
        IInv, Killed, Move, EndWork, ToolSettles, shutdown, tool, Typed,
        OneChildPerTool, AbortsReachTools, EverybodyCounted,
        LeftBehindWasTold, ToolsHadTheirGrace, HasLease, Active
<1>5. QED BY <1>1, <1>2, <1>3, <1>4 DEF IInv

(* The shutdown begins.                                                    *)
LEMMA RequestShutdownIInv ==
    ASSUME IInv, RequestShutdown
    PROVE  IInv'
<1>1. Typed'
    BY DEF
        IInv, RequestShutdown, shutdown, tool, Typed, Phases
<1>2. OneChildPerTool'
    BY DEF
        IInv, RequestShutdown, shutdown, tool, Typed, OneChildPerTool
<1>3. AbortsReachTools'
    BY DEF
        IInv, RequestShutdown, shutdown, tool, Typed, OneChildPerTool,
        AbortsReachTools, HasLease
<1>4. EverybodyCounted' /\ LeftBehindWasTold'
    BY DEF
        IInv, RequestShutdown, shutdown, tool, Typed, OneChildPerTool,
        AbortsReachTools, EverybodyCounted, LeftBehindWasTold,
        ToolsHadTheirGrace, HasLease, Active
<1>5. QED BY <1>1, <1>2, <1>3, <1>4 DEF IInv

(* The queue is paused.                                                    *)
LEMMA PausedIInv ==
    ASSUME IInv, Paused
    PROVE  IInv'
<1>1. Typed'
    BY DEF
        IInv, Paused, Await, shutdown, tool, Typed, Phases, Stages, Active
<1>2. OneChildPerTool'
    BY DEF
        IInv, Paused, Await, shutdown, tool, Typed, OneChildPerTool
<1>3. AbortsReachTools'
    BY DEF
        IInv, Paused, Await, shutdown, tool, Typed, OneChildPerTool,
        AbortsReachTools, HasLease
<1>4. EverybodyCounted' /\ LeftBehindWasTold'
    BY DEF
        IInv, Paused, Await, shutdown, tool, Typed, OneChildPerTool,
        AbortsReachTools, EverybodyCounted, LeftBehindWasTold,
        ToolsHadTheirGrace, HasLease, Active
<1>5. QED BY <1>1, <1>2, <1>3, <1>4 DEF IInv

(* Everybody waited for has settled.                                       *)
LEMMA AllSettledIInv ==
    ASSUME IInv, AllSettled
    PROVE  IInv'
<1>1. Typed'
    BY DEF
        IInv, AllSettled, AwaitedSettled, shutdown, tool, Typed, Phases
<1>2. OneChildPerTool'
    BY DEF
        IInv, AllSettled, AwaitedSettled, shutdown, tool, Typed,
        OneChildPerTool
<1>3. AbortsReachTools'
    BY DEF
        IInv, AllSettled, AwaitedSettled, shutdown, tool, Typed,
        OneChildPerTool, AbortsReachTools, HasLease
<1>4. EverybodyCounted' /\ LeftBehindWasTold'
    BY DEF
        IInv, AllSettled, AwaitedSettled, shutdown, tool, Typed,
        OneChildPerTool, AbortsReachTools, EverybodyCounted,
        LeftBehindWasTold, ToolsHadTheirGrace, HasLease, Active
<1>5. QED BY <1>1, <1>2, <1>3, <1>4 DEF IInv

(* The shutdown cancels.                                                   *)
LEMMA CancelAttemptsIInv ==
    ASSUME IInv, CancelAttempts
    PROVE  IInv'
<1>1. Typed'
    BY DEF
        IInv, CancelAttempts, Await, Terminate, Told, shutdown, tool, Typed,
        Phases, Stages, Children, Active
<1>2. OneChildPerTool'
    BY DEF
        IInv, CancelAttempts, Await, Terminate, Told, shutdown, tool, Typed,
        OneChildPerTool
<1>3. AbortsReachTools'
    BY DEF
        IInv, CancelAttempts, Await, Terminate, Told, shutdown, tool, Typed,
        OneChildPerTool, AbortsReachTools, HasLease
<1>4. EverybodyCounted' /\ LeftBehindWasTold'
    BY DEF
        IInv, CancelAttempts, Await, Terminate, Told, shutdown, tool, Typed,
        OneChildPerTool, AbortsReachTools, EverybodyCounted,
        LeftBehindWasTold, ToolsHadTheirGrace, HasLease, Active
<1>5. QED BY <1>1, <1>2, <1>3, <1>4 DEF IInv

(* The shutdown gives up waiting.                                          *)
LEMMA AbandonIInv ==
    ASSUME IInv, Abandon
    PROVE  IInv'
<1>1. Typed'
    BY DEF
        IInv, Abandon, SettleTimeIsUp, ToolsHadTheirGrace, shutdown, tool,
        Typed, Phases
<1>2. OneChildPerTool'
    BY DEF
        IInv, Abandon, SettleTimeIsUp, ToolsHadTheirGrace, shutdown, tool,
        Typed, OneChildPerTool
<1>3. AbortsReachTools'
    BY DEF
        IInv, Abandon, SettleTimeIsUp, ToolsHadTheirGrace, shutdown, tool,
        Typed, OneChildPerTool, AbortsReachTools, HasLease
<1>4. EverybodyCounted' /\ LeftBehindWasTold'
    BY DEF
        IInv, Abandon, SettleTimeIsUp, ToolsHadTheirGrace, shutdown, tool,
        Typed, OneChildPerTool, AbortsReachTools, EverybodyCounted,
        LeftBehindWasTold, HasLease, Active
<1>5. QED BY <1>1, <1>2, <1>3, <1>4 DEF IInv

(* The process ends.                                                       *)
LEMMA StopIInv ==
    ASSUME IInv, Stop
    PROVE  IInv'
<1>1. Typed'
    BY DEF
        IInv, Stop, shutdown, tool, Typed, Phases
<1>2. OneChildPerTool'
    BY DEF
        IInv, Stop, shutdown, tool, Typed, OneChildPerTool
<1>3. AbortsReachTools'
    BY DEF
        IInv, Stop, shutdown, tool, Typed, OneChildPerTool, AbortsReachTools,
        HasLease
<1>4. EverybodyCounted' /\ LeftBehindWasTold'
    BY DEF
        IInv, Stop, shutdown, tool, Typed, OneChildPerTool, AbortsReachTools,
        EverybodyCounted, LeftBehindWasTold, ToolsHadTheirGrace, HasLease,
        Active
<1>5. QED BY <1>1, <1>2, <1>3, <1>4 DEF IInv

(* The last fetch finds nothing.                                           *)
LEMMA FetchEndsIInv ==
    ASSUME IInv, FetchEnds
    PROVE  IInv'
<1>1. Typed'
    BY DEF
        IInv, FetchEnds, shutdown, tool, Typed, Phases
<1>2. OneChildPerTool'
    BY DEF
        IInv, FetchEnds, shutdown, tool, Typed, OneChildPerTool
<1>3. AbortsReachTools'
    BY DEF
        IInv, FetchEnds, shutdown, tool, Typed, OneChildPerTool,
        AbortsReachTools, HasLease
<1>4. EverybodyCounted' /\ LeftBehindWasTold'
    BY DEF
        IInv, FetchEnds, shutdown, tool, Typed, OneChildPerTool,
        AbortsReachTools, EverybodyCounted, LeftBehindWasTold,
        ToolsHadTheirGrace, HasLease, Active
<1>5. QED BY <1>1, <1>2, <1>3, <1>4 DEF IInv

(* The initial states satisfy the invariant.                               *)
LEMMA InitIInv == Init => IInv
BY DEF Init, IInv, Typed, OneChildPerTool, AbortsReachTools, EverybodyCounted, LeftBehindWasTold,
       Phases, Stages, Children, HasLease

(* A step that changes nothing keeps the invariant.                        *)
LEMMA StutterIInv == IInv /\ UNCHANGED vars => IInv'
BY DEF IInv, Typed, OneChildPerTool, AbortsReachTools, EverybodyCounted, LeftBehindWasTold,
       ToolsHadTheirGrace, HasLease, Active, vars, shutdown, tool

(* Every step keeps the invariant.                                         *)
LEMMA NextIInv == IInv /\ [Next]_vars => IInv'
<1> SUFFICES ASSUME IInv, [Next]_vars PROVE IInv'
    OBVIOUS
<1>1. CASE UNCHANGED vars
    BY <1>1, StutterIInv
<1>2. ASSUME NEW j \in Jobs, ExecutionStep(j) PROVE IInv'
    BY <1>2, DeliverIInv, TakeNothingIInv, StartLeaseIInv, DownloadedIInv, StartToolIInv,
       InterruptedIInv, StartPublishingIInv, PublishedIInv, SettleIInv, LoseLeaseIInv
       DEF ExecutionStep
<1>3. ASSUME NEW j \in Jobs, ToolStep(j) PROVE IInv'
    BY <1>3, CouldNotStartIInv, ExitIInv, SucceedsIInv, FailsOrUnusableIInv, TimeOutIInv,
       EscalateIInv, KilledIInv
       DEF ToolStep
<1>4. CASE ShutdownStep
    BY <1>4, PausedIInv, AllSettledIInv, CancelAttemptsIInv, AbandonIInv, StopIInv
       DEF ShutdownStep
<1>5. CASE RequestShutdown \/ FetchEnds
    BY <1>5, RequestShutdownIInv, FetchEndsIInv
<1>6. QED
    BY <1>1, <1>2, <1>3, <1>4, <1>5 DEF Next

(* The inductive invariant holds in every reachable state.                 *)
THEOREM IInvHolds == Spec => []IInv
BY InitIInv, NextIInv, PTL DEF Spec

(* A media process always has a runProcess that waits for it, and none     *)
(* runs on untold after its attempt, or the worker, was cancelled: for any *)
(* number of jobs (runProcess, AttemptLease.start, onApplicationShutdown). *)
THEOREM ChildrenAlwaysObey == Spec => []ChildrenObey
<1>1. IInv => ChildrenObey
    BY DEF IInv, Typed, OneChildPerTool, AbortsReachTools, ChildrenObey, Alive, HasLease
<1>2. QED
    BY <1>1, IInvHolds, PTL

(* However many executions a stopping worker leaves behind, they were      *)
(* cancelled and their tools have ended or been killed, but for those of a *)
(* job that came late (onApplicationShutdown, activeSettledWithin).        *)
THEOREM NobodyIsLeftUntold == Spec => []LeftBehindWasTold
<1>1. IInv => LeftBehindWasTold
    BY DEF IInv
<1>2. QED
    BY <1>1, IInvHolds, PTL

-----------------------------------------------------------------------------
(* The sizes.                                                              *)

(* Half of an even part: rounding down.                                    *)
LEMMA Halves ==
    ASSUME NEW n \in Nat, n >= 2
    PROVE  n \div 2 \in Nat /\ n \div 2 >= 1 /\ 2 * (n \div 2) <= n
OBVIOUS

(* NearestEven is even, positive and within the source, whatever quotient  *)
(* is asked for.                                                           *)
LEMMA NearestEvenFits ==
    ASSUME NEW n \in Nat, NEW d \in Nat, d >= 1, NEW original \in Nat, original >= 2
    PROVE  NearestEven(n, d, original) \in 2..original /\ NearestEven(n, d, original) % 2 = 0
<1> DEFINE r == Rounded(n, 2 * d)
           k == original \div 2
<1>1. r \in Int
    <2>1. 2 * (2 * d) \in Nat /\ 2 * (2 * d) > 0 /\ 2 * n + 2 * d \in Nat
        OBVIOUS
    <2>2. QED BY <2>1 DEF Rounded
<1>2. k \in Nat /\ k >= 1 /\ 2 * k <= original
    BY Halves
<1>3. PICK e \in Int : NearestEven(n, d, original) = 2 * e /\ e >= 1 /\ e <= k
    <2> HIDE DEF r, k
    <2>1. NearestEven(n, d, original) = Larger(2, Smaller(2 * k, 2 * r))
        BY DEF NearestEven, r, k
    <2>2. CASE r >= k
        BY <1>1, <1>2, <2>1, <2>2 DEF Larger, Smaller
    <2>3. CASE r < k /\ r >= 1
        BY <1>1, <1>2, <2>1, <2>3 DEF Larger, Smaller
    <2>4. CASE r < 1
        BY <1>1, <1>2, <2>1, <2>4 DEF Larger, Smaller
    <2>5. QED BY <1>1, <1>2, <2>2, <2>3, <2>4
<1>4. QED
    <2> HIDE DEF k
    <2>1. QED BY <1>2, <1>3

(* For every usable source and every target height, the rendition that     *)
(* ffmpeg is asked for has even sides within the source's                  *)
(* (scaleToHeight, nearestEvenDimension).                                  *)
THEOREM RenditionsFit ==
    ASSUME NEW w \in Nat, NEW h \in Nat, w >= 2, h >= 2, NEW target \in Nat
    PROVE  FitsSource(ScaleToHeight([width |-> w, height |-> h], target),
                      [width |-> w, height |-> h])
<1> DEFINE width == NearestEven(w * target, h, w)
           height == NearestEven(h * target, h, h)
<1>1. w * target \in Nat /\ h * target \in Nat
    OBVIOUS
<1>2. width \in 2..w /\ width % 2 = 0
    BY <1>1, NearestEvenFits
<1>3. height \in 2..h /\ height % 2 = 0
    BY <1>1, NearestEvenFits
<1>4. ScaleToHeight([width |-> w, height |-> h], target) = [width |-> width, height |-> height]
    BY DEF ScaleToHeight
<1>5. QED
    <2> HIDE DEF width, height
    <2>1. QED BY <1>2, <1>3, <1>4 DEF FitsSource

(* Scaling down by n / d and taking the even part does not go beyond a.    *)
LEMMA EvenPartFits ==
    ASSUME NEW a \in Nat, a >= 2, NEW n \in Nat, NEW d \in Nat, n >= 1, n <= d
    PROVE  EvenPart(a * n, d) \in 2..a /\ EvenPart(a * n, d) % 2 = 0
<1> DEFINE q == (a * n) \div (2 * d)
<1>1. a * n \in Nat /\ a * d \in Nat /\ a * n <= a * d
    OBVIOUS
<1>2. q \in Nat /\ (2 * d) * q <= a * n
    BY <1>1
<1>3. 2 * q <= a
    <2> HIDE DEF q
    <2>1. SUFFICES ASSUME 2 * q > a PROVE FALSE
        BY <1>2
    <2>2. d * (2 * q) > d * a
        BY <1>2, <2>1
    <2>3. d * (2 * q) = (2 * d) * q /\ d * a = a * d
        BY <1>2
    <2>4. QED BY <1>1, <1>2, <2>2, <2>3
<1>4. QED
    <2>1. EvenPart(a * n, d) = Larger(2, 2 * q)
        BY DEF EvenPart
    <2> HIDE DEF q
    <2>2. QED BY <1>2, <1>3, <2>1 DEF Larger

(* For every usable source the thumbnail has even sides within the         *)
(* source's (fitWithin720p).                                               *)
THEOREM ThumbnailFits ==
    ASSUME NEW w \in Nat, NEW h \in Nat, w >= 2, h >= 2
    PROVE  FitsSource(FitWithin720p([width |-> w, height |-> h]), [width |-> w, height |-> h])
<1> DEFINE original == [width |-> w, height |-> h]
           Scaled(n, d) == [width |-> EvenPart(w * n, d), height |-> EvenPart(h * n, d)]
<1>1. ASSUME NEW n \in Nat, NEW d \in Nat, n >= 1, n <= d PROVE FitsSource(Scaled(n, d), original)
    BY <1>1, EvenPartFits DEF FitsSource
<1>2. CASE w <= 1280 /\ h <= 720
    <2>1. FitWithin720p(original) = Scaled(1, 1)
        BY <1>2 DEF FitWithin720p
    <2>2. QED BY <1>1, <2>1
<1>3. CASE ~(w <= 1280 /\ h <= 720) /\ 1280 * h <= 720 * w
    <2>1. w > 1280
        BY <1>3
    <2>2. FitWithin720p(original) = Scaled(1280, w)
        BY <1>3 DEF FitWithin720p
    <2>3. QED BY <1>1, <2>1, <2>2
<1>4. CASE ~(w <= 1280 /\ h <= 720) /\ ~(1280 * h <= 720 * w)
    <2>1. h > 720
        BY <1>4
    <2>2. FitWithin720p(original) = Scaled(720, h)
        BY <1>4 DEF FitWithin720p
    <2>3. QED BY <1>1, <2>1, <2>2
<1>5. QED BY <1>2, <1>3, <1>4

-----------------------------------------------------------------------------
(* The plan of an execution.  What a source is asked to be made into is a  *)
(* thumbnail and the entries of the ladder that fit it, and they all fit.  *)

Names == {"thumbnail", "source", "360p", "480p", "720p"}
Images == [name : Names, width : Nat, height : Nat]
FittingImages(original) == {p \in Images : FitsSource(p, original)}

(* A source that passed the probe has two sides of at least 2.             *)
LEMMA SourceIsUsable ==
    ASSUME NEW s \in Sources
    PROVE  \E w, h \in Nat : w >= 2 /\ h >= 2 /\ s = [width |-> w, height |-> h]
BY StreamsAssumption DEF Sources, Usable, Displayed

(* Naming a size that fits.                                                *)
LEMMA ImageFits ==
    ASSUME NEW name \in Names, NEW size, NEW original,
           size = [width |-> size.width, height |-> size.height],
           original.width \in Nat, original.height \in Nat, FitsSource(size, original)
    PROVE  Picture(name, size) \in FittingImages(original)
BY DEF Picture, FittingImages, Images, FitsSource

(* However many entries of the ladder fit, they are its first.             *)
LEMMA FirstEntries ==
    ASSUME NEW fits \in SUBSET (DOMAIN RenditionLadder)
    PROVE  SubSeq(RenditionLadder, 1, Cardinality(fits)) \in Seq([name : Names, targetHeight : Nat])
<1> DEFINE Entries == [name : Names, targetHeight : Nat]
<1>1. /\ [name |-> "360p", targetHeight |-> 360] \in Entries
      /\ [name |-> "480p", targetHeight |-> 480] \in Entries
      /\ [name |-> "720p", targetHeight |-> 720] \in Entries
  BY DEF Names
<1> HIDE DEF Entries
<1>2. RenditionLadder \in Seq(Entries) /\ Len(RenditionLadder) = 3
  BY <1>1 DEF RenditionLadder
<1>3. DOMAIN RenditionLadder = 1..3
  BY <1>2
<1>4. IsFiniteSet(1..3) /\ Cardinality(1..3) = 3
  <2>1. ASSUME NEW n \in Nat PROVE IsFiniteSet(1..n) /\ Cardinality(1..n) = n
    BY FS_Interval
  <2>2. QED
    BY <2>1
<1>5. Cardinality(fits) \in 0..3
  <2>1. IsFiniteSet(fits) /\ Cardinality(fits) <= 3
    BY <1>3, <1>4, FS_Subset
  <2>2. Cardinality(fits) \in Nat
    BY <2>1, FS_CardinalityType
  <2>3. QED
    BY <2>1, <2>2
<1> DEFINE number == Cardinality(fits)
<1> HIDE DEF number
<1>6. number \in 0..3
  BY <1>5 DEF number
<1>7. SubSeq(RenditionLadder, 1, number) \in Seq(Entries)
  BY <1>2, <1>6
<1>8. QED
  BY <1>7 DEF number, Entries

(* Every rendition of the ladder that is selected fits.                    *)
LEMMA SelectedFit ==
    ASSUME NEW w \in Nat, NEW h \in Nat, w >= 2, h >= 2, NEW original,
           original = [width |-> w, height |-> h]
    PROVE  SelectRenditions(original) \in Seq(FittingImages(original))
<1>1. ASSUME NEW target \in Nat, NEW name \in Names
      PROVE  Picture(name, ScaleToHeight(original, target)) \in FittingImages(original)
  <2> DEFINE size == ScaleToHeight(original, target)
  <2>1. FitsSource(size, original)
    BY RenditionsFit
  <2>2. size = [width |-> size.width, height |-> size.height]
    BY DEF ScaleToHeight
  <2> HIDE DEF size
  <2>3. Picture(name, size) \in FittingImages(original)
    BY <2>1, <2>2, ImageFits
  <2>4. QED
    BY <2>3 DEF size
<1> DEFINE fits == {i \in DOMAIN RenditionLadder :
                       RenditionLadder[i].targetHeight <= original.height}
           selected == SubSeq(RenditionLadder, 1, Cardinality(fits))
           whole == Picture("source", ScaleToHeight(original, h))
           Selected(i) == Picture(selected[i].name,
                                  ScaleToHeight(original, selected[i].targetHeight))
<1>2. SelectRenditions(original) =
          IF selected = <<>> THEN <<whole>> ELSE [i \in DOMAIN selected |-> Selected(i)]
  BY DEF SelectRenditions
<1>3. selected \in Seq([name : Names, targetHeight : Nat])
  BY FirstEntries
<1> HIDE DEF selected, fits
<1>4. /\ Len(selected) \in Nat /\ DOMAIN selected = 1..Len(selected)
      /\ \A i \in 1..Len(selected) : selected[i].name \in Names /\ selected[i].targetHeight \in Nat
  <2> DEFINE Entries == [name : Names, targetHeight : Nat]
  <2>1. \A e \in Entries : e.name \in Names /\ e.targetHeight \in Nat
    OBVIOUS
  <2>2. selected \in Seq(Entries)
    BY <1>3
  <2> HIDE DEF Entries
  <2>3. QED
    BY <2>1, <2>2
<1>5. whole \in FittingImages(original)
  BY <1>1 DEF Names
<1>6. \A i \in 1..Len(selected) : Selected(i) \in FittingImages(original)
  BY <1>1, <1>4
<1> HIDE DEF Selected, whole
<1>7. [i \in DOMAIN selected |-> Selected(i)] \in Seq(FittingImages(original))
  BY <1>4, <1>6
<1>8. QED
  <2>1. CASE selected = <<>>
    <3>1. SelectRenditions(original) = <<whole>>
      BY <1>2, <2>1
    <3>2. <<whole>> \in Seq(FittingImages(original))
      BY <1>5
    <3>3. QED
      BY <3>1, <3>2
  <2>2. CASE selected # <<>>
    BY <1>2, <1>7, <2>2
  <2>3. QED
    BY <2>1, <2>2

(* So do the thumbnail and the renditions, and they are tools.             *)
LEMMA PicturesFitSource ==
    ASSUME NEW s \in Sources
    PROVE  Pictures(s) \in Seq(FittingImages(s)) /\ Pictures(s) \in Seq(Tools)
<1>1. PICK w, h \in Nat : w >= 2 /\ h >= 2 /\ s = [width |-> w, height |-> h]
  BY SourceIsUsable
<1>2. SelectRenditions(s) \in Seq(FittingImages(s))
  BY <1>1, SelectedFit
<1>3. Picture("thumbnail", FitWithin720p(s)) \in FittingImages(s)
  <2> DEFINE size == FitWithin720p(s)
  <2>1. FitsSource(size, s)
    BY <1>1, ThumbnailFits
  <2>2. size = [width |-> size.width, height |-> size.height]
    BY DEF FitWithin720p
  <2> HIDE DEF size
  <2>3. QED
    BY <1>1, <2>1, <2>2, ImageFits DEF Names, size
<1>4. Pictures(s) \in Seq(FittingImages(s))
  BY <1>2, <1>3 DEF Pictures
<1>5. \A i \in DOMAIN Pictures(s) : Pictures(s)[i] \in Tools
  BY DEF Tools
<1> DEFINE all == Pictures(s)
<1>6. all \in Seq(FittingImages(s)) /\ \A i \in DOMAIN all : all[i] \in Tools
  BY <1>4, <1>5
<1> HIDE DEF all
<1>7. all \in Seq(Tools)
  BY <1>6
<1>8. QED
  BY <1>4, <1>7 DEF all
(* A source is remembered while its tools run, and until one probed it the *)
(* probe is planned.                                                       *)
Planned(j) ==
    /\ stage[j] \notin {"ready", "tool", "publishing"} => source[j] = NoSource
    /\ stage[j] = "tool" => plan[j] # <<>>
    /\ source[j] # NoSource =>
           \A i \in DOMAIN plan[j] : FitsSource(plan[j][i], source[j])

PlanTyped ==
    /\ fetching \in BOOLEAN
    /\ source \in [Jobs -> Sources \cup {NoSource}]
    /\ plan \in [Jobs -> Seq(Tools)]

PlanInv == PlanTyped /\ \A j \in Jobs : Planned(j)

(* Nothing is planned initially.                                           *)
LEMMA InitPlanInv == Init => PlanInv
BY DEF Init, PlanInv, PlanTyped, Planned

(* The work of an execution ends.                                          *)
LEMMA EndWorkPlanInv ==
    ASSUME Typed, PlanInv, NEW j \in Jobs, EndWork(j), fetching' = fetching
    PROVE  PlanInv'
BY DEF Typed, PlanInv, PlanTyped, Planned, EndWork, Move

(* An execution moves and keeps its plan.                                  *)
LEMMA MovePlanInv ==
    ASSUME Typed, PlanInv, NEW j \in Jobs, NEW next \in Stages, Move(j, next),
           fetching' \in BOOLEAN, UNCHANGED <<source, plan>>,
           next \notin {"ready", "tool", "publishing"} => source[j] = NoSource,
           next = "tool" => plan[j] # <<>>
    PROVE  PlanInv'
BY DEF Typed, PlanInv, PlanTyped, Planned, Move

(* After the probe the pictures of its source are planned; after any other *)
(* tool the rest of the plan.                                              *)
LEMMA SucceedsPlanInv ==
    ASSUME Typed, OneChildPerTool, PlanInv, NEW j \in Jobs, Succeeds(j)
    PROVE  PlanInv'
<1> USE DEF PlanInv
<1>1. /\ stage[j] = "tool" /\ stage' = [stage EXCEPT ![j] = "ready"] /\ fetching' = fetching
      /\ plan[j] \in Seq(Tools) /\ plan[j] # <<>>
  BY DEF Succeeds, Move, shutdown, Typed, OneChildPerTool, PlanTyped, Planned
<1>2. CASE Head(plan[j]) = Probe
  <2>1. PICK s \in Sources : /\ source' = [source EXCEPT ![j] = s]
                             /\ plan' = [plan EXCEPT ![j] = Pictures(s)]
    BY <1>2 DEF Succeeds
  <2> DEFINE made == Pictures(s)
  <2>2. made \in Seq(FittingImages(s)) /\ made \in Seq(Tools)
    BY PicturesFitSource
  <2>3. plan' = [plan EXCEPT ![j] = made]
    BY <2>1
  <2> HIDE DEF made
  <2>4. \A i \in DOMAIN made : FitsSource(made[i], s)
    <3>1. \A i \in DOMAIN made : made[i] \in FittingImages(s)
      BY <2>2
    <3>2. QED
      BY <3>1 DEF FittingImages
  <2>5. PlanTyped'
    BY <1>1, <2>1, <2>2, <2>3 DEF PlanTyped
  <2>6. \A k \in Jobs : Planned(k)'
    BY <1>1, <2>1, <2>3, <2>4 DEF Planned, PlanTyped, Typed
  <2>7. QED
    BY <2>5, <2>6
<1>3. CASE Head(plan[j]) # Probe
  <2>1. source' = source /\ plan' = [plan EXCEPT ![j] = Tail(plan[j])]
    BY <1>3 DEF Succeeds
  <2> DEFINE rest == Tail(plan[j])
  <2>2. /\ rest \in Seq(Tools)
        /\ \A i \in DOMAIN rest : i + 1 \in DOMAIN plan[j] /\ rest[i] = plan[j][i + 1]
    BY <1>1
  <2>3. plan' = [plan EXCEPT ![j] = rest]
    BY <2>1
  <2> HIDE DEF rest
  <2>4. PlanTyped'
    BY <1>1, <2>1, <2>2, <2>3 DEF PlanTyped
  <2>5. \A k \in Jobs : Planned(k)'
    BY <1>1, <2>1, <2>2, <2>3 DEF Planned, PlanTyped, Typed
  <2>6. QED
    BY <2>4, <2>5
<1>4. QED
  BY <1>2, <1>3

(* Every step keeps the plans as they should be.                           *)
LEMMA PlanStep == Typed /\ OneChildPerTool /\ PlanInv /\ [Next]_vars => PlanInv'
<1> SUFFICES ASSUME Typed, OneChildPerTool, PlanInv, [Next]_vars PROVE PlanInv'
  OBVIOUS
<1> USE DEF shutdown
<1>1. CASE UNCHANGED vars \/ RequestShutdown \/ ShutdownStep \/ FetchEnds
  <2>1. UNCHANGED <<stage, source, plan>> /\ fetching' \in BOOLEAN
    BY <1>1 DEF vars, RequestShutdown, ShutdownStep, FetchEnds, Paused, AllSettled, CancelAttempts,
                Abandon, Stop, PlanInv, PlanTyped
  <2>2. QED
    BY <2>1 DEF PlanInv, PlanTyped, Planned
<1>2. ASSUME NEW j \in Jobs, ExecutionStep(j) PROVE PlanInv'
  <2>1. CASE Deliver(j) \/ TakeNothing(j) \/ StartLease(j) \/ StartTool(j) \/ StartPublishing(j)
             \/ Settle(j)
    <3>1. PICK next \in Stages :
              /\ Move(j, next) /\ UNCHANGED <<source, plan>> /\ fetching' \in BOOLEAN
              /\ next \notin {"ready", "tool", "publishing"} => source[j] = NoSource
              /\ next = "tool" => plan[j] # <<>>
      BY <2>1 DEF Deliver, TakeNothing, StartLease, StartTool, StartPublishing, Settle, Stages,
                  PlanInv, PlanTyped, Planned
    <3>2. QED
      BY <3>1, MovePlanInv
  <2>2. CASE Downloaded(j)
    <3>1. /\ stage' = [stage EXCEPT ![j] = "ready"] /\ plan' = [plan EXCEPT ![j] = <<Probe>>]
          /\ UNCHANGED <<fetching, source>> /\ source[j] = NoSource
      BY <2>2 DEF Downloaded, Move, PlanInv, Planned
    <3>2. <<Probe>> \in Seq(Tools)
      BY DEF Tools
    <3>3. QED
      BY <3>1, <3>2 DEF PlanInv, PlanTyped, Planned, Typed
  <2>3. CASE Interrupted(j) \/ Published(j)
    BY <2>3, EndWorkPlanInv DEF Interrupted, Published
  <2>4. CASE LoseLease(j)
    BY <2>4 DEF LoseLease, PlanInv, PlanTyped, Planned
  <2>5. QED
    BY <1>2, <2>1, <2>2, <2>3, <2>4 DEF ExecutionStep
<1>3. ASSUME NEW j \in Jobs, ToolStep(j) PROVE PlanInv'
  <2>1. CASE CouldNotStart(j) \/ FailsOrUnusable(j) \/ Killed(j)
    BY <2>1, EndWorkPlanInv DEF CouldNotStart, FailsOrUnusable, Killed
  <2>2. CASE Exit(j)
    <3>1. CASE terminated[j] # "no"
      BY <2>2, <3>1, EndWorkPlanInv DEF Exit
    <3>2. CASE terminated[j] = "no"
      BY <2>2, <3>2 DEF Exit, PlanInv, PlanTyped, Planned
    <3>3. QED
      BY <3>1, <3>2
  <2>3. CASE Succeeds(j)
    BY <2>3, SucceedsPlanInv
  <2>4. CASE TimeOut(j) \/ Escalate(j)
    BY <2>4 DEF TimeOut, Escalate, PlanInv, PlanTyped, Planned
  <2>5. QED
    BY <1>3, <2>1, <2>2, <2>3, <2>4 DEF ToolStep
<1>4. QED
  BY <1>1, <1>2, <1>3 DEF Next

(* The plans are so in every reachable state.                              *)
LEMMA PlansHold == Spec => []PlanInv
<1>1. Init => PlanInv
  BY InitPlanInv
<1>2. IInv /\ PlanInv /\ [Next]_vars => PlanInv'
  BY PlanStep DEF IInv
<1>3. QED
  BY <1>1, <1>2, IInvHolds, PTL DEF Spec

(* For any jobs and streams, a runProcess is pending exactly while there   *)
(* is a child that has not been settled, and everything the worker keeps   *)
(* of an execution has its type (runProcess, VideoWorkerService).          *)
THEOREM EveryChildHasItsTool == Spec => []TypeOK
<1>1. IInv /\ PlanInv => TypeOK
  BY DEF IInv, Typed, OneChildPerTool, PlanInv, PlanTyped, TypeOK
<1>2. QED
  BY <1>1, IInvHolds, PlansHold, PTL

(* For any streams their files hold, every picture ffmpeg is asked for has *)
(* even sides within the picture it is made from (selectRenditions,        *)
(* fitWithin720p, VideoProcessingPipeline).                                *)
THEOREM EveryPictureFits == Spec => []PicturesFit
<1>1. PlanInv => PicturesFit
  BY DEF PlanInv, Planned, PicturesFit
<1>2. QED
  BY <1>1, PlansHold, PTL
=============================================================================
