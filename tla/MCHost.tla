------------------------------- MODULE MCHost -------------------------------
(***************************************************************************)
(* The local Host on small instances: automations, the feed, cron, turns,  *)
(* session storage, memory jobs, note passes and reminders. A run          *)
(* explores the components in Chosen side by side: part names the one a    *)
(* behaviour is about. The turns have their own variables, which are idle  *)
(* in a behaviour about another component; v1, v2, ... hold those of the   *)
(* others.                                                                 *)
(***************************************************************************)
EXTENDS LocalTurns

CONSTANTS Chosen

VARIABLES part, v1, v2, v3, v4, v5, v6, v7, v8, v9, v10, v11, v12, v13, v14, v15, v16

others == <<v1, v2, v3, v4, v5, v6, v7, v8, v9, v10, v11, v12, v13, v14, v15, v16>>
all == <<part, others, vars>>

(* A component that needs fewer variables leaves the rest empty. *)
Idle == Init
Rest16 == v16 = 0 /\ Idle
Rest15 == v15 = 0 /\ Rest16
Rest14 == v14 = 0 /\ Rest15
Rest13 == v13 = 0 /\ Rest14
Rest12 == v12 = 0 /\ Rest13
Rest11 == v11 = 0 /\ Rest12
Rest10 == v10 = 0 /\ Rest11
Rest9 == v9 = 0 /\ Rest10
Rest8 == v8 = 0 /\ Rest9
Rest7 == v7 = 0 /\ Rest8
Rest6 == v6 = 0 /\ Rest7
Rest5 == v5 = 0 /\ Rest6
NoOther == v1 = 0 /\ v2 = 0 /\ v3 = 0 /\ v4 = 0 /\ Rest5
Same17 == UNCHANGED part /\ UNCHANGED vars
Same16 == UNCHANGED v16 /\ Same17
Same15 == UNCHANGED v15 /\ Same16
Same14 == UNCHANGED v14 /\ Same15
Same13 == UNCHANGED v13 /\ Same14
Same12 == UNCHANGED v12 /\ Same13
Same11 == UNCHANGED v11 /\ Same12
Same10 == UNCHANGED v10 /\ Same11
Same9 == UNCHANGED v9 /\ Same10
Same8 == UNCHANGED v8 /\ Same9
Same7 == UNCHANGED v7 /\ Same8
Same6 == UNCHANGED v6 /\ Same7
Same5 == UNCHANGED v5 /\ Same6

Schedule == INSTANCE Automations WITH
    Once <- {1}, Cron <- {2}, FollowUps <- {}, HostRun <- {}, Broken <- {}, Period <- 3,
    WaitingMax <- 1, Keep <- 1, Age <- 1, MaxTime <- 4, MaxOps <- 2, MaxRuns <- 3,
    MaxFaults <- 1, now <- v1, auto <- v2, run <- v3, receipt <- v4, answer <- v5, wanted <- v6,
    job <- v7, plug <- v8, hold <- v9, cmd <- v10, task <- v11, cursor <- v12, seen <- v13,
    faults <- v14

Deletion == INSTANCE Automations WITH
    Once <- {}, Cron <- {}, FollowUps <- {1}, HostRun <- {}, Broken <- {}, Period <- 1,
    WaitingMax <- 1, Keep <- 1, Age <- 9, MaxTime <- 3, MaxOps <- 3, MaxRuns <- 2,
    MaxFaults <- 1, now <- v1, auto <- v2, run <- v3, receipt <- v4, answer <- v5, wanted <- v6,
    job <- v7, plug <- v8, hold <- v9, cmd <- v10, task <- v11, cursor <- v12, seen <- v13,
    faults <- v14

Problems == INSTANCE Feed WITH
    Autos <- {"a"}, Sessions <- {}, Sentences <- {"x"}, Urgencies <- {"whenever"}, KeepItems <- 1,
    Page <- 1, MaxItems <- 3, MaxTime <- 1, MaxSaid <- 0, MaxRuns <- 3, MaxFaults <- 0,
    now <- v1, item <- v2, run <- v3, said <- v4, seenThrough <- v5, today <- v6, listed <- v7,
    forgotten <- v8, pass <- v9, faults <- v10

Answers == INSTANCE Feed WITH
    Autos <- {}, Sessions <- {"s"}, Sentences <- {}, Urgencies <- {"whenever"},
    KeepItems <- 1, Page <- 1, MaxItems <- 2, MaxTime <- 2, MaxSaid <- 2, MaxRuns <- 0,
    MaxFaults <- 0, now <- v1, item <- v2, run <- v3, said <- v4, seenThrough <- v5,
    today <- v6, listed <- v7, forgotten <- v8, pass <- v9, faults <- v10

Cron == INSTANCE CronSchedule WITH
    Hours <- 4, Minutes <- 4, MonthDays <- 2, WeekDays <- 3, MinGap <- 2, SearchDays <- 6,
    Horizon <- 4, Shifts <- {-4, 0, 4},
    MinuteItems <- {<<0, 0, 1>>, <<0, 3, 2>>, <<0, 3, 3>>, <<1, 3, 2>>, <<3, 3, 1>>},
    HourItems <- {<<0, 3, 1>>, <<1, 1, 1>>, <<0, 3, 3>>, <<1, 2, 1>>},
    DayItems <- {<<0, 1, 1>>, <<1, 1, 1>>},
    WeekdayItems <- {<<0, 3, 1>>, <<3, 3, 1>>, <<1, 2, 1>>}, cron <- v1, zone <- v2, now <- v3,
    walked <- v4

CronHalf == INSTANCE CronSchedule WITH
    Hours <- 4, Minutes <- 6, MonthDays <- 2, WeekDays <- 3, MinGap <- 2, SearchDays <- 6,
    Horizon <- 4, Shifts <- {-3, 0, 3}, MinuteItems <- {<<0, 0, 1>>, <<2, 4, 2>>},
    HourItems <- {<<0, 3, 1>>, <<1, 1, 1>>}, DayItems <- {<<0, 1, 1>>, <<1, 1, 1>>},
    WeekdayItems <- {<<0, 3, 1>>}, cron <- v1, zone <- v2, now <- v3, walked <- v4

(* Sessions whose process stops, that find passes left by stopped ones, and *)
(* that are closed; what the properties say of them is said with the bounds *)
(* of the configuration, which are at least these.                          *)
Crashed == INSTANCE LocalTurns WITH MaxPasses <- 1, MaxCloses <- 0
Stale == INSTANCE LocalTurns WITH MaxCloses <- 0
Closing == INSTANCE LocalTurns WITH MaxPasses <- 1, MaxCrashes <- 0

Jobs == INSTANCE MemoryJobs WITH
    People <- {"p", "q"}, CompactionTurns <- 1, DreamTurns <- 1, Attempts <- 2,
    Generations <- 2, MaxStops <- 1, MaxToggles <- 0, on <- v1, run <- v2, at <- v3, job <- v4,
    done <- v5, left <- v6, who <- v7, gen <- v8, stored <- v9, opens <- v10, answer <- v11,
    verdict <- v12, spent <- v13, trouble <- v14, stops <- v15, toggles <- v16

Toggled == INSTANCE MemoryJobs WITH
    People <- {"p", "q"}, CompactionTurns <- 1, DreamTurns <- 2, Attempts <- 2,
    Generations <- 2, MaxStops <- 0, MaxToggles <- 1, on <- v1, run <- v2, at <- v3, job <- v4,
    done <- v5, left <- v6, who <- v7, gen <- v8, stored <- v9, opens <- v10, answer <- v11,
    verdict <- v12, spent <- v13, trouble <- v14, stops <- v15, toggles <- v16

Passes == INSTANCE NotePass WITH
    Sessions <- {"s"}, Quiet <- 1, Gap <- 1, DailyCap <- 1, DayLength <- 2, Early <- 1,
    Keep <- 2, MaxClock <- 3, MaxMessages <- 2, MaxPasses <- 2, MaxStops <- 1, MaxFaults <- 1,
    clock <- v1, on <- v2, conv <- v3, passes <- v4, kern <- v5, turn <- v6, rev <- v7,
    owed <- v8, swept <- v9, heard <- v10, reviewed <- v11, counted <- v12, unseen <- v13,
    lastRun <- v14, stops <- v15, faults <- v16

Capped == INSTANCE NotePass WITH
    Sessions <- {"s", "t"}, Quiet <- 1, Gap <- 1, DailyCap <- 1, DayLength <- 2, Early <- 0,
    Keep <- 3, MaxClock <- 2, MaxMessages <- 1, MaxPasses <- 2, MaxStops <- 0, MaxFaults <- 1,
    clock <- v1, on <- v2, conv <- v3, passes <- v4, kern <- v5, turn <- v6, rev <- v7,
    owed <- v8, swept <- v9, heard <- v10, reviewed <- v11, counted <- v12, unseen <- v13,
    lastRun <- v14, stops <- v15, faults <- v16

Reminders == INSTANCE Reminders WITH
    Items <- {"i", "j"}, DueTimes <- {1}, Late <- 1, Horizon <- 1, RetryAfter <- 1,
    CatchUp <- 2, OverdueMax <- 1, MaxNow <- 4, MaxFaults <- 1, MaxEdits <- 1, now <- v1,
    on <- v2, due <- v3, agenda <- v4, fired <- v5, row <- v6, prep <- v7, tries <- v8,
    told <- v9, lates <- v10, faults <- v11, edits <- v12

Retold == INSTANCE Reminders WITH
    Items <- {"i"}, DueTimes <- {1}, Late <- 1, Horizon <- 1, RetryAfter <- 1, CatchUp <- 2,
    OverdueMax <- 1, MaxNow <- 5, MaxFaults <- 2, MaxEdits <- 1, now <- v1, on <- v2, due <- v3,
    agenda <- v4, fired <- v5, row <- v6, prep <- v7, tries <- v8, told <- v9, lates <- v10,
    faults <- v11, edits <- v12

Storage == INSTANCE SessionStorage WITH
    Processes <- {"p", "q"}, Overlaps <- TRUE, MaxSelections <- 2, MaxStops <- 1,
    MaxFailures <- 1, lock <- v1, staging <- v2, live <- v3, tomb <- v4, kernel <- v5,
    log <- v6, torn <- v7, joined <- v8, rows <- v9, pc <- v10, chosen <- v11, acked <- v12,
    wanted <- v13, stops <- v14, failures <- v15

ASSUME ComponentBounds ==
    /\ Schedule!AutomationsAssumption
    /\ Deletion!AutomationsAssumption
    /\ Problems!FeedAssumption
    /\ Answers!FeedAssumption
    /\ Cron!CronAssumption
    /\ CronHalf!CronAssumption
    /\ Crashed!TurnsAssumption
    /\ Stale!TurnsAssumption
    /\ Closing!TurnsAssumption
    /\ Jobs!MemoryJobsAssumption
    /\ Toggled!MemoryJobsAssumption
    /\ Passes!NotePassAssumption
    /\ Capped!NotePassAssumption
    /\ Reminders!RemindersAssumption
    /\ Retold!RemindersAssumption
    /\ Storage!StorageAssumption

HostInit ==
    /\ part \in Chosen
    /\ \/ part = "schedule" /\ Schedule!Init /\ Rest15
       \/ part = "deletion" /\ Deletion!Init /\ Rest15
       \/ part = "problems" /\ Problems!Init /\ Rest11
       \/ part = "answers" /\ Answers!Init /\ Rest11
       \/ part = "cron" /\ Cron!Init /\ Rest5
       \/ part = "cronHalf" /\ CronHalf!Init /\ Rest5
       \/ part = "crashed" /\ NoOther
       \/ part = "stale" /\ NoOther
       \/ part = "closing" /\ NoOther
       \/ part = "jobs" /\ Jobs!Init /\ Idle
       \/ part = "toggled" /\ Toggled!Init /\ Idle
       \/ part = "passes" /\ Passes!Init /\ Idle
       \/ part = "capped" /\ Capped!Init /\ Idle
       \/ part = "reminders" /\ Reminders!Init /\ Rest13
       \/ part = "retold" /\ Retold!Init /\ Rest13
       \/ part = "storage" /\ Storage!Init /\ Rest16

(* Beside the person's message there is a delivery or a configuration       *)
(* change, not both.                                                        *)
OneOf == pc'["s"] = "out" \/ cfg' = "out"

(* The last time of the passes is reached after a stop or a fault, not both. *)
(* Where the cap is checked the plugin stays on.                             *)
LastDay == v1' = 3 => v15' + v16' <= 1

HostNext ==
    \/ part = "schedule" /\ Schedule!Next /\ Same15
    \/ part = "deletion" /\ Deletion!Next /\ Same15
    \/ part = "problems" /\ Problems!Next /\ Same11
    \/ part = "answers" /\ Answers!Next /\ Same11
    \/ part = "cron" /\ Cron!Next /\ Same5
    \/ part = "cronHalf" /\ CronHalf!Next /\ Same5
    \/ part = "crashed" /\ Crashed!Next /\ UNCHANGED <<part, others>> /\ OneOf
    \/ part = "stale" /\ Stale!Next /\ UNCHANGED <<part, others>> /\ pc'["s"] = "out"
    \/ part = "closing" /\ Closing!Next /\ UNCHANGED <<part, others>> /\ OneOf
    \/ part = "jobs" /\ Jobs!Next /\ Same17
    \/ part = "toggled" /\ Toggled!Next /\ Same17
    \/ part = "passes" /\ Passes!Next /\ Same17 /\ LastDay
    \/ part = "capped" /\ Capped!Next /\ Same17 /\ UNCHANGED v2
    \/ part = "reminders" /\ Reminders!Next /\ Same13
    \/ part = "retold" /\ Retold!Next /\ Same13
    \/ part = "storage" /\ Storage!Next /\ Same16

HostSpec == HostInit /\ [][HostNext]_all

-----------------------------------------------------------------------------
(* An automation never overlaps itself and an occurrence runs once; deletion  *)
(* turns it off and keeps what it must; the next cron time is the least one;  *)
(* what the feed lists can be seen and what it says of today is true.         *)
ScheduleSafe ==
    /\ part = "schedule" =>
         /\ Schedule!TypeOK /\ Schedule!NoOverlap /\ Schedule!OccurrenceOnce
         /\ Schedule!NothingSkipped /\ Schedule!DeletedIsOff /\ Schedule!ConversationKept
         /\ Schedule!SameAnswer
    /\ part = "deletion" =>
         /\ Deletion!TypeOK /\ Deletion!NoOverlap /\ Deletion!OccurrenceOnce
         /\ Deletion!NothingSkipped /\ Deletion!DeletedIsOff /\ Deletion!ConversationKept
         /\ Deletion!SameAnswer
    /\ part = "problems" =>
         /\ Problems!TypeOK /\ Problems!ListedCanBeSeen /\ Problems!OneProblem
         /\ Problems!OpenKept /\ Problems!AnsweredWasAsked /\ Problems!TodayTrue
    /\ part = "answers" =>
         /\ Answers!TypeOK /\ Answers!ListedCanBeSeen /\ Answers!OneProblem
         /\ Answers!OpenKept /\ Answers!AnsweredWasAsked /\ Answers!TodayTrue
    /\ part = "cron" => Cron!NextIsLeast
    /\ part = "cronHalf" => CronHalf!NextIsLeast

(* A dream happens once a night and a notebook has one unsettled job; a pass  *)
(* forgets nothing, reviews the frozen text and keeps to its daily cap; a     *)
(* reminder is told once and settled once it was told; a session found on     *)
(* disk is whole, and its latest acknowledged selection is the one read.      *)
MemorySafe ==
    /\ part = "storage" =>
         /\ Storage!TypeOK /\ Storage!FoundIsWhole /\ Storage!OpenKeepsDirectory
         /\ Storage!LatestSelection
    /\ part = "jobs" =>
         /\ Jobs!TypeOK /\ Jobs!DreamOnce /\ Jobs!OneUnsettledJob /\ Jobs!TurnsBounded
    /\ part = "toggled" =>
         /\ Toggled!TypeOK /\ Toggled!DreamOnce /\ Toggled!OneUnsettledJob
         /\ Toggled!TurnsBounded
    /\ part = "passes" =>
         /\ Passes!TypeOK /\ Passes!NothingForgotten /\ Passes!OneUnsettled
         /\ Passes!FrozenText /\ Passes!CapKept
    /\ part = "capped" =>
         /\ Capped!TypeOK /\ Capped!NothingForgotten /\ Capped!OneUnsettled
         /\ Capped!FrozenText /\ Capped!CapKept
    /\ part = "reminders" =>
         /\ Reminders!TypeOK /\ Reminders!ToldOnce /\ Reminders!RecordedThenSettled
         /\ Reminders!FewLate
    /\ part = "retold" =>
         /\ Retold!TypeOK /\ Retold!ToldOnce /\ Retold!RecordedThenSettled /\ Retold!FewLate

(* Cron runs stay apart; a completed pass was being driven; compaction comes  *)
(* before the dream; a generation moves on after its attempts; the nightly    *)
(* timer moves on; an unread agenda retires nothing.                          *)
HostSteps == [][
    /\ part = "cron" => Cron!RunsApart
    /\ NeverResumed
    /\ part = "jobs" =>
         /\ Jobs!NightOrder /\ Jobs!MovesAfterAttempts
    /\ part = "toggled" =>
         /\ Toggled!NightOrder /\ Toggled!MovesAfterAttempts
    /\ part = "passes" => Passes!TimerMovesOn
    /\ part = "capped" => Capped!TimerMovesOn
    /\ part = "reminders" => Reminders!UnreadRetiresNothing
    /\ part = "retold" => Retold!UnreadRetiresNothing]_all
=============================================================================
