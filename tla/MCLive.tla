------------------------------- MODULE MCLive -------------------------------
(***************************************************************************)
(* What must happen in the end, on small instances: a run explores the     *)
(* components in Chosen side by side, each under the fairness its own      *)
(* module justifies; part names the one a behaviour is about and v1, v2,   *)
(* ... hold its variables.                                                 *)
(***************************************************************************)
EXTENDS Integers, FiniteSets

CONSTANTS Chosen, None

VARIABLES part, v1, v2, v3, v4, v5, v6, v7, v8, v9, v10, v11, v12, v13, v14, v15, v16, v17, v18, v19,
          v20, v21, v22, v23, v24, v25, v26

vars == <<part, v1, v2, v3, v4, v5, v6, v7, v8, v9, v10, v11, v12, v13, v14, v15, v16, v17, v18, v19,
          v20, v21, v22, v23, v24, v25, v26>>

(* A component that needs fewer variables leaves the rest empty. *)
Rest26 == v26 = 0
Rest25 == v25 = 0 /\ Rest26
Rest24 == v24 = 0 /\ Rest25
Rest23 == v23 = 0 /\ Rest24
Rest22 == v22 = 0 /\ Rest23
Rest21 == v21 = 0 /\ Rest22
Rest20 == v20 = 0 /\ Rest21
Rest19 == v19 = 0 /\ Rest20
Rest18 == v18 = 0 /\ Rest19
Rest17 == v17 = 0 /\ Rest18
Rest16 == v16 = 0 /\ Rest17
Rest15 == v15 = 0 /\ Rest16
Rest14 == v14 = 0 /\ Rest15
Rest13 == v13 = 0 /\ Rest14
Rest12 == v12 = 0 /\ Rest13
Rest11 == v11 = 0 /\ Rest12
Rest10 == v10 = 0 /\ Rest11
Rest9 == v9 = 0 /\ Rest10
Rest8 == v8 = 0 /\ Rest9
Rest7 == v7 = 0 /\ Rest8
Rest6 == v6 = 0 /\ Rest7
Rest5 == v5 = 0 /\ Rest6
Rest4 == v4 = 0 /\ Rest5
Same27 == UNCHANGED part
Same26 == UNCHANGED v26 /\ Same27
Same25 == UNCHANGED v25 /\ Same26
Same24 == UNCHANGED v24 /\ Same25
Same23 == UNCHANGED v23 /\ Same24
Same22 == UNCHANGED v22 /\ Same23
Same21 == UNCHANGED v21 /\ Same22
Same20 == UNCHANGED v20 /\ Same21
Same19 == UNCHANGED v19 /\ Same20
Same18 == UNCHANGED v18 /\ Same19
Same17 == UNCHANGED v17 /\ Same18
Same16 == UNCHANGED v16 /\ Same17
Same15 == UNCHANGED v15 /\ Same16
Same14 == UNCHANGED v14 /\ Same15
Same13 == UNCHANGED v13 /\ Same14
Same12 == UNCHANGED v12 /\ Same13
Same11 == UNCHANGED v11 /\ Same12
Same10 == UNCHANGED v10 /\ Same11
Same9 == UNCHANGED v9 /\ Same10
Same8 == UNCHANGED v8 /\ Same9
Same7 == UNCHANGED v7 /\ Same8
Same6 == UNCHANGED v6 /\ Same7
Same5 == UNCHANGED v5 /\ Same6
Same4 == UNCHANGED v4 /\ Same5

Create(op, preset, name) == [kind |-> "create", op |-> op, preset |-> preset, name |-> name]
First == Create(1, "arcee", "a")

Rcp == INSTANCE Rcp WITH
    Tasks <- {"t"}, Commands <- {"c"}, TaskOf <- [c \in {"c"} |-> "t"], Stoppable <- {"c"},
    Linking <- {"c"},
    MaxProgress <- 0, MaxBatch <- 1, MaxFaults <- 1, MaxDeletes <- 0, MaxSends <- 0, live <- v1,
    lastConn <- v2, toNode <- v3, toCoord <- v4, faults <- v5, task <- v6, journal <- v7,
    cmd <- v8, pending <- v9, stream <- v10, stops <- v11, deletes <- v12, link <- v13,
    sends <- v14, handling <- v15, resent <- v16, rec <- v17, ev <- v18, nstop <- v19,
    node <- v20, pubs <- v21, dirty <- v22, turn <- v23, stopping <- v24, draining <- v25,
    unlinked <- v26

Push == INSTANCE Push WITH
    Devices <- {"d"}, Tokens <- {"a", "b"}, Requests <- {"r"}, MaxInFlight <- 2, MaxGen <- 2,
    MaxFaults <- 1, MaxChanges <- 1, gen <- v1, ring <- v2, settled <- v3, token <- v4,
    known <- v5, feed <- v6, pc <- v7, arg <- v8, covered <- v9, sending <- v10, pace <- v11,
    notified <- v12, timer <- v13, asking <- v14, faults <- v15, changes <- v16, told <- v17,
    rung <- v18, since <- v19

Fcm == INSTANCE FcmAccess WITH
    Senders <- {"s", "t"}, MaxAttempts <- 2, RejectionHold <- 2, UnavailableHold <- 1,
    MaxTime <- 1, MaxIssued <- 1, now <- v1, issued <- v2, cached <- v3, fresh <- v4,
    failed <- v5, holder <- v6, send <- v7, revoked <- v8

DeviceSessions == INSTANCE Devices WITH
    Ids <- {"d", "e"}, Keys <- {"k", "l"}, Conns <- {"x", "y"}, Notices <- {"n"},
    MaxDevices <- 1, MaxCreds <- 2, dev <- v1, creds <- v2, conn <- v3, lock <- v4,
    sessions <- v5, ending <- v6, noticeKey <- v7, notice <- v8, left <- v9

Share == INSTANCE SharePage WITH
    Readers <- {"r", "s"}, Tickets <- {"t"}, Parts <- 2, MaxVersion <- 2, file <- v1,
    ticket <- v2, page <- v3

Messages == INSTANCE AgentMessages WITH
    Agents <- {"a", "b"}, NodeOf <- [x \in {"a", "b"} |-> x],
    OwnerOf <- [x \in {"a", "b"} |-> "o"], Roots <- {"r"}, Calls <- {"k"}, Names <- {"x"},
    MaxDepth <- 2, MaxFaults <- 1, commands <- v1, unsettled <- v2, started <- v3, online <- v4,
    name <- v5, call <- v6, faults <- v7, ran <- v8, reused <- v9

Link == INSTANCE AgentLink WITH
    Callers <- {"c", "d"}, MaxSessions <- 2, Queue <- 1, MaxCalls <- 2, current <- v1,
    opened <- v2, queue <- v3, waiting <- v4, next <- v5, toCoord <- v6, toNode <- v7,
    caller <- v8, broken <- v9

HostCalls == INSTANCE HostCalls WITH
    Calls <- {"c", "d"}, Nodes <- {"n"}, MaxConns <- 2, MaxSlots <- 1, conn <- v1, open <- v2,
    count <- v3, serves <- v4, call <- v5, pending <- v6, toNode <- v7, running <- v8,
    toCoord <- v9, surface <- v10

Discord == INSTANCE Discord WITH
    Channels <- {"c"}, Agents <- {"a", "b"}, DefaultAgent <- "a", Kinds <- {"text", "new"},
    MaxPosts <- 2, MaxPages <- 1, MaxFaults <- 1, post <- v1, gap <- v2, valid <- v3, gw <- v4,
    cursor <- v5, bound <- v6, turn <- v7, task <- v8, out <- v9, link <- v10, step <- v11,
    online <- v12, journal <- v13, faults <- v14

Telegram == INSTANCE Telegram WITH
    Topics <- {"t"}, Kinds <- {"prompt", "new", "cancel", "ignored"}, WithLinks <- FALSE,
    MaxUpdates <- 3, MaxChunks <- 1, MaxFaults <- 1, sent <- v1, next <- v2, upd <- v3,
    conv <- v4, link <- v5, poll <- v6, work <- v7, active <- v8, wake <- v9, turn <- v10,
    posted <- v11, faults <- v12

Slack == INSTANCE Slack WITH
    Kinds <- {"prompt", "cancel"}, MaxMessages <- 2, MaxChunks <- 1, MaxFaults <- 1, msg <- v1,
    acked <- v2, envelope <- v3, req <- v4, out <- v5, target <- v6, work <- v7, active <- v8,
    wake <- v9, turn <- v10, posts <- v11, faults <- v12

Labels == INSTANCE SlackChannels WITH
    Agents <- {"a", "b"}, Names <- {"n", "m"}, MaxQuotes <- 2, MaxRenames <- 2, MaxRuns <- 0, MaxPrompts <- 0,
    MaxFaults <- 2, name <- v1, renames <- v2, slack <- v3, chan <- v4, label <- v5, step <- v6,
    runs <- v7, cursor <- v8, out <- v9, busy <- v10, prompt <- v11, faults <- v12

Results == INSTANCE SlackChannels WITH
    Agents <- {"a"}, Names <- {"n"}, MaxQuotes <- 2, MaxRenames <- 0, MaxRuns <- 2, MaxPrompts <- 3,
    MaxFaults <- 2, name <- v1, renames <- v2, slack <- v3, chan <- v4, label <- v5, step <- v6,
    runs <- v7, cursor <- v8, out <- v9, busy <- v10, prompt <- v11, faults <- v12

Automations == INSTANCE Automations WITH
    Once <- {1}, Cron <- {2}, FollowUps <- {}, HostRun <- {3}, Broken <- {1}, Period <- 2,
    WaitingMax <- 1, Keep <- 1, Age <- 9, MaxTime <- 2, MaxOps <- 2, MaxRuns <- 2,
    MaxFaults <- 1, now <- v1, auto <- v2, run <- v3, receipt <- v4, answer <- v5, wanted <- v6,
    job <- v7, plug <- v8, hold <- v9, cmd <- v10, task <- v11, cursor <- v12, seen <- v13,
    faults <- v14

Feed == INSTANCE Feed WITH
    Autos <- {"a"}, Sessions <- {"s"}, Sentences <- {}, Urgencies <- {"soon"}, KeepItems <- 1,
    Page <- 2, MaxItems <- 2, MaxTime <- 1, MaxSaid <- 0, MaxRuns <- 1, MaxFaults <- 1,
    now <- v1, item <- v2, run <- v3, said <- v4, seenThrough <- v5, today <- v6, listed <- v7,
    forgotten <- v8, pass <- v9, faults <- v10

Turns == INSTANCE LocalTurns WITH
    Requests <- {"r", "s"}, Delivered <- {"s"}, MaxPasses <- 1, MaxCrashes <- 0, MaxCloses <- 0,
    holders <- v1, stopped <- v2, passToken <- v3, activity <- v4, accepting <- v5,
    closer <- v6, cfg <- v7, pc <- v8, token <- v9, settling <- v10, unclosed <- v11, op <- v12,
    answer <- v13, ppc <- v14, row <- v15, passOp <- v16, passes <- v17, crashes <- v18,
    closes <- v19

Jobs == INSTANCE MemoryJobs WITH
    People <- {"p"}, CompactionTurns <- 2, DreamTurns <- 2, Attempts <- 2, Generations <- 2,
    MaxStops <- 2, MaxToggles <- 0, on <- v1, run <- v2, at <- v3, job <- v4, done <- v5,
    left <- v6, who <- v7, gen <- v8, stored <- v9, opens <- v10, answer <- v11, verdict <- v12,
    spent <- v13, trouble <- v14, stops <- v15, toggles <- v16

Reminders == INSTANCE Reminders WITH
    Items <- {"i"}, DueTimes <- {1, 2}, Late <- 1, Horizon <- 1, RetryAfter <- 1, CatchUp <- 2,
    OverdueMax <- 1, MaxNow <- 4, MaxFaults <- 2, MaxEdits <- 1, now <- v1, on <- v2, due <- v3,
    agenda <- v4, fired <- v5, row <- v6, prep <- v7, tries <- v8, told <- v9, lates <- v10,
    faults <- v11, edits <- v12

McpCall == INSTANCE McpCall WITH
    host <- v1, wrote <- v2, dispatch <- v3, terminal <- v4, read <- v5, told <- v6, ad <- v7,
    out <- v8, server <- v9, abort <- v10

Setups == INSTANCE PluginSetups WITH
    Calls <- {"c"}, Devices <- {"d"}, MaxStops <- 1, MaxReserves <- 2, MaxFaults <- 1,
    at <- v1, link <- v2, stopped <- v3, state <- v4, ids <- v5,
    relay <- v6, grace <- v7, secret <- v8, row <- v9, task <- v10, receipt <- v11,
    notes <- v12, told <- v13, forgotten <- v14, held <- v15, known <- v16, up <- v17,
    stops <- v18, faults <- v19

Loop == INSTANCE AgentLoop WITH
    MaxModelTurns <- 2, MaxToolCalls <- 2, TailBudget <- 2, Summary <- 1, MaxAttempts <- 2,
    Commands <- <<"prompt", "compact">>,
    Responses <- {<<"tool", "code">>, <<"code", "code", "code">>}, Dispatch <- 5,
    Automatic <- 4, MaxWaves <- 2, MaxStops <- 1,
    Bad <- {"overflow", "failure", "malformed", "closing", "big", "cancel"}, hist <- v1,
    op <- v2, phase <- v3, eff <- v4, cancel <- v5, ended <- v6, asked <- v7, stops <- v8

Model == INSTANCE ModelCall WITH
    MaxAttempts <- 1, MaxDeltas <- 1, MaxDispatches <- 2, MaxRequests <- 1,
    Faults <- {"cancel", "crash", "timeout", "break"}, child <- v1, ad <- v2, pipe <- v3,
    left <- v4, rd <- v5, chan <- v6, token <- v7, ob <- v8, cancel <- v9, result <- v10, count <- v11,
    sink <- v12, shown <- v13, replayed <- v14, turn <- v15

Acp == INSTANCE AcpServer WITH
    Sessions <- {"s"}, Existing <- {"s"}, Foreign <- {}, Prompts <- {"p", "q"}, MaxInbox <- 1,
    stored <- v1, used <- v2, inst <- v3, active <- v4, inbox <- v5, cur <- v6, task <- v7,
    reply <- v8

Definitions == INSTANCE AgentDefinitions WITH
    Workers <- {"w"}, Calls <- {First}, Souls <- {"arcee", "app"}, Paged <- FALSE,
    MaxCrashes <- 2, MaxFaults <- 2, MaxEdits <- 0, agents <- v1, main <- v2, receipts <- v3,
    soul <- v4, made <- v5, tx <- v6, work <- v7, told <- v8, lister <- v9, faults <- v10

Schema == INSTANCE KernelSchema WITH
    Processes <- {"p"}, Effects <- {"e"}, Files <- {1}, MaxCrashes <- 2, file <- v1, path <- v2,
    lock <- v3, proc <- v4, crashes <- v5

FileEdits == INSTANCE FileUpdates WITH
    Editors <- {"a", "b"}, Kind <- [e \in {"a", "b"} |-> "profile"], Missing <- TRUE,
    Outsiders <- 1, MaxCrashes <- 2, file <- v1, dir <- v2, lock <- v3, temps <- v4, ed <- v5,
    outside <- v6, crashes <- v7

Registry == INSTANCE PackageRegistry WITH
    Slots <- {1, 2}, PageSize <- 1, Syncers <- {"a", "c"},
    HostOf <- [s \in {"a", "c"} |-> IF s = "c" THEN "B" ELSE "A"], Packages <- {"p", "q"},
    Owned <- [h \in {"A", "B"} |-> IF h = "A" THEN {"p"} ELSE {"q"}],
    ArchiveOf <- [s \in {"a", "c"} |-> [p \in {"p", "q"} |-> p]],
    Refused <- [h \in {"A", "B"} |-> {}],
    Faults <- {"request", "body", "stop", "power", "commit", "host", "sync"}, MaxFaults <- 1, log <- v1,
    identity <- v2, open <- v3, blobs <- v4, unsynced <- v5, uploads <- v6, host <- v7,
    sync <- v8, faults <- v9, doubtful <- v10

ASSUME ComponentBounds ==
    /\ Rcp!RcpAssumption
    /\ Push!PushAssumption
    /\ Fcm!FcmAssumption
    /\ DeviceSessions!DevicesAssumption
    /\ Share!SharePageAssumption
    /\ Messages!AgentMessagesAssumption
    /\ Link!AgentLinkAssumption
    /\ HostCalls!HostCallsAssumption
    /\ Discord!DiscordAssumption
    /\ Telegram!TelegramAssumption
    /\ Slack!SlackAssumption
    /\ Labels!ChannelsAssumption
    /\ Results!ChannelsAssumption
    /\ Automations!AutomationsAssumption
    /\ Feed!FeedAssumption
    /\ Turns!TurnsAssumption
    /\ Jobs!MemoryJobsAssumption
    /\ Reminders!RemindersAssumption
    /\ Loop!LimitsOrdered
    /\ Model!Bounds
    /\ Acp!AcpAssumption

Init ==
    /\ part \in Chosen
    /\ \/ part = "rcp" /\ Rcp!Init
       \/ part = "push" /\ Push!Init /\ Rest20
       \/ part = "fcm" /\ Fcm!Init /\ Rest9
       \/ part = "deviceSessions" /\ DeviceSessions!Init /\ Rest10
       \/ part = "share" /\ Share!Init /\ Rest4
       \/ part = "messages" /\ Messages!Init /\ Rest10
       \/ part = "link" /\ Link!Init /\ Rest10
       \/ part = "hostCalls" /\ HostCalls!Init /\ Rest11
       \/ part = "discord" /\ Discord!Init /\ Rest15
       \/ part = "telegram" /\ Telegram!Init /\ Rest13
       \/ part = "slack" /\ Slack!Init /\ Rest13
       \/ part = "labels" /\ Labels!Init /\ Rest13
       \/ part = "results" /\ Results!Init /\ Rest13
       \/ part = "automations" /\ Automations!Init /\ Rest15
       \/ part = "feed" /\ Feed!Init /\ Rest11
       \/ part = "turns" /\ Turns!Init /\ Rest20
       \/ part = "jobs" /\ Jobs!Init /\ Rest17
       \/ part = "reminders" /\ Reminders!Init /\ Rest13
       \/ part = "mcpCall" /\ McpCall!Init /\ Rest11
       \/ part = "setups" /\ Setups!Init /\ Rest20
       \/ part = "loop" /\ Loop!Init /\ Rest9
       \/ part = "model" /\ Model!Init /\ Rest16
       \/ part = "acp" /\ Acp!Init /\ Rest9
       \/ part = "definitions" /\ Definitions!Init /\ Rest11
       \/ part = "schema" /\ Schema!Init /\ Rest6
       \/ part = "fileEdits" /\ FileEdits!Init /\ Rest8
       \/ part = "registry" /\ Registry!Init /\ Rest11

Next ==
    \/ part = "rcp" /\ Rcp!Next /\ Same27
    \/ part = "push" /\ Push!Next /\ Same20
    \/ part = "fcm" /\ Fcm!Next /\ Same9
    \/ part = "deviceSessions" /\ DeviceSessions!Next /\ Same10
    \/ part = "share" /\ Share!Next /\ Same4
    \/ part = "messages" /\ Messages!Next /\ Same10
    \/ part = "link" /\ Link!Next /\ Same10
    \/ part = "hostCalls" /\ HostCalls!Next /\ Same11
    \/ part = "discord" /\ Discord!Next /\ Same15
    \/ part = "telegram" /\ Telegram!Next /\ Same13
    \/ part = "slack" /\ Slack!Next /\ Same13
    \/ part = "labels" /\ Labels!Next /\ Same13
    \/ part = "results" /\ Results!Next /\ Same13
    \/ part = "automations" /\ Automations!Next /\ Same15
    \/ part = "feed" /\ Feed!Next /\ Same11
    \/ part = "turns" /\ Turns!Next /\ Same20
    \/ part = "jobs" /\ Jobs!Next /\ Same17
    \/ part = "reminders" /\ Reminders!Next /\ Same13
    \/ part = "mcpCall" /\ McpCall!Next /\ Same11
    \/ part = "setups" /\ Setups!Next /\ Same20
    \/ part = "loop" /\ Loop!Next /\ Same9
    \/ part = "model" /\ Model!Next /\ Same16
    \/ part = "acp" /\ Acp!Next /\ Same9
    \/ part = "definitions" /\ Definitions!Next /\ Same11
    \/ part = "schema" /\ Schema!Next /\ Same6
    \/ part = "fileEdits" /\ FileEdits!Next /\ Same8
    \/ part = "registry" /\ Registry!Next /\ Same11

(* part never changes, so a component's strongly fair steps can share an index. *)
Strong(i) ==
    \/ i = 1 /\ part = "push" /\ Push!Concluded("d") /\ Same20
    \/ i = 1 /\ part = "deviceSessions" /\ DeviceSessions!EndsSessionsOf("d") /\ Same10
    \/ i = 1 /\ part = "labels" /\ Labels!Provision("a") /\ Same13
    \/ i = 1 /\ part = "results" /\ Results!Provision("a") /\ Same13
    \/ i = 1 /\ part = "definitions" /\ Definitions!BeginCreate("w") /\ Same11
    \/ i = 1 /\ part = "schema" /\ Schema!TryLock("p") /\ v3 = "free" /\ Same6
    \/ i = 1 /\ part = "fileEdits" /\ FileEdits!Acquire("a") /\ Same8
    \/ i = 1 /\ part = "registry" /\ Registry!Publish(1) /\ Same11
    \/ i = 2 /\ part = "deviceSessions" /\ DeviceSessions!EndsSessionsOf("e") /\ Same10
    \/ i = 2 /\ part = "labels" /\ Labels!Provision("b") /\ Same13
    \/ i = 2 /\ part = "definitions" /\ Definitions!Publish("w") /\ Same11
    \/ i = 2 /\ part = "schema" /\ Schema!Migrate("p") /\ Same6
    \/ i = 2 /\ part = "fileEdits" /\ FileEdits!Acquire("b") /\ Same8
    \/ i = 2 /\ part = "registry" /\ Registry!Publish(2) /\ Same11
    \/ i = 3 /\ part = "definitions" /\ Definitions!CommitCreate("w") /\ Same11

Fairness ==
    /\ WF_vars(part = "rcp" /\ Rcp!Coordinator /\ Same27)
    /\ WF_vars(part = "rcp" /\ Rcp!NodeIdle /\ Rcp!SendToNode /\ Same27)
    /\ WF_vars(part = "rcp" /\ Rcp!NodeIdle /\ Rcp!HandleOperation /\ Same27)
    /\ WF_vars(part = "rcp" /\ Rcp!Session /\ Same27)
    /\ WF_vars(part = "rcp" /\ Rcp!Connect /\ Same27)
    /\ WF_vars(part = "rcp" /\ Rcp!CoordIdle /\ Rcp!Drained /\ Same27)
    /\ WF_vars(part = "rcp" /\ Rcp!CoordIdle /\ Rcp!Restart /\ Same27)
    /\ WF_vars(part = "rcp" /\ Rcp!CoordIdle /\ Rcp!CommitSignal /\ Same27)
    /\ WF_vars(part = "rcp" /\ Rcp!CoordIdle /\ Rcp!Turns("t") /\ Same27)
    /\ WF_vars(part = "rcp" /\ Rcp!CoordIdle /\ Rcp!Join("t") /\ Same27)
    /\ WF_vars(part = "push" /\ Push!Dispatch /\ Same20)
    /\ WF_vars(part = "push" /\ Push!Cooled("d") /\ Same20)
    /\ \A s \in {"s", "t"} : WF_vars(part = "fcm" /\ Fcm!Attempt(s) /\ Same9)
    /\ \A c \in {"x", "y"} : WF_vars(part = "deviceSessions" /\ DeviceSessions!RegisterSession(c) /\ Same10)
    /\ \A r \in {"r", "s"} : WF_vars(part = "share" /\ Share!Step(r) /\ Same4)
    /\ WF_vars(part = "messages" /\ Messages!Progress /\ Same10)
    /\ WF_vars(part = "link" /\ Link!NextMessage /\ Same10)
    /\ \A c \in {"c", "d"} : WF_vars(part = "link" /\ Link!Enqueue(c) /\ Same10)
    /\ \A c \in {"c", "d"} : WF_vars(part = "link" /\ Link!Dropped(c) /\ Same10)
    /\ \A c \in {"c", "d"} : WF_vars(part = "link" /\ Link!TimedOut(c) /\ Same10)
    /\ \A c \in {"c", "d"} : WF_vars(part = "link" /\ Link!Return(c) /\ Same10)
    /\ \A c \in {"c", "d"} : WF_vars(part = "hostCalls" /\ HostCalls!Dispatch(c) /\ Same11)
    /\ \A c \in {"c", "d"} : WF_vars(part = "hostCalls" /\ HostCalls!SendCall(c) /\ Same11)
    /\ \A c \in {"c", "d"} : WF_vars(part = "hostCalls" /\ HostCalls!Disconnected(c) /\ Same11)
    /\ \A c \in {"c", "d"} : WF_vars(part = "hostCalls" /\ HostCalls!TimedOut(c) /\ Same11)
    /\ WF_vars(part = "discord" /\ Discord!Work /\ Same15)
    /\ WF_vars(part = "telegram" /\ Telegram!Work /\ Same13)
    /\ WF_vars(part = "telegram" /\ (\E u \in Telegram!Updates : u = v2 /\ Telegram!Admit(u)) /\ Same13)
    /\ WF_vars(part = "telegram" /\ Telegram!ApplyImmediate /\ Same13)
    /\ WF_vars(part = "slack" /\ Slack!Worker /\ Same13)
    /\ WF_vars(part = "slack" /\ Slack!Socket /\ Same13)
    /\ WF_vars(part = "labels" /\ Labels!Channel /\ Same13)
    /\ WF_vars(part = "labels" /\ Labels!Automation /\ Same13)
    /\ WF_vars(part = "results" /\ Results!Channel /\ Same13)
    /\ WF_vars(part = "results" /\ Results!Automation /\ Same13)
    /\ WF_vars(part = "automations" /\ Automations!Scheduler /\ Same15)
    /\ \A r \in 1..2 : WF_vars(part = "automations" /\ r \in Automations!Runs /\ Automations!TurnEnds(r) /\ Same15)
    /\ \A a \in 1..3 : WF_vars(part = "automations" /\ Automations!DeleteTask(a) /\ Same15)
    /\ \A a \in 1..3 : WF_vars(part = "automations" /\ Automations!ConversationDeleted(a) /\ Same15)
    /\ WF_vars(part = "feed" /\ Feed!StartPass /\ Same11)
    /\ WF_vars(part = "feed" /\ Feed!RequestWake /\ Same11)
    /\ \A r \in {"r", "s"} : WF_vars(part = "turns" /\ Turns!Step(r) /\ Same20)
    /\ WF_vars(part = "turns" /\ Turns!PassStep /\ Same20)
    /\ WF_vars(part = "turns" /\ (Turns!ConfigurationBegins \/ Turns!ConfigurationEnds) /\ Same20)
    /\ WF_vars(part = "turns" /\ Turns!Closed /\ Same20)
    /\ WF_vars(part = "jobs" /\ Jobs!Work /\ Same17)
    /\ WF_vars(part = "jobs" /\ Jobs!Admit("nightly") /\ Same17)
    /\ WF_vars(part = "reminders" /\ Reminders!PrepareWell /\ Same13)
    /\ WF_vars(part = "reminders" /\ Reminders!Transact /\ Same13)
    /\ WF_vars(part = "reminders" /\ Reminders!Dropped /\ Same13)
    /\ \A k \in Reminders!Keys : WF_vars(part = "reminders" /\ (\E how \in {"ok", "failed"} : Reminders!RunEnds(k, how)) /\ Same13)
    /\ \A k \in Reminders!Keys : WF_vars(part = "reminders" /\ Reminders!ConversationDeleted(k) /\ Same13)
    /\ WF_vars(part = "mcpCall" /\ (\E ok \in BOOLEAN : McpCall!WriteRequest(ok)) /\ Same11)
    /\ WF_vars(part = "mcpCall" /\ McpCall!Drain /\ Same11)
    /\ WF_vars(part = "mcpCall" /\ (McpCall!Signal \/ McpCall!GiveUp) /\ Same11)
    /\ WF_vars(part = "mcpCall" /\ McpCall!Terminate /\ Same11)
    /\ WF_vars(part = "mcpCall" /\ McpCall!Kill /\ Same11)
    /\ WF_vars(part = "mcpCall" /\ McpCall!Settle /\ Same11)
    /\ WF_vars(part = "setups" /\ Setups!Start /\ Same20)
    /\ WF_vars(part = "setups" /\ Setups!Runner("c") /\ Same20)
    /\ WF_vars(part = "setups" /\ Setups!Expire("c") /\ Same20)
    /\ WF_vars(part = "setups" /\ Setups!GraceOver("c") /\ Same20)
    /\ WF_vars(part = "loop" /\ Loop!Decide /\ Same9)
    /\ WF_vars(part = "loop" /\ Loop!CancelOperation /\ Same9)
    /\ WF_vars(part = "loop" /\ Loop!Settle /\ Same9)
    /\ WF_vars(part = "loop" /\ (\E i \in DOMAIN v4 : Loop!DispatchEffect(i)) /\ Same9)
    /\ WF_vars(part = "loop" /\ Loop!NextCommand /\ Same9)
    /\ WF_vars(part = "model" /\ Model!ReaderNext /\ Same16)
    /\ WF_vars(part = "model" /\ Model!StopLeft /\ Same16)
    /\ WF_vars(part = "model" /\ Model!SamplingNext /\ Same16)
    /\ WF_vars(part = "model" /\ Model!TurnNext /\ Same16)
    /\ WF_vars(part = "acp" /\ Acp!Handler /\ Same9)
    /\ \A p \in {"p", "q"} : WF_vars(part = "acp" /\ Acp!TaskStep(p) /\ Same9)
    /\ \A p \in {"p", "q"} : WF_vars(part = "acp" /\ Acp!Finish(p, "cancelled") /\ Same9)
    /\ WF_vars(part = "definitions" /\ Definitions!Step("w") /\ Same11)
    /\ WF_vars(part = "definitions" /\ (\E c \in {First} : Definitions!Ask("w", c)) /\ Same11)
    /\ \A p \in {"p"} : WF_vars(part = "schema" /\ (Schema!OpenFile(p) \/ Schema!ValidateIdentity(p) \/ Schema!ValidateCurrent(p)) /\ Same6)
    /\ \A p \in {"p"} : WF_vars(part = "schema" /\ Schema!Close(p) /\ Same6)
    /\ \A e \in {"a", "b"} : WF_vars(part = "fileEdits" /\ FileEdits!Work(e) /\ Same8)
    /\ \A e \in {"a", "b"} : WF_vars(part = "fileEdits" /\ FileEdits!Replay(e) /\ Same8)
    /\ WF_vars(part = "registry" /\ Registry!OpenStore /\ Same11)
    /\ \A u \in 1..2 : WF_vars(part = "registry" /\ Registry!UploadStep(u) /\ Same11)
    /\ \A s \in {"a", "c"} : WF_vars(part = "registry" /\ Registry!SyncStep(s) /\ Same11)
    /\ \A s \in {"a", "c"} : WF_vars(part = "registry" /\ Registry!Bind(s) /\ Same11)
    /\ \A h \in {"A", "B"}, p \in {"p", "q"} : WF_vars(part = "registry" /\ Registry!Install(h, p) /\ Same11)

Spec == Init /\ [][Next]_vars /\ Fairness
StrongSpec == Spec /\ \A i \in 1..3 : SF_vars(Strong(i))

-----------------------------------------------------------------------------
(* What is owed is settled in the end, and stays so: commands are answered, calls *)
(* return, turns and runs end, deliveries are made or given up, sessions of a *)
(* revoked device are cut off, hosts converge.                                *)
Settles == <>[](
    /\ part = "rcp" =>
         /\ Rcp!AdmittedSettles /\ Rcp!StopsAreDelivered
    /\ part = "push" => Push!OwedSettles
    /\ part = "fcm" => Fcm!SendsEnd
    /\ part = "deviceSessions" => DeviceSessions!RevokedIsCutOff
    /\ part = "share" => Share!PageEnds
    /\ part = "messages" => Messages!ExchangeEnds
    /\ part = "link" => Link!CallsEnd
    /\ part = "hostCalls" => HostCalls!CallsEnd
    /\ part = "discord" =>
         /\ Discord!EveryoneAnswered /\ Discord!Settles
    /\ part = "telegram" => Telegram!EveryoneAnswered
    /\ part = "slack" => Slack!EveryoneAnswered
    /\ part = "labels" => Labels!ChannelsBecomeReady
    /\ part = "results" => Results!ResultsSettle
    /\ part = "automations" =>
         /\ Automations!DueRuns /\ Automations!RunsEnd /\ Automations!DeletedPurged
    /\ part = "feed" => Feed!WakesReach
    /\ part = "turns" => Turns!EveryCallAnswered
    /\ part = "reminders" => Reminders!ToldIsSettled
    /\ part = "mcpCall" => McpCall!CallEnds
    /\ part = "setups" => Setups!SavedComesBack
    /\ part = "loop" => Loop!OperationsEnd
    /\ part = "model" =>
         /\ Model!RequestSettles /\ Model!ChildReaped
    /\ part = "definitions" => Definitions!Created
    /\ part = "schema" => Schema!Upgrades
    /\ part = "fileEdits" => FileEdits!EditsEnd
    /\ part = "registry" => Registry!Converges)

(* Work that starts again and again ends every time: an ACP close returns, a  *)
(* cancelled prompt ends and a memory job settles.                            *)
Returns ==
    /\ []<>(part = "jobs" => Jobs!JobSettles)
    /\ []<>(part = "acp" => Acp!CloseReturns)
    /\ []<>(part = "acp" => Acp!CancelEnds("p"))
    /\ []<>(part = "acp" => Acp!CancelEnds("q"))
=============================================================================
