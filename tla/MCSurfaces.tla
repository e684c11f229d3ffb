----------------------------- MODULE MCSurfaces -----------------------------
(***************************************************************************)
(* The surfaces and the stores on small instances: Discord, Telegram,      *)
(* Slack and its channels, the ACP server, agent definitions, document     *)
(* files, kernel migrations, credential relays and the package registry. A *)
(* run explores the components in Chosen side by side: part names the one  *)
(* a behaviour is about. The ACP server has its own variables, which are   *)
(* idle in a behaviour about another component; v1, v2, ... hold those of  *)
(* the others.                                                             *)
(***************************************************************************)
EXTENDS AcpServer, Integers

CONSTANTS Chosen, None

VARIABLES part, v1, v2, v3, v4, v5, v6, v7, v8, v9, v10, v11, v12, v13, v14

others == <<v1, v2, v3, v4, v5, v6, v7, v8, v9, v10, v11, v12, v13, v14>>
all == <<part, others, vars>>

(* A component that needs fewer variables leaves the rest empty. *)
Idle == Init
Rest14 == v14 = 0 /\ Idle
Rest13 == v13 = 0 /\ Rest14
Rest12 == v12 = 0 /\ Rest13
Rest11 == v11 = 0 /\ Rest12
Rest10 == v10 = 0 /\ Rest11
Rest9 == v9 = 0 /\ Rest10
Rest8 == v8 = 0 /\ Rest9
Rest7 == v7 = 0 /\ Rest8
Rest6 == v6 = 0 /\ Rest7
NoOther == v1 = 0 /\ v2 = 0 /\ v3 = 0 /\ v4 = 0 /\ v5 = 0 /\ Rest6
Same15 == UNCHANGED part /\ UNCHANGED vars
Same14 == UNCHANGED v14 /\ Same15
Same13 == UNCHANGED v13 /\ Same14
Same12 == UNCHANGED v12 /\ Same13
Same11 == UNCHANGED v11 /\ Same12
Same10 == UNCHANGED v10 /\ Same11
Same9 == UNCHANGED v9 /\ Same10
Same8 == UNCHANGED v8 /\ Same9
Same7 == UNCHANGED v7 /\ Same8
Same6 == UNCHANGED v6 /\ Same7

Create(op, preset, name) == [kind |-> "create", op |-> op, preset |-> preset, name |-> name]
MoveTo(agent, preset) == [kind |-> "move", op |-> 0, agent |-> agent, preset |-> preset]
Rename(op, agent, from, to) ==
  [kind |-> "rename", op |-> op, agent |-> agent, actor |-> agent, expected |-> from, name |-> to]
Tools(op, agent, expected, tools) ==
  [kind |-> "tools", op |-> op, agent |-> agent, expected |-> expected, tools |-> tools]
MainTo(op, agent, expected) == [kind |-> "main", op |-> op, agent |-> agent, expected |-> expected]
First == Create(1, "arcee", "a")

DiscordTurns == INSTANCE Discord WITH
    Channels <- {"c"}, Agents <- {"a", "b"}, DefaultAgent <- "a", Kinds <- {"text", "new"},
    MaxPosts <- 2, MaxPages <- 1, MaxFaults <- 2, post <- v1, gap <- v2, valid <- v3, gw <- v4,
    cursor <- v5, bound <- v6, turn <- v7, task <- v8, out <- v9, link <- v10, step <- v11,
    online <- v12, journal <- v13, faults <- v14

DiscordPages == INSTANCE Discord WITH
    Channels <- {"c"}, Agents <- {"a"}, DefaultAgent <- "a",
    Kinds <- {"text", "empty", "other"}, MaxPosts <- 2, MaxPages <- 2, MaxFaults <- 2,
    post <- v1, gap <- v2, valid <- v3, gw <- v4, cursor <- v5, bound <- v6, turn <- v7,
    task <- v8, out <- v9, link <- v10, step <- v11, online <- v12, journal <- v13,
    faults <- v14

TelegramTopics == INSTANCE Telegram WITH
    Topics <- {"t", "u"}, Kinds <- {"prompt", "new", "cancel", "stopped"}, WithLinks <- FALSE,
    MaxUpdates <- 3, MaxChunks <- 1, MaxFaults <- 1, sent <- v1, next <- v2, upd <- v3,
    conv <- v4, link <- v5, poll <- v6, work <- v7, active <- v8, wake <- v9, turn <- v10,
    posted <- v11, faults <- v12

TelegramDeliveries == INSTANCE Telegram WITH
    Topics <- {"t"}, Kinds <- {"prompt", "notice"}, WithLinks <- TRUE, MaxUpdates <- 2,
    MaxChunks <- 3, MaxFaults <- 3, sent <- v1, next <- v2, upd <- v3, conv <- v4, link <- v5,
    poll <- v6, work <- v7, active <- v8, wake <- v9, turn <- v10, posted <- v11, faults <- v12

SlackStops == INSTANCE Slack WITH
    Kinds <- {"prompt", "cancel"}, MaxMessages <- 3, MaxChunks <- 1, MaxFaults <- 1, msg <- v1,
    acked <- v2, envelope <- v3, req <- v4, out <- v5, target <- v6, work <- v7, active <- v8,
    wake <- v9, turn <- v10, posts <- v11, faults <- v12

SlackReplies == INSTANCE Slack WITH
    Kinds <- {"prompt", "new"}, MaxMessages <- 2, MaxChunks <- 2, MaxFaults <- 2, msg <- v1,
    acked <- v2, envelope <- v3, req <- v4, out <- v5, target <- v6, work <- v7, active <- v8,
    wake <- v9, turn <- v10, posts <- v11, faults <- v12

SlackLabels == INSTANCE SlackChannels WITH
    Agents <- {"a", "b"}, Names <- {"n", "m"}, MaxQuotes <- 2, MaxRenames <- 3, MaxRuns <- 0, MaxPrompts <- 0,
    MaxFaults <- 3, name <- v1, renames <- v2, slack <- v3, chan <- v4, label <- v5, step <- v6,
    runs <- v7, cursor <- v8, out <- v9, busy <- v10, prompt <- v11, faults <- v12

SlackResults == INSTANCE SlackChannels WITH
    Agents <- {"a"}, Names <- {"n"}, MaxQuotes <- 2, MaxRenames <- 0, MaxRuns <- 3, MaxPrompts <- 3,
    MaxFaults <- 2, name <- v1, renames <- v2, slack <- v3, chan <- v4, label <- v5, step <- v6,
    runs <- v7, cursor <- v8, out <- v9, busy <- v10, prompt <- v11, faults <- v12

AgentEdits == INSTANCE AgentDefinitions WITH
    Workers <- {"w", "x"},
    Calls <- {First, [First EXCEPT !.name = "b"], Create(2, "alpha", "c"), Rename(3, 1, "a", "d"), Rename(4, 1, "a", "e"), Tools(5, 1, 1, {"bash"}), Tools(6, 1, 1, {}), MainTo(7, 2, 1), MainTo(8, 1, 1), MainTo(8, 1, 2)},
    Souls <- {"arcee", "app"}, Paged <- TRUE, MaxCrashes <- 1, MaxFaults <- 0, MaxEdits <- 0,
    agents <- v1, main <- v2, receipts <- v3, soul <- v4, made <- v5, tx <- v6, work <- v7,
    told <- v8, lister <- v9, faults <- v10

SoulMoves == INSTANCE AgentDefinitions WITH
    Workers <- {"w", "x"},
    Calls <- {First, Create(2, "alpha", "c"), MoveTo(2, "arcee"), MoveTo(2, "app"), MoveTo(1, "app")},
    Souls <- {"arcee", "app"}, Paged <- FALSE, MaxCrashes <- 1, MaxFaults <- 0, MaxEdits <- 1,
    agents <- v1, main <- v2, receipts <- v3, soul <- v4, made <- v5, tx <- v6, work <- v7,
    told <- v8, lister <- v9, faults <- v10

SoulFaults == INSTANCE AgentDefinitions WITH
    Workers <- {"w", "x"},
    Calls <- {First, Create(2, "alpha", "c"), MoveTo(2, "arcee"), MoveTo(2, "app"), MoveTo(1, "app")},
    Souls <- {"arcee", "app"}, Paged <- FALSE, MaxCrashes <- 1, MaxFaults <- 1, MaxEdits <- 1,
    agents <- v1, main <- v2, receipts <- v3, soul <- v4, made <- v5, tx <- v6, work <- v7,
    told <- v8, lister <- v9, faults <- v10

FileEdits == INSTANCE FileUpdates WITH
    Editors <- {"d", "t", "u"},
    Kind <- [e \in {"d", "t", "u"} |-> IF e = "d" THEN "soul" ELSE "edit"], Missing <- FALSE,
    Outsiders <- 1, MaxCrashes <- 1, file <- v1, dir <- v2, lock <- v3, temps <- v4, ed <- v5,
    outside <- v6, crashes <- v7

FileWrites == INSTANCE FileUpdates WITH
    Editors <- {"d", "t", "w"},
    Kind <- [e \in {"d", "t", "w"} |-> CASE e = "d" -> "soul" [] e = "t" -> "edit" [] OTHER -> "write"],
    Missing <- FALSE, Outsiders <- 1, MaxCrashes <- 0, file <- v1, dir <- v2, lock <- v3,
    temps <- v4, ed <- v5, outside <- v6, crashes <- v7

FileProfiles == INSTANCE FileUpdates WITH
    Editors <- {"a", "b", "c"}, Kind <- [e \in {"a", "b", "c"} |-> "profile"], Missing <- TRUE,
    Outsiders <- 1, MaxCrashes <- 1, file <- v1, dir <- v2, lock <- v3, temps <- v4, ed <- v5,
    outside <- v6, crashes <- v7

Schema == INSTANCE KernelSchema WITH
    Processes <- {"p", "q"}, Effects <- {"e", "f"}, Files <- {1}, MaxCrashes <- 2, file <- v1,
    path <- v2, lock <- v3, proc <- v4, crashes <- v5

SchemaPath == INSTANCE KernelSchema WITH
    Processes <- {"p", "q"}, Effects <- {"e"}, Files <- {1, 2}, MaxCrashes <- 0, file <- v1,
    path <- v2, lock <- v3, proc <- v4, crashes <- v5

CredentialRelays == INSTANCE Relays WITH
    Nodes <- {"n", "m"}, Ids <- {"r", "q"}, Secrets <- {"s", "t"}, Results <- {"x", "y"},
    ByState <- FALSE, PerDevice <- 1, Total <- 2, Life <- 2, MaxTime <- 4, now <- v1,
    revoked <- v2, relay <- v3, answered <- v4, seen <- v5

Registry == INSTANCE PackageRegistry WITH
    Slots <- {1, 2, 3}, PageSize <- 1, Syncers <- {"a", "c"},
    HostOf <- [s \in {"a", "c"} |-> IF s = "c" THEN "B" ELSE "A"], Packages <- {"p"},
    Owned <- [h \in {"A", "B"} |-> {"p"}],
    ArchiveOf <- [s \in {"a", "c"} |-> [p \in {"p"} |-> IF s = "c" THEN "other p" ELSE p]],
    Refused <- [h \in {"A", "B"} |-> {}],
    Faults <- {"request", "body", "stop", "power", "sync", "commit", "host"}, MaxFaults <- 2, log <- v1,
    identity <- v2, open <- v3, blobs <- v4, unsynced <- v5, uploads <- v6, host <- v7,
    sync <- v8, faults <- v9, doubtful <- v10

RegistryRefusals == INSTANCE PackageRegistry WITH
    Slots <- {1, 2, 3}, PageSize <- 1, Syncers <- {"a", "c"},
    HostOf <- [s \in {"a", "c"} |-> IF s = "c" THEN "B" ELSE "A"], Packages <- {"p", "q"},
    Owned <- [h \in {"A", "B"} |-> IF h = "A" THEN {"p", "q"} ELSE {"p"}],
    ArchiveOf <- [s \in {"a", "c"} |-> [p \in {"p", "q"} |-> p]],
    Refused <- [h \in {"A", "B"} |-> IF h = "B" THEN {"q"} ELSE {}], Faults <- {"request"},
    MaxFaults <- 1, log <- v1, identity <- v2, open <- v3, blobs <- v4, unsynced <- v5,
    uploads <- v6, host <- v7, sync <- v8, faults <- v9, doubtful <- v10

RegistryReplaced == INSTANCE PackageRegistry WITH
    Slots <- {1, 2, 3}, PageSize <- 1, Syncers <- {"a", "c"},
    HostOf <- [s \in {"a", "c"} |-> IF s = "c" THEN "B" ELSE "A"], Packages <- {"p", "q"},
    Owned <- [h \in {"A", "B"} |-> IF h = "A" THEN {"p"} ELSE {"q"}],
    ArchiveOf <- [s \in {"a", "c"} |-> [p \in {"p", "q"} |-> p]],
    Refused <- [h \in {"A", "B"} |-> {}], Faults <- {"host", "replace"}, MaxFaults <- 1,
    log <- v1, identity <- v2, open <- v3, blobs <- v4, unsynced <- v5, uploads <- v6,
    host <- v7, sync <- v8, faults <- v9, doubtful <- v10

ASSUME ComponentBounds ==
    /\ DiscordTurns!DiscordAssumption
    /\ DiscordPages!DiscordAssumption
    /\ TelegramTopics!TelegramAssumption
    /\ TelegramDeliveries!TelegramAssumption
    /\ SlackStops!SlackAssumption
    /\ SlackReplies!SlackAssumption
    /\ SlackLabels!ChannelsAssumption
    /\ SlackResults!ChannelsAssumption
    /\ AcpAssumption
    /\ CredentialRelays!RelaysAssumption

SurfacesInit ==
    /\ part \in Chosen
    /\ \/ part = "discordTurns" /\ DiscordTurns!Init /\ Idle
       \/ part = "discordPages" /\ DiscordPages!Init /\ Idle
       \/ part = "telegramTopics" /\ TelegramTopics!Init /\ Rest13
       \/ part = "telegramDeliveries" /\ TelegramDeliveries!Init /\ Rest13
       \/ part = "slackStops" /\ SlackStops!Init /\ Rest13
       \/ part = "slackReplies" /\ SlackReplies!Init /\ Rest13
       \/ part = "slackLabels" /\ SlackLabels!Init /\ Rest13
       \/ part = "slackResults" /\ SlackResults!Init /\ Rest13
       \/ part = "acp" /\ NoOther
       \/ part = "agentEdits" /\ AgentEdits!Init /\ Rest11
       \/ part = "soulMoves" /\ SoulMoves!Init /\ Rest11
       \/ part = "soulFaults" /\ SoulFaults!Init /\ Rest11
       \/ part = "fileEdits" /\ FileEdits!Init /\ Rest8
       \/ part = "fileWrites" /\ FileWrites!Init /\ Rest8
       \/ part = "fileProfiles" /\ FileProfiles!Init /\ Rest8
       \/ part = "schema" /\ Schema!Init /\ Rest6
       \/ part = "schemaPath" /\ SchemaPath!Init /\ Rest6
       \/ part = "credentialRelays" /\ CredentialRelays!Init /\ Rest6
       \/ part = "registry" /\ Registry!Init /\ Rest11
       \/ part = "registryRefusals" /\ RegistryRefusals!Init /\ Rest11
       \/ part = "registryReplaced" /\ RegistryReplaced!Init /\ Rest11

SurfacesNext ==
    \/ part = "discordTurns" /\ DiscordTurns!Next /\ Same15
    \/ part = "discordPages" /\ DiscordPages!Next /\ Same15
    \/ part = "telegramTopics" /\ TelegramTopics!Next /\ Same13
    \/ part = "telegramDeliveries" /\ TelegramDeliveries!Next /\ Same13
    \/ part = "slackStops" /\ SlackStops!Next /\ Same13
    \/ part = "slackReplies" /\ SlackReplies!Next /\ Same13
    \/ part = "slackLabels" /\ SlackLabels!Next /\ Same13
    \/ part = "slackResults" /\ SlackResults!Next /\ Same13
    \/ part = "acp" /\ Next /\ UNCHANGED <<part, others>>
    \/ part = "agentEdits" /\ AgentEdits!Next /\ Same11
    \/ part = "soulMoves" /\ SoulMoves!Next /\ Same11
    \/ part = "soulFaults" /\ SoulFaults!Next /\ Same11
    \/ part = "fileEdits" /\ FileEdits!Next /\ Same8
    \/ part = "fileWrites" /\ FileWrites!Next /\ Same8
    \/ part = "fileProfiles" /\ FileProfiles!Next /\ Same8
    \/ part = "schema" /\ Schema!Next /\ Same6
    \/ part = "schemaPath" /\ SchemaPath!Next /\ Same6
    \/ part = "credentialRelays" /\ CredentialRelays!Next /\ Same6
    \/ part = "registry" /\ Registry!Next /\ Same11
    \/ part = "registryRefusals" /\ RegistryRefusals!Next /\ Same11
    \/ part = "registryReplaced" /\ RegistryReplaced!Next /\ Same11

SurfacesSpec == SurfacesInit /\ [][SurfacesNext]_all

-----------------------------------------------------------------------------
(* On Discord and Telegram no message is skipped, reordered or answered twice *)
(* across restarts; a stop reaches the turn it was meant for; offline means   *)
(* nothing was sent; a link that may have been seen is scrubbed.              *)
ChatSafe ==
    /\ part = "discordTurns" =>
         /\ DiscordTurns!TypeOK /\ DiscordTurns!NoneSkipped
         /\ DiscordTurns!OfflineMeansNotSent /\ DiscordTurns!InOrder
         /\ DiscordTurns!AnsweredOnce /\ DiscordTurns!PagesInOrder
    /\ part = "discordPages" =>
         /\ DiscordPages!TypeOK /\ DiscordPages!NoneSkipped
         /\ DiscordPages!OfflineMeansNotSent /\ DiscordPages!InOrder
         /\ DiscordPages!AnsweredOnce /\ DiscordPages!PagesInOrder
    /\ part = "telegramTopics" =>
         /\ TelegramTopics!TypeOK /\ TelegramTopics!StopReaches
         /\ TelegramTopics!SessionsFollowNew /\ TelegramTopics!PostedOnce
         /\ TelegramTopics!LinksScrubbed
    /\ part = "telegramDeliveries" =>
         /\ TelegramDeliveries!TypeOK /\ TelegramDeliveries!StopReaches
         /\ TelegramDeliveries!SessionsFollowNew /\ TelegramDeliveries!PostedOnce
         /\ TelegramDeliveries!LinksScrubbed

(* What Slack is told was received is stored; a reply is posted at most once; a *)
(* stop reaches its turn; a label called applied is on the channel; a result  *)
(* is posted once and reaches the prompt that follows.                        *)
SlackSafe ==
    /\ part = "slackStops" =>
         /\ SlackStops!TypeOK /\ SlackStops!StopReaches /\ SlackStops!StopsDiffer
         /\ SlackStops!AcknowledgedIsStored /\ SlackStops!PostedOnce
    /\ part = "slackReplies" =>
         /\ SlackReplies!TypeOK /\ SlackReplies!StopReaches /\ SlackReplies!StopsDiffer
         /\ SlackReplies!AcknowledgedIsStored /\ SlackReplies!PostedOnce
    /\ part = "slackLabels" =>
         /\ SlackLabels!TypeOK /\ SlackLabels!AppliedIsReal /\ SlackLabels!ResultsOnce
         /\ SlackLabels!ResultsReachThePrompt
    /\ part = "slackResults" =>
         /\ SlackResults!TypeOK /\ SlackResults!AppliedIsReal /\ SlackResults!ResultsOnce
         /\ SlackResults!ResultsReachThePrompt

(* Definitions keep a main agent, one answer per operation and every edit; a  *)
(* soul is there when its agent is; files are whole and tidy; requests are    *)
(* released at once; a credential relay keeps its one result until its node   *)
(* acknowledges it; the registry serves what it records.                      *)
StoresSafe ==
    /\ part = "agentEdits" =>
         /\ AgentEdits!TypeOK /\ AgentEdits!MainIsAgent /\ AgentEdits!OneAnswer
         /\ AgentEdits!NoLostTools /\ AgentEdits!MainAgreed /\ AgentEdits!PagesAll
         /\ AgentEdits!SoulThere
    /\ part = "soulMoves" =>
         /\ SoulMoves!TypeOK /\ SoulMoves!SoulThere /\ SoulMoves!NothingLeft
    /\ part = "soulFaults" =>
         /\ SoulFaults!TypeOK /\ SoulFaults!NothingLeft
    /\ part = "fileEdits" =>
         /\ FileEdits!TypeOK /\ FileEdits!FailedUntouched /\ FileEdits!NoLitter
         /\ FileEdits!StaleMakesNothing
    /\ part = "fileWrites" =>
         /\ FileWrites!TypeOK /\ FileWrites!FailedUntouched /\ FileWrites!NoLitter
         /\ FileWrites!StaleMakesNothing
    /\ part = "fileProfiles" =>
         /\ FileProfiles!TypeOK /\ FileProfiles!FailedUntouched /\ FileProfiles!NoLitter
         /\ FileProfiles!StaleMakesNothing
    /\ part = "schema" =>
         /\ Schema!TypeOK /\ Schema!ReleasedAtOnce
    /\ part = "schemaPath" =>
         /\ SchemaPath!TypeOK /\ SchemaPath!ReleasedAtOnce
    /\ part = "credentialRelays" =>
         /\ CredentialRelays!TypeOK /\ CredentialRelays!OneResult
         /\ CredentialRelays!KeptUntilAcknowledged
    /\ part = "registry" =>
         /\ Registry!TypeOK /\ Registry!RecordsServed /\ Registry!OneRevision
         /\ Registry!CursorCovers /\ Registry!SyncComplete
    /\ part = "registryRefusals" =>
         /\ RegistryRefusals!TypeOK /\ RegistryRefusals!RecordsServed
         /\ RegistryRefusals!OneRevision /\ RegistryRefusals!CursorCovers
         /\ RegistryRefusals!SyncComplete
    /\ part = "registryReplaced" =>
         /\ RegistryReplaced!TypeOK /\ RegistryReplaced!RecordsServed
         /\ RegistryReplaced!OneRevision /\ RegistryReplaced!CursorCovers
         /\ RegistryReplaced!SyncComplete

(* The ACP server deletes no session that a holder still has open; an edit is *)
(* never undone or lost; migrations keep outcomes and leave a refused file    *)
(* alone; the registry and its cursors only grow.                             *)
SurfaceSteps == [][
    /\ DeletedUnheld
    /\ part = "soulMoves" => SoulMoves!EditsKept
    /\ part = "soulFaults" => SoulFaults!EditsKept
    /\ part = "fileEdits" => FileEdits!NothingLost
    /\ part = "fileWrites" => FileWrites!NothingLost
    /\ part = "fileProfiles" => FileProfiles!NothingLost
    /\ part = "schema" =>
         /\ Schema!OutcomesKept /\ Schema!RefusedUntouched /\ Schema!LeasedFile
    /\ part = "schemaPath" =>
         /\ SchemaPath!OutcomesKept /\ SchemaPath!RefusedUntouched /\ SchemaPath!LeasedFile
    /\ part = "registry" =>
         /\ Registry!Immutable /\ Registry!CursorMonotone
    /\ part = "registryRefusals" =>
         /\ RegistryRefusals!Immutable /\ RegistryRefusals!CursorMonotone
    /\ part = "registryReplaced" =>
         /\ RegistryReplaced!Immutable /\ RegistryReplaced!CursorMonotone]_all

(* An agent that is in the catalog has its soul on disk, also when a commit   *)
(* fails or is interrupted.                                                   *)
SoulKept == part = "soulFaults" => SoulFaults!SoulThere
=============================================================================
