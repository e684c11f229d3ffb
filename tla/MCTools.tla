------------------------------ MODULE MCTools -------------------------------
(***************************************************************************)
(* What an agent works with, on small instances: MCP authorization and     *)
(* calls, plugins and their set-ups, the agent loop and its model calls.   *)
(* A run explores the components in Chosen side by side: part names the    *)
(* one a behaviour is about and v1, v2, ... hold its variables.            *)
(***************************************************************************)
EXTENDS Integers, FiniteSets

CONSTANTS Chosen, None

VARIABLES part, v1, v2, v3, v4, v5, v6, v7, v8, v9, v10, v11, v12, v13, v14, v15, v16, v17, v18, v19

vars == <<part, v1, v2, v3, v4, v5, v6, v7, v8, v9, v10, v11, v12, v13, v14, v15, v16, v17, v18, v19>>

(* A component that needs fewer variables leaves the rest empty. *)
Rest19 == v19 = 0
Rest18 == v18 = 0 /\ Rest19
Rest17 == v17 = 0 /\ Rest18
Rest16 == v16 = 0 /\ Rest17
Rest15 == v15 = 0 /\ Rest16
Rest14 == v14 = 0 /\ Rest15
Rest13 == v13 = 0 /\ Rest14
Rest12 == v12 = 0 /\ Rest13
Rest11 == v11 = 0 /\ Rest12
Rest10 == v10 = 0 /\ Rest11
Rest9 == v9 = 0 /\ Rest10
Same20 == UNCHANGED part
Same19 == UNCHANGED v19 /\ Same20
Same18 == UNCHANGED v18 /\ Same19
Same17 == UNCHANGED v17 /\ Same18
Same16 == UNCHANGED v16 /\ Same17
Same15 == UNCHANGED v15 /\ Same16
Same14 == UNCHANGED v14 /\ Same15
Same13 == UNCHANGED v13 /\ Same14
Same12 == UNCHANGED v12 /\ Same13
Same11 == UNCHANGED v11 /\ Same12
Same10 == UNCHANGED v10 /\ Same11
Same9 == UNCHANGED v9 /\ Same10

OAuth == INSTANCE McpOAuth WITH
    Ops <- {"o", "p", "q"}, MaxFlows <- 2, MaxTokens <- 1, MaxStops <- 1, MaxFaults <- 1,
    flow <- v1, bundle <- v2, receipts <- v3, relay <- v4, run <- v5, tokens <- v6, spent <- v7,
    replayed <- v8, lapses <- v9, shown <- v10, stops <- v11, faults <- v12

OAuthRefresh == INSTANCE McpOAuth WITH
    Ops <- {"o", "p"}, MaxFlows <- 2, MaxTokens <- 2, MaxStops <- 1, MaxFaults <- 1, flow <- v1,
    bundle <- v2, receipts <- v3, relay <- v4, run <- v5, tokens <- v6, spent <- v7,
    replayed <- v8, lapses <- v9, shown <- v10, stops <- v11, faults <- v12

McpCall == INSTANCE McpCall WITH
    host <- v1, wrote <- v2, dispatch <- v3, terminal <- v4, read <- v5, told <- v6, ad <- v7,
    out <- v8, server <- v9, abort <- v10

PluginActivation == INSTANCE Plugins WITH
    Auths <- {"oauth"}, Agents <- {"a"}, Packages <- {"p", "q"}, Connections <- {"c"},
    Operations <- {"o", "r"}, Endpoints <- {"e"}, MaxVersion <- 1, MaxStops <- 1, MaxEach <- 2,
    Kinds <- {"activate", "replace", "enable", "deactivate", "connect"}, endpoint <- v1,
    served <- v2, published <- v3, installed <- v4, admitted <- v5, plugins <- v6,
    revisions <- v7, receipts <- v8, feed <- v9, connections <- v10, catalogs <- v11,
    bound <- v12, requests <- v13, tasks <- v14, found <- v15, called <- v16, stops <- v17

PluginReplaced == INSTANCE Plugins WITH
    Auths <- {"oauth"}, Agents <- {"a"}, Packages <- {"p", "q"}, Connections <- {"c"},
    Operations <- {"o", "r", "s"}, Endpoints <- {"e"}, MaxVersion <- 1, MaxStops <- 0,
    MaxEach <- 2, Kinds <- {"activate", "replace"}, endpoint <- v1, served <- v2,
    published <- v3, installed <- v4, admitted <- v5, plugins <- v6, revisions <- v7,
    receipts <- v8, feed <- v9, connections <- v10, catalogs <- v11, bound <- v12,
    requests <- v13, tasks <- v14, found <- v15, called <- v16, stops <- v17

PluginAgain == INSTANCE Plugins WITH
    Auths <- {"oauth"}, Agents <- {"a"}, Packages <- {"p"}, Connections <- {"c"},
    Operations <- {"o", "r", "s"}, Endpoints <- {"e"}, MaxVersion <- 1, MaxStops <- 0,
    MaxEach <- 2, Kinds <- {"activate", "replace", "enable", "deactivate", "connect"},
    endpoint <- v1, served <- v2, published <- v3, installed <- v4, admitted <- v5,
    plugins <- v6, revisions <- v7, receipts <- v8, feed <- v9, connections <- v10,
    catalogs <- v11, bound <- v12, requests <- v13, tasks <- v14, found <- v15, called <- v16,
    stops <- v17

PluginConnections == INSTANCE Plugins WITH
    Auths <- {"oauth"}, Agents <- {"a"}, Packages <- {"p", "q"}, Connections <- {"c"},
    Operations <- {"o", "r"}, Endpoints <- {"e", "f"}, MaxVersion <- 2, MaxStops <- 0,
    MaxEach <- 2, Kinds <- {"add", "authorize"}, endpoint <- v1, served <- v2, published <- v3,
    installed <- v4, admitted <- v5, plugins <- v6, revisions <- v7, receipts <- v8, feed <- v9,
    connections <- v10, catalogs <- v11, bound <- v12, requests <- v13, tasks <- v14,
    found <- v15, called <- v16, stops <- v17

PluginStops == INSTANCE Plugins WITH
    Auths <- {"open", "oauth"}, Agents <- {"a"}, Packages <- {"p"}, Connections <- {"c"},
    Operations <- {"o", "r"}, Endpoints <- {"e"}, MaxVersion <- 1, MaxStops <- 2, MaxEach <- 2,
    Kinds <- {"add", "deactivate"}, endpoint <- v1, served <- v2, published <- v3,
    installed <- v4, admitted <- v5, plugins <- v6, revisions <- v7, receipts <- v8, feed <- v9,
    connections <- v10, catalogs <- v11, bound <- v12, requests <- v13, tasks <- v14,
    found <- v15, called <- v16, stops <- v17

Setups == INSTANCE PluginSetups WITH
    Calls <- {"c"}, Devices <- {"d"}, MaxStops <- 2, MaxReserves <- 2, MaxFaults <- 2,
    at <- v1, link <- v2, stopped <- v3, state <- v4, ids <- v5,
    relay <- v6, grace <- v7, secret <- v8, row <- v9, task <- v10, receipt <- v11,
    notes <- v12, told <- v13, forgotten <- v14, held <- v15, known <- v16, up <- v17,
    stops <- v18, faults <- v19

TwoSetups == INSTANCE PluginSetups WITH
    Calls <- {"c", "d"}, Devices <- {"e"}, MaxStops <- 0, MaxReserves <- 1, MaxFaults <- 0,
    at <- v1, link <- v2, stopped <- v3, state <- v4, ids <- v5,
    relay <- v6, grace <- v7, secret <- v8, row <- v9, task <- v10, receipt <- v11,
    notes <- v12, told <- v13, forgotten <- v14, held <- v15, known <- v16, up <- v17,
    stops <- v18, faults <- v19

LoopCalls == INSTANCE AgentLoop WITH
    MaxModelTurns <- 2, MaxToolCalls <- 2, TailBudget <- 2, Summary <- 1, MaxAttempts <- 2,
    Commands <- <<"prompt", "prompt">>,
    Responses <- {<<"tool", "tool">>, <<"absent", "tool">>, <<"code", "tool">>}, Dispatch <- 6,
    Automatic <- 5, MaxWaves <- 2, MaxStops <- 1,
    Bad <- {"failure", "closing", "big", "unknown", "cancel"}, hist <- v1, op <- v2,
    phase <- v3, eff <- v4, cancel <- v5, ended <- v6, asked <- v7, stops <- v8

LoopContext == INSTANCE AgentLoop WITH
    MaxModelTurns <- 3, MaxToolCalls <- 2, TailBudget <- 2, Summary <- 1, MaxAttempts <- 2,
    Commands <- <<"prompt", "receipted", "prompt">>,
    Responses <- {<<"tool", "tool">>, <<"tool", "tool", "tool">>}, Dispatch <- 6,
    Automatic <- 5, MaxWaves <- 1, MaxStops <- 0, Bad <- {"overflow", "malformed"}, hist <- v1,
    op <- v2, phase <- v3, eff <- v4, cancel <- v5, ended <- v6, asked <- v7, stops <- v8

LoopCompact == INSTANCE AgentLoop WITH
    MaxModelTurns <- 2, MaxToolCalls <- 2, TailBudget <- 2, Summary <- 1, MaxAttempts <- 2,
    Commands <- <<"prompt", "compact", "prompt">>,
    Responses <- {<<"tool", "tool">>, <<"tool", "tool", "tool">>}, Dispatch <- 5,
    Automatic <- 5, MaxWaves <- 1, MaxStops <- 0,
    Bad <- {"overflow", "malformed", "failure", "cancel"}, hist <- v1, op <- v2, phase <- v3,
    eff <- v4, cancel <- v5, ended <- v6, asked <- v7, stops <- v8

Model == INSTANCE ModelCall WITH
    MaxAttempts <- 2, MaxDeltas <- 2, MaxDispatches <- 2, MaxRequests <- 1,
    Faults <- {"cancel", "crash", "timeout", "break", "reject"}, child <- v1, ad <- v2,
    pipe <- v3, left <- v4, rd <- v5, chan <- v6, token <- v7, ob <- v8, cancel <- v9,
    result <- v10, count <- v11, sink <- v12, shown <- v13, replayed <- v14, turn <- v15

ModelTurn == INSTANCE ModelCall WITH
    MaxAttempts <- 1, MaxDeltas <- 1, MaxDispatches <- 2, MaxRequests <- 2, Faults <- {"break"},
    child <- v1, ad <- v2, pipe <- v3, left <- v4, rd <- v5, chan <- v6, token <- v7,
    ob <- v8, cancel <- v9, result <- v10, count <- v11, sink <- v12, shown <- v13,
    replayed <- v14, turn <- v15

ASSUME ComponentBounds ==
    /\ OAuth!McpOAuthAssumption
    /\ OAuthRefresh!McpOAuthAssumption
    /\ LoopCalls!LimitsOrdered
    /\ LoopContext!LimitsOrdered
    /\ LoopCompact!LimitsOrdered
    /\ Model!Bounds
    /\ ModelTurn!Bounds

Init ==
    /\ part \in Chosen
    /\ \/ part = "oAuth" /\ OAuth!Init /\ Rest13
       \/ part = "oAuthRefresh" /\ OAuthRefresh!Init /\ Rest13
       \/ part = "mcpCall" /\ McpCall!Init /\ Rest11
       \/ part = "pluginActivation" /\ PluginActivation!Init /\ Rest18
       \/ part = "pluginReplaced" /\ PluginReplaced!Init /\ Rest18
       \/ part = "pluginAgain" /\ PluginAgain!Init /\ Rest18
       \/ part = "pluginConnections" /\ PluginConnections!Init /\ Rest18
       \/ part = "pluginStops" /\ PluginStops!Init /\ Rest18
       \/ part = "setups" /\ Setups!Init
       \/ part = "twoSetups" /\ TwoSetups!Init
       \/ part = "loopCalls" /\ LoopCalls!Init /\ Rest9
       \/ part = "loopContext" /\ LoopContext!Init /\ Rest9
       \/ part = "loopCompact" /\ LoopCompact!Init /\ Rest9
       \/ part = "model" /\ Model!Init /\ Rest16
       \/ part = "modelTurn" /\ ModelTurn!Init /\ Rest16

Next ==
    \/ part = "oAuth" /\ OAuth!Next /\ Same13
    \/ part = "oAuthRefresh" /\ OAuthRefresh!Next /\ Same13
    \/ part = "mcpCall" /\ McpCall!Next /\ Same11
    \/ part = "pluginActivation" /\ PluginActivation!Next /\ Same18
    \/ part = "pluginReplaced" /\ PluginReplaced!Next /\ Same18
    \/ part = "pluginAgain" /\ PluginAgain!Next /\ Same18
    \/ part = "pluginConnections" /\ PluginConnections!Next /\ Same18
    \/ part = "pluginStops" /\ PluginStops!Next /\ Same18
    \/ part = "setups" /\ Setups!Next /\ Same20
    \/ part = "twoSetups" /\ TwoSetups!Next /\ Same20
    \/ part = "loopCalls" /\ LoopCalls!Next /\ Same9
    \/ part = "loopContext" /\ LoopContext!Next /\ Same9
    \/ part = "loopCompact" /\ LoopCompact!Next /\ Same9
    \/ part = "model" /\ Model!Next /\ Same16
    \/ part = "modelTurn" /\ ModelTurn!Next /\ Same16

Spec == Init /\ [][Next]_vars

-----------------------------------------------------------------------------
(* An authorization code and a refresh token are sent once while no restart   *)
(* dropped their flow; a call is made once, and what is said of it is what    *)
(* happened.                                                                  *)
McpSafe ==
    /\ part = "oAuth" =>
         /\ OAuth!TypeOK /\ OAuth!CodeOnce /\ OAuth!RefreshOnce
    /\ part = "oAuthRefresh" =>
         /\ OAuthRefresh!TypeOK /\ OAuthRefresh!CodeOnce /\ OAuthRefresh!RefreshOnce
    /\ part = "mcpCall" =>
         /\ McpCall!TypeOK /\ McpCall!HonestFailure /\ McpCall!CompletedAnswered
         /\ McpCall!CalledOnce /\ McpCall!UncertainOnlyDispatched

(* What is on was admitted, under one identity per revision; a tool called is *)
(* the tool that was shown; a set-up asks once, keeps its answer, follows up  *)
(* once and withdraws its notices.                                            *)
PluginsSafe ==
    /\ part = "pluginActivation" =>
         /\ PluginActivation!TypeOK /\ PluginActivation!OneIdentityPerRevision
         /\ PluginActivation!OnMeansAdmitted /\ PluginActivation!CatalogOfConnection
         /\ PluginActivation!CalledAsShown
    /\ part = "pluginReplaced" =>
         /\ PluginReplaced!TypeOK /\ PluginReplaced!OneIdentityPerRevision
         /\ PluginReplaced!OnMeansAdmitted /\ PluginReplaced!CatalogOfConnection
         /\ PluginReplaced!CalledAsShown
    /\ part = "pluginAgain" =>
         /\ PluginAgain!TypeOK /\ PluginAgain!OneIdentityPerRevision
         /\ PluginAgain!OnMeansAdmitted /\ PluginAgain!CatalogOfConnection
         /\ PluginAgain!CalledAsShown
    /\ part = "pluginConnections" =>
         /\ PluginConnections!TypeOK /\ PluginConnections!OneIdentityPerRevision
         /\ PluginConnections!OnMeansAdmitted /\ PluginConnections!CatalogOfConnection
         /\ PluginConnections!CalledAsShown
    /\ part = "pluginStops" =>
         /\ PluginStops!TypeOK /\ PluginStops!OneIdentityPerRevision
         /\ PluginStops!OnMeansAdmitted /\ PluginStops!CatalogOfConnection
         /\ PluginStops!CalledAsShown
    /\ part = "setups" =>
         /\ Setups!TypeOK /\ Setups!AnswerKept /\ Setups!OnePrompt /\ Setups!WaitingIsOwed
         /\ Setups!OneFollowUp /\ Setups!UndeliveredForgotten /\ Setups!DeliveredKept
         /\ Setups!NoticesWithdrawn
    /\ part = "twoSetups" =>
         /\ TwoSetups!TypeOK /\ TwoSetups!AnswerKept /\ TwoSetups!OnePrompt
         /\ TwoSetups!WaitingIsOwed /\ TwoSetups!OneFollowUp
         /\ TwoSetups!UndeliveredForgotten /\ TwoSetups!DeliveredKept
         /\ TwoSetups!NoticesWithdrawn

(* The transcript stays well formed, the context fits its window and a        *)
(* checkpoint moves forward; output that was seen makes an outcome unknown,   *)
(* a completed response is kept and shown whole.                              *)
LoopSafe ==
    /\ part = "loopCalls" =>
         /\ LoopCalls!TypeOK /\ LoopCalls!Transcript
    /\ part = "loopContext" =>
         /\ LoopContext!TypeOK /\ LoopContext!Transcript /\ LoopContext!RequestRecovered
         /\ LoopContext!FitsWindow /\ LoopContext!ContextWhole
         /\ LoopContext!CheckpointAdvances
    /\ part = "loopCompact" =>
         /\ LoopCompact!TypeOK /\ LoopCompact!Transcript /\ LoopCompact!RequestRecovered
         /\ LoopCompact!FitsWindow /\ LoopCompact!ContextWhole
         /\ LoopCompact!CheckpointAdvances
    /\ part = "model" =>
         /\ Model!TypeOK /\ Model!OutputIsUnknown /\ Model!CompletedKept /\ Model!ShownWhole
    /\ part = "modelTurn" =>
         /\ ModelTurn!TypeOK /\ ModelTurn!OutputIsUnknown /\ ModelTurn!CompletedKept
         /\ ModelTurn!ShownWhole

(* An acknowledgement follows what it acknowledges; plugins move by replacement, *)
(* turn on and off only when asked; a child is stopped when its drain ends.   *)
ToolSteps == [][
    /\ part = "oAuth" =>
         /\ OAuth!AcknowledgedWhenKept /\ OAuth!AuthorizedWhenKept
    /\ part = "oAuthRefresh" =>
         /\ OAuthRefresh!AcknowledgedWhenKept /\ OAuthRefresh!AuthorizedWhenKept
    /\ part = "pluginActivation" =>
         /\ PluginActivation!MovesByReplacement /\ PluginActivation!OffUntilAsked
         /\ PluginActivation!TurningOnIsAnnounced
    /\ part = "pluginReplaced" =>
         /\ PluginReplaced!MovesByReplacement /\ PluginReplaced!OffUntilAsked
         /\ PluginReplaced!TurningOnIsAnnounced
    /\ part = "pluginAgain" =>
         /\ PluginAgain!MovesByReplacement /\ PluginAgain!OffUntilAsked
         /\ PluginAgain!TurningOnIsAnnounced
    /\ part = "pluginStops" =>
         /\ PluginStops!MovesByReplacement /\ PluginStops!OffUntilAsked
         /\ PluginStops!TurningOnIsAnnounced
    /\ part = "model" => Model!ChildStopped
    /\ part = "modelTurn" => ModelTurn!ChildStopped]_vars
=============================================================================
