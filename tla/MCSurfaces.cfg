SPECIFICATION SurfacesSpec
CONSTANTS
    Sessions = {"s", "t"}
    Existing = {"s", "t"}
    Foreign = {"t"}
    Prompts = {"p", "q"}
    MaxInbox = 1
    Chosen = {
        "discordTurns", "discordPages", "telegramTopics", "telegramDeliveries", "slackStops",
        "slackReplies", "slackLabels", "slackResults", "acp", "agentEdits", "soulMoves",
        "soulFaults", "fileEdits", "fileWrites", "fileProfiles", "schema", "schemaPath",
        "credentialRelays", "registry", "registryRefusals", "registryReplaced"}
    None = None
INVARIANTS
    ChatSafe
    SlackSafe
    AcpSafe
    StoresSafe
PROPERTIES
    SurfaceSteps
CHECK_DEADLOCK FALSE
