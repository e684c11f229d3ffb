SPECIFICATION Spec
CONSTANTS
    Chosen = {
        "oAuth", "oAuthRefresh", "mcpCall", "pluginActivation", "pluginReplaced", "pluginAgain",
        "pluginConnections", "pluginStops", "setups", "twoSetups", "loopCalls", "loopContext",
        "loopCompact", "model", "modelTurn"}
    None = None
INVARIANTS
    McpSafe
    PluginsSafe
    LoopSafe
PROPERTIES
    ToolSteps
CHECK_DEADLOCK FALSE
