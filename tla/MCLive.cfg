SPECIFICATION Spec
CONSTANTS
    Chosen = {
        "rcp", "fcm", "share", "messages", "link", "hostCalls", "discord", "telegram", "slack",
        "automations", "feed", "turns", "jobs", "reminders", "mcpCall", "setups", "loop",
        "model", "acp"}
    None = None
PROPERTIES
    Settles
    Returns
CHECK_DEADLOCK FALSE
