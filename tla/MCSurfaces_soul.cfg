SPECIFICATION SurfacesSpec
CONSTANTS
    Sessions = {"s", "t"}
    Existing = {"s", "t"}
    Foreign = {"t"}
    Prompts = {"p", "q"}
    MaxInbox = 1
    Chosen = {
        "soulFaults"}
    None = None
INVARIANTS
    SoulKept
CHECK_DEADLOCK FALSE
