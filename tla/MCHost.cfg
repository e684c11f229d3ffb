SPECIFICATION HostSpec
CONSTANTS
    Requests = {"r", "s"}
    Delivered = {"s"}
    MaxPasses = 2
    MaxCrashes = 1
    MaxCloses = 1
    Chosen = {
        "schedule", "deletion", "problems", "answers", "cron", "cronHalf", "crashed", "stale",
        "closing", "jobs", "toggled", "passes", "capped", "reminders", "retold", "storage"}
INVARIANTS
    ScheduleSafe
    TurnsSafe
    MemorySafe
PROPERTIES
    HostSteps
CHECK_DEADLOCK FALSE
