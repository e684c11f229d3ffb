SPECIFICATION StrongSpec
CONSTANTS
    Chosen = {
        "push", "deviceSessions", "labels", "results", "definitions", "schema", "fileEdits",
        "registry"}
    None = None
PROPERTIES
    Settles
CHECK_DEADLOCK FALSE
