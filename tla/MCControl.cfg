SPECIFICATION ControlSpec
CONSTANTS
    Chosen = {
        "push", "pushPair", "fcm", "ceremonies", "browsers", "counters", "devices", "oAuthRelays",
        "share", "chain", "repeats", "renames", "link", "hostCalls"}
    None = None
    Agents = {"a", "b", "c"}
    NodeOf <- EachItself
    OwnerOf <- OneOwner
    Roots = {"r"}
    MessageCalls = {"k"}
    Names = {"x", "y"}
    MaxDepth = 2
    MessageMaxFaults = 3
    Callers = {"c", "d"}
    Queue = 1
    MaxSessions = 2
    MaxCalls = 2
    SurfaceCalls = {"c", "d"}
    HostNodes = {"n", "m"}
    MaxConns = 2
    MaxSlots = 1
    Boots = {"b"}
    Clients = {"c", "d", "e"}
    BrowserKeys = {"k", "l"}
    Pairs = {"p"}
    Nonces = {"n", "m"}
    CeremonyLife = 2
    SessionLife = 4
    TicketLife = 1
    MaxCeremonies = 1
    MaxTickets = 3
    BrowserMaxTime = 5
    DeviceIds = {"d", "e"}
    DeviceKeys = {"k", "l"}
    Conns = {"x", "y"}
    Notices = {"n"}
    MaxDevices = 1
    MaxCreds = 3
    RelayNodes = {"n", "m"}
    RelayIds = {"r", "q"}
    Secrets = {"s", "t"}
    Results = {"x"}
    ByState = TRUE
    PerDevice = 1
    Total = 2
    Life = 2
    RelayMaxTime = 4
    Readers = {"r", "s"}
    ShareTickets = {"t"}
    Parts = 2
    MaxVersion = 2
    Devices = {"d", "e"}
    Tokens = {"a", "b"}
    PushRequests = {"r"}
    MaxInFlight = 1
    MaxGen = 2
    PushMaxFaults = 1
    MaxChanges = 1
    Senders = {"s", "t"}
    MaxAttempts = 2
    RejectionHold = 2
    UnavailableHold = 1
    FcmMaxTime = 2
    MaxIssued = 2
INVARIANTS
    PushSafe
    AccessSafe
    MessagesSafe
PROPERTIES
    ControlSteps
CHECK_DEADLOCK FALSE
