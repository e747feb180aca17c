SPECIFICATION ServicesSpec
CONSTANTS
    t1 = t1
    t2 = t2
    Tasks <- MCTasks
    Minutes <- MCMinutes
    Due <- MCDue
    Leads <- MCLeads
    Steps <- MCSteps
    Hands = {h1}
    ByHand = {t2}
    Scenarios = {{"stop", "run"}, {"edit", "limit"}, {"back", "restart"}, {"remove", "edit"}, {"stop", "restart"}}
    Names = {n1}
    MaxFailures = 1
    MaxChanges = 3
    MaxStarts = 1
    mon = mon
    han = han
    Sources <- MCSources
    Kinds = {down, up}
    Destinations = {d1}
    Listening <- MCListening
    Window <- MCWindow
    Subscribers = {u1}
    RingSize = 1
    SubSize = 1
    QueueSize = 1
    LastClock = 1
    MaxEvents <- MCMaxEvents
    Addresses = {a1, a2}
    Everyone = Everyone
    Logins = {q1, q2}
    Free <- MCFree
    MaxDelay <- MCMaxDelay
    Quiet = 2
    HashSlots = 1
    LastTick = 3
    MaxGuesses = 3
    ApiKeys = {k1}
    ApiServers = {s1}
    Requests = {c1, c2}
    Streams = {w1, w2}
    Burst = 2
    Refill = 2
    Idle = 4
    MaxApiStreams = 1
    LastApiTick = 5
    MaxCallsMade = 4
    MaxOpened = 2
    Hooks = {h1}
    Watched = {s1, s2}
    Places = {p1, p2}
    CardStates = {"up", "down"}
    MaxPosts = 2
    MaxEdits = 1
    MaxTurns = 2
    MaxBoots = 1
    NamePlaces = {p1, p2}
    Settle = 1
    RetryAfters = {1}
    RenameWindow = 2
    RenamesPerWindow = 2
    LastNameTick = 2
    MaxUpsets = 2
    MaxNameTurns = 3
    OtherDots = {"offline"}
    Items = {i1}
    Editors = {e1, e2}
    MaxPending = 1
    MaxDecided = 1
    MaxAsked = 2
    MaxSaves = 2
    Clerks = {p1, p2}
    Channels = {c1, c2}
    BotTokens = {b1}
    MaxForms = 3
    MaxMishaps = 1
INVARIANTS ServicesTypeOK SchedulesAreKept RegistryIsTrue NewsIsOrderly LimitsHold BoardIsTrue RequestsAreSettled
PROPERTIES EditsAreSound
CHECK_DEADLOCK FALSE
