\* The pages and widgets of the web interface, one mounted at a time.
SPECIFICATION Spec
CONSTANTS
    Nil = Nil
    v1 = v1  v2 = v2  c1 = c1  c2 = c2  c3 = c3  c4 = c4  n1 = n1  k1 = k1
    \* console
    Vms = {v1, v2}
    Chats = {c1, c2, c3, c4}
    Providers = {p1, p2}
    MaxChoices = 2
    MaxPrompts = 1
    \* scripts and software
    Machines = {m1, m2}
    Drafts = {d1}
    Wishes = {w1}
    JobIds = {j1, j2}
    \* backups and remediation
    PolicyHosts = {h1, h2}
    Actions = {a1, a2}
    Tokens = {t1, t2}
    \* machines
    Names = {n1, n2}
    Environments = {"lab", "prod"}
    KeyTokens = {t1}
    MaxRemovals = 1
    \* changes
    Plans = {k1, k2}
    Worked = {k1}
    MaxLists = 1
    \* history
    Saved = {c1, c2, c3}
    VmOf <- HistoryVm
    MaxReads = 2
    \* the gate
    MaxSessions = 1
    MaxTrips = 1
    \* authority
    MaxArms = 1
    MaxReadings = 1
    MaxConnections = 2
    \* the kit
    MaxSlides = 3
    Options = {o1}
    LyDepth = 2
INVARIANTS
    ConsoleHolds
    
    CardsHold
    VmsHold
    
    SelectionHolds
    
    PanelHolds
    
    ButtonsMatch
PROPERTIES
    WaitsEnd
    
    TokenOnce
    StartedIsKept
    ToggleIsSeen
    LayersHold
\* A page waits for its user.
CHECK_DEADLOCK FALSE
