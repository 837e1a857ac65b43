\* Two processes, one project, two commands after what the vault and the files
\* hold at first, one edit by the user, one midnight during a command, one death.
\* Three pages of eleven kinds in four folders under three settings; lists of two.
\* NotebookOps and ObsidianVault as set below: the vault has four pages, three batches,
\* two calls of the hub, one word of the user and two faults.
SPECIFICATION GrowthSpec
CONSTANTS
    first = first
    second = second
    asker = asker
    owner = owner
    project = project
    noteA = noteA
    noteB = noteB
    pageA = pageA
    pageB = pageB
    pageC = pageC
    Procs <- TwoProcs
    Projects <- OneProject
    NoteIds <- TwoNotes
    AnsweredTypes <- OneType
    WindowDays = 1
    ThrottleCooldown = 2
    RollingDays = 1
    TtlDays = 1
    RebutThreshold = 2
    TriggerThreshold = 2
    ActionThreshold = 3
    FactThreshold = 4
    Notebooks <- OneNotebook
    LastDay = 2
    MaxMidnights = 1
    MaxCommands = 2
    MaxEdits = 1
    MaxDeaths = 1
    MirrorNotes <- ThreePages
    MirrorFolders <- FourFolders
    RootFolder = "root"
    Under <- Nesting
    UserFolders = {"Projects"}
    ProjectFolders = {"Projects"}
    AiMarked = {}
    AiNamed = {"AI", "AI/Old"}
    Twins <- OneTwin
    NoteKinds <- Kinds
    MirrorConfigs <- ThreeSettings
    MaxRefs = 2
    OpCallers <- TwoCallers
    PoolAccounts = {1, 2}
    Homes <- OneOrTwo
    Wanted <- AskedFor
    Rotations = {1}
    MaxOps = 2
    Pages = {"dashboard", "note", "source", "drop"}
    Zone <- FolderOf
    PageOrder <- FourPages
    HeadedRecords = {"note"}
    Batches <- ThreeBatches
    MaxVaultCalls = 2
    MaxWords = 1
    MaxVaultFaults = 2
INVARIANTS MirrorHolds DetectorHolds OpsHold VaultHolds
PROPERTIES SavesKeepDecisions CooldownHolds
CHECK_DEADLOCK FALSE
