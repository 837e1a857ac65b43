\* Three attachments of four kinds, two of them at a time, one of them in trouble; two renderers over two
\* first rows and one more, two drafts and two dates; five worlds of the hub, nine replies and one turn; one
\* call of the watchdog over two keys of one chain; three records of two kinds by two appenders and the
\* bridge, one read, one fault; one observation, two changes of the file.
SPECIFICATION PanelSpec
SYMMETRY Alike
CONSTANTS
    left = left
    right = right
    bridge = bridge
    viewer = viewer
    MaxUploads = 3
    MaxTroubles = 1
    Uploads <- FourUploads
    MaxUploadBytes = 3
    MaxAttachments = 2
    PerText = 2
    AllText = 3
    HubFiles = 1
    Renderers <- TwoRenderers
    FirstRows <- TwoRows
    Drafts = {"d1", "d2"}
    Locked = "d2"
    MaxRows = 3
    MaxDate = 2
    HubWorlds <- FiveWorlds
    HubReplies <- NineReplies
    MaxTurns = 1
    Targets <- OneTarget
    ReportKeys = {"gemini", "health"}
    Marked <- MarksOfChain
    Watchers = {"cron", "worker"}
    MaxReports = 1
    MaxChanges = 1
    MaxClosings = 1
    MaxWatchFaults = 1
    Appenders <- TwoRenderers
    Bridges <- OneBridge
    Viewers <- OneViewer
    RecordRuns = {"r"}
    RowKinds <- TwoKinds
    MaxLedRows = 3
    MaxBatch = 2
    LargeFile = 5
    MaxViews = 1
    MaxLedFaults = 1
    Asked <- FirstBatch
    FirstTexts = {"absent", "active"}
    MaxFileChanges = 2
    MaxObserved = 1
    MaxReadErrors = 1
INVARIANTS AttachmentsHold PackHolds HubFailsClosed IssuesAreAccounted RecordsAreKept StatusIsSettled
CHECK_DEADLOCK FALSE
