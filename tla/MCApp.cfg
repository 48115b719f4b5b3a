SPECIFICATION AppSpec
CONSTANTS
    s1 = s1
    s2 = s2
    Stagings <- TwoStagings
    MaxReplacements <- Replacements
    MaxCrashes = 1
    SizesAnswered = TRUE
    c1 = c1
    c2 = c2
    c3 = c3
    Calls = {c1, c2, c3}
    Ids = {i1, i2}
    MaxSessions = 1
    o1 = o1
    o2 = o2
    srv = srv
    localDisk = localDisk
    Ops = {o1, o2}
    Servers = {srv, localDisk}
    Paths <- SomePaths
    Lowercase <- Lowered
    MaxLeases = 2
    WalkFiles = 2
    MaxWalks = 2
    MaxOutside = 1
    MaxEarly = 1
    Pieces = 2
    MaxDownloads = 2
    MaxRemoteEdits = 2
    Savers = {"a", "b"}
    Readers = {"r"}
    MaxEdits = 4
    MaxDamages = 2
    CopiesKept = 2
    Sites = {"x", "y"}
    MaxPasswords = 3
    MaxVaultOps = 2
    MaxVaultCrashes = 1
    MigrationAlone = TRUE
    q1 = q1
    q2 = q2
    Requests = {q1, q2}
    MaxGrants = 1
    MaxPendingConfirmations = 1
    MaxAttempts = 1
    MaxLocks = 1
    MaxSetups = 2
    Copies = {"copy"}
    MaxSaves = 3
    MaxRuns = 1
    MaxVersion = 3
    MaxOffers = 3
    MaxFaults = 2
    Addresses = {"h", "H", "dir"}
    Folder = "dir"
    Identity <- SameSite
    MaxSites = 3
    MaxSaved = 2
    MaxImports = 1
    MaxWriteFaults = 2
    MaxOperations = 3
    MaxConnections = 2
    PortAttempts = 2
    SizeAnswered = TRUE
    Blocks = 3
    Window = 2
    SendsInOrder = TRUE
    MaxPauses = 2
    MaxSourceEdits = 1
    k1 = k1
    k2 = k2
    Places <- LocalPlaces
    Far <- OtherVolume
    NoBin <- OtherVolume
    Own <- OwnFiles
    Protected <- OwnFiles
    Commands = {k1, k2}
    MaxMade = 3
    DavPaths <- ServerPaths
    OtherActs = 1
    WriterCapacity = 2
    BatchCapacity = 2
    MaxSeq = 3
    PanelOpens = 1
    Closes = 1
    TrayClicks = 2
    WorldSteps = 1
    ModelsInFlight = 1
    Writers = {"tabs"}
    RowStarts = 2
    RowNotices = 2
    RelayBlocks = 2
    PipeRoom = 1
    RelayFaults = 1
    Sleepers = {"t1", "t2", "t3"}
INVARIANTS
    AppTypeOK
    HiddenVersionIsRecorded
    WritersAreApart
    
    
    DestinationIsOneVersion
    DisconnectIsFinal
    
    EveryBlockInItsPlace
    FilesSurvive
    DavAnswersAreTrue
    PasswordStaysWithItsHost
    
    
    CopyIsWhole
    InhibitorFollowsTransfers
PROPERTIES
    PreviousVersionSurvives
    
    
    GrantDiesWithItsSession
    
    ImportAddsOrUndoes
    UserHasTheLastWord
CHECK_DEADLOCK FALSE
