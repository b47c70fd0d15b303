\* The bounds on changes, links and events run out.
CHECK_DEADLOCK FALSE
SPECIFICATION Spec
CONSTANTS
    k1 = k1
    k2 = k2
    steam = steam
    steamTools = steamTools
    game = game
    tool = tool
    Silent = Silent
    Machine <- MCMachine
    Modulus = 5
    MaxStep = 1
    MaxSpan = 2
    MaxTotal = 150
    Never = Never
    Place <- MCPlace
    Content <- MCContent
    Missing = Missing
    Runtime = {3}
    MaxChanges = 1
    Record <- MCRecord
    Directory = {steam, steamTools}
    NoDirectory = NoDirectory
    Program = {game, tool}
    Inside <- MCInside
    Pid = {1, 2}
    Nobody = Nobody
    MaxEvents = 2
    LicenseKey = {k1, k2}
    Blank = Blank
    NoDevice = NoDevice
    Torn = Torn
    MaxLinks = 4
    t1 = t1
    t2 = t2
    junction = junction
    deep = deep
    own = own
    File <- MCFile
    Folder <- MCFolder
    Depth <- MCDepth
    Behind = {junction}
    Size = {1}
    MaxBin = 1
    MaxDepth = 0
    MaxItems = 1
    MinimumAge = 1
    Gone = Gone
SYMMETRY Symmetry
INVARIANTS CatalogFits SilenceAdvisesNothing PercentIsHonest StoredKeyMatches DeviceIsKept ListsEveryProgram CleanCoversAnalysis
PROPERTIES BoostsThatGame DeletesOldTempFiles ReportIsTrue
