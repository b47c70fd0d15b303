\* Nothing is left to do when the presses of the bound are used up.
CHECK_DEADLOCK FALSE
SPECIFICATION Spec
CONSTANTS
    o1 = o1
    o2 = o2
    o3 = o3
    o4 = o4
    profile = profile
    startup = startup
    Id = {o1, o2, o3, o4}
    Catalog <- MCCatalog
    Supported = {o1, o2, o4}
    Manual = {o4}
    Profile = {profile}
    Members <- MCMembers
    Page = {startup}
    Journalled = {startup}
    AtStart <- MCAtStart
    MaxRequests = 2
INVARIANTS
    BusyIsOwed
    OneJobPerFlag
    CardOutcomesInOrder
    CardsCatchUp
    BackupFlagIsCurrent
    ProfileIsRestorable
    CatalogAllRestored
PROPERTIES
    BusyClears
