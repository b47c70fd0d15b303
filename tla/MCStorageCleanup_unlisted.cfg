SPECIFICATION MCSpec
CONSTANTS
    t1 = t1
    t2 = t2
    junction = junction
    deep = deep
    own = own
    File <- MCFile
    Folder <- MCFolder
    Depth <- MCDepth
    Behind = {junction}
    Size = {1}
    MaxBin = 1
    MaxDepth = 0
    MaxItems = 1
    MinimumAge = 1
    Gone = Gone
INVARIANT DeletesWhatPreviewListed
SYMMETRY Symmetry
