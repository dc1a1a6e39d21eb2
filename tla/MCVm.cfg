CONSTANTS
    a1 = a1
    a2 = a2
    Aspace = {a1, a2}
    Boot = a1
    AreaId = {1, 2, 3, 4, 5, 6, 7, 8}
    NPages = 11
    Dev = 99
    Top = 6
    Line = 3
    KPages = 8
    Sizes = {1, 2}
    MaxThreads = 2
    MaxMine = 1
SPECIFICATION VmSpec
VIEW View
CHECK_DEADLOCK FALSE
INVARIANTS PagesOwnedOnce MapsExact GroupRefcount KernelMapsOK SpanIsRight
