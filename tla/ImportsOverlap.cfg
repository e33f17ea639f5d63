CONSTANTS
    i1 = i1
    i2 = i2
    i3 = i3
    p1 = p1
    p2 = p2
    w1 = w1
    w2 = w2
    s1 = s1
    NoImport = NoImport
    Imports = {i1, i2, i3}
    Pairs = {p1, p2}
    Files <- TwoWordFiles
    Workers = {w1, w2}
    Sweepers = {s1}
    AutoRetryLimit = 1
    MaxFaults = 1
SPECIFICATION Spec
SYMMETRY Symmetry
INVARIANT TypeOK
INVARIANT CompletedImportIsStored
INVARIANT EntriesImportedOnce
INVARIANT EntryCountAgrees
CHECK_DEADLOCK FALSE
