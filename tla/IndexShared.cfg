CONSTANTS
    d1 = d1
    d2 = d2
    f1 = f1
    f2 = f2
    t1 = t1
    Docs = {d1, d2}
    Forms = {f1, f2}
    Tasks = {t1}
    PageCount = 2
    Text <- SharedWords
    RebuildDuringClear = FALSE
    MaxStarts = 2
    MaxRebuilds = 2
    MaxFaults = 1
SPECIFICATION Spec
SYMMETRY Symmetry
INVARIANT TypeOK
 
INVARIANT CompletedWordsAreListed
INVARIANT RowsAreMergedWithoutOverlap
PROPERTY RebuildRepairs
CHECK_DEADLOCK FALSE
