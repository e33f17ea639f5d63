CONSTANTS
    a = a
    b = b
    Tokens <- MCTokens
    Sources <- MCSources
    EntriesOf <- MCEntriesOf
    Backgrounds <- MCBackgrounds
    External <- MCExternal
    Decisions <- MCDecisions
    MaxRuns = 2
    MaxImports = 1
    MaxEvents = 4
    MaxChanges = 2
SPECIFICATION Spec
INVARIANT TypeOK
INVARIANT TypeMatchesStatusWithoutOverlap
 
INVARIANT ResolvedMeansTrusted
PROPERTY DecisionsOutliveBuilds
CHECK_DEADLOCK FALSE
