CONSTANTS
    r1 = r1
    r2 = r2
    w1 = w1
    w2 = w2
    e1 = e1
    e2 = e2
    wx = wx
    wy = wy
    l1 = l1
    s1 = s1
    NoRun = NoRun
    Runs <- MCRuns
    Requests <- MCRequests
    Words <- MCWords
    Entries <- MCEntries
    SurfaceOf <- MCSurface
    NormOf <- MCNorm
    SourceOf <- MCSourceOf
    OcrSources = {}
    Near <- MCNear
    Lexemes <- MCLexemes
    CanonOf <- MCCanon
    StartBooks <- MCBooks
    Workers <- MCWorkers
    AutoRetryLimit = 1
    MaxChanges = 2
    MaxFaults = 1
SPECIFICATION Spec
SYMMETRY Symmetry
INVARIANT TypeOK
INVARIANT CountsMatchResults
INVARIANT StoredMatchesOfOneRun
INVARIANT ShownAsMatchedIsListed
CHECK_DEADLOCK FALSE
