CONSTANTS
    w1 = w1
    w2 = w2
    t1 = t1
    t2 = t2
    inflected = inflected
    base = base
    NoLemma = NoLemma
    LookupWorkers <- MCWorkers
    Threads <- MCThreads
    Words <- MCWords
    Lemma <- MCLemma
    Limit = 1
    MaxJobs = 2
    MaxExpiries = 1
    MaxLookupFaults = 1
SPECIFICATION LookupSpec
SYMMETRY Symmetry
INVARIANT LookupTypeOK
INVARIANT KnownWordsAreShown
CHECK_DEADLOCK FALSE
