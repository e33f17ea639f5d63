CONSTANTS
    wx = wx
    wy = wy
    l1 = l1
    l2 = l2
    d1 = d1
    d2 = d2
    a1 = a1
    a2 = a2
    v1 = v1
    v2 = v2
    NoLexeme = NoLexeme
    Words <- MCWords
    Armenian <- MCArmenian
    Lexemes <- MCLexemes
    Docs <- MCDocs
    WordsOf <- MCWordsOf
    Apis <- MCApis
    Workers <- OneWorker
    MaxRequests = 2
    MaxRepairs = 1
SPECIFICATION Spec
SYMMETRY Symmetry
INVARIANT TypeOK
INVARIANT ListsFollowDecisions
INVARIANT FormsHaveOneLexeme
CHECK_DEADLOCK FALSE
