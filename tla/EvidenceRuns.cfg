CONSTANTS
    n1 = n1
    n2 = n2
    b1 = b1
    b2 = b2
    NlpWorkers <- MCNlpWorkers
    BuildWorkers <- MCBuildWorkers
    Scopes <- MCScopes
    Outcomes <- MCOutcomes
    Limit = 1
    BatchSize = 2
    MaxTokens = 2
    ClassicalOnly = TRUE
    EasternModel = FALSE
    MaxJobs = 3
    MaxTexts = 2
    MaxFaults = 1
SPECIFICATION Spec
SYMMETRY Symmetry
INVARIANT TypeOK
 
INVARIANT RegularRunsWithinLimit
INVARIANT AnalysesOfOneSave
INVARIANT CandidatesFollowEvidence
CHECK_DEADLOCK FALSE
