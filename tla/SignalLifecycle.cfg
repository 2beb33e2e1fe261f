SPECIFICATION FairSpec
CONSTANTS
    Signals <- MCSignals
    Analyses = {"swing", "contradicted"}
    Jobs = {j1, j2}
    RetryLimit = 1
    EvalLimit = 1
INVARIANT IngestedWasDetected
INVARIANT AnnouncedOnce
PROPERTY OverdueSettles
CHECK_DEADLOCK FALSE
