SPECIFICATION EvaluationSpec
CONSTANTS
    FlowLookback = 4
    MinStreak = 1
    MagLookback = 4
    MagPercent = 60
    MinHistory = 3
    AccWindow = 1
    AccPercent = 100
    MinSlope = 1
    DivLookback = 2
    DivPercent = 2
    MinFlowSum = 3
    RegimePercent <- MCRegimePercent
    FlowCap = 5
    FactorWindow = 48
    FactorPercent = 10
    BtcPercent = 60
    EthPercent = 40
    CompositePerMille = 30
    MinSamples = 1
    History <- MCHistory
    FirstRegime = {"MARKUP"}
    FlowValues <- MCFlowValues
    Velocities <- MCVelocities
    Analyses <- MCAnalyses
    Prices = {90, 100, 110}
    StartPrice = 100
    Premium <- MCPremium
    EthOf <- MCEthOf
    FirstDay = 4
    LastDay = 8
    LastWorkDay <- MCLastWorkDay
    Afternoons = {4, 7}
    UpSets <- MCUpSets
    Followed <- Detectors
    MaxCycles <- MCMaxCycles
    MaxOpen <- MCMaxOpen
    Failing = {"regime_shift"}
    Paged = {"magnitude", "regime_shift"}
    MaxMoves <- MCMaxMoves
INVARIANT HitsAreReal
INVARIANT BacktestReplaysLive
INVARIANT ShiftsOfOneDayOverlapped
INVARIANT ReportsReconcile
INVARIANT ConfirmedOnEvidence
CHECK_DEADLOCK FALSE
