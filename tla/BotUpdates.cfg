SPECIFICATION FairSpec
CONSTANTS
    Users = {u1}
    Groups = {g1}
    Assets = {BTC, ETH}
    AssetLists <- MCAssetLists
    DefaultAssets = {BTC, ETH}
    MinFloor = 1
    MaxFloor = 3
    DefaultFloor = 2
    Secrets = {s1, s2}
    EnvSecret = s1
    MinConfirmation = 1
    MaxUpdates = 2
    Scenarios <- MCScenarios
INVARIANT NeverEmptied
INVARIANT TraceExplains
INVARIANT Heard
PROPERTY UpdatesAnswered
CHECK_DEADLOCK FALSE
