SPECIFICATION Spec
CHECK_DEADLOCK FALSE
CONSTANTS
    Clis = {1, 2}
    Bots = {1, 2, 3}
    MaxWait = 2
    Scenes <- MCScenes
INVARIANTS
    SetupIsValid
    SettingsAreKept
    BridgeFollowsRunner
PROPERTIES
    LaunchIsWired
    BystandersLive
