SPECIFICATION Spec
CHECK_DEADLOCK FALSE
CONSTANTS
    Pids = {1, 2, 3, 4, 5}
    MaxBorn = 6
    Clis = {6, 7}
    Scenes <- MCScenes
INVARIANTS
    StopIsTrue
    LaunchedIsRecorded
    UiStopIsComplete
    LaunchIsMediated
PROPERTY CommandEnds
