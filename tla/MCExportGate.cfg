SPECIFICATION ExportSpec
CONSTANTS
    p1 = p1  p2 = p2
    Paths <- TwoPaths
    Files <- ThreeFiles
INVARIANT HalfwayIsEither
PROPERTIES CommitOverlays ShownIsDone
