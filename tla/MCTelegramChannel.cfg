SPECIFICATION Spec
CHECK_DEADLOCK FALSE
CONSTANTS
    Approvals = {1, 2}
    FeedLimit = 1
    Threads = {1, 2}
    Workers = {1, 2}
    Scenes <- MCScenes
INVARIANTS
    HandledOnce
    OneConversation
PROPERTY WaitersAreAnnounced
