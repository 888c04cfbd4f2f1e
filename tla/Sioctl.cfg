SPECIFICATION FairSpec
CONSTANTS
    Handles = {h1, h2}
    MaxSend = 2
INVARIANTS
    NothingLeftBehind
    ExtensionsFound
    PagesReleased
PROPERTIES
    HandledIsAnswered
CHECK_DEADLOCK FALSE
