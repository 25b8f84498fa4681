SPECIFICATION Spec
CONSTANTS
    PAGE_SIZE = 2
    MAX_PAGES = 8
    START_PAGE = 8
    Sizes = {0, 1, 3, 4}
    Addresses <- NearHeap
    BUFSIZ = 2
    LINES = 2
CHECK_DEADLOCK FALSE
INVARIANTS ProtectionExact MisuseCaught
PROPERTIES FreeExact ExitExact
