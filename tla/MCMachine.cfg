SPECIFICATION Spec
CONSTANTS
    IntMod = 16
    LongMod = 64
    CONSOLE_ROWS = 4
    CONSOLE_COLUMNS = 2
    SECTORSIZE = 4
    HeaderSize = 8
    ELFHDR = 0
    MemTop = 28
    NPROC = 3
    Procs = {1, 2}
    Files <- MCFiles
    Keys <- MCKeys
    Calls <- MCCalls
    Complaint <- MCComplaint
    Directives <- MCDirectives
    Stars <- MCStars
    Arguments <- MCArguments
    Sizes = {0, 1, 4, 16}
    Messages <- MCMessages
    Stacks <- MCStacks
    PAGEWORDS = 4
    symtab <- MCsymtab
    MaxCalls = 2
    MaxBytes = 4
    MaxHeld = 2
INVARIANTS
    KernelPristine
    KeysRight
    BacktraceRight
    SnprintfRight
PROPERTIES
    ScreenRight
CHECK_DEADLOCK FALSE
