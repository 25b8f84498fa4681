SPECIFICATION Spec
CONSTANTS
    PAGESIZE = 2
    NPAGES = 26
    Reserved <- MCReserved
    KernelImage <- MCKernelImage
    Fanout = 24
    Levels = 2
    NPROC = 4
    PROC_START_ADDR = 40
    MEMSIZE_VIRTUAL = 56
    CONSOLE_ADDR = 38
    exception_entry = 28
    kernel_pagetable <- MCKernelTables
    Images <- MCImages
    StartRegs <- MCStartRegs
    Allocators <- MCAllocators
    Keys <- MCKeys
    Faulty <- MCFaulty
CHECK_DEADLOCK FALSE
INVARIANTS OnlyFaultyFail PagesAccounted MemoryIntact
PROPERTIES EveryoneRuns
