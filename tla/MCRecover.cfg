SPECIFICATION Spec
CONSTANTS
    BPB <- MCBPB
    DISK_SIZE = 1408
    STACK_DEPTH = 8
    Disks <- MCDisks
CHECK_DEADLOCK FALSE
INVARIANTS RecoversAll ListingMatches
