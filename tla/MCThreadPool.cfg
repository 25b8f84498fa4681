SPECIFICATION ClientSpec
CONSTANTS
    NumWorkers = 2
    Main = 0
    Threads = {0, 1, 2}
    Null = null
    a = a
    b = b
    c = c
    Tasks <- MCTasks
    Roots = {a, b}
    Children <- MCChildren
    Values <- MCValues
    n1 = n1
    n2 = n2
    n3 = n3
    n4 = n4
    Nodes = {n1, n2, n3, n4}
    HeadNode = head
    TailNode = tail
    Junk = junk
    NoThread = nothread
    Sessions <- MCSessions
    Dirt <- MCDirt
    MaxDirty = 1
    MaxQueued = 1
INVARIANTS
    FinishIsClean
    ListIntact
    NoLostWakeup
    PasswordsFound
PROPERTIES
    ImplementsWorkPool
    ImplementsFifo
    FinishReturns
    WorkIsPerformed
