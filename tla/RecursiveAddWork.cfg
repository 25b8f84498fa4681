\* Two workers, MAX_DEPTH 1 and BRANCH_FACTOR 2.
SPECIFICATION TestSpec
CONSTANTS
    NumWorkers = 2
    Main = 0
    Threads = {0, 1, 2}
    Null = null
    Tasks = {"root", "leaf1", "leaf2"}
    Roots = {"root"}
    SizeMod = 16
    Children <- TestChildren
    Values = {"root", "leaf1", "leaf2", null}
    n1 = n1
    n2 = n2
    n3 = n3
    n4 = n4
    Nodes = {n1, n2, n3, n4}
    HeadNode = head
    TailNode = tail
    Junk = junk
    NoThread = nothread
INVARIANT AllWorkPrinted
