\* Four levels of two entries, so eight canonical pages of two bytes.  Mapping
\* all of MapVAs takes six tables besides the root; there is memory for four.
SPECIFICATION Spec
CONSTANTS
    PAGESIZE = 2
    NPAGES = 7
    Reserved = {0}
    KernelImage = {1, 2}
    Fanout = 2
    Levels = 4
    Root = 2
    LargePT = 4
    MapVAs = {0, 2, 4, 14}
    MapPA = 0
INVARIANTS VisitsEachTableOnce RangePermExact
PROPERTIES MoveExact ImplementsAddressSpace
