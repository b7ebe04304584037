SPECIFICATION Spec
CONSTANTS
    Cpu = {c1}
    Map = {m1, m2, m3}
    Addr = {2, 3, 7, 8, 9, 10}
    Fan = 2
    Frames = 5
    BootAddr = {2, 3, 10}
    Request <- Requests
    BootRegion <- BootRegions
    Flags = {"rw", "ro"}
INVARIANTS FramesConserved RegionsDisjoint RefsExact PagesInRegions
PROPERTY MapAllOrNothing
CHECK_DEADLOCK FALSE
SYMMETRY Sym
