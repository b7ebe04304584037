SPECIFICATION Spec
CONSTANTS
    Cpu = {c1}
    Bsp = c1
    Page <- MCPage
    Rams <- MCRams
    TotalPages = 18
    Low = {0, 3, 4, 5, 17}
    Low1M = {3, 4}
    BootTables = {0, 1}
    OkStacks = {2}
    Apic = {17}
    StackSpill = {2}
    MapAddr = {5, 324}
    Asked = {14, 15}
    MaxLoose = 1
    Fan = 18
INVARIANTS ViewComplete TablesTyped  GateBalanced
