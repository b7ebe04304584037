SPECIFICATION FairSpec
CONSTANTS
    Cpu = {c1, c2}
    PAGE_SIZE = 2
    MAX_ORDER = 2
    MAX_BLOCK_DESC = 4
    MAX_SCAN = 1
    MemMaps <- OneRegion
    Reservations <- OneReservation
    MaxFreePages = 10
INVARIANTS BlocksDisjoint PagesConserved FullyCoalesced
PROPERTIES FreshPagesPrivate OperationsReturn
