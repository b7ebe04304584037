SPECIFICATION KMSpec
CONSTANTS
    Cpu = {c1}
    PAGE_SIZE = 2
    MAX_ORDER = 2
    MAX_BLOCK_DESC = 6
    MAX_SCAN = 1000
    MemMaps <- MapsForPages
    Reservations <- BootReservations
    MaxFreePages = 5
    Infos <- ModelInfos
    WORD = 64
    DefaultRegion <- Default
    embedded_cmdline <- Embedded
    CMDLINE_SIZE = 13
    VALUE_SIZE = 6
    MAX_SELECTED_TESTS = 2
    MAX_TESTS = 5
    INT_BITS = 4
    LONG_BITS = 6
    KLOG_BUF_SIZE = 6
    Messages <- ModelMessages
    Builds <- ModelBuilds
    Spell <- Spelling
INVARIANTS MapManaged LookupFirst LineRendered RunOnce SelectionHonoured
