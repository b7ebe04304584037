SPECIFICATION FairSpec
CONSTANTS
    bsp = bsp
    ap1 = ap1
    runqueue = runqueue
    driver_list = driver_list
    device_list = device_list
    all_threads = all_threads
    Cpu <- MCCpu
    Index <- MCIndex
    Bsp = bsp
    Lock <- MCLock
    Machines <- MCMachines
    MaxNest = 2
    MaxDepth = 1
INVARIANTS NoSelfDeadlock InterruptsRestored
PROPERTIES ImplementsMutex InterruptsEventuallyEnabled InnermostReleased
CHECK_DEADLOCK FALSE
