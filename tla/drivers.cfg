SPECIFICATION DriversSpec
CONSTANTS
    Cpu = {bsp, ap}
    Bsp = bsp
    Messages <- ModelMessages
    MaxMessages = 1
    Drivers <- ModelDrivers
    Devices <- ModelDevices
    MAX_DEVICES = 3
INVARIANTS InitOrdered PutsWhole ShutdownComplete
PROPERTIES PowersOff
CHECK_DEADLOCK FALSE
