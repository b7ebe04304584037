SPECIFICATION SysSpec
CONSTANTS
    Thread = {t0, t1, t2, t3}
    idle = t0
    WORD = 32
    USER_CODE_BASE = 4
    USER_SPACE_END = 16
    UserMemory <- Memory
    SYS_WRITE_BUF_SIZE = 3
    Buffers <- Everywhere
    Counts <- Sizes
    TestPid = pid
INVARIANTS OwnStack TerminatedStaysOff LockReleased OnlyUserMemory WritePrinted
PROPERTIES CallPreserves UserResumes
CHECK_DEADLOCK FALSE
