SPECIFICATION Spec
CONSTANTS
    Cpu = {c1, c2, c3}
    MaxCount = 2
INVARIANT WriterExclusive
CHECK_DEADLOCK FALSE
