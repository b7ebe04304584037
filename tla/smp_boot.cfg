SPECIFICATION Spec
CONSTANTS
    SMP_MAX_CPUS = 4
    actual_cpu_count = 4
INVARIANTS PrivateCpus ReadyTruthful
PROPERTY BootCompletes
CHECK_DEADLOCK FALSE
