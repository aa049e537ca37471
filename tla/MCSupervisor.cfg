\* Each way to go wrong alone, where BT init must not hang with another, and
\* all together.
SPECIFICATION FairSpec
CONSTANTS
    MaxQuiet = 2
    Envs = {{}, {"initHang"}, {"stallLinked"}, {"powerLoss"},
            {"initHang", "stallLinked", "pullHang"},
            {"initHang", "powerLoss", "stallLinked", "pullHang"}}
INVARIANTS
    TypeOK
PROPERTIES
    SafeAfterTwoFailures
    StartReachesLoop
    DeafComesBack
CHECK_DEADLOCK FALSE
