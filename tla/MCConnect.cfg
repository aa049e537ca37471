\* Each of the events that make a property fail is left out once; "stall",
\* which is costly, comes with few others.
SPECIFICATION Spec
SYMMETRY Symmetry
CONSTANTS
    Addr = {a1, a2, a3}
    None = None
    MaxConn = 2
    MaxReq = 3
    Envs = {{"stall", "late", "reset"},
            {"late", "reuse", "preempt", "repeat", "reset"},
            {"late", "preempt", "repeat", "reset"},
            {"late", "reuse", "repeat", "reset"},
            {"late", "reuse", "preempt", "reset"},
            {"repeat", "reset"}}
INVARIANTS
    TypeOK
    SlotInv
    ToldIsTrue
    WakeMeansDone
    LossRemembered
    SlotsAreTheLinks
PROPERTIES
    OnlyLostLinksFreed
