\* Whatever happens, and with nothing to set off the scan watchdog.
SPECIFICATION FairSpec
CONSTANTS
    Addr = {a1, a2}
    None = None
    MaxConn = 2
    MaxReq = 2
    Envs = {{"stall", "late", "reuse", "preempt", "repeat", "reset"}, {"repeat"}}
PROPERTIES
    EveryRequestAnswered
    ScanComesBack
