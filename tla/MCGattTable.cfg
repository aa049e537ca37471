\* All devices of up to 10 attributes; each table and buffer is too short for
\* some and long enough for others.
SPECIFICATION TableSpec
CONSTANTS
    MaxSvc = 2
    MaxChr = 2
    MaxDsc = 5
    ChRoom = 2
    SvcRoom = 4
    MaxLen = 10
INVARIANTS
    ReportIsTheDevice
    ReportedIsReal
    NotifyIsOwn
