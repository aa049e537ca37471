\* Answers may come late, write commands be reported, slots hold the links of
\* others; or some of it.
SPECIFICATION FairSpec
CONSTANTS
    a1 = a1
    a2 = a2
    Addr <- Addrs
    ConnId = {c1, c2}
    Handle = {1, 2}
    CccdOf <- Cccd
    None = None
    MaxReq = 2
    WriteAt = {1}
    Envs = {{"late", "command"}, {"noSlot"}, {"reuse", "missed"}}
INVARIANTS
    ReadValueIsTheAttributes
    AwaitedAnswersAreOwn
    ServicesWhole
    AnsweredInTurn
PROPERTIES
    RequestEnds
\* The client may stop asking, and no link come up any more.
CHECK_DEADLOCK FALSE
