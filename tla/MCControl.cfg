SPECIFICATION FairSpec
CONSTANTS
    LogN = 2
    SeqMod = 5
    Writers = {"loop", "api"}
    MaxLines = 6
    Cmds <- MCCmds
    Ids = {0, 1}
    MaxCmds = 2
    MaxIdle = 2
    Envs <- MCEnvs
INVARIANTS
    RunAsAsked
    DiagLinkIsAsked
    LogIsRecent
PROPERTIES
    AskedIsRun
    NextClientServed
CHECK_DEADLOCK FALSE
