\* Two devices that may change conn ids, and a ring that fills up.
SPECIFICATION Spec
CONSTANTS
    Addr = {a1, a2}
    ConnId = {c1, c2}
    None = None
    Room = 2
    MaxNtf = 3
    Envs = {{}, {"pipelined"}, {"late"}, {"reuse"}, {"pipelined", "late", "reuse"}}
INVARIANTS
    OwnDevice
    EachNotifyAccounted
PROPERTIES
    ConnectedIsHeard
