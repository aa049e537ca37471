\* RxCap is the length of the longest frame: it fills the buffer.
SPECIFICATION FairSpec
CONSTANTS
    Base = 9
    MaxDigits = 2
    WireMod = 3
    FixedLen = 1
    RxCap = 14
    Frames <- MCFrames
    Sub = 10
    Unsub = 1
    Close = 2
    SubStates = 3
    MaxFrames = 2
INVARIANTS
    FramesInOrder
    FieldsReadBack
    SubscriptionIsItsOwn
PROPERTIES
    FrameIsHandled
    NextClientServed
