\* A flush may fill its buffer twice and end with a part of it.
SPECIFICATION FairSpec
CONSTANTS
    Room = 3
    BatchMax = 2
    MaxHeard = 6
INVARIANTS
    EachAdvertAccounted
PROPERTIES
    SubscriberGets
