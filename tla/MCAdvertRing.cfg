\* A ring of three slots that wraps about twice.
SPECIFICATION Spec
CONSTANTS
    Advert = {a1, a2}
    Torn = Torn
    Capacity = 3
    MaxOffered = 5
INVARIANTS
    TypeOK
    NoDataRace
    Accounted
PROPERTIES
    RefinesLossyFifo
CHECK_DEADLOCK FALSE
