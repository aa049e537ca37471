---------------------------- MODULE MCApiSession ----------------------------
EXTENDS ApiSession

Empty(first, type) == [first |-> first, type |-> type, msg |-> <<>>]

\* With Base = 9 and WireMod = 3 a tag of one byte holds fields up to 2, as it
\* holds them up to 15 in the code; the type of a subscription, the length and
\* a number of the request, and one of its tags are varints of two bytes.
Request ==
    [first |-> 0, type |-> 4,
     msg |-> <<[field |-> 4, wire |-> FixedWire,  value |-> <<3>>],
               [field |-> 2, wire |-> BytesWire,  value |-> <<3, 0>>],
               [field |-> 1, wire |-> VarintWire, value |-> 10]>>]

\* The last one is the first message of a client that expects encryption.
MCFrames == {Empty(0, Sub), Empty(0, Unsub), Empty(0, Close), Empty(0, SubStates),
             Request, Empty(1, 0)}
=============================================================================
