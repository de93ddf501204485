SPECIFICATION BrokerSpec
CONSTANTS
    Subscriber = {s1, s2}
    Publisher = {p1, p2}
    Closer = {k1, k2}
    BufferSize = 1
    MaxEvents = 2
INVARIANT ChannelsAreSafe
PROPERTIES ReadersAreReleased
CHECK_DEADLOCK FALSE
