\* Whole and faulty packets in the page's byte order; sixteen pages in the window's
\* 21 slots; every topic combination of MCTopic with eleven spacecraft.
\* Both slots stop at their packet bounds; then no step is enabled, which
\* only ends the bounded behaviour.
CONSTANTS
    FieldDefs <- MCFieldDefs
    MaxItems = 5
    Endian = "L"
    FlightEndian = "L"
    Packets <- MCPackets
    MaxPktCount = 5
SPECIFICATION WinSpec
CHECK_DEADLOCK FALSE
INVARIANT DisplayedValueIsSentValue
INVARIANT StaleSlotsAreATail
INVARIANT PageCountIsReceivedCount
INVARIANT MainSubscriptionSelectsOneSource
