CONSTANTS
    MaxSpacecraft = 2
    StreamIds = {2048, 2182}
SPECIFICATION Spec
INVARIANT PageSubscriptionReachesItsPackets
