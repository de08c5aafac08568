\* Discovery with one source address a substring of another.
CONSTANTS
    Addrs <- MCAddrsNested
    StreamIds <- MCStreamIds
    Lengths <- MCLengths
    MaxDatagrams = 3
    MaxLaunches = 1
SPECIFICATION Spec
CHECK_DEADLOCK FALSE
INVARIANT AcceptedDatagramsPublished
