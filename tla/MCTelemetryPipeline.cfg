\* Two sources, two stream ids, a generic page and an event page, queues of one message.
\* The router blocks in recvfrom and the windows in recv_multipart once
\* the sources stop sending, so a state with no enabled step is legitimate.
CONSTANTS
    page = page
    ev = ev
    Consumers <- MCConsumers
    Launch <- MCLaunch
    Hwm = 1
    Addrs <- MCAddrs
    StreamIds <- MCStreamIds
    Lengths <- MCLengths
    MaxDatagrams = 2
    MaxLaunches = 0
SPECIFICATION PipeSpec
CHECK_DEADLOCK FALSE
INVARIANT PipeTypeOK
INVARIANT NoSilentLoss
PROPERTY QueuedEventuallyShown
PROPERTY ImplementsDeliveryOrder
