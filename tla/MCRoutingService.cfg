\* Discovery and routing with addresses that do not nest, lossy UDP,
\* stop at any time.  The router blocks in recvfrom once the sources have
\* sent MaxDatagrams, so a state with no enabled step is legitimate.
CONSTANTS
    Addrs <- MCAddrsDistinct
    StreamIds <- MCStreamIds
    Lengths <- MCLengths
    MaxDatagrams = 4
    MaxLaunches = 1
SPECIFICATION Spec
CHECK_DEADLOCK FALSE
INVARIANT TypeOK
INVARIANT AcceptedDatagramsPublished
INVARIANT TopicNameIdentifiesSource
INVARIANT SelectedSystemSeesItsSource
PROPERTY DiscoveredSourcesShown
