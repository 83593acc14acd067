CONSTANTS
    o1 = o1
    o2 = o2
    c1 = c1
    p1 = p1
    Originals <- MCOriginals
    Channels <- MCChannels
    Ports <- MCPorts
    RetriesOnTimeout = 1
    MaxRetries = 1
    MaxSeq <- MCMaxSeq
    MaxAppSends = 1
    Closable <- MCNoClosable
    NoPacket = NoPacket
    None = None
SPECIFICATION Spec
CHECK_DEADLOCK FALSE
PROPERTIES
    ForwardedEventuallyAnswered
