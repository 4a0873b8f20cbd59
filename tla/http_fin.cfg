SPECIFICATION FairSpec
CONSTANTS
    kBufferSize = 12
    sndbuf = 2
    None = None
    Streams <- MCStreams
    Replies <- MCReplies
CHECK_DEADLOCK FALSE
PROPERTIES
    FinCloses
