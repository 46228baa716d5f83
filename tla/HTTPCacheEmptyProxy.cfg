\* HTTP binding: client timeout 2 ticks, two error statuses of which one is transformed.
CONSTANTS
    Timeout = 2
    StatusCodes = {s500, s503}
    StatusToCodeTransforms = {s503}
    BinaryEncoding = FALSE
    IncludeConnectionMeta = TRUE
SPECIFICATION FairSpec
INVARIANT TypeOK
PROPERTY ImplementsContract CallEnds
