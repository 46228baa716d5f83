\* gRPC binding: per-call timeout of 2 ticks.
CONSTANTS
    Timeout = 2
    BinaryEncoding = TRUE
    IncludeConnectionMeta = FALSE
SPECIFICATION FairSpec
INVARIANT TypeOK
PROPERTY ImplementsContract CallEnds
