\* Leader's ctx is cancelled while a follower waits: who sees the cancellation.
CONSTANTS
    c1 = c1
    c2 = c2
    c3 = c3
    chA = chA
    chB = chB
    nilProxy = nilProxy
    NilProxy = nilProxy
    Callers <- MCCallers2
    Channels <- MCChannels1
    Proxies <- MCProxies
    HTTPTransforms = FALSE
    LockTimeout = 0
    DefaultLockTimeout = 2
    Timeout = 2
    Latencies = {1}
    MaxHandles = 3
SPECIFICATION Spec
INVARIANT CancelOnlyOwnContext
