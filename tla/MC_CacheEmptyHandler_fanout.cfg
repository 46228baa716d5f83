\* Leader hangs, three goroutines on one channel: how many backend calls pile up.
CONSTANTS
    c1 = c1
    c2 = c2
    c3 = c3
    chA = chA
    chB = chB
    nilProxy = nilProxy
    NilProxy = nilProxy
    Callers <- MCCallers
    Channels <- MCChannels1
    Proxies <- MCProxies
    HTTPTransforms = FALSE
    LockTimeout = 0
    DefaultLockTimeout = 2
    Timeout = 2
    Latencies = {3}
    MaxHandles = 3
SPECIFICATION Spec
INVARIANT FallbackCallsBounded
