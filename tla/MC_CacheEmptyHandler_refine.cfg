\* Refinement of SingleFlight by handle: two goroutines, one channel, the
\* default lock timeout shorter than a hung call, so every path is taken.
CONSTANTS
    c1 = c1
    c2 = c2
    c3 = c3
    chA = chA
    chB = chB
    nilProxy = nilProxy
    NilProxy = nilProxy
    Callers <- MCCallers2
    Channels <- MCChannels1
    Proxies <- MCProxies
    HTTPTransforms = TRUE
    LockTimeout = 0
    DefaultLockTimeout = 2
    Timeout = 2
    Latencies = {1, 3}
    MaxHandles = 4
SPECIFICATION Spec
PROPERTY ImplementsSingleFlight
