\* Liveness of the coordinator under the fairness of FairSpec: two goroutines,
\* three handle calls on one channel, a backend that answers or hangs.
CONSTANTS
    c1 = c1
    c2 = c2
    c3 = c3
    chA = chA
    chB = chB
    nilProxy = nilProxy
    NilProxy = nilProxy
    Callers <- MCCallers2
    Channels <- MCChannels1
    Proxies <- MCProxies
    HTTPTransforms = FALSE
    LockTimeout = 1
    DefaultLockTimeout = 2
    Timeout = 2
    Latencies = {1, 3}
    MaxHandles = 3
SPECIFICATION FairSpec
PROPERTY HandleReturns
PROPERTY LockReleased
