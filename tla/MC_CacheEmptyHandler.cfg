\* Safety of the single-flight coordinator on one channel: LockTimeout unset
\* (default 2 ticks), proxy timeout 2 ticks, the backend answers in 1 tick or
\* hangs past the deadline, so followers both share results and time out.
CONSTANTS
    c1 = c1
    c2 = c2
    c3 = c3
    chA = chA
    chB = chB
    nilProxy = nilProxy
    NilProxy = nilProxy
    Callers <- MCCallers
    Channels <- MCChannels1
    Proxies <- MCProxies
    HTTPTransforms = TRUE
    LockTimeout = 0
    DefaultLockTimeout = 2
    Timeout = 2
    Latencies = {1, 3}
    MaxHandles = 4
SPECIFICATION Spec
SYMMETRY MCSymmetry
INVARIANT TypeOK
INVARIANT SingleFlight
INVARIANT SharedResult
INVARIANT NoStaleLock
