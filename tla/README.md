# TLA+ models of the cache-empty proxy dispatch

This directory holds TLA+ models of the cache-empty notification path of the
proxy package: the single-flight coordinator `CacheEmptyHandler`
(`src/unnamed/part_000`), the dispatch function `handleCacheEmpty`, and the two
`CacheEmptyProxy` bindings it calls. The HTTP binding is in
`src/internal/proxy/cache_empty_http.go`; the gRPC binding is in
`src/unnamed/part_001`, lines 275-334. `PROJECT.json` lists the components, the
runs, the mutants, the line map, the findings and the hazards.

## Inventory

| Component | State | Operations | Interacts with |
|---|---|---|---|
| `CacheEmptyHandler` (part_000:37-113) | `channelLocks` (a `sync.Map` from channel to `*channelLock`); each `channelLock` holds `result`, `err` and a `done` channel; `lockTimeout` | `NewCacheEmptyHandler`, `handle`, `getOrCreateLock` | the goroutines calling `handle`; `handleCacheEmpty` |
| `handleCacheEmpty` (part_000:115-131) | none. It reads the proxy map. | ranges over the map, skips nil entries, calls the first live proxy, returns its error or response, and returns a default empty response when no proxy is live | proxies |
| `HTTPCacheEmptyProxy` (cache_empty_http.go:10-61) | `config`, `httpCaller` (fixed after construction) | `ProxyCacheEmpty` (encode, `CallHTTP` under the client timeout, status transform on error, decode), `Protocol`, `UseBase64`, `IncludeMeta` | the backend over HTTP |
| `GRPCCacheEmptyProxy` (part_001:286-334) | `config`, `client` (connection opened at construction) | `ProxyCacheEmpty` (`context.WithTimeout`, then the RPC), plus the static accessors | the backend over gRPC |
| `CacheEmptyProxy` (cache_empty_http.go:70-79) | none | the interface of the two bindings | none |
| Tests (part_001:1-274, part_002, part_003, arms_probe_test.go) | none | test scenarios; the CORS tests exercise middleware whose code is not in `src/` | none |

How `handle` works: every call allocates a lock and runs `LoadOrStore`. The
caller that stores its lock is the **leader**. The leader calls
`handleCacheEmpty` with its own `ctx` and stores the result on the lock. Its
deferred cleanup then runs `Delete(channel)` and `close(done)`. Every other
caller is a **follower**. A follower starts a timer and waits in a `select` on
three cases:
- `done` closes: the follower returns the leader's stored result.
- The timer fires: the follower makes its own `handleCacheEmpty` call and does not touch the map.
- `ctx` is cancelled: the follower returns `ctx.Err()`.

What makes this code hard to test:
- Goroutines for the same channel interleave.
- The cleanup must run in a fixed order: store the result, then delete the entry, then close `done`.
- The timer races the leader's completion, and the follower's `select` picks at random among ready cases.
- The backend can hang. Each binding's own deadline is what ends the call.
- The leader's context cancellation leaks into the shared result.
- Go map iteration order is random.

What makes each component correct:
- **Coordinator:**
  - At most one leader call per channel.
  - Followers return the leader's stored result.
  - The map never hands out a finished lock, so no stale result is returned.
  - A follower falls back only after the lock timeout.
  - Every call returns, and every lock is removed.
  - Channels are isolated from each other.
- **Dispatch:** nil entries are skipped, the first live proxy wins, and an empty registry gives the default response without a call.
- **Bindings:** every call ends by its deadline or by `ctx`.

## Modules

There are five modules:

| Module | Models |
|---|---|
| `CacheEmptyHandler.tla` | the coordinator, the dispatch function and both bindings, by their outcomes, in one specification, since they run in the same goroutine; `MC_CacheEmptyHandler.tla` instantiates it |
| `SingleFlight.tla` | the abstract promise of `handle`, which `CacheEmptyHandler` refines |
| `CacheEmptyProxyContract.tla` | the abstract contract of one `ProxyCacheEmpty` call, which both bindings refine |
| `HTTPCacheEmptyProxy.tla` | the HTTP binding step by step |
| `GRPCCacheEmptyProxy.tla` | the gRPC binding step by step |

### CacheEmptyHandler

- **Callers.** Each caller is a goroutine in `handle`. `pc` tracks where it is:
  - `leader`: calling the backend;
  - `cleanup`: about to `Delete`;
  - `closing`: about to `close(done)`;
  - `waiting`: in the `select`;
  - `fallback`: making its independent call.
- **Locks.** `channelLocks` is the `sync.Map`. `locks[l]` is the lock allocated by handle call number `l`, holding its `result` and `done`.
- **Calls.** `call[c]` is an outstanding `ProxyCacheEmpty` call. It records which proxy was called, the ticks until the call returns, and whether the backend hangs past the deadline.
- **Time.** Time is discrete. `Tick` decrements the followers' timers and the calls' countdowns. Time cannot pass a call that is due before that call returns.
- **Outcomes.** Results are abstracted to the outcomes the properties tell apart: populated, not populated, an error response produced by the HTTP status transform, the default empty response, a backend error, a deadline error and a cancellation.

| Action | Code |
|---|---|
| `Handle` + `getOrCreateLock` | `handle` lines 59-63 and 78-80, `getOrCreateLock` |
| `handleCacheEmpty` | `handleCacheEmpty`: chooses any live proxy, which models the random map order |
| `ProxyCacheEmpty`, `IssueCall`, `CallReturns`, `BackendOutcomes` | the two bindings' `ProxyCacheEmpty` |
| `Finish` | `lock.result, lock.err = ...` for the leader; the return of the fallback call |
| `LeaderDelete`, `LeaderClose` | the deferred cleanup, one action per statement |
| `FollowerDone`, `FollowerTimeout`, `FollowerCanceled` | the three `select` cases. All three are enabled together when ready, as in Go. |
| `CancelCtx` | the caller of `handle` cancels its context (environment) |
| `Tick` | the passage of time |

`MC_CacheEmptyHandler.tla` gives the constants: three goroutines, one or two
channels, and a registry with the test's HTTP proxy `"test"` plus a nil entry.
Two other registries are used: one with only a nil entry, and one with a gRPC
and an HTTP proxy.

### SingleFlight and the refinement

`SingleFlight.tla` states what `handle` promises without locks, timers or
proxies:
- Per channel, at most one flight is registered. A caller that finds none **owns** a new flight; a caller that finds one **joins** it.
- The owner's call answers once (`Answer`). The flight is then unregistered (`Unregister`) and published (`Publish`), in that order, and the owner returns the answer.
- A joined caller returns the published answer (`Share`), or its own cancellation (`GiveUp`), or detaches (`Detach`) and returns the answer of its own call (`AloneReturn`).
- A call returns a cancellation only if its own ctx is done. The answer of an owner whose ctx is done may be a cancellation, and followers that share it return it: the abstract spec states the code's promise, not the spec's stronger one.

`CacheEmptyHandler` defines `Flight == INSTANCE SingleFlight WITH ...`:
- `registered` is `channelLocks`; a flight is a lock id.
- `answer` and `published` are each lock's `result` and `done`.
- `role` is `owner` for `leader`, `cleanup` and `closing`; `joined` for `waiting`; `alone` for `fallback`.
- `member` is `lockRef` while the caller is on the owner or joined path.

`ImplementsSingleFlight == Flight!Spec` is checked as a property.

It is checked twice: on one channel with a live backend (`refines_single_flight`), and on two channels with only a nil registry entry (`refines_two_channels`), where a caller must join only a flight of its own channel. `SingleFlight` has no fairness of its own: that every handle call returns is checked of the handler itself (`HandleReturns`). Timers, calls, `Tick` and the history variables are not mapped, so their steps are stutters of the abstract spec.

### The proxy contract and the bindings

`CacheEmptyProxyContract.tla` is one proxy serving one call after another.
- A call starts; the caller may cancel its ctx; time passes up to the deadline `Timeout`; the backend may answer before the deadline.
- The call then returns. With an answer, it returns a value `Allowed` for that answer: a body as decoded, a bad status as an error or as an error response, anything else as a backend error. Without an answer, it returns a cancellation only if ctx is done, and a deadline error only once the deadline has passed.

`HTTPCacheEmptyProxy.tla` follows `cache_empty_http.go`:

| Action | Code |
|---|---|
| `NewHTTPCacheEmptyProxy` | lines 23-33; `proxyHTTPClient` may fail, and then no proxy exists (`Failed` stutters) |
| `ProxyCacheEmpty` | lines 35-40: encode and issue the POST. Encoding a one-string struct cannot fail. |
| `CallHTTP` | line 41: a 2xx body (populated, not populated, undecodable), a non-2xx status, or a connection error |
| `ClientTimeout`, `CallCanceled` | line 41: the client timeout or the ctx ends `CallHTTP` |
| `Return` | lines 42-45: an error goes through `transformCacheEmptyResponse`, a body through the decoder |
| `Protocol`, `UseBase64`, `IncludeMeta` | lines 48-61 |

`CallHTTP`'s client, `transformCacheEmptyResponse` and the decoder are not under `src/`. They are modelled from the spec and marked `spec_modelled` in the map.

`GRPCCacheEmptyProxy.tla` follows part_001:286-334:
- `NewGRPCCacheEmptyProxy`: `getGrpcHost`, `getDialOpts` or `grpc.NewClient` may fail.
- `ProxyCacheEmpty`: `context.WithTimeout`.
- `NotifyCacheEmpty`: a response, a status error or Unavailable.
- `RPCDeadline` and `RPCCanceled`: the per-call context ends the RPC.
- `Return`: `defer cancel()`, and the RPC's result returned untransformed.

Both define `Contract == INSTANCE CacheEmptyProxyContract WITH ...`:
- the contract's `phase` is `calling` whenever the binding's phase is not `idle`;
- its `answer` is what the backend sent. A timeout or a cancellation is not an answer.

## Runs

| Run | cfg | Result | What it shows |
|---|---|---|---|
| safety | `MC_CacheEmptyHandler.cfg` | pass | 3 goroutines, 1 channel, `LockTimeout` unset (default 2 ticks), proxy timeout 2, backend latency 1 or hang. Properties: `TypeOK`, `SingleFlight`, `SharedResult`, `NoStaleLock`. |
| liveness | `MC_CacheEmptyHandler_live.cfg` | pass | Under `FairSpec`, `HandleReturns` and `LockReleased` hold. |
| refines_two_channels | `MC_CacheEmptyHandler_iso.cfg` | pass | 3 goroutines, 2 channels, only a nil registry entry (the default response path): `ImplementsSingleFlight` holds, so a caller joins only a flight of its own channel. |
| refines_single_flight | `MC_CacheEmptyHandler_refine.cfg` | pass | 2 goroutines, 4 handle calls on one channel, default lock timeout, latency 1 or hang: `ImplementsSingleFlight` holds. |
| http_refines_contract | `HTTPCacheEmptyProxy.cfg` | pass | Client timeout 2, statuses `s500` and `s503`, with only `s503` transformed. Properties: `TypeOK`; `ImplementsContract`; `CallEnds`, under `FairSpec`. |
| grpc_refines_contract | `GRPCCacheEmptyProxy.cfg` | pass | Per-call timeout 2. Properties: `TypeOK`; `ImplementsContract`, so DeadlineExceeded only after the deadline and Canceled only for the caller's ctx; `CallEnds`. |
| leader_cancel | `MC_CacheEmptyHandler_cancel.cfg` | violation | `CancelOnlyOwnContext`: a follower with a live context returns the leader's `context.Canceled`. |
| map_order | `MC_CacheEmptyHandler_order.cfg` | violation | `FirstMatchWins`: two live proxies are called by successive dispatches. |
| fallback_fanout | `MC_CacheEmptyHandler_fanout.cfg` | violation | `FallbackCallsBounded`: while the leader hangs, two followers both fall back, so three calls are outstanding at once. |

**Findings.**
- The leader's context is shared with every follower (part_000:74). One client's cancellation fails all concurrent followers of that channel, and they make no fallback call. The spec says the leader's context governs only the leader.
- The "first match" registry order is random (part_000:116).
- Fallback calls are not deduplicated among followers (part_000:95). The spec's count of "2, not N" calls holds only for one follower.

**Bounds.**
- Three goroutines are the fewest that give a leader plus two followers, which the fan-out and shared-result questions need.
- Four handle calls let a goroutine call again after its first call returns. This exercises reuse of a channel after cleanup.
- The latencies {1, 3} against a deadline of 2 give both a backend that answers and one that hangs.
- A lock timeout of 1 or 2 ticks is shorter than a hung call, so followers both share results and time out.
- The callers are symmetric model values. Symmetry is used in the safety run only, never with liveness.
- The refinement run uses two goroutines without symmetry. Three goroutines with symmetry also pass (3.2M states), but take nearly three minutes. With two goroutines and four calls, every action of `CacheEmptyHandler` fires (TLC coverage): a leader answers, unregisters and publishes while a follower shares, gives up or falls back, and a new flight starts after the first is unregistered.
- The bindings' timeout of 2 ticks separates an answer before the deadline, a cancellation and the deadline itself. Two status codes, one transformed and one not, reach both transform paths.

**Fairness.**
- `FairSpec` gives weak fairness to every step a running goroutine can take: dispatch, the proxy call returning, both cleanup statements and the `select`.
- Time passing (`Tick`) is also weakly fair.
- The calls return because both bindings bound each call with a deadline. gRPC uses `context.WithTimeout`; HTTP uses the client timeout.
- Starting a handle call and cancelling a context are the callers' choice, so they get no fairness.
- In the binding modules, `Tick`, the timeout, the cancellation return and `Return` are weakly fair: the Go runtime and the HTTP and gRPC clients guarantee them. The backend answering (`CallHTTP`, `NotifyCacheEmpty`) gets no fairness, so `CallEnds` holds even for a backend that never answers.
- `Finished` is the only state where the model may stop: every handle call has returned. Deadlock is checked everywhere else.

## Not modelled

- JSON encoding and decoding. Only their outcome is modelled: a decode failure is a backend error. Encoding a one-string struct cannot fail.
- A panic inside a binding. The contract says a binding never panics on a backend error, and a panic there is not recovered, so it ends the process rather than reaching another state of `handle`.
- The bindings' error wrapping and logging text, and the request headers (`httpRequestHeaders`, `grpcRequestContext`): they change no state.
- A run with `LockTimeout` longer than the proxy timeout, meant to show that no fallback call then overlaps the leader's call. The model lets goroutine scheduling be delayed for any number of ticks, and then the leader may issue its call after a follower's timer has run out, so the property needs a scheduling assumption the code does not make.
- The CORS middleware. Only its tests are in the repository.
- A negative `LockTimeout` is kept by the code (part_000:49), and the model keeps it too: `LockTimeout` is any integer, and a timer at or below zero fires at once. No property is checked for it, because neither the spec nor the config comment says what a negative setting should do.
- A proxy `Timeout` of zero. Every module assumes `Timeout > 0`. With zero, the gRPC call's context has already expired, and the HTTP client would have no timeout at all. What a zero timeout means for HTTP is decided by `proxyHTTPClient`, which is not under `src/`.
- A caller's ctx that ends by its own deadline rather than by cancellation. It is folded into the cancellation, so a gRPC `DeadlineExceeded` before the configured timeout is not distinguished.
- The lines of `cache_empty_http.go` the map leaves out are the package clause, the imports, blank lines, the request struct `CacheEmptyRequestHTTP` (lines 10-13, whose encoding is abstracted away) and the method declarations of the `CacheEmptyProxy` interface (lines 73-79). They hold no behaviour. Every operation of every component is an action, so nothing more of the system can be modelled faithfully.

## Plan

1. (done) `CacheEmptyHandler` with the safety and liveness runs, and the three divergence runs.
2. (done) `SingleFlight.tla` and its refinement by `CacheEmptyHandler`, on one and on two channels.
3. (done) `HTTPCacheEmptyProxy.tla` and `GRPCCacheEmptyProxy.tla`, both refining `CacheEmptyProxyContract.tla`.
