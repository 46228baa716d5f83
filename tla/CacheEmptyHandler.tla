-------------------------- MODULE CacheEmptyHandler --------------------------
(***************************************************************************)
(* The cache-empty single-flight coordinator of internal/proxy              *)
(* (src/unnamed/part_000: CacheEmptyHandler.handle, getOrCreateLock,        *)
(* handleCacheEmpty) together with the two CacheEmptyProxy bindings it      *)
(* dispatches through (HTTPCacheEmptyProxy, GRPCCacheEmptyProxy).           *)
(*                                                                         *)
(* Every goroutine calling handle(ctx, channel) is a Caller.  channelLocks  *)
(* is the sync.Map; locks holds the *channelLock values (result/err and     *)
(* the done channel), identified by the number of the handle call that      *)
(* allocated them.  Time is discrete: a waiting follower's timer and an     *)
(* outstanding backend call each hold a countdown that Tick decrements.     *)
(***************************************************************************)
EXTENDS Integers, FiniteSets

CONSTANTS
    Callers,            \* goroutines calling the handler (model values)
    Channels,           \* channel names (model values)
    Proxies,            \* config.Proxies: proxy name -> "http" | "grpc" | NilProxy
    NilProxy,           \* a nil CacheEmptyProxy registered in the map
    HTTPTransforms,     \* Config.HTTP.StatusToCodeTransforms is non-empty
    LockTimeout,        \* CacheEmptyHandlerConfig.LockTimeout (0 = unset, may be < 0)
    DefaultLockTimeout, \* the 5 * time.Second default, in ticks
    Timeout,            \* Config.Timeout of the proxy, in ticks
    Latencies,          \* how many ticks the backend takes to answer
    MaxHandles          \* bound: number of handle calls in a behaviour

ASSUME /\ LockTimeout \in Int /\ DefaultLockTimeout \in Nat \ {0}
       /\ Timeout \in Nat \ {0} /\ Latencies \subseteq Nat \ {0}
       /\ MaxHandles \in Nat \ {0}
       /\ \A n \in DOMAIN Proxies : Proxies[n] \in {"http", "grpc", NilProxy}

LockIds == 1..MaxHandles
NoLock == 0

(* Values a handle call can return, abstracted to what the properties     *)
(* tell apart: a response (populated or not, or an HTTP error turned into  *)
(* a response by a status transform), the default empty response, a       *)
(* backend error, the transport deadline, and a context cancellation.     *)
Outcomes == {"Populated", "NotPopulated", "ErrResponse", "Empty",
             "BackendErr", "DeadlineErr", "CanceledErr"}
NoResult == "NoResult"

NoCall == [proxy |-> "none", due |-> 0, hung |-> FALSE]
NoChannel == "none"

VARIABLES
    channelLocks,   \* sync.Map channel -> *channelLock (NoLock = absent)
    locks,          \* lock id -> [result, done]
    nextLock,       \* id of the channelLock the next handle call allocates
    pc,             \* where each caller is in handle
    channel,        \* the channel argument of each caller's handle call
    lockRef,        \* the *channelLock each caller holds
    timer,          \* remaining ticks of a follower's time.NewTimer
    call,           \* a caller's outstanding ProxyCacheEmpty call
    ctxDone,        \* the caller's ctx is cancelled
    ret,            \* value the caller's last handle call returned
    \* history, read only by the properties
    via,            \* which path produced ret
    usedProxies     \* proxy names that have been called

vars == <<channelLocks, locks, nextLock, pc, channel, lockRef, timer, call,
          ctxDone, ret, via, usedProxies>>

PC == {"idle", "leader", "cleanup", "closing", "waiting", "fallback"}

TypeOK ==
    /\ channelLocks \in [Channels -> LockIds \cup {NoLock}]
    /\ locks \in [LockIds -> [result : Outcomes \cup {NoResult}, done : BOOLEAN]]
    /\ nextLock \in 1..MaxHandles + 1
    /\ pc \in [Callers -> PC]
    /\ channel \in [Callers -> Channels \cup {NoChannel}]
    /\ lockRef \in [Callers -> LockIds \cup {NoLock}]
    /\ timer \in [Callers -> Int]
    /\ call \in [Callers -> {NoCall} \cup
                   [proxy : DOMAIN Proxies, due : 0..Timeout, hung : BOOLEAN]]
    /\ ctxDone \in [Callers -> BOOLEAN]
    /\ ret \in [Callers -> Outcomes \cup {NoResult}]
    /\ via \in [Callers -> {"none", "leader", "done", "timeout", "ctx"}]
    /\ usedProxies \subseteq DOMAIN Proxies

-----------------------------------------------------------------------------
(* NewCacheEmptyHandler: a zero LockTimeout falls back to the default.    *)
lockTimeout == IF LockTimeout = 0 THEN DefaultLockTimeout ELSE LockTimeout

(* handleCacheEmpty ranges over a Go map: iteration order is random, and   *)
(* nil entries are skipped, so the first proxy called is any live entry.  *)
LiveProxies == {n \in DOMAIN Proxies : Proxies[n] # NilProxy}

(* ProxyCacheEmpty of each binding: when the backend answers in time, what *)
(* it can return.  The gRPC binding returns the RPC status untransformed;  *)
(* the HTTP binding passes a failed call through                           *)
(* transformCacheEmptyResponse, which may turn a status into a response.  *)
BackendOutcomes(kind) ==
    {"Populated", "NotPopulated", "BackendErr"}
      \cup (IF kind = "http" /\ HTTPTransforms THEN {"ErrResponse"} ELSE {})

(* Mutant: the call is made without the per-call timeout.                 *)
IssueCallNoDeadline(n, latency) ==
    [proxy |-> n, due |-> latency, hung |-> FALSE]

(* The backend answers after latency ticks; the per-call deadline          *)
(* (context.WithTimeout for gRPC, the HTTP client timeout) ends the call   *)
(* after Timeout ticks with a deadline error.                              *)
IssueCall(n, latency) ==
    [proxy |-> n, due |-> IF latency > Timeout THEN Timeout ELSE latency,
     hung |-> latency > Timeout]

(* Mutant: the proxy call has no deadline, a hung backend never returns.  *)
CallReturnsNoDeadline(c) == call[c] # NoCall /\ call[c].due = 0 /\ ~call[c].hung

(* The call has returned: the backend answered or the deadline expired.   *)
CallReturns(c) == call[c] # NoCall /\ call[c].due = 0

Init ==
    /\ channelLocks = [ch \in Channels |-> NoLock]
    /\ locks = [l \in LockIds |-> [result |-> NoResult, done |-> FALSE]]
    /\ nextLock = 1
    /\ pc = [c \in Callers |-> "idle"]
    /\ channel = [c \in Callers |-> NoChannel]
    /\ lockRef = [c \in Callers |-> NoLock]
    /\ timer = [c \in Callers |-> 0]
    /\ call = [c \in Callers |-> NoCall]
    /\ ctxDone = [c \in Callers |-> FALSE]
    /\ ret = [c \in Callers |-> NoResult]
    /\ via = [c \in Callers |-> "none"]
    /\ usedProxies = {}


-----------------------------------------------------------------------------
getOrCreateLockStore(ch, newLock) == <<newLock, TRUE>>

(* getOrCreateLock: sync.Map.LoadOrStore of a fresh lock; the caller that *)
(* stored it is the first call.                                            *)
getOrCreateLock(ch, newLock) ==
    IF channelLocks[ch] = NoLock THEN <<newLock, TRUE>>
                                 ELSE <<channelLocks[ch], FALSE>>

(* handle, up to the select or the proxy call: the leader installs its    *)
(* lock, a follower starts its timer.                                      *)
Handle(c, ch) ==
    /\ pc[c] = "idle"
    /\ nextLock <= MaxHandles
    /\ LET got == getOrCreateLock(ch, nextLock)
           isFirstCall == got[2]
       IN /\ lockRef' = [lockRef EXCEPT ![c] = got[1]]
          /\ IF isFirstCall
               THEN /\ channelLocks' = [channelLocks EXCEPT ![ch] = nextLock]
                    /\ pc' = [pc EXCEPT ![c] = "leader"]
                    /\ UNCHANGED timer
               ELSE /\ pc' = [pc EXCEPT ![c] = "waiting"]
                    /\ timer' = [timer EXCEPT ![c] = lockTimeout]
                    /\ UNCHANGED channelLocks
    /\ nextLock' = nextLock + 1
    /\ channel' = [channel EXCEPT ![c] = ch]
    /\ ctxDone' = [ctxDone EXCEPT ![c] = FALSE]
    /\ ret' = [ret EXCEPT ![c] = NoResult]
    /\ via' = [via EXCEPT ![c] = "none"]
    /\ UNCHANGED <<locks, call, usedProxies>>

(* Mutant: the leader returns an error early without storing it on lock.  *)
FinishNoStoreOnError(c, o) ==
    \/ /\ pc[c] = "leader"
       /\ locks' = IF o \in {"BackendErr", "DeadlineErr", "CanceledErr"}
                     THEN locks
                     ELSE [locks EXCEPT ![lockRef[c]].result = o]
       /\ pc' = [pc EXCEPT ![c] = "cleanup"]
       /\ UNCHANGED <<ret, via>>
    \/ /\ pc[c] = "fallback"
       /\ ret' = [ret EXCEPT ![c] = o]
       /\ via' = [via EXCEPT ![c] = "timeout"]
       /\ pc' = [pc EXCEPT ![c] = "idle"]
       /\ UNCHANGED locks

(* The result of a handleCacheEmpty call reaches its caller: the leader    *)
(* stores it on its lock (lock.result, lock.err = ...) and runs its        *)
(* deferred cleanup; a timed-out follower returns it.                      *)
Finish(c, o) ==
    \/ /\ pc[c] = "leader"
       /\ locks' = [locks EXCEPT ![lockRef[c]].result = o]
       /\ pc' = [pc EXCEPT ![c] = "cleanup"]
       /\ UNCHANGED <<ret, via>>
    \/ /\ pc[c] = "fallback"
       /\ ret' = [ret EXCEPT ![c] = o]
       /\ via' = [via EXCEPT ![c] = "timeout"]
       /\ pc' = [pc EXCEPT ![c] = "idle"]
       /\ UNCHANGED locks

(* handleCacheEmpty: the first non-nil proxy in map order is called; with  *)
(* none, the default empty response is returned without a call.           *)
handleCacheEmpty(c) ==
    /\ pc[c] \in {"leader", "fallback"}
    /\ call[c] = NoCall
    /\ \/ /\ LiveProxies = {}
          /\ Finish(c, "Empty")
          /\ UNCHANGED <<call, usedProxies>>
       \/ \E n \in LiveProxies, latency \in Latencies :
             /\ call' = [call EXCEPT ![c] = IssueCall(n, latency)]
             /\ usedProxies' = usedProxies \cup {n}
             /\ UNCHANGED <<locks, pc, ret, via>>
    /\ UNCHANGED <<channelLocks, nextLock, channel, lockRef, timer, ctxDone>>

(* ProxyCacheEmpty returns: with the backend's answer or the deadline      *)
(* error, or at once with a cancellation error once ctx is done.           *)
ProxyCacheEmpty(c) ==
    /\ call[c] # NoCall
    /\ \/ /\ CallReturns(c)
          /\ \E o \in IF call[c].hung THEN {"DeadlineErr"}
                      ELSE BackendOutcomes(Proxies[call[c].proxy]) :
               Finish(c, o)
       \/ /\ ctxDone[c]
          /\ Finish(c, "CanceledErr")
    /\ call' = [call EXCEPT ![c] = NoCall]
    /\ UNCHANGED <<channelLocks, nextLock, channel, lockRef, timer, ctxDone,
                   usedProxies>>

(* Mutant: the cleanup forgets channelLocks.Delete.                        *)
LeaderDeleteMissing(c) ==
    /\ pc[c] = "cleanup"
    /\ pc' = [pc EXCEPT ![c] = "closing"]
    /\ UNCHANGED <<channelLocks, locks, nextLock, channel, lockRef, timer,
                   call, ctxDone, ret, via, usedProxies>>

(* Mutant: the lock is deleted only when the call succeeded.               *)
LeaderDeleteOnSuccess(c) ==
    /\ pc[c] = "cleanup"
    /\ channelLocks' =
           IF locks[lockRef[c]].result \in {"BackendErr", "DeadlineErr", "CanceledErr"}
             THEN channelLocks
             ELSE [channelLocks EXCEPT ![channel[c]] = NoLock]
    /\ pc' = [pc EXCEPT ![c] = "closing"]
    /\ UNCHANGED <<locks, nextLock, channel, lockRef, timer, call, ctxDone,
                   ret, via, usedProxies>>

(* The leader's deferred cleanup, first statement: channelLocks.Delete.    *)
LeaderDelete(c) ==
    /\ pc[c] = "cleanup"
    /\ channelLocks' = [channelLocks EXCEPT ![channel[c]] = NoLock]
    /\ pc' = [pc EXCEPT ![c] = "closing"]
    /\ UNCHANGED <<locks, nextLock, channel, lockRef, timer, call, ctxDone,
                   ret, via, usedProxies>>

(* Second statement: close(lock.done); handle returns lock.result.         *)
LeaderClose(c) ==
    /\ pc[c] = "closing"
    /\ locks' = [locks EXCEPT ![lockRef[c]].done = TRUE]
    /\ ret' = [ret EXCEPT ![c] = locks[lockRef[c]].result]
    /\ via' = [via EXCEPT ![c] = "leader"]
    /\ pc' = [pc EXCEPT ![c] = "idle"]
    /\ UNCHANGED <<channelLocks, nextLock, channel, lockRef, timer, call,
                   ctxDone, usedProxies>>

(* Mutant: the follower reads lock.result without waiting for <-lock.done. *)
FollowerDoneUnsynced(c) ==
    /\ pc[c] = "waiting"
    /\ ret' = [ret EXCEPT ![c] = locks[lockRef[c]].result]
    /\ via' = [via EXCEPT ![c] = "done"]
    /\ pc' = [pc EXCEPT ![c] = "idle"]
    /\ UNCHANGED <<channelLocks, locks, nextLock, channel, lockRef, timer,
                   call, ctxDone, usedProxies>>

(* The follower's select, case <-lock.done.                                *)
FollowerDone(c) ==
    /\ pc[c] = "waiting"
    /\ locks[lockRef[c]].done
    /\ ret' = [ret EXCEPT ![c] = locks[lockRef[c]].result]
    /\ via' = [via EXCEPT ![c] = "done"]
    /\ pc' = [pc EXCEPT ![c] = "idle"]
    /\ UNCHANGED <<channelLocks, locks, nextLock, channel, lockRef, timer,
                   call, ctxDone, usedProxies>>

(* Case <-timer.C: log and make an independent handleCacheEmpty call.  A   *)
(* timer made with a duration <= 0 fires at once.                         *)
FollowerTimeout(c) ==
    /\ pc[c] = "waiting"
    /\ timer[c] <= 0
    /\ pc' = [pc EXCEPT ![c] = "fallback"]
    /\ UNCHANGED <<channelLocks, locks, nextLock, channel, lockRef, timer,
                   call, ctxDone, ret, via, usedProxies>>

(* Case <-ctx.Done(): return nil, ctx.Err().                               *)
FollowerCanceled(c) ==
    /\ pc[c] = "waiting"
    /\ ctxDone[c]
    /\ ret' = [ret EXCEPT ![c] = "CanceledErr"]
    /\ via' = [via EXCEPT ![c] = "ctx"]
    /\ pc' = [pc EXCEPT ![c] = "idle"]
    /\ UNCHANGED <<channelLocks, locks, nextLock, channel, lockRef, timer,
                   call, ctxDone, usedProxies>>

(* The caller of handle cancels its context while the call is running.     *)
CancelCtx(c) ==
    /\ pc[c] # "idle"
    /\ ~ctxDone[c]
    /\ ctxDone' = [ctxDone EXCEPT ![c] = TRUE]
    /\ UNCHANGED <<channelLocks, locks, nextLock, pc, channel, lockRef, timer,
                   call, ret, via, usedProxies>>

(* A caller whose timer or backend call is still running.                  *)
Counting(c) ==
    \/ pc[c] = "waiting" /\ timer[c] > 0
    \/ call[c] # NoCall /\ call[c].due > 0

(* One tick of time.  A call that has returned is handled first, so the    *)
(* backend answer and the deadline happen at their tick.                  *)
Tick ==
    /\ \E c \in Callers : Counting(c)
    /\ ~\E c \in Callers : CallReturns(c)
    /\ timer' = [c \in Callers |->
                   IF pc[c] = "waiting" /\ timer[c] > 0 THEN timer[c] - 1
                                                      ELSE timer[c]]
    /\ call' = [c \in Callers |->
                  IF call[c] # NoCall /\ call[c].due > 0
                    THEN [call[c] EXCEPT !.due = @ - 1] ELSE call[c]]
    /\ UNCHANGED <<channelLocks, locks, nextLock, pc, channel, lockRef,
                   ctxDone, ret, via, usedProxies>>

(* All handle calls of the behaviour have returned.                        *)
Finished ==
    /\ nextLock > MaxHandles
    /\ \A c \in Callers : pc[c] = "idle"
    /\ UNCHANGED vars

Next ==
    \/ \E c \in Callers, ch \in Channels : Handle(c, ch)
    \/ \E c \in Callers :
          \/ handleCacheEmpty(c) \/ ProxyCacheEmpty(c)
          \/ LeaderDelete(c) \/ LeaderClose(c)
          \/ FollowerDone(c) \/ FollowerTimeout(c) \/ FollowerCanceled(c)
          \/ CancelCtx(c)
    \/ Tick
    \/ Finished

(* Goroutines that can run are scheduled, backend calls end by their       *)
(* deadline and time passes.  Starting a call and cancelling a context are *)
(* up to the callers, so they get no fairness.                             *)
Fairness ==
    /\ \A c \in Callers :
         /\ WF_vars(handleCacheEmpty(c))
         /\ WF_vars(ProxyCacheEmpty(c))
         /\ WF_vars(LeaderDelete(c))
         /\ WF_vars(LeaderClose(c))
         /\ WF_vars(FollowerDone(c) \/ FollowerTimeout(c) \/ FollowerCanceled(c))
    /\ WF_vars(Tick)

Spec == Init /\ [][Next]_vars
FairSpec == Spec /\ Fairness

-----------------------------------------------------------------------------
(* Properties                                                               *)

(* Single flight: for each channel at most one handle call is on the       *)
(* leader path (calling handleCacheEmpty for its own lock) at a time; this  *)
(* is what the atomic LoadOrStore in getOrCreateLock and the Delete only   *)
(* after the call has returned have to guarantee.                          *)
SingleFlight ==
    \A ch \in Channels :
        Cardinality({c \in Callers : pc[c] = "leader" /\ channel[c] = ch}) <= 1

(* Shared result: every follower woken by <-lock.done returns a result     *)
(* that was stored (never the zero value), and every caller that returned  *)
(* the result of a given lock, leader or follower, returned the same one.  *)
SharedResult ==
    \A c \in Callers : via[c] = "done" =>
        /\ ret[c] # NoResult
        /\ \A d \in Callers :
              (lockRef[d] = lockRef[c] /\ via[d] \in {"leader", "done"})
                  => ret[d] = ret[c]

(* No stale result: an entry of channelLocks never refers to a lock whose  *)
(* done channel is closed, so a new handle call never joins a call that    *)
(* has already finished and returns its old result; the leader's cleanup  *)
(* must Delete before it closes done.                                      *)
NoStaleLock ==
    \A ch \in Channels :
        channelLocks[ch] # NoLock => ~locks[channelLocks[ch]].done

(* Every handle call returns: neither a hung backend nor a leader that     *)
(* never finishes blocks a caller for ever.                                *)
HandleReturns ==
    \A c \in Callers : pc[c] # "idle" ~> pc[c] = "idle"

(* Every lock installed in channelLocks is eventually removed, so a channel *)
(* is never left with a pending entry that forces every later caller to    *)
(* wait for the lock timeout.                                               *)
LockReleased ==
    \A ch \in Channels, l \in LockIds :
        channelLocks[ch] = l ~> channelLocks[ch] # l

(* Bounded fan-out: while one handle call's backend call hangs, at most    *)
(* two calls for its channel are outstanding, the hung leader call and one *)
(* fallback (spec section 8, timeout fallback).                            *)
FallbackCallsBounded ==
    \A ch \in Channels :
        Cardinality({c \in Callers : call[c] # NoCall /\ channel[c] = ch}) <= 2

(* Cancellation is the caller's own: a handle call returns a context      *)
(* cancellation error only if its own ctx was cancelled (spec sections 5   *)
(* and 7: the caller must be able to tell its cancellation from a backend  *)
(* error, and the leader's context governs only the leader).               *)
CancelOnlyOwnContext ==
    \A c \in Callers : (pc[c] = "idle" /\ ret[c] = "CanceledErr") => ctxDone[c]

(* First match wins: the registry is tried in a fixed order, so every      *)
(* handleCacheEmpty call notifies the same proxy (spec sections 3 and 4.4). *)
FirstMatchWins ==
    Cardinality(usedProxies) <= 1

-----------------------------------------------------------------------------
(* Refinement: the lock a caller holds is its flight, the leader path is   *)
(* the owner, a waiting follower has joined, a follower making its         *)
(* fallback call is alone; the stored result and the closed done channel   *)
(* are the flight's answer and its publication.                            *)
Role(c) ==
    CASE pc[c] \in {"leader", "cleanup", "closing"} -> "owner"
      [] pc[c] = "waiting"                         -> "joined"
      [] pc[c] = "fallback"                        -> "alone"
      [] OTHER                                     -> "idle"

Flight == INSTANCE SingleFlight
    WITH MaxCalls <- MaxHandles,
         registered <- channelLocks,
         answer <- [l \in LockIds |-> locks[l].result],
         published <- [l \in LockIds |-> locks[l].done],
         role <- [c \in Callers |-> Role(c)],
         member <- [c \in Callers |->
                      IF pc[c] \in {"idle", "fallback"} THEN NoLock ELSE lockRef[c]],
         chan <- [c \in Callers |-> IF pc[c] = "idle" THEN NoChannel ELSE channel[c]],
         calls <- nextLock

(* handle implements the single-flight promise: a caller owns a new flight *)
(* only when none is registered for its channel, the flight answers once,  *)
(* is unregistered before it is published, and a follower returns only the *)
(* published answer of the flight it joined, its own cancellation, or the  *)
(* answer of its own fallback call.                                        *)
ImplementsSingleFlight == Flight!Spec

=============================================================================
