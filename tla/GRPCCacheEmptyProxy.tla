------------------------- MODULE GRPCCacheEmptyProxy -------------------------
(***************************************************************************)
(* The gRPC binding of CacheEmptyProxy (src/unnamed/part_001, lines        *)
(* 286-334): NewGRPCCacheEmptyProxy, whose three steps may each fail, and  *)
(* ProxyCacheEmpty, which derives a context with the configured timeout    *)
(* from the caller's ctx and invokes NotifyCacheEmpty. RPC errors are      *)
(* returned untransformed. It is shown to implement                        *)
(* CacheEmptyProxyContract.                                                *)
(***************************************************************************)
EXTENDS Naturals

CONSTANTS
    Timeout,                \* Config.Timeout, in ticks
    BinaryEncoding,         \* Config.BinaryEncoding
    IncludeConnectionMeta   \* Config.IncludeConnectionMeta

ASSUME /\ Timeout \in Nat \ {0}
       /\ BinaryEncoding \in BOOLEAN /\ IncludeConnectionMeta \in BOOLEAN

(* What NotifyCacheEmpty can return: a response, a status error from the   *)
(* server, an Unavailable error for a broken connection, or the status of  *)
(* the call's context: DeadlineExceeded or Canceled.                       *)
Responses == {"Populated", "NotPopulated"}
RPCErrors == {"status", "unavailable", "deadline", "canceled"}
None == "None"

Results == {"Populated", "NotPopulated", "ErrResponse", "BackendErr",
            "DeadlineErr", "CanceledErr"}
NoResult == "NoResult"

VARIABLES
    proxy,      \* "none", then "ready" or "failed" after NewGRPCCacheEmptyProxy
    phase,      \* "idle", "inflight" (the RPC runs), "returned" (it returned)
    ctxDone,    \* the caller's ctx, parent of the per-call ctx, is cancelled
    elapsed,    \* ticks since the per-call ctx was derived
    resp,       \* response the RPC returned
    rpcErr,     \* error the RPC returned
    result      \* value the last ProxyCacheEmpty call returned

vars == <<proxy, phase, ctxDone, elapsed, resp, rpcErr, result>>

TypeOK ==
    /\ proxy \in {"none", "ready", "failed"}
    /\ phase \in {"idle", "inflight", "returned"}
    /\ ctxDone \in BOOLEAN
    /\ elapsed \in 0..Timeout
    /\ resp \in Responses \cup {None}
    /\ rpcErr \in RPCErrors \cup {None}
    /\ result \in Results \cup {NoResult}

Protocol == "grpc"
UseBase64 == BinaryEncoding
IncludeMeta == IncludeConnectionMeta

(* The error ProxyCacheEmpty returns: the RPC's own, classified.           *)
ErrorResult(err) ==
    CASE err = "deadline" -> "DeadlineErr"
      [] err = "canceled" -> "CanceledErr"
      [] OTHER            -> "BackendErr"

Init ==
    /\ proxy = "none"
    /\ phase = "idle"
    /\ ctxDone = FALSE
    /\ elapsed = 0
    /\ resp = None
    /\ rpcErr = None
    /\ result = NoResult

(* NewGRPCCacheEmptyProxy: getGrpcHost, getDialOpts and grpc.NewClient    *)
(* run in turn; the first that fails fails construction.                  *)
NewGRPCCacheEmptyProxy ==
    /\ proxy = "none"
    /\ \E failsAt \in {"getGrpcHost", "getDialOpts", "NewClient", "none"} :
          proxy' = IF failsAt = "none" THEN "ready" ELSE "failed"
    /\ UNCHANGED <<phase, ctxDone, elapsed, resp, rpcErr, result>>

(* ProxyCacheEmpty: context.WithTimeout(ctx, Timeout), then the RPC.       *)
ProxyCacheEmpty ==
    /\ proxy = "ready"
    /\ phase = "idle"
    /\ phase' = "inflight"
    /\ ctxDone' = FALSE
    /\ elapsed' = 0
    /\ resp' = None
    /\ rpcErr' = None
    /\ UNCHANGED <<proxy, result>>

CancelCtx ==
    /\ phase # "idle"
    /\ ~ctxDone
    /\ ctxDone' = TRUE
    /\ UNCHANGED <<proxy, phase, elapsed, resp, rpcErr, result>>

(* Mutant: the elapsed-time bound is dropped.                              *)
TickUnbounded ==
    /\ phase = "inflight"
    /\ elapsed' = elapsed + 1
    /\ UNCHANGED <<proxy, phase, ctxDone, resp, rpcErr, result>>

Tick ==
    /\ phase = "inflight"
    /\ elapsed < Timeout
    /\ elapsed' = elapsed + 1
    /\ UNCHANGED <<proxy, phase, ctxDone, resp, rpcErr, result>>

(* The server answers NotifyCacheEmpty, or the connection fails.           *)
NotifyCacheEmpty ==
    /\ phase = "inflight"
    /\ elapsed < Timeout
    /\ \/ \E r \in Responses : resp' = r /\ rpcErr' = None
       \/ \E e \in {"status", "unavailable"} : rpcErr' = e /\ resp' = None
    /\ phase' = "returned"
    /\ UNCHANGED <<proxy, ctxDone, elapsed, result>>

(* Mutants: the RPC is given the caller's ctx without WithTimeout; the     *)
(* timeout is taken one tick short.                                        *)
RPCDeadlineUnset == FALSE
RPCDeadlineEarly ==
    /\ phase = "inflight"
    /\ elapsed + 1 = Timeout
    /\ rpcErr' = "deadline"
    /\ phase' = "returned"
    /\ UNCHANGED <<proxy, ctxDone, elapsed, resp, result>>

(* The per-call ctx reaches its deadline: DeadlineExceeded.                *)
RPCDeadline ==
    /\ phase = "inflight"
    /\ elapsed = Timeout
    /\ rpcErr' = "deadline"
    /\ phase' = "returned"
    /\ UNCHANGED <<proxy, ctxDone, elapsed, resp, result>>

(* The parent ctx is cancelled, so the per-call ctx is too: Canceled.      *)
RPCCanceled ==
    /\ phase = "inflight"
    /\ ctxDone
    /\ rpcErr' = "canceled"
    /\ phase' = "returned"
    /\ UNCHANGED <<proxy, ctxDone, elapsed, resp, result>>

(* defer cancel() runs and the RPC's result is returned as it is.          *)
Return ==
    /\ phase = "returned"
    /\ result' = IF rpcErr = None THEN resp ELSE ErrorResult(rpcErr)
    /\ phase' = "idle"
    /\ UNCHANGED <<proxy, ctxDone, elapsed, resp, rpcErr>>

Failed ==
    /\ proxy = "failed"
    /\ UNCHANGED vars

Next ==
    \/ NewGRPCCacheEmptyProxy \/ ProxyCacheEmpty \/ CancelCtx \/ Tick
    \/ NotifyCacheEmpty \/ RPCDeadline \/ RPCCanceled \/ Return \/ Failed

(* The context deadline and cancellation are enforced by Go and grpc-go;   *)
(* the server answering is not assumed.                                    *)
Fairness ==
    /\ WF_vars(Tick) /\ WF_vars(RPCDeadline)
    /\ WF_vars(RPCCanceled) /\ WF_vars(Return)

Spec == Init /\ [][Next]_vars
FairSpec == Spec /\ Fairness

-----------------------------------------------------------------------------
(* Refinement: a server response or error status, or a broken connection, *)
(* is the backend's answer; the call's context ending is not.              *)
BackendAnswer ==
    CASE resp # None              -> resp
      [] rpcErr = "status"        -> "BadStatus"
      [] rpcErr = "unavailable"   -> "ConnFailure"
      [] OTHER                    -> "NoAnswer"

Contract == INSTANCE CacheEmptyProxyContract
                WITH phase <- IF phase = "idle" THEN "idle" ELSE "calling",
                     answer <- BackendAnswer

(* The gRPC binding keeps the CacheEmptyProxy contract: it returns a       *)
(* DeadlineExceeded error only once its WithTimeout deadline has passed,   *)
(* a Canceled error only for the caller's ctx, and otherwise the server's  *)
(* answer.                                                                 *)
ImplementsContract == Contract!Spec

(* Every ProxyCacheEmpty call returns, whether or not the server answers.  *)
CallEnds == phase # "idle" ~> phase = "idle"

=============================================================================
