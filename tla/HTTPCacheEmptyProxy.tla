------------------------- MODULE HTTPCacheEmptyProxy -------------------------
(***************************************************************************)
(* The HTTP binding of CacheEmptyProxy                                      *)
(* (src/internal/proxy/cache_empty_http.go): NewHTTPCacheEmptyProxy and    *)
(* ProxyCacheEmpty step by step (encode, CallHTTP under the client timeout  *)
(* and the caller's ctx, status transform on error, decode on success).    *)
(* The helpers it calls (proxyHTTPClient, CallHTTP,                         *)
(* transformCacheEmptyResponse, the JSON decoder) are not in this           *)
(* repository and are modelled from the specification's description.       *)
(* It is shown to implement CacheEmptyProxyContract.                       *)
(***************************************************************************)
EXTENDS Naturals

CONSTANTS
    Timeout,                \* Config.Timeout, the HTTP client timeout, in ticks
    StatusCodes,            \* non-2xx statuses the backend can answer with
    StatusToCodeTransforms, \* Config.HTTP.StatusToCodeTransforms: statuses it maps
    BinaryEncoding,         \* Config.BinaryEncoding
    IncludeConnectionMeta   \* Config.IncludeConnectionMeta

ASSUME /\ Timeout \in Nat \ {0}
       /\ StatusToCodeTransforms \subseteq StatusCodes
       /\ BinaryEncoding \in BOOLEAN /\ IncludeConnectionMeta \in BOOLEAN

(* Bodies a 2xx answer can carry, by what decoding them gives.              *)
Bodies == {"Populated", "NotPopulated", "Malformed"}
NoResp == "NoResp"

(* The error CallHTTP returns: a non-2xx status, a connection failure, the *)
(* client timeout, or the ctx cancellation.                                *)
CallErrors == [kind : {"status"}, code : StatusCodes]
                \cup [kind : {"conn", "deadline", "canceled"}, code : {"none"}]
NoErr == [kind |-> "none", code |-> "none"]

Results == {"Populated", "NotPopulated", "ErrResponse", "BackendErr",
            "DeadlineErr", "CanceledErr"}
NoResult == "NoResult"

VARIABLES
    proxy,      \* "none" before NewHTTPCacheEmptyProxy, then "ready" or "failed"
    phase,      \* "idle", "inflight" (CallHTTP running), "returned" (it returned)
    ctxDone,    \* the caller's ctx is cancelled
    elapsed,    \* ticks since CallHTTP was issued
    respData,   \* body CallHTTP returned
    callErr,    \* error CallHTTP returned
    result      \* value the last ProxyCacheEmpty call returned

vars == <<proxy, phase, ctxDone, elapsed, respData, callErr, result>>

TypeOK ==
    /\ proxy \in {"none", "ready", "failed"}
    /\ phase \in {"idle", "inflight", "returned"}
    /\ ctxDone \in BOOLEAN
    /\ elapsed \in 0..Timeout
    /\ respData \in Bodies \cup {NoResp}
    /\ callErr \in CallErrors \cup {NoErr}
    /\ result \in Results \cup {NoResult}

(* Protocol, UseBase64 and IncludeMeta: fixed by the binding and config.  *)
Protocol == "http"
UseBase64 == BinaryEncoding
IncludeMeta == IncludeConnectionMeta

(* transformCacheEmptyResponse: a status with a configured transform       *)
(* becomes a response carrying the mapped error; any other error is        *)
(* returned as it is.                                                      *)
transformCacheEmptyResponse(err) ==
    IF err.kind = "status" /\ err.code \in StatusToCodeTransforms
      THEN "ErrResponse"
      ELSE CASE err.kind = "deadline" -> "DeadlineErr"
             [] err.kind = "canceled" -> "CanceledErr"
             [] OTHER                 -> "BackendErr"

(* httpDecoder.DecodeNotifyCacheEmptyResponse of a body.                   *)
DecodeNotifyCacheEmptyResponse(body) ==
    IF body \in {"Populated", "NotPopulated"} THEN body ELSE "BackendErr"

Init ==
    /\ proxy = "none"
    /\ phase = "idle"
    /\ ctxDone = FALSE
    /\ elapsed = 0
    /\ respData = NoResp
    /\ callErr = NoErr
    /\ result = NoResult

(* NewHTTPCacheEmptyProxy: proxyHTTPClient may fail, then no proxy exists. *)
NewHTTPCacheEmptyProxy ==
    /\ proxy = "none"
    /\ proxy' \in {"ready", "failed"}
    /\ UNCHANGED <<phase, ctxDone, elapsed, respData, callErr, result>>

(* ProxyCacheEmpty up to CallHTTP: the request is encoded (a JSON object   *)
(* with one string field, which cannot fail) and the POST is issued.       *)
ProxyCacheEmpty ==
    /\ proxy = "ready"
    /\ phase = "idle"
    /\ phase' = "inflight"
    /\ ctxDone' = FALSE
    /\ elapsed' = 0
    /\ respData' = NoResp
    /\ callErr' = NoErr
    /\ UNCHANGED <<proxy, result>>

(* The caller cancels its ctx while the call runs.                         *)
CancelCtx ==
    /\ phase # "idle"
    /\ ~ctxDone
    /\ ctxDone' = TRUE
    /\ UNCHANGED <<proxy, phase, elapsed, respData, callErr, result>>

(* Mutant: the elapsed-time bound is dropped.                              *)
TickUnbounded ==
    /\ phase = "inflight"
    /\ elapsed' = elapsed + 1
    /\ UNCHANGED <<proxy, phase, ctxDone, respData, callErr, result>>

Tick ==
    /\ phase = "inflight"
    /\ elapsed < Timeout
    /\ elapsed' = elapsed + 1
    /\ UNCHANGED <<proxy, phase, ctxDone, respData, callErr, result>>

(* CallHTTP returns what the backend sent: a 2xx body, a non-2xx status    *)
(* error, or a connection error.                                           *)
CallHTTP ==
    /\ phase = "inflight"
    /\ elapsed < Timeout
    /\ \/ \E body \in Bodies : respData' = body /\ callErr' = NoErr
       \/ \E err \in CallErrors :
             /\ err.kind \in {"status", "conn"}
             /\ callErr' = err /\ respData' = NoResp
    /\ phase' = "returned"
    /\ UNCHANGED <<proxy, ctxDone, elapsed, result>>

(* Mutant: the client is built without a timeout.                          *)
ClientTimeoutUnset == FALSE

(* CallHTTP returns the client timeout error once Timeout has elapsed.     *)
ClientTimeout ==
    /\ phase = "inflight"
    /\ elapsed = Timeout
    /\ callErr' = [kind |-> "deadline", code |-> "none"]
    /\ phase' = "returned"
    /\ UNCHANGED <<proxy, ctxDone, elapsed, respData, result>>

(* CallHTTP returns ctx.Err() once the caller's ctx is cancelled.          *)
CallCanceled ==
    /\ phase = "inflight"
    /\ ctxDone
    /\ callErr' = [kind |-> "canceled", code |-> "none"]
    /\ phase' = "returned"
    /\ UNCHANGED <<proxy, ctxDone, elapsed, respData, result>>

(* Mutant: the error of CallHTTP is not checked, the nil body is decoded.  *)
ReturnNoErrCheck ==
    /\ phase = "returned"
    /\ result' = DecodeNotifyCacheEmptyResponse(respData)
    /\ phase' = "idle"
    /\ UNCHANGED <<proxy, ctxDone, elapsed, respData, callErr>>

(* The rest of ProxyCacheEmpty: an error goes through the transform, a     *)
(* body is decoded.                                                        *)
Return ==
    /\ phase = "returned"
    /\ result' = IF callErr # NoErr THEN transformCacheEmptyResponse(callErr)
                                    ELSE DecodeNotifyCacheEmptyResponse(respData)
    /\ phase' = "idle"
    /\ UNCHANGED <<proxy, ctxDone, elapsed, respData, callErr>>

(* The proxy could not be built: nothing more happens.                     *)
Failed ==
    /\ proxy = "failed"
    /\ UNCHANGED vars

Next ==
    \/ NewHTTPCacheEmptyProxy \/ ProxyCacheEmpty \/ CancelCtx \/ Tick
    \/ CallHTTP \/ ClientTimeout \/ CallCanceled \/ Return \/ Failed

(* The client timeout, the ctx and the rest of ProxyCacheEmpty are the     *)
(* binding's and Go's to guarantee; the backend answering is not.          *)
Fairness ==
    /\ WF_vars(Tick) /\ WF_vars(ClientTimeout)
    /\ WF_vars(CallCanceled) /\ WF_vars(Return)

Spec == Init /\ [][Next]_vars
FairSpec == Spec /\ Fairness

-----------------------------------------------------------------------------
(* Refinement: the backend's answer is what CallHTTP returned, unless that *)
(* was the timeout or the cancellation, which are not answers.             *)
BackendAnswer ==
    CASE respData # NoResp          -> respData
      [] callErr.kind = "status"    -> "BadStatus"
      [] callErr.kind = "conn"      -> "ConnFailure"
      [] OTHER                      -> "NoAnswer"

Contract == INSTANCE CacheEmptyProxyContract
                WITH phase <- IF phase = "idle" THEN "idle" ELSE "calling",
                     answer <- BackendAnswer

(* The HTTP binding keeps the CacheEmptyProxy contract: every value it     *)
(* returns is allowed for what the backend answered, and a cancellation or *)
(* deadline error is returned only when that is why the call ended.        *)
ImplementsContract == Contract!Spec

(* Every ProxyCacheEmpty call returns, whether or not the backend answers. *)
CallEnds == phase # "idle" ~> phase = "idle"

=============================================================================
