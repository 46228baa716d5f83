----------------------- MODULE CacheEmptyProxyContract -----------------------
(***************************************************************************)
(* What a CacheEmptyProxy promises to handleCacheEmpty for one              *)
(* ProxyCacheEmpty call (internal/proxy, the CacheEmptyProxy interface):   *)
(* the call ends by its deadline or by the caller's ctx, a cancellation or *)
(* deadline error is returned only for that cause, and a backend answer is *)
(* turned into a response or an error according to what was answered.     *)
(* The proxy serves one call after another; calls share no state.         *)
(***************************************************************************)
EXTENDS Naturals

CONSTANTS
    Timeout     \* the call's deadline, in ticks

(* What the backend can do with the request: answer with a body that says *)
(* populated or not, with a body that cannot be decoded, with an error     *)
(* status, or fail at the connection level.                                 *)
Answers == {"Populated", "NotPopulated", "Malformed", "BadStatus", "ConnFailure"}
NoAnswer == "NoAnswer"

Results == {"Populated", "NotPopulated", "ErrResponse", "BackendErr",
            "DeadlineErr", "CanceledErr"}
NoResult == "NoResult"

(* The values a call may return for a backend answer: an error status may  *)
(* be turned into a response carrying an error (the HTTP status transform) *)
(* or returned as an error; anything undecodable is an error.              *)
Allowed(a) ==
    CASE a \in {"Populated", "NotPopulated"} -> {a}
      [] a = "BadStatus"                     -> {"BackendErr", "ErrResponse"}
      [] OTHER                               -> {"BackendErr"}

VARIABLES
    phase,      \* "idle" or "calling"
    ctxDone,    \* the caller's ctx is cancelled
    elapsed,    \* ticks since the call started
    answer,     \* the backend's answer, once it has arrived
    result      \* value the last call returned

vars == <<phase, ctxDone, elapsed, answer, result>>

TypeOK ==
    /\ phase \in {"idle", "calling"}
    /\ ctxDone \in BOOLEAN
    /\ elapsed \in 0..Timeout
    /\ answer \in Answers \cup {NoAnswer}
    /\ result \in Results \cup {NoResult}

Init ==
    /\ phase = "idle"
    /\ ctxDone = FALSE
    /\ elapsed = 0
    /\ answer = NoAnswer
    /\ result = NoResult

Start ==
    /\ phase = "idle"
    /\ phase' = "calling"
    /\ ctxDone' = FALSE
    /\ elapsed' = 0
    /\ answer' = NoAnswer
    /\ UNCHANGED result

CancelCtx ==
    /\ phase = "calling"
    /\ ~ctxDone
    /\ ctxDone' = TRUE
    /\ UNCHANGED <<phase, elapsed, answer, result>>

Tick ==
    /\ phase = "calling"
    /\ answer = NoAnswer
    /\ elapsed < Timeout
    /\ elapsed' = elapsed + 1
    /\ UNCHANGED <<phase, ctxDone, answer, result>>

BackendAnswers(a) ==
    /\ phase = "calling"
    /\ answer = NoAnswer
    /\ elapsed < Timeout
    /\ answer' = a
    /\ UNCHANGED <<phase, ctxDone, elapsed, result>>

(* The call returns: with what the backend answered, or without an answer *)
(* only because the ctx was cancelled or the deadline has passed.          *)
Return(r) ==
    /\ phase = "calling"
    /\ \/ answer # NoAnswer /\ r \in Allowed(answer)
       \/ answer = NoAnswer /\ ctxDone /\ r = "CanceledErr"
       \/ answer = NoAnswer /\ elapsed = Timeout /\ r = "DeadlineErr"
    /\ phase' = "idle"
    /\ result' = r
    /\ UNCHANGED <<ctxDone, elapsed, answer>>

Next ==
    \/ Start \/ CancelCtx \/ Tick
    \/ \E a \in Answers : BackendAnswers(a)
    \/ \E r \in Results : Return(r)

Spec == Init /\ [][Next]_vars

=============================================================================
