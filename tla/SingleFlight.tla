----------------------------- MODULE SingleFlight -----------------------------
(***************************************************************************)
(* What CacheEmptyHandler.handle promises its callers, without locks,      *)
(* timers or proxies.  Per channel there is at most one flight: the first  *)
(* caller to arrive while none is registered owns it, later callers join   *)
(* it.  The owner's call answers once; the flight is then unregistered and *)
(* published, and the owner and every joined caller still waiting return   *)
(* its answer.  A joined caller may instead give up on its own cancelled   *)
(* ctx, or detach and make an independent call of its own.                 *)
(***************************************************************************)
EXTENDS Naturals

CONSTANTS
    Callers,        \* goroutines calling handle
    Channels,       \* channel names
    MaxCalls        \* bound: number of handle calls in a behaviour

Outcomes == {"Populated", "NotPopulated", "ErrResponse", "Empty",
             "BackendErr", "DeadlineErr", "CanceledErr"}
NoResult == "NoResult"
NoFlight == 0
NoChannel == "none"
Flights == 1..MaxCalls

VARIABLES
    registered, \* channel -> its current flight
    answer,     \* flight -> the owner's answer, once it has one
    published,  \* flight -> its answer has been published
    role,       \* caller -> "idle", "owner", "joined" or "alone"
    member,     \* caller -> the flight it owns or joined
    chan,       \* caller -> the channel of its handle call
    calls,      \* number of the next handle call
    ctxDone,    \* caller -> its ctx is cancelled
    ret         \* caller -> value its last handle call returned

vars == <<registered, answer, published, role, member, chan, calls, ctxDone, ret>>

TypeOK ==
    /\ registered \in [Channels -> Flights \cup {NoFlight}]
    /\ answer \in [Flights -> Outcomes \cup {NoResult}]
    /\ published \in [Flights -> BOOLEAN]
    /\ role \in [Callers -> {"idle", "owner", "joined", "alone"}]
    /\ member \in [Callers -> Flights \cup {NoFlight}]
    /\ chan \in [Callers -> Channels \cup {NoChannel}]
    /\ calls \in 1..MaxCalls + 1
    /\ ctxDone \in [Callers -> BOOLEAN]
    /\ ret \in [Callers -> Outcomes \cup {NoResult}]

(* An answer of a call made with ctx: a cancellation only if ctx is done.  *)
AnswerFor(c) == IF ctxDone[c] THEN Outcomes ELSE Outcomes \ {"CanceledErr"}

Init ==
    /\ registered = [ch \in Channels |-> NoFlight]
    /\ answer = [f \in Flights |-> NoResult]
    /\ published = [f \in Flights |-> FALSE]
    /\ role = [c \in Callers |-> "idle"]
    /\ member = [c \in Callers |-> NoFlight]
    /\ chan = [c \in Callers |-> NoChannel]
    /\ calls = 1
    /\ ctxDone = [c \in Callers |-> FALSE]
    /\ ret = [c \in Callers |-> NoResult]

(* A handle call starts: it owns a new flight if none is registered for    *)
(* its channel, and joins the registered one otherwise.                    *)
Start(c, ch) ==
    /\ role[c] = "idle"
    /\ calls <= MaxCalls
    /\ IF registered[ch] = NoFlight
         THEN /\ registered' = [registered EXCEPT ![ch] = calls]
              /\ member' = [member EXCEPT ![c] = calls]
              /\ role' = [role EXCEPT ![c] = "owner"]
         ELSE /\ member' = [member EXCEPT ![c] = registered[ch]]
              /\ role' = [role EXCEPT ![c] = "joined"]
              /\ UNCHANGED registered
    /\ chan' = [chan EXCEPT ![c] = ch]
    /\ calls' = calls + 1
    /\ ctxDone' = [ctxDone EXCEPT ![c] = FALSE]
    /\ ret' = [ret EXCEPT ![c] = NoResult]
    /\ UNCHANGED <<answer, published>>

(* The owner's call answers, once.                                         *)
Answer(c) ==
    /\ role[c] = "owner"
    /\ answer[member[c]] = NoResult
    /\ \E o \in AnswerFor(c) : answer' = [answer EXCEPT ![member[c]] = o]
    /\ UNCHANGED <<registered, published, role, member, chan, calls, ctxDone, ret>>

(* The answered flight is unregistered: later callers start a new one.     *)
Unregister(c) ==
    /\ role[c] = "owner"
    /\ answer[member[c]] # NoResult
    /\ registered[chan[c]] = member[c]
    /\ registered' = [registered EXCEPT ![chan[c]] = NoFlight]
    /\ UNCHANGED <<answer, published, role, member, chan, calls, ctxDone, ret>>

(* The unregistered flight is published and its owner returns the answer.  *)
Publish(c) ==
    /\ role[c] = "owner"
    /\ answer[member[c]] # NoResult
    /\ registered[chan[c]] # member[c]
    /\ ~published[member[c]]
    /\ published' = [published EXCEPT ![member[c]] = TRUE]
    /\ ret' = [ret EXCEPT ![c] = answer[member[c]]]
    /\ role' = [role EXCEPT ![c] = "idle"]
    /\ member' = [member EXCEPT ![c] = NoFlight]
    /\ chan' = [chan EXCEPT ![c] = NoChannel]
    /\ UNCHANGED <<registered, answer, calls, ctxDone>>

(* A joined caller returns the published answer of its flight.             *)
Share(c) ==
    /\ role[c] = "joined"
    /\ published[member[c]]
    /\ ret' = [ret EXCEPT ![c] = answer[member[c]]]
    /\ role' = [role EXCEPT ![c] = "idle"]
    /\ member' = [member EXCEPT ![c] = NoFlight]
    /\ chan' = [chan EXCEPT ![c] = NoChannel]
    /\ UNCHANGED <<registered, answer, published, calls, ctxDone>>

(* A joined caller whose own ctx is cancelled returns the cancellation.    *)
GiveUp(c) ==
    /\ role[c] = "joined"
    /\ ctxDone[c]
    /\ ret' = [ret EXCEPT ![c] = "CanceledErr"]
    /\ role' = [role EXCEPT ![c] = "idle"]
    /\ member' = [member EXCEPT ![c] = NoFlight]
    /\ chan' = [chan EXCEPT ![c] = NoChannel]
    /\ UNCHANGED <<registered, answer, published, calls, ctxDone>>

(* A joined caller stops waiting and makes a call of its own.              *)
Detach(c) ==
    /\ role[c] = "joined"
    /\ role' = [role EXCEPT ![c] = "alone"]
    /\ member' = [member EXCEPT ![c] = NoFlight]
    /\ UNCHANGED <<registered, answer, published, chan, calls, ctxDone, ret>>

(* The independent call answers and its caller returns the answer.         *)
AloneReturn(c) ==
    /\ role[c] = "alone"
    /\ \E o \in AnswerFor(c) : ret' = [ret EXCEPT ![c] = o]
    /\ role' = [role EXCEPT ![c] = "idle"]
    /\ chan' = [chan EXCEPT ![c] = NoChannel]
    /\ UNCHANGED <<registered, answer, published, member, calls, ctxDone>>

Cancel(c) ==
    /\ role[c] # "idle"
    /\ ~ctxDone[c]
    /\ ctxDone' = [ctxDone EXCEPT ![c] = TRUE]
    /\ UNCHANGED <<registered, answer, published, role, member, chan, calls, ret>>

(* All handle calls of the behaviour have returned.                        *)
Done ==
    /\ calls > MaxCalls
    /\ \A c \in Callers : role[c] = "idle"
    /\ UNCHANGED vars

Next ==
    \/ \E c \in Callers, ch \in Channels : Start(c, ch)
    \/ \E c \in Callers :
          \/ Answer(c) \/ Unregister(c) \/ Publish(c)
          \/ Share(c) \/ GiveUp(c) \/ Detach(c) \/ AloneReturn(c) \/ Cancel(c)
    \/ Done

Spec == Init /\ [][Next]_vars

=============================================================================
