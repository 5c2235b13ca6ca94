----------------------------- MODULE RemoteCall -----------------------------
(***************************************************************************)
(* What Backend.call (gateway/upstream.py) promises to those who await it, *)
(* whatever becomes of the session it shares: a call makes one attempt,    *)
(* and a second one if the first fails; it is answered by the attempt that *)
(* is under way, once the backend has executed that attempt's request, or  *)
(* given up after the second.  A request may be executed even when its     *)
(* attempt, or the call, is over.                                          *)
(***************************************************************************)
EXTENDS Naturals

CONSTANTS
    Callers,     \* those who call, one call after the other
    Cancellable  \* those of them whose client may cancel the call

VARIABLES
    attempt,  \* attempt[c]: 1 and 2, 3 when both have failed, 0 without a call
    asked,    \* the callers whose attempt awaits the answer to its request
    request,  \* request[c][n]: what became of the request of attempt n
    result    \* result[c]: how c's last call ended

vars == <<attempt, asked, request, result>>

Init ==
    /\ attempt = [c \in Callers |-> 0] /\ asked = {}
    /\ request = [c \in Callers |-> [n \in 1 .. 2 |-> "none"]]
    /\ result = [c \in Callers |-> "none"]

\* call() is entered; what an earlier call of c has left under way is forgotten.
Call(c) ==
    /\ attempt[c] = 0 /\ attempt' = [attempt EXCEPT ![c] = 1]
    /\ request' = [request EXCEPT ![c] = [n \in 1 .. 2 |-> "none"]]
    /\ result' = [result EXCEPT ![c] = "none"]
    /\ UNCHANGED asked

\* The request of the attempt under way reaches the backend, or nobody.
Sent(c) == request' \in {request, [request EXCEPT ![c][attempt[c]] = "sent"]}

\* The attempt has a session, sends its request and awaits the answer.
Ask(c) ==
    /\ attempt[c] \in 1 .. 2 /\ c \notin asked
    /\ Sent(c) /\ asked' = asked \cup {c}
    /\ UNCHANGED <<attempt, result>>

\* An exception ends the attempt: connecting, while its request is started, or
\* while it awaits the answer.
Fail(c) ==
    /\ attempt[c] \in 1 .. 2 /\ attempt' = [attempt EXCEPT ![c] = @ + 1]
    /\ IF c \in asked THEN UNCHANGED request ELSE Sent(c)
    /\ asked' = asked \ {c} /\ UNCHANGED result

Over(c, r) ==
    /\ attempt' = [attempt EXCEPT ![c] = 0] /\ asked' = asked \ {c}
    /\ result' = [result EXCEPT ![c] = r] /\ UNCHANGED request

\* The backend's answer, be it an error of the tool.
Answer(c) == c \in asked /\ request[c][attempt[c]] = "run" /\ Over(c, "ok")

\* BACKEND_UNAVAILABLE: the reconnect or the second attempt has failed.
GiveUp(c) == c \notin asked /\ attempt[c] \in 2 .. 3 /\ Over(c, "unavail")

\* The client cancels, wherever the call is; its requests stay under way.
Cancel(c) == attempt[c] # 0 /\ Over(c, "cancelled")

Execute(c, n) ==
    /\ request[c][n] = "sent" /\ request' = [request EXCEPT ![c][n] = "run"]
    /\ UNCHANGED <<attempt, asked, result>>

\* The backend's process dies, and with it the requests it has not executed.
Crash ==
    /\ request' = [c \in Callers |-> [n \in 1 .. 2 |->
                     IF request[c][n] = "sent" THEN "none" ELSE request[c][n]]]
    /\ UNCHANGED <<attempt, asked, result>>

Next ==
    \/ \E c \in Callers :
          \/ Call(c) \/ Ask(c) \/ Fail(c) \/ Answer(c) \/ GiveUp(c)
          \/ \E n \in 1 .. 2 : Execute(c, n)
    \/ \E c \in Cancellable : Cancel(c)
    \/ Crash

Spec == Init /\ [][Next]_vars

-----------------------------------------------------------------------------
\* What those who await a call may conclude from its answer: the backend has
\* executed the call.  From BACKEND_UNAVAILABLE they may conclude nothing.
AnsweredIsExecuted ==
    \A c \in Callers : result[c] = "ok" => \E n \in 1 .. 2 : request[c][n] = "run"

=============================================================================
