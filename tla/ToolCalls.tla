----------------------------- MODULE ToolCalls -----------------------------
(***************************************************************************)
(* The path of a tools/call through the gateway (call_tool in              *)
(* gateway/app.py, route_call in gateway/routes.py), the tools/list        *)
(* aggregation beside it (gateway/aggregate.py) and the start-up that      *)
(* warms the backends (lifespan in app.py).                                *)
(*                                                                         *)
(* A call runs without interruption from one await to the next, so it has  *)
(* at most three segments: from its arrival to a lazy ensure_session, from *)
(* there to backend.call, and from its result to the response.  The rate   *)
(* limiter and the circuit breaker are instances of their own modules, the *)
(* former by its abstract specification; both are switched on.  Policy is  *)
(* the relation Permits; what backend.call can return is stated here and   *)
(* worked out in Upstream.                                                 *)
(***************************************************************************)
EXTENDS Integers, FiniteSets

CONSTANTS
    N,            \* backends 1 .. N, in the order of BACKEND_SPECS
    Tools,        \* tool names, the part after the prefix
    Real,         \* Real[s]: the tools backend s has
    Agents,       \* the agent ids a JWT can carry
    Anonymous,    \* the label of a call whose JWT is refused
    Permits,      \* <<agent, server, tool>> the policy allows
    Requests,     \* <<agent, server, tool>> the clients ask for
    Calls,        \* slots for calls under way at the same time
    Cancellable,  \* the calls whose client may cancel them
    Threshold, Cooldown,           \* the breaker, see CircuitBreaker
    Capacity, Unit, Refill         \* the limiter, see TokenBucket

Servers == 1 .. N
Unknown == 0   \* no prefix, or a prefix no backend has

ASSUME ToolCallsAssumption ==
    /\ N \in Nat \ {0} /\ Anonymous \notin Agents
    /\ Real \in [Servers -> SUBSET Tools]
    /\ Permits \subseteq Agents \X Servers \X Tools
    /\ Requests \subseteq Agents \X (Servers \cup {Unknown}) \X Tools
    /\ Cancellable \subseteq Calls
    /\ Threshold \in Nat \ {0} /\ Cooldown \in Nat
    /\ Capacity \in Nat /\ Unit \in Nat \ {0} /\ Refill \in Nat

VARIABLES
    boot,     \* the backend the start-up warms next; N + 1 once it is over
    known,    \* backends whose Backend.tools is not None
    pc,       \* pc[c]: what call c waits for, or how it ended
    call,     \* call[c]: <<agent, server, tool>> of c's request
    result,   \* result[c]: the code of the CallToolResult returned
    metric,   \* metric[c]: the decision counted by record_call
    audit,    \* audit[c]: the decision in c's audit line, or "lost"
    ran,      \* history: a backend executed c
    walk,     \* walk[a]: the backend a's tools/list waits for, or Unknown
    listing,  \* listing[a]: the backends that list has collected so far
    seen,     \* seen[a]: the backends in the last tools/list answered to a
    level, turn,                   \* the limiter: tokens and last answers
    failures, openFor, probing,    \* the breaker
    at, server, probe, age         \* the breaker's view of the calls

brVars   == <<failures, openFor, probing, at, server, probe, age>>
limVars  == <<level, turn>>
listVars == <<walk, listing, seen>>
bookVars == <<result, metric, audit>>
vars == <<boot, known, pc, call, bookVars, ran, listVars, limVars, brVars>>

Breaker == INSTANCE CircuitBreaker
Limiter == INSTANCE TokenBucket WITH answer <- turn

Codes == {"none", "cancelled", "ok", "tool_error", "AUTH_FAILED",
          "RATE_LIMITED", "UNKNOWN_TOOL", "POLICY_DENIED",
          "BACKEND_UNAVAILABLE"}
Decisions == {"none", "allowed", "denied", "auth_failed", "rate_limited",
              "error"}

\* What is asked for by a call that is not authenticated is never looked at.
\* The endpoint lets it through all the same, unlike any other such request,
\* so that it is counted and audited.
NoCall == <<Anonymous, Unknown, CHOOSE t \in Tools : TRUE>>

TypeOK ==
    /\ boot \in 1 .. N + 1 /\ known \subseteq Servers
    /\ pc \in [Calls -> {"idle", "ensure", "relay", "done", "abandoned"}]
    /\ call \in [Calls -> Requests \cup {NoCall}] /\ result \in [Calls -> Codes]
    /\ metric \in [Calls -> Decisions]
    /\ audit \in [Calls -> Decisions \cup {"lost"}]
    /\ ran \in [Calls -> BOOLEAN]
    /\ walk \in [Agents -> Servers \cup {Unknown}]
    /\ listing \in [Agents -> SUBSET Servers]
    /\ seen \in [Agents -> SUBSET Servers]
    /\ level \in [Agents -> 0 .. Capacity * Unit]
    /\ turn \in [Agents -> {"none", "granted", "refused"}]
    /\ Breaker!TypeOK

\* build_app: nothing is connected, counted, limited or open.
Init ==
    /\ boot = 1 /\ known = {}
    /\ pc = [c \in Calls |-> "idle"] /\ call = [c \in Calls |-> NoCall]
    /\ result = [c \in Calls |-> "none"] /\ metric = [c \in Calls |-> "none"]
    /\ audit = [c \in Calls |-> "none"] /\ ran = [c \in Calls |-> FALSE]
    /\ walk = [a \in Agents |-> Unknown] /\ listing = [a \in Agents |-> {}]
    /\ seen = [a \in Agents |-> {}]
    /\ Limiter!Init /\ Breaker!Init /\ server = [c \in Calls |-> 1]

-----------------------------------------------------------------------------
\* The start-up tries every backend once, in order; requests come after it.
Warm(ok) ==
    /\ boot <= N /\ boot' = boot + 1
    /\ known' = IF ok THEN known \cup {boot} ELSE known
    /\ UNCHANGED <<pc, call, bookVars, ran, listVars, limVars, brVars>>

Serving == boot > N

\* record_call counts the decision.
RecordCall(c, decision) == metric' = [metric EXCEPT ![c] = decision]

\* The tail of call_tool: the decision is counted, then written to the audit
\* log, which may fail without a word to the client.
Finish(c, code, decision) ==
    /\ pc' = [pc EXCEPT ![c] = "done"]
    /\ result' = [result EXCEPT ![c] = code]
    /\ RecordCall(c, decision)
    /\ \E line \in {decision, "lost"} : audit' = [audit EXCEPT ![c] = line]

\* route_call from the check of the tool on, once tools is not None: unknown,
\* denied, refused by the breaker, or relayed.
Dispatch(c, a, s, t) ==
    \/ /\ t \notin Real[s]
       /\ Finish(c, "UNKNOWN_TOOL", "error") /\ UNCHANGED brVars
    \/ /\ t \in Real[s] /\ <<a, s, t>> \notin Permits
       /\ Finish(c, "POLICY_DENIED", "denied") /\ UNCHANGED brVars
    \/ /\ t \in Real[s] /\ <<a, s, t>> \in Permits
       /\ Breaker!Refuse(c, s) /\ Finish(c, "BACKEND_UNAVAILABLE", "error")
    \/ /\ t \in Real[s] /\ <<a, s, t>> \in Permits
       /\ pc' = [pc EXCEPT ![c] = "relay"] /\ Breaker!Admit(c, s)
       /\ UNCHANGED bookVars

\* Mutant: no lazy aggregation, an unknown tool list is an empty one.
RouteEagerly(c, a, s, t) ==
    \/ /\ s \notin known
       /\ Finish(c, "UNKNOWN_TOOL", "error") /\ UNCHANGED brVars
    \/ s \in known /\ Dispatch(c, a, s, t)

\* route_call after the limiter: the name is resolved, and a backend whose
\* tools are None is connected to first.
Route(c, a, s, t) ==
    \/ /\ s = Unknown
       /\ Finish(c, "UNKNOWN_TOOL", "error") /\ UNCHANGED brVars
    \/ /\ s # Unknown /\ s \notin known
       /\ pc' = [pc EXCEPT ![c] = "ensure"] /\ UNCHANGED <<bookVars, brVars>>
    \/ s \in known /\ Dispatch(c, a, s, t)

\* authenticate accepts the request's JWT, which names a.
Authenticated(a) == a \in Agents

\* A tools/call arrives: authentication, then the rate limit, then its route.
Arrive(c, a, s, t) ==
    /\ Serving /\ pc[c] = "idle"
    /\ call' = [call EXCEPT ![c] = <<a, s, t>>]
    /\ \/ /\ ~Authenticated(a) /\ Finish(c, "AUTH_FAILED", "auth_failed")
          /\ UNCHANGED <<limVars, brVars>>
       \/ /\ Authenticated(a) /\ Limiter!Turn(a)
          /\ Finish(c, "RATE_LIMITED", "rate_limited") /\ UNCHANGED brVars
       \/ Authenticated(a) /\ Limiter!Take(a) /\ Route(c, a, s, t)
    /\ UNCHANGED <<boot, known, ran, listVars>>

\* Mutants: a failed lazy connect is reported to the breaker; a call that had
\* to connect first is not checked against the policy.
EnsuredReports(c, ok) ==
    LET a == call[c][1]  s == call[c][2]  t == call[c][3] IN
    /\ pc[c] = "ensure"
    /\ \/ ok /\ known' = known \cup {s} /\ Dispatch(c, a, s, t)
       \/ /\ ~ok /\ Finish(c, "BACKEND_UNAVAILABLE", "error")
          /\ Breaker!RecordFailure(s) /\ UNCHANGED <<known, at, server, probe, age>>
    /\ UNCHANGED <<boot, call, ran, listVars, limVars>>

EnsuredUnchecked(c, ok) ==
    LET s == call[c][2] IN
    /\ pc[c] = "ensure"
    /\ \/ /\ ok /\ known' = known \cup {s}
          /\ pc' = [pc EXCEPT ![c] = "relay"] /\ Breaker!Admit(c, s)
          /\ UNCHANGED bookVars
       \/ /\ ~ok /\ Finish(c, "BACKEND_UNAVAILABLE", "error")
          /\ UNCHANGED <<known, brVars>>
    /\ UNCHANGED <<boot, call, ran, listVars, limVars>>

\* The lazy ensure_session of a call returns, or raises.
Ensured(c, ok) ==
    LET a == call[c][1]  s == call[c][2]  t == call[c][3] IN
    /\ pc[c] = "ensure"
    /\ \/ ok /\ known' = known \cup {s} /\ Dispatch(c, a, s, t)
       \/ /\ ~ok /\ Finish(c, "BACKEND_UNAVAILABLE", "error")
          /\ UNCHANGED <<known, brVars>>
    /\ UNCHANGED <<boot, call, ran, listVars, limVars>>

\* The backend executes a relayed call, also one whose client is gone.
Execute(c) ==
    /\ pc[c] \in {"relay", "abandoned"} /\ ran' = [ran EXCEPT ![c] = TRUE]
    /\ UNCHANGED <<boot, known, pc, call, bookVars, listVars, limVars, brVars>>

\* Mutants: every result that was relayed counts as allowed; every error is
\* the backend's failure.
AllRelaysAllowed(code) == "allowed"
RelayByIsError(code) == IF code = "ok" THEN "allowed" ELSE "error"

\* _relay_decision.
RelayDecision(code) ==
    IF code = "BACKEND_UNAVAILABLE" THEN "error" ELSE "allowed"

\* Mutant: a backend that failed has to be aggregated anew.
ReturnedForgets(c, code) ==
    /\ pc[c] = "relay" /\ (code # "BACKEND_UNAVAILABLE" => ran[c])
    /\ IF RelayDecision(code) = "error"
       THEN Breaker!Fail(c) /\ known' = known \ {server[c]}
       ELSE Breaker!Succeed(c) /\ UNCHANGED known
    /\ Finish(c, code, RelayDecision(code))
    /\ UNCHANGED <<boot, call, ran, listVars, limVars>>

\* backend.call returns: the backend's own answer (it executed the call), or
\* BACKEND_UNAVAILABLE, which leaves open whether it did.
Returned(c, code) ==
    /\ pc[c] = "relay" /\ (code # "BACKEND_UNAVAILABLE" => ran[c])
    /\ Finish(c, code, RelayDecision(code))
    /\ IF RelayDecision(code) = "error" THEN Breaker!Fail(c)
                                        ELSE Breaker!Succeed(c)
    /\ UNCHANGED <<boot, known, call, ran, listVars, limVars>>

\* The client cancels, or its connection is torn down, at an await: the rest
\* of call_tool does not run.
Cancel(c) ==
    /\ \/ /\ pc[c] = "relay" /\ pc' = [pc EXCEPT ![c] = "abandoned"]
          /\ Breaker!Abandon(c)
       \/ /\ pc[c] = "ensure" /\ pc' = [pc EXCEPT ![c] = "done"]
          /\ UNCHANGED brVars
    /\ result' = [result EXCEPT ![c] = "cancelled"]
    /\ UNCHANGED <<boot, known, call, metric, audit, ran, listVars, limVars>>

\* The response is sent, or the cancelled request forgotten: the slot is free.
Leave(c) ==
    /\ pc[c] \in {"done", "abandoned"}
    /\ IF at[c] = "refused" THEN Breaker!Return(c) ELSE UNCHANGED brVars
    /\ pc' = [pc EXCEPT ![c] = "idle"] /\ call' = [call EXCEPT ![c] = NoCall]
    /\ result' = [result EXCEPT ![c] = "none"]
    /\ metric' = [metric EXCEPT ![c] = "none"]
    /\ audit' = [audit EXCEPT ![c] = "none"] /\ ran' = [ran EXCEPT ![c] = FALSE]
    /\ UNCHANGED <<boot, known, listVars, limVars>>

-----------------------------------------------------------------------------
\* aggregate_tools goes through the backends in order.  It skips the open
\* circuits, and waits at the first backend whose tools are None.
Stops(i) == {j \in i .. N : ~Breaker!Open(j) /\ j \notin known}

Walk(a, i, out) ==
    \/ /\ Stops(i) = {}
       /\ walk' = [walk EXCEPT ![a] = Unknown]
       /\ listing' = [listing EXCEPT ![a] = {}]
       /\ seen' = [seen EXCEPT ![a] =
                     out \cup {j \in i .. N : ~Breaker!Open(j)}]
    \/ \E k \in Stops(i) :
       /\ \A j \in Stops(i) : k <= j
       /\ walk' = [walk EXCEPT ![a] = k]
       /\ listing' = [listing EXCEPT ![a] =
                        out \cup {j \in i .. k - 1 : ~Breaker!Open(j)}]
       /\ UNCHANGED seen

List(a) ==
    /\ Serving /\ walk[a] = Unknown /\ Walk(a, 1, {})
    /\ UNCHANGED <<boot, known, pc, call, bookVars, ran, limVars, brVars>>

\* The ensure_session the list waits for returns, or raises and is skipped.
ListResumed(a, ok) ==
    /\ walk[a] # Unknown
    /\ known' = IF ok THEN known \cup {walk[a]} ELSE known
    /\ Walk(a, walk[a] + 1, IF ok THEN listing[a] \cup {walk[a]} ELSE listing[a])
    /\ UNCHANGED <<boot, pc, call, bookVars, ran, limVars, brVars>>

\* The /ready probe connects to a backend, which fills in its tools.
Probed(s) ==
    /\ Serving /\ s \notin known /\ known' = known \cup {s}
    /\ UNCHANGED <<boot, pc, call, bookVars, ran, listVars, limVars, brVars>>

\* Time passes, for the breaker and for the buckets.
Tick ==
    /\ Breaker!Tick /\ Limiter!Drip
    /\ UNCHANGED <<boot, known, pc, call, bookVars, ran, listVars>>

-----------------------------------------------------------------------------
Relayed == {"ok", "tool_error", "BACKEND_UNAVAILABLE"}

Progress(c) ==
    \/ \E ok \in BOOLEAN : Ensured(c, ok)
    \/ \E code \in Relayed : Returned(c, code)
    \/ Leave(c)

Next ==
    \/ \E ok \in BOOLEAN : Warm(ok)
    \/ \E c \in Calls :
          \/ \E r \in Requests \cup {NoCall} : Arrive(c, r[1], r[2], r[3])
          \/ Execute(c) \/ Progress(c)
    \/ \E c \in Cancellable : Cancel(c)
    \/ \E a \in Agents : List(a) \/ \E ok \in BOOLEAN : ListResumed(a, ok)
    \/ \E s \in Servers : Probed(s)
    \/ Tick

Spec == Init /\ [][Next]_vars

\* Awaited calls and lists return, responses are sent and time passes.
\* Requests, executions and cancellations owe nothing.
FairSpec ==
    /\ Spec /\ WF_vars(Tick) /\ WF_vars(\E ok \in BOOLEAN : Warm(ok))
    /\ \A c \in Calls : WF_vars(Progress(c))
    /\ \A a \in Agents : WF_vars(\E ok \in BOOLEAN : ListResumed(a, ok))

-----------------------------------------------------------------------------
\* Properties.

\* No way around the gate: whatever a backend executed - after a lazy connect,
\* a retry of the breaker or a cancellation - the policy allows to its agent.
OnlyPermittedRuns ==
    \A c \in Calls : ran[c] => call[c] \in Permits

\* The books tell what happened: a call counted as allowed was executed, one
\* turned away was not, and an executed call is missing from the metrics only
\* if it is still under way or was cancelled.
BooksAreTrue ==
    \A c \in Calls :
        /\ metric[c] = "allowed" => ran[c]
        /\ metric[c] \in {"denied", "auth_failed", "rate_limited"} => ~ran[c]
        /\ ran[c] /\ metric[c] = "none" => pc[c] \in {"relay", "abandoned"}
        /\ audit[c] \in {metric[c], "lost"}

\* UNKNOWN_TOOL is said only of tools that do not exist: never because a
\* backend was not aggregated yet.
UnknownIsUnknown ==
    \A c \in Calls : result[c] = "UNKNOWN_TOOL" =>
        call[c][2] = Unknown \/ call[c][3] \notin Real[call[c][2]]

\* An open circuit fails fast: no call begins to wait for a connection to a
\* backend whose circuit is open (the breaker is asked only after the lazy
\* aggregation, routes.py:71-94).
FailFast ==
    [][\A c \in Calls : pc[c] # "ensure" /\ pc'[c] = "ensure"
         => ~Breaker!Open(call'[c][2])]_vars

\* The calls use the breaker as its own specification says: one result at most
\* for every admission, and none without.
BreakerUse == Breaker!Spec

GivenUp == \E c \in Calls : Returned(c, "BACKEND_UNAVAILABLE")

\* The breaker is asked for server s.
Asked(s) ==
    \E c \in Calls : at[c] = "idle" /\ at'[c] # "idle" /\ server'[c] = s

\* An agent that keeps listing is shown every backend again once its calls
\* have stopped failing, provided that no cancelled probe has blocked its
\* circuit and that somebody keeps calling it: tools/list hides the tools of an
\* open circuit (aggregate.py:65), and only a call can close it.
ListedIfAsked ==
    \A a \in Agents, s \in Servers :
        /\ [](~Breaker!Leaked(s)) /\ <>[][~GivenUp]_vars
        /\ []<><<List(a)>>_vars /\ []<><<Asked(s)>>_vars
        => []<>(s \in seen[a])

=============================================================================
