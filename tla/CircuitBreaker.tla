--------------------------- MODULE CircuitBreaker ---------------------------
(***************************************************************************)
(* The circuit breaker of the gateway (gateway/circuit.py) and the calls   *)
(* that go through it (route_call in gateway/routes.py): allow() is asked  *)
(* before the backend is awaited, and the result is recorded after, so     *)
(* that any number of calls can be under way between the two.              *)
(*                                                                         *)
(* Quantities are kept only as far as they are compared, which is exact: a *)
(* failure count up to Threshold (`>= self.threshold`), the time since a   *)
(* circuit opened (`< self.cooldown_s`) and the age of a call up to        *)
(* Cooldown.  A call may last as long as it likes: a read may take ten     *)
(* times the default cooldown.                                             *)
(***************************************************************************)
EXTENDS Integers, FiniteSets

CONSTANTS
    Servers,     \* the backends
    Calls,       \* slots for calls under way at the same time
    Threshold,   \* consecutive failures that open a circuit
    Cooldown,    \* ticks for which an open circuit refuses every call
    Cancellable  \* the calls whose client may cancel them

Closed == -1     \* no entry in _opened_at

\* A threshold of 0 or less opens at the first failure, like a threshold of 1.
ASSUME CircuitAssumption ==
    /\ Threshold \in Nat \ {0} /\ Cooldown \in Nat
    /\ Cancellable \subseteq Calls

VARIABLES
    failures,  \* _failures: consecutive failures per server
    openFor,   \* ticks since _opened_at, or Closed
    probing,   \* _probing: servers with a half-open probe under way
    at,        \* at[c]: "idle", "flying" (awaiting the backend) or "refused"
    server,    \* server[c]: the backend call c is for
    probe,     \* history: c was admitted as the half-open probe
    age        \* history: ticks since c was admitted, up to Cooldown

brVars   == <<failures, openFor, probing>>
callVars == <<at, server, probe, age>>
vars     == <<failures, openFor, probing, at, server, probe, age>>

TypeOK ==
    /\ failures \in [Servers -> 0 .. Threshold]
    /\ openFor \in [Servers -> 0 .. Cooldown \cup {Closed}]
    /\ probing \subseteq Servers
    /\ at \in [Calls -> {"idle", "flying", "refused"}]
    /\ server \in [Calls -> Servers]
    /\ probe \in [Calls -> BOOLEAN]
    /\ age \in [Calls -> 0 .. Cooldown]

\* CircuitBreaker.__init__: every circuit closed, nothing counted.
Init ==
    /\ failures = [s \in Servers |-> 0]
    /\ openFor = [s \in Servers |-> Closed] /\ probing = {}
    /\ at = [c \in Calls |-> "idle"] /\ server \in [Calls -> Servers]
    /\ probe = [c \in Calls |-> FALSE] /\ age = [c \in Calls |-> 0]

-----------------------------------------------------------------------------
Open(s) == openFor[s] # Closed          \* is_tripped
Cooled(s) == Open(s) /\ openFor[s] >= Cooldown

\* route_call asks allow(s) and gets TRUE: the circuit is closed, or its
\* cooldown is over and no probe is under way, which makes this the probe.
Admit(c, s) ==
    /\ at[c] = "idle"
    /\ ~Open(s) \/ (Cooled(s) /\ s \notin probing)
    /\ probing' = IF Open(s) THEN probing \cup {s} ELSE probing
    /\ at' = [at EXCEPT ![c] = "flying"] /\ server' = [server EXCEPT ![c] = s]
    /\ probe' = [probe EXCEPT ![c] = Open(s)] /\ age' = [age EXCEPT ![c] = 0]
    /\ UNCHANGED <<failures, openFor>>

\* Mutant: a refusal restarts the cooldown.
RefuseRestarts(c, s) ==
    /\ at[c] = "idle"
    /\ Open(s) /\ (~Cooled(s) \/ s \in probing)
    /\ at' = [at EXCEPT ![c] = "refused"] /\ server' = [server EXCEPT ![c] = s]
    /\ probe' = [probe EXCEPT ![c] = FALSE]
    /\ openFor' = [openFor EXCEPT ![s] = 0]
    /\ UNCHANGED <<failures, probing, age>>

\* allow(s) is FALSE: BACKEND_UNAVAILABLE without a try.
Refuse(c, s) ==
    /\ at[c] = "idle"
    /\ Open(s) /\ (~Cooled(s) \/ s \in probing)
    /\ at' = [at EXCEPT ![c] = "refused"] /\ server' = [server EXCEPT ![c] = s]
    /\ probe' = [probe EXCEPT ![c] = FALSE]
    /\ UNCHANGED <<brVars, age>>

Return(c) ==
    /\ at[c] = "refused"
    /\ at' = [at EXCEPT ![c] = "idle"]
    /\ UNCHANGED <<brVars, server, probe, age>>

Land(c) ==
    /\ at[c] = "flying" /\ at' = [at EXCEPT ![c] = "idle"]
    /\ probe' = [probe EXCEPT ![c] = FALSE] /\ age' = [age EXCEPT ![c] = 0]
    /\ UNCHANGED server

\* Mutant: success closes the circuit but keeps the count.
RecordSuccessKeepsCount(s) ==
    /\ openFor' = [openFor EXCEPT ![s] = Closed]
    /\ probing' = probing \ {s} /\ UNCHANGED failures

\* The backend answered, be it with an error of the tool: record_success.
RecordSuccess(s) ==
    /\ failures' = [failures EXCEPT ![s] = 0]
    /\ openFor' = [openFor EXCEPT ![s] = Closed]
    /\ probing' = probing \ {s}

Succeed(c) == Land(c) /\ RecordSuccess(server[c])

\* Mutant: only the failure that opens a circuit starts the cooldown.
RecordFailureKeepsTimer(s) ==
    /\ probing' = probing \ {s}
    /\ failures' = [failures EXCEPT ![s] = IF @ < Threshold THEN @ + 1 ELSE @]
    /\ openFor' = [openFor EXCEPT ![s] =
                     IF ~Open(s) /\ failures'[s] >= Threshold THEN 0 ELSE @]

\* Mutant: a failed probe keeps its mark.
RecordFailureKeepsMark(s) ==
    /\ failures' = [failures EXCEPT ![s] = IF @ < Threshold THEN @ + 1 ELSE @]
    /\ openFor' = [openFor EXCEPT
                     ![s] = IF failures'[s] >= Threshold THEN 0 ELSE @]
    /\ UNCHANGED probing

\* Backend.call gave up with BACKEND_UNAVAILABLE: record_failure.
RecordFailure(s) ==
    /\ probing' = probing \ {s}
    /\ failures' = [failures EXCEPT ![s] = IF @ < Threshold THEN @ + 1 ELSE @]
    /\ openFor' = [openFor EXCEPT
                     ![s] = IF failures'[s] >= Threshold THEN 0 ELSE @]

Fail(c) == Land(c) /\ RecordFailure(server[c])

\* The request is cancelled while it awaits the backend: CancelledError leaves
\* route_call before anything is recorded.
Abandon(c) == Land(c) /\ UNCHANGED brVars

\* Time passes.
Tick ==
    /\ openFor' = [s \in Servers |->
                     IF Open(s) /\ openFor[s] < Cooldown
                     THEN openFor[s] + 1 ELSE openFor[s]]
    /\ age' = [c \in Calls |->
                 IF at[c] = "flying" /\ age[c] < Cooldown
                 THEN age[c] + 1 ELSE age[c]]
    /\ UNCHANGED <<failures, probing, at, server, probe>>

-----------------------------------------------------------------------------
Next ==
    \/ \E c \in Calls :
          \/ \E s \in Servers : Admit(c, s) \/ Refuse(c, s)
          \/ Return(c) \/ Succeed(c) \/ Fail(c)
    \/ \E c \in Cancellable : Abandon(c)
    \/ Tick

Spec == Init /\ [][Next]_vars

\* Calls that are under way end, refusals are returned, and time passes.  New
\* calls and cancellations owe nothing.
FairSpec ==
    /\ Spec /\ WF_vars(Tick)
    /\ \A c \in Calls : WF_vars(Succeed(c) \/ Fail(c) \/ Return(c))

-----------------------------------------------------------------------------
\* Properties.

\* The three tables agree: a circuit is open exactly when its count stands at
\* the threshold - so a failed probe always re-opens it - and a probe is
\* marked only on an open circuit whose cooldown is over.
TablesAgree ==
    \A s \in Servers :
        /\ Open(s) <=> failures[s] = Threshold
        /\ s \in probing => Cooled(s)

Old(c) == age[c] >= Cooldown

\* However late results come and whatever they were of, a server is tested once
\* per cooldown: of two half-open probes under way together, one has outlasted
\* the cooldown.  (A late result of another call takes its mark out of
\* _probing, but the circuit then opens anew before the next probe.)
OneProbe ==
    \A c, d \in Calls :
        probe[c] /\ probe[d] /\ server[c] = server[d]
          => c = d \/ Old(c) \/ Old(d)

\* What circuit.py:19 says of the half-open state: after the cooldown the test
\* call is allowed exactly once, so that two are never under way together.
TestedOnce ==
    \A c, d \in Calls :
        probe[c] /\ probe[d] /\ server[c] = server[d] => c = d

\* A mark in _probing that no probe under way will ever take out.
Leaked(s) == s \in probing /\ \A c \in Calls : probe[c] => server[c] # s

\* A mark is leaked only by a cancellation: every result of a probe, however
\* late and whatever came before it, takes the mark out or finds it gone.
LeakNeedsCancel ==
    [][\A s \in Servers : Leaked(s)' /\ ~Leaked(s)
         => \E c \in Cancellable : Abandon(c)]_vars

\* No server is refused for ever: while calls for it keep being refused, some
\* call for it keeps being admitted, unless a cancelled probe has leaked its
\* mark (routes.py:97-101).  A leaked mark is never taken out.
RefusedOnlyByLeak ==
    \A s \in Servers :
        [](~Leaked(s)) =>
          ([]<><<\E c \in Calls : Refuse(c, s)>>_vars
             => []<><<\E c \in Calls : Admit(c, s)>>_vars)

=============================================================================
