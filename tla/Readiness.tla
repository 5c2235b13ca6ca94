------------------------------ MODULE Readiness ------------------------------
(***************************************************************************)
(* The readiness of the gateway's pods: the /ready endpoint (app.py,       *)
(* ready), the kubelet that polls it (k8s/base/gateway.yaml), the Service  *)
(* that routes requests only to ready pods, and the backends that die,     *)
(* hang, return or are replaced in between.                                *)
(*                                                                         *)
(* Upstream models one Backend object in detail.  Here it is reduced to    *)
(* what probes and calls of one pod leave for each other: its session.     *)
(***************************************************************************)
EXTENDS Integers

CONSTANTS
    Pods,             \* replicas of the gateway
    Backends,         \* the MCP servers, one process each
    FailureThreshold  \* failed rounds after which the kubelet gives up a pod

ASSUME ReadinessAssumption == FailureThreshold \in Nat \ {0}

VARIABLES
    up,       \* up[b]: the process of b answers within the probe's budget
    session,  \* session[p][b]: p's Backend._session; "stale" if b's process
              \*   does not know it (it was opened to an earlier one)
    probe,    \* probe[p][b]: where p's current /ready request is with b
    misses,   \* misses[p]: rounds failed in a row, as the kubelet counts them
    ready,    \* the pods that are endpoints of the Service
    call,     \* call[p][b]: Backend.call under way at p, first attempt or retry
    fine,     \* history, fine[p]: the backends that were up since p's round
              \*   began, with no stale session and no call reconnecting
    dark      \* history, dark[p]: rounds in a row with no fine backend

vars == <<up, session, probe, misses, ready, call, fine, dark>>

TypeOK ==
    /\ up \in [Backends -> BOOLEAN]
    /\ session \in [Pods -> [Backends -> {"none", "live", "stale"}]]
    /\ probe \in [Pods -> [Backends -> {"idle", "asked", "ping", "ok", "failed"}]]
    /\ misses \in [Pods -> 0 .. FailureThreshold]
    /\ ready \subseteq Pods
    /\ call \in [Pods -> [Backends -> {"none", "sent", "failed", "opening"}]]
    /\ fine \in [Pods -> SUBSET Backends]
    /\ dark \in [Pods -> 0 .. FailureThreshold]

\* The lifespan of a new pod connects to every backend that answers.
Connected == [b \in Backends |-> IF up[b] THEN "live" ELSE "none"]

Init ==
    /\ up \in [Backends -> BOOLEAN]
    /\ session = [p \in Pods |-> Connected]
    /\ probe = [p \in Pods |-> [b \in Backends |-> "idle"]]
    /\ misses = [p \in Pods |-> 0] /\ ready = {}
    /\ call = [p \in Pods |-> [b \in Backends |-> "none"]]
    /\ fine = [p \in Pods |-> {}] /\ dark = [p \in Pods |-> 0]

-----------------------------------------------------------------------------
\* One round of the readiness probe.

UpTo(n) == IF n < FailureThreshold THEN n + 1 ELSE n

\* A call holds the lock of the backend object while it connects.
Connecting(p, b) ==
    \/ call[p][b] = "opening"
    \/ call[p][b] = "sent" /\ session[p][b] = "none"

\* The kubelet asks /ready, which probes all backends at once (gather).
RoundBegins(p) ==
    /\ \A b \in Backends : probe[p][b] = "idle"
    /\ probe' = [probe EXCEPT ![p] = [b \in Backends |-> "asked"]]
    /\ fine' = [fine EXCEPT ![p] = 
                   {b \in Backends : /\ up[b] /\ session[p][b] # "stale"
                                     /\ ~Connecting(p, b)}]
    /\ UNCHANGED <<up, session, misses, ready, call, dark>>

\* Mutant: a passive check, which reports a missing session and stops there.
EnsurePassively(p, b) ==
    /\ probe[p][b] = "asked" /\ ~Connecting(p, b)
    /\ probe' = [probe EXCEPT ![p][b] =
                   IF session[p][b] = "none" THEN "failed" ELSE "ping"]
    /\ UNCHANGED <<up, session, misses, ready, call, fine, dark>>

\* ensure_session: a session that exists is taken as it is, live or not; a
\* missing one is opened, which fails or times out if b does not answer.
Ensure(p, b) ==
    /\ probe[p][b] = "asked" /\ ~Connecting(p, b)
    /\ IF session[p][b] # "none"
       THEN probe' = [probe EXCEPT ![p][b] = "ping"] /\ UNCHANGED session
       ELSE IF up[b]
       THEN /\ session' = [session EXCEPT ![p][b] = "live"]
            /\ probe' = [probe EXCEPT ![p][b] = "ping"]
       ELSE probe' = [probe EXCEPT ![p][b] = "failed"] /\ UNCHANGED session
    /\ UNCHANGED <<up, misses, ready, call, fine, dark>>

\* wait_for ends a probe that waits for the lock.
LockTimeout(p, b) ==
    /\ probe[p][b] = "asked" /\ Connecting(p, b)
    /\ probe' = [probe EXCEPT ![p][b] = "failed"]
    /\ UNCHANGED <<up, session, misses, ready, call, fine, dark>>

\* Mutant: no ping, the session's existence is enough.
PingOmitted(p, b) ==
    /\ probe[p][b] = "ping"
    /\ probe' = [probe EXCEPT ![p][b] = "ok"]
    /\ UNCHANGED <<up, session, misses, ready, call, fine, dark>>

\* send_ping.  A process that answers knows the session or refuses it (404),
\* which leaves the connection as it is; so does wait_for's timeout.
Ping(p, b) ==
    /\ probe[p][b] = "ping"
    /\ probe' = [probe EXCEPT ![p][b] =
                   IF up[b] /\ session[p][b] = "live" THEN "ok" ELSE "failed"]
    /\ UNCHANGED <<up, session, misses, ready, call, fine, dark>>

\* Mutant: all backends must answer.
RoundEndsWithAll(p) ==
    /\ \A b \in Backends : probe[p][b] \in {"ok", "failed"}
    /\ probe' = [probe EXCEPT ![p] = [b \in Backends |-> "idle"]]
    /\ fine' = [fine EXCEPT ![p] = {}]
    /\ dark' = [dark EXCEPT ![p] = IF fine[p] = {} THEN UpTo(@) ELSE 0]
    /\ IF \A b \in Backends : probe[p][b] = "ok"
       THEN misses' = [misses EXCEPT ![p] = 0] /\ ready' = ready \cup {p}
       ELSE /\ misses' = [misses EXCEPT ![p] = UpTo(@)]
            /\ ready' = IF misses'[p] = FailureThreshold THEN ready \ {p} ELSE ready
    /\ UNCHANGED <<up, session, call>>

\* `ok = any(results)`, 200 or 503.  One success makes a pod ready, and
\* FailureThreshold failures in a row take it out of the Service.
RoundEnds(p) ==
    /\ \A b \in Backends : probe[p][b] \in {"ok", "failed"}
    /\ probe' = [probe EXCEPT ![p] = [b \in Backends |-> "idle"]]
    /\ fine' = [fine EXCEPT ![p] = {}]
    /\ dark' = [dark EXCEPT ![p] = IF fine[p] = {} THEN UpTo(@) ELSE 0]
    /\ IF \E b \in Backends : probe[p][b] = "ok"
       THEN misses' = [misses EXCEPT ![p] = 0] /\ ready' = ready \cup {p}
       ELSE /\ misses' = [misses EXCEPT ![p] = UpTo(@)]
            /\ ready' = IF misses'[p] = FailureThreshold THEN ready \ {p} ELSE ready
    /\ UNCHANGED <<up, session, call>>

-----------------------------------------------------------------------------
\* Requests, and the connections they use.

\* The Service routes a tools/call to a ready pod.  Two calls of a pod to one
\* backend at a time are Upstream's subject.
Call(p, b) ==
    /\ p \in ready /\ call[p][b] = "none"
    /\ call' = [call EXCEPT ![p][b] = "sent"]
    /\ fine' = [fine EXCEPT ![p] = IF session[p][b] = "none" THEN @ \ {b} ELSE @]
    /\ UNCHANGED <<up, session, probe, misses, ready, dark>>

\* The first attempt: ensure_session opens a missing session, the backend
\* answers over a session it knows.
Answer(p, b) ==
    /\ call[p][b] = "sent" /\ up[b] /\ session[p][b] # "stale"
    /\ session' = [session EXCEPT ![p][b] = "live"]
    /\ call' = [call EXCEPT ![p][b] = "none"]
    /\ UNCHANGED <<up, probe, misses, ready, fine, dark>>

\* It fails: nobody answers, the session is refused, or the connect has hung
\* since before b came back.
CallFails(p, b) ==
    /\ call[p][b] = "sent" /\ (~up[b] \/ session[p][b] # "live")
    /\ call' = [call EXCEPT ![p][b] = "failed"]
    /\ UNCHANGED <<up, session, probe, misses, ready, fine, dark>>

\* A ping on a connection that is torn down fails.
PingCut(p, b) == [probe EXCEPT ![p][b] = IF @ = "ping" THEN "failed" ELSE @]

\* The retry tears down whatever connection there is by now, and connects.
Retry(p, b) ==
    /\ call[p][b] = "failed"
    /\ call' = [call EXCEPT ![p][b] = "opening"]
    /\ session' = [session EXCEPT ![p][b] = "none"]
    /\ probe' = PingCut(p, b)
    /\ fine' = [fine EXCEPT ![p] = @ \ {b}]
    /\ UNCHANGED <<up, misses, ready, dark>>

\* The connect succeeds and the call is sent again (or b is gone by then), or
\* it fails, at the latest by the client's read timeout.
Reconnected(p, b) ==
    /\ call[p][b] = "opening"
    /\ \E s \in {"live", "none"} :
          /\ s = "live" => up[b]
          /\ session' = [session EXCEPT ![p][b] = s]
    /\ call' = [call EXCEPT ![p][b] = "none"]
    /\ UNCHANGED <<up, probe, misses, ready, fine, dark>>

\* A request to a process that is gone may be refused by the host, which
\* collapses the transport: the owner task ends and clears the session.  It
\* may also go unanswered until b is back (no fairness).
Collapse(p, b) ==
    /\ session[p][b] = "stale" /\ ~up[b]
    /\ probe[p][b] = "ping" \/ call[p][b] = "sent"
    /\ session' = [session EXCEPT ![p][b] = "none"]
    /\ probe' = PingCut(p, b)
    /\ call' = [call EXCEPT ![p][b] = IF @ = "sent" THEN "failed" ELSE @]
    /\ UNCHANGED <<up, misses, ready, fine, dark>>

-----------------------------------------------------------------------------
\* The environment.

Stale(b) ==
    [p \in Pods |-> [session[p] EXCEPT ![b] = IF @ = "live" THEN "stale" ELSE @]]
NotFine(b) == [p \in Pods |-> fine[p] \ {b}]

\* The process of b hangs: it keeps its sessions for when it answers again.
Hang(b) ==
    /\ up[b] /\ up' = [up EXCEPT ![b] = FALSE]
    /\ fine' = NotFine(b)
    /\ UNCHANGED <<session, probe, misses, ready, call, dark>>

\* The process of b ends, serving or hung; nobody is told of an idle session.
Die(b) ==
    /\ up' = [up EXCEPT ![b] = FALSE] /\ session' = Stale(b)
    /\ fine' = NotFine(b)
    /\ UNCHANGED <<probe, misses, ready, call, dark>>

\* A rolling update: the Service of b goes from one process to the next.
Replace(b) ==
    /\ up[b] /\ session' = Stale(b) /\ fine' = NotFine(b)
    /\ UNCHANGED <<up, probe, misses, ready, call, dark>>

\* b answers (again): a new process, or the one that hung.
Return(b) ==
    /\ ~up[b] /\ up' = [up EXCEPT ![b] = TRUE]
    /\ UNCHANGED <<session, probe, misses, ready, call, fine, dark>>

\* Pod p is replaced; its successor is no endpoint until a round succeeds.
PodRestarts(p) ==
    /\ session' = [session EXCEPT ![p] = Connected]
    /\ probe' = [probe EXCEPT ![p] = [b \in Backends |-> "idle"]]
    /\ misses' = [misses EXCEPT ![p] = 0] /\ ready' = ready \ {p}
    /\ call' = [call EXCEPT ![p] = [b \in Backends |-> "none"]]
    /\ fine' = [fine EXCEPT ![p] = {}] /\ dark' = [dark EXCEPT ![p] = 0]
    /\ UNCHANGED up

-----------------------------------------------------------------------------
Probing(p) ==
    \/ RoundBegins(p) \/ RoundEnds(p)
    \/ \E b \in Backends : Ensure(p, b) \/ LockTimeout(p, b) \/ Ping(p, b)

Relaying(p, b) ==
    Answer(p, b) \/ CallFails(p, b) \/ Retry(p, b) \/ Reconnected(p, b)

Next ==
    \/ \E p \in Pods : Probing(p) \/ PodRestarts(p)
    \/ \E p \in Pods, b \in Backends :
          Call(p, b) \/ Relaying(p, b) \/ Collapse(p, b)
    \/ \E b \in Backends : Hang(b) \/ Die(b) \/ Replace(b) \/ Return(b)

Spec == Init /\ [][Next]_vars

\* The kubelet polls for ever, every probe ends within its two seconds, and
\* calls end (Upstream, EveryCallEnds).  Traffic and the environment owe
\* nothing.
FairSpec ==
    /\ Spec
    /\ \A p \in Pods : WF_vars(Probing(p))
    /\ \A p \in Pods, b \in Backends : WF_vars(Relaying(p, b))

-----------------------------------------------------------------------------
\* Properties.

\* Partial availability before total outage (app.py:294-297): a pod leaves
\* the Service, other than by its own restart, only after FailureThreshold
\* rounds in a row in each of which every backend had failed it.
LeavesOnlyInTheDark ==
    [][\A p \in Pods : p \in ready \ ready' =>
          dark'[p] = FailureThreshold \/ PodRestarts(p)]_vars

\* The probe sees through sessions that outlive their backend (app.py:281-287):
\* with every backend gone or hung for good, no pod stays in the Service.
DeadIsNoticed ==
    \A p \in Pods : <>[](\A b \in Backends : ~up[b]) => <>[](p \notin ready)

\* The probe reconnects by itself (app.py:276-279): a pod stays out while a
\* backend answers only if its session with that backend is stale, or if it
\* is itself restarted again and again.
StuckOnlyIfStale ==
    \A p \in Pods, b \in Backends :
        <>[](up[b] /\ p \notin ready)
            => <>[](session[p][b] = "stale") \/ []<><<PodRestarts(p)>>_vars

\* How a pod is lost: out of the Service, with all backends answering, and
\* with each of them over a session that only a call would replace.
Trapped(p) ==
    /\ p \notin ready
    /\ \A b \in Backends :
          /\ up[b] /\ session[p][b] = "stale"
          /\ call[p][b] = "none" /\ probe[p][b] # "ok"

\* "The probe itself reconnects, so that a pod that is NotReady comes back"
\* (app.py:276-279, :303): with all backends answering and the pods left
\* alone, the Service has an endpoint again and again.
ServiceReturns ==
    <>[](\A b \in Backends : up[b]) /\ <>[][\A p \in Pods : ~PodRestarts(p)]_vars
        => []<>(ready # {})

=============================================================================
