------------------------------ MODULE Upstream ------------------------------
(***************************************************************************)
(* One Backend object of the gateway (gateway/upstream.py): the MCP        *)
(* session shared by all requests, the connection tasks that own it, the   *)
(* asyncio lock that serialises connect and teardown, and the tasks that   *)
(* use it - tool calls (Backend.call), readiness probes (app.py, probe)    *)
(* and the shutdown (Backend.close).                                       *)
(*                                                                         *)
(* asyncio is cooperative: a task runs without interruption from one await *)
(* that suspends it to the next.  Every action below is one such segment.  *)
(* A future that is resolved only schedules its waiter, so the waiter's    *)
(* continuation is an action of its own.                                   *)
(***************************************************************************)
EXTENDS Integers, Sequences

CONSTANTS
    Callers,      \* requests that run Backend.call
    Probers,      \* /ready probes: ensure_session, then a ping
    Closers,      \* the lifespan's shutdown, at most one
    Cancellable,  \* the tasks whose client or wait_for may cancel them
    MaxConns      \* bound: connection tasks that exist at one moment

Tasks == Callers \cup Probers \cup Closers
None  == 0
Conns == 1 .. MaxConns

ASSUME UpstreamAssumption ==
    /\ MaxConns \in Nat \ {0}
    /\ Callers \cap Probers = {} /\ Closers \cap (Callers \cup Probers) = {}
    /\ Cancellable \subseteq Callers \cup Probers

VARIABLES
    session,  \* Backend._session: the connection whose session is shared
    task,     \* Backend._task (with its _stop): the recorded owner task
    tools,    \* Backend.tools is not None
    lockQ,    \* Backend._lock: holder first, then the waiters in FIFO order
    conn,     \* conn[k]: where connection task k is; "done" also when unused
    stop,     \* connections whose stop event is set
    stale,    \* connections older than the backend's last crash
    pc,       \* pc[t]: what task t waits for
    stage,    \* stage[t]: 1 first attempt, 2 reconnect and retry, 3 give up
    ready,    \* ready[t]: the ready future of the connection t started
    sess,     \* sess[t]: the connection of the session t sent its request on
    own,      \* own[t]: the connection task t watches or waits for
    rpc,      \* rpc[t]: the future of session.call_tool or send_ping
    req,      \* req[t][n]: what became of the request of t's n-th attempt
    up,       \* the backend process answers
    outcome,  \* how t's last call, probe or close ended
    timedOut, \* probes whose 2 s budget expired without ending them
    sawDown,  \* history: the backend was down at some point of t's call
    cut       \* history: t's call lost its connection to another's teardown

beVars  == <<session, task, tools>>
conVars == <<conn, stop, stale>>
locVars == <<pc, stage, sess, own, outcome>>
netVars == <<rpc, req>>
vars == <<session, task, tools, lockQ, conn, stop, stale, pc, stage, ready,
          sess, own, rpc, req, up, outcome, timedOut, sawDown, cut>>

TypeOK ==
    /\ session \in Conns \cup {None} /\ task \in Conns \cup {None}
    /\ tools \in BOOLEAN /\ up \in BOOLEAN
    /\ lockQ \in Seq(Tasks)
    /\ conn \in [Conns -> {"opening", "open", "closing", "done"}]
    /\ stop \subseteq Conns /\ stale \subseteq Conns
    /\ pc \in [Tasks -> {"idle", "lock", "tear", "conn", "race"}]
    /\ stage \in [Tasks -> 1 .. 3]
    /\ ready \in [Tasks -> {"none", "pending", "ok", "err"}]
    /\ sess \in [Tasks -> Conns \cup {None}]
    /\ own \in [Tasks -> Conns \cup {None}]
    /\ rpc \in [Tasks -> {"none", "wait", "ok", "err"}]
    /\ req \in [Callers -> [1 .. 2 -> {"none", "sent", "run"}]]
    /\ outcome \in [Tasks -> {"none", "ok", "unavail", "failed", "cancelled",
                              "closed"}]
    /\ timedOut \subseteq Probers /\ sawDown \in [Callers -> BOOLEAN]
    /\ cut \in [Callers -> BOOLEAN]

\* Backend.__init__: nothing connected, nothing aggregated.
Init ==
    /\ session = None /\ task = None /\ tools = FALSE
    /\ lockQ = <<>>
    /\ conn = [k \in Conns |-> "done"] /\ stop = {} /\ stale = {}
    /\ pc = [t \in Tasks |-> "idle"] /\ stage = [t \in Tasks |-> 1]
    /\ ready = [t \in Tasks |-> "none"]
    /\ sess = [t \in Tasks |-> None] /\ own = [t \in Tasks |-> None]
    /\ rpc = [t \in Tasks |-> "none"]
    /\ req = [c \in Callers |-> [n \in 1 .. 2 |-> "none"]]
    /\ up \in BOOLEAN
    /\ outcome = [t \in Tasks |-> "none"]
    /\ timedOut = {} /\ sawDown = [c \in Callers |-> FALSE]
    /\ cut = [c \in Callers |-> FALSE]

-----------------------------------------------------------------------------
\* The lock, and the ways a task leaves an attempt.  q is the lock's queue
\* once the task has released it.

Holds(t) == lockQ # <<>> /\ Head(lockQ) = t

\* stop.set(); without effect on a connection task that has ended.
SetStop(k) == stop' = IF conn[k] = "done" THEN stop ELSE stop \cup {k}

\* t's call, probe or close ends with result r.
Finish(t, q, r) ==
    /\ pc' = [pc EXCEPT ![t] = "idle"] /\ lockQ' = q
    /\ outcome' = [outcome EXCEPT ![t] = r]
    /\ sess' = [sess EXCEPT ![t] = None] /\ own' = [own EXCEPT ![t] = None]
    /\ rpc' = [rpc EXCEPT ![t] = "none"] /\ stage' = [stage EXCEPT ![t] = 1]

\* Mutant: no retry.
FailsWithoutRetry(t, q) ==
    IF t \in Probers THEN Finish(t, q, "failed")
    ELSE /\ pc' = [pc EXCEPT ![t] = "lock"] /\ lockQ' = Append(q, t)
         /\ stage' = [stage EXCEPT ![t] = 3]
         /\ sess' = [sess EXCEPT ![t] = None] /\ own' = [own EXCEPT ![t] = None]
         /\ rpc' = [rpc EXCEPT ![t] = "none"] /\ UNCHANGED outcome

\* Mutant: the retry is a loop.
FailsForever(t, q) ==
    IF t \in Probers THEN Finish(t, q, "failed")
    ELSE /\ pc' = [pc EXCEPT ![t] = "lock"] /\ lockQ' = Append(q, t)
         /\ stage' = [stage EXCEPT ![t] = 2]
         /\ sess' = [sess EXCEPT ![t] = None] /\ own' = [own EXCEPT ![t] = None]
         /\ rpc' = [rpc EXCEPT ![t] = "none"] /\ UNCHANGED outcome

\* An Exception in t's attempt: a call queues for the lock again, to
\* reconnect (first attempt) or to tear down (second); a probe reports FALSE.
Fails(t, q) ==
    IF t \in Probers THEN Finish(t, q, "failed")
    ELSE /\ pc' = [pc EXCEPT ![t] = "lock"] /\ lockQ' = Append(q, t)
         /\ stage' = [stage EXCEPT ![t] = @ + 1]
         /\ sess' = [sess EXCEPT ![t] = None] /\ own' = [own EXCEPT ![t] = None]
         /\ rpc' = [rpc EXCEPT ![t] = "none"] /\ UNCHANGED outcome

\* _race_call (or the ping) with session s and owner o.  A session of None
\* has no call_tool; an owner of None makes asyncio.wait raise after the
\* request was started: it stays under way with nobody waiting for it.  A
\* request on a stale connection reaches no process that knows its session.
Attempt(t, q, s, o) ==
    /\ req' = IF t \in Callers /\ s \notin stale \cup {None}
              THEN [req EXCEPT ![t][stage[t]] = "sent"] ELSE req
    /\ IF s # None /\ (o # None \/ t \in Probers)
       THEN /\ pc' = [pc EXCEPT ![t] = "race"] /\ lockQ' = q
            /\ sess' = [sess EXCEPT ![t] = s]
            /\ own' = [own EXCEPT ![t] = IF t \in Callers THEN o ELSE None]
            /\ rpc' = [rpc EXCEPT ![t] = "wait"]
            /\ UNCHANGED <<stage, outcome>>
       ELSE Fails(t, q)

-----------------------------------------------------------------------------
\* The tasks that use the backend.

\* A request arrives.  close() runs once no request is left, and ends it all.
Start(t) ==
    /\ pc[t] = "idle"
    /\ \A c \in Closers : pc[c] = "idle" /\ outcome[c] = "none"
    /\ t \in Closers => \A u \in Tasks : pc[u] = "idle"
    /\ pc' = [pc EXCEPT ![t] = "lock"] /\ lockQ' = Append(lockQ, t)
    /\ stage' = [stage EXCEPT ![t] = IF t \in Closers THEN 3 ELSE 1]
    /\ outcome' = [outcome EXCEPT ![t] = "none"]
    /\ sess' = [sess EXCEPT ![t] = None] /\ rpc' = [rpc EXCEPT ![t] = "none"]
    /\ req' = [c \in Callers |-> IF c = t THEN [n \in 1 .. 2 |-> "none"]
                                          ELSE req[c]]
    /\ timedOut' = timedOut \ {t}
    /\ sawDown' = [c \in Callers |-> IF c = t THEN ~up ELSE sawDown[c]]
    /\ cut' = [c \in Callers |-> c # t /\ cut[c]]
    /\ UNCHANGED <<beVars, conVars, ready, own, up>>

\* ensure_session finds a session and returns it.
UseSession(t) ==
    /\ pc[t] = "lock" /\ Holds(t) /\ stage[t] = 1 /\ session # None
    /\ Attempt(t, Tail(lockQ), session, task)
    /\ UNCHANGED <<beVars, conVars, ready, up, timedOut, sawDown, cut>>

\* ensure_session without a session, the retry, the final teardown and close
\* all begin with _teardown_locked.
MustTearDown(t) == pc[t] = "lock" /\ Holds(t) /\ (stage[t] > 1 \/ session = None)

BeginTeardown(t) ==
    /\ MustTearDown(t) /\ task # None
    /\ SetStop(task)
    /\ pc' = [pc EXCEPT ![t] = "tear"]
    /\ cut' = [c \in Callers |-> cut[c] \/ (pc[c] = "race" /\ sess[c] = task)]
    /\ UNCHANGED <<beVars, lockQ, conn, stale, stage, ready, sess, own, netVars,
                   up, outcome, timedOut, sawDown>>

FreeConns ==
    {k \in Conns : /\ conn[k] = "done" /\ k # task
                   /\ \A t \in Tasks : k # sess[t] /\ k # own[t]}

\* _connect_locked up to `await ready`: a new connection task is started.
Connect(t) ==
    \E k \in FreeConns :
        /\ \A j \in FreeConns : k <= j
        /\ conn' = [conn EXCEPT ![k] = "opening"]
        /\ own' = [own EXCEPT ![t] = k]
        /\ ready' = [ready EXCEPT ![t] = "pending"]
        /\ pc' = [pc EXCEPT ![t] = "conn"]
        /\ UNCHANGED <<lockQ, stage, sess, rpc, outcome>>

\* Mutant: the end of the recorded task is not awaited.
EndTeardownAtOnce(t) ==
    /\ (MustTearDown(t) /\ task = None) \/ pc[t] = "tear"
    /\ session' = None /\ task' = None
    /\ IF stage[t] < 3
       THEN Connect(t)
       ELSE /\ Finish(t, Tail(lockQ),
                      IF t \in Closers THEN "closed" ELSE "unavail")
            /\ UNCHANGED <<conn, ready>>
    /\ UNCHANGED <<tools, stop, stale, req, up, timedOut, sawDown, cut>>

\* The recorded task (if any) has ended: _teardown_locked finishes, and the
\* task goes on to connect or, in stage 3, is done.
EndTeardown(t) ==
    /\ \/ MustTearDown(t) /\ task = None
       \/ pc[t] = "tear" /\ conn[task] = "done"
    /\ session' = None /\ task' = None
    /\ IF stage[t] < 3
       THEN Connect(t)
       ELSE /\ Finish(t, Tail(lockQ),
                      IF t \in Closers THEN "closed" ELSE "unavail")
            /\ UNCHANGED <<conn, ready>>
    /\ UNCHANGED <<tools, stop, stale, req, up, timedOut, sawDown, cut>>

\* The ready future resolved with a result: the handles are recorded and the
\* attempt is made with whatever Backend._session is by now.
Connected(t) ==
    /\ pc[t] = "conn" /\ ready[t] = "ok"
    /\ task' = own[t]
    /\ ready' = [ready EXCEPT ![t] = "none"]
    /\ Attempt(t, Tail(lockQ), session, own[t])
    /\ UNCHANGED <<session, tools, conVars, up, timedOut, sawDown, cut>>

\* Mutant: a connect that takes long is given up, its task left to itself.
ConnectFailedEarly(t) ==
    /\ pc[t] = "conn" /\ ready[t] \in {"pending", "err"}
    /\ ready' = [ready EXCEPT ![t] = "none"]
    /\ IF stage[t] = 1 THEN Fails(t, Tail(lockQ))
                       ELSE Finish(t, Tail(lockQ), "unavail")
    /\ UNCHANGED <<beVars, conVars, req, up, timedOut, sawDown, cut>>

\* The ready future resolved with an exception.
ConnectFailed(t) ==
    /\ pc[t] = "conn" /\ ready[t] = "err"
    /\ ready' = [ready EXCEPT ![t] = "none"]
    /\ IF stage[t] = 1 THEN Fails(t, Tail(lockQ))
                       ELSE Finish(t, Tail(lockQ), "unavail")
    /\ UNCHANGED <<beVars, conVars, req, up, timedOut, sawDown, cut>>

\* Mutant: an answer that is an error of the tool counts as a failed attempt.
RaceWonByResult(t) ==
    /\ pc[t] = "race" /\ rpc[t] = "ok"
    /\ Finish(t, lockQ, "ok") \/ Fails(t, lockQ)
    /\ UNCHANGED <<beVars, conVars, ready, req, up, timedOut, sawDown, cut>>

\* The request was answered: `if call in done: return call.result()`.
RaceWon(t) ==
    /\ pc[t] = "race" /\ rpc[t] = "ok"
    /\ Finish(t, lockQ, "ok")
    /\ UNCHANGED <<beVars, conVars, ready, req, up, timedOut, sawDown, cut>>

\* Mutant: the call is awaited alone, without its owner task.
RaceLostUnwatched(t) ==
    /\ pc[t] = "race" /\ rpc[t] = "err"
    /\ Fails(t, lockQ)
    /\ UNCHANGED <<beVars, conVars, ready, req, up, timedOut, sawDown, cut>>

\* The request raised, or (calls only) the watched owner task ended first.
RaceLost(t) ==
    /\ pc[t] = "race"
    /\ \/ rpc[t] = "err"
       \/ rpc[t] = "wait" /\ t \in Callers /\ conn[own[t]] = "done"
    /\ Fails(t, lockQ)
    /\ UNCHANGED <<beVars, conVars, ready, req, up, timedOut, sawDown, cut>>

-----------------------------------------------------------------------------
\* Cancellation: wait_for's two seconds in the probe, a client's
\* notifications/cancelled or a transport shutdown for a call.

\* wait_for turns its cancellation into a TimeoutError, which is a failed probe.
CancelResult(t) == IF t \in Probers THEN "failed" ELSE "cancelled"

\* The lock's queue once t has left its place in it.
Without(t) ==
    LET p == CHOOSE i \in DOMAIN lockQ : lockQ[i] = t
    IN  [i \in 1 .. Len(lockQ) - 1 |-> lockQ[IF i < p THEN i ELSE i + 1]]

\* Cancelled while queued for the lock, or once the future awaited in a
\* teardown is already done.
CancelQueued(t) ==
    /\ \/ pc[t] = "lock"
       \/ pc[t] = "tear" /\ conn[task] = "done"
    /\ Finish(t, Without(t), CancelResult(t))
    /\ UNCHANGED <<beVars, conVars, ready, req, up, timedOut, sawDown, cut>>

\* Cancelled in `await self._task`: the cancellation is handed to the owner
\* task, which swallows it (except BaseException) and ends normally; the
\* waiter continues as if it had not been cancelled.  wait_for cancels once.
CancelLostInTeardown(t) ==
    /\ pc[t] = "tear" /\ conn[task] # "done" /\ t \notin timedOut
    /\ conn' = [conn EXCEPT ![task] = "closing"]
    /\ timedOut' = IF t \in Probers THEN timedOut \cup {t} ELSE timedOut
    /\ UNCHANGED <<beVars, lockQ, stop, stale, locVars, ready, netVars, up,
                   sawDown, cut>>

\* Mutants: stop is not set; the lock is not released.
CancelConnectingNoStop(t) ==
    /\ pc[t] = "conn" /\ t \notin timedOut
    /\ ready' = [ready EXCEPT ![t] = "none"]
    /\ Finish(t, Tail(lockQ), CancelResult(t))
    /\ UNCHANGED <<beVars, conVars, req, up, timedOut, sawDown, cut>>

CancelConnectingKeepsLock(t) ==
    /\ pc[t] = "conn" /\ t \notin timedOut
    /\ SetStop(own[t])
    /\ ready' = [ready EXCEPT ![t] = "none"]
    /\ Finish(t, lockQ, CancelResult(t))
    /\ UNCHANGED <<beVars, conn, stale, req, up, timedOut, sawDown, cut>>

\* Cancelled in `await ready`: the future is cancelled, stop is set, and the
\* connection task is left to itself - it was not recorded.
CancelConnecting(t) ==
    /\ pc[t] = "conn" /\ t \notin timedOut
    /\ SetStop(own[t])
    /\ ready' = [ready EXCEPT ![t] = "none"]
    /\ Finish(t, Tail(lockQ), CancelResult(t))
    /\ UNCHANGED <<beVars, conn, stale, req, up, timedOut, sawDown, cut>>

\* Cancelled while racing: a ping is cancelled with its task, but
\* asyncio.wait does not cancel the call it waits for, which stays under way.
CancelRacing(t) ==
    /\ pc[t] = "race" /\ t \notin timedOut
    /\ IF t \in Probers
       THEN Finish(t, lockQ, CancelResult(t))
       ELSE /\ pc' = [pc EXCEPT ![t] = "idle"]
            /\ outcome' = [outcome EXCEPT ![t] = "cancelled"]
            /\ own' = [own EXCEPT ![t] = None]
            /\ UNCHANGED <<lockQ, stage, sess, rpc>>
    /\ UNCHANGED <<beVars, conVars, ready, req, up, timedOut, sawDown, cut>>

Cancel(t) ==
    \/ CancelQueued(t) \/ CancelLostInTeardown(t)
    \/ CancelConnecting(t) \/ CancelRacing(t)

-----------------------------------------------------------------------------
\* The connection tasks.

Waiting(k) == {t \in Tasks : own[t] = k /\ ready[t] = "pending"}

\* initialize and list_tools succeeded: tools and session are published.  If
\* the ready future was cancelled, set_result raises and the task unwinds.
Publish(k) ==
    /\ conn[k] = "opening" /\ up /\ k \notin stale
    /\ session' = k /\ tools' = TRUE
    /\ conn' = [conn EXCEPT ![k] = IF Waiting(k) # {} THEN "open" ELSE "closing"]
    /\ ready' = [t \in Tasks |-> IF t \in Waiting(k) THEN "ok" ELSE ready[t]]
    /\ UNCHANGED <<task, lockQ, stop, stale, locVars, netVars, up, timedOut,
                   sawDown, cut>>

\* A request waits on k, but the process that could answer it is gone.
Doomed(k) == k \in stale /\ \E t \in Tasks : sess[t] = k /\ rpc[t] = "wait"

\* The handshake fails; or stop.wait() returns; or the transport's task group
\* collapses under a request that failed.  The contexts start to unwind.
Unwind(k) ==
    /\ \/ conn[k] = "opening" /\ (~up \/ k \in stale)
       \/ conn[k] = "open" /\ (k \in stop \/ Doomed(k))
    /\ conn' = [conn EXCEPT ![k] = "closing"]
    /\ UNCHANGED <<beVars, lockQ, stop, stale, locVars, ready, netVars, up,
                   timedOut, sawDown, cut>>

\* The contexts are closed: a pending ready future gets the exception, and
\* `finally` clears Backend._session - whoever published it.
EndConnection(k) ==
    /\ conn[k] = "closing"
    /\ conn' = [conn EXCEPT ![k] = "done"]
    /\ session' = None
    /\ ready' = [t \in Tasks |-> IF t \in Waiting(k) THEN "err" ELSE ready[t]]
    /\ stop' = stop \ {k} /\ stale' = stale \ {k}
    /\ UNCHANGED <<task, tools, lockQ, locVars, netVars, up, timedOut, sawDown, cut>>

-----------------------------------------------------------------------------
\* The backend process and the transport.

\* The backend executes a request that reached it, even one abandoned since.
Execute(c, n) ==
    /\ up /\ req[c][n] = "sent"
    /\ req' = [req EXCEPT ![c][n] = "run"]
    /\ UNCHANGED <<beVars, lockQ, conVars, locVars, ready, rpc, up, timedOut,
                   sawDown, cut>>

\* The answer arrives, over a connection that is open to a process that is up.
Respond(t) ==
    /\ rpc[t] = "wait" /\ conn[sess[t]] = "open" /\ up /\ sess[t] \notin stale
    /\ t \in Callers => req[t][stage[t]] = "run"
    /\ rpc' = [rpc EXCEPT ![t] = "ok"]
    /\ UNCHANGED <<beVars, lockQ, conVars, locVars, ready, req, up, timedOut,
                   sawDown, cut>>

\* A restarted backend does not know the session: the request is refused
\* with an error answer, unexecuted, and the connection survives.
Reject(t) ==
    /\ rpc[t] = "wait" /\ sess[t] \in stale /\ conn[sess[t]] = "open" /\ up
    /\ t \in Callers => req[t][stage[t]] = "none"
    /\ rpc' = [rpc EXCEPT ![t] = "err"]
    /\ UNCHANGED <<beVars, lockQ, conVars, locVars, ready, req, up, timedOut,
                   sawDown, cut>>

\* The streams of a closing connection raise in the request.  They need not:
\* the wake-up may be lost with the transport's task group (no fairness).
Drop(t) ==
    /\ rpc[t] = "wait" /\ conn[sess[t]] \in {"closing", "done"}
    /\ rpc' = [rpc EXCEPT ![t] = "err"]
    /\ UNCHANGED <<beVars, lockQ, conVars, locVars, ready, req, up, timedOut,
                   sawDown, cut>>

Crash ==
    /\ up /\ up' = FALSE
    /\ stale' = {k \in Conns : conn[k] # "done"}
    /\ req' = [c \in Callers |-> [n \in 1 .. 2 |->
                 IF req[c][n] = "sent" THEN "none" ELSE req[c][n]]]
    /\ sawDown' = [c \in Callers |-> sawDown[c] \/ pc[c] # "idle"]
    /\ UNCHANGED <<beVars, lockQ, conn, stop, locVars, ready, rpc, timedOut,
                   cut>>

Restart ==
    /\ ~up /\ up' = TRUE
    /\ UNCHANGED <<beVars, lockQ, conVars, locVars, ready, netVars, timedOut,
                   sawDown, cut>>

-----------------------------------------------------------------------------
TaskStep(t) ==
    \/ UseSession(t) \/ BeginTeardown(t) \/ EndTeardown(t)
    \/ Connected(t) \/ ConnectFailed(t) \/ RaceWon(t) \/ RaceLost(t)

ConnStep(k) == Publish(k) \/ Unwind(k) \/ EndConnection(k)

\* A request that can be answered is: Respond, or Execute first.
NetStep(t) ==
    \/ Respond(t) \/ Reject(t)
    \/ t \in Callers /\ \E n \in 1 .. 2 : Execute(t, n)

Next ==
    \/ \E t \in Tasks : Start(t) \/ TaskStep(t) \/ NetStep(t) \/ Drop(t)
    \/ \E t \in Cancellable : Cancel(t)
    \/ \E t \in Probers : CancelRacing(t)    \* a ping may always time out
    \/ \E k \in Conns : ConnStep(k)
    \/ Crash \/ Restart

Spec == Init /\ [][Next]_vars

\* The event loop runs every task that can run; a handshake, an unwinding
\* and a request on an open connection end because every HTTP exchange of the
\* transport has a read timeout.  Crashes, restarts, arrivals, cancellations
\* and Drop owe nothing.
FairSpec ==
    /\ Spec
    /\ \A t \in Tasks : WF_vars(TaskStep(t)) /\ WF_vars(NetStep(t))
    /\ \A k \in Conns : WF_vars(ConnStep(k))

-----------------------------------------------------------------------------
\* Properties.

\* The lock is neither leaked nor entered twice: exactly the queued and the
\* reconnecting tasks are in its queue, once each, and only the holder tears
\* down or connects - whatever was cancelled, and wherever.
LockCoherent ==
    /\ \A i, j \in DOMAIN lockQ : lockQ[i] = lockQ[j] => i = j
    /\ \A t \in Tasks :
          /\ (\E i \in DOMAIN lockQ : lockQ[i] = t)
                <=> pc[t] \in {"lock", "tear", "conn"}
          /\ pc[t] \in {"tear", "conn"} => Holds(t)
          /\ pc[t] = "tear" => task # None

\* One connection per backend: two connection tasks are never alive at once
\* (upstream.py: "one MCP session per backend, not a pool").
SingleConnection ==
    \A j, k \in Conns : conn[j] # "done" /\ conn[k] # "done" => j = k

\* The owner a call races against is the owner of the session it uses, so
\* the death of its connection is noticed (_race_call's reason to exist).
RaceWatchesOwner ==
    \A c \in Callers : pc[c] = "race" => own[c] = sess[c]

\* A published session is withdrawn only because its own connection ended or
\* was told to stop: nobody cuts a healthy session by accident.
SessionOutlivesOthers ==
    [][session # None /\ session' # session
         => conn[session] # "open" \/ session \in stop]_vars

\* BACKEND_UNAVAILABLE tells the truth (routes.py and Backend.call: "one
\* reconnect, and if that does not help, unavailable") up to one exception: a
\* call ends with it only if the backend was down during the call, or if a
\* concurrent retry tore down the connection under it.
UnavailableIsExplained ==
    \A c \in Callers : outcome[c] = "unavail" => sawDown[c] \/ cut[c]

\* The retry executes a tool a second time only if the backend went down
\* during the call, or a concurrent retry cut the first attempt off.
TwiceIsExplained ==
    \A c \in Callers :
        (\A n \in 1 .. 2 : req[c][n] = "run") => sawDown[c] \/ cut[c]

\* Whatever the tasks do to the session they share, and wherever a call is
\* cancelled, Backend.call keeps its promise to those who await it: an answer
\* is that of a request which the attempt under way has sent and the backend
\* has executed, a second request is sent only when the first attempt has
\* failed, a third never, and none when the call is over.
Remote == INSTANCE RemoteCall WITH
    Cancellable <- Cancellable \cap Callers,
    attempt <- [c \in Callers |-> IF pc[c] = "idle" THEN 0 ELSE stage[c]],
    asked   <- {c \in Callers : pc[c] = "race"},
    request <- req,
    result  <- [c \in Callers |-> outcome[c]]

IsRemoteCall == Remote!Spec

\* Every tool call comes to an end, through any number of crashes.
EveryCallEnds ==
    \A c \in Callers : pc[c] # "idle" ~> pc[c] = "idle"

\* close() leaves nothing behind: no connection alive, no session, no lock.
ClosedIsClean ==
    \A c \in Closers : outcome[c] = "closed" =>
        /\ session = None /\ task = None /\ lockQ = <<>>
        /\ \A k \in Conns : conn[k] = "done"

\* A connection task that nobody recorded or is about to record ends: what a
\* cancelled connect leaves behind does not pile up.
Orphan(k) ==
    /\ conn[k] # "done" /\ k # task
    /\ \A t \in Tasks : own[t] = k => ready[t] = "none"

OrphansEnd == \A k \in Conns : Orphan(k) ~> ~Orphan(k)

\* Whoever is queued for the lock gets it: no cancelled, hung or failing
\* holder blocks the queue for ever.
LockIsPassedOn == \A t \in Tasks : pc[t] = "lock" ~> ~(pc[t] = "lock" /\ ~Holds(t))

=============================================================================
