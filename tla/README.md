# A TLA+ development for the AgentOps Gateway

The AgentOps Gateway is an MCP gateway in Python: agents send `tools/list` and
`tools/call` over Streamable HTTP; the gateway authenticates them, applies a
default-deny policy, relays permitted calls to one of three MCP servers (ticket,
docs, ops) over one shared session per server, and counts and audits every call.
Around it are a demo agent (a LangGraph graph), the three servers, and the
deployment files.

This directory holds TLA+ models of that code, TLC configurations that check
them on small instances, and TLAPS proofs for every value of the constants.
Everything in a module is translated from the code; the file `PROJECT.json` maps
each definition to the lines it stands for, and lists components, runs, mutants,
findings, hazards and theorems.

    tlc -config UpstreamShared.cfg MCUpstream.tla     # one run
    tlapm UpstreamProofs.tla                          # one proof module

## 1. Inventory

`G/` is `src/gateway/src/gateway/`.

| Component | State | Operations | Modelled by |
|---|---|---|---|
| Backend (`G/upstream.py`) | `_session`, `_task`, `_stop`, `tools`, `_lock`; the connection task's `ready` and `stop` | `ensure_session`, `call` with one retry, `_race_call`, `close`, `_connection_task` | `Upstream` |
| Circuit breaker (`G/circuit.py`) | `_failures`, `_opened_at`, `_probing` | `allow`, `record_success`, `record_failure`, `is_tripped` | `CircuitBreaker` |
| Rate limiter (`G/ratelimit.py`) | `_buckets`: tokens and time of each agent | `allow` | `RateLimiter`, `TokenBucket` |
| Routing (`G/routes.py`, `G/aggregate.py`, `G/errors.py`) | none of its own, it uses the three above | `route_call`, `aggregate_tools`, `_relay_decision` | `ToolCalls` |
| Application (`G/app.py`) | the objects above | `call_tool`, `list_tools`, `lifespan`, `ready`, the `/mcp` endpoint | `ToolCalls`, `Upstream` (probe, close), `Readiness` (`/ready`) |
| Authentication (`G/auth.py`) | none | `authenticate` | an input of `ToolCalls` |
| Metrics (`G/observability.py`) | Prometheus counters | `record_call` | `metric` in `ToolCalls` |
| Audit (`G/audit.py`), admin page (`G/admin.py`) | the JSONL file | `record`; `read_audit`, `summarize_denials`, `apply_filters`, the page | `AuditLog` |
| Policy (`G/policy.py`) | the loaded YAML | `evaluate`, `_check_args`, `warn_unknown_tools` | `LogQuery` (evaluate, _check_args) |
| Ticket server (`src/servers/ticket`) | a SQLite file | `create_ticket`, `search_tickets`, `update_status` | `TicketServer` |
| Ops server (`src/servers/ops`) | none | `query_logs`, `get_metrics` | `LogQuery` (query_logs) |
| Docs server (`src/servers/docs`) | lazily loaded corpus and index | `search_docs`, `read_doc` | - |
| Demo agent (`src/demo-agent`) | the graph's `State` | `call_model`, `tools`, `bypass`, routing | `DemoAgent` |
| Scale-out script (`src/scripts/verify_scaleout.py`) | the deployments of a cluster: replicas, toggles, pods | `rollout`, `settle`, `restore`, `measure_*`, `main` | `VerifyScaleout` |
| Deployment (`src/k8s`) | pods, the Service's endpoints | readiness probe, rolling updates | `Readiness`, `VerifyScaleout` |
| Other scripts | - | `check_gateway`, `check_servers`, `e2e_demo`, `spike_concurrency` | - |

**How they interact.** A tools/call enters at the `/mcp` endpoint, is
authenticated again in `call_tool`, and walks through `route_call`: limiter,
name, lazy `ensure_session` if the backend's tools are unknown, policy, breaker,
`Backend.call`, and the result back to the breaker. `call_tool` then counts and
audits the decision. `tools/list` and the `/ready` probe call `ensure_session`
on the same Backend objects, so calls, lists, probes and the shutdown share one
session, one lock and one breaker. All of it runs on one asyncio loop: a step
lasts from one suspending `await` to the next, and every interleaving bug is one
of state read before an `await` and used after it. The exception is the admin
page, which a thread serves while records are appended.

Around a pod, the kubelet polls `/ready` and the Service sends calls only to pods
that passed, so that probes decide which calls there are, and calls decide what
the probes find: both use the pod's sessions.

**What is hard.** (1) The shared session: its owner task, the lock held across
connects, cancellation at every `await`, a backend that dies while idle (which
nobody notices) or while busy (which must be noticed). (2) At-least-once
delivery: a call whose answer was lost is sent again. (3) The breaker's late
results and cancelled probes. (4) Lazy refills at integer and fractional
boundaries. (5) Torn writes in a file that is read line by line, while it grows.
(6) A limit that one component puts on time spans and another serves by the
hour. (7) A table whose ids start again after a restart. (8) A readiness probe
over sessions that outlive their backends. (9) A script that changes a cluster
in many steps, each of which may fail.

**What makes each component correct.**
*Backend*: one connection at a time, calls watch the owner of the session they
use, no session is cut by accident, what `BACKEND_UNAVAILABLE` and a second
execution mean, everything ends, close leaves nothing.
*Breaker*: its three tables agree, a server is probed once per cooldown, no
server is refused for ever.
*Limiter*: no window of time above burst plus refill, and patience is rewarded.
*Call path*: only what the policy permits is ever executed, metric and audit
agree with what happened, `UNKNOWN_TOOL` is only said of unknown tools, an open
circuit fails fast.
*Audit*: one torn write costs at most one acknowledged line; the reader invents
nothing; the summary of denials is complete and agrees with the list.
*Readiness*: a pod leaves the Service only if it can reach no backend, then
always, and it comes back.
*Scale-out script*: it measures the configuration it reports, and restores the
baseline whatever fails.
*Policy and ops server*: whatever the policy cannot judge does not pass, every
call gets a decision, and the limit bounds what the server does.
*Agent and ticket server*: ids stay their creator's, a create is executed at
most twice, a denial reaches the report unless the recursion limit cuts the run
off, runs end.

## 2. Modules

| Module | What it is |
|---|---|
| `Upstream` | One Backend with its tasks, connections and the backend process |
| `RemoteCall` | What `Backend.call` promises those who await it: two attempts at most, an answer only if executed |
| `CircuitBreaker` | The breaker and the calls between `allow` and `record_*` |
| `RateLimiter` | The lazily refilled buckets |
| `TokenBucket` | What the limiter promises: a bucket that drips at every tick |
| `AuditLog` | The audit file, the processes that append to it, and the admin page |
| `Readiness` | Pods, their probes, the Service, and the backends they hold sessions with |
| `VerifyScaleout` | The scale-out script and the cluster it changes |
| `ToolCalls` | `call_tool`, `route_call`, `aggregate_tools`, start-up; composes `CircuitBreaker` and `TokenBucket` |
| `LogQuery` | `policy.evaluate` for `query_logs`, and the ops server's loop behind it |
| `TicketServer` | The ticket table |
| `DemoAgent` | The agent graph on top of the gateway's retry and `TicketServer` |
| `MCGuards` | Breaker, limiter and policy side by side, one of them in use: the instances of all three in one model |
| `MC*` | Model values and constant definitions for TLC |
| `*Proofs` | Theorems and proofs about the module of that name; `DeploymentProofs` about `Readiness` and `VerifyScaleout` |

### Upstream
Each action is a segment between two awaits that suspend. `lockQ` is
`asyncio.Lock`, holder first, FIFO. `pc` says what a task waits for: the lock, a
teardown (`await self._task`), a connect (`await ready`), or the race between
its request and the owner task. `stage` tells the attempts of `Backend.call`
apart. A connection task goes opening - open - closing - done; its number is
used again when it is done and nobody refers to it. `Crash` makes all
connections stale. A stale connection never executes a request; its waiting
requests fail by `Reject` (404) or `Unwind`; one without waiting requests
notices nothing. `Drop` is a lost wake-up of a request on closing streams.
`Cancel` is the client's disconnect or the probe's `wait_for`; cancelling a task
in `await self._task` cancels the awaited task instead, and the probe goes on
(`CancelLostInTeardown`, `timedOut`). The lazy `ensure_session` of routing and
listing behaves as a probe whose ping is answered at once. An outage longer
than the read timeout counts as a crash.

### RemoteCall
An at-least-once call without sessions, lock and connections: `Call`, then
`Ask` and `Fail` for an attempt, then `Answer`, `GiveUp` or `Cancel`; `Execute`
and `Crash` happen to requests, abandoned ones included. `Upstream` implements
it (`IsRemoteCall`): `attempt` is `stage` while the call is not idle, `asked`
the calls in the race; queueing, teardowns and connects do not show. It says
nothing of when a call ends. What it lets callers conclude,
`AnsweredIsExecuted`, is what `ToolCalls` (`Returned`) and `DemoAgent`
(`Deliver`) assume of an answer, and that requests of failed attempts may
still be executed is their `BACKEND_UNAVAILABLE` that implies nothing.

### CircuitBreaker
`Admit`/`Refuse` are `allow`; `Land` and its three cases are what follows the
awaited call in `route_call`: success, failure, or a cancellation that reports
nothing (`Abandon`). A call lasts as long as it likes, and its result may come
after others have opened, probed or closed the circuit. Counters and ages
saturate at the threshold and at the cooldown, which the code (and the
properties) only compare with; a threshold below 1 acts as 1.

### RateLimiter and TokenBucket
`Grant` and `TurnAway` are the two outcomes of `allow`.
Tokens are integers in units of a fraction (`Unit` to the token, `Refill` per
tick); the rounding of floats is left out. `IsTokenBucket` is a refinement:
`RateLimiter` implements `TokenBucket` with `level` mapped to the level a refill
would now produce.

### AuditLog
`record` is `Stamp` (the line is built with its time) and the write: up to the
end of the object, then its newline. It may be cut before anything was written
(`CannotOpen`), or in the middle (`Tear`: the disk is full or the process is
killed); what was written stays, and the next record continues the line. A line
is therefore a record with two flags: whether anything else is on it, and
whether its last object is complete. `Procs` processes may hold a stamped
record, so records can be written in another order than their times; the writes
themselves exclude each other (one `write` to a file opened for appending). Two
processes are what the overlay `audit-pvc` makes of a rolling update; in the
base deployment the file dies with its pod, which is `Init` again.

The page is two steps, as its thread can be interrupted between them:
`ReadAudit` takes the file as it is, a write under way included, and `Render`
takes the time and computes both views. `Rows` is what `read_audit` can parse,
`Denials` and `Summary` are `summarize_denials`, `Filtered` is `apply_filters`.

### Readiness
One Backend object is reduced to what probes and calls leave for each other: no
session, a live one, or one to a process that is gone (`"stale"`). A round of
the kubelet is `RoundBegins` (all backends are asked at once), per backend
`Ensure` and `Ping`, either of which may run into the 2 s timeout, and
`RoundEnds` (`any`, and the failure threshold). `Call` enters only at a ready
pod; its first attempt, `Retry` and `Reconnected` are `Backend.call`. `Hang`,
`Die`, `Replace` and `Return` are what happens to a backend: only `Hang` keeps
its sessions. `Collapse` is a connection whose owner task ends because a
request was refused by the host; it has no fairness, since a request may also
go unanswered until the backend is back. `fine` and `dark` are history: the
backends that were reachable throughout a round, and the rounds without any.

### ToolCalls
A call has up to three segments: `Arrive` (authentication, limiter, route),
`Ensured` (the lazy connect returned or raised), `Returned` (the relay
returned). `Finish` is the common tail: metric, then audit line, which may be
lost. Limiter and breaker are both switched on; when they are off the code skips
their step. Of `Backend.call` only its possible results are used: the server's
answer, which implies that it executed the call, or `BACKEND_UNAVAILABLE`, which
implies nothing. `BreakerUse` states that the whole path is an implementation of
`CircuitBreaker!Spec`, with the variable `at` as the breaker's view of a call.

### LogQuery
Times are ticks with an optional offset (naive time stamps have none); `Hour`
ticks make an hour. `Ask`, `Skip`, `Match`, `DefaultDeny` are the loop of
`evaluate` over the entries, `Verdict` is `_check_args`, `Serve`, `Line`,
`EndLines` the loop of `query_logs` from the rounded-down first hour. The policy
is chosen in `QueryInit`, as there is no hot reload. A call ends refused
("denied", or "raised", where `evaluate` throws) or with an answer, and
`SendBack` returns it.

### DemoAgent and TicketServer
`Think`, `Consult`/`AskCreate`/`AskUpdate`/`Deliver`, `RouteAfterTools` and
`Bypass` are the graph's nodes and edges, and `Follow` is what LangGraph does
after each. Of that library (1.2.5, as in `uv.lock`) one thing is taken: after a
node it compares its steps with `recursion_limit` before it looks whether
anything is left to do. A run therefore executes at most `Limit` nodes, and one
that executes as many raises `GraphRecursionError` even if its last node was to
be the end of it: `ainvoke` returns nothing, and `main` prints no report. Such a
run ends as "exhausted", a normal one as "end", one that another exception ends
as "failed"; `metAt` is the step in which the first denial was met. The model is
free: any number of calls, any arguments. A call to the ticket server is
`Backend.call` from outside: `Execute`, `Lose` (the attempt ends without an
answer), `Retry`, `Deliver`; an abandoned attempt may be executed late
(`RunLate`). The table is a sequence because nothing deletes rows and ids are
`AUTOINCREMENT`; `Restart` keeps the file (a process restart) or loses it (a new
container). Calls that change nothing are `Consult`; of `search_tickets` the
agent sees the first hit only, as `_result_text` reads `content[0]`.

### VerifyScaleout
`Plan` is the body of `main`, `RestorePlan` that of `restore`, both sequences of
`Steps`; a rollout is the
calls `SetEnv`, `Scale`, `Status`, `Settle`. Of the toggles, the rate limit and
its zero refill are always set together and are one. `KubectlFails` raises at
any of the four, before or after the effect of the first two; `MeasureFails`
raises in a measurement. Either goes to `restore`, or ends the script if
`restore` was what failed or the script was killed (`unclean`); `Rerun` starts it
again on what it left. A `kubectl` that goes on after its script was killed is
left out.
Measurement A is modelled call by call, with a bucket per pod; what B and C count
is left out. The cluster is external: a Deployment creates at most one pod more
than wanted and removes none below that, and a pod that is being deleted still
serves, though `kubectl rollout status` no longer counts it.

## 3. Runs

| Run | Instance | Shows |
|---|---|---|
| `UpstreamShared` | 2 concurrent calls, 1 close, 5 connections, no cancellation | one connection, right owner watched, no accidental cut, failures and second executions explained, every call ends, close is clean |
| `UpstreamCancel` | 1 call and 1 probe, both cancellable everywhere | the call keeps RemoteCall's promise, the lock is passed on, orphans end |
| `UpstreamHang` | 1 call, 1 cancellable probe | finding 1 |
| `Guards` | breaker: 1 server, 3 calls (2 cancellable) of any length, threshold 2, cooldown 3; limiter: 2 agents, burst 2, 3 units a token, 2 a tick, 6 instants; policy: lists of up to 2 entries with every kind of limit, 2 ticks an hour, naive and aware times | tables, probes and liveness of the breaker; window bound, patience and refinement of the limiter; the policy fails closed and its limit reaches the server |
| `CircuitLate` | the breaker of `Guards` | finding 3 |
| `PolicyRaises` | the policy of `Guards` | finding 4 |
| `AuditReport` | 3 records of 2 agents, 2 processes, a window of 1 in 3 instants | loss bounded, nothing invented, summary complete, both views agree |
| `ToolCalls` | 2 backends, 2 concurrent calls, 1 agent, breaker and limiter at 1 | gate, books, fail fast, refinement of the breaker, listing |
| `ReadyFleet` | 1 pod, 2 backends, threshold 3 | when a pod leaves the Service, when it must, and what alone keeps it out |
| `ReadyDeadlock` | the same | finding 2 |
| `DemoRun` | 2 agents, 2 creates, up to 5 nodes a run | ids, duplicates, denials, termination |
| `Scaleout` | 4 gateway pods, 3 ticket pods, 3 replicas, bucket of 2, 7 probes, 2 runs of the script | what is measured, the limit found, the baseline restored |

Every property of a passing run has a mutant: a definition replaced by a version
with a plausible bug (an operator under a comment "Mutant:", just before it),
under which TLC finds the property violated. So no property holds merely by the
shape of the model. Type invariants and `LockCoherent` are proved, for every value
of the constants, and not run again (section 4).

**Bounds, and why they are enough.**
*MaxConns* bounds connection tasks alive or referred to at one moment; 4 or 5 is
more than one task can leave behind in the runs without cancellation, so the
bound is not reached there. `UpstreamShared` has no probe besides its calls and
its close: with one it is beyond TLC, and the proofs cover it: that close also
finds what probes have left is `CloseIsClean` only. In `UpstreamCancel` it is 2:
a third connect waits until an orphan has ended, which hides pile-ups but no
step of the lock. Numbers are reused, so the number of crashes and reconnects is
not bounded. Two calls suffice for the interference of retries, as a retry only
touches the shared session, task and lock.
*Guards*: the three guards share no state, so one is in use and the others rest;
how a call walks through all of them is `ToolCalls`. Breaker: three calls give a
probe, a late result and a refused call at once, or an old probe beside a new
one; calls have no bound on their length. It treats servers independently, hence
one. Limiter: refill 2 of 3 units makes every fraction occur; `MaxTime` bounds
the clock only because windows are measured from each instant. Policy: two
entries let one shadow another; limits are no number, zero, half an hour and
more.
*AuditReport*: a torn line, the record glued to it, and a good one; with a
window of one instant and three instants, records fall before, on and after its
edge.
*ReadyFleet*: pods share nothing but the backends, which owe them nothing, so
one pod shows what any pod can meet, and the proofs cover any number; two
backends tell `any` from `all`; the threshold is the deployed one.
*Scaleout*: 3 replicas as in the script, and one name more for the pod a rolling
update adds; deleted pods hold their names, so at full size at most one old pod
lingers. Seven probes exceed three buckets of two, as 30 exceed three of five. A
second run is what meets the leavings of the first.
*ToolCalls*: threshold 1 and cooldown 1 bring every state of the breaker about
in a few steps; a second backend tells `Servers` apart and is the one that the
policy denies.
*DemoRun*: `MaxCreates`, `MaxBatch`, `MayBeLate` and the guessed ids are bounds.
Two creates by two agents are what mixes up ids; a batch of two is what brings a
denial and another result. The agent that can be denied has a limit of 5: a
denial in its first batch (step 2) is reported, one in its second (step 4) is
followed by a bypass that uses the limit up, as with the deployed 25. The other
agent has 3, a batch and an answer that comes too late.

**Deadlock** is checked except in `UpstreamShared`, where `close` really ends
everything, in `AuditReport`, where all records are written and the clock is at
its bound, and in `Scaleout`, where the script is over.

**Fairness.** The event loop runs every task that can run, so steps of tasks and
connection tasks are weakly fair. Requests on the wire end because the HTTP
client has a read timeout (300 s), so is `NetStep`. Crashes, restarts, requests,
probes, cancellations and lost wake-ups owe nothing. Time passes: `Tick` is
weakly fair for the breaker of `Guards` and in `ToolCalls`. In `DemoAgent` the
model and the gateway answer; that the gateway does is what `EveryCallEnds` says
in `UpstreamShared`. In `Readiness` the kubelet polls for ever and a round ends
within its budget, calls under way end, while traffic and backends owe nothing:
`StuckOnlyIfStale` and `DeadIsNoticed` must not rest on somebody calling.
`RefusedOnlyByLeak` and `ListedIfAsked` assume that somebody keeps calling.
`VerifyScaleout` has safety properties only.

## 4. What is proved

All theorems hold for every value of the constants allowed by the module's
ASSUME. Every safety property of the runs above, invariant, action property or
refinement, is stated by a theorem. The inductive invariants were checked with TLC
on small instances before they were proved.

*UpstreamProofs.* `TypeCorrect`; `LockIsCoherent` for any set of cancellable
tasks: a conjunct per place a task can wait at says whether it is in `lockQ`,
and that only its head tears down or connects. `ConnectionIsSingle`,
`RacesAreWatched` and `SessionsAreSafe` need more: an owner invariant that ties
`session`, `task`, the starting task's `own` and the live connection together.
It does not survive a cancelled connect, and is proved for
`Cancellable = {}`, which is exactly where finding 1 begins. On top of it,
`UnavailableExplained` and `TwiceExplained` follow a call through its two
attempts: as long as the backend was up and nobody cut the call's connection
(`cut`), its session is fresh, its first attempt succeeds, and nothing is sent
twice. `CloseIsClean` ties the closing task to the lock, from its teardown to
its end.

`ImplementsRemoteCall` needs no such assumption: for any cancellations, and so
in spite of finding 1, every step of `Upstream` is a step of `RemoteCall` or
none. It rests on the lock's invariant and on one conjunct more (`AnswerOK`): an
answer on its way belongs to a request that was executed, and no crash takes
that back. There is one lemma per action; most say that whoever steps is alone
in what `RemoteCall` sees (`Alone`, `Kept`), so that a step of a probe or the
shutdown does not show at all. `AnswersAreTrue` then follows from `RemoteCall`'s
steps alone: a call under way has no result yet, so nothing overwrites the
request behind an answer.

*CircuitBreakerProofs.* `TypeCorrect`, `TablesAlwaysAgree`, `LeaksNeedCancel` and
`ProbeIsAlone`, for calls of any length. A late result can take out the mark of a
probe that is not its own, so the invariant of `ProbeIsAlone` cannot rest on
marks alone. `AgesAgree` says that a call under way on an open circuit is at least
as old as the opening, up to the cooldown, unless it is the probe that holds the
mark: a result that takes a mark out also closes the circuit or starts its
cooldown anew, so the next probe, which has to wait that long, finds every other
one old. That two probes can be under way at all is finding 3.

*RateLimiterProofs.* `WindowBounded` by an invariant for each past grant: what
was granted since then plus what is left in the bucket never exceeds a full
bucket plus the refill since. `PatienceIsServed` by its counterpart: a bucket
that is not full holds at least the refill since the last grant.
`ImplementsTokenBucket` maps each `allow` to a grant or a refusal and
`ClockTick` to a drip.

*ToolCallsProofs.* The invariant is a conjunction per call that ties its `pc` to
the breaker's `at`, to its books and to what was executed. `GateHolds`,
`BooksAgree` and `UnknownOnlyIfUnknown` follow from it. `ImplementsBreaker`
shows every step to be a step of `CircuitBreaker!Next` or a stutter, so what is
proved of the breaker holds in the gateway. `FailsFast` needs that a backend
with an open or counted circuit has been connected to and so has known tools.

*LogQueryProofs.* `LimitHolds` by induction over the served lines:
`(scanned - 1) * Hour <= end - first hour`. `PolicyFailsClosed` and
`AgreeOnTime` from the invariant of the loop over entries; the first says in which
one case `evaluate` raises, finding 4.

*DeploymentProofs, readiness.* `PartialOutageKeepsPods` by an invariant on one
round: a backend in `fine` has not failed it so far, so a round that fails all
of them ends with `fine` empty, and `misses` never exceeds `dark`.
`TrapIsClosed` is the safety half of finding 2, for any number of pods and
backends: no step of probes, calls or connections leads out of `Trapped`.

*DeploymentProofs, scale-out.* For any plan sizes, pods and failures of `kubectl`.
`Known(d)` says when deployment `d` is where the current step of the script
expects it: an earlier step of the same phase set it there, or an earlier run was
restored. `Progress(d)` says how far a rollout under way has come: what is
set, then what `rollout status` has seen, then what `settle` has seen. A cluster
that has rolled out stands still, apart from dying pods that end, and that gives
`MeasuresWhatItSays` and `BaselineIsRestored`. `SectionACounts` adds the buckets:
the probes that passed stand for distinct tokens (`Used`, a finite set whose
cardinality is `passed`) of buckets that were full when the section began
(`Fresh`: their pods are new). With one replica the count is the burst, with
several it is at least that and at most replicas times burst, as the requests may
all have met one pod. `unclean` is the exception, as in section 5.

*AuditLogProofs.* `LossesArePaidFor` and `RowsAreReal` by an invariant that says
which records are on a line of their own, which is under way, and that every
line that holds more than one record, or an incomplete one, was paid for by a
torn write. `SummaryIsHonest` relates the page's copy of the file to the
records acknowledged before the request, by cardinalities of finite sets.
`ViewsAgree`: both views are computed from one copy and one reading of the clock,
so the filtered list holds as many denials as the summary counts.

*DemoAgentProofs.* `IdsAreOwn` by an invariant on the ids known and the one on
its way; `DenialsAreReported` by what each node finds in the state: a denial was
met in the tools node that is being executed, or in the step before the bypass,
so a run that the limit ends with a denial met it in one of its last two nodes.
That is for any limit; no limit leaves room for every bypass. `TwoTicketsAtMost`
by a budget for every create: its rows in the table, its attempt under way and
those abandoned but not yet executed never exceed the attempts made, which
`Retry` bounds by two; a restart that loses the file only frees some of it.

**Only model-checked.** The liveness properties (`EveryCallEnds`, `OrphansEnd`,
`LockIsPassedOn`, `RefusedOnlyByLeak`, `ListedIfAsked`, `RunsEnd`,
`DeadIsNoticed`, `StuckOnlyIfStale`), since fairness and ENABLED are out of the
prover's reach.

## 5. Findings

1. `UpstreamHang` (`G/upstream.py:129`). A cancelled connect leaves a connection
   task behind that publishes its session after a newer task was recorded. A
   call uses that session but watches the newer task, and may wait for ever.
   When the orphan ends, its `finally` clears `_session` whoever published it.
   The proofs say that cancellation is necessary for all of this.
2. `ReadyDeadlock` (`G/app.py:303`). The probe reconnects only where there is no
   session. If all backends are replaced while a pod is idle (a rolling update
   of the servers, or a node that fails), the pod's sessions are stale, every
   ping fails, the pod leaves the Service after three rounds, and then no call
   comes that would tear the sessions down. The comment above the line says
   that the probe is there to prevent just this; lines 311-313 keep the
   session because a hung backend takes up the same one again. `StuckOnlyIfStale`
   shows that stale sessions are the only way to be stuck, and `TrapIsClosed`
   that nothing the pod does leads out.

3. `CircuitLate` (`G/circuit.py:77`). `G/circuit.py:18-20` says that a half-open
   circuit lets exactly one test call through. `record_failure` takes out the
   server's mark whichever call has failed: while a probe is under way, the late
   failure of a call admitted before the opening takes out the probe's mark and
   opens the circuit anew, and after that cooldown a second probe runs beside the
   first. (A late success closes the circuit, with the same effect on the mark.)
   By default the cooldown is 30 s while a read may take 300 s. `OneProbe` and
   `ProbeIsAlone` say what does hold: one probe per cooldown.
4. `PolicyRaises` (`G/policy.py:116`). `G/policy.py:13-16` and 78 say that
   `evaluate` never raises and always returns a Decision. A `max_range_hours` that
   YAML reads as a string raises TypeError once the range can be judged. Nothing
   passes (`FailClosed`), but the call is neither decided nor counted nor audited.

Noted while modelling, and held by the properties that pass:
- After a backend restart, two calls fail and both retry. The second retry tears
  down the connection that the first has just made (`G/upstream.py:133`), and
  the first, in its retry, answers `BACKEND_UNAVAILABLE` although the backend
  is up; or it was executed before the cut, and is executed twice. `cut` marks
  these calls; `UnavailableIsExplained` and `TwiceIsExplained` say that it is
  the only exception. Two calls that always retry together can go on cutting
  each other off.
- A cancelled probe call stays in `_probing` (`G/routes.py:97`), and its server is
  refused until the process restarts. `LeakNeedsCancel` and `RefusedOnlyByLeak`
  say that nothing else does this.

Noted without a run of their own:
- A probe cancelled in `await self._task` (`G/upstream.py:84`) is not ended by its
  2 s budget; it goes on to connect, holding the lock (`timedOut` in `Upstream`).
- A late success closes an open circuit before its cooldown is over
  (`G/circuit.py:71-73`).
- The record after a torn line is glued to it and lost to the reader
  (`G/audit.py:48`): that is the one record of `LossBounded`.
- The metric counts UNKNOWN_TOOL as `error`, which `G/routes.py:33-34` says
  counts failures of gateway and backend only.
- A denial that the demo agent meets when one node or none is left to it ends in
  GraphRecursionError and is not reported (`__main__.py:44-49`), although
  `graph.py:3-6` promises the branch by the graph's structure. `DenialReported`
  and its theorem say that only such a late denial is lost. With
  `recursion_limit` 25 it is one of the twelfth batch.
- Ids that an agent was told before the ticket server lost its file denote other
  tickets afterwards (`db.py:35`), and nothing prevents an `update_status` with
  one. `OwnTickets` is about ids of the present file only.
- `BooksAreTrue` tolerates a call cancelled during its relay (`G/app.py:172`: no
  metric, no line) and a failed audit write (`G/audit.py:49`: a metric without a
  line), as the code does; it says that there is nothing else.
- A policy entry without `tool` stops the start-up in `warn_unknown_tools`
  (`G/policy.py:68`), but only if its backend is up.
- `query_logs` serves the line of the hour that `start` lies in, which may be
  earlier than `start` (`fake_data.py:68`); `LimitReachesServer` allows for it.
- The tools of an open circuit stay out of `tools/list` until somebody calls
  them all the same (`G/aggregate.py:65`), the premise of `ListedIfAsked`.
- A create that ends as `BACKEND_UNAVAILABLE` may have left up to two tickets.
- `search_tickets` finds all tickets, the demo agent reads only the first.
- `since` is checked with `isdigit` so that `int` does not raise
  (`G/admin.py:149-150`), but digits such as a superscript two pass `isdigit`
  and not `int`, and a number beyond `timedelta`'s range raises in the filter.
- `restore` rolls back two deployments in a row (`verify_scaleout.py:100-109`): if
  the first fails, the ticket server keeps its replicas, and the next run
  measures section A's limit with them, possibly from used-up buckets; so does
  one after a script that was killed and never came to `finally`. Hence
  `unclean` in `MeasuredOnTarget` and `RateIsLimit`.
- `settle` takes a pod without `containerStatuses` for ready, as `all` of nothing
  is true (`verify_scaleout.py:71-78`); that `rollout status` comes before it is
  why `MeasuredOnTarget` and `Restored` hold all the same.
- The docs server's `_load` sets `_corpus` before it builds the index
  (`search.py:47-51`): if that raises, as for an empty corpus, later calls take
  the corpus for loaded.

## 6. Not modelled, and why

JWT verification, BM25 scores, span exporters and the MCP SDK are libraries,
present only as what they can return. HTML, formatting, cookies and log texts
carry no property. `from_env` only chooses constants. The docs server reads files
that never change and returns what a library ranks: one lazy load is its only
state. `check_gateway`, `check_servers`, `e2e_demo` and `spike_concurrency` are
straight-line clients without state of their own. Measurements B and C of the
scale-out script count what replicas of the ticket server and of the transport's
sessions answer; the script draws no conclusion from it. The rounding of floats
in the limiter is left out.

## 7. Plan

Done, in this order: `Upstream`, `CircuitBreaker`, `RateLimiter`/`TokenBucket`,
`AuditLog`, `ToolCalls`, `LogQuery`, `TicketServer`/`DemoAgent`, `Readiness`,
the admin page in `AuditLog`, `VerifyScaleout`, each with its runs, then the
proofs of all, then `RemoteCall` and the proof that `Upstream` implements it.

Next, most important first:
1. *RemoteCall on the other side*: `ToolCalls` and `DemoAgent` as users of
   `RemoteCall` by refinement, in place of their own account of `Backend.call`;
   `Readiness` as an abstraction of several `Upstream`s.
2. *Replicas*: limiter, breaker, MCP sessions and ticket table each per pod; what
   clients may rely on then (sections B and C of the script).
3. *Docs server*: the lazily loaded corpus and index.
