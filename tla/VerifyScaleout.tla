--------------------------- MODULE VerifyScaleout ---------------------------
(***************************************************************************)
(* scripts/verify_scaleout.py: it sets and scales the deployments of a     *)
(* real cluster with kubectl, measures the rate limit (A), the lost        *)
(* tickets (B) and the session strategies (C), and restores the baseline   *)
(* in `finally`.  Any kubectl call and any measurement can fail; a kubectl *)
(* call that failed may have taken effect.                                 *)
(*                                                                         *)
(* The cluster is external: a Deployment replaces its pods one by one, at  *)
(* most one above the wanted number and none below it (the defaults of     *)
(* RollingUpdate for so few replicas), and a pod that is being deleted     *)
(* serves requests until it is gone.                                       *)
(***************************************************************************)
EXTENDS Integers, FiniteSets, Sequences

CONSTANTS
    GatewayPods, TicketPods,  \* names for the pods of the two deployments
    Many,                     \* the replicas of a scaled-out deployment
    Capacity,                 \* what a pod's bucket holds
    Probes,                   \* RATE_PROBES
    MaxRuns                   \* bound: how often the script is run

ASSUME ScaleoutAssumption ==
    /\ GatewayPods # {} /\ TicketPods # {} /\ GatewayPods \cap TicketPods = {}
    /\ IsFiniteSet(GatewayPods)
    /\ Many \in Nat \ {0, 1} /\ MaxRuns \in Nat \ {0}
    /\ Capacity \in Nat \ {0} /\ Probes \in Nat /\ Probes > Many * Capacity

Deployments == {"gateway", "ticket-server"}
AllPods     == GatewayPods \cup TicketPods
PodsOf(d)   == IF d = "gateway" THEN GatewayPods ELSE TicketPods

\* GATEWAY_RATE_LIMIT with GATEWAY_RATE_REFILL=0, and GATEWAY_MCP_STATELESS.
Toggles == {"limit", "stateless"}

VARIABLES
    spec,    \* spec[d]: replicas and toggles the deployment asks for
    pods,    \* pods[p]: state, toggles it was started with, tokens left
    phase,   \* "run", "restore", "done" (restored) or "died" (not)
    at,      \* the step of the plan under way
    kubectl, \* the call of a rollout under way
    pinned,  \* the pod a stateful measurement is pinned to, if any
    sent,    \* calls made by the measurement under way
    passed,  \* calls that passed the rate limit
    one,     \* result of section A with one replica, -1 before
    three,   \* result with many replicas, -1 before
    runs,    \* runs begun
    unclean  \* history: a run of the script ended without having restored

measureVars == <<pinned, sent, passed, one, three>>
runVars     == <<runs, unclean>>
scaleoutVars == <<spec, pods, phase, at, kubectl, measureVars, runVars>>

-----------------------------------------------------------------------------
\* The cluster.

Listed(d) == {p \in PodsOf(d) : pods[p].state # "gone"}
Alive(d)  == {p \in PodsOf(d) : pods[p].state \in {"starting", "ready"}}
Ready(d)  == {p \in PodsOf(d) : pods[p].state = "ready"}
Current(d) == {p \in Alive(d) : pods[p].on = spec[d].on}

Serving(d) == {p \in PodsOf(d) : pods[p].state \in {"ready", "dying"}}

CreatePod(d) ==
    /\ Cardinality(Current(d)) < spec[d].n /\ Cardinality(Alive(d)) <= spec[d].n
    /\ \E p \in PodsOf(d) :
          /\ pods[p].state = "gone"
          /\ pods' = [pods EXCEPT ![p] = [state |-> "starting", on |-> spec[d].on,
                                          tokens |-> Capacity]]
    /\ UNCHANGED <<spec, phase, at, kubectl, measureVars, runVars>>

BecomeReady(p) ==
    /\ pods[p].state = "starting" /\ pods' = [pods EXCEPT ![p].state = "ready"]
    /\ UNCHANGED <<spec, phase, at, kubectl, measureVars, runVars>>

\* A pod of an older template, or one too many, is marked for deletion.
DeletePod(d, p) ==
    /\ p \in Alive(d)
    /\ p \notin Current(d) \/ Cardinality(Current(d)) > spec[d].n
    /\ p \in Ready(d) => Cardinality(Ready(d)) > spec[d].n
    /\ pods' = [pods EXCEPT ![p].state = "dying"]
    /\ UNCHANGED <<spec, phase, at, kubectl, measureVars, runVars>>

EndPod(p) ==
    /\ pods[p].state = "dying"
    /\ pods' = [pods EXCEPT ![p].state = "gone", ![p].on = {}, ![p].tokens = 0]
    /\ UNCHANGED <<spec, phase, at, kubectl, measureVars, runVars>>

\* kubectl rollout status: it does not see the pods that are being deleted.
RolledOut(d) ==
    /\ Alive(d) = Current(d) /\ Alive(d) = Ready(d)
    /\ Cardinality(Alive(d)) = spec[d].n

\* Mutant: settle trusts rollout status.
SettledEarly(d, n) == RolledOut(d)

\* settle: exactly n pods are listed and none is being deleted.  Each is ready,
\* or has not reported containerStatuses yet, which all([]) takes for ready.
Settled(d, n) ==
    Cardinality(Listed(d)) = n /\ \A p \in Listed(d) : pods[p].state # "dying"

-----------------------------------------------------------------------------
\* The plan of main(), and of restore().

Rollout(d, n, on, off) ==
    [do |-> "rollout", dep |-> d, n |-> n, on |-> on, off |-> off, set |-> on \cup off # {}]

\* A measurement: the gateway's replicas and toggles it is about, and the
\* ticket server's replicas.
Measure(section, n, on, tickets) ==
    [do |-> section, n |-> n, on |-> on, tickets |-> tickets]

Plan == <<
    Rollout("gateway", 1, {"limit"}, {"stateless"}),
    Measure("rate", 1, {"limit"}, 1),
    Rollout("gateway", Many, {"stateless"}, {}),
    Measure("rate", Many, {"limit", "stateless"}, 1),
    Rollout("gateway", 1, {}, {"limit", "stateless"}),
    Rollout("ticket-server", Many, {}, {}),
    Measure("tickets", 1, {}, Many),
    Rollout("ticket-server", 1, {}, {}),
    Rollout("gateway", Many, {}, {}),
    Measure("sessions", Many, {}, 1),
    Rollout("gateway", Many, {"stateless"}, {}),
    Measure("sessions", Many, {"stateless"}, 1) >>

\* Mutant: the toggles stay.
RestorePlanScalesOnly == <<
    Rollout("gateway", 1, {}, {}),
    Rollout("ticket-server", 1, {}, {}) >>

RestorePlan == <<
    Rollout("gateway", 1, {}, {"limit", "stateless"}),
    Rollout("ticket-server", 1, {}, {}) >>

Steps == IF phase = "restore" THEN RestorePlan ELSE Plan
Step  == Steps[at]

FirstCall(s) == IF s.do = "rollout" /\ ~s.set THEN "scale" ELSE "env"

\* The script leaves the steps of one phase and begins those of another.
Begin(p) ==
    /\ phase' = p /\ at' = 1 /\ kubectl' = "env"
    /\ pinned' = {} /\ sent' = 0 /\ passed' = 0

\* The next step, or `finally`, or the end.
Advance ==
    IF at < Len(Steps)
    THEN /\ phase' = phase /\ at' = at + 1 /\ kubectl' = FirstCall(Steps[at + 1])
         /\ pinned' = {} /\ sent' = 0 /\ passed' = 0
    ELSE Begin(IF phase = "restore" THEN "done" ELSE "restore")

ScaleoutInit ==
    /\ spec = [d \in Deployments |-> [n |-> 1, on |-> {}]]
    /\ \E g \in GatewayPods, t \in TicketPods :
          pods = [p \in AllPods |-> IF p \in {g, t}
                    THEN [state |-> "ready", on |-> {}, tokens |-> Capacity]
                    ELSE [state |-> "gone", on |-> {}, tokens |-> 0]]
    /\ phase = "run" /\ at = 1 /\ kubectl = "env"
    /\ pinned = {} /\ sent = 0 /\ passed = 0 /\ one = -1 /\ three = -1
    /\ runs = 1 /\ unclean = FALSE

-----------------------------------------------------------------------------
\* rollout: set env, scale, rollout status, settle.

ResultsStay == UNCHANGED <<one, three, runs, unclean>>
InRollout(c) == phase \in {"run", "restore"} /\ Step.do = "rollout" /\ kubectl = c
Dep          == Step.dep

EnvSet  == [spec EXCEPT ![Dep].on = (@ \ Step.off) \cup Step.on]
Scaled  == [spec EXCEPT ![Dep].n = Step.n]

NextCall(c) ==
    /\ kubectl' = c
    /\ UNCHANGED <<pods, phase, at, measureVars, runVars>>

SetEnv == InRollout("env")   /\ spec' = EnvSet /\ NextCall("scale")
Scale  == InRollout("scale") /\ spec' = Scaled /\ NextCall("status")
Status == InRollout("status") /\ RolledOut(Dep) /\ UNCHANGED spec /\ NextCall("settle")

Settle ==
    /\ InRollout("settle") /\ Settled(Dep, Step.n) /\ Advance
    /\ UNCHANGED <<spec, pods>> /\ ResultsStay

\* An exception: `finally` restores.  One in restore itself ends the script, and
\* so does a signal that kills it before or while it restores.
Raise ==
    /\ \/ phase = "run" /\ Begin("restore") /\ UNCHANGED unclean
       \/ Begin("died") /\ unclean' = TRUE
    /\ UNCHANGED <<pods, one, three, runs>>

\* Mutant: kubectl does not look at the exit code.
KubectlIgnored ==
    /\ phase \in {"run", "restore"} /\ Step.do = "rollout"
    /\ CASE kubectl = "env"    -> spec' \in {spec, EnvSet} /\ NextCall("scale")
         [] kubectl = "scale"  -> spec' \in {spec, Scaled} /\ NextCall("status")
         [] kubectl = "status" -> UNCHANGED spec /\ NextCall("settle")
         [] kubectl = "settle" -> UNCHANGED <<spec, pods>> /\ Raise

\* kubectl fails, before or after its effect; rollout status and settle also
\* run out of time.
KubectlFails ==
    /\ phase \in {"run", "restore"} /\ Step.do = "rollout"
    /\ spec' \in CASE kubectl = "env"   -> {spec, EnvSet}
                   [] kubectl = "scale" -> {spec, Scaled}
                   [] OTHER             -> {spec}
    /\ Raise

-----------------------------------------------------------------------------
\* The measurements.

Measuring(s) == phase = "run" /\ Step.do = s

\* measure_rate: `initialize` pins a stateful session to the pod that answers.
Initialize(p) ==
    /\ Measuring("rate") /\ "stateless" \notin Step.on /\ pinned = {}
    /\ p \in Serving("gateway") /\ pinned' = {p}
    /\ UNCHANGED <<spec, pods, phase, at, kubectl, sent, passed, one, three, runVars>>

\* One probe; the bucket of the pod that answers is not refilled.
Probe(p) ==
    /\ Measuring("rate") /\ sent < Probes /\ p \in Serving("gateway")
    /\ "stateless" \notin Step.on => pinned = {p}
    /\ LET limited == "limit" \in pods[p].on
       IN  /\ passed' = IF limited /\ pods[p].tokens = 0 THEN passed ELSE passed + 1
           /\ pods' = IF limited /\ pods[p].tokens > 0
                      THEN [pods EXCEPT ![p].tokens = @ - 1] ELSE pods
    /\ sent' = sent + 1
    /\ UNCHANGED <<spec, phase, at, kubectl, pinned, one, three, runVars>>

RateMeasured ==
    /\ Measuring("rate") /\ sent = Probes /\ Advance
    /\ IF Step.n = 1 THEN one' = passed /\ UNCHANGED three
                     ELSE three' = passed /\ UNCHANGED one
    /\ UNCHANGED <<spec, pods, runVars>>

\* Sections B and C: what they count is left out.
OtherMeasured ==
    /\ Measuring("tickets") \/ Measuring("sessions")
    /\ Advance /\ UNCHANGED <<spec, pods>> /\ ResultsStay

MeasureFails ==
    /\ Measuring("rate") \/ Measuring("tickets") \/ Measuring("sessions")
    /\ UNCHANGED spec /\ Raise

\* The script is run again.
Rerun ==
    /\ phase \in {"done", "died"} /\ runs < MaxRuns
    /\ Begin("run") /\ runs' = runs + 1 /\ one' = -1 /\ three' = -1
    /\ UNCHANGED <<spec, pods, unclean>>

Cluster ==
    \/ \E d \in Deployments : CreatePod(d) \/ \E p \in PodsOf(d) : DeletePod(d, p)
    \/ \E p \in AllPods : BecomeReady(p) \/ EndPod(p)

Script ==
    \/ SetEnv \/ Scale \/ Status \/ Settle \/ KubectlFails
    \/ \E p \in GatewayPods : Initialize(p) \/ Probe(p)
    \/ RateMeasured \/ OtherMeasured \/ MeasureFails \/ Rerun

ScaleoutNext == Cluster \/ Script

ScaleoutSpec == ScaleoutInit /\ [][ScaleoutNext]_scaleoutVars

-----------------------------------------------------------------------------
\* Properties.

\* While a section measures, every pod a request can reach - the ones that
\* are being deleted included - was started with the toggles the section is
\* about, and there are as many as its heading says (scripts/
\* verify_scaleout.py:61-97: what `settle` adds to `rollout status`).  The
\* ticket server is only sure to be as section A and C expect it when every
\* earlier run has restored: nothing sets it before section B.
MeasuredOnTarget ==
    phase = "run" /\ Step.do # "rollout" =>
        /\ Cardinality(Serving("gateway")) = Step.n
        /\ \A p \in Serving("gateway") : pods[p].on = Step.on
        /\ ~unclean => Cardinality(Serving("ticket-server")) = Step.tickets

\* Unless an earlier run has not restored, section A counts exactly the
\* capacity with one replica, and with many at least that and at most as
\* many times it as there are replicas: no call is counted against a pod
\* without the limit, and none against a bucket an earlier section or an
\* earlier, failed run had used (verify_scaleout.py:140-156, 263-279).
RateIsLimit ==
    ~unclean => /\ one \in {-1, Capacity}
                /\ three = -1 \/ three \in Capacity .. Many * Capacity

\* A run that ends without an exception from restore, whatever failed before,
\* leaves one ready pod of each deployment, without a toggle and with no old
\* pod left, for as long as the script is not run again (verify_scaleout.py:
\* 100-109, 303-305).
Restored ==
    phase = "done" => \A d \in Deployments :
        /\ spec[d] = [n |-> 1, on |-> {}]
        /\ Cardinality(Listed(d)) = 1
        /\ \A p \in Listed(d) : pods[p].state = "ready" /\ pods[p].on = {}
=============================================================================
