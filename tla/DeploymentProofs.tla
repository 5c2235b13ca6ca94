-------------------------- MODULE DeploymentProofs --------------------------
(***************************************************************************)
(* Proofs about the two models of the deployment.                          *)
(*                                                                         *)
(* Readiness, for any number of pods and backends and any failure          *)
(* threshold: types, and that partial outages cost no pod its place in the *)
(* Service.                                                                *)
(*                                                                         *)
(* VerifyScaleout, for any pods, capacity, number of replicas, probes and  *)
(* runs: what the sections of the script measure is what their headings    *)
(* say, section A counts the limit, and a run that ends has restored the   *)
(* baseline.                                                               *)
(***************************************************************************)
EXTENDS Readiness, VerifyScaleout, FiniteSetTheorems, TLAPS


\* A backend that is fine since the round began has not failed its probe.
FineOK ==
    \A p \in Pods, b \in Backends : b \in fine[p] =>
        /\ up[b] /\ session[p][b] # "stale" /\ ~Connecting(p, b)
        /\ probe[p][b] \in {"asked", "ping", "ok"}
        /\ probe[p][b] = "ping" => session[p][b] = "live"

\* The kubelet counts no more failed rounds than there were dark ones.
DarkOK == \A p \in Pods : misses[p] <= dark[p]

Inv == TypeOK /\ FineOK /\ DarkOK

LEMMA UpToType ==
    ASSUME NEW n \in 0 .. FailureThreshold
    PROVE  UpTo(n) \in 0 .. FailureThreshold
  BY ReadinessAssumption DEF UpTo

LEMMA UpToMonotone ==
    ASSUME NEW m \in 0 .. FailureThreshold, NEW n \in 0 .. FailureThreshold, m <= n
    PROVE  UpTo(m) <= UpTo(n)
  BY ReadinessAssumption DEF UpTo

ProbeAt   == {"idle", "asked", "ping", "ok", "failed"}
SessionIs == {"none", "live", "stale"}
CallAt    == {"none", "sent", "failed", "opening"}

\* g is the table f, entries in S, but for the entry of p and b.
Near(S, f, g, p, b) ==
    /\ g \in [Pods -> [Backends -> S]]
    /\ \A q \in Pods, c \in Backends : q # p \/ c # b => g[q][c] = f[q][c]

LEMMA EntryReplaced ==
    ASSUME NEW S, NEW f \in [Pods -> [Backends -> S]], NEW p \in Pods,
           NEW b \in Backends, NEW v \in S, NEW g, g = [f EXCEPT ![p][b] = v]
    PROVE  Near(S, f, g, p, b) /\ g[p][b] = v
  BY DEF Near

LEMMA EntryKept ==
    ASSUME NEW S, NEW f \in [Pods -> [Backends -> S]], NEW p \in Pods,
           NEW b \in Backends, NEW g, g = f
    PROVE  Near(S, f, g, p, b)
  BY DEF Near

LEMMA Tables ==
    ASSUME TypeOK
    PROVE  /\ probe \in [Pods -> [Backends -> ProbeAt]]
           /\ session \in [Pods -> [Backends -> SessionIs]]
           /\ call \in [Pods -> [Backends -> CallAt]]
           /\ fine \in [Pods -> SUBSET Backends]
  BY DEF TypeOK, ProbeAt, SessionIs, CallAt

\* A step of pod p with backend b keeps the invariant, if what it leaves
\* behind fits a backend that is fine.
LEMMA PairStep ==
    ASSUME Inv, NEW p \in Pods, NEW b \in Backends,
           Near(ProbeAt, probe, probe', p, b),
           Near(SessionIs, session, session', p, b),
           Near(CallAt, call, call', p, b),
           UNCHANGED <<up, misses, ready, dark>>,
           fine' \in [Pods -> SUBSET Backends],
           \A q \in Pods : fine'[q] \subseteq fine[q],
           b \in fine'[p] =>
              /\ session'[p][b] # "stale" /\ call'[p][b] # "opening"
              /\ ~(call'[p][b] = "sent" /\ session'[p][b] = "none")
              /\ probe'[p][b] \in {"asked", "ping", "ok"}
              /\ probe'[p][b] = "ping" => session'[p][b] = "live"
    PROVE  Inv'
<1>0. TypeOK /\ FineOK /\ DarkOK
  BY DEF Inv
<1>1. TypeOK'
  BY <1>0 DEF TypeOK, ProbeAt, SessionIs, CallAt, Near
<1>2. ASSUME NEW q \in Pods, NEW c \in Backends, c \in fine'[q]
      PROVE  /\ up'[c] /\ session'[q][c] # "stale" /\ ~Connecting(q, c)'
             /\ probe'[q][c] \in {"asked", "ping", "ok"}
             /\ probe'[q][c] = "ping" => session'[q][c] = "live"
  <2>1. c \in fine[q] /\ up[c]
    BY <1>0, <1>2 DEF FineOK
  <2>2. CASE q = p /\ c = b
    BY <1>2, <2>1, <2>2 DEF Connecting
  <2>3. CASE q # p \/ c # b
    <3>1. /\ session[q][c] # "stale" /\ ~Connecting(q, c)
          /\ probe[q][c] \in {"asked", "ping", "ok"}
          /\ probe[q][c] = "ping" => session[q][c] = "live"
      BY <1>0, <2>1 DEF FineOK
    <3>2. /\ probe'[q][c] = probe[q][c] /\ session'[q][c] = session[q][c]
          /\ call'[q][c] = call[q][c]
      BY <2>3 DEF Near
    <3>3. QED
      BY <2>1, <3>1, <3>2 DEF Connecting
  <2>4. QED
    BY <2>2, <2>3
<1>3. FineOK' /\ DarkOK'
  BY <1>0, <1>2 DEF FineOK, DarkOK
<1>4. QED
  BY <1>1, <1>3 DEF Inv

-----------------------------------------------------------------------------
LEMMA InitInv == Init => Inv
<1> SUFFICES ASSUME Init PROVE Inv
  OBVIOUS
<1>1. TypeOK
  BY ReadinessAssumption DEF Init, TypeOK, Connected
<1>2. FineOK /\ DarkOK
  BY DEF Init, FineOK, DarkOK
<1>3. QED
  BY <1>1, <1>2 DEF Inv

\* The steps of a round.
LEMMA ProbingInv ==
    ASSUME Inv, NEW p \in Pods, Probing(p)
    PROVE  Inv'
<1>0. TypeOK /\ FineOK /\ DarkOK
  BY DEF Inv
<1>1. ASSUME RoundBegins(p) PROVE Inv'
  <2>1. TypeOK'
    BY <1>0, <1>1 DEF RoundBegins, TypeOK
  <2>2. FineOK'
    BY <1>0, <1>1 DEF RoundBegins, TypeOK, FineOK, Connecting
  <2>3. DarkOK'
    BY <1>0, <1>1 DEF RoundBegins, DarkOK
  <2>4. QED
    BY <2>1, <2>2, <2>3 DEF Inv
<1>2. ASSUME RoundEnds(p) PROVE Inv'
  <2>1. /\ misses'[p] \in 0 .. FailureThreshold
        /\ dark'[p] \in 0 .. FailureThreshold
        /\ misses'[p] <= dark'[p]
    <3>1. /\ misses[p] \in 0 .. FailureThreshold
          /\ dark[p] \in 0 .. FailureThreshold
          /\ misses[p] <= dark[p]
      BY <1>0 DEF TypeOK, DarkOK
    <3>2. CASE \E b \in Backends : probe[p][b] = "ok"
      <4>1. misses'[p] = 0
        BY <1>0, <1>2, <3>2 DEF RoundEnds, TypeOK
      <4>2. dark'[p] \in {UpTo(dark[p]), 0}
        BY <1>0, <1>2 DEF RoundEnds, TypeOK
      <4>3. QED
        BY <3>1, <4>1, <4>2, UpToType, ReadinessAssumption
    <3>3. CASE ~\E b \in Backends : probe[p][b] = "ok"
      <4>1. fine[p] = {}
        BY <1>0, <1>2, <3>3 DEF RoundEnds, FineOK, TypeOK
      <4>2. dark'[p] = UpTo(dark[p]) /\ misses'[p] = UpTo(misses[p])
        BY <1>0, <1>2, <3>3, <4>1 DEF RoundEnds, TypeOK
      <4>3. QED
        BY <3>1, <4>2, UpToType, UpToMonotone
    <3>4. QED
      BY <3>2, <3>3
  <2>2. \A q \in Pods \ {p} : misses'[q] = misses[q] /\ dark'[q] = dark[q]
    BY <1>0, <1>2 DEF RoundEnds, TypeOK
  <2>3. /\ misses' \in [Pods -> 0 .. FailureThreshold]
        /\ dark' \in [Pods -> 0 .. FailureThreshold]
    <3>1. misses' = [misses EXCEPT ![p] = misses'[p]]
      BY <1>0, <1>2 DEF RoundEnds, TypeOK
    <3>2. dark' = [dark EXCEPT ![p] = dark'[p]]
      BY <1>0, <1>2 DEF RoundEnds, TypeOK
    <3>3. QED
      BY <1>0, <2>1, <3>1, <3>2 DEF TypeOK
  <2>4. TypeOK'
    BY <1>0, <1>2, <2>3 DEF RoundEnds, TypeOK
  <2>5. FineOK'
    BY <1>0, <1>2 DEF RoundEnds, FineOK, TypeOK, Connecting
  <2>6. DarkOK'
    BY <1>0, <2>1, <2>2 DEF DarkOK
  <2>7. QED
    BY <2>4, <2>5, <2>6 DEF Inv
<1>3. ASSUME NEW b \in Backends, Ensure(p, b) \/ LockTimeout(p, b) \/ Ping(p, b)
      PROVE  Inv'
  <2>0. fine' = fine /\ UNCHANGED <<up, call, misses, ready, dark>>
    BY <1>3 DEF Ensure, LockTimeout, Ping
  <2>1. b \in fine[p] => /\ up[b] /\ session[p][b] # "stale" /\ ~Connecting(p, b)
                         /\ probe[p][b] = "ping" => session[p][b] = "live"
    BY <1>0 DEF FineOK
  <2>2. /\ "ping" \in ProbeAt /\ "ok" \in ProbeAt /\ "failed" \in ProbeAt
        /\ "live" \in SessionIs
    BY DEF ProbeAt, SessionIs
  <2>3. /\ Near(ProbeAt, probe, probe', p, b)
        /\ Near(SessionIs, session, session', p, b)
        /\ b \in fine[p] =>
              /\ session'[p][b] # "stale" /\ probe'[p][b] \in {"ping", "ok"}
              /\ probe'[p][b] = "ping" => session'[p][b] = "live"
              /\ session[p][b] # "none" => session'[p][b] # "none"
    <3>1. CASE Ensure(p, b) /\ session[p][b] # "none"
      <4>1. probe' = [probe EXCEPT ![p][b] = "ping"] /\ session' = session
        BY <3>1 DEF Ensure
      <4>2. /\ Near(ProbeAt, probe, probe', p, b) /\ probe'[p][b] = "ping"
            /\ Near(SessionIs, session, session', p, b)
        BY <1>0, <2>2, <4>1, Tables, EntryReplaced, EntryKept
      <4>3. b \in fine[p] => session[p][b] = "live"
        BY <1>0, <2>1, <3>1, Tables DEF SessionIs
      <4>4. QED
        BY <4>1, <4>2, <4>3
    <3>2. CASE Ensure(p, b) /\ session[p][b] = "none" /\ up[b]
      <4>1. /\ probe' = [probe EXCEPT ![p][b] = "ping"]
            /\ session' = [session EXCEPT ![p][b] = "live"]
        BY <3>2 DEF Ensure
      <4>2. /\ Near(ProbeAt, probe, probe', p, b) /\ probe'[p][b] = "ping"
            /\ Near(SessionIs, session, session', p, b) /\ session'[p][b] = "live"
        BY <1>0, <2>2, <4>1, Tables, EntryReplaced
      <4>3. QED
        BY <4>2
    <3>3. CASE LockTimeout(p, b) \/ (Ensure(p, b) /\ session[p][b] = "none" /\ ~up[b])
      <4>1. /\ probe' = [probe EXCEPT ![p][b] = "failed"] /\ session' = session
            /\ b \notin fine[p]
        BY <2>1, <3>3 DEF Ensure, LockTimeout
      <4>2. /\ Near(ProbeAt, probe, probe', p, b)
            /\ Near(SessionIs, session, session', p, b)
        BY <1>0, <2>2, <4>1, Tables, EntryReplaced, EntryKept
      <4>3. QED
        BY <4>1, <4>2
    <3>4. CASE Ping(p, b)
      <4> DEFINE v == IF up[b] /\ session[p][b] = "live" THEN "ok" ELSE "failed"
      <4>1. /\ probe' = [probe EXCEPT ![p][b] = v] /\ probe[p][b] = "ping"
            /\ session' = session
        BY <3>4 DEF Ping
      <4>2. v \in ProbeAt /\ (b \in fine[p] => v = "ok")
        BY <2>1, <2>2, <4>1
      <4> HIDE DEF v
      <4>3. /\ Near(ProbeAt, probe, probe', p, b) /\ probe'[p][b] = v
            /\ Near(SessionIs, session, session', p, b)
        BY <1>0, <4>1, <4>2, Tables, EntryReplaced, EntryKept
      <4>4. QED
        BY <2>1, <4>1, <4>2, <4>3
    <3>5. QED
      BY <1>3, <3>1, <3>2, <3>3, <3>4
  <2>4. Near(CallAt, call, call', p, b)
    BY <1>0, <2>0, Tables, EntryKept
  <2>5. b \in fine[p] => /\ call'[p][b] # "opening"
                         /\ ~(call'[p][b] = "sent" /\ session[p][b] = "none")
    BY <2>0, <2>1 DEF Connecting
  <2>6. QED
    BY <1>0, <2>0, <2>3, <2>4, <2>5, Tables, PairStep
<1>4. QED
  BY <1>1, <1>2, <1>3 DEF Probing

\* The steps of calls.
LEMMA CallInv ==
    ASSUME Inv, NEW p \in Pods, NEW b \in Backends,
           Call(p, b) \/ Relaying(p, b) \/ Collapse(p, b)
    PROVE  Inv'
<1>0. TypeOK /\ FineOK /\ DarkOK
  BY DEF Inv
<1>1. b \in fine[p] => /\ up[b] /\ session[p][b] # "stale" /\ ~Connecting(p, b)
                       /\ probe[p][b] \in {"asked", "ping", "ok"}
                       /\ probe[p][b] = "ping" => session[p][b] = "live"
  BY <1>0 DEF FineOK
<1>2. /\ probe \in [Pods -> [Backends -> ProbeAt]]
      /\ session \in [Pods -> [Backends -> SessionIs]]
      /\ call \in [Pods -> [Backends -> CallAt]]
      /\ fine \in [Pods -> SUBSET Backends]
  BY <1>0, Tables
<1>3. /\ {"none", "sent", "failed", "opening"} \subseteq CallAt
      /\ {"none", "live"} \subseteq SessionIs
  BY DEF CallAt, SessionIs
<1>4. CASE Call(p, b)
  <2>1. /\ call' = [call EXCEPT ![p][b] = "sent"]
        /\ UNCHANGED <<up, session, probe, misses, ready, dark>>
        /\ fine' = [fine EXCEPT ![p] = IF session[p][b] = "none"
                                       THEN fine[p] \ {b} ELSE fine[p]]
    BY <1>4 DEF Call
  <2>2. /\ fine' \in [Pods -> SUBSET Backends]
        /\ \A q \in Pods : fine'[q] \subseteq fine[q]
        /\ b \in fine'[p] => b \in fine[p] /\ session[p][b] # "none"
    BY <1>2, <2>1
  <2>3. Near(CallAt, call, call', p, b) /\ call'[p][b] = "sent"
    BY <1>2, <1>3, <2>1, EntryReplaced
  <2>4. Near(ProbeAt, probe, probe', p, b) /\ Near(SessionIs, session, session', p, b)
    BY <1>2, <2>1, EntryKept
  <2>5. QED
    BY <1>1, <2>1, <2>2, <2>3, <2>4, PairStep
<1>5. CASE Answer(p, b)
  <2>1. /\ call' = [call EXCEPT ![p][b] = "none"]
        /\ session' = [session EXCEPT ![p][b] = "live"]
        /\ UNCHANGED <<up, probe, misses, ready, fine, dark>>
    BY <1>5 DEF Answer
  <2>2. Near(CallAt, call, call', p, b) /\ call'[p][b] = "none"
    BY <1>2, <1>3, <2>1, EntryReplaced
  <2>3. Near(SessionIs, session, session', p, b) /\ session'[p][b] = "live"
    BY <1>2, <1>3, <2>1, EntryReplaced
  <2>4. Near(ProbeAt, probe, probe', p, b)
    BY <1>2, <2>1, EntryKept
  <2>5. QED
    BY <1>1, <1>2, <2>1, <2>2, <2>3, <2>4, PairStep
<1>6. CASE CallFails(p, b)
  <2>1. /\ call' = [call EXCEPT ![p][b] = "failed"]
        /\ UNCHANGED <<up, session, probe, misses, ready, fine, dark>>
    BY <1>6 DEF CallFails
  <2>2. Near(CallAt, call, call', p, b) /\ call'[p][b] = "failed"
    BY <1>2, <1>3, <2>1, EntryReplaced
  <2>3. Near(ProbeAt, probe, probe', p, b) /\ Near(SessionIs, session, session', p, b)
    BY <1>2, <2>1, EntryKept
  <2>4. QED
    BY <1>1, <1>2, <2>1, <2>2, <2>3, PairStep
<1> DEFINE cut == IF probe[p][b] = "ping" THEN "failed" ELSE probe[p][b]
<1>7. cut \in ProbeAt /\ PingCut(p, b) = [probe EXCEPT ![p][b] = cut]
  BY <1>2 DEF PingCut, ProbeAt
<1> HIDE DEF cut
<1>8. CASE Retry(p, b)
  <2>1. /\ call' = [call EXCEPT ![p][b] = "opening"]
        /\ session' = [session EXCEPT ![p][b] = "none"]
        /\ probe' = [probe EXCEPT ![p][b] = cut]
        /\ UNCHANGED <<up, misses, ready, dark>>
        /\ fine' = [fine EXCEPT ![p] = fine[p] \ {b}]
    BY <1>7, <1>8 DEF Retry
  <2>2. /\ fine' \in [Pods -> SUBSET Backends]
        /\ \A q \in Pods : fine'[q] \subseteq fine[q]
        /\ b \notin fine'[p]
    BY <1>2, <2>1
  <2>3. Near(CallAt, call, call', p, b)
    BY <1>2, <1>3, <2>1, EntryReplaced
  <2>4. Near(SessionIs, session, session', p, b)
    BY <1>2, <1>3, <2>1, EntryReplaced
  <2>5. Near(ProbeAt, probe, probe', p, b)
    BY <1>2, <1>7, <2>1, EntryReplaced
  <2>6. QED
    BY <2>1, <2>2, <2>3, <2>4, <2>5, PairStep
<1>9. CASE Reconnected(p, b)
  <2>1. PICK s \in SessionIs : session' = [session EXCEPT ![p][b] = s]
    BY <1>3, <1>9 DEF Reconnected
  <2>2. /\ call' = [call EXCEPT ![p][b] = "none"]
        /\ UNCHANGED <<up, probe, misses, ready, fine, dark>>
        /\ b \notin fine[p]
    BY <1>1, <1>9 DEF Reconnected, Connecting
  <2>3. Near(SessionIs, session, session', p, b)
    BY <1>2, <2>1, EntryReplaced
  <2>4. Near(CallAt, call, call', p, b)
    BY <1>2, <1>3, <2>2, EntryReplaced
  <2>5. Near(ProbeAt, probe, probe', p, b)
    BY <1>2, <2>2, EntryKept
  <2>6. QED
    BY <1>2, <2>2, <2>3, <2>4, <2>5, PairStep
<1>10. CASE Collapse(p, b)
  <2> DEFINE k == IF call[p][b] = "sent" THEN "failed" ELSE call[p][b]
  <2>1. /\ call' = [call EXCEPT ![p][b] = k]
        /\ session' = [session EXCEPT ![p][b] = "none"]
        /\ probe' = [probe EXCEPT ![p][b] = cut]
        /\ UNCHANGED <<up, misses, ready, fine, dark>>
        /\ b \notin fine[p]
    BY <1>1, <1>7, <1>10 DEF Collapse
  <2>2. k \in CallAt
    BY <1>2, <1>3
  <2> HIDE DEF k
  <2>3. Near(CallAt, call, call', p, b)
    BY <1>2, <2>1, <2>2, EntryReplaced
  <2>4. Near(SessionIs, session, session', p, b)
    BY <1>2, <1>3, <2>1, EntryReplaced
  <2>5. Near(ProbeAt, probe, probe', p, b)
    BY <1>2, <1>7, <2>1, EntryReplaced
  <2>6. QED
    BY <1>2, <2>1, <2>3, <2>4, <2>5, PairStep
<1>11. QED
  BY <1>4, <1>5, <1>6, <1>8, <1>9, <1>10 DEF Relaying

\* The steps of backends and of pods.
LEMMA EnvironmentInv ==
    ASSUME Inv,
           \/ \E b \in Backends : Hang(b) \/ Die(b) \/ Replace(b) \/ Return(b)
           \/ \E p \in Pods : PodRestarts(p)
    PROVE  Inv'
<1>0. TypeOK /\ FineOK /\ DarkOK
  BY DEF Inv
<1>1. ASSUME NEW b \in Backends, Hang(b) \/ Die(b) \/ Replace(b) \/ Return(b)
      PROVE  Inv'
  <2>1. Stale(b) \in [Pods -> [Backends -> {"none", "live", "stale"}]]
        /\ NotFine(b) \in [Pods -> SUBSET Backends]
    BY <1>0 DEF Stale, NotFine, TypeOK
  <2>2. TypeOK'
    BY <1>0, <1>1, <2>1 DEF Hang, Die, Replace, Return, TypeOK
  <2>3. ASSUME NEW p \in Pods, NEW c \in Backends, c \in fine'[p]
        PROVE  /\ c \in fine[p] /\ session'[p][c] = session[p][c] /\ up'[c]
    <3>1. CASE Return(b)
      BY <1>0, <2>3, <3>1 DEF Return, FineOK, TypeOK
    <3>2. CASE Hang(b) \/ Die(b) \/ Replace(b)
      <4>1. c # b /\ c \in fine[p]
        BY <2>3, <3>2 DEF Hang, Die, Replace, NotFine
      <4>2. session'[p][c] = session[p][c]
        BY <1>0, <3>2, <4>1 DEF Hang, Die, Replace, Stale, TypeOK
      <4>3. QED
        BY <1>0, <3>2, <4>1, <4>2 DEF Hang, Die, Replace, FineOK, TypeOK
    <3>3. QED
      BY <1>1, <3>1, <3>2
  <2>4. UNCHANGED <<probe, call, misses, dark>>
    BY <1>1 DEF Hang, Die, Replace, Return
  <2>5. FineOK'
    BY <1>0, <2>3, <2>4 DEF FineOK, Connecting
  <2>6. DarkOK'
    BY <1>0, <2>4 DEF DarkOK
  <2>7. QED
    BY <2>2, <2>5, <2>6 DEF Inv
<1>2. ASSUME NEW p \in Pods, PodRestarts(p) PROVE Inv'
  <2>1. TypeOK'
    BY <1>0, <1>2, ReadinessAssumption DEF PodRestarts, Connected, TypeOK
  <2>2. FineOK' /\ DarkOK'
    BY <1>0, <1>2 DEF PodRestarts, FineOK, DarkOK, TypeOK, Connecting
  <2>3. QED
    BY <2>1, <2>2 DEF Inv
<1>3. QED
  BY <1>1, <1>2

LEMMA NextInv == Inv /\ [Next]_vars => Inv'
<1> SUFFICES ASSUME Inv, [Next]_vars PROVE Inv'
  OBVIOUS
<1>1. CASE UNCHANGED vars
  BY <1>1 DEF vars, Inv, TypeOK, FineOK, DarkOK, Connecting
<1>2. CASE Next
  BY <1>2, ProbingInv, CallInv, EnvironmentInv DEF Next
<1>3. QED
  BY <1>1, <1>2

LEMMA InvHolds == Spec => []Inv
  BY InitInv, NextInv, PTL DEF Spec

-----------------------------------------------------------------------------
\* The variables keep their types.
THEOREM TypeCorrect == Spec => []TypeOK
<1>1. Inv => TypeOK
  BY DEF Inv
<1>2. QED
  BY <1>1, InvHolds, PTL

\* A pod leaves the Service only after FailureThreshold rounds without one
\* backend that was reachable throughout: the verdict any(results) and the
\* two-second budget never take a pod out because of a part of its backends
\* (app.py:294-297).
THEOREM PartialOutageKeepsPods == Spec => LeavesOnlyInTheDark
<1> DEFINE A == \A p \in Pods : p \in ready \ ready' =>
                    dark'[p] = FailureThreshold \/ PodRestarts(p)
<1>1. Inv /\ Inv' /\ [Next]_vars => [A]_vars
  <2> SUFFICES ASSUME Inv, Inv', Next, NEW p \in Pods, p \in ready \ ready',
                      ~PodRestarts(p)
               PROVE  dark'[p] = FailureThreshold
    OBVIOUS
  <2>1. ASSUME NEW q \in Pods, PodRestarts(q) PROVE FALSE
    BY <2>1 DEF PodRestarts
  <2>2. ASSUME NEW q \in Pods, NEW b \in Backends,
               Call(q, b) \/ Relaying(q, b) \/ Collapse(q, b)
        PROVE  FALSE
    BY <2>2 DEF Call, Relaying, Answer, CallFails, Retry, Reconnected, Collapse
  <2>3. ASSUME NEW b \in Backends, Hang(b) \/ Die(b) \/ Replace(b) \/ Return(b)
        PROVE  FALSE
    BY <2>3 DEF Hang, Die, Replace, Return
  <2>4. PICK q \in Pods : Probing(q)
    BY <2>1, <2>2, <2>3 DEF Next
  <2>5. RoundEnds(q)
    BY <2>4 DEF Probing, RoundBegins, Ensure, LockTimeout, Ping
  <2>6. q = p /\ misses'[q] = FailureThreshold
    BY <2>5 DEF RoundEnds
  <2>7. QED
    BY <2>6, ReadinessAssumption DEF Inv, TypeOK, DarkOK
<1>2. QED
  BY <1>1, InvHolds, PTL DEF Spec, LeavesOnlyInTheDark

\* Why the readiness probe does not undo what an unnoticed restart does
\* (app.py:303-314): no step of a kubelet, a probe or a call leads a trapped
\* pod out.  It takes another outage that a probe falls into, or a restart of
\* the pod.
THEOREM TrapIsClosed ==
    ASSUME TypeOK, NEW p \in Pods, Trapped(p),
           [\E q \in Pods : \/ Probing(q)
                           \/ \E b \in Backends :
                                 Call(q, b) \/ Relaying(q, b) \/ Collapse(q, b)]_vars
    PROVE  Trapped(p)'
<1>1. CASE UNCHANGED vars
  BY <1>1 DEF vars, Trapped
<1>2. ASSUME NEW q \in Pods, Probing(q), q # p PROVE Trapped(p)'
  <2>1. UNCHANGED <<up, call>> /\ session'[p] = session[p]
        /\ (p \in ready' => p \in ready) /\ probe'[p] = probe[p]
    BY <1>2 DEF Probing, RoundBegins, RoundEnds, Ensure, LockTimeout, Ping, TypeOK
  <2>2. QED
    BY <2>1 DEF Trapped
<1>3. ASSUME Probing(p) PROVE Trapped(p)'
  <2>1. CASE RoundBegins(p)
    BY <2>1 DEF RoundBegins, Trapped, TypeOK
  <2>2. CASE RoundEnds(p)
    BY <2>2 DEF RoundEnds, Trapped, TypeOK
  <2>3. ASSUME NEW b \in Backends, Ensure(p, b) \/ LockTimeout(p, b) \/ Ping(p, b)
        PROVE  Trapped(p)'
    <3>1. UNCHANGED <<up, call, ready, session>> /\ ~Connecting(p, b)
      BY <2>3 DEF Ensure, LockTimeout, Ping, Trapped, Connecting
    <3>2. \/ probe' = [probe EXCEPT ![p][b] = "ping"]
          \/ probe' = [probe EXCEPT ![p][b] = "failed"]
      BY <2>3 DEF Ensure, LockTimeout, Ping, Trapped
    <3>3. \A c \in Backends : probe'[p][c] # "ok"
      BY <3>2 DEF Trapped, TypeOK
    <3>4. QED
      BY <3>1, <3>3 DEF Trapped
  <2>4. QED
    BY <1>3, <2>1, <2>2, <2>3 DEF Probing
<1>4. ASSUME NEW q \in Pods, NEW b \in Backends,
             Call(q, b) \/ Relaying(q, b) \/ Collapse(q, b)
      PROVE  Trapped(p)'
  <2>1. q # p
    BY <1>4 DEF Call, Relaying, Answer, CallFails, Retry, Reconnected, Collapse,
       Trapped
  <2>2. UNCHANGED <<up, ready>> /\ session'[p] = session[p]
        /\ call'[p] = call[p] /\ probe'[p] = probe[p]
    BY <1>4, <2>1 DEF Call, Relaying, Answer, CallFails, Retry, Reconnected,
       Collapse, PingCut, TypeOK
  <2>3. QED
    BY <2>2 DEF Trapped
<1>5. QED
  BY <1>1, <1>2, <1>3, <1>4

-----------------------------------------------------------------------------
\* The scale-out verification.

\* The types of VerifyScaleout.
Template == [n : Nat, on : SUBSET Toggles]
PodStates == {"gone", "starting", "ready", "dying"}
PodRecord == [state : PodStates, on : SUBSET Toggles, tokens : 0 .. Capacity]

ScaleoutTypes ==
    /\ spec \in [Deployments -> Template]
    /\ pods \in [AllPods -> PodRecord]
    /\ phase \in {"run", "restore", "done", "died"}
    /\ at \in 1 .. (IF phase = "restore" THEN 2 ELSE 12)
    /\ kubectl \in {"env", "scale", "status", "settle"}
    /\ pinned \subseteq GatewayPods
    /\ sent \in 0 .. Probes /\ passed \in 0 .. sent
    /\ one \in -1 .. Probes /\ three \in -1 .. Probes
    /\ runs \in 1 .. MaxRuns /\ unclean \in BOOLEAN

\* What restore leaves each deployment with.
Baseline == [n |-> 1, on |-> {}]

\* What the deployments ask for when main() comes to step k of its plan.
GatewayAt(k) ==
    CASE k \in {2, 3}           -> [n |-> 1, on |-> {"limit"}]
      [] k \in {4, 5}           -> [n |-> Many, on |-> {"limit", "stateless"}]
      [] k \in {1, 6, 7, 8, 9}  -> Baseline
      [] k \in {10, 11}         -> [n |-> Many, on |-> {}]
      [] OTHER                  -> [n |-> Many, on |-> {"stateless"}]
TicketsAt(k) == IF k \in {7, 8} THEN [n |-> Many, on |-> {}] ELSE Baseline
DeploymentAt(d, k) == IF d = "gateway" THEN GatewayAt(k) ELSE TicketsAt(k)

\* d is known to be as the step under way expects it; it is when an earlier
\* step of the phase has set it, or a run that was restored left it so.
Known(d) ==
    \/ phase = "run" /\ (~unclean \/ at > (IF d = "gateway" THEN 1 ELSE 6))
    \/ phase = "restore" /\ d = "gateway" /\ at = 2
    \/ phase = "done"

\* What the step under way expects of d, and what its rollout makes of it.
Before(d) == IF phase = "run" THEN DeploymentAt(d, at) ELSE Baseline
Target(d) == IF phase = "run" THEN DeploymentAt(d, at + 1) ELSE Baseline

\* The pods of d are all of its template, and none of an older one is left.
NoneDying(d) == \A p \in PodsOf(d) : pods[p].state # "dying"
Clean(d) == RolledOut(d) /\ NoneDying(d)

\* A rollout of d has been begun.
Changing(d) ==
    /\ phase \in {"run", "restore"} /\ Step.do = "rollout" /\ Step.dep = d
    /\ kubectl # "env"

\* How far the rollout of d has come.
Progress(d) ==
    /\ kubectl = "scale" => spec[d].on = Target(d).on
    /\ kubectl \in {"status", "settle"} => spec[d] = Target(d)
    /\ kubectl = "settle" => RolledOut(d)

\* A deployment is on its way to what the rollout aims at, or where it is
\* known to be.
DeploymentOK(d) ==
    IF Changing(d) THEN Progress(d) ELSE Known(d) => spec[d] = Before(d) /\ Clean(d)

\* The script knows the deployments; nothing ever sets a toggle of the ticket
\* server, and only a restore that failed ends in "died".
ScriptOK ==
    /\ spec["ticket-server"].on = {}
    /\ phase = "died" => unclean
    /\ \A d \in Deployments : DeploymentOK(d)

\* A pod that is gone, or not yet there, has no toggles.
GoneOK == \A p \in AllPods : pods[p].state = "gone" => pods[p].on = {}

\* The calls counted against the buckets of the pods that serve.
Used ==
    {u \in Serving("gateway") \X (1 .. Capacity) : u[2] > pods[u[1]].tokens}

\* The buckets section A counts are full when it begins, and what it counts
\* is what is missing from them.
Fresh(on) == \A p \in GatewayPods : on \subseteq pods[p].on => pods[p].tokens = Capacity
BucketsOK ==
    /\ at = 1 => Fresh({"limit"})
    /\ at = 3 => Fresh({"limit", "stateless"})
    /\ at \in {2, 4} =>
          /\ passed = Cardinality(Used)
          /\ passed < sent => \E p \in Serving("gateway") : pods[p].tokens = 0

\* A run that died while it restored can leave a used bucket to the next one.
BucketsInv == ~unclean => (phase = "run" => BucketsOK) /\ RateIsLimit

ScaleoutInv == ScaleoutTypes /\ ScriptOK /\ GoneOK /\ BucketsInv

-----------------------------------------------------------------------------
\* The plan, step by step.

\* What the plan says, row by row.
LEMMA PlanLengths == Len(Plan) = 12 /\ Len(RestorePlan) = 2
  BY DEF Plan, RestorePlan

LEMMA StepsAre ==
    /\ phase = "restore" => Steps = RestorePlan /\ Len(Steps) = 2
    /\ phase = "run" => Steps = Plan /\ Len(Steps) = 12
  BY PlanLengths DEF Steps

LEMMA PlanRows ==
    /\ Plan[1] = Rollout("gateway", 1, {"limit"}, {"stateless"})
    /\ Plan[2] = Measure("rate", 1, {"limit"}, 1)
    /\ Plan[3] = Rollout("gateway", Many, {"stateless"}, {})
    /\ Plan[4] = Measure("rate", Many, {"limit", "stateless"}, 1)
    /\ Plan[5] = Rollout("gateway", 1, {}, {"limit", "stateless"})
    /\ Plan[6] = Rollout("ticket-server", Many, {}, {})
    /\ Plan[7] = Measure("tickets", 1, {}, Many)
    /\ Plan[8] = Rollout("ticket-server", 1, {}, {})
    /\ Plan[9] = Rollout("gateway", Many, {}, {})
    /\ Plan[10] = Measure("sessions", Many, {}, 1)
    /\ Plan[11] = Rollout("gateway", Many, {"stateless"}, {})
    /\ Plan[12] = Measure("sessions", Many, {"stateless"}, 1)
    /\ RestorePlan[1] = Rollout("gateway", 1, {}, {"limit", "stateless"})
    /\ RestorePlan[2] = Rollout("ticket-server", 1, {}, {})
  BY DEF Plan, RestorePlan

\* What it expects, row by row.
LEMMA ExpectedGateway ==
    /\ GatewayAt(1) = Baseline
    /\ GatewayAt(2) = [n |-> 1, on |-> {"limit"}]
    /\ GatewayAt(3) = [n |-> 1, on |-> {"limit"}]
    /\ GatewayAt(4) = [n |-> Many, on |-> {"limit", "stateless"}]
    /\ GatewayAt(5) = [n |-> Many, on |-> {"limit", "stateless"}]
    /\ GatewayAt(6) = Baseline /\ GatewayAt(7) = Baseline
    /\ GatewayAt(8) = Baseline /\ GatewayAt(9) = Baseline
    /\ GatewayAt(10) = [n |-> Many, on |-> {}]
    /\ GatewayAt(11) = [n |-> Many, on |-> {}]
    /\ GatewayAt(12) = [n |-> Many, on |-> {"stateless"}]
  BY DEF GatewayAt

LEMMA ExpectedTickets ==
    /\ \A k \in {1, 2, 3, 4, 5, 6, 9, 10, 11, 12} : TicketsAt(k) = Baseline
    /\ \A k \in {7, 8} : TicketsAt(k) = [n |-> Many, on |-> {}]
  BY DEF TicketsAt

LEMMA ToggleSets ==
    /\ \A s \in SUBSET Toggles :
          /\ (s \ {"stateless"}) \cup {"limit"} = {"limit"}
          /\ (s \ {"limit", "stateless"}) \cup {} = {}
    /\ ({"limit"} \ {}) \cup {"stateless"} = {"limit", "stateless"}
    /\ ({} \ {}) \cup {"stateless"} = {"stateless"}
    /\ ({} \ {}) \cup {} = {}
  BY DEF Toggles

\* The rollout of d to n replicas, with these toggles set and these removed,
\* makes of the template step k expects the one step l expects, whatever the
\* template when k is the first step, and the other deployment has no part in it.
Fits(k, l, d, n, on, off) ==
    /\ d \in Deployments /\ n = DeploymentAt(d, l).n /\ n \in Nat
    /\ on \subseteq Toggles
    /\ (DeploymentAt(d, k).on \ off) \cup on = DeploymentAt(d, l).on
    /\ k = 1 => \A s \in SUBSET Toggles : (s \ off) \cup on = DeploymentAt(d, l).on
    /\ on \cup off = {} => k > 1
    /\ d = "ticket-server" => on = {} /\ k > 1
    /\ \A e \in Deployments \ {d} :
          /\ DeploymentAt(e, l) = DeploymentAt(e, k)
          /\ k # (IF e = "gateway" THEN 1 ELSE 6)

\* The rollouts of the gateway, and those of the ticket server, fit.
LEMMA GatewayFits ==
    ASSUME NEW k \in 1 .. 12, NEW l \in 1 .. 12, NEW n \in Nat,
           NEW on \in SUBSET Toggles, NEW off \in SUBSET Toggles,
           k # 6, TicketsAt(l) = TicketsAt(k), GatewayAt(l).n = n,
           (GatewayAt(k).on \ off) \cup on = GatewayAt(l).on,
           k = 1 => /\ on # {}
                    /\ \A s \in SUBSET Toggles : (s \ off) \cup on = GatewayAt(l).on
    PROVE  Fits(k, l, "gateway", n, on, off)
<1>1. \A e \in Deployments \ {"gateway"} : e = "ticket-server"
  BY DEF Deployments
<1>2. "gateway" \in Deployments
  BY DEF Deployments
<1>3. \A i \in 1 .. 12 : DeploymentAt("gateway", i) = GatewayAt(i)
                      /\ DeploymentAt("ticket-server", i) = TicketsAt(i)
  BY DEF DeploymentAt
<1>4. QED
  BY <1>1, <1>2, <1>3 DEF Fits

LEMMA TicketsFit ==
    ASSUME NEW k \in 2 .. 12, NEW l \in 1 .. 12, NEW n \in Nat,
           GatewayAt(l) = GatewayAt(k), TicketsAt(l).n = n,
           TicketsAt(l).on = {}, TicketsAt(k).on = {}
    PROVE  Fits(k, l, "ticket-server", n, {}, {})
<1>1. \A e \in Deployments \ {"ticket-server"} : e = "gateway"
  BY DEF Deployments
<1>2. "ticket-server" \in Deployments
  BY DEF Deployments
<1>3. \A i \in 1 .. 12 : DeploymentAt("gateway", i) = GatewayAt(i)
                      /\ DeploymentAt("ticket-server", i) = TicketsAt(i)
  BY DEF DeploymentAt
<1>4. QED
  BY <1>1, <1>2, <1>3 DEF Fits

LEMMA RolloutFields ==
    ASSUME NEW d, NEW n, NEW on, NEW off, NEW r, r = Rollout(d, n, on, off)
    PROVE  /\ r.do = "rollout" /\ r.dep = d /\ r.n = n /\ r.on = on /\ r.off = off
           /\ ~r.set => on \cup off = {}
  BY DEF Rollout

LEMMA MeasureFields ==
    ASSUME NEW s, NEW n, NEW on, NEW tickets, NEW r, r = Measure(s, n, on, tickets)
    PROVE  r.do = s /\ r.n = n /\ r.on = on /\ r.tickets = tickets
  BY DEF Measure

\* A rollout makes of what its step expects what the next step expects.
LEMMA PlanRollouts ==
    ASSUME NEW k \in 1 .. 12, Plan[k].do = "rollout"
    PROVE  /\ k < 12 /\ k \notin {2, 4}
           /\ Fits(k, k + 1, Plan[k].dep, Plan[k].n, Plan[k].on, Plan[k].off)
           /\ ~Plan[k].set => Plan[k].on \cup Plan[k].off = {}
<1>1. k \in {1, 3, 5, 6, 8, 9, 11}
  BY PlanRows DEF Rollout, Measure
<1>2. {"limit"} \subseteq Toggles /\ {"stateless"} \subseteq Toggles
      /\ {"limit", "stateless"} \subseteq Toggles /\ {} \subseteq Toggles
      /\ Many \in Nat /\ "limit" \in {"limit"}
  BY ScaleoutAssumption DEF Toggles
<1>3. CASE k = 1
  <2>0. Plan[1] = Rollout("gateway", 1, {"limit"}, {"stateless"})
    BY PlanRows
  <2>1. /\ GatewayAt(1).on = {}
        /\ GatewayAt(2).n = 1 /\ GatewayAt(2).on = {"limit"}
        /\ TicketsAt(2) = TicketsAt(1)
    BY ExpectedGateway, ExpectedTickets DEF Baseline
  <2>2. (GatewayAt(1).on \ {"stateless"}) \cup {"limit"} = GatewayAt(2).on
    BY <2>1
  <2>3. \A s \in SUBSET Toggles : (s \ {"stateless"}) \cup {"limit"} = GatewayAt(2).on
    BY <2>1, ToggleSets
  <2>4. Fits(1, 2, "gateway", 1, {"limit"}, {"stateless"})
    BY <1>2, <2>1, <2>2, <2>3, GatewayFits
  <2>5. QED
    BY <1>3, <2>0, <2>4, RolloutFields
<1>4. CASE k = 3
  <2>0. Plan[3] = Rollout("gateway", Many, {"stateless"}, {})
    BY PlanRows
  <2>1. /\ GatewayAt(3).on = {"limit"}
        /\ GatewayAt(4).n = Many /\ GatewayAt(4).on = {"limit", "stateless"}
        /\ TicketsAt(4) = TicketsAt(3)
    BY ExpectedGateway, ExpectedTickets DEF Baseline
  <2>2. (GatewayAt(3).on \ {}) \cup {"stateless"} = GatewayAt(4).on
    BY <2>1
  <2>3. Fits(3, 4, "gateway", Many, {"stateless"}, {})
    BY <1>2, <2>1, <2>2, GatewayFits
  <2>4. QED
    BY <1>4, <2>0, <2>3, RolloutFields
<1>5. CASE k = 5
  <2>0. Plan[5] = Rollout("gateway", 1, {}, {"limit", "stateless"})
    BY PlanRows
  <2>1. /\ GatewayAt(5).on = {"limit", "stateless"}
        /\ GatewayAt(6).n = 1 /\ GatewayAt(6).on = {}
        /\ TicketsAt(6) = TicketsAt(5)
    BY ExpectedGateway, ExpectedTickets DEF Baseline
  <2>2. (GatewayAt(5).on \ {"limit", "stateless"}) \cup {} = GatewayAt(6).on
    BY <2>1
  <2>3. Fits(5, 6, "gateway", 1, {}, {"limit", "stateless"})
    BY <1>2, <2>1, <2>2, GatewayFits
  <2>4. QED
    BY <1>5, <2>0, <2>3, RolloutFields
<1>6. CASE k = 6
  <2>0. Plan[6] = Rollout("ticket-server", Many, {}, {})
    BY PlanRows
  <2>1. /\ TicketsAt(6).on = {}
        /\ TicketsAt(7).n = Many /\ TicketsAt(7).on = {}
        /\ GatewayAt(7) = GatewayAt(6)
    BY ExpectedGateway, ExpectedTickets DEF Baseline
  <2>2. Fits(6, 7, "ticket-server", Many, {}, {})
    BY <1>2, <2>1, TicketsFit
  <2>3. QED
    BY <1>6, <2>0, <2>2, RolloutFields
<1>7. CASE k = 8
  <2>0. Plan[8] = Rollout("ticket-server", 1, {}, {})
    BY PlanRows
  <2>1. /\ TicketsAt(8).on = {}
        /\ TicketsAt(9).n = 1 /\ TicketsAt(9).on = {}
        /\ GatewayAt(9) = GatewayAt(8)
    BY ExpectedGateway, ExpectedTickets DEF Baseline
  <2>2. Fits(8, 9, "ticket-server", 1, {}, {})
    BY <1>2, <2>1, TicketsFit
  <2>3. QED
    BY <1>7, <2>0, <2>2, RolloutFields
<1>8. CASE k = 9
  <2>0. Plan[9] = Rollout("gateway", Many, {}, {})
    BY PlanRows
  <2>1. /\ GatewayAt(9).on = {}
        /\ GatewayAt(10).n = Many /\ GatewayAt(10).on = {}
        /\ TicketsAt(10) = TicketsAt(9)
    BY ExpectedGateway, ExpectedTickets DEF Baseline
  <2>2. (GatewayAt(9).on \ {}) \cup {} = GatewayAt(10).on
    BY <2>1
  <2>3. Fits(9, 10, "gateway", Many, {}, {})
    BY <1>2, <2>1, <2>2, GatewayFits
  <2>4. QED
    BY <1>8, <2>0, <2>3, RolloutFields
<1>9. CASE k = 11
  <2>0. Plan[11] = Rollout("gateway", Many, {"stateless"}, {})
    BY PlanRows
  <2>1. /\ GatewayAt(11).on = {}
        /\ GatewayAt(12).n = Many /\ GatewayAt(12).on = {"stateless"}
        /\ TicketsAt(12) = TicketsAt(11)
    <3>1. GatewayAt(11).on = {}
      BY ExpectedGateway
    <3>2. GatewayAt(12).n = Many /\ GatewayAt(12).on = {"stateless"}
      BY ExpectedGateway
    <3>3. TicketsAt(12) = TicketsAt(11)
      BY ExpectedTickets
    <3>4. QED
      BY <3>1, <3>2, <3>3
  <2>2. (GatewayAt(11).on \ {}) \cup {"stateless"} = GatewayAt(12).on
    BY <2>1
  <2>3. Fits(11, 12, "gateway", Many, {"stateless"}, {})
    BY <1>2, <2>1, <2>2, GatewayFits
  <2>4. QED
    BY <1>9, <2>0, <2>3, RolloutFields
<1>10. QED
  BY <1>1, <1>3, <1>4, <1>5, <1>6, <1>7, <1>8, <1>9

\* A measurement is about what its step expects, and changes nothing.
LEMMA PlanMeasures ==
    ASSUME NEW k \in 1 .. 12, Plan[k].do # "rollout"
    PROVE  /\ k \in {2, 4, 7, 10, 12}
           /\ Plan[k].n = GatewayAt(k).n /\ Plan[k].on = GatewayAt(k).on
           /\ Plan[k].tickets = TicketsAt(k).n
           /\ Plan[k].do = "rate" <=> k \in {2, 4}
           /\ \A d \in Deployments : k < 12 => DeploymentAt(d, k + 1) = DeploymentAt(d, k)
<1>1. k \in {2, 4, 7, 10, 12}
  BY PlanRows DEF Rollout, Measure
<1>2. k < 12 => GatewayAt(k + 1) = GatewayAt(k) /\ TicketsAt(k + 1) = TicketsAt(k)
  BY <1>1 DEF GatewayAt, TicketsAt
<1>3. \A d \in Deployments : k < 12 => DeploymentAt(d, k + 1) = DeploymentAt(d, k)
  BY <1>2 DEF DeploymentAt
<1>4. PICK s \in {"rate", "tickets", "sessions"} :
          /\ Plan[k] = Measure(s, GatewayAt(k).n, GatewayAt(k).on, TicketsAt(k).n)
          /\ s = "rate" <=> k \in {2, 4}
  <2>1. CASE k = 2
    BY <2>1, PlanRows, ExpectedGateway, ExpectedTickets DEF Baseline
  <2>2. CASE k = 4
    <3>1. Plan[4] = Measure("rate", Many, {"limit", "stateless"}, 1)
      BY PlanRows
    <3>2. GatewayAt(4).n = Many /\ GatewayAt(4).on = {"limit", "stateless"}
      BY ExpectedGateway
    <3>3. TicketsAt(4).n = 1
      BY ExpectedTickets DEF Baseline
    <3>4. QED
      BY <2>2, <3>1, <3>2, <3>3
  <2>3. CASE k = 7
    BY <2>3, PlanRows, ExpectedGateway, ExpectedTickets DEF Baseline
  <2>4. CASE k = 10
    BY <2>4, PlanRows, ExpectedGateway, ExpectedTickets DEF Baseline
  <2>5. CASE k = 12
    <3>1. Plan[12] = Measure("sessions", Many, {"stateless"}, 1)
      BY PlanRows
    <3>2. GatewayAt(12).n = Many /\ GatewayAt(12).on = {"stateless"}
      BY ExpectedGateway
    <3>3. TicketsAt(12).n = 1
      BY ExpectedTickets DEF Baseline
    <3>4. QED
      BY <2>5, <3>1, <3>2, <3>3
  <2>6. QED
    BY <1>1, <2>1, <2>2, <2>3, <2>4, <2>5
<1>5. QED
  BY <1>1, <1>3, <1>4, MeasureFields

\* Both rollouts of restore aim at the baseline.
LEMMA RestoreRows ==
    /\ RestorePlan[1].do = "rollout" /\ RestorePlan[1].dep = "gateway"
    /\ RestorePlan[1].n = 1 /\ RestorePlan[1].on = {} /\ RestorePlan[1].off = Toggles
    /\ ~RestorePlan[1].set => FALSE
    /\ RestorePlan[2].do = "rollout" /\ RestorePlan[2].dep = "ticket-server"
    /\ RestorePlan[2].n = 1 /\ RestorePlan[2].on = {}
<1>1. RestorePlan[1] = Rollout("gateway", 1, {}, {"limit", "stateless"})
  BY PlanRows
<1>2. RestorePlan[2] = Rollout("ticket-server", 1, {}, {})
  BY PlanRows
<1>3. "limit" \in {} \cup {"limit", "stateless"}
  OBVIOUS
<1>4. QED
  BY <1>1, <1>2, <1>3, RolloutFields DEF Toggles
-----------------------------------------------------------------------------
\* Types.

LEMMA BeginTypes ==
    ASSUME NEW p \in {"run", "restore", "done", "died"}, Begin(p)
    PROVE  /\ phase' = p /\ at' = 1 /\ at' \in 1 .. (IF phase' = "restore" THEN 2 ELSE 12)
           /\ kubectl' \in {"env", "scale", "status", "settle"}
           /\ pinned' \subseteq GatewayPods
           /\ sent' \in 0 .. Probes /\ passed' \in 0 .. sent'
  BY ScaleoutAssumption DEF Begin

\* Where the script goes from a step it has done.
LEMMA AdvanceTo ==
    ASSUME ScaleoutTypes, phase \in {"run", "restore"}, Advance
    PROVE  /\ kubectl' \in {"env", "scale"} /\ pinned' = {} /\ sent' = 0 /\ passed' = 0
           /\ \/ /\ phase' = phase /\ at' = at + 1
                 /\ at < (IF phase = "run" THEN 12 ELSE 2)
                 /\ kubectl' = FirstCall(Steps[at + 1])
              \/ /\ phase = "run" /\ at = 12 /\ phase' = "restore" /\ at' = 1
                 /\ kubectl' = "env"
              \/ /\ phase = "restore" /\ at = 2 /\ phase' = "done" /\ at' = 1
                 /\ kubectl' = "env"
<1>1. /\ Len(Steps) = IF phase = "run" THEN 12 ELSE 2
      /\ at \in 1 .. Len(Steps)
  BY StepsAre DEF ScaleoutTypes
<1>2. \A s : FirstCall(s) \in {"env", "scale"}
  BY DEF FirstCall
<1>3. CASE at < Len(Steps)
  BY <1>1, <1>2, <1>3 DEF Advance
<1>4. CASE at = Len(Steps)
  BY <1>1, <1>4 DEF Advance, Begin
<1>5. QED
  BY <1>1, <1>3, <1>4

LEMMA AdvanceTypes ==
    ASSUME ScaleoutTypes, phase \in {"run", "restore"}, Advance
    PROVE  /\ phase' \in {"run", "restore", "done", "died"}
           /\ at' \in 1 .. (IF phase' = "restore" THEN 2 ELSE 12)
           /\ kubectl' \in {"env", "scale", "status", "settle"}
           /\ pinned' \subseteq GatewayPods
           /\ sent' \in 0 .. Probes /\ passed' \in 0 .. sent'
<1>1. at \in Nat
  BY DEF ScaleoutTypes
<1>2. phase' \in {"run", "restore", "done"}
  BY AdvanceTo
<1>3. at' \in 1 .. (IF phase' = "restore" THEN 2 ELSE 12)
  BY <1>1, AdvanceTo
<1>4. /\ kubectl' \in {"env", "scale", "status", "settle"}
      /\ pinned' \subseteq GatewayPods
      /\ sent' \in 0 .. Probes /\ passed' \in 0 .. sent'
  BY AdvanceTo, ScaleoutAssumption
<1>5. QED
  BY <1>2, <1>3, <1>4

\* The template and the pods of a deployment, typed.
LEMMA EntryTypes ==
    ASSUME ScaleoutTypes, NEW d \in Deployments
    PROVE  /\ spec[d] \in Template /\ spec[d].n \in Nat /\ spec[d].on \in SUBSET Toggles
           /\ PodsOf(d) \subseteq AllPods
           /\ \A p \in PodsOf(d) : /\ pods[p] \in PodRecord
                                   /\ pods[p].state \in PodStates
                                   /\ pods[p].on \in SUBSET Toggles
                                   /\ pods[p].tokens \in 0 .. Capacity
<1>1. spec[d] \in Template
  BY DEF ScaleoutTypes
<1>2. PodsOf(d) \subseteq AllPods
  BY DEF PodsOf, AllPods
<1>3. \A p \in PodsOf(d) : pods[p] \in PodRecord
  BY <1>2 DEF ScaleoutTypes
<1>4. QED
  BY <1>1, <1>2, <1>3 DEF Template, PodRecord

\* A pod's record, but for one field.
LEMMA PodChanged ==
    ASSUME ScaleoutTypes, NEW p \in AllPods, NEW r \in PodRecord,
           pods' = [pods EXCEPT ![p] = r]
    PROVE  /\ pods' \in [AllPods -> PodRecord] /\ pods'[p] = r
           /\ \A q \in AllPods : q # p => pods'[q] = pods[q]
  BY DEF ScaleoutTypes

\* The pod CreatePod starts.
LEMMA NewPod ==
    ASSUME ScaleoutTypes, NEW d \in Deployments, CreatePod(d)
    PROVE  \E p \in PodsOf(d) :
              /\ pods[p].state = "gone"
              /\ pods' \in [AllPods -> PodRecord]
              /\ pods'[p].state = "starting" /\ pods'[p].on = spec[d].on
              /\ pods'[p].tokens = Capacity
              /\ \A q \in AllPods : q # p => pods'[q] = pods[q]
<1>1. PICK p \in PodsOf(d) :
         /\ pods[p].state = "gone"
         /\ pods' = [pods EXCEPT ![p] = [state |-> "starting", on |-> spec[d].on,
                                         tokens |-> Capacity]]
  BY DEF CreatePod
<1> DEFINE r == [state |-> "starting", on |-> spec[d].on, tokens |-> Capacity]
<1>2. r \in PodRecord
  BY ScaleoutAssumption, EntryTypes DEF PodRecord, PodStates
<1>3. p \in AllPods
  BY EntryTypes
<1>4. r.state = "starting" /\ r.on = spec[d].on /\ r.tokens = Capacity
  OBVIOUS
<1>5. pods' = [pods EXCEPT ![p] = r]
  BY <1>1
<1> HIDE DEF r
<1>6. /\ pods' \in [AllPods -> PodRecord] /\ pods'[p] = r
      /\ \A q \in AllPods : q # p => pods'[q] = pods[q]
  BY <1>2, <1>3, <1>5, PodChanged
<1>7. QED
  BY <1>1, <1>4, <1>6

\* What a step of the cluster other than CreatePod does to a pod: it goes on
\* to the next state, and is without toggles when it is gone.
Passes(p, s, t) ==
    /\ pods[p].state = s /\ pods'[p].state = t
    /\ pods' \in [AllPods -> PodRecord]
    /\ pods'[p].on = IF t = "gone" THEN {} ELSE pods[p].on
    /\ pods'[p].tokens = IF t = "gone" THEN 0 ELSE pods[p].tokens
    /\ \A q \in AllPods : q # p => pods'[q] = pods[q]

\* The record EndPod leaves.
LEMMA GonePod ==
    ASSUME NEW r \in PodRecord
    PROVE  [r EXCEPT !.state = "gone", !.on = {}, !.tokens = 0]
              = [state |-> "gone", on |-> {}, tokens |-> 0]
<1>1. PICK s : s = [r EXCEPT !.state = "gone"]
  OBVIOUS
<1>2. s = [state |-> "gone", on |-> r.on, tokens |-> r.tokens]
  BY <1>1 DEF PodRecord
<1>3. PICK t : t = [s EXCEPT !.on = {}]
  OBVIOUS
<1>4. t = [state |-> "gone", on |-> {}, tokens |-> r.tokens]
  BY <1>2, <1>3
<1>5. [t EXCEPT !.tokens = 0] = [state |-> "gone", on |-> {}, tokens |-> 0]
  BY <1>4
<1>6. QED
  BY <1>1, <1>3, <1>5

\* What the cluster does to a pod that is there.
LEMMA OldPod ==
    ASSUME ScaleoutTypes, NEW p \in AllPods
    PROVE  /\ BecomeReady(p) => Passes(p, "starting", "ready")
           /\ EndPod(p) => Passes(p, "dying", "gone")
           /\ \A d \in Deployments : DeletePod(d, p) =>
                 Passes(p, "starting", "dying") \/ Passes(p, "ready", "dying")
<1>0. pods[p] \in PodRecord /\ pods \in [AllPods -> PodRecord]
  BY DEF ScaleoutTypes
<1>1. ASSUME BecomeReady(p) PROVE Passes(p, "starting", "ready")
  <2> DEFINE r == [pods[p] EXCEPT !.state = "ready"]
  <2>1. /\ r \in PodRecord /\ r.state = "ready" /\ r.on = pods[p].on
        /\ r.tokens = pods[p].tokens
    BY <1>0 DEF PodRecord, PodStates
  <2>2. pods' = [pods EXCEPT ![p] = r] /\ pods[p].state = "starting"
    BY <1>1 DEF BecomeReady
  <2> HIDE DEF r
  <2>3. /\ pods' \in [AllPods -> PodRecord] /\ pods'[p] = r
        /\ \A q \in AllPods : q # p => pods'[q] = pods[q]
    BY <2>1, <2>2, PodChanged
  <2>4. QED
    BY <2>1, <2>2, <2>3 DEF Passes
<1>2. ASSUME EndPod(p) PROVE Passes(p, "dying", "gone")
  <2> DEFINE r == [state |-> "gone", on |-> {}, tokens |-> 0]
  <2>1. /\ r \in PodRecord /\ r.state = "gone" /\ r.on = {} /\ r.tokens = 0
    BY ScaleoutAssumption DEF PodRecord, PodStates
  <2>2. pods' = [pods EXCEPT ![p] = r] /\ pods[p].state = "dying"
    BY <1>0, <1>2, GonePod DEF EndPod
  <2> HIDE DEF r
  <2>3. /\ pods' \in [AllPods -> PodRecord] /\ pods'[p] = r
        /\ \A q \in AllPods : q # p => pods'[q] = pods[q]
    BY <2>1, <2>2, PodChanged
  <2>4. QED
    BY <2>1, <2>2, <2>3 DEF Passes
<1>3. ASSUME NEW d \in Deployments, DeletePod(d, p)
      PROVE  Passes(p, "starting", "dying") \/ Passes(p, "ready", "dying")
  <2> DEFINE r == [pods[p] EXCEPT !.state = "dying"]
  <2>1. /\ r \in PodRecord /\ r.state = "dying" /\ r.on = pods[p].on
        /\ r.tokens = pods[p].tokens
    BY <1>0 DEF PodRecord, PodStates
  <2>2. pods' = [pods EXCEPT ![p] = r] /\ pods[p].state \in {"starting", "ready"}
    BY <1>3 DEF DeletePod, Alive
  <2> HIDE DEF r
  <2>3. /\ pods' \in [AllPods -> PodRecord] /\ pods'[p] = r
        /\ \A q \in AllPods : q # p => pods'[q] = pods[q]
    BY <2>1, <2>2, PodChanged
  <2>4. QED
    BY <2>1, <2>2, <2>3 DEF Passes
<1>4. QED
  BY <1>1, <1>2, <1>3

\* The types hold in every step.
LEMMA ClusterTypes ==
    ASSUME ScaleoutTypes, Cluster
    PROVE  /\ ScaleoutTypes'
           /\ UNCHANGED <<spec, phase, at, kubectl, measureVars, runVars>>
<1>1. UNCHANGED <<spec, phase, at, kubectl, measureVars, runVars>>
  BY DEF Cluster, CreatePod, DeletePod, BecomeReady, EndPod
<1>2. pods' \in [AllPods -> PodRecord]
  BY EntryTypes, NewPod, OldPod DEF Cluster, Passes
<1>3. QED
  BY <1>1, <1>2 DEF ScaleoutTypes, measureVars, runVars

\* The configuration a kubectl call leaves is one again.
LEMMA SpecTypes ==
    ASSUME ScaleoutTypes, phase \in {"run", "restore"}, Step.do = "rollout"
    PROVE  /\ Dep \in Deployments /\ Step.n \in Nat /\ Step.on \subseteq Toggles
           /\ EnvSet \in [Deployments -> Template] /\ Scaled \in [Deployments -> Template]
           /\ EnvSet[Dep].n = spec[Dep].n
           /\ EnvSet[Dep].on = (spec[Dep].on \ Step.off) \cup Step.on
           /\ Scaled[Dep].n = Step.n /\ Scaled[Dep].on = spec[Dep].on
           /\ \A e \in Deployments \ {Dep} : EnvSet[e] = spec[e] /\ Scaled[e] = spec[e]
<1>1. Dep \in Deployments /\ Step.n \in Nat /\ Step.on \subseteq Toggles
  <2>1. CASE phase = "run"
    BY <2>1, StepsAre, PlanRollouts DEF ScaleoutTypes, Step, Dep, Fits
  <2>2. CASE phase = "restore"
    BY <2>2, StepsAre, RestoreRows DEF ScaleoutTypes, Step, Dep, Deployments
  <2>3. QED
    BY <2>1, <2>2
<1>2. /\ spec \in [Deployments -> Template] /\ spec[Dep] \in Template
      /\ spec[Dep].n \in Nat /\ spec[Dep].on \in SUBSET Toggles
  BY <1>1, EntryTypes DEF ScaleoutTypes
<1> DEFINE on == (spec[Dep].on \ Step.off) \cup Step.on
           s == [spec[Dep] EXCEPT !.on = on]
           t == [spec[Dep] EXCEPT !.n = Step.n]
<1>3. on \in SUBSET Toggles
  BY <1>1, <1>2
<1>4. EnvSet = [spec EXCEPT ![Dep] = s]
  BY <1>1, <1>2 DEF EnvSet
<1>5. Scaled = [spec EXCEPT ![Dep] = t]
  BY <1>1, <1>2 DEF Scaled
<1> HIDE DEF on
<1>6. s \in Template /\ s.n = spec[Dep].n /\ s.on = on
  BY <1>2, <1>3 DEF Template
<1>7. t \in Template /\ t.n = Step.n /\ t.on = spec[Dep].on
  BY <1>1, <1>2 DEF Template
<1> HIDE DEF s, t
<1>8. QED
  BY <1>1, <1>2, <1>4, <1>5, <1>6, <1>7 DEF on

LEMMA RaiseTypes ==
    ASSUME ScaleoutTypes, phase \in {"run", "restore"}, Raise,
           spec' \in [Deployments -> Template]
    PROVE  ScaleoutTypes'
<1>1. PICK p \in {"restore", "died"} : Begin(p)
  BY DEF Raise
<1>2. UNCHANGED <<pods, one, three, runs>> /\ unclean' \in BOOLEAN
  BY DEF Raise, ScaleoutTypes
<1>3. QED
  BY <1>1, <1>2, BeginTypes DEF ScaleoutTypes

\* A probe takes at most a token from the pod that answers.
LEMMA ProbeTakes ==
    ASSUME ScaleoutTypes, NEW p \in GatewayPods, Probe(p)
    PROVE  /\ pods' \in [AllPods -> PodRecord]
           /\ pods'[p].state = pods[p].state /\ pods'[p].on = pods[p].on
           /\ \A q \in AllPods : q # p => pods'[q] = pods[q]
           /\ IF "limit" \in pods[p].on /\ pods[p].tokens = 0
              THEN passed' = passed ELSE passed' = passed + 1
           /\ pods'[p].tokens = IF "limit" \in pods[p].on /\ pods[p].tokens > 0
                                THEN pods[p].tokens - 1 ELSE pods[p].tokens
<1>1. p \in AllPods /\ pods[p] \in PodRecord /\ pods[p].tokens \in 0 .. Capacity
  BY DEF AllPods, ScaleoutTypes, PodRecord
<1>2. IF "limit" \in pods[p].on /\ pods[p].tokens = 0
      THEN passed' = passed ELSE passed' = passed + 1
  BY DEF Probe
<1>3. CASE "limit" \in pods[p].on /\ pods[p].tokens > 0
  <2> DEFINE r == [pods[p] EXCEPT !.tokens = pods[p].tokens - 1]
  <2>1. pods' = [pods EXCEPT ![p] = r]
    BY <1>1, <1>3 DEF Probe
  <2>2. /\ r \in PodRecord /\ r.state = pods[p].state /\ r.on = pods[p].on
        /\ r.tokens = pods[p].tokens - 1
    BY <1>1, <1>3, ScaleoutAssumption DEF PodRecord
  <2> HIDE DEF r
  <2>3. /\ pods' \in [AllPods -> PodRecord] /\ pods'[p] = r
        /\ \A q \in AllPods : q # p => pods'[q] = pods[q]
    BY <1>1, <2>1, <2>2, PodChanged
  <2>4. QED
    BY <1>2, <1>3, <2>2, <2>3
<1>4. CASE ~("limit" \in pods[p].on /\ pods[p].tokens > 0)
  <2>1. pods' = pods
    BY <1>4 DEF Probe
  <2>2. QED
    BY <1>2, <1>4, <2>1 DEF ScaleoutTypes
<1>5. QED
  BY <1>3, <1>4

LEMMA ScriptTypes ==
    ASSUME ScaleoutTypes, Script
    PROVE  ScaleoutTypes'
<1>1. CASE SetEnv \/ Scale \/ Status
  <2>1. /\ phase \in {"run", "restore"} /\ Step.do = "rollout"
        /\ spec' \in {EnvSet, Scaled, spec}
        /\ kubectl' \in {"scale", "status", "settle"}
        /\ UNCHANGED <<pods, phase, at, measureVars, runVars>>
    BY <1>1 DEF SetEnv, Scale, Status, InRollout, NextCall
  <2>2. spec' \in [Deployments -> Template]
    BY <2>1, SpecTypes DEF ScaleoutTypes
  <2>3. QED
    BY <2>1, <2>2 DEF ScaleoutTypes, measureVars, runVars
<1>2. CASE Settle
  <2>1. phase \in {"run", "restore"} /\ Advance
    BY <1>2 DEF Settle, InRollout
  <2>2. UNCHANGED <<spec, pods, one, three, runs, unclean>>
    BY <1>2 DEF Settle, ResultsStay
  <2>3. QED
    BY <2>1, <2>2, AdvanceTypes DEF ScaleoutTypes
<1>3. CASE KubectlFails
  <2>1. phase \in {"run", "restore"} /\ Step.do = "rollout"
        /\ spec' \in {EnvSet, Scaled, spec} /\ Raise
    BY <1>3 DEF KubectlFails
  <2>2. spec' \in [Deployments -> Template]
    BY <2>1, SpecTypes DEF ScaleoutTypes
  <2>3. QED
    BY <2>1, <2>2, RaiseTypes
<1>4. ASSUME NEW p \in GatewayPods, Initialize(p) PROVE ScaleoutTypes'
  BY <1>4 DEF Initialize, ScaleoutTypes, runVars
<1>5. ASSUME NEW p \in GatewayPods, Probe(p) PROVE ScaleoutTypes'
  <2>1. /\ sent < Probes /\ sent' = sent + 1
        /\ UNCHANGED <<spec, phase, at, kubectl, pinned, one, three, runs, unclean>>
    BY <1>5 DEF Probe, runVars
  <2>2. pods' \in [AllPods -> PodRecord] /\ passed' \in {passed, passed + 1}
    BY <1>5, ProbeTakes
  <2>3. sent' \in 0 .. Probes /\ passed' \in 0 .. sent'
    BY <2>1, <2>2, ScaleoutAssumption DEF ScaleoutTypes
  <2>4. QED
    BY <2>1, <2>2, <2>3 DEF ScaleoutTypes
<1>6. CASE RateMeasured \/ OtherMeasured
  <2>1. /\ phase \in {"run", "restore"} /\ Advance
        /\ UNCHANGED <<spec, pods, runs, unclean>>
    BY <1>6 DEF RateMeasured, OtherMeasured, Measuring, ResultsStay, runVars
  <2>2. one' \in {one, passed} /\ three' \in {three, passed}
    BY <1>6 DEF RateMeasured, OtherMeasured, ResultsStay
  <2>3. one' \in -1 .. Probes /\ three' \in -1 .. Probes
    BY <2>2, ScaleoutAssumption DEF ScaleoutTypes
  <2>4. QED
    BY <2>1, <2>3, AdvanceTypes DEF ScaleoutTypes
<1>7. CASE MeasureFails
  <2>1. phase \in {"run", "restore"} /\ Raise /\ UNCHANGED spec
    BY <1>7 DEF MeasureFails, Measuring
  <2>2. QED
    BY <2>1, RaiseTypes DEF ScaleoutTypes
<1>8. CASE Rerun
  <2>1. /\ Begin("run") /\ runs < MaxRuns /\ runs' = runs + 1 /\ one' = -1 /\ three' = -1
        /\ UNCHANGED <<spec, pods, unclean>>
    BY <1>8 DEF Rerun
  <2>2. -1 \in -1 .. Probes /\ runs' \in 1 .. MaxRuns
    BY <2>1, ScaleoutAssumption DEF ScaleoutTypes
  <2>3. QED
    BY <2>1, <2>2, BeginTypes DEF ScaleoutTypes
<1>9. QED
  BY <1>1, <1>2, <1>3, <1>4, <1>5, <1>6, <1>7, <1>8 DEF Script

-----------------------------------------------------------------------------
\* The cluster is quiet once it is rolled out.

\* The pods of d are as they were, but for dying ones that end.
Quiet(d) ==
    \A p \in PodsOf(d) :
        \/ pods'[p].state = pods[p].state /\ pods'[p].on = pods[p].on
        \/ pods[p].state = "dying" /\ pods'[p].state = "gone"

\* Nor has a bucket changed.
Still(d) ==
    \A p \in PodsOf(d) :
        \/ pods'[p] = pods[p]
        \/ pods[p].state = "dying" /\ pods'[p].state = "gone"

LEMMA StillIsQuiet ==
    ASSUME NEW d, Still(d)
    PROVE  Quiet(d)
  BY DEF Still, Quiet

LEMMA OneDeployment ==
    ASSUME NEW d \in Deployments, NEW e \in Deployments, d # e
    PROVE  PodsOf(d) \cap PodsOf(e) = {}
  BY ScaleoutAssumption DEF Deployments, PodsOf

LEMMA RolledOutPods ==
    ASSUME ScaleoutTypes, NEW d \in Deployments, RolledOut(d)
    PROVE  \A p \in PodsOf(d) :
              /\ pods[p].state \in {"gone", "ready", "dying"}
              /\ pods[p].state = "ready" => pods[p].on = spec[d].on
  BY EntryTypes DEF RolledOut, Alive, Current, Ready, PodStates

\* The controller does nothing more: what it wants is there.
LEMMA ClusterStill ==
    ASSUME ScaleoutTypes, NEW d \in Deployments, RolledOut(d), Cluster
    PROVE  Still(d)
<1>0. spec[d].n \in Nat /\ PodsOf(d) \subseteq AllPods
      /\ Cardinality(Current(d)) = spec[d].n
  BY EntryTypes DEF RolledOut
<1>1. ASSUME NEW e \in Deployments, CreatePod(e) PROVE Still(d)
  <2>1. e # d
    BY <1>0, <1>1 DEF CreatePod
  <2>2. PICK q \in PodsOf(e) : \A p \in AllPods : p # q => pods'[p] = pods[p]
    BY <1>1, NewPod
  <2>3. q \notin PodsOf(d)
    BY <2>1, OneDeployment
  <2>4. QED
    BY <1>0, <2>2, <2>3 DEF Still
<1>2. ASSUME NEW e \in Deployments, NEW q \in PodsOf(e), DeletePod(e, q)
      PROVE  Still(d)
  <2>1. e # d
    BY <1>0, <1>2 DEF DeletePod, RolledOut
  <2>2. q \notin PodsOf(d) /\ q \in AllPods
    BY <1>2, <2>1, OneDeployment, EntryTypes
  <2>3. QED
    BY <1>0, <1>2, <2>2, OldPod DEF Still, Passes
<1>3. ASSUME NEW q \in AllPods, BecomeReady(q) PROVE Still(d)
  <2>1. pods[q].state = "starting"
    BY <1>3 DEF BecomeReady
  <2>2. q \notin PodsOf(d)
    BY <2>1, RolledOutPods
  <2>3. QED
    BY <1>0, <1>3, <2>2, OldPod DEF Still, Passes
<1>4. ASSUME NEW q \in AllPods, EndPod(q) PROVE Still(d)
  BY <1>0, <1>4, OldPod DEF Still, Passes
<1>5. QED
  BY <1>1, <1>2, <1>3, <1>4 DEF Cluster

\* What a quiet step leaves as it was.
LEMMA QuietKeeps ==
    ASSUME ScaleoutTypes, NEW d \in Deployments, Quiet(d), spec'[d] = spec[d]
    PROVE  /\ RolledOut(d) => RolledOut(d)'
           /\ NoneDying(d) => NoneDying(d)' /\ Serving(d)' = Serving(d)
<1>1. Alive(d)' = Alive(d) /\ Ready(d)' = Ready(d) /\ Current(d)' = Current(d)
  BY DEF Quiet, Alive, Ready, Current
<1>2. RolledOut(d) => RolledOut(d)'
  BY <1>1 DEF RolledOut
<1>3. NoneDying(d) => NoneDying(d)' /\ Serving(d)' = Serving(d)
  BY DEF Quiet, NoneDying, Serving
<1>4. QED
  BY <1>2, <1>3

\* A deployment that is clean serves with what it asks for, and with no more.
LEMMA CleanServes ==
    ASSUME ScaleoutTypes, NEW d \in Deployments, Clean(d)
    PROVE  /\ Cardinality(Serving(d)) = spec[d].n /\ Listed(d) = Serving(d)
           /\ \A p \in Serving(d) : pods[p].state = "ready" /\ pods[p].on = spec[d].on
           /\ \A p \in PodsOf(d) \ Serving(d) : pods[p].state = "gone"
<1>1. Serving(d) = Alive(d) /\ Listed(d) = Alive(d) /\ Alive(d) = Ready(d)
      /\ Alive(d) = Current(d)
  BY EntryTypes DEF Clean, RolledOut, NoneDying, Serving, Alive, Ready, Listed,
     PodStates
<1>2. QED
  BY <1>1, EntryTypes DEF Clean, RolledOut, Serving, Ready, Current, Listed

-----------------------------------------------------------------------------
\* The script.

\* The invariant holds when the script is run for the first time.
LEMMA FirstStates ==
    ASSUME ScaleoutInit
    PROVE  ScaleoutInv
<1>1. PICK g \in GatewayPods, t \in TicketPods :
         pods = [p \in AllPods |-> IF p \in {g, t}
                   THEN [state |-> "ready", on |-> {}, tokens |-> Capacity]
                   ELSE [state |-> "gone", on |-> {}, tokens |-> 0]]
  BY DEF ScaleoutInit
<1>2. /\ [state |-> "ready", on |-> {}, tokens |-> Capacity] \in PodRecord
      /\ [state |-> "gone", on |-> {}, tokens |-> 0] \in PodRecord
  BY ScaleoutAssumption DEF PodRecord, PodStates
<1>3. pods \in [AllPods -> PodRecord]
  BY <1>1, <1>2
<1>4. [n |-> 1, on |-> {}] \in Template
  BY DEF Template
<1>5. ScaleoutTypes
  <2>1. spec \in [Deployments -> Template]
    BY <1>4 DEF ScaleoutInit
  <2>2. /\ 0 \in 0 .. Probes /\ 0 \in 0 .. 0 /\ -1 \in -1 .. Probes
        /\ 1 \in 1 .. MaxRuns /\ 1 \in 1 .. 12
    BY ScaleoutAssumption
  <2>3. QED
    BY <1>3, <2>1, <2>2 DEF ScaleoutInit, ScaleoutTypes
<1>6. \A p \in AllPods :
         /\ pods[p].on = {}
         /\ pods[p].state = IF p \in {g, t} THEN "ready" ELSE "gone"
  BY <1>1
<1>7. \A d \in Deployments : spec[d].n = 1 /\ spec[d].on = {} /\ spec[d] = Baseline
  BY DEF ScaleoutInit, Baseline
<1>8. ASSUME NEW d \in Deployments PROVE Clean(d)
  <2> DEFINE x == IF d = "gateway" THEN g ELSE t
  <2>1. x \in PodsOf(d) /\ \A p \in PodsOf(d) : p \in {g, t} <=> p = x
    BY <1>8, ScaleoutAssumption DEF PodsOf, Deployments
  <2> HIDE DEF x
  <2>2. PodsOf(d) \subseteq AllPods
    BY DEF PodsOf, AllPods
  <2>3. Alive(d) = {x} /\ Ready(d) = {x} /\ Current(d) = {x}
    BY <1>6, <1>7, <2>1, <2>2 DEF Alive, Ready, Current
  <2>4. Cardinality({x}) = 1
    BY FS_Singleton
  <2>5. QED
    BY <1>6, <1>7, <2>2, <2>3, <2>4 DEF Clean, RolledOut, NoneDying
<1>9. ScriptOK
  <2>1. \A d \in Deployments : ~Changing(d)
    BY DEF ScaleoutInit, Changing
  <2>2. \A d \in Deployments : Before(d) = Baseline
    BY ExpectedGateway, ExpectedTickets DEF ScaleoutInit, Before, DeploymentAt
  <2>3. "ticket-server" \in Deployments /\ phase = "run"
    BY DEF Deployments, ScaleoutInit
  <2>4. QED
    BY <1>6, <1>7, <1>8, <2>1, <2>2, <2>3 DEF ScriptOK, DeploymentOK
<1>10. GoneOK /\ BucketsOK /\ RateIsLimit
  <2>1. GatewayPods \subseteq AllPods
    BY DEF AllPods
  <2>2. Fresh({"limit"})
    BY <1>6, <2>1 DEF Fresh
  <2>3. QED
    BY <1>6, <2>2 DEF ScaleoutInit, BucketsOK, RateIsLimit, GoneOK
<1>11. QED
  BY <1>5, <1>9, <1>10 DEF ScaleoutInv, BucketsInv

LEMMA SameTemplate ==
    ASSUME NEW r \in Template, NEW s \in Template, r.n = s.n, r.on = s.on
    PROVE  r = s
  BY DEF Template

LEMMA ExpectedTypes ==
    /\ \A k \in 1 .. 12, d \in Deployments : DeploymentAt(d, k) \in Template
    /\ Baseline \in Template
<1> USE ScaleoutAssumption DEF Template, Toggles
<1>1. Baseline \in Template
  BY DEF Baseline
<1>2. ASSUME NEW k \in 1 .. 12 PROVE GatewayAt(k) \in Template
  BY <1>1 DEF GatewayAt
<1>3. ASSUME NEW k \in 1 .. 12 PROVE TicketsAt(k) \in Template
  BY <1>1 DEF TicketsAt
<1>4. QED
  BY <1>1, <1>2, <1>3 DEF DeploymentAt

\* What the calls of a rollout are to reach.
LEMMA RolloutAims ==
    ASSUME ScaleoutTypes, ScriptOK, phase \in {"run", "restore"}, Step.do = "rollout"
    PROVE  /\ Target(Dep) \in Template /\ Target(Dep).n = Step.n
           /\ kubectl = "env" =>
                 (spec[Dep].on \ Step.off) \cup Step.on = Target(Dep).on
           /\ Dep = "ticket-server" => Step.on = {} /\ Target(Dep).on = {}
<1>1. Dep \in Deployments /\ spec[Dep].on \in SUBSET Toggles
  BY SpecTypes, EntryTypes
<1>2. CASE phase = "run"
  <2>1. /\ Step = Plan[at] /\ at \in 1 .. 11
        /\ Fits(at, at + 1, Dep, Step.n, Step.on, Step.off)
    BY <1>2, StepsAre, PlanRollouts DEF Step, Dep, ScaleoutTypes
  <2>2. Target(Dep) = DeploymentAt(Dep, at + 1) /\ at + 1 \in 1 .. 12
    BY <1>2, <2>1 DEF Target
  <2>3. Dep = "ticket-server" => Step.on = {} /\ at > 1
    BY <2>1 DEF Fits
  <2>4. Dep = "ticket-server" => Target(Dep).on = {}
    BY <2>2 DEF DeploymentAt, TicketsAt, Baseline
  <2>5. ASSUME kubectl = "env"
        PROVE  (spec[Dep].on \ Step.off) \cup Step.on = Target(Dep).on
    <3>1. CASE at = 1
      BY <1>1, <2>1, <2>2, <3>1 DEF Fits
    <3>2. CASE at > 1 /\ Dep = "gateway"
      <4>1. ~Changing(Dep) /\ Known(Dep) /\ Before(Dep) = DeploymentAt(Dep, at)
        BY <1>2, <2>5, <3>2 DEF Changing, Known, Before
      <4>2. spec[Dep] = DeploymentAt(Dep, at)
        BY <1>1, <4>1 DEF ScriptOK, DeploymentOK
      <4>3. QED
        BY <2>1, <2>2, <4>2 DEF Fits
    <3>3. CASE Dep = "ticket-server"
      BY <2>3, <2>4, <3>3 DEF ScriptOK
    <3>4. QED
      BY <1>1, <2>1, <3>1, <3>2, <3>3 DEF Deployments
  <2>6. QED
    BY <1>1, <2>1, <2>2, <2>3, <2>4, <2>5, ExpectedTypes DEF Fits
<1>3. CASE phase = "restore"
  <2>1. Step = RestorePlan[at] /\ at \in {1, 2} /\ Target(Dep) = Baseline
    BY <1>3, StepsAre DEF Step, ScaleoutTypes, Target
  <2>2. Step.n = 1 /\ Step.on = {} /\ Dep = IF at = 1 THEN "gateway" ELSE "ticket-server"
    BY <2>1, RestoreRows DEF Dep
  <2>3. at = 1 => Step.off = Toggles
    BY <2>1, RestoreRows
  <2>4. at = 2 => spec[Dep].on = {}
    BY <2>2 DEF ScriptOK
  <2>5. (spec[Dep].on \ Step.off) \cup Step.on = {}
    BY <1>1, <2>1, <2>2, <2>3, <2>4
  <2>6. QED
    BY <2>1, <2>2, <2>5, ExpectedTypes DEF Baseline
<1>4. QED
  BY <1>2, <1>3

\* The calls of a rollout take it on.
LEMMA CallsProgress ==
    ASSUME ScaleoutTypes, ScriptOK, SetEnv \/ Scale \/ Status
    PROVE  ScriptOK'
<1>1. /\ phase \in {"run", "restore"} /\ Step.do = "rollout"
      /\ UNCHANGED <<pods, phase, at, unclean>> /\ kubectl' \in {"scale", "status", "settle"}
      /\ spec' \in {EnvSet, Scaled, spec}
  BY DEF SetEnv, Scale, Status, InRollout, NextCall, runVars
<1>2. Dep \in Deployments /\ \A e \in Deployments \ {Dep} : spec'[e] = spec[e]
  BY <1>1, SpecTypes
<1>3. ASSUME NEW e \in Deployments \ {Dep} PROVE DeploymentOK(e)'
  <2>1. ~Changing(e) /\ ~Changing(e)'
    BY <1>1, <1>3 DEF Changing, Dep, Step, Steps
  <2>2. Known(e)' = Known(e) /\ Before(e)' = Before(e)
    BY <1>1 DEF Known, Before
  <2>3. Clean(e) => Clean(e)'
    BY <1>1, <1>2, <1>3 DEF Clean, RolledOut, NoneDying, Alive, Ready, Current
  <2>4. QED
    BY <1>2, <1>3, <2>1, <2>2, <2>3 DEF ScriptOK, DeploymentOK
<1>4. Changing(Dep)' /\ Target(Dep)' = Target(Dep)
  BY <1>1 DEF Changing, Dep, Step, Steps, Target
<1>5. DeploymentOK(Dep)' /\ spec'[Dep].on = Target(Dep).on
  <2>1. CASE SetEnv
    <3>1. /\ spec' = EnvSet /\ kubectl' = "scale" /\ kubectl = "env"
      BY <2>1 DEF SetEnv, InRollout, NextCall
    <3>2. spec'[Dep].on = Target(Dep).on
      BY <1>1, <3>1, SpecTypes, RolloutAims
    <3>3. Progress(Dep)'
      BY <1>1, <1>4, <3>1, <3>2 DEF Progress, Dep, Step, Steps
    <3>4. QED
      BY <1>1, <1>4, <3>2, <3>3 DEF DeploymentOK, Dep, Step, Steps
  <2>2. CASE Scale
    <3>1. spec' = Scaled /\ kubectl' = "status" /\ kubectl = "scale"
      BY <2>2 DEF Scale, InRollout, NextCall
    <3>2. Changing(Dep) /\ spec[Dep].on = Target(Dep).on
      BY <1>1, <1>2, <3>1 DEF Changing, Dep, ScriptOK, DeploymentOK, Progress
    <3>3. spec'[Dep] \in Template /\ spec'[Dep].n = Target(Dep).n
          /\ spec'[Dep].on = Target(Dep).on
      BY <1>1, <1>2, <3>1, <3>2, SpecTypes, RolloutAims
    <3>4. spec'[Dep] = Target(Dep)
      BY <1>1, <3>3, SameTemplate, RolloutAims
    <3>5. Progress(Dep)'
      BY <1>1, <1>4, <3>1, <3>4 DEF Progress, Dep, Step, Steps
    <3>6. QED
      BY <1>1, <1>4, <3>3, <3>5 DEF DeploymentOK, Dep, Step, Steps
  <2>3. CASE Status
    <3>1. spec' = spec /\ kubectl' = "settle" /\ kubectl = "status" /\ RolledOut(Dep)
      BY <2>3 DEF Status, InRollout, NextCall
    <3>2. Changing(Dep) /\ spec[Dep] = Target(Dep)
      BY <1>1, <1>2, <3>1 DEF Changing, Dep, ScriptOK, DeploymentOK, Progress
    <3>3. RolledOut(Dep)'
      BY <1>1, <3>1 DEF RolledOut, Alive, Ready, Current, Dep, Step, Steps
    <3>4. Progress(Dep)'
      BY <1>1, <1>4, <3>1, <3>2, <3>3 DEF Progress, Dep, Step, Steps
    <3>5. QED
      BY <1>1, <1>4, <3>1, <3>2, <3>4 DEF DeploymentOK, Dep, Step, Steps
  <2>4. QED
    BY <2>1, <2>2, <2>3
<1>6. spec'["ticket-server"].on = {}
  <2>1. CASE Dep = "ticket-server"
    BY <1>1, <1>5, <2>1, RolloutAims
  <2>2. CASE Dep # "ticket-server"
    BY <1>2, <2>2 DEF Deployments, ScriptOK
  <2>3. QED
    BY <2>1, <2>2
<1>7. Dep' = Dep
  BY <1>1 DEF Dep, Step, Steps
<1>8. QED
  BY <1>1, <1>2, <1>3, <1>5, <1>6, <1>7 DEF ScriptOK

\* A step of the plan begins as it should if the deployments are as it expects.
LEMMA Entered ==
    ASSUME ScaleoutTypes', kubectl' \in {"env", "scale"},
           kubectl' = "scale" => phase' \in {"run", "restore"} /\ kubectl' = FirstCall(Step'),
           spec'["ticket-server"].on = {},
           \A d \in Deployments : Known(d)' => spec'[d] = Before(d)' /\ Clean(d)'
    PROVE  \A d \in Deployments : DeploymentOK(d)'
<1> SUFFICES ASSUME NEW d \in Deployments, Changing(d)' PROVE Progress(d)'
  BY DEF DeploymentOK
<1>1. /\ kubectl' = "scale" /\ Step'.do = "rollout" /\ Step'.dep = d /\ ~Step'.set
      /\ phase' \in {"run", "restore"}
  BY DEF Changing, FirstCall
<1>2. CASE phase' = "run"
  <2>1. Step' = Plan[at'] /\ at' \in 1 .. 12
    BY <1>2 DEF Step, Steps, ScaleoutTypes
  <2>2. /\ Fits(at', at' + 1, d, Step'.n, Step'.on, Step'.off) /\ at' > 1
        /\ Step'.on \cup Step'.off = {}
    <3>1. /\ Fits(at', at' + 1, d, Step'.n, Step'.on, Step'.off)
          /\ Step'.on \cup Step'.off = {}
      BY <1>1, <2>1, PlanRollouts
    <3>2. QED
      BY <3>1 DEF Fits
  <2>3. Target(d)' = DeploymentAt(d, at' + 1) /\ Before(d)' = DeploymentAt(d, at')
    BY <1>2 DEF Target, Before
  <2>4. Target(d)'.on = Before(d)'.on
    BY <2>2, <2>3 DEF Fits
  <2>5. CASE d = "gateway"
    <3>1. Known(d)'
      BY <1>2, <2>2, <2>5 DEF Known
    <3>2. QED
      BY <1>1, <2>4, <3>1 DEF Progress
  <2>6. CASE d = "ticket-server"
    <3>1. Target(d)'.on = {}
      BY <2>3, <2>6 DEF DeploymentAt, TicketsAt, Baseline
    <3>2. QED
      BY <1>1, <2>6, <3>1 DEF Progress
  <2>7. QED
    BY <2>5, <2>6 DEF Deployments
<1>3. CASE phase' = "restore"
  <2>1. Step' = RestorePlan[at'] /\ at' \in {1, 2}
    BY <1>3 DEF Step, Steps, ScaleoutTypes
  <2>2. d = "ticket-server"
    BY <1>1, <2>1, RestoreRows
  <2>3. Target(d)'.on = {}
    BY <1>3 DEF Target, Baseline
  <2>4. QED
    BY <1>1, <2>2, <2>3 DEF Progress
<1>4. QED
  BY <1>1, <1>2, <1>3

\* Pods and templates stay; the script goes where it goes.
LEMMA StaysClean ==
    ASSUME UNCHANGED <<spec, pods>>, NEW d
    PROVE  spec'[d] = spec[d] /\ (Clean(d) => Clean(d)')
  BY DEF Clean, RolledOut, NoneDying, Alive, Ready, Current

\* A step that is done hands over what the next one expects.
LEMMA DoneWell ==
    ASSUME ScaleoutTypes, ScaleoutTypes', ScriptOK, phase \in {"run", "restore"}, Advance,
           UNCHANGED <<spec, pods, unclean>>,
           Step.do = "rollout" => spec[Dep] = Target(Dep) /\ Clean(Dep)
    PROVE  ScriptOK'
<1>1. ASSUME NEW d \in Deployments, Known(d)'
      PROVE  spec[d] = Before(d)' /\ Clean(d)
  <2>1. CASE phase = "run" /\ phase' = "run"
    <3>1. at' = at + 1 /\ at \in 1 .. 11 /\ Step = Plan[at]
      BY <2>1, StepsAre, AdvanceTo DEF ScaleoutTypes, Step
    <3>2. Before(d)' = DeploymentAt(d, at + 1)
      BY <2>1, <3>1 DEF Before
    <3>3. CASE Step.do = "rollout" /\ d = Dep
      BY <2>1, <3>2, <3>3 DEF Target
    <3>4. CASE ~(Step.do = "rollout" /\ d = Dep)
      <4>1. /\ at # (IF d = "gateway" THEN 1 ELSE 6)
            /\ DeploymentAt(d, at + 1) = DeploymentAt(d, at)
        <5>1. CASE Step.do = "rollout"
          BY <3>1, <3>4, <5>1, PlanRollouts DEF Fits, Dep
        <5>2. CASE Step.do # "rollout"
          BY <3>1, <5>2, PlanMeasures
        <5>3. QED
          BY <5>1, <5>2
      <4>2. Known(d) /\ Before(d) = DeploymentAt(d, at) /\ ~Changing(d)
        BY <1>1, <2>1, <3>1, <3>4, <4>1 DEF Known, Before, Changing, Dep
      <4>3. QED
        BY <3>2, <4>1, <4>2 DEF ScriptOK, DeploymentOK
    <3>5. QED
      BY <3>3, <3>4
  <2>2. CASE phase = "run" /\ phase' = "restore"
    BY <1>1, <2>2, AdvanceTo DEF Known
  <2>3. CASE phase = "restore"
    <3>1. Step = RestorePlan[at] /\ at \in {1, 2} /\ Target(d) = Baseline
      BY <2>3, StepsAre DEF Step, ScaleoutTypes, Target
    <3>2. Step.do = "rollout" /\ Dep = IF at = 1 THEN "gateway" ELSE "ticket-server"
      BY <3>1, RestoreRows DEF Dep
    <3>3. Before(d)' = Baseline /\ Before(d) = Baseline
      BY <2>3, AdvanceTo DEF Before
    <3>4. CASE d = Dep
      BY <2>3, <3>2, <3>3, <3>4 DEF Target
    <3>5. CASE d # Dep
      <4>1. d = "gateway" /\ at = 2
        <5>1. at = 2
          BY <1>1, <2>3, <3>1, <3>2, <3>5, AdvanceTo DEF Known
        <5>2. QED
          BY <3>2, <3>5, <5>1 DEF Deployments
      <4>2. Known(d) /\ ~Changing(d)
        BY <2>3, <3>5, <4>1 DEF Known, Changing, Dep
      <4>3. QED
        BY <3>3, <4>2 DEF ScriptOK, DeploymentOK
    <3>6. QED
      BY <3>4, <3>5
  <2>4. QED
    BY <2>1, <2>2, <2>3, AdvanceTo
<1>2. kubectl' \in {"env", "scale"}
  BY AdvanceTo
<1>3. kubectl' = "scale" => phase' \in {"run", "restore"} /\ kubectl' = FirstCall(Step')
  <2>1. ASSUME kubectl' = "scale"
        PROVE  phase' = phase /\ at' = at + 1 /\ kubectl' = FirstCall(Steps[at + 1])
    BY <2>1, AdvanceTo
  <2>2. phase' = phase => Steps' = Steps
    BY DEF Steps
  <2>3. QED
    BY <2>1, <2>2 DEF Step
<1>4. spec'["ticket-server"].on = {} /\ phase' # "died"
  BY AdvanceTo DEF ScriptOK
<1>5. \A d \in Deployments : Known(d)' => spec'[d] = Before(d)' /\ Clean(d)'
  BY <1>1, StaysClean
<1>6. \A d \in Deployments : DeploymentOK(d)'
  BY <1>2, <1>3, <1>4, <1>5, Entered
<1>7. QED
  BY <1>4, <1>6 DEF ScriptOK

\* What `settle` adds to `rollout status`: the pods of the old template are gone.
LEMMA SettledIsClean ==
    ASSUME ScaleoutTypes, ScriptOK, Settle
    PROVE  /\ phase \in {"run", "restore"} /\ Step.do = "rollout"
           /\ spec[Dep] = Target(Dep) /\ Clean(Dep)
           /\ Advance /\ UNCHANGED <<spec, pods, one, three, unclean>>
<1>1. /\ phase \in {"run", "restore"} /\ Step.do = "rollout" /\ kubectl = "settle"
      /\ Settled(Dep, Step.n) /\ Advance /\ UNCHANGED <<spec, pods, one, three, unclean>>
  BY DEF Settle, InRollout, ResultsStay
<1>2. Dep \in Deployments
  BY <1>1, SpecTypes
<1>3. spec[Dep] = Target(Dep) /\ RolledOut(Dep)
  BY <1>1, <1>2 DEF ScriptOK, DeploymentOK, Changing, Progress, Dep
<1>4. NoneDying(Dep)
  BY <1>1 DEF Settled, Listed, NoneDying
<1>5. QED
  BY <1>1, <1>3, <1>4 DEF Clean

LEMMA SettleWell ==
    ASSUME ScaleoutTypes, ScaleoutTypes', ScriptOK, Settle
    PROVE  ScriptOK'
  BY SettledIsClean, DoneWell

LEMMA MeasuredWell ==
    ASSUME ScaleoutTypes, ScaleoutTypes', ScriptOK, RateMeasured \/ OtherMeasured
    PROVE  ScriptOK'
<1>1. /\ phase = "run" /\ Step.do # "rollout" /\ Advance
      /\ UNCHANGED <<spec, pods, unclean>>
  BY DEF RateMeasured, OtherMeasured, Measuring, ResultsStay, runVars
<1>2. QED
  BY <1>1, DoneWell

\* An exception, and the next run.
LEMMA RaisedWell ==
    ASSUME ScaleoutTypes, ScaleoutTypes', ScriptOK, KubectlFails \/ MeasureFails
    PROVE  ScriptOK'
<1>1. /\ phase \in {"run", "restore"} /\ Raise
      /\ spec' # spec => Step.do = "rollout" /\ spec' \in {EnvSet, Scaled}
  BY DEF KubectlFails, MeasureFails, Measuring
<1>2. /\ at' = 1 /\ kubectl' = "env" /\ phase' \in {"restore", "died"}
      /\ phase' = "died" => unclean'
      /\ pods' = pods
  BY <1>1 DEF Raise, Begin
<1>3. spec'["ticket-server"].on = {}
  <2>1. CASE spec' = spec
    BY <2>1 DEF ScriptOK
  <2>2. CASE spec' # spec /\ Dep # "ticket-server"
    BY <1>1, <2>2, SpecTypes DEF Deployments, ScriptOK
  <2>3. CASE spec' # spec /\ Dep = "ticket-server"
    <3>1. Step.on = {} /\ spec[Dep].on = {}
      BY <1>1, <2>3, RolloutAims DEF ScriptOK
    <3>2. spec'[Dep].on \in {(spec[Dep].on \ Step.off) \cup Step.on, spec[Dep].on}
      BY <1>1, <2>3, SpecTypes
    <3>3. QED
      BY <2>3, <3>1, <3>2
  <2>4. QED
    BY <2>1, <2>2, <2>3
<1>4. \A d \in Deployments : ~Known(d)'
  BY <1>2 DEF Known
<1>5. \A d \in Deployments : DeploymentOK(d)'
  BY <1>2, <1>3, <1>4, Entered
<1>6. QED
  BY <1>2, <1>3, <1>5 DEF ScriptOK

LEMMA RerunWell ==
    ASSUME ScaleoutTypes, ScaleoutTypes', ScriptOK, Rerun
    PROVE  ScriptOK'
<1>1. /\ phase \in {"done", "died"} /\ phase' = "run" /\ at' = 1 /\ kubectl' = "env"
      /\ UNCHANGED <<spec, pods, unclean>>
  BY DEF Rerun, Begin
<1>2. ASSUME NEW d \in Deployments, Known(d)' PROVE spec'[d] = Before(d)' /\ Clean(d)'
  <2>1. ~unclean
    BY <1>1, <1>2 DEF Known
  <2>2. phase = "done" /\ Known(d) /\ ~Changing(d) /\ Before(d) = Baseline
    BY <1>1, <2>1 DEF ScriptOK, Known, Changing, Before
  <2>3. spec[d] = Baseline /\ Clean(d)
    BY <2>2 DEF ScriptOK, DeploymentOK
  <2>4. Before(d)' = Baseline
    BY <1>1, ExpectedGateway, ExpectedTickets DEF Before, DeploymentAt
  <2>5. QED
    BY <1>1, <2>3, <2>4, StaysClean
<1>3. \A d \in Deployments : DeploymentOK(d)'
  BY <1>1, <1>2, Entered DEF ScriptOK
<1>4. QED
  BY <1>1, <1>3 DEF ScriptOK

\* The cluster, and the requests of a measurement, leave the script's state.
LEMMA AroundTheScript ==
    ASSUME ScaleoutTypes, ScriptOK, UNCHANGED <<spec, phase, at, kubectl, unclean>>,
           \A d \in Deployments : RolledOut(d) => Quiet(d)
    PROVE  ScriptOK'
<1>1. ASSUME NEW d \in Deployments PROVE DeploymentOK(d)'
  <2>1. /\ Changing(d)' = Changing(d) /\ Known(d)' = Known(d)
        /\ Before(d)' = Before(d) /\ Target(d)' = Target(d)
    BY DEF Changing, Known, Before, Target, Step, Steps
  <2>2. RolledOut(d) => RolledOut(d)'
    BY QuietKeeps
  <2>3. Clean(d) => Clean(d)'
    BY <2>2, QuietKeeps DEF Clean
  <2>4. Progress(d) => Progress(d)'
    BY <2>1, <2>2 DEF Progress
  <2>5. QED
    BY <2>1, <2>3, <2>4 DEF ScriptOK, DeploymentOK
<1>2. QED
  BY <1>1 DEF ScriptOK

\* Every step keeps ScriptOK.
LEMMA ScriptInv ==
    ASSUME ScaleoutTypes, ScaleoutTypes', ScriptOK, ScaleoutNext
    PROVE  ScriptOK'
<1>1. CASE Cluster
  BY <1>1, ClusterTypes, ClusterStill, StillIsQuiet, AroundTheScript DEF runVars
<1>2. ASSUME NEW p \in GatewayPods, Initialize(p) PROVE ScriptOK'
  <2>1. UNCHANGED <<spec, pods, phase, at, kubectl, unclean>>
    BY <1>2 DEF Initialize, runVars
  <2>2. QED
    BY <2>1, AroundTheScript DEF Quiet
<1>3. ASSUME NEW p \in GatewayPods, Probe(p) PROVE ScriptOK'
  <2>1. UNCHANGED <<spec, phase, at, kubectl, unclean>>
    BY <1>3 DEF Probe, runVars
  <2>2. \A d \in Deployments : Quiet(d)
    BY <1>3, ProbeTakes, EntryTypes DEF Quiet
  <2>3. QED
    BY <2>1, <2>2, AroundTheScript
<1>4. QED
  BY <1>1, <1>2, <1>3, CallsProgress, SettleWell, MeasuredWell, RaisedWell, RerunWell
     DEF ScaleoutNext, Script

-----------------------------------------------------------------------------
\* The buckets.

\* The gateway while section A measures it.
LEMMA UnderMeasurement ==
    ASSUME ScaleoutTypes, ScriptOK, ~unclean, phase = "run", at \in {2, 4}
    PROVE  /\ Clean("gateway") /\ spec["gateway"] = GatewayAt(at)
           /\ Step.n = (IF at = 2 THEN 1 ELSE Many)
           /\ \A p \in Serving("gateway") : "limit" \in pods[p].on
<1>1. Step = Plan[at] /\ "gateway" \in Deployments
  BY StepsAre DEF Step, Deployments
<1>2. Step.do # "rollout" /\ Step.n = GatewayAt(at).n
  <2>1. Plan[at].do # "rollout"
    BY PlanRollouts
  <2>2. QED
    BY <1>1, <2>1, PlanMeasures
<1>3. ~Changing("gateway") /\ Known("gateway") /\ Before("gateway") = GatewayAt(at)
  BY <1>2 DEF Changing, Known, Before, DeploymentAt
<1>4. Clean("gateway") /\ spec["gateway"] = GatewayAt(at)
  BY <1>1, <1>3 DEF ScriptOK, DeploymentOK
<1>5. /\ GatewayAt(at).n = IF at = 2 THEN 1 ELSE Many
      /\ "limit" \in GatewayAt(at).on
  BY ExpectedGateway
<1>6. QED
  BY <1>1, <1>2, <1>4, <1>5, CleanServes

LEMMA GatewayTokens ==
    ASSUME ScaleoutTypes
    PROVE  /\ "gateway" \in Deployments /\ PodsOf("gateway") = GatewayPods
           /\ Serving("gateway") \subseteq GatewayPods /\ GatewayPods \subseteq AllPods
           /\ IsFiniteSet(Serving("gateway"))
           /\ \A p \in GatewayPods : pods[p].tokens \in 0 .. Capacity
<1>1. "gateway" \in Deployments /\ PodsOf("gateway") = GatewayPods
  BY DEF Deployments, PodsOf
<1>2. Serving("gateway") \subseteq GatewayPods
  BY <1>1 DEF Serving
<1>3. QED
  BY <1>1, <1>2, EntryTypes, FS_Subset, ScaleoutAssumption

\* No more is counted than the buckets hold.
LEMMA UsedIsFinite ==
    ASSUME ScaleoutTypes
    PROVE  /\ IsFiniteSet(Used)
           /\ Cardinality(Used) <= Cardinality(Serving("gateway")) * Capacity
<1> DEFINE slots == Serving("gateway") \X (1 .. Capacity)
<1>1. IsFiniteSet(1 .. Capacity) /\ Cardinality(1 .. Capacity) = Capacity
  BY FS_Interval, ScaleoutAssumption
<1>2. /\ IsFiniteSet(slots)
      /\ Cardinality(slots) = Cardinality(Serving("gateway")) * Capacity
  BY <1>1, GatewayTokens, FS_Product
<1>3. Used \in SUBSET slots
  BY DEF Used
<1> HIDE DEF slots
<1>4. QED
  BY <1>2, <1>3, FS_Subset

\* An empty bucket has let its capacity pass.
LEMMA EmptyBucket ==
    ASSUME ScaleoutTypes, NEW p \in Serving("gateway"), pods[p].tokens = 0
    PROVE  Capacity <= Cardinality(Used)
<1> DEFINE own == {p} \X (1 .. Capacity)
<1>1. IsFiniteSet(1 .. Capacity) /\ Cardinality(1 .. Capacity) = Capacity
  BY FS_Interval, ScaleoutAssumption
<1>2. IsFiniteSet({p}) /\ Cardinality({p}) = 1
  BY FS_Singleton
<1>3. Cardinality(own) = Cardinality({p}) * Cardinality(1 .. Capacity)
  BY <1>1, <1>2, FS_Product
<1>4. own \in SUBSET Used
  BY ScaleoutAssumption DEF Used
<1> HIDE DEF own
<1>5. Cardinality(own) <= Cardinality(Used)
  BY <1>4, UsedIsFinite, FS_Subset
<1>6. QED
  BY <1>1, <1>2, <1>3, <1>5, ScaleoutAssumption

\* Full buckets, as section A finds them.
LEMMA NothingUsed ==
    ASSUME ScaleoutTypes, \A p \in Serving("gateway") : pods[p].tokens = Capacity
    PROVE  Cardinality(Used) = 0
<1>1. Used = {}
  BY ScaleoutAssumption DEF Used
<1>2. QED
  BY <1>1, FS_EmptySet

\* What a measurement of section A ends with.
LEMMA WhatIsCounted ==
    ASSUME ScaleoutTypes, ScriptOK, BucketsOK, ~unclean, phase = "run",
           at \in {2, 4}, sent = Probes
    PROVE  passed \in Capacity .. Step.n * Capacity
<1>1. passed = Cardinality(Used)
      /\ (passed < sent => \E p \in Serving("gateway") : pods[p].tokens = 0)
  BY DEF BucketsOK
<1>2. Cardinality(Serving("gateway")) = Step.n /\ Step.n \in {1, Many}
  BY UnderMeasurement, CleanServes, ExpectedGateway, GatewayTokens
<1>3. passed \in Nat /\ passed <= Step.n * Capacity
  BY <1>1, <1>2, UsedIsFinite DEF ScaleoutTypes
<1>4. Step.n * Capacity <= Many * Capacity
  BY <1>2, ScaleoutAssumption
<1>5. passed < sent
  BY <1>2, <1>3, <1>4, ScaleoutAssumption
<1>6. QED
  BY <1>1, <1>2, <1>3, <1>5, EmptyBucket, ScaleoutAssumption

\* A pod the cluster starts has a full bucket.
LEMMA ClusterFresh ==
    ASSUME ScaleoutTypes, Cluster, NEW on, on # {}, Fresh(on)
    PROVE  Fresh(on)'
<1>0. GatewayPods \subseteq AllPods
  BY GatewayTokens
<1>1. ASSUME NEW d \in Deployments, CreatePod(d) PROVE Fresh(on)'
  BY <1>0, <1>1, NewPod DEF Fresh
<1>2. ASSUME NEW q \in AllPods, NEW s, NEW t, Passes(q, s, t) PROVE Fresh(on)'
  BY <1>0, <1>2 DEF Passes, Fresh
<1>3. \A d \in Deployments : PodsOf(d) \subseteq AllPods
  BY EntryTypes
<1>4. QED
  BY <1>1, <1>2, <1>3, OldPod DEF Cluster

LEMMA ClusterGone ==
    ASSUME ScaleoutTypes, GoneOK, Cluster
    PROVE  GoneOK'
<1>1. ASSUME NEW d \in Deployments, CreatePod(d) PROVE GoneOK'
  BY <1>1, NewPod DEF GoneOK
<1>2. ASSUME NEW q \in AllPods, NEW s, NEW t, Passes(q, s, t) PROVE GoneOK'
  BY <1>2 DEF Passes, GoneOK
<1>3. \A d \in Deployments : PodsOf(d) \subseteq AllPods
  BY EntryTypes
<1>4. QED
  BY <1>1, <1>2, <1>3, OldPod DEF Cluster

\* The cluster does not disturb what is being counted.
LEMMA ClusterBuckets ==
    ASSUME ScaleoutTypes, ScriptOK, BucketsInv, Cluster
    PROVE  BucketsInv'
<1>1. UNCHANGED <<spec, phase, at, sent, passed, one, three, unclean>>
  BY ClusterTypes DEF measureVars, runVars
<1>2. SUFFICES ASSUME ~unclean, phase = "run", BucketsOK PROVE BucketsOK'
  BY <1>1 DEF BucketsInv, RateIsLimit
<1>3. at = 1 => Fresh({"limit"})'
  BY <1>2, ClusterFresh DEF BucketsOK
<1>4. at = 3 => Fresh({"limit", "stateless"})'
  BY <1>2, ClusterFresh DEF BucketsOK
<1>5. ASSUME at \in {2, 4}
      PROVE  /\ Used' = Used /\ Serving("gateway")' = Serving("gateway")
             /\ \A p \in Serving("gateway") : pods'[p] = pods[p]
  <2>1. Clean("gateway")
    BY <1>2, <1>5, UnderMeasurement
  <2>2. Still("gateway")
    BY <2>1, GatewayTokens, ClusterStill DEF Clean
  <2>3. Serving("gateway")' = Serving("gateway")
    BY <1>1, <2>1, <2>2, GatewayTokens, StillIsQuiet, QuietKeeps DEF Clean
  <2>4. \A p \in Serving("gateway") : pods'[p] = pods[p]
    BY <2>1, <2>2, GatewayTokens, CleanServes DEF Still
  <2>5. QED
    BY <2>3, <2>4 DEF Used
<1>6. QED
  BY <1>1, <1>2, <1>3, <1>4, <1>5 DEF BucketsOK

\* A probe is counted where it is taken from a bucket.
LEMMA ProbeBuckets ==
    ASSUME ScaleoutTypes, ScriptOK, BucketsInv, NEW p \in GatewayPods, Probe(p)
    PROVE  BucketsInv'
<1>1. /\ UNCHANGED <<spec, phase, at, one, three, unclean>> /\ sent' = sent + 1
      /\ phase = "run" /\ Step.do = "rate" /\ p \in Serving("gateway")
  BY DEF Probe, runVars, Measuring
<1>2. SUFFICES ASSUME ~unclean, BucketsOK PROVE BucketsOK'
  BY <1>1 DEF BucketsInv, RateIsLimit
<1>3. at \in {2, 4}
  BY <1>1, StepsAre, PlanMeasures DEF Step, ScaleoutTypes
<1>4. "limit" \in pods[p].on /\ p \in AllPods /\ pods[p].tokens \in 0 .. Capacity
      /\ Serving("gateway") \subseteq AllPods
  BY <1>1, <1>2, <1>3, UnderMeasurement, GatewayTokens
<1>5. Serving("gateway")' = Serving("gateway")
  BY ProbeTakes, GatewayTokens DEF Serving
<1>6. CASE pods[p].tokens = 0
  <2>1. passed' = passed /\ \A q \in AllPods : pods'[q].tokens = pods[q].tokens
    BY <1>4, <1>6, ProbeTakes
  <2>2. Used' = Used
    BY <1>4, <1>5, <2>1 DEF Used
  <2>3. QED
    BY <1>1, <1>2, <1>3, <1>4, <1>5, <1>6, <2>1, <2>2 DEF BucketsOK
<1>7. CASE pods[p].tokens > 0
  <2> DEFINE k == pods[p].tokens
             u == <<p, k>>
  <2>1. /\ passed' = passed + 1 /\ pods'[p].tokens = k - 1
        /\ \A q \in AllPods : q # p => pods'[q].tokens = pods[q].tokens
    BY <1>4, <1>7, ProbeTakes
  <2>2. k \in 1 .. Capacity /\ k \in Int
    BY <1>4, <1>7
  <2>3. Used' = Used \cup {u} /\ u \notin Used
    <3>1. u \notin Used
      BY <2>2 DEF Used
    <3>2. ASSUME NEW q \in Serving("gateway"), NEW i \in 1 .. Capacity
          PROVE  <<q, i>> \in Used' <=> <<q, i>> \in Used \/ <<q, i>> = u
      <4>1. <<q, i>> \in Used' <=> i > pods'[q].tokens
        BY <1>5 DEF Used
      <4>2. <<q, i>> \in Used <=> i > pods[q].tokens
        BY DEF Used
      <4>3. QED
        BY <1>4, <2>1, <2>2, <4>1, <4>2
    <3>3. /\ Used \subseteq Serving("gateway") \X (1 .. Capacity)
          /\ Used' \subseteq Serving("gateway") \X (1 .. Capacity)
      BY <1>5 DEF Used
    <3>4. u \in Serving("gateway") \X (1 .. Capacity)
      BY <1>1, <2>2
    <3> HIDE DEF u
    <3>5. \A x \in Serving("gateway") \X (1 .. Capacity) : x \in Used' <=> x \in Used \cup {u}
      BY <3>2
    <3>6. QED
      BY <3>1, <3>3, <3>4, <3>5
  <2> HIDE DEF u
  <2>4. Cardinality(Used') = Cardinality(Used) + 1
    BY <2>3, UsedIsFinite, FS_AddElement
  <2>5. passed \in Int /\ sent \in Int
    BY DEF ScaleoutTypes
  <2>6. ASSUME passed' < sent' PROVE \E q \in Serving("gateway")' : pods'[q].tokens = 0
    <3>1. PICK q \in Serving("gateway") : pods[q].tokens = 0
      BY <1>1, <1>2, <1>3, <2>1, <2>5, <2>6 DEF BucketsOK
    <3>2. q # p
      BY <1>7, <3>1
    <3>3. QED
      BY <1>4, <1>5, <2>1, <3>1, <3>2
  <2>7. QED
    BY <1>1, <1>2, <1>3, <2>1, <2>4, <2>6 DEF BucketsOK
<1>8. QED
  BY <1>4, <1>6, <1>7

\* A section of the plan begins with full buckets, and so nothing counted.
LEMMA AdvanceBuckets ==
    ASSUME ScaleoutTypes, ScriptOK, GoneOK, BucketsOK, ~unclean, phase = "run",
           Advance, UNCHANGED <<spec, pods>>,
           Step.do = "rollout" => spec[Dep] = Target(Dep) /\ Clean(Dep)
    PROVE  phase' = "run" => BucketsOK'
<1> SUFFICES ASSUME phase' = "run" PROVE BucketsOK'
  OBVIOUS
<1>1. at' = at + 1 /\ at \in 1 .. 11 /\ sent' = 0 /\ passed' = 0
  BY AdvanceTo DEF ScaleoutTypes
<1>2. Step = Plan[at] /\ Target("gateway") = GatewayAt(at + 1)
  BY StepsAre DEF Step, Target, DeploymentAt
<1>3. Serving("gateway")' = Serving("gateway") /\ Used' = Used
  BY DEF Serving, Used
<1>4. ASSUME at \in {1, 3} PROVE BucketsOK'
  <2>1. Step.do = "rollout" /\ Dep = "gateway"
    BY <1>2, <1>4, PlanRows DEF Dep, Rollout
  <2>2. \A p \in Serving("gateway") : pods[p].on = GatewayAt(at + 1).on
    BY <1>2, <2>1, GatewayTokens, CleanServes
  <2>3. Fresh(GatewayAt(at + 1).on)
    <3>1. CASE at = 1
      BY <3>1, ExpectedGateway DEF BucketsOK
    <3>2. CASE at = 3
      BY <3>2, ExpectedGateway DEF BucketsOK
    <3>3. QED
      BY <1>4, <3>1, <3>2
  <2>4. \A p \in Serving("gateway") : pods[p].tokens = Capacity
    BY <2>2, <2>3, GatewayTokens DEF Fresh
  <2>5. Cardinality(Used') = 0
    BY <1>3, <2>4, NothingUsed
  <2>6. QED
    BY <1>1, <1>4, <2>5 DEF BucketsOK
<1>5. ASSUME at = 2 PROVE BucketsOK'
  <2>1. Clean("gateway") /\ spec["gateway"].on = {"limit"}
    BY <1>5, UnderMeasurement, ExpectedGateway
  <2>2. \A p \in GatewayPods : pods[p].on \in {{}, {"limit"}}
    BY <2>1, GatewayTokens, CleanServes DEF GoneOK
  <2>3. Fresh({"limit", "stateless"})'
    BY <2>2 DEF Fresh
  <2>4. QED
    BY <1>1, <1>5, <2>3 DEF BucketsOK
<1>6. ASSUME at > 3 PROVE BucketsOK'
  BY <1>1, <1>6 DEF BucketsOK
<1>7. QED
  BY <1>1, <1>4, <1>5, <1>6

\* A run that was restored left no pod with the limit, and so no used bucket.
LEMMA RerunBuckets ==
    ASSUME ScaleoutTypes, ScriptOK, GoneOK, Rerun
    PROVE  BucketsInv'
<1>1. /\ phase \in {"done", "died"} /\ phase' = "run" /\ at' = 1
      /\ one' = -1 /\ three' = -1 /\ UNCHANGED <<spec, pods, unclean>>
  BY DEF Rerun, Begin
<1>2. SUFFICES ASSUME ~unclean PROVE BucketsOK' /\ RateIsLimit'
  BY <1>1 DEF BucketsInv
<1>3. phase = "done" /\ "gateway" \in Deployments
  BY <1>1, <1>2 DEF ScriptOK, Deployments
<1>4. spec["gateway"].on = {} /\ Clean("gateway")
  BY <1>3 DEF ScriptOK, DeploymentOK, Changing, Known, Before, Baseline
<1>5. \A p \in GatewayPods : pods[p].on = {}
  BY <1>4, GatewayTokens, CleanServes DEF GoneOK
<1>6. Fresh({"limit"})'
  BY <1>1, <1>5 DEF Fresh
<1>7. QED
  BY <1>1, <1>6 DEF BucketsOK, RateIsLimit

\* A measurement that ends reports the limit.
LEMMA RateBuckets ==
    ASSUME ScaleoutTypes, ScriptOK, GoneOK, BucketsInv, RateMeasured
    PROVE  BucketsInv'
<1>1. /\ phase = "run" /\ Step.do = "rate" /\ sent = Probes /\ Advance
      /\ UNCHANGED <<spec, pods, unclean>>
      /\ IF Step.n = 1 THEN one' = passed /\ UNCHANGED three
                       ELSE three' = passed /\ UNCHANGED one
  BY DEF RateMeasured, Measuring, runVars
<1>2. SUFFICES ASSUME ~unclean, BucketsOK, RateIsLimit
               PROVE  (phase' = "run" => BucketsOK') /\ RateIsLimit'
  BY <1>1 DEF BucketsInv
<1>3. at \in {2, 4}
  BY <1>1, StepsAre, PlanMeasures DEF Step, ScaleoutTypes
<1>4. phase' = "run" => BucketsOK'
  BY <1>1, <1>2, AdvanceBuckets
<1>5. passed \in Capacity .. Step.n * Capacity /\ Step.n \in {1, Many}
  BY <1>1, <1>2, <1>3, WhatIsCounted, UnderMeasurement
<1>6. RateIsLimit'
  <2>1. CASE Step.n = 1
    <3>1. passed = Capacity
      BY <1>5, <2>1, ScaleoutAssumption
    <3>2. QED
      BY <1>1, <1>2, <2>1, <3>1 DEF RateIsLimit
  <2>2. CASE Step.n # 1
    BY <1>1, <1>2, <1>5, <2>2 DEF RateIsLimit
  <2>3. QED
    BY <2>1, <2>2
<1>7. QED
  BY <1>4, <1>6

\* Every step of the script keeps BucketsInv.
LEMMA ScriptBuckets ==
    ASSUME ScaleoutTypes, ScriptOK, GoneOK, BucketsInv, Script
    PROVE  BucketsInv'
<1>1. CASE SetEnv \/ Scale \/ Status
  <2>1. UNCHANGED <<pods, phase, at, sent, passed, one, three, unclean>>
    BY <1>1 DEF SetEnv, Scale, Status, NextCall, measureVars, runVars
  <2>2. QED
    BY <2>1 DEF BucketsInv, BucketsOK, RateIsLimit, Used, Fresh, Serving
<1>2. ASSUME NEW p \in GatewayPods, Initialize(p) PROVE BucketsInv'
  <2>1. UNCHANGED <<pods, phase, at, sent, passed, one, three, unclean>>
    BY <1>2 DEF Initialize, runVars
  <2>2. QED
    BY <2>1 DEF BucketsInv, BucketsOK, RateIsLimit, Used, Fresh, Serving
<1>3. CASE Settle \/ OtherMeasured
  <2>1. /\ Advance /\ UNCHANGED <<spec, pods, one, three, unclean>>
        /\ phase \in {"run", "restore"}
        /\ Step.do = "rollout" => spec[Dep] = Target(Dep) /\ Clean(Dep)
    BY <1>3, SettledIsClean DEF OtherMeasured, Measuring, ResultsStay
  <2>2. phase' = "run" => phase = "run"
    BY <2>1, AdvanceTo
  <2>3. QED
    BY <2>1, <2>2, AdvanceBuckets DEF BucketsInv, RateIsLimit
<1>4. CASE KubectlFails \/ MeasureFails
  <2>1. Raise
    BY <1>4 DEF KubectlFails, MeasureFails
  <2>2. phase' # "run" /\ UNCHANGED <<one, three>> /\ (unclean => unclean')
    BY <2>1 DEF Raise, Begin
  <2>3. QED
    BY <2>2 DEF BucketsInv, RateIsLimit
<1>5. QED
  BY <1>1, <1>2, <1>3, <1>4, ProbeBuckets, RateBuckets, RerunBuckets DEF Script

LEMMA ScriptGone ==
    ASSUME ScaleoutTypes, GoneOK, Script
    PROVE  GoneOK'
<1>1. ASSUME NEW p \in GatewayPods, Probe(p) PROVE GoneOK'
  <2>1. p \in AllPods
    BY <1>1, GatewayTokens
  <2>2. QED
    BY <1>1, <2>1, ProbeTakes DEF GoneOK
<1>2. ASSUME NEW p \in GatewayPods, Initialize(p) PROVE GoneOK'
  BY <1>2 DEF Initialize, GoneOK
<1>3. CASE SetEnv \/ Scale \/ Status
  BY <1>3 DEF SetEnv, Scale, Status, NextCall, GoneOK
<1>4. CASE Settle \/ RateMeasured \/ OtherMeasured \/ Rerun
  BY <1>4 DEF Settle, RateMeasured, OtherMeasured, Rerun, GoneOK
<1>5. CASE KubectlFails \/ MeasureFails
  BY <1>5 DEF KubectlFails, MeasureFails, Raise, GoneOK
<1>6. QED
  BY <1>1, <1>2, <1>3, <1>4, <1>5 DEF Script

\* Every step keeps the invariant.
LEMMA ScaleoutStep ==
    ASSUME ScaleoutInv, [ScaleoutNext]_scaleoutVars
    PROVE  ScaleoutInv'
<1>1. CASE ScaleoutNext
  <2>1. ScaleoutTypes'
    BY <1>1, ClusterTypes, ScriptTypes DEF ScaleoutNext, ScaleoutInv
  <2>2. ScriptOK'
    BY <1>1, <2>1, ScriptInv DEF ScaleoutInv
  <2>3. GoneOK' /\ BucketsInv'
    BY <1>1, ClusterGone, ScriptGone, ClusterBuckets, ScriptBuckets
       DEF ScaleoutNext, ScaleoutInv
  <2>4. QED
    BY <2>1, <2>2, <2>3 DEF ScaleoutInv
<1>2. CASE UNCHANGED scaleoutVars
  <2>1. UNCHANGED <<spec, pods, phase, at, kubectl, pinned, sent, passed, one,
                    three, runs, unclean>>
    BY <1>2 DEF scaleoutVars, measureVars, runVars
  <2>2. ScaleoutTypes' /\ GoneOK'
    BY <2>1 DEF ScaleoutInv, ScaleoutTypes, GoneOK
  <2>3. BucketsInv'
    BY <2>1 DEF ScaleoutInv, BucketsInv, BucketsOK, RateIsLimit, Used, Fresh, Serving
  <2>4. ScriptOK'
    BY <2>1, AroundTheScript DEF ScaleoutInv, Quiet
  <2>5. QED
    BY <2>2, <2>3, <2>4 DEF ScaleoutInv
<1>3. QED
  BY <1>1, <1>2

\* The invariant holds in every state, and with it what the script promises.
LEMMA ScaleoutHolds == ScaleoutSpec => []ScaleoutInv
<1>1. ScaleoutInit => ScaleoutInv
  BY FirstStates
<1>2. ScaleoutInv /\ [ScaleoutNext]_scaleoutVars => ScaleoutInv'
  BY ScaleoutStep
<1>3. QED
  BY <1>1, <1>2, PTL DEF ScaleoutSpec

\* The type invariant of VerifyScaleout.
THEOREM ScaleoutTypeCorrect == ScaleoutSpec => []ScaleoutTypes
<1>1. ScaleoutInv => ScaleoutTypes
  BY DEF ScaleoutInv
<1>2. QED
  BY <1>1, ScaleoutHolds, PTL

\* No section measures a gateway other than the one its heading names, and no
\* pod of an earlier section answers it, whatever kubectl did before: the
\* rollout before it ended in `settle`, and the cluster then does nothing more
\* (scripts/verify_scaleout.py:61-97, 263-302).
THEOREM MeasuresWhatItSays == ScaleoutSpec => []MeasuredOnTarget
<1>1. ASSUME ScaleoutInv, phase = "run", Step.do # "rollout"
      PROVE  /\ Cardinality(Serving("gateway")) = Step.n
             /\ \A p \in Serving("gateway") : pods[p].on = Step.on
             /\ ~unclean => Cardinality(Serving("ticket-server")) = Step.tickets
  <2>1. /\ ScaleoutTypes /\ ScriptOK /\ Step = Plan[at] /\ at \in 1 .. 12
        /\ "gateway" \in Deployments /\ "ticket-server" \in Deployments
    BY <1>1, StepsAre DEF ScaleoutInv, Step, ScaleoutTypes, Deployments
  <2>2. /\ at \in {2, 4, 7, 10, 12} /\ Step.n = GatewayAt(at).n
        /\ Step.on = GatewayAt(at).on /\ Step.tickets = TicketsAt(at).n
    BY <1>1, <2>1, PlanMeasures
  <2>3. \A d \in Deployments : ~Changing(d)
    BY <1>1 DEF Changing
  <2>4. Known("gateway") /\ Before("gateway") = GatewayAt(at)
    BY <1>1, <2>2 DEF Known, Before, DeploymentAt
  <2>5. spec["gateway"] = GatewayAt(at) /\ Clean("gateway")
    BY <2>1, <2>3, <2>4 DEF ScriptOK, DeploymentOK
  <2>6. ASSUME ~unclean PROVE Cardinality(Serving("ticket-server")) = Step.tickets
    <3>1. Known("ticket-server") /\ Before("ticket-server") = TicketsAt(at)
      BY <1>1, <2>6 DEF Known, Before, DeploymentAt
    <3>2. spec["ticket-server"] = TicketsAt(at) /\ Clean("ticket-server")
      BY <2>1, <2>3, <3>1 DEF ScriptOK, DeploymentOK
    <3>3. QED
      BY <2>1, <2>2, <3>2, CleanServes
  <2>7. QED
    BY <2>1, <2>2, <2>5, <2>6, CleanServes
<1>2. ScaleoutInv => MeasuredOnTarget
  BY <1>1 DEF MeasuredOnTarget
<1>3. QED
  BY <1>2, ScaleoutHolds, PTL

\* Section A counts exactly the capacity of the one bucket, and with many
\* replicas at least that and at most the capacity of all of them, however
\* the probes are spread over the pods, unless an earlier run died while it
\* restored (scripts/verify_scaleout.py:140-156, 263-279).
THEOREM SectionACounts == ScaleoutSpec => []RateIsLimit
<1>1. ScaleoutInv => RateIsLimit
  BY DEF ScaleoutInv, BucketsInv, RateIsLimit
<1>2. QED
  BY <1>1, ScaleoutHolds, PTL

\* A run that ends without an exception from restore leaves the baseline,
\* whatever failed before it (scripts/verify_scaleout.py:100-109, 303-305).
THEOREM BaselineIsRestored == ScaleoutSpec => []Restored
<1>1. ASSUME ScaleoutInv, phase = "done", NEW d \in Deployments
      PROVE  /\ spec[d] = [n |-> 1, on |-> {}]
             /\ Cardinality(Listed(d)) = 1
             /\ \A p \in Listed(d) : pods[p].state = "ready" /\ pods[p].on = {}
  <2>1. spec[d] = Baseline /\ Clean(d)
    BY <1>1 DEF ScaleoutInv, ScriptOK, DeploymentOK, Changing, Known, Before
  <2>2. QED
    BY <1>1, <2>1, CleanServes DEF ScaleoutInv, Baseline
<1>2. ScaleoutInv => Restored
  BY <1>1 DEF Restored
<1>3. QED
  BY <1>2, ScaleoutHolds, PTL
=============================================================================
