------------------------ MODULE CircuitBreakerProofs ------------------------
(***************************************************************************)
(* Proofs about CircuitBreaker, for any servers, calls and parameters, and *)
(* for calls of any length, cancelled or not.                              *)
(***************************************************************************)
EXTENDS CircuitBreaker, TLAPS

\* Every step keeps the variables in their ranges.
LEMMA TypeStep == TypeOK /\ [Next]_vars => TypeOK'
<1> SUFFICES ASSUME TypeOK, [Next]_vars PROVE TypeOK'
  OBVIOUS
<1> USE CircuitAssumption DEF TypeOK, Closed
<1>1. ASSUME NEW c \in Calls, NEW s \in Servers, Admit(c, s) PROVE TypeOK'
  BY <1>1 DEF Admit, Open
<1>2. ASSUME NEW c \in Calls, NEW s \in Servers, Refuse(c, s) PROVE TypeOK'
  BY <1>2 DEF Refuse, brVars
<1>3. ASSUME NEW c \in Calls, Return(c) PROVE TypeOK'
  BY <1>3 DEF Return, brVars
<1>4. ASSUME NEW c \in Calls, Succeed(c) PROVE TypeOK'
  BY <1>4 DEF Succeed, Land, RecordSuccess
<1>5. ASSUME NEW c \in Calls, Fail(c) PROVE TypeOK'
  BY <1>5 DEF Fail, Land, RecordFailure
<1>6. ASSUME NEW c \in Calls, Abandon(c) PROVE TypeOK'
  BY <1>6 DEF Abandon, Land, brVars
<1>7. ASSUME Tick PROVE TypeOK'
  BY <1>7 DEF Tick, Open
<1>8. CASE UNCHANGED vars
  BY <1>8 DEF vars
<1>9. QED
  BY <1>1, <1>2, <1>3, <1>4, <1>5, <1>6, <1>7, <1>8 DEF Next

\* Type correctness: no sequence of calls, results, cancellations and ticks
\* takes the breaker's tables out of their ranges.
THEOREM TypeCorrect == Spec => []TypeOK
<1>1. Init => TypeOK
  BY CircuitAssumption DEF Init, TypeOK, Closed
<1>2. QED
  BY <1>1, TypeStep, PTL DEF Spec

-----------------------------------------------------------------------------
\* Every step keeps the failure count, the open circuits and the probe marks
\* consistent, whatever late result or cancellation it is.
LEMMA TablesStep == TypeOK /\ TablesAgree /\ [Next]_vars => TablesAgree'
<1> SUFFICES ASSUME TypeOK, TablesAgree, [Next]_vars PROVE TablesAgree'
  OBVIOUS
<1> USE CircuitAssumption DEF TypeOK, TablesAgree, Open, Cooled, Closed
<1>1. ASSUME NEW c \in Calls, NEW s \in Servers, Admit(c, s) PROVE TablesAgree'
  BY <1>1 DEF Admit
<1>2. ASSUME NEW c \in Calls, NEW s \in Servers, Refuse(c, s) PROVE TablesAgree'
  BY <1>2 DEF Refuse, brVars
<1>3. ASSUME NEW c \in Calls, Return(c) PROVE TablesAgree'
  BY <1>3 DEF Return, brVars
<1>4. ASSUME NEW c \in Calls, Succeed(c) PROVE TablesAgree'
  BY <1>4 DEF Succeed, Land, RecordSuccess
<1>5. ASSUME NEW c \in Calls, Fail(c) PROVE TablesAgree'
  BY <1>5 DEF Fail, Land, RecordFailure
<1>6. ASSUME NEW c \in Calls, Abandon(c) PROVE TablesAgree'
  BY <1>6 DEF Abandon, brVars
<1>7. ASSUME Tick PROVE TablesAgree'
  BY <1>7 DEF Tick
<1>8. CASE UNCHANGED vars
  BY <1>8 DEF vars
<1>9. QED
  BY <1>1, <1>2, <1>3, <1>4, <1>5, <1>6, <1>7, <1>8 DEF Next

\* The three tables of the breaker agree at all times: in particular a failed
\* probe always re-opens the circuit, for any threshold (circuit.py:75-80).
THEOREM TablesAlwaysAgree == Spec => []TablesAgree
<1>1. Init => TypeOK /\ TablesAgree
  BY CircuitAssumption DEF Init, TypeOK, TablesAgree, Open, Cooled, Closed
<1>2. TypeOK /\ TablesAgree /\ [Next]_vars => (TypeOK /\ TablesAgree)'
  BY TypeStep, TablesStep
<1>3. QED
  BY <1>1, <1>2, PTL DEF Spec

-----------------------------------------------------------------------------
\* A call on an open circuit was under way before the circuit last opened, so
\* that it is at least as old as the opening, unless it is the probe that holds
\* the mark.  A probe is a call under way.
AgesAgree ==
    \A c \in Calls :
        /\ probe[c] => at[c] = "flying"
        /\ at[c] = "flying" /\ Open(server[c])
              => \/ age[c] >= openFor[server[c]]
                 \/ probe[c] /\ server[c] \in probing

ProbeInv == TypeOK /\ TablesAgree /\ AgesAgree /\ OneProbe

\* The strengthened invariant survives every step.  A result takes a mark out
\* only when it also closes the circuit or starts its cooldown anew; when that
\* is over and the next probe is admitted, every other call is old.
LEMMA ProbeStep == ProbeInv /\ [Next]_vars => ProbeInv'
<1> SUFFICES ASSUME ProbeInv, [Next]_vars PROVE ProbeInv'
  OBVIOUS
<1>1. TypeOK' /\ TablesAgree'
  BY TypeStep, TablesStep DEF ProbeInv
<1> DEFINE Rest == AgesAgree /\ OneProbe
<1> USE CircuitAssumption
        DEF ProbeInv, TypeOK, AgesAgree, OneProbe, Old, Open, Closed
<1>3. ASSUME NEW c \in Calls, NEW s \in Servers, Admit(c, s) PROVE Rest'
  <2>1. /\ ~probe[c] /\ server'[c] = s /\ at'[c] = "flying"
        /\ age'[c] = 0 /\ probe'[c] = Open(s) /\ openFor' = openFor
        /\ \A d \in Calls : d # c => /\ probe'[d] = probe[d] /\ age'[d] = age[d]
                                     /\ server'[d] = server[d] /\ at'[d] = at[d]
    BY <1>3 DEF Admit
  <2>2. CASE Open(s)
    <3>1. /\ probing' = probing \cup {s} /\ s \notin probing
          /\ openFor[s] >= Cooldown
      BY <1>3, <2>2 DEF Admit, Cooled
    <3>2. AgesAgree'
      BY <2>1, <2>2, <3>1
    <3>3. \A d \in Calls : d # c /\ probe[d] /\ server[d] = s => Old(d)
      BY <2>2, <3>1
    <3>4. OneProbe'
      BY <2>1, <3>3
    <3>5. QED
      BY <3>2, <3>4
  <2>3. CASE ~Open(s)
    <3>1. probing' = probing /\ ~probe'[c]
      BY <1>3, <2>1, <2>3 DEF Admit
    <3>2. AgesAgree' /\ OneProbe'
      BY <2>1, <2>3, <3>1
    <3>3. QED
      BY <3>2
  <2>4. QED
    BY <2>2, <2>3
<1>4. ASSUME NEW c \in Calls, NEW s \in Servers, Refuse(c, s) PROVE Rest'
  <2>1. /\ UNCHANGED <<openFor, probing, age>> /\ ~probe[c] /\ ~probe'[c]
        /\ at'[c] = "refused"
        /\ \A d \in Calls : d # c => /\ probe'[d] = probe[d] /\ server'[d] = server[d]
                                     /\ at'[d] = at[d]
    BY <1>4 DEF Refuse, brVars
  <2>2. QED
    BY <2>1
<1>5. ASSUME NEW c \in Calls, Return(c) PROVE Rest'
  BY <1>5 DEF Return, brVars
<1>6. ASSUME NEW c \in Calls, Land(c), probing' = probing \ {server[c]},
             \A s \in Servers : s # server[c] => openFor'[s] = openFor[s],
             openFor'[server[c]] \in {Closed, 0}
      PROVE Rest'
  <2>1. /\ ~probe'[c] /\ server' = server /\ at[c] = "flying" /\ at'[c] = "idle"
        /\ \A d \in Calls : d # c => /\ probe'[d] = probe[d] /\ at'[d] = at[d]
                                     /\ age'[d] = age[d]
    BY <1>6 DEF Land
  <2>2. OneProbe'
    BY <2>1
  <2>3. AgesAgree'
    BY <1>6, <2>1
  <2>4. QED
    BY <2>2, <2>3
<1>7. ASSUME NEW c \in Calls, Succeed(c) PROVE Rest'
  BY <1>6, <1>7 DEF Succeed, RecordSuccess
<1>8. ASSUME NEW c \in Calls, Fail(c) PROVE Rest'
  <2>1. openFor'[server[c]] \in {Closed, 0}
    BY <1>8 DEF Fail, RecordFailure, TablesAgree
  <2>2. QED
    BY <1>6, <1>8, <2>1 DEF Fail, RecordFailure
<1>9. ASSUME NEW c \in Calls, Abandon(c) PROVE Rest'
  <2>1. /\ ~probe'[c] /\ server' = server /\ at'[c] = "idle"
        /\ UNCHANGED <<openFor, probing>>
        /\ \A d \in Calls : d # c => /\ probe'[d] = probe[d] /\ at'[d] = at[d]
                                     /\ age'[d] = age[d]
    BY <1>9 DEF Abandon, Land, brVars
  <2>2. QED
    BY <2>1
<1>10. ASSUME Tick PROVE Rest'
  <2>1. /\ UNCHANGED <<probing, at, server, probe>>
        /\ \A s \in Servers : openFor'[s] # Closed =>
              /\ openFor[s] # Closed
              /\ openFor'[s] <= Cooldown /\ openFor'[s] <= openFor[s] + 1
        /\ \A c \in Calls : /\ age'[c] >= age[c]
                            /\ at[c] = "flying" =>
                                 age'[c] = Cooldown \/ age'[c] = age[c] + 1
    BY <1>10 DEF Tick
  <2>2. OneProbe'
    BY <2>1
  <2>3. ASSUME NEW c \in Calls, at'[c] = "flying", openFor'[server'[c]] # Closed
        PROVE  \/ age'[c] >= openFor'[server'[c]]
               \/ probe'[c] /\ server'[c] \in probing'
    <3>1. server[c] \in Servers /\ server'[c] = server[c]
      BY <2>1
    <3>2. CASE probe[c] /\ server[c] \in probing
      BY <2>1, <3>1, <3>2
    <3>3. CASE age[c] >= openFor[server[c]]
      <4>1. age'[c] = Cooldown \/ age'[c] = age[c] + 1
        BY <2>1, <2>3
      <4>2. /\ openFor'[server[c]] <= Cooldown
            /\ openFor'[server[c]] <= openFor[server[c]] + 1
            /\ openFor[server[c]] # Closed
        BY <2>1, <2>3, <3>1
      <4>3. /\ age[c] \in Int /\ openFor[server[c]] \in Int
            /\ openFor'[server[c]] \in Int
        BY <1>1, <3>1
      <4>4. age'[c] >= openFor'[server[c]]
        BY <3>3, <4>1, <4>2, <4>3
      <4>5. QED
        BY <3>1, <4>4
    <3>4. QED
      BY <2>1, <2>3, <3>1, <3>2, <3>3
  <2>4. AgesAgree'
    BY <2>1, <2>3
  <2>5. QED
    BY <2>2, <2>4
<1>11. ASSUME UNCHANGED vars PROVE Rest'
  BY <1>11 DEF vars
<1>12. Rest'
  BY <1>3, <1>4, <1>5, <1>7, <1>8, <1>9, <1>10, <1>11 DEF Next
<1>13. QED
  BY <1>1, <1>12

\* A server is tested once per cooldown, whatever results come how late and
\* whatever is cancelled (circuit.py:49-80): two half-open probes are under way
\* together only if one has outlasted the cooldown.
THEOREM ProbeIsAlone == Spec => []OneProbe
<1>1. Init => ProbeInv
  BY CircuitAssumption
     DEF Init, ProbeInv, TypeOK, TablesAgree, AgesAgree, OneProbe, Open, Cooled,
         Closed
<1>2. ProbeInv => OneProbe
  BY DEF ProbeInv
<1>3. QED
  BY <1>1, <1>2, ProbeStep, PTL DEF Spec

-----------------------------------------------------------------------------
\* Only a call under way is a probe.
ProbesFly == \A c \in Calls : probe[c] => at[c] = "flying"

LEMMA FlyStep == TypeOK /\ ProbesFly /\ [Next]_vars => ProbesFly'
<1> SUFFICES ASSUME TypeOK, ProbesFly, [Next]_vars PROVE ProbesFly'
  OBVIOUS
<1> USE DEF TypeOK, ProbesFly
<1>1. ASSUME NEW c \in Calls, NEW s \in Servers, Admit(c, s) \/ Refuse(c, s)
      PROVE ProbesFly'
  BY <1>1 DEF Admit, Refuse
<1>2. ASSUME NEW c \in Calls, Return(c) \/ Land(c) PROVE ProbesFly'
  BY <1>2 DEF Return, Land
<1>3. CASE Tick \/ UNCHANGED vars
  BY <1>3 DEF Tick, vars
<1>4. QED
  BY <1>1, <1>2, <1>3, CircuitAssumption DEF Next, Succeed, Fail, Abandon

\* Every step that leaves a mark without its probe is a cancelled call.
LEMMA LeakStep ==
    ASSUME TypeOK, ProbesFly, Next, NEW s \in Servers, Leaked(s)', ~Leaked(s)
    PROVE  \E c \in Cancellable : Abandon(c)
<1> USE DEF TypeOK, ProbesFly, Leaked
<1>1. ASSUME NEW c \in Calls, NEW r \in Servers, Admit(c, r) PROVE FALSE
  <2>1. CASE Open(r)
    BY <1>1, <2>1 DEF Admit
  <2>2. CASE ~Open(r)
    BY <1>1, <2>2 DEF Admit
  <2>3. QED
    BY <2>1, <2>2
<1>2. ASSUME NEW c \in Calls, NEW r \in Servers, Refuse(c, r) PROVE FALSE
  BY <1>2 DEF Refuse, brVars
<1>3. ASSUME NEW c \in Calls, Return(c) PROVE FALSE
  BY <1>3 DEF Return, brVars
<1>4. ASSUME NEW c \in Calls, Land(c), probing' = probing \ {server[c]}
      PROVE FALSE
  BY <1>4 DEF Land
<1>5. ASSUME NEW c \in Calls, Succeed(c) \/ Fail(c) PROVE FALSE
  BY <1>4, <1>5 DEF Succeed, Fail, RecordSuccess, RecordFailure
<1>6. ASSUME Tick PROVE FALSE
  BY <1>6 DEF Tick
<1>7. QED
  BY <1>1, <1>2, <1>3, <1>5, <1>6 DEF Next

\* Whatever the lengths of the calls, a mark is left behind in _probing only
\* by a cancelled call: results alone cannot refuse a server for ever
\* (circuit.py:64-66, routes.py:97-104).
THEOREM LeaksNeedCancel == Spec => LeakNeedsCancel
<1> DEFINE LeakRule == \A s \in Servers : Leaked(s)' /\ ~Leaked(s)
                         => \E c \in Cancellable : Abandon(c)
<1>1. Init => TypeOK /\ ProbesFly
  BY CircuitAssumption DEF Init, TypeOK, ProbesFly, Closed
<1>2. TypeOK /\ ProbesFly /\ [Next]_vars => (TypeOK /\ ProbesFly)'
  BY TypeStep, FlyStep
<1>3. TypeOK /\ ProbesFly /\ [Next]_vars => [LeakRule]_vars
  BY LeakStep
<1>4. QED
  BY <1>1, <1>2, <1>3, PTL DEF Spec, LeakNeedsCancel

=============================================================================
