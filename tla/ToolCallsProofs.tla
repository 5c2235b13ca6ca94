-------------------------- MODULE ToolCallsProofs --------------------------
(***************************************************************************)
(* Proofs about ToolCalls, for any backends, agents, policy, requests,     *)
(* cancellations and parameters of the breaker and the limiter.            *)
(***************************************************************************)
EXTENDS ToolCalls, TLAPS

\* Types of the breaker's variables, kept by its own actions.
LEMMA BreakerType ==
    ASSUME Breaker!TypeOK, [Breaker!Next]_brVars, Cancellable \subseteq Calls
    PROVE  Breaker!TypeOK'
<1> USE ToolCallsAssumption DEF Breaker!TypeOK, Breaker!Closed
<1>1. ASSUME NEW c \in Calls, NEW s \in Servers, Breaker!Admit(c, s)
      PROVE  Breaker!TypeOK'
  BY <1>1 DEF Breaker!Admit, Breaker!Open
<1>2. ASSUME NEW c \in Calls, NEW s \in Servers, Breaker!Refuse(c, s)
      PROVE  Breaker!TypeOK'
  BY <1>2 DEF Breaker!Refuse, Breaker!brVars
<1>3. ASSUME NEW c \in Calls, Breaker!Return(c) PROVE Breaker!TypeOK'
  BY <1>3 DEF Breaker!Return, Breaker!brVars
<1>4. ASSUME NEW c \in Calls, Breaker!Succeed(c) PROVE Breaker!TypeOK'
  BY <1>4 DEF Breaker!Succeed, Breaker!Land, Breaker!RecordSuccess
<1>5. ASSUME NEW c \in Calls, Breaker!Fail(c) PROVE Breaker!TypeOK'
  BY <1>5 DEF Breaker!Fail, Breaker!Land, Breaker!RecordFailure
<1>6. ASSUME NEW c \in Calls, Breaker!Abandon(c) PROVE Breaker!TypeOK'
  BY <1>6 DEF Breaker!Abandon, Breaker!Land, Breaker!brVars
<1>7. ASSUME Breaker!Tick PROVE Breaker!TypeOK'
  BY <1>7 DEF Breaker!Tick, Breaker!Open
<1>8. CASE UNCHANGED brVars
  BY <1>8 DEF brVars
<1>9. QED
  BY <1>1, <1>2, <1>3, <1>4, <1>5, <1>6, <1>7, <1>8 DEF Breaker!Next

-----------------------------------------------------------------------------
\* What one segment of a call does to the breaker is a step of the breaker.
LEMMA DispatchUses ==
    ASSUME NEW c \in Calls, NEW a, NEW s \in Servers, NEW t,
           Dispatch(c, a, s, t)
    PROVE  [Breaker!Next]_brVars
<1>1. CASE UNCHANGED brVars
  BY <1>1
<1>2. CASE Breaker!Refuse(c, s)
  BY <1>2 DEF Breaker!Next
<1>3. CASE Breaker!Admit(c, s)
  BY <1>3 DEF Breaker!Next
<1>4. QED
  BY <1>1, <1>2, <1>3 DEF Dispatch

\* A request names an agent, a backend or none, and a tool.
LEMMA Triple ==
    ASSUME NEW r \in Requests \cup {NoCall}
    PROVE  /\ r = <<r[1], r[2], r[3]>>
           /\ r[2] \in Servers \cup {Unknown}
           /\ r[1] \in Agents => r \in Requests
BY ToolCallsAssumption DEF NoCall

\* A call that waits for a connection waits for a backend that exists.
Addressed == \A c \in Calls : pc[c] = "ensure" => call[c][2] \in Servers

LEMMA StepUses ==
    ASSUME Addressed, known \subseteq Servers, [Next]_vars
    PROVE  [Breaker!Next]_brVars
<1>1. ASSUME NEW c \in Calls, NEW r \in Requests \cup {NoCall},
             Arrive(c, r[1], r[2], r[3])
      PROVE  [Breaker!Next]_brVars
  <2>1. CASE UNCHANGED brVars
    BY <2>1
  <2>2. CASE r[2] \in Servers /\ Dispatch(c, r[1], r[2], r[3])
    BY <2>2, DispatchUses
  <2>3. QED
    BY <1>1, <2>1, <2>2, Triple DEF Arrive, Authenticated, Route
<1>2. ASSUME NEW c \in Calls, NEW ok \in BOOLEAN, Ensured(c, ok)
      PROVE  [Breaker!Next]_brVars
  <2>1. call[c][2] \in Servers
    BY <1>2 DEF Ensured, Addressed
  <2>2. CASE UNCHANGED brVars
    BY <2>2
  <2>3. CASE Dispatch(c, call[c][1], call[c][2], call[c][3])
    BY <2>1, <2>3, DispatchUses
  <2>4. QED
    BY <1>2, <2>2, <2>3 DEF Ensured
<1>3. ASSUME NEW c \in Calls, NEW code \in Relayed, Returned(c, code)
      PROVE  [Breaker!Next]_brVars
  <2>1. Breaker!Fail(c) \/ Breaker!Succeed(c)
    BY <1>3 DEF Returned
  <2>2. QED
    BY <2>1 DEF Breaker!Next
<1>4. ASSUME NEW c \in Calls, Leave(c) PROVE [Breaker!Next]_brVars
  <2>1. Breaker!Return(c) \/ UNCHANGED brVars
    BY <1>4 DEF Leave
  <2>2. QED
    BY <2>1 DEF Breaker!Next
<1>5. ASSUME NEW c \in Cancellable, Cancel(c) PROVE [Breaker!Next]_brVars
  <2>1. Breaker!Abandon(c) \/ UNCHANGED brVars
    BY <1>5 DEF Cancel
  <2>2. QED
    BY <2>1 DEF Breaker!Next
<1>6. CASE Tick
  <2>1. Breaker!Tick
    BY <1>6 DEF Tick
  <2>2. QED
    BY <2>1 DEF Breaker!Next
<1>7. CASE UNCHANGED brVars
  BY <1>7
<1>8. ASSUME NEW c \in Calls, Execute(c) PROVE UNCHANGED brVars
  BY <1>8 DEF Execute
<1>9. ASSUME NEW ok \in BOOLEAN, Warm(ok) PROVE UNCHANGED brVars
  BY <1>9 DEF Warm
<1>10. ASSUME NEW a \in Agents, List(a) PROVE UNCHANGED brVars
  BY <1>10 DEF List
<1>11. ASSUME NEW a \in Agents, NEW ok \in BOOLEAN, ListResumed(a, ok)
       PROVE  UNCHANGED brVars
  BY <1>11 DEF ListResumed
<1>12. ASSUME NEW s \in Servers, Probed(s) PROVE UNCHANGED brVars
  BY <1>12 DEF Probed
<1>13. CASE UNCHANGED vars
  BY <1>13 DEF vars, brVars
<1>14. QED
  BY <1>1, <1>2, <1>3, <1>4, <1>5, <1>6, <1>7, <1>8, <1>9, <1>10, <1>11,
     <1>12, <1>13 DEF Next, Progress

-----------------------------------------------------------------------------
\* The breaker's view is typed; what the calls of it are is known from TypeOK.
LEMMA BreakerTyped ==
    ASSUME TypeOK, Addressed, [Next]_vars
    PROVE  Breaker!TypeOK'
BY StepUses, BreakerType, ToolCallsAssumption DEF TypeOK

\* Types of the limiter's variables, kept by its own actions.
LimiterType ==
    /\ level \in [Agents -> 0 .. Capacity * Unit]
    /\ turn \in [Agents -> {"none", "granted", "refused"}]

LEMMA LimiterTyped ==
    ASSUME LimiterType, [Limiter!Next]_limVars
    PROVE  LimiterType'
<1> DEFINE Top == Capacity * Unit
<1>0. Top \in Nat
  BY ToolCallsAssumption
<1> HIDE DEF Top
<1> USE ToolCallsAssumption, <1>0
<1>1. LimiterType <=> /\ level \in [Agents -> 0 .. Top]
                      /\ turn \in [Agents -> {"none", "granted", "refused"}]
  BY DEF LimiterType, Top
<1>2. CASE Limiter!Drip
  BY <1>2, <1>1 DEF Limiter!Drip, Limiter!AtMost, Limiter!Full, LimiterType, Top
<1>3. ASSUME NEW a \in Agents, Limiter!Take(a) PROVE LimiterType'
  BY <1>3 DEF Limiter!Take, LimiterType
<1>4. ASSUME NEW a \in Agents, Limiter!Turn(a) PROVE LimiterType'
  BY <1>4 DEF Limiter!Turn, LimiterType
<1>5. CASE UNCHANGED limVars
  BY <1>5 DEF limVars, LimiterType
<1>6. QED
  BY <1>2, <1>3, <1>4, <1>5 DEF Limiter!Next

LEMMA LimiterUses ==
    ASSUME [Next]_vars
    PROVE  [Limiter!Next]_limVars
<1>1. ASSUME NEW c \in Calls, NEW r \in Requests \cup {NoCall},
             Arrive(c, r[1], r[2], r[3])
      PROVE  [Limiter!Next]_limVars
  <2>1. UNCHANGED limVars \/ \E a \in Agents : Limiter!Turn(a) \/ Limiter!Take(a)
    BY <1>1 DEF Arrive, Authenticated
  <2>2. QED
    BY <2>1 DEF Limiter!Next
<1>2. CASE Tick
  BY <1>2 DEF Tick, Limiter!Next
<1>3. ASSUME NEW c \in Calls, Execute(c) \/ Progress(c) \/ Cancel(c)
      PROVE  UNCHANGED limVars
  BY <1>3 DEF Execute, Progress, Ensured, Returned, Leave, Cancel
<1>4. ASSUME NEW ok \in BOOLEAN, Warm(ok) PROVE UNCHANGED limVars
  BY <1>4 DEF Warm
<1>5. ASSUME NEW a \in Agents, List(a) \/ \E ok \in BOOLEAN : ListResumed(a, ok)
      PROVE  UNCHANGED limVars
  BY <1>5 DEF List, ListResumed
<1>6. ASSUME NEW s \in Servers, Probed(s) PROVE UNCHANGED limVars
  BY <1>6 DEF Probed
<1>7. CASE UNCHANGED vars
  BY <1>7 DEF vars, limVars
<1>8. QED
  BY <1>1, <1>2, <1>3, <1>4, <1>5, <1>6, <1>7, ToolCallsAssumption DEF Next

-----------------------------------------------------------------------------
\* The types of the variables that are the gateway's own, in two parts.
CallTypes ==
    /\ pc \in [Calls -> {"idle", "ensure", "relay", "done", "abandoned"}]
    /\ call \in [Calls -> Requests \cup {NoCall}] /\ result \in [Calls -> Codes]
    /\ metric \in [Calls -> Decisions]
    /\ audit \in [Calls -> Decisions \cup {"lost"}]
    /\ ran \in [Calls -> BOOLEAN]

ListTypes ==
    /\ boot \in 1 .. N + 1 /\ known \subseteq Servers
    /\ walk \in [Agents -> Servers \cup {Unknown}]
    /\ listing \in [Agents -> SUBSET Servers]
    /\ seen \in [Agents -> SUBSET Servers]

LEMMA FinishTyped ==
    ASSUME CallTypes, NEW c \in Calls, NEW code \in Codes,
           NEW decision \in Decisions, Finish(c, code, decision)
    PROVE  /\ pc' \in [Calls -> {"idle", "ensure", "relay", "done", "abandoned"}]
           /\ result' \in [Calls -> Codes] /\ metric' \in [Calls -> Decisions]
           /\ audit' \in [Calls -> Decisions \cup {"lost"}]
BY DEF CallTypes, Finish, RecordCall

LEMMA DispatchTyped ==
    ASSUME CallTypes, NEW c \in Calls, NEW a, NEW s, NEW t, Dispatch(c, a, s, t)
    PROVE  /\ pc' \in [Calls -> {"idle", "ensure", "relay", "done", "abandoned"}]
           /\ result' \in [Calls -> Codes] /\ metric' \in [Calls -> Decisions]
           /\ audit' \in [Calls -> Decisions \cup {"lost"}]
<1>1. {"UNKNOWN_TOOL", "POLICY_DENIED", "BACKEND_UNAVAILABLE"} \subseteq Codes
      /\ {"error", "denied"} \subseteq Decisions
  BY DEF Codes, Decisions
<1>2. CASE UNCHANGED bookVars /\ pc' = [pc EXCEPT ![c] = "relay"]
  BY <1>2 DEF CallTypes, bookVars
<1>3. QED
  BY <1>1, <1>2, FinishTyped DEF Dispatch

LEMMA CallsTyped ==
    ASSUME CallTypes, [Next]_vars
    PROVE  CallTypes'
<1>1. ASSUME NEW c \in Calls, NEW r \in Requests \cup {NoCall},
             Arrive(c, r[1], r[2], r[3])
      PROVE  CallTypes'
  <2>1. call' \in [Calls -> Requests \cup {NoCall}] /\ ran' = ran
    BY <1>1, Triple DEF Arrive, Authenticated, CallTypes
  <2>2. {"AUTH_FAILED", "RATE_LIMITED", "UNKNOWN_TOOL"} \subseteq Codes
        /\ {"auth_failed", "rate_limited", "error"} \subseteq Decisions
    BY DEF Codes, Decisions
  <2>3. CASE Finish(c, "AUTH_FAILED", "auth_failed")
    BY <2>1, <2>2, <2>3, FinishTyped DEF CallTypes
  <2>4. CASE Finish(c, "RATE_LIMITED", "rate_limited")
    BY <2>1, <2>2, <2>4, FinishTyped DEF CallTypes
  <2>5. CASE Finish(c, "UNKNOWN_TOOL", "error")
    BY <2>1, <2>2, <2>5, FinishTyped DEF CallTypes
  <2>6. CASE pc' = [pc EXCEPT ![c] = "ensure"] /\ UNCHANGED bookVars
    BY <2>1, <2>6 DEF CallTypes, bookVars
  <2>7. CASE Dispatch(c, r[1], r[2], r[3])
    BY <2>1, <2>7, DispatchTyped DEF CallTypes
  <2>8. QED
    BY <1>1, <2>3, <2>4, <2>5, <2>6, <2>7 DEF Arrive, Authenticated, Route
<1>2. ASSUME NEW c \in Calls, NEW ok \in BOOLEAN, Ensured(c, ok)
      PROVE  CallTypes'
  <2>1. call' = call /\ ran' = ran
    BY <1>2 DEF Ensured
  <2>2. CASE Dispatch(c, call[c][1], call[c][2], call[c][3])
    BY <2>1, <2>2, DispatchTyped DEF CallTypes
  <2>3. CASE Finish(c, "BACKEND_UNAVAILABLE", "error")
    <3>1. "BACKEND_UNAVAILABLE" \in Codes /\ "error" \in Decisions
      BY DEF Codes, Decisions
    <3>2. QED
      BY <2>1, <2>3, <3>1, FinishTyped DEF CallTypes
  <2>4. QED
    BY <1>2, <2>2, <2>3 DEF Ensured
<1>3. ASSUME NEW c \in Calls, NEW code \in Relayed, Returned(c, code)
      PROVE  CallTypes'
  <2>1. code \in Codes /\ RelayDecision(code) \in Decisions
    BY DEF Codes, Decisions, Relayed, RelayDecision
  <2>2. call' = call /\ ran' = ran /\ Finish(c, code, RelayDecision(code))
    BY <1>3 DEF Returned
  <2>3. QED
    BY <2>1, <2>2, FinishTyped DEF CallTypes
<1>4. ASSUME NEW c \in Calls, Execute(c) PROVE CallTypes'
  BY <1>4 DEF Execute, CallTypes, bookVars
<1>5. ASSUME NEW c \in Calls, Leave(c) PROVE CallTypes'
  BY <1>5 DEF Leave, CallTypes, Codes, Decisions
<1>6. ASSUME NEW c \in Calls, Cancel(c) PROVE CallTypes'
  BY <1>6 DEF Cancel, CallTypes, Codes
<1>7. CASE UNCHANGED <<pc, call, bookVars, ran>>
  BY <1>7 DEF CallTypes, bookVars
<1>8. ASSUME NEW ok \in BOOLEAN, Warm(ok)
      PROVE  UNCHANGED <<pc, call, bookVars, ran>>
  BY <1>8 DEF Warm
<1>9. ASSUME NEW a \in Agents, List(a) \/ \E ok \in BOOLEAN : ListResumed(a, ok)
      PROVE  UNCHANGED <<pc, call, bookVars, ran>>
  BY <1>9 DEF List, ListResumed
<1>10. ASSUME NEW s \in Servers, Probed(s)
       PROVE  UNCHANGED <<pc, call, bookVars, ran>>
  BY <1>10 DEF Probed
<1>11. CASE Tick \/ UNCHANGED vars
  BY <1>7, <1>11 DEF Tick, vars
<1>12. QED
  BY <1>1, <1>2, <1>3, <1>4, <1>5, <1>6, <1>7, <1>8, <1>9, <1>10, <1>11,
     ToolCallsAssumption DEF Next, Progress

LEMMA WalkTyped ==
    ASSUME ListTypes, NEW a \in Agents, NEW i \in 1 .. N + 1,
           NEW out \in SUBSET Servers, Walk(a, i, out)
    PROVE  /\ walk' \in [Agents -> Servers \cup {Unknown}]
           /\ listing' \in [Agents -> SUBSET Servers]
           /\ seen' \in [Agents -> SUBSET Servers]
<1> DEFINE Shown(m) == out \cup {j \in i .. m : ~Breaker!Open(j)}
<1>1. ASSUME NEW m \in Int, m <= N PROVE Shown(m) \in SUBSET Servers
  <2>1. i .. m \subseteq Servers
    BY <1>1, ToolCallsAssumption DEF Servers
  <2>2. QED
    BY <2>1
<1>2. Shown(N) \in SUBSET Servers
  BY <1>1, ToolCallsAssumption
<1>3. ASSUME NEW k \in Stops(i) PROVE k \in Servers /\ Shown(k - 1) \in SUBSET Servers
  <2>1. k \in i .. N
    BY DEF Stops
  <2>2. k \in Servers /\ k - 1 \in Int /\ k - 1 <= N
    BY <2>1, ToolCallsAssumption DEF Servers
  <2>3. QED
    BY <2>2, <1>1
<1>4. Walk(a, i, out) <=>
        \/ /\ Stops(i) = {}
           /\ walk' = [walk EXCEPT ![a] = Unknown]
           /\ listing' = [listing EXCEPT ![a] = {}]
           /\ seen' = [seen EXCEPT ![a] = Shown(N)]
        \/ \E k \in Stops(i) :
           /\ \A j \in Stops(i) : k <= j
           /\ walk' = [walk EXCEPT ![a] = k]
           /\ listing' = [listing EXCEPT ![a] = Shown(k - 1)]
           /\ UNCHANGED seen
  BY DEF Walk
<1> HIDE DEF Shown
<1>5. CASE Stops(i) = {}
  BY <1>2, <1>4, <1>5 DEF ListTypes
<1>6. ASSUME NEW k \in Stops(i),
             walk' = [walk EXCEPT ![a] = k],
             listing' = [listing EXCEPT ![a] = Shown(k - 1)],
             UNCHANGED seen
      PROVE  /\ walk' \in [Agents -> Servers \cup {Unknown}]
             /\ listing' \in [Agents -> SUBSET Servers]
             /\ seen' \in [Agents -> SUBSET Servers]
  BY <1>3, <1>6 DEF ListTypes
<1>7. QED
  BY <1>4, <1>5, <1>6

LEMMA ListsTyped ==
    ASSUME ListTypes, Addressed, [Next]_vars
    PROVE  ListTypes'
<1> USE ToolCallsAssumption
<1>1. ASSUME NEW ok \in BOOLEAN, Warm(ok) PROVE ListTypes'
  BY <1>1 DEF Warm, ListTypes, listVars, Servers
<1>2. ASSUME NEW c \in Calls, NEW ok \in BOOLEAN, Ensured(c, ok)
      PROVE  ListTypes'
  BY <1>2 DEF Ensured, ListTypes, listVars, Addressed
<1>3. ASSUME NEW a \in Agents, List(a) PROVE ListTypes'
  <2>1. 1 \in 1 .. N + 1 /\ {} \in SUBSET Servers
    OBVIOUS
  <2>2. QED
    BY <1>3, <2>1, WalkTyped DEF List, ListTypes
<1>4. ASSUME NEW a \in Agents, NEW ok \in BOOLEAN, ListResumed(a, ok)
      PROVE  ListTypes'
  <2>1. walk[a] \in Servers
    BY <1>4 DEF ListResumed, ListTypes
  <2>2. walk[a] + 1 \in 1 .. N + 1
    BY <2>1 DEF Servers
  <2>3. (IF ok THEN listing[a] \cup {walk[a]} ELSE listing[a]) \in SUBSET Servers
    BY <2>1 DEF ListTypes
  <2>4. boot' \in 1 .. N + 1 /\ known' \subseteq Servers
    BY <1>4, <2>1 DEF ListResumed, ListTypes
  <2>5. QED
    BY <1>4, <2>2, <2>3, <2>4, WalkTyped DEF ListResumed, ListTypes
<1>5. ASSUME NEW s \in Servers, Probed(s) PROVE ListTypes'
  BY <1>5 DEF Probed, ListTypes, listVars
<1>6. CASE UNCHANGED <<boot, known, listVars>>
  BY <1>6 DEF ListTypes, listVars
<1>7. ASSUME NEW c \in Calls, NEW r \in Requests \cup {NoCall},
             Arrive(c, r[1], r[2], r[3])
      PROVE  UNCHANGED <<boot, known, listVars>>
  BY <1>7 DEF Arrive, Authenticated
<1>8. ASSUME NEW c \in Calls, NEW code \in Relayed, Returned(c, code)
      PROVE  UNCHANGED <<boot, known, listVars>>
  BY <1>8 DEF Returned
<1>9. ASSUME NEW c \in Calls, Execute(c) \/ Leave(c) \/ Cancel(c)
      PROVE  UNCHANGED <<boot, known, listVars>>
  BY <1>9 DEF Execute, Leave, Cancel
<1>10. CASE Tick \/ UNCHANGED vars
  BY <1>6, <1>10 DEF Tick, vars
<1>11. QED
  BY <1>1, <1>2, <1>3, <1>4, <1>5, <1>6, <1>7, <1>8, <1>9, <1>10
     DEF Next, Progress

LEMMA TypeSplit == TypeOK <=> CallTypes /\ ListTypes /\ LimiterType /\ Breaker!TypeOK
BY DEF TypeOK, CallTypes, ListTypes, LimiterType

-----------------------------------------------------------------------------
\* What holds of one call at any time.
CallInv(c) ==
    /\ pc[c] = "relay" <=> at[c] = "flying"
    /\ pc[c] = "ensure" => call[c][2] \in Servers
    /\ pc[c] \in {"relay", "abandoned"} \/ ran[c] => call[c] \in Permits
    /\ ran[c] => pc[c] \in {"relay", "abandoned", "done"}
    /\ pc[c] # "done" => metric[c] = "none" /\ audit[c] = "none"
    /\ pc[c] \notin {"done", "abandoned"} => result[c] = "none"
    /\ metric[c] = "allowed" => ran[c]
    /\ metric[c] \in {"denied", "auth_failed", "rate_limited"} => ~ran[c]
    /\ ran[c] /\ metric[c] = "none" => pc[c] \in {"relay", "abandoned"}
    /\ audit[c] \in {metric[c], "lost"}
    /\ result[c] = "UNKNOWN_TOOL" =>
         call[c][2] = Unknown \/ call[c][3] \notin Real[call[c][2]]

\* Step: nothing of call c has changed that CallInv looks at.
Same(c) ==
    /\ pc'[c] = pc[c] /\ call'[c] = call[c] /\ result'[c] = result[c]
    /\ metric'[c] = metric[c] /\ audit'[c] = audit[c] /\ ran'[c] = ran[c]
    /\ at'[c] = at[c]

LEMMA SameKeeps ==
    ASSUME NEW c \in Calls, Same(c), CallInv(c)
    PROVE  CallInv(c)'
BY DEF Same, CallInv

\* What the actions of the calls do to the variables of one call.
LEMMA AtAfter ==
    ASSUME Breaker!TypeOK, NEW c \in Calls, NEW s \in Servers
    PROVE  /\ Breaker!Admit(c, s) => at' = [at EXCEPT ![c] = "flying"]
           /\ Breaker!Refuse(c, s) => at' = [at EXCEPT ![c] = "refused"]
                                      /\ at[c] = "idle"
           /\ Breaker!Return(c) \/ Breaker!Succeed(c) \/ Breaker!Fail(c)
                \/ Breaker!Abandon(c) => at' = [at EXCEPT ![c] = "idle"]
BY DEF Breaker!Admit, Breaker!Refuse, Breaker!Return, Breaker!Succeed,
       Breaker!Fail, Breaker!Abandon, Breaker!Land

LEMMA FinishAfter ==
    ASSUME CallTypes, NEW c \in Calls, NEW code, NEW decision,
           Finish(c, code, decision)
    PROVE  /\ pc'[c] = "done" /\ result'[c] = code /\ metric'[c] = decision
           /\ audit'[c] \in {decision, "lost"}
           /\ \A d \in Calls \ {c} :
                /\ pc'[d] = pc[d] /\ result'[d] = result[d]
                /\ metric'[d] = metric[d] /\ audit'[d] = audit[d]
BY DEF Finish, RecordCall, CallTypes

\* A call that reaches the breaker's question: what becomes of it and the rest.
LEMMA DispatchAfter ==
    ASSUME TypeOK, NEW c \in Calls, NEW a, NEW s \in Servers, NEW t,
           Dispatch(c, a, s, t), CallInv(c), pc[c] \in {"idle", "ensure"},
           call'[c] = <<a, s, t>>, ran' = ran,
           \A d \in Calls \ {c} : call'[d] = call[d]
    PROVE  CallInv(c)' /\ \A d \in Calls \ {c} : Same(d)
<1> USE TypeSplit
<1>1. ~ran[c] /\ metric[c] = "none" /\ audit[c] = "none" /\ result[c] = "none"
      /\ at[c] # "flying" /\ ~ran'[c]
  BY DEF CallInv
<1>2. CASE t \notin Real[s] /\ Finish(c, "UNKNOWN_TOOL", "error") /\ UNCHANGED brVars
  BY <1>1, <1>2, FinishAfter DEF CallInv, Same, brVars
<1>3. CASE Finish(c, "POLICY_DENIED", "denied") /\ UNCHANGED brVars
  BY <1>1, <1>3, FinishAfter DEF CallInv, Same, brVars
<1>4. CASE Breaker!Refuse(c, s) /\ Finish(c, "BACKEND_UNAVAILABLE", "error")
  <2>1. at'[c] = "refused" /\ \A d \in Calls \ {c} : at'[d] = at[d]
    BY <1>4, AtAfter DEF Breaker!TypeOK
  <2>2. QED
    BY <1>1, <1>4, <2>1, FinishAfter DEF CallInv, Same
<1>5. CASE /\ <<a, s, t>> \in Permits /\ Breaker!Admit(c, s)
           /\ pc' = [pc EXCEPT ![c] = "relay"] /\ UNCHANGED bookVars
  <2>1. at'[c] = "flying" /\ \A d \in Calls \ {c} : at'[d] = at[d]
    BY <1>5, AtAfter DEF Breaker!TypeOK
  <2>2. pc'[c] = "relay" /\ \A d \in Calls \ {c} : pc'[d] = pc[d]
    BY <1>5 DEF CallTypes
  <2>3. QED
    BY <1>1, <1>5, <2>1, <2>2 DEF CallInv, Same, bookVars
<1>6. QED
  BY <1>2, <1>3, <1>4, <1>5 DEF Dispatch

LEMMA ArriveKeeps ==
    ASSUME TypeOK, NEW c \in Calls, NEW r \in Requests \cup {NoCall},
           Arrive(c, r[1], r[2], r[3]), CallInv(c)
    PROVE  CallInv(c)' /\ \A d \in Calls \ {c} : Same(d)
<1> USE TypeSplit
<1>1. /\ pc[c] = "idle" /\ ran' = ran
      /\ call'[c] = <<r[1], r[2], r[3]>>
      /\ \A d \in Calls \ {c} : call'[d] = call[d]
  BY DEF Arrive, Authenticated, CallTypes
<1>2. ~ran[c] /\ at[c] # "flying"
  BY <1>1 DEF CallInv
<1>3. CASE Finish(c, "AUTH_FAILED", "auth_failed") /\ UNCHANGED brVars
  BY <1>1, <1>2, <1>3, FinishAfter DEF CallInv, Same, brVars
<1>4. CASE Finish(c, "RATE_LIMITED", "rate_limited") /\ UNCHANGED brVars
  BY <1>1, <1>2, <1>4, FinishAfter DEF CallInv, Same, brVars
<1>5. CASE r[2] = Unknown /\ Finish(c, "UNKNOWN_TOOL", "error") /\ UNCHANGED brVars
  BY <1>1, <1>2, <1>5, FinishAfter DEF CallInv, Same, brVars
<1>6. CASE /\ r[2] # Unknown /\ pc' = [pc EXCEPT ![c] = "ensure"]
           /\ UNCHANGED <<bookVars, brVars>>
  BY <1>1, <1>2, <1>6, Triple DEF CallInv, Same, brVars, bookVars, CallTypes
<1>7. CASE r[2] \in known /\ Dispatch(c, r[1], r[2], r[3])
  BY <1>1, <1>7, DispatchAfter DEF ListTypes
<1>8. QED
  BY <1>3, <1>4, <1>5, <1>6, <1>7 DEF Arrive, Authenticated, Route

LEMMA EnsuredKeeps ==
    ASSUME TypeOK, NEW c \in Calls, NEW ok \in BOOLEAN, Ensured(c, ok), CallInv(c)
    PROVE  CallInv(c)' /\ \A d \in Calls \ {c} : Same(d)
<1> USE TypeSplit
<1>1. pc[c] = "ensure" /\ call' = call /\ ran' = ran /\ ~ran[c]
      /\ call[c][2] \in Servers /\ at[c] # "flying"
  BY DEF Ensured, CallInv
<1>2. call[c] = <<call[c][1], call[c][2], call[c][3]>>
  BY Triple DEF CallTypes
<1>3. CASE Dispatch(c, call[c][1], call[c][2], call[c][3])
  BY <1>1, <1>2, <1>3, DispatchAfter
<1>4. CASE Finish(c, "BACKEND_UNAVAILABLE", "error") /\ UNCHANGED brVars
  BY <1>1, <1>4, FinishAfter DEF CallInv, Same, brVars
<1>5. QED
  BY <1>3, <1>4 DEF Ensured

LEMMA ReturnedKeeps ==
    ASSUME TypeOK, NEW c \in Calls, NEW code \in Relayed, Returned(c, code),
           CallInv(c)
    PROVE  CallInv(c)' /\ \A d \in Calls \ {c} : Same(d)
<1> USE TypeSplit
<1>1. /\ pc[c] = "relay" /\ (code # "BACKEND_UNAVAILABLE" => ran[c])
      /\ call' = call /\ ran' = ran /\ Finish(c, code, RelayDecision(code))
  BY DEF Returned
<1>2. at'[c] = "idle" /\ \A d \in Calls \ {c} : at'[d] = at[d]
  <2>1. Breaker!Fail(c) \/ Breaker!Succeed(c)
    BY DEF Returned
  <2>2. at' = [at EXCEPT ![c] = "idle"]
    BY <2>1 DEF Breaker!Fail, Breaker!Succeed, Breaker!Land
  <2>3. QED
    BY <2>2 DEF Breaker!TypeOK
<1>3. RelayDecision(code) \in {"error", "allowed"}
      /\ (RelayDecision(code) = "allowed" => ran[c]) /\ code # "UNKNOWN_TOOL"
  BY <1>1 DEF RelayDecision, Relayed
<1>4. CallInv(c)'
  BY <1>1, <1>2, <1>3, FinishAfter DEF CallInv
<1>5. \A d \in Calls \ {c} : Same(d)
  BY <1>1, <1>2, FinishAfter DEF Same
<1>6. QED
  BY <1>4, <1>5

LEMMA OthersKeep ==
    ASSUME TypeOK, NEW c \in Calls, Execute(c) \/ Leave(c) \/ Cancel(c), CallInv(c)
    PROVE  CallInv(c)' /\ \A d \in Calls \ {c} : Same(d)
<1> USE TypeSplit
<1>1. CASE Execute(c)
  BY <1>1 DEF Execute, CallInv, Same, CallTypes, bookVars, brVars
<1>2. CASE Leave(c)
  <2>1. at'[c] # "flying" /\ \A d \in Calls \ {c} : at'[d] = at[d]
    <3>1. at[c] # "flying"
      BY <1>2 DEF Leave, CallInv
    <3>2. UNCHANGED at \/ at' = [at EXCEPT ![c] = "idle"]
      BY <1>2 DEF Leave, Breaker!Return, brVars
    <3>3. QED
      BY <3>1, <3>2 DEF Breaker!TypeOK
  <2>2. /\ pc'[c] = "idle" /\ call'[c] = NoCall /\ result'[c] = "none"
        /\ metric'[c] = "none" /\ audit'[c] = "none" /\ ran'[c] = FALSE
        /\ \A d \in Calls \ {c} :
             /\ pc'[d] = pc[d] /\ call'[d] = call[d] /\ result'[d] = result[d]
             /\ metric'[d] = metric[d] /\ audit'[d] = audit[d] /\ ran'[d] = ran[d]
    BY <1>2 DEF Leave, CallTypes
  <2>3. QED
    BY <2>1, <2>2 DEF CallInv, Same
<1>3. CASE Cancel(c)
  <2>1. /\ result'[c] = "cancelled" /\ UNCHANGED <<call, metric, audit, ran>>
        /\ \A d \in Calls \ {c} : result'[d] = result[d]
    BY <1>3 DEF Cancel, CallTypes
  <2>2. CASE pc[c] = "relay" /\ pc' = [pc EXCEPT ![c] = "abandoned"]
             /\ Breaker!Abandon(c)
    <3>1. at' = [at EXCEPT ![c] = "idle"]
      BY <2>2 DEF Breaker!Abandon, Breaker!Land
    <3>2. /\ at'[c] = "idle" /\ pc'[c] = "abandoned"
          /\ \A d \in Calls \ {c} : at'[d] = at[d] /\ pc'[d] = pc[d]
      BY <2>2, <3>1 DEF Breaker!TypeOK, CallTypes
    <3>3. QED
      BY <2>1, <2>2, <3>2 DEF CallInv, Same
  <2>3. CASE pc[c] = "ensure" /\ pc' = [pc EXCEPT ![c] = "done"]
             /\ UNCHANGED brVars
    BY <2>1, <2>3 DEF CallInv, Same, CallTypes, brVars
  <2>4. QED
    BY <1>3, <2>2, <2>3 DEF Cancel
<1>4. QED
  BY <1>1, <1>2, <1>3

-----------------------------------------------------------------------------
\* The inductive invariant.
CallsInv == \A c \in Calls : CallInv(c)

IInv == TypeOK /\ CallsInv

LEMMA InitInv == Init => IInv
<1> SUFFICES ASSUME Init PROVE IInv
  OBVIOUS
<1> USE ToolCallsAssumption DEF Init
<1>1. CallTypes
  BY DEF CallTypes, Codes, Decisions
<1>2. ListTypes
  BY DEF ListTypes, Servers
<1>3. LimiterType
  BY DEF LimiterType, Limiter!Init, Limiter!Full
<1>4. Breaker!TypeOK
  BY DEF Breaker!Init, Breaker!TypeOK, Breaker!Closed
<1>5. CallsInv
  BY DEF CallsInv, CallInv, Breaker!Init
<1>6. QED
  BY <1>1, <1>2, <1>3, <1>4, <1>5, TypeSplit DEF IInv

\* One step of a call leaves the others alone; all other steps leave all alone.
LEMMA StepInv == IInv /\ [Next]_vars => IInv'
<1> SUFFICES ASSUME IInv, [Next]_vars PROVE IInv'
  OBVIOUS
<1>1. Addressed
  BY DEF IInv, CallsInv, CallInv, Addressed
<1>2. TypeOK'
  <2>1. CallTypes'
    BY CallsTyped, TypeSplit DEF IInv
  <2>2. ListTypes'
    BY <1>1, ListsTyped, TypeSplit DEF IInv
  <2>3. LimiterType'
    BY LimiterUses, LimiterTyped, TypeSplit DEF IInv
  <2>4. Breaker!TypeOK'
    BY <1>1, BreakerTyped DEF IInv
  <2>5. QED
    BY <2>1, <2>2, <2>3, <2>4 DEF TypeOK, CallTypes, ListTypes, LimiterType
<1>3. CallsInv'
  <2>1. ASSUME NEW c \in Calls, CallInv(c)' /\ \A d \in Calls \ {c} : Same(d)
        PROVE  CallsInv'
    BY <2>1, SameKeeps DEF IInv, CallsInv
  <2>2. ASSUME \A d \in Calls : Same(d) PROVE CallsInv'
    BY <2>2, SameKeeps DEF IInv, CallsInv
  <2>3. ASSUME NEW c \in Calls, NEW r \in Requests \cup {NoCall},
               Arrive(c, r[1], r[2], r[3])
        PROVE  CallsInv'
    BY <2>1, <2>3, ArriveKeeps DEF IInv, CallsInv
  <2>4. ASSUME NEW c \in Calls, NEW ok \in BOOLEAN, Ensured(c, ok)
        PROVE  CallsInv'
    BY <2>1, <2>4, EnsuredKeeps DEF IInv, CallsInv
  <2>5. ASSUME NEW c \in Calls, NEW code \in Relayed, Returned(c, code)
        PROVE  CallsInv'
    BY <2>1, <2>5, ReturnedKeeps DEF IInv, CallsInv
  <2>6. ASSUME NEW c \in Calls, Execute(c) \/ Leave(c) \/ Cancel(c)
        PROVE  CallsInv'
    BY <2>1, <2>6, OthersKeep DEF IInv, CallsInv
  <2>7. CASE UNCHANGED <<pc, call, bookVars, ran, at>>
    BY <2>2, <2>7 DEF Same, bookVars
  <2>8. ASSUME NEW ok \in BOOLEAN, Warm(ok)
        PROVE  UNCHANGED <<pc, call, bookVars, ran, at>>
    BY <2>8 DEF Warm, brVars
  <2>9. ASSUME NEW a \in Agents, List(a) \/ \E ok \in BOOLEAN : ListResumed(a, ok)
        PROVE  UNCHANGED <<pc, call, bookVars, ran, at>>
    BY <2>9 DEF List, ListResumed, brVars
  <2>10. ASSUME NEW s \in Servers, Probed(s)
         PROVE  UNCHANGED <<pc, call, bookVars, ran, at>>
    BY <2>10 DEF Probed, brVars
  <2>11. CASE Tick \/ UNCHANGED vars
    BY <2>7, <2>11 DEF Tick, Breaker!Tick, vars, brVars
  <2>12. QED
    BY <2>3, <2>4, <2>5, <2>6, <2>7, <2>8, <2>9, <2>10, <2>11,
       ToolCallsAssumption DEF Next, Progress
<1>4. QED
  BY <1>2, <1>3 DEF IInv

THEOREM Invariance == Spec => []IInv
BY InitInv, StepInv, PTL DEF Spec

\* Every variable keeps its type.
THEOREM TypeCorrect == Spec => []TypeOK
BY Invariance, PTL DEF IInv

\* A backend executes only what the policy allows: no path through route_call
\* - after a lazy connect, as a probe, cancelled half-way - goes around it.
THEOREM GateHolds == Spec => []OnlyPermittedRuns
<1>1. IInv => OnlyPermittedRuns
  BY DEF IInv, CallsInv, CallInv, OnlyPermittedRuns
<1>2. QED
  BY <1>1, Invariance, PTL

\* The metrics and the audit line agree with each other and with what the
\* backend did.
THEOREM BooksAgree == Spec => []BooksAreTrue
<1>1. IInv => BooksAreTrue
  BY DEF IInv, CallsInv, CallInv, BooksAreTrue
<1>2. QED
  BY <1>1, Invariance, PTL

\* A tool that exists is never answered with UNKNOWN_TOOL.
THEOREM UnknownOnlyIfUnknown == Spec => []UnknownIsUnknown
<1>1. IInv => UnknownIsUnknown
  BY DEF IInv, CallsInv, CallInv, UnknownIsUnknown
<1>2. QED
  BY <1>1, Invariance, PTL

\* Whatever calls arrive, lists run and probes connect, the breaker is used as
\* its own specification says, so that what is proved of it holds here.
THEOREM ImplementsBreaker == Spec => BreakerUse
<1>1. Init => Breaker!Init
  BY DEF Init
<1>2. IInv /\ [Next]_vars => [Breaker!Next]_brVars
  <2>1. IInv => Addressed /\ known \subseteq Servers
    BY TypeSplit DEF IInv, CallsInv, CallInv, Addressed, ListTypes
  <2>2. QED
    BY <2>1, StepUses
<1>3. QED
  BY <1>1, <1>2, Invariance, PTL DEF Spec, BreakerUse, Breaker!Spec, Breaker!vars,
     brVars

-----------------------------------------------------------------------------
\* A backend with a call under way or an open circuit has been aggregated.
KnownInv ==
    /\ \A c \in Calls : at[c] = "flying" => server[c] \in known
    /\ \A s \in Servers : Breaker!Open(s) => s \in known

LEMMA KnownKept ==
    ASSUME [Next]_vars
    PROVE  known \subseteq known'
<1>1. ASSUME NEW c \in Calls, Execute(c) \/ Leave(c) \/ Cancel(c)
      PROVE  known \subseteq known'
  BY <1>1 DEF Execute, Leave, Cancel
<1>2. QED
  BY <1>1, ToolCallsAssumption
     DEF Next, Warm, Arrive, Authenticated, Progress, Ensured, Returned, List, ListResumed, Probed,
         Tick, vars

LEMMA BreakerKnown ==
    ASSUME Breaker!TypeOK, KnownInv, known \subseteq known',
           \/ UNCHANGED brVars
           \/ \E c \in Calls :
                \/ \E s \in known' : s \in Servers /\ Breaker!Admit(c, s)
                \/ \E s \in Servers : Breaker!Refuse(c, s)
                \/ Breaker!Return(c) \/ Breaker!Succeed(c) \/ Breaker!Fail(c)
                \/ Breaker!Abandon(c)
           \/ Breaker!Tick
    PROVE  KnownInv'
<1> USE DEF KnownInv, Breaker!Open, Breaker!Closed, Breaker!TypeOK
<1>1. CASE UNCHANGED brVars
  BY <1>1 DEF brVars
<1>2. ASSUME NEW c \in Calls, NEW s \in Servers, s \in known', Breaker!Admit(c, s)
      PROVE  KnownInv'
  BY <1>2 DEF Breaker!Admit
<1>3. ASSUME NEW c \in Calls, NEW s \in Servers, Breaker!Refuse(c, s)
      PROVE  KnownInv'
  BY <1>3 DEF Breaker!Refuse, Breaker!brVars
<1>4. ASSUME NEW c \in Calls, Breaker!Return(c) PROVE KnownInv'
  BY <1>4 DEF Breaker!Return, Breaker!brVars
<1>5. ASSUME NEW c \in Calls, Breaker!Succeed(c) PROVE KnownInv'
  BY <1>5 DEF Breaker!Succeed, Breaker!Land, Breaker!RecordSuccess
<1>6. ASSUME NEW c \in Calls, Breaker!Fail(c) PROVE KnownInv'
  BY <1>6 DEF Breaker!Fail, Breaker!Land, Breaker!RecordFailure
<1>7. ASSUME NEW c \in Calls, Breaker!Abandon(c) PROVE KnownInv'
  BY <1>7 DEF Breaker!Abandon, Breaker!Land, Breaker!brVars
<1>8. CASE Breaker!Tick
  BY <1>8, ToolCallsAssumption DEF Breaker!Tick
<1>9. QED
  BY <1>1, <1>2, <1>3, <1>4, <1>5, <1>6, <1>7, <1>8

LEMMA KnownStep == IInv /\ KnownInv /\ [Next]_vars => KnownInv'
<1> SUFFICES ASSUME IInv, KnownInv, [Next]_vars PROVE KnownInv'
  OBVIOUS
<1>1. Breaker!TypeOK /\ known \subseteq known' /\ known \subseteq Servers
  BY KnownKept, TypeSplit DEF IInv, ListTypes
<1>2. ASSUME NEW c \in Calls, NEW a, NEW s \in Servers, NEW t, s \in known',
             Dispatch(c, a, s, t)
      PROVE  KnownInv'
  BY <1>1, <1>2, BreakerKnown DEF Dispatch
<1>3. CASE UNCHANGED brVars
  BY <1>1, <1>3, BreakerKnown
<1>4. ASSUME NEW c \in Calls, NEW r \in Requests \cup {NoCall},
             Arrive(c, r[1], r[2], r[3])
      PROVE  KnownInv'
  <2>1. CASE r[2] \in known /\ Dispatch(c, r[1], r[2], r[3])
    BY <1>1, <1>2, <2>1
  <2>2. QED
    BY <1>3, <1>4, <2>1 DEF Arrive, Authenticated, Route
<1>5. ASSUME NEW c \in Calls, NEW ok \in BOOLEAN, Ensured(c, ok)
      PROVE  KnownInv'
  <2>1. call[c][2] \in Servers
    BY <1>5 DEF Ensured, IInv, CallsInv, CallInv
  <2>2. CASE call[c][2] \in known' /\ Dispatch(c, call[c][1], call[c][2], call[c][3])
    BY <1>2, <2>1, <2>2
  <2>3. QED
    BY <1>3, <1>5, <2>2 DEF Ensured
<1>6. ASSUME NEW c \in Calls, NEW code \in Relayed, Returned(c, code)
      PROVE  KnownInv'
  <2>1. Breaker!Fail(c) \/ Breaker!Succeed(c)
    BY <1>6 DEF Returned
  <2>2. QED
    BY <1>1, <2>1, BreakerKnown
<1>7. ASSUME NEW c \in Calls, Leave(c) \/ Cancel(c) PROVE KnownInv'
  <2>1. Breaker!Return(c) \/ Breaker!Abandon(c) \/ UNCHANGED brVars
    BY <1>7 DEF Leave, Cancel
  <2>2. QED
    BY <1>1, <2>1, BreakerKnown
<1>8. CASE Tick
  <2>1. Breaker!Tick
    BY <1>8 DEF Tick
  <2>2. QED
    BY <1>1, <2>1, BreakerKnown
<1>9. CASE UNCHANGED vars
  BY <1>3, <1>9 DEF vars, brVars
<1>10. ASSUME NEW c \in Calls, Execute(c) PROVE UNCHANGED brVars
  BY <1>10 DEF Execute
<1>11. ASSUME NEW ok \in BOOLEAN, Warm(ok) PROVE UNCHANGED brVars
  BY <1>11 DEF Warm
<1>12. ASSUME NEW a \in Agents, List(a) \/ \E ok \in BOOLEAN : ListResumed(a, ok)
       PROVE  UNCHANGED brVars
  BY <1>12 DEF List, ListResumed
<1>13. ASSUME NEW s \in Servers, Probed(s) PROVE UNCHANGED brVars
  BY <1>13 DEF Probed
<1>14. QED
  BY <1>3, <1>4, <1>5, <1>6, <1>7, <1>8, <1>9, <1>10, <1>11, <1>12, <1>13,
     ToolCallsAssumption DEF Next, Progress

\* A call starts to wait for a connection only while it arrives.
LEMMA EnsureOnlyAtArrival ==
    ASSUME IInv, [Next]_vars, NEW d \in Calls, pc[d] # "ensure", pc'[d] = "ensure"
    PROVE  call'[d][2] \notin known /\ UNCHANGED openFor
<1> USE TypeSplit DEF IInv
<1>1. CASE \E c \in Calls, r \in Requests \cup {NoCall} : Arrive(c, r[1], r[2], r[3])
  <2>1. PICK c \in Calls, r \in Requests \cup {NoCall} : Arrive(c, r[1], r[2], r[3])
    BY <1>1
  <2>2. c = d /\ pc'[c] = "ensure" /\ call'[c] = <<r[1], r[2], r[3]>>
    BY <2>1, ArriveKeeps DEF CallsInv, Same, Arrive, Authenticated, CallTypes
  <2>3. ~Finish(c, "AUTH_FAILED", "auth_failed") /\ ~Finish(c, "RATE_LIMITED", "rate_limited")
        /\ ~Finish(c, "UNKNOWN_TOOL", "error") /\ ~Finish(c, "POLICY_DENIED", "denied")
        /\ ~Finish(c, "BACKEND_UNAVAILABLE", "error") /\ pc' # [pc EXCEPT ![c] = "relay"]
    BY <2>2, FinishAfter DEF CallTypes
  <2>4. r[2] \notin known /\ UNCHANGED brVars
    BY <2>1, <2>3 DEF Arrive, Authenticated, Route, Dispatch
  <2>5. QED
    BY <2>2, <2>4 DEF brVars
<1>2. ASSUME NEW c \in Calls, NEW ok \in BOOLEAN, Ensured(c, ok) PROVE FALSE
  <2>1. c = d
    BY <1>2, EnsuredKeeps DEF CallsInv, Same
  <2>2. QED
    BY <1>2, <2>1 DEF Ensured
<1>3. ASSUME NEW c \in Calls, NEW code \in Relayed, Returned(c, code) PROVE FALSE
  BY <1>3, FinishAfter DEF Returned
<1>4. ASSUME NEW c \in Calls, Execute(c) \/ Leave(c) \/ Cancel(c) PROVE FALSE
  BY <1>4 DEF Execute, Leave, Cancel, CallTypes
<1>5. CASE UNCHANGED pc
  BY <1>5
<1>6. ASSUME NEW ok \in BOOLEAN, Warm(ok) PROVE UNCHANGED pc
  BY <1>6 DEF Warm
<1>7. ASSUME NEW a \in Agents, List(a) \/ \E ok \in BOOLEAN : ListResumed(a, ok)
      PROVE  UNCHANGED pc
  BY <1>7 DEF List, ListResumed
<1>8. ASSUME NEW s \in Servers, Probed(s) PROVE UNCHANGED pc
  BY <1>8 DEF Probed
<1>9. CASE Tick \/ UNCHANGED vars
  BY <1>5, <1>9 DEF Tick, vars
<1>10. QED
  BY <1>1, <1>2, <1>3, <1>4, <1>5, <1>6, <1>7, <1>8, <1>9, ToolCallsAssumption
     DEF Next, Progress

\* A tripped circuit never makes a call wait: the connection the breaker does
\* not guard is only made to backends that never failed a call.
THEOREM FailsFast == Spec => FailFast
<1>1. Init => KnownInv
  BY ToolCallsAssumption
     DEF Init, KnownInv, Breaker!Init, Breaker!Open, Breaker!Closed
<1>2. IInv /\ KnownInv /\ [Next]_vars =>
        [\A c \in Calls : pc[c] # "ensure" /\ pc'[c] = "ensure"
           => ~Breaker!Open(call'[c][2])]_vars
  <2> SUFFICES ASSUME IInv, KnownInv, [Next]_vars, NEW c \in Calls,
                      pc[c] # "ensure", pc'[c] = "ensure"
               PROVE  ~Breaker!Open(call'[c][2])
    OBVIOUS
  <2>1. call'[c][2] \notin known
    BY EnsureOnlyAtArrival
  <2>2. call'[c][2] \in Servers
    BY StepInv DEF IInv, CallsInv, CallInv
  <2>3. QED
    BY <2>1, <2>2 DEF KnownInv
<1>3. QED
  BY <1>1, <1>2, KnownStep, Invariance, PTL DEF Spec, FailFast

=============================================================================
