-------------------------- MODULE DemoAgentProofs ---------------------------
(***************************************************************************)
(* Proofs about DemoAgent, for any agents, policy and recursion limit: the *)
(* ids that agents are told, and the way a denial takes through the graph. *)
(***************************************************************************)
EXTENDS DemoAgent, FiniteSetTheorems, TLAPS

-----------------------------------------------------------------------------
\* What a write does to the table.

\* A write keeps the table's type; rows stay where they are, and a create's
\* answer is the id of its row.
LEMMA RunIsSound ==
    ASSUME Server!TypeOK, NEW w \in Writes, NEW id, Run(w, id)
    PROVE  /\ Server!TypeOK'
           /\ \A i \in DOMAIN rows :
                 i \in DOMAIN rows' /\ rows'[i].call = rows[i].call
           /\ id # NoId => \E n \in Creations :
                 w = Create(n) /\ id \in DOMAIN rows' /\ rows'[id].call = n
  <1>1. CASE \E n \in Creations : w = Create(n) /\ Server!CreateTicket(n, id)
    <2>1. PICK n \in Creations : w = Create(n) /\ Server!CreateTicket(n, id)
      BY <1>1
    <2>2. rows \in Seq(Server!Row) /\ [call |-> n, status |-> "open"] \in Server!Row
      BY DEF Server!TypeOK, Server!Row, Server!VALID_STATUSES
    <2>3. rows' \in Seq(Server!Row) /\ Len(rows') = Len(rows) + 1
          /\ rows'[Len(rows) + 1] = [call |-> n, status |-> "open"]
          /\ \A i \in 1 .. Len(rows) : rows'[i] = rows[i]
      BY <2>1, <2>2 DEF Server!CreateTicket
    <2>4. id = Len(rows) + 1
      BY <2>1 DEF Server!CreateTicket, Server!NewId
    <2>5. Len(rows) \in Nat /\ DOMAIN rows = 1 .. Len(rows)
          /\ DOMAIN rows' = 1 .. Len(rows')
      BY <2>2, <2>3
    <2> QED
      BY <2>1, <2>2, <2>3, <2>4, <2>5 DEF Server!TypeOK
  <1>2. CASE \E i \in Guesses, s \in Statuses, found \in BOOLEAN :
                /\ w = Update(i, s) /\ id = NoId
                /\ Server!UpdateStatus(i, s, found)
    <2>1. PICK i \in Guesses, s \in Statuses, found \in BOOLEAN :
                /\ w = Update(i, s) /\ id = NoId
                /\ Server!UpdateStatus(i, s, found)
      BY <1>2
    <2>2. rows \in Seq(Server!Row)
      BY DEF Server!TypeOK
    <2>3. CASE ~found
      BY <2>1, <2>2, <2>3 DEF Server!UpdateStatus, Server!TypeOK
    <2>4. CASE found
      <3>1. /\ s \in Server!VALID_STATUSES /\ i \in DOMAIN rows
            /\ rows' = [rows EXCEPT ![i].status = s]
        BY <2>1, <2>4 DEF Server!UpdateStatus
      <3>2. rows[i] \in Server!Row
        BY <2>2, <3>1
      <3>3. [rows[i] EXCEPT !.status = s] \in Server!Row
            /\ [rows[i] EXCEPT !.status = s].call = rows[i].call
        BY <3>1, <3>2 DEF Server!Row
      <3>4. rows' \in Seq(Server!Row) /\ DOMAIN rows' = DOMAIN rows
            /\ \A k \in DOMAIN rows : rows'[k].call = rows[k].call
        BY <2>2, <3>1, <3>3
      <3> QED
        BY <2>1, <3>4 DEF Server!TypeOK
    <2> QED
      BY <2>3, <2>4
  <1> QED
    BY <1>1, <1>2 DEF Run

-----------------------------------------------------------------------------
\* Types.

GraphTypeOK ==
    /\ node \in [Agents -> {"call_model", "tools", "bypass"} \cup Ends]
    /\ {steps, metAt, made} \subseteq [Agents -> Nat]
    /\ \A a \in Agents : /\ steps[a] <= Limit[a] /\ metAt[a] <= Limit[a]
                          /\ made[a] <= MaxBatch[a]
    /\ {denial, report, met} \subseteq [Agents -> Tools \cup {None}]
    /\ told \in [Agents -> SUBSET (Ids \X Creations \X (1 .. 2))]

CallTypeOK ==
    /\ call \in [Agents -> Writes \cup {<<None>>}]
    /\ attempt \in [Agents -> {"none", "sent", "served", "lost"}]
    /\ tries \in [Agents -> 0 .. 2] /\ answer \in [Agents -> Ids \cup {NoId}]
    /\ late \subseteq MayBeLate /\ creates \in 0 .. MaxCreates
    /\ Server!TypeOK

\* A call that is under way has room in the batch of the run that waits for it.
Pending(a) ==
    attempt[a] # "none" =>
        /\ call[a] # <<None>> /\ tries[a] # 0 /\ node[a] \in {"tools", "failed"}
        /\ node[a] = "tools" => made[a] < MaxBatch[a]

IInv == TypeOK /\ \A a \in Agents : Pending(a)

LEMMA TypeStep ==
    ASSUME IInv, [Next]_vars
    PROVE  TypeOK'
  <1> USE DemoAgentAssumption
  <1> SUFFICES GraphTypeOK' /\ CallTypeOK'
    BY DEF TypeOK, GraphTypeOK, CallTypeOK
  <1> /\ GraphTypeOK /\ CallTypeOK /\ \A a \in Agents : Pending(a)
      /\ \A n \in Nat : n + 1 \in Nat /\ 0 <= n
      /\ \A a \in Agents : MaxBatch[a] \in Nat /\ 0 <= MaxBatch[a]
    BY DEF TypeOK, GraphTypeOK, CallTypeOK, IInv
  <1> \A a \in Agents : Limit[a] \in Nat /\ 1 <= Limit[a] /\ 0 <= Limit[a]
    OBVIOUS
  <1> USE DEF GraphTypeOK
  <1>1. CASE UNCHANGED vars
    BY <1>1 DEF vars, runVars, rpcVars, CallTypeOK, Server!TypeOK
  <1>2. ASSUME UNCHANGED <<rpcVars, creates, rows>> PROVE CallTypeOK'
    BY <1>2 DEF rpcVars, CallTypeOK, Server!TypeOK
  <1>3. ASSUME UNCHANGED <<runVars, told>> PROVE GraphTypeOK'
    BY <1>3 DEF runVars
  <1>4. ASSUME NEW a \in Agents, NEW how \in Ends, Over(a, how),
               {report', met'} \subseteq [Agents -> Tools \cup {None}],
               metAt' \in [Agents -> Nat], \A b \in Agents : metAt'[b] <= Limit[b]
        PROVE  GraphTypeOK'
    BY <1>4 DEF Over
  <1>5. ASSUME NEW a \in Agents, NEW n \in {"call_model", "tools", "bypass", "end"},
               NEW d \in Tools \cup {None}, Follow(a, n, d),
               report' \in [Agents -> Tools \cup {None}], UNCHANGED <<met, metAt>>
        PROVE  GraphTypeOK'
    <2>1. CASE Over(a, "exhausted") \/ Over(a, "end")
      BY <1>4, <1>5, <2>1 DEF Ends
    <2>2. CASE ~Exhausted(a) /\ n # "end" /\ Enter(a, n, d)
      <3>1. steps[a] + 1 <= Limit[a] /\ steps[a] + 1 \in Nat
        BY <2>2 DEF Exhausted
      <3> QED
        BY <1>5, <2>2, <3>1 DEF Enter
    <2> QED
      BY <1>5, <2>1, <2>2 DEF Follow
  <1>6. ASSUME NEW a \in Agents, NEW d \in Tools \cup {None},
               made[a] < MaxBatch[a], Record(a, d),
               UNCHANGED <<node, steps, report>>,
               told' \in [Agents -> SUBSET (Ids \X Creations \X (1 .. 2))]
        PROVE  GraphTypeOK'
    <2>1. made' \in [Agents -> Nat] /\ \A b \in Agents : made'[b] <= MaxBatch[b]
      BY <1>6 DEF Record
    <2>2. {denial', met'} \subseteq [Agents -> Tools \cup {None}]
      BY <1>6 DEF Record, KeepDenial
    <2>3. metAt' \in [Agents -> Nat] /\ \A b \in Agents : metAt'[b] <= Limit[b]
      BY <1>6 DEF Record
    <2> QED
      BY <1>6, <2>1, <2>2, <2>3
  <1>7. ASSUME NEW a \in Agents, Begin(a) PROVE GraphTypeOK' /\ CallTypeOK'
    BY <1>7, <1>2 DEF Begin
  <1>8. ASSUME NEW a \in Agents, Think(a) PROVE GraphTypeOK' /\ CallTypeOK'
    BY <1>8, <1>2, <1>5 DEF Think
  <1>9. ASSUME NEW a \in Agents, Consult(a) PROVE GraphTypeOK' /\ CallTypeOK'
    BY <1>9, <1>2, <1>6 DEF Consult, MayCall
  <1>10. ASSUME NEW a \in Agents, AskCreate(a) \/ AskUpdate(a)
         PROVE  GraphTypeOK' /\ CallTypeOK'
    <2>1. PICK w \in Writes : Send(a, w) /\ creates' \in 0 .. MaxCreates
      <3>1. CASE AskCreate(a)
        <4>1. creates + 1 \in Creations /\ creates' = creates + 1
              /\ Send(a, Create(creates + 1))
          BY <3>1 DEF AskCreate, CallTypeOK, Creations
        <4> QED
          BY <4>1 DEF Writes, Creations
      <3>2. CASE AskUpdate(a)
        BY <3>2 DEF AskUpdate, Writes, CallTypeOK
      <3> QED
        BY <1>10, <3>1, <3>2
    <2>2. GraphTypeOK'
      BY <1>3, <2>1 DEF Send
    <2>3. CallTypeOK'
      BY <2>1 DEF Send, CallTypeOK, Server!TypeOK
    <2> QED
      BY <2>2, <2>3
  <1>11. ASSUME NEW a \in Agents, RouteAfterTools(a)
         PROVE  GraphTypeOK' /\ CallTypeOK'
    BY <1>11, <1>2, <1>5 DEF RouteAfterTools
  <1>12. ASSUME NEW a \in Agents, Bypass(a) PROVE GraphTypeOK' /\ CallTypeOK'
    BY <1>12, <1>2, <1>5 DEF Bypass
  <1>13. ASSUME NEW a \in Agents, Raise(a) PROVE GraphTypeOK' /\ CallTypeOK'
    BY <1>13, <1>2, <1>4 DEF Raise, Ends
  <1>14. ASSUME NEW a \in Agents, Execute(a)
         PROVE  GraphTypeOK' /\ CallTypeOK'
    <2>1. call[a] \in Writes /\ Server!TypeOK'
      <3>1. PICK id \in Ids \cup {NoId} : Run(call[a], id)
        BY <1>14 DEF Execute
      <3>2. call[a] # <<None>>
        BY <1>14 DEF Execute, Pending
      <3> QED
        BY <3>1, <3>2, RunIsSound DEF CallTypeOK
    <2>2. CallTypeOK'
      BY <1>14, <2>1 DEF Execute, CallTypeOK
    <2> QED
      BY <1>14, <1>3, <2>2 DEF Execute
  <1>15. ASSUME NEW a \in Agents, Lose(a) PROVE GraphTypeOK' /\ CallTypeOK'
    BY <1>15, <1>3 DEF Lose, CallTypeOK, Server!TypeOK
  <1>16. ASSUME NEW a \in Agents, Retry(a) PROVE GraphTypeOK' /\ CallTypeOK'
    <2>1. GraphTypeOK'
      BY <1>16, <1>3 DEF Retry
    <2>2. CallTypeOK'
      BY <1>16 DEF Retry, CallTypeOK, Server!TypeOK
    <2> QED
      BY <2>1, <2>2
  <1>17. ASSUME NEW a \in Agents, Deliver(a)
         PROVE  GraphTypeOK' /\ CallTypeOK'
    <2>1. told' \in [Agents -> SUBSET (Ids \X Creations \X (1 .. 2))]
      <3>1. ASSUME NEW n \in Creations, call[a] = Create(n), answer[a] # NoId
            PROVE  <<answer[a], n, tries[a]>> \in Ids \X Creations \X (1 .. 2)
          <4>1. answer[a] \in Ids /\ tries[a] \in 0 .. 2 /\ tries[a] # 0
          BY <1>17, <3>1 DEF Deliver, CallTypeOK, Pending
        <4>2. tries[a] \in 1 .. 2
          BY <4>1
        <4> QED
          BY <4>1, <4>2
      <3> QED
        BY <1>17, <3>1 DEF Deliver
    <2>2. GraphTypeOK'
      <3>1. CASE node[a] = "tools"
        BY <1>17, <2>1, <3>1, <1>6 DEF Deliver, Pending
      <3>2. CASE node[a] # "tools"
        BY <1>17, <2>1, <3>2 DEF Deliver
      <3> QED
        BY <3>1, <3>2
    <2>3. CallTypeOK'
      BY <1>17 DEF Deliver, CallTypeOK, Server!TypeOK, NoId
    <2> QED
      BY <2>2, <2>3
  <1>18. ASSUME NEW w \in late, RunLate(w)
         PROVE  GraphTypeOK' /\ CallTypeOK'
    <2>1. Server!TypeOK'
      BY <1>18, RunIsSound DEF RunLate, CallTypeOK
    <2> QED
      BY <1>18, <1>3, <2>1 DEF RunLate, CallTypeOK
  <1>19. ASSUME NEW kept \in BOOLEAN, Restart(kept)
         PROVE  GraphTypeOK' /\ CallTypeOK'
    BY <1>19 DEF Restart, runVars, CallTypeOK, Server!Restart, Server!TypeOK, NoId
  <1> QED
    BY <1>1, <1>7, <1>8, <1>9, <1>10, <1>11, <1>12, <1>13, <1>14, <1>15,
       <1>16, <1>17, <1>18, <1>19 DEF Next, GraphStep, CallStep

LEMMA PendingStep ==
    ASSUME IInv, [Next]_vars, NEW b \in Agents
    PROVE  Pending(b)'
  <1> USE DemoAgentAssumption DEF IInv, TypeOK
  <1> Pending(b)
    OBVIOUS
  <1>1. CASE UNCHANGED vars
    BY <1>1 DEF vars, runVars, rpcVars, Pending
  <1>2. ASSUME NEW a \in Agents, Begin(a) PROVE Pending(b)'
    BY <1>2 DEF Begin, Pending, rpcVars, Ends
  <1>3. ASSUME NEW a \in Agents, Think(a) PROVE Pending(b)'
    BY <1>3 DEF Think, Follow, Over, Enter, Pending, rpcVars
  <1>4. ASSUME NEW a \in Agents, Consult(a) PROVE Pending(b)'
    BY <1>4 DEF Consult, MayCall, Record, Pending, rpcVars
  <1>5. ASSUME NEW a \in Agents, NEW w \in Writes, Send(a, w) PROVE Pending(b)'
    <2>1. w # <<None>>
      <3>1. w[1] \in {"create_ticket", "update_status"}
        BY DEF Writes, Create, Update
      <3>2. <<None>>[1] = "none"
        BY DEF None
      <3> QED
        BY <3>1, <3>2
    <2>2. CASE a = b
      <3>1. attempt'[b] = "sent" /\ call'[b] = w /\ tries'[b] = 1
        BY <1>5, <2>2 DEF Send
      <3>2. node'[b] = "tools" /\ made'[b] < MaxBatch[b]
        BY <1>5, <2>2 DEF Send, MayCall, runVars
      <3> QED
        BY <2>1, <3>1, <3>2 DEF Pending
    <2>3. CASE a # b
      BY <1>5, <2>3 DEF Send, runVars, Pending
    <2> QED
      BY <2>2, <2>3
  <1>6. ASSUME NEW a \in Agents, AskCreate(a) \/ AskUpdate(a) PROVE Pending(b)'
    <2>1. ASSUME AskCreate(a) PROVE Create(creates + 1) \in Writes
      BY <2>1 DEF AskCreate, Writes, Creations
    <2>2. ASSUME AskUpdate(a) PROVE \E w \in Writes : Send(a, w)
      BY <2>2 DEF AskUpdate, Writes
    <2> QED
      BY <1>5, <1>6, <2>1, <2>2 DEF AskCreate
  <1>7. ASSUME NEW a \in Agents, RouteAfterTools(a) PROVE Pending(b)'
    BY <1>7 DEF RouteAfterTools, Follow, Enter, Over, Pending, rpcVars
  <1>8. ASSUME NEW a \in Agents, Bypass(a) \/ Raise(a) PROVE Pending(b)'
    BY <1>8 DEF Bypass, Raise, Follow, Enter, Over, Pending, rpcVars
  <1>9. ASSUME NEW a \in Agents, Execute(a) \/ Lose(a) \/ Retry(a)
        PROVE  Pending(b)'
    BY <1>9 DEF Execute, Lose, Retry, Pending, runVars
  <1>10. ASSUME NEW a \in Agents, Deliver(a) PROVE Pending(b)'
    BY <1>10 DEF Deliver, Record, Pending
  <1>11. ASSUME NEW w \in late, RunLate(w) PROVE Pending(b)'
    BY <1>11 DEF RunLate, Pending, runVars
  <1>12. ASSUME NEW kept \in BOOLEAN, Restart(kept) PROVE Pending(b)'
    BY <1>12 DEF Restart, Pending, runVars
  <1> QED
    BY <1>1, <1>2, <1>3, <1>4, <1>6, <1>7, <1>8, <1>9, <1>10, <1>11, <1>12
       DEF Next, GraphStep, CallStep

LEMMA Invariance == Spec => []IInv
  <1>1. Init => IInv
    BY DemoAgentAssumption
       DEF Init, IInv, TypeOK, Ends, Pending, NoId, Server!Init, Server!TypeOK
  <1>2. IInv /\ [Next]_vars => IInv'
    BY TypeStep, PendingStep DEF IInv
  <1> QED
    BY <1>1, <1>2, PTL DEF Spec

\* Every variable keeps its type, for any agents, tools, denials and bounds.
THEOREM TypeCorrect == Spec => []TypeOK
  <1>1. IInv => TypeOK
    BY DEF IInv
  <1> QED
    BY <1>1, Invariance, PTL

-----------------------------------------------------------------------------
\* The way of a denial through the graph.

\* What state each node finds.  A denial was met in the tools node that is
\* being executed, or just before the bypass.
Routed(a) ==
    /\ node[a] = "call_model" => met[a] = None /\ report[a] = None
    /\ node[a] = "tools" =>
          /\ denial[a] = met[a] /\ report[a] = None
          /\ met[a] # None => metAt[a] = steps[a]
    /\ node[a] = "bypass" =>
          denial[a] = met[a] /\ (met[a] # None => metAt[a] = steps[a] - 1)
    /\ node[a] = "end" => report[a] = met[a]
    /\ node[a] = "exhausted" /\ met[a] # None => metAt[a] >= Limit[a] - 1

LEMMA RoutedStep ==
    ASSUME IInv, [Next]_vars, NEW b \in Agents, Routed(b)
    PROVE  Routed(b)'
  <1> USE DemoAgentAssumption
  <1> TypeOK
    BY DEF IInv
  <1> steps[b] \in Nat /\ metAt[b] \in Nat /\ Limit[b] \in Nat
    BY DEF TypeOK
  <1> USE DEF TypeOK
  <1>1. ASSUME UNCHANGED <<node, steps, denial, report, met, metAt>> PROVE Routed(b)'
    BY <1>1 DEF Routed
  <1>2. ASSUME NEW a \in Agents, Begin(a) PROVE Routed(b)'
    BY <1>2 DEF Begin, Routed
  <1>3. ASSUME NEW a \in Agents, Think(a) PROVE Routed(b)'
    BY <1>3 DEF Think, Follow, Exhausted, Over, Enter, Routed
  <1>4. ASSUME NEW a \in Agents, NEW d, node[a] = "tools", Record(a, d),
               UNCHANGED <<node, steps, report>>
        PROVE  Routed(b)'
    BY <1>4 DEF Record, KeepDenial, Routed
  <1>5. ASSUME NEW a \in Agents, Consult(a) PROVE Routed(b)'
    BY <1>4, <1>5 DEF Consult, MayCall
  <1>6. ASSUME NEW a \in Agents, AskCreate(a) \/ AskUpdate(a) PROVE Routed(b)'
    BY <1>1, <1>6 DEF AskCreate, AskUpdate, Send, runVars
  <1>7. ASSUME NEW a \in Agents, RouteAfterTools(a) PROVE Routed(b)'
    BY <1>7 DEF RouteAfterTools, Follow, Exhausted, Enter, Over, Routed
  <1>8. ASSUME NEW a \in Agents, Bypass(a) PROVE Routed(b)'
    BY <1>8 DEF Bypass, Follow, Exhausted, Enter, Over, Routed
  <1>9. ASSUME NEW a \in Agents, Raise(a) PROVE Routed(b)'
    BY <1>9 DEF Raise, Over, Routed
  <1>10. ASSUME NEW a \in Agents, Execute(a) \/ Lose(a) \/ Retry(a)
         PROVE  Routed(b)'
    BY <1>1, <1>10 DEF Execute, Lose, Retry, runVars
  <1>11. ASSUME NEW a \in Agents, Deliver(a) PROVE Routed(b)'
    BY <1>1, <1>4, <1>11 DEF Deliver
  <1>12. ASSUME NEW w \in late, RunLate(w) PROVE Routed(b)'
    BY <1>1, <1>12 DEF RunLate, runVars
  <1>13. ASSUME NEW kept \in BOOLEAN, Restart(kept) PROVE Routed(b)'
    BY <1>1, <1>13 DEF Restart, runVars
  <1>14. CASE UNCHANGED vars
    BY <1>1, <1>14 DEF vars, runVars
  <1> QED
    BY <1>2, <1>3, <1>5, <1>6, <1>7, <1>8, <1>9, <1>10, <1>11, <1>12, <1>13,
       <1>14 DEF Next, GraphStep, CallStep

\* The model is not asked again after a denial, and a run that ends normally
\* reports the first it met, for any recursion limit.  A run that is ended by
\* the limit has met its denial, if any, in one of the last two nodes.
THEOREM DenialsAreReported == Spec => []DenialReported
  <1>1. Init => \A a \in Agents : Routed(a)
    BY DEF Init, Routed
  <1>2. IInv /\ (\A a \in Agents : Routed(a)) /\ [Next]_vars
        => (\A a \in Agents : Routed(a))'
    BY RoutedStep
  <1>3. (\A a \in Agents : Routed(a)) => DenialReported
    BY DEF Routed, DenialReported
  <1> QED
    BY <1>1, <1>2, <1>3, Invariance, PTL DEF Spec

-----------------------------------------------------------------------------
\* The ids.

\* The ids that a knows, and the one that is on its way to it, are those of
\* tickets that the create in question has made.
IdsKnown(a) ==
    /\ \A t \in told[a] : t[1] \in DOMAIN rows /\ rows[t[1]].call = t[2]
    /\ answer[a] # NoId =>
          \E n \in Creations :
             /\ attempt[a] = "served" /\ call[a] = Create(n)
             /\ answer[a] \in DOMAIN rows /\ rows[answer[a]].call = n

LEMMA IdsKnownStep ==
    ASSUME IInv, [Next]_vars, NEW b \in Agents, IdsKnown(b)
    PROVE  IdsKnown(b)'
  <1> USE DemoAgentAssumption
  <1> TypeOK
    BY DEF IInv
  <1> USE DEF TypeOK
  <1>1. ASSUME told'[b] \subseteq told[b],
               UNCHANGED <<call, attempt, answer, rows>>
        PROVE  IdsKnown(b)'
    BY <1>1 DEF IdsKnown
  <1>2. ASSUME NEW w \in Writes, NEW id, Run(w, id), UNCHANGED <<told, call>>,
               UNCHANGED <<attempt[b], answer[b]>>
        PROVE  IdsKnown(b)'
    BY <1>2, RunIsSound DEF IdsKnown
  <1>3. ASSUME NEW a \in Agents, Begin(a) PROVE IdsKnown(b)'
    BY <1>1, <1>3 DEF Begin, rpcVars
  <1>4. ASSUME NEW a \in Agents, Think(a) PROVE IdsKnown(b)'
    BY <1>1, <1>4 DEF Think, Follow, Over, Enter, rpcVars
  <1>5. ASSUME NEW a \in Agents, Consult(a) PROVE IdsKnown(b)'
    BY <1>1, <1>5 DEF Consult, rpcVars
  <1>6. ASSUME NEW a \in Agents, NEW w, Send(a, w) PROVE IdsKnown(b)'
    <2>1. CASE a = b
      BY <1>6, <2>1 DEF Send, MayCall, IdsKnown, Create, None
    <2>2. CASE a # b
      BY <1>6, <2>2 DEF Send, IdsKnown
    <2> QED
      BY <2>1, <2>2
  <1>7. ASSUME NEW a \in Agents, AskCreate(a) \/ AskUpdate(a) PROVE IdsKnown(b)'
    BY <1>6, <1>7 DEF AskCreate, AskUpdate
  <1>8. ASSUME NEW a \in Agents, RouteAfterTools(a) PROVE IdsKnown(b)'
    BY <1>1, <1>8 DEF RouteAfterTools, Follow, Enter, Over, rpcVars
  <1>9. ASSUME NEW a \in Agents, Bypass(a) \/ Raise(a) PROVE IdsKnown(b)'
    BY <1>1, <1>9 DEF Bypass, Raise, Follow, Enter, Over, rpcVars
  <1>10. ASSUME NEW a \in Agents, Execute(a) PROVE IdsKnown(b)'
    <2>1. PICK id \in Ids \cup {NoId} :
             Run(call[a], id) /\ answer' = [answer EXCEPT ![a] = id]
      BY <1>10 DEF Execute
    <2>2. call[a] \in Writes
      BY <1>10 DEF Execute, IInv, Pending
    <2>3. CASE a = b
      <3>1. id # NoId => \E n \in Creations :
               call[b] = Create(n) /\ id \in DOMAIN rows' /\ rows'[id].call = n
        BY <2>1, <2>2, <2>3, RunIsSound
      <3>2. \A i \in DOMAIN rows :
               i \in DOMAIN rows' /\ rows'[i].call = rows[i].call
        BY <2>1, <2>2, RunIsSound
      <3>3. answer'[b] = id /\ attempt'[b] = "served" /\ UNCHANGED <<told, call>>
        BY <1>10, <2>1, <2>3 DEF Execute
      <3> QED
        BY <3>1, <3>2, <3>3 DEF IdsKnown
    <2>4. CASE a # b
      BY <1>2, <1>10, <2>1, <2>2, <2>4 DEF Execute
    <2> QED
      BY <2>3, <2>4
  <1>11. ASSUME NEW a \in Agents, Lose(a) PROVE IdsKnown(b)'
    BY <1>11 DEF Lose, IdsKnown
  <1>12. ASSUME NEW a \in Agents, Retry(a) PROVE IdsKnown(b)'
    BY <1>12 DEF Retry, IdsKnown
  <1>13. ASSUME NEW a \in Agents, Deliver(a) PROVE IdsKnown(b)'
    <2>1. CASE a = b
      <3>1. answer'[b] = NoId /\ UNCHANGED rows
        BY <1>13, <2>1 DEF Deliver
      <3>2. ASSUME NEW n \in Creations, call[b] = Create(n), answer[b] # NoId
            PROVE  answer[b] \in DOMAIN rows /\ rows[answer[b]].call = n
        BY <3>2 DEF IdsKnown, Create
      <3>3. ASSUME NEW t \in told'[b], t \notin told[b]
            PROVE  \E n \in Creations :
                      /\ call[b] = Create(n) /\ answer[b] # NoId
                      /\ t = <<answer[b], n, tries[b]>>
        BY <1>13, <2>1, <3>3 DEF Deliver
      <3>4. \A t \in told'[b] : t[1] \in DOMAIN rows /\ rows[t[1]].call = t[2]
        BY <3>2, <3>3 DEF IdsKnown
      <3> QED
        BY <3>1, <3>4 DEF IdsKnown
    <2>2. CASE a # b
      BY <1>13, <2>2 DEF Deliver, IdsKnown
    <2> QED
      BY <2>1, <2>2
  <1>14. ASSUME NEW w \in late, RunLate(w) PROVE IdsKnown(b)'
    <2>1. PICK id \in Ids \cup {NoId} : Run(w, id)
      BY <1>14 DEF RunLate
    <2> QED
      BY <1>2, <1>14, <2>1 DEF RunLate
  <1>15. ASSUME NEW kept \in BOOLEAN, Restart(kept) PROVE IdsKnown(b)'
    BY <1>15 DEF Restart, IdsKnown, Server!Restart
  <1>16. CASE UNCHANGED vars
    BY <1>1, <1>16 DEF vars, rpcVars
  <1> QED
    BY <1>3, <1>4, <1>5, <1>7, <1>8, <1>9, <1>10, <1>11, <1>12, <1>13, <1>14,
       <1>15, <1>16 DEF Next, GraphStep, CallStep

\* An id answered to a create is that of a ticket it made, while the server
\* keeps its file, for any number of agents, retries and late attempts.
THEOREM IdsAreOwn == Spec => []OwnTickets
  <1>1. Init => \A a \in Agents : IdsKnown(a)
    BY DEF Init, IdsKnown
  <1>2. IInv /\ (\A a \in Agents : IdsKnown(a)) /\ [Next]_vars
        => (\A a \in Agents : IdsKnown(a))'
    BY IdsKnownStep
  <1>3. (\A a \in Agents : IdsKnown(a)) => OwnTickets
    BY DEF IdsKnown, OwnTickets, Copies
  <1> QED
    BY <1>1, <1>2, <1>3, Invariance, PTL DEF Spec

-----------------------------------------------------------------------------
\* The copies.

LEMMA CopiesAreFinite ==
    ASSUME Server!TypeOK, NEW n \in Creations
    PROVE  IsFiniteSet(Copies(n)) /\ Cardinality(Copies(n)) \in Nat
  <1>1. Len(rows) \in Nat /\ DOMAIN rows = 1 .. Len(rows)
    BY DEF Server!TypeOK
  <1>2. IsFiniteSet(DOMAIN rows)
    BY <1>1, FS_Interval
  <1>3. IsFiniteSet(Copies(n))
    BY <1>2, FS_Subset DEF Copies
  <1> QED
    BY <1>3, FS_CardinalityType

LEMMA DistinctWrites ==
    /\ \A m, n \in Creations : Create(m) = Create(n) => m = n
    /\ \A n \in Creations : Create(n) # <<None>>
    /\ \A n \in Creations, i \in Guesses, s \in Statuses :
          Create(n) # Update(i, s)
  BY DEF Create, Update, None

\* A create makes one copy of itself; no write touches the copies of another.
LEMMA RunCount ==
    ASSUME Server!TypeOK, NEW w \in Writes, NEW id, Run(w, id),
           NEW n \in Creations
    PROVE  /\ w # Create(n) => Copies(n)' = Copies(n)
           /\ w = Create(n) =>
                 Cardinality(Copies(n)') = Cardinality(Copies(n)) + 1
  <1>0. rows \in Seq(Server!Row) /\ Len(rows) \in Nat
        /\ DOMAIN rows = 1 .. Len(rows)
    BY DEF Server!TypeOK
  <1>1. ASSUME NEW m \in Creations, w = Create(m), Server!CreateTicket(m, id)
        PROVE  Copies(n)' = IF m = n THEN Copies(n) \cup {Len(rows) + 1}
                                     ELSE Copies(n)
    <2>1. rows' = Append(rows, [call |-> m, status |-> "open"])
      BY <1>1 DEF Server!CreateTicket
    <2>2. /\ DOMAIN rows' = (DOMAIN rows) \cup {Len(rows) + 1}
          /\ Len(rows) + 1 \notin DOMAIN rows
          /\ rows'[Len(rows) + 1].call = m
          /\ \A i \in DOMAIN rows : rows'[i] = rows[i]
      BY <1>0, <2>1
    <2> QED
      BY <2>2 DEF Copies
  <1>2. ASSUME NEW i \in Guesses, NEW s \in Statuses, NEW found \in BOOLEAN,
               w = Update(i, s), Server!UpdateStatus(i, s, found)
        PROVE  Copies(n)' = Copies(n)
    <2>1. DOMAIN rows' = DOMAIN rows
          /\ \A k \in DOMAIN rows : rows'[k].call = rows[k].call
      BY <1>0, <1>2 DEF Server!UpdateStatus, Server!Row
    <2> QED
      BY <2>1 DEF Copies
  <1>3. w # Create(n) => Copies(n)' = Copies(n)
    BY <1>1, <1>2 DEF Run
  <1>4. ASSUME w = Create(n)
        PROVE  Cardinality(Copies(n)') = Cardinality(Copies(n)) + 1
    <2>1. Server!CreateTicket(n, id)
      BY <1>4, DistinctWrites DEF Run
    <2>2. Copies(n)' = Copies(n) \cup {Len(rows) + 1}
      BY <1>1, <1>4, <2>1
    <2>3. Len(rows) + 1 \notin Copies(n)
      BY <1>0 DEF Copies
    <2> QED
      BY <2>2, <2>3, CopiesAreFinite, FS_AddElement
  <1> QED
    BY <1>3, <1>4

\* Tickets made by create n, and the one that an abandoned attempt may still
\* make.  Both, and the attempt under way, have used up one of two tries; what
\* is left of a create that was answered is no more than it was told.
Spent(n) == Cardinality(Copies(n)) + (IF Create(n) \in late THEN 1 ELSE 0)

InFlight(a) == IF attempt[a] = "sent" THEN 1 ELSE 0

Unused(n) ==
    /\ Copies(n) = {} /\ Create(n) \notin late
    /\ \A a \in Agents : call[a] # Create(n) /\ \A t \in told[a] : t[2] # n

Budget(n) ==
    /\ n > creates => Unused(n)
    /\ \A a, b \in Agents : call[a] = Create(n) /\ call[b] = Create(n) => a = b
    /\ Spent(n) <= 2
    /\ \A a \in Agents : call[a] = Create(n) => Spent(n) + InFlight(a) <= tries[a]
    /\ \A a \in Agents : \A t \in told[a] :
          t[2] = n => Spent(n) <= t[3] /\ \A b \in Agents : call[b] # Create(n)

LEMMA SpentType ==
    ASSUME Server!TypeOK, NEW n \in Creations
    PROVE  Spent(n) \in Nat
  BY CopiesAreFinite DEF Spent

LEMMA BudgetStep ==
    ASSUME IInv, [Next]_vars, NEW n \in Creations, Budget(n)
    PROVE  Budget(n)'
  <1> USE DemoAgentAssumption
  <1> TypeOK
    BY DEF IInv
  <1>0. /\ Server!TypeOK /\ Spent(n) \in Nat /\ Cardinality(Copies(n)) \in Nat
        /\ creates \in Nat /\ n \in Nat
        /\ \A a \in Agents : tries[a] \in 0 .. 2
        /\ \A a \in Agents : \A t \in told[a] : t[3] \in 1 .. 2
    BY SpentType, CopiesAreFinite DEF TypeOK, Creations
  <1>1. ASSUME UNCHANGED <<call, attempt, tries, late, creates, rows>>,
               \A a \in Agents : told'[a] \subseteq told[a]
        PROVE  Budget(n)'
    <2>1. Spent(n)' = Spent(n) /\ Copies(n)' = Copies(n)
          /\ \A a \in Agents : InFlight(a)' = InFlight(a)
      BY <1>1 DEF Spent, InFlight, Copies
    <2> QED
      BY <1>1, <2>1 DEF Budget, Unused
  <1>2. ASSUME NEW a \in Agents, Begin(a) PROVE Budget(n)'
    BY <1>1, <1>2 DEF Begin, rpcVars
  <1>3. ASSUME NEW a \in Agents, NEW how, Over(a, how)
        PROVE  \A b \in Agents : told'[b] \subseteq told[b]
    BY <1>3 DEF Over, TypeOK
  <1>4. ASSUME NEW a \in Agents, Think(a) PROVE Budget(n)'
    BY <1>1, <1>3, <1>4 DEF Think, Follow, Enter, rpcVars
  <1>5. ASSUME NEW a \in Agents, Consult(a) PROVE Budget(n)'
    BY <1>1, <1>5 DEF Consult, rpcVars
  <1>6. ASSUME NEW a \in Agents, AskCreate(a) PROVE Budget(n)'
    <2>1. /\ creates < MaxCreates /\ creates' = creates + 1
          /\ call' = [call EXCEPT ![a] = Create(creates + 1)]
          /\ attempt' = [attempt EXCEPT ![a] = "sent"]
          /\ tries' = [tries EXCEPT ![a] = 1]
          /\ UNCHANGED <<late, told, rows>>
      BY <1>6 DEF AskCreate, Send
    <2>2. Spent(n)' = Spent(n) /\ Copies(n)' = Copies(n)
      BY <2>1 DEF Spent, Copies
    <2>3. \A b \in Agents \ {a} : InFlight(b)' = InFlight(b) /\ call'[b] = call[b]
                                  /\ tries'[b] = tries[b]
      BY <2>1 DEF InFlight, TypeOK
    <2>4. InFlight(a)' = 1 /\ tries'[a] = 1 /\ call'[a] = Create(creates + 1)
      BY <2>1 DEF InFlight, TypeOK
    <2>5. CASE n = creates + 1
      <3>1. Unused(n)
        BY <1>0, <2>5 DEF Budget
      <3>2. Spent(n) = 0
        BY <3>1, FS_EmptySet DEF Unused, Spent
      <3> QED
        BY <1>0, <2>1, <2>2, <2>3, <2>4, <2>5, <3>1, <3>2 DEF Budget, Unused
    <2>6. CASE n # creates + 1
      <3>1. creates + 1 \in Creations
        BY <1>0, <2>1 DEF Creations
      <3>2. call'[a] # Create(n)
        BY <2>4, <2>6, <3>1, DistinctWrites
      <3>3. n > creates' => n > creates
        BY <1>0, <2>1
      <3> QED
        BY <2>1, <2>2, <2>3, <3>2, <3>3 DEF Budget, Unused
    <2> QED
      BY <2>5, <2>6
  <1>7. ASSUME NEW a \in Agents, AskUpdate(a) PROVE Budget(n)'
    <2>1. PICK i \in Guesses, s \in Statuses : Send(a, Update(i, s))
      BY <1>7 DEF AskUpdate
    <2>2. /\ call' = [call EXCEPT ![a] = Update(i, s)]
          /\ attempt' = [attempt EXCEPT ![a] = "sent"]
          /\ tries' = [tries EXCEPT ![a] = 1]
          /\ UNCHANGED <<late, told, rows, creates>>
      BY <1>7, <2>1 DEF AskUpdate, Send
    <2>3. Spent(n)' = Spent(n) /\ Copies(n)' = Copies(n)
      BY <2>2 DEF Spent, Copies
    <2>4. \A b \in Agents \ {a} : InFlight(b)' = InFlight(b) /\ call'[b] = call[b]
                                  /\ tries'[b] = tries[b]
      BY <2>2 DEF InFlight, TypeOK
    <2>5. call'[a] # Create(n)
      BY <2>2, DistinctWrites DEF TypeOK
    <2> QED
      BY <2>2, <2>3, <2>4, <2>5 DEF Budget, Unused
  <1>8. ASSUME NEW a \in Agents, RouteAfterTools(a) PROVE Budget(n)'
    BY <1>1, <1>3, <1>8 DEF RouteAfterTools, Follow, Enter, rpcVars
  <1>9. ASSUME NEW a \in Agents, Bypass(a) \/ Raise(a) PROVE Budget(n)'
    BY <1>1, <1>3, <1>9 DEF Bypass, Raise, Follow, Enter, rpcVars
  <1>10. ASSUME NEW a \in Agents, Execute(a) PROVE Budget(n)'
    <2>1. PICK id \in Ids \cup {NoId} : Run(call[a], id)
      BY <1>10 DEF Execute
    <2>2. call[a] \in Writes
      BY <1>10 DEF Execute, IInv, Pending, TypeOK
    <2>3. /\ UNCHANGED <<call, tries, late, creates, told>> /\ InFlight(a) = 1
          /\ InFlight(a)' = 0 /\ \A b \in Agents \ {a} : InFlight(b)' = InFlight(b)
      BY <1>10 DEF Execute, InFlight, TypeOK
    <2>4. CASE call[a] = Create(n)
      <3>1. Spent(n)' = Spent(n) + 1
        BY <1>0, <2>1, <2>2, <2>3, <2>4, RunCount DEF Spent
      <3>2. Spent(n) + 1 <= tries[a]
        BY <2>3, <2>4 DEF Budget
      <3>3. ~(n > creates) /\ \A b \in Agents : call[b] = Create(n) => b = a
        BY <2>4 DEF Budget, Unused
      <3>4. \A b \in Agents : \A t \in told[b] : t[2] # n
        BY <2>4 DEF Budget
      <3> QED
        BY <1>0, <2>3, <3>1, <3>2, <3>3, <3>4 DEF Budget
    <2>5. CASE call[a] # Create(n)
      <3>1. Copies(n)' = Copies(n)
        BY <1>0, <2>1, <2>2, <2>5, RunCount
      <3>2. Spent(n)' = Spent(n)
        BY <2>3, <3>1 DEF Spent
      <3> QED
        BY <2>3, <2>5, <3>1, <3>2 DEF Budget, Unused
    <2> QED
      BY <2>4, <2>5
  <1>11. ASSUME NEW a \in Agents, Lose(a) PROVE Budget(n)'
    <2>1. /\ UNCHANGED <<call, tries, creates, told, rows>>
          /\ Copies(n)' = Copies(n) /\ InFlight(a)' = 0
          /\ \A b \in Agents \ {a} : InFlight(b)' = InFlight(b)
      BY <1>11 DEF Lose, InFlight, Copies, TypeOK
    <2>2. CASE call[a] = Create(n)
      <3>1. Spent(n)' <= Spent(n) + InFlight(a) /\ Spent(n)' \in Nat
        BY <1>0, <1>11, <2>1 DEF Lose, Spent, InFlight
      <3>2. Spent(n) + InFlight(a) <= tries[a] /\ InFlight(a) \in 0 .. 1
        BY <2>2 DEF Budget, InFlight
      <3>3. ~(n > creates) /\ \A b \in Agents : call[b] = Create(n) => b = a
        BY <2>2 DEF Budget, Unused
      <3>4. \A b \in Agents : \A t \in told[b] : t[2] # n
        BY <2>2 DEF Budget
      <3> QED
        BY <1>0, <2>1, <3>1, <3>2, <3>3, <3>4 DEF Budget
    <2>3. CASE call[a] # Create(n)
      <3>1. Create(n) \in late' <=> Create(n) \in late
        BY <1>11, <2>3 DEF Lose
      <3>2. Spent(n)' = Spent(n)
        BY <2>1, <3>1 DEF Spent
      <3> QED
        BY <2>1, <2>3, <3>1, <3>2 DEF Budget, Unused
    <2> QED
      BY <2>2, <2>3
  <1>12. ASSUME NEW a \in Agents, Retry(a) PROVE Budget(n)'
    <2>1. /\ UNCHANGED <<call, late, creates, told, rows>> /\ tries[a] = 1
          /\ Copies(n)' = Copies(n) /\ InFlight(a)' = 1 /\ tries'[a] = 2
          /\ InFlight(a) = 0
          /\ \A b \in Agents \ {a} : InFlight(b)' = InFlight(b)
                                     /\ tries'[b] = tries[b]
      BY <1>12 DEF Retry, InFlight, Copies, TypeOK
    <2>2. Spent(n)' = Spent(n)
      BY <2>1 DEF Spent
    <2> QED
      BY <1>0, <2>1, <2>2 DEF Budget, Unused
  <1>13. ASSUME NEW a \in Agents, Deliver(a) PROVE Budget(n)'
    <2>1. /\ UNCHANGED <<late, creates, rows>> /\ call'[a] = <<None>>
          /\ Copies(n)' = Copies(n)
          /\ \A b \in Agents \ {a} : /\ InFlight(b)' = InFlight(b)
                                     /\ call'[b] = call[b] /\ tries'[b] = tries[b]
                                     /\ told'[b] = told[b]
      BY <1>13 DEF Deliver, InFlight, Copies, TypeOK
    <2>2. Spent(n)' = Spent(n) /\ call'[a] # Create(n)
      BY <2>1, DistinctWrites DEF Spent
    <2>3. ASSUME NEW t \in told'[a], t[2] = n, t \notin told[a]
          PROVE  call[a] = Create(n) /\ t[3] = tries[a]
      <3>1. PICK m \in Creations : call[a] = Create(m)
                                   /\ t = <<answer[a], m, tries[a]>>
        BY <1>13, <2>3 DEF Deliver, TypeOK
      <3> QED
        BY <2>3, <3>1
    <2>4. CASE call[a] = Create(n)
      <3>1. Spent(n) <= tries[a]
        BY <1>0, <2>4 DEF Budget, InFlight
      <3>2. \A b \in Agents : call'[b] # Create(n)
        BY <2>1, <2>2, <2>4 DEF Budget
      <3>3. \A b \in Agents : \A t \in told'[b] : t[2] = n => Spent(n) <= t[3]
        BY <2>1, <2>3, <3>1 DEF Budget
      <3>4. ~(n > creates)
        BY <2>4 DEF Budget, Unused
      <3> QED
        BY <2>1, <2>2, <3>2, <3>3, <3>4 DEF Budget
    <2>5. CASE call[a] # Create(n)
      <3>1. \A b \in Agents : \A t \in told'[b] : t[2] = n => t \in told[b]
        BY <2>1, <2>3, <2>5
      <3> QED
        BY <2>1, <2>2, <3>1 DEF Budget, Unused
    <2> QED
      BY <2>4, <2>5
  <1>14. ASSUME NEW w \in late, RunLate(w) PROVE Budget(n)'
    <2>1. PICK id \in Ids \cup {NoId} : Run(w, id)
      BY <1>14 DEF RunLate
    <2>2. /\ w \in Writes /\ late' = late \ {w}
          /\ UNCHANGED <<call, tries, creates, told>>
          /\ \A b \in Agents : InFlight(b)' = InFlight(b)
      BY <1>14 DEF RunLate, InFlight, TypeOK
    <2>3. CASE w = Create(n)
      <3>1. Spent(n)' = Spent(n)
        BY <1>0, <2>1, <2>2, <2>3, RunCount DEF Spent
      <3>2. ~(n > creates)
        BY <2>3 DEF Budget, Unused
      <3> QED
        BY <2>2, <3>1, <3>2 DEF Budget
    <2>4. CASE w # Create(n)
      <3>1. Copies(n)' = Copies(n) /\ (Create(n) \in late' <=> Create(n) \in late)
        BY <1>0, <2>1, <2>2, <2>4, RunCount
      <3>2. Spent(n)' = Spent(n)
        BY <3>1 DEF Spent
      <3> QED
        BY <2>2, <3>1, <3>2 DEF Budget, Unused
    <2> QED
      BY <2>3, <2>4
  <1>15. ASSUME NEW kept \in BOOLEAN, Restart(kept) PROVE Budget(n)'
    <2>1. CASE kept
      BY <1>1, <1>15, <2>1 DEF Restart, Server!Restart
    <2>2. CASE ~kept
      <3>1. /\ rows' = <<>> /\ UNCHANGED <<call, tries, late, creates>>
            /\ \A b \in Agents : told'[b] = {} /\ InFlight(b)' = InFlight(b)
        BY <1>15, <2>2 DEF Restart, Server!Restart, InFlight
      <3>2. Copies(n)' = {}
        BY <3>1 DEF Copies
      <3>3. Spent(n)' <= Spent(n) /\ Spent(n)' \in Nat
        BY <1>0, <3>1, <3>2, FS_EmptySet DEF Spent
      <3>4. \A b \in Agents : InFlight(b) \in Nat
        BY DEF InFlight
      <3>5. Spent(n)' <= 2
        BY <1>0, <3>3 DEF Budget
      <3>6. ASSUME NEW b \in Agents, call'[b] = Create(n)
            PROVE  Spent(n)' + InFlight(b)' <= tries'[b]
        <4>1. Spent(n) + InFlight(b) <= tries[b] /\ tries[b] \in Nat
          BY <1>0, <3>1, <3>6 DEF Budget
        <4> QED
          BY <1>0, <3>1, <3>3, <3>4, <4>1
      <3>7. n > creates' => Unused(n)'
        BY <3>1, <3>2 DEF Budget, Unused
      <3> QED
        BY <3>1, <3>5, <3>6, <3>7 DEF Budget
    <2> QED
      BY <2>1, <2>2
  <1>16. CASE UNCHANGED vars
    BY <1>1, <1>16 DEF vars, rpcVars
  <1> QED
    BY <1>2, <1>4, <1>5, <1>6, <1>7, <1>8, <1>9, <1>10, <1>11, <1>12, <1>13,
       <1>14, <1>15, <1>16 DEF Next, GraphStep, CallStep

\* The gateway's one retry makes a create at most two tickets, and one if its
\* first attempt was answered - for any number of agents, of abandoned attempts
\* that are run late, and of restarts of the ticket server.
THEOREM TwoTicketsAtMost == Spec => []TwiceAtMost
  <1>1. Init => \A n \in Creations : Budget(n)
    <2> SUFFICES ASSUME Init, NEW n \in Creations PROVE Budget(n)
      OBVIOUS
    <2>1. rows = <<>>
      BY DEF Init, Server!Init
    <2>2. Copies(n) = {} /\ late = {}
      BY <2>1 DEF Init, Copies
    <2>3. Spent(n) = 0
      BY <2>2, FS_EmptySet DEF Spent
    <2> QED
      BY <2>2, <2>3, DistinctWrites DEF Init, Budget, Unused
  <1>2. IInv /\ (\A n \in Creations : Budget(n)) /\ [Next]_vars
        => (\A n \in Creations : Budget(n))'
    BY BudgetStep
  <1>3. IInv /\ (\A n \in Creations : Budget(n)) => TwiceAtMost
    <2> SUFFICES ASSUME IInv, \A n \in Creations : Budget(n) PROVE TwiceAtMost
      OBVIOUS
    <2>1. ASSUME NEW n \in Creations, NEW k \in Nat, Spent(n) <= k
          PROVE  Cardinality(Copies(n)) <= k
      BY <2>1, CopiesAreFinite DEF IInv, TypeOK, Spent
    <2>2. ASSUME NEW a \in Agents, NEW t \in told[a]
          PROVE  t[2] \in Creations /\ t[3] \in Nat
      BY <2>2 DEF IInv, TypeOK
    <2> QED
      BY <2>1, <2>2 DEF TwiceAtMost, Budget
  <1> QED
    BY <1>1, <1>2, <1>3, Invariance, PTL DEF Spec

=============================================================================
