----------------------------- MODULE DemoAgent ------------------------------
(***************************************************************************)
(* Demo agents (demo_agent/graph.py, run by __main__.py) that work on the  *)
(* ticket server through the gateway, in the default deployment: no rate   *)
(* limiter, no circuit breaker.  A run goes from node to node of the       *)
(* graph; the model is free to answer or to ask for any batch of calls,    *)
(* with any arguments.  It fixes the calls of a batch before the first of  *)
(* them, but nothing tells that from choosing each when its turn comes.    *)
(*                                                                         *)
(* A call to the ticket server is Backend.call seen from outside: up to    *)
(* two attempts, each of which may end without an answer, executed or not, *)
(* and may even be executed later.  Upstream says when attempts end so.    *)
(*                                                                         *)
(* Of the library, LangGraph 1.2.5 (uv.lock), this is taken: after a node, *)
(* it first compares its steps with recursion_limit and only then looks    *)
(* what is left to do.  So a run may execute Limit nodes, but one that     *)
(* executes that many raises GraphRecursionError, even if its last node    *)
(* was to be the end of it.                                                *)
(***************************************************************************)
EXTENDS Integers, FiniteSets, Sequences

CONSTANTS
    Agents,     \* the agents, each of which makes one run after the other
    Tools,      \* tools that change nothing
    Denied,     \* Denied[a]: those of them that the policy denies to a
    Guesses,    \* the ticket ids the model asks for
    Statuses,   \* the statuses the model asks for
    Limit,      \* Limit[a]: the recursion_limit of a's runs
    MaxBatch,   \* bound, for each agent: calls the model asks for at once
    MaxCreates, \* bound: creates asked for in all
    MayBeLate   \* bound: the calls whose abandoned attempt may be run late

None == "none"

VARIABLES
    node,     \* node[a]: the node that a's run executes, or how it ended
    steps,    \* steps[a]: the nodes it has entered
    made,     \* made[a]: the calls of the current batch that are over
    denial,   \* denial[a]: State["denial"]
    report,   \* report[a]: the payload the bypass has reported
    met,      \* history: the first denial that the run met
    metAt,    \* history: the step in which it did, or 0
    call,     \* call[a]: the write that waits for the ticket server
    attempt,  \* attempt[a]: how far its current attempt has come
    tries,    \* tries[a]: its attempts so far
    answer,   \* answer[a]: the id in the server's answer, or NoId
    late,     \* abandoned attempts that the server may still execute
    creates,  \* the creates asked for so far
    told,     \* told[a]: <<id, create, attempts>> as answered to a, for the
              \* ids of the present file
    rows      \* the ticket server's table

Creations == 1 .. MaxCreates
Server == INSTANCE TicketServer

runVars == <<node, steps, made, denial, report, met, metAt>>
rpcVars == <<call, attempt, tries, answer, late>>
vars == <<runVars, rpcVars, creates, told, rows>>

NoId == 0
Ids == 1 .. 2 * MaxCreates   \* every create is executed twice at most

Create(n) == <<"create_ticket", n>>
Update(i, s) == <<"update_status", i, s>>
Writes == {Create(n) : n \in Creations}
          \cup {Update(i, s) : i \in Guesses, s \in Statuses}

ASSUME DemoAgentAssumption ==
    /\ Limit \in [Agents -> Nat \ {0}] /\ MaxBatch \in [Agents -> Nat]
    /\ MaxCreates \in Nat
    /\ None \notin Tools /\ Denied \in [Agents -> SUBSET Tools]
    /\ MayBeLate \subseteq Writes

\* How a run ends: normally, with GraphRecursionError, with another exception.
Ends == {"end", "exhausted", "failed"}

TypeOK ==
    /\ node \in [Agents -> {"call_model", "tools", "bypass"} \cup Ends]
    /\ {steps, metAt, made} \subseteq [Agents -> Nat]
    /\ \A a \in Agents : /\ steps[a] <= Limit[a] /\ metAt[a] <= Limit[a]
                          /\ made[a] <= MaxBatch[a]
    /\ {denial, report, met} \subseteq [Agents -> Tools \cup {None}]
    /\ call \in [Agents -> Writes \cup {<<None>>}]
    /\ attempt \in [Agents -> {"none", "sent", "served", "lost"}]
    /\ tries \in [Agents -> 0 .. 2] /\ answer \in [Agents -> Ids \cup {NoId}]
    /\ late \subseteq MayBeLate /\ creates \in 0 .. MaxCreates
    /\ told \in [Agents -> SUBSET (Ids \X Creations \X (1 .. 2))]
    /\ Server!TypeOK

Init ==
    /\ node = [a \in Agents |-> "end"] /\ steps = [a \in Agents |-> 0]
    /\ made = [a \in Agents |-> 0] /\ denial = [a \in Agents |-> None]
    /\ report = [a \in Agents |-> None] /\ met = [a \in Agents |-> None]
    /\ metAt = [a \in Agents |-> 0]
    /\ call = [a \in Agents |-> <<None>>] /\ attempt = [a \in Agents |-> "none"]
    /\ tries = [a \in Agents |-> 0] /\ answer = [a \in Agents |-> NoId]
    /\ late = {} /\ creates = 0 /\ told = [a \in Agents |-> {}] /\ Server!Init

-----------------------------------------------------------------------------
\* The graph.

\* A run starts with an empty state, at call_model.  A call that a failed run
\* has left behind is waited for, to have one call per agent.
Begin(a) ==
    /\ node[a] \in Ends /\ call[a] = <<None>>
    /\ node' = [node EXCEPT ![a] = "call_model"]
    /\ steps' = [steps EXCEPT ![a] = 1]
    /\ report' = [report EXCEPT ![a] = None]
    /\ met' = [met EXCEPT ![a] = None] /\ metAt' = [metAt EXCEPT ![a] = 0]
    /\ UNCHANGED <<made, denial, rpcVars, creates, told, rows>>

\* The run is over, and with it its state; its history is kept to compare.
Over(a, how) ==
    /\ node' = [node EXCEPT ![a] = how] /\ steps' = [steps EXCEPT ![a] = 0]
    /\ made' = [made EXCEPT ![a] = 0] /\ denial' = [denial EXCEPT ![a] = None]
    /\ told' = [told EXCEPT ![a] = {}]

\* The run goes on to node n with denial d in its state.
Enter(a, n, d) ==
    /\ node' = [node EXCEPT ![a] = n]
    /\ steps' = [steps EXCEPT ![a] = steps[a] + 1]
    /\ made' = [made EXCEPT ![a] = 0] /\ denial' = [denial EXCEPT ![a] = d]
    /\ UNCHANGED told

\* Mutant: no recursion limit.
FollowAlways(a, n, d) ==
    /\ node' = [node EXCEPT ![a] = n]
    /\ made' = [made EXCEPT ![a] = 0] /\ denial' = [denial EXCEPT ![a] = d]
    /\ UNCHANGED <<steps, told>>

Exhausted(a) == steps[a] = Limit[a]

\* A node is done and n is to follow, unless the run has used up its limit.
Follow(a, n, d) ==
    \/ Exhausted(a) /\ Over(a, "exhausted")
    \/ ~Exhausted(a) /\ n = "end" /\ Over(a, "end")
    \/ ~Exhausted(a) /\ n # "end" /\ Enter(a, n, d)

\* call_model answers: without calls, which ends the run, or with some.
Think(a) ==
    /\ node[a] = "call_model" /\ \E n \in {"end", "tools"} : Follow(a, n, None)
    /\ UNCHANGED <<report, met, metAt, rpcVars, creates, rows>>

\* Mutant: the last result decides.
KeepLast(old, new) == new

\* denial = denial or extract_denial(text)
KeepDenial(old, new) == IF old = None THEN new ELSE old

\* The result of a call of the batch has come; new is its denial payload.
Record(a, new) ==
    /\ made' = [made EXCEPT ![a] = made[a] + 1]
    /\ denial' = [denial EXCEPT ![a] = KeepDenial(denial[a], new)]
    /\ met' = [met EXCEPT ![a] = IF met[a] = None THEN new ELSE met[a]]
    /\ metAt' = [metAt EXCEPT ![a] =
                   IF met[a] = None /\ new # None THEN steps[a] ELSE metAt[a]]

MayCall(a) == node[a] = "tools" /\ call[a] = <<None>> /\ made[a] < MaxBatch[a]

\* A call that changes nothing: a denied one, or a read, an unknown tool, an
\* unavailable backend, whose text is no denial.
Consult(a) ==
    /\ MayCall(a) /\ \E d \in Denied[a] \cup {None} : Record(a, d)
    /\ UNCHANGED <<node, steps, report, rpcVars, creates, told, rows>>

\* A write is sent to the ticket server.
Send(a, w) ==
    /\ MayCall(a)
    /\ call' = [call EXCEPT ![a] = w]
    /\ attempt' = [attempt EXCEPT ![a] = "sent"]
    /\ tries' = [tries EXCEPT ![a] = 1]
    /\ UNCHANGED <<runVars, answer, late, told, rows>>

AskCreate(a) ==
    /\ creates < MaxCreates /\ creates' = creates + 1
    /\ Send(a, Create(creates + 1))

AskUpdate(a) ==
    /\ \E i \in Guesses, s \in Statuses : Send(a, Update(i, s))
    /\ UNCHANGED creates

\* route_after_tools, when the batch is over.
RouteAfterTools(a) ==
    /\ node[a] = "tools" /\ call[a] = <<None>> /\ made[a] > 0
    /\ Follow(a, IF denial[a] # None THEN "bypass" ELSE "call_model", denial[a])
    /\ UNCHANGED <<report, met, metAt, rpcVars, creates, rows>>

\* The bypass asks the docs server, whatever that answers, and reports.  main
\* prints the report when the run has ended, so that one with which the limit
\* is reached is lost.
Bypass(a) ==
    /\ node[a] = "bypass" /\ Follow(a, "end", None)
    /\ report' = [report EXCEPT ![a] = IF Exhausted(a) THEN None ELSE denial[a]]
    /\ UNCHANGED <<met, metAt, rpcVars, creates, rows>>

\* The model's API or the connection to the gateway raises: the run is over,
\* a call it waits for is not.  Nothing is claimed of its denial.
Raise(a) ==
    /\ node[a] \in {"call_model", "tools", "bypass"} /\ Over(a, "failed")
    /\ met' = [met EXCEPT ![a] = None] /\ metAt' = [metAt EXCEPT ![a] = 0]
    /\ UNCHANGED <<report, rpcVars, creates, rows>>

-----------------------------------------------------------------------------
\* The gateway and the ticket server.

\* The server runs write w, answering with id.
Run(w, id) ==
    \/ \E n \in Creations : w = Create(n) /\ Server!CreateTicket(n, id)
    \/ \E i \in Guesses, s \in Statuses, found \in BOOLEAN :
          /\ w = Update(i, s) /\ id = NoId /\ Server!UpdateStatus(i, s, found)

Execute(a) ==
    /\ attempt[a] = "sent" /\ attempt' = [attempt EXCEPT ![a] = "served"]
    /\ \E id \in Ids \cup {NoId} :
          Run(call[a], id) /\ answer' = [answer EXCEPT ![a] = id]
    /\ UNCHANGED <<runVars, call, tries, late, creates, told>>

\* The attempt ends without its answer.  If the server has not run it yet, it
\* may still do so.
Lose(a) ==
    /\ attempt[a] \in {"sent", "served"}
    /\ attempt' = [attempt EXCEPT ![a] = "lost"]
    /\ answer' = [answer EXCEPT ![a] = NoId]
    /\ \/ UNCHANGED late
       \/ /\ attempt[a] = "sent" /\ call[a] \in MayBeLate \ late
          /\ late' = late \cup {call[a]}
    /\ UNCHANGED <<runVars, call, tries, creates, told, rows>>

RunLate(w) ==
    /\ w \in late /\ late' = late \ {w}
    /\ \E id \in Ids \cup {NoId} : Run(w, id)
    /\ UNCHANGED <<runVars, call, attempt, tries, answer, creates, told>>

\* Mutant: the second attempt is followed by more.
RetryAgain(a) ==
    /\ attempt[a] = "lost" /\ attempt' = [attempt EXCEPT ![a] = "sent"]
    /\ tries' = [tries EXCEPT ![a] = 2]
    /\ UNCHANGED <<runVars, call, answer, late, creates, told, rows>>

\* Backend.call connects anew and sends the call once more.
Retry(a) ==
    /\ attempt[a] = "lost" /\ tries[a] = 1
    /\ attempt' = [attempt EXCEPT ![a] = "sent"]
    /\ tries' = [tries EXCEPT ![a] = 2]
    /\ UNCHANGED <<runVars, call, answer, late, creates, told, rows>>

\* The result of Backend.call reaches the run, if that still waits for it: the
\* server's answer, or BACKEND_UNAVAILABLE after a lost attempt.
Deliver(a) ==
    /\ attempt[a] \in {"served", "lost"}
    /\ \/ /\ node[a] = "tools" /\ Record(a, None)
          /\ told' = [told EXCEPT ![a] = @ \cup
               {<<answer[a], n, tries[a]>> : n \in
                  {k \in Creations : call[a] = Create(k) /\ answer[a] # NoId}}]
       \/ node[a] # "tools" /\ UNCHANGED <<made, denial, met, metAt, told>>
    /\ call' = [call EXCEPT ![a] = <<None>>]
    /\ attempt' = [attempt EXCEPT ![a] = "none"]
    /\ tries' = [tries EXCEPT ![a] = 0] /\ answer' = [answer EXCEPT ![a] = NoId]
    /\ UNCHANGED <<node, steps, report, late, creates, rows>>

\* The ticket server restarts, with or without its file.  An id of a lost file
\* says nothing any more.
Restart(kept) ==
    /\ Server!Restart(kept)
    /\ IF kept THEN UNCHANGED <<told, answer>>
       ELSE /\ told' = [a \in Agents |-> {}]
            /\ answer' = [a \in Agents |-> NoId]
    /\ UNCHANGED <<runVars, call, attempt, tries, late, creates>>

-----------------------------------------------------------------------------
GraphStep(a) ==
    \/ Think(a) \/ Consult(a) \/ AskCreate(a) \/ AskUpdate(a)
    \/ RouteAfterTools(a) \/ Bypass(a)

CallStep(a) == Execute(a) \/ Lose(a) \/ Retry(a) \/ Deliver(a)

Next ==
    \/ \E a \in Agents : Begin(a) \/ GraphStep(a) \/ Raise(a) \/ CallStep(a)
    \/ \E w \in late : RunLate(w)
    \/ \E kept \in BOOLEAN : Restart(kept)

Spec == Init /\ [][Next]_vars

\* The model and the gateway answer.  The latter is Upstream's EveryCallEnds.
FairSpec ==
    /\ Spec
    /\ \A a \in Agents : WF_vars(GraphStep(a)) /\ WF_vars(CallStep(a))

-----------------------------------------------------------------------------
\* Properties.

Copies(n) == {i \in DOMAIN rows : rows[i].call = n}

\* The id in the answer to a create is that of a ticket this create made, as
\* long as the server keeps its file: concurrent creates, retries and late
\* attempts do not get ids mixed up.
OwnTickets ==
    \A a \in Agents : \A t \in told[a] : t[1] \in Copies(t[2])

\* The gateway's retry makes a create at most two tickets, and one if the
\* first attempt was answered, also when an abandoned attempt is run late.
TwiceAtMost ==
    /\ \A n \in Creations : Cardinality(Copies(n)) <= 2
    /\ \A a \in Agents : \A t \in told[a] : Cardinality(Copies(t[2])) <= t[3]

\* A denial is not lost: the model is not asked again after it, whatever else
\* its batch has brought, and a run that ends reports the first one.  Only the
\* recursion limit loses one, and only one that is met in the last node or in
\* the last but one, which leaves no room for the bypass and the end.
DenialReported ==
    \A a \in Agents :
        /\ node[a] = "call_model" => met[a] = None
        /\ node[a] = "end" => report[a] = met[a]
        /\ node[a] = "exhausted" /\ met[a] # None => metAt[a] >= Limit[a] - 1

\* Every run ends, however long the model would go on.
RunsEnd == \A a \in Agents : node[a] = "call_model" ~> node[a] \in Ends

=============================================================================
