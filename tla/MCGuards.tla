------------------------------ MODULE MCGuards ------------------------------
(***************************************************************************)
(* The three guards that route_call (gateway/routes.py) asks one after the *)
(* other: limiter, policy, breaker.  None of them reads what another keeps,*)
(* so that a run that uses one of them and leaves the others at rest tells *)
(* all there is to tell about it; how a call walks through all three is in *)
(* ToolCalls.  One model checks all small instances.                       *)
(***************************************************************************)
EXTENDS MCCircuitBreaker, RateLimiter, MCLogQuery

VARIABLE guard   \* the guard in use

guardVars == <<vars, limiterVars, queryVars, guard>>

\* A policy is loaded only to be used.
GuardInit ==
    /\ guard \in {"limiter", "policy", "breaker"}
    /\ LimiterInit /\ QueryInit /\ Init
    /\ guard # "policy" => entries = <<>>

GuardNext ==
    /\ UNCHANGED guard
    /\ \/ guard = "limiter" /\ LimiterNext /\ UNCHANGED <<vars, queryVars>>
       \/ guard = "policy" /\ QueryNext /\ UNCHANGED <<vars, limiterVars>>
       \/ guard = "breaker" /\ Next /\ UNCHANGED <<limiterVars, queryVars>>

\* The fairness of CircuitBreaker, while that is in use.
GuardFairSpec ==
    /\ GuardInit /\ [][GuardNext]_guardVars
    /\ WF_vars(guard = "breaker" /\ Tick)
    /\ \A c \in Calls :
          WF_vars(guard = "breaker" /\ (Succeed(c) \/ Fail(c) \/ Return(c)))

=============================================================================
