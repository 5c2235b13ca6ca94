---------------------------- MODULE TokenBucket ----------------------------
(***************************************************************************)
(* What "a token bucket per client" promises (the docstring of             *)
(* gateway/ratelimit.py): every agent owns a bucket that drips full at a   *)
(* steady rate; a call takes one token, or is refused when there is none.  *)
(* Nothing else about the past of an agent matters, refusals included.     *)
(***************************************************************************)
EXTENDS Integers

CONSTANTS
    Agents,    \* the clients
    Capacity,  \* tokens a bucket holds
    Unit,      \* the parts a token is counted in
    Refill     \* parts added per tick

VARIABLES
    level,     \* level[a]: parts in a's bucket
    answer     \* answer[a]: what a's last call was told

Full == Capacity * Unit

AtMost(n, max) == IF n > max THEN max ELSE n

Init ==
    /\ level = [a \in Agents |-> Full]
    /\ answer = [a \in Agents |-> "none"]

Drip ==
    /\ level' = [a \in Agents |-> AtMost(level[a] + Refill, Full)]
    /\ UNCHANGED answer

Take(a) ==
    /\ level[a] >= Unit
    /\ level' = [level EXCEPT ![a] = @ - Unit]
    /\ answer' = [answer EXCEPT ![a] = "granted"]

Turn(a) ==
    /\ level[a] < Unit
    /\ answer' = [answer EXCEPT ![a] = "refused"]
    /\ UNCHANGED level

Next == Drip \/ \E a \in Agents : Take(a) \/ Turn(a)

Spec == Init /\ [][Next]_<<level, answer>>

=============================================================================
