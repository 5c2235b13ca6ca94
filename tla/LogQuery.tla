------------------------------ MODULE LogQuery ------------------------------
(***************************************************************************)
(* A query_logs call from the gateway's policy engine (evaluate and        *)
(* _check_args in gateway/policy.py) to the ops server that answers it     *)
(* (query_logs in ops_server/fake_data.py).  The policy alone limits the   *)
(* time range, the server alone turns a range into lines, and each reads   *)
(* the two time stamps in its own way.                                     *)
(*                                                                         *)
(* Time is counted in ticks, Hour to the hour; a limit is a number of      *)
(* ticks, so that max_range_hours may be a fraction.  What a line says and *)
(* which lines contain the query is left open.                             *)
(***************************************************************************)
EXTENDS Integers, Sequences

CONSTANTS
    Hour,      \* ticks per hour
    Walls,     \* wall clock times a client writes, in ticks
    Offsets,   \* offsets from UTC a client writes, in ticks
    Others,    \* tools of the ops server besides query_logs
    Policies   \* the entries an agent can have for the ops server

NoLimit == -1    \* a plain string, or no max_range_hours
NoNumber == -2   \* a max_range_hours that is no number
QueryLogs == "query_logs"
Tools == Others \cup {QueryLogs}

\* A time argument: missing or malformed, naive, or aware of its offset.
Bad == [kind |-> "bad", wall |-> 0, offset |-> 0]
Naive == [kind : {"naive"}, wall : Walls, offset : {0}]
Aware == [kind : {"aware"}, wall : Walls, offset : Offsets]
Times == {Bad} \cup Naive \cup Aware

Entry == [tool : Tools, limit : Nat \cup {NoLimit, NoNumber}]

ASSUME LogQueryAssumption ==
    /\ Hour \in Nat \ {0} /\ Walls \subseteq Int /\ Offsets \subseteq Int
    /\ Policies \subseteq Seq(Entry)

VARIABLES
    entries,     \* the agent's entries for the server; loaded once
    pc,          \* where the call is: "idle", "policy", "relayed", "lines",
                 \* or how it ended
    tool, start, end,  \* the request
    i,           \* the entry evaluate looks at
    ts,          \* the hour query_logs looks at, as UTC
    scanned,     \* hours it has looked at
    count        \* lines it has found

request == <<tool, start, end>>
scan == <<ts, scanned, count>>
queryVars == <<entries, pc, request, i, scan>>

Refusals == {"denied", "raised"}
Answers == {"answered", "tool_error"}

QueryTypes ==
    /\ entries \in Policies
    /\ pc \in {"idle", "policy", "relayed", "lines"} \cup Refusals \cup Answers
    /\ tool \in Tools /\ start \in Times /\ end \in Times
    /\ i \in 1 .. Len(entries) + 1
    /\ ts \in Int /\ scanned \in Nat /\ count \in 0 .. scanned

\* Policy.load; no call yet.
QueryInit ==
    /\ entries \in Policies /\ pc = "idle"
    /\ tool = QueryLogs /\ start = Bad /\ end = Bad
    /\ i = 1 /\ ts = 0 /\ scanned = 0 /\ count = 0

\* A call reaches evaluate.
Ask ==
    /\ pc = "idle" /\ pc' = "policy" /\ i' = 1
    /\ tool' \in Tools /\ start' \in Times /\ end' \in Times
    /\ UNCHANGED <<entries, scan>>

-----------------------------------------------------------------------------
\* evaluate: an entry for another tool is passed over.
Skip ==
    /\ pc = "policy" /\ i <= Len(entries) /\ entries[i].tool # tool
    /\ i' = i + 1
    /\ UNCHANGED <<entries, pc, request, scan>>

\* evaluate: no entry is left.
DefaultDeny ==
    /\ pc = "policy" /\ i > Len(entries) /\ pc' = "denied"
    /\ UNCHANGED <<entries, request, i, scan>>

\* What a time stamp without offset means is the server's business; the policy
\* subtracts two of a kind, and Python refuses to subtract unlike ones.
UTC(x) == x.wall - x.offset
Comparable == start.kind # "bad" /\ start.kind = end.kind

\* Mutant: the wall clocks are compared.
SpanOfWalls == end.wall - start.wall

Span == UTC(end) - UTC(start)

\* Mutants: an argument that cannot be judged is let through; the order of the
\* two is not looked at.
VerdictOpen(limit) ==
    IF limit = NoLimit \/ ~Comparable THEN "relayed"
    ELSE IF Span < 0 THEN "denied"
    ELSE IF limit = NoNumber THEN "raised"
    ELSE IF Span > limit THEN "denied" ELSE "relayed"

VerdictUnordered(limit) ==
    IF limit = NoLimit THEN "relayed"
    ELSE IF ~Comparable THEN "denied"
    ELSE IF limit = NoNumber THEN "raised"
    ELSE IF Span > limit THEN "denied" ELSE "relayed"

\* _check_args.
Verdict(limit) ==
    IF limit = NoLimit THEN "relayed"
    ELSE IF ~Comparable \/ Span < 0 THEN "denied"
    ELSE IF limit = NoNumber THEN "raised"
    ELSE IF Span > limit THEN "denied" ELSE "relayed"

\* evaluate: the first entry for the tool decides.
Match ==
    /\ pc = "policy" /\ i <= Len(entries) /\ entries[i].tool = tool
    /\ pc' = Verdict(entries[i].limit)
    /\ UNCHANGED <<entries, request, i, scan>>

-----------------------------------------------------------------------------
\* The start, with its minutes cut off on its own clock; _parse_iso takes a
\* naive time stamp for UTC.
FirstHour == (start.wall \div Hour) * Hour - start.offset

\* query_logs checks its arguments and starts at the first hour.  Another tool
\* answers at once.
Serve ==
    /\ pc = "relayed"
    /\ \/ tool # QueryLogs /\ pc' \in Answers /\ UNCHANGED scan
       \/ /\ tool = QueryLogs
          /\ start = Bad \/ end = Bad \/ UTC(end) < UTC(start)
          /\ pc' = "tool_error" /\ UNCHANGED scan
       \/ /\ tool = QueryLogs
          /\ start # Bad /\ end # Bad /\ UTC(end) >= UTC(start)
          /\ pc' = "lines" /\ ts' = FirstHour /\ scanned' = 0 /\ count' = 0
    /\ UNCHANGED <<entries, request, i>>

\* One hour of the loop: its line is in the answer if it contains the query.
Line ==
    /\ pc = "lines" /\ ts <= UTC(end)
    /\ ts' = ts + Hour /\ scanned' = scanned + 1 /\ count' \in {count, count + 1}
    /\ UNCHANGED <<entries, pc, request, i>>

EndLines ==
    /\ pc = "lines" /\ ts > UTC(end) /\ pc' = "answered"
    /\ UNCHANGED <<entries, request, i, scan>>

\* The result goes back to the client.
SendBack ==
    /\ pc \in Refusals \cup Answers /\ pc' = "idle" /\ i' = 1
    /\ tool' = QueryLogs /\ start' = Bad /\ end' = Bad
    /\ ts' = 0 /\ scanned' = 0 /\ count' = 0
    /\ UNCHANGED entries

QueryNext == Ask \/ Skip \/ DefaultDeny \/ Match \/ Serve \/ Line \/ EndLines \/ SendBack

QuerySpec == QueryInit /\ [][QueryNext]_queryVars

-----------------------------------------------------------------------------
\* Properties.

\* The entry that decides: the first for the tool.
Deciding(k) ==
    /\ k \in 1 .. Len(entries) /\ entries[k].tool = tool
    /\ \A j \in 1 .. k - 1 : entries[j].tool # tool

\* What the policy says, without the way evaluate takes: some entry decides,
\* and it has no limit, or the time range can be judged and is within it.
Granted ==
    \E k \in 1 .. Len(entries) :
        /\ Deciding(k)
        /\ \/ entries[k].limit = NoLimit
           \/ entries[k].limit \in Nat /\ Comparable /\ Span \in 0 .. entries[k].limit

\* The range can be judged, but not compared with the deciding limit.
NotANumber ==
    /\ Comparable /\ Span >= 0
    /\ \E k \in 1 .. Len(entries) : Deciding(k) /\ entries[k].limit = NoNumber

\* Default deny, and nothing else: a call is passed on if and only if it is
\* granted, whatever its arguments look like, and is denied only if it is not.
\* evaluate raises in one case: the deciding limit is no number and the range
\* could be judged.  Such a call does not pass either.
FailClosed ==
    /\ pc \in {"relayed", "lines"} \cup Answers => Granted
    /\ pc = "denied" => ~Granted
    /\ pc = "raised" => NotANumber

\* What policy.py:13-16 and 78 say of evaluate: whatever its input, it returns a
\* decision and never raises.
AlwaysDecides == pc # "raised"

\* The limit the policy puts on the range bounds what the server, which has
\* none, returns: at most one line more than the hours allowed, none of them a
\* full hour before the start or after the end, on whatever clocks the range
\* was written.
LimitReachesServer ==
    (pc \in {"lines", "answered"} /\ tool = QueryLogs) =>
        /\ \A k \in 1 .. Len(entries) :
             Deciding(k) /\ entries[k].limit # NoLimit
               => (count - 1) * Hour < entries[k].limit + Hour
        /\ scanned > 0 => ts - Hour <= UTC(end)
        /\ scanned = 1 => ts > UTC(start)

\* The two agree about time: what passed a limit, the server does not reject.
PassedIsServed ==
    \A k \in 1 .. Len(entries) :
        Deciding(k) /\ entries[k].limit # NoLimit /\ tool = QueryLogs
          => pc # "tool_error"

=============================================================================
