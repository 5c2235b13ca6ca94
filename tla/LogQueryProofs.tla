--------------------------- MODULE LogQueryProofs ---------------------------
(***************************************************************************)
(* Proofs about LogQuery, for hours of any number of ticks, any policies,  *)
(* clock times and offsets.                                                *)
(***************************************************************************)
EXTENDS LogQuery, TLAPS

\* Cutting off the minutes goes back by less than an hour.
LEMMA CutOff ==
    ASSUME NEW w \in Int, NEW h \in Nat \ {0}
    PROVE  /\ w \div h \in Int
           /\ (w \div h) * h <= w /\ w < (w \div h) * h + h
OBVIOUS

\* Multiples of an hour are ordered like their factors.
LEMMA Multiples ==
    ASSUME NEW m \in Int, NEW n \in Int, m <= n, NEW h \in Nat
    PROVE  m * h <= n * h /\ (n + 1) * h = n * h + h
OBVIOUS

-----------------------------------------------------------------------------
\* Types, with what arithmetic needs to know of the time arguments.
LEMMA TimeTypes ==
    ASSUME NEW x \in Times
    PROVE  x.wall \in Int /\ x.offset \in Int /\ UTC(x) \in Int
<1> SUFFICES x.wall \in Int /\ x.offset \in Int
  BY DEF UTC
<1>1. CASE x = Bad
  BY <1>1 DEF Bad
<1>2. CASE x \in Naive
  <2>1. x.wall \in Walls /\ x.offset \in {0}
    BY <1>2 DEF Naive
  <2>2. x.wall \in Int
    BY <2>1, LogQueryAssumption
  <2>3. x.offset \in Int
    BY <2>1
  <2>4. QED
    BY <2>2, <2>3
<1>3. CASE x \in Aware
  BY <1>3, LogQueryAssumption DEF Aware
<1>4. QED
  BY <1>1, <1>2, <1>3 DEF Times

LEMMA EntryTypes ==
    ASSUME entries \in Policies, NEW k \in 1 .. Len(entries)
    PROVE  /\ Len(entries) \in Nat /\ entries[k].tool \in Tools
           /\ entries[k].limit \in Nat \cup {NoLimit, NoNumber}
<1>1. entries \in Seq(Entry)
  BY LogQueryAssumption
<1>2. Len(entries) \in Nat /\ entries[k] \in Entry
  BY <1>1
<1>3. QED
  BY <1>2 DEF Entry

LEMMA FirstHourIn ==
    ASSUME start \in Times
    PROVE  /\ FirstHour \in Int
           /\ FirstHour <= UTC(start) /\ UTC(start) < FirstHour + Hour
<1>1. start.wall \in Int /\ start.offset \in Int
  BY TimeTypes
<1>2. /\ start.wall \div Hour \in Int
      /\ (start.wall \div Hour) * Hour <= start.wall
      /\ start.wall < (start.wall \div Hour) * Hour + Hour
  BY <1>1, CutOff, LogQueryAssumption
<1> DEFINE cut == (start.wall \div Hour) * Hour
<1>3. cut \in Int /\ cut <= start.wall /\ start.wall < cut + Hour
  BY <1>2, LogQueryAssumption
<1>4. FirstHour = cut - start.offset /\ UTC(start) = start.wall - start.offset
  BY DEF FirstHour, UTC
<1> HIDE DEF cut
<1>5. QED
  BY <1>1, <1>3, <1>4, LogQueryAssumption

LEMMA VerdictMeans ==
    ASSUME QueryTypes, NEW k \in 1 .. Len(entries), Deciding(k)
    PROVE  /\ Verdict(entries[k].limit) \in {"relayed", "denied", "raised"}
           /\ Verdict(entries[k].limit) = "relayed" <=> Granted
           /\ Verdict(entries[k].limit) = "raised" => NotANumber
<1>1. \A j \in 1 .. Len(entries) : Deciding(j) => j = k
  BY EntryTypes DEF QueryTypes, Deciding
<1>2. Granted <=> \/ entries[k].limit = NoLimit
                  \/ entries[k].limit \in Nat /\ Comparable
                     /\ Span \in 0 .. entries[k].limit
  BY <1>1 DEF Granted
<1>3. entries[k].limit \in Nat \cup {NoLimit, NoNumber} /\ Span \in Int
  BY EntryTypes, TimeTypes DEF QueryTypes, Span
<1>4. Verdict(entries[k].limit) = "raised" => NotANumber
  BY <1>3 DEF Verdict, NotANumber
<1>5. QED
  BY <1>2, <1>3, <1>4 DEF Verdict, NoLimit, NoNumber

-----------------------------------------------------------------------------
\* The loop over the hours, and how it started.
Scanning ==
    /\ start # Bad /\ end # Bad /\ UTC(start) <= UTC(end)
    /\ ts = FirstHour + scanned * Hour
    /\ scanned > 0 => ts - Hour <= UTC(end)

IInv ==
    /\ QueryTypes
    /\ pc = "policy" => \A j \in 1 .. i - 1 : entries[j].tool # tool
    /\ FailClosed
    /\ pc = "lines" => tool = QueryLogs
    /\ (pc \in {"lines", "answered"} /\ tool = QueryLogs) => Scanning
    /\ (pc = "tool_error" /\ tool = QueryLogs) =>
         start = Bad \/ end = Bad \/ UTC(end) < UTC(start)

LEMMA InitInv == QueryInit => IInv
BY LogQueryAssumption
   DEF QueryInit, IInv, QueryTypes, Tools, Times, FailClosed, Refusals, Answers

LEMMA StepInv == IInv /\ [QueryNext]_queryVars => IInv'
<1> SUFFICES ASSUME IInv, [QueryNext]_queryVars PROVE IInv'
  OBVIOUS
<1> USE LogQueryAssumption
<1>1. QueryTypes /\ Len(entries) \in Nat
  BY DEF IInv, QueryTypes
<1>2. CASE Ask
  BY <1>1, <1>2 DEF Ask, IInv, QueryTypes, FailClosed, Refusals, Answers, scan
<1>3. CASE Skip
  BY <1>1, <1>3 DEF Skip, IInv, QueryTypes, FailClosed, Refusals, Answers, scan, request
<1>4. ASSUME UNCHANGED <<entries, request>>
      PROVE  /\ Granted' = Granted /\ NotANumber' = NotANumber
             /\ FirstHour' = FirstHour
             /\ UTC(start)' = UTC(start) /\ UTC(end)' = UTC(end)
  BY <1>4 DEF request, Granted, NotANumber, Deciding, Comparable, Span, UTC, FirstHour
<1>5. CASE DefaultDeny
  <2>1. ~Granted
    BY <1>1, <1>5 DEF DefaultDeny, IInv, QueryTypes, Granted, Deciding
  <2>2. ~Granted'
    BY <1>4, <1>5, <2>1 DEF DefaultDeny
  <2>3. QED
    BY <1>1, <1>5, <2>2
       DEF DefaultDeny, IInv, QueryTypes, FailClosed, Refusals, Answers, scan, request
<1>6. CASE Match
  <2>1. i \in 1 .. Len(entries) /\ Deciding(i)
    BY <1>1, <1>6 DEF Match, IInv, QueryTypes, Deciding
  <2>2. /\ pc' \in {"relayed", "denied", "raised"}
        /\ pc' = "relayed" <=> Granted'
        /\ pc' = "raised" => NotANumber'
    BY <1>1, <1>4, <1>6, <2>1, VerdictMeans DEF Match
  <2>3. QED
    BY <1>1, <1>6, <2>2
       DEF Match, IInv, QueryTypes, FailClosed, Refusals, Answers, scan, request
<1>7. CASE Serve
  <2>1. Granted'
    BY <1>4, <1>7 DEF Serve, IInv, FailClosed
  <2>2. FirstHour \in Int /\ UTC(start) \in Int /\ UTC(end) \in Int
    BY <1>1, FirstHourIn, TimeTypes DEF QueryTypes
  <2>3. CASE tool # QueryLogs /\ pc' \in Answers /\ UNCHANGED scan
    BY <1>1, <1>7, <2>1, <2>3
       DEF Serve, IInv, QueryTypes, FailClosed, Refusals, Answers, scan, request
  <2>4. CASE /\ start = Bad \/ end = Bad \/ UTC(end) < UTC(start)
             /\ pc' = "tool_error" /\ UNCHANGED scan
    BY <1>1, <1>4, <1>7, <2>1, <2>4
       DEF Serve, IInv, QueryTypes, FailClosed, Refusals, Answers, scan, request
  <2>5. CASE /\ tool = QueryLogs /\ start # Bad /\ end # Bad
             /\ UTC(end) >= UTC(start) /\ pc' = "lines"
             /\ ts' = FirstHour /\ scanned' = 0 /\ count' = 0
    <3>1. Scanning'
      BY <1>4, <1>7, <2>2, <2>5 DEF Serve, Scanning, request
    <3>2. QueryTypes'
      BY <1>1, <1>7, <2>2, <2>5 DEF Serve, QueryTypes, request
    <3>3. QED
      BY <1>7, <2>1, <2>5, <3>1, <3>2
         DEF Serve, IInv, FailClosed, Refusals, Answers, request
  <2>6. QED
    BY <1>7, <2>3, <2>4, <2>5 DEF Serve
<1>8. CASE Line
  <2>1. Scanning /\ tool = QueryLogs /\ Granted
    BY <1>8 DEF Line, IInv, FailClosed
  <2>2. FirstHour \in Int /\ UTC(end) \in Int /\ scanned \in Nat /\ ts \in Int
    BY <1>1, FirstHourIn, TimeTypes DEF QueryTypes
  <2>3. (scanned + 1) * Hour = scanned * Hour + Hour /\ scanned * Hour \in Int
    BY <2>2, Multiples
  <2>4. Scanning'
    BY <1>4, <1>8, <2>1, <2>2, <2>3 DEF Line, Scanning, request
  <2>5. QueryTypes'
    BY <1>1, <1>8 DEF Line, QueryTypes, request
  <2>6. QED
    BY <1>4, <1>8, <2>1, <2>4, <2>5
       DEF Line, IInv, FailClosed, Refusals, Answers, request
<1>9. CASE EndLines
  <2>1. Scanning' /\ Granted'
    BY <1>4, <1>9 DEF EndLines, IInv, FailClosed, Scanning, scan, request
  <2>2. QED
    BY <1>1, <1>9, <2>1
       DEF EndLines, IInv, QueryTypes, FailClosed, Refusals, Answers, scan, request
<1>10. CASE SendBack
  BY <1>1, <1>10
     DEF SendBack, IInv, QueryTypes, Tools, Times, FailClosed, Refusals, Answers
<1>11. CASE UNCHANGED queryVars
  <2>1. Granted' = Granted /\ NotANumber' = NotANumber
        /\ Scanning' = Scanning /\ UTC(start)' = UTC(start)
        /\ UTC(end)' = UTC(end)
    BY <1>11 DEF queryVars, scan, request, Granted, NotANumber, Deciding, Comparable,
                 Span, UTC, Scanning, FirstHour
  <2>2. QED
    BY <1>1, <1>11, <2>1 DEF queryVars, scan, request, IInv, QueryTypes, FailClosed
<1>12. QED
  BY <1>2, <1>3, <1>5, <1>6, <1>7, <1>8, <1>9, <1>10, <1>11 DEF QueryNext

THEOREM Invariance == QuerySpec => []IInv
BY InitInv, StepInv, PTL DEF QuerySpec

-----------------------------------------------------------------------------
\* Every variable keeps its type.
THEOREM TypeCorrect == QuerySpec => []QueryTypes
BY Invariance, PTL DEF IInv

\* The search through the entries decides as the policy says, for any list of
\* entries and any arguments: what it passes on is granted, the rest refused.
THEOREM PolicyFailsClosed == QuerySpec => []FailClosed
BY Invariance, PTL DEF IInv

\* A limited range that was granted is one the server serves.
LEMMA LimitedSpan ==
    ASSUME QueryTypes, Granted, NEW k \in 1 .. Len(entries), Deciding(k),
           entries[k].limit # NoLimit
    PROVE  /\ entries[k].limit \in Nat /\ start # Bad /\ end # Bad
           /\ 0 <= Span /\ Span <= entries[k].limit
<1>1. PICK j \in 1 .. Len(entries) :
        /\ Deciding(j)
        /\ \/ entries[j].limit = NoLimit
           \/ entries[j].limit \in Nat /\ Comparable /\ Span \in 0 .. entries[j].limit
  BY DEF Granted
<1>2. j = k
  BY <1>1, EntryTypes DEF QueryTypes, Deciding
<1>3. QED
  BY <1>1, <1>2 DEF Comparable, Bad

\* The limit of the policy bounds the lines of the server, for hours of any
\* number of ticks and whatever clocks the range was written on.
THEOREM LimitHolds == QuerySpec => []LimitReachesServer
<1>1. IInv => LimitReachesServer
  <2> SUFFICES ASSUME IInv, pc \in {"lines", "answered"}, tool = QueryLogs
               PROVE  /\ \A k \in 1 .. Len(entries) :
                           Deciding(k) /\ entries[k].limit # NoLimit
                             => (count - 1) * Hour < entries[k].limit + Hour
                      /\ scanned > 0 => ts - Hour <= UTC(end)
                      /\ scanned = 1 => ts > UTC(start)
    BY DEF LimitReachesServer
  <2> USE LogQueryAssumption
  <2>1. QueryTypes /\ Granted /\ Scanning
    BY DEF IInv, FailClosed, Answers
  <2>2. /\ FirstHour \in Int /\ UTC(start) \in Int /\ UTC(end) \in Int
        /\ FirstHour <= UTC(start) /\ UTC(start) < FirstHour + Hour
    BY <2>1, FirstHourIn, TimeTypes DEF QueryTypes
  <2>3. /\ scanned \in Nat /\ count \in Nat /\ count <= scanned /\ ts \in Int
        /\ Hour \in Nat
    BY <2>1 DEF QueryTypes
  <2>4. ASSUME NEW k \in 1 .. Len(entries), Deciding(k), entries[k].limit # NoLimit
        PROVE  (count - 1) * Hour < entries[k].limit + Hour
    <3>1. entries[k].limit \in Nat /\ UTC(end) - UTC(start) <= entries[k].limit
      BY <2>1, <2>4, LimitedSpan DEF Span
    <3>2. (count - 1) * Hour <= (scanned - 1) * Hour
      BY <2>3, Multiples
    <3>3. (scanned - 1) * Hour + Hour = scanned * Hour
      <4>1. scanned - 1 \in Int /\ (scanned - 1) + 1 = scanned
        BY <2>3
      <4>2. QED
        BY <2>3, <4>1, Multiples
    <3>4. scanned * Hour = ts - FirstHour
      BY <2>1, <2>2, <2>3 DEF Scanning
    <3>5. CASE scanned > 0
      <4>1. ts <= UTC(end) + Hour
        BY <2>1, <2>2, <2>3, <3>5 DEF Scanning
      <4>2. (scanned - 1) * Hour <= UTC(end) - FirstHour
        BY <2>2, <2>3, <3>3, <3>4, <4>1
      <4>3. UTC(end) - FirstHour < entries[k].limit + Hour
        BY <2>2, <2>3, <3>1
      <4>4. (count - 1) * Hour \in Int /\ (scanned - 1) * Hour \in Int
        BY <2>3
      <4>5. QED
        BY <3>1, <3>2, <4>2, <4>3, <4>4, <2>2, LogQueryAssumption
    <3>6. CASE scanned = 0
      <4>1. count = 0 /\ (count - 1) * Hour = 0 - Hour
        BY <2>3, <3>6
      <4>2. QED
        BY <2>3, <3>1, <4>1
    <3>7. QED
      BY <2>3, <3>5, <3>6
  <2>5. scanned = 1 => ts > UTC(start)
    BY <2>1, <2>2, <2>3 DEF Scanning
  <2>6. QED
    BY <2>1, <2>4, <2>5 DEF Scanning
<1>2. QED
  BY <1>1, Invariance, PTL

\* What passed a limit of the policy, the server does not reject: the two read
\* time stamps alike.
THEOREM AgreeOnTime == QuerySpec => []PassedIsServed
<1>1. IInv => PassedIsServed
  <2> SUFFICES ASSUME IInv, NEW k \in 1 .. Len(entries), Deciding(k),
                      entries[k].limit # NoLimit, tool = QueryLogs,
                      pc = "tool_error"
               PROVE  FALSE
    BY DEF PassedIsServed
  <2>1. QueryTypes /\ Granted
    BY DEF IInv, FailClosed, Answers
  <2>2. start # Bad /\ end # Bad /\ 0 <= UTC(end) - UTC(start)
    BY <2>1, LimitedSpan DEF Span
  <2>3. UTC(start) \in Int /\ UTC(end) \in Int
    BY <2>1, TimeTypes DEF QueryTypes
  <2>4. QED
    BY <2>2, <2>3 DEF IInv
<1>2. QED
  BY <1>1, Invariance, PTL

=============================================================================
