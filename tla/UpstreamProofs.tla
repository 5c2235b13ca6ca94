--------------------------- MODULE UpstreamProofs ---------------------------
(***************************************************************************)
(* Proofs about Upstream, for any number of requests, probes and           *)
(* connections.  Types and the lock hold under any cancellation.  That     *)
(* there is one connection, that calls watch the owner of their session    *)
(* and that nobody cuts somebody else's session is proved without          *)
(* cancelled tasks: a cancelled connect breaks the last two, as the run    *)
(* UpstreamHang shows for what follows from the second.  So are, on top of *)
(* the same invariant, what an unavailable answer and a second execution   *)
(* mean, and that close leaves nothing behind.  What Backend.call promises *)
(* its callers (RemoteCall) holds again under any cancellation.            *)
(***************************************************************************)
EXTENDS Upstream, TLAPS

PCs  == {"idle", "lock", "tear", "conn", "race"}
Busy == {"lock", "tear", "conn"}

InQ(q, t) == \E i \in DOMAIN q : q[i] = t

\* LockCoherent, but for the recorded task, of a queue q and pcs p.
QueueOK(q, p) ==
    /\ \A i, j \in DOMAIN q : q[i] = q[j] => i = j
    /\ \A t \in Tasks :
          /\ InQ(q, t) <=> p[t] \in Busy
          /\ p[t] \in {"tear", "conn"} => q # <<>> /\ Head(q) = t

\* The holder of the lock leaves: the next waiter becomes the holder.
LEMMA QueuePass ==
    ASSUME NEW q \in Seq(Tasks), NEW p \in [Tasks -> PCs], QueueOK(q, p),
           q # <<>>, NEW x \in PCs \ Busy
    PROVE  /\ Tail(q) \in Seq(Tasks)
           /\ QueueOK(Tail(q), [p EXCEPT ![Head(q)] = x])
<1> DEFINE h == Head(q)
           r == Tail(q)
           pp == [p EXCEPT ![h] = x]
<1>1. /\ r \in Seq(Tasks) /\ Len(r) = Len(q) - 1 /\ Len(q) \in Nat \ {0}
      /\ \A i \in 1 .. Len(r) : r[i] = q[i + 1]
      /\ h = q[1] /\ h \in Tasks
  OBVIOUS
<1> HIDE DEF r, h
<1>2. \A i, j \in DOMAIN r : r[i] = r[j] => i = j
  <2> SUFFICES ASSUME NEW i \in DOMAIN r, NEW j \in DOMAIN r, r[i] = r[j]
               PROVE  i = j
    OBVIOUS
  <2>1. /\ i \in 1 .. Len(r) /\ j \in 1 .. Len(r) /\ q[i + 1] = q[j + 1]
        /\ i + 1 \in DOMAIN q /\ j + 1 \in DOMAIN q
    BY <1>1
  <2>2. i + 1 = j + 1
    BY <2>1 DEF QueueOK
  <2>3. QED
    BY <2>1, <2>2
<1>3. ASSUME NEW t \in Tasks PROVE InQ(r, t) <=> (InQ(q, t) /\ t # h)
  <2>1. ASSUME InQ(r, t) PROVE InQ(q, t) /\ t # h
    <3>1. PICK i \in 1 .. Len(r) : r[i] = t
      BY <1>1, <2>1 DEF InQ
    <3>2. i + 1 \in DOMAIN q /\ q[i + 1] = t /\ 1 \in DOMAIN q /\ i + 1 # 1
      BY <1>1, <3>1
    <3>3. QED
      BY <1>1, <3>2 DEF InQ, QueueOK
  <2>2. ASSUME InQ(q, t), t # h PROVE InQ(r, t)
    <3>1. PICK i \in DOMAIN q : q[i] = t
      BY <2>2 DEF InQ
    <3>2. i # 1 /\ i \in 1 .. Len(q)
      BY <1>1, <2>2, <3>1
    <3>3. i - 1 \in 1 .. Len(r) /\ r[i - 1] = t
      BY <1>1, <3>1, <3>2
    <3>4. QED
      BY <1>1, <3>3 DEF InQ
  <2>3. QED
    BY <2>1, <2>2
<1>4. ASSUME NEW t \in Tasks
      PROVE  /\ InQ(r, t) <=> pp[t] \in Busy
             /\ pp[t] \notin {"tear", "conn"}
  <2>1. CASE t = h
    <3>1. pp[t] = x
      BY <2>1
    <3>2. QED
      BY <1>3, <2>1, <3>1 DEF Busy
  <2>2. CASE t # h
    <3>1. pp[t] = p[t]
      BY <2>2
    <3>2. p[t] \notin {"tear", "conn"}
      BY <2>2 DEF QueueOK, h
    <3>3. QED
      BY <1>3, <2>2, <3>1, <3>2 DEF QueueOK
  <2>3. QED
    BY <2>1, <2>2
<1>5. QED
  BY <1>1, <1>2, <1>4 DEF QueueOK, r, h

\* A task that is not in the queue joins at its end.
LEMMA QueueJoin ==
    ASSUME NEW q \in Seq(Tasks), NEW p \in [Tasks -> PCs], QueueOK(q, p),
           NEW t \in Tasks, p[t] \notin Busy
    PROVE  /\ Append(q, t) \in Seq(Tasks)
           /\ QueueOK(Append(q, t), [p EXCEPT ![t] = "lock"])
<1> DEFINE r == Append(q, t)
           pp == [p EXCEPT ![t] = "lock"]
<1>1. /\ r \in Seq(Tasks) /\ Len(r) = Len(q) + 1 /\ Len(q) \in Nat
      /\ \A i \in 1 .. Len(q) : r[i] = q[i]
      /\ r[Len(q) + 1] = t
      /\ DOMAIN q = 1 .. Len(q) /\ DOMAIN r = 1 .. Len(q) + 1
      /\ q # <<>> => r # <<>> /\ Head(r) = Head(q)
  OBVIOUS
<1>2. ~InQ(q, t)
  BY DEF QueueOK
<1> HIDE DEF r
<1>3. \A i, j \in DOMAIN r : r[i] = r[j] => i = j
  <2> SUFFICES ASSUME NEW i \in DOMAIN r, NEW j \in DOMAIN r, r[i] = r[j]
               PROVE  i = j
    OBVIOUS
  <2>1. CASE i \in DOMAIN q /\ j \in DOMAIN q
    BY <1>1, <2>1 DEF QueueOK
  <2>2. CASE i \notin DOMAIN q \/ j \notin DOMAIN q
    BY <1>1, <1>2, <2>2 DEF InQ
  <2>3. QED
    BY <2>1, <2>2
<1>4. ASSUME NEW u \in Tasks PROVE InQ(r, u) <=> (InQ(q, u) \/ u = t)
  BY <1>1 DEF InQ
<1>5. ASSUME NEW u \in Tasks
      PROVE  /\ InQ(r, u) <=> pp[u] \in Busy
             /\ pp[u] \in {"tear", "conn"} => r # <<>> /\ Head(r) = u
  BY <1>1, <1>4 DEF QueueOK, Busy
<1>6. QED
  BY <1>1, <1>3, <1>5 DEF QueueOK, r

\* A cancelled task leaves its place in the queue.
LEMMA QueueLeave ==
    ASSUME lockQ \in Seq(Tasks), pc \in [Tasks -> PCs], QueueOK(lockQ, pc),
           NEW t \in Tasks, pc[t] \in Busy, NEW x \in PCs \ Busy
    PROVE  /\ Without(t) \in Seq(Tasks)
           /\ QueueOK(Without(t), [pc EXCEPT ![t] = x])
<1> DEFINE q == lockQ
           n == Len(q)
           p == CHOOSE i \in DOMAIN q : q[i] = t
           r == Without(t)
           pp == [pc EXCEPT ![t] = x]
<1>1. n \in Nat /\ DOMAIN q = 1 .. n /\ \A i \in 1 .. n : q[i] \in Tasks
  OBVIOUS
<1>2. p \in 1 .. n /\ q[p] = t
  <2>1. InQ(q, t)
    BY DEF QueueOK
  <2>2. QED
    BY <1>1, <2>1 DEF InQ
<1>3. r = [i \in 1 .. n - 1 |-> q[IF i < p THEN i ELSE i + 1]]
  BY DEF Without
<1> HIDE DEF p, r, n
<1>4. r \in Seq(Tasks) /\ DOMAIN r = 1 .. n - 1 /\ Len(r) = n - 1
  <2>1. \A i \in 1 .. n - 1 : q[IF i < p THEN i ELSE i + 1] \in Tasks
    BY <1>1, <1>2
  <2>2. n - 1 \in Nat
    BY <1>1, <1>2
  <2>3. QED
    BY <1>3, <2>1, <2>2
<1>5. \A i, j \in DOMAIN r : r[i] = r[j] => i = j
  <2> SUFFICES ASSUME NEW i \in 1 .. n - 1, NEW j \in 1 .. n - 1, r[i] = r[j]
               PROVE  i = j
    BY <1>4
  <2> DEFINE f(k) == IF k < p THEN k ELSE k + 1
  <2>1. q[f(i)] = q[f(j)] /\ f(i) \in DOMAIN q /\ f(j) \in DOMAIN q
    BY <1>1, <1>2, <1>3
  <2>2. f(i) = f(j)
    BY <2>1 DEF QueueOK
  <2>3. QED
    BY <1>1, <1>2, <2>2
<1>6. ASSUME NEW u \in Tasks PROVE InQ(r, u) <=> (InQ(q, u) /\ u # t)
  <2>1. ASSUME InQ(r, u) PROVE InQ(q, u) /\ u # t
    <3>1. PICK i \in 1 .. n - 1 : r[i] = u
      BY <1>4, <2>1 DEF InQ
    <3> DEFINE f == IF i < p THEN i ELSE i + 1
    <3>2. f \in 1 .. n /\ f # p /\ q[f] = u
      BY <1>1, <1>2, <1>3, <3>1
    <3> HIDE DEF f
    <3>3. QED
      BY <1>1, <1>2, <3>2 DEF InQ, QueueOK
  <2>2. ASSUME InQ(q, u), u # t PROVE InQ(r, u)
    <3>1. PICK i \in 1 .. n : q[i] = u
      BY <1>1, <2>2 DEF InQ
    <3>2. i # p
      BY <1>2, <2>2, <3>1
    <3> DEFINE g == IF i < p THEN i ELSE i - 1
    <3>3. g \in 1 .. n - 1 /\ r[g] = u
      BY <1>1, <1>2, <1>3, <3>1, <3>2
    <3> HIDE DEF g
    <3>4. QED
      BY <1>4, <3>3 DEF InQ
  <2>3. QED
    BY <2>1, <2>2
<1>7. ASSUME NEW u \in Tasks, u # t, q # <<>>, Head(q) = u
      PROVE  r # <<>> /\ Head(r) = u
  <2>1. q[1] = u /\ p # 1 /\ 1 < p
    BY <1>1, <1>2, <1>7
  <2>2. 1 \in 1 .. n - 1 /\ r[1] = u
    BY <1>1, <1>2, <1>3, <2>1
  <2>3. QED
    BY <1>4, <2>2
<1>8. ASSUME NEW u \in Tasks
      PROVE  /\ InQ(r, u) <=> pp[u] \in Busy
             /\ pp[u] \in {"tear", "conn"} => r # <<>> /\ Head(r) = u
  <2>1. CASE u = t
    BY <1>6, <2>1 DEF Busy
  <2>2. CASE u # t
    BY <1>6, <1>7, <2>2 DEF QueueOK
  <2>3. QED
    BY <2>1, <2>2
<1>9. QED
  BY <1>4, <1>5, <1>8 DEF QueueOK, r

-----------------------------------------------------------------------------
\* Under way in an attempt: not in the last stage, and a connecting task knows
\* the connection it started.
StageOK ==
    \A t \in Tasks :
        /\ pc[t] \in {"conn", "race"} => stage[t] < 3
        /\ pc[t] = "conn" => own[t] \in Conns

LockInv == TypeOK /\ LockCoherent /\ StageOK

LEMMA LockIsQueue ==
    TypeOK => (LockCoherent <=> /\ QueueOK(lockQ, pc)
                                /\ \A t \in Tasks : pc[t] = "tear" => task # None)
  BY DEF TypeOK, LockCoherent, QueueOK, InQ, Busy, Holds

\* The part of the state a task leaves with Finish or Fails, and its types.
LocalOK ==
    /\ lockQ \in Seq(Tasks)
    /\ pc \in [Tasks -> PCs]
    /\ stage \in [Tasks -> 1 .. 3]
    /\ sess \in [Tasks -> Conns \cup {None}] /\ own \in [Tasks -> Conns \cup {None}]
    /\ rpc \in [Tasks -> {"none", "wait", "ok", "err"}]
    /\ outcome \in [Tasks -> {"none", "ok", "unavail", "failed", "cancelled", "closed"}]
    /\ QueueOK(lockQ, pc) /\ StageOK

\* Whatever leaves or finishes an attempt is given a queue without t.
LEMMA FinishLocal ==
    ASSUME LockInv, NEW t \in Tasks, NEW q \in Seq(Tasks),
           NEW r \in {"ok", "unavail", "failed", "cancelled", "closed"},
           QueueOK(q, [pc EXCEPT ![t] = "idle"]), Finish(t, q, r)
    PROVE  LocalOK'
  BY DEF LockInv, TypeOK, LocalOK, StageOK, Finish, PCs

LEMMA FailsLocal ==
    ASSUME LockInv, NEW t \in Tasks, NEW q \in Seq(Tasks), stage[t] < 3,
           QueueOK(q, [pc EXCEPT ![t] = "idle"]), Fails(t, q)
    PROVE  LocalOK'
<1>1. CASE t \in Probers
  BY <1>1, FinishLocal DEF Fails
<1>2. CASE t \notin Probers
  <2> DEFINE p == [pc EXCEPT ![t] = "idle"]
  <2>1. p \in [Tasks -> PCs] /\ p[t] \notin Busy
    BY DEF LockInv, TypeOK, PCs, Busy
  <2>2. Append(q, t) \in Seq(Tasks) /\ QueueOK(Append(q, t), [p EXCEPT ![t] = "lock"])
    BY <2>1, QueueJoin
  <2>3. [p EXCEPT ![t] = "lock"] = [pc EXCEPT ![t] = "lock"]
    BY DEF LockInv, TypeOK
  <2>4. pc' = [pc EXCEPT ![t] = "lock"] /\ lockQ' = Append(q, t)
    BY <1>2 DEF Fails
  <2>5. QueueOK(lockQ, pc)'
    BY <2>2, <2>3, <2>4 DEF QueueOK, InQ
  <2>6. QED
    BY <1>2, <2>2, <2>4, <2>5 DEF Fails, LockInv, TypeOK, LocalOK, StageOK, PCs
<1>3. QED
  BY <1>1, <1>2

LEMMA AttemptLocal ==
    ASSUME LockInv, NEW t \in Tasks, NEW q \in Seq(Tasks), stage[t] < 3,
           NEW s \in Conns \cup {None}, NEW o \in Conns \cup {None},
           QueueOK(q, [pc EXCEPT ![t] = "idle"]), 
           QueueOK(q, [pc EXCEPT ![t] = "race"]), Attempt(t, q, s, o)
    PROVE  LocalOK' /\ req' \in [Callers -> [1 .. 2 -> {"none", "sent", "run"}]]
<1>1. req' \in [Callers -> [1 .. 2 -> {"none", "sent", "run"}]]
  BY DEF Attempt, LockInv, TypeOK
<1>2. CASE s # None /\ (o # None \/ t \in Probers)
  <2>1. pc' = [pc EXCEPT ![t] = "race"] /\ lockQ' = q
    BY <1>2 DEF Attempt
  <2>2. QueueOK(lockQ, pc)'
    BY <2>1 DEF QueueOK, InQ
  <2>3. StageOK'
    BY <1>2, <2>1 DEF Attempt, LockInv, TypeOK, StageOK
  <2>4. pc' \in [Tasks -> PCs]
    BY <2>1 DEF LockInv, TypeOK, PCs
  <2>5. /\ stage' \in [Tasks -> 1 .. 3]
        /\ sess' \in [Tasks -> Conns \cup {None}]
        /\ own' \in [Tasks -> Conns \cup {None}]
        /\ rpc' \in [Tasks -> {"none", "wait", "ok", "err"}]
        /\ outcome' = outcome
    <3>1. /\ stage' = stage /\ outcome' = outcome
          /\ sess' = [sess EXCEPT ![t] = s] /\ rpc' = [rpc EXCEPT ![t] = "wait"]
          /\ own' = [own EXCEPT ![t] = IF t \in Callers THEN o ELSE None]
      BY <1>2 DEF Attempt
    <3>2. QED
      BY <3>1 DEF LockInv, TypeOK
  <2>6. QED
    BY <1>1, <2>1, <2>2, <2>3, <2>4, <2>5 DEF LockInv, TypeOK, LocalOK
<1>3. CASE ~(s # None /\ (o # None \/ t \in Probers))
  BY <1>1, <1>3, FailsLocal DEF Attempt
<1>4. QED
  BY <1>2, <1>3

-----------------------------------------------------------------------------
\* The types of what is not local to a task, and the task a teardown awaits.
SharedOK ==
    /\ session \in Conns \cup {None} /\ task \in Conns \cup {None}
    /\ tools \in BOOLEAN /\ up \in BOOLEAN
    /\ conn \in [Conns -> {"opening", "open", "closing", "done"}]
    /\ stop \subseteq Conns /\ stale \subseteq Conns
    /\ ready \in [Tasks -> {"none", "pending", "ok", "err"}]
    /\ req \in [Callers -> [1 .. 2 -> {"none", "sent", "run"}]]
    /\ timedOut \subseteq Probers /\ sawDown \in [Callers -> BOOLEAN]
    /\ cut \in [Callers -> BOOLEAN]

TearOK == \A t \in Tasks : pc[t] = "tear" => task # None

LEMMA LockInvParts == LockInv <=> LocalOK /\ SharedOK /\ TearOK
  BY LockIsQueue DEF LockInv, TypeOK, LocalOK, SharedOK, TearOK, PCs

LEMMA LockInvPartsNext == LocalOK' /\ SharedOK' /\ TearOK' => LockInv'
  BY LockInvParts, PTL

LEMMA ConnsAreNotNone == None \notin Conns /\ Conns \subseteq Nat
  BY UpstreamAssumption DEF None, Conns

\* The queue a lock holder leaves behind, a queue the task is not in, and the
\* queue of a holder that stays.
LEMMA HolderLeaves ==
    ASSUME LockInv, NEW t \in Tasks, Holds(t), NEW x \in {"idle", "race"}
    PROVE  Tail(lockQ) \in Seq(Tasks) /\ QueueOK(Tail(lockQ), [pc EXCEPT ![t] = x])
<1>1. lockQ \in Seq(Tasks) /\ pc \in [Tasks -> PCs] /\ QueueOK(lockQ, pc)
  BY LockInvParts DEF LocalOK
<1>2. lockQ # <<>> /\ Head(lockQ) = t /\ x \in PCs \ Busy
  BY DEF Holds, PCs, Busy
<1>3. QED
  BY <1>1, <1>2, QueuePass

LEMMA OutsiderStays ==
    ASSUME LockInv, NEW t \in Tasks, pc[t] \notin Busy, NEW x \in {"idle", "race"}
    PROVE  QueueOK(lockQ, [pc EXCEPT ![t] = x])
  BY LockInvParts DEF LocalOK, QueueOK, PCs, Busy

LEMMA HolderStays ==
    ASSUME LockInv, NEW t \in Tasks, Holds(t), pc[t] \in Busy, NEW x \in {"tear", "conn"}
    PROVE  QueueOK(lockQ, [pc EXCEPT ![t] = x])
<1>1. QueueOK(lockQ, pc) /\ pc \in [Tasks -> PCs]
  BY LockInvParts DEF LocalOK
<1>2. QED
  BY <1>1 DEF QueueOK, Busy, Holds

\* The holder is alone in tearing down or connecting.
LEMMA HolderIsAlone ==
    ASSUME LockInv, NEW t \in Tasks, Holds(t), NEW u \in Tasks,
           pc[u] \in {"tear", "conn"}
    PROVE  u = t
  BY DEF LockInv, LockCoherent, Holds

LEMMA BusyHolds ==
    ASSUME LockInv, NEW t \in Tasks, pc[t] \in {"tear", "conn"}
    PROVE  Holds(t)
  BY DEF LockInv, LockCoherent

-----------------------------------------------------------------------------
\* Every step of a task keeps the types and the lock, cancelled or not.
LEMMA StartLock ==
    ASSUME LockInv, NEW t \in Tasks, Start(t)
    PROVE  LockInv'
<1>1. pc[t] \notin Busy /\ pc \in [Tasks -> PCs] /\ lockQ \in Seq(Tasks)
      /\ QueueOK(lockQ, pc)
  BY LockInvParts DEF Start, Busy, LocalOK
<1>2. pc' = [pc EXCEPT ![t] = "lock"] /\ lockQ' = Append(lockQ, t)
  BY DEF Start
<1>3. lockQ' \in Seq(Tasks) /\ QueueOK(lockQ', pc')
  BY <1>1, <1>2, QueueJoin
<1>4. QueueOK(lockQ, pc)'
  BY <1>3 DEF QueueOK, InQ
<1>5. LocalOK'
  BY <1>1, <1>2, <1>3, <1>4, LockInvParts DEF Start, LocalOK, StageOK, PCs
<1>6. SharedOK'
  BY LockInvParts DEF Start, SharedOK, beVars, conVars
<1>7. TearOK'
  BY <1>1, <1>2, LockInvParts DEF Start, TearOK, beVars
<1>8. QED
  BY <1>5, <1>6, <1>7, LockInvPartsNext

LEMMA UseSessionLock ==
    ASSUME LockInv, NEW t \in Tasks, UseSession(t)
    PROVE  LockInv'
<1>1. /\ Holds(t) /\ stage[t] < 3 /\ pc[t] = "lock"
      /\ Attempt(t, Tail(lockQ), session, task)
      /\ session \in Conns \cup {None} /\ task \in Conns \cup {None}
  BY LockInvParts DEF UseSession, SharedOK
<1>2. LocalOK' /\ req' \in [Callers -> [1 .. 2 -> {"none", "sent", "run"}]]
  BY <1>1, HolderLeaves, AttemptLocal
<1>3. SharedOK'
  BY <1>2, LockInvParts DEF UseSession, SharedOK, beVars, conVars
<1>4. TearOK'
  BY <1>1, LockInvParts DEF UseSession, TearOK, Attempt, Fails, Finish, beVars,
     LocalOK
<1>5. QED
  BY <1>2, <1>3, <1>4, LockInvPartsNext

LEMMA BeginTeardownLock ==
    ASSUME LockInv, NEW t \in Tasks, BeginTeardown(t)
    PROVE  LockInv'
<1>1. Holds(t) /\ pc[t] \in Busy /\ pc' = [pc EXCEPT ![t] = "tear"] /\ lockQ' = lockQ
      /\ task # None /\ task' = task
  BY DEF BeginTeardown, MustTearDown, Busy, beVars
<1>2. QueueOK(lockQ', pc')
  BY <1>1, HolderStays
<1>3. QueueOK(lockQ, pc)'
  BY <1>2 DEF QueueOK, InQ
<1>4. LocalOK'
  BY <1>1, <1>3, LockInvParts DEF BeginTeardown, LocalOK, StageOK, PCs, netVars
<1>5. SharedOK'
  BY <1>1, LockInvParts DEF BeginTeardown, SetStop, SharedOK, beVars, netVars
<1>6. TearOK'
  BY <1>1 DEF TearOK
<1>7. QED
  BY <1>4, <1>5, <1>6, LockInvPartsNext

LEMMA EndTeardownLock ==
    ASSUME LockInv, NEW t \in Tasks, EndTeardown(t)
    PROVE  LockInv'
<1>1. Holds(t) /\ pc[t] \in Busy
  BY BusyHolds DEF EndTeardown, MustTearDown, Busy
<1>2. TearOK'
  <2> SUFFICES ASSUME NEW u \in Tasks, pc'[u] = "tear" PROVE FALSE
    BY DEF TearOK
  <2>1. u # t
    BY <1>1, LockInvParts DEF EndTeardown, Connect, Finish, LocalOK
  <2>2. pc[u] = "tear"
    BY <2>1, LockInvParts DEF EndTeardown, Connect, Finish, LocalOK
  <2>3. QED
    BY <1>1, <2>1, <2>2, HolderIsAlone
<1>3. CASE stage[t] < 3
  <2>1. PICK k \in Conns :
           /\ conn' = [conn EXCEPT ![k] = "opening"]
           /\ own' = [own EXCEPT ![t] = k]
           /\ ready' = [ready EXCEPT ![t] = "pending"]
           /\ pc' = [pc EXCEPT ![t] = "conn"]
           /\ UNCHANGED <<lockQ, stage, sess, rpc, outcome>>
    BY <1>3 DEF EndTeardown, Connect, FreeConns
  <2>2. QueueOK(lockQ', pc')
    BY <1>1, <2>1, HolderStays
  <2>3. QueueOK(lockQ, pc)'
    BY <2>2 DEF QueueOK, InQ
  <2>4. LocalOK'
    BY <1>3, <2>1, <2>3, LockInvParts DEF LocalOK, StageOK, PCs
  <2>5. SharedOK'
    BY <2>1, LockInvParts DEF EndTeardown, SharedOK
  <2>6. QED
    BY <1>2, <2>4, <2>5, LockInvPartsNext
<1>4. CASE ~(stage[t] < 3)
  <2>1. /\ Finish(t, Tail(lockQ), IF t \in Closers THEN "closed" ELSE "unavail")
        /\ UNCHANGED <<conn, ready>>
    BY <1>4 DEF EndTeardown
  <2>2. LocalOK'
    BY <1>1, <2>1, HolderLeaves, FinishLocal
  <2>3. SharedOK'
    BY <2>1, LockInvParts DEF EndTeardown, SharedOK
  <2>4. QED
    BY <1>2, <2>2, <2>3, LockInvPartsNext
<1>5. QED
  BY <1>3, <1>4

LEMMA ConnectedLock ==
    ASSUME LockInv, NEW t \in Tasks, Connected(t)
    PROVE  LockInv'
<1>1. /\ Holds(t) /\ stage[t] < 3 /\ pc[t] = "conn" /\ own[t] \in Conns
      /\ Attempt(t, Tail(lockQ), session, own[t])
      /\ session \in Conns \cup {None}
  BY BusyHolds, LockInvParts DEF Connected, SharedOK, LocalOK, StageOK
<1>2. LocalOK' /\ req' \in [Callers -> [1 .. 2 -> {"none", "sent", "run"}]]
  BY <1>1, HolderLeaves, AttemptLocal
<1>3. SharedOK'
  BY <1>1, <1>2, LockInvParts DEF Connected, SharedOK, conVars
<1>4. TearOK'
  BY <1>1, ConnsAreNotNone DEF Connected, TearOK
<1>5. QED
  BY <1>2, <1>3, <1>4, LockInvPartsNext

LEMMA ConnectFailedLock ==
    ASSUME LockInv, NEW t \in Tasks, ConnectFailed(t)
    PROVE  LockInv'
<1>1. Holds(t) /\ stage[t] < 3 /\ pc[t] = "conn"
  BY BusyHolds, LockInvParts DEF ConnectFailed, LocalOK, StageOK
<1>2. LocalOK'
  BY <1>1, HolderLeaves, FailsLocal, FinishLocal DEF ConnectFailed
<1>3. SharedOK'
  BY LockInvParts DEF ConnectFailed, SharedOK, beVars, conVars
<1>4. TearOK'
  BY LockInvParts DEF ConnectFailed, TearOK, Fails, Finish, beVars, LocalOK
<1>5. QED
  BY <1>2, <1>3, <1>4, LockInvPartsNext

LEMMA RaceLock ==
    ASSUME LockInv, NEW t \in Tasks, RaceWon(t) \/ RaceLost(t) \/ CancelRacing(t)
    PROVE  LockInv'
<1>1. pc[t] = "race" /\ pc[t] \notin Busy /\ stage[t] < 3 /\ lockQ \in Seq(Tasks)
      /\ QueueOK(lockQ, [pc EXCEPT ![t] = "idle"])
  BY OutsiderStays, LockInvParts
     DEF RaceWon, RaceLost, CancelRacing, Busy, LocalOK, StageOK
<1>2. LocalOK'
  <2>1. CASE RaceWon(t)
    BY <1>1, <2>1, FinishLocal DEF RaceWon
  <2>2. CASE RaceLost(t)
    BY <1>1, <2>2, FailsLocal DEF RaceLost
  <2>3. CASE CancelRacing(t) /\ t \in Probers
    BY <1>1, <2>3, FinishLocal DEF CancelRacing, CancelResult
  <2>4. CASE CancelRacing(t) /\ t \notin Probers
    <3>1. /\ pc' = [pc EXCEPT ![t] = "idle"] /\ own' = [own EXCEPT ![t] = None]
          /\ outcome' = [outcome EXCEPT ![t] = "cancelled"]
          /\ UNCHANGED <<lockQ, stage, sess, rpc>>
      BY <2>4 DEF CancelRacing
    <3>2. QueueOK(lockQ, pc)'
      BY <1>1, <3>1 DEF QueueOK, InQ
    <3>3. QED
      BY <3>1, <3>2, LockInvParts DEF LocalOK, StageOK, PCs
  <2>5. QED
    BY <2>1, <2>2, <2>3, <2>4
<1>3. SharedOK' /\ task' = task
  BY LockInvParts DEF RaceWon, RaceLost, CancelRacing, SharedOK, beVars, conVars
<1>4. TearOK'
  BY <1>3, LockInvParts
     DEF RaceWon, RaceLost, CancelRacing, TearOK, Fails, Finish, LocalOK
<1>5. QED
  BY <1>2, <1>3, <1>4, LockInvPartsNext

LEMMA CancelLock ==
    ASSUME LockInv, NEW t \in Callers \cup Probers, Cancel(t)
    PROVE  LockInv'
<1>0. t \in Tasks
  BY DEF Tasks
<1>1. ASSUME CancelQueued(t) PROVE LockInv'
  <2>1. /\ lockQ \in Seq(Tasks) /\ pc \in [Tasks -> PCs] /\ QueueOK(lockQ, pc)
        /\ pc[t] \in Busy /\ "idle" \in PCs \ Busy
    BY <1>1, LockInvParts DEF CancelQueued, LocalOK, Busy, PCs
  <2>2. Without(t) \in Seq(Tasks) /\ QueueOK(Without(t), [pc EXCEPT ![t] = "idle"])
    BY <1>0, <2>1, QueueLeave
  <2>3. LocalOK'
    BY <1>0, <1>1, <2>2, FinishLocal DEF CancelQueued, CancelResult
  <2>4. SharedOK' /\ task' = task
    BY <1>1, LockInvParts DEF CancelQueued, SharedOK, beVars, conVars
  <2>5. TearOK'
    BY <1>0, <1>1, <2>4, LockInvParts DEF CancelQueued, TearOK, Finish, LocalOK
  <2>6. QED
    BY <2>3, <2>4, <2>5, LockInvPartsNext
<1>2. ASSUME CancelLostInTeardown(t) PROVE LockInv'
  <2>1. LocalOK'
    BY <1>2, LockInvParts DEF CancelLostInTeardown, LocalOK, StageOK, QueueOK, InQ,
       locVars, netVars
  <2>2. SharedOK'
    BY <1>2, LockInvParts DEF CancelLostInTeardown, SharedOK, beVars, netVars
  <2>3. TearOK'
    BY <1>2, LockInvParts DEF CancelLostInTeardown, TearOK, beVars, locVars
  <2>4. QED
    BY <2>1, <2>2, <2>3, LockInvPartsNext
<1>3. ASSUME CancelConnecting(t) PROVE LockInv'
  <2>1. Holds(t) /\ own[t] \in Conns
    BY <1>0, <1>3, BusyHolds, LockInvParts DEF CancelConnecting, LocalOK, StageOK
  <2>2. LocalOK'
    BY <1>0, <1>3, <2>1, HolderLeaves, FinishLocal DEF CancelConnecting, CancelResult
  <2>3. SharedOK' /\ task' = task
    BY <1>0, <1>3, <2>1, LockInvParts
       DEF CancelConnecting, SetStop, SharedOK, beVars
  <2>4. TearOK'
    BY <1>0, <1>3, <2>3, LockInvParts DEF CancelConnecting, TearOK, Finish, LocalOK
  <2>5. QED
    BY <2>2, <2>3, <2>4, LockInvPartsNext
<1>4. QED
  BY <1>0, <1>1, <1>2, <1>3, RaceLock DEF Cancel

\* Steps that leave the tasks where they are: those of the connections, of the
\* backend and of the transport.
Elsewhere ==
    UNCHANGED <<task, lockQ, pc, stage, sess, own, outcome, timedOut>>

LEMMA ElsewhereLock ==
    ASSUME LockInv, Elsewhere, SharedOK',
           rpc' \in [Tasks -> {"none", "wait", "ok", "err"}]
    PROVE  LockInv'
<1>1. LocalOK'
  BY LockInvParts DEF Elsewhere, LocalOK, StageOK, QueueOK, InQ
<1>2. TearOK'
  BY LockInvParts DEF Elsewhere, TearOK
<1>3. QED
  BY <1>1, <1>2, LockInvPartsNext

LEMMA ConnLock ==
    ASSUME LockInv, NEW k \in Conns, ConnStep(k)
    PROVE  LockInv' /\ Elsewhere
<1>1. Elsewhere /\ rpc' = rpc
  <2>1. CASE Publish(k)
    BY <2>1 DEF Publish, Elsewhere, locVars, netVars
  <2>2. CASE Unwind(k)
    BY <2>2 DEF Unwind, Elsewhere, locVars, netVars, beVars
  <2>3. CASE EndConnection(k)
    BY <2>3 DEF EndConnection, Elsewhere, locVars, netVars
  <2>4. QED
    BY <2>1, <2>2, <2>3 DEF ConnStep
<1>2. SharedOK'
  <2>1. CASE Publish(k)
    BY <2>1, LockInvParts DEF Publish, SharedOK, netVars
  <2>2. CASE Unwind(k)
    BY <2>2, LockInvParts DEF Unwind, SharedOK, netVars, beVars
  <2>3. CASE EndConnection(k)
    BY <2>3, LockInvParts DEF EndConnection, SharedOK, netVars
  <2>4. QED
    BY <2>1, <2>2, <2>3 DEF ConnStep
<1>3. QED
  BY <1>1, <1>2, ElsewhereLock, LockInvParts DEF LocalOK

LEMMA NetLock ==
    ASSUME LockInv,
           \/ \E t \in Tasks : NetStep(t) \/ Drop(t)
           \/ Crash \/ Restart
    PROVE  LockInv' /\ Elsewhere /\ UNCHANGED <<session, conn, ready>>
<1>1. ASSUME NEW t \in Tasks, Respond(t) \/ Reject(t) \/ Drop(t)
      PROVE  /\ SharedOK' /\ Elsewhere /\ UNCHANGED <<session, conn, ready>>
             /\ rpc' \in [Tasks -> {"none", "wait", "ok", "err"}]
  BY <1>1, LockInvParts DEF Respond, Reject, Drop, Elsewhere, SharedOK, LocalOK,
     beVars, conVars, locVars
<1>2. ASSUME NEW c \in Callers, NEW n \in 1 .. 2, Execute(c, n)
      PROVE  /\ SharedOK' /\ Elsewhere /\ UNCHANGED <<session, conn, ready>>
             /\ rpc' = rpc
  BY <1>2, LockInvParts DEF Execute, Elsewhere, SharedOK, LocalOK,
     beVars, conVars, locVars
<1>3. ASSUME Crash
      PROVE  /\ SharedOK' /\ Elsewhere /\ UNCHANGED <<session, conn, ready>>
             /\ rpc' = rpc
  <2>1. req' \in [Callers -> [1 .. 2 -> {"none", "sent", "run"}]]
    BY <1>3, LockInvParts DEF Crash, SharedOK
  <2>2. sawDown' \in [Callers -> BOOLEAN]
    BY <1>3, LockInvParts DEF Crash, SharedOK
  <2>3. QED
    BY <1>3, <2>1, <2>2, LockInvParts DEF Crash, Elsewhere, SharedOK, beVars, locVars
<1>4. ASSUME Restart
      PROVE  /\ SharedOK' /\ Elsewhere /\ UNCHANGED <<session, conn, ready>>
             /\ rpc' = rpc
  BY <1>4, LockInvParts DEF Restart, Elsewhere, SharedOK, beVars, conVars, locVars,
     netVars
<1>5. /\ SharedOK' /\ Elsewhere /\ UNCHANGED <<session, conn, ready>>
      /\ rpc' \in [Tasks -> {"none", "wait", "ok", "err"}]
  BY <1>1, <1>2, <1>3, <1>4, LockInvParts DEF NetStep, LocalOK
<1>6. QED
  BY <1>5, ElsewhereLock

-----------------------------------------------------------------------------
\* The invariant of the types and the lock survives every step.
LEMMA LockStep == LockInv /\ [Next]_vars => LockInv'
<1> SUFFICES ASSUME LockInv, [Next]_vars PROVE LockInv'
  OBVIOUS
<1>1. ASSUME NEW t \in Tasks, TaskStep(t) PROVE LockInv'
  BY <1>1, UseSessionLock, BeginTeardownLock, EndTeardownLock, ConnectedLock,
     ConnectFailedLock, RaceLock DEF TaskStep
<1>2. ASSUME NEW t \in Tasks, Start(t) PROVE LockInv'
  BY <1>2, StartLock
<1>3. ASSUME NEW t \in Cancellable, Cancel(t) PROVE LockInv'
  BY <1>3, CancelLock, UpstreamAssumption
<1>4. ASSUME NEW t \in Probers, CancelRacing(t) PROVE LockInv'
  BY <1>4, RaceLock DEF Tasks
<1>5. ASSUME NEW k \in Conns, ConnStep(k) PROVE LockInv'
  BY <1>5, ConnLock
<1>6. ASSUME \/ \E t \in Tasks : NetStep(t) \/ Drop(t)
             \/ Crash \/ Restart
      PROVE  LockInv'
  BY <1>6, NetLock
<1>7. ASSUME UNCHANGED vars PROVE LockInv'
  BY <1>7 DEF vars, LockInv, TypeOK, LockCoherent, Holds, StageOK
<1>8. QED
  BY <1>1, <1>2, <1>3, <1>4, <1>5, <1>6, <1>7 DEF Next

LEMMA InitLock == Init => LockInv
<1> SUFFICES ASSUME Init PROVE LockInv
  OBVIOUS
<1>1. lockQ \in Seq(Tasks) /\ DOMAIN lockQ = {} /\ pc = [t \in Tasks |-> "idle"]
  BY DEF Init
<1>2. LockCoherent /\ StageOK
  BY <1>1 DEF LockCoherent, StageOK
<1>3. TypeOK
  <2>1. req \in [Callers -> [1 .. 2 -> {"none", "sent", "run"}]]
    BY DEF Init
  <2>2. stage \in [Tasks -> 1 .. 3]
    BY DEF Init
  <2>3. /\ session \in Conns \cup {None} /\ task \in Conns \cup {None}
        /\ sess \in [Tasks -> Conns \cup {None}]
        /\ own \in [Tasks -> Conns \cup {None}]
    BY DEF Init
  <2>4. /\ tools \in BOOLEAN /\ up \in BOOLEAN
        /\ conn \in [Conns -> {"opening", "open", "closing", "done"}]
        /\ stop \subseteq Conns /\ stale \subseteq Conns
        /\ pc \in [Tasks -> {"idle", "lock", "tear", "conn", "race"}]
        /\ ready \in [Tasks -> {"none", "pending", "ok", "err"}]
        /\ rpc \in [Tasks -> {"none", "wait", "ok", "err"}]
        /\ outcome \in [Tasks -> {"none", "ok", "unavail", "failed",
                                  "cancelled", "closed"}]
        /\ timedOut \subseteq Probers /\ sawDown \in [Callers -> BOOLEAN]
        /\ cut \in [Callers -> BOOLEAN]
    BY DEF Init
  <2>5. QED
    BY <1>1, <2>1, <2>2, <2>3, <2>4 DEF TypeOK
<1>4. QED
  BY <1>2, <1>3 DEF LockInv

LEMMA LockInvariant == Spec => []LockInv
  BY InitLock, LockStep, PTL DEF Spec

\* Type correctness of the backend object, its connections and its users.
THEOREM TypeCorrect == Spec => []TypeOK
  BY LockInvariant, PTL DEF LockInv

\* The lock of a backend is never leaked and never entered twice, whatever is
\* cancelled and wherever: `async with self._lock` with the awaits inside it
\* (upstream.py:96-100, 132-148) keeps queue and holder coherent.
THEOREM LockIsCoherent == Spec => []LockCoherent
  BY LockInvariant, PTL DEF LockInv

-----------------------------------------------------------------------------
\* Without cancelled tasks, a live connection is the recorded one or the one
\* the holder of the lock waits for - never both, because a connecting holder
\* has torn the recorded one down; the shared session is a live connection.
OwnerOK ==
    /\ \A k \in Conns : conn[k] # "done" =>
          k = task \/ \E t \in Tasks : pc[t] = "conn" /\ own[t] = k
    /\ \A t \in Tasks : pc[t] = "conn" =>
          task = None /\ (ready[t] = "err" => conn[own[t]] = "done")
    /\ session # None => conn[session] \in {"open", "closing"}
    /\ RaceWatchesOwner

OwnerInv == LockInv /\ OwnerOK

LEMMA AliveIsOne ==
    ASSUME OwnerInv, NEW j \in Conns, NEW k \in Conns,
           conn[j] # "done", conn[k] # "done"
    PROVE  j = k
<1>1. CASE j = task
  BY <1>1, ConnsAreNotNone DEF OwnerInv, OwnerOK
<1>2. CASE j # task
  <2>1. PICK t \in Tasks : pc[t] = "conn" /\ own[t] = j
    BY <1>2 DEF OwnerInv, OwnerOK
  <2>2. task = None /\ Holds(t)
    BY <2>1, BusyHolds DEF OwnerInv, OwnerOK
  <2>3. PICK u \in Tasks : pc[u] = "conn" /\ own[u] = k
    BY <2>2, ConnsAreNotNone DEF OwnerInv, OwnerOK
  <2>4. u = t
    BY <2>2, <2>3, HolderIsAlone DEF OwnerInv
  <2>5. QED
    BY <2>1, <2>3, <2>4
<1>3. QED
  BY <1>1, <1>2

\* While somebody holds the lock without connecting, only the recorded
\* connection is alive, and the session is its.
LEMMA AliveIsRecorded ==
    ASSUME OwnerInv, NEW t \in Tasks, Holds(t), pc[t] # "conn"
    PROVE  /\ \A k \in Conns : conn[k] # "done" => k = task
           /\ session # None => session = task
           /\ \A u \in Tasks : pc[u] # "conn"
<1>1. \A u \in Tasks : pc[u] # "conn"
  BY HolderIsAlone DEF OwnerInv
<1>2. session # None => session \in Conns
  BY LockInvParts DEF OwnerInv, SharedOK
<1>3. QED
  BY <1>1, <1>2 DEF OwnerInv, OwnerOK

\* While t connects, nothing is recorded, only its connection can be alive,
\* and a session can only be its.
LEMMA AliveIsStarted ==
    ASSUME OwnerInv, NEW t \in Tasks, pc[t] = "conn"
    PROVE  /\ \A k \in Conns : conn[k] # "done" => k = own[t]
           /\ session # None => session = own[t]
           /\ \A u \in Tasks : pc[u] = "conn" => u = t
<1>1. task = None /\ Holds(t)
  BY BusyHolds DEF OwnerInv, OwnerOK
<1>2. \A u \in Tasks : pc[u] = "conn" => u = t
  BY <1>1, HolderIsAlone DEF OwnerInv
<1>3. \A k \in Conns : conn[k] # "done" => k = own[t]
  BY <1>1, <1>2, ConnsAreNotNone DEF OwnerInv, OwnerOK
<1>4. session # None => session \in Conns
  BY LockInvParts DEF OwnerInv, SharedOK
<1>5. QED
  BY <1>2, <1>3, <1>4 DEF OwnerInv, OwnerOK

\* What a task does to the program counters and to what calls race against.
LeavesOthers(t) ==
    \A u \in Tasks \ {t} : pc'[u] = pc[u] /\ own'[u] = own[u] /\ sess'[u] = sess[u]

LEMMA AttemptEffect ==
    ASSUME LockInv, NEW t \in Tasks, NEW q, NEW s, NEW o, Attempt(t, q, s, o)
    PROVE  /\ LeavesOthers(t) /\ pc'[t] # "conn"
           /\ pc'[t] = "race" /\ t \in Callers => own'[t] = o /\ sess'[t] = s
  BY LockInvParts DEF Attempt, Fails, Finish, LeavesOthers, LocalOK

LEMMA FailsEffect ==
    ASSUME LockInv, NEW t \in Tasks, NEW q, NEW r,
           Fails(t, q) \/ Finish(t, q, r)
    PROVE  LeavesOthers(t) /\ pc'[t] \notin {"conn", "race"}
  BY LockInvParts DEF Fails, Finish, LeavesOthers, LocalOK

\* A step of one task that is not in "conn" afterwards, with nothing but the
\* recorded connection alive, keeps the invariant.
LEMMA OwnerFrame ==
    ASSUME OwnerInv, NEW t \in Tasks, LeavesOthers(t), pc'[t] # "conn",
           \A u \in Tasks \ {t} : ready'[u] = ready[u],
           conn' = conn, session' = session,
           \A k \in Conns : conn[k] # "done" =>
              k = task' \/ \E u \in Tasks \ {t} : pc[u] = "conn" /\ own[u] = k,
           \A u \in Tasks \ {t} : pc[u] = "conn" => task' = None,
           pc'[t] = "race" /\ t \in Callers => own'[t] = sess'[t]
    PROVE  OwnerOK'
<1>1. \A u \in Tasks : pc'[u] = "conn" => u # t /\ pc[u] = "conn"
  BY DEF LeavesOthers
<1>2. \A k \in Conns : conn'[k] # "done" =>
         k = task' \/ \E u \in Tasks : pc'[u] = "conn" /\ own'[u] = k
  BY DEF LeavesOthers
<1>3. \A u \in Tasks : pc'[u] = "conn" =>
         task' = None /\ (ready'[u] = "err" => conn'[own'[u]] = "done")
  BY <1>1 DEF LeavesOthers, OwnerInv, OwnerOK
<1>4. RaceWatchesOwner'
  BY DEF OwnerInv, OwnerOK, RaceWatchesOwner, LeavesOthers, Tasks
<1>5. QED
  BY <1>2, <1>3, <1>4 DEF OwnerInv, OwnerOK

LEMMA TaskOwner ==
    ASSUME OwnerInv, NEW t \in Tasks, TaskStep(t)
    PROVE  OwnerOK'
<1>0. LockInv /\ LocalOK /\ SharedOK
  BY LockInvParts DEF OwnerInv
<1>1. ASSUME UseSession(t) PROVE OwnerOK'
  <2>1. /\ Holds(t) /\ pc[t] = "lock" /\ Attempt(t, Tail(lockQ), session, task)
        /\ UNCHANGED <<session, task, conn, ready>>
    BY <1>1 DEF UseSession, beVars, conVars
  <2>2. /\ LeavesOthers(t) /\ pc'[t] # "conn"
        /\ pc'[t] = "race" /\ t \in Callers => own'[t] = task /\ sess'[t] = session
    BY <1>0, <2>1, AttemptEffect
  <2>3. /\ \A k \in Conns : conn[k] # "done" => k = task
        /\ session # None => session = task
        /\ \A u \in Tasks : pc[u] # "conn"
    BY <2>1, AliveIsRecorded
  <2>4. pc'[t] = "race" => session # None
    BY <1>0, <2>1 DEF Attempt, Fails, Finish, LocalOK
  <2>5. QED
    BY <2>1, <2>2, <2>3, <2>4, OwnerFrame
<1>2. ASSUME BeginTeardown(t) PROVE OwnerOK'
  <2>1. /\ Holds(t) /\ pc[t] = "lock" /\ LeavesOthers(t) /\ pc'[t] = "tear"
        /\ UNCHANGED <<session, task, conn, ready>>
    BY <1>0, <1>2 DEF BeginTeardown, MustTearDown, LeavesOthers, LocalOK, beVars
  <2>2. /\ \A k \in Conns : conn[k] # "done" => k = task
        /\ \A u \in Tasks : pc[u] # "conn"
    BY <2>1, AliveIsRecorded
  <2>3. QED
    BY <2>1, <2>2, OwnerFrame
<1>3. ASSUME EndTeardown(t) PROVE OwnerOK'
  <2>1. Holds(t) /\ pc[t] \in {"lock", "tear"} /\ (task = None \/ conn[task] = "done")
    BY <1>0, <1>3, BusyHolds DEF EndTeardown, MustTearDown
  <2>2. /\ \A k \in Conns : conn[k] = "done"
        /\ \A u \in Tasks : pc[u] # "conn"
    BY <2>1, AliveIsRecorded, ConnsAreNotNone
  <2>3. session' = None /\ task' = None
    BY <1>3 DEF EndTeardown
  <2>4. CASE stage[t] < 3
    <3>1. PICK k \in Conns :
             /\ conn' = [conn EXCEPT ![k] = "opening"]
             /\ own' = [own EXCEPT ![t] = k]
             /\ ready' = [ready EXCEPT ![t] = "pending"]
             /\ pc' = [pc EXCEPT ![t] = "conn"] /\ sess' = sess
      BY <1>3, <2>4 DEF EndTeardown, Connect, FreeConns
    <3>2. \A u \in Tasks : pc'[u] = "conn" => u = t
      BY <1>0, <2>2, <3>1 DEF LocalOK
    <3>3. /\ pc'[t] = "conn" /\ own'[t] = k /\ ready'[t] = "pending"
          /\ \A j \in Conns : conn'[j] # "done" => j = k
      BY <1>0, <2>2, <3>1 DEF LocalOK, SharedOK
    <3>4. RaceWatchesOwner'
      BY <1>0, <3>1 DEF OwnerInv, OwnerOK, RaceWatchesOwner, LocalOK
    <3>5. QED
      BY <2>3, <3>2, <3>3, <3>4 DEF OwnerOK
  <2>5. CASE ~(stage[t] < 3)
    <3>1. /\ Finish(t, Tail(lockQ), IF t \in Closers THEN "closed" ELSE "unavail")
          /\ UNCHANGED <<conn, ready>>
      BY <1>3, <2>5 DEF EndTeardown
    <3>2. LeavesOthers(t) /\ pc'[t] \notin {"conn", "race"}
      BY <1>0, <3>1, FailsEffect
    <3>3. \A u \in Tasks : pc'[u] # "conn"
      BY <2>2, <3>2 DEF LeavesOthers
    <3>4. RaceWatchesOwner'
      BY <3>2 DEF OwnerInv, OwnerOK, RaceWatchesOwner, LeavesOthers, Tasks
    <3>5. QED
      BY <2>2, <2>3, <3>1, <3>3, <3>4 DEF OwnerOK
  <2>6. QED
    BY <2>4, <2>5
<1>4. ASSUME Connected(t) PROVE OwnerOK'
  <2>1. /\ pc[t] = "conn" /\ task' = own[t] /\ ready' = [ready EXCEPT ![t] = "none"]
        /\ Attempt(t, Tail(lockQ), session, own[t]) /\ UNCHANGED <<session, conn>>
    BY <1>4 DEF Connected, conVars
  <2>2. /\ \A k \in Conns : conn[k] # "done" => k = own[t]
        /\ session # None => session = own[t]
        /\ \A u \in Tasks : pc[u] = "conn" => u = t
    BY <2>1, AliveIsStarted
  <2>3. /\ LeavesOthers(t) /\ pc'[t] # "conn"
        /\ pc'[t] = "race" /\ t \in Callers => own'[t] = own[t] /\ sess'[t] = session
    BY <1>0, <2>1, AttemptEffect
  <2>4. pc'[t] = "race" => session # None
    BY <1>0, <2>1 DEF Attempt, Fails, Finish, LocalOK
  <2>5. \A u \in Tasks \ {t} : ready'[u] = ready[u]
    BY <1>0, <2>1 DEF SharedOK
  <2>6. QED
    BY <2>1, <2>2, <2>3, <2>4, <2>5, OwnerFrame
<1>5. ASSUME ConnectFailed(t) PROVE OwnerOK'
  <2>1. /\ pc[t] = "conn" /\ ready[t] = "err" /\ ready' = [ready EXCEPT ![t] = "none"]
        /\ Fails(t, Tail(lockQ)) \/ Finish(t, Tail(lockQ), "unavail")
        /\ UNCHANGED <<session, task, conn>>
    BY <1>5 DEF ConnectFailed, beVars, conVars
  <2>2. /\ \A k \in Conns : conn[k] # "done" => k = own[t]
        /\ conn[own[t]] = "done"
        /\ \A u \in Tasks : pc[u] = "conn" => u = t
    BY <2>1, AliveIsStarted DEF OwnerInv, OwnerOK
  <2>3. LeavesOthers(t) /\ pc'[t] \notin {"conn", "race"}
    BY <1>0, <2>1, FailsEffect
  <2>4. \A u \in Tasks \ {t} : ready'[u] = ready[u]
    BY <1>0, <2>1 DEF SharedOK
  <2>5. QED
    BY <2>1, <2>2, <2>3, <2>4, OwnerFrame
<1>6. ASSUME RaceWon(t) \/ RaceLost(t) PROVE OwnerOK'
  <2>1. /\ pc[t] = "race" /\ (Fails(t, lockQ) \/ Finish(t, lockQ, "ok"))
        /\ UNCHANGED <<session, task, conn, ready>>
    BY <1>6 DEF RaceWon, RaceLost, beVars, conVars
  <2>2. LeavesOthers(t) /\ pc'[t] \notin {"conn", "race"}
    BY <1>0, <2>1, FailsEffect
  <2>3. /\ \A k \in Conns : conn[k] # "done" =>
              k = task' \/ \E u \in Tasks \ {t} : pc[u] = "conn" /\ own[u] = k
        /\ \A u \in Tasks \ {t} : pc[u] = "conn" => task' = None
    BY <2>1 DEF OwnerInv, OwnerOK
  <2>4. QED
    BY <2>1, <2>2, <2>3, OwnerFrame
<1>7. QED
  BY <1>1, <1>2, <1>3, <1>4, <1>5, <1>6 DEF TaskStep

LEMMA ConnOwner ==
    ASSUME OwnerInv, NEW k \in Conns, ConnStep(k)
    PROVE  OwnerOK'
<1>0. LocalOK /\ SharedOK
  BY LockInvParts DEF OwnerInv
<1>1. Elsewhere
  BY ConnLock DEF OwnerInv
<1>2. RaceWatchesOwner'
  BY <1>1 DEF Elsewhere, OwnerInv, OwnerOK, RaceWatchesOwner
<1>3. conn[k] # "done" /\ \A j \in Conns \ {k} : conn'[j] = conn[j]
  BY <1>0 DEF ConnStep, Publish, Unwind, EndConnection, SharedOK
<1>4. \A j \in Conns : conn[j] # "done" => j = k
  BY <1>3, AliveIsOne
<1>5. \A j \in Conns : conn'[j] # "done" =>
         j = task' \/ \E t \in Tasks : pc'[t] = "conn" /\ own'[t] = j
  BY <1>1, <1>3, <1>4 DEF Elsewhere, OwnerInv, OwnerOK
<1>6. session' # None => conn'[session'] \in {"open", "closing"}
  <2>1. session # None => session = k
    BY <1>0, <1>4 DEF OwnerInv, OwnerOK, SharedOK
  <2>2. CASE Publish(k)
    BY <1>0, <2>2 DEF Publish, SharedOK
  <2>3. CASE Unwind(k)
    BY <1>0, <2>1, <2>3 DEF Unwind, SharedOK, beVars
  <2>4. CASE EndConnection(k)
    BY <2>4 DEF EndConnection
  <2>5. QED
    BY <2>2, <2>3, <2>4 DEF ConnStep
<1>7. ASSUME NEW t \in Tasks, pc[t] = "conn"
      PROVE  task = None /\ (ready'[t] = "err" => conn'[own[t]] = "done")
  <2>1. /\ task = None /\ (ready[t] = "err" => conn[own[t]] = "done")
        /\ own[t] \in Conns
    BY <1>0, <1>7 DEF OwnerInv, OwnerOK, LocalOK, StageOK
  <2>2. ready[t] = "err" => ready'[t] = "err" /\ own[t] # k
    BY <1>0, <1>3, <2>1 DEF ConnStep, Publish, Unwind, EndConnection, Waiting, SharedOK
  <2>3. CASE EndConnection(k)
    BY <1>0, <1>3, <2>1, <2>3 DEF EndConnection, Waiting, SharedOK
  <2>4. CASE Publish(k) \/ Unwind(k)
    <3>1. ready'[t] = "err" => ready[t] = "err"
      BY <1>0, <2>4 DEF Publish, Unwind, SharedOK
    <3>2. QED
      BY <1>3, <2>1, <2>2, <3>1
  <2>5. QED
    BY <2>3, <2>4 DEF ConnStep
<1>8. QED
  BY <1>1, <1>2, <1>5, <1>6, <1>7 DEF Elsewhere, OwnerOK

LEMMA OwnerStep ==
    ASSUME Cancellable = {}
    PROVE  OwnerInv /\ [Next]_vars => OwnerInv'
<1> SUFFICES ASSUME OwnerInv, [Next]_vars PROVE OwnerOK'
  BY LockStep DEF OwnerInv
<1>0. LockInv /\ LocalOK
  BY LockInvParts DEF OwnerInv
<1>1. ASSUME NEW t \in Tasks, Start(t) PROVE OwnerOK'
  <2>1. /\ UNCHANGED <<session, task, conn, ready, own>> /\ LeavesOthers(t)
        /\ pc[t] = "idle" /\ pc'[t] = "lock"
    BY <1>0, <1>1 DEF Start, LeavesOthers, LocalOK, beVars, conVars
  <2>2. /\ \A k \in Conns : conn[k] # "done" =>
              k = task' \/ \E u \in Tasks \ {t} : pc[u] = "conn" /\ own[u] = k
        /\ \A u \in Tasks \ {t} : pc[u] = "conn" => task' = None
    BY <2>1 DEF OwnerInv, OwnerOK
  <2>3. QED
    BY <2>1, <2>2, OwnerFrame
<1>2. ASSUME NEW t \in Probers, CancelRacing(t) PROVE OwnerOK'
  <2>1. /\ UNCHANGED <<session, task, conn, ready>> /\ t \in Tasks
        /\ pc[t] = "race" /\ Finish(t, lockQ, "failed")
    BY <1>2 DEF CancelRacing, CancelResult, Tasks, beVars, conVars
  <2>2. LeavesOthers(t) /\ pc'[t] \notin {"conn", "race"}
    BY <1>0, <2>1, FailsEffect
  <2>3. /\ \A k \in Conns : conn[k] # "done" =>
              k = task' \/ \E u \in Tasks \ {t} : pc[u] = "conn" /\ own[u] = k
        /\ \A u \in Tasks \ {t} : pc[u] = "conn" => task' = None
    BY <2>1 DEF OwnerInv, OwnerOK
  <2>4. QED
    BY <2>1, <2>2, <2>3, OwnerFrame
<1>3. ASSUME \/ \E t \in Tasks : NetStep(t) \/ Drop(t)
             \/ Crash \/ Restart \/ UNCHANGED vars
      PROVE  OwnerOK'
  <2>1. UNCHANGED <<session, task, conn, ready, pc, own, sess>>
    BY <1>0, <1>3, NetLock DEF Elsewhere, vars
  <2>2. QED
    BY <2>1 DEF OwnerInv, OwnerOK, RaceWatchesOwner
<1>4. QED
  BY <1>1, <1>2, <1>3, TaskOwner, ConnOwner DEF Next

LEMMA OwnerInvariant ==
    ASSUME Cancellable = {}
    PROVE  Spec => []OwnerInv
<1>1. Init => OwnerInv
  <2> SUFFICES ASSUME Init PROVE OwnerInv
    OBVIOUS
  <2>1. /\ \A k \in Conns : conn[k] = "done"
        /\ \A t \in Tasks : pc[t] = "idle"
        /\ session = None
    BY DEF Init
  <2>2. OwnerOK
    BY <2>1 DEF OwnerOK, RaceWatchesOwner, Tasks
  <2>3. LockInv
    BY InitLock
  <2>4. QED
    BY <2>2, <2>3 DEF OwnerInv
<1>2. OwnerInv /\ [Next]_vars => OwnerInv'
  BY OwnerStep
<1>3. QED
  BY <1>1, <1>2, PTL DEF Spec

-----------------------------------------------------------------------------
\* One connection per backend, for any number of requests and probes, crashes
\* and retries - as long as no task is cancelled (upstream.py:9-12, "one MCP
\* session per backend").
THEOREM ConnectionIsSingle ==
    ASSUME Cancellable = {}
    PROVE  Spec => []SingleConnection
<1>1. OwnerInv => SingleConnection
  BY AliveIsOne DEF SingleConnection
<1>2. QED
  BY <1>1, OwnerInvariant, PTL

\* A call races against the owner of its own session, so that the death of its
\* connection cannot go unnoticed (upstream.py:102-118).
THEOREM RacesAreWatched ==
    ASSUME Cancellable = {}
    PROVE  Spec => []RaceWatchesOwner
<1>1. OwnerInv => RaceWatchesOwner
  BY DEF OwnerInv, OwnerOK
<1>2. QED
  BY <1>1, OwnerInvariant, PTL

\* The shared session is never withdrawn by the end of another connection:
\* the unconditional reset in `finally` (upstream.py:65) only ever hits the
\* session of the connection that ends.
THEOREM SessionsAreSafe ==
    ASSUME Cancellable = {}
    PROVE  Spec => SessionOutlivesOthers
<1> DEFINE A == session # None /\ session' # session
                  => conn[session] # "open" \/ session \in stop
<1>1. OwnerInv /\ [Next]_vars => [A]_vars
  <2> SUFFICES ASSUME OwnerInv, Next, session # None, session' # session
               PROVE  conn[session] # "open"
    BY DEF vars
  <2>0. LocalOK /\ SharedOK /\ session \in Conns /\ conn[session] # "done"
    BY LockInvParts DEF OwnerInv, SharedOK, OwnerOK
  <2>1. ASSUME NEW t \in Tasks, EndTeardown(t) PROVE FALSE
    <3>1. Holds(t) /\ pc[t] # "conn" /\ (task = None \/ conn[task] = "done")
      BY <2>1, BusyHolds DEF EndTeardown, MustTearDown, OwnerInv
    <3>2. QED
      BY <2>0, <3>1, AliveIsRecorded, ConnsAreNotNone
  <2>2. ASSUME NEW t \in Tasks, TaskStep(t) \/ Start(t) PROVE FALSE
    BY <2>1, <2>2 DEF TaskStep, UseSession, BeginTeardown, Connected, ConnectFailed,
       RaceWon, RaceLost, Start, beVars
  <2>3. ASSUME NEW t \in Probers, CancelRacing(t) PROVE FALSE
    BY <2>3 DEF CancelRacing, beVars
  <2>4. ASSUME NEW k \in Conns, ConnStep(k) PROVE conn[session] # "open"
    <3>1. conn[k] # "done"
      BY <2>4 DEF ConnStep, Publish, Unwind, EndConnection
    <3>2. session = k
      BY <2>0, <3>1, AliveIsOne
    <3>3. QED
      BY <2>4, <3>2 DEF ConnStep, Publish, Unwind, EndConnection, beVars
  <2>5. ASSUME \/ \E t \in Tasks : NetStep(t) \/ Drop(t)
               \/ Crash \/ Restart
        PROVE  FALSE
    BY <2>5, NetLock DEF OwnerInv
  <2>6. QED
    BY <2>2, <2>3, <2>4, <2>5 DEF Next
<1>2. QED
  BY <1>1, OwnerInvariant, PTL DEF Spec, SessionOutlivesOthers

-----------------------------------------------------------------------------
\* Without cancelled tasks, a connection that was just opened is healthy until
\* the backend dies: only a teardown, under the lock, sets stop.
FreshOK ==
    /\ \A k \in stop \cup stale : conn[k] # "done"
    /\ \A k \in stop : k = task /\ \E t \in Tasks : pc[t] = "tear"
    /\ \A k \in Conns : conn[k] = "opening" =>
          \E t \in Tasks : pc[t] = "conn" /\ own[t] = k /\ ready[t] = "pending"
    /\ \A t \in Tasks : pc[t] = "conn" =>
          /\ ready[t] = "ok" => session = own[t] /\ conn[own[t]] = "open"
          /\ \A u \in Tasks : sess[u] # own[t]
    /\ session # None /\ conn[session] = "closing" => session \in stop \cup stale

FreshInv == OwnerInv /\ FreshOK

\* Nobody tears down while another task connects, or holds the lock otherwise.
LEMMA NoStop ==
    ASSUME FreshInv, NEW t \in Tasks, Holds(t), pc[t] # "tear"
    PROVE  stop = {}
<1>1. \A u \in Tasks : pc[u] # "tear"
  BY HolderIsAlone DEF FreshInv, OwnerInv
<1>2. QED
  BY <1>1 DEF FreshInv, FreshOK

\* A step of one task that touches no connection, and that does not connect.
LEMMA FreshFrame ==
    ASSUME FreshInv, NEW t \in Tasks, LeavesOthers(t), pc'[t] # "conn",
           UNCHANGED <<session, conn, stop, stale>>,
           \A u \in Tasks \ {t} : ready'[u] = ready[u],
           \A u \in Tasks \ {t} : pc[u] = "conn" => sess'[t] \in {sess[t], None},
           pc[t] = "tear" => stop = {},
           stop # {} => task' = task,
           pc[t] = "conn" => conn[own[t]] # "opening"
    PROVE  FreshOK'
<1>0. LockInv /\ LocalOK /\ OwnerOK /\ FreshOK
  BY LockInvParts DEF FreshInv, OwnerInv
<1>1. \A k \in stop' : k = task' /\ \E u \in Tasks : pc'[u] = "tear"
  BY <1>0 DEF FreshOK, LeavesOthers
<1>2. \A k \in Conns : conn'[k] = "opening" =>
         \E u \in Tasks : pc'[u] = "conn" /\ own'[u] = k /\ ready'[u] = "pending"
  BY <1>0 DEF FreshOK, LeavesOthers
<1>3. ASSUME NEW u \in Tasks, pc'[u] = "conn"
      PROVE  /\ ready'[u] = "ok" => session' = own'[u] /\ conn'[own'[u]] = "open"
             /\ \A v \in Tasks : sess'[v] # own'[u]
  <2>1. u # t /\ pc[u] = "conn" /\ own'[u] = own[u] /\ ready'[u] = ready[u]
    BY <1>3 DEF LeavesOthers
  <2>2. own[u] \in Conns
    BY <1>0, <2>1 DEF LocalOK, StageOK
  <2>3. \A v \in Tasks : sess'[v] \in {sess[v], None}
    BY <2>1 DEF LeavesOthers
  <2>4. QED
    BY <1>0, <2>1, <2>2, <2>3, ConnsAreNotNone DEF FreshOK
<1>4. QED
  BY <1>0, <1>1, <1>2, <1>3 DEF FreshOK

LEMMA TaskFresh ==
    ASSUME FreshInv, NEW t \in Tasks, TaskStep(t)
    PROVE  FreshOK'
<1>0. LockInv /\ LocalOK /\ SharedOK /\ OwnerInv /\ OwnerOK /\ FreshOK
  BY LockInvParts DEF FreshInv, OwnerInv
<1>1. ASSUME UseSession(t) PROVE FreshOK'
  <2>1. /\ Holds(t) /\ pc[t] = "lock" /\ Attempt(t, Tail(lockQ), session, task)
        /\ UNCHANGED <<session, task, conn, stop, stale, ready>>
    BY <1>1 DEF UseSession, beVars, conVars
  <2>2. LeavesOthers(t) /\ pc'[t] # "conn"
    BY <1>0, <2>1, AttemptEffect
  <2>3. \A u \in Tasks : pc[u] # "conn"
    BY <1>0, <2>1, AliveIsRecorded
  <2>4. QED
    BY <2>1, <2>2, <2>3, FreshFrame
<1>2. ASSUME BeginTeardown(t) PROVE FreshOK'
  <2>1. /\ pc[t] = "lock" /\ pc' = [pc EXCEPT ![t] = "tear"] /\ Holds(t)
        /\ UNCHANGED <<session, task, conn, stale, ready, own, sess>>
        /\ stop' = IF conn[task] = "done" THEN stop ELSE stop \cup {task}
        /\ task \in Conns
    BY <1>0, <1>2 DEF BeginTeardown, MustTearDown, SetStop, SharedOK, beVars
  <2>2. pc'[t] = "tear" /\ \A u \in Tasks \ {t} : pc'[u] = pc[u]
    BY <1>0, <2>1 DEF LocalOK
  <2>3. \A k \in stop' \cup stale' : conn'[k] # "done"
    BY <1>0, <2>1 DEF FreshOK
  <2>4. \A k \in stop' : k = task' /\ \E u \in Tasks : pc'[u] = "tear"
    BY <1>0, <2>1, <2>2 DEF FreshOK
  <2>5. \A u \in Tasks : pc'[u] = "conn" <=> pc[u] = "conn"
    BY <2>1, <2>2
  <2>6. stop \subseteq stop'
    BY <2>1
  <2>7. QED
    BY <1>0, <2>1, <2>3, <2>4, <2>5, <2>6 DEF FreshOK
<1>3. ASSUME EndTeardown(t) PROVE FreshOK'
  <2>1. Holds(t) /\ pc[t] \in {"lock", "tear"} /\ (task = None \/ conn[task] = "done")
    BY <1>0, <1>3, BusyHolds DEF EndTeardown, MustTearDown
  <2>2. /\ \A k \in Conns : conn[k] = "done"
        /\ \A u \in Tasks : pc[u] # "conn"
    BY <1>0, <2>1, AliveIsRecorded, ConnsAreNotNone
  <2>3. stop = {} /\ stale = {}
    BY <1>0, <2>2 DEF FreshOK, SharedOK
  <2>4. session' = None /\ task' = None /\ stop' = {} /\ stale' = {}
    BY <1>3, <2>3 DEF EndTeardown
  <2>5. CASE stage[t] < 3
    <3>1. PICK k \in FreeConns :
             /\ conn' = [conn EXCEPT ![k] = "opening"]
             /\ own' = [own EXCEPT ![t] = k]
             /\ ready' = [ready EXCEPT ![t] = "pending"]
             /\ pc' = [pc EXCEPT ![t] = "conn"] /\ sess' = sess
      BY <1>3, <2>5 DEF EndTeardown, Connect
    <3>2. k \in Conns /\ \A u \in Tasks : sess[u] # k
      BY <3>1 DEF FreeConns
    <3>3. /\ pc'[t] = "conn" /\ own'[t] = k /\ ready'[t] = "pending"
          /\ \A j \in Conns : conn'[j] = "opening" => j = k
          /\ \A u \in Tasks : pc'[u] = "conn" => u = t
      BY <1>0, <2>2, <3>1, <3>2 DEF LocalOK, SharedOK
    <3>4. QED
      BY <2>4, <3>1, <3>2, <3>3 DEF FreshOK
  <2>6. CASE ~(stage[t] < 3)
    <3>1. /\ Finish(t, Tail(lockQ), IF t \in Closers THEN "closed" ELSE "unavail")
          /\ UNCHANGED <<conn, ready>>
      BY <1>3, <2>6 DEF EndTeardown
    <3>2. \A u \in Tasks : pc'[u] # "conn"
      BY <1>0, <2>2, <3>1, FailsEffect DEF LeavesOthers
    <3>3. QED
      BY <2>2, <2>4, <3>1, <3>2 DEF FreshOK
  <2>7. QED
    BY <2>5, <2>6
<1>4. ASSUME Connected(t) PROVE FreshOK'
  <2>1. /\ pc[t] = "conn" /\ ready[t] = "ok" /\ ready' = [ready EXCEPT ![t] = "none"]
        /\ Attempt(t, Tail(lockQ), session, own[t])
        /\ UNCHANGED <<session, conn, stop, stale>>
    BY <1>4 DEF Connected, conVars
  <2>2. LeavesOthers(t) /\ pc'[t] # "conn"
    BY <1>0, <2>1, AttemptEffect
  <2>3. \A u \in Tasks \ {t} : ready'[u] = ready[u]
    BY <1>0, <2>1 DEF SharedOK
  <2>4. stop = {} /\ \A u \in Tasks : pc[u] = "conn" => u = t
    BY <1>0, <2>1, NoStop, BusyHolds, AliveIsStarted
  <2>5. conn[own[t]] = "open"
    BY <1>0, <2>1 DEF FreshOK
  <2>6. QED
    BY <2>1, <2>2, <2>3, <2>4, <2>5, FreshFrame
<1>5. ASSUME ConnectFailed(t) PROVE FreshOK'
  <2>1. /\ pc[t] = "conn" /\ ready[t] = "err" /\ ready' = [ready EXCEPT ![t] = "none"]
        /\ Fails(t, Tail(lockQ)) \/ Finish(t, Tail(lockQ), "unavail")
        /\ UNCHANGED <<session, task, conn, stop, stale>>
    BY <1>5 DEF ConnectFailed, beVars, conVars
  <2>2. LeavesOthers(t) /\ pc'[t] # "conn"
    BY <1>0, <2>1, FailsEffect
  <2>3. \A u \in Tasks \ {t} : ready'[u] = ready[u]
    BY <1>0, <2>1 DEF SharedOK
  <2>4. conn[own[t]] = "done" /\ \A u \in Tasks : pc[u] = "conn" => u = t
    BY <1>0, <2>1, AliveIsStarted DEF OwnerOK
  <2>5. QED
    BY <2>1, <2>2, <2>3, <2>4, FreshFrame
<1>6. ASSUME RaceWon(t) \/ RaceLost(t) PROVE FreshOK'
  <2>1. /\ pc[t] = "race" /\ (Fails(t, lockQ) \/ Finish(t, lockQ, "ok"))
        /\ UNCHANGED <<session, task, conn, stop, stale, ready>>
    BY <1>6 DEF RaceWon, RaceLost, beVars, conVars
  <2>2. LeavesOthers(t) /\ pc'[t] # "conn" /\ sess'[t] = None
    BY <1>0, <2>1, FailsEffect DEF Fails, Finish, LocalOK
  <2>3. QED
    BY <2>1, <2>2, FreshFrame
<1>7. QED
  BY <1>1, <1>2, <1>3, <1>4, <1>5, <1>6 DEF TaskStep

LEMMA ConnFresh ==
    ASSUME FreshInv, NEW k \in Conns, ConnStep(k)
    PROVE  FreshOK'
<1>0. LocalOK /\ SharedOK /\ OwnerInv /\ OwnerOK /\ FreshOK
  BY LockInvParts DEF FreshInv, OwnerInv
<1>1. Elsewhere
  BY <1>0, ConnLock DEF OwnerInv
<1>2. /\ conn[k] # "done" /\ \A j \in Conns \ {k} : conn'[j] = conn[j]
      /\ conn'[k] # "opening" /\ stop' \subseteq stop /\ stale' \subseteq stale
      /\ conn'[k] = "done" => k \notin stop' \cup stale'
  BY <1>0 DEF ConnStep, Publish, Unwind, EndConnection, SharedOK
<1>3. \A j \in Conns : conn[j] # "done" => j = k
  BY <1>0, <1>2, AliveIsOne
<1>4. /\ \A j \in stop' \cup stale' : conn'[j] # "done"
      /\ \A j \in stop' : j = task' /\ \E t \in Tasks : pc'[t] = "tear"
  BY <1>0, <1>1, <1>2, <1>3 DEF FreshOK, SharedOK, Elsewhere
<1>5. \A j \in Conns : conn'[j] # "opening"
  BY <1>2, <1>3
<1>6. ASSUME NEW t \in Tasks, pc'[t] = "conn"
      PROVE  /\ ready'[t] = "ok" => session' = own'[t] /\ conn'[own'[t]] = "open"
             /\ \A u \in Tasks : sess'[u] # own'[t]
  <2>1. pc[t] = "conn" /\ own'[t] = own[t] /\ own[t] = k /\ sess' = sess
    BY <1>0, <1>1, <1>2, <1>6, AliveIsStarted DEF Elsewhere
  <2>2. /\ ready[t] = "ok" => session = k /\ conn[k] = "open"
        /\ \A u \in Tasks : sess[u] # k
    BY <1>0, <2>1 DEF FreshOK
  <2>3. stop = {} /\ ~Doomed(k)
    BY <1>0, <2>1, <2>2, NoStop, BusyHolds DEF OwnerInv, Doomed
  <2>4. CASE Publish(k)
    BY <1>0, <2>1, <2>2, <2>4 DEF Publish, Waiting, SharedOK
  <2>5. CASE Unwind(k)
    BY <2>1, <2>2, <2>3, <2>5 DEF Unwind, beVars
  <2>6. CASE EndConnection(k)
    BY <1>0, <2>1, <2>2, <2>6 DEF EndConnection, SharedOK
  <2>7. QED
    BY <2>1, <2>2, <2>4, <2>5, <2>6 DEF ConnStep
<1>7. session' # None /\ conn'[session'] = "closing" => session' \in stop' \cup stale'
  <2>1. CASE Publish(k)
    <3>1. Waiting(k) # {}
      BY <1>0, <2>1 DEF Publish, FreshOK, Waiting
    <3>2. QED
      BY <1>0, <2>1, <3>1 DEF Publish, SharedOK
  <2>2. CASE Unwind(k)
    <3>1. session # None => session = k /\ conn[k] # "opening"
      BY <1>0, <1>3 DEF OwnerOK, SharedOK
    <3>2. QED
      BY <1>0, <2>2, <3>1 DEF Unwind, Doomed, FreshOK, beVars
  <2>3. CASE EndConnection(k)
    BY <2>3 DEF EndConnection
  <2>4. QED
    BY <2>1, <2>2, <2>3 DEF ConnStep
<1>8. QED
  BY <1>4, <1>5, <1>6, <1>7 DEF FreshOK

LEMMA FreshStep ==
    ASSUME Cancellable = {}
    PROVE  FreshInv /\ [Next]_vars => FreshInv'
<1> SUFFICES ASSUME FreshInv, [Next]_vars PROVE FreshOK'
  BY OwnerStep DEF FreshInv
<1>0. LockInv /\ LocalOK /\ SharedOK /\ OwnerOK /\ FreshOK
  BY LockInvParts DEF FreshInv, OwnerInv
<1>1. ASSUME NEW t \in Tasks, Start(t) PROVE FreshOK'
  <2>1. /\ UNCHANGED <<session, task, conn, stop, stale, ready, own>>
        /\ pc[t] = "idle" /\ pc' = [pc EXCEPT ![t] = "lock"]
        /\ sess' = [sess EXCEPT ![t] = None]
    BY <1>1 DEF Start, beVars, conVars
  <2>2. LeavesOthers(t) /\ pc'[t] # "conn" /\ sess'[t] = None
    BY <1>0, <2>1 DEF LeavesOthers, LocalOK
  <2>3. QED
    BY <2>1, <2>2, FreshFrame
<1>2. ASSUME NEW t \in Probers, CancelRacing(t) PROVE FreshOK'
  <2>1. /\ UNCHANGED <<session, task, conn, stop, stale, ready>> /\ t \in Tasks
        /\ pc[t] = "race" /\ Finish(t, lockQ, "failed")
    BY <1>2 DEF CancelRacing, CancelResult, Tasks, beVars, conVars
  <2>2. LeavesOthers(t) /\ pc'[t] # "conn" /\ sess'[t] = None
    BY <1>0, <2>1, FailsEffect DEF Finish, LocalOK
  <2>3. QED
    BY <2>1, <2>2, FreshFrame
<1>3. ASSUME Crash PROVE FreshOK'
  BY <1>0, <1>3 DEF Crash, FreshOK, SharedOK, beVars, locVars
<1>4. ASSUME (\E t \in Tasks : NetStep(t) \/ Drop(t)) \/ Restart \/ UNCHANGED vars
      PROVE  FreshOK'
  <2>1. UNCHANGED <<session, task, conn, stop, stale, ready, pc, own, sess>>
    BY <1>4 DEF NetStep, Respond, Reject, Execute, Drop, Restart, vars, beVars,
       conVars, locVars
  <2>2. QED
    BY <1>0, <2>1 DEF FreshOK
<1>5. QED
  BY <1>1, <1>2, <1>3, <1>4, TaskFresh, ConnFresh DEF Next

LEMMA FreshInvariant ==
    ASSUME Cancellable = {}
    PROVE  Spec => []FreshInv
<1>1. OwnerInv /\ Init => FreshInv
  BY DEF Init, FreshInv, FreshOK
<1>2. FreshInv /\ [Next]_vars => FreshInv'
  BY FreshStep
<1>3. QED
  BY <1>1, <1>2, OwnerInvariant, PTL DEF Spec

-----------------------------------------------------------------------------
\* A calm call has met neither a crash nor a concurrent teardown.  It sends at
\* most one of its two requests, and the connection it has sent one on, or has
\* made for its retry, works.
Calm(c) == ~sawDown[c] /\ ~cut[c]

Healthy(k) == k \in Conns /\ conn[k] = "open" /\ k \notin stop \cup stale

CallOK(c) ==
    /\ ~(req[c][1] # "none" /\ req[c][2] # "none") /\ outcome[c] # "unavail"
    /\ pc[c] # "idle" =>
          /\ up /\ stage[c] < 3
          /\ stage[c] = 1 => req[c][2] = "none"
          /\ stage[c] = 2 => req[c][1] = "none"
          /\ pc[c] \in Busy => req[c][1] = "none" /\ req[c][2] = "none"
          /\ pc[c] = "conn" /\ stage[c] = 2 =>
                /\ own[c] \notin stale /\ ready[c] \in {"pending", "ok"}
                /\ ready[c] = "pending" => conn[own[c]] = "opening"
          /\ pc[c] = "race" /\ (stage[c] = 2 \/ req[c][1] # "none") =>
                Healthy(sess[c]) /\ rpc[c] \in {"wait", "ok"}

ExplainOK == \A c \in Callers : Calm(c) => CallOK(c)

ExplainInv == FreshInv /\ ExplainOK

\* What a step leaves alone of call c.
Untouched(c) ==
    /\ pc'[c] = pc[c] /\ stage'[c] = stage[c] /\ own'[c] = own[c]
    /\ sess'[c] = sess[c] /\ rpc'[c] = rpc[c] /\ outcome'[c] = outcome[c]
    /\ req'[c] = req[c] /\ up' = up

LEMMA CallFrame ==
    ASSUME NEW c \in Callers, CallOK(c), Untouched(c),
           pc[c] = "race" /\ Healthy(sess[c]) => Healthy(sess[c])',
           pc[c] = "conn" => /\ ready'[c] = ready[c] /\ stale' = stale
                             /\ conn'[own[c]] = conn[own[c]]
    PROVE  CallOK(c)'
  BY DEF CallOK, Untouched, Healthy

\* The steps of a call that leave an attempt.
LEMMA FinishCall ==
    ASSUME FreshInv, NEW c \in Callers, CallOK(c), NEW q, NEW r,
           r # "unavail", Finish(c, q, r), UNCHANGED req
    PROVE  CallOK(c)'
<1>1. c \in Tasks /\ LocalOK
  BY LockInvParts DEF Tasks, FreshInv, OwnerInv
<1>2. pc'[c] = "idle" /\ outcome'[c] = r
  BY <1>1 DEF Finish, LocalOK
<1>3. QED
  BY <1>2 DEF CallOK

LEMMA FailsCall ==
    ASSUME FreshInv, NEW c \in Callers, CallOK(c), NEW q, Fails(c, q),
           UNCHANGED <<req, up>>, pc[c] # "idle", stage[c] = 1,
           req[c][1] = "none"
    PROVE  CallOK(c)'
<1>1. c \in Tasks /\ c \notin Probers /\ LocalOK
  BY UpstreamAssumption, LockInvParts DEF Tasks, FreshInv, OwnerInv
<1>2. pc'[c] = "lock" /\ outcome' = outcome /\ stage'[c] = 2
  BY <1>1 DEF Fails, LocalOK
<1>3. QED
  BY <1>2 DEF CallOK, Busy

\* An attempt on a session that is alive, recorded and not told to stop.
LEMMA AttemptCall ==
    ASSUME FreshInv, NEW c \in Callers, CallOK(c), pc[c] \in Busy, NEW q,
           NEW s \in Conns, Attempt(c, q, s, s), UNCHANGED <<conn, stop, stale, up>>,
           s \in stale \/ Healthy(s), stage[c] = 2 => Healthy(s)
    PROVE  CallOK(c)'
<1>1. c \in Tasks /\ LocalOK /\ SharedOK /\ s # None
  BY LockInvParts, ConnsAreNotNone DEF Tasks, FreshInv, OwnerInv
<1>2. /\ pc'[c] = "race" /\ sess'[c] = s /\ rpc'[c] = "wait"
      /\ UNCHANGED <<stage, outcome>>
  BY <1>1 DEF Attempt, LocalOK
<1>3. /\ up /\ stage[c] \in {1, 2} /\ req[c][1] = "none" /\ req[c][2] = "none"
      /\ outcome[c] # "unavail"
  BY <1>1 DEF CallOK, Busy, LocalOK
<1>4. req' = IF s \notin stale THEN [req EXCEPT ![c][stage[c]] = "sent"] ELSE req
  BY <1>1 DEF Attempt
<1>5. CASE s \in stale
  <2>1. req' = req /\ stage[c] = 1
    BY <1>3, <1>4, <1>5 DEF Healthy
  <2>2. QED
    BY <1>2, <1>3, <2>1 DEF CallOK, Busy
<1>6. CASE s \notin stale
  <2>1. Healthy(s)'
    BY <1>6 DEF Healthy
  <2>2. /\ stage[c] = 1 => req'[c][2] = "none"
        /\ stage[c] = 2 => req'[c][1] = "none"
    BY <1>1, <1>3, <1>4 DEF SharedOK
  <2>3. Healthy(sess[c])'
    BY <1>2, <2>1 DEF Healthy
  <2>4. QED
    BY <1>2, <1>3, <2>2, <2>3 DEF CallOK, Busy
<1>7. QED
  BY <1>5, <1>6

LEMMA OwnCall ==
    ASSUME FreshInv, NEW c \in Callers, CallOK(c), TaskStep(c)
    PROVE  CallOK(c)'
<1>0. /\ c \in Tasks /\ LockInv /\ LocalOK /\ SharedOK /\ OwnerInv /\ OwnerOK
      /\ FreshOK /\ c \notin Closers
  BY LockInvParts, UpstreamAssumption DEF Tasks, FreshInv, OwnerInv
<1>1. ASSUME UseSession(c) PROVE CallOK(c)'
  <2>1. /\ Holds(c) /\ pc[c] = "lock" /\ stage[c] = 1 /\ session \in Conns
        /\ Attempt(c, Tail(lockQ), session, task)
        /\ UNCHANGED <<conn, stop, stale, up>>
    BY <1>0, <1>1 DEF UseSession, SharedOK, conVars
  <2>2. task = session /\ stop = {}
    BY <1>0, <2>1, AliveIsRecorded, NoStop, ConnsAreNotNone
  <2>3. session \in stale \/ Healthy(session)
    BY <1>0, <2>1, <2>2, ConnsAreNotNone DEF FreshOK, OwnerOK, Healthy
  <2>4. QED
    BY <2>1, <2>2, <2>3, AttemptCall DEF Busy
<1>2. ASSUME BeginTeardown(c) PROVE CallOK(c)'
  <2>1. /\ pc[c] = "lock" /\ pc'[c] = "tear"
        /\ UNCHANGED <<stage, req, up, outcome>>
    BY <1>0, <1>2 DEF BeginTeardown, MustTearDown, netVars, LocalOK
  <2>2. QED
    BY <2>1 DEF CallOK, Busy
<1>3. ASSUME EndTeardown(c) PROVE CallOK(c)'
  <2>1. /\ Holds(c) /\ pc[c] \in {"lock", "tear"} /\ stage[c] < 3
        /\ (task = None \/ conn[task] = "done") /\ UNCHANGED <<req, up, stale>>
    BY <1>0, <1>3, BusyHolds DEF EndTeardown, MustTearDown, CallOK
  <2>2. \A j \in Conns : conn[j] = "done"
    BY <1>0, <2>1, AliveIsRecorded, ConnsAreNotNone
  <2>3. PICK k \in Conns :
           /\ conn' = [conn EXCEPT ![k] = "opening"]
           /\ own' = [own EXCEPT ![c] = k]
           /\ ready' = [ready EXCEPT ![c] = "pending"]
           /\ pc' = [pc EXCEPT ![c] = "conn"]
           /\ UNCHANGED <<stage, outcome>>
    BY <1>3, <2>1 DEF EndTeardown, Connect, FreeConns
  <2>4. /\ pc'[c] = "conn" /\ ready'[c] = "pending" /\ own'[c] = k
        /\ conn'[k] = "opening" /\ k \notin stale
    BY <1>0, <2>2, <2>3 DEF LocalOK, SharedOK, FreshOK
  <2>5. QED
    BY <2>1, <2>3, <2>4 DEF CallOK, Busy
<1>4. ASSUME Connected(c) PROVE CallOK(c)'
  <2>1. /\ pc[c] = "conn" /\ ready[c] = "ok" /\ own[c] \in Conns
        /\ Attempt(c, Tail(lockQ), session, own[c])
        /\ UNCHANGED <<conn, stop, stale, up>>
    BY <1>0, <1>4 DEF Connected, conVars, LocalOK, StageOK
  <2>2. session = own[c] /\ conn[own[c]] = "open" /\ stop = {}
    BY <1>0, <2>1, NoStop, BusyHolds DEF FreshOK
  <2>3. stage[c] = 2 => own[c] \notin stale
    BY <2>1 DEF CallOK
  <2>4. QED
    BY <2>1, <2>2, <2>3, AttemptCall DEF Busy, Healthy
<1>5. ASSUME ConnectFailed(c) PROVE CallOK(c)'
  <2>1. /\ pc[c] = "conn" /\ ready[c] = "err" /\ UNCHANGED <<req, up>>
        /\ stage[c] = 1 => Fails(c, Tail(lockQ))
    BY <1>5 DEF ConnectFailed
  <2>2. stage[c] = 1 /\ req[c][1] = "none"
    BY <1>0, <2>1 DEF CallOK, Busy, LocalOK
  <2>3. QED
    BY <2>1, <2>2, FailsCall
<1>6. ASSUME RaceWon(c) PROVE CallOK(c)'
  BY <1>0, <1>6, FinishCall DEF RaceWon
<1>7. ASSUME RaceLost(c) PROVE CallOK(c)'
  <2>1. /\ pc[c] = "race" /\ Fails(c, lockQ) /\ UNCHANGED <<req, up>>
        /\ rpc[c] = "err" \/ conn[own[c]] = "done"
    BY <1>7 DEF RaceLost
  <2>2. own[c] = sess[c]
    BY <1>0, <2>1 DEF OwnerOK, RaceWatchesOwner
  <2>3. stage[c] = 1 /\ req[c][1] = "none"
    BY <1>0, <2>1, <2>2 DEF CallOK, Healthy, LocalOK
  <2>4. QED
    BY <2>1, <2>3, FailsCall
<1>8. QED
  BY <1>1, <1>2, <1>3, <1>4, <1>5, <1>6, <1>7 DEF TaskStep

\* What another task does to call c: only its teardown can cut c off, and that
\* is recorded.
LEMMA OtherCall ==
    ASSUME FreshInv, NEW c \in Callers, CallOK(c), ~cut'[c],
           NEW t \in Tasks \ {c}, TaskStep(t)
    PROVE  CallOK(c)'
<1>0. /\ c \in Tasks /\ t \in Tasks /\ LockInv /\ LocalOK /\ SharedOK /\ OwnerInv
      /\ FreshOK
  BY LockInvParts DEF Tasks, FreshInv, OwnerInv
<1>1. up' = up /\ stale' = stale /\ req'[c] = req[c]
  BY <1>0 DEF TaskStep, UseSession, BeginTeardown, EndTeardown, Connected,
     ConnectFailed, RaceWon, RaceLost, Attempt, conVars, netVars, SharedOK
<1>2. Untouched(c)
  BY <1>0, <1>1 DEF TaskStep, UseSession, BeginTeardown, EndTeardown, Connected,
     ConnectFailed, RaceWon, RaceLost, Attempt, Fails, Finish, Connect, netVars,
     Untouched, LocalOK
<1>3. ASSUME pc[c] = "race", Healthy(sess[c]) PROVE Healthy(sess[c])'
  <2>1. sess'[c] = sess[c]
    BY <1>2 DEF Untouched
  <2>2. CASE BeginTeardown(t)
    <3>1. cut'[c] = (cut[c] \/ sess[c] = task) /\ conn' = conn
      BY <1>0, <1>3, <2>2 DEF BeginTeardown
    <3>2. sess[c] \notin stop'
      BY <1>3, <2>2, <3>1 DEF BeginTeardown, SetStop, Healthy
    <3>3. QED
      BY <1>1, <1>3, <2>1, <3>1, <3>2 DEF Healthy
  <2>3. CASE EndTeardown(t)
    <3>1. stop' = stop /\ conn'[sess[c]] = conn[sess[c]]
      BY <1>0, <1>3, <2>3 DEF EndTeardown, Connect, FreeConns, Healthy, SharedOK
    <3>2. QED
      BY <1>1, <1>3, <2>1, <3>1 DEF Healthy
  <2>4. CASE ~BeginTeardown(t) /\ ~EndTeardown(t)
    <3>1. stop' = stop /\ conn' = conn
      BY <2>4 DEF TaskStep, UseSession, Connected, ConnectFailed, RaceWon,
         RaceLost, conVars
    <3>2. QED
      BY <1>1, <1>3, <2>1, <3>1 DEF Healthy
  <2>5. QED
    BY <2>2, <2>3, <2>4
<1>4. ASSUME pc[c] = "conn"
      PROVE  ready'[c] = ready[c] /\ stale' = stale /\ conn'[own[c]] = conn[own[c]]
  <2>1. ~Holds(t)
    BY <1>0, <1>4, HolderIsAlone
  <2>2. RaceWon(t) \/ RaceLost(t)
    BY <1>0, <2>1, BusyHolds DEF TaskStep, UseSession, BeginTeardown, EndTeardown,
       MustTearDown, Connected, ConnectFailed
  <2>3. QED
    BY <2>2 DEF RaceWon, RaceLost, conVars
<1>5. QED
  BY <1>2, <1>3, <1>4, CallFrame

LEMMA ConnCall ==
    ASSUME FreshInv, NEW c \in Callers, CallOK(c), NEW k \in Conns, ConnStep(k)
    PROVE  CallOK(c)'
<1>0. /\ c \in Tasks /\ LockInv /\ LocalOK /\ SharedOK /\ OwnerInv /\ FreshOK
  BY LockInvParts DEF Tasks, FreshInv, OwnerInv
<1>1. UNCHANGED <<pc, stage, own, sess, rpc, outcome, req, up>>
  BY DEF ConnStep, Publish, Unwind, EndConnection, locVars, netVars
<1>2. conn[k] # "done" /\ \A j \in Conns \ {k} : conn'[j] = conn[j]
  BY <1>0 DEF ConnStep, Publish, Unwind, EndConnection, SharedOK
<1>3. CASE pc[c] = "conn"
  <2>1. own[c] = k
    BY <1>0, <1>2, <1>3, AliveIsStarted
  <2>2. CASE stage[c] = 2
    <3>1. /\ up /\ k \notin stale /\ ready[c] \in {"pending", "ok"}
          /\ ready[c] = "pending" => conn[k] = "opening"
      BY <1>3, <2>1, <2>2 DEF CallOK
    <3>2. ready[c] = "ok" => conn[k] = "open" /\ stop = {}
      BY <1>0, <1>3, <2>1, NoStop, BusyHolds DEF FreshOK
    <3>3. Publish(k)
      BY <3>1, <3>2 DEF ConnStep, Unwind, EndConnection, Doomed
    <3>4. ready'[c] = "ok" /\ stale' = stale
      BY <1>0, <2>1, <3>1, <3>2, <3>3 DEF Publish, Waiting, SharedOK
    <3>5. QED
      BY <1>1, <1>3, <2>1, <2>2, <3>1, <3>4 DEF CallOK
  <2>3. CASE stage[c] # 2
    BY <1>1, <1>3, <2>3 DEF CallOK
  <2>4. QED
    BY <2>2, <2>3
<1>4. CASE pc[c] # "conn"
  <2>1. ASSUME pc[c] = "race", Healthy(sess[c]) PROVE FALSE
    <3>1. sess[c] \in Conns
      BY <2>1 DEF Healthy
    <3>2. sess[c] = k
      BY <1>0, <1>2, <2>1, <3>1, AliveIsOne DEF Healthy
    <3>3. QED
      BY <2>1, <3>2 DEF Healthy, ConnStep, Publish, Unwind, EndConnection, Doomed
  <2>2. QED
    BY <1>1, <1>4, <2>1, CallFrame DEF Untouched
<1>5. QED
  BY <1>3, <1>4

LEMMA ExplainStep ==
    ASSUME Cancellable = {}
    PROVE  ExplainInv /\ [Next]_vars => ExplainInv'
<1> SUFFICES ASSUME ExplainInv, [Next]_vars, NEW c \in Callers, Calm(c)'
             PROVE  CallOK(c)'
  BY FreshStep DEF ExplainInv, ExplainOK
<1>0. /\ c \in Tasks /\ c \notin Closers /\ FreshInv /\ LockInv /\ LocalOK
      /\ SharedOK /\ (Calm(c) => CallOK(c))
  BY LockInvParts, UpstreamAssumption
     DEF Tasks, ExplainInv, ExplainOK, FreshInv, OwnerInv
<1>1. ASSUME Start(c) PROVE CallOK(c)'
  <2>1. /\ pc'[c] = "lock" /\ stage'[c] = 1 /\ outcome'[c] = "none"
        /\ req'[c][1] = "none" /\ req'[c][2] = "none"
    BY <1>0, <1>1 DEF Start, LocalOK
  <2>2. sawDown'[c] = ~up /\ up' = up
    BY <1>1 DEF Start
  <2>3. up'
    BY <2>2 DEF Calm
  <2>4. QED
    BY <2>1, <2>3 DEF CallOK
<1>2. ASSUME NEW t \in Tasks \ {c}, Start(t) PROVE CallOK(c)'
  <2>1. /\ Untouched(c) /\ Calm(c)
        /\ UNCHANGED <<conn, stop, stale, ready>>
    BY <1>0, <1>2 DEF Start, Untouched, LocalOK, SharedOK, Calm, conVars
  <2>2. QED
    BY <1>0, <2>1, CallFrame DEF Healthy, Untouched
<1>3. ASSUME NEW t \in Tasks, TaskStep(t) PROVE CallOK(c)'
  <2>1. sawDown' = sawDown /\ (cut[c] => cut'[c])
    BY <1>0, <1>3 DEF TaskStep, UseSession, BeginTeardown, EndTeardown, Connected,
       ConnectFailed, RaceWon, RaceLost, SharedOK
  <2>2. CallOK(c) /\ ~cut'[c]
    BY <1>0, <2>1 DEF Calm
  <2>3. QED
    BY <1>0, <1>3, <2>2, OwnCall, OtherCall
<1>4. ASSUME NEW t \in Probers, CancelRacing(t) PROVE CallOK(c)'
  <2>1. /\ t \in Tasks \ {c} /\ Finish(t, lockQ, "failed")
        /\ UNCHANGED <<conn, stop, stale, ready, req, up, sawDown, cut>>
    BY <1>4, UpstreamAssumption DEF CancelRacing, CancelResult, Tasks, conVars
  <2>2. Untouched(c) /\ Calm(c)
    BY <1>0, <2>1 DEF Finish, Untouched, LocalOK, Calm
  <2>3. QED
    BY <1>0, <2>1, <2>2, CallFrame DEF Healthy, Untouched
<1>5. ASSUME NEW k \in Conns, ConnStep(k) PROVE CallOK(c)'
  <2>1. UNCHANGED <<sawDown, cut>>
    BY <1>5 DEF ConnStep, Publish, Unwind, EndConnection
  <2>2. QED
    BY <1>0, <1>5, <2>1, ConnCall DEF Calm
<1>6. ASSUME NEW t \in Tasks, NetStep(t) \/ Drop(t) PROVE CallOK(c)'
  <2>1. /\ UNCHANGED <<conn, stop, stale, ready, pc, stage, own, sess, outcome, up,
                       sawDown, cut>>
    BY <1>6 DEF NetStep, Respond, Reject, Execute, Drop, conVars, locVars
  <2>2. CallOK(c)
    BY <1>0, <2>1 DEF Calm
  <2>3. \A n \in 1 .. 2 : req'[c][n] = "none" <=> req[c][n] = "none"
    BY <1>0, <1>6 DEF NetStep, Respond, Reject, Execute, Drop, SharedOK
  <2>4. req'[c][1] = "none" <=> req[c][1] = "none"
    BY <2>3
  <2>5. req'[c][2] = "none" <=> req[c][2] = "none"
    BY <2>3
  <2>6. ASSUME pc[c] = "race", stage[c] = 2 \/ req[c][1] # "none"
        PROVE  rpc'[c] \in {"wait", "ok"}
    <3>1. Healthy(sess[c]) /\ rpc[c] \in {"wait", "ok"}
      BY <2>2, <2>6 DEF CallOK
    <3>2. CASE NetStep(t)
      BY <1>0, <3>1, <3>2 DEF NetStep, Respond, Reject, Execute, Healthy, LocalOK
    <3>3. CASE Drop(t)
      BY <1>0, <3>1, <3>3 DEF Drop, Healthy, LocalOK
    <3>4. QED
      BY <1>6, <3>2, <3>3
  <2>7. QED
    BY <2>1, <2>2, <2>4, <2>5, <2>6 DEF CallOK, Healthy
<1>7. ASSUME Crash PROVE CallOK(c)'
  <2>1. /\ pc' = pc /\ outcome' = outcome /\ cut' = cut
        /\ sawDown'[c] = (sawDown[c] \/ pc[c] # "idle")
        /\ \A n \in 1 .. 2 : req[c][n] = "none" => req'[c][n] = "none"
    BY <1>0, <1>7 DEF Crash, locVars, SharedOK
  <2>2. CallOK(c) /\ pc'[c] = "idle"
    BY <1>0, <2>1 DEF Calm
  <2>3. QED
    BY <2>1, <2>2 DEF CallOK
<1>8. ASSUME Restart PROVE CallOK(c)'
  <2>1. /\ ~up /\ UNCHANGED <<pc, outcome, req, sawDown, cut>>
    BY <1>8 DEF Restart, locVars, netVars
  <2>2. CallOK(c) /\ pc[c] = "idle"
    BY <1>0, <2>1 DEF Calm, CallOK
  <2>3. QED
    BY <2>1, <2>2 DEF CallOK
<1>9. ASSUME UNCHANGED vars PROVE CallOK(c)'
  BY <1>0, <1>9 DEF vars, Calm, CallOK, Healthy
<1>10. QED
  BY <1>1, <1>2, <1>3, <1>4, <1>5, <1>6, <1>7, <1>8, <1>9 DEF Next

LEMMA ExplainInvariant ==
    ASSUME Cancellable = {}
    PROVE  Spec => []ExplainInv
<1>1. FreshInv /\ Init => ExplainInv
  BY DEF Init, ExplainInv, ExplainOK, CallOK, Tasks
<1>2. ExplainInv /\ [Next]_vars => ExplainInv'
  BY ExplainStep
<1>3. QED
  BY <1>1, <1>2, FreshInvariant, PTL DEF Spec

\* A call ends with BACKEND_UNAVAILABLE only if the backend was down during it
\* or another call's reconnect cut it off: one reconnect is enough otherwise
\* (upstream.py:120-149).
THEOREM UnavailableExplained ==
    ASSUME Cancellable = {}
    PROVE  Spec => []UnavailableIsExplained
<1>1. ExplainInv => UnavailableIsExplained
  BY DEF ExplainInv, ExplainOK, UnavailableIsExplained, CallOK, Calm
<1>2. QED
  BY <1>1, ExplainInvariant, PTL

\* The retry repeats a request that was executed only after a crash during the
\* call or a cut by another call: an answer that is on its way is never
\* overtaken by a second execution.
THEOREM TwiceExplained ==
    ASSUME Cancellable = {}
    PROVE  Spec => []TwiceIsExplained
<1>1. ExplainInv => TwiceIsExplained
  BY DEF ExplainInv, ExplainOK, TwiceIsExplained, CallOK, Calm
<1>2. QED
  BY <1>1, ExplainInvariant, PTL

-----------------------------------------------------------------------------
\* The shutdown: once close() has begun it is alone, and it only tears down.
ClosingOK ==
    \A c \in Closers :
        /\ pc[c] # "idle" \/ outcome[c] # "none" =>
              \A t \in Tasks \ {c} : pc[t] = "idle"
        /\ pc[c] \in {"idle", "lock", "tear"}
        /\ pc[c] # "idle" => stage[c] = 3 /\ outcome[c] = "none"
        /\ outcome[c] # "none" =>
              /\ session = None /\ task = None
              /\ \A k \in Conns : conn[k] = "done"

ClosingInv == OwnerInv /\ ClosingOK

LEMMA ClosingStep ==
    ASSUME Cancellable = {}
    PROVE  ClosingInv /\ [Next]_vars => ClosingInv'
<1> SUFFICES ASSUME ClosingInv, [Next]_vars PROVE ClosingOK'
  BY OwnerStep DEF ClosingInv
<1>0. /\ OwnerInv /\ LockInv /\ LocalOK /\ SharedOK /\ ClosingOK
      /\ Closers \subseteq Tasks /\ Probers \subseteq Tasks
  BY LockInvParts DEF ClosingInv, OwnerInv, Tasks
<1>1. ASSUME NEW t \in Tasks, Start(t) PROVE ClosingOK'
  <2>1. /\ \A c \in Closers : pc[c] = "idle" /\ outcome[c] = "none"
        /\ t \in Closers => \A u \in Tasks : pc[u] = "idle"
        /\ pc' = [pc EXCEPT ![t] = "lock"] /\ outcome' = [outcome EXCEPT ![t] = "none"]
        /\ stage' = [stage EXCEPT ![t] = IF t \in Closers THEN 3 ELSE 1]
    BY <1>1 DEF Start
  <2>2. QED
    BY <1>0, <2>1 DEF ClosingOK, LocalOK
<1>2. ASSUME NEW t \in Tasks, pc[t] # "idle",
             \A u \in Tasks \ {t} : pc'[u] = pc[u] /\ outcome'[u] = outcome[u],
             t \notin Closers, stage' = [stage EXCEPT ![t] = stage'[t]]
      PROVE  ClosingOK'
  <2>1. \A c \in Closers : pc[c] = "idle" /\ outcome[c] = "none" /\ c # t
    BY <1>0, <1>2 DEF ClosingOK
  <2>2. QED
    BY <1>0, <1>2, <2>1 DEF ClosingOK
<1>3. ASSUME NEW t \in Tasks \ Closers, TaskStep(t) PROVE ClosingOK'
  <2>1. /\ pc[t] # "idle" /\ stage' = [stage EXCEPT ![t] = stage'[t]]
        /\ \A u \in Tasks \ {t} : pc'[u] = pc[u] /\ outcome'[u] = outcome[u]
    BY <1>0, <1>3 DEF TaskStep, UseSession, BeginTeardown, EndTeardown, Connected,
       ConnectFailed, RaceWon, RaceLost, Attempt, Fails, Finish, Connect,
       MustTearDown, LocalOK
  <2>2. QED
    BY <1>2, <1>3, <2>1
<1>4. ASSUME NEW c \in Closers, TaskStep(c) PROVE ClosingOK'
  <2>1. pc[c] \in {"lock", "tear"} /\ stage[c] = 3 /\ outcome[c] = "none"
    BY <1>0, <1>4 DEF TaskStep, UseSession, BeginTeardown, EndTeardown, Connected,
       ConnectFailed, RaceWon, RaceLost, MustTearDown, ClosingOK
  <2>2. /\ \A t \in Tasks \ {c} : pc[t] = "idle"
        /\ \A b \in Closers \ {c} : pc[b] = "idle" /\ outcome[b] = "none"
    BY <1>0, <2>1 DEF ClosingOK
  <2>3. BeginTeardown(c) \/ EndTeardown(c)
    BY <1>4, <2>1 DEF TaskStep, UseSession, Connected, ConnectFailed, RaceWon, RaceLost
  <2>4. CASE BeginTeardown(c)
    BY <1>0, <2>1, <2>2, <2>4 DEF BeginTeardown, ClosingOK, LocalOK
  <2>5. CASE EndTeardown(c)
    <3>1. /\ Holds(c) /\ pc[c] # "conn" /\ (task = None \/ conn[task] = "done")
      BY <1>0, <2>1, <2>5, BusyHolds DEF EndTeardown, MustTearDown
    <3>2. \A k \in Conns : conn[k] = "done"
      BY <1>0, <3>1, AliveIsRecorded, ConnsAreNotNone
    <3>3. /\ Finish(c, Tail(lockQ), "closed") /\ session' = None /\ task' = None
          /\ conn' = conn
      BY <2>1, <2>5 DEF EndTeardown
    <3>4. /\ pc'[c] = "idle" /\ outcome'[c] = "closed"
          /\ \A t \in Tasks \ {c} : pc'[t] = "idle" /\ outcome'[t] = outcome[t]
      BY <1>0, <2>2, <3>3 DEF Finish, LocalOK
    <3>5. QED
      BY <1>0, <2>2, <3>2, <3>3, <3>4 DEF ClosingOK
  <2>6. QED
    BY <2>3, <2>4, <2>5
<1>5. ASSUME NEW t \in Probers, CancelRacing(t) PROVE ClosingOK'
  <2>1. pc[t] = "race" /\ Finish(t, lockQ, CancelResult(t)) /\ t \in Tasks
    BY <1>0, <1>5 DEF CancelRacing
  <2>2. /\ pc[t] # "idle" /\ stage' = [stage EXCEPT ![t] = stage'[t]]
        /\ \A u \in Tasks \ {t} : pc'[u] = pc[u] /\ outcome'[u] = outcome[u]
        /\ t \notin Closers
    BY <1>0, <1>5, <2>1, UpstreamAssumption DEF Finish, LocalOK
  <2>3. QED
    BY <1>2, <2>1, <2>2
<1>6. ASSUME NEW k \in Conns, ConnStep(k) PROVE ClosingOK'
  <2>1. Elsewhere /\ conn[k] # "done"
    BY <1>0, <1>6, ConnLock DEF ConnStep, Publish, Unwind, EndConnection
  <2>2. QED
    BY <1>0, <2>1 DEF ClosingOK, Elsewhere
<1>7. ASSUME \/ \E t \in Tasks : NetStep(t) \/ Drop(t)
             \/ Crash \/ Restart \/ UNCHANGED vars
      PROVE  ClosingOK'
  <2>1. UNCHANGED <<session, task, conn, pc, stage, outcome>>
    BY <1>0, <1>7, NetLock DEF Elsewhere, vars
  <2>2. QED
    BY <1>0, <2>1 DEF ClosingOK
<1>8. QED
  BY <1>1, <1>3, <1>4, <1>5, <1>6, <1>7 DEF Next

\* close() leaves nothing behind: no live connection, no session, no recorded
\* task and a free lock (upstream.py, Backend.close; the lifespan of app.py).
THEOREM CloseIsClean ==
    ASSUME Cancellable = {}
    PROVE  Spec => []ClosedIsClean
<1>1. OwnerInv /\ Init => ClosingInv
  BY DEF Init, ClosingInv, ClosingOK, Tasks
<1>2. ClosingInv /\ [Next]_vars => ClosingInv'
  BY ClosingStep
<1>3. ClosingInv => ClosedIsClean
  <2> SUFFICES ASSUME ClosingInv, NEW c \in Closers, outcome[c] = "closed"
               PROVE  lockQ = <<>>
    BY DEF ClosedIsClean, ClosingInv, ClosingOK
  <2>1. lockQ \in Seq(Tasks) /\ QueueOK(lockQ, pc)
    BY LockInvParts DEF ClosingInv, OwnerInv, LocalOK
  <2>2. \A t \in Tasks : pc[t] \notin Busy
    BY DEF ClosingInv, ClosingOK, Busy, Tasks
  <2>3. \A i \in DOMAIN lockQ : lockQ[i] \in Tasks /\ InQ(lockQ, lockQ[i])
    BY <2>1 DEF InQ
  <2>4. DOMAIN lockQ = {}
    BY <2>1, <2>2, <2>3 DEF QueueOK
  <2>5. QED
    BY <2>1, <2>4
<1>4. QED
  BY <1>1, <1>2, <1>3, OwnerInvariant, PTL DEF Spec

-----------------------------------------------------------------------------
\* What Backend.call promises.

\* A request is answered when the backend has executed it.
AnswerOK ==
    \A c \in Callers : pc[c] = "race" /\ rpc[c] = "ok" => req[c][stage[c]] = "run"

\* The calls as RemoteCall sees them.
Attempts == [c \in Callers |-> IF pc[c] = "idle" THEN 0 ELSE stage[c]]
Asked    == {c \in Callers : pc[c] = "race"}
Results  == [c \in Callers |-> outcome[c]]

\* What RemoteCall sees of d, and whether its request is answered, stays.
Kept(d) ==
    /\ pc'[d] = pc[d] /\ stage'[d] = stage[d] /\ outcome'[d] = outcome[d]
    /\ req'[d] = req[d] /\ rpc'[d] = rpc[d]

\* A step that only c takes part in.
Alone(c) == \A d \in Callers \ {c} : Kept(d)

\* How c's part of a step shows.
LEMMA CallerStep ==
    ASSUME LockInv, NEW c \in Callers, Alone(c)
    PROVE  /\ Attempts' = [Attempts EXCEPT
                             ![c] = IF pc'[c] = "idle" THEN 0 ELSE stage'[c]]
           /\ Asked' = IF pc'[c] = "race" THEN Asked \cup {c} ELSE Asked \ {c}
           /\ Results' = [Results EXCEPT ![c] = outcome'[c]]
  BY DEF Alone, Kept, Attempts, Asked, Results

LEMMA CallersStay ==
    ASSUME LockInv, \A c \in Callers : Kept(c), req' = req
    PROVE  UNCHANGED Remote!vars
<1>1. Attempts' = Attempts /\ Asked' = Asked /\ Results' = Results
  BY DEF Kept, Attempts, Asked, Results
<1>2. QED
  BY <1>1 DEF Remote!vars, Attempts, Asked, Results

\* Nobody but c takes part in the end of its attempt or its call.
LEMMA LeavingAlone ==
    ASSUME LockInv, NEW t \in Tasks, NEW q, NEW r, UNCHANGED req,
           Finish(t, q, r) \/ Fails(t, q)
    PROVE  \A d \in Callers : d # t => Kept(d)
  BY LockInvParts DEF Finish, Fails, Kept, LocalOK, Tasks

LEMMA AttemptAlone ==
    ASSUME LockInv, NEW t \in Tasks, NEW q, NEW s, NEW o, Attempt(t, q, s, o)
    PROVE  /\ \A d \in Callers : d # t => Kept(d)
           /\ t \notin Callers => req' = req
<1>1. \A d \in Callers : d # t => req'[d] = req[d]
  BY LockInvParts DEF Attempt, SharedOK
<1>2. QED
  BY <1>1, LockInvParts DEF Attempt, Finish, Fails, Kept, LocalOK, Tasks

\* The end of a call: answered, given up or cancelled.
LEMMA FinishRemote ==
    ASSUME LockInv, NEW c \in Callers, NEW q, NEW r, Finish(c, q, r), UNCHANGED req
    PROVE  Alone(c) /\ pc'[c] = "idle" /\ Remote!Over(c, r)
<1>1. c \in Tasks /\ Alone(c)
  BY LeavingAlone DEF Alone, Tasks
<1>2. pc'[c] = "idle" /\ outcome'[c] = r
  BY <1>1, LockInvParts DEF Finish, LocalOK
<1>3. /\ Attempts' = [Attempts EXCEPT ![c] = 0] /\ Asked' = Asked \ {c}
      /\ Results' = [Results EXCEPT ![c] = r]
  BY <1>1, <1>2, CallerStep
<1>4. QED
  BY <1>1, <1>2, <1>3 DEF Remote!Over, Attempts, Asked, Results

\* A failed attempt.  It may have sent its request just now.
LEMMA FailsRemote ==
    ASSUME LockInv, NEW c \in Callers, NEW q, Fails(c, q), pc[c] # "idle",
           stage[c] < 3, \A d \in Callers \ {c} : req'[d] = req[d],
           pc[c] = "race" => req' = req,
           req' \in {req, [req EXCEPT ![c][stage[c]] = "sent"]}
    PROVE  Alone(c) /\ pc'[c] # "race" /\ Remote!Fail(c)
<1>0. /\ c \in Tasks /\ c \notin Probers /\ stage[c] \in 1 .. 2
      /\ pc'[c] = "lock" /\ stage'[c] = stage[c] + 1 /\ outcome' = outcome
      /\ \A d \in Callers \ {c} : pc'[d] = pc[d] /\ stage'[d] = stage[d] /\ rpc'[d] = rpc[d]
  BY UpstreamAssumption, LockInvParts DEF Fails, LocalOK, Tasks
<1>1. Alone(c)
  BY <1>0 DEF Alone, Kept
<1>2. /\ Attempts' = [Attempts EXCEPT ![c] = stage[c] + 1]
      /\ Asked' = Asked \ {c} /\ Results' = [Results EXCEPT ![c] = outcome[c]]
  BY <1>0, <1>1, CallerStep
<1>3. /\ Attempts[c] = stage[c] /\ Results' = Results /\ (c \in Asked <=> pc[c] = "race")
  BY <1>0, <1>2 DEF Attempts, Results, Asked
<1>4. /\ Attempts[c] \in 1 .. 2 /\ Attempts' = [Attempts EXCEPT ![c] = @ + 1]
      /\ c \in Asked => req' = req
      /\ c \notin Asked => req' \in {req, [req EXCEPT ![c][Attempts[c]] = "sent"]}
  BY <1>0, <1>2, <1>3
<1>5. QED
  BY <1>0, <1>1, <1>2, <1>3, <1>4 DEF Remote!Fail, Remote!Sent, Attempts, Asked, Results

\* An attempt has a session, or fails while its request is started.
LEMMA AttemptRemote ==
    ASSUME LockInv, NEW c \in Callers, NEW q, NEW s, NEW o, Attempt(c, q, s, o),
           pc[c] \in {"lock", "conn"}, stage[c] < 3
    PROVE  /\ Alone(c)
           /\ pc'[c] = "race" => rpc'[c] = "wait"
           /\ Remote!Ask(c) \/ Remote!Fail(c)
<1>0. /\ c \in Tasks /\ c \notin Probers /\ stage[c] \in 1 .. 2 /\ pc[c] # "idle"
      /\ req' \in {req, [req EXCEPT ![c][stage[c]] = "sent"]}
  BY UpstreamAssumption, LockInvParts DEF Attempt, LocalOK, Tasks
<1>1. Alone(c)
  BY <1>0, AttemptAlone DEF Alone
<1>2. CASE s # None /\ o # None
  <2>1. /\ pc'[c] = "race" /\ rpc'[c] = "wait" /\ stage' = stage /\ outcome' = outcome
    BY <1>0, <1>2, LockInvParts DEF Attempt, LocalOK
  <2>2. /\ Attempts' = [Attempts EXCEPT ![c] = stage[c]]
        /\ Asked' = Asked \cup {c} /\ Results' = [Results EXCEPT ![c] = outcome[c]]
    BY <1>1, <2>1, CallerStep
  <2>3. Attempts[c] = stage[c] /\ Attempts' = Attempts /\ Results' = Results /\ c \notin Asked
    BY <1>0, <2>2 DEF Attempts, Results, Asked
  <2>4. QED
    BY <1>0, <1>1, <2>1, <2>2, <2>3 DEF Remote!Ask, Remote!Sent, Attempts, Asked, Results
<1>3. CASE ~(s # None /\ o # None)
  <2>1. Fails(c, q) /\ \A d \in Callers \ {c} : req'[d] = req[d]
    BY <1>0, <1>1, <1>3 DEF Attempt, Alone, Kept
  <2>2. QED
    BY <1>0, <2>1, FailsRemote
<1>4. QED
  BY <1>2, <1>3

-----------------------------------------------------------------------------
\* What becomes of the calls in every step.

\* A step of the calls, or none that shows; and no answer without execution.
Shows == [Remote!Next]_(Remote!vars) /\ AnswerOK'

\* c's own step: its answer is none, or that of an executed request.
LEMMA CallerShows ==
    ASSUME LockInv, AnswerOK, NEW c \in Callers, Alone(c),
           pc'[c] = "race" => rpc'[c] = "wait", [Remote!Next]_(Remote!vars)
    PROVE  Shows
<1>1. AnswerOK'
  BY DEF AnswerOK, Alone, Kept
<1>2. QED
  BY <1>1 DEF Shows

LEMMA StayShows ==
    ASSUME LockInv, AnswerOK, \A c \in Callers : Kept(c), req' = req
    PROVE  Shows
<1>1. AnswerOK'
  BY DEF AnswerOK, Kept
<1>2. QED
  BY <1>1, CallersStay DEF Shows

LEMMA StartShows ==
    ASSUME LockInv, AnswerOK, NEW t \in Tasks, Start(t)
    PROVE  Shows
<1>1. /\ \A d \in Callers : d # t => Kept(d)
      /\ req' = [c \in Callers |-> IF c = t THEN [n \in 1 .. 2 |-> "none"] ELSE req[c]]
  BY LockInvParts DEF Start, Kept, LocalOK, Tasks
<1>2. CASE t \notin Callers
  <2>1. req' = req
    BY <1>1, <1>2, LockInvParts DEF SharedOK
  <2>2. QED
    BY <1>1, <1>2, <2>1, StayShows
<1>3. CASE t \in Callers
  <2>1. /\ pc[t] = "idle" /\ pc'[t] = "lock" /\ stage'[t] = 1 /\ outcome'[t] = "none"
        /\ Alone(t)
    BY <1>1, <1>3, UpstreamAssumption, LockInvParts DEF Start, LocalOK, Alone
  <2>2. /\ Attempts' = [Attempts EXCEPT ![t] = 1] /\ Asked' = Asked \ {t}
        /\ Results' = [Results EXCEPT ![t] = "none"]
    BY <1>3, <2>1, CallerStep
  <2>3. Attempts[t] = 0 /\ Asked' = Asked
    BY <1>3, <2>1, <2>2 DEF Attempts, Asked
  <2>4. req' = [req EXCEPT ![t] = [n \in 1 .. 2 |-> "none"]]
    BY <1>1, <1>3, LockInvParts DEF SharedOK
  <2>5. Remote!Call(t)
    BY <2>2, <2>3, <2>4 DEF Remote!Call, Attempts, Asked, Results
  <2>6. QED
    BY <1>3, <2>1, <2>5, CallerShows DEF Remote!Next
<1>4. QED
  BY <1>2, <1>3

\* UseSession and Connected make an attempt.
LEMMA AttemptShows ==
    ASSUME LockInv, AnswerOK, NEW t \in Tasks, UseSession(t) \/ Connected(t)
    PROVE  Shows
<1>1. PICK s, o : Attempt(t, Tail(lockQ), s, o)
  BY DEF UseSession, Connected
<1>2. /\ pc[t] \in {"lock", "conn"} /\ stage[t] < 3
  BY LockInvParts DEF UseSession, Connected, LocalOK, StageOK
<1>3. CASE t \in Callers
  <2>1. /\ Alone(t)
        /\ pc'[t] = "race" => rpc'[t] = "wait"
        /\ Remote!Ask(t) \/ Remote!Fail(t)
    BY <1>1, <1>2, <1>3, AttemptRemote
  <2>2. [Remote!Next]_(Remote!vars)
    BY <1>3, <2>1 DEF Remote!Next
  <2>3. QED
    BY <1>3, <2>1, <2>2, CallerShows
<1>4. CASE t \notin Callers
  BY <1>1, <1>4, AttemptAlone, StayShows
<1>5. QED
  BY <1>3, <1>4

\* The steps of a task that is no caller leave the calls alone.
LEMMA BystanderShows ==
    ASSUME LockInv, AnswerOK, NEW t \in Tasks \ Callers, NEW q, NEW r,
           UNCHANGED req, Finish(t, q, r) \/ Fails(t, q)
    PROVE  Shows
  BY LeavingAlone, StayShows

\* A call's answer, its end without one, and the end of its attempt.
LEMMA FinishShows ==
    ASSUME LockInv, AnswerOK, NEW c \in Callers, NEW q, NEW r, Finish(c, q, r),
           UNCHANGED req, Remote!Over(c, r) => Remote!Next
    PROVE  Shows
  BY FinishRemote, CallerShows

LEMMA FailsShows ==
    ASSUME LockInv, AnswerOK, NEW c \in Callers, NEW q, Fails(c, q), UNCHANGED req,
           pc[c] # "idle", stage[c] < 3
    PROVE  Shows
  BY FailsRemote, CallerShows DEF Remote!Next

LEMMA TeardownShows ==
    ASSUME LockInv, AnswerOK, NEW t \in Tasks, BeginTeardown(t) \/ EndTeardown(t)
    PROVE  Shows
<1>0. req' = req /\ pc[t] \in Busy
  BY DEF BeginTeardown, EndTeardown, MustTearDown, netVars, Busy
<1>1. CASE BeginTeardown(t) \/ (EndTeardown(t) /\ stage[t] < 3)
  <2>1. PICK p \in {"tear", "conn"} : pc' = [pc EXCEPT ![t] = p]
    BY <1>1 DEF BeginTeardown, EndTeardown, Connect
  <2>2. UNCHANGED <<stage, outcome, rpc>>
    BY <1>1 DEF BeginTeardown, EndTeardown, Connect, netVars
  <2>3. /\ Attempts' = Attempts /\ Asked' = Asked /\ Results' = Results
    BY <1>0, <2>1, <2>2, LockInvParts DEF Attempts, Asked, Results, LocalOK, Busy, Tasks
  <2>4. AnswerOK'
    BY <1>0, <2>1, <2>2, LockInvParts DEF AnswerOK, LocalOK, Tasks
  <2>5. QED
    BY <1>0, <2>3, <2>4 DEF Shows, Remote!vars, Attempts, Asked, Results
<1>2. CASE EndTeardown(t) /\ ~(stage[t] < 3)
  <2>1. Finish(t, Tail(lockQ), IF t \in Closers THEN "closed" ELSE "unavail")
    BY <1>2 DEF EndTeardown
  <2>2. CASE t \in Callers
    <3>1. t \notin Closers /\ stage[t] = 3 /\ t \notin Asked /\ Attempts[t] = 3
      BY <1>0, <1>2, <2>2, UpstreamAssumption, LockInvParts
         DEF LocalOK, Asked, Attempts, Busy
    <3>2. Remote!Over(t, "unavail") => Remote!Next
      BY <2>2, <3>1 DEF Remote!Next, Remote!GiveUp, Asked, Attempts
    <3>3. QED
      BY <1>0, <2>1, <2>2, <3>1, <3>2, FinishShows
  <2>3. CASE t \notin Callers
    BY <1>0, <2>1, <2>3, BystanderShows
  <2>4. QED
    BY <2>2, <2>3
<1>3. QED
  BY <1>1, <1>2

LEMMA ConnectFailedShows ==
    ASSUME LockInv, AnswerOK, NEW t \in Tasks, ConnectFailed(t)
    PROVE  Shows
<1>1. /\ req' = req /\ pc[t] = "conn" /\ stage[t] \in 1 .. 2
  BY LockInvParts DEF ConnectFailed, LocalOK, StageOK
<1>2. CASE t \notin Callers
  BY <1>1, <1>2, BystanderShows DEF ConnectFailed
<1>3. CASE t \in Callers /\ stage[t] = 1
  BY <1>1, <1>3, FailsShows DEF ConnectFailed
<1>4. CASE t \in Callers /\ stage[t] # 1
  <2>1. Finish(t, Tail(lockQ), "unavail")
    BY <1>4 DEF ConnectFailed
  <2>2. t \notin Asked /\ Attempts[t] = 2
    BY <1>1, <1>4 DEF Asked, Attempts
  <2>3. Remote!Over(t, "unavail") => Remote!Next
    BY <1>4, <2>2 DEF Remote!Next, Remote!GiveUp, Asked, Attempts
  <2>4. QED
    BY <1>1, <1>4, <2>1, <2>3, FinishShows
<1>5. QED
  BY <1>2, <1>3, <1>4

LEMMA RaceShows ==
    ASSUME LockInv, AnswerOK, NEW t \in Tasks, RaceWon(t) \/ RaceLost(t)
    PROVE  Shows
<1>1. /\ req' = req /\ pc[t] = "race" /\ stage[t] < 3
  BY LockInvParts DEF RaceWon, RaceLost, LocalOK, StageOK
<1>2. CASE t \notin Callers
  BY <1>1, <1>2, BystanderShows DEF RaceWon, RaceLost
<1>3. CASE t \in Callers /\ RaceLost(t)
  BY <1>1, <1>3, FailsShows DEF RaceLost
<1>4. CASE t \in Callers /\ RaceWon(t)
  <2>1. Finish(t, lockQ, "ok")
    BY <1>4 DEF RaceWon
  <2>2. t \in Asked /\ Attempts[t] = stage[t] /\ req[t][stage[t]] = "run"
    BY <1>1, <1>4 DEF Asked, Attempts, AnswerOK, RaceWon
  <2>3. Remote!Over(t, "ok") => Remote!Next
    BY <1>4, <2>2 DEF Remote!Next, Remote!Answer, Asked, Attempts
  <2>4. QED
    BY <1>1, <1>4, <2>1, <2>3, FinishShows
<1>5. QED
  BY <1>2, <1>3, <1>4

\* A cancelled call is over, except while it awaits a teardown.
LEMMA CancelShows ==
    ASSUME LockInv, AnswerOK, NEW t \in Cancellable \cup Probers,
           Cancel(t), t \in Cancellable \/ CancelRacing(t)
    PROVE  Shows
<1>0. t \in Tasks
  BY UpstreamAssumption DEF Tasks
<1>1. CASE CancelLostInTeardown(t)
  BY <1>1, StayShows DEF CancelLostInTeardown, Kept, locVars, netVars
<1>2. CASE t \notin Callers /\ ~CancelLostInTeardown(t)
  <2>1. t \in Probers
    BY <1>0, <1>2, UpstreamAssumption
  <2>2. \E q, r : req' = req /\ Finish(t, q, r)
    BY <1>2, <2>1 DEF Cancel, CancelQueued, CancelConnecting, CancelRacing
  <2>3. QED
    BY <1>0, <1>2, <2>2, BystanderShows
<1>3. CASE t \in Callers /\ ~CancelLostInTeardown(t)
  <2>1. t \notin Probers /\ t \in Cancellable \cap Callers /\ req' = req
    BY <1>3, UpstreamAssumption
       DEF Cancel, CancelQueued, CancelConnecting, CancelRacing
  <2>2. Attempts[t] # 0
    BY <1>0, <1>3, LockInvParts
       DEF Attempts, Cancel, CancelQueued, CancelConnecting, CancelRacing, LocalOK
  <2>3. Remote!Over(t, "cancelled") => Remote!Next
    BY <2>1, <2>2 DEF Remote!Next, Remote!Cancel, Attempts
  <2>4. CASE ~CancelRacing(t)
    <3>1. \E q : Finish(t, q, "cancelled")
      BY <1>3, <2>1, <2>4 DEF Cancel, CancelQueued, CancelConnecting, CancelResult
    <3>2. QED
      BY <1>3, <2>1, <2>3, <3>1, FinishShows
  <2>5. CASE CancelRacing(t)
    <3>1. /\ pc' = [pc EXCEPT ![t] = "idle"]
          /\ outcome' = [outcome EXCEPT ![t] = "cancelled"]
          /\ UNCHANGED <<stage, rpc>>
      BY <2>1, <2>5 DEF CancelRacing
    <3>2. Alone(t) /\ pc'[t] = "idle" /\ outcome'[t] = "cancelled"
      BY <1>0, <2>1, <3>1, LockInvParts DEF Alone, Kept, LocalOK, Tasks
    <3>3. /\ Attempts' = [Attempts EXCEPT ![t] = 0] /\ Asked' = Asked \ {t}
          /\ Results' = [Results EXCEPT ![t] = "cancelled"]
      BY <1>3, <3>2, CallerStep
    <3>4. Remote!Over(t, "cancelled")
      BY <2>1, <3>3 DEF Remote!Over, Attempts, Asked, Results
    <3>5. QED
      BY <1>3, <2>3, <3>2, <3>4, CallerShows
  <2>6. QED
    BY <2>4, <2>5
<1>4. QED
  BY <1>1, <1>2, <1>3

\* An answer is given to a request that has been executed.
LEMMA NetShows ==
    ASSUME LockInv, AnswerOK,
           \/ \E t \in Tasks : NetStep(t) \/ Drop(t)
           \/ Crash \/ Restart
    PROVE  Shows
<1>1. /\ pc' = pc /\ stage' = stage /\ outcome' = outcome
      /\ Attempts' = Attempts /\ Asked' = Asked /\ Results' = Results
  BY NetLock DEF Elsewhere, Attempts, Asked, Results
<1>2. ASSUME NEW t \in Tasks, Respond(t) \/ Reject(t) \/ Drop(t) PROVE Shows
  <2>1. req' = req /\ \A d \in Callers : rpc'[d] = "ok" =>
                         rpc[d] = "ok" \/ req[d][stage[d]] = "run"
    BY <1>2, LockInvParts DEF Respond, Reject, Drop, LocalOK, Tasks
  <2>2. AnswerOK'
    BY <1>1, <2>1 DEF AnswerOK
  <2>3. QED
    BY <1>1, <2>1, <2>2 DEF Shows, Remote!vars, Attempts, Asked, Results
<1>3. ASSUME NEW c \in Callers, NEW n \in 1 .. 2, Execute(c, n) PROVE Shows
  <2>1. rpc' = rpc /\ \A d \in Callers, m \in 1 .. 2 : req[d][m] = "run" => req'[d][m] = "run"
    BY <1>3, LockInvParts DEF Execute, SharedOK
  <2>2. AnswerOK'
    <3>1. \A d \in Callers : pc[d] = "race" => stage[d] \in 1 .. 2
      BY LockInvParts DEF LocalOK, StageOK, Tasks
    <3>2. QED
      BY <1>1, <2>1, <3>1 DEF AnswerOK
  <2>3. Remote!Execute(c, n)
    BY <1>1, <1>3 DEF Execute, Remote!Execute, Attempts, Asked, Results
  <2>4. QED
    BY <2>2, <2>3 DEF Shows, Remote!Next
<1>4. ASSUME Crash PROVE Shows
  <2>1. rpc' = rpc /\ \A d \in Callers, m \in 1 .. 2 : req[d][m] = "run" => req'[d][m] = "run"
    BY <1>4 DEF Crash
  <2>2. AnswerOK'
    <3>1. \A d \in Callers : pc[d] = "race" => stage[d] \in 1 .. 2
      BY LockInvParts DEF LocalOK, StageOK, Tasks
    <3>2. QED
      BY <1>1, <2>1, <3>1 DEF AnswerOK
  <2>3. Remote!Crash
    BY <1>1, <1>4 DEF Crash, Remote!Crash, Attempts, Asked, Results
  <2>4. QED
    BY <2>2, <2>3 DEF Shows, Remote!Next
<1>5. ASSUME Restart PROVE Shows
  BY <1>1, <1>5, StayShows DEF Restart, Kept, netVars
<1>6. QED
  BY <1>2, <1>3, <1>4, <1>5 DEF NetStep

LEMMA ConnShows ==
    ASSUME LockInv, AnswerOK, NEW k \in Conns, ConnStep(k)
    PROVE  Shows
<1>1. Elsewhere /\ rpc' = rpc /\ req' = req
  BY ConnLock DEF ConnStep, Publish, Unwind, EndConnection, netVars
<1>2. QED
  BY <1>1, StayShows DEF Elsewhere, Kept

LEMMA RemoteStep == LockInv /\ AnswerOK /\ [Next]_vars => Shows
<1> SUFFICES ASSUME LockInv, AnswerOK, [Next]_vars PROVE Shows
  OBVIOUS
<1>1. ASSUME NEW t \in Tasks, Start(t) \/ TaskStep(t) PROVE Shows
  BY <1>1, StartShows, AttemptShows, TeardownShows, ConnectFailedShows, RaceShows
     DEF TaskStep
<1>2. ASSUME NEW t \in Cancellable, Cancel(t) PROVE Shows
  BY <1>2, CancelShows
<1>3. ASSUME NEW t \in Probers, CancelRacing(t) PROVE Shows
  BY <1>3, CancelShows DEF Cancel
<1>4. ASSUME NEW k \in Conns, ConnStep(k) PROVE Shows
  BY <1>4, ConnShows
<1>5. ASSUME \/ \E t \in Tasks : NetStep(t) \/ Drop(t)
             \/ Crash \/ Restart
      PROVE  Shows
  BY <1>5, NetShows
<1>6. ASSUME UNCHANGED vars PROVE Shows
  BY <1>6, StayShows DEF vars, Kept
<1>7. QED
  BY <1>1, <1>2, <1>3, <1>4, <1>5, <1>6 DEF Next

\* For any tasks, connections and cancellations, Backend.call
\* (upstream.py:116-145) is the remote call of RemoteCall: an answer is the
\* backend's to a request of the attempt under way, a second request is sent
\* only when the first attempt has failed, and no other.
THEOREM ImplementsRemoteCall == Spec => IsRemoteCall
<1>1. Init => Remote!Init /\ AnswerOK
  BY DEF Init, Remote!Init, AnswerOK, Tasks
<1>2. LockInv /\ AnswerOK /\ [Next]_vars => [Remote!Next]_(Remote!vars) /\ AnswerOK'
  BY RemoteStep DEF Shows
<1>3. QED
  BY <1>1, <1>2, LockInvariant, PTL DEF Spec, IsRemoteCall, Remote!Spec

\* What an answer means, on the calls as RemoteCall sees them: a call under way
\* has no result yet, so that no later request replaces the one answered.
Promised ==
    \A c \in Callers :
        /\ Results[c] = "ok" => \E n \in 1 .. 2 : req[c][n] = "run"
        /\ Attempts[c] # 0 => Results[c] = "none"

LEMMA PromisedStep ==
    ASSUME LockInv, Promised, [Remote!Next]_(Remote!vars)
    PROVE  Promised'
<1>1. /\ req \in [Callers -> [1 .. 2 -> {"none", "sent", "run"}]]
      /\ \A c \in Asked : Attempts[c] \in 1 .. 2
      /\ Attempts = [c \in Callers |-> Attempts[c]]
      /\ Results = [c \in Callers |-> Results[c]]
  <2>1. \A c \in Callers : pc[c] = "race" => stage[c] \in 1 .. 2
    BY LockInvParts DEF LocalOK, StageOK, Tasks
  <2>2. QED
    BY <2>1, LockInvParts DEF Attempts, Results, Asked, SharedOK
<1>2. ASSUME NEW d \in Callers, Remote!Call(d) PROVE Promised'
  <2>1. /\ Attempts' = [Attempts EXCEPT ![d] = 1] /\ Results' = [Results EXCEPT ![d] = "none"]
        /\ req' = [req EXCEPT ![d] = [n \in 1 .. 2 |-> "none"]]
    BY <1>2 DEF Remote!Call, Attempts, Results
  <2>2. QED
    BY <1>1, <2>1 DEF Promised
<1>3. ASSUME NEW d \in Callers, Remote!Ask(d) \/ Remote!Fail(d) PROVE Promised'
  <2>1. /\ Attempts[d] \in 1 .. 2 /\ Results' = Results
        /\ Attempts' \in {Attempts, [Attempts EXCEPT ![d] = @ + 1]}
        /\ req' \in {req, [req EXCEPT ![d][Attempts[d]] = "sent"]}
    BY <1>3 DEF Remote!Ask, Remote!Fail, Remote!Sent, Attempts, Results
  <2>2. \A c \in Callers \ {d} : Attempts'[c] = Attempts[c] /\ req'[c] = req[c]
    BY <1>1, <2>1
  <2>3. Results[d] = "none"
    BY <2>1 DEF Promised
  <2>4. QED
    BY <2>1, <2>2, <2>3 DEF Promised
<1>4. ASSUME NEW d \in Callers, NEW r, Remote!Over(d, r),
             r = "ok" => \E n \in 1 .. 2 : req[d][n] = "run"
      PROVE  Promised'
  <2>1. /\ Attempts' = [Attempts EXCEPT ![d] = 0] /\ Results' = [Results EXCEPT ![d] = r]
        /\ req' = req
    BY <1>4 DEF Remote!Over, Attempts, Results
  <2>2. QED
    BY <1>1, <1>4, <2>1 DEF Promised
<1>5. ASSUME NEW d \in Callers,
             Remote!Answer(d) \/ Remote!GiveUp(d) \/ Remote!Cancel(d)
      PROVE  Promised'
  <2>1. CASE Remote!Answer(d)
    <3>1. Attempts[d] \in 1 .. 2 /\ req[d][Attempts[d]] = "run" /\ Remote!Over(d, "ok")
      BY <1>1, <2>1 DEF Remote!Answer, Attempts, Asked
    <3>2. QED
      BY <1>4, <3>1
  <2>2. CASE Remote!GiveUp(d) \/ Remote!Cancel(d)
    <3>1. Remote!Over(d, "unavail") \/ Remote!Over(d, "cancelled")
      BY <2>2 DEF Remote!GiveUp, Remote!Cancel
    <3>2. QED
      BY <1>4, <3>1
  <2>3. QED
    BY <1>5, <2>1, <2>2
<1>6. ASSUME \/ \E d \in Callers, n \in 1 .. 2 : Remote!Execute(d, n)
             \/ Remote!Crash \/ UNCHANGED Remote!vars
      PROVE  Promised'
  <2>1. Attempts' = Attempts /\ Results' = Results
    BY <1>6 DEF Remote!Execute, Remote!Crash, Remote!vars, Attempts, Results
  <2>2. \A c \in Callers, n \in 1 .. 2 : req[c][n] = "run" => req'[c][n] = "run"
    BY <1>1, <1>6 DEF Remote!Execute, Remote!Crash, Remote!vars
  <2>3. QED
    BY <2>1, <2>2 DEF Promised
<1>7. QED
  BY <1>2, <1>3, <1>5, <1>6 DEF Remote!Next

\* What the callers of Backend.call may conclude (routes.py:97-104 does, when
\* it records a success): an answer means that the backend has executed the
\* call, whatever became of its other attempt, of the session and of the calls
\* that shared it.
THEOREM AnswersAreTrue == Spec => []Remote!AnsweredIsExecuted
<1>1. Init => AnswerOK /\ Promised
  BY DEF Init, AnswerOK, Promised, Attempts, Results, Tasks
<1>2. LockInv /\ AnswerOK /\ Promised /\ [Next]_vars => AnswerOK' /\ Promised'
  BY RemoteStep, PromisedStep DEF Shows
<1>3. Promised => Remote!AnsweredIsExecuted
  BY DEF Promised, Results, Remote!AnsweredIsExecuted
<1>4. QED
  BY <1>1, <1>2, <1>3, LockInvariant, PTL DEF Spec

=============================================================================
