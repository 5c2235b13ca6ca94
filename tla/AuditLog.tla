------------------------------ MODULE AuditLog ------------------------------
(***************************************************************************)
(* The audit log and its reader.  record() in gateway/audit.py appends one *)
(* JSON line per call; the admin page of gateway/admin.py parses the file  *)
(* line by line, skips what it cannot parse, counts the denials of the     *)
(* last 24 hours and lists the rows a filter lets through.  A write can    *)
(* end early - the disk is full or the process is killed - and a read can  *)
(* see a write that is under way, because the page is served from a        *)
(* thread.  Gateways that share the file (k8s/overlays/audit-pvc) take     *)
(* their time stamps concurrently; their writes exclude each other.        *)
(*                                                                         *)
(* A line is what was written between two newlines: nothing but a part of  *)
(* one record (clean), or more than one record's; whole says whether the   *)
(* last of them was written to the end of its JSON object.                 *)
(***************************************************************************)
EXTENDS Integers, Sequences, FiniteSets

CONSTANTS
    Records,  \* the calls to be audited
    Agents,   \* who made them
    Servers,  \* the prefixes of the tools they asked for
    Procs,    \* gateway processes that append to the file
    Day,      \* the window of the summary
    MaxTime   \* bound: the clock's last value

ASSUME AuditAssumption ==
    /\ IsFiniteSet(Records)
    /\ Procs \in Nat /\ Day \in Nat /\ MaxTime \in Nat

VARIABLES
    clock,    \* datetime.now
    call,     \* call[r]: agent, server and decision of the call
    ts,       \* ts[r]: the time stamp of its record
    lines,    \* the file, newline-terminated but for the last line
    open,     \* the last line is not terminated
    pending,  \* records with a time stamp whose write has not begun
    writing,  \* the record being written, at most one
    acked,    \* records whose record() returned without an error
    failed,   \* records whose record() logged an error or was killed
    torn,     \* history: writes that stopped with something written
    page      \* the admin page: where its request is, what it has read, the
              \* time it works with, and (history) the records acked before

logVars == <<lines, open, pending, writing, acked, failed, torn>>
vars == <<clock, call, ts, lines, open, pending, writing, acked, failed, torn, page>>

Line == [rec : Records, clean : BOOLEAN, whole : BOOLEAN]

TypeOK ==
    /\ clock \in 0 .. MaxTime
    /\ call \in [Records -> [agent : Agents, server : Servers, denied : BOOLEAN]]
    /\ ts \in [Records -> 0 .. MaxTime]
    /\ lines \in Seq(Line) /\ open \in BOOLEAN
    /\ pending \subseteq Records /\ writing \subseteq Records
    /\ acked \subseteq Records /\ failed \subseteq Records
    /\ torn \in Nat
    /\ page \in [at : {"none", "read", "shown"}, rows : Seq(Line),
                 now : 0 .. MaxTime, before : SUBSET Records]

NoPage == [at |-> "none", rows |-> <<>>, now |-> 0, before |-> {}]

\* No file yet, and any calls to come.
Init ==
    /\ clock = 0
    /\ call \in [Records -> [agent : Agents, server : Servers, denied : BOOLEAN]]
    /\ ts = [r \in Records |-> 0]
    /\ lines = <<>> /\ open = FALSE
    /\ pending = {} /\ writing = {} /\ acked = {} /\ failed = {} /\ torn = 0
    /\ page = NoPage

-----------------------------------------------------------------------------
\* record()

Tick ==
    /\ clock < MaxTime /\ clock' = clock + 1
    /\ UNCHANGED <<call, ts, logVars, page>>

\* Mutant: a call is recorded again.
FreshAgain(r) == r \notin pending \cup writing

Fresh(r) == r \notin pending \cup writing \cup acked \cup failed

\* The line is built, with its time stamp.  A gateway records one call at a
\* time: record() does not await.
Stamp(r) ==
    /\ Fresh(r) /\ Cardinality(pending \cup writing) < Procs
    /\ ts' = [ts EXCEPT ![r] = clock] /\ pending' = pending \cup {r}
    /\ UNCHANGED <<clock, call, lines, open, writing, acked, failed, torn, page>>

\* mkdir or open raised OSError, which is logged, or the process was killed:
\* nothing was written.
CannotOpen(r) ==
    /\ r \in pending
    /\ pending' = pending \ {r} /\ failed' = failed \cup {r}
    /\ UNCHANGED <<clock, call, ts, lines, open, writing, acked, torn, page>>

\* open(path, "a") succeeded and the first bytes are appended, to a line of
\* their own or to what a torn write left.
BeginWrite(r) ==
    /\ r \in pending /\ writing = {}
    /\ LET l == [rec |-> r, clean |-> ~open, whole |-> FALSE]
       IN  lines' = IF open THEN [lines EXCEPT ![Len(lines)] = l]
                            ELSE Append(lines, l)
    /\ open' = TRUE /\ writing' = {r} /\ pending' = pending \ {r}
    /\ UNCHANGED <<clock, call, ts, acked, failed, torn, page>>

\* The last byte of the JSON object is written.
EndObject(r) ==
    /\ r \in writing /\ ~lines[Len(lines)].whole
    /\ lines' = [lines EXCEPT ![Len(lines)].whole = TRUE]
    /\ UNCHANGED <<clock, call, ts, open, pending, writing, acked, failed, torn, page>>

\* Mutant: the newline is forgotten.
EndLineNoNewline(r) ==
    /\ r \in writing /\ lines[Len(lines)].whole
    /\ writing' = {} /\ acked' = acked \cup {r}
    /\ UNCHANGED <<clock, call, ts, lines, open, pending, failed, torn, page>>

\* The newline is written: record() returns.
EndLine(r) ==
    /\ r \in writing /\ lines[Len(lines)].whole
    /\ open' = FALSE /\ writing' = {} /\ acked' = acked \cup {r}
    /\ UNCHANGED <<clock, call, ts, lines, pending, failed, torn, page>>

\* OSError in the middle of the write, or the process is killed: what was
\* written stays, and the next record is appended to it.
Tear(r) ==
    /\ r \in writing
    /\ writing' = {} /\ failed' = failed \cup {r} /\ torn' = torn + 1
    /\ UNCHANGED <<clock, call, ts, lines, open, pending, acked, page>>

-----------------------------------------------------------------------------
\* read_audit: a line yields a row if it is one whole object; a prefix of an
\* object, and two objects in a row, raise ValueError and are skipped.

Rows(file) == {i \in DOMAIN file : file[i].clean /\ file[i].whole}

Readable(file) == {file[i].rec : i \in Rows(file)}

\* The first half of admin(): the file is read, whatever is being written.
ReadAudit ==
    /\ page.at = "none"
    /\ page' = [at |-> "read", rows |-> lines, now |-> 0, before |-> acked]
    /\ UNCHANGED <<clock, call, ts, logVars>>

\* The second half: the time is taken, and both views are made for it.
Render ==
    /\ page.at = "read"
    /\ page' = [page EXCEPT !.at = "shown", !.now = clock]
    /\ UNCHANGED <<clock, call, ts, logVars>>

\* The visitor leaves or reloads.
Leave ==
    /\ page.at = "shown" /\ page' = NoPage
    /\ UNCHANGED <<clock, call, ts, logVars>>

\* Mutant: the summary counts whatever the file holds.
DenialsOfAllTime(file, now) == {i \in Rows(file) : call[file[i].rec].denied}

\* summarize_denials: the rows it counts, and the counter of one group.
Denials(file, now) ==
    {i \in Rows(file) : call[file[i].rec].denied /\ ~(ts[file[i].rec] < now - Day)}

Summary(file, now, a, s) ==
    Cardinality({i \in Denials(file, now) :
                    call[file[i].rec].agent = a /\ call[file[i].rec].server = s})

\* Mutant: the oldest hour is cut off.
FilteredLater(file, agents, denied, since, now) ==
    {i \in Rows(file) :
        LET r == file[i].rec
        IN  call[r].agent \in agents /\ call[r].denied \in denied /\ ts[r] > now - since}

\* apply_filters: the rows of these agents and decisions - all, or one - that
\* are at most this old.
Filtered(file, agents, denied, since, now) ==
    {i \in Rows(file) :
        LET r == file[i].rec
        IN  call[r].agent \in agents /\ call[r].denied \in denied /\ ts[r] >= now - since}

Next ==
    \/ \E r \in Records :
          \/ Stamp(r) \/ CannotOpen(r) \/ BeginWrite(r)
          \/ EndObject(r) \/ EndLine(r) \/ Tear(r)
    \/ ReadAudit \/ Render \/ Leave \/ Tick

Spec == Init /\ [][Next]_vars

-----------------------------------------------------------------------------
\* Properties.

\* An interrupted write costs no more than its own record and one other, the
\* record glued to its torn line: the losses among the acknowledged records
\* never outnumber the interruptions.
Lost == acked \ Readable(lines)

LossBounded == Cardinality(Lost) <= torn

\* The admin page shows a record at most once, and each record it shows was
\* acknowledged, is being written, or was written to its last byte.
RowsAreRecords ==
    /\ \A i, j \in Rows(lines) : lines[i].rec = lines[j].rec => i = j
    /\ \A r \in Readable(lines) \ (acked \cup writing) : r \in failed /\ torn > 0

\* "Who was denied in the last 24 hours": the summary misses a denial that was
\* acknowledged before the request only for a torn write, counts none twice
\* and none that is older, however long the rendering takes.
Recent(R) == {r \in R : call[r].denied /\ ts[r] >= page.now - Day}

SummaryIsTrue ==
    page.at = "shown" =>
        LET total == Cardinality(Denials(page.rows, page.now))
        IN  /\ total >= Cardinality(Recent(page.before)) - torn
            /\ total <= Cardinality(Recent(writing \cup acked \cup failed))

\* The two views of one page agree: of the rows listed for one agent's denials
\* of the last 24 hours, as many ask for a server as the summary counts.
DetailsMatch ==
    page.at = "shown" =>
        \A a \in Agents, s \in Servers :
            LET listed == Filtered(page.rows, {a}, {TRUE}, Day, page.now)
            IN  Cardinality({i \in listed : call[page.rows[i].rec].server = s})
                    = Summary(page.rows, page.now, a, s)

=============================================================================
