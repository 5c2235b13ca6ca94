--------------------------- MODULE AuditLogProofs ---------------------------
(***************************************************************************)
(* Proofs about AuditLog, for any number of records, gateways and ticks:   *)
(* torn writes account for every lost record, no row is invented, and the  *)
(* summary of the admin page is true up to the torn writes.                *)
(***************************************************************************)
EXTENDS AuditLog, FiniteSetTheorems, TLAPS

Last == lines[Len(lines)]

\* Where the records are: each is in one place, in the file on one line, and
\* what a torn write left on the last line belongs to a failed record.
FileOK ==
    /\ \A i, j \in DOMAIN lines : lines[i].rec = lines[j].rec => i = j
    /\ \A i \in DOMAIN lines : lines[i].rec \in writing \cup acked \cup failed
    /\ \A i \in DOMAIN lines : lines[i].rec \in failed => torn > 0
    /\ open => lines # <<>>
    /\ writing # {} => open
    /\ \A r \in writing : Last.rec = r
    /\ open /\ writing = {} => Last.rec \in failed
    /\ pending \cap (writing \cup acked \cup failed) = {}
    /\ writing \cap (acked \cup failed) = {} /\ acked \cap failed = {}

\* The torn write that the record being written, or the next one, will pay for
\* is not yet paid for.
Dirty == open /\ (writing = {} \/ ~Last.clean)

LossOK == Cardinality(Lost) <= torn /\ (Dirty => Cardinality(Lost) < torn)

\* What the page has read stays true while the file grows.
PageOK ==
    page.at # "none" =>
        /\ \A i, j \in Rows(page.rows) : page.rows[i].rec = page.rows[j].rec => i = j
        /\ \A i \in DOMAIN page.rows : page.rows[i].rec \in writing \cup acked \cup failed
        /\ Cardinality(page.before \ Readable(page.rows)) <= torn

Inv == TypeOK /\ FileOK /\ LossOK

PageInv == Inv /\ PageOK

-----------------------------------------------------------------------------
LEMMA SetsAreFinite ==
    ASSUME NEW S \in SUBSET Records
    PROVE  IsFiniteSet(S) /\ Cardinality(S) \in Nat
  BY AuditAssumption, FS_Subset, FS_CardinalityType

\* Types of the file after each kind of change.
LEMMA LastLine ==
    ASSUME TypeOK, lines # <<>>
    PROVE  /\ Len(lines) \in Nat \ {0} /\ Len(lines) \in DOMAIN lines
           /\ DOMAIN lines = 1 .. Len(lines) /\ Last \in Line
  BY DEF TypeOK, Last

LEMMA InitInv == Init => PageInv
<1> SUFFICES ASSUME Init PROVE PageInv
  OBVIOUS
<1>1. TypeOK
  <2>1. 0 \in 0 .. MaxTime
    BY AuditAssumption
  <2>2. NoPage \in [at : {"none", "read", "shown"}, rows : Seq(Line),
                    now : 0 .. MaxTime, before : SUBSET Records]
    BY <2>1 DEF NoPage
  <2>3. page \in [at : {"none", "read", "shown"}, rows : Seq(Line),
                 now : 0 .. MaxTime, before : SUBSET Records]
    BY <2>2 DEF Init
  <2>4. ts \in [Records -> 0 .. MaxTime] /\ clock \in 0 .. MaxTime
    BY <2>1 DEF Init
  <2>5. call \in [Records -> [agent : Agents, server : Servers, denied : BOOLEAN]]
    BY DEF Init
  <2>6. lines \in Seq(Line) /\ torn \in Nat
    BY DEF Init
  <2>7. QED
    BY <2>3, <2>4, <2>5, <2>6 DEF TypeOK, Init
<1>2. FileOK
  BY DEF Init, FileOK
<1>3. Lost = {} /\ ~Dirty /\ torn = 0
  BY DEF Init, Lost, Dirty
<1>4. LossOK
  BY <1>3, FS_EmptySet DEF LossOK
<1>5. PageOK
  BY DEF Init, PageOK, NoPage
<1>6. QED
  BY <1>1, <1>2, <1>4, <1>5 DEF Inv, PageInv

\* Steps that leave the file's bytes and the acknowledged records alone.
LEMMA QuietLoss ==
    ASSUME Inv, UNCHANGED <<lines, acked, torn>>, Dirty' => Dirty
    PROVE  LossOK'
<1>1. Lost' = Lost
  BY DEF Lost, Rows, Readable
<1>2. QED
  BY <1>1 DEF Inv, LossOK

LEMMA StampStep ==
    ASSUME Inv, NEW r \in Records, Stamp(r)
    PROVE  Inv'
<1>1. TypeOK'
  BY DEF Inv, TypeOK, Stamp
<1>2. FileOK'
  BY DEF Inv, FileOK, Stamp, Fresh, Last
<1>3. LossOK'
  BY QuietLoss DEF Stamp, Dirty, Last
<1>4. QED
  BY <1>1, <1>2, <1>3 DEF Inv

LEMMA CannotOpenStep ==
    ASSUME Inv, NEW r \in Records, CannotOpen(r)
    PROVE  Inv'
<1>1. TypeOK'
  BY DEF Inv, TypeOK, CannotOpen
<1>2. FileOK'
  BY DEF Inv, FileOK, CannotOpen, Last
<1>3. LossOK'
  BY QuietLoss DEF CannotOpen, Dirty, Last
<1>4. QED
  BY <1>1, <1>2, <1>3 DEF Inv

LEMMA BeginWriteStep ==
    ASSUME Inv, NEW r \in Records, BeginWrite(r)
    PROVE  Inv'
<1> DEFINE l == [rec |-> r, clean |-> ~open, whole |-> FALSE]
           n == Len(lines)
<1>0. /\ TypeOK /\ FileOK /\ LossOK /\ r \in pending /\ writing = {}
      /\ open' = TRUE /\ writing' = {r} /\ pending' = pending \ {r}
      /\ UNCHANGED <<clock, call, ts, acked, failed, torn, page>>
      /\ lines' = IF open THEN [lines EXCEPT ![n] = l] ELSE Append(lines, l)
      /\ l \in Line
  BY DEF Inv, BeginWrite, TypeOK, Line
<1>1. /\ lines' \in Seq(Line) /\ lines' # <<>> /\ lines'[Len(lines')] = l
      /\ Len(lines') \in DOMAIN lines'
      /\ \A i \in DOMAIN lines' \ {Len(lines')} :
            i \in DOMAIN lines /\ lines'[i] = lines[i] /\ (open => i # n)
      /\ \A i \in DOMAIN lines : (open => i # n) =>
            i \in DOMAIN lines' \ {Len(lines')}
  <2>1. CASE open
    <3>1. lines # <<>> /\ n \in Nat \ {0} /\ n \in DOMAIN lines
      BY <1>0, <2>1, LastLine DEF FileOK
    <3>2. lines' = [lines EXCEPT ![n] = l] /\ lines \in Seq(Line)
      BY <1>0, <2>1 DEF TypeOK
    <3> HIDE DEF l
    <3>3. QED
      BY <1>0, <2>1, <3>1, <3>2
  <2>2. CASE ~open
    <3>1. lines' = Append(lines, l) /\ lines \in Seq(Line)
      BY <1>0, <2>2 DEF TypeOK
    <3> HIDE DEF l
    <3>2. QED
      BY <1>0, <2>2, <3>1
  <2>3. QED
    BY <2>1, <2>2
<1>2. TypeOK'
  BY <1>0, <1>1 DEF TypeOK
<1>3. l.rec = r /\ l.whole = FALSE /\ l.clean = ~open
  OBVIOUS
<1> HIDE DEF l
<1>4. \A i \in DOMAIN lines : lines[i].rec # r
  BY <1>0 DEF FileOK
<1>5. FileOK'
  <2>1. \A i, j \in DOMAIN lines' : lines'[i].rec = lines'[j].rec => i = j
    BY <1>0, <1>1, <1>3, <1>4 DEF FileOK
  <2>2. \A i \in DOMAIN lines' : lines'[i].rec \in writing' \cup acked' \cup failed'
    BY <1>0, <1>1, <1>3 DEF FileOK
  <2>3. \A i \in DOMAIN lines' : lines'[i].rec \in failed' => torn' > 0
    BY <1>0, <1>1, <1>3 DEF FileOK
  <2>4. Last'.rec = r
    BY <1>1, <1>3 DEF Last
  <2>5. QED
    BY <1>0, <1>1, <2>1, <2>2, <2>3, <2>4 DEF FileOK
<1>6. Lost' = Lost
  <2>1. ASSUME NEW i \in Rows(lines'), lines'[i].rec \in acked
        PROVE  lines'[i].rec \in Readable(lines)
    BY <1>1, <1>3, <2>1 DEF Rows, Readable
  <2>2. ASSUME NEW i \in Rows(lines), lines[i].rec \in acked
        PROVE  lines[i].rec \in Readable(lines')
    <3>1. open => i # n
      BY <1>0, <2>2 DEF FileOK, Last
    <3>2. i \in DOMAIN lines' /\ lines'[i] = lines[i]
      BY <1>1, <2>2, <3>1 DEF Rows
    <3>3. QED
      BY <2>2, <3>2 DEF Rows, Readable
  <2>3. acked \cap Readable(lines') = acked \cap Readable(lines)
    BY <2>1, <2>2 DEF Readable
  <2>4. QED
    BY <1>0, <2>3 DEF Lost, Readable, Rows
<1>7. Dirty' => Dirty
  <2>1. Last'.clean = ~open
    BY <1>1, <1>3 DEF Last
  <2>2. QED
    BY <1>0, <2>1 DEF Dirty
<1>8. LossOK'
  BY <1>0, <1>6, <1>7 DEF LossOK
<1>9. QED
  BY <1>2, <1>5, <1>8 DEF Inv

LEMMA EndObjectStep ==
    ASSUME Inv, NEW r \in Records, EndObject(r)
    PROVE  Inv'
<1> DEFINE n == Len(lines)
<1>0. /\ TypeOK /\ FileOK /\ LossOK /\ r \in writing
      /\ UNCHANGED <<clock, call, ts, open, pending, writing, acked, failed, torn, page>>
      /\ lines' = [lines EXCEPT ![n].whole = TRUE]
  BY DEF Inv, EndObject
<1>1. lines # <<>> /\ n \in DOMAIN lines /\ lines \in Seq(Line) /\ lines[n] \in Line
      /\ lines[n].rec = r
  BY <1>0, LastLine DEF FileOK, TypeOK, Last
<1>2. /\ lines' \in Seq(Line) /\ Len(lines') = n /\ DOMAIN lines' = DOMAIN lines
      /\ \A i \in DOMAIN lines : i # n => lines'[i] = lines[i]
      /\ lines'[n].rec = r /\ lines'[n].clean = lines[n].clean /\ lines' # <<>>
  <2> DEFINE l == [lines[n] EXCEPT !.whole = TRUE]
  <2>1. l \in Line /\ l.rec = r /\ l.clean = lines[n].clean
    BY <1>1 DEF Line
  <2>2. lines' = [lines EXCEPT ![n] = l]
    BY <1>0
  <2> HIDE DEF l
  <2>3. QED
    BY <1>1, <2>1, <2>2
<1>3. \A i \in DOMAIN lines : lines'[i].rec = lines[i].rec
  BY <1>1, <1>2
<1>4. TypeOK'
  BY <1>0, <1>2 DEF TypeOK
<1>5. FileOK'
  BY <1>0, <1>1, <1>2, <1>3 DEF FileOK, Last
<1>6. Lost' = Lost
  <2>1. r \notin acked
    BY <1>0 DEF FileOK
  <2>2. ASSUME NEW q \in acked PROVE q \in Readable(lines') <=> q \in Readable(lines)
    BY <1>1, <1>2, <2>1, <2>2 DEF Rows, Readable
  <2>3. QED
    BY <1>0, <2>2 DEF Lost, Readable, Rows
<1>7. Dirty' = Dirty
  BY <1>0, <1>2 DEF Dirty, Last
<1>8. LossOK'
  BY <1>0, <1>6, <1>7 DEF LossOK
<1>9. QED
  BY <1>4, <1>5, <1>8 DEF Inv

\* The record is lost if and only if it was glued to a torn one, whose torn
\* write pays for it.
LEMMA EndLineStep ==
    ASSUME Inv, NEW r \in Records, EndLine(r)
    PROVE  Inv'
<1>0. /\ TypeOK /\ FileOK /\ LossOK /\ r \in writing /\ Last.whole
      /\ open' = FALSE /\ writing' = {} /\ acked' = acked \cup {r}
      /\ UNCHANGED <<clock, call, ts, lines, pending, failed, torn, page>>
  BY DEF Inv, EndLine, Last
<1>1. lines # <<>> /\ Len(lines) \in DOMAIN lines /\ Last.rec = r /\ Last \in Line
  BY <1>0, LastLine DEF FileOK
<1>2. TypeOK'
  BY <1>0 DEF TypeOK
<1>3. \A q \in writing : q = r
  BY <1>0, <1>1 DEF FileOK
<1>4. FileOK'
  BY <1>0, <1>3 DEF FileOK
<1>5. LossOK'
  <2>1. ~Dirty' /\ Lost' \subseteq Lost \cup {r} /\ Readable(lines)' = Readable(lines)
    BY <1>0 DEF Dirty, Lost, Readable, Rows
  <2>2. IsFiniteSet(Lost) /\ IsFiniteSet(Lost \cup {r}) /\ Lost' \in SUBSET Records
        /\ Cardinality(Lost) \in Nat
        /\ Cardinality(Lost \cup {r}) <= Cardinality(Lost) + 1
    <3>1. Lost \in SUBSET Records /\ Lost \cup {r} \in SUBSET Records
      BY <1>0 DEF Lost, TypeOK
    <3>2. IsFiniteSet(Lost) /\ Cardinality(Lost) \in Nat
      BY <3>1, SetsAreFinite
    <3>3. /\ IsFiniteSet(Lost \cup {r})
          /\ Cardinality(Lost \cup {r}) =
                IF r \in Lost THEN Cardinality(Lost) ELSE Cardinality(Lost) + 1
      BY <3>2, FS_AddElement
    <3>4. QED
      BY <2>1, <3>1, <3>2, <3>3
  <2>3. CASE Last.clean
    <3>1. r \in Readable(lines)
      BY <1>0, <1>1, <2>3 DEF Readable, Rows, Last
    <3>2. Lost' = Lost
      BY <1>0, <2>1, <3>1 DEF Lost
    <3>3. QED
      BY <1>0, <2>1, <3>2 DEF LossOK
  <2>4. CASE ~Last.clean
    <3>1. Cardinality(Lost) < torn
      BY <1>0, <2>4 DEF LossOK, Dirty, FileOK
    <3>2. Cardinality(Lost') <= Cardinality(Lost \cup {r}) /\ Cardinality(Lost') \in Nat
      BY <2>1, <2>2, FS_Subset, SetsAreFinite
    <3>3. Cardinality(Lost') <= torn
      BY <1>0, <2>2, <3>1, <3>2, FS_CardinalityType DEF TypeOK
    <3>4. QED
      BY <1>0, <2>1, <3>3 DEF LossOK
  <2>5. QED
    BY <2>3, <2>4
<1>6. QED
  BY <1>2, <1>4, <1>5 DEF Inv

LEMMA TearStep ==
    ASSUME Inv, NEW r \in Records, Tear(r)
    PROVE  Inv'
<1>0. /\ TypeOK /\ FileOK /\ LossOK /\ r \in writing
      /\ writing' = {} /\ failed' = failed \cup {r} /\ torn' = torn + 1
      /\ UNCHANGED <<clock, call, ts, lines, open, pending, acked, page>>
  BY DEF Inv, Tear
<1>1. Last.rec = r /\ (\A q \in writing : q = r) /\ torn' > torn /\ torn' > 0
  BY <1>0 DEF FileOK, TypeOK
<1>2. TypeOK'
  BY <1>0 DEF TypeOK
<1>3. FileOK'
  BY <1>0, <1>1 DEF FileOK, Last
<1>4. LossOK'
  <2>1. Lost' = Lost /\ Cardinality(Lost) \in Nat
    BY <1>0, SetsAreFinite DEF Lost, Rows, Readable, TypeOK
  <2>2. QED
    BY <1>0, <2>1 DEF LossOK, TypeOK
<1>5. QED
  BY <1>2, <1>3, <1>4 DEF Inv

\* The clock and the page do not touch the file.
LEMMA PageStep ==
    ASSUME Inv, Tick \/ ReadAudit \/ Render \/ Leave \/ UNCHANGED vars
    PROVE  Inv'
<1>1. UNCHANGED <<call, ts, logVars>>
  BY DEF Tick, ReadAudit, Render, Leave, vars, logVars
<1>2. clock' \in 0 .. MaxTime
  BY AuditAssumption DEF Inv, TypeOK, Tick, ReadAudit, Render, Leave, vars
<1>3. page' \in [at : {"none", "read", "shown"}, rows : Seq(Line),
                 now : 0 .. MaxTime, before : SUBSET Records]
  <2>1. 0 \in 0 .. MaxTime
    BY AuditAssumption
  <2>2. CASE ReadAudit
    <3>1. page' = [at |-> "read", rows |-> lines, now |-> 0, before |-> acked]
      BY <2>2 DEF ReadAudit
    <3>2. QED
      BY <2>1, <3>1 DEF Inv, TypeOK
  <2>3. CASE Render
    <3>1. page' = [page EXCEPT !.at = "shown", !.now = clock]
      BY <2>3 DEF Render
    <3>2. QED
      BY <3>1 DEF Inv, TypeOK
  <2>4. CASE Leave
    BY <2>1, <2>4 DEF Leave, NoPage
  <2>5. CASE page' = page
    BY <2>5 DEF Inv, TypeOK
  <2>6. QED
    BY <2>2, <2>3, <2>4, <2>5 DEF Tick, vars
<1>4. TypeOK'
  BY <1>1, <1>2, <1>3 DEF Inv, TypeOK, logVars
<1>5. FileOK'
  BY <1>1 DEF Inv, FileOK, logVars, Last
<1>6. LossOK'
  BY <1>1, QuietLoss DEF logVars, Dirty, Last
<1>7. QED
  BY <1>4, <1>5, <1>6 DEF Inv

LEMMA InvStep == Inv /\ [Next]_vars => Inv'
  BY StampStep, CannotOpenStep, BeginWriteStep, EndObjectStep, EndLineStep, TearStep,
     PageStep DEF Next

\* Type correctness of the file, the calls and the page.
THEOREM TypeCorrect == Spec => []TypeOK
  BY InitInv, InvStep, PTL DEF Spec, Inv, PageInv

\* Among the records whose record() returned, no more are missing from what the
\* admin page can read than writes were interrupted (audit.py:40-51,
\* admin.py:49-57), for any number of records and of gateways on the file.
THEOREM LossesArePaidFor == Spec => []LossBounded
<1>1. Inv => LossBounded
  BY DEF Inv, LossOK, LossBounded
<1>2. QED
  BY <1>1, InitInv, InvStep, PTL DEF Spec, PageInv

\* A record is a row at most once, and no row is invented.
THEOREM RowsAreReal == Spec => []RowsAreRecords
<1>1. Inv => RowsAreRecords
  BY DEF Inv, FileOK, RowsAreRecords, Rows, Readable
<1>2. QED
  BY <1>1, InitInv, InvStep, PTL DEF Spec, PageInv

-----------------------------------------------------------------------------
\* Rows of distinct records are as many as their records.
LEMMA RowCount ==
    ASSUME NEW file \in Seq(Line), NEW D \in SUBSET Rows(file),
           \A i, j \in D : file[i].rec = file[j].rec => i = j
    PROVE  LET R == {file[i].rec : i \in D}
           IN  /\ IsFiniteSet(R) /\ Cardinality(D) = Cardinality(R)
               /\ Cardinality(D) \in Nat
<1> DEFINE R == {file[i].rec : i \in D}
           f == [i \in D |-> file[i].rec]
<1>1. D \subseteq 1 .. Len(file) /\ Len(file) \in Nat
  BY DEF Rows
<1>2. IsFiniteSet(D) /\ Cardinality(D) \in Nat
  <2>1. IsFiniteSet(1 .. Len(file)) /\ D \in SUBSET (1 .. Len(file))
    BY <1>1, FS_Interval
  <2>2. IsFiniteSet(D)
    BY <2>1, FS_Subset
  <2>3. QED
    BY <2>2, FS_CardinalityType
<1>3. f \in Surjection(D, R) /\ f \in Injection(D, R)
  BY DEF Surjection, Injection, IsInjective
<1>4. QED
  BY <1>2, <1>3, FS_Surjection

LEMMA PageKept ==
    ASSUME PageInv, Inv', page' = page, torn' >= torn,
           writing \cup acked \cup failed \subseteq writing' \cup acked' \cup failed'
    PROVE  PageOK'
<1>1. Cardinality(page.before \ Readable(page.rows)) \in Nat
  BY SetsAreFinite DEF PageInv, Inv, TypeOK
<1>2. Readable(page.rows)' = Readable(page.rows) /\ Rows(page.rows)' = Rows(page.rows)
  BY DEF Readable, Rows
<1>3. torn \in Nat /\ torn' \in Nat
  BY DEF PageInv, Inv, TypeOK
<1>4. QED
  BY <1>1, <1>2, <1>3 DEF PageInv, PageOK

LEMMA PageInvStep == PageInv /\ [Next]_vars => PageInv'
<1> SUFFICES ASSUME PageInv, [Next]_vars PROVE PageOK'
  BY InvStep DEF PageInv
<1>0. Inv /\ Inv' /\ torn \in Nat
  BY InvStep DEF PageInv, Inv, TypeOK
<1>1. ASSUME NEW r \in Records,
             \/ Stamp(r) \/ CannotOpen(r) \/ BeginWrite(r)
             \/ EndObject(r) \/ EndLine(r) \/ Tear(r)
      PROVE  PageOK'
  <2>1. /\ page' = page /\ torn' >= torn
        /\ acked \subseteq acked' /\ failed \subseteq failed'
        /\ \A q \in writing : q \in writing' \cup acked' \cup failed'
    BY <1>0, <1>1 DEF Stamp, CannotOpen, BeginWrite, EndObject, EndLine, Tear,
       Inv, FileOK
  <2>2. QED
    BY <1>0, <2>1, PageKept
<1>2. ASSUME Tick \/ UNCHANGED vars PROVE PageOK'
  BY <1>0, <1>2, PageKept DEF Tick, vars, logVars
<1>3. ASSUME ReadAudit PROVE PageOK'
  <2>1. page'.rows = lines /\ page'.before = acked /\ UNCHANGED logVars
    BY <1>3 DEF ReadAudit
  <2>2. Cardinality(acked \ Readable(lines)) <= torn
    BY <1>0 DEF Inv, LossOK, Lost
  <2>3. QED
    BY <1>0, <2>1, <2>2 DEF PageOK, Inv, FileOK, Rows, Readable, logVars
<1>4. ASSUME Render PROVE PageOK'
  <2>1. /\ page.at = "read" /\ page'.rows = page.rows /\ page'.before = page.before
        /\ UNCHANGED logVars
    BY <1>0, <1>4 DEF Render, Inv, TypeOK
  <2>2. QED
    BY <2>1 DEF PageInv, PageOK, Rows, Readable, logVars
<1>5. ASSUME Leave PROVE PageOK'
  BY <1>5 DEF Leave, NoPage, PageOK
<1>6. QED
  BY <1>1, <1>2, <1>3, <1>4, <1>5 DEF Next

\* The summary of the admin page is true (admin.py:74-88 over what read_audit
\* read before the time was taken): but for one record per torn write it counts
\* every recent denial acknowledged before the request, and nothing else.
THEOREM SummaryIsHonest == Spec => []SummaryIsTrue
<1>1. PageInv => SummaryIsTrue
  <2> SUFFICES ASSUME PageInv, page.at = "shown"
               PROVE  LET total == Cardinality(Denials(page.rows, page.now))
                      IN  /\ total >= Cardinality(Recent(page.before)) - torn
                          /\ total <= Cardinality(Recent(writing \cup acked \cup failed))
    BY DEF SummaryIsTrue
  <2> DEFINE F == page.rows
             D == Denials(F, page.now)
             R == {F[i].rec : i \in D}
             M == page.before \ Readable(F)
  <2>1. /\ F \in Seq(Line) /\ page.before \subseteq Records /\ torn \in Nat
        /\ page.now \in Int /\ ts \in [Records -> Int] /\ Day \in Int
    BY AuditAssumption DEF PageInv, Inv, TypeOK
  <2>2. D \subseteq Rows(F) /\ \A i \in Rows(F) : i \in DOMAIN F /\ F[i].rec \in Records
    <3>1. \A i \in DOMAIN F : F[i] \in Line
      BY <2>1
    <3>2. QED
      BY <3>1 DEF Denials, Rows, Line
  <2>3. Cardinality(D) = Cardinality(R) /\ IsFiniteSet(R) /\ Cardinality(D) \in Nat
    <3>1. \A i, j \in D : F[i].rec = F[j].rec => i = j
      BY <2>2 DEF PageInv, PageOK
    <3>2. QED
      BY <2>1, <2>2, <3>1, RowCount
  <2>4. R = Recent(Readable(F))
    BY <2>1, <2>2 DEF Denials, Recent, Readable
  <2>5. R \subseteq Recent(writing \cup acked \cup failed)
    BY <2>2, <2>4 DEF Recent, Readable, PageInv, PageOK, Inv, FileOK
  <2>6. Cardinality(R) <= Cardinality(Recent(writing \cup acked \cup failed))
    <3>1. Recent(writing \cup acked \cup failed) \in SUBSET Records
      BY DEF Recent, PageInv, Inv, TypeOK
    <3>2. QED
      BY <2>5, <3>1, SetsAreFinite, FS_Subset
  <2>7. Recent(page.before) \subseteq R \cup M
    BY <2>4 DEF Recent
  <2>8. Cardinality(Recent(page.before)) <= Cardinality(R) + torn
    <3>1. /\ M \in SUBSET Records /\ R \in SUBSET Records
          /\ Recent(page.before) \in SUBSET Records
      BY <2>1, <2>2 DEF Recent
    <3>2. Cardinality(R \cup M) <= Cardinality(R) + Cardinality(M)
      <4>1. /\ IsFiniteSet(R) /\ IsFiniteSet(M) /\ R \cap M \in SUBSET Records
            /\ Cardinality(R) \in Nat /\ Cardinality(M) \in Nat
        BY <3>1, SetsAreFinite
      <4>2. Cardinality(R \cap M) \in Nat
        BY <4>1, SetsAreFinite
      <4>3. Cardinality(R \cup M) =
               Cardinality(R) + Cardinality(M) - Cardinality(R \cap M)
        BY <4>1, FS_Union
      <4> HIDE DEF R, M
      <4>4. QED
        BY <4>1, <4>2, <4>3
    <3>3. Cardinality(M) <= torn
      BY DEF PageInv, PageOK
    <3>4. Cardinality(Recent(page.before)) <= Cardinality(R \cup M)
      BY <2>7, <3>1, SetsAreFinite, FS_Subset
    <3>5. /\ Cardinality(M) \in Nat /\ Cardinality(R) \in Nat
          /\ Cardinality(R \cup M) \in Nat
          /\ Cardinality(Recent(page.before)) \in Nat
      BY <3>1, SetsAreFinite
    <3> HIDE DEF R, M
    <3>6. QED
      BY <2>1, <3>2, <3>3, <3>4, <3>5
  <2>9. /\ Cardinality(Recent(page.before)) \in Nat
        /\ Cardinality(Recent(writing \cup acked \cup failed)) \in Nat
    <3>1. /\ Recent(page.before) \in SUBSET Records
          /\ Recent(writing \cup acked \cup failed) \in SUBSET Records
      BY <2>1 DEF Recent, PageInv, Inv, TypeOK
    <3>2. QED
      BY <3>1, SetsAreFinite
  <2> HIDE DEF R, D
  <2>10. QED
    BY <2>1, <2>3, <2>6, <2>8, <2>9 DEF D
<1>2. QED
  BY <1>1, InitInv, PageInvStep, PTL DEF Spec

\* summarize_denials and apply_filters select the same rows of a page: an age
\* of exactly a day is in the window for both, and either decision is a boolean.
LEMMA SameRows ==
    ASSUME TypeOK, NEW a \in Agents, NEW s \in Servers
    PROVE  {i \in Filtered(page.rows, {a}, {TRUE}, Day, page.now) :
               call[page.rows[i].rec].server = s}
           = {i \in Denials(page.rows, page.now) :
                 call[page.rows[i].rec].agent = a
                 /\ call[page.rows[i].rec].server = s}
<1> DEFINE F == page.rows
<1>1. ASSUME NEW i \in Rows(F)
      PROVE  /\ call[F[i].rec].denied \in BOOLEAN
             /\ ts[F[i].rec] \in Int /\ page.now - Day \in Int
  <2>1. F \in Seq(Line) /\ page.now \in Int /\ Day \in Int
    BY AuditAssumption DEF TypeOK
  <2>2. i \in DOMAIN F /\ F[i] \in Line
    BY <2>1, <1>1 DEF Rows
  <2>3. F[i].rec \in Records
    BY <2>2 DEF Line
  <2>4. ts[F[i].rec] \in Int
    BY <2>3, AuditAssumption DEF TypeOK
  <2>5. call[F[i].rec].denied \in BOOLEAN
    BY <2>3 DEF TypeOK
  <2>6. QED
    BY <2>1, <2>4, <2>5
<1>2. ASSUME NEW i \in Rows(F)
      PROVE  ~(ts[F[i].rec] < page.now - Day) <=> ts[F[i].rec] >= page.now - Day
  BY <1>1
<1>3. ASSUME NEW i \in Rows(F)
      PROVE  call[F[i].rec].denied \in {TRUE} <=> call[F[i].rec].denied
  BY <1>1
<1>4. QED
  BY <1>2, <1>3 DEF Filtered, Denials

\* The two views of one admin page agree (admin.py:74-88 and 91-112): as many
\* of an agent's listed denials ask for a server as its row of the summary says.
THEOREM ViewsAgree == Spec => []DetailsMatch
<1>1. TypeOK => DetailsMatch
  BY SameRows DEF DetailsMatch, Summary
<1>2. QED
  BY <1>1, TypeCorrect, PTL

=============================================================================
