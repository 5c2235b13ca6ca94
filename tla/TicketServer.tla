---------------------------- MODULE TicketServer ----------------------------
(***************************************************************************)
(* The ticket table of the ticket server (ticket_server/db.py, behind the  *)
(* tools of server.py).  Every tool runs to its commit without an await,   *)
(* so it is one step.  Rows are never deleted, hence AUTOINCREMENT numbers *)
(* them 1, 2, ... and the table is a sequence indexed by id.  A row keeps  *)
(* the create call that made it, which stands for its title and body.      *)
(***************************************************************************)
EXTENDS Naturals, Sequences

CONSTANTS
    Creations,  \* the create calls that clients make
    Statuses    \* the texts that clients pass as a status

VALID_STATUSES == {"open", "in_progress", "closed"}

VARIABLE rows

Row == [call : Creations, status : VALID_STATUSES]

TypeOK == rows \in Seq(Row)

Init == rows = <<>>

\* Mutant: the id is read before the insert.
IdBefore == Len(rows)

\* cur.lastrowid after the insert of a row.
NewId == Len(rows) + 1

\* create_ticket, which answers with id.
CreateTicket(n, id) ==
    /\ id = NewId
    /\ rows' = Append(rows, [call |-> n, status |-> "open"])

\* update_status: an invalid status and an id without a row raise ValueError,
\* which leaves the table as it is.
UpdateStatus(id, status, found) ==
    /\ found = (status \in VALID_STATUSES /\ id \in DOMAIN rows)
    /\ rows' = IF found THEN [rows EXCEPT ![id].status = status] ELSE rows

\* The process starts again, with its file or, in a new container, without.
Restart(kept) == rows' = IF kept THEN rows ELSE <<>>

=============================================================================
