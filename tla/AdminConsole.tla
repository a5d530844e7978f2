---------------------------- MODULE AdminConsole ----------------------------
(***************************************************************************)
(* Admins who edit the same rows: markup rules, of which one at most is    *)
(* active, and support tickets.  Every edit reads its row without a lock   *)
(* and saves the whole entity later; TypeORM writes the fields that differ *)
(* from the database by then, so a field the admin did not touch is put    *)
(* back to what was read.                                                  *)
(***************************************************************************)
EXTENDS Naturals, Sequences

CONSTANTS
    Admins, Rules, Tickets,
    Notes, NoNote,      \* replies to a customer
    NoRow,
    MaxEdits            \* bound: edits of all admins together

TicketStatus == {"open", "in_progress", "resolved"}
TicketRows == [status : TicketStatus, note : Notes \union {NoNote}]

ASSUME ConsoleAssumption ==
    /\ NoNote \notin Notes
    /\ NoRow \notin Tickets \union TicketRows
    /\ MaxEdits \in Nat

VARIABLES
    rule,       \* markup_rules: "none", "on" or "off"
    ticket,     \* support_tickets: status and admin note, or NoRow
    audit,      \* audit_logs of a ticket: previous and new status
    form,       \* the ticket an admin has open in a form
    admin,      \* what each admin's request is doing
    edits,      \* edits so far
    stale       \* a row was saved that had changed since it was read

ticketVars == <<ticket, audit>>
editVars == <<rule, ticketVars, form, admin, edits, stale>>

AtRest == [pc |-> "idle", row |-> NoRow, ask |-> NoRow, read |-> NoRow, clears |-> {}]

Active == {r \in Rules : rule[r] = "on"}

InitEdits ==
    /\ rule = [r \in Rules |-> "none"]
    /\ ticket = [t \in Tickets |-> NoRow]
    /\ audit = [t \in Tickets |-> << >>]
    /\ form = [a \in Admins |-> NoRow]
    /\ admin = [a \in Admins |-> AtRest]
    /\ edits = 0
    /\ stale = FALSE

\* An admin's request begins.
Begin(a, request) ==
    /\ admin[a] = AtRest
    /\ edits < MaxEdits
    /\ edits' = edits + 1
    /\ admin' = [admin EXCEPT ![a] = request]

-----------------------------------------------------------------------------
(* createMarkupRule and updateMarkupRule: one transaction each. *)

CreateRule(a, r, on) ==
    /\ rule[r] = "none"
    /\ \A x \in Admins : admin[x].row # r
    /\ Begin(a, [AtRest EXCEPT !.pc = IF on THEN "clearing" ELSE "saving", !.row = r,
                             !.ask = IF on THEN "on" ELSE "off", !.read = "none"])
    /\ UNCHANGED <<rule, ticketVars, form, stale>>

\* The rule is read; only one that was read as inactive, and is to be activated,
\* first deactivates the others.
PatchRule(a, r, ask) ==
    /\ rule[r] # "none"
    /\ Begin(a, [AtRest EXCEPT !.pc = IF ask = "on" /\ rule[r] = "off"
                                    THEN "clearing" ELSE "saving",
                             !.row = r, !.ask = ask, !.read = rule[r]])
    /\ UNCHANGED <<rule, ticketVars, form, stale>>

\* Variant: the rules are deactivated outside the transaction.
ClearActive_Commits(a) ==
    /\ admin[a].pc = "clearing"
    /\ admin' = [admin EXCEPT ![a].pc = "saving"]
    /\ rule' = [r \in Rules |-> IF r \in Active THEN "off" ELSE rule[r]]
    /\ UNCHANGED <<ticketVars, form, edits, stale>>

\* deactivateActiveRule, on the rules its statement sees as active, seen by others
\* when the transaction commits.
ClearActive(a) ==
    /\ admin[a].pc = "clearing"
    /\ admin' = [admin EXCEPT ![a].pc = "saving", ![a].clears = Active]
    /\ UNCHANGED <<rule, ticketVars, form, edits, stale>>

\* ux_markup_rules_active_one: another rule is active by now.
ViolatesIndex(a, value) ==
    value = "on" /\ Active \ (admin[a].clears \union {admin[a].row}) # {}

\* The save and the commit.  The entity is written as it was read and changed;
\* where another rule has become active the unique index fails the request.
SaveRule(a) ==
    LET r == admin[a].row
        ask == admin[a].ask
        value == IF ask = "value" THEN admin[a].read ELSE ask
    IN  /\ admin[a].pc = "saving"
        /\ admin' = [admin EXCEPT ![a] = AtRest]
        /\ IF ViolatesIndex(a, value)
           THEN UNCHANGED <<rule, stale>>
           ELSE /\ rule' = [x \in Rules |-> IF x = r THEN value
                                            ELSE IF x \in admin[a].clears THEN "off"
                                            ELSE rule[x]]
                /\ stale' = (stale \/ rule[r] # admin[a].read)
        /\ UNCHANGED <<ticketVars, form, edits>>

-----------------------------------------------------------------------------
(* Support tickets. *)

\* createTicket, by a customer.
CreateTicket(t) ==
    /\ ticket[t] = NoRow
    /\ ticket' = [ticket EXCEPT ![t] = [status |-> "open", note |-> NoNote]]
    /\ UNCHANGED <<rule, audit, form, admin, edits, stale>>

\* openEditor
OpenForm(a, t) ==
    /\ ticket[t] # NoRow
    /\ form[a] = NoRow /\ admin[a] = AtRest
    /\ form' = [form EXCEPT ![a] = t]
    /\ UNCHANGED <<rule, ticketVars, admin, edits, stale>>

\* submitUpdate sends a status and the note in the form, typed or as it was when
\* the form was opened, and no note when it is empty; updateTicket reads the
\* ticket.
SubmitForm(a, to, note) ==
    LET t == form[a] IN
    /\ t # NoRow
    /\ Begin(a, [AtRest EXCEPT !.pc = "ticket", !.row = t, !.read = ticket[t],
                             !.ask = [status |-> to, note |-> note]])
    /\ UNCHANGED <<rule, ticketVars, form, stale>>

\* Variant: previous_status is taken from the entity after its status was set.
SaveTicket_PreviousLate(a) ==
    LET t == admin[a].row
        ask == admin[a].ask
    IN  /\ admin[a].pc = "ticket"
        /\ ticket' = [ticket EXCEPT ![t] =
              [status |-> ask.status,
               note |-> IF ask.note = NoNote THEN admin[a].read.note ELSE ask.note]]
        /\ audit' = [audit EXCEPT ![t] = Append(@, <<ask.status, ask.status>>)]
        /\ stale' = (stale \/ ticket[t] # admin[a].read)
        /\ admin' = [admin EXCEPT ![a] = AtRest]
        /\ form' = [form EXCEPT ![a] = NoRow]
        /\ UNCHANGED <<rule, edits>>

\* updateTicket's transaction: the ticket and its audit row.  The page closes
\* the form on success.
SaveTicket(a) ==
    LET t == admin[a].row
        ask == admin[a].ask
    IN  /\ admin[a].pc = "ticket"
        /\ ticket' = [ticket EXCEPT ![t] =
              [status |-> ask.status,
               note |-> IF ask.note = NoNote THEN admin[a].read.note ELSE ask.note]]
        /\ audit' = [audit EXCEPT ![t] = Append(@, <<admin[a].read.status, ask.status>>)]
        /\ stale' = (stale \/ ticket[t] # admin[a].read)
        /\ admin' = [admin EXCEPT ![a] = AtRest]
        /\ form' = [form EXCEPT ![a] = NoRow]
        /\ UNCHANGED <<rule, edits>>

-----------------------------------------------------------------------------
NextEdits ==
    \/ \E t \in Tickets : CreateTicket(t)
    \/ \E a \in Admins :
          \/ \E r \in Rules : \/ \E on \in BOOLEAN : CreateRule(a, r, on)
                              \/ \E ask \in {"on", "off", "value"} : PatchRule(a, r, ask)
          \/ ClearActive(a) \/ SaveRule(a) \/ SaveTicket(a)
          \/ \E t \in Tickets : OpenForm(a, t)
          \/ \E to \in TicketStatus, note \in Notes \union {NoNote} : SubmitForm(a, to, note)

SpecEdits == InitEdits /\ [][NextEdits]_editVars

-----------------------------------------------------------------------------
\* The markup does not go away by accident.  However activations, deactivations and
\* edits of values interleave, and whichever fail on the index, a rule that was
\* active is so until another is, or until its own row is saved by an admin who
\* turned it off or had read it as inactive (admin.service.ts:571: "Activating it
\* deactivates the previously active rule inside the same transaction").
ActiveRuleStays ==
    [][\A r \in Active \ Active' :
          \/ Active' # {}
          \/ \E a \in Admins : /\ admin[a].row = r /\ admin'[a] = AtRest
                               /\ admin[a].ask = "off" \/ admin[a].read = "off"]_editVars

\* The audit log of a ticket is one unbroken story that ends in its status,
\* unless an entity was saved over a change made since it was read.
AuditIsUnbroken ==
    \A t \in Tickets : ~ stale /\ ticket[t] # NoRow =>
        LET told == <<"open">> \o [i \in 1 .. Len(audit[t]) |-> audit[t][i][2]]
        IN  /\ \A i \in 1 .. Len(audit[t]) : audit[t][i][1] = told[i]
            /\ told[Len(told)] = ticket[t].status
=============================================================================
