----------------------------- MODULE AdminLists -----------------------------
(***************************************************************************)
(* A list page of the admin console - bookings, refunds, users, tickets,   *)
(* audit log, ledger - with its filter, its pager and the action on a row. *)
(* Every render of the page closes over the filter and the offset of its   *)
(* time; an effect loads the list when either changes, and nothing cancels *)
(* a load that is out.  The API answers with one page, newest rows first.  *)
(*                                                                         *)
(* A row stands for its position in the order of created_at; two rows of   *)
(* one timestamp, which no tie-breaker orders, are left out.               *)
(***************************************************************************)
EXTENDS Naturals, SequencesExt

CONSTANTS
    Tags,        \* what the filter tells rows apart by, a status say
    All,         \* the filter that takes every row
    Filters,     \* the filters somebody uses
    Limit,       \* PAGE_SIZE
    MaxRows,     \* bound: rows of the table
    MaxOut,      \* bound: loads that are out at a time
    MaxEvents    \* bound: what the reader does

ASSUME ListsAssumption ==
    /\ All \notin Tags
    /\ All \in Filters /\ Filters \subseteq Tags \union {All}
    /\ Limit \in Nat \ {0}
    /\ MaxRows \in Nat
    /\ MaxOut \in Nat
    /\ MaxEvents \in Nat

NoAction == [pc |-> "none"]
NoWalk == [on |-> FALSE, ahead |-> {}]

VARIABLES
    table,      \* the tags of the rows, oldest row first
    controls,   \* the filter and the offset the page shows
    loads,      \* the loads that are out, oldest first
    shown,      \* the answer the page shows: the controls it is for, and the total
    loading,    \* whether the page shows a spinner instead
    error,      \* whether it shows an error
    events,     \* what the reader did so far
    action,     \* the action on a row, and the render it was started from
    walk        \* history: a reader who turns the pages one by one, and the rows
                \* that were there at the first page and are still to be seen

listVars == <<table, controls, loads, shown, loading, error, events, action, walk>>

Matches(row, filter) == filter \in {All, table[row]}

\* The rows the filter takes.
Listed(filter) == {row \in 1 .. Len(table) : Matches(row, filter)}

\* The place of a row among them, newest first.
Place(rows, row) == Cardinality({r \in rows : r >= row})

\* skip and take.
PageOf(rows, at) == {row \in rows : Place(rows, row) \in at.offset + 1 .. at.offset + Limit}

\* findAndCount, or getManyAndCount: one page and the total.  History: all the rows
\* a walk that starts here has to see.
Answer(at) ==
    LET rows == Listed(at.filter)
    IN  [rows |-> PageOf(rows, at),
         total |-> Cardinality(rows),
         due |-> IF at.offset = 0 THEN rows ELSE {}]

None == [rows |-> {}, total |-> 0, due |-> {}]

\* A load for a closure.  History: it is excused if the page shows other controls by
\* the end of the event that starts it, or once a later load comes back before it.
NewLoad(at) ==
    [at |-> at, served |-> FALSE, answer |-> None, excused |-> at # controls']

InitLists ==
    /\ table \in UNION {[1 .. n -> Tags] : n \in 0 .. MaxRows}
    /\ controls = [filter |-> All, offset |-> 0]
    /\ loads = <<[at |-> controls, served |-> FALSE, answer |-> None, excused |-> FALSE]>>
    /\ shown = [at |-> controls, total |-> 0, excused |-> FALSE]
    /\ loading = TRUE
    /\ error = FALSE
    /\ action = NoAction
    /\ walk = NoWalk
    /\ events = 0

-----------------------------------------------------------------------------
(* Loads. *)

Load(ats) ==
    /\ Len(loads) + Len(ats) <= MaxOut
    /\ loads' = loads \o [i \in 1 .. Len(ats) |-> NewLoad(ats[i])]

\* The effect of a render: a load if the filter or the offset is another one.
Effect == IF controls' = controls THEN << >> ELSE <<controls'>>

\* The API reads the table.
Serve(i) ==
    /\ ~ loads[i].served
    /\ loads' = [loads EXCEPT ![i].served = TRUE, ![i].answer = Answer(loads[i].at)]
    /\ UNCHANGED <<table, controls, shown, loading, error, action, walk>>

\* A load comes back, in whatever order.
Ends(i) ==
    loads' = RemoveAt([j \in 1 .. Len(loads) |->
                          IF j < i THEN [loads[j] EXCEPT !.excused = TRUE] ELSE loads[j]], i)

\* History: who sees the first page of what the controls show starts to read.
Reads(load) ==
    walk' = IF load.at = controls /\ load.at.offset = 0 /\ loads' = << >>
            THEN [on |-> load.answer.due # {},
                  ahead |-> load.answer.due \ load.answer.rows]
            ELSE [walk EXCEPT !.ahead = @ \ load.answer.rows]

\* The answer is shown, whatever the controls are by now.
ReceiveLoad(i) ==
    LET load == loads[i] IN
    /\ load.served
    /\ Ends(i)
    /\ shown' = [at |-> load.at, total |-> load.answer.total, excused |-> load.excused]
    /\ loading' = FALSE
    /\ error' = FALSE
    /\ Reads(load)
    /\ UNCHANGED <<table, controls, action>>

\* Or there is none.
LoadFails(i) ==
    /\ Ends(i)
    /\ loading' = FALSE
    /\ error' = TRUE
    /\ walk' = NoWalk
    /\ UNCHANGED <<table, controls, shown, action>>

-----------------------------------------------------------------------------
(* The controls. *)

\* A select box, or an input that filters with every key.
SelectFilter(filter) ==
    /\ controls' = [filter |-> filter, offset |-> 0]
    /\ Load(Effect)
    /\ walk' = NoWalk
    /\ UNCHANGED <<table, shown, loading, error, action>>

\* Variant: a search for what is shown already is not left out.
SearchFilter_Always(filter) ==
    /\ controls' = [filter |-> filter, offset |-> 0]
    /\ loading' = TRUE
    /\ Load(Effect)
    /\ walk' = NoWalk
    /\ UNCHANGED <<table, shown, error, action>>

\* handleSearch of the ledger, which shows the spinner until a load comes back.
SearchFilter(filter) ==
    /\ [filter |-> filter, offset |-> 0] # controls
    /\ controls' = [filter |-> filter, offset |-> 0]
    /\ loading' = TRUE
    /\ Load(Effect)
    /\ walk' = NoWalk
    /\ UNCHANGED <<table, shown, error, action>>

\* The pager is a part of the table, which an empty page and the spinner replace.
RowsShown == ~ loading /\ shown.total > shown.at.offset
PagerShown == RowsShown /\ shown.total > Limit

\* Variant: one row too few is expected.
OnLastPage_OneShort(offset) == offset + Limit + 1 >= shown.total

\* The button for the next page is disabled.
OnLastPage(offset) == offset + Limit >= shown.total

\* The pager counts from the offset of the controls, or, on the ledger page, from
\* that of the answer.
PagerOffsets == {controls.offset, shown.at.offset}

\* Who reads the list waits for a page before turning to the next.
NextPage(offset) ==
    /\ PagerShown
    /\ ~ OnLastPage(offset)
    /\ controls' = [controls EXCEPT !.offset = offset + Limit]
    /\ Load(Effect)
    /\ walk' = IF loads = << >> /\ shown.at = controls THEN walk ELSE NoWalk
    /\ UNCHANGED <<table, shown, loading, error, action>>

PreviousPage(offset) ==
    /\ PagerShown
    /\ offset > 0
    /\ controls' = [controls EXCEPT !.offset = IF offset > Limit THEN offset - Limit ELSE 0]
    /\ Load(Effect)
    /\ walk' = NoWalk
    /\ UNCHANGED <<table, shown, loading, error, action>>

\* The button that loads the page again.
Refresh ==
    /\ controls' = controls
    /\ Load(<<controls>>)
    /\ UNCHANGED <<table, shown, loading, error, action, walk>>

-----------------------------------------------------------------------------
(* Rows, and the actions of the page. *)

\* History: a row that leaves a filter pulls the rows behind it forward, which ends
\* every walk that is on the way, or about to start, under that filter.
Leaves(filter) ==
    walk' = IF controls.filter = filter THEN NoWalk ELSE walk

WithoutWalk(filter) ==
    [i \in 1 .. Len(loads) |->
        IF loads[i].at.filter = filter THEN [loads[i] EXCEPT !.answer.due = {}] ELSE loads[i]]

\* A row is inserted, or one changes, by anybody.
RowArrives(tag) ==
    /\ Len(table) < MaxRows
    /\ table' = Append(table, tag)
    /\ UNCHANGED <<controls, loads, shown, loading, error, action, walk>>

RowMoves(row, tag) ==
    /\ table[row] # tag
    /\ table' = [table EXCEPT ![row] = tag]
    /\ Leaves(table[row])
    /\ loads' = WithoutWalk(table[row])
    /\ UNCHANGED <<controls, shown, loading, error, action>>

\* The button of a row: retry, toggleActive, submitCancel, submitRefund.
Click ==
    /\ action = NoAction
    /\ RowsShown
    /\ action' = [pc |-> "sent", at |-> controls]
    /\ UNCHANGED <<table, controls, loads, shown, loading, error, walk>>

\* The row that was clicked, which the page may show no longer, has changed; the
\* page reloads with the load of the render the click was made in.
ActionAnswered(row, tag) ==
    /\ action.pc = "sent"
    /\ action' = NoAction
    /\ table[row] # tag
    /\ table' = [table EXCEPT ![row] = tag]
    /\ Leaves(table[row])
    /\ controls' = controls
    /\ Len(loads) < MaxOut
    /\ loads' = Append(WithoutWalk(table[row]), NewLoad(action.at))
    /\ UNCHANGED <<shown, loading, error>>

ActionRefused ==
    /\ action.pc = "sent"
    /\ action' = NoAction
    /\ error' = TRUE
    /\ UNCHANGED <<table, controls, loads, shown, loading, walk>>

\* createAdjustment: a row of the ledger, with its audit row.
CreateAdjustment(tag) ==
    /\ Len(table) < MaxRows
    /\ table' = Append(table, tag)

\* submitAdjustment of the ledger page, on its way ...
OpenAdjustment ==
    /\ action = NoAction
    /\ action' = [pc |-> "adjusting", at |-> controls]
    /\ UNCHANGED <<table, controls, loads, shown, loading, error, walk>>

\* ... and answered: the row is there, the page goes back to its first page and
\* reloads twice, once for the render of the submit and once for the new offset.
AdjustmentAnswered(tag) ==
    /\ action.pc = "adjusting"
    /\ CreateAdjustment(tag)
    /\ action' = NoAction
    /\ controls' = [controls EXCEPT !.offset = 0]
    /\ loading' = TRUE
    /\ Load(<<action.at>> \o Effect)
    /\ walk' = NoWalk
    /\ UNCHANGED <<shown, error>>

\* What the reader of the page does.
Reader ==
    \/ \E filter \in Filters : SelectFilter(filter) \/ SearchFilter(filter)
    \/ \E offset \in PagerOffsets : NextPage(offset) \/ PreviousPage(offset)
    \/ Refresh \/ Click \/ OpenAdjustment

\* What comes back, and what others do.
Others ==
    \/ \E i \in 1 .. Len(loads) : Serve(i) \/ ReceiveLoad(i) \/ LoadFails(i)
    \/ \E tag \in Tags : \/ RowArrives(tag) \/ AdjustmentAnswered(tag)
                         \/ \E row \in 1 .. Len(table) : RowMoves(row, tag) \/ ActionAnswered(row, tag)
    \/ ActionRefused

NextLists ==
    \/ Reader /\ events < MaxEvents /\ events' = events + 1
    \/ Others /\ UNCHANGED events

SpecLists == InitLists /\ [][NextLists]_listVars

-----------------------------------------------------------------------------
\* Once its loads are back, a page shows the rows of its own filter and offset, or
\* an error, and no spinner - unless an answer came after that of a later load, or
\* the answer is that of an action's reload, made from a render that was gone.
PageFollowsControls ==
    loads = << >> => /\ ~ loading
                     /\ error \/ shown.at = controls \/ shown.excused

\* Who turns the pages from the first to the last, waiting for each, has seen every
\* row that was there at the beginning, although rows are inserted and change
\* meanwhile - unless one left the filter, which pulls the rest of them forward.
WalkIsComplete ==
    (walk.on /\ loads = << >> /\ shown.at = controls /\ OnLastPage(controls.offset))
        => walk.ahead = {}
=============================================================================
