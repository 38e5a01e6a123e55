---------------------------- MODULE CommentsDesk ----------------------------
(***************************************************************************)
(* The admins' desk of comments: a list under a filter; approving, taking  *)
(* down and deleting a comment, any number of them at once.  The list is   *)
(* not read again after a change: the answer patches it, by the filter of  *)
(* the click.                                                              *)
(***************************************************************************)
EXTENDS Calls, Functions

CONSTANTS Comments,    \* the comments sent in before the visit
          MaxClicks    \* bound: changes and choices of a filter

VARIABLES ui, net, srv, hist

vars == <<ui, net, srv, hist>>

Kinds == {"load", "approve", "delete"}
Filters == {"pending", "approved", "all"}

\* Comments and whether each is approved.
Tables == UNION {[S -> BOOLEAN] : S \in SUBSET Comments}

TypeOK == /\ ui.rows \in Tables /\ ui.filter \in Filters
          /\ srv \in Tables
          /\ hist.clicks \in 0..MaxClicks /\ hist.off \in BOOLEAN
          /\ CallsOK(net, Kinds)

----------------------------------------------------------------------------
(* The backend *)

Under(filter, approved) == filter = "all" \/ approved = (filter = "approved")

Found(filter) == Restrict(srv, {c \in DOMAIN srv : Under(filter, srv[c])})

ListAll == \E i \in Waiting(net, "load") :
    /\ net' = Served(net, i, Found(net[i].arg))
    /\ UNCHANGED <<srv, hist>>

\* A change served while an earlier answer is still on its way: they may be heard in
\* the other order.
Overtakes == \E i \in DOMAIN net : net[i].stage = "answered" /\ net[i].ok

\* The change is made; its answer may be lost.
Told(i) == \/ net' = Served(net, i, None) /\ hist' = [hist EXCEPT !.off = @ \/ Overtakes]
           \/ net' = Refused(net, i, None) /\ hist' = [hist EXCEPT !.off = TRUE]

UpdateApproval == \E i \in Waiting(net, "approve") :
    /\ net[i].arg.comment \in DOMAIN srv
    /\ srv' = [srv EXCEPT ![net[i].arg.comment] = net[i].arg.approved]
    /\ Told(i)

\* Deleting what is not there is no error.
Delete == \E i \in Waiting(net, "delete") :
    /\ srv' = Restrict(srv, DOMAIN srv \ {net[i].arg.comment})
    /\ Told(i)

\* A comment that is gone, an error; a list that was not read stays another filter's.
ServeRefusal == \E i \in DOMAIN net :
    /\ net[i].stage = "sent"
    /\ net' = Refused(net, i, None)
    /\ hist' = [hist EXCEPT !.off = @ \/ net[i].kind = "load"]
    /\ UNCHANGED srv

Backend == (ListAll \/ UpdateApproval \/ Delete \/ ServeRefusal) /\ UNCHANGED ui

----------------------------------------------------------------------------
(* The page *)

Click(h) == hist.clicks < MaxClicks /\ hist' = [h EXCEPT !.clicks = @ + 1]

\* The effect on [filter]: no answer still on its way is cancelled, so one of the
\* earlier filter may come last, and a change clicked under it is yet to be patched in.
ChangeFilter == \E f \in Filters \ {ui.filter} :
    /\ Room(net, 1)
    /\ ui' = [ui EXCEPT !.filter = f]
    /\ net' = Sent(net, "load", f)
    /\ Click([hist EXCEPT !.off = @ \/ net # << >>])
    /\ UNCHANGED srv

LoadAnswered == \E i \in Answered(net, "load") :
    /\ ui' = IF net[i].ok THEN [ui EXCEPT !.rows = net[i].data] ELSE ui
    /\ net' = Settled(net, i)
    /\ UNCHANGED <<srv, hist>>

\* The rows of the last filter can be clicked while the next list is on its way.
Change(kind, comment, approved) ==
    /\ Room(net, 1)
    /\ net' = Sent(net, kind, [comment |-> comment, approved |-> approved,
                               filter |-> ui.filter])
    /\ Click([hist EXCEPT !.off = @ \/ InFlight(net, "load")])
    /\ UNCHANGED <<ui, srv>>

\* The button offers the other state of the row on screen.
handleApprove == \E c \in DOMAIN ui.rows : Change("approve", c, ~ui.rows[c])

handleDelete == \E c \in DOMAIN ui.rows : Change("delete", c, FALSE)

Without(rows, comment) == Restrict(rows, DOMAIN rows \ {comment})

\* mutant: the row is changed under every filter.
PatchedEverywhere(rows, change) ==
    [c \in DOMAIN rows |-> IF c = change.comment THEN change.approved ELSE rows[c]]

\* Under a filter the comment leaves the list, under "all" it changes.
Patched(rows, change) ==
    IF change.filter = "all" THEN PatchedEverywhere(rows, change)
                             ELSE Without(rows, change.comment)

ApproveAnswered == \E i \in Answered(net, "approve") :
    /\ ui' = IF net[i].ok THEN [ui EXCEPT !.rows = Patched(@, net[i].arg)] ELSE ui
    /\ net' = Settled(net, i)
    /\ UNCHANGED <<srv, hist>>

DeleteAnswered == \E i \in Answered(net, "delete") :
    /\ ui' = IF net[i].ok THEN [ui EXCEPT !.rows = Without(@, net[i].arg.comment)] ELSE ui
    /\ net' = Settled(net, i)
    /\ UNCHANGED <<srv, hist>>

----------------------------------------------------------------------------
Init == /\ ui = [rows |-> << >>, filter |-> "pending"]
        /\ net = Sent(<< >>, "load", "pending")
        /\ srv \in [Comments -> BOOLEAN]
        /\ hist = [clicks |-> 0, off |-> FALSE]

Next == \/ Backend
        \/ ChangeFilter \/ LoadAnswered
        \/ handleApprove \/ handleDelete \/ ApproveAnswered \/ DeleteAnswered

Spec == Init /\ [][Next]_vars

----------------------------------------------------------------------------
(* Properties *)

\* Nothing is moderated twice and nothing is overlooked: once nothing is on its way
\* the desk shows exactly the comments of its filter, each as it is published,
\* although the list was patched and never read again, and several changes were on
\* their way at once.  Not promised after a lost answer, a list that was not read, a
\* change that overtook an earlier answer, or a click or another filter while the list
\* of a filter, or a change clicked under it, was on its way.
QueueIsCurrent == net = << >> /\ ~hist.off => ui.rows = Found(ui.filter)
=============================================================================
