---------------------------- MODULE BookingsDesk ----------------------------
(***************************************************************************)
(* The admins' desk of bookings: the status and the payment of each are    *)
(* changed in its card, any number at once, and a booking is deleted.  The *)
(* list is read once, when the page opens; an answer patches the one field *)
(* that was changed.  The backend reads the row and saves it whole.        *)
(***************************************************************************)
EXTENDS Calls, Functions

CONSTANTS Bookings,    \* the bookings of the list
          Statuses,    \* the statuses tried, "new" among them
          MaxClicks    \* bound: changes

VARIABLES ui, net, srv, hist

vars == <<ui, net, srv, hist>>

Kinds == {"load", "change", "delete"}

Rows == [status : Statuses, paid : BOOLEAN]
Tables == UNION {[S -> Rows] : S \in SUBSET Bookings}

TypeOK == /\ ui \in Tables /\ srv \in Tables
          /\ hist.clicks \in 0..MaxClicks /\ hist.off \in BOOLEAN
          /\ CallsOK(net, Kinds)

----------------------------------------------------------------------------
(* The backend *)

List == \E i \in Waiting(net, "load") :
    /\ net' = Served(net, i, srv)
    /\ UNCHANGED <<srv, hist>>

\* UpdateStatus reads the row of the booking, which the call holds until it saves it.
ReadRow == \E i \in Waiting(net, "change") :
    /\ net[i].data = None /\ net[i].arg.booking \in DOMAIN srv
    /\ net' = [net EXCEPT ![i].data = srv[net[i].arg.booking]]
    /\ UNCHANGED <<srv, hist>>

\* An answer of the same field of the same booking, or of the list, is still on its
\* way: it may be heard after this one's.
Overtakes(change) == \E i \in DOMAIN net :
    /\ net[i].stage = "answered" /\ net[i].ok
    /\ net[i].kind = "change" => /\ net[i].arg.booking = change.booking
                                 /\ net[i].arg.field = change.field

\* mutant: the row of a form that shows only one of the fields.
SavedAsNew(row, change) ==
    [[status |-> "new", paid |-> FALSE] EXCEPT ![change.field] = change.value]

\* The field that was sent is set, the other is as it was read.
Saved(row, change) == [row EXCEPT ![change.field] = change.value]

\* The whole row is saved, a deleted booking's anew.  The answer may be lost.
SaveRow == \E i \in Waiting(net, "change") :
    LET c == net[i].arg
        met == c.booking \in DOMAIN srv /\ srv[c.booking] = net[i].data
    IN /\ net[i].data # None
       /\ srv' = (c.booking :> Saved(net[i].data, c)) @@ srv
       /\ \/ net' = Served(net, i, None)
             /\ hist' = [hist EXCEPT !.off = @ \/ ~met \/ Overtakes(c)]
          \/ net' = Refused(net, i, None) /\ hist' = [hist EXCEPT !.off = TRUE]

Delete == \E i \in Waiting(net, "delete") :
    /\ srv' = Restrict(srv, DOMAIN srv \ {net[i].arg.booking})
    /\ \/ net' = Served(net, i, None) /\ UNCHANGED hist
       \/ net' = Refused(net, i, None) /\ hist' = [hist EXCEPT !.off = TRUE]

\* A booking that is gone, an error.
ServeRefusal == \E i \in DOMAIN net :
    net[i].stage = "sent" /\ net' = Refused(net, i, None) /\ UNCHANGED <<srv, hist>>

Backend == (List \/ ReadRow \/ SaveRow \/ Delete \/ ServeRefusal) /\ UNCHANGED ui

----------------------------------------------------------------------------
(* The page.  The list is empty until it is read, and so is what can be clicked. *)

LoadAnswered == \E i \in Answered(net, "load") :
    /\ ui' = IF net[i].ok THEN net[i].data ELSE ui
    /\ net' = Settled(net, i)
    /\ UNCHANGED <<srv, hist>>

Click(kind, arg) ==
    /\ Room(net, 1) /\ hist.clicks < MaxClicks
    /\ net' = Sent(net, kind, arg)
    /\ hist' = [hist EXCEPT !.clicks = @ + 1]
    /\ UNCHANGED <<ui, srv>>

Change(booking, field, value) ==
    Click("change", [booking |-> booking, field |-> field, value |-> value])

handleStatusChange == \E b \in DOMAIN ui, s \in Statuses :
    s # ui[b].status /\ Change(b, "status", s)

handlePaidToggle == \E b \in DOMAIN ui : Change(b, "paid", ~ui[b].paid)

handleDelete == \E b \in DOMAIN ui : Click("delete", [booking |-> b])

\* The field of the change, in the row as it is by now, if it is still there.
Patched(rows, change) ==
    [b \in DOMAIN rows |-> IF b = change.booking THEN Saved(rows[b], change) ELSE rows[b]]

ChangeAnswered == \E i \in Answered(net, "change") :
    /\ ui' = IF net[i].ok THEN Patched(ui, net[i].arg) ELSE ui
    /\ net' = Settled(net, i)
    /\ UNCHANGED <<srv, hist>>

DeleteAnswered == \E i \in Answered(net, "delete") :
    /\ ui' = IF net[i].ok THEN Restrict(ui, DOMAIN ui \ {net[i].arg.booking}) ELSE ui
    /\ net' = Settled(net, i)
    /\ UNCHANGED <<srv, hist>>

----------------------------------------------------------------------------
Init == /\ ui = << >>
        /\ net = Sent(<< >>, "load", None)
        /\ srv = [b \in Bookings |-> [status |-> "new", paid |-> FALSE]]
        /\ hist = [clicks |-> 0, off |-> FALSE]

Next == \/ Backend
        \/ LoadAnswered
        \/ handleStatusChange \/ handlePaidToggle \/ handleDelete
        \/ ChangeAnswered \/ DeleteAnswered

Spec == Init /\ [][Next]_vars

----------------------------------------------------------------------------
(* Properties *)

\* The card of a booking shows what is kept: its status and whether it was paid, the
\* deleted ones gone, although several changes of one booking or of many were on
\* their way at once.  Not promised once two changes of one booking overlapped in the
\* backend (the later save undoes the earlier, or brings a deleted booking back), one
\* overtook the answer of an earlier, or an answer was lost.
CardsAreKept == net = << >> /\ ~hist.off /\ ui # << >> => ui = srv
=============================================================================
