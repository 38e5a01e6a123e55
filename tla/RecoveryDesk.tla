---------------------------- MODULE RecoveryDesk ----------------------------
(***************************************************************************)
(* The admins' desk of support requests: a list under a filter, approving  *)
(* a request, whose temporary code is shown this once, and rejecting one,  *)
(* which also withdraws its code.  One decision at a time: every button is *)
(* off until the decision is answered and the list was read again, under   *)
(* the filter of the click.                                                *)
(***************************************************************************)
EXTENDS Calls

CONSTANTS Requests,    \* the requests, each of an account of its own
          Filters,     \* the filters tried: statuses and "all"
          MaxCodes,    \* bound: codes made
          MaxClicks    \* bound: decisions, changes of the filter, visits

VARIABLES ui, net, srv, hist

vars == <<ui, net, srv, hist>>

Kinds == {"load", "approve", "reject"}
Open == {"pending", "approved"}
Statuses == Open \cup {"rejected", "used", "expired"}

TypeOK ==
    /\ DOMAIN ui.rows \subseteq Requests
    /\ \A r \in DOMAIN ui.rows : ui.rows[r] \in Statuses
    /\ ui.filter \in Filters
    /\ ui.busy \in Requests \cup {None}
    /\ ui.issued = None \/ ui.issued \in [req : Requests, code : 1..MaxCodes]
    /\ srv.status \in [Requests -> Statuses] /\ srv.code \in [Requests -> 0..MaxCodes]
    /\ srv.made \in 0..MaxCodes
    /\ CallsOK(net, Kinds)

----------------------------------------------------------------------------
(* The backend *)

Under(filter, status) == filter = "all" \/ status = filter

ListRequests == \E i \in Waiting(net, "load") :
    LET found == {r \in Requests : Under(net[i].arg.filter, srv.status[r])} IN
    /\ net' = Served(net, i, [r \in found |-> srv.status[r]])
    /\ UNCHANGED <<srv, hist>>

\* A decision that was made and whose answer does not arrive, or arrives at a page
\* that is gone: the code on screen need not be the request's any more.
Told(i, data) == \/ net' = Served(net, i, data) /\ hist' = [hist EXCEPT !.off = @ \/ ~net[i].here]
                 \/ net' = Refused(net, i, None) /\ hist' = [hist EXCEPT !.off = TRUE]

\* Approving an approved request makes a new code in the place of the old one.
Approve == \E i \in Waiting(net, "approve") :
    LET r == net[i].arg.req
        code == srv.made + 1
    IN /\ srv.status[r] \in Open /\ srv.made < MaxCodes
       /\ srv' = [status |-> [srv.status EXCEPT ![r] = "approved"],
                  code |-> [srv.code EXCEPT ![r] = code], made |-> code]
       /\ Told(i, code)

Reject == \E i \in Waiting(net, "reject") :
    LET r == net[i].arg.req IN
    /\ srv.status[r] \in Open
    /\ srv' = [srv EXCEPT !.status[r] = "rejected", !.code[r] = 0]
    /\ Told(i, None)

\* A request that is no longer open, one's own, an error.
ServeRefusal == \E i \in DOMAIN net :
    net[i].stage = "sent" /\ net' = Refused(net, i, None) /\ UNCHANGED <<srv, hist>>

Backend == (ListRequests \/ Approve \/ Reject \/ ServeRefusal) /\ UNCHANGED ui

\* Another admin rejects a request, its owner uses the code, or time runs out.
Elsewhere == \E r \in Requests, s \in Statuses \ Open :
    /\ srv.status[r] \in Open /\ (s = "used" => srv.code[r] # 0)
    /\ srv' = [srv EXCEPT !.status[r] = s, !.code[r] = 0]
    /\ hist' = [hist EXCEPT !.off = TRUE]
    /\ UNCHANGED <<ui, net>>

----------------------------------------------------------------------------
(* The page *)

Click(h) == hist.clicks < MaxClicks /\ hist' = [h EXCEPT !.clicks = @ + 1]

Asked(filter, after) == [filter |-> filter, after |-> after]

\* An answer is shown whatever filter it was asked for.  The list and its filter
\* may part when the filter changes under something on its way, or a load fails.
LoadAnswered == \E i \in Answered(net, "load") :
    LET c == net[i]
        seen == IF c.ok THEN [ui EXCEPT !.rows = c.data] ELSE ui
    IN /\ ui' = IF ~c.here THEN ui
                ELSE IF c.arg.after THEN [seen EXCEPT !.busy = None] ELSE seen
       /\ net' = Settled(net, i)
       /\ hist' = IF c.here /\ ~c.ok THEN [hist EXCEPT !.mixed = TRUE] ELSE hist
       /\ UNCHANGED srv

\* mutant: the list is not read again under the new filter.
SameList(filter) == net

\* The effect on [statusFilter].
NewList(filter) == Sent(net, "load", Asked(filter, FALSE))

ChangeFilter == \E f \in Filters \ {ui.filter} :
    /\ Room(net, 1)
    /\ ui' = [ui EXCEPT !.filter = f]
    /\ net' = NewList(f)
    /\ Click([hist EXCEPT !.mixed = @ \/ net # << >>])
    /\ UNCHANGED srv

\* The buttons of a card, while no decision is under way.
Card(r) == ui.busy = None /\ r \in DOMAIN ui.rows /\ ui.rows[r] \in Open

Decide(kind) == \E r \in Requests :
    /\ Card(r) /\ Room(net, 1)
    /\ ui' = [ui EXCEPT !.busy = r]
    /\ net' = Sent(net, kind, [req |-> r, filter |-> ui.filter])
    /\ Click(hist)
    /\ UNCHANGED srv

handleApprove == Decide("approve")
handleReject == Decide("reject")

\* mutant: a code stays on screen when its request is rejected.
StillIssued(c) == IF c.kind = "approve" THEN [req |-> c.arg.req, code |-> c.data] ELSE ui.issued

\* An approval shows its code in the place of the last, a rejection hides whichever
\* is shown.
Issued(c) == IF c.kind = "approve" THEN [req |-> c.arg.req, code |-> c.data] ELSE None

\* act: a decision that was made is followed by the list, one that was not is over.
\* (The list a page asks for that is gone is left out.)
act == \E i \in Answered(net, "approve") \cup Answered(net, "reject") :
    LET c == net[i] IN
    /\ ui' = IF ~c.here THEN ui
             ELSE IF c.ok THEN [ui EXCEPT !.issued = Issued(c)] ELSE [ui EXCEPT !.busy = None]
    /\ net' = IF c.here /\ c.ok THEN Sent(Settled(net, i), "load", Asked(c.arg.filter, TRUE))
                                ELSE Settled(net, i)
    /\ UNCHANGED <<srv, hist>>

HideCode == /\ ui.issued # None
            /\ ui' = [ui EXCEPT !.issued = None]
            /\ UNCHANGED <<net, srv, hist>>

Fresh == [rows |-> << >>, filter |-> "pending", busy |-> None, issued |-> None]

\* The page is left and opened again: a code on screen, or on its way, is gone.
Reopen == /\ Room(net, 1)
          /\ ui' = Fresh
          /\ net' = Sent(Unheard(net, Kinds), "load", Asked("pending", FALSE))
          /\ Click([hist EXCEPT !.mixed = FALSE])
          /\ UNCHANGED srv

----------------------------------------------------------------------------
Init == /\ ui = Fresh
        /\ net = Sent(<< >>, "load", Asked("pending", FALSE))
        /\ srv = [status |-> [r \in Requests |-> "pending"],
                  code |-> [r \in Requests |-> 0], made |-> 0]
        /\ hist = [clicks |-> 0, mixed |-> FALSE, off |-> FALSE]

Next == \/ Backend \/ Elsewhere
        \/ LoadAnswered \/ ChangeFilter
        \/ handleApprove \/ handleReject \/ act \/ HideCode \/ Reopen

Spec == Init /\ [][Next]_vars

----------------------------------------------------------------------------
(* Properties *)

\* The code an admin reads out works: it is its request's present code, not one
\* that a later approval replaced or a rejection withdrew, as long as no answer
\* to a decision was lost and nobody else acts on the requests.
CodeShownWorks ==
    ui.issued # None /\ ~InFlight(net, "approve") /\ ~InFlight(net, "reject") /\ ~hist.off
        => srv.code[ui.issued.req] = ui.issued.code

\* When nothing is on its way the list is one of the chosen filter, unless the
\* filter was changed while something was: a decision reads the list again under
\* the filter it was clicked under.
ListIsOfFilter ==
    net = << >> /\ ~hist.mixed => \A r \in DOMAIN ui.rows : Under(ui.filter, ui.rows[r])
=============================================================================
