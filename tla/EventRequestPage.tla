-------------------------- MODULE EventRequestPage --------------------------
(***************************************************************************)
(* The organizer's page of an event's request: the comment, the selection  *)
(* as it stands, sending the request after a dialog and cancelling it      *)
(* after another.  Saving the comment and sending are separate calls, each *)
(* with its own flag; each puts the request it is answered with on screen. *)
(***************************************************************************)
EXTENDS Calls

CONSTANTS MaxSteps,    \* bound: changes of the request
          MaxVisits    \* bound: times the page is mounted

VARIABLES ui, net, srv, hist

vars == <<ui, net, srv, hist>>

Kinds == {"load", "save", "submit", "cancel"}
Statuses == {"draft", "submitted", "changes_requested", "approved", "cancelled"}
Comments == {"none", "first", "second"}
Requests == [status : Statuses, comment : Comments, version : 0..MaxSteps]
Editable(r) == r.status \in {"draft", "changes_requested"}
Cancellable(r) == r.status \in {"draft", "submitted", "changes_requested"}

Fresh == [loading |-> TRUE, request |-> None, comment |-> "none", notice |-> None,
          saving |-> FALSE, submitting |-> FALSE, dialog |-> None]

TypeOK ==
    /\ ui.request = None \/ ui.request \in Requests
    /\ ui.comment \in Comments
    /\ ui.notice \in {None, "saved", "sent", "error"} /\ ui.dialog \in {None, "confirm", "cancel"}
    /\ {ui.loading, ui.saving, ui.submitting} \subseteq BOOLEAN
    /\ srv \in Requests
    /\ CallsOK(net, Kinds)

----------------------------------------------------------------------------
(* The backend; the manager works on a request that was sent *)

Change(r) == /\ srv.version < MaxSteps
             /\ srv' = [r EXCEPT !.version = srv.version + 1]

ServeLoad == \E i \in Waiting(net, "load") : net' = Served(net, i, srv) /\ UNCHANGED srv

ServeSave == \E i \in Waiting(net, "save") :
    /\ Editable(srv) /\ Change([srv EXCEPT !.comment = net[i].arg])
    /\ net' = Served(net, i, srv')

\* Sending a request that is already under review answers with it as it is.
ServeSubmit == \E i \in Waiting(net, "submit") :
    /\ \/ Editable(srv) /\ Change([srv EXCEPT !.status = "submitted"])
       \/ srv.status = "submitted" /\ UNCHANGED srv
    /\ net' = Served(net, i, srv')

ServeCancel == \E i \in Waiting(net, "cancel") :
    /\ Cancellable(srv) /\ Change([srv EXCEPT !.status = "cancelled"])
    /\ net' = Served(net, i, srv')

ServeRefusal == \E i \in DOMAIN net :
    net[i].stage = "sent" /\ net' = Refused(net, i, None) /\ UNCHANGED srv

\* The answer gets lost.
AnswerLost == \E i \in Coming(net) : net' = Refused(net, i, None) /\ UNCHANGED srv

Backend == /\ ServeLoad \/ ServeSave \/ ServeSubmit \/ ServeCancel \/ ServeRefusal \/ AnswerLost
           /\ UNCHANGED <<ui, hist>>

Manager == \E s \in {"changes_requested", "approved"} :
    /\ srv.status = "submitted" /\ Change([srv EXCEPT !.status = s])
    /\ UNCHANGED <<ui, net, hist>>

----------------------------------------------------------------------------
(* The page *)

\* What a request on screen replaces, and whether the one replaced was newer.
Show(u, r) == [u EXCEPT !.request = r]
Crossed(r) == ui.request # None /\ r.version < ui.request.version

\* load: the request, the candidates and the categories together; the comment is
\* set to the stored one, whatever was typed.  A failure on mount leaves the
\* skeleton, after sending it says so although the request was sent.
LoadAnswered == \E i \in Answered(net, "load") :
    LET c == net[i]
        after == IF c.arg = "submit" THEN [ui EXCEPT !.submitting = FALSE] ELSE ui
    IN /\ ui' = IF ~c.here THEN ui
                ELSE IF c.ok THEN [Show(after, c.data) EXCEPT !.comment = c.data.comment,
                                                             !.loading = FALSE]
                ELSE IF c.arg = "submit" THEN [after EXCEPT !.notice = "error"] ELSE after
       /\ hist' = IF c.here /\ c.ok /\ Crossed(c.data) THEN [hist EXCEPT !.crossed = TRUE] ELSE hist
       /\ net' = Settled(net, i)
       /\ UNCHANGED srv

\* Leaving the page and coming back: calls go on, their answers are not shown.
Reopen == /\ hist.visits < MaxVisits /\ Room(net, 1)
          /\ ui' = Fresh
          /\ net' = Sent(Unheard(net, Kinds), "load", None)
          /\ hist' = [hist EXCEPT !.visits = @ + 1, !.confirmed = 0, !.crossed = FALSE]
          /\ UNCHANGED srv

\* The owner's form and the button that sends, while the request on screen may
\* be edited; the button that cancels, while it may be cancelled.
CommentForm == ~ui.loading /\ ui.dialog = None /\ Editable(ui.request)
CancelButton == ~ui.loading /\ ui.dialog = None /\ Cancellable(ui.request)

Type == /\ CommentForm
        /\ \E t \in Comments \ {ui.comment, "none"} : ui' = [ui EXCEPT !.comment = t]
        /\ UNCHANGED <<net, srv, hist>>

handleSaveComment == /\ CommentForm /\ ~ui.saving /\ Room(net, 1)
                     /\ ui' = [ui EXCEPT !.saving = TRUE, !.notice = None]
                     /\ net' = Sent(net, "save", ui.comment)
                     /\ UNCHANGED <<srv, hist>>

\* An own change was answered: the request on screen is the one that came back.
Confirmed(c) == hist' = [hist EXCEPT !.confirmed = IF @ < c.data.version THEN c.data.version ELSE @,
                                     !.crossed = @ \/ Crossed(c.data)]

SaveAnswered == \E i \in Answered(net, "save") :
    LET c == net[i] IN
    /\ IF c.here /\ c.ok
       THEN ui' = [Show(ui, c.data) EXCEPT !.notice = "saved", !.saving = FALSE] /\ Confirmed(c)
       ELSE /\ ui' = IF c.here THEN [ui EXCEPT !.notice = "error", !.saving = FALSE] ELSE ui
            /\ UNCHANGED hist
    /\ net' = Settled(net, i)
    /\ UNCHANGED srv

OpenDialog == /\ \/ CommentForm /\ ui' = [ui EXCEPT !.dialog = "confirm"]
                 \/ CancelButton /\ ui' = [ui EXCEPT !.dialog = "cancel"]
              /\ UNCHANGED <<net, srv, hist>>

\* Its buttons are off while a call is on its way; the cross and a click outside
\* close it all the same.
CloseDialog == /\ ui.dialog # None
               /\ ui' = [ui EXCEPT !.dialog = None]
               /\ UNCHANGED <<net, srv, hist>>

ConfirmDialog == ui.dialog = "confirm" /\ ~ui.submitting
CancelDialog == ui.dialog = "cancel" /\ ~ui.submitting

\* The comment in the box is not sent with it.
handleSubmit == /\ ConfirmDialog /\ Room(net, 1)
                /\ ui' = [ui EXCEPT !.submitting = TRUE]
                /\ net' = Sent(net, "submit", None)
                /\ UNCHANGED <<srv, hist>>

\* Sent: everything is loaded again, and until that has settled the flag stays.
SubmitAnswered == \E i \in Answered(net, "submit") :
    LET c == net[i] IN
    /\ IF c.ok THEN /\ net' = [Sent(Settled(net, i), "load", "submit") EXCEPT ![Len(net)].here = c.here]
                    /\ IF c.here THEN /\ ui' = [Show(ui, c.data) EXCEPT !.dialog = None, !.notice = "sent"]
                                      /\ Confirmed(c)
                       ELSE UNCHANGED <<ui, hist>>
       ELSE /\ net' = Settled(net, i)
            /\ ui' = IF c.here THEN [ui EXCEPT !.notice = "error", !.submitting = FALSE] ELSE ui
            /\ UNCHANGED hist
    /\ UNCHANGED srv

handleCancel == /\ CancelDialog /\ Room(net, 1)
                /\ ui' = [ui EXCEPT !.submitting = TRUE]
                /\ net' = Sent(net, "cancel", None)
                /\ UNCHANGED <<srv, hist>>

\* mutant: the dialog closes over the request as it was.
ClosesOnly(u, r) == [u EXCEPT !.dialog = None]

\* The cancelled request, once the backend has it.
Cancelled(u, r) == [Show(u, r) EXCEPT !.dialog = None]

CancelAnswered == \E i \in Answered(net, "cancel") :
    LET c == net[i] IN
    /\ IF c.here /\ c.ok
       THEN ui' = [Cancelled(ui, c.data) EXCEPT !.submitting = FALSE] /\ Confirmed(c)
       ELSE /\ ui' = IF c.here THEN [ui EXCEPT !.notice = "error", !.submitting = FALSE] ELSE ui
            /\ UNCHANGED hist
    /\ net' = Settled(net, i)
    /\ UNCHANGED srv

----------------------------------------------------------------------------
Init == /\ ui = Fresh
        /\ net = Sent(<< >>, "load", None)
        /\ srv = [status |-> "draft", comment |-> "none", version |-> 0]
        /\ hist = [visits |-> 1, confirmed |-> 0, crossed |-> FALSE]

Next == \/ Backend \/ Manager
        \/ Reopen \/ LoadAnswered \/ Type
        \/ handleSaveComment \/ SaveAnswered
        \/ OpenDialog \/ CloseDialog
        \/ handleSubmit \/ SubmitAnswered
        \/ handleCancel \/ CancelAnswered

Spec == Init /\ [][Next]_vars

----------------------------------------------------------------------------
(* Properties *)

\* The request on screen is never older than a change of it that was confirmed
\* on this page: what was sent does not stand there as a draft to send again,
\* nor what was cancelled as alive.  Only a save and a sending on their way at
\* once, answered in the other order, bring an older one back.
ConfirmedStays ==
    ~hist.crossed /\ ui.request # None => ui.request.version >= hist.confirmed
=============================================================================
