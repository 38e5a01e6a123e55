----------------------------- MODULE RequestDesk -----------------------------
(***************************************************************************)
(* One event's request on the managers' desk: its status, the revision it  *)
(* was last submitted with, the comment to the organizer, and the buttons  *)
(* of the decisions its status allows.  A decision is followed by reading  *)
(* the request again, which nobody waits for.                              *)
(***************************************************************************)
EXTENDS Calls

CONSTANTS MaxRevisions,   \* bound: submissions by the organizer
          MaxTexts,       \* bound: comments typed
          MaxClicks       \* bound: decisions

VARIABLES ui, net, srv, hist

vars == <<ui, net, srv, hist>>

Kinds == {"load", "decide"}
Decisions == {"in_review", "changes_requested", "approved", "rejected"}
Statuses == Decisions \cup {"submitted", "cancelled"}

\* A request that was submitted, with the manager's comment by the number of its text.
Requests == [status : Statuses, comment : 0..MaxTexts, revision : 1..MaxRevisions]

TypeOK == /\ ui.request \in Requests \cup {None} /\ ui.comment \in 0..MaxTexts
          /\ ui.saving \in BOOLEAN
          /\ srv \in Requests
          /\ hist.apart \in BOOLEAN /\ hist.blind \in BOOLEAN
          /\ CallsOK(net, Kinds)

----------------------------------------------------------------------------
(* The backend and the others *)

NEXT_STATUSES(status) ==
    CASE status = "submitted" -> Decisions
      [] status = "in_review" -> Decisions \ {"in_review"}
      [] OTHER -> {}

AdminGet == \E i \in Waiting(net, "load") :
    net' = Served(net, i, srv) /\ UNCHANGED <<srv, hist>>

\* The decision falls on the request as it is by now; the answer may be lost.
AdminUpdateStatus == \E i \in Waiting(net, "decide") :
    LET d == net[i].arg
        blind == hist.blind \/ (d.revision # srv.revision /\ ~hist.apart)
    IN /\ d.status \in NEXT_STATUSES(srv.status)
       /\ srv' = [srv EXCEPT !.status = d.status, !.comment = d.comment]
       /\ \/ net' = Served(net, i, None) /\ hist' = [hist EXCEPT !.blind = blind]
          \/ net' = Refused(net, i, None) /\ hist' = [hist EXCEPT !.blind = blind, !.apart = TRUE]

\* A status that does not allow the decision, an error.  Without the reading the
\* screen stays what it was.
ServeRefusal == \E i \in DOMAIN net :
    /\ net[i].stage = "sent"
    /\ net' = Refused(net, i, None)
    /\ hist' = [hist EXCEPT !.apart = @ \/ net[i].kind = "load"]
    /\ UNCHANGED srv

Backend == (AdminGet \/ AdminUpdateStatus \/ ServeRefusal) /\ UNCHANGED ui

\* The organizer submits the plan again, or withdraws it.
Submit == /\ srv.status = "changes_requested" /\ srv.revision < MaxRevisions
          /\ srv' = [srv EXCEPT !.status = "submitted", !.revision = @ + 1]
          /\ UNCHANGED <<ui, net, hist>>

Cancel == /\ srv.status \in {"submitted", "in_review", "changes_requested"}
          /\ srv' = [srv EXCEPT !.status = "cancelled"]
          /\ UNCHANGED <<ui, net, hist>>

\* Another manager decides.
Elsewhere == \E s \in NEXT_STATUSES(srv.status) :
    /\ srv' = [srv EXCEPT !.status = s]
    /\ hist' = [hist EXCEPT !.apart = TRUE]
    /\ UNCHANGED <<ui, net>>

----------------------------------------------------------------------------
(* The page *)

\* load puts the stored comment into the field, over what was typed meanwhile.
LoadAnswered == \E i \in Answered(net, "load") :
    LET d == net[i].data IN
    /\ ui' = IF net[i].ok THEN [ui EXCEPT !.request = d, !.comment = d.comment] ELSE ui
    /\ net' = Settled(net, i)
    /\ UNCHANGED <<srv, hist>>

Type == /\ ui.request # None /\ hist.texts < MaxTexts
        /\ ui' = [ui EXCEPT !.comment = hist.texts + 1]
        /\ hist' = [hist EXCEPT !.texts = @ + 1]
        /\ UNCHANGED <<net, srv>>

\* mutant: the buttons stay on while a decision is being saved.
MayDecideAgain == ui.request # None

\* The buttons are off while a decision is being saved, not while the request is
\* read again after it.
MayDecide == ui.request # None /\ ~ui.saving

handleStatusChange == \E s \in Decisions :
    /\ MayDecide /\ s \in NEXT_STATUSES(ui.request.status) /\ Room(net, 1)
    /\ ui' = [ui EXCEPT !.saving = TRUE]
    /\ net' = Sent(net, "decide", [status |-> s, comment |-> ui.comment,
                                   revision |-> ui.request.revision])
    /\ hist.clicks < MaxClicks
    /\ hist' = [hist EXCEPT !.clicks = @ + 1, !.apart = @ \/ InFlight(net, "load")]
    /\ UNCHANGED srv

\* mutant: the request is not read again.
SavedOnly(i) == Settled(net, i)

\* A decision that was made is followed by load(), without an await.
ReadAgain(i) == IF net[i].ok THEN Sent(Settled(net, i), "load", None) ELSE Settled(net, i)

DecisionAnswered == \E i \in Answered(net, "decide") :
    /\ ui' = [ui EXCEPT !.saving = FALSE]
    /\ net' = ReadAgain(i)
    /\ UNCHANGED <<srv, hist>>

----------------------------------------------------------------------------
Init == /\ ui = [request |-> None, comment |-> 0, saving |-> FALSE]
        /\ net = Sent(<< >>, "load", None)
        /\ srv = [status |-> "submitted", comment |-> 0, revision |-> 1]
        /\ hist = [clicks |-> 0, texts |-> 0, apart |-> FALSE, blind |-> FALSE]

Next == \/ Backend \/ Submit \/ Cancel \/ Elsewhere
        \/ LoadAnswered \/ Type \/ handleStatusChange \/ DecisionAnswered

Spec == Init /\ [][Next]_vars

----------------------------------------------------------------------------
(* Properties *)

\* Managers decide on what they have seen: a decision never falls on a revision the
\* organizer submitted after the one on screen, although the call does not name a
\* revision.  Not promised when another manager decides meanwhile, after a lost
\* answer or a failed reading, or for a click before the request was read again.
DecidesWhatWasSeen == ~hist.blind
=============================================================================
