----------------------------- MODULE ServicePage -----------------------------
(***************************************************************************)
(* The page of a service, but for its calculator: the view it reports once *)
(* it is opened, the popover that saves the service (or one menu of it)    *)
(* into the shortlist of one of the customer's events, and the comments.   *)
(* The popover beside a menu is one instance for every menu viewed.        *)
(***************************************************************************)
EXTENDS Calls, FiniteSets

CONSTANTS Menus,       \* the menus of the restaurant shown
          Events,      \* the customer's events
          MaxTexts     \* bound: comments typed

VARIABLES ui,          \* the state of the page's components
          net, srv, hist

vars == <<ui, net, srv, hist>>

Kinds == {"view", "comments", "events", "candidate", "comment"}

\* A page as it mounts.
Fresh == [viewed |-> CHOOSE m \in Menus : TRUE, views |-> FALSE, loading |-> TRUE,
          panel |-> FALSE, events |-> None, added |-> {},
          text |-> 0, submitting |-> FALSE]

TypeOK ==
    /\ ui.at.viewed \in Menus
    /\ \A f \in {"views", "loading", "panel", "submitting"} : ui.at[f] \in BOOLEAN
    /\ ui.signedIn \in BOOLEAN
    /\ ui.at.events \in {None, TRUE, FALSE} /\ ui.at.added \subseteq Events
    /\ ui.at.text \in 0..MaxTexts
    /\ CallsOK(net, Kinds)
    /\ srv.shortlist \subseteq Events \X Menus
    /\ \A k \in DOMAIN srv.comments : srv.comments[k] \in 1..MaxTexts

----------------------------------------------------------------------------
(* The backend *)

\* One candidate per variant: a second one is answered with the first.
ServeCandidate == \E i \in Waiting(net, "candidate") :
    /\ srv' = [srv EXCEPT !.shortlist = @ \cup {net[i].arg}]
    /\ net' = Served(net, i, None)
    /\ UNCHANGED hist

\* A comment is filed for moderation; its answer may be lost.
ServeComment == \E i \in Waiting(net, "comment"), lost \in BOOLEAN :
    /\ Len(srv.comments) < MaxTexts + 1
    /\ srv' = [srv EXCEPT !.comments = Append(@, net[i].arg)]
    /\ net' = IF lost THEN Refused(net, i, None) ELSE Served(net, i, None)
    /\ hist' = [hist EXCEPT !.unheard = @ \/ lost]

ServeLook == \E kind \in {"view", "comments", "events"} : \E i \in Waiting(net, kind) :
    net' = Served(net, i, None) /\ UNCHANGED <<srv, hist>>

ServeRefusal == \E i \in DOMAIN net :
    net[i].stage = "sent" /\ net' = Refused(net, i, None) /\ UNCHANGED <<srv, hist>>

\* Any other answer gets lost.
AnswerLost == \E i \in Coming(net) :
    net[i].kind # "comment" /\ net' = Refused(net, i, None) /\ UNCHANGED <<srv, hist>>

Backend == /\ ServeCandidate \/ ServeComment \/ ServeLook \/ ServeRefusal \/ AnswerLost
           /\ UNCHANGED ui

----------------------------------------------------------------------------
(* Opening *)

\* Another service, or the same again: everything mounts afresh and reports
\* the view and loads the comments.
Open == /\ ui' = [ui EXCEPT !.at = Fresh]
        /\ Room(net, 2)
        /\ net' = Sent(Sent(Unheard(net, Kinds), "view", None), "comments", None)
        /\ hist' = [hist EXCEPT !.wandered = FALSE, !.submitted = 0,
                               !.unheard = @ \/ InFlight(net, "comment")]
        /\ UNCHANGED srv

LookAnswered == \E kind \in {"view", "comments"} : \E i \in Answered(net, kind) :
    /\ ui' = IF ~net[i].here THEN ui
             ELSE IF kind = "comments" THEN [ui EXCEPT !.at.loading = FALSE]
             ELSE [ui EXCEPT !.at.views = net[i].ok]
    /\ net' = Settled(net, i)
    /\ UNCHANGED <<srv, hist>>

ViewMenu == \E m \in Menus \ {ui.at.viewed} :
    /\ ui' = [ui EXCEPT !.at.viewed = m, !.at.panel = FALSE]
    /\ hist' = [hist EXCEPT !.wandered = TRUE]
    /\ UNCHANGED <<net, srv>>

SignInOrOut == /\ ui' = [ui EXCEPT !.signedIn = ~@, !.at.panel = @ /\ ~ui.signedIn]
               /\ UNCHANGED <<net, srv, hist>>

----------------------------------------------------------------------------
(* AddToEventMenu *)

\* The list of events is asked for until one answer has come.
handleOpen ==
    /\ ui.signedIn
    /\ ui' = [ui EXCEPT !.at.panel = ~@]
    /\ IF ui.at.events = None THEN Room(net, 1) /\ net' = Sent(net, "events", None)
                              ELSE UNCHANGED net
    /\ UNCHANGED <<srv, hist>>

\* A list that fails shows as no events.
EventsAnswered == \E i \in Answered(net, "events") :
    /\ ui' = IF net[i].here THEN [ui EXCEPT !.at.events = net[i].ok] ELSE ui
    /\ net' = Settled(net, i)
    /\ UNCHANGED <<srv, hist>>

\* A click anywhere else (one of them changes the menu viewed).
CloseOutside == /\ ui.at.panel
                /\ ui' = [ui EXCEPT !.at.panel = FALSE]
                /\ UNCHANGED <<net, srv, hist>>

\* Events with a tick are disabled; the others are not while a call is out.
Panel == ui.signedIn /\ ui.at.panel /\ ui.at.events = TRUE
handleAdd == \E e \in Events \ ui.at.added :
    /\ Panel
    /\ Room(net, 1)
    /\ net' = Sent(net, "candidate", <<e, ui.at.viewed>>)
    /\ UNCHANGED <<ui, srv, hist>>

\* mutant: the tick is set whether the call succeeded or not.
TickAlways(c) == TRUE

Tick(c) == c.ok

CandidateAnswered == \E i \in Answered(net, "candidate") :
    LET c == net[i] IN
    /\ ui' = IF c.here /\ Tick(c) THEN [ui EXCEPT !.at.added = @ \cup {c.arg[1]}] ELSE ui
    /\ net' = Settled(net, i)
    /\ UNCHANGED <<srv, hist>>

----------------------------------------------------------------------------
(* CommentsSection *)

\* mutant: the button stays enabled while a comment is on its way.
CommentFormEager == ui.signedIn /\ ui.at.text # 0

CommentForm == ui.signedIn /\ ui.at.text # 0 /\ ~ui.at.submitting

\* A comment is written; typing goes on while another is on its way.
Type == /\ ui.signedIn /\ ui.at.text = hist.submitted /\ hist.texts < MaxTexts
        /\ ui' = [ui EXCEPT !.at.text = hist.texts + 1]
        /\ hist' = [hist EXCEPT !.texts = @ + 1]
        /\ UNCHANGED <<net, srv>>

handleSubmit == /\ CommentForm
                /\ Room(net, 1)
                /\ ui' = [ui EXCEPT !.at.submitting = TRUE]
                /\ net' = Sent(net, "comment", ui.at.text)
                /\ hist' = [hist EXCEPT !.submitted = ui.at.text]
                /\ UNCHANGED srv

\* The field is emptied of whatever is in it by now; a failure leaves it.
CommentAnswered == \E i \in Answered(net, "comment") :
    LET c == net[i] IN
    /\ ui' = IF ~c.here THEN ui
             ELSE IF c.ok
             THEN [ui EXCEPT !.at.submitting = FALSE, !.at.text = 0]
             ELSE [ui EXCEPT !.at.submitting = FALSE]
    /\ hist' = IF c.here /\ c.ok THEN [hist EXCEPT !.submitted = 0] ELSE hist
    /\ net' = Settled(net, i)
    /\ UNCHANGED srv

----------------------------------------------------------------------------
Init == /\ \E s \in BOOLEAN : ui = [signedIn |-> s, at |-> Fresh]
        /\ net = << >>
        /\ srv = [shortlist |-> {}, comments |-> << >>]
        /\ hist = [texts |-> 0, submitted |-> 0, wandered |-> FALSE, unheard |-> FALSE]

Next == \/ Backend \/ Open \/ LookAnswered \/ ViewMenu \/ SignInOrOut
        \/ handleOpen \/ EventsAnswered \/ CloseOutside \/ handleAdd \/ CandidateAnswered
        \/ Type \/ handleSubmit \/ CommentAnswered

Spec == Init /\ [][Next]_vars

----------------------------------------------------------------------------
(* Properties *)

\* The tick beside an event means that the menu on screen is in its shortlist,
\* as long as no other menu was viewed: the ticks of the menu viewed before are
\* carried over, and keep the second menu out.
TickIsTrue ==
    ~hist.wandered => \A e \in ui.at.added : <<e, ui.at.viewed>> \in srv.shortlist

\* A comment is filed once, unless its answer was lost and the customer, whose
\* text is still there, sent it again.
NoCommentTwice ==
    ~hist.unheard => \A j, k \in DOMAIN srv.comments :
                        srv.comments[j] = srv.comments[k] => j = k
=============================================================================
