----------------------------- MODULE ManagerChat -----------------------------
(***************************************************************************)
(* The floating "manager" widget, mounted once above every page: a menu,   *)
(* two forms that leave a lead (a guest's only way to write), a success    *)
(* screen that closes itself, and for a signed-in customer a real chat     *)
(* whose thread depends on the context the widget was opened with.  Every  *)
(* page may call openChat(context) at any moment; loads, polls and sends   *)
(* answer in any order.                                                    *)
(***************************************************************************)
EXTENDS Calls

CONSTANTS Services,    \* services whose page can open the chat
          MaxMsgs      \* bound: messages of a thread

VARIABLES ui,          \* the widget's state and the chat context
          store,       \* sessionStorage: was the greeting shown
          net, srv, hist

vars == <<ui, store, net, srv, hist>>

Views == {"menu", "message", "callback", "success", "chat"}
Kinds == {"load", "poll", "send", "lead"}

\* A context names a service, or (from a notification) one exact thread.
NoContext == [listing |-> None, conv |-> None]
About(s) == [listing |-> s, conv |-> None]
Notified(s) == [listing |-> None, conv |-> s]
Contexts == {NoContext} \cup {About(s) : s \in Services} \cup {Notified(s) : s \in Services}

\* The backend keeps one open thread per context; None is the general one.
Threads == Services \cup {None}
ThreadOf(ctx) == IF ctx.conv # None THEN ctx.conv ELSE ctx.listing

\* A thread only grows: what is shown of it is its owner and its length.
Nothing == [of |-> None, len |-> 0, shown |-> FALSE]
Shown(k, n) == [of |-> k, len |-> n, shown |-> TRUE]

\* conv: the conversation object is set (its id is thread.of).  What is typed is
\* left out, and so are the link to a prepared workspace on the success screen and
\* the pages under /admin, which show no widget: there it is only not clicked.
Closed == [open |-> FALSE, view |-> "menu", ctx |-> NoContext, signedIn |-> FALSE,
           submitting |-> FALSE, timer |-> FALSE, conv |-> FALSE, thread |-> Nothing,
           sending |-> FALSE]

TypeOK ==
    /\ ui.view \in Views /\ ui.ctx \in Contexts
    /\ \A f \in {"open", "signedIn", "submitting", "timer", "conv", "sending"} : ui[f] \in BOOLEAN
    /\ ui.thread.of \in Threads /\ ui.thread.len \in 0..MaxMsgs
    /\ store.greeted \in BOOLEAN
    /\ CallsOK(net, Kinds)
    /\ srv \in [Threads -> 0..MaxMsgs]

----------------------------------------------------------------------------
(* The backend *)

\* start with an empty message and get only look; a thread nobody has written
\* in does not exist yet.
ServeLook == \E i \in Waiting(net, "load") \cup Waiting(net, "poll") :
    /\ net' = Served(net, i, Shown(net[i].arg, srv[net[i].arg]))
    /\ UNCHANGED srv

\* start with a message and addMessage append it and return the whole thread.
ServeSend == \E i \in Waiting(net, "send") :
    LET k == net[i].arg IN
    /\ srv[k] < MaxMsgs
    /\ srv' = [srv EXCEPT ![k] = @ + 1]
    /\ net' = Served(net, i, Shown(k, srv[k] + 1))

\* A guest booking may come back with an account prepared for the guest.
ServeLead == \E i \in Waiting(net, "lead"), onboarding \in BOOLEAN :
    /\ net' = Served(net, i, onboarding)
    /\ UNCHANGED srv

ServeRefusal == \E i \in DOMAIN net :
    net[i].stage = "sent" /\ net' = Refused(net, i, None) /\ UNCHANGED srv

\* The answer gets lost: a message that was filed gives its text back.
AnswerLost == \E i \in Coming(net) : net' = Refused(net, i, None) /\ UNCHANGED srv

ManagerWrites == \E k \in Threads :
    srv[k] \in 1..(MaxMsgs - 1) /\ srv' = [srv EXCEPT ![k] = @ + 1] /\ UNCHANGED net

Backend == /\ \/ ServeLook \/ ServeSend \/ ServeLead
              \/ ServeRefusal \/ AnswerLost \/ ManagerWrites
           /\ UNCHANGED <<ui, store, hist>>

----------------------------------------------------------------------------
(* The effects React runs after a state change *)

ChatShown(u) == u.open /\ u.view = "chat" /\ u.signedIn
LoadKey(u) == <<u.open, u.view, u.signedIn, u.ctx>>
PollKey(u) == <<u.open, u.view, u.conv, u.thread.of>>

\* mutant: the load effect does not set its cancelled flag on clean-up.
CancelKeeps(n, kinds) == n

\* cancelled = true: the answer of a cancelled look is thrown away.
Cancel(n, kinds) == Filtered(n, {i \in DOMAIN n : n[i].kind \notin kinds})

\* A context that names something sends a signed-in customer to the chat.
Contextual(u) == IF u.open /\ u.ctx # NoContext /\ u.signedIn
                 THEN [u EXCEPT !.view = "chat"] ELSE u

\* The load effect: clears the previous thread at once and loads the new one.
Reloads(u) == LoadKey(u) # LoadKey(ui) /\ ChatShown(u)
Cleared(u) == [u EXCEPT !.conv = FALSE, !.thread = Nothing]

\* The state u is committed, with n the calls in flight: both effects follow.
Commit(u, n) ==
    LET v == IF Reloads(u) THEN Cleared(u) ELSE u
        cancelled == (IF LoadKey(v) # LoadKey(ui) THEN {"load"} ELSE {})
                     \cup (IF PollKey(v) # PollKey(ui) THEN {"poll"} ELSE {})
        m == Cancel(n, cancelled)
    IN /\ Reloads(u) => Room(m, 1)
       /\ ui' = v
       /\ net' = IF Reloads(u) THEN Sent(m, "load", ThreadOf(u.ctx)) ELSE m

\* A load that failed empties the list: the conversation, if an answered message has
\* set one meanwhile, stays, and the poll goes on with it.
LoadAnswered == \E i \in Answered(net, "load") :
    LET ok == net[i].ok IN
    /\ Commit(IF ok THEN [ui EXCEPT !.thread = net[i].data, !.conv = net[i].data.len > 0]
              ELSE [ui EXCEPT !.thread = Shown(IF ui.conv THEN @.of ELSE ThreadOf(ui.ctx), 0)],
              Settled(net, i))
    /\ hist' = [hist EXCEPT !.strayed = @ /\ ui.conv /\ ~ok]
    /\ UNCHANGED <<store, srv>>

\* Every five seconds, while the chat is open and the thread is known.
Poll == /\ ui.open /\ ui.view = "chat" /\ ui.conv
        /\ Room(net, 1)
        /\ net' = Sent(net, "poll", ui.thread.of)
        /\ UNCHANGED <<ui, store, srv, hist>>
PollAnswered == \E i \in Answered(net, "poll") :
    /\ Commit(IF net[i].ok THEN [ui EXCEPT !.thread = net[i].data] ELSE ui, Settled(net, i))
    /\ UNCHANGED <<store, srv, hist>>

----------------------------------------------------------------------------
(* Opening and closing *)

\* mutant: closing the panel forgets that a form is still being sent.
ShutDownResets(u) == [u EXCEPT !.timer = FALSE, !.open = FALSE, !.view = "menu",
                               !.submitting = FALSE]

\* closePanel
ShutDown(u) == [u EXCEPT !.timer = FALSE, !.open = FALSE, !.view = "menu"]

ClosePanel == /\ ui.open
              /\ Commit(ShutDown(ui), net)
              /\ UNCHANGED <<store, srv, hist>>

\* The four seconds of the success screen are over.
AutoClose == /\ ui.timer
             /\ Commit(ShutDown(ui), net)
             /\ UNCHANGED <<store, srv, hist>>

\* The buttons that are there while the widget is closed.
Launcher == ~ui.open
OpenPanel == \E v \in {"menu", "callback"} :
    /\ Launcher
    /\ Commit([ui EXCEPT !.timer = FALSE, !.view = v, !.ctx = NoContext, !.open = TRUE], net)
    /\ UNCHANGED <<store, srv, hist>>

\* The menu's first button: the chat for a customer, the form for a guest.
MenuWrite ==
    /\ ui.open /\ ui.view = "menu"
    /\ Commit(IF ui.signedIn
              THEN [ui EXCEPT !.timer = FALSE, !.view = "chat", !.ctx = NoContext]
              ELSE [ui EXCEPT !.view = "message"], net)
    /\ UNCHANGED <<store, srv, hist>>
MenuCallback == /\ ui.open /\ ui.view = "menu"
                /\ Commit([ui EXCEPT !.view = "callback"], net)
                /\ UNCHANGED <<store, srv, hist>>
Back == /\ ui.open /\ ui.view \in {"chat", "message", "callback"}
        /\ Commit([ui EXCEPT !.view = "menu"], net)
        /\ UNCHANGED <<store, srv, hist>>

\* A page, a shortlist or a notification opens the widget on its own context.
OpenChat == \E c \in Contexts \ {NoContext} :
    /\ c.conv # None => srv[c.conv] > 0
    /\ Commit(Contextual([ui EXCEPT !.ctx = c, !.open = TRUE]), net)
    /\ UNCHANGED <<store, srv, hist>>

\* 800 ms after the page was loaded or, on a busy browser, any later; once per
\* browser session.
Greet == /\ ~store.greeted
         /\ store' = [store EXCEPT !.greeted = TRUE]
         /\ \/ Commit([ui EXCEPT !.view = "menu", !.ctx = NoContext, !.open = TRUE], net)
            \/ UNCHANGED <<ui, net>>   \* on a page under /admin
         /\ UNCHANGED <<srv, hist>>

\* The rest of the application signs in and out.
SignInOrOut == /\ Commit(Contextual([ui EXCEPT !.signedIn = ~@]), net)
               /\ UNCHANGED <<store, srv, hist>>

----------------------------------------------------------------------------
(* Leads *)

MessageForm == ui.open /\ ui.view = "message" /\ ~ui.submitting
CallbackForm == ui.open /\ ui.view = "callback" /\ ~ui.submitting

SendLead == /\ Room(net, 1)
            /\ Commit([ui EXCEPT !.submitting = TRUE], Sent(net, "lead", None))
            /\ UNCHANGED <<store, srv, hist>>
SubmitMessage == MessageForm /\ SendLead
SubmitCallback == CallbackForm /\ SendLead

\* The success screen closes itself unless it offers a workspace to open.
LeadAnswered == \E i \in Answered(net, "lead") :
    LET c == net[i] IN
    /\ Commit(IF ~c.ok THEN [ui EXCEPT !.submitting = FALSE]
              ELSE [ui EXCEPT !.submitting = FALSE, !.view = "success",
                              !.timer = @ \/ ~c.data],
              Settled(net, i))
    /\ UNCHANGED <<store, srv, hist>>

----------------------------------------------------------------------------
(* The chat *)

ChatView == ui.open /\ ui.view = "chat"

\* Where the message goes: the known conversation, or start with the context
\* (which a notification's context does not carry).
Target == IF ui.conv THEN ui.thread.of ELSE ui.ctx.listing

SendChat == /\ ChatView /\ ~ui.sending
            /\ Room(net, 1)
            /\ Commit([ui EXCEPT !.sending = TRUE],
                      Sent(net, "send", Target))
            /\ UNCHANGED <<store, srv, hist>>

\* The answer is shown whatever the widget shows by then; a failure gives the text
\* back.
SendAnswered == \E i \in Answered(net, "send") :
    LET c == net[i] IN
    /\ Commit(IF c.ok THEN [ui EXCEPT !.sending = FALSE, !.conv = TRUE, !.thread = c.data]
              ELSE [ui EXCEPT !.sending = FALSE],
              Settled(net, i))
    /\ hist' = [hist EXCEPT !.strayed = IF c.ok THEN c.arg # ThreadOf(ui.ctx) ELSE @]
    /\ UNCHANGED <<store, srv>>

----------------------------------------------------------------------------
Init == /\ \E s \in BOOLEAN : ui = [Closed EXCEPT !.signedIn = s]
        /\ store = [greeted |-> FALSE]
        /\ net = << >>
        /\ srv = [k \in Threads |-> 0]
        /\ hist = [strayed |-> FALSE]

Next == \/ Backend
        \/ LoadAnswered \/ Poll \/ PollAnswered
        \/ ClosePanel \/ AutoClose \/ OpenPanel \/ MenuWrite \/ MenuCallback \/ Back
        \/ OpenChat \/ Greet \/ SignInOrOut
        \/ SubmitMessage \/ SubmitCallback \/ LeadAnswered
        \/ SendChat \/ SendAnswered

Spec == Init /\ [][Next]_vars

----------------------------------------------------------------------------
(* Properties *)

\* The thread on screen is the one of the context the widget was opened with:
\* a load or a poll that another context overtook is thrown away.  What is not
\* thrown away is the answer of a message that was sent in another context, or
\* before the thread a notification names was loaded: the widget shows it as it
\* comes, and a load that fails then leaves it there to be polled.  (Signing out
\* leaves the thread on screen.)
ThreadMatchesContext ==
    ChatShown(ui) /\ ui.thread.shown /\ ~hist.strayed
        => ui.thread.of = ThreadOf(ui.ctx)

\* One lead at a time: closing the panel, reopening it or changing the form
\* while a lead is on its way does not let a second one out.
OneLead == \A i, j \in DOMAIN net : net[i].kind = "lead" /\ net[j].kind = "lead" => i = j
=============================================================================
