---------------------------- MODULE CommentThread ----------------------------
(***************************************************************************)
(* A thread of comments in the workspace of an event: loaded once, then    *)
(* polled every three seconds and whenever the tab becomes visible.  What  *)
(* the user sends is shown before the backend knows it, what the user      *)
(* deletes is gone from the screen before the backend has deleted it, and  *)
(* every poll is merged with both.                                         *)
(***************************************************************************)
EXTENDS Calls, FiniteSets

CONSTANTS Bodies,      \* texts
          MaxMsgs      \* bound: messages composed

VARIABLES ui,          \* the thread's state and refs
          net, srv, hist

vars == <<ui, net, srv, hist>>

Kinds == {"load", "poll", "send", "delete"}

\* A message: its number stands for the id the backend gives it.
Messages == [n : 1..MaxMsgs, mine : BOOLEAN, body : Bodies]
Mine(n, body) == [n |-> n, mine |-> TRUE, body |-> body]

\* What is shown: real comments, and placeholders of those still being sent.
Real(m) == [temp |-> FALSE, msg |-> m]
Temp(m) == [temp |-> TRUE, msg |-> m]
isTemp(c) == c.temp

NoText == [n |-> 0, mine |-> TRUE, body |-> None]

TypeOK ==
    /\ ui.shown \subseteq [temp : BOOLEAN, msg : Messages]
    /\ ui.text \in Messages \cup {NoText}
    /\ ui.pendingDelete \subseteq 1..MaxMsgs
    /\ \A f \in {"mounted", "sending", "near", "below"} : ui[f] \in BOOLEAN
    /\ CallsOK(net, Kinds)
    /\ srv.filed \subseteq Messages /\ srv.gone \subseteq srv.filed

----------------------------------------------------------------------------
(* The backend *)

Stored == srv.filed \ srv.gone

ServeLook == \E i \in Waiting(net, "load") \cup Waiting(net, "poll") :
    net' = Served(net, i, Stored) /\ UNCHANGED <<srv, hist>>

ServeSend == \E i \in Waiting(net, "send") :
    /\ net' = Served(net, i, net[i].arg)
    /\ srv' = [srv EXCEPT !.filed = @ \cup {net[i].arg}]
    /\ UNCHANGED hist

\* The comment is filed and the answer lost: the composer, which takes its text back,
\* will send it as another one.
SendLost == \E i \in Waiting(net, "send") :
    /\ hist.msgs < MaxMsgs
    /\ net' = Refused(net, i, None)
    /\ srv' = [srv EXCEPT !.filed = @ \cup {Mine(hist.msgs + 1, net[i].arg.body)}]
    /\ hist' = [hist EXCEPT !.msgs = @ + 1]

ServeDelete == \E i \in Waiting(net, "delete") :
    /\ net' = Served(net, i, None)
    /\ srv' = [srv EXCEPT !.gone = @ \cup {m \in srv.filed : m.n = net[i].arg.n}]
    /\ UNCHANGED hist

ServeRefusal == \E i \in DOMAIN net :
    net[i].stage = "sent" /\ net' = Refused(net, i, None) /\ UNCHANGED <<srv, hist>>

\* Any other answer gets lost.
AnswerLost == \E i \in Coming(net) :
    net[i].kind # "send" /\ net' = Refused(net, i, None) /\ UNCHANGED <<srv, hist>>

Backend == /\ ServeLook \/ ServeSend \/ SendLost \/ ServeDelete \/ ServeRefusal \/ AnswerLost
           /\ UNCHANGED ui

\* Somebody else writes.
OthersWrite == \E body \in Bodies :
    /\ hist.msgs < MaxMsgs
    /\ srv' = [srv EXCEPT !.filed = @ \cup {[n |-> hist.msgs + 1, mine |-> FALSE,
                                             body |-> body]}]
    /\ hist' = [hist EXCEPT !.msgs = @ + 1]
    /\ UNCHANGED <<ui, net>>

----------------------------------------------------------------------------
(* Looking *)

Load == /\ ~ui.mounted
        /\ Room(net, 1)
        /\ ui' = [ui EXCEPT !.mounted = TRUE]
        /\ net' = Sent(net, "load", None)
        /\ UNCHANGED <<srv, hist>>

\* Every three seconds, and when the tab becomes visible.
Poll == /\ ui.mounted
        /\ Room(net, 1)
        /\ net' = Sent(net, "poll", None)
        /\ UNCHANGED <<ui, srv, hist>>

\* The comments an answer brings that are deleted by now or are being deleted; a
\* poll's filter keeps out the latter.
Stale(fresh) == {m.n : m \in {k \in fresh : k \in srv.gone \/ k.n \in ui.pendingDelete}}

Overtaken(stored) == {m.n : m \in {k \in stored : k \in srv.gone /\ k.n \notin ui.pendingDelete}}

\* The first load replaces whatever is shown, and scrolls to the bottom.
LoadAnswered == \E i \in Answered(net, "load") :
    LET c == net[i] IN
    /\ ui' = IF c.ok THEN [ui EXCEPT !.shown = {Real(m) : m \in c.data},
                                     !.near = TRUE, !.below = FALSE] ELSE ui
    /\ hist' = [hist EXCEPT !.stale = IF c.ok THEN @ \cup Stale(c.data) ELSE @]
    /\ net' = Settled(net, i)
    /\ UNCHANGED srv

\* mutant: comments being deleted are not kept out of the poll's answer.
FreshAll(stored) == stored

Fresh(stored) == {m \in stored : m.n \notin ui.pendingDelete}

newReal(fresh) == {m \in fresh : Real(m) \notin ui.shown}

\* mutant: a placeholder is kept although its comment has come.
StillAll(fresh) == {c \in ui.shown : isTemp(c)}

\* A placeholder gives way to a new comment of one's own with the same text.
stillPending(fresh) ==
    {c \in ui.shown : isTemp(c) /\ \A m \in newReal(fresh) : ~m.mine \/ m.body # c.msg.body}

PollAnswered == \E i \in Answered(net, "poll") :
    LET c == net[i]
        fresh == Fresh(c.data)
        news == \E m \in newReal(fresh) : ~m.mine
    IN /\ ui' = IF ~c.ok THEN ui
                ELSE [ui EXCEPT !.shown = {Real(m) : m \in fresh} \cup stillPending(fresh),
                                !.below = @ \/ (news /\ ~ui.near)]
       /\ hist' = [hist EXCEPT !.stale = IF c.ok THEN @ \cup Overtaken(c.data) ELSE @]
       /\ net' = Settled(net, i)
       /\ UNCHANGED srv

\* Scrolling away from the bottom and back; the pill jumps there.
handleScroll == /\ ui.mounted
                /\ ui' = [ui EXCEPT !.near = ~@, !.below = @ /\ ui.near]
                /\ UNCHANGED <<net, srv, hist>>

----------------------------------------------------------------------------
(* Sending *)

\* A text is typed, also while another is being sent.
Type == \E body \in Bodies :
    /\ ui.mounted /\ ui.text = NoText /\ hist.msgs < MaxMsgs
    /\ ui' = [ui EXCEPT !.text = Mine(hist.msgs + 1, body)]
    /\ hist' = [hist EXCEPT !.msgs = @ + 1, !.typed = @ \cup {hist.msgs + 1}]
    /\ UNCHANGED <<net, srv>>

Composer == ui.mounted /\ ui.text # NoText /\ ~ui.sending

handleSend == /\ Composer
              /\ Room(net, 1)
              /\ ui' = [ui EXCEPT !.sending = TRUE, !.text = NoText,
                                  !.shown = @ \cup {Temp(ui.text)},
                                  !.near = TRUE, !.below = FALSE]
              /\ net' = Sent(net, "send", ui.text)
              /\ UNCHANGED <<srv, hist>>

\* mutant: a failed send clears the composer as a successful one would.
SendFailedEmpty(m) == [ui EXCEPT !.sending = FALSE, !.shown = @ \ {Temp(m)}]

\* mutant: the placeholder of a failed send stays on screen.
SendFailedShown(m) == [ui EXCEPT !.sending = FALSE, !.text = m]

\* The text comes back, over whatever was typed meanwhile.
SendFailed(m) == [ui EXCEPT !.sending = FALSE, !.shown = @ \ {Temp(m)}, !.text = m]

SendDone(m) == [ui EXCEPT !.sending = FALSE,
                          !.shown = (@ \ {Temp(m), Real(m)}) \cup {Real(m)}]

SendAnswered == \E i \in Answered(net, "send") :
    LET m == net[i].arg IN
    /\ ui' = IF net[i].ok THEN SendDone(m) ELSE SendFailed(m)
    /\ hist' = [hist EXCEPT !.typed = IF net[i].ok THEN @ ELSE @ \ {ui.text.n},
                            !.stale = IF net[i].ok THEN @ \cup Stale({m}) ELSE @]
    /\ net' = Settled(net, i)
    /\ UNCHANGED srv

----------------------------------------------------------------------------
(* Deleting *)

\* The snapshot to go back to is the one the click was rendered with.
handleDelete == \E c \in ui.shown :
    /\ c.msg.mine /\ ~isTemp(c)
    /\ Room(net, 1)
    /\ ui' = [ui EXCEPT !.shown = @ \ {c}, !.pendingDelete = @ \cup {c.msg.n}]
    /\ net' = Sent(net, "delete", [n |-> c.msg.n, prev |-> ui.shown])
    /\ UNCHANGED <<srv, hist>>

DeleteAnswered == \E i \in Answered(net, "delete") :
    LET c == net[i] IN
    /\ ui' = [ui EXCEPT !.pendingDelete = @ \ {c.arg.n},
                        !.shown = IF c.ok THEN @ ELSE c.arg.prev]
    /\ hist' = [hist EXCEPT !.rolledBack = @ \/ ~c.ok]
    /\ net' = Settled(net, i)
    /\ UNCHANGED srv

----------------------------------------------------------------------------
Init == /\ ui = [shown |-> {}, text |-> NoText, pendingDelete |-> {}, mounted |-> FALSE,
                 sending |-> FALSE, near |-> TRUE, below |-> FALSE]
        /\ net = << >>
        /\ \E body \in Bodies : srv = [filed |-> {Mine(1, body)}, gone |-> {}]
        /\ hist = [msgs |-> 1, typed |-> {}, stale |-> {}, rolledBack |-> FALSE]

Next == \/ Backend \/ OthersWrite
        \/ Load \/ LoadAnswered \/ Poll \/ PollAnswered \/ handleScroll
        \/ Type \/ handleSend \/ SendAnswered
        \/ handleDelete \/ DeleteAnswered

Spec == Init /\ [][Next]_vars

----------------------------------------------------------------------------
(* Properties *)

\* A message of one's own is on screen once, however its answer and the polls
\* that already bring it are ordered.
NoDuplicateShown == \A c, d \in ui.shown : c.msg = d.msg => c = d

\* A placeholder on screen is a message on its way; only a delete that failed,
\* putting back the list as it was, can bring back one that is not.
NoPhantom ==
    ~hist.rolledBack =>
        \A c \in ui.shown : isTemp(c) =>
            \E i \in DOMAIN net : net[i].kind = "send" /\ net[i].arg = c.msg

\* A comment the user is deleting or has deleted stays off the screen, whatever
\* polls arrive while its delete is on its way.  What brings it back: a poll that
\* left before the comment was deleted and arrives after the delete was answered,
\* a first load or an answer of its own send that late, and the list another
\* delete puts back when it fails.
DeletedStaysHidden ==
    ~hist.rolledBack =>
        \A c \in ui.shown : c.msg.n \notin hist.stale =>
            c.msg.n \notin ui.pendingDelete /\ c.msg \notin srv.gone

\* A text the user has typed is in the composer, on its way or filed: failures
\* give it back.  (A text typed while another was being sent is overwritten
\* when that one fails.)
TextKept ==
    \A n \in hist.typed :
        \/ ui.text.n = n
        \/ \E i \in DOMAIN net : net[i].kind = "send" /\ net[i].arg.n = n
        \/ \E m \in srv.filed : m.n = n
=============================================================================
