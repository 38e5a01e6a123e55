------------------------------ MODULE ChatDesk ------------------------------
(***************************************************************************)
(* One conversation on the managers' desk: the thread, read when the page  *)
(* opens, every ten seconds, and after a reply or a change of status; the  *)
(* reply being typed; and the button that closes the conversation or opens *)
(* it again.  Whoever is answered with the thread has read the customer's  *)
(* messages, and the answer to a reply, which the page leaves aside, is    *)
(* the thread too.                                                         *)
(***************************************************************************)
EXTENDS Calls, FiniteSets

CONSTANTS MaxMsgs,     \* bound: messages of the customer
          MaxTexts,    \* bound: replies typed
          MaxClicks    \* bound: readings by the timer, replies, changes of status

VARIABLES ui, net, srv, hist

vars == <<ui, net, srv, hist>>

Kinds == {"load", "reload", "reply", "status"}

\* The customer's messages by number, the replies by the text that was typed.
Threads == [msgs : SUBSET (1..MaxMsgs), replies : SUBSET (1..MaxTexts),
            status : {"open", "closed"}]

TypeOK == /\ ui.thread \in Threads \cup {None}
          /\ ui.reply \in (1..MaxTexts) \cup {None} /\ ui.sending \in BOOLEAN
          /\ srv.thread \in Threads /\ srv.read \in SUBSET (1..MaxMsgs)
          /\ srv.filed \in [1..MaxTexts -> Nat]
          /\ CallsOK(net, Kinds)

Reads == {"load", "reload"}

----------------------------------------------------------------------------
(* The backend *)

\* A changed thread overtakes answers that left before, as they may be heard after
\* the answer that shows the change.
Overtakes == \E i \in DOMAIN net : net[i].kind \in Reads /\ net[i].stage = "answered" /\ net[i].ok

\* The customer writes, and the thread moves on.
Write == \E m \in 1..MaxMsgs :
    /\ m = Cardinality(srv.thread.msgs) + 1
    /\ srv' = [srv EXCEPT !.thread.msgs = @ \cup {m}]
    /\ UNCHANGED <<ui, net, hist>>

\* mutant: whoever is answered has read nothing yet.
ReadNothing(row) == row

\* respondDetail marks the customer's messages as read, then lists them all.
MarkedRead(row) == [row EXCEPT !.read = row.thread.msgs]

\* The thread that is shown is the one answered last; one that left earlier but is
\* heard later takes the screen back, one that is lost was read all the same.
Get == \E i \in DOMAIN net :
    /\ net[i].kind \in Reads /\ net[i].stage = "sent"
    /\ srv' = MarkedRead(srv)
    /\ \/ net' = Served(net, i, srv.thread) /\ hist' = [hist EXCEPT !.off = @ \/ Overtakes]
       \/ net' = Refused(net, i, None) /\ hist' = [hist EXCEPT !.off = TRUE]

\* A reply is added, and the messages marked; the answer may be lost.
AddMessage == \E i \in Waiting(net, "reply") :
    /\ srv' = MarkedRead([srv EXCEPT !.thread.replies = @ \cup {net[i].arg},
                                     !.filed[net[i].arg] = @ + 1])
    /\ \/ net' = Served(net, i, None) /\ UNCHANGED hist
       \/ /\ net' = Refused(net, i, None)
          /\ hist' = [hist EXCEPT !.off = TRUE, !.lost = @ \cup {net[i].arg}]

AdminUpdateStatus == \E i \in Waiting(net, "status") :
    /\ srv' = [srv EXCEPT !.thread.status = net[i].arg]
    /\ \/ net' = Served(net, i, None) /\ UNCHANGED hist
       \/ net' = Refused(net, i, None) /\ hist' = [hist EXCEPT !.off = TRUE]

\* No network.  A list that was to show a change, or to be read again, is missing.
ServeRefusal == \E i \in DOMAIN net :
    /\ net[i].stage = "sent"
    /\ net' = Refused(net, i, None)
    /\ hist' = [hist EXCEPT !.off = @ \/ net[i].kind = "reload"]
    /\ UNCHANGED srv

Backend == (Get \/ AddMessage \/ AdminUpdateStatus \/ ServeRefusal) /\ UNCHANGED ui

----------------------------------------------------------------------------
(* The page *)

Click == hist.clicks < MaxClicks /\ hist' = [hist EXCEPT !.clicks = @ + 1]

\* The timer, whatever is on its way.
Poll == /\ Room(net, 1)
        /\ net' = Sent(net, "load", None)
        /\ Click
        /\ UNCHANGED <<ui, srv>>

\* load keeps its own errors: whoever waits for it goes on.
LoadAnswered == \E i \in Answered(net, "load") \cup Answered(net, "reload") :
    LET c == net[i]
        seen == IF c.ok THEN [ui EXCEPT !.thread = c.data] ELSE ui
    IN /\ ui' = IF c.kind = "reload" /\ c.arg = "reply" THEN [seen EXCEPT !.sending = FALSE]
                                                        ELSE seen
       /\ net' = Settled(net, i)
       /\ UNCHANGED <<srv, hist>>

\* A text is typed, also over one that is being sent.
Type == /\ ui.thread # None /\ hist.texts < MaxTexts
        /\ ui' = [ui EXCEPT !.reply = hist.texts + 1]
        /\ hist' = [hist EXCEPT !.texts = @ + 1]
        /\ UNCHANGED <<net, srv>>

\* mutant: the Enter key sends whatever the button says.
MayReplyAgain == ui.reply # None

\* The button and the Enter key.
MayReply == ui.reply # None /\ ~ui.sending

handleReply == /\ MayReply /\ Room(net, 1)
               /\ ui' = [ui EXCEPT !.sending = TRUE]
               /\ net' = Sent(net, "reply", ui.reply)
               /\ Click
               /\ UNCHANGED srv

\* A reply that was filed empties the field, whatever was typed meanwhile, and the
\* thread is read; one that was not keeps the field.
ReplyAnswered == \E i \in Answered(net, "reply") :
    /\ ui' = IF net[i].ok THEN [ui EXCEPT !.reply = None] ELSE [ui EXCEPT !.sending = FALSE]
    /\ net' = IF net[i].ok THEN Sent(Settled(net, i), "reload", "reply") ELSE Settled(net, i)
    /\ UNCHANGED <<srv, hist>>

\* The button sends the opposite of the status on screen, however often.
handleStatusToggle ==
    /\ ui.thread # None /\ Room(net, 1)
    /\ net' = Sent(net, "status", IF ui.thread.status = "closed" THEN "open" ELSE "closed")
    /\ Click
    /\ UNCHANGED <<ui, srv>>

StatusAnswered == \E i \in Answered(net, "status") :
    /\ net' = IF net[i].ok THEN Sent(Settled(net, i), "reload", "status") ELSE Settled(net, i)
    /\ UNCHANGED <<ui, srv, hist>>

----------------------------------------------------------------------------
\* The page opens on a conversation with one message, unread.
Init == /\ ui = [thread |-> None, reply |-> None, sending |-> FALSE]
        /\ net = Sent(<< >>, "load", None)
        /\ srv = [thread |-> [msgs |-> {1}, replies |-> {}, status |-> "open"],
                  read |-> {}, filed |-> [t \in 1..MaxTexts |-> 0]]
        /\ hist = [clicks |-> 0, texts |-> 0, off |-> FALSE, lost |-> {}]

Next == \/ Backend \/ Write
        \/ Poll \/ LoadAnswered \/ Type \/ handleReply \/ ReplyAnswered
        \/ handleStatusToggle \/ StatusAnswered

Spec == Init /\ [][Next]_vars

----------------------------------------------------------------------------
(* Properties *)

\* A reply reaches the customer once, although the field keeps a text that failed and
\* Enter may be pressed at any time.  A text whose answer was lost may be sent again.
NoReplyTwice == \A t \in 1..MaxTexts : t \notin hist.lost => srv.filed[t] <= 1

\* What the backend takes for read has been shown to a manager: once nothing is on
\* its way, the messages on screen are those marked read, with the replies and the
\* status that are kept.  Not promised after a lost answer, a reading after a change
\* that failed, or a reading that overtook an earlier one.
ReadIsShown ==
    net = << >> /\ ~hist.off /\ ui.thread # None =>
        ui.thread = [srv.thread EXCEPT !.msgs = srv.read]
=============================================================================
