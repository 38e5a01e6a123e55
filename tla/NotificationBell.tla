-------------------------- MODULE NotificationBell --------------------------
(***************************************************************************)
(* The bell of the header: a count polled every twelve seconds and         *)
(* corrected by the bell's own clicks, and a short list loaded when it     *)
(* opens.  The discussion tab marks comments read as one reads them there, *)
(* the notifications page and other browsers mark what they like; the bell *)
(* learns of neither before it polls.                                      *)
(***************************************************************************)
EXTENDS NotificationList

CONSTANTS BellLimit,   \* notifications the bell asks for (8 in the code)
          MaxClicks    \* bound: clicks

VARIABLES ui,          \* the bell; whether the discussion tab is open
          net, srv,
          hist         \* clicks; whether something the bell cannot know changed the count

vars == <<ui, net, srv, hist>>

Kinds == {"count", "bell", "suppress", "mark", "all"}

Unread == 1..srv.last \ srv.read

TypeOK ==
    /\ ui.open \in BOOLEAN /\ ui.loading \in BOOLEAN /\ ui.discussion \in BOOLEAN
    /\ ui.count \in 0..Len(KindOf)
    /\ ui.list \in Lists
    /\ CallsOK(net, Kinds)

----------------------------------------------------------------------------
(* The backend *)

ServeLook ==
    /\ \/ \E i \in Waiting(net, "count") : net' = Served(net, i, Cardinality(Unread))
       \/ \E i \in Waiting(net, "bell") :
            net' = Served(net, i, Answer(1..srv.last, srv.read, 1, BellLimit))
       \/ \E i \in Waiting(net, "suppress") : net' = Served(net, i, Unread)
    /\ UNCHANGED <<srv, hist>>

ServeMark == \E i \in Waiting(net, "mark") :
    /\ srv' = [srv EXCEPT !.read = @ \cup {net[i].arg}]
    /\ net' = Served(net, i, None)
    /\ UNCHANGED hist

ServeMarkAll == \E i \in Waiting(net, "all") :
    /\ srv' = [srv EXCEPT !.read = 1..srv.last]
    /\ net' = Served(net, i, None)
    /\ hist' = [hist EXCEPT !.off = TRUE]

\* Refused, or served and the answer lost.  A mark that fails is not tried again and
\* nothing on screen is taken back.
ServeRefusal == \E i \in DOMAIN net :
    /\ net[i].stage = "sent" \/ i \in Coming(net)
    /\ net' = Refused(net, i, None)
    /\ hist' = [hist EXCEPT !.off = @ \/ net[i].kind = "mark"]
    /\ UNCHANGED srv

Backend == /\ ServeLook \/ ServeMark \/ ServeMarkAll \/ ServeRefusal
           /\ UNCHANGED ui

\* Somebody does something the user is told of.
Arrive == /\ srv.last < Len(KindOf)
          /\ srv' = [srv EXCEPT !.last = @ + 1]
          /\ hist' = [hist EXCEPT !.off = TRUE]
          /\ UNCHANGED <<ui, net>>

\* The page, or another browser, marks one read.
ReadElsewhere == \E n \in Unread :
    /\ srv' = [srv EXCEPT !.read = @ \cup {n}]
    /\ hist' = [hist EXCEPT !.off = TRUE]
    /\ UNCHANGED <<ui, net>>

----------------------------------------------------------------------------
(* The bell *)

refreshCount == /\ ~InFlight(net, "count") /\ Room(net, 1)
                /\ net' = Sent(net, "count", None)
                /\ UNCHANGED <<ui, srv, hist>>

\* The count is taken as it comes: a mark it does not know of yet makes it
\* wrong until the next poll.
CountAnswered == \E i \in Answered(net, "count") :
    /\ IF net[i].ok
       THEN /\ ui' = [ui EXCEPT !.count = net[i].data]
            /\ hist' = [hist EXCEPT !.off = net[i].data # Cardinality(Unread) \/ Unserved(net) # {}]
       ELSE UNCHANGED <<ui, hist>>
    /\ net' = Settled(net, i)
    /\ UNCHANGED srv

Clicked == hist.clicks < MaxClicks /\ hist' = [hist EXCEPT !.clicks = @ + 1]

handleToggle ==
    /\ Room(net, 1) /\ Clicked
    /\ IF ui.open THEN ui' = [ui EXCEPT !.open = FALSE] /\ net' = net
       ELSE /\ ui' = [ui EXCEPT !.open = TRUE, !.loading = TRUE]
            /\ net' = Sent(net, "bell", None)
    /\ UNCHANGED srv

BellAnswered == \E i \in Answered(net, "bell") :
    /\ ui' = IF net[i].ok THEN [ui EXCEPT !.loading = FALSE, !.list = net[i].data.list]
             ELSE [ui EXCEPT !.loading = FALSE]
    /\ net' = Settled(net, i)
    /\ UNCHANGED <<srv, hist>>

\* A click anywhere else.
CloseOutside == /\ ui.open
                /\ ui' = [ui EXCEPT !.open = FALSE]
                /\ UNCHANGED <<net, srv, hist>>

BellRows == IF ui.open /\ ~ui.loading THEN groupNotifications(ui.list) ELSE {}

\* mutant: a click takes one off the count, whatever the row stands for.
OneLess(count, ids) == IF count = 0 \/ ids = {} THEN count ELSE count - 1

Less(count, ids) == IF count < Cardinality(ids) THEN 0 ELSE count - Cardinality(ids)

\* The count is right only if the backend did not have these marks already.
handleItemClick == \E item \in BellRows :
    LET ids == unreadIds(item, ui.list) IN
    /\ Room(net, Cardinality(ids)) /\ hist.clicks < MaxClicks
    /\ ui' = [ui EXCEPT !.open = FALSE, !.count = Less(@, ids), !.list = Marked(@, ids),
                        !.discussion = ToDiscussion(item) \/ (@ /\ StaysHere(item))]
    /\ net' = IF ui'.discussion THEN Marks(net, ids)
              ELSE Marks(Unheard(net, {"suppress"}), ids)
    /\ hist' = [hist EXCEPT !.clicks = @ + 1, !.off = @ \/ ids \cap (srv.read \cup Marking(net)) # {}]
    /\ UNCHANGED srv

MarkAnswered == \E i \in Answered(net, "mark") :
    /\ net' = Settled(net, i)
    /\ UNCHANGED <<ui, srv, hist>>

handleMarkAll == /\ ui.open /\ ui.count > 0
                 /\ Room(net, 1) /\ Clicked
                 /\ net' = Sent(net, "all", None)
                 /\ UNCHANGED <<ui, srv>>

\* The bell shows nothing unread, whatever arrived since the backend marked all.
MarkAllAnswered == \E i \in Answered(net, "all") :
    /\ IF net[i].ok THEN /\ ui' = [ui EXCEPT !.count = 0, !.list = Marked(@, Ids)]
                         /\ hist' = [hist EXCEPT !.off = Unread # {}]
       ELSE UNCHANGED <<ui, hist>>
    /\ net' = Settled(net, i)
    /\ UNCHANGED srv

----------------------------------------------------------------------------
(* The discussion tab *)

\* The discussion tab is opened, or left.
ToggleDiscussion == /\ Clicked
                    /\ ui' = [ui EXCEPT !.discussion = ~@]
                    /\ net' = Unheard(net, {"suppress"})
                    /\ UNCHANGED srv

\* When the tab opens and every five seconds after.
suppress == /\ ui.discussion /\ ~InFlight(net, "suppress") /\ Room(net, 1)
            /\ net' = Sent(net, "suppress", None)
            /\ UNCHANGED <<ui, srv, hist>>

SuppressAnswered == \E i \in Answered(net, "suppress") :
    LET ids == IF net[i].ok /\ net[i].here
               THEN {n \in net[i].data : KindOf[n] = "comment"} ELSE {} IN
    /\ Room(Settled(net, i), Cardinality(ids))
    /\ net' = Marks(Settled(net, i), ids)
    /\ hist' = [hist EXCEPT !.off = @ \/ ids # {}]
    /\ UNCHANGED <<ui, srv>>

----------------------------------------------------------------------------
Init == /\ ui = [open |-> FALSE, count |-> 0, list |-> << >>, loading |-> FALSE,
                 discussion |-> FALSE]
        /\ net = Sent(<< >>, "count", None)
        /\ srv = [last |-> 1, read |-> {}]
        /\ hist = [off |-> TRUE, clicks |-> 0]

Next == \/ Backend \/ Arrive \/ ReadElsewhere
        \/ refreshCount \/ CountAnswered
        \/ handleToggle \/ BellAnswered \/ CloseOutside
        \/ handleItemClick \/ MarkAnswered
        \/ handleMarkAll \/ MarkAllAnswered
        \/ ToggleDiscussion \/ suppress \/ SuppressAnswered

Spec == Init /\ [][Next]_vars

----------------------------------------------------------------------------
(* Properties *)

\* After a count that crossed no mark, clicks in the bell keep its number that
\* of the backend, through groups and reloads, until something arrives, is
\* marked elsewhere or again, or a mark fails.
BadgeSettles == net = << >> /\ ~hist.off => ui.count = Cardinality(Unread)
=============================================================================
