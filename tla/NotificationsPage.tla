------------------------- MODULE NotificationsPage -------------------------
(***************************************************************************)
(* The notifications page: two tabs, pages of twenty, each loaded when it  *)
(* is turned to; clicking a row or "mark all" marks at the backend and on  *)
(* screen.                                                                 *)
(***************************************************************************)
EXTENDS NotificationList

CONSTANTS PAGE_SIZE,   \* notifications of one page (20 in the code)
          MaxClicks    \* bound: clicks

VARIABLES ui,          \* the page; whether it is open
          net, srv,
          hist         \* clicks; what the last answer was for; marks that may not hold

vars == <<ui, net, srv, hist>>

Kinds == {"page", "mark", "all"}
Tabs == {"all", "unread"}

TypeOK ==
    /\ ui.here \in BOOLEAN /\ ui.tab \in Tabs /\ ui.page \in 1..2
    /\ ui.shown \in Lists
    /\ ui.total \in 0..Len(KindOf)
    /\ ui.loading \in BOOLEAN /\ ui.error \in BOOLEAN
    /\ CallsOK(net, Kinds)

----------------------------------------------------------------------------
(* The backend *)

ListOf(arg) == Answer(IF arg.tab = "unread" THEN 1..srv.last \ srv.read ELSE 1..srv.last,
                      srv.read, arg.page, PAGE_SIZE)

ServePage == \E i \in Waiting(net, "page") :
    net' = Served(net, i, ListOf(net[i].arg)) /\ UNCHANGED <<srv, hist>>

ServeMark == \E i \in Waiting(net, "mark") :
    /\ srv' = [srv EXCEPT !.read = @ \cup {net[i].arg}]
    /\ net' = Served(net, i, None)
    /\ UNCHANGED hist

ServeMarkAll == \E i \in Waiting(net, "all") :
    /\ srv' = [srv EXCEPT !.read = 1..srv.last]
    /\ net' = Served(net, i, None)
    /\ UNCHANGED hist

\* Refused, or served and the answer lost.  A mark that fails is not tried again and
\* nothing on screen is taken back.
ServeRefusal == \E i \in DOMAIN net :
    /\ net[i].stage = "sent" \/ i \in Coming(net)
    /\ net' = Refused(net, i, None)
    /\ hist' = IF net[i].kind = "mark"
               THEN [hist EXCEPT !.unsure = @ \cup {net[i].arg}] ELSE hist
    /\ UNCHANGED srv

Backend == /\ ServePage \/ ServeMark \/ ServeMarkAll \/ ServeRefusal
           /\ UNCHANGED ui

\* Somebody does something the user is told of.
Arrive == /\ srv.last < Len(KindOf)
          /\ srv' = [srv EXCEPT !.last = @ + 1]
          /\ UNCHANGED <<ui, net, hist>>

\* The bell, whose shorter list may hold only part of a group, the discussion
\* tab or another browser marks one read.
ReadElsewhere == \E n \in 1..srv.last \ srv.read :
    /\ srv' = [srv EXCEPT !.read = @ \cup {n}]
    /\ UNCHANGED <<ui, net, hist>>

----------------------------------------------------------------------------
(* The page *)

Clicked == hist.clicks < MaxClicks /\ hist' = [hist EXCEPT !.clicks = @ + 1]

Fresh == [here |-> TRUE, tab |-> "all", page |-> 1, shown |-> << >>, total |-> 0,
          loading |-> TRUE, error |-> FALSE]

LoadArg(u) == [tab |-> u.tab, page |-> u.page]

\* Back to the page from wherever a row led.
Open == /\ ~ui.here /\ Room(net, 1) /\ hist.clicks < MaxClicks
        /\ ui' = Fresh
        /\ net' = Sent(net, "page", LoadArg(Fresh))
        /\ hist' = [hist EXCEPT !.overtaken = FALSE, !.clicks = @ + 1]
        /\ UNCHANGED srv

\* mutant: turning a page or changing the tab does not load.
NotReloaded(u, calls) == calls

\* The effect on [tab, page].
Reloaded(u, calls) == IF LoadArg(u) = LoadArg(ui) THEN calls
                      ELSE Sent(calls, "page", LoadArg(u))

Turned(tab, page) == LET u == [ui EXCEPT !.tab = tab, !.page = page] IN
    /\ ui.here /\ Room(net, 1) /\ Clicked
    /\ net' = Reloaded(u, net)
    /\ ui' = IF net' = net THEN u ELSE [u EXCEPT !.loading = TRUE, !.error = FALSE]
    /\ UNCHANGED srv

switchTab == \E tab \in Tabs : Turned(tab, 1)

totalPages == IF ui.total > PAGE_SIZE THEN (ui.total + PAGE_SIZE - 1) \div PAGE_SIZE ELSE 1
Pager == ~ui.loading /\ totalPages > 1
PageBack == Pager /\ ui.page > 1 /\ Turned(ui.tab, ui.page - 1)
PageOn == Pager /\ ui.page < totalPages /\ Turned(ui.tab, ui.page + 1)

\* Loads are not ordered: the answer that comes last is shown.
PageAnswered == \E i \in Answered(net, "page") :
    LET c == net[i] IN
    /\ IF ~c.here THEN UNCHANGED <<ui, hist>>
       ELSE /\ ui' = IF c.ok THEN [ui EXCEPT !.loading = FALSE, !.shown = c.data.list,
                                             !.total = c.data.total]
                     ELSE [ui EXCEPT !.loading = FALSE, !.error = TRUE]
            /\ hist' = [hist EXCEPT !.of = IF c.ok THEN c.arg ELSE @,
                          !.overtaken = @ \/ \E j \in 1..(i - 1) : net[j].kind = "page" /\ net[j].here]
    /\ net' = Settled(net, i)
    /\ UNCHANGED srv

Rows == IF ui.here /\ ~ui.loading /\ ~ui.error THEN groupNotifications(ui.shown) ELSE {}

\* The bell is not told; unless the row stays here, the page is left.
handleClick == \E item \in Rows :
    LET ids == unreadIds(item, ui.shown) IN
    /\ Room(net, Cardinality(ids)) /\ Clicked
    /\ ui' = [ui EXCEPT !.shown = Marked(@, ids), !.here = StaysHere(item)]
    /\ net' = Marks(IF ui'.here THEN net ELSE Unheard(net, {"page", "all"}), ids)
    /\ UNCHANGED srv

MarkAnswered == \E i \in Answered(net, "mark") :
    /\ net' = Settled(net, i)
    /\ UNCHANGED <<ui, srv, hist>>

handleMarkAll == /\ ui.here /\ Room(net, 1) /\ Clicked
                 /\ net' = Sent(net, "all", None)
                 /\ UNCHANGED <<ui, srv>>

\* What was loaded since the backend marked everything is taken for read too; a
\* failure hides the list.
MarkAllAnswered == \E i \in Answered(net, "all") :
    /\ CASE ~net[i].here -> UNCHANGED <<ui, hist>>
         [] net[i].here /\ net[i].ok ->
              /\ ui' = [ui EXCEPT !.shown = Marked(@, Ids)]
              /\ hist' = [hist EXCEPT !.unsure = @ \cup (DOMAIN ui.shown \ srv.read)]
         [] OTHER -> ui' = [ui EXCEPT !.error = TRUE] /\ UNCHANGED hist
    /\ net' = Settled(net, i)
    /\ UNCHANGED srv

----------------------------------------------------------------------------
Init == /\ ui = Fresh
        /\ net = Sent(<< >>, "page", LoadArg(Fresh))
        /\ srv = [last |-> 2, read |-> {}]
        /\ hist = [clicks |-> 0, unsure |-> {}, overtaken |-> FALSE, of |-> LoadArg(Fresh)]

Next == \/ Backend \/ Arrive \/ ReadElsewhere \/ Open
        \/ switchTab \/ PageBack \/ PageOn \/ PageAnswered
        \/ handleClick \/ MarkAnswered
        \/ handleMarkAll \/ MarkAllAnswered

Spec == Init /\ [][Next]_vars

----------------------------------------------------------------------------
(* Properties *)

\* A row that looks read stands for notifications that the backend has as read
\* or is about to: no unread comment hides in a group.  The exceptions are the
\* marks that failed and what "mark all" covered on screen only.
ReadRowsAreRead ==
    \A item \in groupNotifications(ui.shown) :
        isRead(item, ui.shown) => item \subseteq srv.read \cup Marking(net) \cup hist.unsure

\* The page shows the tab and the number it says, unless an earlier load came
\* last.
PageShowsItsTab ==
    ui.here /\ ~ui.loading /\ ~ui.error /\ ~hist.overtaken /\ ~InFlight(net, "page")
        => hist.of = LoadArg(ui)
=============================================================================
