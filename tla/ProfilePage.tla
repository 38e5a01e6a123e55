---------------------------- MODULE ProfilePage ----------------------------
(***************************************************************************)
(* The profile: the bookings, loaded once per visit (the events, loaded    *)
(* and shown beside them, are left out), the form of name and phone, which *)
(* takes over the account's every time the session sets it anew, and the   *)
(* card that connects Telegram.                                            *)
(***************************************************************************)
EXTENDS Calls

CONSTANTS Bookings,    \* the visitor's bookings
          MaxNames,    \* bound: names typed
          MaxVisits    \* bound: times the page is mounted

VARIABLES ui, net, srv, hist

vars == <<ui, net, srv, hist>>

Kinds == {"bookings", "save", "delete", "link", "me"}
Tabs == {"events", "account"}   \* and the provider's, a page of its own
Names == 0..MaxNames

\* The state of a page just mounted for the account the session has.
Fresh(tab, user) == [tab |-> tab, user |-> user, name |-> user,
                     bookings |-> {}, saving |-> FALSE,
                     linked |-> FALSE, telegram |-> "idle"]

TypeOK ==
    /\ ui.tab \in Tabs /\ ui.user \in Names /\ ui.name \in Names
    /\ {ui.saving, ui.linked} \subseteq BOOLEAN
    /\ ui.bookings \subseteq Bookings
    /\ ui.telegram \in {"idle", "opening", "waiting", "unavailable"}
    /\ srv.name \in Names /\ srv.bookings \subseteq Bookings
    /\ CallsOK(net, Kinds)

----------------------------------------------------------------------------
(* The backend *)

ServeLook ==
    /\ \/ \E i \in Waiting(net, "bookings") : net' = Served(net, i, srv.bookings)
       \/ \E i \in Waiting(net, "me") : net' = Served(net, i, [name |-> srv.name, linked |-> srv.linked])
       \/ \E i \in Waiting(net, "link"), configured \in BOOLEAN : net' = Served(net, i, configured)
    /\ UNCHANGED srv

ServeSave == \E i \in Waiting(net, "save") :
    /\ srv' = [srv EXCEPT !.name = net[i].arg]
    /\ net' = Served(net, i, net[i].arg)

ServeDelete == \E i \in Waiting(net, "delete") :
    /\ srv' = [srv EXCEPT !.bookings = @ \ {net[i].arg}]
    /\ net' = Served(net, i, None)

ServeRefusal == \E i \in DOMAIN net :
    net[i].stage = "sent" /\ net' = Refused(net, i, None) /\ UNCHANGED srv

\* The answer gets lost: a booking that was deleted stays on the list, a name that
\* was saved is one the session learns from the next look only.
AnswerLost == \E i \in Coming(net) :
    /\ net' = Refused(net, i, None)
    /\ hist' = [hist EXCEPT !.missed = @ \/ net[i].kind = "delete",
                            !.crossed = @ \/ net[i].kind = "save"]
    /\ UNCHANGED srv

Backend == /\ \/ (ServeLook \/ ServeSave \/ ServeDelete \/ ServeRefusal) /\ UNCHANGED hist
              \/ AnswerLost
           /\ UNCHANGED ui

\* The visitor presses start in the bot's chat.
BotStarted == /\ ui.telegram = "waiting" /\ ~srv.linked
              /\ srv' = [srv EXCEPT !.linked = TRUE]
              /\ UNCHANGED <<ui, net, hist>>

----------------------------------------------------------------------------
(* The page *)

\* The list is asked for as soon as the session is there; an unmounted page shows
\* none.
Asked(calls) == Sent(calls, "bookings", None)

\* Leaving and coming back; an address with ?tab= opens that tab.
Reopen == \E tab \in Tabs :
    /\ hist.visits < MaxVisits /\ Len(net) < MaxCalls
    /\ ui' = Fresh(tab, ui.user)
    /\ net' = Asked(Unheard(SelectSeq(net, LAMBDA c : c.kind \in {"save", "delete", "me"}),
                            {"save", "delete"}))
    /\ hist' = [hist EXCEPT !.visits = @ + 1,
                            !.missed = InFlight(net, "delete")]
    /\ UNCHANGED srv

OpenTab == \E tab \in Tabs :
    /\ tab # ui.tab
    /\ ui' = [ui EXCEPT !.tab = tab]
    /\ UNCHANGED <<net, srv, hist>>

BookingsAnswered == \E i \in Answered(net, "bookings") :
    LET c == net[i] IN
    /\ ui' = IF ~c.here THEN ui
             ELSE [ui EXCEPT !.bookings = IF c.ok THEN c.data ELSE @]
    /\ net' = Settled(net, i)
    /\ UNCHANGED <<srv, hist>>

\* The history of bookings, on the account's tab.
BookingList == IF ui.tab = "account" THEN ui.bookings ELSE {}

handleDeleteBooking == \E b \in BookingList :
    /\ Room(net, 1)
    /\ net' = Sent(net, "delete", b)
    /\ UNCHANGED <<ui, srv, hist>>

\* mutant: the booking stays in the list.
StillListed(list, b) == list

\* The list without a booking the backend no longer has.
Unlisted(list, b) == list \ {b}

DeleteAnswered == \E i \in Answered(net, "delete") :
    LET c == net[i] IN
    /\ ui' = IF c.here /\ c.ok THEN [ui EXCEPT !.bookings = Unlisted(@, c.arg)] ELSE ui
    /\ net' = Settled(net, i)
    /\ UNCHANGED <<srv, hist>>

----------------------------------------------------------------------------
(* The account *)

AccountForm == ui.tab = "account"

Type == /\ AccountForm /\ hist.typed < MaxNames
        /\ ui' = [ui EXCEPT !.name = hist.typed + 1]
        /\ hist' = [hist EXCEPT !.typed = @ + 1]
        /\ UNCHANGED <<net, srv>>

handleSave == /\ AccountForm /\ ~ui.saving /\ Room(net, 1)
              /\ ui' = [ui EXCEPT !.saving = TRUE]
              /\ net' = Sent(net, "save", ui.name)
              /\ UNCHANGED <<srv, hist>>

\* The session has an account: the form takes its name over, whatever is typed.
TakeOver(u, name) == [u EXCEPT !.user = name, !.name = name]

\* mutant: the session keeps the account as it was.
SavedOnly(u, name) == u

\* updateProfile: the session's account is the one that was saved.
Updated(u, name) == TakeOver(u, name)

SaveAnswered == \E i \in Answered(net, "save") :
    LET c == net[i]
        session == IF c.ok THEN Updated(ui, c.data) ELSE ui
    IN /\ ui' = IF c.here THEN [session EXCEPT !.saving = FALSE] ELSE session
       /\ hist' = IF c.ok THEN [hist EXCEPT !.kept = c.data,
                                  !.crossed = @ \/ InFlight(net, "me") \/ srv.name # c.data]
                  ELSE hist
       /\ net' = Settled(net, i)
       /\ UNCHANGED srv

\* The Telegram card.
TelegramCard == AccountForm /\ ~ui.linked

handleConnect == /\ TelegramCard /\ ui.telegram = "idle" /\ Room(net, 1)
                 /\ ui' = [ui EXCEPT !.telegram = "opening"]
                 /\ net' = Sent(net, "link", None)
                 /\ UNCHANGED <<srv, hist>>

LinkAnswered == \E i \in Answered(net, "link") :
    LET c == net[i] IN
    /\ ui' = IF c.here
             THEN [ui EXCEPT !.telegram = IF c.ok /\ c.data THEN "waiting" ELSE "unavailable"]
             ELSE ui
    /\ net' = Settled(net, i)
    /\ UNCHANGED <<srv, hist>>

handleCheckAgain == /\ TelegramCard /\ ui.telegram = "waiting" /\ Room(net, 1)
                    /\ net' = Sent(net, "me", None)
                    /\ hist' = [hist EXCEPT !.crossed = @ \/ InFlight(net, "save")]
                    /\ UNCHANGED <<ui, srv>>

\* refreshMe: the whole account is set anew, not only whether it is connected.
MeAnswered == \E i \in Answered(net, "me") :
    /\ ui' = IF net[i].ok THEN [TakeOver(ui, net[i].data.name) EXCEPT !.linked = net[i].data.linked]
             ELSE ui
    /\ net' = Settled(net, i)
    /\ UNCHANGED <<srv, hist>>

----------------------------------------------------------------------------
Init == /\ ui = Fresh("events", 0)
        /\ net = Asked(<< >>)
        /\ srv = [name |-> 0, bookings |-> Bookings, linked |-> FALSE]
        /\ hist = [visits |-> 1, typed |-> 0, missed |-> FALSE,
                   kept |-> 0, crossed |-> FALSE]

Next == \/ Backend \/ BotStarted
        \/ Reopen \/ OpenTab
        \/ BookingsAnswered \/ handleDeleteBooking \/ DeleteAnswered
        \/ Type \/ handleSave \/ SaveAnswered
        \/ handleConnect \/ LinkAnswered \/ handleCheckAgain \/ MeAnswered

Spec == Init /\ [][Next]_vars

----------------------------------------------------------------------------
(* Properties *)

\* When nothing is on its way, no booking is listed that the backend no longer
\* has, unless the list missed a deletion and nobody corrects it: its answer was
\* lost, or it was on its way while the page was left and opened again.
NoGhostBooking == net = << >> /\ ~hist.missed => ui.bookings \subseteq srv.bookings

\* The session shows the name that was last saved, whatever page the answer
\* finds mounted, unless a look at the account and a save crossed or the answer
\* of a save was lost.
SavedNameShown == net = << >> /\ ~hist.crossed => ui.user = hist.kept
=============================================================================
