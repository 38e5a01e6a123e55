--------------------------- MODULE EventWorkspace ---------------------------
(***************************************************************************)
(* The workspace of an event: a shell loads the event and one's role once, *)
(* a context below it keeps the event and its summary for every tab, and   *)
(* each tab loads what it shows when it is mounted.  Here the overview and *)
(* the budget, the two that refresh what the context keeps.                *)
(***************************************************************************)
EXTENDS Calls

CONSTANTS MaxSaves,    \* bound: budgets saved, by anyone
          MaxVisits    \* bound: times the workspace or a tab is opened

VARIABLES ui,          \* shell, context and the state of the mounted tab
          store,       \* localStorage: whether the welcome was dismissed
          net, srv, hist

vars == <<ui, store, net, srv, hist>>

Budgets == {0, 1}
Versions == [budget : Budgets, rev : 0..MaxSaves]
TabKinds == {"lists", "candidates"}
Kinds == {"get", "summary", "update", "event", "after"} \cup TabKinds
Tabs == {"overview", "budget"}

\* What a call carries: the budget to save, and whether the tab that sent it is
\* still mounted; "here" says the same of the context.
Arg(budget) == [budget |-> budget, tab |-> TRUE]
Ask(calls, kind) == Sent(calls, kind, Arg(0))
Left(call) == [call EXCEPT !.arg.tab = FALSE]
TabLeft(calls) == LET others == SelectSeq(calls, LAMBDA c : c.kind \notin TabKinds)
                  IN [i \in DOMAIN others |-> Left(others[i])]

\* A tab's own state when it is mounted; the form starts from the event.
Mounted(u, tab) == [u EXCEPT !.tab = tab, !.loading = TRUE,
                             !.editing = FALSE, !.saving = FALSE, !.input = u.event.budget]
LoadOf(tab) == IF tab = "overview" THEN "lists" ELSE "candidates"

Away == [status |-> "away", role |-> "viewer", url |-> FALSE, welcome |-> FALSE,
         tab |-> "overview", event |-> [budget |-> 0, rev |-> 0], summary |-> None,
         loading |-> TRUE, editing |-> FALSE, saving |-> FALSE, input |-> 0]

TypeOK ==
    /\ ui.status \in {"away", "loading", "ready", "error"}
    /\ ui.role \in {"editor", "viewer"} /\ ui.tab \in Tabs
    /\ {ui.url, ui.welcome, ui.loading, ui.editing, ui.saving} \subseteq BOOLEAN
    /\ ui.event \in Versions /\ srv \in Versions
    /\ ui.summary \in 0..MaxSaves \cup {None}
    /\ ui.input \in Budgets
    /\ store.welcomed \in BOOLEAN
    /\ CallsOK(net, Kinds)

Visit == hist.visits < MaxVisits /\ hist' = [hist EXCEPT !.visits = @ + 1]

----------------------------------------------------------------------------
(* The backend; another member may save a budget too *)

ServeLook == \E i \in DOMAIN net :
    /\ net[i].stage = "sent" /\ net[i].kind # "update"
    /\ \/ net[i].kind = "get" /\ \E r \in {"editor", "viewer"} :
             net' = Served(net, i, [event |-> srv, role |-> r])
       \/ net[i].kind = "event" /\ net' = Served(net, i, srv)
       \/ net[i].kind \in {"summary", "after"} /\ net' = Served(net, i, srv.rev)
       \/ net[i].kind \in TabKinds /\ net' = Served(net, i, None)
    /\ UNCHANGED srv

\* The whole event is written over, the budget as typed.
Write(budget) == srv.rev < MaxSaves /\ srv' = [budget |-> budget, rev |-> srv.rev + 1]
ServeUpdate == \E i \in Waiting(net, "update") :
    Write(net[i].arg.budget) /\ net' = Served(net, i, srv.rev + 1)

ServeRefusal == \E i \in DOMAIN net :
    net[i].stage = "sent" /\ net' = Refused(net, i, None) /\ UNCHANGED srv

\* The answer gets lost.
AnswerLost == \E i \in Coming(net) : net' = Refused(net, i, None) /\ UNCHANGED srv

Backend == (ServeLook \/ ServeUpdate \/ ServeRefusal \/ AnswerLost) /\ UNCHANGED <<ui, store, hist>>

OthersSave == \E b \in Budgets : Write(b) /\ UNCHANGED <<ui, store, net, hist>>

----------------------------------------------------------------------------
(* The shell *)

\* The address may carry ?welcome=1, as a claimed account's first one does.
Open == \E tab \in Tabs, welcome \in BOOLEAN :
    /\ ui.status = "away" /\ Visit /\ Room(net, 1)
    /\ ui' = [Away EXCEPT !.status = "loading", !.tab = tab, !.url = welcome]
    /\ net' = Ask(net, "get")
    /\ UNCHANGED <<store, srv>>

\* Unmounting shell and context: no answer is heard any more.  A signed-out
\* visitor is sent to the login page.
Leave == /\ ui.status # "away"
         /\ ui' = Away
         /\ net' = Unheard(SelectSeq(net, LAMBDA c : c.kind = "update" /\ c.stage = "sent"), Kinds)
         /\ hist' = [hist EXCEPT !.saved = 0, !.lost = FALSE]
         /\ UNCHANGED <<store, srv>>

\* The event is there: the tab is mounted and the welcome offered, unless this
\* browser dismissed it before.
GetAnswered == \E i \in Answered(net, "get") :
    LET c == net[i] IN
    /\ IF c.ok
       THEN /\ ui' = Mounted([ui EXCEPT !.status = "ready", !.event = c.data.event,
                                        !.role = c.data.role, !.url = FALSE,
                                        !.welcome = ui.url /\ ~store.welcomed], ui.tab)
            /\ net' = Ask(Settled(net, i), LoadOf(ui.tab))
       ELSE ui' = [ui EXCEPT !.status = "error"] /\ net' = Settled(net, i)
    /\ UNCHANGED <<store, srv, hist>>

\* mutant: the dismissal is not remembered.
DismissForgets == store

\* What the browser keeps of a dismissal.
Dismissed == [store EXCEPT !.welcomed = TRUE]

\* The address is replaced by the plain one, the overview's.
dismissWelcome == /\ ui.welcome
                  /\ store' = Dismissed
                  /\ hist' = [hist EXCEPT !.dismissed = TRUE]
                  /\ \/ ui.tab = "overview" /\ ui' = [ui EXCEPT !.welcome = FALSE]
                        /\ UNCHANGED net
                     \/ /\ ui.tab # "overview" /\ Room(net, 1)
                        /\ ui' = Mounted([ui EXCEPT !.welcome = FALSE], "overview")
                        /\ net' = Ask(TabLeft(net), "lists")
                  /\ UNCHANGED srv

\* The bar of tabs; on a phone some of them are behind "more".
Bar == ui.status = "ready" /\ ~ui.welcome

\* A link of the bar, of the overview's tiles or of what to do next: the old tab
\* is unmounted, a save it started goes on unseen.
SwitchTab == \E tab \in Tabs :
    /\ Bar /\ tab # ui.tab /\ Visit /\ Room(net, 1)
    /\ ui' = Mounted(ui, tab)
    /\ net' = Ask(TabLeft(net), LoadOf(tab))
    /\ UNCHANGED <<store, srv>>

----------------------------------------------------------------------------
(* The overview and what the tabs load *)

\* The overview refreshes the summary once its lists are there; a list that
\* fails leaves the skeleton for good.
ListsAnswered == \E i \in Answered(net, "lists") :
    LET c == net[i] IN
    /\ IF c.here /\ c.arg.tab /\ c.ok
       THEN /\ ui' = [ui EXCEPT !.loading = FALSE]
            /\ net' = Ask(Settled(net, i), "summary")
       ELSE ui' = ui /\ net' = Settled(net, i)
    /\ UNCHANGED <<store, srv, hist>>

CandidatesAnswered == \E i \in Answered(net, "candidates") :
    /\ ui' = IF net[i].here /\ net[i].arg.tab /\ net[i].ok THEN [ui EXCEPT !.loading = FALSE] ELSE ui
    /\ net' = Settled(net, i)
    /\ UNCHANGED <<store, srv, hist>>

\* What is still missing, as the overview lists it: with a budget set, its line
\* is gone; with a summary, the figures are shown.
NextSteps == ui.tab = "overview" /\ ui.event.budget = 0
FollowStep == NextSteps /\ SwitchTab

----------------------------------------------------------------------------
(* The budget *)

BudgetForm == ui.status = "ready" /\ ui.tab = "budget" /\ ui.role = "editor" /\ ui.editing
EditBudget == /\ Bar /\ ui.tab = "budget" /\ ui.role = "editor" /\ ~ui.editing
              /\ ui' = [ui EXCEPT !.editing = TRUE]
              /\ UNCHANGED <<store, net, srv, hist>>
CancelEdit == /\ BudgetForm
              /\ ui' = [ui EXCEPT !.editing = FALSE]
              /\ UNCHANGED <<store, net, srv, hist>>
TypeBudget == /\ BudgetForm
              /\ \E b \in Budgets \ {ui.input} : ui' = [ui EXCEPT !.input = b]
              /\ UNCHANGED <<store, net, srv, hist>>

handleSaveBudget == /\ BudgetForm /\ ~ui.saving /\ Room(net, 1)
                    /\ ui' = [ui EXCEPT !.saving = TRUE]
                    /\ net' = Sent(net, "update", Arg(ui.input))
                    /\ UNCHANGED <<store, srv, hist>>

\* mutant: the summary is refreshed, the event is not.
SummaryOnly(calls, arg) == Sent(calls, "after", arg)

\* refreshSaveBudget goes on, mounted or not: the context's event is loaded again.
AfterUpdate(calls, arg) == Sent(calls, "event", arg)

\* What follows a call goes on unheard if the call is.
Heard(calls, here) == IF here THEN calls ELSE [calls EXCEPT ![Len(calls)].here = FALSE]

UpdateAnswered == \E i \in Answered(net, "update") :
    LET c == net[i] IN
    /\ IF c.ok THEN /\ net' = Heard(AfterUpdate(Settled(net, i), c.arg), c.here)
                    /\ hist' = IF c.here THEN [hist EXCEPT !.saved = c.data] ELSE hist
                    /\ UNCHANGED ui
       ELSE /\ net' = Settled(net, i)
            /\ ui' = IF c.here /\ c.arg.tab THEN [ui EXCEPT !.saving = FALSE] ELSE ui
            /\ UNCHANGED hist
    /\ UNCHANGED <<store, srv>>

\* refreshEvent: the context outlives the tab, and nothing orders two of these.
\* A failure is swallowed; either way the summary is next.
EventAnswered == \E i \in Answered(net, "event") :
    LET c == net[i] IN
    /\ ui' = IF c.here /\ c.ok THEN [ui EXCEPT !.event = c.data] ELSE ui
    /\ hist' = IF c.here /\ (~c.ok \/ c.data.rev < ui.event.rev)
               THEN [hist EXCEPT !.lost = TRUE] ELSE hist
    /\ net' = Heard(Sent(Settled(net, i), "after", c.arg), c.here)
    /\ UNCHANGED <<store, srv>>

\* refreshSummary.
SummaryAnswered == \E i \in Answered(net, "summary") :
    /\ ui' = IF net[i].here /\ net[i].ok THEN [ui EXCEPT !.summary = net[i].data] ELSE ui
    /\ net' = Settled(net, i)
    /\ UNCHANGED <<store, srv, hist>>

\* refreshSummary after a save: then the form closes.
AfterAnswered == \E i \in Answered(net, "after") :
    LET c == net[i]
        shown == IF c.here /\ c.ok THEN [ui EXCEPT !.summary = c.data] ELSE ui
    IN /\ ui' = IF c.here /\ c.arg.tab
                THEN [shown EXCEPT !.editing = FALSE, !.saving = FALSE] ELSE shown
       /\ net' = Settled(net, i)
       /\ UNCHANGED <<store, srv, hist>>

----------------------------------------------------------------------------
Init == /\ ui = Away
        /\ store = [welcomed |-> FALSE]
        /\ net = << >>
        /\ srv = [budget |-> 0, rev |-> 0]
        /\ hist = [visits |-> 0, dismissed |-> FALSE, saved |-> 0, lost |-> FALSE]

Next == \/ Backend \/ OthersSave
        \/ Open \/ Leave \/ GetAnswered \/ dismissWelcome
        \/ SwitchTab \/ FollowStep
        \/ ListsAnswered \/ CandidatesAnswered
        \/ EditBudget \/ CancelEdit \/ TypeBudget \/ handleSaveBudget
        \/ UpdateAnswered \/ EventAnswered \/ SummaryAnswered \/ AfterAnswered

Spec == Init /\ [][Next]_vars

----------------------------------------------------------------------------
(* Properties *)

\* When nothing is on its way, the event every tab shows is not older than the
\* budget last saved here: through whichever tabs one passes meanwhile, the save
\* ends in a refresh.  Only a refresh that fails, or two that overtake each
\* other, leave an older one.
SaveReachesScreen ==
    ui.status = "ready" /\ ~hist.lost /\ net = << >> => ui.event.rev >= hist.saved

\* Dismissed once, the welcome is never on screen again in this browser,
\* whatever address the workspace is opened by.
WelcomeOnce == hist.dismissed => ~ui.welcome
=============================================================================
