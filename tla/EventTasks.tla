----------------------------- MODULE EventTasks -----------------------------
(***************************************************************************)
(* The tasks of an event: a form that adds one, a tick shown before the    *)
(* backend has it, a cross that deletes one.  Loads are not ordered with   *)
(* what is clicked meanwhile, and an answer may be lost when all is done.  *)
(***************************************************************************)
EXTENDS Calls

CONSTANTS MaxTasks,    \* bound: titles typed
          MaxTicks     \* bound: ticks and deletions asked for

VARIABLES ui, net, srv, hist

vars == <<ui, net, srv, hist>>

Kinds == {"load", "create", "update", "delete"}
Titles == 1..MaxTasks

\* A task is the title it was typed as, or, where the form was not told that it was
\* filed, another one of that title.
Twin(t) == MaxTasks + t
Tasks == Titles \cup {Twin(t) : t \in Titles}
Statuses == {"todo", "done"}

TypeOK ==
    /\ DOMAIN ui.tasks \subseteq Tasks /\ \A t \in DOMAIN ui.tasks : ui.tasks[t] \in Statuses
    /\ ui.title \in Titles \cup {None}
    /\ ui.loading \in BOOLEAN /\ ui.adding \in BOOLEAN
    /\ \A t \in Tasks : srv.filed[t] \in 0..2
    /\ hist.lost \subseteq Titles
    /\ CallsOK(net, Kinds)

Only(f, S) == [x \in S |-> f[x]]

----------------------------------------------------------------------------
(* The backend *)

Kept == {t \in Tasks : srv.filed[t] > 0}

ServeLoad == \E i \in Waiting(net, "load") :
    net' = Served(net, i, Only(srv.status, Kept)) /\ UNCHANGED <<srv, hist>>

\* A task is filed, and the answer heard or lost: lost once for each title, a bound.
ServeCreate == \E i \in Waiting(net, "create"), lost \in BOOLEAN :
    LET t == IF lost THEN Twin(net[i].arg) ELSE net[i].arg IN
    /\ lost => net[i].arg \notin hist.lost
    /\ srv' = [srv EXCEPT !.filed[t] = @ + 1, !.status[t] = "todo"]
    /\ net' = IF lost THEN Refused(net, i, None) ELSE Served(net, i, None)
    /\ hist' = [hist EXCEPT !.lost = IF lost THEN @ \cup {net[i].arg} ELSE @]

\* Two ticks of one task may be served in either order.
Overtakes(i) == \E j \in Waiting(net, "update") : j < i /\ net[j].arg.task = net[i].arg.task

ServeUpdate == \E i \in Waiting(net, "update") :
    LET a == net[i].arg IN
    /\ a.task \in Kept
    /\ srv' = [srv EXCEPT !.status[a.task] = a.status]
    /\ net' = Served(net, i, None)
    /\ hist' = [hist EXCEPT !.crossed = @ \/ Overtakes(i)]

ServeDelete == \E i \in Waiting(net, "delete") :
    /\ srv' = [srv EXCEPT !.filed[net[i].arg] = 0]
    /\ net' = Served(net, i, None) /\ UNCHANGED hist

ServeRefusal == \E i \in DOMAIN net :
    net[i].stage = "sent" /\ net' = Refused(net, i, None) /\ UNCHANGED <<srv, hist>>

\* The answer of a read, a tick or a deletion gets lost.
AnswerLost == \E i \in Coming(net) :
    net[i].kind # "create" /\ net' = Refused(net, i, None) /\ UNCHANGED <<srv, hist>>

Backend == /\ ServeLoad \/ ServeCreate \/ ServeUpdate \/ ServeDelete \/ ServeRefusal \/ AnswerLost
           /\ UNCHANGED ui

----------------------------------------------------------------------------
(* The page *)

\* A list that misses what was ticked since the backend gave it.
Old(rows) == \E t \in DOMAIN rows :
    \/ rows[t] # srv.status[t]
    \/ \E i \in DOMAIN net : net[i].kind = "update" /\ net[i].arg.task = t

\* load: on mount, after a task is added, after a tick that failed.  A failure
\* leaves what is on screen; on mount, the skeleton.
LoadAnswered == \E i \in Answered(net, "load") :
    LET c == net[i]
        after == IF c.arg = "create" THEN [ui EXCEPT !.adding = FALSE] ELSE ui
    IN /\ ui' = IF c.ok THEN [after EXCEPT !.tasks = c.data, !.loading = FALSE] ELSE after
       /\ net' = Settled(net, i)
       /\ hist' = [hist EXCEPT !.crossed = @ \/ IF c.ok THEN Old(c.data) ELSE c.arg = "update"]
       /\ UNCHANGED srv

\* mutant: the form takes another click while it adds.
TaskFormEager == ui.title # None

\* The form: the button is off without a title and while adding, and the handler
\* looks again.
TaskForm == ui.title # None /\ ~ui.adding

\* Typing goes on whatever is in flight.
Type == /\ hist.typed < MaxTasks
        /\ ui' = [ui EXCEPT !.title = hist.typed + 1]
        /\ hist' = [hist EXCEPT !.typed = @ + 1]
        /\ UNCHANGED <<net, srv>>

handleAdd == /\ TaskForm /\ Room(net, 1)
             /\ ui' = [ui EXCEPT !.adding = TRUE]
             /\ net' = Sent(net, "create", ui.title)
             /\ UNCHANGED <<srv, hist>>

\* mutant: the title stays in the form of a task that was added.
TitleStays(u) == u

\* The form after a task was added: whatever it holds by then is wiped.
Cleared(u) == [u EXCEPT !.title = None]

\* Added: the form is wiped and the list loaded, and until that has settled the
\* form stays off.
CreateAnswered == \E i \in Answered(net, "create") :
    /\ IF net[i].ok
       THEN ui' = Cleared(ui) /\ net' = Sent(Settled(net, i), "load", "create")
       ELSE ui' = [ui EXCEPT !.adding = FALSE] /\ net' = Settled(net, i)
    /\ UNCHANGED <<srv, hist>>

Clicked == hist.clicks < MaxTicks /\ hist' = [hist EXCEPT !.clicks = @ + 1]
List == IF ui.loading THEN {} ELSE DOMAIN ui.tasks
Toggled(status) == IF status = "done" THEN "todo" ELSE "done"

toggleDone == \E t \in List :
    /\ Room(net, 1) /\ Clicked
    /\ ui' = [ui EXCEPT !.tasks[t] = Toggled(@)]
    /\ net' = Sent(net, "update", [task |-> t, status |-> Toggled(ui.tasks[t])])
    /\ UNCHANGED srv

\* mutant: a tick that failed stays.
FailedTickStays(calls) == calls

\* A tick that failed: the list is loaded again.
FailedTick(calls) == Sent(calls, "load", "update")

UpdateAnswered == \E i \in Answered(net, "update") :
    /\ net' = IF net[i].ok THEN Settled(net, i) ELSE FailedTick(Settled(net, i))
    /\ UNCHANGED <<ui, srv, hist>>

handleDelete == \E t \in List :
    /\ Room(net, 1) /\ Clicked
    /\ net' = Sent(net, "delete", t)
    /\ UNCHANGED <<ui, srv>>

DeleteAnswered == \E i \in Answered(net, "delete") :
    /\ ui' = IF net[i].ok THEN [ui EXCEPT !.tasks = Only(@, DOMAIN @ \ {net[i].arg})] ELSE ui
    /\ net' = Settled(net, i)
    /\ UNCHANGED <<srv, hist>>

----------------------------------------------------------------------------
Init == /\ ui = [tasks |-> << >>, title |-> None, loading |-> TRUE, adding |-> FALSE]
        /\ net = Sent(<< >>, "load", None)
        /\ srv = [filed |-> [t \in Tasks |-> 0], status |-> [t \in Tasks |-> "todo"]]
        /\ hist = [typed |-> 0, clicks |-> 0, crossed |-> FALSE, lost |-> {}]

Next == \/ Backend \/ LoadAnswered
        \/ Type \/ handleAdd \/ CreateAnswered
        \/ toggleDone \/ UpdateAnswered
        \/ handleDelete \/ DeleteAnswered

Spec == Init /\ [][Next]_vars

----------------------------------------------------------------------------
(* Properties *)

\* A title typed once is filed as one task, however often the button is clicked,
\* whether the create is refused first or the load after it fails.  The exception is
\* an answer that was lost: the form keeps the title of a task that is filed, and
\* the next click files it again.
NoTaskTwice == \A t \in Titles \ hist.lost : srv.filed[t] + srv.filed[Twin(t)] <= 1

\* When nothing is on its way, a tick on screen is the backend's: a tick that
\* failed is put right by a load.  What parts them for good is two ticks of one
\* task that overtake each other, a load one's next tick overtakes, or a load
\* that fails as the tick before it did.
TickIsKept ==
    net = << >> /\ ~hist.crossed =>
        \A t \in DOMAIN ui.tasks \cap Kept : ui.tasks[t] = srv.status[t]
=============================================================================
