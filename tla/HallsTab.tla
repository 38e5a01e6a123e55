------------------------------ MODULE HallsTab ------------------------------
(***************************************************************************)
(* The halls of a restaurant: the form of a hall with its photos, uploaded *)
(* while the form is filled in, and the cards that hide, move, copy and    *)
(* delete a hall, each by a whole row taken from the screen.               *)
(***************************************************************************)
EXTENDS RestaurantTabs

CONSTANTS MaxHalls,    \* bound: halls ever made
          MaxTexts,    \* bound: names typed
          MaxPhotos,   \* bound: photos picked
          MaxClicks    \* bound: clicks, but for those that close something

VARIABLES ui, net, srv, hist

vars == <<ui, net, srv, hist>>

Kinds == {"create", "update", "swap", "stray", "delete", "upload", "refresh"}
Halls == 1..MaxHalls
New == 0                \* the form of a hall not yet made, and the first name
Photos == 0..MaxPhotos  \* 0: the photo the first hall has had
Rows == [text : 0..MaxTexts \cup {None}, photos : SUBSET Photos, active : BOOLEAN, order : 0..MaxHalls]

TypeOK ==
    /\ ui.form \in Halls \cup {None, New} /\ ui.fields \in Rows
    /\ {ui.busy, ui.duplicating, ui.confirming} \subseteq Halls \cup {None}
    /\ ui.saving \in BOOLEAN /\ ui.uploading \in BOOLEAN
    /\ \A h \in DOMAIN srv.halls : h <= srv.last /\ srv.halls[h] \in Rows
    /\ CallsOK(net, Kinds)

----------------------------------------------------------------------------
(* The backend *)

Alive == DOMAIN srv.halls

Met(c) == hist.rows # None /\ srv.halls[c.arg.hall] = c.arg.base

ServeCreate == \E i \in Waiting(net, "create") :
    LET row == net[i].arg.row
        h == srv.last + 1
    IN /\ h \in Halls
       /\ srv' = [halls |-> With(srv.halls, h, row), last |-> h]
       /\ net' = Served(net, i, h)
       /\ hist' = [hist EXCEPT !.rows = IF @ = None THEN None ELSE With(@, h, row)]

ServeUpdate == \E i \in Waiting(net, "update") \cup Waiting(net, "swap") \cup Waiting(net, "stray") :
    LET a == net[i].arg IN
    /\ a.hall \in Alive
    /\ srv' = [srv EXCEPT !.halls[a.hall] = a.row]
    /\ net' = Served(net, i, None)
    /\ hist' = [hist EXCEPT !.rows = IF Met(net[i]) THEN [@ EXCEPT ![a.hall] = Patched(@, a)] ELSE None]

\* Deleting a hall that is gone is no error.
ServeDelete == \E i \in Waiting(net, "delete") :
    LET h == net[i].arg.hall IN
    /\ srv' = [srv EXCEPT !.halls = Without(@, h)]
    /\ net' = Served(net, i, None)
    /\ hist' = [hist EXCEPT !.rows = IF @ = None THEN None ELSE Without(@, h)]

ServeUpload == \E i \in Waiting(net, "upload") :
    net' = Served(net, i, net[i].arg.photo) /\ UNCHANGED <<srv, hist>>

loadListingTree == \E i \in Waiting(net, "refresh") :
    net' = Served(net, i, srv.halls) /\ UNCHANGED <<srv, hist>>

ServeRefusal == \E i \in DOMAIN net :
    /\ net[i].stage = "sent" /\ net' = Refused(net, i, None)
    /\ hist' = IF net[i].kind \in {"swap", "stray"} THEN [hist EXCEPT !.rows = None] ELSE hist
    /\ UNCHANGED srv

\* The answer gets lost.
AnswerLost == \E i \in Coming(net) : net' = Refused(net, i, None) /\ UNCHANGED <<srv, hist>>

Backend == /\ \/ ServeCreate \/ ServeUpdate \/ ServeDelete \/ ServeUpload
              \/ loadListingTree \/ ServeRefusal \/ AnswerLost
           /\ UNCHANGED ui

----------------------------------------------------------------------------
(* The form *)

Cards == DOMAIN ui.halls
Buttons == {h \in Cards : ui.confirming # h}

Click(h) == hist.clicks < MaxClicks /\ hist' = [h EXCEPT !.clicks = @ + 1]

EMPTY == [text |-> None, photos |-> {}, active |-> TRUE, order |-> 0]

\* A form is filled anew whenever it opens: what a closed one held is left out.
Opened(form, fields) == [ui EXCEPT !.form = form, !.fields = fields, !.opened = fields]
Closed(u) == [u EXCEPT !.form = None, !.fields = EMPTY, !.opened = EMPTY]

\* The photos of the form that opens are those to keep; photos on their way were
\* picked in another.
OpensWith(photos) ==
    /\ Click([hist EXCEPT !.keep = photos])
    /\ net' = [i \in DOMAIN net |-> IF net[i].kind = "upload" THEN [net[i] EXCEPT !.arg.mine = FALSE]
                                                              ELSE net[i]]

\* The button is on screen while no form is open, and in the place of the cards
\* when the last of them has gone.
AddButton == ui.form = None \/ (Cards = {} /\ ui.form # New)

startCreate ==
    /\ AddButton /\ OpensWith({})
    /\ ui' = Opened(New, [EMPTY EXCEPT !.order = Cardinality(Cards)])
    /\ UNCHANGED srv

\* The cards stay on screen beside an open form, one that saves as well.
startEdit == \E h \in Buttons :
    /\ OpensWith(ui.halls[h].photos)
    /\ ui' = Opened(h, ui.halls[h])
    /\ UNCHANGED srv

cancel == /\ ui.form # None /\ ~ui.saving /\ hist' = [hist EXCEPT !.keep = {}]
          /\ ui' = Closed(ui) /\ UNCHANGED <<net, srv>>

\* The name is typed; the switch and the place are changed or left.
HallForm == \E rest \in {ui.fields, [ui.fields EXCEPT !.active = ~@, !.order = 0]} :
    /\ ui.form # None /\ hist.texts < MaxTexts
    /\ ui' = [ui EXCEPT !.fields = [rest EXCEPT !.text = hist.texts + 1]]
    /\ hist' = [hist EXCEPT !.texts = @ + 1]
    /\ UNCHANGED <<net, srv>>

\* Photos are dropped on the form or picked, while others are on their way too.
handleFilesList ==
    /\ ui.form # None /\ hist.picked < MaxPhotos /\ Room(net, 1)
    /\ ui' = [ui EXCEPT !.uploading = TRUE]
    /\ net' = Sent(net, "upload", [photo |-> hist.picked + 1, mine |-> TRUE, photos |-> ui.fields.photos])
    /\ hist' = [hist EXCEPT !.picked = @ + 1]
    /\ UNCHANGED srv

\* mutant: the photos are added to those the form had when they were picked.
AddedToOld(u, c) == [u EXCEPT !.fields.photos = c.arg.photos \cup {c.data}]

\* The photos are added to the form there is when they arrive.
Added(u, c) == [u EXCEPT !.fields.photos = @ \cup {c.data}]

UploadAnswered == \E i \in Answered(net, "upload") :
    LET c == net[i]
        after == IF c.here THEN [ui EXCEPT !.uploading = FALSE] ELSE ui
    IN /\ ui' = IF c.ok /\ c.here /\ ui.form # None THEN Added(after, c) ELSE after
       /\ net' = Settled(net, i)
       /\ hist' = [hist EXCEPT !.keep = IF c.ok /\ c.here /\ c.arg.mine THEN @ \cup {c.data} ELSE @]
       /\ UNCHANGED srv

removeImage == \E photo \in ui.fields.photos :
    /\ ui.form # None /\ Click([hist EXCEPT !.keep = @ \ {photo}])
    /\ ui' = [ui EXCEPT !.fields.photos = @ \ {photo}]
    /\ UNCHANGED <<net, srv>>

\* The button is off while saving and while the last picked photos are uploaded.
MaySave == ui.form # None /\ ui.fields.text # None /\ ~ui.saving /\ ~ui.uploading

save ==
    /\ MaySave /\ Room(net, 1) /\ Click(hist)
    /\ ui' = [ui EXCEPT !.saving = TRUE]
    /\ net' = IF ui.form = New
              THEN Sent(net, "create", [after |-> "save", row |-> ui.fields])
              ELSE Sent(net, "update", [after |-> "save", hall |-> ui.form, row |-> ui.fields,
                            base |-> ui.opened, asked |-> DOMAIN ui.fields])
    /\ UNCHANGED srv

----------------------------------------------------------------------------
(* The cards *)

\* mutant: the row that is sent back leaves the photos out.
RowWithoutPhotos(h) == [ui.halls[h] EXCEPT !.photos = {}]

\* The row on screen with every field of it: the backend replaces the whole row.
payloadFromRow(h) == ui.halls[h]

toggleActive == \E h \in Buttons :
    /\ ui.busy # h /\ Room(net, 1) /\ Click(hist)
    /\ ui' = [ui EXCEPT !.busy = h]
    /\ net' = Sent(net, "update", [after |-> "toggle", hall |-> h, asked |-> {"active"}, base |-> ui.halls[h],
                  row |-> [payloadFromRow(h) EXCEPT !.active = ~ui.halls[h].active]])
    /\ UNCHANGED srv

UpdateAnswered == \E i \in Answered(net, "create") \cup Answered(net, "update") \cup Answered(net, "delete") :
    /\ net' = ThenRefresh(net, i)
    /\ ui' = Failed(ui, net[i])
    /\ UNCHANGED <<srv, hist>>

Swap(a, b) ==
    [after |-> "move", click |-> hist.clicks, hall |-> a, asked |-> {"order"}, base |-> ui.halls[a],
     row |-> [payloadFromRow(a) EXCEPT !.order = ui.halls[b].order]]

\* The arrows are among the buttons here.
move == \E p \in Neighbours(ui.halls) :
    LET a == p[1]
        b == p[2]
    IN /\ a \in Buttons /\ ui.busy # a /\ Room(net, 2) /\ Click(hist)
       /\ ui' = [ui EXCEPT !.busy = a]
       /\ net' = Sent(Sent(net, "swap", Swap(a, b)), "swap", Swap(b, a))
       /\ UNCHANGED srv

MoveAnswered == \E i \in Answered(net, "swap") :
    /\ net' = AfterHalf(net, i)
    /\ ui' = Failed(ui, net[i])
    /\ UNCHANGED <<srv, hist>>

StrayAnswered == \E i \in Answered(net, "stray") : net' = Settled(net, i) /\ UNCHANGED <<ui, srv, hist>>

AskDelete == \E h \in Buttons :
    Click(hist) /\ ui' = [ui EXCEPT !.confirming = h] /\ UNCHANGED <<net, srv>>

CancelDelete == /\ ui.confirming # None
                /\ ui' = [ui EXCEPT !.confirming = None] /\ UNCHANGED <<net, srv, hist>>

remove == \E h \in Cards \ Buttons :
    /\ ui.busy # h /\ Room(net, 1) /\ Click(hist)
    /\ ui' = [ui EXCEPT !.busy = h]
    /\ net' = Sent(net, "delete", [after |-> "delete", hall |-> h])
    /\ UNCHANGED srv

\* A hidden hall with the same photos, at the end.
duplicate == \E h \in Buttons :
    /\ ui.duplicating # h /\ Room(net, 1) /\ Click(hist)
    /\ ui' = [ui EXCEPT !.duplicating = h]
    /\ net' = Sent(net, "create", [after |-> "copy",
                  row |-> [payloadFromRow(h) EXCEPT !.active = FALSE, !.order = Cardinality(Cards)]])
    /\ UNCHANGED srv

----------------------------------------------------------------------------
\* What a handler does after the read.
Done(u, a) == CASE a.after = "save" -> Closed(u)
                [] a.after = "delete" -> [u EXCEPT !.confirming = None]
                [] OTHER -> u

refresh == \E i \in Answered(net, "refresh") :
    LET c == net[i]
        seen == IF c.ok THEN [ui EXCEPT !.halls = c.data] ELSE ui
    IN /\ ui' = IF c.here THEN Finally(IF c.ok THEN Done(seen, c.arg) ELSE seen, c.arg.after) ELSE seen
       /\ net' = Settled(net, i)
       /\ hist' = [hist EXCEPT !.keep = IF ui'.form = None THEN {} ELSE @]
       /\ UNCHANGED srv

Fresh(halls) == [halls |-> halls, form |-> None, fields |-> EMPTY, opened |-> EMPTY, saving |-> FALSE,
                 uploading |-> FALSE, busy |-> None, duplicating |-> None, confirming |-> None]

\* Another tab and back: the tab starts anew over the same restaurant.
SwitchTab == /\ ui # Fresh(ui.halls) /\ Click([hist EXCEPT !.keep = {}])
             /\ ui' = Fresh(ui.halls)
             /\ net' = Unheard(net, Kinds)
             /\ UNCHANGED srv

\* One hall with a photo and one without.
Init == LET halls == <<[text |-> New, photos |-> {0}, active |-> TRUE, order |-> 0],
                       [text |-> New, photos |-> {}, active |-> TRUE, order |-> 1]>>
        IN /\ srv = [halls |-> halls, last |-> 2]
           /\ ui = Fresh(halls)
           /\ net = << >>
           /\ hist = [texts |-> 0, clicks |-> 0, picked |-> 0, keep |-> {}, rows |-> halls]

Next == \/ Backend \/ refresh \/ SwitchTab
        \/ startCreate \/ startEdit \/ cancel \/ HallForm \/ handleFilesList \/ UploadAnswered
        \/ removeImage \/ save
        \/ toggleActive \/ UpdateAnswered \/ move \/ MoveAnswered \/ StrayAnswered
        \/ AskDelete \/ CancelDelete \/ remove \/ duplicate

Spec == Init /\ [][Next]_vars

----------------------------------------------------------------------------
(* Properties *)

\* A photo that arrives while its form is still open is in the form until it is
\* removed there, whatever else is picked, removed or typed meanwhile.  (One that
\* arrives after another hall's form was opened is added to that hall's.)
NoPhotoLost == ui.form # None => hist.keep \subseteq ui.fields.photos

\* A whole row is sent where a field was to change, and still nothing else
\* changes: as long as each row arrives where it was taken from, a hall that is
\* hidden or moved keeps its photos and its name.
HallKeepsTheRest == hist.rows # None => srv.halls = hist.rows
=============================================================================
