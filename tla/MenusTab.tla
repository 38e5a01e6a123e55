------------------------------ MODULE MenusTab ------------------------------
(***************************************************************************)
(* The banquet menus of a restaurant, in the admin panel and in the        *)
(* provider's: a form that creates or edits one, cards that hide, move,    *)
(* copy and delete one.  Every change is a PUT of a whole row taken from   *)
(* the screen, followed by a read of the whole restaurant; a copy is made  *)
(* piece by piece with the calls that make a menu by hand.                 *)
(***************************************************************************)
EXTENDS RestaurantTabs

CONSTANTS Halls,       \* the restaurant's halls at the start
          MaxMenus,    \* bound: menus ever made
          MaxTexts,    \* bound: forms filled in
          MaxClicks    \* bound: clicks, but for those that close something or open an empty form

VARIABLES ui, net, srv, hist

vars == <<ui, net, srv, hist>>

Kinds == {"create", "update", "swap", "stray", "delete", "copy", "part", "refresh"}
Menus == 1..MaxMenus
New == 0                \* the form of a menu not yet made
Texts == 1..MaxTexts
Rows == [hall : Halls \cup {None}, text : Texts \cup {None, 0}, active : BOOLEAN,
         order : 0..MaxMenus]

\* What a copy is made of, in the order it is made.
Tree == <<"section", "dish", "extra">>

TypeOK ==
    /\ ui.form \in Menus \cup {None, New} /\ ui.fields \in Rows
    /\ {ui.busy, ui.duplicating, ui.confirming, ui.open} \subseteq Menus \cup {None}
    /\ ui.saving \in BOOLEAN
    /\ \A m \in DOMAIN srv.menus : m <= srv.last /\ srv.menus[m].row \in Rows
    /\ srv.last \in Menus
    /\ CallsOK(net, Kinds)

----------------------------------------------------------------------------
(* The backend *)

Alive == DOMAIN srv.menus

\* A menu's hall must be one of the restaurant's, whatever is changed of it.
validateMenuHall(row) == row.hall \in srv.halls \cup {None}

\* An update met the row it was made from.  Once one did not, or half of a swap
\* was refused, nothing more is said of the rows.
Met(c) == hist.rows # None /\ srv.menus[c.arg.menu].row = c.arg.base

ServeCreate == \E i \in Waiting(net, "create") \cup Waiting(net, "copy") :
    LET row == net[i].arg.row
        m == srv.last + 1
    IN /\ m \in Menus /\ validateMenuHall(row)
       /\ srv' = [srv EXCEPT !.last = m, !.menus = With(@, m, [row |-> row, parts |-> << >>])]
       /\ net' = Served(net, i, m)
       /\ hist' = [hist EXCEPT !.rows = IF @ = None THEN None ELSE With(@, m, row),
             !.filed = IF net[i].kind = "create" THEN [@ EXCEPT ![row.text] = hist.filed[row.text] + 1] ELSE @]

ServeUpdate == \E i \in Waiting(net, "update") \cup Waiting(net, "swap") \cup Waiting(net, "stray") :
    LET a == net[i].arg IN
    /\ a.menu \in Alive /\ validateMenuHall(a.row)
    /\ srv' = [srv EXCEPT !.menus[a.menu].row = a.row]
    /\ net' = Served(net, i, None)
    /\ hist' = [hist EXCEPT !.rows = IF Met(net[i]) THEN [@ EXCEPT ![a.menu] = Patched(@, a)] ELSE None]

ServePart == \E i \in Waiting(net, "part") :
    LET a == net[i].arg IN
    /\ a.copy \in Alive
    /\ srv' = [srv EXCEPT !.menus[a.copy].parts = Append(@, Head(a.left))]
    /\ net' = Served(net, i, None) /\ UNCHANGED hist

ServeDelete == \E i \in Waiting(net, "delete") :
    LET m == net[i].arg.menu IN
    /\ m \in Alive
    /\ srv' = [srv EXCEPT !.menus = Without(@, m)]
    /\ net' = Served(net, i, None)
    /\ hist' = [hist EXCEPT !.rows = IF @ = None THEN None ELSE Without(@, m)]

loadListingTree == \E i \in Waiting(net, "refresh") :
    /\ net' = Served(net, i, [menus |-> srv.menus, halls |-> srv.halls])
    /\ UNCHANGED <<srv, hist>>

\* Anything may be refused; a menu of a hall that is gone always is.
ServeRefusal == \E i \in DOMAIN net :
    /\ net[i].stage = "sent" /\ net' = Refused(net, i, None)
    /\ hist' = [hist EXCEPT !.wanted = None,
                            !.rows = IF net[i].kind \in {"swap", "stray"} THEN None ELSE @]
    /\ UNCHANGED srv

\* The answer gets lost.  A form is not told that its menu was made, and of a move
\* the read that shows it is missing.
AnswerLost == \E i \in Coming(net) :
    /\ net' = Refused(net, i, None)
    /\ hist' = [hist EXCEPT !.wanted = None, !.unread = @ \/ net[i].kind = "create"]
    /\ UNCHANGED srv

\* The halls' tab deletes a hall: the menus that name it go on naming it.
HallDeleted == \E h \in srv.halls :
    srv' = [srv EXCEPT !.halls = @ \ {h}] /\ UNCHANGED <<net, hist>>

Backend == /\ \/ ServeCreate \/ ServeUpdate \/ ServePart \/ ServeDelete
              \/ loadListingTree \/ ServeRefusal \/ AnswerLost \/ HallDeleted
           /\ UNCHANGED ui

----------------------------------------------------------------------------
(* What the tab shows and sends *)

Cards == DOMAIN ui.current.menus
Row(m) == ui.current.menus[m].row
Shown == [m \in Cards |-> Row(m)]

\* mutant: the row that is sent back leaves the hall out.
RowWithoutHall(m) == [Row(m) EXCEPT !.hall = None]

\* The row on screen with every field of it: the backend replaces the whole row.
menuRowToPayload(m) == Row(m)

\* A click that is counted, which ends what was said of the last move.
Click(wanted) == /\ hist.clicks < MaxClicks
                 /\ hist' = [hist EXCEPT !.clicks = @ + 1, !.wanted = wanted]

\* A card that asks whether to delete shows no other buttons, but for its arrows.
Buttons == {m \in Cards : ui.confirming # m}

----------------------------------------------------------------------------
(* The form *)

EMPTY_MENU == [hall |-> None, text |-> None, active |-> TRUE, order |-> 0]

\* A form is filled anew whenever it opens: what a closed one held is left out.
Closed(u) == [u EXCEPT !.form = None, !.fields = EMPTY_MENU, !.opened = EMPTY_MENU]

\* The button is on screen while no form is open, and in the place of the cards
\* when the last of them has gone.
AddButton == ui.form = None \/ (Cards = {} /\ ui.form # New)

startCreate ==
    /\ AddButton
    /\ ui' = [ui EXCEPT !.form = New, !.open = None,
                        !.fields = [EMPTY_MENU EXCEPT !.order = Cardinality(Cards)]]
    /\ UNCHANGED <<net, srv, hist>>

startEdit == \E m \in Buttons :
    /\ Click(None)
    /\ ui' = [ui EXCEPT !.form = m, !.open = None, !.fields = Row(m), !.opened = Row(m)]
    /\ UNCHANGED <<net, srv>>

\* The form of a new menu, or that of an old one as long as there are cards.
FormShown == ui.form = New \/ (ui.form # None /\ Cards # {})

cancelForm ==
    /\ FormShown /\ ~ui.saving
    /\ ui' = Closed(ui) /\ UNCHANGED <<net, srv, hist>>

\* The names are typed, a hall is picked or left, the switch and the place are
\* changed or left; while a save is on its way as well.
MenuForm == \E h \in ui.current.halls \cup {ui.fields.hall},
               rest \in {ui.fields, [ui.fields EXCEPT !.active = ~@, !.order = 0]} :
    /\ FormShown /\ hist.texts < MaxTexts
    /\ ui' = [ui EXCEPT !.fields = [rest EXCEPT !.hall = h, !.text = hist.texts + 1]]
    /\ hist' = [hist EXCEPT !.texts = @ + 1]
    /\ UNCHANGED <<net, srv>>

\* mutant: the button stays on while the form is saved.
MaySaveAgain == FormShown /\ ui.fields.text # None

\* Without its names a menu is not sent; the button is off while saving.
MaySave == FormShown /\ ui.fields.text # None /\ ~ui.saving

save ==
    /\ MaySave /\ Room(net, 1) /\ Click(None)
    /\ ui' = [ui EXCEPT !.saving = TRUE]
    /\ net' = IF ui.form = New
              THEN Sent(net, "create", [after |-> "save", row |-> ui.fields])
              ELSE Sent(net, "update", [after |-> "save", menu |-> ui.form, row |-> ui.fields,
                            base |-> ui.opened, asked |-> DOMAIN ui.fields])
    /\ UNCHANGED srv

----------------------------------------------------------------------------
(* The cards *)

toggleActive == \E m \in Buttons :
    /\ ui.busy # m /\ Room(net, 1) /\ Click(None)
    /\ ui' = [ui EXCEPT !.busy = m]
    /\ net' = Sent(net, "update", [after |-> "toggle", menu |-> m, asked |-> {"active"}, base |-> Row(m),
                  row |-> [menuRowToPayload(m) EXCEPT !.active = ~Row(m).active]])
    /\ UNCHANGED srv

UpdateAnswered == \E i \in Answered(net, "create") \cup Answered(net, "update") \cup Answered(net, "delete") :
    /\ net' = ThenRefresh(net, i)
    /\ ui' = Failed(ui, net[i])
    /\ UNCHANGED <<srv, hist>>

\* mutant: only the upper of the two gets a new place.
PlaceOfUpper(a, b) == IF Row(a).order < Row(b).order THEN Row(b).order ELSE Row(a).order

\* Each of the two menus takes the other's place.
Place(a, b) == Row(b).order

Swap(a, b) ==
    [after |-> "move", click |-> hist.clicks, menu |-> a, asked |-> {"order"}, base |-> Row(a),
     row |-> [menuRowToPayload(a) EXCEPT !.order = Place(a, b)]]

\* Nothing else is going on, and no two menus have one place.
Quiet == net = << >> /\ ui.current.menus = srv.menus /\ Distinct(Shown)

\* The cards with two of them exchanged.
Exchanged(a, b) == LET cards == sortByOrder(Shown) IN
    [i \in DOMAIN cards |-> IF cards[i] = a THEN b ELSE IF cards[i] = b THEN a ELSE cards[i]]

\* Both updates leave at once.
move == \E p \in Neighbours(Shown) :
    LET a == p[1]
        b == p[2]
    IN /\ ui.busy # a /\ Room(net, 2)
       /\ Click(IF Quiet THEN Exchanged(a, b) ELSE None)
       /\ ui' = [ui EXCEPT !.busy = a]
       /\ net' = Sent(Sent(net, "swap", Swap(a, b)), "swap", Swap(b, a))
       /\ UNCHANGED srv

MoveAnswered == \E i \in Answered(net, "swap") :
    /\ net' = AfterHalf(net, i)
    /\ ui' = Failed(ui, net[i])
    /\ UNCHANGED <<srv, hist>>

StrayAnswered == \E i \in Answered(net, "stray") : net' = Settled(net, i) /\ UNCHANGED <<ui, srv, hist>>

AskDelete == \E m \in Buttons :
    Click(None) /\ ui' = [ui EXCEPT !.confirming = m] /\ UNCHANGED <<net, srv>>

CancelDelete == /\ ui.confirming # None
                /\ ui' = [ui EXCEPT !.confirming = None] /\ UNCHANGED <<net, srv, hist>>

remove == \E m \in Cards \ Buttons :
    /\ ui.busy # m /\ Room(net, 1) /\ Click(None)
    /\ ui' = [ui EXCEPT !.busy = m]
    /\ net' = Sent(net, "delete", [after |-> "delete", menu |-> m, open |-> ui.open])
    /\ UNCHANGED srv

toggleBuilder == \E m \in Buttons :
    /\ Click(None)
    /\ ui' = [Closed(ui) EXCEPT !.open = IF @ = m THEN None ELSE m]
    /\ UNCHANGED <<net, srv>>

----------------------------------------------------------------------------
(* Copying a menu *)

\* mutant: the extras are not copied.
PiecesButExtras(m) == SelectSeq(ui.current.menus[m].parts, LAMBDA p : p # "extra")

\* The sections with their dishes, then the extras, as the screen has them.
Pieces(m) == ui.current.menus[m].parts

\* A hidden menu at the end, first without anything in it.
duplicate == \E m \in Buttons :
    /\ ui.duplicating # m /\ Room(net, 1) /\ Click(None)
    /\ ui' = [ui EXCEPT !.duplicating = m]
    /\ net' = Sent(net, "copy", [after |-> "copy", left |-> Pieces(m), tree |-> ui.current.menus[m].parts,
                  row |-> [Row(m) EXCEPT !.active = FALSE, !.order = Cardinality(Cards)]])
    /\ UNCHANGED srv

\* The next piece, or the read when there is none left.  A piece that fails ends
\* the copy: what there is of it stays.
CopyAnswered == \E i \in Answered(net, "copy") \cup Answered(net, "part") :
    LET c == net[i]
        a == IF c.kind = "copy" THEN [after |-> "copy", left |-> c.arg.left, tree |-> c.arg.tree, copy |-> c.data]
                                ELSE [c.arg EXCEPT !.left = Tail(@)]
    IN /\ net' = IF c.ok THEN Then(net, i, IF a.left = << >> THEN "refresh" ELSE "part", a) ELSE Settled(net, i)
       /\ ui' = Failed(ui, c)
       /\ UNCHANGED <<srv, hist>>

----------------------------------------------------------------------------
(* Reading the restaurant *)

\* What a handler does after the read.
Done(u, a) == CASE a.after = "save" -> Closed(u)
                [] a.after = "delete" -> [u EXCEPT !.confirming = None,
                                                   !.open = IF a.open = a.menu THEN None ELSE @]
                [] a.after = "copy" -> [u EXCEPT !.open = a.copy]
                [] OTHER -> u

\* The restaurant above the tabs takes what was read, in any order, also when
\* the tab that asked has gone.
refresh == \E i \in Answered(net, "refresh") :
    LET c == net[i]
        seen == IF c.ok THEN [ui EXCEPT !.current = c.data] ELSE ui
    IN /\ ui' = IF c.here THEN Finally(IF c.ok THEN Done(seen, c.arg) ELSE seen, c.arg.after) ELSE seen
       /\ net' = Settled(net, i)
       /\ hist' = [hist EXCEPT !.unread = @ \/ ~c.ok,
             !.copies = IF c.ok /\ c.here /\ c.arg.after = "copy"
                        THEN @ \cup {[menu |-> c.arg.copy, tree |-> c.arg.tree]} ELSE @]
       /\ UNCHANGED srv

Fresh(current) == [current |-> current, form |-> None, fields |-> EMPTY_MENU, opened |-> EMPTY_MENU, saving |-> FALSE, busy |-> None,
                   duplicating |-> None, confirming |-> None, open |-> None]

\* Another tab and back: the tab starts anew over the same restaurant.
SwitchTab == /\ ui # Fresh(ui.current) /\ Click(None)
             /\ ui' = Fresh(ui.current)
             /\ net' = Unheard(net, Kinds)
             /\ UNCHANGED srv

----------------------------------------------------------------------------
\* One menu of a hall with everything in it, one of any hall with nothing yet.
Init == \E h \in Halls :
    LET menus == <<[row |-> [hall |-> h, text |-> 0, active |-> TRUE, order |-> 0], parts |-> Tree],
                   [row |-> [hall |-> None, text |-> 0, active |-> TRUE, order |-> 1], parts |-> << >>]>>
    IN /\ srv = [menus |-> menus, halls |-> Halls, last |-> 2]
       /\ ui = Fresh([menus |-> menus, halls |-> Halls])
       /\ net = << >>
       /\ hist = [texts |-> 0, clicks |-> 0, unread |-> FALSE, wanted |-> None,
                  copies |-> {}, rows |-> [m \in 1..2 |-> menus[m].row], filed |-> [t \in Texts |-> 0]]

Next == \/ Backend \/ refresh \/ SwitchTab
        \/ startCreate \/ startEdit \/ cancelForm \/ MenuForm \/ save
        \/ toggleActive \/ UpdateAnswered \/ move \/ MoveAnswered \/ StrayAnswered
        \/ AskDelete \/ CancelDelete \/ remove \/ toggleBuilder
        \/ duplicate \/ CopyAnswered

Spec == Init /\ [][Next]_vars

----------------------------------------------------------------------------
(* Properties *)

\* A whole row is sent where a field or two were to change, and still nothing
\* else changes: as long as each row arrives where it was taken from, hiding a
\* menu only hides it and moving two only exchanges their places.
OnlyWhatWasAsked == hist.rows # None => \A m \in Alive : srv.menus[m].row = hist.rows[m]

\* A move with nothing else going on, both halves of it served, is the move of
\* one card past its neighbour.  (Two menus of one place, which a deletion and
\* a new menu make, do not move at all.)
ArrowMoves == net = << >> /\ hist.wanted # None => Distinct(Shown) /\ sortByOrder(Shown) = hist.wanted

\* A form filled in once makes one menu, unless it was not told that its menu was
\* made (the answer was lost) or the read after it fails: then the form stays open
\* over the menu it has made, and may be saved again.
OneMenuPerForm == ~hist.unread => \A t \in Texts : hist.filed[t] <= 1

\* A copy that opens after it was made has everything its menu had on screen: a
\* copy that lacks a piece never opens by itself.
CopyOpensWhole == \A c \in hist.copies : c.menu \in Alive => srv.menus[c.menu].parts = c.tree
=============================================================================
