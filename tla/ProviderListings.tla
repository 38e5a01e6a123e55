-------------------------- MODULE ProviderListings --------------------------
(***************************************************************************)
(* A provider's own listings: one form, for a new listing or an edited     *)
(* one, and the list, where a listing is hidden, shown and deleted.  The   *)
(* backend replaces a listing by what is sent, so the form and the switch  *)
(* send every field.  A restaurant and an ordinary service share the form, *)
(* which shows the price of the one and the address of the other.          *)
(***************************************************************************)
EXTENDS RestaurantTabs

CONSTANTS MaxListings,   \* bound: listings ever made
          MaxTexts,      \* bound: names typed
          MaxClicks      \* bound: clicks, but for closing the form

VARIABLES ui, net, srv, hist

vars == <<ui, net, srv, hist>>

Kinds == {"load", "create", "save", "toggle", "delete"}
Listings == 1..MaxListings
New == 0

\* The fields that are told apart: those both kinds show (by the name), what only a
\* service's form shows, what only a restaurant's does, and what neither shows.
Rows == [text : 0..MaxTexts \cup {None}, venue : BOOLEAN, price : 0..MaxTexts, address : 0..MaxTexts,
         rest : {0, None}, active : BOOLEAN]

TypeOK ==
    /\ \A l \in DOMAIN srv.rows : l \in 1..srv.last /\ srv.rows[l] \in Rows
    /\ \A l \in DOMAIN ui.rows : l \in Listings /\ ui.rows[l] \in Rows
    /\ ui.form \in Listings \cup {New, None} /\ ui.fields \in Rows /\ ui.initial \in Rows
    /\ ui.saving \in BOOLEAN
    /\ srv.last \in 0..MaxListings
    /\ CallsOK(net, Kinds)

----------------------------------------------------------------------------
(* The backend *)

\* An answer that left before this change is heard after it, and puts back on screen
\* what it took from the row or the list.
Overtakes(kinds) == \E i \in DOMAIN net :
    net[i].kind \in kinds /\ net[i].stage = "answered" /\ net[i].ok

MyListings == \E i \in Waiting(net, "load") :
    /\ net' = Served(net, i, srv.rows)
    /\ hist' = [hist EXCEPT !.off = @ \/ Overtakes({"load"})]
    /\ UNCHANGED srv

\* A new listing is published at once.  Its answer may be lost.
CreateOwn == \E i \in Waiting(net, "create") :
    LET l == srv.last + 1
        row == [net[i].arg.row EXCEPT !.active = TRUE]
        mount == net[i].arg.mount
        h == [hist EXCEPT !.rows = IF @ = None THEN None ELSE With(@, l, row),
                          !.twice = @ \/ mount \in hist.made, !.made = @ \cup {mount}]
    IN /\ l \in Listings
       /\ srv' = [rows |-> With(srv.rows, l, row), last |-> l]
       /\ \/ net' = Served(net, i, row) /\ hist' = h
          \/ /\ net' = Refused(net, i, None)
             /\ hist' = [h EXCEPT !.off = TRUE, !.made = @ \ {mount}]

Met(a) == hist.rows # None /\ srv.rows[a.listing] = a.base

\* Every field is replaced, but for "active" where it is not sent.
Update == \E i \in Waiting(net, "save") \cup Waiting(net, "toggle") :
    LET a == net[i].arg
        row == IF net[i].kind = "toggle" THEN a.row
               ELSE [a.row EXCEPT !.active = srv.rows[a.listing].active]
    IN /\ a.listing \in DOMAIN srv.rows
       /\ srv' = [srv EXCEPT !.rows[a.listing] = row]
       /\ net' = Served(net, i, row)
       /\ hist' = [hist EXCEPT !.off = @ \/ Overtakes({"load", "toggle"}),
              !.rows = IF Met(a) THEN [@ EXCEPT ![a.listing] = Patched(@, a)] ELSE None]

\* Deleting what is gone is no error.
Delete == \E i \in Waiting(net, "delete") :
    /\ srv' = [srv EXCEPT !.rows = Without(@, net[i].arg.listing)]
    /\ net' = Served(net, i, None)
    /\ hist' = [hist EXCEPT !.rows = IF @ = None THEN None ELSE Without(@, net[i].arg.listing),
                            !.off = @ \/ Overtakes({"load"})]

\* A listing that is gone, an error.  A list that was not read stays as it was.
ServeRefusal == \E i \in DOMAIN net :
    /\ net[i].stage = "sent"
    /\ net' = Refused(net, i, None)
    /\ hist' = [hist EXCEPT !.off = @ \/ net[i].kind = "load"]
    /\ UNCHANGED srv

\* Any other answer gets lost: the screen is not told of the change.
AnswerLost == \E i \in Coming(net) :
    /\ net[i].kind # "create"
    /\ net' = Refused(net, i, None)
    /\ hist' = [hist EXCEPT !.off = TRUE]
    /\ UNCHANGED srv

Backend == (MyListings \/ CreateOwn \/ Update \/ Delete \/ ServeRefusal \/ AnswerLost) /\ UNCHANGED ui

----------------------------------------------------------------------------
(* The form *)

Click(h) == hist.clicks < MaxClicks /\ hist' = [h EXCEPT !.clicks = @ + 1]

EMPTY == [text |-> None, venue |-> FALSE, price |-> 0, address |-> 0, rest |-> None, active |-> TRUE]

\* A form of the same listing stays mounted, with what is typed; what it keeps for
\* the fields it does not show is taken from the row.
Opened(form, row) ==
    IF ui.form = form THEN [ui EXCEPT !.initial = row]
    ELSE [ui EXCEPT !.form = form, !.initial = row, !.fields = row, !.base = row, !.saving = FALSE,
                    !.mount = @ + 1]

Closed(u) == [u EXCEPT !.form = None, !.fields = EMPTY, !.initial = EMPTY, !.base = EMPTY, !.saving = FALSE]

AddButton == /\ ui.form # New /\ Click(hist)
             /\ ui' = Opened(New, EMPTY)
             /\ UNCHANGED <<net, srv>>

EditButton == \E l \in DOMAIN ui.rows :
    /\ Click(hist)
    /\ ui' = Opened(l, ui.rows[l])
    /\ UNCHANGED <<net, srv>>

\* Also while it is being saved.
onCancel == /\ ui.form # None
            /\ ui' = Closed(ui)
            /\ UNCHANGED <<net, srv, hist>>

\* The name is typed, the other kind chosen or not, and the field of the kind filled
\* in or left.
Typed == LET t == hist.texts + 1 IN
    {[f EXCEPT !.text = t, !.price = IF f.venue \/ left THEN @ ELSE t,
               !.address = IF f.venue /\ ~left THEN t ELSE @] :
        f \in {ui.fields, [ui.fields EXCEPT !.venue = ~@]}, left \in BOOLEAN}

ServiceForm == \E f \in Typed :
    /\ ui.form # None /\ hist.texts < MaxTexts
    /\ ui' = [ui EXCEPT !.fields = f]
    /\ hist' = [hist EXCEPT !.texts = @ + 1]
    /\ UNCHANGED <<net, srv>>

\* mutant: the payload is what the fields hold, shown or not.
PayloadOfFields == ui.fields

\* What the form of the kind does not show is sent as the listing has it.
Payload == IF ui.fields.venue THEN [ui.fields EXCEPT !.price = ui.initial.price]
                              ELSE [ui.fields EXCEPT !.address = ui.initial.address]

Asked == {"text", "venue", IF ui.fields.venue THEN "address" ELSE "price"}

\* mutant: the button stays on while the form is saved.
MaySaveAgain == ui.form # None /\ ui.fields.text # None

MaySave == ui.form # None /\ ui.fields.text # None /\ ~ui.saving

handleSubmit ==
    /\ MaySave /\ Room(net, 1) /\ Click(hist)
    /\ ui' = [ui EXCEPT !.saving = TRUE]
    /\ net' = IF ui.form = New
              THEN Sent(net, "create", [row |-> Payload, mount |-> ui.mount])
              ELSE Sent(net, "save", [row |-> Payload, mount |-> ui.mount, listing |-> ui.form,
                                      base |-> ui.base, asked |-> Asked])
    /\ UNCHANGED srv

\* onSaved closes the form that is open by now, and the list is read again.  A failed
\* form can be saved again.
SaveAnswered == \E i \in Answered(net, "create") \cup Answered(net, "save") :
    LET c == net[i] IN
    /\ ui' = IF c.ok THEN Closed(ui)
             ELSE IF ui.mount = c.arg.mount THEN [ui EXCEPT !.saving = FALSE] ELSE ui
    /\ net' = IF c.ok THEN Sent(Settled(net, i), "load", None) ELSE Settled(net, i)
    /\ UNCHANGED <<srv, hist>>

----------------------------------------------------------------------------
(* The list *)

\* Whatever is on its way; an error leaves the list alone.
loadMine == \E i \in Answered(net, "load") :
    /\ ui' = IF net[i].ok THEN [ui EXCEPT !.rows = net[i].data] ELSE ui
    /\ net' = Settled(net, i)
    /\ UNCHANGED <<srv, hist>>

\* mutant: a row is sent back with the fields the form has.
RowWithoutRest(l) == [ui.rows[l] EXCEPT !.rest = None]

\* Every stored field: what is left out would be wiped.
listingToPayload(l) == ui.rows[l]

handleToggleActive == \E l \in DOMAIN ui.rows :
    /\ Room(net, 1) /\ Click(hist)
    /\ net' = Sent(net, "toggle", [listing |-> l, base |-> ui.rows[l], asked |-> {"active"},
                  row |-> [listingToPayload(l) EXCEPT !.active = ~ui.rows[l].active]])
    /\ UNCHANGED <<ui, srv>>

\* The answer is patched into the row, if it is still there.
ToggleAnswered == \E i \in Answered(net, "toggle") :
    LET l == net[i].arg.listing IN
    /\ ui' = IF net[i].ok /\ l \in DOMAIN ui.rows THEN [ui EXCEPT !.rows[l] = net[i].data] ELSE ui
    /\ net' = Settled(net, i)
    /\ UNCHANGED <<srv, hist>>

handleDelete == \E l \in DOMAIN ui.rows :
    /\ Room(net, 1) /\ Click(hist)
    /\ net' = Sent(net, "delete", [listing |-> l])
    /\ UNCHANGED <<ui, srv>>

DeleteAnswered == \E i \in Answered(net, "delete") :
    /\ ui' = IF net[i].ok THEN [ui EXCEPT !.rows = Without(@, net[i].arg.listing)] ELSE ui
    /\ net' = Settled(net, i)
    /\ UNCHANGED <<srv, hist>>

----------------------------------------------------------------------------
\* One service, on screen.
Init == LET rows == <<[text |-> 0, venue |-> FALSE, price |-> 0, address |-> 0, rest |-> 0,
                       active |-> TRUE]>>
        IN /\ srv = [rows |-> rows, last |-> 1]
           /\ ui = [rows |-> rows, form |-> None, mount |-> 0, fields |-> EMPTY, initial |-> EMPTY,
                    base |-> EMPTY, saving |-> FALSE]
           /\ net = << >>
           /\ hist = [texts |-> 0, clicks |-> 0, rows |-> rows, made |-> {}, twice |-> FALSE,
                      off |-> FALSE]

Next == \/ Backend
        \/ AddButton \/ EditButton \/ onCancel \/ ServiceForm \/ handleSubmit \/ SaveAnswered
        \/ loadMine \/ handleToggleActive \/ ToggleAnswered \/ handleDelete \/ DeleteAnswered

Spec == Init /\ [][Next]_vars

----------------------------------------------------------------------------
(* Properties *)

\* One form makes one listing, however long its answer takes.  (One that is not told
\* of its listing, the answer being lost, stays open and may make another.)
OneListingPerForm == ~hist.twice

\* A whole row is sent where a part was to change, and nothing else changes: a
\* listing that is hidden keeps every field, and one that is edited, or turned from
\* a service into a restaurant and back, keeps what its form does not show, as long
\* as the row that is sent was taken from the listing as it was.
ListingKeepsTheRest == hist.rows # None => srv.rows = hist.rows

\* Once nothing is on its way the list is what is kept, unless an answer overtook
\* another, or one was lost.
ListingsAreKept == net = << >> /\ ~hist.off => ui.rows = srv.rows
=============================================================================
