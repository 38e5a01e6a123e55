-------------------------------- MODULE Cart --------------------------------
(***************************************************************************)
(* The booking cart.  CartProvider keeps the chosen lines and the refs of  *)
(* a guest's bookings in React state and in localStorage; the drawer shows *)
(* them, files a booking, and afterwards offers the filed order once more  *)
(* as a PDF or a WhatsApp text, and a guest the workspace prepared for the *)
(* booking.  Adding, removing, closing, signing in and reloading go on     *)
(* while a booking is on its way.                                          *)
(***************************************************************************)
EXTENDS Calls, FiniteSets

CONSTANTS Listings,    \* services
          Menus,       \* menus of a restaurant
          MaxAdds,     \* bound: lines put into the cart
          MaxOrders    \* bound: bookings filed

VARIABLES ui,          \* CartProvider's and the drawer's state
          store,       \* localStorage: the cart and the refs
          net, srv, hist

vars == <<ui, store, net, srv, hist>>

Kinds == {"checkout", "mine", "lookup", "resend"}

\* A line: what is chosen (a service, or one menu of it) and a stamp that
\* stands for the rest of it (guests, extras, prices).
Items == [listing : Listings, menu : Menus \cup {None}, stamp : 1..MaxAdds]
Variants == [listing : Listings, menu : Menus \cup {None}]
VariantOf(item) == [listing |-> item.listing, menu |-> item.menu]

\* mutant: two menus of one restaurant are one line.
KeyOfListing(item) == item.listing

cartItemKey(item) == <<item.listing, item.menu>>

TypeOK ==
    /\ \A k \in DOMAIN ui.items : ui.items[k] \in Items
    /\ ui.open \in BOOLEAN /\ ui.submitting \in BOOLEAN
    /\ ui.signedIn \in BOOLEAN
    /\ ui.listed \subseteq 1..MaxOrders
    /\ ui.resend \in {"none", "idle", "sending", "done"}
    /\ store.refs \subseteq 1..MaxOrders
    /\ CallsOK(net, Kinds)
    /\ Len(srv) <= MaxOrders

----------------------------------------------------------------------------
(* The backend *)

Filed(c) == [lines |-> ToSet(c.arg.items), mine |-> c.arg.signedIn]

\* A booking is filed; a guest's may come back with a workspace to open.  Its
\* answer may be lost on the way.
ServeCheckout == \E i \in Waiting(net, "checkout"), workspace, lost \in BOOLEAN :
    /\ Len(srv) < MaxOrders
    /\ workspace => ~net[i].arg.signedIn
    /\ srv' = Append(srv, Filed(net[i]))
    /\ net' = IF lost THEN Refused(net, i, None)
              ELSE Served(net, i, [id |-> Len(srv) + 1, workspace |-> workspace])
    /\ hist' = [hist EXCEPT !.unheard = @ \/ lost]

ServeLists ==
    /\ \/ \E i \in Waiting(net, "mine") :
            net' = Served(net, i, {k \in DOMAIN srv : srv[k].mine})
       \/ \E i \in Waiting(net, "lookup") : net' = Served(net, i, net[i].arg)
       \/ \E i \in Waiting(net, "resend") : net' = Served(net, i, None)
    /\ UNCHANGED <<srv, hist>>

ServeRefusal == \E i \in DOMAIN net :
    net[i].stage = "sent" /\ net' = Refused(net, i, None) /\ UNCHANGED <<srv, hist>>

\* Any other answer gets lost.
AnswerLost == \E i \in Coming(net) :
    net[i].kind # "checkout" /\ net' = Refused(net, i, None) /\ UNCHANGED <<srv, hist>>

Backend == (ServeCheckout \/ ServeLists \/ ServeRefusal \/ AnswerLost) /\ UNCHANGED <<ui, store>>

----------------------------------------------------------------------------
(* The drawer's list of bookings *)

\* The effect on [isOpen, isAuthenticated, refs] has no clean-up: an answer
\* asked for earlier is shown whenever it arrives.
ListKey(u, refs) == <<u.open, u.signedIn, refs>>
Listing(u, refs, n) ==
    IF ListKey(u, refs) = ListKey(ui, store.refs) \/ ~u.open THEN n
    ELSE IF u.signedIn THEN Sent(n, "mine", None)
    ELSE IF refs # {} THEN Sent(n, "lookup", refs) ELSE n

\* The state u is committed, with n the calls in flight.
Commit(u, refs, n) ==
    /\ Len(Listing(u, refs, n)) <= MaxCalls
    /\ ui' = u
    /\ net' = Listing(u, refs, n)

\* A list of one's own bookings that fails leaves the one shown; a failed
\* lookup answers with an empty list.
ListAnswered == \E kind \in {"mine", "lookup"} : \E i \in Answered(net, kind) :
    /\ ui' = IF net[i].ok THEN [ui EXCEPT !.listed = net[i].data]
             ELSE IF kind = "lookup" THEN [ui EXCEPT !.listed = {}] ELSE ui
    /\ net' = Settled(net, i)
    /\ UNCHANGED <<store, srv, hist>>

OpenDrawer == /\ ~ui.open
              /\ Commit([ui EXCEPT !.open = TRUE], store.refs, net)
              /\ UNCHANGED <<store, srv, hist>>
CloseDrawer == /\ ui.open
               /\ Commit([ui EXCEPT !.open = FALSE], store.refs, net)
               /\ UNCHANGED <<store, srv, hist>>

SignInOrOut ==
    /\ Commit([ui EXCEPT !.signedIn = ~@], store.refs, net)
    /\ UNCHANGED <<store, srv, hist>>

----------------------------------------------------------------------------
(* The lines *)

persist(lines) == /\ ui' = [ui EXCEPT !.items = lines]
                  /\ store' = [store EXCEPT !.cart = lines]

Without(items, item) ==
    Filtered(items, {k \in DOMAIN items : cartItemKey(items[k]) # cartItemKey(item)})

\* addItem, from the page of a service or from a menu's calculator (which
\* clamps the guests itself); a service with no price offers no such button.
\* A line of the same choice is replaced, at the end of the list.
addItem == \E choice \in Variants :
    LET item == [listing |-> choice.listing, menu |-> choice.menu, stamp |-> hist.adds + 1]
    IN /\ hist.adds < MaxAdds
       /\ persist(Append(Without(ui.items, item), item))
       /\ hist' = [hist EXCEPT !.adds = @ + 1, !.wanted[choice] = hist.adds + 1,
                               !.during = IF InFlight(net, "checkout")
                                          THEN @ \cup {hist.adds + 1} ELSE @]
       /\ UNCHANGED <<net, srv>>

removeItem == \E k \in DOMAIN ui.items :
    /\ ui.open
    /\ persist(Without(ui.items, ui.items[k]))
    /\ hist' = [hist EXCEPT !.wanted[VariantOf(ui.items[k])] = 0]
    /\ UNCHANGED <<net, srv>>

----------------------------------------------------------------------------
(* Filing a booking *)

\* mutant: the button stays enabled while a booking is on its way.
CheckoutFormEager == ui.open /\ ui.items # << >>

\* The form is there while the cart has lines, its button while nothing is out.
\* The name and the phone typed into it are left out: it can always be filled in.
CheckoutForm == ui.open /\ ui.items # << >> /\ ~ui.submitting

handleCheckout ==
    /\ CheckoutForm
    /\ Room(net, 1)
    /\ ui' = [ui EXCEPT !.submitting = TRUE]
    /\ net' = Sent(net, "checkout", [items |-> ui.items, signedIn |-> ui.signedIn])
    /\ UNCHANGED <<store, srv, hist>>

\* mutant: the offer kept for later is built from the lines on screen.
OrderOnScreen(c) == ToSet(ui.items)

\* lastOrder: the lines as they were when the booking was sent.
OrderSent(c) == ToSet(c.arg.items)

\* The booking is listed (and thanked for, for 2.8 seconds), its lines become the offer, the cart is emptied: of
\* the lines sent and of any added since.  What the continuation knows of the
\* session is what it was when the booking was sent.
Accepted(c) ==
    [ui EXCEPT !.items = << >>, !.submitting = FALSE, !.listed = @ \cup {c.data.id}, !.order = OrderSent(c),
               !.resend = IF ~c.data.workspace THEN "none"
                          ELSE IF @ = "none" THEN "idle" ELSE @]

\* The newest twenty refs are kept; the bounds here stay below that.
addBookingRef(c) == IF c.arg.signedIn THEN store.refs ELSE store.refs \cup {c.data.id}

CheckoutAnswered == \E i \in Answered(net, "checkout") :
    LET c == net[i] IN
    /\ IF c.ok
       THEN /\ Commit(Accepted(c), addBookingRef(c), Settled(net, i))
            /\ store' = [cart |-> << >>, refs |-> addBookingRef(c)]
            /\ hist' = [hist EXCEPT !.wanted = [v \in Variants |->
                         IF \E k \in DOMAIN c.arg.items : c.arg.items[k].stamp = @[v]
                         THEN 0 ELSE @[v]]]
       ELSE /\ ui' = [ui EXCEPT !.submitting = FALSE]
            /\ net' = Settled(net, i)
            /\ UNCHANGED <<store, hist>>
    /\ UNCHANGED srv

----------------------------------------------------------------------------
(* After the booking *)

\* The lines the PDF and the WhatsApp text are made of.
Offered == IF ui.items # << >> THEN ToSet(ui.items) ELSE ui.order

\* The offer of the prepared workspace; asking for its link once more.
handleResend ==
    /\ ui.open /\ ui.resend = "idle"
    /\ Room(net, 1)
    /\ ui' = [ui EXCEPT !.resend = "sending"]
    /\ net' = Sent(net, "resend", None)
    /\ UNCHANGED <<store, srv, hist>>

ResendAnswered == \E i \in Answered(net, "resend") :
    /\ ui' = [ui EXCEPT !.resend = IF @ = "none" THEN @ ELSE "done"]
    /\ net' = Settled(net, i)
    /\ UNCHANGED <<store, srv, hist>>

\* A full page load: the promises are gone, the cart is read back.
Reload ==
    /\ ui' = [items |-> store.cart, open |-> FALSE, submitting |-> FALSE,
              listed |-> {}, order |-> {}, resend |-> "none",
              signedIn |-> ui.signedIn]
    /\ net' = << >>
    /\ hist' = [hist EXCEPT !.unheard = @ \/ InFlight(net, "checkout")]
    /\ UNCHANGED <<store, srv>>

----------------------------------------------------------------------------
Init == /\ \E s \in BOOLEAN :
             ui = [items |-> << >>, open |-> FALSE, submitting |-> FALSE,
                   listed |-> {}, order |-> {}, resend |-> "none",
                   signedIn |-> s]
        /\ store = [cart |-> << >>, refs |-> {}]
        /\ net = << >>
        /\ srv = << >>
        /\ hist = [adds |-> 0, wanted |-> [v \in Variants |-> 0], during |-> {},
                   unheard |-> FALSE]

Next == \/ Backend
        \/ OpenDrawer \/ CloseDrawer \/ SignInOrOut \/ ListAnswered
        \/ addItem \/ removeItem
        \/ handleCheckout \/ CheckoutAnswered
        \/ handleResend \/ ResendAnswered \/ Reload

Spec == Init /\ [][Next]_vars

----------------------------------------------------------------------------
(* Properties *)

\* The cart holds exactly what the customer chose and neither removed nor
\* ordered, one line to a choice, the newest; it is the same in localStorage.
\* The one exception is a line added while a booking was on its way, which the
\* answer wipes with the rest.
CartKept ==
    /\ store.cart = ui.items
    /\ \A k \in DOMAIN ui.items : ui.items[k].stamp = hist.wanted[VariantOf(ui.items[k])]
    /\ \A v \in Variants : hist.wanted[v] \notin hist.during \cup {0} =>
           \E k \in DOMAIN ui.items : ui.items[k].stamp = hist.wanted[v]

\* No line is booked twice, unless an answer was lost (or the page reloaded
\* before it came) and the customer, who cannot know, tried again.
NoLineOrderedTwice ==
    ~hist.unheard => \A j, k \in DOMAIN srv : j # k => srv[j].lines \cap srv[k].lines = {}

\* The offer a customer downloads or sends after checkout is of a booking
\* that was filed, whatever was added or removed while it was on its way.
OfferIsOrder == ui.items = << >> /\ Offered # {} => \E k \in DOMAIN srv : Offered = srv[k].lines
=============================================================================
