---------------------------- MODULE MenuCalculator ----------------------------
(***************************************************************************)
(* The menus of a restaurant's page: chips to view or to compare menus,    *)
(* the detail of the one viewed and its calculator, whose estimate goes    *)
(* into the cart, a shortlist or the chat.  The detail and its calculator  *)
(* are one React instance for every menu viewed: their state outlives a    *)
(* change of menu.                                                         *)
(***************************************************************************)
EXTENDS Integers, Sequences, SequencesExt, FiniteSets

CONSTANTS MenuBook,    \* the menus in sort order: price, min and max guests (0: not
                       \* given), sections, extras, and whether the menu is active
          OpenEnd      \* the slider's end for a menu with no maximum (200 in the code)

VARIABLES ui,          \* the state of the three components
          hist         \* was another menu viewed since the slider was set

vars == <<ui, hist>>

activeMenus == {m \in DOMAIN MenuBook : MenuBook[m].active}
hasMenus == activeMenus # {}
First == CHOOSE m \in activeMenus : \A k \in activeMenus : m <= k

Extras(m) == MenuBook[m].extras
ExtraIds == {e.id : e \in UNION {Extras(m) : m \in DOMAIN MenuBook}}
Sections == UNION {MenuBook[m].sections : m \in DOMAIN MenuBook}

----------------------------------------------------------------------------
(* The calculator *)

minGuests(m) == IF MenuBook[m].min = 0 THEN 1 ELSE MenuBook[m].min

\* mutant: the slider does not look at the menu's own maximum.
SliderOpenEnd(m) == minGuests(m)..Max({minGuests(m) * 4, OpenEnd})

Slider(m) == minGuests(m)..(IF MenuBook[m].max # 0 THEN MenuBook[m].max
                            ELSE Max({minGuests(m) * 4, OpenEnd}))

isPercentUnit(e) == e.unit = "percent"
isPerGuestUnit(e) == e.unit = "per_guest"

\* The extras of menu m that are chosen, and what they add.
Chosen(m, ids) == {e \in Extras(m) : e.id \in ids}
FlatAmount(e, guests) == IF isPerGuestUnit(e) THEN e.price * guests ELSE e.price
Sum(S, amount(_)) == FoldSet(LAMBDA e, acc : acc + amount(e), 0, S)

BeforePercent(m, guests, ids) ==
    MenuBook[m].price * guests
        + Sum({e \in Chosen(m, ids) : ~isPercentUnit(e)}, LAMBDA e : FlatAmount(e, guests))

\* Math.round of a percentage: half a unit goes up.
Percent(amount, rate) == (2 * amount * rate + 100) \div 200

\* mutant: a service charge on the menu's price alone.
TotalPlainCharge(m, guests, ids) ==
    BeforePercent(m, guests, ids)
        + Sum({e \in Chosen(m, ids) : isPercentUnit(e)},
              LAMBDA e : Percent(MenuBook[m].price * guests, e.price))

Total(m, guests, ids) ==
    BeforePercent(m, guests, ids)
        + Sum({e \in Chosen(m, ids) : isPercentUnit(e)},
              LAMBDA e : Percent(BeforePercent(m, guests, ids), e.price))

----------------------------------------------------------------------------
\* A detail as it mounts with its calculator: one or two sections start open.
Mounted(m) == [guests |-> minGuests(m), chosen |-> {},
               open |-> IF Cardinality(MenuBook[m].sections) <= 2
                        THEN MenuBook[m].sections ELSE {}]
Unmounted == [guests |-> 0, chosen |-> {}, open |-> {}]

Shown == ~(ui.comparing /\ Len(ui.compare) >= 2)

TypeOK ==
    /\ ui.viewed \in activeMenus
    /\ ToSet(ui.compare) \subseteq activeMenus /\ Len(ui.compare) <= 3
    /\ ui.comparing \in BOOLEAN
    /\ ui.at.chosen \subseteq ExtraIds /\ ui.at.open \subseteq Sections
    /\ Shown => ui.at.guests > 0
    /\ hist \in [switched : BOOLEAN]

\* The detail gives way to the comparison, or comes back from it, afresh.
Remount(u) ==
    LET shown == ~(u.comparing /\ Len(u.compare) >= 2) IN
    IF shown = Shown THEN u
    ELSE [u EXCEPT !.at = IF shown THEN Mounted(u.viewed) ELSE Unmounted]

View == \E m \in activeMenus :
    LET u == [ui EXCEPT !.viewed = m, !.comparing = FALSE] IN
    /\ u # ui
    /\ ui' = Remount(u)
    /\ hist' = [switched |-> Remount(u) = u /\ (m # ui.viewed \/ hist.switched)]

\* Two or three menus, no more; dropping below two ends the comparison's view.
toggleCompare == \E m \in activeMenus :
    LET u == [ui EXCEPT !.compare =
                IF m \in ToSet(@) THEN SelectSeq(@, LAMBDA x : x # m)
                ELSE IF Len(@) >= 3 THEN @ ELSE Append(@, m)]
    IN /\ ui' = Remount(u)
          /\ hist' = IF Remount(u) = u THEN hist ELSE [switched |-> FALSE]

CompareBar == Len(ui.compare) >= 2
ToggleComparing ==
    LET u == [ui EXCEPT !.comparing = ~@] IN
    /\ CompareBar
    /\ ui' = Remount(u)
    /\ hist' = [switched |-> FALSE]

\* What the comparison says of a menu; sections and dishes are only counted.
Compared(m) == [price |-> MenuBook[m].price,
                guests |-> <<MenuBook[m].min, MenuBook[m].max>>,
                sections |-> Cardinality(MenuBook[m].sections),
                fee |-> {e \in Extras(m) : isPercentUnit(e)}]

\* The accordion: one section, all of the menu's, or none of any.
Accordion ==
    /\ Shown
    /\ \/ ui' = [ui EXCEPT !.at.open = MenuBook[ui.viewed].sections]
       \/ ui' = [ui EXCEPT !.at.open = {}]
       \/ \E s \in MenuBook[ui.viewed].sections :
             ui' = [ui EXCEPT !.at.open = SymDiff(@, {s})]
    /\ UNCHANGED hist

MoveSlider == \E g \in Slider(ui.viewed) :
    /\ Shown
    /\ ui' = [ui EXCEPT !.at.guests = g]
    /\ hist' = [hist EXCEPT !.switched = FALSE]

toggleExtra == \E e \in Extras(ui.viewed) :
    /\ Shown
    /\ ui' = [ui EXCEPT !.at.chosen = SymDiff(@, {e.id})]
    /\ UNCHANGED hist

\* What the cart, the shortlist and the chat take along from the calculator.
Estimate == [menu |-> ui.viewed, guests |-> ui.at.guests,
             extras |-> {e.id : e \in Chosen(ui.viewed, ui.at.chosen)},
             total |-> Total(ui.viewed, ui.at.guests, ui.at.chosen)]

----------------------------------------------------------------------------
Init == /\ hasMenus
        /\ ui = [viewed |-> First, compare |-> << >>, comparing |-> FALSE,
                 at |-> Mounted(First)]
        /\ hist = [switched |-> FALSE]

Next == View \/ toggleCompare \/ ToggleComparing \/ Accordion \/ MoveSlider \/ toggleExtra

Spec == Init /\ [][Next]_vars

----------------------------------------------------------------------------
(* Properties *)

\* The exact price of an estimate, in hundredths, computed once over all that
\* is chosen.
Exact(e) ==
    LET chosen == {x \in Extras(e.menu) : x.id \in e.extras}
        amount(x) == IF x.unit = "percent" THEN 0
                     ELSE IF x.unit = "per_guest" THEN x.price * e.guests ELSE x.price
        rate(x) == IF x.unit = "percent" THEN x.price ELSE 0
    IN (MenuBook[e.menu].price * e.guests + Sum(chosen, amount)) * (100 + Sum(chosen, rate))

\* The number that leaves the page with a menu, its guests and its extras is
\* their exact price, but for half a unit of rounding per service charge;
\* extras ticked under another menu are not in it.
EstimateIsExact ==
    Shown =>
        LET charges == Cardinality({x \in Chosen(ui.viewed, ui.at.chosen) :
                                      x.unit = "percent"})
            off == 100 * Estimate.total - Exact(Estimate)
        IN -50 * charges <= off /\ off <= 50 * charges

\* The guests on the slider are ones the viewed menu takes.  They are carried
\* over from the menu viewed before until the slider moves, or the comparison
\* is opened and closed.
GuestsOfMenu ==
    Shown /\ ~hist.switched =>
        /\ ui.at.guests >= MenuBook[ui.viewed].min
        /\ MenuBook[ui.viewed].max # 0 => ui.at.guests <= MenuBook[ui.viewed].max
=============================================================================
