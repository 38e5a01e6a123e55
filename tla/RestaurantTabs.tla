--------------------------- MODULE RestaurantTabs ---------------------------
(***************************************************************************)
(* What the tabs of a restaurant's editor share: cards in the order of     *)
(* their places, changes that send a whole row, and the read of the whole  *)
(* restaurant that follows a change.  A call's "after" names the handler   *)
(* that waits for it.                                                      *)
(***************************************************************************)
EXTENDS Calls

\* The cards in the order of their places, when no two have one place.
sortByOrder(rows) == SetToSortSeq(DOMAIN rows, LAMBDA a, b : rows[a].order < rows[b].order)

\* The pairs that may be next to each other on screen: cards of one place come in
\* whatever order the database reads them.
Neighbours(rows) ==
    LET Between(c, p) == rows[p[1]].order < rows[c].order /\ rows[c].order < rows[p[2]].order
    IN {p \in (DOMAIN rows) \X (DOMAIN rows) :
          p[1] # p[2] /\ \A c \in DOMAIN rows : ~Between(c, p) /\ ~Between(c, <<p[2], p[1]>>)}

\* Every card has a place of its own.
Distinct(rows) == \A a, b \in DOMAIN rows : a # b => rows[a].order # rows[b].order

With(f, x, v) == [y \in DOMAIN f \cup {x} |-> IF y = x THEN v ELSE f[y]]
Without(f, x) == [y \in DOMAIN f \ {x} |-> f[y]]

\* The row with only the fields that were to change.
Patched(row, a) == [f \in DOMAIN row |-> IF f \in a.asked THEN a.row[f] ELSE row[f]]

\* What a handler does last, whatever came of its calls.
Finally(u, after) == CASE after = "save" -> [u EXCEPT !.saving = FALSE]
                       [] after = "copy" -> [u EXCEPT !.duplicating = None]
                       [] OTHER -> [u EXCEPT !.busy = None]

\* The next call of a handler whose i-th call is over.
Then(net, i, kind, arg) ==
    [Sent(Settled(net, i), kind, arg) EXCEPT ![Len(net)].here = net[i].here]

\* A change that was made is followed by the read, one that was not by an error.
ThenRefresh(net, i) == IF net[i].ok THEN Then(net, i, "refresh", net[i].arg) ELSE Settled(net, i)

Failed(u, c) == IF ~c.ok /\ c.here THEN Finally(u, c.arg.after) ELSE u

\* The other half of a move.
OtherHalf(net, i) == {j \in DOMAIN net : /\ j # i /\ net[j].kind = "swap"
                                        /\ net[j].arg.click = net[i].arg.click}

\* Promise.all: the first failure ends the move and the other half goes on
\* unheard; the second success is followed by the read.
AfterHalf(net, i) ==
    IF ~net[i].ok
    THEN Settled([j \in DOMAIN net |-> IF j \in OtherHalf(net, i) THEN [net[j] EXCEPT !.kind = "stray"]
                                                                  ELSE net[j]], i)
    ELSE IF OtherHalf(net, i) # {} THEN Settled(net, i) ELSE ThenRefresh(net, i)
=============================================================================
