-------------------------- MODULE NotificationList --------------------------
(***************************************************************************)
(* What the bell and the notifications page share: the backend's lists,    *)
(* the rows both draw from a list, and what clicking a row marks.  A list  *)
(* is a function from the notifications in it to whether they are read;    *)
(* notifications are numbered as they arrive.                              *)
(***************************************************************************)
EXTENDS Calls, FiniteSets, FiniteSetsExt

CONSTANT KindOf        \* the notifications to come: the n-th one's kind

Ids == DOMAIN KindOf
Lists == UNION {[S -> BOOLEAN] : S \in SUBSET Ids}

\* A page of a list, the newest first.
PageOf(S, page, limit) ==
    {n \in S : Cardinality({m \in S : m > n}) \in (page - 1) * limit .. page * limit - 1}

Answer(S, read, page, limit) ==
    [list |-> [n \in PageOf(S, page, limit) |-> n \in read], total |-> Cardinality(S)]

\* One row for all comments of a thread that are in the list, one for every
\* other notification.
groupNotifications(list) ==
    LET same(n, m) == n = m \/ {KindOf[n], KindOf[m]} = {"comment"}
    IN {{m \in DOMAIN list : same(n, m)} : n \in DOMAIN list}

\* mutant: a group looks read when its latest comment is.
ReadAsLatest(item, list) == list[Max(item)]

\* NotificationRow: not "is-unread".
isRead(item, list) == \A n \in item : list[n]

\* What clicking a row marks; a manager's message opens the chat where one is,
\* a comment leads to the discussion.
unreadIds(item, list) == {n \in item : ~list[n]}
ToDiscussion(item) == KindOf[Max(item)] = "comment"
StaysHere(item) == KindOf[Max(item)] = "chat"

Marked(list, ids) == [n \in DOMAIN list |-> list[n] \/ n \in ids]
Marks(calls, ids) == calls \o [k \in 1..Cardinality(ids) |-> Call("mark", Nth(ids, k))]

\* The notifications a mark is on its way for, and those it has not reached.
Marking(net) == {net[i].arg : i \in {j \in DOMAIN net : net[j].kind = "mark"}}
Unserved(net) == {net[i].arg : i \in Waiting(net, "mark")}
=============================================================================
