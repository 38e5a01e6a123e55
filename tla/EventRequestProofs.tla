------------------------- MODULE EventRequestProofs -------------------------
(* What holds of EventRequest for any number of overlapping calls: the       *)
(* typing, and that a stale Save never separates the request row from its    *)
(* revisions and its booking.                                                *)
(*                                                                           *)
(* The argument: every private copy of the row that a call may still Save is *)
(* "backed", as the row itself is, by revisions and a booking that exist.    *)
(* The two tables only grow, a booking's items never change, so being backed *)
(* is never lost; and each Save stores a backed copy, changed in a way its   *)
(* guard allows.                                                             *)
EXTENDS EventRequest, SequenceTheorems, TLAPS

\* the tables the row points into
FiledIn(number, revs) == \E i \in DOMAIN revs : revs[i].number = number

Backed(row, revs, books) ==
  /\ row.status \in {"none", "draft"} => row.latest = 0
  /\ (row.booking = 0) <=> (row.latest = 0)
  /\ row.latest # 0 => FiledIn(row.latest, revs)
  /\ row.status \in {"submitted", "in_review", "changes_requested", "approved",
                     "rejected"} => row.latest # 0
  /\ row.status \in {"submitted", "in_review", "approved", "rejected"} =>
       \E i \in DOMAIN revs : /\ revs[i].number = row.latest
                              /\ revs[i].comment = row.comment
  /\ row.booking # 0 =>
       /\ row.booking \in DOMAIN books
       /\ \E i \in DOMAIN revs : /\ revs[i].number = 1
                                 /\ revs[i].picks = books[row.booking].items

\* what a call knows at its next statement
Inputs(proc) ==
  /\ proc.op = "review" =>
       proc.to \in {"in_review", "changes_requested", "approved", "rejected"}
  /\ proc.op = "desk" => proc.to \in BookingStatuses \cup {"keep"}
  /\ proc.pc = "create" => proc.op \in {"get", "update", "submit", "cancel"}
  /\ proc.pc = "mirror" => proc.op = "review"
  /\ proc.pc = "announce" => proc.op \in {"submit", "cancel", "review"}

Knows(proc) ==
  /\ proc.op = "update" /\ proc.pc = "save" => Editable(proc.row.status)
  /\ proc.op = "submit" /\ proc.pc \in {"event", "snapshot", "commit"} =>
       Editable(proc.row.status)
  /\ proc.op = "submit" /\ proc.pc = "announce" => proc.row.latest # 0
  /\ proc.op = "cancel" /\ proc.pc \in {"save", "announce"} =>
       /\ proc.row.status # "none"
       /\ ~Terminal(proc.row.status)
  /\ proc.op = "review" /\ proc.pc \in {"save", "mirror", "announce"} =>
       CanTransition(proc.row.status, proc.to)
  /\ proc.pc = "mirror" => proc.row.booking # 0

ProcOK(proc, revs, books) ==
  /\ Inputs(proc)
  /\ Knows(proc)
  /\ Backed(proc.row, revs, books)
  /\ proc.op = "desk" /\ proc.pc = "save" =>
       /\ proc.id \in DOMAIN books
       /\ proc.copy.items = books[proc.id].items

GaplessIn(revs) ==
  \A i \in DOMAIN revs : \A n \in 1..revs[i].number : FiledIn(n, revs)

IndInv ==
  /\ TypeOK
  /\ Backed(req, revisions, bookings)
  /\ GaplessIn(revisions)
  /\ MailNamesRevision
  /\ \A p \in Procs : ProcOK(procs[p], revisions, bookings)

-----------------------------------------------------------------------------
\* No table loses a row, no row changes what Backed reads of it
Grows(revs, revs2, books, books2) ==
  /\ \A i \in DOMAIN revs : i \in DOMAIN revs2 /\ revs2[i] = revs[i]
  /\ \A i \in DOMAIN books : i \in DOMAIN books2 /\ books2[i].items = books[i].items

\* A private copy that is backed stays so while the tables grow: what a call
\* relies on between its statements is not taken away by the other calls.
LEMMA GrowthKeepsProc ==
  ASSUME NEW revs, NEW revs2, NEW books, NEW books2,
         Grows(revs, revs2, books, books2),
         NEW proc, ProcOK(proc, revs, books)
  PROVE  ProcOK(proc, revs2, books2)
<1>1. Backed(proc.row, revs2, books2)
  BY DEF Grows, ProcOK, Backed, FiledIn
<1>2. proc.op = "desk" /\ proc.pc = "save" =>
        /\ proc.id \in DOMAIN books2
        /\ proc.copy.items = books2[proc.id].items
  BY DEF Grows, ProcOK
<1> QED BY <1>1, <1>2 DEF ProcOK

\* The same for a row in hand.
LEMMA GrowthKeepsRow ==
  ASSUME NEW revs, NEW revs2, NEW books, NEW books2,
         Grows(revs, revs2, books, books2),
         NEW row, Backed(row, revs, books)
  PROVE  Backed(row, revs2, books2)
BY DEF Grows, Backed, FiledIn

\* A step of one call leaves the others as they were.
LEMMA OtherCalls ==
  ASSUME TypeOK, NEW p \in Procs,
         \A q \in Procs : ProcOK(procs[q], revisions, bookings),
         Grows(revisions, revisions', bookings, bookings'),
         \A q \in Procs \ {p} : procs'[q] = procs[q],
         ProcOK(procs'[p], revisions', bookings')
  PROVE  \A q \in Procs : ProcOK(procs'[q], revisions', bookings')
<1> SUFFICES ASSUME NEW q \in Procs PROVE ProcOK(procs'[q], revisions', bookings')
  OBVIOUS
<1>1. CASE q = p
  BY <1>1
<1>2. CASE q # p
  BY <1>2, GrowthKeepsProc
<1> QED BY <1>1, <1>2

\* An idle call knows nothing and needs nothing.
LEMMA IdleOK ==
  /\ Idle \in ProcStates
  /\ \A revs, books : ProcOK(Idle, revs, books)
BY BlankAssumption
   DEF Idle, ProcStates, AllOps, Rows, NoRow, Bookings, NoBooking, Statuses,
       BookingStatuses, ProcOK, Inputs, Knows, Backed, Editable, Terminal

-----------------------------------------------------------------------------
\* Steps that only move one call forward
Still == UNCHANGED <<req, revisions, bookings, outbox>>

\* When nothing but a call and the workspace changes, only the call's own new
\* state has to be looked at.
LEMMA StillKeeps ==
  ASSUME IndInv, Still, NEW p \in Procs, NEW new \in ProcStates,
         eventLive' \in BOOLEAN, picks' \in SUBSET Listings,
         procs' = [procs EXCEPT ![p] = new],
         ProcOK(new, revisions, bookings)
  PROVE  IndInv'
<1>1. TypeOK'
  BY DEF IndInv, TypeOK, Still
<1>2. Grows(revisions, revisions', bookings, bookings')
  BY DEF Grows, Still
<1>3. procs'[p] = new /\ \A q \in Procs \ {p} : procs'[q] = procs[q]
  BY DEF IndInv, TypeOK
<1>4. \A q \in Procs : ProcOK(procs'[q], revisions', bookings')
  BY <1>2, <1>3, OtherCalls DEF IndInv, Still
<1> QED
  BY <1>1, <1>4 DEF IndInv, Still, MailNamesRevision, Filed

\* ... in particular when the call returns.
LEMMA ReturnKeeps ==
  ASSUME IndInv, Still, UNCHANGED <<eventLive, picks>>,
         NEW p \in Procs, Return(p)
  PROVE  IndInv'
<1>1. procs' = [procs EXCEPT ![p] = Idle]
  BY DEF Return
<1> QED BY <1>1, IdleOK, StillKeeps DEF IndInv, TypeOK

LEMMA StartKeeps ==
  ASSUME IndInv, NEW p \in Procs, Start(p)
  PROVE  IndInv'
<1>1. PICK op \in AllOps, c \in Comments,
           to \in Statuses \cup BookingStatuses \cup {"keep"} :
        /\ Accept(p, op, c, to)
        /\ op = "review" => to \in {"in_review", "changes_requested", "approved", "rejected"}
        /\ op = "desk" => to \in BookingStatuses \cup {"keep"}
  <2>1. CASE StartGet(p)
    BY <2>1, BlankAssumption DEF StartGet, AllOps, Statuses
  <2>2. CASE StartUpdate(p)
    BY <2>2 DEF StartUpdate, AllOps, Statuses
  <2>3. CASE StartSubmit(p)
    BY <2>3, BlankAssumption DEF StartSubmit, AllOps, Statuses
  <2>4. CASE StartCancel(p)
    BY <2>4, BlankAssumption DEF StartCancel, AllOps, Statuses
  <2>5. CASE StartReview(p)
    BY <2>5, BlankAssumption DEF StartReview, AllOps, Statuses
  <2>6. CASE StartDesk(p)
    BY <2>6, BlankAssumption DEF StartDesk, AllOps
  <2> QED BY <2>1, <2>2, <2>3, <2>4, <2>5, <2>6 DEF Start
<1> DEFINE new == [Idle EXCEPT !.op = op, !.pc = "load", !.comment = c, !.to = to]
<1>2. new \in ProcStates
  BY IdleOK DEF ProcStates, Idle
<1>3. ProcOK(new, revisions, bookings)
  BY <1>1, IdleOK DEF Idle, ProcOK, Inputs, Knows
<1>4. procs' = [procs EXCEPT ![p] = new] /\ Still /\ UNCHANGED <<eventLive, picks>>
  BY <1>1 DEF Accept, Still
<1> QED BY <1>2, <1>3, <1>4, StillKeeps DEF IndInv, TypeOK

\* Taking the row in hand: what a call goes on with is what it may go on with.
Taken(proc, row) ==
  [proc EXCEPT !.pc = AfterLoad(proc.op, row), !.row = row,
               !.resent = row.status = "changes_requested"]

LEMMA TakenOK ==
  ASSUME NEW proc \in ProcStates, NEW row \in Rows, NEW revs, NEW books,
         proc.op \in {"get", "update", "submit", "cancel"},
         row.status # "none",
         Backed(row, revs, books), Inputs(proc),
         AfterLoad(proc.op, row) # "idle"
  PROVE  Taken(proc, row) \in ProcStates /\ ProcOK(Taken(proc, row), revs, books)
<1> DEFINE new == Taken(proc, row)
<1>1. AfterLoad(proc.op, row) \in {"save", "event"}
  BY DEF AfterLoad
<1>2. new \in ProcStates
  BY <1>1 DEF ProcStates, Taken
<1>3. new.op = proc.op /\ new.row = row /\ new.to = proc.to
      /\ new.pc = AfterLoad(proc.op, row)
  BY DEF ProcStates, Taken
<1> HIDE DEF new
<1>4. Inputs(new)
  BY <1>1, <1>3 DEF Inputs
<1>5. Knows(new)
  BY <1>1, <1>3 DEF Knows, AfterLoad
<1>6. ProcOK(new, revs, books)
  BY <1>1, <1>3, <1>4, <1>5 DEF ProcOK
<1> QED BY <1>2, <1>6 DEF new

LEMMA LoadKeeps ==
  ASSUME IndInv, NEW p \in Procs, Load(p)
  PROVE  IndInv'
<1>0. /\ Still /\ UNCHANGED <<eventLive, picks>>
      /\ procs[p] \in ProcStates /\ ProcOK(procs[p], revisions, bookings)
      /\ req \in Rows /\ eventLive' \in BOOLEAN /\ picks' \in SUBSET Listings
  BY DEF Load, Still, IndInv, TypeOK
<1>1. CASE req.status = "none"
  <2> DEFINE new == [procs[p] EXCEPT !.pc = "create"]
  <2>1. procs' = [procs EXCEPT ![p] = new]
    BY <1>1 DEF Load, Goto
  <2>2. new \in ProcStates
    BY <1>0 DEF ProcStates
  <2>3. ProcOK(new, revisions, bookings)
    BY <1>0 DEF Load, ProcOK, Inputs, Knows, ProcStates
  <2> QED BY <1>0, <2>1, <2>2, <2>3, StillKeeps
<1>2. CASE req.status # "none" /\ AfterLoad(procs[p].op, req) = "idle"
  BY <1>0, <1>2, ReturnKeeps DEF Load, Hold, Return
<1>3. CASE req.status # "none" /\ AfterLoad(procs[p].op, req) # "idle"
  <2>1. procs' = [procs EXCEPT ![p] = Taken(procs[p], req)]
    BY <1>3 DEF Load, Hold, Taken
  <2>2. /\ Taken(procs[p], req) \in ProcStates
        /\ ProcOK(Taken(procs[p], req), revisions, bookings)
    <3>1. procs[p].op \in {"get", "update", "submit", "cancel"}
      BY DEF Load
    <3>2. Backed(req, revisions, bookings) /\ Inputs(procs[p])
      BY <1>0 DEF IndInv, ProcOK
    <3> QED BY <1>0, <1>3, <3>1, <3>2, TakenOK
  <2> QED BY <1>0, <2>1, <2>2, StillKeeps
<1> QED BY <1>1, <1>2, <1>3

\* Steps inside Submit before its transaction, and the managers' load.
LEMMA ReadKeeps ==
  ASSUME IndInv, NEW p \in Procs,
         ReadEvent(p) \/ BuildSnapshot(p) \/ LoadForReview(p) \/ LoadBooking(p)
  PROVE  IndInv'
<1>0. /\ procs[p] \in ProcStates /\ ProcOK(procs[p], revisions, bookings)
      /\ req \in Rows /\ Backed(req, revisions, bookings)
      /\ picks \in SUBSET Listings
      /\ eventLive' \in BOOLEAN /\ picks' \in SUBSET Listings
      /\ Still /\ UNCHANGED <<eventLive, picks>>
  BY DEF IndInv, TypeOK, ReadEvent, BuildSnapshot, LoadForReview, LoadBooking, Still
<1>1. CASE Return(p)
  BY <1>0, <1>1, ReturnKeeps
<1>2. CASE ReadEvent(p) /\ eventLive
  <2> DEFINE new == [procs[p] EXCEPT !.pc = "snapshot"]
  <2>1. procs' = [procs EXCEPT ![p] = new]
    BY <1>2 DEF ReadEvent, Goto
  <2>2. new \in ProcStates
    BY <1>0 DEF ProcStates
  <2>3. ProcOK(new, revisions, bookings)
    BY <1>0, <1>2 DEF ReadEvent, At, ProcOK, Inputs, Knows, ProcStates
  <2> QED BY <1>0, <2>1, <2>2, <2>3, StillKeeps
<1>3. CASE BuildSnapshot(p)
  <2> DEFINE new == [procs[p] EXCEPT !.picks = picks, !.pc = "commit"]
  <2>1. procs' = [procs EXCEPT ![p] = new]
    BY <1>3 DEF BuildSnapshot
  <2>2. new \in ProcStates
    BY <1>0 DEF ProcStates
  <2>3. ProcOK(new, revisions, bookings)
    BY <1>0, <1>3 DEF BuildSnapshot, At, ProcOK, Inputs, Knows, ProcStates
  <2> QED BY <1>0, <2>1, <2>2, <2>3, StillKeeps
<1>4. CASE LoadForReview(p) /\ ~Return(p)
  <2> DEFINE new == [procs[p] EXCEPT !.row = req, !.pc = "save"]
  <2>1. procs' = [procs EXCEPT ![p] = new] /\ CanTransition(req.status, procs[p].to)
    BY <1>4 DEF LoadForReview
  <2>2. new \in ProcStates
    BY <1>0 DEF ProcStates
  <2>3. ProcOK(new, revisions, bookings)
    BY <1>0, <1>4, <2>1 DEF LoadForReview, At, ProcOK, Inputs, Knows, ProcStates
  <2> QED BY <1>0, <2>1, <2>2, <2>3, StillKeeps
<1>5. CASE LoadBooking(p) /\ ~Return(p)
  <2>1. PICK id \in DOMAIN bookings :
          procs' = [procs EXCEPT ![p].copy = bookings[id], ![p].id = id, ![p].pc = "save"]
    BY <1>5 DEF LoadBooking
  <2> DEFINE new == [procs[p] EXCEPT !.copy = bookings[id], !.id = id, !.pc = "save"]
  <2>2. procs' = [procs EXCEPT ![p] = new]
    BY <2>1
  <2>3. bookings[id] \in Bookings /\ id \in Nat
    BY DEF IndInv, TypeOK
  <2>4. new \in ProcStates
    BY <1>0, <2>3 DEF ProcStates
  <2>5. ProcOK(new, revisions, bookings)
    BY <1>0, <1>5 DEF LoadBooking, At, ProcOK, Inputs, Knows, ProcStates
  <2> QED BY <1>0, <2>2, <2>4, <2>5, StillKeeps
<1> QED BY <1>1, <1>2, <1>3, <1>4, <1>5 DEF ReadEvent

-----------------------------------------------------------------------------
\* Steps that write

\* A step that stores a backed row, and perhaps adds rows to the other tables.
LEMMA WriteKeeps ==
  ASSUME IndInv, NEW p \in Procs, NEW new \in ProcStates,
         UNCHANGED <<eventLive, picks, outbox>>,
         procs' = [procs EXCEPT ![p] = new],
         req' \in Rows, revisions' \in Seq(Revisions), bookings' \in Seq(Bookings),
         Grows(revisions, revisions', bookings, bookings'),
         Backed(req', revisions', bookings'),
         GaplessIn(revisions'),
         ProcOK(new, revisions', bookings')
  PROVE  IndInv'
<1>1. TypeOK'
  BY DEF IndInv, TypeOK
<1>2. procs'[p] = new /\ \A q \in Procs \ {p} : procs'[q] = procs[q]
  BY DEF IndInv, TypeOK
<1>3. \A q \in Procs : ProcOK(procs'[q], revisions', bookings')
  BY <1>2, OtherCalls DEF IndInv
<1>4. MailNamesRevision'
  BY DEF IndInv, MailNamesRevision, Filed, Grows
<1> QED BY <1>1, <1>3, <1>4 DEF IndInv

\* A step that stores a backed row and leaves the other tables alone.
LEMMA SaveKeeps ==
  ASSUME IndInv, NEW p \in Procs, NEW new \in ProcStates,
         UNCHANGED <<eventLive, picks, revisions, bookings, outbox>>,
         procs' = [procs EXCEPT ![p] = new],
         req' \in Rows, Backed(req', revisions, bookings),
         ProcOK(new, revisions, bookings)
  PROVE  IndInv'
<1>1. Grows(revisions, revisions', bookings, bookings')
  BY DEF Grows
<1>2. /\ revisions' \in Seq(Revisions) /\ bookings' \in Seq(Bookings)
      /\ GaplessIn(revisions')
  BY DEF IndInv, TypeOK
<1> QED BY <1>1, <1>2, WriteKeeps

LEMMA CreateKeeps ==
  ASSUME IndInv, NEW p \in Procs, Create(p)
  PROVE  IndInv'
<1>0. /\ procs[p] \in ProcStates /\ ProcOK(procs[p], revisions, bookings)
      /\ procs[p].op \in {"get", "update", "submit", "cancel"}
      /\ UNCHANGED <<eventLive, picks, revisions, bookings, outbox>>
  BY DEF Create, IndInv, TypeOK, ProcOK, Inputs
<1>1. CASE req.status = "none"
  <2>1. req' \in Rows /\ req'.status # "none"
    BY <1>1, BlankAssumption DEF Create, NoRow, Rows, Statuses
  <2>2. Backed(req', revisions, bookings)
    BY <1>1 DEF Create, NoRow, Backed
  <2>3. CASE AfterLoad(procs[p].op, req') = "idle"
    <3>1. procs' = [procs EXCEPT ![p] = Idle]
      BY <1>1, <2>3 DEF Create, Hold
    <3> QED BY <1>0, <2>1, <2>2, <3>1, IdleOK, SaveKeeps
  <2>4. CASE AfterLoad(procs[p].op, req') # "idle"
    <3>1. procs' = [procs EXCEPT ![p] = Taken(procs[p], req')]
      BY <1>1, <2>4 DEF Create, Hold, Taken
    <3>2. /\ Taken(procs[p], req') \in ProcStates
          /\ ProcOK(Taken(procs[p], req'), revisions, bookings)
      BY <1>0, <2>1, <2>2, <2>4, TakenOK DEF ProcOK
    <3> QED BY <1>0, <2>1, <2>2, <3>1, <3>2, SaveKeeps
  <2> QED BY <2>3, <2>4
<1>2. CASE req.status # "none"
  BY <1>0, <1>2, ReturnKeeps DEF Create, Still
<1> QED BY <1>1, <1>2

LEMMA SaveCommentKeeps ==
  ASSUME IndInv, NEW p \in Procs, SaveComment(p)
  PROVE  IndInv'
<1>0. /\ procs[p] \in ProcStates /\ ProcOK(procs[p], revisions, bookings)
      /\ UNCHANGED <<eventLive, picks, revisions, bookings, outbox>>
      /\ procs' = [procs EXCEPT ![p] = Idle]
  BY DEF SaveComment, Return, IndInv, TypeOK
<1>1. req' \in Rows
  BY <1>0 DEF SaveComment, ProcStates, Rows
<1>2. Backed(req', revisions, bookings)
  BY <1>0 DEF SaveComment, At, ProcOK, Knows, Editable, Backed, ProcStates, Rows
<1> QED BY <1>0, <1>1, <1>2, IdleOK, SaveKeeps

LEMMA SaveCancelKeeps ==
  ASSUME IndInv, NEW p \in Procs, SaveCancel(p)
  PROVE  IndInv'
<1> DEFINE new == [procs[p] EXCEPT !.pc = "announce"]
<1>0. /\ procs[p] \in ProcStates /\ ProcOK(procs[p], revisions, bookings)
      /\ UNCHANGED <<eventLive, picks, revisions, bookings, outbox>>
      /\ procs' = [procs EXCEPT ![p] = new]
  BY DEF SaveCancel, Goto, IndInv, TypeOK
<1>1. req' \in Rows
  BY <1>0 DEF SaveCancel, ProcStates, Rows, Statuses
<1>2. Backed(req', revisions, bookings)
  BY <1>0 DEF SaveCancel, At, ProcOK, Backed, ProcStates, Rows
<1>3. new \in ProcStates
  BY <1>0 DEF ProcStates
<1>4. ProcOK(new, revisions, bookings)
  BY <1>0 DEF SaveCancel, At, ProcOK, Inputs, Knows, ProcStates
<1> QED BY <1>0, <1>1, <1>2, <1>3, <1>4, SaveKeeps

LEMMA SaveReviewKeeps ==
  ASSUME IndInv, NEW p \in Procs, SaveReview(p)
  PROVE  IndInv'
<1> DEFINE pc == IF procs[p].to \in {"approved", "rejected"} /\ procs[p].row.booking # 0
                 THEN "mirror" ELSE "announce"
           new == [procs[p] EXCEPT !.pc = pc]
<1>0. /\ procs[p] \in ProcStates /\ ProcOK(procs[p], revisions, bookings)
      /\ UNCHANGED <<eventLive, picks, revisions, bookings, outbox>>
      /\ procs' = [procs EXCEPT ![p] = new]
      /\ procs[p].op = "review" /\ procs[p].pc = "save"
  BY DEF SaveReview, At, Goto, IndInv, TypeOK
<1>1. req' \in Rows
  BY <1>0 DEF SaveReview, ProcStates, Rows, Statuses, ProcOK, Inputs
<1>2. Backed(req', revisions, bookings)
  BY <1>0 DEF SaveReview, ProcOK, Inputs, Knows, CanTransition, Backed, ProcStates, Rows
<1>3. new \in ProcStates
  BY <1>0 DEF ProcStates
<1>4. ProcOK(new, revisions, bookings)
  BY <1>0 DEF ProcOK, Inputs, Knows, ProcStates
<1> QED BY <1>0, <1>1, <1>2, <1>3, <1>4, SaveKeeps

LEMMA SubmittedRow ==
  ASSUME NEW row \in Rows, NEW newId \in Nat
  PROVE  /\ Submitted(row, newId) \in Rows
         /\ Submitted(row, newId).status = "submitted"
         /\ Submitted(row, newId).latest = row.latest + 1
         /\ Submitted(row, newId).comment = row.comment
         /\ Submitted(row, newId).booking = IF row.booking = 0 THEN newId ELSE row.booking
<1> DEFINE b == IF row.booking = 0 THEN newId ELSE row.booking
           n == row.latest + 1
<1>1. b \in Nat /\ n \in Nat
  BY DEF Rows
<1>2. Submitted(row, newId) =
        [row EXCEPT !.status = "submitted", !.latest = n, !.booking = b]
  BY DEF Submitted
<1> HIDE DEF b, n
<1>3. /\ Submitted(row, newId) \in Rows
      /\ Submitted(row, newId).status = "submitted"
      /\ Submitted(row, newId).latest = n
      /\ Submitted(row, newId).comment = row.comment
      /\ Submitted(row, newId).booking = b
  BY <1>1, <1>2 DEF Rows, Statuses
<1> QED BY <1>3 DEF b, n

\* Submit's transaction: the new row is backed by the revision and, the first
\* time, by the booking inserted with it; its number follows a filed one.
LEMMA CommitKeeps ==
  ASSUME IndInv, NEW p \in Procs, Commit(p)
  PROVE  IndInv'
<1> DEFINE row == procs[p].row
           nrow == Submitted(row, Len(bookings) + 1)
           snap == [number |-> nrow.latest, picks |-> procs[p].picks,
                    comment |-> row.comment]
           book == [status |-> "new", items |-> snap.picks]
           new == [procs[p] EXCEPT !.row = nrow, !.pc = "announce"]
<1>0. /\ procs[p] \in ProcStates /\ ProcOK(procs[p], revisions, bookings)
      /\ procs[p].op = "submit" /\ procs[p].pc = "commit"
      /\ revisions \in Seq(Revisions) /\ bookings \in Seq(Bookings)
      /\ UNCHANGED <<eventLive, picks, outbox>>
      /\ revisions' = Append(revisions, snap)
      /\ bookings' = IF row.booking = 0 THEN Append(bookings, book) ELSE bookings
      /\ req' = nrow
      /\ procs' = [procs EXCEPT ![p] = new]
  BY DEF Commit, At, IndInv, TypeOK
<1>1. row \in Rows /\ Backed(row, revisions, bookings) /\ Editable(row.status)
  BY <1>0 DEF ProcStates, ProcOK, Knows
<1>2. /\ nrow \in Rows /\ nrow.status = "submitted" /\ nrow.latest = row.latest + 1
      /\ nrow.comment = row.comment
      /\ nrow.booking = IF row.booking = 0 THEN Len(bookings) + 1 ELSE row.booking
  <2>1. Len(bookings) + 1 \in Nat
    BY <1>0
  <2> QED BY <1>1, <2>1, SubmittedRow
<1>3. snap \in Revisions /\ book \in Bookings
  BY <1>0, <1>1, <1>2 DEF ProcStates, Revisions, Rows, Bookings, BookingStatuses
<1>4. revisions' \in Seq(Revisions) /\ bookings' \in Seq(Bookings)
  BY <1>0, <1>3
<1>5. /\ Len(revisions) + 1 \in DOMAIN revisions'
      /\ revisions'[Len(revisions) + 1] = snap
      /\ DOMAIN revisions' = DOMAIN revisions \cup {Len(revisions) + 1}
      /\ \A i \in DOMAIN revisions : revisions'[i] = revisions[i]
  BY <1>0, <1>3
<1>6. /\ row.booking = 0 => /\ Len(bookings) + 1 \in DOMAIN bookings'
                            /\ bookings'[Len(bookings) + 1] = book
      /\ \A i \in DOMAIN bookings : i \in DOMAIN bookings' /\ bookings'[i] = bookings[i]
  BY <1>0, <1>3
<1>7. Grows(revisions, revisions', bookings, bookings')
  BY <1>5, <1>6 DEF Grows
<1> HIDE DEF nrow, book, new, row
<1>8. Backed(row, revisions', bookings')
  BY <1>1, <1>7, GrowthKeepsRow
<1>9. \E i \in DOMAIN revisions' : /\ revisions'[i].number = nrow.latest
                                   /\ revisions'[i].comment = nrow.comment
                                   /\ revisions'[i].picks = procs[p].picks
  BY <1>2, <1>5
<1>10. nrow.booking # 0 =>
         /\ nrow.booking \in DOMAIN bookings'
         /\ \E i \in DOMAIN revisions' : /\ revisions'[i].number = 1
                                         /\ revisions'[i].picks = bookings'[nrow.booking].items
  <2>1. CASE row.booking = 0
    <3>1. row.latest = 0
      BY <1>1, <2>1 DEF Backed
    <3>2. bookings'[nrow.booking].items = procs[p].picks
      BY <1>2, <1>6, <2>1 DEF book
    <3> QED BY <1>2, <1>6, <1>9, <2>1, <3>1, <3>2
  <2>2. CASE row.booking # 0
    BY <1>2, <1>8, <2>2 DEF Backed
  <2> QED BY <2>1, <2>2
<1>11. nrow.latest # 0 /\ nrow.booking # 0
  BY <1>0, <1>1, <1>2 DEF Rows
<1>12. Backed(nrow, revisions', bookings')
  BY <1>2, <1>9, <1>10, <1>11 DEF Backed, FiledIn
<1>13. GaplessIn(revisions')
  <2> SUFFICES ASSUME NEW i \in DOMAIN revisions', NEW n \in 1..revisions'[i].number
               PROVE  FiledIn(n, revisions')
    BY DEF GaplessIn
  <2>1. CASE i \in DOMAIN revisions
    BY <1>5, <2>1 DEF IndInv, GaplessIn, FiledIn
  <2>2. CASE i = Len(revisions) + 1
    <3>1. n \in 1..(row.latest + 1) /\ row.latest \in Nat
      BY <1>1, <1>2, <1>5, <2>2 DEF Rows
    <3>2. CASE n = row.latest + 1
      BY <1>2, <1>5, <3>2 DEF FiledIn
    <3>3. CASE n \in 1..row.latest
      <4>1. FiledIn(row.latest, revisions)
        BY <1>1, <3>1, <3>3 DEF Backed
      <4>2. FiledIn(n, revisions)
        BY <3>3, <4>1 DEF IndInv, GaplessIn, FiledIn
      <4> QED BY <1>5, <4>2 DEF FiledIn
    <3> QED BY <3>1, <3>2, <3>3
  <2> QED BY <1>5, <2>1, <2>2
<1>14. new \in ProcStates
  BY <1>0, <1>2 DEF new, ProcStates
<1>15. new.op = "submit" /\ new.pc = "announce" /\ new.row = nrow /\ new.to = procs[p].to
  BY <1>0 DEF new, ProcStates
<1>16. ProcOK(new, revisions', bookings')
  BY <1>11, <1>12, <1>15 DEF ProcOK, Inputs, Knows
<1> QED BY <1>0, <1>2, <1>4, <1>7, <1>12, <1>13, <1>14, <1>16, WriteKeeps

\* Steps that write a label or a copy back into the booking: its items stay.
LEMMA LabelKeeps ==
  ASSUME IndInv, NEW p \in Procs, NEW new \in ProcStates,
         UNCHANGED <<eventLive, picks, req, revisions, outbox>>,
         procs' = [procs EXCEPT ![p] = new],
         NEW id \in DOMAIN bookings, NEW book \in Bookings,
         book.items = bookings[id].items,
         bookings' = [bookings EXCEPT ![id] = book],
         ProcOK(new, revisions, bookings)
  PROVE  IndInv'
<1>1. bookings' \in Seq(Bookings) /\ revisions' \in Seq(Revisions) /\ req' \in Rows
  BY DEF IndInv, TypeOK
<1>2. Grows(revisions, revisions', bookings, bookings')
  BY DEF Grows, IndInv, TypeOK
<1>3. Backed(req', revisions', bookings') /\ GaplessIn(revisions')
  BY <1>2, GrowthKeepsRow DEF IndInv
<1>4. ProcOK(new, revisions', bookings')
  BY <1>2, GrowthKeepsProc
<1> QED BY <1>1, <1>2, <1>3, <1>4, WriteKeeps

LEMMA MirrorKeeps ==
  ASSUME IndInv, NEW p \in Procs, Mirror(p) \/ MirrorFails(p)
  PROVE  IndInv'
<1> DEFINE new == [procs[p] EXCEPT !.pc = "announce"]
           id == procs[p].row.booking
           book == [bookings[id] EXCEPT !.status = MirrorStatus(procs[p].to)]
<1>0. /\ procs[p] \in ProcStates /\ ProcOK(procs[p], revisions, bookings)
      /\ procs[p].pc = "mirror"
      /\ bookings \in Seq(Bookings)
      /\ UNCHANGED <<eventLive, picks, req, revisions, outbox>>
      /\ procs' = [procs EXCEPT ![p] = new]
      /\ eventLive' \in BOOLEAN /\ picks' \in SUBSET Listings
  BY DEF Mirror, MirrorFails, Goto, IndInv, TypeOK
<1>1. new \in ProcStates
  BY <1>0 DEF ProcStates
<1>2. ProcOK(new, revisions, bookings)
  BY <1>0 DEF ProcOK, Inputs, Knows, ProcStates
<1>3. id \in DOMAIN bookings /\ bookings[id] \in Bookings
  BY <1>0 DEF ProcOK, Knows, Backed
<1>4. book \in Bookings /\ book.items = bookings[id].items
  BY <1>3 DEF Bookings, BookingStatuses, MirrorStatus
<1>5. CASE bookings' = bookings
  BY <1>0, <1>1, <1>2, <1>5, StillKeeps DEF Still
<1>6. CASE bookings' # bookings
  <2>1. bookings' = [bookings EXCEPT ![id] = book]
    BY <1>3, <1>6 DEF Mirror, MirrorFails
  <2> HIDE DEF new, id, book
  <2> QED BY <1>0, <1>1, <1>2, <1>3, <1>4, <2>1, LabelKeeps
<1> QED BY <1>5, <1>6

LEMMA SaveBookingKeeps ==
  ASSUME IndInv, NEW p \in Procs, SaveBooking(p)
  PROVE  IndInv'
<1> DEFINE id == procs[p].id
           book == IF procs[p].to = "keep" THEN procs[p].copy
                   ELSE [procs[p].copy EXCEPT !.status = procs[p].to]
<1>0. /\ procs[p] \in ProcStates /\ ProcOK(procs[p], revisions, bookings)
      /\ procs[p].op = "desk" /\ procs[p].pc = "save"
      /\ UNCHANGED <<eventLive, picks, req, revisions, outbox>>
      /\ procs' = [procs EXCEPT ![p] = Idle]
      /\ bookings' = [bookings EXCEPT ![id] = book]
  BY DEF SaveBooking, At, Return, IndInv, TypeOK
<1>1. id \in DOMAIN bookings /\ procs[p].copy.items = bookings[id].items
  BY <1>0 DEF ProcOK
<1>2. book \in Bookings /\ book.items = bookings[id].items
  BY <1>0, <1>1 DEF ProcStates, Bookings, ProcOK, Inputs
<1> HIDE DEF id, book
<1> QED BY <1>0, <1>1, <1>2, IdleOK, LabelKeeps

LEMMA AnnounceKeeps ==
  ASSUME IndInv, NEW p \in Procs, Announce(p)
  PROVE  IndInv'
<1> DEFINE mail == Announcement(procs[p])
<1>0. /\ procs[p] \in ProcStates /\ ProcOK(procs[p], revisions, bookings)
      /\ procs[p].pc = "announce"
      /\ outbox \in Seq(Mail)
      /\ UNCHANGED <<eventLive, picks, req, revisions, bookings>>
      /\ procs' = [procs EXCEPT ![p] = Idle]
      /\ outbox' = Append(outbox, mail) \/ outbox' = outbox
  BY DEF Announce, Return, IndInv, TypeOK
<1>1. procs[p].op \in {"submit", "cancel", "review"}
  BY <1>0 DEF ProcOK, Inputs
<1>2. mail \in Mail
  BY <1>0, <1>1 DEF Announcement, Mail, Statuses, ProcStates, Rows, ProcOK, Inputs
<1>3. mail.kind # "withdrawn" => Filed(mail.revision)
  BY <1>0, <1>1
     DEF Announcement, Filed, FiledIn, ProcOK, Inputs, Knows, Backed, CanTransition,
         Terminal, ProcStates, Rows, Statuses
<1>4. TypeOK'
  BY <1>0, <1>2, IdleOK DEF IndInv, TypeOK
<1>5. MailNamesRevision'
  <2>1. \A i \in DOMAIN outbox' : \/ i \in DOMAIN outbox /\ outbox'[i] = outbox[i]
                                  \/ outbox'[i] = mail
    BY <1>0, <1>2
  <2> QED BY <1>0, <1>3, <2>1 DEF IndInv, MailNamesRevision, Filed
<1>6. \A q \in Procs : ProcOK(procs'[q], revisions', bookings')
  <2>1. procs'[p] = Idle /\ \A q \in Procs \ {p} : procs'[q] = procs[q]
    BY <1>0 DEF IndInv, TypeOK
  <2>2. Grows(revisions, revisions', bookings, bookings')
    BY <1>0 DEF Grows
  <2> QED BY <2>1, <2>2, IdleOK, OtherCalls DEF IndInv
<1> QED BY <1>0, <1>4, <1>5, <1>6 DEF IndInv

LEMMA RemoveBookingKeeps ==
  ASSUME IndInv, RemoveBooking
  PROVE  IndInv'
<1>1. PICK id \in DOMAIN bookings :
        bookings' = [bookings EXCEPT ![id].status = "deleted"]
  BY DEF RemoveBooking
<1>2. UNCHANGED <<eventLive, picks, req, revisions, outbox, procs>>
  BY DEF RemoveBooking
<1>3. bookings' \in Seq(Bookings)
  <2> DEFINE book == [bookings[id] EXCEPT !.status = "deleted"]
  <2>1. bookings \in Seq(Bookings) /\ bookings[id] \in Bookings
    BY DEF IndInv, TypeOK
  <2>2. book \in Bookings
    BY <2>1 DEF Bookings
  <2>3. bookings' = [bookings EXCEPT ![id] = book]
    BY <1>1
  <2> HIDE DEF book
  <2> QED BY <2>1, <2>2, <2>3
<1>4. Grows(revisions, revisions', bookings, bookings')
  BY <1>1, <1>2 DEF Grows, IndInv, TypeOK, Bookings
<1>5. Backed(req, revisions', bookings')
  BY <1>4, GrowthKeepsRow DEF IndInv
<1>6. \A q \in Procs : ProcOK(procs[q], revisions', bookings')
  BY <1>4, GrowthKeepsProc DEF IndInv
<1> QED
  BY <1>2, <1>3, <1>5, <1>6 DEF IndInv, TypeOK, MailNamesRevision, Filed

\* The workspace: no call and no table of the request is touched.
LEMMA WorkspaceKeeps ==
  ASSUME IndInv, Reselect \/ DeleteEvent \/ UNCHANGED vars
  PROVE  IndInv'
<1>1. UNCHANGED <<req, revisions, bookings, outbox, procs>>
      /\ eventLive' \in BOOLEAN /\ picks' \in SUBSET Listings
  BY DEF IndInv, TypeOK, Reselect, DeleteEvent, vars
<1> QED BY <1>1 DEF IndInv, TypeOK, MailNamesRevision, Filed

LEMMA AbortKeeps ==
  ASSUME IndInv, NEW p \in Procs, Abort(p)
  PROVE  IndInv'
BY ReturnKeeps DEF Abort, Still

-----------------------------------------------------------------------------
LEMMA InitInv == Init => IndInv
<1> SUFFICES ASSUME Init PROVE IndInv
  OBVIOUS
<1>1. TypeOK
  BY IdleOK, BlankAssumption DEF Init, TypeOK, Rows, NoRow, Statuses
<1>2. Backed(req, revisions, bookings)
  BY DEF Init, NoRow, Backed
<1>3. \A p \in Procs : ProcOK(procs[p], revisions, bookings)
  BY IdleOK DEF Init
<1> QED BY <1>1, <1>2, <1>3 DEF Init, IndInv, GaplessIn, MailNamesRevision

LEMMA NextInv == IndInv /\ [Next]_vars => IndInv'
<1> SUFFICES ASSUME IndInv, [Next]_vars PROVE IndInv'
  OBVIOUS
<1>1. ASSUME NEW p \in Procs, Start(p) PROVE IndInv'
  BY <1>1, StartKeeps
<1>2. ASSUME NEW p \in Procs, Step(p) PROVE IndInv'
  BY <1>2, LoadKeeps, CreateKeeps, SaveCommentKeeps, ReadKeeps, CommitKeeps,
     SaveCancelKeeps, SaveReviewKeeps, MirrorKeeps, AnnounceKeeps, SaveBookingKeeps
     DEF Step
<1>3. ASSUME NEW p \in Procs, Abort(p) PROVE IndInv'
  BY <1>3, AbortKeeps
<1>4. CASE RemoveBooking
  BY <1>4, RemoveBookingKeeps
<1>5. CASE Reselect \/ DeleteEvent \/ UNCHANGED vars
  BY <1>5, WorkspaceKeeps
<1> QED BY <1>1, <1>2, <1>3, <1>4, <1>5 DEF Next

LEMMA Invariance == Spec => []IndInv
<1> QED BY InitInv, NextInv, PTL DEF Spec

\* The tables hold rows of their types and every call is in a state the
\* handlers have, for any number of calls in flight.
THEOREM TypeCorrect == Spec => []TypeOK
<1>1. IndInv => TypeOK
  BY DEF IndInv
<1> QED BY <1>1, Invariance, PTL

\* Whatever calls overlap, fail or are cut off, a request in review or decided
\* shows the comment that its revision froze.
THEOREM CommentFrozen == Spec => []FrozenComment
<1>1. IndInv => FrozenComment
  BY DEF IndInv, Backed, FrozenComment
<1> QED BY <1>1, Invariance, PTL

\* ... its booking holds the items of a first revision, even while the booking
\* desk saves stale copies of it or the row is deleted and inserted again.
THEOREM BookingFollowsRevision == Spec => []BookingIsFirstRevision
<1>1. IndInv => BookingIsFirstRevision
  BY DEF IndInv, Backed, BookingIsFirstRevision
<1> QED BY <1>1, Invariance, PTL

\* ... revision numbers have no gap, although stale Saves may turn them back.
THEOREM NumbersGapless == Spec => []RevisionsGapless
<1>1. IndInv => RevisionsGapless
  BY DEF IndInv, GaplessIn, FiledIn, RevisionsGapless, Filed
<1> QED BY <1>1, Invariance, PTL

\* ... and whatever is announced of a request that reached the managers names a
\* revision that was filed.
THEOREM MailBacked == Spec => []MailNamesRevision
<1>1. IndInv => MailNamesRevision
  BY DEF IndInv
<1> QED BY <1>1, Invariance, PTL

-----------------------------------------------------------------------------
(* One call at a time, EventRequest implements RequestLifecycle and a        *)
(* decision is the last word, for any listings, comments and bounds, with    *)
(* failures and crashes between the statements of a call. (Two calls at a    *)
(* time do not: the run cancel_race.)                                        *)
(*                                                                           *)
(* The argument: with no other call in flight the private copy of a call is  *)
(* the row itself, so the guard a call passed when it loaded the row still   *)
(* holds when it saves it; and the tables hold what the row counts.          *)

OneAtATime == \A p, q \in Procs : p = q

\* the status a call leaves the request in
Meant(proc) == CASE proc.op = "submit" -> "submitted"
                 [] proc.op = "cancel" -> "cancelled"
                 [] proc.op = "review" -> proc.to

\* the call has the row itself in hand; filed: how many revisions there are
Fresh(proc, row, filed) ==
  /\ proc.pc = "create" => row.status = "none"
  /\ proc.op # "desk" /\ proc.pc \in {"save", "event", "snapshot", "commit"} =>
       proc.row = row
  /\ proc.pc \in {"mirror", "announce"} => row.status = Meant(proc)
  /\ proc.op = "submit" /\ proc.pc \in {"load", "create", "event", "snapshot", "commit"} =>
       filed < MaxRevisions

\* the tables hold what the row counts
Tallied ==
  /\ Len(revisions) = req.latest
  /\ Len(bookings) = IF req.latest = 0 THEN 0 ELSE 1

\* once a decision is announced the request is decided, and nothing is left to say
Closed ==
  (\E i \in DOMAIN outbox : outbox[i].kind \in Decisions) =>
    /\ req.status \in Decisions
    /\ \A p \in Procs : procs[p].pc \notin {"mirror", "announce"}

SerialInv ==
  /\ Tallied
  /\ \A p \in Procs : Fresh(procs[p], req, Len(revisions))
  /\ DecisionIsLastWord
  /\ Closed

Invs == IndInv /\ SerialInv

\* what a step of the model is to the abstract specification
Maps == Lifecycle!Next \/ UNCHANGED Lifecycle!vars

-----------------------------------------------------------------------------
LEMMA IdleFresh == \A row, filed : Fresh(Idle, row, filed)
BY DEF Fresh, Idle

\* The only call moves, and the tables and the row stay.
LEMMA QuietStep ==
  ASSUME OneAtATime, Invs, NEW p \in Procs, NEW new,
         procs' = [procs EXCEPT ![p] = new],
         UNCHANGED <<req, revisions, outbox>>, Len(bookings') = Len(bookings),
         Fresh(new, req, Len(revisions)),
         new.pc \in {"mirror", "announce"} => procs[p].pc \in {"mirror", "announce"}
  PROVE  SerialInv' /\ Maps
<1>1. \A q \in Procs : q = p /\ procs'[q] = new
  BY DEF OneAtATime, Invs, IndInv, TypeOK
<1>2. Maps
  BY DEF Maps, Lifecycle!vars
<1>3. Tallied'
  BY DEF Invs, SerialInv, Tallied
<1>4. \A q \in Procs : Fresh(procs'[q], req', Len(revisions'))
  BY <1>1
<1>5. DecisionIsLastWord'
  BY DEF Invs, SerialInv, DecisionIsLastWord
<1>6. Closed'
  BY <1>1 DEF Invs, SerialInv, Closed
<1> QED BY <1>2, <1>3, <1>4, <1>5, <1>6 DEF SerialInv

\* ... in particular when it ends.
LEMMA ReturnStep ==
  ASSUME OneAtATime, Invs, NEW p \in Procs, Return(p),
         UNCHANGED <<req, revisions, outbox>>, Len(bookings') = Len(bookings)
  PROVE  SerialInv' /\ Maps
<1>1. procs' = [procs EXCEPT ![p] = Idle]
  BY DEF Return
<1>2. Idle.pc = "idle"
  BY DEF Idle
<1> HIDE DEF Idle
<1> QED BY <1>1, <1>2, IdleFresh, QuietStep

\* No call moves.
LEMMA StillStep ==
  ASSUME Invs, UNCHANGED <<req, revisions, outbox, procs>>, Len(bookings') = Len(bookings)
  PROVE  SerialInv' /\ Maps
BY DEF Invs, SerialInv, Tallied, DecisionIsLastWord, Closed, Maps, Lifecycle!vars

\* The only call stores the row: it is not decided before, and nothing has been
\* said of a decision.
LEMMA SaveStep ==
  ASSUME OneAtATime, Invs, NEW p \in Procs, NEW new,
         procs' = [procs EXCEPT ![p] = new],
         outbox' = outbox, req.status \notin Decisions,
         Tallied', Fresh(new, req', Len(revisions'))
  PROVE  SerialInv'
<1>1. \A q \in Procs : q = p /\ procs'[q] = new
  BY DEF OneAtATime, Invs, IndInv, TypeOK
<1>2. \A q \in Procs : Fresh(procs'[q], req', Len(revisions'))
  BY <1>1
<1>3. DecisionIsLastWord' /\ Closed'
  BY DEF Invs, SerialInv, DecisionIsLastWord, Closed
<1> QED BY <1>2, <1>3 DEF SerialInv

-----------------------------------------------------------------------------
LEMMA StartStep ==
  ASSUME OneAtATime, Invs, NEW p \in Procs, Start(p)
  PROVE  SerialInv' /\ Maps
<1>1. PICK op \in AllOps, c \in Comments,
           to \in Statuses \cup BookingStatuses \cup {"keep"} :
        Accept(p, op, c, to) /\ (op = "submit" => RoomToFile)
  <2>1. CASE StartGet(p)
    BY <2>1, BlankAssumption DEF StartGet, AllOps, Statuses
  <2>2. CASE StartUpdate(p)
    BY <2>2 DEF StartUpdate, AllOps, Statuses
  <2>3. CASE StartSubmit(p)
    BY <2>3, BlankAssumption DEF StartSubmit, AllOps, Statuses
  <2>4. CASE StartCancel(p)
    BY <2>4, BlankAssumption DEF StartCancel, AllOps, Statuses
  <2>5. CASE StartReview(p)
    BY <2>5, BlankAssumption DEF StartReview, AllOps, Statuses
  <2>6. CASE StartDesk(p)
    BY <2>6, BlankAssumption DEF StartDesk, AllOps
  <2> QED BY <2>1, <2>2, <2>3, <2>4, <2>5, <2>6 DEF Start
<1> DEFINE new == [Idle EXCEPT !.op = op, !.pc = "load", !.comment = c, !.to = to]
<1>2. new.pc = "load" /\ new.op = op
  BY IdleOK DEF ProcStates, Idle
<1>3. /\ procs' = [procs EXCEPT ![p] = new]
      /\ UNCHANGED <<req, revisions, outbox, bookings>>
  BY <1>1 DEF Accept
<1> HIDE DEF new
<1>4. Fresh(new, req, Len(revisions))
  BY <1>1, <1>2 DEF Fresh, RoomToFile
<1> QED BY <1>2, <1>3, <1>4, QuietStep

\* A call that takes the row in hand has the row.
LEMMA TakenFresh ==
  ASSUME NEW proc \in ProcStates, NEW row, NEW filed,
         proc.pc \in {"load", "create"},
         proc.op \in {"get", "update", "submit", "cancel"},
         AfterLoad(proc.op, row) # "idle",
         proc.op = "submit" => filed < MaxRevisions
  PROVE  /\ Taken(proc, row).pc \notin {"mirror", "announce"}
         /\ Fresh(Taken(proc, row), row, filed)
<1>1. /\ Taken(proc, row).pc = AfterLoad(proc.op, row)
      /\ Taken(proc, row).op = proc.op /\ Taken(proc, row).row = row
  BY DEF Taken, ProcStates
<1>2. AfterLoad(proc.op, row) \in {"save", "event"}
  BY DEF AfterLoad
<1> QED BY <1>1, <1>2 DEF Fresh

LEMMA LoadStep ==
  ASSUME OneAtATime, Invs, NEW p \in Procs, Load(p)
  PROVE  SerialInv' /\ Maps
<1>0. /\ procs[p] \in ProcStates /\ Fresh(procs[p], req, Len(revisions))
      /\ UNCHANGED <<req, revisions, outbox, bookings>>
      /\ procs[p].op \in {"get", "update", "submit", "cancel"} /\ procs[p].pc = "load"
  BY DEF Load, Invs, IndInv, TypeOK, SerialInv
<1>1. CASE req.status = "none"
  <2> DEFINE new == [procs[p] EXCEPT !.pc = "create"]
  <2>1. procs' = [procs EXCEPT ![p] = new]
    BY <1>1 DEF Load, Goto
  <2>2. new.pc = "create" /\ new.op = procs[p].op
    BY <1>0 DEF ProcStates
  <2> HIDE DEF new
  <2>3. Fresh(new, req, Len(revisions))
    BY <1>0, <1>1, <2>2 DEF Fresh
  <2> QED BY <1>0, <2>1, <2>2, <2>3, QuietStep
<1>2. CASE req.status # "none" /\ AfterLoad(procs[p].op, req) = "idle"
  BY <1>0, <1>2, ReturnStep DEF Load, Hold, Return
<1>3. CASE req.status # "none" /\ AfterLoad(procs[p].op, req) # "idle"
  <2>1. procs' = [procs EXCEPT ![p] = Taken(procs[p], req)]
    BY <1>3 DEF Load, Hold, Taken
  <2>2. /\ Taken(procs[p], req).pc \notin {"mirror", "announce"}
        /\ Fresh(Taken(procs[p], req), req, Len(revisions))
    <3>1. procs[p].op = "submit" => Len(revisions) < MaxRevisions
      BY <1>0 DEF Fresh
    <3> QED BY <1>0, <1>3, <3>1, TakenFresh
  <2> QED BY <1>0, <2>1, <2>2, QuietStep
<1> QED BY <1>1, <1>2, <1>3

LEMMA CreateStep ==
  ASSUME OneAtATime, Invs, NEW p \in Procs, Create(p)
  PROVE  SerialInv' /\ Maps
<1>0. /\ procs[p] \in ProcStates /\ Fresh(procs[p], req, Len(revisions))
      /\ UNCHANGED <<revisions, outbox, bookings>>
      /\ procs[p].op \in {"get", "update", "submit", "cancel"} /\ procs[p].pc = "create"
  BY DEF Create, Invs, IndInv, TypeOK, SerialInv, ProcOK, Inputs
<1>1. req.status = "none"
  BY <1>0 DEF Fresh
<1>2. req' = [NoRow EXCEPT !.status = "draft"] /\ Hold(p, req')
  BY <1>1 DEF Create
<1>3. req'.status = "draft" /\ req'.latest = 0 /\ req.latest = 0
  BY <1>1, <1>2 DEF NoRow, Invs, IndInv, Backed
<1>4. Tallied'
  BY <1>0, <1>3 DEF Tallied, Invs, SerialInv
<1>5. Maps
  BY <1>0, <1>1, <1>3 DEF Maps, Lifecycle!Next, Lifecycle!Open
<1>6. req.status \notin Decisions
  BY <1>1 DEF Decisions
<1>7. CASE AfterLoad(procs[p].op, req') = "idle"
  <2>1. procs' = [procs EXCEPT ![p] = Idle]
    BY <1>2, <1>7 DEF Hold
  <2> QED BY <1>0, <1>4, <1>5, <1>6, <2>1, IdleFresh, SaveStep
<1>8. CASE AfterLoad(procs[p].op, req') # "idle"
  <2>1. procs' = [procs EXCEPT ![p] = Taken(procs[p], req')]
    BY <1>2, <1>8 DEF Hold, Taken
  <2>2. Fresh(Taken(procs[p], req'), req', Len(revisions'))
    BY <1>0, <1>8, TakenFresh DEF Fresh
  <2> QED BY <1>0, <1>4, <1>5, <1>6, <2>1, <2>2, SaveStep
<1> QED BY <1>7, <1>8

LEMMA SaveCommentStep ==
  ASSUME OneAtATime, Invs, NEW p \in Procs, SaveComment(p)
  PROVE  SerialInv' /\ Maps
<1>0. /\ procs[p] \in ProcStates /\ procs[p].op = "update" /\ procs[p].pc = "save"
      /\ UNCHANGED <<revisions, outbox, bookings>>
      /\ procs' = [procs EXCEPT ![p] = Idle]
      /\ req' = [req EXCEPT !.comment = procs[p].comment]
      /\ Editable(req.status) /\ req \in Rows
  BY DEF SaveComment, At, Return, Invs, IndInv, TypeOK, SerialInv, Fresh, ProcOK, Knows
<1>1. req'.status = req.status /\ req'.latest = req.latest
  BY <1>0 DEF Rows
<1>2. Tallied' /\ Maps
  BY <1>0, <1>1 DEF Tallied, Invs, SerialInv, Maps, Lifecycle!vars
<1> QED BY <1>0, <1>2, IdleFresh, SaveStep DEF Editable, Decisions

LEMMA CommitStep ==
  ASSUME OneAtATime, Invs, NEW p \in Procs, Commit(p)
  PROVE  SerialInv' /\ Maps
<1> DEFINE row == procs[p].row
           nrow == Submitted(row, Len(bookings) + 1)
           snap == [number |-> nrow.latest, picks |-> procs[p].picks,
                    comment |-> row.comment]
           book == [status |-> "new", items |-> snap.picks]
           new == [procs[p] EXCEPT !.row = nrow, !.pc = "announce"]
<1>0. /\ procs[p] \in ProcStates /\ ProcOK(procs[p], revisions, bookings)
      /\ procs[p].op = "submit" /\ procs[p].pc = "commit"
      /\ revisions \in Seq(Revisions) /\ bookings \in Seq(Bookings)
      /\ outbox' = outbox
      /\ revisions' = Append(revisions, snap)
      /\ bookings' = IF row.booking = 0 THEN Append(bookings, book) ELSE bookings
      /\ req' = nrow
      /\ procs' = [procs EXCEPT ![p] = new]
  BY DEF Commit, At, Invs, IndInv, TypeOK
<1>1. row = req /\ req \in Rows /\ Editable(req.status) /\ Len(revisions) < MaxRevisions
  BY <1>0 DEF Invs, IndInv, TypeOK, SerialInv, Fresh, ProcOK, Knows
<1>2. /\ nrow.status = "submitted" /\ nrow.latest = req.latest + 1
      /\ req.latest \in Nat /\ (req.booking = 0 <=> req.latest = 0)
  <2>1. Len(bookings) + 1 \in Nat
    BY <1>0
  <2> QED BY <1>1, <2>1, SubmittedRow DEF Rows, Invs, IndInv, Backed
<1>3. snap \in Revisions /\ book \in Bookings
  BY <1>0, <1>1, <1>2 DEF ProcStates, Revisions, Rows, Bookings, BookingStatuses
<1>4. new.pc = "announce" /\ new.op = "submit"
  BY <1>0 DEF ProcStates
<1> HIDE DEF nrow, snap, book, new
<1>5. /\ Len(revisions') = Len(revisions) + 1
      /\ Len(bookings') = IF req.latest = 0 THEN Len(bookings) + 1 ELSE Len(bookings)
  BY <1>0, <1>1, <1>2, <1>3, AppendProperties
<1>6. Len(revisions') = req.latest + 1 /\ Len(bookings') = 1 /\ req.latest < MaxRevisions
  BY <1>1, <1>2, <1>5 DEF Invs, SerialInv, Tallied
<1>7. Tallied'
  <2>1. req'.latest = req.latest + 1 /\ req'.latest # 0
    BY <1>0, <1>2
  <2> QED BY <1>6, <2>1 DEF Tallied
<1>8. Maps
  <2>1. Lifecycle!Submit
    BY <1>0, <1>1, <1>2, <1>6 DEF Lifecycle!Submit, Lifecycle!Editable, Editable, Invs,
       SerialInv, Tallied
  <2> QED BY <2>1 DEF Maps, Lifecycle!Next
<1>9. Fresh(new, req', Len(revisions'))
  BY <1>0, <1>2, <1>4 DEF Fresh, Meant
<1> QED BY <1>0, <1>1, <1>7, <1>8, <1>9, SaveStep DEF Editable, Decisions

LEMMA SaveCancelStep ==
  ASSUME OneAtATime, Invs, NEW p \in Procs, SaveCancel(p)
  PROVE  SerialInv' /\ Maps
<1> DEFINE new == [procs[p] EXCEPT !.pc = "announce"]
<1>0. /\ procs[p] \in ProcStates /\ procs[p].op = "cancel" /\ procs[p].pc = "save"
      /\ UNCHANGED <<revisions, outbox, bookings>>
      /\ procs' = [procs EXCEPT ![p] = new]
      /\ req' = [req EXCEPT !.status = "cancelled"]
      /\ req.status # "none" /\ ~ Terminal(req.status) /\ req \in Rows
  BY DEF SaveCancel, At, Goto, Invs, IndInv, TypeOK, SerialInv, Fresh, ProcOK, Knows
<1>1. req'.status = "cancelled" /\ req'.latest = req.latest
  BY <1>0 DEF Rows
<1>2. new.pc = "announce" /\ new.op = "cancel"
  BY <1>0 DEF ProcStates
<1> HIDE DEF new
<1>3. Tallied'
  BY <1>0, <1>1 DEF Tallied, Invs, SerialInv
<1>4. Maps
  <2>1. Lifecycle!Cancel
    BY <1>0, <1>1 DEF Lifecycle!Cancel, Lifecycle!Decided, Terminal
  <2> QED BY <2>1 DEF Maps, Lifecycle!Next
<1>5. Fresh(new, req', Len(revisions'))
  BY <1>1, <1>2 DEF Fresh, Meant
<1> QED BY <1>0, <1>3, <1>4, <1>5, SaveStep DEF Terminal, Decisions

LEMMA SaveReviewStep ==
  ASSUME OneAtATime, Invs, NEW p \in Procs, SaveReview(p)
  PROVE  SerialInv' /\ Maps
<1> DEFINE to == procs[p].to
           pc == IF to \in {"approved", "rejected"} /\ procs[p].row.booking # 0
                 THEN "mirror" ELSE "announce"
           new == [procs[p] EXCEPT !.pc = pc]
<1>0. /\ procs[p] \in ProcStates /\ procs[p].op = "review" /\ procs[p].pc = "save"
      /\ UNCHANGED <<revisions, outbox, bookings>>
      /\ procs' = [procs EXCEPT ![p] = new]
      /\ req' = [req EXCEPT !.status = to]
      /\ CanTransition(req.status, to) /\ req \in Rows
      /\ to \in {"in_review", "changes_requested", "approved", "rejected"}
  BY DEF SaveReview, At, Goto, Invs, IndInv, TypeOK, SerialInv, Fresh, ProcOK, Knows, Inputs
<1>1. req'.status = to /\ req'.latest = req.latest
  BY <1>0 DEF Rows
<1>2. pc \in {"mirror", "announce"}
  OBVIOUS
<1>3. new.pc = pc /\ new.op = "review" /\ new.to = to
  BY <1>0 DEF ProcStates
<1> HIDE DEF new, pc
<1>4. Tallied'
  BY <1>0, <1>1 DEF Tallied, Invs, SerialInv
<1>5. Maps
  <2>1. Lifecycle!CanTransition(req.status, to)
    BY <1>0 DEF Lifecycle!CanTransition, CanTransition
  <2>2. Lifecycle!Review(to)
    BY <1>0, <1>1, <2>1 DEF Lifecycle!Review
  <2> QED BY <1>0, <2>2 DEF Maps, Lifecycle!Next, Lifecycle!Statuses
<1>6. Fresh(new, req', Len(revisions'))
  BY <1>0, <1>1, <1>2, <1>3 DEF Fresh, Meant
<1> QED BY <1>0, <1>4, <1>5, <1>6, SaveStep DEF CanTransition, Decisions

\* Steps that read, or write a booking's label.
LEMMA ReadStep ==
  ASSUME OneAtATime, Invs, NEW p \in Procs,
         ReadEvent(p) \/ BuildSnapshot(p) \/ LoadForReview(p) \/ LoadBooking(p)
  PROVE  SerialInv' /\ Maps
<1>0. /\ procs[p] \in ProcStates /\ Fresh(procs[p], req, Len(revisions))
      /\ UNCHANGED <<req, revisions, outbox, bookings>>
  BY DEF ReadEvent, BuildSnapshot, LoadForReview, LoadBooking, Invs, IndInv, TypeOK, SerialInv
<1>1. CASE Return(p)
  BY <1>0, <1>1, ReturnStep
<1>2. CASE ReadEvent(p) /\ ~ Return(p)
  <2> DEFINE new == [procs[p] EXCEPT !.pc = "snapshot"]
  <2>1. procs' = [procs EXCEPT ![p] = new]
    BY <1>2 DEF ReadEvent, Goto
  <2>2. new.pc = "snapshot" /\ new.op = procs[p].op /\ new.row = procs[p].row
    BY <1>0 DEF ProcStates
  <2>3. procs[p].op = "submit" /\ procs[p].pc = "event"
    BY <1>2 DEF ReadEvent, At
  <2> HIDE DEF new
  <2>4. Fresh(new, req, Len(revisions))
    BY <1>0, <2>2, <2>3 DEF Fresh
  <2> QED BY <1>0, <2>1, <2>2, <2>4, QuietStep
<1>3. CASE BuildSnapshot(p)
  <2> DEFINE new == [procs[p] EXCEPT !.picks = picks, !.pc = "commit"]
  <2>1. procs' = [procs EXCEPT ![p] = new]
    BY <1>3 DEF BuildSnapshot
  <2>2. new.pc = "commit" /\ new.op = procs[p].op /\ new.row = procs[p].row
    BY <1>0 DEF ProcStates
  <2>3. procs[p].op = "submit" /\ procs[p].pc = "snapshot"
    BY <1>3 DEF BuildSnapshot, At
  <2> HIDE DEF new
  <2>4. Fresh(new, req, Len(revisions))
    BY <1>0, <2>2, <2>3 DEF Fresh
  <2> QED BY <1>0, <2>1, <2>2, <2>4, QuietStep
<1>4. CASE LoadForReview(p) /\ ~ Return(p)
  <2> DEFINE new == [procs[p] EXCEPT !.row = req, !.pc = "save"]
  <2>1. procs' = [procs EXCEPT ![p] = new]
    BY <1>4 DEF LoadForReview
  <2>2. new.pc = "save" /\ new.op = procs[p].op /\ new.row = req
    BY <1>0 DEF ProcStates
  <2> HIDE DEF new
  <2>3. Fresh(new, req, Len(revisions))
    BY <2>2 DEF Fresh
  <2> QED BY <1>0, <2>1, <2>2, <2>3, QuietStep
<1>5. CASE LoadBooking(p) /\ ~ Return(p)
  <2>1. PICK id \in DOMAIN bookings :
          procs' = [procs EXCEPT ![p].copy = bookings[id], ![p].id = id, ![p].pc = "save"]
    BY <1>5 DEF LoadBooking
  <2> DEFINE new == [procs[p] EXCEPT !.copy = bookings[id], !.id = id, !.pc = "save"]
  <2>2. procs' = [procs EXCEPT ![p] = new]
    BY <2>1
  <2>3. new.pc = "save" /\ new.op = "desk"
    BY <1>0, <1>5 DEF ProcStates, LoadBooking, At
  <2> HIDE DEF new
  <2>4. Fresh(new, req, Len(revisions))
    BY <2>3 DEF Fresh
  <2> QED BY <1>0, <2>2, <2>3, <2>4, QuietStep
<1> QED BY <1>1, <1>2, <1>3, <1>4, <1>5

\* A booking written over is still one booking.
LEMMA BookingWritten ==
  ASSUME Invs, NEW id \in DOMAIN bookings, NEW book \in Bookings,
         bookings' = [bookings EXCEPT ![id] = book]
  PROVE  Len(bookings') = Len(bookings)
<1>1. bookings \in Seq(Bookings) /\ id \in 1..Len(bookings)
  BY LenProperties DEF Invs, IndInv, TypeOK
<1> QED BY <1>1, ExceptSeq

LEMMA LabelStep ==
  ASSUME OneAtATime, Invs, NEW p \in Procs, Mirror(p) \/ MirrorFails(p) \/ SaveBooking(p)
  PROVE  SerialInv' /\ Maps
<1>0. /\ procs[p] \in ProcStates /\ ProcOK(procs[p], revisions, bookings)
      /\ Fresh(procs[p], req, Len(revisions))
      /\ UNCHANGED <<req, revisions, outbox>>
      /\ bookings \in Seq(Bookings)
  BY DEF Mirror, MirrorFails, SaveBooking, Invs, IndInv, TypeOK, SerialInv
<1>1. Len(bookings') = Len(bookings)
  <2>1. CASE bookings' = bookings
    BY <2>1
  <2>2. CASE Mirror(p) /\ bookings' # bookings
    <3> DEFINE id == procs[p].row.booking
               book == [bookings[id] EXCEPT !.status = MirrorStatus(procs[p].to)]
    <3>1. id \in DOMAIN bookings
      BY <1>0, <2>2 DEF Mirror, ProcOK, Knows, Backed
    <3>2. bookings[id] \in Bookings
      BY <1>0, <3>1
    <3>3. book \in Bookings
      BY <3>2 DEF Bookings, BookingStatuses, MirrorStatus
    <3>4. bookings' = [bookings EXCEPT ![id] = book]
      BY <2>2, <3>1 DEF Mirror
    <3> HIDE DEF id, book
    <3> QED BY <3>1, <3>3, <3>4, BookingWritten
  <2>3. CASE SaveBooking(p)
    <3> DEFINE id == procs[p].id
               book == IF procs[p].to = "keep" THEN procs[p].copy
                       ELSE [procs[p].copy EXCEPT !.status = procs[p].to]
    <3>1. id \in DOMAIN bookings
      BY <1>0, <2>3 DEF SaveBooking, At, ProcOK
    <3>2. book \in Bookings
      BY <1>0, <2>3 DEF SaveBooking, At, ProcStates, Bookings, ProcOK, Inputs
    <3>3. bookings' = [bookings EXCEPT ![id] = book]
      BY <2>3 DEF SaveBooking
    <3> HIDE DEF id, book
    <3> QED BY <3>1, <3>2, <3>3, BookingWritten
  <2> QED BY <2>1, <2>2, <2>3 DEF MirrorFails
<1>2. CASE Return(p)
  BY <1>0, <1>1, <1>2, ReturnStep
<1>3. CASE Goto(p, "announce") /\ procs[p].pc = "mirror"
  <2> DEFINE new == [procs[p] EXCEPT !.pc = "announce"]
  <2>1. procs' = [procs EXCEPT ![p] = new]
    BY <1>3 DEF Goto
  <2>2. new.pc = "announce" /\ new.op = procs[p].op /\ new.to = procs[p].to
    BY <1>0 DEF ProcStates
  <2> HIDE DEF new
  <2>3. Fresh(new, req, Len(revisions))
    BY <1>0, <1>3, <2>2 DEF Fresh, Meant
  <2> QED BY <1>0, <1>1, <1>3, <2>1, <2>2, <2>3, QuietStep
<1> QED BY <1>2, <1>3 DEF Mirror, MirrorFails, SaveBooking

\* What is announced of a decision is announced of a decided request, last.
LEMMA AnnounceStep ==
  ASSUME OneAtATime, Invs, NEW p \in Procs, Announce(p)
  PROVE  SerialInv' /\ Maps
<1> DEFINE mail == Announcement(procs[p])
<1>0. /\ procs[p] \in ProcStates /\ procs[p].pc = "announce"
      /\ procs[p].op \in {"submit", "cancel", "review"}
      /\ req.status = Meant(procs[p])
      /\ UNCHANGED <<req, revisions, bookings>>
      /\ procs' = [procs EXCEPT ![p] = Idle]
      /\ outbox' = Append(outbox, mail) \/ outbox' = outbox
  BY DEF Announce, Return, Invs, IndInv, TypeOK, SerialInv, Fresh, ProcOK, Inputs
<1>1. mail.kind \in Decisions => req.status \in Decisions
  BY <1>0 DEF Announcement, Meant, Decisions
<1>2. \A i \in DOMAIN outbox : outbox[i].kind \notin Decisions
  BY <1>0 DEF Invs, SerialInv, Closed
<1> HIDE DEF mail
<1>3. \A i \in DOMAIN outbox' : \/ (i \in DOMAIN outbox /\ outbox'[i] = outbox[i])
                               \/ (i = Len(outbox') /\ outbox'[i] = mail)
  <2>1. outbox \in Seq(Mail) /\ Len(outbox) \in Nat /\ DOMAIN outbox = 1..Len(outbox)
    BY LenProperties DEF Invs, IndInv, TypeOK
  <2>2. CASE outbox' = Append(outbox, mail)
    <3>1. /\ Len(outbox') = Len(outbox) + 1 /\ DOMAIN outbox' = 1..(Len(outbox) + 1)
          /\ \A i \in 1..Len(outbox) : outbox'[i] = outbox[i]
          /\ outbox'[Len(outbox) + 1] = mail
      BY <2>1, <2>2, AppendProperties
    <3> QED BY <2>1, <3>1
  <2> QED BY <1>0, <2>2
<1>4. DecisionIsLastWord'
  BY <1>2, <1>3 DEF DecisionIsLastWord
<1>5. \A q \in Procs : procs'[q] = Idle
  BY <1>0 DEF OneAtATime, Invs, IndInv, TypeOK
<1>6. Closed'
  <2>1. Idle.pc = "idle"
    BY DEF Idle
  <2> QED BY <1>0, <1>1, <1>2, <1>3, <1>5, <2>1 DEF Closed
<1>7. \A q \in Procs : Fresh(procs'[q], req', Len(revisions'))
  BY <1>5, IdleFresh
<1>8. Tallied' /\ Maps
  BY <1>0 DEF Invs, SerialInv, Tallied, Maps, Lifecycle!vars
<1> QED BY <1>4, <1>6, <1>7, <1>8 DEF SerialInv

\* The steps of the others.
LEMMA WorldStep ==
  ASSUME Invs, RemoveBooking \/ Reselect \/ DeleteEvent \/ UNCHANGED vars
  PROVE  SerialInv' /\ Maps
<1>1. UNCHANGED <<req, revisions, outbox, procs>>
  BY DEF RemoveBooking, Reselect, DeleteEvent, vars
<1>2. CASE RemoveBooking
  <2>1. PICK id \in DOMAIN bookings : bookings' = [bookings EXCEPT ![id].status = "deleted"]
    BY <1>2 DEF RemoveBooking
  <2> DEFINE book == [bookings[id] EXCEPT !.status = "deleted"]
  <2>2. bookings[id] \in Bookings
    BY DEF Invs, IndInv, TypeOK
  <2>3. book \in Bookings
    BY <2>2 DEF Bookings
  <2>4. bookings' = [bookings EXCEPT ![id] = book]
    BY <2>1
  <2> HIDE DEF book
  <2> QED BY <1>1, <2>3, <2>4, BookingWritten, StillStep
<1>3. CASE Reselect \/ DeleteEvent \/ UNCHANGED vars
  BY <1>1, <1>3, StillStep DEF Reselect, DeleteEvent, vars
<1> QED BY <1>2, <1>3

-----------------------------------------------------------------------------
LEMMA SerialInit == Init => Invs
<1> SUFFICES ASSUME Init
             PROVE  SerialInv
  BY InitInv DEF Invs
<1> QED BY IdleFresh DEF Init, SerialInv, Tallied, DecisionIsLastWord, Closed, NoRow

LEMMA SerialNext ==
  ASSUME OneAtATime, Invs, [Next]_vars
  PROVE  Invs' /\ Maps
<1>1. ASSUME NEW p \in Procs, Abort(p)
      PROVE  SerialInv' /\ Maps
  BY <1>1, ReturnStep DEF Abort
<1>2. ASSUME NEW p \in Procs, Step(p)
      PROVE  SerialInv' /\ Maps
  BY <1>2, LoadStep, CreateStep, SaveCommentStep, ReadStep, CommitStep, SaveCancelStep,
     SaveReviewStep, LabelStep, AnnounceStep DEF Step
<1>3. SerialInv' /\ Maps
  BY <1>1, <1>2, StartStep, WorldStep DEF Next
<1> QED BY <1>3, NextInv DEF Invs

\* requestTransitions has no way out of a decision and Submit and Cancel refuse
\* one, so nothing about the request follows the announcement of a decision;
\* for calls that do not overlap, whatever they fail at.
THEOREM LastWord ==
  ASSUME OneAtATime
  PROVE  Spec => []DecisionIsLastWord
<1>1. Invs /\ [Next]_vars => Invs'
  BY SerialNext
<1>2. Invs => DecisionIsLastWord
  BY DEF Invs, SerialInv
<1> QED BY <1>1, <1>2, SerialInit, PTL DEF Spec

\* Calls that do not overlap implement the life cycle of the request: every
\* step of a handler, cut off or not, is one of its transitions or none.
THEOREM Refinement ==
  ASSUME OneAtATime
  PROVE  Spec => ImplementsLifecycle
<1>1. Init => Lifecycle!Init
  BY DEF Init, Lifecycle!Init, NoRow
<1>2. Invs /\ [Next]_vars => Invs' /\ [Lifecycle!Next]_(Lifecycle!vars)
  BY SerialNext DEF Maps
<1> QED BY <1>1, <1>2, SerialInit, PTL DEF Spec, ImplementsLifecycle, Lifecycle!Spec
=============================================================================
