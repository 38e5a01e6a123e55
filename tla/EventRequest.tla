---------------------------- MODULE EventRequest ----------------------------
(* The review request of one event ("Заявка"): handlers/event_request_-      *)
(* handler.go over the tables event_requests, event_request_revisions and    *)
(* bookings, with the two booking handlers that write the same booking row   *)
(* and the deletion of the event.                                            *)
(*                                                                           *)
(* Every API call is a goroutine of the server. It holds a private copy of   *)
(* the row it loaded, and each database statement (or transaction) is one    *)
(* step, so the calls of the owner, the members and the managers interleave  *)
(* between statements exactly where the code lets them. The rows carry no    *)
(* version and gorm's Save writes every column of the private copy.          *)
EXTENDS Naturals, Sequences

CONSTANTS
  Procs,          \* goroutines serving API calls; one element = calls never overlap
  Listings,       \* what can be selected for the event
  Comments,       \* texts of the organizer's comment
  Blank,          \* the empty comment
  Ops,            \* the calls that are made, a subset of AllOps
  Faults,         \* TRUE: a database call may fail, the server may crash
  MaxRevisions,   \* bound: no submission is accepted once so many are filed
  MaxMail         \* bound: nor a call that announces, after so many announcements

AllOps == {"get", "update", "submit", "cancel", "review", "desk", "remove"}

ASSUME BlankAssumption == Blank \in Comments
ASSUME OpsAssumption == Ops \subseteq AllOps
ASSUME FaultsAssumption == Faults \in BOOLEAN

VARIABLES
  eventLive,   \* the events row, and its members, exist
  picks,       \* the candidates now selected in the workspace
  req,         \* the event_requests row, status "none" while there is none
  revisions,   \* event_request_revisions, in insertion order
  bookings,    \* bookings of this event; a booking's id is its index
  outbox,      \* what a call told others of, in order: notifications and mail
  procs        \* what each goroutine is doing

vars == <<eventLive, picks, req, revisions, bookings, outbox, procs>>

Statuses == {"none", "draft", "submitted", "in_review", "changes_requested",
             "approved", "rejected", "cancelled"}

BookingStatuses == {"new", "contacted", "confirmed", "cancelled"}

\* booking = 0 is the nil BookingID
Rows == [status : Statuses, latest : Nat, booking : Nat, comment : Comments]

\* mutant: the column starts at one
NoRowFromOne == [status |-> "none", latest |-> 1, booking |-> 0, comment |-> Blank]

NoRow == [status |-> "none", latest |-> 0, booking |-> 0, comment |-> Blank]

Revisions == [number : Nat, picks : SUBSET Listings, comment : Comments]

\* A deleted booking keeps its index and its last contents
Bookings == [status : BookingStatuses \cup {"deleted"}, items : SUBSET Listings]

NoBooking == [status |-> "deleted", items |-> {}]

Mail == [kind : Statuses \cup {"withdrawn", "resubmitted"}, revision : Nat]

\* op: the call; pc: the next statement; row, copy: private copies of the
\* request and booking rows; id: the booking in hand; picks: the snapshot;
\* comment, to: the client's input; resent: wasChangesRequested
ProcStates ==
  [op : AllOps \cup {"none"},
   pc : {"idle", "load", "create", "save", "event", "snapshot", "commit",
         "mirror", "announce"},
   row : Rows, copy : Bookings, id : Nat, picks : SUBSET Listings,
   comment : Comments, to : Statuses \cup BookingStatuses \cup {"keep"},
   resent : BOOLEAN]

Idle == [op |-> "none", pc |-> "idle", row |-> NoRow, copy |-> NoBooking,
         id |-> 0, picks |-> {}, comment |-> Blank, to |-> "none",
         resent |-> FALSE]

Editable(s) == s \in {"draft", "changes_requested"}

\* mutant: a decision can be turned round
CanTransitionBack(from, to) ==
  \/ /\ from \in {"submitted", "approved"}
     /\ to \in {"in_review", "changes_requested", "approved", "rejected"}
  \/ /\ from = "in_review"
     /\ to \in {"changes_requested", "approved", "rejected"}

CanTransition(from, to) ==
  \/ /\ from = "submitted"
     /\ to \in {"in_review", "changes_requested", "approved", "rejected"}
  \/ /\ from = "in_review"
     /\ to \in {"changes_requested", "approved", "rejected"}

\* mutant: an approved request can still be cancelled
TerminalButApproved(s) == s \in {"rejected", "cancelled"}

Terminal(s) == s \in {"approved", "rejected", "cancelled"}

Init ==
  /\ eventLive = TRUE
  /\ picks \in SUBSET Listings
  /\ req = NoRow
  /\ revisions = <<>>
  /\ bookings = <<>>
  /\ outbox = <<>>
  /\ procs = [p \in Procs |-> Idle]

-----------------------------------------------------------------------------
\* The steps of a goroutine

At(p, op, pc) == procs[p].op = op /\ procs[p].pc = pc

Goto(p, pc) == procs' = [procs EXCEPT ![p].pc = pc]

\* the answer is on the wire: nothing of the call is left
Return(p) == procs' = [procs EXCEPT ![p] = Idle]

Accept(p, op, comment, to) ==
  /\ procs[p].pc = "idle"
  /\ op \in Ops
  /\ procs' = [procs EXCEPT ![p] = [Idle EXCEPT !.op = op, !.pc = "load",
                                                !.comment = comment, !.to = to]]
  /\ UNCHANGED <<eventLive, picks, req, revisions, bookings, outbox>>

\* bounds on the calls accepted; the ones in flight may go past them
RoomToFile == Len(revisions) < MaxRevisions
RoomToMail == Len(outbox) < MaxMail

\* A member's call passes RequireEventRole, which reads the membership
StartGet(p) == eventLive /\ Accept(p, "get", Blank, "none")

StartUpdate(p) ==
  /\ eventLive
  /\ \E c \in Comments : Accept(p, "update", c, "none")

StartSubmit(p) ==
  /\ eventLive /\ RoomToFile /\ RoomToMail
  /\ Accept(p, "submit", Blank, "none")

StartCancel(p) == eventLive /\ RoomToMail /\ Accept(p, "cancel", Blank, "none")

\* A manager is not a member: the event need not exist any more
StartReview(p) ==
  /\ RoomToMail
  /\ \E to \in {"in_review", "changes_requested", "approved", "rejected"} :
       Accept(p, "review", Blank, to)

StartDesk(p) ==
  \E to \in BookingStatuses \cup {"keep"} : Accept(p, "desk", Blank, to)

\* mutant: Update does not ask whether the request is editable
AfterLoadUnguarded(op, row) ==
  CASE op = "get" -> "idle"
    [] op = "update" -> "save"
    [] op = "submit" -> IF Editable(row.status) THEN "event" ELSE "idle"
    [] op = "cancel" -> IF Terminal(row.status) THEN "idle" ELSE "save"

\* where a call continues once it has the request row in hand
AfterLoad(op, row) ==
  CASE op = "get" -> "idle"
    [] op = "update" -> IF Editable(row.status) THEN "save" ELSE "idle"
    [] op = "submit" -> IF Editable(row.status) THEN "event" ELSE "idle"
    [] op = "cancel" -> IF Terminal(row.status) THEN "idle" ELSE "save"

Hold(p, row) ==
  LET pc == AfterLoad(procs[p].op, row)
  IN procs' = [procs EXCEPT ![p] =
                 IF pc = "idle" THEN Idle
                 ELSE [@ EXCEPT !.pc = pc, !.row = row,
                                !.resent = row.status = "changes_requested"]]

\* getOrCreate: the row is there
Load(p) ==
  /\ procs[p].op \in {"get", "update", "submit", "cancel"}
  /\ procs[p].pc = "load"
  /\ IF req.status = "none" THEN Goto(p, "create") ELSE Hold(p, req)
  /\ UNCHANGED <<eventLive, picks, req, revisions, bookings, outbox>>

\* getOrCreate: it was not; the unique index on event_id refuses a second row
Create(p) ==
  /\ procs[p].pc = "create"
  /\ IF req.status = "none"
     THEN /\ req' = [NoRow EXCEPT !.status = "draft"]
          /\ Hold(p, req')
     ELSE req' = req /\ Return(p)
  /\ UNCHANGED <<eventLive, picks, revisions, bookings, outbox>>

\* Update: Save of the whole private copy with the new comment
SaveComment(p) ==
  /\ At(p, "update", "save")
  /\ req' = [procs[p].row EXCEPT !.comment = procs[p].comment]
  /\ Return(p)
  /\ UNCHANGED <<eventLive, picks, revisions, bookings, outbox>>

\* Submit: the event row, then what is selected (buildSnapshot)
ReadEvent(p) ==
  /\ At(p, "submit", "event")
  /\ IF eventLive THEN Goto(p, "snapshot") ELSE Return(p)
  /\ UNCHANGED <<eventLive, picks, req, revisions, bookings, outbox>>

BuildSnapshot(p) ==
  /\ At(p, "submit", "snapshot")
  /\ procs' = [procs EXCEPT ![p].picks = picks, ![p].pc = "commit"]
  /\ UNCHANGED <<eventLive, picks, req, revisions, bookings, outbox>>

\* the row as submitted, given the id a new booking would get
Submitted(row, newId) ==
  [row EXCEPT !.status = "submitted", !.latest = row.latest + 1,
              !.booking = IF row.booking = 0 THEN newId ELSE row.booking]

\* mutant: the booking is filled from what is selected by now
CommitCurrent(p) ==
  LET row == procs[p].row
      new == Submitted(row, Len(bookings) + 1)
      snap == [number |-> new.latest, picks |-> procs[p].picks, comment |-> row.comment]
  IN /\ At(p, "submit", "commit")
     /\ revisions' = Append(revisions, snap)
     /\ bookings' = IF row.booking = 0
                    THEN Append(bookings, [status |-> "new", items |-> picks])
                    ELSE bookings
     /\ req' = new
     /\ procs' = [procs EXCEPT ![p].row = new, ![p].pc = "announce"]
     /\ UNCHANGED <<eventLive, picks, outbox>>

\* Submit's transaction: revision, first booking, whole request row
Commit(p) ==
  LET row == procs[p].row
      new == Submitted(row, Len(bookings) + 1)
      snap == [number |-> new.latest, picks |-> procs[p].picks, comment |-> row.comment]
  IN /\ At(p, "submit", "commit")
     /\ revisions' = Append(revisions, snap)
     /\ bookings' = IF row.booking = 0
                    THEN Append(bookings, [status |-> "new", items |-> snap.picks])
                    ELSE bookings
     /\ req' = new
     /\ procs' = [procs EXCEPT ![p].row = new, ![p].pc = "announce"]
     /\ UNCHANGED <<eventLive, picks, outbox>>

\* Cancel: Save of the private copy; the booking is not touched
SaveCancel(p) ==
  /\ At(p, "cancel", "save")
  /\ req' = [procs[p].row EXCEPT !.status = "cancelled"]
  /\ Goto(p, "announce")
  /\ UNCHANGED <<eventLive, picks, revisions, bookings, outbox>>

\* AdminUpdateStatus: First, then the transition table
LoadForReview(p) ==
  /\ At(p, "review", "load")
  /\ IF CanTransition(req.status, procs[p].to)
     THEN procs' = [procs EXCEPT ![p].row = req, ![p].pc = "save"]
     ELSE Return(p)
  /\ UNCHANGED <<eventLive, picks, req, revisions, bookings, outbox>>

\* mutant: only an approval is mirrored
SaveReviewForgetsRejected(p) ==
  /\ At(p, "review", "save")
  /\ req' = [procs[p].row EXCEPT !.status = procs[p].to]
  /\ Goto(p, IF procs[p].to = "approved" /\ procs[p].row.booking # 0
             THEN "mirror" ELSE "announce")
  /\ UNCHANGED <<eventLive, picks, revisions, bookings, outbox>>

SaveReview(p) ==
  /\ At(p, "review", "save")
  /\ req' = [procs[p].row EXCEPT !.status = procs[p].to]
  /\ Goto(p, IF procs[p].to \in {"approved", "rejected"} /\ procs[p].row.booking # 0
             THEN "mirror" ELSE "announce")
  /\ UNCHANGED <<eventLive, picks, revisions, bookings, outbox>>

\* mutant: the request's own status is used as the label
MirrorStatusRaw(to) == to

MirrorStatus(to) == IF to = "approved" THEN "confirmed" ELSE "cancelled"

\* mutant: the call answers as soon as the label is written
MirrorReturns(p) ==
  LET id == procs[p].row.booking
  IN /\ procs[p].pc = "mirror"
     /\ bookings' = IF bookings[id].status = "deleted" THEN bookings
                    ELSE [bookings EXCEPT ![id].status = MirrorStatus(procs[p].to)]
     /\ Return(p)
     /\ UNCHANGED <<eventLive, picks, req, revisions, outbox>>

\* Update("status", ...) of the linked booking; no row, nothing to do
Mirror(p) ==
  LET id == procs[p].row.booking
  IN /\ procs[p].pc = "mirror"
     /\ bookings' = IF bookings[id].status = "deleted" THEN bookings
                    ELSE [bookings EXCEPT ![id].status = MirrorStatus(procs[p].to)]
     /\ Goto(p, "announce")
     /\ UNCHANGED <<eventLive, picks, req, revisions, outbox>>

\* the error of that Update is not looked at
MirrorFails(p) ==
  /\ Faults
  /\ procs[p].pc = "mirror"
  /\ Goto(p, "announce")
  /\ UNCHANGED <<eventLive, picks, req, revisions, bookings, outbox>>

\* mutant: admins are told of every cancellation
AnnouncementToAll(proc) ==
  [kind |-> CASE proc.op = "submit" -> IF proc.resent THEN "resubmitted" ELSE "submitted"
              [] proc.op = "cancel" -> "cancelled"
              [] proc.op = "review" -> proc.to,
   revision |-> proc.row.latest]

\* admins hear of a cancellation only when the request had reached them
Announcement(proc) ==
  [kind |-> CASE proc.op = "submit" -> IF proc.resent THEN "resubmitted" ELSE "submitted"
              [] proc.op = "cancel" -> IF proc.row.status = "draft" THEN "withdrawn"
                                       ELSE "cancelled"
              [] proc.op = "review" -> proc.to,
   revision |-> proc.row.latest]

\* Admins are there for what reaches them; members, the organizer among them,
\* only while the event is: deleting it deletes them.
Heard(proc) ==
  \/ eventLive
  \/ proc.op = "submit"
  \/ proc.op = "cancel" /\ proc.row.status # "draft"

Announce(p) ==
  /\ procs[p].pc = "announce"
  /\ outbox' = IF Heard(procs[p]) THEN Append(outbox, Announcement(procs[p])) ELSE outbox
  /\ Return(p)
  /\ UNCHANGED <<eventLive, picks, req, revisions, bookings>>

\* BookingHandler.UpdateStatus: First, then Save of the whole copy, which
\* inserts the row again when it has been deleted in between
LoadBooking(p) ==
  /\ At(p, "desk", "load")
  /\ \/ \E id \in DOMAIN bookings :
          /\ bookings[id].status # "deleted"
          /\ procs' = [procs EXCEPT ![p].copy = bookings[id], ![p].id = id,
                                    ![p].pc = "save"]
     \/ Return(p)
  /\ UNCHANGED <<eventLive, picks, req, revisions, bookings, outbox>>

SaveBooking(p) ==
  LET to == procs[p].to
  IN /\ At(p, "desk", "save")
     /\ bookings' = [bookings EXCEPT ![procs[p].id] =
                       IF to = "keep" THEN procs[p].copy
                       ELSE [procs[p].copy EXCEPT !.status = to]]
     /\ Return(p)
     /\ UNCHANGED <<eventLive, picks, req, revisions, outbox>>

\* BookingHandler.Delete and DeleteMine
RemoveBooking ==
  /\ "remove" \in Ops
  /\ \E id \in DOMAIN bookings :
       /\ bookings[id].status # "deleted"
       /\ bookings' = [bookings EXCEPT ![id].status = "deleted"]
  /\ UNCHANGED <<eventLive, picks, req, revisions, outbox, procs>>

\* A statement returns an error, or the server dies: the call is over and
\* what it had committed stays
Abort(p) ==
  /\ Faults
  /\ procs[p].pc # "idle"
  /\ Return(p)
  /\ UNCHANGED <<eventLive, picks, req, revisions, bookings, outbox>>

-----------------------------------------------------------------------------
\* The rest of the workspace

\* members select and unselect candidates at any time
Reselect ==
  /\ eventLive
  /\ picks' \in SUBSET Listings
  /\ UNCHANGED <<eventLive, req, revisions, bookings, outbox, procs>>

\* EventHandler.Delete: members and candidates go with the event, the request,
\* its revisions and its bookings stay
DeleteEvent ==
  /\ eventLive
  /\ eventLive' = FALSE
  /\ picks' = {}
  /\ UNCHANGED <<req, revisions, bookings, outbox, procs>>

Start(p) ==
  \/ StartGet(p)
  \/ StartUpdate(p)
  \/ StartSubmit(p)
  \/ StartCancel(p)
  \/ StartReview(p)
  \/ StartDesk(p)

Step(p) ==
  \/ Load(p)
  \/ Create(p)
  \/ SaveComment(p)
  \/ ReadEvent(p)
  \/ BuildSnapshot(p)
  \/ Commit(p)
  \/ SaveCancel(p)
  \/ LoadForReview(p)
  \/ SaveReview(p)
  \/ Mirror(p)
  \/ MirrorFails(p)
  \/ Announce(p)
  \/ LoadBooking(p)
  \/ SaveBooking(p)

Next ==
  \/ \E p \in Procs : Start(p) \/ Step(p) \/ Abort(p)
  \/ RemoveBooking
  \/ Reselect
  \/ DeleteEvent

Spec == Init /\ [][Next]_vars

\* Once a call is accepted, the Go scheduler runs its goroutine to the end:
\* no statement waits for another call
FairSpec == Spec /\ \A p \in Procs : WF_vars(Step(p))

-----------------------------------------------------------------------------
\* Properties

TypeOK ==
  /\ eventLive \in BOOLEAN
  /\ picks \in SUBSET Listings
  /\ req \in Rows
  /\ revisions \in Seq(Revisions)
  /\ bookings \in Seq(Bookings)
  /\ outbox \in Seq(Mail)
  /\ procs \in [Procs -> ProcStates]

\* some revision filed under that number
Filed(number) == \E i \in DOMAIN revisions : revisions[i].number = number

\* Whatever calls overlap and whichever of them fail, a request that is with
\* the managers or decided by them shows the comment frozen in the revision it
\* names: no stale Save separates the row from its revision (Submit freezes
\* OrganizerComment, Update may only change it while the request is editable).
FrozenComment ==
  req.status \in {"submitted", "in_review", "approved", "rejected"} =>
    \E i \in DOMAIN revisions : /\ revisions[i].number = req.latest
                                /\ revisions[i].comment = req.comment

\* Under the same overlaps, the booking linked to the request carries the items
\* of a first revision, and a request has a booking exactly when it has been
\* submitted: Submit creates both in one transaction, "later revisions
\* intentionally don't touch it further" (and neither Save loses the link).
BookingIsFirstRevision ==
  /\ (req.booking = 0) <=> (req.latest = 0)
  /\ req.booking # 0 =>
       /\ req.booking \in DOMAIN bookings
       /\ \E i \in DOMAIN revisions : /\ revisions[i].number = 1
                                      /\ revisions[i].picks = bookings[req.booking].items

\* Revision numbers have no gap, even when stale copies turn LatestRevision
\* back and Submit counts on from there.
RevisionsGapless ==
  \A i \in DOMAIN revisions : \A n \in 1..revisions[i].number : Filed(n)

\* Everything announced about a submitted request names a revision that exists:
\* AdminUpdateStatus "always points at the exact revision under review", and
\* admins never hear of a request that had not reached them (Cancel).
MailNamesRevision ==
  \A i \in DOMAIN outbox : outbox[i].kind # "withdrawn" => Filed(outbox[i].revision)

\* One at a time, the calls implement the promised life cycle, whatever they
\* fail at and wherever they are cut off: transitions only along the table, one
\* revision and one number per submission, a single booking.
Lifecycle == INSTANCE RequestLifecycle WITH
  status <- req.status, latest <- req.latest,
  filed <- Len(revisions), orders <- Len(bookings)

ImplementsLifecycle == Lifecycle!Spec

Decisions == {"approved", "rejected"}

\* One at a time, a decision is the last word: once the organizer has been told
\* of it nothing else about the request is announced, so no second decision, no
\* resubmission and no cancellation follows it (requestTransitions has no way
\* out of a decision, Submit and Cancel refuse one).
DecisionIsLastWord ==
  \A i \in DOMAIN outbox : outbox[i].kind \in Decisions => i = Len(outbox)

\* What requestTransitions claims: every transition out of approved, rejected
\* or cancelled is rejected.
DecisionsAreFinal ==
  [][Terminal(req.status) => req'.status = req.status]_req

\* One at a time and without failures, a decision reaches the linked booking
\* ("Keep the linked Booking's own status label in sync"), unless the booking is
\* removed; a desk that edits bookings may set the label to anything later.
DecisionReachesBooking ==
  \A d \in Decisions :
    req.status = d ~> /\ req.booking \in DOMAIN bookings
                      /\ bookings[req.booking].status \in {MirrorStatus(d), "deleted"}

\* One at a time and without failures, the members are told of every decision,
\* about the revision that it decided, unless the event is deleted first: then
\* there is nobody left to tell.
DecisionAnnounced ==
  \A d \in Decisions :
    req.status = d ~> \/ ~eventLive
                      \/ \E i \in DOMAIN outbox : /\ outbox[i].kind = d
                                                  /\ outbox[i].revision = req.latest
=============================================================================
