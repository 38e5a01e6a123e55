-------------------------- MODULE RequestLifecycle --------------------------
(* What the review workflow of one event promises, with every API call taken *)
(* as one indivisible step: the request moves only along the transitions of  *)
(* models/event_request.go, a submission files exactly one revision under    *)
(* the next number, and the first one opens the only booking.                *)
EXTENDS Naturals

CONSTANT MaxRevisions       \* bound on submissions, for model checking

VARIABLES
  status,     \* status of the request, "none" before anyone opened it
  latest,     \* EventRequest.LatestRevision
  filed,      \* how many revision rows exist
  orders      \* how many booking rows the request has opened

vars == <<status, latest, filed, orders>>

Statuses == {"none", "draft", "submitted", "in_review", "changes_requested",
             "approved", "rejected", "cancelled"}

Editable(s) == s \in {"draft", "changes_requested"}

Decided(s) == s \in {"approved", "rejected", "cancelled"}

CanTransition(from, to) ==
  \/ /\ from = "submitted"
     /\ to \in {"in_review", "changes_requested", "approved", "rejected"}
  \/ /\ from = "in_review"
     /\ to \in {"changes_requested", "approved", "rejected"}

Init == status = "none" /\ latest = 0 /\ filed = 0 /\ orders = 0

Open ==
  /\ status = "none"
  /\ status' = "draft"
  /\ UNCHANGED <<latest, filed, orders>>

Submit ==
  /\ Editable(status)
  /\ latest < MaxRevisions
  /\ status' = "submitted"
  /\ latest' = latest + 1
  /\ filed' = filed + 1
  /\ orders' = 1

Review(to) ==
  /\ CanTransition(status, to)
  /\ status' = to
  /\ UNCHANGED <<latest, filed, orders>>

Cancel ==
  /\ status # "none"
  /\ ~Decided(status)
  /\ status' = "cancelled"
  /\ UNCHANGED <<latest, filed, orders>>

Next ==
  \/ Open
  \/ Submit
  \/ \E to \in Statuses : Review(to)
  \/ Cancel

Spec == Init /\ [][Next]_vars
=============================================================================
