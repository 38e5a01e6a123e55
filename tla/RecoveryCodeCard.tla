-------------------------- MODULE RecoveryCodeCard --------------------------
(***************************************************************************)
(* The backup-code card of the profile.  It asks once whether the account  *)
(* has a code, and creates or replaces it under the current password; a    *)
(* replacement wants a confirmation first.  The button is off while a      *)
(* creation is on its way; the Enter key of the password field is not.     *)
(***************************************************************************)
EXTENDS Calls

CONSTANTS MaxCodes     \* bound: creations asked for

VARIABLES ui, net, srv, hist

vars == <<ui, net, srv, hist>>

Kinds == {"me", "create"}
Codes == 0..MaxCodes + 1   \* the code the account holds, 0 for none
Statuses == {"loading", "missing", "present", "unknown"}

TypeOK ==
    /\ ui.status \in Statuses
    /\ {ui.password, ui.busy, ui.confirming, ui.error} \subseteq BOOLEAN
    /\ ui.code \in Codes
    /\ srv \in Codes
    /\ CallsOK(net, Kinds)

----------------------------------------------------------------------------
(* The backend *)

ServeMe == \E i \in Waiting(net, "me") :
    net' = Served(net, i, srv > 0) /\ UNCHANGED <<srv, hist>>

\* The new code takes the place of the old one, if there is one.
ServeCreate == \E i \in Waiting(net, "create") :
    /\ srv' = hist.codes + 1
    /\ hist' = [hist EXCEPT !.codes = @ + 1, !.unasked = @ \/ (srv > 0 /\ ~net[i].arg)]
    /\ net' = Served(net, i, srv')

\* A wrong password, too many attempts, no network.
ServeRefusal == \E i \in DOMAIN net :
    net[i].stage = "sent" /\ net' = Refused(net, i, None) /\ UNCHANGED <<srv, hist>>

\* The answer gets lost: of a code that was created the card knows nothing.
AnswerLost == \E i \in Coming(net) :
    /\ net' = Refused(net, i, None)
    /\ hist' = [hist EXCEPT !.lost = @ \/ net[i].kind = "create"]
    /\ UNCHANGED srv

Backend == (ServeMe \/ ServeCreate \/ ServeRefusal \/ AnswerLost) /\ UNCHANGED ui

----------------------------------------------------------------------------
(* The card *)

\* The look at the account, once; its answer may come after a creation's.
MeAnswered == \E i \in Answered(net, "me") :
    /\ ui' = [ui EXCEPT !.status = IF ~net[i].ok THEN "unknown"
                                   ELSE IF net[i].data THEN "present" ELSE "missing"]
    /\ hist' = [hist EXCEPT !.late = @ \/ (net[i].ok /\ net[i].data # (srv > 0))]
    /\ net' = Settled(net, i)
    /\ UNCHANGED srv

\* mutant: an account that could not be looked at is taken to have no code.
ReplacingIfPresent(status) == status = "present"

\* Whether a creation may replace a code: unless none is known to be there.
replacing(status) == status # "missing"

\* What is shown: the new code alone, or the password field with its button.
Card == ui.code = 0

Type == /\ Card /\ ~ui.password
        /\ ui' = [ui EXCEPT !.password = TRUE]
        /\ UNCHANGED <<net, srv, hist>>

handleCreate(confirmed) ==
    /\ Room(net, 1) /\ hist.asked < MaxCodes
    /\ ui' = [ui EXCEPT !.confirming = FALSE, !.busy = TRUE, !.error = FALSE]
    /\ net' = Sent(net, "create", confirmed)
    /\ hist' = [hist EXCEPT !.asked = @ + 1, !.twice = @ \/ InFlight(net, "create")]
    /\ UNCHANGED srv

\* Looks at nothing but the password and whether there is a code to replace.
handlePrimary ==
    /\ Card /\ ui.password
    /\ IF replacing(ui.status) /\ ~ui.confirming
       THEN ui' = [ui EXCEPT !.confirming = TRUE] /\ UNCHANGED <<net, srv, hist>>
       ELSE handleCreate(ui.confirming)

\* The button is off at times; the Enter key is not, and confirms too.
PrimaryButton == ~ui.confirming /\ ~ui.busy /\ ui.status # "loading"
PressButton == PrimaryButton /\ handlePrimary
PressEnter == handlePrimary

\* The dialog's two buttons.
Confirm == /\ Card /\ ui.password /\ ui.confirming /\ ~ui.busy
           /\ handleCreate(TRUE)
CancelConfirm == /\ Card /\ ui.confirming /\ ~ui.busy
                 /\ ui' = [ui EXCEPT !.confirming = FALSE]
                 /\ UNCHANGED <<net, srv, hist>>

CreateAnswered == \E i \in Answered(net, "create") :
    /\ ui' = IF net[i].ok
             THEN [ui EXCEPT !.password = FALSE, !.status = "present",
                             !.code = net[i].data, !.busy = FALSE]
             ELSE [ui EXCEPT !.error = TRUE, !.busy = FALSE]
    /\ net' = Settled(net, i)
    /\ UNCHANGED <<srv, hist>>

\* The code was saved somewhere: the panel is closed.
CodeDone == /\ ui.code > 0
            /\ ui' = [ui EXCEPT !.code = 0]
            /\ UNCHANGED <<net, srv, hist>>

----------------------------------------------------------------------------
Init == /\ ui = [status |-> "loading", password |-> FALSE, busy |-> FALSE,
                 confirming |-> FALSE, error |-> FALSE, code |-> 0]
        /\ net = Sent(<< >>, "me", None)
        /\ srv \in {0, 1}
        /\ hist = [codes |-> srv, asked |-> 0, twice |-> FALSE, late |-> FALSE, lost |-> FALSE,
                 unasked |-> FALSE]

Next == \/ Backend \/ MeAnswered
        \/ Type \/ PressButton \/ PressEnter \/ Confirm \/ CancelConfirm
        \/ CreateAnswered \/ CodeDone

Spec == Init /\ [][Next]_vars

----------------------------------------------------------------------------
(* Properties *)

\* A code the account holds is replaced only after the dialog was confirmed,
\* whatever the look at the account answered.  The card promises it no more once
\* its belief that there is no code may be wrong: the answer to the look is older
\* than a creation of this card, the answer of a creation was lost, or a creation
\* leaves (by the Enter key) while another is on its way.
ReplacedIfConfirmed == ~hist.twice /\ ~hist.late /\ ~hist.lost => ~hist.unasked
=============================================================================
