---------------------------- MODULE EventMembers ----------------------------
(***************************************************************************)
(* The members of an event and, for its owner, the invitations.  Every     *)
(* change is followed by a load of both lists; nothing orders two loads.   *)
(* A load replaces what is on screen only when all its answers are there.  *)
(***************************************************************************)
EXTENDS Calls

CONSTANTS Guests,         \* the members that are not the owner
          MaxInvitations, \* bound: invitations created
          MaxClicks       \* bound: roles changed, members removed, links revoked

VARIABLES ui, net, srv, hist

vars == <<ui, net, srv, hist>>

Kinds == {"load", "invite", "role", "remove", "revoke"}
Changes == Kinds \ {"load", "invite"}
Roles == {"editor", "viewer"}
Links == 1..MaxInvitations

TypeOK ==
    /\ DOMAIN ui.members \subseteq Guests
    /\ \A m \in DOMAIN ui.members : ui.members[m] \in Roles
    /\ ui.links \subseteq Links
    /\ ui.loading \in BOOLEAN /\ ui.creating \in BOOLEAN /\ ui.email \in BOOLEAN
    /\ ui.emailed \in Links \cup {None} /\ ui.copied \in Links \cup {None}
    /\ srv.made \in 0..MaxInvitations /\ srv.live \subseteq Links
    /\ CallsOK(net, Kinds)

----------------------------------------------------------------------------
(* The backend *)

\* What the two lists give; a viewer or editor asks for the members only.
Lists == [members |-> srv.members,
          links |-> IF ui.isOwner THEN srv.live ELSE {}, version |-> srv.version]

ServeLoad == \E i \in Waiting(net, "load") :
    net' = Served(net, i, Lists) /\ UNCHANGED <<srv, hist>>

ServeInvite == \E i \in Waiting(net, "invite") :
    LET new == srv.made + 1 IN
    /\ srv.made < MaxInvitations
    /\ srv' = [srv EXCEPT !.made = new, !.live = @ \cup {new}, !.version = @ + 1]
    /\ net' = Served(net, i, new) /\ UNCHANGED hist

ServeRole == \E i \in Waiting(net, "role") :
    LET a == net[i].arg IN
    /\ a.member \in DOMAIN srv.members
    /\ srv' = [srv EXCEPT !.members[a.member] = a.role, !.version = @ + 1]
    /\ net' = Served(net, i, None) /\ UNCHANGED hist

Without(members, m) == [n \in DOMAIN members \ {m} |-> members[n]]

ServeRemove == \E i \in Waiting(net, "remove") :
    /\ net[i].arg \in DOMAIN srv.members
    /\ srv' = [srv EXCEPT !.members = Without(@, net[i].arg), !.version = @ + 1]
    /\ net' = Served(net, i, None) /\ UNCHANGED hist

ServeRevoke == \E i \in Waiting(net, "revoke") :
    /\ srv' = [srv EXCEPT !.live = @ \ {net[i].arg}, !.version = @ + 1]
    /\ net' = Served(net, i, None) /\ UNCHANGED hist

ServeRefusal == \E i \in DOMAIN net :
    net[i].stage = "sent" /\ net' = Refused(net, i, None) /\ UNCHANGED <<srv, hist>>

\* The answer gets lost.  After a change nothing is loaded then, and only a load that
\* comes later for another reason shows it.
AnswerLost == \E i \in Coming(net) :
    /\ net' = Refused(net, i, None)
    /\ hist' = IF net[i].kind = "load" THEN hist
               ELSE [hist EXCEPT !.asked = srv.version, !.stale = TRUE]
    /\ UNCHANGED srv

Backend == /\ \/ ServeLoad \/ ServeInvite \/ ServeRole \/ ServeRemove \/ ServeRevoke
              \/ ServeRefusal \/ AnswerLost
           /\ UNCHANGED ui

----------------------------------------------------------------------------
(* The page *)

\* load: all or nothing.  On mount a failure leaves the skeleton; after a change
\* it is reported as if the change had failed.  After an invitation the form
\* comes back on either way.
LoadAnswered == \E i \in Answered(net, "load") :
    LET c == net[i]
        after == IF c.arg = "invite" THEN [ui EXCEPT !.creating = FALSE] ELSE ui
    IN /\ ui' = IF c.ok THEN [after EXCEPT !.members = c.data.members,
                                           !.links = c.data.links, !.loading = FALSE]
                ELSE after
       /\ hist' = [hist EXCEPT !.stale = IF c.ok THEN c.data.version < hist.asked ELSE TRUE]
       /\ net' = Settled(net, i)
       /\ UNCHANGED srv

\* mutant: the list stays as it was after a change.
NoReload(calls, kind) == calls

\* After a change both lists are loaded.
Reload(calls, kind) == Sent(calls, "load", kind)

\* The owner's form of a role and, if wished, an address to send the link to.
InviteForm == ui.isOwner /\ ~ui.creating

TypeEmail == /\ ui.isOwner /\ ~ui.email
             /\ ui' = [ui EXCEPT !.email = TRUE]
             /\ UNCHANGED <<net, srv, hist>>

handleCreateInvite == /\ InviteForm /\ Room(net, 1) /\ hist.invited < MaxInvitations
                      /\ ui' = [ui EXCEPT !.creating = TRUE]
                      /\ net' = Sent(net, "invite", ui.email)
                      /\ hist' = [hist EXCEPT !.invited = @ + 1]
                      /\ UNCHANGED srv

\* The address is wiped, the link marked as sent for a while.
InviteAnswered == \E i \in Answered(net, "invite") :
    LET c == net[i] IN
    /\ IF c.ok
       THEN /\ ui' = [ui EXCEPT !.email = FALSE, !.emailed = IF c.arg THEN c.data ELSE @]
            /\ net' = Reload(Settled(net, i), "invite")
            /\ hist' = [hist EXCEPT !.asked = srv.version]
       ELSE /\ ui' = [ui EXCEPT !.creating = FALSE]
            /\ net' = Settled(net, i)
            /\ UNCHANGED hist
    /\ UNCHANGED srv

\* The row of a member: the owner gives roles and removes, anyone else reads.
MemberRow(m) == ui.isOwner /\ ~ui.loading /\ m \in DOMAIN ui.members

Clicked == hist.clicks < MaxClicks /\ hist' = [hist EXCEPT !.clicks = @ + 1]

handleChangeRole == \E m \in Guests, r \in Roles :
    /\ MemberRow(m) /\ ui.members[m] # r /\ Room(net, 1)
    /\ net' = Sent(net, "role", [member |-> m, role |-> r])
    /\ Clicked /\ UNCHANGED <<ui, srv>>

handleRemove == \E m \in Guests :
    /\ MemberRow(m) /\ Room(net, 1)
    /\ net' = Sent(net, "remove", m)
    /\ Clicked /\ UNCHANGED <<ui, srv>>

\* The links that are not revoked, each to copy, to share or to revoke.
handleRevoke == \E l \in ui.links :
    /\ Room(net, 1)
    /\ net' = Sent(net, "revoke", l)
    /\ Clicked /\ UNCHANGED <<ui, srv>>

copyLink == \E l \in ui.links :
    /\ ui.copied = None
    /\ ui' = [ui EXCEPT !.copied = l]
    /\ UNCHANGED <<net, srv, hist>>

\* The timers take the marks away again.
MarksGone == /\ ui.copied # None \/ ui.emailed # None
             /\ ui' = [ui EXCEPT !.copied = None, !.emailed = None]
             /\ UNCHANGED <<net, srv, hist>>

\* A change that was refused, or seems to be, says so and loads nothing.
ChangeAnswered == \E kind \in Changes : \E i \in Answered(net, kind) :
    /\ IF net[i].ok
       THEN /\ net' = Reload(Settled(net, i), kind)
            /\ hist' = [hist EXCEPT !.asked = srv.version]
       ELSE net' = Settled(net, i) /\ UNCHANGED hist
    /\ UNCHANGED <<ui, srv>>

----------------------------------------------------------------------------
Init == /\ ui \in [isOwner : BOOLEAN, members : {<< >>}, links : {{}}, loading : {TRUE},
                   creating : {FALSE}, email : {FALSE}, emailed : {None}, copied : {None}]
        /\ net = Sent(<< >>, "load", None)
        /\ srv = [members |-> [m \in Guests |-> "viewer"], made |-> 0, live |-> {},
                  version |-> 0]
        /\ hist = [invited |-> 0, clicks |-> 0, asked |-> 0, stale |-> FALSE]

Next == \/ Backend \/ LoadAnswered
        \/ TypeEmail \/ handleCreateInvite \/ InviteAnswered
        \/ handleChangeRole \/ handleRemove \/ handleRevoke \/ ChangeAnswered
        \/ copyLink \/ MarksGone

Spec == Init /\ [][Next]_vars

----------------------------------------------------------------------------
(* Properties *)

\* When nothing is on its way, what the owner is shown is what the backend has:
\* a removed member is off the list and a revoked link no longer offered to
\* share, unless the load that came last failed or was overtaken by a change, or a
\* change was made since whose answer was lost, after which nothing is loaded.
ListIsCurrent ==
    net = << >> /\ ~ui.loading /\ ~hist.stale =>
        ui.members = srv.members /\ (ui.isOwner => ui.links = srv.live)
=============================================================================
