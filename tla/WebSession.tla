----------------------------- MODULE WebSession -----------------------------
(***************************************************************************)
(* The one session of the web front end and the pages that open it.        *)
(* AuthProvider is mounted once, above every page: it keeps the signed-in  *)
(* `user` in React state and the token in localStorage, loads the account  *)
(* on start-up, and login, register, recover and claim all end in the same *)
(* two assignments.  The pages are mounted one at a time; a continuation   *)
(* of a page that is gone still signs in and still calls router.push.      *)
(***************************************************************************)
EXTENDS Calls, FiniteSets

CONSTANTS Users,       \* accounts
          Admins,      \* those with role "admin"
          MaxGen,      \* bound: password changes of an account
          MaxForms     \* bound: forms, claims and invitations sent by the visitor


VARIABLES ui,          \* AuthProvider's state, the page shown and its local state
          store,       \* localStorage
          net,         \* the calls in flight
          srv,         \* the accounts of the backend
          hist         \* what happened, for the properties

vars == <<ui, store, net, srv, hist>>

Pages == {"home", "login", "register", "recover", "claim", "invite",
          "profile", "admin_login", "admin"}
FormPages == {"login", "register", "recover", "admin_login"}
Tokens == [user : Users, gen : 0..MaxGen]
Kinds == {"me", "login", "register", "recover", "claim", "preview", "accept"}

\* The local state of a page as it mounts.  `status` is what the claim and the
\* invitation page show, `code` the backup code a page displays.  What a form
\* says of a mistake is left out, and so is the box to tick under a backup code.
Fresh == [busy |-> FALSE, status |-> "loading", code |-> FALSE,
          called |-> FALSE, effects |-> 0]

Provider == [user |-> None, loading |-> TRUE, page |-> "home", next |-> "profile",
             dialog |-> FALSE, at |-> Fresh]

\* mutant: sign-out forgets the token it should remove from localStorage.
ClearTokenForgotten == UNCHANGED store

ClearToken == store' = [store EXCEPT !.token = None]
SetToken(t) == store' = [store EXCEPT !.token = t]

TypeOK ==
    /\ ui.user \in Users \cup {None}
    /\ ui.loading \in BOOLEAN /\ ui.dialog \in BOOLEAN
    /\ ui.page \in Pages /\ ui.next \in {"profile", "invite"}
    /\ ui.at \in [busy : BOOLEAN, code : BOOLEAN, called : BOOLEAN, effects : 0..2,
                  status : {"loading", "success", "used", "expired", "invalid",
                            "ready", "error"}]
    /\ store.token \in Tokens \cup {None}
    /\ CallsOK(net, Kinds)
    /\ srv.known \subseteq Users
    /\ srv.gen \in [Users -> 0..MaxGen]
    /\ srv.link \in {"open", "used", "expired"}

----------------------------------------------------------------------------
(* The backend, as these pages use it. *)

Valid(t) == t # None /\ srv.gen[t.user] = t.gen
Issued(u) == [user |-> u, gen |-> srv.gen[u]]

\* GET /api/auth/me answers for the token the call left with; a token older
\* than the account's last password change is refused.
ServeMe == \E i \in Waiting(net, "me") :
    /\ net' = IF Valid(net[i].arg) THEN Served(net, i, net[i].arg.user)
                                   ELSE Refused(net, i, "unauthorized")
    /\ UNCHANGED srv

ServeLogin == \E i \in Waiting(net, "login") :
    /\ net[i].arg.user \in srv.known
    /\ net' = Served(net, i, Issued(net[i].arg.user))
    /\ UNCHANGED srv

ServeRegister == \E i \in Waiting(net, "register"), u \in Users \ srv.known :
    /\ srv' = [srv EXCEPT !.known = @ \cup {u}]
    /\ net' = Served(net, i, Issued(u))

\* Recovery by backup code changes the password: every older token dies.
ServeRecover == \E i \in Waiting(net, "recover"), u \in srv.known :
    /\ srv.gen[u] < MaxGen
    /\ srv' = [srv EXCEPT !.gen[u] = @ + 1]
    /\ net' = Served(net, i, [user |-> u, gen |-> srv.gen[u] + 1])

\* The claim link of a pending account works once.
ServeClaim == \E i \in Waiting(net, "claim"), u \in Users \ Admins :
    IF srv.link = "open" /\ u \in srv.known
    THEN /\ net' = Served(net, i, Issued(u))
         /\ srv' = [srv EXCEPT !.link = "used"]
    ELSE /\ net' = Refused(net, i, srv.link)
         /\ UNCHANGED srv

ServeInvitation == \E kind \in {"preview", "accept"} : \E i \in Waiting(net, kind) :
    net' = Served(net, i, None) /\ UNCHANGED srv

\* Wrong credentials, a limit, a backend that does not answer.
ServeRefusal == \E i \in DOMAIN net :
    /\ net[i].stage = "sent"
    /\ net' = Refused(net, i, "refused")
    /\ UNCHANGED srv

\* The answer gets lost.
AnswerLost == \E i \in Coming(net) : net' = Refused(net, i, "refused") /\ UNCHANGED srv

Backend == /\ \/ ServeMe \/ ServeLogin \/ ServeRegister \/ ServeRecover
              \/ ServeClaim \/ ServeInvitation \/ ServeRefusal \/ AnswerLost
           /\ UNCHANGED <<ui, store, hist>>

----------------------------------------------------------------------------
(* AuthProvider *)

IsAdmin(u) == u \in Admins

\* loadUser with a token: the call leaves with it; the state is as before.
LoadUser == /\ store.token # None
            /\ Room(net, 1)
            /\ net' = Sent(net, "me", store.token)

\* An answer to a call that another session overtook: the token it left with
\* is no longer the one in localStorage.
Overtaken(t) == t # store.token

MeAnswered == \E i \in Answered(net, "me") :
    /\ net' = Settled(net, i)
    /\ hist' = [hist EXCEPT !.crossed = @ \/ Overtaken(net[i].arg)]
    /\ IF net[i].ok
       THEN /\ ui' = [ui EXCEPT !.user = net[i].data, !.loading = FALSE]
            /\ UNCHANGED store
       ELSE /\ ui' = [ui EXCEPT !.user = None, !.loading = FALSE]
            /\ ClearToken
    /\ UNCHANGED srv

Logout == ClearToken

\* Components that listen to the calls of the page being left.
PageKinds == Kinds \ {"me"}
Left(n) == Unheard(n, PageKinds)

\* The router shows page p: the old page unmounts, p mounts with fresh state.
At(u, p) == [u EXCEPT !.page = p, !.at = Fresh, !.dialog = FALSE]

\* An invitation opened while signed out comes back after signing in.
NextOf(p) == IF p \notin {"login", "register", "recover"} THEN "profile"
             ELSE IF ui.page = "invite" THEN "invite"
             ELSE IF ui.page \in {"login", "register", "recover"} THEN ui.next
             ELSE "profile"

Visit == \E p \in Pages \ {ui.page} :
    /\ p = "invite" => Room(net, 1)
    /\ ui' = [At(ui, p) EXCEPT !.next = NextOf(p)]
    /\ net' = IF p = "invite" THEN Sent(Left(net), "preview", None) ELSE Left(net)
    /\ hist' = [hist EXCEPT !.claimed = FALSE]
    /\ UNCHANGED <<store, srv>>

\* A full page load: React state and every promise are gone, the token stays.
Reload ==
    /\ ui' = [Provider EXCEPT !.page = IF ui.page = "claim" THEN "home" ELSE ui.page,
                              !.loading = store.token # None,
                              !.at.status = IF ui.page = "invite" THEN "error" ELSE "loading"]
    /\ net' = IF store.token = None THEN << >> ELSE Sent(<< >>, "me", store.token)
    /\ hist' = [hist EXCEPT !.claimed = FALSE]
    /\ UNCHANGED <<store, srv>>

\* refreshMe: a page asks for the account again (the Telegram card).
RefreshMe ==
    /\ ui.page = "profile" /\ ui.user # None
    /\ LoadUser
    /\ UNCHANGED <<ui, store, srv, hist>>

----------------------------------------------------------------------------
(* The pages with a form *)

\* The bound on what the visitor sends.
Counted == hist.forms < MaxForms /\ hist' = [hist EXCEPT !.forms = @ + 1]

\* The forms shown; their button is disabled while a call is out.
LoginForm == ui.page = "login" /\ ~ui.at.busy
AdminLoginForm == ui.page = "admin_login" /\ ~ui.at.busy
RegisterForm == ui.page = "register" /\ ~ui.at.code /\ ~ui.at.busy
RecoverForm == ui.page = "recover" /\ ~ui.at.code /\ ~ui.at.busy

Submit(kind, arg) ==
    /\ Room(net, 1)
    /\ net' = Sent(net, kind, arg)
    /\ ui' = [ui EXCEPT !.at.busy = TRUE]
    /\ Counted
    /\ UNCHANGED <<store, srv>>

LoginSubmit == LoginForm /\ \E u \in Users :
    Submit("login", [user |-> u, door |-> "login", next |-> ui.next])
AdminLoginSubmit == AdminLoginForm /\ \E u \in Users :
    Submit("login", [user |-> u, door |-> "admin_login", next |-> "admin"])
RegisterSubmit == RegisterForm /\ Submit("register", None)
RecoverSubmit == RecoverForm /\ Submit("recover", None)

\* The form's catch and finally: only the form that sent the call shows them.
FormFailed(c) == IF c.here THEN [ui EXCEPT !.at.busy = FALSE] ELSE ui

\* mutant: the admin door keeps the customer who came through it signed in.
AdminDoorOpen(u) == TRUE

AdminDoor(u) == IsAdmin(u)

LoginAnswered == \E i \in Answered(net, "login") :
    LET c == net[i]
        t == c.data
    IN /\ UNCHANGED srv
       /\ IF ~c.ok
          THEN /\ ui' = FormFailed(c)
               /\ net' = Settled(net, i)
               /\ UNCHANGED <<store, hist>>
          ELSE IF c.arg.door = "admin_login" /\ ~AdminDoor(t.user)
          THEN \* signed in and, before anything else runs, out again
               /\ ui' = [FormFailed(c) EXCEPT !.user = None]
               /\ net' = Settled(net, i)
               /\ ClearToken
               /\ UNCHANGED hist
          ELSE IF c.arg.door = "admin_login"
          THEN /\ ui' = [ui EXCEPT !.user = t.user, !.at.busy = IF c.here THEN FALSE ELSE @]
               /\ net' = Settled(net, i)
               /\ SetToken(t)
               /\ hist' = [hist EXCEPT !.adminDoor = TRUE, !.crossed = FALSE]
          ELSE \* router.push(next), from wherever the visitor is by now
               /\ ui' = [At(ui, c.arg.next) EXCEPT !.user = t.user]
               /\ net' = Left(Settled(net, i))
               /\ SetToken(t)
               /\ hist' = [hist EXCEPT !.adminDoor = FALSE, !.crossed = FALSE, !.claimed = FALSE]

\* register and recover return the backup code, shown once before going on.
CodeAnswered(kind) == \E i \in Answered(net, kind) :
    LET c == net[i]
    IN /\ net' = Settled(net, i)
       /\ UNCHANGED srv
       /\ IF ~c.ok
          THEN /\ ui' = FormFailed(c)
               /\ UNCHANGED <<store, hist>>
          ELSE /\ ui' = IF c.here THEN [ui EXCEPT !.user = c.data.user, !.at.code = TRUE,
                                                  !.at.busy = FALSE]
                                  ELSE [ui EXCEPT !.user = c.data.user]
               /\ SetToken(c.data)
               /\ hist' = [hist EXCEPT !.adminDoor = FALSE, !.crossed = FALSE]

RegisterAnswered == CodeAnswered("register")
RecoverAnswered == CodeAnswered("recover")

\* RecoveryCodePanel: "done", once the code is said to be saved.
CodePanel == ui.at.code
CodeDone == /\ CodePanel
            /\ ui' = At(ui, ui.next)
            /\ net' = Left(net)
            /\ UNCHANGED <<store, srv, hist>>

----------------------------------------------------------------------------
(* The claim page *)

\* mutant: the effect does not look at calledRef.
MayClaimTwice == TRUE

\* calledRef: development mode runs the effect twice, the call leaves once.
MayClaim == ~ui.at.called

ClaimEffect ==
    /\ ui.page = "claim" /\ ui.at.effects < 2
    /\ IF MayClaim
       THEN /\ Room(net, 1)
            /\ net' = Sent(net, "claim", None)
            /\ ui' = [ui EXCEPT !.at.effects = @ + 1, !.at.called = TRUE]
            /\ Counted
       ELSE /\ ui' = [ui EXCEPT !.at.effects = @ + 1]
            /\ UNCHANGED <<net, hist>>
    /\ UNCHANGED <<store, srv>>

\* mutant: the page shows the backend's reason as it came.
ClaimFailureRaw(why) == why

ClaimFailure(why) == IF why \in {"used", "expired"} THEN why ELSE "invalid"

ClaimAnswered == \E i \in Answered(net, "claim") :
    LET c == net[i]
        shown(s) == IF c.here THEN [ui EXCEPT !.at.status = s] ELSE ui
    IN /\ net' = Settled(net, i)
       /\ UNCHANGED srv
       /\ IF c.ok
          THEN /\ ui' = [shown("success") EXCEPT !.user = c.data.user]
               /\ SetToken(c.data)
               /\ hist' = [hist EXCEPT !.adminDoor = FALSE, !.crossed = FALSE,
                                       !.claimed = @ \/ c.here]
          ELSE /\ ui' = shown(ClaimFailure(c.data))
               /\ UNCHANGED <<store, hist>>

\* 900 ms later the workspace of the claimed event opens.
ClaimTimer == /\ ui.page = "claim" /\ ui.at.status = "success"
              /\ ui' = At(ui, "profile")
              /\ net' = Left(net)
              /\ hist' = [hist EXCEPT !.claimed = FALSE]
              /\ UNCHANGED <<store, srv>>

----------------------------------------------------------------------------
(* The invitation page *)

PreviewAnswered == \E i \in Answered(net, "preview") :
    /\ net' = Settled(net, i)
    /\ ui' = IF net[i].here
             THEN [ui EXCEPT !.at.status = IF net[i].ok THEN "ready" ELSE "error"] ELSE ui
    /\ UNCHANGED <<store, srv, hist>>

InviteButton == ui.page = "invite" /\ ui.at.status = "ready" /\ ~ui.at.busy
                /\ ~ui.loading /\ ui.user # None

Accept == /\ InviteButton
          /\ Room(net, 1)
          /\ net' = Sent(net, "accept", None)
          /\ ui' = [ui EXCEPT !.at.busy = TRUE]
          /\ Counted
          /\ UNCHANGED <<store, srv>>

AcceptAnswered == \E i \in Answered(net, "accept") :
    /\ IF net[i].ok THEN /\ ui' = At(ui, "profile")
                         /\ net' = Left(Settled(net, i))
                         /\ hist' = [hist EXCEPT !.claimed = FALSE]
                    ELSE /\ ui' = IF net[i].here THEN [ui EXCEPT !.at.busy = FALSE] ELSE ui
                         /\ net' = Settled(net, i)
                         /\ UNCHANGED hist
    /\ UNCHANGED <<store, srv>>

----------------------------------------------------------------------------
(* Guards of the private pages, and signing out *)

\* The effects of AdminGuard and of the profile page.
Guarded == IF ui.loading THEN ui.page
           ELSE IF ui.page = "admin" /\ ~IsAdmin(ui.user) THEN "admin_login"
           ELSE IF ui.page = "admin_login" /\ IsAdmin(ui.user) THEN "admin"
           ELSE ui.page
ProfileGuarded == IF ui.page = "profile" /\ ~ui.loading /\ ui.user = None
                  THEN "login" ELSE ui.page

Redirect(to) == /\ to # ui.page
                /\ ui' = [At(ui, to) EXCEPT !.next = "profile"]
                /\ net' = Left(net)
                /\ UNCHANGED <<store, srv, hist>>
AdminRedirect == Redirect(Guarded)
ProfileRedirect == Redirect(ProfileGuarded)

AskSignOut == /\ ui.page \in {"profile", "admin"} /\ ui.user # None /\ ~ui.dialog
              /\ ui' = [ui EXCEPT !.dialog = TRUE]
              /\ UNCHANGED <<store, net, srv, hist>>
Stay == /\ ui.dialog
        /\ ui' = [ui EXCEPT !.dialog = FALSE]
        /\ UNCHANGED <<store, net, srv, hist>>
ConfirmSignOut == /\ ui.dialog
                  /\ ui' = [At(ui, IF ui.page = "profile" THEN "home" ELSE "admin_login")
                               EXCEPT !.user = None]
                  /\ Logout
                  /\ net' = Left(net)
                  /\ hist' = [hist EXCEPT !.crossed = FALSE, !.adminDoor = FALSE]
                  /\ UNCHANGED srv

----------------------------------------------------------------------------
Init ==
    /\ \E t \in [user : Users, gen : {0}] \cup {None}, p \in {"home", "profile", "admin"},
          k \in {Users, Admins} :
         /\ t # None => t.user \in k
         /\ ui = [Provider EXCEPT !.page = p, !.loading = t # None]
         /\ store = [token |-> t]
         /\ net = IF t = None THEN << >> ELSE Sent(<< >>, "me", t)
         /\ srv = [known |-> k, gen |-> [u \in Users |-> 0], link |-> "open"]
    /\ hist = [crossed |-> FALSE, claimed |-> FALSE, adminDoor |-> FALSE,
             forms |-> 0]

Next == \/ Backend \/ MeAnswered \/ RefreshMe \/ Visit \/ Reload
        \/ LoginSubmit \/ AdminLoginSubmit \/ LoginAnswered
        \/ RegisterSubmit \/ RegisterAnswered
        \/ RecoverSubmit \/ RecoverAnswered
        \/ CodeDone
        \/ ClaimEffect \/ ClaimAnswered \/ ClaimTimer
        \/ PreviewAnswered \/ Accept \/ AcceptAnswered
        \/ AdminRedirect \/ ProfileRedirect
        \/ AskSignOut \/ Stay \/ ConfirmSignOut

Spec == Init /\ [][Next]_vars

----------------------------------------------------------------------------
(* Properties *)

\* The account shown as signed in and the token in localStorage belong
\* together, and one is never kept without the other once loading is over; the
\* only way they part is an answer of /api/auth/me that a later sign-in or
\* sign-out overtook.
SessionAgrees ==
    hist.crossed \/ /\ ui.user # None => /\ store.token # None
                                         /\ store.token.user = ui.user
                    /\ store.token # None /\ ~ui.loading => ui.user # None

\* The visit whose claim opened the account never tells the visitor that the
\* link was used or is invalid: the effect may run twice, the call leaves once.
ClaimSuccessStands == hist.claimed => ui.at.status = "success"

\* Nobody but an admin is left signed in by the admin login form, whatever
\* answers of other forms arrive around it.
AdminDoorForAdmins ==
    hist.adminDoor /\ ~hist.crossed /\ ui.user # None => IsAdmin(ui.user)
=============================================================================
