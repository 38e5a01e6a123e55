-------------------------- MODULE WebSessionProofs --------------------------
(* What holds of the session of the web front end for any accounts, any      *)
(* number of calls in flight and any bounds: the account on screen and the   *)
(* token in localStorage agree, a claim that worked is shown as one, the     *)
(* admin form leaves only admins signed in.  Then what goes with the visitor  *)
(* from page to page: the manager's widget, the cart, the assistant and the  *)
(* bell, each in a section of its own.                                       *)
(*                                                                           *)
(* The argument: what a call carries home is fixed when it leaves and when   *)
(* it is served (Honest), and a call whose page still listens belongs to the *)
(* page that is shown (Heard), so its continuation finds what it expects.    *)
EXTENDS WebSession, CallsProofs

\* What the proofs take of the constants.
SessionConstants ==
  /\ Admins \subseteq Users
  /\ MaxGen \in Nat
  /\ None \notin Users /\ None \notin Tokens

Statuses == {"loading", "success", "used", "expired", "invalid", "ready", "error"}
Screens ==
  [user : Users \cup {None}, loading : BOOLEAN, page : Pages,
   next : {"profile", "invite"}, dialog : BOOLEAN,
   at : [busy : BOOLEAN, status : Statuses, code : BOOLEAN, called : BOOLEAN,
         effects : 0..2]]

Logins == [user : Users, door : {"login", "admin_login"},
           next : {"profile", "invite", "admin"}]
Payloads ==
  Tokens \cup Users \cup {None, "unauthorized", "refused", "open", "used", "expired"}
Packets ==
  [kind : Kinds, arg : Tokens \cup Logins \cup {None}, here : BOOLEAN,
   stage : {"sent", "answered"}, ok : BOOLEAN, data : Payloads]

\* the variables as wholes, of which TypeOK gives the fields
Shapes ==
  /\ ui \in Screens
  /\ store \in [token : Tokens \cup {None}]
  /\ srv \in [known : SUBSET Users, gen : [Users -> 0..MaxGen],
              link : {"open", "used", "expired"}]
  /\ hist \in [crossed : BOOLEAN, claimed : BOOLEAN, adminDoor : BOOLEAN, forms : Nat]

\* an answer is what its handler gives to such a call
Honest(c) ==
  /\ c.stage = "sent" => ~ c.ok
  /\ c.kind = "me" => c.arg \in Tokens /\ (c.ok => c.data = c.arg.user)
  /\ c.kind = "login" => c.arg \in Logins
  /\ c.kind \in {"login", "register", "recover", "claim"} /\ c.ok => c.data \in Tokens

\* a page that still listens to call c is the one that sent it
Heard(c, u) ==
  c.here =>
    /\ c.kind \in {"register", "recover"} => u.page = c.kind
    /\ c.kind = "claim" => u.page = "claim" /\ u.at.called
    /\ c.kind = "preview" => u.page = "invite"

Good(u) == {c \in Packets : Honest(c) /\ Heard(c, u)}

\* the claim page sent its call once, in spite of two effects
ClaimAt(n, i) == n[i].kind = "claim" /\ n[i].here
NoClaim(n) == \A i \in DOMAIN n : ~ ClaimAt(n, i)

NetOK(n, u) ==
  /\ n \in Seq(Good(u))
  /\ Len(n) <= MaxCalls
  /\ \A i, j \in DOMAIN n : ClaimAt(n, i) /\ ClaimAt(n, j) => i = j

\* a backup code is shown where one is made, the dialog where one signs out
PageOK(u) ==
  /\ u.at.code => u.page \in {"register", "recover"}
  /\ u.dialog => u.page \in {"profile", "admin"}

\* a claim that worked has been answered, and nothing else is to come
ClaimOver ==
  hist.claimed =>
    /\ ui.page = "claim" /\ ui.at.called /\ ui.at.status = "success"
    /\ NoClaim(net)

\* the token the admin form left behind is an admin's
AdminToken ==
  hist.adminDoor /\ ~ hist.crossed /\ store.token # None => store.token.user \in Admins

IndInv ==
  /\ Shapes
  /\ NetOK(net, ui)
  /\ PageOK(ui)
  /\ ClaimOver
  /\ SessionAgrees
  /\ AdminToken
  /\ AdminDoorForAdmins

-----------------------------------------------------------------------------
(* The calls in flight *)

LEMMA GoodMonotonic ==
  ASSUME NEW u, NEW v, v.page = u.page, u.at.called => v.at.called
  PROVE  Good(u) \subseteq Good(v)
BY DEF Good, Heard

LEMMA NetSame ==
  ASSUME NEW n, NEW u, NEW v, NetOK(n, u), v.page = u.page, u.at.called => v.at.called
  PROVE  NetOK(n, v)
<1>1. n \in Seq(Good(v))
  BY GoodMonotonic, SeqMonotonic DEF NetOK
<1> QED BY <1>1 DEF NetOK

LEMMA NetSent ==
  ASSUME NEW n, NEW u, NetOK(n, u), Room(n, 1), NEW kind, NEW arg,
         Call(kind, arg) \in Good(u), kind = "claim" => NoClaim(n)
  PROVE  /\ NetOK(Sent(n, kind, arg), u)
         /\ NoClaim(n) /\ kind # "claim" => NoClaim(Sent(n, kind, arg))
<1> DEFINE c == Call(kind, arg)
           m == Sent(n, kind, arg)
<1>1. c.kind = kind
  BY DEF Call
<1>2. /\ n \in Seq(Good(u)) /\ Len(n) \in Nat /\ DOMAIN n = 1..Len(n)
      /\ Len(n) + 1 <= MaxCalls
  BY LenProperties DEF NetOK, Room
<1>3. /\ m \in Seq(Good(u)) /\ Len(m) = Len(n) + 1 /\ DOMAIN m = 1..Len(n) + 1
      /\ \A i \in 1..Len(n) : m[i] = n[i]
      /\ m[Len(n) + 1] = c
  BY <1>2, SentCalls
<1> HIDE DEF c, m
<1>4. \A i \in DOMAIN m : (i \in DOMAIN n /\ m[i] = n[i]) \/ i = Len(n) + 1
  BY <1>2, <1>3
<1>5. \A i, j \in DOMAIN m : ClaimAt(m, i) /\ ClaimAt(m, j) => i = j
  BY <1>1, <1>3, <1>4 DEF NetOK, NoClaim, ClaimAt
<1>6. NoClaim(n) /\ kind # "claim" => NoClaim(m)
  BY <1>1, <1>3, <1>4 DEF NoClaim, ClaimAt
<1>7. NetOK(m, u) /\ (NoClaim(n) /\ kind # "claim" => NoClaim(m))
  BY <1>2, <1>3, <1>5, <1>6 DEF NetOK
<1> QED BY <1>7 DEF m

\* One call is replaced by what it becomes when it is answered.
LEMMA NetReplaced ==
  ASSUME NEW n, NEW u, NetOK(n, u), NEW i \in DOMAIN n, NEW c \in Good(u),
         c.kind = n[i].kind, c.here = n[i].here
  PROVE  /\ NetOK([n EXCEPT ![i] = c], u)
         /\ NoClaim(n) => NoClaim([n EXCEPT ![i] = c])
<1> DEFINE m == [n EXCEPT ![i] = c]
<1>1. n \in Seq(Good(u)) /\ Len(n) \in Nat /\ DOMAIN n = 1..Len(n)
  BY LenProperties DEF NetOK
<1>2. m \in Seq(Good(u)) /\ Len(m) = Len(n)
  BY <1>1, ExceptSeq
<1>3. DOMAIN m = DOMAIN n
  OBVIOUS
<1>4. \A j \in DOMAIN n : ClaimAt(m, j) => ClaimAt(n, j)
  BY DEF ClaimAt
<1> HIDE DEF m
<1>5. NetOK(m, u) /\ (NoClaim(n) => NoClaim(m))
  BY <1>2, <1>3, <1>4 DEF NetOK, NoClaim
<1> QED BY <1>5 DEF m

LEMMA NetSettled ==
  ASSUME NEW n, NEW u, NetOK(n, u), NEW i \in DOMAIN n
  PROVE  /\ NetOK(Settled(n, i), u)
         /\ NoClaim(n) \/ ClaimAt(n, i) => NoClaim(Settled(n, i))
<1> DEFINE m == Settled(n, i)
<1>1. /\ n \in Seq(Good(u)) /\ Len(n) \in Nat /\ DOMAIN n = 1..Len(n)
      /\ Len(n) <= MaxCalls
  BY LenProperties DEF NetOK
<1>2. /\ m \in Seq(Good(u)) /\ Len(m) = Len(n) - 1 /\ DOMAIN m = 1..Len(n) - 1
      /\ \A j \in 1..Len(n) - 1 :
           From(i, j) \in DOMAIN n \ {i} /\ m[j] = n[From(i, j)]
      /\ \A j, k \in 1..Len(n) - 1 : From(i, j) = From(i, k) => j = k
  <2>1. n \in Seq(Good(u)) /\ i \in DOMAIN n
    BY <1>1
  <2> QED BY ONLY <2>1, SettledCalls DEF m
<1>3. /\ m \in Seq(Good(u)) /\ Len(m) = Len(n) - 1 /\ DOMAIN m = 1..Len(n) - 1
      /\ \A j \in DOMAIN m : From(i, j) \in DOMAIN n \ {i} /\ m[j] = n[From(i, j)]
      /\ \A j, k \in DOMAIN m : From(i, j) = From(i, k) => j = k
  BY <1>2
<1> HIDE DEF m
<1>4. \A j \in DOMAIN m : ClaimAt(m, j) <=> ClaimAt(n, From(i, j))
  BY <1>3 DEF ClaimAt
<1>5. NoClaim(n) \/ ClaimAt(n, i) => NoClaim(m)
  BY <1>3, <1>4 DEF NetOK, NoClaim
<1>6. \A j, k \in DOMAIN m : ClaimAt(m, j) /\ ClaimAt(m, k) => j = k
  BY <1>3, <1>4 DEF NetOK
<1>7. Len(n) - 1 <= MaxCalls
  BY <1>1, MaxCallsAssumption
<1> QED BY <1>3, <1>5, <1>6, <1>7 DEF NetOK, m

\* A page is left: nobody listens to its calls any more.
LEMMA NetLeft ==
  ASSUME NEW n, NEW u, NetOK(n, u), NEW v
  PROVE  NetOK(Left(n), v) /\ NoClaim(Left(n)) /\ Len(Left(n)) = Len(n)
<1> DEFINE m == Left(n)
<1>1. n \in Seq(Good(u)) /\ Len(n) \in Nat /\ DOMAIN n = 1..Len(n)
  BY LenProperties DEF NetOK
<1>2. \A i \in 1..Len(n) : n[i] \in Good(u)
  BY <1>1, ElementOfSeq
<1>3. m = [i \in 1..Len(n) |-> IF n[i].kind \in PageKinds THEN [n[i] EXCEPT !.here = FALSE]
                                                      ELSE n[i]]
  BY <1>1 DEF Left, Unheard
<1> HIDE DEF m
<1>4. \A i \in 1..Len(n) : m[i] \in Good(v)
  <2> SUFFICES ASSUME NEW i \in 1..Len(n) PROVE m[i] \in Good(v)
    OBVIOUS
  <2>1. n[i] \in Packets /\ Honest(n[i])
    BY <1>2 DEF Good
  <2>2. CASE n[i].kind \in PageKinds
    <3>1. m[i] = [n[i] EXCEPT !.here = FALSE]
      BY <1>3, <2>2
    <3>2. m[i] \in Packets /\ ~ m[i].here
      BY <2>1, <3>1 DEF Packets
    <3>3. Honest(m[i])
      BY <2>1, <3>1 DEF Honest, Packets
    <3> QED BY <3>2, <3>3 DEF Good, Heard
  <2>3. CASE n[i].kind \notin PageKinds
    BY <1>3, <2>1, <2>3 DEF Good, Heard, PageKinds, Packets, Kinds
  <2> QED BY <2>2, <2>3
<1>5. \A i \in 1..Len(n) : ~ ClaimAt(m, i)
  <2> SUFFICES ASSUME NEW i \in 1..Len(n) PROVE ~ ClaimAt(m, i)
    OBVIOUS
  <2>1. n[i] \in Packets
    BY <1>2 DEF Good
  <2> QED BY <1>3, <2>1 DEF ClaimAt, PageKinds, Kinds, Packets
<1>6. m \in Seq(Good(v)) /\ Len(m) = Len(n) /\ DOMAIN m = DOMAIN n
  BY <1>1, <1>3, <1>4, SeqDef, LenProperties
<1>7. NetOK(m, v) /\ NoClaim(m)
  BY <1>1, <1>5, <1>6 DEF NetOK, NoClaim
<1> QED BY <1>6, <1>7 DEF m

LEMMA NetAnswered ==
  ASSUME NEW n, NEW u, NetOK(n, u), NEW i \in DOMAIN n
  PROVE  n[i] \in Packets /\ Honest(n[i]) /\ Heard(n[i], u)
BY LenProperties, ElementOfSeq DEF NetOK, Good

LEMMA NetServed ==
  ASSUME NEW n, NEW u, NetOK(n, u), NEW i \in DOMAIN n, NEW d \in Payloads,
         n[i].kind = "me" => d = n[i].arg.user,
         n[i].kind \in {"login", "register", "recover", "claim"} => d \in Tokens
  PROVE  /\ NetOK(Served(n, i, d), u)
         /\ NoClaim(n) => NoClaim(Served(n, i, d))
<1> DEFINE c == [n[i] EXCEPT !.stage = "answered", !.ok = TRUE, !.data = d]
<1>1. n[i] \in Packets /\ Honest(n[i]) /\ Heard(n[i], u)
  BY NetAnswered
<1>2. c \in Packets /\ c.kind = n[i].kind /\ c.here = n[i].here
  BY <1>1 DEF Packets
<1>3. Honest(c) /\ Heard(c, u)
  BY <1>1 DEF Honest, Heard, Packets
<1>4. Served(n, i, d) = [n EXCEPT ![i] = c]
  BY DEF Served
<1> HIDE DEF c
<1>5. c \in Good(u)
  BY <1>2, <1>3 DEF Good
<1>6. /\ NetOK([n EXCEPT ![i] = c], u)
      /\ NoClaim(n) => NoClaim([n EXCEPT ![i] = c])
  BY <1>2, <1>5, NetReplaced
<1> QED BY <1>4, <1>6

LEMMA NetRefused ==
  ASSUME NEW n, NEW u, NetOK(n, u), NEW i \in DOMAIN n, NEW d \in Payloads
  PROVE  /\ NetOK(Refused(n, i, d), u)
         /\ NoClaim(n) => NoClaim(Refused(n, i, d))
<1> DEFINE c == [n[i] EXCEPT !.stage = "answered", !.ok = FALSE, !.data = d]
<1>1. n[i] \in Packets /\ Honest(n[i]) /\ Heard(n[i], u)
  BY NetAnswered
<1>2. c \in Packets /\ c.kind = n[i].kind /\ c.here = n[i].here
  BY <1>1 DEF Packets
<1>3. Honest(c) /\ Heard(c, u)
  BY <1>1 DEF Honest, Heard, Packets
<1>4. Refused(n, i, d) = [n EXCEPT ![i] = c]
  BY DEF Refused
<1> HIDE DEF c
<1>5. c \in Good(u)
  BY <1>2, <1>3 DEF Good
<1>6. /\ NetOK([n EXCEPT ![i] = c], u)
      /\ NoClaim(n) => NoClaim([n EXCEPT ![i] = c])
  BY <1>2, <1>5, NetReplaced
<1> QED BY <1>4, <1>6

-----------------------------------------------------------------------------
(* The backend *)

LEMMA BackendStep ==
  ASSUME SessionConstants, IndInv, Backend
  PROVE  IndInv'
<1> USE DEF IndInv
<1>1. /\ NetOK(net, ui) /\ Shapes
      /\ \A i \in DOMAIN net : net[i] \in Packets /\ Honest(net[i])
  BY NetAnswered
<1>2. \A u \in Users : Issued(u) \in Tokens
  BY <1>1 DEF Issued, Tokens, Shapes
<1>3. /\ NetOK(net', ui) /\ (NoClaim(net) => NoClaim(net'))
      /\ srv' \in [known : SUBSET Users, gen : [Users -> 0..MaxGen],
                   link : {"open", "used", "expired"}]
  <2>1. CASE ServeMe
    <3> PICK i \in Waiting(net, "me") :
          /\ net' = IF Valid(net[i].arg) THEN Served(net, i, net[i].arg.user)
                                        ELSE Refused(net, i, "unauthorized")
          /\ UNCHANGED srv
      BY <2>1 DEF ServeMe
    <3>1. i \in DOMAIN net /\ net[i].kind = "me" /\ net[i].stage = "sent"
      BY DEF Waiting
    <3>2. net[i].arg.user \in Payloads
      BY <1>1, <3>1 DEF Honest, Tokens, Payloads
    <3>3. "unauthorized" \in Payloads
      BY DEF Payloads
    <3> QED BY <1>1, <3>1, <3>2, <3>3, NetServed, NetRefused DEF Shapes
  <2>2. CASE ServeLogin
    <3> PICK i \in Waiting(net, "login") :
          /\ net[i].arg.user \in srv.known
          /\ net' = Served(net, i, Issued(net[i].arg.user))
          /\ UNCHANGED srv
      BY <2>2 DEF ServeLogin
    <3>1. i \in DOMAIN net /\ net[i].kind = "login"
      BY DEF Waiting
    <3>2. Issued(net[i].arg.user) \in Tokens
      BY <1>1, <1>2, <3>1 DEF Shapes
    <3> QED BY <1>1, <3>1, <3>2, NetServed DEF Shapes, Payloads
  <2>3. CASE ServeRegister
    <3> PICK i \in Waiting(net, "register"), u \in Users \ srv.known :
          /\ srv' = [srv EXCEPT !.known = @ \cup {u}]
          /\ net' = Served(net, i, Issued(u))
      BY <2>3 DEF ServeRegister
    <3>1. i \in DOMAIN net /\ net[i].kind = "register"
      BY DEF Waiting
    <3> QED BY <1>1, <1>2, <3>1, NetServed DEF Shapes, Payloads
  <2>4. CASE ServeRecover
    <3> PICK i \in Waiting(net, "recover"), u \in srv.known :
          /\ srv.gen[u] < MaxGen
          /\ srv' = [srv EXCEPT !.gen[u] = @ + 1]
          /\ net' = Served(net, i, [user |-> u, gen |-> srv.gen[u] + 1])
      BY <2>4 DEF ServeRecover
    <3>1. i \in DOMAIN net /\ net[i].kind = "recover"
      BY DEF Waiting
    <3>2. u \in Users /\ srv.gen[u] + 1 \in 0..MaxGen
      BY <1>1 DEF Shapes, SessionConstants
    <3>3. [user |-> u, gen |-> srv.gen[u] + 1] \in Tokens
      BY <3>2 DEF Tokens
    <3> QED BY <1>1, <3>1, <3>2, <3>3, NetServed DEF Shapes, Payloads
  <2>5. CASE ServeClaim
    <3> PICK i \in Waiting(net, "claim"), u \in Users \ Admins :
          IF srv.link = "open" /\ u \in srv.known
          THEN /\ net' = Served(net, i, Issued(u))
               /\ srv' = [srv EXCEPT !.link = "used"]
          ELSE /\ net' = Refused(net, i, srv.link)
               /\ UNCHANGED srv
      BY <2>5 DEF ServeClaim
    <3>1. i \in DOMAIN net /\ net[i].kind = "claim" /\ net[i].stage = "sent"
      BY DEF Waiting
    <3>2. Issued(u) \in Tokens /\ Issued(u) \in Payloads /\ srv.link \in Payloads
      BY <1>1, <1>2 DEF Shapes, Payloads
    <3> QED BY <1>1, <3>1, <3>2, NetServed, NetRefused DEF Shapes
  <2>6. CASE ServeInvitation
    <3> PICK kind \in {"preview", "accept"} :
          \E i \in Waiting(net, kind) : net' = Served(net, i, None) /\ UNCHANGED srv
      BY <2>6 DEF ServeInvitation
    <3> PICK i \in Waiting(net, kind) : net' = Served(net, i, None) /\ UNCHANGED srv
      OBVIOUS
    <3>1. i \in DOMAIN net /\ net[i].kind = kind
      BY DEF Waiting
    <3> QED BY <1>1, <3>1, NetServed DEF Shapes, Payloads
  <2>7. CASE ServeRefusal
    <3> PICK i \in DOMAIN net :
          net[i].stage = "sent" /\ net' = Refused(net, i, "refused") /\ UNCHANGED srv
      BY <2>7 DEF ServeRefusal
    <3> QED BY <1>1, NetRefused DEF Shapes, Payloads
  <2>8. CASE AnswerLost
    <3> PICK i \in DOMAIN net : net' = Refused(net, i, "refused") /\ UNCHANGED srv
      BY <2>8 DEF AnswerLost, Coming
    <3> QED BY <1>1, NetRefused DEF Shapes, Payloads
  <2> QED BY <2>1, <2>2, <2>3, <2>4, <2>5, <2>6, <2>7, <2>8 DEF Backend
<1>4. UNCHANGED <<ui, store, hist>>
  BY DEF Backend
<1>5. Shapes' /\ NetOK(net, ui)' /\ PageOK(ui)' /\ ClaimOver'
  BY <1>1, <1>3, <1>4 DEF Shapes, NetOK, PageOK, ClaimOver, NoClaim, ClaimAt, Good, Heard
<1>6. SessionAgrees' /\ AdminToken' /\ AdminDoorForAdmins'
  BY <1>4 DEF SessionAgrees, AdminToken, AdminDoorForAdmins
<1> QED BY <1>5, <1>6

-----------------------------------------------------------------------------
(* The parts of the invariant that a continuation or a click leaves alone *)

LEMMA AtScreen ==
  ASSUME NEW u \in Screens, NEW p \in Pages
  PROVE  /\ At(u, p) \in Screens
         /\ At(u, p).page = p /\ At(u, p).at = Fresh /\ At(u, p).dialog = FALSE
         /\ At(u, p).user = u.user /\ At(u, p).loading = u.loading
         /\ At(u, p).next = u.next
<1> DEFINE v == [u EXCEPT !.page = p, !.at = Fresh, !.dialog = FALSE]
<1>1. Fresh \in [busy : BOOLEAN, status : Statuses, code : BOOLEAN, called : BOOLEAN,
                 effects : 0..2]
  BY DEF Fresh, Statuses
<1>2. v \in Screens
  BY <1>1 DEF Screens
<1>3. /\ v.page = p /\ v.at = Fresh /\ v.dialog = FALSE
      /\ v.user = u.user /\ v.loading = u.loading /\ v.next = u.next
  BY DEF Screens
<1> QED BY <1>2, <1>3 DEF At

\* Nobody signs in or out.
LEMMA SessionKept ==
  ASSUME IndInv, UNCHANGED store, ui'.user = ui.user, ui'.loading = ui.loading,
         hist'.crossed = hist.crossed, hist'.adminDoor = hist.adminDoor
  PROVE  SessionAgrees' /\ AdminToken' /\ AdminDoorForAdmins'
BY DEF IndInv, SessionAgrees, AdminToken, AdminDoorForAdmins

\* The page that is shown is left.
LEMMA PageLeft ==
  ASSUME NEW n, NetOK(n, ui), net' = Left(n), ~ hist'.claimed,
         ui'.at = Fresh, ui'.dialog = FALSE
  PROVE  NetOK(net, ui)' /\ PageOK(ui)' /\ ClaimOver'
<1>1. NetOK(Left(n), ui')
  BY NetLeft
<1> QED BY <1>1 DEF PageOK, ClaimOver, Fresh

\* The page stays, with what the claim page knows of its call.
LEMMA PageStays ==
  ASSUME IndInv, NetOK(net', ui), NoClaim(net) => NoClaim(net'),
         ui'.page = ui.page, ui'.at.called = ui.at.called, ui'.at.status = ui.at.status,
         hist'.claimed = hist.claimed
  PROVE  NetOK(net, ui)' /\ ClaimOver'
<1>1. NetOK(net', ui')
  BY NetSame
<1> QED BY <1>1 DEF IndInv, ClaimOver

LEMMA NetEmpty == \A u : NetOK(<< >>, u) /\ NoClaim(<< >>)
<1> SUFFICES ASSUME NEW u PROVE NetOK(<< >>, u) /\ NoClaim(<< >>)
  OBVIOUS
<1>1. << >> \in Seq(Good(u)) /\ Len(<< >>) = 0 /\ DOMAIN << >> = 1..Len(<< >>)
  BY EmptySeq, LenProperties
<1>2. DOMAIN << >> = {}
  BY <1>1
<1> QED BY <1>1, <1>2, MaxCallsAssumption DEF NetOK, NoClaim

LEMMA Settling ==
  ASSUME IndInv, NEW i \in DOMAIN net
  PROVE  /\ net[i] \in Packets /\ Honest(net[i]) /\ Heard(net[i], ui)
         /\ NetOK(Settled(net, i), ui)
         /\ NoClaim(net) \/ ClaimAt(net, i) => NoClaim(Settled(net, i))
BY NetAnswered, NetSettled DEF IndInv

-----------------------------------------------------------------------------
(* AuthProvider and the router *)

LEMMA MeAnsweredStep ==
  ASSUME SessionConstants, IndInv, MeAnswered
  PROVE  IndInv'
<1> PICK i \in Answered(net, "me") :
      /\ net' = Settled(net, i)
      /\ hist' = [hist EXCEPT !.crossed = @ \/ Overtaken(net[i].arg)]
      /\ IF net[i].ok
         THEN /\ ui' = [ui EXCEPT !.user = net[i].data, !.loading = FALSE]
              /\ UNCHANGED store
         ELSE /\ ui' = [ui EXCEPT !.user = None, !.loading = FALSE]
              /\ ClearToken
      /\ UNCHANGED srv
  BY DEF MeAnswered
<1>1. i \in DOMAIN net /\ net[i].kind = "me"
  BY DEF Answered
<1>2. /\ net[i].arg \in Tokens /\ net[i].arg.user \in Users
      /\ net[i].ok => net[i].data = net[i].arg.user
  BY <1>1, Settling DEF Honest, Tokens
<1>3. hist'.crossed = (hist.crossed \/ net[i].arg # store.token)
  BY DEF IndInv, Shapes, Overtaken
<1>4. Shapes'
  <2>1. PICK b \in BOOLEAN : hist' = [hist EXCEPT !.crossed = b]
    <3>1. (hist.crossed \/ Overtaken(net[i].arg)) \in BOOLEAN
      OBVIOUS
    <3> QED BY <3>1
  <2>2. hist' \in [crossed : BOOLEAN, claimed : BOOLEAN, adminDoor : BOOLEAN, forms : Nat]
    BY <2>1 DEF IndInv, Shapes
  <2>3. PICK a \in Users \cup {None} : ui' = [ui EXCEPT !.user = a, !.loading = FALSE]
    BY <1>2
  <2>4. ui' \in Screens
    BY <2>3 DEF IndInv, Shapes, Screens
  <2>5. store' \in [token : Tokens \cup {None}]
    BY DEF IndInv, Shapes, ClearToken
  <2> QED BY <2>2, <2>4, <2>5 DEF IndInv, Shapes
<1>5. NetOK(net, ui)' /\ ClaimOver'
  BY <1>1, Settling, PageStays DEF IndInv, Shapes, Screens
<1>6. PageOK(ui)'
  BY DEF IndInv, Shapes, Screens, PageOK
<1>7. SessionAgrees' /\ AdminToken' /\ AdminDoorForAdmins'
  <2>1. CASE net[i].ok
    <3>1. ui'.user = net[i].arg.user /\ store' = store /\ hist'.adminDoor = hist.adminDoor
      BY <1>2, <2>1 DEF IndInv, Shapes, Screens
    <3> QED BY <1>2, <1>3, <3>1
            DEF IndInv, SessionAgrees, AdminToken, AdminDoorForAdmins, IsAdmin, SessionConstants
  <2>2. CASE ~ net[i].ok
    <3>1. ui'.user = None /\ store'.token = None
      BY <2>2 DEF IndInv, Shapes, Screens, ClearToken
    <3> QED BY <3>1 DEF SessionAgrees, AdminToken, AdminDoorForAdmins
  <2> QED BY <2>1, <2>2
<1> QED BY <1>4, <1>5, <1>6, <1>7 DEF IndInv

LEMMA RefreshMeStep ==
  ASSUME SessionConstants, IndInv, RefreshMe
  PROVE  IndInv'
<1>1. /\ store.token \in Tokens /\ Room(net, 1) /\ net' = Sent(net, "me", store.token)
      /\ UNCHANGED <<ui, store, srv, hist>>
  BY DEF IndInv, Shapes, RefreshMe, LoadUser
<1>2. Call("me", store.token) \in Good(ui)
  BY <1>1 DEF Call, Good, Packets, Honest, Heard, Kinds, Payloads
<1>3. NetOK(net', ui) /\ (NoClaim(net) => NoClaim(net'))
  BY <1>1, <1>2, NetSent DEF IndInv
<1>4. NetOK(net, ui)' /\ ClaimOver'
  BY <1>1, <1>3, PageStays
<1>5. SessionAgrees' /\ AdminToken' /\ AdminDoorForAdmins'
  BY <1>1, SessionKept
<1> QED BY <1>1, <1>4, <1>5 DEF IndInv, Shapes, PageOK

LEMMA VisitStep ==
  ASSUME SessionConstants, IndInv, Visit
  PROVE  IndInv'
<1> PICK p \in Pages \ {ui.page} :
      /\ p = "invite" => Room(net, 1)
      /\ ui' = [At(ui, p) EXCEPT !.next = NextOf(p)]
      /\ net' = IF p = "invite" THEN Sent(Left(net), "preview", None) ELSE Left(net)
      /\ hist' = [hist EXCEPT !.claimed = FALSE]
      /\ UNCHANGED <<store, srv>>
  BY DEF Visit
<1>1. NextOf(p) \in {"profile", "invite"}
  BY DEF IndInv, Shapes, Screens, NextOf
<1>2. /\ ui' \in Screens /\ ui'.page = p /\ ui'.at = Fresh /\ ui'.dialog = FALSE
      /\ ui'.user = ui.user /\ ui'.loading = ui.loading
  BY <1>1, AtScreen DEF IndInv, Shapes, Screens
<1>3. Shapes'
  BY <1>2 DEF IndInv, Shapes
<1>4. /\ ~ hist'.claimed /\ hist'.crossed = hist.crossed
      /\ hist'.adminDoor = hist.adminDoor
  BY DEF IndInv, Shapes
<1>5. SessionAgrees' /\ AdminToken' /\ AdminDoorForAdmins'
  BY <1>2, <1>4, SessionKept
<1>6. NetOK(Left(net), ui') /\ NoClaim(Left(net)) /\ Len(Left(net)) = Len(net)
  BY NetLeft DEF IndInv
<1>7. NetOK(net, ui)'
  <2>1. CASE p = "invite"
    <3>1. Call("preview", None) \in Good(ui')
      BY <1>2, <2>1 DEF Call, Good, Packets, Honest, Heard, Kinds, Payloads
    <3>2. Room(Left(net), 1)
      BY <1>6, <2>1 DEF Room
    <3> QED BY <1>6, <2>1, <3>1, <3>2, NetSent
  <2> QED BY <1>6, <2>1
<1>8. PageOK(ui)' /\ ClaimOver'
  BY <1>2, <1>4 DEF PageOK, ClaimOver, Fresh
<1> QED BY <1>3, <1>5, <1>7, <1>8 DEF IndInv

LEMMA ReloadStep ==
  ASSUME SessionConstants, IndInv, Reload
  PROVE  IndInv'
<1>1. /\ ui' = [Provider EXCEPT !.page = IF ui.page = "claim" THEN "home" ELSE ui.page,
                                !.loading = store.token # None,
                                !.at.status = IF ui.page = "invite" THEN "error" ELSE "loading"]
      /\ net' = IF store.token = None THEN << >> ELSE Sent(<< >>, "me", store.token)
      /\ hist' = [hist EXCEPT !.claimed = FALSE]
      /\ UNCHANGED <<store, srv>>
  BY DEF Reload
<1>2. /\ ui' \in Screens /\ ui'.user = None /\ ui'.loading = (store.token # None)
      /\ ~ ui'.at.code /\ ~ ui'.dialog
  <2>1. PICK p \in Pages, l \in BOOLEAN, status \in Statuses :
          /\ ui' = [Provider EXCEPT !.page = p, !.loading = l, !.at.status = status]
          /\ l = (store.token # None)
    <3>1. (store.token # None) \in BOOLEAN
      OBVIOUS
    <3>2. (IF ui.page = "invite" THEN "error" ELSE "loading") \in Statuses
      BY DEF Statuses
    <3>3. (IF ui.page = "claim" THEN "home" ELSE ui.page) \in Pages
      BY DEF IndInv, Shapes, Screens, Pages
    <3> QED BY <1>1, <3>1, <3>2, <3>3
  <2>2. ui' = [user |-> None, loading |-> l, page |-> p, next |-> "profile",
               dialog |-> FALSE,
               at |-> [busy |-> FALSE, status |-> status, code |-> FALSE,
                       called |-> FALSE, effects |-> 0]]
    BY <2>1 DEF Provider, Fresh
  <2>3. ui' \in Screens
    BY <2>2 DEF Screens
  <2>4. ui'.user = None /\ ui'.loading = l /\ ui'.at.code = FALSE /\ ui'.dialog = FALSE
    BY <2>2
  <2> QED BY <2>1, <2>3, <2>4
<1>3. Shapes'
  BY <1>1, <1>2 DEF IndInv, Shapes
<1>4. /\ ~ hist'.claimed /\ hist'.crossed = hist.crossed
      /\ hist'.adminDoor = hist.adminDoor
  BY <1>1 DEF IndInv, Shapes
<1>5. NetOK(net, ui)'
  <2>1. CASE store.token # None
    <3>1. Call("me", store.token) \in Good(ui')
      BY <2>1 DEF IndInv, Shapes, Call, Good, Packets, Honest, Heard, Kinds, Payloads
    <3>2. Room(<< >>, 1)
      BY EmptySeq, MaxCallsAssumption DEF Room
    <3> QED BY <1>1, <2>1, <3>1, <3>2, NetEmpty, NetSent
  <2> QED BY <1>1, <2>1, NetEmpty
<1>6. PageOK(ui)' /\ ClaimOver'
  BY <1>2, <1>4 DEF PageOK, ClaimOver
<1>7. SessionAgrees' /\ AdminToken' /\ AdminDoorForAdmins'
  BY <1>1, <1>2, <1>4 DEF IndInv, SessionAgrees, AdminToken, AdminDoorForAdmins
<1> QED BY <1>3, <1>5, <1>6, <1>7 DEF IndInv

-----------------------------------------------------------------------------
(* The pages with a form *)

LEMMA SubmitStep ==
  ASSUME SessionConstants, IndInv, NEW kind, NEW arg, Submit(kind, arg),
         \/ kind = "login" /\ arg \in Logins
         \/ kind \in {"register", "recover"} /\ arg = None /\ ui.page = kind
  PROVE  IndInv'
<1>1. /\ Room(net, 1) /\ net' = Sent(net, kind, arg)
      /\ ui' = [ui EXCEPT !.at.busy = TRUE]
      /\ hist' = [hist EXCEPT !.forms = @ + 1]
      /\ UNCHANGED <<store, srv>>
  BY DEF Submit, Counted
<1>2. Shapes'
  <2>1. ui' \in Screens
    BY <1>1 DEF IndInv, Shapes, Screens
  <2>2. hist' \in [crossed : BOOLEAN, claimed : BOOLEAN, adminDoor : BOOLEAN, forms : Nat]
    BY <1>1 DEF IndInv, Shapes
  <2> QED BY <1>1, <2>1, <2>2 DEF IndInv, Shapes
<1>3. /\ ui'.page = ui.page /\ ui'.user = ui.user /\ ui'.loading = ui.loading
      /\ ui'.dialog = ui.dialog /\ ui'.at.called = ui.at.called
      /\ ui'.at.status = ui.at.status /\ ui'.at.code = ui.at.code
  BY <1>1 DEF IndInv, Shapes, Screens
<1>4. /\ hist'.claimed = hist.claimed /\ hist'.crossed = hist.crossed
      /\ hist'.adminDoor = hist.adminDoor
  BY <1>1 DEF IndInv, Shapes
<1>5. Call(kind, arg) \in Good(ui)
  BY DEF Call, Good, Packets, Honest, Heard, Kinds, Payloads
<1>6. NetOK(net', ui) /\ (NoClaim(net) => NoClaim(net'))
  BY <1>1, <1>5, NetSent DEF IndInv
<1>7. NetOK(net, ui)' /\ ClaimOver'
  BY <1>3, <1>4, <1>6, PageStays
<1>8. SessionAgrees' /\ AdminToken' /\ AdminDoorForAdmins'
  BY <1>1, <1>3, <1>4, SessionKept
<1>9. PageOK(ui)'
  BY <1>3 DEF IndInv, PageOK
<1> QED BY <1>2, <1>7, <1>8, <1>9 DEF IndInv

LEMMA FormStep ==
  ASSUME SessionConstants, IndInv,
         LoginSubmit \/ AdminLoginSubmit \/ RegisterSubmit \/ RecoverSubmit
  PROVE  IndInv'
<1>1. CASE LoginSubmit
  <2> PICK u \in Users : Submit("login", [user |-> u, door |-> "login", next |-> ui.next])
    BY <1>1 DEF LoginSubmit
  <2>1. [user |-> u, door |-> "login", next |-> ui.next] \in Logins
    BY DEF IndInv, Shapes, Screens, Logins
  <2> QED BY <2>1, SubmitStep
<1>2. CASE AdminLoginSubmit
  <2> PICK u \in Users : Submit("login", [user |-> u, door |-> "admin_login", next |-> "admin"])
    BY <1>2 DEF AdminLoginSubmit
  <2>1. [user |-> u, door |-> "admin_login", next |-> "admin"] \in Logins
    BY DEF Logins
  <2> QED BY <2>1, SubmitStep
<1>3. CASE RegisterSubmit
  BY <1>3, SubmitStep DEF RegisterSubmit, RegisterForm
<1>4. CASE RecoverSubmit
  BY <1>4, SubmitStep DEF RecoverSubmit, RecoverForm
<1> QED BY <1>1, <1>2, <1>3, <1>4

\* Signing in, from a form that is there or gone: account and token together.
LEMMA SignedIn ==
  ASSUME SessionConstants, NEW t \in Tokens, ui'.user = t.user, store'.token = t,
         hist'.adminDoor => t.user \in Admins
  PROVE  SessionAgrees' /\ AdminToken' /\ AdminDoorForAdmins'
<1>1. t.user \in Users /\ t # None
  BY DEF SessionConstants, Tokens
<1> QED BY <1>1 DEF SessionAgrees, AdminToken, AdminDoorForAdmins, IsAdmin, SessionConstants

\* Signing out, or being refused.
LEMMA SignedOut ==
  ASSUME ui'.user = None, store'.token = None
  PROVE  SessionAgrees' /\ AdminToken' /\ AdminDoorForAdmins'
BY DEF SessionAgrees, AdminToken, AdminDoorForAdmins

\* A form that failed is free again, if it is still there.
LEMMA FailedScreen ==
  ASSUME ui \in Screens, NEW c
  PROVE  /\ FormFailed(c) \in Screens
         /\ FormFailed(c).page = ui.page /\ FormFailed(c).user = ui.user
         /\ FormFailed(c).loading = ui.loading /\ FormFailed(c).dialog = ui.dialog
         /\ FormFailed(c).at.called = ui.at.called
         /\ FormFailed(c).at.status = ui.at.status
         /\ FormFailed(c).at.code = ui.at.code
BY DEF FormFailed, Screens

LEMMA FormFails ==
  ASSUME IndInv, NEW i \in DOMAIN net, ui' = FormFailed(net[i]),
         net' = Settled(net, i), UNCHANGED <<store, srv, hist>>
  PROVE  IndInv'
<1>1. /\ ui' \in Screens
      /\ ui'.page = ui.page /\ ui'.user = ui.user /\ ui'.loading = ui.loading
      /\ ui'.dialog = ui.dialog /\ ui'.at.called = ui.at.called
      /\ ui'.at.status = ui.at.status /\ ui'.at.code = ui.at.code
  BY FailedScreen DEF IndInv, Shapes
<1>2. NetOK(net, ui)' /\ ClaimOver'
  BY <1>1, Settling, PageStays
<1>3. SessionAgrees' /\ AdminToken' /\ AdminDoorForAdmins'
  BY <1>1, SessionKept
<1>4. Shapes' /\ PageOK(ui)'
  BY <1>1 DEF IndInv, Shapes, PageOK
<1> QED BY <1>2, <1>3, <1>4 DEF IndInv

LEMMA LoginAnsweredStep ==
  ASSUME SessionConstants, IndInv, LoginAnswered
  PROVE  IndInv'
<1> PICK i \in Answered(net, "login") :
      LET c == net[i]
          t == c.data
      IN /\ UNCHANGED srv
         /\ IF ~c.ok
            THEN /\ ui' = FormFailed(c)
                 /\ net' = Settled(net, i)
                 /\ UNCHANGED <<store, hist>>
            ELSE IF c.arg.door = "admin_login" /\ ~AdminDoor(t.user)
            THEN /\ ui' = [FormFailed(c) EXCEPT !.user = None]
                 /\ net' = Settled(net, i)
                 /\ ClearToken
                 /\ UNCHANGED hist
            ELSE IF c.arg.door = "admin_login"
            THEN /\ ui' = [ui EXCEPT !.user = t.user, !.at.busy = IF c.here THEN FALSE ELSE @]
                 /\ net' = Settled(net, i)
                 /\ SetToken(t)
                 /\ hist' = [hist EXCEPT !.adminDoor = TRUE, !.crossed = FALSE]
            ELSE /\ ui' = [At(ui, c.arg.next) EXCEPT !.user = t.user]
                 /\ net' = Left(Settled(net, i))
                 /\ SetToken(t)
                 /\ hist' = [hist EXCEPT !.adminDoor = FALSE, !.crossed = FALSE, !.claimed = FALSE]
  BY DEF LoginAnswered
<1> DEFINE c == net[i]
           t == c.data
<1>1. i \in DOMAIN net /\ c.kind = "login"
  BY DEF Answered
<1>2. /\ c \in Packets /\ c.arg \in Logins /\ (c.ok => t \in Tokens)
      /\ NetOK(Settled(net, i), ui) /\ (NoClaim(net) => NoClaim(Settled(net, i)))
  BY <1>1, Settling DEF Honest
<1>3. UNCHANGED srv /\ ui \in Screens
  BY DEF IndInv, Shapes
<1>4. CASE ~ c.ok
  BY <1>1, <1>3, <1>4, FormFails
<1>5. CASE /\ c.ok /\ c.arg.door = "admin_login" /\ ~ AdminDoor(t.user)
  <2>1. /\ ui' = [FormFailed(c) EXCEPT !.user = None] /\ net' = Settled(net, i)
        /\ store' = [store EXCEPT !.token = None] /\ UNCHANGED hist
    BY <1>5 DEF ClearToken
  <2>2. /\ ui' \in Screens /\ ui'.user = None
        /\ ui'.page = ui.page /\ ui'.dialog = ui.dialog /\ ui'.at.called = ui.at.called
        /\ ui'.at.status = ui.at.status /\ ui'.at.code = ui.at.code
    BY <1>3, <2>1, FailedScreen DEF Screens
  <2>3. Shapes' /\ store'.token = None /\ PageOK(ui)'
    BY <1>3, <2>1, <2>2 DEF IndInv, Shapes, PageOK
  <2>4. NetOK(net, ui)' /\ ClaimOver'
    BY <1>2, <2>1, <2>2, PageStays
  <2> QED BY <2>2, <2>3, <2>4, SignedOut DEF IndInv
<1>6. CASE /\ c.ok /\ c.arg.door = "admin_login" /\ AdminDoor(t.user)
  <2>1. /\ ui' = [ui EXCEPT !.user = t.user, !.at.busy = IF c.here THEN FALSE ELSE @]
        /\ net' = Settled(net, i) /\ store' = [store EXCEPT !.token = t]
        /\ hist' = [hist EXCEPT !.adminDoor = TRUE, !.crossed = FALSE]
    BY <1>6 DEF SetToken
  <2>2. t \in Tokens /\ t.user \in Users /\ t.user \in Admins
    BY <1>2, <1>6 DEF Tokens, AdminDoor, IsAdmin
  <2>3. PICK b \in BOOLEAN : ui' = [ui EXCEPT !.user = t.user, !.at.busy = b]
    BY <1>3, <2>1 DEF Screens
  <2>4. /\ ui' \in Screens /\ ui'.user = t.user
        /\ ui'.page = ui.page /\ ui'.dialog = ui.dialog /\ ui'.at.called = ui.at.called
        /\ ui'.at.status = ui.at.status /\ ui'.at.code = ui.at.code
    BY <1>3, <2>2, <2>3 DEF Screens
  <2>5. /\ Shapes' /\ store'.token = t /\ PageOK(ui)'
        /\ hist'.claimed = hist.claimed
    BY <1>3, <2>1, <2>2, <2>4 DEF IndInv, Shapes, PageOK
  <2>6. NetOK(net, ui)' /\ ClaimOver'
    BY <1>2, <2>1, <2>4, <2>5, PageStays
  <2> QED BY <2>2, <2>4, <2>5, <2>6, SignedIn DEF IndInv
<1>7. CASE c.ok /\ c.arg.door # "admin_login"
  <2>1. /\ ui' = [At(ui, c.arg.next) EXCEPT !.user = t.user]
        /\ net' = Left(Settled(net, i)) /\ store' = [store EXCEPT !.token = t]
        /\ hist' = [hist EXCEPT !.adminDoor = FALSE, !.crossed = FALSE, !.claimed = FALSE]
    BY <1>7 DEF SetToken
  <2>2. t \in Tokens /\ t.user \in Users /\ c.arg.next \in Pages
    BY <1>2, <1>7 DEF Tokens, Logins, Pages
  <2>3. /\ ui' \in Screens /\ ui'.user = t.user /\ ui'.at = Fresh /\ ui'.dialog = FALSE
    BY <1>3, <2>1, <2>2, AtScreen DEF Screens
  <2>4. /\ Shapes' /\ store'.token = t /\ ~ hist'.claimed /\ ~ hist'.adminDoor
    BY <1>3, <2>1, <2>2, <2>3 DEF IndInv, Shapes
  <2>5. NetOK(net, ui)' /\ PageOK(ui)' /\ ClaimOver'
    BY <1>2, <2>1, <2>3, <2>4, PageLeft
  <2> QED BY <2>2, <2>3, <2>4, <2>5, SignedIn DEF IndInv
<1> QED BY <1>4, <1>5, <1>6, <1>7

LEMMA CodeAnsweredStep ==
  ASSUME SessionConstants, IndInv, NEW kind \in {"register", "recover"}, CodeAnswered(kind)
  PROVE  IndInv'
<1> PICK i \in Answered(net, kind) :
      LET c == net[i]
      IN /\ net' = Settled(net, i)
         /\ UNCHANGED srv
         /\ IF ~c.ok
            THEN /\ ui' = FormFailed(c)
                 /\ UNCHANGED <<store, hist>>
            ELSE /\ ui' = IF c.here THEN [ui EXCEPT !.user = c.data.user, !.at.code = TRUE,
                                                    !.at.busy = FALSE]
                                    ELSE [ui EXCEPT !.user = c.data.user]
                 /\ SetToken(c.data)
                 /\ hist' = [hist EXCEPT !.adminDoor = FALSE, !.crossed = FALSE]
  BY DEF CodeAnswered
<1> DEFINE c == net[i]
           t == c.data
<1>1. i \in DOMAIN net /\ c.kind = kind
  BY DEF Answered
<1>2. /\ c.ok => t \in Tokens
      /\ c.here => ui.page = kind
      /\ NetOK(Settled(net, i), ui) /\ (NoClaim(net) => NoClaim(Settled(net, i)))
  BY <1>1, Settling DEF Honest, Heard
<1>3. UNCHANGED srv /\ net' = Settled(net, i) /\ ui \in Screens
  BY DEF IndInv, Shapes
<1>4. CASE ~ c.ok
  BY <1>1, <1>3, <1>4, FormFails
<1>5. CASE c.ok
  <2>1. /\ ui' = IF c.here THEN [ui EXCEPT !.user = t.user, !.at.code = TRUE, !.at.busy = FALSE]
                          ELSE [ui EXCEPT !.user = t.user]
        /\ store' = [store EXCEPT !.token = t]
        /\ hist' = [hist EXCEPT !.adminDoor = FALSE, !.crossed = FALSE]
    BY <1>5 DEF SetToken
  <2>2. t \in Tokens /\ t.user \in Users
    BY <1>2, <1>5 DEF Tokens
  <2>3. /\ ui' \in Screens /\ ui'.user = t.user
        /\ ui'.page = ui.page /\ ui'.dialog = ui.dialog /\ ui'.at.called = ui.at.called
        /\ ui'.at.status = ui.at.status
        /\ ui'.at.code => ui.at.code \/ ui.page = kind
    <3>1. CASE c.here
      <4>1. ui' = [ui EXCEPT !.user = t.user, !.at.code = TRUE, !.at.busy = FALSE]
        BY <2>1, <3>1
      <4>2. ui' \in Screens
        BY <1>3, <2>2, <4>1 DEF Screens
      <4>3. /\ ui'.user = t.user
            /\ ui'.page = ui.page /\ ui'.dialog = ui.dialog
            /\ ui'.at.called = ui.at.called /\ ui'.at.status = ui.at.status
        BY <1>3, <4>1 DEF Screens
      <4> QED BY <1>2, <3>1, <4>2, <4>3
    <3>2. CASE ~ c.here
      <4>1. ui' = [ui EXCEPT !.user = t.user]
        BY <2>1, <3>2
      <4> QED BY <1>3, <2>2, <4>1 DEF Screens
    <3> QED BY <3>1, <3>2
  <2>4. Shapes' /\ store'.token = t /\ PageOK(ui)'
    BY <1>3, <2>1, <2>2, <2>3 DEF IndInv, Shapes, PageOK
  <2>5. hist'.claimed = hist.claimed /\ ~ hist'.adminDoor
    BY <2>1 DEF IndInv, Shapes
  <2>6. NetOK(net, ui)' /\ ClaimOver'
    BY <1>2, <1>3, <2>3, <2>5, PageStays
  <2> QED BY <2>2, <2>3, <2>4, <2>5, <2>6, SignedIn DEF IndInv
<1> QED BY <1>4, <1>5

\* The code is put away: it was shown on a page that is not the claim's.
LEMMA CodeDoneStep ==
  ASSUME IndInv, CodeDone
  PROVE  IndInv'
<1>1. /\ ui.at.code /\ ui' = At(ui, ui.next) /\ net' = Left(net)
      /\ UNCHANGED <<store, srv, hist>>
  BY DEF CodeDone, CodePanel
<1>2. ui \in Screens /\ ui.next \in Pages
  BY DEF IndInv, Shapes, Screens, Pages
<1>3. /\ ui' \in Screens /\ ui'.at = Fresh /\ ui'.dialog = FALSE
      /\ ui'.user = ui.user /\ ui'.loading = ui.loading
  BY <1>1, <1>2, AtScreen
<1>4. ~ hist'.claimed
  BY <1>1 DEF IndInv, PageOK, ClaimOver
<1>5. NetOK(net, ui)' /\ PageOK(ui)' /\ ClaimOver'
  BY <1>1, <1>3, <1>4, PageLeft DEF IndInv
<1>6. SessionAgrees' /\ AdminToken' /\ AdminDoorForAdmins'
  BY <1>1, <1>3, SessionKept
<1>7. Shapes'
  BY <1>1, <1>3 DEF IndInv, Shapes
<1> QED BY <1>5, <1>6, <1>7 DEF IndInv

-----------------------------------------------------------------------------
(* The claim page *)

LEMMA ClaimEffectStep ==
  ASSUME SessionConstants, IndInv, ClaimEffect
  PROVE  IndInv'
<1>0. ui \in Screens /\ ui.page = "claim" /\ ui.at.effects < 2
  BY DEF IndInv, Shapes, ClaimEffect
<1>1. CASE MayClaim
  <2>1. /\ ~ ui.at.called /\ Room(net, 1) /\ net' = Sent(net, "claim", None)
        /\ ui' = [ui EXCEPT !.at.effects = @ + 1, !.at.called = TRUE]
        /\ hist' = [hist EXCEPT !.forms = @ + 1]
        /\ UNCHANGED <<store, srv>>
    BY <1>1 DEF ClaimEffect, MayClaim, Counted
  <2>2. ui' \in Screens
    <3>1. PICK e \in 0..2 : ui' = [ui EXCEPT !.at.effects = e, !.at.called = TRUE]
      <4>1. ui.at.effects + 1 \in 0..2
        BY <1>0 DEF Screens
      <4> QED BY <2>1, <4>1
    <3>2. [ui.at EXCEPT !.effects = e, !.called = TRUE]
            \in [busy : BOOLEAN, status : Statuses, code : BOOLEAN, called : BOOLEAN,
                 effects : 0..2]
      BY <1>0 DEF Screens
    <3>3. ui' = [ui EXCEPT !.at = [ui.at EXCEPT !.effects = e, !.called = TRUE]]
      BY <1>0, <3>1 DEF Screens
    <3> QED BY <1>0, <3>2, <3>3 DEF Screens
  <2>3. /\ ui'.page = "claim" /\ ui'.user = ui.user /\ ui'.loading = ui.loading
        /\ ui'.dialog = ui.dialog /\ ui'.at.called = TRUE
        /\ ui'.at.code = ui.at.code
    BY <1>0, <2>1 DEF Screens
  <2>4. /\ hist' \in [crossed : BOOLEAN, claimed : BOOLEAN, adminDoor : BOOLEAN, forms : Nat]
        /\ hist'.claimed = hist.claimed /\ hist'.crossed = hist.crossed
        /\ hist'.adminDoor = hist.adminDoor
    BY <2>1 DEF IndInv, Shapes
  <2>5. NoClaim(net)
    <3> SUFFICES ASSUME NEW i \in DOMAIN net, ClaimAt(net, i) PROVE FALSE
      BY DEF NoClaim
    <3>1. Heard(net[i], ui)
      BY NetAnswered DEF IndInv
    <3> QED BY <2>1, <3>1 DEF Heard, ClaimAt
  <2>6. NetOK(net, ui')
    BY <1>0, <2>3, NetSame DEF IndInv
  <2>7. Call("claim", None) \in Good(ui')
    BY <2>3 DEF Call, Good, Packets, Honest, Heard, Kinds, Payloads
  <2>8. NetOK(net, ui)'
    BY <2>1, <2>5, <2>6, <2>7, NetSent
  <2>9. ~ hist'.claimed
    BY <2>1, <2>4 DEF IndInv, ClaimOver
  <2>10. SessionAgrees' /\ AdminToken' /\ AdminDoorForAdmins'
    BY <2>1, <2>3, <2>4, SessionKept
  <2>11. Shapes' /\ PageOK(ui)' /\ ClaimOver'
    BY <1>0, <2>1, <2>2, <2>3, <2>4, <2>9 DEF IndInv, Shapes, PageOK, ClaimOver
  <2> QED BY <2>8, <2>10, <2>11 DEF IndInv
<1>2. CASE ~ MayClaim
  <2>1. /\ ui' = [ui EXCEPT !.at.effects = @ + 1]
        /\ UNCHANGED <<net, hist, store, srv>>
    BY <1>2 DEF ClaimEffect
  <2>2. ui' \in Screens
    BY <1>0, <2>1 DEF Screens
  <2>3. /\ ui'.page = ui.page /\ ui'.user = ui.user /\ ui'.loading = ui.loading
        /\ ui'.dialog = ui.dialog /\ ui'.at.called = ui.at.called
        /\ ui'.at.status = ui.at.status /\ ui'.at.code = ui.at.code
    BY <1>0, <2>1 DEF Screens
  <2>4. NetOK(net, ui)' /\ ClaimOver'
    BY <2>1, <2>3, PageStays DEF IndInv
  <2>5. SessionAgrees' /\ AdminToken' /\ AdminDoorForAdmins'
    BY <2>1, <2>3, SessionKept
  <2>6. Shapes' /\ PageOK(ui)'
    BY <2>1, <2>2, <2>3 DEF IndInv, Shapes, PageOK
  <2> QED BY <2>4, <2>5, <2>6 DEF IndInv
<1> QED BY <1>1, <1>2

LEMMA ClaimAnsweredStep ==
  ASSUME SessionConstants, IndInv, ClaimAnswered
  PROVE  IndInv'
<1> DEFINE shown(c, s) == IF c.here THEN [ui EXCEPT !.at.status = s] ELSE ui
<1> PICK i \in Answered(net, "claim") :
      /\ net' = Settled(net, i)
      /\ UNCHANGED srv
      /\ IF net[i].ok
         THEN /\ ui' = [shown(net[i], "success") EXCEPT !.user = net[i].data.user]
              /\ SetToken(net[i].data)
              /\ hist' = [hist EXCEPT !.adminDoor = FALSE, !.crossed = FALSE,
                                      !.claimed = @ \/ net[i].here]
         ELSE /\ ui' = shown(net[i], ClaimFailure(net[i].data))
              /\ UNCHANGED <<store, hist>>
  BY DEF ClaimAnswered
<1> DEFINE c == net[i]
           t == c.data
<1>1. i \in DOMAIN net /\ c.kind = "claim"
  BY DEF Answered
<1>2. /\ c.ok => t \in Tokens
      /\ c.here => ui.page = "claim" /\ ui.at.called
      /\ NetOK(Settled(net, i), ui)
      /\ NoClaim(net) \/ c.here => NoClaim(Settled(net, i))
  BY <1>1, Settling DEF Honest, Heard, ClaimAt
<1>3. UNCHANGED srv /\ net' = Settled(net, i) /\ ui \in Screens
  BY DEF IndInv, Shapes
<1>4. \A s \in Statuses :
        /\ shown(c, s) \in Screens
        /\ shown(c, s).page = ui.page /\ shown(c, s).user = ui.user
        /\ shown(c, s).loading = ui.loading /\ shown(c, s).dialog = ui.dialog
        /\ shown(c, s).at.called = ui.at.called /\ shown(c, s).at.code = ui.at.code
        /\ shown(c, s).at.status = IF c.here THEN s ELSE ui.at.status
  BY <1>3 DEF Screens
<1> HIDE DEF shown
<1>6. CASE c.ok
  <2>1. /\ ui' = [shown(c, "success") EXCEPT !.user = t.user]
        /\ store' = [store EXCEPT !.token = t]
        /\ hist' = [hist EXCEPT !.adminDoor = FALSE, !.crossed = FALSE,
                                !.claimed = @ \/ c.here]
    BY <1>6 DEF SetToken
  <2>2. t \in Tokens /\ t.user \in Users /\ "success" \in Statuses
    BY <1>2, <1>6 DEF Tokens, Statuses
  <2>3. /\ ui' \in Screens /\ ui'.user = t.user
        /\ ui'.page = ui.page /\ ui'.dialog = ui.dialog
        /\ ui'.at.called = ui.at.called /\ ui'.at.code = ui.at.code
        /\ ui'.at.status = IF c.here THEN "success" ELSE ui.at.status
    BY <1>4, <2>1, <2>2 DEF Screens
  <2>4. PICK b \in BOOLEAN :
          /\ hist' = [hist EXCEPT !.adminDoor = FALSE, !.crossed = FALSE, !.claimed = b]
          /\ b = (hist.claimed \/ c.here)
    <3>1. (hist.claimed \/ c.here) \in BOOLEAN
      OBVIOUS
    <3> QED BY <2>1, <3>1
  <2>5. /\ hist' \in [crossed : BOOLEAN, claimed : BOOLEAN, adminDoor : BOOLEAN, forms : Nat]
        /\ hist'.adminDoor = FALSE /\ hist'.claimed = b
    BY <2>4 DEF IndInv, Shapes
  <2>6. Shapes' /\ store'.token = t /\ PageOK(ui)'
    BY <1>3, <2>1, <2>2, <2>3, <2>5 DEF IndInv, Shapes, PageOK
  <2>7. NetOK(net, ui)'
    BY <1>2, <1>3, <2>3, NetSame
  <2>8. ClaimOver'
    BY <1>2, <1>3, <2>3, <2>4, <2>5 DEF IndInv, ClaimOver
  <2> QED BY <2>2, <2>3, <2>5, <2>6, <2>7, <2>8, SignedIn DEF IndInv
<1>7. CASE ~ c.ok
  <2>1. ui' = shown(c, ClaimFailure(t)) /\ UNCHANGED <<store, hist>>
    BY <1>7
  <2>2. ClaimFailure(t) \in Statuses
    BY DEF ClaimFailure, Statuses
  <2>3. /\ ui' \in Screens /\ ui'.user = ui.user /\ ui'.loading = ui.loading
        /\ ui'.page = ui.page /\ ui'.dialog = ui.dialog
        /\ ui'.at.called = ui.at.called /\ ui'.at.code = ui.at.code
        /\ ~ c.here => ui'.at.status = ui.at.status
    BY <1>4, <2>1, <2>2
  <2>4. NetOK(net, ui)'
    BY <1>2, <1>3, <2>3, NetSame
  <2>5. ClaimOver'
    <3>1. hist.claimed => ~ c.here
      BY <1>1 DEF IndInv, ClaimOver, NoClaim, ClaimAt
    <3> QED BY <1>2, <1>3, <2>1, <2>3, <3>1 DEF IndInv, ClaimOver
  <2>6. SessionAgrees' /\ AdminToken' /\ AdminDoorForAdmins'
    BY <2>1, <2>3, SessionKept
  <2>7. Shapes' /\ PageOK(ui)'
    BY <1>3, <2>1, <2>3 DEF IndInv, Shapes, PageOK
  <2> QED BY <2>4, <2>5, <2>6, <2>7 DEF IndInv
<1> QED BY <1>6, <1>7

-----------------------------------------------------------------------------
(* Leaving a page while signed in or out as before *)

LEMMA GoneStep ==
  ASSUME IndInv, NEW n, NetOK(n, ui), net' = Left(n), NEW u \in Screens,
         u.user = ui.user, u.loading = ui.loading, u.at = Fresh, u.dialog = FALSE,
         ui' = u, UNCHANGED <<store, srv>>,
         \/ hist' = [hist EXCEPT !.claimed = FALSE]
         \/ hist' = hist /\ ui.page # "claim"
  PROVE  IndInv'
<1>1. /\ hist' \in [crossed : BOOLEAN, claimed : BOOLEAN, adminDoor : BOOLEAN, forms : Nat]
      /\ hist'.crossed = hist.crossed /\ hist'.adminDoor = hist.adminDoor
  BY DEF IndInv, Shapes
<1>2. ~ hist'.claimed
  BY DEF IndInv, Shapes, ClaimOver
<1>3. NetOK(net, ui)' /\ PageOK(ui)' /\ ClaimOver'
  BY <1>2, PageLeft
<1>4. SessionAgrees' /\ AdminToken' /\ AdminDoorForAdmins'
  BY <1>1, SessionKept
<1>5. Shapes'
  BY <1>1 DEF IndInv, Shapes
<1> QED BY <1>3, <1>4, <1>5 DEF IndInv

LEMMA ClaimTimerStep ==
  ASSUME IndInv, ClaimTimer
  PROVE  IndInv'
<1>1. ui \in Screens /\ "profile" \in Pages /\ NetOK(net, ui)
  BY DEF IndInv, Shapes, Pages
<1> QED BY <1>1, AtScreen, GoneStep DEF ClaimTimer

LEMMA RedirectStep ==
  ASSUME IndInv, AdminRedirect \/ ProfileRedirect
  PROVE  IndInv'
<1>1. ui \in Screens /\ NetOK(net, ui)
  BY DEF IndInv, Shapes
<1>2. PICK to \in Pages : Redirect(to) /\ ui.page # "claim"
  <2>1. CASE AdminRedirect
    BY <1>1, <2>1 DEF AdminRedirect, Guarded, Redirect, Pages, Screens
  <2>2. CASE ProfileRedirect
    BY <1>1, <2>2 DEF ProfileRedirect, ProfileGuarded, Redirect, Pages, Screens
  <2> QED BY <2>1, <2>2
<1>3. /\ ui' = [At(ui, to) EXCEPT !.next = "profile"] /\ net' = Left(net)
      /\ UNCHANGED <<store, srv, hist>>
  BY <1>2 DEF Redirect
<1>4. /\ ui' \in Screens /\ ui'.user = ui.user /\ ui'.loading = ui.loading
      /\ ui'.at = Fresh /\ ui'.dialog = FALSE
  BY <1>1, <1>3, AtScreen DEF Screens
<1> QED BY <1>1, <1>2, <1>3, <1>4, GoneStep

LEMMA ConfirmSignOutStep ==
  ASSUME IndInv, ConfirmSignOut
  PROVE  IndInv'
<1> DEFINE to == IF ui.page = "profile" THEN "home" ELSE "admin_login"
<1>1. /\ ui.dialog /\ ui' = [At(ui, to) EXCEPT !.user = None]
      /\ store' = [store EXCEPT !.token = None]
      /\ net' = Left(net)
      /\ hist' = [hist EXCEPT !.crossed = FALSE, !.adminDoor = FALSE]
      /\ UNCHANGED srv
  BY DEF ConfirmSignOut, Logout, ClearToken
<1>2. ui \in Screens /\ to \in Pages /\ NetOK(net, ui)
  BY DEF IndInv, Shapes, Pages
<1> HIDE DEF to
<1>3. ui' \in Screens /\ ui'.user = None /\ ui'.at = Fresh /\ ui'.dialog = FALSE
  BY <1>1, <1>2, AtScreen DEF Screens
<1>4. ~ hist.claimed
  BY <1>1 DEF IndInv, PageOK, ClaimOver
<1>5. Shapes' /\ store'.token = None /\ ~ hist'.claimed
  BY <1>1, <1>3, <1>4 DEF IndInv, Shapes
<1>6. NetOK(net, ui)' /\ PageOK(ui)' /\ ClaimOver'
  BY <1>1, <1>2, <1>3, <1>5, PageLeft
<1> QED BY <1>3, <1>5, <1>6, SignedOut DEF IndInv

LEMMA DialogStep ==
  ASSUME IndInv, AskSignOut \/ Stay
  PROVE  IndInv'
<1>1. PICK b \in BOOLEAN :
        /\ ui' = [ui EXCEPT !.dialog = b]
        /\ b => ui.page \in {"profile", "admin"}
        /\ UNCHANGED <<store, net, srv, hist>>
  BY DEF AskSignOut, Stay
<1>2. ui' \in Screens
  BY <1>1 DEF IndInv, Shapes, Screens
<1>3. /\ ui'.page = ui.page /\ ui'.user = ui.user /\ ui'.loading = ui.loading
      /\ ui'.dialog = b /\ ui'.at = ui.at
  BY <1>1 DEF IndInv, Shapes, Screens
<1>4. NetOK(net, ui)' /\ ClaimOver'
  BY <1>1, <1>3, PageStays DEF IndInv
<1>5. SessionAgrees' /\ AdminToken' /\ AdminDoorForAdmins'
  BY <1>1, <1>3, SessionKept
<1>6. Shapes' /\ PageOK(ui)'
  BY <1>1, <1>2, <1>3 DEF IndInv, Shapes, PageOK
<1> QED BY <1>4, <1>5, <1>6 DEF IndInv

-----------------------------------------------------------------------------
(* The invitation page *)

LEMMA PreviewStep ==
  ASSUME IndInv, PreviewAnswered
  PROVE  IndInv'
<1> PICK i \in Answered(net, "preview") :
      /\ net' = Settled(net, i)
      /\ ui' = IF net[i].here
               THEN [ui EXCEPT !.at.status = IF net[i].ok THEN "ready" ELSE "error"] ELSE ui
      /\ UNCHANGED <<store, srv, hist>>
  BY DEF PreviewAnswered
<1>1. i \in DOMAIN net /\ net[i].kind = "preview" /\ ui \in Screens
  BY DEF Answered, IndInv, Shapes
<1>2. /\ NetOK(net', ui) /\ (NoClaim(net) => NoClaim(net'))
      /\ net[i].here => ui.page = "invite"
  BY <1>1, Settling DEF Heard
<1>3. PICK s \in Statuses : ui' = [ui EXCEPT !.at.status = s]
                          /\ (~ net[i].here => s = ui.at.status)
  <2>1. CASE net[i].here
    BY <2>1 DEF Statuses
  <2>2. CASE ~ net[i].here
    <3>1. ui.at.status \in Statuses /\ ui = [ui EXCEPT !.at.status = ui.at.status]
      BY <1>1 DEF Screens
    <3> QED BY <2>2, <3>1
  <2> QED BY <2>1, <2>2
<1>4. ui' \in Screens
  BY <1>1, <1>3 DEF Screens
<1>5. /\ ui'.page = ui.page /\ ui'.user = ui.user /\ ui'.loading = ui.loading
      /\ ui'.dialog = ui.dialog /\ ui'.at.called = ui.at.called
      /\ ui'.at.code = ui.at.code /\ ui'.at.status = s
  BY <1>1, <1>3 DEF Screens
<1>6. NetOK(net, ui)'
  BY <1>2, <1>5, NetSame
<1>7. ClaimOver'
  <2>1. hist.claimed => s = ui.at.status
    BY <1>2, <1>3 DEF IndInv, ClaimOver
  <2> QED BY <1>2, <1>5, <2>1 DEF IndInv, ClaimOver
<1>8. SessionAgrees' /\ AdminToken' /\ AdminDoorForAdmins'
  BY <1>5, SessionKept
<1>9. Shapes' /\ PageOK(ui)'
  BY <1>4, <1>5 DEF IndInv, Shapes, PageOK
<1> QED BY <1>6, <1>7, <1>8, <1>9 DEF IndInv

LEMMA AcceptStep ==
  ASSUME SessionConstants, IndInv, Accept
  PROVE  IndInv'
<1>1. /\ Room(net, 1) /\ net' = Sent(net, "accept", None)
      /\ ui' = [ui EXCEPT !.at.busy = TRUE]
      /\ hist' = [hist EXCEPT !.forms = @ + 1]
      /\ UNCHANGED <<store, srv>>
  BY DEF Accept, Counted
<1>2. ui' \in Screens
  BY <1>1 DEF IndInv, Shapes, Screens
<1>3. /\ ui'.page = ui.page /\ ui'.user = ui.user /\ ui'.loading = ui.loading
      /\ ui'.dialog = ui.dialog /\ ui'.at.called = ui.at.called
      /\ ui'.at.status = ui.at.status /\ ui'.at.code = ui.at.code
  BY <1>1 DEF IndInv, Shapes, Screens
<1>4. /\ hist' \in [crossed : BOOLEAN, claimed : BOOLEAN, adminDoor : BOOLEAN, forms : Nat]
      /\ hist'.claimed = hist.claimed /\ hist'.crossed = hist.crossed
      /\ hist'.adminDoor = hist.adminDoor
  BY <1>1 DEF IndInv, Shapes
<1>5. Call("accept", None) \in Good(ui)
  BY DEF Call, Good, Packets, Honest, Heard, Kinds, Payloads
<1>6. NetOK(net', ui) /\ (NoClaim(net) => NoClaim(net'))
  BY <1>1, <1>5, NetSent DEF IndInv
<1>7. NetOK(net, ui)' /\ ClaimOver'
  BY <1>3, <1>4, <1>6, PageStays
<1>8. SessionAgrees' /\ AdminToken' /\ AdminDoorForAdmins'
  BY <1>1, <1>3, <1>4, SessionKept
<1>9. Shapes' /\ PageOK(ui)'
  BY <1>1, <1>2, <1>3, <1>4 DEF IndInv, Shapes, PageOK
<1> QED BY <1>7, <1>8, <1>9 DEF IndInv

LEMMA AcceptAnsweredStep ==
  ASSUME IndInv, AcceptAnswered
  PROVE  IndInv'
<1> PICK i \in Answered(net, "accept") :
      /\ IF net[i].ok THEN /\ ui' = At(ui, "profile")
                           /\ net' = Left(Settled(net, i))
                           /\ hist' = [hist EXCEPT !.claimed = FALSE]
                      ELSE /\ ui' = IF net[i].here THEN [ui EXCEPT !.at.busy = FALSE] ELSE ui
                           /\ net' = Settled(net, i)
                           /\ UNCHANGED hist
      /\ UNCHANGED <<store, srv>>
  BY DEF AcceptAnswered
<1>1. i \in DOMAIN net /\ ui \in Screens /\ "profile" \in Pages
  BY DEF Answered, IndInv, Shapes, Pages
<1>2. CASE net[i].ok
  <2>1. NetOK(Settled(net, i), ui)
    BY <1>1, Settling
  <2> QED BY <1>1, <1>2, <2>1, AtScreen, GoneStep
<1>3. CASE ~ net[i].ok
  <2>1. ui' = FormFailed(net[i])
    BY <1>3 DEF FormFailed
  <2> QED BY <1>1, <1>3, <2>1, FormFails
<1> QED BY <1>2, <1>3

-----------------------------------------------------------------------------
LEMMA InitInv ==
  ASSUME SessionConstants, Init
  PROVE  IndInv
<1>0. PICK t \in [user : Users, gen : {0}] \cup {None}, p \in {"home", "profile", "admin"},
          k \in {Users, Admins} :
      /\ ui = [Provider EXCEPT !.page = p, !.loading = t # None]
      /\ store = [token |-> t]
      /\ net = IF t = None THEN << >> ELSE Sent(<< >>, "me", t)
      /\ srv = [known |-> k, gen |-> [u \in Users |-> 0], link |-> "open"]
  BY DEF Init
<1>1. hist = [crossed |-> FALSE, claimed |-> FALSE, adminDoor |-> FALSE, forms |-> 0]
  BY DEF Init
<1>2. t \in Tokens \cup {None}
  BY DEF Tokens, SessionConstants
<1>3. PICK l \in BOOLEAN : l = (t # None)
  <2>1. (t # None) \in BOOLEAN
    OBVIOUS
  <2> QED BY <2>1
<1>4. ui = [user |-> None, loading |-> l, page |-> p, next |-> "profile",
            dialog |-> FALSE,
            at |-> [busy |-> FALSE, status |-> "loading", code |-> FALSE,
                    called |-> FALSE, effects |-> 0]]
  BY <1>0, <1>3 DEF Provider, Fresh
<1>5. /\ ui \in Screens /\ ui.user = None /\ ui.loading = l
      /\ ui.at.code = FALSE /\ ui.dialog = FALSE
  <2>1. p \in Pages
    BY DEF Pages
  <2>2. ui \in Screens
    BY <1>4, <2>1 DEF Screens, Statuses
  <2>3. ui.user = None /\ ui.loading = l /\ ui.at.code = FALSE /\ ui.dialog = FALSE
    BY <1>4
  <2> QED BY <2>2, <2>3
<1>6. Shapes
  BY <1>0, <1>1, <1>2, <1>5 DEF Shapes, SessionConstants
<1>7. NetOK(net, ui)
  <2>1. CASE t # None
    <3>1. Call("me", t) \in Good(ui)
      BY <1>2, <2>1 DEF Call, Good, Packets, Honest, Heard, Kinds, Payloads
    <3>2. Room(<< >>, 1)
      BY EmptySeq, MaxCallsAssumption DEF Room
    <3> QED BY <1>0, <2>1, <3>1, <3>2, NetEmpty, NetSent
  <2> QED BY <1>0, <2>1, NetEmpty
<1>8. PageOK(ui) /\ ClaimOver /\ SessionAgrees /\ AdminToken /\ AdminDoorForAdmins
  BY <1>0, <1>1, <1>3, <1>5 DEF PageOK, ClaimOver, SessionAgrees, AdminToken, AdminDoorForAdmins
<1> QED BY <1>6, <1>7, <1>8 DEF IndInv

\* Every step keeps the invariant.
LEMMA NextInv ==
  ASSUME SessionConstants, IndInv, [Next]_vars
  PROVE  IndInv'
<1>1. CASE UNCHANGED vars
  BY <1>1 DEF vars, IndInv, Shapes, NetOK, Good, Heard, PageOK, ClaimOver, NoClaim, ClaimAt,
              SessionAgrees, AdminToken, AdminDoorForAdmins
<1>2. CASE Next
  BY <1>2, BackendStep, MeAnsweredStep, RefreshMeStep, VisitStep, ReloadStep, FormStep,
     LoginAnsweredStep, CodeAnsweredStep, CodeDoneStep, ClaimEffectStep, ClaimAnsweredStep,
     ClaimTimerStep, PreviewStep, AcceptStep, AcceptAnsweredStep, RedirectStep,
     DialogStep, ConfirmSignOutStep
  DEF Next, RegisterAnswered, RecoverAnswered
<1> QED BY <1>1, <1>2

\* What every reachable state satisfies, of which the theorems below are parts.
LEMMA Invariance ==
  ASSUME SessionConstants
  PROVE  Spec => []IndInv
BY InitInv, NextInv, PTL DEF Spec

\* The state keeps its shape, the calls in flight their number.
THEOREM TypeCorrect ==
  ASSUME SessionConstants
  PROVE  Spec => []TypeOK
<1>1. IndInv => TypeOK
  <2> SUFFICES ASSUME IndInv PROVE TypeOK
    OBVIOUS
  <2>1. CallsOK(net, Kinds)
    <3> SUFFICES ASSUME NEW i \in DOMAIN net PROVE Envelope(net[i]) \in Calls(Kinds)
      BY DEF CallsOK, IndInv, NetOK
    <3>1. net[i] \in Packets
      BY NetAnswered DEF IndInv
    <3> QED BY <3>1 DEF Packets, Envelope, Calls
  <2>2. ui \in Screens
    BY DEF IndInv, Shapes
  <2>3. /\ ui.user \in Users \cup {None}
        /\ ui.loading \in BOOLEAN /\ ui.dialog \in BOOLEAN
        /\ ui.page \in Pages /\ ui.next \in {"profile", "invite"}
        /\ ui.at \in [busy : BOOLEAN, code : BOOLEAN, called : BOOLEAN, effects : 0..2,
                      status : Statuses]
    BY <2>2 DEF Screens
  <2>4. /\ store.token \in Tokens \cup {None}
        /\ srv.known \subseteq Users
        /\ srv.gen \in [Users -> 0..MaxGen]
        /\ srv.link \in {"open", "used", "expired"}
    BY DEF IndInv, Shapes
  <2> QED BY <2>1, <2>3, <2>4 DEF TypeOK, Statuses
<1> QED BY <1>1, Invariance, PTL

\* The account on screen and the token in localStorage belong together, unless
\* an answer of /api/auth/me came after the session it was asked for.
THEOREM SessionsAgree ==
  ASSUME SessionConstants
  PROVE  Spec => []SessionAgrees
<1>1. IndInv => SessionAgrees
  BY DEF IndInv
<1> QED BY <1>1, Invariance, PTL

\* A claim that opened the account goes on being shown as one (calledRef).
THEOREM ClaimStands ==
  ASSUME SessionConstants
  PROVE  Spec => []ClaimSuccessStands
<1>1. IndInv => ClaimSuccessStands
  BY DEF IndInv, ClaimOver, ClaimSuccessStands
<1> QED BY <1>1, Invariance, PTL

\* The admin form leaves nobody but an admin signed in.
THEOREM AdminDoorHolds ==
  ASSUME SessionConstants
  PROVE  Spec => []AdminDoorForAdmins
<1>1. IndInv => AdminDoorForAdmins
  BY DEF IndInv
<1> QED BY <1>1, Invariance, PTL

-----------------------------------------------------------------------------
(* The manager's widget.  Whatever opens, closes or turns over the widget     *)
(* leaves the flag of a form that is being sent alone, and the two effects    *)
(* that follow a change throw away looks at a thread, never a lead.           *)

CONSTANTS Services, MaxChats

Chat == INSTANCE ManagerChat WITH MaxMsgs <- MaxChats

LEMMA ChatCalls ==
  /\ \A n, i, d : Chat!Served(n, i, d) = Served(n, i, d)
  /\ \A n, i, d : Chat!Refused(n, i, d) = Refused(n, i, d)
  /\ \A n, i : Chat!Settled(n, i) = Settled(n, i)
  /\ \A n, k, a : Chat!Sent(n, k, a) = Sent(n, k, a)
  /\ \A s, P : Chat!Filtered(s, P) = Filtered(s, P)
<1>1. \A S : Chat!Cardinality(S) = Cardinality(S)
  BY DEF Chat!Cardinality, Cardinality
<1>2. \A P, k : Chat!Nth(P, k) = Nth(P, k)
  BY <1>1 DEF Chat!Nth, Nth
<1>3. \A s, P : Chat!Filtered(s, P) = Filtered(s, P)
  BY <1>1, <1>2 DEF Chat!Filtered, Filtered
<1> QED
  BY <1>3 DEF Chat!Served, Served, Chat!Refused, Refused, Chat!Settled, Settled, Chat!RemoveAt,
     RemoveAt, Chat!Sent, Sent, Chat!Call, Call

Lead(n, i) == i \in DOMAIN n /\ n[i].kind = "lead"

ChatUi(u) ==
    u = [open |-> u.open, view |-> u.view, ctx |-> u.ctx, signedIn |-> u.signedIn,
         submitting |-> u.submitting, timer |-> u.timer, conv |-> u.conv, thread |-> u.thread,
         sending |-> u.sending]

\* A lead on its way keeps the forms' buttons off.
LeadNet(n, submitting) ==
    /\ Proper(n)
    /\ \A i, j : Lead(n, i) /\ Lead(n, j) => i = j
    /\ ~ submitting => \A i : ~ Lead(n, i)

ChatInv == ChatUi(ui) /\ LeadNet(net, ui.submitting)

LEMMA ChatInit ==
  ASSUME Chat!Init PROVE ChatInv
<1>1. Proper(net) /\ DOMAIN net = {}
  BY ProperEmpty DEF Chat!Init
<1>2. PICK s \in BOOLEAN : ui = [Chat!Closed EXCEPT !.signedIn = s]
  BY DEF Chat!Init
<1>3. PICK c : c = Chat!Closed
  OBVIOUS
<1>4. ChatUi(c)
  BY <1>3 DEF ChatUi, Chat!Closed
<1>5. ChatUi(ui)
  BY <1>2, <1>3, <1>4 DEF ChatUi
<1> QED BY <1>1, <1>5 DEF ChatInv, LeadNet, Lead

LEMMA LeadAsk ==
  ASSUME NEW n, NEW submitting, LeadNet(n, submitting), NEW kind, NEW arg, kind # "lead"
  PROVE  LeadNet(Sent(n, kind, arg), submitting)
<1>1. PICK last : Asks(n, Sent(n, kind, arg), last, kind, arg)
  BY ProperSent DEF LeadNet
<1> QED BY <1>1 DEF Asks, LeadNet, Lead

LEMMA LeadSettle ==
  ASSUME NEW n, NEW submitting, LeadNet(n, submitting), NEW i \in DOMAIN n
  PROVE  /\ LeadNet(Settled(n, i), submitting)
         /\ Lead(n, i) => LeadNet(Settled(n, i), FALSE)
<1>1. PICK m : m = Settled(n, i)
  OBVIOUS
<1>2. Settles(n, m, i)
  BY <1>1, ProperSettled DEF LeadNet
<1>3. \A j : Lead(m, j) => Lead(n, From(i, j)) /\ From(i, j) # i
  BY <1>2 DEF Settles, Lead
<1>4. \A j, k : Lead(m, j) /\ Lead(m, k) => j = k
  BY <1>2, <1>3 DEF Settles, LeadNet, Lead
<1>5. Proper(m)
  BY <1>2 DEF Settles
<1> QED BY <1>1, <1>3, <1>4, <1>5 DEF LeadNet

LEMMA LeadCancel ==
  ASSUME NEW n, NEW submitting, LeadNet(n, submitting), NEW kinds
  PROVE  LeadNet(Chat!Cancel(n, kinds), submitting)
<1>1. PICK P : P = {i \in DOMAIN n : n[i].kind \notin kinds}
  OBVIOUS
<1>2. PICK m : m = Filtered(n, P)
  OBVIOUS
<1>3. m = Chat!Cancel(n, kinds)
  BY <1>1, <1>2, ChatCalls DEF Chat!Cancel
<1>4. Keeps(n, m, P)
  BY <1>1, <1>2, ProperFiltered DEF LeadNet
<1>5. \A j : Lead(m, j) => Lead(n, Nth(P, j))
  BY <1>1, <1>4 DEF Keeps, Lead
<1>6. \A j, k : Lead(m, j) /\ Lead(m, k) => j = k
  BY <1>4, <1>5 DEF Keeps, LeadNet, Lead
<1>7. Proper(m)
  BY <1>4 DEF Keeps
<1> QED BY <1>3, <1>5, <1>6, <1>7 DEF LeadNet

\* A change of state with the effects that follow it.
LEMMA ChatCommit ==
  ASSUME NEW u, ChatUi(u), NEW n, LeadNet(n, u.submitting), Chat!Commit(u, n)
  PROVE  ChatInv'
<1>1. PICK kinds, m :
        /\ m = Chat!Cancel(n, kinds)
        /\ ui' = IF Chat!Reloads(u) THEN Chat!Cleared(u) ELSE u
        /\ net' = m \/ \E arg : net' = Sent(m, "load", arg)
  BY ChatCalls DEF Chat!Commit
<1>2. LeadNet(m, u.submitting)
  BY <1>1, LeadCancel
<1>3. LeadNet(net', u.submitting)
  BY <1>1, <1>2, LeadAsk
<1>4. ChatUi(ui') /\ ui'.submitting = u.submitting
  <2>1. CASE Chat!Reloads(u)
    <3>1. ui' = [u EXCEPT !.conv = FALSE, !.thread = Chat!Nothing]
      BY <1>1, <2>1 DEF Chat!Cleared
    <3> QED BY <3>1 DEF ChatUi
  <2>2. CASE ~ Chat!Reloads(u)
    BY <1>1, <2>2
  <2> QED BY <2>1, <2>2
<1> QED BY <1>3, <1>4 DEF ChatInv

LEMMA ChatBackend ==
  ASSUME ChatInv, Chat!Backend PROVE ChatInv'
<1>1. ui' = ui
  BY DEF Chat!Backend
<1>2. \/ net' = net
      \/ \E i \in DOMAIN net : \E data : \/ net' = Served(net, i, data)
                                        \/ net' = Refused(net, i, data)
  BY ChatCalls DEF Chat!Backend, Chat!ServeLook, Chat!ServeSend, Chat!ServeLead,
     Chat!ServeRefusal, Chat!AnswerLost, Chat!ManagerWrites, Chat!Waiting, Chat!Coming
<1>3. CASE net' = net
  BY <1>1, <1>3 DEF ChatInv
<1>4. ASSUME NEW i \in DOMAIN net, NEW data,
             net' = Served(net, i, data) \/ net' = Refused(net, i, data)
      PROVE  ChatInv'
  <2>1. PICK ok : Answers(net, i, net', data, ok)
    BY <1>4, ProperAnswered DEF ChatInv, LeadNet
  <2>2. \A j : Lead(net', j) <=> Lead(net, j)
    BY <2>1 DEF Answers, Lead
  <2>3. Proper(net')
    BY <2>1 DEF Answers
  <2> QED BY <1>1, <2>2, <2>3 DEF ChatInv, LeadNet
<1> QED BY <1>2, <1>3, <1>4

LEMMA ChatAnswered ==
  ASSUME ChatInv, Chat!LoadAnswered \/ Chat!PollAnswered \/ Chat!SendAnswered \/ Chat!LeadAnswered
  PROVE  ChatInv'
<1>1. CASE Chat!LoadAnswered \/ Chat!PollAnswered
  <2>1. PICK i, u, thread, conv :
          /\ i \in DOMAIN net
          /\ Chat!Commit(u, Settled(net, i))
          /\ u = ui \/ u = [ui EXCEPT !.thread = thread]
             \/ u = [ui EXCEPT !.thread = thread, !.conv = conv]
    <3>1. CASE Chat!LoadAnswered
      <4>1. PICK i \in Chat!Answered(net, "load") : Chat!LoadAnswered!(i)
        BY <3>1 DEF Chat!LoadAnswered
      <4>2. PICK conv : conv = (net[i].data.len > 0)
        OBVIOUS
      <4>3. PICK empty : empty = Chat!Shown(IF ui.conv THEN ui.thread.of
                                            ELSE Chat!ThreadOf(ui.ctx), 0)
        OBVIOUS
      <4>4. PICK u : u = IF net[i].ok
                         THEN [ui EXCEPT !.thread = net[i].data, !.conv = net[i].data.len > 0]
                         ELSE [ui EXCEPT !.thread = empty]
        OBVIOUS
      <4>5. i \in DOMAIN net /\ Chat!Commit(u, Settled(net, i))
        BY <4>1, <4>3, <4>4, ChatCalls DEF Chat!Answered
      <4>6. \/ u = [ui EXCEPT !.thread = net[i].data, !.conv = conv]
            \/ u = [ui EXCEPT !.thread = empty]
        BY <4>2, <4>4
      <4> QED BY <4>5, <4>6
    <3>2. CASE Chat!PollAnswered
      BY <3>2, ChatCalls DEF Chat!PollAnswered, Chat!Answered
    <3> QED BY <1>1, <3>1, <3>2
  <2>2. ChatUi(u) /\ u.submitting = ui.submitting
    <3>1. CASE u = ui
      BY <3>1 DEF ChatInv
    <3>2. CASE u = [ui EXCEPT !.thread = thread]
      BY <3>2 DEF ChatInv, ChatUi
    <3>3. CASE u = [ui EXCEPT !.thread = thread, !.conv = conv]
      BY <3>3 DEF ChatInv, ChatUi
    <3> QED BY <2>1, <3>1, <3>2, <3>3
  <2> QED BY <2>1, <2>2, LeadSettle, ChatCommit DEF ChatInv
<1>2. CASE Chat!SendAnswered
  <2>1. PICK i, u, thread :
          /\ i \in DOMAIN net
          /\ Chat!Commit(u, Settled(net, i))
          /\ \/ u = [ui EXCEPT !.sending = FALSE]
             \/ u = [ui EXCEPT !.sending = FALSE, !.conv = TRUE, !.thread = thread]
    BY <1>2, ChatCalls DEF Chat!SendAnswered, Chat!Answered
  <2>2. ChatUi(u) /\ u.submitting = ui.submitting
    <3>1. CASE u = [ui EXCEPT !.sending = FALSE]
      BY <3>1 DEF ChatInv, ChatUi
    <3>2. CASE u = [ui EXCEPT !.sending = FALSE, !.conv = TRUE, !.thread = thread]
      BY <3>2 DEF ChatInv, ChatUi
    <3> QED BY <2>1, <3>1, <3>2
  <2> QED BY <2>1, <2>2, LeadSettle, ChatCommit DEF ChatInv
<1>3. CASE Chat!LeadAnswered
  <2>0. PICK i \in Chat!Answered(net, "lead") : Chat!LeadAnswered!(i)
    BY <1>3 DEF Chat!LeadAnswered
  <2>1. PICK u, timer :
          /\ i \in DOMAIN net /\ net[i].kind = "lead"
          /\ Chat!Commit(u, Settled(net, i))
          /\ \/ u = [ui EXCEPT !.submitting = FALSE]
             \/ u = [ui EXCEPT !.submitting = FALSE, !.view = "success", !.timer = timer]
    <3>1. PICK timer : timer = (ui.timer \/ ~ net[i].data)
      OBVIOUS
    <3>2. PICK u : u = IF ~ net[i].ok THEN [ui EXCEPT !.submitting = FALSE]
                       ELSE [ui EXCEPT !.submitting = FALSE, !.view = "success",
                                       !.timer = @ \/ ~ net[i].data]
      OBVIOUS
    <3>3. /\ i \in DOMAIN net /\ net[i].kind = "lead"
          /\ Chat!Commit(u, Settled(net, i))
      BY <2>0, <3>2, ChatCalls DEF Chat!Answered
    <3>4. \/ u = [ui EXCEPT !.submitting = FALSE]
          \/ u = [ui EXCEPT !.submitting = FALSE, !.view = "success", !.timer = timer]
      BY <3>1, <3>2
    <3> QED BY <3>3, <3>4
  <2>2. ChatUi(u) /\ u.submitting = FALSE
    <3>1. CASE u = [ui EXCEPT !.submitting = FALSE]
      BY <3>1 DEF ChatInv, ChatUi
    <3>2. CASE u = [ui EXCEPT !.submitting = FALSE, !.view = "success", !.timer = timer]
      BY <3>2 DEF ChatInv, ChatUi
    <3> QED BY <2>1, <3>1, <3>2
  <2>3. LeadNet(Settled(net, i), FALSE)
    BY <2>1, LeadSettle DEF ChatInv, Lead
  <2>4. PICK n : n = Settled(net, i)
    OBVIOUS
  <2>5. LeadNet(n, u.submitting) /\ Chat!Commit(u, n)
    BY <2>1, <2>2, <2>3, <2>4
  <2> QED BY <2>2, <2>5, ChatCommit
<1> QED BY <1>1, <1>2, <1>3

\* The buttons, but for those that send.
ChatMoves == \/ Chat!ClosePanel \/ Chat!AutoClose \/ Chat!OpenPanel \/ Chat!MenuWrite
             \/ Chat!MenuCallback \/ Chat!Back \/ Chat!OpenChat \/ Chat!Greet \/ Chat!SignInOrOut

\* They turn the widget over, not what it shows of a thread.
Alike(u, v) == u.submitting = v.submitting /\ u.thread = v.thread /\ u.conv = v.conv

LEMMA ChatMoved ==
  ASSUME ChatUi(ui), ChatMoves
  PROVE  /\ hist' = hist
         /\ UNCHANGED <<ui, net>> \/ \E u : ChatUi(u) /\ Alike(u, ui) /\ Chat!Commit(u, net)
<1>1. \A u : ChatUi(u) => /\ ChatUi(Chat!Contextual(u))
                          /\ Alike(Chat!Contextual(u), u)
  <2> SUFFICES ASSUME NEW u, ChatUi(u)
               PROVE  /\ ChatUi(Chat!Contextual(u))
                      /\ Alike(Chat!Contextual(u), u)
    OBVIOUS
  <2>1. PICK v : v = Chat!Contextual(u)
    OBVIOUS
  <2>2. CASE v = [u EXCEPT !.view = "chat"]
    BY <2>1, <2>2 DEF ChatUi, Alike
  <2>3. CASE v = u
    BY <2>1, <2>3 DEF Alike
  <2> QED BY <2>1, <2>2, <2>3 DEF Chat!Contextual
<1>2. hist' = hist
  BY DEF ChatMoves, Chat!ClosePanel, Chat!AutoClose, Chat!OpenPanel, Chat!MenuWrite,
         Chat!MenuCallback, Chat!Back, Chat!OpenChat, Chat!Greet, Chat!SignInOrOut
<1>3. CASE Chat!ClosePanel \/ Chat!AutoClose
  <2>1. PICK u : u = [ui EXCEPT !.timer = FALSE, !.open = FALSE, !.view = "menu"] /\ Chat!Commit(u, net)
    BY <1>3 DEF Chat!ClosePanel, Chat!AutoClose, Chat!ShutDown
  <2>2. ChatUi(u) /\ Alike(u, ui)
    BY <2>1 DEF ChatUi, Alike
  <2> QED BY <1>2, <2>1, <2>2
<1>4. CASE Chat!OpenPanel
  <2>1. PICK v, u : /\ u = [ui EXCEPT !.timer = FALSE, !.view = v, !.ctx = Chat!NoContext, !.open = TRUE]
                    /\ Chat!Commit(u, net)
    BY <1>4 DEF Chat!OpenPanel
  <2>2. ChatUi(u) /\ Alike(u, ui)
    BY <2>1 DEF ChatUi, Alike
  <2> QED BY <1>2, <2>1, <2>2
<1>5. CASE Chat!MenuWrite
  <2>1. PICK u : /\ \/ u = [ui EXCEPT !.timer = FALSE, !.view = "chat", !.ctx = Chat!NoContext]
                    \/ u = [ui EXCEPT !.view = "message"]
                 /\ Chat!Commit(u, net)
    BY <1>5 DEF Chat!MenuWrite
  <2>2. ChatUi(u) /\ Alike(u, ui)
    <3>1. CASE u = [ui EXCEPT !.timer = FALSE, !.view = "chat", !.ctx = Chat!NoContext]
      BY <3>1 DEF ChatUi, Alike
    <3>2. CASE u = [ui EXCEPT !.view = "message"]
      BY <3>2 DEF ChatUi, Alike
    <3> QED BY <2>1, <3>1, <3>2
  <2> QED BY <1>2, <2>1, <2>2
<1>6. CASE Chat!MenuCallback \/ Chat!Back
  <2>1. PICK v, u : u = [ui EXCEPT !.view = v] /\ Chat!Commit(u, net)
    BY <1>6 DEF Chat!MenuCallback, Chat!Back
  <2>2. ChatUi(u) /\ Alike(u, ui)
    BY <2>1 DEF ChatUi, Alike
  <2> QED BY <1>2, <2>1, <2>2
<1>7. CASE Chat!OpenChat
  <2>1. PICK c, u : u = [ui EXCEPT !.ctx = c, !.open = TRUE] /\ Chat!Commit(Chat!Contextual(u), net)
    BY <1>7 DEF Chat!OpenChat
  <2>2. ChatUi(u) /\ Alike(u, ui)
    BY <2>1 DEF ChatUi, Alike
  <2> QED BY <1>1, <1>2, <2>1, <2>2 DEF Alike
<1>8. CASE Chat!SignInOrOut
  <2>1. PICK u, s : u = [ui EXCEPT !.signedIn = s] /\ Chat!Commit(Chat!Contextual(u), net)
    BY <1>8 DEF Chat!SignInOrOut
  <2>2. ChatUi(u) /\ Alike(u, ui)
    BY <2>1 DEF ChatUi, Alike
  <2> QED BY <1>1, <1>2, <2>1, <2>2 DEF Alike
<1>9. CASE Chat!Greet
  <2>1. PICK u : /\ u = [ui EXCEPT !.view = "menu", !.ctx = Chat!NoContext, !.open = TRUE]
                 /\ Chat!Commit(u, net) \/ UNCHANGED <<ui, net>>
    BY <1>9 DEF Chat!Greet
  <2>2. ChatUi(u) /\ Alike(u, ui)
    BY <2>1 DEF ChatUi, Alike
  <2> QED BY <1>2, <2>1, <2>2
<1> QED BY <1>3, <1>4, <1>5, <1>6, <1>7, <1>8, <1>9 DEF ChatMoves

LEMMA ChatMove ==
  ASSUME ChatInv, ChatMoves PROVE ChatInv'
<1>1. UNCHANGED <<ui, net>> \/ \E u : ChatUi(u) /\ Alike(u, ui) /\ Chat!Commit(u, net)
  BY ChatMoved DEF ChatInv
<1> QED BY <1>1, ChatCommit DEF ChatInv, Alike

LEMMA ChatSends ==
  ASSUME ChatInv, Chat!Poll \/ Chat!SendChat \/ Chat!SubmitMessage \/ Chat!SubmitCallback
  PROVE  ChatInv'
<1>1. ChatUi(ui) /\ LeadNet(net, ui.submitting)
  BY DEF ChatInv
<1>2. CASE Chat!Poll
  BY <1>1, <1>2, ChatCalls, LeadAsk DEF Chat!Poll, ChatInv
<1>3. CASE Chat!SendChat
  <2>1. PICK u, arg : u = [ui EXCEPT !.sending = TRUE] /\ Chat!Commit(u, Sent(net, "send", arg))
    BY <1>3, ChatCalls DEF Chat!SendChat
  <2>2. ChatUi(u) /\ u.submitting = ui.submitting
    BY <1>1, <2>1 DEF ChatUi
  <2>3. PICK n : n = Sent(net, "send", arg)
    OBVIOUS
  <2>4. LeadNet(n, u.submitting)
    BY <1>1, <2>2, <2>3, LeadAsk
  <2> QED BY <2>1, <2>2, <2>3, <2>4, ChatCommit
<1>4. CASE Chat!SubmitMessage \/ Chat!SubmitCallback
  <2>1. ~ ui.submitting /\ Chat!SendLead
    BY <1>4 DEF Chat!SubmitMessage, Chat!SubmitCallback, Chat!MessageForm, Chat!CallbackForm
  <2>2. PICK u, n : /\ u = [ui EXCEPT !.submitting = TRUE] /\ n = Sent(net, "lead", None)
                    /\ Chat!Commit(u, n)
    BY <2>1, ChatCalls DEF Chat!SendLead
  <2>3. ChatUi(u) /\ u.submitting = TRUE
    BY <1>1, <2>2 DEF ChatUi
  <2>4. PICK last : Asks(net, n, last, "lead", None)
    BY <1>1, <2>2, ProperSent DEF LeadNet
  <2>5. \A j : ~ Lead(net, j)
    BY <1>1, <2>1 DEF LeadNet
  <2>6. \A j : Lead(n, j) => j = last
    BY <2>4, <2>5 DEF Asks, Lead
  <2>7. LeadNet(n, u.submitting)
    BY <2>3, <2>4, <2>6 DEF Asks, LeadNet
  <2> QED BY <2>2, <2>3, <2>7, ChatCommit
<1> QED BY <1>2, <1>3, <1>4

LEMMA ChatNext ==
  ASSUME ChatInv, [Chat!Next]_(Chat!vars) PROVE ChatInv'
<1>1. CASE UNCHANGED Chat!vars
  BY <1>1 DEF Chat!vars, ChatInv
<1>2. CASE Chat!Backend
  BY <1>2, ChatBackend
<1>3. CASE ChatMoves
  BY <1>3, ChatMove
<1>4. CASE Chat!LoadAnswered \/ Chat!PollAnswered \/ Chat!SendAnswered \/ Chat!LeadAnswered
  BY <1>4, ChatAnswered
<1>5. CASE Chat!Poll \/ Chat!SendChat \/ Chat!SubmitMessage \/ Chat!SubmitCallback
  BY <1>5, ChatSends
<1> QED BY <1>1, <1>2, <1>3, <1>4, <1>5 DEF Chat!Next, ChatMoves

\* One lead at a time, whatever is opened, closed or changed while it is on its way.
THEOREM LeadOnce == Chat!Spec => []Chat!OneLead
<1>1. ChatInv => Chat!OneLead
  BY DEF ChatInv, LeadNet, Lead, Chat!OneLead
<1> QED BY <1>1, ChatInit, ChatNext, PTL DEF Chat!Spec

\* A look at a thread was sent for what the widget shows, and what is answered is of
\* the thread that was asked for.
Looking(n, u) ==
    /\ Proper(n)
    /\ \A i \in DOMAIN n : n[i].kind = "load" =>
          Chat!ChatShown(u) /\ n[i].arg = Chat!ThreadOf(u.ctx)
    /\ \A i \in DOMAIN n : n[i].kind = "poll" => u.conv /\ n[i].arg = u.thread.of
    /\ \A i \in DOMAIN n : n[i].kind # "lead" /\ n[i].ok =>
          n[i].data.of = n[i].arg /\ n[i].data.shown

InContext(u, strayed) ==
    /\ u.conv => u.thread.shown
    /\ Chat!ChatShown(u) /\ u.thread.shown /\ ~ strayed => u.thread.of = Chat!ThreadOf(u.ctx)

ContextInv ==
    /\ ChatUi(ui) /\ Looking(net, ui) /\ InContext(ui, hist.strayed)
    /\ hist = [strayed |-> hist.strayed] /\ hist.strayed \in BOOLEAN

LEMMA ContextInit ==
  ASSUME Chat!Init PROVE ContextInv
<1>1. Proper(net) /\ DOMAIN net = {}
  BY ProperEmpty DEF Chat!Init
<1>2. PICK s \in BOOLEAN : ui = [Chat!Closed EXCEPT !.signedIn = s]
  BY DEF Chat!Init
<1>3. PICK c : c = Chat!Closed
  OBVIOUS
<1>4. ChatUi(c) /\ c.conv = FALSE /\ c.thread.shown = FALSE
  BY <1>3 DEF ChatUi, Chat!Closed, Chat!Nothing
<1>5. ChatUi(ui) /\ ui.conv = FALSE /\ ui.thread.shown = FALSE
  BY <1>2, <1>3, <1>4 DEF ChatUi
<1>6. hist = [strayed |-> hist.strayed] /\ hist.strayed \in BOOLEAN
  BY DEF Chat!Init
<1> QED BY <1>1, <1>5, <1>6 DEF ContextInv, Looking, InContext

LEMMA LookSettle ==
  ASSUME NEW n, NEW u, Looking(n, u), NEW i \in DOMAIN n, NEW m, m = Settled(n, i)
  PROVE  Looking(m, u)
<1>1. Settles(n, m, i)
  BY ProperSettled DEF Looking
<1> QED BY <1>1 DEF Settles, Looking

LEMMA LookAsk ==
  ASSUME NEW n, NEW u, Looking(n, u), NEW kind, NEW arg, NEW m, m = Sent(n, kind, arg),
         kind = "load" => Chat!ChatShown(u) /\ arg = Chat!ThreadOf(u.ctx),
         kind = "poll" => u.conv /\ arg = u.thread.of
  PROVE  Looking(m, u)
<1>1. PICK last : Asks(n, m, last, kind, arg)
  BY ProperSent DEF Looking
<1> QED BY <1>1 DEF Asks, Looking

\* After a change of state only the looks at what is still shown are on their way.
LEMMA ContextCommit ==
  ASSUME NEW u, ChatUi(u), NEW n, Looking(n, ui), Chat!Commit(u, n), NEW strayed,
         u.conv => u.thread.shown,
         Chat!LoadKey(u) = Chat!LoadKey(ui) /\ Chat!ChatShown(u) /\ u.thread.shown /\ ~ strayed
           => u.thread.of = Chat!ThreadOf(u.ctx)
  PROVE  ChatUi(ui') /\ Looking(net', ui') /\ InContext(ui', strayed)
<1>1. PICK v : v = IF Chat!Reloads(u) THEN Chat!Cleared(u) ELSE u
  OBVIOUS
<1>2. PICK kinds : kinds = (IF Chat!LoadKey(v) # Chat!LoadKey(ui) THEN {"load"} ELSE {})
                           \cup (IF Chat!PollKey(v) # Chat!PollKey(ui) THEN {"poll"} ELSE {})
  OBVIOUS
<1>3. PICK P, m : P = {i \in DOMAIN n : n[i].kind \notin kinds} /\ m = Filtered(n, P)
  OBVIOUS
<1>4. /\ ui' = v
      /\ net' = IF Chat!Reloads(u) THEN Sent(m, "load", Chat!ThreadOf(u.ctx)) ELSE m
  BY <1>1, <1>2, <1>3, ChatCalls DEF Chat!Commit, Chat!Cancel
<1>5. /\ ChatUi(v) /\ v.open = u.open /\ v.view = u.view /\ v.signedIn = u.signedIn
      /\ v.ctx = u.ctx
      /\ Chat!Reloads(u) => v.conv = FALSE /\ v.thread.shown = FALSE
      /\ ~ Chat!Reloads(u) => v = u
  <2>1. CASE Chat!Reloads(u)
    <3>1. PICK none : none = Chat!Nothing
      OBVIOUS
    <3>2. none.shown = FALSE
      BY <3>1 DEF Chat!Nothing
    <3>3. v = [u EXCEPT !.conv = FALSE, !.thread = none]
      BY <1>1, <2>1, <3>1 DEF Chat!Cleared
    <3> QED BY <2>1, <3>2, <3>3 DEF ChatUi
  <2>2. CASE ~ Chat!Reloads(u)
    BY <1>1, <2>2
  <2> QED BY <2>1, <2>2
<1>6. Proper(m) /\ \A j \in DOMAIN m : \E i \in DOMAIN n : m[j] = n[i] /\ n[i].kind \notin kinds
  <2>1. Keeps(n, m, P)
    BY <1>3, ProperFiltered DEF Looking
  <2> QED BY <1>3, <2>1 DEF Keeps
<1>7. "load" \notin kinds => /\ v.open = ui.open /\ v.view = ui.view
                             /\ v.signedIn = ui.signedIn /\ v.ctx = ui.ctx
  BY <1>2 DEF Chat!LoadKey
<1>8. "poll" \notin kinds => v.conv = ui.conv /\ v.thread.of = ui.thread.of
  BY <1>2 DEF Chat!PollKey
<1>9. Looking(m, v)
  BY <1>6, <1>7, <1>8 DEF Looking, Chat!ChatShown
<1>10. Looking(net', v)
  <2>1. CASE Chat!Reloads(u)
    <3>1. Chat!ChatShown(v)
      BY <1>5, <2>1 DEF Chat!Reloads, Chat!ChatShown
    <3> QED BY <1>4, <1>5, <1>9, <2>1, <3>1, LookAsk
  <2>2. CASE ~ Chat!Reloads(u)
    BY <1>4, <1>9, <2>2
  <2> QED BY <2>1, <2>2
<1>11. InContext(v, strayed)
  <2>1. CASE Chat!Reloads(u)
    BY <1>5, <2>1 DEF InContext
  <2>2. CASE ~ Chat!Reloads(u)
    BY <1>5, <2>2 DEF InContext, Chat!Reloads
  <2> QED BY <2>1, <2>2
<1> QED BY <1>4, <1>5, <1>10, <1>11

LEMMA ContextBackend ==
  ASSUME ContextInv, Chat!Backend PROVE ContextInv'
<1>1. UNCHANGED <<ui, hist>> /\ Proper(net)
  BY DEF Chat!Backend, ContextInv, Looking
<1>2. CASE net' = net
  BY <1>1, <1>2 DEF ContextInv
<1>3. ASSUME NEW i \in DOMAIN net, NEW data, NEW ok, Answers(net, i, net', data, ok),
             ok /\ net[i].kind # "lead" => data.of = net[i].arg /\ data.shown
      PROVE  ContextInv'
  <2>1. Looking(net', ui)
    BY <1>3 DEF Answers, ContextInv, Looking
  <2> QED BY <1>1, <2>1 DEF ContextInv
<1>4. CASE Chat!ServeLook
  <2>1. PICK i \in DOMAIN net :
          /\ net[i].stage = "sent"
          /\ net' = Served(net, i, Chat!Shown(net[i].arg, srv[net[i].arg]))
    BY <1>4, ChatCalls DEF Chat!ServeLook, Chat!Waiting
  <2>2. PICK data : data = Chat!Shown(net[i].arg, srv[net[i].arg])
    OBVIOUS
  <2>3. Answers(net, i, net', data, TRUE) /\ data.of = net[i].arg /\ data.shown
    BY <1>1, <2>1, <2>2, ProperAnswered DEF Chat!Shown
  <2> QED BY <1>3, <2>3
<1>5. CASE Chat!ServeSend
  <2>1. PICK i \in DOMAIN net :
          /\ net[i].stage = "sent"
          /\ net' = Served(net, i, Chat!Shown(net[i].arg, srv[net[i].arg] + 1))
    BY <1>5, ChatCalls DEF Chat!ServeSend, Chat!Waiting
  <2>2. PICK data : data = Chat!Shown(net[i].arg, srv[net[i].arg] + 1)
    OBVIOUS
  <2>3. Answers(net, i, net', data, TRUE) /\ data.of = net[i].arg /\ data.shown
    BY <1>1, <2>1, <2>2, ProperAnswered DEF Chat!Shown
  <2> QED BY <1>3, <2>3
<1>6. CASE Chat!ServeLead
  <2>1. PICK i, data : /\ i \in DOMAIN net /\ net[i].stage = "sent" /\ net[i].kind = "lead"
                       /\ net' = Served(net, i, data)
    BY <1>6, ChatCalls DEF Chat!ServeLead, Chat!Waiting
  <2>2. Answers(net, i, net', data, TRUE)
    BY <1>1, <2>1, ProperAnswered
  <2> QED BY <1>3, <2>1, <2>2
<1>7. CASE Chat!ServeRefusal \/ Chat!AnswerLost
  <2>1. PICK i \in DOMAIN net : net' = Refused(net, i, None)
    BY <1>7, ChatCalls DEF Chat!ServeRefusal, Chat!AnswerLost, Chat!Coming
  <2>2. Answers(net, i, net', None, FALSE)
    BY <1>1, <2>1, ProperAnswered
  <2> QED BY <1>3, <2>1, <2>2
<1> QED BY <1>2, <1>4, <1>5, <1>6, <1>7 DEF Chat!Backend, Chat!ManagerWrites

\* What leaves the shown thread alone keeps it in its context.
LEMMA ContextAlike ==
  ASSUME ContextInv, NEW u, ChatUi(u), u.thread = ui.thread, u.conv = ui.conv,
         NEW n, Looking(n, ui), Chat!Commit(u, n), hist' = hist
  PROVE  ContextInv'
<1>1. u.conv => u.thread.shown
  BY DEF ContextInv, InContext
<1>2. Chat!LoadKey(u) = Chat!LoadKey(ui) /\ Chat!ChatShown(u) /\ u.thread.shown /\ ~ hist.strayed
        => u.thread.of = Chat!ThreadOf(u.ctx)
  BY DEF ContextInv, InContext, Chat!LoadKey, Chat!ChatShown
<1>3. ChatUi(ui') /\ Looking(net', ui') /\ InContext(ui', hist.strayed)
  BY <1>1, <1>2, ContextCommit
<1> QED BY <1>3 DEF ContextInv

LEMMA ContextMoves ==
  ASSUME ContextInv, ChatMoves PROVE ContextInv'
<1>1. /\ hist' = hist
      /\ UNCHANGED <<ui, net>> \/ \E u : ChatUi(u) /\ Alike(u, ui) /\ Chat!Commit(u, net)
  BY ChatMoved DEF ContextInv
<1>2. CASE UNCHANGED <<ui, net>>
  BY <1>1, <1>2 DEF ContextInv
<1>3. CASE \E u : ChatUi(u) /\ Alike(u, ui) /\ Chat!Commit(u, net)
  <2>1. PICK u : ChatUi(u) /\ Alike(u, ui) /\ Chat!Commit(u, net)
    BY <1>3
  <2>2. Looking(net, ui) /\ u.thread = ui.thread /\ u.conv = ui.conv
    BY <2>1 DEF ContextInv, Alike
  <2> QED BY <1>1, <2>1, <2>2, ContextAlike
<1> QED BY <1>1, <1>2, <1>3

LEMMA ContextSends ==
  ASSUME ContextInv, Chat!Poll \/ Chat!SendChat \/ Chat!SubmitMessage \/ Chat!SubmitCallback
  PROVE  ContextInv'
<1>1. ChatUi(ui) /\ Looking(net, ui)
  BY DEF ContextInv
<1>2. CASE Chat!Poll
  <2>1. /\ UNCHANGED <<ui, hist>> /\ ui.conv /\ net' = Sent(net, "poll", ui.thread.of)
    BY <1>2, ChatCalls DEF Chat!Poll
  <2>2. Looking(net', ui)
    BY <1>1, <2>1, LookAsk
  <2> QED BY <2>1, <2>2 DEF ContextInv
<1>3. CASE Chat!SendChat
  <2>1. PICK u, n : /\ u = [ui EXCEPT !.sending = TRUE] /\ n = Sent(net, "send", Chat!Target)
                    /\ Chat!Commit(u, n) /\ hist' = hist
    BY <1>3, ChatCalls DEF Chat!SendChat
  <2>2. ChatUi(u) /\ u.thread = ui.thread /\ u.conv = ui.conv
    BY <1>1, <2>1 DEF ChatUi
  <2>3. Looking(n, ui)
    BY <1>1, <2>1, LookAsk
  <2> QED BY <2>1, <2>2, <2>3, ContextAlike
<1>4. CASE Chat!SubmitMessage \/ Chat!SubmitCallback
  <2>1. PICK u, n : /\ u = [ui EXCEPT !.submitting = TRUE] /\ n = Sent(net, "lead", None)
                    /\ Chat!Commit(u, n) /\ hist' = hist
    BY <1>4, ChatCalls DEF Chat!SubmitMessage, Chat!SubmitCallback, Chat!SendLead
  <2>2. ChatUi(u) /\ u.thread = ui.thread /\ u.conv = ui.conv
    BY <1>1, <2>1 DEF ChatUi
  <2>3. Looking(n, ui)
    BY <1>1, <2>1, LookAsk
  <2> QED BY <2>1, <2>2, <2>3, ContextAlike
<1> QED BY <1>2, <1>3, <1>4

\* The answer of a load that was not thrown away is of the context on screen; a load
\* that fails leaves the thread that an answered message has set.
LEMMA ContextLoaded ==
  ASSUME ContextInv, Chat!LoadAnswered PROVE ContextInv'
<1>1. PICK i \in Chat!Answered(net, "load") : Chat!LoadAnswered!(i)
  BY DEF Chat!LoadAnswered
<1>2. PICK of, thread, conv :
        /\ of = IF ui.conv THEN ui.thread.of ELSE Chat!ThreadOf(ui.ctx)
        /\ thread = IF net[i].ok THEN net[i].data ELSE Chat!Shown(of, 0)
        /\ conv = IF net[i].ok THEN net[i].data.len > 0 ELSE ui.conv
  OBVIOUS
<1>3. PICK u : u = [ui EXCEPT !.thread = thread, !.conv = conv]
  OBVIOUS
<1>4. u = IF net[i].ok
          THEN [ui EXCEPT !.thread = net[i].data, !.conv = net[i].data.len > 0]
          ELSE [ui EXCEPT !.thread = Chat!Shown(of, 0)]
  BY <1>2, <1>3 DEF ContextInv, ChatUi
<1>5. PICK n : n = Settled(net, i)
  OBVIOUS
<1>12. PICK yes \in BOOLEAN : yes = (hist.strayed /\ ui.conv /\ ~ net[i].ok)
  OBVIOUS
<1>6. Chat!Commit(u, n) /\ hist' = [hist EXCEPT !.strayed = yes]
  <2>1. net[i].ok \in BOOLEAN
    BY <1>1 DEF Chat!Answered, ContextInv, Looking, Proper, IsCall
  <2> QED BY <1>1, <1>2, <1>4, <1>5, <1>12, <2>1, ChatCalls
<1>7. Looking(n, ui) /\ i \in DOMAIN net /\ net[i].kind = "load"
  BY <1>1, <1>5, LookSettle DEF ContextInv, Chat!Answered
<1>8. thread.shown /\ (~ yes => thread.of = Chat!ThreadOf(ui.ctx))
  <2>1. CASE net[i].ok
    BY <1>2, <1>7, <2>1 DEF ContextInv, Looking
  <2>2. CASE ~ net[i].ok
    <3>1. thread.shown /\ thread.of = of
      BY <1>2, <2>2 DEF Chat!Shown
    <3>2. ~ yes /\ ui.conv => ui.thread.of = Chat!ThreadOf(ui.ctx)
      BY <1>7, <1>12, <2>2 DEF ContextInv, Looking, InContext
    <3> QED BY <1>2, <3>1, <3>2
  <2> QED BY <2>1, <2>2
<1>9. ChatUi(u) /\ u.thread = thread /\ u.ctx = ui.ctx
  BY <1>3 DEF ContextInv, ChatUi
<1>10. ChatUi(ui') /\ Looking(net', ui') /\ InContext(ui', yes)
  BY <1>6, <1>7, <1>8, <1>9, ContextCommit
<1>11. hist' = [strayed |-> yes]
  BY <1>6 DEF ContextInv
<1> QED BY <1>10, <1>11 DEF ContextInv

\* A poll follows the thread it was sent for.
LEMMA ContextPolled ==
  ASSUME ContextInv, Chat!PollAnswered PROVE ContextInv'
<1>1. PICK i \in Chat!Answered(net, "poll") : Chat!PollAnswered!(i)
  BY DEF Chat!PollAnswered
<1>2. PICK thread : thread = net[i].data
  OBVIOUS
<1>3. PICK u : u = IF net[i].ok THEN [ui EXCEPT !.thread = thread] ELSE ui
  OBVIOUS
<1>4. PICK n : n = Settled(net, i)
  OBVIOUS
<1>5. Chat!Commit(u, n) /\ hist' = hist
  BY <1>1, <1>2, <1>3, <1>4, ChatCalls
<1>6. Looking(n, ui) /\ i \in DOMAIN net /\ net[i].kind = "poll"
  BY <1>4, LookSettle DEF ContextInv, Chat!Answered
<1>7. CASE ~ net[i].ok
  BY <1>3, <1>5, <1>6, <1>7, ContextAlike DEF ContextInv
<1>8. CASE net[i].ok
  <2>1. ui.conv /\ thread.of = ui.thread.of /\ thread.shown
    BY <1>2, <1>6, <1>8 DEF ContextInv, Looking
  <2>2. /\ ChatUi(u) /\ u.thread = thread /\ u.ctx = ui.ctx /\ u.open = ui.open
        /\ u.view = ui.view /\ u.signedIn = ui.signedIn
    BY <1>3, <1>8 DEF ContextInv, ChatUi
  <2>3. Chat!ChatShown(u) /\ ~ hist.strayed => u.thread.of = Chat!ThreadOf(u.ctx)
    BY <2>1, <2>2 DEF ContextInv, InContext, Chat!ChatShown
  <2>4. ChatUi(ui') /\ Looking(net', ui') /\ InContext(ui', hist.strayed)
    BY <1>5, <1>6, <2>1, <2>2, <2>3, ContextCommit
  <2> QED BY <1>5, <2>4 DEF ContextInv
<1> QED BY <1>7, <1>8

\* The answer of a message is shown as it comes: it may stray.
LEMMA ContextWritten ==
  ASSUME ContextInv, Chat!SendAnswered PROVE ContextInv'
<1>1. PICK i \in Chat!Answered(net, "send") : Chat!SendAnswered!(i)
  BY DEF Chat!SendAnswered
<1>2. PICK thread, n : thread = net[i].data /\ n = Settled(net, i)
  OBVIOUS
<1>3. PICK u : u = IF net[i].ok THEN [ui EXCEPT !.sending = FALSE, !.conv = TRUE, !.thread = thread]
                   ELSE [ui EXCEPT !.sending = FALSE]
  OBVIOUS
<1>4. PICK yes \in BOOLEAN :
        yes = IF net[i].ok THEN net[i].arg # Chat!ThreadOf(ui.ctx) ELSE hist.strayed
  BY DEF ContextInv
<1>5. Chat!Commit(u, n) /\ hist' = [hist EXCEPT !.strayed = yes]
  BY <1>1, <1>2, <1>3, <1>4, ChatCalls
<1>6. Looking(n, ui) /\ i \in DOMAIN net /\ net[i].kind = "send"
  BY <1>2, LookSettle DEF ContextInv, Chat!Answered
<1>7. hist' = [strayed |-> yes]
  BY <1>5 DEF ContextInv
<1>8. CASE ~ net[i].ok
  <2>1. ChatUi(u) /\ u.thread = ui.thread /\ u.conv = ui.conv
    BY <1>3, <1>8 DEF ContextInv, ChatUi
  <2>2. yes = hist.strayed
    BY <1>4, <1>8 DEF ContextInv
  <2>3. hist' = hist
    BY <1>7, <2>2 DEF ContextInv
  <2> QED BY <1>5, <1>6, <2>1, <2>3, ContextAlike
<1>9. CASE net[i].ok
  <2>1. thread.of = net[i].arg /\ thread.shown
    BY <1>2, <1>6, <1>9 DEF ContextInv, Looking
  <2>2. ChatUi(u) /\ u.thread = thread /\ u.ctx = ui.ctx
    BY <1>3, <1>9 DEF ContextInv, ChatUi
  <2>3. ~ yes => u.thread.of = Chat!ThreadOf(u.ctx)
    BY <1>4, <1>9, <2>1, <2>2
  <2>4. ChatUi(ui') /\ Looking(net', ui') /\ InContext(ui', yes)
    BY <1>5, <1>6, <2>1, <2>2, <2>3, ContextCommit
  <2> QED BY <1>7, <2>4 DEF ContextInv
<1> QED BY <1>8, <1>9

LEMMA ContextLead ==
  ASSUME ContextInv, Chat!LeadAnswered PROVE ContextInv'
<1>1. PICK i \in Chat!Answered(net, "lead") : Chat!LeadAnswered!(i)
  BY DEF Chat!LeadAnswered
<1>2. PICK n, timer : n = Settled(net, i) /\ timer = (ui.timer \/ ~ net[i].data)
  OBVIOUS
<1>3. PICK u : u = IF ~ net[i].ok THEN [ui EXCEPT !.submitting = FALSE]
                   ELSE [ui EXCEPT !.submitting = FALSE, !.view = "success", !.timer = timer]
  OBVIOUS
<1>4. Chat!Commit(u, n) /\ hist' = hist
  BY <1>1, <1>2, <1>3, ChatCalls
<1>5. Looking(n, ui)
  BY <1>2, LookSettle DEF ContextInv, Chat!Answered
<1>6. ChatUi(u) /\ u.thread = ui.thread /\ u.conv = ui.conv
  <2>1. CASE u = [ui EXCEPT !.submitting = FALSE]
    BY <2>1 DEF ContextInv, ChatUi
  <2>2. CASE u = [ui EXCEPT !.submitting = FALSE, !.view = "success", !.timer = timer]
    BY <2>2 DEF ContextInv, ChatUi
  <2> QED BY <1>3, <2>1, <2>2
<1> QED BY <1>4, <1>5, <1>6, ContextAlike

LEMMA ContextNext ==
  ASSUME ContextInv, [Chat!Next]_(Chat!vars) PROVE ContextInv'
<1>1. CASE UNCHANGED Chat!vars
  BY <1>1 DEF Chat!vars, ContextInv
<1> QED BY <1>1, ContextBackend, ContextMoves, ContextSends, ContextLoaded, ContextPolled,
           ContextWritten, ContextLead DEF Chat!Next, ChatMoves

\* The thread on screen is the one of the context the widget was opened with, whatever
\* is opened, closed, polled or signed in or out meanwhile, unless a message sent in
\* another context was answered last: the code shows that answer, and keeps it on screen
\* when the load that should replace it fails.
THEOREM ThreadIsOfContext == Chat!Spec => []Chat!ThreadMatchesContext
<1>1. ContextInv => Chat!ThreadMatchesContext
  BY DEF ContextInv, InContext, Chat!ThreadMatchesContext
<1> QED BY <1>1, ContextInit, ContextNext, PTL DEF Chat!Spec

-----------------------------------------------------------------------------
(* The cart.  One booking is on its way at most.  While the customer was not *)
(* left in doubt about an answer, a line of the cart is in no booking, unless *)
(* that of the answer which is about to wipe the cart; and what is on its way *)
(* is in no booking either until it is served.                               *)

CONSTANTS Goods, GoodsMenus, MaxAdds, MaxOrders

Basket == INSTANCE Cart WITH Listings <- Goods, Menus <- GoodsMenus

LEMMA BasketCalls ==
  /\ \A n, i, d : Basket!Served(n, i, d) = Served(n, i, d)
  /\ \A n, i, d : Basket!Refused(n, i, d) = Refused(n, i, d)
  /\ \A n, i : Basket!Settled(n, i) = Settled(n, i)
  /\ \A n, k, a : Basket!Sent(n, k, a) = Sent(n, k, a)
BY DEF Basket!Served, Served, Basket!Refused, Refused, Basket!Settled, Settled,
       Basket!RemoveAt, RemoveAt, Basket!Sent, Sent, Basket!Call, Call

LEMMA BasketFiltered == \A s, P : Basket!Filtered(s, P) = Filtered(s, P)
<1>1. \A P, k : Basket!Nth(P, k) = Nth(P, k)
  BY DEF Basket!Nth, Nth, Basket!Cardinality, Cardinality
<1> QED BY <1>1 DEF Basket!Filtered, Filtered, Basket!Cardinality, Cardinality

CartLines == [listing : Goods, menu : GoodsMenus \cup {None}, stamp : Nat]
Orders(n, i) == i \in DOMAIN n /\ n[i].kind = "checkout"

LEMMA BasketSet == \A s : Basket!ToSet(s) = SetOf(s)
BY DEF Basket!ToSet, SetOf

BasketUi(u) ==
    /\ u = [items |-> u.items, open |-> u.open, submitting |-> u.submitting,
            listed |-> u.listed, order |-> u.order, resend |-> u.resend,
            signedIn |-> u.signedIn]
    /\ u.submitting \in BOOLEAN /\ u.items \in Seq(CartLines)

BasketPast(h) ==
    /\ h = [adds |-> h.adds, wanted |-> h.wanted, during |-> h.during, unheard |-> h.unheard]
    /\ h.adds \in Nat /\ h.wanted \in [Basket!Variants -> Nat] /\ h.unheard \in BOOLEAN

\* A line of the cart is the one last chosen of its kind, and the choice of it stands.
BasketLines(items, adds, wanted, during) ==
    /\ \A k \in DOMAIN items : /\ items[k].stamp \in 1..adds
                               /\ items[k].stamp = wanted[Basket!VariantOf(items[k])]
    /\ \A v \in Basket!Variants : wanted[v] \notin during \cup {0} =>
           \E k \in DOMAIN items : items[k].stamp = wanted[v] /\ Basket!VariantOf(items[k]) = v

BasketSrv(s, adds) ==
    /\ s \in Seq(SetOf(s))
    /\ \A k \in DOMAIN s : \A x \in s[k].lines : x.stamp \in 1..adds

\* Of the booking on its way: the lines added since are known, and it is among the
\* filed ones once it was accepted.
BasketNet(n, items, submitting, s, adds, during) ==
    /\ Proper(n)
    /\ ~ submitting => \A i : ~ Orders(n, i)
    /\ \A i, j : Orders(n, i) /\ Orders(n, j) => i = j
    /\ \A i : Orders(n, i) =>
          /\ \A x \in SetOf(n[i].arg.items) : x.stamp \in 1..adds
          /\ \A k \in DOMAIN items : items[k] \in SetOf(n[i].arg.items) \/ items[k].stamp \in during
          /\ n[i].ok => \E k \in DOMAIN s : s[k].lines = SetOf(n[i].arg.items)

\* No line is in two bookings.
OrderedOnce(n, items, s) ==
    /\ \A j, k \in DOMAIN s : j # k => s[j].lines \cap s[k].lines = {}
    /\ \A k \in DOMAIN s, m \in DOMAIN items :
          items[m] \in s[k].lines => \E i : Orders(n, i) /\ n[i].ok
    /\ \A k \in DOMAIN s : \A i : Orders(n, i) /\ ~ n[i].ok =>
          s[k].lines \cap SetOf(n[i].arg.items) = {}

BasketOffer(order, s) == order = {} \/ \E k \in DOMAIN s : order = s[k].lines

BasketInv ==
    /\ BasketUi(ui) /\ BasketPast(hist) /\ BasketSrv(srv, hist.adds)
    /\ store = [cart |-> store.cart, refs |-> store.refs] /\ store.cart = ui.items
    /\ BasketLines(ui.items, hist.adds, hist.wanted, hist.during)
    /\ BasketNet(net, ui.items, ui.submitting, srv, hist.adds, hist.during)
    /\ BasketOffer(ui.order, srv)
    /\ ~ hist.unheard => OrderedOnce(net, ui.items, srv)

LEMMA BasketInit ==
  ASSUME Basket!Init PROVE BasketInv
<1>1. Proper(net) /\ DOMAIN net = {}
  BY ProperEmpty DEF Basket!Init
<1>2. PICK e : e = << >> /\ e \in Seq(CartLines) /\ e \in Seq({}) /\ DOMAIN e = {}
  <2>1. PICK e : e = << >>
    OBVIOUS
  <2>2. e \in Seq(CartLines) /\ e \in Seq({}) /\ Len(e) = 0
    BY <2>1, EmptySeq
  <2>3. DOMAIN e = {}
    BY <2>2, LenProperties
  <2> QED BY <2>1, <2>2, <2>3
<1>3. BasketUi(ui) /\ ui.items = e /\ ui.order = {} /\ ~ ui.submitting
  BY <1>2 DEF Basket!Init, BasketUi
<1>4. /\ BasketPast(hist) /\ \A v \in Basket!Variants : hist.wanted[v] = 0
  BY DEF Basket!Init, BasketPast
<1>5. srv = e /\ store = [cart |-> store.cart, refs |-> store.refs] /\ store.cart = e
  BY <1>2 DEF Basket!Init
<1>6. BasketSrv(srv, hist.adds) /\ BasketOffer(ui.order, srv)
  <2>1. SetOf(e) = {}
    BY <1>2 DEF SetOf
  <2> QED BY <1>2, <1>3, <1>5, <2>1 DEF BasketSrv, BasketOffer
<1>7. BasketLines(ui.items, hist.adds, hist.wanted, hist.during)
  BY <1>2, <1>3, <1>4 DEF BasketLines
<1>8. /\ BasketNet(net, ui.items, ui.submitting, srv, hist.adds, hist.during)
      /\ OrderedOnce(net, ui.items, srv)
  BY <1>1, <1>2, <1>3, <1>5 DEF BasketNet, OrderedOnce, Orders
<1> QED BY <1>3, <1>4, <1>5, <1>6, <1>7, <1>8 DEF BasketInv

\* The booking on its way stays there, as it is.
SameOrders(n, m) ==
    /\ Proper(m)
    /\ \A i : Orders(m, i) =>
          \E j : Orders(n, j) /\ m[i].arg = n[j].arg /\ m[i].ok = n[j].ok
    /\ \A j : Orders(n, j) => \E i : Orders(m, i) /\ m[i].ok = n[j].ok
    /\ \A i, j : Orders(m, i) /\ Orders(m, j) => i = j

LEMMA BasketOthers ==
  ASSUME NEW n, NEW m, SameOrders(n, m), NEW items, NEW submitting, NEW s, NEW adds, NEW during,
         BasketNet(n, items, submitting, s, adds, during)
  PROVE  /\ BasketNet(m, items, submitting, s, adds, during)
         /\ OrderedOnce(n, items, s) => OrderedOnce(m, items, s)
<1>1. BasketNet(m, items, submitting, s, adds, during)
  <2>1. Proper(m) /\ \A i, j : Orders(m, i) /\ Orders(m, j) => i = j
    BY DEF SameOrders
  <2>2. ~ submitting => \A i : ~ Orders(m, i)
    BY DEF SameOrders, BasketNet
  <2>3. ASSUME NEW i, Orders(m, i)
        PROVE  /\ \A x \in SetOf(m[i].arg.items) : x.stamp \in 1..adds
               /\ \A k \in DOMAIN items : items[k] \in SetOf(m[i].arg.items) \/ items[k].stamp \in during
               /\ m[i].ok => \E k \in DOMAIN s : s[k].lines = SetOf(m[i].arg.items)
    <3>1. PICK j : Orders(n, j) /\ m[i].arg = n[j].arg /\ m[i].ok = n[j].ok
      BY <2>3 DEF SameOrders
    <3> QED BY <3>1 DEF BasketNet
  <2> QED BY <2>1, <2>2, <2>3 DEF BasketNet
<1>2. ASSUME OrderedOnce(n, items, s) PROVE OrderedOnce(m, items, s)
  <2>1. \A j, k \in DOMAIN s : j # k => s[j].lines \cap s[k].lines = {}
    BY <1>2 DEF OrderedOnce
  <2>2. ASSUME NEW k \in DOMAIN s, NEW x \in DOMAIN items, items[x] \in s[k].lines
        PROVE  \E i : Orders(m, i) /\ m[i].ok
    <3>1. PICK j : Orders(n, j) /\ n[j].ok
      BY <1>2, <2>2 DEF OrderedOnce
    <3> QED BY <3>1 DEF SameOrders
  <2>3. ASSUME NEW k \in DOMAIN s, NEW i, Orders(m, i), ~ m[i].ok
        PROVE  s[k].lines \cap SetOf(m[i].arg.items) = {}
    <3>1. PICK j : Orders(n, j) /\ m[i].arg = n[j].arg /\ m[i].ok = n[j].ok
      BY <2>3 DEF SameOrders
    <3> QED BY <1>2, <2>3, <3>1 DEF OrderedOnce
  <2> QED BY <2>1, <2>2, <2>3 DEF OrderedOnce
<1> QED BY <1>1, <1>2

\* What else is sent, answered or over leaves that booking alone.
LEMMA BasketSent ==
  ASSUME NEW n, Proper(n), \A i, j : Orders(n, i) /\ Orders(n, j) => i = j,
         NEW kind, kind # "checkout", NEW arg, NEW m, m = Sent(n, kind, arg)
  PROVE  SameOrders(n, m)
<1>1. PICK last : Asks(n, m, last, kind, arg)
  BY ProperSent
<1>2. \A i : Orders(m, i) <=> Orders(n, i)
  BY <1>1 DEF Asks, Orders
<1>3. \A i : Orders(n, i) => m[i] = n[i]
  BY <1>1 DEF Asks, Orders
<1> QED BY <1>1, <1>2, <1>3 DEF SameOrders, Asks

LEMMA BasketSettled ==
  ASSUME NEW n, Proper(n), \A i, j : Orders(n, i) /\ Orders(n, j) => i = j,
         NEW i \in DOMAIN n, n[i].kind # "checkout", NEW m, m = Settled(n, i)
  PROVE  SameOrders(n, m)
<1>1. Settles(n, m, i)
  BY ProperSettled
<1>2. \A j : Orders(m, j) => Orders(n, From(i, j)) /\ m[j] = n[From(i, j)]
  BY <1>1 DEF Settles, Orders
<1>3. \A k : Orders(n, k) => \E j : Orders(m, j) /\ m[j] = n[k]
  BY <1>1 DEF Settles, Orders
<1>4. \A j, k : Orders(m, j) /\ Orders(m, k) => j = k
  BY <1>1, <1>2 DEF Settles, Orders
<1> QED BY <1>1, <1>2, <1>3, <1>4 DEF SameOrders, Settles

LEMMA BasketAnswered ==
  ASSUME NEW n, Proper(n), \A i, j : Orders(n, i) /\ Orders(n, j) => i = j,
         NEW i \in DOMAIN n, n[i].kind = "checkout" => n[i].stage = "sent", NEW m, NEW data, NEW ok,
         Answers(n, i, m, data, ok), n[i].kind # "checkout" \/ ok = FALSE
  PROVE  SameOrders(n, m)
<1>1. n[i].kind = "checkout" => n[i].ok = FALSE
  BY DEF Proper, IsCall
<1>2. \A j : (Orders(m, j) <=> Orders(n, j)) /\ (Orders(n, j) => m[j].arg = n[j].arg)
  BY DEF Answers, Orders
<1>3. \A j : Orders(n, j) => m[j].ok = n[j].ok
  BY <1>1 DEF Answers, Orders
<1> QED BY <1>2, <1>3 DEF SameOrders, Answers

\* A step that leaves the cart and its bookings alone.
LEMMA BasketQuiet ==
  ASSUME BasketInv, SameOrders(net, net'), UNCHANGED <<srv, hist>>, BasketUi(ui'),
         ui'.items = ui.items, ui'.submitting = ui.submitting, ui'.order = ui.order,
         store' = store
  PROVE  BasketInv'
<1>1. /\ BasketNet(net', ui.items, ui.submitting, srv, hist.adds, hist.during)
      /\ ~ hist.unheard => OrderedOnce(net', ui.items, srv)
  BY BasketOthers DEF BasketInv
<1> QED BY <1>1 DEF BasketInv

LEMMA BasketBackend ==
  ASSUME BasketInv, Basket!ServeLists \/ Basket!ServeRefusal \/ Basket!AnswerLost,
         UNCHANGED <<ui, store>>
  PROVE  BasketInv'
<1>1. Proper(net) /\ \A i, j : Orders(net, i) /\ Orders(net, j) => i = j
  BY DEF BasketInv, BasketNet
<1>2. PICK i, data :
        /\ i \in DOMAIN net
        /\ net[i].kind = "checkout" => net[i].stage = "sent"
        /\ UNCHANGED <<srv, hist>>
        /\ \/ net' = Served(net, i, data) /\ net[i].kind # "checkout"
           \/ net' = Refused(net, i, None)
  <2>1. CASE Basket!ServeLists
    BY <2>1, BasketCalls DEF Basket!ServeLists, Basket!Waiting
  <2>2. CASE Basket!ServeRefusal
    BY <2>2, BasketCalls DEF Basket!ServeRefusal
  <2>3. CASE Basket!AnswerLost
    BY <2>3, BasketCalls DEF Basket!AnswerLost, Basket!Coming
  <2> QED BY <2>1, <2>2, <2>3
<1>3. SameOrders(net, net')
  <2>1. CASE net' = Served(net, i, data) /\ net[i].kind # "checkout"
    <3>1. Answers(net, i, net', data, TRUE)
      BY <1>1, <1>2, <2>1, ProperAnswered
    <3> QED BY <1>1, <1>2, <2>1, <3>1, BasketAnswered
  <2>2. CASE net' = Refused(net, i, None)
    <3>1. Answers(net, i, net', None, FALSE)
      BY <1>1, <1>2, <2>2, ProperAnswered
    <3> QED BY <1>1, <1>2, <3>1, BasketAnswered
  <2> QED BY <1>2, <2>1, <2>2
<1> QED BY <1>2, <1>3, BasketQuiet DEF BasketInv

\* The drawer's list is asked for again, or not.
LEMMA BasketCommit ==
  ASSUME NEW u, NEW refs, NEW n, Proper(n), \A i, j : Orders(n, i) /\ Orders(n, j) => i = j,
         Basket!Commit(u, refs, n)
  PROVE  ui' = u /\ SameOrders(n, net')
<1>1. /\ ui' = u
      /\ \/ net' = n
         \/ net' = Sent(n, "mine", None)
         \/ net' = Sent(n, "lookup", refs)
  BY BasketCalls DEF Basket!Commit, Basket!Listing
<1>2. CASE net' = n
  BY <1>1, <1>2 DEF SameOrders
<1>3. CASE net' = Sent(n, "mine", None)
  BY <1>1, <1>3, BasketSent
<1>4. CASE net' = Sent(n, "lookup", refs)
  BY <1>1, <1>4, BasketSent
<1> QED BY <1>1, <1>2, <1>3, <1>4

LEMMA BasketDrawer ==
  ASSUME BasketInv, Basket!OpenDrawer \/ Basket!CloseDrawer \/ Basket!SignInOrOut
  PROVE  BasketInv'
<1>1. Proper(net) /\ \A i, j : Orders(net, i) /\ Orders(net, j) => i = j
  BY DEF BasketInv, BasketNet
<1>2. PICK u : /\ Basket!Commit(u, store.refs, net) /\ UNCHANGED <<store, srv, hist>>
               /\ \/ u = [ui EXCEPT !.open = TRUE]
                  \/ u = [ui EXCEPT !.open = FALSE]
                  \/ u = [ui EXCEPT !.signedIn = ~@]
  BY DEF Basket!OpenDrawer, Basket!CloseDrawer, Basket!SignInOrOut
<1>3. ui' = u /\ SameOrders(net, net')
  BY <1>1, <1>2, BasketCommit
<1>4. /\ BasketUi(u) /\ u.items = ui.items
      /\ u.submitting = ui.submitting /\ u.order = ui.order
  BY <1>2 DEF BasketInv, BasketUi
<1> QED BY <1>2, <1>3, <1>4, BasketQuiet

LEMMA BasketListed ==
  ASSUME BasketInv, Basket!ListAnswered PROVE BasketInv'
<1>1. PICK i \in DOMAIN net :
        /\ net[i].kind # "checkout" /\ net' = Settled(net, i) /\ UNCHANGED <<store, srv, hist>>
        /\ \/ ui' = [ui EXCEPT !.listed = net[i].data]
           \/ ui' = [ui EXCEPT !.listed = {}]
           \/ ui' = ui
  BY BasketCalls DEF Basket!ListAnswered, Basket!Answered
<1>2. SameOrders(net, net')
  BY <1>1, BasketSettled DEF BasketInv, BasketNet
<1>3. /\ BasketUi(ui') /\ ui'.items = ui.items
      /\ ui'.submitting = ui.submitting /\ ui'.order = ui.order
  BY <1>1 DEF BasketInv, BasketUi
<1> QED BY <1>1, <1>2, <1>3, BasketQuiet

LEMMA BasketResend ==
  ASSUME BasketInv, Basket!handleResend \/ Basket!ResendAnswered PROVE BasketInv'
<1>1. PICK r : ui' = [ui EXCEPT !.resend = r] /\ UNCHANGED <<store, srv, hist>>
  BY DEF Basket!handleResend, Basket!ResendAnswered
<1>2. SameOrders(net, net')
  <2>1. CASE Basket!handleResend
    <3>1. net' = Sent(net, "resend", None)
      BY <2>1, BasketCalls DEF Basket!handleResend
    <3> QED BY <3>1, BasketSent DEF BasketInv, BasketNet
  <2>2. CASE Basket!ResendAnswered
    <3>1. PICK i \in DOMAIN net : net[i].kind # "checkout" /\ net' = Settled(net, i)
      BY <2>2, BasketCalls DEF Basket!ResendAnswered, Basket!Answered
    <3> QED BY <3>1, BasketSettled DEF BasketInv, BasketNet
  <2> QED BY <2>1, <2>2
<1>3. /\ BasketUi(ui') /\ ui'.items = ui.items
      /\ ui'.submitting = ui.submitting /\ ui'.order = ui.order
  BY <1>1 DEF BasketInv, BasketUi
<1> QED BY <1>1, <1>2, <1>3, BasketQuiet

LEMMA BasketFiled ==
  ASSUME BasketInv, Basket!ServeCheckout, UNCHANGED <<ui, store>> PROVE BasketInv'
<1>1. PICK i, workspace, lost :
        /\ i \in DOMAIN net /\ workspace \in BOOLEAN /\ lost \in BOOLEAN
        /\ Orders(net, i) /\ net[i].stage = "sent"
        /\ srv' = Append(srv, Basket!Filed(net[i]))
        /\ net' = IF lost THEN Refused(net, i, None)
                  ELSE Served(net, i, [id |-> Len(srv) + 1, workspace |-> workspace])
        /\ hist' = [hist EXCEPT !.unheard = @ \/ lost]
  BY BasketCalls DEF Basket!ServeCheckout, Basket!Waiting, Orders
<1>2. PICK r, last : r = Basket!Filed(net[i]) /\ last = Len(srv) + 1
  OBVIOUS
<1>3. r.lines = SetOf(net[i].arg.items)
  BY <1>2, BasketSet DEF Basket!Filed
<1>4. /\ srv' \in Seq(SetOf(srv')) /\ DOMAIN srv' = DOMAIN srv \cup {last}
      /\ last \notin DOMAIN srv /\ srv'[last] = r
      /\ \A k \in DOMAIN srv : srv'[k] = srv[k]
  <2>1. Joins(srv, srv', last, r)
    BY <1>1, <1>2, OneMore DEF BasketInv, BasketSrv
  <2> QED BY <2>1 DEF Joins
<1>5. /\ Proper(net) /\ (~ ui.submitting => \A j : ~ Orders(net, j))
      /\ \A j, k : Orders(net, j) /\ Orders(net, k) => j = k
      /\ \A x \in SetOf(net[i].arg.items) : x.stamp \in 1..hist.adds
      /\ \A k \in DOMAIN ui.items :
            ui.items[k] \in SetOf(net[i].arg.items) \/ ui.items[k].stamp \in hist.during
  BY <1>1 DEF BasketInv, BasketNet
<1>6. PICK ok, data :
        /\ ok \in BOOLEAN /\ Answers(net, i, net', data, ok)
        /\ ok = ~ lost
  <2>1. CASE lost
    <3>1. Answers(net, i, net', None, FALSE)
      BY <1>1, <1>5, <2>1, ProperAnswered
    <3> QED BY <2>1, <3>1
  <2>2. CASE ~ lost
    <3>1. PICK d : d = [id |-> Len(srv) + 1, workspace |-> workspace]
      OBVIOUS
    <3>2. net' = Served(net, i, d)
      BY <1>1, <2>2, <3>1
    <3>3. Answers(net, i, net', d, TRUE)
      BY <1>1, <1>5, <3>2, ProperAnswered
    <3> QED BY <2>2, <3>3
  <2> QED BY <1>1, <2>1, <2>2
<1>7. /\ Proper(net') /\ \A j : Orders(net', j) <=> Orders(net, j)
      /\ net'[i].arg = net[i].arg /\ net'[i].ok = ok
  BY <1>1, <1>6 DEF Answers, Orders
<1>8. /\ BasketPast(hist') /\ hist'.adds = hist.adds /\ hist'.wanted = hist.wanted
      /\ hist'.during = hist.during /\ (hist'.unheard <=> hist.unheard \/ lost)
  <2>1. PICK b \in BOOLEAN : b = (hist.unheard \/ lost)
    OBVIOUS
  <2>2. hist' = [hist EXCEPT !.unheard = b]
    BY <1>1, <2>1
  <2> QED BY <2>1, <2>2 DEF BasketInv, BasketPast
<1>9. BasketSrv(srv', hist.adds)
  BY <1>3, <1>4, <1>5 DEF BasketInv, BasketSrv
<1>10. BasketOffer(ui.order, srv')
  BY <1>4 DEF BasketInv, BasketOffer
<1>11. BasketNet(net', ui.items, ui.submitting, srv', hist.adds, hist.during)
  <2>1. ASSUME NEW j, Orders(net', j)
        PROVE  /\ \A x \in SetOf(net'[j].arg.items) : x.stamp \in 1..hist.adds
               /\ \A k \in DOMAIN ui.items :
                     ui.items[k] \in SetOf(net'[j].arg.items) \/ ui.items[k].stamp \in hist.during
               /\ net'[j].ok => \E k \in DOMAIN srv' : srv'[k].lines = SetOf(net'[j].arg.items)
    <3>1. j = i
      BY <1>1, <1>5, <1>7, <2>1
    <3> QED BY <1>3, <1>4, <1>5, <1>7, <3>1
  <2> QED BY <1>5, <1>7, <2>1 DEF BasketNet
<1>12. ASSUME ~ hist'.unheard
       PROVE  OrderedOnce(net', ui.items, srv')
  <2>1. /\ ok = TRUE /\ ~ net[i].ok /\ OrderedOnce(net, ui.items, srv)
    BY <1>1, <1>5, <1>6, <1>8, <1>12 DEF BasketInv, Proper, IsCall
  <2>2. \A k \in DOMAIN srv : srv[k].lines \cap r.lines = {}
    BY <1>1, <1>3, <2>1 DEF OrderedOnce
  <2>3. ASSUME NEW j \in DOMAIN srv', NEW k \in DOMAIN srv', j # k
        PROVE  srv'[j].lines \cap srv'[k].lines = {}
    <3>1. CASE j = last
      BY <1>4, <2>2, <2>3, <3>1
    <3>2. CASE k = last
      BY <1>4, <2>2, <2>3, <3>2
    <3>3. CASE j # last /\ k # last
      BY <1>4, <2>1, <2>3, <3>3 DEF OrderedOnce
    <3> QED BY <3>1, <3>2, <3>3
  <2>4. Orders(net', i) /\ net'[i].ok
    BY <1>1, <1>7, <2>1
  <2>5. \A j : Orders(net', j) => net'[j].ok
    BY <1>1, <1>5, <1>7, <2>1
  <2> QED BY <2>3, <2>4, <2>5 DEF OrderedOnce
<1> QED BY <1>1, <1>8, <1>9, <1>10, <1>11, <1>12 DEF BasketInv

LEMMA BasketCheckout ==
  ASSUME BasketInv, Basket!handleCheckout PROVE BasketInv'
<1>1. PICK arg : /\ arg = [items |-> ui.items, signedIn |-> ui.signedIn]
                 /\ net' = Sent(net, "checkout", arg)
                 /\ ~ ui.submitting /\ ui' = [ui EXCEPT !.submitting = TRUE]
                 /\ UNCHANGED <<store, srv, hist>>
  BY BasketCalls DEF Basket!handleCheckout, Basket!CheckoutForm
<1>2. arg.items = ui.items
  BY <1>1
<1>3. \A i : ~ Orders(net, i)
  BY <1>1 DEF BasketInv, BasketNet
<1>4. PICK last : Asks(net, net', last, "checkout", arg)
  BY <1>1, ProperSent DEF BasketInv, BasketNet
<1>5. /\ Proper(net') /\ \A i : Orders(net', i) <=> i = last
      /\ net'[last].arg = arg /\ ~ net'[last].ok
  BY <1>3, <1>4 DEF Asks, Orders
<1>6. /\ BasketUi(ui') /\ ui'.items = ui.items /\ ui'.submitting /\ ui'.order = ui.order
  BY <1>1 DEF BasketInv, BasketUi
<1>7. \A k \in DOMAIN ui.items : ui.items[k].stamp \in 1..hist.adds
  BY DEF BasketInv, BasketLines
<1>8. BasketNet(net', ui.items, TRUE, srv, hist.adds, hist.during)
  <2>1. ASSUME NEW j, Orders(net', j)
        PROVE  /\ \A x \in SetOf(net'[j].arg.items) : x.stamp \in 1..hist.adds
               /\ \A k \in DOMAIN ui.items :
                     ui.items[k] \in SetOf(net'[j].arg.items) \/ ui.items[k].stamp \in hist.during
               /\ ~ net'[j].ok
    BY <1>2, <1>5, <1>7, <2>1 DEF SetOf
  <2> QED BY <1>5, <2>1 DEF BasketNet
<1>9. ASSUME ~ hist.unheard PROVE OrderedOnce(net', ui.items, srv)
  <2>1. OrderedOnce(net, ui.items, srv)
    BY <1>9 DEF BasketInv
  <2>2. \A k \in DOMAIN srv, m \in DOMAIN ui.items : ui.items[m] \notin srv[k].lines
    BY <1>3, <2>1 DEF OrderedOnce
  <2>3. ASSUME NEW k \in DOMAIN srv, NEW i, Orders(net', i)
        PROVE  srv[k].lines \cap SetOf(net'[i].arg.items) = {}
    BY <1>2, <1>5, <2>2, <2>3 DEF SetOf
  <2> QED BY <2>1, <2>2, <2>3 DEF OrderedOnce
<1>10. ui'.submitting = TRUE
  BY <1>6 DEF BasketUi
<1> QED BY <1>1, <1>6, <1>8, <1>9, <1>10 DEF BasketInv

\* The cart without the line of a choice.
LEMMA BasketWithout ==
  ASSUME NEW items \in Seq(CartLines), NEW item \in CartLines, NEW m, m = Basket!Without(items, item)
  PROVE  /\ m \in Seq(CartLines)
         /\ \A k \in DOMAIN m : \E j \in DOMAIN items :
               m[k] = items[j] /\ Basket!VariantOf(items[j]) # Basket!VariantOf(item)
         /\ \A j \in DOMAIN items : Basket!VariantOf(items[j]) # Basket!VariantOf(item) =>
               \E k \in DOMAIN m : m[k] = items[j]
<1> DEFINE P == {k \in DOMAIN items :
                  Basket!cartItemKey(items[k]) # Basket!cartItemKey(item)}
<1>1. \A k \in DOMAIN items :
        k \in P <=> Basket!VariantOf(items[k]) # Basket!VariantOf(item)
  BY DEF Basket!cartItemKey, Basket!VariantOf
<1>2. m = Filtered(items, P) /\ P \in SUBSET DOMAIN items
  BY BasketFiltered DEF Basket!Without
<1> HIDE DEF P
<1>3. /\ m \in Seq(CartLines)
      /\ \A k \in DOMAIN m : Nth(P, k) \in P /\ m[k] = items[Nth(P, k)]
      /\ \A i \in P : \E k \in DOMAIN m : Nth(P, k) = i /\ m[k] = items[i]
  BY <1>2, FilteredSeq
<1> QED BY <1>1, <1>2, <1>3

LEMMA BasketAdd ==
  ASSUME BasketInv, Basket!addItem PROVE BasketInv'
<1>1. PICK choice, item :
        /\ choice \in Basket!Variants
        /\ item = [listing |-> choice.listing, menu |-> choice.menu, stamp |-> hist.adds + 1]
        /\ Basket!persist(Append(Basket!Without(ui.items, item), item))
        /\ hist' = [hist EXCEPT !.adds = hist.adds + 1, !.wanted[choice] = hist.adds + 1,
                      !.during = IF Basket!InFlight(net, "checkout")
                                 THEN hist.during \cup {hist.adds + 1} ELSE hist.during]
        /\ UNCHANGED <<net, srv>>
  BY DEF Basket!addItem
<1>2. PICK kept, w, d :
        /\ kept = Basket!Without(ui.items, item)
        /\ w = [hist.wanted EXCEPT ![choice] = hist.adds + 1]
        /\ d = IF Basket!InFlight(net, "checkout") THEN hist.during \cup {hist.adds + 1}
               ELSE hist.during
  OBVIOUS
<1>3. /\ ui' = [ui EXCEPT !.items = Append(kept, item)]
      /\ store' = [store EXCEPT !.cart = Append(kept, item)]
      /\ hist' = [hist EXCEPT !.adds = hist.adds + 1, !.wanted = w, !.during = d]
  BY <1>1, <1>2 DEF Basket!persist
<1>4. /\ BasketUi(ui) /\ ui.items \in Seq(CartLines) /\ BasketPast(hist)
      /\ hist.adds \in Nat /\ hist.wanted \in [Basket!Variants -> Nat]
  BY DEF BasketInv, BasketUi, BasketPast
<1>5. item \in CartLines /\ Basket!VariantOf(item) = choice /\ item.stamp = hist.adds + 1
  BY <1>1, <1>2, <1>3, <1>4 DEF Basket!Variants, CartLines, Basket!VariantOf
<1>6. /\ kept \in Seq(CartLines)
      /\ \A k \in DOMAIN kept : \E j \in DOMAIN ui.items :
            kept[k] = ui.items[j] /\ Basket!VariantOf(ui.items[j]) # choice
      /\ \A j \in DOMAIN ui.items : Basket!VariantOf(ui.items[j]) # choice =>
            \E k \in DOMAIN kept : kept[k] = ui.items[j]
  <2>1. PICK items : items = ui.items
    OBVIOUS
  <2>2. items \in Seq(CartLines) /\ kept = Basket!Without(items, item)
    BY <1>1, <1>2, <1>3, <1>4, <2>1
  <2>3. /\ kept \in Seq(CartLines)
        /\ \A k \in DOMAIN kept : \E j \in DOMAIN items :
              kept[k] = items[j] /\ Basket!VariantOf(items[j]) # Basket!VariantOf(item)
        /\ \A j \in DOMAIN items : Basket!VariantOf(items[j]) # Basket!VariantOf(item) =>
              \E k \in DOMAIN kept : kept[k] = items[j]
    BY <1>5, <2>2, BasketWithout
  <2> QED BY <1>5, <2>1, <2>3
<1>7. PICK lines, last :
        /\ lines = Append(kept, item) /\ lines \in Seq(CartLines)
        /\ DOMAIN lines = DOMAIN kept \cup {last} /\ lines[last] = item
        /\ \A k \in DOMAIN kept : lines[k] = kept[k]
        /\ last \notin DOMAIN kept
  <2>1. PICK l, n : l = Append(kept, item) /\ n = Len(kept)
    OBVIOUS
  <2>2. /\ l \in Seq(CartLines) /\ Len(l) = n + 1 /\ l[n + 1] = item
        /\ \A k \in 1..n : l[k] = kept[k]
    BY <1>5, <1>6, <2>1, AppendProperties
  <2>3. n \in Nat /\ DOMAIN kept = 1..n
    BY <1>6, <2>1, LenProperties
  <2>4. DOMAIN l = 1..n + 1
    BY <2>2, LenProperties
  <2>5. DOMAIN l = DOMAIN kept \cup {n + 1} /\ n + 1 \notin DOMAIN kept
    BY <2>3, <2>4
  <2> QED BY <2>1, <2>2, <2>3, <2>5
<1>8. /\ BasketUi(ui') /\ ui'.items = lines
      /\ ui'.submitting = ui.submitting /\ ui'.order = ui.order
  BY <1>1, <1>2, <1>3, <1>4, <1>7 DEF BasketUi
<1>9. store' = [cart |-> store'.cart, refs |-> store'.refs] /\ store'.cart = lines
  BY <1>1, <1>2, <1>3, <1>7 DEF BasketInv
<1>10. /\ w \in [Basket!Variants -> Nat] /\ w[choice] = hist.adds + 1
      /\ \A v \in Basket!Variants : v # choice => w[v] = hist.wanted[v]
  BY <1>1, <1>2, <1>3, <1>4
<1>11. /\ BasketPast(hist') /\ hist'.adds = hist.adds + 1 /\ hist'.wanted = w
      /\ hist'.during = d /\ hist'.unheard = hist.unheard
  BY <1>1, <1>2, <1>3, <1>4, <1>10 DEF BasketPast
<1>12. hist.during \subseteq d /\ 1..hist.adds \subseteq 1..hist.adds + 1
  BY <1>1, <1>2, <1>3, <1>4
<1>13. \A k \in DOMAIN kept : \E j \in DOMAIN ui.items :
         /\ lines[k] = ui.items[j] /\ Basket!VariantOf(ui.items[j]) # choice
         /\ ui.items[j].stamp \in 1..hist.adds
         /\ ui.items[j].stamp = hist.wanted[Basket!VariantOf(ui.items[j])]
         /\ Basket!VariantOf(ui.items[j]) \in Basket!Variants
  <2>1. \A j \in DOMAIN ui.items :
          /\ ui.items[j].stamp \in 1..hist.adds
          /\ ui.items[j].stamp = hist.wanted[Basket!VariantOf(ui.items[j])]
    BY DEF BasketInv, BasketLines
  <2>2. \A j \in DOMAIN ui.items : Basket!VariantOf(ui.items[j]) \in Basket!Variants
    <3>1. \A j \in DOMAIN ui.items : ui.items[j] \in CartLines
      BY <1>4, LenProperties, ElementOfSeq
    <3>2. \A x \in CartLines : Basket!VariantOf(x) \in Basket!Variants
      BY DEF CartLines, Basket!VariantOf, Basket!Variants
    <3> QED BY <3>1, <3>2
  <2> QED BY <1>6, <1>7, <2>1, <2>2
<1>14. BasketLines(lines, hist.adds + 1, w, d)
  <2>1. ASSUME NEW k \in DOMAIN lines
        PROVE  /\ lines[k].stamp \in 1..hist.adds + 1
               /\ lines[k].stamp = w[Basket!VariantOf(lines[k])]
    <3>1. CASE k = last
      BY <1>4, <1>5, <1>7, <1>10, <3>1
    <3>2. CASE k \in DOMAIN kept
      BY <1>10, <1>12, <1>13, <3>2
    <3> QED BY <1>7, <3>1, <3>2
  <2>2. ASSUME NEW v \in Basket!Variants, w[v] \notin d \cup {0}
        PROVE  \E k \in DOMAIN lines : lines[k].stamp = w[v] /\ Basket!VariantOf(lines[k]) = v
    <3>1. CASE v = choice
      BY <1>5, <1>7, <1>10, <3>1
    <3>2. CASE v # choice
      <4>1. PICK j \in DOMAIN ui.items :
              ui.items[j].stamp = hist.wanted[v] /\ Basket!VariantOf(ui.items[j]) = v
        BY <1>10, <1>12, <2>2, <3>2 DEF BasketInv, BasketLines
      <4>2. PICK k \in DOMAIN kept : kept[k] = ui.items[j]
        BY <1>6, <3>2, <4>1
      <4> QED BY <1>7, <1>10, <3>2, <4>1, <4>2
    <3> QED BY <3>1, <3>2
  <2> QED BY <2>1, <2>2 DEF BasketLines
<1>15. BasketSrv(srv, hist.adds + 1)
  BY <1>12 DEF BasketInv, BasketSrv
<1>16. BasketNet(net, lines, ui.submitting, srv, hist.adds + 1, d)
  <2>1. ASSUME NEW i, Orders(net, i)
        PROVE  /\ \A x \in SetOf(net[i].arg.items) : x.stamp \in 1..hist.adds + 1
               /\ \A k \in DOMAIN lines :
                     lines[k] \in SetOf(net[i].arg.items) \/ lines[k].stamp \in d
    <3>1. /\ \A x \in SetOf(net[i].arg.items) : x.stamp \in 1..hist.adds
          /\ \A k \in DOMAIN ui.items :
                ui.items[k] \in SetOf(net[i].arg.items) \/ ui.items[k].stamp \in hist.during
      BY <2>1 DEF BasketInv, BasketNet
    <3>2. hist.adds + 1 \in d
      BY <1>1, <1>2, <1>3, <2>1 DEF Basket!InFlight, Orders
    <3>3. \A k \in DOMAIN kept :
            lines[k] \in SetOf(net[i].arg.items) \/ lines[k].stamp \in d
      BY <1>12, <1>13, <3>1
    <3>4. lines[last].stamp \in d
      BY <1>5, <1>7, <3>2
    <3> QED BY <1>7, <1>12, <3>1, <3>3, <3>4
  <2> QED BY <2>1 DEF BasketInv, BasketNet
<1>17. ASSUME ~ hist.unheard PROVE OrderedOnce(net, lines, srv)
  <2>1. OrderedOnce(net, ui.items, srv) /\ BasketSrv(srv, hist.adds)
    BY <1>17 DEF BasketInv
  <2>2. ASSUME NEW k \in DOMAIN srv, NEW m \in DOMAIN lines, lines[m] \in srv[k].lines
        PROVE  \E i : Orders(net, i) /\ net[i].ok
    <3>1. CASE m = last
      BY <1>4, <1>5, <1>7, <2>1, <2>2, <3>1 DEF BasketSrv
    <3>2. CASE m \in DOMAIN kept
      BY <1>13, <2>1, <2>2, <3>2 DEF OrderedOnce
    <3> QED BY <1>7, <3>1, <3>2
  <2> QED BY <2>1, <2>2 DEF OrderedOnce
<1> QED BY <1>1, <1>2, <1>3, <1>8, <1>9, <1>11, <1>14, <1>15, <1>16, <1>17 DEF BasketInv

LEMMA BasketRemove ==
  ASSUME BasketInv, Basket!removeItem PROVE BasketInv'
<1>1. PICK i, item, lines, w :
        /\ i \in DOMAIN ui.items /\ item = ui.items[i]
        /\ lines = Basket!Without(ui.items, item)
        /\ ui' = [ui EXCEPT !.items = lines]
        /\ store' = [store EXCEPT !.cart = lines]
        /\ w = [hist.wanted EXCEPT ![Basket!VariantOf(item)] = 0]
        /\ hist' = [hist EXCEPT !.wanted = w]
        /\ UNCHANGED <<net, srv>>
  BY DEF Basket!removeItem, Basket!persist
<1>2. /\ BasketUi(ui) /\ ui.items \in Seq(CartLines) /\ BasketPast(hist)
      /\ hist.adds \in Nat /\ hist.wanted \in [Basket!Variants -> Nat]
  BY DEF BasketInv, BasketUi, BasketPast
<1>3. item \in CartLines
  BY <1>1, <1>2, LenProperties, ElementOfSeq
<1>4. /\ lines \in Seq(CartLines)
      /\ \A k \in DOMAIN lines : \E j \in DOMAIN ui.items :
            lines[k] = ui.items[j] /\ Basket!VariantOf(ui.items[j]) # Basket!VariantOf(item)
      /\ \A j \in DOMAIN ui.items : Basket!VariantOf(ui.items[j]) # Basket!VariantOf(item) =>
            \E k \in DOMAIN lines : lines[k] = ui.items[j]
  <2>1. PICK items : items = ui.items
    OBVIOUS
  <2>2. items \in Seq(CartLines) /\ lines = Basket!Without(items, item)
    BY <1>1, <1>2, <2>1
  <2>3. /\ lines \in Seq(CartLines)
        /\ \A k \in DOMAIN lines : \E j \in DOMAIN items :
              lines[k] = items[j] /\ Basket!VariantOf(items[j]) # Basket!VariantOf(item)
        /\ \A j \in DOMAIN items : Basket!VariantOf(items[j]) # Basket!VariantOf(item) =>
              \E k \in DOMAIN lines : lines[k] = items[j]
    BY <1>3, <2>2, BasketWithout
  <2> QED BY <2>1, <2>3
<1>5. /\ BasketUi(ui') /\ ui'.items = lines
      /\ ui'.submitting = ui.submitting /\ ui'.order = ui.order
  BY <1>1, <1>2, <1>4 DEF BasketUi
<1>6. store' = [cart |-> store'.cart, refs |-> store'.refs] /\ store'.cart = lines
  BY <1>1 DEF BasketInv
<1>7. /\ w \in [Basket!Variants -> Nat]
      /\ \A v \in Basket!Variants : w[v] = IF v = Basket!VariantOf(item) THEN 0 ELSE hist.wanted[v]
  BY <1>1, <1>2
<1>8. /\ BasketPast(hist') /\ hist'.adds = hist.adds /\ hist'.wanted = w
      /\ hist'.during = hist.during /\ hist'.unheard = hist.unheard
  BY <1>1, <1>2, <1>7 DEF BasketPast
<1>9. BasketLines(lines, hist.adds, w, hist.during)
  <2>1. ASSUME NEW k \in DOMAIN lines
        PROVE  /\ lines[k].stamp \in 1..hist.adds
               /\ lines[k].stamp = w[Basket!VariantOf(lines[k])]
    <3>1. PICK j \in DOMAIN ui.items :
            lines[k] = ui.items[j] /\ Basket!VariantOf(ui.items[j]) # Basket!VariantOf(item)
      BY <1>4
    <3>2. ui.items[j] \in CartLines
      BY <1>2, LenProperties, ElementOfSeq
    <3>3. Basket!VariantOf(ui.items[j]) \in Basket!Variants
      BY <3>2 DEF CartLines, Basket!VariantOf, Basket!Variants
    <3> QED BY <1>7, <3>1, <3>3 DEF BasketInv, BasketLines
  <2>2. ASSUME NEW v \in Basket!Variants, w[v] \notin hist.during \cup {0}
        PROVE  \E k \in DOMAIN lines : lines[k].stamp = w[v] /\ Basket!VariantOf(lines[k]) = v
    <3>1. v # Basket!VariantOf(item) /\ w[v] = hist.wanted[v]
      BY <1>7, <2>2
    <3>2. PICK j \in DOMAIN ui.items :
            ui.items[j].stamp = hist.wanted[v] /\ Basket!VariantOf(ui.items[j]) = v
      BY <2>2, <3>1 DEF BasketInv, BasketLines
    <3>3. PICK k \in DOMAIN lines : lines[k] = ui.items[j]
      BY <1>4, <3>1, <3>2
    <3> QED BY <3>1, <3>2, <3>3
  <2> QED BY <2>1, <2>2 DEF BasketLines
<1>10. BasketNet(net, lines, ui.submitting, srv, hist.adds, hist.during)
  BY <1>4 DEF BasketInv, BasketNet
<1>11. ~ hist.unheard => OrderedOnce(net, lines, srv)
  BY <1>4 DEF BasketInv, OrderedOnce
<1> QED BY <1>1, <1>5, <1>6, <1>8, <1>9, <1>10, <1>11 DEF BasketInv

LEMMA BasketReload ==
  ASSUME BasketInv, Basket!Reload PROVE BasketInv'
<1>1. /\ ui' = [items |-> store.cart, open |-> FALSE, submitting |-> FALSE,
                listed |-> {}, order |-> {}, resend |-> "none", signedIn |-> ui.signedIn]
      /\ net' = << >> /\ UNCHANGED <<store, srv>> /\ store.cart = ui.items
  BY DEF Basket!Reload, BasketInv
<1>2. PICK b \in BOOLEAN :
        /\ b = (hist.unheard \/ Basket!InFlight(net, "checkout"))
        /\ hist' = [hist EXCEPT !.unheard = b]
  BY DEF Basket!Reload
<1>3. /\ BasketUi(ui') /\ ui'.items = ui.items /\ ui'.order = {}
      /\ ui'.submitting = FALSE
  BY <1>1 DEF BasketInv, BasketUi
<1>4. /\ BasketPast(hist') /\ hist'.adds = hist.adds /\ hist'.wanted = hist.wanted
      /\ hist'.during = hist.during /\ hist'.unheard = b
  BY <1>2 DEF BasketInv, BasketPast
<1>5. Proper(net') /\ \A i : ~ Orders(net', i)
  <2>1. PICK e : e = << >> /\ DOMAIN e = {}
    OBVIOUS
  <2> QED BY <1>1, <2>1, ProperEmpty DEF Orders
<1>6. BasketNet(net', ui.items, FALSE, srv, hist.adds, hist.during)
  BY <1>5 DEF BasketNet
<1>7. ASSUME ~ b PROVE OrderedOnce(net', ui.items, srv)
  <2>1. OrderedOnce(net, ui.items, srv) /\ \A i : ~ Orders(net, i)
    BY <1>2, <1>7 DEF BasketInv, Basket!InFlight, Orders
  <2> QED BY <1>5, <2>1 DEF OrderedOnce
<1>8. BasketOffer({}, srv)
  BY DEF BasketOffer
<1> QED BY <1>1, <1>3, <1>4, <1>6, <1>7, <1>8 DEF BasketInv

LEMMA BasketRefused ==
  ASSUME BasketInv, NEW i, Orders(net, i), ~ net[i].ok, net' = Settled(net, i),
         ui' = [ui EXCEPT !.submitting = FALSE], UNCHANGED <<store, srv, hist>>
  PROVE  BasketInv'
<1>1. Proper(net) /\ i \in DOMAIN net /\ \A j : Orders(net, j) => i = j
  BY DEF BasketInv, BasketNet, Orders
<1>2. Settles(net, net', i)
  BY <1>1, ProperSettled
<1>3. Proper(net') /\ \A j : ~ Orders(net', j)
  BY <1>1, <1>2 DEF Settles, Orders
<1>4. /\ BasketUi(ui') /\ ui'.items = ui.items /\ ui'.order = ui.order
      /\ ui'.submitting = FALSE
  BY DEF BasketInv, BasketUi
<1>5. BasketNet(net', ui.items, FALSE, srv, hist.adds, hist.during)
  BY <1>3 DEF BasketNet
<1>6. ASSUME ~ hist.unheard PROVE OrderedOnce(net', ui.items, srv)
  <2>1. OrderedOnce(net, ui.items, srv)
    BY <1>6 DEF BasketInv
  <2>2. \A k \in DOMAIN srv, m \in DOMAIN ui.items : ui.items[m] \notin srv[k].lines
    BY <1>1, <2>1 DEF OrderedOnce
  <2> QED BY <1>3, <2>1, <2>2 DEF OrderedOnce
<1> QED BY <1>4, <1>5, <1>6 DEF BasketInv

LEMMA BasketAccepted ==
  ASSUME BasketInv, NEW i, Orders(net, i), net[i].ok,
         Basket!Commit(Basket!Accepted(net[i]), Basket!addBookingRef(net[i]), Settled(net, i)),
         store' = [cart |-> << >>, refs |-> Basket!addBookingRef(net[i])],
         hist' = [hist EXCEPT !.wanted = [v \in Basket!Variants |->
                    IF \E k \in DOMAIN net[i].arg.items : net[i].arg.items[k].stamp = @[v]
                    THEN 0 ELSE @[v]]],
         UNCHANGED srv
  PROVE  BasketInv'
<1>1. Proper(net) /\ i \in DOMAIN net /\ \A j : Orders(net, j) => i = j
  BY DEF BasketInv, BasketNet, Orders
<1>2. PICK n, u, refs, sent : /\ n = Settled(net, i) /\ u = Basket!Accepted(net[i])
                              /\ refs = Basket!addBookingRef(net[i]) /\ sent = net[i].arg.items
  OBVIOUS
<1>3. Settles(net, n, i)
  BY <1>1, <1>2, ProperSettled
<1>4. Proper(n) /\ \A j : ~ Orders(n, j)
  BY <1>1, <1>3 DEF Settles, Orders
<1>5. ui' = u /\ SameOrders(n, net')
  BY <1>2, <1>4, BasketCommit
<1>6. Proper(net') /\ \A j : ~ Orders(net', j)
  BY <1>4, <1>5 DEF SameOrders
<1>7. PICK e : e = << >> /\ e \in Seq(CartLines) /\ DOMAIN e = {}
  <2>1. PICK e : e = << >>
    OBVIOUS
  <2>2. e \in Seq(CartLines) /\ Len(e) = 0
    BY <2>1, EmptySeq
  <2>3. DOMAIN e = {}
    BY <2>2, LenProperties
  <2> QED BY <2>1, <2>2, <2>3
<1>8. /\ BasketUi(u) /\ u.items = e /\ u.submitting = FALSE
      /\ u.order = SetOf(sent)
  <2>1. PICK l, r, o :
          /\ u = [ui EXCEPT !.items = e, !.submitting = FALSE, !.listed = l, !.order = o,
                            !.resend = r]
          /\ o = SetOf(sent)
    BY <1>2, <1>7, BasketSet DEF Basket!Accepted, Basket!OrderSent
  <2> QED BY <1>7, <2>1 DEF BasketInv, BasketUi
<1>9. store' = [cart |-> store'.cart, refs |-> store'.refs] /\ store'.cart = e
  BY <1>2, <1>7
<1>10. PICK w : /\ w = [v \in Basket!Variants |->
                          IF \E k \in DOMAIN sent : sent[k].stamp = hist.wanted[v]
                          THEN 0 ELSE hist.wanted[v]]
                /\ hist' = [hist EXCEPT !.wanted = w]
  BY <1>2
<1>11. w \in [Basket!Variants -> Nat]
  BY <1>10 DEF BasketInv, BasketPast
<1>12. /\ BasketPast(hist') /\ hist'.adds = hist.adds /\ hist'.wanted = w
       /\ hist'.during = hist.during /\ hist'.unheard = hist.unheard
  BY <1>10, <1>11 DEF BasketInv, BasketPast
<1>13. BasketLines(e, hist.adds, w, hist.during)
  <2>1. ASSUME NEW v \in Basket!Variants, w[v] \notin hist.during \cup {0} PROVE FALSE
    <3>1. w[v] = hist.wanted[v] /\ \A k \in DOMAIN sent : sent[k].stamp # hist.wanted[v]
      BY <1>10, <2>1
    <3>2. PICK k \in DOMAIN ui.items : ui.items[k].stamp = hist.wanted[v]
      BY <2>1, <3>1 DEF BasketInv, BasketLines
    <3>3. ui.items[k] \in SetOf(sent) \/ ui.items[k].stamp \in hist.during
      BY <1>2 DEF BasketInv, BasketNet
    <3> QED BY <2>1, <3>1, <3>2, <3>3 DEF SetOf
  <2> QED BY <1>7, <2>1 DEF BasketLines
<1>14. BasketNet(net', e, FALSE, srv, hist.adds, hist.during)
  BY <1>6 DEF BasketNet
<1>15. BasketOffer(SetOf(sent), srv)
  BY <1>2 DEF BasketInv, BasketNet, BasketOffer
<1>16. ~ hist.unheard => OrderedOnce(net', e, srv)
  BY <1>6, <1>7 DEF BasketInv, OrderedOnce
<1> QED BY <1>5, <1>8, <1>9, <1>12, <1>13, <1>14, <1>15, <1>16 DEF BasketInv

LEMMA BasketAnswer ==
  ASSUME BasketInv, Basket!CheckoutAnswered PROVE BasketInv'
<1>1. PICK i : Orders(net, i) /\
        IF net[i].ok
        THEN /\ Basket!Commit(Basket!Accepted(net[i]), Basket!addBookingRef(net[i]), Settled(net, i))
             /\ store' = [cart |-> << >>, refs |-> Basket!addBookingRef(net[i])]
             /\ hist' = [hist EXCEPT !.wanted = [v \in Basket!Variants |->
                          IF \E k \in DOMAIN net[i].arg.items : net[i].arg.items[k].stamp = @[v]
                          THEN 0 ELSE @[v]]]
             /\ UNCHANGED srv
        ELSE /\ ui' = [ui EXCEPT !.submitting = FALSE] /\ net' = Settled(net, i)
             /\ UNCHANGED <<store, srv, hist>>
  BY BasketCalls DEF Basket!CheckoutAnswered, Basket!Answered, Orders
<1>2. CASE net[i].ok
  BY <1>1, <1>2, BasketAccepted
<1>3. CASE ~ net[i].ok
  BY <1>1, <1>3, BasketRefused
<1> QED BY <1>2, <1>3

LEMMA BasketNext ==
  ASSUME BasketInv, [Basket!Next]_Basket!vars PROVE BasketInv'
<1>1. CASE UNCHANGED Basket!vars
  BY <1>1 DEF Basket!vars, BasketInv
<1>2. CASE Basket!Next
  BY <1>2, BasketBackend, BasketFiled, BasketDrawer, BasketListed, BasketAdd, BasketRemove,
     BasketCheckout, BasketAnswer, BasketResend, BasketReload
     DEF Basket!Next, Basket!Backend
<1> QED BY <1>1, <1>2

\* No line is booked twice, unless the customer could not know of the first booking.
THEOREM LineOrderedOnce == Basket!Spec => []Basket!NoLineOrderedTwice
<1>1. BasketInv => Basket!NoLineOrderedTwice
  BY DEF BasketInv, OrderedOnce, Basket!NoLineOrderedTwice
<1> QED BY <1>1, BasketInit, BasketNext, PTL DEF Basket!Spec

\* The cart is what was chosen, in localStorage too, and the offer sent after a booking
\* is of one that was filed.
THEOREM CartIsTheOrder == Basket!Spec => [](Basket!CartKept /\ Basket!OfferIsOrder)
<1>1. BasketInv => Basket!CartKept
  BY DEF BasketInv, BasketLines, Basket!CartKept
<1>2. BasketInv => Basket!OfferIsOrder
  BY DEF BasketInv, BasketOffer, Basket!OfferIsOrder, Basket!Offered
<1> QED BY <1>1, <1>2, BasketInit, BasketNext, PTL DEF Basket!Spec

-----------------------------------------------------------------------------
(* The assistant.  While a turn is on its way nothing is put to the end of   *)
(* the thread: the turn was sent with the thread as it is on screen.         *)

CONSTANT MaxTurns

Assistant == INSTANCE AiAssistant

LEMMA AssistantCalls ==
  /\ \A n, i, d : Assistant!Served(n, i, d) = Served(n, i, d)
  /\ \A n, i, d : Assistant!Refused(n, i, d) = Refused(n, i, d)
  /\ \A n, i : Assistant!Settled(n, i) = Settled(n, i)
  /\ \A n, k, a : Assistant!Sent(n, k, a) = Sent(n, k, a)
BY DEF Assistant!Served, Served, Assistant!Refused, Refused, Assistant!Settled, Settled,
       Assistant!RemoveAt, RemoveAt, Assistant!Sent, Sent, Assistant!Call, Call

AssistantUi(u) ==
    /\ u = [open |-> u.open, thread |-> u.thread, input |-> u.input, sending |-> u.sending,
            unavailable |-> u.unavailable]
    /\ u.sending \in BOOLEAN

\* Every reply of a thread follows its question.
Paired(t) ==
    /\ t \in Seq(SetOf(t))
    /\ \A k \in DOMAIN t : t[k].role = "assistant" =>
          k > 1 /\ t[k - 1] = Assistant!Question(t[k].n)

\* The one turn on its way asks about the end of the thread.
Turns(n, sending, t) ==
    /\ Proper(n)
    /\ \A i, j \in DOMAIN n : i = j
    /\ ~ sending => DOMAIN n = {}
    /\ \A i \in DOMAIN n : /\ n[i].arg = t
                           /\ Len(t) \in DOMAIN t
                           /\ t[Len(t)] = Assistant!Question(t[Len(t)].n)

AssistantInv == AssistantUi(ui) /\ Paired(ui.thread) /\ Turns(net, ui.sending, ui.thread)

LEMMA AssistantInit ==
  ASSUME Assistant!Init PROVE AssistantInv
<1>1. AssistantUi(ui) /\ ui.thread = << >>
  BY DEF Assistant!Init, Assistant!Widget, AssistantUi
<1>2. Proper(net) /\ DOMAIN net = {}
  BY ProperEmpty DEF Assistant!Init
<1>3. Paired(ui.thread)
  BY <1>1 DEF Paired, SetOf
<1> QED BY <1>1, <1>2, <1>3 DEF AssistantInv, Turns

LEMMA AssistantServes ==
  ASSUME AssistantInv, Assistant!Backend PROVE AssistantInv'
<1>1. PICK i, data, m :
        /\ i \in DOMAIN net /\ net[i].stage = "sent" /\ net' = m
        /\ m = Served(net, i, data) \/ m = Refused(net, i, data)
  BY AssistantCalls DEF Assistant!Backend, Assistant!ServeTurn, Assistant!Waiting
<1>2. PICK ok : Answers(net, i, m, data, ok)
  BY <1>1, ProperAnswered DEF AssistantInv, Turns
<1>3. Turns(m, ui.sending, ui.thread)
  BY <1>2 DEF AssistantInv, Turns, Answers
<1> QED BY <1>1, <1>3 DEF AssistantInv, Assistant!Backend

LEMMA AssistantClicks ==
  ASSUME AssistantInv, Assistant!Open \/ Assistant!Close \/ Assistant!Type PROVE AssistantInv'
<1>1. /\ net' = net
      /\ \/ ui' = [ui EXCEPT !.open = TRUE] \/ ui' = [ui EXCEPT !.open = FALSE]
         \/ ui' = [ui EXCEPT !.input = TRUE]
  BY DEF Assistant!Open, Assistant!Close, Assistant!Type
<1>2. AssistantUi(ui') /\ ui'.thread = ui.thread /\ ui'.sending = ui.sending
  BY <1>1 DEF AssistantInv, AssistantUi
<1> QED BY <1>1, <1>2 DEF AssistantInv

LEMMA AssistantAsks ==
  ASSUME AssistantInv, Assistant!Send PROVE AssistantInv'
<1>1. PICK q, t : q = Assistant!Question(hist + 1) /\ t = Append(ui.thread, q)
  OBVIOUS
<1>2. /\ ~ ui.sending /\ net' = Sent(net, "turn", t)
      /\ ui' = [ui EXCEPT !.thread = t, !.input = FALSE, !.sending = TRUE]
  BY <1>1, AssistantCalls DEF Assistant!Send, Assistant!MayAsk
<1>3. PICK k : k = Len(ui.thread) + 1
  OBVIOUS
<1>4. Joins(ui.thread, t, k, q)
  BY <1>1, <1>3, OneMore DEF AssistantInv, Paired
<1>5. q.role = "user" /\ q = Assistant!Question(q.n)
  BY <1>1 DEF Assistant!Question
<1>6. Len(t) = k /\ DOMAIN ui.thread = 1..(k - 1) /\ k \in Nat
  <2>1. DOMAIN ui.thread = 1..Len(ui.thread) /\ Len(ui.thread) \in Nat
    BY DEF AssistantInv, Paired
  <2>2. DOMAIN t = 1..Len(t) /\ Len(t) \in Nat
    BY <1>4 DEF Joins
  <2> QED BY <1>3, <1>4, <2>1, <2>2 DEF Joins
<1>7. Paired(t)
  BY <1>4, <1>5, <1>6 DEF AssistantInv, Paired, Joins
<1>8. PICK last : Asks(net, net', last, "turn", t)
  BY <1>2, ProperSent DEF AssistantInv, Turns
<1>9. Turns(net', TRUE, t)
  BY <1>2, <1>4, <1>5, <1>6, <1>8 DEF AssistantInv, Turns, Asks, Joins
<1>10. AssistantUi(ui') /\ ui'.thread = t /\ ui'.sending = TRUE
  BY <1>2 DEF AssistantInv, AssistantUi
<1> QED BY <1>7, <1>9, <1>10 DEF AssistantInv

LEMMA AssistantReplies ==
  ASSUME AssistantInv, Assistant!TurnAnswered PROVE AssistantInv'
<1>1. PICK i \in DOMAIN net :
        /\ net' = Settled(net, i)
        /\ ui' = IF net[i].ok
                 THEN [ui EXCEPT !.sending = FALSE,
                         !.thread = Append(@, Assistant!Reply(Assistant!Last(net[i].arg).n))]
                 ELSE IF net[i].data = "unavailable"
                 THEN [ui EXCEPT !.sending = FALSE, !.unavailable = TRUE]
                 ELSE [ui EXCEPT !.sending = FALSE]
  BY AssistantCalls DEF Assistant!TurnAnswered, Assistant!Answered
<1>2. Settles(net, net', i)
  BY <1>1, ProperSettled DEF AssistantInv, Turns
<1>3. Proper(net') /\ DOMAIN net' = {}
  BY <1>2 DEF Settles, AssistantInv, Turns
<1>4. CASE ~ net[i].ok
  <2>1. AssistantUi(ui') /\ ui'.thread = ui.thread
    BY <1>1, <1>4 DEF AssistantInv, AssistantUi
  <2> QED BY <1>3, <2>1 DEF AssistantInv, Turns
<1>5. CASE net[i].ok
  <2>1. PICK r, t : /\ r = Assistant!Reply(Assistant!Last(net[i].arg).n)
                    /\ t = Append(ui.thread, r)
    OBVIOUS
  <2>2. PICK k : k = Len(ui.thread) + 1
    OBVIOUS
  <2>3. Joins(ui.thread, t, k, r)
    BY <2>1, <2>2, OneMore DEF AssistantInv, Paired
  <2>4. AssistantUi(ui') /\ ui'.thread = t
    BY <1>1, <1>5, <2>1 DEF AssistantInv, AssistantUi
  <2>5. /\ Len(ui.thread) \in DOMAIN ui.thread
        /\ ui.thread[Len(ui.thread)] = Assistant!Question(r.n)
    BY <2>1 DEF AssistantInv, Turns, Assistant!Last, Assistant!Reply
  <2>6. DOMAIN ui.thread = 1..(k - 1) /\ k - 1 = Len(ui.thread) /\ k - 1 \in Nat /\ k \in Nat
    BY <2>2 DEF AssistantInv, Paired
  <2>7. k > 1 /\ t[k - 1] = Assistant!Question(r.n) /\ t[k] = r
    BY <2>3, <2>5, <2>6 DEF Joins
  <2>8. Paired(t)
    BY <2>3, <2>6, <2>7 DEF AssistantInv, Paired, Joins
  <2> QED BY <1>3, <2>4, <2>8 DEF AssistantInv, Turns
<1> QED BY <1>4, <1>5

LEMMA AssistantNext ==
  ASSUME AssistantInv, [Assistant!Next]_(Assistant!vars) PROVE AssistantInv'
<1>1. CASE UNCHANGED Assistant!vars
  BY <1>1 DEF Assistant!vars, AssistantInv
<1> QED BY <1>1, AssistantServes, AssistantClicks, AssistantAsks, AssistantReplies
        DEF Assistant!Next

\* A reply of the assistant stands right after the question it answers, whatever is
\* closed, opened or typed while it thinks, and however many turns fail.
THEOREM RepliesFollow == Assistant!Spec => []Assistant!ReplyFollowsQuestion
<1>1. AssistantInv => Assistant!ReplyFollowsQuestion
  BY DEF AssistantInv, Paired, Assistant!ReplyFollowsQuestion
<1> QED BY <1>1, AssistantInit, AssistantNext, PTL DEF Assistant!Spec

-----------------------------------------------------------------------------
(* The bell.  Unless something happened that it cannot know of, its number   *)
(* is that of the unread notifications for which no mark is on its way: a    *)
(* click takes off the number what it sends marks for, and a mark that is    *)
(* served changes neither.                                                   *)

CONSTANTS BellKinds, BellPage, MaxBellClicks

Bell == INSTANCE NotificationBell WITH
    KindOf <- BellKinds, BellLimit <- BellPage, MaxClicks <- MaxBellClicks

LEMMA BellCalls ==
  /\ \A n, i, d : Bell!Served(n, i, d) = Served(n, i, d)
  /\ \A n, i, d : Bell!Refused(n, i, d) = Refused(n, i, d)
  /\ \A n, i : Bell!Settled(n, i) = Settled(n, i)
  /\ \A n, k, a : Bell!Sent(n, k, a) = Sent(n, k, a)
  /\ \A n, k : Bell!Unheard(n, k) = Unheard(n, k)
  /\ \A n, ids : Bell!Marks(n, ids) = Each(n, "mark", ids)
BY DEF Bell!Served, Served, Bell!Refused, Refused, Bell!Settled, Settled, Bell!RemoveAt,
       RemoveAt, Bell!Sent, Sent, Bell!Call, Call, Bell!Unheard, Unheard, Bell!Marks, Each,
       Bell!Nth, Nth, Bell!Cardinality, Cardinality

BellUi(u, s) ==
    /\ u = [open |-> u.open, count |-> u.count, list |-> u.list, loading |-> u.loading,
            discussion |-> u.discussion]
    /\ DOMAIN u.list \subseteq 1..s.last

BellSrv(s) == s = [last |-> s.last, read |-> s.read] /\ s.last \in Nat

BellPast(h) == h = [off |-> h.off, clicks |-> h.clicks] /\ h.off \in BOOLEAN

\* What an answer brings has arrived.
BellNet(n, s) ==
    /\ Proper(n)
    /\ \A i \in DOMAIN n : n[i].ok =>
          /\ n[i].kind = "bell" => DOMAIN n[i].data.list \subseteq 1..s.last
          /\ n[i].kind = "suppress" => n[i].data \subseteq 1..s.last

\* A mark of notification x is on its way to the backend.
Leaves(n, x) == \E i \in DOMAIN n : n[i].kind = "mark" /\ n[i].stage = "sent" /\ n[i].arg = x

NotMarked(n, s) == {x \in 1..s.last : x \notin s.read /\ ~ Leaves(n, x)}

BellInv ==
    /\ BellUi(ui, srv) /\ BellSrv(srv) /\ BellPast(hist) /\ BellNet(net, srv)
    /\ ~ hist.off => ui.count = Cardinality(NotMarked(net, srv))

LEMMA BellInit ==
  ASSUME Bell!Init PROVE BellInv
<1>1. PICK e : e = << >>
  OBVIOUS
<1>2. Proper(e) /\ DOMAIN e = {}
  BY <1>1, ProperEmpty
<1>3. net = Sent(e, "count", None)
  BY <1>1, BellCalls DEF Bell!Init
<1>4. PICK last : Asks(e, net, last, "count", None)
  BY <1>2, <1>3, ProperSent
<1>5. BellNet(net, srv)
  BY <1>2, <1>4 DEF Asks, BellNet
<1>6. BellUi(ui, srv)
  <2>1. ui = [open |-> FALSE, count |-> 0, list |-> e, loading |-> FALSE, discussion |-> FALSE]
    BY <1>1 DEF Bell!Init
  <2> QED BY <1>2, <2>1 DEF BellUi
<1>7. BellSrv(srv) /\ BellPast(hist) /\ hist.off
  BY DEF Bell!Init, BellSrv, BellPast
<1> QED BY <1>5, <1>6, <1>7 DEF BellInv

\* What the backend answers without changing anything.
LEMMA BellLooks ==
  ASSUME BellInv, Bell!ServeLook, UNCHANGED ui PROVE BellInv'
<1>1. UNCHANGED <<srv, hist>> /\ Proper(net) /\ srv.last \in Nat
  BY DEF Bell!ServeLook, BellInv, BellNet, BellSrv
<1>2. PICK i, data :
        /\ i \in DOMAIN net /\ net[i].stage = "sent" /\ net[i].kind # "mark"
        /\ net' = Served(net, i, data)
        /\ net[i].kind = "bell" => DOMAIN data.list \subseteq 1..srv.last
        /\ net[i].kind = "suppress" => data \subseteq 1..srv.last
  <2>1. CASE \E i \in Bell!Waiting(net, "bell") :
               net' = Bell!Served(net, i, Bell!Answer(1..srv.last, srv.read, 1, BellPage))
    <3>1. PICK i \in DOMAIN net :
            /\ net[i].stage = "sent" /\ net[i].kind = "bell"
            /\ net' = Served(net, i, Bell!Answer(1..srv.last, srv.read, 1, BellPage))
      BY <2>1, BellCalls DEF Bell!Waiting
    <3>2. PICK data : data = Bell!Answer(1..srv.last, srv.read, 1, BellPage)
      OBVIOUS
    <3>3. DOMAIN data.list = Bell!PageOf(1..srv.last, 1, BellPage)
      BY <3>2 DEF Bell!Answer
    <3>4. DOMAIN data.list \subseteq 1..srv.last
      BY <3>3 DEF Bell!PageOf
    <3> QED BY <3>1, <3>2, <3>4
  <2>2. CASE \E i \in Bell!Waiting(net, "count") :
               net' = Bell!Served(net, i, Bell!Cardinality(Bell!Unread))
    BY <2>2, BellCalls DEF Bell!Waiting
  <2>3. CASE \E i \in Bell!Waiting(net, "suppress") : net' = Bell!Served(net, i, Bell!Unread)
    BY <2>3, BellCalls DEF Bell!Waiting, Bell!Unread
  <2> QED BY <2>1, <2>2, <2>3 DEF Bell!ServeLook
<1>3. Answers(net, i, net', data, TRUE)
  BY <1>1, <1>2, ProperAnswered
<1>4. BellNet(net', srv)
  BY <1>2, <1>3 DEF Answers, BellInv, BellNet
<1>5. NotMarked(net', srv) = NotMarked(net, srv)
  BY <1>2, <1>3 DEF Answers, NotMarked, Leaves
<1> QED BY <1>1, <1>4, <1>5 DEF BellInv

\* A mark that is served was counted as one already.
LEMMA BellMarks ==
  ASSUME BellInv, Bell!ServeMark, UNCHANGED ui PROVE BellInv'
<1>1. PICK i, read :
        /\ i \in DOMAIN net /\ net[i].stage = "sent" /\ net[i].kind = "mark"
        /\ read = srv.read \cup {net[i].arg} /\ srv' = [srv EXCEPT !.read = read]
        /\ net' = Served(net, i, None) /\ hist' = hist
  BY BellCalls DEF Bell!ServeMark, Bell!Waiting
<1>2. Answers(net, i, net', None, TRUE)
  BY <1>1, ProperAnswered DEF BellInv, BellNet
<1>3. BellSrv(srv') /\ srv'.last = srv.last /\ srv'.read = read
  BY <1>1 DEF BellInv, BellSrv
<1>4. BellNet(net', srv') /\ BellUi(ui, srv')
  BY <1>1, <1>2, <1>3 DEF Answers, BellInv, BellNet, BellUi
<1>5. NotMarked(net', srv') = NotMarked(net, srv)
  <2>1. \A x : x \in read \/ Leaves(net', x) <=> x \in srv.read \/ Leaves(net, x)
    BY <1>1, <1>2 DEF Answers, Leaves
  <2> QED BY <1>3, <2>1 DEF NotMarked
<1> QED BY <1>1, <1>3, <1>4, <1>5 DEF BellInv

\* What makes the number uncertain.
LEMMA BellOff ==
  ASSUME BellInv, UNCHANGED ui,
         Bell!ServeMarkAll \/ Bell!Arrive \/ Bell!ReadElsewhere
  PROVE  BellInv'
<1>1. PICK off : off = TRUE
  OBVIOUS
<1>2. hist' = [hist EXCEPT !.off = off]
  BY <1>1 DEF Bell!ServeMarkAll, Bell!Arrive, Bell!ReadElsewhere
<1>3. BellPast(hist') /\ hist'.off
  BY <1>1, <1>2 DEF BellInv, BellPast
<1>4. PICK last, read : /\ last = srv.last + 1
                        /\ \/ srv' = [srv EXCEPT !.read = read]
                           \/ srv' = [srv EXCEPT !.last = last]
  BY DEF Bell!ServeMarkAll, Bell!Arrive, Bell!ReadElsewhere
<1>5. BellSrv(srv') /\ 1..srv.last \subseteq 1..srv'.last
  BY <1>4 DEF BellInv, BellSrv
<1>6. BellNet(net', srv)
  <2>1. CASE net' = net
    BY <2>1 DEF BellInv
  <2>2. CASE Bell!ServeMarkAll
    <3>1. PICK i \in DOMAIN net : /\ net[i].stage = "sent" /\ net[i].kind = "all"
                                  /\ net' = Served(net, i, None)
      BY <2>2, BellCalls DEF Bell!ServeMarkAll, Bell!Waiting
    <3>2. Answers(net, i, net', None, TRUE)
      BY <3>1, ProperAnswered DEF BellInv, BellNet
    <3> QED BY <3>1, <3>2 DEF Answers, BellInv, BellNet
  <2> QED BY <2>1, <2>2 DEF Bell!Arrive, Bell!ReadElsewhere
<1>7. BellNet(net', srv') /\ BellUi(ui, srv')
  BY <1>5, <1>6 DEF BellInv, BellNet, BellUi
<1> QED BY <1>3, <1>5, <1>7 DEF BellInv

LEMMA BellRefused ==
  ASSUME BellInv, UNCHANGED ui, Bell!ServeRefusal PROVE BellInv'
<1>1. PICK i \in DOMAIN net :
        /\ net' = Refused(net, i, None) /\ srv' = srv
        /\ hist' = [hist EXCEPT !.off = @ \/ net[i].kind = "mark"]
  BY BellCalls DEF Bell!ServeRefusal
<1>2. PICK off \in BOOLEAN : off = (hist.off \/ net[i].kind = "mark")
  OBVIOUS
<1>3. hist' = [hist EXCEPT !.off = off]
  BY <1>1, <1>2
<1>4. BellPast(hist') /\ hist'.off = off
  BY <1>3 DEF BellInv, BellPast
<1>5. Answers(net, i, net', None, FALSE)
  BY <1>1, ProperAnswered DEF BellInv, BellNet
<1>6. BellNet(net', srv)
  BY <1>5 DEF Answers, BellInv, BellNet
<1>7. net[i].kind # "mark" => NotMarked(net', srv) = NotMarked(net, srv)
  BY <1>5 DEF Answers, NotMarked, Leaves
<1> QED BY <1>1, <1>2, <1>4, <1>6, <1>7 DEF BellInv

\* The calls that join or leave those in flight without a mark among them.
LEMMA BellSent ==
  ASSUME BellNet(net, srv), NEW kind, kind # "mark", NEW arg, NEW m, m = Sent(net, kind, arg)
  PROVE  BellNet(m, srv) /\ NotMarked(m, srv) = NotMarked(net, srv)
<1>1. PICK last : Asks(net, m, last, kind, arg)
  BY ProperSent DEF BellNet
<1>2. BellNet(m, srv)
  BY <1>1 DEF Asks, BellNet
<1>3. \A x : Leaves(m, x) <=> Leaves(net, x)
  BY <1>1 DEF Asks, Leaves
<1> QED BY <1>2, <1>3 DEF NotMarked

LEMMA BellSettled ==
  ASSUME BellNet(net, srv), NEW i \in DOMAIN net, net[i].stage = "answered",
         NEW m, m = Settled(net, i)
  PROVE  BellNet(m, srv) /\ NotMarked(m, srv) = NotMarked(net, srv)
<1>1. Settles(net, m, i)
  BY ProperSettled DEF BellNet
<1>2. BellNet(m, srv)
  BY <1>1 DEF Settles, BellNet
<1>3. \A x : Leaves(m, x) <=> Leaves(net, x)
  <2>1. \A x : Leaves(m, x) => Leaves(net, x)
    BY <1>1 DEF Settles, Leaves
  <2>2. \A x : Leaves(net, x) => Leaves(m, x)
    <3> SUFFICES ASSUME NEW x, Leaves(net, x) PROVE Leaves(m, x)
      OBVIOUS
    <3>1. PICK j \in DOMAIN net : net[j].kind = "mark" /\ net[j].stage = "sent" /\ net[j].arg = x
      BY DEF Leaves
    <3>2. PICK k \in DOMAIN m : m[k] = net[j]
      BY <1>1, <3>1 DEF Settles
    <3> QED BY <3>1, <3>2 DEF Leaves
  <2> QED BY <2>1, <2>2
<1> QED BY <1>2, <1>3 DEF NotMarked

LEMMA BellUnheard ==
  ASSUME BellNet(net, srv), NEW kinds, NEW m, m = Unheard(net, kinds)
  PROVE  BellNet(m, srv) /\ NotMarked(m, srv) = NotMarked(net, srv)
<1>1. Silences(net, m, kinds)
  BY ProperUnheard DEF BellNet
<1>2. BellNet(m, srv)
  BY <1>1 DEF Silences, BellNet
<1>3. \A x : Leaves(m, x) <=> Leaves(net, x)
  BY <1>1 DEF Silences, Leaves
<1> QED BY <1>2, <1>3 DEF NotMarked

LEMMA BellEach ==
  ASSUME BellSrv(srv), NEW n, BellNet(n, srv), NEW ids, ids \subseteq 1..srv.last
  PROVE  /\ BellNet(Bell!Marks(n, ids), srv)
         /\ NotMarked(Bell!Marks(n, ids), srv) = NotMarked(n, srv) \ ids
<1>1. srv.last \in Nat /\ ids \in SUBSET (1..srv.last)
  BY DEF BellSrv
<1>2. PICK m : m = Bell!Marks(n, ids)
  OBVIOUS
<1>3. AsksEach(n, m, "mark", ids)
  BY <1>1, <1>2, BellCalls, ProperEach DEF BellNet
<1>4. BellNet(m, srv)
  BY <1>3 DEF AsksEach, BellNet
<1>5. \A x : Leaves(n, x) \/ x \in ids => Leaves(m, x)
  BY <1>3 DEF AsksEach, Leaves
<1>6. \A x : Leaves(m, x) => Leaves(n, x) \/ x \in ids
  <2> SUFFICES ASSUME NEW x, Leaves(m, x), x \notin ids PROVE Leaves(n, x)
    OBVIOUS
  <2>1. PICK i \in DOMAIN m : m[i].kind = "mark" /\ m[i].stage = "sent" /\ m[i].arg = x
    BY DEF Leaves
  <2>2. i \in DOMAIN n /\ m[i] = n[i]
    BY <1>3, <2>1 DEF AsksEach
  <2> QED BY <2>1, <2>2 DEF Leaves
<1>7. NotMarked(m, srv) = NotMarked(n, srv) \ ids
  BY <1>5, <1>6 DEF NotMarked
<1> QED BY <1>2, <1>4, <1>7

\* Whatever else the bell does leaves the number and the marks alone.
LEMMA BellSame ==
  ASSUME BellInv, srv' = srv, BellNet(net', srv), NotMarked(net', srv) = NotMarked(net, srv),
         BellUi(ui', srv), ui'.count = ui.count, BellPast(hist'), hist'.off = hist.off
  PROVE  BellInv'
BY DEF BellInv

LEMMA BellPolls ==
  ASSUME BellInv, Bell!refreshCount \/ Bell!suppress PROVE BellInv'
<1>1. PICK kind : kind # "mark" /\ net' = Sent(net, kind, None) /\ UNCHANGED <<ui, srv, hist>>
  BY BellCalls DEF Bell!refreshCount, Bell!suppress
<1> QED BY <1>1, BellSent, BellSame DEF BellInv

\* The number that is counted is right unless marks are on their way.
LEMMA BellCounted ==
  ASSUME BellInv, Bell!CountAnswered PROVE BellInv'
<1>1. PICK i, count, off :
        /\ i \in DOMAIN net /\ net[i].stage = "answered" /\ net' = Settled(net, i) /\ srv' = srv
        /\ \/ UNCHANGED <<ui, hist>>
           \/ /\ ui' = [ui EXCEPT !.count = count] /\ hist' = [hist EXCEPT !.off = off]
              /\ off \in BOOLEAN
              /\ ~ off => count = Bell!Cardinality(Bell!Unread) /\ Bell!Unserved(net) = {}
  <2>1. PICK i \in Bell!Answered(net, "count") : Bell!CountAnswered!(i)
    BY DEF Bell!CountAnswered
  <2>2. PICK count, off : /\ count = net[i].data
                          /\ off = (net[i].data # Bell!Cardinality(Bell!Unread)
                                      \/ Bell!Unserved(net) # {})
    OBVIOUS
  <2>3. i \in DOMAIN net /\ net[i].stage = "answered" /\ net' = Settled(net, i) /\ srv' = srv
    BY <2>1, BellCalls DEF Bell!Answered
  <2>4. \/ UNCHANGED <<ui, hist>>
        \/ ui' = [ui EXCEPT !.count = count] /\ hist' = [hist EXCEPT !.off = off]
    BY <2>1, <2>2
  <2> QED BY <2>2, <2>3, <2>4
<1>2. BellNet(net', srv) /\ NotMarked(net', srv) = NotMarked(net, srv)
  BY <1>1, BellSettled DEF BellInv
<1>3. CASE UNCHANGED <<ui, hist>>
  BY <1>1, <1>2, <1>3, BellSame DEF BellInv
<1>4. CASE ~ UNCHANGED <<ui, hist>>
  <2>1. /\ ui' = [ui EXCEPT !.count = count] /\ hist' = [hist EXCEPT !.off = off]
        /\ off \in BOOLEAN
        /\ ~ off => count = Bell!Cardinality(Bell!Unread) /\ Bell!Unserved(net) = {}
    BY <1>1, <1>4
  <2>2. BellUi(ui', srv) /\ ui'.count = count
    BY <2>1 DEF BellInv, BellUi
  <2>3. BellPast(hist') /\ hist'.off = off
    BY <2>1 DEF BellInv, BellPast
  <2>4. ASSUME ~ off PROVE count = Cardinality(NotMarked(net, srv))
    <3>1. \A x : ~ Leaves(net, x)
      BY <2>1, <2>4 DEF Bell!Unserved, Bell!Waiting, Leaves
    <3>2. NotMarked(net, srv) = Bell!Unread
      BY <3>1 DEF NotMarked, Bell!Unread
    <3>3. Bell!Cardinality(Bell!Unread) = Cardinality(Bell!Unread)
      BY DEF Bell!Cardinality, Cardinality
    <3> QED BY <2>1, <2>4, <3>2, <3>3
  <2> QED BY <1>1, <1>2, <2>2, <2>3, <2>4 DEF BellInv
<1> QED BY <1>3, <1>4

LEMMA BellOpens ==
  ASSUME BellInv, Bell!handleToggle \/ Bell!CloseOutside \/ Bell!BellAnswered \/ Bell!MarkAnswered
  PROVE  BellInv'
<1>1. CASE Bell!handleToggle \/ Bell!CloseOutside
  <2>1. PICK clicks : clicks = hist.clicks + 1
    OBVIOUS
  <2>2. /\ srv' = srv
        /\ hist' = hist \/ hist' = [hist EXCEPT !.clicks = clicks]
        /\ \/ ui' = [ui EXCEPT !.open = FALSE] /\ net' = net
           \/ ui' = [ui EXCEPT !.open = TRUE, !.loading = TRUE] /\ net' = Sent(net, "bell", None)
    BY <1>1, <2>1, BellCalls DEF Bell!handleToggle, Bell!CloseOutside, Bell!Clicked
  <2>3. BellUi(ui', srv) /\ ui'.count = ui.count
    BY <2>2 DEF BellInv, BellUi
  <2>4. BellPast(hist') /\ hist'.off = hist.off
    BY <2>2 DEF BellInv, BellPast
  <2>5. BellNet(net', srv) /\ NotMarked(net', srv) = NotMarked(net, srv)
    BY <2>2, BellSent DEF BellInv
  <2> QED BY <2>2, <2>3, <2>4, <2>5, BellSame
<1>2. CASE Bell!BellAnswered \/ Bell!MarkAnswered
  <2>1. PICK i, list :
          /\ i \in DOMAIN net /\ net[i].stage = "answered" /\ net' = Settled(net, i)
          /\ UNCHANGED <<srv, hist>>
          /\ \/ ui' = ui \/ ui' = [ui EXCEPT !.loading = FALSE]
             \/ /\ ui' = [ui EXCEPT !.loading = FALSE, !.list = list]
                /\ net[i].ok /\ net[i].kind = "bell" /\ list = net[i].data.list
    BY <1>2, BellCalls DEF Bell!BellAnswered, Bell!MarkAnswered, Bell!Answered
  <2>2. BellUi(ui', srv) /\ ui'.count = ui.count
    <3>1. net[i].ok /\ net[i].kind = "bell" => DOMAIN net[i].data.list \subseteq 1..srv.last
      BY <2>1 DEF BellInv, BellNet
    <3> QED BY <2>1, <3>1 DEF BellInv, BellUi
  <2>3. BellNet(net', srv) /\ NotMarked(net', srv) = NotMarked(net, srv)
    BY <2>1, BellSettled DEF BellInv
  <2> QED BY <2>1, <2>2, <2>3, BellSame DEF BellInv
<1> QED BY <1>1, <1>2

\* What a click takes off the number it sends marks for; unless some of it is marked
\* already, these are all unread and unmarked.
LEMMA BellClicked ==
  ASSUME BellInv, Bell!handleItemClick PROVE BellInv'
<1>1. PICK item \in Bell!BellRows :
        /\ ui' = [ui EXCEPT !.open = FALSE, !.count = Bell!Less(@, Bell!unreadIds(item, ui.list)),
                    !.list = Bell!Marked(@, Bell!unreadIds(item, ui.list)),
                    !.discussion = Bell!ToDiscussion(item) \/ (@ /\ Bell!StaysHere(item))]
        /\ net' = IF ui'.discussion THEN Bell!Marks(net, Bell!unreadIds(item, ui.list))
                  ELSE Bell!Marks(Bell!Unheard(net, {"suppress"}), Bell!unreadIds(item, ui.list))
        /\ hist' = [hist EXCEPT !.clicks = @ + 1,
                      !.off = @ \/ Bell!unreadIds(item, ui.list)
                                     \cap (srv.read \cup Bell!Marking(net)) # {}]
        /\ srv' = srv
  BY DEF Bell!handleItemClick
<1>2. PICK ids : ids = Bell!unreadIds(item, ui.list)
  OBVIOUS
<1>3. PICK count, list, disc, clicks :
        /\ count = Bell!Less(ui.count, ids) /\ list = Bell!Marked(ui.list, ids)
        /\ disc = (Bell!ToDiscussion(item) \/ (ui.discussion /\ Bell!StaysHere(item)))
        /\ clicks = hist.clicks + 1
  OBVIOUS
<1>4. PICK off \in BOOLEAN : off = (hist.off \/ ids \cap (srv.read \cup Bell!Marking(net)) # {})
  OBVIOUS
<1>5. /\ ui' = [ui EXCEPT !.open = FALSE, !.count = count, !.list = list, !.discussion = disc]
      /\ hist' = [hist EXCEPT !.clicks = clicks, !.off = off]
  BY <1>1, <1>2, <1>3, <1>4
<1>6. ids \subseteq 1..srv.last /\ DOMAIN list = DOMAIN ui.list
  <2>1. item \in Bell!groupNotifications(ui.list)
    BY <1>1 DEF Bell!BellRows
  <2>2. item \subseteq DOMAIN ui.list
    BY <2>1 DEF Bell!groupNotifications
  <2>3. ids \subseteq DOMAIN ui.list
    BY <1>2, <2>2 DEF Bell!unreadIds
  <2>4. DOMAIN list = DOMAIN ui.list
    BY <1>3 DEF Bell!Marked
  <2> QED BY <2>3, <2>4 DEF BellInv, BellUi
<1>7. BellUi(ui', srv) /\ ui'.count = count
  BY <1>5, <1>6 DEF BellInv, BellUi
<1>8. BellPast(hist') /\ hist'.off = off
  BY <1>5 DEF BellInv, BellPast
<1>9. BellNet(net', srv) /\ NotMarked(net', srv) = NotMarked(net, srv) \ ids
  <2>1. PICK n : /\ n = net \/ n = Unheard(net, {"suppress"})
                 /\ net' = Bell!Marks(n, ids)
    BY <1>1, <1>2, BellCalls
  <2>2. BellNet(n, srv) /\ NotMarked(n, srv) = NotMarked(net, srv)
    BY <2>1, BellUnheard DEF BellInv
  <2> QED BY <1>6, <2>1, <2>2, BellEach DEF BellInv
<1>10. ASSUME ~ off PROVE count = Cardinality(NotMarked(net', srv))
  <2>1. ~ hist.off /\ ids \cap (srv.read \cup Bell!Marking(net)) = {}
    BY <1>4, <1>10 DEF BellInv, BellPast
  <2>2. PICK U : U = NotMarked(net, srv)
    OBVIOUS
  <2>3. IsFiniteSet(U)
    <3>1. srv.last \in Nat /\ U \subseteq 1..srv.last
      BY <2>2 DEF BellInv, BellSrv, NotMarked
    <3>2. IsFiniteSet(1..srv.last)
      BY <3>1, FS_Interval
    <3>3. U \in SUBSET (1..srv.last)
      BY <3>1
    <3> QED BY <3>2, <3>3, FS_Subset
  <2>4. ids \subseteq U
    <3>1. \A x \in ids : ~ Leaves(net, x)
      BY <2>1 DEF Bell!Marking, Leaves
    <3> QED BY <1>6, <2>1, <2>2, <3>1 DEF NotMarked
  <2>5. U \cap ids = ids
    BY <2>4
  <2>6. Cardinality(U \ ids) = Cardinality(U) - Cardinality(ids)
    BY <2>3, <2>5, FS_Difference
  <2>7. Cardinality(U) \in Nat /\ Cardinality(ids) \in Nat /\ Cardinality(ids) <= Cardinality(U)
    BY <2>3, <2>4, FS_Subset, FS_CardinalityType
  <2>8. ui.count = Cardinality(U)
    BY <2>1, <2>2 DEF BellInv
  <2>9. Bell!Cardinality(ids) = Cardinality(ids)
    BY DEF Bell!Cardinality, Cardinality
  <2>10. count = Cardinality(U) - Cardinality(ids)
    BY <1>3, <2>7, <2>8, <2>9 DEF Bell!Less
  <2> QED BY <1>9, <2>2, <2>6, <2>10
<1> QED BY <1>1, <1>7, <1>8, <1>9, <1>10 DEF BellInv

LEMMA BellMarksAll ==
  ASSUME BellInv, Bell!handleMarkAll \/ Bell!MarkAllAnswered PROVE BellInv'
<1>1. CASE Bell!handleMarkAll
  <2>1. PICK clicks : clicks = hist.clicks + 1
    OBVIOUS
  <2>2. /\ UNCHANGED <<ui, srv>> /\ hist' = [hist EXCEPT !.clicks = clicks]
        /\ net' = Sent(net, "all", None)
    BY <1>1, <2>1, BellCalls DEF Bell!handleMarkAll, Bell!Clicked
  <2>3. BellPast(hist') /\ hist'.off = hist.off
    BY <2>2 DEF BellInv, BellPast
  <2> QED BY <2>2, <2>3, BellSent, BellSame DEF BellInv
<1>2. CASE Bell!MarkAllAnswered
  <2>1. PICK i \in Bell!Answered(net, "all") : Bell!MarkAllAnswered!(i)
    BY <1>2 DEF Bell!MarkAllAnswered
  <2>2. i \in DOMAIN net /\ net[i].stage = "answered" /\ net' = Settled(net, i) /\ srv' = srv
    BY <2>1, BellCalls DEF Bell!Answered
  <2>3. PICK list : list = Bell!Marked(ui.list, Bell!Ids)
    OBVIOUS
  <2>4. PICK off \in BOOLEAN : off = (Bell!Unread # {})
    OBVIOUS
  <2>5. \/ UNCHANGED <<ui, hist>>
        \/ /\ ui' = [ui EXCEPT !.count = 0, !.list = list]
           /\ hist' = [hist EXCEPT !.off = off]
    BY <2>1, <2>3, <2>4
  <2>6. BellNet(net', srv) /\ NotMarked(net', srv) = NotMarked(net, srv)
    BY <2>2, BellSettled DEF BellInv
  <2>7. CASE UNCHANGED <<ui, hist>>
    BY <2>2, <2>6, <2>7, BellSame DEF BellInv
  <2>8. CASE /\ ui' = [ui EXCEPT !.count = 0, !.list = list]
             /\ hist' = [hist EXCEPT !.off = off]
    <3>1. DOMAIN list = DOMAIN ui.list
      BY <2>3 DEF Bell!Marked
    <3>2. BellUi(ui', srv) /\ ui'.count = 0
      BY <2>8, <3>1 DEF BellInv, BellUi
    <3>3. BellPast(hist') /\ hist'.off = off
      BY <2>8 DEF BellInv, BellPast
    <3>4. ~ off => Cardinality(NotMarked(net, srv)) = 0
      <4>1. ~ off => NotMarked(net, srv) = {}
        BY <2>4 DEF NotMarked, Bell!Unread
      <4> QED BY <4>1, FS_EmptySet
    <3> QED BY <2>2, <2>6, <3>2, <3>3, <3>4 DEF BellInv
  <2> QED BY <2>5, <2>7, <2>8
<1> QED BY <1>1, <1>2

\* The discussion tab marks what it shows; the bell learns of it when it polls.
LEMMA BellDiscussion ==
  ASSUME BellInv, Bell!ToggleDiscussion \/ Bell!SuppressAnswered PROVE BellInv'
<1>1. CASE Bell!ToggleDiscussion
  <2>1. PICK clicks, disc : clicks = hist.clicks + 1 /\ disc = ~ ui.discussion
    OBVIOUS
  <2>2. /\ ui' = [ui EXCEPT !.discussion = disc] /\ srv' = srv
        /\ hist' = [hist EXCEPT !.clicks = clicks] /\ net' = Unheard(net, {"suppress"})
    BY <1>1, <2>1, BellCalls DEF Bell!ToggleDiscussion, Bell!Clicked
  <2>3. BellUi(ui', srv) /\ ui'.count = ui.count
    BY <2>2 DEF BellInv, BellUi
  <2>4. BellPast(hist') /\ hist'.off = hist.off
    BY <2>2 DEF BellInv, BellPast
  <2> QED BY <2>2, <2>3, <2>4, BellUnheard, BellSame DEF BellInv
<1>2. CASE Bell!SuppressAnswered
  <2>1. PICK i, ids, off :
          /\ i \in DOMAIN net /\ net[i].stage = "answered"
          /\ net' = Bell!Marks(Settled(net, i), ids) /\ UNCHANGED <<ui, srv>>
          /\ off = (hist.off \/ ids # {}) /\ hist' = [hist EXCEPT !.off = off]
          /\ ids # {} => net[i].kind = "suppress" /\ net[i].ok /\ ids \subseteq net[i].data
    <3>1. PICK i \in Bell!Answered(net, "suppress") : Bell!SuppressAnswered!(i)
      BY <1>2 DEF Bell!SuppressAnswered
    <3>2. PICK ids : ids = IF net[i].ok /\ net[i].here
                           THEN {x \in net[i].data : BellKinds[x] = "comment"} ELSE {}
      OBVIOUS
    <3>3. PICK off : off = (hist.off \/ ids # {})
      OBVIOUS
    <3>4. /\ net' = Bell!Marks(Settled(net, i), ids) /\ UNCHANGED <<ui, srv>>
          /\ hist' = [hist EXCEPT !.off = off]
      BY <3>1, <3>2, <3>3, BellCalls
    <3>5. ids # {} => net[i].ok /\ ids \subseteq net[i].data
      BY <3>2
    <3>6. i \in DOMAIN net /\ net[i].stage = "answered" /\ net[i].kind = "suppress"
      BY <3>1 DEF Bell!Answered
    <3> QED BY <3>3, <3>4, <3>5, <3>6
  <2>2. PICK n : n = Settled(net, i)
    OBVIOUS
  <2>3. BellNet(n, srv) /\ NotMarked(n, srv) = NotMarked(net, srv)
    BY <2>1, <2>2, BellSettled DEF BellInv
  <2>4. ids \subseteq 1..srv.last
    BY <2>1 DEF BellInv, BellNet
  <2>5. BellNet(net', srv) /\ NotMarked(net', srv) = NotMarked(net, srv) \ ids
    BY <2>1, <2>2, <2>3, <2>4, BellEach DEF BellInv
  <2>6. BellPast(hist') /\ hist'.off = off /\ off \in BOOLEAN
    BY <2>1 DEF BellInv, BellPast
  <2>7. ~ off => ~ hist.off /\ NotMarked(net', srv) = NotMarked(net, srv)
    BY <2>1, <2>5, <2>6 DEF BellInv, BellPast
  <2> QED BY <2>1, <2>5, <2>6, <2>7 DEF BellInv
<1> QED BY <1>1, <1>2

LEMMA BellNext ==
  ASSUME BellInv, [Bell!Next]_(Bell!vars) PROVE BellInv'
<1>1. CASE UNCHANGED Bell!vars
  BY <1>1 DEF Bell!vars, BellInv
<1>2. CASE Bell!Backend
  BY <1>2, BellLooks, BellMarks, BellOff, BellRefused DEF Bell!Backend
<1>3. CASE Bell!Arrive \/ Bell!ReadElsewhere
  BY <1>3, BellOff DEF Bell!Arrive, Bell!ReadElsewhere
<1> QED BY <1>1, <1>2, <1>3, BellPolls, BellCounted, BellOpens, BellClicked, BellMarksAll,
           BellDiscussion DEF Bell!Next

LEMMA BellTruth ==
  ASSUME BellInv PROVE Bell!BadgeSettles
<1> SUFFICES ASSUME net = << >>, ~ hist.off PROVE ui.count = Bell!Cardinality(Bell!Unread)
  BY DEF Bell!BadgeSettles
<1>1. \A x : ~ Leaves(net, x)
  BY ProperEmpty DEF Leaves
<1>2. NotMarked(net, srv) = Bell!Unread
  BY <1>1 DEF NotMarked, Bell!Unread
<1>3. Bell!Cardinality(Bell!Unread) = Cardinality(Bell!Unread)
  BY DEF Bell!Cardinality, Cardinality
<1> QED BY <1>2, <1>3 DEF BellInv

\* Once nothing is on its way the badge counts the unread notifications, through groups,
\* reloads and marks that cross it, unless something arrived, was marked elsewhere or
\* again, or a mark failed.
THEOREM BadgeIsTrue == Bell!Spec => []Bell!BadgeSettles
<1> QED BY BellInit, BellNext, BellTruth, PTL DEF Bell!Spec
=============================================================================
