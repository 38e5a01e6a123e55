--------------------------- MODULE AccountRecovery ---------------------------
(* One account and the ways its password is replaced: the backup code and    *)
(* the temporary code of support (internal/recoverycode, service.go and      *)
(* support.go), a signed-in change (internal/passwordreset), and the calls   *)
(* that write or trust the same users row: login, profile, sessions.         *)
(*                                                                           *)
(* A call reads in one step and writes in a later one, each an SQL statement *)
(* or a transaction under read committed. Secrets are numbered in the order  *)
(* they are made. A lookup that finds nothing changes nothing but the        *)
(* attempts, which are RecoveryThrottle's, and is left out.                  *)
EXTENDS Naturals, Sequences

CONSTANTS
  Procs,               \* goroutines serving calls
  Ops,                 \* the calls that are made, a subset of AllOps
  TempCodeTTL, PendingTTL,
  Errors,              \* TRUE: a statement may fail, the server may die
  MaxRequests, MaxSecrets, MaxTime   \* bounds: on what is begun, and on time

AllOps == {"recover", "replace", "change", "code", "login", "profile",
           "support", "approve", "reject", "temp"}

ASSUME AccountOpsAssumption == Ops \subseteq AllOps
ASSUME TTLAssumption == TempCodeTTL \in Nat /\ PendingTTL \in Nat

VARIABLES
  clock,      \* the time, in the whole seconds tokens are compared in
  user,       \* the users row: password, password_changed_at, backup code
  requests,   \* password_recovery_requests of the account, in order
  tokens,     \* the iat of the session tokens handed out
  secrets,    \* how many passwords and codes have been made
  lastTemp,   \* history: the temporary code made last
  resets,     \* history: the passwords set with a code, in order
  restored,   \* history: the backup codes brought back by a saved profile
  procs       \* what each goroutine is doing

data == <<user, requests, tokens, secrets, lastTemp, resets, restored>>
vars == <<clock, data, procs>>

\* changedAt = 0: never changed
Rows == [password : Nat, changedAt : Nat, backup : Nat]

\* code = 0: temp_code_hash is ""
Requests ==
  [status : {"pending", "approved", "rejected", "used", "expired"},
   at : Nat, code : Nat, expires : Nat]

\* row: a private copy of the users row; typed: the code brought; at: now;
\* req, status, others: the request in hand, as read, and the other approved
ProcStates ==
  [op : AllOps \cup {"none"}, pc : {"idle", "stamp", "write", "token"},
   row : Rows, typed : Nat, at : Nat, req : Nat,
   status : {"none", "pending", "approved"}, others : SUBSET Nat]

NoRow == [password |-> 0, changedAt |-> 0, backup |-> 0]

Idle == [op |-> "none", pc |-> "idle", row |-> NoRow, typed |-> 0, at |-> 0,
         req |-> 0, status |-> "none", others |-> {}]

\* a registered account: password 1, backup code 2
Init ==
  /\ clock = 0
  /\ user = [password |-> 1, changedAt |-> 0, backup |-> 2]
  /\ requests = <<>>
  /\ tokens = {}
  /\ secrets = 2
  /\ lastTemp = 0
  /\ resets = <<>>
  /\ restored = {}
  /\ procs = [p \in Procs |-> Idle]

-----------------------------------------------------------------------------
RoomForSecrets == secrets < MaxSecrets

Free(p, op) == procs[p].pc = "idle" /\ op \in Ops

At(p, op, pc) == procs[p].op = op /\ procs[p].pc = pc

Goto(p, pc) == procs' = [procs EXCEPT ![p].pc = pc]

\* what a call that carries a token goes on with
ThenToken(p) ==
  procs' = [procs EXCEPT ![p] = [Idle EXCEPT !.op = procs[p].op, !.pc = "token"]]

Return(p) == procs' = [procs EXCEPT ![p] = Idle]

Reset(by, code) ==
  resets' = Append(resets, [by |-> by, code |-> code, newest |-> lastTemp,
                            known |-> Len(requests)])

\* a new password and a new backup code in one UPDATE
Renewed(at) ==
  /\ user' = [password |-> secrets + 1, changedAt |-> at, backup |-> secrets + 2]
  /\ secrets' = secrets + 2

-----------------------------------------------------------------------------
\* The backup code

\* Recover: the account with that code is found
FindBackup(p) ==
  /\ Free(p, "recover") /\ RoomForSecrets
  /\ procs' = [procs EXCEPT ![p] = [Idle EXCEPT !.op = "recover", !.pc = "write",
                                                !.typed = user.backup, !.at = clock]]
  /\ UNCHANGED <<clock, data>>

\* mutant: the UPDATE names the account only
NamesTheUser(p) == TRUE

\* the UPDATE is conditional on the code
NamesTheCode(p) == user.backup = procs[p].typed

Recover(p) ==
  /\ At(p, "recover", "write")
  /\ IF NamesTheCode(p)
     THEN /\ Renewed(procs[p].at)
          /\ Reset("backup", procs[p].typed)
          /\ ThenToken(p)
     ELSE Return(p) /\ UNCHANGED <<user, secrets, resets>>
  /\ UNCHANGED <<clock, requests, tokens, lastTemp, restored>>

\* Replace: the password is right, the new code is written whatever the row
\* holds by then
Replace(p) ==
  /\ At(p, "replace", "write")
  /\ user' = [user EXCEPT !.backup = secrets + 1]
  /\ secrets' = secrets + 1
  /\ Return(p)
  /\ UNCHANGED <<clock, requests, tokens, lastTemp, resets, restored>>

-----------------------------------------------------------------------------
\* The password and the sessions

\* Replace, ChangeWithCurrent, Login: the row is read, its password is right
CheckPassword(p) ==
  /\ \E op \in {"replace", "change", "login"} :
       /\ Free(p, op)
       /\ op # "login" => RoomForSecrets
       /\ procs' = [procs EXCEPT ![p] = [Idle EXCEPT
            !.op = op,
            !.pc = CASE op = "replace" -> "write" [] op = "change" -> "stamp"
                     [] op = "login" -> "token"]]
  /\ UNCHANGED <<clock, data>>

\* redeem of passwordreset: the code is good (PasswordCodes!Redeem)
RedeemCode(p) ==
  /\ Free(p, "code") /\ RoomForSecrets
  /\ procs' = [procs EXCEPT ![p] = [Idle EXCEPT !.op = "code", !.pc = "stamp"]]
  /\ UNCHANGED <<clock, data>>

\* setPassword hashes, then reads the clock ...
Stamp(p) ==
  /\ procs[p].pc = "stamp"
  /\ procs' = [procs EXCEPT ![p].at = clock, ![p].pc = "write"]
  /\ UNCHANGED <<clock, data>>

\* ... and writes; a reset by phone or email answers without a token
SetPassword(p) ==
  /\ procs[p].op \in {"change", "code"} /\ procs[p].pc = "write"
  /\ user' = [user EXCEPT !.password = secrets + 1, !.changedAt = procs[p].at]
  /\ secrets' = secrets + 1
  /\ \/ ThenToken(p)
     \/ procs[p].op = "code" /\ Return(p)
  /\ UNCHANGED <<clock, requests, tokens, lastTemp, resets, restored>>

\* issueJWT
IssueToken(p) ==
  /\ procs[p].pc = "token"
  /\ tokens' = tokens \cup {clock}
  /\ Return(p)
  /\ UNCHANGED <<clock, user, requests, secrets, lastTemp, resets, restored>>

\* UpdateMe: the row is read ...
LoadProfile(p) ==
  /\ Free(p, "profile")
  /\ procs' = [procs EXCEPT ![p] = [Idle EXCEPT !.op = "profile", !.pc = "write",
                                                !.row = user]]
  /\ UNCHANGED <<clock, data>>

\* ... and saved with all its columns
SaveProfile(p) ==
  /\ At(p, "profile", "write")
  /\ user' = procs[p].row
  /\ restored' = IF user.backup = procs[p].row.backup THEN restored
                 ELSE restored \cup {procs[p].row.backup}
  /\ Return(p)
  /\ UNCHANGED <<clock, requests, tokens, secrets, lastTemp, resets>>

-----------------------------------------------------------------------------
\* Support

\* mutant: a request that is closed can be decided on
OpenAlways(status) == TRUE

Open(status) == status \in {"pending", "approved"}

\* mutant: an expired request keeps its code
ExpiredKeepsCode(at) ==
  [i \in DOMAIN requests |->
     IF \/ requests[i].status = "approved" /\ requests[i].expires <= at
        \/ requests[i].status = "pending" /\ requests[i].at + PendingTTL <= at
     THEN [requests[i] EXCEPT !.status = "expired"] ELSE requests[i]]

\* expireStale
Expired(at) ==
  [i \in DOMAIN requests |->
     IF \/ requests[i].status = "approved" /\ requests[i].expires <= at
        \/ requests[i].status = "pending" /\ requests[i].at + PendingTTL <= at
     THEN [requests[i] EXCEPT !.status = "expired", !.code = 0] ELSE requests[i]]

\* RequestSupport: a second pending request conflicts and is not written
RequestSupport ==
  LET rows == Expired(clock)
  IN /\ "support" \in Ops /\ Len(requests) < MaxRequests
     /\ requests' =
          IF \E i \in DOMAIN rows : rows[i].status = "pending" THEN rows
          ELSE Append(rows, [status |-> "pending", at |-> clock, code |-> 0, expires |-> 0])
     /\ UNCHANGED <<clock, user, tokens, secrets, lastTemp, resets, restored, procs>>

\* ListRequests, GetRequest
Look ==
  /\ requests' = Expired(clock)
  /\ UNCHANGED <<clock, user, tokens, secrets, lastTemp, resets, restored, procs>>

\* Approve, by an admin who is not the owner: expires, then reads
ReadForApproval(p) ==
  LET rows == Expired(clock)
  IN /\ Free(p, "approve") /\ RoomForSecrets
     /\ \E i \in DOMAIN rows :
          /\ Open(rows[i].status)
          /\ procs' = [procs EXCEPT ![p] = [Idle EXCEPT
               !.op = "approve", !.pc = "write", !.at = clock, !.req = i,
               !.status = rows[i].status,
               !.others = {j \in DOMAIN rows \ {i} : rows[j].status = "approved"}]]
     /\ requests' = rows
     /\ UNCHANGED <<clock, user, tokens, secrets, lastTemp, resets, restored>>

\* the request with its code, the others superseded
Approved(p) ==
  [i \in DOMAIN requests |->
     IF i = procs[p].req
     THEN [requests[i] EXCEPT !.status = "approved", !.code = secrets + 1,
                              !.expires = procs[p].at + TempCodeTTL]
     ELSE IF i \in procs[p].others /\ requests[i].status = "approved"
     THEN [requests[i] EXCEPT !.status = "expired", !.code = 0]
     ELSE requests[i]]

\* ... and writes, unless the status has changed since, or the unique index of
\* approved requests refuses
Approve(p) ==
  LET mine == {procs[p].req} \cup procs[p].others
  IN /\ At(p, "approve", "write")
     /\ IF /\ requests[procs[p].req].status = procs[p].status
           /\ \A j \in DOMAIN requests \ mine : requests[j].status # "approved"
        THEN /\ requests' = Approved(p)
             /\ secrets' = secrets + 1
             /\ lastTemp' = secrets + 1
        ELSE UNCHANGED <<requests, secrets, lastTemp>>
     /\ Return(p)
     /\ UNCHANGED <<clock, user, tokens, resets, restored>>

\* Reject closes a pending request or revokes a code, in one transaction
Reject(i) ==
  LET rows == Expired(clock)
  IN /\ "reject" \in Ops
     /\ Open(rows[i].status)
     /\ requests' = [rows EXCEPT ![i].status = "rejected", ![i].code = 0]
     /\ UNCHANGED <<clock, user, tokens, secrets, lastTemp, resets, restored, procs>>

\* ResetWithTempCode: the live request with that code is found
FindTemp(p) ==
  /\ Free(p, "temp") /\ RoomForSecrets
  /\ \E i \in DOMAIN requests :
       /\ requests[i].status = "approved" /\ requests[i].expires > clock
       /\ procs' = [procs EXCEPT ![p] = [Idle EXCEPT
            !.op = "temp", !.pc = "write", !.at = clock, !.req = i,
            !.typed = requests[i].code]]
  /\ UNCHANGED <<clock, data>>

\* mutant: a request still waiting goes on waiting
SpentOnly(r) == [requests EXCEPT ![r].status = "used", ![r].code = 0]

\* the request is used, one still waiting is closed
Spent(r) ==
  [i \in DOMAIN requests |->
     IF i = r THEN [requests[i] EXCEPT !.status = "used", !.code = 0]
     ELSE IF requests[i].status = "pending" THEN [requests[i] EXCEPT !.status = "expired"]
     ELSE requests[i]]

\* mutant: the UPDATE names the request and not the code
StillApproved(p) ==
  LET request == requests[procs[p].req]
  IN request.status = "approved" /\ request.expires > procs[p].at

StillLive(p) ==
  LET request == requests[procs[p].req]
  IN /\ request.status = "approved"
     /\ request.code = procs[p].typed
     /\ request.expires > procs[p].at

\* the transaction, conditional on the code
ResetWithTempCode(p) ==
  LET r == procs[p].req
  IN /\ At(p, "temp", "write")
     /\ IF StillLive(p)
        THEN /\ requests' = Spent(r)
             /\ Renewed(procs[p].at)
             /\ Reset("temp", procs[p].typed)
             /\ ThenToken(p)
        ELSE Return(p) /\ UNCHANGED <<requests, user, secrets, resets>>
     /\ UNCHANGED <<clock, tokens, lastTemp, restored>>

-----------------------------------------------------------------------------
\* a statement fails or the server dies: nothing of a transaction is left
Abort(p) ==
  /\ Errors
  /\ procs[p].pc # "idle"
  /\ Return(p)
  /\ UNCHANGED <<clock, data>>

Tick ==
  /\ clock < MaxTime
  /\ clock' = clock + 1
  /\ UNCHANGED <<data, procs>>

Next ==
  \/ \E p \in Procs :
       \/ FindBackup(p) \/ Recover(p) \/ Replace(p)
       \/ CheckPassword(p) \/ RedeemCode(p) \/ Stamp(p) \/ SetPassword(p)
       \/ IssueToken(p) \/ LoadProfile(p) \/ SaveProfile(p)
       \/ ReadForApproval(p) \/ Approve(p) \/ FindTemp(p) \/ ResetWithTempCode(p)
       \/ Abort(p)
  \/ \E i \in DOMAIN requests : Reject(i)
  \/ RequestSupport
  \/ Look
  \/ Tick

Spec == Init /\ [][Next]_vars

-----------------------------------------------------------------------------
\* Every variable has its shape, and a request holds a code exactly while it is
\* approved: the hash "is cleared as soon as the request leaves approved"
\* (password_recovery_request.go:17-18).
TypeOK ==
  /\ clock \in Nat
  /\ user \in Rows
  /\ requests \in Seq(Requests)
  /\ \A i \in DOMAIN requests : requests[i].code # 0 <=> requests[i].status = "approved"
  /\ tokens \subseteq Nat
  /\ secrets \in Nat /\ lastTemp \in Nat
  /\ resets \in Seq([by : {"backup", "temp"}, code : Nat, newest : Nat, known : Nat])
  /\ restored \subseteq Nat
  /\ procs \in [Procs -> ProcStates]

\* "of two concurrent requests with the same code only one can succeed"
\* (service.go:113-114, support.go:344-345): no backup or temporary code sets
\* two passwords, however calls that found it overlap with replacements and
\* reissues of it, unless a saved profile brought it back.
CodeSpentOnce ==
  \A m, n \in DOMAIN resets :
    m # n /\ resets[m].code = resets[n].code => resets[m].code \in restored

\* "Any code issued earlier for the account stops working in the same
\* transaction" (support.go:132-133): a temporary code that sets a password is
\* the one issued last, also when it was looked up before a newer one.
NewestTempOnly ==
  \A n \in DOMAIN resets : resets[n].by = "temp" => resets[n].code = resets[n].newest

Closed(status) == status \in {"rejected", "used", "expired"}

\* A request that has been rejected, used or expired stays as it is, whatever
\* admin or client read it while it was open.
ClosedStaysClosed ==
  [][\A i \in DOMAIN requests :
       Closed(requests[i].status) => requests'[i] = requests[i]]_requests

\* "A request still waiting could otherwise issue another code later"
\* (support.go:414): once a temporary code has set a password, no request filed
\* before is open, nor ever will be.
ResetClosesRequests ==
  \A n \in DOMAIN resets :
    resets[n].by = "temp" =>
      \A i \in 1..resets[n].known : Closed(requests[i].status)

Revoked(iat) == iat < user.changedAt

\* A password change "revokes every existing session" (service.go:111-112): a
\* token once refused is refused for ever.
RevokedStaysRevoked ==
  [][\A t \in tokens : Revoked(t) => Revoked(t)']_user
=============================================================================
