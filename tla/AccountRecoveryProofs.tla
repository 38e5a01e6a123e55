------------------------ MODULE AccountRecoveryProofs ------------------------
(* What holds of one account for any number of overlapping calls, requests,  *)
(* secrets and lifetimes of a code: a code sets one password, the newest     *)
(* temporary code only, closed requests stay closed, and a reset by a        *)
(* temporary code leaves none open.                                          *)
(*                                                                           *)
(* The argument: secrets are numbered as they are made, so a code that has   *)
(* set a password can come back only from a copy of the users row in a call  *)
(* that saves profiles (restored); and at most one request is approved, with *)
(* the temporary code made last.                                             *)
EXTENDS AccountRecovery, SequenceTheorems, TLAPS

Held(i) == requests[i].status = "approved"

\* the backup codes that the account has, or may be given back
Backups == {user.backup} \cup {procs[p].row.backup : p \in Procs}

\* codes are numbers already given out, and a temporary code is no backup code
CodesMade ==
  /\ \A b \in Backups : b <= secrets
  /\ \A i \in DOMAIN requests : requests[i].code <= secrets
  /\ \A n \in DOMAIN resets : resets[n].code <= secrets
  /\ \A i \in DOMAIN requests : Held(i) => requests[i].code \notin Backups

\* the unique index of approved requests, and what Approve makes of it
OneApproved ==
  /\ \A i, j \in DOMAIN requests : Held(i) /\ Held(j) => i = j
  /\ \A i \in DOMAIN requests : Held(i) => requests[i].code = lastTemp

\* a code that set a password is nobody's any more, or was brought back
Gone(code) ==
  \/ code \in restored
  \/ /\ user.backup # code
     /\ \A i \in DOMAIN requests : Held(i) => requests[i].code # code

SpentGone == \A n \in DOMAIN resets : Gone(resets[n].code)

ResetsKnown == \A n \in DOMAIN resets : resets[n].known <= Len(requests)

\* the request an admin decides on, or a client has the code of, is a row
InHand ==
  \A p \in Procs :
    procs[p].op \in {"approve", "temp"} /\ procs[p].pc \in {"stamp", "write"} =>
      procs[p].req \in DOMAIN requests

IndInv ==
  /\ TypeOK
  /\ CodesMade
  /\ OneApproved
  /\ SpentGone
  /\ ResetsKnown
  /\ InHand
  /\ CodeSpentOnce
  /\ NewestTempOnly
  /\ ResetClosesRequests

\* Requests as they may become without a new code: closed, some of them
Narrowed(rows) ==
  /\ rows \in Seq(Requests) /\ Len(rows) = Len(requests)
  /\ \A i \in DOMAIN requests :
       \/ rows[i] = requests[i]
       \/ /\ Open(requests[i].status) /\ Closed(rows[i].status)
          /\ rows[i].code = 0

-----------------------------------------------------------------------------
\* Sequences given by what becomes of each element.
LEMMA MappedSeq ==
  ASSUME NEW S, NEW s \in Seq(S), NEW t,
         t = [i \in DOMAIN s |-> t[i]], \A i \in DOMAIN s : t[i] \in S
  PROVE  /\ t \in Seq(S) /\ Len(t) = Len(s) /\ DOMAIN t = DOMAIN s
<1>1. DOMAIN s = 1..Len(s) /\ Len(s) \in Nat
  BY LenProperties
<1>2. t \in [1..Len(s) -> S]
  BY <1>1, Zenon
<1>3. t \in Seq(S)
  BY <1>1, <1>2, SeqDef
<1> QED BY <1>1, <1>2, <1>3, LenProperties

\* What the type invariant says of the elements.
LEMMA Shapes ==
  ASSUME TypeOK
  PROVE  /\ DOMAIN requests = 1..Len(requests) /\ Len(requests) \in Nat
         /\ \A i \in DOMAIN requests : requests[i] \in Requests /\ requests[i].code \in Nat
         /\ DOMAIN resets = 1..Len(resets) /\ Len(resets) \in Nat
         /\ \A n \in DOMAIN resets :
              /\ resets[n].code \in Nat /\ resets[n].known \in Nat
              /\ resets[n].newest \in Nat
         /\ \A p \in Procs : /\ procs[p] \in ProcStates /\ procs[p].row.backup \in Nat
                             /\ procs[p].at \in Nat /\ procs[p].typed \in Nat
         /\ user.backup \in Nat
         /\ \A b \in Backups : b \in Nat
<1> DEFINE Resets == [by : {"backup", "temp"}, code : Nat, newest : Nat, known : Nat]
<1>1. DOMAIN requests = 1..Len(requests) /\ Len(requests) \in Nat
  BY LenProperties DEF TypeOK
<1>2. \A i \in DOMAIN requests : requests[i] \in Requests
  BY <1>1 DEF TypeOK
<1>3. \A i \in DOMAIN requests : requests[i].code \in Nat
  BY <1>2 DEF Requests
<1>4. resets \in Seq(Resets)
  BY DEF TypeOK
<1>5. DOMAIN resets = 1..Len(resets) /\ Len(resets) \in Nat
  BY <1>4, LenProperties
<1>6. \A n \in DOMAIN resets : resets[n] \in Resets
  <2> HIDE DEF Resets
  <2> QED BY <1>4, <1>5
<1>7. \A p \in Procs : procs[p] \in ProcStates
  BY DEF TypeOK
<1>8. \A p \in Procs : /\ procs[p].row \in Rows /\ procs[p].at \in Nat
                       /\ procs[p].typed \in Nat
  BY <1>7 DEF ProcStates
<1>9. \A r \in Rows : r.backup \in Nat
  BY DEF Rows
<1>10. user.backup \in Nat
  BY <1>9 DEF TypeOK
<1>11. \A p \in Procs : procs[p].row.backup \in Nat
  BY <1>8, <1>9
<1>12. \A b \in Backups : b \in Nat
  BY <1>10, <1>11 DEF Backups
<1> QED BY <1>1, <1>2, <1>3, <1>5, <1>6, <1>7, <1>8, <1>10, <1>11, <1>12

LEMMA IdleTyped == Idle \in ProcStates /\ Idle.row.backup = 0
BY DEF Idle, ProcStates, NoRow, Rows, AllOps

\* expireStale only closes requests that are open.
LEMMA ExpiredNarrows ==
  ASSUME TypeOK, NEW at \in Nat
  PROVE  Narrowed(Expired(at)) /\ DOMAIN Expired(at) = DOMAIN requests
<1> DEFINE rows == Expired(at)
<1>1. rows = [i \in DOMAIN requests |-> rows[i]]
  BY DEF Expired
<1>2. requests \in Seq(Requests) /\ \A i \in DOMAIN requests : requests[i] \in Requests
  BY DEF TypeOK
<1>3. \A i \in DOMAIN requests :
        /\ rows[i] \in Requests
        /\ \/ rows[i] = requests[i]
           \/ /\ Open(requests[i].status) /\ Closed(rows[i].status)
              /\ rows[i].code = 0
  BY <1>2 DEF Expired, Requests, Open, Closed
<1>4. rows \in Seq(Requests) /\ Len(rows) = Len(requests) /\ DOMAIN rows = DOMAIN requests
  <2> HIDE DEF rows
  <2> QED BY <1>1, <1>2, <1>3, MappedSeq
<1> QED BY <1>3, <1>4 DEF Narrowed

-----------------------------------------------------------------------------
\* A step that closes requests, or leaves them, and moves at most one call,
\* which takes no backup code into its hands but the account's.
LEMMA NarrowKeeps ==
  ASSUME IndInv, Narrowed(requests'),
         UNCHANGED <<user, secrets, lastTemp, resets, restored>>,
         clock' \in Nat, tokens' \subseteq Nat,
         procs' \in [Procs -> ProcStates],
         \A p \in Procs : procs'[p].row.backup \in Backups \cup {0},
         InHand'
  PROVE  IndInv'
<1>1. /\ requests \in Seq(Requests) /\ requests' \in Seq(Requests)
      /\ DOMAIN requests = 1..Len(requests) /\ DOMAIN requests' = DOMAIN requests
      /\ Len(requests) \in Nat /\ Len(requests') = Len(requests)
  BY LenProperties DEF IndInv, TypeOK, Narrowed
<1>a. \A i \in DOMAIN requests : requests[i] \in Requests /\ requests'[i] \in Requests
  BY <1>1
<1>2. \A i \in DOMAIN requests : Held(i)' => requests'[i] = requests[i] /\ Held(i)
  BY <1>1 DEF Narrowed, Closed, Held
<1>3. \A i \in DOMAIN requests : Closed(requests[i].status) => requests'[i] = requests[i]
  BY <1>1 DEF Narrowed, Closed, Open
<1>b. \A i \in DOMAIN requests : requests'[i].code \in {0, requests[i].code}
  BY <1>1 DEF Narrowed
<1>c. \A i \in DOMAIN requests :
        requests'[i].code # 0 <=> requests'[i].status = "approved"
  BY <1>1 DEF Narrowed, IndInv, TypeOK, Closed
<1>4. TypeOK'
  BY <1>1, <1>c DEF IndInv, TypeOK
<1>5. Backups' \subseteq Backups \cup {0}
  BY DEF Backups
<1>6. CodesMade'
  <2>1. secrets \in Nat /\ secrets' = secrets /\ resets' = resets
    BY DEF IndInv, TypeOK
  <2>2. \A b \in Backups' : b <= secrets'
    BY <1>5, <2>1 DEF IndInv, CodesMade
  <2>3. \A i \in DOMAIN requests' : requests'[i].code <= secrets'
    BY <1>1, <1>b, <2>1 DEF IndInv, CodesMade
  <2>4. \A i \in DOMAIN requests' : Held(i)' => requests'[i].code \notin Backups'
    BY <1>1, <1>2, <1>5, <1>c DEF IndInv, CodesMade, Held
  <2> QED BY <2>1, <2>2, <2>3, <2>4 DEF IndInv, CodesMade
<1>7. OneApproved' /\ SpentGone' /\ ResetsKnown' /\ CodeSpentOnce' /\ NewestTempOnly'
  BY <1>1, <1>2 DEF IndInv, OneApproved, SpentGone, Gone, ResetsKnown, CodeSpentOnce,
                    NewestTempOnly
<1>8. ResetClosesRequests'
  <2>2. ASSUME NEW n \in DOMAIN resets
        PROVE  1..resets[n].known \subseteq DOMAIN requests
    <3>1. resets[n].known \in Nat /\ resets[n].known <= Len(requests)
      BY Shapes DEF IndInv, ResetsKnown
    <3> QED BY <1>1, <3>1
  <2> QED BY <1>3, <2>2 DEF IndInv, ResetClosesRequests
<1> QED BY <1>4, <1>6, <1>7, <1>8 DEF IndInv

\* A call moves on and the tables stay.
LEMMA MoveKeeps ==
  ASSUME IndInv, NEW p \in Procs, NEW new \in ProcStates,
         new.row.backup \in Backups \cup {0},
         new.op \in {"approve", "temp"} /\ new.pc \in {"stamp", "write"} =>
           new.req \in DOMAIN requests,
         UNCHANGED <<user, requests, secrets, lastTemp, resets, restored>>,
         clock' \in Nat, tokens' \subseteq Nat,
         procs' = [procs EXCEPT ![p] = new]
  PROVE  IndInv'
<1>1. Narrowed(requests')
  BY DEF Narrowed, IndInv, TypeOK
<1>2. procs' \in [Procs -> ProcStates]
  BY DEF IndInv, TypeOK
<1>3. \A q \in Procs : procs'[q].row.backup \in Backups \cup {0}
  BY DEF Backups, IndInv, TypeOK
<1>4. InHand'
  BY DEF InHand, IndInv, TypeOK
<1> QED BY <1>1, <1>2, <1>3, <1>4, NarrowKeeps

-----------------------------------------------------------------------------
\* The account's row changes and the requests stay: its backup code stays, is
\* a new one, or is brought back, and then that is remembered.
LEMMA RowKeeps ==
  ASSUME IndInv,
         user' \in Rows, secrets' \in Nat, secrets <= secrets',
         \/ user'.backup = user.backup
         \/ user'.backup \in Backups /\ user'.backup \in restored'
         \/ secrets < user'.backup /\ user'.backup <= secrets',
         restored \subseteq restored', restored' \subseteq Nat,
         UNCHANGED <<clock, requests, tokens, lastTemp, resets>>,
         procs' \in [Procs -> ProcStates],
         \A p \in Procs : procs'[p].row.backup \in Backups \cup {0},
         InHand'
  PROVE  IndInv'
<1>1. /\ secrets \in Nat /\ \A i \in DOMAIN requests : requests[i].code \in Nat
      /\ \A n \in DOMAIN resets : resets[n].code \in Nat
      /\ \A i \in DOMAIN requests : Held(i) => requests[i].code # 0
  BY Shapes DEF IndInv, TypeOK, Held
<1>2. TypeOK'
  BY DEF IndInv, TypeOK
<1>3. Backups' \subseteq Backups \cup {0, user'.backup}
  BY DEF Backups
<1>4. CodesMade'
  <2>1. \A b \in Backups : b \in Nat
    BY Shapes DEF IndInv
  <2>0. user.backup \in Backups
    BY DEF Backups
  <2>a. user'.backup <= secrets'
    BY <1>1, <2>0, <2>1 DEF IndInv, CodesMade
  <2>2. \A b \in Backups' : b <= secrets'
    BY <1>1, <1>3, <2>1, <2>a DEF IndInv, CodesMade
  <2>3. \A i \in DOMAIN requests : requests[i].code <= secrets'
    BY <1>1 DEF IndInv, CodesMade
  <2>4. \A n \in DOMAIN resets : resets[n].code <= secrets'
    BY <1>1 DEF IndInv, CodesMade
  <2>5. \A i \in DOMAIN requests : Held(i) => requests[i].code # user'.backup
    BY <1>1 DEF IndInv, CodesMade, Backups, Rows
  <2>6. \A i \in DOMAIN requests : Held(i) => requests[i].code \notin Backups'
    BY <1>1, <1>3, <2>5 DEF IndInv, CodesMade
  <2> QED BY <2>2, <2>3, <2>4, <2>6 DEF CodesMade, Held
<1>5. SpentGone'
  <2> SUFFICES ASSUME NEW n \in DOMAIN resets
               PROVE  Gone(resets[n].code)'
    BY DEF SpentGone
  <2>1. Gone(resets[n].code) /\ resets[n].code <= secrets
    BY DEF IndInv, SpentGone, CodesMade
  <2> QED BY <1>1, <2>1 DEF Gone, Held, Rows
<1>6. OneApproved' /\ ResetsKnown' /\ CodeSpentOnce' /\ NewestTempOnly'
      /\ ResetClosesRequests'
  BY DEF IndInv, OneApproved, Held, ResetsKnown, CodeSpentOnce, NewestTempOnly,
         ResetClosesRequests
<1> QED BY <1>2, <1>4, <1>5, <1>6 DEF IndInv

\* A code sets a password: it was live, so it has set none before.
LEMMA RenewKeeps ==
  ASSUME IndInv, NEW at \in Nat, NEW code \in Nat, NEW by \in {"backup", "temp"},
         Renewed(at), Reset(by, code),
         code <= secrets,
         ~ Gone(code) \/ code \in restored,
         \A i \in DOMAIN requests' : Held(i)' => requests'[i].code # code,
         by = "temp" => /\ code = lastTemp
                        /\ \A i \in DOMAIN requests : Closed(requests'[i].status),
         Narrowed(requests'),
         UNCHANGED <<clock, tokens, lastTemp, restored>>,
         procs' \in [Procs -> ProcStates],
         \A p \in Procs : procs'[p].row.backup \in Backups \cup {0},
         InHand'
  PROVE  IndInv'
<1> DEFINE Resets == [by : {"backup", "temp"}, code : Nat, newest : Nat, known : Nat]
           last == [by |-> by, code |-> code, newest |-> lastTemp, known |-> Len(requests)]
           sec == secrets
<1>1. /\ secrets \in Nat /\ secrets' = secrets + 2
      /\ user' = [password |-> secrets + 1, changedAt |-> at, backup |-> secrets + 2]
      /\ lastTemp \in Nat
  BY DEF Renewed, IndInv, TypeOK
<1>2. /\ requests \in Seq(Requests) /\ requests' \in Seq(Requests)
      /\ DOMAIN requests = 1..Len(requests) /\ DOMAIN requests' = DOMAIN requests
      /\ Len(requests) \in Nat /\ Len(requests') = Len(requests)
  BY LenProperties DEF IndInv, TypeOK, Narrowed
<1>3. last \in Resets /\ resets \in Seq(Resets) /\ resets' = Append(resets, last)
  BY <1>1, <1>2 DEF Reset, IndInv, TypeOK
<1>4. /\ resets' \in Seq(Resets)
      /\ DOMAIN resets = 1..Len(resets) /\ DOMAIN resets' = 1..Len(resets) + 1
      /\ Len(resets) \in Nat
      /\ \A n \in DOMAIN resets : resets'[n] = resets[n] /\ resets[n] \in Resets
      /\ resets'[Len(resets) + 1] = last
  <2> HIDE DEF Resets, last
  <2> QED BY <1>3
<1>5. \A n \in DOMAIN resets' : \/ n \in DOMAIN resets /\ resets'[n] = resets[n]
                                \/ n = Len(resets) + 1 /\ resets'[n] = last
  BY <1>4
<1>6. \A i \in DOMAIN requests : Held(i)' => requests'[i] = requests[i] /\ Held(i)
  BY <1>2 DEF Narrowed, Closed, Held
<1>7. \A i \in DOMAIN requests : Closed(requests[i].status) => requests'[i] = requests[i]
  BY <1>2 DEF Narrowed, Closed, Open
<1>8. \A i \in DOMAIN requests :
        /\ requests'[i].code \in {0, requests[i].code}
        /\ requests[i].code \in Nat
        /\ requests'[i].code # 0 <=> requests'[i].status = "approved"
  BY <1>2, Shapes DEF Narrowed, IndInv, TypeOK, Closed
<1> HIDE DEF Resets, last
<1>9. TypeOK'
  <2>1. user' \in Rows
    BY <1>1 DEF Rows
  <2> QED BY <1>1, <1>2, <1>4, <1>8, <2>1 DEF IndInv, TypeOK, Resets
<1>10. \A b \in Backups' : b \in Backups \/ b = 0 \/ b = secrets + 2
  BY <1>1 DEF Backups
<1>11. CodesMade'
  <2>1. \A b \in Backups : b \in Nat
    BY Shapes DEF IndInv
  <2>2. \A b \in Backups' : b <= secrets'
    BY <1>1, <1>10, <2>1 DEF IndInv, CodesMade
  <2>3. \A i \in DOMAIN requests' : requests'[i].code <= secrets'
    BY <1>1, <1>2, <1>8 DEF IndInv, CodesMade
  <2>4. \A n \in DOMAIN resets' : resets'[n].code <= secrets'
    <3>1. \A n \in DOMAIN resets : resets[n].code \in Nat /\ resets[n].code <= secrets
      BY <1>4 DEF IndInv, CodesMade, Resets
    <3>2. last.code = code
      BY DEF last
    <3> QED BY <1>1, <1>5, <3>1, <3>2
  <2>5. \A i \in DOMAIN requests' : Held(i)' => requests'[i].code \notin Backups'
    <3> SUFFICES ASSUME NEW i \in DOMAIN requests, Held(i)'
                 PROVE  requests'[i].code \notin Backups'
      BY <1>2
    <3>1. requests'[i].code = requests[i].code /\ requests[i].code \notin Backups
      BY <1>6 DEF IndInv, CodesMade
    <3>2. requests'[i].code # 0
      BY <1>8 DEF Held
    <3>3. requests[i].code <= secrets /\ requests[i].code \in Nat
      BY <1>8 DEF IndInv, CodesMade
    <3> QED BY <1>1, <1>10, <3>1, <3>2, <3>3
  <2> QED BY <2>2, <2>3, <2>4, <2>5 DEF CodesMade
<1>12. OneApproved'
  BY <1>2, <1>6 DEF IndInv, OneApproved
<1>13. \A c \in Nat : c <= secrets /\ (Gone(c) \/ c = code) => Gone(c)'
  <2> SUFFICES ASSUME NEW c \in Nat, c <= secrets, Gone(c) \/ c = code
               PROVE  Gone(c)'
    OBVIOUS
  <2>1. user'.backup # c
    BY <1>1
  <2> QED BY <1>2, <1>6, <2>1 DEF Gone
<1>14. SpentGone'
  <2>1. \A n \in DOMAIN resets :
          resets[n].code \in Nat /\ resets[n].code <= secrets /\ Gone(resets[n].code)
    BY <1>4 DEF IndInv, CodesMade, SpentGone, Resets
  <2>2. last.code = code
    BY DEF last
  <2>3. \A n \in DOMAIN resets' :
          /\ resets'[n].code \in Nat /\ resets'[n].code <= secrets
          /\ Gone(resets'[n].code) \/ resets'[n].code = code
    BY <1>5, <2>1, <2>2
  <2> QED BY <1>13, <2>3 DEF SpentGone
<1>15. ResetsKnown'
  BY <1>2, <1>5 DEF IndInv, ResetsKnown, last
<1>16. CodeSpentOnce'
  <2>1. \A n \in DOMAIN resets : resets[n].code = code => code \in restored
    BY DEF IndInv, SpentGone
  <2>2. last.code = code
    BY DEF last
  <2> QED BY <1>5, <2>1, <2>2 DEF IndInv, CodeSpentOnce
<1>17. NewestTempOnly'
  BY <1>5 DEF IndInv, NewestTempOnly, last
<1>18. ResetClosesRequests'
  <2> SUFFICES ASSUME NEW n \in DOMAIN resets', resets'[n].by = "temp",
                      NEW i \in 1..resets'[n].known
               PROVE  Closed(requests'[i].status)
    BY DEF ResetClosesRequests
  <2>1. CASE n \in DOMAIN resets /\ resets'[n] = resets[n]
    <3>1. resets[n].known \in Nat /\ resets[n].known <= Len(requests)
      BY <1>4, <2>1 DEF IndInv, ResetsKnown, Resets
    <3>2. i \in DOMAIN requests
      BY <1>2, <2>1, <3>1
    <3>3. Closed(requests[i].status)
      BY <2>1 DEF IndInv, ResetClosesRequests
    <3> QED BY <1>7, <3>2, <3>3
  <2>2. CASE resets'[n] = last
    BY <1>2, <2>2 DEF last
  <2> QED BY <1>5, <2>1, <2>2
<1> QED BY <1>9, <1>11, <1>12, <1>14, <1>15, <1>16, <1>17, <1>18 DEF IndInv, InHand

-----------------------------------------------------------------------------
\* The steps that begin a call, or move it on without a write.
LEMMA FindBackupKeeps ==
  ASSUME IndInv, NEW p \in Procs, FindBackup(p)
  PROVE  IndInv'
<1> DEFINE new == [Idle EXCEPT !.op = "recover", !.pc = "write",
                               !.typed = user.backup, !.at = clock]
<1>1. clock \in Nat /\ tokens \subseteq Nat /\ user.backup \in Nat
  BY Shapes DEF IndInv, TypeOK
<1>2. new \in ProcStates /\ new.row.backup = 0 /\ new.op = "recover"
  BY <1>1, IdleTyped DEF ProcStates, AllOps
<1>3. procs' = [procs EXCEPT ![p] = new] /\ UNCHANGED <<clock, data>>
  BY DEF FindBackup
<1> HIDE DEF new
<1> QED BY <1>1, <1>2, <1>3, MoveKeeps DEF data

LEMMA CheckPasswordKeeps ==
  ASSUME IndInv, NEW p \in Procs, CheckPassword(p)
  PROVE  IndInv'
<1>1. PICK op \in {"replace", "change", "login"} :
        procs' = [procs EXCEPT ![p] = [Idle EXCEPT
            !.op = op,
            !.pc = CASE op = "replace" -> "write" [] op = "change" -> "stamp"
                     [] op = "login" -> "token"]]
  BY DEF CheckPassword
<1> DEFINE new == [Idle EXCEPT !.op = op,
                     !.pc = CASE op = "replace" -> "write" [] op = "change" -> "stamp"
                              [] op = "login" -> "token"]
<1>2. new \in ProcStates /\ new.row.backup = 0 /\ new.op \notin {"approve", "temp"}
  BY IdleTyped DEF ProcStates, AllOps, Idle
<1>3. clock' \in Nat /\ tokens' \subseteq Nat /\ UNCHANGED data
  BY DEF IndInv, TypeOK, CheckPassword, data
<1>4. procs' = [procs EXCEPT ![p] = new]
  BY <1>1
<1> HIDE DEF new
<1> QED BY <1>2, <1>3, <1>4, MoveKeeps DEF data

LEMMA RedeemCodeKeeps ==
  ASSUME IndInv, NEW p \in Procs, RedeemCode(p)
  PROVE  IndInv'
<1> DEFINE new == [Idle EXCEPT !.op = "code", !.pc = "stamp"]
<1>1. new \in ProcStates /\ new.row.backup = 0 /\ new.op = "code"
  BY IdleTyped DEF ProcStates, AllOps
<1>2. procs' = [procs EXCEPT ![p] = new] /\ UNCHANGED <<clock, data>>
  BY DEF RedeemCode
<1>3. clock \in Nat /\ tokens \subseteq Nat
  BY DEF IndInv, TypeOK
<1> HIDE DEF new
<1> QED BY <1>1, <1>2, <1>3, MoveKeeps DEF data

LEMMA StampKeeps ==
  ASSUME IndInv, NEW p \in Procs, Stamp(p)
  PROVE  IndInv'
<1> DEFINE new == [procs[p] EXCEPT !.at = clock, !.pc = "write"]
<1>1. clock \in Nat /\ tokens \subseteq Nat /\ procs \in [Procs -> ProcStates]
  BY DEF IndInv, TypeOK
<1>2. new \in ProcStates /\ new.row = procs[p].row
  BY <1>1 DEF ProcStates
<1>3. procs' = [procs EXCEPT ![p] = new] /\ UNCHANGED <<clock, data>>
  BY <1>1 DEF Stamp
<1>4. procs[p].row.backup \in Backups
  BY DEF Backups
<1>5. new.op \in {"approve", "temp"} => new.req \in DOMAIN requests
  BY <1>1 DEF ProcStates, InHand, IndInv, Stamp
<1> HIDE DEF new
<1> QED BY <1>1, <1>2, <1>3, <1>4, <1>5, MoveKeeps DEF data

LEMMA IssueTokenKeeps ==
  ASSUME IndInv, NEW p \in Procs, IssueToken(p)
  PROVE  IndInv'
<1>1. clock' \in Nat /\ tokens' \subseteq Nat
  BY DEF IndInv, TypeOK, IssueToken
<1>2. Idle.op = "none"
  BY DEF Idle
<1> QED BY <1>1, <1>2, IdleTyped, MoveKeeps DEF IssueToken, Return

LEMMA LoadProfileKeeps ==
  ASSUME IndInv, NEW p \in Procs, LoadProfile(p)
  PROVE  IndInv'
<1> DEFINE new == [Idle EXCEPT !.op = "profile", !.pc = "write", !.row = user]
<1>1. clock \in Nat /\ tokens \subseteq Nat /\ user \in Rows
  BY DEF IndInv, TypeOK
<1>2. new \in ProcStates /\ new.row = user /\ new.op = "profile"
  BY <1>1, IdleTyped DEF ProcStates, AllOps, Idle
<1>3. procs' = [procs EXCEPT ![p] = new] /\ UNCHANGED <<clock, data>>
  BY DEF LoadProfile
<1>4. user.backup \in Backups
  BY DEF Backups
<1> HIDE DEF new
<1> QED BY <1>1, <1>2, <1>3, <1>4, MoveKeeps DEF data

LEMMA FindTempKeeps ==
  ASSUME IndInv, NEW p \in Procs, FindTemp(p)
  PROVE  IndInv'
<1>1. PICK i \in DOMAIN requests :
        procs' = [procs EXCEPT ![p] = [Idle EXCEPT
            !.op = "temp", !.pc = "write", !.at = clock, !.req = i,
            !.typed = requests[i].code]]
  BY DEF FindTemp
<1> DEFINE new == [Idle EXCEPT !.op = "temp", !.pc = "write", !.at = clock, !.req = i,
                               !.typed = requests[i].code]
<1>2. /\ clock' = clock /\ clock \in Nat /\ tokens \subseteq Nat
      /\ i \in Nat /\ requests[i].code \in Nat /\ UNCHANGED data
  BY Shapes DEF IndInv, TypeOK, FindTemp
<1>3. new \in ProcStates /\ new.row.backup = 0 /\ new.req = i
  BY <1>2, IdleTyped DEF ProcStates, AllOps, Idle
<1>4. procs' = [procs EXCEPT ![p] = new]
  BY <1>1
<1> HIDE DEF new
<1> QED BY <1>2, <1>3, <1>4, MoveKeeps DEF data

LEMMA AbortKeeps ==
  ASSUME IndInv, NEW p \in Procs, Abort(p)
  PROVE  IndInv'
<1>1. clock' \in Nat /\ tokens' \subseteq Nat
  BY DEF IndInv, TypeOK, Abort, data
<1>2. Idle.op = "none"
  BY DEF Idle
<1> QED BY <1>1, <1>2, IdleTyped, MoveKeeps DEF Abort, Return, data

LEMMA TickKeeps ==
  ASSUME IndInv, Tick
  PROVE  IndInv'
<1>1. clock' \in Nat /\ tokens' \subseteq Nat /\ procs' \in [Procs -> ProcStates]
  BY DEF IndInv, TypeOK, Tick, data
<1>2. Narrowed(requests')
  BY DEF Narrowed, IndInv, TypeOK, Tick, data
<1>3. \A q \in Procs : procs'[q].row.backup \in Backups \cup {0}
  BY DEF Backups, Tick
<1>4. InHand'
  BY DEF IndInv, InHand, Tick, data
<1> QED BY <1>1, <1>2, <1>3, <1>4, NarrowKeeps DEF Tick, data

-----------------------------------------------------------------------------
\* The steps that write the account's row.
LEMMA TokenTyped ==
  ASSUME TypeOK, NEW p \in Procs
  PROVE  LET new == [Idle EXCEPT !.op = procs[p].op, !.pc = "token"]
         IN new \in ProcStates /\ new.row.backup = 0 /\ new.pc = "token"
<1>1. procs[p].op \in AllOps \cup {"none"}
  BY DEF TypeOK, ProcStates
<1> QED BY <1>1, IdleTyped DEF ProcStates

\* a call ends, or goes on with a token
LEMMA LeaveKeeps ==
  ASSUME IndInv, NEW p \in Procs, Return(p) \/ ThenToken(p),
         DOMAIN requests' = DOMAIN requests
  PROVE  /\ procs' \in [Procs -> ProcStates]
         /\ \A q \in Procs : procs'[q].row.backup \in Backups \cup {0}
         /\ InHand'
<1>1. procs \in [Procs -> ProcStates]
  BY DEF IndInv, TypeOK
<1>2. PICK new \in ProcStates : /\ new.row.backup = 0 /\ new.pc \in {"idle", "token"}
                                /\ procs' = [procs EXCEPT ![p] = new]
  <2>1. Idle.pc = "idle"
    BY DEF Idle
  <2> QED BY <2>1, IdleTyped, TokenTyped DEF Return, ThenToken, IndInv
<1> QED BY <1>1, <1>2 DEF InHand, IndInv, Backups

LEMMA ReplaceKeeps ==
  ASSUME IndInv, NEW p \in Procs, Replace(p)
  PROVE  IndInv'
<1>1. secrets \in Nat /\ user \in Rows /\ restored \subseteq Nat
  BY DEF IndInv, TypeOK
<1>2. user' \in Rows /\ user'.backup = secrets + 1 /\ secrets' = secrets + 1
  BY <1>1 DEF Replace, Rows
<1> QED BY <1>1, <1>2, LeaveKeeps, RowKeeps DEF Replace

LEMMA SetPasswordKeeps ==
  ASSUME IndInv, NEW p \in Procs, SetPassword(p)
  PROVE  IndInv'
<1>1. secrets \in Nat /\ user \in Rows /\ restored \subseteq Nat /\ procs[p].at \in Nat
  BY Shapes DEF IndInv, TypeOK
<1>2. user' = [user EXCEPT !.password = secrets + 1, !.changedAt = procs[p].at]
      /\ secrets' = secrets + 1
  BY DEF SetPassword
<1>3. user' \in Rows
  <2>1. secrets + 1 \in Nat
    BY <1>1
  <2> QED BY <1>1, <1>2, <2>1 DEF Rows
<1>4. user'.backup = user.backup
  BY <1>1, <1>2 DEF Rows
<1> QED BY <1>1, <1>2, <1>3, <1>4, LeaveKeeps, RowKeeps DEF SetPassword

LEMMA SaveProfileKeeps ==
  ASSUME IndInv, NEW p \in Procs, SaveProfile(p)
  PROVE  IndInv'
<1>1. secrets \in Nat /\ procs[p].row \in Rows /\ restored \subseteq Nat
  BY DEF IndInv, TypeOK, ProcStates
<1>2. procs[p].row.backup \in Backups /\ procs[p].row.backup \in Nat
  BY Shapes DEF Backups, IndInv
<1>3. /\ user' = procs[p].row /\ secrets' = secrets
      /\ restored \subseteq restored' /\ restored' \subseteq Nat
      /\ user'.backup = user.backup \/ user'.backup \in restored'
  BY <1>1, <1>2 DEF SaveProfile
<1> QED BY <1>1, <1>2, <1>3, LeaveKeeps, RowKeeps DEF SaveProfile

LEMMA RecoverKeeps ==
  ASSUME IndInv, NEW p \in Procs, Recover(p)
  PROVE  IndInv'
<1>1. /\ procs[p].at \in Nat /\ procs[p].typed \in Nat /\ clock \in Nat
      /\ tokens \subseteq Nat
  BY Shapes DEF IndInv, TypeOK
<1>2. CASE NamesTheCode(p)
  <2>1. /\ Renewed(procs[p].at) /\ Reset("backup", procs[p].typed) /\ ThenToken(p)
        /\ UNCHANGED <<clock, requests, tokens, lastTemp, restored>>
    BY <1>2 DEF Recover
  <2>2. procs[p].typed = user.backup /\ user.backup \in Backups
    BY <1>2 DEF NamesTheCode, Backups
  <2>3. procs[p].typed <= secrets
    BY <2>2 DEF IndInv, CodesMade
  <2>4. ~ Gone(procs[p].typed) \/ procs[p].typed \in restored
    BY <2>2 DEF Gone
  <2>5. \A i \in DOMAIN requests' : Held(i)' => requests'[i].code # procs[p].typed
    BY <2>1, <2>2 DEF IndInv, CodesMade, Held
  <2>6. Narrowed(requests')
    BY <2>1 DEF Narrowed, IndInv, TypeOK
  <2> QED BY <1>1, <2>1, <2>3, <2>4, <2>5, <2>6, LeaveKeeps, RenewKeeps
<1>3. CASE ~ NamesTheCode(p)
  <2>1. /\ Return(p)
        /\ UNCHANGED <<user, secrets, resets, clock, requests, tokens, lastTemp, restored>>
    BY <1>3 DEF Recover
  <2>2. Idle.op = "none"
    BY DEF Idle
  <2> QED BY <1>1, <2>1, <2>2, IdleTyped, MoveKeeps DEF Return
<1> QED BY <1>2, <1>3

-----------------------------------------------------------------------------
\* The steps that write requests.
LEMMA ResetWithTempCodeKeeps ==
  ASSUME IndInv, NEW p \in Procs, ResetWithTempCode(p)
  PROVE  IndInv'
<1> DEFINE r == procs[p].req
           code == procs[p].typed
<1>1. /\ procs[p].at \in Nat /\ code \in Nat /\ clock \in Nat
      /\ tokens \subseteq Nat
  BY Shapes DEF IndInv, TypeOK
<1>2. CASE StillLive(p)
  <2>1. /\ Renewed(procs[p].at) /\ Reset("temp", code) /\ ThenToken(p)
        /\ requests' = Spent(r)
        /\ UNCHANGED <<clock, tokens, lastTemp, restored>>
    BY <1>2 DEF ResetWithTempCode
  <2>2. r \in DOMAIN requests
    BY DEF IndInv, InHand, ResetWithTempCode, At
  <2>3. Held(r) /\ requests[r].code = code
    BY <1>2 DEF StillLive, Held
  <2>4. code = lastTemp /\ code <= secrets /\ user.backup # code
    BY <2>2, <2>3 DEF IndInv, OneApproved, CodesMade, Backups
  <2>5. ~ Gone(code) \/ code \in restored
    BY <2>2, <2>3 DEF Gone
  <2>6. \A i \in DOMAIN requests : i # r => ~ Held(i)
    BY <2>2, <2>3 DEF IndInv, OneApproved
  <2>7. \A i \in DOMAIN requests : requests[i] \in Requests
    BY Shapes DEF IndInv
  <2>8. \A i \in DOMAIN requests :
          /\ Spent(r)[i] \in Requests
          /\ Closed(Spent(r)[i].status)
          /\ \/ Spent(r)[i] = requests[i]
             \/ /\ Open(requests[i].status) /\ Closed(Spent(r)[i].status)
                /\ Spent(r)[i].code = 0
    <3> SUFFICES ASSUME NEW i \in DOMAIN requests
                 PROVE  /\ Spent(r)[i] \in Requests
                        /\ Closed(Spent(r)[i].status)
                        /\ \/ Spent(r)[i] = requests[i]
                           \/ /\ Open(requests[i].status)
                              /\ Spent(r)[i].code = 0
      OBVIOUS
    <3>1. CASE i = r
      BY <2>3, <2>7, <3>1 DEF Spent, Held, Open, Closed, Requests
    <3>2. CASE i # r /\ requests[i].status = "pending"
      <4>1. requests[i].code = 0
        BY <3>2 DEF IndInv, TypeOK
      <4> QED BY <2>7, <3>2, <4>1 DEF Spent, Open, Closed, Requests
    <3>3. CASE i # r /\ requests[i].status # "pending"
      <4>1. requests[i].status \in {"rejected", "used", "expired"}
        BY <2>6, <2>7, <3>3 DEF Held, Requests
      <4> QED BY <2>7, <3>3, <4>1 DEF Spent, Closed
    <3> QED BY <3>1, <3>2, <3>3
  <2>9. Spent(r) = [i \in DOMAIN requests |-> Spent(r)[i]]
    BY DEF Spent
  <2>10. Spent(r) \in Seq(Requests) /\ Len(Spent(r)) = Len(requests)
         /\ DOMAIN Spent(r) = DOMAIN requests
    <3> DEFINE spent == Spent(r)
    <3>1. requests \in Seq(Requests) /\ \A i \in DOMAIN requests : spent[i] \in Requests
      BY <2>8 DEF IndInv, TypeOK
    <3>2. spent = [i \in DOMAIN requests |-> spent[i]]
      BY <2>9
    <3> HIDE DEF spent
    <3>3. spent \in Seq(Requests) /\ Len(spent) = Len(requests)
          /\ DOMAIN spent = DOMAIN requests
      BY <3>1, <3>2, MappedSeq
    <3> QED BY <3>3 DEF spent
  <2>11. Narrowed(requests') /\ DOMAIN requests' = DOMAIN requests
    BY <2>1, <2>8, <2>10 DEF Narrowed
  <2>12. \A i \in DOMAIN requests : Closed(requests'[i].status)
    BY <2>1, <2>8
  <2>13. \A i \in DOMAIN requests' : ~ Held(i)'
    BY <2>11, <2>12 DEF Held, Closed
  <2> HIDE DEF r, code
  <2> QED BY <1>1, <2>1, <2>4, <2>5, <2>11, <2>12, <2>13, LeaveKeeps, RenewKeeps
<1>3. CASE ~ StillLive(p)
  <2>1. /\ Return(p)
        /\ UNCHANGED <<user, secrets, resets, clock, requests, tokens, lastTemp, restored>>
    BY <1>3 DEF ResetWithTempCode
  <2>2. Idle.op = "none"
    BY DEF Idle
  <2> QED BY <1>1, <2>1, <2>2, IdleTyped, MoveKeeps DEF Return
<1> QED BY <1>2, <1>3

LEMMA LookKeeps ==
  ASSUME IndInv, Look
  PROVE  IndInv'
<1>1. clock \in Nat /\ tokens \subseteq Nat /\ procs \in [Procs -> ProcStates]
  BY DEF IndInv, TypeOK
<1>2. Narrowed(requests') /\ DOMAIN requests' = DOMAIN requests
  BY <1>1, ExpiredNarrows DEF Look, IndInv
<1>3. InHand'
  BY <1>2 DEF IndInv, InHand, Look
<1>4. \A q \in Procs : procs'[q].row.backup \in Backups \cup {0}
  BY DEF Backups, Look
<1> QED BY <1>1, <1>2, <1>3, <1>4, NarrowKeeps DEF Look

LEMMA ReadForApprovalKeeps ==
  ASSUME IndInv, NEW p \in Procs, ReadForApproval(p)
  PROVE  IndInv'
<1> DEFINE rows == Expired(clock)
<1>1. /\ clock \in Nat /\ tokens \subseteq Nat /\ procs \in [Procs -> ProcStates]
      /\ requests' = rows
      /\ UNCHANGED <<clock, user, tokens, secrets, lastTemp, resets, restored>>
  BY DEF IndInv, TypeOK, ReadForApproval
<1>2. Narrowed(requests') /\ DOMAIN requests' = DOMAIN requests /\ DOMAIN rows = DOMAIN requests
  BY <1>1, ExpiredNarrows DEF IndInv
<1>3. PICK i \in DOMAIN rows :
        /\ Open(rows[i].status)
        /\ procs' = [procs EXCEPT ![p] = [Idle EXCEPT
             !.op = "approve", !.pc = "write", !.at = clock, !.req = i,
             !.status = rows[i].status,
             !.others = {j \in DOMAIN rows \ {i} : rows[j].status = "approved"}]]
  BY DEF ReadForApproval
<1> DEFINE new == [Idle EXCEPT
             !.op = "approve", !.pc = "write", !.at = clock, !.req = i,
             !.status = rows[i].status,
             !.others = {j \in DOMAIN rows \ {i} : rows[j].status = "approved"}]
<1>4. rows[i].status \in {"pending", "approved"}
      /\ {j \in DOMAIN rows \ {i} : rows[j].status = "approved"} \in SUBSET Nat
      /\ i \in Nat
  BY <1>2, <1>3, Shapes DEF Open, IndInv
<1>5. new \in ProcStates /\ new.row.backup = 0 /\ new.req = i
  <2> HIDE DEF rows
  <2> QED BY <1>1, <1>4, IdleTyped DEF ProcStates, AllOps, Idle
<1>6. procs' = [procs EXCEPT ![p] = new]
  BY <1>3
<1> HIDE DEF new, rows
<1>7. /\ procs' \in [Procs -> ProcStates]
      /\ \A q \in Procs : procs'[q].row.backup \in Backups \cup {0}
      /\ InHand'
  BY <1>1, <1>2, <1>5, <1>6 DEF InHand, IndInv, Backups
<1> QED BY <1>1, <1>2, <1>7, NarrowKeeps

LEMMA RejectKeeps ==
  ASSUME IndInv, NEW i \in DOMAIN requests, Reject(i)
  PROVE  IndInv'
<1> DEFINE rows == Expired(clock)
           out == [rows EXCEPT ![i].status = "rejected", ![i].code = 0]
<1>1. /\ clock \in Nat /\ tokens \subseteq Nat /\ procs \in [Procs -> ProcStates]
      /\ requests' = out /\ Open(rows[i].status)
      /\ UNCHANGED <<clock, user, tokens, secrets, lastTemp, resets, restored, procs>>
  BY DEF IndInv, TypeOK, Reject
<1>2. Narrowed(rows) /\ DOMAIN rows = DOMAIN requests
  BY <1>1, ExpiredNarrows DEF IndInv
<1> HIDE DEF rows
<1>3. /\ rows \in Seq(Requests) /\ Len(rows) = Len(requests)
      /\ \A j \in DOMAIN rows : rows[j] \in Requests
  BY <1>2 DEF Narrowed
<1>4. rows[i] = requests[i]
  BY <1>1, <1>2 DEF Narrowed, Open, Closed
<1>5. out[i] \in Requests /\ Closed(out[i].status) /\ out[i].code = 0
  BY <1>2, <1>3 DEF Requests, Closed
<1>6. \A j \in DOMAIN rows : j # i => out[j] = rows[j]
  OBVIOUS
<1>7. out = [j \in DOMAIN rows |-> out[j]] /\ \A j \in DOMAIN rows : out[j] \in Requests
  BY <1>2, <1>3, <1>5, <1>6
<1>8. out \in Seq(Requests) /\ Len(out) = Len(rows) /\ DOMAIN out = DOMAIN rows
  <2> HIDE DEF out
  <2> QED BY <1>3, <1>7, MappedSeq
<1>9. Narrowed(requests') /\ DOMAIN requests' = DOMAIN requests
  <2> HIDE DEF out
  <2> QED BY <1>1, <1>2, <1>3, <1>4, <1>5, <1>6, <1>8 DEF Narrowed
<1>10. InHand'
  BY <1>1, <1>9 DEF IndInv, InHand
<1>11. \A q \in Procs : procs'[q].row.backup \in Backups \cup {0}
  BY <1>1 DEF Backups
<1> HIDE DEF out
<1> QED BY <1>1, <1>9, <1>10, <1>11, NarrowKeeps

\* A new request is filed after those there are, which may close.
LEMMA RequestSupportKeeps ==
  ASSUME IndInv, RequestSupport
  PROVE  IndInv'
<1> DEFINE rows == Expired(clock)
           new == [status |-> "pending", at |-> clock, code |-> 0, expires |-> 0]
<1>1. /\ clock \in Nat /\ tokens \subseteq Nat /\ procs \in [Procs -> ProcStates]
      /\ UNCHANGED <<clock, user, tokens, secrets, lastTemp, resets, restored, procs>>
      /\ requests' = rows \/ requests' = Append(rows, new)
  BY DEF IndInv, TypeOK, RequestSupport
<1>2. Narrowed(rows) /\ DOMAIN rows = DOMAIN requests
  BY <1>1, ExpiredNarrows DEF IndInv
<1>3. InHand' \/ DOMAIN requests' # DOMAIN requests
  BY <1>1 DEF IndInv, InHand
<1>4. \A q \in Procs : procs'[q].row.backup \in Backups \cup {0}
  BY <1>1 DEF Backups
<1> HIDE DEF rows
<1>5. CASE requests' = rows
  BY <1>1, <1>2, <1>3, <1>4, <1>5, NarrowKeeps
<1>6. CASE requests' = Append(rows, new)
  <2> DEFINE last == Len(requests) + 1
  <2>1. new \in Requests
    BY <1>1 DEF Requests
  <2>2. new.code = 0 /\ new.status = "pending"
    OBVIOUS
  <2> HIDE DEF new
  <2>3. /\ rows \in Seq(Requests) /\ Len(rows) = Len(requests)
        /\ DOMAIN requests = 1..Len(requests) /\ Len(requests) \in Nat
    BY <1>2, Shapes DEF Narrowed, IndInv
  <2>4. /\ requests' \in Seq(Requests)
        /\ DOMAIN requests' = 1..Len(requests) + 1 /\ Len(requests') = Len(requests) + 1
        /\ \A i \in DOMAIN requests : requests'[i] = rows[i]
        /\ requests'[last] = new
    BY <1>6, <2>1, <2>3
  <2>5. \A i \in DOMAIN requests' : i \in DOMAIN requests \/ i = last
    BY <2>3, <2>4
  <2>6. \A i \in DOMAIN requests : i \in DOMAIN requests'
    BY <2>3, <2>4
  <2>7. \A i \in DOMAIN requests' :
          Held(i)' => i \in DOMAIN requests /\ requests'[i] = requests[i] /\ Held(i)
    BY <1>2, <2>2, <2>4, <2>5 DEF Narrowed, Closed, Held
  <2>8. \A i \in DOMAIN requests :
          Closed(requests[i].status) => requests'[i] = requests[i]
    BY <1>2, <2>4 DEF Narrowed, Closed, Open
  <2>9. \A i \in DOMAIN requests' :
          requests'[i].code # 0 <=> requests'[i].status = "approved"
    <3>1. ASSUME NEW i \in DOMAIN requests
          PROVE  rows[i].code # 0 <=> rows[i].status = "approved"
      BY <1>2 DEF Narrowed, Closed, IndInv, TypeOK
    <3> QED BY <2>2, <2>4, <2>5, <3>1
  <2>10. TypeOK'
    BY <1>1, <2>4, <2>9 DEF IndInv, TypeOK
  <2>11. Backups' = Backups
    BY <1>1 DEF Backups
  <2>12. CodesMade'
    <3>1. \A i \in DOMAIN requests' : requests'[i].code <= secrets
      <4>1. 0 <= secrets
        BY DEF IndInv, TypeOK
      <4> QED BY <1>2, <2>2, <2>4, <2>5, <4>1 DEF IndInv, CodesMade, Narrowed
    <3> QED BY <1>1, <2>7, <2>11, <3>1 DEF IndInv, CodesMade
  <2>13. OneApproved' /\ SpentGone' /\ CodeSpentOnce' /\ NewestTempOnly'
    BY <1>1, <2>7 DEF IndInv, OneApproved, SpentGone, Gone, CodeSpentOnce, NewestTempOnly
  <2>14. ResetsKnown'
    <3>1. \A n \in DOMAIN resets : resets[n].known \in Nat
      BY Shapes DEF IndInv
    <3> QED BY <1>1, <2>3, <2>4, <3>1 DEF IndInv, ResetsKnown
  <2>15. InHand'
    BY <1>1, <2>6 DEF IndInv, InHand
  <2>16. ResetClosesRequests'
    <3>1. ASSUME NEW n \in DOMAIN resets
          PROVE  1..resets[n].known \subseteq DOMAIN requests
      <4>1. resets[n].known \in Nat /\ resets[n].known <= Len(requests)
        BY Shapes DEF IndInv, ResetsKnown
      <4> QED BY <2>3, <4>1
    <3> QED BY <1>1, <2>8, <3>1 DEF IndInv, ResetClosesRequests
  <2> QED BY <2>10, <2>12, <2>13, <2>14, <2>15, <2>16 DEF IndInv
<1> QED BY <1>1, <1>5, <1>6

\* A code is issued: the newest, and the only one there is.
LEMMA ApproveKeeps ==
  ASSUME IndInv, NEW p \in Procs, Approve(p)
  PROVE  IndInv'
<1> DEFINE r == procs[p].req
           fresh == secrets + 1
           made == [requests[r] EXCEPT !.status = "approved", !.code = secrets + 1,
                                       !.expires = procs[p].at + TempCodeTTL]
<1>1. /\ clock \in Nat /\ tokens \subseteq Nat /\ procs \in [Procs -> ProcStates]
      /\ procs[p].at \in Nat /\ secrets \in Nat
      /\ Return(p) /\ UNCHANGED <<clock, user, tokens, resets, restored>>
  BY Shapes DEF IndInv, TypeOK, Approve
<1>2. CASE UNCHANGED <<requests, secrets, lastTemp>>
  <2>1. Idle.op = "none"
    BY DEF Idle
  <2> QED BY <1>1, <1>2, <2>1, IdleTyped, MoveKeeps DEF Return
<1>3. CASE /\ requests[r].status = procs[p].status
           /\ \A j \in DOMAIN requests \ ({r} \cup procs[p].others) :
                requests[j].status # "approved"
           /\ requests' = Approved(p)
           /\ secrets' = secrets + 1
           /\ lastTemp' = secrets + 1
  <2>1. r \in DOMAIN requests
    BY DEF IndInv, InHand, Approve, At
  <2>2. \A i \in DOMAIN requests : requests[i] \in Requests /\ requests[i].code \in Nat
    BY Shapes DEF IndInv
  <2>3. Approved(p)[r] = made
    BY <2>1 DEF Approved
  <2>4. made \in Requests /\ made.status = "approved" /\ made.code = fresh
    <3>1. fresh \in Nat /\ procs[p].at + TempCodeTTL \in Nat /\ requests[r] \in Requests
      BY <1>1, <2>1, <2>2, TTLAssumption
    <3>2. \A q \in Requests, c \in Nat, e \in Nat :
            LET new == [q EXCEPT !.status = "approved", !.code = c, !.expires = e]
            IN new \in Requests /\ new.status = "approved" /\ new.code = c
      BY DEF Requests
    <3> HIDE DEF r
    <3> QED BY <3>1, <3>2
  <2>5. \A i \in DOMAIN requests : i # r =>
          \/ /\ Approved(p)[i] = requests[i] /\ ~ Held(i)
          \/ /\ Approved(p)[i] = [requests[i] EXCEPT !.status = "expired", !.code = 0]
             /\ Held(i)
    BY <1>3 DEF Approved, Held
  <2>6. \A i \in DOMAIN requests : i # r =>
          /\ Approved(p)[i] \in Requests
          /\ Approved(p)[i].status # "approved" /\ Approved(p)[i].code = 0
    <3>1. \A q \in Requests : LET closed == [q EXCEPT !.status = "expired", !.code = 0]
                              IN /\ closed \in Requests
                                 /\ closed.status = "expired" /\ closed.code = 0
      BY DEF Requests
    <3>2. \A i \in DOMAIN requests : ~ Held(i) => requests[i].code = 0
      BY DEF IndInv, TypeOK, Held
    <3> SUFFICES ASSUME NEW i \in DOMAIN requests, i # r
                 PROVE  /\ Approved(p)[i] \in Requests
                        /\ Approved(p)[i].status # "approved" /\ Approved(p)[i].code = 0
      OBVIOUS
    <3>3. CASE Approved(p)[i] = requests[i] /\ ~ Held(i)
      BY <2>2, <3>2, <3>3 DEF Held
    <3>4. CASE Approved(p)[i] = [requests[i] EXCEPT !.status = "expired", !.code = 0]
      BY <2>2, <3>1, <3>4
    <3> QED BY <2>5, <3>3, <3>4
  <2> DEFINE rows == Approved(p)
  <2>7. rows = [i \in DOMAIN requests |-> rows[i]]
    BY DEF Approved
  <2>8. requests \in Seq(Requests) /\ \A i \in DOMAIN requests : rows[i] \in Requests
    BY <2>3, <2>4, <2>6 DEF IndInv, TypeOK
  <2>9. rows \in Seq(Requests) /\ Len(rows) = Len(requests) /\ DOMAIN rows = DOMAIN requests
    <3> HIDE DEF rows
    <3> QED BY <2>7, <2>8, MappedSeq
  <2>10. requests' = rows
    BY <1>3
  <2>11. \A i \in DOMAIN requests :
           Closed(requests[i].status) => requests'[i] = requests[i]
    <3>1. procs[p].status \in {"none", "pending", "approved"}
      BY <1>1 DEF ProcStates
    <3>2. ~ Closed(requests[r].status)
      BY <1>3, <3>1 DEF Closed
    <3> QED BY <2>5, <2>10, <3>2 DEF Closed, Held
  <2> HIDE DEF r, made, rows
  <2>12. /\ requests' \in Seq(Requests) /\ Len(requests') = Len(requests)
         /\ DOMAIN requests' = DOMAIN requests
         /\ requests'[r].status = "approved" /\ requests'[r].code = fresh
         /\ \A i \in DOMAIN requests : i # r => requests'[i].status # "approved"
                                                /\ requests'[i].code = 0
    BY <2>3, <2>4, <2>6, <2>9, <2>10 DEF rows
  <2>13. /\ procs' \in [Procs -> ProcStates] /\ InHand'
         /\ \A q \in Procs : procs'[q].row.backup \in Backups \cup {0}
    BY <1>1, <2>12, LeaveKeeps
  <2>14. TypeOK'
    <3>1. fresh # 0
      BY <1>1
    <3> QED BY <1>1, <1>3, <2>12, <2>13, <3>1 DEF IndInv, TypeOK
  <2>15. \A b \in Backups' : b = 0 \/ b \in Backups
    BY <1>1, <2>13 DEF Backups
  <2>16. \A b \in Backups' : b \in Nat /\ b <= secrets
    <3>1. \A b \in Backups : b \in Nat /\ b <= secrets
      BY Shapes DEF IndInv, CodesMade
    <3> QED BY <1>1, <2>15, <3>1
  <2>17. \A n \in DOMAIN resets : resets[n].code \in Nat /\ resets[n].code <= secrets
    BY Shapes DEF IndInv, CodesMade
  <2>18. CodesMade'
    <3>1. \A b \in Backups' : b <= secrets'
      BY <1>1, <1>3, <2>16
    <3>2. \A i \in DOMAIN requests' : requests'[i].code <= secrets'
      BY <1>1, <1>3, <2>12
    <3>3. \A n \in DOMAIN resets' : resets'[n].code <= secrets'
      BY <1>1, <1>3, <2>17
    <3>4. fresh \notin Backups'
      BY <1>1, <2>16
    <3> QED BY <2>12, <3>1, <3>2, <3>3, <3>4 DEF CodesMade, Held
  <2>19. OneApproved'
    BY <1>3, <2>12 DEF OneApproved, Held
  <2>20. SpentGone'
    <3>1. \A n \in DOMAIN resets : resets[n].code # fresh /\ Gone(resets[n].code)
      BY <1>1, <2>17 DEF IndInv, SpentGone
    <3> QED BY <1>1, <2>12, <3>1 DEF SpentGone, Gone, Held
  <2>21. CodeSpentOnce' /\ NewestTempOnly' /\ ResetsKnown'
    BY <1>1, <2>12 DEF IndInv, CodeSpentOnce, NewestTempOnly, ResetsKnown
  <2>22. ResetClosesRequests'
    <3>1. ASSUME NEW n \in DOMAIN resets
          PROVE  1..resets[n].known \subseteq DOMAIN requests
      <4>1. /\ resets[n].known \in Nat /\ resets[n].known <= Len(requests)
            /\ DOMAIN requests = 1..Len(requests) /\ Len(requests) \in Nat
        BY Shapes DEF IndInv, ResetsKnown
      <4> QED BY <4>1
    <3> QED BY <1>1, <2>11, <3>1 DEF IndInv, ResetClosesRequests
  <2> QED BY <2>13, <2>14, <2>18, <2>19, <2>20, <2>21, <2>22 DEF IndInv
<1> QED BY <1>2, <1>3 DEF Approve

-----------------------------------------------------------------------------
LEMMA InitInv == Init => IndInv
<1> SUFFICES ASSUME Init
             PROVE  IndInv
  OBVIOUS
<1>1. requests = <<>> /\ resets = <<>> /\ DOMAIN requests = {} /\ DOMAIN resets = {}
  BY DEF Init
<1>2. procs = [p \in Procs |-> Idle] /\ secrets = 2 /\ user.backup = 2
  BY DEF Init
<1>3. TypeOK
  <2>1. user \in Rows
    BY DEF Init, Rows
  <2> QED BY <1>1, <1>2, <2>1, IdleTyped DEF Init, TypeOK
<1>4. CodesMade
  BY <1>1, <1>2, IdleTyped DEF CodesMade, Backups
<1>5. InHand
  BY <1>2 DEF InHand, Idle
<1> QED BY <1>1, <1>3, <1>4, <1>5 DEF IndInv, OneApproved, SpentGone, ResetsKnown,
                                    CodeSpentOnce, NewestTempOnly, ResetClosesRequests

LEMMA NextInv == IndInv /\ [Next]_vars => IndInv'
<1> SUFFICES ASSUME IndInv, [Next]_vars
             PROVE  IndInv'
  OBVIOUS
<1>1. CASE UNCHANGED vars
  BY <1>1 DEF vars, data, IndInv, TypeOK, CodesMade, Backups, OneApproved, SpentGone, Gone,
             ResetsKnown, InHand, CodeSpentOnce, NewestTempOnly, ResetClosesRequests, Held
<1>2. ASSUME NEW p \in Procs,
             \/ FindBackup(p) \/ Recover(p) \/ Replace(p)
             \/ CheckPassword(p) \/ RedeemCode(p) \/ Stamp(p) \/ SetPassword(p)
             \/ IssueToken(p) \/ LoadProfile(p) \/ SaveProfile(p)
             \/ ReadForApproval(p) \/ Approve(p) \/ FindTemp(p) \/ ResetWithTempCode(p)
             \/ Abort(p)
      PROVE  IndInv'
  BY <1>2, FindBackupKeeps, RecoverKeeps, ReplaceKeeps, CheckPasswordKeeps,
     RedeemCodeKeeps, StampKeeps, SetPasswordKeeps, IssueTokenKeeps, LoadProfileKeeps,
     SaveProfileKeeps, ReadForApprovalKeeps, ApproveKeeps, FindTempKeeps,
     ResetWithTempCodeKeeps, AbortKeeps
<1>3. ASSUME NEW i \in DOMAIN requests, Reject(i)
      PROVE  IndInv'
  BY <1>3, RejectKeeps
<1>4. CASE RequestSupport \/ Look \/ Tick
  BY <1>4, RequestSupportKeeps, LookKeeps, TickKeeps
<1> QED BY <1>1, <1>2, <1>3, <1>4 DEF Next

\* What every reachable state satisfies, of which the theorems below are parts.
LEMMA Invariance == Spec => []IndInv
BY InitInv, NextInv, PTL DEF Spec

\* The state keeps its shape, and a request holds a code exactly while it is
\* approved, whatever calls overlap.
THEOREM TypeCorrect == Spec => []TypeOK
<1>1. IndInv => TypeOK
  BY DEF IndInv
<1> QED BY <1>1, Invariance, PTL

\* No backup or temporary code sets two passwords (Recover, ResetWithTempCode),
\* unless a saved profile brought it back (UpdateMe).
THEOREM CodesSpentOnce == Spec => []CodeSpentOnce
<1>1. IndInv => CodeSpentOnce
  BY DEF IndInv
<1> QED BY <1>1, Invariance, PTL

\* The temporary code that sets a password is the one Approve made last.
THEOREM OnlyNewestTempCode == Spec => []NewestTempOnly
<1>1. IndInv => NewestTempOnly
  BY DEF IndInv
<1> QED BY <1>1, Invariance, PTL

\* After ResetWithTempCode every request that was filed by then is closed, and
\* stays closed.
THEOREM ResetsClose == Spec => []ResetClosesRequests
<1>1. IndInv => ResetClosesRequests
  BY DEF IndInv
<1> QED BY <1>1, Invariance, PTL

\* At most one request is approved, and it has the code made last: the unique
\* index of approved requests and what Approve does to the others.
THEOREM OneLiveTempCode == Spec => []OneApproved
<1>1. IndInv => OneApproved
  BY DEF IndInv
<1> QED BY <1>1, Invariance, PTL

-----------------------------------------------------------------------------
\* Every step that writes requests leaves the closed ones alone.
LEMMA ClosedStays ==
  ASSUME IndInv, [Next]_vars, NEW i \in DOMAIN requests, Closed(requests[i].status)
  PROVE  requests'[i] = requests[i]
<1>1. /\ clock \in Nat /\ requests[i] \in Requests
      /\ DOMAIN requests = 1..Len(requests) /\ Len(requests) \in Nat
  BY Shapes DEF IndInv, TypeOK
<1>2. /\ Expired(clock)[i] = requests[i] /\ Narrowed(Expired(clock))
      /\ DOMAIN Expired(clock) = DOMAIN requests
  <2>1. Narrowed(Expired(clock)) /\ DOMAIN Expired(clock) = DOMAIN requests
    BY <1>1, ExpiredNarrows DEF IndInv
  <2> QED BY <2>1 DEF Narrowed, Open, Closed
<1>3. CASE requests' = requests
  BY <1>3
<1>4. CASE requests' = Expired(clock)
  BY <1>2, <1>4
<1>5. CASE RequestSupport
  <2> DEFINE rows == Expired(clock)
             new == [status |-> "pending", at |-> clock, code |-> 0, expires |-> 0]
  <2>1. requests' = rows \/ requests' = Append(rows, new)
    BY <1>5 DEF RequestSupport
  <2>2. rows \in Seq(Requests) /\ i \in 1..Len(rows) /\ new \in Requests
    BY <1>1, <1>2 DEF Narrowed, Requests
  <2>3. rows[i] = requests[i]
    BY <1>2
  <2> HIDE DEF rows, new
  <2> QED BY <2>1, <2>2, <2>3
<1>6. ASSUME NEW p \in Procs, Approve(p)
      PROVE  requests'[i] = requests[i]
  <2>1. procs[p].status \in {"none", "pending", "approved"}
    BY DEF IndInv, TypeOK, ProcStates
  <2>2. CASE requests' = Approved(p) /\ requests[procs[p].req].status = procs[p].status
    BY <2>1, <2>2 DEF Approved, Closed
  <2> QED BY <1>6, <2>2 DEF Approve
<1>7. ASSUME NEW p \in Procs, ResetWithTempCode(p)
      PROVE  requests'[i] = requests[i]
  <2>1. CASE requests' = Spent(procs[p].req) /\ StillLive(p)
    BY <2>1 DEF Spent, StillLive, Closed
  <2> QED BY <1>7, <2>1 DEF ResetWithTempCode
<1>8. ASSUME NEW j \in DOMAIN requests, Reject(j)
      PROVE  requests'[i] = requests[i]
  <2>1. requests' = [Expired(clock) EXCEPT ![j].status = "rejected", ![j].code = 0]
        /\ Open(Expired(clock)[j].status)
    BY <1>8 DEF Reject
  <2>2. j # i
    BY <1>2, <2>1 DEF Open, Closed
  <2> QED BY <1>2, <2>1, <2>2
<1>9. ASSUME NEW p \in Procs,
             \/ FindBackup(p) \/ Recover(p) \/ Replace(p)
             \/ CheckPassword(p) \/ RedeemCode(p) \/ Stamp(p) \/ SetPassword(p)
             \/ IssueToken(p) \/ LoadProfile(p) \/ SaveProfile(p)
             \/ FindTemp(p) \/ Abort(p)
      PROVE  requests' = requests
  BY <1>9 DEF FindBackup, Recover, Replace, CheckPassword, RedeemCode, Stamp, SetPassword,
              IssueToken, LoadProfile, SaveProfile, FindTemp, Abort, data
<1>10. ASSUME NEW p \in Procs, ReadForApproval(p)
       PROVE  requests' = Expired(clock)
  BY <1>10 DEF ReadForApproval
<1>11. Look => requests' = Expired(clock)
  BY DEF Look
<1>12. Tick \/ UNCHANGED vars => requests' = requests
  BY DEF Tick, vars, data
<1> QED BY <1>3, <1>4, <1>5, <1>6, <1>7, <1>8, <1>9, <1>10, <1>11, <1>12 DEF Next

\* A request that is rejected, used or expired is never written again, by an
\* admin who read it open or by a client who had its code.
THEOREM ClosedForGood == Spec => ClosedStaysClosed
<1>1. IndInv /\ [Next]_vars =>
        [\A i \in DOMAIN requests :
           Closed(requests[i].status) => requests'[i] = requests[i]]_requests
  BY ClosedStays
<1> QED BY <1>1, Invariance, PTL DEF Spec, ClosedStaysClosed
=============================================================================
