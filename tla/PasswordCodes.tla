---------------------------- MODULE PasswordCodes ----------------------------
(* One-time password codes: internal/passwordreset (service.go, email.go)    *)
(* over the table password_reset_codes. A code is asked for, issued under    *)
(* the limits, sent by a background worker, and redeemed or guessed at.      *)
(*                                                                           *)
(* A goroutine is a request handler or a delivery worker of one backend      *)
(* instance; each database statement, or transaction, is one step. The       *)
(* per-user mutex and the job queue live in the memory of an instance. The   *)
(* lock is taken in the step of the first statement made under it.           *)
EXTENDS Naturals, FiniteSets, Sequences

CONSTANTS
  Users, Phones,
  NoPhone,             \* the phone of a code sent by email
  Handlers, Workers,   \* the goroutines
  Instance,            \* Instance[g]: the backend instance g runs in
  QueueSize,           \* jobs that may wait in an instance
  MaxAttempts,         \* wrong guesses that kill a code
  CodeTTL, Cooldown, Hour, MaxPerHour, Retention,
  Asks,                \* the purposes codes are asked for
  PhonesMove,          \* TRUE: users may edit their number (UpdateMe)
  Errors,              \* TRUE: statements may fail, instances may restart
  MaxCodes, MaxTime    \* bounds

Goroutines == Handlers \cup Workers

Instances == {Instance[g] : g \in Goroutines}

Purposes == {"reset", "change", "email_reset"}

ASSUME GoroutinesAssumption == Handlers \cap Workers = {}
ASSUME UsersAssumption == Users # {}
ASSUME PhonesAssumption == NoPhone \notin Phones
ASSUME AsksAssumption == Asks \subseteq Purposes
ASSUME TimesAssumption ==
  /\ {CodeTTL, Cooldown, Hour, Retention} \subseteq Nat
  /\ Cooldown <= Hour /\ Hour < Retention /\ CodeTTL < Retention
ASSUME LimitsAssumption == {MaxAttempts, MaxPerHour, QueueSize} \subseteq Nat
ASSUME BoundsAssumption == {MaxCodes, MaxTime} \subseteq Nat

VARIABLES
  clock,      \* the time
  phone,      \* users.phone_normalized
  codes,      \* password_reset_codes in insertion order; a code's index is
              \* its id and stands for its digits
  queue,      \* the jobs waiting in each instance
  procs,      \* what each goroutine is doing
  sent,       \* history: the codes the user received
  resets      \* history: the passwords set with a code, in order

vars == <<clock, phone, codes, queue, procs, sent, resets>>

\* state: "live" is neither used nor invalidated; a deleted row keeps its
\* last contents
Codes ==
  [user : Users, phone : Phones \cup {NoPhone}, purpose : Purposes,
   at : Nat, attempts : Nat, state : {"live", "used", "invalid", "deleted"}]

\* what a worker is handed: find the account and issue a code, or send one
Jobs ==
  [kind : {"reset"}, phone : Phones] \cup [kind : {"email_reset"}, user : Users]
    \cup [kind : {"deliver"}, code : Nat]

\* at: the goroutine's now; code: the row in hand; guess: the digits typed;
\* tries: attempts as read; seen: the live codes the transaction supersedes
ProcStates ==
  [pc : {"idle", "purge", "cooldown", "hourly", "supersede", "create", "enqueue",
         "send", "undo", "find", "retire", "miss", "redeem"},
   user : Users, purpose : Purposes, phone : Phones \cup {NoPhone},
   at : Nat, code : Nat, guess : Nat, tries : Nat, seen : SUBSET Nat]

Idle == [pc |-> "idle", user |-> CHOOSE u \in Users : TRUE, purpose |-> "reset",
         phone |-> NoPhone, at |-> 0, code |-> 0, guess |-> 0,
         tries |-> 0, seen |-> {}]

Init ==
  /\ clock = 0
  /\ phone \in [Users -> Phones]
  /\ codes = <<>>
  /\ queue = [i \in Instances |-> <<>>]
  /\ procs = [g \in Goroutines |-> Idle]
  /\ sent = {}
  /\ resets = <<>>

-----------------------------------------------------------------------------
Live(i) == codes[i].state = "live"

LiveOf(u, purpose) ==
  {i \in DOMAIN codes : codes[i].user = u /\ codes[i].purpose = purpose /\ Live(i)}

\* rows the limits count
Stored == {i \in DOMAIN codes : codes[i].state # "deleted"}

Invalidated(S) ==
  [i \in DOMAIN codes |-> IF i \in S THEN [codes[i] EXCEPT !.state = "invalid"]
                                     ELSE codes[i]]

UnderLock == {"cooldown", "hourly", "supersede", "create", "retire", "miss", "redeem"}

\* mutant: the mutex guards nothing
LockFreeAlways(g) == TRUE

\* lock(user.ID) can be had
LockFree(g) ==
  \A h \in Goroutines :
    /\ Instance[h] = Instance[g]
    /\ procs[h].user = procs[g].user
    => procs[h].pc \notin UnderLock

Goto(g, pc) == procs' = [procs EXCEPT ![g].pc = pc]

\* the call, or the job, is over and its lock released
Return(g) == procs' = [procs EXCEPT ![g] = Idle]

Begin(g, pc, u, purpose, ph, guess) ==
  procs' = [procs EXCEPT ![g] = [Idle EXCEPT !.pc = pc, !.user = u, !.purpose = purpose,
                                             !.phone = ph, !.guess = guess]]

Issuing == {"purge", "cooldown", "hourly", "supersede", "create"}

Askings ==
  Cardinality({g \in Goroutines : procs[g].pc \in Issuing})
    + Cardinality(UNION {{<<i, n>> : n \in {m \in DOMAIN queue[i] :
                                            queue[i][m].kind # "deliver"}} : i \in Instances})

\* bound: the codes there are and those being asked for
RoomToAsk == Len(codes) + Askings < MaxCodes

\* uniqueActiveUser: exactly one account with that number
OwnersOf(ph) == {u \in Users : phone[u] = ph}

-----------------------------------------------------------------------------
\* Asking for a code

\* mutant: the queue has no end
EnqueueAlways(i, job) == queue' = [queue EXCEPT ![i] = Append(@, job)]

\* enqueue, or drop the job when the queue is full
Enqueue(i, job) ==
  queue' = IF Len(queue[i]) < QueueSize THEN [queue EXCEPT ![i] = Append(@, job)]
           ELSE queue

\* RequestReset and RequestEmailReset: no lookup, only a job
AskReset(i) ==
  /\ RoomToAsk
  /\ \/ /\ "reset" \in Asks
        /\ \E ph \in Phones : Enqueue(i, [kind |-> "reset", phone |-> ph])
     \/ /\ "email_reset" \in Asks
        /\ \E u \in Users : Enqueue(i, [kind |-> "email_reset", user |-> u])
  /\ UNCHANGED <<clock, phone, codes, procs, sent, resets>>

\* RequestChangeCode: the account is read, then the code is issued here
AskChange(g) ==
  /\ g \in Handlers /\ procs[g].pc = "idle"
  /\ RoomToAsk /\ "change" \in Asks
  /\ \E u \in Users : Begin(g, "purge", u, "change", phone[u], 0)
  /\ UNCHANGED <<clock, phone, codes, queue, sent, resets>>

\* a worker takes a job; of the first two kinds it looks the account up
TakeJob(g) ==
  LET q == queue[Instance[g]]
      job == Head(q)
  IN /\ g \in Workers /\ procs[g].pc = "idle"
     /\ q # <<>>
     /\ queue' = [queue EXCEPT ![Instance[g]] = Tail(q)]
     /\ CASE job.kind = "reset" ->
               IF Cardinality(OwnersOf(job.phone)) = 1
               THEN \E u \in OwnersOf(job.phone) :
                      Begin(g, "purge", u, "reset", job.phone, 0)
               ELSE procs' = procs
          [] job.kind = "email_reset" ->
               Begin(g, "purge", job.user, "email_reset", NoPhone, 0)
          [] job.kind = "deliver" ->
               procs' = [procs EXCEPT ![g] = [Idle EXCEPT !.pc = "send", !.code = job.code]]
     /\ UNCHANGED <<clock, phone, codes, sent, resets>>

\* issueCode: lock, read the clock, delete the rows past the retention
Purge(g) ==
  /\ procs[g].pc = "purge"
  /\ LockFree(g)
  /\ \/ codes' = [i \in DOMAIN codes |->
                    IF codes[i].at + Retention < clock
                    THEN [codes[i] EXCEPT !.state = "deleted"] ELSE codes[i]]
     \/ Errors /\ codes' = codes
  /\ procs' = [procs EXCEPT ![g].pc = "cooldown", ![g].at = clock]
  /\ UNCHANGED <<clock, phone, queue, sent, resets>>

\* the codes issued within the span: to the number, or to the user by email
Counted(g, span) ==
  {i \in Stored : /\ IF procs[g].purpose = "email_reset"
                     THEN /\ codes[i].purpose = "email_reset"
                          /\ codes[i].user = procs[g].user
                     ELSE codes[i].phone = procs[g].phone
                  /\ codes[i].at + span > procs[g].at}

CheckCooldown(g) ==
  /\ procs[g].pc = "cooldown"
  /\ IF Counted(g, Cooldown) = {} THEN Goto(g, "hourly") ELSE Return(g)
  /\ UNCHANGED <<clock, phone, codes, queue, sent, resets>>

\* mutant: one code more than the cap
CheckHourlyOneMore(g) ==
  /\ procs[g].pc = "hourly"
  /\ IF Cardinality(Counted(g, Hour)) <= MaxPerHour THEN Goto(g, "supersede") ELSE Return(g)
  /\ UNCHANGED <<clock, phone, codes, queue, sent, resets>>

CheckHourly(g) ==
  /\ procs[g].pc = "hourly"
  /\ IF Cardinality(Counted(g, Hour)) < MaxPerHour THEN Goto(g, "supersede") ELSE Return(g)
  /\ UNCHANGED <<clock, phone, codes, queue, sent, resets>>

\* the transaction that issues the code: the live ones are invalidated ...
Supersede(g) ==
  LET p == procs[g]
  IN /\ p.pc = "supersede"
     /\ procs' = [procs EXCEPT ![g].pc = "create", ![g].seen = LiveOf(p.user, p.purpose)]
     /\ UNCHANGED <<clock, phone, codes, queue, sent, resets>>

NewRow(g) ==
  LET p == procs[g]
  IN [user |-> p.user, phone |-> p.phone, purpose |-> p.purpose,
      at |-> p.at, attempts |-> 0, state |-> "live"]

\* a worker goes on to send the new code, a handler hands it over
Issued(g) ==
  /\ codes' = Append(Invalidated({i \in procs[g].seen : Live(i)}), NewRow(g))
  /\ procs' = [procs EXCEPT
       ![g] = [Idle EXCEPT !.pc = IF g \in Workers THEN "send" ELSE "enqueue",
                           !.code = Len(codes) + 1]]

\* mutant: no unique index of live codes
CreateUnindexed(g) ==
  /\ procs[g].pc = "create"
  /\ Issued(g)
  /\ UNCHANGED <<clock, phone, queue, sent, resets>>

\* ... and the new one inserted, unless another live one got in between: the
\* unique index of live codes then fails the transaction
Create(g) ==
  LET p == procs[g]
  IN /\ p.pc = "create"
     /\ IF LiveOf(p.user, p.purpose) \subseteq p.seen THEN Issued(g)
        ELSE Return(g) /\ codes' = codes
     /\ UNCHANGED <<clock, phone, queue, sent, resets>>

\* mutant: a code that finds the queue full is left as it is
HandOverOrForget(g) ==
  LET i == Instance[g]
  IN /\ procs[g].pc = "enqueue"
     /\ Enqueue(i, [kind |-> "deliver", code |-> procs[g].code])
     /\ Return(g)
     /\ UNCHANGED <<clock, phone, codes, sent, resets>>

\* RequestChangeCode: the code goes to the workers, or is retired
HandOver(g) ==
  LET i == Instance[g]
  IN /\ procs[g].pc = "enqueue"
     /\ Enqueue(i, [kind |-> "deliver", code |-> procs[g].code])
     /\ IF Len(queue[i]) < QueueSize THEN Return(g) ELSE Goto(g, "undo")
     /\ UNCHANGED <<clock, phone, codes, sent, resets>>

\* deliver: the message arrives or not, and is known to have arrived or not
Send(g) ==
  /\ procs[g].pc = "send"
  /\ \/ sent' = sent \cup {procs[g].code} /\ Return(g)
     \/ sent' = sent \cup {procs[g].code} /\ Goto(g, "undo")
     \/ sent' = sent /\ Goto(g, "undo")
  /\ UNCHANGED <<clock, phone, codes, queue, resets>>

\* invalidate, without the lock
Undo(g) ==
  /\ procs[g].pc = "undo"
  /\ codes' = Invalidated({i \in {procs[g].code} : Live(i)})
  /\ Return(g)
  /\ UNCHANGED <<clock, phone, queue, sent, resets>>

-----------------------------------------------------------------------------
\* Redeeming a code

\* ConfirmReset by the number, ConfirmEmailReset, ChangeWithCode signed in;
\* the digits are wrong, or those of a code the user received
StartRedeem(g) ==
  /\ g \in Handlers /\ procs[g].pc = "idle"
  /\ codes # <<>>
  /\ \E u \in Users, purpose \in Asks, guess \in {0} \cup sent :
       /\ purpose = "reset" => OwnersOf(phone[u]) = {u}
       /\ Begin(g, "find", u, purpose, NoPhone, guess)
  /\ UNCHANGED <<clock, phone, codes, queue, sent, resets>>

\* lock, load the newest live code and look at it
Find(g) ==
  LET p == procs[g]
      live == LiveOf(p.user, p.purpose)
  IN /\ p.pc = "find"
     /\ LockFree(g)
     /\ IF live = {} THEN Return(g)
        ELSE \E i \in live :
               /\ \A j \in live : codes[j].at <= codes[i].at
               /\ procs' = [procs EXCEPT
                    ![g].code = i, ![g].tries = codes[i].attempts,
                    ![g].pc = IF \/ codes[i].at + CodeTTL <= clock
                                 \/ codes[i].attempts >= MaxAttempts
                              THEN "retire"
                              ELSE IF p.guess = i THEN "redeem" ELSE "miss"]
     /\ UNCHANGED <<clock, phone, codes, queue, sent, resets>>

\* expired or out of attempts: invalidated_at is set whatever became of the row
Retire(g) ==
  /\ procs[g].pc = "retire"
  /\ codes' = Invalidated({i \in {procs[g].code} : Live(i)})
  /\ Return(g)
  /\ UNCHANGED <<clock, phone, queue, sent, resets>>

\* a wrong guess is counted, and kills the code at MaxAttempts
Miss(g) ==
  LET p == procs[g]
      c == codes[p.code]
  IN /\ p.pc = "miss"
     /\ codes' = IF c.state \in {"used", "deleted"} THEN codes
                 ELSE [codes EXCEPT
                        ![p.code].attempts = @ + 1,
                        ![p.code].state = IF p.tries + 1 >= MaxAttempts THEN "invalid"
                                          ELSE @]
     /\ Return(g)
     /\ UNCHANGED <<clock, phone, queue, sent, resets>>

\* setPassword: the history of the password set with the code in hand
Recorded(g) ==
  resets' = Append(resets, [code |-> procs[g].code, known |-> Len(codes)])

Used(g) == [codes EXCEPT ![procs[g].code].state = "used"]

\* mutant: used_at is set without looking
RedeemBlindly(g) ==
  /\ procs[g].pc = "redeem"
  /\ codes' = Used(g)
  /\ Recorded(g)
  /\ Return(g)
  /\ UNCHANGED <<clock, phone, queue, sent>>

\* mutant: the other codes are left alone
SweptNothing(g) == Used(g)

\* finishEmailReset: no other code of the account stays usable
Swept(g) ==
  IF procs[g].purpose = "email_reset"
  THEN [i \in DOMAIN codes |->
          IF i # procs[g].code /\ codes[i].user = procs[g].user /\ Live(i)
          THEN [codes[i] EXCEPT !.state = "invalid"] ELSE Used(g)[i]]
  ELSE Used(g)

\* the transaction: the code is used up and the password set, both or neither
Redeem(g) ==
  /\ procs[g].pc = "redeem"
  /\ IF Live(procs[g].code) THEN codes' = Swept(g) /\ Recorded(g)
     ELSE UNCHANGED <<codes, resets>>
  /\ Return(g)
  /\ UNCHANGED <<clock, phone, queue, sent>>

-----------------------------------------------------------------------------
\* UpdateMe: any user may enter any number
MovePhone(u) ==
  /\ PhonesMove
  /\ \E ph \in Phones : phone' = [phone EXCEPT ![u] = ph]
  /\ UNCHANGED <<clock, codes, queue, procs, sent, resets>>

\* a statement fails: of the lookup ("purge", "find"), of the rest, or of
\* invalidate, whose error nobody looks at
Abort(g) ==
  /\ Errors
  /\ procs[g].pc \notin {"idle", "enqueue", "send"}
  /\ Return(g)
  /\ UNCHANGED <<clock, phone, codes, queue, sent, resets>>

\* an instance dies and comes back
Restart(i) ==
  /\ Errors
  /\ procs' = [g \in Goroutines |-> IF Instance[g] = i THEN Idle ELSE procs[g]]
  /\ queue' = [queue EXCEPT ![i] = <<>>]
  /\ UNCHANGED <<clock, phone, codes, sent, resets>>

Tick ==
  /\ clock < MaxTime
  /\ clock' = clock + 1
  /\ UNCHANGED <<phone, codes, queue, procs, sent, resets>>

Advance(g) ==
  \/ CheckCooldown(g) \/ CheckHourly(g) \/ Supersede(g) \/ Create(g)
  \/ HandOver(g) \/ Send(g) \/ Undo(g)
  \/ Retire(g) \/ Miss(g) \/ Redeem(g)

Next ==
  \/ \E i \in Instances : AskReset(i) \/ Restart(i)
  \/ \E g \in Goroutines :
       \/ AskChange(g) \/ StartRedeem(g) \/ TakeJob(g)
       \/ Purge(g) \/ Find(g) \/ Advance(g) \/ Abort(g)
  \/ \E u \in Users : MovePhone(u)
  \/ Tick

Spec == Init /\ [][Next]_vars

\* goroutines run, a waiting lock is eventually had (sync.Mutex does not
\* starve), statements return
Fairness ==
  \A g \in Goroutines :
    /\ WF_vars(TakeJob(g)) /\ WF_vars(Advance(g))
    /\ SF_vars(Purge(g)) /\ SF_vars(Find(g))

FairSpec == Spec /\ Fairness

-----------------------------------------------------------------------------
\* Every variable has its shape, and a code in hand is a row that exists.
TypeOK ==
  /\ clock \in 0..MaxTime
  /\ phone \in [Users -> Phones]
  /\ codes \in Seq(Codes)
  /\ queue \in [Instances -> Seq(Jobs)]
  /\ \A i \in Instances : Len(queue[i]) <= QueueSize
  /\ procs \in [Goroutines -> ProcStates]
  /\ \A g \in Goroutines :
       procs[g].pc \in {"enqueue", "send", "undo", "retire", "miss", "redeem"}
       => procs[g].code \in DOMAIN codes
  /\ sent \subseteq DOMAIN codes
  /\ resets \in Seq([code : Nat, known : Nat])

\* "at most MaxAttempts wrong guesses" (service.go:7), within one instance:
\* guesses at one code are counted one at a time and stop at the cap.
GuessLimit == \A i \in DOMAIN codes : codes[i].attempts <= MaxAttempts

SameCounter(i, j) ==
  IF codes[i].purpose = "email_reset"
  THEN codes[j].purpose = "email_reset" /\ codes[i].user = codes[j].user
  ELSE codes[j].purpose # "email_reset" /\ codes[i].phone = codes[j].phone

\* "Per phone: one code per ResendCooldown, at most MaxPerHour"
\* (service.go:8-9), and the same per account for codes sent by email,
\* whatever became of the codes and whatever number the account has moved to
\* meanwhile.  It holds through every overlap of the handlers and workers that
\* issue to one account, whose lock they share, and not for two accounts that
\* share a number and ask at once.
CodesLimited ==
  /\ \A i, j \in DOMAIN codes :
       i < j /\ SameCounter(i, j) => codes[i].at + Cooldown <= codes[j].at
  /\ \A i \in DOMAIN codes :
       Cardinality({j \in DOMAIN codes : /\ SameCounter(i, j)
                                         /\ codes[i].at <= codes[j].at
                                         /\ codes[j].at < codes[i].at + Hour})
         <= MaxPerHour

\* "At most one code per user and purpose is live at a time ... even two
\* concurrent requests can't leave two usable codes behind"
\* (password_reset_code.go:20-22): also between two instances.
OneLive ==
  \A i, j \in DOMAIN codes :
    /\ Live(i) /\ Live(j)
    /\ codes[i].user = codes[j].user /\ codes[i].purpose = codes[j].purpose
    => i = j

\* "single use" (service.go:7): no code sets two passwords, whichever
\* instances two guesses run in.
CodeSpentOnce ==
  \A m, n \in DOMAIN resets : resets[m].code = resets[n].code => m = n

\* "a new code invalidates the previous one" (service.go:7-8): when a password
\* is set, no code of that user and purpose has been issued since, even though
\* the guess was compared in an earlier step.
NewestCodeOnly ==
  \A n \in DOMAIN resets :
    LET r == resets[n]
    IN \A i \in (r.code + 1)..r.known :
         codes[i].user = codes[r.code].user
         => codes[i].purpose # codes[r.code].purpose

\* "no other reset code of the account stays usable" (email.go:74-75): after a
\* reset by email, no code the account had by then sets a password.
EmailResetSweeps ==
  \A m, n \in DOMAIN resets :
    LET c == resets[m].code
        d == resets[n].code
    IN /\ m < n
       /\ codes[c].purpose = "email_reset" /\ codes[d].user = codes[c].user
       => d > resets[m].known

\* the code is waiting to be handed over, sent or retired
InDelivery(i) ==
  \/ \E g \in Goroutines : /\ procs[g].code = i
                          /\ procs[g].pc \in {"enqueue", "send", "undo"}
  \/ \E k \in Instances : \E n \in DOMAIN queue[k] :
       queue[k][n] = [kind |-> "deliver", code |-> i]

\* "a code the user never received must never stay redeemable"
\* (service.go:344-345): a live code is received, or on its way.
UndeliveredDies == \A i \in DOMAIN codes : Live(i) => i \in sent \/ InDelivery(i)

\* The same as a promise of the workers: while no statement fails and no
\* instance dies, every code is received or retired.
DeliveryResolved ==
  \A i \in 1..MaxCodes :
    (i \in DOMAIN codes /\ Live(i))
      ~> (i \in sent \/ (i \in DOMAIN codes /\ ~Live(i)))
=============================================================================
