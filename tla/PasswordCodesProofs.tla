------------------------- MODULE PasswordCodesProofs -------------------------
(* What holds of the one-time codes for any number of users, handlers,       *)
(* workers, instances and codes, and any limits: one live code per user and  *)
(* purpose, the newest; single use; the sweep of a reset by email.           *)
EXTENDS PasswordCodes, FiniteSetTheorems, SequenceTheorems, TLAPS

\* one lock for every call of a user
SingleInstance == \A g, h \in Goroutines : Instance[g] = Instance[h]

\* one lock for all calls
SingleAccount == \A u, v \in Users : u = v

\* a job that delivers names a row
JobsKnown ==
  \A k \in Instances : \A n \in DOMAIN queue[k] :
    queue[k][n].kind = "deliver" => queue[k][n].code \in DOMAIN codes

\* the row in hand is of the user who redeems, and of the right purpose
RightCode ==
  \A g \in Goroutines :
    procs[g].pc \in {"retire", "miss", "redeem"} =>
      /\ codes[procs[g].code].user = procs[g].user
      /\ codes[procs[g].code].purpose = procs[g].purpose

\* two calls of a user in one instance do not hold the lock together
LockHeld ==
  \A g, h \in Goroutines :
    /\ g # h
    /\ Instance[g] = Instance[h] /\ procs[g].user = procs[h].user
    => ~ (procs[g].pc \in UnderLock /\ procs[h].pc \in UnderLock)

\* a code that is followed by another of its user and purpose is dead
NewestLive ==
  \A i, j \in DOMAIN codes :
    i < j /\ codes[i].user = codes[j].user /\ codes[i].purpose = codes[j].purpose
    => ~ Live(i)

Spent(i) == codes[i].state \in {"used", "deleted"}

\* a code that set a password was a row then, and is spent
ResetsSpent ==
  \A n \in DOMAIN resets :
    /\ resets[n].code \in DOMAIN codes /\ Spent(resets[n].code)
    /\ resets[n].known <= Len(codes)

\* a reset by email leaves no live code of the account behind
SweptDead ==
  \A m \in DOMAIN resets :
    codes[resets[m].code].purpose = "email_reset" =>
      \A i \in 1..resets[m].known :
        codes[i].user = codes[resets[m].code].user => ~ Live(i)

IndInv ==
  /\ TypeOK
  /\ JobsKnown
  /\ RightCode
  /\ LockHeld
  /\ NewestLive
  /\ ResetsSpent
  /\ SweptDead
  /\ CodeSpentOnce
  /\ NewestCodeOnly
  /\ EmailResetSweeps

-----------------------------------------------------------------------------
\* The calls, and the jobs, with what they hold.
ProcsOK ==
  /\ procs \in [Goroutines -> ProcStates]
  /\ \A g \in Goroutines :
       procs[g].pc \in {"enqueue", "send", "undo", "retire", "miss", "redeem"}
       => procs[g].code \in DOMAIN codes
  /\ RightCode
  /\ LockHeld

QueueOK ==
  /\ queue \in [Instances -> Seq(Jobs)]
  /\ \A i \in Instances : Len(queue[i]) <= QueueSize
  /\ JobsKnown

\* What any step does to the rows: whose they are, of what and when does not
\* change, a dead code stays dead, and a spent one spent.
Onward ==
  /\ codes' \in Seq(Codes)
  /\ Len(codes) <= Len(codes')
  /\ \A i \in DOMAIN codes :
       /\ codes'[i].user = codes[i].user
       /\ codes'[i].purpose = codes[i].purpose
       /\ codes'[i].state \in {codes[i].state, "deleted"} \/ codes[i].state = "live"

-----------------------------------------------------------------------------
\* What the type invariant says of the elements.
LEMMA Shapes ==
  ASSUME TypeOK
  PROVE  /\ codes \in Seq(Codes)
         /\ DOMAIN codes = 1..Len(codes) /\ Len(codes) \in Nat
         /\ \A i \in DOMAIN codes :
              /\ codes[i] \in Codes /\ codes[i].user \in Users
              /\ codes[i].purpose \in Purposes /\ codes[i].at \in Nat
              /\ codes[i].attempts \in Nat
              /\ codes[i].state \in {"live", "used", "invalid", "deleted"}
         /\ DOMAIN resets = 1..Len(resets) /\ Len(resets) \in Nat
         /\ \A n \in DOMAIN resets : resets[n].code \in Nat /\ resets[n].known \in Nat
         /\ procs \in [Goroutines -> ProcStates]
         /\ \A g \in Goroutines :
              /\ procs[g] \in ProcStates /\ procs[g].user \in Users
              /\ procs[g].purpose \in Purposes /\ procs[g].at \in Nat
              /\ procs[g].code \in Nat /\ procs[g].tries \in Nat
              /\ procs[g].guess \in Nat
              /\ procs[g].phone \in Phones \cup {NoPhone}
         /\ clock \in Nat
<1> DEFINE Resets == [code : Nat, known : Nat]
<1>1. codes \in Seq(Codes) /\ DOMAIN codes = 1..Len(codes) /\ Len(codes) \in Nat
  BY LenProperties DEF TypeOK
<1>2. \A i \in DOMAIN codes : codes[i] \in Codes
  BY <1>1
<1>3. \A c \in Codes : /\ c.user \in Users /\ c.purpose \in Purposes /\ c.at \in Nat
                       /\ c.attempts \in Nat
                       /\ c.state \in {"live", "used", "invalid", "deleted"}
  BY DEF Codes
<1>4. resets \in Seq(Resets)
  BY DEF TypeOK
<1>5. DOMAIN resets = 1..Len(resets) /\ Len(resets) \in Nat
  BY <1>4, LenProperties
<1>6. \A n \in DOMAIN resets : resets[n] \in Resets
  <2> HIDE DEF Resets
  <2> QED BY <1>4, <1>5
<1>7. procs \in [Goroutines -> ProcStates]
  BY DEF TypeOK
<1>8. \A q \in ProcStates :
        /\ q.user \in Users /\ q.purpose \in Purposes /\ q.at \in Nat
        /\ q.code \in Nat /\ q.tries \in Nat /\ q.guess \in Nat
        /\ q.phone \in Phones \cup {NoPhone}
  BY DEF ProcStates
<1>9. clock \in Nat
  BY BoundsAssumption DEF TypeOK
<1> QED BY <1>1, <1>2, <1>3, <1>5, <1>6, <1>7, <1>8, <1>9

LEMMA IdleTyped ==
  /\ Idle \in ProcStates /\ Idle.pc = "idle"
  /\ Idle.user \in Users /\ Idle.code = 0
<1> DEFINE u == CHOOSE u \in Users : TRUE
<1>1. u \in Users
  BY UsersAssumption
<1> HIDE DEF u
<1>2. Idle = [pc |-> "idle", user |-> u, purpose |-> "reset",
              phone |-> NoPhone, at |-> 0, code |-> 0, guess |-> 0,
              tries |-> 0, seen |-> {}]
  BY DEF Idle, u
<1> QED BY <1>1, <1>2 DEF ProcStates, Purposes

\* Sequences given by what becomes of each element.
LEMMA MappedSeq ==
  ASSUME NEW S, NEW s \in Seq(S), NEW t,
         t = [i \in DOMAIN s |-> t[i]], \A i \in DOMAIN s : t[i] \in S
  PROVE  /\ t \in Seq(S) /\ Len(t) = Len(s) /\ DOMAIN t = DOMAIN s
<1>1. DOMAIN s = 1..Len(s) /\ Len(s) \in Nat
  BY LenProperties
<1>2. t \in [1..Len(s) -> S]
  BY <1>1, Zenon
<1>3. t \in Seq(S)
  BY <1>1, <1>2, SeqDef
<1> QED BY <1>1, <1>2, <1>3, LenProperties

-----------------------------------------------------------------------------
\* The invariant is kept by whatever moves the rows onward and keeps one live.
LEMMA TablesKeep ==
  ASSUME IndInv, Onward, NewestLive', resets' = resets,
         clock' \in 0..MaxTime, phone' \in [Users -> Phones],
         QueueOK', ProcsOK', sent' \subseteq DOMAIN codes'
  PROVE  IndInv'
<1>1. TypeOK' /\ JobsKnown' /\ RightCode' /\ LockHeld'
  BY DEF IndInv, TypeOK, QueueOK, ProcsOK, Onward
<1>2. /\ DOMAIN codes = 1..Len(codes) /\ Len(codes) \in Nat
      /\ DOMAIN codes' = 1..Len(codes') /\ Len(codes') \in Nat
      /\ \A n \in DOMAIN resets : resets[n].code \in Nat /\ resets[n].known \in Nat
  BY Shapes, LenProperties DEF IndInv, Onward
<1>3. \A i \in DOMAIN codes : i \in DOMAIN codes'
  BY <1>2 DEF Onward
<1>4. \A i \in DOMAIN codes : (~ Live(i) => ~ Live(i)') /\ (Spent(i) => Spent(i)')
  BY DEF Onward, Live, Spent
<1>5. \A n \in DOMAIN resets : resets[n].code \in DOMAIN codes
                               /\ \A i \in 1..resets[n].known : i \in DOMAIN codes
  BY <1>2 DEF IndInv, ResetsSpent
<1>6. ResetsSpent'
  <2>1. \A n \in DOMAIN resets : resets[n].known <= Len(codes')
    BY <1>2 DEF IndInv, ResetsSpent, Onward
  <2> QED BY <1>3, <1>4, <1>5, <2>1 DEF IndInv, ResetsSpent
<1>7. SweptDead'
  BY <1>4, <1>5 DEF IndInv, SweptDead, Onward
<1>8. CodeSpentOnce'
  BY DEF IndInv, CodeSpentOnce
<1>9. NewestCodeOnly'
  <2> SUFFICES ASSUME NEW n \in DOMAIN resets,
                      NEW i \in (resets[n].code + 1)..resets[n].known,
                      codes'[i].user = codes'[resets[n].code].user
               PROVE  codes'[i].purpose # codes'[resets[n].code].purpose
    BY DEF NewestCodeOnly
  <2>1. i \in DOMAIN codes /\ resets[n].code \in DOMAIN codes
    BY <1>2, <1>5
  <2> QED BY <2>1 DEF IndInv, NewestCodeOnly, Onward
<1>10. EmailResetSweeps'
  BY <1>5 DEF IndInv, EmailResetSweeps, Onward
<1> QED BY <1>1, <1>6, <1>7, <1>8, <1>9, <1>10 DEF IndInv

LEMMA QueueStays ==
  ASSUME IndInv, Onward, queue' = queue
  PROVE  QueueOK'
<1>1. \A i \in DOMAIN codes : i \in DOMAIN codes'
  BY Shapes, LenProperties DEF Onward, IndInv
<1> QED BY <1>1 DEF QueueOK, JobsKnown, IndInv, TypeOK

LEMMA RowsStay ==
  ASSUME IndInv, codes' = codes
  PROVE  Onward /\ NewestLive'
BY Shapes DEF Onward, IndInv, NewestLive, Live

LEMMA NoneAdded ==
  ASSUME IndInv, Onward, Len(codes') = Len(codes)
  PROVE  NewestLive'
<1>1. DOMAIN codes' = DOMAIN codes
  BY Shapes, LenProperties DEF Onward, IndInv
<1> QED BY <1>1 DEF NewestLive, Live, Onward, IndInv

\* One call moves; it comes under the lock only when the lock is free.
LEMMA CallKeeps ==
  ASSUME IndInv, Onward, NEW g \in Goroutines, NEW new \in ProcStates,
         procs' = [procs EXCEPT ![g] = new],
         new.pc \in {"enqueue", "send", "undo", "retire", "miss", "redeem"}
           => new.code \in DOMAIN codes',
         new.pc \in {"retire", "miss", "redeem"}
           => /\ codes'[new.code].user = new.user
              /\ codes'[new.code].purpose = new.purpose,
         new.pc \in UnderLock
           => /\ new.user = procs[g].user
              /\ procs[g].pc \in UnderLock \/ LockFree(g)
  PROVE  ProcsOK'
<1>1. /\ procs \in [Goroutines -> ProcStates]
      /\ DOMAIN codes = 1..Len(codes) /\ Len(codes) \in Nat
      /\ DOMAIN codes' = 1..Len(codes') /\ Len(codes') \in Nat
  BY Shapes, LenProperties DEF IndInv, Onward
<1>2. \A i \in DOMAIN codes : i \in DOMAIN codes'
  BY <1>1 DEF Onward
<1>3. \A h \in Goroutines : h # g => procs'[h] = procs[h]
  BY <1>1
<1>4. procs'[g] = new /\ procs' \in [Goroutines -> ProcStates]
  BY <1>1
<1>5. \A h \in Goroutines :
        procs'[h].pc \in {"enqueue", "send", "undo", "retire", "miss", "redeem"}
        => procs'[h].code \in DOMAIN codes'
  BY <1>2, <1>3, <1>4 DEF IndInv, TypeOK
<1>6. RightCode'
  <2>1. \A h \in Goroutines : procs[h].pc \in {"retire", "miss", "redeem"} =>
                              procs[h].code \in DOMAIN codes
    BY DEF IndInv, TypeOK
  <2> QED BY <1>3, <1>4, <2>1 DEF IndInv, RightCode, Onward
<1>7. LockHeld'
  <2> SUFFICES ASSUME NEW h \in Goroutines, h # g, new.pc \in UnderLock,
                      Instance[g] = Instance[h], new.user = procs[h].user
               PROVE  procs[h].pc \notin UnderLock
    BY <1>3, <1>4 DEF LockHeld, IndInv
  <2>1. CASE procs[g].pc \in UnderLock
    BY <2>1 DEF IndInv, LockHeld
  <2>2. CASE LockFree(g)
    BY <2>2 DEF LockFree
  <2> QED BY <2>1, <2>2
<1> QED BY <1>4, <1>5, <1>6, <1>7 DEF ProcsOK

\* A call moves and the rows stay.
LEMMA MoveKeeps ==
  ASSUME IndInv, NEW g \in Goroutines, NEW new \in ProcStates,
         procs' = [procs EXCEPT ![g] = new],
         new.pc \in {"enqueue", "send", "undo", "retire", "miss", "redeem"}
           => new.code \in DOMAIN codes,
         new.pc \in {"retire", "miss", "redeem"}
           => /\ codes[new.code].user = new.user
              /\ codes[new.code].purpose = new.purpose,
         new.pc \in UnderLock
           => /\ new.user = procs[g].user
              /\ procs[g].pc \in UnderLock \/ LockFree(g),
         UNCHANGED <<clock, phone, codes, resets>>,
         QueueOK',
         sent' \subseteq DOMAIN codes'
  PROVE  IndInv'
<1>1. Onward /\ NewestLive'
  BY RowsStay
<1>2. ProcsOK'
  BY <1>1, CallKeeps
<1>3. clock' \in 0..MaxTime /\ phone' \in [Users -> Phones]
  BY DEF IndInv, TypeOK
<1> QED BY <1>1, <1>2, <1>3, TablesKeep

\* A call ends, in a step that may write rows.
LEMMA ReturnKeeps ==
  ASSUME IndInv, NEW g \in Goroutines, Return(g), Onward, NewestLive',
         UNCHANGED <<clock, phone, queue, resets>>, sent' \subseteq DOMAIN codes'
  PROVE  IndInv'
<1>1. procs' = [procs EXCEPT ![g] = Idle]
  BY DEF Return
<1>2. ProcsOK'
  BY <1>1, IdleTyped, CallKeeps DEF UnderLock
<1>3. clock' \in 0..MaxTime /\ phone' \in [Users -> Phones]
  BY DEF IndInv, TypeOK
<1> QED BY <1>2, <1>3, QueueStays, TablesKeep

\* Rows some of which a step invalidates.
LEMMA InvalidatedKeeps ==
  ASSUME IndInv, NEW S, \A i \in S : i \in DOMAIN codes => Live(i)
  PROVE  /\ Invalidated(S) \in Seq(Codes) /\ Len(Invalidated(S)) = Len(codes)
         /\ DOMAIN Invalidated(S) = DOMAIN codes
         /\ \A i \in DOMAIN codes :
              LET c == Invalidated(S)[i]
              IN /\ c.user = codes[i].user /\ c.purpose = codes[i].purpose
                 /\ c.phone = codes[i].phone /\ c.at = codes[i].at
                 /\ c.attempts = codes[i].attempts
                 /\ c.state = codes[i].state \/ codes[i].state = "live"
                 /\ (c.state = "deleted") <=> (codes[i].state = "deleted")
                 /\ i \in S => c.state = "invalid"
<1> DEFINE rows == Invalidated(S)
<1>1. rows = [i \in DOMAIN codes |-> rows[i]]
  BY DEF Invalidated
<1>2. codes \in Seq(Codes) /\ \A i \in DOMAIN codes : codes[i] \in Codes
  BY Shapes DEF IndInv
<1>3. \A c \in Codes : LET d == [c EXCEPT !.state = "invalid"]
                       IN /\ d \in Codes /\ d.user = c.user /\ d.purpose = c.purpose
                          /\ d.phone = c.phone /\ d.at = c.at
                          /\ d.attempts = c.attempts /\ d.state = "invalid"
  BY DEF Codes
<1>4. \A i \in DOMAIN codes :
        rows[i] = IF i \in S THEN [codes[i] EXCEPT !.state = "invalid"] ELSE codes[i]
  BY DEF Invalidated
<1> HIDE DEF rows
<1>5. \A i \in DOMAIN codes :
        /\ rows[i] \in Codes
        /\ rows[i].user = codes[i].user /\ rows[i].purpose = codes[i].purpose
        /\ rows[i].phone = codes[i].phone /\ rows[i].at = codes[i].at
        /\ rows[i].attempts = codes[i].attempts
        /\ rows[i].state = codes[i].state \/ codes[i].state = "live"
        /\ rows[i].state = "deleted" <=> codes[i].state = "deleted"
        /\ i \in S => rows[i].state = "invalid"
  <2> SUFFICES ASSUME NEW i \in DOMAIN codes
               PROVE  /\ rows[i] \in Codes
                      /\ rows[i].user = codes[i].user /\ rows[i].purpose = codes[i].purpose
                      /\ rows[i].phone = codes[i].phone /\ rows[i].at = codes[i].at
                      /\ rows[i].attempts = codes[i].attempts
                      /\ rows[i].state = codes[i].state \/ codes[i].state = "live"
                      /\ rows[i].state = "deleted" <=> codes[i].state = "deleted"
                      /\ i \in S => rows[i].state = "invalid"
    OBVIOUS
  <2>1. CASE i \in S
    <3>1. rows[i] = [codes[i] EXCEPT !.state = "invalid"] /\ codes[i].state = "live"
      BY <1>4, <2>1 DEF Live
    <3> QED BY <1>2, <1>3, <3>1
  <2>2. CASE i \notin S
    BY <1>2, <1>4, <2>2
  <2> QED BY <2>1, <2>2
<1>6. rows \in Seq(Codes) /\ Len(rows) = Len(codes) /\ DOMAIN rows = DOMAIN codes
  BY <1>1, <1>2, <1>5, MappedSeq
<1> QED BY <1>5, <1>6 DEF rows

-----------------------------------------------------------------------------
\* Asking for a code
LEMMA EnqueueTyped ==
  ASSUME IndInv, NEW k \in Instances, NEW job \in Jobs, Enqueue(k, job),
         job.kind = "deliver" => job.code \in DOMAIN codes,
         codes' = codes
  PROVE  QueueOK'
<1>1. queue \in [Instances -> Seq(Jobs)] /\ JobsKnown
      /\ \A i \in Instances : Len(queue[i]) <= QueueSize
  BY DEF IndInv, TypeOK
<1>2. CASE queue' = queue
  BY <1>1, <1>2 DEF QueueOK, JobsKnown
<1>3. CASE Len(queue[k]) < QueueSize
           /\ queue' = [queue EXCEPT ![k] = Append(queue[k], job)]
  <2>1. /\ queue[k] \in Seq(Jobs) /\ Len(queue[k]) \in Nat /\ QueueSize \in Nat
        /\ Append(queue[k], job) \in Seq(Jobs)
        /\ Len(Append(queue[k], job)) = Len(queue[k]) + 1
    BY <1>1, LimitsAssumption
  <2>2. queue' \in [Instances -> Seq(Jobs)]
        /\ \A i \in Instances : Len(queue'[i]) <= QueueSize
    BY <1>1, <1>3, <2>1
  <2>3. \A n \in DOMAIN queue'[k] :
          \/ n \in DOMAIN queue[k] /\ queue'[k][n] = queue[k][n]
          \/ queue'[k][n] = job
    BY <1>1, <1>3, <2>1
  <2>4. JobsKnown'
    BY <1>1, <1>3, <2>3 DEF JobsKnown
  <2> QED BY <2>2, <2>4 DEF QueueOK
<1> QED BY <1>2, <1>3 DEF Enqueue

LEMMA ProcsStay ==
  ASSUME IndInv, UNCHANGED <<codes, procs>>
  PROVE  ProcsOK'
BY DEF IndInv, ProcsOK, TypeOK, RightCode, LockHeld

LEMMA AskResetKeeps ==
  ASSUME IndInv, NEW k \in Instances, AskReset(k)
  PROVE  IndInv'
<1>1. UNCHANGED <<clock, phone, codes, procs, sent, resets>>
  BY DEF AskReset
<1>2. PICK job \in Jobs : Enqueue(k, job) /\ job.kind # "deliver"
  <2>1. CASE \E ph \in Phones : Enqueue(k, [kind |-> "reset", phone |-> ph])
    <3>1. PICK ph \in Phones : Enqueue(k, [kind |-> "reset", phone |-> ph])
      BY <2>1
    <3>2. [kind |-> "reset", phone |-> ph] \in Jobs
      BY DEF Jobs
    <3> QED BY <3>1, <3>2
  <2>2. CASE \E u \in Users : Enqueue(k, [kind |-> "email_reset", user |-> u])
    <3>1. PICK u \in Users : Enqueue(k, [kind |-> "email_reset", user |-> u])
      BY <2>2
    <3>2. [kind |-> "email_reset", user |-> u] \in Jobs
      BY DEF Jobs
    <3> QED BY <3>1, <3>2
  <2> QED BY <2>1, <2>2 DEF AskReset
<1>3. QueueOK'
  BY <1>1, <1>2, EnqueueTyped
<1>4. /\ clock' \in 0..MaxTime /\ phone' \in [Users -> Phones]
      /\ sent' \subseteq DOMAIN codes' /\ resets' = resets
  BY <1>1 DEF IndInv, TypeOK
<1> QED BY <1>1, <1>3, <1>4, ProcsStay, RowsStay, TablesKeep

LEMMA BeginTyped ==
  ASSUME IndInv, NEW g \in Goroutines, NEW u \in Users, NEW purpose \in Purposes,
         NEW ph \in Phones \cup {NoPhone}, NEW guess \in Nat, NEW pc \in {"purge", "find"},
         Begin(g, pc, u, purpose, ph, guess)
  PROVE  \E new \in ProcStates :
           /\ new.pc = pc /\ new.user = u /\ new.purpose = purpose /\ new.phone = ph
           /\ procs' = [procs EXCEPT ![g] = new]
<1> DEFINE new == [Idle EXCEPT !.pc = pc, !.user = u, !.purpose = purpose,
                               !.phone = ph, !.guess = guess]
<1>1. new \in ProcStates /\ new.pc = pc /\ new.user = u /\ new.purpose = purpose
      /\ new.phone = ph
  BY IdleTyped DEF ProcStates
<1>2. procs' = [procs EXCEPT ![g] = new]
  BY DEF Begin
<1> HIDE DEF new
<1> QED BY <1>1, <1>2

LEMMA AskChangeKeeps ==
  ASSUME IndInv, NEW g \in Goroutines, AskChange(g)
  PROVE  IndInv'
<1>1. PICK u \in Users : Begin(g, "purge", u, "change", phone[u], 0)
  BY DEF AskChange
<1>2. phone[u] \in Phones \cup {NoPhone} /\ "change" \in Purposes
  BY DEF IndInv, TypeOK, Purposes
<1>3. UNCHANGED <<clock, phone, codes, queue, sent, resets>>
  BY DEF AskChange
<1>4. PICK new \in ProcStates : new.pc = "purge" /\ procs' = [procs EXCEPT ![g] = new]
  BY <1>1, <1>2, BeginTyped
<1>5. sent' \subseteq DOMAIN codes'
  BY <1>3 DEF IndInv, TypeOK
<1>6. QueueOK'
  BY <1>3, RowsStay, QueueStays
<1> QED BY <1>3, <1>4, <1>5, <1>6, MoveKeeps DEF UnderLock

\* the jobs that are left when the first is taken
LEMMA TailTyped ==
  ASSUME IndInv, NEW k \in Instances, queue[k] # <<>>,
         queue' = [queue EXCEPT ![k] = Tail(queue[k])], codes' = codes
  PROVE  /\ QueueOK' /\ Head(queue[k]) \in Jobs
         /\ Head(queue[k]).kind = "deliver" => Head(queue[k]).code \in DOMAIN codes
<1>1. /\ queue \in [Instances -> Seq(Jobs)] /\ queue[k] \in Seq(Jobs)
      /\ \A i \in Instances : Len(queue[i]) <= QueueSize
      /\ QueueSize \in Nat
  BY LimitsAssumption DEF IndInv, TypeOK
<1>2. /\ Tail(queue[k]) \in Seq(Jobs) /\ Len(queue[k]) \in Nat /\ Len(queue[k]) > 0
      /\ Len(Tail(queue[k])) = Len(queue[k]) - 1
      /\ \A n \in 1..(Len(queue[k]) - 1) : Tail(queue[k])[n] = queue[k][n + 1]
      /\ Head(queue[k]) = queue[k][1] /\ Head(queue[k]) \in Jobs
      /\ DOMAIN queue[k] = 1..Len(queue[k])
      /\ DOMAIN Tail(queue[k]) = 1..(Len(queue[k]) - 1)
  BY <1>1
<1>3. queue' \in [Instances -> Seq(Jobs)]
      /\ \A i \in Instances : Len(queue'[i]) <= QueueSize
  BY <1>1, <1>2
<1>4. \A n \in DOMAIN queue'[k] : n + 1 \in DOMAIN queue[k]
                                  /\ queue'[k][n] = queue[k][n + 1]
  BY <1>1, <1>2
<1>5. JobsKnown'
  BY <1>1, <1>4 DEF IndInv, JobsKnown
<1> QED BY <1>2, <1>3, <1>5 DEF QueueOK, IndInv, JobsKnown

LEMMA TakeJobKeeps ==
  ASSUME IndInv, NEW g \in Goroutines, TakeJob(g)
  PROVE  IndInv'
<1> DEFINE k == Instance[g]
           job == Head(queue[k])
<1>1. /\ k \in Instances /\ queue[k] # <<>>
      /\ queue' = [queue EXCEPT ![k] = Tail(queue[k])]
      /\ UNCHANGED <<clock, phone, codes, sent, resets>>
  BY DEF TakeJob, Instances
<1> HIDE DEF k
<1>2. QueueOK' /\ job \in Jobs /\ (job.kind = "deliver" => job.code \in DOMAIN codes)
  BY <1>1, TailTyped
<1>3. /\ sent' \subseteq DOMAIN codes'
      /\ clock' \in 0..MaxTime /\ phone' \in [Users -> Phones]
  BY <1>1 DEF IndInv, TypeOK
<1>4. CASE procs' = procs
  BY <1>1, <1>2, <1>3, <1>4, ProcsStay, RowsStay, TablesKeep
<1>5. CASE job.kind = "reset" /\ \E u \in OwnersOf(job.phone) :
                                   Begin(g, "purge", u, "reset", job.phone, 0)
  <2>1. PICK u \in Users : Begin(g, "purge", u, "reset", job.phone, 0)
    BY <1>5 DEF OwnersOf
  <2>2. job.phone \in Phones \cup {NoPhone} /\ "reset" \in Purposes
    BY <1>2, <1>5 DEF Jobs, Purposes
  <2>3. PICK new \in ProcStates : new.pc = "purge" /\ procs' = [procs EXCEPT ![g] = new]
    BY <2>1, <2>2, BeginTyped
  <2> QED BY <1>1, <1>2, <1>3, <2>3, MoveKeeps DEF UnderLock
<1>6. CASE job.kind = "email_reset"
           /\ Begin(g, "purge", job.user, "email_reset", NoPhone, 0)
  <2>1. job.user \in Users /\ "email_reset" \in Purposes /\ NoPhone \in Phones \cup {NoPhone}
    BY <1>2, <1>6 DEF Jobs, Purposes
  <2>2. \E new \in ProcStates : new.pc = "purge" /\ procs' = [procs EXCEPT ![g] = new]
    <3> HIDE DEF job
    <3>1. PICK u \in Users : Begin(g, "purge", u, "email_reset", NoPhone, 0)
      BY <1>6, <2>1
    <3> QED BY <2>1, <3>1, BeginTyped
  <2> QED BY <1>1, <1>2, <1>3, <2>2, MoveKeeps DEF UnderLock
<1>7. CASE job.kind = "deliver"
           /\ procs' = [procs EXCEPT ![g] = [Idle EXCEPT !.pc = "send", !.code = job.code]]
  <2> DEFINE new == [Idle EXCEPT !.pc = "send", !.code = job.code]
  <2>1. job.code \in Nat /\ job.code \in DOMAIN codes
    BY <1>2, <1>7, Shapes DEF IndInv
  <2>2. new \in ProcStates /\ new.pc = "send" /\ new.code = job.code
    BY <2>1, IdleTyped DEF ProcStates
  <2>3. procs' = [procs EXCEPT ![g] = new]
    BY <1>7
  <2> HIDE DEF new, job
  <2> QED BY <1>1, <1>2, <1>3, <2>1, <2>2, <2>3, MoveKeeps DEF UnderLock
<1>8. job.kind \in {"reset", "email_reset", "deliver"}
  BY <1>2 DEF Jobs
<1> QED BY <1>4, <1>5, <1>6, <1>7, <1>8 DEF TakeJob, k

\* the rows after a purge
Purged ==
  [i \in DOMAIN codes |-> IF codes[i].at + Retention < clock
                          THEN [codes[i] EXCEPT !.state = "deleted"] ELSE codes[i]]

LEMMA PurgedRows ==
  ASSUME IndInv
  PROVE  /\ Purged \in Seq(Codes) /\ Len(Purged) = Len(codes)
         /\ DOMAIN Purged = DOMAIN codes
         /\ \A i \in DOMAIN codes :
              LET c == Purged[i]
              IN /\ c.user = codes[i].user /\ c.purpose = codes[i].purpose
                 /\ c.phone = codes[i].phone /\ c.at = codes[i].at
                 /\ c.attempts = codes[i].attempts
                 /\ \/ c.state = codes[i].state
                    \/ c.state = "deleted" /\ codes[i].at + Retention < clock
<1> DEFINE rows == Purged
<1>1. rows = [i \in DOMAIN codes |-> rows[i]]
  BY DEF Purged
<1>2. codes \in Seq(Codes) /\ \A i \in DOMAIN codes : codes[i] \in Codes
  BY Shapes DEF IndInv
<1>3. \A c \in Codes : LET d == [c EXCEPT !.state = "deleted"]
                       IN /\ d \in Codes /\ d.user = c.user /\ d.purpose = c.purpose
                          /\ d.phone = c.phone /\ d.at = c.at
                          /\ d.attempts = c.attempts /\ d.state = "deleted"
  BY DEF Codes
<1>4. \A i \in DOMAIN codes :
        \/ rows[i] = codes[i]
        \/ rows[i] = [codes[i] EXCEPT !.state = "deleted"] /\ codes[i].at + Retention < clock
  BY DEF Purged
<1> HIDE DEF rows
<1>5. \A i \in DOMAIN codes :
        /\ rows[i] \in Codes
        /\ rows[i].user = codes[i].user /\ rows[i].purpose = codes[i].purpose
        /\ rows[i].phone = codes[i].phone /\ rows[i].at = codes[i].at
        /\ rows[i].attempts = codes[i].attempts
        /\ \/ rows[i].state = codes[i].state
           \/ rows[i].state = "deleted" /\ codes[i].at + Retention < clock
  <2> SUFFICES ASSUME NEW i \in DOMAIN codes
               PROVE  /\ rows[i] \in Codes
                      /\ rows[i].user = codes[i].user /\ rows[i].purpose = codes[i].purpose
                      /\ rows[i].phone = codes[i].phone /\ rows[i].at = codes[i].at
                      /\ rows[i].attempts = codes[i].attempts
                      /\ \/ rows[i].state = codes[i].state
                         \/ rows[i].state = "deleted" /\ codes[i].at + Retention < clock
    OBVIOUS
  <2>1. CASE rows[i] = codes[i]
    BY <1>2, <2>1
  <2>2. CASE rows[i] = [codes[i] EXCEPT !.state = "deleted"]
             /\ codes[i].at + Retention < clock
    BY <1>2, <1>3, <2>2
  <2> QED BY <1>4, <2>1, <2>2
<1>6. rows \in Seq(Codes) /\ Len(rows) = Len(codes) /\ DOMAIN rows = DOMAIN codes
  BY <1>1, <1>2, <1>5, MappedSeq
<1> QED BY <1>5, <1>6 DEF rows

LEMMA PurgeKeeps ==
  ASSUME IndInv, NEW g \in Goroutines, Purge(g)
  PROVE  IndInv'
<1> DEFINE new == [procs[g] EXCEPT !.pc = "cooldown", !.at = clock]
<1>1. /\ procs[g].pc = "purge" /\ LockFree(g)
      /\ codes' = Purged \/ codes' = codes
      /\ procs' = [procs EXCEPT ![g].pc = "cooldown", ![g].at = clock]
      /\ UNCHANGED <<clock, phone, queue, sent, resets>>
  BY DEF Purge, Purged
<1>2. Onward /\ Len(codes') = Len(codes) /\ DOMAIN codes' = DOMAIN codes
  BY <1>1, PurgedRows, RowsStay DEF Onward
<1>3. procs \in [Goroutines -> ProcStates] /\ clock \in Nat
  BY Shapes DEF IndInv
<1>4. new \in ProcStates /\ new.pc = "cooldown" /\ new.user = procs[g].user
  BY <1>3 DEF ProcStates
<1>5. procs' = [procs EXCEPT ![g] = new]
  BY <1>1, <1>3
<1> HIDE DEF new
<1>6. ProcsOK'
  BY <1>1, <1>2, <1>4, <1>5, CallKeeps
<1>7. QueueOK' /\ NewestLive'
  BY <1>1, <1>2, QueueStays, NoneAdded
<1>8. /\ clock' \in 0..MaxTime /\ phone' \in [Users -> Phones]
      /\ sent' \subseteq DOMAIN codes'
  BY <1>1, <1>2 DEF IndInv, TypeOK
<1> QED BY <1>1, <1>2, <1>6, <1>7, <1>8, TablesKeep

\* A call under the lock reads the rows and goes on, or ends.
LEMMA GotoKeeps ==
  ASSUME IndInv, NEW g \in Goroutines, NEW pc \in {"hourly", "supersede"},
         procs[g].pc \in UnderLock, Goto(g, pc) \/ Return(g),
         UNCHANGED <<clock, phone, codes, queue, sent, resets>>
  PROVE  IndInv'
<1>1. sent' \subseteq DOMAIN codes'
  BY DEF IndInv, TypeOK
<1>2. CASE Return(g)
  BY <1>1, <1>2, RowsStay, ReturnKeeps
<1>3. CASE Goto(g, pc)
  <2> DEFINE new == [procs[g] EXCEPT !.pc = pc]
  <2>1. procs \in [Goroutines -> ProcStates]
    BY Shapes DEF IndInv
  <2>2. new \in ProcStates /\ new.pc = pc /\ new.user = procs[g].user
    BY <2>1 DEF ProcStates
  <2>3. procs' = [procs EXCEPT ![g] = new]
    BY <1>3, <2>1 DEF Goto
  <2>4. QueueOK'
    BY RowsStay, QueueStays
  <2> HIDE DEF new
  <2> QED BY <1>1, <2>2, <2>3, <2>4, MoveKeeps
<1> QED BY <1>2, <1>3

LEMMA CheckKeeps ==
  ASSUME IndInv, NEW g \in Goroutines, CheckCooldown(g) \/ CheckHourly(g)
  PROVE  IndInv'
BY GotoKeeps DEF CheckCooldown, CheckHourly, UnderLock

LEMMA SupersedeKeeps ==
  ASSUME IndInv, NEW g \in Goroutines, Supersede(g)
  PROVE  IndInv'
<1> DEFINE seen == LiveOf(procs[g].user, procs[g].purpose)
           new == [procs[g] EXCEPT !.pc = "create", !.seen = seen]
<1>1. /\ procs[g].pc = "supersede"
      /\ procs' = [procs EXCEPT ![g].pc = "create", ![g].seen = seen]
      /\ UNCHANGED <<clock, phone, codes, queue, sent, resets>>
  BY DEF Supersede
<1>2. procs \in [Goroutines -> ProcStates]
  BY Shapes DEF IndInv
<1>3. seen \subseteq Nat
  BY Shapes DEF IndInv, LiveOf
<1> HIDE DEF seen
<1>4. new \in ProcStates /\ new.pc = "create" /\ new.user = procs[g].user
  BY <1>2, <1>3 DEF ProcStates
<1>5. procs' = [procs EXCEPT ![g] = new]
  BY <1>1, <1>2
<1>6. QueueOK' /\ sent' \subseteq DOMAIN codes'
  BY <1>1, RowsStay, QueueStays DEF IndInv, TypeOK
<1> HIDE DEF new
<1> QED BY <1>1, <1>4, <1>5, <1>6, MoveKeeps DEF UnderLock

\* The rows after a code is issued: the live ones of its user and purpose are
\* invalidated, and it is the last.
LEMMA CreatedRows ==
  ASSUME IndInv, NEW g \in Goroutines, Create(g), Issued(g)
  PROVE  /\ Onward /\ NewestLive'
         /\ Len(codes') = Len(codes) + 1
         /\ DOMAIN codes' = 1..(Len(codes) + 1)
         /\ \A i \in DOMAIN codes :
              /\ codes'[i].phone = codes[i].phone /\ codes'[i].at = codes[i].at
              /\ codes'[i].attempts = codes[i].attempts
              /\ codes'[i].state = "deleted" <=> codes[i].state = "deleted"
              /\ Live(i)' => Live(i)
         /\ codes'[Len(codes) + 1] = NewRow(g)
<1> DEFINE S == {i \in procs[g].seen : Live(i)}
           rows == Invalidated(S)
           u == procs[g].user
           purpose == procs[g].purpose
           n == Len(codes) + 1
<1>1. codes' = Append(rows, NewRow(g))
  BY DEF Issued
<1>2. /\ rows \in Seq(Codes) /\ Len(rows) = Len(codes) /\ DOMAIN rows = DOMAIN codes
      /\ \A i \in DOMAIN codes :
           /\ rows[i].user = codes[i].user /\ rows[i].purpose = codes[i].purpose
           /\ rows[i].phone = codes[i].phone /\ rows[i].at = codes[i].at
           /\ rows[i].attempts = codes[i].attempts
           /\ rows[i].state = codes[i].state \/ codes[i].state = "live"
           /\ rows[i].state = "deleted" <=> codes[i].state = "deleted"
           /\ i \in S => rows[i].state = "invalid"
  BY InvalidatedKeeps
<1>3. NewRow(g) \in Codes /\ NewRow(g).user = u /\ NewRow(g).purpose = purpose
  BY Shapes DEF IndInv, NewRow, Codes
<1>4. DOMAIN codes = 1..Len(codes) /\ Len(codes) \in Nat
  BY Shapes DEF IndInv
<1>5. LiveOf(u, purpose) \subseteq procs[g].seen
  <2>1. Len(codes') = Len(codes) + 1
    <3> HIDE DEF rows
    <3> QED BY <1>1, <1>2, <1>3
  <2> QED BY <1>4, <2>1 DEF Create
<1> HIDE DEF rows, u, purpose
<1>6. /\ codes' \in Seq(Codes) /\ Len(codes') = n /\ DOMAIN codes' = 1..n
      /\ \A i \in DOMAIN codes : codes'[i] = rows[i]
      /\ codes'[n] = NewRow(g)
  BY <1>1, <1>2, <1>3, <1>4
<1>7. Onward
  BY <1>2, <1>4, <1>6 DEF Onward
<1>8. \A i \in DOMAIN codes : Live(i)' => Live(i) /\ i \notin S
  BY <1>2, <1>6 DEF Live
<1>9. \A i \in DOMAIN codes :
        codes[i].user = u /\ codes[i].purpose = purpose => ~ Live(i)'
  BY <1>5, <1>8 DEF LiveOf
<1>10. NewestLive'
  <2> SUFFICES ASSUME NEW i \in 1..n, NEW j \in 1..n, i < j,
                      codes'[i].user = codes'[j].user,
                      codes'[i].purpose = codes'[j].purpose
               PROVE  ~ Live(i)'
    BY <1>6 DEF NewestLive
  <2>1. i \in DOMAIN codes /\ codes'[i].user = codes[i].user
        /\ codes'[i].purpose = codes[i].purpose
    BY <1>2, <1>4, <1>6
  <2>2. CASE j = n
    BY <1>3, <1>6, <1>9, <2>1, <2>2
  <2>3. CASE j # n
    <3>1. j \in DOMAIN codes /\ codes'[j].user = codes[j].user
          /\ codes'[j].purpose = codes[j].purpose
      BY <1>2, <1>4, <1>6, <2>3
    <3> QED BY <1>8, <2>1, <3>1 DEF IndInv, NewestLive
  <2> QED BY <2>2, <2>3
<1> QED BY <1>2, <1>6, <1>7, <1>8, <1>10

LEMMA CreateKeeps ==
  ASSUME IndInv, NEW g \in Goroutines, Create(g)
  PROVE  IndInv'
<1>1. procs[g].pc = "create" /\ UNCHANGED <<clock, phone, queue, sent, resets>>
  BY DEF Create
<1>2. DOMAIN codes = 1..Len(codes) /\ Len(codes) \in Nat
  BY Shapes DEF IndInv
<1>3. CASE Issued(g)
  <2> DEFINE pc == IF g \in Workers THEN "send" ELSE "enqueue"
             last == Len(codes) + 1
             new == [Idle EXCEPT !.pc = pc, !.code = last]
  <2>0. pc \in {"send", "enqueue"} /\ last \in Nat
    BY <1>2
  <2>1. Onward /\ NewestLive' /\ DOMAIN codes' = 1..(Len(codes) + 1)
    BY <1>3, CreatedRows
  <2>2. new \in ProcStates /\ new.pc \in {"send", "enqueue"} /\ new.code = Len(codes) + 1
    <3>1. new \in ProcStates /\ new.pc = pc /\ new.code = last
      <4> HIDE DEF pc, last
      <4> QED BY <2>0, IdleTyped DEF ProcStates
    <3> QED BY <2>0, <3>1
  <2>3. procs' = [procs EXCEPT ![g] = new]
    BY <1>3 DEF Issued
  <2>4. new.code \in DOMAIN codes'
    BY <1>2, <2>1, <2>2
  <2> HIDE DEF new
  <2>5. ProcsOK'
    BY <2>1, <2>2, <2>3, <2>4, CallKeeps DEF UnderLock
  <2>6. sent' \subseteq DOMAIN codes'
    BY <1>1, <1>2, <2>1 DEF IndInv, TypeOK
  <2>7. QueueOK' /\ clock' \in 0..MaxTime /\ phone' \in [Users -> Phones]
    BY <1>1, <2>1, QueueStays DEF IndInv, TypeOK
  <2> QED BY <1>1, <2>1, <2>5, <2>6, <2>7, TablesKeep
<1>4. CASE Return(g) /\ codes' = codes
  <2>1. sent' \subseteq DOMAIN codes'
    BY <1>1, <1>4 DEF IndInv, TypeOK
  <2> QED BY <1>1, <1>4, <2>1, RowsStay, ReturnKeeps
<1> QED BY <1>3, <1>4 DEF Create

\* A call that has issued a code, or sends it, goes on to retire it, or ends.
LEMMA HandedKeeps ==
  ASSUME IndInv, NEW g \in Goroutines, procs[g].code \in DOMAIN codes,
         Goto(g, "undo") \/ Return(g),
         UNCHANGED <<clock, phone, codes, resets>>, QueueOK', sent' \subseteq DOMAIN codes'
  PROVE  IndInv'
<1>1. CASE Return(g)
  <2>1. procs' = [procs EXCEPT ![g] = Idle]
    BY <1>1 DEF Return
  <2> QED BY <2>1, IdleTyped, MoveKeeps DEF UnderLock
<1>2. CASE Goto(g, "undo")
  <2> DEFINE new == [procs[g] EXCEPT !.pc = "undo"]
  <2>1. procs \in [Goroutines -> ProcStates]
    BY Shapes DEF IndInv
  <2>2. new \in ProcStates /\ new.pc = "undo" /\ new.code = procs[g].code
    BY <2>1 DEF ProcStates
  <2>3. procs' = [procs EXCEPT ![g] = new]
    BY <1>2, <2>1 DEF Goto
  <2> HIDE DEF new
  <2> QED BY <2>2, <2>3, MoveKeeps DEF UnderLock
<1> QED BY <1>1, <1>2

LEMMA HandOverKeeps ==
  ASSUME IndInv, NEW g \in Goroutines, HandOver(g)
  PROVE  IndInv'
<1> DEFINE job == [kind |-> "deliver", code |-> procs[g].code]
<1>1. /\ procs[g].pc = "enqueue" /\ Enqueue(Instance[g], job)
      /\ Return(g) \/ Goto(g, "undo")
      /\ UNCHANGED <<clock, phone, codes, sent, resets>>
  BY DEF HandOver
<1>2. procs[g].code \in DOMAIN codes /\ Instance[g] \in Instances
  BY <1>1 DEF IndInv, TypeOK, Instances
<1>3. job \in Jobs /\ job.code = procs[g].code
  BY Shapes DEF IndInv, Jobs
<1> HIDE DEF job
<1>4. QueueOK'
  BY <1>1, <1>2, <1>3, EnqueueTyped
<1>5. sent' \subseteq DOMAIN codes'
  BY <1>1 DEF IndInv, TypeOK
<1> QED BY <1>1, <1>2, <1>4, <1>5, HandedKeeps

LEMMA SendKeeps ==
  ASSUME IndInv, NEW g \in Goroutines, Send(g)
  PROVE  IndInv'
<1>1. /\ procs[g].pc = "send"
      /\ Return(g) \/ Goto(g, "undo")
      /\ sent' = sent \/ sent' = sent \cup {procs[g].code}
      /\ UNCHANGED <<clock, phone, codes, queue, resets>>
  BY DEF Send
<1>2. procs[g].code \in DOMAIN codes /\ sent' \subseteq DOMAIN codes'
  BY <1>1 DEF IndInv, TypeOK
<1>3. QueueOK'
  BY <1>1, RowsStay, QueueStays
<1> QED BY <1>1, <1>2, <1>3, HandedKeeps

\* the code in hand is invalidated, if it is live still
LEMMA InvalidateKeeps ==
  ASSUME IndInv, NEW g \in Goroutines,
         codes' = Invalidated({i \in {procs[g].code} : Live(i)}),
         Return(g), UNCHANGED <<clock, phone, queue, sent, resets>>
  PROVE  IndInv'
<1> DEFINE S == {i \in {procs[g].code} : Live(i)}
           rows == Invalidated(S)
<1>1. /\ rows \in Seq(Codes) /\ Len(rows) = Len(codes) /\ DOMAIN rows = DOMAIN codes
      /\ \A i \in DOMAIN codes :
           /\ rows[i].user = codes[i].user /\ rows[i].purpose = codes[i].purpose
           /\ rows[i].state = codes[i].state \/ codes[i].state = "live"
  BY InvalidatedKeeps
<1>2. codes' = rows
  OBVIOUS
<1> HIDE DEF rows
<1>3. Len(codes) \in Nat
  BY Shapes DEF IndInv
<1>4. Onward
  <2>1. codes' \in Seq(Codes) /\ Len(codes) <= Len(codes')
    BY <1>1, <1>2, <1>3
  <2>2. \A i \in DOMAIN codes :
          /\ codes'[i].user = codes[i].user
          /\ codes'[i].purpose = codes[i].purpose
          /\ codes'[i].state \in {codes[i].state, "deleted"} \/ codes[i].state = "live"
    BY <1>1, <1>2
  <2> QED BY <2>1, <2>2 DEF Onward
<1>5. NewestLive'
  BY <1>1, <1>2, <1>4, NoneAdded
<1>6. sent' \subseteq DOMAIN codes'
  BY <1>1, <1>2 DEF IndInv, TypeOK
<1> QED BY <1>4, <1>5, <1>6, ReturnKeeps

LEMMA UndoKeeps ==
  ASSUME IndInv, NEW g \in Goroutines, Undo(g) \/ Retire(g)
  PROVE  IndInv'
BY InvalidateKeeps DEF Undo, Retire

-----------------------------------------------------------------------------
\* Redeeming a code
LEMMA StartRedeemKeeps ==
  ASSUME IndInv, NEW g \in Goroutines, StartRedeem(g)
  PROVE  IndInv'
<1>1. PICK u \in Users, purpose \in Asks, guess \in {0} \cup sent :
        Begin(g, "find", u, purpose, NoPhone, guess)
  BY DEF StartRedeem
<1>2. /\ purpose \in Purposes /\ NoPhone \in Phones \cup {NoPhone}
      /\ guess \in Nat
  BY AsksAssumption, Shapes DEF IndInv, TypeOK
<1>3. UNCHANGED <<clock, phone, codes, queue, sent, resets>>
  BY DEF StartRedeem
<1>4. PICK new \in ProcStates : new.pc = "find" /\ procs' = [procs EXCEPT ![g] = new]
  BY <1>1, <1>2, BeginTyped
<1>5. sent' \subseteq DOMAIN codes'
  BY <1>3 DEF IndInv, TypeOK
<1>6. QueueOK'
  BY <1>3, RowsStay, QueueStays
<1> QED BY <1>3, <1>4, <1>5, <1>6, MoveKeeps DEF UnderLock

\* what Find makes of the call
LEMMA FoundTyped ==
  ASSUME IndInv, NEW g \in Goroutines, Find(g), ~ Return(g)
  PROVE  \E i \in LiveOf(procs[g].user, procs[g].purpose), new \in ProcStates :
           /\ new.pc \in {"retire", "miss", "redeem"}
           /\ new.pc # "retire" => codes[i].attempts < MaxAttempts
           /\ new.code = i /\ new.tries = codes[i].attempts
           /\ new.user = procs[g].user /\ new.purpose = procs[g].purpose
           /\ procs' = [procs EXCEPT ![g] = new]
<1>1. PICK i \in LiveOf(procs[g].user, procs[g].purpose) :
        procs' = [procs EXCEPT
                    ![g].code = i, ![g].tries = codes[i].attempts,
                    ![g].pc = IF \/ codes[i].at + CodeTTL <= clock
                                 \/ codes[i].attempts >= MaxAttempts
                              THEN "retire"
                              ELSE IF procs[g].guess = i THEN "redeem" ELSE "miss"]
  BY DEF Find
<1> DEFINE pc == IF \/ codes[i].at + CodeTTL <= clock
                    \/ codes[i].attempts >= MaxAttempts
                 THEN "retire"
                 ELSE IF procs[g].guess = i THEN "redeem" ELSE "miss"
           new == [procs[g] EXCEPT !.code = i, !.tries = codes[i].attempts, !.pc = pc]
<1>2. i \in DOMAIN codes
  BY DEF LiveOf
<1>3. /\ procs \in [Goroutines -> ProcStates] /\ i \in Nat /\ codes[i].attempts \in Nat
      /\ MaxAttempts \in Nat
  BY <1>2, Shapes, LimitsAssumption DEF IndInv
<1>4. /\ pc \in {"retire", "miss", "redeem"}
      /\ pc # "retire" => codes[i].attempts < MaxAttempts
  BY <1>3
<1>5. procs' = [procs EXCEPT ![g] = new]
  <2> HIDE DEF pc
  <2>1. procs' = [procs EXCEPT ![g].code = i, ![g].tries = codes[i].attempts, ![g].pc = pc]
    BY <1>1 DEF pc
  <2> QED BY <1>3, <2>1
<1>6. /\ new \in ProcStates /\ new.pc = pc /\ new.code = i
      /\ new.tries = codes[i].attempts
      /\ new.user = procs[g].user /\ new.purpose = procs[g].purpose
  <2> HIDE DEF pc
  <2> QED BY <1>3, <1>4 DEF ProcStates
<1> HIDE DEF pc, new
<1> QED BY <1>4, <1>5, <1>6

LEMMA FindKeeps ==
  ASSUME IndInv, NEW g \in Goroutines, Find(g)
  PROVE  IndInv'
<1>1. LockFree(g) /\ UNCHANGED <<clock, phone, codes, queue, sent, resets>>
  BY DEF Find
<1>2. sent' \subseteq DOMAIN codes'
  BY <1>1 DEF IndInv, TypeOK
<1>3. CASE Return(g)
  BY <1>1, <1>2, <1>3, RowsStay, ReturnKeeps
<1>4. CASE ~ Return(g)
  <2>1. PICK i \in LiveOf(procs[g].user, procs[g].purpose), new \in ProcStates :
          /\ new.pc \in {"retire", "miss", "redeem"}
          /\ new.code = i
          /\ new.user = procs[g].user /\ new.purpose = procs[g].purpose
          /\ procs' = [procs EXCEPT ![g] = new]
    BY <1>4, FoundTyped
  <2>2. i \in DOMAIN codes /\ codes[i].user = new.user /\ codes[i].purpose = new.purpose
    BY <2>1 DEF LiveOf
  <2>3. QueueOK'
    BY <1>1, RowsStay, QueueStays
  <2> QED BY <1>1, <1>2, <2>1, <2>2, <2>3, MoveKeeps
<1> QED BY <1>3, <1>4

LEMMA MissedRows ==
  ASSUME IndInv, NEW g \in Goroutines, Miss(g)
  PROVE  /\ codes' \in Seq(Codes) /\ Len(codes') = Len(codes) /\ DOMAIN codes' = DOMAIN codes
         /\ \A i \in DOMAIN codes :
              /\ codes'[i].user = codes[i].user /\ codes'[i].purpose = codes[i].purpose
              /\ codes'[i].phone = codes[i].phone /\ codes'[i].at = codes[i].at
              /\ \/ codes'[i] = codes[i]
                 \/ /\ i = procs[g].code
                    /\ codes'[i].attempts = codes[i].attempts + 1
                    /\ codes[i].state \in {"live", "invalid"}
                    /\ codes'[i].state \in {codes[i].state, "invalid"}
<1> DEFINE c == procs[g].code
<1>1. /\ codes \in Seq(Codes) /\ \A i \in DOMAIN codes : codes[i] \in Codes
      /\ c \in DOMAIN codes
      /\ codes[c].state \in {"live", "used", "invalid", "deleted"}
  BY Shapes DEF IndInv, TypeOK, Miss
<1>2. CASE codes' = codes
  BY <1>1, <1>2
<1>3. CASE /\ codes[c].state \notin {"used", "deleted"}
           /\ \E state \in {codes[c].state, "invalid"} :
                codes' = [codes EXCEPT
                  ![c] = [codes[c] EXCEPT !.attempts = codes[c].attempts + 1, !.state = state]]
  <2>1. PICK state \in {codes[c].state, "invalid"} :
          codes' = [codes EXCEPT
            ![c] = [codes[c] EXCEPT !.attempts = codes[c].attempts + 1, !.state = state]]
    BY <1>3
  <2> DEFINE row == [codes[c] EXCEPT !.attempts = codes[c].attempts + 1, !.state = state]
  <2>2. codes[c] \in Codes /\ codes[c].attempts + 1 \in Nat
        /\ state \in {"live", "used", "invalid", "deleted"}
    BY <1>1, <2>1, Shapes DEF IndInv
  <2>3. /\ row \in Codes /\ row.user = codes[c].user /\ row.purpose = codes[c].purpose
        /\ row.phone = codes[c].phone /\ row.at = codes[c].at
        /\ row.attempts = codes[c].attempts + 1 /\ row.state = state
    <3> DEFINE n == codes[c].attempts + 1
    <3>1. n \in Nat /\ row = [codes[c] EXCEPT !.attempts = n, !.state = state]
      BY <2>2
    <3> HIDE DEF c, n, row
    <3>2. /\ row \in Codes /\ row.user = codes[c].user /\ row.purpose = codes[c].purpose
          /\ row.phone = codes[c].phone /\ row.at = codes[c].at
          /\ row.attempts = n /\ row.state = state
      BY <2>2, <3>1 DEF Codes
    <3> QED BY <3>2 DEF n
  <2>4. codes' = [codes EXCEPT ![c] = row]
    BY <2>1
  <2> HIDE DEF row, c
  <2>5. /\ codes' \in Seq(Codes) /\ Len(codes') = Len(codes) /\ DOMAIN codes' = DOMAIN codes
        /\ codes'[c] = row /\ \A i \in DOMAIN codes : i # c => codes'[i] = codes[i]
    BY <1>1, <2>3, <2>4
  <2>6. codes[c].state \in {"live", "invalid"}
    BY <1>1, <1>3
  <2> QED BY <2>1, <2>3, <2>5, <2>6 DEF c
<1>4. codes' = codes \/
        /\ codes[c].state \notin {"used", "deleted"}
        /\ codes' = [codes EXCEPT
             ![c].attempts = @ + 1,
             ![c].state = IF procs[g].tries + 1 >= MaxAttempts THEN "invalid" ELSE @]
  BY DEF Miss
<1>5. ASSUME codes' = [codes EXCEPT
               ![c].attempts = @ + 1,
               ![c].state = IF procs[g].tries + 1 >= MaxAttempts THEN "invalid" ELSE @]
      PROVE  \E state \in {codes[c].state, "invalid"} :
                codes' = [codes EXCEPT
                  ![c] = [codes[c] EXCEPT !.attempts = codes[c].attempts + 1, !.state = state]]
  <2> DEFINE state == IF procs[g].tries + 1 >= MaxAttempts THEN "invalid" ELSE codes[c].state
  <2>1. state \in {codes[c].state, "invalid"}
    OBVIOUS
  <2>2. codes' = [codes EXCEPT
               ![c] = [codes[c] EXCEPT !.attempts = codes[c].attempts + 1, !.state = state]]
    BY <1>1, <1>5 DEF Codes
  <2> HIDE DEF state
  <2> QED BY <2>1, <2>2
<1> QED BY <1>2, <1>3, <1>4, <1>5

LEMMA MissKeeps ==
  ASSUME IndInv, NEW g \in Goroutines, Miss(g)
  PROVE  IndInv'
<1>1. Return(g) /\ UNCHANGED <<clock, phone, queue, sent, resets>>
  BY DEF Miss
<1>2. codes' \in Seq(Codes) /\ Len(codes') = Len(codes) /\ DOMAIN codes' = DOMAIN codes
      /\ Len(codes) \in Nat
  BY MissedRows, Shapes DEF IndInv
<1>3. \A i \in DOMAIN codes :
        /\ codes'[i].user = codes[i].user /\ codes'[i].purpose = codes[i].purpose
        /\ codes'[i].state \in {codes[i].state, "deleted"} \/ codes[i].state = "live"
  BY MissedRows
<1>4. Onward
  BY <1>2, <1>3 DEF Onward
<1>5. NewestLive' /\ sent' \subseteq DOMAIN codes'
  BY <1>1, <1>2, <1>4, NoneAdded DEF IndInv, TypeOK
<1> QED BY <1>1, <1>4, <1>5, ReturnKeeps

\* The rows after a code is used up; a reset by email leaves no live one.
LEMMA SweptRows ==
  ASSUME IndInv, NEW g \in Goroutines, procs[g].pc = "redeem", Live(procs[g].code)
  PROVE  /\ Swept(g) \in Seq(Codes) /\ Len(Swept(g)) = Len(codes)
         /\ DOMAIN Swept(g) = DOMAIN codes
         /\ \A i \in DOMAIN codes :
              LET c == Swept(g)[i]
              IN /\ c.user = codes[i].user /\ c.purpose = codes[i].purpose
                 /\ c.phone = codes[i].phone /\ c.at = codes[i].at
                 /\ c.attempts = codes[i].attempts
                 /\ c.state = codes[i].state \/ codes[i].state = "live"
                 /\ c.state = "deleted" <=> codes[i].state = "deleted"
                 /\ i = procs[g].code => c.state = "used"
                 /\ procs[g].purpose = "email_reset" /\ codes[i].user = procs[g].user
                      => c.state # "live"
<1> DEFINE rows == Swept(g)
           code == procs[g].code
<1>1. /\ codes \in Seq(Codes) /\ \A i \in DOMAIN codes : codes[i] \in Codes
      /\ code \in DOMAIN codes /\ codes[code].state = "live"
      /\ DOMAIN codes = 1..Len(codes)
      /\ codes[code].user = procs[g].user
  BY Shapes DEF IndInv, TypeOK, Live, RightCode
<1>2. \A i \in DOMAIN codes :
        Used(g)[i] = IF i = code THEN [codes[i] EXCEPT !.state = "used"] ELSE codes[i]
  BY DEF Used
<1>3. rows = [i \in DOMAIN codes |-> rows[i]]
  BY <1>1 DEF Swept, Used
<1>4. \A i \in DOMAIN codes :
        \/ /\ i = code /\ rows[i] = [codes[i] EXCEPT !.state = "used"]
        \/ /\ i # code /\ rows[i] = codes[i]
           /\ procs[g].purpose = "email_reset" /\ codes[i].user = procs[g].user
                => codes[i].state # "live"
        \/ /\ i # code /\ rows[i] = [codes[i] EXCEPT !.state = "invalid"]
           /\ codes[i].state = "live"
  BY <1>2 DEF Swept, Live
<1> HIDE DEF rows, code
<1>6. \A i \in DOMAIN codes :
        /\ rows[i] \in Codes
        /\ rows[i].user = codes[i].user /\ rows[i].purpose = codes[i].purpose
        /\ rows[i].phone = codes[i].phone /\ rows[i].at = codes[i].at
        /\ rows[i].attempts = codes[i].attempts
        /\ rows[i].state = codes[i].state \/ codes[i].state = "live"
        /\ rows[i].state = "deleted" <=> codes[i].state = "deleted"
        /\ i = code => rows[i].state = "used"
        /\ procs[g].purpose = "email_reset" /\ codes[i].user = procs[g].user
             => rows[i].state # "live"
  <2> SUFFICES ASSUME NEW i \in DOMAIN codes
               PROVE  /\ rows[i] \in Codes
                      /\ rows[i].user = codes[i].user /\ rows[i].purpose = codes[i].purpose
                      /\ rows[i].phone = codes[i].phone /\ rows[i].at = codes[i].at
                      /\ rows[i].attempts = codes[i].attempts
                      /\ rows[i].state = codes[i].state \/ codes[i].state = "live"
                      /\ rows[i].state = "deleted" <=> codes[i].state = "deleted"
                      /\ i = code => rows[i].state = "used"
                      /\ procs[g].purpose = "email_reset" /\ codes[i].user = procs[g].user
                           => rows[i].state # "live"
    OBVIOUS
  <2>1. CASE i = code /\ rows[i] = [codes[i] EXCEPT !.state = "used"]
    <3>1. /\ codes[i] \in Codes /\ i = code /\ rows[i] = [codes[i] EXCEPT !.state = "used"]
          /\ codes[i].state = "live"
      BY <1>1, <2>1
    <3> QED BY <3>1 DEF Codes
  <2>2. CASE /\ i # code /\ rows[i] = codes[i]
             /\ procs[g].purpose = "email_reset" /\ codes[i].user = procs[g].user
                  => codes[i].state # "live"
    BY <1>1, <2>2
  <2>3. CASE i # code /\ rows[i] = [codes[i] EXCEPT !.state = "invalid"]
             /\ codes[i].state = "live"
    <3>1. /\ codes[i] \in Codes /\ i # code /\ rows[i] = [codes[i] EXCEPT !.state = "invalid"]
          /\ codes[i].state = "live"
      BY <1>1, <2>3
    <3> QED BY <3>1 DEF Codes
  <2> QED BY <1>4, <2>1, <2>2, <2>3
<1>7. rows \in Seq(Codes) /\ Len(rows) = Len(codes) /\ DOMAIN rows = DOMAIN codes
  BY <1>1, <1>3, <1>6, MappedSeq
<1> QED BY <1>6, <1>7 DEF rows, code

LEMMA RedeemKeeps ==
  ASSUME IndInv, NEW g \in Goroutines, Redeem(g)
  PROVE  IndInv'
<1> DEFINE c == procs[g].code
           last == [code |-> c, known |-> Len(codes)]
           Resets == [code : Nat, known : Nat]
<1>1. procs[g].pc = "redeem" /\ Return(g) /\ UNCHANGED <<clock, phone, queue, sent>>
  BY DEF Redeem
<1>2. CASE ~ Live(c)
  <2>1. codes' = codes /\ resets' = resets /\ sent' \subseteq DOMAIN codes'
    BY <1>2 DEF Redeem, IndInv, TypeOK
  <2> QED BY <1>1, <2>1, RowsStay, ReturnKeeps
<1>3. CASE Live(c)
  <2>1. codes' = Swept(g) /\ resets' = Append(resets, last)
    BY <1>3 DEF Redeem, Recorded
  <2>2. /\ codes' \in Seq(Codes) /\ Len(codes') = Len(codes) /\ DOMAIN codes' = DOMAIN codes
        /\ \A i \in DOMAIN codes :
             /\ codes'[i].user = codes[i].user /\ codes'[i].purpose = codes[i].purpose
             /\ codes'[i].state = codes[i].state \/ codes[i].state = "live"
             /\ i = c => codes'[i].state = "used"
             /\ procs[g].purpose = "email_reset" /\ codes[i].user = procs[g].user
                  => codes'[i].state # "live"
    BY <1>1, <1>3, <2>1, SweptRows
  <2>3. /\ DOMAIN codes = 1..Len(codes) /\ Len(codes) \in Nat
        /\ DOMAIN resets = 1..Len(resets) /\ Len(resets) \in Nat
        /\ resets \in Seq(Resets)
        /\ \A n \in DOMAIN resets : resets[n].code \in Nat /\ resets[n].known \in Nat
        /\ c \in Nat /\ c \in DOMAIN codes
    BY <1>1, Shapes DEF IndInv, TypeOK
  <2>4. codes[c].user = procs[g].user /\ codes[c].purpose = procs[g].purpose
    BY <1>1 DEF IndInv, RightCode
  <2>5. last \in Resets /\ last.code = c /\ last.known = Len(codes)
    BY <2>3
  <2> HIDE DEF last, Resets, c
  <2>6. /\ resets' \in Seq(Resets)
        /\ DOMAIN resets' = 1..Len(resets) + 1
        /\ \A n \in DOMAIN resets : resets'[n] = resets[n]
        /\ resets'[Len(resets) + 1] = last
    BY <2>1, <2>3, <2>5
  <2>7. \A n \in DOMAIN resets' : \/ n \in DOMAIN resets /\ resets'[n] = resets[n]
                                  \/ n = Len(resets) + 1 /\ resets'[n] = last
    BY <2>3, <2>6
  <2>8. Onward
    <3>1. \A i \in DOMAIN codes :
            /\ codes'[i].user = codes[i].user /\ codes'[i].purpose = codes[i].purpose
            /\ codes'[i].state \in {codes[i].state, "deleted"} \/ codes[i].state = "live"
      BY <2>2
    <3> QED BY <2>2, <2>3, <3>1 DEF Onward
  <2>9. \A i \in DOMAIN codes : (~ Live(i) => ~ Live(i)') /\ (Spent(i) => Spent(i)')
    BY <2>8 DEF Onward, Live, Spent
  <2>10. ProcsOK'
    <3>1. procs' = [procs EXCEPT ![g] = Idle]
      BY <1>1 DEF Return
    <3> QED BY <2>8, <3>1, IdleTyped, CallKeeps DEF UnderLock
  <2>11. TypeOK' /\ JobsKnown' /\ RightCode' /\ LockHeld'
    <3>1. QueueOK'
      BY <1>1, <2>8, QueueStays
    <3>2. /\ clock' \in 0..MaxTime /\ phone' \in [Users -> Phones]
          /\ sent' \subseteq DOMAIN codes'
      BY <1>1, <2>2 DEF IndInv, TypeOK
    <3>3. resets' \in Seq([code : Nat, known : Nat])
      BY <2>6 DEF Resets
    <3> QED BY <2>2, <2>10, <3>1, <3>2, <3>3 DEF TypeOK, QueueOK, ProcsOK
  <2>12. NewestLive'
    BY <2>2, <2>8, NoneAdded
  <2>13. \A n \in DOMAIN resets :
           /\ resets[n].code \in DOMAIN codes /\ resets[n].code # c
           /\ resets[n].known <= Len(codes) /\ Spent(resets[n].code)
           /\ \A i \in 1..resets[n].known : i \in DOMAIN codes
    BY <1>3, <2>3 DEF IndInv, ResetsSpent, Spent, Live, c
  <2>14. ResetsSpent'
    <3>1. codes'[c].state = "used"
      BY <2>2, <2>3
    <3>2. \A n \in DOMAIN resets : codes'[resets[n].code].state \in {"used", "deleted"}
      BY <2>9, <2>13 DEF Spent
    <3>3. \A n \in DOMAIN resets' :
            /\ resets'[n].code \in DOMAIN codes
            /\ codes'[resets'[n].code].state \in {"used", "deleted"}
            /\ resets'[n].known <= Len(codes)
      BY <2>3, <2>5, <2>7, <2>13, <3>1, <3>2
    <3> QED BY <2>2, <3>3 DEF ResetsSpent, Spent
  <2>15. SweptDead'
    <3> SUFFICES ASSUME NEW m \in DOMAIN resets',
                        codes'[resets'[m].code].purpose = "email_reset",
                        NEW i \in 1..resets'[m].known,
                        codes'[i].user = codes'[resets'[m].code].user
                 PROVE  ~ Live(i)'
      BY DEF SweptDead
    <3>1. CASE m \in DOMAIN resets /\ resets'[m] = resets[m]
      <4>1. i \in DOMAIN codes /\ resets[m].code \in DOMAIN codes
        BY <2>13, <3>1
      <4>2. ~ Live(i)
        BY <2>2, <3>1, <4>1 DEF IndInv, SweptDead
      <4> QED BY <2>9, <4>1, <4>2
    <3>2. CASE resets'[m] = last
      <4>1. i \in DOMAIN codes
        BY <2>3, <2>5, <3>2
      <4> QED BY <2>2, <2>3, <2>4, <2>5, <3>2, <4>1 DEF Live
    <3> QED BY <2>7, <3>1, <3>2
  <2>16. CodeSpentOnce'
    BY <2>5, <2>7, <2>13 DEF IndInv, CodeSpentOnce
  <2>17. NewestCodeOnly'
    <3> SUFFICES ASSUME NEW n \in DOMAIN resets',
                        NEW i \in (resets'[n].code + 1)..resets'[n].known,
                        codes'[i].user = codes'[resets'[n].code].user
                 PROVE  codes'[i].purpose # codes'[resets'[n].code].purpose
      BY DEF NewestCodeOnly
    <3>1. CASE n \in DOMAIN resets /\ resets'[n] = resets[n]
      <4>1. i \in DOMAIN codes /\ resets[n].code \in DOMAIN codes
        BY <2>3, <2>13, <3>1
      <4> QED BY <2>2, <3>1, <4>1 DEF IndInv, NewestCodeOnly
    <3>2. CASE resets'[n] = last
      <4>1. i \in DOMAIN codes /\ c < i
        BY <2>3, <2>5, <3>2
      <4>2. Live(c)
        BY <1>3 DEF c
      <4>3. codes[i].user = codes[c].user => codes[i].purpose # codes[c].purpose
        BY <2>3, <4>1, <4>2 DEF IndInv, NewestLive
      <4> QED BY <2>2, <2>3, <2>5, <3>2, <4>1, <4>3
    <3> QED BY <2>7, <3>1, <3>2
  <2>18. EmailResetSweeps'
    <3> SUFFICES ASSUME NEW m \in DOMAIN resets', NEW n \in DOMAIN resets', m < n,
                        codes'[resets'[m].code].purpose = "email_reset",
                        codes'[resets'[n].code].user = codes'[resets'[m].code].user
                 PROVE  resets'[n].code > resets'[m].known
      BY DEF EmailResetSweeps
    <3>1. m \in DOMAIN resets /\ resets'[m] = resets[m]
      BY <2>3, <2>6
    <3>2. resets[m].code \in DOMAIN codes
      BY <2>13, <3>1
    <3>3. CASE n \in DOMAIN resets /\ resets'[n] = resets[n]
      BY <2>2, <2>13, <3>1, <3>2, <3>3 DEF IndInv, EmailResetSweeps
    <3>4. CASE resets'[n] = last
      <4>1. Live(c)
        BY <1>3 DEF c
      <4>2. codes[resets[m].code].purpose = "email_reset"
            /\ codes[c].user = codes[resets[m].code].user
        BY <2>2, <2>3, <2>5, <3>1, <3>2, <3>4
      <4>3. c \notin 1..resets[m].known
        BY <3>1, <4>1, <4>2 DEF IndInv, SweptDead
      <4>4. c > resets[m].known
        BY <2>3, <3>1, <4>3
      <4> QED BY <2>5, <3>1, <3>4, <4>4
    <3> QED BY <2>7, <3>3, <3>4
  <2> QED BY <2>11, <2>12, <2>14, <2>15, <2>16, <2>17, <2>18 DEF IndInv
<1> QED BY <1>2, <1>3

-----------------------------------------------------------------------------
\* The rest
LEMMA MovePhoneKeeps ==
  ASSUME IndInv, NEW u \in Users, MovePhone(u)
  PROVE  IndInv'
<1>1. UNCHANGED <<clock, codes, queue, procs, sent, resets>>
  BY DEF MovePhone
<1>2. /\ clock' \in 0..MaxTime /\ phone' \in [Users -> Phones]
      /\ sent' \subseteq DOMAIN codes'
  BY DEF IndInv, TypeOK, MovePhone
<1> QED BY <1>1, <1>2, RowsStay, QueueStays, ProcsStay, TablesKeep

LEMMA TickKeeps ==
  ASSUME IndInv, Tick
  PROVE  IndInv'
<1>1. UNCHANGED <<phone, codes, queue, procs, sent, resets>>
  BY DEF Tick
<1>2. /\ clock' \in 0..MaxTime /\ phone' \in [Users -> Phones]
      /\ sent' \subseteq DOMAIN codes'
  BY BoundsAssumption DEF IndInv, TypeOK, Tick
<1> QED BY <1>1, <1>2, RowsStay, QueueStays, ProcsStay, TablesKeep

LEMMA AbortKeeps ==
  ASSUME IndInv, NEW g \in Goroutines, Abort(g)
  PROVE  IndInv'
<1>1. Return(g) /\ UNCHANGED <<clock, phone, codes, queue, sent, resets>>
  BY DEF Abort
<1>2. sent' \subseteq DOMAIN codes'
  BY <1>1 DEF IndInv, TypeOK
<1> QED BY <1>1, <1>2, RowsStay, ReturnKeeps

LEMMA RestartKeeps ==
  ASSUME IndInv, NEW k \in Instances, Restart(k)
  PROVE  IndInv'
<1>1. /\ procs' = [g \in Goroutines |-> IF Instance[g] = k THEN Idle ELSE procs[g]]
      /\ queue' = [queue EXCEPT ![k] = <<>>]
      /\ UNCHANGED <<clock, phone, codes, sent, resets>>
  BY DEF Restart
<1>2. \A g \in Goroutines : procs'[g] = Idle \/ procs'[g] = procs[g]
  BY <1>1
<1>3. Idle.pc \notin UnderLock /\ Idle.pc = "idle"
  BY IdleTyped DEF UnderLock
<1>4. ProcsOK'
  <2>1. procs' \in [Goroutines -> ProcStates]
    BY <1>1, IdleTyped DEF IndInv, TypeOK
  <2>2. \A g \in Goroutines :
          procs'[g].pc \in {"enqueue", "send", "undo", "retire", "miss", "redeem"}
          => procs'[g].code \in DOMAIN codes'
    BY <1>1, <1>2, <1>3 DEF IndInv, TypeOK
  <2>3. RightCode' /\ LockHeld'
    BY <1>1, <1>2, <1>3 DEF IndInv, RightCode, LockHeld
  <2> QED BY <2>1, <2>2, <2>3 DEF ProcsOK
<1>5. QueueOK'
  <2>1. /\ queue' \in [Instances -> Seq(Jobs)] /\ Len(<<>>) = 0 /\ QueueSize \in Nat
        /\ DOMAIN queue'[k] = {} /\ queue'[k] = <<>>
        /\ \A i \in Instances : i # k => queue'[i] = queue[i]
    BY <1>1, LimitsAssumption DEF IndInv, TypeOK
  <2>2. \A i \in Instances : Len(queue'[i]) <= QueueSize
    <3>1. \A i \in Instances : Len(queue[i]) <= QueueSize
      BY DEF IndInv, TypeOK
    <3>2. Len(queue'[k]) = 0 /\ 0 <= QueueSize
      BY <2>1
    <3>3. ASSUME NEW i \in Instances, i # k
          PROVE  Len(queue'[i]) <= QueueSize
      BY <2>1, <3>1, <3>3
    <3> QED BY <3>2, <3>3
  <2>3. JobsKnown'
    BY <1>1, <2>1 DEF IndInv, JobsKnown
  <2> QED BY <2>1, <2>2, <2>3 DEF QueueOK
<1>6. /\ clock' \in 0..MaxTime /\ phone' \in [Users -> Phones]
      /\ sent' \subseteq DOMAIN codes'
  BY <1>1 DEF IndInv, TypeOK
<1> QED BY <1>1, <1>4, <1>5, <1>6, RowsStay, TablesKeep

-----------------------------------------------------------------------------
LEMMA InitInv == Init => IndInv
<1> SUFFICES ASSUME Init
             PROVE  IndInv
  OBVIOUS
<1>1. /\ codes = <<>> /\ resets = <<>> /\ DOMAIN codes = {} /\ DOMAIN resets = {}
      /\ queue = [i \in Instances |-> <<>>] /\ \A i \in Instances : DOMAIN queue[i] = {}
      /\ procs = [g \in Goroutines |-> Idle]
      /\ clock = 0 /\ phone \in [Users -> Phones] /\ sent = {}
  BY DEF Init
<1>2. TypeOK
  <2>1. /\ queue \in [Instances -> Seq(Jobs)]
        /\ \A i \in Instances : Len(queue[i]) <= QueueSize
    BY <1>1, LimitsAssumption
  <2>2. codes \in Seq(Codes) /\ resets \in Seq([code : Nat, known : Nat])
    BY <1>1
  <2> QED BY <1>1, <2>1, <2>2, IdleTyped, BoundsAssumption DEF TypeOK
<1>3. JobsKnown /\ RightCode /\ LockHeld
  BY <1>1, IdleTyped DEF JobsKnown, RightCode, LockHeld, UnderLock
<1> QED BY <1>1, <1>2, <1>3 DEF IndInv, NewestLive, ResetsSpent, SweptDead, CodeSpentOnce,
                                NewestCodeOnly, EmailResetSweeps

LEMMA NextInv == IndInv /\ [Next]_vars => IndInv'
<1> SUFFICES ASSUME IndInv, [Next]_vars
             PROVE  IndInv'
  OBVIOUS
<1>1. CASE UNCHANGED vars
  <2>1. UNCHANGED <<clock, phone, codes, queue, procs, sent, resets>>
    BY <1>1 DEF vars
  <2>2. /\ clock' \in 0..MaxTime /\ phone' \in [Users -> Phones]
        /\ sent' \subseteq DOMAIN codes'
    BY <2>1 DEF IndInv, TypeOK
  <2> QED BY <2>1, <2>2, RowsStay, QueueStays, ProcsStay, TablesKeep
<1>2. ASSUME NEW k \in Instances, AskReset(k) \/ Restart(k)
      PROVE  IndInv'
  BY <1>2, AskResetKeeps, RestartKeeps
<1>3. ASSUME NEW g \in Goroutines,
             \/ AskChange(g) \/ StartRedeem(g) \/ TakeJob(g)
             \/ Purge(g) \/ Find(g) \/ Advance(g) \/ Abort(g)
      PROVE  IndInv'
  <2>1. CASE Advance(g)
    BY <2>1, CheckKeeps, SupersedeKeeps, CreateKeeps, HandOverKeeps, SendKeeps, UndoKeeps,
       MissKeeps, RedeemKeeps DEF Advance
  <2> QED BY <1>3, <2>1, AskChangeKeeps, StartRedeemKeeps, TakeJobKeeps, PurgeKeeps,
             FindKeeps, AbortKeeps
<1>4. ASSUME NEW u \in Users, MovePhone(u)
      PROVE  IndInv'
  BY <1>4, MovePhoneKeeps
<1>5. CASE Tick
  BY <1>5, TickKeeps
<1> QED BY <1>1, <1>2, <1>3, <1>4, <1>5 DEF Next

\* What every reachable state satisfies, of which the theorems below are parts.
LEMMA Invariance == Spec => []IndInv
BY InitInv, NextInv, PTL DEF Spec

\* The state keeps its shape, the queues their length, and a code in hand is a
\* row that exists.
THEOREM TypeCorrect == Spec => []TypeOK
<1>1. IndInv => TypeOK
  BY DEF IndInv
<1> QED BY <1>1, Invariance, PTL

\* At most one code per user and purpose is live, whatever calls and instances
\* issue them (the unique index that Create meets).
THEOREM OneLiveCode == Spec => []OneLive
<1>1. IndInv => OneLive
  <2> SUFFICES ASSUME IndInv, NEW i \in DOMAIN codes, NEW j \in DOMAIN codes,
                      Live(i), Live(j),
                      codes[i].user = codes[j].user, codes[i].purpose = codes[j].purpose
               PROVE  i = j
    BY DEF OneLive
  <2>1. i \in Nat /\ j \in Nat
    BY Shapes DEF IndInv
  <2>2. ~ (i < j) /\ ~ (j < i)
    BY DEF IndInv, NewestLive
  <2> QED BY <2>1, <2>2
<1> QED BY <1>1, Invariance, PTL

\* No code sets two passwords: Redeem looks again in its transaction.
THEOREM CodesSpentOnce == Spec => []CodeSpentOnce
<1>1. IndInv => CodeSpentOnce
  BY DEF IndInv
<1> QED BY <1>1, Invariance, PTL

\* The code that sets a password is the newest of its user and purpose, though
\* Find compared the digits in an earlier step.
THEOREM OnlyNewestCode == Spec => []NewestCodeOnly
<1>1. IndInv => NewestCodeOnly
  BY DEF IndInv
<1> QED BY <1>1, Invariance, PTL

\* After finishEmailReset no code the account had by then sets a password.
THEOREM EmailResetsSweep == Spec => []EmailResetSweeps
<1>1. IndInv => EmailResetSweeps
  BY DEF IndInv
<1> QED BY <1>1, Invariance, PTL

-----------------------------------------------------------------------------
(* The limits of the codes: wrong guesses stop at MaxAttempts in one         *)
(* instance; codes to one number or account are Cooldown apart and at most   *)
(* MaxPerHour in an Hour, in one instance, unless two accounts issue to one  *)
(* number at once or a call stalls while another account purges: the lock is *)
(* per user. And what becomes of a code that does not arrive.                *)

\* In one instance a guess is counted against what was read.
GuessCounted ==
  /\ GuessLimit
  /\ \A g \in Goroutines :
       procs[g].pc = "miss" =>
         /\ procs[g].tries = codes[procs[g].code].attempts
         /\ codes[procs[g].code].attempts < MaxAttempts

-----------------------------------------------------------------------------
\* The pcs of a call that holds the lock to issue a code.
Timed == {"cooldown", "hourly", "supersede", "create"}

\* Two accounts that issue at once do not send to one number, and neither call
\* has stalled for Retention - Hour: their locks do not keep them apart, and
\* the purge of one deletes what the other counts.
Apart ==
  \A g, h \in Goroutines :
    /\ procs[g].pc \in Timed /\ procs[h].pc \in Timed
    /\ procs[g].user # procs[h].user
    => /\ clock + Hour <= procs[g].at + Retention
       /\ procs[g].purpose # "email_reset" => procs[h].phone # procs[g].phone

\* code i counts against what g is about to issue
Charged(g, i) ==
  IF procs[g].purpose = "email_reset"
  THEN codes[i].purpose = "email_reset" /\ codes[i].user = procs[g].user
  ELSE codes[i].phone = procs[g].phone

\* the codes charged within the hour before g read the clock
Recent(g) == {i \in DOMAIN codes : Charged(g, i) /\ codes[i].at + Hour > procs[g].at}

DeletedInTime ==
  \A i \in DOMAIN codes : codes[i].state = "deleted" => codes[i].at + Retention < clock

\* what the call that holds the lock has established
IssuedInTime(g) ==
  /\ procs[g].pc \in Timed =>
       \A i \in DOMAIN codes : codes[i].state = "deleted" => codes[i].at + Hour < procs[g].at
  /\ procs[g].pc \in {"hourly", "supersede", "create"} =>
       \A i \in DOMAIN codes : Charged(g, i) => codes[i].at + Cooldown <= procs[g].at
  /\ procs[g].pc \in {"supersede", "create"} => Cardinality(Recent(g)) < MaxPerHour

GuessInv == SingleInstance => GuessCounted

CodesInTime ==
  /\ CodesLimited
  /\ DeletedInTime
  /\ \A g \in Goroutines : IssuedInTime(g)

-----------------------------------------------------------------------------
\* What a step does to the rows. Not said of Miss, of which MissedRows says it.
SameRows ==
  /\ DOMAIN codes' = DOMAIN codes
  /\ \A i \in DOMAIN codes :
       /\ codes'[i].user = codes[i].user /\ codes'[i].purpose = codes[i].purpose
       /\ codes'[i].phone = codes[i].phone /\ codes'[i].at = codes[i].at
       /\ codes'[i].attempts = codes[i].attempts
       /\ codes'[i].state = "live" => codes[i].state = "live"

SameDeleted ==
  \A i \in DOMAIN codes : codes'[i].state = "deleted" <=> codes[i].state = "deleted"

LEMMA RowsEvolve ==
  ASSUME IndInv, [Next]_vars
  PROVE  \/ SameRows /\ SameDeleted
         \/ \E g \in Goroutines : Miss(g)
         \/ \E g \in Goroutines : Purge(g) /\ codes' = Purged
         \/ \E g \in Goroutines : Create(g) /\ Issued(g)
<1>1. CASE codes' = codes
  BY <1>1 DEF SameRows, SameDeleted
<1>2. ASSUME NEW g \in Goroutines, Undo(g) \/ Retire(g)
      PROVE  SameRows /\ SameDeleted
  <2> DEFINE S == {i \in {procs[g].code} : Live(i)}
  <2>1. codes' = Invalidated(S)
    BY <1>2 DEF Undo, Retire
  <2> HIDE DEF S
  <2>2. \A i \in S : i \in DOMAIN codes => Live(i)
    BY DEF S
  <2> QED BY <2>1, <2>2, InvalidatedKeeps DEF SameRows, SameDeleted
<1>3. ASSUME NEW g \in Goroutines, Redeem(g)
      PROVE  SameRows /\ SameDeleted
  <2>1. CASE codes' = Swept(g) /\ Live(procs[g].code)
    <3>1. procs[g].pc = "redeem"
      BY <1>3 DEF Redeem
    <3> QED BY <2>1, <3>1, SweptRows DEF SameRows, SameDeleted
  <2> QED BY <1>1, <1>3, <2>1 DEF Redeem, SameRows, SameDeleted
<1>4. ASSUME NEW g \in Goroutines, Purge(g)
      PROVE  codes' = Purged \/ codes' = codes
  BY <1>4 DEF Purge, Purged
<1>5. ASSUME NEW g \in Goroutines, Create(g)
      PROVE  Issued(g) \/ codes' = codes
  BY <1>5 DEF Create
<1>6. ASSUME NEW g \in Goroutines,
             \/ AskChange(g) \/ StartRedeem(g) \/ TakeJob(g) \/ Find(g) \/ Abort(g)
             \/ CheckCooldown(g) \/ CheckHourly(g) \/ Supersede(g)
             \/ HandOver(g) \/ Send(g)
      PROVE  codes' = codes
  BY <1>6 DEF AskChange, StartRedeem, TakeJob, Find, Abort, CheckCooldown, CheckHourly,
              Supersede, HandOver, Send
<1>7. ASSUME NEW k \in Instances, AskReset(k) \/ Restart(k)
      PROVE  codes' = codes
  BY <1>7 DEF AskReset, Restart
<1>8. ASSUME NEW u \in Users, MovePhone(u)
      PROVE  codes' = codes
  BY <1>8 DEF MovePhone
<1>9. Tick \/ UNCHANGED vars => codes' = codes
  BY DEF Tick, vars
<1> QED BY <1>1, <1>2, <1>3, <1>4, <1>5, <1>6, <1>7, <1>8, <1>9 DEF Next, Advance

\* The call that has issued a code goes on to send it or to hand it over.
LEMMA IssuedCall ==
  ASSUME IndInv, NEW h \in Goroutines, Issued(h)
  PROVE  /\ procs'[h].pc \in {"send", "enqueue"} /\ procs'[h].code = Len(codes) + 1
         /\ \E new \in ProcStates : /\ new.pc \in {"send", "enqueue"}
                                    /\ procs' = [procs EXCEPT ![h] = new]
<1> DEFINE pc == IF h \in Workers THEN "send" ELSE "enqueue"
           last == Len(codes) + 1
           new == [Idle EXCEPT !.pc = pc, !.code = last]
<1>1. procs' = [procs EXCEPT ![h] = new]
  BY DEF Issued
<1>2. pc \in {"send", "enqueue"} /\ last \in Nat
  BY Shapes DEF IndInv
<1>3. new.pc = pc /\ new.code = last /\ new \in ProcStates
  <2> HIDE DEF pc, last
  <2> QED BY <1>2, IdleTyped DEF ProcStates
<1> HIDE DEF pc, new
<1>4. procs'[h] = new
  BY <1>1, Shapes DEF IndInv
<1> QED BY <1>1, <1>2, <1>3, <1>4

\* What a step does to a call.
LEMMA ProcsEvolve ==
  ASSUME IndInv, [Next]_vars, NEW g \in Goroutines
  PROVE  \/ procs'[g] = procs[g]
         \/ procs'[g].pc \in {"idle", "send", "enqueue", "undo", "find", "purge"}
         \/ Purge(g) \/ CheckCooldown(g) \/ CheckHourly(g) \/ Supersede(g) \/ Find(g)
<1>1. procs \in [Goroutines -> ProcStates]
  BY Shapes DEF IndInv
<1>2. Idle.pc = "idle"
  BY IdleTyped
<1>3. ASSUME NEW h \in Goroutines, NEW new, procs' = [procs EXCEPT ![h] = new]
      PROVE  procs'[g] = procs[g] \/ (g = h /\ procs'[g] = new)
  BY <1>1, <1>3
<1>4. ASSUME NEW h \in Goroutines, Return(h)
      PROVE  procs'[g] = procs[g] \/ procs'[g].pc = "idle"
  BY <1>1, <1>2, <1>4 DEF Return
<1>5. ASSUME NEW h \in Goroutines, Goto(h, "undo")
      PROVE  procs'[g] = procs[g] \/ procs'[g].pc = "undo"
  BY <1>1, <1>5 DEF Goto, ProcStates
<1>6. ASSUME NEW h \in Goroutines,
             \/ Undo(h) \/ Retire(h) \/ Miss(h) \/ Redeem(h) \/ Abort(h)
             \/ HandOver(h) \/ Send(h)
      PROVE  procs'[g] = procs[g] \/ procs'[g].pc \in {"idle", "undo"}
  BY <1>4, <1>5, <1>6 DEF Undo, Retire, Miss, Redeem, Abort, HandOver, Send
<1>7. ASSUME NEW h \in Goroutines, Create(h)
      PROVE  procs'[g] = procs[g] \/ procs'[g].pc \in {"idle", "send", "enqueue"}
  <2>1. CASE Return(h)
    BY <1>4, <2>1
  <2>2. CASE Issued(h)
    <3>1. \E new \in ProcStates : /\ new.pc \in {"send", "enqueue"}
                                  /\ procs' = [procs EXCEPT ![h] = new]
      BY <2>2, IssuedCall
    <3> QED BY <1>3, <3>1
  <2> QED BY <1>7, <2>1, <2>2 DEF Create
<1>8. ASSUME NEW h \in Goroutines,
             Purge(h) \/ CheckCooldown(h) \/ CheckHourly(h) \/ Supersede(h) \/ Find(h)
      PROVE  procs'[g] = procs[g] \/ g = h
  BY <1>1, <1>8 DEF Purge, CheckCooldown, CheckHourly, Supersede, Find, Goto, Return
<1>9. ASSUME NEW h \in Goroutines, NEW pc \in {"purge", "find"}, NEW u \in Users,
             NEW purpose \in Purposes, NEW ph \in Phones \cup {NoPhone}, NEW guess \in Nat,
             Begin(h, pc, u, purpose, ph, guess)
      PROVE  procs'[g] = procs[g] \/ procs'[g].pc = pc
  BY <1>3, <1>9, BeginTyped
<1>10. ASSUME NEW h \in Goroutines, AskChange(h)
       PROVE  procs'[g] = procs[g] \/ procs'[g].pc = "purge"
  <2>1. PICK u \in Users : Begin(h, "purge", u, "change", phone[u], 0)
    BY <1>10 DEF AskChange
  <2>2. phone[u] \in Phones \cup {NoPhone} /\ "change" \in Purposes
    BY DEF IndInv, TypeOK, Purposes
  <2> QED BY <1>9, <2>1, <2>2
<1>11. ASSUME NEW h \in Goroutines, StartRedeem(h)
       PROVE  procs'[g] = procs[g] \/ procs'[g].pc = "find"
  <2>1. PICK u \in Users, purpose \in Asks, guess \in {0} \cup sent :
          Begin(h, "find", u, purpose, NoPhone, guess)
    BY <1>11 DEF StartRedeem
  <2>2. /\ purpose \in Purposes /\ NoPhone \in Phones \cup {NoPhone} /\ guess \in Nat
    BY AsksAssumption, Shapes DEF IndInv, TypeOK
  <2> QED BY <1>9, <2>1, <2>2
<1>12. ASSUME NEW h \in Goroutines, TakeJob(h)
       PROVE  procs'[g] = procs[g] \/ procs'[g].pc \in {"send", "purge"}
  <2> DEFINE k == Instance[h]
             job == Head(queue[k])
  <2>1. /\ k \in Instances /\ queue[k] # <<>> /\ codes' = codes
        /\ queue' = [queue EXCEPT ![k] = Tail(queue[k])]
    BY <1>12 DEF TakeJob, Instances
  <2> HIDE DEF k
  <2>2. job \in Jobs /\ job.kind \in {"reset", "email_reset", "deliver"}
    BY <2>1, TailTyped DEF Jobs
  <2>3. CASE procs' = procs
    BY <2>3
  <2>4. CASE job.kind = "reset" /\ \E u \in OwnersOf(job.phone) :
                                     Begin(h, "purge", u, "reset", job.phone, 0)
    <3>1. PICK u \in Users : Begin(h, "purge", u, "reset", job.phone, 0)
      BY <2>4 DEF OwnersOf
    <3>2. job.phone \in Phones /\ "reset" \in Purposes
      BY <2>2, <2>4 DEF Jobs, Purposes
    <3>3. \A ph \in Phones : Begin(h, "purge", u, "reset", ph, 0) =>
            procs'[g] = procs[g] \/ procs'[g].pc = "purge"
      BY <1>9, <3>2
    <3> QED BY <3>1, <3>2, <3>3
  <2>5. CASE job.kind = "email_reset"
             /\ Begin(h, "purge", job.user, "email_reset", NoPhone, 0)
    <3>1. job.user \in Users
      BY <2>2, <2>5 DEF Jobs
    <3>2. PICK u \in Users : Begin(h, "purge", u, "email_reset", NoPhone, 0)
      BY <2>5, <3>1
    <3>3. NoPhone \in Phones \cup {NoPhone} /\ "email_reset" \in Purposes
      BY DEF Purposes
    <3> QED BY <1>9, <3>2, <3>3
  <2>6. CASE procs' = [procs EXCEPT ![h] = [Idle EXCEPT !.pc = "send", !.code = job.code]]
    <3> DEFINE new == [Idle EXCEPT !.pc = "send", !.code = job.code]
    <3>1. new.pc = "send"
      BY IdleTyped DEF ProcStates
    <3>2. procs' = [procs EXCEPT ![h] = new]
      BY <2>6
    <3> HIDE DEF new
    <3> QED BY <1>3, <3>1, <3>2
  <2> QED BY <1>12, <2>2, <2>3, <2>4, <2>5, <2>6 DEF TakeJob, k
<1>13. ASSUME NEW k \in Instances, AskReset(k) \/ Restart(k)
       PROVE  procs'[g] = procs[g] \/ procs'[g].pc = "idle"
  BY <1>2, <1>13 DEF AskReset, Restart
<1>14. ASSUME NEW u \in Users, MovePhone(u)
       PROVE  procs' = procs
  BY <1>14 DEF MovePhone
<1>15. Tick \/ UNCHANGED vars => procs' = procs
  BY DEF Tick, vars
<1> QED BY <1>6, <1>7, <1>8, <1>10, <1>11, <1>12, <1>13, <1>14, <1>15 DEF Next, Advance

LEMMA CreateRow ==
  ASSUME IndInv, NEW g \in Goroutines, Create(g), Issued(g)
  PROVE  /\ DOMAIN codes = 1..Len(codes) /\ Len(codes) \in Nat
         /\ DOMAIN codes' = DOMAIN codes \cup {Len(codes) + 1}
         /\ Len(codes) + 1 \notin DOMAIN codes
         /\ \A i \in DOMAIN codes :
              /\ codes'[i].user = codes[i].user /\ codes'[i].purpose = codes[i].purpose
              /\ codes'[i].phone = codes[i].phone /\ codes'[i].at = codes[i].at
              /\ codes'[i].attempts = codes[i].attempts
              /\ codes'[i].state = "deleted" <=> codes[i].state = "deleted"
         /\ LET row == codes'[Len(codes) + 1]
            IN /\ row.user = procs[g].user /\ row.purpose = procs[g].purpose
               /\ row.phone = procs[g].phone /\ row.at = procs[g].at
               /\ row.attempts = 0 /\ row.state = "live"
<1>1. DOMAIN codes = 1..Len(codes) /\ Len(codes) \in Nat
  BY Shapes DEF IndInv
<1>2. DOMAIN codes' = 1..(Len(codes) + 1)
  BY CreatedRows
<1>3. DOMAIN codes' = DOMAIN codes \cup {Len(codes) + 1} /\ Len(codes) + 1 \notin DOMAIN codes
  BY <1>1, <1>2
<1>4. codes'[Len(codes) + 1] = NewRow(g)
  BY CreatedRows
<1> QED BY <1>1, <1>3, <1>4, CreatedRows DEF Onward, NewRow

-----------------------------------------------------------------------------
\* Guesses
LEMMA GuessStep ==
  ASSUME IndInv, GuessInv, [Next]_vars
  PROVE  GuessInv'
<1> SUFFICES ASSUME SingleInstance
             PROVE  GuessCounted'
  BY DEF GuessInv, SingleInstance
<1>1. GuessCounted /\ MaxAttempts \in Nat
  BY LimitsAssumption DEF GuessInv
<1>2. \A g \in Goroutines : procs[g].pc \in {"miss", "redeem", "retire"} =>
        /\ procs[g].code \in DOMAIN codes
        /\ codes[procs[g].code].user = procs[g].user
  BY DEF IndInv, TypeOK, RightCode
<1>3. \A i \in DOMAIN codes : codes[i].attempts \in Nat
  BY Shapes DEF IndInv
\* a guess under way is one that was, or one that has just read the row
<1>4. ASSUME NEW g \in Goroutines, procs'[g].pc = "miss"
      PROVE  procs'[g] = procs[g] \/ Find(g)
  <2>1. procs \in [Goroutines -> ProcStates]
    BY Shapes DEF IndInv
  <2>2. ASSUME Return(g)
        PROVE  procs'[g].pc # "miss"
    BY <2>1, <2>2, IdleTyped DEF Return
  <2>3. ASSUME NEW pc \in {"hourly", "supersede"}, Goto(g, pc)
        PROVE  procs'[g].pc # "miss"
    BY <2>1, <2>3 DEF Goto, ProcStates
  <2>4. ASSUME CheckCooldown(g) \/ CheckHourly(g)
        PROVE  procs'[g].pc # "miss"
    BY <2>2, <2>3, <2>4 DEF CheckCooldown, CheckHourly
  <2>5. ASSUME Purge(g)
        PROVE  procs'[g].pc # "miss"
    BY <2>1, <2>5 DEF Purge, ProcStates
  <2>6. ASSUME Supersede(g)
        PROVE  procs'[g].pc # "miss"
    BY <2>1, <2>6 DEF Supersede, ProcStates
  <2> QED BY <1>4, <2>4, <2>5, <2>6, ProcsEvolve
<1>5. ASSUME NEW g \in Goroutines, Find(g), procs'[g].pc = "miss"
      PROVE  /\ codes' = codes
             /\ procs'[g].tries = codes[procs'[g].code].attempts
             /\ codes[procs'[g].code].attempts < MaxAttempts
  <2>1. ~ Return(g)
    BY <1>5, IdleTyped, Shapes DEF IndInv, Return
  <2>2. PICK i \in LiveOf(procs[g].user, procs[g].purpose), new \in ProcStates :
          /\ new.pc # "retire" => codes[i].attempts < MaxAttempts
          /\ new.code = i /\ new.tries = codes[i].attempts
          /\ procs' = [procs EXCEPT ![g] = new]
    BY <1>5, <2>1, FoundTyped
  <2>3. procs'[g] = new
    BY <2>2, Shapes DEF IndInv
  <2> QED BY <1>5, <2>2, <2>3 DEF Find
<1>6. CASE \/ SameRows
           \/ \E g \in Goroutines : Purge(g) /\ codes' = Purged
  <2>1. DOMAIN codes' = DOMAIN codes
        /\ \A i \in DOMAIN codes : codes'[i].attempts = codes[i].attempts
    BY <1>6, PurgedRows DEF SameRows
  <2> QED BY <1>1, <1>2, <1>4, <1>5, <2>1 DEF GuessCounted, GuessLimit
<1>7. ASSUME NEW h \in Goroutines, Create(h), Issued(h)
      PROVE  GuessCounted'
  <2>1. /\ \A i \in DOMAIN codes' : i \in DOMAIN codes \/ codes'[i].attempts = 0
        /\ \A i \in DOMAIN codes : codes'[i].attempts = codes[i].attempts
    BY <1>7, CreateRow
  <2>2. GuessLimit'
    BY <1>1, <2>1 DEF GuessCounted, GuessLimit
  <2> QED BY <1>1, <1>2, <1>4, <1>5, <2>1, <2>2 DEF GuessCounted
<1>8. ASSUME NEW h \in Goroutines, Miss(h)
      PROVE  GuessCounted'
  <2>1. /\ procs[h].pc = "miss"
        /\ procs' = [procs EXCEPT ![h] = Idle]
    BY <1>8 DEF Miss, Return
  <2>2. codes[procs[h].code].attempts < MaxAttempts
    BY <1>1, <2>1 DEF GuessCounted
  <2>3. DOMAIN codes' = DOMAIN codes
        /\ \A i \in DOMAIN codes : \/ codes'[i].attempts = codes[i].attempts
                                   \/ /\ i = procs[h].code
                                      /\ codes'[i].attempts = codes[i].attempts + 1
    BY <1>8, MissedRows
  <2>4. GuessLimit'
    BY <1>1, <1>3, <2>2, <2>3 DEF GuessCounted, GuessLimit
  <2>5. ASSUME NEW g \in Goroutines, procs'[g].pc = "miss", procs'[g] = procs[g]
        PROVE  codes'[procs'[g].code].attempts = codes[procs[g].code].attempts
    <3>1. g # h
      BY <2>1, <2>5, IdleTyped, Shapes DEF IndInv
    <3>2. procs[g].user # procs[h].user
      BY <2>1, <2>5, <3>1 DEF IndInv, LockHeld, UnderLock, SingleInstance
    <3>3. procs[g].code # procs[h].code
      BY <1>2, <2>1, <2>5, <3>2
    <3> QED BY <1>2, <2>3, <2>5, <3>3
  <2> QED BY <1>1, <1>4, <1>5, <2>4, <2>5 DEF GuessCounted
<1> QED BY <1>6, <1>7, <1>8, RowsEvolve

\* At most MaxAttempts wrong guesses are counted against a code, in one
\* instance (Find and Miss under the lock of the user).
THEOREM GuessesLimited == Spec => [](SingleInstance => GuessLimit)
<1>1. Init => IndInv /\ GuessInv
  <2>1. Init => GuessInv
    BY IdleTyped DEF Init, GuessInv, GuessCounted, GuessLimit
  <2> QED BY <2>1, InitInv
<1>2. (IndInv /\ GuessInv) /\ [Next]_vars => (IndInv /\ GuessInv)'
  BY NextInv, GuessStep
<1>3. IndInv /\ GuessInv => (SingleInstance => GuessLimit)
  BY DEF GuessInv, GuessCounted
<1> QED BY <1>1, <1>2, <1>3, PTL DEF Spec

-----------------------------------------------------------------------------
\* What a step does to a call that is then under the lock to issue.
LEMMA IssuerStays ==
  ASSUME IndInv, [Next]_vars, NEW g \in Goroutines, procs'[g].pc \in Timed
  PROVE  \/ procs'[g] = procs[g]
         \/ Purge(g) /\ procs'[g].pc = "cooldown" /\ procs'[g].at = clock
         \/ /\ procs'[g].phone = procs[g].phone /\ procs'[g].purpose = procs[g].purpose
            /\ procs'[g].user = procs[g].user /\ procs'[g].at = procs[g].at
            /\ codes' = codes
            /\ \/ /\ procs[g].pc = "cooldown" /\ procs'[g].pc = "hourly"
                  /\ Counted(g, Cooldown) = {}
               \/ /\ procs[g].pc = "hourly" /\ procs'[g].pc = "supersede"
                  /\ Cardinality(Counted(g, Hour)) < MaxPerHour
               \/ procs[g].pc = "supersede" /\ procs'[g].pc = "create"
<1>1. procs \in [Goroutines -> ProcStates]
  BY Shapes DEF IndInv
<1>2. ~ Return(g)
  BY <1>1, IdleTyped DEF Return, Timed
<1>3. ~ Find(g)
  <2> SUFFICES ASSUME Find(g)
               PROVE  FALSE
    OBVIOUS
  <2>1. PICK new \in ProcStates : new.pc \in {"retire", "miss", "redeem"}
                                  /\ procs' = [procs EXCEPT ![g] = new]
    BY <1>2, FoundTyped
  <2> QED BY <1>1, <2>1 DEF Timed
<1>4. ASSUME Purge(g)
      PROVE  procs'[g].pc = "cooldown" /\ procs'[g].at = clock
  BY <1>1, <1>4 DEF Purge, ProcStates
<1>5. ASSUME NEW pc, Goto(g, pc)
      PROVE  /\ procs'[g].phone = procs[g].phone /\ procs'[g].purpose = procs[g].purpose
             /\ procs'[g].user = procs[g].user /\ procs'[g].at = procs[g].at
             /\ procs'[g].pc = pc
  BY <1>1, <1>5 DEF Goto, ProcStates
<1>6. ASSUME Supersede(g)
      PROVE  /\ procs'[g].phone = procs[g].phone /\ procs'[g].purpose = procs[g].purpose
             /\ procs'[g].user = procs[g].user /\ procs'[g].at = procs[g].at
             /\ procs'[g].pc = "create" /\ procs[g].pc = "supersede" /\ codes' = codes
  BY <1>1, <1>6 DEF Supersede, ProcStates
<1>7. procs'[g].pc \notin {"idle", "send", "enqueue", "undo", "find", "purge"}
  BY DEF Timed
<1>8. CheckCooldown(g) => /\ Goto(g, "hourly") /\ Counted(g, Cooldown) = {}
                          /\ procs[g].pc = "cooldown" /\ codes' = codes
  BY <1>2 DEF CheckCooldown
<1>9. CheckHourly(g) => /\ Goto(g, "supersede") /\ procs[g].pc = "hourly"
                        /\ Cardinality(Counted(g, Hour)) < MaxPerHour /\ codes' = codes
  BY <1>2 DEF CheckHourly
<1> QED BY <1>3, <1>4, <1>5, <1>6, <1>7, <1>8, <1>9, ProcsEvolve

\* Rows are what they were but for the guesses, and nothing is deleted.
SameTimes ==
  /\ DOMAIN codes' = DOMAIN codes
  /\ \A i \in DOMAIN codes :
       /\ codes'[i].user = codes[i].user /\ codes'[i].purpose = codes[i].purpose
       /\ codes'[i].phone = codes[i].phone /\ codes'[i].at = codes[i].at

LEMMA TimesEvolve ==
  ASSUME IndInv, [Next]_vars
  PROVE  \/ SameTimes /\ SameDeleted
         \/ \E g \in Goroutines : Purge(g) /\ codes' = Purged
         \/ \E g \in Goroutines : Create(g) /\ Issued(g)
<1>1. SameRows => SameTimes
  BY DEF SameRows, SameTimes
<1>2. ASSUME NEW g \in Goroutines, Miss(g)
      PROVE  SameTimes /\ SameDeleted
  BY <1>2, MissedRows DEF SameTimes, SameDeleted
<1> QED BY <1>1, <1>2, RowsEvolve

LEMMA ClockMoves ==
  ASSUME IndInv, [Next]_vars
  PROVE  clock' \in Nat /\ clock <= clock' /\ (clock' = clock \/ codes' = codes)
<1>1. clock \in Nat
  BY Shapes DEF IndInv
<1>2. ASSUME NEW g \in Goroutines,
             AskChange(g) \/ StartRedeem(g) \/ TakeJob(g) \/ Purge(g) \/ Find(g) \/ Abort(g)
      PROVE  clock' = clock
  BY <1>2 DEF AskChange, StartRedeem, TakeJob, Purge, Find, Abort
<1>3. ASSUME NEW g \in Goroutines, Advance(g)
      PROVE  clock' = clock
  BY <1>3 DEF Advance, CheckCooldown, CheckHourly, Supersede, Create, HandOver, Send,
              Undo, Retire, Miss, Redeem
<1>4. ASSUME NEW k \in Instances, AskReset(k) \/ Restart(k)
      PROVE  clock' = clock
  BY <1>4 DEF AskReset, Restart
<1>5. ASSUME NEW u \in Users, MovePhone(u)
      PROVE  clock' = clock
  BY <1>5 DEF MovePhone
<1>6. Tick => clock' = clock + 1 /\ codes' = codes
  BY DEF Tick
<1>7. UNCHANGED vars => clock' = clock
  BY DEF vars
<1> QED BY <1>1, <1>2, <1>3, <1>4, <1>5, <1>6, <1>7 DEF Next

LEMMA DeletedStep ==
  ASSUME IndInv, DeletedInTime, [Next]_vars
  PROVE  DeletedInTime'
<1>1. /\ clock \in Nat /\ clock' \in Nat /\ clock <= clock' /\ Retention \in Nat
      /\ \A i \in DOMAIN codes : codes[i].at \in Nat
  BY Shapes, ClockMoves, TimesAssumption DEF IndInv
<1>2. CASE SameTimes /\ SameDeleted
  BY <1>1, <1>2 DEF SameTimes, SameDeleted, DeletedInTime
<1>3. CASE \E g \in Goroutines : Purge(g) /\ codes' = Purged
  <2>1. /\ DOMAIN codes' = DOMAIN codes
        /\ \A i \in DOMAIN codes :
             /\ codes'[i].at = codes[i].at
             /\ \/ codes'[i].state = codes[i].state
                \/ codes[i].at + Retention < clock
    BY <1>3, PurgedRows
  <2> QED BY <1>1, <2>1 DEF DeletedInTime
<1>4. CASE \E g \in Goroutines : Create(g) /\ Issued(g)
  <2>1. \A i \in DOMAIN codes' :
          \/ codes'[i].state = "live"
          \/ /\ i \in DOMAIN codes /\ codes'[i].at = codes[i].at
             /\ codes'[i].state = "deleted" <=> codes[i].state = "deleted"
    BY <1>4, CreateRow
  <2> QED BY <1>1, <2>1 DEF DeletedInTime
<1> QED BY <1>2, <1>3, <1>4, TimesEvolve

\* The promise is about whom, what and when the rows are of.
LEMMA LimitedStays ==
  ASSUME CodesLimited, SameTimes
  PROVE  CodesLimited'
<1>1. \A i, j \in DOMAIN codes : SameCounter(i, j)' <=> SameCounter(i, j)
  BY DEF SameTimes, SameCounter
<1>2. ASSUME NEW i \in DOMAIN codes
      PROVE  {j \in DOMAIN codes' : /\ SameCounter(i, j)' /\ codes'[i].at <= codes'[j].at
                                    /\ codes'[j].at < codes'[i].at + Hour}
             = {j \in DOMAIN codes : /\ SameCounter(i, j) /\ codes[i].at <= codes[j].at
                                     /\ codes[j].at < codes[i].at + Hour}
  BY <1>1 DEF SameTimes
<1> QED BY <1>1, <1>2 DEF SameTimes, CodesLimited

\* A code issued after the checks keeps its distance, and is one of at most
\* MaxPerHour in any hour.
LEMMA LimitedStep ==
  ASSUME IndInv, CodesLimited, NEW g \in Goroutines, Create(g), Issued(g), IssuedInTime(g)
  PROVE  CodesLimited'
<1>0. PICK n \in Nat, now \in Nat : n = Len(codes) + 1 /\ now = procs[g].at
  BY Shapes DEF IndInv
<1> DEFINE Window(i) == {j \in DOMAIN codes : /\ SameCounter(i, j)
                                              /\ codes[i].at <= codes[j].at
                                              /\ codes[j].at < codes[i].at + Hour}
           Windowed(i) == {j \in DOMAIN codes' : /\ SameCounter(i, j)'
                                                 /\ codes'[i].at <= codes'[j].at
                                                 /\ codes'[j].at < codes'[i].at + Hour}
<1>1. /\ DOMAIN codes = 1..Len(codes) /\ Len(codes) \in Nat
      /\ DOMAIN codes' = DOMAIN codes \cup {n} /\ n \notin DOMAIN codes
      /\ now \in Nat /\ Hour \in Nat /\ MaxPerHour \in Nat
      /\ \A i \in DOMAIN codes : codes[i].at \in Nat
  BY <1>0, CreateRow, Shapes, TimesAssumption, LimitsAssumption DEF IndInv
<1>2. /\ \A i \in DOMAIN codes : Charged(g, i) => codes[i].at + Cooldown <= now
      /\ Cardinality(Recent(g)) < MaxPerHour
  BY <1>0 DEF Create, IssuedInTime
<1>3. \A i \in DOMAIN codes :
        /\ codes'[i].user = codes[i].user /\ codes'[i].purpose = codes[i].purpose
        /\ codes'[i].phone = codes[i].phone /\ codes'[i].at = codes[i].at
  BY CreateRow
<1>4. /\ codes'[n].user = procs[g].user /\ codes'[n].purpose = procs[g].purpose
      /\ codes'[n].phone = procs[g].phone /\ codes'[n].at = now
  BY <1>0, CreateRow
<1>5. \A i, j \in DOMAIN codes : SameCounter(i, j)' <=> SameCounter(i, j)
  BY <1>3 DEF SameCounter
<1>6. \A i \in DOMAIN codes : SameCounter(i, n)' => Charged(g, i)
  BY <1>3, <1>4 DEF SameCounter, Charged
<1>7. \A i \in DOMAIN codes : SameCounter(n, i)' => Charged(g, i)
  BY <1>3, <1>4 DEF SameCounter, Charged
<1>8. \A i, j \in DOMAIN codes : SameCounter(i, n)' /\ SameCounter(i, j) => Charged(g, j)
  BY <1>3, <1>4 DEF SameCounter, Charged
<1>9. \A i, j \in DOMAIN codes' :
        i < j /\ SameCounter(i, j)' => codes'[i].at + Cooldown <= codes'[j].at
  <2> SUFFICES ASSUME NEW i \in DOMAIN codes', NEW j \in DOMAIN codes',
                      i < j, SameCounter(i, j)'
               PROVE  codes'[i].at + Cooldown <= codes'[j].at
    OBVIOUS
  <2>1. i \in DOMAIN codes
    BY <1>0, <1>1
  <2>2. CASE j = n
    BY <1>2, <1>3, <1>4, <1>6, <2>1, <2>2
  <2>3. CASE j \in DOMAIN codes
    BY <1>3, <1>5, <2>1, <2>3 DEF CodesLimited
  <2> QED BY <1>1, <2>2, <2>3
<1>10. IsFiniteSet(Recent(g)) /\ Cardinality(Recent(g)) \in Nat
       /\ Cardinality(Recent(g) \cup {n}) <= MaxPerHour
       /\ IsFiniteSet(Recent(g) \cup {n})
       /\ Cardinality(Recent(g) \cup {n}) \in Nat
  <2>1. IsFiniteSet(DOMAIN codes)
    BY <1>1, FS_Interval
  <2>2. IsFiniteSet(Recent(g)) /\ Cardinality(Recent(g)) \in Nat
    BY <2>1, FS_Subset, FS_CardinalityType DEF Recent
  <2>3. n \notin Recent(g)
    BY <1>1 DEF Recent
  <2>4. IsFiniteSet(Recent(g) \cup {n})
        /\ Cardinality(Recent(g) \cup {n}) = Cardinality(Recent(g)) + 1
    BY <2>2, <2>3, FS_AddElement
  <2> QED BY <1>1, <1>2, <2>2, <2>4
<1>11. ASSUME NEW i \in DOMAIN codes', Windowed(i) \subseteq Recent(g) \cup {n}
       PROVE  Cardinality(Windowed(i)) <= MaxPerHour
  <2>1. Cardinality(Windowed(i)) <= Cardinality(Recent(g) \cup {n})
        /\ Cardinality(Windowed(i)) \in Nat
    BY <1>10, <1>11, FS_Subset, FS_CardinalityType
  <2> QED BY <1>1, <1>10, <2>1
<1>12. ASSUME NEW i \in DOMAIN codes', n \in Windowed(i)
       PROVE  Windowed(i) \subseteq Recent(g) \cup {n}
  <2> SUFFICES ASSUME NEW j \in DOMAIN codes, j \in Windowed(i)
               PROVE  Charged(g, j) /\ codes[j].at + Hour > now
    BY <1>0, <1>1 DEF Recent
  <2>1. /\ SameCounter(i, j)' /\ codes'[i].at <= codes[j].at
        /\ now < codes'[i].at + Hour /\ SameCounter(i, n)'
    BY <1>3, <1>4, <1>12
  <2>2. codes'[i].at \in Nat
    BY <1>1, <1>3, <1>4
  <2>3. codes[j].at + Hour > now
    BY <1>1, <2>1, <2>2
  <2>4. CASE i = n
    BY <1>7, <2>1, <2>3, <2>4
  <2>5. CASE i \in DOMAIN codes
    BY <1>5, <1>8, <2>1, <2>3, <2>5
  <2> QED BY <1>1, <2>4, <2>5
<1>13. ASSUME NEW i \in DOMAIN codes', n \notin Windowed(i)
       PROVE  Cardinality(Windowed(i)) <= MaxPerHour
  <2>1. CASE i \in DOMAIN codes
    <3>1. Windowed(i) = Window(i)
      BY <1>1, <1>3, <1>5, <1>13, <2>1
    <3>2. Cardinality(Window(i)) <= MaxPerHour
      BY <2>1 DEF CodesLimited
    <3> QED BY <3>1, <3>2
  <2>2. CASE i = n
    <3>1. SameCounter(n, n)'
      BY DEF SameCounter
    <3>2. ASSUME NEW j \in Windowed(n)
          PROVE  FALSE
      <4>1. /\ now <= codes'[j].at /\ codes'[j].at < now + Hour
            /\ codes'[j].at \in Nat
        BY <1>1, <1>3, <1>4, <3>2
      <4>2. now < now + Hour
        BY <1>1, <4>1
      <4> QED BY <1>1, <1>4, <1>13, <2>2, <3>1, <4>2
    <3>3. Windowed(i) = {}
      BY <2>2, <3>2
    <3>4. Cardinality({}) <= MaxPerHour
      BY <1>1, FS_EmptySet
    <3> HIDE DEF Windowed
    <3> QED BY <3>3, <3>4
  <2> QED BY <1>1, <2>1, <2>2
<1>14. \A i \in DOMAIN codes' : Cardinality(Windowed(i)) <= MaxPerHour
  BY <1>11, <1>12, <1>13
<1> QED BY <1>9, <1>14 DEF CodesLimited

\* What a call has established stays true until it inserts its code.
LEMMA IssuedStep ==
  ASSUME IndInv, SingleInstance, Apart, Apart', DeletedInTime, [Next]_vars,
         NEW g \in Goroutines, IssuedInTime(g)
  PROVE  IssuedInTime(g)'
<1> SUFFICES ASSUME procs'[g].pc \in Timed
             PROVE  IssuedInTime(g)'
  BY DEF IssuedInTime, Timed
<1>1. /\ {Cooldown, Hour, Retention} \subseteq Nat
      /\ Cooldown <= Hour /\ Hour < Retention
  BY TimesAssumption
<1>2. /\ \A i \in DOMAIN codes : codes[i].at \in Nat
      /\ \A h \in Goroutines : procs[h].at \in Nat
      /\ clock \in Nat
  BY Shapes DEF IndInv
<1>3. DeletedInTime'
  BY DeletedStep
\* the call begins: it has read the clock and purged the table
<1>4. CASE Purge(g) /\ procs'[g].pc = "cooldown" /\ procs'[g].at = clock
  <2>1. clock' = clock
    BY <1>4 DEF Purge
  <2>2. \A i \in DOMAIN codes' : codes'[i].at \in Nat
    <3>1. codes' \in Seq(Codes)
      BY NextInv DEF IndInv, TypeOK
    <3>2. \A i \in DOMAIN codes' : codes'[i] \in Codes
      BY <3>1, LenProperties
    <3> QED BY <3>2 DEF Codes
  <2>3. \A i \in DOMAIN codes' :
          codes'[i].state = "deleted" => codes'[i].at + Hour < clock
    BY <1>1, <1>2, <1>3, <2>1, <2>2 DEF DeletedInTime
  <2> QED BY <1>4, <2>3 DEF IssuedInTime
\* the call checks
<1>5. CASE /\ procs'[g].phone = procs[g].phone /\ procs'[g].purpose = procs[g].purpose
           /\ procs'[g].user = procs[g].user /\ procs'[g].at = procs[g].at
           /\ codes' = codes
  <2>1. \A i \in DOMAIN codes : Charged(g, i)' <=> Charged(g, i)
    BY <1>5 DEF Charged
  <2>2. Recent(g)' = Recent(g)
    BY <1>5, <2>1 DEF Recent
  <2>3. procs[g].pc \in Timed =>
          \A i \in DOMAIN codes :
            codes[i].state = "deleted" => codes[i].at + Hour < procs[g].at
    BY DEF IssuedInTime
  <2>4. CASE /\ procs[g].pc = "cooldown" /\ procs'[g].pc = "hourly"
             /\ Counted(g, Cooldown) = {}
    <3>1. \A i \in DOMAIN codes : Charged(g, i) => codes[i].at + Cooldown <= procs[g].at
      <4> SUFFICES ASSUME NEW i \in DOMAIN codes, Charged(g, i)
                   PROVE  codes[i].at + Cooldown <= procs[g].at
        OBVIOUS
      <4>1. CASE codes[i].state = "deleted"
        BY <1>1, <1>2, <2>3, <2>4, <4>1 DEF Timed
      <4>2. CASE codes[i].state # "deleted"
        <5>1. ~ (codes[i].at + Cooldown > procs[g].at)
          BY <2>4, <4>2 DEF Counted, Stored, Charged
        <5> QED BY <1>1, <1>2, <5>1
      <4> QED BY <4>1, <4>2
    <3> QED BY <1>5, <2>1, <2>3, <2>4, <3>1 DEF IssuedInTime, Timed
  <2>5. CASE /\ procs[g].pc = "hourly" /\ procs'[g].pc = "supersede"
             /\ Cardinality(Counted(g, Hour)) < MaxPerHour
    <3>1. \A i \in DOMAIN codes :
            codes[i].state = "deleted" => ~ (codes[i].at + Hour > procs[g].at)
      BY <1>1, <1>2, <2>3, <2>5 DEF Timed
    <3>2. Recent(g) = Counted(g, Hour)
      BY <3>1 DEF Recent, Counted, Stored, Charged
    <3> QED BY <1>5, <2>1, <2>2, <2>3, <2>5, <3>2 DEF IssuedInTime, Timed
  <2>6. CASE procs[g].pc = "supersede" /\ procs'[g].pc = "create"
    BY <1>5, <2>1, <2>2, <2>3, <2>6 DEF IssuedInTime, Timed
  <2>7. CASE procs'[g].pc = procs[g].pc
    BY <1>5, <2>1, <2>2, <2>3, <2>7 DEF IssuedInTime, Timed
  <2>8. CASE procs'[g] = procs[g]
    BY <2>7, <2>8
  <2>9. CASE Purge(g) /\ procs'[g].pc = "cooldown" /\ procs'[g].at = clock
    BY <1>4, <2>9
  <2> QED BY <2>4, <2>5, <2>6, <2>8, <2>9, IssuerStays
\* another call moves
<1>6. CASE procs'[g] = procs[g]
  <2>1. procs[g].pc \in Timed /\ procs[g].pc \in UnderLock
    BY <1>6 DEF Timed, UnderLock
  <2>2. CASE SameTimes /\ SameDeleted
    <3>1. \A i \in DOMAIN codes : Charged(g, i)' <=> Charged(g, i)
      BY <1>6, <2>2 DEF Charged, SameTimes
    <3>2. Recent(g)' = Recent(g)
      BY <1>6, <2>2, <3>1 DEF Recent, SameTimes
    <3> QED BY <1>6, <2>2, <3>1, <3>2 DEF IssuedInTime, SameTimes, SameDeleted
  <2>3. ASSUME NEW h \in Goroutines, Purge(h), codes' = Purged
        PROVE  IssuedInTime(g)'
    <3>1. procs[h].user # procs[g].user
      BY <2>1, <2>3 DEF Purge, LockFree, SingleInstance
    <3>2. /\ procs'[h].pc \in Timed /\ procs'[h].user = procs[h].user
          /\ procs'[g] = procs[g] /\ clock' = clock
      BY <1>6, <2>3, Shapes DEF IndInv, Purge, Timed, ProcStates
    <3>3. clock + Hour <= procs[g].at + Retention
      BY <2>1, <3>1, <3>2 DEF Apart
    <3>4. /\ DOMAIN codes' = DOMAIN codes
          /\ \A i \in DOMAIN codes :
               /\ codes'[i].user = codes[i].user /\ codes'[i].purpose = codes[i].purpose
               /\ codes'[i].phone = codes[i].phone /\ codes'[i].at = codes[i].at
               /\ \/ codes'[i].state = codes[i].state
                  \/ codes[i].at + Retention < clock
      BY <2>3, PurgedRows
    <3>5. \A i \in DOMAIN codes : Charged(g, i)' <=> Charged(g, i)
      BY <1>6, <3>4 DEF Charged
    <3>6. Recent(g)' = Recent(g)
      BY <1>6, <3>4, <3>5 DEF Recent
    <3>7. \A i \in DOMAIN codes :
            codes'[i].state = "deleted" => codes[i].at + Hour < procs[g].at
      BY <1>1, <1>2, <2>1, <3>3, <3>4 DEF IssuedInTime
    <3> QED BY <1>6, <3>4, <3>5, <3>6, <3>7 DEF IssuedInTime
  <2>4. ASSUME NEW h \in Goroutines, Create(h), Issued(h)
        PROVE  IssuedInTime(g)'
    <3>1. procs[h].pc \in Timed /\ procs[h].pc \in UnderLock
      BY <2>4 DEF Create, Timed, UnderLock
    <3>2. g # h
      <4>1. procs'[h].pc \in {"send", "enqueue"}
        BY <2>4, IssuedCall
      <4> QED BY <4>1 DEF Timed
    <3>3. procs[h].user # procs[g].user
      BY <2>1, <3>1, <3>2 DEF IndInv, LockHeld, SingleInstance
    <3>4. procs[g].purpose # "email_reset" => procs[h].phone # procs[g].phone
      BY <2>1, <3>1, <3>3 DEF Apart
    <3>5. PICK n \in Nat : n = Len(codes) + 1
      BY <1>2, Shapes DEF IndInv
    <3>6. /\ DOMAIN codes' = DOMAIN codes \cup {n}
          /\ \A i \in DOMAIN codes :
               /\ codes'[i].user = codes[i].user /\ codes'[i].purpose = codes[i].purpose
               /\ codes'[i].phone = codes[i].phone /\ codes'[i].at = codes[i].at
               /\ codes'[i].state = "deleted" <=> codes[i].state = "deleted"
          /\ codes'[n].user = procs[h].user /\ codes'[n].phone = procs[h].phone
          /\ codes'[n].state = "live" /\ n \notin DOMAIN codes
      BY <2>4, <3>5, CreateRow
    <3>7. ~ Charged(g, n)'
      BY <1>6, <3>3, <3>4, <3>6 DEF Charged
    <3>8. \A i \in DOMAIN codes : Charged(g, i)' <=> Charged(g, i)
      BY <1>6, <3>6 DEF Charged
    <3>9. Recent(g)' = Recent(g)
      BY <1>6, <3>6, <3>7, <3>8 DEF Recent
    <3> QED BY <1>6, <3>6, <3>7, <3>8, <3>9 DEF IssuedInTime
  <2> QED BY <2>2, <2>3, <2>4, TimesEvolve
<1> QED BY <1>4, <1>5, <1>6, IssuerStays

LEMMA TimeStep ==
  ASSUME IndInv, SingleInstance, Apart, Apart', CodesInTime, [Next]_vars
  PROVE  CodesInTime'
<1>1. DeletedInTime' /\ \A g \in Goroutines : IssuedInTime(g)'
  BY DeletedStep, IssuedStep DEF CodesInTime
<1>2. ASSUME SameTimes
      PROVE  CodesLimited'
  BY <1>2, LimitedStays DEF CodesInTime
<1>3. ASSUME codes' = Purged
      PROVE  SameTimes
  BY <1>3, PurgedRows DEF SameTimes
<1>4. ASSUME NEW g \in Goroutines, Create(g), Issued(g)
      PROVE  CodesLimited'
  BY <1>4, LimitedStep DEF CodesInTime
<1>5. CodesLimited'
  BY <1>2, <1>3, <1>4, TimesEvolve
<1> QED BY <1>1, <1>5 DEF CodesInTime

LEMMA InitTime == Init => CodesInTime
<1> SUFFICES ASSUME Init
             PROVE  CodesInTime
  OBVIOUS
<1>1. codes = <<>> /\ \A g \in Goroutines : procs[g].pc = "idle"
  BY IdleTyped DEF Init
<1>2. DOMAIN codes = {}
  BY <1>1
<1> QED BY <1>1, <1>2 DEF CodesInTime, CodesLimited, DeletedInTime, IssuedInTime, Timed

\* "Per phone: one code per ResendCooldown, at most MaxPerHour"
\* (service.go:8-9), in one instance, for any number of accounts of which no
\* two that issue at once send to one number.
THEOREM CodesKeepLimits == Spec /\ []Apart => [](SingleInstance => CodesLimited)
<1> DEFINE Inv == SingleInstance => CodesInTime
<1>1. Init => IndInv /\ Inv
  BY InitInv, InitTime
<1>2. IndInv /\ Inv /\ Apart /\ Apart' /\ [Next]_vars => IndInv' /\ Inv'
  <2>1. SingleInstance' <=> SingleInstance
    BY DEF SingleInstance
  <2> QED BY <2>1, NextInv, TimeStep
<1>3. Inv => (SingleInstance => CodesLimited)
  BY DEF CodesInTime
<1> QED BY <1>1, <1>2, <1>3, PTL DEF Spec

\* The same for one account, whatever stalls.
THEOREM CodesKeepLimitsOfOne == Spec => [](SingleInstance /\ SingleAccount => CodesLimited)
<1> DEFINE Inv == SingleInstance /\ SingleAccount => CodesInTime
<1>1. Init => IndInv /\ Inv
  BY InitInv, InitTime
<1>2. IndInv /\ Inv /\ [Next]_vars => IndInv' /\ Inv'
  <2> SUFFICES ASSUME IndInv, Inv, [Next]_vars
               PROVE  IndInv' /\ Inv'
    OBVIOUS
  <2>1. IndInv'
    BY NextInv
  <2>2. ASSUME SingleAccount
        PROVE  Apart /\ Apart'
    <3>1. \A g \in Goroutines : procs[g].user \in Users /\ procs'[g].user \in Users
      BY <2>1 DEF IndInv, TypeOK, ProcStates
    <3> QED BY <2>2, <3>1 DEF Apart, SingleAccount
  <2>3. (SingleInstance /\ SingleAccount)' <=> (SingleInstance /\ SingleAccount)
    BY DEF SingleInstance, SingleAccount
  <2> QED BY <2>1, <2>2, <2>3, TimeStep
<1>3. Inv => (SingleInstance /\ SingleAccount => CodesLimited)
  BY DEF CodesInTime
<1> QED BY <1>1, <1>2, <1>3, PTL DEF Spec

-----------------------------------------------------------------------------
\* Codes that do not arrive

\* A call that delivers a code goes on until it is handed over, sent or undone.
LEMMA DeliveryStays ==
  ASSUME IndInv, ~ Errors, [Next]_vars, NEW g \in Goroutines,
         procs[g].pc \in {"enqueue", "send", "undo"}
  PROVE  procs'[g] = procs[g] \/ HandOver(g) \/ Send(g) \/ Undo(g)
<1>1. procs \in [Goroutines -> ProcStates]
  BY Shapes DEF IndInv
<1>2. ASSUME NEW h \in Goroutines, NEW new, procs' = [procs EXCEPT ![h] = new], g # h
      PROVE  procs'[g] = procs[g]
  BY <1>1, <1>2
<1>3. ASSUME NEW h \in Goroutines, NEW pc, Goto(h, pc), g # h
      PROVE  procs'[g] = procs[g]
  BY <1>1, <1>3 DEF Goto
<1>4. ASSUME NEW h \in Goroutines, Advance(h), g # h
      PROVE  procs'[g] = procs[g]
  <2>1. ASSUME Supersede(h)
        PROVE  procs'[g] = procs[g]
    BY <1>1, <1>4, <2>1 DEF Supersede
  <2> QED BY <1>2, <1>3, <1>4, <2>1 DEF Advance, CheckCooldown, CheckHourly, Create, Issued,
             HandOver, Send, Undo, Retire, Miss, Redeem, Return
<1>5. ASSUME Advance(g)
      PROVE  HandOver(g) \/ Send(g) \/ Undo(g)
  BY <1>5 DEF Advance, CheckCooldown, CheckHourly, Supersede, Create, Retire, Miss, Redeem
<1>6. ASSUME NEW h \in Goroutines, AskChange(h) \/ StartRedeem(h)
      PROVE  procs'[g] = procs[g]
  <2>1. g # h
    BY <1>6 DEF AskChange, StartRedeem
  <2> QED BY <1>2, <1>6, <2>1 DEF AskChange, StartRedeem, Begin
<1>7. ASSUME NEW h \in Goroutines, TakeJob(h)
      PROVE  procs'[g] = procs[g]
  <2>1. g # h
    BY <1>7 DEF TakeJob
  <2>2. \/ procs' = procs
        \/ \E new : procs' = [procs EXCEPT ![h] = new]
    <3> DEFINE job == Head(queue[Instance[h]])
    <3>1. job \in Jobs
      BY <1>7, TailTyped DEF TakeJob, Instances
    <3>2. job.kind \in {"reset", "email_reset", "deliver"}
      BY <3>1 DEF Jobs
    <3> QED BY <1>7, <3>2 DEF TakeJob, Begin
  <2> QED BY <1>2, <2>1, <2>2
<1>8. ASSUME NEW h \in Goroutines, Purge(h) \/ Find(h)
      PROVE  procs'[g] = procs[g]
  <2>1. g # h
    BY <1>8 DEF Purge, Find
  <2> QED BY <1>1, <1>8, <2>1 DEF Purge, Find, Return
<1>9. ASSUME NEW k \in Instances, AskReset(k)
      PROVE  procs' = procs
  BY <1>9 DEF AskReset
<1>10. ASSUME NEW u \in Users, MovePhone(u)
       PROVE  procs' = procs
  BY <1>10 DEF MovePhone
<1>11. Tick \/ UNCHANGED vars => procs' = procs
  BY DEF Tick, vars
<1>12. \A h \in Goroutines : ~ Abort(h)
  BY DEF Abort
<1>13. \A k \in Instances : ~ Restart(k)
  BY DEF Restart
<1> QED BY <1>4, <1>5, <1>6, <1>7, <1>8, <1>9, <1>10, <1>11, <1>12, <1>13 DEF Next

\* A job that waits goes on waiting until a worker takes it.
LEMMA JobStays ==
  ASSUME IndInv, ~ Errors, [Next]_vars, NEW k \in Instances, NEW n \in DOMAIN queue[k]
  PROVE  \/ \E m \in DOMAIN queue'[k] : queue'[k][m] = queue[k][n]
         \/ \E h \in Goroutines : TakeJob(h) /\ Head(queue[Instance[h]]) = queue[k][n]
<1>1. /\ queue \in [Instances -> Seq(Jobs)] /\ queue[k] \in Seq(Jobs)
      /\ DOMAIN queue[k] = 1..Len(queue[k]) /\ Len(queue[k]) \in Nat
  BY LenProperties DEF IndInv, TypeOK
<1>2. CASE queue'[k] = queue[k]
  BY <1>2
<1>3. ASSUME NEW j \in Instances, NEW job \in Jobs, Enqueue(j, job)
      PROVE  \E m \in DOMAIN queue'[k] : queue'[k][m] = queue[k][n]
  <2>1. queue'[k] = queue[k] \/ queue'[k] = Append(queue[k], job)
    BY <1>1, <1>3 DEF Enqueue
  <2>2. CASE queue'[k] = Append(queue[k], job)
    <3>1. DOMAIN Append(queue[k], job) = 1..(Len(queue[k]) + 1)
          /\ Append(queue[k], job)[n] = queue[k][n]
      BY <1>1, AppendProperties
    <3> QED BY <1>1, <2>2, <3>1
  <2> QED BY <1>2, <2>1, <2>2
<1>4. ASSUME NEW j \in Instances, AskReset(j)
      PROVE  \E m \in DOMAIN queue'[k] : queue'[k][m] = queue[k][n]
  <2>1. /\ \A ph \in Phones : [kind |-> "reset", phone |-> ph] \in Jobs
        /\ \A u \in Users : [kind |-> "email_reset", user |-> u] \in Jobs
    BY DEF Jobs
  <2> QED BY <1>3, <1>4, <2>1 DEF AskReset
<1>5. ASSUME NEW h \in Goroutines, HandOver(h)
      PROVE  \E m \in DOMAIN queue'[k] : queue'[k][m] = queue[k][n]
  <2>1. [kind |-> "deliver", code |-> procs[h].code] \in Jobs /\ Instance[h] \in Instances
    BY Shapes DEF IndInv, Jobs, Instances
  <2> QED BY <1>3, <1>5, <2>1 DEF HandOver
<1>6. ASSUME NEW h \in Goroutines, TakeJob(h)
      PROVE  \/ \E m \in DOMAIN queue'[k] : queue'[k][m] = queue[k][n]
             \/ Head(queue[Instance[h]]) = queue[k][n]
  <2>1. Instance[h] \in Instances
        /\ queue' = [queue EXCEPT ![Instance[h]] = Tail(queue[Instance[h]])]
    BY <1>6 DEF TakeJob, Instances
  <2>2. CASE Instance[h] # k
    BY <1>1, <1>2, <2>1, <2>2
  <2>3. CASE Instance[h] = k /\ n = 1
    BY <1>1, <2>3
  <2>4. CASE Instance[h] = k /\ n # 1
    <3>1. queue'[k] = Tail(queue[k])
      BY <1>1, <2>1, <2>4
    <3>2. n - 1 \in DOMAIN Tail(queue[k]) /\ Tail(queue[k])[n - 1] = queue[k][n]
      BY <1>1, <2>4
    <3> QED BY <3>1, <3>2
  <2> QED BY <2>2, <2>3, <2>4
<1>7. ASSUME NEW h \in Goroutines,
             \/ AskChange(h) \/ StartRedeem(h) \/ Purge(h) \/ Find(h)
             \/ CheckCooldown(h) \/ CheckHourly(h) \/ Supersede(h) \/ Create(h)
             \/ Send(h) \/ Undo(h) \/ Retire(h) \/ Miss(h) \/ Redeem(h)
      PROVE  queue' = queue
  BY <1>7 DEF AskChange, StartRedeem, Purge, Find, CheckCooldown, CheckHourly, Supersede,
              Create, Send, Undo, Retire, Miss, Redeem
<1>8. ASSUME NEW u \in Users, MovePhone(u)
      PROVE  queue' = queue
  BY <1>8 DEF MovePhone
<1>9. Tick \/ UNCHANGED vars => queue' = queue
  BY DEF Tick, vars
<1>10. \A h \in Goroutines : ~ Abort(h)
  BY DEF Abort
<1>11. \A j \in Instances : ~ Restart(j)
  BY DEF Restart
<1> QED BY <1>2, <1>4, <1>5, <1>6, <1>7, <1>8, <1>9, <1>10, <1>11 DEF Next, Advance

\* A code that is on its way stays so, arrives, or is dead.
LEMMA DeliveryGoesOn ==
  ASSUME IndInv, ~ Errors, [Next]_vars, NEW i \in DOMAIN codes, InDelivery(i)
  PROVE  InDelivery(i)' \/ i \in sent' \/ codes'[i].state # "live"
<1>1. procs \in [Goroutines -> ProcStates]
  BY Shapes DEF IndInv
<1>2. ASSUME NEW g \in Goroutines, procs[g].code = i,
             procs[g].pc \in {"enqueue", "send", "undo"}
      PROVE  InDelivery(i)' \/ i \in sent' \/ codes'[i].state # "live"
  <2>1. ASSUME Goto(g, "undo")
        PROVE  InDelivery(i)'
    <3>1. procs'[g].pc = "undo" /\ procs'[g].code = i
      BY <1>1, <1>2, <2>1 DEF Goto, ProcStates
    <3> QED BY <3>1 DEF InDelivery
  <2>2. CASE procs'[g] = procs[g]
    BY <1>2, <2>2 DEF InDelivery
  <2>3. CASE HandOver(g)
    <3> DEFINE k == Instance[g]
               job == [kind |-> "deliver", code |-> i]
    <3>1. CASE Len(queue[k]) < QueueSize
      <4>1. k \in Instances /\ queue \in [Instances -> Seq(Jobs)] /\ job \in Jobs
        BY <1>2, Shapes DEF IndInv, TypeOK, Instances, Jobs
      <4>2. queue' = [queue EXCEPT ![k] = Append(queue[k], job)]
        BY <1>2, <2>3, <3>1 DEF HandOver, Enqueue
      <4> HIDE DEF k, job
      <4>3. queue[k] \in Seq(Jobs) /\ queue'[k] = Append(queue[k], job)
        BY <4>1, <4>2
      <4>4. Len(queue[k]) + 1 \in DOMAIN queue'[k] /\ queue'[k][Len(queue[k]) + 1] = job
        BY <4>1, <4>3, AppendProperties, LenProperties
      <4> QED BY <4>1, <4>4 DEF InDelivery, job
    <3>2. CASE ~ (Len(queue[k]) < QueueSize)
      BY <2>1, <2>3, <3>2 DEF HandOver
    <3> QED BY <3>1, <3>2
  <2>4. CASE Send(g)
    BY <1>2, <2>1, <2>4 DEF Send
  <2>5. CASE Undo(g)
    <3>1. CASE Live(i)
      BY <1>2, <2>5, <3>1, InvalidatedKeeps DEF Undo
    <3>2. CASE ~ Live(i)
      BY <1>2, <2>5, <3>2 DEF Undo, Invalidated, Live
    <3> QED BY <3>1, <3>2
  <2> QED BY <1>2, <2>2, <2>3, <2>4, <2>5, DeliveryStays
<1>3. ASSUME NEW k \in Instances, NEW n \in DOMAIN queue[k],
             queue[k][n] = [kind |-> "deliver", code |-> i]
      PROVE  InDelivery(i)'
  <2>1. CASE \E m \in DOMAIN queue'[k] : queue'[k][m] = queue[k][n]
    BY <1>3, <2>1 DEF InDelivery
  <2>2. ASSUME NEW h \in Goroutines, TakeJob(h), Head(queue[Instance[h]]) = queue[k][n]
        PROVE  InDelivery(i)'
    <3> DEFINE new == [Idle EXCEPT !.pc = "send", !.code = i]
    <3>1. procs' = [procs EXCEPT ![h] = new]
      <4> DEFINE job == Head(queue[Instance[h]])
      <4>1. job.kind = "deliver" /\ job.code = i
        BY <1>3, <2>2
      <4>2. procs' = [procs EXCEPT ![h] = [Idle EXCEPT !.pc = "send", !.code = job.code]]
        BY <2>2, <4>1 DEF TakeJob
      <4> HIDE DEF job
      <4> QED BY <4>1, <4>2
    <3>2. new.pc = "send" /\ new.code = i
      BY Shapes, IdleTyped DEF ProcStates
    <3> HIDE DEF new
    <3>3. procs'[h].pc = "send" /\ procs'[h].code = i
      BY <1>1, <3>1, <3>2
    <3> QED BY <3>3 DEF InDelivery
  <2> QED BY <2>1, <2>2, JobStays
<1> QED BY <1>2, <1>3 DEF InDelivery

LEMMA DeliveryStep ==
  ASSUME IndInv, ~ Errors, UndeliveredDies, [Next]_vars
  PROVE  UndeliveredDies'
<1>1. sent \subseteq sent'
  BY DEF Next, vars, Advance, Tick, AskReset, Restart, AskChange, StartRedeem, TakeJob, Purge,
     Find, Abort, CheckCooldown, CheckHourly, Supersede, Create, HandOver, Send, Undo,
     Retire, Miss, Redeem, MovePhone
<1>2. ASSUME NEW i \in DOMAIN codes, codes'[i].state = "live", codes[i].state = "live"
      PROVE  i \in sent' \/ InDelivery(i)'
  BY <1>1, <1>2, DeliveryGoesOn DEF UndeliveredDies, Live
<1>3. CASE SameRows
  BY <1>2, <1>3 DEF UndeliveredDies, SameRows, Live
<1>4. ASSUME codes' = Purged
      PROVE  UndeliveredDies'
  <2>1. DOMAIN codes' = DOMAIN codes
        /\ \A i \in DOMAIN codes : codes'[i].state = "live" => codes[i].state = "live"
    BY <1>4, PurgedRows
  <2> QED BY <1>2, <2>1 DEF UndeliveredDies, Live
<1>5. ASSUME NEW g \in Goroutines, Miss(g)
      PROVE  UndeliveredDies'
  <2>1. DOMAIN codes' = DOMAIN codes
        /\ \A i \in DOMAIN codes : codes'[i].state = "live" => codes[i].state = "live"
    BY <1>5, MissedRows
  <2> QED BY <1>2, <2>1 DEF UndeliveredDies, Live
<1>6. ASSUME NEW g \in Goroutines, Create(g), Issued(g)
      PROVE  UndeliveredDies'
  <2>1. PICK n \in Nat : n = Len(codes) + 1
    BY Shapes DEF IndInv
  <2>2. /\ DOMAIN codes' = DOMAIN codes \cup {n}
        /\ \A i \in DOMAIN codes : codes'[i].state = "live" => codes[i].state = "live"
    BY <1>6, <2>1, CreateRow, CreatedRows DEF Live
  <2>3. procs'[g].pc \in {"send", "enqueue"} /\ procs'[g].code = n
    BY <1>6, <2>1, IssuedCall
  <2>4. InDelivery(n)'
    BY <2>3 DEF InDelivery
  <2> QED BY <1>2, <2>2, <2>4 DEF UndeliveredDies, Live
<1> QED BY <1>3, <1>4, <1>5, <1>6, RowsEvolve

\* "a code the user never received must never stay redeemable"
\* (service.go:344-345): so it is while no statement fails and no instance
\* dies, in any number of instances and whatever the queues drop.
THEOREM UndeliveredCodesDie == Spec => [](~ Errors => UndeliveredDies)
<1> DEFINE Inv == ~ Errors => UndeliveredDies
<1>1. Init => IndInv /\ Inv
  <2>1. Init => UndeliveredDies
    BY DEF Init, UndeliveredDies
  <2> QED BY <2>1, InitInv
<1>2. IndInv /\ Inv /\ [Next]_vars => IndInv' /\ Inv'
  BY NextInv, DeliveryStep
<1> QED BY <1>1, <1>2, PTL DEF Spec
=============================================================================
