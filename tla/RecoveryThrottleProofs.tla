----------------------- MODULE RecoveryThrottleProofs -----------------------
(* The limit of RecoveryThrottle holds for any number of calls, keys, slots  *)
(* and limits. The argument is the one of reserve's comment: of the calls    *)
(* that got through in one window, the last to count saw the rows of all the *)
(* others, written before their own counts and not yet swept, because no     *)
(* call is in reserve for longer than the retention outlasts the window.     *)
EXTENDS RecoveryThrottle, FiniteSetTheorems, TLAPS

\* a row whose absence would be noticed: not forgiven, not past the retention
Kept(c, k) ==
  \/ <<c, k>> \in attempts
  \/ <<c, k>> \in forgiven
  \/ calls[c].at + Retention < clock

\* c may still get through, or has
Alive(c) == calls[c].allowed /\ calls[c].pc \notin {"new", "refused", "released"}

Counted(c, k) == \E j \in DOMAIN calls[c].slots : j < calls[c].i /\ calls[c].slots[j] = k

CallOK(c) ==
  /\ calls[c].pc # "new" => calls[c].slots \in Wants /\ calls[c].at <= clock
  /\ InReserve(c) =>
       calls[c].i \in DOMAIN calls[c].slots /\ clock <= calls[c].at + Patience
  /\ calls[c].pc \in {"sweep", "through", "failed"} =>
       \A j \in DOMAIN calls[c].slots : j < calls[c].i
  /\ calls[c].pc \in {"through", "failed"} => calls[c].allowed
  /\ Alive(c) => \A k \in Keys : Counted(c, k) => Kept(c, k)
  /\ calls[c].pc = "count" => Kept(c, Key(c))

\* the calls that have passed the count of k and may get through
Hold(k, t) ==
  {c \in Calls : /\ Alive(c)
                 /\ Counted(c, k)
                 /\ <<c, k>> \notin forgiven
                 /\ calls[c].at <= t /\ t < calls[c].at + Window}

IndInv ==
  /\ TypeOK
  /\ \A c \in Calls : CallOK(c)
  /\ \A k \in Keys : \A t \in Nat : Cardinality(Hold(k, t)) <= Limit[k]

-----------------------------------------------------------------------------
\* A step after which no call holds what it did not hold before keeps the
\* limit.
LEMMA FewerHold ==
  ASSUME IndInv, \A k \in Keys : \A t \in Nat : Hold(k, t)' \subseteq Hold(k, t)
  PROVE  (\A k \in Keys : \A t \in Nat : Cardinality(Hold(k, t)) <= Limit[k])'
<1> SUFFICES ASSUME NEW k \in Keys, NEW t \in Nat
             PROVE  Cardinality(Hold(k, t)') <= Limit[k]
  BY LimitAssumption
<1>1. Hold(k, t)' \subseteq Hold(k, t) /\ Hold(k, t) \subseteq Calls
  BY DEF Hold
<1>2. IsFiniteSet(Hold(k, t))
  BY <1>1, CallsAssumption, FS_Subset
<1>3. IsFiniteSet(Hold(k, t)') /\ Cardinality(Hold(k, t)') <= Cardinality(Hold(k, t))
  BY <1>1, <1>2, FS_Subset
<1>4. Cardinality(Hold(k, t)) <= Limit[k]
  BY DEF IndInv
<1>5. Cardinality(Hold(k, t)) \in Nat /\ Cardinality(Hold(k, t)') \in Nat /\ Limit[k] \in Nat
  BY <1>2, <1>3, FS_CardinalityType, LimitAssumption
<1> QED BY <1>3, <1>4, <1>5

\* The other calls, when one call moves and its rows are the only ones added
\* or taken away, but for rows past the retention.
LEMMA OthersOK ==
  ASSUME IndInv, NEW c \in Calls, NEW new \in CallStates,
         calls' = [calls EXCEPT ![c] = new],
         clock' = clock, forgiven' = forgiven,
         \A d \in Calls \ {c} : \A k \in Keys :
           <<d, k>> \in attempts =>
             <<d, k>> \in attempts' \/ calls[d].at + Retention < clock
  PROVE  \A d \in Calls \ {c} : CallOK(d)'
<1> SUFFICES ASSUME NEW d \in Calls, d # c PROVE CallOK(d)'
  OBVIOUS
<1>1. calls'[d] = calls[d] /\ calls[d] \in CallStates
  BY DEF IndInv, TypeOK
<1>2. CallOK(d)
  BY DEF IndInv
<1>3. \A k \in Keys : Kept(d, k) => Kept(d, k)'
  BY <1>1 DEF Kept
<1>4. calls[d].pc = "count" => Key(d) \in Keys /\ Key(d)' = Key(d)
  BY <1>1, <1>2 DEF CallOK, InReserve, Key, CallStates
<1>5. Alive(d)' = Alive(d) /\ \A k \in Keys : Counted(d, k)' = Counted(d, k)
  BY <1>1 DEF Alive, Counted
<1> QED BY <1>1, <1>2, <1>3, <1>4, <1>5 DEF CallOK, InReserve

LEMMA InitInv == Init => IndInv
<1> SUFFICES ASSUME Init PROVE IndInv
  OBVIOUS
<1>1. TypeOK
  BY DEF Init, TypeOK, CallStates, New
<1>2. \A c \in Calls : CallOK(c)
  BY DEF Init, New, CallOK, Alive, InReserve
<1>3. \A k \in Keys : \A t \in Nat : Hold(k, t) = {}
  BY DEF Init, New, Hold, Alive
<1> QED BY <1>1, <1>2, <1>3, FS_EmptySet, LimitAssumption DEF IndInv

LEMMA BeginKeeps ==
  ASSUME IndInv, NEW c \in Calls, Begin(c)
  PROVE  IndInv'
<1>1. PICK w \in Wants : /\ w # <<>>
                         /\ calls' = [calls EXCEPT ![c] =
                              [New EXCEPT !.pc = "insert", !.at = clock, !.slots = w]]
                         /\ UNCHANGED <<clock, attempts, forgiven>>
                         /\ calls[c].pc = "new"
  BY DEF Begin
<1> DEFINE new == [New EXCEPT !.pc = "insert", !.at = clock, !.slots = w]
<1>2. /\ new \in CallStates /\ new.pc = "insert" /\ new.at = clock
      /\ new.slots = w /\ new.i = 1 /\ w \in Seq(Keys)
  BY WantsAssumption DEF IndInv, TypeOK, CallStates, New
<1> HIDE DEF new
<1>3. calls' = [calls EXCEPT ![c] = new]
  BY <1>1 DEF new
<1>4. TypeOK' /\ calls'[c] = new /\ \A d \in Calls \ {c} : calls'[d] = calls[d]
  BY <1>1, <1>2, <1>3 DEF IndInv, TypeOK
<1>0. \A k : ~Counted(c, k)'
  <2>1. DOMAIN w = 1..Len(w) /\ Len(w) \in Nat
    BY <1>2
  <2> QED BY <1>2, <1>4, <2>1 DEF Counted
<1>5. CallOK(c)'
  <2>1. clock <= clock + Patience /\ clock \in Nat
    BY TimesAssumption DEF IndInv, TypeOK
  <2>2. 1 \in DOMAIN w
    BY <1>1, <1>2
  <2>3. clock' = clock /\ clock <= clock
    BY <1>1, <2>1
  <2>4. calls'[c] = new /\ new.pc = "insert" /\ new.at = clock /\ new.i = 1 /\ new.slots = w
    BY <1>2, <1>4
  <2> QED BY <1>0, <2>1, <2>2, <2>3, <2>4 DEF CallOK, InReserve
<1>6. \A d \in Calls \ {c} : CallOK(d)'
  BY <1>1, <1>2, <1>3, OthersOK
<1>7. \A k \in Keys : \A t \in Nat : Hold(k, t)' \subseteq Hold(k, t)
  <2> SUFFICES ASSUME NEW k \in Keys, NEW t \in Nat, NEW d \in Hold(k, t)'
               PROVE  d \in Hold(k, t)
    OBVIOUS
  <2>1. d # c
    BY <1>0 DEF Hold
  <2> QED BY <1>1, <1>4, <2>1 DEF Hold, Alive, Counted
<1> QED BY <1>4, <1>5, <1>6, <1>7, FewerHold DEF IndInv

LEMMA InsertKeeps ==
  ASSUME IndInv, NEW c \in Calls, Insert(c)
  PROVE  IndInv'
<1> DEFINE new == [calls[c] EXCEPT !.pc = "count"]
<1>1. /\ calls[c] \in CallStates /\ CallOK(c) /\ calls[c].pc = "insert"
      /\ calls' = [calls EXCEPT ![c] = new]
      /\ attempts' = attempts \cup {<<c, Key(c)>>}
      /\ clock' = clock /\ forgiven' = forgiven
  BY DEF Insert, IndInv, TypeOK
<1>2. /\ new \in CallStates /\ new.pc = "count" /\ new.at = calls[c].at
      /\ new.slots = calls[c].slots /\ new.i = calls[c].i
      /\ new.allowed = calls[c].allowed
  BY <1>1 DEF CallStates
<1> HIDE DEF new
<1>3. Key(c) \in Keys
  BY <1>1 DEF CallOK, InReserve, Key, CallStates
<1>4. TypeOK' /\ calls'[c] = new /\ \A d \in Calls \ {c} : calls'[d] = calls[d]
  BY <1>1, <1>2, <1>3 DEF IndInv, TypeOK
<1>5. CallOK(c)'
  <2>1. Key(c)' = Key(c) /\ Kept(c, Key(c))'
    BY <1>1, <1>2, <1>4 DEF Key, Kept
  <2>2. \A k \in Keys : Kept(c, k) => Kept(c, k)'
    BY <1>1, <1>2, <1>4 DEF Kept
  <2>3. Alive(c)' = Alive(c) /\ \A k \in Keys : Counted(c, k)' = Counted(c, k)
    BY <1>1, <1>2, <1>4 DEF Alive, Counted
  <2>4. Alive(c)' => \A k \in Keys : Counted(c, k)' => Kept(c, k)'
    BY <1>1, <2>2, <2>3 DEF CallOK
  <2> QED BY <1>1, <1>2, <1>4, <2>1, <2>4 DEF CallOK, InReserve
<1>6. \A d \in Calls \ {c} : CallOK(d)'
  BY <1>1, <1>2, OthersOK
<1>7. \A k \in Keys : \A t \in Nat : Hold(k, t)' \subseteq Hold(k, t)
  BY <1>1, <1>2, <1>4 DEF Hold, Alive, Counted
<1> QED BY <1>4, <1>5, <1>6, <1>7, FewerHold DEF IndInv

\* NextSlot moves on by one slot and leaves the rest of the call's state.
Moved(c, new, allowed) ==
  /\ new \in CallStates
  /\ new.at = calls[c].at /\ new.slots = calls[c].slots
  /\ new.i = calls[c].i + 1 /\ new.allowed = allowed
  /\ new.pc = IF calls[c].i < Len(calls[c].slots) THEN "insert" ELSE "sweep"

LEMMA NextSlotMoves ==
  ASSUME TypeOK, NEW c \in Calls, NEW allowed \in BOOLEAN, NextSlot(c, allowed)
  PROVE  \E new : Moved(c, new, allowed) /\ calls' = [calls EXCEPT ![c] = new]
<1> DEFINE pc == IF calls[c].i < Len(calls[c].slots) THEN "insert" ELSE "sweep"
           i == calls[c].i + 1
           new == [calls[c] EXCEPT !.i = i, !.allowed = allowed, !.pc = pc]
<1>1. calls[c] \in CallStates
  BY DEF TypeOK
<1>2. pc \in {"insert", "sweep"} /\ i \in Nat
  BY <1>1 DEF CallStates
<1>3. calls' = [calls EXCEPT ![c] = new]
  BY DEF NextSlot
<1> HIDE DEF pc, i
<1>4. /\ new \in CallStates /\ new.at = calls[c].at /\ new.slots = calls[c].slots
      /\ new.i = i /\ new.allowed = allowed /\ new.pc = pc
  BY <1>1, <1>2 DEF CallStates
<1> HIDE DEF new
<1>5. Moved(c, new, allowed)
  BY <1>4 DEF Moved, pc, i
<1> QED BY <1>3, <1>5

\* Moving to the next slot keeps what is known of the call, provided the slot
\* just counted has its row or the call is refused.
LEMMA MoveOK ==
  ASSUME IndInv, NEW c \in Calls, InReserve(c), NEW allowed \in BOOLEAN,
         UNCHANGED <<clock, attempts, forgiven>>,
         allowed => calls[c].pc = "count" /\ calls[c].allowed,
         NEW new, Moved(c, new, allowed), calls' = [calls EXCEPT ![c] = new]
  PROVE  TypeOK' /\ (\A d \in Calls : CallOK(d)')
<1>1. /\ TypeOK' /\ calls'[c] = new /\ \A d \in Calls \ {c} : calls'[d] = calls[d]
      /\ calls[c] \in CallStates /\ CallOK(c) /\ new \in CallStates
  BY DEF IndInv, TypeOK, Moved
<1>2. \A d \in Calls \ {c} : CallOK(d)'
  BY <1>1, OthersOK
<1>3. \A k : Kept(c, k)' = Kept(c, k)
  BY <1>1 DEF Kept, Moved
<1>4. /\ calls[c].slots \in Seq(Keys) /\ DOMAIN calls[c].slots = 1..Len(calls[c].slots)
      /\ Len(calls[c].slots) \in Nat /\ calls[c].i \in DOMAIN calls[c].slots
      /\ clock' <= new.at + Patience /\ new.at <= clock' /\ new.slots \in Wants
  BY <1>1 DEF CallStates, CallOK, InReserve, Moved
<1>5. ASSUME NEW k \in Keys, allowed, Counted(c, k)' PROVE Kept(c, k)'
  <2>1. PICK j \in DOMAIN calls[c].slots : j < calls[c].i + 1 /\ calls[c].slots[j] = k
    BY <1>1, <1>5 DEF Counted, Moved
  <2>2. CASE j = calls[c].i
    BY <1>1, <1>3, <1>5, <2>1, <2>2 DEF CallOK, Key
  <2>3. CASE j < calls[c].i
    <3>1. Alive(c) /\ Counted(c, k)
      BY <1>5, <2>1, <2>3 DEF Alive, Counted
    <3> QED BY <1>1, <1>3, <3>1 DEF CallOK
  <2> QED BY <1>4, <2>1, <2>2, <2>3
<1>6. new.pc = "insert" => new.i \in DOMAIN new.slots
  BY <1>4 DEF Moved
<1>7. new.pc = "sweep" => \A j \in DOMAIN new.slots : j < new.i
  BY <1>4 DEF Moved
<1>8. Alive(c)' => allowed
  BY <1>1 DEF Alive, Moved
<1>9. new.pc \in {"insert", "sweep"}
  BY DEF Moved
<1>10. CallOK(c)'
  BY <1>1, <1>4, <1>5, <1>6, <1>7, <1>8, <1>9 DEF CallOK, InReserve
<1> QED BY <1>1, <1>2, <1>10

LEMMA StatementFailsKeeps ==
  ASSUME IndInv, NEW c \in Calls, StatementFails(c)
  PROVE  IndInv'
<1>1. InReserve(c) /\ NextSlot(c, FALSE) /\ UNCHANGED <<clock, attempts, forgiven>>
  BY DEF StatementFails, InReserve
<1>2. PICK new : Moved(c, new, FALSE) /\ calls' = [calls EXCEPT ![c] = new]
  BY <1>1, NextSlotMoves DEF IndInv
<1>3. TypeOK' /\ \A d \in Calls : CallOK(d)'
  BY <1>1, <1>2, MoveOK
<1>4. calls'[c] = new /\ \A d \in Calls \ {c} : calls'[d] = calls[d]
  BY <1>2 DEF IndInv, TypeOK
<1>5. \A k \in Keys : \A t \in Nat : Hold(k, t)' \subseteq Hold(k, t)
  BY <1>1, <1>2, <1>4 DEF Hold, Alive, Counted, Moved
<1> QED BY <1>3, <1>5, FewerHold DEF IndInv

\* The heart of the matter: a call that passes its count saw every call that
\* holds a place in a common window.
LEMMA CountKeeps ==
  ASSUME IndInv, NEW c \in Calls, Count(c)
  PROVE  IndInv'
<1>0. PICK k0 \in Keys : k0 = Key(c)
  BY DEF Count, IndInv, CallOK, InReserve, TypeOK, CallStates, Key
<1>a. PICK seen \in SUBSET Calls : seen = Seen(c, k0)
  BY DEF Seen
<1>b. PICK allowed \in BOOLEAN :
        allowed = (calls[c].allowed /\ Cardinality(seen) <= Limit[k0])
  OBVIOUS
<1>1. /\ InReserve(c) /\ calls[c].pc = "count" /\ NextSlot(c, allowed)
      /\ UNCHANGED <<clock, attempts, forgiven>>
      /\ calls[c] \in CallStates /\ CallOK(c)
  <2>1. NextSlot(c, calls[c].allowed /\ Cardinality(seen) <= Limit[k0])
    BY <1>0, <1>a DEF Count
  <2>2. NextSlot(c, allowed)
    BY <1>b, <2>1
  <2> QED BY <2>2 DEF Count, InReserve, IndInv, TypeOK
<1>3. PICK new : Moved(c, new, allowed) /\ calls' = [calls EXCEPT ![c] = new]
  BY <1>1, NextSlotMoves DEF IndInv
<1>4. TypeOK' /\ \A d \in Calls : CallOK(d)'
  BY <1>1, <1>3, <1>b, MoveOK
<1>5. /\ calls'[c] = new /\ \A d \in Calls \ {c} : calls'[d] = calls[d]
      /\ new.at = calls[c].at /\ new.slots = calls[c].slots
      /\ new.i = calls[c].i + 1 /\ new.allowed = allowed
  BY <1>3 DEF IndInv, TypeOK, Moved
<1>6. /\ k0 \in Keys /\ calls[c].i \in DOMAIN calls[c].slots
      /\ DOMAIN calls[c].slots = 1..Len(calls[c].slots) /\ Len(calls[c].slots) \in Nat
      /\ calls[c].slots[calls[c].i] = k0
  BY <1>0, <1>1 DEF CallOK, InReserve, CallStates, Key
\* every other key, and k0 where c holds nothing new, is as before
<1>7. ASSUME NEW k \in Keys, NEW t \in Nat, k # k0 \/ c \notin Hold(k, t)'
      PROVE  Hold(k, t)' \subseteq Hold(k, t)
  <2> SUFFICES ASSUME NEW d \in Hold(k, t)' PROVE d \in Hold(k, t)
    OBVIOUS
  <2>1. CASE d # c
    BY <1>1, <1>5, <2>1 DEF Hold, Alive, Counted
  <2>2. CASE d = c
    <3>1. k # k0
      BY <1>7, <2>2
    <3>2. PICK j \in DOMAIN calls[c].slots : j < calls[c].i + 1 /\ calls[c].slots[j] = k
      BY <1>5, <2>2 DEF Hold, Counted
    <3>3. j < calls[c].i
      BY <1>6, <3>1, <3>2
    <3>4. Alive(c)' /\ ~(calls[c].pc \in {"new", "refused", "released"})
      BY <1>1, <2>2 DEF Hold
    <3>5. calls[c].allowed
      BY <1>5, <1>b, <3>4 DEF Alive
    <3>6. Alive(c) /\ Counted(c, k)
      BY <3>2, <3>3, <3>4, <3>5 DEF Alive, Counted
    <3> QED BY <1>1, <1>5, <2>2, <3>6 DEF Hold
  <2> QED BY <2>1, <2>2
<1>8. ASSUME NEW t \in Nat, c \in Hold(k0, t)'
      PROVE  Hold(k0, t)' \subseteq seen
  <2> SUFFICES ASSUME NEW d \in Hold(k0, t)' PROVE d \in seen
    OBVIOUS
  <2>0. d \in Calls /\ <<d, k0>> \notin forgiven'
    BY DEF Hold
  <2>1. d \in Calls /\ <<d, k0>> \notin forgiven /\ calls'[d].at = calls[d].at
    BY <1>1, <1>5, <2>0
  <2>2. calls[c].at <= t /\ calls[d].at <= t /\ t < calls[d].at + Window
    BY <1>5, <1>8, <2>1 DEF Hold
  <2>3. /\ calls[d].at \in Nat /\ calls[c].at \in Nat /\ clock \in Nat
        /\ clock <= calls[c].at + Patience
    BY <1>1, <2>1 DEF IndInv, TypeOK, CallStates, CallOK
  <2>4. ~(calls[d].at + Retention < clock) /\ calls[d].at + Window > calls[c].at
    BY <2>2, <2>3, TimesAssumption
  <2>5. Kept(d, k0)
    <3>1. CASE d = c
      BY <1>0, <1>1, <3>1 DEF CallOK
    <3>2. CASE d # c
      <4>1. Alive(d) /\ Counted(d, k0)
        BY <1>5, <2>1, <3>2 DEF Hold, Alive, Counted
      <4> QED BY <1>6, <2>1, <4>1 DEF IndInv, CallOK
    <3> QED BY <3>1, <3>2
  <2>6. <<d, k0>> \in attempts
    BY <2>1, <2>4, <2>5 DEF Kept
  <2> QED BY <1>a, <2>1, <2>4, <2>6 DEF Seen
<1>9. (\A k \in Keys : \A t \in Nat : Cardinality(Hold(k, t)) <= Limit[k])'
  <2> SUFFICES ASSUME NEW k \in Keys, NEW t \in Nat
               PROVE  Cardinality(Hold(k, t)') <= Limit[k]
    BY LimitAssumption
  <2>1. CASE k # k0 \/ c \notin Hold(k, t)'
    <3>1. Hold(k, t)' \subseteq Hold(k, t) /\ Hold(k, t) \subseteq Calls
      BY <1>7, <2>1 DEF Hold
    <3>2. /\ IsFiniteSet(Hold(k, t)) /\ IsFiniteSet(Hold(k, t)')
          /\ Cardinality(Hold(k, t)') <= Cardinality(Hold(k, t))
      BY <3>1, CallsAssumption, FS_Subset
    <3>3. Cardinality(Hold(k, t)) <= Limit[k]
      BY DEF IndInv
    <3>4. /\ Cardinality(Hold(k, t)) \in Nat /\ Cardinality(Hold(k, t)') \in Nat
          /\ Limit[k] \in Nat
      BY <3>2, FS_CardinalityType, LimitAssumption
    <3> QED BY <3>2, <3>3, <3>4
  <2>2. CASE k = k0 /\ c \in Hold(k, t)'
    <3>1. Hold(k, t)' \subseteq seen
      BY <1>8, <2>2
    <3>2. /\ IsFiniteSet(seen) /\ IsFiniteSet(Hold(k, t)')
          /\ Cardinality(Hold(k, t)') <= Cardinality(seen)
      BY <3>1, CallsAssumption, FS_Subset
    <3>3. Cardinality(seen) <= Limit[k0]
      BY <1>5, <1>b, <2>2 DEF Hold, Alive
    <3>4. /\ Cardinality(seen) \in Nat /\ Cardinality(Hold(k, t)') \in Nat
          /\ Limit[k] \in Nat
      BY <3>2, FS_CardinalityType, LimitAssumption
    <3> QED BY <2>2, <3>2, <3>3, <3>4
  <2> QED BY <2>1, <2>2
<1> QED BY <1>4, <1>9 DEF IndInv

\* A call that leaves reserve, or is over, and whose rows are the only ones
\* taken away but for rows past the retention.
LEMMA EndKeeps ==
  ASSUME IndInv, NEW c \in Calls, NEW new \in CallStates,
         calls' = [calls EXCEPT ![c] = new],
         clock' = clock, forgiven' = forgiven, attempts' \subseteq attempts,
         \A d \in Calls \ {c} : \A k \in Keys :
           <<d, k>> \in attempts =>
             <<d, k>> \in attempts' \/ calls[d].at + Retention < clock,
         calls[c].pc # "new",
         new.at = calls[c].at, new.slots = calls[c].slots, new.i = calls[c].i,
         new.allowed = calls[c].allowed,
         new.pc \in {"through", "failed", "refused", "released"},
         new.pc \in {"through", "failed"} =>
           /\ calls[c].allowed /\ calls[c].pc \in {"sweep", "through"}
           /\ \A k \in Keys : <<c, k>> \in attempts =>
                <<c, k>> \in attempts' \/ calls[c].at + Retention < clock
  PROVE  IndInv'
<1>1. /\ TypeOK' /\ calls'[c] = new /\ \A d \in Calls \ {c} : calls'[d] = calls[d]
      /\ calls[c] \in CallStates /\ CallOK(c)
  BY DEF IndInv, TypeOK
<1>2. \A d \in Calls \ {c} : CallOK(d)'
  BY OthersOK
<1>3. CASE new.pc \in {"refused", "released"}
  <2>1. CallOK(c)'
    BY <1>1, <1>3 DEF CallOK, InReserve, Alive
  <2>2. ~Alive(c)'
    BY <1>1, <1>3 DEF Alive
  <2>3. \A k \in Keys : \A t \in Nat : Hold(k, t)' \subseteq Hold(k, t)
    BY <1>1, <2>2 DEF Hold, Alive, Counted
  <2> QED BY <1>1, <1>2, <2>1, <2>3, FewerHold DEF IndInv
<1>4. CASE new.pc \in {"through", "failed"}
  <2>1. Alive(c) /\ calls[c].pc \in {"sweep", "through"}
    BY <1>4 DEF Alive
  <2>2. \A k \in Keys : Counted(c, k)' => Counted(c, k)
    BY <1>1 DEF Counted
  <2>3. \A k \in Keys : Kept(c, k) => Kept(c, k)'
    BY <1>1, <1>4 DEF Kept
  <2>4. \A k \in Keys : Counted(c, k)' => Kept(c, k)'
    BY <1>1, <2>1, <2>2, <2>3 DEF CallOK
  <2>5. CallOK(c)'
    BY <1>1, <1>4, <2>1, <2>4 DEF CallOK, InReserve
  <2>6. \A k \in Keys : \A t \in Nat : Hold(k, t)' \subseteq Hold(k, t)
    BY <1>1, <2>1 DEF Hold, Alive, Counted
  <2> QED BY <1>1, <1>2, <2>5, <2>6, FewerHold DEF IndInv
<1> QED BY <1>3, <1>4

LEMMA SweepKeeps ==
  ASSUME IndInv, NEW c \in Calls, Sweep(c)
  PROVE  IndInv'
<1> DEFINE pc == IF calls[c].allowed THEN "through" ELSE "refused"
           new == [calls[c] EXCEPT !.pc = pc]
<1>1. /\ calls[c] \in CallStates /\ calls[c].pc = "sweep" /\ CallOK(c)
      /\ clock' = clock /\ forgiven' = forgiven
      /\ attempts' = attempts \ Stale(c) \/ attempts' = attempts
  BY DEF Sweep, IndInv, TypeOK
<1>2. calls' = [calls EXCEPT ![c] = new]
  BY DEF Sweep
<1>3. pc \in {"through", "refused"} /\ (pc = "through" => calls[c].allowed)
  OBVIOUS
<1> HIDE DEF pc
<1>4. /\ new \in CallStates /\ new.pc = pc /\ new.at = calls[c].at
      /\ new.slots = calls[c].slots /\ new.i = calls[c].i
      /\ new.allowed = calls[c].allowed
  BY <1>1, <1>3 DEF CallStates
<1> HIDE DEF new
<1>5. \A d \in Calls : \A k \in Keys : <<d, k>> \in attempts =>
        <<d, k>> \in attempts' \/ calls[d].at + Retention < clock
  <2> SUFFICES ASSUME NEW d \in Calls, NEW k \in Keys, <<d, k>> \in attempts,
                      <<d, k>> \in Stale(c)
               PROVE  calls[d].at + Retention < clock
    BY <1>1
  <2>1. calls[d].at + Retention < calls[c].at
    BY DEF Stale
  <2>2. calls[c].at <= clock
    BY <1>1 DEF CallOK
  <2>3. calls[d].at \in Nat /\ calls[c].at \in Nat /\ clock \in Nat /\ Retention \in Nat
    BY TimesAssumption DEF IndInv, TypeOK, CallStates
  <2> QED BY <2>1, <2>2, <2>3
<1>6. attempts' \subseteq attempts
  BY <1>1
<1> QED BY <1>1, <1>2, <1>3, <1>4, <1>5, <1>6, EndKeeps

LEMMA FailKeeps ==
  ASSUME IndInv, NEW c \in Calls, Fail(c)
  PROVE  IndInv'
<1> DEFINE new == [calls[c] EXCEPT !.pc = "failed"]
<1>1. /\ calls[c] \in CallStates /\ calls[c].pc = "through" /\ CallOK(c)
      /\ UNCHANGED <<clock, attempts, forgiven>> /\ calls' = [calls EXCEPT ![c] = new]
  BY DEF Fail, IndInv, TypeOK
<1>2. /\ new \in CallStates /\ new.pc = "failed" /\ new.at = calls[c].at
      /\ new.slots = calls[c].slots /\ new.i = calls[c].i
      /\ new.allowed = calls[c].allowed
  BY <1>1 DEF CallStates
<1> HIDE DEF new
<1>3. calls[c].allowed
  BY <1>1 DEF CallOK
<1> QED BY <1>1, <1>2, <1>3, EndKeeps

LEMMA SucceedKeeps ==
  ASSUME IndInv, NEW c \in Calls, Succeed(c)
  PROVE  IndInv'
<1> DEFINE new == [calls[c] EXCEPT !.pc = "released"]
<1>1. /\ calls[c] \in CallStates /\ calls[c].pc = "through"
      /\ clock' = clock /\ forgiven' = forgiven /\ attempts' = attempts \ Rows(c)
      /\ calls' = [calls EXCEPT ![c] = new]
  BY DEF Succeed, IndInv, TypeOK
<1>2. /\ new \in CallStates /\ new.pc = "released" /\ new.at = calls[c].at
      /\ new.slots = calls[c].slots /\ new.i = calls[c].i
      /\ new.allowed = calls[c].allowed
  BY <1>1 DEF CallStates
<1> HIDE DEF new
<1>3. \A d \in Calls \ {c} : \A k \in Keys :
        <<d, k>> \in attempts => <<d, k>> \in attempts'
  BY <1>1 DEF Rows
<1> QED BY <1>1, <1>2, <1>3, EndKeeps

LEMMA CrashKeeps ==
  ASSUME IndInv, NEW c \in Calls, Crash(c)
  PROVE  IndInv'
<1> DEFINE pc == IF calls[c].pc = "through" THEN "failed" ELSE "refused"
           new == [calls[c] EXCEPT !.pc = pc]
<1>1. /\ calls[c] \in CallStates /\ CallOK(c)
      /\ calls[c].pc \in {"insert", "count", "sweep", "through"}
      /\ UNCHANGED <<clock, attempts, forgiven>> /\ calls' = [calls EXCEPT ![c] = new]
  BY DEF Crash, IndInv, TypeOK
<1>2. pc \in {"failed", "refused"} /\ (pc = "failed" => calls[c].pc = "through")
  OBVIOUS
<1> HIDE DEF pc
<1>3. /\ new \in CallStates /\ new.pc = pc /\ new.at = calls[c].at
      /\ new.slots = calls[c].slots /\ new.i = calls[c].i
      /\ new.allowed = calls[c].allowed
  BY <1>1, <1>2 DEF CallStates
<1> HIDE DEF new
<1>4. calls[c].pc = "through" => calls[c].allowed
  BY <1>1 DEF CallOK
<1> QED BY <1>1, <1>2, <1>3, <1>4, EndKeeps

LEMMA ClearKeeps ==
  ASSUME IndInv, NEW k0 \in Keys, Clear(k0)
  PROVE  IndInv'
<1>1. /\ clock' = clock /\ calls' = calls
      /\ attempts' = {r \in attempts : r[2] # k0}
      /\ forgiven' = forgiven \cup {r \in attempts : r[2] = k0}
  BY DEF Clear
<1>2. TypeOK'
  BY <1>1 DEF IndInv, TypeOK
<1>3. \A c \in Calls : \A k \in Keys : Kept(c, k) => Kept(c, k)'
  BY <1>1 DEF Kept
<1>4. ASSUME NEW c \in Calls PROVE CallOK(c)'
  <2>1. CallOK(c) /\ calls[c] \in CallStates
    BY DEF IndInv, TypeOK
  <2>2. calls[c].pc = "count" => Key(c) \in Keys /\ Key(c)' = Key(c)
    BY <1>1, <2>1 DEF CallOK, InReserve, Key, CallStates
  <2>3. Alive(c)' = Alive(c) /\ \A k \in Keys : Counted(c, k)' = Counted(c, k)
    BY <1>1 DEF Alive, Counted
  <2> QED BY <1>1, <1>3, <2>1, <2>2, <2>3 DEF CallOK, InReserve
<1>5. \A k \in Keys : \A t \in Nat : Hold(k, t)' \subseteq Hold(k, t)
  BY <1>1 DEF Hold, Alive, Counted
<1> QED BY <1>2, <1>4, <1>5, FewerHold DEF IndInv

LEMMA TickKeeps ==
  ASSUME IndInv, Tick
  PROVE  IndInv'
<1>1. /\ clock' = clock + 1 /\ clock \in Nat /\ UNCHANGED <<attempts, calls, forgiven>>
      /\ \A c \in Calls : InReserve(c) => clock < calls[c].at + Patience
  BY DEF Tick, IndInv, TypeOK
<1>2. TypeOK'
  BY <1>1 DEF IndInv, TypeOK
<1>3. ASSUME NEW c \in Calls PROVE CallOK(c)'
  <2>1. CallOK(c) /\ calls[c] \in CallStates /\ calls[c].at \in Nat
    BY DEF IndInv, TypeOK, CallStates
  <2>2. \A k \in Keys : Kept(c, k) => Kept(c, k)'
    BY <1>1, <2>1, TimesAssumption DEF Kept
  <2>3. calls[c].pc = "count" => Key(c) \in Keys /\ Key(c)' = Key(c)
    BY <1>1, <2>1 DEF CallOK, InReserve, Key, CallStates
  <2>4. Alive(c)' = Alive(c) /\ \A k \in Keys : Counted(c, k)' = Counted(c, k)
    BY <1>1 DEF Alive, Counted
  <2>5. InReserve(c)' = InReserve(c) /\ calls'[c] = calls[c]
    BY <1>1 DEF InReserve
  <2>6. calls[c].pc # "new" => calls[c].at <= clock'
    BY <1>1, <2>1 DEF CallOK
  <2>7. InReserve(c) => clock' <= calls[c].at + Patience
    BY <1>1, <2>1, TimesAssumption
  <2>8. (calls[c].pc = "count" => Kept(c, Key(c)))'
    BY <2>1, <2>2, <2>3, <2>5 DEF CallOK
  <2>9. (Alive(c) => \A k \in Keys : Counted(c, k) => Kept(c, k))'
    BY <2>1, <2>2, <2>4 DEF CallOK
  <2> QED BY <2>1, <2>5, <2>6, <2>7, <2>8, <2>9 DEF CallOK
<1>4. \A k \in Keys : \A t \in Nat : Hold(k, t)' \subseteq Hold(k, t)
  BY <1>1 DEF Hold, Alive, Counted
<1> QED BY <1>2, <1>3, <1>4, FewerHold DEF IndInv

LEMMA StutterKeeps ==
  ASSUME IndInv, UNCHANGED vars
  PROVE  IndInv'
<1>1. UNCHANGED <<clock, attempts, calls, forgiven>>
  BY DEF vars
<1>2. TypeOK' /\ \A c \in Calls : CallOK(c)'
  BY <1>1 DEF IndInv, TypeOK, CallOK, InReserve, Alive, Counted, Kept, Key
<1>3. \A k \in Keys : \A t \in Nat : Hold(k, t)' \subseteq Hold(k, t)
  BY <1>1 DEF Hold, Alive, Counted
<1> QED BY <1>2, <1>3, FewerHold DEF IndInv

LEMMA NextKeeps == IndInv /\ [Next]_vars => IndInv'
<1> SUFFICES ASSUME IndInv, [Next]_vars PROVE IndInv'
  OBVIOUS
<1>1. CASE \E c \in Calls : Begin(c)
  BY <1>1, BeginKeeps
<1>2. CASE \E c \in Calls : Insert(c)
  BY <1>2, InsertKeeps
<1>3. CASE \E c \in Calls : Count(c)
  BY <1>3, CountKeeps
<1>4. CASE \E c \in Calls : StatementFails(c)
  BY <1>4, StatementFailsKeeps
<1>5. CASE \E c \in Calls : Sweep(c)
  BY <1>5, SweepKeeps
<1>6. CASE \E c \in Calls : Fail(c) \/ Succeed(c)
  BY <1>6, FailKeeps, SucceedKeeps
<1>7. CASE \E c \in Calls : Crash(c)
  BY <1>7, CrashKeeps
<1>8. CASE \E k \in Keys : Clear(k)
  BY <1>8, ClearKeeps
<1>9. CASE Tick
  BY <1>9, TickKeeps
<1>10. CASE UNCHANGED vars
  BY <1>10, StutterKeeps
<1> QED BY <1>1, <1>2, <1>3, <1>4, <1>5, <1>6, <1>7, <1>8, <1>9, <1>10 DEF Next

LEMMA Invariance == Spec => []IndInv
<1>1. Init => IndInv
  BY InitInv
<1>2. IndInv /\ [Next]_vars => IndInv'
  BY NextKeeps
<1> QED BY <1>1, <1>2, PTL DEF Spec

-----------------------------------------------------------------------------
\* The tables and the calls keep their types: the rows of recovery_attempts are
\* always a call's, under a key it was given.
THEOREM TypeCorrect == Spec => []TypeOK
<1>1. IndInv => TypeOK
  BY DEF IndInv
<1> QED BY <1>1, Invariance, PTL

\* At most the limit get through, for any number of calls and instances, any
\* slots and limits, and any interleaving of reserve, release, Approve and the
\* clean-up: reserve's comment holds.
THEOREM LimitHolds == Spec => []AtMostLimit
<1>1. ASSUME IndInv PROVE AtMostLimit
  <2> SUFFICES ASSUME NEW k \in Keys, NEW t \in 0..clock
               PROVE  Cardinality(Through(k, t)) <= Limit[k]
    BY DEF AtMostLimit
  <2>1. t \in Nat
    BY <1>1 DEF IndInv, TypeOK
  <2>2. ASSUME NEW c \in Through(k, t) PROVE c \in Hold(k, t)
    <3>1. c \in Calls /\ CallOK(c) /\ calls[c].pc \in {"through", "failed"}
      BY <1>1 DEF Through, IndInv
    <3>2. Alive(c)
      BY <3>1 DEF CallOK, Alive
    <3>3. Counted(c, k)
      BY <3>1 DEF CallOK, Through, Counted
    <3> QED BY <3>1, <3>2, <3>3 DEF Through, Hold
  <2>3. Through(k, t) \subseteq Hold(k, t) /\ Hold(k, t) \subseteq Calls
    BY <2>2 DEF Hold
  <2>4. /\ IsFiniteSet(Hold(k, t)) /\ IsFiniteSet(Through(k, t))
        /\ Cardinality(Through(k, t)) <= Cardinality(Hold(k, t))
    BY <2>3, CallsAssumption, FS_Subset
  <2>5. Cardinality(Hold(k, t)) <= Limit[k]
    BY <1>1, <2>1 DEF IndInv
  <2>6. /\ Cardinality(Hold(k, t)) \in Nat /\ Cardinality(Through(k, t)) \in Nat
        /\ Limit[k] \in Nat
    BY <2>4, FS_CardinalityType, LimitAssumption
  <2> QED BY <2>4, <2>5, <2>6
<1> QED BY <1>1, Invariance, PTL

\* No flood frees up room: whatever step is taken, a row that leaves the table
\* belongs to a call that succeeded, was forgiven, or is past the retention.
THEOREM RowsKept == Spec => RowsLeaveForCause
<1> DEFINE Cause(r) == \/ calls'[r[1]].pc = "released"
                       \/ r \in forgiven'
                       \/ calls[r[1]].at + Retention < clock
<1>1. ASSUME IndInv, [Next]_vars, NEW r \in attempts \ attempts' PROVE Cause(r)
  <2>1. ASSUME NEW c \in Calls, Sweep(c) PROVE Cause(r)
    <3>1. r \in Stale(c) /\ calls[c].pc = "sweep" /\ CallOK(c)
      BY <1>1, <2>1 DEF Sweep, IndInv
    <3>2. calls[r[1]].at + Retention < calls[c].at /\ calls[c].at <= clock
      BY <3>1 DEF Stale, CallOK
    <3>3. r[1] \in Calls
      BY <1>1 DEF IndInv, TypeOK
    <3>4. /\ calls[r[1]].at \in Nat /\ calls[c].at \in Nat /\ clock \in Nat
          /\ Retention \in Nat
      BY <1>1, <3>3, TimesAssumption DEF IndInv, TypeOK, CallStates
    <3> QED BY <3>2, <3>4
  <2>2. ASSUME NEW c \in Calls, Succeed(c) PROVE Cause(r)
    <3>1. r[1] = c /\ calls'[c].pc = "released"
      BY <1>1, <2>2 DEF Succeed, Rows, IndInv, TypeOK, CallStates
    <3> QED BY <3>1
  <2>3. ASSUME NEW k \in Keys, Clear(k) PROVE Cause(r)
    BY <1>1, <2>3 DEF Clear
  <2>4. CASE \E c \in Calls : \/ Begin(c) \/ Insert(c) \/ Count(c)
                              \/ StatementFails(c) \/ Fail(c) \/ Crash(c)
    BY <1>1, <2>4 DEF Begin, Insert, Count, StatementFails, Fail, Crash
  <2>5. CASE Tick \/ UNCHANGED vars
    BY <1>1, <2>5 DEF Tick, vars
  <2> QED BY <1>1, <2>1, <2>2, <2>3, <2>4, <2>5 DEF Next
<1>2. IndInv /\ [Next]_vars => [\A r \in attempts \ attempts' : Cause(r)]_vars
  BY <1>1
<1> QED BY <1>2, Invariance, PTL DEF Spec, RowsLeaveForCause
=============================================================================
