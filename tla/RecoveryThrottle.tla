-------------------------- MODULE RecoveryThrottle --------------------------
(* The attempt limits of account recovery: reserve and release of            *)
(* internal/recoverycode/service.go over the table recovery_attempts, shared *)
(* by every backend instance. A call writes its attempt before it counts,    *)
(* one committed statement at a time, with no lock and no transaction around *)
(* the two, and takes its rows back only when it succeeds.                   *)
(*                                                                           *)
(* A key is a (scope, key hash) pair of the code. Time is in ticks; the      *)
(* stamp of a call is the instant it read the clock, before its first        *)
(* statement. The instances' clocks are taken to agree.                      *)
EXTENDS Naturals, FiniteSets, Sequences

CONSTANTS
  Calls,       \* API calls; each is made once
  Keys,        \* what is limited: addresses, accounts, ...
  Wants,       \* the slot lists the callers pass to reserve
  Limit,       \* Limit[k]: how many attempts on k get through in a window
  Clearable,   \* keys an admin's approval starts afresh (Approve)
  Window,      \* attemptWindow
  Retention,   \* attemptRetention
  Patience,    \* how long a call may take to get through reserve
  Errors,      \* TRUE: a statement may fail, the server may crash
  MaxTime      \* bound: the last instant modelled

ASSUME CallsAssumption == IsFiniteSet(Calls)
ASSUME WantsAssumption ==
  \A w \in Wants : /\ w \in Seq(Keys)
                   /\ \A i, j \in DOMAIN w : w[i] = w[j] => i = j
ASSUME LimitAssumption == Limit \in [Keys -> Nat]
ASSUME ClearableAssumption == Clearable \subseteq Keys
\* An attempt is not swept while a call that could count it is in reserve
ASSUME TimesAssumption ==
  /\ Window \in Nat /\ Retention \in Nat /\ Patience \in Nat
  /\ Patience + Window <= Retention

VARIABLES
  clock,      \* the time
  attempts,   \* rows <<call, key>> of recovery_attempts; created_at is the call's stamp
  calls,      \* what each call is doing
  forgiven    \* history: the rows Approve deleted

vars == <<clock, attempts, calls, forgiven>>

\* at: the stamp; slots: the argument of reserve; i: the slot in hand;
\* allowed: no count has refused it so far
CallStates ==
  [pc : {"new", "insert", "count", "sweep", "through", "failed", "refused", "released"},
   at : Nat, slots : Seq(Keys), i : Nat, allowed : BOOLEAN]

New == [pc |-> "new", at |-> 0, slots |-> <<>>, i |-> 1, allowed |-> TRUE]

Init ==
  /\ clock = 0
  /\ attempts = {}
  /\ calls = [c \in Calls |-> New]
  /\ forgiven = {}

\* mutant: the row is written under the slot's number
KeyNumber(c) == calls[c].i

\* the key of the slot in hand
Key(c) == calls[c].slots[calls[c].i]

\* the call is done with slot i: on to the next, or to the clean-up
NextSlot(c, allowed) ==
  calls' = [calls EXCEPT ![c].i = @ + 1, ![c].allowed = allowed,
                         ![c].pc = IF calls[c].i < Len(calls[c].slots)
                                   THEN "insert" ELSE "sweep"]

Begin(c) ==
  /\ calls[c].pc = "new"
  /\ \E w \in Wants :
       /\ w # <<>>
       /\ calls' = [calls EXCEPT ![c] = [New EXCEPT !.pc = "insert", !.at = clock,
                                                    !.slots = w]]
  /\ UNCHANGED <<clock, attempts, forgiven>>

Insert(c) ==
  /\ calls[c].pc = "insert"
  /\ attempts' = attempts \cup {<<c, Key(c)>>}
  /\ calls' = [calls EXCEPT ![c].pc = "count"]
  /\ UNCHANGED <<clock, forgiven>>

\* mutant: the call's own row is left out of its count
SeenOthers(c, k) ==
  {d \in Calls \ {c} : /\ <<d, k>> \in attempts
                       /\ calls[d].at + Window > calls[c].at}

\* the rows of k within the window of c's stamp, its own among them
Seen(c, k) ==
  {d \in Calls : /\ <<d, k>> \in attempts
                 /\ calls[d].at + Window > calls[c].at}

Count(c) ==
  /\ calls[c].pc = "count"
  /\ NextSlot(c, calls[c].allowed /\ Cardinality(Seen(c, Key(c))) <= Limit[Key(c)])
  /\ UNCHANGED <<clock, attempts, forgiven>>

\* an insert that fails leaves no row, a count that fails leaves it; either
\* way the call is refused, after the remaining slots
StatementFails(c) ==
  /\ Errors
  /\ calls[c].pc \in {"insert", "count"}
  /\ NextSlot(c, FALSE)
  /\ UNCHANGED <<clock, attempts, forgiven>>

\* mutant: rows are swept once they are out of the sweeper's window
StaleWindow(c) == {r \in attempts : calls[r[1]].at + Window < calls[c].at}

\* rows older than the retention, by the sweeper's stamp
Stale(c) == {r \in attempts : calls[r[1]].at + Retention < calls[c].at}

Sweep(c) ==
  /\ calls[c].pc = "sweep"
  /\ \/ attempts' = attempts \ Stale(c)
     \/ Errors /\ attempts' = attempts
  /\ calls' = [calls EXCEPT ![c].pc = IF calls[c].allowed THEN "through" ELSE "refused"]
  /\ UNCHANGED <<clock, forgiven>>

\* the code it brought was wrong: the attempt stays counted
Fail(c) ==
  /\ calls[c].pc = "through"
  /\ calls' = [calls EXCEPT ![c].pc = "failed"]
  /\ UNCHANGED <<clock, attempts, forgiven>>

Rows(c) == {r \in attempts : r[1] = c}

\* it succeeded, or failed inside the server: release
Succeed(c) ==
  /\ calls[c].pc = "through"
  /\ attempts' = attempts \ Rows(c)
  /\ calls' = [calls EXCEPT ![c].pc = "released"]
  /\ UNCHANGED <<clock, forgiven>>

\* Approve of a support request: the account's counter starts afresh
Clear(k) ==
  /\ k \in Clearable
  /\ \E r \in attempts : r[2] = k
  /\ attempts' = {r \in attempts : r[2] # k}
  /\ forgiven' = forgiven \cup {r \in attempts : r[2] = k}
  /\ UNCHANGED <<clock, calls>>

\* the server dies while the call is in it
Crash(c) ==
  /\ Errors
  /\ calls[c].pc \in {"insert", "count", "sweep", "through"}
  /\ calls' = [calls EXCEPT ![c].pc = IF @ = "through" THEN "failed" ELSE "refused"]
  /\ UNCHANGED <<clock, attempts, forgiven>>

InReserve(c) == calls[c].pc \in {"insert", "count"}

Tick ==
  /\ clock < MaxTime
  /\ \A c \in Calls : InReserve(c) => clock < calls[c].at + Patience
  /\ clock' = clock + 1
  /\ UNCHANGED <<attempts, calls, forgiven>>

Next ==
  \/ \E c \in Calls : \/ Begin(c)
                      \/ Insert(c)
                      \/ Count(c)
                      \/ StatementFails(c)
                      \/ Sweep(c)
                      \/ Fail(c)
                      \/ Succeed(c)
                      \/ Crash(c)
  \/ \E k \in Keys : Clear(k)
  \/ Tick

Spec == Init /\ [][Next]_vars

-----------------------------------------------------------------------------
TypeOK ==
  /\ clock \in Nat
  /\ attempts \subseteq Calls \X Keys
  /\ forgiven \subseteq Calls \X Keys
  /\ calls \in [Calls -> CallStates]

\* the calls that got through on k, stamped within the window that ends at t,
\* and were neither taken back nor forgiven
Through(k, t) ==
  {c \in Calls : /\ calls[c].pc \in {"through", "failed"}
                 /\ \E j \in DOMAIN calls[c].slots : calls[c].slots[j] = k
                 /\ <<c, k>> \notin forgiven
                 /\ calls[c].at <= t /\ t < calls[c].at + Window}

\* "Whatever the interleaving, at most max requests per key get through": in
\* any window, however the inserts, counts, sweeps, releases and crashes of the
\* instances interleave, no more calls than the limit get to try their code on
\* a key without succeeding.
AtMostLimit ==
  \A k \in Keys : \A t \in 0..clock : Cardinality(Through(k, t)) <= Limit[k]

\* "Refused attempts keep their rows, so a flood can't free up room": a row
\* leaves the table only when its own call succeeds, when an approval forgives
\* it, or when it has outlived the retention and every window that counts it.
RowsLeaveForCause ==
  [][\A r \in attempts \ attempts' :
       \/ calls'[r[1]].pc = "released"
       \/ r \in forgiven'
       \/ calls[r[1]].at + Retention < clock]_vars
=============================================================================
