----------------------------- MODULE CallsProofs -----------------------------
(* What the operators of Calls do to the calls in flight, whatever set T     *)
(* these are taken from: the facts the proofs about a page rest on.          *)
EXTENDS Calls, SequenceTheorems, FiniteSetTheorems, TLAPS

\* A request that leaves is the last of the calls in flight.
LEMMA SentCalls ==
  ASSUME NEW T, NEW n \in Seq(T), NEW kind, NEW arg, Call(kind, arg) \in T
  PROVE  /\ Sent(n, kind, arg) \in Seq(T)
         /\ Len(Sent(n, kind, arg)) = Len(n) + 1
         /\ DOMAIN Sent(n, kind, arg) = 1..Len(n) + 1
         /\ \A i \in 1..Len(n) : Sent(n, kind, arg)[i] = n[i]
         /\ Sent(n, kind, arg)[Len(n) + 1] = Call(kind, arg)
<1> DEFINE c == Call(kind, arg)
           m == Append(n, c)
<1>1. /\ m \in Seq(T) /\ Len(m) = Len(n) + 1
      /\ \A i \in 1..Len(n) : m[i] = n[i]
      /\ m[Len(n) + 1] = c
  BY AppendProperties
<1>2. DOMAIN m = 1..Len(n) + 1
  BY <1>1, LenProperties
<1> HIDE DEF m
<1>3. m = Sent(n, kind, arg)
  BY DEF m, Sent
<1> QED BY <1>1, <1>2, <1>3

\* Where call j was before call i was over.
From(i, j) == IF j < i THEN j ELSE j + 1

\* A call that is over is gone, the others close ranks.
LEMMA SettledCalls ==
  ASSUME NEW T, NEW n \in Seq(T), NEW i \in DOMAIN n
  PROVE  /\ Settled(n, i) \in Seq(T)
         /\ Len(Settled(n, i)) = Len(n) - 1
         /\ DOMAIN Settled(n, i) = 1..Len(n) - 1
         /\ \A j \in 1..Len(n) - 1 :
               From(i, j) \in DOMAIN n \ {i} /\ Settled(n, i)[j] = n[From(i, j)]
         /\ \A j, k \in 1..Len(n) - 1 : From(i, j) = From(i, k) => j = k
         /\ \A k \in DOMAIN n \ {i} : \E j \in 1..Len(n) - 1 : From(i, j) = k
<1> DEFINE a == SubSeq(n, 1, i - 1)
           b == SubSeq(n, i + 1, Len(n))
           m == Settled(n, i)
<1>1. Len(n) \in Nat /\ DOMAIN n = 1..Len(n) /\ i \in 1..Len(n)
  BY LenProperties
<1>2. \A j \in 1..Len(n) : n[j] \in T
  BY <1>1, ElementOfSeq
<1>3. /\ a \in Seq(T) /\ Len(a) = i - 1
      /\ \A j \in 1..i - 1 : a[j] = n[j]
  BY <1>1, <1>2, SubSeqProperties
<1>4. /\ b \in Seq(T) /\ Len(b) = Len(n) - i
      /\ \A j \in 1..Len(n) - i : b[j] = n[i + j]
  BY <1>1, <1>2, SubSeqProperties
<1>5. m = a \o b
  BY DEF Settled, RemoveAt
<1> HIDE DEF a, b, m
<1>6. /\ m \in Seq(T) /\ Len(m) = Len(a) + Len(b)
      /\ \A j \in 1..Len(a) + Len(b) : m[j] = IF j <= Len(a) THEN a[j] ELSE b[j - Len(a)]
  BY <1>3, <1>4, <1>5, ConcatProperties
<1>7. Len(a) + Len(b) = Len(n) - 1
  BY <1>1, <1>3, <1>4
<1>8. DOMAIN m = 1..Len(n) - 1
  BY <1>6, <1>7, LenProperties
<1>9. ASSUME NEW j \in 1..Len(n) - 1
      PROVE  From(i, j) \in DOMAIN n \ {i} /\ m[j] = n[From(i, j)]
  <2>1. CASE j < i
    BY <1>1, <1>3, <1>6, <1>7, <2>1 DEF From
  <2>2. CASE ~ (j < i)
    <3>1. j - Len(a) \in 1..Len(n) - i /\ i + (j - Len(a)) = j + 1 /\ ~ (j <= Len(a))
      BY <1>1, <1>3, <2>2
    <3>2. m[j] = b[j - Len(a)]
      BY <1>6, <1>7, <3>1
    <3>3. m[j] = n[j + 1]
      BY <1>4, <3>1, <3>2
    <3> QED BY <1>1, <2>2, <3>3 DEF From
  <2> QED BY <2>1, <2>2
<1>10. \A j, k \in 1..Len(n) - 1 : From(i, j) = From(i, k) => j = k
  BY <1>1 DEF From
<1>11. ASSUME NEW k \in DOMAIN n \ {i}
       PROVE  \E j \in 1..Len(n) - 1 : From(i, j) = k
  <2>1. CASE k < i
    <3>1. k \in 1..Len(n) - 1 /\ From(i, k) = k
      BY <1>1, <2>1 DEF From
    <3> QED BY <3>1
  <2>2. CASE ~ (k < i)
    <3>1. k - 1 \in 1..Len(n) - 1 /\ From(i, k - 1) = k
      BY <1>1, <2>2 DEF From
    <3> QED BY <3>1
  <2> QED BY <2>1, <2>2
<1> QED BY <1>6, <1>7, <1>8, <1>9, <1>10, <1>11 DEF m

-----------------------------------------------------------------------------
(* The same, of calls whose payloads may be anything.                        *)

\* A call as Call makes it and as the backend answers it.
IsCall(c) == /\ c = [kind |-> c.kind, arg |-> c.arg, here |-> c.here,
                     stage |-> c.stage, ok |-> c.ok, data |-> c.data]
             /\ c.stage \in {"sent", "answered"} /\ c.ok \in BOOLEAN
             /\ c.stage = "sent" => ~ c.ok

Proper(n) == /\ n \in Seq({n[i] : i \in DOMAIN n})
             /\ \A i \in DOMAIN n : IsCall(n[i])

LEMMA ProperSeq ==
  ASSUME NEW T, NEW n \in Seq(T), \A i \in DOMAIN n : IsCall(n[i])
  PROVE  Proper(n)
<1> DEFINE R == {n[i] : i \in DOMAIN n}
<1>1. Len(n) \in Nat /\ DOMAIN n = 1..Len(n)
  BY LenProperties
<1>2. n = [i \in 1..Len(n) |-> n[i]]
  BY SeqDef
<1>3. n \in [1..Len(n) -> R]
  BY <1>1, <1>2
<1> HIDE DEF R
<1>4. n \in Seq(R)
  BY <1>1, <1>3, SeqDef
<1> QED BY <1>4 DEF Proper, R

LEMMA ProperEmpty == Proper(<< >>)
<1>1. PICK n \in Seq({}) : n = << >> /\ Len(n) = 0
  BY EmptySeq
<1>2. \A i \in DOMAIN n : FALSE
  BY <1>1, LenProperties
<1>3. Proper(n)
  BY <1>2, ProperSeq
<1> QED BY <1>1, <1>3

\* A call joins those in flight.
Asks(n, m, last, kind, arg) ==
    /\ Proper(m) /\ DOMAIN m = DOMAIN n \cup {last} /\ last \notin DOMAIN n
    /\ \A i \in DOMAIN n : m[i] = n[i]
    /\ m[last].kind = kind /\ m[last].arg = arg /\ m[last].here = TRUE
    /\ m[last].stage = "sent" /\ ~ m[last].ok

LEMMA ProperSent ==
  ASSUME NEW n, Proper(n), NEW kind, NEW arg
  PROVE  \E last : Asks(n, Sent(n, kind, arg), last, kind, arg)
<1> DEFINE T == {n[i] : i \in DOMAIN n} \cup {Call(kind, arg)}
           m == Sent(n, kind, arg)
           last == Len(n) + 1
<1>1. n \in Seq(T) /\ Call(kind, arg) \in T
  <2>1. Len(n) \in Nat /\ DOMAIN n = 1..Len(n) /\ n \in [1..Len(n) -> {n[i] : i \in DOMAIN n}]
    BY LenProperties, SeqDef DEF Proper
  <2>2. n \in [1..Len(n) -> T]
    BY <2>1
  <2> QED BY <2>1, <2>2, SeqDef
<1> HIDE DEF T
<1>2. /\ m \in Seq(T) /\ DOMAIN m = 1..Len(n) + 1
      /\ \A i \in 1..Len(n) : m[i] = n[i]
      /\ m[Len(n) + 1] = Call(kind, arg)
  BY <1>1, SentCalls
<1>3. Len(n) \in Nat /\ DOMAIN n = 1..Len(n)
  BY <1>1, LenProperties
<1> HIDE DEF m
<1>4. DOMAIN m = DOMAIN n \cup {last} /\ last \notin DOMAIN n
  BY <1>2, <1>3
<1>5. /\ IsCall(m[last]) /\ m[last].kind = kind /\ m[last].arg = arg
      /\ m[last].here = TRUE /\ m[last].stage = "sent" /\ ~ m[last].ok
  BY <1>2 DEF Call, IsCall
<1>6. \A i \in DOMAIN m : IsCall(m[i])
  BY <1>2, <1>3, <1>4, <1>5 DEF Proper
<1>7. Proper(m)
  BY <1>2, <1>6, ProperSeq
<1> QED BY <1>2, <1>3, <1>4, <1>5, <1>7 DEF m, Asks

\* Call i leaves those in flight.
Settles(n, m, i) ==
    /\ Proper(m)
    /\ \A j \in DOMAIN m : From(i, j) \in DOMAIN n \ {i} /\ m[j] = n[From(i, j)]
    /\ \A j, k \in DOMAIN m : From(i, j) = From(i, k) => j = k
    /\ \A k \in DOMAIN n \ {i} : \E j \in DOMAIN m : From(i, j) = k /\ m[j] = n[k]

LEMMA ProperSettled ==
  ASSUME NEW n, Proper(n), NEW i \in DOMAIN n
  PROVE  Settles(n, Settled(n, i), i)
<1> DEFINE T == {n[j] : j \in DOMAIN n}
           m == Settled(n, i)
<1>1. n \in Seq(T) /\ \A j \in DOMAIN n : IsCall(n[j])
  BY DEF Proper
<1> HIDE DEF T
<1>2. /\ m \in Seq(T) /\ DOMAIN m = 1..Len(n) - 1
      /\ \A j \in 1..Len(n) - 1 :
            From(i, j) \in DOMAIN n \ {i} /\ m[j] = n[From(i, j)]
      /\ \A j, k \in 1..Len(n) - 1 : From(i, j) = From(i, k) => j = k
      /\ \A k \in DOMAIN n \ {i} : \E j \in 1..Len(n) - 1 : From(i, j) = k
  BY <1>1, SettledCalls
<1> HIDE DEF m
<1>3. \A j \in DOMAIN m : IsCall(m[j])
  BY <1>1, <1>2
<1>4. Proper(m)
  BY <1>2, <1>3, ProperSeq
<1> QED BY <1>2, <1>4 DEF m, Settles

Accepted(c, data) == [c EXCEPT !.stage = "answered", !.ok = TRUE, !.data = data]
Denied(c, data) == [c EXCEPT !.stage = "answered", !.ok = FALSE, !.data = data]

LEMMA AnsweredCall ==
  ASSUME NEW c, IsCall(c), NEW data, NEW a,
         a = Accepted(c, data) \/ a = Denied(c, data)
  PROVE  /\ IsCall(a) /\ a.kind = c.kind /\ a.arg = c.arg /\ a.here = c.here
         /\ a.stage = "answered" /\ a.data = data
         /\ a = Accepted(c, data) => a.ok
         /\ a = Denied(c, data) => ~ a.ok
<1>1. c = [kind |-> c.kind, arg |-> c.arg, here |-> c.here,
           stage |-> c.stage, ok |-> c.ok, data |-> c.data]
  BY DEF IsCall
<1>2. PICK k, g, h, s, o, d :
        c = [kind |-> k, arg |-> g, here |-> h, stage |-> s, ok |-> o, data |-> d]
  BY <1>1
<1>3. CASE a = Accepted(c, data)
  <2>1. a = [kind |-> k, arg |-> g, here |-> h, stage |-> "answered", ok |-> TRUE, data |-> data]
    BY <1>2, <1>3 DEF Accepted
  <2> QED BY <1>2, <2>1 DEF IsCall, Denied
<1>4. CASE a = Denied(c, data)
  <2>1. a = [kind |-> k, arg |-> g, here |-> h, stage |-> "answered", ok |-> FALSE, data |-> data]
    BY <1>2, <1>4 DEF Denied
  <2> QED BY <1>2, <2>1 DEF IsCall, Accepted
<1> QED BY <1>3, <1>4

\* An answer, one that gets lost too, changes nothing but its call's stage, outcome
\* and data.
Answers(n, i, m, data, ok) ==
    /\ Proper(m) /\ DOMAIN m = DOMAIN n
    /\ \A j \in DOMAIN n \ {i} : m[j] = n[j]
    /\ \A j \in DOMAIN n : /\ m[j].kind = n[j].kind /\ m[j].arg = n[j].arg
                          /\ m[j].here = n[j].here
    /\ m[i].stage = "answered" /\ m[i].data = data /\ m[i].ok = ok

LEMMA ProperAnswered ==
  ASSUME NEW n, Proper(n), NEW i \in DOMAIN n, NEW data
  PROVE  /\ Answers(n, i, Served(n, i, data), data, TRUE)
         /\ Answers(n, i, Refused(n, i, data), data, FALSE)
<1> SUFFICES ASSUME NEW m, m = Served(n, i, data) \/ m = Refused(n, i, data)
             PROVE  /\ m = Served(n, i, data) => Answers(n, i, m, data, TRUE)
                    /\ m = Refused(n, i, data) => Answers(n, i, m, data, FALSE)
  OBVIOUS
<1> DEFINE sv == Accepted(n[i], data)
           rf == Denied(n[i], data)
           R == {n[j] : j \in DOMAIN n}
           T == R \cup {sv, rf}
<1>1. n \in Seq(R) /\ \A j \in DOMAIN n : IsCall(n[j])
  BY DEF Proper
<1>2. Len(n) \in Nat /\ DOMAIN n = 1..Len(n) /\ n \in [1..Len(n) -> R]
  BY <1>1, LenProperties, SeqDef
<1>3. /\ IsCall(sv) /\ sv.kind = n[i].kind /\ sv.arg = n[i].arg /\ sv.here = n[i].here
      /\ sv.stage = "answered" /\ sv.ok /\ sv.data = data
  BY <1>1, AnsweredCall
<1>4. /\ IsCall(rf) /\ rf.kind = n[i].kind /\ rf.arg = n[i].arg /\ rf.here = n[i].here
      /\ rf.stage = "answered" /\ ~ rf.ok /\ rf.data = data
  BY <1>1, AnsweredCall
<1>5. Served(n, i, data) = [n EXCEPT ![i] = sv] /\ Refused(n, i, data) = [n EXCEPT ![i] = rf]
  BY DEF Served, Refused, Accepted, Denied
<1> HIDE DEF sv, rf
<1>6. sv \in T /\ rf \in T /\ R \subseteq T
  OBVIOUS
<1> HIDE DEF R, T
<1>7. m \in Seq(T) /\ DOMAIN m = DOMAIN n /\ \A j \in DOMAIN n \ {i} : m[j] = n[j]
  <2>1. n \in [1..Len(n) -> T]
    BY <1>2, <1>6
  <2>2. m \in [1..Len(n) -> T]
    BY <1>2, <1>5, <1>6, <2>1
  <2>3. m \in Seq(T)
    BY <1>2, <2>2, SeqDef
  <2> QED BY <1>5, <2>3
<1>8. /\ m = Served(n, i, data) => m[i] = sv
      /\ m = Refused(n, i, data) => m[i] = rf
  BY <1>5
<1>9. \A j \in DOMAIN m : IsCall(m[j])
  BY <1>1, <1>3, <1>4, <1>7, <1>8
<1>10. Proper(m)
  BY <1>7, <1>9, ProperSeq
<1>11. m[i].ok \in BOOLEAN
  BY <1>7, <1>9 DEF IsCall
<1> QED BY <1>3, <1>4, <1>7, <1>8, <1>10, <1>11 DEF Answers

\* Calls that nobody listens to any more are otherwise what they were.
Silences(n, m, kinds) ==
    /\ Proper(m) /\ DOMAIN m = DOMAIN n
    /\ \A j \in DOMAIN n :
          /\ m[j].kind = n[j].kind /\ m[j].arg = n[j].arg /\ m[j].stage = n[j].stage
          /\ m[j].ok = n[j].ok /\ m[j].data = n[j].data
          /\ m[j].here = IF n[j].kind \in kinds THEN FALSE ELSE n[j].here

LEMMA ProperUnheard ==
  ASSUME NEW n, Proper(n), NEW kinds
  PROVE  Silences(n, Unheard(n, kinds), kinds)
<1> DEFINE m == Unheard(n, kinds)
           S == {m[j] : j \in DOMAIN n}
<1>1. Len(n) \in Nat /\ DOMAIN n = 1..Len(n)
  BY LenProperties DEF Proper
<1>2. /\ m = [j \in 1..Len(n) |-> m[j]]
      /\ \A j \in 1..Len(n) : m[j] = IF n[j].kind \in kinds THEN [n[j] EXCEPT !.here = FALSE]
                                                            ELSE n[j]
  BY <1>1 DEF Unheard
<1> HIDE DEF m
<1>3. m \in [1..Len(n) -> S]
  BY <1>1, <1>2
<1> HIDE DEF S
<1>4. m \in Seq(S)
  BY <1>1, <1>3, SeqDef
<1>5. ASSUME NEW j \in DOMAIN n
      PROVE  /\ IsCall(m[j]) /\ m[j].kind = n[j].kind /\ m[j].arg = n[j].arg
             /\ m[j].stage = n[j].stage /\ m[j].ok = n[j].ok /\ m[j].data = n[j].data
             /\ m[j].here = IF n[j].kind \in kinds THEN FALSE ELSE n[j].here
  <2>1. /\ n[j] = [kind |-> n[j].kind, arg |-> n[j].arg, here |-> n[j].here,
                   stage |-> n[j].stage, ok |-> n[j].ok, data |-> n[j].data]
        /\ n[j].stage \in {"sent", "answered"} /\ n[j].ok \in BOOLEAN
        /\ n[j].stage = "sent" => ~ n[j].ok
    BY DEF Proper, IsCall
  <2>2. CASE n[j].kind \in kinds
    <3>1. m[j] = [kind |-> n[j].kind, arg |-> n[j].arg, here |-> FALSE,
                  stage |-> n[j].stage, ok |-> n[j].ok, data |-> n[j].data]
      BY <1>1, <1>2, <2>1, <2>2
    <3> QED BY <2>1, <2>2, <3>1 DEF IsCall
  <2>3. CASE n[j].kind \notin kinds
    BY <1>1, <1>2, <2>1, <2>3 DEF IsCall
  <2> QED BY <2>2, <2>3
<1>6. DOMAIN m = DOMAIN n
  BY <1>1, <1>2
<1>7. Proper(m)
  BY <1>4, <1>5, <1>6, ProperSeq
<1> QED BY <1>5, <1>6, <1>7 DEF Silences, m

\* A call that is over is followed by another, heard where the first was.
Follows(n, m, i, last, kind, arg) ==
    /\ Proper(m) /\ last \in DOMAIN m
    /\ m[last].kind = kind /\ m[last].arg = arg /\ m[last].here = n[i].here
    /\ m[last].stage = "sent" /\ ~ m[last].ok
    /\ \A j \in DOMAIN m \ {last} : From(i, j) \in DOMAIN n \ {i} /\ m[j] = n[From(i, j)]
    /\ \A j, k \in DOMAIN m \ {last} : From(i, j) = From(i, k) => j = k
    /\ \A k \in DOMAIN n \ {i} : \E j \in DOMAIN m \ {last} : From(i, j) = k /\ m[j] = n[k]

LEMMA ProperFollowed ==
  ASSUME NEW n, Proper(n), NEW i \in DOMAIN n, NEW kind, NEW arg,
         NEW m, m = [Sent(Settled(n, i), kind, arg) EXCEPT ![Len(n)].here = n[i].here]
  PROVE  \E last : Follows(n, m, i, last, kind, arg)
<1>1. PICK s : s = Settled(n, i)
  OBVIOUS
<1>2. Settles(n, s, i) /\ Proper(s) /\ Len(s) = Len(n) - 1 /\ Len(n) \in Nat
      /\ DOMAIN s = 1..Len(s)
  <2>1. Len(s) = Len(n) - 1
    BY <1>1, SettledCalls DEF Proper
  <2>2. Settles(n, s, i) /\ Proper(s)
    BY <1>1, ProperSettled DEF Settles
  <2>3. Len(n) \in Nat
    BY ONLY Proper(n), LenProperties DEF Proper
  <2>4. DOMAIN s = 1..Len(s)
    BY ONLY <2>2, LenProperties DEF Proper
  <2> QED BY <2>1, <2>2, <2>3, <2>4
<1>3. PICK a, last : a = Sent(s, kind, arg) /\ last = Len(n)
  OBVIOUS
<1>4. /\ DOMAIN a = DOMAIN s \cup {last} /\ last \notin DOMAIN s
      /\ \A j \in DOMAIN s : a[j] = s[j]
      /\ a[last] = Call(kind, arg)
      /\ DOMAIN a = 1..last
  <2> DEFINE T == {s[j] : j \in DOMAIN s} \cup {Call(kind, arg)}
  <2>1. s \in Seq(T) /\ Call(kind, arg) \in T
    <3>1. s \in [1..Len(s) -> {s[j] : j \in DOMAIN s}]
      BY <1>2, SeqDef DEF Proper
    <3>2. s \in [1..Len(s) -> T]
      BY <3>1
    <3> QED BY <1>2, <3>2, SeqDef
  <2> HIDE DEF T
  <2>2. /\ DOMAIN a = 1..Len(s) + 1
        /\ \A j \in 1..Len(s) : a[j] = s[j]
        /\ a[Len(s) + 1] = Call(kind, arg)
    BY <1>3, <2>1, SentCalls
  <2> QED BY <1>2, <1>3, <2>2
<1>5. PICK here, call : here = n[i].here /\ call = [a[last] EXCEPT !.here = here]
  OBVIOUS
<1>6. m = [a EXCEPT ![last] = call]
  BY <1>1, <1>3, <1>5
<1>7. /\ DOMAIN m = DOMAIN a /\ m[last] = call /\ m = [j \in DOMAIN a |-> m[j]]
      /\ \A j \in DOMAIN s : m[j] = s[j]
  BY <1>4, <1>6
<1>8. /\ IsCall(call) /\ call.kind = kind /\ call.arg = arg /\ call.here = here
      /\ call.stage = "sent" /\ ~ call.ok
  <2>1. call = [kind |-> kind, arg |-> arg, here |-> here,
                stage |-> "sent", ok |-> FALSE, data |-> None]
    <3>1. PICK yes \in BOOLEAN, no \in BOOLEAN : yes = TRUE /\ no = FALSE
      OBVIOUS
    <3>2. PICK c : c = a[last]
      OBVIOUS
    <3>3. c = [kind |-> kind, arg |-> arg, here |-> yes,
               stage |-> "sent", ok |-> no, data |-> None]
      BY <1>4, <3>1, <3>2 DEF Call
    <3>4. call = [c EXCEPT !.here = here]
      BY <1>5, <3>2
    <3>5. call = [kind |-> kind, arg |-> arg, here |-> here,
                  stage |-> "sent", ok |-> no, data |-> None]
      BY ONLY <3>3, <3>4
    <3> QED BY <3>1, <3>5
  <2> QED BY <2>1 DEF IsCall
<1>9. \A j \in DOMAIN m : IsCall(m[j])
  BY <1>2, <1>4, <1>7, <1>8 DEF Proper
<1>10. Proper(m)
  <2> DEFINE S == {m[j] : j \in DOMAIN m}
  <2>1. DOMAIN m = 1..last /\ last \in Nat
    BY <1>2, <1>3, <1>4, <1>7
  <2>2. m \in [1..last -> S]
    BY <1>7, <2>1
  <2> HIDE DEF S
  <2>3. m \in Seq(S)
    BY <2>1, <2>2, SeqDef
  <2> QED BY <1>9, <2>3, ProperSeq
<1>11. DOMAIN m \ {last} = DOMAIN s
  BY <1>4, <1>7
<1>12. /\ \A j \in DOMAIN s : From(i, j) \in DOMAIN n \ {i} /\ m[j] = n[From(i, j)]
       /\ \A j, k \in DOMAIN s : From(i, j) = From(i, k) => j = k
       /\ \A k \in DOMAIN n \ {i} : \E j \in DOMAIN s : From(i, j) = k /\ m[j] = n[k]
  BY <1>2, <1>7 DEF Settles
<1>13. Follows(n, m, i, last, kind, arg)
  BY <1>4, <1>5, <1>7, <1>8, <1>10, <1>11, <1>12 DEF Follows
<1> QED BY <1>13

\* Calls that go under another name are otherwise what they were.
Renames(n, m, J, kind) ==
    /\ Proper(m) /\ DOMAIN m = DOMAIN n
    /\ \A j \in DOMAIN n :
          /\ m[j].arg = n[j].arg /\ m[j].here = n[j].here /\ m[j].stage = n[j].stage
          /\ m[j].ok = n[j].ok /\ m[j].data = n[j].data
          /\ m[j].kind = IF j \in J THEN kind ELSE n[j].kind

LEMMA ProperRenamed ==
  ASSUME NEW n, Proper(n), NEW J, NEW kind, NEW m,
         m = [j \in DOMAIN n |-> IF j \in J THEN [n[j] EXCEPT !.kind = kind] ELSE n[j]]
  PROVE  Renames(n, m, J, kind)
<1> DEFINE S == {m[j] : j \in DOMAIN n}
<1>1. Len(n) \in Nat /\ DOMAIN n = 1..Len(n)
  BY LenProperties DEF Proper
<1>2. m \in [1..Len(n) -> S]
  BY <1>1
<1> HIDE DEF S
<1>3. m \in Seq(S)
  BY <1>1, <1>2, SeqDef
<1>4. ASSUME NEW j \in DOMAIN n
      PROVE  /\ IsCall(m[j]) /\ m[j].arg = n[j].arg /\ m[j].here = n[j].here
             /\ m[j].stage = n[j].stage /\ m[j].ok = n[j].ok /\ m[j].data = n[j].data
             /\ m[j].kind = IF j \in J THEN kind ELSE n[j].kind
  <2>1. /\ n[j] = [kind |-> n[j].kind, arg |-> n[j].arg, here |-> n[j].here,
                   stage |-> n[j].stage, ok |-> n[j].ok, data |-> n[j].data]
        /\ n[j].stage \in {"sent", "answered"} /\ n[j].ok \in BOOLEAN
        /\ n[j].stage = "sent" => ~ n[j].ok
    BY DEF Proper, IsCall
  <2>2. CASE j \in J
    <3>1. m[j] = [kind |-> kind, arg |-> n[j].arg, here |-> n[j].here,
                  stage |-> n[j].stage, ok |-> n[j].ok, data |-> n[j].data]
      BY <2>1, <2>2
    <3> QED BY <2>1, <2>2, <3>1 DEF IsCall
  <2>3. CASE j \notin J
    BY <2>1, <2>3 DEF IsCall
  <2> QED BY <2>2, <2>3
<1>5. Proper(m)
  BY <1>3, <1>4, ProperSeq
<1> QED BY <1>4, <1>5 DEF Renames

\* The number of members of P up to each of them counts them, and no two get the
\* same number.
LEMMA NthOf ==
  ASSUME NEW N \in Nat, NEW P \in SUBSET (1..N)
  PROVE  /\ IsFiniteSet(P) /\ Cardinality(P) \in Nat
         /\ \A k \in 1..Cardinality(P) : /\ Nth(P, k) \in P
                                         /\ Cardinality({j \in P : j <= Nth(P, k)}) = k
         /\ \A i \in P : \E k \in 1..Cardinality(P) : Nth(P, k) = i
<1> DEFINE C == Cardinality(P)
           Upto(i) == {j \in P : j <= i}
<1>1. IsFiniteSet(P) /\ C \in Nat
  <2>1. IsFiniteSet(1..N)
    BY FS_Interval
  <2> QED BY <2>1, FS_Subset, FS_CardinalityType
<1>2. ASSUME NEW i \in P PROVE IsFiniteSet(Upto(i)) /\ Cardinality(Upto(i)) \in 1..C
  <2>1. Upto(i) \in SUBSET P /\ i \in Upto(i)
    OBVIOUS
  <2>2. IsFiniteSet(Upto(i)) /\ Cardinality(Upto(i)) <= C /\ Cardinality(Upto(i)) \in Nat
    BY <1>1, <2>1, FS_Subset, FS_CardinalityType
  <2>3. Cardinality(Upto(i)) # 0
    BY <2>1, <2>2, FS_EmptySet
  <2> QED BY <1>1, <2>2, <2>3
<1>3. ASSUME NEW i \in P, NEW j \in P, i < j PROVE Cardinality(Upto(i)) # Cardinality(Upto(j))
  <2>1. P \subseteq Nat /\ i \in Nat /\ j \in Nat
    OBVIOUS
  <2>2. Upto(i) \in SUBSET Upto(j)
    <3>1. \A p \in P : p <= i => p <= j
      BY <1>3, <2>1
    <3>2. Upto(i) \subseteq Upto(j)
      BY <3>1
    <3> QED BY ONLY <3>2
  <2>3. j \in Upto(j) /\ j \notin Upto(i)
    BY <1>3, <2>1
  <2> QED BY <1>2, <2>2, <2>3, FS_Subset
<1> DEFINE r == [i \in P |-> Cardinality(Upto(i))]
<1>4. r \in [P -> 1..C]
  BY <1>2
<1>5. \A i, j \in P : r[i] = r[j] => i = j
  BY <1>3
<1>6. \A i \in P : r[i] = Cardinality(Upto(i))
  OBVIOUS
<1> HIDE DEF r, C, Upto
<1>7. r \in Injection(P, 1..C)
  BY <1>4, <1>5 DEF Injection, IsInjective
<1>8. IsFiniteSet(1..C) /\ Cardinality(1..C) = C
  BY <1>1, FS_Interval
<1>9. r \in Surjection(P, 1..C)
  BY <1>7, <1>8, FS_Injection DEF C
<1>10. \A k \in 1..C : \E i \in P : r[i] = k
  BY <1>9 DEF Surjection
<1>11. ASSUME NEW k \in 1..C PROVE Nth(P, k) \in P /\ Cardinality({j \in P : j <= Nth(P, k)}) = k
  BY <1>6, <1>10 DEF Nth, Upto
<1>12. ASSUME NEW i \in P PROVE Nth(P, r[i]) = i
  <2>1. r[i] \in 1..C
    BY <1>4
  <2>2. r[Nth(P, r[i])] = r[i] /\ Nth(P, r[i]) \in P
    BY <1>6, <1>11, <2>1 DEF Upto
  <2> QED BY <1>5, <2>2
<1> QED BY <1>1, <1>4, <1>11, <1>12 DEF C

\* Those of a sequence that stay keep their order and nothing is lost of them.
LEMMA FilteredSeq ==
  ASSUME NEW T, NEW s \in Seq(T), NEW P \in SUBSET DOMAIN s, NEW m, m = Filtered(s, P)
  PROVE  /\ m \in Seq(T)
         /\ \A k \in DOMAIN m : Nth(P, k) \in P /\ m[k] = s[Nth(P, k)]
         /\ \A j, k \in DOMAIN m : Nth(P, j) = Nth(P, k) => j = k
         /\ \A i \in P : \E k \in DOMAIN m : Nth(P, k) = i /\ m[k] = s[i]
<1>1. Len(s) \in Nat /\ DOMAIN s = 1..Len(s)
  BY LenProperties
<1>2. /\ Cardinality(P) \in Nat
      /\ \A k \in 1..Cardinality(P) : /\ Nth(P, k) \in P
                                      /\ Cardinality({j \in P : j <= Nth(P, k)}) = k
      /\ \A i \in P : \E k \in 1..Cardinality(P) : Nth(P, k) = i
  BY <1>1, NthOf
<1>3. DOMAIN m = 1..Cardinality(P) /\ \A k \in DOMAIN m : m[k] = s[Nth(P, k)]
  BY DEF Filtered
<1>4. m \in [1..Cardinality(P) -> T]
  <2>1. \A i \in DOMAIN s : s[i] \in T
    BY <1>1, ElementOfSeq
  <2> QED BY <1>2, <2>1 DEF Filtered
<1>5. m \in Seq(T)
  BY <1>2, <1>4, SeqDef
<1>6. \A k \in DOMAIN m : Nth(P, k) \in P /\ m[k] = s[Nth(P, k)]
  BY <1>2, <1>3
<1>7. ASSUME NEW j \in DOMAIN m, NEW k \in DOMAIN m, Nth(P, j) = Nth(P, k) PROVE j = k
  <2>1. PICK i : i = Nth(P, j) /\ i = Nth(P, k)
    BY <1>7
  <2>2. Cardinality({l \in P : l <= i}) = j /\ Cardinality({l \in P : l <= i}) = k
    BY <1>2, <1>3, <2>1
  <2> QED BY <2>2
<1>8. ASSUME NEW i \in P PROVE \E k \in DOMAIN m : Nth(P, k) = i /\ m[k] = s[i]
  BY <1>2, <1>3
<1> QED BY <1>5, <1>6, <1>7, <1>8

\* Calls P of those in flight stay in flight.
Keeps(n, m, P) ==
    /\ Proper(m)
    /\ \A j \in DOMAIN m : Nth(P, j) \in P /\ m[j] = n[Nth(P, j)]
    /\ \A j, k \in DOMAIN m : Nth(P, j) = Nth(P, k) => j = k
    /\ \A i \in P : \E j \in DOMAIN m : Nth(P, j) = i /\ m[j] = n[i]

LEMMA ProperFiltered ==
  ASSUME NEW n, Proper(n), NEW P \in SUBSET DOMAIN n
  PROVE  Keeps(n, Filtered(n, P), P)
<1>1. PICK m : m = Filtered(n, P)
  OBVIOUS
<1> DEFINE T == {n[i] : i \in DOMAIN n}
<1>2. n \in Seq(T)
  BY DEF Proper
<1>3. /\ m \in Seq(T)
      /\ \A k \in DOMAIN m : Nth(P, k) \in P /\ m[k] = n[Nth(P, k)]
      /\ \A j, k \in DOMAIN m : Nth(P, j) = Nth(P, k) => j = k
      /\ \A i \in P : \E k \in DOMAIN m : Nth(P, k) = i /\ m[k] = n[i]
  BY <1>1, <1>2, FilteredSeq
<1>4. \A k \in DOMAIN m : IsCall(m[k])
  BY <1>3 DEF Proper
<1> HIDE DEF T
<1>5. Proper(m)
  BY <1>3, <1>4, ProperSeq
<1> QED BY <1>1, <1>3, <1>5 DEF Keeps

SetOf(s) == {s[k] : k \in DOMAIN s}

\* A sequence and one more, whatever it is of.
Joins(s, t, last, x) ==
    /\ t \in Seq(SetOf(t)) /\ DOMAIN t = DOMAIN s \cup {last}
    /\ last \notin DOMAIN s /\ t[last] = x
    /\ \A k \in DOMAIN s : t[k] = s[k]

LEMMA OneMore ==
  ASSUME NEW s, s \in Seq(SetOf(s)), NEW x
  PROVE  Joins(s, Append(s, x), Len(s) + 1, x)
<1> DEFINE t == Append(s, x)
<1> DEFINE T == SetOf(s) \cup {x}
<1>1. Len(s) \in Nat /\ DOMAIN s = 1..Len(s) /\ s \in [1..Len(s) -> SetOf(s)]
  BY LenProperties, SeqDef
<1>2. s \in [1..Len(s) -> T]
  BY <1>1
<1>3. s \in Seq(T) /\ x \in T
  BY <1>1, <1>2, SeqDef
<1> HIDE DEF T, t
<1>4. /\ t \in Seq(T) /\ Len(t) = Len(s) + 1
      /\ \A k \in 1..Len(s) : t[k] = s[k]
      /\ t[Len(s) + 1] = x
  BY <1>3, AppendProperties DEF t
<1>5. DOMAIN t = 1..Len(s) + 1 /\ t \in [1..Len(s) + 1 -> T]
  BY <1>4, LenProperties, SeqDef
<1>6. t \in [1..Len(s) + 1 -> SetOf(t)]
  BY <1>5 DEF SetOf
<1>7. t \in Seq(SetOf(t))
  <2>1. PICK n, V : n \in Nat /\ n = Len(s) + 1 /\ V = SetOf(t)
    BY <1>1
  <2>2. t \in [1..n -> V]
    BY <1>6, <2>1
  <2> QED BY <2>1, <2>2, SeqDef
<1> QED BY <1>1, <1>4, <1>5, <1>7 DEF Joins, t

\* The calls s, as many as k, leave at once behind those in flight.
Joined(n, m, s, k) ==
    /\ Proper(m) /\ DOMAIN n \subseteq DOMAIN m
    /\ \A i \in DOMAIN n : m[i] = n[i]
    /\ \A i \in DOMAIN m \ DOMAIN n : \E j \in 1..k : m[i] = s[j]
    /\ \A j \in 1..k : \E i \in DOMAIN m \ DOMAIN n : m[i] = s[j]

LEMMA ProperJoined ==
  ASSUME NEW n, Proper(n), NEW k \in Nat, NEW s, s \in [1..k -> SetOf(s)],
         \A j \in 1..k : IsCall(s[j])
  PROVE  Joined(n, n \o s, s, k)
<1>0. PICK m : m = n \o s
  OBVIOUS
<1>1. Len(n) \in Nat /\ DOMAIN n = 1..Len(n) /\ n = [i \in 1..Len(n) |-> n[i]]
  BY LenProperties, SeqDef DEF Proper
<1> DEFINE T == {n[i] : i \in DOMAIN n} \cup {s[j] : j \in 1..k}
<1>2. n \in Seq(T) /\ s \in Seq(T) /\ Len(s) = k
  <2>1. n \in [1..Len(n) -> T] /\ s \in [1..k -> T] /\ DOMAIN s = 1..k
    BY <1>1
  <2> HIDE DEF T
  <2>2. n \in Seq(T) /\ s \in Seq(T)
    BY <1>1, <2>1, SeqDef
  <2>3. DOMAIN s = 1..Len(s) /\ Len(s) \in Nat
    BY <2>2, LenProperties
  <2> QED BY <2>1, <2>2, <2>3
<1> HIDE DEF T
<1>3. /\ m \in Seq(T) /\ Len(m) = Len(n) + k
      /\ \A i \in 1..Len(n) + k : m[i] = IF i <= Len(n) THEN n[i] ELSE s[i - Len(n)]
  BY <1>0, <1>2, ConcatProperties
<1>4. DOMAIN m = 1..Len(n) + k
  BY <1>3, LenProperties
<1>5. DOMAIN n \subseteq DOMAIN m /\ \A i \in DOMAIN n : m[i] = n[i]
  BY <1>1, <1>3, <1>4
<1>6. ASSUME NEW i \in DOMAIN m \ DOMAIN n PROVE \E j \in 1..k : m[i] = s[j]
  <2>1. i - Len(n) \in 1..k /\ m[i] = s[i - Len(n)]
    BY <1>1, <1>3, <1>4
  <2> QED BY <2>1
<1>7. ASSUME NEW j \in 1..k PROVE \E i \in DOMAIN m \ DOMAIN n : m[i] = s[j]
  <2>1. Len(n) + j \in DOMAIN m \ DOMAIN n /\ (Len(n) + j) - Len(n) = j
    BY <1>1, <1>4
  <2>2. m[Len(n) + j] = s[j]
    BY <1>1, <1>3, <1>4, <2>1
  <2> QED BY <2>1, <2>2
<1>8. \A i \in DOMAIN m : IsCall(m[i])
  BY <1>5, <1>6 DEF Proper
<1>9. Proper(m)
  BY <1>3, <1>8, ProperSeq
<1> QED BY <1>0, <1>5, <1>6, <1>7, <1>9 DEF Joined

\* One call of a kind for each of a set of numbers.
Each(n, kind, ids) == n \o [k \in 1..Cardinality(ids) |-> Call(kind, Nth(ids, k))]

AsksEach(n, m, kind, ids) ==
    /\ Proper(m) /\ DOMAIN n \subseteq DOMAIN m
    /\ \A i \in DOMAIN n : m[i] = n[i]
    /\ \A i \in DOMAIN m \ DOMAIN n :
          /\ m[i].kind = kind /\ m[i].arg \in ids /\ m[i].here = TRUE
          /\ m[i].stage = "sent" /\ ~ m[i].ok
    /\ \A x \in ids : \E i \in DOMAIN m \ DOMAIN n : m[i].arg = x

LEMMA ProperEach ==
  ASSUME NEW n, Proper(n), NEW kind, NEW N \in Nat, NEW ids \in SUBSET (1..N)
  PROVE  AsksEach(n, Each(n, kind, ids), kind, ids)
<1>1. PICK c, s : c = Cardinality(ids) /\ s = [k \in 1..c |-> Call(kind, Nth(ids, k))]
  OBVIOUS
<1>2. /\ c \in Nat /\ \A k \in 1..c : Nth(ids, k) \in ids
      /\ \A x \in ids : \E k \in 1..c : Nth(ids, k) = x
  BY <1>1, NthOf
<1>3. \A k \in 1..c : /\ IsCall(s[k]) /\ s[k].kind = kind /\ s[k].arg = Nth(ids, k)
                       /\ s[k].here = TRUE /\ s[k].stage = "sent" /\ ~ s[k].ok
  BY <1>1 DEF IsCall, Call
<1>4. s \in [1..c -> SetOf(s)]
  BY <1>1 DEF SetOf
<1>5. PICK m : m = n \o s
  OBVIOUS
<1>6. Joined(n, m, s, c)
  <2>1. \A k \in 1..c : IsCall(s[k])
    BY <1>3
  <2> QED BY ONLY Proper(n), <1>2, <1>4, <1>5, <2>1, ProperJoined
<1>7. m = Each(n, kind, ids)
  BY <1>1, <1>5 DEF Each
<1> HIDE <1>1
<1> QED BY <1>2, <1>3, <1>6, <1>7 DEF AsksEach, Joined
=============================================================================
