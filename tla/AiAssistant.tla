----------------------------- MODULE AiAssistant -----------------------------
(***************************************************************************)
(* The AI assistant's widget.  The conversation lives in its state alone   *)
(* and is sent whole on every turn; the backend keeps nothing.             *)
(***************************************************************************)
EXTENDS Calls

CONSTANT MaxTurns      \* bound: questions asked

VARIABLES ui, store, net, srv, hist

vars == <<ui, store, net, srv, hist>>

Kinds == {"turn"}

\* A message is a question or the reply to question n.
Question(n) == [role |-> "user", n |-> n]
Reply(n) == [role |-> "assistant", n |-> n]

Widget == [open |-> FALSE, thread |-> << >>, input |-> FALSE, sending |-> FALSE,
           unavailable |-> FALSE]

TypeOK ==
    /\ \A f \in {"open", "input", "sending", "unavailable"} : ui[f] \in BOOLEAN
    /\ \A k \in DOMAIN ui.thread : ui.thread[k] \in [role : {"user", "assistant"}, n : 1..MaxTurns]
    /\ CallsOK(net, Kinds)
    /\ hist \in 0..MaxTurns

\* The answer, an error, or 503: no assistant is configured.
ServeTurn == \E i \in Waiting(net, "turn") :
    \/ net' = Served(net, i, None)
    \/ \E why \in {"error", "unavailable"} : net' = Refused(net, i, why)
Backend == ServeTurn /\ UNCHANGED <<ui, store, srv, hist>>

Open == /\ ~ui.open
        /\ ui' = [ui EXCEPT !.open = TRUE]
        /\ UNCHANGED <<store, net, srv, hist>>
\* The cross, Escape, or a listing's link: the conversation stays.
Close == /\ ui.open
         /\ ui' = [ui EXCEPT !.open = FALSE]
         /\ UNCHANGED <<store, net, srv, hist>>

Composer == ui.open /\ ~ui.unavailable
Type == /\ Composer /\ ~ui.input
        /\ ui' = [ui EXCEPT !.input = TRUE]
        /\ UNCHANGED <<store, net, srv, hist>>

\* mutant: Enter does not look whether a turn is under way.
MayAskAlways == ui.input

\* A suggestion is sent as it is, without the composer, on an empty thread.
MayAsk == ~ui.sending /\ (ui.input \/ ui.thread = << >>)

Send == /\ Composer /\ MayAsk /\ hist < MaxTurns /\ Room(net, 1)
        /\ LET t == Append(ui.thread, Question(hist + 1)) IN
           /\ ui' = [ui EXCEPT !.thread = t, !.input = FALSE, !.sending = TRUE]
           /\ net' = Sent(net, "turn", t)
        /\ hist' = hist + 1
        /\ UNCHANGED <<store, srv>>

\* The reply goes to the end of the thread as it is now.
TurnAnswered == \E i \in Answered(net, "turn") :
    LET c == net[i]
        done == [ui EXCEPT !.sending = FALSE]
    IN /\ ui' = IF c.ok THEN [done EXCEPT !.thread = Append(@, Reply(Last(c.arg).n))]
                ELSE IF c.data = "unavailable" THEN [done EXCEPT !.unavailable = TRUE]
                ELSE done
       /\ net' = Settled(net, i)
       /\ UNCHANGED <<store, srv, hist>>

Init == ui = Widget /\ store = None /\ net = << >> /\ srv = None /\ hist = 0
Next == Backend \/ Open \/ Close \/ Type \/ Send \/ TurnAnswered
Spec == Init /\ [][Next]_vars

\* A reply stands right after the question it answers, also when the panel was
\* closed and reopened while the assistant was thinking and when turns failed.
ReplyFollowsQuestion ==
    \A k \in DOMAIN ui.thread : ui.thread[k].role = "assistant" =>
        k > 1 /\ ui.thread[k - 1] = Question(ui.thread[k].n)
=============================================================================
