------------------------------ MODULE Shortlist ------------------------------
(***************************************************************************)
(* The shortlist of an event: the candidates of a category, one's own vote *)
(* on them shown before the backend has it, the status an organizer gives  *)
(* them, and up to four ticked for comparison.  After most actions the     *)
(* page loads the list again; loads are not ordered with what is clicked   *)
(* meanwhile.                                                              *)
(***************************************************************************)
EXTENDS Calls, FiniteSets

CONSTANTS Candidates,  \* the candidates of one category
          Votable,     \* bound: the candidates voted on
          Values,      \* the votes
          MAX_COMPARE, \* ticks allowed (4 in the code)
          MaxClicks    \* bound: votes, statuses and removals asked for

VARIABLES ui,          \* the page's state and the summary of the event's context
          net, srv, hist

vars == <<ui, net, srv, hist>>

Kinds == {"load", "summary", "vote", "status", "remove"}
Statuses == {"shortlisted", "selected", "rejected"}

\* A candidate as the list gives it: its votes include one's own.
Row(c) == [status |-> srv.status[c], my_vote |-> srv.mine[c],
           votes |-> [v \in Values |-> srv.others[c][v] + IF srv.mine[c] = v THEN 1 ELSE 0]]
Rows == [c \in srv.kept |-> Row(c)]

TypeOK ==
    /\ DOMAIN ui.candidates \subseteq Candidates
    /\ \A c \in DOMAIN ui.candidates :
         /\ ui.candidates[c].status \in Statuses
         /\ ui.candidates[c].my_vote \in Values \cup {None}
         /\ ui.candidates[c].votes \in [Values -> 0..2]
    /\ ui.compareIds \subseteq Candidates /\ Cardinality(ui.compareIds) <= MAX_COMPARE
    /\ ui.compareOpen \in BOOLEAN
    /\ ui.summary \in 0..Cardinality(Candidates)
    /\ CallsOK(net, Kinds)

----------------------------------------------------------------------------
(* The backend *)

ServeLook ==
    /\ \/ \E i \in Waiting(net, "load") : net' = Served(net, i, [rows |-> Rows, others |-> srv.others])
       \/ \E i \in Waiting(net, "summary") : net' = Served(net, i, Cardinality(srv.kept))
    /\ UNCHANGED <<srv, hist>>

\* Votes reach the backend in any order; the last one served stays.
ServeVote == \E i \in Waiting(net, "vote") :
    LET a == net[i].arg IN
    /\ a.c \in srv.kept
    /\ srv' = [srv EXCEPT !.mine[a.c] = a.value]
    /\ hist' = [hist EXCEPT !.crossed = @ \/ \E j \in Waiting(net, "vote") :
                                                j < i /\ net[j].arg.c = a.c]
    /\ net' = Served(net, i, None)

\* Selecting a candidate takes the others of its category back to the list.
ServeStatus == \E i \in Waiting(net, "status") :
    LET a == net[i].arg IN
    /\ a.c \in srv.kept
    /\ srv' = [srv EXCEPT !.status = [c \in Candidates |->
                 IF c = a.c THEN a.status
                 ELSE IF a.status = "selected" /\ @[c] = "selected" THEN "shortlisted"
                 ELSE @[c]]]
    /\ net' = Served(net, i, None)
    /\ UNCHANGED hist

ServeRemove == \E i \in Waiting(net, "remove") :
    /\ srv' = [srv EXCEPT !.kept = @ \ {net[i].arg}]
    /\ net' = Served(net, i, None)
    /\ UNCHANGED hist

ServeRefusal == \E i \in DOMAIN net :
    net[i].stage = "sent" /\ net' = Refused(net, i, None) /\ UNCHANGED <<srv, hist>>

\* The answer gets lost.
AnswerLost == \E i \in Coming(net) : net' = Refused(net, i, None) /\ UNCHANGED <<srv, hist>>

Backend == /\ ServeLook \/ ServeVote \/ ServeStatus \/ ServeRemove \/ ServeRefusal \/ AnswerLost
           /\ UNCHANGED ui

\* Another member votes.
OthersVote == \E c \in Votable, v \in Values :
    /\ c \in srv.kept /\ \A w \in Values : srv.others[c][w] = 0
    /\ srv' = [srv EXCEPT !.others[c][v] = 1]
    /\ UNCHANGED <<ui, net, hist>>

----------------------------------------------------------------------------
(* The list *)

\* A list that does not know the votes clicked since it was asked for.
Old(rows) == \E c \in DOMAIN rows :
    \/ rows[c].my_vote # srv.mine[c]
    \/ \E i \in DOMAIN net : net[i].kind = "vote" /\ net[i].arg.c = c

\* load: whatever is on screen is replaced; a failure leaves it.  After a
\* change of status the summary follows.
LoadAnswered == \E i \in Answered(net, "load") :
    LET c == net[i] IN
    /\ IF c.ok
       THEN /\ ui' = [ui EXCEPT !.candidates = c.data.rows]
            /\ net' = IF c.arg = "status" THEN Sent(Settled(net, i), "summary", None)
                      ELSE Settled(net, i)
            /\ hist' = [hist EXCEPT !.seen = c.data.others, !.crossed = @ \/ Old(c.data.rows)]
       ELSE /\ net' = Settled(net, i)
            /\ hist' = [hist EXCEPT !.crossed = @ \/ c.arg = "vote"]
            /\ UNCHANGED ui
    /\ UNCHANGED srv

SummaryAnswered == \E i \in Answered(net, "summary") :
    /\ ui' = IF net[i].ok THEN [ui EXCEPT !.summary = net[i].data] ELSE ui
    /\ net' = Settled(net, i)
    /\ UNCHANGED <<srv, hist>>

Clicked == hist.clicks < MaxClicks /\ hist' = [hist EXCEPT !.clicks = @ + 1]

\* mutant: the vote given before is not taken back from the tally.
CountedTwice(row, value) == [row EXCEPT !.my_vote = value, !.votes[value] = @ + 1]

\* The tally as it will be: one's earlier vote out, the new one in.
Counted(row, value) ==
    LET less(n) == IF n = 0 THEN 0 ELSE n - 1
        out == IF row.my_vote = None THEN row.votes
               ELSE [row.votes EXCEPT ![row.my_vote] = less(@)]
    IN [row EXCEPT !.my_vote = value, !.votes = [out EXCEPT ![value] = @ + 1]]

\* The cards, each with its votes, tick, status and "remove".
Cards == DOMAIN ui.candidates

handleVote == \E c \in Cards \cap Votable, value \in Values :
    /\ Room(net, 1)
    /\ ui' = [ui EXCEPT !.candidates[c] = Counted(@, value)]
    /\ net' = Sent(net, "vote", [c |-> c, value |-> value])
    /\ Clicked
    /\ UNCHANGED srv

\* mutant: a vote that failed stays on screen.
FailedVoteStays(calls) == calls

\* A vote that failed: the list is loaded again.
FailedVote(calls) == Sent(calls, "load", "vote")

VoteAnswered == \E i \in Answered(net, "vote") :
    /\ net' = IF net[i].ok THEN Settled(net, i) ELSE FailedVote(Settled(net, i))
    /\ UNCHANGED <<ui, srv, hist>>

\* From the list's own menu or from the comparison, which then closes.
handleStatus == \E c \in Cards, s \in Statuses :
    /\ ui.candidates[c].status # s
    /\ Room(net, 1)
    /\ net' = Sent(net, "status", [c |-> c, status |-> s])
    /\ ui' = IF ui.compareOpen /\ s = "selected" /\ c \in ui.compareIds
             THEN [ui EXCEPT !.compareOpen = FALSE] ELSE ui
    /\ Clicked
    /\ UNCHANGED srv

\* The list is loaded again, and after it the event's summary.
StatusAnswered == \E i \in Answered(net, "status") :
    /\ net' = IF net[i].ok THEN Sent(Settled(net, i), "load", "status") ELSE Settled(net, i)
    /\ UNCHANGED <<ui, srv, hist>>

handleRemove == \E c \in Cards :
    /\ Room(net, 1)
    /\ net' = Sent(net, "remove", c)
    /\ Clicked
    /\ UNCHANGED <<ui, srv>>

Drop(rows, c) == [d \in DOMAIN rows \ {c} |-> rows[d]]

RemoveAnswered == \E i \in Answered(net, "remove") :
    /\ IF net[i].ok
       THEN /\ ui' = [ui EXCEPT !.candidates = Drop(@, net[i].arg)]
            /\ net' = Sent(Settled(net, i), "summary", None)
       ELSE ui' = ui /\ net' = Settled(net, i)
    /\ UNCHANGED <<srv, hist>>

----------------------------------------------------------------------------
(* Comparing *)

\* A box is disabled once the limit is reached, unless it is ticked; the ticks of
\* candidates removed since go on counting.
TickFree(id) == id \in ui.compareIds \/ Cardinality(ui.compareIds) < MAX_COMPARE

toggleCompare == \E id \in Cards :
    /\ TickFree(id)
    /\ ui' = [ui EXCEPT !.compareIds = SymDiff(@, {id})]
    /\ UNCHANGED <<net, srv, hist>>

CompareBar == Cardinality(ui.compareIds) >= 2
OpenCompare == /\ CompareBar /\ ~ui.compareOpen
               /\ ui' = [ui EXCEPT !.compareOpen = TRUE]
               /\ UNCHANGED <<net, srv, hist>>
CloseCompare == /\ ui.compareOpen
                /\ ui' = [ui EXCEPT !.compareOpen = FALSE]
                /\ UNCHANGED <<net, srv, hist>>

----------------------------------------------------------------------------
Init == LET nobody == [c \in Candidates |-> [v \in Values |-> 0]] IN
        /\ ui = [candidates |-> << >>, compareIds |-> {}, compareOpen |-> FALSE,
                 summary |-> Cardinality(Candidates)]
        /\ net = Sent(<< >>, "load", None)
        /\ srv = [kept |-> Candidates, status |-> [c \in Candidates |-> "shortlisted"],
                  mine |-> [c \in Candidates |-> None], others |-> nobody]
        /\ hist = [clicks |-> 0, seen |-> nobody, crossed |-> FALSE]

Next == \/ Backend \/ OthersVote
        \/ LoadAnswered \/ SummaryAnswered
        \/ handleVote \/ VoteAnswered
        \/ handleStatus \/ StatusAnswered
        \/ handleRemove \/ RemoveAnswered
        \/ toggleCompare \/ OpenCompare \/ CloseCompare

Spec == Init /\ [][Next]_vars

----------------------------------------------------------------------------
(* Properties *)

\* The tallies on screen are the other members' votes as last loaded and one's
\* own vote once, whatever was clicked, answered or loaded since.
TallyCountsMeOnce ==
    \A c \in DOMAIN ui.candidates : \A v \in Values :
        ui.candidates[c].votes[v]
            = hist.seen[c][v] + IF ui.candidates[c].my_vote = v THEN 1 ELSE 0

\* When nothing is on its way, the vote on screen is the vote the backend has:
\* a failed vote is put right by a load.  What parts them for good is two votes
\* that overtake each other, a load that one's next vote overtakes, or a load
\* that fails as the vote before it did.
VoteOnScreenIsKept ==
    net = << >> /\ ~hist.crossed =>
        \A c \in DOMAIN ui.candidates \cap srv.kept :
            ui.candidates[c].my_vote = srv.mine[c]
=============================================================================
