------------------------------- MODULE Calls -------------------------------
(***************************************************************************)
(* The calls a page of the web front end has in flight.  Every API module  *)
(* of the front end wraps fetch() the same way: the request leaves with    *)
(* the token held at that moment, the backend serves it at some later      *)
(* moment or refuses it, and the promise settles later still, after other  *)
(* answers that left the backend after it.  A call is a record             *)
(*    kind   the handler that sent it,                                     *)
(*    arg    what the handler captured when it sent it,                    *)
(*    here   whether the component that sent it still listens (it is       *)
(*           mounted and its effect is not cancelled),                     *)
(*    stage  "sent", then "answered",                                      *)
(*    ok     whether the promise resolves or throws,                       *)
(*    data   what the backend put in the answer.                           *)
(***************************************************************************)
EXTENDS Naturals, Sequences, SequencesExt

CONSTANTS None,        \* no value: null, undefined or an empty string
          MaxCalls     \* bound: calls a browser has in flight at once

ASSUME MaxCallsAssumption == MaxCalls \in Nat \ {0}

Call(kind, arg) == [kind |-> kind, arg |-> arg, here |-> TRUE,
                    stage |-> "sent", ok |-> FALSE, data |-> None]

Calls(Kinds) == [kind : Kinds, here : BOOLEAN, stage : {"sent", "answered"},
                 ok : BOOLEAN]

\* The calls with their payloads left out, for the type invariants.
Envelope(c) == [kind |-> c.kind, here |-> c.here, stage |-> c.stage, ok |-> c.ok]

CallsOK(net, Kinds) == /\ Len(net) <= MaxCalls
                       /\ \A i \in DOMAIN net : Envelope(net[i]) \in Calls(Kinds)

Room(net, n) == Len(net) + n <= MaxCalls

\* fetch(): the request leaves.
Sent(net, kind, arg) == Append(net, Call(kind, arg))

\* The backend answers 2xx, or the promise throws: an error status, no network, or
\* an answer that gets lost on its way although all is done.
Served(net, i, data) == [net EXCEPT ![i].stage = "answered", ![i].ok = TRUE,
                                    ![i].data = data]
Refused(net, i, data) == [net EXCEPT ![i].stage = "answered", ![i].ok = FALSE,
                                     ![i].data = data]

Waiting(net, kind) == {i \in DOMAIN net : net[i].kind = kind /\ net[i].stage = "sent"}
Answered(net, kind) == {i \in DOMAIN net : net[i].kind = kind /\ net[i].stage = "answered"}
Coming(net) == {i \in DOMAIN net : net[i].stage = "answered" /\ net[i].ok}
InFlight(net, kind) == \E i \in DOMAIN net : net[i].kind = kind

\* The promise settles: its continuation runs and the call is over.
Settled(net, i) == RemoveAt(net, i)

\* A sequence at some of its positions only, in their order: the k-th of a set of
\* numbers is the one that k of them do not exceed.
Nth(P, k) == CHOOSE i \in P : Cardinality({j \in P : j <= i}) = k
Filtered(s, P) == [k \in 1..Cardinality(P) |-> s[Nth(P, k)]]

\* The components that sent these kinds are unmounted, or their effects are
\* cleaned up: "cancelled = true".
Unheard(net, kinds) ==
    [i \in DOMAIN net |-> IF net[i].kind \in kinds THEN [net[i] EXCEPT !.here = FALSE]
                                                   ELSE net[i]]
=============================================================================
