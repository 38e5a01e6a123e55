--------------------------- MODULE MCPasswordCodes ---------------------------
(* Model-checking instances of PasswordCodes. *)
EXTENDS PasswordCodes, TLC

CONSTANTS h1, h2, w1, east, west

OneInstance == [g \in Goroutines |-> east]

TwoInstances == [g \in Goroutines |-> IF g = h2 THEN west ELSE east]

Interchangeable == Permutations(Handlers)
=============================================================================
