------------------------- MODULE MCRecoveryThrottle -------------------------
(* Model-checking instances of RecoveryThrottle. *)
EXTENDS RecoveryThrottle, TLC

CONSTANTS ip, acct, support

\* a recovery names the client's address and the account, a support reset the
\* address and another counter of the account
RecoveryWants == {<<ip, acct>>, <<ip, support>>}

RecoveryLimit == [k \in Keys |-> IF k = ip THEN 2 ELSE 1]

Interchangeable == Permutations(Calls)
=============================================================================
