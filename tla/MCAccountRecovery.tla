-------------------------- MODULE MCAccountRecovery --------------------------
(* Model-checking instances of AccountRecovery. *)
EXTENDS AccountRecovery, TLC

\* a sign-in and a change with the current password write as "code" does
AllButSignedIn == AllOps \ {"login", "change"}

Interchangeable == Permutations(Procs)
=============================================================================
