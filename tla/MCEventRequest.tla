--------------------------- MODULE MCEventRequest ---------------------------
(* Model-checking instances of EventRequest. *)
EXTENDS EventRequest, TLC

\* no booking desk
ReviewOps == AllOps \ {"desk"}

Interchangeable == Permutations(Procs)
=============================================================================
