------------------------------- MODULE MCAudit ------------------------------
(* Model values for the runs of Audit. *)
EXTENDS Audit, TLC

\* Requests are interchangeable; used where only invariants are checked.
RequestSymmetry == Permutations(Requests)
=============================================================================
