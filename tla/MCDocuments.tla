----------------------------- MODULE MCDocuments -----------------------------
EXTENDS Documents, TLC

(* Callers, approvers and contents are interchangeable. *)
Symmetry == Permutations(Procs) \cup Permutations(Approvers) \cup Permutations(Contents)
=============================================================================
