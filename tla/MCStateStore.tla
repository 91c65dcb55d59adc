---------------------------- MODULE MCStateStore -----------------------------
(* Model-checking instances of StateStore.  Task names and nicks are only   *)
(* compared for equality, so both sets may be permuted.                     *)
EXTENDS StateStore, TLC

NameSymmetry == Permutations(Tasks) \cup Permutations(Nicks)
=============================================================================
