----------------------------- MODULE MCCodexAuth -----------------------------
(* Bounded instances of CodexAuth for TLC. *)
EXTENDS CodexAuth, TLC

Symmetry == Permutations(Profile) \cup Permutations(Content) \cup Permutations(Caller)
=============================================================================
