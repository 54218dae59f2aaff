---------------------------- MODULE MCScreenshot ----------------------------
(* Bounded instances of Screenshot for TLC. *)
EXTENDS Screenshot, TLC

CONSTANTS s1, s2

Identifiers == Permutations({s1, s2})
=============================================================================
