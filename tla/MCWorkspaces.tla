---------------------------- MODULE MCWorkspaces ----------------------------
(* Workspaces with a small set of files: one workspace with one directory,   *)
(* one with both, and two with one each.                                     *)
EXTENDS Workspaces, TLC

CONSTANTS a, b, old, new

From(paths) == [paths |-> paths, data |-> new, default |-> TRUE, pinned |-> TRUE]
Plain(paths) == [paths |-> paths, data |-> new, default |-> FALSE, pinned |-> FALSE]

Files == {<<Plain({a, b})>>, <<Plain({a}), From({b})>>}

Symmetry == Permutations(Workspace) \cup Permutations(Project)
=============================================================================
