---------------------------- MODULE MCRestoreRun ----------------------------
(* Bounded instances of RestoreRun for TLC. *)
EXTENDS RestoreRun

\* Exactly the actions S are planned, in every project.
Only(S) == [k \in ActionKey |-> IF k[2] \in S THEN "planned" ELSE "skipped"]

PairPlan == Only({Terminal, Codex})
TaskPlan == Only(TaskSlot)
IdePlan == Only({3, Ide})
CancelPlans == {PairPlan, TaskPlan, IdePlan}

\* A launch task in each project; the first project blocked by its IDE action;
\* or the first skipped as a whole, and a terminal and a launch task in the second.
Plain == Only({3})
RecoveryPlans == {Plain, [Plain EXCEPT ![<<1, Ide>>] = "blocked"],
                  [Plain EXCEPT ![<<1, 3>>] = "skipped", ![<<2, Terminal>>] = "planned"]}
=============================================================================
