----------------------------- MODULE RestorePlan -----------------------------
(***************************************************************************)
(* The shape of a restore plan, as built by                                *)
(* src-tauri/src/services/planner_service.rs and executed by               *)
(* src-tauri/src/services/restore_service.rs: the projects of a snapshot   *)
(* in order, and in each project the terminal, the Codex, the launch task  *)
(* and the IDE actions, in that order.                                     *)
(***************************************************************************)
EXTENDS Naturals

CONSTANTS
    NumProjects, \* projects of the snapshot
    NumTasks,    \* launch tasks of a project
    Continue     \* the task slots with continue_on_failure

ASSUME PlanAssumption ==
    /\ NumProjects \in Nat \ {0}
    /\ NumTasks \in Nat
    /\ Continue \subseteq 3..(NumTasks + 2)

Project == 1..NumProjects

\* The position of an action in its project's plan.
Terminal == 1
Codex == 2
TaskSlot == 3..(NumTasks + 2)
Ide == NumTasks + 3
Slot == 1..(NumTasks + 3)

ActionKey == Project \X Slot

\* The terminal and the Codex action share one launch, named after the terminal.
LaunchId == Project \X (Slot \ {Codex})

PlanStatus == {"planned", "skipped", "blocked"}

\* summarize_project_status: one blocked action blocks its whole project.
PlannedProjectStatus(plan, p) ==
    IF \E s \in Slot: plan[<<p, s>>] = "blocked" THEN "blocked"
    ELSE IF \E s \in Slot: plan[<<p, s>>] = "planned" THEN "planned"
    ELSE "skipped"

ActionStatus == PlanStatus \cup
    {"running", "completed", "failed", "cancelled", "cancel_requested"}

\* is_finished_action_status
FinishedAction == {"completed", "failed", "blocked", "skipped", "cancelled"}

RunStatus == {"absent", "running", "cancel_requested", "completed",
              "completed_with_blocks", "completed_with_warnings", "failed",
              "cancelled"}

\* is_finished_run_status
FinishedRun == RunStatus \ {"absent", "running", "cancel_requested"}

\* summarize_project_actions over the actions st of project p.
ProjectStatus(st, p) ==
    LET Has(x) == \E s \in Slot: st[<<p, s>>] = x
    IN IF Has("cancelled") THEN "cancelled"
       ELSE IF Has("failed") THEN "failed"
       ELSE IF Has("blocked") THEN "blocked"
       ELSE IF Has("completed") THEN "completed"
       ELSE IF Has("running") THEN "running"
       ELSE "skipped"

\* summarize_run_status over the records of the projects.
RunSummary(rec) ==
    IF \E p \in Project: rec[p] \in {"failed", "blocked"}
    THEN "completed_with_blocks"
    ELSE IF \E p \in Project: rec[p] = "cancelled"
         THEN "completed_with_warnings"
         ELSE "completed"

\* finalize_restore_run: the status left on the snapshot.
SnapshotStatus(status) ==
    IF status \in {"completed", "failed", "cancelled"} THEN status
    ELSE "completed_with_warnings"
=============================================================================
