------------------------------ MODULE RestoreRun ------------------------------
(***************************************************************************)
(* One restore run of Bexo Studio: RestoreService::start_restore_run,      *)
(* the concurrent cancel_restore_run and cancel_restore_action commands,   *)
(* the SQLite rows the run is recorded in, the child processes it starts   *)
(* (ChildProcesses), a crash of the application at any step and the        *)
(* recovery of interrupted runs at the next start.                         *)
(*                                                                         *)
(* A step of the runner is the code from one await (a database write or a  *)
(* launch) to the next; everybody else moves in between.  A database write *)
(* either commits or fails without effect (a failure costs one fault).     *)
(***************************************************************************)
EXTENDS ChildProcesses

CONSTANTS
    Plans,         \* the plans a run may be started with
    RunCaller,     \* concurrent calls of cancel_restore_run
    ActionCaller,  \* concurrent calls of cancel_restore_action
    MaxFaults,     \* bound: database operations that may fail
    Crashes        \* whether the application may crash

ASSUME RunAssumption ==
    /\ Plans \subseteq [ActionKey -> PlanStatus]
    /\ MaxFaults \in Nat
    /\ Crashes \in BOOLEAN

VARIABLES
    plan,     \* the restore preview the run executes
    pc,       \* what the runner does next
    proj,     \* the project being executed
    slot,     \* the launch task slot being executed
    halt,     \* halt_reason of the project
    codexReady, \* codex_launch_plan.is_some() of the project
    act,      \* the runner's own copy of the actions
    rec,      \* the status of each finished project record
    final,    \* the run status the runner decided on
    active,   \* the run is in active_runs
    reg,      \* the actions in the active run registry
    doomed,   \* actions whose cancel was accepted while still planned (history)
    row,      \* restore_run_tasks: <<p, 0>> a project, <<p, s>> a launch task
    runRow,   \* restore_runs.status
    snap,     \* snapshots.last_restore_status
    log,      \* run status in the detail log file
    runCall,  \* progress of the cancel_restore_run calls
    actionCall, \* progress of the cancel_restore_action calls
    actionKey,  \* the action each cancel_restore_action call names
    faults    \* failed database operations so far

runnerVars == <<proj, slot, halt, codexReady, act, rec, final>>
dbVars == <<row, runRow, snap, log>>
callVars == <<runCall, actionCall, actionKey, doomed>>
vars == <<plan, pc, runnerVars, active, reg, dbVars, callVars, faults,
          flagVars, processVars>>

RowKey == Project \X ({0} \cup TaskSlot)
RowStatus == {"absent"} \cup (ActionStatus \ {"cancel_requested"})

\* Control points of start_restore_run_with_events.
ProjectPc == {"terminal", "codex", "terminalStart", "terminalWait", "afterTerminal",
              "task", "taskStart", "taskLaunch", "taskWait", "taskSettle",
              "ide", "ideStart", "ideWait", "finishProject"}
Pc == {"idle", "inserted", "active", "project", "skipRows", "skipProject",
       "finalize", "summary", "terminate", "clear", "drop", "failTerminate",
       "failClear", "failFinalize", "failDrop", "ended", "aborted", "crashed",
       "recovered"} \cup ProjectPc

CallState == {"idle", "killing", "marking", "acked", "refused", "error"}

TypeOK ==
    /\ ChildTypeOK
    /\ plan \in [ActionKey -> PlanStatus]
    /\ pc \in Pc
    /\ proj \in 1..(NumProjects + 1)
    /\ slot \in 3..(NumTasks + 3)
    /\ halt \in {"none", "cancel", "failure"}
    /\ codexReady \in BOOLEAN
    /\ act \in [ActionKey -> ActionStatus \ {"cancel_requested"}]
    /\ rec \in [Project -> RowStatus]
    /\ final \in RunStatus
    /\ active \in BOOLEAN
    /\ reg \in [ActionKey -> ActionStatus \cup {"absent"}]
    /\ doomed \in SUBSET ActionKey
    /\ row \in [RowKey -> RowStatus]
    /\ runRow \in RunStatus
    /\ snap \in RunStatus
    /\ log \in RunStatus
    /\ runCall \in [RunCaller -> CallState]
    /\ actionCall \in [ActionCaller -> CallState]
    /\ actionKey \in [ActionCaller -> ActionKey]
    /\ faults \in 0..MaxFaults

Init ==
    /\ ChildInit
    /\ plan \in Plans
    /\ pc = "idle"
    /\ proj = 1
    /\ slot = 3
    /\ halt = "none"
    /\ codexReady = FALSE
    /\ act = plan
    /\ rec = [p \in Project |-> "absent"]
    /\ final = "absent"
    /\ active = FALSE
    /\ reg = [k \in ActionKey |-> "absent"]
    /\ doomed = {}
    /\ row = [r \in RowKey |-> "absent"]
    /\ runRow = "absent"
    /\ snap = "absent"
    /\ log = "absent"
    /\ runCall = [c \in RunCaller |-> "idle"]
    /\ actionCall = [c \in ActionCaller |-> "idle"]
    /\ actionKey = [c \in ActionCaller |-> <<1, Terminal>>]
    /\ faults = 0

-----------------------------------------------------------------------------
(* Helpers *)

Key(s) == <<proj, s>>

\* The runner marks the actions S with status st and syncs them to the registry.
Marked(f, S, st) == [k \in ActionKey |-> IF k \in S THEN st ELSE f[k]]
MarkAndSync(S, st) == act' = Marked(act, S, st) /\ reg' = Marked(reg, S, st)

\* A database operation fails: the runner unwinds to failPc.
DbFails(failPc) ==
    /\ faults < MaxFaults
    /\ faults' = faults + 1
    /\ pc' = failPc

\* A write of status st to task row r: committed, or failed without effect.
WriteRow(r, st, next, failPc) ==
    \/ /\ row' = [row EXCEPT ![r] = st]
       /\ pc' = next
       /\ UNCHANGED faults
    \/ /\ DbFails(failPc)
       /\ UNCHANGED row

\* Inside execute_project an error unwinds to the failure clean-up.
WriteProjectRow(r, st, next) == WriteRow(r, st, next, "failTerminate")

ErrorStatus == {"blocked", "failed"}  \* mark_action_from_error

-----------------------------------------------------------------------------
(* The runner: start of the run *)

\* insert_restore_run_plan: one transaction for the run and its task rows.
InsertPlan ==
    /\ pc = "idle"
    /\ row' = [r \in RowKey |->
                 IF r[2] = 0 THEN PlannedProjectStatus(plan, r[1])
                 ELSE plan[r]]
    /\ runRow' = "running"
    /\ pc' = "inserted"
    /\ UNCHANGED <<plan, runnerVars, active, reg, snap, log, callVars, faults,
                   flagVars, processVars>>

\* ActiveRunGuard::new
Activate ==
    /\ pc = "inserted"
    /\ active' = TRUE
    /\ pc' = "active"
    /\ UNCHANGED <<plan, runnerVars, reg, dbVars, callVars, faults, flagVars,
                   processVars>>

\* The summary is read (an error drops the guard), then every action of every
\* project is registered.
RegisterActions ==
    /\ pc = "active"
    /\ \/ /\ reg' = plan
          /\ pc' = "project"
          /\ UNCHANGED faults
       \/ /\ DbFails("failDrop")
          /\ UNCHANGED reg
    /\ UNCHANGED <<plan, runnerVars, active, dbVars, callVars, flagVars,
                   processVars>>

-----------------------------------------------------------------------------
(* The runner: the loop over the projects *)

\* After a cancel the remaining projects are only recorded as skipped.
SkipCancelledProject ==
    /\ pc = "project"
    /\ proj <= NumProjects
    /\ cancelRequested
    /\ pc' = "skipRows"
    /\ slot' = 3
    /\ UNCHANGED <<plan, proj, halt, codexReady, act, rec, final, active, reg,
                   dbVars, callVars, faults, flagVars, processVars>>

\* build_cancelled_pending_project writes every launch task row, planned or not;
\* an error leaves start_restore_run directly.
SkipRow ==
    /\ pc = "skipRows"
    /\ slot \in TaskSlot
    /\ WriteRow(Key(slot), "skipped", "skipRows", "failDrop")
    /\ slot' = slot + 1
    /\ UNCHANGED <<plan, proj, halt, codexReady, act, rec, final, active, reg,
                   runRow, snap, log, callVars, flagVars, processVars>>

SkipProjectRow ==
    /\ pc = "skipRows"
    /\ slot \notin TaskSlot
    /\ WriteRow(Key(0), "skipped", "skipProject", "failDrop")
    /\ UNCHANGED <<plan, runnerVars, active, reg, runRow, snap, log, callVars,
                   flagVars, processVars>>

\* Mutant: launch tasks are not among the actions given up.
PlannedIdeOf(p) == {k \in ActionKey: k = <<p, Ide>> /\ act[k] = "planned"}

PlannedOf(p) == {k \in ActionKey: k[1] = p /\ act[k] = "planned"}

\* The registry takes over the runner's copy of the project's actions.
SyncProject(a) == reg' = [k \in ActionKey |-> IF k[1] = proj THEN a[k] ELSE reg[k]]

RecordSkipped ==
    /\ pc = "skipProject"
    /\ act' = Marked(act, PlannedOf(proj), "skipped")
    /\ SyncProject(act')
    /\ rec' = [rec EXCEPT ![proj] = "skipped"]
    /\ proj' = proj + 1
    /\ pc' = "project"
    /\ UNCHANGED <<plan, slot, halt, codexReady, final, active, dbVars,
                   callVars, faults, flagVars, processVars>>

\* execute_project of a project the plan blocked or skipped as a whole.
RecordUnplanned ==
    /\ pc = "project"
    /\ proj <= NumProjects
    /\ ~cancelRequested
    /\ PlannedProjectStatus(plan, proj) # "planned"
    /\ SyncProject(act)
    /\ rec' = [rec EXCEPT ![proj] = PlannedProjectStatus(plan, proj)]
    /\ proj' = proj + 1
    /\ UNCHANGED <<plan, pc, slot, halt, codexReady, act, final, active, dbVars,
                   callVars, faults, flagVars, processVars>>

StartProject ==
    /\ pc = "project"
    /\ proj <= NumProjects
    /\ ~cancelRequested
    /\ PlannedProjectStatus(plan, proj) = "planned"
    /\ WriteProjectRow(Key(0), "running", "terminal")
    /\ UNCHANGED <<plan, runnerVars, active, reg, runRow, snap, log, callVars,
                   flagVars, processVars>>

-----------------------------------------------------------------------------
(* The runner: terminal and Codex, which share one program *)

\* What execute_terminal_actions finds planned.
PlannedPair == {k \in {Key(Terminal), Key(Codex)}: act[k] = "planned"}

\* A cancelled terminal action takes the Codex action with it; a cancelled Codex
\* action only leaves the group.
TerminalCancelled ==
    /\ pc = "terminal"
    /\ Key(Terminal) \in PlannedPair \cap tokens
    /\ LET Status(k) == IF k = Key(Terminal) THEN "cancelled" ELSE "skipped"
       IN /\ act' = [k \in ActionKey |->
                        IF k \in PlannedPair THEN Status(k) ELSE act[k]]
          /\ reg' = [k \in ActionKey |->
                        IF k \in PlannedPair THEN Status(k) ELSE reg[k]]
    /\ pc' = "afterTerminal"
    /\ UNCHANGED <<plan, proj, slot, halt, codexReady, rec, final, active,
                   dbVars, callVars, faults, flagVars, processVars>>

\* The two tokens are looked at one after the other.
TerminalWanted ==
    /\ pc = "terminal"
    /\ PlannedPair # {}
    /\ Key(Terminal) \notin PlannedPair \cap tokens
    /\ pc' = "codex"
    /\ UNCHANGED <<plan, runnerVars, active, reg, dbVars, callVars, faults,
                   flagVars, processVars>>

CodexCancelled ==
    /\ pc = "codex"
    /\ Key(Codex) \in PlannedPair \cap tokens
    /\ MarkAndSync({Key(Codex)}, "cancelled")
    /\ UNCHANGED <<plan, pc, proj, slot, halt, codexReady, rec, final, active,
                   dbVars, callVars, faults, flagVars, processVars>>

NothingToOpen ==
    /\ pc \in {"terminal", "codex"}
    /\ PlannedPair = {}
    /\ pc' = "afterTerminal"
    /\ UNCHANGED <<plan, runnerVars, active, reg, dbVars, callVars, faults,
                   flagVars, processVars>>

AtWantedPair ==
    /\ pc = "codex"
    /\ PlannedPair # {}
    /\ Key(Codex) \notin PlannedPair \cap tokens

\* Project path, terminal or launch plan not usable: the whole group fails; or
\* only Codex was planned and it is the one that is not usable.
TerminalUnavailable ==
    /\ AtWantedPair
    /\ \E e \in ErrorStatus: MarkAndSync(PlannedPair, e)
    /\ pc' = "afterTerminal"
    /\ UNCHANGED <<plan, proj, slot, halt, codexReady, rec, final, active,
                   dbVars, callVars, faults, flagVars, processVars>>

\* The Codex plan cannot be built: its action is marked, but stays in the group
\* of the terminal that is about to open.
CodexUnavailable ==
    /\ AtWantedPair
    /\ PlannedPair = {Key(Terminal), Key(Codex)}
    /\ \E e \in ErrorStatus: MarkAndSync({Key(Codex)}, e)
    /\ codexReady' = FALSE
    /\ pc' = "terminalStart"
    /\ UNCHANGED <<plan, proj, slot, halt, rec, final, active, dbVars,
                   callVars, faults, flagVars, processVars>>

TerminalUsable ==
    /\ AtWantedPair
    /\ codexReady' = (Key(Codex) \in PlannedPair)
    /\ pc' = "terminalStart"
    /\ UNCHANGED <<plan, proj, slot, halt, act, rec, final, active, reg,
                   dbVars, callVars, faults, flagVars, processVars>>

\* The indices execute_terminal_actions still holds when it opens the terminal:
\* an action marked cancelled or skipped has left, a failed Codex action has not.
TerminalGroup ==
    {k \in {Key(Terminal), Key(Codex)}:
        act[k] \in {"planned"} \cup ErrorStatus}

TerminalStart ==
    /\ pc = "terminalStart"
    /\ MarkAndSync(TerminalGroup, "running")
    /\ Launch(Key(Terminal), TerminalGroup)
    /\ pc' = "terminalWait"
    /\ UNCHANGED <<plan, proj, slot, halt, codexReady, rec, final, active,
                   dbVars, callVars, faults, flagVars>>

\* On success a Codex action without a launch plan is left as it is.
TerminalWait ==
    /\ pc = "terminalWait"
    /\ \E o \in Outcomes(Key(Terminal)):
         LET group == keys[Key(Terminal)]
         IN IF o = "ok"
            THEN MarkAndSync(IF codexReady THEN group
                             ELSE group \ {Key(Codex)}, "completed")
            ELSE MarkAndSync(group, o)
    /\ pc' = "afterTerminal"
    /\ UNCHANGED <<plan, proj, slot, halt, codexReady, rec, final, active,
                   dbVars, callVars, faults, flagVars, processVars>>

EnterTasks ==
    /\ pc = "afterTerminal"
    /\ halt' = IF cancelRequested THEN "cancel" ELSE "none"
    /\ slot' = 3
    /\ pc' = "task"
    /\ UNCHANGED <<plan, proj, codexReady, act, rec, final, active, reg,
                   dbVars, callVars, faults, flagVars, processVars>>

-----------------------------------------------------------------------------
(* The runner: launch tasks *)

TaskKey == Key(slot)

\* Only the actions the plan left planned are visited.
PassTask ==
    /\ pc = "task"
    /\ slot \in TaskSlot
    /\ act[TaskKey] # "planned"
    /\ slot' = slot + 1
    /\ UNCHANGED <<plan, pc, proj, halt, codexReady, act, rec, final, active,
                   reg, dbVars, callVars, faults, flagVars, processVars>>

AtPlannedTask == pc = "task" /\ slot \in TaskSlot /\ act[TaskKey] = "planned"

\* halt_reason after the run flag has been looked at.
HaltSeen == IF halt = "none" /\ cancelRequested THEN "cancel" ELSE halt

\* The action or the whole project is no longer wanted: it is settled unstarted.
SettleUnstarted(st, h) ==
    /\ MarkAndSync({TaskKey}, st)
    /\ halt' = h
    /\ WriteProjectRow(TaskKey, st, "task")
    /\ slot' = slot + 1
    /\ UNCHANGED <<plan, proj, codexReady, rec, final, active, runRow, snap,
                   log, callVars, flagVars, processVars>>

CancelPendingTask ==
    /\ AtPlannedTask
    /\ TaskKey \in tokens
    /\ SettleUnstarted("cancelled", "cancel")

SkipHaltedTask ==
    /\ AtPlannedTask
    /\ TaskKey \notin tokens
    /\ HaltSeen # "none"
    /\ SettleUnstarted("skipped", HaltSeen)

ChooseTask ==
    /\ AtPlannedTask
    /\ TaskKey \notin tokens
    /\ HaltSeen = "none"
    /\ pc' = "taskStart"
    /\ UNCHANGED <<plan, runnerVars, active, reg, dbVars, callVars, faults,
                   flagVars, processVars>>

StartTask ==
    /\ pc = "taskStart"
    /\ MarkAndSync({TaskKey}, "running")
    /\ WriteProjectRow(TaskKey, "running", "taskLaunch")
    /\ UNCHANGED <<plan, proj, slot, halt, codexReady, rec, final, active,
                   runRow, snap, log, callVars, flagVars, processVars>>

\* execute_launch_task: no command can be built, or it is launched.
LaunchTask ==
    /\ pc = "taskLaunch"
    /\ \/ /\ \E e \in ErrorStatus: act' = Marked(act, {TaskKey}, e)
          /\ pc' = "taskSettle"
          /\ UNCHANGED processVars
       \/ /\ Launch(TaskKey, {TaskKey})
          /\ pc' = "taskWait"
          /\ UNCHANGED act
    /\ UNCHANGED <<plan, proj, slot, halt, codexReady, rec, final, active, reg,
                   dbVars, callVars, faults, flagVars>>

TaskWait ==
    /\ pc = "taskWait"
    /\ \E o \in Outcomes(TaskKey):
         act' = Marked(act, {TaskKey}, IF o = "ok" THEN "completed" ELSE o)
    /\ pc' = "taskSettle"
    /\ UNCHANGED <<plan, proj, slot, halt, codexReady, rec, final, active, reg,
                   dbVars, callVars, faults, flagVars, processVars>>

\* Mutant: a task that is blocked at launch does not stop the ones after it.
HaltAfterFailureOnly(st, s) ==
    IF st = "cancelled" THEN "cancel"
    ELSE IF st = "failed" /\ s \notin Continue THEN "failure"
    ELSE halt

\* Whether an outcome stops the tasks after it.
HaltAfter(st, s) ==
    IF st = "cancelled" THEN "cancel"
    ELSE IF st \in ErrorStatus /\ s \notin Continue THEN "failure"
    ELSE halt

SettleTask ==
    /\ pc = "taskSettle"
    /\ LET st == act[TaskKey]
       IN \/ /\ row' = [row EXCEPT ![TaskKey] = st]
             /\ halt' = HaltAfter(st, slot)
             /\ reg' = Marked(reg, {TaskKey}, st)
             /\ slot' = slot + 1
             /\ pc' = "task"
             /\ UNCHANGED faults
          \/ /\ DbFails("failTerminate")
             /\ UNCHANGED <<row, halt, reg, slot>>
    /\ UNCHANGED <<plan, proj, codexReady, act, rec, final, active, runRow,
                   snap, log, callVars, flagVars, processVars>>

LeaveTasks ==
    /\ pc = "task"
    /\ slot \notin TaskSlot
    /\ pc' = "ide"
    /\ UNCHANGED <<plan, runnerVars, active, reg, dbVars, callVars, faults,
                   flagVars, processVars>>

-----------------------------------------------------------------------------
(* The runner: the IDE, then the end of the project *)

\* skip_pending_actions; the registry learns of it when the project is recorded.
SkipIde ==
    /\ pc = "ide"
    /\ halt # "none"
    /\ act' = Marked(act, PlannedOf(proj), "skipped")
    /\ pc' = "finishProject"
    /\ UNCHANGED <<plan, proj, slot, halt, codexReady, rec, final, active, reg,
                   dbVars, callVars, faults, flagVars, processVars>>

\* Nothing planned; cancelled; not usable (an unknown IDE type is not synced to
\* the registry); or about to be launched.
CheckIde ==
    /\ pc = "ide"
    /\ halt = "none"
    /\ LET k == Key(Ide)
       IN \/ /\ act[k] # "planned"
             /\ pc' = "finishProject"
             /\ UNCHANGED <<act, reg>>
          \/ /\ act[k] = "planned" /\ k \in tokens
             /\ MarkAndSync({k}, "cancelled")
             /\ pc' = "finishProject"
          \/ /\ act[k] = "planned" /\ k \notin tokens
             /\ \E e \in ErrorStatus: act' = Marked(act, {k}, e)
             /\ reg' \in {Marked(reg, {k}, act'[k]), reg}
             /\ pc' = "finishProject"
          \/ /\ act[k] = "planned" /\ k \notin tokens
             /\ pc' = "ideStart"
             /\ UNCHANGED <<act, reg>>
    /\ UNCHANGED <<plan, proj, slot, halt, codexReady, rec, final, active,
                   dbVars, callVars, faults, flagVars, processVars>>

IdeStart ==
    /\ pc = "ideStart"
    /\ MarkAndSync({Key(Ide)}, "running")
    /\ Launch(Key(Ide), {Key(Ide)})
    /\ pc' = "ideWait"
    /\ UNCHANGED <<plan, proj, slot, halt, codexReady, rec, final, active,
                   dbVars, callVars, faults, flagVars>>

IdeWait ==
    /\ pc = "ideWait"
    /\ \E o \in Outcomes(Key(Ide)):
         MarkAndSync({Key(Ide)}, IF o = "ok" THEN "completed" ELSE o)
    /\ pc' = "finishProject"
    /\ UNCHANGED <<plan, proj, slot, halt, codexReady, rec, final, active,
                   dbVars, callVars, faults, flagVars, processVars>>

\* Mutant: a cancelled run records the request instead of the outcome.
RequestedProjectStatus ==
    IF cancelRequested THEN "cancel_requested" ELSE ProjectStatus(act, proj)

\* A cancelled run cancels the project unless it failed or was blocked.
FinalProjectStatus ==
    LET st == ProjectStatus(act, proj)
    IN IF cancelRequested /\ st \notin ErrorStatus THEN "cancelled" ELSE st

FinishProject ==
    /\ pc = "finishProject"
    /\ \/ /\ row' = [row EXCEPT ![Key(0)] = FinalProjectStatus]
          /\ rec' = [rec EXCEPT ![proj] = FinalProjectStatus]
          /\ SyncProject(act)
          /\ proj' = proj + 1
          /\ pc' = "project"
          /\ UNCHANGED faults
       \/ /\ DbFails("failTerminate")
          /\ UNCHANGED <<row, rec, reg, proj>>
    /\ UNCHANGED <<plan, slot, halt, codexReady, act, final, active, runRow,
                   snap, log, callVars, flagVars, processVars>>

-----------------------------------------------------------------------------
(* The runner: end of the run *)

DecideStatus ==
    /\ pc = "project"
    /\ proj > NumProjects
    /\ final' = IF cancelRequested THEN "cancelled" ELSE RunSummary(rec)
    /\ pc' = "finalize"
    /\ UNCHANGED <<plan, proj, slot, halt, codexReady, act, rec, active, reg,
                   dbVars, callVars, faults, flagVars, processVars>>

\* finalize_restore_run: the run row and the snapshot in one transaction.
Finalized(st) == runRow' = st /\ snap' = SnapshotStatus(st)

FinalizeRun ==
    /\ pc = "finalize"
    /\ \/ Finalized(final) /\ pc' = "summary" /\ UNCHANGED faults
       \/ DbFails("failDrop") /\ UNCHANGED <<runRow, snap>>
    /\ UNCHANGED <<plan, runnerVars, active, reg, row, log, callVars, flagVars,
                   processVars>>

\* The row is read back into the detail that goes to the log file; a failure to
\* write the file is only logged.
WriteLog ==
    /\ pc = "summary"
    /\ \/ /\ log' \in {runRow, log}
          /\ pc' = IF final = "cancelled" THEN "terminate" ELSE "clear"
          /\ UNCHANGED faults
       \/ DbFails("failDrop") /\ UNCHANGED log
    /\ UNCHANGED <<plan, runnerVars, active, reg, row, runRow, snap, callVars,
                   flagVars, processVars>>

TerminateRun(from, to) ==
    /\ pc = from
    /\ Terminate(tracked)
    /\ pc' = to
    /\ UNCHANGED <<plan, runnerVars, active, reg, dbVars, callVars, faults,
                   flagVars, thread, result, keys, tracked>>

ClearRun(from, to) ==
    /\ pc = from
    /\ tracked' = {}
    /\ pc' = to
    /\ UNCHANGED <<plan, runnerVars, active, reg, dbVars, callVars, faults,
                   flagVars, thread, result, keys, process>>

TerminateCancelledRun == TerminateRun("terminate", "clear")
ClearFinishedRun == ClearRun("clear", "drop")

\* The failure path of execute_project: kill, forget, record, give up.
TerminateFailedRun == TerminateRun("failTerminate", "failClear")
ClearFailedRun == ClearRun("failClear", "failFinalize")

\* The result of this write is ignored.
FinalizeFailedRun ==
    /\ pc = "failFinalize"
    /\ pc' = "failDrop"
    /\ \/ Finalized("failed") /\ UNCHANGED faults
       \/ DbFails("failDrop") /\ UNCHANGED <<runRow, snap>>
    /\ UNCHANGED <<plan, runnerVars, active, reg, row, log, callVars, flagVars,
                   processVars>>

\* ActiveRunGuard::drop, on the way out with Ok or with Err.
DropGuard ==
    /\ pc \in {"drop", "failDrop"}
    /\ active' = FALSE
    /\ pc' = IF pc = "drop" THEN "ended" ELSE "aborted"
    /\ UNCHANGED <<plan, runnerVars, reg, dbVars, callVars, faults, flagVars,
                   processVars>>

RunnerStep ==
    \/ InsertPlan \/ Activate \/ RegisterActions
    \/ SkipCancelledProject \/ SkipRow \/ SkipProjectRow \/ RecordSkipped
    \/ RecordUnplanned \/ StartProject
    \/ TerminalCancelled \/ TerminalWanted \/ CodexCancelled \/ NothingToOpen
    \/ TerminalUnavailable \/ CodexUnavailable \/ TerminalUsable
    \/ TerminalStart \/ TerminalWait \/ EnterTasks
    \/ PassTask \/ CancelPendingTask \/ SkipHaltedTask \/ ChooseTask
    \/ StartTask \/ LaunchTask \/ TaskWait \/ SettleTask \/ LeaveTasks
    \/ SkipIde \/ CheckIde \/ IdeStart \/ IdeWait \/ FinishProject
    \/ DecideStatus \/ FinalizeRun \/ WriteLog
    \/ TerminateCancelledRun \/ ClearFinishedRun
    \/ TerminateFailedRun \/ ClearFailedRun \/ FinalizeFailedRun
    \/ DropGuard

-----------------------------------------------------------------------------
(* cancel_restore_run *)

runnerState == <<plan, pc, runnerVars, active>>
Up == pc # "crashed"

\* An active run: the flag goes up.  Otherwise the stored status decides: a
\* finished run refuses; any other answers that the cancel was accepted.
CancelRun(c) ==
    /\ Up
    /\ runCall[c] = "idle"
    /\ runRow # "absent"
    /\ cancelRequested' = (cancelRequested \/ active)
    /\ runCall' = [runCall EXCEPT ![c] =
                      IF active THEN "killing"
                      ELSE IF runRow \in FinishedRun THEN "refused"
                      ELSE "acked"]
    /\ UNCHANGED <<runnerState, reg, dbVars, actionCall, actionKey, doomed,
                   faults, tokens, processVars>>

CancelRunTerminate(c) ==
    /\ runCall[c] = "killing"
    /\ Terminate(tracked)
    /\ runCall' = [runCall EXCEPT ![c] = "marking"]
    /\ UNCHANGED <<runnerState, reg, dbVars, actionCall, actionKey, doomed,
                   faults, flagVars, thread, result, keys, tracked>>

\* update_restore_run_status does not look at the status it replaces.
CancelRunMark(c) ==
    /\ runCall[c] = "marking"
    /\ \/ /\ runRow' = "cancel_requested"
          /\ runCall' = [runCall EXCEPT ![c] = "acked"]
          /\ UNCHANGED faults
       \/ /\ faults < MaxFaults
          /\ faults' = faults + 1
          /\ runCall' = [runCall EXCEPT ![c] = "error"]
          /\ UNCHANGED runRow
    /\ UNCHANGED <<runnerState, reg, row, snap, log, actionCall, actionKey,
                   doomed, flagVars, processVars>>

(* cancel_restore_action *)

CancelAccepted(k) == active /\ reg[k] \notin FinishedAction \cup {"absent"}

CancelAction(c, k) ==
    /\ Up
    /\ actionCall[c] = "idle"
    /\ runRow # "absent"
    /\ actionKey' = [actionKey EXCEPT ![c] = k]
    /\ \/ /\ CancelAccepted(k)
          /\ tokens' = tokens \cup {k}
          /\ reg' = [reg EXCEPT ![k] = "cancel_requested"]
          /\ doomed' = IF reg[k] = "planned" THEN doomed \cup {k} ELSE doomed
          /\ actionCall' = [actionCall EXCEPT ![c] = "killing"]
       \/ /\ ~CancelAccepted(k)
          /\ actionCall' = [actionCall EXCEPT ![c] = "refused"]
          /\ UNCHANGED <<tokens, reg, doomed>>
    /\ UNCHANGED <<runnerState, dbVars, runCall, faults, cancelRequested,
                   processVars>>

CancelActionTerminate(c) ==
    /\ actionCall[c] = "killing"
    /\ Terminate(TrackedFor(actionKey[c]))
    /\ actionCall' = [actionCall EXCEPT ![c] = "acked"]
    /\ UNCHANGED <<runnerState, reg, dbVars, runCall, actionKey, doomed,
                   faults, flagVars, thread, result, keys, tracked>>

CallStep ==
    \/ \E c \in RunCaller:
         CancelRun(c) \/ CancelRunTerminate(c) \/ CancelRunMark(c)
    \/ \E c \in ActionCaller:
         \/ \E k \in ActionKey: CancelAction(c, k)
         \/ CancelActionTerminate(c)

-----------------------------------------------------------------------------
(* The application stops or crashes; children go on; the next start recovers. *)

Crash ==
    /\ Crashes
    /\ pc \notin {"idle", "crashed", "recovered"}
    /\ pc' = "crashed"
    /\ proj' = 1
    /\ slot' = 3
    /\ halt' = "none"
    /\ codexReady' = FALSE
    /\ act' = plan
    /\ rec' = [p \in Project |-> "absent"]
    /\ final' = "absent"
    /\ active' = FALSE
    /\ reg' = [k \in ActionKey |-> "absent"]
    /\ doomed' = {}
    /\ runCall' = [c \in RunCaller |-> "error"]
    /\ actionCall' = [c \in ActionCaller |-> "error"]
    /\ cancelRequested' = FALSE
    /\ tokens' = {}
    /\ thread' = [l \in LaunchId |-> "idle"]
    /\ result' = [l \in LaunchId |-> "none"]
    /\ keys' = [l \in LaunchId |-> {}]
    /\ tracked' = {}
    /\ UNCHANGED <<plan, dbVars, actionKey, faults, process>>

\* Mutant: only the rows that never started are reclaimed.
RecoveredPlannedRow(st) == IF st = "planned" THEN "skipped" ELSE st

\* recover_interrupted_restore_runs, before any command is served.
RecoveredRow(st) ==
    IF st = "running" THEN "cancelled" ELSE IF st = "planned" THEN "skipped" ELSE st

Interrupted == runRow \in {"running", "cancel_requested"}

Recover ==
    /\ pc = "crashed"
    /\ pc' = "recovered"
    /\ IF Interrupted
       THEN /\ row' = [r \in RowKey |-> RecoveredRow(row[r])]
            /\ Finalized("cancelled")
       ELSE UNCHANGED <<row, runRow, snap>>
    /\ UNCHANGED <<plan, runnerVars, active, reg, log, callVars, faults,
                   flagVars, processVars>>

-----------------------------------------------------------------------------

runVars == <<plan, pc, runnerVars, active, reg, dbVars, callVars, faults>>

ChildStep ==
    /\ \E l \in LaunchId: ThreadStep(l) \/ ProcessExits(l)
    /\ UNCHANGED <<runVars, flagVars>>

Next == RunnerStep \/ CallStep \/ ChildStep \/ Crash \/ Recover

Spec == Init /\ [][Next]_vars

(***************************************************************************)
(* Fairness: the runner is an async task on the Tokio runtime and every    *)
(* await in it has a timeout (write timeouts, the launch timeout plus 250  *)
(* ms), a blocking thread keeps its loop going, and the cancel commands    *)
(* are tasks of the same runtime.  Users and external programs owe         *)
(* nothing.                                                                *)
(***************************************************************************)
Fairness ==
    /\ WF_vars(RunnerStep)
    /\ \A l \in LaunchId: WF_vars(ThreadStep(l) /\ UNCHANGED <<runVars, flagVars>>)
    /\ \A c \in RunCaller: WF_vars(CancelRunTerminate(c) \/ CancelRunMark(c))
    /\ \A c \in ActionCaller: WF_vars(CancelActionTerminate(c))

FairSpec == Spec /\ Fairness

-----------------------------------------------------------------------------
(* Safety *)

\* An action whose cancel was accepted while it was still planned never runs: no
\* program is spawned for it and it is never reported completed, however the
\* cancel, the runner and the blocking thread interleave (request_action_cancel
\* against the token checks of restore_service.rs and launch_blocking).
PendingCancelNeverRuns ==
    \A k \in doomed:
        /\ act[k] # "completed"
        /\ \A l \in LaunchId: k \in keys[l] => process[l] = "none"

\* After a launch task failed without continue_on_failure, was blocked at launch
\* or was cancelled, no later task of its project has run
\* (execute_launch_task_actions).
Halting(k) ==
    /\ plan[k] = "planned"
    /\ \/ act[k] = "cancelled"
       \/ act[k] \in ErrorStatus /\ k[2] \notin Continue
HaltedTasksNeverRun ==
    \A p \in Project: \A i, j \in TaskSlot:
        i < j /\ Halting(<<p, i>>) /\ row[<<p, i>>] = act[<<p, i>>]
            => keys[<<p, j>>] = {}

\* A run that reached a final status other than "failed" has no task row left
\* "running", whichever of the runner, a late cancel or the recovery wrote the
\* status (finalize_restore_run, recover_interrupted_restore_runs).
FinalizedRunHasNoRunningRow ==
    runRow \in FinishedRun \ {"failed"} => \A r \in RowKey: row[r] # "running"

\* What the run reports is what it stored: the record of a project agrees with
\* the project row, and its planned launch tasks agree with their rows, whether
\* the project was executed, blocked by its plan or dropped after a cancel
\* (execute_project, build_cancelled_pending_project).
RowsMatchRecords ==
    \A p \in Project: rec[p] # "absent" =>
        /\ row[<<p, 0>>] = rec[p]
        /\ \A s \in TaskSlot:
              plan[<<p, s>>] = "planned" => row[<<p, s>>] = act[<<p, s>>]

\* A program that outlived its launch (the launch timeout is a success) can
\* still be cancelled: until the run drops its registry entries, an action
\* cancel leaves no program of that action alive that nobody watches
\* (retain_after_timeout, terminate_action_processes).
Dropped == pc \in {"drop", "failFinalize", "failDrop", "ended", "aborted"}
CancelReachesRetained ==
    [][\A c \in ActionCaller:
         CancelActionTerminate(c) /\ ~Dropped =>
            \A l \in LaunchId:
                actionKey[c] \in keys[l] /\ thread[l] = "done"
                    => process'[l] # "alive"]_vars

-----------------------------------------------------------------------------
(* Liveness *)

Ended == pc \in {"ended", "aborted", "crashed", "recovered"}

\* A started run comes to an end even when a launched program, or the thread
\* that watches it, never returns (the outer timeout of run_launch_command).
RunEnds == (pc = "inserted") ~> Ended

\* Once a run has ended as cancelled no program of it survives, not even one
\* whose thread was still about to spawn it when the run ended, unless the
\* application stops before that thread notices.
Quiet == \A l \in LaunchId:
            process[l] # "alive" /\ thread[l] \in {"idle", "done", "reaping"}
CancelledRunEnded == pc = "ended" /\ final = "cancelled"
CancelledRunLeavesNoProgram ==
    CancelledRunEnded ~> Quiet \/ pc \in {"crashed", "recovered"}

=============================================================================
