--------------------------- MODULE RestoreRunProofs ---------------------------
(***************************************************************************)
(* Proofs about RestoreRun, for every number of projects and launch tasks, *)
(* every set of plans and callers, with and without crashes and failures:  *)
(*                                                                         *)
(*   TypeCorrect            Spec => []TypeOK                               *)
(*   PendingCancelCorrect   Spec => []PendingCancelNeverRuns               *)
(*   RowsCorrect            Spec => []RowsMatchRecords                     *)
(*   FinalizedCorrect       Spec => []FinalizedRunHasNoRunningRow          *)
(*   HaltCorrect            Spec => []HaltedTasksNeverRun                  *)
(*   CancelReaches          Spec => CancelReachesRetained                  *)
(*                                                                         *)
(* PendingCancelNeverRuns is not inductive.  What makes it so is what the  *)
(* code relies on without saying: an action in the registry as planned has *)
(* not been launched (the runner syncs "running" before it launches), a    *)
(* launch is made once, and a thread looks at the tokens of all its        *)
(* actions before it spawns.                                               *)
(*                                                                         *)
(* What a run stores and reports is shown by following the runner through  *)
(* the projects.  Those behind it are settled, those ahead of it are as    *)
(* the plan left them, and Present says of the one it is at how far it has *)
(* come.                                                                   *)
(***************************************************************************)
EXTENDS RestoreRun, TLAPS

-----------------------------------------------------------------------------
(* Where the runner is *)

TaskPc == {"taskStart", "taskLaunch", "taskWait", "taskSettle"}
LoopPc == ProjectPc \cup {"skipRows", "skipProject"}

Position ==
    /\ pc \in LoopPc => proj \in Project
    /\ pc \in TaskPc => slot \in TaskSlot

\* A thread that is done has a result.
DoneHasResult == \A l \in LaunchId: thread[l] = "done" => result[l] # "none"

TypeInv == TypeOK /\ Position /\ DoneHasResult

-----------------------------------------------------------------------------
(* What makes PendingCancelNeverRuns inductive *)

\* The actions a launch may serve.
Served(l) == IF l[2] = Terminal THEN {<<l[1], Terminal>>, <<l[1], Codex>>} ELSE {l}

ServesItsOwn == \A l \in LaunchId: keys[l] \subseteq Served(l)

\* A launch without actions has not been made, as far as this start of the
\* application knows.
UnmadeIsFresh ==
    pc \notin {"crashed", "recovered"} =>
        \A l \in LaunchId: keys[l] = {} =>
            thread[l] = "idle" /\ result[l] = "none" /\ process[l] = "none"

\* Once a launch is made, none of the actions it may serve is planned any more.
MadeIsNotPlanned ==
    \A l \in LaunchId: keys[l] # {} => \A k \in Served(l): act[k] # "planned"

\* An action the registry still has as planned is neither launched nor done.
PlannedIsUntouched ==
    \A k \in ActionKey: reg[k] = "planned" =>
        act[k] # "completed" /\ \A l \in LaunchId: k \notin keys[l]

\* What the runner has established on its way to a launch.
AboutToLaunch ==
    /\ pc \in {"idle", "inserted", "active"} =>
          act = plan /\ \A l \in LaunchId: keys[l] = {}
    /\ pc = "terminalStart" => keys[Key(Terminal)] = {} /\ TerminalGroup # {}
    /\ pc = "taskStart" => act[TaskKey] = "planned"
    /\ pc = "taskLaunch" =>
          /\ keys[TaskKey] = {}
          /\ act[TaskKey] # "planned" /\ reg[TaskKey] # "planned"
    /\ pc = "taskWait" => keys[TaskKey] = {TaskKey} /\ reg[TaskKey] # "planned"
    /\ pc = "ideStart" => act[Key(Ide)] = "planned"
    /\ pc = "ideWait" => keys[Key(Ide)] = {Key(Ide)}

\* An action cancelled in time: its token is up, and a thread that has it stops
\* before it spawns.
DoomedIsStopped ==
    \A k \in doomed:
        /\ k \in tokens
        /\ act[k] # "completed"
        /\ \A l \in LaunchId: k \in keys[l] =>
              /\ process[l] = "none"
              /\ result[l] # "ok"
              /\ thread[l] \in {"idle", "queued", "done"}

IInv ==
    /\ TypeInv
    /\ ServesItsOwn
    /\ UnmadeIsFresh
    /\ MadeIsNotPlanned
    /\ PlannedIsUntouched
    /\ AboutToLaunch
    /\ DoomedIsStopped

-----------------------------------------------------------------------------
(* The keys the runner uses are keys *)

\* The position of every action is a slot; all but the Codex one name a launch.
LEMMA SlotKinds ==
    /\ Terminal \in Slot /\ Codex \in Slot /\ Ide \in Slot
    /\ TaskSlot \subseteq Slot
    /\ Terminal # Codex /\ Ide # Codex /\ Codex \notin TaskSlot
    /\ Terminal \notin TaskSlot /\ Ide \notin TaskSlot /\ Ide # Terminal
BY PlanAssumption DEF Terminal, Codex, Ide, Slot, TaskSlot

\* The keys of the project being executed.
LEMMA CurrentKeys ==
    ASSUME proj \in Project
    PROVE  /\ \A s \in Slot: Key(s) \in ActionKey
           /\ \A s \in Slot \ {Codex}: Key(s) \in LaunchId
           /\ Key(Terminal) \in ActionKey /\ Key(Terminal) \in LaunchId
           /\ Key(Codex) \in ActionKey
           /\ Key(Ide) \in ActionKey /\ Key(Ide) \in LaunchId
           /\ Key(0) \in RowKey
           /\ slot \in TaskSlot =>
                 /\ TaskKey \in ActionKey
                 /\ TaskKey \in LaunchId
                 /\ TaskKey \in RowKey
BY SlotKinds DEF Key, TaskKey, ActionKey, LaunchId, RowKey

LEMMA NextSlot ==
    ASSUME slot \in TaskSlot
    PROVE  slot + 1 \in 3..(NumTasks + 3)
BY PlanAssumption DEF TaskSlot

LEMMA NextProject ==
    ASSUME proj \in Project
    PROVE  proj + 1 \in 1..(NumProjects + 1)
BY PlanAssumption DEF Project

LEMMA ProjectLeft ==
    ASSUME proj \in 1..(NumProjects + 1), proj <= NumProjects
    PROVE  proj \in Project
BY PlanAssumption DEF Project

\* The summaries are statuses of the rows they are written to.
LEMMA SummaryTypes ==
    /\ \A st, p: ProjectStatus(st, p) \in RowStatus
    /\ \A pl, p: PlannedProjectStatus(pl, p) \in RowStatus
    /\ RunSummary(rec) \in RunStatus
    /\ \A st \in RunStatus: SnapshotStatus(st) \in RunStatus
    /\ PlanStatus \subseteq RowStatus
BY DEF ProjectStatus, PlannedProjectStatus, RunSummary, SnapshotStatus,
       RowStatus, RunStatus, ActionStatus, PlanStatus

\* A failed database operation stays within the bound.
LEMMA FaultCounted ==
    ASSUME faults \in 0..MaxFaults, faults < MaxFaults
    PROVE  faults + 1 \in 0..MaxFaults
BY RunAssumption

LEMMA FirstSlot == 3 \in 3..(NumTasks + 3)
BY PlanAssumption

\* Killing processes changes nothing but their states.
LEMMA TerminateType ==
    ASSUME NEW S \in SUBSET LaunchId, Terminate(S),
           process \in [LaunchId -> ProcessState]
    PROVE  process' \in [LaunchId -> ProcessState]
BY DEF Terminate, ProcessState

LEMMA TerminalServes == TerminalGroup \subseteq Served(Key(Terminal))
BY DEF TerminalGroup, Served, Key

-----------------------------------------------------------------------------
(* Types *)

USE DEF vars, runnerVars, dbVars, callVars, flagVars, processVars, runVars,
        runnerState

LEMMA TypeInit == Init => TypeInv
<1> SUFFICES ASSUME Init PROVE TypeInv
  OBVIOUS
<1> USE DEF Init, ChildInit
<1>1. ChildTypeOK
  BY DEF ChildTypeOK, ThreadState, ResultState, ProcessState
<1>2. plan \in [ActionKey -> PlanStatus]
  BY RunAssumption
<1>3. proj \in 1..(NumProjects + 1) /\ slot \in 3..(NumTasks + 3)
  BY PlanAssumption
<1>4. <<1, Terminal>> \in ActionKey
  BY PlanAssumption, SlotKinds DEF ActionKey, Project
<1>5. faults \in 0..MaxFaults
  BY RunAssumption
<1>6. TypeOK
  BY <1>1, <1>2, <1>3, <1>4, <1>5
     DEF TypeOK, Pc, ActionStatus, PlanStatus, RowStatus, RunStatus, CallState
<1>7. Position /\ DoneHasResult
  BY DEF Position, DoneHasResult, LoopPc, ProjectPc, TaskPc
<1> QED
  BY <1>6, <1>7 DEF TypeInv

LEMMA RunnerType == TypeInv /\ RunnerStep => TypeInv'
<1> SUFFICES ASSUME TypeInv, RunnerStep PROVE TypeInv'
  OBVIOUS
<1> USE DEF TypeInv, TypeOK, ChildTypeOK, Position, DoneHasResult,
            Pc, LoopPc, ProjectPc, TaskPc, ActionStatus, PlanStatus, RowStatus,
            RunStatus, ErrorStatus, ThreadState, ResultState
<1>1. CASE InsertPlan
  <2>1. row' \in [RowKey -> RowStatus]
    <3>1. \A r \in RowKey: r[2] # 0 => plan[r] \in PlanStatus
      BY SlotKinds DEF RowKey, ActionKey
    <3> QED
      BY <1>1, <3>1, SummaryTypes DEF InsertPlan
  <2>2. runRow' = "running" /\ pc' = "inserted"
    BY <1>1 DEF InsertPlan
  <2> QED
    BY <1>1, <2>1, <2>2 DEF InsertPlan
<1>2. CASE Activate
  BY <1>2
     DEF Activate
<1>3. CASE RegisterActions
  BY <1>3, FaultCounted, SummaryTypes
     DEF RegisterActions, DbFails
<1>4. CASE SkipCancelledProject
  BY <1>4, FirstSlot, ProjectLeft
     DEF SkipCancelledProject
<1>5. CASE SkipRow
  BY <1>5, CurrentKeys, NextSlot, FaultCounted
     DEF SkipRow, WriteRow, DbFails
<1>6. CASE SkipProjectRow
  BY <1>6, CurrentKeys, FaultCounted
     DEF SkipProjectRow, WriteRow, DbFails
<1>7. CASE RecordSkipped
  BY <1>7, NextProject
     DEF RecordSkipped, SyncProject, Marked
<1>8. CASE RecordUnplanned
  BY <1>8, ProjectLeft, NextProject, SummaryTypes
     DEF RecordUnplanned, SyncProject
<1>9. CASE StartProject
  BY <1>9, ProjectLeft, CurrentKeys, FaultCounted
     DEF StartProject, WriteRow, WriteProjectRow, DbFails
<1>10. CASE TerminalCancelled
  BY <1>10
     DEF TerminalCancelled
<1>11. CASE CodexCancelled
  BY <1>11
     DEF CodexCancelled, MarkAndSync, Marked
<1>12. CASE NothingToOpen
  BY <1>12
     DEF NothingToOpen
<1>13. CASE TerminalUnavailable
  BY <1>13
     DEF TerminalUnavailable, AtWantedPair, MarkAndSync, Marked
<1>14. CASE CodexUnavailable
  <2>1. PICK e \in ErrorStatus: MarkAndSync({Key(Codex)}, e)
    BY <1>14 DEF CodexUnavailable
  <2>2. /\ act' \in [ActionKey -> ActionStatus \ {"cancel_requested"}]
        /\ reg' \in [ActionKey -> ActionStatus \cup {"absent"}]
    BY <2>1 DEF MarkAndSync, Marked
  <2>3. pc' = "terminalStart" /\ codexReady' \in BOOLEAN /\ pc = "codex"
    BY <1>14 DEF CodexUnavailable, AtWantedPair
  <2>4. UNCHANGED <<plan, proj, slot, halt, rec, final, active, dbVars,
                    callVars, faults, flagVars, processVars>>
    BY <1>14 DEF CodexUnavailable
  <2> QED
    BY <2>2, <2>3, <2>4
<1>15. CASE TerminalUsable
  BY <1>15
     DEF TerminalUsable, AtWantedPair
<1>16. CASE TerminalStart
  <2>1. TerminalGroup \subseteq ActionKey
    BY <1>16, CurrentKeys DEF TerminalStart, TerminalGroup
  <2>2. /\ act' \in [ActionKey -> ActionStatus \ {"cancel_requested"}]
        /\ reg' \in [ActionKey -> ActionStatus \cup {"absent"}]
    BY <1>16 DEF TerminalStart, MarkAndSync, Marked
  <2>3. /\ thread' \in [LaunchId -> ThreadState]
        /\ keys' \in [LaunchId -> SUBSET ActionKey]
        /\ UNCHANGED <<result, process, tracked>>
    BY <1>16, <2>1 DEF TerminalStart, Launch
  <2>4. \A l \in LaunchId: thread'[l] = "done" => thread[l] = "done"
    BY <1>16 DEF TerminalStart, Launch
  <2>5. pc' = "terminalWait" /\ pc = "terminalStart"
    BY <1>16 DEF TerminalStart
  <2> QED
    BY <1>16, <2>2, <2>3, <2>4, <2>5 DEF TerminalStart
<1>17. CASE TerminalWait
  BY <1>17, CurrentKeys, SMTT(30)
     DEF TerminalWait, MarkAndSync, Marked, Outcomes
<1>18. CASE EnterTasks
  BY <1>18, FirstSlot
     DEF EnterTasks
<1>19. CASE PassTask
  BY <1>19, NextSlot
     DEF PassTask
<1>20. CASE CancelPendingTask
  BY <1>20, CurrentKeys, NextSlot, FaultCounted
     DEF CancelPendingTask, AtPlannedTask, SettleUnstarted, MarkAndSync, Marked,
         WriteRow, WriteProjectRow, DbFails
<1>21. CASE SkipHaltedTask
  BY <1>21, CurrentKeys, NextSlot, FaultCounted
     DEF SkipHaltedTask, AtPlannedTask, HaltSeen, SettleUnstarted, MarkAndSync,
         Marked, WriteRow, WriteProjectRow, DbFails
<1>22. CASE ChooseTask
  BY <1>22
     DEF ChooseTask, AtPlannedTask
<1>23. CASE StartTask
  BY <1>23, CurrentKeys, FaultCounted
     DEF StartTask, MarkAndSync, Marked, WriteRow, WriteProjectRow, DbFails
<1>24. CASE LaunchTask
  BY <1>24, CurrentKeys
     DEF LaunchTask, Marked, Launch
<1>25. CASE TaskWait
  BY <1>25, CurrentKeys
     DEF TaskWait, Marked, Outcomes
<1>26. CASE SettleTask
  BY <1>26, CurrentKeys, NextSlot, FaultCounted
     DEF SettleTask, Marked, HaltAfter, DbFails
<1>27. CASE LeaveTasks
  BY <1>27
     DEF LeaveTasks
<1>28. CASE SkipIde
  BY <1>28
     DEF SkipIde, Marked
<1>29. CASE CheckIde
  BY <1>29
     DEF CheckIde, MarkAndSync, Marked
<1>30. CASE IdeStart
  BY <1>30, CurrentKeys
     DEF IdeStart, MarkAndSync, Marked, Launch
<1>31. CASE IdeWait
  BY <1>31, CurrentKeys
     DEF IdeWait, MarkAndSync, Marked, Outcomes
<1>32. CASE FinishProject
  BY <1>32, CurrentKeys, NextProject, FaultCounted, SummaryTypes
     DEF FinishProject, FinalProjectStatus, SyncProject, DbFails
<1>33. CASE DecideStatus
  BY <1>33, SummaryTypes
     DEF DecideStatus
<1>34. CASE FinalizeRun
  BY <1>34, FaultCounted, SummaryTypes
     DEF FinalizeRun, Finalized, DbFails
<1>35. CASE WriteLog
  BY <1>35, FaultCounted
     DEF WriteLog, DbFails
<1>36. CASE TerminateCancelledRun
  BY <1>36, TerminateType
     DEF TerminateCancelledRun, TerminateRun
<1>37. CASE ClearFinishedRun
  BY <1>37
     DEF ClearFinishedRun, ClearRun
<1>38. CASE TerminateFailedRun
  BY <1>38, TerminateType
     DEF TerminateFailedRun, TerminateRun
<1>39. CASE ClearFailedRun
  BY <1>39
     DEF ClearFailedRun, ClearRun
<1>40. CASE FinalizeFailedRun
  BY <1>40, FaultCounted, SummaryTypes
     DEF FinalizeFailedRun, Finalized, DbFails
<1>41. CASE DropGuard
  <2>1. pc' \in {"ended", "aborted"} /\ active' \in BOOLEAN
    BY <1>41 DEF DropGuard
  <2>2. UNCHANGED <<plan, runnerVars, reg, dbVars, callVars, faults, flagVars,
                    processVars>>
    BY <1>41 DEF DropGuard
  <2> QED
    BY <2>1, <2>2
<1>42. CASE TerminalWanted
  BY <1>42
     DEF TerminalWanted
<1> QED
  BY <1>1, <1>2, <1>3, <1>4, <1>5, <1>6, <1>7, <1>8, <1>9, <1>10, <1>11,
     <1>12, <1>13, <1>14, <1>15, <1>16, <1>17, <1>18, <1>19, <1>20, <1>21,
     <1>22, <1>23, <1>24, <1>25, <1>26, <1>27, <1>28, <1>29, <1>30, <1>31,
     <1>32, <1>33, <1>34, <1>35, <1>36, <1>37, <1>38, <1>39, <1>40, <1>41,
     <1>42
     DEF RunnerStep

LEMMA CallType == TypeInv /\ CallStep => TypeInv'
<1> SUFFICES ASSUME TypeInv, CallStep PROVE TypeInv'
  OBVIOUS
<1> USE DEF TypeInv, TypeOK, ChildTypeOK, Position, DoneHasResult, CallState,
            RunStatus, ActionStatus, PlanStatus
<1>1. ASSUME NEW c \in RunCaller, CancelRun(c) PROVE TypeInv'
  <2>1. cancelRequested' \in BOOLEAN /\ runCall' \in [RunCaller -> CallState]
    BY <1>1 DEF CancelRun
  <2>2. UNCHANGED <<runnerState, reg, dbVars, actionCall, actionKey, doomed,
                    faults, tokens, processVars>>
    BY <1>1 DEF CancelRun
  <2> QED
    BY <2>1, <2>2
<1>2. ASSUME NEW c \in RunCaller, CancelRunTerminate(c) PROVE TypeInv'
  BY <1>2, TerminateType DEF CancelRunTerminate
<1>3. ASSUME NEW c \in RunCaller, CancelRunMark(c) PROVE TypeInv'
  BY <1>3, FaultCounted DEF CancelRunMark
<1>4. ASSUME NEW c \in ActionCaller, NEW k \in ActionKey, CancelAction(c, k)
      PROVE  TypeInv'
  BY <1>4 DEF CancelAction
<1>5. ASSUME NEW c \in ActionCaller, CancelActionTerminate(c) PROVE TypeInv'
  <2>1. TrackedFor(actionKey[c]) \in SUBSET LaunchId
    BY DEF TrackedFor
  <2> QED
    BY <1>5, <2>1, TerminateType DEF CancelActionTerminate
<1> QED
  BY <1>1, <1>2, <1>3, <1>4, <1>5 DEF CallStep

LEMMA ChildType == TypeInv /\ ChildStep => TypeInv'
<1> SUFFICES ASSUME TypeInv, ChildStep PROVE TypeInv'
  OBVIOUS
<1> USE DEF TypeInv, TypeOK, ChildTypeOK, Position, DoneHasResult, ThreadState,
            ResultState
<1>1. UNCHANGED <<runVars, flagVars>>
  BY DEF ChildStep
<1>2. PICK l \in LaunchId: ThreadStep(l) \/ ProcessExits(l)
  BY DEF ChildStep
<1>3. CASE CheckBeforeSpawn(l)
  BY <1>1, <1>3 DEF CheckBeforeSpawn, Return
<1>4. CASE Spawn(l)
  BY <1>1, <1>4 DEF Spawn, Return, ProcessState
<1>5. CASE Register(l)
  BY <1>1, <1>5 DEF Register
<1>6. CASE PollTokens(l)
  <2>1. process' \in [LaunchId -> ProcessState]
    BY <1>6, TerminateType DEF PollTokens
  <2> QED
    BY <1>1, <1>6, <2>1 DEF PollTokens
<1>7. CASE Reap(l)
  BY <1>1, <1>7 DEF Reap, Return
<1>8. CASE PollExited(l)
  BY <1>1, <1>8 DEF PollExited, Return
<1>9. CASE PollFailed(l)
  BY <1>1, <1>9 DEF PollFailed, Return, ProcessState
<1>10. CASE PollRetained(l)
  BY <1>1, <1>10 DEF PollRetained, Return
<1>11. CASE PollAgain(l)
  BY <1>1, <1>11 DEF PollAgain
<1>12. CASE ProcessExits(l)
  BY <1>1, <1>12 DEF ProcessExits, ProcessState
<1> QED
  BY <1>2, <1>3, <1>4, <1>5, <1>6, <1>7, <1>8, <1>9, <1>10, <1>11, <1>12
     DEF ThreadStep

LEMMA RestartType == TypeInv /\ (Crash \/ Recover) => TypeInv'
<1> SUFFICES ASSUME TypeInv, Crash \/ Recover PROVE TypeInv'
  OBVIOUS
<1> USE DEF TypeInv, TypeOK, ChildTypeOK, Position, DoneHasResult, Pc, LoopPc,
            ProjectPc, TaskPc, ActionStatus, PlanStatus, RowStatus, RunStatus
<1>1. CASE Crash
  <2>1. ChildTypeOK'
    BY <1>1 DEF Crash, ThreadState, ResultState
  <2>2. proj' \in 1..(NumProjects + 1) /\ slot' \in 3..(NumTasks + 3)
    BY <1>1, PlanAssumption DEF Crash
  <2>3. /\ runCall' \in [RunCaller -> CallState]
        /\ actionCall' \in [ActionCaller -> CallState]
    BY <1>1 DEF Crash, CallState
  <2>4. codexReady' \in BOOLEAN /\ active' \in BOOLEAN
    BY <1>1 DEF Crash
  <2>5. /\ pc' = "crashed" /\ halt' = "none" /\ act' = plan /\ final' = "absent"
        /\ rec' = [p \in Project |-> "absent"]
        /\ reg' = [k \in ActionKey |-> "absent"]
        /\ doomed' = {}
        /\ thread' = [l \in LaunchId |-> "idle"]
        /\ UNCHANGED <<plan, dbVars, actionKey, faults>>
    BY <1>1 DEF Crash
  <2> QED
    BY <2>1, <2>2, <2>3, <2>4, <2>5
<1>2. CASE Recover
  <2>1. /\ row' \in [RowKey -> RowStatus]
        /\ runRow' \in RunStatus /\ snap' \in RunStatus
    BY <1>2, SummaryTypes DEF Recover, RecoveredRow, Finalized
  <2>2. /\ pc' = "recovered"
        /\ UNCHANGED <<plan, runnerVars, active, reg, log, callVars, faults,
                       flagVars, processVars>>
    BY <1>2 DEF Recover
  <2> QED
    BY <2>1, <2>2
<1> QED
  BY <1>1, <1>2

LEMMA TypeStep == TypeInv /\ [Next]_vars => TypeInv'
<1>1. TypeInv /\ UNCHANGED vars => TypeInv'
  BY DEF TypeInv, TypeOK, ChildTypeOK, Position, DoneHasResult, Key, TaskKey
<1> QED
  BY <1>1, RunnerType, CallType, ChildType, RestartType DEF Next

\* Every variable keeps its type, the runner only uses the project and the
\* launch task it is at, and a finished thread has left a result
\* (start_restore_run_with_events and everything it interacts with).
THEOREM TypeCorrect == Spec => []TypeOK
<1>1. TypeInv => TypeOK
  BY DEF TypeInv
<1> QED
  BY <1>1, TypeInit, TypeStep, PTL DEF Spec

-----------------------------------------------------------------------------
(* A cancel accepted in time *)

\* The control points AboutToLaunch says something of.
LaunchingPc == {"idle", "inserted", "active", "terminalStart", "taskStart",
                "taskLaunch", "taskWait", "ideStart", "ideWait"}
DeadPc == {"crashed", "recovered"}

LEMMA ElsewherePc == pc \notin LaunchingPc => AboutToLaunch
BY DEF LaunchingPc, AboutToLaunch

LEMMA DoomInit == Init => IInv
<1> SUFFICES ASSUME Init PROVE IInv
  OBVIOUS
<1> QED
  BY TypeInit DEF Init, ChildInit, IInv, ServesItsOwn, UnmadeIsFresh,
     MadeIsNotPlanned, PlannedIsUntouched, AboutToLaunch, DoomedIsStopped

\* A planned action is in nobody's launch.
LEMMA PlannedIsUnlaunched ==
    ASSUME IInv, NEW k \in ActionKey, act[k] = "planned", NEW l \in LaunchId
    PROVE  k \notin keys[l]
BY DEF IInv, ServesItsOwn, MadeIsNotPlanned

\* A step that launches nothing, completes no cancelled action and plans none.
LEMMA QuietStep ==
    ASSUME IInv, TypeInv', AboutToLaunch',
           UNCHANGED <<doomed, tokens, thread, result, keys>>,
           pc \in DeadPc => pc' \in DeadPc,
           \A l \in LaunchId: process[l] = "none" => process'[l] = "none",
           \A k \in ActionKey: act'[k] = "planned" => act[k] = "planned",
           \A k \in doomed: act'[k] # "completed",
           \A k \in ActionKey: reg'[k] = "planned" =>
              \/ act'[k] = "planned"
              \/ reg[k] = "planned" /\ act'[k] \in {act[k], "skipped"} \cup ErrorStatus
    PROVE  IInv'
<1>1. ServesItsOwn'
  BY DEF IInv, ServesItsOwn, Served
<1>2. UnmadeIsFresh'
  BY DEF IInv, UnmadeIsFresh, DeadPc
<1>3. MadeIsNotPlanned'
  <2> SUFFICES ASSUME NEW l \in LaunchId, keys[l] # {}, NEW k \in Served(l)
               PROVE  act'[k] # "planned"
    BY DEF MadeIsNotPlanned, Served
  <2>1. act[k] # "planned"
    BY DEF IInv, MadeIsNotPlanned
  <2>2. k \in ActionKey
    BY SlotKinds DEF Served, LaunchId, ActionKey
  <2> QED
    BY <2>1, <2>2
<1>4. PlannedIsUntouched'
  <2> SUFFICES ASSUME NEW k \in ActionKey, reg'[k] = "planned"
               PROVE  act'[k] # "completed" /\ \A l \in LaunchId: k \notin keys[l]
    BY DEF PlannedIsUntouched
  <2>1. CASE act'[k] = "planned"
    BY <2>1, PlannedIsUnlaunched
  <2>2. CASE /\ reg[k] = "planned"
              /\ act'[k] \in {act[k], "skipped"} \cup ErrorStatus
    BY <2>2 DEF IInv, PlannedIsUntouched, ErrorStatus
  <2> QED
    BY <2>1, <2>2
<1>5. DoomedIsStopped'
  BY DEF IInv, DoomedIsStopped
<1> QED
  BY <1>1, <1>2, <1>3, <1>4, <1>5 DEF IInv

\* A step that hands the actions ks to launch l, not made before.
LEMMA LaunchStep ==
    ASSUME IInv, TypeInv', AboutToLaunch',
           UNCHANGED <<doomed, tokens>>,
           NEW l \in LaunchId, NEW ks \in SUBSET Served(l),
           ks # {}, keys[l] = {}, pc \notin DeadPc,
           Launch(l, ks),
           \A k \in ActionKey: act'[k] \in {"running", act[k]},
           \A k \in Served(l): act'[k] # "planned",
           \A k \in ActionKey:
              reg'[k] = "planned" => k \notin ks /\ reg[k] = "planned"
    PROVE  IInv'
<1> USE DEF TypeInv, TypeOK, ChildTypeOK
<1>0. TypeInv
  BY DEF IInv
<1>1. /\ keys' = [keys EXCEPT ![l] = ks]
      /\ thread' = [thread EXCEPT ![l] = "queued"]
      /\ UNCHANGED <<result, process>>
  BY DEF Launch
<1>2. ServesItsOwn'
  BY <1>0, <1>1 DEF IInv, ServesItsOwn, Served
<1>3. UnmadeIsFresh'
  BY <1>0, <1>1 DEF IInv, UnmadeIsFresh, DeadPc
<1>4. MadeIsNotPlanned'
  <2> SUFFICES ASSUME NEW m \in LaunchId, keys'[m] # {}, NEW k \in Served(m)
               PROVE  act'[k] # "planned"
    BY DEF MadeIsNotPlanned, Served
  <2>1. CASE m = l
    BY <2>1
  <2>2. CASE m # l
    <3>1. act[k] # "planned"
      BY <1>0, <1>1, <2>2 DEF IInv, MadeIsNotPlanned
    <3>2. k \in ActionKey
      BY SlotKinds DEF Served, LaunchId, ActionKey
    <3> QED
      BY <3>1, <3>2
  <2> QED
    BY <2>1, <2>2
<1>5. PlannedIsUntouched'
  <2> SUFFICES ASSUME NEW k \in ActionKey, reg'[k] = "planned"
               PROVE  act'[k] # "completed" /\ \A m \in LaunchId: k \notin keys'[m]
    BY DEF PlannedIsUntouched
  <2>1. k \notin ks /\ reg[k] = "planned"
    OBVIOUS
  <2>2. act[k] # "completed" /\ \A m \in LaunchId: k \notin keys[m]
    BY <2>1 DEF IInv, PlannedIsUntouched
  <2> QED
    BY <1>0, <1>1, <2>1, <2>2
<1>6. DoomedIsStopped'
  <2> SUFFICES ASSUME NEW k \in doomed
               PROVE  /\ k \in tokens
                      /\ act'[k] # "completed"
                      /\ \A m \in LaunchId: k \in keys'[m] =>
                            /\ process'[m] = "none"
                            /\ result'[m] # "ok"
                            /\ thread'[m] \in {"idle", "queued", "done"}
    BY DEF DoomedIsStopped
  <2>1. k \in tokens /\ act'[k] # "completed"
    BY <1>0 DEF IInv, DoomedIsStopped
  <2>2. process[l] = "none" /\ result[l] = "none"
    BY DEF IInv, UnmadeIsFresh, DeadPc
  <2>3. ASSUME NEW m \in LaunchId, k \in keys'[m]
        PROVE  /\ process'[m] = "none"
               /\ result'[m] # "ok"
               /\ thread'[m] \in {"idle", "queued", "done"}
    BY <1>0, <1>1, <2>2, <2>3 DEF IInv, DoomedIsStopped
  <2> QED
    BY <2>1, <2>3
<1> QED
  BY <1>2, <1>3, <1>4, <1>5, <1>6 DEF IInv

\* Killing does not bring a process into being.
LEMMA TerminateSpawnsNothing ==
    ASSUME NEW S, Terminate(S), NEW l \in LaunchId, process[l] = "none"
    PROVE  process'[l] = "none"
BY DEF Terminate, Running

\* A launch whose actions include a cancelled one does not succeed.
LEMMA DoomedFails ==
    ASSUME IInv, NEW l \in LaunchId, NEW k \in doomed, k \in keys[l],
           NEW o \in Outcomes(l)
    PROVE  o # "ok"
BY DEF Outcomes, IInv, DoomedIsStopped

\* A step that touches nothing the invariant speaks of but the control point.
LEMMA IdleStep ==
    ASSUME IInv, TypeInv', pc \notin DeadPc, pc' \notin LaunchingPc,
           UNCHANGED <<act, reg, doomed, tokens, thread, result, keys, process>>
    PROVE  IInv'
<1>1. AboutToLaunch'
  BY DEF LaunchingPc, AboutToLaunch
<1>2. \A k \in doomed: act[k] # "completed"
  BY DEF IInv, DoomedIsStopped
<1> QED
  BY <1>1, <1>2, QuietStep

\* A step after which every action keeps its status or is newly settled as
\* something other than planned, and, where it was cancelled in time, other than
\* completed; the registry agrees with it wherever it says planned.
LEMMA SettleStep ==
    ASSUME IInv, TypeInv', pc \notin DeadPc, pc' \notin LaunchingPc,
           UNCHANGED <<doomed, tokens, thread, result, keys, process>>,
           \A k \in ActionKey: act'[k] # act[k] =>
              /\ act'[k] # "planned"
              /\ k \in doomed => act'[k] # "completed",
           \A k \in ActionKey: reg'[k] = "planned" =>
              \/ act'[k] = "planned"
              \/ reg[k] = "planned" /\ act'[k] \in {act[k], "skipped"} \cup ErrorStatus
    PROVE  IInv'
<1>1. AboutToLaunch'
  BY DEF LaunchingPc, AboutToLaunch
<1>2. doomed \subseteq ActionKey
  BY DEF IInv, TypeInv, TypeOK
<1>3. \A k \in doomed: act'[k] # "completed"
  BY <1>2 DEF IInv, DoomedIsStopped
<1>4. \A k \in ActionKey: act'[k] = "planned" => act[k] = "planned"
  OBVIOUS
<1> QED
  BY <1>1, <1>3, <1>4, QuietStep

LEMMA StartDoom == IInv /\ (InsertPlan \/ Activate \/ RegisterActions) => IInv'
<1> SUFFICES ASSUME IInv, InsertPlan \/ Activate \/ RegisterActions
             PROVE  IInv'
  OBVIOUS
<1>1. TypeInv'
  BY RunnerType DEF IInv, RunnerStep
<1>2. UNCHANGED <<plan, act, doomed, tokens, thread, result, keys, process>>
  BY DEF InsertPlan, Activate, RegisterActions
<1>3. /\ pc \in {"idle", "inserted", "active"}
      /\ act = plan /\ \A l \in LaunchId: keys[l] = {}
  BY DEF IInv, AboutToLaunch, InsertPlan, Activate, RegisterActions
<1>4. pc' \in {"inserted", "active", "project", "failDrop"}
  BY DEF InsertPlan, Activate, RegisterActions, DbFails
<1>5. reg' = reg \/ reg' = act
  BY <1>3 DEF InsertPlan, Activate, RegisterActions
<1>6. AboutToLaunch'
  BY <1>2, <1>3, <1>4 DEF AboutToLaunch
<1>7. \A k \in doomed: act[k] # "completed"
  BY DEF IInv, DoomedIsStopped
<1> QED
  BY <1>1, <1>2, <1>3, <1>5, <1>6, <1>7, QuietStep DEF DeadPc


LEMMA IdleDoom ==
    IInv /\ (\/ SkipCancelledProject \/ SkipRow \/ SkipProjectRow \/ StartProject
             \/ TerminalWanted \/ NothingToOpen \/ EnterTasks \/ PassTask \/ LeaveTasks
             \/ DecideStatus \/ FinalizeRun \/ WriteLog \/ ClearFinishedRun
             \/ ClearFailedRun \/ FinalizeFailedRun \/ DropGuard)
        => IInv'
<1> SUFFICES ASSUME IInv,
                    \/ SkipCancelledProject \/ SkipRow \/ SkipProjectRow \/ StartProject
                    \/ TerminalWanted \/ NothingToOpen \/ EnterTasks \/ PassTask \/ LeaveTasks
                    \/ DecideStatus \/ FinalizeRun \/ WriteLog \/ ClearFinishedRun
                    \/ ClearFailedRun \/ FinalizeFailedRun \/ DropGuard
             PROVE  IInv'
  OBVIOUS
<1>0. TypeInv'
  BY RunnerType DEF IInv, RunnerStep
<1> USE DEF LaunchingPc, DeadPc
<1>1. CASE SkipCancelledProject
  BY <1>0, <1>1, IdleStep DEF SkipCancelledProject
<1>2. CASE SkipRow
  BY <1>0, <1>2, IdleStep DEF SkipRow, WriteRow, DbFails
<1>3. CASE SkipProjectRow
  BY <1>0, <1>3, IdleStep DEF SkipProjectRow, WriteRow, DbFails
<1>4. CASE StartProject
  BY <1>0, <1>4, IdleStep DEF StartProject, WriteRow, WriteProjectRow, DbFails
<1>5. CASE NothingToOpen
  BY <1>0, <1>5, IdleStep DEF NothingToOpen
<1>6. CASE EnterTasks
  BY <1>0, <1>6, IdleStep DEF EnterTasks
<1>7. CASE PassTask
  BY <1>0, <1>7, IdleStep DEF PassTask
<1>8. CASE LeaveTasks
  BY <1>0, <1>8, IdleStep DEF LeaveTasks
<1>9. CASE DecideStatus
  BY <1>0, <1>9, IdleStep DEF DecideStatus
<1>10. CASE FinalizeRun
  BY <1>0, <1>10, IdleStep DEF FinalizeRun, DbFails
<1>11. CASE WriteLog
  BY <1>0, <1>11, IdleStep DEF WriteLog, DbFails
<1>12. CASE ClearFinishedRun
  BY <1>0, <1>12, IdleStep DEF ClearFinishedRun, ClearRun
<1>13. CASE ClearFailedRun
  BY <1>0, <1>13, IdleStep DEF ClearFailedRun, ClearRun
<1>14. CASE FinalizeFailedRun
  BY <1>0, <1>14, IdleStep DEF FinalizeFailedRun, DbFails
<1>15. CASE DropGuard
  BY <1>0, <1>15, IdleStep DEF DropGuard
<1>16. CASE TerminalWanted
  BY <1>0, <1>16, IdleStep DEF TerminalWanted
<1> QED
  BY <1>1, <1>2, <1>3, <1>4, <1>5, <1>6, <1>7, <1>8,
     <1>9, <1>10, <1>11, <1>12, <1>13, <1>14, <1>15, <1>16

LEMMA SettleDoom ==
    IInv /\ (\/ RecordSkipped \/ RecordUnplanned \/ TerminalCancelled
             \/ CodexCancelled \/ TerminalUnavailable \/ CancelPendingTask
             \/ SkipHaltedTask \/ SettleTask \/ SkipIde \/ FinishProject)
        => IInv'
<1> SUFFICES ASSUME IInv,
                    \/ RecordSkipped \/ RecordUnplanned \/ TerminalCancelled
                    \/ CodexCancelled \/ TerminalUnavailable \/ CancelPendingTask
                    \/ SkipHaltedTask \/ SettleTask \/ SkipIde \/ FinishProject
             PROVE  IInv'
  OBVIOUS
<1>0. TypeInv' /\ TypeInv
  BY RunnerType DEF IInv, RunnerStep
<1> USE DEF LaunchingPc, DeadPc
<1>1. CASE RecordSkipped
  BY <1>0, <1>1, SettleStep, SMTT(30)
     DEF RecordSkipped, SyncProject, PlannedOf, Marked, TypeInv, TypeOK
<1>2. CASE RecordUnplanned
  BY <1>0, <1>2, SettleStep, SMTT(30)
     DEF RecordUnplanned, SyncProject, TypeInv, TypeOK
<1>3. CASE TerminalCancelled
  BY <1>0, <1>3, SettleStep, SMTT(30)
     DEF TerminalCancelled, TypeInv, TypeOK
<1>4. CASE CodexCancelled
  BY <1>0, <1>4, SettleStep, SMTT(30)
     DEF CodexCancelled, MarkAndSync, Marked, TypeInv, TypeOK
<1>5. CASE TerminalUnavailable
  BY <1>0, <1>5, SettleStep, SMTT(30)
     DEF TerminalUnavailable, AtWantedPair, MarkAndSync, Marked, ErrorStatus, TypeInv, TypeOK
<1>6. CASE CancelPendingTask
  BY <1>0, <1>6, SettleStep, SMTT(30)
     DEF CancelPendingTask, AtPlannedTask, SettleUnstarted, WriteRow,
         WriteProjectRow, DbFails, MarkAndSync, Marked, TypeInv, TypeOK
<1>7. CASE SkipHaltedTask
  BY <1>0, <1>7, SettleStep, SMTT(30)
     DEF SkipHaltedTask, AtPlannedTask, SettleUnstarted, WriteRow,
         WriteProjectRow, DbFails, MarkAndSync, Marked, TypeInv, TypeOK
<1>8. CASE SettleTask
  BY <1>0, <1>8, SettleStep, SMTT(30)
     DEF SettleTask, Marked, DbFails, TypeInv, TypeOK
<1>9. CASE SkipIde
  BY <1>0, <1>9, SettleStep, SMTT(30)
     DEF SkipIde, PlannedOf, Marked, TypeInv, TypeOK
<1>10. CASE FinishProject
  BY <1>0, <1>10, SettleStep, SMTT(30)
     DEF FinishProject, SyncProject, DbFails, TypeInv, TypeOK
<1> QED
  BY <1>1, <1>2, <1>3, <1>4, <1>5, <1>6, <1>7, <1>8, <1>9, <1>10

\* The three places where a launch is awaited.
LEMMA AwaitDoom == IInv /\ (TerminalWait \/ TaskWait \/ IdeWait) => IInv'
<1> SUFFICES ASSUME IInv, TerminalWait \/ TaskWait \/ IdeWait PROVE IInv'
  OBVIOUS
<1>0. TypeInv' /\ TypeInv
  BY RunnerType DEF IInv, RunnerStep
<1> USE DEF LaunchingPc, DeadPc, Marked, MarkAndSync
<1>1. CASE TerminalWait
  <2>1. PICK o \in Outcomes(Key(Terminal)):
           LET group == keys[Key(Terminal)]
           IN IF o = "ok"
              THEN MarkAndSync(IF codexReady THEN group
                               ELSE group \ {Key(Codex)}, "completed")
              ELSE MarkAndSync(group, o)
    BY <1>1 DEF TerminalWait
  <2>2. Key(Terminal) \in LaunchId
    BY <1>0, <1>1, CurrentKeys
       DEF TerminalWait, TypeInv, Position, LoopPc, ProjectPc
  <2>3. o = "ok" => keys[Key(Terminal)] \cap doomed = {}
    BY <2>1, <2>2, DoomedFails
  <2>4. o # "planned"
    BY <1>0, <2>2 DEF Outcomes, TypeInv, TypeOK, ChildTypeOK, ResultState
  <2>5. o # "completed"
    BY <1>0, <2>2 DEF Outcomes, TypeInv, TypeOK, ChildTypeOK, ResultState
  <2>6. \E S \in SUBSET keys[Key(Terminal)], st \in {"completed", o}:
           MarkAndSync(S, st) /\ (st = "completed" => o = "ok")
    <3>1. CASE o = "ok" /\ codexReady
      BY <2>1, <3>1
    <3>2. CASE o = "ok" /\ ~codexReady
      BY <2>1, <3>2
    <3>3. CASE o # "ok"
      BY <2>1, <2>5, <3>3
    <3> QED
      BY <3>1, <3>2, <3>3
  <2>7. \A k \in ActionKey: act'[k] # act[k] =>
           act'[k] # "planned" /\ (k \in doomed => act'[k] # "completed")
    BY <2>3, <2>4, <2>6
  <2>8. \A k \in ActionKey: reg'[k] = "planned" =>
           reg[k] = "planned" /\ act'[k] = act[k]
    BY <2>4, <2>6
  <2> QED
    BY <1>0, <1>1, <2>7, <2>8, SettleStep DEF TerminalWait
<1>2. CASE TaskWait
  <2>1. PICK o \in Outcomes(TaskKey):
           act' = Marked(act, {TaskKey}, IF o = "ok" THEN "completed" ELSE o)
    BY <1>2 DEF TaskWait
  <2>2. TaskKey \in LaunchId
    BY <1>0, <1>2, CurrentKeys
       DEF TaskWait, TypeInv, Position, LoopPc, ProjectPc, TaskPc
  <2>3. keys[TaskKey] = {TaskKey} /\ reg[TaskKey] # "planned"
    BY <1>2 DEF TaskWait, IInv, AboutToLaunch
  <2>4. o = "ok" => TaskKey \notin doomed
    BY <2>1, <2>2, <2>3, DoomedFails
  <2>5. o \notin {"planned", "completed"}
    BY <1>0, <2>2 DEF Outcomes, TypeInv, TypeOK, ChildTypeOK, ResultState
  <2>6. \A k \in ActionKey: act'[k] # act[k] =>
           act'[k] # "planned" /\ (k \in doomed => act'[k] # "completed")
    BY <2>1, <2>4, <2>5
  <2>7. \A k \in ActionKey: reg'[k] = "planned" =>
           reg[k] = "planned" /\ act'[k] = act[k]
    BY <1>2, <2>1, <2>3 DEF TaskWait
  <2> QED
    BY <1>0, <1>2, <2>6, <2>7, SettleStep DEF TaskWait
<1>3. CASE IdeWait
  <2>1. PICK o \in Outcomes(Key(Ide)):
           MarkAndSync({Key(Ide)}, IF o = "ok" THEN "completed" ELSE o)
    BY <1>3 DEF IdeWait
  <2>2. Key(Ide) \in LaunchId
    BY <1>0, <1>3, CurrentKeys
       DEF IdeWait, TypeInv, Position, LoopPc, ProjectPc
  <2>3. keys[Key(Ide)] = {Key(Ide)}
    BY <1>3 DEF IdeWait, IInv, AboutToLaunch
  <2>4. o = "ok" => Key(Ide) \notin doomed
    BY <2>1, <2>2, <2>3, DoomedFails
  <2>5. o \notin {"planned", "completed"}
    BY <1>0, <2>2 DEF Outcomes, TypeInv, TypeOK, ChildTypeOK, ResultState
  <2>6. \A k \in ActionKey: act'[k] # act[k] =>
           act'[k] # "planned" /\ (k \in doomed => act'[k] # "completed")
    BY <2>1, <2>4, <2>5
  <2>7. \A k \in ActionKey: reg'[k] = "planned" =>
           reg[k] = "planned" /\ act'[k] = act[k]
    BY <2>1, <2>5
  <2> QED
    BY <1>0, <1>3, <2>6, <2>7, SettleStep DEF IdeWait
<1> QED
  BY <1>1, <1>2, <1>3

\* The steps that lead up to a launch.
LEMMA ApproachDoom ==
    IInv /\ (CodexUnavailable \/ TerminalUsable \/ ChooseTask \/ StartTask
             \/ CheckIde) => IInv'
<1> SUFFICES ASSUME IInv,
                    \/ CodexUnavailable \/ TerminalUsable \/ ChooseTask
                    \/ StartTask \/ CheckIde
             PROVE  IInv'
  OBVIOUS
<1>0. TypeInv' /\ TypeInv
  BY RunnerType DEF IInv, RunnerStep
<1>a. \A k \in doomed: act[k] # "completed"
  BY DEF IInv, DoomedIsStopped
<1>b. PlannedPair # {} /\ proj \in Project => keys[Key(Terminal)] = {}
  BY CurrentKeys DEF IInv, MadeIsNotPlanned, PlannedPair, Served, Key
<1> USE DEF LaunchingPc, DeadPc
<1>1. CASE CodexUnavailable
  <2>1. PICK e \in ErrorStatus: MarkAndSync({Key(Codex)}, e)
    BY <1>1 DEF CodexUnavailable
  <2>2. /\ PlannedPair = {Key(Terminal), Key(Codex)} /\ pc = "codex"
        /\ pc' = "terminalStart"
        /\ UNCHANGED <<proj, doomed, tokens, thread, result, keys, process>>
    BY <1>1 DEF CodexUnavailable, AtWantedPair
  <2>3. proj \in Project
    BY <1>0, <2>2 DEF TypeInv, Position, LoopPc, ProjectPc
  <2>4. Key(Terminal) # Key(Codex) /\ act[Key(Terminal)] = "planned"
    BY <2>2, SlotKinds DEF PlannedPair, Key
  <2>5. act'[Key(Terminal)] = "planned"
    BY <2>1, <2>3, <2>4, CurrentKeys DEF MarkAndSync, Marked
  <2>6. TerminalGroup' # {}
    BY <2>2, <2>5 DEF TerminalGroup, Key
  <2>7. AboutToLaunch'
    BY <1>b, <2>2, <2>3, <2>6 DEF AboutToLaunch, Key
  <2>8. e \notin {"planned", "completed"}
    BY DEF ErrorStatus
  <2>9. /\ \A k \in ActionKey: act'[k] = "planned" => act[k] = "planned"
        /\ \A k \in doomed: act'[k] # "completed"
        /\ \A k \in ActionKey: reg'[k] = "planned" =>
              reg[k] = "planned" /\ act'[k] = act[k]
    BY <1>0, <1>a, <2>1, <2>8 DEF MarkAndSync, Marked, TypeInv, TypeOK
  <2> QED
    BY <1>0, <2>2, <2>7, <2>9, QuietStep
<1>2. CASE TerminalUsable
  <2>1. /\ PlannedPair # {} /\ pc = "codex" /\ pc' = "terminalStart"
        /\ UNCHANGED <<proj, act, reg, doomed, tokens, thread, result, keys,
                       process>>
    BY <1>2 DEF TerminalUsable, AtWantedPair
  <2>2. proj \in Project
    BY <1>0, <2>1 DEF TypeInv, Position, LoopPc, ProjectPc
  <2>3. TerminalGroup' # {}
    BY <2>1 DEF TerminalGroup, PlannedPair, Key
  <2>4. AboutToLaunch'
    BY <1>b, <2>1, <2>2, <2>3 DEF AboutToLaunch, Key
  <2> QED
    BY <1>0, <1>a, <2>1, <2>4, QuietStep
<1>3. CASE ChooseTask
  <2>1. AboutToLaunch'
    BY <1>3 DEF ChooseTask, AtPlannedTask, AboutToLaunch, TaskKey, Key
  <2> QED
    BY <1>0, <1>3, <1>a, <2>1, QuietStep DEF ChooseTask, AtPlannedTask
<1>4. CASE StartTask
  <2>1. /\ pc = "taskStart" /\ pc' \in {"taskLaunch", "failTerminate"}
        /\ MarkAndSync({TaskKey}, "running")
        /\ UNCHANGED <<proj, slot, doomed, tokens, thread, result, keys, process>>
    BY <1>4 DEF StartTask, WriteProjectRow, WriteRow, DbFails
  <2>2. TaskKey \in LaunchId /\ TaskKey \in ActionKey
    BY <1>0, <2>1, CurrentKeys DEF TypeInv, Position, LoopPc, ProjectPc, TaskPc
  <2>3. act[TaskKey] = "planned"
    BY <2>1 DEF IInv, AboutToLaunch
  <2>4. TaskKey \in Served(TaskKey)
    BY DEF Served, TaskKey, Key, Terminal
  <2>5. keys[TaskKey] = {}
    BY <2>2, <2>3, <2>4 DEF IInv, MadeIsNotPlanned
  <2>6. act'[TaskKey] = "running" /\ reg'[TaskKey] = "running"
    BY <2>1, <2>2 DEF MarkAndSync, Marked
  <2>7. AboutToLaunch'
    BY <2>1, <2>5, <2>6 DEF AboutToLaunch, TaskKey, Key
  <2>8. /\ \A k \in ActionKey: act'[k] = "planned" => act[k] = "planned"
        /\ \A k \in doomed: act'[k] # "completed"
        /\ \A k \in ActionKey: reg'[k] = "planned" =>
              reg[k] = "planned" /\ act'[k] = act[k]
    BY <1>0, <1>a, <2>1 DEF MarkAndSync, Marked, TypeInv, TypeOK
  <2> QED
    BY <1>0, <2>1, <2>7, <2>8, QuietStep
<1>5. CASE CheckIde
  <2>1. CASE pc' = "ideStart"
    <3>1. /\ act[Key(Ide)] = "planned" /\ pc = "ide"
          /\ UNCHANGED <<proj, act, reg, doomed, tokens, thread, result, keys,
                         process>>
      BY <1>5, <2>1 DEF CheckIde
    <3>2. AboutToLaunch'
      BY <2>1, <3>1 DEF AboutToLaunch, Key
    <3> QED
      BY <1>0, <1>a, <2>1, <3>1, <3>2, QuietStep
  <2>2. CASE pc' # "ideStart"
    BY <1>0, <1>5, <2>2, SettleStep
       DEF CheckIde, MarkAndSync, Marked, ErrorStatus, TypeInv, TypeOK
  <2> QED
    BY <2>1, <2>2
<1> QED
  BY <1>1, <1>2, <1>3, <1>4, <1>5

\* The launches themselves.
LEMMA LaunchDoom == IInv /\ (TerminalStart \/ LaunchTask \/ IdeStart) => IInv'
<1> SUFFICES ASSUME IInv, TerminalStart \/ LaunchTask \/ IdeStart PROVE IInv'
  OBVIOUS
<1>0. TypeInv' /\ TypeInv
  BY RunnerType DEF IInv, RunnerStep
<1> USE DEF LaunchingPc, DeadPc
<1>1. CASE TerminalStart
  <2>1. /\ pc = "terminalStart" /\ pc' = "terminalWait"
        /\ MarkAndSync(TerminalGroup, "running")
        /\ Launch(Key(Terminal), TerminalGroup)
        /\ UNCHANGED <<doomed, tokens>>
    BY <1>1 DEF TerminalStart
  <2>2. Key(Terminal) \in LaunchId
    BY <1>0, <2>1, CurrentKeys DEF TypeInv, Position, LoopPc, ProjectPc
  <2>3. TerminalGroup # {} /\ keys[Key(Terminal)] = {}
    BY <2>1 DEF IInv, AboutToLaunch
  <2>4. AboutToLaunch'
    BY <2>1, ElsewherePc DEF AboutToLaunch
  <2>5. \A k \in Served(Key(Terminal)):
           k \in ActionKey /\ (act[k] = "planned" => k \in TerminalGroup)
    BY <1>0, <2>1, CurrentKeys
       DEF Served, Key, TerminalGroup, TypeInv, Position, LoopPc, ProjectPc
  <2>6. /\ \A k \in ActionKey: act'[k] \in {"running", act[k]}
        /\ \A k \in ActionKey: reg'[k] = "planned" =>
              k \notin TerminalGroup /\ reg[k] = "planned"
        /\ \A k \in Served(Key(Terminal)): act'[k] # "planned"
    BY <2>1, <2>5 DEF MarkAndSync, Marked
  <2> QED
    BY <1>0, <2>1, <2>2, <2>3, <2>4, <2>6, TerminalServes, LaunchStep
<1>2. CASE LaunchTask
  <2>1. /\ pc = "taskLaunch"
        /\ UNCHANGED <<proj, slot, reg, doomed, tokens>>
    BY <1>2 DEF LaunchTask
  <2>2. TaskKey \in LaunchId /\ TaskKey \in ActionKey
    BY <1>0, <2>1, CurrentKeys DEF TypeInv, Position, LoopPc, ProjectPc, TaskPc
  <2>3. /\ keys[TaskKey] = {}
        /\ act[TaskKey] # "planned" /\ reg[TaskKey] # "planned"
    BY <2>1 DEF IInv, AboutToLaunch
  <2>4. CASE pc' = "taskSettle"
    <3>1. /\ UNCHANGED <<thread, result, keys, process>>
          /\ \E e \in ErrorStatus: act' = Marked(act, {TaskKey}, e)
      BY <1>2, <2>4 DEF LaunchTask
    <3>2. /\ \A k \in ActionKey: act'[k] # act[k] =>
                k = TaskKey /\ act'[k] \notin {"planned", "completed"}
      BY <3>1 DEF Marked, ErrorStatus
    <3> QED
      BY <1>0, <2>1, <2>3, <2>4, <3>1, <3>2, SettleStep
  <2>5. CASE pc' # "taskSettle"
    <3>1. pc' = "taskWait" /\ Launch(TaskKey, {TaskKey}) /\ UNCHANGED act
      BY <1>2, <2>5 DEF LaunchTask
    <3>2. Served(TaskKey) = {TaskKey}
      BY <1>0, <2>1, SlotKinds
         DEF Served, TaskKey, Key, TypeInv, Position, TaskPc
    <3>3. keys'[TaskKey] = {TaskKey}
      BY <1>0, <2>2, <3>1 DEF Launch, TypeInv, TypeOK, ChildTypeOK
    <3>4. AboutToLaunch'
      BY <2>1, <2>3, <3>1, <3>3 DEF AboutToLaunch, TaskKey, Key
    <3> QED
      BY <1>0, <2>1, <2>2, <2>3, <3>1, <3>2, <3>4, LaunchStep
  <2> QED
    BY <2>4, <2>5
<1>3. CASE IdeStart
  <2>1. /\ pc = "ideStart" /\ pc' = "ideWait"
        /\ MarkAndSync({Key(Ide)}, "running")
        /\ Launch(Key(Ide), {Key(Ide)})
        /\ UNCHANGED <<proj, doomed, tokens>>
    BY <1>3 DEF IdeStart
  <2>2. Key(Ide) \in LaunchId /\ Key(Ide) \in ActionKey
    BY <1>0, <2>1, CurrentKeys DEF TypeInv, Position, LoopPc, ProjectPc
  <2>3. Served(Key(Ide)) = {Key(Ide)}
    BY SlotKinds DEF Served, Key
  <2>4. act[Key(Ide)] = "planned"
    BY <2>1 DEF IInv, AboutToLaunch
  <2>5. keys[Key(Ide)] = {}
    BY <2>2, <2>3, <2>4 DEF IInv, MadeIsNotPlanned
  <2>6. keys'[Key(Ide)] = {Key(Ide)}
    BY <1>0, <2>1, <2>2 DEF Launch, TypeInv, TypeOK, ChildTypeOK
  <2>7. AboutToLaunch'
    BY <2>1, <2>6 DEF AboutToLaunch, Key
  <2>8. /\ \A k \in ActionKey: act'[k] \in {"running", act[k]}
        /\ \A k \in ActionKey: reg'[k] = "planned" =>
              k \notin {Key(Ide)} /\ reg[k] = "planned"
        /\ act'[Key(Ide)] # "planned"
    BY <2>1, <2>2 DEF MarkAndSync, Marked
  <2> QED
    BY <1>0, <2>1, <2>2, <2>3, <2>5, <2>7, <2>8, LaunchStep
<1> QED
  BY <1>1, <1>2, <1>3

\* The runner's own killing of the run's processes.
LEMMA KillDoom ==
    IInv /\ (TerminateCancelledRun \/ TerminateFailedRun) => IInv'
<1> SUFFICES ASSUME IInv, TerminateCancelledRun \/ TerminateFailedRun
             PROVE  IInv'
  OBVIOUS
<1>0. TypeInv' /\ TypeInv
  BY RunnerType DEF IInv, RunnerStep
<1>1. /\ pc' \in {"clear", "failClear"} /\ pc \notin DeadPc
      /\ Terminate(tracked)
      /\ UNCHANGED <<act, reg, doomed, tokens, thread, result, keys>>
  BY DEF TerminateCancelledRun, TerminateFailedRun, TerminateRun, DeadPc
<1>2. AboutToLaunch'
  BY <1>1, ElsewherePc DEF AboutToLaunch
<1>3. \A k \in doomed: act[k] # "completed"
  BY DEF IInv, DoomedIsStopped
<1> QED
  BY <1>0, <1>1, <1>2, <1>3, TerminateSpawnsNothing, QuietStep

LEMMA RunnerDoom == IInv /\ RunnerStep => IInv'
BY StartDoom, IdleDoom, SettleDoom, AwaitDoom, ApproachDoom, LaunchDoom,
   KillDoom
   DEF RunnerStep

LEMMA CallDoom == IInv /\ CallStep => IInv'
<1> SUFFICES ASSUME IInv, CallStep PROVE IInv'
  OBVIOUS
<1>0. TypeInv' /\ TypeInv
  BY CallType DEF IInv
<1>a. \A k \in doomed: act[k] # "completed"
  BY DEF IInv, DoomedIsStopped
<1>1. ASSUME NEW c \in RunCaller,
             CancelRun(c) \/ CancelRunTerminate(c) \/ CancelRunMark(c)
      PROVE  IInv'
  <2>1. UNCHANGED <<plan, pc, proj, slot, act, reg, doomed, tokens, thread, result,
                    keys>>
    BY <1>1 DEF CancelRun, CancelRunTerminate, CancelRunMark
  <2>2. AboutToLaunch'
    BY <2>1 DEF IInv, AboutToLaunch, TerminalGroup, TaskKey, Key
  <2>3. \A l \in LaunchId: process[l] = "none" => process'[l] = "none"
    BY <1>1, TerminateSpawnsNothing
       DEF CancelRun, CancelRunTerminate, CancelRunMark
  <2> QED
    BY <1>0, <1>a, <2>1, <2>2, <2>3, QuietStep
<1>2. ASSUME NEW c \in ActionCaller, CancelActionTerminate(c) PROVE IInv'
  <2>1. UNCHANGED <<plan, pc, proj, slot, act, reg, doomed, tokens, thread, result,
                    keys>>
    BY <1>2 DEF CancelActionTerminate
  <2>2. AboutToLaunch'
    BY <2>1 DEF IInv, AboutToLaunch, TerminalGroup, TaskKey, Key
  <2>3. \A l \in LaunchId: process[l] = "none" => process'[l] = "none"
    BY <1>2, TerminateSpawnsNothing DEF CancelActionTerminate
  <2> QED
    BY <1>0, <1>a, <2>1, <2>2, <2>3, QuietStep
<1>3. ASSUME NEW c \in ActionCaller, NEW k \in ActionKey, CancelAction(c, k)
      PROVE  IInv'
  <2>1. UNCHANGED <<plan, pc, proj, slot, act, thread, result, keys, process>>
    BY <1>3 DEF CancelAction
  <2>2. \A j \in ActionKey: reg'[j] = "planned" => reg[j] = "planned"
    BY <1>0, <1>3 DEF CancelAction, TypeInv, TypeOK
  <2>3. tokens \subseteq tokens'
    BY <1>3 DEF CancelAction
  <2>4. \A j \in doomed': j \in doomed \/ (j = k /\ reg[k] = "planned" /\ k \in tokens')
    BY <1>3 DEF CancelAction
  <2>5. DoomedIsStopped'
    <3> SUFFICES ASSUME NEW j \in doomed'
                 PROVE  /\ j \in tokens'
                        /\ act[j] # "completed"
                        /\ \A l \in LaunchId: j \in keys[l] =>
                              /\ process[l] = "none"
                              /\ result[l] # "ok"
                              /\ thread[l] \in {"idle", "queued", "done"}
      BY <2>1 DEF DoomedIsStopped
    <3>1. CASE j \in doomed
      BY <2>3, <3>1 DEF IInv, DoomedIsStopped
    <3>2. CASE j = k /\ reg[k] = "planned" /\ k \in tokens'
      BY <3>2 DEF IInv, PlannedIsUntouched
    <3> QED
      BY <2>4, <3>1, <3>2
  <2>6. AboutToLaunch'
    <3>1. pc \in TaskPc => TaskKey \in ActionKey
      BY <1>0, CurrentKeys DEF TypeInv, Position, LoopPc, ProjectPc, TaskPc
    <3> QED
      BY <2>1, <2>2, <3>1
         DEF IInv, AboutToLaunch, TerminalGroup, TaskKey, Key, TaskPc
  <2>7. ServesItsOwn' /\ UnmadeIsFresh' /\ MadeIsNotPlanned' /\ PlannedIsUntouched'
    BY <2>1, <2>2
       DEF IInv, ServesItsOwn, UnmadeIsFresh, MadeIsNotPlanned,
           PlannedIsUntouched, Served
  <2> QED
    BY <1>0, <2>5, <2>6, <2>7 DEF IInv
<1> QED
  BY <1>1, <1>2, <1>3 DEF CallStep

\* The threads: one that has a cancelled action finds the token and returns.
LEMMA ChildDoom == IInv /\ ChildStep => IInv'
<1> SUFFICES ASSUME IInv, ChildStep PROVE IInv'
  OBVIOUS
<1>0. TypeInv' /\ TypeInv
  BY ChildType DEF IInv
<1>1. UNCHANGED <<runVars, flagVars, keys>>
  BY DEF ChildStep, ThreadStep, CheckBeforeSpawn, Spawn, Register, PollTokens,
         Reap, PollExited, PollFailed, PollRetained, PollAgain, ProcessExits
<1>2. PICK l \in LaunchId: ThreadStep(l) \/ ProcessExits(l)
  BY DEF ChildStep
<1>3. \A m \in LaunchId: m # l /\ process[m] = "none" => process'[m] = "none"
  BY <1>0, <1>2, TerminateSpawnsNothing
     DEF ThreadStep, CheckBeforeSpawn, Spawn, Register, PollTokens, Reap,
         PollExited, PollFailed, PollRetained, PollAgain, ProcessExits,
         TypeInv, TypeOK, ChildTypeOK
<1>4. \A m \in LaunchId: m # l => thread'[m] = thread[m] /\ result'[m] = result[m]
  BY <1>0, <1>2
     DEF ThreadStep, CheckBeforeSpawn, Spawn, Register, PollTokens, Reap,
         PollExited, PollFailed, PollRetained, PollAgain, ProcessExits, Return,
         TypeInv, TypeOK, ChildTypeOK
<1>5. thread[l] # "idle" \/ process[l] # "none"
  BY <1>2
     DEF ThreadStep, CheckBeforeSpawn, Spawn, Register, PollTokens, Reap,
         PollExited, PollFailed, PollRetained, PollAgain, ProcessExits, Running
<1>6. UnmadeIsFresh'
  BY <1>1, <1>3, <1>4, <1>5 DEF IInv, UnmadeIsFresh
<1>7. DoomedIsStopped'
  <2> SUFFICES ASSUME NEW k \in doomed
               PROVE  /\ k \in tokens
                      /\ act[k] # "completed"
                      /\ \A m \in LaunchId: k \in keys[m] =>
                            /\ process'[m] = "none"
                            /\ result'[m] # "ok"
                            /\ thread'[m] \in {"idle", "queued", "done"}
    BY <1>1 DEF DoomedIsStopped
  <2>1. k \in tokens /\ act[k] # "completed"
    BY DEF IInv, DoomedIsStopped
  <2>2. ASSUME NEW m \in LaunchId, k \in keys[m], m # l
        PROVE  /\ process'[m] = "none"
               /\ result'[m] # "ok"
               /\ thread'[m] \in {"idle", "queued", "done"}
    BY <1>3, <1>4, <2>2 DEF IInv, DoomedIsStopped
  <2>3. ASSUME k \in keys[l]
        PROVE  /\ process'[l] = "none"
               /\ result'[l] # "ok"
               /\ thread'[l] \in {"idle", "queued", "done"}
    <3>1. /\ process[l] = "none"
          /\ thread[l] \in {"idle", "queued", "done"}
      BY <2>3 DEF IInv, DoomedIsStopped
    <3>2. CheckBeforeSpawn(l)
      BY <1>2, <3>1
         DEF ThreadStep, Spawn, Register, PollTokens, Reap, PollExited,
             PollFailed, PollRetained, PollAgain, ProcessExits, Running
    <3>3. CancelSeen(l)
      BY <2>1, <2>3 DEF CancelSeen
    <3> QED
      BY <1>0, <3>1, <3>2, <3>3
         DEF CheckBeforeSpawn, Return, TypeInv, TypeOK, ChildTypeOK
  <2> QED
    BY <2>1, <2>2, <2>3
<1>8. AboutToLaunch'
  BY <1>1 DEF IInv, AboutToLaunch, TerminalGroup, TaskKey, Key
<1>9. ServesItsOwn' /\ MadeIsNotPlanned' /\ PlannedIsUntouched'
  BY <1>1 DEF IInv, ServesItsOwn, MadeIsNotPlanned, PlannedIsUntouched, Served
<1> QED
  BY <1>0, <1>6, <1>7, <1>8, <1>9 DEF IInv

LEMMA RestartDoom == IInv /\ (Crash \/ Recover) => IInv'
<1> SUFFICES ASSUME IInv, Crash \/ Recover PROVE IInv'
  OBVIOUS
<1>0. TypeInv' /\ TypeInv
  BY RestartType DEF IInv
<1>1. CASE Crash
  <2>1. /\ pc' = "crashed" /\ doomed' = {}
        /\ reg' = [k \in ActionKey |-> "absent"]
        /\ keys' = [l \in LaunchId |-> {}]
    BY <1>1 DEF Crash
  <2> QED
    BY <1>0, <2>1
       DEF IInv, ServesItsOwn, UnmadeIsFresh, MadeIsNotPlanned,
           PlannedIsUntouched, AboutToLaunch, DoomedIsStopped
<1>2. CASE Recover
  <2>1. /\ pc' = "recovered"
        /\ UNCHANGED <<act, reg, doomed, tokens, thread, result, keys, process>>
    BY <1>2 DEF Recover
  <2>2. AboutToLaunch'
    BY <2>1 DEF AboutToLaunch
  <2>3. \A k \in doomed: act[k] # "completed"
    BY DEF IInv, DoomedIsStopped
  <2> QED
    BY <1>0, <2>1, <2>2, <2>3, QuietStep DEF DeadPc
<1> QED
  BY <1>1, <1>2

LEMMA DoomStep == IInv /\ [Next]_vars => IInv'
<1>1. IInv /\ UNCHANGED vars => IInv'
  BY TypeStep
     DEF IInv, ServesItsOwn, UnmadeIsFresh, MadeIsNotPlanned,
         PlannedIsUntouched, AboutToLaunch, DoomedIsStopped, Served,
         TerminalGroup, TaskKey, Key
<1> QED
  BY <1>1, RunnerDoom, CallDoom, ChildDoom, RestartDoom DEF Next

\* Once cancel_restore_action has accepted the cancel of an action that had not
\* been started, no program is ever spawned for it and it is never reported
\* completed: for any number of projects, tasks and callers, whatever fails.
THEOREM PendingCancelCorrect == Spec => []PendingCancelNeverRuns
<1>1. IInv => PendingCancelNeverRuns
  BY DEF IInv, DoomedIsStopped, PendingCancelNeverRuns
<1> QED
  BY <1>1, DoomInit, DoomStep, PTL DEF Spec

-----------------------------------------------------------------------------
(* The projects behind, ahead and at hand *)

\* No row of a project is left "running".
RowsDone(p) ==
    /\ row[<<p, 0>>] # "running"
    /\ \A s \in TaskSlot: row[<<p, s>>] # "running"

RecordOK(p) ==
    rec[p] # "absent" =>
        /\ row[<<p, 0>>] = rec[p]
        /\ \A s \in TaskSlot:
              plan[<<p, s>>] = "planned" => row[<<p, s>>] = act[<<p, s>>]

HaltOK(p) ==
    \A i, j \in TaskSlot: i < j /\ Halting(<<p, i>>) => keys[<<p, j>>] = {}

\* A launch task nobody has touched, and one the run is done with.
TaskFresh(p, s) ==
    /\ act[<<p, s>>] = plan[<<p, s>>]
    /\ row[<<p, s>>] = plan[<<p, s>>]
    /\ keys[<<p, s>>] = {}

TaskSettled(p, s) ==
    /\ row[<<p, s>>] # "running"
    /\ act[<<p, s>>] \notin {"planned", "running"}
    /\ plan[<<p, s>>] = "planned" => row[<<p, s>>] = act[<<p, s>>]

ProjectFresh(p) ==
    /\ row[<<p, 0>>] = PlannedProjectStatus(plan, p)
    /\ \A s \in Slot: act[<<p, s>>] = plan[<<p, s>>]
    /\ \A s \in TaskSlot: TaskFresh(p, s)

StartPc == {"inserted", "active", "project"}
SkipPc == {"skipRows", "skipProject"}
BeforeTasks == {"terminal", "codex", "terminalStart", "terminalWait", "afterTerminal"}
InTasks == {"task"} \cup TaskPc
IdePc == {"ide", "ideStart", "ideWait", "finishProject"}

\* A project that is dropped: its rows are written one after the other.
Dropping ==
    /\ pc \in SkipPc => \A s \in TaskSlot:
          /\ act[Key(s)] = plan[Key(s)]
          /\ keys[Key(s)] = {}
          /\ s < slot => row[Key(s)] = "skipped"
    /\ pc = "skipProject" => row[Key(0)] = "skipped" /\ slot \notin TaskSlot

\* The launch tasks before the one at hand are settled, those after it untouched.
TasksOK ==
    /\ pc \in BeforeTasks => \A s \in TaskSlot: TaskFresh(proj, s)
    /\ pc \in InTasks \cup IdePc => \A s \in TaskSlot: s < slot => TaskSettled(proj, s)
    /\ pc \in InTasks => \A s \in TaskSlot: s > slot => TaskFresh(proj, s)
    /\ pc \in {"task", "taskStart"} /\ slot \in TaskSlot => TaskFresh(proj, slot)
    /\ pc = "taskSettle" => act[TaskKey] \notin {"planned", "running"}
    /\ pc \in IdePc => slot \notin TaskSlot

\* A task that halts its project has set the reason.
ReasonOK ==
    /\ pc \in InTasks =>
          \A i \in TaskSlot: i < slot /\ Halting(<<proj, i>>) => halt # "none"
    /\ pc \in TaskPc => halt = "none"

\* Who may be left running: a Codex action whose terminal has opened.
PairOK ==
    /\ pc \in {"terminal", "codex", "terminalStart"} =>
          act[Key(Terminal)] # "running" /\ act[Key(Codex)] # "running"
    /\ pc = "terminalStart" => codexReady = TRUE \/ Key(Terminal) \in TerminalGroup
    /\ pc = "terminalWait" =>
          /\ codexReady = TRUE \/ Key(Terminal) \in keys[Key(Terminal)]
          /\ \A k \in {Key(Terminal), Key(Codex)}:
                act[k] = "running" => k \in keys[Key(Terminal)]
    /\ pc \in {"afterTerminal"} \cup InTasks \cup IdePc =>
          /\ act[Key(Terminal)] # "running"
          /\ act[Key(Codex)] = "running" => act[Key(Terminal)] = "completed"

IdeOK == pc \in ProjectPc \ {"ideWait"} => act[Key(Ide)] # "running"

Present ==
    /\ pc \in StartPc => (proj \in Project => ProjectFresh(proj))
    /\ Dropping
    /\ TasksOK
    /\ ReasonOK
    /\ PairOK
    /\ IdeOK

InLoop == StartPc \cup SkipPc \cup ProjectPc
Unfinished == InLoop \cup {"idle", "finalize", "failTerminate", "failClear", "failFinalize"}

Around ==
    pc \in InLoop => \A p \in Project: /\ p < proj => RowsDone(p)
                                       /\ p > proj => ProjectFresh(p)

RunRowOK ==
    /\ pc \in Unfinished => runRow \notin FinishedRun
    /\ pc = "finalize" => \A r \in RowKey: row[r] # "running"
    /\ FinalizedRunHasNoRunningRow

RowsInv ==
    /\ \A p \in Project: HaltOK(p) /\ RecordOK(p) /\ (rec[p] # "absent" => p < proj)
    /\ pc = "idle" => proj = 1
    /\ pc \in DeadPc => /\ \A l \in LaunchId: keys[l] = {}
                        /\ \A p \in Project: rec[p] = "absent"
    /\ Around
    /\ Present
    /\ RunRowOK

-----------------------------------------------------------------------------
(* Steps that keep to one project *)

\* The keys of a project's actions, launches and rows (RestorePreview).
LEMMA KeysOf ==
    ASSUME NEW p \in Project
    PROVE  /\ \A s \in Slot: <<p, s>> \in ActionKey
           /\ \A s \in TaskSlot: /\ <<p, s>> \in ActionKey
                                 /\ <<p, s>> \in LaunchId
                                 /\ <<p, s>> \in RowKey
           /\ <<p, 0>> \in RowKey
BY SlotKinds DEF ActionKey, LaunchId, RowKey

\* Projects and slots are numbers (RestorePreview).
LEMMA Numbers ==
    /\ Project \subseteq Nat
    /\ TaskSlot \subseteq Nat
    /\ \A s \in TaskSlot: s >= 3 /\ s <= NumTasks + 2
    /\ NumTasks \in Nat
    /\ TypeInv => proj \in Nat /\ slot \in Nat /\ slot >= 3 /\ slot <= NumTasks + 3
BY PlanAssumption DEF Project, TaskSlot, TypeInv, TypeOK

\* Where the runner is between projects, nothing of Present is asked
\* (start_restore_run_with_events).
LEMMA ElsewherePresent == (pc \notin InLoop => Present) /\ (pc' \notin InLoop => Present')
BY DEF InLoop, StartPc, SkipPc, Present, Dropping, TasksOK, ReasonOK, PairOK, IdeOK,
       BeforeTasks, InTasks, IdePc, TaskPc, ProjectPc

OthersStay ==
    \A p \in Project: p # proj =>
        /\ \A s \in Slot: act'[<<p, s>>] = act[<<p, s>>]
        /\ \A s \in TaskSlot: keys'[<<p, s>>] = keys[<<p, s>>]
        /\ \A s \in {0} \cup TaskSlot: row'[<<p, s>>] = row[<<p, s>>]

\* What is said of the other projects stays so (execute_project).
LEMMA OthersKeep ==
    ASSUME OthersStay, plan' = plan, rec' = rec, NEW p \in Project, p # proj
    PROVE  /\ HaltOK(p) => HaltOK(p)'
           /\ RecordOK(p) => RecordOK(p)'
           /\ RowsDone(p) => RowsDone(p)'
           /\ ProjectFresh(p) => ProjectFresh(p)'
<1>1. /\ \A s \in Slot: act'[<<p, s>>] = act[<<p, s>>]
      /\ \A s \in TaskSlot: act'[<<p, s>>] = act[<<p, s>>]
      /\ \A s \in TaskSlot: keys'[<<p, s>>] = keys[<<p, s>>]
      /\ \A s \in TaskSlot: row'[<<p, s>>] = row[<<p, s>>]
      /\ row'[<<p, 0>>] = row[<<p, 0>>]
  BY SlotKinds DEF OthersStay
<1>2. HaltOK(p) => HaltOK(p)'
  BY <1>1 DEF HaltOK, Halting
<1>3. RecordOK(p) => RecordOK(p)'
  BY <1>1 DEF RecordOK
<1>4. RowsDone(p) => RowsDone(p)'
  BY <1>1 DEF RowsDone
<1>5. ProjectFresh(p) => ProjectFresh(p)'
  BY <1>1 DEF ProjectFresh, TaskFresh, PlannedProjectStatus
<1> QED
  BY <1>2, <1>3, <1>4, <1>5

\* A step of the runner at one project, which may end in the failure path
\* (execute_project, build_cancelled_pending_project).
LEMMA WorkStep ==
    ASSUME TypeInv, TypeInv', RowsInv, pc \in InLoop, proj \in Project,
           UNCHANGED <<plan, proj, rec, runRow>>, OthersStay, HaltOK(proj)',
           pc' \in InLoop => Present',
           pc' \in InLoop \cup {"failTerminate", "failDrop"}
    PROVE  RowsInv'
<1> USE DEF RowsInv
<1>1. rec[proj] = "absent"
  BY Numbers
<1>2. \A p \in Project: HaltOK(p)' /\ RecordOK(p)' /\ (rec'[p] # "absent" => p < proj')
  BY <1>1, OthersKeep DEF RecordOK
<1>3. Around'
  BY OthersKeep, Numbers DEF Around
<1>4. Present'
  BY ElsewherePresent
<1>5. RunRowOK'
  <2>1. runRow \notin FinishedRun
    BY DEF RunRowOK, Unfinished
  <2>2. pc' # "finalize"
    BY DEF InLoop, StartPc, SkipPc, ProjectPc
  <2> QED
    BY <2>1, <2>2 DEF RunRowOK, FinalizedRunHasNoRunningRow
<1>6. pc' \notin DeadPc \cup {"idle"}
  BY DEF InLoop, StartPc, SkipPc, ProjectPc, DeadPc
<1> QED
  BY <1>2, <1>3, <1>4, <1>5, <1>6

\* A step that leaves what the rows say as it is, between or after the projects
\* (start_restore_run_with_events, cancel_restore_run).
LEMMA EndStep ==
    ASSUME RowsInv, UNCHANGED <<plan, proj, rec, act, keys, row>>, RunRowOK',
           pc' \notin InLoop \cup DeadPc \cup {"idle"}
    PROVE  RowsInv'
<1>1. \A p \in Project: HaltOK(p)' /\ RecordOK(p)' /\ (rec'[p] # "absent" => p < proj')
  BY DEF RowsInv, HaltOK, RecordOK, Halting
<1>2. Present'
  BY ElsewherePresent
<1> QED
  BY <1>1, <1>2 DEF RowsInv, Around

\* A step beside the runner (cancel_restore_run, cancel_restore_action).
LEMMA BesideStep ==
    ASSUME RowsInv, RunRowOK',
           UNCHANGED <<plan, pc, proj, slot, halt, codexReady, rec, act, keys, row>>
    PROVE  RowsInv'
<1>1. \A p \in Project: HaltOK(p)' /\ RecordOK(p)' /\ (rec'[p] # "absent" => p < proj')
  BY DEF RowsInv, HaltOK, RecordOK, Halting
<1>2. Around'
  BY DEF RowsInv, Around, RowsDone, ProjectFresh, TaskFresh, PlannedProjectStatus
<1>3. Dropping' /\ ReasonOK' /\ IdeOK'
  BY DEF RowsInv, Present, Dropping, ReasonOK, IdeOK, Key, Halting
<1>4. TasksOK'
  BY DEF RowsInv, Present, TasksOK, TaskFresh, TaskSettled, TaskKey, Key
<1>5. PairOK'
  BY DEF RowsInv, Present, PairOK, Key, TerminalGroup
<1>6. Present'
  BY <1>3, <1>4, <1>5 DEF RowsInv, Present, ProjectFresh, TaskFresh, PlannedProjectStatus
<1> QED
  BY <1>1, <1>2, <1>6 DEF RowsInv

-----------------------------------------------------------------------------
(* The start of the run, and the projects it does not execute *)

\* Nothing is stored, reported or launched at first (start_restore_run).
LEMMA RowsInit == Init => RowsInv
<1> SUFFICES ASSUME Init PROVE RowsInv
  OBVIOUS
<1>1. Present
  BY ElsewherePresent DEF Init, InLoop, StartPc, SkipPc, ProjectPc
<1>2. \A p \in Project: HaltOK(p)
  BY KeysOf DEF Init, ChildInit, HaltOK
<1> QED
  BY <1>1, <1>2
     DEF Init, RowsInv, RecordOK, Around, RunRowOK, FinalizedRunHasNoRunningRow,
         FinishedRun, InLoop, StartPc, SkipPc, ProjectPc, DeadPc

\* Insertion stores every project as the plan has it (insert_restore_run_plan).
LEMMA InsertRows == TypeInv /\ AboutToLaunch /\ RowsInv /\ InsertPlan => RowsInv'
<1> SUFFICES ASSUME TypeInv, AboutToLaunch, RowsInv, InsertPlan PROVE RowsInv'
  OBVIOUS
<1>1. /\ act = plan /\ proj = 1 /\ \A l \in LaunchId: keys[l] = {}
      /\ pc' = "inserted" /\ runRow' = "running"
      /\ UNCHANGED <<plan, proj, rec, act, keys>>
  BY DEF AboutToLaunch, InsertPlan, RowsInv
<1>2. \A p \in Project: rec[p] = "absent"
  BY <1>1, Numbers DEF RowsInv, Project
<1>3. \A p \in Project: ProjectFresh(p)'
  <2> SUFFICES ASSUME NEW p \in Project PROVE ProjectFresh(p)'
    OBVIOUS
  <2>1. row'[<<p, 0>>] = PlannedProjectStatus(plan, p)
    BY KeysOf DEF InsertPlan
  <2>2. \A s \in TaskSlot: row'[<<p, s>>] = plan[<<p, s>>]
    <3> SUFFICES ASSUME NEW s \in TaskSlot PROVE row'[<<p, s>>] = plan[<<p, s>>]
      OBVIOUS
    <3>1. <<p, s>> \in RowKey
      BY KeysOf
    <3>2. s # 0
      BY Numbers
    <3> QED
      BY <3>1, <3>2 DEF InsertPlan
  <2>3. row'[<<p, 0>>] = PlannedProjectStatus(plan, p)'
    BY <1>1, <2>1 DEF PlannedProjectStatus
  <2> QED
    BY <1>1, <2>2, <2>3, KeysOf DEF ProjectFresh, TaskFresh
<1>4. \A p \in Project: ~(p < proj')
  BY <1>1, Numbers DEF Project
<1>5. Around' /\ Present'
  BY <1>1, <1>3, <1>4
     DEF Around, Present, Dropping, TasksOK, ReasonOK, PairOK, IdeOK, SkipPc,
         BeforeTasks, InTasks, TaskPc, IdePc, ProjectPc
<1>6. \A p \in Project: HaltOK(p)' /\ RecordOK(p)' /\ (rec'[p] # "absent" => p < proj')
  BY <1>1, <1>2, KeysOf DEF HaltOK, RecordOK
<1>7. RunRowOK'
  BY <1>1 DEF RunRowOK, FinishedRun, FinalizedRunHasNoRunningRow
<1> QED
  BY <1>1, <1>5, <1>6, <1>7 DEF RowsInv, DeadPc

\* A step that reaches a project or gives up (start_restore_run_with_events).
LEMMA ReachStep ==
    ASSUME TypeInv', RowsInv, pc \in StartPc, pc' \in StartPc \cup {"failDrop"},
           UNCHANGED <<plan, proj, rec, act, keys, row, runRow>>
    PROVE  RowsInv'
<1>1. RunRowOK'
  BY DEF RowsInv, RunRowOK, Unfinished, InLoop, StartPc, FinalizedRunHasNoRunningRow
<1>2. CASE pc' = "failDrop"
  BY <1>1, <1>2, EndStep DEF InLoop, StartPc, SkipPc, ProjectPc, DeadPc
<1>3. CASE pc' \in StartPc
  <2>1. \A p \in Project: /\ ProjectFresh(p) => ProjectFresh(p)'
                          /\ RowsDone(p) => RowsDone(p)'
                          /\ HaltOK(p) => HaltOK(p)'
                          /\ RecordOK(p) => RecordOK(p)'
    BY DEF ProjectFresh, TaskFresh, PlannedProjectStatus, RowsDone, HaltOK, Halting,
           RecordOK
  <2>2. Around'
    BY <2>1 DEF RowsInv, Around, InLoop
  <2>3. Present'
    BY <1>3, <2>1
       DEF RowsInv, Present, Dropping, TasksOK, ReasonOK, PairOK, IdeOK, StartPc,
           SkipPc, BeforeTasks, InTasks, TaskPc, IdePc, ProjectPc
  <2> QED
    BY <1>1, <1>3, <2>1, <2>2, <2>3 DEF RowsInv, StartPc, DeadPc
<1> QED
  BY <1>2, <1>3

\* The guard and the registry change no row (ActiveRunGuard::new).
LEMMA StartRows ==
    TypeInv' /\ RowsInv /\ (Activate \/ RegisterActions) => RowsInv'
BY ReachStep DEF Activate, RegisterActions, DbFails, StartPc

\* The runner goes on to the next project with the rows of this one settled and
\* its record in agreement with them (execute_project).
LEMMA NextStep ==
    ASSUME TypeInv, TypeInv', RowsInv, pc \in InLoop, NEW q \in Project, q = proj,
           pc' = "project", proj' = proj + 1, UNCHANGED <<plan, runRow>>,
           OthersStay, \A p \in Project: p # proj => rec'[p] = rec[p],
           RowsDone(q)', HaltOK(q)', RecordOK(q)'
    PROVE  RowsInv'
<1> USE DEF RowsInv
<1>0. proj \in Nat
  BY Numbers
<1>1. \A p \in Project: p # proj =>
          /\ HaltOK(p)'
          /\ RecordOK(p)'
          /\ RowsDone(p) => RowsDone(p)'
          /\ ProjectFresh(p) => ProjectFresh(p)'
  <2> SUFFICES ASSUME NEW p \in Project, p # proj
               PROVE  /\ HaltOK(p)'
                      /\ RecordOK(p)'
                      /\ RowsDone(p) => RowsDone(p)'
                      /\ ProjectFresh(p) => ProjectFresh(p)'
    OBVIOUS
  <2>1. /\ \A s \in Slot: act'[<<p, s>>] = act[<<p, s>>]
        /\ \A s \in TaskSlot: act'[<<p, s>>] = act[<<p, s>>]
        /\ \A s \in TaskSlot: keys'[<<p, s>>] = keys[<<p, s>>]
        /\ \A s \in TaskSlot: row'[<<p, s>>] = row[<<p, s>>]
        /\ row'[<<p, 0>>] = row[<<p, 0>>]
    BY SlotKinds DEF OthersStay
  <2>2. HaltOK(p)' /\ RecordOK(p)'
    BY <2>1 DEF HaltOK, Halting, RecordOK
  <2>3. RowsDone(p) => RowsDone(p)'
    BY <2>1 DEF RowsDone
  <2>4. ProjectFresh(p) => ProjectFresh(p)'
    BY <2>1 DEF ProjectFresh, TaskFresh, PlannedProjectStatus
  <2> QED
    BY <2>2, <2>3, <2>4
<1>2. \A p \in Project: HaltOK(p)' /\ RecordOK(p)'
  BY <1>1
<1>3. \A p \in Project: rec'[p] # "absent" => p < proj'
  BY <1>0, Numbers
<1>4. \A p \in Project: p < proj + 1 => RowsDone(p)'
  <2> SUFFICES ASSUME NEW p \in Project, p < proj + 1 PROVE RowsDone(p)'
    OBVIOUS
  <2>1. CASE p = proj
    BY <2>1
  <2>2. CASE p # proj
    <3>1. p < proj
      BY <1>0, <2>2, Numbers
    <3> QED
      BY <1>1, <2>2, <3>1 DEF Around
  <2> QED
    BY <2>1, <2>2
<1>5. \A p \in Project: p >= proj + 1 => ProjectFresh(p)'
  <2> SUFFICES ASSUME NEW p \in Project, p >= proj + 1 PROVE ProjectFresh(p)'
    OBVIOUS
  <2>1. p > proj /\ p # proj
    BY <1>0, Numbers
  <2> QED
    BY <1>1, <2>1 DEF Around
<1>6. Around'
  BY <1>0, <1>4, <1>5, Numbers DEF Around
<1>7. Present'
  <2>1. proj' \in Project => ProjectFresh(proj)'
    <3> SUFFICES ASSUME NEW p \in Project, p = proj' PROVE ProjectFresh(proj)'
      OBVIOUS
    <3>1. ProjectFresh(p)'
      BY <1>0, <1>5
    <3> QED
      BY <3>1 DEF ProjectFresh, TaskFresh, PlannedProjectStatus
  <2> QED
    BY <2>1
       DEF Present, Dropping, TasksOK, ReasonOK, PairOK, IdeOK, StartPc,
           SkipPc, BeforeTasks, InTasks, TaskPc, IdePc, ProjectPc
<1>8. RunRowOK'
  BY DEF RunRowOK, Unfinished, InLoop, StartPc, FinalizedRunHasNoRunningRow
<1> QED
  BY <1>2, <1>3, <1>6, <1>7, <1>8 DEF DeadPc

\* The plan holds only planned, skipped and blocked actions (build_restore_preview).
LEMMA PlanStatuses ==
    ASSUME TypeInv, NEW p \in Project
    PROVE  /\ \A s \in Slot: plan[<<p, s>>] \in PlanStatus
           /\ \A s \in TaskSlot: plan[<<p, s>>] \in PlanStatus
           /\ PlannedProjectStatus(plan, p) \in PlanStatus
           /\ PlanStatus = {"planned", "skipped", "blocked"}
BY KeysOf DEF TypeInv, TypeOK, PlannedProjectStatus, PlanStatus

\* A step that touches no launch task of the project (execute_terminal_actions).
LEMMA HaltKept ==
    ASSUME NEW p \in Project, HaltOK(p), plan' = plan,
           \A s \in TaskSlot: act'[<<p, s>>] = act[<<p, s>>] /\ keys'[<<p, s>>] = keys[<<p, s>>]
    PROVE  HaltOK(p)'
BY DEF HaltOK, Halting

\* A project that the cancel drops, row by row (build_cancelled_pending_project).
LEMMA SkipRows ==
    TypeInv /\ TypeInv' /\ RowsInv /\ (SkipCancelledProject \/ SkipRow \/ SkipProjectRow)
        => RowsInv'
<1> SUFFICES ASSUME TypeInv, TypeInv', RowsInv,
                    SkipCancelledProject \/ SkipRow \/ SkipProjectRow
             PROVE  RowsInv'
  OBVIOUS
<1> DEFINE q == proj
<1>1. /\ proj \in Project /\ pc \in InLoop
      /\ UNCHANGED <<plan, proj, rec, runRow, act, keys>>
      /\ pc' \in SkipPc \cup {"failDrop"}
  BY ProjectLeft
     DEF SkipCancelledProject, SkipRow, SkipProjectRow, TypeInv, TypeOK, Position,
         LoopPc, InLoop, StartPc, SkipPc, WriteRow, DbFails
<1>2. row' = row \/ \E s \in {0} \cup TaskSlot: row' = [row EXCEPT ![Key(s)] = "skipped"]
  BY DEF SkipCancelledProject, SkipRow, SkipProjectRow, WriteRow
<1>3. OthersStay
  <2> SUFFICES ASSUME NEW p \in Project, p # proj, NEW x \in {0} \cup TaskSlot
               PROVE  row'[<<p, x>>] = row[<<p, x>>]
    BY <1>1 DEF OthersStay
  <2>1. ASSUME NEW s \in {0} \cup TaskSlot, row' = [row EXCEPT ![Key(s)] = "skipped"]
        PROVE  row'[<<p, x>>] = row[<<p, x>>]
    <3>1. <<p, x>> # Key(s)
      BY DEF Key
    <3>2. <<p, x>> \in RowKey /\ row \in [RowKey -> RowStatus]
      BY KeysOf DEF TypeInv, TypeOK
    <3> QED
      BY <2>1, <3>1, <3>2
  <2> QED
    BY <1>2, <2>1
<1>4. HaltOK(proj)'
  BY <1>1 DEF RowsInv, HaltOK, Halting
<1>5. ASSUME pc' \in SkipPc PROVE Dropping'
  <2>1. CASE SkipCancelledProject
    <3>1. ProjectFresh(proj) /\ pc' = "skipRows" /\ slot' = 3
      BY <1>1, <2>1 DEF RowsInv, Present, SkipCancelledProject, StartPc
    <3> QED
      BY <1>1, <3>1, Numbers DEF Dropping, ProjectFresh, TaskFresh, Key
  <2>2. CASE SkipRow
    <3>1. /\ pc' = "skipRows" /\ slot' = slot + 1 /\ slot \in TaskSlot
          /\ row' = [row EXCEPT ![Key(slot)] = "skipped"] /\ pc = "skipRows"
      BY <1>5, <2>2 DEF SkipRow, WriteRow, DbFails, SkipPc
    <3>2. \A s \in TaskSlot: s < slot + 1 => s < slot \/ s = slot
      BY <3>1, Numbers
    <3>3. \A s \in TaskSlot: s < slot' => row'[Key(s)] = "skipped"
      <4>1. /\ row \in [RowKey -> RowStatus]
            /\ \A s \in TaskSlot: Key(s) \in RowKey
            /\ \A s \in TaskSlot: s < slot => row[Key(s)] = "skipped"
        BY <1>1, <3>1, KeysOf DEF TypeInv, TypeOK, Key, RowsInv, Present, Dropping, SkipPc
      <4> QED
        BY <3>1, <3>2, <4>1
    <3>4. \A s \in TaskSlot: act[Key(s)] = plan[Key(s)] /\ keys[Key(s)] = {}
      BY <3>1 DEF RowsInv, Present, Dropping, SkipPc
    <3> QED
      BY <1>1, <3>1, <3>3, <3>4 DEF Dropping, Key
  <2>3. CASE SkipProjectRow
    <3>1. /\ pc' = "skipProject" /\ slot' = slot /\ slot \notin TaskSlot
          /\ row' = [row EXCEPT ![Key(0)] = "skipped"] /\ pc = "skipRows"
      BY <1>5, <2>3 DEF SkipProjectRow, WriteRow, DbFails, SkipPc
    <3>2. row'[Key(0)] = "skipped"
      BY <1>1, <3>1, KeysOf DEF TypeInv, TypeOK, Key
    <3>3. \A s \in TaskSlot: s # 0 /\ row'[Key(s)] = row[Key(s)]
      BY <3>1, Numbers DEF Key
    <3> QED
      BY <1>1, <3>1, <3>2, <3>3 DEF RowsInv, Present, Dropping, SkipPc, Key
  <2> QED
    BY <2>1, <2>2, <2>3
<1>6. pc' \in InLoop => Present'
  <2> SUFFICES ASSUME pc' \in SkipPc PROVE Present'
    BY <1>1 DEF InLoop, StartPc, ProjectPc
  <2> QED
    BY <1>5 DEF Present, TasksOK, ReasonOK, PairOK, IdeOK, StartPc, SkipPc, BeforeTasks,
       InTasks, TaskPc, IdePc, ProjectPc
<1> QED
  BY <1>1, <1>3, <1>4, <1>6, WorkStep DEF InLoop

\* Its record says what the rows say (build_cancelled_pending_project).
LEMMA RecordSkippedRows ==
    TypeInv /\ TypeInv' /\ RowsInv /\ RecordSkipped => RowsInv'
<1> SUFFICES ASSUME TypeInv, TypeInv', RowsInv, RecordSkipped PROVE RowsInv'
  OBVIOUS
<1> PICK q \in Project: q = proj
  BY DEF TypeInv, Position, LoopPc, RecordSkipped
<1>1. /\ pc = "skipProject" /\ pc' = "project" /\ proj' = proj + 1
      /\ UNCHANGED <<plan, runRow, row, keys>>
      /\ act' = Marked(act, PlannedOf(q), "skipped")
      /\ rec' = [rec EXCEPT ![q] = "skipped"]
  BY DEF RecordSkipped
<1>2. \A k \in ActionKey: act'[k] = IF k[1] = q /\ act[k] = "planned" THEN "skipped" ELSE act[k]
  BY <1>1 DEF Marked, PlannedOf
<1>3. OthersStay
  BY <1>1, <1>2, KeysOf DEF OthersStay
<1>4. /\ row[<<q, 0>>] = "skipped"
      /\ \A s \in TaskSlot: row[<<q, s>>] = "skipped" /\ act[<<q, s>>] = plan[<<q, s>>]
  <2>1. \A s \in TaskSlot: s < slot
    BY <1>1, Numbers, PlanAssumption DEF RowsInv, Present, Dropping, TaskSlot
  <2> QED
    BY <1>1, <2>1 DEF RowsInv, Present, Dropping, SkipPc, Key
<1>5. RowsDone(q)'
  BY <1>1, <1>4 DEF RowsDone
<1>6. HaltOK(q)'
  <2>1. \A s \in TaskSlot: Halting(<<q, s>>)' => Halting(<<q, s>>)
    BY <1>1, <1>2, KeysOf DEF Halting, ErrorStatus
  <2> QED
    BY <1>1, <2>1 DEF RowsInv, HaltOK
<1>7. RecordOK(q)'
  <2>1. \A s \in TaskSlot: plan[<<q, s>>] = "planned" => act'[<<q, s>>] = "skipped"
    BY <1>2, <1>4, KeysOf
  <2>2. rec'[q] = "skipped"
    BY <1>1 DEF TypeInv, TypeOK
  <2> QED
    BY <1>1, <1>4, <2>1, <2>2 DEF RecordOK
<1>8. \A p \in Project: p # proj => rec'[p] = rec[p]
  BY <1>1
<1> QED
  BY <1>1, <1>3, <1>5, <1>6, <1>7, <1>8, NextStep DEF InLoop, SkipPc

\* A project the plan blocked or skipped is recorded as stored (execute_project).
LEMMA UnplannedRows ==
    TypeInv /\ TypeInv' /\ RowsInv /\ RecordUnplanned => RowsInv'
<1> SUFFICES ASSUME TypeInv, TypeInv', RowsInv, RecordUnplanned PROVE RowsInv'
  OBVIOUS
<1> PICK q \in Project: q = proj
  BY ProjectLeft DEF RecordUnplanned, TypeInv, TypeOK
<1>1. /\ pc = "project" /\ pc' = "project" /\ proj' = proj + 1
      /\ UNCHANGED <<plan, runRow, row, keys, act>>
      /\ rec' = [rec EXCEPT ![q] = PlannedProjectStatus(plan, q)]
      /\ PlannedProjectStatus(plan, q) # "planned"
  BY DEF RecordUnplanned
<1>2. OthersStay
  BY <1>1 DEF OthersStay
<1>3. ProjectFresh(q)
  BY <1>1 DEF RowsInv, Present, StartPc
<1>4. RowsDone(q)'
  BY <1>1, <1>3, PlanStatuses DEF RowsDone, ProjectFresh, TaskFresh
<1>5. HaltOK(q)'
  BY <1>1, HaltKept DEF RowsInv
<1>6. RecordOK(q)'
  <2>1. rec'[q] = PlannedProjectStatus(plan, q)
    BY <1>1 DEF TypeInv, TypeOK
  <2> QED
    BY <1>1, <1>3, <2>1 DEF RecordOK, ProjectFresh, TaskFresh
<1>7. \A p \in Project: p # proj => rec'[p] = rec[p]
  BY <1>1
<1> QED
  BY <1>1, <1>2, <1>4, <1>5, <1>6, <1>7, NextStep DEF InLoop, StartPc

-----------------------------------------------------------------------------
(* The terminal and the Codex action *)

\* An executed project begins with its tasks as the plan has them
\* (execute_project).
LEMMA StartProjectRows ==
    TypeInv /\ TypeInv' /\ RowsInv /\ StartProject => RowsInv'
<1> SUFFICES ASSUME TypeInv, TypeInv', RowsInv, StartProject PROVE RowsInv'
  OBVIOUS
<1>1. /\ proj \in Project /\ pc = "project" /\ pc' \in {"terminal", "failTerminate"}
      /\ UNCHANGED <<plan, proj, rec, runRow, act, keys, slot>>
      /\ row' \in {row, [row EXCEPT ![Key(0)] = "running"]}
  BY ProjectLeft DEF StartProject, WriteProjectRow, WriteRow, DbFails, TypeInv, TypeOK
<1>2. \A p \in Project: \A s \in TaskSlot: row'[<<p, s>>] = row[<<p, s>>]
  <2> SUFFICES ASSUME NEW p \in Project, NEW s \in TaskSlot
               PROVE  row'[<<p, s>>] = row[<<p, s>>]
    OBVIOUS
  <2>1. s # 0
    BY Numbers
  <2>2. <<p, s>> # Key(0)
    BY <2>1 DEF Key
  <2> QED
    BY <1>1, <2>2, KeysOf DEF TypeInv, TypeOK
<1>3. \A p \in Project: p # proj => row'[<<p, 0>>] = row[<<p, 0>>]
  BY <1>1, KeysOf DEF Key, TypeInv, TypeOK
<1>4. OthersStay
  BY <1>1, <1>2, <1>3 DEF OthersStay
<1>5. HaltOK(proj)'
  BY <1>1 DEF RowsInv, HaltOK, Halting
<1>6. ProjectFresh(proj)
  BY <1>1 DEF RowsInv, Present, StartPc
<1>7. pc' = "terminal" => \A s \in TaskSlot: TaskFresh(proj, s)'
  BY <1>1, <1>2, <1>6 DEF ProjectFresh, TaskFresh
<1>8. act'[Key(Terminal)] # "running" /\ act'[Key(Codex)] # "running"
      /\ act'[Key(Ide)] # "running"
  BY <1>1, <1>6, PlanStatuses, SlotKinds DEF ProjectFresh, Key
<1>9. pc' \in InLoop => Present'
  <2> SUFFICES ASSUME pc' = "terminal" PROVE Present'
    BY <1>1 DEF InLoop, StartPc, SkipPc, ProjectPc
  <2>1. TasksOK'
    BY <1>7 DEF TasksOK, BeforeTasks, InTasks, TaskPc, IdePc
  <2>2. PairOK' /\ IdeOK'
    BY <1>1, <1>8 DEF PairOK, IdeOK, InTasks, TaskPc, IdePc, Key
  <2> QED
    BY <2>1, <2>2 DEF Present, Dropping, ReasonOK, StartPc, SkipPc, InTasks, TaskPc
<1> QED
  BY <1>1, <1>4, <1>5, <1>9, WorkStep DEF InLoop, StartPc, ProjectPc

\* A step of the terminal and the Codex action leaves everything else alone
\* (execute_terminal_actions).
LEMMA PairStep ==
    ASSUME TypeInv, TypeInv', RowsInv,
           pc \in {"terminal", "codex", "terminalStart", "terminalWait"},
           pc' \in BeforeTasks, UNCHANGED <<plan, proj, rec, runRow, row>>,
           \A k \in ActionKey: k \notin {Key(Terminal), Key(Codex)} => act'[k] = act[k],
           \A l \in LaunchId: l # Key(Terminal) => keys'[l] = keys[l],
           PairOK'
    PROVE  RowsInv'
<1>1. proj \in Project /\ pc \in InLoop
  BY DEF TypeInv, Position, LoopPc, ProjectPc, InLoop
<1>2. \A s \in TaskSlot: /\ act'[<<proj, s>>] = act[<<proj, s>>]
                         /\ keys'[<<proj, s>>] = keys[<<proj, s>>]
  BY <1>1, KeysOf, SlotKinds DEF Key
<1>3. OthersStay
  BY <1>1, KeysOf, SlotKinds DEF OthersStay, Key
<1>4. HaltOK(proj)'
  BY <1>1, <1>2 DEF RowsInv, HaltOK, Halting
<1>5. TasksOK'
  <2>1. \A s \in TaskSlot: TaskFresh(proj, s)
    BY DEF RowsInv, Present, TasksOK, BeforeTasks
  <2> QED
    BY <1>2, <2>1 DEF TasksOK, TaskFresh, BeforeTasks, InTasks, TaskPc, IdePc
<1>6. IdeOK'
  <2>1. act'[Key(Ide)] = act[Key(Ide)] /\ Key(Ide)' = Key(Ide)
    BY <1>1, CurrentKeys, SlotKinds DEF Key
  <2>2. act[Key(Ide)] # "running"
    BY DEF RowsInv, Present, IdeOK, ProjectPc
  <2> QED
    BY <2>1, <2>2 DEF IdeOK
<1>7. Present'
  BY <1>5, <1>6 DEF Present, Dropping, ReasonOK, StartPc, SkipPc, InTasks, TaskPc, BeforeTasks
<1>8. pc' \in InLoop
  BY DEF BeforeTasks, InLoop, ProjectPc
<1> QED
  BY <1>1, <1>3, <1>4, <1>7, <1>8, WorkStep

\* Nothing is launched while the group is put together (execute_terminal_actions).
LEMMA GroupRows ==
    TypeInv /\ TypeInv' /\ RowsInv
    /\ (\/ TerminalCancelled \/ TerminalWanted \/ CodexCancelled \/ NothingToOpen
        \/ TerminalUnavailable \/ CodexUnavailable \/ TerminalUsable)
        => RowsInv'
<1> SUFFICES ASSUME TypeInv, TypeInv', RowsInv,
                    \/ TerminalCancelled \/ TerminalWanted \/ CodexCancelled \/ NothingToOpen
                    \/ TerminalUnavailable \/ CodexUnavailable \/ TerminalUsable
             PROVE  RowsInv'
  OBVIOUS
<1> DEFINE T == Key(Terminal)
           C == Key(Codex)
<1>1. /\ pc \in {"terminal", "codex"}
      /\ pc' \in {"codex", "terminalStart", "afterTerminal"}
      /\ UNCHANGED <<plan, proj, rec, runRow, row, keys>>
  BY DEF TerminalCancelled, TerminalWanted, CodexCancelled, NothingToOpen,
     TerminalUnavailable, CodexUnavailable, TerminalUsable, AtWantedPair
<1>2. proj \in Project /\ T \in ActionKey /\ C \in ActionKey /\ T # C
  BY <1>1, CurrentKeys, SlotKinds DEF TypeInv, Position, LoopPc, ProjectPc, Key
<1>3. act[T] # "running" /\ act[C] # "running"
  BY <1>1 DEF RowsInv, Present, PairOK
<1>4. /\ \A k \in ActionKey: act'[k] # act[k] =>
            k \in PlannedPair /\ act'[k] \in {"cancelled", "skipped", "blocked", "failed"}
      /\ pc' = "terminalStart" => codexReady' = TRUE \/ act'[T] = "planned"
  <2>1. CASE TerminalCancelled
    BY <2>1 DEF TerminalCancelled
  <2>2. CASE TerminalWanted \/ NothingToOpen
    BY <2>2 DEF TerminalWanted, NothingToOpen
  <2>3. CASE CodexCancelled
    BY <2>3 DEF CodexCancelled, MarkAndSync, Marked
  <2>4. CASE TerminalUnavailable
    BY <2>4 DEF TerminalUnavailable, MarkAndSync, Marked, ErrorStatus
  <2>5. CASE CodexUnavailable
    BY <1>2, <2>5 DEF CodexUnavailable, MarkAndSync, Marked, ErrorStatus, PlannedPair
  <2>6. CASE TerminalUsable
    <3>1. act' = act /\ PlannedPair # {} /\ codexReady' = (C \in PlannedPair)
      BY <2>6 DEF TerminalUsable, AtWantedPair
    <3>2. C \notin PlannedPair => act[T] = "planned"
      BY <3>1 DEF PlannedPair
    <3> QED
      BY <3>1, <3>2
  <2> QED
    BY <2>1, <2>2, <2>3, <2>4, <2>5, <2>6
<1>5. PlannedPair \subseteq {T, C}
  BY DEF PlannedPair
<1>6. act'[T] # "running" /\ act'[C] # "running"
  BY <1>2, <1>3, <1>4
<1>7. pc' = "terminalStart" => codexReady' = TRUE \/ T \in TerminalGroup'
  BY <1>1, <1>4 DEF TerminalGroup, Key
<1>8. PairOK'
  BY <1>1, <1>6, <1>7 DEF PairOK, Key, InTasks, TaskPc, IdePc
<1>9. \A k \in ActionKey: k \notin {T, C} => act'[k] = act[k]
  BY <1>4, <1>5
<1> QED
  BY <1>1, <1>8, <1>9, PairStep DEF BeforeTasks

\* The launch of the group, and its answer (execute_terminal_actions).
LEMMA TerminalRows ==
    TypeInv /\ TypeInv' /\ ServesItsOwn /\ RowsInv /\ (TerminalStart \/ TerminalWait) => RowsInv'
<1> SUFFICES ASSUME TypeInv, TypeInv', ServesItsOwn, RowsInv, TerminalStart \/ TerminalWait
             PROVE  RowsInv'
  OBVIOUS
<1> DEFINE T == Key(Terminal)
           C == Key(Codex)
<1>1. /\ pc \in {"terminalStart", "terminalWait"}
      /\ UNCHANGED <<plan, proj, rec, runRow, row, codexReady>>
  BY DEF TerminalStart, TerminalWait
<1>2. proj \in Project /\ T \in ActionKey /\ C \in ActionKey /\ T # C /\ T \in LaunchId
  BY <1>1, CurrentKeys, SlotKinds DEF TypeInv, Position, LoopPc, ProjectPc, Key
<1>3. Key(Terminal)' = T /\ Key(Codex)' = C
  BY <1>1 DEF Key
<1>4. CASE TerminalStart
  <2>1. /\ pc = "terminalStart" /\ pc' = "terminalWait"
        /\ act' = Marked(act, TerminalGroup, "running")
        /\ keys' = [keys EXCEPT ![T] = TerminalGroup]
    BY <1>4 DEF TerminalStart, MarkAndSync, Launch
  <2>2. TerminalGroup \subseteq {T, C}
    BY DEF TerminalGroup
  <2>3. keys'[T] = TerminalGroup /\ \A l \in LaunchId: l # T => keys'[l] = keys[l]
    BY <1>2, <2>1 DEF TypeInv, TypeOK, ChildTypeOK
  <2>4. \A k \in ActionKey: k \notin TerminalGroup => act'[k] = act[k]
    BY <2>1 DEF Marked
  <2>5. /\ codexReady = TRUE \/ T \in TerminalGroup
        /\ act[T] # "running" /\ act[C] # "running"
    BY <2>1 DEF RowsInv, Present, PairOK
  <2>6. PairOK'
    BY <1>1, <1>2, <1>3, <2>1, <2>3, <2>4, <2>5 DEF PairOK, InTasks, TaskPc, IdePc
  <2> QED
    BY <1>1, <2>1, <2>2, <2>3, <2>4, <2>6, PairStep DEF BeforeTasks
<1>5. CASE TerminalWait
  <2> DEFINE group == keys[T]
  <2>1. /\ pc = "terminalWait" /\ pc' = "afterTerminal" /\ keys' = keys
    BY <1>5 DEF TerminalWait
  <2>2. PICK o \in Outcomes(T):
          act' = IF o = "ok"
                 THEN Marked(act, IF codexReady THEN group ELSE group \ {C}, "completed")
                 ELSE Marked(act, group, o)
    BY <1>5 DEF TerminalWait, MarkAndSync
  <2>3. o \in {"ok", "failed", "cancelled"}
    BY <1>2, <2>2 DEF Outcomes, TypeInv, TypeOK, ChildTypeOK, DoneHasResult, ResultState
  <2>4. /\ codexReady = TRUE \/ T \in group
        /\ act[T] = "running" => T \in group
        /\ act[C] = "running" => C \in group
    BY <2>1 DEF RowsInv, Present, PairOK
  <2>5. \A k \in ActionKey: k \notin group => act'[k] = act[k]
    BY <2>2 DEF Marked
  <2>6. act'[T] # "running" /\ (act'[C] = "running" => act'[T] = "completed")
    <3>1. CASE o = "ok" /\ codexReady = TRUE
      BY <1>2, <2>2, <2>4, <3>1 DEF Marked
    <3>2. CASE o = "ok" /\ codexReady # TRUE
      <4>1. act' = Marked(act, group \ {C}, "completed") /\ T \in group
        BY <2>2, <2>4, <3>2
      <4> QED
        BY <1>2, <4>1 DEF Marked
    <3>3. CASE o # "ok"
      BY <1>2, <2>2, <2>3, <2>4, <3>3 DEF Marked
    <3> QED
      BY <3>1, <3>2, <3>3
  <2>7. PairOK'
    BY <1>3, <2>1, <2>6 DEF PairOK, InTasks, TaskPc, IdePc
  <2>8. group \subseteq {T, C}
    BY <1>2 DEF ServesItsOwn, Served, Key
  <2> QED
    BY <1>1, <2>1, <2>5, <2>7, <2>8, PairStep DEF BeforeTasks
<1> QED
  BY <1>4, <1>5

-----------------------------------------------------------------------------
(* The launch tasks *)

OnlyTask ==
    /\ \A k \in ActionKey: k # TaskKey => act'[k] = act[k]
    /\ \A l \in LaunchId: l # TaskKey => keys'[l] = keys[l]
    /\ \A r \in RowKey: r # TaskKey => row'[r] = row[r]

\* The loop over the tasks touches the one at hand (execute_launch_task_actions).
LEMMA OnlyTaskKeeps ==
    ASSUME OnlyTask, proj \in Project, slot \in TaskSlot, proj' = proj
    PROVE  /\ OthersStay
           /\ \A s \in TaskSlot: s # slot =>
                 /\ act'[<<proj, s>>] = act[<<proj, s>>]
                 /\ keys'[<<proj, s>>] = keys[<<proj, s>>]
                 /\ row'[<<proj, s>>] = row[<<proj, s>>]
           /\ act'[Key(Terminal)] = act[Key(Terminal)]
           /\ act'[Key(Codex)] = act[Key(Codex)]
           /\ act'[Key(Ide)] = act[Key(Ide)]
           /\ \A s: Key(s)' = Key(s)
<1>1. OthersStay
  <2> SUFFICES ASSUME NEW p \in Project, p # proj
               PROVE  /\ \A s \in Slot: act'[<<p, s>>] = act[<<p, s>>]
                      /\ \A s \in TaskSlot: keys'[<<p, s>>] = keys[<<p, s>>]
                      /\ \A s \in {0} \cup TaskSlot: row'[<<p, s>>] = row[<<p, s>>]
    BY DEF OthersStay
  <2>1. \A s: <<p, s>> # TaskKey
    BY DEF TaskKey, Key
  <2> QED
    BY <2>1, KeysOf DEF OnlyTask
<1>2. \A s \in TaskSlot: s # slot =>
         /\ act'[<<proj, s>>] = act[<<proj, s>>]
         /\ keys'[<<proj, s>>] = keys[<<proj, s>>]
         /\ row'[<<proj, s>>] = row[<<proj, s>>]
  BY KeysOf DEF OnlyTask, TaskKey, Key
<1>3. /\ act'[Key(Terminal)] = act[Key(Terminal)]
      /\ act'[Key(Codex)] = act[Key(Codex)]
      /\ act'[Key(Ide)] = act[Key(Ide)]
  <2>1. /\ Key(Terminal) # TaskKey /\ Key(Codex) # TaskKey /\ Key(Ide) # TaskKey
        /\ Key(Terminal) \in ActionKey /\ Key(Codex) \in ActionKey /\ Key(Ide) \in ActionKey
    BY SlotKinds, CurrentKeys DEF TaskKey, Key
  <2> QED
    BY <2>1 DEF OnlyTask
<1> QED
  BY <1>1, <1>2, <1>3 DEF Key

\* Nothing after a task that halts its project is launched: what comes later has not
\* been launched, and the one at hand is only while there is no reason to halt
\* (execute_launch_task_actions).
LEMMA TaskHalt ==
    ASSUME TypeInv, RowsInv, pc \in InTasks, proj \in Project, slot \in TaskSlot,
           OnlyTask, UNCHANGED <<plan, proj>>,
           keys' = keys \/ halt = "none"
    PROVE  HaltOK(proj)'
<1> SUFFICES ASSUME NEW i \in TaskSlot, NEW j \in TaskSlot, i < j, Halting(<<proj, i>>)'
             PROVE  keys'[<<proj, j>>] = {}
  BY DEF HaltOK
<1>1. HaltOK(proj)
  BY DEF RowsInv
<1>2. \A s \in TaskSlot: s > slot => keys[<<proj, s>>] = {}
  BY DEF RowsInv, Present, TasksOK, TaskFresh
<1>3. i # slot => Halting(<<proj, i>>)
  BY OnlyTaskKeeps DEF Halting
<1>4. CASE i = slot
  <2>1. j > slot /\ j # slot
    BY <1>4, Numbers
  <2> QED
    BY <1>2, <2>1, OnlyTaskKeeps
<1>5. CASE i # slot /\ j # slot
  BY <1>1, <1>3, <1>5, OnlyTaskKeeps DEF HaltOK
<1>6. CASE i # slot /\ j = slot
  <2>1. Halting(<<proj, i>>) /\ i < slot
    BY <1>3, <1>6
  <2>2. halt # "none"
    BY <2>1 DEF RowsInv, Present, ReasonOK
  <2>3. keys' = keys
    BY <2>2
  <2> QED
    BY <1>1, <2>1, <2>3, <1>6 DEF HaltOK
<1> QED
  BY <1>4, <1>5, <1>6

\* A step that stays at the task, or fails there (execute_launch_task_actions).
LEMMA TaskStays ==
    ASSUME TypeInv, TypeInv', RowsInv, pc \in InTasks, slot \in TaskSlot,
           pc' \in TaskPc \cup {"failTerminate"},
           UNCHANGED <<plan, proj, rec, runRow, slot, halt>>,
           OnlyTask, halt = "none",
           pc' = "taskStart" => TaskFresh(proj, slot)',
           pc' = "taskSettle" => act'[TaskKey] \notin {"planned", "running"}
    PROVE  RowsInv'
<1>1. proj \in Project /\ pc \in InLoop
  BY DEF TypeInv, Position, LoopPc, ProjectPc, InLoop, InTasks, TaskPc
<1>2. OthersStay
  BY <1>1, OnlyTaskKeeps
<1>3. HaltOK(proj)'
  BY <1>1, TaskHalt
<1>4. ASSUME pc' \in TaskPc PROVE Present'
  <2>1. TasksOK'
    <3>1. \A s \in TaskSlot: s < slot => TaskSettled(proj, s)'
      <4> SUFFICES ASSUME NEW s \in TaskSlot, s < slot PROVE TaskSettled(proj, s)'
        OBVIOUS
      <4>1. TaskSettled(proj, s)
        BY DEF RowsInv, Present, TasksOK
      <4>2. s # slot
        BY Numbers
      <4> QED
        BY <1>1, <4>1, <4>2, OnlyTaskKeeps DEF TaskSettled
    <3>2. \A s \in TaskSlot: s > slot => TaskFresh(proj, s)'
      <4> SUFFICES ASSUME NEW s \in TaskSlot, s > slot PROVE TaskFresh(proj, s)'
        OBVIOUS
      <4>1. TaskFresh(proj, s)
        BY DEF RowsInv, Present, TasksOK
      <4>2. s # slot
        BY Numbers
      <4> QED
        BY <1>1, <4>1, <4>2, OnlyTaskKeeps DEF TaskFresh
    <3>3. TaskKey' = TaskKey
      BY DEF TaskKey, Key
    <3>4. pc' = "taskStart" => TaskFresh(proj, slot)'
      OBVIOUS
    <3>5. /\ pc' \notin BeforeTasks \cup IdePc
          /\ pc' \in {"task", "taskStart"} => pc' = "taskStart"
      BY <1>4 DEF BeforeTasks, IdePc, TaskPc
    <3> QED
      BY <3>1, <3>2, <3>3, <3>4, <3>5 DEF TasksOK
  <2>2. ReasonOK'
    <3> SUFFICES ASSUME NEW i \in TaskSlot, i < slot, Halting(<<proj, i>>)' PROVE FALSE
      BY DEF ReasonOK
    <3>1. i # slot
      BY Numbers
    <3>2. Halting(<<proj, i>>)
      BY <1>1, <3>1, OnlyTaskKeeps DEF Halting
    <3> QED
      BY <3>2 DEF RowsInv, Present, ReasonOK
  <2>3. PairOK'
    BY <1>1, <1>4, OnlyTaskKeeps
       DEF RowsInv, Present, PairOK, TaskPc, InTasks
  <2>4. IdeOK'
    <3>1. act[Key(Ide)] # "running"
      BY DEF RowsInv, Present, IdeOK, ProjectPc, InTasks, TaskPc
    <3> QED
      BY <1>1, <3>1, OnlyTaskKeeps DEF IdeOK
  <2> QED
    BY <1>4, <2>1, <2>2, <2>3, <2>4 DEF Present, Dropping, StartPc, SkipPc, TaskPc
<1>5. pc' \in InLoop \cup {"failTerminate"}
  BY DEF InLoop, ProjectPc, TaskPc
<1>6. pc' \in InLoop => pc' \in TaskPc
  BY DEF InLoop, StartPc, SkipPc, ProjectPc, TaskPc
<1> QED
  BY <1>1, <1>2, <1>3, <1>4, <1>5, <1>6, WorkStep

\* A step that leaves the task settled and goes on, or fails there
\* (execute_launch_task_actions).
LEMMA TaskPasses ==
    ASSUME TypeInv, TypeInv', RowsInv, pc \in InTasks, slot \in TaskSlot,
           pc' \in {"task", "failTerminate"},
           UNCHANGED <<plan, proj, rec, runRow, keys>>, OnlyTask,
           NEW q, q = slot, slot' \in {q, q + 1},
           pc' = "task" => /\ slot' = q + 1
                           /\ TaskSettled(proj, q)'
                           /\ Halting(<<proj, q>>)' => halt' # "none"
                           /\ halt # "none" => halt' # "none"
    PROVE  RowsInv'
<1>1. proj \in Project /\ pc \in InLoop
  BY DEF TypeInv, Position, LoopPc, ProjectPc, InLoop, InTasks, TaskPc
<1>2. OthersStay
  BY <1>1, OnlyTaskKeeps
<1>3. HaltOK(proj)'
  BY <1>1, TaskHalt
<1>4. ASSUME pc' = "task" PROVE Present'
  <2>1. TasksOK'
    <3>1. \A s \in TaskSlot: s < slot' => TaskSettled(proj, s)'
      <4> SUFFICES ASSUME NEW s \in TaskSlot, s < slot' PROVE TaskSettled(proj, s)'
        OBVIOUS
      <4>1. CASE s = q
        BY <1>4, <4>1
      <4>2. CASE s # q
        <5>1. s < slot
          BY <1>4, <4>2, Numbers
        <5>2. TaskSettled(proj, s)
          BY <5>1 DEF RowsInv, Present, TasksOK
        <5> QED
          BY <1>1, <4>2, <5>2, OnlyTaskKeeps DEF TaskSettled
      <4> QED
        BY <4>1, <4>2
    <3>2. \A s \in TaskSlot: s >= slot' => TaskFresh(proj, s)'
      <4> SUFFICES ASSUME NEW s \in TaskSlot, s >= slot' PROVE TaskFresh(proj, s)'
        OBVIOUS
      <4>1. s > slot /\ s # slot
        BY <1>4, Numbers
      <4>2. TaskFresh(proj, s)
        BY <4>1 DEF RowsInv, Present, TasksOK
      <4> QED
        BY <1>1, <4>1, <4>2, OnlyTaskKeeps DEF TaskFresh
    <3>3. slot' \in TaskSlot => TaskFresh(proj, slot)'
      <4> SUFFICES ASSUME NEW s \in TaskSlot, s = slot' PROVE TaskFresh(proj, slot)'
        OBVIOUS
      <4>1. TaskFresh(proj, s)'
        BY <3>2, Numbers
      <4> QED
        BY <4>1 DEF TaskFresh
    <3>4. \A s \in TaskSlot: s > slot' => TaskFresh(proj, s)'
      BY <1>4, <3>2, Numbers
    <3> QED
      BY <1>4, <3>1, <3>3, <3>4 DEF TasksOK, BeforeTasks, IdePc
  <2>2. ReasonOK'
    <3> SUFFICES ASSUME NEW i \in TaskSlot, i < slot', Halting(<<proj, i>>)'
                 PROVE  halt' # "none"
      BY <1>4 DEF ReasonOK, TaskPc
    <3>1. CASE i = q
      BY <1>4, <3>1
    <3>2. CASE i # q
      <4>1. i < slot
        BY <1>4, <3>2, Numbers
      <4>2. Halting(<<proj, i>>)
        BY <1>1, <3>2, OnlyTaskKeeps DEF Halting
      <4> QED
        BY <1>4, <4>1, <4>2 DEF RowsInv, Present, ReasonOK
    <3> QED
      BY <3>1, <3>2
  <2>3. PairOK'
    BY <1>1, <1>4, OnlyTaskKeeps
       DEF RowsInv, Present, PairOK, TaskPc, InTasks
  <2>4. IdeOK'
    <3>1. act[Key(Ide)] # "running"
      BY DEF RowsInv, Present, IdeOK, ProjectPc, InTasks, TaskPc
    <3> QED
      BY <1>1, <3>1, OnlyTaskKeeps DEF IdeOK
  <2> QED
    BY <1>4, <2>1, <2>2, <2>3, <2>4 DEF Present, Dropping, StartPc, SkipPc
<1>5. /\ pc' \in InLoop \cup {"failTerminate"}
      /\ pc' \in InLoop => pc' = "task"
  BY DEF InLoop, StartPc, SkipPc, ProjectPc
<1> QED
  BY <1>1, <1>2, <1>3, <1>4, <1>5, WorkStep

\* A task on its way to its launch, at it, or failing to be stored
\* (execute_launch_task_actions, execute_launch_task).
LEMMA TaskWorkRows ==
    TypeInv /\ TypeInv' /\ RowsInv
    /\ (\/ ChooseTask \/ StartTask \/ LaunchTask \/ TaskWait
        \/ SettleTask /\ pc' = "failTerminate")
        => RowsInv'
<1> SUFFICES ASSUME TypeInv, TypeInv', RowsInv,
                    \/ ChooseTask \/ StartTask \/ LaunchTask \/ TaskWait
                    \/ SettleTask /\ pc' = "failTerminate"
             PROVE  RowsInv'
  OBVIOUS
<1> DEFINE t == TaskKey
<1>1. /\ UNCHANGED <<plan, proj, rec, runRow, slot>>
      /\ pc \in InTasks /\ pc' \in TaskPc \cup {"failTerminate"}
      /\ slot \in TaskSlot /\ proj \in Project /\ halt = "none"
      /\ halt' = halt
  <2>1. CASE ChooseTask
    BY <2>1 DEF ChooseTask, AtPlannedTask, HaltSeen, InTasks, TaskPc, TypeInv, Position,
       LoopPc, ProjectPc
  <2>2. CASE StartTask
    BY <2>2 DEF StartTask, WriteProjectRow, WriteRow, DbFails, InTasks, TaskPc, TypeInv,
       Position, LoopPc, ProjectPc, RowsInv, Present, ReasonOK
  <2>3. CASE LaunchTask \/ TaskWait
    BY <2>3 DEF LaunchTask, TaskWait, InTasks, TaskPc, TypeInv, Position, LoopPc,
       ProjectPc, RowsInv, Present, ReasonOK
  <2>4. CASE SettleTask /\ pc' = "failTerminate"
    BY <2>4 DEF SettleTask, DbFails, InTasks, TaskPc, TypeInv, Position, LoopPc, ProjectPc,
       RowsInv, Present, ReasonOK
  <2> QED
    BY <2>1, <2>2, <2>3, <2>4
<1>2. t \in ActionKey /\ t \in LaunchId /\ t \in RowKey
  BY <1>1, CurrentKeys
<1>3. OnlyTask /\ (pc' = "taskSettle" => act'[t] \notin {"planned", "running"})
  <2> USE DEF TypeInv, TypeOK, ChildTypeOK
  <2>1. CASE ChooseTask
    BY <2>1 DEF ChooseTask, OnlyTask
  <2>2. CASE StartTask
    BY <1>2, <2>2 DEF StartTask, OnlyTask, MarkAndSync, Marked, WriteProjectRow, WriteRow, DbFails
  <2>3. CASE LaunchTask
    BY <1>2, <2>3 DEF LaunchTask, OnlyTask, Marked, Launch, ErrorStatus
  <2>4. CASE TaskWait
    <3>1. PICK o \in Outcomes(t): act' = Marked(act, {t}, IF o = "ok" THEN "completed" ELSE o)
      BY <2>4 DEF TaskWait
    <3>2. o \in {"ok", "failed", "cancelled"}
      BY <1>2, <3>1 DEF Outcomes, DoneHasResult, ResultState
    <3> QED
      BY <1>2, <2>4, <3>1, <3>2 DEF TaskWait, OnlyTask, Marked
  <2>5. CASE SettleTask /\ pc' = "failTerminate"
    BY <2>5 DEF SettleTask, OnlyTask, DbFails
  <2> QED
    BY <2>1, <2>2, <2>3, <2>4, <2>5
<1>4. pc' = "taskStart" => TaskFresh(proj, slot)'
  <2> SUFFICES ASSUME pc' = "taskStart" PROVE TaskFresh(proj, slot)'
    OBVIOUS
  <2>1. ChooseTask
    BY DEF StartTask, LaunchTask, TaskWait, WriteProjectRow, WriteRow, DbFails
  <2>2. TaskFresh(proj, slot)
    BY <2>1 DEF ChooseTask, AtPlannedTask, RowsInv, Present, TasksOK
  <2> QED
    BY <1>1, <2>1, <2>2 DEF ChooseTask, TaskFresh
<1>5. TaskKey' = t
  BY <1>1 DEF TaskKey, Key
<1> QED
  BY <1>1, <1>3, <1>4, <1>5, TaskStays

\* A task that is not launched, and one whose outcome is stored
\* (execute_launch_task_actions).
LEMMA TaskPassRows ==
    TypeInv /\ TypeInv' /\ RowsInv
    /\ (\/ PassTask \/ CancelPendingTask \/ SkipHaltedTask
        \/ SettleTask /\ pc' # "failTerminate")
        => RowsInv'
<1> SUFFICES ASSUME TypeInv, TypeInv', RowsInv,
                    \/ PassTask \/ CancelPendingTask \/ SkipHaltedTask
                    \/ SettleTask /\ pc' # "failTerminate"
             PROVE  RowsInv'
  OBVIOUS
<1> PICK t : t = TaskKey
  OBVIOUS
<1>1. /\ UNCHANGED <<plan, proj, rec, runRow, keys>>
      /\ pc \in InTasks /\ pc' \in {"task", "failTerminate"}
      /\ slot \in TaskSlot /\ proj \in Project /\ slot' = slot + 1
  <2>1. CASE PassTask
    BY <2>1 DEF PassTask, InTasks, TypeInv, Position, LoopPc, ProjectPc
  <2>2. CASE CancelPendingTask \/ SkipHaltedTask
    BY <2>2 DEF CancelPendingTask, SkipHaltedTask, AtPlannedTask, SettleUnstarted,
       WriteProjectRow, WriteRow, DbFails, InTasks, TypeInv, Position, LoopPc, ProjectPc
  <2>3. CASE SettleTask /\ pc' # "failTerminate"
    BY <2>3 DEF SettleTask, DbFails, InTasks, TaskPc, TypeInv, Position, LoopPc, ProjectPc
  <2> QED
    BY <2>1, <2>2, <2>3
<1>2. t \in ActionKey /\ t \in LaunchId /\ t \in RowKey /\ t = <<proj, slot>> /\ t[2] = slot
  BY <1>1, CurrentKeys DEF TaskKey, Key
<1>3. OnlyTask
  BY <1>2
     DEF PassTask, CancelPendingTask, SkipHaltedTask, SettleTask, OnlyTask, SettleUnstarted,
         MarkAndSync, Marked, WriteProjectRow, WriteRow, DbFails, TypeInv, TypeOK
<1>4. ASSUME pc' = "task"
      PROVE  /\ row'[t] # "running" /\ act'[t] \notin {"planned", "running"}
             /\ plan'[t] = "planned" => row'[t] = act'[t]
             /\ Halting(t)' => halt' # "none"
             /\ halt # "none" => halt' # "none"
  <2>1. CASE PassTask
    <3>1. act[t] # "planned" /\ act[t] = plan[t] /\ row[t] = plan[t]
      BY <1>2, <2>1 DEF PassTask, RowsInv, Present, TasksOK, TaskFresh
    <3>2. plan[t] \in PlanStatus
      BY <1>2 DEF TypeInv, TypeOK
    <3> QED
      BY <2>1, <3>1, <3>2 DEF PassTask, Halting, PlanStatus
  <2>2. CASE CancelPendingTask
    <3>1. act' = Marked(act, {t}, "cancelled") /\ halt' = "cancel"
          /\ row' = [row EXCEPT ![t] = "cancelled"]
      BY <1>4, <2>2 DEF CancelPendingTask, SettleUnstarted, MarkAndSync, WriteProjectRow,
         WriteRow, DbFails
    <3> QED
      BY <1>2, <3>1 DEF Marked, TypeInv, TypeOK
  <2>3. CASE SkipHaltedTask
    <3>1. act' = Marked(act, {t}, "skipped") /\ halt' = HaltSeen /\ HaltSeen # "none"
          /\ row' = [row EXCEPT ![t] = "skipped"]
      BY <1>4, <2>3 DEF SkipHaltedTask, SettleUnstarted, MarkAndSync, WriteProjectRow,
         WriteRow, DbFails
    <3> QED
      BY <1>2, <3>1 DEF Marked, TypeInv, TypeOK
  <2>4. CASE SettleTask /\ pc' # "failTerminate"
    <3>1. /\ row' = [row EXCEPT ![t] = act[t]] /\ halt' = HaltAfter(act[t], slot) /\ act' = act
          /\ pc = "taskSettle"
      BY <1>4, <2>4 DEF SettleTask, DbFails
    <3>2. act[t] \notin {"planned", "running"} /\ row'[t] = act[t]
      BY <1>2, <3>1 DEF RowsInv, Present, TasksOK, TypeInv, TypeOK
    <3>3. Halting(t)' => halt' # "none"
      BY <1>2, <3>1 DEF Halting, HaltAfter, ErrorStatus
    <3> QED
      BY <3>1, <3>2, <3>3 DEF HaltAfter
  <2> QED
    BY <2>1, <2>2, <2>3, <2>4
<1>5. PICK q : q = slot /\ t = <<proj, q>>
  BY <1>2
<1>6. pc' = "task" => TaskSettled(proj, q)' /\ (Halting(<<proj, q>>)' => halt' # "none")
  BY <1>1, <1>2, <1>4, <1>5 DEF TaskSettled, Halting
<1> QED
  BY <1>1, <1>3, <1>4, <1>5, <1>6, TaskPasses

\* The loop begins at the first task and ends behind the last
\* (execute_launch_task_actions).
LEMMA TaskLoopRows ==
    TypeInv /\ TypeInv' /\ RowsInv /\ (EnterTasks \/ LeaveTasks) => RowsInv'
<1> SUFFICES ASSUME TypeInv, TypeInv', RowsInv, EnterTasks \/ LeaveTasks PROVE RowsInv'
  OBVIOUS
<1>1. /\ UNCHANGED <<plan, proj, rec, runRow, act, keys, row>>
      /\ pc \in InLoop /\ pc' \in {"task", "ide"} /\ proj \in Project
  BY DEF EnterTasks, LeaveTasks, InLoop, TypeInv, Position, LoopPc, ProjectPc
<1>2. OthersStay /\ HaltOK(proj)'
  BY <1>1 DEF OthersStay, RowsInv, HaltOK, Halting
<1>3. CASE EnterTasks
  <2>1. pc = "afterTerminal" /\ pc' = "task" /\ slot' = 3
    BY <1>3 DEF EnterTasks
  <2>2. \A s \in TaskSlot: TaskFresh(proj, s)'
    BY <1>1, <2>1 DEF RowsInv, Present, TasksOK, TaskFresh, BeforeTasks
  <2>3. TasksOK'
    <3>1. \A s \in TaskSlot: ~(s < slot')
      BY <2>1, Numbers
    <3>2. slot' \in TaskSlot => TaskFresh(proj, slot)'
      BY <2>2 DEF TaskFresh
    <3> QED
      BY <2>1, <2>2, <3>1, <3>2 DEF TasksOK, BeforeTasks, IdePc
  <2>4. ReasonOK' /\ PairOK' /\ IdeOK'
    <3>1. \A s \in TaskSlot: ~(s < slot')
      BY <2>1, Numbers
    <3> QED
      BY <1>1, <2>1, <3>1
         DEF RowsInv, Present, ReasonOK, PairOK, IdeOK, InTasks, TaskPc, IdePc, Key, ProjectPc
  <2>5. Present'
    BY <2>1, <2>3, <2>4 DEF Present, Dropping, StartPc, SkipPc
  <2> QED
    BY <1>1, <1>2, <2>1, <2>5, WorkStep DEF InLoop, ProjectPc
<1>4. CASE LeaveTasks
  <2>1. pc = "task" /\ pc' = "ide" /\ slot' = slot /\ slot \notin TaskSlot
    BY <1>4 DEF LeaveTasks
  <2>2. TasksOK'
    <3>1. \A s \in TaskSlot: s < slot => TaskSettled(proj, s)
      BY <2>1 DEF RowsInv, Present, TasksOK, InTasks
    <3> QED
      BY <1>1, <2>1, <3>1 DEF TasksOK, TaskSettled, BeforeTasks, InTasks, TaskPc
  <2>3. PairOK' /\ IdeOK'
    BY <1>1, <2>1 DEF RowsInv, Present, PairOK, IdeOK, InTasks, IdePc, Key, ProjectPc
  <2>4. Present'
    BY <2>1, <2>2, <2>3 DEF Present, Dropping, ReasonOK, StartPc, SkipPc, InTasks, TaskPc
  <2> QED
    BY <1>1, <1>2, <2>1, <2>4, WorkStep DEF InLoop, ProjectPc
<1> QED
  BY <1>3, <1>4

-----------------------------------------------------------------------------
(* The IDE and the end of the project *)

\* What the tasks have come to stays while the IDE is opened (execute_project).
LEMMA IdeStep ==
    ASSUME TypeInv, TypeInv', RowsInv,
           pc \in {"ide", "ideStart", "ideWait"}, pc' \in IdePc,
           UNCHANGED <<plan, proj, slot, rec, runRow, row>>,
           \A p \in Project: p # proj => \A s \in Slot: act'[<<p, s>>] = act[<<p, s>>],
           \A s \in TaskSlot: act'[<<proj, s>>] = act[<<proj, s>>],
           \A l \in LaunchId: l # Key(Ide) => keys'[l] = keys[l],
           act'[Key(Terminal)] # "running",
           act'[Key(Codex)] = "running" => act'[Key(Terminal)] = "completed",
           pc' # "ideWait" => act'[Key(Ide)] # "running"
    PROVE  RowsInv'
<1>1. proj \in Project /\ pc \in InLoop /\ pc \in IdePc
  BY DEF TypeInv, Position, LoopPc, ProjectPc, InLoop, IdePc
<1>2. \A p \in Project: \A s \in TaskSlot: keys'[<<p, s>>] = keys[<<p, s>>]
  BY KeysOf, SlotKinds DEF Key
<1>3. OthersStay
  BY <1>2 DEF OthersStay
<1>4. HaltOK(proj)'
  BY <1>1, <1>2 DEF RowsInv, HaltOK, Halting
<1>5. TasksOK'
  <2>1. slot \notin TaskSlot /\ \A s \in TaskSlot: s < slot => TaskSettled(proj, s)
    BY <1>1 DEF RowsInv, Present, TasksOK
  <2> QED
    BY <2>1 DEF TasksOK, TaskSettled, BeforeTasks, InTasks, TaskPc, IdePc
<1>6. PairOK' /\ IdeOK'
  BY DEF PairOK, IdeOK, IdePc, Key
<1>7. Present'
  BY <1>5, <1>6 DEF Present, Dropping, ReasonOK, StartPc, SkipPc, InTasks, TaskPc, IdePc
<1>8. pc' \in InLoop
  BY DEF InLoop, ProjectPc, IdePc
<1> QED
  BY <1>1, <1>3, <1>4, <1>7, <1>8, WorkStep

\* All tasks of the project are settled when its IDE is looked at.
LEMMA AllSettled ==
    ASSUME TypeInv, RowsInv, pc \in IdePc, NEW s \in TaskSlot
    PROVE  TaskSettled(proj, s)
<1>1. slot \notin TaskSlot
  BY DEF RowsInv, Present, TasksOK
<1>2. s < slot
  BY <1>1, Numbers, PlanAssumption DEF TaskSlot
<1> QED
  BY <1>2 DEF RowsInv, Present, TasksOK

\* The IDE is skipped, found unusable, launched or answered for (execute_project).
LEMMA IdeRows ==
    TypeInv /\ TypeInv' /\ RowsInv /\ (SkipIde \/ CheckIde \/ IdeStart \/ IdeWait)
        => RowsInv'
<1> SUFFICES ASSUME TypeInv, TypeInv', RowsInv, SkipIde \/ CheckIde \/ IdeStart \/ IdeWait
             PROVE  RowsInv'
  OBVIOUS
<1> PICK t, c, i : t = Key(Terminal) /\ c = Key(Codex) /\ i = Key(Ide)
  OBVIOUS
<1>1. /\ UNCHANGED <<plan, proj, slot, rec, runRow, row>>
      /\ pc \in {"ide", "ideStart", "ideWait"} /\ pc' \in IdePc
  BY DEF SkipIde, CheckIde, IdeStart, IdeWait, IdePc
<1>2. /\ proj \in Project
      /\ t \in ActionKey /\ c \in ActionKey /\ i \in ActionKey /\ i \in LaunchId
      /\ t # i /\ c # i /\ t # c
      /\ t = <<proj, Terminal>> /\ c = <<proj, Codex>> /\ i = <<proj, Ide>>
  BY <1>1, CurrentKeys, SlotKinds DEF TypeInv, Position, LoopPc, ProjectPc, Key
<1>3. act[t] # "running" /\ (act[c] = "running" => act[t] = "completed")
  BY <1>1 DEF RowsInv, Present, PairOK, IdePc
<1>4. pc # "ideWait" => act[i] # "running"
  BY <1>1 DEF RowsInv, Present, IdeOK, ProjectPc
<1>5. Key(Terminal)' = t /\ Key(Codex)' = c /\ Key(Ide)' = i
  BY <1>1, <1>2 DEF Key
<1>6. CASE SkipIde
  <2>1. /\ act' = Marked(act, PlannedOf(proj), "skipped") /\ keys' = keys
        /\ pc = "ide" /\ pc' = "finishProject"
    BY <1>6 DEF SkipIde
  <2>2. \A k \in ActionKey:
          act'[k] = IF k[1] = proj /\ act[k] = "planned" THEN "skipped" ELSE act[k]
    BY <2>1 DEF Marked, PlannedOf
  <2>3. \A p \in Project: p # proj => \A s \in Slot: act'[<<p, s>>] = act[<<p, s>>]
    BY <2>2, KeysOf
  <2>4. \A s \in TaskSlot: act'[<<proj, s>>] = act[<<proj, s>>]
    <3>1. \A s \in TaskSlot: act[<<proj, s>>] # "planned"
      BY <1>1, AllSettled DEF TaskSettled, IdePc
    <3> QED
      BY <1>2, <2>2, <3>1, KeysOf
  <2>5. /\ act'[t] # "running"
        /\ act'[c] = "running" => act'[t] = "completed"
        /\ act'[i] # "running"
    BY <1>2, <1>3, <1>4, <2>1, <2>2
  <2> QED
    BY <1>1, <2>1, <2>3, <2>4, <2>5, IdeStep
<1>7. CASE CheckIde \/ IdeStart \/ IdeWait
  <2>1. /\ \A k \in ActionKey: k # i => act'[k] = act[k]
        /\ \A l \in LaunchId: l # i => keys'[l] = keys[l]
        /\ pc' # "ideWait" => act'[i] # "running"
    <3>1. CASE CheckIde
      BY <1>2, <1>4, <3>1 DEF CheckIde, MarkAndSync, Marked, ErrorStatus
    <3>2. CASE IdeStart
      BY <1>2, <3>2 DEF IdeStart, MarkAndSync, Marked, Launch, TypeInv, TypeOK, ChildTypeOK
    <3>3. CASE IdeWait
      <4>1. PICK o \in Outcomes(i): act' = Marked(act, {i}, IF o = "ok" THEN "completed" ELSE o)
        BY <3>3 DEF IdeWait, MarkAndSync
      <4>2. o \in {"ok", "failed", "cancelled"}
        BY <1>2, <4>1 DEF Outcomes, DoneHasResult, ResultState, TypeInv, TypeOK, ChildTypeOK
      <4> QED
        BY <1>2, <3>3, <4>1, <4>2 DEF IdeWait, Marked
    <3> QED
      BY <1>7, <3>1, <3>2, <3>3
  <2>2. /\ \A p \in Project: p # proj => \A s \in Slot: act'[<<p, s>>] = act[<<p, s>>]
        /\ \A s \in TaskSlot: act'[<<proj, s>>] = act[<<proj, s>>]
    <3>1. \A p \in Project: p # proj => \A s \in Slot: <<p, s>> # i
      BY <1>2
    <3>2. \A s \in TaskSlot: <<proj, s>> # i
      BY <1>2, SlotKinds
    <3> QED
      BY <1>2, <2>1, <3>1, <3>2, KeysOf
  <2>3. act'[t] = act[t] /\ act'[c] = act[c]
    BY <1>2, <2>1
  <2> QED
    BY <1>1, <1>3, <2>1, <2>2, <2>3, IdeStep
<1> QED
  BY <1>6, <1>7

\* A project that has been executed is not summarised as running: only a Codex action
\* can be left so, and its terminal has opened (summarize_project_actions).
LEMMA SummaryIsFinal ==
    ASSUME TypeInv, RowsInv, pc = "finishProject"
    PROVE  ProjectStatus(act, proj) # "running"
<1>1. proj \in Project /\ pc \in IdePc
  BY DEF TypeInv, Position, LoopPc, ProjectPc, IdePc
<1>2. /\ act[Key(Terminal)] # "running"
      /\ act[Key(Codex)] = "running" => act[Key(Terminal)] = "completed"
      /\ act[Key(Ide)] # "running"
  BY <1>1 DEF RowsInv, Present, PairOK, IdeOK, ProjectPc
<1>3. \A s \in TaskSlot: act[<<proj, s>>] # "running"
  BY <1>1, AllSettled DEF TaskSettled
<1>4. \A s \in Slot: s \in {Terminal, Codex, Ide} \cup TaskSlot
  BY PlanAssumption DEF Slot, Terminal, Codex, Ide, TaskSlot
<1>5. (\E s \in Slot: act[<<proj, s>>] = "running") =>
          \E s \in Slot: act[<<proj, s>>] = "completed"
  BY <1>2, <1>3, <1>4, SlotKinds DEF Key
<1> QED
  BY <1>5 DEF ProjectStatus

\* The record of a project and its rows are written from the same actions
\* (execute_project).
LEMMA FinishRows ==
    TypeInv /\ TypeInv' /\ RowsInv /\ FinishProject => RowsInv'
<1> SUFFICES ASSUME TypeInv, TypeInv', RowsInv, FinishProject PROVE RowsInv'
  OBVIOUS
<1> PICK q \in Project: q = proj
  BY DEF TypeInv, Position, LoopPc, ProjectPc, FinishProject
<1>1. pc = "finishProject" /\ UNCHANGED <<plan, runRow, act, keys>>
  BY DEF FinishProject
<1>2. HaltOK(q)'
  BY <1>1 DEF RowsInv, HaltOK, Halting
<1>3. CASE pc' = "failTerminate"
  <2>1. UNCHANGED <<row, rec, proj>>
    BY <1>3 DEF FinishProject
  <2>2. OthersStay
    BY <1>1, <2>1 DEF OthersStay
  <2>3. HaltOK(proj)'
    BY <1>1, <2>1 DEF RowsInv, HaltOK, Halting
  <2>4. pc' \notin InLoop
    BY <1>3 DEF InLoop, StartPc, SkipPc, ProjectPc
  <2> QED
    BY <1>1, <1>3, <2>1, <2>2, <2>3, <2>4, WorkStep DEF InLoop, ProjectPc
<1>4. CASE pc' # "failTerminate"
  <2>1. PICK st : st = FinalProjectStatus
    OBVIOUS
  <2>2. /\ row' = [row EXCEPT ![<<q, 0>>] = st] /\ rec' = [rec EXCEPT ![q] = st]
        /\ proj' = proj + 1 /\ pc' = "project"
    BY <1>4, <2>1 DEF FinishProject, DbFails, Key
  <2>3. st # "running"
    BY <1>1, <2>1, SummaryIsFinal DEF FinalProjectStatus
  <2>4. /\ row'[<<q, 0>>] = st /\ rec'[q] = st
        /\ \A p \in Project: p # q => row'[<<p, 0>>] = row[<<p, 0>>] /\ rec'[p] = rec[p]
        /\ \A p \in Project: \A s \in TaskSlot: row'[<<p, s>>] = row[<<p, s>>]
    <3>1. \A s \in TaskSlot: s # 0
      BY Numbers
    <3> QED
      BY <2>2, <3>1, KeysOf DEF TypeInv, TypeOK
  <2>5. OthersStay
    BY <1>1, <2>4 DEF OthersStay
  <2>6. \A s \in TaskSlot: TaskSettled(q, s)
    BY <1>1, AllSettled DEF IdePc
  <2>7. RowsDone(q)' /\ RecordOK(q)'
    BY <1>1, <2>3, <2>4, <2>6 DEF RowsDone, RecordOK, TaskSettled
  <2> QED
    BY <1>1, <1>2, <2>2, <2>4, <2>5, <2>7, NextStep DEF InLoop, ProjectPc
<1> QED
  BY <1>3, <1>4

-----------------------------------------------------------------------------
(* The end of the run, and everybody else *)

\* The run is finalized when the runner is through all projects
\* (start_restore_run_with_events).
LEMMA FinalizeRows ==
    TypeInv /\ RowsInv /\ (DecideStatus \/ FinalizeRun) => RowsInv'
<1> SUFFICES ASSUME TypeInv, RowsInv, DecideStatus \/ FinalizeRun PROVE RowsInv'
  OBVIOUS
<1>1. /\ UNCHANGED <<plan, proj, rec, act, keys, row>>
      /\ pc' \in {"finalize", "summary", "failDrop"}
  BY DEF DecideStatus, FinalizeRun, DbFails
<1>2. \A r \in RowKey: row[r] # "running"
  <2>1. CASE DecideStatus
    <3>1. \A p \in Project: p < proj
      BY <2>1, Numbers, PlanAssumption DEF DecideStatus, Project
    <3>2. \A p \in Project: RowsDone(p)
      BY <2>1, <3>1 DEF DecideStatus, RowsInv, Around, InLoop, StartPc
    <3> SUFFICES ASSUME NEW r \in RowKey PROVE row[r] # "running"
      OBVIOUS
    <3>3. r = <<r[1], r[2]>> /\ r[1] \in Project /\ (r[2] = 0 \/ r[2] \in TaskSlot)
      BY DEF RowKey
    <3>4. RowsDone(r[1])
      BY <3>2, <3>3
    <3> QED
      BY <3>3, <3>4 DEF RowsDone
  <2>2. CASE FinalizeRun
    BY <2>2 DEF FinalizeRun, RowsInv, RunRowOK
  <2> QED
    BY <2>1, <2>2
<1>3. RunRowOK'
  <2>1. pc' = "finalize" => runRow' \notin FinishedRun
    BY DEF DecideStatus, FinalizeRun, DbFails, RowsInv, RunRowOK, Unfinished, InLoop, StartPc
  <2>2. pc' \in Unfinished => pc' = "finalize"
    BY <1>1 DEF Unfinished, InLoop, StartPc, SkipPc, ProjectPc
  <2> QED
    BY <1>1, <1>2, <2>1, <2>2 DEF RunRowOK, FinalizedRunHasNoRunningRow
<1> QED
  BY <1>1, <1>3, EndStep DEF InLoop, StartPc, SkipPc, ProjectPc, DeadPc

\* Nothing is written to the rows after the projects (start_restore_run_with_events).
LEMMA EndRows ==
    RowsInv /\ (\/ WriteLog \/ TerminateCancelledRun \/ ClearFinishedRun
                \/ TerminateFailedRun \/ ClearFailedRun \/ FinalizeFailedRun \/ DropGuard)
        => RowsInv'
<1> SUFFICES ASSUME RowsInv,
                    \/ WriteLog \/ TerminateCancelledRun \/ ClearFinishedRun
                    \/ TerminateFailedRun \/ ClearFailedRun \/ FinalizeFailedRun \/ DropGuard
             PROVE  RowsInv'
  OBVIOUS
<1>1. /\ UNCHANGED <<plan, proj, rec, act, keys, row>>
      /\ pc' \in {"terminate", "clear", "drop", "failDrop", "failClear", "failFinalize",
                  "ended", "aborted"}
      /\ pc' \in {"failClear", "failFinalize"} => pc \in {"failTerminate", "failClear"}
      /\ runRow' = runRow \/ (runRow' = "failed" /\ pc' = "failDrop")
  BY DEF WriteLog, TerminateCancelledRun, ClearFinishedRun, TerminateFailedRun, ClearFailedRun,
     FinalizeFailedRun, DropGuard, TerminateRun, ClearRun, Finalized, DbFails
<1>2. RunRowOK'
  BY <1>1 DEF RowsInv, RunRowOK, Unfinished, InLoop, StartPc, SkipPc, ProjectPc,
     FinalizedRunHasNoRunningRow
<1> QED
  BY <1>1, <1>2, EndStep DEF InLoop, StartPc, SkipPc, ProjectPc, DeadPc

\* A cancel changes the status of the run and no row of it (cancel_restore_run,
\* cancel_restore_action), a program or its thread neither.
LEMMA BesideRows == RowsInv /\ (CallStep \/ ChildStep) => RowsInv'
<1> SUFFICES ASSUME RowsInv, CallStep \/ ChildStep PROVE RowsInv'
  OBVIOUS
<1>1. /\ UNCHANGED <<plan, pc, proj, slot, halt, codexReady, rec, act, row>>
      /\ runRow' \in {runRow, "cancel_requested"}
  BY DEF CallStep, CancelRun, CancelRunTerminate, CancelRunMark, CancelAction,
     CancelActionTerminate, ChildStep
<1>2. keys' = keys
  BY DEF CallStep, CancelRun, CancelRunTerminate, CancelRunMark, CancelAction,
     CancelActionTerminate, ChildStep, ThreadStep, CheckBeforeSpawn, Spawn, Register,
     PollTokens, Reap, PollExited, PollFailed, PollRetained, PollAgain, ProcessExits
<1>3. RunRowOK'
  BY <1>1 DEF RowsInv, RunRowOK, FinishedRun, FinalizedRunHasNoRunningRow
<1> QED
  BY <1>1, <1>2, <1>3, BesideStep

\* A crash leaves the rows, and the recovery no row that is running
\* (recover_interrupted_restore_runs).
LEMMA RestartRows == TypeInv /\ RowsInv /\ (Crash \/ Recover) => RowsInv'
<1> SUFFICES ASSUME TypeInv, RowsInv, Crash \/ Recover PROVE RowsInv'
  OBVIOUS
<1>1. pc' \in DeadPc /\ pc' \notin InLoop \cup Unfinished
  BY DEF Crash, Recover, DeadPc, InLoop, Unfinished, StartPc, SkipPc, ProjectPc
<1>2. CASE Crash
  <2>1. /\ \A p \in Project: rec'[p] = "absent"
        /\ \A l \in LaunchId: keys'[l] = {}
        /\ UNCHANGED <<row, runRow>> /\ pc' = "crashed"
    BY <1>2 DEF Crash
  <2>2. \A p \in Project: HaltOK(p)' /\ RecordOK(p)'
    BY <2>1, KeysOf DEF HaltOK, RecordOK
  <2>3. RunRowOK'
    BY <1>1, <2>1 DEF RowsInv, RunRowOK, FinalizedRunHasNoRunningRow
  <2> QED
    BY <1>1, <2>1, <2>2, <2>3, ElsewherePresent DEF RowsInv, Around
<1>3. CASE Recover
  <2>1. /\ pc = "crashed" /\ pc' = "recovered"
        /\ UNCHANGED <<rec, keys, proj, act, plan>>
        /\ \/ UNCHANGED <<row, runRow>>
           \/ \A r \in RowKey: row'[r] # "running"
    BY <1>3 DEF Recover, RecoveredRow
  <2>2. \A l \in LaunchId: keys[l] = {}
    BY <2>1 DEF RowsInv, DeadPc
  <2>3. \A p \in Project: rec[p] = "absent"
    BY <2>1 DEF RowsInv, DeadPc
  <2> QED
    <3>1. \A p \in Project: HaltOK(p)' /\ RecordOK(p)'
      BY <2>1, <2>3 DEF RowsInv, HaltOK, Halting, RecordOK
    <3>2. RunRowOK'
      BY <1>1, <2>1 DEF RowsInv, RunRowOK, FinalizedRunHasNoRunningRow, Unfinished
    <3> QED
      BY <1>1, <2>1, <2>2, <2>3, <3>1, <3>2, ElsewherePresent
         DEF RowsInv, Around, Unfinished
<1> QED
  BY <1>2, <1>3

-----------------------------------------------------------------------------
(* The theorems *)

\* Every step of the runner (start_restore_run_with_events).
LEMMA RunnerRows == TypeInv' /\ IInv /\ RowsInv /\ RunnerStep => RowsInv'
BY InsertRows, StartRows, SkipRows, RecordSkippedRows, UnplannedRows, StartProjectRows,
   GroupRows, TerminalRows, TaskWorkRows, TaskPassRows, TaskLoopRows, IdeRows, FinishRows,
   FinalizeRows, EndRows
   DEF RunnerStep, IInv

\* Every step of anybody.
LEMMA RowsStep == TypeInv' /\ IInv /\ RowsInv /\ [Next]_vars => RowsInv'
<1>1. RowsInv /\ UNCHANGED vars => RowsInv'
  BY BesideStep DEF RowsInv, RunRowOK, FinalizedRunHasNoRunningRow
<1> QED
  BY <1>1, RunnerRows, BesideRows, RestartRows DEF Next, IInv

\* The invariant of the rows (start_restore_run_with_events).
LEMMA RowsHold == Spec => []RowsInv
<1>1. Init => IInv /\ RowsInv
  BY DoomInit, RowsInit
<1>2. IInv /\ RowsInv /\ [Next]_vars => (IInv /\ RowsInv)'
  BY DoomStep, RowsStep DEF IInv
<1> QED
  BY <1>1, <1>2, PTL DEF Spec

\* What a run reports of a project and its planned tasks is what it has stored, for
\* every plan, whatever is cancelled, fails or crashes (execute_project,
\* build_cancelled_pending_project).
THEOREM RowsCorrect == Spec => []RowsMatchRecords
<1>1. RowsInv => RowsMatchRecords
  BY DEF RowsInv, RecordOK, RowsMatchRecords
<1> QED
  BY <1>1, RowsHold, PTL

\* A run that has ended other than by a failure of its storage has no row left
\* running, whoever wrote its status (finalize_restore_run,
\* recover_interrupted_restore_runs).
THEOREM FinalizedCorrect == Spec => []FinalizedRunHasNoRunningRow
<1>1. RowsInv => FinalizedRunHasNoRunningRow
  BY DEF RowsInv, RunRowOK
<1> QED
  BY <1>1, RowsHold, PTL

\* No task after one that halts its project is ever handed to a thread, for any
\* number of tasks (execute_launch_task_actions).
THEOREM HaltCorrect == Spec => []HaltedTasksNeverRun
<1>1. RowsInv => HaltedTasksNeverRun
  BY DEF RowsInv, HaltOK, HaltedTasksNeverRun
<1> QED
  BY <1>1, RowsHold, PTL

-----------------------------------------------------------------------------
(* What an action cancel reaches *)

\* Until the run drops its entries a living program is in the registry, unless its
\* thread has only just spawned it; after a crash nobody watches.
AliveIsTracked ==
    /\ ~Dropped /\ pc \notin DeadPc =>
          \A l \in LaunchId: process[l] = "alive" => thread[l] = "spawned" \/ l \in tracked
    /\ pc \in DeadPc => \A l \in LaunchId: thread[l] = "idle"

\* A launch not made before leaves the programs and the entries as they are.
LEMMA LaunchTracked ==
    ASSUME IInv, AliveIsTracked, NEW l \in LaunchId, NEW ks, Launch(l, ks), keys[l] = {},
           pc \notin DeadPc, pc' \notin DeadPc, Dropped => Dropped'
    PROVE  AliveIsTracked'
<1>1. /\ thread' = [thread EXCEPT ![l] = "queued"]
      /\ UNCHANGED <<process, tracked>>
  BY DEF Launch
<1>2. process[l] = "none" /\ thread \in [LaunchId -> ThreadState]
  BY DEF IInv, UnmadeIsFresh, DeadPc, TypeInv, TypeOK, ChildTypeOK
<1> QED
  BY <1>1, <1>2 DEF AliveIsTracked

\* Killing brings nobody to life.
LEMMA TerminateTracked ==
    ASSUME AliveIsTracked, NEW S, Terminate(S), UNCHANGED <<thread, tracked>>,
           pc \in DeadPc <=> pc' \in DeadPc, Dropped => Dropped'
    PROVE  AliveIsTracked'
<1>1. \A l \in LaunchId: process'[l] = "alive" => process[l] = "alive"
  BY DEF Terminate
<1> QED
  BY <1>1 DEF AliveIsTracked

\* A step that leaves programs, threads and entries alone.
LEMMA BesideTracked ==
    ASSUME AliveIsTracked, UNCHANGED <<thread, process, tracked>>,
           pc \in DeadPc <=> pc' \in DeadPc, Dropped => Dropped'
    PROVE  AliveIsTracked'
BY DEF AliveIsTracked

LEMMA LaunchesTracked ==
    IInv /\ AliveIsTracked /\ (TerminalStart \/ LaunchTask \/ IdeStart) => AliveIsTracked'
<1> SUFFICES ASSUME IInv, AliveIsTracked, TerminalStart \/ LaunchTask \/ IdeStart
             PROVE  AliveIsTracked'
  OBVIOUS
<1> USE DEF Dropped, DeadPc
<1>0. TypeInv
  BY DEF IInv
<1>1. CASE TerminalStart
  <2>1. /\ pc = "terminalStart" /\ pc' = "terminalWait"
        /\ Launch(Key(Terminal), TerminalGroup)
    BY <1>1 DEF TerminalStart
  <2>2. Key(Terminal) \in LaunchId
    BY <1>0, <2>1, CurrentKeys DEF TypeInv, Position, LoopPc, ProjectPc
  <2>3. keys[Key(Terminal)] = {}
    BY <2>1 DEF IInv, AboutToLaunch
  <2> QED
    BY <2>1, <2>2, <2>3, LaunchTracked
<1>2. CASE LaunchTask
  <2>1. pc = "taskLaunch"
    BY <1>2 DEF LaunchTask
  <2>2. TaskKey \in LaunchId
    BY <1>0, <2>1, CurrentKeys DEF TypeInv, Position, LoopPc, ProjectPc, TaskPc
  <2>3. keys[TaskKey] = {}
    BY <2>1 DEF IInv, AboutToLaunch
  <2>4. CASE pc' = "taskSettle" /\ UNCHANGED processVars
    BY <2>1, <2>4, BesideTracked
  <2>5. CASE pc' = "taskWait" /\ Launch(TaskKey, {TaskKey})
    BY <2>1, <2>2, <2>3, <2>5, LaunchTracked
  <2> QED
    BY <1>2, <2>4, <2>5 DEF LaunchTask
<1>3. CASE IdeStart
  <2>1. pc = "ideStart" /\ pc' = "ideWait" /\ Launch(Key(Ide), {Key(Ide)})
    BY <1>3 DEF IdeStart
  <2>2. Key(Ide) \in LaunchId /\ Key(Ide) \in ActionKey
    BY <1>0, <2>1, CurrentKeys DEF TypeInv, Position, LoopPc, ProjectPc
  <2>3. Key(Ide) \in Served(Key(Ide)) /\ act[Key(Ide)] = "planned"
    BY <2>1, SlotKinds DEF IInv, AboutToLaunch, Served, Key
  <2>4. keys[Key(Ide)] = {}
    BY <2>2, <2>3 DEF IInv, MadeIsNotPlanned
  <2> QED
    BY <2>1, <2>2, <2>4, LaunchTracked
<1> QED
  BY <1>1, <1>2, <1>3

LEMMA RunnerTracked == IInv /\ AliveIsTracked /\ RunnerStep => AliveIsTracked'
<1> SUFFICES ASSUME IInv, AliveIsTracked, RunnerStep PROVE AliveIsTracked'
  OBVIOUS
<1> USE DEF Dropped, DeadPc
<1>1. CASE InsertPlan \/ Activate \/ RegisterActions \/ SkipCancelledProject \/ SkipRow
           \/ SkipProjectRow \/ RecordSkipped \/ RecordUnplanned \/ StartProject
  <2>1. /\ UNCHANGED processVars
        /\ pc \in {"idle", "inserted", "active", "project", "skipRows", "skipProject"}
        /\ pc' \notin DeadPc
    BY <1>1
       DEF InsertPlan, Activate, RegisterActions, SkipCancelledProject, SkipRow,
           SkipProjectRow, RecordSkipped, RecordUnplanned, StartProject,
           WriteProjectRow, WriteRow, DbFails
  <2> QED
    BY <2>1, BesideTracked
<1>2. CASE TerminalCancelled \/ TerminalWanted \/ CodexCancelled \/ NothingToOpen
           \/ TerminalUnavailable \/ CodexUnavailable \/ TerminalUsable \/ TerminalWait
           \/ EnterTasks
  <2>1. /\ UNCHANGED processVars
        /\ pc \in {"terminal", "codex", "terminalWait", "afterTerminal"}
        /\ pc' \notin DeadPc
    BY <1>2
       DEF TerminalCancelled, TerminalWanted, CodexCancelled, NothingToOpen, AtWantedPair,
           TerminalUnavailable, CodexUnavailable, TerminalUsable, TerminalWait, EnterTasks
  <2> QED
    BY <2>1, BesideTracked
<1>3. CASE PassTask \/ CancelPendingTask \/ SkipHaltedTask \/ ChooseTask \/ StartTask
           \/ TaskWait \/ SettleTask \/ LeaveTasks
  <2>1. /\ UNCHANGED processVars
        /\ pc \in {"task", "taskStart", "taskWait", "taskSettle"}
        /\ pc' \notin DeadPc
    BY <1>3
       DEF PassTask, CancelPendingTask, SkipHaltedTask, ChooseTask, StartTask, TaskWait,
           SettleTask, LeaveTasks, AtPlannedTask, SettleUnstarted, WriteProjectRow,
           WriteRow, DbFails
  <2> QED
    BY <2>1, BesideTracked
<1>4. CASE SkipIde \/ CheckIde \/ IdeWait \/ FinishProject
  <2>1. /\ UNCHANGED processVars
        /\ pc \in {"ide", "ideWait", "finishProject"}
        /\ pc' \notin DeadPc
    BY <1>4 DEF SkipIde, CheckIde, IdeWait, FinishProject, DbFails
  <2> QED
    BY <2>1, BesideTracked
<1>5. CASE DecideStatus \/ FinalizeRun \/ WriteLog \/ FinalizeFailedRun \/ DropGuard
  <2>1. /\ UNCHANGED processVars
        /\ pc \notin DeadPc /\ pc' \notin DeadPc
        /\ Dropped => Dropped'
    BY <1>5 DEF DecideStatus, FinalizeRun, WriteLog, FinalizeFailedRun, DropGuard, DbFails
  <2> QED
    BY <2>1, BesideTracked
<1>6. CASE TerminateCancelledRun \/ TerminateFailedRun
  BY <1>6, TerminateTracked DEF TerminateCancelledRun, TerminateFailedRun, TerminateRun
<1>7. CASE ClearFinishedRun \/ ClearFailedRun
  BY <1>7 DEF ClearFinishedRun, ClearFailedRun, ClearRun, AliveIsTracked
<1> QED
  BY <1>1, <1>2, <1>3, <1>4, <1>5, <1>6, <1>7, LaunchesTracked DEF RunnerStep

LEMMA CallTracked == AliveIsTracked /\ CallStep => AliveIsTracked'
<1> SUFFICES ASSUME AliveIsTracked, CallStep PROVE AliveIsTracked'
  OBVIOUS
<1>1. UNCHANGED <<pc, thread, tracked>>
  BY DEF CallStep, CancelRun, CancelRunTerminate, CancelRunMark, CancelAction,
         CancelActionTerminate, runnerState
<1>2. UNCHANGED process \/ \E S: Terminate(S)
  BY DEF CallStep, CancelRun, CancelRunTerminate, CancelRunMark, CancelAction,
         CancelActionTerminate
<1> QED
  BY <1>1, <1>2, BesideTracked, TerminateTracked DEF Dropped

LEMMA ChildTracked == IInv /\ AliveIsTracked /\ ChildStep => AliveIsTracked'
<1> SUFFICES ASSUME IInv, AliveIsTracked, ChildStep PROVE AliveIsTracked'
  OBVIOUS
<1>1. PICK l \in LaunchId: ThreadStep(l) \/ ProcessExits(l)
  BY DEF ChildStep
<1>2. UNCHANGED pc
  BY DEF ChildStep
<1>3. /\ thread \in [LaunchId -> ThreadState]
      /\ process \in [LaunchId -> ProcessState]
  BY DEF IInv, TypeInv, TypeOK, ChildTypeOK
<1>4. \A m \in LaunchId \ {l}:
         /\ thread'[m] = thread[m] /\ (m \in tracked => m \in tracked')
         /\ process'[m] = "alive" => process[m] = "alive"
  BY <1>1, <1>3
     DEF ThreadStep, CheckBeforeSpawn, Spawn, Register, PollTokens, Reap, PollExited,
         PollFailed, PollRetained, PollAgain, ProcessExits, Return, Terminate
<1>5. thread[l] = "idle" => thread'[l] = "idle"
  BY <1>1, <1>3
     DEF ThreadStep, CheckBeforeSpawn, Spawn, Register, PollTokens, Reap, PollExited,
         PollFailed, PollRetained, PollAgain, ProcessExits
<1>6. ASSUME process[l] = "alive" => thread[l] = "spawned" \/ l \in tracked,
             process'[l] = "alive"
      PROVE  thread'[l] = "spawned" \/ l \in tracked'
  BY <1>1, <1>3, <1>6
     DEF ThreadStep, CheckBeforeSpawn, Spawn, Register, PollTokens, Reap, PollExited,
         PollFailed, PollRetained, PollAgain, ProcessExits, Return, Terminate, Running
<1> QED
  BY <1>2, <1>4, <1>5, <1>6 DEF AliveIsTracked, Dropped

LEMMA TrackedInit == Init => AliveIsTracked
BY DEF Init, ChildInit, AliveIsTracked, DeadPc

LEMMA TrackedStep == IInv /\ AliveIsTracked /\ [Next]_vars => AliveIsTracked'
<1>1. AliveIsTracked /\ UNCHANGED vars => AliveIsTracked'
  BY BesideTracked DEF Dropped
<1>2. AliveIsTracked /\ Crash => AliveIsTracked'
  BY DEF Crash, AliveIsTracked, DeadPc
<1>3. AliveIsTracked /\ Recover => AliveIsTracked'
  BY BesideTracked DEF Recover, Dropped, DeadPc
<1> QED
  BY <1>1, <1>2, <1>3, RunnerTracked, CallTracked, ChildTracked DEF Next

\* A program that outlived its launch is still within reach of an action cancel
\* until the run drops its entries, for every plan and whatever else is cancelled,
\* fails or gives up (retain_after_timeout, terminate_action_processes).
THEOREM CancelReaches == Spec => CancelReachesRetained
<1>1. ASSUME IInv, AliveIsTracked, NEW c \in ActionCaller, CancelActionTerminate(c), ~Dropped,
             NEW l \in LaunchId, actionKey[c] \in keys[l], thread[l] = "done"
      PROVE  process'[l] # "alive"
  <2>1. pc \notin DeadPc /\ (process[l] = "alive" => l \in tracked)
    BY <1>1 DEF AliveIsTracked
  <2>2. l \in TrackedFor(actionKey[c]) \/ process[l] # "alive"
    BY <1>1, <2>1 DEF TrackedFor
  <2> QED
    BY <1>1, <2>2 DEF CancelActionTerminate, Terminate, Running
<1>2. IInv /\ AliveIsTracked /\ [Next]_vars =>
         [\A c \in ActionCaller:
            CancelActionTerminate(c) /\ ~Dropped =>
               \A l \in LaunchId:
                   actionKey[c] \in keys[l] /\ thread[l] = "done"
                       => process'[l] # "alive"]_vars
  BY <1>1
<1> QED
  BY <1>2, DoomInit, DoomStep, TrackedInit, TrackedStep, PTL DEF Spec, CancelReachesRetained
=============================================================================
