SPECIFICATION Spec
CONSTANTS
    NumProjects = 1
    NumTasks = 3
    Continue = {3}
    OsMayFail = FALSE
    MaxLate = 1
    Plans <- CancelPlans
    RunCaller = {r1}
    ActionCaller = {a1}
    MaxFaults = 0
    Crashes = FALSE
INVARIANTS
    TypeOK
    PendingCancelNeverRuns
    HaltedTasksNeverRun
PROPERTIES
    CancelReachesRetained
CHECK_DEADLOCK FALSE
