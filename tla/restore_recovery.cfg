SPECIFICATION FairSpec
CONSTANTS
    NumProjects = 2
    NumTasks = 1
    Continue = {}
    OsMayFail = TRUE
    MaxLate = 2
    Plans <- RecoveryPlans
    RunCaller = {r1}
    ActionCaller = {}
    MaxFaults = 1
    Crashes = TRUE
INVARIANTS
    FinalizedRunHasNoRunningRow
    RowsMatchRecords
PROPERTIES
    RunEnds
    CancelledRunLeavesNoProgram
CHECK_DEADLOCK FALSE
