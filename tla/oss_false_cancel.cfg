SPECIFICATION Spec
CONSTANTS
    Sizes = {1}
    Before = {"absent"}
    Caller = {c}
    MaxUploads = 0
    MaxFaults = 0
    Restarts = FALSE
INVARIANT CancelledIsNotStored
