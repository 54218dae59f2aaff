SPECIFICATION FairSpec
CONSTANTS
    Sizes = {1, 2}
    Before = {"absent", "other"}
    Caller = {c}
    MaxUploads = 2
    MaxFaults = 1
    Restarts = TRUE
INVARIANTS
    CompletedIsStored
    PartsAreStored
PROPERTIES
    AttemptForgetsOnlyClosed
    AttemptEnds
