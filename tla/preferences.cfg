SPECIFICATION Spec
CONSTANTS
    b1 = b1
    b2 = b2
    b3 = b3
    k1 = k1
    m1 = m1
    bad = bad
    w1 = w1
    upd = upd
    ret = ret
    NoKey = NoKey
    Keep = Keep
    Unset = Unset
    Basic = {b1, b2, b3}
    Hooked = {m1, k1}
    ModifierOnly = {m1}
    Updater = upd
    Retrier = ret
    Applier = {upd, ret}
    Workspaces = {w1}
    Patches <- MCPatches
    StoredKeys <- MCStored
    DefaultShot = b1
    DefaultPaste <- MCDefaultPaste
    Legacy = {b2}
    Development = FALSE
    RunAtFirst = {"release"}
    ApprovalAtFirst = {"disabled"}
    Taken = {}
    MaxOutside = 1
    MaxFaults = 1
    MaxGrabs = 1
    MaxMail = 2
    MaxUpdates = 2
    MaxCrashes = 1
INVARIANTS
    StoreMatchesCache
    FailedUpdateLeavesNoTrace
    HotkeysFollowSettings
    LoginFollowsSettings
    NoStrayBindings
    FailedSyncIsUndone
PROPERTIES
    SettingsAreValid
CHECK_DEADLOCK FALSE
