------------------------------ MODULE Autostart ------------------------------
(***************************************************************************)
(* The registration of Bexo Studio for launch at login on Windows          *)
(* (windows_autostart in preferences_service.rs): the value under the Run  *)
(* key and the value under StartupApproved with which Windows may disable  *)
(* it.  One synchronisation runs at a time, one registry call per step;    *)
(* Task Manager and other programs change both values between its steps,   *)
(* also between a comparison and the write that follows it, and a registry *)
(* call may fail.                                                          *)
(***************************************************************************)
EXTENDS Naturals

CONSTANTS
    Development,     \* the running executable is a development build
    RunAtFirst,      \* what the Run value may be at first
    ApprovalAtFirst, \* what the StartupApproved value may be at first
    MaxOutside,      \* bound: registry changes by other programs
    MaxFaults        \* bound: failing system calls

ASSUME AutostartAssumption ==
    /\ Development \in BOOLEAN
    /\ RunAtFirst \subseteq {"absent", "current", "release", "odd"}
    /\ ApprovalAtFirst \subseteq {"absent", "enabled", "disabled"}
    /\ MaxOutside \in Nat
    /\ MaxFaults \in Nat

VARIABLES
    runKey,   \* the Run value
    approval, \* the StartupApproved value
    sync,     \* the synchronisation under way
    theirs,   \* history: who changed each value last, see Origin
    outside,  \* registry changes by other programs so far
    faults    \* system calls that failed so far

registryVars == <<runKey, approval, outside, faults>>
autostartVars == <<runKey, approval, sync, theirs, outside, faults>>

\* "current" and "release" are commands of this executable and of an installed
\* release; "odd" is any other value.
RunValue == {"absent", "current", "release", "odd"}
Approval == {"absent", "enabled", "disabled"}

SyncPhase == {"idle", "read", "readApproval", "write", "approve",
              "verifyRun", "verifyApproval", "delete", "verifyGone",
              "lookRun", "putRun", "lookApproval", "putApproval",
              "lookGone", "putGone"}
SyncResult == {"none", "ok", "failed", "unknown"}

Sync == [phase: SyncPhase, enable: BOOLEAN, result: SyncResult,
         runBefore: RunValue, approvalBefore: Approval, approvalRead: BOOLEAN,
         wroteRun: BOOLEAN, wroteApproval: BOOLEAN, lost: BOOLEAN]

NoSync == [phase |-> "idle", enable |-> FALSE, result |-> "none",
           runBefore |-> "absent", approvalBefore |-> "absent",
           approvalRead |-> FALSE, wroteRun |-> FALSE, wroteApproval |-> FALSE,
           lost |-> FALSE]

\* History, which no step of the code depends on: a value is "ours" while nobody
\* changed it after the synchronisation last found it right or wrote it,
\* "changed" when another program did, "seen" when the rollback looked and found
\* another value than the one written.
Origin == {"ours", "changed", "seen"}
Ours == [run |-> "ours", approval |-> "ours"]

AutostartTypeOK ==
    /\ runKey \in RunValue
    /\ approval \in Approval
    /\ sync \in Sync
    /\ theirs \in [run: Origin, approval: Origin]
    /\ outside \in 0..MaxOutside
    /\ faults \in 0..MaxFaults

AutostartInit ==
    /\ runKey \in RunAtFirst
    /\ approval \in ApprovalAtFirst
    /\ sync = NoSync
    /\ theirs = Ours
    /\ outside = 0
    /\ faults = 0

\* A system call may fail.
Fault == /\ faults < MaxFaults
         /\ faults' = faults + 1

----------------------------------------------------------------------------
\* resolve_registration_executable: a development build leaves the command of
\* an installed release in place.
Command(existing) ==
    IF Development /\ existing = "release" THEN "release" ELSE "current"

\* The Run value agrees with a launchAtLogin setting.
Registered(enable) ==
    IF enable THEN runKey \in {"current", "release"} ELSE runKey = "absent"

StartSync(enable) ==
    /\ sync.phase = "idle"
    /\ sync' = [NoSync EXCEPT !.phase = "read", !.enable = enable]
    /\ theirs' = Ours

\* The caller has the result.
EndSync == sync' = NoSync /\ theirs' = Ours

Goto(phase) == sync' = [sync EXCEPT !.phase = phase]
Finish(result) == sync' = [sync EXCEPT !.phase = "idle", !.result = result]

\* The synchronisation found the value right, or wrote it.
Known(value) == theirs' = [theirs EXCEPT ![value] = "ours"]

----------------------------------------------------------------------------
\* Reading: the Run value must be readable, StartupApproved need not be.
ReadFails ==
    /\ sync.phase = "read"
    /\ Fault
    /\ Finish("failed")
    /\ UNCHANGED <<runKey, approval, theirs, outside>>

ReadEnabled ==
    /\ sync.phase = "read"
    /\ sync.enable
    /\ sync' = [sync EXCEPT !.phase = "readApproval", !.runBefore = runKey]
    /\ Known("run")
    /\ UNCHANGED registryVars

\* What has to be written follows from the two values read.
ReadApproval ==
    /\ sync.phase = "readApproval"
    /\ \E readable \in BOOLEAN:
         LET seen == IF readable THEN approval ELSE "absent"
             repair == seen = "disabled"
             matches == sync.runBefore = Command(sync.runBefore)
             read == [sync EXCEPT !.approvalBefore = seen, !.approvalRead = readable]
         IN /\ IF readable THEN UNCHANGED faults ELSE Fault
            /\ sync' = IF matches /\ ~repair
                         THEN [read EXCEPT !.phase = "idle", !.result = "ok"]
                         ELSE [read EXCEPT !.phase = IF matches THEN "approve"
                                                     ELSE "write"]
    /\ Known("approval")
    /\ UNCHANGED <<runKey, approval, outside>>

ReadDisabled ==
    /\ sync.phase = "read"
    /\ ~sync.enable
    /\ IF runKey = "absent"
         THEN Finish("ok")
         ELSE sync' = [sync EXCEPT !.phase = "delete", !.runBefore = runKey]
    /\ Known("run")
    /\ UNCHANGED registryVars

----------------------------------------------------------------------------
\* rollback_registry_snapshots: the parts that were written, the Run value
\* first, whether or not it can be put back.
EndRollback(s) ==
    [s EXCEPT !.phase = "idle", !.result = IF s.lost THEN "unknown" ELSE "failed"]

RollbackApproval(s) ==
    IF s.wroteApproval THEN [s EXCEPT !.phase = "lookApproval"] ELSE EndRollback(s)

Rollback(s) ==
    IF s.wroteRun THEN [s EXCEPT !.phase = "lookRun"] ELSE RollbackApproval(s)

Lost(s) == [s EXCEPT !.lost = TRUE]

\* (mutant) Nobody looks whether the value is still the one written.
MayAlwaysRestore == TRUE

\* restore_registry_value_if_unchanged: only what this synchronisation wrote
\* is put back, anything else is left to whoever wrote it.
MayRestoreRun == runKey = Command(sync.runBefore)
MayRestoreApproval == approval = "enabled"

Found(value, same) ==
    theirs' = [theirs EXCEPT ![value] = IF same THEN "ours" ELSE "seen"]

\* A value the rollback had found to be another program's stays marked as such.
PutBack(value) ==
    theirs' = [theirs EXCEPT ![value] = IF @ = "seen" THEN @ ELSE "ours"]

----------------------------------------------------------------------------
AfterRunWrite == IF sync.approvalBefore = "disabled" THEN "approve" ELSE "verifyRun"

WriteRun ==
    /\ sync.phase = "write"
    /\ \/ /\ runKey' = Command(sync.runBefore)
          /\ sync' = [sync EXCEPT !.phase = AfterRunWrite, !.wroteRun = TRUE]
          /\ Known("run")
          /\ UNCHANGED faults
       \/ /\ Fault
          /\ sync' = Rollback(sync)
          /\ UNCHANGED <<runKey, theirs>>
    /\ UNCHANGED <<approval, outside>>

WriteApproval ==
    /\ sync.phase = "approve"
    /\ \/ /\ approval' = "enabled"
          /\ sync' = [sync EXCEPT !.phase = "verifyRun", !.wroteApproval = TRUE]
          /\ Known("approval")
          /\ UNCHANGED faults
       \/ /\ Fault
          /\ sync' = Rollback(sync)
          /\ UNCHANGED <<approval, theirs>>
    /\ UNCHANGED <<runKey, outside>>

\* verify_enabled_registration: what was written is read back.
VerifyRun ==
    /\ sync.phase = "verifyRun"
    /\ \/ /\ runKey = Command(sync.runBefore)
          /\ IF sync.approvalRead THEN Goto("verifyApproval") ELSE Finish("ok")
          /\ Known("run")
          /\ UNCHANGED faults
       \/ /\ runKey # Command(sync.runBefore)
          /\ sync' = Rollback(sync)
          /\ UNCHANGED <<theirs, faults>>
       \/ /\ Fault
          /\ sync' = Rollback(sync)
          /\ UNCHANGED theirs
    /\ UNCHANGED <<runKey, approval, outside>>

VerifyApproval ==
    /\ sync.phase = "verifyApproval"
    /\ \/ /\ approval # "disabled"
          /\ Finish("ok")
          /\ Known("approval")
          /\ UNCHANGED faults
       \/ /\ approval = "disabled"
          /\ sync' = Rollback(sync)
          /\ UNCHANGED <<theirs, faults>>
       \/ /\ Fault
          /\ sync' = Rollback(sync)
          /\ UNCHANGED theirs
    /\ UNCHANGED <<runKey, approval, outside>>

----------------------------------------------------------------------------
\* The comparison is one registry call, the write after it another.
LookAtRun ==
    /\ sync.phase = "lookRun"
    /\ \/ /\ sync' = IF MayRestoreRun THEN [sync EXCEPT !.phase = "putRun"]
                     ELSE RollbackApproval(Lost(sync))
          /\ Found("run", runKey = Command(sync.runBefore))
          /\ UNCHANGED faults
       \/ /\ Fault
          /\ sync' = RollbackApproval(Lost(sync))
          /\ UNCHANGED theirs
    /\ UNCHANGED <<runKey, approval, outside>>

PutRun ==
    /\ sync.phase = "putRun"
    /\ \/ /\ runKey' = sync.runBefore
          /\ sync' = RollbackApproval(sync)
          /\ PutBack("run")
          /\ UNCHANGED faults
       \/ /\ Fault
          /\ sync' = RollbackApproval(Lost(sync))
          /\ UNCHANGED <<runKey, theirs>>
    /\ UNCHANGED <<approval, outside>>

LookAtApproval ==
    /\ sync.phase = "lookApproval"
    /\ \/ /\ sync' = IF MayRestoreApproval THEN [sync EXCEPT !.phase = "putApproval"]
                     ELSE EndRollback(Lost(sync))
          /\ Found("approval", approval = "enabled")
          /\ UNCHANGED faults
       \/ /\ Fault
          /\ sync' = EndRollback(Lost(sync))
          /\ UNCHANGED theirs
    /\ UNCHANGED <<runKey, approval, outside>>

PutApproval ==
    /\ sync.phase = "putApproval"
    /\ \/ /\ approval' = sync.approvalBefore
          /\ sync' = EndRollback(sync)
          /\ PutBack("approval")
          /\ UNCHANGED faults
       \/ /\ Fault
          /\ sync' = EndRollback(Lost(sync))
          /\ UNCHANGED <<approval, theirs>>
    /\ UNCHANGED <<runKey, outside>>

----------------------------------------------------------------------------
DeleteRun ==
    /\ sync.phase = "delete"
    /\ \/ /\ runKey' = "absent"
          /\ sync' = [sync EXCEPT !.phase = "verifyGone", !.wroteRun = TRUE]
          /\ Known("run")
          /\ UNCHANGED faults
       \/ /\ Fault
          /\ Finish("failed")
          /\ UNCHANGED <<runKey, theirs>>
    /\ UNCHANGED <<approval, outside>>

VerifyDisabled ==
    /\ sync.phase = "verifyGone"
    /\ \/ /\ runKey = "absent"
          /\ Finish("ok")
          /\ Known("run")
          /\ UNCHANGED faults
       \/ /\ runKey # "absent"
          /\ Goto("lookGone")
          /\ UNCHANGED <<theirs, faults>>
       \/ /\ Fault
          /\ Goto("lookGone")
          /\ UNCHANGED theirs
    /\ UNCHANGED <<runKey, approval, outside>>

\* restore_registry_value_if_absent: again a look and a write.
LookIfGone ==
    /\ sync.phase = "lookGone"
    /\ \/ /\ IF runKey = "absent" THEN Goto("putGone") ELSE Finish("unknown")
          /\ Found("run", runKey = "absent")
          /\ UNCHANGED faults
       \/ /\ Fault
          /\ Finish("unknown")
          /\ UNCHANGED theirs
    /\ UNCHANGED <<runKey, approval, outside>>

PutGone ==
    /\ sync.phase = "putGone"
    /\ \/ /\ runKey' = sync.runBefore
          /\ Finish("failed")
          /\ PutBack("run")
          /\ UNCHANGED faults
       \/ /\ Fault
          /\ Finish("unknown")
          /\ UNCHANGED <<runKey, theirs>>
    /\ UNCHANGED <<approval, outside>>

SyncStep == \/ ReadFails \/ ReadEnabled \/ ReadApproval \/ ReadDisabled
            \/ WriteRun \/ WriteApproval \/ VerifyRun \/ VerifyApproval
            \/ LookAtRun \/ PutRun \/ LookAtApproval \/ PutApproval
            \/ DeleteRun \/ VerifyDisabled \/ LookIfGone \/ PutGone

\* Task Manager, an installer or another program.
OutsideStep ==
    /\ outside < MaxOutside
    /\ outside' = outside + 1
    /\ \/ /\ runKey' \in {"absent", "odd"} \ {runKey}
          /\ theirs' = [theirs EXCEPT !.run = "changed"]
          /\ UNCHANGED approval
       \/ /\ approval' \in {"enabled", "disabled"} \ {approval}
          /\ theirs' = [theirs EXCEPT !.approval = "changed"]
          /\ UNCHANGED runKey
    /\ UNCHANGED <<sync, faults>>
=============================================================================
