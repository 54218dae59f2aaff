--------------------------- MODULE ChildProcesses ---------------------------
(***************************************************************************)
(* The process adapter of Bexo Studio (src-tauri/src/adapters/process.rs): *)
(* the blocking threads that spawn and watch external programs, and the    *)
(* ChildProcessRegistry through which a cancel request finds them.         *)
(*                                                                         *)
(* A launch is one call of run_launch_command by a restore run.  Its       *)
(* blocking thread outlives the caller when the caller gives up            *)
(* (IO_TIMEOUT), so the thread, its process and its registry entry are     *)
(* kept per launch and not per caller.  One program is registered under    *)
(* the keys of every action it serves: the terminal and the Codex action   *)
(* of a project share one process.                                         *)
(***************************************************************************)
EXTENDS RestorePlan, FiniteSets

CONSTANTS
    OsMayFail,  \* whether kill and wait may return an error
    MaxLate     \* bound: launches abandoned by their caller while still at work

ASSUME ChildAssumption == OsMayFail \in BOOLEAN /\ MaxLate \in Nat

VARIABLES
    cancelRequested, \* run-wide cancel flag, shared with the threads by Arc
    tokens,          \* the actions whose own cancel token is set
    thread,          \* where the blocking thread of each launch is
    result,          \* what that thread returned
    keys,            \* the actions the launch was started for
    process,         \* the external process (tree) of each launch
    tracked          \* launches present in the ChildProcessRegistry

flagVars == <<cancelRequested, tokens>>
processVars == <<thread, result, keys, process, tracked>>

ThreadState == {"idle", "queued", "checked", "spawned", "polling", "waiting",
                "reaping", "done"}
ResultState == {"none", "ok", "failed", "cancelled"}
\* "stray": still running, but the operating system refused to kill it or to
\* report on it, which the code logs and ignores.
ProcessState == {"none", "alive", "stray", "dead"}

ChildTypeOK ==
    /\ cancelRequested \in BOOLEAN
    /\ tokens \in SUBSET ActionKey
    /\ thread \in [LaunchId -> ThreadState]
    /\ result \in [LaunchId -> ResultState]
    /\ keys \in [LaunchId -> SUBSET ActionKey]
    /\ process \in [LaunchId -> ProcessState]
    /\ tracked \in SUBSET LaunchId

ChildInit ==
    /\ cancelRequested = FALSE
    /\ tokens = {}
    /\ thread = [l \in LaunchId |-> "idle"]
    /\ result = [l \in LaunchId |-> "none"]
    /\ keys = [l \in LaunchId |-> {}]
    /\ process = [l \in LaunchId |-> "none"]
    /\ tracked = {}

Running(l) == process[l] \in {"alive", "stray"}

\* Mutant: the thread is only handed the tokens of its actions.
CancelSeenInActions(l) == keys[l] \cap tokens # {}

\* What launch_blocking reads at each of its two token checks.
CancelSeen(l) == cancelRequested \/ keys[l] \cap tokens # {}

\* terminate_process_tree over the processes of the launches S; an error
\* leaves the process running and is only logged.
Terminate(S) ==
    \E F \in SUBSET (IF OsMayFail THEN S ELSE {}):
        process' = [l \in LaunchId |->
                        IF l \in S /\ Running(l)
                        THEN IF l \in F THEN "stray" ELSE "dead"
                        ELSE process[l]]

\* The launches the registry holds under the key of action k.
TrackedFor(k) == {l \in tracked: k \in keys[l]}

Return(l, r) ==
    /\ thread' = [thread EXCEPT ![l] = "done"]
    /\ result' = [result EXCEPT ![l] = r]

-----------------------------------------------------------------------------
(* The caller's side *)

\* run_launch_command hands the command to a blocking thread.
Launch(l, ks) ==
    /\ thread' = [thread EXCEPT ![l] = "queued"]
    /\ keys' = [keys EXCEPT ![l] = ks]
    /\ UNCHANGED <<result, process, tracked>>

\* What awaiting the launch may yield: the thread's result, or IO_TIMEOUT (an
\* error like any other) while the thread is still at work.
AtWork == {l \in LaunchId: thread[l] \notin {"idle", "done"}}
\* Mutant: no outer timeout around the blocking thread.
OutcomesWithoutTimeout(l) == IF thread[l] = "done" THEN {result[l]} ELSE {}

Outcomes(l) ==
    IF thread[l] = "done" THEN {result[l]}
    ELSE IF Cardinality(AtWork) <= MaxLate THEN {"failed"}
    ELSE {}

-----------------------------------------------------------------------------
(* The blocking thread of launch l *)

\* Mutant: the tokens are first looked at in the polling loop.
CheckNothingBeforeSpawn(l) ==
    /\ thread[l] = "queued"
    /\ thread' = [thread EXCEPT ![l] = "checked"]
    /\ UNCHANGED <<result, keys, process, tracked>>

CheckBeforeSpawn(l) ==
    /\ thread[l] = "queued"
    /\ IF CancelSeen(l)
       THEN Return(l, "cancelled")
       ELSE /\ thread' = [thread EXCEPT ![l] = "checked"]
            /\ UNCHANGED result
    /\ UNCHANGED <<keys, process, tracked>>

Spawn(l) ==
    /\ thread[l] = "checked"
    /\ \/ /\ thread' = [thread EXCEPT ![l] = "spawned"]
          /\ process' = [process EXCEPT ![l] = "alive"]
          /\ UNCHANGED result
       \/ /\ Return(l, "failed")
          /\ UNCHANGED process
    /\ UNCHANGED <<keys, tracked>>

Register(l) ==
    /\ thread[l] = "spawned"
    /\ thread' = [thread EXCEPT ![l] = "polling"]
    /\ tracked' = tracked \cup {l}
    /\ UNCHANGED <<result, keys, process>>

\* Head of the polling loop: a set token kills the tree and waits for it.
PollTokens(l) ==
    /\ thread[l] = "polling"
    /\ IF CancelSeen(l)
       THEN /\ thread' = [thread EXCEPT ![l] = "reaping"]
            /\ Terminate({l})
       ELSE /\ thread' = [thread EXCEPT ![l] = "waiting"]
            /\ UNCHANGED process
    /\ UNCHANGED <<result, keys, tracked>>

Reap(l) ==
    /\ thread[l] = "reaping"
    /\ ~Running(l)
    /\ Return(l, "cancelled")
    /\ tracked' = tracked \ {l}
    /\ UNCHANGED <<keys, process>>

\* try_wait reports an exit, with success or with an error code.
PollExited(l) ==
    /\ thread[l] = "waiting"
    /\ ~Running(l)
    /\ \E r \in {"ok", "failed"}: Return(l, r)
    /\ tracked' = tracked \ {l}
    /\ UNCHANGED <<keys, process>>

\* try_wait itself fails: the entry is dropped, the process is not touched.
PollFailed(l) ==
    /\ OsMayFail
    /\ thread[l] = "waiting"
    /\ Return(l, "failed")
    /\ process' = [process EXCEPT ![l] = IF Running(l) THEN "stray" ELSE @]
    /\ tracked' = tracked \ {l}
    /\ UNCHANGED keys

\* Mutant: the entry of a program that outlives its launch is dropped.
PollRetainedUntracked(l) ==
    /\ thread[l] = "waiting"
    /\ Running(l)
    /\ Return(l, "ok")
    /\ tracked' = tracked \ {l}
    /\ UNCHANGED <<keys, process>>

\* The launch timeout of a program that is still running counts as success and,
\* because every restore launch sets retain_after_timeout, keeps its entry.
PollRetained(l) ==
    /\ thread[l] = "waiting"
    /\ Running(l)
    /\ Return(l, "ok")
    /\ UNCHANGED <<keys, process, tracked>>

PollAgain(l) ==
    /\ thread[l] = "waiting"
    /\ Running(l)
    /\ thread' = [thread EXCEPT ![l] = "polling"]
    /\ UNCHANGED <<result, keys, process, tracked>>

ThreadStep(l) ==
    \/ CheckBeforeSpawn(l) \/ Spawn(l) \/ Register(l) \/ PollTokens(l)
    \/ Reap(l) \/ PollExited(l) \/ PollFailed(l) \/ PollRetained(l)
    \/ PollAgain(l)

\* The external program ends by itself.
ProcessExits(l) ==
    /\ Running(l)
    /\ process' = [process EXCEPT ![l] = "dead"]
    /\ UNCHANGED <<thread, result, keys, tracked>>

=============================================================================
