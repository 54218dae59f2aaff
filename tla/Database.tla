------------------------------ MODULE Database ------------------------------
(***************************************************************************)
(* The database layer of Bexo Studio (src-tauri/src/persistence/sqlite.rs).*)
(* Every read or write runs on a blocking thread of its own, on a          *)
(* connection of its own; its caller waits with a timeout.  A caller that  *)
(* times out raises a flag and then still waits for the thread, which      *)
(* looks at the flag before each of its steps.                             *)
(*                                                                         *)
(* The content of the database is the sequence of the writes it took.  A   *)
(* write reads the content and replaces it when it commits, so that a      *)
(* write whose transaction overlaps another one would undo it.  The        *)
(* interrupt of a running statement only makes an operation fail, which it *)
(* may do anyway.                                                          *)
(***************************************************************************)
EXTENDS Sequences, Naturals

CONSTANTS Writer, Reader  \* the operations that write, that only read

ASSUME OperationAssumption == Writer \cap Reader = {}

Operation == Writer \cup Reader

VARIABLES
    caller,    \* what each caller does or was answered
    cancelled, \* cancellation_requested of each operation
    worker,    \* where the blocking thread of each operation is
    outcome,   \* what that thread returned
    seen,      \* the content a write is based on
    db         \* the content of the database

databaseVars == <<caller, cancelled, worker, outcome, seen, db>>

Waiting == {"waiting", "timedOut"}
Answered == {"ok", "error", "timeout"}
\* The steps of a thread at which its transaction is open.
InTransaction == {"begun", "writing", "written", "committing"}
WorkerState == {"idle", "queued", "opening", "opened", "beginning", "reading",
                "read", "done"} \cup InTransaction
Outcome == {"none", "ok", "failed", "cancelled", "commitFailed"}

DatabaseTypeOK ==
    /\ caller \in [Operation -> {"idle"} \cup Waiting \cup Answered]
    /\ cancelled \in [Operation -> BOOLEAN]
    /\ worker \in [Operation -> WorkerState]
    /\ outcome \in [Operation -> Outcome]
    /\ seen \in [Operation -> Seq(Writer)]
    /\ db \in Seq(Writer)

DatabaseInit ==
    /\ caller = [o \in Operation |-> "idle"]
    /\ cancelled = [o \in Operation |-> FALSE]
    /\ worker = [o \in Operation |-> "idle"]
    /\ outcome = [o \in Operation |-> "none"]
    /\ seen = [o \in Operation |-> <<>>]
    /\ db = <<>>

-----------------------------------------------------------------------------
(* The caller: run_connection_operation *)

\* A first call, or another try of one that did not succeed.
Call(o) ==
    /\ caller[o] \in {"idle", "error", "timeout"}
    /\ caller' = [caller EXCEPT ![o] = "waiting"]
    /\ cancelled' = [cancelled EXCEPT ![o] = FALSE]
    /\ worker' = [worker EXCEPT ![o] = "queued"]
    /\ UNCHANGED <<outcome, seen, db>>

TimeOut(o) ==
    /\ caller[o] = "waiting"
    /\ worker[o] # "done"
    /\ caller' = [caller EXCEPT ![o] = "timedOut"]
    /\ cancelled' = [cancelled EXCEPT ![o] = TRUE]
    /\ UNCHANGED <<worker, outcome, seen, db>>

\* Mutant: whatever comes after the timeout is a timeout.
ReportedLate(o) ==
    IF caller[o] = "timedOut" THEN "timeout"
    ELSE IF outcome[o] = "ok" THEN "ok" ELSE "error"

\* A late success is a success; a failure after the timeout is reported as the
\* timeout, which claims that nothing was written, unless the commit failed.
Reported(o) ==
    IF outcome[o] = "ok" THEN "ok"
    ELSE IF caller[o] = "timedOut" /\ outcome[o] # "commitFailed" THEN "timeout"
    ELSE "error"

Answer(o) ==
    /\ caller[o] \in Waiting
    /\ worker[o] = "done"
    /\ caller' = [caller EXCEPT ![o] = Reported(o)]
    /\ UNCHANGED <<cancelled, worker, outcome, seen, db>>

-----------------------------------------------------------------------------
(* The blocking thread of operation o *)

Step(o, from, to) ==
    /\ worker[o] = from
    /\ worker' = [worker EXCEPT ![o] = to]
    /\ UNCHANGED <<caller, cancelled, outcome, seen, db>>

\* The thread returns; an open transaction is rolled back.
Give(o, from, result) ==
    /\ worker[o] = from
    /\ worker' = [worker EXCEPT ![o] = "done"]
    /\ outcome' = [outcome EXCEPT ![o] = result]
    /\ UNCHANGED <<caller, cancelled, seen, db>>

\* The thread looks at the flag and goes on or gives up.
Checked(o, from, to) ==
    IF cancelled[o] THEN Give(o, from, "cancelled") ELSE Step(o, from, to)

CheckQueued(o) == Checked(o, "queued", "opening")

Open(o) == Step(o, "opening", "opened") \/ Give(o, "opening", "failed")

CheckOpened(o) ==
    Checked(o, "opened", IF o \in Writer THEN "beginning" ELSE "reading")

\* Mutant: BEGIN instead of BEGIN IMMEDIATE.
BeginDeferred(o) ==
    Step(o, "beginning", "begun") \/ Give(o, "beginning", "failed")

\* Mutant: no busy timeout.
BeginBlocking(o) ==
    /\ \A p \in Operation: worker[p] \notin InTransaction
    /\ Step(o, "beginning", "begun")

\* BEGIN IMMEDIATE takes the write lock, or fails (after the busy timeout).
Begin(o) ==
    \/ /\ \A p \in Operation: worker[p] \notin InTransaction
       /\ Step(o, "beginning", "begun")
    \/ Give(o, "beginning", "failed")

CheckBegun(o) == Checked(o, "begun", "writing")

Write(o) ==
    \/ /\ worker[o] = "writing"
       /\ worker' = [worker EXCEPT ![o] = "written"]
       /\ seen' = [seen EXCEPT ![o] = db]
       /\ UNCHANGED <<caller, cancelled, outcome, db>>
    \/ Give(o, "writing", "failed")

CheckWritten(o) == Checked(o, "written", "committing")

Commit(o) ==
    \/ /\ worker[o] = "committing"
       /\ worker' = [worker EXCEPT ![o] = "done"]
       /\ outcome' = [outcome EXCEPT ![o] = "ok"]
       /\ db' = Append(seen[o], o)
       /\ UNCHANGED <<caller, cancelled, seen>>
    \/ Give(o, "committing", "commitFailed")

Read(o) == Step(o, "reading", "read") \/ Give(o, "reading", "failed")

CheckRead(o) == Give(o, "read", IF cancelled[o] THEN "cancelled" ELSE "ok")

WorkerStep(o) ==
    \/ CheckQueued(o) \/ Open(o) \/ CheckOpened(o)
    \/ Begin(o) \/ CheckBegun(o) \/ Write(o) \/ CheckWritten(o) \/ Commit(o)
    \/ Read(o) \/ CheckRead(o)

DatabaseNext ==
    \E o \in Operation: Call(o) \/ TimeOut(o) \/ Answer(o) \/ WorkerStep(o)

DatabaseSpec == DatabaseInit /\ [][DatabaseNext]_databaseVars

\* A blocking thread keeps going (busy_timeout bounds its wait for the lock) and
\* the Tokio runtime polls the caller; nobody owes a call or a timeout.
DatabaseFairSpec ==
    /\ DatabaseSpec
    /\ \A o \in Operation: WF_databaseVars(WorkerStep(o)) /\ WF_databaseVars(Answer(o))

-----------------------------------------------------------------------------
(* Properties *)

\* However often a write is tried again after an error or a timeout, it is in
\* the database at most once (Reported, run_write_transaction).
AppliedOnce == \A i, j \in DOMAIN db: db[i] = db[j] => i = j

\* What the thread has decided, or else that it is still open.
Phase(o) ==
    IF caller[o] \notin Waiting THEN caller[o]
    ELSE IF worker[o] # "done" THEN "called"
    ELSE IF outcome[o] = "ok" THEN "applied" ELSE "refused"

Abstract == INSTANCE AtomicStore WITH call <- [o \in Operation |-> Phase(o)]

\* Each operation takes effect at one point between its call and its answer, on
\* top of every write before it, or not at all, and the answer says which
\* (run_connection_operation, run_write_transaction).
ImplementsAtomicStore == Abstract!Spec

\* Every call is answered, also when the lock is never free or the caller has
\* long timed out: the timeout path waits for the thread.
EveryCallAnswered ==
    \A o \in Operation: caller[o] = "waiting" ~> caller[o] \in Answered
=============================================================================
