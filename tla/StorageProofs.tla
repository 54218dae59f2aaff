---------------------------- MODULE StorageProofs ----------------------------
(***************************************************************************)
(* Proofs about what is stored, for every set of operations, workspaces,   *)
(* projects, directories, files and imports:                               *)
(*                                                                         *)
(*   DatabaseTypeCorrect  DatabaseSpec => []DatabaseTypeOK                 *)
(*   AppliedOnceCorrect   DatabaseSpec => []AppliedOnce                    *)
(*   Implementation       DatabaseSpec => ImplementsAtomicStore            *)
(*   DefaultCorrect       Spec => []OneDefault                             *)
(*   ImportCorrect        Spec => ImportSparesOthers                       *)
(*   WholeCorrect         Spec => ImportIsWhole                            *)
(*                                                                         *)
(* A write transaction, which Implementation shows to take effect at one   *)
(* point, is one step of Workspaces.                                       *)
(*                                                                         *)
(* DatabaseIInv says what the write lock gives (one open transaction, so   *)
(* what it has seen is still the content), that a thread only works for a  *)
(* caller that waits, and that every write in the database is one its      *)
(* caller was or will be told about.  IInv says what an import that writes *)
(* has changed of the tables so far (Spared); HeldInv, that each entry     *)
(* written so far is in the draft and is no other entry's to write.        *)
(***************************************************************************)
EXTENDS Workspaces, Database, TLAPS

-----------------------------------------------------------------------------
(* The database layer: the inductive invariant *)

\* Writers take the steps of a transaction, readers the step of a read.
Sorted ==
    \A o \in Operation:
        /\ worker[o] \in {"beginning"} \cup InTransaction => o \in Writer
        /\ worker[o] \in {"reading", "read"} => o \in Reader

\* A thread works while its caller waits.
WorksForCaller ==
    \A o \in Operation:
        /\ caller[o] \in Waiting => worker[o] # "idle"
        /\ caller[o] \notin Waiting => worker[o] \in {"idle", "done"}

OneTransaction ==
    \A o, p \in Operation:
        worker[o] \in InTransaction /\ worker[p] \in InTransaction => o = p

SeenIsCurrent ==
    \A o \in Operation:
        worker[o] \in {"written", "committing"} => seen[o] = db

Took(o) == Phase(o) \in {"applied", "ok"}

AppliedIsTaken == \A i \in DOMAIN db: Took(db[i])

DatabaseIInv ==
    /\ DatabaseTypeOK
    /\ Sorted
    /\ WorksForCaller
    /\ OneTransaction
    /\ SeenIsCurrent
    /\ AppliedIsTaken
    /\ AppliedOnce

-----------------------------------------------------------------------------
(* The steps of Database in terms of the abstract phases *)

\* Only operation o changes its phase, from a to b.
Moves(o, a, b) ==
    /\ Phase(o) = a /\ Phase(o)' = b
    /\ \A p \in Operation \ {o}: Phase(p)' = Phase(p)

\* The phases as AtomicStore sees them.
Phases == [o \in Operation |-> Phase(o)]

LEMMA PhasesMove ==
    ASSUME NEW o \in Operation, NEW a, NEW b, Moves(o, a, b)
    PROVE  Phases[o] = a /\ Phases' = [Phases EXCEPT ![o] = b]
BY DEF Moves, Phases

LEMMA PhasesStay ==
    ASSUME \A p \in Operation: Phase(p)' = Phase(p)
    PROVE  Phases' = Phases
BY DEF Phases

\* A step of a thread that neither ends it nor touches the database is invisible.
LEMMA StepStutters ==
    ASSUME DatabaseIInv, NEW o \in Operation, NEW from, NEW to, Step(o, from, to),
           from \notin {"idle", "done"}, to # "done"
    PROVE  UNCHANGED db /\ \A p \in Operation: Phase(p)' = Phase(p)
BY DEF Step, Phase, DatabaseIInv, DatabaseTypeOK, WorksForCaller

\* A thread that returns without success refuses its operation.
LEMMA GiveRefuses ==
    ASSUME DatabaseIInv, NEW o \in Operation, NEW from, NEW result,
           Give(o, from, result), from \notin {"idle", "done"}, result # "ok"
    PROVE  UNCHANGED db /\ Moves(o, "called", "refused")
BY DEF Give, Moves, Phase, DatabaseIInv, DatabaseTypeOK, WorksForCaller

-----------------------------------------------------------------------------
(* DatabaseIInv is inductive *)

LEMMA InitInv == DatabaseInit => DatabaseIInv
BY OperationAssumption
   DEF DatabaseInit, DatabaseIInv, DatabaseTypeOK, Sorted, WorksForCaller, OneTransaction, SeenIsCurrent,
       AppliedIsTaken, AppliedOnce, WorkerState, InTransaction, Waiting, Outcome

\* A thread goes on: into a transaction only if none is open, and to a step its
\* operation has.
LEMMA StepInv ==
    ASSUME DatabaseIInv, NEW o \in Operation, NEW from, NEW to \in WorkerState,
           Step(o, from, to),
           from \notin {"idle", "done"}, to \notin {"idle", "done"},
           to \in {"beginning"} \cup InTransaction => o \in Writer,
           to \in {"reading", "read"} => o \in Reader,
           to \in InTransaction =>
              \/ from \in InTransaction
              \/ \A p \in Operation: worker[p] \notin InTransaction,
           to \in {"written", "committing"} => from \in {"written", "committing"}
    PROVE  DatabaseIInv'
<1>1. UNCHANGED <<caller, cancelled, outcome, seen, db>>
  BY DEF Step
<1>2. \A p \in Operation: worker'[p] = IF p = o THEN to ELSE worker[p]
  BY DEF Step, DatabaseIInv, DatabaseTypeOK
<1>3. DatabaseTypeOK'
  BY <1>1 DEF DatabaseIInv, DatabaseTypeOK, Step
<1>4. Sorted' /\ WorksForCaller'
  BY <1>1, <1>2 DEF DatabaseIInv, Sorted, WorksForCaller, Step
<1>5. OneTransaction'
  BY <1>2 DEF DatabaseIInv, OneTransaction, Step
<1>6. SeenIsCurrent'
  BY <1>1, <1>2 DEF DatabaseIInv, SeenIsCurrent, Step
<1>7. AppliedIsTaken'
  <2>1. \A p \in Operation: Phase(p)' = Phase(p)
    BY StepStutters
  <2>2. \A i \in DOMAIN db: db[i] \in Operation
    BY DEF DatabaseIInv, DatabaseTypeOK, Operation
  <2> QED
    BY <1>1, <2>1, <2>2 DEF DatabaseIInv, AppliedIsTaken, Took
<1> QED
  BY <1>1, <1>3, <1>4, <1>5, <1>6, <1>7 DEF DatabaseIInv, AppliedOnce

LEMMA GiveInv ==
    ASSUME DatabaseIInv, NEW o \in Operation, NEW from, NEW result \in Outcome,
           Give(o, from, result), from \notin {"idle", "done"}
    PROVE  DatabaseIInv'
<1>1. UNCHANGED <<caller, cancelled, seen, db>>
  BY DEF Give
<1>2. \A p \in Operation:
         /\ worker'[p] = IF p = o THEN "done" ELSE worker[p]
         /\ outcome'[p] = IF p = o THEN result ELSE outcome[p]
  BY DEF Give, DatabaseIInv, DatabaseTypeOK
<1>3. DatabaseTypeOK'
  BY <1>1 DEF DatabaseIInv, DatabaseTypeOK, Give, WorkerState
<1>4. Sorted' /\ WorksForCaller' /\ OneTransaction' /\ SeenIsCurrent'
  BY <1>1, <1>2
     DEF DatabaseIInv, Sorted, WorksForCaller, OneTransaction, SeenIsCurrent,
         InTransaction, Give
<1>5. AppliedIsTaken'
  <2>1. Phase(o) = "called"
    BY DEF Give, Phase, DatabaseIInv, WorksForCaller
  <2>2. \A p \in Operation \ {o}: Phase(p)' = Phase(p)
    BY <1>1, <1>2 DEF Phase
  <2>3. \A i \in DOMAIN db: db[i] \in Operation
    BY DEF DatabaseIInv, DatabaseTypeOK, Operation
  <2> QED
    BY <1>1, <2>1, <2>2, <2>3 DEF DatabaseIInv, AppliedIsTaken, Took
<1> QED
  BY <1>1, <1>3, <1>4, <1>5 DEF DatabaseIInv, AppliedOnce

\* The three steps of a caller leave the threads and the content alone.
LEMMA CallerInv ==
    ASSUME DatabaseIInv, NEW o \in Operation, Call(o) \/ TimeOut(o) \/ Answer(o)
    PROVE  DatabaseIInv'
<1>1. CASE Call(o)
  <2>1. Phase(o) \notin {"applied", "ok"} /\ caller[o] \notin Waiting
    BY <1>1 DEF Call, Phase, Waiting
  <2>2. \A p \in Operation \ {o}: Phase(p)' = Phase(p)
    BY <1>1 DEF Call, Phase, DatabaseIInv, DatabaseTypeOK
  <2>3. \A i \in DOMAIN db: db[i] \in Operation \ {o}
    BY <2>1 DEF DatabaseIInv, DatabaseTypeOK, Operation, AppliedIsTaken, Took
  <2>4. AppliedIsTaken' /\ AppliedOnce'
    BY <1>1, <2>2, <2>3 DEF Call, DatabaseIInv, AppliedIsTaken, Took, AppliedOnce
  <2>5. DatabaseTypeOK'
    BY <1>1 DEF Call, DatabaseIInv, DatabaseTypeOK, Waiting, WorkerState
  <2>6. Sorted' /\ WorksForCaller' /\ OneTransaction' /\ SeenIsCurrent'
    BY <1>1, <2>1
       DEF Call, DatabaseIInv, DatabaseTypeOK, Sorted, WorksForCaller, OneTransaction,
           SeenIsCurrent, InTransaction, Waiting
  <2> QED
    BY <2>4, <2>5, <2>6 DEF DatabaseIInv
<1>2. CASE TimeOut(o)
  <2>1. \A p \in Operation: Phase(p)' = Phase(p)
    BY <1>2 DEF TimeOut, Phase, DatabaseIInv, DatabaseTypeOK, Waiting
  <2>2. \A i \in DOMAIN db: db[i] \in Operation
    BY DEF DatabaseIInv, DatabaseTypeOK, Operation
  <2>3. AppliedIsTaken' /\ AppliedOnce'
    BY <1>2, <2>1, <2>2 DEF TimeOut, DatabaseIInv, AppliedIsTaken, Took, AppliedOnce
  <2>4. DatabaseTypeOK'
    BY <1>2 DEF TimeOut, DatabaseIInv, DatabaseTypeOK, Waiting
  <2>5. Sorted' /\ WorksForCaller' /\ OneTransaction' /\ SeenIsCurrent'
    BY <1>2
       DEF TimeOut, DatabaseIInv, DatabaseTypeOK, Sorted, WorksForCaller, OneTransaction,
           SeenIsCurrent, Waiting
  <2> QED
    BY <2>3, <2>4, <2>5 DEF DatabaseIInv
<1>3. CASE Answer(o)
  <2>1. Reported(o) \in Answered /\ Reported(o) \notin Waiting
    BY DEF Reported, Answered, Waiting
  <2>2. Took(o) => Took(o)'
    BY <1>3, <2>1 DEF Answer, Took, Phase, Reported, DatabaseIInv, DatabaseTypeOK
  <2>3. \A p \in Operation \ {o}: Phase(p)' = Phase(p)
    BY <1>3 DEF Answer, Phase, DatabaseIInv, DatabaseTypeOK
  <2>4. \A i \in DOMAIN db: db[i] \in Operation
    BY DEF DatabaseIInv, DatabaseTypeOK, Operation
  <2>5. AppliedIsTaken' /\ AppliedOnce'
    BY <1>3, <2>2, <2>3, <2>4 DEF Answer, DatabaseIInv, AppliedIsTaken, Took, AppliedOnce
  <2>6. DatabaseTypeOK'
    BY <1>3, <2>1 DEF Answer, DatabaseIInv, DatabaseTypeOK
  <2>7. Sorted' /\ WorksForCaller' /\ OneTransaction' /\ SeenIsCurrent'
    BY <1>3, <2>1
       DEF Answer, DatabaseIInv, DatabaseTypeOK, Sorted, WorksForCaller, OneTransaction,
           SeenIsCurrent
  <2> QED
    BY <2>5, <2>6, <2>7 DEF DatabaseIInv
<1> QED
  BY <1>1, <1>2, <1>3

LEMMA WriteInv == ASSUME DatabaseIInv, NEW o \in Operation, Write(o) PROVE DatabaseIInv'
<1>1. CASE Give(o, "writing", "failed")
  BY <1>1, GiveInv DEF Outcome
<1>2. CASE ~Give(o, "writing", "failed")
  <2>1. /\ worker[o] = "writing"
        /\ UNCHANGED <<caller, cancelled, outcome, db>>
        /\ worker' = [worker EXCEPT ![o] = "written"]
        /\ seen' = [seen EXCEPT ![o] = db]
    BY <1>2 DEF Write
  <2>2. DatabaseTypeOK'
    BY <2>1 DEF DatabaseIInv, DatabaseTypeOK, WorkerState, InTransaction
  <2>3. Sorted' /\ WorksForCaller' /\ OneTransaction' /\ SeenIsCurrent'
    BY <2>1
       DEF DatabaseIInv, DatabaseTypeOK, Sorted, WorksForCaller, OneTransaction, SeenIsCurrent,
           InTransaction
  <2>4. \A p \in Operation: Phase(p)' = Phase(p)
    BY <2>1 DEF Phase, DatabaseIInv, DatabaseTypeOK
  <2>5. \A i \in DOMAIN db: db[i] \in Operation
    BY DEF DatabaseIInv, DatabaseTypeOK, Operation
  <2>6. AppliedIsTaken' /\ AppliedOnce'
    BY <2>1, <2>4, <2>5 DEF DatabaseIInv, AppliedIsTaken, Took, AppliedOnce
  <2> QED
    BY <2>2, <2>3, <2>6 DEF DatabaseIInv
<1> QED
  BY <1>1, <1>2

\* The commit: what the write has seen is what the database holds.
LEMMA CommitApplies ==
    ASSUME DatabaseIInv, NEW o \in Operation, Commit(o),
           ~Give(o, "committing", "commitFailed")
    PROVE  /\ o \in Writer
           /\ db' = Append(db, o)
           /\ Moves(o, "called", "applied")
<1>1. /\ worker[o] = "committing"
      /\ worker' = [worker EXCEPT ![o] = "done"]
      /\ outcome' = [outcome EXCEPT ![o] = "ok"]
      /\ db' = Append(seen[o], o)
      /\ UNCHANGED caller
  BY DEF Commit
<1>2. o \in Writer /\ seen[o] = db
  BY <1>1 DEF DatabaseIInv, Sorted, SeenIsCurrent, InTransaction
<1>3. caller[o] \in Waiting
  BY <1>1 DEF DatabaseIInv, WorksForCaller
<1> QED
  BY <1>1, <1>2, <1>3 DEF Moves, Phase, DatabaseIInv, DatabaseTypeOK

LEMMA CommitInv == ASSUME DatabaseIInv, NEW o \in Operation, Commit(o) PROVE DatabaseIInv'
<1>1. CASE Give(o, "committing", "commitFailed")
  BY <1>1, GiveInv DEF Outcome
<1>2. CASE ~Give(o, "committing", "commitFailed")
  <2>1. /\ worker[o] = "committing"
        /\ worker' = [worker EXCEPT ![o] = "done"]
        /\ outcome' = [outcome EXCEPT ![o] = "ok"]
        /\ UNCHANGED <<caller, cancelled, seen>>
    BY <1>2 DEF Commit
  <2>2. o \in Writer /\ db' = Append(db, o) /\ Moves(o, "called", "applied")
    BY <1>2, CommitApplies
  <2>3. db \in Seq(Writer) /\ db' \in Seq(Writer)
    BY <2>2 DEF DatabaseIInv, DatabaseTypeOK
  <2>4. DatabaseTypeOK'
    BY <2>1, <2>3 DEF DatabaseIInv, DatabaseTypeOK, WorkerState, Outcome
  <2>5. Sorted' /\ WorksForCaller' /\ OneTransaction'
    BY <2>1
       DEF DatabaseIInv, DatabaseTypeOK, Sorted, WorksForCaller, OneTransaction, InTransaction
  <2>6. SeenIsCurrent'
    BY <2>1 DEF DatabaseIInv, DatabaseTypeOK, OneTransaction, SeenIsCurrent, InTransaction
  <2>7. \A i \in DOMAIN db: db[i] \in Operation \ {o}
    BY <2>2, <2>3 DEF DatabaseIInv, AppliedIsTaken, Took, Moves, Operation
  <2>8. \A i \in DOMAIN db':
           IF i \in DOMAIN db THEN db'[i] = db[i] ELSE db'[i] = o /\ i = Len(db) + 1
    BY <2>2, <2>3
  <2>9. \A p \in Operation: Took(p) \/ p = o => Took(p)'
    BY <2>2 DEF Took, Moves
  <2>10. AppliedIsTaken'
    BY <2>7, <2>8, <2>9 DEF DatabaseIInv, AppliedIsTaken
  <2>11. AppliedOnce'
    BY <2>7, <2>8 DEF DatabaseIInv, AppliedOnce
  <2> QED
    BY <2>4, <2>5, <2>6, <2>10, <2>11 DEF DatabaseIInv
<1> QED
  BY <1>1, <1>2

LEMMA WorkerInv == ASSUME DatabaseIInv, NEW o \in Operation, WorkerStep(o) PROVE DatabaseIInv'
<1> USE DEF Checked, Outcome
<1>a. o \in Writer \/ o \in Reader
  BY DEF Operation
<1>1. CASE CheckQueued(o)
  BY <1>1, StepInv, GiveInv DEF CheckQueued, WorkerState, InTransaction
<1>2. CASE Open(o)
  BY <1>2, StepInv, GiveInv DEF Open, WorkerState, InTransaction
<1>3. CASE CheckOpened(o)
  BY <1>3, <1>a, StepInv, GiveInv DEF CheckOpened, WorkerState, InTransaction
<1>4. CASE Begin(o)
  <2>1. worker[o] = "beginning" => o \in Writer
    BY DEF DatabaseIInv, Sorted
  <2>2. Step(o, "beginning", "begun") => worker[o] = "beginning"
    BY DEF Step
  <2> QED
    BY <1>4, <2>1, <2>2, StepInv, GiveInv DEF Begin, WorkerState, InTransaction
<1>5. CASE CheckBegun(o)
  <2>1. worker[o] = "begun" => o \in Writer
    BY DEF DatabaseIInv, Sorted, InTransaction
  <2>2. Step(o, "begun", "writing") => worker[o] = "begun"
    BY DEF Step
  <2> QED
    BY <1>5, <2>1, <2>2, StepInv, GiveInv DEF CheckBegun, WorkerState, InTransaction
<1>6. CASE Write(o)
  BY <1>6, WriteInv
<1>7. CASE CheckWritten(o)
  <2>1. worker[o] = "written" => o \in Writer
    BY DEF DatabaseIInv, Sorted, InTransaction
  <2>2. Step(o, "written", "committing") => worker[o] = "written"
    BY DEF Step
  <2> QED
    BY <1>7, <2>1, <2>2, StepInv, GiveInv
       DEF CheckWritten, WorkerState, InTransaction
<1>8. CASE Commit(o)
  BY <1>8, CommitInv
<1>9. CASE Read(o)
  <2>1. worker[o] = "reading" => o \in Reader
    BY DEF DatabaseIInv, Sorted
  <2>2. Step(o, "reading", "read") => worker[o] = "reading"
    BY DEF Step
  <2> QED
    BY <1>9, <2>1, <2>2, StepInv, GiveInv DEF Read, WorkerState, InTransaction
<1>10. CASE CheckRead(o)
  BY <1>10, GiveInv DEF CheckRead
<1> QED
  BY <1>1, <1>2, <1>3, <1>4, <1>5, <1>6, <1>7, <1>8, <1>9, <1>10 DEF WorkerStep

LEMMA NextInv == DatabaseIInv /\ [DatabaseNext]_databaseVars => DatabaseIInv'
<1> SUFFICES ASSUME DatabaseIInv, [DatabaseNext]_databaseVars PROVE DatabaseIInv'
  OBVIOUS
<1>1. CASE DatabaseNext
  <2>1. PICK o \in Operation:
           Call(o) \/ TimeOut(o) \/ Answer(o) \/ WorkerStep(o)
    BY <1>1 DEF DatabaseNext
  <2> QED
    BY <2>1, CallerInv, WorkerInv
<1>2. CASE UNCHANGED databaseVars
  BY <1>2
     DEF databaseVars, DatabaseIInv, DatabaseTypeOK, Sorted, WorksForCaller, OneTransaction,
         SeenIsCurrent, AppliedIsTaken, Took, Phase, AppliedOnce
<1> QED
  BY <1>1, <1>2

LEMMA Invariance == DatabaseSpec => []DatabaseIInv
BY InitInv, NextInv, PTL DEF DatabaseSpec

\* The variables of the database layer keep their types.
THEOREM DatabaseTypeCorrect == DatabaseSpec => []DatabaseTypeOK
BY Invariance, PTL DEF DatabaseIInv

\* A write that is tried again is in the database at most once.
THEOREM AppliedOnceCorrect == DatabaseSpec => []AppliedOnce
BY Invariance, PTL DEF DatabaseIInv

-----------------------------------------------------------------------------
(* Database implements AtomicStore *)

\* A change of phase together with its effect on the content is a step of
\* AtomicStore.
LEMMA AbstractStep ==
    ASSUME NEW o \in Operation,
           \/ /\ \E a \in {"idle", "error", "timeout"}: Moves(o, a, "called")
              /\ UNCHANGED db
           \/ /\ Moves(o, "called", "applied")
              /\ db' = IF o \in Writer THEN Append(db, o) ELSE db
           \/ Moves(o, "called", "refused") /\ UNCHANGED db
           \/ Moves(o, "applied", "ok") /\ UNCHANGED db
           \/ /\ \E a \in {"error", "timeout"}: Moves(o, "refused", a)
              /\ UNCHANGED db
    PROVE  Abstract!Next
<1> USE PhasesMove DEF Phases
<1>1. CASE /\ \E a \in {"idle", "error", "timeout"}: Moves(o, a, "called")
           /\ UNCHANGED db
  <2> QED
    BY <1>1 DEF Abstract!Next, Abstract!Operation, Operation, Abstract!Call,
                Abstract!Callable
<1>2. CASE /\ Moves(o, "called", "applied")
           /\ db' = IF o \in Writer THEN Append(db, o) ELSE db
  BY <1>2 DEF Abstract!Next, Abstract!Operation, Operation, Abstract!Apply
<1>3. CASE Moves(o, "called", "refused") /\ UNCHANGED db
  BY <1>3 DEF Abstract!Next, Abstract!Operation, Operation, Abstract!Refuse
<1>4. CASE Moves(o, "applied", "ok") /\ UNCHANGED db
  BY <1>4 DEF Abstract!Next, Abstract!Operation, Operation, Abstract!Answer
<1>5. CASE /\ \E a \in {"error", "timeout"}: Moves(o, "refused", a)
           /\ UNCHANGED db
  BY <1>5 DEF Abstract!Next, Abstract!Operation, Operation, Abstract!Answer
<1> QED
  BY <1>1, <1>2, <1>3, <1>4, <1>5

LEMMA AbstractStutter ==
    ASSUME UNCHANGED db, \A p \in Operation: Phase(p)' = Phase(p)
    PROVE  UNCHANGED Abstract!vars
BY PhasesStay DEF Phases, Abstract!vars

LEMMA CallerImplements ==
    ASSUME DatabaseIInv, NEW o \in Operation, Call(o) \/ TimeOut(o) \/ Answer(o)
    PROVE  [Abstract!Next]_(Abstract!vars)
<1>1. CASE Call(o)
  <2>1. Phase(o) \in {"idle", "error", "timeout"} /\ Phase(o)' = "called"
    BY <1>1 DEF Call, Phase, Waiting, DatabaseIInv, DatabaseTypeOK
  <2>2. \A p \in Operation \ {o}: Phase(p)' = Phase(p)
    BY <1>1 DEF Call, Phase, DatabaseIInv, DatabaseTypeOK
  <2> QED
    BY <1>1, <2>1, <2>2, AbstractStep DEF Moves, Call
<1>2. CASE TimeOut(o)
  <2>1. \A p \in Operation: Phase(p)' = Phase(p)
    BY <1>2 DEF TimeOut, Phase, DatabaseIInv, DatabaseTypeOK, Waiting
  <2> QED
    BY <1>2, <2>1, AbstractStutter DEF TimeOut
<1>3. CASE Answer(o)
  <2>1. \A p \in Operation \ {o}: Phase(p)' = Phase(p)
    BY <1>3 DEF Answer, Phase, DatabaseIInv, DatabaseTypeOK
  <2>2. IF outcome[o] = "ok"
        THEN Phase(o) = "applied" /\ Phase(o)' = "ok"
        ELSE Phase(o) = "refused" /\ Phase(o)' \in {"error", "timeout"}
    BY <1>3 DEF Answer, Phase, Reported, Waiting, DatabaseIInv, DatabaseTypeOK
  <2> QED
    BY <1>3, <2>1, <2>2, AbstractStep DEF Moves, Answer
<1> QED
  BY <1>1, <1>2, <1>3

\* What a step of a thread is: it goes on, gives up, or takes effect.
LEMMA WorkerImplements ==
    ASSUME DatabaseIInv, NEW o \in Operation, WorkerStep(o)
    PROVE  [Abstract!Next]_(Abstract!vars)
<1>a. ASSUME NEW from, NEW to, Step(o, from, to),
             from \notin {"idle", "done"}, to # "done"
      PROVE  [Abstract!Next]_(Abstract!vars)
  BY <1>a, StepStutters, AbstractStutter
<1>b. ASSUME NEW from, NEW result, Give(o, from, result),
             from \notin {"idle", "done"}, result # "ok"
      PROVE  [Abstract!Next]_(Abstract!vars)
  BY <1>b, GiveRefuses, AbstractStep
<1>1. CASE CheckQueued(o) \/ Open(o) \/ CheckOpened(o) \/ Begin(o)
           \/ CheckBegun(o) \/ CheckWritten(o) \/ Read(o)
  BY <1>1, <1>a, <1>b
     DEF CheckQueued, Open, CheckOpened, Begin, CheckBegun, CheckWritten, Read,
         Checked
<1>2. CASE Write(o)
  <2>1. CASE Give(o, "writing", "failed")
    BY <2>1, <1>b
  <2>2. CASE ~Give(o, "writing", "failed")
    <3>1. UNCHANGED <<caller, outcome, db>> /\ worker[o] = "writing"
          /\ worker' = [worker EXCEPT ![o] = "written"]
      BY <1>2, <2>2 DEF Write
    <3>2. \A p \in Operation: Phase(p)' = Phase(p)
      BY <3>1 DEF Phase, DatabaseIInv, DatabaseTypeOK
    <3> QED
      BY <3>1, <3>2, AbstractStutter
  <2> QED
    BY <2>1, <2>2
<1>3. CASE Commit(o)
  <2>1. CASE Give(o, "committing", "commitFailed")
    BY <2>1, <1>b
  <2>2. CASE ~Give(o, "committing", "commitFailed")
    BY <1>3, <2>2, CommitApplies, AbstractStep
  <2> QED
    BY <2>1, <2>2
<1>4. CASE CheckRead(o)
  <2>1. CASE cancelled[o]
    BY <1>4, <2>1, <1>b DEF CheckRead
  <2>2. CASE ~cancelled[o]
    <3>1. worker[o] = "read" /\ Give(o, "read", "ok")
      BY <1>4, <2>2 DEF CheckRead, Give
    <3>2. o \notin Writer
      BY <3>1, OperationAssumption DEF DatabaseIInv, Sorted
    <3>3. Moves(o, "called", "applied")
      BY <3>1 DEF Give, Moves, Phase, DatabaseIInv, DatabaseTypeOK, WorksForCaller
    <3> QED
      BY <3>1, <3>2, <3>3, AbstractStep DEF Give
  <2> QED
    BY <2>1, <2>2
<1> QED
  BY <1>1, <1>2, <1>3, <1>4 DEF WorkerStep

\* What the services rely on: an awaited write or read takes effect at one point
\* between call and answer or not at all, and its answer says which.
THEOREM Implementation == DatabaseSpec => ImplementsAtomicStore
<1>1. DatabaseInit => Abstract!Init
  BY DEF DatabaseInit, Abstract!Init, Abstract!Operation, Operation, Phase, Waiting
<1>2. DatabaseIInv /\ [DatabaseNext]_databaseVars => [Abstract!Next]_(Abstract!vars)
  <2> SUFFICES ASSUME DatabaseIInv, [DatabaseNext]_databaseVars PROVE [Abstract!Next]_(Abstract!vars)
    OBVIOUS
  <2>1. CASE DatabaseNext
    <3>1. PICK o \in Operation:
             Call(o) \/ TimeOut(o) \/ Answer(o) \/ WorkerStep(o)
      BY <2>1 DEF DatabaseNext
    <3> QED
      BY <3>1, CallerImplements, WorkerImplements
  <2>2. CASE UNCHANGED databaseVars
    <3>1. UNCHANGED db /\ \A p \in Operation: Phase(p)' = Phase(p)
      BY <2>2 DEF databaseVars, Phase
    <3> QED
      BY <3>1, AbstractStutter
  <2> QED
    BY <2>1, <2>2
<1> QED
  BY <1>1, <1>2, Invariance, PTL DEF DatabaseSpec, ImplementsAtomicStore, Abstract!Spec

-----------------------------------------------------------------------------
(* Workspaces: tables. *)

Table == [Workspace -> Row \cup {None, Gone}]
ProjectTable == [Project -> ProjectRow \cup {None, Gone}]

AtMostOne(t) == \A w, x \in Defaults(t) : w = x

LEMMA NoRows == None \notin Row /\ Gone \notin Row /\ None \notin ProjectRow /\ Gone \notin ProjectRow
BY WorkspacesAssumption

LEMMA LiveRows ==
    ASSUME NEW t \in Table
    PROVE  /\ Live(t) = {w \in Workspace : t[w] \in Row}
           /\ Defaults(t) = {w \in Workspace : t[w] \in Row /\ t[w].default}
           /\ DOMAIN t = Workspace
BY NoRows DEF Table, Live, Defaults

LEMMA LiveProjects ==
    ASSUME NEW t \in ProjectTable
    PROVE  /\ Live(t) = {p \in Project : t[p] \in ProjectRow}
           /\ Unused(t) = {p \in Project : t[p] = None}
           /\ DOMAIN t = Project
BY NoRows DEF ProjectTable, Live, Unused

Flagged(r, b) == [r EXCEPT !.default = b]
Relabelled(r, d) == [r EXCEPT !.data = d]

LEMMA FlaggedRow ==
    ASSUME NEW r \in Row, NEW b \in BOOLEAN
    PROVE  Flagged(r, b) \in Row /\ Flagged(r, b).data = r.data /\ Flagged(r, b).default = b
BY DEF Row, Flagged

LEMMA RelabelledRow ==
    ASSUME NEW r \in Row, NEW d \in Data
    PROVE  /\ Relabelled(r, d) \in Row /\ Relabelled(r, d).data = d
           /\ Relabelled(r, d).default = r.default
BY DEF Row, Relabelled

LEMMA WithDefaultKeeps ==
    ASSUME NEW t \in Table, NEW w
    PROVE  /\ WithDefault(t, w) \in Table /\ AtMostOne(WithDefault(t, w))
           /\ Live(WithDefault(t, w)) = Live(t)
           /\ \A x \in Live(t) : WithDefault(t, w)[x].data = t[x].data
<1> DEFINE u == WithDefault(t, w)
<1>1. u = [x \in Workspace |-> IF x \in Live(t) THEN [t[x] EXCEPT !.default = (x = w)] ELSE t[x]]
  BY LiveRows DEF WithDefault
<1>2. ASSUME NEW x \in Live(t)
      PROVE  u[x] \in Row /\ u[x].default = (x = w) /\ u[x].data = t[x].data
  <2>1. t[x] \in Row /\ x \in Workspace
    BY LiveRows
  <2> DEFINE b == (x = w)
  <2>2. u[x] = Flagged(t[x], b)
    BY <1>1, <2>1 DEF Flagged
  <2>3. b \in BOOLEAN
    OBVIOUS
  <2> HIDE DEF u, b
  <2>5. u[x] \in Row /\ u[x].default = b /\ u[x].data = t[x].data
    BY <2>1, <2>2, <2>3, FlaggedRow, Zenon
  <2> QED
    BY <2>5 DEF b
<1>3. ASSUME NEW x \in Workspace \ Live(t) PROVE u[x] = t[x] /\ t[x] \in {None, Gone}
  BY <1>1, LiveRows DEF Table
<1> HIDE DEF u
<1>4. u \in Table
  BY <1>1, <1>2, <1>3 DEF Table
<1>5. Live(u) = Live(t)
  <2>1. \A x \in Workspace : u[x] \in Row <=> x \in Live(t)
    BY <1>2, <1>3, NoRows
  <2> QED
    BY <1>4, <2>1, LiveRows
<1>6. AtMostOne(u)
  BY <1>2, <1>5, Zenon DEF AtMostOne, Defaults
<1> QED
  BY <1>2, <1>4, <1>5, <1>6 DEF u

\* A table whose defaults were all defaults of another has no more of them.
LEMMA FewerDefaults ==
    ASSUME NEW t, AtMostOne(t), NEW u, Defaults(u) \subseteq Defaults(t)
    PROVE  AtMostOne(u)
BY DEF AtMostOne

\* A row put into a table.
LEMMA PutRow ==
    ASSUME NEW t \in Table, NEW w \in Workspace, NEW r \in Row \cup {None, Gone}
    PROVE  /\ [t EXCEPT ![w] = r] \in Table
           /\ \A x \in Workspace : [t EXCEPT ![w] = r][x] = IF x = w THEN r ELSE t[x]
BY DEF Table

LEMMA PutKeeps ==
    ASSUME NEW t \in Table, AtMostOne(t), NEW w \in Workspace, NEW r \in Row \cup {None, Gone},
           r \in Row /\ r.default => Defaults(t) \subseteq {w}
    PROVE  [t EXCEPT ![w] = r] \in Table /\ AtMostOne([t EXCEPT ![w] = r])
<1> DEFINE u == [t EXCEPT ![w] = r]
<1>1. u \in Table /\ \A x \in Workspace : u[x] = IF x = w THEN r ELSE t[x]
  BY PutRow
<1> HIDE DEF u
<1>2. ASSUME NEW x \in Defaults(u), NEW y \in Defaults(u) PROVE x = y
  <2>1. x \in Workspace /\ u[x] \in Row /\ u[x].default /\ y \in Workspace /\ u[y] \in Row /\ u[y].default
    BY <1>1, LiveRows, Zenon
  <2>2. CASE x = w /\ y # w
    <3>1. r \in Row /\ r.default /\ t[y] \in Row /\ t[y].default
      BY <1>1, <2>1, <2>2, Zenon
    <3>2. y \in Defaults(t)
      BY <2>1, <3>1, LiveRows, Zenon
    <3>3. Defaults(t) \subseteq {w}
      BY <3>1, Zenon
    <3> QED
      BY <2>2, <3>2, <3>3
  <2>3. CASE x # w /\ y = w
    <3>1. r \in Row /\ r.default /\ t[x] \in Row /\ t[x].default
      BY <1>1, <2>1, <2>3, Zenon
    <3>2. x \in Defaults(t)
      BY <2>1, <3>1, LiveRows, Zenon
    <3>3. Defaults(t) \subseteq {w}
      BY <3>1, Zenon
    <3> QED
      BY <2>3, <3>2, <3>3
  <2>4. CASE x # w /\ y # w
    <3>1. t[x] \in Row /\ t[x].default /\ t[y] \in Row /\ t[y].default
      BY <1>1, <2>1, <2>4, Zenon
    <3> QED
      BY <2>1, <3>1, LiveRows, Zenon DEF AtMostOne
  <2> QED
    BY <2>2, <2>3, <2>4
<1> QED
  BY <1>1, <1>2 DEF AtMostOne, u

LEMMA PutProject ==
    ASSUME NEW t \in ProjectTable, NEW p \in Project, NEW r \in ProjectRow \cup {None, Gone}
    PROVE  [t EXCEPT ![p] = r] \in ProjectTable
BY DEF ProjectTable

-----------------------------------------------------------------------------
(* The commands. *)

TablesOK(t, u) == t \in Table /\ AtMostOne(t) /\ u \in ProjectTable

LEMMA RegisterFolderKeeps ==
    ASSUME TablesOK(workspaces, projects), NEW w \in Workspace, NEW p \in Project,
           NEW path \in Path, RegisterFolder(w, p, path)
    PROVE  TablesOK(workspaces', projects')
<1>1. PICK data \in Data :
        /\ workspaces' = [workspaces EXCEPT ![w] =
              [default |-> Live(workspaces) = {}, data |-> data]]
        /\ projects' = [projects EXCEPT ![p] = [workspace |-> w, path |-> path, data |-> data]]
  BY Zenon DEF RegisterFolder
<1> DEFINE b == Live(workspaces) = {}
           row == [default |-> b, data |-> data]
           other == [workspace |-> w, path |-> path, data |-> data]
<1>2. other \in ProjectRow
  BY DEF ProjectRow
<1>3. b \in BOOLEAN
  BY Zenon
<1>4. b => Defaults(workspaces) = {}
  BY DEF Defaults
<1> HIDE DEF b
<1>5. row \in Row /\ row.default = b
  BY <1>3 DEF Row
<1> HIDE DEF row, other
<1>6. [workspaces EXCEPT ![w] = row] \in Table /\ AtMostOne([workspaces EXCEPT ![w] = row])
  BY <1>4, <1>5, PutKeeps, Zenon DEF TablesOK
<1>7. [projects EXCEPT ![p] = other] \in ProjectTable
  BY <1>2, PutProject DEF TablesOK
<1> QED
  BY <1>1, <1>6, <1>7, Zenon DEF TablesOK, row, b, other

LEMMA UpsertWorkspaceKeeps ==
    ASSUME TablesOK(workspaces, projects), NEW w \in Workspace, NEW row \in Row,
           UpsertWorkspace(w, row)
    PROVE  TablesOK(workspaces', projects')
<1> DEFINE saved == [workspaces EXCEPT ![w] = row]
<1>1. saved \in Table
  BY PutRow DEF TablesOK
<1>2. workspaces' = (IF row.default THEN WithDefault(saved, w) ELSE saved) /\ projects' = projects
  BY Zenon DEF UpsertWorkspace
<1>3. CASE row.default
  <2>1. workspaces' = WithDefault(saved, w)
    BY <1>2, <1>3, Zenon
  <2> HIDE DEF saved
  <2> QED
    BY <1>1, <1>2, <2>1, WithDefaultKeeps DEF TablesOK
<1>4. CASE ~row.default
  <2>1. saved \in Table /\ AtMostOne(saved)
    BY <1>4, PutKeeps, Zenon DEF TablesOK
  <2>2. workspaces' = saved
    BY <1>2, <1>4, Zenon
  <2> QED
    BY <1>2, <2>1, <2>2 DEF TablesOK
<1> QED
  BY <1>3, <1>4

LEMMA UpdateDescriptionKeeps ==
    ASSUME TablesOK(workspaces, projects), NEW w \in Workspace, NEW data \in Data,
           UpdateDescription(w, data)
    PROVE  TablesOK(workspaces', projects')
<1> DEFINE row == Relabelled(workspaces[w], data)
<1>1. workspaces' = [workspaces EXCEPT ![w] = row] /\ projects' = projects /\ workspaces[w] \in Row
  <2>1. workspaces' = [workspaces EXCEPT ![w].data = data] /\ projects' = projects /\ w \in Live(workspaces)
    BY DEF UpdateDescription
  <2> QED
    BY <2>1, LiveRows DEF TablesOK, Relabelled
<1>2. row \in Row /\ row.default = workspaces[w].default
  BY <1>1, RelabelledRow
<1> HIDE DEF row
<1>3. row.default => Defaults(workspaces) \subseteq {w}
  <2>1. ASSUME row.default PROVE w \in Defaults(workspaces)
    BY <1>1, <1>2, <2>1, LiveRows, Zenon DEF TablesOK
  <2> QED
    BY <2>1 DEF TablesOK, AtMostOne
<1>4. [workspaces EXCEPT ![w] = row] \in Table /\ AtMostOne([workspaces EXCEPT ![w] = row])
  BY <1>2, <1>3, PutKeeps, Zenon DEF TablesOK
<1> QED
  BY <1>1, <1>4 DEF TablesOK

LEMMA ChangeWorkspacesKeeps ==
    ASSUME TablesOK(workspaces, projects), NEW ws \in SUBSET Workspace, NEW data \in [ws -> Data],
           ChangeWorkspaces(ws, data)
    PROVE  TablesOK(workspaces', projects')
<1>1. /\ workspaces' = [w \in Workspace |->
            IF w \in ws THEN Relabelled(workspaces[w], data[w]) ELSE workspaces[w]]
      /\ projects' = projects /\ ws \subseteq Live(workspaces)
  BY DEF ChangeWorkspaces, Relabelled
<1>2. ASSUME NEW w \in ws
      PROVE  workspaces'[w] \in Row /\ workspaces'[w].default = workspaces[w].default
             /\ workspaces[w] \in Row
  <2>1. workspaces'[w] = Relabelled(workspaces[w], data[w]) /\ data[w] \in Data
    BY <1>1
  <2>2. workspaces[w] \in Row
    BY <1>1, LiveRows DEF TablesOK
  <2> QED
    BY <2>1, <2>2, RelabelledRow
<1>3. ASSUME NEW w \in Workspace \ ws PROVE workspaces'[w] = workspaces[w]
  BY <1>1
<1>4. workspaces' \in Table
  BY <1>1, <1>2, <1>3 DEF TablesOK, Table
<1>5. Defaults(workspaces') \subseteq Defaults(workspaces)
  <2>1. ASSUME NEW w \in Defaults(workspaces') PROVE w \in Defaults(workspaces)
    <3>1. w \in Workspace /\ workspaces'[w] \in Row /\ workspaces'[w].default
      BY <1>4, <2>1, LiveRows, Zenon
    <3>2. workspaces[w] \in Row /\ workspaces[w].default
      BY <1>2, <1>3, <3>1, Zenon
    <3> QED
      BY <3>1, <3>2, LiveRows, Zenon DEF TablesOK
  <2> QED
    BY <2>1
<1> QED
  BY <1>1, <1>4, <1>5, FewerDefaults DEF TablesOK

LEMMA DeleteWorkspaceKeeps ==
    ASSUME TablesOK(workspaces, projects), NEW w \in Workspace, DeleteWorkspace(w)
    PROVE  TablesOK(workspaces', projects')
<1>1. workspaces' = [workspaces EXCEPT ![w] = Gone] /\ projects' = projects
  BY DEF DeleteWorkspace
<1>2. [workspaces EXCEPT ![w] = Gone] \in Table /\ AtMostOne([workspaces EXCEPT ![w] = Gone])
  BY NoRows, PutKeeps, Zenon DEF TablesOK
<1> QED
  BY <1>1, <1>2 DEF TablesOK

\* The default is gone, so another row may be marked.
LEMMA PromoteKeeps ==
    ASSUME NEW t \in Table, AtMostOne(t), NEW w \in Live(t), t[w].default,
           NEW rest, rest = [t EXCEPT ![w] = Gone], NEW next \in Live(rest)
    PROVE  /\ [rest EXCEPT ![next].default = TRUE] \in Table
           /\ AtMostOne([rest EXCEPT ![next].default = TRUE])
<1> DEFINE r == Flagged(rest[next], TRUE)
<1>1. w \in Workspace /\ w \in Defaults(t)
  BY LiveRows DEF Defaults
<1>2. rest \in Table /\ AtMostOne(rest)
  BY <1>1, NoRows, PutKeeps, Zenon
<1>3. \A x \in Workspace : rest[x] = IF x = w THEN Gone ELSE t[x]
  BY <1>1 DEF Table
<1>4. Defaults(rest) = {}
  <2> SUFFICES ASSUME NEW x \in Defaults(rest) PROVE FALSE
    OBVIOUS
  <2>1. x \in Workspace /\ rest[x] \in Row /\ rest[x].default
    BY <1>2, LiveRows, Zenon
  <2>2. x # w /\ rest[x] = t[x]
    BY <1>3, <2>1, NoRows
  <2>3. x \in Defaults(t)
    BY <2>1, <2>2, LiveRows
  <2> QED
    BY <1>1, <2>2, <2>3 DEF AtMostOne
<1>5. next \in Workspace /\ rest[next] \in Row
  BY <1>2, LiveRows
<1>6. r \in Row
  BY <1>5, FlaggedRow
<1>7. [rest EXCEPT ![next].default = TRUE] = [rest EXCEPT ![next] = r]
  BY DEF Flagged
<1>8. [rest EXCEPT ![next] = r] \in Table /\ AtMostOne([rest EXCEPT ![next] = r])
  <2> HIDE DEF r
  <2> QED
    BY <1>2, <1>4, <1>5, <1>6, PutKeeps
<1> QED
  BY <1>7, <1>8

LEMMA RemoveRegistrationKeeps ==
    ASSUME TablesOK(workspaces, projects), NEW w \in Workspace, RemoveRegistration(w)
    PROVE  TablesOK(workspaces', projects')
<1> DEFINE rest == [workspaces EXCEPT ![w] = Gone]
<1>1. workspaces \in Table /\ AtMostOne(workspaces) /\ rest \in Table /\ AtMostOne(rest)
  BY NoRows, PutKeeps, Zenon DEF TablesOK
<1>2. projects' \in ProjectTable
  BY DEF RemoveRegistration, TablesOK, ProjectTable
<1>3. \/ workspaces' = rest
      \/ /\ w \in Live(workspaces) /\ workspaces[w].default
         /\ \E next \in Live(rest) : workspaces' = [rest EXCEPT ![next].default = TRUE]
  BY Zenon DEF RemoveRegistration
<1>4. workspaces' \in Table /\ AtMostOne(workspaces')
  <2>1. CASE workspaces' = rest
    BY <1>1, <2>1
  <2>2. ASSUME w \in Live(workspaces), workspaces[w].default,
               NEW next \in Live(rest), workspaces' = [rest EXCEPT ![next].default = TRUE]
        PROVE  workspaces' \in Table /\ AtMostOne(workspaces')
    <3>1. /\ [rest EXCEPT ![next].default = TRUE] \in Table
          /\ AtMostOne([rest EXCEPT ![next].default = TRUE])
      BY <1>1, <2>2, PromoteKeeps
    <3> QED
      BY <2>2, <3>1
  <2> QED
    BY <1>3, <2>1, <2>2
<1> QED
  BY <1>2, <1>4 DEF TablesOK

LEMMA UpsertProjectKeeps ==
    ASSUME TablesOK(workspaces, projects), NEW p \in Project, NEW row \in ProjectRow,
           UpsertProject(p, row)
    PROVE  TablesOK(workspaces', projects')
<1>1. projects' = [projects EXCEPT ![p] = row] /\ workspaces' = workspaces
  BY DEF UpsertProject
<1> QED
  BY <1>1, PutProject DEF TablesOK

LEMMA RelabelledProject ==
    ASSUME NEW r \in ProjectRow, NEW d \in Data
    PROVE  [r EXCEPT !.data = d] \in ProjectRow
BY DEF ProjectRow

LEMMA SaveLaunchTaskKeeps ==
    ASSUME TablesOK(workspaces, projects), NEW ps \in SUBSET Project, NEW data \in [ps -> Data],
           SaveLaunchTask(ps, data)
    PROVE  TablesOK(workspaces', projects')
<1>1. /\ projects' = [p \in Project |->
            IF p \in ps THEN [projects[p] EXCEPT !.data = data[p]] ELSE projects[p]]
      /\ workspaces' = workspaces /\ ps \subseteq Live(projects)
  BY DEF SaveLaunchTask
<1>2. ASSUME NEW p \in ps PROVE [projects[p] EXCEPT !.data = data[p]] \in ProjectRow
  <2>1. projects[p] \in ProjectRow /\ data[p] \in Data
    BY <1>1, LiveProjects DEF TablesOK
  <2> QED
    BY <2>1, RelabelledProject, Zenon
<1>3. ASSUME NEW p \in Project PROVE projects[p] \in ProjectRow \cup {None, Gone}
  BY DEF TablesOK, ProjectTable
<1>4. projects' \in ProjectTable
  BY <1>1, <1>2, <1>3, Zenon DEF ProjectTable
<1> QED
  BY <1>1, <1>4 DEF TablesOK

LEMMA ChangeLaunchTasksKeeps ==
    ASSUME TablesOK(workspaces, projects), NEW p \in Project, NEW data \in Data,
           ChangeLaunchTasks(p, data)
    PROVE  TablesOK(workspaces', projects')
<1> DEFINE row == [projects[p] EXCEPT !.data = data]
<1>1. /\ projects' = [projects EXCEPT ![p].data = data] /\ workspaces' = workspaces
      /\ p \in Live(projects)
  BY DEF ChangeLaunchTasks
<1>2. projects' = [projects EXCEPT ![p] = row] /\ projects[p] \in ProjectRow
  BY <1>1, LiveProjects DEF TablesOK
<1>3. row \in ProjectRow
  BY <1>2, RelabelledProject, Zenon
<1> HIDE DEF row
<1>4. projects' \in ProjectTable
  BY <1>2, <1>3, PutProject, Zenon DEF TablesOK
<1> QED
  BY <1>1, <1>4, Zenon DEF TablesOK

LEMMA CommandKeeps ==
    ASSUME TablesOK(workspaces, projects), Command
    PROVE  TablesOK(workspaces', projects') /\ Writable /\ CommandOnly
<1>1. ASSUME NEW w \in Workspace, NEW p \in Project, NEW path \in Path, RegisterFolder(w, p, path)
      PROVE  TablesOK(workspaces', projects') /\ Writable /\ CommandOnly
  <2>1. Writable /\ CommandOnly
    BY <1>1, Zenon DEF RegisterFolder
  <2>2. TablesOK(workspaces', projects')
    BY <1>1, RegisterFolderKeeps
  <2> QED
    BY <2>1, <2>2
<1>2. ASSUME NEW w \in Workspace, NEW row \in Row, UpsertWorkspace(w, row)
      PROVE  TablesOK(workspaces', projects') /\ Writable /\ CommandOnly
  BY <1>2, UpsertWorkspaceKeeps, Zenon DEF UpsertWorkspace
<1>3. ASSUME NEW w \in Workspace, DeleteWorkspace(w) \/ RemoveRegistration(w)
      PROVE  TablesOK(workspaces', projects') /\ Writable /\ CommandOnly
  BY <1>3, DeleteWorkspaceKeeps, RemoveRegistrationKeeps, Zenon DEF DeleteWorkspace, RemoveRegistration
<1>4. ASSUME NEW p \in Project, NEW row \in ProjectRow, UpsertProject(p, row)
      PROVE  TablesOK(workspaces', projects') /\ Writable /\ CommandOnly
  BY <1>4, UpsertProjectKeeps, Zenon DEF UpsertProject
<1>5. ASSUME NEW w \in Workspace, NEW data \in Data, UpdateDescription(w, data)
      PROVE  TablesOK(workspaces', projects') /\ Writable /\ CommandOnly
  BY <1>5, UpdateDescriptionKeeps, Zenon DEF UpdateDescription
<1>6. ASSUME NEW ws \in SUBSET Workspace, NEW data \in [ws -> Data], ChangeWorkspaces(ws, data)
      PROVE  TablesOK(workspaces', projects') /\ Writable /\ CommandOnly
  BY <1>6, ChangeWorkspacesKeeps, Zenon DEF ChangeWorkspaces
<1>7. ASSUME NEW ps \in SUBSET Project, NEW data \in [ps -> Data], SaveLaunchTask(ps, data)
      PROVE  TablesOK(workspaces', projects') /\ Writable /\ CommandOnly
  BY <1>7, SaveLaunchTaskKeeps, Zenon DEF SaveLaunchTask
<1>8. ASSUME NEW p \in Project, NEW data \in Data, ChangeLaunchTasks(p, data)
      PROVE  TablesOK(workspaces', projects') /\ Writable /\ CommandOnly
  BY <1>8, ChangeLaunchTasksKeeps, Zenon DEF ChangeLaunchTasks
<1> QED
  BY <1>1, <1>2, <1>3, <1>4, <1>5, <1>6, <1>7, <1>8, Zenon DEF Command

-----------------------------------------------------------------------------
(* An import. *)

\* An entry of a plan: nothing of a workspace that is created was matched.
Entry ==
    {e \in [action : {"skip", "create", "update"}, item : Item, workspace : Workspace \cup {None},
            matched : UNION {[paths -> Project \cup {None}] : paths \in SUBSET Path}] :
        e.action = "create" => \A path \in e.item.paths : e.matched[path] = None}

Plans == {<<>>} \cup UNION {[DOMAIN doc -> Entry] : doc \in Documents}

Job == [phase : {"idle", "analysed", "writing", "pins"}, plan : Plans, at : Nat,
        touched : Seq([workspace : Workspace, default : BOOLEAN]),
        pin : SUBSET Workspace, unpin : SUBSET Workspace]

Chosen(plan) == {plan[i].workspace : i \in DOMAIN plan}

\* What an import may have done to the tables when it has written some entries.
Spared(plan, t, u) ==
    /\ \A p \in Live(projects) :
          /\ p \in Live(u)
          /\ \/ u[p] = projects[p]
             \/ projects[p].workspace \in Chosen(plan) /\ u[p].workspace = projects[p].workspace
    /\ \A w \in Live(workspaces) :
          /\ w \in Live(t)
          /\ w \notin Chosen(plan) => t[w].data = workspaces[w].data
    /\ Defaults(t) = Defaults(workspaces)

\* Only the holder of import_lock analyses or writes, and its transaction is open
\* while it writes.
LockOK ==
    /\ job \in [Importer -> Job]
    /\ \A c \in Importer :
          /\ job[c].phase \in {"analysed", "writing"} => importing = c
          /\ job[c].phase = "writing" => draft # NoDraft

DraftOK ==
    draft # NoDraft =>
       /\ draft \in [workspaces : Table, projects : ProjectTable]
       /\ AtMostOne(draft.workspaces)

WriteOK ==
    \A c \in Importer :
       job[c].phase = "writing" => Spared(job[c].plan, draft.workspaces, draft.projects)

IInv == TablesOK(workspaces, projects) /\ LockOK /\ DraftOK /\ WriteOK

LEMMA InvBegins == ASSUME Init PROVE IInv
<1>1. Idle \in Job /\ Idle.phase = "idle"
  BY DEF Idle, Job, Plans
<1>2. workspaces \in Table /\ projects \in ProjectTable
  BY DEF Init, Table, ProjectTable
<1>3. Defaults(workspaces) = {}
  BY <1>2, LiveRows, NoRows DEF Init
<1>4. TablesOK(workspaces, projects)
  BY <1>2, <1>3 DEF TablesOK, AtMostOne
<1>5. LockOK /\ WriteOK
  BY <1>1 DEF Init, LockOK, WriteOK
<1>6. DraftOK
  BY DEF Init, DraftOK
<1> QED
  BY <1>4, <1>5, <1>6 DEF IInv

\* What changes neither the tables, the draft, the jobs nor the lock.
LEMMA OthersKeep ==
    ASSUME IInv, UNCHANGED <<workspaces, projects, draft, job, importing>>
    PROVE  IInv'
<1>1. TablesOK(workspaces', projects') /\ LockOK' /\ DraftOK'
  BY DEF IInv, TablesOK, LockOK, DraftOK
<1>2. WriteOK'
  BY DEF IInv, WriteOK, Spared
<1> QED
  BY <1>1, <1>2 DEF IInv

LEMMA CommandKeepsInv == ASSUME IInv, Command PROVE IInv'
<1>1. TablesOK(workspaces', projects') /\ draft = NoDraft /\ UNCHANGED <<importing, draft, job>>
  BY CommandKeeps DEF IInv, Writable, CommandOnly
<1>2. LockOK' /\ DraftOK'
  BY <1>1 DEF IInv, LockOK, DraftOK
<1>3. WriteOK'
  BY <1>1 DEF IInv, LockOK, WriteOK
<1> QED
  BY <1>1, <1>2, <1>3 DEF IInv

\* A step of one import: it ends, or goes on with a job that keeps what is needed.
LEMMA JobStep ==
    ASSUME LockOK, NEW c \in Importer, NEW r \in Job, Go(c, r)
    PROVE  /\ job' \in [Importer -> Job] /\ job'[c] = r
           /\ \A d \in Importer : d # c => job'[d] = job[d]
BY DEF Go, LockOK

\* Only one import is beyond its analysis.
LEMMA OnlyOne ==
    ASSUME LockOK, NEW c \in Importer, NEW d \in Importer, d # c,
           job[c].phase \in {"analysed", "writing"}
    PROVE  job[d].phase \notin {"analysed", "writing"}
BY DEF LockOK

LEMMA PlannedEntry ==
    ASSUME NEW doc \in Documents, NEW i \in DOMAIN doc, NEW action \in Allowed(doc, i),
           TablesOK(workspaces, projects)
    PROVE  Planned(doc, i, action) \in Entry
<1>1. action \in {"skip", "create", "update"} /\ (action = "update" => Owners(doc[i]) # {})
  BY DEF Allowed
<1>2. doc[i] \in Item /\ doc[i].paths \in SUBSET Path
  <2>1. doc \in Seq(Item)
    BY WorkspacesAssumption, Zenon
  <2>2. doc[i] \in Item
    BY <2>1
  <2> QED
    BY <2>2 DEF Item
<1>3. \A p \in Live(projects) : p \in Project /\ projects[p].workspace \in Workspace
  BY LiveProjects DEF TablesOK, ProjectRow
<1>4. Owners(doc[i]) \subseteq Workspace
  BY <1>3 DEF Owners, Matches, At
<1>5. \A path \in Path : At(path) \subseteq Project
  BY <1>3 DEF At
<1> DEFINE workspace == IF action = "update" THEN CHOOSE w \in Owners(doc[i]) : TRUE ELSE None
           found(path) == IF action = "update" /\ At(path) # {} THEN CHOOSE p \in At(path) : TRUE
                          ELSE None
           matched == [path \in doc[i].paths |-> found(path)]
<1>6. workspace \in Workspace \cup {None}
  BY <1>1, <1>4, Zenon
<1>7. \A path \in Path : found(path) \in Project \cup {None}
  BY <1>5, Zenon
<1>8. matched \in [doc[i].paths -> Project \cup {None}]
  BY <1>2, <1>7
<1>9. action = "create" => \A path \in doc[i].paths : matched[path] = None
  BY Zenon
<1>10. Planned(doc, i, action) =
         [action |-> action, item |-> doc[i], workspace |-> workspace, matched |-> matched]
  BY Zenon DEF Planned
<1> HIDE DEF workspace, matched
<1> QED
  BY <1>1, <1>2, <1>6, <1>8, <1>9, <1>10 DEF Entry

LEMMA AnalyseKeeps ==
    ASSUME IInv, NEW c \in Importer, NEW doc \in Documents, Analyse(c, doc)
    PROVE  IInv'
<1>1. PICK actions \in [DOMAIN doc -> {"skip", "create", "update"}] :
        /\ \A i \in DOMAIN doc : actions[i] \in Allowed(doc, i)
        /\ Go(c, [Idle EXCEPT
              !.phase = "analysed",
              !.plan = [i \in DOMAIN doc |-> Planned(doc, i, actions[i])]])
  BY Zenon DEF Analyse
<1> DEFINE plan == [i \in DOMAIN doc |-> Planned(doc, i, actions[i])]
           r == [Idle EXCEPT !.phase = "analysed", !.plan = plan]
<1>2. /\ importing = None /\ importing' = c
      /\ UNCHANGED <<workspaces, projects, disk, pins, draft>>
  BY DEF Analyse
<1>3. plan \in Plans
  <2>1. \A i \in DOMAIN doc : Planned(doc, i, actions[i]) \in Entry
    BY <1>1, PlannedEntry DEF IInv
  <2>2. plan \in [DOMAIN doc -> Entry]
    BY <2>1
  <2> QED
    BY <2>2 DEF Plans
<1> HIDE DEF plan
<1>4. r \in Job /\ r.phase = "analysed"
  <2>1. Idle \in Job
    BY DEF Idle, Job, Plans
  <2> QED
    BY <1>3, <2>1 DEF Job
<1>5. Go(c, r)
  BY <1>1 DEF plan
<1> HIDE DEF r
<1>6. /\ job' \in [Importer -> Job] /\ job'[c] = r
      /\ \A d \in Importer : d # c => job'[d] = job[d]
  BY <1>4, <1>5, JobStep DEF IInv
<1>7. \A d \in Importer : job[d].phase \notin {"analysed", "writing"}
  BY <1>2, WorkspacesAssumption DEF IInv, LockOK
<1>8. \A d \in Importer : job'[d].phase # "writing" /\ (job'[d].phase = "analysed" => d = c)
  BY <1>4, <1>6, <1>7
<1>9. LockOK' /\ WriteOK'
  BY <1>2, <1>6, <1>8 DEF LockOK, WriteOK
<1>10. TablesOK(workspaces', projects') /\ DraftOK'
  BY <1>2 DEF IInv, TablesOK, DraftOK
<1> QED
  BY <1>9, <1>10 DEF IInv

LEMMA OpenImportKeeps == ASSUME IInv, NEW c \in Importer, OpenImport(c) PROVE IInv'
<1> DEFINE r == [job[c] EXCEPT !.phase = "writing", !.at = 1]
<1>1. /\ job[c].phase = "analysed" /\ draft = NoDraft /\ Go(c, r)
      /\ draft' = [workspaces |-> workspaces, projects |-> projects]
      /\ UNCHANGED <<workspaces, projects, disk, pins, importing>>
  BY DEF OpenImport, Writable
<1>2. job[c] \in Job
  BY DEF IInv, LockOK
<1>3. r \in Job /\ r.phase = "writing" /\ r.plan = job[c].plan
  BY <1>2 DEF Job
<1> HIDE DEF r
<1>4. /\ job' \in [Importer -> Job] /\ job'[c] = r
      /\ \A d \in Importer : d # c => job'[d] = job[d]
  BY <1>1, <1>3, JobStep DEF IInv
<1>5. \A d \in Importer : d # c => job'[d].phase \notin {"analysed", "writing"}
  BY <1>1, <1>4, OnlyOne DEF IInv
<1>6. draft'.workspaces = workspaces /\ draft'.projects = projects
  BY <1>1
<1>7. draft' \in [workspaces : Table, projects : ProjectTable] /\ draft' # NoDraft
  <2>1. DOMAIN workspaces = Workspace /\ DOMAIN <<>> = {}
    BY DEF IInv, TablesOK, Table
  <2>2. workspaces # <<>>
    BY <2>1, WorkspacesAssumption
  <2> QED
    BY <1>1, <1>6, <2>2 DEF IInv, TablesOK, NoDraft
<1>8. Spared(job[c].plan, draft.workspaces, draft.projects)'
  BY <1>1, <1>6 DEF Spared
<1>9. importing = c
  BY <1>1 DEF IInv, LockOK
<1>10. LockOK'
  BY <1>1, <1>3, <1>4, <1>5, <1>7, <1>9 DEF LockOK
<1>11. WriteOK'
  BY <1>5, <1>8 DEF WriteOK
<1>12. TablesOK(workspaces', projects') /\ DraftOK'
  BY <1>1, <1>6, <1>7 DEF IInv, TablesOK, DraftOK
<1> QED
  BY <1>10, <1>11, <1>12 DEF IInv

-----------------------------------------------------------------------------
(* The entries. *)

\* What an import that writes has at hand.
LEMMA WritingParts ==
    ASSUME IInv, NEW c \in Importer, job[c].phase = "writing"
    PROVE  /\ job[c] \in Job /\ importing = c /\ draft # NoDraft
           /\ draft \in [workspaces : Table, projects : ProjectTable]
           /\ draft.workspaces \in Table /\ draft.projects \in ProjectTable
           /\ AtMostOne(draft.workspaces)
           /\ Spared(job[c].plan, draft.workspaces, draft.projects)
BY DEF IInv, LockOK, DraftOK, WriteOK

LEMMA PlanEntries ==
    ASSUME NEW plan \in Plans, NEW i \in DOMAIN plan
    PROVE  plan[i] \in Entry /\ plan[i].workspace \in Chosen(plan)
BY DEF Plans, Chosen

LEMMA EntryParts ==
    ASSUME NEW e \in Entry
    PROVE  /\ e.item \in Item /\ e.item.paths \in SUBSET Path /\ e.item.data \in Data
           /\ e.action = "create" => \A path \in e.item.paths : e.matched[path] = None
BY DEF Entry, Item

LEMMA InsertedRows ==
    ASSUME draft.projects \in ProjectTable, NEW e \in Entry, NEW w \in Workspace,
           NEW ids \in [e.item.paths -> Project]
    PROVE  /\ Inserted(e, w, ids) \in ProjectTable
           /\ \A p \in Project :
                 IF \E path \in e.item.paths : ids[path] = p
                 THEN Inserted(e, w, ids)[p] \in ProjectRow /\ Inserted(e, w, ids)[p].workspace = w
                 ELSE Inserted(e, w, ids)[p] = draft.projects[p]
<1> DEFINE u == Inserted(e, w, ids)
           row(p) == [workspace |-> w, data |-> e.item.data,
                      path |-> CHOOSE path \in e.item.paths : ids[path] = p]
<1>1. u = [p \in Project |-> IF \E path \in e.item.paths : ids[path] = p THEN row(p)
                             ELSE draft.projects[p]]
  BY Zenon DEF Inserted
<1>2. e.item.paths \in SUBSET Path /\ e.item.data \in Data
  BY EntryParts
<1>3. ASSUME NEW p \in Project, \E path \in e.item.paths : ids[path] = p
      PROVE  row(p) \in ProjectRow /\ row(p).workspace = w
  <2>1. (CHOOSE path \in e.item.paths : ids[path] = p) \in e.item.paths
    BY <1>3, Zenon
  <2> QED
    BY <1>2, <2>1 DEF ProjectRow
<1> HIDE DEF u, row
<1>4. \A p \in Project :
        IF \E path \in e.item.paths : ids[path] = p
        THEN u[p] \in ProjectRow /\ u[p].workspace = w ELSE u[p] = draft.projects[p]
  <2> SUFFICES ASSUME NEW p \in Project
               PROVE  IF \E path \in e.item.paths : ids[path] = p
                      THEN u[p] \in ProjectRow /\ u[p].workspace = w ELSE u[p] = draft.projects[p]
    OBVIOUS
  <2>1. CASE \E path \in e.item.paths : ids[path] = p
    <3>1. u[p] = row(p)
      BY <1>1, <2>1, Zenon
    <3> QED
      BY <1>3, <2>1, <3>1, Zenon
  <2>2. CASE ~\E path \in e.item.paths : ids[path] = p
    BY <1>1, <2>2, Zenon
  <2> QED
    BY <2>1, <2>2
<1>5. u \in ProjectTable
  <2>1. \A p \in Project : u[p] \in ProjectRow \cup {None, Gone}
    BY <1>4 DEF ProjectTable
  <2>2. DOMAIN u = Project /\ u = [p \in Project |-> u[p]]
    BY <1>1
  <2> QED
    BY <2>1, <2>2 DEF ProjectTable
<1> QED
  BY <1>4, <1>5 DEF u

\* An entry that is written keeps what the import may not touch.
LEMMA WroteKeeps ==
    ASSUME IInv, NEW c \in Importer, job[c].phase = "writing",
           NEW i, i = job[c].at, i \in DOMAIN job[c].plan,
           NEW w \in Workspace, NEW row \in Row,
           row.default <=> w \in Defaults(draft.workspaces),
           w \in Live(draft.workspaces) => w \in Chosen(job[c].plan),
           NEW ids \in [job[c].plan[i].item.paths -> Project],
           \A path \in job[c].plan[i].item.paths :
              \/ ids[path] \in Unused(draft.projects)
              \/ ids[path] \in InWorkspace(draft.projects, w) /\ w \in Chosen(job[c].plan),
           Wrote(c, w, row, ids)
    PROVE  IInv'
<1> DEFINE e == job[c].plan[i]
           t == [draft.workspaces EXCEPT ![w] = row]
           u == Inserted(e, w, ids)
           touch == [workspace |-> w, default |-> e.item.default]
           touched == Append(job[c].touched, touch)
           pin == IF e.item.pinned THEN job[c].pin \cup {w} ELSE job[c].pin
           unpin == IF e.item.pinned \/ e.action = "create" THEN job[c].unpin
                    ELSE job[c].unpin \cup {w}
           at == job[c].at + 1
           r == [job[c] EXCEPT !.at = at, !.touched = touched, !.pin = pin, !.unpin = unpin]
<1>1. /\ job[c] \in Job /\ importing = c /\ draft # NoDraft
      /\ draft.workspaces \in Table /\ draft.projects \in ProjectTable
      /\ AtMostOne(draft.workspaces)
      /\ Spared(job[c].plan, draft.workspaces, draft.projects)
  BY WritingParts
<1>2. e \in Entry /\ e.item \in Item
  BY <1>1, PlanEntries, EntryParts DEF Job
<1>3. /\ draft' = [workspaces |-> t, projects |-> u]
      /\ Go(c, r)
      /\ UNCHANGED <<workspaces, projects, disk, pins, importing>>
  BY Zenon DEF Wrote, Current
<1>4. r \in Job /\ r.phase = "writing" /\ r.plan = job[c].plan
  <2>1. touched \in Seq([workspace : Workspace, default : BOOLEAN])
    <3>1. job[c].touched \in Seq([workspace : Workspace, default : BOOLEAN])
      BY <1>1 DEF Job
    <3>2. touch \in [workspace : Workspace, default : BOOLEAN]
      BY <1>2 DEF Item
    <3> HIDE DEF touch
    <3> QED
      BY <3>1, <3>2
  <2>2. pin \in SUBSET Workspace /\ unpin \in SUBSET Workspace /\ at \in Nat
    BY <1>1 DEF Job
  <2> HIDE DEF touched, pin, unpin, at, e
  <2>3. r \in Job
    BY <1>1, <2>1, <2>2, Zenon DEF Job
  <2>4. r.phase = "writing" /\ r.plan = job[c].plan
    BY <1>1 DEF Job
  <2> QED
    BY <2>3, <2>4
<1>5. t \in Table /\ \A x \in Workspace : t[x] = IF x = w THEN row ELSE draft.workspaces[x]
  BY <1>1, PutRow
<1>6. u \in ProjectTable /\ \A p \in Project :
        IF \E path \in e.item.paths : ids[path] = p
        THEN u[p] \in ProjectRow /\ u[p].workspace = w ELSE u[p] = draft.projects[p]
  BY <1>1, <1>2, InsertedRows
<1> HIDE DEF r, t, u
<1>7. /\ job' \in [Importer -> Job] /\ job'[c] = r
      /\ \A d \in Importer : d # c => job'[d] = job[d]
  BY <1>3, <1>4, JobStep DEF IInv
<1>8. \A d \in Importer : d # c => job'[d].phase \notin {"analysed", "writing"}
  BY <1>7, OnlyOne DEF IInv
<1>9. Defaults(t) = Defaults(draft.workspaces)
  <2>1. ASSUME NEW x \in Workspace PROVE x \in Defaults(t) <=> x \in Defaults(draft.workspaces)
    <3>1. CASE x = w
      <4>1. t[x] = row
        BY <1>5, <2>1, <3>1
      <4>2. x \in Defaults(t) <=> (t[x] \in Row /\ t[x].default)
        BY <1>5, <2>1, LiveRows, Zenon
      <4>3. x \in Defaults(t) <=> row.default
        BY <4>1, <4>2, Zenon
      <4> QED
        BY <3>1, <4>3, Zenon
    <3>2. CASE x # w
      <4>1. t[x] = draft.workspaces[x]
        BY <1>5, <3>2
      <4> QED
        BY <1>1, <1>5, <4>1, LiveRows, Zenon
    <3> QED
      BY <3>1, <3>2
  <2>2. Defaults(t) \subseteq Workspace /\ Defaults(draft.workspaces) \subseteq Workspace
    BY <1>1, <1>5, LiveRows, Zenon
  <2> QED
    BY <2>1, <2>2
<1>10. AtMostOne(t)
  BY <1>1, <1>9 DEF AtMostOne
<1>11. ASSUME NEW p \in Live(projects)
       PROVE  /\ p \in Live(u)
              /\ \/ u[p] = projects[p]
                 \/ projects[p].workspace \in Chosen(job[c].plan) /\ u[p].workspace = projects[p].workspace
  <2>1. p \in Project
    BY LiveProjects DEF IInv, TablesOK
  <2>2. /\ p \in Live(draft.projects)
        /\ \/ draft.projects[p] = projects[p]
           \/ /\ projects[p].workspace \in Chosen(job[c].plan)
              /\ draft.projects[p].workspace = projects[p].workspace
    BY <1>1, Zenon DEF Spared
  <2>3. CASE \E path \in e.item.paths : ids[path] = p
    <3>1. u[p] \in ProjectRow /\ u[p].workspace = w
      BY <1>6, <2>1, <2>3, Zenon
    <3>2. p \in InWorkspace(draft.projects, w) /\ w \in Chosen(job[c].plan)
      <4>1. p \notin Unused(draft.projects)
        BY <1>1, <2>2, LiveProjects, NoRows
      <4> QED
        BY <2>3, <4>1
    <3>3. draft.projects[p].workspace = w /\ p \in Live(draft.projects)
      BY <3>2 DEF InWorkspace
    <3>4. p \in Live(u)
      BY <1>6, <2>1, <3>1, LiveProjects
    <3> QED
      BY <2>2, <3>1, <3>2, <3>3, <3>4
  <2>4. CASE ~\E path \in e.item.paths : ids[path] = p
    <3>1. u[p] = draft.projects[p]
      BY <1>6, <2>1, <2>4, Zenon
    <3>2. p \in Live(u)
      BY <1>1, <1>6, <2>1, <2>2, <3>1, LiveProjects
    <3> QED
      BY <2>2, <3>1, <3>2
  <2> QED
    BY <2>3, <2>4
<1>12. ASSUME NEW x \in Live(workspaces)
       PROVE  x \in Live(t) /\ (x \notin Chosen(job[c].plan) => t[x].data = workspaces[x].data)
  <2>1. x \in Workspace
    BY LiveRows DEF IInv, TablesOK
  <2>2. /\ x \in Live(draft.workspaces)
        /\ x \notin Chosen(job[c].plan) => draft.workspaces[x].data = workspaces[x].data
    BY <1>1, Zenon DEF Spared
  <2>3. CASE x = w
    <3>1. t[x] \in Row
      BY <1>5, <2>1, <2>3
    <3>2. x \in Live(t)
      BY <1>5, <2>1, <3>1, LiveRows
    <3> QED
      BY <2>2, <2>3, <3>2
  <2>4. CASE x # w
    <3>1. t[x] = draft.workspaces[x]
      BY <1>5, <2>1, <2>4
    <3>2. x \in Live(t)
      BY <1>1, <1>5, <2>1, <2>2, <3>1, LiveRows
    <3> QED
      BY <2>2, <3>1, <3>2
  <2> QED
    BY <2>3, <2>4
<1>13. Spared(job[c].plan, t, u)
  BY <1>1, <1>9, <1>11, <1>12, Zenon DEF Spared
<1>14. draft'.workspaces = t /\ draft'.projects = u
  BY <1>3
<1>15. WriteOK'
  <2>1. Spared(job[c].plan, draft.workspaces, draft.projects)'
    BY <1>3, <1>4, <1>7, <1>13, <1>14 DEF Spared
  <2> QED
    BY <1>8, <2>1 DEF WriteOK
<1>16. draft' \in [workspaces : Table, projects : ProjectTable] /\ draft' # NoDraft
  <2>1. DOMAIN t = Workspace /\ DOMAIN <<>> = {}
    BY <1>5, LiveRows
  <2>2. t # <<>>
    BY <2>1, WorkspacesAssumption
  <2> QED
    BY <1>3, <1>5, <1>6, <1>14, <2>2 DEF NoDraft
<1>17. LockOK'
  BY <1>1, <1>3, <1>4, <1>7, <1>8, <1>16 DEF LockOK
<1>18. DraftOK' /\ TablesOK(workspaces', projects')
  BY <1>3, <1>10, <1>14, <1>16 DEF IInv, DraftOK, TablesOK
<1> QED
  BY <1>15, <1>17, <1>18 DEF IInv

LEMMA CreateEntryKeeps ==
    ASSUME IInv, NEW c \in Importer, NEW w \in Workspace, CreateEntry(c, w)
    PROVE  IInv'
<1> DEFINE i == job[c].at
           e == job[c].plan[i]
<1>1. /\ job[c].phase = "writing" /\ i \in DOMAIN job[c].plan /\ e.action = "create"
      /\ w \in Unused(draft.workspaces)
  BY DEF CreateEntry, Writing, Current
<1>2. PICK ids \in Ids(e) : Wrote(c, w, [default |-> FALSE, data |-> e.item.data], ids)
  BY Zenon DEF CreateEntry, Current
<1> DEFINE row == [default |-> FALSE, data |-> e.item.data]
<1>3. /\ job[c] \in Job /\ draft.workspaces \in Table /\ draft.projects \in ProjectTable
  BY <1>1, WritingParts
<1>4. e \in Entry
  BY <1>1, <1>3, PlanEntries DEF Job
<1>5. e.item.data \in Data /\ \A path \in e.item.paths : e.matched[path] = None
  BY <1>1, <1>4, EntryParts
<1>6. ids \in [e.item.paths -> Project] /\ \A path \in e.item.paths : ids[path] \in Unused(draft.projects)
  BY <1>2, <1>5, Zenon DEF Ids
<1> HIDE DEF e
<1>7. row \in Row /\ row.default = FALSE
  BY <1>5 DEF Row
<1>8. w \notin Live(draft.workspaces) /\ w \notin Defaults(draft.workspaces)
  BY <1>1 DEF Unused, Live, Defaults
<1>9. Wrote(c, w, row, ids)
  BY <1>2
<1> HIDE DEF row
<1>10. row.default <=> w \in Defaults(draft.workspaces)
  BY <1>7, <1>8, Zenon
<1> QED
  BY <1>1, <1>6, <1>7, <1>8, <1>9, <1>10, WroteKeeps, Zenon DEF e

LEMMA UpdateEntryKeeps == ASSUME IInv, NEW c \in Importer, UpdateEntry(c) PROVE IInv'
<1> DEFINE i == job[c].at
           e == job[c].plan[i]
           w == e.workspace
           row == Relabelled(draft.workspaces[w], e.item.data)
<1>1. /\ job[c].phase = "writing" /\ i \in DOMAIN job[c].plan /\ StillThere(e)
  BY DEF UpdateEntry, Writing, Current
<1>2. PICK ids \in Ids(e) : Wrote(c, w, row, ids)
  BY Zenon DEF UpdateEntry, Current, Relabelled
<1>3. /\ job[c] \in Job /\ draft.workspaces \in Table /\ draft.projects \in ProjectTable
  BY <1>1, WritingParts
<1>4. e \in Entry /\ w \in Chosen(job[c].plan)
  BY <1>1, <1>3, PlanEntries DEF Job
<1>5. e.item.data \in Data
  BY <1>4, EntryParts
<1>6. w \in Workspace /\ draft.workspaces[w] \in Row
  BY <1>1, <1>3, LiveRows DEF StillThere
<1>7. row \in Row /\ row.default = draft.workspaces[w].default
  BY <1>5, <1>6, RelabelledRow
<1>8. w \in Defaults(draft.workspaces) <=> draft.workspaces[w].default
  BY <1>3, <1>6, LiveRows, Zenon
<1>9. row.default <=> w \in Defaults(draft.workspaces)
  BY <1>7, <1>8, Zenon
<1>10. ids \in [e.item.paths -> Project] /\ \A path \in e.item.paths :
         \/ ids[path] \in Unused(draft.projects)
         \/ ids[path] \in InWorkspace(draft.projects, w)
  BY <1>1, <1>2, Zenon DEF Ids, StillThere
<1> HIDE DEF row, w
<1> QED
  BY <1>1, <1>2, <1>4, <1>6, <1>7, <1>9, <1>10, WroteKeeps, Zenon

LEMMA SkipEntryKeeps == ASSUME IInv, NEW c \in Importer, SkipEntry(c) PROVE IInv'
<1> DEFINE r == [job[c] EXCEPT !.at = @ + 1]
<1>1. /\ job[c].phase = "writing" /\ Go(c, r)
      /\ UNCHANGED <<workspaces, projects, disk, pins, importing, draft>>
  BY DEF SkipEntry, Writing
<1>2. job[c] \in Job
  BY DEF IInv, LockOK
<1>3. r \in Job /\ r.phase = job[c].phase /\ r.plan = job[c].plan
  BY <1>2 DEF Job
<1> HIDE DEF r
<1>4. /\ job' \in [Importer -> Job] /\ job'[c] = r
      /\ \A d \in Importer : d # c => job'[d] = job[d]
  BY <1>1, <1>3, JobStep DEF IInv
<1>5. \A d \in Importer : job'[d].phase = job[d].phase /\ job'[d].plan = job[d].plan
  BY <1>3, <1>4
<1>6. LockOK'
  BY <1>1, <1>4, <1>5 DEF IInv, LockOK
<1>7. WriteOK'
  BY <1>1, <1>5 DEF IInv, WriteOK, Spared
<1>8. TablesOK(workspaces', projects') /\ DraftOK'
  BY <1>1 DEF IInv, TablesOK, DraftOK
<1> QED
  BY <1>6, <1>7, <1>8 DEF IInv

\* The import is over: nothing writes any more.
LEMMA EndKeeps ==
    ASSUME IInv, NEW c \in Importer, job[c].phase \in {"analysed", "writing"},
           NEW r \in Job, r.phase \in {"idle", "pins"}, Go(c, r),
           TablesOK(workspaces', projects'), draft' = NoDraft
    PROVE  IInv'
<1>1. /\ job' \in [Importer -> Job] /\ job'[c] = r
      /\ \A d \in Importer : d # c => job'[d] = job[d]
  BY JobStep DEF IInv
<1>2. \A d \in Importer : job'[d].phase \notin {"analysed", "writing"}
  BY <1>1, OnlyOne DEF IInv
<1>3. LockOK' /\ WriteOK' /\ DraftOK'
  BY <1>1, <1>2 DEF LockOK, WriteOK, DraftOK
<1> QED
  BY <1>3 DEF IInv

LEMMA AfterImportType ==
    ASSUME NEW r \in Job
    PROVE  AfterImport(r) \in Job /\ AfterImport(r).phase \in {"idle", "pins"}
<1>1. Idle \in Job /\ Idle.phase = "idle"
  BY DEF Idle, Job, Plans
<1>2. r.pin \in SUBSET Workspace /\ r.unpin \in SUBSET Workspace
  BY DEF Job
<1> DEFINE s == [Idle EXCEPT !.phase = "pins", !.pin = r.pin, !.unpin = r.unpin]
<1>3. s \in Job /\ s.phase = "pins"
  BY <1>1, <1>2 DEF Job
<1>4. AfterImport(r) = Idle \/ AfterImport(r) = s
  BY Zenon DEF AfterImport
<1> HIDE DEF s
<1> QED
  BY <1>1, <1>3, <1>4

LEMMA CommitImportKeeps == ASSUME IInv, NEW c \in Importer, CommitImport(c) PROVE IInv'
<1>1. /\ job[c].phase = "writing" /\ projects' = draft.projects /\ draft' = NoDraft
      /\ Go(c, AfterImport(job[c]))
      /\ \/ workspaces' = draft.workspaces
         \/ workspaces' = WithDefault(draft.workspaces, NewDefault(job[c].touched))
  BY Zenon DEF CommitImport
<1>2. /\ job[c] \in Job /\ draft.workspaces \in Table /\ draft.projects \in ProjectTable
      /\ AtMostOne(draft.workspaces)
  BY <1>1, WritingParts
<1>3. TablesOK(workspaces', projects')
  BY <1>1, <1>2, WithDefaultKeeps DEF TablesOK
<1> QED
  BY <1>1, <1>2, <1>3, AfterImportType, EndKeeps

LEMMA AbortImportKeeps == ASSUME IInv, NEW c \in Importer, AbortImport(c) PROVE IInv'
<1>1. /\ job[c].phase \in {"analysed", "writing"} /\ Go(c, Idle)
      /\ UNCHANGED <<workspaces, projects, disk, pins>>
      /\ job[c].phase = "writing" => draft' = NoDraft
      /\ job[c].phase = "analysed" => draft' = draft
  BY DEF AbortImport
<1>2. Idle \in Job /\ Idle.phase = "idle"
  BY DEF Idle, Job, Plans
<1>3. TablesOK(workspaces', projects')
  BY <1>1 DEF IInv, TablesOK
<1>4. CASE draft' = NoDraft
  BY <1>1, <1>2, <1>3, <1>4, EndKeeps
<1>5. CASE draft' # NoDraft
  <2>1. job[c].phase = "analysed" /\ draft' = draft
    BY <1>1, <1>5
  <2>2. /\ job' \in [Importer -> Job] /\ job'[c] = Idle
        /\ \A d \in Importer : d # c => job'[d] = job[d]
    BY <1>1, <1>2, JobStep DEF IInv
  <2>3. \A d \in Importer : job'[d].phase \notin {"analysed", "writing"}
    BY <1>1, <1>2, <2>2, OnlyOne DEF IInv
  <2>4. LockOK' /\ WriteOK' /\ DraftOK'
    BY <2>1, <2>2, <2>3 DEF IInv, LockOK, WriteOK, DraftOK
  <2> QED
    BY <1>3, <2>4 DEF IInv
<1> QED
  BY <1>4, <1>5

LEMMA MergePinsKeeps == ASSUME IInv, NEW c \in Importer, MergePins(c) PROVE IInv'
<1>1. /\ job[c].phase = "pins" /\ Go(c, Idle)
      /\ UNCHANGED <<workspaces, projects, disk, importing, draft>>
  BY DEF MergePins
<1>2. Idle \in Job /\ Idle.phase = "idle"
  BY DEF Idle, Job, Plans
<1>3. /\ job' \in [Importer -> Job] /\ job'[c] = Idle
      /\ \A d \in Importer : d # c => job'[d] = job[d]
  BY <1>1, <1>2, JobStep DEF IInv
<1>4. LockOK'
  BY <1>1, <1>2, <1>3 DEF IInv, LockOK
<1>5. WriteOK'
  BY <1>1, <1>2, <1>3 DEF IInv, WriteOK, Spared
<1>6. TablesOK(workspaces', projects') /\ DraftOK'
  BY <1>1 DEF IInv, TablesOK, DraftOK
<1> QED
  BY <1>4, <1>5, <1>6 DEF IInv

LEMMA StepKeeps == ASSUME IInv, [Next]_vars PROVE IInv'
<1>1. CASE Command
  BY <1>1, CommandKeepsInv
<1>2. ASSUME NEW c \in Importer, Import(c) PROVE IInv'
  BY <1>2, AnalyseKeeps, OpenImportKeeps, CreateEntryKeeps, UpdateEntryKeeps, SkipEntryKeeps,
     CommitImportKeeps, AbortImportKeeps, MergePinsKeeps DEF Import
<1>3. ASSUME NEW w \in Workspace, Pin(w) PROVE IInv'
  BY <1>3, OthersKeep DEF Pin
<1>4. ASSUME NEW path \in Path, DirectoryChanges(path) PROVE IInv'
  BY <1>4, OthersKeep DEF DirectoryChanges
<1>5. CASE UNCHANGED vars
  BY <1>5, OthersKeep DEF vars
<1> QED
  BY <1>1, <1>2, <1>3, <1>4, <1>5, Zenon DEF Next

\* The invariant the theorems rest on, whatever commands and imports run.
THEOREM InvHolds == Spec => []IInv
<1>1. Init => IInv
  BY InvBegins
<1>2. IInv /\ [Next]_vars => IInv'
  BY StepKeeps
<1> QED
  BY <1>1, <1>2, PTL DEF Spec

-----------------------------------------------------------------------------
(* Workspaces: theorems. *)

\* At most one workspace is the default, whatever commands and imports run
\* (upsert_workspace, register_workspace_folder, remove_workspace_registration,
\* apply_workspace_import_plan).
THEOREM DefaultCorrect == Spec => []OneDefault
<1>1. IInv => OneDefault
  BY DEF IInv, TablesOK, AtMostOne, OneDefault
<1> QED
  BY <1>1, InvHolds, PTL

\* What the end of an import may have changed.
Sparing(c) ==
    LET updated == Chosen(job[c].plan)
    IN /\ \A p \in Live(projects) :
             \/ projects'[p] = projects[p]
             \/ /\ projects[p].workspace \in updated
                /\ projects'[p].workspace = projects[p].workspace
       /\ \A w \in Live(workspaces) \ updated :
             workspaces'[w].data = workspaces[w].data
       /\ Defaults(workspaces) # {} =>
             Defaults(workspaces)' = Defaults(workspaces)

LEMMA CommitSpares ==
    ASSUME IInv, NEW c \in Importer, CommitImport(c)
    PROVE  Sparing(c)
<1> DEFINE t == draft.workspaces
<1>1. /\ job[c].phase = "writing" /\ projects' = draft.projects
      /\ workspaces' = IF Defaults(t) = {} THEN WithDefault(t, NewDefault(job[c].touched)) ELSE t
  BY Zenon DEF CommitImport
<1>2. t \in Table /\ Spared(job[c].plan, t, draft.projects)
  BY <1>1, WritingParts
<1>3. Defaults(t) = Defaults(workspaces)
  BY <1>2 DEF Spared
<1> HIDE DEF t
<1>4. ASSUME NEW p \in Live(projects)
      PROVE  \/ projects'[p] = projects[p]
             \/ /\ projects[p].workspace \in Chosen(job[c].plan)
                /\ projects'[p].workspace = projects[p].workspace
  BY <1>1, <1>2, Zenon DEF Spared
<1>5. ASSUME NEW w \in Live(workspaces), w \notin Chosen(job[c].plan)
      PROVE  workspaces'[w].data = workspaces[w].data
  <2>1. w \in Live(t) /\ t[w].data = workspaces[w].data
    BY <1>2, <1>5, Zenon DEF Spared
  <2>2. CASE workspaces' = t
    BY <2>1, <2>2
  <2>3. CASE workspaces' = WithDefault(t, NewDefault(job[c].touched))
    BY <1>2, <2>1, <2>3, WithDefaultKeeps
  <2> QED
    BY <1>1, <2>2, <2>3, Zenon
<1>6. ASSUME Defaults(workspaces) # {} PROVE Defaults(workspaces') = Defaults(workspaces)
  BY <1>1, <1>3, <1>6, Zenon
<1> QED
  BY <1>4, <1>5, <1>6, Zenon DEF Sparing

LEMMA WroteStays ==
    ASSUME IInv, NEW c \in Importer, job[c].phase = "writing", NEW w, NEW row, NEW ids,
           Wrote(c, w, row, ids)
    PROVE  job'[c].phase = "writing"
<1> DEFINE e == job[c].plan[job[c].at]
           at == job[c].at + 1
           touched == Append(job[c].touched, [workspace |-> w, default |-> e.item.default])
           pin == IF e.item.pinned THEN job[c].pin \cup {w} ELSE job[c].pin
           unpin == IF e.item.pinned \/ e.action = "create" THEN job[c].unpin
                    ELSE job[c].unpin \cup {w}
           r == [job[c] EXCEPT !.at = at, !.touched = touched, !.pin = pin, !.unpin = unpin]
<1>1. Go(c, r)
  BY Zenon DEF Wrote, Current
<1>2. job[c] \in Job /\ job \in [Importer -> Job]
  BY DEF IInv, LockOK
<1> HIDE DEF at, touched, pin, unpin, e
<1>3. r.phase = "writing"
  BY <1>2 DEF Job
<1> HIDE DEF r
<1> QED
  BY <1>1, <1>2, <1>3 DEF Go

LEMMA EndsByCommitOrAbort ==
    ASSUME IInv, [Next]_vars, NEW c \in Importer, Commits(c)
    PROVE  CommitImport(c) \/ AbortImport(c)
<1>1. job \in [Importer -> Job] /\ job[c].phase = "writing" /\ job'[c].phase # "writing"
  BY DEF IInv, LockOK, Commits
<1>2. CASE Command
  BY <1>1, <1>2, CommandKeeps DEF IInv, CommandOnly
<1>3. CASE UNCHANGED job
  BY <1>1, <1>3
<1>4. ASSUME NEW d \in Importer, d # c, NEW r, Go(d, r) PROVE FALSE
  BY <1>1, <1>4 DEF Go
<1>5. ASSUME NEW d \in Importer, d # c, Import(d) PROVE FALSE
  <2>1. \E r : Go(d, r)
    <3>1. ASSUME NEW doc \in Documents, Analyse(d, doc) PROVE \E r : Go(d, r)
      BY <3>1, Zenon DEF Analyse
    <3>2. ASSUME NEW w \in Workspace, CreateEntry(d, w) PROVE \E r : Go(d, r)
      BY <3>2, Zenon DEF CreateEntry, Wrote
    <3>3. CASE UpdateEntry(d)
      BY <3>3, Zenon DEF UpdateEntry, Wrote
    <3>4. CASE OpenImport(d) \/ SkipEntry(d) \/ CommitImport(d) \/ AbortImport(d) \/ MergePins(d)
      BY <3>4, Zenon DEF OpenImport, SkipEntry, CommitImport, AbortImport, MergePins
    <3> QED
      BY <1>5, <3>1, <3>2, <3>3, <3>4, Zenon DEF Import
  <2> QED
    BY <1>4, <1>5, <2>1
<1>6. CASE Import(c)
  <2>1. ASSUME NEW doc \in Documents, Analyse(c, doc) PROVE FALSE
    BY <1>1, <2>1 DEF Analyse, Idle
  <2>2. CASE OpenImport(c) \/ MergePins(c)
    BY <1>1, <2>2 DEF OpenImport, MergePins
  <2>3. ASSUME NEW w \in Workspace, CreateEntry(c, w) PROVE FALSE
    <3>1. \E row, ids : Wrote(c, w, row, ids)
      BY <2>3, Zenon DEF CreateEntry
    <3> QED
      BY <1>1, <3>1, WroteStays
  <2>4. CASE UpdateEntry(c)
    <3>1. \E w, row, ids : Wrote(c, w, row, ids)
      BY <2>4, Zenon DEF UpdateEntry
    <3> QED
      BY <1>1, <3>1, WroteStays
  <2>5. CASE SkipEntry(c)
    <3>1. job' = [job EXCEPT ![c] = [job[c] EXCEPT !.at = @ + 1]] /\ job[c] \in Job
      BY <1>1, <2>5 DEF SkipEntry, Go
    <3>2. [job[c] EXCEPT !.at = @ + 1].phase = job[c].phase
      BY <3>1 DEF Job
    <3>3. job'[c] = [job[c] EXCEPT !.at = @ + 1]
      BY <1>1, <3>1, Zenon
    <3> QED
      BY <1>1, <3>2, <3>3, Zenon
  <2> QED
    BY <1>6, <2>1, <2>2, <2>3, <2>4, <2>5, Zenon DEF Import
<1>7. ASSUME NEW w \in Workspace, Pin(w) PROVE UNCHANGED job
  BY <1>7 DEF Pin
<1>8. ASSUME NEW path \in Path, DirectoryChanges(path) PROVE UNCHANGED job
  BY <1>8 DEF DirectoryChanges
<1>9. CASE UNCHANGED vars
  BY <1>3, <1>9 DEF vars
<1> QED
  BY <1>2, <1>3, <1>5, <1>6, <1>7, <1>8, <1>9, Zenon DEF Next

\* An import changes, moves and removes nothing the user did not choose to update,
\* however the tables changed between its analysis and its write
\* (belongs_to_workspace, existing_project_ids).
THEOREM ImportCorrect == Spec => ImportSparesOthers
<1> DEFINE Spares == \A c \in Importer : Commits(c) =>
                        LET updated == {job[c].plan[i].workspace : i \in DOMAIN job[c].plan}
                        IN /\ \A p \in Live(projects) :
                                 \/ projects'[p] = projects[p]
                                 \/ /\ projects[p].workspace \in updated
                                    /\ projects'[p].workspace = projects[p].workspace
                           /\ \A w \in Live(workspaces) \ updated :
                                 workspaces'[w].data = workspaces[w].data
                           /\ Defaults(workspaces) # {} =>
                                 Defaults(workspaces)' = Defaults(workspaces)
<1>1. ASSUME IInv, [Next]_vars, NEW c \in Importer, Commits(c) PROVE Sparing(c)
  <2>1. CASE CommitImport(c)
    BY <1>1, <2>1, CommitSpares
  <2>2. CASE AbortImport(c)
    <3>1. UNCHANGED <<workspaces, projects>>
      BY <2>2 DEF AbortImport
    <3> QED
      BY <3>1 DEF Sparing
  <2> QED
    BY <1>1, <2>1, <2>2, EndsByCommitOrAbort
<1>2. IInv /\ [Next]_vars => [Spares]_vars
  BY <1>1, Zenon DEF Sparing, Chosen
<1> QED
  BY <1>2, InvHolds, PTL DEF Spec, ImportSparesOthers

-----------------------------------------------------------------------------
(* Workspaces: what an import has written. *)

\* The entries of a plan share no directory and no project.
Apart(plan) ==
    \A i, j \in DOMAIN plan :
       i # j /\ plan[i].action # "skip" =>
          \A path \in plan[i].item.paths, other \in plan[j].item.paths :
             /\ path # other
             /\ plan[i].matched[path] # None => plan[i].matched[path] # plan[j].matched[other]

\* A matched project has been in the table: its id is not used again.
MatchedBefore(plan, u) ==
    \A i \in DOMAIN plan : \A path \in plan[i].item.paths :
       plan[i].matched[path] # None =>
          plan[i].matched[path] \in Project /\ u[plan[i].matched[path]] # None

AnalysedOK ==
    \A c \in Importer : job[c].phase \in {"analysed", "writing"} =>
       Apart(job[c].plan) /\ MatchedBefore(job[c].plan, projects)

\* An id the tables have used is used in the open transaction.
DraftGrows ==
    draft # NoDraft =>
       /\ \A p \in Project : projects[p] # None => draft.projects[p] # None
       /\ \A w \in Workspace : workspaces[w] # None => draft.workspaces[w] # None

\* Project p is what an entry says of a directory, and no other entry will write it.
Made(e, path, r) ==
    /\ r \in ProjectRow /\ r.path = path /\ r.data = e.item.data
    /\ e.action = "update" => r.workspace = e.workspace
    /\ e.action = "create" => workspaces[r.workspace] = None

Owned(plan, i, path, p) ==
    \/ p = plan[i].matched[path]
    \/ \A j \in DOMAIN plan : \A other \in plan[j].item.paths : p # plan[j].matched[other]

WrittenUpTo(plan, at, u) ==
    \A i \in DOMAIN plan : i < at /\ plan[i].action # "skip" =>
       \A path \in plan[i].item.paths :
          \E p \in Project : Made(plan[i], path, u[p]) /\ Owned(plan, i, path, p)

WrittenOK ==
    \A c \in Importer : job[c].phase = "writing" =>
       WrittenUpTo(job[c].plan, job[c].at, draft.projects)

HeldInv == AnalysedOK /\ DraftGrows /\ WrittenOK

LEMMA NoneElsewhere == None \notin ProjectRow /\ Gone # None /\ None \notin Project
BY WorkspacesAssumption

\* A command frees no project id.
LEMMA CommandFreesNoId ==
    ASSUME TablesOK(workspaces, projects), Command, NEW m \in Project, projects[m] # None
    PROVE  projects'[m] # None
<1> USE NoneElsewhere
<1>0. projects \in ProjectTable /\ m \in DOMAIN projects
  BY DEF TablesOK, ProjectTable
<1>1. ASSUME NEW p \in Project, NEW r, r # None, projects' = [projects EXCEPT ![p] = r]
      PROVE  projects'[m] # None
  BY <1>0, <1>1
<1>2. ASSUME NEW w \in Workspace, NEW p \in Project, NEW path \in Path, RegisterFolder(w, p, path)
      PROVE  projects'[m] # None
  <2>1. PICK data \in Data : projects' = [projects EXCEPT ![p] =
                [workspace |-> w, path |-> path, data |-> data]]
    BY <1>2, Zenon DEF RegisterFolder
  <2>2. [workspace |-> w, path |-> path, data |-> data] \in ProjectRow
    BY DEF ProjectRow
  <2> QED
    BY <1>1, <2>1, <2>2, Zenon
<1>3. ASSUME NEW w \in Workspace, RemoveRegistration(w) PROVE projects'[m] # None
  <2>1. projects' = [p \in Project |->
          IF p \in InWorkspace(projects, w) THEN Gone ELSE projects[p]]
    BY <1>3, Zenon DEF RemoveRegistration
  <2> QED
    BY <2>1
<1>4. ASSUME NEW p \in Project, NEW row \in ProjectRow, UpsertProject(p, row)
      PROVE  projects'[m] # None
  BY <1>1, <1>4 DEF UpsertProject
<1>5. ASSUME NEW ps \in SUBSET Project, NEW data \in [ps -> Data], SaveLaunchTask(ps, data)
      PROVE  projects'[m] # None
  <2>1. /\ projects' = [p \in Project |->
              IF p \in ps THEN [projects[p] EXCEPT !.data = data[p]] ELSE projects[p]]
        /\ ps \subseteq Live(projects)
    BY <1>5 DEF SaveLaunchTask
  <2>2. CASE m \in ps
    <3>1. projects[m] \in ProjectRow /\ data[m] \in Data
      BY <1>0, <2>1, <2>2, LiveProjects
    <3>2. [projects[m] EXCEPT !.data = data[m]] \in ProjectRow
      BY <3>1, RelabelledProject, Zenon
    <3>3. projects'[m] = [projects[m] EXCEPT !.data = data[m]]
      BY <2>1, <2>2
    <3> QED
      BY <3>2, <3>3
  <2>3. CASE m \notin ps
    BY <2>1, <2>3
  <2> QED
    BY <2>2, <2>3
<1>6. ASSUME NEW p \in Project, NEW data \in Data, ChangeLaunchTasks(p, data)
      PROVE  projects'[m] # None
  <2> DEFINE row == [projects[p] EXCEPT !.data = data]
  <2>1. projects' = [projects EXCEPT ![p] = row] /\ projects[p] \in ProjectRow
    BY <1>0, <1>6, LiveProjects DEF ChangeLaunchTasks
  <2>2. row \in ProjectRow
    BY <2>1, RelabelledProject, Zenon
  <2> HIDE DEF row
  <2> QED
    BY <1>1, <2>1, <2>2, Zenon
<1>7. CASE UNCHANGED projects
  BY <1>7
<1>8. ASSUME NEW w \in Workspace, NEW row \in Row, UpsertWorkspace(w, row) PROVE UNCHANGED projects
  BY <1>8, Zenon DEF UpsertWorkspace
<1>9. ASSUME NEW w \in Workspace, DeleteWorkspace(w) PROVE UNCHANGED projects
  BY <1>9, Zenon DEF DeleteWorkspace
<1>10. ASSUME NEW w \in Workspace, NEW data \in Data, UpdateDescription(w, data)
       PROVE  UNCHANGED projects
  BY <1>10, Zenon DEF UpdateDescription
<1>11. ASSUME NEW ws \in SUBSET Workspace, NEW data \in [ws -> Data], ChangeWorkspaces(ws, data)
       PROVE  UNCHANGED projects
  BY <1>11, Zenon DEF ChangeWorkspaces
<1> QED
  BY <1>2, <1>3, <1>4, <1>5, <1>6, <1>7, <1>8, <1>9, <1>10, <1>11, Zenon DEF Command

LEMMA HeldBegins == ASSUME Init PROVE HeldInv
BY DEF Init, Idle, HeldInv, AnalysedOK, DraftGrows, WrittenOK

LEMMA CommandHeld == ASSUME IInv, HeldInv, Command PROVE HeldInv'
<1>1. draft = NoDraft /\ UNCHANGED <<importing, draft, job>>
  BY CommandKeeps DEF IInv, Writable, CommandOnly
<1>2. DraftGrows' /\ WrittenOK'
  BY <1>1 DEF DraftGrows, WrittenOK, IInv, LockOK
<1>3. AnalysedOK'
  <2> SUFFICES ASSUME NEW c \in Importer, job[c].phase \in {"analysed", "writing"},
                      NEW i \in DOMAIN job[c].plan, NEW path \in job[c].plan[i].item.paths,
                      job[c].plan[i].matched[path] # None
               PROVE  /\ job[c].plan[i].matched[path] \in Project
                      /\ projects'[job[c].plan[i].matched[path]] # None
    BY <1>1 DEF HeldInv, AnalysedOK, MatchedBefore
  <2>1. /\ job[c].plan[i].matched[path] \in Project
        /\ projects[job[c].plan[i].matched[path]] # None
    BY DEF HeldInv, AnalysedOK, MatchedBefore
  <2> QED
    BY <2>1, CommandFreesNoId DEF IInv
<1> QED
  BY <1>2, <1>3 DEF HeldInv

\* Entries that were not blocked share no directory with another, and a project is
\* matched by its directory.
LEMMA PlannedApart ==
    ASSUME NEW doc \in Documents, TablesOK(workspaces, projects),
           NEW actions \in [DOMAIN doc -> {"skip", "create", "update"}],
           \A i \in DOMAIN doc : actions[i] \in Allowed(doc, i)
    PROVE  LET plan == [i \in DOMAIN doc |-> Planned(doc, i, actions[i])]
           IN Apart(plan) /\ MatchedBefore(plan, projects)
<1> DEFINE plan == [i \in DOMAIN doc |-> Planned(doc, i, actions[i])]
<1>1. \A i \in DOMAIN doc :
         /\ plan[i].action = actions[i] /\ plan[i].item = doc[i]
         /\ \A path \in doc[i].paths :
              plan[i].matched[path] = IF actions[i] = "update" /\ At(path) # {}
                                      THEN CHOOSE p \in At(path) : TRUE ELSE None
  BY DEF Planned
<1>2. DOMAIN plan = DOMAIN doc
  OBVIOUS
<1> HIDE DEF plan
<1>3. \A i \in DOMAIN plan : \A path \in plan[i].item.paths :
         plan[i].matched[path] # None =>
            /\ plan[i].matched[path] \in Live(projects)
            /\ projects[plan[i].matched[path]].path = path
  <2> SUFFICES ASSUME NEW i \in DOMAIN doc, NEW path \in doc[i].paths,
                      plan[i].matched[path] # None
               PROVE  plan[i].matched[path] \in At(path)
    BY <1>1, <1>2 DEF At
  <2>1. plan[i].matched[path] = CHOOSE p \in At(path) : TRUE
    BY <1>1
  <2>2. At(path) # {}
    BY <1>1
  <2> HIDE DEF At
  <2> QED
    BY <2>1, <2>2, Zenon
<1>4. \A i \in DOMAIN plan : plan[i].action # "skip" => ~Blocked(doc, i)
  BY <1>1, <1>2, Zenon DEF Allowed
<1>5. Apart(plan)
  <2> SUFFICES ASSUME NEW i \in DOMAIN plan, NEW j \in DOMAIN plan, i # j,
                      plan[i].action # "skip",
                      NEW path \in plan[i].item.paths, NEW other \in plan[j].item.paths
               PROVE  /\ path # other
                      /\ plan[i].matched[path] # None =>
                            plan[i].matched[path] # plan[j].matched[other]
    BY Zenon DEF Apart
  <2>1. path \in doc[i].paths /\ other \in doc[j].paths /\ j \in DOMAIN doc \ {i}
    BY <1>1, <1>2
  <2>2. path # other
    BY <1>2, <1>4, <2>1 DEF Blocked
  <2>3. /\ plan[i].matched[path] # None => projects[plan[i].matched[path]].path = path
        /\ plan[j].matched[other] # None => projects[plan[j].matched[other]].path = other
    BY <1>3
  <2> QED
    BY <2>2, <2>3
<1>6. MatchedBefore(plan, projects)
  BY <1>3, LiveProjects DEF MatchedBefore, TablesOK, Live
<1> QED
  BY <1>5, <1>6 DEF plan

LEMMA AnalyseHeld ==
    ASSUME IInv, HeldInv, NEW c \in Importer, NEW doc \in Documents, Analyse(c, doc)
    PROVE  HeldInv'
<1>1. PICK actions \in [DOMAIN doc -> {"skip", "create", "update"}] :
        /\ \A i \in DOMAIN doc : actions[i] \in Allowed(doc, i)
        /\ Go(c, [Idle EXCEPT
              !.phase = "analysed",
              !.plan = [i \in DOMAIN doc |-> Planned(doc, i, actions[i])]])
  BY Zenon DEF Analyse
<1> DEFINE plan == [i \in DOMAIN doc |-> Planned(doc, i, actions[i])]
           r == [Idle EXCEPT !.phase = "analysed", !.plan = plan]
<1>2. importing = None /\ UNCHANGED <<workspaces, projects, draft>>
  BY DEF Analyse
<1>3. Apart(plan) /\ MatchedBefore(plan, projects)
  BY <1>1, PlannedApart DEF IInv
<1>4. Go(c, r)
  BY <1>1
<1> HIDE DEF plan
<1>5. r.phase = "analysed" /\ r.plan = plan
  BY DEF Idle
<1> HIDE DEF r
<1>6. job'[c] = r /\ \A d \in Importer : d # c => job'[d] = job[d]
  BY <1>4 DEF Go, IInv, LockOK
<1>7. \A d \in Importer : job[d].phase \notin {"analysed", "writing"}
  BY <1>2, WorkspacesAssumption DEF IInv, LockOK
<1>8. AnalysedOK'
  BY <1>2, <1>3, <1>5, <1>6, <1>7 DEF AnalysedOK, MatchedBefore
<1>9. WrittenOK'
  BY <1>5, <1>6, <1>7 DEF WrittenOK
<1> QED
  BY <1>2, <1>8, <1>9 DEF HeldInv, DraftGrows

\* The entries of a plan are numbered from 1.
LEMMA PlanNumbers == ASSUME NEW plan \in Plans, NEW i \in DOMAIN plan PROVE i \in Nat /\ 1 <= i
<1>1. PICK doc \in Documents : DOMAIN plan = DOMAIN doc
  BY DEF Plans
<1>2. doc \in Seq(Item)
  BY WorkspacesAssumption, Zenon
<1>3. DOMAIN doc = 1..Len(doc) /\ Len(doc) \in Nat
  BY <1>2
<1> QED
  BY <1>1, <1>3

LEMMA OpenHeld == ASSUME IInv, HeldInv, NEW c \in Importer, OpenImport(c) PROVE HeldInv'
<1> DEFINE r == [job[c] EXCEPT !.phase = "writing", !.at = 1]
<1>1. /\ job[c].phase = "analysed" /\ Go(c, r)
      /\ draft' = [workspaces |-> workspaces, projects |-> projects]
      /\ UNCHANGED <<workspaces, projects>>
  BY DEF OpenImport
<1>2. job[c] \in Job
  BY DEF IInv, LockOK
<1>3. r.phase = "writing" /\ r.plan = job[c].plan /\ r.at = 1
  BY <1>2 DEF Job
<1> HIDE DEF r
<1>4. job'[c] = r /\ \A d \in Importer : d # c => job'[d] = job[d]
  BY <1>1 DEF Go, IInv, LockOK
<1>5. \A d \in Importer : d # c => job[d].phase \notin {"analysed", "writing"}
  BY <1>1, OnlyOne DEF IInv
<1>6. draft'.workspaces = workspaces /\ draft'.projects = projects
  BY <1>1
<1>7. \A i \in DOMAIN r.plan : ~(i < r.at)
  BY <1>2, <1>3, PlanNumbers DEF Job
<1>8. WrittenOK'
  BY <1>4, <1>5, <1>7 DEF WrittenOK, WrittenUpTo
<1>9. AnalysedOK'
  BY <1>1, <1>3, <1>4, <1>5 DEF HeldInv, AnalysedOK, MatchedBefore
<1> QED
  BY <1>1, <1>6, <1>8, <1>9 DEF HeldInv, DraftGrows

\* The rows and jobs the invariant speaks of stay.
LEMMA QuietHeld ==
    ASSUME HeldInv, UNCHANGED <<workspaces, projects, draft>>,
           \A d \in Importer : job'[d].phase \in {"analysed", "writing"} =>
              /\ job'[d].phase = job[d].phase /\ job'[d].plan = job[d].plan
              /\ job'[d].at = job[d].at
    PROVE  HeldInv'
<1>1. AnalysedOK'
  BY DEF HeldInv, AnalysedOK, MatchedBefore
<1>2. DraftGrows'
  BY DEF HeldInv, DraftGrows
<1>3. WrittenOK'
  BY DEF HeldInv, WrittenOK, WrittenUpTo, Made
<1> QED
  BY <1>1, <1>2, <1>3 DEF HeldInv

LEMMA SkipHeld == ASSUME IInv, HeldInv, NEW c \in Importer, SkipEntry(c) PROVE HeldInv'
<1> DEFINE r == [job[c] EXCEPT !.at = @ + 1]
<1>1. /\ job[c].phase = "writing" /\ Go(c, r)
      /\ job[c].plan[job[c].at].action = "skip"
      /\ UNCHANGED <<workspaces, projects, draft>>
  BY DEF SkipEntry, Writing, Current
<1>2. job[c] \in Job
  BY DEF IInv, LockOK
<1>3. r.phase = "writing" /\ r.plan = job[c].plan /\ r.at = job[c].at + 1 /\ job[c].at \in Nat
  BY <1>1, <1>2 DEF Job
<1> HIDE DEF r
<1>4. job'[c] = r /\ \A d \in Importer : d # c => job'[d] = job[d]
  BY <1>1 DEF Go, IInv, LockOK
<1>5. \A i \in DOMAIN r.plan : i < r.at /\ r.plan[i].action # "skip" => i < job[c].at
  <2> SUFFICES ASSUME NEW i \in DOMAIN job[c].plan, i < job[c].at + 1, i # job[c].at
               PROVE  i < job[c].at
    BY <1>1, <1>3
  <2>1. i \in Nat
    BY <1>2, PlanNumbers DEF Job
  <2> QED
    BY <1>3, <2>1
<1>6. WrittenUpTo(r.plan, r.at, draft.projects)
  BY <1>1, <1>3, <1>5 DEF HeldInv, WrittenOK, WrittenUpTo
<1>7. \A d \in Importer : d # c => job[d].phase \notin {"analysed", "writing"}
  BY <1>1, OnlyOne DEF IInv
<1>8. WrittenOK'
  BY <1>1, <1>4, <1>6, <1>7 DEF WrittenOK, WrittenUpTo, Made
<1>9. AnalysedOK'
  BY <1>1, <1>3, <1>4 DEF HeldInv, AnalysedOK, MatchedBefore
<1> QED
  BY <1>1, <1>8, <1>9 DEF HeldInv, DraftGrows

\* What writing an entry leaves in the job, the draft and the tables.
LEMMA WroteJob ==
    ASSUME IInv, NEW c \in Importer, job[c].phase = "writing", NEW w, NEW row, NEW ids,
           Wrote(c, w, row, ids)
    PROVE  /\ job'[c].plan = job[c].plan /\ job'[c].at = job[c].at + 1
           /\ \A d \in Importer : d # c => job'[d].phase \notin {"analysed", "writing"}
           /\ draft'.workspaces = [draft.workspaces EXCEPT ![w] = row]
           /\ draft'.projects = Inserted(job[c].plan[job[c].at], w, ids)
           /\ UNCHANGED <<workspaces, projects>>
<1> DEFINE e == job[c].plan[job[c].at]
           at == job[c].at + 1
           touched == Append(job[c].touched, [workspace |-> w, default |-> e.item.default])
           pin == IF e.item.pinned THEN job[c].pin \cup {w} ELSE job[c].pin
           unpin == IF e.item.pinned \/ e.action = "create" THEN job[c].unpin
                    ELSE job[c].unpin \cup {w}
           r == [job[c] EXCEPT !.at = at, !.touched = touched, !.pin = pin, !.unpin = unpin]
<1>1. /\ Go(c, r) /\ UNCHANGED <<workspaces, projects>>
      /\ draft' = [workspaces |-> [draft.workspaces EXCEPT ![w] = row],
                   projects |-> Inserted(job[c].plan[job[c].at], w, ids)]
  BY Zenon DEF Wrote, Current
<1>2. job[c] \in Job /\ job \in [Importer -> Job]
  BY DEF IInv, LockOK
<1>3. \A d \in Importer : d # c => job[d].phase \notin {"analysed", "writing"}
  BY OnlyOne DEF IInv
<1> HIDE DEF touched, pin, unpin, e
<1>4. r.plan = job[c].plan /\ r.at = job[c].at + 1
  BY <1>2 DEF Job
<1> HIDE DEF r
<1>5. job'[c] = r /\ \A d \in Importer : d # c => job'[d] = job[d]
  BY <1>1, <1>2 DEF Go
<1>6. draft'.workspaces = [draft.workspaces EXCEPT ![w] = row]
  BY <1>1
<1>7. draft'.projects = Inserted(job[c].plan[job[c].at], w, ids)
  BY <1>1
<1> QED
  BY <1>1, <1>3, <1>4, <1>5, <1>6, <1>7

\* The row an entry writes for a directory.
LEMMA InsertedRow ==
    ASSUME NEW e \in Entry, NEW w \in Workspace, NEW ids \in Ids(e), NEW path \in e.item.paths
    PROVE  /\ ids[path] \in Project
           /\ Inserted(e, w, ids)[ids[path]] = [workspace |-> w, data |-> e.item.data, path |-> path]
           /\ [workspace |-> w, data |-> e.item.data, path |-> path] \in ProjectRow
<1>1. ids \in [e.item.paths -> Project]
  BY DEF Ids
<1>2. \A other \in e.item.paths : ids[path] = ids[other] => path = other
  BY DEF Ids
<1>3. ids[path] \in Project
  BY <1>1
<1>4. (CHOOSE other \in e.item.paths : ids[other] = ids[path]) = path
  <2>1. \E other \in e.item.paths : ids[other] = ids[path]
    OBVIOUS
  <2> QED
    BY <1>2, <2>1, Zenon
<1>5. Inserted(e, w, ids)[ids[path]] =
        [workspace |-> w, data |-> e.item.data,
         path |-> CHOOSE other \in e.item.paths : ids[other] = ids[path]]
  BY <1>3, Zenon DEF Inserted
<1>6. e.item.paths \in SUBSET Path /\ e.item.data \in Data
  BY EntryParts
<1>7. [workspace |-> w, data |-> e.item.data, path |-> path] \in ProjectRow
  BY <1>6 DEF ProjectRow
<1> QED
  BY <1>3, <1>4, <1>5, <1>7, Zenon

\* An entry that is written holds its directories, and spares those written before.
LEMMA WroteHeld ==
    ASSUME IInv, HeldInv, NEW c \in Importer, job[c].phase = "writing",
           NEW i, i = job[c].at, i \in DOMAIN job[c].plan, job[c].plan[i].action # "skip",
           NEW w \in Workspace, NEW row \in Row,
           job[c].plan[i].action = "update" => w = job[c].plan[i].workspace,
           job[c].plan[i].action = "create" => draft.workspaces[w] = None,
           NEW ids \in Ids(job[c].plan[i]),
           Wrote(c, w, row, ids)
    PROVE  HeldInv'
<1> DEFINE plan == job[c].plan
           e == plan[i]
           u == Inserted(e, w, ids)
<1>1. /\ job[c] \in Job /\ draft # NoDraft
      /\ draft.workspaces \in Table /\ draft.projects \in ProjectTable
  BY WritingParts
<1>2. e \in Entry /\ plan \in Plans /\ i \in Nat
  BY <1>1, PlanEntries DEF Job
<1>3. /\ job'[c].plan = plan /\ job'[c].at = i + 1
      /\ \A d \in Importer : d # c => job'[d].phase \notin {"analysed", "writing"}
      /\ draft'.workspaces = [draft.workspaces EXCEPT ![w] = row]
      /\ draft'.projects = u
      /\ UNCHANGED <<workspaces, projects>>
  <2>1. /\ job'[c].plan = job[c].plan /\ job'[c].at = job[c].at + 1
        /\ \A d \in Importer : d # c => job'[d].phase \notin {"analysed", "writing"}
        /\ draft'.workspaces = [draft.workspaces EXCEPT ![w] = row]
        /\ draft'.projects = Inserted(job[c].plan[job[c].at], w, ids)
        /\ UNCHANGED <<workspaces, projects>>
    BY WroteJob, Zenon
  <2> QED
    BY <2>1, Zenon
<1>4. ids \in [e.item.paths -> Project] /\ \A path \in e.item.paths :
         IF e.matched[path] = None THEN ids[path] \in Unused(draft.projects)
         ELSE ids[path] = e.matched[path]
  BY Zenon DEF Ids
<1>5. u \in ProjectTable /\ \A p \in Project :
        (\A path \in e.item.paths : ids[path] # p) => u[p] = draft.projects[p]
  <2>1. /\ u \in ProjectTable
        /\ \A p \in Project :
              IF \E path \in e.item.paths : ids[path] = p
              THEN u[p] \in ProjectRow /\ u[p].workspace = w ELSE u[p] = draft.projects[p]
    BY <1>1, <1>2, <1>4, InsertedRows
  <2> HIDE DEF u
  <2> QED
    BY <2>1
<1>6. \A path \in e.item.paths :
        /\ ids[path] \in Project
        /\ u[ids[path]] = [workspace |-> w, data |-> e.item.data, path |-> path]
        /\ [workspace |-> w, data |-> e.item.data, path |-> path] \in ProjectRow
  BY <1>2, InsertedRow
<1>7. Apart(plan) /\ MatchedBefore(plan, projects)
  BY DEF HeldInv, AnalysedOK
<1>8. /\ \A p \in Project : projects[p] # None => draft.projects[p] # None
      /\ \A x \in Workspace : workspaces[x] # None => draft.workspaces[x] # None
  BY <1>1 DEF HeldInv, DraftGrows
<1>9. WrittenUpTo(plan, i, draft.projects)
  BY DEF HeldInv, WrittenOK
<1> HIDE DEF u, plan, e
<1>10. DraftGrows'
  <2>1. \A p \in Project : draft.projects[p] # None => u[p] # None
    <3> SUFFICES ASSUME NEW p \in Project, draft.projects[p] # None PROVE u[p] # None
      OBVIOUS
    <3>1. CASE \E path \in e.item.paths : ids[path] = p
      BY <1>6, <3>1, NoneElsewhere
    <3>2. CASE ~\E path \in e.item.paths : ids[path] = p
      BY <1>5, <3>2
    <3> QED
      BY <3>1, <3>2
  <2>2. \A x \in Workspace : draft.workspaces[x] # None => draft'.workspaces[x] # None
    BY <1>1, <1>3, PutRow, NoRows
  <2> QED
    BY <1>3, <1>8, <2>1, <2>2 DEF DraftGrows
<1>11. AnalysedOK'
  BY <1>3, <1>7 DEF AnalysedOK, MatchedBefore
<1>12. ASSUME NEW path \in e.item.paths
       PROVE  \E p \in Project : Made(e, path, u[p]) /\ Owned(plan, i, path, p)
  <2> DEFINE p == ids[path]
  <2>1. /\ p \in Project
        /\ u[p] = [workspace |-> w, data |-> e.item.data, path |-> path]
        /\ u[p] \in ProjectRow
    BY <1>6, <1>12
  <2>2. w \in Workspace /\ (e.action = "create" => workspaces[w] = None)
    BY <1>8 DEF e, plan
  <2>3. e.action = "update" => w = e.workspace
    BY DEF e, plan
  <2>4. Made(e, path, u[p])
    BY <2>1, <2>2, <2>3 DEF Made
  <2>5. CASE e.matched[path] = None
    <3>1. draft.projects[p] = None
      BY <1>4, <1>12, <2>5 DEF Unused
    <3>2. projects[p] = None
      BY <1>8, <2>1, <3>1
    <3>3. \A j \in DOMAIN plan : \A other \in plan[j].item.paths : p # plan[j].matched[other]
      BY <1>7, <2>1, <3>2, NoneElsewhere DEF MatchedBefore
    <3> QED
      BY <2>1, <2>4, <3>3 DEF Owned
  <2>6. CASE e.matched[path] # None
    <3>1. p = plan[i].matched[path]
      BY <1>4, <1>12, <2>6 DEF e
    <3> QED
      BY <2>1, <2>4, <3>1 DEF Owned
  <2> QED
    BY <2>5, <2>6
<1>13. ASSUME NEW j \in DOMAIN plan, j < i, plan[j].action # "skip",
              NEW path \in plan[j].item.paths
       PROVE  \E p \in Project : Made(plan[j], path, u[p]) /\ Owned(plan, j, path, p)
  <2>1. PICK p \in Project : Made(plan[j], path, draft.projects[p]) /\ Owned(plan, j, path, p)
    BY <1>9, <1>13 DEF WrittenUpTo
  <2>2. draft.projects[p] # None
    BY <2>1, NoneElsewhere DEF Made
  <2>3. i \in DOMAIN plan /\ j # i
    BY <1>2, <1>13, PlanNumbers DEF plan
  <2>4. ASSUME NEW other \in e.item.paths PROVE ids[other] # p
    <3>1. CASE e.matched[other] = None
      <4>1. draft.projects[ids[other]] = None
        BY <1>4, <2>4, <3>1 DEF Unused
      <4> QED
        BY <2>2, <4>1
    <3>2. CASE e.matched[other] # None
      <4>1. ids[other] = plan[i].matched[other] /\ other \in plan[i].item.paths
        BY <1>4, <2>4, <3>2 DEF e
      <4>2. p # plan[i].matched[other]
        <5>1. CASE p = plan[j].matched[path]
          <6>1. p # None
            BY NoneElsewhere
          <6> QED
            BY <1>7, <1>13, <2>3, <4>1, <5>1, <6>1 DEF Apart
        <5>2. CASE p # plan[j].matched[path]
          BY <2>1, <2>3, <4>1, <5>2 DEF Owned
        <5> QED
          BY <5>1, <5>2
      <4> QED
        BY <4>1, <4>2
    <3> QED
      BY <3>1, <3>2
  <2>5. u[p] = draft.projects[p]
    BY <1>5, <2>4
  <2> QED
    BY <2>1, <2>5
<1>14. WrittenUpTo(plan, i + 1, u)
  <2> SUFFICES ASSUME NEW j \in DOMAIN plan, j < i + 1, plan[j].action # "skip",
                      NEW path \in plan[j].item.paths
               PROVE  \E p \in Project : Made(plan[j], path, u[p]) /\ Owned(plan, j, path, p)
    BY DEF WrittenUpTo
  <2>1. j < i \/ j = i
    BY <1>2, PlanNumbers
  <2> QED
    BY <1>12, <1>13, <2>1 DEF e
<1>15. WrittenOK'
  BY <1>3, <1>14 DEF WrittenOK, WrittenUpTo, Made
<1> QED
  BY <1>10, <1>11, <1>15 DEF HeldInv

LEMMA CreateHeld ==
    ASSUME IInv, HeldInv, NEW c \in Importer, NEW w \in Workspace, CreateEntry(c, w)
    PROVE  HeldInv'
<1> DEFINE i == job[c].at
           e == job[c].plan[i]
           row == [default |-> FALSE, data |-> e.item.data]
<1>1. /\ job[c].phase = "writing" /\ i \in DOMAIN job[c].plan /\ e.action = "create"
      /\ draft.workspaces[w] = None
  BY DEF CreateEntry, Writing, Current, Unused
<1>2. PICK ids \in Ids(e) : Wrote(c, w, row, ids)
  BY Zenon DEF CreateEntry, Current
<1>3. e \in Entry
  BY <1>1, WritingParts, PlanEntries DEF Job
<1>4. e.item.data \in Data
  BY <1>3, EntryParts
<1> HIDE DEF e
<1>5. row \in Row
  BY <1>4 DEF Row
<1> HIDE DEF row
<1> QED
  BY <1>1, <1>2, <1>5, WroteHeld DEF e

LEMMA UpdateHeld == ASSUME IInv, HeldInv, NEW c \in Importer, UpdateEntry(c) PROVE HeldInv'
<1> DEFINE i == job[c].at
           e == job[c].plan[i]
           w == e.workspace
           row == Relabelled(draft.workspaces[w], e.item.data)
<1>1. /\ job[c].phase = "writing" /\ i \in DOMAIN job[c].plan /\ e.action = "update"
      /\ w \in Live(draft.workspaces)
  BY DEF UpdateEntry, Writing, Current, StillThere
<1>2. PICK ids \in Ids(e) : Wrote(c, w, row, ids)
  BY Zenon DEF UpdateEntry, Current, Relabelled
<1>3. e \in Entry /\ draft.workspaces \in Table
  BY <1>1, WritingParts, PlanEntries DEF Job
<1>4. e.item.data \in Data
  BY <1>3, EntryParts
<1>5. w \in Workspace /\ draft.workspaces[w] \in Row
  BY <1>1, <1>3, LiveRows
<1>6. row \in Row
  BY <1>4, <1>5, RelabelledRow
<1> HIDE DEF row, w
<1> QED
  BY <1>1, <1>2, <1>5, <1>6, WroteHeld DEF w

\* The transaction is over.
LEMMA EndHeld ==
    ASSUME IInv, HeldInv, NEW c \in Importer, job[c].phase \in {"analysed", "writing"},
           NEW r \in Job, r.phase \in {"idle", "pins"}, Go(c, r), draft' = NoDraft
    PROVE  HeldInv'
<1>1. job'[c] = r /\ \A d \in Importer : d # c => job'[d] = job[d]
  BY JobStep DEF IInv
<1>2. \A d \in Importer : job'[d].phase \notin {"analysed", "writing"}
  BY <1>1, OnlyOne DEF IInv
<1> QED
  BY <1>2 DEF HeldInv, AnalysedOK, DraftGrows, WrittenOK

LEMMA CommitHeld == ASSUME IInv, HeldInv, NEW c \in Importer, CommitImport(c) PROVE HeldInv'
<1>1. job[c].phase = "writing" /\ draft' = NoDraft /\ Go(c, AfterImport(job[c]))
  BY Zenon DEF CommitImport
<1>2. job[c] \in Job
  BY DEF IInv, LockOK
<1> QED
  BY <1>1, <1>2, AfterImportType, EndHeld

\* A job that ends where nothing is written.
LEMMA IdleHeld ==
    ASSUME IInv, HeldInv, NEW c \in Importer, Go(c, Idle),
           UNCHANGED <<workspaces, projects, draft>>
    PROVE  HeldInv'
<1>1. job'[c] = Idle /\ \A d \in Importer : d # c => job'[d] = job[d]
  BY DEF Go, IInv, LockOK
<1>2. Idle.phase = "idle"
  BY DEF Idle
<1> QED
  BY <1>1, <1>2, QuietHeld

LEMMA AbortHeld == ASSUME IInv, HeldInv, NEW c \in Importer, AbortImport(c) PROVE HeldInv'
<1>1. /\ job[c].phase \in {"analysed", "writing"} /\ Go(c, Idle)
      /\ UNCHANGED <<workspaces, projects>>
      /\ draft' = NoDraft \/ draft' = draft
  BY DEF AbortImport
<1>2. Idle \in Job /\ Idle.phase = "idle"
  BY DEF Idle, Job, Plans
<1> QED
  BY <1>1, <1>2, EndHeld, IdleHeld

LEMMA StepHeld == ASSUME IInv, HeldInv, [Next]_vars PROVE HeldInv'
<1>1. CASE Command
  BY <1>1, CommandHeld
<1>2. ASSUME NEW c \in Importer, MergePins(c) PROVE HeldInv'
  BY <1>2, IdleHeld DEF MergePins
<1>3. ASSUME NEW c \in Importer, Import(c) PROVE HeldInv'
  BY <1>2, <1>3, AnalyseHeld, OpenHeld, CreateHeld, UpdateHeld, SkipHeld, CommitHeld, AbortHeld
     DEF Import
<1>4. ASSUME NEW w \in Workspace, Pin(w) PROVE HeldInv'
  BY <1>4, QuietHeld DEF Pin
<1>5. ASSUME NEW path \in Path, DirectoryChanges(path) PROVE HeldInv'
  BY <1>5, QuietHeld DEF DirectoryChanges
<1>6. CASE UNCHANGED vars
  BY <1>6, QuietHeld DEF vars
<1> QED
  BY <1>1, <1>3, <1>4, <1>5, <1>6, Zenon DEF Next

\* Every entry the user chose is in what a commit leaves.
LEMMA CommitHolds ==
    ASSUME IInv, HeldInv, NEW c \in Importer, CommitImport(c),
           NEW i \in DOMAIN job[c].plan, job[c].plan[i].action # "skip",
           NEW path \in job[c].plan[i].item.paths
    PROVE  Holds(job[c].plan[i], path)
<1> DEFINE plan == job[c].plan
<1>1. job[c].phase = "writing" /\ job[c].at > Len(plan) /\ projects' = draft.projects
  BY DEF CommitImport
<1>2. job[c] \in Job /\ plan \in Plans /\ draft.projects \in ProjectTable
  BY <1>1, WritingParts DEF Job
<1>3. i < job[c].at
  <2>1. PICK doc \in Documents : DOMAIN plan = DOMAIN doc
    BY <1>2 DEF Plans
  <2>2. doc \in Seq(Item)
    BY WorkspacesAssumption, Zenon
  <2>3. PICK n \in Nat : DOMAIN plan = 1..n
    BY <2>1, <2>2
  <2>4. plan \in [1..n -> Entry]
    BY <1>2, <2>3 DEF Plans
  <2>5. Len(plan) = n
    BY <2>4
  <2>6. job[c].at \in Nat
    BY <1>2 DEF Job
  <2> QED
    BY <1>1, <2>3, <2>5, <2>6
<1>4. PICK p \in Project : Made(plan[i], path, draft.projects[p])
  BY <1>1, <1>3 DEF HeldInv, WrittenOK, WrittenUpTo
<1>5. p \in Live(projects')
  BY <1>1, <1>2, <1>4, LiveProjects DEF Made
<1> QED
  BY <1>1, <1>4, <1>5 DEF Holds, Made

\* An import is whole: when its transaction ends, every entry the user chose is in
\* the tables, in one project per directory, or the tables are as they were
\* (apply_workspace_import_plan under database.write).
THEOREM WholeCorrect == Spec => ImportIsWhole
<1> DEFINE Whole == \A c \in Importer : Commits(c) =>
                       \/ UNCHANGED tables
                       \/ \A i \in DOMAIN job[c].plan :
                             LET entry == job[c].plan[i]
                             IN entry.action # "skip" =>
                                   \A path \in entry.item.paths : Holds(entry, path)
<1>1. Init => HeldInv
  BY HeldBegins
<1>2. IInv /\ HeldInv /\ [Next]_vars => HeldInv'
  BY StepHeld
<1>3. IInv /\ HeldInv /\ [Next]_vars => [Whole]_vars
  <2> SUFFICES ASSUME IInv, HeldInv, [Next]_vars, NEW c \in Importer, Commits(c)
               PROVE  \/ UNCHANGED tables
                      \/ \A i \in DOMAIN job[c].plan :
                            LET entry == job[c].plan[i]
                            IN entry.action # "skip" =>
                                  \A path \in entry.item.paths : Holds(entry, path)
    BY Zenon
  <2>1. CASE AbortImport(c)
    BY <2>1 DEF AbortImport, tables
  <2>2. CASE CommitImport(c)
    BY <2>2, CommitHolds, Zenon
  <2> QED
    BY <2>1, <2>2, EndsByCommitOrAbort
<1> QED
  BY <1>1, <1>2, <1>3, InvHolds, PTL DEF Spec, ImportIsWhole
=============================================================================
