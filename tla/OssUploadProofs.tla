--------------------------- MODULE OssUploadProofs ---------------------------
(***************************************************************************)
(* Proofs about OssUpload, for files of every number of parts, every set   *)
(* of concurrent commands, with and without faults and restarts:           *)
(*                                                                         *)
(*   UploadTypeCorrect   Spec => []TypeOK                                  *)
(*   CompletedCorrect    Spec => []CompletedIsStored                       *)
(*   PartsCorrect        Spec => []PartsAreStored                          *)
(*   ForgetsCorrect      Spec => AttemptForgetsOnlyClosed                  *)
(*                                                                         *)
(* The row alone shows nothing: an old copy may be written back at any     *)
(* time.  What is inductive is that every copy, however old, is true: what *)
(* it claims of the provider stays so once it is so.  So does a closed     *)
(* upload, and an attempt's success with an upload is one the provider has *)
(* completed (ResultOK).                                                   *)
(***************************************************************************)
EXTENDS OssUpload, TLAPS

-----------------------------------------------------------------------------
(* Type correctness *)

LEMMA NewTaskType == NewTask \in Task /\ NewTask.saved = {}
BY DEF NewTask, Task, Status

\* What the operations on a task change.
LEMMA StatusChange ==
    ASSUME NEW t \in Task, NEW s \in Status
    PROVE  LET n == WithStatus(t, s)
           IN n \in Task /\ n.status = s /\ n.upload = t.upload /\ n.saved = t.saved
BY DEF Task, WithStatus

LEMMA UploadChange ==
    ASSUME NEW t \in Task, NEW u \in UploadId
    PROVE  LET n == WithUpload(t, u)
           IN n \in Task /\ n.status = t.status /\ n.upload = u /\ n.saved = t.saved
BY DEF Task, WithUpload

LEMMA SavedChange ==
    ASSUME NEW t \in Task, NEW p \in Nat
    PROVE  LET n == WithPart(t, p)
           IN /\ n \in Task /\ n.status = t.status /\ n.upload = t.upload
              /\ n.saved = t.saved \cup {p}
BY DEF Task, WithPart

LEMMA ClearedTask ==
    ASSUME NEW t \in Task
    PROVE  LET n == Cleared(t)
           IN n \in Task /\ n.status = t.status /\ n.upload = 0 /\ n.saved = {}
BY DEF Cleared, Task

LEMMA TaskFields ==
    ASSUME NEW t \in Task
    PROVE  t.status \in Status /\ t.upload \in {0} \cup UploadId
BY DEF Task

LEMMA InitType == Init => TypeOK
<1> SUFFICES ASSUME Init PROVE TypeOK
  OBVIOUS
<1>1. call \in [Caller -> CallPc]
  BY DEF Init, CallPc
<1>2. copy \in [Caller -> Task] /\ \A c \in Caller: copy[c].saved \subseteq Part
  BY NewTaskType DEF Init
<1>3. upload \in [UploadId -> {"none", "open", "completed", "aborted"}]
  BY DEF Init
<1>4. stored \in [UploadId -> SUBSET Nat] /\ \A u \in UploadId: stored[u] \subseteq Part
  BY DEF Init
<1>5. row \in Task /\ row.saved \subseteq Part /\ task \in Task /\ task.saved \subseteq Part
  BY NewTaskType DEF Init
<1>6. /\ size \in Sizes /\ overwrite \in BOOLEAN /\ pc \in AttemptPc /\ token \in BOOLEAN
      /\ result \in Result /\ object \in Before \cup {"ours", "broken"}
  BY DEF Init, AttemptPc, Result
<1>7. late \subseteq {0} \cup UploadId /\ faults \in 0..MaxFaults
  BY UploadAssumption DEF Init
<1> QED
  BY <1>1, <1>2, <1>3, <1>4, <1>5, <1>6, <1>7 DEF TypeOK

\* The attempt, one request after the other.
LEMMA AttemptType == TypeOK /\ AttemptStep => TypeOK'
<1> SUFFICES ASSUME TypeOK, AttemptStep PROVE TypeOK'
  OBVIOUS
<1> USE UploadAssumption DEF TypeOK, Part, UploadId, AttemptPc, Result, Goto, Return, attemptRest,
            callVars, remoteVars
<1>0. size \in Nat /\ Part \subseteq Nat
  BY UploadAssumption
<1>1. CASE MarkRunning
  <2> DEFINE t == WithStatus(task, "running")
  <2>1. t \in Task /\ t.saved = task.saved
    BY StatusChange DEF Status
  <2> QED
    BY <1>1, <2>1 DEF MarkRunning, Update
<1>2. CASE BeginFails
  BY <1>2 DEF BeginFails
<1>3. CASE Begin
  BY <1>3 DEF Begin
<1>4. CASE Put
  BY <1>4 DEF Put, PutActs, GivenUp
<1>5. CASE PutSave
  BY <1>5 DEF PutSave, Update
<1>6. CASE Initiate
  BY <1>6 DEF Initiate
<1>7. CASE Initiated
  <2>1. upload' \in [UploadId -> {"none", "open", "completed", "aborted"}]
    BY <1>7 DEF Initiated, Opened
  <2>2. \A u \in UploadId: WithUpload(task, u) \in Task /\ WithUpload(task, u).saved = task.saved
    BY UploadChange
  <2>3. task' = task \/ \E u \in UploadId: task' = WithUpload(task, u)
    BY <1>7 DEF Initiated
  <2> QED
    <3>1. task' \in Task /\ task'.saved \subseteq Part
      BY <2>2, <2>3
    <3>2. UNCHANGED <<stored, object, late>> /\ UNCHANGED attemptRest
      BY <1>7 DEF Initiated, Opened
    <3>3. pc' \in AttemptPc /\ result' \in Result
      BY <1>7 DEF Initiated
    <3> QED
      BY <2>1, <3>1, <3>2, <3>3
<1>8. CASE UploadSave
  BY <1>8 DEF UploadSave, Save, Update
<1>9. CASE StartPart
  BY <1>9 DEF StartPart
<1>10. CASE ReadPartFails
  BY <1>10 DEF ReadPartFails
<1>11. CASE SendPart
  <2>1. PICK p \in Missing: SendPart!2!(p)
    BY <1>11 DEF SendPart
  <2>2. p \in Part /\ p \in Nat
    BY <1>0, <2>1 DEF Missing
  <2> DEFINE n == WithPart(task, p)
  <2>3. n \in Task /\ n.saved \subseteq Part
    <3>1. task \in Task /\ task.saved \subseteq Part
      OBVIOUS
    <3>2. n \in Task /\ n.saved = task.saved \cup {p}
      BY <2>2, <3>1, SavedChange
    <3> QED
      BY <2>2, <3>1, <3>2
  <2>4. \/ stored' = stored
        \/ /\ task.upload \in UploadId
           /\ stored' = [stored EXCEPT ![task.upload] = @ \cup {p}]
    BY <2>1, TaskFields DEF Stored, Open
  <2>5. stored' \in [UploadId -> SUBSET Nat] /\ \A u \in UploadId: stored'[u] \subseteq Part
    <3>1. stored \in [UploadId -> SUBSET Nat] /\ \A u \in UploadId: stored[u] \subseteq Part
      OBVIOUS
    <3>2. CASE stored' = stored
      BY <3>1, <3>2
    <3>3. CASE /\ task.upload \in UploadId
               /\ stored' = [stored EXCEPT ![task.upload] = @ \cup {p}]
      <4> HIDE DEF TypeOK, Part, UploadId
      <4>1. stored[task.upload] \cup {p} \in SUBSET Nat
        BY <2>2, <3>1, <3>3
      <4>2. stored[task.upload] \cup {p} \subseteq Part
        BY <2>2, <3>1, <3>3
      <4> QED
        BY <3>1, <3>3, <4>1, <4>2
    <3> QED
      BY <2>4, <3>2, <3>3
  <2>6. task' = task \/ task' = n
    BY <2>1
  <2> QED
    BY <1>11, <2>1, <2>3, <2>5, <2>6 DEF SendPart, Stored
<1>12. CASE PartSave
  BY <1>12 DEF PartSave, Save, Update
<1>13. CASE Complete
  <2>1. task.upload \in {0} \cup UploadId
    BY TaskFields
  <2>2. upload' \in [UploadId -> {"none", "open", "completed", "aborted"}]
    BY <1>13, <2>1 DEF Complete, CompleteActs, GivenUp
  <2>3. stored' = stored /\ late' \subseteq {0} \cup UploadId
    BY <1>13, <2>1 DEF Complete, CompleteActs, GivenUp
  <2>4. object' \in Before \cup {"ours", "broken"}
    BY <1>13 DEF Complete, CompleteActs, GivenUp
  <2> QED
    BY <1>13, <2>2, <2>3, <2>4 DEF Complete
<1>14. CASE Returned
  BY <1>14 DEF Returned
<1>15. CASE Abort
  BY <1>15, ClearedTask DEF Abort, AbortActs, Open
<1>16. CASE Finish
  <2> DEFINE b == IF result = "ok" THEN Cleared(task) ELSE task
             t == WithStatus(b, FinalStatus)
  <2>1. FinalStatus \in Status
    BY DEF FinalStatus, Status
  <2>2. b \in Task /\ b.saved \subseteq Part
    BY ClearedTask
  <2>3. t \in Task /\ t.saved \subseteq Part
    BY <2>1, <2>2, StatusChange
  <2> QED
    BY <1>16, <2>3 DEF Finish, Update
<1>17. CASE Leave
  BY <1>17, NewTaskType DEF Leave
<1> QED
  BY <1>1, <1>2, <1>3, <1>4, <1>5, <1>6, <1>7, <1>8, <1>9, <1>10, <1>11, <1>12,
     <1>13, <1>14, <1>15, <1>16, <1>17 DEF AttemptStep

LEMMA CallType == TypeOK /\ CallStep => TypeOK'
<1> SUFFICES ASSUME TypeOK, NEW c \in Caller,
                    StartCancel(c) \/ StartResume(c) \/ StartConfirm(c) \/ Continue(c)
             PROVE  TypeOK'
  BY DEF CallStep
<1> USE UploadAssumption DEF TypeOK, Part, UploadId, CallPc, CallGoto, Done, WriteAs, callRest,
            attemptVars, callVars, remoteVars
<1> DEFINE t == copy[c]
<1>0. /\ t \in Task /\ t.saved \subseteq Part
      /\ Cleared(t) \in Task /\ Cleared(t).saved = {}
      /\ \A s \in Status: WithStatus(t, s) \in Task /\ WithStatus(t, s).saved \subseteq Part
      /\ \A s \in Status: /\ WithStatus(Cleared(t), s) \in Task
                          /\ WithStatus(Cleared(t), s).saved \subseteq Part
  BY StatusChange, ClearedTask
<1>000. \A n \in Task: n.saved \subseteq Part =>
          /\ [copy EXCEPT ![c] = n] \in [Caller -> Task]
          /\ \A d \in Caller: [copy EXCEPT ![c] = n][d].saved \subseteq Part
  OBVIOUS
<1>00. {"cancelling", "cancelled", "completed", "paused", "queued"} \subseteq Status
  BY DEF Status
<1>1. CASE StartCancel(c) \/ StartResume(c) \/ StartConfirm(c)
  BY <1>1 DEF StartCancel, StartResume, StartConfirm, Load
<1>2. CASE Cancel(c)
  <2>1. \/ copy' = copy
        \/ copy' = [copy EXCEPT ![c] = NewTask]
        \/ copy' = [copy EXCEPT ![c] = WithStatus(t, "cancelling")]
        \/ copy' = [copy EXCEPT ![c] = WithStatus(t, "cancelled")]
    BY <1>2 DEF Cancel
  <2>2. copy' \in [Caller -> Task] /\ \A d \in Caller: copy'[d].saved \subseteq Part
    BY <1>0, <1>00, <1>000, <2>1, NewTaskType
  <2>3. call' \in [Caller -> CallPc] /\ token' \in BOOLEAN
    BY <1>2 DEF Cancel
  <2> QED
    BY <1>2, <2>2, <2>3 DEF Cancel
<1>3. CASE CancelAborts(c)
  <2>1. \/ copy' = [copy EXCEPT ![c] = NewTask]
        \/ copy' = [copy EXCEPT ![c] = WithStatus(Cleared(t), "cancelled")]
        \/ copy' = [copy EXCEPT ![c] = WithStatus(t, "paused")]
    BY <1>3 DEF CancelAborts
  <2>2. copy' \in [Caller -> Task] /\ \A d \in Caller: copy'[d].saved \subseteq Part
    <3> HIDE DEF TypeOK
    <3>1. /\ NewTask \in Task /\ NewTask.saved \subseteq Part
          /\ WithStatus(t, "paused") \in Task /\ WithStatus(t, "paused").saved \subseteq Part
          /\ WithStatus(Cleared(t), "cancelled") \in Task
          /\ WithStatus(Cleared(t), "cancelled").saved \subseteq Part
      BY <1>0, <1>00, NewTaskType
    <3> QED
      BY <1>000, <2>1, <3>1
  <2>3. call' \in [Caller -> CallPc]
    BY <1>3 DEF CancelAborts
  <2>4. /\ upload' \in [UploadId -> {"none", "open", "completed", "aborted"}]
        /\ UNCHANGED <<stored, object, late>>
    BY <1>3 DEF CancelAborts, AbortActs
  <2> QED
    BY <1>3, <2>2, <2>3, <2>4 DEF CancelAborts
<1>4. CASE Confirm(c)
  <2>1. \/ copy' = [copy EXCEPT ![c] = NewTask]
        \/ copy' = [copy EXCEPT ![c] = WithStatus(Cleared(t), "completed")]
        \/ copy' = [copy EXCEPT ![c] = WithStatus(t, "paused")]
    BY <1>4 DEF Confirm
  <2>2. copy' \in [Caller -> Task] /\ \A d \in Caller: copy'[d].saved \subseteq Part
    <3> HIDE DEF TypeOK
    <3>1. /\ NewTask \in Task /\ NewTask.saved \subseteq Part
          /\ WithStatus(t, "paused") \in Task /\ WithStatus(t, "paused").saved \subseteq Part
          /\ WithStatus(Cleared(t), "completed") \in Task
          /\ WithStatus(Cleared(t), "completed").saved \subseteq Part
      BY <1>0, <1>00, NewTaskType
    <3> QED
      BY <1>000, <2>1, <3>1
  <2>3. call' \in [Caller -> CallPc]
    BY <1>4 DEF Confirm
  <2> QED
    BY <1>4, <2>2, <2>3 DEF Confirm
<1>5. CASE Write(c)
  <2>1. copy' \in [Caller -> Task] /\ \A d \in Caller: copy'[d].saved \subseteq Part
    BY <1>5, <1>000, NewTaskType DEF Write
  <2>2. call' \in [Caller -> CallPc]
    BY <1>5 DEF Write
  <2>3. row' \in {row, t} /\ faults' \in 0..MaxFaults
    BY <1>5 DEF Write, Update
  <2> QED
    BY <1>0, <1>5, <2>1, <2>2, <2>3 DEF Write
<1>6. CASE Resume(c)
  BY <1>0, <1>00, <1>6, NewTaskType DEF Resume
<1>7. CASE Queue(c)
  BY <1>7, NewTaskType DEF Queue, Update
<1>8. CASE Spawn(c)
  BY <1>8, NewTaskType DEF Spawn, AttemptPc
<1> QED
  BY <1>1, <1>2, <1>3, <1>4, <1>5, <1>6, <1>7, <1>8 DEF Continue

LEMMA RestType == TypeOK /\ (LateActs \/ Restart \/ UNCHANGED vars) => TypeOK'
<1> SUFFICES ASSUME TypeOK, LateActs \/ Restart \/ UNCHANGED vars PROVE TypeOK'
  OBVIOUS
<1> USE UploadAssumption DEF TypeOK, Part, UploadId, attemptVars, callVars, remoteVars
<1>1. CASE LateActs
  <2>1. upload' \in [UploadId -> {"none", "open", "completed", "aborted"}]
    BY <1>1 DEF LateActs, PutActs, CompleteActs
  <2>2. object' \in Before \cup {"ours", "broken"} /\ late' \subseteq late /\ stored' = stored
    BY <1>1 DEF LateActs, PutActs, CompleteActs
  <2> QED
    BY <1>1, <2>1, <2>2 DEF LateActs
<1>2. CASE Restart
  <2>1. row' \in Task /\ row'.saved \subseteq Part
    BY <1>2, StatusChange DEF Restart, Recovered, Status
  <2>2. call' \in [Caller -> CallPc]
    BY <1>2 DEF Restart, CallPc
  <2>3. copy' \in [Caller -> Task] /\ \A c \in Caller: copy'[c].saved \subseteq Part
    BY <1>2, NewTaskType DEF Restart
  <2>4. late' \subseteq {0} \cup UploadId
    BY <1>2, TaskFields DEF Restart
  <2> QED
    BY <1>2, <2>1, <2>2, <2>3, <2>4, NewTaskType DEF Restart, AttemptPc, Result
<1>3. CASE UNCHANGED vars
  BY <1>3 DEF vars
<1> QED
  BY <1>1, <1>2, <1>3

\* The database row, every copy of it and the provider keep their types
\* (oss_transfer_service.rs, oss_repo.rs), for every size of file, every set of
\* commands, with faults and restarts.
THEOREM UploadTypeCorrect == Spec => []TypeOK
<1>1. TypeOK /\ [Next]_vars => TypeOK'
  BY AttemptType, CallType, RestType DEF Next
<1> QED
  BY InitType, <1>1, PTL DEF Spec

-----------------------------------------------------------------------------
(* The inductive invariant *)

\* What a copy of the task says is so, when o is at the object key and the
\* provider has the parts s.
AccurateIn(t, o, s) ==
    /\ t.status = "completed" => o \in {"ours", "twin"}
    /\ IF t.upload = 0 THEN t.saved = {} ELSE t.saved \subseteq s[t.upload]

Accurate(t) == AccurateIn(t, object, stored)
AccurateNext(t) == AccurateIn(t, object', stored')

CopiesAreAccurate == Accurate(row) /\ Accurate(task) /\ \A c \in Caller: Accurate(copy[c])

\* What the attempt has established on its way.
AttemptKnows ==
    /\ result = "ok" \/ pc = "putSave" => object \in {"ours", "twin"}
    /\ pc \in {"initiate", "initiating"} => task.upload = 0
    /\ pc = "completing" => task.saved = Part

IInv == TypeOK /\ CopiesAreAccurate /\ AttemptKnows

LEMMA NewTaskAccurate == ASSUME NEW o, NEW s PROVE AccurateIn(NewTask, o, s)
BY DEF AccurateIn, NewTask

LEMMA StatusAccurate ==
    ASSUME NEW t \in Task, NEW x \in Status, NEW o, NEW s,
           AccurateIn(t, o, s), x = "completed" => o \in {"ours", "twin"}
    PROVE  AccurateIn(WithStatus(t, x), o, s)
BY StatusChange DEF AccurateIn

LEMMA ClearedAccurate ==
    ASSUME NEW t \in Task, NEW o, NEW s, AccurateIn(t, o, s)
    PROVE  AccurateIn(Cleared(t), o, s)
BY ClearedTask DEF AccurateIn

-----------------------------------------------------------------------------
(* What was true of the provider stays true *)

\* The file stays at the object key, and parts stay with their upload.
Keeps ==
    /\ object \in {"ours", "twin"} => object' \in {"ours", "twin"}
    /\ \A u \in UploadId: stored[u] \subseteq stored'[u]

LEMMA NextKeeps == IInv /\ [Next]_vars => Keeps
<1> SUFFICES ASSUME IInv, [Next]_vars PROVE Keeps
  OBVIOUS
<1>1. CASE UNCHANGED <<stored, object>>
  BY <1>1 DEF Keeps
<1>2. CASE Put
  BY <1>2 DEF Put, PutActs, GivenUp, remoteVars, Keeps
<1>3. CASE SendPart
  <2>1. stored \in [UploadId -> SUBSET Nat]
    BY DEF IInv, TypeOK
  <2> QED
    BY <1>3, <2>1 DEF SendPart, Stored, remoteVars, Keeps
<1>4. CASE Complete
  <2>1. task.saved = Part
    BY <1>4 DEF IInv, AttemptKnows, Complete
  <2> QED
    BY <1>4, <2>1 DEF Complete, CompleteActs, GivenUp, remoteVars, Keeps
<1>5. CASE LateActs
  BY <1>5 DEF LateActs, PutActs, CompleteActs, Keeps
<1>6. CASE AttemptStep /\ ~Put /\ ~SendPart /\ ~Complete
  <2>1. CASE Initiated
    BY <2>1, <1>1 DEF Initiated, Opened, remoteVars
  <2>2. CASE Abort
    BY <2>2, <1>1 DEF Abort, AbortActs, remoteVars
  <2>3. CASE Leave \/ MarkRunning \/ BeginFails \/ Begin \/ PutSave \/ Initiate \/ Finish
    BY <2>3, <1>1
    DEF Leave, MarkRunning, BeginFails, Begin, PutSave, Initiate, Finish, remoteVars
  <2>4. CASE UploadSave \/ StartPart \/ ReadPartFails \/ PartSave \/ Returned
    BY <2>4, <1>1 DEF UploadSave, StartPart, ReadPartFails, PartSave, Returned, Save, remoteVars
  <2> QED
    BY <1>6, <2>1, <2>2, <2>3, <2>4 DEF AttemptStep
<1>7. CASE CallStep
  <2> PICK c \in Caller: StartCancel(c) \/ StartResume(c) \/ StartConfirm(c) \/ Continue(c)
    BY <1>7 DEF CallStep
  <2>1. CASE StartCancel(c) \/ StartResume(c) \/ StartConfirm(c)
    BY <2>1, <1>1 DEF StartCancel, StartResume, StartConfirm, Load, remoteVars
  <2>2. CASE Cancel(c) \/ Confirm(c) \/ Write(c) \/ Resume(c) \/ Queue(c) \/ Spawn(c)
    BY <2>2, <1>1 DEF Cancel, Confirm, Write, Resume, Queue, Spawn, remoteVars
  <2>3. CASE CancelAborts(c)
    BY <2>3, <1>1 DEF CancelAborts, AbortActs, remoteVars
  <2> QED
    BY <2>1, <2>2, <2>3 DEF Continue
<1>8. CASE Restart \/ UNCHANGED vars
  BY <1>8, <1>1 DEF Restart, vars, remoteVars
<1> QED
  BY <1>2, <1>3, <1>4, <1>5, <1>6, <1>7, <1>8 DEF Next

LEMMA AccurateStays ==
    ASSUME Keeps, NEW t \in Task, Accurate(t)
    PROVE  AccurateNext(t)
BY TaskFields DEF Keeps, Accurate, AccurateNext, AccurateIn

-----------------------------------------------------------------------------
(* Every step keeps the copies true *)

LEMMA InitCopies == Init => CopiesAreAccurate /\ AttemptKnows
BY NewTaskAccurate DEF Init, CopiesAreAccurate, AttemptKnows, Accurate, NewTask

LEMMA AttemptCopies == IInv /\ AttemptStep /\ Keeps => CopiesAreAccurate'
<1> SUFFICES ASSUME IInv, AttemptStep, Keeps
             PROVE  AccurateNext(row') /\ AccurateNext(task') /\ \A c \in Caller: AccurateNext(copy'[c])
  BY DEF CopiesAreAccurate, Accurate, AccurateNext
<1>1. /\ row \in Task /\ Accurate(row) /\ task \in Task /\ Accurate(task)
      /\ \A c \in Caller: copy[c] \in Task /\ Accurate(copy[c])
  BY DEF IInv, TypeOK, CopiesAreAccurate
<1>2. AccurateNext(row) /\ AccurateNext(task) /\ \A c \in Caller: AccurateNext(copy[c])
  BY <1>1, AccurateStays
<1>3. \A c \in Caller: AccurateNext(copy'[c])
  BY <1>2 DEF AttemptStep, MarkRunning, BeginFails, Begin, Put, PutSave, Initiate, Initiated,
     UploadSave, StartPart, ReadPartFails, SendPart, PartSave, Complete, Returned, Abort,
     Finish, Leave, Save, attemptRest, callVars
<1>4. CASE MarkRunning
  <2>1. AccurateNext(WithStatus(task, "running"))
    BY <1>1, <1>2, StatusAccurate DEF AccurateNext, Status
  <2> QED
    BY <1>2, <1>3, <1>4, <2>1 DEF MarkRunning, Update
<1>5. CASE BeginFails \/ Begin \/ Put \/ Initiate \/ StartPart \/ ReadPartFails \/ Complete \/ Returned
  BY <1>2, <1>3, <1>5
  DEF BeginFails, Begin, Put, Initiate, StartPart, ReadPartFails, Complete, Returned, attemptRest
<1>6. CASE PutSave \/ UploadSave \/ PartSave
  BY <1>2, <1>3, <1>6 DEF PutSave, UploadSave, PartSave, Save, Update
<1>7. CASE Initiated
  <2>1. task.saved = {}
    BY <1>1, <1>7 DEF Initiated, IInv, AttemptKnows, Accurate, AccurateIn
  <2>2. task.status # "completed" \/ object' \in {"ours", "twin"}
    BY <1>2 DEF AccurateNext, AccurateIn
  <2>3. \A u \in UploadId: AccurateNext(WithUpload(task, u))
    BY <1>1, <2>1, <2>2, UploadChange, UploadAssumption DEF AccurateNext, AccurateIn, UploadId
  <2> QED
    BY <1>2, <1>3, <1>7, <2>3 DEF Initiated, attemptRest
<1>8. CASE SendPart
  <2>1. PICK p \in Missing: SendPart!2!(p)
    BY <1>8 DEF SendPart
  <2>2. p \in Nat
    BY <2>1, UploadAssumption DEF Missing, Part, IInv, TypeOK
  <2>3. ASSUME Stored(task.upload, p) PROVE AccurateNext(WithPart(task, p))
    <3>1. task.upload # 0 /\ task.upload \in UploadId
      BY <1>1, <2>3, TaskFields DEF Stored, Open
    <3>2. stored \in [UploadId -> SUBSET Nat]
      BY DEF IInv, TypeOK
    <3>3. task.saved \subseteq stored[task.upload]
      BY <1>1, <3>1 DEF Accurate, AccurateIn
    <3>4. stored'[task.upload] = stored[task.upload] \cup {p}
      BY <2>3, <3>1, <3>2 DEF Stored
    <3>5. task.status # "completed" \/ object' \in {"ours", "twin"}
      BY <1>2 DEF AccurateNext, AccurateIn
    <3> QED
      BY <1>1, <2>2, <3>1, <3>3, <3>4, <3>5, SavedChange DEF AccurateNext, AccurateIn
  <2>4. task' = task \/ (Stored(task.upload, p) /\ task' = WithPart(task, p))
    BY <2>1
  <2> QED
    BY <1>2, <1>3, <1>8, <2>3, <2>4 DEF SendPart, attemptRest
<1>9. CASE Abort
  <2>1. AccurateNext(Cleared(task))
    BY <1>1, <1>2, ClearedAccurate DEF AccurateNext
  <2> QED
    BY <1>2, <1>3, <1>9, <2>1 DEF Abort, attemptRest
<1>10. CASE Finish
  <2> DEFINE b == IF result = "ok" THEN Cleared(task) ELSE task
             t == WithStatus(b, FinalStatus)
  <2>1. b \in Task /\ AccurateNext(b)
    BY <1>1, <1>2, ClearedTask, ClearedAccurate DEF AccurateNext
  <2>2. FinalStatus \in Status
    BY DEF FinalStatus, Status
  <2>3. FinalStatus = "completed" => object' \in {"ours", "twin"}
    <3>1. FinalStatus = "completed" => result = "ok"
      BY DEF FinalStatus
    <3> QED
      BY <1>10, <3>1 DEF Finish, remoteVars, IInv, AttemptKnows
  <2>4. AccurateNext(t)
    BY <2>1, <2>2, <2>3, StatusAccurate DEF AccurateNext
  <2> QED
    BY <1>2, <1>3, <1>10, <2>4 DEF Finish, Update
<1>11. CASE Leave
  BY <1>2, <1>3, <1>11, NewTaskAccurate DEF Leave, AccurateNext
<1> QED
  BY <1>4, <1>5, <1>6, <1>7, <1>8, <1>9, <1>10, <1>11 DEF AttemptStep

LEMMA CallCopies == IInv /\ CallStep /\ Keeps => CopiesAreAccurate'
<1> SUFFICES ASSUME IInv, Keeps, NEW c \in Caller,
                    StartCancel(c) \/ StartResume(c) \/ StartConfirm(c) \/ Continue(c)
             PROVE  AccurateNext(row') /\ AccurateNext(task') /\ \A d \in Caller: AccurateNext(copy'[d])
  BY DEF CallStep, CopiesAreAccurate, Accurate, AccurateNext
<1> DEFINE t == copy[c]
<1>1. /\ row \in Task /\ Accurate(row) /\ task \in Task /\ Accurate(task)
      /\ \A d \in Caller: copy[d] \in Task /\ Accurate(copy[d])
      /\ copy \in [Caller -> Task]
  BY DEF IInv, TypeOK, CopiesAreAccurate
<1>2. /\ AccurateNext(row) /\ AccurateNext(task) /\ AccurateNext(NewTask) /\ AccurateNext(t)
      /\ \A d \in Caller: AccurateNext(copy[d])
  BY <1>1, AccurateStays, NewTaskAccurate DEF AccurateNext
<1>3. ASSUME NEW n, AccurateNext(n), copy' = [copy EXCEPT ![c] = n]
      PROVE  \A d \in Caller: AccurateNext(copy'[d])
  BY <1>1, <1>2, <1>3
<1>4. /\ AccurateNext(WithStatus(t, "cancelling")) /\ AccurateNext(WithStatus(t, "cancelled"))
      /\ AccurateNext(WithStatus(t, "paused")) /\ AccurateNext(WithStatus(t, "queued"))
  BY <1>1, <1>2, StatusAccurate DEF AccurateNext, Status
<1>5. Cleared(t) \in Task /\ AccurateNext(Cleared(t))
  BY <1>1, <1>2, ClearedTask, ClearedAccurate DEF AccurateNext
<1>6. CASE StartCancel(c) \/ StartResume(c) \/ StartConfirm(c)
  BY <1>2, <1>3, <1>6 DEF StartCancel, StartResume, StartConfirm, Load, callRest, attemptVars
<1>7. CASE Cancel(c)
  BY <1>2, <1>3, <1>4, <1>7 DEF Cancel, WriteAs, Done
<1>8. CASE CancelAborts(c)
  <2>1. AccurateNext(WithStatus(Cleared(t), "cancelled"))
    BY <1>5, StatusAccurate DEF AccurateNext, Status
  <2> QED
    BY <1>2, <1>3, <1>4, <1>8, <2>1 DEF CancelAborts, WriteAs, Done, callRest, attemptVars
<1>9. CASE Confirm(c)
  <2>1. ASSUME object \in {"ours", "twin"} PROVE AccurateNext(WithStatus(Cleared(t), "completed"))
    BY <1>5, <2>1, StatusAccurate DEF AccurateNext, Status, Keeps
  <2>2. row' = row /\ task' = task
    BY <1>9 DEF Confirm, callRest, attemptVars
  <2> QED
    BY <1>2, <1>3, <1>4, <1>9, <2>1, <2>2 DEF Confirm, WriteAs, Done
<1>10. CASE Write(c)
  BY <1>2, <1>3, <1>10 DEF Write, Update, Done, callRest, attemptVars
<1>11. CASE Resume(c)
  BY <1>1, <1>2, <1>3, <1>4, <1>11 DEF Resume, Done, callRest, attemptVars
<1>12. CASE Queue(c)
  BY <1>2, <1>3, <1>12 DEF Queue, Update, Done, callRest, attemptVars
<1>13. CASE Spawn(c)
  BY <1>2, <1>3, <1>13 DEF Spawn, Done, attemptVars
<1> QED
  BY <1>6, <1>7, <1>8, <1>9, <1>10, <1>11, <1>12, <1>13 DEF Continue

LEMMA RestCopies ==
    IInv /\ (LateActs \/ Restart \/ UNCHANGED vars) /\ Keeps => CopiesAreAccurate'
<1> SUFFICES ASSUME IInv, LateActs \/ Restart \/ UNCHANGED vars, Keeps
             PROVE  AccurateNext(row') /\ AccurateNext(task') /\ \A c \in Caller: AccurateNext(copy'[c])
  BY DEF CopiesAreAccurate, Accurate, AccurateNext
<1>1. /\ row \in Task /\ Accurate(row) /\ task \in Task /\ Accurate(task)
      /\ \A c \in Caller: copy[c] \in Task /\ Accurate(copy[c])
  BY DEF IInv, TypeOK, CopiesAreAccurate
<1>2. AccurateNext(row) /\ AccurateNext(task) /\ \A c \in Caller: AccurateNext(copy[c])
  BY <1>1, AccurateStays
<1>3. CASE LateActs \/ UNCHANGED vars
  BY <1>2, <1>3 DEF LateActs, vars, attemptVars, callVars
<1>4. CASE Restart
  <2>1. AccurateNext(NewTask)
    BY NewTaskAccurate DEF AccurateNext
  <2>2. AccurateNext(WithStatus(row, "paused"))
    BY <1>1, <1>2, StatusAccurate DEF AccurateNext, Status
  <2> QED
    BY <1>2, <1>4, <2>1, <2>2 DEF Restart, Recovered
<1> QED
  BY <1>3, <1>4

-----------------------------------------------------------------------------
(* The attempt keeps what it knows *)

LEMMA NextKnows == IInv /\ [Next]_vars /\ Keeps => AttemptKnows'
<1> SUFFICES ASSUME IInv, [Next]_vars, Keeps PROVE AttemptKnows'
  OBVIOUS
<1> USE DEF IInv, AttemptKnows, Keeps, Goto, Return
<1>1. CASE AttemptStep
  <2>1. CASE MarkRunning
    BY <2>1 DEF MarkRunning, Update
  <2>2. CASE BeginFails \/ ReadPartFails
    BY <2>2 DEF BeginFails, ReadPartFails
  <2>3. CASE Begin
    BY <2>3 DEF Begin
  <2>4. CASE Put
    BY <2>4 DEF Put, PutActs
  <2>5. CASE PutSave
    BY <2>5 DEF PutSave, Update
  <2>6. CASE Initiate
    BY <2>6 DEF Initiate
  <2>7. CASE Initiated
    BY <2>7 DEF Initiated
  <2>8. CASE UploadSave \/ PartSave
    BY <2>8 DEF UploadSave, PartSave, Save, Update
  <2>9. CASE StartPart
    <3>1. Missing = {} => task.saved = Part
      BY DEF Missing, TypeOK
    <3>2. Part' = Part
      BY <2>9 DEF StartPart, attemptRest, Part
    <3> QED
      BY <2>9, <3>1, <3>2 DEF StartPart
  <2>10. CASE SendPart
    BY <2>10 DEF SendPart
  <2>11. CASE Complete
    BY <2>11 DEF Complete, CompleteActs
  <2>12. CASE Returned
    BY <2>12 DEF Returned
  <2>13. CASE Abort
    BY <2>13 DEF Abort
  <2>14. CASE Finish
    BY <2>14 DEF Finish, Update
  <2>15. CASE Leave
    BY <2>15 DEF Leave
  <2> QED
    BY <1>1, <2>1, <2>2, <2>3, <2>4, <2>5, <2>6, <2>7, <2>8, <2>9, <2>10, <2>11,
       <2>12, <2>13, <2>14, <2>15 DEF AttemptStep
<1>2. CASE UNCHANGED <<pc, task, result, size>>
  BY <1>2 DEF Part
<1>3. CASE LateActs \/ UNCHANGED vars
  BY <1>2, <1>3 DEF LateActs, vars, attemptVars
<1>4. CASE CallStep
  <2> PICK c \in Caller: StartCancel(c) \/ StartResume(c) \/ StartConfirm(c) \/ Continue(c)
    BY <1>4 DEF CallStep
  <2>1. CASE Spawn(c)
    BY <2>1, <1>2 DEF Spawn, Active, attemptVars
  <2>2. CASE Queue(c) \/ Write(c) \/ Confirm(c) \/ CancelAborts(c) \/ Resume(c)
    BY <2>2, <1>2 DEF Queue, Write, Confirm, CancelAborts, Resume, callRest, attemptVars
  <2>3. CASE Cancel(c) \/ StartCancel(c) \/ StartResume(c) \/ StartConfirm(c)
    BY <2>3, <1>2 DEF Cancel, StartCancel, StartResume, StartConfirm, Load, callRest, attemptVars
  <2> QED
    BY <2>1, <2>2, <2>3 DEF Continue
<1>5. CASE Restart
  BY <1>5 DEF Restart
<1> QED
  BY <1>1, <1>3, <1>4, <1>5 DEF Next

LEMMA Invariance == Spec => []IInv
<1>1. Init => IInv
  BY InitType, InitCopies DEF IInv
<1>2. IInv /\ [Next]_vars => IInv'
  <2> SUFFICES ASSUME IInv, [Next]_vars PROVE IInv'
    OBVIOUS
  <2>1. TypeOK'
    BY AttemptType, CallType, RestType DEF IInv, Next
  <2>2. CopiesAreAccurate'
    BY NextKeeps, AttemptCopies, CallCopies, RestCopies DEF Next
  <2>3. AttemptKnows'
    BY NextKeeps, NextKnows
  <2> QED
    BY <2>1, <2>2, <2>3 DEF IInv
<1> QED
  BY <1>1, <1>2, PTL DEF Spec

\* A task is completed only when all of the file, or an object confirm_completion
\* cannot tell from it, is at the object key: for any number of commands writing
\* back copies of any age, whatever answers are lost (run_task 472-556,
\* confirm_completion 372-445).
THEOREM CompletedCorrect == Spec => []CompletedIsStored
<1>1. IInv => CompletedIsStored
  BY DEF IInv, CopiesAreAccurate, Accurate, AccurateIn, CompletedIsStored
<1> QED
  BY Invariance, <1>1, PTL

\* No checkpoint, however old the copy it is in, claims a part the provider does
\* not have (run_upload_inner 698-767).
THEOREM PartsCorrect == Spec => []PartsAreStored
<1>1. IInv => PartsAreStored
  BY DEF IInv, CopiesAreAccurate, Accurate, AccurateIn, PartsAreStored, ClaimsAreStored
<1> QED
  BY Invariance, <1>1, PTL

-----------------------------------------------------------------------------
(* What the attempt forgets *)

Closed == {"completed", "aborted"}

\* The attempt has a result only when it has returned, and a success with a multipart
\* upload is one the provider has completed.
ResultOK ==
    /\ pc \notin {"returned", "abort", "finish", "leave"} => result = "none"
    /\ pc \in {"putting", "putSave"} => task.upload = 0
    /\ result = "ok" /\ task.upload # 0 => upload[task.upload] \in Closed

\* A multipart upload that is closed stays so.
LEMMA ClosedStays ==
    ASSUME IInv, [Next]_vars, NEW u \in UploadId, upload[u] \in Closed
    PROVE  upload'[u] \in Closed
<1>1. upload \in [UploadId -> {"none", "open", "completed", "aborted"}]
  BY DEF IInv, TypeOK
<1>2. \/ upload' = upload
      \/ \E v, x: upload[v] \in {"none", "open"} /\ upload' = [upload EXCEPT ![v] = x]
  <2>1. CASE AttemptStep
    <3>1. CASE Initiated
      BY <3>1 DEF Initiated, Opened, FreshUploads, remoteVars
    <3>2. CASE Complete
      BY <3>2 DEF Complete, CompleteActs, Open, GivenUp, remoteVars
    <3>3. CASE Abort
      BY <3>3 DEF Abort, AbortActs, Open, remoteVars
    <3>4. CASE Put \/ SendPart
      BY <3>4 DEF Put, PutActs, GivenUp, SendPart, Stored, remoteVars
    <3>5. CASE Leave \/ MarkRunning \/ BeginFails \/ Begin \/ PutSave \/ Initiate \/ Finish
      BY <3>5 DEF Leave, MarkRunning, BeginFails, Begin, PutSave, Initiate, Finish, remoteVars
    <3>6. CASE UploadSave \/ StartPart \/ ReadPartFails \/ PartSave \/ Returned
      BY <3>6 DEF UploadSave, StartPart, ReadPartFails, PartSave, Returned, Save, remoteVars
    <3> QED
      BY <2>1, <3>1, <3>2, <3>3, <3>4, <3>5, <3>6 DEF AttemptStep
  <2>2. CASE LateActs
    BY <2>2 DEF LateActs, PutActs, CompleteActs, Open
  <2>3. CASE CallStep
    <3> PICK c \in Caller: StartCancel(c) \/ StartResume(c) \/ StartConfirm(c) \/ Continue(c)
      BY <2>3 DEF CallStep
    <3>1. CASE CancelAborts(c)
      BY <3>1 DEF CancelAborts, AbortActs, Open, remoteVars
    <3>2. CASE ~CancelAborts(c)
      BY <3>2 DEF StartCancel, StartResume, StartConfirm, Load, Continue, Cancel, Confirm,
                  Write, Resume, Queue, Spawn, remoteVars
    <3> QED
      BY <3>1, <3>2
  <2>4. CASE Restart \/ UNCHANGED vars
    BY <2>4 DEF Restart, vars, remoteVars
  <2> QED
    BY <2>1, <2>2, <2>3, <2>4 DEF Next
<1> QED
  BY <1>1, <1>2 DEF Closed

LEMMA NextResult == IInv /\ ResultOK /\ [Next]_vars => ResultOK'
<1> SUFFICES ASSUME IInv, ResultOK, [Next]_vars PROVE ResultOK'
  OBVIOUS
<1>0. \A u \in UploadId: upload[u] \in Closed => upload'[u] \in Closed
  BY ClosedStays
<1>00. task \in Task /\ task.upload \in {0} \cup UploadId
  BY TaskFields DEF IInv, TypeOK
<1>000. \A s \in Status: WithStatus(task, s).upload = task.upload
  BY <1>00, StatusChange
<1>1. CASE AttemptStep
  <2> USE DEF ResultOK, Goto, Return
  <2>1. CASE MarkRunning
    <3>1. task'.upload = task.upload
      BY <2>1, <1>000 DEF MarkRunning, Status
    <3> QED
      BY <2>1, <3>1 DEF MarkRunning, Update
  <2>2. CASE BeginFails \/ ReadPartFails \/ Initiate \/ StartPart \/ Begin
    BY <2>2 DEF BeginFails, ReadPartFails, Initiate, StartPart, Begin
  <2>3. CASE Put
    BY <2>3 DEF Put
  <2>4. CASE PutSave
    BY <2>4 DEF PutSave, Update
  <2>5. CASE Initiated
    BY <2>5 DEF Initiated
  <2>6. CASE UploadSave \/ PartSave
    BY <2>6 DEF UploadSave, PartSave, Save, Update
  <2>7. CASE SendPart
    BY <2>7 DEF SendPart
  <2>8. CASE Complete
    <3>1. upload \in [UploadId -> {"none", "open", "completed", "aborted"}]
      BY DEF IInv, TypeOK
    <3>2. result' = "ok" => Open(task.upload) /\ CompleteActs(task.upload, task.saved)
      BY <2>8 DEF Complete
    <3>3. result' = "ok" => upload'[task.upload] \in Closed
      BY <1>00, <3>1, <3>2 DEF CompleteActs, Open, Closed
    <3> QED
      BY <2>8, <3>3 DEF Complete
  <2>9. CASE Returned
    BY <1>0, <1>00, <2>9 DEF Returned
  <2>10. CASE Abort
    <3>1. Cleared(task).upload = 0
      BY <1>00, ClearedTask
    <3> QED
      BY <1>0, <1>00, <2>10, <3>1 DEF Abort
  <2>11. CASE Finish
    <3> DEFINE b == IF result = "ok" THEN Cleared(task) ELSE task
    <3>1. b \in Task /\ (result = "ok" => b.upload = 0)
      BY <1>00, ClearedTask
    <3>2. task'.upload = b.upload
      <4>1. FinalStatus \in Status
        BY DEF FinalStatus, Status
      <4>2. task' = WithStatus(b, FinalStatus)
        BY <2>11 DEF Finish
      <4> HIDE DEF b
      <4> QED
        BY <3>1, <4>1, <4>2, StatusChange
    <3>3. pc' = "leave" /\ result' = result
      BY <2>11 DEF Finish, Update
    <3> QED
      BY <3>1, <3>2, <3>3
  <2>12. CASE Leave
    BY <2>12 DEF Leave, NewTask
  <2> QED
    BY <1>1, <2>1, <2>2, <2>3, <2>4, <2>5, <2>6, <2>7, <2>8, <2>9, <2>10, <2>11, <2>12
    DEF AttemptStep
<1>2. CASE UNCHANGED <<pc, task, result>>
  BY <1>0, <1>00, <1>2 DEF ResultOK
<1>3. CASE LateActs \/ UNCHANGED vars
  BY <1>2, <1>3 DEF LateActs, vars, attemptVars
<1>4. CASE CallStep
  <2> PICK c \in Caller: StartCancel(c) \/ StartResume(c) \/ StartConfirm(c) \/ Continue(c)
    BY <1>4 DEF CallStep
  <2>1. CASE Spawn(c)
    BY <2>1, <1>2 DEF Spawn, Active, attemptVars, ResultOK
  <2>2. CASE ~Spawn(c)
    BY <2>2, <1>2 DEF StartCancel, StartResume, StartConfirm, Load, Continue, Cancel,
       CancelAborts, Confirm, Write, Resume, Queue, callRest, attemptVars
  <2> QED
    BY <2>1, <2>2
<1>5. CASE Restart
  BY <1>5 DEF Restart, ResultOK
<1> QED
  BY <1>1, <1>3, <1>4, <1>5 DEF Next

\* An attempt drops its multipart upload from the task only when the provider has
\* completed or aborted it: whatever fails, and whenever commands write the row
\* (run_upload 558-595, run_task 505-510).
THEOREM ForgetsCorrect == Spec => AttemptForgetsOnlyClosed
<1>1. Init => ResultOK
  BY DEF Init, ResultOK
<1>2. Spec => []ResultOK
  BY <1>1, NextResult, Invariance, PTL DEF Spec
<1>3. ASSUME IInv, ResultOK, [Next]_vars, AttemptStep, pc # "leave", task.upload # 0,
             task'.upload # task.upload
      PROVE  upload'[task.upload] \in {"completed", "aborted"}
  <2>1. /\ task \in Task /\ task.upload \in UploadId
        /\ upload \in [UploadId -> {"none", "open", "completed", "aborted"}]
    BY <1>3, TaskFields DEF IInv, TypeOK
  <2>2. task' # task
    BY <1>3
  <2>3. ~MarkRunning
    <3>1. WithStatus(task, "running").upload = task.upload
      BY <2>1, StatusChange DEF Status
    <3> QED
      BY <1>3, <3>1 DEF MarkRunning
  <2>4. ~Initiated
    BY <1>3 DEF Initiated, IInv, AttemptKnows
  <2>5. ~SendPart
    <3>1. \A p \in Missing: WithPart(task, p).upload = task.upload
      BY <2>1, UploadAssumption, SavedChange DEF Missing, Part, IInv, TypeOK
    <3> QED
      BY <1>3, <3>1 DEF SendPart
  <2>6. CASE Abort
    BY <1>3, <2>1, <2>2, <2>6 DEF Abort, AbortActs
  <2>7. CASE Finish
    <3>1. result = "ok"
      <4>1. FinalStatus \in Status
        BY DEF FinalStatus, Status
      <4>2. WithStatus(task, FinalStatus).upload = task.upload
        BY <2>1, <4>1, StatusChange
      <4> QED
        BY <1>3, <2>7, <4>2 DEF Finish
    <3>2. upload[task.upload] \in Closed /\ upload' = upload
      BY <1>3, <2>7, <3>1 DEF ResultOK, Finish, remoteVars
    <3> QED
      BY <3>2 DEF Closed
  <2>8. \/ BeginFails \/ Begin \/ Put \/ PutSave \/ Initiate \/ UploadSave \/ StartPart
        \/ ReadPartFails \/ PartSave \/ Complete \/ Returned \/ Leave
        => FALSE
    BY <1>3, <2>2
    DEF BeginFails, Begin, Put, PutSave, Initiate, UploadSave, StartPart, ReadPartFails,
        PartSave, Complete, Returned, Leave, Save
  <2> QED
    BY <1>3, <2>3, <2>4, <2>5, <2>6, <2>7, <2>8 DEF AttemptStep
<1>4. IInv /\ ResultOK /\ [Next]_vars
        => [AttemptStep /\ pc # "leave" /\ task.upload # 0 /\ task'.upload # task.upload
              => upload'[task.upload] \in {"completed", "aborted"}]_vars
  BY <1>3
<1> QED
  BY <1>2, <1>4, Invariance, PTL DEF Spec, AttemptForgetsOnlyClosed
=============================================================================
