------------------------------ MODULE OssUpload ------------------------------
(***************************************************************************)
(* One upload task of Bexo Studio's OSS file manager                       *)
(* (src-tauri/src/services/oss_transfer_service.rs): its row in            *)
(* oss_transfer_tasks, the attempt that transfers it, concurrent           *)
(* cancel_oss_transfer, resume_oss_transfer and confirm_oss_transfer       *)
(* commands, the provider, and a restart of the application at any step.   *)
(*                                                                         *)
(* Everybody works on a copy of the row, loaded before an await, and       *)
(* writes the whole copy back.  The answer to a request may be lost        *)
(* whether or not the provider acted on it, and a PUT or a Complete that   *)
(* was given up on may still take effect later.                            *)
(***************************************************************************)
EXTENDS Naturals, FiniteSets

CONSTANTS
    Sizes,      \* the numbers of parts a file may have; one part is a single PUT
    Before,     \* what may be at the object key: "absent", "other", "twin"
    Caller,     \* concurrent commands on the task
    MaxUploads, \* bound: multipart uploads the provider opens
    MaxFaults,  \* bound: database operations that may fail
    Restarts    \* whether the application may stop and start again

ASSUME UploadAssumption ==
    /\ Sizes \subseteq Nat \ {0}
    /\ Before \subseteq {"absent", "other", "twin"}
    /\ Caller # {}
    /\ MaxUploads \in Nat
    /\ MaxFaults \in Nat
    /\ Restarts \in BOOLEAN

VARIABLES
    size,      \* parts of the file
    overwrite, \* whether the object may replace another one
    row,       \* the task in the database
    pc,        \* where the attempt (run_task) is
    task,      \* the attempt's copy of the task
    token,     \* the attempt's cancel token
    result,    \* what run_upload returned
    call,      \* where each command is
    copy,      \* the copy of the task each command works on
    upload,    \* state of each multipart upload at the provider
    stored,    \* the parts the provider has of each multipart upload
    object,    \* what is at the object key
    late,      \* requests given up on that may still act: 0 the PUT, u Complete
    faults     \* failed database operations so far

remoteVars == <<upload, stored, object, late>>
attemptVars == <<pc, task, token, result>>
callVars == <<call, copy>>
vars == <<size, overwrite, row, attemptVars, callVars, remoteVars, faults>>

Part == 1..size
UploadId == 1..MaxUploads

Status == {"queued", "running", "paused", "failed", "cancelling",
           "needs_confirmation", "completed", "cancelled"}

\* upload_id (0: none), whether there is a checkpoint, and the parts in it.
Task == [status: Status, upload: {0} \cup UploadId, checkpoint: BOOLEAN,
         saved: SUBSET Nat]

Result == {"none", "ok", "cancelled", "cleanup", "unknown", "failed"}
AttemptPc == {"none", "mark", "begin", "putting", "putSave", "initiate",
              "initiating", "uploadSave", "parts", "sending", "partSave",
              "completing", "returned", "abort", "finish", "leave"}
CallPc == {"idle", "cancel", "abort", "write", "resume", "queue", "spawn",
           "confirm"}

TypeOK ==
    /\ size \in Sizes
    /\ overwrite \in BOOLEAN
    /\ row \in Task /\ row.saved \subseteq Part
    /\ pc \in AttemptPc
    /\ task \in Task /\ task.saved \subseteq Part
    /\ token \in BOOLEAN
    /\ result \in Result
    /\ call \in [Caller -> CallPc]
    /\ copy \in [Caller -> Task] /\ \A c \in Caller: copy[c].saved \subseteq Part
    /\ upload \in [UploadId -> {"none", "open", "completed", "aborted"}]
    /\ stored \in [UploadId -> SUBSET Nat]
    /\ \A u \in UploadId: stored[u] \subseteq Part
    /\ object \in Before \cup {"ours", "broken"}
    /\ late \subseteq {0} \cup UploadId
    /\ faults \in 0..MaxFaults

NewTask == [status |-> "queued", upload |-> 0, checkpoint |-> TRUE, saved |-> {}]

WithStatus(t, s) == [t EXCEPT !.status = s]
WithUpload(t, u) == [t EXCEPT !.upload = u]
WithPart(t, p) == [t EXCEPT !.saved = @ \cup {p}]

\* The task without its multipart upload.
Cleared(t) == [t EXCEPT !.upload = 0, !.checkpoint = FALSE, !.saved = {}]

\* start_upload has inserted the row and is about to spawn the attempt.
Starter == CHOOSE c \in Caller: TRUE

Init ==
    /\ size \in Sizes
    /\ overwrite \in BOOLEAN
    /\ row = NewTask
    /\ pc = "none"
    /\ task = NewTask
    /\ token = FALSE
    /\ result = "none"
    /\ call = [c \in Caller |-> IF c = Starter THEN "spawn" ELSE "idle"]
    /\ copy = [c \in Caller |-> NewTask]
    /\ upload = [u \in UploadId |-> "none"]
    /\ stored = [u \in UploadId |-> {}]
    /\ object \in Before
    /\ late = {}
    /\ faults = 0

-----------------------------------------------------------------------------
(* The database *)

\* update_task writes the whole copy t.  It fails without effect, or, when it
\* reads the view for the event afterwards, with effect.
Update(t, viewed, ok, failed) ==
    \/ /\ row' = t
       /\ ok
       /\ UNCHANGED faults
    \/ /\ faults < MaxFaults
       /\ faults' = faults + 1
       /\ row' \in IF viewed THEN {row, t} ELSE {row}
       /\ failed

Goto(to) == pc' = to /\ UNCHANGED result
Return(r) == pc' = "returned" /\ result' = r

\* The attempt saves its progress; an error ends the transfer.
Save(t, next) ==
    /\ Update(t, TRUE, Goto(next), Return("failed"))
    /\ UNCHANGED <<size, overwrite, task, token, callVars, remoteVars>>

-----------------------------------------------------------------------------
(* The provider *)

Open(u) == u # 0 /\ upload[u] = "open"
MayWrite == overwrite \/ object = "absent"

\* PUT of the whole object.
PutActs ==
    /\ object' = "ours"
    /\ UNCHANGED <<upload, stored>>

\* CompleteMultipartUpload of the parts S.
CompleteActs(u, S) ==
    /\ object' = IF S = Part THEN "ours" ELSE "broken"
    /\ upload' = [upload EXCEPT ![u] = "completed"]
    /\ UNCHANGED stored

\* A request that was given up on: it has acted, may still act, or is gone.
GivenUp(acts, l) ==
    \/ acts /\ UNCHANGED late
    \/ late' = late \cup {l} /\ UNCHANGED <<upload, stored, object>>
    \/ UNCHANGED remoteVars

\* Only an attempt with every part saved sends Complete.
LateActs ==
    /\ \E l \in late:
         /\ late' = late \ {l}
         /\ MayWrite
         /\ IF l = 0 THEN PutActs ELSE Open(l) /\ CompleteActs(l, Part)
    /\ UNCHANGED <<size, overwrite, row, attemptVars, callVars, faults>>

-----------------------------------------------------------------------------
(* The attempt: run_task, run_upload, run_upload_inner *)

attemptRest == <<size, overwrite, row, token, callVars, faults>>

\* Its row is marked running; otherwise it gives up at once.
MarkRunning ==
    /\ pc = "mark"
    /\ LET t == WithStatus(task, "running")
       IN /\ task' = t
          /\ Update(t, TRUE, Goto("begin"), Goto("leave"))
    /\ UNCHANGED <<size, overwrite, token, callVars, remoteVars>>

\* Account, file or checkpoint are not usable.
BeginFails ==
    /\ pc = "begin"
    /\ Return("failed")
    /\ UNCHANGED <<attemptRest, task, remoteVars>>

Begin ==
    /\ pc = "begin"
    /\ task.checkpoint
    /\ IF size = 1 /\ task.upload = 0
       THEN IF token THEN Return("cancelled") ELSE Goto("putting")
       ELSE Goto(IF task.upload = 0 THEN "initiate" ELSE "parts")
    /\ UNCHANGED <<attemptRest, task, remoteVars>>

Put ==
    /\ pc = "putting"
    /\ \/ MayWrite /\ PutActs /\ UNCHANGED late /\ Goto("putSave")
       \/ UNCHANGED remoteVars /\ Return("failed")
       \/ GivenUp(MayWrite /\ PutActs, 0) /\ Return("unknown")
    /\ UNCHANGED <<attemptRest, task>>

PutSave ==
    /\ pc = "putSave"
    /\ Update(task, TRUE, Return("ok"), Return("failed"))
    /\ UNCHANGED <<size, overwrite, task, token, callVars, remoteVars>>

FreshUploads == {u \in UploadId: upload[u] = "none"}
Opened(u) ==
    /\ u \in FreshUploads
    /\ upload' = [upload EXCEPT ![u] = "open"]
    /\ UNCHANGED <<stored, object, late>>

\* The one request that is not given up on for a cancel.
Initiate ==
    /\ pc = "initiate"
    /\ IF token THEN Return("cancelled") ELSE Goto("initiating")
    /\ UNCHANGED <<attemptRest, task, remoteVars>>

Initiated ==
    /\ pc = "initiating"
    /\ \/ \E u \in UploadId:
            /\ MayWrite /\ Opened(u)
            /\ task' = WithUpload(task, u)
            /\ Goto("uploadSave")
       \/ /\ \/ UNCHANGED remoteVars /\ result' \in {"failed", "unknown"}
             \/ \E u \in UploadId: MayWrite /\ Opened(u) /\ result' = "unknown"
          /\ pc' = "returned"
          /\ UNCHANGED task
    /\ UNCHANGED attemptRest

UploadSave == pc = "uploadSave" /\ Save(task, "parts")

\* The parts the checkpoint does not have.
Missing == Part \ task.saved

NextPart(p) == \A q \in Missing: p <= q

StartPart ==
    /\ pc = "parts"
    /\ IF token THEN Return("cancelled")
       ELSE Goto(IF Missing = {} THEN "completing" ELSE "sending")
    /\ UNCHANGED <<attemptRest, task, remoteVars>>

\* A part that cannot be read from the file.
ReadPartFails ==
    /\ pc = "sending"
    /\ Return("failed")
    /\ UNCHANGED <<attemptRest, task, remoteVars>>

Stored(u, p) ==
    /\ Open(u)
    /\ stored' = [stored EXCEPT ![u] = @ \cup {p}]
    /\ UNCHANGED <<upload, object, late>>

\* Mutant: a part counts as uploaded whatever the answer.
SendPartUnchecked ==
    /\ pc = "sending"
    /\ \E p \in Missing:
         /\ NextPart(p)
         /\ Stored(task.upload, p) \/ UNCHANGED remoteVars
         /\ task' = WithPart(task, p)
         /\ Goto("partSave")
    /\ UNCHANGED attemptRest

\* Mutant: a part is not added to the checkpoint.
SendPartForgotten ==
    /\ pc = "sending"
    /\ \E p \in Missing:
         /\ NextPart(p)
         /\ Stored(task.upload, p)
         /\ Goto("partSave")
    /\ UNCHANGED <<attemptRest, task>>

\* Acknowledged; or failed, or cancelled, with or without effect.
SendPart ==
    /\ pc = "sending"
    /\ \E p \in Missing:
         /\ NextPart(p)
         /\ \/ /\ Stored(task.upload, p)
               /\ task' = WithPart(task, p)
               /\ Goto("partSave")
            \/ /\ Stored(task.upload, p) \/ UNCHANGED remoteVars
               /\ Return("failed") \/ (token /\ Return("cancelled"))
               /\ UNCHANGED task
    /\ UNCHANGED attemptRest

PartSave == pc = "partSave" /\ Save(task, "parts")

Complete ==
    /\ pc = "completing"
    /\ LET u == task.upload
           acts == MayWrite /\ Open(u) /\ CompleteActs(u, task.saved)
       IN \/ acts /\ UNCHANGED late /\ Return("ok")
          \/ UNCHANGED remoteVars /\ Return("failed")
          \/ GivenUp(acts, u) /\ Return("unknown")
    /\ UNCHANGED <<attemptRest, task>>

Returned ==
    /\ pc = "returned"
    /\ Goto(IF result = "cancelled" /\ task.upload # 0 THEN "abort" ELSE "finish")
    /\ UNCHANGED <<attemptRest, task, remoteVars>>

AbortActs(u) ==
    /\ Open(u)
    /\ upload' = [upload EXCEPT ![u] = "aborted"]
    /\ UNCHANGED <<stored, object, late>>

\* Mutant: an error of the Abort is taken for a success.
AbortIgnored ==
    /\ pc = "abort"
    /\ AbortActs(task.upload) \/ UNCHANGED remoteVars
    /\ task' = Cleared(task)
    /\ Goto("finish")
    /\ UNCHANGED attemptRest

\* run_upload cleans up after a cancel: done, failed with or without effect, or
\* not even tried because the account cannot be loaded.
Abort ==
    /\ pc = "abort"
    /\ \/ AbortActs(task.upload) /\ task' = Cleared(task) /\ Goto("finish")
       \/ /\ AbortActs(task.upload) \/ UNCHANGED remoteVars
          /\ pc' = "finish" /\ result' = "cleanup"
          /\ UNCHANGED task
       \/ /\ pc' = "finish" /\ result' = "failed"
          /\ UNCHANGED <<task, remoteVars>>
    /\ UNCHANGED attemptRest

\* Mutant: a lost answer counts as a success.
FinalStatusOptimistic ==
    CASE result \in {"ok", "unknown"} -> "completed"
      [] result = "cancelled" -> "cancelled"
      [] result = "cleanup" -> "paused"
      [] OTHER -> "failed"

FinalStatus ==
    CASE result = "ok" -> "completed"
      [] result = "unknown" -> "needs_confirmation"
      [] result = "cancelled" -> "cancelled"
      [] result = "cleanup" -> "paused"
      [] OTHER -> "failed"

\* The outcome is written; an error is only logged.
Finish ==
    /\ pc = "finish"
    /\ LET t == WithStatus(IF result = "ok" THEN Cleared(task) ELSE task, FinalStatus)
       IN /\ task' = t
          /\ Update(t, TRUE, Goto("leave"), Goto("leave"))
    /\ UNCHANGED <<size, overwrite, token, callVars, remoteVars>>

\* The attempt leaves active_tasks.
Leave ==
    /\ pc = "leave"
    /\ pc' = "none"
    /\ result' = "none"
    /\ token' = FALSE
    /\ task' = NewTask
    /\ UNCHANGED <<size, overwrite, row, callVars, remoteVars, faults>>

AttemptStep ==
    \/ MarkRunning \/ BeginFails \/ Begin \/ Put \/ PutSave
    \/ Initiate \/ Initiated \/ UploadSave
    \/ StartPart \/ ReadPartFails \/ SendPart \/ PartSave \/ Complete
    \/ Returned \/ Abort \/ Finish \/ Leave

-----------------------------------------------------------------------------
(* The commands.  Each loads the row, then looks at its copy. *)

callRest == <<size, overwrite, attemptVars>>

Active == pc # "none"
CallGoto(c, to) == call' = [call EXCEPT ![c] = to]

Load(c, to) ==
    /\ call[c] = "idle"
    /\ CallGoto(c, to)
    /\ copy' = [copy EXCEPT ![c] = row]
    /\ UNCHANGED <<callRest, row, remoteVars, faults>>

StartCancel(c) == Load(c, "cancel")
StartResume(c) == Load(c, "resume")
StartConfirm(c) == Load(c, "confirm")

\* Command c is about to write its copy with another status, or leaves.
WriteAs(c, t, status) ==
    /\ copy' = [copy EXCEPT ![c] = WithStatus(t, status)]
    /\ CallGoto(c, "write")
Done(c) ==
    /\ CallGoto(c, "idle")
    /\ copy' = [copy EXCEPT ![c] = NewTask]

\* cancel: an attempt is told, a multipart upload is aborted first.
Cancel(c) ==
    /\ call[c] = "cancel"
    /\ LET t == copy[c]
       IN IF t.status \in {"completed", "cancelled", "needs_confirmation"}
          THEN Done(c) /\ UNCHANGED token
          ELSE IF Active
          THEN token' = TRUE /\ WriteAs(c, t, "cancelling")
          ELSE IF t.upload # 0
          THEN CallGoto(c, "abort") /\ UNCHANGED <<copy, token>>
          ELSE WriteAs(c, t, "cancelled") /\ UNCHANGED token
    /\ UNCHANGED <<size, overwrite, row, pc, task, result, remoteVars, faults>>

\* Done; not tried, because the account cannot be loaded; or failed, with or
\* without effect.
CancelAborts(c) ==
    /\ call[c] = "abort"
    /\ LET t == copy[c]
       IN \/ AbortActs(t.upload) /\ WriteAs(c, Cleared(t), "cancelled")
          \/ UNCHANGED remoteVars /\ Done(c)
          \/ /\ AbortActs(t.upload) \/ UNCHANGED remoteVars
             /\ WriteAs(c, t, "paused")
    /\ UNCHANGED <<callRest, row, faults>>

\* confirm_completion asks for the object: not found, unusable answer or
\* another size, or the size of the file.
Confirm(c) ==
    /\ call[c] = "confirm"
    /\ LET t == copy[c]
       IN \/ Done(c)
          \/ /\ t.status = "needs_confirmation"
             /\ object = "absent"
             /\ WriteAs(c, t, "paused")
          \/ /\ t.status = "needs_confirmation"
             /\ object \in {"ours", "twin"}
             /\ WriteAs(c, Cleared(t), "completed")
    /\ UNCHANGED <<callRest, row, remoteVars, faults>>

Write(c) ==
    /\ call[c] = "write"
    /\ Update(copy[c], TRUE, TRUE, TRUE)
    /\ Done(c)
    /\ UNCHANGED <<callRest, remoteVars>>

Resume(c) ==
    /\ call[c] = "resume"
    /\ IF copy[c].status \in {"paused", "failed", "queued", "running"} /\ ~Active
       THEN /\ copy' = [copy EXCEPT ![c] = WithStatus(@, "queued")]
            /\ CallGoto(c, "queue")
       ELSE Done(c)
    /\ UNCHANGED <<callRest, row, remoteVars, faults>>

Queue(c) ==
    /\ call[c] = "queue"
    /\ Update(copy[c], FALSE, CallGoto(c, "spawn") /\ UNCHANGED copy, Done(c))
    /\ UNCHANGED <<callRest, remoteVars>>

\* spawn_task: the attempt works on the caller's copy.
Spawn(c) ==
    /\ call[c] = "spawn"
    /\ Done(c)
    /\ IF Active THEN UNCHANGED attemptVars
       ELSE pc' = "mark" /\ task' = copy[c] /\ UNCHANGED <<token, result>>
    /\ UNCHANGED <<size, overwrite, row, remoteVars, faults>>

Continue(c) ==
    \/ Cancel(c) \/ CancelAborts(c) \/ Confirm(c) \/ Write(c)
    \/ Resume(c) \/ Queue(c) \/ Spawn(c)

CallStep ==
    \E c \in Caller: StartCancel(c) \/ StartResume(c) \/ StartConfirm(c) \/ Continue(c)

-----------------------------------------------------------------------------
(* Restart *)

\* recover_interrupted_tasks pauses what it finds unfinished.
Recovered(t) ==
    IF t.status \in {"running", "queued", "cancelling"}
    THEN WithStatus(t, "paused") ELSE t

\* The application stops wherever it is and starts again; it does not start if
\* the recovery fails.  Requests on their way may still act.
Restart ==
    /\ Restarts
    /\ row' = Recovered(row)
    /\ pc' = "none"
    /\ task' = NewTask
    /\ token' = FALSE
    /\ result' = "none"
    /\ call' = [c \in Caller |-> "idle"]
    /\ copy' = [c \in Caller |-> NewTask]
    /\ late' \in
         CASE pc = "putting" -> {late, late \cup {0}}
           [] pc = "completing" -> {late, late \cup {task.upload}}
           [] OTHER -> {late}
    /\ UNCHANGED <<size, overwrite, upload, stored, object, faults>>

-----------------------------------------------------------------------------
Next == AttemptStep \/ LateActs \/ CallStep \/ Restart

Spec == Init /\ [][Next]_vars

\* Every request and every file operation has a timeout, so an attempt and a
\* command always get on.  Nobody has to issue a command, and a request that
\* was given up on need not act.
Fairness == WF_vars(AttemptStep) /\ \A c \in Caller: WF_vars(Continue(c))

FairSpec == Spec /\ Fairness

-----------------------------------------------------------------------------
(* Properties *)

\* A task is completed only when the object key holds all of the file, or an
\* object of its size that was there before and that confirm_completion cannot
\* tell from it: whatever answer was lost, in whichever order commands, attempts
\* and restarts write the row (run_task, run_upload_inner, confirm_completion).
CompletedIsStored == row.status = "completed" => object \in {"ours", "twin"}

\* Every checkpoint, in the row or in a copy of it, however old, only claims
\* parts that the provider acknowledged for that multipart upload, so that a
\* resumed upload never asks to complete a part that was not sent.
ClaimsAreStored(t) ==
    IF t.upload = 0 THEN t.saved = {} ELSE t.saved \subseteq stored[t.upload]
PartsAreStored ==
    ClaimsAreStored(row) /\ ClaimsAreStored(task) /\ \A c \in Caller: ClaimsAreStored(copy[c])

\* An attempt drops its multipart upload from the task only once the provider
\* has completed or aborted it: a cancel whose Abort failed keeps the upload
\* (run_upload 558-595), a success comes after Complete (run_task 505-510).
AttemptForgetsOnlyClosed ==
    [][AttemptStep /\ pc # "leave" /\ task.upload # 0 /\ task'.upload # task.upload
         => upload'[task.upload] \in {"completed", "aborted"}]_vars

\* An attempt ends, whatever fails and whenever it is cancelled: the queue entry
\* in active_tasks does not stay (spawn_task 447-470).
AttemptEnds == pc # "none" ~> pc = "none"

\* "Needs confirmation" avoids reporting a cancel that did not happen: a task
\* reported cancelled has not put the file at the object key (README.md:369).
\* Does not hold.
CancelledIsNotStored == row.status = "cancelled" /\ late = {} => object # "ours"
=============================================================================
