----------------------------- MODULE OssDownload -----------------------------
(***************************************************************************)
(* One download task of Bexo Studio's OSS file manager                     *)
(* (src-tauri/src/services/oss_transfer_service.rs): its row in            *)
(* oss_transfer_tasks, the attempt that fetches the object range by range  *)
(* into a part file beside the destination, concurrent cancel_oss_transfer *)
(* and resume_oss_transfer commands, the object, which may be replaced,    *)
(* the destination, at which another program may put a file, and a restart *)
(* of the application at any step.                                         *)
(*                                                                         *)
(* As for uploads (OssUpload) everybody works on a copy of the row.  A     *)
(* checkpoint and the part file it speaks of are two things, which the     *)
(* attempt aligns before it goes on.                                       *)
(***************************************************************************)
EXTENDS Naturals, Sequences

CONSTANTS
    Sizes,      \* the lengths the object may have
    RangeSize,  \* length of a range: DEFAULT_PART_SIZE
    MaxTries,   \* requests for one range: OSS_MAX_TRANSFER_RETRIES
    Caller,     \* concurrent commands on the task
    MaxFaults,  \* bound: operations of database, file system and network that fail
    NoFile, Theirs

ASSUME DownloadAssumption ==
    /\ Sizes \subseteq Nat
    /\ RangeSize \in Nat \ {0}
    /\ MaxTries \in Nat \ {0}
    /\ Caller # {}
    /\ MaxFaults \in Nat
    /\ NoFile # Theirs
    /\ {NoFile, Theirs} \cap Seq(Nat) = {}

VARIABLES
    size,      \* length of the object the task was created for
    overwrite, \* whether the download may replace a file
    replaced,  \* whether another object is at its key by now
    row,       \* the task in the database: its status and the length it has
    pc,        \* where the attempt (run_task) is
    task,      \* the attempt's copy of the task
    token,     \* the attempt's cancel token
    tries,     \* requests for this range so far
    body,      \* what has been received of this range
    result,    \* what run_download returned
    call,      \* where each command is
    copy,      \* the copy of the task each command works on
    part,      \* the part file
    dest,      \* what is at the destination
    faults,    \* failed operations so far
    excuse     \* what has happened that the code has no defence against

fileVars == <<part, dest>>
rangeVars == <<tries, body>>
attemptVars == <<pc, task, token, rangeVars, result>>
callVars == <<call, copy>>
vars == <<size, overwrite, replaced, row, attemptVars, callVars, fileVars, faults, excuse>>

\* A file is the sequence of its bytes, byte i of the object being i, and a byte that
\* nobody wrote Zero.
Zero == 0
Bytes(first, last) == [i \in 1..(last + 1 - first) |-> first + i - 1]
Content == Bytes(1, size)
Present(f) == f # NoFile
IsOurs(f) == f \notin {NoFile, Theirs}

NewTask == [status |-> "queued", done |-> 0]
WithStatus(t, s) == [t EXCEPT !.status = s]

\* start_download has inserted the row and is about to spawn the attempt; what is
\* at the destination may have appeared since it looked.
Init ==
    /\ size \in Sizes
    /\ overwrite \in BOOLEAN
    /\ replaced = FALSE
    /\ row = NewTask
    /\ pc = "none"
    /\ task = NewTask
    /\ token = FALSE
    /\ tries = 0
    /\ body = <<>>
    /\ result = "none"
    /\ \E starter \in Caller:
         call = [c \in Caller |-> IF c = starter THEN "spawn" ELSE "idle"]
    /\ copy = [c \in Caller |-> NewTask]
    /\ part = NoFile
    /\ dest \in {NoFile, Theirs}
    /\ faults = 0
    /\ excuse = {}

-----------------------------------------------------------------------------
(* Operations that may fail *)

Fails == faults < MaxFaults /\ faults' = faults + 1

\* update_task writes the whole copy t.  It fails without effect, or, when it
\* reads the view for the event afterwards, with effect.
Update(t, viewed, ok, failed) ==
    \/ /\ row' = t
       /\ ok
       /\ UNCHANGED faults
    \/ /\ Fails
       /\ row' \in IF viewed THEN {row, t} ELSE {row}
       /\ failed

Goto(to) == pc' = to /\ UNCHANGED result
Return(r) == pc' = "returned" /\ result' = r

\* A directory that is not there, or a file that cannot be opened or changed.
FileFails == Fails /\ Return("failed")

\* The attempt goes on to next, an error ends it, or its cancel token does.
ProceedOrCancel(next) ==
    IF token THEN Return("cancelled") /\ UNCHANGED faults
    ELSE \/ Goto(next) /\ UNCHANGED faults
         \/ Fails /\ Return("failed")

-----------------------------------------------------------------------------
(* The attempt: run_task, run_download, run_download_inner *)

others == <<size, overwrite, replaced, token, callVars, excuse>>

MarkRunning ==
    /\ pc = "mark"
    /\ LET t == WithStatus(task, "running")
       IN /\ task' = t
          /\ Update(t, TRUE, Goto("head"), Goto("leave"))
    /\ UNCHANGED <<others, rangeVars, fileVars>>

\* Target, account, credentials and the object's metadata: the size and the ETag
\* in the checkpoint must still be the object's.
HeadObject ==
    /\ pc = "head"
    /\ \/ ~replaced /\ ProceedOrCancel("headSave")
       \/ replaced /\ Return("failed") /\ UNCHANGED faults
    /\ UNCHANGED <<others, row, task, rangeVars, fileVars>>

HeadSave ==
    /\ pc = "headSave"
    /\ Update(task, TRUE, Goto("align"), Return("failed"))
    /\ UNCHANGED <<others, task, rangeVars, fileVars>>

\* set_len cuts or extends the part file to what the checkpoint says.
Aligned(f, n) ==
    LET old == IF Present(f) THEN f ELSE <<>>
    IN [i \in 1..n |-> IF i <= Len(old) THEN old[i] ELSE Zero]

Align ==
    /\ pc = "align"
    /\ IF ~Present(part) /\ task.done > 0
       THEN Return("failed") /\ UNCHANGED <<part, faults>>
       ELSE \/ part' = Aligned(part, task.done) /\ Goto("range") /\ UNCHANGED faults
            \/ FileFails /\ UNCHANGED part
    /\ UNCHANGED <<others, row, task, rangeVars, dest>>

RangeEnd ==
    IF task.done + RangeSize < size THEN task.done + RangeSize ELSE size
Expected == RangeEnd - task.done

\* Mutant: the last range, shorter than the others, is left out.
NextFullRange ==
    /\ pc = "range"
    /\ IF token THEN Return("cancelled")
       ELSE Goto(IF task.done + RangeSize <= size THEN "request" ELSE "publish")
    /\ tries' = 0
    /\ body' = <<>>
    /\ UNCHANGED <<others, row, task, fileVars, faults>>

NextRange ==
    /\ pc = "range"
    /\ IF token THEN Return("cancelled")
       ELSE Goto(IF task.done < size THEN "request" ELSE "publish")
    /\ tries' = 0
    /\ body' = <<>>
    /\ UNCHANGED <<others, row, task, fileVars, faults>>

\* Mutant: what the failed request brought is kept.
RetryWithRest(got) ==
    /\ Fails
    /\ tries' = tries + 1
    /\ body' = got
    /\ IF tries + 1 < MaxTries THEN Goto("request") ELSE Return("failed")

\* Another request for the range, without what the failed one brought, as long as
\* there are tries left.
Retry(got) ==
    /\ Fails
    /\ tries' = tries + 1
    /\ body' = <<>>
    /\ IF tries + 1 < MaxTries THEN Goto("request") ELSE Return("failed")

\* Refused, by the provider or for the length it announces; or failed, perhaps such
\* that another try is worth while.
RequestFails ==
    \/ Fails /\ Return("failed") /\ UNCHANGED rangeVars
    \/ Retry(body)

Request ==
    /\ pc = "request"
    /\ IF token THEN Return("cancelled") /\ UNCHANGED <<rangeVars, faults>>
       ELSE \/ Goto("stream") /\ UNCHANGED <<rangeVars, faults>>
            \/ RequestFails
    /\ UNCHANGED <<others, row, task, fileVars>>

\* The answer, a part of it before the stream ends early, fails or times out, or more
\* than was asked for.
Stream ==
    /\ pc = "stream"
    /\ IF token THEN Return("cancelled") /\ UNCHANGED <<rangeVars, faults>>
       ELSE \E n \in 0..Expected + 1:
              LET got == body \o Bytes(task.done + 1, task.done + n)
              IN \/ /\ Len(got) = Expected
                    /\ body' = got
                    /\ Goto("append")
                    /\ UNCHANGED <<tries, faults>>
                 \/ /\ Len(got) > Expected
                    /\ Return("failed")
                    /\ UNCHANGED <<rangeVars, faults>>
                 \/ Retry(got)
    /\ UNCHANGED <<others, row, task, fileVars>>

\* Appended as a whole; or an error, or a timeout, leaves any beginning of it.
AppendRange ==
    /\ pc = "append"
    /\ \/ /\ part' = part \o body
          /\ task' = [task EXCEPT !.done = @ + Len(body)]
          /\ Goto("save")
          /\ UNCHANGED faults
       \/ /\ Fails
          /\ \E n \in 0..Len(body): part' = part \o SubSeq(body, 1, n)
          /\ Return("failed")
          /\ UNCHANGED task
    /\ body' = <<>>
    /\ tries' = 0
    /\ UNCHANGED <<others, row, dest>>

SaveRange ==
    /\ pc = "save"
    /\ Update(task, TRUE, Goto("range"), Return("failed"))
    /\ UNCHANGED <<others, task, rangeVars, fileVars>>

\* finalize_download_file looks whether something is at the destination.
Publish ==
    /\ pc = "publish"
    /\ \/ /\ Present(dest) => overwrite
          /\ Goto(IF Present(dest) THEN "remove" ELSE "rename")
          /\ UNCHANGED faults
       \/ Present(dest) /\ ~overwrite /\ Return("failed") /\ UNCHANGED faults
       \/ FileFails
    /\ UNCHANGED <<others, row, task, rangeVars, fileVars>>

\* A removal that fails may have had its effect: it timed out.
RemoveOld ==
    /\ pc = "remove"
    /\ \/ dest' = NoFile /\ Goto("rename") /\ UNCHANGED faults
       \/ FileFails /\ dest' \in {dest, NoFile}
    /\ UNCHANGED <<others, row, task, rangeVars, part>>

\* The part file takes the place of whatever is there by now.
Renamed == dest' = part /\ part' = NoFile

Rename ==
    /\ pc = "rename"
    /\ \/ Renamed /\ Return("ok") /\ UNCHANGED faults
       \/ FileFails /\ (Renamed \/ UNCHANGED fileVars)
    /\ UNCHANGED <<others, row, task, rangeVars>>

RemovePart ==
    \/ part' = NoFile /\ Goto("finish") /\ UNCHANGED faults
    \/ /\ Fails
       /\ part' \in {part, NoFile}
       /\ pc' = "finish" /\ result' = "failed"

\* run_download removes the part file after a cancel.
Returned ==
    /\ pc = "returned"
    /\ IF result = "cancelled" THEN RemovePart
       ELSE Goto("finish") /\ UNCHANGED <<part, faults>>
    /\ UNCHANGED <<others, row, task, rangeVars, dest>>

FinalStatus ==
    CASE result = "ok" -> "completed"
      [] result = "cancelled" -> "cancelled"
      [] OTHER -> "failed"

\* The outcome is written; an error is only logged.
Finish ==
    /\ pc = "finish"
    /\ LET t == WithStatus(task, FinalStatus)
       IN task' = t /\ Update(t, TRUE, Goto("leave"), Goto("leave"))
    /\ UNCHANGED <<others, rangeVars, fileVars>>

\* The attempt leaves active_tasks.
Idle ==
    /\ pc' = "none"
    /\ task' = NewTask
    /\ token' = FALSE
    /\ tries' = 0
    /\ body' = <<>>
    /\ result' = "none"

Leave ==
    /\ pc = "leave"
    /\ Idle
    /\ UNCHANGED <<size, overwrite, replaced, row, callVars, fileVars, faults, excuse>>

AttemptStep ==
    \/ MarkRunning \/ HeadObject \/ HeadSave \/ Align \/ NextRange \/ Request \/ Stream
    \/ AppendRange \/ SaveRange \/ Publish \/ RemoveOld \/ Rename
    \/ Returned \/ Finish \/ Leave

-----------------------------------------------------------------------------
(* The commands.  Each loads the row, then looks at its copy. *)

callRest == <<size, overwrite, replaced, fileVars>>

Active == pc # "none"
CallGoto(c, to) == call' = [call EXCEPT ![c] = to]

Load(c, to) ==
    /\ call[c] = "idle"
    /\ CallGoto(c, to)
    /\ copy' = [copy EXCEPT ![c] = row]
    /\ UNCHANGED <<callRest, row, attemptVars, faults, excuse>>

WriteAs(c, status) ==
    /\ copy' = [copy EXCEPT ![c] = WithStatus(@, status)]
    /\ CallGoto(c, "write")
Done(c) ==
    /\ CallGoto(c, "idle")
    /\ copy' = [copy EXCEPT ![c] = NewTask]

\* A copy from before another attempt started anew is used: it has a longer
\* checkpoint than the row, perhaps one longer than the part file.
Outdated(c) ==
    excuse' = IF copy[c].done > row.done THEN excuse \cup {"stale copy"} ELSE excuse

\* cancel tells a running attempt; without one it only writes the row, and the part
\* file stays.
Cancel(c) ==
    /\ call[c] = "cancel"
    /\ IF copy[c].status \in {"completed", "cancelled"}
       THEN Done(c) /\ UNCHANGED token
       ELSE IF Active
       THEN token' = TRUE /\ WriteAs(c, "cancelling")
       ELSE WriteAs(c, "cancelled") /\ UNCHANGED token
    /\ UNCHANGED <<callRest, row, pc, task, rangeVars, result, faults, excuse>>

Write(c) ==
    /\ call[c] = "write"
    /\ Update(copy[c], TRUE, TRUE, TRUE)
    /\ Done(c)
    /\ Outdated(c)
    /\ UNCHANGED <<callRest, attemptVars>>

Resume(c) ==
    /\ call[c] = "resume"
    /\ IF copy[c].status \in {"paused", "failed", "queued", "running"} /\ ~Active
       THEN /\ copy' = [copy EXCEPT ![c] = WithStatus(@, "queued")]
            /\ CallGoto(c, "queue")
       ELSE Done(c)
    /\ UNCHANGED <<callRest, row, attemptVars, faults, excuse>>

Queue(c) ==
    /\ call[c] = "queue"
    /\ Update(copy[c], FALSE, CallGoto(c, "spawn") /\ UNCHANGED copy, Done(c))
    /\ UNCHANGED <<callRest, attemptVars>>
    /\ Outdated(c)

\* spawn_task: the attempt works on the caller's copy.
Spawn(c) ==
    /\ call[c] = "spawn"
    /\ Done(c)
    /\ IF Active THEN UNCHANGED <<pc, task, excuse>>
       ELSE pc' = "mark" /\ task' = copy[c] /\ Outdated(c)
    /\ UNCHANGED <<callRest, row, token, rangeVars, result, faults>>

Continue(c) == Cancel(c) \/ Write(c) \/ Resume(c) \/ Queue(c) \/ Spawn(c)

CallStep ==
    \E c \in Caller: Load(c, "cancel") \/ Load(c, "resume") \/ Continue(c)

-----------------------------------------------------------------------------
(* The surroundings *)

\* The object is replaced.  The ranges are requested without a condition on the
\* ETag: an attempt under way would mix the two objects and cannot notice, so it is
\* left alone here.
Fetching == {"headSave", "align", "range", "request", "stream", "append", "save"}

ObjectReplaced ==
    /\ ~replaced
    /\ pc \notin Fetching
    /\ replaced' = TRUE
    /\ UNCHANGED <<size, overwrite, row, attemptVars, callVars, fileVars, faults, excuse>>

\* Another program puts a file at the destination: once the attempt has looked
\* there, the rename replaces it.
OtherCreates ==
    /\ dest = NoFile
    /\ dest' = Theirs
    /\ excuse' = IF pc = "rename" THEN excuse \cup {"file appeared"} ELSE excuse
    /\ UNCHANGED <<size, overwrite, replaced, row, attemptVars, callVars, part, faults>>

\* recover_interrupted_tasks pauses what it finds unfinished.
Recovered(t) ==
    IF t.status \in {"running", "queued", "cancelling"}
    THEN WithStatus(t, "paused") ELSE t

\* The application stops wherever it is and starts again: what was being appended
\* is there up to any byte.
Restart ==
    /\ Fails
    /\ row' = Recovered(row)
    /\ Idle
    /\ call' = [c \in Caller |-> "idle"]
    /\ copy' = [c \in Caller |-> NewTask]
    /\ IF pc = "append" THEN \E n \in 0..Len(body): part' = part \o SubSeq(body, 1, n)
       ELSE UNCHANGED part
    /\ UNCHANGED <<size, overwrite, replaced, dest, excuse>>

-----------------------------------------------------------------------------
\* Behaviours are followed until something happens that no step can make good.
Defended == "stale copy" \notin excuse

Next ==
    /\ Defended
    /\ AttemptStep \/ CallStep \/ ObjectReplaced \/ OtherCreates \/ Restart

Spec == Init /\ [][Next]_vars

-----------------------------------------------------------------------------
(* Properties *)

\* What a download puts at the destination is the object the task was created for,
\* every byte once and in order, although ranges are requested again, checkpoints
\* lag behind the part file and attempts resume at any byte of it, unless a command
\* used a copy of the row that an attempt starting anew had overtaken
\* (run_download_inner, download_range).
PublishedIsTheObject ==
    IsOurs(dest) /\ Defended => dest = Content

\* A file that was at the destination goes only when the user asked for it or it
\* appeared after the attempt had looked, and only when all of the download is in the
\* part file (finalize_download_file).
OldFileGoesForTheWhole ==
    [][dest = Theirs /\ dest' # Theirs
         => /\ overwrite \/ "file appeared" \in excuse
            /\ (Defended => part = Content)]_vars

TypeOK ==
    /\ size \in Sizes
    /\ overwrite \in BOOLEAN
    /\ replaced \in BOOLEAN
    /\ row.done \in 0..size
    /\ task.done \in 0..size
    /\ token \in BOOLEAN
    /\ tries \in 0..MaxTries
    /\ Len(body) <= RangeSize
    /\ result \in {"none", "ok", "failed", "cancelled"}
    /\ call \in [Caller -> {"idle", "cancel", "resume", "write", "queue", "spawn"}]
    /\ faults \in 0..MaxFaults
    /\ excuse \subseteq {"stale copy", "file appeared"}
=============================================================================
