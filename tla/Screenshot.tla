----------------------------- MODULE Screenshot -----------------------------
(***************************************************************************)
(* Screenshot sessions (screenshot_service.rs): start_session puts two     *)
(* native windows and the overlay on the screen, copy and save take them   *)
(* down and then end the session, cancel ends it first.  These operations  *)
(* exclude each other; the overlay page's requests to the interaction      *)
(* window, the thread that writes the preview file, the late commands of   *)
(* the owner threads and the closing of the overlay by the system do not.  *)
(***************************************************************************)
EXTENDS NativeWindows

CONSTANTS
    Calls,      \* whether the page sends requests
    MaxFaults,  \* bound: failures of the system
    MaxCloses   \* bound: closings of the overlay by the system

ASSUME ScreenshotAssumption ==
    /\ Calls \in BOOLEAN
    /\ MaxFaults \in Nat
    /\ MaxCloses \in Nat

VARIABLES
    preview,      \* the native preview window
    interaction,  \* the native interaction window
    overlay,      \* the overlay window
    active,       \* the active session
    hook,         \* whether Escape is registered
    task,         \* the operation that has the session_operation lock
    page,         \* the session the overlay page has loaded
    call,         \* the page's request under way
    writer,       \* the threads that prepare preview files
    files,        \* the preview files on disk
    ready,        \* the session the last start reported, None once another began
    stray,        \* what may have left a native window behind
    fresh,        \* session identifiers not used yet
    faults,       \* failures so far
    closes        \* closings so far

nativeVars == <<preview, interaction, faults>>
sessionVars == <<active, hook, ready, fresh>>
pageVars == <<page, call>>
fileVars == <<writer, files>>
vars == <<nativeVars, overlay, sessionVars, task, pageVars, fileVars, stray, closes>>

NoSession == [id |-> None, native |-> FALSE, image |-> "none", file |-> FALSE]
Idle == [op |-> "none", at |-> "none", id |-> None, kind |-> "none", native |-> FALSE]
NoCall == [id |-> None, visible |-> FALSE]

Phase == {"none", "resetPreview", "resetInteraction", "hideOverlay", "captureLive",
          "captureFast", "captureDesktop", "overlay", "preparePreview", "showPreview",
          "store", "prepareInteraction", "activate",
          "hook", "abort", "closeOverlay", "hideInteraction", "hidePreview",
          "clearInteraction", "clearPreview", "endSession"}

TypeOK ==
    /\ preview \in Window /\ interaction \in Window
    /\ overlay \in {"hidden", "shown", "closed"}
    /\ active \in [id: Session \cup {None}, native: BOOLEAN,
                   image: {"none", "loading", "ready", "failed"}, file: BOOLEAN]
    /\ hook \in BOOLEAN
    /\ task \in [op: {"none", "start", "finish", "cancel"}, at: Phase,
                 id: Session \cup {None}, kind: {"none", "native", "raw", "file"},
                 native: BOOLEAN]
    /\ page \in Session \cup {None}
    /\ call \in [id: Session \cup {None}, visible: BOOLEAN]
    /\ writer \in [Session -> {"none", "working", "written", "failed", "dropped"}]
    /\ files \subseteq Session /\ fresh \subseteq Session
    /\ ready \in Session \cup {None}
    /\ stray \subseteq {"anchor", "lateCall", "closed"}
    /\ faults \in 0..MaxFaults /\ closes \in 0..MaxCloses

Init ==
    /\ preview \in Bootstrapped /\ interaction \in Bootstrapped
    /\ overlay \in {"hidden", "closed"}  \* created hidden at start, or not
    /\ active = NoSession /\ hook = FALSE /\ task = Idle
    /\ page = None /\ call = NoCall
    /\ writer = [s \in Session |-> "none"] /\ files = {}
    /\ ready = None /\ stray = {} /\ fresh = Session
    /\ faults = 0 /\ closes = 0

----------------------------------------------------------------------------
(* Steps the operations are made of. *)

At(op, phase) == task.op = op /\ task.at = phase
Go(phase) == task' = [task EXCEPT !.at = phase]
End == task' = Idle

\* The preview, or the interaction window, takes one of these outcomes.
OnPreview(outcomes, Then(_)) ==
    \E r \in outcomes:
        /\ faults + r.cost <= MaxFaults
        /\ preview' = r.w
        /\ faults' = faults + r.cost
        /\ stray' = stray \cup (IF r.w.shown /\ ~r.w.known THEN {"anchor"} ELSE {})
        /\ Then(r.ok)
        /\ UNCHANGED interaction

OnInteraction(outcomes, Then(_)) ==
    \E r \in outcomes:
        /\ faults + r.cost <= MaxFaults
        /\ interaction' = r.w
        /\ faults' = faults + r.cost
        /\ Then(r.ok)
        /\ UNCHANGED preview

ResetPreview(w) == AndThen(PreviewHidden(w), LAMBDA v: PreviewCleared(v))

\* Mutant: the end of a session leaves Escape registered.
DropSessionOnly ==
    /\ active' = NoSession
    /\ UNCHANGED hook
    /\ files' = IF active.file THEN files \ {active.id} ELSE files

\* clear_active_session; the file goes with the session.
DropSession ==
    /\ active' = NoSession
    /\ hook' = FALSE
    /\ files' = IF active.file THEN files \ {active.id} ELSE files

----------------------------------------------------------------------------
(* start_session. *)

Start(id) ==
    /\ task = Idle
    /\ id \in fresh
    /\ fresh' = fresh \ {id}
    /\ hook' = FALSE
    /\ ready' = None
    /\ task' = [Idle EXCEPT !.op = "start", !.at = "resetPreview", !.id = id]
    /\ UNCHANGED <<nativeVars, overlay, active, pageVars, fileVars, stray, closes>>

StartResetsPreview ==
    /\ At("start", "resetPreview")
    /\ OnPreview(ResetPreview(preview), LAMBDA ok: Go("resetInteraction"))
    /\ UNCHANGED <<overlay, sessionVars, pageVars, fileVars, closes>>

\* hide and clear are two requests; the page's may come between them.
StartResetsInteraction ==
    /\ At("start", "resetInteraction")
    /\ OnInteraction(InteractionHidden(interaction),
                     LAMBDA ok: Go(IF ok THEN "clearInteraction" ELSE "hideOverlay"))
    /\ UNCHANGED <<overlay, sessionVars, pageVars, fileVars, stray, closes>>

StartClearsInteraction ==
    /\ At("start", "clearInteraction")
    /\ OnInteraction(InteractionCleared(interaction), LAMBDA ok: Go("hideOverlay"))
    /\ UNCHANGED <<overlay, sessionVars, pageVars, fileVars, stray, closes>>

StartHidesOverlay ==
    /\ At("start", "hideOverlay")
    /\ overlay' = IF active # NoSession /\ overlay = "shown" THEN "hidden" ELSE overlay
    /\ Go("captureLive")
    /\ UNCHANGED <<nativeVars, sessionVars, pageVars, fileVars, stray, closes>>

Captured(kind) == task' = [task EXCEPT !.at = "overlay", !.kind = kind]

\* try_capture_from_live_cache and wait_for_live_capture_snapshot: whatever they
\* lack, the next way is tried.
CaptureLive ==
    /\ At("start", "captureLive")
    /\ Captured("native") \/ Go("captureFast")
    /\ UNCHANGED <<nativeVars, overlay, sessionVars, pageVars, fileVars, stray, closes>>

\* capture_single_monitor_fast_preview: nothing with several monitors.  An error
\* here, or below, ends the operation and leaves the session before it active.
CaptureFast ==
    /\ At("start", "captureFast")
    /\ Captured("native") \/ Go("captureDesktop") \/ End
    /\ UNCHANGED <<nativeVars, overlay, sessionVars, pageVars, fileVars, stray, closes>>

\* capture_virtual_desktop; resolve_preview_transport says how the page gets it.
CaptureDesktop ==
    /\ At("start", "captureDesktop")
    /\ Captured("raw") \/ Captured("file") \/ End
    /\ UNCHANGED <<nativeVars, overlay, sessionVars, pageVars, fileVars, stray, closes>>

PrepareOverlay ==
    /\ At("start", "overlay")
    /\ \/ /\ overlay' = IF overlay = "closed" THEN "hidden" ELSE overlay
          /\ Go(IF task.kind = "native" THEN "preparePreview" ELSE "store")
       \/ /\ End
          /\ UNCHANGED overlay
    /\ UNCHANGED <<nativeVars, sessionVars, pageVars, fileVars, stray, closes>>

PreparePreview ==
    /\ At("start", "preparePreview")
    /\ OnPreview(PreviewPrepared(preview, task.id),
                 LAMBDA ok: Go(IF ok THEN "showPreview" ELSE "store"))
    /\ UNCHANGED <<overlay, sessionVars, pageVars, fileVars, closes>>

ShowPreview ==
    /\ At("start", "showPreview")
    /\ OnPreview(PreviewShown(preview),
                 LAMBDA ok: task' = [task EXCEPT !.at = "store", !.native = ok])
    /\ UNCHANGED <<overlay, sessionVars, pageVars, fileVars, closes>>

\* replace_active_session deletes the file of the session it replaces.
StoreSession ==
    /\ At("start", "store")
    /\ active' = [id |-> task.id, native |-> task.native, file |-> FALSE,
                  image |-> IF task.kind = "file" THEN "loading" ELSE "ready"]
    /\ files' = IF active.file THEN files \ {active.id} ELSE files
    /\ Go(IF task.kind = "file" THEN "activate" ELSE "prepareInteraction")
    /\ UNCHANGED <<nativeVars, overlay, hook, ready, fresh, pageVars, writer, stray, closes>>

PrepareInteraction ==
    /\ At("start", "prepareInteraction")
    /\ OnInteraction(InteractionPrepared(interaction, task.id),
                     LAMBDA ok: Go("activate"))
    /\ UNCHANGED <<overlay, sessionVars, pageVars, fileVars, stray, closes>>

\* move_and_focus_overlay_window may fail before or after it shows the window.
Activate ==
    /\ At("start", "activate")
    /\ \/ /\ overlay # "closed"
          /\ overlay' = "shown"
          /\ Go("hook")
       \/ /\ overlay' \in {overlay} \cup (IF overlay = "closed" THEN {} ELSE {"shown"})
          /\ IF task.native THEN Go("abort") ELSE End
    /\ UNCHANGED <<nativeVars, sessionVars, pageVars, fileVars, stray, closes>>

\* The session stays active.
StartGivesUp ==
    /\ At("start", "abort")
    /\ OnPreview(ResetPreview(preview), LAMBDA ok: End)
    /\ UNCHANGED <<overlay, sessionVars, pageVars, fileVars, closes>>

\* apply_escape_cancel_hook, whose failure is logged, and the writer's thread.
StartEnds ==
    /\ At("start", "hook")
    /\ hook' \in BOOLEAN
    /\ writer' = IF task.kind = "file" THEN [writer EXCEPT ![task.id] = "working"] ELSE writer
    /\ ready' = task.id
    /\ End
    /\ UNCHANGED <<nativeVars, overlay, active, fresh, pageVars, files, stray, closes>>

----------------------------------------------------------------------------
(* copy_selection, save_selection, cancel_session. *)

\* The image is in the clipboard or in its file.
Finish ==
    /\ task = Idle
    /\ active # NoSession
    /\ task' = [Idle EXCEPT !.op = "finish", !.at = "closeOverlay", !.id = active.id]
    /\ UNCHANGED <<nativeVars, overlay, sessionVars, pageVars, fileVars, stray, closes>>

Cancel ==
    /\ task = Idle
    /\ active # NoSession
    /\ DropSession
    /\ task' = [Idle EXCEPT !.op = "cancel", !.at = "closeOverlay", !.id = active.id]
    /\ UNCHANGED <<nativeVars, overlay, ready, fresh, pageVars, writer, stray, closes>>

CancelNothing ==
    /\ task = Idle
    /\ active = NoSession
    /\ hook' = FALSE
    /\ UNCHANGED <<nativeVars, overlay, active, ready, fresh, task, pageVars, fileVars,
                   stray, closes>>

\* restore_overlay_hot_state: every step is tried, whatever failed before it.
Restoring(phase) == task.op \in {"finish", "cancel"} /\ task.at = phase

CloseOverlay ==
    /\ Restoring("closeOverlay")
    /\ \/ /\ overlay' = IF overlay = "closed" THEN overlay ELSE "hidden"
          /\ UNCHANGED faults
       \/ /\ faults < MaxFaults
          /\ faults' = faults + 1
          /\ UNCHANGED overlay
    /\ Go("hideInteraction")
    /\ UNCHANGED <<preview, interaction, sessionVars, pageVars, fileVars, stray, closes>>

\* Mutant: an error at one window leaves the other where it is.
HideInteractionOrStop ==
    /\ Restoring("hideInteraction")
    /\ OnInteraction(InteractionHidden(interaction),
                     LAMBDA ok: Go(IF ok THEN "hidePreview" ELSE "clearInteraction"))
    /\ UNCHANGED <<overlay, sessionVars, pageVars, fileVars, stray, closes>>

HideInteraction ==
    /\ Restoring("hideInteraction")
    /\ OnInteraction(InteractionHidden(interaction), LAMBDA ok: Go("hidePreview"))
    /\ UNCHANGED <<overlay, sessionVars, pageVars, fileVars, stray, closes>>

HidePreview ==
    /\ Restoring("hidePreview")
    /\ OnPreview(PreviewHidden(preview), LAMBDA ok: Go("clearInteraction"))
    /\ UNCHANGED <<overlay, sessionVars, pageVars, fileVars, closes>>

ClearInteraction ==
    /\ Restoring("clearInteraction")
    /\ OnInteraction(InteractionCleared(interaction), LAMBDA ok: Go("clearPreview"))
    /\ UNCHANGED <<overlay, sessionVars, pageVars, fileVars, stray, closes>>

ClearPreview ==
    /\ Restoring("clearPreview")
    /\ OnPreview(PreviewCleared(preview),
                 LAMBDA ok: IF task.op = "finish" THEN Go("endSession") ELSE End)
    /\ UNCHANGED <<overlay, sessionVars, pageVars, fileVars, closes>>

\* A session that is no longer the active one keeps the hook.
EndSession ==
    /\ Restoring("endSession")
    /\ CASE active = NoSession -> hook' = FALSE /\ UNCHANGED <<active, files>>
         [] active.id = task.id -> DropSession
         [] OTHER -> UNCHANGED <<active, hook, files>>
    /\ End
    /\ UNCHANGED <<nativeVars, overlay, ready, fresh, pageVars, writer, stray, closes>>

----------------------------------------------------------------------------
(* What runs beside them. *)

\* The owner of a window runs a command whose caller has given up.
OwnerRuns ==
    /\ \/ /\ preview.queue # <<>>
          /\ OnPreview(RunLate("preview", preview), LAMBDA ok: UNCHANGED task)
       \/ /\ interaction.queue # <<>>
          /\ OnInteraction(RunLate("interaction", interaction), LAMBDA ok: UNCHANGED task)
          /\ UNCHANGED stray
    /\ UNCHANGED <<overlay, sessionVars, pageVars, fileVars, closes>>

\* The page loads the active session, or learns that there is none.
PageLoads ==
    /\ overlay # "closed"
    /\ page # active.id
    /\ page' = active.id
    /\ UNCHANGED <<nativeVars, overlay, sessionVars, task, call, fileVars, stray, closes>>

PageCalls ==
    /\ Calls
    /\ page # None
    /\ call = NoCall
    /\ \E visible \in BOOLEAN: call' = [id |-> page, visible |-> visible]
    /\ UNCHANGED <<nativeVars, overlay, sessionVars, task, page, fileVars, stray, closes>>

\* update_native_interaction_runtime, when the service's mutex is free.  One that
\* shows the window during an operation, or for a session that is over, is noted.
CallRuns ==
    /\ call # NoCall
    /\ OnInteraction(UpdateRuntime(interaction, call.id, call.visible), LAMBDA ok:
          stray' = stray \cup
            (IF call.visible /\ interaction.session = call.id
                  /\ (task # Idle \/ active.id # call.id)
               THEN {"lateCall"} ELSE {}))
    /\ call' = NoCall
    /\ UNCHANGED <<overlay, sessionVars, task, page, fileVars, closes>>

\* finish_preview_preparation: the file is written, then the session takes it if
\* it is still the active one, and otherwise it is deleted.
WriteFile(s) ==
    /\ writer[s] = "working"
    /\ \/ /\ writer' = [writer EXCEPT ![s] = "written"]
          /\ files' = files \cup {s}
       \/ /\ writer' = [writer EXCEPT ![s] = "failed"]
          /\ UNCHANGED files
    /\ UNCHANGED <<nativeVars, overlay, sessionVars, task, pageVars, stray, closes>>

\* Mutant: the file of a session that is over is left on disk.
TakeFileOrLeaveIt(s) ==
    /\ writer[s] \in {"written", "failed"}
    /\ active' = IF active.id # s THEN active
                 ELSE [active EXCEPT !.file = writer[s] = "written",
                         !.image = IF writer[s] = "written" THEN "ready" ELSE "failed"]
    /\ writer' = [writer EXCEPT ![s] = "none"]
    /\ UNCHANGED <<nativeVars, overlay, hook, ready, fresh, task, pageVars, files,
                   stray, closes>>

TakeFile(s) ==
    /\ writer[s] \in {"written", "failed"}
    /\ IF active.id = s
         THEN /\ active' = [active EXCEPT !.file = writer[s] = "written",
                              !.image = IF writer[s] = "written" THEN "ready" ELSE "failed"]
              /\ writer' = [writer EXCEPT ![s] = "none"]
         ELSE /\ writer' = [writer EXCEPT ![s] = IF @ = "written" THEN "dropped" ELSE "none"]
              /\ UNCHANGED active
    /\ UNCHANGED <<nativeVars, overlay, hook, ready, fresh, task, pageVars, files,
                   stray, closes>>

DropFile(s) ==
    /\ writer[s] = "dropped"
    /\ writer' = [writer EXCEPT ![s] = "none"]
    /\ files' = files \ {s}
    /\ UNCHANGED <<nativeVars, overlay, sessionVars, task, pageVars, stray, closes>>

\* The system closes the overlay: only the session goes with it.
OverlayCloses ==
    /\ overlay = "shown"
    /\ closes < MaxCloses
    /\ closes' = closes + 1
    /\ overlay' = "closed"
    /\ page' = None
    /\ DropSession
    /\ stray' = stray \cup {"closed"}
    /\ UNCHANGED <<nativeVars, ready, fresh, task, call, writer>>

----------------------------------------------------------------------------
StartSteps ==
    \/ StartResetsPreview \/ StartResetsInteraction \/ StartClearsInteraction
    \/ StartHidesOverlay \/ CaptureLive \/ CaptureFast \/ CaptureDesktop
    \/ PrepareOverlay \/ PreparePreview \/ ShowPreview \/ StoreSession \/ PrepareInteraction \/ Activate \/ StartGivesUp \/ StartEnds

RestoreSteps ==
    \/ CloseOverlay \/ HideInteraction \/ HidePreview \/ ClearInteraction \/ ClearPreview
    \/ EndSession

WriterSteps == \E s \in Session: WriteFile(s) \/ TakeFile(s) \/ DropFile(s)

Next ==
    \/ \E id \in Session: Start(id)
    \/ StartSteps
    \/ Finish \/ Cancel \/ CancelNothing
    \/ RestoreSteps
    \/ OwnerRuns
    \/ PageLoads \/ PageCalls \/ CallRuns
    \/ WriterSteps
    \/ OverlayCloses

Spec == Init /\ [][Next]_vars

----------------------------------------------------------------------------
(* Properties. *)

Settled == task = Idle /\ preview.queue = <<>> /\ interaction.queue = <<>>

\* Once no operation runs and no command is left with an owner, there is no native
\* window on the screen without a session, whichever steps failed, unless a known
\* cause has left it behind (restore_overlay_hot_state).
NativeWindowsGoWithSession ==
    Settled /\ active = NoSession /\ stray = {} => ~preview.shown /\ ~interaction.shown

\* The same without the exceptions, as its comment says: "an error must not
\* strand another full-screen window".
NoStrandedWindow ==
    Settled /\ active = NoSession => ~preview.shown /\ ~interaction.shown

\* The session a start reported with a native preview has it on the screen: no
\* command an earlier session left with the owner takes it away.
PreviewStaysWithSession ==
    task = Idle /\ active # NoSession /\ ready = active.id /\ active.native => preview.shown

\* Escape is not taken from the other programs once the session is over, unless
\* the overlay was closed under the operation.
HookGoesWithSession ==
    task = Idle /\ active = NoSession /\ hook => "closed" \in stray

\* Every preview file belongs to the active session or to the thread that wrote
\* it, and the active session's file is there.
FilesBelongToSession ==
    /\ \A s \in files: writer[s] \in {"written", "dropped"} \/ (active.id = s /\ active.file)
    /\ active.file => active.id \in files
=============================================================================
