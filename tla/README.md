# Verification of Bexo Studio

TLA+ models of the parts of Bexo Studio (a Tauri desktop application: a Rust
back end under `src-tauri/src`, a React front end under `src`) in which several
actors share state: the **restore runs** with their child processes, the
**database layer** everything is stored through, the **uploads and downloads**
of the OSS file manager, the **settings** with the hotkeys and the login
registration they cause, **screenshot sessions** with their native windows and
the **native selection** made in them, the **Codex logins**, and **workspaces**
with the import of project lists. The modules are checked with TLC on small
instances; the properties that matter most are proved with TLAPS for all of
them. Paths below are relative to `src-tauri/src`.

## 1. The system

| Component | State it keeps | Operations | What is hard, and what makes it correct |
|---|---|---|---|
| Restore runs (`services/restore_service.rs`, `persistence/restore_run_repo.rs`) | rows `restore_runs`, `restore_run_tasks`, `snapshots.last_restore_status`; in memory `active_runs`, per run a cancel flag, cancel tokens and an action registry | `start_restore_run`, `cancel_restore_run`, `cancel_restore_action`, `recover_interrupted_runs` | cancels run concurrently with the runner and its launch threads; every row is written in a transaction of its own; a crash loses the memory. Cancelled work must not run, rows must agree with what was reported, a run must end |
| Child processes (`adapters/process.rs`) | `ChildProcessRegistry` | `run_launch_command`, `terminate_run_processes`, `terminate_action_processes` | a blocking thread outlives a caller that timed out; a program outlives its launch. No program may escape a cancel |
| Restore planning (`services/planner_service.rs`) | none | `build_restore_preview` | pure; defines which actions a run may start |
| Database layer (`persistence/sqlite.rs`) | the SQLite file | `read`, `write` | timeouts against commits, lock contention. A write happens at once or not at all, and its answer says which |
| OSS transfers (`services/oss_transfer_service.rs`, `persistence/oss_repo.rs`) | `oss_transfer_tasks`, active tokens, remote multipart uploads, part files | `start_upload`, `start_download`, `resume`, `cancel`, `confirm_completion`, `recover_interrupted_tasks` | cancel against the transfer loop, answers that are lost after the provider has acted, crash and resume. An object is never reported complete that is not, and a multipart upload is not forgotten |
| Codex auth (`services/codex_auth_service.rs`, `persistence/codex_auth_repo.rs`) | rows `codex_auth_profiles`, one of them active; `auth.json` and `config.toml` in a Codex home | `import_current_profile`, `upsert_profile`, `delete_profile`, `switch_profile`, `query_quota`, `refresh_all_quotas` | two files and a row are written one after the other and undone one after the other; the Codex CLI writes the same files; a provider answers minutes later. Files and active row belong together, a failed switch leaves nothing |
| Preferences and hotkeys (`services/preferences_service.rs`, `hotkey_service.rs`, `windows_hook_hotkey.rs`) | preference file, store in memory, cache; registered bindings, the hook thread's configuration; two registry values | `initialize`, `update_preferences`, `merge_workspace_pinned_ids`, `retry_hotkey_registration`, `apply_preferences`, `sync_launch_at_login` | one update changes five things, each may fail, other programs change shortcuts and registry meanwhile. What is stored, cached and in effect must agree, or the error must say that it may not |
| Screenshot sessions, native preview and interaction (`services/screenshot_service.rs`, `native_preview_*`, `native_interaction_*`) | the active session; per window a service state, an owner thread with a queue, a backend; the Escape hook; the preview file | `start_session`, `copy_selection`, `save_selection`, `cancel_session`; commands to the owner threads; `update_runtime`; mouse messages | commands outlive their timeouts, every layer of a teardown may fail, page and window both change the selection. Nothing of a session may stay when it ends, and the selection must be where the pointer left it |
| Workspaces and their import (`persistence/workspace_repo.rs`, `project_repo.rs`, `launch_task_repo.rs`, `services/workspace_transfer_service.rs`, `persistence/workspace_transfer_repo.rs`) | rows `workspaces`, `projects`, `launch_tasks`; pins in the preferences | register, upsert, archive, reorder, delete, remove; `apply_workspace_list_import` | an import analyses first and writes later, and any command may run in between. An import is whole and touches what was chosen; one workspace at most is the default |
| Prompts, profiles, snapshots | database rows | record keeping | each operation is one transaction: its atomicity is that of the database layer |
| Terminal, IDE, Codex and OSS adapters, logging, commands, front end | little or none | command lines, I/O, views | stateless or pure I/O |

The components meet in four ways: services call the database layer and await
it; a restore run hands launches to the process adapter and shares flags with
its threads (`Arc<AtomicBool>`); the native windows and the keyboard hook live in
threads of their own that take commands from a queue or a slot; commands of the
web view run as concurrent tasks of one Tokio runtime.

## 2. The modules

| Module | Models | Lines of code it stands for |
|---|---|---|
| `RestorePlan` | the shape of a plan, statuses and how they are summarised | `planner_service.rs`, end of `restore_service.rs` |
| `ChildProcesses` | launch threads, registry, kills | `process.rs` |
| `RestoreRun` | one run, cancels, rows, crash and recovery; extends the two above | `restore_service.rs`, `restore_run_repo.rs` |
| `MCRestoreRun` | the plans TLC tries | |
| `RestoreRunProofs` | theorems about `RestoreRun` | |
| `AtomicStore` | what callers of the database layer rely on (abstract) | |
| `Database` | threads, timeouts, transactions; implements `AtomicStore` | `sqlite.rs` |
| `OssUpload` | one upload task: attempt, commands, provider, restart | `oss_transfer_service.rs`, `oss_repo.rs`, `adapters/oss/alibaba.rs` |
| `OssUploadProofs` | theorems about `OssUpload` | |
| `OssDownload` | one download task: ranges, part file, publication, commands, restart | the same |
| `OssDownloadProofs` | theorems about `OssDownload` | |
| `Autostart` | the login registration and its rollback | `preferences_service.rs` (`windows_autostart`) |
| `Hotkeys` | bindings on record, system table, keyboard hook | `hotkey_service.rs`, `windows_hook_hotkey.rs` |
| `Preferences` | start, updates and their rollback, retries; composes the two above | `preferences_service.rs`, `domain/preferences.rs`, `commands/preferences.rs` |
| `PreferencesProofs` | theorems about `Preferences` | |
| `NativeWindows` | the two native windows as operators: outcomes of each service call, late commands | `native_preview_*`, `native_interaction_service.rs` |
| `Screenshot` | sessions over these windows, overlay, Escape, preview file | `screenshot_service.rs`, `app/window.rs` |
| `ScreenshotProofs` | theorems about `Screenshot` | |
| `SelectionGeometry` | conversions, move, resize, cut, hit boxes, as pure operators | `native_interaction_backend_windows.rs` |
| `NativeSelection` | pointer, page requests, drafts, revisions, events; uses the geometry | the same, `native_interaction_service.rs` |
| `NativeSelectionProofs` | theorems about `NativeSelection` | |
| `CodexAuth` | profiles, switches, quotas, the Codex CLI | `codex_auth_service.rs`, `codex_auth_repo.rs` |
| `CodexAuthProofs` | theorems about `CodexAuth` | |
| `Workspaces` | the workbench's tables and the import | `workspace_*.rs`, `project_repo.rs`, `launch_task_repo.rs`, `workspace_transfer_*.rs` |
| `StorageProofs` | theorems about `Database` and `Workspaces` | |
| `MCOssDownload`, `MCPreferences`, `MCScreenshot`, `MCNativeSelection`, `MCCodexAuth`, `MCWorkspaces` | the instances TLC tries | |

### RestoreRun

`pc` is the control point of `start_restore_run_with_events`; a step is the code
from one `await` to the next (a database write, a launch, a kill), and everybody
else moves in between. `act` is the runner's own copy of the actions, `reg` the
registry the cancel command looks at, `row`/`runRow`/`snap` the database, `log`
the detail file. The separate copies are the point: the code synchronises them
at particular places only, and the model does it at the same places
(`MarkAndSync`, `SyncProject`). The terminal and the Codex action share one
launch, named after the terminal.

* A write of the database commits or fails without effect; that it cannot do
  anything else is what `Database` shows.
* `CancelRun`, `CancelRunTerminate`, `CancelRunMark` are the three stretches of
  `cancel_restore_run` between its awaits. Its answer for a run that is not
  active comes from a read of the row, which is part of the first step.
* `Crash` loses everything in memory. Programs go on; the threads that watch
  them are gone. `Recover` is `recover_interrupted_restore_runs`, which ends
  before the first command is served (`app/mod.rs:150-160`).
* One run is modelled: two runs share only the snapshot's last status.
* `OsMayFail` lets a kill or a wait fail. A process the operating system
  refuses to kill becomes `"stray"`: the code logs this and does nothing more.
* Whether a path, a terminal or an IDE is usable is a choice at the place where
  the code finds out; the kinds of errors are reduced to the two statuses they
  lead to, `blocked` and `failed`.
* Left out: events, messages, timestamps; a failing `insert_restore_run_plan`,
  which leaves nothing behind; the macOS `osascript` branch of the launch loop.

### Database

Each operation has a caller and a blocking thread. The thread looks at the
caller's cancellation flag between its steps; the caller that times out raises
the flag and still waits for the thread. A write takes the content it read and
replaces it at its commit, so overlapping transactions would lose an update:
the model does not assume the isolation it shows. An operation may be called
again after an error or a timeout, which is what the services do. The
refinement to `AtomicStore` maps a caller and its thread to one phase
(`Phase`): called, applied or refused, answered.

### OssUpload

`row` is the task in the database. The attempt (`run_task`) and each command
(`cancel`, `resume`, `confirm_completion`) load it, await, and write their whole
copy back: `task` is the attempt's copy, `copy` that of each command, and `Load`
and the look at the copy are separate steps because `load_task` is an await.
`pc` is where the attempt is; it is active (in `active_tasks`) unless `pc` is
`"none"`. Parts are numbers, and a file of one part is sent in a single PUT.

* The provider is external. A request is answered; fails; or its answer is lost
  with the request done, not done, or (PUT and Complete, `late`) still on its
  way when the attempt goes on. A cancel during a request gives the request up
  (`await_cancelable`) with the same outcomes; only Initiate is waited for. A
  part or an Abort that arrives late is not modelled: parts are idempotent, and
  an Abort that arrives late acts like another client's.
* `Update` is one `update_task`: it commits, fails, or commits and then fails
  when it reads the view for the event.
* `Restart` loses attempt, commands and tokens and pauses what
  `recover_interrupted_tasks` finds unfinished, before any command
  (`app/mod.rs:136`). If that fails the application does not start.
* `object` is what is at the key: nothing, another object (`"other"`), another of
  the same size (`"twin"`), the file (`"ours"`), or some of its parts
  (`"broken"`, which no step of the code produces).
* Left out: `start_upload` up to the insertion of the row, the size and the
  content of parts, a file that changes after the attempt has begun, progress.

### OssDownload

The row, its copies and the commands are those of `OssUpload`, cut to what a
download has. A file is the sequence of its bytes, byte *i* of the object being
*i* and a byte nobody wrote `Zero`, so that a hole, a byte twice or a wrong order
show. `Align` is what `run_download_inner` does with the part file before it goes on
(`set_len` cuts or extends it to the checkpoint); `Stream` ends with the whole
range, less of it, or more; `AppendRange` and `Restart` may leave any beginning of
a range in the file. `Publish`, `RemoveOld` and `Rename` are the three awaits of
`finalize_download_file`.

* Behaviours are followed while `Defended`: a command that writes, or starts an
  attempt from, a copy with a longer checkpoint than the row has overtaken an
  attempt that began anew. The code then trusts a checkpoint the part file does
  not bear out. This is listed as a hazard and the model ends there.
* An object that is replaced is noticed by `HeadObject` only, since ranges carry
  no condition on the ETag; it is not replaced while an attempt fetches.
* Left out: `start_download` before it inserts the row, the directory.

### Preferences, Autostart, Hotkeys

`Preferences` follows `update_preferences_locked` step by step: registration
(`Autostart`), hotkeys (`Hotkeys`), `WriteStore`, `ReplaceCache`, and the undo
steps in their order; the error says whether the state is known (`unsure`).
`retry_hotkey_registration` runs beside it without the update lock. `file`,
`memory` and `cache` are three copies, and the store plugin's own saving
(`Autosave`) is a step of the environment. Every start migrates earlier defaults of
the screenshot (`Migrated`) and repairs the shortcuts: each on its own
(`Candidate`: a paste slot that is on stays on with its default), then the conflicts
in a fixed order (`Sanitized`), and the defaults for all if the result is still not
valid (`RepairedKeys`). `SettingsAreValid` says that this last resort is never needed
and that nothing else is lost. Shortcuts are told apart by identity: two spellings of
one chord are not modelled.

`Autostart` has one step per registry call, in the rollback too: a look
(`LookAtRun`, `LookAtApproval`, `LookIfGone`) and then the write (`PutRun`,
`PutApproval`, `PutGone`), with other programs between them; `EndRollback` decides
between failed and unknown. The variable `theirs` is history, for the properties only: whether
another program changed a value after the synchronisation last found it right or
wrote it, and whether the rollback saw that. A change between the look and the write
is overwritten and not reported; `FailedSyncIsUndone` allows for this window, which
the code has (`preferences_service.rs:1264-1269`, `1277-1282`) though
`src/progress.md:2352` counts the overwriting by a concurrent rollback as fixed.

`Hotkeys` has the two registrations, a rollback that itself may fail, and
a hook thread whose configuration waits in one slot (`Post`, `HookReads`).
Shortcuts are reduced to three kinds: registered by the system, seen by the hook
only, and made of modifiers alone. The screenshot, the two voice actions, which may
be modifiers alone, and two of the five paste slots are there.

### Screenshot and NativeWindows

A native window is a record: what its service says, the commands left with its
owner, what its backend believes (`known`), whether it is on the screen (`shown`).
The two differ, which is what the module is about. An operation of a service is
the set of its outcomes, each with the number of faults it takes; `Request` is
the service's wait with a time limit, after which the command stays in the queue.
`Screenshot` composes them: a start, copy or save, and cancel exclude each other
(`session_operation`), everything else does not. The teardown
(`restore_overlay_hot_state`) has a step per layer. `stray` notes the three causes
the code has no defence against (a preview whose placement failed, a page request
that ran after the hide, an overlay the system closed under an operation).

### NativeSelection and SelectionGeometry

Geometry is per axis, on intervals; a rectangle is a function from the axes. The
operators are those of the code with its roundings and its least sizes: at the
display's scale for the selection (`MinSize`), at scale 1 for a shape (`MinShape`).
`NativeSelection` has the window's thread (`Down`, `Move`, `Up`, `CaptureLost`), the
service (`UpdateRuntime`, then show or hide, then `ReadState` and `SendState`: three
steps, since the lock is released between them) and the page, which keeps the
newer of two states by `isNativeStateCurrent`. How near a shape the pointer must
be is left open: a press may grab any shape. Not modelled: messages dropped while
the state lock is contended, exclusion rectangles, drawing.

### CodexAuth

A profile is its home, the contents of its two files and a quota. Each file or
database operation of `switch_profile` is a step, of its rollback too. The lock is
taken at the call, since a caller that waits has done nothing yet; an import has, as
it reads the files before. The history variable `agreed` is lowered by what makes
rows and files differ with no fault of the code: an edit of the active row, the
Codex CLI, a crash in a switch, a rollback reported as failed.

### Workspaces

The tables are functions from identifiers to rows, `None` or `Gone`. A command of the
workbench is one step, because it is one write transaction. An import has
several: `Analyse` reads and plans, `OpenImport` begins the transaction, an entry
is written per step into `draft`, which commits or is dropped; the pins follow
(`MergePins`). The checks the code repeats inside the transaction (`StillThere`)
are what the properties depend on.

## 3. What is checked

| Run | Instance | Shows |
|---|---|---|
| `restore_cancel` | 1 project, 3 launch tasks (the first may fail), one run cancel, one action cancel; plans: terminal and Codex, three tasks, a task and an IDE | `PendingCancelNeverRuns`, `HaltedTasksNeverRun`, `CancelReachesRetained`, the type invariant |
| `restore_recovery` | 2 projects, one task each, plain, blocked or skipped by the plan; one run cancel, one failing database operation, failing kills, abandoned launches, a crash anywhere | `FinalizedRunHasNoRunningRow`, `RowsMatchRecords`, `RunEnds`, `CancelledRunLeavesNoProgram` |
| `database` | two writes and a read, any number of retries | `AppliedOnce`, `ImplementsAtomicStore`, `EveryCallAnswered` |
| `oss_upload` | one part or two, two multipart uploads, one command at a time, an unrelated object or none before, one failing write, restarts | `CompletedIsStored`, `PartsAreStored`, `AttemptForgetsOnlyClosed`, `AttemptEnds` |
| `oss_download` | an empty object or one of a full and a short range, two requests per range, two commands, two faults or restarts | `PublishedIsTheObject`, `OldFileGoesForTheWhole` |
| `preferences` | two updates out of four patches (one of them invalid), retries, no file or an old one (an earlier default whose successor is taken, a slot whose default the next slot has), a release registered but disabled, one fault, one move of another program on shortcuts and on the registry, one stop | `StoreMatchesCache`, `SettingsAreValid`, `FailedUpdateLeavesNoTrace`, `HotkeysFollowSettings`, `LoginFollowsSettings`, `NoStrayBindings`, `FailedSyncIsUndone` |
| `screenshot` | two sessions, two faults, one closing by the system, page requests | `NativeWindowsGoWithSession`, `PreviewStaysWithSession`, `HookGoesWithSession`, `FilesBelongToSession` |
| `native_selection` | an axis of four pixels at 150 %, three selections and three shapes the page may ask for, four revisions | `DragFollowsPointer`, `SelectionOnDisplay`, `DraftInSelection`, `PageHasTheSelection`, `ReleaseTakesLastPoint` |
| `codex_auth` | two profiles, one home, two contents, two callers, one event from outside | `OneActive`, `ActiveProfileIsLive`, `FailedSwitchIsUndone`, `QuotaGoesWithCredentials` |
| `workspaces` | two workspaces, three projects, two directories, a file of one or of two entries | `OneDefault`, `ImportIsWhole`, `ImportSparesOthers` |
| `oss_false_cancel` | a single PUT, one command at a time | violated: finding 1 |
| `screenshot_stranded` | one fault, no page | violated: finding 2 |

Bounds of the restore runs: `MaxFaults` (failing database operations), `MaxLate`
(launches whose caller gave up while they were at work), the sizes of the plan and
the numbers of callers. A halt needs a task before and one after the one that
halts, hence three; the order of two cancels of the same kind does not matter,
since flags and tokens only ever go up; a second project is needed for the branch
that drops the projects after a cancel. Uploads: `MaxUploads` bounds the multipart
uploads the provider opens: the second one is opened when the answer to the first
Initiate is lost, or by a resume from an old copy. Two parts give a checkpoint
with some but not all of them. Downloads: a full and a short range are the two
kinds there are; two faults are a partial append and what meets it later.
Preferences: two updates are needed for one to fail on what the first left, and a
fault that meets a rollback needs a first failure, which another program supplies
by taking a shortcut; `MaxMail` bounds the messages that wait at the hook. One
old file, of two conflicts that only the repair itself makes, keeps the run small;
`SettingsCorrect` covers every file.
Screenshots: two faults allow a late command and a failure in the next session.
Selection: one axis is enough as the operators treat axes alike; the display is
twice the least size, and at 150 % a page's rectangle begins and ends between
pixels; the theorems cover every size. Codex: with one event from outside either
the CLI or a crash meets any step. Workspaces: two entries are needed for a
second one to fail after the first has been written, and an identifier is used
once, so three projects allow a directory to be registered, removed and imported.

A type invariant is checked in one run of the project and proved for `RestoreRun`,
`Database`, `OssUpload`, `NativeSelection`, `Preferences` and `Screenshot`. Where users may stop, or behaviours
end at a bound, deadlock is not checked.

Fairness (`RestoreRun!Fairness`, `Database!DatabaseFairSpec`, `OssUpload!Fairness`): the runner
and the cancel commands are tasks of the Tokio runtime and every await in them has
a timeout; a blocking thread keeps running. No fairness is assumed of users, of
external programs, or of timeouts that race with an answer. The outer timeout of
`run_launch_command` is part of the runner's fairness: with `MaxLate` as large as
the number of launches it is always possible to give up, and `RunEnds` fails
without it (that is its mutant). An attempt of an upload and the rest of a
command that has been issued get on because every request and file operation
they await has a timeout. The other modules state safety only.

Each property has a mutant (an operator next to the definition it changes)
which TLC finds to violate it.

### Findings

1. `CancelledIsNotStored`: `cancel` loads the task, awaits, and then looks for an
   attempt (`oss_transfer_service.rs:322,332`). If the attempt of a single PUT
   ended in between with its answer lost, `needs_confirmation` is overwritten
   with `cancelled` although the file is stored.
2. `NoStrandedWindow`: the preview is shown before it is placed below the
   overlay; if the placement fails, the backend keeps `visible = false`
   (`native_preview_backend_windows.rs:203-228`), and every later hide returns
   at once (230-237). The full-screen window stays, which the comment at
   `screenshot_service.rs:3387` means to rule out.

Behaviours of the code that its documents speak against and that no run is
devoted to are kept in the models and noted at their hazards: a finished
run reopened by a late cancel (`restore_service.rs:410`), a run that fails at its
end and leaves its programs (858), a Codex action left `running` (1756), an upload
id wiped by a late cancel (`oss_transfer_service.rs:576`), a hotkey retry that
overlaps an update (`commands/preferences.rs:78`).

## 4. What is proved

For every value of the constants (sizes, plans, callers, faults, crashes):

* `RestoreRunProofs!TypeCorrect`: `Spec => []TypeOK`. `TypeOK` needs to know
  that the runner only leaves the ranges of `proj` and `slot` at the ends of its
  loops (`Position`) and that a finished thread has a result (`DoneHasResult`).
* `RestoreRunProofs!PendingCancelCorrect`: `Spec => []PendingCancelNeverRuns`.
  The property itself is not inductive. The invariant adds what the code relies
  on: a launch serves only its own actions (`ServesItsOwn`); a launch that was
  not made has no thread and no program (`UnmadeIsFresh`); its actions are no
  longer planned once it is made (`MadeIsNotPlanned`), and an action the
  registry has as planned is not launched (`PlannedIsUntouched`): so an action
  cancelled while planned is not launched *yet*; what the runner has
  established on its way to a launch (`AboutToLaunch`); and that the token of a
  cancelled action is up and stops its thread before it spawns
  (`DoomedIsStopped`).
* `RestoreRunProofs!RowsCorrect` (`Spec => []RowsMatchRecords`),
  `FinalizedCorrect` (`Spec => []FinalizedRunHasNoRunningRow`) and `HaltCorrect`
  (`Spec => []HaltedTasksNeverRun`), on top of the invariant above. The argument
  follows the runner: the rows of the projects behind it are settled and those
  ahead of it are as the plan left them (`Around`); of the project at hand
  `Present` says how far it has come: which tasks are settled and which are
  untouched (`TasksOK`), that a task which halts the project has set the reason
  (`ReasonOK`), and that only a Codex action whose terminal has opened can be left
  `running` (`PairOK`). The last is why a project that has been executed is never
  summarised as running although one of its actions may be (`SummaryIsFinal`),
  and a run is finalized only when every project is behind the runner.
* `RestoreRunProofs!CancelReaches` (`Spec => CancelReachesRetained`). An action
  cancel goes by the registry, so the invariant is about who is in it: until the
  run drops its entries, a living program is registered or its thread has only
  just spawned it (`AliveIsTracked`). A launch cannot lose an older program of
  the same key from sight because it is made once (`UnmadeIsFresh`).
* `StorageProofs!DatabaseTypeCorrect`, `AppliedOnceCorrect` and
  `Implementation`: `DatabaseSpec => ImplementsAtomicStore`. The invariant says
  that there is one open transaction (`OneTransaction`), that it has seen the
  current content (`SeenIsCurrent`), that a thread works only while its caller
  waits (`WorksForCaller`), and that each write in the database is one whose
  caller has been or will be told so (`AppliedIsTaken`).
* `OssUploadProofs!UploadTypeCorrect`, `CompletedCorrect`
  (`Spec => []CompletedIsStored`) and `PartsCorrect`
  (`Spec => []PartsAreStored`), for any number of parts and commands. The row
  alone is not inductive, because a copy of any age may be written back. The
  invariant says so of every copy (`CopiesAreAccurate`): what a copy claims of the
  provider is so. It stays so because the provider keeps what it has
  (`NextKeeps`): the file stays at the key, since the attempt completes an upload
  only with all its parts (`AttemptKnows`), and a stored part stays with its
  upload. `CompletedIsStored` allows for an object of the same size that was
  there before (`"twin"`), since `confirm_completion` compares the size only.
  `ForgetsCorrect` (`Spec => AttemptForgetsOnlyClosed`): a closed upload stays
  closed (`ClosedStays`), and the success an attempt writes down is that of an
  upload the provider has completed (`ResultOK`).
* `NativeSelectionProofs`: all five properties of the run, for every display,
  scale, number of axes and set of requests. `DragCorrect`, `PageCorrect` and
  `ReleaseCorrect` follow from one invariant: a drag has what it began with
  (`WellBegun`), and whatever the page has or is about to be sent is of this
  session's past (`PagesOK`): its revisions are not above the window's, and
  where they are equal so is what they tell. `DisplayCorrect` and `DraftCorrect`
  need a second one (`Placed`): the selection, what a drag began from and the
  pointer are where the geometry lemmas (`Shift`, `Stretch`, `Cut`, `ToPhysical`,
  `NearestIn`) keep them.
* `OssDownloadProofs!PublishedCorrect` (`Spec => []PublishedIsTheObject`) and
  `OldFileCorrect` (`Spec => OldFileGoesForTheWhole`), for objects and ranges of
  any size. While `Defended`, the part file is a beginning of the object
  (`PartOK`) at least as long as what the row and the attempt's copy claim; a
  range is asked for where the part file ends and is exactly what is missing
  next (`AttemptOK`), so appending it gives a longer beginning, and the attempt
  reaches the publication only with the whole. The lemmas on `Bytes` and `Align`
  say what cutting, extending and appending make of a beginning.
* `CodexAuthProofs!OneActiveCorrect`, `ActiveCorrect`, `UndoneCorrect` and
  `QuotaCorrect`: all four properties of the run, for any number of profiles,
  homes, callers and events. The lock excludes (`LockOK`); what its holder has
  read of rows and files is still so, but for what the Codex CLI wrote there,
  which clears `alone` (`HolderOK`); and while a switch writes, the files as it
  found them agree with the active row (`AgreedOnceUndone`), so a rollback that
  completes leads back to agreement.
* `StorageProofs!DefaultCorrect` (`Spec => []OneDefault`), `ImportCorrect`
  (`Spec => ImportSparesOthers`) and `WholeCorrect` (`Spec => ImportIsWhole`), for
  any tables, files and number of imports. The invariant says the draft of an open
  transaction has one default too, that a plan's entries were analysed from the
  file (`Plans`), that one import works at a time (`LockOK`), and that what the
  draft changed so far is what the chosen entries allow (`WriteOK`). That an import
  is whole needs more: the entries of a plan share no directory and no matched
  project (`Apart`), because the analysis blocks those that do; an id that has
  been used is not used again (`MatchedBefore`, `DraftGrows`); so a project
  that an entry has written is no later entry's to write (`WrittenOK`).
* `PreferencesProofs`: all seven properties of the run, for any patches, defaults
  and accelerators, and `PreferencesTypeCorrect`. None is inductive alone. The
  invariant has a part for each thing that can be out of step: store and cache
  differ only between the two writes of an update or of its rollback, and what an
  update works from is the cache (`StoreOK`); a synchronisation of the registration
  goes the way the phase of the update asks for, and what it read or verified is still
  there unless another program changed it (`SyncOK`, `LoginOK`); its rollback has put
  back what the phases before wrote (`UndoOK`); a call of
  `apply_preferences` has the accelerators its caller waits for (`CallsOK`); what
  is on record is known in each phase (`RecordOK`), unless the retry command
  raced with an update, which the property names (`RaceOK`); and the system's
  table and the keyboard hook, with the message that is on its way to it, have the
  bindings in force (`BindingsOK`).
* `ScreenshotProofs`: all four properties of the run, for any number of sessions,
  faults and page requests, and `ScreenshotTypeCorrect`. A command outlives its
  timeout, so what is inductive is about the queue: a window that is bound to go is
  off the screen, or the last of the show and hide commands in its owner's queue
  hides it (`Hid`, `GoneOK`); a preview reported as shown has nothing left in its
  queue (`FirmOK`). `SessionOK` says for each step of a start, an end and a
  rollback what of the session exists; `FilesOK` says of each preview file whose
  it is.

The assumptions are those named in the modules (`PlanAssumption`,
`ChildAssumption`, `RunAssumption`, `OperationAssumption`, `UploadAssumption`,
`DownloadAssumption`, `GeometryAssumption`, `NativeSelectionAssumption`,
`CodexAuthAssumption`, `WorkspacesAssumption`, `PreferencesAssumption`,
`HotkeyAssumption`, `AutostartAssumption`, `NativeWindowsAssumption`,
`ScreenshotAssumption`).

Every safety invariant and action property of the passing runs is a theorem. Only
model-checked are the four liveness properties (`RunEnds`,
`CancelledRunLeavesNoProgram`, `EveryCallAnswered`, `AttemptEnds`: liveness under
fairness and `ENABLED` are out of the prover's reach), and the two properties
the code violates.
Facts that need induction over data, or `RECURSIVE` operators, could not be
proved; the modules have none.

## 5. What the plan has left

1. A restore run as an implementation of an abstract run that is planned,
   executed and finalized once.
2. An abstract transfer that uploads and downloads both implement.
3. The state machine of pressed keys in the keyboard hook
   (`windows_hook_hotkey.rs:199-273`), and the live capture cache of screenshots.

Not modelled, with the reasons in `PROJECT.json`: adapters that only build
command lines, drawing and capture (platform I/O), Codex history (reads another
program's files), services whose operations are single transactions (prompts,
profiles, OSS accounts), the front end but for the function that orders native
states.
