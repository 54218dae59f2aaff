----------------------------- MODULE Preferences -----------------------------
(***************************************************************************)
(* Settings of Bexo Studio (preferences_service.rs): the store file, its   *)
(* copy in memory, the cache every reader uses, and what a setting causes  *)
(* outside, the login registration (Autostart) and the hotkeys (Hotkeys).  *)
(* Updates run one at a time; each synchronises the registration, applies  *)
(* the hotkeys, writes the store and replaces the cache, and undoes what   *)
(* it did when a later step fails.  retry_hotkey_registration reads the    *)
(* cache and applies the hotkeys without the update lock.  The application *)
(* may stop at any step and starts again from the file.                    *)
(***************************************************************************)
EXTENDS Autostart, Hotkeys

CONSTANTS
    Updater,     \* whoever has the update lock
    Retrier,     \* the caller of retry_hotkey_registration
    Keep,        \* a patch leaves the field as it is
    Unset,       \* there is no such value yet
    Patches,     \* the patches that may be sent
    Workspaces,  \* workspaces that may be pinned
    StoredKeys,  \* bindings an old file may hold
    DefaultShot, \* the default shortcut of the screenshot
    DefaultPaste,\* the default shortcut of each paste slot
    Legacy,      \* earlier defaults of the screenshot
    MaxMail,     \* bound: messages waiting at the hook when a retry begins
    MaxUpdates,  \* bound: updates
    MaxCrashes   \* bound: stops of the application

ASSUME PreferencesAssumption ==
    /\ Applier = {Updater, Retrier}
    /\ Retrier # Updater
    /\ Nobody \notin Applier
    /\ Patches \subseteq [launch: BOOLEAN \cup {Keep}, keys: Bindings \cup {Keep},
                          pin: SUBSET Workspaces, unpin: SUBSET Workspaces]
    /\ DefaultShot \in Shortcut \ ModifierOnly
    /\ DefaultPaste \in [Slot -> Shortcut \ ModifierOnly]
    /\ MaxMail \in Nat
    /\ MaxUpdates \in Nat
    /\ MaxCrashes \in Nat

VARIABLES
    file,     \* the store on disk
    memory,   \* the store in memory
    cache,    \* the settings in use
    update,   \* the update that has the lock
    retry,    \* the retry under way and the bindings it read
    app,      \* whether the application runs, or how far its start is
    updates,  \* updates so far
    crashes,  \* stops so far
    raced,    \* a retry overlapped an update since the start
    unsure    \* an error said "stateConsistency unknown" since the start

storeVars == <<file, memory, cache>>
updateVars == <<update, updates>>
otherVars == <<retry, app, crashes, raced, unsure>>
vars == <<autostartVars, hotkeyVars, storeVars, updateVars, otherVars>>

Settings == [launch: BOOLEAN, keys: Bindings, pinned: SUBSET Workspaces]

UpdatePhase == {"idle", "locked", "autostart", "applying", "store", "cache",
                "undoStore", "undoHotkeys", "undoingHotkeys", "undoAutostart",
                "undoingAutostart", "done", "rejected", "failed"}

----------------------------------------------------------------------------
\* validate_hotkey_shortcut: only the voice actions may be modifiers alone.
Allowed(a, s) == s \in Shortcut /\ (a \in {"toggle", "hold"} \/ s \notin ModifierOnly)

\* validate_hotkey_preferences.
ValidKeys(b) ==
    /\ \A a \in Action: b[a] = NoKey \/ Allowed(a, b[a])
    /\ b["shot"] # NoKey
    /\ \A a, d \in Action: a # d /\ b[a] # NoKey => b[a] # b[d]

\* The bindings of a new installation: the slots are off.
DefaultKeys == [a \in Action |-> IF a = "shot" THEN DefaultShot ELSE NoKey]
Defaults == [launch |-> FALSE, keys |-> DefaultKeys, pinned |-> {}]

\* migrate_legacy_preferences, which runs at every start.
Migrated(b) == [a \in Action |-> IF a = "shot" /\ b[a] \in Legacy THEN DefaultShot
                                 ELSE b[a]]

\* sanitize_required_hotkey_shortcut and sanitize_optional_hotkey_shortcut: each
\* shortcut on its own.  A slot that is on stays on, with its own default when
\* its shortcut is not allowed.
Candidate(b, a) ==
    IF Allowed(a, b[a]) THEN b[a]
    ELSE CASE a = "shot"                 -> DefaultShot
           [] a \in Slot /\ b[a] # NoKey -> DefaultPaste[a]
           [] OTHER                      -> NoKey

Unless(s, others) == IF s \in others THEN NoKey ELSE s

\* (mutant) Each shortcut on its own, conflicts are left.
EachAlone(b) == [a \in Action |-> Candidate(b, a)]

\* Then conflicts: whoever comes later in the order below is switched off.
Sanitized(b) ==
    LET shot == Candidate(b, "shot")
        toggle == Unless(Candidate(b, "toggle"), {shot})
        hold == Unless(Candidate(b, "hold"), {shot, toggle})
        paste1 == Unless(Candidate(b, "paste1"), {shot, toggle, hold})
        paste2 == Unless(Candidate(b, "paste2"), {shot, toggle, hold, paste1})
    IN [a \in Action |-> CASE a = "shot" -> shot [] a = "toggle" -> toggle
                           [] a = "hold" -> hold [] a = "paste1" -> paste1
                           [] a = "paste2" -> paste2]

\* sanitize_hotkey_preferences: what is still not valid gives way to the defaults.
RepairedKeys(b) ==
    IF ValidKeys(Sanitized(Migrated(b))) THEN Sanitized(Migrated(b)) ELSE DefaultKeys

Repaired(p) == [p EXCEPT !.keys = RepairedKeys(@)]

----------------------------------------------------------------------------
\* apply_preferences_patch; a merge of pinned workspaces is a patch computed
\* from the settings it finds.
Patched(p, patch) ==
    [launch |-> IF patch.launch = Keep THEN p.launch ELSE patch.launch,
     keys |-> IF patch.keys = Keep THEN p.keys ELSE patch.keys,
     pinned |-> (p.pinned \ patch.unpin) \cup patch.pin]

NoUpdate == [phase |-> "idle", before |-> Defaults, new |-> Defaults,
             unknown |-> FALSE]

NoRetry == [phase |-> "idle", keys |-> None]

Changed(u) == u.new.launch # u.before.launch
Go(phase) == update' = [update EXCEPT !.phase = phase]
GoUnsure(phase) == update' = [update EXCEPT !.phase = phase, !.unknown = TRUE]

TypeOK ==
    /\ AutostartTypeOK
    /\ HotkeyTypeOK
    /\ file \in {Unset} \cup [launch: BOOLEAN, keys: Bindings \cup StoredKeys,
                              pinned: SUBSET Workspaces]
    /\ memory \in {Unset} \cup Settings
    /\ cache \in Settings
    /\ update \in [phase: UpdatePhase, before: Settings, new: Settings,
                   unknown: BOOLEAN]
    /\ retry \in [phase: {"idle", "read", "applying"}, keys: Bindings]
    /\ app \in {"stopped", "hotkeys", "registration", "running"}
    /\ updates \in 0..MaxUpdates
    /\ crashes \in 0..MaxCrashes
    /\ raced \in BOOLEAN
    /\ unsure \in BOOLEAN

Init ==
    /\ AutostartInit
    /\ HotkeyInit
    /\ file \in {Unset} \cup {[Defaults EXCEPT !.keys = k]: k \in StoredKeys}
    /\ memory = Unset
    /\ cache = Defaults
    /\ update = NoUpdate
    /\ retry = NoRetry
    /\ app = "stopped"
    /\ updates = 0
    /\ crashes = 0
    /\ raced = FALSE
    /\ unsure = FALSE

----------------------------------------------------------------------------
Collect(c, result) ==
    /\ applied[c] = result
    /\ applied' = [applied EXCEPT ![c] = "none"]
    /\ UNCHANGED <<system, hook, registered, health, apply, grabs>>

\* The start, on one thread: initialize repairs the file and writes it back
\* when that changed it, the hotkeys are applied and the registration is
\* synchronised; only a failure of the first ends the start.
Start ==
    /\ app = "stopped"
    /\ LET loaded == IF file = Unset THEN Defaults ELSE Repaired(file)
       IN /\ memory' = loaded
          /\ cache' = loaded
          /\ file' = loaded
          /\ Apply(Retrier, loaded.keys)
    /\ app' = "hotkeys"
    /\ UNCHANGED <<autostartVars, updateVars, retry, crashes, raced, unsure>>

StartRegistration ==
    /\ app = "hotkeys"
    /\ \E result \in {"ok", "failed"}: Collect(Retrier, result)
    /\ StartSync(cache.launch)
    /\ app' = "registration"
    /\ UNCHANGED <<registryVars, storeVars, updateVars, retry, crashes, raced,
                   unsure>>

Running ==
    /\ app = "registration"
    /\ sync.result # "none"
    /\ EndSync
    /\ app' = "running"
    /\ UNCHANGED <<registryVars, hotkeyVars, storeVars, updateVars, retry,
                   crashes, raced, unsure>>

\* update_preferences and merge_workspace_pinned_ids, under the update lock: the
\* settings are read once the lock is held, never before.
Lock ==
    /\ app = "running"
    /\ update.phase = "idle"
    /\ updates < MaxUpdates
    /\ updates' = updates + 1
    /\ \E patch \in Patches:
         LET new == Patched(cache, patch)
             u == [NoUpdate EXCEPT !.before = cache, !.new = new]
         IN update' = [u EXCEPT !.phase = IF ~ValidKeys(new.keys) THEN "rejected"
                                          ELSE IF Changed(u) THEN "autostart"
                                          ELSE "locked"]
    /\ raced' = (raced \/ retry.phase # "idle")
    /\ UNCHANGED <<autostartVars, hotkeyVars, storeVars, retry, app, crashes,
                   unsure>>

BeginAutostart ==
    /\ update.phase = "autostart"
    /\ sync.result = "none"
    /\ StartSync(update.new.launch)
    /\ UNCHANGED <<registryVars, hotkeyVars, storeVars, updateVars, otherVars>>

\* The registration failed: nothing else was touched yet.
EndAutostart ==
    /\ update.phase = "autostart"
    /\ CASE sync.result = "ok" -> Go("locked")
         [] sync.result = "failed" -> Go("failed")
         [] sync.result = "unknown" -> GoUnsure("failed")
         [] OTHER -> FALSE
    /\ UNCHANGED <<autostartVars, hotkeyVars, storeVars, updates, otherVars>>

ApplyHotkeys ==
    /\ update.phase = "locked"
    /\ Apply(Updater, update.new.keys)
    /\ Go("applying")
    /\ UNCHANGED <<autostartVars, storeVars, updates, otherVars>>

HotkeysApplied ==
    /\ update.phase = "applying"
    /\ \/ Collect(Updater, "ok") /\ Go("store")
       \/ Collect(Updater, "failed") /\ Go("undoHotkeys")
    /\ UNCHANGED <<autostartVars, storeVars, updates, otherVars>>

\* write_store sets the value in memory, then saves the file.
WriteStore ==
    /\ update.phase = "store"
    /\ \/ /\ memory' = update.new
          /\ file' = update.new
          /\ Go("cache")
          /\ UNCHANGED faults
       \/ /\ Fault
          /\ memory' = update.new
          /\ Go("undoStore")
          /\ UNCHANGED file
       \/ /\ Fault
          /\ Go("undoHotkeys")
          /\ UNCHANGED <<memory, file>>
    /\ UNCHANGED <<runKey, approval, sync, theirs, outside, hotkeyVars, cache,
                   updates, otherVars>>

ReplaceCache ==
    /\ update.phase = "cache"
    /\ cache' = update.new
    /\ Go("done")
    /\ UNCHANGED <<autostartVars, hotkeyVars, file, memory, updates,
                   otherVars>>

----------------------------------------------------------------------------
\* (mutant) The store in memory keeps the value that could not be saved.
UndoFileOnly ==
    /\ update.phase = "undoStore"
    /\ file' = update.before
    /\ Go("undoHotkeys")
    /\ UNCHANGED <<autostartVars, hotkeyVars, memory, cache, updates, otherVars>>

\* What was done is undone in the opposite order; an undo that fails makes the
\* error say that the state is unknown.
UndoStore ==
    /\ update.phase = "undoStore"
    /\ memory' = update.before
    /\ \/ /\ file' = update.before
          /\ Go("undoHotkeys")
          /\ UNCHANGED faults
       \/ /\ Fault
          /\ GoUnsure("undoHotkeys")
          /\ UNCHANGED file
    /\ UNCHANGED <<runKey, approval, sync, theirs, outside, hotkeyVars, cache,
                   updates, otherVars>>

\* (mutant) The login registration is not undone.
AfterHotkeysOnly == "failed"

AfterHotkeys == IF Changed(update) THEN "undoAutostart" ELSE "failed"

\* (mutant) The bindings of the failed update stay.
UndoNoHotkeys ==
    /\ update.phase = "undoHotkeys"
    /\ Go(AfterHotkeys)
    /\ UNCHANGED <<autostartVars, hotkeyVars, storeVars, updates, otherVars>>

UndoHotkeys ==
    /\ update.phase = "undoHotkeys"
    /\ Apply(Updater, update.before.keys)
    /\ Go("undoingHotkeys")
    /\ UNCHANGED <<autostartVars, storeVars, updates, otherVars>>

HotkeysUndone ==
    /\ update.phase = "undoingHotkeys"
    /\ \/ Collect(Updater, "ok") /\ Go(AfterHotkeys)
       \/ Collect(Updater, "failed") /\ GoUnsure(AfterHotkeys)
    /\ UNCHANGED <<autostartVars, storeVars, updates, otherVars>>

UndoAutostart ==
    /\ update.phase = "undoAutostart"
    /\ StartSync(update.before.launch)
    /\ Go("undoingAutostart")
    /\ UNCHANGED <<registryVars, hotkeyVars, storeVars, updates, otherVars>>

AutostartUndone ==
    /\ update.phase = "undoingAutostart"
    /\ sync.result # "none"
    /\ IF sync.result = "ok" THEN Go("failed") ELSE GoUnsure("failed")
    /\ UNCHANGED <<autostartVars, hotkeyVars, storeVars, updates, otherVars>>

Unlock ==
    /\ update.phase \in {"done", "rejected", "failed"}
    /\ update' = NoUpdate
    /\ EndSync
    /\ unsure' = (unsure \/ update.unknown)
    /\ UNCHANGED <<registryVars, hotkeyVars, storeVars, updates, retry, app,
                   crashes, raced>>

----------------------------------------------------------------------------
\* retry_hotkey_registration: get_preferences, then apply_preferences.
RetryRead ==
    /\ app = "running"
    /\ retry.phase = "idle"
    /\ hook.mail < MaxMail
    /\ retry' = [phase |-> "read", keys |-> cache.keys]
    /\ raced' = (raced \/ update.phase # "idle")
    /\ UNCHANGED <<autostartVars, hotkeyVars, storeVars, updateVars, app, crashes,
                   unsure>>

RetryApply ==
    /\ retry.phase = "read"
    /\ Apply(Retrier, retry.keys)
    /\ retry' = [retry EXCEPT !.phase = "applying"]
    /\ UNCHANGED <<autostartVars, storeVars, updateVars, app, crashes, raced,
                   unsure>>

RetryEnd ==
    /\ retry.phase = "applying"
    /\ \E result \in {"ok", "failed"}: Collect(Retrier, result)
    /\ retry' = NoRetry
    /\ UNCHANGED <<autostartVars, storeVars, updateVars, app, crashes, raced,
                   unsure>>

\* The store plugin saves by itself what is in memory a moment after a change.
Autosave ==
    /\ app # "stopped"
    /\ file # memory
    /\ file' = memory
    /\ UNCHANGED <<autostartVars, hotkeyVars, memory, cache, updateVars, otherVars>>

\* The process ends: the system forgets its shortcuts, the registry and the
\* file stay.
Stop ==
    /\ app # "stopped"
    /\ crashes < MaxCrashes
    /\ crashes' = crashes + 1
    /\ app' = "stopped"
    /\ system' = WithoutOurs(system)
    /\ hook' = [hook EXCEPT !.mail = 0, !.pending = Nothing, !.config = None]
    /\ registered' = None
    /\ health' = "uninitialized"
    /\ apply' = NoApply
    /\ applied' = [c \in Applier |-> "none"]
    /\ memory' = Unset
    /\ cache' = Defaults
    /\ update' = NoUpdate
    /\ retry' = NoRetry
    /\ EndSync
    /\ raced' = FALSE
    /\ unsure' = FALSE
    /\ UNCHANGED <<registryVars, file, updates, grabs>>

Environment ==
    \/ /\ OutsideStep \/ SyncStep
       /\ UNCHANGED <<hotkeyVars, storeVars, updateVars, otherVars>>
    \/ /\ OtherProgram \/ HookReads \/ ApplyRegister \/ ApplyRollback
       /\ UNCHANGED <<autostartVars, storeVars, updateVars, otherVars>>

Next ==
    \/ Start \/ StartRegistration \/ Running \/ Stop \/ Autosave
    \/ Lock \/ BeginAutostart \/ EndAutostart \/ ApplyHotkeys \/ HotkeysApplied
    \/ WriteStore \/ ReplaceCache
    \/ UndoStore \/ UndoHotkeys \/ HotkeysUndone \/ UndoAutostart \/ AutostartUndone
    \/ Unlock
    \/ RetryRead \/ RetryApply \/ RetryEnd
    \/ Environment

Spec == Init /\ [][Next]_vars
----------------------------------------------------------------------------
\* The settings readers see and the store in memory, which is what is saved next,
\* are the same whenever no update has the lock, even when an error said that they
\* may not be; so what is stored for the next start is what was shown.
StoreMatchesCache ==
    app = "running" /\ update.phase = "idle" => memory = cache

\* What repair kept: r are the bindings in use, b those in the file.
Kept(r, b) ==
    \A a \in Action:
        \/ r[a] = b[a]
        \/ a = "shot" /\ b[a] \in Legacy
        \/ ~Allowed(a, b[a]) /\ (a = "shot" \/ b[a] # NoKey)
        \/ \E d \in Action \ {a}: r[d] = b[a] /\ r[d] # NoKey

\* Every start, update and undo leaves settings in use that
\* validate_hotkey_preferences accepts, whatever an older file held; and a start
\* keeps each shortcut of the file but one that is not allowed, an earlier default
\* of the screenshot, or one that another action has now.  So the repair, which
\* may replace a shortcut by a default that is the next conflict, never ends in
\* the last resort, the defaults for all actions.
SettingsAreValid ==
    [][/\ app' # "stopped" => ValidKeys(cache'.keys)
       /\ app = "stopped" /\ app' # "stopped" /\ file # Unset =>
            Kept(cache'.keys, file.keys)]_vars

\* An update that fails without reporting an unknown state has left no trace:
\* store, cache and hotkeys are those of the settings before it, unless the
\* health says otherwise or a retry interfered (the registration is below).
FailedUpdateLeavesNoTrace ==
    update.phase = "failed" /\ ~update.unknown =>
        /\ memory = cache
        /\ cache = update.before
        /\ raced \/ unsure \/ health = "degraded" \/ registered = cache.keys

\* When an update that synchronised the login registration ends, well or not,
\* the registration is what the settings now in use ask for, and Windows does not
\* disable it, unless another program changed the value after the synchronisation
\* last read or wrote it (or StartupApproved could not be read).
LoginFollowsSettings ==
    update.phase \in {"done", "failed"} /\ sync.result = "ok" =>
        /\ theirs.run = "ours" => Registered(cache.launch)
        /\ cache.launch /\ sync.approvalRead /\ theirs.approval = "ours"
             => approval # "disabled"

\* When no update and no retry is at work, the bindings on record are those of
\* the settings, or the health says that they are not: only a retry that
\* overlapped an update can break this.
HotkeysFollowSettings ==
    /\ app = "running" /\ update.phase = "idle" /\ retry.phase = "idle"
    /\ ~raced /\ ~unsure
    /\ health = "ready"
    => registered = cache.keys

\* Whenever no call is replacing the bindings and the hook has read its
\* messages, the shortcuts that reach an action are exactly those on record:
\* none is left over from bindings that were replaced or rolled back.
NoStrayBindings ==
    apply.by = Nobody /\ hook.mail = 0 =>
        \A a \in Action: Active(a) = {registered[a]} \ {NoKey}

\* A synchronisation that fails and does not say that the registry may be
\* inconsistent has undone its work: each value it wrote was the one it wrote when
\* the rollback looked, and is again the one it read at first; only another
\* program can have changed it, after that look.  (A change between the look and
\* the write that follows it is overwritten, and nobody is told.)
FailedSyncIsUndone ==
    sync.phase = "idle" /\ sync.result = "failed" =>
        /\ sync.wroteRun =>
             theirs.run # "seen" /\ (runKey = sync.runBefore \/ theirs.run = "changed")
        /\ sync.wroteApproval =>
             /\ theirs.approval # "seen"
             /\ approval = sync.approvalBefore \/ theirs.approval = "changed"

=============================================================================
