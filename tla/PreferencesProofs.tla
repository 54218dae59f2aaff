--------------------------- MODULE PreferencesProofs ---------------------------
(***************************************************************************)
(* Proofs about Preferences, for any shortcuts, patches and old files, any *)
(* number of updates, retries and stops, and whatever other programs do:   *)
(*                                                                         *)
(*   PreferencesTypeCorrect  Spec => []TypeOK                              *)
(*   StoreCorrect            Spec => []StoreMatchesCache                   *)
(*   SettingsCorrect         Spec => SettingsAreValid                      *)
(*   NoTraceCorrect          Spec => []FailedUpdateLeavesNoTrace           *)
(*   HotkeysCorrect          Spec => []HotkeysFollowSettings               *)
(*   LoginCorrect            Spec => []LoginFollowsSettings                *)
(*   BindingsCorrect         Spec => []NoStrayBindings                     *)
(*   UndoneCorrect           Spec => []FailedSyncIsUndone                  *)
(*                                                                         *)
(* No property is inductive.  The invariant says for each phase of an      *)
(* update what the store (StoreOK), the login registration (LoginOK) and   *)
(* the bindings on record (RecordOK) are then; for each phase of a         *)
(* synchronisation what it has read and written (SyncOK) and what its      *)
(* rollback has put back (UndoOK); that a call to replace the bindings     *)
(* belongs to who waits for it (CallsOK); and what the system and the hook *)
(* hold while bindings are replaced and when they are not (BindingsOK).    *)
(***************************************************************************)
EXTENDS Preferences, TLAPS

-----------------------------------------------------------------------------
(* The inductive invariant *)

CallIsSomeones == apply.by = Nobody <=> apply.phase = "idle"

TypeInv == TypeOK /\ CallIsSomeones

\* What the updater has read and computed, and where the settings are.
StoreOK ==
    /\ app # "stopped" => memory \in Settings /\ ValidKeys(cache.keys)
    /\ update.phase # "idle" => app = "running"
    /\ update.phase \notin {"idle", "rejected"} => ValidKeys(update.new.keys)
    /\ update.phase \notin {"idle", "done"} => update.before = cache
    /\ update.phase = "done" => update.new = cache
    /\ update.phase = "cache" => memory = update.new
    /\ app # "stopped" /\ update.phase \notin {"cache", "undoStore"} => memory = cache
    /\ retry.phase # "idle" => app = "running" /\ ValidKeys(retry.keys)

\* A synchronisation under way has no result yet, its phase says its direction, and
\* the Run value it read or verified is still there unless another program changed it.
SyncOK ==
    /\ sync.phase # "idle" => sync.result = "none"
    /\ sync.phase \in {"readApproval", "write", "approve", "verifyRun", "verifyApproval",
                       "lookRun", "putRun", "lookApproval", "putApproval"} => sync.enable
    /\ sync.phase \in {"delete", "verifyGone", "lookGone", "putGone"} => ~sync.enable
    /\ sync.phase = "readApproval" /\ theirs.run = "ours" => runKey = sync.runBefore
    /\ sync.phase = "verifyApproval" /\ theirs.run = "ours" =>
          runKey = Command(sync.runBefore)

\* A written value is as it was before, or changed by another program since, and the
\* rollback had found there what was written.
RunUndone ==
    sync.wroteRun =>
        theirs.run # "seen" /\ (runKey = sync.runBefore \/ theirs.run = "changed")
ApprovalUndone ==
    sync.wroteApproval =>
        /\ theirs.approval # "seen"
        /\ approval = sync.approvalBefore \/ theirs.approval = "changed"

\* What a synchronisation has written in each phase, and what is undone already.
UndoOK ==
    /\ sync.phase \in {"read", "readApproval", "write", "delete"} => ~sync.wroteRun
    /\ sync.phase \in {"read", "readApproval", "write", "approve", "delete",
                       "verifyGone", "lookGone", "putGone"} => ~sync.wroteApproval
    /\ sync.phase \in {"putRun", "putGone"} => theirs.run # "seen"
    /\ sync.phase \in {"lookApproval", "putApproval"} /\ ~sync.lost => RunUndone
    /\ sync.phase = "putApproval" => theirs.approval # "seen"
    /\ sync.phase = "idle" /\ sync.result = "failed" => RunUndone /\ ApprovalUndone

NoSyncYet == sync.phase = "idle" /\ sync.result = "none"

\* The registration is what a setting asks for, unless another program changed it.
AsAsked(launch) ==
    /\ theirs.run = "ours" => Registered(launch)
    /\ launch /\ sync.approvalRead /\ theirs.approval = "ours" => approval # "disabled"

\* A synchronisation for a setting is under way or over.
SyncFor(launch) ==
    /\ sync.phase # "idle" => sync.enable = launch
    /\ sync.result = "ok" => AsAsked(launch)

SyncedPhase == {"locked", "applying", "store", "cache", "undoStore", "undoHotkeys",
                "undoingHotkeys", "undoAutostart", "done"}

LoginOK ==
    /\ app \in {"stopped", "hotkeys"} \/ (app = "running" /\ update.phase \in {"idle", "rejected"})
         => NoSyncYet
    /\ update.phase = "autostart" => Changed(update) /\ SyncFor(update.new.launch)
    /\ update.phase \in SyncedPhase =>
          /\ sync.phase = "idle"
          /\ IF Changed(update) THEN sync.result = "ok" /\ SyncFor(update.new.launch)
                                ELSE sync.result = "none"
    /\ update.phase = "undoAutostart" => Changed(update)
    /\ update.phase = "undoingAutostart" => SyncFor(update.before.launch)
    /\ update.phase = "failed" => sync.phase = "idle" /\ SyncFor(update.before.launch)

\* Who waits for a call of apply_preferences, and what for.
Asked(c) == IF c = Updater THEN update.phase \in {"applying", "undoingHotkeys"}
                           ELSE app = "hotkeys" \/ retry.phase = "applying"

Wanted(c) == IF c = Updater
               THEN IF update.phase = "applying" THEN update.new.keys ELSE update.before.keys
               ELSE IF app = "hotkeys" THEN cache.keys ELSE retry.keys

CallsOK ==
    \A c \in Applier:
        /\ apply.by = c => Asked(c) /\ applied[c] = "none" /\ apply.desired = Wanted(c)
        /\ Asked(c) => apply.by = c \/ applied[c] # "none"
        /\ applied[c] # "none" => Asked(c)

\* The bindings on record are b, or the health says that they may not be.
OnRecord(b) == health = "degraded" \/ registered = b

RaceOK ==
    ~raced => /\ update.phase = "idle" \/ retry.phase = "idle"
              /\ retry.phase # "idle" => retry.keys = cache.keys

\* What is on record in each phase, when no retry interferes.
RecordOK ==
    ~raced /\ ~unsure =>
      /\ app = "hotkeys" /\ applied[Retrier] # "none" => OnRecord(cache.keys)
      /\ app \in {"registration", "running"}
           /\ update.phase \in {"idle", "rejected", "autostart", "locked"}
         => OnRecord(cache.keys)
      /\ update.phase = "applying" =>
            /\ applied[Updater] = "ok" => registered = update.new.keys
            /\ applied[Updater] = "failed" => health = "degraded"
      /\ update.phase \in {"store", "cache", "done"} => registered = update.new.keys
      /\ update.phase = "undoingHotkeys" /\ applied[Updater] = "ok" =>
            registered = update.before.keys
      /\ update.phase \in {"undoAutostart", "undoingAutostart", "failed"}
           /\ ~update.unknown => OnRecord(update.before.keys)

Distinct(b) == \A a, d \in Action: a # d /\ b[a] # NoKey => b[a] # b[d]

\* The bindings the hook has or is about to have.
Told == IF hook.pending # Nothing THEN hook.pending ELSE hook.config

\* The bindings in force: none while they are being replaced.
InForce == IF apply.by = Nobody THEN registered ELSE None

BindingsOK ==
    /\ Distinct(registered) /\ Distinct(apply.desired) /\ Distinct(apply.previous)
    /\ hook.pending # Nothing => hook.alive /\ hook.mail > 0
    /\ ~hook.alive => hook.config = None
    /\ Told = HookOf(InForce)
    /\ \A s \in Basic, a \in Action: system[s] = a <=> InForce[a] = s

IInv == /\ TypeInv /\ StoreOK /\ SyncOK /\ LoginOK /\ UndoOK
        /\ CallsOK /\ RaceOK /\ RecordOK /\ BindingsOK

-----------------------------------------------------------------------------
(* Bindings *)

USE DEF vars, storeVars, updateVars, otherVars, autostartVars, hotkeyVars

\* The bindings that are not there yet, and what is registered at the hook of given
\* ones (HotkeyService::new, build_hook_bindings).
LEMMA NoneIsEmpty ==
    /\ None \in Bindings
    /\ \A a \in Action: None[a] = NoKey
    /\ BasicOf(None) = {}
    /\ HookOf(None) = None
    /\ Distinct(None)
    /\ Nothing \notin Bindings
    /\ Nothing # None
<1>1. None \in Bindings /\ \A a \in Action: None[a] = NoKey
  BY DEF None, Bindings
<1>2. BasicOf(None) = {}
  BY <1>1, HotkeyAssumption DEF BasicOf
<1>3. HookOf(None) = None
  BY <1>1, HotkeyAssumption DEF HookOf, None
<1>4. DOMAIN Nothing = {} /\ "shot" \in Action
  BY DEF Nothing, Action
<1>5. \A b \in Bindings: DOMAIN b = Action
  BY DEF Bindings
<1>6. Nothing \notin Bindings
  BY <1>4, <1>5
<1> QED
  BY <1>1, <1>2, <1>3, <1>6 DEF Distinct

\* The hook gets bindings too, distinct ones when they were (build_hook_bindings).
LEMMA HookOfBindings ==
    ASSUME NEW b \in Bindings
    PROVE  HookOf(b) \in Bindings
BY DEF Bindings, HookOf, Shortcut

\* A new installation starts with bindings that are accepted (default_preferences).
LEMMA DefaultsAreValid == DefaultKeys \in Bindings /\ ValidKeys(DefaultKeys)
<1>1. DefaultShot \in Shortcut /\ DefaultShot \notin ModifierOnly /\ DefaultShot # NoKey
  BY HotkeyAssumption, PreferencesAssumption DEF Shortcut
<1>2. DefaultKeys \in Bindings
  BY <1>1 DEF DefaultKeys, Bindings
<1>3. \A a \in Action: DefaultKeys[a] = (IF a = "shot" THEN DefaultShot ELSE NoKey)
  BY DEF DefaultKeys
<1> QED
  BY <1>1, <1>2, <1>3 DEF ValidKeys, Allowed, Action

\* A shortcut on its own is one that is allowed, or none, which the screenshot never
\* gets; and it is the one of the file when that is allowed or none
\* (sanitize_required_hotkey_shortcut, sanitize_optional_hotkey_shortcut).
LEMMA CandidateFits ==
    ASSUME NEW b, NEW a \in Action
    PROVE  /\ \/ Allowed(a, Candidate(b, a)) /\ Candidate(b, a) # NoKey
              \/ Candidate(b, a) = NoKey /\ a # "shot"
           /\ Allowed(a, b[a]) \/ (b[a] = NoKey /\ a # "shot") => Candidate(b, a) = b[a]
<1>1. NoKey \notin Shortcut
  BY HotkeyAssumption DEF Shortcut
<1>2. Allowed("shot", DefaultShot)
  BY PreferencesAssumption DEF Allowed
<1>3. ASSUME a \in Slot PROVE Allowed(a, DefaultPaste[a])
  BY <1>3, PreferencesAssumption DEF Allowed
<1> QED
  BY <1>1, <1>2, <1>3 DEF Candidate, Allowed

\* The bindings of which each takes the candidate of its action, or none when one
\* before it has the same, are accepted, and only what is not allowed and what
\* another action has is lost (sanitize_hotkey_preferences).
LEMMA SanitizedFits ==
    ASSUME NEW b
    PROVE  /\ Sanitized(b) \in Bindings /\ ValidKeys(Sanitized(b))
           /\ \A a \in Action:
                \/ Sanitized(b)[a] = b[a]
                \/ ~Allowed(a, b[a]) /\ (a = "shot" \/ b[a] # NoKey)
                \/ \E d \in Action \ {a}: Sanitized(b)[d] = b[a] /\ Sanitized(b)[d] # NoKey
<1> DEFINE c(a) == Candidate(b, a)
           shot == c("shot")
           toggle == Unless(c("toggle"), {shot})
           hold == Unless(c("hold"), {shot, toggle})
           paste1 == Unless(c("paste1"), {shot, toggle, hold})
           paste2 == Unless(c("paste2"), {shot, toggle, hold, paste1})
           r == Sanitized(b)
<1>1. /\ r = [a \in Action |-> CASE a = "shot" -> shot [] a = "toggle" -> toggle
                                 [] a = "hold" -> hold [] a = "paste1" -> paste1
                                 [] a = "paste2" -> paste2]
      /\ r["shot"] = shot /\ r["toggle"] = toggle /\ r["hold"] = hold
      /\ r["paste1"] = paste1 /\ r["paste2"] = paste2
  BY DEF Sanitized, Action, Slot
<1>2. NoKey \notin Shortcut
  BY HotkeyAssumption DEF Shortcut
<1>3. \A a \in Action:
         /\ \/ Allowed(a, c(a)) /\ c(a) # NoKey
            \/ c(a) = NoKey /\ a # "shot"
         /\ Allowed(a, b[a]) \/ (b[a] = NoKey /\ a # "shot") => c(a) = b[a]
  BY CandidateFits
<1>4. Action = {"shot", "toggle", "hold", "paste1", "paste2"}
  BY DEF Action, Slot
<1>5. /\ toggle = (IF c("toggle") = shot THEN NoKey ELSE c("toggle"))
      /\ hold = (IF c("hold") = shot \/ c("hold") = toggle THEN NoKey ELSE c("hold"))
      /\ paste1 = (IF c("paste1") = shot \/ c("paste1") = toggle \/ c("paste1") = hold
                     THEN NoKey ELSE c("paste1"))
      /\ paste2 = (IF c("paste2") = shot \/ c("paste2") = toggle \/ c("paste2") = hold
                        \/ c("paste2") = paste1
                     THEN NoKey ELSE c("paste2"))
  BY DEF Unless
<1> HIDE DEF c, toggle, hold, paste1, paste2, r
<1>6. \A a \in Action: r[a] = NoKey \/ (Allowed(a, r[a]) /\ r[a] \in Shortcut)
  BY <1>1, <1>3, <1>4, <1>5 DEF Allowed
<1>7. r["shot"] # NoKey
  BY <1>1, <1>3, <1>4
<1>8. \A a, d \in Action: a # d /\ r[a] # NoKey => r[a] # r[d]
  BY <1>1, <1>4, <1>5
<1>9. r \in Bindings
  BY <1>1, <1>6 DEF Bindings
<1>10. ASSUME NEW a \in Action
       PROVE  \/ r[a] = b[a]
              \/ ~Allowed(a, b[a]) /\ (a = "shot" \/ b[a] # NoKey)
              \/ \E d \in Action \ {a}: r[d] = b[a] /\ r[d] # NoKey
  <2> SUFFICES ASSUME c(a) = b[a], r[a] # c(a)
               PROVE  \E d \in Action \ {a}: r[d] = c(a) /\ r[d] # NoKey
    BY <1>3
  <2>1. a # "shot" /\ c(a) # NoKey
    BY <1>1, <1>4, <1>5
  <2>2. \E d \in Action \ {a}: r[d] = c(a)
    BY <1>1, <1>4, <1>5, <2>1
  <2> QED
    BY <2>1, <2>2
<1> QED
  BY <1>6, <1>7, <1>8, <1>9, <1>10 DEF ValidKeys, r

\* Whatever a file holds, what is made of it is accepted without the last resort, and
\* what it says is kept where that is possible (migrate_legacy_preferences,
\* sanitize_hotkey_preferences).
LEMMA RepairedIsValid ==
    ASSUME NEW b
    PROVE  /\ RepairedKeys(b) \in Bindings /\ ValidKeys(RepairedKeys(b))
           /\ Kept(RepairedKeys(b), b)
<1> DEFINE m == Migrated(b)
<1>1. \A a \in Action: m[a] = b[a] \/ (a = "shot" /\ b[a] \in Legacy)
  BY DEF Migrated
<1> HIDE DEF m
<1>2. /\ Sanitized(m) \in Bindings /\ ValidKeys(Sanitized(m))
      /\ \A a \in Action:
            \/ Sanitized(m)[a] = m[a]
            \/ ~Allowed(a, m[a]) /\ (a = "shot" \/ m[a] # NoKey)
            \/ \E d \in Action \ {a}: Sanitized(m)[d] = m[a] /\ Sanitized(m)[d] # NoKey
  BY SanitizedFits
<1>3. RepairedKeys(b) = Sanitized(m)
  BY <1>2 DEF RepairedKeys, m
<1> QED
  BY <1>1, <1>2, <1>3 DEF Kept

\* Bindings that are accepted are distinct (validate_hotkey_preferences).
LEMMA ValidIsDistinct ==
    ASSUME NEW b, ValidKeys(b)
    PROVE  Distinct(b)
BY DEF ValidKeys, Distinct

\* A patch makes settings of settings (apply_preferences_patch).
LEMMA PatchedType ==
    ASSUME NEW p \in Settings, NEW patch \in Patches
    PROVE  Patched(p, patch) \in Settings
BY PreferencesAssumption DEF Settings, Patched

\* What a start makes of the file (initialize).
LEMMA LoadedType ==
    ASSUME TypeOK
    PROVE  LET loaded == IF file = Unset THEN Defaults ELSE Repaired(file)
           IN loaded \in Settings /\ ValidKeys(loaded.keys)
<1>1. Defaults \in Settings /\ ValidKeys(Defaults.keys)
  BY DefaultsAreValid DEF Defaults, Settings
<1>2. ASSUME file # Unset PROVE Repaired(file) \in Settings /\ ValidKeys(Repaired(file).keys)
  BY <1>2, RepairedIsValid DEF Repaired, TypeOK, Settings
<1> QED
  BY <1>1, <1>2

-----------------------------------------------------------------------------
(* Types *)

\* Every synchronisation has its types, also one that gives up (windows_autostart).
LEMMA NoSyncType == NoSync \in Sync
BY DEF NoSync, Sync, SyncPhase, SyncResult, RunValue, Approval

LEMMA RollbackTypes ==
    ASSUME NEW s \in Sync
    PROVE  /\ Lost(s) \in Sync /\ EndRollback(s) \in Sync
           /\ RollbackApproval(s) \in Sync /\ Rollback(s) \in Sync
<1>1. Lost(s) \in Sync
  BY DEF Lost, Sync
<1>2. EndRollback(s) \in Sync
  BY DEF EndRollback, Sync, SyncPhase, SyncResult
<1>3. RollbackApproval(s) \in Sync
  BY <1>2 DEF RollbackApproval, Sync, SyncPhase
<1> QED
  BY <1>1, <1>2, <1>3 DEF Rollback, Sync, SyncPhase

\* Who changed a value last is recorded for that value (history).
LEMMA OriginTypes ==
    ASSUME theirs \in [run: Origin, approval: Origin]
    PROVE  /\ Ours \in [run: Origin, approval: Origin]
           /\ Known("run") \/ Known("approval") => theirs' \in [run: Origin, approval: Origin]
           /\ PutBack("run") \/ PutBack("approval") =>
                theirs' \in [run: Origin, approval: Origin]
           /\ \A same: Found("run", same) \/ Found("approval", same) =>
                theirs' \in [run: Origin, approval: Origin]
BY DEF Ours, Origin, Known, Found, PutBack

\* Every synchronisation step keeps the types (windows_autostart).
LEMMA SyncTypes == AutostartTypeOK /\ (SyncStep \/ OutsideStep) => AutostartTypeOK'
<1> SUFFICES ASSUME AutostartTypeOK, SyncStep \/ OutsideStep PROVE AutostartTypeOK'
  OBVIOUS
<1> USE AutostartAssumption DEF AutostartTypeOK, Fault
<1>1. /\ \A phase \in SyncPhase: [sync EXCEPT !.phase = phase] \in Sync
      /\ \A result \in SyncResult: [sync EXCEPT !.phase = "idle", !.result = result] \in Sync
  BY DEF Sync, SyncPhase
<1>2. Lost(sync) \in Sync
  BY RollbackTypes
<1>3. /\ \A x: Command(x) \in RunValue
      /\ sync.runBefore \in RunValue /\ sync.approvalBefore \in Approval
  BY DEF Command, RunValue, Sync
<1>4. CASE OutsideStep
  BY <1>4 DEF OutsideStep, RunValue, Approval, Origin
<1>5. CASE ReadFails
  BY <1>1, <1>5 DEF ReadFails, Finish, SyncResult
<1>6. CASE ReadEnabled
  <2>1. [sync EXCEPT !.phase = "readApproval", !.runBefore = runKey] \in Sync
    BY DEF Sync, SyncPhase
  <2> QED
    BY <1>6, <2>1, OriginTypes DEF ReadEnabled, registryVars
<1>7. CASE ReadApproval
  <2>1. PICK readable \in BOOLEAN:
          LET seen == IF readable THEN approval ELSE "absent"
              read == [sync EXCEPT !.approvalBefore = seen, !.approvalRead = readable]
          IN \/ sync' = [read EXCEPT !.phase = "idle", !.result = "ok"]
             \/ \E phase \in {"approve", "write"}: sync' = [read EXCEPT !.phase = phase]
    BY <1>7 DEF ReadApproval
  <2>2. \A seen \in Approval:
          [sync EXCEPT !.approvalBefore = seen, !.approvalRead = readable] \in Sync
    BY DEF Sync
  <2>3. \A s \in Sync: /\ [s EXCEPT !.phase = "idle", !.result = "ok"] \in Sync
                       /\ [s EXCEPT !.phase = "approve"] \in Sync
                       /\ [s EXCEPT !.phase = "write"] \in Sync
    BY DEF Sync, SyncPhase, SyncResult
  <2> DEFINE read == [sync EXCEPT !.approvalBefore = IF readable THEN approval ELSE "absent",
                                  !.approvalRead = readable]
  <2>4. read \in Sync
    BY <2>2 DEF Approval
  <2>5. \/ sync' = [read EXCEPT !.phase = "idle", !.result = "ok"]
        \/ sync' = [read EXCEPT !.phase = "approve"]
        \/ sync' = [read EXCEPT !.phase = "write"]
    BY <2>1
  <2> HIDE DEF read
  <2>6. sync' \in Sync
    BY <2>3, <2>4, <2>5
  <2> QED
    BY <1>7, <2>6, OriginTypes DEF ReadApproval
<1>8. CASE ReadDisabled
  <2>1. [sync EXCEPT !.phase = "delete", !.runBefore = runKey] \in Sync
    BY DEF Sync, SyncPhase
  <2> QED
    BY <1>1, <1>8, <2>1, OriginTypes DEF ReadDisabled, Finish, SyncResult, registryVars
<1>9. CASE WriteRun \/ WriteApproval \/ DeleteRun
  <2>1. \A phase \in SyncPhase:
          /\ [sync EXCEPT !.phase = phase, !.wroteRun = TRUE] \in Sync
          /\ [sync EXCEPT !.phase = phase, !.wroteApproval = TRUE] \in Sync
    BY DEF Sync
  <2>2. sync' \in Sync
    BY <1>1, <1>9, <2>1, RollbackTypes
       DEF WriteRun, WriteApproval, DeleteRun, AfterRunWrite, Finish, SyncPhase, SyncResult
  <2>3. runKey' \in RunValue /\ approval' \in Approval
    BY <1>3, <1>9 DEF WriteRun, WriteApproval, DeleteRun, RunValue, Approval
  <2> QED
    BY <1>9, <2>2, <2>3, OriginTypes DEF WriteRun, WriteApproval, DeleteRun
<1>10. CASE VerifyRun \/ VerifyApproval \/ VerifyDisabled
  <2>1. sync' \in Sync
    BY <1>1, <1>10, RollbackTypes
       DEF VerifyRun, VerifyApproval, VerifyDisabled, Goto, Finish, SyncPhase, SyncResult
  <2> QED
    BY <1>10, <2>1, OriginTypes DEF VerifyRun, VerifyApproval, VerifyDisabled
<1>11. CASE LookAtRun \/ LookAtApproval \/ LookIfGone
  <2>1. sync' \in Sync
    BY <1>1, <1>2, <1>11, RollbackTypes
       DEF LookAtRun, LookAtApproval, LookIfGone, Goto, Finish, SyncPhase, SyncResult
  <2> QED
    BY <1>11, <2>1, OriginTypes DEF LookAtRun, LookAtApproval, LookIfGone
<1>12. CASE PutRun \/ PutApproval \/ PutGone
  <2>1. sync' \in Sync
    BY <1>1, <1>2, <1>12, RollbackTypes DEF PutRun, PutApproval, PutGone, Finish, SyncResult
  <2> QED
    BY <1>3, <1>12, <2>1, OriginTypes DEF PutRun, PutApproval, PutGone
<1> QED
  BY <1>4, <1>5, <1>6, <1>7, <1>8, <1>9, <1>10, <1>11, <1>12 DEF SyncStep

\* What registering bindings makes of the system's table and of the hook
\* (register_bindings).
LEMMA RegisterTypes ==
    ASSUME HotkeyTypeOK, NEW b \in Bindings
    PROVE  /\ Table(b) \in [Basic -> Action \cup {"free", "other"}]
           /\ Hook(b) \in [alive: BOOLEAN, mail: Nat, pending: Bindings \cup {Nothing},
                           config: Bindings]
           /\ Cleared(hook) \in [alive: BOOLEAN, mail: Nat,
                                 pending: Bindings \cup {Nothing}, config: Bindings]
<1>1. Table(b) \in [Basic -> Action \cup {"free", "other"}]
  <2>1. \A s \in BasicOf(b): (CHOOSE a \in Action: b[a] = s) \in Action
    BY DEF BasicOf
  <2>2. WithoutOurs(system) \in [Basic -> Action \cup {"free", "other"}]
    BY DEF WithoutOurs
  <2> QED
    BY <2>1, <2>2 DEF Table
<1>2. \A c \in Bindings: Post(hook, c) \in
        [alive: BOOLEAN, mail: Nat, pending: Bindings \cup {Nothing}, config: Bindings]
  <2>1. hook.mail + 1 \in Nat
    BY DEF HotkeyTypeOK
  <2> QED
    BY <2>1 DEF Post, HotkeyTypeOK
<1> QED
  BY <1>1, <1>2, HookOfBindings, NoneIsEmpty DEF Hook, Cleared, HotkeyTypeOK

\* A call of apply_preferences keeps the types (HotkeyService).
LEMMA ApplyTypes ==
    ASSUME HotkeyTypeOK, NEW c \in Applier, NEW b \in Bindings, Apply(c, b)
    PROVE  HotkeyTypeOK'
<1> USE DEF HotkeyTypeOK
<1>1. NoApply \in [by: Applier \cup {Nobody}, phase: {"idle", "register", "rollback"},
                  desired: Bindings, previous: Bindings]
  BY NoneIsEmpty DEF NoApply
<1>2. CASE ApplySame(c, b)
  BY <1>1, <1>2 DEF ApplySame, Return
<1>3. CASE ApplyBegin(c, b)
  <2>1. Without(system, registered) \in [Basic -> Action \cup {"free", "other"}]
    BY DEF Without
  <2> QED
    BY <1>3, <2>1, RegisterTypes DEF ApplyBegin
<1> QED
  BY <1>2, <1>3 DEF Apply

\* So do its steps, the hook and other programs (apply_pending_config).
LEMMA HotkeyTypes ==
    ASSUME HotkeyTypeOK, apply.phase # "idle" => apply.by \in Applier,
           ApplyRegister \/ ApplyRollback \/ HookReads \/ OtherProgram
    PROVE  HotkeyTypeOK'
<1> USE DEF HotkeyTypeOK
<1>1. NoApply \in [by: Applier \cup {Nobody}, phase: {"idle", "register", "rollback"},
                  desired: Bindings, previous: Bindings]
  BY NoneIsEmpty DEF NoApply
<1>2. CASE ApplyRegister
  <2>1. apply.desired \in Bindings
    OBVIOUS
  <2>2. [apply EXCEPT !.phase = "rollback"] \in
          [by: Applier \cup {Nobody}, phase: {"idle", "register", "rollback"},
           desired: Bindings, previous: Bindings]
    OBVIOUS
  <2> QED
    BY <1>1, <1>2, <2>1, <2>2, RegisterTypes DEF ApplyRegister, Return
<1>3. CASE ApplyRollback
  <2>1. apply.previous \in Bindings
    OBVIOUS
  <2> QED
    BY <1>1, <1>3, <2>1, RegisterTypes, NoneIsEmpty DEF ApplyRollback, Return
<1>4. CASE HookReads
  <2>1. hook.mail - 1 \in Nat
    <3>1. hook.mail \in Nat /\ hook.mail > 0
      BY <1>4 DEF HookReads
    <3> QED
      BY <3>1
  <2> DEFINE m == hook.mail - 1
  <2> HIDE DEF m
  <2>2. /\ [hook EXCEPT !.mail = m] \in
              [alive: BOOLEAN, mail: Nat, pending: Bindings \cup {Nothing}, config: Bindings]
        /\ hook.pending \in Bindings =>
              [hook EXCEPT !.mail = m, !.config = hook.pending, !.pending = Nothing] \in
                [alive: BOOLEAN, mail: Nat, pending: Bindings \cup {Nothing},
                 config: Bindings]
    BY <2>1 DEF m
  <2> QED
    BY <1>4, <2>2 DEF HookReads, m
<1>5. CASE OtherProgram
  BY <1>5, HotkeyAssumption DEF OtherProgram
<1> QED
  BY <1>2, <1>3, <1>4, <1>5

\* There is no call without a caller (apply_preferences).
LEMMA CallKept ==
    ASSUME HotkeyTypeOK, NEW c \in Applier, NEW b, Apply(c, b)
    PROVE  CallIsSomeones => CallIsSomeones'
BY PreferencesAssumption
   DEF CallIsSomeones, Apply, ApplySame, ApplyBegin, Return, NoApply

\* The phases an update goes through (UpdatePhase).
LEMMA UpdateTypes ==
    ASSUME update \in [phase: UpdatePhase, before: Settings, new: Settings, unknown: BOOLEAN],
           NEW phase \in UpdatePhase, Go(phase) \/ GoUnsure(phase)
    PROVE  update' \in [phase: UpdatePhase, before: Settings, new: Settings, unknown: BOOLEAN]
BY DEF Go, GoUnsure

\* A synchronisation that starts has its types, and so has one whose result is taken
\* (synchronize_registration).
LEMMA StartSyncTypes ==
    ASSUME AutostartTypeOK,
           EndSync \/ \E launch \in BOOLEAN: StartSync(launch)
    PROVE  sync' \in Sync /\ theirs' \in [run: Origin, approval: Origin]
<1>1. \A l \in BOOLEAN: [NoSync EXCEPT !.phase = "read", !.enable = l] \in Sync
  BY NoSyncType DEF Sync, SyncPhase
<1>2. Ours \in [run: Origin, approval: Origin]
  BY OriginTypes DEF AutostartTypeOK
<1> QED
  BY <1>1, <1>2, NoSyncType DEF StartSync, EndSync

\* The answer of a call is taken (apply_preferences).
LEMMA CollectTypes ==
    ASSUME HotkeyTypeOK, NEW c, NEW result, Collect(c, result)
    PROVE  HotkeyTypeOK' /\ UNCHANGED apply
BY DEF HotkeyTypeOK, Collect

LEMMA DefaultTypes ==
    /\ Defaults \in Settings
    /\ NoUpdate \in [phase: UpdatePhase, before: Settings, new: Settings, unknown: BOOLEAN]
    /\ NoRetry \in [phase: {"idle", "read", "applying"}, keys: Bindings]
<1>1. Defaults \in Settings
  BY DefaultsAreValid DEF Defaults, Settings
<1>2. "idle" \in UpdatePhase
  BY DEF UpdatePhase
<1> QED
  BY <1>1, <1>2, NoneIsEmpty DEF NoUpdate, NoRetry

\* The application starts and stops (initialize).
LEMMA StartTypes ==
    TypeInv /\ (Start \/ StartRegistration \/ Running \/ Stop \/ Autosave) => TypeInv'
<1> SUFFICES ASSUME TypeInv, Start \/ StartRegistration \/ Running \/ Stop \/ Autosave
             PROVE  TypeInv'
  OBVIOUS
<1> USE DEF TypeInv
<1>1. CASE Start
  <2> DEFINE loaded == IF file = Unset THEN Defaults ELSE Repaired(file)
  <2>1. loaded \in Settings
    BY LoadedType
  <2>2. /\ memory' = loaded /\ cache' = loaded /\ file' = loaded
        /\ Apply(Retrier, loaded.keys)
    BY <1>1 DEF Start
  <2> HIDE DEF loaded
  <2>3. loaded.keys \in Bindings /\ Retrier \in Applier
    BY <2>1, PreferencesAssumption DEF Settings
  <2>4. HotkeyTypeOK' /\ CallIsSomeones'
    BY <2>2, <2>3, ApplyTypes, CallKept DEF TypeOK
  <2>5. file' \in {Unset} \cup [launch: BOOLEAN, keys: Bindings \cup StoredKeys,
                               pinned: SUBSET Workspaces]
    BY <2>1, <2>2 DEF Settings
  <2> QED
    BY <1>1, <2>1, <2>2, <2>4, <2>5 DEF Start, TypeOK, AutostartTypeOK
<1>2. CASE StartRegistration
  <2>1. HotkeyTypeOK' /\ UNCHANGED apply
    BY <1>2, CollectTypes DEF StartRegistration, TypeOK
  <2>2. sync' \in Sync /\ theirs' \in [run: Origin, approval: Origin]
    BY <1>2, StartSyncTypes DEF StartRegistration, TypeOK, Settings
  <2> QED
    BY <1>2, <2>1, <2>2 DEF StartRegistration, registryVars, TypeOK, AutostartTypeOK, CallIsSomeones
<1>3. CASE Running
  BY <1>3, StartSyncTypes
     DEF Running, registryVars, TypeOK, AutostartTypeOK, HotkeyTypeOK, CallIsSomeones
<1>4. CASE Stop
  <2>1. HotkeyTypeOK' /\ CallIsSomeones'
    <3>1. WithoutOurs(system) \in [Basic -> Action \cup {"free", "other"}]
      BY DEF WithoutOurs, TypeOK, HotkeyTypeOK
    <3>2. [hook EXCEPT !.mail = 0, !.pending = Nothing, !.config = None] \in
            [alive: BOOLEAN, mail: Nat, pending: Bindings \cup {Nothing}, config: Bindings]
      BY NoneIsEmpty DEF TypeOK, HotkeyTypeOK
    <3> QED
      BY <1>4, <3>1, <3>2, NoneIsEmpty
         DEF Stop, TypeOK, HotkeyTypeOK, NoApply, CallIsSomeones
  <2>2. crashes' \in 0..MaxCrashes
    BY <1>4, PreferencesAssumption DEF Stop, TypeOK
  <2> QED
    BY <1>4, <2>1, <2>2, StartSyncTypes, DefaultTypes
       DEF Stop, registryVars, TypeOK, AutostartTypeOK
<1>5. CASE Autosave
  BY <1>5 DEF Autosave, TypeOK, Settings, AutostartTypeOK, HotkeyTypeOK, CallIsSomeones
<1> QED
  BY <1>1, <1>2, <1>3, <1>4, <1>5

\* An update does what it was asked for (update_preferences).
LEMMA DoTypes ==
    TypeInv /\ (Lock \/ BeginAutostart \/ EndAutostart \/ ApplyHotkeys \/ HotkeysApplied
                  \/ WriteStore \/ ReplaceCache) => TypeInv'
<1> SUFFICES ASSUME TypeInv,
                    Lock \/ BeginAutostart \/ EndAutostart \/ ApplyHotkeys \/ HotkeysApplied
                      \/ WriteStore \/ ReplaceCache
             PROVE  TypeInv'
  OBVIOUS
<1> USE DEF TypeInv
<1>1. CASE Lock
  <2>1. PICK patch \in Patches:
          LET new == Patched(cache, patch)
              u == [NoUpdate EXCEPT !.before = cache, !.new = new]
          IN \E phase \in UpdatePhase: update' = [u EXCEPT !.phase = phase]
    BY <1>1 DEF Lock, UpdatePhase
  <2>2. Patched(cache, patch) \in Settings /\ cache \in Settings
    BY PatchedType DEF TypeOK
  <2>3. update' \in [phase: UpdatePhase, before: Settings, new: Settings, unknown: BOOLEAN]
    BY <2>1, <2>2, DefaultTypes
  <2>4. updates' \in 0..MaxUpdates
    <3>1. updates \in 0..MaxUpdates /\ updates < MaxUpdates /\ updates' = updates + 1
      BY <1>1 DEF Lock, TypeOK
    <3> QED
      BY <3>1, PreferencesAssumption
  <2>5. AutostartTypeOK' /\ HotkeyTypeOK' /\ CallIsSomeones'
    BY <1>1 DEF Lock, TypeOK, AutostartTypeOK, HotkeyTypeOK, CallIsSomeones
  <2> QED
    BY <1>1, <2>3, <2>4, <2>5 DEF Lock, TypeOK
<1>2. CASE BeginAutostart
  <2>1. sync' \in Sync /\ theirs' \in [run: Origin, approval: Origin]
    BY <1>2, StartSyncTypes DEF BeginAutostart, TypeOK, Settings
  <2> QED
    BY <1>2, <2>1
       DEF BeginAutostart, registryVars, TypeOK, AutostartTypeOK, HotkeyTypeOK, CallIsSomeones
<1>3. CASE EndAutostart
  <2>1. \E phase \in UpdatePhase: Go(phase) \/ GoUnsure(phase)
    BY <1>3 DEF EndAutostart, UpdatePhase
  <2> QED
    BY <1>3, <2>1, UpdateTypes
       DEF EndAutostart, TypeOK, AutostartTypeOK, HotkeyTypeOK, CallIsSomeones
<1>4. CASE ApplyHotkeys
  <2>1. update.new.keys \in Bindings /\ Updater \in Applier
    BY PreferencesAssumption DEF TypeOK, Settings
  <2>2. HotkeyTypeOK' /\ CallIsSomeones'
    BY <1>4, <2>1, ApplyTypes, CallKept DEF ApplyHotkeys, TypeOK
  <2>3. \E phase \in UpdatePhase: Go(phase)
    BY <1>4 DEF ApplyHotkeys, UpdatePhase
  <2> QED
    BY <1>4, <2>2, <2>3, UpdateTypes DEF ApplyHotkeys, TypeOK, AutostartTypeOK
<1>5. CASE HotkeysApplied
  <2>1. HotkeyTypeOK' /\ UNCHANGED apply
    BY <1>5, CollectTypes DEF HotkeysApplied, TypeOK
  <2>2. \E phase \in UpdatePhase: Go(phase)
    BY <1>5 DEF HotkeysApplied, UpdatePhase
  <2> QED
    BY <1>5, <2>1, <2>2, UpdateTypes DEF HotkeysApplied, TypeOK, AutostartTypeOK, CallIsSomeones
<1>6. CASE WriteStore
  <2>1. \E phase \in UpdatePhase: Go(phase)
    BY <1>6 DEF WriteStore, UpdatePhase
  <2>2. update' \in [phase: UpdatePhase, before: Settings, new: Settings, unknown: BOOLEAN]
    BY <2>1, UpdateTypes DEF TypeOK
  <2>3. faults' \in 0..MaxFaults
    BY <1>6, AutostartAssumption DEF WriteStore, Fault, TypeOK, AutostartTypeOK
  <2>4. /\ file' \in {Unset} \cup [launch: BOOLEAN, keys: Bindings \cup StoredKeys,
                                  pinned: SUBSET Workspaces]
        /\ memory' \in {Unset} \cup Settings
    BY <1>6 DEF WriteStore, TypeOK, Settings
  <2> QED
    BY <1>6, <2>2, <2>3, <2>4
       DEF WriteStore, TypeOK, AutostartTypeOK, HotkeyTypeOK, CallIsSomeones
<1>7. CASE ReplaceCache
  <2>1. \E phase \in UpdatePhase: Go(phase)
    BY <1>7 DEF ReplaceCache, UpdatePhase
  <2>2. update' \in [phase: UpdatePhase, before: Settings, new: Settings, unknown: BOOLEAN]
    BY <2>1, UpdateTypes DEF TypeOK
  <2> QED
    BY <1>7, <2>2 DEF ReplaceCache, TypeOK, AutostartTypeOK, HotkeyTypeOK, CallIsSomeones
<1> QED
  BY <1>1, <1>2, <1>3, <1>4, <1>5, <1>6, <1>7

\* An update undoes what it did, and ends (rollback_preferences_update).
LEMMA UndoTypes ==
    TypeInv /\ (UndoStore \/ UndoHotkeys \/ HotkeysUndone \/ UndoAutostart
                  \/ AutostartUndone \/ Unlock) => TypeInv'
<1> SUFFICES ASSUME TypeInv,
                    UndoStore \/ UndoHotkeys \/ HotkeysUndone \/ UndoAutostart
                      \/ AutostartUndone \/ Unlock
             PROVE  TypeInv'
  OBVIOUS
<1> USE DEF TypeInv
<1>1. CASE UndoStore
  <2>1. \E phase \in UpdatePhase: Go(phase) \/ GoUnsure(phase)
    BY <1>1 DEF UndoStore, UpdatePhase
  <2>2. update' \in [phase: UpdatePhase, before: Settings, new: Settings, unknown: BOOLEAN]
    BY <2>1, UpdateTypes DEF TypeOK
  <2>3. faults' \in 0..MaxFaults
    BY <1>1, AutostartAssumption DEF UndoStore, Fault, TypeOK, AutostartTypeOK
  <2>4. /\ file' \in {Unset} \cup [launch: BOOLEAN, keys: Bindings \cup StoredKeys,
                                  pinned: SUBSET Workspaces]
        /\ memory' \in {Unset} \cup Settings
    BY <1>1 DEF UndoStore, TypeOK, Settings
  <2> QED
    BY <1>1, <2>2, <2>3, <2>4
       DEF UndoStore, TypeOK, AutostartTypeOK, HotkeyTypeOK, CallIsSomeones
<1>2. CASE UndoHotkeys
  <2>1. update.before.keys \in Bindings /\ Updater \in Applier
    BY PreferencesAssumption DEF TypeOK, Settings
  <2>2. HotkeyTypeOK' /\ CallIsSomeones'
    BY <1>2, <2>1, ApplyTypes, CallKept DEF UndoHotkeys, TypeOK
  <2>3. \E phase \in UpdatePhase: Go(phase)
    BY <1>2 DEF UndoHotkeys, UpdatePhase
  <2> QED
    BY <1>2, <2>2, <2>3, UpdateTypes DEF UndoHotkeys, TypeOK, AutostartTypeOK
<1>3. CASE HotkeysUndone
  <2>1. HotkeyTypeOK' /\ UNCHANGED apply
    BY <1>3, CollectTypes DEF HotkeysUndone, TypeOK
  <2>2. \E phase \in UpdatePhase: Go(phase) \/ GoUnsure(phase)
    BY <1>3 DEF HotkeysUndone, AfterHotkeys, UpdatePhase
  <2> QED
    BY <1>3, <2>1, <2>2, UpdateTypes DEF HotkeysUndone, TypeOK, AutostartTypeOK, CallIsSomeones
<1>4. CASE UndoAutostart
  <2>1. \E phase \in UpdatePhase: Go(phase)
    BY <1>4 DEF UndoAutostart, UpdatePhase
  <2>2. sync' \in Sync /\ theirs' \in [run: Origin, approval: Origin]
    BY <1>4, StartSyncTypes DEF UndoAutostart, TypeOK, Settings
  <2> QED
    BY <1>4, <2>1, <2>2, UpdateTypes
       DEF UndoAutostart, registryVars, TypeOK, AutostartTypeOK, HotkeyTypeOK, CallIsSomeones
<1>5. CASE AutostartUndone
  <2>1. \E phase \in UpdatePhase: Go(phase) \/ GoUnsure(phase)
    BY <1>5 DEF AutostartUndone, UpdatePhase
  <2> QED
    BY <1>5, <2>1, UpdateTypes
       DEF AutostartUndone, TypeOK, AutostartTypeOK, HotkeyTypeOK, CallIsSomeones
<1>6. CASE Unlock
  BY <1>6, StartSyncTypes, DefaultTypes
     DEF Unlock, registryVars, TypeOK, AutostartTypeOK, HotkeyTypeOK, CallIsSomeones
<1> QED
  BY <1>1, <1>2, <1>3, <1>4, <1>5, <1>6

\* A retry and what goes on outside (retry_hotkey_registration).
LEMMA BesideTypes ==
    TypeInv /\ (RetryRead \/ RetryApply \/ RetryEnd \/ Environment) => TypeInv'
<1> SUFFICES ASSUME TypeInv, RetryRead \/ RetryApply \/ RetryEnd \/ Environment
             PROVE  TypeInv'
  OBVIOUS
<1> USE DEF TypeInv
<1>1. CASE RetryRead
  BY <1>1 DEF RetryRead, TypeOK, Settings, AutostartTypeOK, HotkeyTypeOK, CallIsSomeones
<1>2. CASE RetryApply
  <2>1. retry.keys \in Bindings /\ Retrier \in Applier
    BY PreferencesAssumption DEF TypeOK
  <2>2. HotkeyTypeOK' /\ CallIsSomeones'
    BY <1>2, <2>1, ApplyTypes, CallKept DEF RetryApply, TypeOK
  <2> QED
    BY <1>2, <2>2 DEF RetryApply, TypeOK, AutostartTypeOK
<1>3. CASE RetryEnd
  <2>1. HotkeyTypeOK' /\ UNCHANGED apply
    BY <1>3, CollectTypes DEF RetryEnd, TypeOK
  <2> QED
    BY <1>3, <2>1, DefaultTypes DEF RetryEnd, TypeOK, AutostartTypeOK, CallIsSomeones
<1>4. CASE Environment
  <2>1. CASE (OutsideStep \/ SyncStep)
             /\ UNCHANGED <<hotkeyVars, storeVars, updateVars, otherVars>>
    BY <2>1, SyncTypes DEF TypeOK, HotkeyTypeOK, CallIsSomeones
  <2>2. CASE (OtherProgram \/ HookReads \/ ApplyRegister \/ ApplyRollback)
             /\ UNCHANGED <<autostartVars, storeVars, updateVars, otherVars>>
    <3>1. apply.phase # "idle" => apply.by \in Applier
      BY DEF TypeOK, HotkeyTypeOK, CallIsSomeones
    <3>2. HotkeyTypeOK'
      BY <2>2, <3>1, HotkeyTypes DEF TypeOK
    <3>3. CallIsSomeones'
      BY <2>2, <3>1, PreferencesAssumption
         DEF CallIsSomeones, OtherProgram, HookReads, ApplyRegister, ApplyRollback, Return,
             NoApply, TypeOK, HotkeyTypeOK
    <3> QED
      BY <2>2, <3>2, <3>3 DEF TypeOK, AutostartTypeOK
  <2> QED
    BY <1>4, <2>1, <2>2 DEF Environment
<1> QED
  BY <1>1, <1>2, <1>3, <1>4

LEMMA TypeInit == Init => TypeInv
<1> SUFFICES ASSUME Init PROVE TypeInv
  OBVIOUS
<1>1. AutostartTypeOK
  BY AutostartAssumption, NoSyncType
     DEF Init, AutostartInit, AutostartTypeOK, RunValue, Approval, Ours, Origin
<1>2. HotkeyTypeOK /\ CallIsSomeones
  BY HotkeyAssumption, NoneIsEmpty
     DEF Init, HotkeyInit, HotkeyTypeOK, NoApply, CallIsSomeones
<1>3. file \in {Unset} \cup [launch: BOOLEAN, keys: Bindings \cup StoredKeys,
                            pinned: SUBSET Workspaces]
  BY DefaultTypes DEF Init, Settings
<1>4. updates \in 0..MaxUpdates /\ crashes \in 0..MaxCrashes
  BY PreferencesAssumption DEF Init
<1>5. /\ memory \in {Unset} \cup Settings /\ cache \in Settings
      /\ update \in [phase: UpdatePhase, before: Settings, new: Settings, unknown: BOOLEAN]
      /\ retry \in [phase: {"idle", "read", "applying"}, keys: Bindings]
      /\ app \in {"stopped", "hotkeys", "registration", "running"}
      /\ raced \in BOOLEAN /\ unsure \in BOOLEAN
  BY DefaultTypes DEF Init
<1> QED
  BY <1>1, <1>2, <1>3, <1>4, <1>5 DEF TypeOK, TypeInv

LEMMA TypeStep == TypeInv /\ [Next]_vars => TypeInv'
<1>1. TypeInv /\ UNCHANGED vars => TypeInv'
  BY DEF TypeInv, TypeOK, AutostartTypeOK, HotkeyTypeOK, CallIsSomeones
<1> QED
  BY <1>1, StartTypes, DoTypes, UndoTypes, BesideTypes DEF Next

\* The variables of the settings, the registration and the hotkeys keep their types,
\* for any patches and old files (PreferencesService).
THEOREM PreferencesTypeCorrect == Spec => []TypeOK
<1>1. TypeInv => TypeOK
  BY DEF TypeInv
<1> QED
  BY <1>1, TypeInit, TypeStep, PTL DEF Spec

-----------------------------------------------------------------------------
(* Steps of an update *)

\* Going on keeps what the update has read (update_preferences).
LEMMA GoEffect ==
    ASSUME TypeInv
    PROVE  /\ \A phase: Go(phase) => /\ update'.phase = phase
                                     /\ update'.before = update.before
                                     /\ update'.new = update.new
                                     /\ update'.unknown = update.unknown
           /\ \A phase: GoUnsure(phase) => /\ update'.phase = phase
                                           /\ update'.before = update.before
                                           /\ update'.new = update.new
                                           /\ update'.unknown = TRUE
BY DEF Go, GoUnsure, TypeInv, TypeOK

\* An update begins with the settings in use, once it has the lock
\* (update_preferences).
LEMMA LockEffect ==
    ASSUME TypeInv, Lock
    PROVE  /\ update'.before = cache /\ update'.unknown = FALSE
           /\ \/ update'.phase = "rejected"
              \/ update'.phase = "autostart" /\ ValidKeys(update'.new.keys) /\ Changed(update')
              \/ update'.phase = "locked" /\ ValidKeys(update'.new.keys) /\ ~Changed(update')
<1>1. PICK patch \in Patches:
        LET new == Patched(cache, patch)
            u == [NoUpdate EXCEPT !.before = cache, !.new = new]
        IN update' = [u EXCEPT !.phase = IF ~ValidKeys(new.keys) THEN "rejected"
                                         ELSE IF Changed(u) THEN "autostart"
                                         ELSE "locked"]
  BY DEF Lock
<1> DEFINE new == Patched(cache, patch)
           u == [NoUpdate EXCEPT !.before = cache, !.new = new]
<1>2. u.before = cache /\ u.new = new /\ u.unknown = FALSE
  BY DEF NoUpdate
<1>3. /\ update'.before = cache /\ update'.new = new /\ update'.unknown = FALSE
      /\ update'.phase = IF ~ValidKeys(new.keys) THEN "rejected"
                         ELSE IF Changed(u) THEN "autostart" ELSE "locked"
  BY <1>1 DEF NoUpdate
<1> QED
  BY <1>2, <1>3 DEF Changed

\* No update and no retry.
LEMMA IdleFields ==
    /\ NoUpdate.phase = "idle" /\ NoRetry.phase = "idle"
    /\ NoSync.phase = "idle" /\ NoSync.result = "none"
BY DEF NoUpdate, NoRetry, NoSync

-----------------------------------------------------------------------------
(* The store *)

\* Start and stop of the application (initialize).
LEMMA StartStore ==
    TypeInv /\ StoreOK /\ (Start \/ StartRegistration \/ Running \/ Stop \/ Autosave)
      => StoreOK'
<1> SUFFICES ASSUME TypeInv, StoreOK,
                    Start \/ StartRegistration \/ Running \/ Stop \/ Autosave
             PROVE  StoreOK'
  OBVIOUS
<1>1. CASE Start
  <2> DEFINE loaded == IF file = Unset THEN Defaults ELSE Repaired(file)
  <2>1. loaded \in Settings /\ ValidKeys(loaded.keys)
    BY LoadedType DEF TypeInv
  <2>2. /\ memory' = loaded /\ cache' = loaded /\ app' = "hotkeys" /\ app = "stopped"
        /\ UNCHANGED <<update, retry>>
    BY <1>1 DEF Start
  <2> HIDE DEF loaded
  <2> QED
    BY <2>1, <2>2 DEF StoreOK
<1>2. CASE Stop
  BY <1>2, IdleFields DEF Stop, StoreOK
<1>3. CASE StartRegistration \/ Running \/ Autosave
  BY <1>3 DEF StartRegistration, Running, Autosave, StoreOK
<1> QED
  BY <1>1, <1>2, <1>3

\* An update (update_preferences).
LEMMA UpdateStore ==
    TypeInv /\ StoreOK
      /\ (Lock \/ BeginAutostart \/ EndAutostart \/ ApplyHotkeys \/ HotkeysApplied
            \/ WriteStore \/ ReplaceCache)
      => StoreOK'
<1> SUFFICES ASSUME TypeInv, StoreOK,
                    Lock \/ BeginAutostart \/ EndAutostart \/ ApplyHotkeys
                      \/ HotkeysApplied \/ WriteStore \/ ReplaceCache
             PROVE  StoreOK'
  OBVIOUS
<1>1. CASE Lock
  <2>1. app = "running" /\ UNCHANGED <<memory, cache, app, retry>>
    BY <1>1 DEF Lock
  <2> QED
    BY <1>1, <2>1, LockEffect DEF StoreOK, Lock
<1>2. CASE BeginAutostart
  BY <1>2 DEF BeginAutostart, StoreOK
<1>3. CASE EndAutostart
  <2>1. \E phase \in {"locked", "failed"}: Go(phase) \/ GoUnsure(phase)
    BY <1>3 DEF EndAutostart
  <2> QED
    BY <1>3, <2>1, GoEffect DEF EndAutostart, StoreOK
<1>4. CASE ApplyHotkeys \/ HotkeysApplied
  BY <1>4, GoEffect DEF ApplyHotkeys, HotkeysApplied, StoreOK
<1>5. CASE WriteStore
  <2>1. update.new \in Settings
    BY DEF TypeInv, TypeOK
  <2> QED
    BY <1>5, <2>1, GoEffect DEF WriteStore, StoreOK
<1>6. CASE ReplaceCache
  BY <1>6, GoEffect DEF ReplaceCache, StoreOK
<1> QED
  BY <1>1, <1>2, <1>3, <1>4, <1>5, <1>6

\* What an update undoes (rollback_preferences_update).
LEMMA UndoStores ==
    TypeInv /\ StoreOK
      /\ (UndoStore \/ UndoHotkeys \/ HotkeysUndone \/ UndoAutostart \/ AutostartUndone
            \/ Unlock)
      => StoreOK'
<1> SUFFICES ASSUME TypeInv, StoreOK,
                    UndoStore \/ UndoHotkeys \/ HotkeysUndone \/ UndoAutostart
                      \/ AutostartUndone \/ Unlock
             PROVE  StoreOK'
  OBVIOUS
<1>1. CASE UndoStore
  <2>1. update.before \in Settings
    BY DEF TypeInv, TypeOK
  <2>2. update'.phase = "undoHotkeys" /\ update'.before = update.before /\ update'.new = update.new
    BY <1>1, GoEffect DEF UndoStore
  <2> QED
    BY <1>1, <2>1, <2>2 DEF UndoStore, StoreOK
<1>2. CASE UndoHotkeys \/ HotkeysUndone
  <2>1. /\ update'.phase \in {"undoingHotkeys", "undoAutostart", "failed"}
        /\ update.phase \in {"undoHotkeys", "undoingHotkeys"}
        /\ update'.before = update.before /\ update'.new = update.new
    BY <1>2, GoEffect DEF UndoHotkeys, HotkeysUndone, AfterHotkeys
  <2> QED
    BY <1>2, <2>1 DEF UndoHotkeys, HotkeysUndone, StoreOK
<1>3. CASE UndoAutostart \/ AutostartUndone
  <2>1. /\ update'.phase \in {"undoingAutostart", "failed"}
        /\ update.phase \in {"undoAutostart", "undoingAutostart"}
        /\ update'.before = update.before /\ update'.new = update.new
    BY <1>3, GoEffect DEF UndoAutostart, AutostartUndone
  <2> QED
    BY <1>3, <2>1 DEF UndoAutostart, AutostartUndone, StoreOK
<1>4. CASE Unlock
  BY <1>4, IdleFields DEF Unlock, StoreOK
<1> QED
  BY <1>1, <1>2, <1>3, <1>4

LEMMA StoreStep == TypeInv /\ StoreOK /\ [Next]_vars => StoreOK'
<1> SUFFICES ASSUME TypeInv, StoreOK, [Next]_vars PROVE StoreOK'
  OBVIOUS
<1>1. CASE RetryRead
  BY <1>1 DEF RetryRead, StoreOK
<1>2. CASE RetryApply \/ RetryEnd
  <2>1. retry'.phase # "idle" => retry'.keys = retry.keys /\ retry.phase # "idle"
    BY <1>2, IdleFields DEF RetryApply, RetryEnd, TypeInv, TypeOK
  <2> QED
    BY <1>2, <2>1 DEF RetryApply, RetryEnd, StoreOK
<1>3. CASE Environment \/ UNCHANGED vars
  BY <1>3 DEF Environment, StoreOK
<1> QED
  BY <1>1, <1>2, <1>3, StartStore, UpdateStore, UndoStores DEF Next

LEMMA StoreHolds == Spec => [](TypeInv /\ StoreOK)
<1>1. Init => TypeInv /\ StoreOK
  BY TypeInit, IdleFields DEF Init, StoreOK
<1> QED
  BY <1>1, TypeStep, StoreStep, PTL DEF Spec

\* What readers see and what is saved next are the same whenever no update has the
\* lock, whatever failed in the updates before (update_preferences).
THEOREM StoreCorrect == Spec => []StoreMatchesCache
<1>1. StoreOK => StoreMatchesCache
  BY DEF StoreOK, StoreMatchesCache
<1> QED
  BY <1>1, StoreHolds, PTL

\* The settings in use are always ones that are accepted, whatever an older file held
\* and however patches were merged; and what a start changes of the shortcuts in the
\* file is not allowed, an earlier default, or another action's now
\* (migrate_legacy_preferences, sanitize_hotkey_preferences).
THEOREM SettingsCorrect == Spec => SettingsAreValid
<1> DEFINE Valid == app' # "stopped" => ValidKeys(cache'.keys)
           Keeps == app = "stopped" /\ app' # "stopped" /\ file # Unset =>
                      Kept(cache'.keys, file.keys)
<1>1. StoreOK' => Valid
  BY DEF StoreOK
<1>2. TypeInv /\ StoreOK /\ Next => Keeps
  <2> SUFFICES ASSUME TypeInv, StoreOK, Next, app = "stopped", app' # "stopped", file # Unset
               PROVE  Kept(cache'.keys, file.keys)
    OBVIOUS
  <2>1. update.phase = "idle" /\ retry.phase = "idle"
    BY DEF StoreOK
  <2>2. CASE Start
    <3>1. cache' = Repaired(file)
      BY <2>2 DEF Start
    <3>2. cache'.keys = RepairedKeys(file.keys)
      BY <3>1 DEF Repaired, TypeInv, TypeOK
    <3> QED
      BY <3>2, RepairedIsValid
  <2>3. CASE StartRegistration \/ Running \/ Stop \/ Autosave \/ RetryRead \/ RetryApply
             \/ RetryEnd \/ Environment
    BY <2>1, <2>3
       DEF StartRegistration, Running, Stop, Autosave, RetryRead, RetryApply, RetryEnd, Environment
  <2>4. CASE Lock \/ BeginAutostart \/ EndAutostart \/ ApplyHotkeys \/ HotkeysApplied
             \/ WriteStore \/ ReplaceCache
    BY <2>4 DEF Lock, BeginAutostart, EndAutostart, ApplyHotkeys, HotkeysApplied, WriteStore,
                ReplaceCache
  <2>5. CASE UndoStore \/ UndoHotkeys \/ HotkeysUndone \/ UndoAutostart \/ AutostartUndone
             \/ Unlock
    BY <2>1, <2>5
       DEF UndoStore, UndoHotkeys, HotkeysUndone, UndoAutostart, AutostartUndone, Unlock
  <2> QED
    BY <2>2, <2>3, <2>4, <2>5 DEF Next
<1>3. (TypeInv /\ StoreOK) /\ (TypeInv /\ StoreOK)' /\ [Next]_vars => [Valid /\ Keeps]_vars
  BY <1>1, <1>2
<1> QED
  BY <1>3, StoreHolds, PTL DEF Spec, SettingsAreValid

-----------------------------------------------------------------------------
(* The login registration *)

\* What a step of a synchronisation does: it goes on in its direction, or it ends, and
\* with success only when the registration is as asked for (synchronize_registration).
LEMMA SyncEffect ==
    ASSUME TypeInv, SyncOK, SyncStep
    PROVE  /\ sync.phase # "idle"
           /\ sync'.enable = sync.enable
           /\ \/ sync'.phase # "idle" /\ sync'.result = "none"
              \/ /\ sync'.phase = "idle" /\ sync'.result # "none"
                 /\ sync'.result = "ok" => AsAsked(sync.enable)'
           /\ SyncOK'
<1> USE DEF SyncOK
<1>0. sync \in Sync /\ theirs \in [run: Origin, approval: Origin]
  BY DEF TypeInv, TypeOK, AutostartTypeOK
<1>1. \A x: Command(x) \in {"current", "release"}
  BY DEF Command
<1>2. CASE ReadFails \/ ReadEnabled \/ ReadDisabled
  BY <1>0, <1>2
     DEF ReadFails, ReadEnabled, ReadDisabled, Finish, Known, registryVars, AsAsked, Registered, Sync
<1>3. CASE ReadApproval
  <2>1. PICK readable \in BOOLEAN:
          LET seen == IF readable THEN approval ELSE "absent"
              repair == seen = "disabled"
              matches == sync.runBefore = Command(sync.runBefore)
              read == [sync EXCEPT !.approvalBefore = seen, !.approvalRead = readable]
          IN sync' = IF matches /\ ~repair
                       THEN [read EXCEPT !.phase = "idle", !.result = "ok"]
                       ELSE [read EXCEPT !.phase = IF matches THEN "approve" ELSE "write"]
    BY <1>3 DEF ReadApproval
  <2>2. /\ sync.phase = "readApproval" /\ UNCHANGED <<runKey, approval>>
        /\ theirs'.run = theirs.run
    BY <1>0, <1>3 DEF ReadApproval, Known
  <2>3. sync.enable /\ sync'.enable = sync.enable /\ sync'.approvalRead = readable
        /\ sync.result = "none"
    BY <1>0, <2>1, <2>2 DEF Sync
  <2>4. CASE sync'.phase = "idle"
    <3>1. /\ sync.runBefore = Command(sync.runBefore) /\ sync'.result = "ok"
          /\ readable => approval # "disabled"
      BY <1>0, <2>1, <2>4 DEF Sync
    <3>2. AsAsked(TRUE)'
      BY <1>1, <2>2, <2>3, <3>1 DEF AsAsked, Registered
    <3> QED
      BY <2>2, <2>3, <2>4, <3>1, <3>2
  <2>5. CASE sync'.phase # "idle"
    <3>1. sync'.phase \in {"approve", "write"} /\ sync'.result = "none"
      BY <1>0, <2>1, <2>5, <2>3 DEF Sync
    <3> QED
      BY <2>2, <2>3, <3>1
  <2> QED
    BY <2>4, <2>5
<1>4. CASE WriteRun \/ WriteApproval \/ DeleteRun
  BY <1>0, <1>4
     DEF WriteRun, WriteApproval, DeleteRun, AfterRunWrite, Rollback, RollbackApproval,
         EndRollback, Finish, Sync
<1>5. CASE VerifyRun \/ VerifyApproval \/ VerifyDisabled
  <2>1. ASSUME sync' = Rollback(sync), sync.enable, sync.result = "none"
        PROVE  /\ sync'.enable = sync.enable
               /\ \/ sync'.phase \in {"lookRun", "lookApproval"} /\ sync'.result = "none"
                  \/ sync'.phase = "idle" /\ sync'.result \in {"failed", "unknown"}
    BY <1>0, <2>1 DEF Rollback, RollbackApproval, EndRollback, Sync
  <2>2. CASE VerifyRun
    <3>1. CASE sync' = Rollback(sync)
      BY <1>0, <2>1, <2>2, <3>1 DEF VerifyRun
    <3>2. CASE sync' # Rollback(sync)
      <4>1. /\ runKey = Command(sync.runBefore) /\ UNCHANGED <<runKey, approval>>
            /\ IF sync.approvalRead THEN Goto("verifyApproval") ELSE Finish("ok")
        BY <2>2, <3>2 DEF VerifyRun
      <4> QED
        BY <1>0, <1>1, <2>2, <4>1 DEF VerifyRun, Goto, Finish, AsAsked, Registered, Sync
    <3> QED
      BY <3>1, <3>2
  <2>3. CASE VerifyApproval
    <3>1. CASE sync' = Rollback(sync)
      BY <1>0, <2>1, <2>3, <3>1 DEF VerifyApproval
    <3>2. CASE sync' # Rollback(sync)
      <4>1. /\ approval # "disabled" /\ UNCHANGED <<runKey, approval>>
            /\ Finish("ok") /\ theirs'.run = theirs.run
        BY <1>0, <2>3, <3>2 DEF VerifyApproval, Known
      <4> QED
        BY <1>0, <1>1, <2>3, <4>1 DEF VerifyApproval, Finish, AsAsked, Registered, Sync
    <3> QED
      BY <3>1, <3>2
  <2>4. CASE VerifyDisabled
    BY <1>0, <2>4 DEF VerifyDisabled, Goto, Finish, AsAsked, Registered, Sync
  <2> QED
    BY <1>5, <2>2, <2>3, <2>4
<1>6. CASE LookAtRun \/ LookAtApproval \/ LookIfGone
  BY <1>0, <1>6
     DEF LookAtRun, LookAtApproval, LookIfGone, Goto, Finish, Lost, RollbackApproval,
         EndRollback, Sync
<1>7. CASE PutRun \/ PutApproval \/ PutGone
  BY <1>0, <1>7
     DEF PutRun, PutApproval, PutGone, Finish, Lost, RollbackApproval, EndRollback, Sync
<1> QED
  BY <1>2, <1>3, <1>4, <1>5, <1>6, <1>7 DEF SyncStep

LEMMA StartSyncEffect ==
    ASSUME NEW launch, StartSync(launch)
    PROVE  /\ sync.phase = "idle"
           /\ sync'.phase = "read" /\ sync'.result = "none" /\ sync'.enable = launch
           /\ SyncOK'
BY DEF StartSync, NoSync, SyncOK

\* Start and stop of the application (initialize).
LEMMA StartLogin ==
    TypeInv /\ StoreOK /\ SyncOK /\ LoginOK
      /\ (Start \/ StartRegistration \/ Running \/ Stop \/ Autosave)
      => SyncOK' /\ LoginOK'
<1> SUFFICES ASSUME TypeInv, StoreOK, SyncOK, LoginOK,
                    Start \/ StartRegistration \/ Running \/ Stop \/ Autosave
             PROVE  SyncOK' /\ LoginOK'
  OBVIOUS
<1> USE DEF SyncedPhase
<1>1. CASE Start
  BY <1>1 DEF Start, StoreOK, SyncOK, LoginOK, NoSyncYet
<1>2. CASE StartRegistration
  BY <1>2, StartSyncEffect DEF StartRegistration, StoreOK, LoginOK
<1>3. CASE Running
  BY <1>3, IdleFields DEF Running, EndSync, StoreOK, SyncOK, LoginOK, NoSyncYet
<1>4. CASE Stop
  BY <1>4, IdleFields DEF Stop, EndSync, SyncOK, LoginOK, NoSyncYet
<1>5. CASE Autosave
  BY <1>5 DEF Autosave, SyncOK, LoginOK, NoSyncYet, SyncFor, AsAsked, Registered
<1> QED
  BY <1>1, <1>2, <1>3, <1>4, <1>5

\* An update (update_preferences).
LEMMA UpdateLogin ==
    TypeInv /\ StoreOK /\ SyncOK /\ LoginOK
      /\ (Lock \/ BeginAutostart \/ EndAutostart \/ ApplyHotkeys \/ HotkeysApplied
            \/ WriteStore \/ ReplaceCache)
      => SyncOK' /\ LoginOK'
<1> SUFFICES ASSUME TypeInv, StoreOK, SyncOK, LoginOK,
                    Lock \/ BeginAutostart \/ EndAutostart \/ ApplyHotkeys
                      \/ HotkeysApplied \/ WriteStore \/ ReplaceCache
             PROVE  SyncOK' /\ LoginOK'
  OBVIOUS
<1> USE DEF SyncedPhase
<1>1. CASE Lock
  <2>1. NoSyncYet /\ UNCHANGED <<sync, app, theirs, runKey, approval>> /\ app = "running"
    BY <1>1 DEF Lock, LoginOK
  <2> QED
    BY <1>1, <2>1, LockEffect DEF SyncOK, LoginOK, NoSyncYet, SyncFor, AsAsked, Registered
<1>2. CASE BeginAutostart
  <2>1. UNCHANGED <<update, app>> /\ StartSync(update.new.launch) /\ update.phase = "autostart"
    BY <1>2 DEF BeginAutostart
  <2> QED
    BY <2>1, StartSyncEffect DEF StoreOK, LoginOK, SyncFor
<1>3. CASE EndAutostart
  <2>1. /\ update.phase = "autostart"
        /\ UNCHANGED <<sync, app, theirs, runKey, approval>>
        /\ sync.result # "none"
        /\ update'.phase = IF sync.result = "ok" THEN "locked" ELSE "failed"
        /\ update'.new = update.new /\ update'.before = update.before
    BY <1>3, GoEffect DEF EndAutostart
  <2>2. sync.phase = "idle"
    BY <2>1 DEF SyncOK
  <2> QED
    BY <2>1, <2>2 DEF SyncOK, StoreOK, LoginOK, SyncFor, AsAsked, Registered, Changed
<1>4. CASE ApplyHotkeys \/ HotkeysApplied \/ WriteStore \/ ReplaceCache
  <2>1. /\ update.phase \in {"locked", "applying", "store", "cache"}
        /\ update'.phase \in SyncedPhase \ {"undoAutostart"}
        /\ UNCHANGED <<sync, app, theirs, runKey, approval>>
        /\ update'.new = update.new /\ update'.before = update.before
    BY <1>4, GoEffect DEF ApplyHotkeys, HotkeysApplied, WriteStore, ReplaceCache
  <2> QED
    BY <2>1 DEF SyncOK, StoreOK, LoginOK, SyncFor, AsAsked, Registered, Changed
<1> QED
  BY <1>1, <1>2, <1>3, <1>4

\* What an update undoes (rollback_preferences_update).
LEMMA UndoLogin ==
    TypeInv /\ StoreOK /\ SyncOK /\ LoginOK
      /\ (UndoStore \/ UndoHotkeys \/ HotkeysUndone \/ UndoAutostart \/ AutostartUndone
            \/ Unlock)
      => SyncOK' /\ LoginOK'
<1> SUFFICES ASSUME TypeInv, StoreOK, SyncOK, LoginOK,
                    UndoStore \/ UndoHotkeys \/ HotkeysUndone \/ UndoAutostart
                      \/ AutostartUndone \/ Unlock
             PROVE  SyncOK' /\ LoginOK'
  OBVIOUS
<1> USE DEF SyncedPhase
<1>1. CASE UndoStore \/ UndoHotkeys
  <2>1. /\ update.phase \in {"undoStore", "undoHotkeys"}
        /\ update'.phase \in {"undoHotkeys", "undoingHotkeys"}
        /\ UNCHANGED <<sync, app, theirs, runKey, approval>>
        /\ update'.new = update.new /\ update'.before = update.before
    BY <1>1, GoEffect DEF UndoStore, UndoHotkeys
  <2> QED
    BY <2>1 DEF SyncOK, StoreOK, LoginOK, SyncFor, AsAsked, Registered, Changed
<1>2. CASE HotkeysUndone
  <2>1. /\ update.phase = "undoingHotkeys"
        /\ update'.phase = IF Changed(update) THEN "undoAutostart" ELSE "failed"
        /\ UNCHANGED <<sync, app, theirs, runKey, approval>>
        /\ update'.new = update.new /\ update'.before = update.before
    BY <1>2, GoEffect DEF HotkeysUndone, AfterHotkeys
  <2> QED
    BY <2>1 DEF SyncOK, StoreOK, LoginOK, SyncFor, AsAsked, Registered, Changed
<1>3. CASE UndoAutostart
  <2>1. /\ update'.phase = "undoingAutostart" /\ update.phase = "undoAutostart"
        /\ UNCHANGED app
        /\ StartSync(update.before.launch)
        /\ update'.new = update.new /\ update'.before = update.before
    BY <1>3, GoEffect DEF UndoAutostart
  <2> QED
    BY <2>1, StartSyncEffect DEF StoreOK, LoginOK, SyncFor
<1>4. CASE AutostartUndone
  <2>1. /\ update.phase = "undoingAutostart" /\ update'.phase = "failed"
        /\ sync.result # "none"
        /\ UNCHANGED <<sync, app, theirs, runKey, approval>>
        /\ update'.new = update.new /\ update'.before = update.before
    BY <1>4, GoEffect DEF AutostartUndone
  <2> QED
    BY <2>1 DEF SyncOK, StoreOK, LoginOK, SyncFor, AsAsked, Registered
<1>5. CASE Unlock
  BY <1>5, IdleFields DEF Unlock, EndSync, SyncOK, LoginOK, NoSyncYet
<1> QED
  BY <1>1, <1>2, <1>3, <1>4, <1>5

\* A synchronisation goes on, and other programs change the registry
\* (windows_autostart).
LEMMA RegistryLogin ==
    TypeInv /\ StoreOK /\ SyncOK /\ LoginOK /\ UNCHANGED <<update, app>>
      /\ (SyncStep \/ OutsideStep)
      => SyncOK' /\ LoginOK'
<1> SUFFICES ASSUME TypeInv, StoreOK, SyncOK, LoginOK, UNCHANGED <<update, app>>,
                    SyncStep \/ OutsideStep
             PROVE  SyncOK' /\ LoginOK'
  OBVIOUS
<1>1. CASE OutsideStep
  <2>1. /\ UNCHANGED sync
        /\ \/ theirs'.run # "ours" /\ UNCHANGED approval /\ theirs'.approval = theirs.approval
           \/ theirs'.approval # "ours" /\ UNCHANGED runKey /\ theirs'.run = theirs.run
    BY <1>1 DEF OutsideStep, TypeInv, TypeOK, AutostartTypeOK
  <2>2. SyncOK' /\ \A launch \in BOOLEAN: AsAsked(launch) => AsAsked(launch)'
    BY <2>1 DEF SyncOK, AsAsked, Registered
  <2>3. update.new.launch \in BOOLEAN /\ update.before.launch \in BOOLEAN
    BY DEF TypeInv, TypeOK, Settings
  <2> QED
    BY <2>1, <2>2, <2>3 DEF LoginOK, NoSyncYet, SyncFor
<1>2. CASE SyncStep
  <2>1. sync.phase # "idle" /\ SyncOK'
    BY <1>2, SyncEffect
  <2>2. update.phase \in {"autostart", "undoingAutostart"} \/ app = "registration"
    BY <2>1 DEF LoginOK, SyncedPhase, NoSyncYet, TypeInv, TypeOK, UpdatePhase
  <2>3. update.phase # "idle" => app = "running"
    BY DEF StoreOK
  <2>4. \A launch \in BOOLEAN: sync.enable = launch =>
          \/ sync'.phase # "idle" /\ sync'.enable = launch /\ sync'.result = "none"
          \/ sync'.phase = "idle" /\ (sync'.result = "ok" => AsAsked(launch)')
    BY <1>2, SyncEffect
  <2>5. update.new.launch \in BOOLEAN /\ update.before.launch \in BOOLEAN
    BY DEF TypeInv, TypeOK, Settings
  <2>6. SyncFor(update.new.launch) => SyncFor(update.new.launch)'
    BY <2>1, <2>4, <2>5 DEF SyncFor
  <2>7. SyncFor(update.before.launch) => SyncFor(update.before.launch)'
    BY <2>1, <2>4, <2>5 DEF SyncFor
  <2> QED
    BY <2>1, <2>2, <2>3, <2>6, <2>7 DEF LoginOK, SyncedPhase
<1> QED
  BY <1>1, <1>2

LEMMA LoginStep ==
    TypeInv /\ StoreOK /\ SyncOK /\ LoginOK /\ [Next]_vars => SyncOK' /\ LoginOK'
<1> SUFFICES ASSUME TypeInv, StoreOK, SyncOK, LoginOK, [Next]_vars PROVE SyncOK' /\ LoginOK'
  OBVIOUS
<1>1. CASE UNCHANGED <<autostartVars, update, app>>
  BY <1>1 DEF SyncOK, LoginOK, NoSyncYet, SyncFor, AsAsked, Registered
<1>2. CASE RetryRead \/ RetryApply \/ RetryEnd \/ UNCHANGED vars
  BY <1>1, <1>2 DEF RetryRead, RetryApply, RetryEnd
<1>3. CASE Environment
  BY <1>1, <1>3, RegistryLogin DEF Environment
<1> QED
  BY <1>2, <1>3, StartLogin, UpdateLogin, UndoLogin DEF Next

LEMMA LoginHolds == Spec => [](TypeInv /\ StoreOK /\ SyncOK /\ LoginOK)
<1>1. Init => TypeInv /\ StoreOK
  BY TypeInit, IdleFields DEF Init, StoreOK
<1>2. Init => SyncOK /\ LoginOK
  BY IdleFields DEF Init, AutostartInit, SyncOK, LoginOK, NoSyncYet, SyncedPhase
<1> QED
  BY <1>1, <1>2, TypeStep, StoreStep, LoginStep, PTL DEF Spec

\* When an update that synchronised the login registration ends, well or not, the
\* registration is what the settings now in use ask for, unless another program changed
\* it after the synchronisation last read or wrote it (update_preferences).
THEOREM LoginCorrect == Spec => []LoginFollowsSettings
<1>1. TypeInv /\ StoreOK /\ LoginOK => LoginFollowsSettings
  BY DEF StoreOK, LoginOK, LoginFollowsSettings, SyncedPhase, SyncFor, AsAsked, Changed
<1> QED
  BY <1>1, LoginHolds, PTL

-----------------------------------------------------------------------------
(* The rollback of a registration *)

\* A synchronisation begins with nothing written, and its result is taken
\* (synchronize_registration).
LEMMA FreshUndo ==
    ASSUME EndSync \/ \E launch: StartSync(launch)
    PROVE  UndoOK'
<1>1. /\ sync'.phase \in {"idle", "read"} /\ sync'.result = "none"
      /\ ~sync'.wroteRun /\ ~sync'.wroteApproval
  <2>1. sync' = NoSync \/ \E launch: sync' = [NoSync EXCEPT !.phase = "read", !.enable = launch]
    BY DEF EndSync, StartSync
  <2>2. NoSync.phase = "idle" /\ NoSync.result = "none" /\ ~NoSync.wroteRun /\ ~NoSync.wroteApproval
    BY DEF NoSync
  <2>3. CASE sync' = NoSync
    BY <2>2, <2>3
  <2>4. ASSUME NEW launch, sync' = [NoSync EXCEPT !.phase = "read", !.enable = launch]
        PROVE  /\ sync'.phase = "read" /\ sync'.result = "none"
               /\ ~sync'.wroteRun /\ ~sync'.wroteApproval
    BY <2>4 DEF NoSync
  <2> QED
    BY <2>1, <2>3, <2>4
<1> QED
  BY <1>1 DEF UndoOK, RunUndone, ApprovalUndone

\* What is undone stays so in every step of a rollback, and whatever other programs
\* write (rollback_registry_snapshots).
LEMMA RegistryUndo == TypeInv /\ UndoOK /\ (SyncStep \/ OutsideStep) => UndoOK'
<1> SUFFICES ASSUME TypeInv, UndoOK, SyncStep \/ OutsideStep PROVE UndoOK'
  OBVIOUS
<1> USE DEF UndoOK, RunUndone, ApprovalUndone
<1>0. sync \in Sync /\ theirs \in [run: Origin, approval: Origin]
  BY DEF TypeInv, TypeOK, AutostartTypeOK
<1>1. CASE OutsideStep
  BY <1>0, <1>1 DEF OutsideStep
<1>2. CASE ReadFails \/ ReadEnabled \/ ReadApproval \/ ReadDisabled
  BY <1>0, <1>2 DEF ReadFails, ReadEnabled, ReadApproval, ReadDisabled, Finish, Sync
<1>3. CASE WriteRun \/ WriteApproval \/ DeleteRun
  BY <1>0, <1>3
     DEF WriteRun, WriteApproval, DeleteRun, AfterRunWrite, Rollback, RollbackApproval,
         EndRollback, Finish, Sync
<1>4. CASE VerifyRun \/ VerifyApproval \/ VerifyDisabled
  BY <1>0, <1>4
     DEF VerifyRun, VerifyApproval, VerifyDisabled, Goto, Finish, Rollback,
         RollbackApproval, EndRollback, Sync
<1>5. CASE LookAtRun \/ LookAtApproval \/ LookIfGone
  BY <1>0, <1>5
     DEF LookAtRun, LookAtApproval, LookIfGone, MayRestoreRun, MayRestoreApproval, Found,
         Goto, Finish, Lost, RollbackApproval, EndRollback, Sync
<1>6. CASE PutRun
  BY <1>0, <1>6 DEF PutRun, PutBack, Lost, RollbackApproval, EndRollback, Sync
<1>7. CASE PutApproval
  BY <1>0, <1>7 DEF PutApproval, PutBack, Lost, EndRollback, Sync
<1>8. CASE PutGone
  BY <1>0, <1>8 DEF PutGone, PutBack, Finish, Sync
<1> QED
  BY <1>1, <1>2, <1>3, <1>4, <1>5, <1>6, <1>7, <1>8 DEF SyncStep

LEMMA UndoStep == TypeInv /\ UndoOK /\ [Next]_vars => UndoOK'
<1> SUFFICES ASSUME TypeInv, UndoOK, [Next]_vars PROVE UndoOK'
  OBVIOUS
<1>1. CASE UNCHANGED <<sync, theirs, runKey, approval>>
  BY <1>1 DEF UndoOK, RunUndone, ApprovalUndone
<1>2. CASE StartRegistration \/ Running \/ Stop \/ BeginAutostart \/ UndoAutostart \/ Unlock
  BY <1>2, FreshUndo
     DEF StartRegistration, Running, Stop, BeginAutostart, UndoAutostart, Unlock
<1>3. CASE Environment
  BY <1>1, <1>3, RegistryUndo DEF Environment
<1>4. CASE Start \/ Autosave \/ RetryRead \/ RetryApply \/ RetryEnd \/ UNCHANGED vars
  BY <1>1, <1>4 DEF Start, Autosave, RetryRead, RetryApply, RetryEnd
<1>5. CASE Lock \/ EndAutostart \/ ApplyHotkeys \/ HotkeysApplied \/ WriteStore
           \/ ReplaceCache \/ UndoStore \/ UndoHotkeys \/ HotkeysUndone \/ AutostartUndone
  BY <1>1, <1>5
     DEF Lock, EndAutostart, ApplyHotkeys, HotkeysApplied, WriteStore, ReplaceCache,
         UndoStore, UndoHotkeys, HotkeysUndone, AutostartUndone
<1> QED
  BY <1>2, <1>3, <1>4, <1>5 DEF Next

LEMMA UndoInit == Init => UndoOK
BY DEF Init, AutostartInit, NoSync, Ours, UndoOK, RunUndone, ApprovalUndone

\* A synchronisation that fails and does not report the registry as inconsistent has
\* put back each value it wrote, having found there what it wrote; where a value differs,
\* another program changed it since (restore_registry_value_if_unchanged,
\* restore_registry_value_if_absent).
THEOREM UndoneCorrect == Spec => []FailedSyncIsUndone
<1>1. TypeInv /\ UndoOK => FailedSyncIsUndone
  BY DEF UndoOK, RunUndone, ApprovalUndone, FailedSyncIsUndone
<1>2. Init => TypeInv /\ UndoOK
  BY TypeInit, UndoInit
<1> QED
  BY <1>1, <1>2, TypeStep, UndoStep, PTL DEF Spec

-----------------------------------------------------------------------------
(* Who waits for which call *)

\* A call of apply_preferences begins, or is over at once (apply_preferences).
LEMMA ApplyEffect ==
    ASSUME TypeInv, NEW c \in Applier, NEW b, Apply(c, b)
    PROVE  /\ apply.by = Nobody
           /\ \/ /\ apply'.by = Nobody /\ applied' = [applied EXCEPT ![c] = "ok"]
                 /\ registered' = b /\ health' = "ready"
              \/ /\ apply'.by = c /\ apply'.desired = b
                 /\ UNCHANGED <<applied, registered, health>>
BY DEF Apply, ApplySame, ApplyBegin, Return, NoApply

\* It goes on, or ends with success or without (apply_preferences).
LEMMA CallEffect ==
    ASSUME TypeInv, ApplyRegister \/ ApplyRollback
    PROVE  /\ apply.by \in Applier
           /\ \/ /\ apply'.by = apply.by /\ apply'.desired = apply.desired
                 /\ UNCHANGED <<applied, registered, health>>
              \/ /\ apply'.by = Nobody /\ applied' = [applied EXCEPT ![apply.by] = "ok"]
                 /\ registered' = apply.desired /\ health' = "ready"
              \/ /\ apply'.by = Nobody /\ applied' = [applied EXCEPT ![apply.by] = "failed"]
                 /\ health' = "degraded"
<1>1. apply.by \in Applier
  BY DEF TypeInv, TypeOK, HotkeyTypeOK, CallIsSomeones, ApplyRegister, ApplyRollback
<1>2. CASE ApplyRegister
  <2>1. apply \in [by: Applier \cup {Nobody}, phase: {"idle", "register", "rollback"},
                   desired: Bindings, previous: Bindings]
    BY DEF TypeInv, TypeOK, HotkeyTypeOK
  <2> QED
    BY <1>1, <1>2, <2>1 DEF ApplyRegister, Return, NoApply
<1>3. CASE ApplyRollback
  BY <1>1, <1>3 DEF ApplyRollback, Return, NoApply
<1> QED
  BY <1>2, <1>3

\* Nothing is asked of anybody that was not, and the answers stay (apply_preferences).
LEMMA CallsFrame ==
    ASSUME CallsOK, UNCHANGED <<apply, applied>>,
           \A c \in Applier: /\ Asked(c)' <=> Asked(c)
                             /\ Asked(c) => Wanted(c)' = Wanted(c)
    PROVE  CallsOK'
BY DEF CallsOK

\* A call is made for somebody who had none (apply_preferences).
LEMMA CallBegins ==
    ASSUME TypeInv, CallsOK, NEW c \in Applier, NEW b, Apply(c, b),
           ~Asked(c), Asked(c)', Wanted(c)' = b,
           \A d \in Applier: d # c => (Asked(d)' <=> Asked(d))
    PROVE  CallsOK'
<1>1. applied \in [Applier -> {"none", "ok", "failed"}] /\ Nobody \notin Applier
  BY PreferencesAssumption DEF TypeInv, TypeOK, HotkeyTypeOK
<1> QED
  BY <1>1, ApplyEffect DEF CallsOK

\* An answer is taken (apply_preferences).
LEMMA CallTaken ==
    ASSUME TypeInv, CallsOK, NEW c \in Applier, NEW result \in {"ok", "failed"},
           Collect(c, result), Asked(c)' = FALSE,
           \A d \in Applier: d # c => /\ Asked(d)' <=> Asked(d)
                                      /\ Asked(d) => Wanted(d)' = Wanted(d)
    PROVE  CallsOK'
<1>1. applied \in [Applier -> {"none", "ok", "failed"}]
  BY DEF TypeInv, TypeOK, HotkeyTypeOK
<1>2. /\ UNCHANGED apply
      /\ applied[c] # "none" /\ applied'[c] = "none"
      /\ \A d \in Applier: d # c => applied'[d] = applied[d]
  BY <1>1 DEF Collect
<1> QED
  BY <1>2 DEF CallsOK

LEMMA Appliers == /\ Updater \in Applier /\ Retrier \in Applier /\ Updater # Retrier
                  /\ Nobody \notin Applier
                  /\ \A c \in Applier: c = Updater \/ c = Retrier
BY PreferencesAssumption

\* Start and stop of the application (initialize).
LEMMA StartCalls ==
    TypeInv /\ StoreOK /\ CallsOK
      /\ (Start \/ StartRegistration \/ Running \/ Stop \/ Autosave) => CallsOK'
<1> SUFFICES ASSUME TypeInv, StoreOK, CallsOK,
                    Start \/ StartRegistration \/ Running \/ Stop \/ Autosave
             PROVE  CallsOK'
  OBVIOUS
<1>1. CASE Start
  <2>1. /\ Apply(Retrier, cache'.keys) /\ app = "stopped" /\ app' = "hotkeys"
        /\ UNCHANGED <<update, retry>>
    BY <1>1 DEF Start
  <2>2. update.phase = "idle" /\ retry.phase = "idle"
    BY <2>1 DEF StoreOK
  <2> QED
    BY <2>1, <2>2, Appliers, CallBegins DEF Asked, Wanted
<1>2. CASE StartRegistration
  <2>1. /\ app = "hotkeys" /\ app' = "registration" /\ UNCHANGED <<update, retry>>
        /\ \E result \in {"ok", "failed"}: Collect(Retrier, result)
    BY <1>2 DEF StartRegistration
  <2>2. retry.phase = "idle"
    BY <2>1 DEF StoreOK
  <2> QED
    BY <2>1, <2>2, Appliers, CallTaken DEF Asked, Wanted
<1>3. CASE Running \/ Autosave
  BY <1>3, CallsFrame, Appliers DEF Running, Autosave, Asked, Wanted
<1>4. CASE Stop
  BY <1>4, IdleFields, Appliers DEF Stop, CallsOK, Asked, NoApply
<1> QED
  BY <1>1, <1>2, <1>3, <1>4

\* An update and what it undoes (update_preferences).
LEMMA UpdateCalls ==
    TypeInv /\ StoreOK /\ CallsOK
      /\ (Lock \/ BeginAutostart \/ EndAutostart \/ ApplyHotkeys \/ HotkeysApplied
            \/ WriteStore \/ ReplaceCache \/ UndoStore \/ UndoHotkeys \/ HotkeysUndone
            \/ UndoAutostart \/ AutostartUndone \/ Unlock)
      => CallsOK'
<1> SUFFICES ASSUME TypeInv, StoreOK, CallsOK,
                    Lock \/ BeginAutostart \/ EndAutostart \/ ApplyHotkeys
                      \/ HotkeysApplied \/ WriteStore \/ ReplaceCache \/ UndoStore
                      \/ UndoHotkeys \/ HotkeysUndone \/ UndoAutostart
                      \/ AutostartUndone \/ Unlock
             PROVE  CallsOK'
  OBVIOUS
<1> USE Appliers DEF Asked, Wanted
<1>1. CASE Lock \/ BeginAutostart \/ EndAutostart \/ WriteStore \/ ReplaceCache
           \/ UndoStore \/ UndoAutostart \/ AutostartUndone \/ Unlock
  <2>1. /\ update.phase \notin {"applying", "undoingHotkeys"}
        /\ update'.phase \notin {"applying", "undoingHotkeys"}
    <3>1. CASE Lock
      BY <3>1, LockEffect DEF Lock
    <3>2. CASE BeginAutostart \/ ReplaceCache
      BY <3>2, GoEffect DEF BeginAutostart, ReplaceCache
    <3>5. CASE EndAutostart \/ WriteStore \/ UndoStore
      <4>1. \E phase \in {"locked", "failed", "cache", "undoStore", "undoHotkeys"}:
              Go(phase) \/ GoUnsure(phase)
        BY <3>5 DEF EndAutostart, WriteStore, UndoStore
      <4> QED
        BY <3>5, <4>1, GoEffect DEF EndAutostart, WriteStore, UndoStore
    <3>3. CASE UndoAutostart \/ AutostartUndone
      <4>1. \E phase \in {"undoingAutostart", "failed"}: Go(phase) \/ GoUnsure(phase)
        BY <3>3 DEF UndoAutostart, AutostartUndone
      <4> QED
        BY <3>3, <4>1, GoEffect DEF UndoAutostart, AutostartUndone
    <3>4. CASE Unlock
      BY <3>4, IdleFields DEF Unlock
    <3> QED
      BY <1>1, <3>1, <3>2, <3>3, <3>4, <3>5
  <2>2. UNCHANGED <<apply, applied, retry, app>>
    BY <1>1 DEF Lock, BeginAutostart, EndAutostart, WriteStore, ReplaceCache, UndoStore,
                UndoAutostart, AutostartUndone, Unlock
  <2>3. UNCHANGED cache \/ app # "hotkeys"
    BY <1>1 DEF Lock, BeginAutostart, EndAutostart, WriteStore, ReplaceCache, UndoStore,
                UndoAutostart, AutostartUndone, Unlock, StoreOK
  <2> QED
    BY <2>1, <2>2, <2>3, CallsFrame
<1>2. CASE ApplyHotkeys
  <2>1. /\ Apply(Updater, update.new.keys) /\ UNCHANGED <<retry, app, cache>>
        /\ update.phase = "locked" /\ update'.phase = "applying"
        /\ update'.new = update.new
    BY <1>2, GoEffect DEF ApplyHotkeys
  <2> QED
    BY <2>1, CallBegins
<1>3. CASE UndoHotkeys
  <2>1. /\ Apply(Updater, update.before.keys) /\ UNCHANGED <<retry, app, cache>>
        /\ update.phase = "undoHotkeys" /\ update'.phase = "undoingHotkeys"
        /\ update'.before = update.before
    BY <1>3, GoEffect DEF UndoHotkeys
  <2> QED
    BY <2>1, CallBegins
<1>4. CASE HotkeysApplied \/ HotkeysUndone
  <2>1. /\ \E result \in {"ok", "failed"}: Collect(Updater, result)
        /\ UNCHANGED <<retry, app, cache>>
    BY <1>4 DEF HotkeysApplied, HotkeysUndone
  <2>2. \E phase \in {"store", "undoHotkeys", "undoAutostart", "failed"}:
          Go(phase) \/ GoUnsure(phase)
    BY <1>4 DEF HotkeysApplied, HotkeysUndone, AfterHotkeys
  <2>3. update'.phase \notin {"applying", "undoingHotkeys"}
    BY <2>2, GoEffect
  <2>4. Asked(Updater)' = FALSE
    BY <2>3
  <2>5. /\ Asked(Retrier)' <=> Asked(Retrier)
        /\ Wanted(Retrier)' = Wanted(Retrier)
    BY <2>1
  <2> QED
    BY <2>1, <2>4, <2>5, CallTaken
<1> QED
  BY <1>1, <1>2, <1>3, <1>4

\* A retry and what goes on outside (retry_hotkey_registration).
LEMMA BesideCalls ==
    TypeInv /\ StoreOK /\ CallsOK
      /\ (RetryRead \/ RetryApply \/ RetryEnd \/ Environment \/ UNCHANGED vars) => CallsOK'
<1> SUFFICES ASSUME TypeInv, StoreOK, CallsOK,
                    RetryRead \/ RetryApply \/ RetryEnd \/ Environment \/ UNCHANGED vars
             PROVE  CallsOK'
  OBVIOUS
<1> USE Appliers DEF Asked, Wanted
<1>1. CASE RetryRead
  <2>1. /\ retry.phase # "applying" /\ retry'.phase # "applying" /\ app = "running"
        /\ UNCHANGED <<apply, applied, app, cache, update>>
    BY <1>1 DEF RetryRead
  <2> QED
    BY <2>1, CallsFrame
<1>2. CASE RetryApply
  <2>1. /\ Apply(Retrier, retry.keys) /\ UNCHANGED <<update, app>>
        /\ retry.phase = "read" /\ retry'.phase = "applying" /\ retry'.keys = retry.keys
    BY <1>2 DEF RetryApply, TypeInv, TypeOK
  <2>2. app = "running"
    BY <2>1 DEF StoreOK
  <2> QED
    BY <2>1, <2>2, CallBegins
<1>3. CASE RetryEnd
  <2>1. /\ \E result \in {"ok", "failed"}: Collect(Retrier, result)
        /\ UNCHANGED <<update, app>>
        /\ retry.phase = "applying" /\ retry'.phase = "idle"
    BY <1>3, IdleFields DEF RetryEnd
  <2>2. app = "running"
    BY <2>1 DEF StoreOK
  <2> QED
    BY <2>1, <2>2, CallTaken
<1>4. CASE UNCHANGED <<apply, applied, update, retry, app, cache>>
  BY <1>4, CallsFrame
<1>5. CASE (ApplyRegister \/ ApplyRollback) /\ UNCHANGED <<update, retry, app, cache>>
  <2>1. applied \in [Applier -> {"none", "ok", "failed"}]
    BY DEF TypeInv, TypeOK, HotkeyTypeOK
  <2> QED
    BY <1>5, <2>1, CallEffect DEF CallsOK
<1> QED
  BY <1>1, <1>2, <1>3, <1>4, <1>5 DEF Environment, HookReads, OtherProgram

LEMMA CallsStep == TypeInv /\ StoreOK /\ CallsOK /\ [Next]_vars => CallsOK'
BY StartCalls, UpdateCalls, BesideCalls DEF Next

-----------------------------------------------------------------------------
(* What is on record *)

\* Start and stop of the application (initialize).
LEMMA StartRecord ==
    TypeInv /\ StoreOK /\ CallsOK /\ RaceOK /\ RecordOK
      /\ (Start \/ StartRegistration \/ Running \/ Stop \/ Autosave)
      => RaceOK' /\ RecordOK'
<1> SUFFICES ASSUME TypeInv, StoreOK, CallsOK, RaceOK, RecordOK,
                    Start \/ StartRegistration \/ Running \/ Stop \/ Autosave
             PROVE  RaceOK' /\ RecordOK'
  OBVIOUS
<1> USE Appliers
<1>1. CASE Start
  <2>1. /\ Apply(Retrier, cache'.keys) /\ app = "stopped" /\ app' = "hotkeys"
        /\ UNCHANGED <<update, retry, raced, unsure>>
    BY <1>1 DEF Start
  <2>2. update.phase = "idle" /\ retry.phase = "idle"
    BY <2>1 DEF StoreOK
  <2>3. applied[Retrier] = "none"
    BY <2>1, <2>2 DEF CallsOK, Asked
  <2>4. applied'[Retrier] # "none" => registered' = cache'.keys
    BY <2>1, <2>3, ApplyEffect
  <2> QED
    BY <2>1, <2>2, <2>4 DEF RaceOK, RecordOK, OnRecord
<1>2. CASE StartRegistration
  <2>1. /\ app = "hotkeys" /\ app' = "registration" /\ applied[Retrier] # "none"
        /\ UNCHANGED <<update, retry, raced, unsure, cache, registered, health>>
    BY <1>2 DEF StartRegistration, Collect
  <2>2. update.phase = "idle" /\ retry.phase = "idle"
    BY <2>1 DEF StoreOK
  <2> QED
    BY <2>1, <2>2 DEF RaceOK, RecordOK, OnRecord
<1>3. CASE Running
  <2>1. /\ app = "registration" /\ app' = "running"
        /\ UNCHANGED <<update, retry, raced, unsure, cache, registered, health, applied>>
    BY <1>3 DEF Running
  <2> QED
    BY <2>1 DEF RaceOK, RecordOK, OnRecord
<1>4. CASE Stop
  BY <1>4, IdleFields DEF Stop, RaceOK, RecordOK
<1>5. CASE Autosave
  BY <1>5 DEF Autosave, RaceOK, RecordOK, OnRecord
<1> QED
  BY <1>1, <1>2, <1>3, <1>4, <1>5

\* An update (update_preferences).
LEMMA UpdateRecord ==
    TypeInv /\ StoreOK /\ CallsOK /\ RaceOK /\ RecordOK
      /\ (Lock \/ BeginAutostart \/ EndAutostart \/ ApplyHotkeys \/ HotkeysApplied
            \/ WriteStore \/ ReplaceCache)
      => RaceOK' /\ RecordOK'
<1> SUFFICES ASSUME TypeInv, StoreOK, CallsOK, RaceOK, RecordOK,
                    Lock \/ BeginAutostart \/ EndAutostart \/ ApplyHotkeys
                      \/ HotkeysApplied \/ WriteStore \/ ReplaceCache
             PROVE  RaceOK' /\ RecordOK'
  OBVIOUS
<1> USE Appliers
<1>1. CASE Lock
  <2>1. /\ app = "running" /\ update.phase = "idle"
        /\ raced' = (raced \/ retry.phase # "idle")
        /\ UNCHANGED <<retry, app, unsure, cache, registered, health, applied>>
    BY <1>1 DEF Lock
  <2>2. /\ update'.phase \in {"rejected", "autostart", "locked"}
        /\ raced \in BOOLEAN /\ unsure \in BOOLEAN
    BY <1>1, LockEffect DEF TypeInv, TypeOK
  <2> QED
    BY <2>1, <2>2 DEF RaceOK, RecordOK, OnRecord
<1>2. CASE BeginAutostart
  BY <1>2 DEF BeginAutostart, RaceOK, RecordOK, OnRecord
<1>3. CASE EndAutostart
  <2>1. /\ update.phase = "autostart" /\ update'.phase \in {"locked", "failed"}
        /\ update'.before = update.before
        /\ UNCHANGED <<retry, app, raced, unsure, cache, registered, health, applied>>
    BY <1>3, GoEffect DEF EndAutostart
  <2>2. app = "running" /\ update.before = cache
    BY <2>1 DEF StoreOK
  <2> QED
    BY <2>1, <2>2 DEF RaceOK, RecordOK, OnRecord
<1>4. CASE ApplyHotkeys
  <2>1. /\ Apply(Updater, update.new.keys)
        /\ update.phase = "locked" /\ update'.phase = "applying"
        /\ update'.new = update.new
        /\ UNCHANGED <<retry, app, raced, unsure, cache>>
    BY <1>4, GoEffect DEF ApplyHotkeys
  <2>2. applied[Updater] = "none" /\ applied \in [Applier -> {"none", "ok", "failed"}]
    BY <2>1 DEF CallsOK, Asked, TypeInv, TypeOK, HotkeyTypeOK
  <2>3. applied'[Updater] # "failed" /\ (applied'[Updater] = "ok" => registered' = update.new.keys)
    BY <2>1, <2>2, ApplyEffect
  <2>4. app = "running"
    BY <2>1 DEF StoreOK
  <2> QED
    BY <2>1, <2>3, <2>4 DEF RaceOK, RecordOK
<1>5. CASE HotkeysApplied
  <2>1. /\ update.phase = "applying"
        /\ \/ update'.phase = "store" /\ applied[Updater] = "ok"
           \/ update'.phase = "undoHotkeys"
        /\ update'.new = update.new
        /\ UNCHANGED <<retry, app, raced, unsure, cache, registered, health>>
    BY <1>5, GoEffect DEF HotkeysApplied, Collect
  <2>2. app = "running"
    BY <2>1 DEF StoreOK
  <2> QED
    BY <2>1, <2>2 DEF RaceOK, RecordOK
<1>6. CASE WriteStore \/ ReplaceCache
  <2>1. /\ update.phase \in {"store", "cache"}
        /\ update'.phase \in {"cache", "undoStore", "undoHotkeys", "done"}
        /\ update'.new = update.new
        /\ UNCHANGED <<retry, app, raced, unsure, registered, health, applied>>
    BY <1>6, GoEffect DEF WriteStore, ReplaceCache
  <2>2. app = "running"
    BY <2>1 DEF StoreOK
  <2> QED
    BY <2>1, <2>2 DEF RaceOK, RecordOK
<1> QED
  BY <1>1, <1>2, <1>3, <1>4, <1>5, <1>6

\* What an update undoes (rollback_preferences_update).
LEMMA UndoRecord ==
    TypeInv /\ StoreOK /\ CallsOK /\ RaceOK /\ RecordOK
      /\ (UndoStore \/ UndoHotkeys \/ HotkeysUndone \/ UndoAutostart \/ AutostartUndone
            \/ Unlock)
      => RaceOK' /\ RecordOK'
<1> SUFFICES ASSUME TypeInv, StoreOK, CallsOK, RaceOK, RecordOK,
                    UndoStore \/ UndoHotkeys \/ HotkeysUndone \/ UndoAutostart
                      \/ AutostartUndone \/ Unlock
             PROVE  RaceOK' /\ RecordOK'
  OBVIOUS
<1> USE Appliers
<1>1. CASE UndoStore
  <2>1. /\ update.phase = "undoStore" /\ update'.phase = "undoHotkeys"
        /\ UNCHANGED <<retry, app, raced, unsure, cache>>
    BY <1>1, GoEffect DEF UndoStore
  <2>2. app = "running"
    BY <2>1 DEF StoreOK
  <2> QED
    BY <2>1, <2>2 DEF RaceOK, RecordOK
<1>2. CASE UndoHotkeys
  <2>1. /\ Apply(Updater, update.before.keys)
        /\ update.phase = "undoHotkeys" /\ update'.phase = "undoingHotkeys"
        /\ update'.before = update.before
        /\ UNCHANGED <<retry, app, raced, unsure, cache>>
    BY <1>2, GoEffect DEF UndoHotkeys
  <2>2. applied[Updater] = "none"
    BY <2>1 DEF CallsOK, Asked
  <2>3. applied'[Updater] = "ok" => registered' = update.before.keys
    BY <2>1, <2>2, ApplyEffect
  <2>4. app = "running"
    BY <2>1 DEF StoreOK
  <2> QED
    BY <2>1, <2>3, <2>4 DEF RaceOK, RecordOK
<1>3. CASE HotkeysUndone
  <2>1. /\ update.phase = "undoingHotkeys"
        /\ update'.phase \in {"undoAutostart", "failed"}
        /\ applied[Updater] = "ok" \/ update'.unknown
        /\ update'.before = update.before
        /\ UNCHANGED <<retry, app, raced, unsure, cache, registered, health>>
    <3>1. \E phase \in {"undoAutostart", "failed"}:
            \/ Collect(Updater, "ok") /\ Go(phase)
            \/ GoUnsure(phase)
      BY <1>3 DEF HotkeysUndone, AfterHotkeys
    <3>2. /\ update.phase = "undoingHotkeys"
          /\ UNCHANGED <<retry, app, raced, unsure, cache, registered, health>>
      BY <1>3 DEF HotkeysUndone, Collect
    <3> QED
      BY <3>1, <3>2, GoEffect DEF Collect
  <2>2. app = "running"
    BY <2>1 DEF StoreOK
  <2> QED
    BY <2>1, <2>2 DEF RaceOK, RecordOK, OnRecord
<1>4. CASE UndoAutostart \/ AutostartUndone
  <2>1. /\ update.phase \in {"undoAutostart", "undoingAutostart"}
        /\ update'.phase \in {"undoingAutostart", "failed"}
        /\ update.unknown => update'.unknown
        /\ update'.before = update.before
        /\ UNCHANGED <<retry, app, raced, unsure, cache, registered, health>>
    BY <1>4, GoEffect DEF UndoAutostart, AutostartUndone
  <2>2. app = "running"
    BY <2>1 DEF StoreOK
  <2> QED
    BY <2>1, <2>2 DEF RaceOK, RecordOK, OnRecord
<1>5. CASE Unlock
  <2>1. /\ update.phase \in {"done", "rejected", "failed"} /\ update'.phase = "idle"
        /\ unsure' = (unsure \/ update.unknown)
        /\ UNCHANGED <<retry, app, raced, cache, registered, health>>
    BY <1>5, IdleFields DEF Unlock
  <2>2. /\ app = "running"
        /\ update.phase = "done" => update.new = cache
        /\ update.phase # "done" => update.before = cache
    BY <2>1 DEF StoreOK
  <2>3. unsure \in BOOLEAN /\ update.unknown \in BOOLEAN
    BY DEF TypeInv, TypeOK
  <2> QED
    BY <2>1, <2>2, <2>3 DEF RaceOK, RecordOK, OnRecord
<1> QED
  BY <1>1, <1>2, <1>3, <1>4, <1>5

\* A retry and what goes on outside (retry_hotkey_registration).
LEMMA BesideRecord ==
    TypeInv /\ StoreOK /\ CallsOK /\ RaceOK /\ RecordOK
      /\ (RetryRead \/ RetryApply \/ RetryEnd \/ Environment \/ UNCHANGED vars)
      => RaceOK' /\ RecordOK'
<1> SUFFICES ASSUME TypeInv, StoreOK, CallsOK, RaceOK, RecordOK,
                    RetryRead \/ RetryApply \/ RetryEnd \/ Environment \/ UNCHANGED vars
             PROVE  RaceOK' /\ RecordOK'
  OBVIOUS
<1> USE Appliers
<1>0. applied \in [Applier -> {"none", "ok", "failed"}]
  BY DEF TypeInv, TypeOK, HotkeyTypeOK
<1>1. CASE RetryRead
  <2>1. /\ retry'.keys = cache.keys /\ raced' = (raced \/ update.phase # "idle")
        /\ UNCHANGED <<update, app, unsure, cache, registered, health, applied>>
    BY <1>1 DEF RetryRead
  <2>2. raced \in BOOLEAN
    BY DEF TypeInv, TypeOK
  <2> QED
    BY <2>1, <2>2 DEF RaceOK, RecordOK, OnRecord
<1>2. CASE RetryApply
  <2>1. /\ Apply(Retrier, retry.keys)
        /\ retry.phase = "read" /\ retry'.keys = retry.keys
        /\ UNCHANGED <<update, app, raced, unsure, cache>>
    BY <1>2 DEF RetryApply, TypeInv, TypeOK
  <2>2. app = "running"
    BY <2>1 DEF StoreOK
  <2>3. \/ registered' = retry.keys
        \/ UNCHANGED <<registered, health>>
    BY <2>1, ApplyEffect
  <2> QED
    BY <2>1, <2>2, <2>3 DEF RaceOK, RecordOK, OnRecord
<1>3. CASE RetryEnd
  <2>1. /\ retry'.phase = "idle" /\ retry.phase = "applying"
        /\ applied'[Updater] = applied[Updater]
        /\ UNCHANGED <<update, app, raced, unsure, cache, registered, health>>
    BY <1>0, <1>3, IdleFields DEF RetryEnd, Collect
  <2>2. app = "running"
    BY <2>1 DEF StoreOK
  <2> QED
    BY <2>1, <2>2 DEF RaceOK, RecordOK, OnRecord
<1>4. CASE UNCHANGED <<applied, registered, health, update, retry, app, cache, raced, unsure>>
  BY <1>4 DEF RaceOK, RecordOK, OnRecord
<1>5. CASE (ApplyRegister \/ ApplyRollback)
           /\ UNCHANGED <<update, retry, app, cache, raced, unsure>>
  <2>1. RaceOK'
    BY <1>5 DEF RaceOK
  <2>2. apply.by \in Applier /\ Asked(apply.by) /\ apply.desired = Wanted(apply.by)
        /\ applied[apply.by] = "none"
    BY <1>5, CallEffect DEF CallsOK
  <2>3. CASE UNCHANGED <<applied, registered, health>>
    BY <1>4, <1>5, <2>3
  <2>4. CASE ~UNCHANGED <<applied, registered, health>>
    <3>1. \/ /\ applied' = [applied EXCEPT ![apply.by] = "ok"]
             /\ registered' = apply.desired /\ health' = "ready"
          \/ /\ applied' = [applied EXCEPT ![apply.by] = "failed"]
             /\ health' = "degraded"
      BY <1>5, <2>4, CallEffect
    <3>2. CASE apply.by = Updater
      <4>1. update.phase \in {"applying", "undoingHotkeys"} /\ app = "running"
        BY <2>2, <3>2 DEF Asked, StoreOK
      <4> QED
        BY <1>0, <1>5, <2>1, <2>2, <3>1, <3>2, <4>1 DEF RecordOK, Wanted
    <3>3. CASE apply.by = Retrier
      <4>1. \/ app = "hotkeys" /\ update.phase = "idle" /\ apply.desired = cache.keys
            \/ app = "running" /\ retry.phase = "applying" /\ apply.desired = retry.keys
        BY <2>2, <3>3 DEF Asked, Wanted, StoreOK
      <4> QED
        BY <1>0, <1>5, <2>1, <2>2, <3>1, <3>3, <4>1 DEF RecordOK, RaceOK, OnRecord
    <3> QED
      BY <2>2, <3>2, <3>3
  <2> QED
    BY <2>3, <2>4
<1> QED
  BY <1>1, <1>2, <1>3, <1>4, <1>5 DEF Environment, HookReads, OtherProgram

LEMMA RecordStep ==
    TypeInv /\ StoreOK /\ CallsOK /\ RaceOK /\ RecordOK /\ [Next]_vars => RaceOK' /\ RecordOK'
BY StartRecord, UpdateRecord, UndoRecord, BesideRecord DEF Next

LEMMA RecordHolds == Spec => [](TypeInv /\ StoreOK /\ CallsOK /\ RaceOK /\ RecordOK)
<1>1. Init => TypeInv /\ StoreOK
  BY TypeInit, IdleFields DEF Init, StoreOK
<1>2. Init => CallsOK /\ RaceOK /\ RecordOK
  BY IdleFields, Appliers
     DEF Init, HotkeyInit, NoApply, CallsOK, Asked, RaceOK, RecordOK
<1> QED
  BY <1>1, <1>2, TypeStep, StoreStep, CallsStep, RecordStep, PTL DEF Spec

\* When no update and no retry is at work, the bindings on record are those of the
\* settings, or the health says that they are not (apply_preferences).
THEOREM HotkeysCorrect == Spec => []HotkeysFollowSettings
<1>1. RecordOK => HotkeysFollowSettings
  BY DEF RecordOK, OnRecord, HotkeysFollowSettings
<1> QED
  BY <1>1, RecordHolds, PTL

\* An update that fails and knows its state has left store, cache and hotkeys as they
\* were, at whatever step it failed (update_preferences).
THEOREM NoTraceCorrect == Spec => []FailedUpdateLeavesNoTrace
<1>1. StoreOK /\ RecordOK => FailedUpdateLeavesNoTrace
  BY DEF StoreOK, RecordOK, OnRecord, FailedUpdateLeavesNoTrace
<1> QED
  BY <1>1, RecordHolds, PTL

-----------------------------------------------------------------------------
(* What the system and the hook hold *)

\* The hook has what is said of it.
HookOK(h, b) ==
    /\ h.pending # Nothing => h.alive /\ h.mail > 0
    /\ ~h.alive => h.config = None
    /\ (IF h.pending # Nothing THEN h.pending ELSE h.config) = HookOf(b)

\* The system's table is that of b.
TableOK(table, b) == \A s \in Basic, a \in Action: table[s] = a <=> b[a] = s

LEMMA BindingsParts ==
    BindingsOK <=> /\ Distinct(registered) /\ Distinct(apply.desired)
                   /\ Distinct(apply.previous)
                   /\ HookOK(hook, InForce)
                   /\ TableOK(system, InForce)
BY DEF BindingsOK, HookOK, TableOK, Told

\* The names of actions are none of the other owners of a shortcut, and a basic
\* shortcut is a shortcut (HotkeyAction).
LEMMA OwnersDiffer ==
    /\ "free" \notin Action /\ "other" \notin Action
    /\ NoKey \notin Basic /\ NoKey \notin Hooked
    /\ \A s \in Basic: s \notin Hooked
BY HotkeyAssumption DEF Action, Slot

\* None of ours is in a table without them (unregister_all).
LEMMA WithoutOursIsEmpty == TableOK(WithoutOurs(system), None)
<1>1. \A s \in Basic: WithoutOurs(system)[s] \notin Action
  BY OwnersDiffer DEF WithoutOurs
<1> QED
  BY <1>1, NoneIsEmpty, OwnersDiffer DEF TableOK

\* Taking the bindings in force out of the table leaves none of ours
\* (unregister_basic_bindings).
LEMMA WithoutIsEmpty ==
    ASSUME NEW b, TableOK(system, b)
    PROVE  TableOK(Without(system, b), None)
<1>1. \A s \in Basic: Without(system, b)[s] \notin Action
  <2> SUFFICES ASSUME NEW s \in Basic, Without(system, b)[s] \in Action PROVE FALSE
    OBVIOUS
  <2>1. Without(system, b)[s] = system[s] /\ ~(s \in BasicOf(b) /\ system[s] # "other")
    BY OwnersDiffer DEF Without
  <2>2. PICK a \in Action: system[s] = a
    BY <2>1
  <2>3. b[a] = s
    BY <2>2 DEF TableOK
  <2> QED
    BY <2>1, <2>2, <2>3, OwnersDiffer DEF BasicOf
<1> QED
  BY <1>1, NoneIsEmpty, OwnersDiffer DEF TableOK

\* After a call for distinct bindings the table is theirs, or has none of ours
\* (register_bindings).
LEMMA TableAfter ==
    ASSUME NEW b \in Bindings, Distinct(b)
    PROVE  TableOK(Table(b), IF RegisterSucceeds(b) THEN b ELSE None)
<1>1. CASE ~RegisterSucceeds(b)
  BY <1>1, WithoutOursIsEmpty DEF Table
<1>2. CASE RegisterSucceeds(b)
  <2> SUFFICES ASSUME NEW s \in Basic, NEW a \in Action
               PROVE  Table(b)[s] = a <=> b[a] = s
    BY <1>2 DEF TableOK
  <2>1. CASE s \in BasicOf(b)
    <3>1. PICK d \in Action: b[d] = s
      BY <2>1 DEF BasicOf
    <3>2. \A e \in Action: b[e] = s => e = d
      BY <3>1, OwnersDiffer DEF Distinct
    <3>3. (CHOOSE e \in Action: b[e] = s) = d
      BY <3>1, <3>2
    <3>4. Table(b)[s] = d
      BY <1>2, <2>1, <3>3 DEF Table
    <3> QED
      BY <3>1, <3>2, <3>4
  <2>2. CASE s \notin BasicOf(b)
    <3>1. Table(b)[s] \notin Action
      BY <1>2, <2>2, OwnersDiffer DEF Table, WithoutOurs
    <3>2. b[a] # s
      BY <2>2 DEF BasicOf
    <3> QED
      BY <3>1, <3>2
  <2> QED
    BY <2>1, <2>2
<1> QED
  BY <1>1, <1>2

\* A message tells the hook new bindings (apply_bindings).
LEMMA PostTells ==
    ASSUME TypeInv, hook.alive, NEW b \in Bindings, HookOf(b) \in Bindings
    PROVE  HookOK(Post(hook, HookOf(b)), b)
<1>1. hook.mail \in Nat /\ hook.mail + 1 > 0
  BY DEF TypeInv, TypeOK, HotkeyTypeOK
<1>2. /\ Post(hook, HookOf(b)).pending = HookOf(b)
      /\ Post(hook, HookOf(b)).alive
      /\ Post(hook, HookOf(b)).mail = hook.mail + 1
  BY DEF Post, TypeInv, TypeOK, HotkeyTypeOK
<1>3. HookOf(b) # Nothing
  BY NoneIsEmpty
<1> QED
  BY <1>1, <1>2, <1>3 DEF HookOK

\* Clearing the hook tells it that there are no bindings; without a hook there are
\* none (clear_bindings).
LEMMA ClearTells ==
    ASSUME TypeInv, NEW b, HookOK(hook, b)
    PROVE  HookOK(Cleared(hook), None)
<1>1. CASE hook.alive
  <2>1. HookOK(Post(hook, HookOf(None)), None)
    BY <1>1, PostTells, NoneIsEmpty
  <2> QED
    BY <2>1, NoneIsEmpty DEF Cleared
<1>2. CASE ~hook.alive
  BY <1>2, NoneIsEmpty DEF Cleared, Post, HookOK
<1> QED
  BY <1>1, <1>2

\* What a call for b leaves at a hook that has no bindings (register_bindings).
LEMMA HookAfter ==
    ASSUME TypeInv, HookOK(hook, None), NEW b \in Bindings
    PROVE  HookOK(Hook(b), IF RegisterSucceeds(b) THEN b ELSE None)
<1>1. CASE RegisterSucceeds(b) /\ HasHooks(b)
  <2>1. hook.alive
    BY <1>1 DEF RegisterSucceeds
  <2> QED
    BY <1>1, <2>1, PostTells, HookOfBindings DEF Hook
<1>2. CASE RegisterSucceeds(b) /\ ~HasHooks(b)
  BY <1>2, NoneIsEmpty DEF Hook, HasHooks, HookOK
<1>3. CASE ~RegisterSucceeds(b)
  BY <1>3, ClearTells DEF Hook
<1> QED
  BY <1>1, <1>2, <1>3

\* A call of apply_preferences takes the bindings in force away first
\* (apply_preferences).
LEMMA ApplyBindings ==
    ASSUME TypeInv, BindingsOK, NEW c \in Applier, NEW b \in Bindings, Distinct(b),
           Apply(c, b)
    PROVE  BindingsOK'
<1>1. apply.by = Nobody /\ InForce = registered
  BY DEF Apply, ApplySame, ApplyBegin, InForce
<1>2. CASE ApplySame(c, b)
  <2>1. UNCHANGED <<system, hook, registered>> /\ apply' = NoApply
    BY <1>2 DEF ApplySame, Return
  <2>2. InForce' = registered
    BY <2>1 DEF InForce, NoApply
  <2> QED
    BY <1>1, <2>1, <2>2, BindingsParts, NoneIsEmpty DEF NoApply, BindingsOK, Told
<1>3. CASE ApplyBegin(c, b)
  <2>1. /\ apply'.by = c /\ apply'.desired = b /\ apply'.previous = registered
        /\ UNCHANGED registered
        /\ system' = Without(system, registered)
        /\ hook' = IF HasHooks(registered) THEN Cleared(hook) ELSE hook
    BY <1>3 DEF ApplyBegin
  <2>2. InForce' = None
    BY <2>1, Appliers DEF InForce
  <2>3. TableOK(system', None)
    BY <1>1, <2>1, WithoutIsEmpty, BindingsParts
  <2>4. HookOK(hook', None)
    <3>1. HookOK(hook, registered)
      BY <1>1, BindingsParts
    <3>2. CASE HasHooks(registered)
      BY <2>1, <3>1, <3>2, ClearTells
    <3>3. CASE ~HasHooks(registered)
      BY <2>1, <3>1, <3>3, NoneIsEmpty DEF HasHooks, HookOK
    <3> QED
      BY <3>2, <3>3
  <2>5. Distinct(registered)
    BY DEF BindingsOK
  <2> QED
    BY <2>1, <2>2, <2>3, <2>4, <2>5 DEF BindingsOK, HookOK, TableOK, Told
<1> QED
  BY <1>2, <1>3 DEF Apply

\* The bindings are registered, or those before them again, or none
\* (apply_preferences).
LEMMA RegisterBindings ==
    TypeInv /\ BindingsOK /\ (ApplyRegister \/ ApplyRollback) => BindingsOK'
<1> SUFFICES ASSUME TypeInv, BindingsOK, ApplyRegister \/ ApplyRollback PROVE BindingsOK'
  OBVIOUS
<1>1. apply.by # Nobody /\ InForce = None
  BY DEF ApplyRegister, ApplyRollback, TypeInv, CallIsSomeones, InForce
<1>2. /\ HookOK(hook, None)
      /\ apply.desired \in Bindings /\ Distinct(apply.desired)
      /\ apply.previous \in Bindings /\ Distinct(apply.previous)
      /\ Distinct(registered)
  BY <1>1, BindingsParts DEF TypeInv, TypeOK, HotkeyTypeOK
<1>3. CASE ApplyRegister
  <2> DEFINE b == apply.desired
             now == IF RegisterSucceeds(b) THEN b ELSE None
  <2>1. TableOK(system', now) /\ HookOK(hook', now)
    BY <1>2, <1>3, TableAfter, HookAfter DEF ApplyRegister
  <2>2. CASE RegisterSucceeds(b)
    <3>1. registered' = b /\ apply' = NoApply
      BY <1>3, <2>2 DEF ApplyRegister, Return
    <3>2. InForce' = b
      BY <3>1 DEF InForce, NoApply
    <3> QED
      BY <1>2, <2>1, <2>2, <3>1, <3>2, NoneIsEmpty
         DEF NoApply, BindingsOK, HookOK, TableOK, Told
  <2>3. CASE ~RegisterSucceeds(b)
    <3>1. /\ UNCHANGED registered
          /\ apply'.by = apply.by /\ apply'.desired = b /\ apply'.previous = apply.previous
      BY <1>3, <2>3 DEF ApplyRegister, TypeInv, TypeOK, HotkeyTypeOK
    <3>2. InForce' = None
      BY <1>1, <3>1 DEF InForce
    <3> QED
      BY <1>2, <2>1, <2>3, <3>1, <3>2 DEF BindingsOK, HookOK, TableOK, Told
  <2> QED
    BY <2>2, <2>3
<1>4. CASE ApplyRollback
  <2> DEFINE b == apply.previous
             now == IF RegisterSucceeds(b) THEN b ELSE None
  <2>1. TableOK(system', now) /\ HookOK(hook', now)
    BY <1>2, <1>4, TableAfter, HookAfter DEF ApplyRollback
  <2>2. registered' = now /\ apply' = NoApply
    BY <1>4 DEF ApplyRollback, Return
  <2>3. InForce' = now /\ Distinct(now)
    BY <1>2, <2>2, NoneIsEmpty DEF InForce, NoApply
  <2> HIDE DEF now
  <2> QED
    BY <1>2, <2>1, <2>2, <2>3, NoneIsEmpty DEF NoApply, BindingsOK, HookOK, TableOK, Told
<1> QED
  BY <1>3, <1>4

\* The hook takes what it was told, and other programs take only what is free
\* (apply_pending_config).
LEMMA OutsideBindings ==
    TypeInv /\ BindingsOK /\ (HookReads \/ OtherProgram) => BindingsOK'
<1> SUFFICES ASSUME TypeInv, BindingsOK, HookReads \/ OtherProgram PROVE BindingsOK'
  OBVIOUS
<1>1. UNCHANGED <<registered, apply>> /\ InForce' = InForce
  BY DEF HookReads, OtherProgram, InForce
<1>2. CASE HookReads
  <2>1. hook \in [alive: BOOLEAN, mail: Nat, pending: Bindings \cup {Nothing},
                  config: Bindings]
    BY DEF TypeInv, TypeOK, HotkeyTypeOK
  <2>2. /\ hook'.pending = Nothing /\ hook'.alive /\ UNCHANGED system
        /\ hook'.config = Told
    BY <1>2, <2>1 DEF HookReads, Told
  <2> QED
    BY <1>1, <2>2 DEF BindingsOK, Told
<1>3. CASE OtherProgram
  <2>1. UNCHANGED hook /\ system \in [Basic -> Action \cup {"free", "other"}]
    BY <1>3 DEF OtherProgram, TypeInv, TypeOK, HotkeyTypeOK
  <2>2. \A s \in Basic, a \in Action: system'[s] = a <=> system[s] = a
    BY <1>3, <2>1, OwnersDiffer DEF OtherProgram
  <2> QED
    BY <1>1, <2>1, <2>2 DEF BindingsOK, Told
<1> QED
  BY <1>2, <1>3

\* The process ends (unregister_all).
LEMMA StopBindings == TypeInv /\ BindingsOK /\ Stop => BindingsOK'
<1> SUFFICES ASSUME TypeInv, BindingsOK, Stop PROVE BindingsOK'
  OBVIOUS
<1>1. /\ system' = WithoutOurs(system) /\ registered' = None /\ apply' = NoApply
      /\ hook' = [hook EXCEPT !.mail = 0, !.pending = Nothing, !.config = None]
  BY DEF Stop
<1>2. hook'.pending = Nothing /\ hook'.config = None
  BY <1>1 DEF TypeInv, TypeOK, HotkeyTypeOK
<1>3. InForce' = None
  BY <1>1 DEF InForce, NoApply
<1>4. TableOK(system', None)
  BY <1>1, WithoutOursIsEmpty
<1> QED
  BY <1>1, <1>2, <1>3, <1>4, NoneIsEmpty DEF NoApply, BindingsOK, TableOK, Told

LEMMA BindingsStep == TypeInv /\ StoreOK /\ BindingsOK /\ [Next]_vars => BindingsOK'
<1> SUFFICES ASSUME TypeInv, StoreOK, BindingsOK, [Next]_vars PROVE BindingsOK'
  OBVIOUS
<1>0. CASE UNCHANGED <<system, hook, registered, apply>>
  BY <1>0 DEF BindingsOK, InForce, Told
<1>1. CASE Start
  <2> DEFINE loaded == IF file = Unset THEN Defaults ELSE Repaired(file)
  <2>1. loaded \in Settings /\ ValidKeys(loaded.keys)
    BY LoadedType DEF TypeInv
  <2>2. Apply(Retrier, loaded.keys)
    BY <1>1 DEF Start
  <2> HIDE DEF loaded
  <2>3. loaded.keys \in Bindings
    BY <2>1 DEF Settings
  <2> QED
    BY <2>1, <2>2, <2>3, ApplyBindings, ValidIsDistinct, Appliers
<1>2. CASE ApplyHotkeys
  <2>1. /\ Apply(Updater, update.new.keys) /\ update.phase = "locked"
        /\ update.new.keys \in Bindings
    BY <1>2 DEF ApplyHotkeys, TypeInv, TypeOK, Settings
  <2>2. ValidKeys(update.new.keys)
    BY <2>1 DEF StoreOK
  <2> QED
    BY <2>1, <2>2, ApplyBindings, ValidIsDistinct, Appliers
<1>3. CASE UndoHotkeys
  <2>1. /\ Apply(Updater, update.before.keys) /\ update.phase = "undoHotkeys"
        /\ update.before.keys \in Bindings
    BY <1>3 DEF UndoHotkeys, TypeInv, TypeOK, Settings
  <2>2. ValidKeys(update.before.keys)
    BY <2>1 DEF StoreOK
  <2> QED
    BY <2>1, <2>2, ApplyBindings, ValidIsDistinct, Appliers
<1>4. CASE RetryApply
  <2>1. Apply(Retrier, retry.keys) /\ retry.phase = "read" /\ retry.keys \in Bindings
    BY <1>4 DEF RetryApply, TypeInv, TypeOK
  <2>2. ValidKeys(retry.keys)
    BY <2>1 DEF StoreOK
  <2> QED
    BY <2>1, <2>2, ApplyBindings, ValidIsDistinct, Appliers
<1>5. CASE Environment
  BY <1>0, <1>5, RegisterBindings, OutsideBindings DEF Environment
<1>6. CASE Lock \/ BeginAutostart \/ EndAutostart \/ HotkeysApplied \/ WriteStore
           \/ ReplaceCache \/ UndoStore \/ HotkeysUndone \/ UndoAutostart
           \/ AutostartUndone \/ Unlock
  BY <1>0, <1>6
     DEF Lock, BeginAutostart, EndAutostart, HotkeysApplied, WriteStore, ReplaceCache,
         UndoStore, HotkeysUndone, UndoAutostart, AutostartUndone, Unlock, Collect
<1>7. CASE StartRegistration \/ Running \/ Autosave \/ RetryRead \/ RetryEnd
           \/ UNCHANGED vars
  BY <1>0, <1>7 DEF StartRegistration, Running, Autosave, RetryRead, RetryEnd, Collect
<1> QED
  BY <1>1, <1>2, <1>3, <1>4, <1>5, <1>6, <1>7, StopBindings DEF Next

LEMMA BindingsInit == Init => BindingsOK
<1> SUFFICES ASSUME Init PROVE BindingsOK
  OBVIOUS
<1>1. registered = None /\ apply = NoApply
  BY DEF Init, HotkeyInit
<1>2. hook.pending = Nothing /\ hook.config = None
  BY DEF Init, HotkeyInit
<1>3. \A s \in Basic, a \in Action: system[s] # a
  BY OwnersDiffer DEF Init, HotkeyInit
<1>4. InForce = None
  BY <1>1 DEF InForce, NoApply
<1> QED
  BY <1>1, <1>2, <1>3, <1>4, NoneIsEmpty, OwnersDiffer DEF NoApply, BindingsOK, Told

\* The whole invariant (update_preferences).
LEMMA InvariantHolds == Spec => []IInv
<1>1. Init => IInv
  <2>1. Init => StoreOK /\ SyncOK /\ LoginOK
    BY IdleFields
       DEF Init, AutostartInit, StoreOK, SyncOK, LoginOK, NoSyncYet, SyncedPhase
  <2>2. Init => CallsOK /\ RaceOK /\ RecordOK
    BY IdleFields, Appliers
       DEF Init, HotkeyInit, NoApply, CallsOK, Asked, RaceOK, RecordOK
  <2> QED
    BY <2>1, <2>2, TypeInit, UndoInit, BindingsInit DEF IInv
<1>2. IInv /\ [Next]_vars => IInv'
  BY TypeStep, StoreStep, LoginStep, UndoStep, CallsStep, RecordStep, BindingsStep DEF IInv
<1> QED
  BY <1>1, <1>2, PTL DEF Spec

\* Whenever no call replaces the bindings and the hook has read its messages, the
\* shortcuts that reach an action are exactly those on record, for any bindings and
\* whatever other programs take (apply_preferences, apply_pending_config).
THEOREM BindingsCorrect == Spec => []NoStrayBindings
<1>1. IInv => NoStrayBindings
  <2> SUFFICES ASSUME IInv, apply.by = Nobody, hook.mail = 0, NEW a \in Action
               PROVE  Active(a) = {registered[a]} \ {NoKey}
    BY DEF NoStrayBindings
  <2>1. /\ hook.config = HookOf(registered) /\ (~hook.alive => hook.config = None)
        /\ \A s \in Basic: system[s] = a <=> registered[a] = s
        /\ registered[a] \in Basic \cup Hooked \cup {NoKey}
    BY DEF IInv, BindingsOK, Told, InForce, TypeInv, TypeOK, HotkeyTypeOK, Bindings, Shortcut
  <2>2. hook.config[a] = IF registered[a] \in Hooked THEN registered[a] ELSE NoKey
    BY <2>1 DEF HookOf
  <2>3. ~hook.alive => registered[a] \notin Hooked
    BY <2>1, <2>2, NoneIsEmpty, OwnersDiffer
  <2>4. {s \in Basic: system[s] = a} = {registered[a]} \cap Basic
    BY <2>1
  <2> QED
    BY <2>1, <2>2, <2>3, <2>4, OwnersDiffer DEF Active
<1> QED
  BY <1>1, InvariantHolds, PTL
=============================================================================
