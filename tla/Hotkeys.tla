------------------------------- MODULE Hotkeys -------------------------------
(***************************************************************************)
(* Global hotkeys (hotkey_service.rs and windows_hook_hotkey.rs): the      *)
(* bindings HotkeyService has on record, the system's table of shortcuts   *)
(* and the keyboard hook, a thread that takes its configuration from a     *)
(* slot when a message tells it to.  apply_preferences replaces all        *)
(* bindings under a lock; another program may take a shortcut meanwhile.   *)
(***************************************************************************)
EXTENDS Naturals

CONSTANTS
    Basic,        \* shortcuts the system registers
    Hooked,       \* shortcuts only the keyboard hook sees
    ModifierOnly, \* those of them made of modifier keys alone
    NoKey,        \* the action has no active shortcut
    Taken,        \* basic shortcuts other programs have at first
    Applier,      \* who may call apply_preferences
    MaxGrabs      \* bound: shortcuts other programs take or give back

ASSUME HotkeyAssumption ==
    /\ Basic \cap Hooked = {}
    /\ ModifierOnly \subseteq Hooked
    /\ NoKey \notin Basic \cup Hooked
    /\ MaxGrabs \in Nat

VARIABLES
    system,     \* who has each basic shortcut: an action, "free" or "other"
    hook,       \* the keyboard hook
    registered, \* the bindings HotkeyService has on record
    health,     \* its health status
    apply,      \* the call of apply_preferences that has the lock
    applied,    \* what the last call of each caller returned
    grabs       \* moves of other programs so far

hotkeyVars == <<system, hook, registered, health, apply, applied, grabs>>

\* Two of the five paste slots, in their order; a slot that is off, or has no
\* prompt, has no active shortcut.
Slot == {"paste1", "paste2"}
Action == {"shot", "toggle", "hold"} \cup Slot
Shortcut == Basic \cup Hooked
Bindings == [Action -> Shortcut \cup {NoKey}]
None == [a \in Action |-> NoKey]

BasicOf(b) == {b[a]: a \in Action} \cap Basic
HookOf(b) == [a \in Action |-> IF b[a] \in Hooked THEN b[a] ELSE NoKey]

Nobody == "nobody"
NoApply == [by |-> Nobody, phase |-> "idle", desired |-> None, previous |-> None]

\* Nothing: no configuration waits in the slot.
Nothing == [a \in {} |-> NoKey]

HotkeyTypeOK ==
    /\ system \in [Basic -> Action \cup {"free", "other"}]
    /\ hook \in [alive: BOOLEAN, mail: Nat, pending: Bindings \cup {Nothing},
                 config: Bindings]
    /\ registered \in Bindings
    /\ health \in {"uninitialized", "ready", "degraded"}
    /\ apply \in [by: Applier \cup {Nobody}, phase: {"idle", "register", "rollback"},
                  desired: Bindings, previous: Bindings]
    /\ applied \in [Applier -> {"none", "ok", "failed"}]
    /\ grabs \in 0..MaxGrabs

\* The hook could not be installed, or its thread waits for messages.
HotkeyInit ==
    /\ system = [s \in Basic |-> IF s \in Taken THEN "other" ELSE "free"]
    /\ hook \in [alive: BOOLEAN, mail: {0}, pending: {Nothing}, config: {None}]
    /\ registered = None
    /\ health = "uninitialized"
    /\ apply = NoApply
    /\ applied = [c \in Applier |-> "none"]
    /\ grabs = 0

----------------------------------------------------------------------------
\* apply_bindings and clear_bindings: the slot is overwritten and a message
\* posted; nothing happens when there is no hook.
Post(h, b) ==
    IF h.alive THEN [h EXCEPT !.pending = b, !.mail = @ + 1] ELSE h

\* (mutant) The hook keeps the bindings that are replaced.
NotCleared(h) == h

Cleared(h) == Post(h, None)

\* unregister_basic_bindings: the table without the basic shortcuts of b.
Without(table, b) ==
    [s \in Basic |-> IF s \in BasicOf(b) /\ table[s] # "other" THEN "free"
                     ELSE table[s]]

\* unregister_all.
WithoutOurs(table) ==
    [s \in Basic |-> IF table[s] = "other" THEN "other" ELSE "free"]

BasicsAreFree(b) == \A s \in BasicOf(b): system[s] # "other"
HasHooks(b) == HookOf(b) # None

RegisterSucceeds(b) == BasicsAreFree(b) /\ (HasHooks(b) => hook.alive)

\* register_bindings: what a call for b leaves behind, registered or not.
Table(b) ==
    IF RegisterSucceeds(b)
      THEN [s \in Basic |-> IF s \in BasicOf(b)
                              THEN CHOOSE a \in Action: b[a] = s
                              ELSE WithoutOurs(system)[s]]
      ELSE WithoutOurs(system)

Hook(b) ==
    IF RegisterSucceeds(b) /\ HasHooks(b) THEN Post(hook, HookOf(b))
    ELSE IF ~RegisterSucceeds(b) /\ BasicsAreFree(b) THEN Cleared(hook)
    ELSE hook

Return(c, result) == /\ applied' = [applied EXCEPT ![c] = result]
                     /\ apply' = NoApply

\* The record already says what is asked for: nothing is registered anew.
ApplySame(c, desired) ==
    /\ apply.by = Nobody
    /\ registered = desired
    /\ health' = "ready"
    /\ Return(c, "ok")
    /\ UNCHANGED <<system, hook, registered, grabs>>

ApplyBegin(c, desired) ==
    /\ apply.by = Nobody
    /\ registered # desired
    /\ system' = Without(system, registered)
    /\ hook' = IF HasHooks(registered) THEN Cleared(hook) ELSE hook
    /\ apply' = [by |-> c, phase |-> "register", desired |-> desired,
                 previous |-> registered]
    /\ UNCHANGED <<registered, health, applied, grabs>>

Apply(c, desired) == ApplySame(c, desired) \/ ApplyBegin(c, desired)

ApplyRegister ==
    /\ apply.phase = "register"
    /\ system' = Table(apply.desired)
    /\ hook' = Hook(apply.desired)
    /\ IF RegisterSucceeds(apply.desired)
         THEN /\ registered' = apply.desired
              /\ health' = "ready"
              /\ Return(apply.by, "ok")
         ELSE /\ apply' = [apply EXCEPT !.phase = "rollback"]
              /\ UNCHANGED <<registered, health, applied>>
    /\ UNCHANGED grabs

ApplyRollback ==
    /\ apply.phase = "rollback"
    /\ system' = Table(apply.previous)
    /\ hook' = Hook(apply.previous)
    /\ registered' = IF RegisterSucceeds(apply.previous) THEN apply.previous ELSE None
    /\ health' = "degraded"
    /\ Return(apply.by, "failed")
    /\ UNCHANGED grabs

----------------------------------------------------------------------------
\* apply_pending_config: the first message takes what is in the slot; the
\* messages after it find the slot empty.
HookReads ==
    /\ hook.alive
    /\ hook.mail > 0
    /\ IF hook.pending = Nothing
         THEN hook' = [hook EXCEPT !.mail = @ - 1]
         ELSE hook' = [hook EXCEPT !.mail = @ - 1, !.config = hook.pending,
                                   !.pending = Nothing]
    /\ UNCHANGED <<system, registered, health, apply, applied, grabs>>

\* Another program registers a shortcut, or gives one back.
OtherProgram ==
    /\ grabs < MaxGrabs
    /\ grabs' = grabs + 1
    /\ \E s \in Basic:
         \/ system[s] = "free" /\ system' = [system EXCEPT ![s] = "other"]
         \/ system[s] = "other" /\ system' = [system EXCEPT ![s] = "free"]
    /\ UNCHANGED <<hook, registered, health, apply, applied>>

\* The shortcuts that reach an action of ours when they are pressed.
Active(a) == {s \in Basic: system[s] = a}
               \cup (IF hook.alive THEN {hook.config[a]} \ {NoKey} ELSE {})
=============================================================================
