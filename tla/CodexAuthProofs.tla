--------------------------- MODULE CodexAuthProofs ---------------------------
(***************************************************************************)
(* Theorems about CodexAuth, for every set of profiles, homes, contents    *)
(* and callers and every number of outside events.                         *)
(*                                                                         *)
(* The argument is mutual exclusion: a caller in a phase after the lock is *)
(* the one that holds it (LockOK), so that nobody else has touched rows,   *)
(* files or the active profile since it read them (HolderOK).  While it    *)
(* switches, the files it would put back are those of the active profile   *)
(* (AgreedOK).                                                             *)
(***************************************************************************)
EXTENDS CodexAuth, FiniteSetTheorems, TLAPS

PartRow == [home: Home, auth: Content \cup {None}, config: Config, quota: Content \cup {None}]
Task == [at: Phase, profile: Profile \cup {None},
         row: {None} \cup PartRow \cup [Profile -> Row \cup {None}],
         old: Files \cup {None}, last: SUBSET Profile, todo: SUBSET Profile,
         marking: BOOLEAN, clean: BOOLEAN, alone: BOOLEAN]

Types ==
    /\ rows \in [Profile -> Row \cup {None}]
    /\ active \in SUBSET {p \in Profile: rows[p] \in Row}
    /\ live \in [Home -> Files]
    /\ task \in [Caller -> Task]
    /\ agreed \in BOOLEAN

AtMostOne(S) == \A p, q \in S: p = q

\* Only the holder of the lock is past it.
LockOK == \A c \in Caller: task[c].at \in Locked => mutation = c

\* What a caller's phase says about what it carries.
Carries(c) ==
    /\ AtMostOne(task[c].last)
    /\ At(c, "importAuth") => task[c].row \in PartRow
    /\ task[c].at \in {"importConfig", "import", "upsert"} \cup Writing => task[c].row \in Row
    /\ task[c].at \in {"upsert", "delete", "read", "look"} \cup Writing => task[c].profile \in Profile
    /\ task[c].at \in Writing => task[c].old \in Files
    /\ task[c].at \notin Writing \cup {"failed"}
         => task[c].old = None /\ task[c].clean = TRUE /\ task[c].alone = TRUE

LiveAt(c) == live[task[c].row.home]
Matches(files, r) == files.auth = r.auth /\ files.config = r.config

\* What the holder has read or done is still so.
HolderOK(c) ==
    /\ At(c, "quota") => \A p \in task[c].todo: task[c].row[p] = rows[p]
    /\ task[c].at \in Writing => rows[task[c].profile] = task[c].row /\ active = task[c].last
    /\ task[c].alone = TRUE =>
         /\ At(c, "auth") => LiveAt(c) = task[c].old
         /\ At(c, "config") => LiveAt(c).auth = task[c].row.auth
         /\ At(c, "mark") => Matches(LiveAt(c), task[c].row)
         /\ task[c].clean = TRUE =>
              /\ At(c, "undoConfig") => LiveAt(c).auth = task[c].old.auth
              /\ At(c, "undoActive") => LiveAt(c) = task[c].old
              /\ At(c, "failed") /\ task[c].old # None
                   => LiveAt(c) = task[c].old /\ active = task[c].last

\* The files agree with the active profile, or will once the switch is undone.
Agreed == agreed = TRUE => \A p \in active: Matches(live[rows[p].home], rows[p])
AgreedOnceUndone(c) ==
    agreed = TRUE =>
      /\ task[c].alone = TRUE /\ task[c].clean = TRUE
      /\ \A p \in active:
           IF rows[p].home = task[c].row.home THEN Matches(task[c].old, rows[p])
           ELSE Matches(live[rows[p].home], rows[p])

AgreedOK ==
    /\ (\A c \in Caller: task[c].at \notin Writing) => Agreed
    /\ \A c \in Caller: task[c].at \in Writing => AgreedOnceUndone(c)

IInv ==
    /\ Types
    /\ AtMostOne(active)
    /\ LockOK
    /\ \A c \in Caller: Carries(c) /\ HolderOK(c)
    /\ AgreedOK

-----------------------------------------------------------------------------
(* Steps of one caller. *)

OthersStay(c) == \A d \in Caller \ {c}: task'[d] = task[d]

\* A caller that has been called has nothing yet (AppState::codex_auth).
LEMMA IdleType ==
    ASSUME NEW w \in Phase
    PROVE  /\ [Idle EXCEPT !.at = w] \in Task /\ [Idle EXCEPT !.at = w].at = w
           /\ [Idle EXCEPT !.at = w].last = {} /\ [Idle EXCEPT !.at = w].old = None
           /\ [Idle EXCEPT !.at = w].clean = TRUE /\ [Idle EXCEPT !.at = w].alone = TRUE
  BY DEF Idle, Task, Phase, Locked

\* Idle itself.
LEMMA IdleIs ==
    /\ Idle \in Task /\ Idle.at = "idle" /\ Idle.last = {} /\ Idle.old = None
    /\ Idle.clean = TRUE /\ Idle.alone = TRUE /\ Idle.row = None /\ Idle.todo = {}
  BY DEF Idle, Task, Phase

\* A caller that goes on to its next phase keeps what it carries (switch_profile).
LEMMA Went ==
    ASSUME Types, NEW c \in Caller, NEW w \in Phase, Go(c, w)
    PROVE  /\ task' \in [Caller -> Task] /\ OthersStay(c) /\ task'[c].at = w
           /\ task'[c].profile = task[c].profile /\ task'[c].row = task[c].row
           /\ task'[c].old = task[c].old /\ task'[c].last = task[c].last
           /\ task'[c].todo = task[c].todo /\ task'[c].marking = task[c].marking
           /\ task'[c].clean = task[c].clean /\ task'[c].alone = task[c].alone
<1>1. task \in [Caller -> Task] /\ task' = [task EXCEPT ![c].at = w]
  BY DEF Types, Go
<1>2. task[c] \in Task /\ task'[c] = [task[c] EXCEPT !.at = w]
  BY <1>1
<1>3. /\ [task[c] EXCEPT !.at = w] \in Task /\ task'[c].at = w
      /\ task'[c].profile = task[c].profile /\ task'[c].row = task[c].row
      /\ task'[c].old = task[c].old /\ task'[c].last = task[c].last
      /\ task'[c].todo = task[c].todo /\ task'[c].marking = task[c].marking
      /\ task'[c].clean = task[c].clean /\ task'[c].alone = task[c].alone
  BY <1>2 DEF Task
<1>4. task' \in [Caller -> Task] /\ OthersStay(c)
  BY <1>1, <1>3 DEF OthersStay
<1> QED
  BY <1>3, <1>4

\* A caller that is done has nothing left (switch_profile, query_quota).
LEMMA Finished ==
    ASSUME Types, NEW c \in Caller, Done(c)
    PROVE  /\ task' \in [Caller -> Task] /\ OthersStay(c) /\ task'[c].at = "done"
           /\ task'[c].old = None /\ task'[c].last = {}
           /\ task'[c].clean = TRUE /\ task'[c].alone = TRUE
<1>1. "done" \in Phase
  BY DEF Phase, Locked
<1>2. task \in [Caller -> Task] /\ task' = [task EXCEPT ![c] = [Idle EXCEPT !.at = "done"]]
  BY DEF Types, Done
<1> DEFINE t == [Idle EXCEPT !.at = "done"]
<1>3. t \in Task /\ t.at = "done" /\ t.old = None /\ t.last = {} /\ t.clean = TRUE /\ t.alone = TRUE
  BY <1>1, IdleType
<1> HIDE DEF t
<1>4. task' = [task EXCEPT ![c] = t]
  BY <1>2 DEF t
<1> QED
  BY <1>2, <1>3, <1>4 DEF OthersStay

\* Whoever is past the lock is alone there (profile_mutation_lock).
LEMMA Alone ==
    ASSUME IInv, NEW c \in Caller, task[c].at \in Locked, NEW d \in Caller \ {c}
    PROVE  task[d].at \notin Locked
  BY DEF IInv, LockOK

\* Nothing is claimed of a caller that is not past the lock.
LEMMA NoClaim ==
    ASSUME NEW c \in Caller, task[c].at \notin Locked
    PROVE  HolderOK(c) /\ task[c].at \notin Writing
  BY DEF HolderOK, Locked, At, Writing, Undoing

\* A step of the holder: what it leaves is all there is to show.
LEMMA HolderStep ==
    ASSUME IInv, NEW c \in Caller, task[c].at \in Locked, task'[c].at \in Locked,
           Types', AtMostOne(active)', OthersStay(c), UNCHANGED mutation,
           Carries(c)', HolderOK(c)',
           task'[c].at \in Writing => AgreedOnceUndone(c)',
           task'[c].at \notin Writing => Agreed'
    PROVE  IInv'
<1>1. \A d \in Caller \ {c}: task[d].at \notin Locked /\ task'[d] = task[d]
  BY Alone DEF OthersStay
<1>2. mutation' = c
  BY DEF IInv, LockOK
<1>3. LockOK'
  BY <1>1, <1>2 DEF LockOK
<1>4. \A d \in Caller: Carries(d)'
  BY <1>1 DEF IInv, Carries, At
<1>5. \A d \in Caller \ {c}: task'[d].at \notin Writing /\ HolderOK(d)'
  BY <1>1 DEF HolderOK, Locked, At, Writing, Undoing
<1>6. AgreedOK'
  BY <1>5 DEF AgreedOK
<1> QED
  BY <1>3, <1>4, <1>5, <1>6 DEF IInv

\* A step of a caller that is not past the lock changes nothing but the caller.
LEMMA OuterStep ==
    ASSUME IInv, NEW c \in Caller, task[c].at \notin Locked,
           task' \in [Caller -> Task], OthersStay(c),
           UNCHANGED <<rows, active, live, agreed>>,
           Carries(c)', HolderOK(c)', task'[c].at \notin Writing,
           \/ task'[c].at \notin Locked /\ UNCHANGED mutation
           \/ mutation = None /\ mutation' = c
    PROVE  IInv'
<1>1. \A d \in Caller \ {c}: task'[d] = task[d]
  BY DEF OthersStay
<1>2. task[c].at \notin Writing
  BY NoClaim
<1>3. LockOK'
  BY <1>1, CodexAuthAssumption DEF IInv, LockOK
<1>4. \A d \in Caller: Carries(d)'
  BY <1>1 DEF IInv, Carries, At
<1>5. \A d \in Caller: HolderOK(d)'
  BY <1>1 DEF IInv, HolderOK, At, LiveAt
<1>6. AgreedOK'
  BY <1>1, <1>2 DEF IInv, AgreedOK, Agreed, AgreedOnceUndone
<1>7. Types'
  BY DEF IInv, Types
<1> QED
  BY <1>3, <1>4, <1>5, <1>6, <1>7 DEF IInv, AtMostOne

\* A request that gets the lock (upsert_profile, delete_profile, switch_profile).
LEMMA CallStep ==
    ASSUME IInv, NEW c \in Caller, NEW t \in Task, Call(c, t),
           t.at \in {"upsert", "delete", "read", "look", "list"},
           t.last = {}, t.old = None, t.clean = TRUE, t.alone = TRUE,
           t.at = "upsert" => t.row \in Row, t.at # "list" => t.profile \in Profile
    PROVE  IInv'
<1>1. /\ task[c].at = "idle" /\ mutation = None /\ mutation' = c
      /\ task' = [task EXCEPT ![c] = t] /\ UNCHANGED <<rows, active, live, agreed>>
  BY DEF Call, At, Lock, KeepData
<1>2. task' \in [Caller -> Task] /\ OthersStay(c) /\ task'[c] = t
  BY <1>1 DEF IInv, Types, OthersStay
<1>3. task[c].at \notin Locked
  BY <1>1 DEF Locked, Writing, Undoing
<1>4. task'[c].at \notin Writing
  BY <1>2 DEF Writing, Undoing
<1>5. Carries(c)'
  BY <1>2 DEF Carries, At, Writing, Undoing, AtMostOne
<1>6. HolderOK(c)'
  BY <1>2 DEF HolderOK, At, Writing, Undoing
<1> QED
  BY <1>1, <1>2, <1>3, <1>4, <1>5, <1>6, OuterStep

\* upsert_profile.
LEMMA UpsertStep ==
    ASSUME IInv, NEW c \in Caller, NEW p \in Profile, NEW row \in Row, Upsert(c, p, row)
    PROVE  IInv'
<1> DEFINE t == [Idle EXCEPT !.at = "upsert", !.profile = p, !.row = row]
<1>1. row \in PartRow
  BY DEF Row, PartRow
<1>2. /\ t \in Task /\ t.at = "upsert" /\ t.profile = p /\ t.row = row
      /\ t.last = {} /\ t.old = None /\ t.clean = TRUE /\ t.alone = TRUE
  BY <1>1 DEF Idle, Task, Phase, Locked
<1>3. Call(c, t)
  BY DEF Upsert
<1> HIDE DEF t
<1> QED
  BY <1>2, <1>3, CallStep

\* delete_profile, switch_profile and query_quota, which all name a profile.
LEMMA ProfileCall ==
    ASSUME IInv, NEW c \in Caller, NEW p \in Profile, NEW w \in {"delete", "read", "look"},
           Call(c, [Idle EXCEPT !.at = w, !.profile = p])
    PROVE  IInv'
<1> DEFINE t == [Idle EXCEPT !.at = w, !.profile = p]
<1>1. w \in Phase
  BY DEF Phase, Locked
<1>2. /\ t \in Task /\ t.at = w /\ t.profile = p
      /\ t.last = {} /\ t.old = None /\ t.clean = TRUE /\ t.alone = TRUE
  BY <1>1 DEF Idle, Task
<1>3. Call(c, t)
  OBVIOUS
<1> HIDE DEF t
<1>4. t.at \in {"upsert", "delete", "read", "look", "list"} /\ t.at # "upsert"
  BY <1>2
<1> QED
  BY <1>2, <1>3, <1>4, CallStep

\* refresh_all_quotas.
LEMMA RefreshAllStep ==
    ASSUME IInv, NEW c \in Caller, RefreshAll(c)
    PROVE  IInv'
<1> DEFINE t == [Idle EXCEPT !.at = "list"]
<1>1. "list" \in Phase
  BY DEF Phase, Locked
<1>2. /\ t \in Task /\ t.at = "list"
      /\ t.last = {} /\ t.old = None /\ t.clean = TRUE /\ t.alone = TRUE
  BY <1>1, IdleType
<1>3. Call(c, t)
  BY DEF RefreshAll
<1> HIDE DEF t
<1> QED
  BY <1>2, <1>3, CallStep

\* An import begins without the lock (import_current_profile).
LEMMA ImportStep ==
    ASSUME IInv, NEW c \in Caller, NEW h \in Home, Import(c, h)
    PROVE  IInv'
<1> DEFINE r == [home |-> h, auth |-> None, config |-> Empty, quota |-> None]
           t == [Idle EXCEPT !.at = "importAuth", !.row = r]
<1>1. r \in PartRow
  BY DEF PartRow, Config
<1>2. /\ t \in Task /\ t.at = "importAuth" /\ t.row = r
      /\ t.last = {} /\ t.old = None /\ t.clean = TRUE /\ t.alone = TRUE
  BY <1>1 DEF Idle, Task, Phase
<1>3. /\ task[c].at = "idle" /\ UNCHANGED <<rows, active, live, agreed, mutation>>
      /\ task' = [task EXCEPT ![c] = t]
  BY DEF Import, At, KeepData, Keep
<1> HIDE DEF t, r
<1>4. task' \in [Caller -> Task] /\ OthersStay(c) /\ task'[c] = t
  BY <1>2, <1>3 DEF IInv, Types, OthersStay
<1>5. task[c].at \notin Locked /\ task'[c].at \notin Locked /\ task'[c].at \notin Writing
  BY <1>2, <1>3, <1>4 DEF Locked, Writing, Undoing
<1>6. Carries(c)'
  BY <1>1, <1>2, <1>4 DEF Carries, At, Writing, Undoing, AtMostOne
<1>7. HolderOK(c)'
  BY <1>2, <1>4 DEF HolderOK, At, Writing, Undoing
<1> QED
  BY <1>3, <1>4, <1>5, <1>6, <1>7, OuterStep

\* An import that ends without a profile (import_current_profile).
LEMMA ImportEnds ==
    ASSUME IInv, NEW c \in Caller, task[c].at \notin Locked,
           task' = [task EXCEPT ![c] = Idle], UNCHANGED <<rows, active, live, agreed, mutation>>
    PROVE  IInv'
<1>1. task' \in [Caller -> Task] /\ OthersStay(c) /\ task'[c] = Idle
  BY IdleIs DEF IInv, Types, OthersStay
<1>2. task'[c].at \notin Locked /\ task'[c].at \notin Writing
  BY <1>1, IdleIs DEF Locked, Writing, Undoing
<1>3. Carries(c)'
  BY <1>1, IdleIs DEF Carries, At, Writing, Undoing, AtMostOne
<1>4. HolderOK(c)'
  BY <1>1, IdleIs DEF HolderOK, At, Writing, Undoing
<1> QED
  BY <1>1, <1>2, <1>3, <1>4, OuterStep

\* The first file is read.
LEMMA ImportAuthStep ==
    ASSUME IInv, NEW c \in Caller, ImportAuth(c)
    PROVE  IInv'
<1> DEFINE found == live[task[c].row.home].auth
<1>1. task[c].at = "importAuth" /\ UNCHANGED <<rows, active, live, agreed, mutation>>
  BY DEF ImportAuth, At, KeepData, Keep
<1>2. task[c].at \notin Locked
  BY <1>1 DEF Locked, Writing, Undoing
<1>3. CASE found = None
  BY <1>1, <1>2, <1>3, ImportEnds DEF ImportAuth
<1>4. CASE found # None
  <2>1. task[c] \in Task /\ task[c].row \in PartRow /\ task \in [Caller -> Task]
    BY <1>1 DEF IInv, Types, Carries, At
  <2>2. found \in Content
    <3>1. live[task[c].row.home] \in Files
      BY <2>1 DEF IInv, Types, PartRow
    <3> QED
      BY <1>4, <3>1 DEF Files
  <2> DEFINE r == [task[c].row EXCEPT !.auth = found]
  <2>3. r \in Row
    <3> HIDE DEF found
    <3> QED
      BY <2>1, <2>2 DEF PartRow, Row
  <2>4. task' = [task EXCEPT ![c].row.auth = found, ![c].at = "importConfig"]
    BY <1>4 DEF ImportAuth
  <2> DEFINE t == [task[c] EXCEPT !.row = r, !.at = "importConfig"]
  <2>5. task' = [task EXCEPT ![c] = t]
    BY <2>1, <2>4
  <2>6. r \in PartRow
    BY <2>3 DEF Row, PartRow
  <2>7. /\ t \in Task /\ t.at = "importConfig" /\ t.row = r /\ t.last = task[c].last
        /\ t.old = task[c].old /\ t.clean = task[c].clean /\ t.alone = task[c].alone
    <3> HIDE DEF r
    <3> QED
      BY <2>1, <2>6 DEF Task, Phase
  <2> HIDE DEF t, r, found
  <2>8. task' \in [Caller -> Task] /\ OthersStay(c) /\ task'[c] = t
    BY <2>1, <2>5, <2>7 DEF OthersStay
  <2>9. task'[c].at \notin Locked /\ task'[c].at \notin Writing
    BY <2>7, <2>8 DEF Locked, Writing, Undoing
  <2>10. Carries(c)'
    BY <1>1, <2>3, <2>7, <2>8 DEF IInv, Carries, At, Writing, Undoing, AtMostOne
  <2>11. HolderOK(c)'
    BY <2>7, <2>8 DEF HolderOK, At, Writing, Undoing
  <2> QED
    BY <1>1, <1>2, <2>8, <2>9, <2>10, <2>11, OuterStep
<1> QED
  BY <1>3, <1>4

\* The second file is read.
LEMMA ImportConfigStep ==
    ASSUME IInv, NEW c \in Caller, ImportConfig(c)
    PROVE  IInv'
<1> DEFINE found == live[task[c].row.home].config
           g == IF found = None THEN Empty ELSE found
<1>1. task[c].at = "importConfig" /\ UNCHANGED <<rows, active, live, agreed, mutation>>
  BY DEF ImportConfig, At, KeepData, Keep
<1>2. task[c].at \notin Locked
  BY <1>1 DEF Locked, Writing, Undoing
<1>3. task[c] \in Task /\ task[c].row \in Row /\ task \in [Caller -> Task]
  BY <1>1 DEF IInv, Types, Carries, At
<1>4. g \in Config
  <2>1. live[task[c].row.home] \in Files
    BY <1>3 DEF IInv, Types, Row
  <2> QED
    BY <2>1 DEF Files, Config
<1> DEFINE r == [task[c].row EXCEPT !.config = g]
<1>5. r \in Row
  <2> HIDE DEF g, found
  <2> QED
    BY <1>3, <1>4 DEF Row
<1> DEFINE t == [task[c] EXCEPT !.row = r, !.at = "import"]
<1>6. task' = [task EXCEPT ![c] = t]
  <2>1. task' = [task EXCEPT ![c].row.config = g, ![c].at = "import"]
    BY DEF ImportConfig
  <2> QED
    BY <1>3, <2>1
<1>7. r \in PartRow
  BY <1>5 DEF Row, PartRow
<1>8. /\ t \in Task /\ t.at = "import" /\ t.row = r /\ t.last = task[c].last
      /\ t.old = task[c].old /\ t.clean = task[c].clean /\ t.alone = task[c].alone
  <2> HIDE DEF r
  <2> QED
    BY <1>3, <1>7 DEF Task, Phase
<1> HIDE DEF t, r, found, g
<1>9. task' \in [Caller -> Task] /\ OthersStay(c) /\ task'[c] = t
  BY <1>3, <1>6, <1>8 DEF OthersStay
<1>10. task'[c].at \notin Locked /\ task'[c].at \notin Writing
  BY <1>8, <1>9 DEF Locked, Writing, Undoing
<1>11. Carries(c)'
  BY <1>1, <1>5, <1>8, <1>9 DEF IInv, Carries, At, Writing, Undoing, AtMostOne
<1>12. HolderOK(c)'
  BY <1>8, <1>9 DEF HolderOK, At, Writing, Undoing
<1> QED
  BY <1>1, <1>2, <1>9, <1>10, <1>11, <1>12, OuterStep

\* A file cannot be read.
LEMMA ImportFailsStep ==
    ASSUME IInv, NEW c \in Caller, ImportFails(c)
    PROVE  IInv'
<1>1. task[c].at \notin Locked
  BY DEF ImportFails, Locked, Writing, Undoing
<1> QED
  BY <1>1, ImportEnds DEF ImportFails, KeepData, Keep

\* The import goes on under the lock, with an id that is not in use.
LEMMA ImportLocksStep ==
    ASSUME IInv, NEW c \in Caller, ImportLocks(c)
    PROVE  IInv'
<1>1. /\ task[c].at = "import" /\ mutation = None /\ mutation' = c
      /\ UNCHANGED <<rows, active, live, agreed>>
  BY DEF ImportLocks, At, Lock, KeepData
<1>2. PICK p \in Profile: task' = [task EXCEPT ![c].profile = p, ![c].at = "upsert"]
  BY DEF ImportLocks
<1>3. task[c] \in Task /\ task \in [Caller -> Task]
  BY DEF IInv, Types
<1> DEFINE t == [task[c] EXCEPT !.profile = p, !.at = "upsert"]
<1>4. task' = [task EXCEPT ![c] = t]
  BY <1>2, <1>3
<1>5. /\ t \in Task /\ t.at = "upsert" /\ t.profile = p /\ t.row = task[c].row
      /\ t.last = task[c].last /\ t.old = task[c].old /\ t.clean = task[c].clean
      /\ t.alone = task[c].alone
  BY <1>3 DEF Task, Phase, Locked
<1> HIDE DEF t
<1>6. task' \in [Caller -> Task] /\ OthersStay(c) /\ task'[c] = t
  BY <1>3, <1>4, <1>5 DEF OthersStay
<1>7. task[c].at \notin Locked /\ task'[c].at \notin Writing
  BY <1>1, <1>5, <1>6 DEF Locked, Writing, Undoing
<1>8. Carries(c)'
  BY <1>1, <1>5, <1>6 DEF IInv, Carries, At, Writing, Undoing, AtMostOne
<1>9. HolderOK(c)'
  BY <1>5, <1>6 DEF HolderOK, At, Writing, Undoing
<1> QED
  BY <1>1, <1>6, <1>7, <1>8, <1>9, OuterStep

-----------------------------------------------------------------------------
(* Steps under the lock. *)

\* The caller that has the lock gives it back.
LEMMA UnlockStep ==
    ASSUME IInv, NEW c \in Caller, Unlock(c)
    PROVE  IInv'
<1>1. /\ task[c].at \in {"done", "failed"} /\ UNCHANGED <<rows, active, live, agreed>>
      /\ task' = [task EXCEPT ![c] = Idle]
  BY DEF Unlock, KeepData
<1>2. task[c].at \in Locked /\ task[c].at \notin Writing
  BY <1>1 DEF Locked, Writing, Undoing
<1>3. task' \in [Caller -> Task] /\ OthersStay(c) /\ task'[c] = Idle
  BY <1>1, IdleIs DEF IInv, Types, OthersStay
<1>4. \A d \in Caller \ {c}: task'[d] = task[d] /\ task[d].at \notin Locked
  BY <1>2, <1>3, Alone DEF OthersStay
<1>5. task'[c].at \notin Locked /\ task'[c].at \notin Writing
  BY <1>3, IdleIs DEF Locked, Writing, Undoing
<1>6. \A d \in Caller: task'[d].at \notin Locked /\ task'[d].at \notin Writing /\ task[d].at \notin Writing
  BY <1>2, <1>4, <1>5 DEF Locked
<1>7. LockOK'
  BY <1>6 DEF LockOK
<1>8. Carries(c)'
  BY <1>3, IdleIs DEF Carries, At, Writing, Undoing, AtMostOne
<1>9. \A d \in Caller: Carries(d)'
  BY <1>4, <1>8 DEF IInv, Carries, At
<1>10. \A d \in Caller: HolderOK(d)'
  BY <1>6 DEF HolderOK, At, Locked, Writing, Undoing
<1>11. AgreedOK'
  BY <1>1, <1>6 DEF IInv, AgreedOK, Agreed
<1>12. Types' /\ AtMostOne(active)'
  BY <1>1, <1>3 DEF IInv, Types, AtMostOne
<1> QED
  BY <1>7, <1>9, <1>10, <1>11, <1>12 DEF IInv

\* A phase that no switch has begun in carries nothing to undo.
LEMMA Fresh ==
    ASSUME IInv, NEW c \in Caller, task[c].at \in Locked \ (Writing \cup {"failed"})
    PROVE  /\ task[c].old = None /\ task[c].clean = TRUE /\ task[c].alone = TRUE
           /\ AtMostOne(task[c].last) /\ Agreed /\ task[c] \in Task
<1>1. \A d \in Caller: task[d].at \notin Writing
  BY Alone DEF Locked
<1> QED
  BY <1>1 DEF IInv, Carries, AgreedOK, Types

\* The holder goes on and touches only rows: what it was not switching it is not.
LEMMA PlainStep ==
    ASSUME IInv, NEW c \in Caller, task[c].at \in Locked \ (Writing \cup {"failed"}),
           task'[c].at \in {"failed", "done", "quota"}, Types', AtMostOne(active)', OthersStay(c),
           UNCHANGED mutation, AtMostOne(task'[c].last), task'[c].old = None,
           task'[c].clean = TRUE, task'[c].alone = TRUE, Agreed',
           task'[c].at = "quota" => \A p \in task'[c].todo: task'[c].row[p] = rows'[p]
    PROVE  IInv'
<1>1. task'[c].at \in Locked /\ task'[c].at \notin Writing
  BY DEF Locked, Writing, Undoing
<1>2. Carries(c)'
  BY DEF Carries, At, Writing, Undoing, AtMostOne
<1>3. HolderOK(c)'
  BY DEF HolderOK, At, Writing, Undoing
<1> QED
  BY <1>1, <1>2, <1>3, HolderStep

\* The plain phases, by name.
LEMMA PlainPhases ==
    {"upsert", "delete", "read", "look", "list", "quota"} \subseteq Locked \ (Writing \cup {"failed"})
  BY DEF Locked, Writing, Undoing

\* The holder fails, with the same rows, files and active profile.
LEMMA FailedPlainly ==
    ASSUME IInv, NEW c \in Caller, task[c].at \in Locked \ (Writing \cup {"failed"}),
           Go(c, "failed"), UNCHANGED <<live, agreed, mutation>>,
           rows' \in [Profile -> Row \cup {None}], AtMostOne(active)',
           active' \subseteq {p \in Profile: rows'[p] \in Row},
           Agreed'
    PROVE  IInv'
<1>1. "failed" \in Phase
  BY DEF Phase, Locked
<1>2. /\ task' \in [Caller -> Task] /\ OthersStay(c) /\ task'[c].at = "failed"
      /\ task'[c].old = task[c].old /\ task'[c].last = task[c].last
      /\ task'[c].clean = task[c].clean /\ task'[c].alone = task[c].alone
  BY <1>1, Went DEF IInv
<1>3. /\ task[c].old = None /\ task[c].clean = TRUE /\ task[c].alone = TRUE
      /\ AtMostOne(task[c].last)
  BY Fresh
<1>4. Types'
  BY <1>2 DEF IInv, Types
<1> QED
  BY <1>2, <1>3, <1>4, PlainStep

\* The holder is done.
LEMMA DonePlainly ==
    ASSUME IInv, NEW c \in Caller, task[c].at \in Locked \ (Writing \cup {"failed"}),
           Done(c), UNCHANGED <<live, mutation>>, agreed' \in BOOLEAN,
           rows' \in [Profile -> Row \cup {None}], AtMostOne(active)',
           active' \subseteq {p \in Profile: rows'[p] \in Row},
           Agreed'
    PROVE  IInv'
<1>1. /\ task' \in [Caller -> Task] /\ OthersStay(c) /\ task'[c].at = "done"
      /\ task'[c].old = None /\ task'[c].last = {}
      /\ task'[c].clean = TRUE /\ task'[c].alone = TRUE
  BY Finished DEF IInv
<1>2. AtMostOne(task'[c].last)
  BY <1>1 DEF AtMostOne
<1>3. Types'
  BY <1>1 DEF IInv, Types
<1> QED
  BY <1>1, <1>2, <1>3, PlainStep

\* A step that fails with nothing changed.
LEMMA FailsStep ==
    ASSUME IInv, NEW c \in Caller, Fails(c)
    PROVE  IInv'
<1>1. task[c].at \in Locked \ (Writing \cup {"failed"})
  BY PlainPhases DEF Fails
<1>2. UNCHANGED <<rows, active, live, agreed, mutation>> /\ Go(c, "failed")
  BY DEF Fails, KeepData, Keep
<1>3. Agreed'
  BY <1>1, <1>2, Fresh DEF Agreed
<1> QED
  BY <1>1, <1>2, <1>3, FailedPlainly DEF IInv, Types, AtMostOne

\* What an upsert stores has the files it was given, and keeps the quota
\* (upsert_codex_auth_profile).
LEMMA SavedIs ==
    ASSUME NEW old \in Row \cup {None}, NEW row \in Row
    PROVE  /\ Saved(old, row) \in Row /\ Saved(old, row).home = row.home
           /\ Saved(old, row).auth = row.auth /\ Saved(old, row).config = row.config
           /\ old # None => Saved(old, row).quota = old.quota
<1>1. CASE old = None
  BY <1>1 DEF Saved
<1>2. CASE old # None /\ old \in Row
  <2>1. old.quota \in Content \cup {None}
    BY <1>2 DEF Row
  <2> QED
    BY <1>2, <2>1 DEF Saved, Row
<1> QED
  BY <1>1, <1>2

\* A row that stays active with other files ends the agreement (upsert_profile).
LEMMA WriteRowStep ==
    ASSUME IInv, NEW c \in Caller, WriteRow(c)
    PROVE  IInv'
<1> DEFINE p == task[c].profile
           new == Saved(rows[p], task[c].row)
<1>1. task[c].at = "upsert" /\ UNCHANGED <<active, live, mutation>> /\ Done(c)
  BY DEF WriteRow, At, Keep
<1>2. task[c].at \in Locked \ (Writing \cup {"failed"})
  BY <1>1, PlainPhases
<1>3. p \in Profile /\ task[c].row \in Row /\ rows[p] \in Row \cup {None} /\ rows \in [Profile -> Row \cup {None}]
  BY <1>1 DEF IInv, Types, Carries
<1>4. /\ new \in Row /\ new.home = task[c].row.home
      /\ new.auth = task[c].row.auth /\ new.config = task[c].row.config
  BY <1>3, SavedIs
<1>5. rows' = [rows EXCEPT ![p] = new]
  BY DEF WriteRow
<1>6. agreed' = (agreed /\ (p \in active => SameFiles(rows[p], task[c].row)))
  BY DEF WriteRow
<1> HIDE DEF p, new
<1>7. rows' \in [Profile -> Row \cup {None}] /\ active' \subseteq {q \in Profile: rows'[q] \in Row}
  BY <1>1, <1>3, <1>4, <1>5 DEF IInv, Types
<1>8. agreed' \in BOOLEAN
  BY <1>6
<1>9. Agreed'
  <2> SUFFICES ASSUME agreed' = TRUE, NEW q \in active PROVE Matches(live[rows'[q].home], rows'[q])
    BY <1>1 DEF Agreed
  <2>1. agreed = TRUE
    BY <1>6 DEF IInv, Types
  <2>2. Matches(live[rows[q].home], rows[q])
    BY <1>2, <2>1, Fresh DEF Agreed
  <2>3. CASE q = p
    <3>1. SameFiles(rows[p], task[c].row)
      BY <1>6, <2>3
    <3>2. rows'[q] = new
      BY <1>3, <1>5, <2>3
    <3> QED
      BY <1>4, <2>2, <2>3, <3>1, <3>2 DEF SameFiles, Matches
  <2>4. CASE q # p
    <3>1. rows'[q] = rows[q]
      BY <1>5, <1>3, <2>4 DEF IInv, Types
    <3> QED
      BY <2>2, <3>1
  <2> QED
    BY <2>3, <2>4
<1> QED
  BY <1>1, <1>2, <1>7, <1>8, <1>9, DonePlainly DEF IInv, Types, AtMostOne

\* A row that goes is no longer active (delete_profile).
LEMMA DeleteRowStep ==
    ASSUME IInv, NEW c \in Caller, DeleteRow(c)
    PROVE  IInv'
<1> DEFINE p == task[c].profile
<1>1. task[c].at = "delete" /\ UNCHANGED <<live, agreed, mutation>>
  BY DEF DeleteRow, At, Keep
<1>2. task[c].at \in Locked \ (Writing \cup {"failed"})
  BY <1>1, PlainPhases
<1>3. rows' = [rows EXCEPT ![p] = None] /\ active' = active \ {p} /\ (Go(c, "failed") \/ Done(c))
  BY DEF DeleteRow
<1> HIDE DEF p
<1>4. rows' \in [Profile -> Row \cup {None}] /\ \A q \in active': q \in active /\ rows'[q] = rows[q]
  BY <1>3 DEF IInv, Types
<1>5. active' \subseteq {q \in Profile: rows'[q] \in Row} /\ AtMostOne(active)'
  BY <1>3, <1>4 DEF IInv, Types, AtMostOne
<1>6. Agreed'
  BY <1>1, <1>2, <1>4, Fresh DEF Agreed
<1>7. agreed' \in BOOLEAN
  BY <1>1 DEF IInv, Types
<1> QED
  BY <1>1, <1>2, <1>3, <1>4, <1>5, <1>6, <1>7, FailedPlainly, DonePlainly

\* The rows are copied before the provider is asked (query_quota, refresh_all_quotas).
LEMMA RowsCopied ==
    ASSUME IInv, NEW c \in Caller, task[c].at \in Locked \ (Writing \cup {"failed"}),
           NEW ps \in SUBSET Profile,
           task' = [task EXCEPT ![c].at = "quota", ![c].todo = ps, ![c].row = rows],
           UNCHANGED <<rows, active, live, agreed, mutation>>
    PROVE  IInv'
<1> DEFINE t == [task[c] EXCEPT !.at = "quota", !.todo = ps, !.row = rows]
<1>1. /\ task[c] \in Task /\ task \in [Caller -> Task] /\ rows \in [Profile -> Row \cup {None}]
      /\ "quota" \in Phase
  BY DEF IInv, Types, Phase, Locked
<1>2. task' = [task EXCEPT ![c] = t]
  BY <1>1
<1>3. /\ t \in Task /\ t.at = "quota" /\ t.todo = ps /\ t.row = rows /\ t.last = task[c].last
      /\ t.old = task[c].old /\ t.clean = task[c].clean /\ t.alone = task[c].alone
  BY <1>1 DEF Task
<1> HIDE DEF t
<1>4. task' \in [Caller -> Task] /\ OthersStay(c) /\ task'[c] = t
  <2>1. t \in Task /\ task \in [Caller -> Task]
    BY <1>1, <1>3
  <2> QED
    BY <1>2, <2>1 DEF OthersStay
<1>5. Types' /\ AtMostOne(active)'
  BY <1>4 DEF IInv, Types, AtMostOne
<1>6. Agreed'
  BY Fresh DEF Agreed
<1> QED
  BY <1>3, <1>4, <1>5, <1>6, Fresh, PlainStep

\* query_quota looks up the row.
LEMMA LookStep ==
    ASSUME IInv, NEW c \in Caller, Look(c)
    PROVE  IInv'
<1>1. task[c].at = "look" /\ UNCHANGED <<rows, active, live, agreed, mutation>>
  BY DEF Look, At, KeepData, Keep
<1>2. task[c].at \in Locked \ (Writing \cup {"failed"})
  BY <1>1, PlainPhases
<1>3. task[c].profile \in Profile
  BY <1>1 DEF IInv, Carries
<1>4. CASE Go(c, "failed")
  <2>1. Agreed'
    BY <1>1, <1>2, Fresh DEF Agreed
  <2> QED
    BY <1>1, <1>2, <1>4, <2>1, FailedPlainly DEF IInv, Types, AtMostOne
<1>5. CASE task' = [task EXCEPT ![c].at = "quota", ![c].todo = {task[c].profile}, ![c].row = rows]
  <2> DEFINE ps == {task[c].profile}
  <2>1. ps \in SUBSET Profile
    BY <1>3
  <2>2. task' = [task EXCEPT ![c].at = "quota", ![c].todo = ps, ![c].row = rows]
    BY <1>5
  <2> HIDE DEF ps
  <2> QED
    BY <1>1, <1>2, <2>1, <2>2, RowsCopied
<1> QED
  BY <1>4, <1>5 DEF Look

\* list_profile_records.
LEMMA ListStep ==
    ASSUME IInv, NEW c \in Caller, List(c)
    PROVE  IInv'
<1> DEFINE ps == {p \in Profile: rows[p] # None}
<1>1. task[c].at = "list" /\ UNCHANGED <<rows, active, live, agreed, mutation>>
  BY DEF List, At, KeepData, Keep
<1>2. task[c].at \in Locked \ (Writing \cup {"failed"})
  BY <1>1, PlainPhases
<1>3. task' = [task EXCEPT ![c].at = "quota", ![c].todo = ps, ![c].row = rows]
  <2>1. task' = [task EXCEPT ![c].at = "quota", ![c].row = rows, ![c].todo = ps]
    BY DEF List
  <2>2. task \in [Caller -> Task] /\ task[c] \in Task
    BY DEF IInv, Types
  <2> HIDE DEF ps
  <2>3. [task[c] EXCEPT !.at = "quota", !.row = rows, !.todo = ps]
          = [task[c] EXCEPT !.at = "quota", !.todo = ps, !.row = rows]
    BY <2>2 DEF Task
  <2> QED
    BY <2>1, <2>2, <2>3
<1>4. ps \in SUBSET Profile
  OBVIOUS
<1> HIDE DEF ps
<1> QED
  BY <1>1, <1>2, <1>3, <1>4, RowsCopied

\* The quota changes, and nothing else of the row (update_codex_auth_profile_quota).
LEMMA QuotaSaved ==
    ASSUME NEW r \in Row, NEW q \in Content \cup {None}
    PROVE  /\ [r EXCEPT !.quota = q] \in Row /\ [r EXCEPT !.quota = q].home = r.home
           /\ [r EXCEPT !.quota = q].auth = r.auth /\ [r EXCEPT !.quota = q].config = r.config
           /\ [r EXCEPT !.quota = q].quota = q
  BY DEF Row

\* The rows whose quota is still to be stored are as they were read.
LEMMA SaveQuotaStep ==
    ASSUME IInv, NEW c \in Caller, SaveQuota(c)
    PROVE  IInv'
<1>1. task[c].at = "quota" /\ UNCHANGED <<active, live, agreed, mutation>>
  BY DEF SaveQuota, At, Keep
<1>2. task[c].at \in Locked \ (Writing \cup {"failed"})
  BY <1>1, PlainPhases
<1>3. /\ \A p \in task[c].todo: task[c].row[p] = rows[p]
      /\ task[c] \in Task /\ task \in [Caller -> Task] /\ rows \in [Profile -> Row \cup {None}]
      /\ active \subseteq {p \in Profile: rows[p] \in Row} /\ AtMostOne(active)' /\ agreed' \in BOOLEAN
  BY <1>1 DEF IInv, HolderOK, At, Types, AtMostOne
<1>4. CASE UNCHANGED rows /\ (Done(c) \/ Go(c, "failed"))
  <2>1. Agreed'
    BY <1>1, <1>2, <1>4, Fresh DEF Agreed
  <2> QED
    BY <1>1, <1>2, <1>3, <1>4, <2>1, DonePlainly, FailedPlainly
<1>5. ASSUME NEW p \in task[c].todo, rows[p] # None,
             rows' = [rows EXCEPT ![p].quota = task[c].row[p].auth],
             task' = [task EXCEPT ![c].todo = @ \ {p}]
      PROVE  IInv'
  <2> DEFINE new == [rows[p] EXCEPT !.quota = rows[p].auth]
             t == [task[c] EXCEPT !.todo = task[c].todo \ {p}]
  <2>1. p \in Profile /\ rows[p] \in Row
    BY <1>3, <1>5 DEF Task
  <2>2. rows[p].auth \in Content \cup {None}
    BY <2>1 DEF Row
  <2>3. new \in Row /\ new.home = rows[p].home /\ new.auth = rows[p].auth /\ new.config = rows[p].config
    BY <2>1, <2>2, QuotaSaved
  <2>4. rows' = [rows EXCEPT ![p] = new]
    BY <1>3, <1>5
  <2>5. /\ t \in Task /\ t.at = "quota" /\ t.todo = task[c].todo \ {p} /\ t.row = task[c].row
        /\ t.last = task[c].last /\ t.old = task[c].old /\ t.clean = task[c].clean
        /\ t.alone = task[c].alone
    BY <1>1, <1>3 DEF Task
  <2>6. task' = [task EXCEPT ![c] = t]
    BY <1>3, <1>5
  <2> HIDE DEF new, t
  <2>7. task' \in [Caller -> Task] /\ OthersStay(c) /\ task'[c] = t
    BY <1>3, <2>5, <2>6 DEF OthersStay
  <2>8. rows' \in [Profile -> Row \cup {None}] /\ rows'[p] = new
        /\ \A q \in Profile \ {p}: rows'[q] = rows[q]
    BY <1>3, <2>1, <2>3, <2>4
  <2>9. Types'
    BY <1>1, <1>3, <2>3, <2>7, <2>8 DEF IInv, Types
  <2>10. \A q \in task'[c].todo: task'[c].row[q] = rows'[q]
    BY <1>3, <2>5, <2>7, <2>8 DEF Task
  <2>11. Agreed'
    <3>1. \A q \in Profile: /\ rows'[q].home = rows[q].home
                            /\ rows'[q].auth = rows[q].auth
                            /\ rows'[q].config = rows[q].config
      BY <2>3, <2>8
    <3>2. Agreed
      BY <1>2, Fresh
    <3> QED
      BY <1>1, <1>3, <3>1, <3>2 DEF Agreed, Matches
  <2> QED
    BY <1>1, <1>2, <1>3, <2>5, <2>7, <2>9, <2>10, <2>11, Fresh, PlainStep
<1> QED
  BY <1>4, <1>5 DEF SaveQuota

-----------------------------------------------------------------------------
(* The switch. *)

\* auth.json is replaced, config.toml stays (write_file_replace).
LEMMA AuthWritten ==
    ASSUME live \in [Home -> Files], NEW h \in Home, NEW v \in Content \cup {None},
           NEW new, new = [live EXCEPT ![h].auth = v]
    PROVE  /\ new \in [Home -> Files] /\ new[h].auth = v /\ new[h].config = live[h].config
           /\ \A g \in Home \ {h}: new[g] = live[g]
<1> DEFINE f == [live[h] EXCEPT !.auth = v]
<1>1. live[h] \in Files /\ new = [live EXCEPT ![h] = f]
  OBVIOUS
<1>2. f \in Files /\ f.auth = v /\ f.config = live[h].config
  BY <1>1 DEF Files
<1> HIDE DEF f
<1> QED
  BY <1>1, <1>2

\* config.toml is replaced, auth.json stays.
LEMMA ConfigWritten ==
    ASSUME live \in [Home -> Files], NEW h \in Home, NEW v \in Config \cup {None},
           NEW new, new = [live EXCEPT ![h].config = v]
    PROVE  /\ new \in [Home -> Files] /\ new[h].config = v /\ new[h].auth = live[h].auth
           /\ \A g \in Home \ {h}: new[g] = live[g]
<1> DEFINE f == [live[h] EXCEPT !.config = v]
<1>1. live[h] \in Files /\ new = [live EXCEPT ![h] = f]
  OBVIOUS
<1>2. f \in Files /\ f.config = v /\ f.auth = live[h].auth
  BY <1>1 DEF Files
<1> HIDE DEF f
<1> QED
  BY <1>1, <1>2

\* What restored says of a file named by its field (rollback_live_codex_config).
LEMMA UndoneIs ==
    ASSUME live \in [Home -> Files], NEW h \in Home, NEW old \in Files
    PROVE  /\ [live EXCEPT ![h]["auth"] = old["auth"]] = [live EXCEPT ![h].auth = old.auth]
           /\ [live EXCEPT ![h]["config"] = old["config"]] = [live EXCEPT ![h].config = old.config]
  OBVIOUS

\* Two files that agree are the same files.
LEMMA SameIfMatching ==
    ASSUME NEW f \in Files, NEW g \in Files, f.auth = g.auth, f.config = g.config
    PROVE  f = g
  BY DEF Files

\* The phases of a switch, by name.
LEMMA WritingPhases ==
    /\ Writing \subseteq Locked /\ Locked \subseteq Phase
    /\ Writing = {"auth", "config", "mark", "undoAuth", "undoConfig", "undoActive"}
    /\ "failed" \in Locked \ Writing /\ "done" \in Locked \ Writing
  BY DEF Phase, Locked, Writing, Undoing

\* What a caller that switches can rely on.
LEMMA Switching ==
    ASSUME IInv, NEW c \in Caller, task[c].at \in Writing
    PROVE  /\ task[c] \in Task /\ task[c].row \in Row /\ task[c].row.home \in Home
           /\ task[c].old \in Files /\ task[c].profile \in Profile
           /\ AtMostOne(task[c].last) /\ rows[task[c].profile] = task[c].row
           /\ active = task[c].last /\ AgreedOnceUndone(c) /\ task[c].at \in Locked
           /\ task[c].row.auth \in Content /\ task[c].row.config \in Config
<1>1. /\ task[c] \in Task /\ task[c].row \in Row
      /\ task[c].old \in Files /\ task[c].profile \in Profile
      /\ AtMostOne(task[c].last) /\ rows[task[c].profile] = task[c].row
      /\ active = task[c].last /\ AgreedOnceUndone(c)
  BY DEF IInv, Types, Carries, HolderOK, AgreedOK
<1>2. task[c].row.home \in Home /\ task[c].row.auth \in Content /\ task[c].row.config \in Config
  BY <1>1 DEF Row
<1> QED
  BY <1>1, <1>2, WritingPhases

\* The files are read before anything is written, and the switch begins.
LEMMA SnapshotStep ==
    ASSUME IInv, NEW c \in Caller, Snapshot(c)
    PROVE  IInv'
<1> DEFINE r == rows[task[c].profile]
<1>1. task[c].at = "read" /\ UNCHANGED <<rows, active, live, agreed, mutation>>
  BY DEF Snapshot, At, KeepData, Keep
<1>2. task[c].at \in Locked \ (Writing \cup {"failed"})
  BY <1>1, PlainPhases
<1>3. /\ Agreed /\ task[c].clean = TRUE /\ task[c].alone = TRUE /\ task[c] \in Task
      /\ task[c].profile \in Profile /\ task \in [Caller -> Task]
      /\ active \in SUBSET Profile /\ AtMostOne(active)
  BY <1>1, <1>2, Fresh DEF IInv, Types, Carries
<1>4. CASE r = None
  <2>1. Go(c, "failed")
    BY <1>4 DEF Snapshot
  <2>2. Agreed'
    BY <1>1, <1>3 DEF Agreed
  <2> QED
    BY <1>1, <1>2, <2>1, <2>2, FailedPlainly DEF IInv, Types, AtMostOne
<1>5. CASE r # None
  <2>1. r \in Row /\ live[r.home] \in Files
    BY <1>3, <1>5 DEF IInv, Types, Row
  <2>2. r \in PartRow
    BY <2>1 DEF Row, PartRow
  <2>3. task' = [task EXCEPT ![c].at = "auth", ![c].row = r, ![c].old = live[r.home],
                             ![c].last = active]
    BY <1>5 DEF Snapshot
  <2> DEFINE f == live[r.home]
             t == [task[c] EXCEPT !.at = "auth", !.row = r, !.old = f, !.last = active]
  <2>4. task' = [task EXCEPT ![c] = t]
    BY <1>3, <2>3
  <2>5. f \in Files
    BY <2>1
  <2>6. rows[task[c].profile] = r /\ live[r.home] = f
    OBVIOUS
  <2> HIDE DEF r, f
  <2>7. /\ t \in Task /\ t.at = "auth" /\ t.row = r /\ t.old = f /\ t.last = active
        /\ t.profile = task[c].profile /\ t.clean = task[c].clean /\ t.alone = task[c].alone
    BY <1>3, <2>2, <2>5 DEF Task, Phase, Locked, Writing
  <2> HIDE DEF t
  <2>8. task' \in [Caller -> Task] /\ OthersStay(c) /\ task'[c] = t
    BY <1>3, <2>4, <2>7 DEF OthersStay
  <2>9. t.at \in Writing /\ task'[c].at \in Writing /\ task'[c].at \in Locked
    BY <2>7, <2>8, WritingPhases
  <2>10. Types' /\ AtMostOne(active)'
    BY <1>1, <1>3, <2>8 DEF IInv, Types, AtMostOne
  <2>11. Carries(c)'
    BY <1>1, <1>3, <2>1, <2>5, <2>7, <2>8, <2>9 DEF Carries, At, AtMostOne
  <2>12. HolderOK(c)'
    BY <1>1, <2>6, <2>7, <2>8 DEF HolderOK, At, LiveAt
  <2>13. AgreedOnceUndone(c)'
    BY <1>1, <1>3, <2>6, <2>7, <2>8 DEF Agreed, AgreedOnceUndone
  <2> QED
    BY <1>1, <1>2, <2>8, <2>9, <2>10, <2>11, <2>12, <2>13, HolderStep
<1> QED
  BY <1>4, <1>5

\* A switch goes on: it may have written its home's files.
LEMMA SwitchGoesOn ==
    ASSUME IInv, NEW c \in Caller, task[c].at \in Writing, NEW w \in Writing,
           task' \in [Caller -> Task], OthersStay(c), task'[c].at = w,
           task'[c].profile = task[c].profile, task'[c].row = task[c].row,
           task'[c].old = task[c].old, task'[c].last = task[c].last,
           task'[c].alone = task[c].alone,
           UNCHANGED <<rows, active, mutation>>, live' \in [Home -> Files],
           \A h \in Home \ {task[c].row.home}: live'[h] = live[h],
           agreed' \in BOOLEAN,
           agreed' = TRUE => agreed = TRUE /\ task'[c].clean = task[c].clean,
           HolderOK(c)'
    PROVE  IInv'
<1>1. /\ task[c].row \in Row /\ task[c].old \in Files /\ task[c].profile \in Profile
      /\ AtMostOne(task[c].last) /\ AgreedOnceUndone(c) /\ task[c].at \in Locked
  BY Switching
<1>2. task'[c].at \in Writing /\ task'[c].at \in Locked
  BY WritingPhases
<1>3. Types' /\ AtMostOne(active)'
  BY DEF IInv, Types, AtMostOne
<1>4. Carries(c)'
  BY <1>1, <1>2, WritingPhases DEF Carries, At, AtMostOne
<1>5. AgreedOnceUndone(c)'
  <2> SUFFICES ASSUME agreed' = TRUE
               PROVE  /\ task'[c].alone = TRUE /\ task'[c].clean = TRUE
                      /\ \A p \in active:
                           IF rows[p].home = task[c].row.home THEN Matches(task[c].old, rows[p])
                           ELSE Matches(live'[rows[p].home], rows[p])
    BY DEF AgreedOnceUndone
  <2>1. task'[c].alone = TRUE /\ task'[c].clean = TRUE
    BY <1>1 DEF AgreedOnceUndone
  <2>2. ASSUME NEW p \in active, rows[p].home # task[c].row.home
        PROVE  Matches(live'[rows[p].home], rows[p])
    <3>1. Matches(live[rows[p].home], rows[p])
      BY <1>1, <2>2 DEF AgreedOnceUndone
    <3>2. rows[p].home \in Home
      BY DEF IInv, Types, Row
    <3>3. live'[rows[p].home] = live[rows[p].home]
      BY <2>2, <3>2
    <3> QED
      BY <3>1, <3>3
  <2>3. ASSUME NEW p \in active, rows[p].home = task[c].row.home
        PROVE  Matches(task[c].old, rows[p])
    BY <1>1, <2>3 DEF AgreedOnceUndone
  <2> QED
    BY <2>1, <2>2, <2>3
<1> QED
  BY <1>1, <1>2, <1>3, <1>4, <1>5, HolderStep

\* A caller that notes a failure on its way (attach_codex_auth_rollback_failures).
LEMMA WentNoting ==
    ASSUME Types, NEW c \in Caller, NEW w \in Phase,
           \/ task' = [task EXCEPT ![c].at = w, ![c].clean = FALSE]
           \/ task' = [task EXCEPT ![c].at = w, ![c].marking = TRUE]
    PROVE  /\ task' \in [Caller -> Task] /\ OthersStay(c) /\ task'[c].at = w
           /\ task'[c].profile = task[c].profile /\ task'[c].row = task[c].row
           /\ task'[c].old = task[c].old /\ task'[c].last = task[c].last
           /\ task'[c].alone = task[c].alone
           /\ task'[c].clean = FALSE \/ task'[c].clean = task[c].clean
           /\ task' = [task EXCEPT ![c].at = w, ![c].clean = FALSE] => task'[c].clean = FALSE
<1>1. task \in [Caller -> Task] /\ task[c] \in Task
  BY DEF Types
<1>2. CASE task' = [task EXCEPT ![c].at = w, ![c].clean = FALSE]
  <2> DEFINE t == [task[c] EXCEPT !.at = w, !.clean = FALSE]
  <2>1. task' = [task EXCEPT ![c] = t]
    BY <1>1, <1>2
  <2>2. /\ t \in Task /\ t.at = w /\ t.profile = task[c].profile /\ t.row = task[c].row
        /\ t.old = task[c].old /\ t.last = task[c].last
        /\ t.alone = task[c].alone /\ t.clean = FALSE
    BY <1>1 DEF Task
  <2> HIDE DEF t
  <2>3. task' \in [Caller -> Task] /\ OthersStay(c) /\ task'[c] = t
    BY <1>1, <2>1, <2>2 DEF OthersStay
  <2> QED
    BY <2>2, <2>3
<1>3. CASE task' = [task EXCEPT ![c].at = w, ![c].marking = TRUE] /\ task' # [task EXCEPT ![c].at = w, ![c].clean = FALSE]
  <2> DEFINE t == [task[c] EXCEPT !.at = w, !.marking = TRUE]
  <2>1. task' = [task EXCEPT ![c] = t]
    BY <1>1, <1>3
  <2>2. /\ t \in Task /\ t.at = w /\ t.profile = task[c].profile /\ t.row = task[c].row
        /\ t.old = task[c].old /\ t.last = task[c].last
        /\ t.alone = task[c].alone /\ t.clean = task[c].clean
    BY <1>1 DEF Task
  <2> HIDE DEF t
  <2>3. task' \in [Caller -> Task] /\ OthersStay(c) /\ task'[c] = t
    BY <1>1, <2>1, <2>2 DEF OthersStay
  <2> QED
    BY <1>3, <2>2, <2>3
<1> QED
  BY <1>2, <1>3

\* The first file is written, or the undoing begins.
LEMMA WriteAuthStep ==
    ASSUME IInv, NEW c \in Caller, WriteAuth(c)
    PROVE  IInv'
<1>1. task[c].at = "auth" /\ UNCHANGED <<rows, active, agreed, mutation>> /\ task[c].at \in Writing
  BY WritingPhases DEF WriteAuth, At, Keep
<1> DEFINE h == task[c].row.home
           v == task[c].row.auth
<1>2. h \in Home /\ v \in Content \cup {None} /\ live \in [Home -> Files] /\ agreed \in BOOLEAN
  BY <1>1, Switching DEF IInv, Types
<1>3. CASE Go(c, "config") /\ live' = [live EXCEPT ![h].auth = v]
  <2>1. /\ live' \in [Home -> Files] /\ live'[h].auth = v
        /\ \A g \in Home \ {h}: live'[g] = live[g]
    <3> HIDE DEF h, v
    <3> QED
      BY <1>2, <1>3, AuthWritten
  <2>2. /\ task' \in [Caller -> Task] /\ OthersStay(c) /\ task'[c].at = "config"
        /\ task'[c].profile = task[c].profile /\ task'[c].row = task[c].row
        /\ task'[c].old = task[c].old /\ task'[c].last = task[c].last
        /\ task'[c].clean = task[c].clean /\ task'[c].alone = task[c].alone
    BY <1>3, Went, WritingPhases DEF IInv
  <2>3. HolderOK(c)'
    BY <1>1, <2>1, <2>2, Switching DEF HolderOK, At, LiveAt
  <2> QED
    BY <1>1, <1>2, <2>1, <2>2, <2>3, SwitchGoesOn, WritingPhases
<1>4. CASE Go(c, "undoAuth") /\ UNCHANGED live
  <2>1. /\ task' \in [Caller -> Task] /\ OthersStay(c) /\ task'[c].at = "undoAuth"
        /\ task'[c].profile = task[c].profile /\ task'[c].row = task[c].row
        /\ task'[c].old = task[c].old /\ task'[c].last = task[c].last
        /\ task'[c].clean = task[c].clean /\ task'[c].alone = task[c].alone
    BY <1>4, Went, WritingPhases DEF IInv
  <2>2. HolderOK(c)'
    BY <1>1, <2>1, Switching DEF HolderOK, At
  <2> QED
    BY <1>1, <1>2, <1>4, <2>1, <2>2, SwitchGoesOn, WritingPhases
<1> QED
  BY <1>3, <1>4 DEF WriteAuth

\* The second file is written, or the undoing begins.
LEMMA WriteConfigStep ==
    ASSUME IInv, NEW c \in Caller, WriteConfig(c)
    PROVE  IInv'
<1>1. task[c].at = "config" /\ UNCHANGED <<rows, active, agreed, mutation>> /\ task[c].at \in Writing
  BY WritingPhases DEF WriteConfig, At, Keep
<1> DEFINE h == task[c].row.home
           v == task[c].row.config
<1>2. h \in Home /\ v \in Config \cup {None} /\ live \in [Home -> Files] /\ agreed \in BOOLEAN
  BY <1>1, Switching DEF IInv, Types
<1>3. CASE Go(c, "mark") /\ live' = [live EXCEPT ![h].config = v]
  <2>1. /\ live' \in [Home -> Files] /\ live'[h].config = v /\ live'[h].auth = live[h].auth
        /\ \A g \in Home \ {h}: live'[g] = live[g]
    <3> HIDE DEF h, v
    <3> QED
      BY <1>2, <1>3, ConfigWritten
  <2>2. /\ task' \in [Caller -> Task] /\ OthersStay(c) /\ task'[c].at = "mark"
        /\ task'[c].profile = task[c].profile /\ task'[c].row = task[c].row
        /\ task'[c].old = task[c].old /\ task'[c].last = task[c].last
        /\ task'[c].clean = task[c].clean /\ task'[c].alone = task[c].alone
    BY <1>3, Went, WritingPhases DEF IInv
  <2>3. task[c].alone = TRUE => live[h].auth = task[c].row.auth
    BY <1>1 DEF IInv, HolderOK, At, LiveAt
  <2>4. HolderOK(c)'
    BY <1>1, <2>1, <2>2, <2>3, Switching DEF HolderOK, At, LiveAt, Matches
  <2> QED
    BY <1>1, <1>2, <2>1, <2>2, <2>4, SwitchGoesOn, WritingPhases
<1>4. CASE Go(c, "undoAuth") /\ UNCHANGED live
  <2>1. /\ task' \in [Caller -> Task] /\ OthersStay(c) /\ task'[c].at = "undoAuth"
        /\ task'[c].profile = task[c].profile /\ task'[c].row = task[c].row
        /\ task'[c].old = task[c].old /\ task'[c].last = task[c].last
        /\ task'[c].clean = task[c].clean /\ task'[c].alone = task[c].alone
    BY <1>4, Went, WritingPhases DEF IInv
  <2>2. HolderOK(c)'
    BY <1>1, <2>1, Switching DEF HolderOK, At
  <2> QED
    BY <1>1, <1>2, <1>4, <2>1, <2>2, SwitchGoesOn, WritingPhases
<1> QED
  BY <1>3, <1>4 DEF WriteConfig

\* The switch ends: whatever came in between is known by then.
LEMMA SwitchEnds ==
    ASSUME IInv, NEW c \in Caller, task[c].at \in Writing, task'[c].at \in {"failed", "done"},
           Types', AtMostOne(active)', AtMostOne(task'[c].last), OthersStay(c), UNCHANGED mutation,
           task'[c].at = "done" => /\ task'[c].old = None
                                   /\ task'[c].clean = TRUE /\ task'[c].alone = TRUE,
           HolderOK(c)', Agreed'
    PROVE  IInv'
<1>1. Carries(c)'
  BY DEF Carries, At, Writing, Undoing, AtMostOne
<1>2. task[c].at \in Locked /\ task'[c].at \in Locked /\ task'[c].at \notin Writing
  BY WritingPhases
<1> QED
  BY <1>1, <1>2, HolderStep

\* The row is marked active, or the undoing begins (mark_codex_auth_profile_active).
LEMMA MarkActiveStep ==
    ASSUME IInv, NEW c \in Caller, MarkActive(c)
    PROVE  IInv'
<1>1. task[c].at = "mark" /\ UNCHANGED <<rows, live, mutation>> /\ task[c].at \in Writing
  BY WritingPhases DEF MarkActive, At, Keep
<1> DEFINE p == task[c].profile
<1>2. CASE Done(c) /\ active' = Marked(p) /\ agreed' = task[c].alone
  <2>1. /\ task' \in [Caller -> Task] /\ OthersStay(c) /\ task'[c].at = "done"
        /\ task'[c].old = None /\ task'[c].last = {}
        /\ task'[c].clean = TRUE /\ task'[c].alone = TRUE
    BY <1>2, Finished DEF IInv
  <2>2. p \in Profile /\ rows[p] = task[c].row /\ rows[p] \in Row /\ task[c] \in Task
    BY <1>1, Switching
  <2>3. active' = {p} /\ AtMostOne(active)' /\ AtMostOne(task'[c].last)
    BY <1>2, <2>1 DEF Marked, AtMostOne
  <2>4. agreed' \in BOOLEAN
    BY <1>2, <2>2 DEF Task
  <2> HIDE DEF p
  <2>5. Types'
    BY <1>1, <2>1, <2>2, <2>3, <2>4 DEF IInv, Types
  <2>6. task[c].alone = TRUE => Matches(live[task[c].row.home], task[c].row)
    BY <1>1 DEF IInv, HolderOK, At, LiveAt
  <2>7. Agreed'
    BY <1>1, <1>2, <2>2, <2>3, <2>6 DEF Agreed
  <2>8. HolderOK(c)'
    BY <2>1 DEF HolderOK, At, Writing, Undoing
  <2> QED
    BY <1>1, <2>1, <2>3, <2>5, <2>7, <2>8, SwitchEnds
<1>3. CASE /\ task' = [task EXCEPT ![c].at = "undoAuth", ![c].marking = TRUE]
           /\ UNCHANGED <<active, agreed>>
  <2>1. "undoAuth" \in Phase
    BY WritingPhases
  <2>2. /\ task' \in [Caller -> Task] /\ OthersStay(c) /\ task'[c].at = "undoAuth"
        /\ task'[c].profile = task[c].profile /\ task'[c].row = task[c].row
        /\ task'[c].old = task[c].old /\ task'[c].last = task[c].last
        /\ task'[c].alone = task[c].alone
    BY <1>3, <2>1, WentNoting DEF IInv
  <2>3. task'[c].clean = task[c].clean
    BY <1>3 DEF IInv, Types, Task
  <2>4. HolderOK(c)'
    BY <1>1, <1>3, <2>2, Switching DEF HolderOK, At
  <2>5. live' \in [Home -> Files] /\ agreed' \in BOOLEAN
    BY <1>1, <1>3 DEF IInv, Types
  <2> QED
    BY <1>1, <1>3, <2>2, <2>3, <2>4, <2>5, SwitchGoesOn, WritingPhases
<1> QED
  BY <1>2, <1>3 DEF MarkActive

\* With its files put back, a home is again what the active profile says.
LEMMA Undone ==
    ASSUME IInv, NEW c \in Caller, task[c].at \in Writing, UNCHANGED rows,
           active' = active, agreed' = TRUE => agreed = TRUE, live' \in [Home -> Files],
           agreed' = TRUE => live'[task[c].row.home] = task[c].old,
           \A h \in Home \ {task[c].row.home}: live'[h] = live[h]
    PROVE  Agreed'
<1> SUFFICES ASSUME agreed' = TRUE, NEW p \in active PROVE Matches(live'[rows[p].home], rows[p])
  BY DEF Agreed
<1>1. AgreedOnceUndone(c) /\ rows[p].home \in Home
  BY Switching DEF IInv, Types, Row
<1>2. CASE rows[p].home = task[c].row.home
  BY <1>1, <1>2 DEF AgreedOnceUndone
<1>3. CASE rows[p].home # task[c].row.home
  BY <1>1, <1>3 DEF AgreedOnceUndone
<1> QED
  BY <1>2, <1>3

\* The first file is put back, or may not be.
LEMMA UndoAuthStep ==
    ASSUME IInv, NEW c \in Caller, UndoAuth(c)
    PROVE  IInv'
<1>1. task[c].at = "undoAuth" /\ UNCHANGED <<rows, active, mutation>> /\ task[c].at \in Writing
  BY WritingPhases DEF UndoAuth, At, Keep
<1> DEFINE h == task[c].row.home
           v == task[c].old.auth
           restored == [live EXCEPT ![h].auth = v]
<1>2. /\ h \in Home /\ live \in [Home -> Files] /\ agreed \in BOOLEAN /\ task[c].old \in Files
  BY <1>1, Switching DEF IInv, Types
<1>3. v \in Content \cup {None}
  BY <1>2 DEF Files
<1>4. [live EXCEPT ![h]["auth"] = task[c].old["auth"]] = restored
  BY <1>2, UndoneIs
<1>5. \/ live' = restored /\ Go(c, "undoConfig") /\ UNCHANGED agreed
      \/ /\ live' \in {live, restored} /\ agreed' = FALSE
         /\ task' = [task EXCEPT ![c].at = "undoConfig", ![c].clean = FALSE]
  BY <1>4 DEF UndoAuth, UndoFile
<1>6. /\ restored \in [Home -> Files] /\ restored[h].auth = v /\ restored[h].config = live[h].config
      /\ \A g \in Home \ {h}: restored[g] = live[g]
  <2> HIDE DEF h, v
  <2> QED
    BY <1>2, <1>3, AuthWritten
<1> HIDE DEF restored
<1>7. live' \in [Home -> Files] /\ \A g \in Home \ {h}: live'[g] = live[g]
  BY <1>2, <1>5, <1>6
<1>8. CASE live' = restored /\ Go(c, "undoConfig") /\ UNCHANGED agreed
  <2>1. /\ task' \in [Caller -> Task] /\ OthersStay(c) /\ task'[c].at = "undoConfig"
        /\ task'[c].profile = task[c].profile /\ task'[c].row = task[c].row
        /\ task'[c].old = task[c].old /\ task'[c].last = task[c].last
        /\ task'[c].clean = task[c].clean /\ task'[c].alone = task[c].alone
    BY <1>8, Went, WritingPhases DEF IInv
  <2>2. HolderOK(c)'
    BY <1>1, <1>6, <1>8, <2>1, Switching DEF HolderOK, At, LiveAt
  <2> QED
    BY <1>1, <1>2, <1>7, <1>8, <2>1, <2>2, SwitchGoesOn, WritingPhases
<1>9. CASE agreed' = FALSE /\ task' = [task EXCEPT ![c].at = "undoConfig", ![c].clean = FALSE]
  <2>1. /\ task' \in [Caller -> Task] /\ OthersStay(c) /\ task'[c].at = "undoConfig"
        /\ task'[c].profile = task[c].profile /\ task'[c].row = task[c].row
        /\ task'[c].old = task[c].old /\ task'[c].last = task[c].last
        /\ task'[c].clean = FALSE /\ task'[c].alone = task[c].alone
    BY <1>9, WentNoting, WritingPhases DEF IInv
  <2>2. HolderOK(c)'
    BY <1>1, <2>1, Switching DEF HolderOK, At
  <2> QED
    BY <1>1, <1>7, <1>9, <2>1, <2>2, SwitchGoesOn, WritingPhases
<1> QED
  BY <1>5, <1>8, <1>9

\* The second file is put back, or may not be; the row comes next, if it was reached.
LEMMA UndoConfigStep ==
    ASSUME IInv, NEW c \in Caller, UndoConfig(c)
    PROVE  IInv'
<1>1. task[c].at = "undoConfig" /\ UNCHANGED <<rows, active, mutation>> /\ task[c].at \in Writing
  BY WritingPhases DEF UndoConfig, At, Keep
<1> DEFINE h == task[c].row.home
           v == task[c].old.config
           restored == [live EXCEPT ![h].config = v]
           next == IF task[c].marking THEN "undoActive" ELSE "failed"
<1>2. /\ h \in Home /\ live \in [Home -> Files] /\ agreed \in BOOLEAN /\ task[c].old \in Files
      /\ active = task[c].last /\ AtMostOne(task[c].last) /\ AgreedOnceUndone(c)
  BY <1>1, Switching DEF IInv, Types
<1>3. v \in Config \cup {None}
  BY <1>2 DEF Files
<1>4. [live EXCEPT ![h]["config"] = task[c].old["config"]] = restored
  BY <1>2, UndoneIs
<1>5. \/ live' = restored /\ Go(c, next) /\ UNCHANGED agreed
      \/ /\ live' \in {live, restored} /\ agreed' = FALSE
         /\ task' = [task EXCEPT ![c].at = next, ![c].clean = FALSE]
  BY <1>4 DEF UndoConfig, UndoFile
<1>6. /\ restored \in [Home -> Files] /\ restored[h].config = v /\ restored[h].auth = live[h].auth
      /\ \A g \in Home \ {h}: restored[g] = live[g]
  <2> HIDE DEF h, v
  <2> QED
    BY <1>2, <1>3, ConfigWritten
<1>7. next \in {"undoActive", "failed"} /\ next \in Phase
  BY WritingPhases
<1> HIDE DEF restored, next
<1>8. live' \in [Home -> Files] /\ \A g \in Home \ {h}: live'[g] = live[g]
  BY <1>2, <1>5, <1>6
<1>9. task[c].alone = TRUE /\ task[c].clean = TRUE => restored[h] = task[c].old
  <2>1. task[c].alone = TRUE /\ task[c].clean = TRUE => live[h].auth = task[c].old.auth
    BY <1>1 DEF IInv, HolderOK, At, LiveAt
  <2>2. restored[h] \in Files
    BY <1>2, <1>6
  <2> QED
    BY <1>2, <1>6, <2>1, <2>2, SameIfMatching
<1>10. /\ task' \in [Caller -> Task] /\ OthersStay(c) /\ task'[c].at = next
       /\ task'[c].profile = task[c].profile /\ task'[c].row = task[c].row
       /\ task'[c].old = task[c].old /\ task'[c].last = task[c].last
       /\ task'[c].alone = task[c].alone
       /\ \/ task'[c].clean = task[c].clean /\ live' = restored /\ UNCHANGED agreed
          \/ task'[c].clean = FALSE /\ agreed' = FALSE
  <2>1. CASE live' = restored /\ Go(c, next) /\ UNCHANGED agreed
    BY <1>7, <2>1, Went DEF IInv
  <2>2. CASE agreed' = FALSE /\ task' = [task EXCEPT ![c].at = next, ![c].clean = FALSE]
    BY <1>7, <2>2, WentNoting DEF IInv
  <2> QED
    BY <1>5, <2>1, <2>2
<1>11. HolderOK(c)'
  <2>1. task'[c].alone = TRUE /\ task'[c].clean = TRUE => live'[h] = task[c].old
    BY <1>9, <1>10
  <2>2. rows[task[c].profile] = task[c].row
    BY <1>1, Switching
  <2>3. task'[c].at \in {"undoActive", "failed"}
    BY <1>7, <1>10
  <2> QED
    BY <1>1, <1>2, <1>10, <2>1, <2>2, <2>3 DEF HolderOK, At, LiveAt
<1>12. agreed' = TRUE => agreed = TRUE /\ task'[c].clean = task[c].clean /\ live'[h] = task[c].old
  BY <1>2, <1>9, <1>10 DEF AgreedOnceUndone
<1>13. agreed' \in BOOLEAN
  BY <1>2, <1>10
<1>14. CASE next = "undoActive"
  BY <1>1, <1>8, <1>10, <1>11, <1>12, <1>13, <1>14, SwitchGoesOn, WritingPhases
<1>15. CASE next = "failed"
  <2>1. Agreed'
    BY <1>1, <1>8, <1>12, Undone
  <2>2. Types' /\ AtMostOne(active)'
    BY <1>1, <1>8, <1>10, <1>13 DEF IInv, Types, AtMostOne
  <2> QED
    BY <1>1, <1>2, <1>10, <1>11, <1>15, <2>1, <2>2, SwitchEnds
<1> QED
  BY <1>7, <1>14, <1>15

\* The row that was active is again (restore_codex_auth_active_profile).
LEMMA UndoActiveStep ==
    ASSUME IInv, NEW c \in Caller, UndoActive(c)
    PROVE  IInv'
<1>1. task[c].at = "undoActive" /\ UNCHANGED <<rows, live, mutation>> /\ task[c].at \in Writing
  BY WritingPhases DEF UndoActive, At, Keep
<1>2. /\ live \in [Home -> Files] /\ agreed \in BOOLEAN /\ task[c].old \in Files
      /\ active = task[c].last /\ AtMostOne(task[c].last) /\ AgreedOnceUndone(c)
  BY <1>1, Switching DEF IInv, Types
<1>3. active' = active
  BY <1>2 DEF UndoActive
<1>4. /\ task' \in [Caller -> Task] /\ OthersStay(c) /\ task'[c].at = "failed"
      /\ task'[c].row = task[c].row /\ task'[c].old = task[c].old
      /\ task'[c].last = task[c].last /\ task'[c].alone = task[c].alone
      /\ \/ task'[c].clean = task[c].clean /\ UNCHANGED agreed
         \/ task'[c].clean = FALSE /\ agreed' = FALSE
  <2>1. CASE Go(c, "failed") /\ UNCHANGED agreed
    BY <2>1, Went, WritingPhases DEF IInv
  <2>2. CASE agreed' = FALSE /\ task' = [task EXCEPT ![c].at = "failed", ![c].clean = FALSE]
    BY <2>2, WentNoting, WritingPhases DEF IInv
  <2> QED
    BY <2>1, <2>2 DEF UndoActive
<1>5. task[c].alone = TRUE /\ task[c].clean = TRUE => live[task[c].row.home] = task[c].old
  BY <1>1 DEF IInv, HolderOK, At, LiveAt
<1>6. HolderOK(c)'
  BY <1>1, <1>2, <1>3, <1>4, <1>5, WritingPhases DEF HolderOK, At, LiveAt
<1>7. agreed' = TRUE => agreed = TRUE /\ live'[task[c].row.home] = task[c].old
  BY <1>1, <1>2, <1>4, <1>5 DEF AgreedOnceUndone
<1>8. Agreed'
  BY <1>1, <1>2, <1>3, <1>7, Undone
<1>9. Types' /\ AtMostOne(active)'
  BY <1>1, <1>2, <1>3, <1>4 DEF IInv, Types, AtMostOne
<1> QED
  BY <1>1, <1>2, <1>4, <1>6, <1>8, <1>9, SwitchEnds

-----------------------------------------------------------------------------
(* Outside. *)

\* The Codex CLI writes: no switch under way can vouch for the files any more.
LEMMA OutsideStep ==
    ASSUME IInv, NEW h \in Home, Outside(h)
    PROVE  IInv'
<1>1. UNCHANGED <<rows, active, mutation>> /\ agreed' = FALSE
  BY DEF Outside
<1>2. live' \in [Home -> Files]
  <2>1. live \in [Home -> Files]
    BY DEF IInv, Types
  <2>2. ASSUME NEW a \in Content \cup {None}, live' = [live EXCEPT ![h].auth = a]
        PROVE  live' \in [Home -> Files]
    BY <2>1, <2>2, AuthWritten
  <2>3. ASSUME NEW g \in Config \cup {None}, live' = [live EXCEPT ![h].config = g]
        PROVE  live' \in [Home -> Files]
    BY <2>1, <2>3, ConfigWritten
  <2> QED
    BY <2>2, <2>3 DEF Outside
<1>3. /\ task' \in [Caller -> Task]
      /\ \A c \in Caller:
           /\ task'[c].at = task[c].at /\ task'[c].row = task[c].row /\ task'[c].last = task[c].last
           /\ task'[c].profile = task[c].profile /\ task'[c].old = task[c].old
           /\ task[c].at \in Writing \cup {"failed"} => task'[c].alone = FALSE
           /\ task[c].at \notin Writing \cup {"failed"} => task'[c] = task[c]
  <2>1. task \in [Caller -> Task]
    BY DEF IInv, Types
  <2>2. task' = [c \in Caller |-> IF task[c].at \in Writing \cup {"failed"}
                                 THEN [task[c] EXCEPT !.alone = FALSE] ELSE task[c]]
    BY DEF Outside
  <2>3. ASSUME NEW c \in Caller
        PROVE  LET t == [task[c] EXCEPT !.alone = FALSE]
               IN /\ t \in Task /\ t.at = task[c].at /\ t.row = task[c].row /\ t.last = task[c].last
                  /\ t.profile = task[c].profile /\ t.old = task[c].old /\ t.alone = FALSE
    BY <2>1 DEF Task
  <2>4. ASSUME NEW c \in Caller
        PROVE  /\ task'[c] \in Task
               /\ task'[c].at = task[c].at /\ task'[c].row = task[c].row /\ task'[c].last = task[c].last
               /\ task'[c].profile = task[c].profile /\ task'[c].old = task[c].old
               /\ task[c].at \in Writing \cup {"failed"} => task'[c].alone = FALSE
               /\ task[c].at \notin Writing \cup {"failed"} => task'[c] = task[c]
    <3>1. CASE task[c].at \in Writing \cup {"failed"}
      <4>1. task'[c] = [task[c] EXCEPT !.alone = FALSE]
        BY <2>2, <3>1
      <4> QED
        BY <2>3, <3>1, <4>1
    <3>2. CASE task[c].at \notin Writing \cup {"failed"}
      <4>1. task'[c] = task[c] /\ task[c] \in Task
        BY <2>1, <2>2, <3>2
      <4> QED
        BY <3>2, <4>1
    <3> QED
      BY <3>1, <3>2
  <2>5. task' \in [Caller -> Task]
    BY <2>2, <2>4
  <2> QED
    BY <2>4, <2>5
<1>4. Types' /\ AtMostOne(active)' /\ LockOK'
  BY <1>1, <1>2, <1>3 DEF IInv, Types, AtMostOne, LockOK
<1>5. \A c \in Caller: Carries(c)'
  BY <1>3 DEF IInv, Carries, At, AtMostOne
<1>6. ASSUME NEW c \in Caller PROVE HolderOK(c)'
  <2>1. HolderOK(c) /\ task'[c].at = task[c].at
    BY <1>3 DEF IInv
  <2>2. CASE task[c].at \in Writing \cup {"failed"}
    <3>1. task'[c].alone # TRUE /\ task[c].at # "quota" /\ task'[c].row = task[c].row
          /\ task'[c].last = task[c].last /\ task'[c].profile = task[c].profile
      BY <1>3, <2>2 DEF Writing, Undoing
    <3> QED
      BY <1>1, <2>1, <3>1 DEF HolderOK, At
  <2>3. CASE task[c].at \notin Writing \cup {"failed"}
    <3>1. task'[c] = task[c]
      BY <1>3, <2>3
    <3> QED
      BY <1>1, <2>1, <2>3, <3>1, WritingPhases DEF HolderOK, At
  <2> QED
    BY <2>2, <2>3
<1>7. AgreedOK'
  BY <1>1 DEF AgreedOK, Agreed, AgreedOnceUndone
<1> QED
  BY <1>4, <1>5, <1>6, <1>7 DEF IInv

\* A crash forgets what callers did; one that was switching leaves the files as they are.
LEMMA CrashStep ==
    ASSUME IInv, Crash
    PROVE  IInv'
<1>1. /\ UNCHANGED <<rows, active, live>> /\ task' = [c \in Caller |-> Idle]
      /\ agreed' = (agreed /\ \A c \in Caller: task[c].at \notin Writing)
  BY DEF Crash
<1>2. task' \in [Caller -> Task] /\ \A c \in Caller: task'[c] = Idle
  BY <1>1, IdleIs
<1>3. Types' /\ AtMostOne(active)'
  BY <1>1, <1>2 DEF IInv, Types, AtMostOne
<1>4. Idle.at \notin Locked /\ Idle.at \notin Writing
  BY IdleIs DEF Locked, Writing, Undoing
<1>5. LockOK'
  BY <1>2, <1>4 DEF LockOK
<1>6. \A c \in Caller: Carries(c)'
  BY <1>2, IdleIs DEF Carries, At, Writing, Undoing, AtMostOne
<1>7. \A c \in Caller: HolderOK(c)'
  BY <1>2, IdleIs DEF HolderOK, At, Writing, Undoing
<1>8. Agreed'
  <2>1. agreed' = TRUE => agreed = TRUE /\ Agreed
    BY <1>1 DEF IInv, Types, AgreedOK
  <2> QED
    BY <1>1, <2>1 DEF Agreed
<1>9. AgreedOK'
  BY <1>2, <1>4, <1>8 DEF AgreedOK
<1> QED
  BY <1>3, <1>5, <1>6, <1>7, <1>9 DEF IInv

-----------------------------------------------------------------------------
(* The theorems. *)

\* No profile is there yet.
LEMMA InitHolds == Init => IInv
<1> SUFFICES ASSUME Init PROVE IInv
  OBVIOUS
<1>1. live \in [Home -> Files]
  <2>1. \A a \in Content \cup {None}: [auth |-> a, config |-> None] \in Files
    BY DEF Files
  <2> QED
    BY <2>1 DEF Init
<1>2. task \in [Caller -> Task] /\ \A c \in Caller: task[c] = Idle
  BY IdleIs DEF Init
<1>3. Types
  BY <1>1, <1>2 DEF Init, Types
<1>4. Idle.at \notin Locked /\ Idle.at \notin Writing
  BY IdleIs DEF Locked, Writing, Undoing
<1>5. LockOK
  BY <1>2, <1>4 DEF LockOK
<1>6. \A c \in Caller: Carries(c)
  BY <1>2, IdleIs DEF Carries, At, Writing, Undoing, AtMostOne
<1>7. \A c \in Caller: HolderOK(c)
  BY <1>2, IdleIs DEF HolderOK, At, Writing, Undoing
<1>8. AgreedOK /\ AtMostOne(active)
  BY <1>2, <1>4 DEF Init, AgreedOK, Agreed, AtMostOne
<1> QED
  BY <1>3, <1>5, <1>6, <1>7, <1>8 DEF IInv

\* Every step of a caller that goes on keeps the invariant (codex_auth_service.rs).
LEMMA StepKeeps ==
    ASSUME IInv, NEW c \in Caller, Step(c)
    PROVE  IInv'
  BY ImportAuthStep, ImportConfigStep, ImportFailsStep, ImportLocksStep, UnlockStep, FailsStep,
     WriteRowStep, DeleteRowStep, LookStep, ListStep, SaveQuotaStep, SnapshotStep, WriteAuthStep,
     WriteConfigStep, MarkActiveStep, UndoAuthStep, UndoConfigStep, UndoActiveStep DEF Step

\* Every request keeps it.
LEMMA RequestKeeps ==
    ASSUME IInv, NEW c \in Caller, NEW p \in Profile,
           \/ \E h \in Home, a \in Content:
                Upsert(c, p, [home |-> h, auth |-> a, config |-> a, quota |-> None])
           \/ Delete(c, p) \/ Switch(c, p) \/ QueryQuota(c, p)
    PROVE  IInv'
<1>1. ASSUME NEW h \in Home, NEW a \in Content,
             Upsert(c, p, [home |-> h, auth |-> a, config |-> a, quota |-> None])
      PROVE  IInv'
  <2> DEFINE r == [home |-> h, auth |-> a, config |-> a, quota |-> None]
  <2>1. r \in Row
    BY DEF Row, Config
  <2>2. Upsert(c, p, r)
    BY <1>1
  <2> HIDE DEF r
  <2> QED
    BY <2>1, <2>2, UpsertStep
<1>2. CASE Delete(c, p)
  BY <1>2, ProfileCall DEF Delete
<1>3. CASE Switch(c, p)
  BY <1>3, ProfileCall DEF Switch
<1>4. CASE QueryQuota(c, p)
  BY <1>4, ProfileCall DEF QueryQuota
<1> QED
  BY <1>1, <1>2, <1>3, <1>4

\* Every step, the Codex CLI's and a crash included, keeps it.
LEMMA NextKeeps == IInv /\ [Next]_vars => IInv'
<1> SUFFICES ASSUME IInv, [Next]_vars PROVE IInv'
  OBVIOUS
<1>1. CASE UNCHANGED vars
  <2>1. UNCHANGED <<rows, active, live, task, mutation, agreed>>
    BY <1>1 DEF vars
  <2>2. Types' /\ AtMostOne(active)' /\ LockOK'
    BY <2>1 DEF IInv, Types, AtMostOne, LockOK
  <2>3. \A c \in Caller: Carries(c)' /\ HolderOK(c)'
    BY <2>1 DEF IInv, Carries, HolderOK, At, LiveAt
  <2>4. AgreedOK'
    BY <2>1 DEF IInv, AgreedOK, Agreed, AgreedOnceUndone
  <2> QED
    BY <2>2, <2>3, <2>4 DEF IInv
<1>2. CASE Next
  BY <1>2, StepKeeps, RequestKeeps, RefreshAllStep, ImportStep, OutsideStep, CrashStep DEF Next
<1> QED
  BY <1>1, <1>2

\* The lock keeps what a caller has read and done as it was, in every behaviour.
THEOREM InvHolds == Spec => []IInv
<1> QED
  BY InitHolds, NextKeeps, PTL DEF Spec

\* One profile at most is the active one (mark_codex_auth_profile_active).
THEOREM OneActiveCorrect == Spec => []OneActive
<1>1. IInv => OneActive
  <2> SUFFICES ASSUME IInv PROVE Cardinality(active) <= 1
    BY DEF OneActive
  <2>1. CASE active = {}
    BY <2>1, FS_EmptySet
  <2>2. CASE active # {}
    <3>1. PICK p \in active: TRUE
      BY <2>2
    <3>2. active = {p}
      BY <3>1 DEF IInv, AtMostOne
    <3> QED
      BY <3>2, FS_Singleton
  <2> QED
    BY <2>1, <2>2
<1> QED
  BY <1>1, InvHolds, PTL

\* What the active profile says is in its home's files (switch_profile).
THEOREM ActiveCorrect == Spec => []ActiveProfileIsLive
<1>1. IInv => ActiveProfileIsLive
  BY DEF IInv, Types, AgreedOK, Agreed, Matches, ActiveProfileIsLive
<1> QED
  BY <1>1, InvHolds, PTL

\* A failed switch that reports its rollback completed has left no trace
\* (write_live_codex_config).
THEOREM UndoneCorrect == Spec => []FailedSwitchIsUndone
<1>1. IInv => FailedSwitchIsUndone
  <2> SUFFICES ASSUME IInv, NEW c \in Caller, At(c, "failed"), task[c].old # None,
                      task[c].clean, task[c].alone
               PROVE  live[task[c].row.home] = task[c].old /\ active = task[c].last
    BY DEF FailedSwitchIsUndone
  <2>1. task[c].clean = TRUE /\ task[c].alone = TRUE
    BY DEF IInv, Types, Task
  <2> QED
    BY <2>1 DEF IInv, HolderOK, LiveAt
<1> QED
  BY <1>1, InvHolds, PTL

\* A quota goes with the credentials it was asked with (query_quota).
THEOREM QuotaCorrect == Spec => QuotaGoesWithCredentials
<1> DEFINE Kept == \A p \in Profile:
         rows[p] # None /\ rows'[p] # None /\ rows'[p].quota # rows[p].quota =>
             rows'[p].quota = rows'[p].auth
<1>1. IInv /\ [Next]_vars => [Kept]_vars
  <2> SUFFICES ASSUME IInv, Next, NEW p \in Profile, rows[p] # None, rows'[p] # None,
                      rows'[p].quota # rows[p].quota
               PROVE  rows'[p].quota = rows'[p].auth
    OBVIOUS
  <2>1. rows \in [Profile -> Row \cup {None}] /\ rows[p] \in Row
    BY DEF IInv, Types
  <2>2. ASSUME NEW c \in Caller, WriteRow(c) PROVE FALSE
    <3>1. task[c].row \in Row /\ rows' = [rows EXCEPT ![task[c].profile] = Saved(@, task[c].row)]
      BY <2>2 DEF WriteRow, IInv, Carries, At
    <3>2. rows'[p] = rows[p] \/ rows'[p] = Saved(rows[p], task[c].row)
      BY <2>1, <3>1
    <3>3. Saved(rows[p], task[c].row).quota = rows[p].quota
      BY <2>1, <3>1, SavedIs
    <3> QED
      BY <3>2, <3>3
  <2>3. ASSUME NEW c \in Caller, DeleteRow(c) PROVE FALSE
    <3>1. rows' = [rows EXCEPT ![task[c].profile] = None]
      BY <2>3 DEF DeleteRow
    <3> QED
      BY <2>1, <3>1
  <2>4. ASSUME NEW c \in Caller, SaveQuota(c) PROVE rows'[p].quota = rows'[p].auth
    <3>1. PICK q \in task[c].todo: rows' = [rows EXCEPT ![q].quota = task[c].row[q].auth]
      BY <2>4 DEF SaveQuota
    <3>2. task[c].row[q] = rows[q]
      BY <2>4 DEF SaveQuota, IInv, HolderOK, At
    <3>3. p = q
      BY <2>1, <3>1
    <3>4. rows'[p] = [rows[p] EXCEPT !.quota = rows[p].auth]
      BY <2>1, <3>1, <3>2, <3>3
    <3>5. rows[p].auth \in Content \cup {None}
      BY <2>1 DEF Row
    <3> QED
      BY <2>1, <3>4, <3>5, QuotaSaved
  <2>5. ASSUME NEW c \in Caller, Step(c), ~WriteRow(c), ~DeleteRow(c), ~SaveQuota(c)
        PROVE  rows' = rows
    BY <2>5 DEF Step, ImportAuth, ImportConfig, ImportFails, ImportLocks, Unlock, Fails, Look, List,
       Snapshot, WriteAuth, WriteConfig, MarkActive, UndoAuth, UndoConfig, UndoActive, KeepData
  <2>6. ASSUME NEW c \in Caller, NEW t, Call(c, t) PROVE rows' = rows
    BY <2>6 DEF Call, KeepData
  <2>7. ASSUME NEW c \in Caller, NEW h \in Home, Import(c, h) PROVE rows' = rows
    BY <2>7 DEF Import, KeepData
  <2>8. (Crash \/ \E h \in Home: Outside(h)) => rows' = rows
    BY DEF Crash, Outside
  <2> QED
    BY <2>2, <2>3, <2>4, <2>5, <2>6, <2>7, <2>8
       DEF Next, Upsert, Delete, Switch, QueryQuota, RefreshAll
<1>2. [][Kept]_vars => QuotaGoesWithCredentials
  BY PTL DEF QuotaGoesWithCredentials
<1> QED
  BY <1>1, <1>2, InvHolds, PTL DEF Spec
=============================================================================
