------------------------------ MODULE CodexAuth ------------------------------
(***************************************************************************)
(* The Codex logins of Bexo Studio (codex_auth_service.rs,                 *)
(* codex_auth_repo.rs).  A profile is a row of the database; switching to  *)
(* it writes its two files into a Codex home, marks the row active and     *)
(* undoes both when a part fails.  The Codex CLI writes the same files.    *)
(* A database operation takes effect or fails, as Database shows.  A caller*)
(* that waits for the lock has done nothing yet, except in an import, so   *)
(* that it is taken to call when it gets it (refresh_lock, taken before    *)
(* that lock and for as long, adds nothing).                               *)
(***************************************************************************)
EXTENDS FiniteSets, Naturals

CONSTANTS
    Profile, Home, Content, Caller,
    None,       \* no row, no file, no quota, nobody
    Empty,      \* what an import takes a missing config.toml for
    MaxEvents   \* bound: writes of the Codex CLI, and crashes

ASSUME CodexAuthAssumption ==
    /\ None \notin Content \cup Caller
    /\ MaxEvents \in Nat

VARIABLES
    rows,      \* the profiles' rows
    active,    \* the rows with is_active
    live,      \* auth.json and config.toml of each home
    task,      \* what each caller does
    mutation,  \* who holds profile_mutation_lock
    agreed,    \* history: whether nothing came between rows and files
    events     \* how much came from outside

vars == <<rows, active, live, task, mutation, agreed, events>>

Config == Content \cup {Empty}
Row == [home: Home, auth: Content, config: Config, quota: Content \cup {None}]
Files == [auth: Content \cup {None}, config: Config \cup {None}]

Undoing == {"undoAuth", "undoConfig", "undoActive"}
Writing == {"auth", "config", "mark"} \cup Undoing
Locked == {"upsert", "delete", "read", "look", "list", "quota", "done", "failed"}
          \cup Writing
Phase == {"idle", "importAuth", "importConfig", "import"} \cup Locked

Idle == [at |-> "idle", profile |-> None, row |-> None, old |-> None,
         last |-> {}, todo |-> {}, marking |-> FALSE, clean |-> TRUE, alone |-> TRUE]

TypeOK ==
    /\ \A p \in Profile: rows[p] # None => rows[p] \in Row
    /\ active \subseteq {p \in Profile: rows[p] # None}
    /\ live \in [Home -> Files]
    /\ \A c \in Caller: task[c].at \in Phase /\ task[c].todo \subseteq Profile
    /\ mutation \in Caller \cup {None}
    /\ agreed \in BOOLEAN

\* No profile yet; the Codex CLI may have been used.
Init ==
    /\ rows = [p \in Profile |-> None]
    /\ active = {}
    /\ live \in [Home -> {[auth |-> a, config |-> None]: a \in Content \cup {None}}]
    /\ task = [c \in Caller |-> Idle]
    /\ mutation = None
    /\ agreed = TRUE
    /\ events = 0

Go(c, where) == task' = [task EXCEPT ![c].at = where]
Done(c) == task' = [task EXCEPT ![c] = [Idle EXCEPT !.at = "done"]]
At(c, where) == task[c].at = where
Keep == UNCHANGED <<mutation, events>>
KeepData == UNCHANGED <<rows, active, live, agreed>>

----------------------------------------------------------------------------
(* Requests and the lock. *)

\* (mutant) Nobody waits for profile_mutation_lock.
LockAtOnce(c) == UNCHANGED mutation

Lock(c) == mutation = None /\ mutation' = c

Call(c, t) ==
    /\ At(c, "idle")
    /\ Lock(c)
    /\ task' = [task EXCEPT ![c] = t]
    /\ UNCHANGED events /\ KeepData

Upsert(c, p, row) == Call(c, [Idle EXCEPT !.at = "upsert", !.profile = p, !.row = row])
Delete(c, p) == Call(c, [Idle EXCEPT !.at = "delete", !.profile = p])
Switch(c, p) == Call(c, [Idle EXCEPT !.at = "read", !.profile = p])
QueryQuota(c, p) == Call(c, [Idle EXCEPT !.at = "look", !.profile = p])
RefreshAll(c) == Call(c, [Idle EXCEPT !.at = "list"])

Import(c, h) ==
    /\ At(c, "idle")
    /\ task' = [task EXCEPT ![c] = [Idle EXCEPT !.at = "importAuth",
                  !.row = [home |-> h, auth |-> None, config |-> Empty, quota |-> None]]]
    /\ KeepData /\ Keep

\* import_current_profile reads the files before it asks for the lock.
ImportAuth(c) ==
    /\ At(c, "importAuth")
    /\ LET found == live[task[c].row.home].auth
       IN task' = IF found = None THEN [task EXCEPT ![c] = Idle]
                  ELSE [task EXCEPT ![c].row.auth = found, ![c].at = "importConfig"]
    /\ KeepData /\ Keep

ImportConfig(c) ==
    /\ At(c, "importConfig")
    /\ LET found == live[task[c].row.home].config
       IN task' = [task EXCEPT ![c].row.config = IF found = None THEN Empty ELSE found,
                               ![c].at = "import"]
    /\ KeepData /\ Keep

ImportFails(c) ==
    /\ task[c].at \in {"importAuth", "importConfig"}
    /\ task' = [task EXCEPT ![c] = Idle]
    /\ KeepData /\ Keep

\* upsert_profile, with a new id.
ImportLocks(c) ==
    /\ At(c, "import")
    /\ Lock(c)
    /\ \E p \in Profile:
         /\ rows[p] = None
         /\ task' = [task EXCEPT ![c].profile = p, ![c].at = "upsert"]
    /\ UNCHANGED events /\ KeepData

Unlock(c) ==
    /\ task[c].at \in {"done", "failed"}
    /\ task' = [task EXCEPT ![c] = Idle]
    /\ mutation' = IF mutation = c THEN None ELSE mutation
    /\ UNCHANGED events /\ KeepData

\* A step of the database or of the file system that fails with nothing changed.
Fails(c) ==
    /\ task[c].at \in {"upsert", "delete", "read", "look", "list", "quota"}
    /\ Go(c, "failed")
    /\ KeepData /\ Keep

----------------------------------------------------------------------------
(* Profiles.  A write to the row that is active leaves the files as they are. *)

SameFiles(r, s) == r.home = s.home /\ r.auth = s.auth /\ r.config = s.config

\* ON CONFLICT(id): the quota and is_active stay.
Saved(old, row) == IF old = None THEN row ELSE [row EXCEPT !.quota = old.quota]

WriteRow(c) ==
    /\ At(c, "upsert")
    /\ LET p == task[c].profile
       IN /\ rows' = [rows EXCEPT ![p] = Saved(@, task[c].row)]
          /\ agreed' = (agreed /\ (p \in active => SameFiles(rows[p], task[c].row)))
    /\ Done(c)
    /\ UNCHANGED <<active, live>> /\ Keep

DeleteRow(c) ==
    /\ At(c, "delete")
    /\ rows' = [rows EXCEPT ![task[c].profile] = None]
    /\ active' = active \ {task[c].profile}
    /\ IF rows[task[c].profile] = None THEN Go(c, "failed") ELSE Done(c)
    /\ UNCHANGED <<live, agreed>> /\ Keep

\* The row whose quota is asked for is read before the provider is asked, and
\* list_profile_records reads them all.
Look(c) ==
    /\ At(c, "look")
    /\ LET p == task[c].profile
       IN IF rows[p] = None THEN Go(c, "failed")
          ELSE task' = [task EXCEPT ![c].at = "quota", ![c].todo = {p}, ![c].row = rows]
    /\ KeepData /\ Keep

List(c) ==
    /\ At(c, "list")
    /\ task' = [task EXCEPT ![c].at = "quota", ![c].row = rows,
                            ![c].todo = {p \in Profile: rows[p] # None}]
    /\ KeepData /\ Keep

\* The provider's answer, a failure to get one included, becomes the row's quota.
SaveQuota(c) ==
    /\ At(c, "quota")
    /\ \/ /\ task[c].todo = {}
          /\ Done(c)
          /\ UNCHANGED rows
       \/ \E p \in task[c].todo:
             IF rows[p] = None THEN Go(c, "failed") /\ UNCHANGED rows
             ELSE /\ rows' = [rows EXCEPT ![p].quota = task[c].row[p].auth]
                  /\ task' = [task EXCEPT ![c].todo = @ \ {p}]
    /\ UNCHANGED <<active, live, agreed>> /\ Keep

----------------------------------------------------------------------------
(* switch_profile. *)

\* Nothing else changes the row or the active one until the files have been read.
Snapshot(c) ==
    /\ At(c, "read")
    /\ LET r == rows[task[c].profile]
       IN IF r = None THEN Go(c, "failed")
          ELSE task' = [task EXCEPT ![c].at = "auth", ![c].row = r, ![c].old = live[r.home],
                                    ![c].last = active]
    /\ KeepData /\ Keep

\* write_file_replace: the file is replaced as a whole, or not at all.
WriteAuth(c) ==
    /\ At(c, "auth")
    /\ \/ /\ live' = [live EXCEPT ![task[c].row.home].auth = task[c].row.auth]
          /\ Go(c, "config")
       \/ Go(c, "undoAuth") /\ UNCHANGED live
    /\ UNCHANGED <<rows, active, agreed>> /\ Keep

\* (mutant) A failure of the second file is returned without a rollback.
WriteConfigOrLeave(c) ==
    /\ At(c, "config")
    /\ \/ /\ live' = [live EXCEPT ![task[c].row.home].config = task[c].row.config]
          /\ Go(c, "mark")
       \/ Go(c, "failed") /\ UNCHANGED live
    /\ UNCHANGED <<rows, active, agreed>> /\ Keep

WriteConfig(c) ==
    /\ At(c, "config")
    /\ \/ /\ live' = [live EXCEPT ![task[c].row.home].config = task[c].row.config]
          /\ Go(c, "mark")
       \/ Go(c, "undoAuth") /\ UNCHANGED live
    /\ UNCHANGED <<rows, active, agreed>> /\ Keep

\* (mutant) The other rows keep is_active.
MarkAlso(p) == active \cup {p}

\* mark_codex_auth_profile_active.
Marked(p) == {p}

\* (mutant) The files stay when the row cannot be marked.
MarkActiveOrLeave(c) ==
    /\ At(c, "mark")
    /\ \/ /\ rows[task[c].profile] # None
          /\ active' = Marked(task[c].profile)
          /\ agreed' = task[c].alone
          /\ Done(c)
       \/ Go(c, "failed") /\ UNCHANGED <<active, agreed>>
    /\ UNCHANGED <<rows, live>> /\ Keep

MarkActive(c) ==
    /\ At(c, "mark")
    /\ \/ /\ rows[task[c].profile] # None
          /\ active' = Marked(task[c].profile)
          /\ agreed' = task[c].alone
          /\ Done(c)
       \/ /\ task' = [task EXCEPT ![c].at = "undoAuth", ![c].marking = TRUE]
          /\ UNCHANGED <<active, agreed>>
    /\ UNCHANGED <<rows, live>> /\ Keep

\* rollback_live_codex_config, one file: it is as it was and was read back, or a
\* failure is noted, whatever became of the file.
UndoFile(c, file, next) ==
    LET h == task[c].row.home
        restored == [live EXCEPT ![h][file] = task[c].old[file]]
    IN \/ live' = restored /\ Go(c, next) /\ UNCHANGED agreed
       \/ /\ live' \in {live, restored}
          /\ task' = [task EXCEPT ![c].at = next, ![c].clean = FALSE]
          /\ agreed' = FALSE

UndoAuth(c) ==
    /\ At(c, "undoAuth")
    /\ UndoFile(c, "auth", "undoConfig")
    /\ UNCHANGED <<rows, active>> /\ Keep

UndoConfig(c) ==
    /\ At(c, "undoConfig")
    /\ UndoFile(c, "config", IF task[c].marking THEN "undoActive" ELSE "failed")
    /\ UNCHANGED <<rows, active>> /\ Keep

\* restore_codex_auth_active_profile.
UndoActive(c) ==
    /\ At(c, "undoActive")
    /\ \/ /\ \A p \in task[c].last: rows[p] # None
          /\ active' = task[c].last
          /\ Go(c, "failed")
          /\ UNCHANGED agreed
       \/ /\ task' = [task EXCEPT ![c].at = "failed", ![c].clean = FALSE]
          /\ agreed' = FALSE
          /\ UNCHANGED active
    /\ UNCHANGED <<rows, live>> /\ Keep

----------------------------------------------------------------------------
(* Outside. *)

\* The Codex CLI logs in, refreshes its tokens, is configured or logs out.
Outside(h) ==
    /\ events < MaxEvents
    /\ \/ \E a \in Content \cup {None}:
            a # live[h].auth /\ live' = [live EXCEPT ![h].auth = a]
       \/ \E g \in Config \cup {None}:
            g # live[h].config /\ live' = [live EXCEPT ![h].config = g]
    /\ agreed' = FALSE
    /\ events' = events + 1
    /\ task' = [c \in Caller |-> IF task[c].at \in Writing \cup {"failed"} THEN [task[c] EXCEPT !.alone = FALSE]
                                 ELSE task[c]]
    /\ UNCHANGED <<rows, active, mutation>>

Crash ==
    /\ events < MaxEvents
    /\ \E c \in Caller: task[c] # Idle
    /\ events' = events + 1
    /\ agreed' = (agreed /\ \A c \in Caller: task[c].at \notin Writing)
    /\ task' = [c \in Caller |-> Idle]
    /\ mutation' = None
    /\ UNCHANGED <<rows, active, live>>

Step(c) ==
    \/ ImportAuth(c) \/ ImportConfig(c) \/ ImportFails(c)
    \/ ImportLocks(c) \/ Unlock(c) \/ Fails(c)
    \/ WriteRow(c) \/ DeleteRow(c) \/ Look(c) \/ List(c) \/ SaveQuota(c)
    \/ Snapshot(c) \/ WriteAuth(c) \/ WriteConfig(c) \/ MarkActive(c)
    \/ UndoAuth(c) \/ UndoConfig(c) \/ UndoActive(c)

Next ==
    \/ \E c \in Caller:
         \/ Step(c)
         \/ \E p \in Profile:
              \/ \E h \in Home, a \in Content:
                   Upsert(c, p, [home |-> h, auth |-> a, config |-> a, quota |-> None])
              \/ Delete(c, p) \/ Switch(c, p) \/ QueryQuota(c, p)
         \/ RefreshAll(c)
         \/ \E h \in Home: Import(c, h)
    \/ \E h \in Home: Outside(h)
    \/ Crash

Spec == Init /\ [][Next]_vars

----------------------------------------------------------------------------
(* Properties. *)

\* However switches, deletions and rollbacks follow each other, one row at most is
\* the active one (mark_codex_auth_profile_active, restore_codex_auth_active_profile).
OneActive == Cardinality(active) <= 1

\* What the active row says is in its home's files, unless its row was edited since,
\* the Codex CLI wrote there, a crash cut a switch short, or a switch reported that
\* its rollback failed (switch_profile, attach_codex_auth_rollback_failures).
ActiveProfileIsLive ==
    agreed /\ (\A c \in Caller: task[c].at \notin Writing) =>
        \A p \in active: /\ live[rows[p].home].auth = rows[p].auth
                         /\ live[rows[p].home].config = rows[p].config

\* A switch that fails and reports its rollback completed has left its home's
\* files and the active row as it found them (write_live_codex_config, switch_profile).
FailedSwitchIsUndone ==
    \A c \in Caller:
        /\ At(c, "failed") /\ task[c].old # None
        /\ task[c].clean /\ task[c].alone
        => live[task[c].row.home] = task[c].old /\ active = task[c].last

\* A quota is stored with the credentials it was asked with, though the provider takes
\* its time: nobody changes the row meanwhile (query_quota, refresh_all_quotas).
QuotaGoesWithCredentials ==
    [][\A p \in Profile:
         rows[p] # None /\ rows'[p] # None /\ rows'[p].quota # rows[p].quota =>
             rows'[p].quota = rows'[p].auth]_vars
=============================================================================
