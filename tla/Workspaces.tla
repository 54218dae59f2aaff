----------------------------- MODULE Workspaces -----------------------------
(***************************************************************************)
(* Workspaces, their projects, and the import of a project list.           *)
(*                                                                         *)
(* Every command of the workbench is one write transaction.  An import is  *)
(* longer: it reads the registered workspaces, matches the file's          *)
(* directories against them, and only then writes, in one transaction, an  *)
(* entry after another; the pins live in the preferences and follow the    *)
(* commit.  Between the read and the write every other command may run.    *)
(***************************************************************************)
EXTENDS Naturals, Sequences, FiniteSets

CONSTANTS
    Workspace,  \* workspace ids: each is used once
    Project,    \* project ids: each is used once
    Path,       \* directories
    Removable,  \* directories that may disappear (a bound of the model)
    Data,       \* what a row says besides: labels, order, archive flag, launch tasks
    Documents,  \* files a user may import: sequences of items
    Importer,   \* import commands in progress
    None,       \* an id not used yet
    Gone        \* an id whose row was deleted

VARIABLES
    workspaces, \* table: None, Gone, or whether it is the default, and data
    projects,   \* table: None, Gone, or its workspace, path and data
    disk,       \* the directories that exist
    pins,       \* preferences.workspace.pinned_workspace_ids
    importing,  \* holder of import_lock
    draft,      \* the tables as the open transaction of an import sees them
    job         \* where each import command is

vars == <<workspaces, projects, disk, pins, importing, draft, job>>

tables == <<workspaces, projects>>

-----------------------------------------------------------------------------
\* Tables.

Row == [default: BOOLEAN, data: Data]
ProjectRow == [workspace: Workspace, path: Path, data: Data]

Live(table) == {id \in DOMAIN table : table[id] \notin {None, Gone}}
Unused(table) == {id \in DOMAIN table : table[id] = None}
Defaults(table) == {w \in Live(table) : table[w].default}
InWorkspace(table, w) == {p \in Live(table) : table[p].workspace = w}

\* (mutant) the other rows keep their flag
WithDefaultToo(table, w) == [table EXCEPT ![w].default = TRUE]

\* UPDATE workspaces SET is_default = (id = w)
WithDefault(table, w) ==
    [x \in DOMAIN table |->
        IF x \in Live(table) THEN [table[x] EXCEPT !.default = (x = w)]
        ELSE table[x]]

-----------------------------------------------------------------------------
\* An item of a file: the directories of one workspace, what it says of them,
\* and whether the workspace was the default and pinned where it came from.

Item == [paths: SUBSET Path, data: Data, default: BOOLEAN, pinned: BOOLEAN]

ASSUME WorkspacesAssumption ==
    /\ {None, Gone} \cap (Row \cup ProjectRow \cup Workspace \cup Project) = {}
    /\ None # Gone /\ None \notin Importer
    /\ Workspace # {}
    /\ Documents \subseteq Seq(Item)

At(path) == {p \in Live(projects) : projects[p].path = path}

Matches(item) == UNION {At(path) : path \in item.paths}

Owners(item) == {projects[p].workspace : p \in Matches(item)}

\* No directory, a missing one, one registered twice, one the file has twice,
\* or directories of several registered workspaces.
Blocked(doc, i) ==
    \/ doc[i].paths = {}
    \/ Cardinality(Owners(doc[i])) > 1
    \/ \E path \in doc[i].paths :
          \/ path \notin disk
          \/ Cardinality(At(path)) > 1
          \/ \E j \in DOMAIN doc \ {i} : path \in doc[j].paths

Allowed(doc, i) ==
    {"skip"} \cup (IF Blocked(doc, i) THEN {}
                   ELSE IF Owners(doc[i]) = {} THEN {"create"} ELSE {"update"})

\* The plan entry of an item, for the action the user chose: the workspace and
\* the projects it was matched with.
Planned(doc, i, action) ==
    [action |-> action, item |-> doc[i],
     workspace |-> IF action = "update" THEN CHOOSE w \in Owners(doc[i]) : TRUE
                   ELSE None,
     matched |-> [path \in doc[i].paths |->
        IF action = "update" /\ At(path) # {} THEN CHOOSE p \in At(path) : TRUE
        ELSE None]]

-----------------------------------------------------------------------------
NoDraft == [workspaces |-> <<>>, projects |-> <<>>]

Idle == [phase |-> "idle", plan |-> <<>>, at |-> 0, touched |-> <<>>,
         pin |-> {}, unpin |-> {}]

Init ==
    /\ workspaces = [w \in Workspace |-> None]
    /\ projects = [p \in Project |-> None]
    /\ disk = Path
    /\ pins = {}
    /\ importing = None
    /\ draft = NoDraft
    /\ job = [c \in Importer |-> Idle]

Go(c, r) == job' = [job EXCEPT ![c] = r]

\* SQLite has one writer: a command's transaction waits for an import's.
Writable == draft = NoDraft

CommandOnly == UNCHANGED <<disk, pins, importing, draft, job>>

-----------------------------------------------------------------------------
\* The commands.

\* register_workspace_folder
RegisterFolder(w, p, path) ==
    /\ Writable
    /\ w \in Unused(workspaces) /\ p \in Unused(projects)
    /\ path \in disk
    /\ At(path) = {}
    /\ \E data \in Data :
          /\ workspaces' = [workspaces EXCEPT ![w] =
                [default |-> Live(workspaces) = {}, data |-> data]]
          /\ projects' = [projects EXCEPT ![p] =
                [workspace |-> w, path |-> path, data |-> data]]
    /\ CommandOnly

\* upsert_workspace: a new row and an old one alike take the default from the others.
UpsertWorkspace(w, row) ==
    /\ Writable
    /\ workspaces[w] # Gone
    /\ LET saved == [workspaces EXCEPT ![w] = row]
       IN workspaces' = IF row.default THEN WithDefault(saved, w) ELSE saved
    /\ UNCHANGED projects
    /\ CommandOnly

\* update_workspace_description: the default stays as it is.
UpdateDescription(w, data) ==
    /\ Writable
    /\ w \in Live(workspaces)
    /\ workspaces' = [workspaces EXCEPT ![w].data = data]
    /\ UNCHANGED projects
    /\ CommandOnly

\* set_workspaces_archived and reorder_workspaces: of all the workspaces named, or of
\* none when one is not there.
ChangeWorkspaces(ws, data) ==
    /\ Writable
    /\ ws # {} /\ ws \subseteq Live(workspaces)
    /\ workspaces' = [w \in Workspace |->
          IF w \in ws THEN [workspaces[w] EXCEPT !.data = data[w]] ELSE workspaces[w]]
    /\ UNCHANGED projects
    /\ CommandOnly

\* delete_workspace: refused while it has projects; no other becomes default.
DeleteWorkspace(w) ==
    /\ Writable
    /\ w \in Live(workspaces)
    /\ InWorkspace(projects, w) = {}
    /\ workspaces' = [workspaces EXCEPT ![w] = Gone]
    /\ UNCHANGED projects
    /\ CommandOnly

\* remove_workspace_registration: its projects go with it, and the workspace
\* changed last, any one here, becomes the default.
RemoveRegistration(w) ==
    /\ Writable
    /\ w \in Live(workspaces)
    /\ projects' = [p \in Project |->
          IF p \in InWorkspace(projects, w) THEN Gone ELSE projects[p]]
    /\ LET rest == [workspaces EXCEPT ![w] = Gone]
       IN IF workspaces[w].default /\ Live(rest) # {}
          THEN \E next \in Live(rest) : workspaces' = [rest EXCEPT ![next].default = TRUE]
          ELSE workspaces' = rest
    /\ CommandOnly

\* upsert_project: may move the project to another workspace or directory;
\* nothing looks for another project there.
UpsertProject(p, row) ==
    /\ Writable
    /\ projects[p] # Gone
    /\ row.workspace \in Live(workspaces)
    /\ row.path \in disk
    /\ projects' = [projects EXCEPT ![p] = row]
    /\ UNCHANGED workspaces
    /\ CommandOnly

\* upsert_launch_task: of a project, and of the other one the task comes from.
SaveLaunchTask(ps, data) ==
    /\ Writable
    /\ Cardinality(ps) \in 1..2 /\ ps \subseteq Live(projects)
    /\ projects' = [p \in Project |->
          IF p \in ps THEN [projects[p] EXCEPT !.data = data[p]] ELSE projects[p]]
    /\ UNCHANGED workspaces
    /\ CommandOnly

\* reorder_launch_tasks and delete_launch_task.
ChangeLaunchTasks(p, data) ==
    /\ Writable
    /\ p \in Live(projects)
    /\ projects' = [projects EXCEPT ![p].data = data]
    /\ UNCHANGED workspaces
    /\ CommandOnly

-----------------------------------------------------------------------------
\* apply_workspace_list_import.

\* Under import_lock: the file's hash is the previewed one, the tables are
\* read, the items analysed and the user's choices allowed.
Analyse(c, doc) ==
    /\ job[c] = Idle
    /\ importing = None
    /\ \E actions \in [DOMAIN doc -> {"skip", "create", "update"}] :
          /\ \A i \in DOMAIN doc : actions[i] \in Allowed(doc, i)
          /\ \E i \in DOMAIN doc : actions[i] # "skip"
          /\ Go(c, [Idle EXCEPT
                !.phase = "analysed",
                !.plan = [i \in DOMAIN doc |-> Planned(doc, i, actions[i])]])
    /\ importing' = c
    /\ UNCHANGED <<workspaces, projects, disk, pins, draft>>

\* database.write opens the transaction.
OpenImport(c) ==
    /\ job[c].phase = "analysed"
    /\ Writable
    /\ draft' = [workspaces |-> workspaces, projects |-> projects]
    /\ Go(c, [job[c] EXCEPT !.phase = "writing", !.at = 1])
    /\ UNCHANGED <<workspaces, projects, disk, pins, importing>>

Current(c) == job[c].plan[job[c].at]

Writing(c, action) ==
    /\ job[c].phase = "writing"
    /\ job[c].at \in DOMAIN job[c].plan
    /\ Current(c).action = action

\* The project id for each directory of an entry: the matched project's, or a
\* new one.
Ids(entry) ==
    {ids \in [entry.item.paths -> Project] :
        /\ \A path \in entry.item.paths :
              IF entry.matched[path] = None THEN ids[path] \in Unused(draft.projects)
              ELSE ids[path] = entry.matched[path]
        /\ \A path, other \in entry.item.paths :
              ids[path] = ids[other] => path = other}

\* insert_imported_project: a matched project's configuration and launch tasks
\* are replaced, the others are inserted.
Inserted(entry, w, ids) ==
    [p \in Project |->
        IF \E path \in entry.item.paths : ids[path] = p
        THEN [workspace |-> w, data |-> entry.item.data,
              path |-> CHOOSE path \in entry.item.paths : ids[path] = p]
        ELSE draft.projects[p]]

\* (mutant) only the workspace is looked for
WorkspaceStillThere(entry) == entry.workspace \in Live(draft.workspaces)

\* The matched workspace and its matched projects are where they were when the
\* file was analysed.
StillThere(entry) ==
    /\ entry.workspace \in Live(draft.workspaces)
    /\ \A path \in entry.item.paths :
          entry.matched[path] # None =>
             entry.matched[path] \in InWorkspace(draft.projects, entry.workspace)

Wrote(c, w, row, ids) ==
    /\ draft' = [workspaces |-> [draft.workspaces EXCEPT ![w] = row],
                 projects |-> Inserted(Current(c), w, ids)]
    /\ Go(c, [job[c] EXCEPT
          !.at = @ + 1,
          !.touched = Append(@, [workspace |-> w, default |-> Current(c).item.default]),
          !.pin = IF Current(c).item.pinned THEN @ \cup {w} ELSE @,
          !.unpin = IF Current(c).item.pinned \/ Current(c).action = "create" THEN @
                    ELSE @ \cup {w}])
    /\ UNCHANGED <<workspaces, projects, disk, pins, importing>>

\* WorkspaceImportAction::Create: nothing looks again whether a directory was
\* registered since.
CreateEntry(c, w) ==
    /\ Writing(c, "create")
    /\ w \in Unused(draft.workspaces)
    /\ Current(c).item.paths \subseteq disk
    /\ \E ids \in Ids(Current(c)) :
          Wrote(c, w, [default |-> FALSE, data |-> Current(c).item.data], ids)

\* WorkspaceImportAction::Update
UpdateEntry(c) ==
    /\ Writing(c, "update")
    /\ StillThere(Current(c))
    /\ Current(c).item.paths \subseteq disk
    /\ LET w == Current(c).workspace
       IN \E ids \in Ids(Current(c)) :
             Wrote(c, w, [draft.workspaces[w] EXCEPT !.data = Current(c).item.data], ids)

SkipEntry(c) ==
    /\ Writing(c, "skip")
    /\ Go(c, [job[c] EXCEPT !.at = @ + 1])
    /\ UNCHANGED <<workspaces, projects, disk, pins, importing, draft>>

\* Without a default before, the first workspace the file calls the default is
\* it, or else the first one imported.
NewDefault(touched) ==
    LET marked == {i \in DOMAIN touched : touched[i].default}
    IN IF marked = {} THEN touched[1].workspace
       ELSE touched[CHOOSE i \in marked : \A j \in marked : i <= j].workspace

\* After the command returns the lock the pins are merged, when there are any.
AfterImport(r) ==
    IF r.pin \cup r.unpin = {} THEN Idle
    ELSE [Idle EXCEPT !.phase = "pins", !.pin = r.pin, !.unpin = r.unpin]

CommitImport(c) ==
    /\ job[c].phase = "writing"
    /\ job[c].at > Len(job[c].plan)
    /\ projects' = draft.projects
    /\ workspaces' = IF Defaults(draft.workspaces) = {}
                     THEN WithDefault(draft.workspaces, NewDefault(job[c].touched))
                     ELSE draft.workspaces
    /\ draft' = NoDraft
    /\ importing' = None
    /\ Go(c, AfterImport(job[c]))
    /\ UNCHANGED <<disk, pins>>

\* (mutant) the entries written so far stay
AbortHalfway(c) ==
    /\ job[c].phase \in {"analysed", "writing"}
    /\ IF job[c].phase = "writing"
       THEN /\ workspaces' = draft.workspaces
            /\ projects' = draft.projects
            /\ draft' = NoDraft
       ELSE UNCHANGED <<workspaces, projects, draft>>
    /\ importing' = None
    /\ Go(c, Idle)
    /\ UNCHANGED <<disk, pins>>

\* A database error, a matched row that is gone, a directory that is gone: the
\* transaction rolls back.
AbortImport(c) ==
    /\ job[c].phase \in {"analysed", "writing"}
    /\ draft' = IF job[c].phase = "writing" THEN NoDraft ELSE draft
    /\ importing' = None
    /\ Go(c, Idle)
    /\ UNCHANGED <<workspaces, projects, disk, pins>>

\* merge_workspace_pinned_ids; a failure is a warning of the import.
MergePins(c) ==
    /\ job[c].phase = "pins"
    /\ pins' \in {pins, (pins \ job[c].unpin) \cup job[c].pin}
    /\ Go(c, Idle)
    /\ UNCHANGED <<workspaces, projects, disk, importing, draft>>

\* The user pins or unpins a workspace of the list.
Pin(w) ==
    /\ w \in Live(workspaces) \cup pins
    /\ pins' = IF w \in pins THEN pins \ {w} ELSE pins \cup {w}
    /\ UNCHANGED <<workspaces, projects, disk, importing, draft, job>>

\* A directory disappears or comes back.
DirectoryChanges(path) ==
    /\ path \in Removable
    /\ disk' = IF path \in disk THEN disk \ {path} ELSE disk \cup {path}
    /\ UNCHANGED <<workspaces, projects, pins, importing, draft, job>>

-----------------------------------------------------------------------------
Command ==
    \/ \E w \in Workspace, p \in Project, path \in Path : RegisterFolder(w, p, path)
    \/ \E w \in Workspace, row \in Row : UpsertWorkspace(w, row)
    \/ \E w \in Workspace : DeleteWorkspace(w) \/ RemoveRegistration(w)
    \/ \E p \in Project, row \in ProjectRow : UpsertProject(p, row)
    \/ \E w \in Workspace, data \in Data : UpdateDescription(w, data)
    \/ \E ws \in SUBSET Workspace : \E data \in [ws -> Data] : ChangeWorkspaces(ws, data)
    \/ \E ps \in SUBSET Project : \E data \in [ps -> Data] : SaveLaunchTask(ps, data)
    \/ \E p \in Project, data \in Data : ChangeLaunchTasks(p, data)

Import(c) ==
    \/ \E doc \in Documents : Analyse(c, doc)
    \/ OpenImport(c)
    \/ \E w \in Workspace : CreateEntry(c, w)
    \/ UpdateEntry(c) \/ SkipEntry(c)
    \/ CommitImport(c) \/ AbortImport(c)
    \/ MergePins(c)

Next ==
    \/ Command
    \/ \E c \in Importer : Import(c)
    \/ \E w \in Workspace : Pin(w)
    \/ \E path \in Path : DirectoryChanges(path)

Spec == Init /\ [][Next]_vars

-----------------------------------------------------------------------------
\* Properties.

Tables == [workspaces: [Workspace -> Row \cup {None, Gone}],
           projects: [Project -> ProjectRow \cup {None, Gone}]]

\* The tables hold rows, in the open transaction too, and import_lock is held
\* by the command that analyses or writes (import_lock, database.write).
TypeOK ==
    /\ [workspaces |-> workspaces, projects |-> projects] \in Tables
    /\ draft \in Tables \cup {NoDraft}
    /\ disk \subseteq Path
    /\ pins \subseteq Workspace
    /\ importing \in Importer \cup {None}
    /\ \A c \in Importer :
          /\ job[c].phase \in {"idle", "analysed", "writing", "pins"}
          /\ job[c].phase \in {"analysed", "writing"} <=> importing = c
          /\ job[c].phase = "writing" => draft # NoDraft

\* At most one workspace is the default, whatever commands and imports ran
\* (upsert_workspace, register_workspace_folder, remove_workspace_registration
\* and apply_workspace_import_plan each keep it so on their own).
OneDefault == \A w, x \in Defaults(workspaces) : w = x

Commits(c) == job[c].phase = "writing" /\ job'[c].phase # "writing"

Holds(entry, path) ==
    \E p \in Live(projects)' :
       /\ projects'[p].path = path
       /\ projects'[p].data = entry.item.data
       /\ entry.action = "update" => projects'[p].workspace = entry.workspace
       /\ entry.action = "create" => workspaces[projects'[p].workspace] = None

\* An import is all or nothing: once its transaction ends, either every entry
\* the user chose is in the tables or they are as they were
\* (apply_workspace_import_plan under database.write).
ImportIsWhole ==
    [][\A c \in Importer : Commits(c) =>
          \/ UNCHANGED tables
          \/ \A i \in DOMAIN job[c].plan :
                LET entry == job[c].plan[i]
                IN entry.action # "skip" =>
                      \A path \in entry.item.paths : Holds(entry, path)]_vars

\* An import changes no workspace and no project that the user did not choose
\* to update, removes none and moves none, even when rows changed between the
\* analysis and the write (existing_project_ids, belongs_to_workspace).
ImportSparesOthers ==
    [][\A c \in Importer : Commits(c) =>
          LET updated == {job[c].plan[i].workspace : i \in DOMAIN job[c].plan}
          IN /\ \A p \in Live(projects) :
                   \/ projects'[p] = projects[p]
                   \/ /\ projects[p].workspace \in updated
                      /\ projects'[p].workspace = projects[p].workspace
             /\ \A w \in Live(workspaces) \ updated :
                   workspaces'[w].data = workspaces[w].data
             /\ Defaults(workspaces) # {} =>
                   Defaults(workspaces)' = Defaults(workspaces)]_vars

=============================================================================
