--------------------------- MODULE LibraryScripts ---------------------------
(***************************************************************************)
(* The scripts that are not about one task: projects and their reviews,    *)
(* the batches, tags, folders, perspectives, the forecast, attachments and *)
(* the front window (src/scripts/jxa and src/scripts/omnijs), one operator *)
(* for each, named after its file.                                         *)
(***************************************************************************)
EXTENDS TaskScripts

CONSTANTS Today,        \* the day the scripts run on
          AttachmentIds \* ids of files attached to a task or project

-----------------------------------------------------------------------------
\* Projects

\* A folder id is looked up among the top-level folders only.
ProjectList(d, f) ==
    LET top == "folder" \in DOMAIN f => Has(d.folders, f.folder) /\ d.folders[f.folder].parent = None
        in(p) == /\ "folder" \in DOMAIN f => d.projects[p].folder = f.folder
                 /\ "status" \in DOMAIN f => d.projects[p].status = f.status
    IN IF ~top THEN Refuse(d, "NotFound")
       ELSE Answer(d, {BuildProject(d, p) : p \in {q \in DOMAIN d.projects : in(q)}})

ProjectGet(d, p) == Found(d, d.projects, p, Answer(d, BuildProject(d, p)))

ProjectGetMany(d, ids) ==
    Answer(d, [i \in DOMAIN ids |-> IF Has(d.projects, ids[i]) THEN BuildProject(d, ids[i]) ELSE None])

\* The project is made first; when one of its properties cannot be set it is
\* deleted again.  When that fails too (stuck), the answer is the same and the
\* project stays, with the properties set before.  Tags are not set at all.
ProjectCreate(d, a, stuck) ==
    LET p == NewId(d, ProjectIds)
        row == Filled(NewProject(a.folder), Without(a.fields, {"tags"}))
        put(x) == [d EXCEPT !.projects = With(@, p, x), !.used = @ \cup {p}]
        half == put(Filled(NewProject(a.folder), SetFirst(a.fields)))
    IN CASE a.blank -> Refuse(d, "Validation")
         [] ~a.blank /\ a.folder # None /\ ~Has(d.folders, a.folder) -> Refuse(d, "NotFound")
         [] OTHER -> CASE row.interval # 0 -> Answer(put(row), BuildProject(put(row), p))
                       [] row.interval = 0 /\ stuck -> \* OmniFocus takes no such interval
                             Refuse(half, "Validation")
                       [] row.interval = 0 /\ ~stuck ->
                             Refuse([half EXCEPT !.projects = Without(@, {p})], "Validation")

ProjectSettable == {"note", "flagged", "status"}

ProjectUpdate(d, p, patch, cut) ==
    LET set(fields) == [d EXCEPT !.projects[p] = Over(@, Restrict(patch, DOMAIN patch \cap fields))] IN
    Found(d, d.projects, p,
          CASE Has(patch, "noteHtml") -> Refuse(set({"note"}), "Unsupported")
            [] ~Has(patch, "noteHtml") /\ cut -> Refuse(set({"note", "flagged"}), "Script")
            [] OTHER -> Answer(set(ProjectSettable), BuildProject(set(ProjectSettable), p)))

SetProject(d, p, field, value) ==
    Found(d, d.projects, p, Answer([d EXCEPT !.projects[p][field] = value], p))

ProjectComplete(d, p) == SetProject(d, p, "status", "completed")
ProjectDrop(d, p)     == SetProject(d, p, "status", "dropped")

\* Mutant: the project leaves its folder before the other is looked up.
LeavesThenLooks(d, p, folder) ==
    IF folder # None /\ Has(d.projects, p) /\ ~Has(d.folders, folder)
    THEN Refuse([d EXCEPT !.projects[p].folder = None], "NotFound")
    ELSE SetProject(d, p, "folder", folder)

ProjectMove(d, p, folder) ==
    IF folder # None /\ Has(d.projects, p) /\ ~Has(d.folders, folder) THEN Refuse(d, "NotFound")
    ELSE SetProject(d, p, "folder", folder)

\* Deleting a project deletes the tasks in it (external).
ProjectDelete(d, p) ==
    Found(d, d.projects, p,
          Answer([DeleteTasks(d, FlattenedTasks(d, p)) EXCEPT !.projects = Without(@, {p})], p))

-----------------------------------------------------------------------------
\* Batches, of tasks and of projects

\* What the script does for the item x when the document is e.  Most look an
\* item up when its turn comes, so a child deleted with its parent is not found
\* any more; three look all of them up in d, before they start.  An item of a
\* move is [id, to].
Item(script, d, e, x) ==
    CASE script = "task_batch_create"   -> CreateItem(e, x)
      [] script = "task_batch_update"   -> UpdateItem(e, x)
      [] script = "task_batch_complete" -> TaskComplete(e, x)
      [] script = "task_batch_delete"   -> TaskDelete(e, x)
      [] script = "task_batch_drop"     -> TaskDrop(e, x)
      [] script = "task_batch_undrop"   -> TaskUndrop(e, x)
      [] script = "task_batch_uncomplete" ->
            IF Has(d.tasks, x) THEN Answer(MarkIncomplete(e, x), x) ELSE Refuse(e, "NotFound")
      [] script = "task_batch_move"     -> TaskMove(e, x.id, x.to)
      [] script = "project_batch_complete" ->
            IF Has(d.projects, x) THEN ProjectComplete(e, x) ELSE Refuse(e, "NotFound")
      [] script = "project_batch_drop" ->
            IF Has(d.projects, x) THEN ProjectDrop(e, x) ELSE Refuse(e, "NotFound")

BatchScript(script, d, items) == EachItem(d, items, LAMBDA e, x : Item(script, d, e, x))

TaskBatchCreate(d, inputs)   == BatchScript("task_batch_create", d, inputs)
TaskBatchUpdate(d, updates)  == BatchScript("task_batch_update", d, updates)
TaskBatchComplete(d, ids)    == BatchScript("task_batch_complete", d, ids)
TaskBatchDelete(d, ids)      == BatchScript("task_batch_delete", d, ids)
TaskBatchDrop(d, ids)        == BatchScript("task_batch_drop", d, ids)
TaskBatchUndrop(d, ids)      == BatchScript("task_batch_undrop", d, ids)
TaskBatchUncomplete(d, ids)  == BatchScript("task_batch_uncomplete", d, ids)
TaskBatchMove(d, items)      == BatchScript("task_batch_move", d, items)
ProjectBatchComplete(d, ids) == BatchScript("project_batch_complete", d, ids)
ProjectBatchDrop(d, ids)     == BatchScript("project_batch_drop", d, ids)

-----------------------------------------------------------------------------
\* Reviews

\* markReviewed (external): reviewed today, next after the interval.
ProjectMarkReviewed(d, p) ==
    LET x == d.projects[p] IN
    Found(d, d.projects, p,
          Answer([d EXCEPT !.projects[p].last = Today,
                           !.projects[p].next = IF x.interval = None THEN @ ELSE Today + x.interval], p))

ProjectSetReviewInterval(d, p, days) == SetProject(d, p, "interval", days)
ProjectSetNextReviewDate(d, p, date) == SetProject(d, p, "next", date)

\* A project that was never reviewed is due.
ReviewListDue(d) ==
    Answer(d, {p \in DOMAIN d.projects :
                  /\ d.projects[p].status \in {"active", "on-hold"}
                  /\ d.projects[p].next = None \/ d.projects[p].next <= Today})

-----------------------------------------------------------------------------
\* Tags

TagList(d, f) ==
    LET in(g) == /\ "parent" \in DOMAIN f => d.tags[g].parent = f.parent
                 /\ "status" \in DOMAIN f => d.tags[g].status = f.status
    IN Answer(d, {BuildTag(d, g) : g \in {h \in DOMAIN d.tags : in(h)}})

TagGet(d, g) == Found(d, d.tags, g, Answer(d, BuildTag(d, g)))

TagGetMany(d, ids) ==
    Answer(d, [i \in DOMAIN ids |-> IF Has(d.tags, ids[i]) THEN BuildTag(d, ids[i]) ELSE None])

TagCreate(d, a) ==
    LET g == NewId(d, TagIds)
        row == Filled(NewTag(a.parent), Restrict(a, DOMAIN a \cap {"name"}))
        made == [d EXCEPT !.tags = With(@, g, row), !.used = @ \cup {g}]
    IN CASE a.blank -> Refuse(d, "Validation")
         [] ~a.blank /\ a.parent # None /\ ~Has(d.tags, a.parent) -> Refuse(d, "NotFound")
         [] OTHER -> Answer(made, BuildTag(made, g))

TagUpdate(d, g, patch) ==
    LET e == [d EXCEPT !.tags[g] = Over(@, Restrict(patch, DOMAIN patch \cap {"status", "nextAction"}))]
    IN Found(d, d.tags, g, Answer(e, BuildTag(e, g)))

\* Deleting a tag deletes the tags in it and takes them off every task and
\* project (external).  The forecast tag setting keeps the id.
TagsIn(d, g) ==
    LET with(S) == g \in S /\ \A x \in DOMAIN d.tags : d.tags[x].parent \in S => x \in S
    IN {x \in DOMAIN d.tags : \A S \in SUBSET DOMAIN d.tags : with(S) => x \in S}

TagDelete(d, g) ==
    LET S == TagsIn(d, g)
        bare(f) == [x \in DOMAIN f |-> [f[x] EXCEPT !.tags = @ \ S]]
    IN Found(d, d.tags, g, Answer([d EXCEPT !.tags = Without(d.tags, S), !.tasks = bare(d.tasks),
                                            !.projects = bare(d.projects)], g))

-----------------------------------------------------------------------------
\* Folders

FolderList(d, f) ==
    Answer(d, {BuildFolder(d, x) :
                  x \in {y \in DOMAIN d.folders : "parent" \in DOMAIN f => d.folders[y].parent = f.parent}})

FolderGet(d, f) == Found(d, d.folders, f, Answer(d, BuildFolder(d, f)))

FolderCreate(d, a) ==
    LET f == NewId(d, FolderIds)
        row == Filled(NewFolder(a.parent), Restrict(a, DOMAIN a \cap {"name"}))
        made == [d EXCEPT !.folders = With(@, f, row), !.used = @ \cup {f}]
    IN CASE a.blank -> Refuse(d, "Validation")
         [] ~a.blank /\ a.parent # None /\ ~Has(d.folders, a.parent) -> Refuse(d, "NotFound")
         [] OTHER -> Answer(made, BuildFolder(made, f))

\* Only the name, which is not kept here.
FolderUpdate(d, f) == FolderGet(d, f)

FolderDelete(d, f) ==
    Found(d, d.folders, f,
          IF ProjectsIn(d, f) \cup FoldersIn(d, f) # {} THEN Refuse(d, "Script")
          ELSE Answer([d EXCEPT !.folders = Without(@, {f})], f))

-----------------------------------------------------------------------------
\* The forecast and the built-in perspectives

Open(d) == {t \in DOMAIN d.tasks : ~d.tasks[t].done /\ ~d.tasks[t].dropped}
Due(d, lo, hi) == {t \in Open(d) : d.tasks[t].due # None /\ d.tasks[t].due \in lo..hi}

\* Arguments: [from, to, overdue, deferred, flagged].
ForecastGet(d, a) ==
    LET when(on, S) == IF on THEN S ELSE {} IN
    Answer(d, [overdue  |-> when(a.overdue, Due(d, 0, a.from - 1)),
               today    |-> Due(d, a.from, a.to),
               deferred |-> when(a.deferred, {t \in Open(d) : d.tasks[t].defer # None
                                                              /\ d.tasks[t].defer \in a.from..a.to}),
               flagged  |-> when(a.flagged, {t \in Open(d) : d.tasks[t].flagged})])

PerspectiveEvaluate(d, id) ==
    Answer(d, CASE id = "inbox"    -> ChildTasks(d, Inbox)
                [] id = "flagged"  -> {t \in Open(d) : d.tasks[t].flagged}
                [] id = "forecast" -> Due(d, 0, Today)
                [] id = "projects" -> {t \in Open(d) : ProjectOf(d, t) # None}
                [] id = "tags"     -> {t \in Open(d) : d.tasks[t].tags # {}}
                [] OTHER           -> {})

\* The setting may name a tag that is gone.
ForecastTagWithName(d) == Answer(d, IF Has(d.tags, d.fcTag) THEN d.fcTag ELSE None)

ForecastTagSetWithName(d, g) ==
    IF g = None THEN Answer([d EXCEPT !.fcTag = None], None)
    ELSE Found(d, d.tags, g, Answer([d EXCEPT !.fcTag = g], g))

-----------------------------------------------------------------------------
\* Custom perspectives: [name, aggregation, rules, color].

\* What OmniFocus shows for rules (external).
Shown(d, rules) == {t \in Open(d) : "flagged" \in rules => d.tasks[t].flagged}

PerspectiveList(d) == Answer(d, DOMAIN d.persp)
PerspectiveGet(d, v) == Found(d, d.persp, v, Answer(d, [d.persp[v] EXCEPT !.name = v]))

Named(d, name) == {v \in DOMAIN d.persp : d.persp[v].name = name}

\* A shell is made and configured; when OmniFocus does not take the
\* configuration the shell is deleted again, unless that fails too.
\* fault is "no", "configure" or "rollback".
PerspectiveCreate(d, a, fault) ==
    LET v == NewId(d, PerspectiveIds)
        shell == [name |-> a.name, aggregation |-> "all", rules |-> {}, color |-> None]
        put(row) == [d EXCEPT !.persp = With(@, v, row), !.used = @ \cup {v}]
    IN CASE a.name = None -> Refuse(d, "Validation")
         [] a.name # None /\ Named(d, a.name) # {} -> Refuse(d, "Validation")
         [] OTHER -> CASE fault = "no"        -> Answer(put(Filled(shell, a)), v)
                       [] fault = "configure" -> Refuse([d EXCEPT !.used = @ \cup {v}], "Script")
                       [] fault = "rollback"  -> Refuse(put(shell), "Script")

\* The fields are set in turn; what was set before one that is refused stays.
PerspectiveUpdate(d, v, patch, fault) ==
    LET kept == IF fault = "configure" THEN {"name", "aggregation"} ELSE DOMAIN patch
        e == [d EXCEPT !.persp[v] = Over(@, Restrict(patch, DOMAIN patch \cap kept))]
    IN Found(d, d.persp, v,
             CASE Has(patch, "name") /\ patch.name = None -> Refuse(d, "Validation")
               [] Has(patch, "name") /\ patch.name # None /\ Named(d, patch.name) \ {v} # {} ->
                     Refuse(d, "Validation")
               [] OTHER -> IF fault = "configure" THEN Refuse(e, "Script") ELSE Answer(e, v))

PerspectiveDelete(d, v) == Found(d, d.persp, v, Answer([d EXCEPT !.persp = Without(@, {v})], v))

\* The perspective is put in the front window, read there, and the window is
\* put back.
PerspectiveEvaluateCustom(d, v) ==
    Found(d, d.persp, v,
          IF d.window = None THEN Refuse(d, "Script") ELSE Answer(d, Shown(d, d.persp[v].rules)))

\* The same with a perspective made for the purpose and deleted afterwards.
PerspectiveEvaluateDryRun(d, rules, fault) ==
    LET v == NewId(d, PerspectiveIds)
        shell == [name |-> v, aggregation |-> "all", rules |-> rules, color |-> None]
        after == IF fault = "rollback"
                 THEN [d EXCEPT !.persp = With(@, v, shell), !.used = @ \cup {v}]
                 ELSE [d EXCEPT !.used = @ \cup {v}]
    IN IF d.window = None \/ fault = "configure" THEN Refuse(after, "Script")
       ELSE Answer(after, Shown(d, rules))

-----------------------------------------------------------------------------
\* Attachments.  The owner is a task when a task id is given, else a project.

Owner(d, o, answer) ==
    CASE o.task # None -> Found(d, d.tasks, o.task, answer)
      [] o.task = None /\ o.project # None -> Found(d, d.projects, o.project, answer)
      [] OTHER -> Refuse(d, "Validation")
OwnerId(o) == IF o.task # None THEN o.task ELSE o.project
Attached(d, o) == IF Has(d.attach, OwnerId(o)) THEN d.attach[OwnerId(o)] ELSE {}
SetAttached(d, o, S) == [d EXCEPT !.attach = With(@, OwnerId(o), S)]

AttachmentAdd(d, o) ==
    LET x == NewId(d, AttachmentIds) IN
    Owner(d, o, Answer([SetAttached(d, o, Attached(d, o) \cup {x}) EXCEPT !.used = @ \cup {x}], x))
AttachmentList(d, o) == Owner(d, o, Answer(d, Attached(d, o)))
AttachmentRemove(d, o, x) ==
    Owner(d, o, IF x \in Attached(d, o) THEN Answer(SetAttached(d, o, Attached(d, o) \ {x}), None)
                ELSE Refuse(d, "NotFound"))

\* An existing file at the path is replaced, a directory is refused.
AttachmentSaveToPath(d, o, x, path, directories) ==
    Owner(d, o, CASE x \notin Attached(d, o) -> Refuse(d, "NotFound")
                  [] x \in Attached(d, o) /\ path \in directories -> Refuse(d, "Validation")
                  [] OTHER -> Answer([d EXCEPT !.saved = With(@, path, x)], path))

-----------------------------------------------------------------------------
\* The front window: None, or [perspective, focus].

WithWindow(d, answer) == IF d.window = None THEN Refuse(d, "NoWindow") ELSE answer

WindowGetState(d) == WithWindow(d, Answer(d, d.window))

WindowSetFocus(d, c) ==
    LET focus(S) == Answer([d EXCEPT !.window.focus = S], S) IN
    WithWindow(d, CASE c = None -> focus({})
                    [] c # None /\ (Has(d.projects, c) \/ Has(d.folders, c)) -> focus({c})
                    [] OTHER -> Refuse(d, "NotFound"))

WindowSetPerspective(d, name) ==
    WithWindow(d, IF Named(d, name) = {} THEN Refuse(d, "NotFound")
                  ELSE Answer([d EXCEPT !.window.perspective = name], name))

-----------------------------------------------------------------------------
\* Undo and redo: past and future are the documents OmniFocus keeps (external).

DatabaseUndo(d, past) == IF past = <<>> THEN Answer(d, FALSE) ELSE Answer(Last(past), TRUE)
DatabaseRedo(d, future) == IF future = <<>> THEN Answer(d, FALSE) ELSE Answer(Head(future), TRUE)
=============================================================================
