------------------------------ MODULE InMemory ------------------------------
(***************************************************************************)
(* InMemoryAdapter (src/adapter/inMemory/InMemoryAdapter.ts), the adapter  *)
(* the repository's unit and service tests run against.  It keeps maps of  *)
(* plain rows: a task stores its project and its parent, a project and a   *)
(* folder count what is in them, and nothing is derived.  w is the whole   *)
(* of its state; one operator for each method, named after it.             *)
(***************************************************************************)
EXTENDS Document

CONSTANT Today

Only(fields, names) == Restrict(fields, DOMAIN fields \cap names)

-----------------------------------------------------------------------------
\* The counters.  A project or folder that is not there is not counted.

AtLeast0(n) == IF n < 0 THEN 0 ELSE n

bumpProjectTaskCount(w, p, delta) ==
    IF Has(w.projects, p)
    THEN [w EXCEPT !.projects[p].taskCount = AtLeast0(@ + delta)] ELSE w
bumpProjectCompletedCount(w, p, delta) ==
    IF Has(w.projects, p)
    THEN [w EXCEPT !.projects[p].completedTaskCount = AtLeast0(@ + delta)] ELSE w
adjustProjectCountsForTask(w, p, task, delta) ==
    LET one == bumpProjectTaskCount(w, p, delta)
    IN IF task.completed THEN bumpProjectCompletedCount(one, p, delta) ELSE one
bumpFolderProjectCount(w, f, delta) ==
    IF Has(w.folders, f) THEN [w EXCEPT !.folders[f].projectCount = AtLeast0(@ + delta)] ELSE w
bumpFolderSubfolderCount(w, f, delta) ==
    IF Has(w.folders, f) THEN [w EXCEPT !.folders[f].subfolderCount = AtLeast0(@ + delta)] ELSE w

-----------------------------------------------------------------------------
\* Tasks

matchesTask(x, f) ==
    /\ "project" \in DOMAIN f => x.project = f.project
    /\ "parent" \in DOMAIN f => x.parent = f.parent
    /\ "tag" \in DOMAIN f => f.tag \in x.tags
    /\ "flagged" \in DOMAIN f => x.flagged = f.flagged
    /\ "completed" \in DOMAIN f => x.completed = f.completed
    /\ "dueBefore" \in DOMAIN f => x.due # None /\ x.due < f.dueBefore
    /\ "dueAfter" \in DOMAIN f => x.due # None /\ x.due > f.dueAfter
    /\ "deferredBefore" \in DOMAIN f => x.defer # None /\ x.defer < f.deferredBefore
    /\ "deferredAfter" \in DOMAIN f => x.defer # None /\ x.defer > f.deferredAfter
    /\ "inbox" \in DOMAIN f /\ f.inbox => x.project = None

Row(w, t) == [id |-> t] @@ w.tasks[t]
listTasks(w, f) == Answer(w, {x \in {Row(w, t) : t \in DOMAIN w.tasks} : matchesTask(x, f)})
getTask(w, t) == Found(w, w.tasks, t, Answer(w, Row(w, t)))
getTasksMany(w, ids) ==
    Answer(w, [i \in DOMAIN ids |-> IF Has(w.tasks, ids[i]) THEN Row(w, ids[i]) ELSE None])

searchTasks(w, f) ==
    LET mode == IF "mode" \in DOMAIN f THEN f.mode ELSE "exclude"
        hit(x) == /\ matchesTask(x, Only(f, {"project", "dueBefore", "dueAfter", "flagged"}))
                  /\ "allTags" \in DOMAIN f => f.allTags \subseteq x.tags
                  /\ mode = "only" => x.completed
                  /\ mode = "exclude" => ~x.completed
    IN Answer(w, {x \in {Row(w, t) : t \in DOMAIN w.tasks} : hit(x)})

\* A destination that is not there, in the order the methods look.
Unknown(w, p, parent) ==
    \/ p # None /\ ~Has(w.projects, p)
    \/ parent # None /\ ~Has(w.tasks, parent)
ProjectAt(w, p, parent) == IF parent # None THEN w.tasks[parent].project ELSE p

NewRow(p, parent) ==
    [project |-> p, parent |-> parent, tags |-> {}, flagged |-> FALSE, completed |-> FALSE,
     dropped |-> FALSE, note |-> None, due |-> None, defer |-> None, repeat |-> None]

TagsKnown(w, fields) == Has(fields, "tags") => fields.tags \subseteq DOMAIN w.tags

Store(w, t, row) ==
    bumpProjectTaskCount([w EXCEPT !.tasks = (t :> row) @@ @, !.order = Append(@, t),
                                   !.used = @ \cup {t}], row.project, 1)

createTask(w, a) ==
    LET t == NewId(w, TaskIds)
        row == NewRow(ProjectAt(w, a.project, a.parent), a.parent)
    IN CASE a.blank \/ (a.project # None /\ a.parent # None) -> Refuse(w, "Validation")
         [] OTHER ->
              IF Unknown(w, a.project, a.parent) \/ ~TagsKnown(w, a.fields)
              THEN Refuse(w, "NotFound")
              ELSE Answer(Store(w, t, Only(a.fields, DOMAIN row) @@ row), t)

updateTask(w, t, patch) ==
    Found(w, w.tasks, t,
          IF ~TagsKnown(w, patch) THEN Refuse(w, "NotFound")
          ELSE Answer([w EXCEPT !.tasks[t] = Only(patch, DOMAIN @) @@ @], t))

\* Completing again counts nothing; uncompleting what is open does nothing.
applyTaskCompletion(w, t, completed) ==
    LET x == w.tasks[t]
        set == [w EXCEPT !.tasks[t].completed = completed]
    IN Found(w, w.tasks, t,
             CASE completed = x.completed -> Answer(set, t)
               [] completed /\ ~x.completed -> Answer(bumpProjectCompletedCount(set, x.project, 1), t)
               [] ~completed /\ x.completed -> Answer(bumpProjectCompletedCount(set, x.project, -1), t))

applyTaskDropState(w, t, dropped) ==
    Found(w, w.tasks, t, Answer([w EXCEPT !.tasks[t].dropped = dropped], t))

completeTask(w, t)   == applyTaskCompletion(w, t, TRUE)
uncompleteTask(w, t) == applyTaskCompletion(w, t, FALSE)
dropTask(w, t)       == applyTaskDropState(w, t, TRUE)
undropTask(w, t)     == applyTaskDropState(w, t, FALSE)

\* Only the row itself: what was in the task stays, with its parent.
Delete(w, t) == [w EXCEPT !.tasks = Without(@, {t}), !.order = Remove(@, t)]
deleteTask(w, t) ==
    Found(w, w.tasks, t,
          Answer(adjustProjectCountsForTask(Delete(w, t), w.tasks[t].project, w.tasks[t], -1), t))

moveTask(w, t, to) ==
    LET x == w.tasks[t]
        p == ProjectAt(w, to.project, to.parent)
        out == adjustProjectCountsForTask(w, x.project, x, -1)
        set == [out EXCEPT !.tasks[t].project = p, !.tasks[t].parent = to.parent]
    IN Found(w, w.tasks, t,
             CASE to.project # None /\ to.parent # None -> Refuse(w, "Validation")
               [] OTHER -> IF Unknown(w, to.project, to.parent) THEN Refuse(w, "NotFound")
                           ELSE Answer(adjustProjectCountsForTask(set, p, x, 1), t))

\* processBatch: every item by the method for one.
batchCreateTasks(w, inputs)    == EachItem(w, inputs, createTask)
batchUpdateTasks(w, updates)   ==
    LET One(v, u) == updateTask(v, u.id, u.patch) IN EachItem(w, updates, One)
batchCompleteTasks(w, items)   == EachItem(w, items, completeTask)
batchUncompleteTasks(w, items) == EachItem(w, items, uncompleteTask)
batchDeleteTasks(w, items)     == EachItem(w, items, deleteTask)
batchDropTasks(w, items)       == EachItem(w, items, dropTask)
batchUndropTasks(w, items)     == EachItem(w, items, undropTask)
batchMoveTasks(w, items)       ==
    LET One(v, i) == moveTask(v, i.id, i.to) IN EachItem(w, items, One)

-----------------------------------------------------------------------------
\* Reordering: the place of a row in the map is its place in every container.

Position(s, t) == CHOOSE i \in DOMAIN s : s[i] = t

resolveReorderDestination(w, t, pos) ==
    LET x == w.tasks[t]
        same(r) == w.tasks[r].project = x.project /\ w.tasks[r].parent = x.parent
    IN IF pos.mode \in {"before", "after"}
       THEN CASE ~Has(w.tasks, pos.ref) -> Refuse(w, "NotFound")
              [] Has(w.tasks, pos.ref) /\ (pos.ref = t \/ ~same(pos.ref)) -> Refuse(w, "Validation")
              [] OTHER -> Answer(w, [project |-> x.project, parent |-> x.parent])
       ELSE CASE Unknown(w, pos.project, pos.parent) -> Refuse(w, "NotFound")
              [] pos.project = None /\ pos.parent = t -> Refuse(w, "Validation")
              [] OTHER -> Answer(w, [parent |-> IF pos.project # None THEN None ELSE pos.parent,
                                     project |-> IF pos.project # None THEN pos.project
                                                 ELSE ProjectAt(w, None, pos.parent)])

reorderTask(w, t, pos) ==
    LET to == resolveReorderDestination(w, t, pos)
        x == w.tasks[t]
        rest == Remove(w.order, t)
        in == {i \in DOMAIN rest : w.tasks[rest[i]].project = to.val.project
                                   /\ w.tasks[rest[i]].parent = to.val.parent}
        at == CASE pos.mode = "before" -> Position(rest, pos.ref)
                [] pos.mode = "after"  -> Position(rest, pos.ref) + 1
                [] pos.mode = "start"  -> IF in = {} THEN Len(rest) + 1 ELSE Min(in)
                [] pos.mode = "end"    -> IF in = {} THEN Len(rest) + 1 ELSE Max(in) + 1
        moved == x.project # to.val.project \/ x.parent # to.val.parent
        out == IF moved THEN adjustProjectCountsForTask(
                                adjustProjectCountsForTask(w, x.project, x, -1), to.val.project, x, 1)
               ELSE w
    IN Found(w, w.tasks, t,
             IF to.code # "OK" THEN to
             ELSE Answer([out EXCEPT !.tasks[t].project = to.val.project,
                                     !.tasks[t].parent = to.val.parent,
                                     !.order = InsertAt(rest, at, t)], t))

-----------------------------------------------------------------------------
\* Copying and converting

cloneOne(w, src, p, parent) ==
    Store(w, NewId(w, TaskIds),
          [src EXCEPT !.project = p, !.parent = parent, !.completed = FALSE, !.dropped = FALSE])

duplicateTask(w, t, to, recursive) ==
    LET x == w.tasks[t]
        stay == to.project = None /\ to.parent = None /\ ~to.inbox
        p == IF stay THEN x.project ELSE ProjectAt(w, to.project, to.parent)
        parent == IF stay THEN x.parent ELSE to.parent
        root == NewId(w, TaskIds)
        Clone(acc, y) ==
            IF w.tasks[y].parent \in DOMAIN acc.of
            THEN [w |-> cloneOne(acc.w, w.tasks[y], p, acc.of[w.tasks[y].parent]),
                  of |-> (y :> NewId(acc.w, TaskIds)) @@ acc.of]
            ELSE acc
        walk == IF recursive THEN [i \in 1..Len(w.order) |-> w.order[i]] ELSE <<>>
        first == [w |-> cloneOne(w, x, p, parent), of |-> t :> root]
        all == FoldLeft(Clone, first, walk)
    IN Found(w, w.tasks, t,
             IF Unknown(w, to.project, to.parent) THEN Refuse(w, "NotFound")
             ELSE Answer(all.w, [new |-> root, more |-> Cardinality(DOMAIN all.of) - 1]))

NewProjectRow(folder) ==
    [folder |-> folder, name |-> None, status |-> "active", flagged |-> FALSE, note |-> None,
     tags |-> {}, criterion |-> "parallel", interval |-> None, next |-> None, last |-> None,
     completed |-> FALSE, dropped |-> FALSE, taskCount |-> 0, completedTaskCount |-> 0]

\* Neither the old project's count nor the folder's is touched.
convertTaskToProject(w, t, folder) ==
    LET x == w.tasks[t]
        row == [NewProjectRow(folder) EXCEPT !.flagged = x.flagged, !.note = x.note, !.tags = x.tags]
    IN Found(w, w.tasks, t,
             Answer([Delete(w, t) EXCEPT !.projects = (t :> row) @@ @], t))

-----------------------------------------------------------------------------
\* Projects

PRow(w, p) == [id |-> p] @@ w.projects[p]
listProjects(w, f) ==
    Answer(w, {x \in {PRow(w, p) : p \in DOMAIN w.projects} :
                  /\ "folder" \in DOMAIN f => x.folder = f.folder
                  /\ "status" \in DOMAIN f => x.status = f.status})
getProject(w, p) == Found(w, w.projects, p, Answer(w, PRow(w, p)))
getProjectsMany(w, ids) ==
    Answer(w, [i \in DOMAIN ids |-> IF Has(w.projects, ids[i]) THEN PRow(w, ids[i]) ELSE None])

createProject(w, a) ==
    LET p == NewId(w, ProjectIds)
        row == Only(a.fields, DOMAIN NewProjectRow(None)) @@ NewProjectRow(a.folder)
        made == [w EXCEPT !.projects = (p :> row) @@ @, !.used = @ \cup {p}]
    IN CASE a.blank -> Refuse(w, "Validation")
         [] ~a.blank /\ a.folder # None /\ ~Has(w.folders, a.folder) -> Refuse(w, "NotFound")
         [] OTHER -> Answer(bumpFolderProjectCount(made, a.folder, 1), p)

updateProject(w, p, patch) ==
    Found(w, w.projects, p,
          Answer([w EXCEPT !.projects[p] = Only(patch, DOMAIN @ \ {"noteHtml"}) @@ @], p))

completeProject(w, p) ==
    Found(w, w.projects, p,
          Answer([w EXCEPT !.projects[p].status = "done", !.projects[p].completed = TRUE], p))
dropProject(w, p) ==
    Found(w, w.projects, p,
          Answer([w EXCEPT !.projects[p].status = "dropped", !.projects[p].dropped = TRUE], p))
batchCompleteProjects(w, ids) == EachItem(w, ids, completeProject)
batchDropProjects(w, ids)     == EachItem(w, ids, dropProject)

moveProject(w, p, folder) ==
    LET out == bumpFolderProjectCount(w, w.projects[p].folder, -1) IN
    Found(w, w.projects, p,
          IF folder # None /\ ~Has(w.folders, folder) THEN Refuse(w, "NotFound")
          ELSE Answer(bumpFolderProjectCount([out EXCEPT !.projects[p].folder = folder], folder, 1), p))

\* The tasks of the project lose it and stay.
deleteProject(w, p) ==
    LET freed == [t \in DOMAIN w.tasks |->
                    IF w.tasks[t].project = p THEN [w.tasks[t] EXCEPT !.project = None] ELSE w.tasks[t]]
    IN Found(w, w.projects, p,
             Answer(bumpFolderProjectCount([w EXCEPT !.tasks = freed, !.projects = Without(@, {p})],
                                           w.projects[p].folder, -1), p))

markProjectReviewed(w, p) ==
    LET days == w.projects[p].interval IN
    Found(w, w.projects, p,
          Answer([w EXCEPT !.projects[p].last = Today,
                           !.projects[p].next = IF days = None THEN None ELSE Today + days], p))

listProjectsDueForReview(w) ==
    Answer(w, {p \in DOMAIN w.projects :
                  /\ w.projects[p].status \in {"active", "on-hold"}
                  /\ w.projects[p].next = None \/ w.projects[p].next <= Today})

setProjectReviewInterval(w, p, days) ==
    Found(w, w.projects, p, Answer([w EXCEPT !.projects[p].interval = days], p))

\* Null puts the date back to the one after the last review.
setProjectNextReviewDate(w, p, date) ==
    LET x == w.projects[p]
        next == IF date = None /\ x.interval # None /\ x.last # None THEN x.last + x.interval ELSE date
    IN Found(w, w.projects, p, Answer([w EXCEPT !.projects[p].next = next], p))

-----------------------------------------------------------------------------
\* Tags

TRow(w, g) == [id |-> g] @@ w.tags[g]
listTags(w, f) ==
    Answer(w, {x \in {TRow(w, g) : g \in DOMAIN w.tags} :
                  /\ "parent" \in DOMAIN f => x.parent = f.parent
                  /\ "status" \in DOMAIN f => x.status = f.status})
getTag(w, g) == Found(w, w.tags, g, Answer(w, TRow(w, g)))
getTagsMany(w, ids) ==
    Answer(w, [i \in DOMAIN ids |-> IF Has(w.tags, ids[i]) THEN TRow(w, ids[i]) ELSE None])

createTag(w, a) ==
    LET g == NewId(w, TagIds)
        row == Only(a, {"name", "status", "nextAction"}) @@ NewTag(a.parent) @@ [taskCount |-> 0]
    IN CASE a.blank -> Refuse(w, "Validation")
         [] ~a.blank /\ a.parent # None /\ ~Has(w.tags, a.parent) -> Refuse(w, "NotFound")
         [] OTHER -> Answer([w EXCEPT !.tags = (g :> row) @@ @, !.used = @ \cup {g}], g)

updateTag(w, g, patch) ==
    Found(w, w.tags, g,
          IF Has(patch, "parent") /\ patch.parent # None /\ ~Has(w.tags, patch.parent)
          THEN Refuse(w, "NotFound")
          ELSE Answer([w EXCEPT !.tags[g] = Only(patch, {"parent", "status", "nextAction"}) @@ @], g))

deleteTag(w, g) ==
    Found(w, w.tags, g,
          Answer([w EXCEPT !.tags = Without(@, {g}),
                           !.tasks = [t \in DOMAIN @ |-> [@[t] EXCEPT !.tags = @ \ {g}]]], g))

-----------------------------------------------------------------------------
\* Folders

FRow(w, f) == [id |-> f] @@ w.folders[f]
listFolders(w, f) ==
    Answer(w, {x \in {FRow(w, y) : y \in DOMAIN w.folders} :
                  "parent" \in DOMAIN f => x.parent = f.parent})
getFolder(w, f) == Found(w, w.folders, f, Answer(w, FRow(w, f)))

createFolder(w, a) ==
    LET f == NewId(w, FolderIds)
        row == Only(a, {"name"}) @@ NewFolder(a.parent) @@ [projectCount |-> 0, subfolderCount |-> 0]
        made == [w EXCEPT !.folders = (f :> row) @@ @, !.used = @ \cup {f}]
    IN CASE a.blank -> Refuse(w, "Validation")
         [] ~a.blank /\ a.parent # None /\ ~Has(w.folders, a.parent) -> Refuse(w, "NotFound")
         [] OTHER -> Answer(bumpFolderSubfolderCount(made, a.parent, 1), f)

updateFolder(w, f, patch) ==
    LET old == w.folders[f].parent
        counted == bumpFolderSubfolderCount(bumpFolderSubfolderCount(w, old, -1), patch.parent, 1)
    IN Found(w, w.folders, f,
             CASE ~Has(patch, "parent") -> Answer(w, f)
               [] Has(patch, "parent") /\ patch.parent # None /\ ~Has(w.folders, patch.parent) ->
                     Refuse(w, "NotFound")
               [] OTHER -> IF patch.parent = old THEN Answer(w, f)
                           ELSE Answer([counted EXCEPT !.folders[f].parent = patch.parent], f))

deleteFolder(w, f) ==
    LET x == w.folders[f] IN
    Found(w, w.folders, f,
          IF x.projectCount > 0 \/ x.subfolderCount > 0 THEN Refuse(w, "Validation")
          ELSE Answer(bumpFolderSubfolderCount([w EXCEPT !.folders = Without(@, {f})], x.parent, -1), f))

-----------------------------------------------------------------------------
\* Forecast and perspectives

Open(w) == {t \in DOMAIN w.tasks : ~w.tasks[t].completed /\ ~w.tasks[t].dropped}
Due(w, lo, hi) == {t \in Open(w) : w.tasks[t].due # None /\ w.tasks[t].due \in lo..hi}

getForecast(w, a) ==
    LET when(on, S) == IF on THEN S ELSE {} IN
    Answer(w, [overdue  |-> when(a.overdue, Due(w, 0, a.from - 1)),
               today    |-> Due(w, a.from, a.to),
               deferred |-> when(a.deferred, {t \in Open(w) : w.tasks[t].defer # None
                                                              /\ w.tasks[t].defer \in a.from..a.to}),
               flagged  |-> when(a.flagged, {t \in Open(w) : w.tasks[t].flagged})])

\* Unlike the script, the inbox is every open task without a project.
evaluatePerspective(w, id) ==
    Answer(w, CASE id = "inbox"    -> {t \in Open(w) : w.tasks[t].project = None}
                [] id = "flagged"  -> {t \in Open(w) : w.tasks[t].flagged}
                [] id = "forecast" -> Due(w, 0, Today)
                [] id = "projects" -> {t \in Open(w) : w.tasks[t].project # None}
                [] id = "tags"     -> {t \in Open(w) : w.tasks[t].tags # {}}
                [] OTHER           -> {})

getForecastTagWithName(w) == Answer(w, w.fcTag)
setForecastTagWithName(w, g) ==
    IF g = None THEN Answer([w EXCEPT !.fcTag = None], None)
    ELSE Found(w, w.tags, g, Answer([w EXCEPT !.fcTag = g], g))

\* Custom perspectives are in two maps: what they show and what they are.
listPerspectives(w) == Answer(w, {})
evaluateCustomPerspective(w, v) == Found(w, w.shows, v, Answer(w, w.shows[v] \cap DOMAIN w.tasks))
getCustomPerspective(w, v) == Found(w, w.persp, v, Answer(w, [w.persp[v] EXCEPT !.name = v]))

Named(w, name) == {v \in DOMAIN w.persp : w.persp[v].name = name}

createCustomPerspective(w, a) ==
    LET v == NewId(w, PerspectiveIds)
        row == a @@ [name |-> None, aggregation |-> "all", rules |-> {}, color |-> None]
    IN IF a.name = None \/ Named(w, a.name) # {} THEN Refuse(w, "Validation")
       ELSE Answer([w EXCEPT !.persp = (v :> row) @@ @, !.shows = (v :> {}) @@ @,
                             !.used = @ \cup {v}], v)

updateCustomPerspective(w, v, patch) ==
    Found(w, w.persp, v,
          IF Has(patch, "name") /\ (patch.name = None \/ Named(w, patch.name) \ {v} # {})
          THEN Refuse(w, "Validation")
          ELSE Answer([w EXCEPT !.persp[v] = patch @@ @], v))

\* The second map is only looked at when the first has nothing to delete.
deleteCustomPerspective(w, v) ==
    CASE Has(w.shows, v) -> Answer([w EXCEPT !.shows = Without(@, {v})], v)
      [] ~Has(w.shows, v) /\ Has(w.persp, v) -> Answer([w EXCEPT !.persp = Without(@, {v})], v)
      [] OTHER -> Refuse(w, "NotFound")

-----------------------------------------------------------------------------
\* Alarms, attachments, window, undo

setTaskAlarms(w, t, alarms) == Found(w, w.tasks, t, Answer([w EXCEPT !.alarms = (t :> alarms) @@ @], t))
clearTaskAlarms(w, t) == setTaskAlarms(w, t, <<>>)

OwnerMissing(w, o) ==
    (o.task # None /\ ~Has(w.tasks, o.task)) \/ (o.project # None /\ ~Has(w.projects, o.project))
ownerKey(o) == IF o.task # None THEN o.task ELSE o.project
Attached(w, o) == IF Has(w.attach, ownerKey(o)) THEN w.attach[ownerKey(o)] ELSE {}

addAttachment(w, o, ids) ==
    LET x == NewId(w, ids) IN
    IF OwnerMissing(w, o) THEN Refuse(w, "NotFound")
    ELSE Answer([w EXCEPT !.attach = (ownerKey(o) :> (Attached(w, o) \cup {x})) @@ @,
                          !.used = @ \cup {x}], x)
listAttachments(w, o) == IF OwnerMissing(w, o) THEN Refuse(w, "NotFound") ELSE Answer(w, Attached(w, o))
removeAttachment(w, o, x) ==
    IF OwnerMissing(w, o) \/ x \notin Attached(w, o) THEN Refuse(w, "NotFound")
    ELSE Answer([w EXCEPT !.attach = (ownerKey(o) :> (Attached(w, o) \ {x})) @@ @], None)

getWindowState(w) == Answer(w, w.window)
setWindowFocus(w, c) ==
    LET focus(S) == Answer([w EXCEPT !.window.focus = S], S) IN
    CASE c = None -> focus({})
      [] c # None /\ (Has(w.projects, c) \/ Has(w.folders, c)) -> focus({c})
      [] OTHER -> Refuse(w, "NotFound")
setWindowPerspective(w, name) == Answer([w EXCEPT !.window.perspective = name], name)

\* Counters only: nothing is undone.
undoLastMutation(w) ==
    IF w.undo = 0 THEN Answer(w, FALSE) ELSE Answer([w EXCEPT !.undo = @ - 1, !.redo = @ + 1], TRUE)
redoLastMutation(w) ==
    IF w.redo = 0 THEN Answer(w, FALSE) ELSE Answer([w EXCEPT !.redo = @ - 1, !.undo = @ + 1], TRUE)
=============================================================================
