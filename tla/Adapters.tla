------------------------------ MODULE Adapters ------------------------------
(***************************************************************************)
(* The calls the server makes of its OmniFocus adapter, one action for     *)
(* each method of OmniFocusAdapter (src/adapter/OmniFocusAdapter.ts), with *)
(* what the routed transport and its script do to the document.            *)
(*                                                                         *)
(* A call is one step here: the write queue and the read pool, which are   *)
(* in AdapterGates, let no other write come between its scripts.           *)
(***************************************************************************)
EXTENDS Transports

CONSTANTS Starts,       \* documents to start from
          TaskArgs, ProjectArgs, TagArgs, FolderArgs, \* ids callers name, one of each unknown
          TaskLists,    \* argument lists of the batch methods
          ProjectLists, MaxCalls

\* A document is one: every container and tag that a row names exists, no task
\* is in itself, the order has every task once, and what exists has an id that
\* was given.
DocFields == {"tasks", "order", "projects", "tags", "folders", "used", "fcTag", "persp", "window",
              "attach", "saved"}
IsDocument(d) ==
    /\ d = [k \in DocFields |-> d[k]]
    /\ \A k \in {"tasks", "projects", "tags", "folders"} :
          d[k] = [id \in DOMAIN d[k] |-> d[k][id]] /\ DOMAIN d[k] \subseteq d.used
SoundRows(d) ==
    /\ \A t \in DOMAIN d.tasks :
          /\ {"at", "tags"} \subseteq DOMAIN d.tasks[t]
          /\ d.tasks[t].at \in {Inbox} \cup DOMAIN d.projects \cup DOMAIN d.tasks
          /\ d.tasks[t].tags \subseteq DOMAIN d.tags
    /\ \A p \in DOMAIN d.projects :
          /\ {"folder", "tags"} \subseteq DOMAIN d.projects[p]
          /\ d.projects[p].folder \in {None} \cup DOMAIN d.folders
          /\ d.projects[p].tags \subseteq DOMAIN d.tags
    /\ \A g \in DOMAIN d.tags : /\ "parent" \in DOMAIN d.tags[g]
                                /\ d.tags[g].parent \in {None} \cup DOMAIN d.tags
    /\ \A f \in DOMAIN d.folders : /\ "parent" \in DOMAIN d.folders[f]
                                   /\ d.folders[f].parent \in {None} \cup DOMAIN d.folders
Rooted(d) == \A t \in DOMAIN d.tasks : \E x \in Chain(d, t) : ~Has(d.tasks, d.tasks[x].at)
Ordered(d) ==
    /\ d.order \in Seq(DOMAIN d.tasks)
    /\ Len(d.order) = Cardinality(DOMAIN d.tasks) /\ ToSet(d.order) = DOMAIN d.tasks
Sound(d) == IsDocument(d) /\ SoundRows(d) /\ Rooted(d) /\ Ordered(d)

ASSUME StartsAssumption == \A d \in Starts : Sound(d)
ASSUME ListsAssumption == TaskLists \subseteq Seq(TaskIds) /\ ProjectLists \subseteq Seq(ProjectIds)

VARIABLES db, answer, made
adapterVars == <<db, answer, made>>

AdapterInit ==
    /\ db \in Starts
    /\ answer = [method |-> "none", args |-> <<>>, code |-> "OK", val |-> None]
    /\ made = 0

\* pick(method), and what the transport comes to.  A call that changed nothing is
\* the last: what could follow it could have come instead of it.
Invoke(method, args, r) ==
    LET routed == Route(db, method, r) IN
    /\ made < MaxCalls
    /\ db' = routed.doc
    /\ answer' = [method |-> method, args |-> args, code |-> routed.code, val |-> routed.val]
    /\ made' = IF routed.doc = db THEN MaxCalls ELSE made + 1

-----------------------------------------------------------------------------
\* The arguments.

OrNone(S) == S \cup {None}
To(p, t) == [project |-> p, parent |-> t]
Places ==
    {To(p, None) : p \in OrNone(ProjectArgs)} \cup {To(None, t) : t \in TaskArgs}
    \cup {To(p, t) : p \in ProjectArgs, t \in TaskArgs}
SomePlaces == {To(p, None) : p \in OrNone(ProjectArgs)} \cup {To(None, t) : t \in TaskArgs}

TaskInput(to, fields, blank) ==
    [blank |-> blank, project |-> to.project, parent |-> to.parent, fields |-> fields]
NewFields == {[flagged |-> TRUE, due |-> Today]} \cup {[tags |-> {g}] : g \in TagArgs}
TaskInputs ==
    {TaskInput(to, Nothing, FALSE) : to \in Places}
    \cup {TaskInput(To(None, None), f, FALSE) : f \in NewFields}
    \cup {TaskInput(To(None, None), Nothing, TRUE)}

Patches ==
    {[due |-> None], [note |-> <<"long">>, flagged |-> TRUE],
     [note |-> <<"short">>, noteHtml |-> "html"]} \cup {[tags |-> {g}] : g \in TagArgs}

Positions ==
    {[mode |-> m, ref |-> r] : m \in {"before", "after"}, r \in OrNone(TaskArgs)}
    \cup {[mode |-> m, project |-> to.project, parent |-> to.parent] :
              m \in {"start", "end"}, to \in SomePlaces}

TaskFilters ==
    {Nothing, [inbox |-> TRUE], [flagged |-> TRUE], [completed |-> FALSE], [dueBefore |-> Today]}
    \cup {[project |-> p] : p \in ProjectArgs} \cup {[parent |-> t] : t \in TaskArgs}
    \cup {[tag |-> g, completed |-> TRUE] : g \in TagArgs}
Searches ==
    {Nothing, [mode |-> "only"], [mode |-> "all", flagged |-> FALSE], [dueAfter |-> 0]}
    \cup {[project |-> p, mode |-> "all"] : p \in ProjectArgs} \cup {[allTags |-> {g}] : g \in TagArgs}

AlarmLists == {<<"absolute", "due">>, <<"defer">>}
Owners == {[task |-> t, project |-> None] : t \in OrNone(TaskArgs)}
          \cup {[task |-> None, project |-> p] : p \in ProjectArgs}
Statuses == {"active", "on-hold", "done", "dropped"}
Windows == {[from |-> Today, to |-> Today + 1, overdue |-> b, deferred |-> TRUE, flagged |-> b] :
                b \in BOOLEAN}

-----------------------------------------------------------------------------
\* Tasks

\* Ids are left for two tasks.
TwoCanBeCreated == ~ \A x, y \in TaskIds \ db.used : x = y

ListTasks == \E f \in TaskFilters : Invoke("listTasks", <<f>>, listTasks(db, f))
GetTask == \E t \in TaskArgs : Invoke("getTask", <<t>>, getTask(db, t))
GetTasksMany == \E s \in TaskLists : Invoke("getTasksMany", <<s>>, getTasksMany(db, s))
SearchTasks == \E f \in Searches : Invoke("searchTasks", <<f>>, searchTasks(db, f))

CreateTask ==
    /\ CanCreate(db, TaskIds)
    /\ \E a \in TaskInputs, cut \in BOOLEAN :
          /\ cut => a.fields # Nothing
          /\ Invoke("createTask", <<a, cut>>, createTask(db, a, cut))
BatchCreateTasks ==
    /\ TwoCanBeCreated
    /\ \E a \in {TaskInput(to, Nothing, FALSE) : to \in Places}, blank \in BOOLEAN :
          LET two == <<a, TaskInput(To(None, None), Nothing, blank)>>
          IN Invoke("batchCreateTasks", <<two>>, batchCreateTasks(db, two))
UpdateTask ==
    \E t \in TaskArgs, patch \in Patches, cut \in BOOLEAN :
        /\ cut => patch # Nothing /\ ~Has(patch, "noteHtml")
        /\ Invoke("updateTask", <<t, patch, cut>>, updateTask(db, t, patch, cut))
BatchUpdateTasks ==
    \E s \in TaskLists, p \in Patches :
        LET updates == [i \in DOMAIN s |-> [id |-> s[i], patch |-> IF i = 1 THEN p ELSE [flagged |-> FALSE]]]
        IN Invoke("batchUpdateTasks", <<updates>>, batchUpdateTasks(db, updates))

CompleteTask   == \E t \in TaskArgs : Invoke("completeTask", <<t>>, completeTask(db, t))
UncompleteTask == \E t \in TaskArgs : Invoke("uncompleteTask", <<t>>, uncompleteTask(db, t))
DropTask       == \E t \in TaskArgs : Invoke("dropTask", <<t>>, dropTask(db, t))
UndropTask     == \E t \in TaskArgs : Invoke("undropTask", <<t>>, undropTask(db, t))
DeleteTask     == \E t \in TaskArgs : Invoke("deleteTask", <<t>>, deleteTask(db, t))
BatchCompleteTasks ==
    \E s \in TaskLists : Invoke("batchCompleteTasks", <<s>>, batchCompleteTasks(db, s))
BatchUncompleteTasks ==
    \E s \in TaskLists : Invoke("batchUncompleteTasks", <<s>>, batchUncompleteTasks(db, s))
BatchDropTasks == \E s \in TaskLists : Invoke("batchDropTasks", <<s>>, batchDropTasks(db, s))
BatchUndropTasks == \E s \in TaskLists : Invoke("batchUndropTasks", <<s>>, batchUndropTasks(db, s))
BatchDeleteTasks == \E s \in TaskLists : Invoke("batchDeleteTasks", <<s>>, batchDeleteTasks(db, s))

MoveTo ==
    \E t \in TaskArgs, to \in SomePlaces : Invoke("moveTask", <<t, to>>, moveTask(db, t, to))
BatchMoveTasks ==
    \E s \in TaskLists, to \in SomePlaces :
        LET items == [i \in DOMAIN s |-> [id |-> s[i], to |-> to]]
        IN Invoke("batchMoveTasks", <<items>>, batchMoveTasks(db, items))
ReorderTask ==
    \E t \in TaskArgs, pos \in Positions : Invoke("reorderTask", <<t, pos>>, reorderTask(db, t, pos))
DuplicateTask ==
    /\ made < MaxCalls /\ TwoCanBeCreated
    /\ \E t \in TaskArgs, to \in SomePlaces, inbox, all, cut \in BOOLEAN :
          LET where == to @@ [inbox |-> inbox] IN
          /\ Has(db.tasks, t) => CopyIds(db, t, Subtree(db, t)) # {}
          /\ inbox => to = To(None, None)
          /\ cut => ~all
          /\ Invoke("duplicateTask", <<t, where, all, cut>>, duplicateTask(db, t, where, all, cut))
ConvertTaskToProject ==
    \E t \in TaskArgs, f \in OrNone(FolderArgs) :
        Invoke("convertTaskToProject", <<t, f>>, convertTaskToProject(db, t, f))
SetTaskAlarms ==
    \E t \in TaskArgs, s \in AlarmLists : Invoke("setTaskAlarms", <<t, s>>, setTaskAlarms(db, t, s))
ClearTaskAlarms == \E t \in TaskArgs : Invoke("clearTaskAlarms", <<t>>, clearTaskAlarms(db, t))

Tasks ==
    \/ ListTasks \/ GetTask \/ GetTasksMany \/ SearchTasks \/ CreateTask \/ BatchCreateTasks
    \/ UpdateTask \/ BatchUpdateTasks \/ CompleteTask \/ UncompleteTask \/ DropTask \/ UndropTask
    \/ DeleteTask \/ BatchCompleteTasks \/ BatchUncompleteTasks \/ BatchDropTasks
    \/ BatchUndropTasks \/ BatchDeleteTasks \/ MoveTo \/ BatchMoveTasks \/ ReorderTask
    \/ DuplicateTask \/ ConvertTaskToProject \/ SetTaskAlarms \/ ClearTaskAlarms

-----------------------------------------------------------------------------
\* Projects

ListProjects ==
    \E f \in {[folder |-> x] : x \in FolderArgs} \cup {[status |-> s] : s \in Statuses} :
        Invoke("listProjects", <<f>>, listProjects(db, f))
GetProject == \E p \in ProjectArgs : Invoke("getProject", <<p>>, getProject(db, p))
GetProjectsMany == \E s \in ProjectLists : Invoke("getProjectsMany", <<s>>, getProjectsMany(db, s))
CreateProject ==
    /\ CanCreate(db, ProjectIds)
    /\ \E f \in OrNone(FolderArgs), blank, stuck \in BOOLEAN,
          fields \in {[flagged |-> TRUE, interval |-> 7], [flagged |-> TRUE, interval |-> 0],
                     [tags |-> TagArgs]} :
          LET a == [blank |-> blank, folder |-> f, fields |-> fields] IN
          /\ stuck => ~blank /\ fields = [flagged |-> TRUE, interval |-> 0]
          /\ Invoke("createProject", <<a, stuck>>, createProject(db, a, stuck))
UpdateProject ==
    \E p \in ProjectArgs, patch \in {[flagged |-> TRUE, note |-> <<"short">>], [status |-> "on-hold"],
                                     [tags |-> TagArgs], [note |-> <<"short">>, noteHtml |-> "html"]},
       cut \in BOOLEAN :
        /\ cut => ~Has(patch, "noteHtml")
        /\ Invoke("updateProject", <<p, patch, cut>>, updateProject(db, p, patch, cut))
CompleteProject == \E p \in ProjectArgs : Invoke("completeProject", <<p>>, completeProject(db, p))
DropProject == \E p \in ProjectArgs : Invoke("dropProject", <<p>>, dropProject(db, p))
BatchCompleteProjects ==
    \E s \in ProjectLists : Invoke("batchCompleteProjects", <<s>>, batchCompleteProjects(db, s))
BatchDropProjects ==
    \E s \in ProjectLists : Invoke("batchDropProjects", <<s>>, batchDropProjects(db, s))
MoveProject ==
    \E p \in ProjectArgs, f \in OrNone(FolderArgs) : Invoke("moveProject", <<p, f>>, moveProject(db, p, f))
DeleteProject == \E p \in ProjectArgs : Invoke("deleteProject", <<p>>, deleteProject(db, p))
MarkProjectReviewed ==
    \E p \in ProjectArgs : Invoke("markProjectReviewed", <<p>>, markProjectReviewed(db, p))
ListProjectsDueForReview == Invoke("listProjectsDueForReview", <<>>, listProjectsDueForReview(db))
SetProjectReviewInterval ==
    \E p \in ProjectArgs : Invoke("setProjectReviewInterval", <<p, 7>>, setProjectReviewInterval(db, p, 7))
SetProjectNextReviewDate ==
    \E p \in ProjectArgs, x \in {None, Today + 1} :
        Invoke("setProjectNextReviewDate", <<p, x>>, setProjectNextReviewDate(db, p, x))

Projects ==
    \/ ListProjects \/ GetProject \/ GetProjectsMany \/ CreateProject \/ UpdateProject
    \/ CompleteProject \/ DropProject \/ BatchCompleteProjects \/ BatchDropProjects \/ MoveProject
    \/ DeleteProject \/ MarkProjectReviewed \/ ListProjectsDueForReview
    \/ SetProjectReviewInterval \/ SetProjectNextReviewDate

-----------------------------------------------------------------------------
\* Tags and folders

ListTags ==
    \E f \in {[parent |-> g] : g \in TagArgs} \cup {[status |-> "active"]} :
        Invoke("listTags", <<f>>, listTags(db, f))
GetTag == \E g \in TagArgs : Invoke("getTag", <<g>>, getTag(db, g))
GetTagsMany == Invoke("getTagsMany", <<SetToSeq(TagArgs)>>, getTagsMany(db, SetToSeq(TagArgs)))
CreateTag ==
    /\ CanCreate(db, TagIds)
    /\ \E g \in OrNone(TagArgs), blank \in BOOLEAN, on \in BOOLEAN :
          LET a == [blank |-> blank, parent |-> g] @@ (IF on THEN Nothing ELSE [status |-> "on-hold"])
          IN Invoke("createTag", <<a>>, createTag(db, a))
UpdateTag ==
    \E g \in TagArgs, patch \in {[status |-> "dropped"]} \cup {[parent |-> x] : x \in OrNone(TagArgs)} :
        Invoke("updateTag", <<g, patch>>, updateTag(db, g, patch))
DeleteTag == \E g \in TagArgs : Invoke("deleteTag", <<g>>, deleteTag(db, g))

ListFolders ==
    \E f \in {Nothing} \cup {[parent |-> x] : x \in OrNone(FolderArgs)} :
        Invoke("listFolders", <<f>>, listFolders(db, f))
GetFolder == \E f \in FolderArgs : Invoke("getFolder", <<f>>, getFolder(db, f))
CreateFolder ==
    /\ CanCreate(db, FolderIds)
    /\ \E f \in OrNone(FolderArgs), blank \in BOOLEAN :
          LET a == [blank |-> blank, parent |-> f] IN Invoke("createFolder", <<a>>, createFolder(db, a))
UpdateFolder ==
    \E f \in FolderArgs, patch \in {Nothing} \cup {[parent |-> x] : x \in OrNone(FolderArgs)} :
        Invoke("updateFolder", <<f, patch>>, updateFolder(db, f, patch))
DeleteFolder == \E f \in FolderArgs : Invoke("deleteFolder", <<f>>, deleteFolder(db, f))

TagsAndFolders ==
    \/ ListTags \/ GetTag \/ GetTagsMany \/ CreateTag \/ UpdateTag \/ DeleteTag
    \/ ListFolders \/ GetFolder \/ CreateFolder \/ UpdateFolder \/ DeleteFolder

-----------------------------------------------------------------------------
\* Forecast, perspectives, attachments, windows, undo

GetForecast == \E a \in Windows : Invoke("getForecast", <<a>>, getForecast(db, a))
GetForecastTag == Invoke("getForecastTagWithName", <<>>, getForecastTagWithName(db))
SetForecastTag ==
    \E g \in OrNone(TagArgs) : Invoke("setForecastTagWithName", <<g>>, setForecastTagWithName(db, g))

Faults == {"no", "configure", "rollback"}
PerspectiveInputs == {[name |-> n, aggregation |-> "any", rules |-> {"flagged"}] : n \in {None, "mine", "other"}}

ListPerspectives == Invoke("listPerspectives", <<>>, listPerspectives(db))
EvaluatePerspective ==
    \E id \in {"inbox", "flagged", "forecast", "projects", "tags"} :
        Invoke("evaluatePerspective", <<id>>, evaluatePerspective(db, id))
GetCustomPerspective ==
    \E v \in PerspectiveIds : Invoke("getCustomPerspective", <<v>>, getCustomPerspective(db, v))
EvaluateCustomPerspective ==
    \E v \in PerspectiveIds : Invoke("evaluateCustomPerspective", <<v>>, evaluateCustomPerspective(db, v))
EvaluatePerspectiveRules ==
    /\ CanCreate(db, PerspectiveIds)
    /\ \E x \in Faults : Invoke("evaluatePerspectiveRules", <<{"flagged"}, x>>,
                              evaluatePerspectiveRules(db, {"flagged"}, x))
CreateCustomPerspective ==
    /\ CanCreate(db, PerspectiveIds)
    /\ \E a \in PerspectiveInputs, x \in Faults :
          Invoke("createCustomPerspective", <<a, x>>, createCustomPerspective(db, a, x))
UpdateCustomPerspective ==
    \E v \in PerspectiveIds, patch \in PerspectiveInputs,
       x \in {"no", "configure"} :
        Invoke("updateCustomPerspective", <<v, patch, x>>, updateCustomPerspective(db, v, patch, x))
DeleteCustomPerspective ==
    \E v \in PerspectiveIds : Invoke("deleteCustomPerspective", <<v>>, deleteCustomPerspective(db, v))

ListAttachments == \E o \in Owners : Invoke("listAttachments", <<o>>, listAttachments(db, o))
AddAttachment ==
    /\ CanCreate(db, AttachmentIds)
    /\ \E o \in Owners : Invoke("addAttachment", <<o>>, addAttachment(db, o))
RemoveAttachment ==
    \E o \in Owners, x \in AttachmentIds \cap db.used :
        Invoke("removeAttachment", <<o, x>>, removeAttachment(db, o, x))

SaveAttachmentToPath ==
    \E o \in Owners, x \in AttachmentIds \cap db.used, directories \in {{}, {"path"}} :
        Invoke("saveAttachmentToPath", <<o, x>>, saveAttachmentToPath(db, o, x, "path", directories))

GetWindowState == Invoke("getWindowState", <<>>, getWindowState(db))
SetWindowFocus ==
    \E c \in OrNone(ProjectArgs \cup FolderArgs) : Invoke("setWindowFocus", <<c>>, setWindowFocus(db, c))
SetWindowPerspective ==
    \E n \in {"mine", "other"} : Invoke("setWindowPerspective", <<n>>, setWindowPerspective(db, n))

\* OmniFocus goes back to a document it had before, or has none (external).
Histories == {<<>>} \cup {<<d>> : d \in Starts}
UndoLastMutation ==
    \E past \in Histories : Invoke("undoLastMutation", <<>>, undoLastMutation(db, past))
RedoLastMutation ==
    \E future \in Histories : Invoke("redoLastMutation", <<>>, redoLastMutation(db, future))

Others ==
    \/ GetForecast \/ GetForecastTag \/ SetForecastTag \/ ListPerspectives \/ EvaluatePerspective
    \/ GetCustomPerspective \/ EvaluateCustomPerspective \/ EvaluatePerspectiveRules
    \/ CreateCustomPerspective \/ UpdateCustomPerspective \/ DeleteCustomPerspective
    \/ ListAttachments \/ AddAttachment \/ RemoveAttachment
    \/ SaveAttachmentToPath \/ GetWindowState \/ SetWindowFocus \/ SetWindowPerspective
    \/ UndoLastMutation \/ RedoLastMutation

AdapterNext == Tasks \/ Projects \/ TagsAndFolders \/ Others
AdapterSpec == AdapterInit /\ [][AdapterNext]_adapterVars

-----------------------------------------------------------------------------
\* Properties

\* The document as the in-memory adapter would hold it.  (@@ has TLC build the
\* rows once.)
RowsOf(S, Row(_)) == Nothing @@ [x \in S |-> Nothing @@ Without(Row(x), {"id"})]
View(d) ==
    [tasks |-> RowsOf(DOMAIN d.tasks, LAMBDA t : BuildTask(d, t)),
     projects |-> RowsOf(DOMAIN d.projects, LAMBDA p : BuildProject(d, p)),
     tags |-> RowsOf(DOMAIN d.tags, LAMBDA g : BuildTag(d, g)),
     folders |-> RowsOf(DOMAIN d.folders, LAMBDA f : BuildFolder(d, f)),
     alarms |-> [t \in DOMAIN d.tasks |-> d.tasks[t].alarms],
     shows |-> [v \in DOMAIN d.persp |-> {}], undo |-> 0, redo |-> 0,
     order |-> d.order, used |-> d.used, fcTag |-> d.fcTag, persp |-> d.persp,
     attach |-> d.attach, window |-> d.window]

Promise == INSTANCE Twin WITH w <- View(db)

\* Whatever the server asks of OmniFocus within the promise of an adapter, it
\* gets the answer, and leaves the document, that the in-memory adapter of the
\* tests would: what is derived here (a task's project, the counts of projects
\* and folders) is what is stored and added up there.
TwinAgrees == Promise!Spec

\* The document stays one, whatever is asked of the adapter in whatever order:
\* no creation, move, copy, conversion or deletion leaves a row that names what
\* is gone, a task in itself, or a task missing from the order or twice in it.
WellFormed == Sound(db)

\* What a refused call may have done all the same.  Where OmniFocus stops a
\* script between two of its steps: a task made without its properties, the
\* fields or alarms set before one that is refused, a copy that was not
\* trimmed, the plain fields before a long note or noteHtml, a perspective half
\* configured.  Where the rollback fails as well: a project that was refused,
\* the shell of a perspective.
HalfDone(a) ==
    \/ /\ a.method \in {"createTask", "updateTask", "duplicateTask", "updateProject", "setTaskAlarms"}
       /\ a.code = "Script"
    \/ a.method \in {"updateTask", "updateProject"} /\ a.code = "Unsupported"
    \/ a.method = "createProject" /\ a.code = "Validation" /\ a.args[2] /\ ~a.args[1].blank
    \/ a.method = "updateCustomPerspective" /\ a.args[3] = "configure"
    \/ a.method \in {"createCustomPerspective", "evaluatePerspectiveRules"} /\ Last(a.args) = "rollback"

\* A call that is answered with an error has left the document as it was,
\* other than in the ways just listed: what the scripts check for themselves
\* they check before the first change, whatever they look up for it.
RefusedLeavesNothing ==
    [][answer'.code # "OK" /\ ~HalfDone(answer') => [db' EXCEPT !.used = db.used] = db]_adapterVars

\* A caller that lost the answer of a write and sends it again (a timeout after
\* the script ran, a child that died before its answer was read) changes
\* nothing the second time.  That is not said of what makes a new object, of
\* undo, nor of completing and dropping what repeats: completing a repeating
\* task again is one more occurrence, what OmniFocus makes of one that is
\* dropped is not in the repository, and no script shows whether a project
\* repeats.
Repeatable ==
    {"updateTask", "batchUpdateTasks", "completeTask", "uncompleteTask", "dropTask", "undropTask",
     "deleteTask", "batchCompleteTasks", "batchUncompleteTasks", "batchDropTasks",
     "batchUndropTasks", "batchDeleteTasks", "moveTask", "reorderTask", "convertTaskToProject",
     "setTaskAlarms", "clearTaskAlarms", "updateProject", "moveProject", "deleteProject",
     "markProjectReviewed", "setProjectReviewInterval", "setProjectNextReviewDate", "updateTag",
     "deleteTag", "updateFolder", "deleteFolder", "setForecastTagWithName",
     "updateCustomPerspective", "deleteCustomPerspective", "removeAttachment", "setWindowFocus",
     "setWindowPerspective", "saveAttachmentToPath"}
SameCall == answer'.method = answer.method /\ answer'.args = answer.args
Recurring(d) == {t \in DOMAIN d.tasks : d.tasks[t].repeat # None}
ClosesRecurring(a, d) ==
    \/ a.method \in {"completeTask", "dropTask"} /\ a.args[1] \in Recurring(d)
    \/ /\ a.method \in {"batchCompleteTasks", "batchDropTasks"}
       /\ ToSet(a.args[1]) \cap Recurring(d) # {}
RepeatedIsHarmless ==
    [][SameCall /\ answer.method \in Repeatable /\ ~ClosesRecurring(answer, db) => db' = db]_adapterVars

\* What was asked for was done: a folder or tag whose update said OK is where
\* the update put it.
MovedWhereAsked ==
    [][(/\ answer'.method \in {"updateFolder", "updateTag"} /\ answer'.code = "OK"
        /\ Has(answer'.args[2], "parent")) =>
          LET id == answer'.args[1] IN
          answer'.args[2].parent = (IF answer'.method = "updateFolder" THEN db'.folders[id].parent
                                    ELSE db'.tags[id].parent)]_adapterVars
=============================================================================
