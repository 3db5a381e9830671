----------------------------- MODULE Transports -----------------------------
(***************************************************************************)
(* The adapter the server uses against OmniFocus: TransportRouter picks a  *)
(* transport for every method, and the transport turns the arguments into  *)
(* the payload of a script and the script's answer into a value or an      *)
(* error (src/adapter/router.ts, jxa/JxaTransport.ts,                      *)
(* omnijs/OmniJsTransport.ts).  One operator for each method, named after  *)
(* it; what a payload leaves out is left out here.                         *)
(***************************************************************************)
EXTENDS LibraryScripts

\* The methods each transport implements; its others throw.
OmniJsWired ==
    {"createTask", "moveTask", "convertTaskToProject", "batchMoveTasks", "reorderTask",
     "duplicateTask", "createProject", "moveProject", "getForecastTagWithName",
     "setForecastTagWithName", "undoLastMutation", "redoLastMutation", "setTaskAlarms",
     "clearTaskAlarms", "appWindowNew", "appWindowNewTab", "pluginInvoke",
     "evaluateCustomPerspective", "evaluatePerspectiveRules", "getCustomPerspective",
     "deleteCustomPerspective", "createCustomPerspective", "updateCustomPerspective",
     "runOmniJsScript"}
JxaUnwired ==
    {"convertTaskToProject", "batchMoveTasks", "reorderTask", "evaluateCustomPerspective",
     "evaluatePerspectiveRules", "getCustomPerspective", "deleteCustomPerspective",
     "createCustomPerspective", "updateCustomPerspective", "getForecastTagWithName",
     "setForecastTagWithName", "undoLastMutation", "redoLastMutation", "setTaskAlarms",
     "clearTaskAlarms", "appWindowNew", "appWindowNewTab", "pluginInvoke", "runOmniJsScript"}

\* ROUTING_TABLE: the methods that go to OmniJS; all others go to JXA.
RoutedToOmniJs ==
    {"createTask", "moveTask", "convertTaskToProject", "batchMoveTasks", "reorderTask",
     "duplicateTask", "createProject", "moveProject", "getForecastTagWithName",
     "setForecastTagWithName", "evaluateCustomPerspective", "evaluatePerspectiveRules",
     "getCustomPerspective", "deleteCustomPerspective", "createCustomPerspective",
     "updateCustomPerspective", "undoLastMutation", "redoLastMutation", "setTaskAlarms",
     "clearTaskAlarms", "appWindowNew", "appWindowNewTab", "pluginInvoke", "runOmniJsScript"}

\* pick(method)[method](...): the answer, when the transport has one.
Route(d, method, answer) ==
    IF method \in RoutedToOmniJs
    THEN IF method \in OmniJsWired THEN answer ELSE Refuse(d, "Script")
    ELSE IF method \in JxaUnwired THEN Refuse(d, "Script") ELSE answer

Only(fields, names) == Restrict(fields, DOMAIN fields \cap names)

-----------------------------------------------------------------------------
\* Tasks, through JXA

listTasks(d, f) == TaskList(d, Without(f, {"inbox"}))
getTask(d, t) == TaskGet(d, t)
getNoteHtml(d, kind, id) == IF kind = "task" THEN TaskGet(d, id) ELSE ProjectGet(d, id)
getTasksMany(d, ids) == TaskGetMany(d, ids)
searchTasks(d, f) == TaskSearch(d, f)

\* A long note does not fit beside other fields: it is written by a second
\* script, and when that one fails (cut) the other fields stay written.
Long(note) == note # None /\ "long" \in ToSet(note)
Split(patch) == Has(patch, "note") /\ Long(patch.note) /\ DOMAIN patch # {"note"}

updateTask(d, t, patch, cut) ==
    LET first == TaskUpdate(d, t, Without(patch, {"note"}), FALSE) IN
    CASE ~Split(patch)                      -> TaskUpdate(d, t, patch, cut)
      [] Split(patch) /\ first.code # "OK"  -> first
      [] Split(patch) /\ first.code = "OK"  -> IF cut THEN Refuse(first.doc, "Script")
                                               ELSE TaskUpdate(first.doc, t, Only(patch, {"note"}), FALSE)

completeTask(d, t)   == TaskComplete(d, t)
uncompleteTask(d, t) == TaskUncomplete(d, t)
dropTask(d, t)       == TaskDrop(d, t)
undropTask(d, t)     == TaskUndrop(d, t)
deleteTask(d, t)     == TaskDelete(d, t)

\* runBatchScript, mapBatchScriptResult
batchCreateTasks(d, inputs)    == TaskBatchCreate(d, inputs)
batchUpdateTasks(d, updates)   == TaskBatchUpdate(d, updates)
batchCompleteTasks(d, items)   == TaskBatchComplete(d, items)
batchUncompleteTasks(d, items) == TaskBatchUncomplete(d, items)
batchDeleteTasks(d, items)     == TaskBatchDelete(d, items)
batchDropTasks(d, items)       == TaskBatchDrop(d, items)
batchUndropTasks(d, items)     == TaskBatchUndrop(d, items)

\* Tasks, through OmniJS

createTask(d, a, cut)            == TaskCreate(d, a, cut)
moveTask(d, t, to)               == TaskMove(d, t, to)
convertTaskToProject(d, t, f)    == TaskConvertToProject(d, t, f)
batchMoveTasks(d, items)         == TaskBatchMove(d, items)
reorderTask(d, t, pos)           == TaskReorder(d, t, pos)
duplicateTask(d, t, to, all, cut) == TaskDuplicate(d, t, to, all, cut)
setTaskAlarms(d, t, alarms)      == TaskSetAlarms(d, t, alarms)
clearTaskAlarms(d, t)            == TaskClearAlarms(d, t)

-----------------------------------------------------------------------------
\* Projects and reviews

listProjects(d, f)      == ProjectList(d, f)
getProject(d, p)        == ProjectGet(d, p)
getProjectsMany(d, ids) == ProjectGetMany(d, ids)

createProject(d, a, stuck) == ProjectCreate(d, [a EXCEPT !.fields = Without(@, {"tags", "next"})], stuck)

\* What the tool also accepts (tags, the criterion, the review interval) is
\* not in the payload.
updateProject(d, p, patch, cut) ==
    ProjectUpdate(d, p, Only(patch, {"note", "noteHtml", "flagged", "status"}), cut)

completeProject(d, p)              == ProjectComplete(d, p)
dropProject(d, p)                  == ProjectDrop(d, p)
batchCompleteProjects(d, ids)      == ProjectBatchComplete(d, ids)
batchDropProjects(d, ids)          == ProjectBatchDrop(d, ids)
moveProject(d, p, folder)          == ProjectMove(d, p, folder)
deleteProject(d, p)                == ProjectDelete(d, p)
markProjectReviewed(d, p)          == ProjectMarkReviewed(d, p)
listProjectsDueForReview(d)        == ReviewListDue(d)
setProjectReviewInterval(d, p, n)  == ProjectSetReviewInterval(d, p, n)
setProjectNextReviewDate(d, p, x)  == ProjectSetNextReviewDate(d, p, x)

-----------------------------------------------------------------------------
\* Tags and folders: neither update has a parent in its payload.

listTags(d, f)      == TagList(d, f)
getTag(d, g)        == TagGet(d, g)
getTagsMany(d, ids) == TagGetMany(d, ids)
createTag(d, a)     == TagCreate(d, Only(a, {"blank", "name", "parent"}))
updateTag(d, g, patch) == TagUpdate(d, g, Only(patch, {"status", "nextAction"}))
deleteTag(d, g)     == TagDelete(d, g)

listFolders(d, f)   == FolderList(d, f)
getFolder(d, f)     == FolderGet(d, f)
createFolder(d, a)  == FolderCreate(d, a)
updateFolder(d, f, patch) == FolderUpdate(d, f)
deleteFolder(d, f)  == FolderDelete(d, f)

-----------------------------------------------------------------------------
\* Forecast, perspectives, attachments, windows, undo

getForecast(d, a)            == ForecastGet(d, a)
getForecastTagWithName(d)    == ForecastTagWithName(d)
setForecastTagWithName(d, g) == ForecastTagSetWithName(d, g)

listPerspectives(d)                  == PerspectiveList(d)
evaluatePerspective(d, id)           == PerspectiveEvaluate(d, id)
getCustomPerspective(d, v)           == PerspectiveGet(d, v)
evaluatePerspectiveRules(d, rules, fault) == PerspectiveEvaluateDryRun(d, rules, fault)
createCustomPerspective(d, a, fault) == PerspectiveCreate(d, a, fault)
updateCustomPerspective(d, v, patch, fault) == PerspectiveUpdate(d, v, patch, fault)
deleteCustomPerspective(d, v)        == PerspectiveDelete(d, v)

\* Every error of the script is reported as NotFound, except the one about Pro.
evaluateCustomPerspective(d, v) == PerspectiveEvaluateCustom(d, v)

listAttachments(d, o)      == AttachmentList(d, o)
addAttachment(d, o)        == AttachmentAdd(d, o)
removeAttachment(d, o, x)  == AttachmentRemove(d, o, x)
saveAttachmentToPath(d, o, x, path, directories) == AttachmentSaveToPath(d, o, x, path, directories)

getWindowState(d)             == WindowGetState(d)
setWindowFocus(d, c)          == WindowSetFocus(d, c)
setWindowPerspective(d, name) == WindowSetPerspective(d, name)

undoLastMutation(d, past)   == DatabaseUndo(d, past)
redoLastMutation(d, future) == DatabaseRedo(d, future)
=============================================================================
