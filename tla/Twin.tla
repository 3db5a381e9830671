-------------------------------- MODULE Twin --------------------------------
(***************************************************************************)
(* What an OmniFocus adapter promises, as the repository has it: the       *)
(* in-memory adapter is the one its unit tests run the tools against, and  *)
(* the contract tests run the same cases against it and the transports.    *)
(* w is its state, answer the last call, its code and its value.           *)
(*                                                                         *)
(* The promise has limits.  Promised names the calls both adapters are     *)
(* meant to treat alike, and leaves out those where the in-memory one is   *)
(* simpler on purpose or by omission; any answer will do for those.        *)
(***************************************************************************)
EXTENDS InMemory

CONSTANT AttachmentIds
VARIABLES w, answer

Empty(v, t) == {x \in DOMAIN v.tasks : v.tasks[x].parent = t} = {}
Alone(v, t) == Has(v.tasks, t) => Empty(v, t)
Knows(v, fields) == ~Has(fields, "tags") \/ fields.tags \subseteq DOMAIN v.tags
One(to) == to.project = None \/ to.parent = None
Recurring(v) == {t \in DOMAIN v.tasks : v.tasks[t].repeat # None}

\* A call of method m with arguments a, in state v, is promised to be alike.
PromisedTask(v, m, a) ==
    CASE m = "listTasks"       -> /\ ~Has(a[1], "inbox")
                                  /\ Has(a[1], "project") => Has(v.projects, a[1].project)
                                  /\ Has(a[1], "parent") => Has(v.tasks, a[1].parent)
                                  /\ Has(a[1], "tag") => Has(v.tags, a[1].tag)
      [] m = "searchTasks"     -> Has(a[1], "project") => Has(v.projects, a[1].project)
      [] m = "createTask"      -> Knows(v, a[1].fields) /\ ~a[2]
      [] m = "batchCreateTasks" -> \A i \in DOMAIN a[1] : /\ ~a[1][i].blank /\ One(a[1][i])
                                                          /\ Knows(v, a[1][i].fields)
      [] m = "updateTask"      -> /\ ~Has(a[2], "noteHtml") /\ ~a[3]
                                  /\ Has(v.tasks, a[1]) => Knows(v, a[2])
      [] m = "batchUpdateTasks" -> \A i \in DOMAIN a[1] : Knows(v, a[1][i].patch)
      [] m \in {"completeTask", "dropTask"} -> a[1] \notin Recurring(v)
      [] m \in {"batchCompleteTasks", "batchDropTasks"} -> ToSet(a[1]) \cap Recurring(v) = {}
      [] m \in {"uncompleteTask", "undropTask"} ->
             Has(v.tasks, a[1]) => ~(v.tasks[a[1]].completed /\ v.tasks[a[1]].dropped)
                                   /\ (m = "undropTask" => ~v.tasks[a[1]].completed)
                                   /\ (m = "uncompleteTask" => ~v.tasks[a[1]].dropped)
      [] m \in {"batchUncompleteTasks", "batchUndropTasks"} ->
             \A i \in DOMAIN a[1] : Has(v.tasks, a[1][i]) =>
                 IF m = "batchUndropTasks" THEN ~v.tasks[a[1][i]].completed
                                           ELSE ~v.tasks[a[1][i]].dropped
      [] m = "deleteTask"      -> Alone(v, a[1])
      [] m = "batchDeleteTasks" -> \A i \in DOMAIN a[1] : Alone(v, a[1][i])
      [] m = "moveTask"        -> Alone(v, a[1]) /\ (Has(v.tasks, a[1]) => a[2].parent # a[1])
      [] m = "batchMoveTasks"  -> \A i \in DOMAIN a[1] : /\ Alone(v, a[1][i].id) /\ One(a[1][i].to)
                                                         /\ a[1][i].to.parent \notin {a[1][j].id : j \in DOMAIN a[1]}
      [] m = "reorderTask"     -> /\ Alone(v, a[1])
                                  /\ a[2].mode \in {"before", "after"} => a[2].ref \notin {None, a[1]}
                                  /\ a[2].mode \in {"start", "end"} => One(a[2]) /\ a[2].parent # a[1]
      [] m = "duplicateTask"   -> /\ One(a[2]) /\ ~a[4]
                                  /\ Has(v.tasks, a[1]) => ~v.tasks[a[1]].dropped /\ v.alarms[a[1]] = <<>>
                                  /\ a[3] => Alone(v, a[1])
      [] m = "setTaskAlarms"   -> Has(v.tasks, a[1]) => \A i \in DOMAIN a[2] :
                                      a[2][i] \in {"due", "defer"} => v.tasks[a[1]][a[2][i]] # None
      [] m = "convertTaskToProject" -> Alone(v, a[1]) /\ a[2] = None
                                       /\ (Has(v.tasks, a[1]) => v.tasks[a[1]].project = None)
      [] OTHER -> TRUE

PromisedOther(v, m, a) ==
    CASE m = "listProjects"    -> /\ ~Has(a[1], "status") \/ a[1].status # "done"
                                  /\ ~Has(a[1], "folder") \/ (Has(v.folders, a[1].folder)
                                                             /\ v.folders[a[1].folder].parent = None)
      [] m = "createProject"   -> DOMAIN a[1].fields \subseteq {"note", "flagged", "interval"}
                                  /\ ~(Has(a[1].fields, "interval") /\ a[1].fields.interval = 0)
      [] m = "updateProject"   -> DOMAIN a[2] \subseteq {"note", "flagged"} /\ ~a[3]
      [] m \in {"completeProject", "dropProject"} ->
             Has(v.projects, a[1]) => v.projects[a[1]].status \in {"active", "on-hold"}
      [] m \in {"batchCompleteProjects", "batchDropProjects"} ->
             \A i \in DOMAIN a[1] : Has(v.projects, a[1][i]) =>
                 v.projects[a[1][i]].status \in {"active", "on-hold"}
      [] m = "deleteProject"   -> \A t \in DOMAIN v.tasks : v.tasks[t].project # a[1]
      [] m = "markProjectReviewed" -> Has(v.projects, a[1]) => v.projects[a[1]].interval # None
      [] m = "setProjectNextReviewDate" -> a[2] # None
      [] m = "createTag"       -> DOMAIN a[1] = {"blank", "parent"}
      [] m = "updateTag"       -> ~Has(a[2], "parent")
      [] m = "deleteTag"       -> /\ \A g \in DOMAIN v.tags : v.tags[g].parent # a[1]
                                  /\ \A p \in DOMAIN v.projects : a[1] \notin v.projects[p].tags
                                  /\ v.fcTag # a[1]
      [] m = "updateFolder"    -> ~Has(a[2], "parent")
      [] m = "deleteFolder"    -> Has(v.folders, a[1]) => v.folders[a[1]].projectCount = 0
                                                          /\ v.folders[a[1]].subfolderCount = 0
      [] m = "evaluatePerspective" -> a[1] # "inbox"
      [] m = "getForecastTagWithName" -> v.fcTag \in DOMAIN v.tags \cup {None}
      [] m \in {"listPerspectives", "evaluateCustomPerspective", "evaluatePerspectiveRules",
                "deleteCustomPerspective", "setWindowPerspective", "saveAttachmentToPath", "undoLastMutation",
                "redoLastMutation"} -> FALSE
      [] m \in {"createCustomPerspective", "updateCustomPerspective"} -> Last(a) = "no"
      [] m \in {"getWindowState", "setWindowFocus"} -> v.window # None
      [] m \in {"addAttachment", "listAttachments", "removeAttachment"} ->
             a[1].task # None \/ a[1].project # None
      [] OTHER -> TRUE

Promised(v, m, a) == PromisedTask(v, m, a) /\ PromisedOther(v, m, a)

-----------------------------------------------------------------------------
\* What the in-memory adapter does for a call.

ApplyTask(v, m, a) ==
    CASE m = "listTasks"            -> listTasks(v, a[1])
      [] m = "getTask"              -> getTask(v, a[1])
      [] m = "getTasksMany"         -> getTasksMany(v, a[1])
      [] m = "searchTasks"          -> searchTasks(v, a[1])
      [] m = "createTask"           -> createTask(v, a[1])
      [] m = "batchCreateTasks"     -> batchCreateTasks(v, a[1])
      [] m = "updateTask"           -> updateTask(v, a[1], a[2])
      [] m = "batchUpdateTasks"     -> batchUpdateTasks(v, a[1])
      [] m = "completeTask"         -> completeTask(v, a[1])
      [] m = "uncompleteTask"       -> uncompleteTask(v, a[1])
      [] m = "dropTask"             -> dropTask(v, a[1])
      [] m = "undropTask"           -> undropTask(v, a[1])
      [] m = "deleteTask"           -> deleteTask(v, a[1])
      [] m = "batchCompleteTasks"   -> batchCompleteTasks(v, a[1])
      [] m = "batchUncompleteTasks" -> batchUncompleteTasks(v, a[1])
      [] m = "batchDropTasks"       -> batchDropTasks(v, a[1])
      [] m = "batchUndropTasks"     -> batchUndropTasks(v, a[1])
      [] m = "batchDeleteTasks"     -> batchDeleteTasks(v, a[1])
      [] m = "moveTask"             -> moveTask(v, a[1], a[2])
      [] m = "batchMoveTasks"       -> batchMoveTasks(v, a[1])
      [] m = "reorderTask"          -> reorderTask(v, a[1], a[2])
      [] m = "duplicateTask"        -> duplicateTask(v, a[1], a[2], a[3])
      [] m = "convertTaskToProject" -> convertTaskToProject(v, a[1], a[2])
      [] m = "setTaskAlarms"        -> setTaskAlarms(v, a[1], a[2])
      [] m = "clearTaskAlarms"      -> clearTaskAlarms(v, a[1])

ApplyOther(v, m, a) ==
    CASE m = "listProjects"             -> listProjects(v, a[1])
      [] m = "getProject"               -> getProject(v, a[1])
      [] m = "getProjectsMany"          -> getProjectsMany(v, a[1])
      [] m = "createProject"            -> createProject(v, a[1])
      [] m = "updateProject"            -> updateProject(v, a[1], a[2])
      [] m = "completeProject"          -> completeProject(v, a[1])
      [] m = "dropProject"              -> dropProject(v, a[1])
      [] m = "batchCompleteProjects"    -> batchCompleteProjects(v, a[1])
      [] m = "batchDropProjects"        -> batchDropProjects(v, a[1])
      [] m = "moveProject"              -> moveProject(v, a[1], a[2])
      [] m = "deleteProject"            -> deleteProject(v, a[1])
      [] m = "markProjectReviewed"      -> markProjectReviewed(v, a[1])
      [] m = "listProjectsDueForReview" -> listProjectsDueForReview(v)
      [] m = "setProjectReviewInterval" -> setProjectReviewInterval(v, a[1], a[2])
      [] m = "setProjectNextReviewDate" -> setProjectNextReviewDate(v, a[1], a[2])
      [] m = "listTags"                 -> listTags(v, a[1])
      [] m = "getTag"                   -> getTag(v, a[1])
      [] m = "getTagsMany"              -> getTagsMany(v, a[1])
      [] m = "createTag"                -> createTag(v, a[1])
      [] m = "updateTag"                -> updateTag(v, a[1], a[2])
      [] m = "deleteTag"                -> deleteTag(v, a[1])
      [] m = "listFolders"              -> listFolders(v, a[1])
      [] m = "getFolder"                -> getFolder(v, a[1])
      [] m = "createFolder"             -> createFolder(v, a[1])
      [] m = "updateFolder"             -> updateFolder(v, a[1], a[2])
      [] m = "deleteFolder"             -> deleteFolder(v, a[1])
      [] m = "getForecast"              -> getForecast(v, a[1])
      [] m = "evaluatePerspective"      -> evaluatePerspective(v, a[1])
      [] m = "getForecastTagWithName"   -> getForecastTagWithName(v)
      [] m = "setForecastTagWithName"   -> setForecastTagWithName(v, a[1])
      [] m = "getCustomPerspective"     -> getCustomPerspective(v, a[1])
      [] m = "createCustomPerspective"  -> createCustomPerspective(v, a[1])
      [] m = "updateCustomPerspective"  -> updateCustomPerspective(v, a[1], a[2])
      [] m = "listAttachments"          -> listAttachments(v, a[1])
      [] m = "addAttachment"            -> addAttachment(v, a[1], AttachmentIds)
      [] m = "removeAttachment"         -> removeAttachment(v, a[1], a[2])
      [] m = "getWindowState"           -> getWindowState(v)
      [] m = "setWindowFocus"           -> setWindowFocus(v, a[1])

TaskMethods ==
    {"listTasks", "getTask", "getTasksMany", "searchTasks", "createTask", "batchCreateTasks",
     "updateTask", "batchUpdateTasks", "completeTask", "uncompleteTask", "dropTask", "undropTask",
     "deleteTask", "batchCompleteTasks", "batchUncompleteTasks", "batchDropTasks",
     "batchUndropTasks", "batchDeleteTasks", "moveTask", "batchMoveTasks", "reorderTask",
     "duplicateTask", "convertTaskToProject", "setTaskAlarms", "clearTaskAlarms"}

Apply(v, m, a) == IF m \in TaskMethods THEN ApplyTask(v, m, a) ELSE ApplyOther(v, m, a)

-----------------------------------------------------------------------------
\* The reply both give: creates and updates are compared by the state they
\* leave, reads by the rows, and refusals by the code.
Reads == {"listTasks", "getTask", "getTasksMany", "searchTasks", "listProjects", "getProject",
          "getProjectsMany", "listProjectsDueForReview", "listTags", "getTag", "getTagsMany",
          "listFolders", "getFolder", "getForecast", "evaluatePerspective",
          "getForecastTagWithName", "getCustomPerspective", "listAttachments", "getWindowState"}
Batches == {"batchCreateTasks", "batchUpdateTasks", "batchCompleteTasks", "batchUncompleteTasks",
            "batchDropTasks", "batchUndropTasks", "batchDeleteTasks", "batchMoveTasks",
            "batchCompleteProjects", "batchDropProjects"}

\* The tasks of each container, in their order.
At(v, t) == <<v.tasks[t].project, v.tasks[t].parent>>
Siblings(v) == [k \in {At(v, t) : t \in DOMAIN v.tasks} |-> SelectSeq(v.order, LAMBDA t : At(v, t) = k)]

\* Where a moved or copied task comes among its new siblings is not promised.
Unordered == {"moveTask", "batchMoveTasks", "duplicateTask"}

\* A completed project is "done" here and "completed" in the scripts' rows.
Word(row) == [row EXCEPT !.status = IF @ = "done" THEN "completed" ELSE @]

Bare(v) ==
    [tasks |-> v.tasks, projects |-> [p \in DOMAIN v.projects |-> Word(v.projects[p])],
     tags |-> [g \in DOMAIN v.tags |-> Restrict(v.tags[g], {"parent", "status", "nextAction"})],
     folders |-> v.folders, fcTag |-> v.fcTag, persp |-> v.persp, window |-> v.window,
     alarms |-> [t \in {x \in DOMAIN v.tasks \cap DOMAIN v.alarms : v.alarms[x] # <<>>} |-> v.alarms[t]],
     attach |-> [o \in {x \in DOMAIN v.attach : v.attach[x] # {}} |-> v.attach[o]]]

Init == answer = [method |-> "none", args |-> <<>>, code |-> "OK", val |-> None]

\* The call that was made does to the state, and answers, what it does here.
\* (The singletons have TLC evaluate each value once.)
Next ==
    \E v \in {w}, next \in {w'}, c \in {answer'} :
        Promised(v, c.method, c.args) =>
            \E r \in {Apply(v, c.method, c.args)} :
                /\ c.code = r.code
                /\ Bare(next) = Bare(r.doc)
                /\ c.method \notin Unordered => Siblings(next) = Siblings(r.doc)
                /\ c.method \in Reads \cup Batches => c.val = r.val

Spec == Init /\ [][Next]_<<w, answer>>
=============================================================================
