---------------------------- MODULE ToolsProofs ----------------------------
(***************************************************************************)
(* A tool that says it did nothing did nothing, for any documents, any     *)
(* calls and callers and any order in which the adapter executes their     *)
(* requests.                                                               *)
(*                                                                         *)
(* The proof goes up through the layers.  No request of the adapter        *)
(* answers with a code by which a tool declines, and a reading request     *)
(* leaves the document alone (Honest, Looking).  So a step of a tool       *)
(* either looks or works, in the sense of Looks and Works; a tool that may *)
(* decline looks until it decides, and works after that (Turns).  The      *)
(* invariant of the calls (CallOK) is that a call which has written is     *)
(* past its decision (Committed), wherever the other calls came between.   *)
(***************************************************************************)
EXTENDS Tools, WellFoundedInduction, TLAPS

\* An answer of the adapter that is none of a declining tool, and one that
\* left the document d as it was.
Honest(r) == r.code \notin Declines
Looking(r, d) == Honest(r) /\ r.doc = d

-----------------------------------------------------------------------------
\* What the adapter answers with.

\* withFound: an unknown id, or the answer about the known one.
LEMMA FoundReads ==
    \A d, f, id, r : Looking(r, d) => Looking(Found(d, f, id, r), d)
BY DEF Looking, Honest, Found, Refuse, Declines

\* The same for a request that writes.
LEMMA FoundHonest == \A d, f, id, r : Honest(r) => Honest(Found(d, f, id, r))
BY DEF Honest, Found, Refuse, Declines

\* A result.
LEMMA AnswerHonest == \A d, v : Honest(Answer(d, v))
BY DEF Honest, Answer, Declines

\* The errors the scripts and the transports end with.
LEMMA RefuseHonest ==
    \A d : \A code \in {"NotFound", "Validation", "Script", "Unsupported", "NoWindow", "Timeout"} :
        Honest(Refuse(d, code))
BY DEF Honest, Refuse, Declines

\* A script that is stopped.
LEMMA StoppedHonest == \A r : Honest(r) => Honest(Stopped(r))
BY RefuseHonest DEF Stopped

\* A result that comes with the document as it was.
LEMMA AnswerReads == \A d, v : Looking(Answer(d, v), d)
BY DEF Looking, Honest, Answer, Declines

-----------------------------------------------------------------------------
\* The requests that read.

\* Tasks and notes.
LEMMA TaskReads ==
    /\ \A d, t : Looking(getTask(d, t), d)
    /\ \A d, ids : Looking(getTasksMany(d, ids), d)
    /\ \A d, f : Looking(listTasks(d, f), d)
    /\ \A d, f : Looking(searchTasks(d, f), d)
    /\ \A d, kind, t : Looking(getNoteHtml(d, kind, t), d)
<1>1. \A d, t : Looking(getTask(d, t), d)
  BY FoundReads, AnswerReads DEF getTask, TaskGet
<1>2. \A d, ids : Looking(getTasksMany(d, ids), d)
  BY AnswerReads DEF getTasksMany, TaskGetMany
<1>3. \A d, f : Looking(listTasks(d, f), d)
  BY FoundReads, AnswerReads DEF listTasks, TaskList
<1>4. \A d, f : Looking(searchTasks(d, f), d)
  BY FoundReads, AnswerReads DEF searchTasks, TaskSearch
<1>5. \A d, kind, t : Looking(getNoteHtml(d, kind, t), d)
  BY FoundReads, AnswerReads DEF getNoteHtml, TaskGet, ProjectGet
<1> QED
  BY <1>1, <1>2, <1>3, <1>4, <1>5

\* Projects, tags, folders, the forecast.
LEMMA LibraryReads ==
    /\ \A d, p : Looking(getProject(d, p), d)
    /\ \A d, ids : Looking(getProjectsMany(d, ids), d)
    /\ \A d, f : Looking(listProjects(d, f), d)
    /\ \A d : Looking(listProjectsDueForReview(d), d)
    /\ \A d, x : Looking(getTag(d, x), d)
    /\ \A d, ids : Looking(getTagsMany(d, ids), d)
    /\ \A d, f : Looking(listTags(d, f), d)
    /\ \A d, x : Looking(getFolder(d, x), d)
    /\ \A d, f : Looking(listFolders(d, f), d)
    /\ \A d, x : Looking(getForecast(d, x), d)
    /\ \A d, o : Looking(listAttachments(d, o), d)
<1>1. \A d, p : Looking(getProject(d, p), d)
  BY FoundReads, AnswerReads DEF getProject, ProjectGet
<1>2. \A d, ids : Looking(getProjectsMany(d, ids), d)
  BY AnswerReads DEF getProjectsMany, ProjectGetMany
<1>3. \A d, f : Looking(listProjects(d, f), d)
  BY AnswerReads DEF listProjects, ProjectList, Looking, Honest, Refuse, Declines
<1>4. \A d : Looking(listProjectsDueForReview(d), d)
  BY AnswerReads DEF listProjectsDueForReview, ReviewListDue
<1>5. \A d, x : Looking(getTag(d, x), d)
  BY FoundReads, AnswerReads DEF getTag, TagGet
<1>6. \A d, ids : Looking(getTagsMany(d, ids), d)
  BY AnswerReads DEF getTagsMany, TagGetMany
<1>7. \A d, f : Looking(listTags(d, f), d)
  BY AnswerReads DEF listTags, TagList
<1>8. \A d, x : Looking(getFolder(d, x), d)
  BY FoundReads, AnswerReads DEF getFolder, FolderGet
<1>9. \A d, f : Looking(listFolders(d, f), d)
  BY AnswerReads DEF listFolders, FolderList
<1>10. \A d, x : Looking(getForecast(d, x), d)
  BY AnswerReads DEF getForecast, ForecastGet
<1>11. \A d, o : Looking(listAttachments(d, o), d)
  <2> SUFFICES ASSUME NEW d, NEW o PROVE Looking(listAttachments(d, o), d)
    OBVIOUS
  <2>1. Looking(Refuse(d, "Validation"), d)
    BY DEF Looking, Honest, Refuse, Declines
  <2> QED
    BY <2>1, FoundReads, AnswerReads DEF listAttachments, AttachmentList, Owner
<1> QED
  BY <1>1, <1>2, <1>3, <1>4, <1>5, <1>6, <1>7, <1>8, <1>9, <1>10, <1>11

-----------------------------------------------------------------------------
\* The requests that write.

\* One task.
LEMMA TaskWrites ==
    /\ \A d, t : Honest(completeTask(d, t))
    /\ \A d, t : Honest(uncompleteTask(d, t))
    /\ \A d, t : Honest(dropTask(d, t))
    /\ \A d, t : Honest(undropTask(d, t))
    /\ \A d, t : Honest(deleteTask(d, t))
    /\ \A d, t, patch, cut : Honest(updateTask(d, t, patch, cut))
    /\ \A d, x, cut : Honest(createTask(d, x, cut))
    /\ \A d, t, to : Honest(moveTask(d, t, to))
    /\ \A d, t, f : Honest(convertTaskToProject(d, t, f))
    /\ \A d, t, pos : Honest(reorderTask(d, t, pos))
    /\ \A d, t, to, all, cut : Honest(duplicateTask(d, t, to, all, cut))
    /\ \A d, t, alarms : Honest(setTaskAlarms(d, t, alarms))
    /\ \A d, t : Honest(clearTaskAlarms(d, t))
<1>1. \A d, t : Honest(completeTask(d, t))
  BY FoundHonest, AnswerHonest, RefuseHonest DEF completeTask, TaskComplete
<1>2. \A d, t : Honest(uncompleteTask(d, t))
  BY FoundHonest, AnswerHonest, RefuseHonest DEF uncompleteTask, TaskUncomplete
<1>3. \A d, t : Honest(dropTask(d, t))
  BY FoundHonest, AnswerHonest, RefuseHonest DEF dropTask, TaskDrop
<1>4. \A d, t : Honest(undropTask(d, t))
  BY FoundHonest, AnswerHonest, RefuseHonest DEF undropTask, TaskUndrop
<1>5. \A d, t : Honest(deleteTask(d, t))
  BY FoundHonest, AnswerHonest, RefuseHonest DEF deleteTask, TaskDelete
<1>6. \A d, t, patch, cut : Honest(updateTask(d, t, patch, cut))
  BY FoundHonest, AnswerHonest, RefuseHonest DEF updateTask, TaskUpdate
<1>7. \A d, x, cut : Honest(createTask(d, x, cut))
  <2>1. \A d, x : Honest(CreateAt(d, x))
    BY FoundHonest, AnswerHonest, RefuseHonest DEF CreateAt, Insert
  <2> QED
    BY <2>1, StoppedHonest DEF createTask, TaskCreate
<1>8. \A d, t, to : Honest(moveTask(d, t, to))
  BY FoundHonest, AnswerHonest, RefuseHonest DEF moveTask, TaskMove, MoveTask
<1>9. \A d, t, f : Honest(convertTaskToProject(d, t, f))
  BY FoundHonest, AnswerHonest, RefuseHonest DEF convertTaskToProject, TaskConvertToProject
<1>10. \A d, t, pos : Honest(reorderTask(d, t, pos))
  BY FoundHonest, AnswerHonest, RefuseHonest DEF reorderTask, TaskReorder, MoveTask
<1>11. \A d, t, to, all, cut : Honest(duplicateTask(d, t, to, all, cut))
  <2>1. \A d, t, S, at, cut : Honest(Copied(d, t, S, at, cut))
    BY AnswerHonest DEF Copied
  <2>2. \A d, t, S, at, cut : Honest(IF cut THEN Stopped(Copied(d, t, S, at, cut)) ELSE Copied(d, t, S, at, cut))
    BY <2>1, StoppedHonest
  <2> QED
    BY <2>2, FoundHonest DEF duplicateTask, TaskDuplicate
<1>12. \A d, t, alarms : Honest(setTaskAlarms(d, t, alarms))
  BY FoundHonest, AnswerHonest, RefuseHonest DEF setTaskAlarms, TaskSetAlarms
<1>13. \A d, t : Honest(clearTaskAlarms(d, t))
  BY FoundHonest, AnswerHonest, RefuseHonest DEF clearTaskAlarms, TaskClearAlarms
<1> QED
  BY <1>1, <1>2, <1>3, <1>4, <1>5, <1>6, <1>7, <1>8, <1>9, <1>10, <1>11, <1>12, <1>13

\* Several tasks or projects.
LEMMA BatchWrites ==
    /\ \A d, x : Honest(batchCreateTasks(d, x))
    /\ \A d, x : Honest(batchUpdateTasks(d, x))
    /\ \A d, x : Honest(batchCompleteTasks(d, x))
    /\ \A d, x : Honest(batchUncompleteTasks(d, x))
    /\ \A d, x : Honest(batchDeleteTasks(d, x))
    /\ \A d, x : Honest(batchDropTasks(d, x))
    /\ \A d, x : Honest(batchUndropTasks(d, x))
    /\ \A d, x : Honest(batchMoveTasks(d, x))
    /\ \A d, x : Honest(batchCompleteProjects(d, x))
    /\ \A d, x : Honest(batchDropProjects(d, x))
<1>1. \A d, x : Honest(batchCreateTasks(d, x))
  BY AnswerHonest, ZenonT(40) DEF batchCreateTasks, TaskBatchCreate, BatchScript, EachItem
<1>2. \A d, x : Honest(batchUpdateTasks(d, x))
  BY AnswerHonest DEF batchUpdateTasks, TaskBatchUpdate, BatchScript, EachItem
<1>3. \A d, x : Honest(batchCompleteTasks(d, x))
  BY AnswerHonest DEF batchCompleteTasks, TaskBatchComplete, BatchScript, EachItem
<1>4. \A d, x : Honest(batchUncompleteTasks(d, x))
  BY AnswerHonest DEF batchUncompleteTasks, TaskBatchUncomplete, BatchScript, EachItem
<1>5. \A d, x : Honest(batchDeleteTasks(d, x))
  BY AnswerHonest DEF batchDeleteTasks, TaskBatchDelete, BatchScript, EachItem
<1>6. \A d, x : Honest(batchDropTasks(d, x))
  BY AnswerHonest DEF batchDropTasks, TaskBatchDrop, BatchScript, EachItem
<1>7. \A d, x : Honest(batchUndropTasks(d, x))
  BY AnswerHonest DEF batchUndropTasks, TaskBatchUndrop, BatchScript, EachItem
<1>8. \A d, x : Honest(batchMoveTasks(d, x))
  BY AnswerHonest DEF batchMoveTasks, TaskBatchMove, BatchScript, EachItem
<1>9. \A d, x : Honest(batchCompleteProjects(d, x))
  BY AnswerHonest DEF batchCompleteProjects, ProjectBatchComplete, BatchScript, EachItem
<1>10. \A d, x : Honest(batchDropProjects(d, x))
  BY AnswerHonest DEF batchDropProjects, ProjectBatchDrop, BatchScript, EachItem
<1> QED
  BY <1>1, <1>2, <1>3, <1>4, <1>5, <1>6, <1>7, <1>8, <1>9, <1>10

\* Projects, tags, folders, notes.
LEMMA LibraryWrites ==
    /\ \A d, x, stuck : Honest(createProject(d, x, stuck))
    /\ \A d, p, patch, cut : Honest(updateProject(d, p, patch, cut))
    /\ \A d, p : Honest(completeProject(d, p))
    /\ \A d, p : Honest(dropProject(d, p))
    /\ \A d, p, f : Honest(moveProject(d, p, f))
    /\ \A d, p : Honest(deleteProject(d, p))
    /\ \A d, p : Honest(markProjectReviewed(d, p))
    /\ \A d, p, n : Honest(setProjectReviewInterval(d, p, n))
    /\ \A d, p, n : Honest(setProjectNextReviewDate(d, p, n))
    /\ \A d, x : Honest(createTag(d, x))
    /\ \A d, x, patch : Honest(updateTag(d, x, patch))
    /\ \A d, x : Honest(deleteTag(d, x))
    /\ \A d, x : Honest(createFolder(d, x))
    /\ \A d, x, patch : Honest(updateFolder(d, x, patch))
    /\ \A d, x : Honest(deleteFolder(d, x))
<1>1. \A d, x, stuck : Honest(createProject(d, x, stuck))
  BY FoundHonest, AnswerHonest, RefuseHonest DEF createProject, ProjectCreate
<1>2. \A d, p, patch, cut : Honest(updateProject(d, p, patch, cut))
  BY FoundHonest, AnswerHonest, RefuseHonest DEF updateProject, ProjectUpdate
<1>3. \A d, p : Honest(completeProject(d, p))
  BY FoundHonest, AnswerHonest, RefuseHonest DEF completeProject, ProjectComplete, SetProject
<1>4. \A d, p : Honest(dropProject(d, p))
  BY FoundHonest, AnswerHonest, RefuseHonest DEF dropProject, ProjectDrop, SetProject
<1>5. \A d, p, f : Honest(moveProject(d, p, f))
  BY FoundHonest, AnswerHonest, RefuseHonest DEF moveProject, ProjectMove, SetProject
<1>6. \A d, p : Honest(deleteProject(d, p))
  BY FoundHonest, AnswerHonest, RefuseHonest DEF deleteProject, ProjectDelete
<1>7. \A d, p : Honest(markProjectReviewed(d, p))
  BY FoundHonest, AnswerHonest, RefuseHonest DEF markProjectReviewed, ProjectMarkReviewed
<1>8. \A d, p, n : Honest(setProjectReviewInterval(d, p, n))
  BY FoundHonest, AnswerHonest, RefuseHonest
     DEF setProjectReviewInterval, ProjectSetReviewInterval, SetProject
<1>9. \A d, p, n : Honest(setProjectNextReviewDate(d, p, n))
  BY FoundHonest, AnswerHonest, RefuseHonest
     DEF setProjectNextReviewDate, ProjectSetNextReviewDate, SetProject
<1>10. \A d, x : Honest(createTag(d, x))
  BY FoundHonest, AnswerHonest, RefuseHonest DEF createTag, TagCreate
<1>11. \A d, x, patch : Honest(updateTag(d, x, patch))
  BY FoundHonest, AnswerHonest, RefuseHonest DEF updateTag, TagUpdate
<1>12. \A d, x : Honest(deleteTag(d, x))
  BY FoundHonest, AnswerHonest, RefuseHonest DEF deleteTag, TagDelete
<1>13. \A d, x : Honest(createFolder(d, x))
  BY FoundHonest, AnswerHonest, RefuseHonest DEF createFolder, FolderCreate
<1>14. \A d, x, patch : Honest(updateFolder(d, x, patch))
  BY FoundHonest, AnswerHonest, RefuseHonest DEF updateFolder, FolderUpdate, FolderGet
<1>15. \A d, x : Honest(deleteFolder(d, x))
  BY FoundHonest, AnswerHonest, RefuseHonest DEF deleteFolder, FolderDelete
<1> QED
  BY <1>1, <1>2, <1>3, <1>4, <1>5, <1>6, <1>7, <1>8, <1>9, <1>10, <1>11, <1>12, <1>13, <1>14,
     <1>15

\* The creations and the updates of these tools, which are done or refused as a whole.
LEMMA PlainWrites ==
    /\ \A d, x : Honest(createTask(d, x, FALSE))
    /\ \A d, p, patch : Honest(updateProject(d, p, patch, FALSE))
<1>1. \A d, x : Honest(createTask(d, x, FALSE))
  BY TaskWrites, Zenon
<1>2. \A d, p, patch : Honest(updateProject(d, p, patch, FALSE))
  BY LibraryWrites, Zenon
<1> QED
  BY <1>1, <1>2

\* Perspectives, attachments, windows, undo and redo; reading ones among them.
LEMMA OtherRequests ==
    /\ \A d : Honest(getForecastTagWithName(d))
    /\ \A d, x : Honest(setForecastTagWithName(d, x))
    /\ \A d : Honest(listPerspectives(d))
    /\ \A d, x : Honest(evaluatePerspective(d, x))
    /\ \A d, x : Honest(getCustomPerspective(d, x))
    /\ \A d, x : Honest(evaluateCustomPerspective(d, x))
    /\ \A d, x, fault : Honest(evaluatePerspectiveRules(d, x, fault))
    /\ \A d, x : Honest(deleteCustomPerspective(d, x))
    /\ \A d, x : Honest(createCustomPerspective(d, x, "no"))
    /\ \A d, x, patch : Honest(updateCustomPerspective(d, x, patch, "no"))
    /\ \A d, o : Honest(addAttachment(d, o))
    /\ \A d, o, x : Honest(removeAttachment(d, o, x))
    /\ \A d, o, x, path, more : Honest(saveAttachmentToPath(d, o, x, path, more))
    /\ \A d : Honest(getWindowState(d))
    /\ \A d, x : Honest(setWindowFocus(d, x))
    /\ \A d, x : Honest(setWindowPerspective(d, x))
    /\ \A d, x : Honest(undoLastMutation(d, x))
    /\ \A d, x : Honest(redoLastMutation(d, x))
<1>1. \A d : Honest(getForecastTagWithName(d))
  BY FoundHonest, AnswerHonest, RefuseHonest DEF getForecastTagWithName, ForecastTagWithName
<1>2. \A d, x : Honest(setForecastTagWithName(d, x))
  BY FoundHonest, AnswerHonest, RefuseHonest DEF setForecastTagWithName, ForecastTagSetWithName
<1>3. \A d : Honest(listPerspectives(d))
  BY FoundHonest, AnswerHonest, RefuseHonest DEF listPerspectives, PerspectiveList
<1>4. \A d, x : Honest(evaluatePerspective(d, x))
  BY FoundHonest, AnswerHonest, RefuseHonest DEF evaluatePerspective, PerspectiveEvaluate
<1>5. \A d, x : Honest(getCustomPerspective(d, x))
  BY FoundHonest, AnswerHonest, RefuseHonest DEF getCustomPerspective, PerspectiveGet
<1>6. \A d, x : Honest(evaluateCustomPerspective(d, x))
  BY FoundHonest, AnswerHonest, RefuseHonest
     DEF evaluateCustomPerspective, PerspectiveEvaluateCustom
<1>7. \A d, x, fault : Honest(evaluatePerspectiveRules(d, x, fault))
  BY FoundHonest, AnswerHonest, RefuseHonest
     DEF evaluatePerspectiveRules, PerspectiveEvaluateDryRun
<1>8. \A d, x : Honest(deleteCustomPerspective(d, x))
  BY FoundHonest, AnswerHonest, RefuseHonest DEF deleteCustomPerspective, PerspectiveDelete
<1>9. \A d, o : Honest(addAttachment(d, o))
  BY FoundHonest, AnswerHonest, RefuseHonest DEF addAttachment, AttachmentAdd, Owner
<1>10. \A d, o, x : Honest(removeAttachment(d, o, x))
  BY FoundHonest, AnswerHonest, RefuseHonest DEF removeAttachment, AttachmentRemove, Owner
<1>11. \A d, o, x, path, more : Honest(saveAttachmentToPath(d, o, x, path, more))
  BY FoundHonest, AnswerHonest, RefuseHonest DEF saveAttachmentToPath, AttachmentSaveToPath, Owner
<1>12. \A d : Honest(getWindowState(d))
  BY FoundHonest, AnswerHonest, RefuseHonest DEF getWindowState, WindowGetState, WithWindow
<1>13. \A d, x : Honest(setWindowFocus(d, x))
  BY FoundHonest, AnswerHonest, RefuseHonest DEF setWindowFocus, WindowSetFocus, WithWindow
<1>14. \A d, x : Honest(setWindowPerspective(d, x))
  BY FoundHonest, AnswerHonest, RefuseHonest
     DEF setWindowPerspective, WindowSetPerspective, WithWindow
<1>15. \A d, x : Honest(undoLastMutation(d, x))
  BY FoundHonest, AnswerHonest, RefuseHonest DEF undoLastMutation, DatabaseUndo
<1>16. \A d, x : Honest(redoLastMutation(d, x))
  BY FoundHonest, AnswerHonest, RefuseHonest DEF redoLastMutation, DatabaseRedo
<1>17. \A d, x : Honest(createCustomPerspective(d, x, "no"))
  BY AnswerHonest, RefuseHonest DEF createCustomPerspective, PerspectiveCreate
<1>18. \A d, x, patch : Honest(updateCustomPerspective(d, x, patch, "no"))
  BY FoundHonest, AnswerHonest, RefuseHonest DEF updateCustomPerspective, PerspectiveUpdate
<1> QED
  BY <1>1, <1>2, <1>3, <1>4, <1>5, <1>6, <1>7, <1>8, <1>9, <1>10, <1>11, <1>12, <1>13, <1>14,
     <1>15, <1>16, <1>17, <1>18

-----------------------------------------------------------------------------
\* A step that neither declines nor asks anything back.
Works(s) ==
    /\ s.kind = "reply" => s.code \notin Declines
    /\ s.kind # "clarify"
    /\ s.kind \in {"ask", "try"} => Honest(s.does)

\* A step that leaves the document alone.
Looks(s, d) == s.kind \in {"ask", "try"} => Looking(s.does, d)

\* The ways to write a step (ToolCalls).
LEMMA WorkingSteps ==
    /\ \A r : Honest(r) => Works(Ask(r)) /\ Works(Try(r))
    /\ \A S, r : Honest(r) => Works(Flush(S, Ask(r))) /\ Works(Flush(S, Try(r)))
    /\ \A k : Works(Cached(k))
    /\ \A v : Works(Same(v))
    /\ \A S, v : Works(Done(S, v)) /\ Works(Flush(S, Same(v)))
    /\ \A code : code \notin Declines => Works(Fail(code))
    /\ {"Validation", "NotFound", "Script", "Exists"} \cap Declines = {}
<1>1. \A r : Honest(r) => Works(Ask(r)) /\ Works(Try(r))
  BY DEF Works, Ask, Try
<1>2. \A S, r : Honest(r) => Works(Flush(S, Ask(r))) /\ Works(Flush(S, Try(r)))
  BY DEF Works, Flush, Ask, Try
<1>3. \A k : Works(Cached(k))
  BY DEF Works, Cached
<1>4. \A v : Works(Same(v))
  BY DEF Works, Same, Reply, Declines
<1>5. \A S, v : Works(Done(S, v)) /\ Works(Flush(S, Same(v)))
  BY DEF Works, Done, Same, Flush, Reply, Declines
<1>6. \A code : code \notin Declines => Works(Fail(code))
  BY DEF Works, Fail, Reply
<1>7. {"Validation", "NotFound", "Script", "Exists"} \cap Declines = {}
  BY DEF Declines
<1> QED
  BY <1>1, <1>2, <1>3, <1>4, <1>5, <1>6, <1>7

\* Whatever answers, and every reading request, looks.
LEMMA LookingSteps ==
    /\ \A d, r : Looking(r, d) => Looks(Ask(r), d) /\ Looks(Try(r), d)
    /\ \A d, k : Looks(Cached(k), d)
    /\ \A d, code, v : Looks(Reply(code, v), d)
    /\ \A d, v : Looks(Preview(v), d)
    /\ \A d, code : Looks(Fail(code), d)
    /\ \A d : Looks(NoChange, d)
    /\ \A d, c : Looks(Clarify(c), d)
BY DEF Looks, Ask, Try, Cached, Reply, Preview, Fail, NoChange, Clarify

\* Who only looks does not answer for a tool.
LEMMA LookingIsHonest == \A r, d : Looking(r, d) => Honest(r)
BY DEF Looking

-----------------------------------------------------------------------------
\* The tools that never decline.

\* src/tools/task, the writing ones.
LEMMA TaskToolsWork ==
    ASSUME NEW d, NEW a, NEW g
    PROVE  /\ Works(doComplete(d, a, g))
           /\ Works(task_create(d, a, g))
           /\ Works(task_duplicate(d, a, g))
           /\ Works(task_reorder(d, a, g))
           /\ Works(task_convert_to_project(d, a, g))
           /\ Works(task_clear_alarms(d, a, g))
           /\ Works(task_set_repetition(d, a, g))
           /\ Works(task_clear_repetition(d, a, g))
           /\ Works(task_set_alarms(d, a, g))
           /\ Works(task_set_waiting_on(d, a, g))
<1>1. Works(doComplete(d, a, g))
  BY TaskReads, LibraryReads, LookingIsHonest, TaskWrites, LibraryWrites, WorkingSteps
     DEF doComplete
<1>2. Works(task_create(d, a, g))
  BY TaskReads, LibraryReads, LookingIsHonest, TaskWrites, LibraryWrites, WorkingSteps
     DEF task_create
<1>3. Works(task_duplicate(d, a, g))
  BY TaskReads, LibraryReads, LookingIsHonest, TaskWrites, LibraryWrites, WorkingSteps
     DEF task_duplicate
<1>4. Works(task_reorder(d, a, g))
  BY TaskReads, LibraryReads, LookingIsHonest, TaskWrites, LibraryWrites, WorkingSteps
     DEF task_reorder
<1>5. Works(task_convert_to_project(d, a, g))
  BY TaskReads, LibraryReads, LookingIsHonest, TaskWrites, LibraryWrites, WorkingSteps
     DEF task_convert_to_project
<1>6. Works(task_clear_alarms(d, a, g))
  BY TaskReads, LibraryReads, LookingIsHonest, TaskWrites, LibraryWrites, WorkingSteps
     DEF task_clear_alarms, WriteThenRead
<1>7. Works(task_set_repetition(d, a, g))
  BY TaskReads, LibraryReads, LookingIsHonest, TaskWrites, LibraryWrites, WorkingSteps
     DEF task_set_repetition, WriteThenRead
<1>8. Works(task_clear_repetition(d, a, g))
  BY TaskReads, LibraryReads, LookingIsHonest, TaskWrites, LibraryWrites, WorkingSteps
     DEF task_clear_repetition, WriteThenRead
<1>9. Works(task_set_alarms(d, a, g))
  BY TaskReads, LibraryReads, LookingIsHonest, TaskWrites, LibraryWrites, WorkingSteps
     DEF task_set_alarms
<1>10. Works(task_set_waiting_on(d, a, g))
  BY TaskReads, LibraryReads, LookingIsHonest, TaskWrites, LibraryWrites, WorkingSteps
     DEF task_set_waiting_on
<1> QED
  BY <1>1, <1>2, <1>3, <1>4, <1>5, <1>6, <1>7, <1>8, <1>9, <1>10

\* src/tools/task, the reading ones.
LEMMA TaskReadersWork ==
    ASSUME NEW d, NEW a, NEW g
    PROVE  /\ Works(task_get(d, a, g))
           /\ Works(task_get_many(d, a, g))
           /\ Works(task_list(d, a, g))
           /\ Works(task_search(d, a, g))
           /\ Works(search_query(d, a, g))
           /\ Works(task_find_by_name(d, a, g))
           /\ Works(task_find_similar(d, a, g))
<1>1. Works(task_get(d, a, g))
  BY TaskReads, LibraryReads, LookingIsHonest, WorkingSteps DEF task_get, Read
<1>2. Works(task_get_many(d, a, g))
  BY TaskReads, LibraryReads, LookingIsHonest, WorkingSteps DEF task_get_many, Read
<1>3. Works(task_list(d, a, g))
  BY TaskReads, LibraryReads, LookingIsHonest, WorkingSteps DEF task_list, Read
<1>4. Works(task_search(d, a, g))
  BY TaskReads, LibraryReads, LookingIsHonest, WorkingSteps DEF task_search, Read
<1>5. Works(search_query(d, a, g))
  BY TaskReads, LibraryReads, LookingIsHonest, WorkingSteps DEF search_query, Read
<1>6. Works(task_find_by_name(d, a, g))
  BY TaskReads, LibraryReads, LookingIsHonest, WorkingSteps DEF task_find_by_name, Read
<1>7. Works(task_find_similar(d, a, g))
  BY TaskReads, LibraryReads, LookingIsHonest, WorkingSteps DEF task_find_similar
<1> QED
  BY <1>1, <1>2, <1>3, <1>4, <1>5, <1>6, <1>7

\* src/tools/task and src/tools/project, the batches.
LEMMA BatchToolsWork ==
    ASSUME NEW d, NEW a, NEW g
    PROVE  /\ Works(task_batch_complete(d, a, g))
           /\ Works(task_batch_uncomplete(d, a, g))
           /\ Works(task_batch_delete(d, a, g))
           /\ Works(task_batch_drop(d, a, g))
           /\ Works(task_batch_undrop(d, a, g))
           /\ Works(task_batch_update(d, a, g))
           /\ Works(task_batch_move(d, a, g))
           /\ Works(task_batch_create(d, a, g))
           /\ Works(project_batch_complete(d, a, g))
           /\ Works(project_batch_drop(d, a, g))
           /\ Works(task_batch_assign(d, a, g))
<1>1. Works(task_batch_complete(d, a, g))
  BY TaskReads, LibraryReads, LookingIsHonest, BatchWrites, WorkingSteps
     DEF task_batch_complete, Batch
<1>2. Works(task_batch_uncomplete(d, a, g))
  BY TaskReads, LibraryReads, LookingIsHonest, BatchWrites, WorkingSteps
     DEF task_batch_uncomplete, Batch
<1>3. Works(task_batch_delete(d, a, g))
  BY TaskReads, LibraryReads, LookingIsHonest, BatchWrites, WorkingSteps
     DEF task_batch_delete, Batch
<1>4. Works(task_batch_drop(d, a, g))
  BY TaskReads, LibraryReads, LookingIsHonest, BatchWrites, WorkingSteps
     DEF task_batch_drop, Batch
<1>5. Works(task_batch_undrop(d, a, g))
  BY TaskReads, LibraryReads, LookingIsHonest, BatchWrites, WorkingSteps
     DEF task_batch_undrop, Batch
<1>6. Works(task_batch_update(d, a, g))
  BY TaskReads, LibraryReads, LookingIsHonest, BatchWrites, WorkingSteps
     DEF task_batch_update, Batch
<1>7. Works(task_batch_move(d, a, g))
  BY TaskReads, LibraryReads, LookingIsHonest, BatchWrites, WorkingSteps
     DEF task_batch_move, Batch
<1>8. Works(task_batch_create(d, a, g))
  BY TaskReads, LibraryReads, LookingIsHonest, BatchWrites, WorkingSteps DEF task_batch_create
<1>9. Works(project_batch_complete(d, a, g))
  BY TaskReads, LibraryReads, LookingIsHonest, BatchWrites, WorkingSteps
     DEF project_batch_complete, ProjectsBatch
<1>10. Works(project_batch_drop(d, a, g))
  BY TaskReads, LibraryReads, LookingIsHonest, BatchWrites, WorkingSteps
     DEF project_batch_drop, ProjectsBatch
<1>11. Works(task_batch_assign(d, a, g))
  BY TaskReads, LibraryReads, LookingIsHonest, BatchWrites, WorkingSteps DEF task_batch_assign
<1> QED
  BY <1>1, <1>2, <1>3, <1>4, <1>5, <1>6, <1>7, <1>8, <1>9, <1>10, <1>11

\* src/tools/note, project, review, tag and folder.
LEMMA LibraryToolsWork ==
    ASSUME NEW d, NEW a, NEW g
    PROVE  /\ Works(note_append(d, a, g))
           /\ Works(note_set(d, a, g))
           /\ Works(note_set_html(d, a, g))
           /\ Works(note_get(d, a, g))
           /\ Works(note_get_html(d, a, g))
           /\ Works(decision_record(d, a, g))
           /\ Works(project_complete(d, a, g))
           /\ Works(project_drop(d, a, g))
           /\ Works(project_move(d, a, g))
           /\ Works(doCreate(d, a, g))
           /\ Works(keepProject(d, a, g))
           /\ Works(project_get(d, a, g))
           /\ Works(project_get_many(d, a, g))
           /\ Works(project_list(d, a, g))
           /\ Works(review_list_due(d, a, g))
           /\ Works(review_mark_reviewed(d, a, g))
           /\ Works(review_set_interval(d, a, g))
           /\ Works(project_mark_reviewed(d, a, g))
           /\ Works(project_set_next_review_date(d, a, g))
           /\ Works(tag_create(d, a, g))
           /\ Works(tag_update(d, a, g))
           /\ Works(tag_move(d, a, g))
           /\ Works(tag_set_status(d, a, g))
           /\ Works(tag_set_allows_next_action(d, a, g))
           /\ Works(tag_set_location(d, a, g))
           /\ Works(tag_get_location(d, a, g))
           /\ Works(tag_delete(d, a, g))
           /\ Works(tag_get(d, a, g))
           /\ Works(tag_get_many(d, a, g))
           /\ Works(tag_list(d, a, g))
           /\ Works(folder_create(d, a, g))
           /\ Works(folder_update(d, a, g))
           /\ Works(folder_move(d, a, g))
           /\ Works(folder_get(d, a, g))
           /\ Works(folder_list(d, a, g))
<1>1. Works(note_append(d, a, g))
  BY TaskReads, LibraryReads, LookingIsHonest, TaskWrites, LibraryWrites, WorkingSteps
     DEF note_append, NewNote, ReadWrite, OwnerOf, SetOwner
<1>2. Works(note_set(d, a, g))
  BY TaskReads, LibraryReads, LookingIsHonest, TaskWrites, LibraryWrites, WorkingSteps
     DEF note_set, NewNote, ReadWrite, OwnerOf, SetOwner
<1>3. Works(note_set_html(d, a, g))
  BY TaskReads, LibraryReads, LookingIsHonest, TaskWrites, LibraryWrites, WorkingSteps
     DEF note_set_html, NewNote, ReadWrite, OwnerOf, SetOwner
<1>4. Works(note_get(d, a, g))
  BY TaskReads, LibraryReads, LookingIsHonest, TaskWrites, LibraryWrites, WorkingSteps
     DEF note_get, Read, OwnerOf
<1>5. Works(note_get_html(d, a, g))
  BY TaskReads, LibraryReads, LookingIsHonest, TaskWrites, LibraryWrites, WorkingSteps
     DEF note_get_html, Read
<1>6. Works(decision_record(d, a, g))
  BY TaskReads, LibraryReads, LookingIsHonest, TaskWrites, LibraryWrites, WorkingSteps
     DEF decision_record, NewNote, ReadWrite, OwnerOf, SetOwner
<1>7. Works(project_complete(d, a, g))
  BY TaskReads, LibraryReads, LookingIsHonest, TaskWrites, LibraryWrites, WorkingSteps
     DEF project_complete, ProjectChange, ReadWrite
<1>8. Works(project_drop(d, a, g))
  BY TaskReads, LibraryReads, LookingIsHonest, TaskWrites, LibraryWrites, WorkingSteps
     DEF project_drop, ProjectChange, ReadWrite
<1>9. Works(project_move(d, a, g))
  BY TaskReads, LibraryReads, LookingIsHonest, TaskWrites, LibraryWrites, WorkingSteps
     DEF project_move, ProjectChange, ReadWrite
<1>10. Works(doCreate(d, a, g))
  BY TaskReads, LibraryReads, LookingIsHonest, TaskWrites, LibraryWrites, WorkingSteps
     DEF doCreate
<1>11. Works(keepProject(d, a, g))
  BY TaskReads, LibraryReads, LookingIsHonest, TaskWrites, LibraryWrites, WorkingSteps
     DEF keepProject
<1>12. Works(project_get(d, a, g))
  BY TaskReads, LibraryReads, LookingIsHonest, TaskWrites, LibraryWrites, WorkingSteps
     DEF project_get, Read
<1>13. Works(project_get_many(d, a, g))
  BY TaskReads, LibraryReads, LookingIsHonest, TaskWrites, LibraryWrites, WorkingSteps
     DEF project_get_many, ReadMany, Read
<1>14. Works(project_list(d, a, g))
  BY TaskReads, LibraryReads, LookingIsHonest, TaskWrites, LibraryWrites, WorkingSteps
     DEF project_list, Read
<1>15. Works(review_list_due(d, a, g))
  BY TaskReads, LibraryReads, LookingIsHonest, TaskWrites, LibraryWrites, WorkingSteps
     DEF review_list_due, Read
<1>16. Works(review_mark_reviewed(d, a, g))
  BY TaskReads, LibraryReads, LookingIsHonest, TaskWrites, LibraryWrites, WorkingSteps
     DEF review_mark_reviewed, Reviewed
<1>17. Works(review_set_interval(d, a, g))
  BY TaskReads, LibraryReads, LookingIsHonest, TaskWrites, LibraryWrites, WorkingSteps
     DEF review_set_interval, Reviewed
<1>18. Works(project_mark_reviewed(d, a, g))
  BY TaskReads, LibraryReads, LookingIsHonest, TaskWrites, LibraryWrites, WorkingSteps
     DEF project_mark_reviewed, Reviewed
<1>19. Works(project_set_next_review_date(d, a, g))
  BY TaskReads, LibraryReads, LookingIsHonest, TaskWrites, LibraryWrites, WorkingSteps
     DEF project_set_next_review_date, Reviewed
<1>20. Works(tag_create(d, a, g))
  BY TaskReads, LibraryReads, LookingIsHonest, TaskWrites, LibraryWrites, WorkingSteps
     DEF tag_create, WriteRead
<1>21. Works(tag_update(d, a, g))
  BY TaskReads, LibraryReads, LookingIsHonest, TaskWrites, LibraryWrites, WorkingSteps
     DEF tag_update, SetTag, WriteRead
<1>22. Works(tag_move(d, a, g))
  BY TaskReads, LibraryReads, LookingIsHonest, TaskWrites, LibraryWrites, WorkingSteps
     DEF tag_move, SetTag, WriteRead
<1>23. Works(tag_set_status(d, a, g))
  BY TaskReads, LibraryReads, LookingIsHonest, TaskWrites, LibraryWrites, WorkingSteps
     DEF tag_set_status, SetTag, WriteRead
<1>24. Works(tag_set_allows_next_action(d, a, g))
  BY TaskReads, LibraryReads, LookingIsHonest, TaskWrites, LibraryWrites, WorkingSteps
     DEF tag_set_allows_next_action, SetTag, WriteRead
<1>25. Works(tag_set_location(d, a, g))
  BY TaskReads, LibraryReads, LookingIsHonest, TaskWrites, LibraryWrites, WorkingSteps
     DEF tag_set_location, SetTag, WriteRead
<1>26. Works(tag_get_location(d, a, g))
  BY TaskReads, LibraryReads, LookingIsHonest, TaskWrites, LibraryWrites, WorkingSteps
     DEF tag_get_location, Read
<1>27. Works(tag_delete(d, a, g))
  BY TaskReads, LibraryReads, LookingIsHonest, TaskWrites, LibraryWrites, WorkingSteps
     DEF tag_delete
<1>28. Works(tag_get(d, a, g))
  BY TaskReads, LibraryReads, LookingIsHonest, TaskWrites, LibraryWrites, WorkingSteps
     DEF tag_get, Read
<1>29. Works(tag_get_many(d, a, g))
  BY TaskReads, LibraryReads, LookingIsHonest, TaskWrites, LibraryWrites, WorkingSteps
     DEF tag_get_many, ReadMany, Read
<1>30. Works(tag_list(d, a, g))
  BY TaskReads, LibraryReads, LookingIsHonest, TaskWrites, LibraryWrites, WorkingSteps
     DEF tag_list, Read
<1>31. Works(folder_create(d, a, g))
  BY TaskReads, LibraryReads, LookingIsHonest, TaskWrites, LibraryWrites, WorkingSteps
     DEF folder_create, WriteRead
<1>32. Works(folder_update(d, a, g))
  BY TaskReads, LibraryReads, LookingIsHonest, TaskWrites, LibraryWrites, WorkingSteps
     DEF folder_update, SetFolder, WriteRead
<1>33. Works(folder_move(d, a, g))
  BY TaskReads, LibraryReads, LookingIsHonest, TaskWrites, LibraryWrites, WorkingSteps
     DEF folder_move, SetFolder, WriteRead
<1>34. Works(folder_get(d, a, g))
  BY TaskReads, LibraryReads, LookingIsHonest, TaskWrites, LibraryWrites, WorkingSteps
     DEF folder_get, Read
<1>35. Works(folder_list(d, a, g))
  BY TaskReads, LibraryReads, LookingIsHonest, TaskWrites, LibraryWrites, WorkingSteps
     DEF folder_list, Read
<1> QED
  BY <1>1, <1>2, <1>3, <1>4, <1>5, <1>6, <1>7, <1>8, <1>9, <1>10, <1>11, <1>12, <1>13, <1>14,
     <1>15, <1>16, <1>17, <1>18, <1>19, <1>20, <1>21, <1>22, <1>23, <1>24, <1>25, <1>26, <1>27,
     <1>28, <1>29, <1>30, <1>31, <1>32, <1>33, <1>34, <1>35

\* src/tools/forecast, perspective, database, attachment, window and sync.
LEMMA OtherToolsWork ==
    ASSUME NEW d, NEW a, NEW g
    PROVE  /\ Works(forecast_get(d, a, g))
           /\ Works(forecast_pack(d, a, g))
           /\ Works(forecast_get_tag(d, a, g))
           /\ Works(forecast_set_tag(d, a, g))
           /\ Works(perspective_create(d, a, g))
           /\ Works(perspective_update(d, a, g))
           /\ Works(perspective_delete(d, a, g))
           /\ Works(perspective_evaluate(d, a, g))
           /\ Works(perspective_evaluate_dry_run(d, a, g))
           /\ Works(perspective_get(d, a, g))
           /\ Works(perspective_list(d, a, g))
           /\ Works(database_undo(d, a, g))
           /\ Works(database_redo(d, a, g))
           /\ Works(attachment_list(d, a, g))
           /\ Works(attachment_create(d, a, g))
           /\ Works(attachment_delete(d, a, g))
           /\ Works(attachment_save_to_path(d, a, g))
           /\ Works(window_get_state(d, a, g))
           /\ Works(window_set_focus(d, a, g))
           /\ Works(window_set_perspective(d, a, g))
           /\ Works(sync_status(d, a, g))
           /\ Works(sync_trigger(d, a, g))
<1>1. Works(forecast_get(d, a, g))
  BY TaskReads, LibraryReads, LookingIsHonest, LibraryWrites, OtherRequests, AnswerHonest,
     WorkingSteps
     DEF forecast_get, Read
<1>2. Works(forecast_pack(d, a, g))
  BY TaskReads, LibraryReads, LookingIsHonest, LibraryWrites, OtherRequests, AnswerHonest,
     WorkingSteps
     DEF forecast_pack
<1>3. Works(forecast_get_tag(d, a, g))
  BY TaskReads, LibraryReads, LookingIsHonest, LibraryWrites, OtherRequests, AnswerHonest,
     WorkingSteps
     DEF forecast_get_tag, Read
<1>4. Works(forecast_set_tag(d, a, g))
  BY TaskReads, LibraryReads, LookingIsHonest, LibraryWrites, OtherRequests, AnswerHonest,
     WorkingSteps
     DEF forecast_set_tag, Written
<1>5. Works(perspective_create(d, a, g))
  BY TaskReads, LibraryReads, LookingIsHonest, LibraryWrites, OtherRequests, AnswerHonest,
     WorkingSteps
     DEF perspective_create, Written
<1>6. Works(perspective_update(d, a, g))
  BY TaskReads, LibraryReads, LookingIsHonest, LibraryWrites, OtherRequests, AnswerHonest,
     WorkingSteps
     DEF perspective_update, Written
<1>7. Works(perspective_delete(d, a, g))
  BY TaskReads, LibraryReads, LookingIsHonest, LibraryWrites, OtherRequests, AnswerHonest,
     WorkingSteps
     DEF perspective_delete, Written
<1>8. Works(perspective_evaluate(d, a, g))
  BY TaskReads, LibraryReads, LookingIsHonest, LibraryWrites, OtherRequests, AnswerHonest,
     WorkingSteps
     DEF perspective_evaluate, Read
<1>9. Works(perspective_evaluate_dry_run(d, a, g))
  BY TaskReads, LibraryReads, LookingIsHonest, LibraryWrites, OtherRequests, AnswerHonest,
     WorkingSteps
     DEF perspective_evaluate_dry_run, Read
<1>10. Works(perspective_get(d, a, g))
  BY TaskReads, LibraryReads, LookingIsHonest, LibraryWrites, OtherRequests, AnswerHonest,
     WorkingSteps
     DEF perspective_get, Read
<1>11. Works(perspective_list(d, a, g))
  BY TaskReads, LibraryReads, LookingIsHonest, LibraryWrites, OtherRequests, AnswerHonest,
     WorkingSteps
     DEF perspective_list, Read
<1>12. Works(database_undo(d, a, g))
  BY TaskReads, LibraryReads, LookingIsHonest, LibraryWrites, OtherRequests, AnswerHonest,
     WorkingSteps
     DEF database_undo, Undone
<1>13. Works(database_redo(d, a, g))
  BY TaskReads, LibraryReads, LookingIsHonest, LibraryWrites, OtherRequests, AnswerHonest,
     WorkingSteps
     DEF database_redo, Undone
<1>14. Works(attachment_list(d, a, g))
  BY TaskReads, LibraryReads, LookingIsHonest, LibraryWrites, OtherRequests, AnswerHonest,
     WorkingSteps
     DEF attachment_list, Read
<1>15. Works(attachment_create(d, a, g))
  BY TaskReads, LibraryReads, LookingIsHonest, LibraryWrites, OtherRequests, AnswerHonest,
     WorkingSteps
     DEF attachment_create, OwnerOf
<1>16. Works(attachment_delete(d, a, g))
  BY TaskReads, LibraryReads, LookingIsHonest, LibraryWrites, OtherRequests, AnswerHonest,
     WorkingSteps
     DEF attachment_delete, OwnerOf
<1>17. Works(attachment_save_to_path(d, a, g))
  BY TaskReads, LibraryReads, LookingIsHonest, LibraryWrites, OtherRequests, AnswerHonest,
     WorkingSteps
     DEF attachment_save_to_path, Read
<1>18. Works(window_get_state(d, a, g))
  BY TaskReads, LibraryReads, LookingIsHonest, LibraryWrites, OtherRequests, AnswerHonest,
     WorkingSteps
     DEF window_get_state, Read
<1>19. Works(window_set_focus(d, a, g))
  BY TaskReads, LibraryReads, LookingIsHonest, LibraryWrites, OtherRequests, AnswerHonest,
     WorkingSteps
     DEF window_set_focus, Read
<1>20. Works(window_set_perspective(d, a, g))
  BY TaskReads, LibraryReads, LookingIsHonest, LibraryWrites, OtherRequests, AnswerHonest,
     WorkingSteps
     DEF window_set_perspective, Read
<1>21. Works(sync_status(d, a, g))
  BY TaskReads, LibraryReads, LookingIsHonest, LibraryWrites, OtherRequests, AnswerHonest,
     WorkingSteps
     DEF sync_status, Read
<1>22. Works(sync_trigger(d, a, g))
  BY TaskReads, LibraryReads, LookingIsHonest, LibraryWrites, OtherRequests, AnswerHonest,
     WorkingSteps
     DEF sync_trigger, Written
<1> QED
  BY <1>1, <1>2, <1>3, <1>4, <1>5, <1>6, <1>7, <1>8, <1>9, <1>10, <1>11, <1>12, <1>13, <1>14,
     <1>15, <1>16, <1>17, <1>18, <1>19, <1>20, <1>21, <1>22

\* Exports, imports and templates.
LEMMA ExchangeToolsWork ==
    ASSUME NEW d, NEW a, NEW g
    PROVE  /\ Works(export_opml(d, a, g))
           /\ Works(export_taskpaper(d, a, g))
           /\ Works(import_taskpaper(d, a, g))
           /\ Works(import_opml(d, a, g))
           /\ Works(project_template_list(d, a, g))
           /\ Works(project_template_delete(d, a, g))
           /\ Works(project_template_instantiate(d, a, g))
           /\ Works(project_template_save(d, a, g))
<1>1. Works(export_opml(d, a, g))
  BY TaskReads, LibraryReads, LookingIsHonest, TaskWrites, LibraryWrites, WorkingSteps
     DEF export_opml, Export, Gather
<1>2. Works(export_taskpaper(d, a, g))
  BY TaskReads, LibraryReads, LookingIsHonest, TaskWrites, LibraryWrites, WorkingSteps
     DEF export_taskpaper, Export, Gather
<1>3. Works(import_taskpaper(d, a, g))
  BY TaskReads, LibraryReads, LookingIsHonest, TaskWrites, LibraryWrites, WorkingSteps
     DEF import_taskpaper, Import, Looked
<1>4. Works(import_opml(d, a, g))
  BY TaskReads, LibraryReads, LookingIsHonest, TaskWrites, LibraryWrites, WorkingSteps
     DEF import_opml, Import, Looked
<1>5. Works(project_template_list(d, a, g))
  BY TaskReads, LibraryReads, LookingIsHonest, TaskWrites, LibraryWrites, WorkingSteps
     DEF project_template_list, InTemplates
<1>6. Works(project_template_delete(d, a, g))
  BY TaskReads, LibraryReads, LookingIsHonest, TaskWrites, LibraryWrites, WorkingSteps
     DEF project_template_delete, InTemplates
<1>7. Works(project_template_instantiate(d, a, g))
  BY TaskReads, LibraryReads, LookingIsHonest, TaskWrites, LibraryWrites, WorkingSteps
     DEF project_template_instantiate, InTemplates, Import
<1>8. Works(project_template_save(d, a, g))
  BY TaskReads, LibraryReads, LookingIsHonest, TaskWrites, LibraryWrites, WorkingSteps
     DEF project_template_save, Gather
<1> QED
  BY <1>1, <1>2, <1>3, <1>4, <1>5, <1>6, <1>7, <1>8

-----------------------------------------------------------------------------
\* The tools that may decline.  Such a tool first looks, then decides, then
\* works: after n replies, with the decision after k of them.
Turns(s, d, n, k) ==
    /\ n < k => Looks(s, d)
    /\ n = k => Looks(s, d) \/ Works(s)
    /\ n > k => Works(s)

\* The answers that bring what tasks are extracted from.
NoteAnswers(a) == IF a.source.kind = "inline" THEN 0 ELSE 1
ImageAnswers(a) == IF a.source.kind = "path" THEN 0 ELSE 1

\* assertNotModifiedSince and dryRunGuard either decline or work.
LEMMA GuardedTurns ==
    \A d, a, row, v, r : Honest(r) =>
        LET s == Guarded(a, row, Preview(v), Ask(r)) IN Looks(s, d) \/ Works(s)
BY LookingSteps, WorkingSteps DEF Guarded, Fail

\* A change of a project that was read first.
LEMMA GuardedProjectTurns ==
    ASSUME NEW d, NEW a, NEW g, NEW n \in Nat, n = Len(g), NEW write, Honest(write)
    PROVE  Turns(GuardedProject(d, a, g, write), d, n, 1)
<1> DEFINE s == GuardedProject(d, a, g, write)
<1>1. n < 1 => Looks(s, d)
  BY LibraryReads, LookingSteps DEF GuardedProject
<1>2. n = 1 => Looks(s, d) \/ Works(s)
  BY GuardedTurns DEF GuardedProject
<1>3. n > 1 => Works(s)
  BY WorkingSteps DEF GuardedProject
<1> QED
  BY <1>1, <1>2, <1>3 DEF Turns

\* The tools that decide by what they have read.
LEMMA DecidingToolsTurn ==
    ASSUME NEW d, NEW a, NEW g, NEW n \in Nat, n = Len(g)
    PROVE  /\ Turns(task_uncomplete(d, a, g), d, n, 1)
           /\ Turns(task_drop(d, a, g), d, n, 1)
           /\ Turns(task_undrop(d, a, g), d, n, 1)
           /\ Turns(task_delete(d, a, g), d, n, 1)
           /\ Turns(task_move(d, a, g), d, n, 1)
           /\ Turns(task_update(d, a, g), d, n, 1)
           /\ Turns(task_defer_smart(d, a, g), d, n, 1)
           /\ Turns(task_clear_waiting_on(d, a, g), d, n, 2)
           /\ Turns(task_extract_from_note(d, a, g), d, n, NoteAnswers(a))
           /\ Turns(task_extract_from_image(d, a, g), d, n, ImageAnswers(a))
           /\ Turns(decision_clear(d, a, g), d, n, 1)
           /\ Turns(project_delete(d, a, g), d, n, 1)
           /\ Turns(project_update(d, a, g), d, n, 1)
<1>1. Turns(task_uncomplete(d, a, g), d, n, 1)
  <2>1. n < 1 => Looks(task_uncomplete(d, a, g), d)
    BY TaskReads, LookingSteps DEF task_uncomplete, Change
  <2>2. n = 1 => Looks(task_uncomplete(d, a, g), d) \/ Works(task_uncomplete(d, a, g))
    BY TaskWrites, LookingSteps, WorkingSteps DEF task_uncomplete, Change
  <2>3. n > 1 => Works(task_uncomplete(d, a, g))
    BY TaskWrites, WorkingSteps DEF task_uncomplete, Change
  <2> QED
    BY <2>1, <2>2, <2>3 DEF Turns
<1>2. Turns(task_drop(d, a, g), d, n, 1)
  <2>1. n < 1 => Looks(task_drop(d, a, g), d)
    BY TaskReads, LookingSteps DEF task_drop, Change
  <2>2. n = 1 => Looks(task_drop(d, a, g), d) \/ Works(task_drop(d, a, g))
    BY TaskWrites, LookingSteps, WorkingSteps DEF task_drop, Change
  <2>3. n > 1 => Works(task_drop(d, a, g))
    BY TaskWrites, WorkingSteps DEF task_drop, Change
  <2> QED
    BY <2>1, <2>2, <2>3 DEF Turns
<1>3. Turns(task_undrop(d, a, g), d, n, 1)
  <2>1. n < 1 => Looks(task_undrop(d, a, g), d)
    BY TaskReads, LookingSteps DEF task_undrop, Change
  <2>2. n = 1 => Looks(task_undrop(d, a, g), d) \/ Works(task_undrop(d, a, g))
    BY TaskWrites, LookingSteps, WorkingSteps DEF task_undrop, Change
  <2>3. n > 1 => Works(task_undrop(d, a, g))
    BY TaskWrites, WorkingSteps DEF task_undrop, Change
  <2> QED
    BY <2>1, <2>2, <2>3 DEF Turns
<1>4. Turns(task_delete(d, a, g), d, n, 1)
  <2>1. n < 1 => Looks(task_delete(d, a, g), d)
    BY TaskReads, LookingSteps DEF task_delete
  <2>2. n = 1 => Looks(task_delete(d, a, g), d) \/ Works(task_delete(d, a, g))
    BY GuardedTurns, TaskWrites, LookingSteps, WorkingSteps DEF task_delete
  <2>3. n > 1 => Works(task_delete(d, a, g))
    BY TaskWrites, WorkingSteps DEF task_delete
  <2> QED
    BY <2>1, <2>2, <2>3 DEF Turns
<1>5. Turns(task_move(d, a, g), d, n, 1)
  <2>1. n < 1 => Looks(task_move(d, a, g), d)
    BY TaskReads, LookingSteps DEF task_move
  <2>2. n = 1 => Looks(task_move(d, a, g), d) \/ Works(task_move(d, a, g))
    BY TaskWrites, LookingSteps, WorkingSteps DEF task_move
  <2>3. n > 1 => Works(task_move(d, a, g))
    BY TaskWrites, WorkingSteps DEF task_move
  <2> QED
    BY <2>1, <2>2, <2>3 DEF Turns
<1>6. Turns(task_update(d, a, g), d, n, 1)
  <2>1. n < 1 => Looks(task_update(d, a, g), d)
    BY TaskReads, LookingSteps DEF task_update
  <2>2. n = 1 => Looks(task_update(d, a, g), d) \/ Works(task_update(d, a, g))
    BY GuardedTurns, TaskWrites, LookingSteps, WorkingSteps DEF task_update
  <2>3. n > 1 => Works(task_update(d, a, g))
    BY TaskReads, LookingIsHonest, TaskWrites, WorkingSteps DEF task_update
  <2> QED
    BY <2>1, <2>2, <2>3 DEF Turns
<1>7. Turns(task_defer_smart(d, a, g), d, n, 1)
  <2>4. /\ n < 1 => Len(g) = 0
        /\ n = 1 => Len(g) # 0 /\ Len(g) = 1
        /\ n > 1 => Len(g) # 0 /\ Len(g) # 1
    OBVIOUS
  <2>1. n < 1 => Looks(task_defer_smart(d, a, g), d)
    BY <2>4, TaskReads, LookingSteps DEF task_defer_smart
  <2>2. n = 1 => Looks(task_defer_smart(d, a, g), d) \/ Works(task_defer_smart(d, a, g))
    BY <2>4, GuardedTurns, TaskWrites, LookingSteps, WorkingSteps DEF task_defer_smart
  <2>3. n > 1 => Works(task_defer_smart(d, a, g))
    BY <2>4, TaskWrites, WorkingSteps DEF task_defer_smart
  <2> QED
    BY <2>1, <2>2, <2>3 DEF Turns
<1>8. Turns(task_clear_waiting_on(d, a, g), d, n, 2)
  <2>4. /\ n < 2 => Len(g) = 0 \/ Len(g) = 1
        /\ n = 2 => Len(g) # 0 /\ Len(g) # 1 /\ Len(g) = 2
        /\ n > 2 => Len(g) # 0 /\ Len(g) # 1 /\ Len(g) # 2
    OBVIOUS
  <2>1. n < 2 => Looks(task_clear_waiting_on(d, a, g), d)
    BY <2>4, TaskReads, LibraryReads, LookingSteps DEF task_clear_waiting_on
  <2>2. n = 2 => Looks(task_clear_waiting_on(d, a, g), d) \/ Works(task_clear_waiting_on(d, a, g))
    BY <2>4, TaskWrites, LookingSteps, WorkingSteps DEF task_clear_waiting_on
  <2>3. n > 2 => Works(task_clear_waiting_on(d, a, g))
    BY <2>4, TaskReads, LibraryReads, LookingIsHonest, TaskWrites, WorkingSteps
       DEF task_clear_waiting_on
  <2> QED
    BY <2>1, <2>2, <2>3 DEF Turns
<1>9. Turns(task_extract_from_note(d, a, g), d, n, NoteAnswers(a))
  <2> DEFINE k == NoteAnswers(a)
  <2>1. n < k => Looks(task_extract_from_note(d, a, g), d)
    BY TaskReads, LibraryReads, LookingSteps DEF NoteAnswers, task_extract_from_note, Extracted
  <2>2. n = k => Looks(task_extract_from_note(d, a, g), d) \/ Works(task_extract_from_note(d, a, g))
    BY BatchWrites, LookingSteps, WorkingSteps DEF NoteAnswers, task_extract_from_note, Extracted
  <2>3. n > k => Works(task_extract_from_note(d, a, g))
    BY BatchWrites, WorkingSteps DEF NoteAnswers, task_extract_from_note, Extracted
  <2> QED
    BY <2>1, <2>2, <2>3 DEF Turns
<1>10. Turns(task_extract_from_image(d, a, g), d, n, ImageAnswers(a))
  <2> DEFINE k == ImageAnswers(a)
  <2>4. /\ n < k => a.source.kind # "path" /\ Len(g) = 0
        /\ n = k => ~(Len(g) < k)
        /\ n > k => ~(Len(g) < k) /\ Len(g) # k
    BY DEF ImageAnswers
  <2>1. n < k => Looks(task_extract_from_image(d, a, g), d)
    <3>1. a.source.kind # "path" /\ Len(g) = 0 => Looks(task_extract_from_image(d, a, g), d)
      BY LibraryReads, LookingSteps DEF task_extract_from_image
    <3> QED
      BY <2>4, <3>1
  <2>2. n = k => Looks(task_extract_from_image(d, a, g), d) \/ Works(task_extract_from_image(d, a, g))
    <3> DEFINE file == a.source.kind = "path"
               wrapped == a.attach = "parent-task"
               unusable == IF file THEN ~a.source.addable ELSE a.source.attachment \notin Val(g, 1)
               holder == [blank |-> FALSE, project |-> a.project, parent |-> None, fields |-> Nothing]
               first == Ask(createTask(d, holder, FALSE))
               rest == Ask(batchCreateTasks(d, InProject(a.confirmed, a.project)))
    <3>1. Works(first) /\ Works(rest)
      <4>1. Honest(createTask(d, holder, FALSE))
        BY PlainWrites, Zenon
      <4> QED
        BY <4>1, BatchWrites, WorkingSteps, Zenon
    <3>2. ASSUME n = k
          PROVE  task_extract_from_image(d, a, g) =
                    CASE (~Given(a, "dry") /\ ~Given(a, "confirmed")) \/ (~file /\ a.attach # "none") -> Fail("Validation")
                      [] OTHER -> CASE unusable -> Fail("Validation")
                                    [] ~unusable /\ Given(a, "dry") -> Preview(None)
                                    [] OTHER -> IF wrapped THEN first ELSE rest
      <4>1. Len(g) = (IF file THEN 0 ELSE 1) /\ ~(Len(g) < (IF file THEN 0 ELSE 1))
        BY <3>2 DEF ImageAnswers
      <4> QED
        BY <4>1 DEF task_extract_from_image
    <3> HIDE DEF first, rest
    <3> QED
      BY <3>1, <3>2, LookingSteps
  <2>3. n > k => Works(task_extract_from_image(d, a, g))
    BY <2>4, BatchWrites, OtherRequests, WorkingSteps
       DEF ImageAnswers, task_extract_from_image, Extracted
  <2> QED
    BY <2>1, <2>2, <2>3 DEF Turns
<1>11. Turns(decision_clear(d, a, g), d, n, 1)
  <2>4. /\ n < 1 => Len(g) = 0
        /\ n = 1 => Len(g) # 0 /\ Len(g) = 1
        /\ n > 1 => Len(g) # 0 /\ Len(g) # 1
    OBVIOUS
  <2>1. n < 1 => Looks(decision_clear(d, a, g), d)
    BY <2>4, TaskReads, LibraryReads, LookingSteps
       DEF decision_clear, NewNote, ReadWrite, OwnerOf, SetOwner
  <2>2. n = 1 => Looks(decision_clear(d, a, g), d) \/ Works(decision_clear(d, a, g))
    BY <2>4, TaskWrites, LibraryWrites, LookingSteps, WorkingSteps
       DEF decision_clear, NewNote, ReadWrite, OwnerOf, SetOwner
  <2>3. n > 1 => Works(decision_clear(d, a, g))
    BY <2>4, TaskWrites, LibraryWrites, WorkingSteps
       DEF decision_clear, NewNote, ReadWrite, OwnerOf, SetOwner
  <2> QED
    BY <2>1, <2>2, <2>3 DEF Turns
<1>12. Turns(project_delete(d, a, g), d, n, 1)
  BY LibraryWrites, GuardedProjectTurns, Zenon DEF project_delete
<1>13. Turns(project_update(d, a, g), d, n, 1)
  BY PlainWrites, GuardedProjectTurns, Zenon DEF project_update
<1> QED
  BY <1>1, <1>2, <1>3, <1>4, <1>5, <1>6, <1>7, <1>8, <1>9, <1>10, <1>11, <1>12, <1>13

\* The previews: these tools do nothing but look names up.
DescribingTasks ==
    {"task_create_describe", "task_complete_describe", "task_drop_describe", "task_delete_describe",
     "task_move_describe", "task_update_describe", "task_batch_create_describe",
     "task_batch_update_describe"}
DescribingOthers ==
    {"project_create_describe", "project_complete_describe", "project_drop_describe",
     "project_delete_describe", "project_update_describe", "project_move_describe",
     "tag_create_describe", "tag_update_describe", "tag_delete_describe", "tag_move_describe",
     "folder_create_describe", "folder_update_describe", "folder_delete_describe",
     "folder_move_describe"}
Describing == DescribingTasks \cup DescribingOthers

\* A call that asks the caller to choose, or to confirm, does not get further.
Asks(tool, a, g) ==
    CASE tool = "task_complete"          -> Len(g) > 1 /\ Ok(g, 2) /\ Val(g, 2) # {}
      [] tool = "project_create"         -> Len(g) > 0 /\ Ok(g, 1) /\ Taken(a, Val(g, 1)) # {}
      [] tool = "task_reclassify"        ->
            Len(g) > 0 /\ LET n == Len(Matching(a, Val(g, 1))) IN
                          Given(a, "dry") \/ a.confirmation # n \/ n > HardCap
      [] tool = "task_batch_defer_smart" -> Given(a, "dry")
      [] OTHER                           -> tool \in Describing

\* The tools that may ask for a choice or a confirmation.
LEMMA AskingToolsTurn ==
    ASSUME NEW d, NEW a, NEW g, NEW n \in Nat, n = Len(g)
    PROVE  /\ IF Asks("task_complete", a, g) THEN Looks(task_complete(d, a, g), d)
              ELSE Turns(task_complete(d, a, g), d, n, 2)
           /\ IF Asks("project_create", a, g) THEN Looks(project_create(d, a, g), d)
              ELSE Turns(project_create(d, a, g), d, n, 1)
           /\ IF Asks("task_reclassify", a, g) THEN Looks(task_reclassify(d, a, g), d)
              ELSE Turns(task_reclassify(d, a, g), d, n, 1)
           /\ IF Asks("task_batch_defer_smart", a, g) THEN Looks(task_batch_defer_smart(d, a, g), d)
              ELSE Works(task_batch_defer_smart(d, a, g))
<1>1. IF Asks("task_complete", a, g) THEN Looks(task_complete(d, a, g), d)
      ELSE Turns(task_complete(d, a, g), d, n, 2)
  BY TaskReads, LookingSteps, WorkingSteps, TaskToolsWork DEF task_complete, Asks, Turns
<1>2. IF Asks("project_create", a, g) THEN Looks(project_create(d, a, g), d)
      ELSE Turns(project_create(d, a, g), d, n, 1)
  BY LibraryReads, LookingSteps, WorkingSteps, LibraryToolsWork DEF project_create, Asks, Turns
<1>3. IF Asks("task_reclassify", a, g) THEN Looks(task_reclassify(d, a, g), d)
      ELSE Turns(task_reclassify(d, a, g), d, n, 1)
  <2>1. ~(Len(g) > 0) => Len(g) = 0
    OBVIOUS
  <2>2. Len(g) = 0 => Looks(task_reclassify(d, a, g), d)
    BY TaskReads, LookingSteps DEF task_reclassify
  <2>3. Len(g) # 0 /\ Asks("task_reclassify", a, g) => Looks(task_reclassify(d, a, g), d)
    <3>1. CASE Given(a, "dry")
      BY <3>1, LookingSteps DEF task_reclassify
    <3>2. CASE ~Given(a, "dry")
      <4> DEFINE m == Len(Matching(a, Val(g, 1)))
      <4>1. CASE a.confirmation # m
        BY <3>2, <4>1, LookingSteps DEF task_reclassify
      <4>2. CASE a.confirmation = m /\ m > HardCap
        <5>1. ~(m <= HardCap)
          BY <4>2, HardCapAssumption
        <5> QED
          BY <3>2, <4>2, <5>1, HardCapAssumption, LookingSteps DEF task_reclassify
      <4> QED
        BY <3>2, <4>1, <4>2, LookingSteps DEF Asks
    <3> QED
      BY <3>1, <3>2
  <2>4. Len(g) # 0 /\ ~Asks("task_reclassify", a, g) => Works(task_reclassify(d, a, g))
    <3>1. \A b, h : Works(task_batch_assign(d, b, h))
      BY BatchToolsWork
    <3> QED
      BY <2>1, <3>1, WorkingSteps DEF task_reclassify, Asks
  <2> QED
    BY <2>1, <2>2, <2>3, <2>4 DEF Turns
<1>4. IF Asks("task_batch_defer_smart", a, g) THEN Looks(task_batch_defer_smart(d, a, g), d)
      ELSE Works(task_batch_defer_smart(d, a, g))
  BY TaskReads, LookingIsHonest, TaskWrites, LookingSteps, WorkingSteps
     DEF task_batch_defer_smart, Asks
<1> QED
  BY <1>1, <1>2, <1>3, <1>4

\* A preview asks for names.
LEMMA LookUpsLook == \A d, g, those : Looks(Described(d, g, those), d)
BY TaskReads, LibraryReads, LookingSteps DEF Described, LookUp

\* Each of the previews is a list of names to look up.
LEMMA DescribingToolsLook ==
    ASSUME NEW d, NEW a, NEW g
    PROVE  /\ Looks(task_create_describe(d, a, g), d)
           /\ Looks(task_complete_describe(d, a, g), d)
           /\ Looks(task_drop_describe(d, a, g), d)
           /\ Looks(task_delete_describe(d, a, g), d)
           /\ Looks(task_move_describe(d, a, g), d)
           /\ Looks(task_update_describe(d, a, g), d)
           /\ Looks(task_batch_create_describe(d, a, g), d)
           /\ Looks(task_batch_update_describe(d, a, g), d)
           /\ Looks(project_create_describe(d, a, g), d)
           /\ Looks(project_complete_describe(d, a, g), d)
           /\ Looks(project_drop_describe(d, a, g), d)
           /\ Looks(project_delete_describe(d, a, g), d)
           /\ Looks(project_update_describe(d, a, g), d)
           /\ Looks(project_move_describe(d, a, g), d)
           /\ Looks(tag_create_describe(d, a, g), d)
           /\ Looks(tag_update_describe(d, a, g), d)
           /\ Looks(tag_delete_describe(d, a, g), d)
           /\ Looks(tag_move_describe(d, a, g), d)
           /\ Looks(folder_create_describe(d, a, g), d)
           /\ Looks(folder_update_describe(d, a, g), d)
           /\ Looks(folder_delete_describe(d, a, g), d)
           /\ Looks(folder_move_describe(d, a, g), d)
BY LookUpsLook
   DEF task_create_describe,
       task_complete_describe,
       task_drop_describe,
       task_delete_describe,
       task_move_describe,
       task_update_describe,
       task_batch_create_describe,
       task_batch_update_describe,
       project_create_describe,
       project_complete_describe,
       project_drop_describe,
       project_delete_describe,
       project_update_describe,
       project_move_describe,
       tag_create_describe,
       tag_update_describe,
       tag_delete_describe,
       tag_move_describe,
       folder_create_describe,
       folder_update_describe,
       folder_delete_describe,
       folder_move_describe

\* What the adapter has said to a call so far.
Heard(g) == \E S : g \in Seq(S) /\ \A i \in 1..Len(g) : Honest(g[i])

-----------------------------------------------------------------------------
\* folder_delete answers with the first error of the adapter.

\* Of some numbers one is the least.
LEMMA LeastNat ==
    ASSUME NEW T \in SUBSET Nat, T # {}
    PROVE  \E x \in T : \A y \in T : x <= y
<1> DEFINE R == OpToRel(<, Nat)
<1>1. IsWellFoundedOn(R, Nat)
  BY NatLessThanWellFounded
<1>2. \A y, x \in Nat : y < x => <<y, x>> \in R
  BY DEF OpToRel
<1> HIDE DEF R
<1>3. PICK x \in T : \A y \in T : ~(<<y, x>> \in R)
  BY <1>1, WFMin
<1>4. ASSUME NEW y \in T PROVE x <= y
  <2>1. ~(y < x)
    BY <1>2, <1>3
  <2> QED
    BY <2>1
<1> QED
  BY <1>4

\* The first error is one of the adapter.
LEMMA FolderDeleteWorks ==
    ASSUME NEW d, NEW a, NEW g, Heard(g)
    PROVE  Works(folder_delete(d, a, g))
<1> DEFINE stuck == {i \in DOMAIN g : ~Ok(g, i)}
<1>1. PICK S : g \in Seq(S) /\ \A i \in 1..Len(g) : Honest(g[i])
  BY DEF Heard
<1>2. stuck # {} => g[Min(stuck)].code \notin Declines
  <2> SUFFICES ASSUME stuck # {} PROVE Min(stuck) \in 1..Len(g)
    BY <1>1 DEF Honest
  <2>1. stuck \in SUBSET Nat /\ stuck \subseteq 1..Len(g)
    BY <1>1
  <2>2. \E x \in stuck : \A y \in stuck : x <= y
    BY <2>1, LeastNat
  <2> QED
    BY <2>1, <2>2 DEF Min
<1> QED
  BY <1>2, LibraryReads, LookingIsHonest, LibraryWrites, WorkingSteps DEF folder_delete

-----------------------------------------------------------------------------
\* Every tool: it looks as long as it may still decline.

Deciding ==
    {"task_uncomplete", "task_drop", "task_undrop", "task_delete", "task_move", "task_update",
     "task_defer_smart", "task_clear_waiting_on", "task_extract_from_note",
     "task_extract_from_image", "decision_clear", "project_delete", "project_update"}
Asking == {"task_complete", "project_create", "task_reclassify", "task_batch_defer_smart"}

\* The answers a tool has seen when it decides.
DecidesAfter(tool, a) ==
    CASE tool \in {"task_uncomplete", "task_drop", "task_undrop", "task_delete", "task_move",
                   "task_update", "task_defer_smart", "task_reclassify", "decision_clear",
                   "project_create", "project_delete", "project_update"} -> 1
      [] tool \in {"task_complete", "task_clear_waiting_on"} -> 2
      [] tool = "task_extract_from_note"  -> NoteAnswers(a)
      [] tool = "task_extract_from_image" -> ImageAnswers(a)
      [] OTHER -> -1

\* It decides after two answers at the latest.
LEMMA DecidesEarly == \A tool, a : DecidesAfter(tool, a) \in {-1, 0, 1, 2}
BY DEF DecidesAfter, NoteAnswers, ImageAnswers

\* The call will not decline any more.
Committed(tool, a, g) == ~Asks(tool, a, g) /\ Len(g) > DecidesAfter(tool, a)

\* What s has to be as the next step of a call of the tool.
Follows(tool, s, d, a, g) ==
    IF Asks(tool, a, g) THEN Looks(s, d) ELSE Turns(s, d, Len(g), DecidesAfter(tool, a))

\* A tool that is not among the deciding ones.
LEMMA OthersWork ==
    ASSUME NEW tool, NEW s, NEW d, NEW a, NEW g, Heard(g), Works(s),
           tool \notin Describing \cup Deciding \cup Asking
    PROVE  Follows(tool, s, d, a, g)
<1>1. Len(g) \in Nat
  BY DEF Heard
<1>2. ~Asks(tool, a, g)
  BY DEF Asks, Asking
<1>3. DecidesAfter(tool, a) = -1
  BY DEF DecidesAfter, Deciding, Asking
<1> QED
  BY <1>1, <1>2, <1>3 DEF Follows, Turns

\* The deciding tools, under their names.
LEMMA DecidersFollow ==
    ASSUME NEW tool, NEW d, NEW a, NEW g, Heard(g)
    PROVE  /\ tool = "task_uncomplete" => Follows(tool, task_uncomplete(d, a, g), d, a, g)
           /\ tool = "task_drop" => Follows(tool, task_drop(d, a, g), d, a, g)
           /\ tool = "task_undrop" => Follows(tool, task_undrop(d, a, g), d, a, g)
           /\ tool = "task_delete" => Follows(tool, task_delete(d, a, g), d, a, g)
           /\ tool = "task_move" => Follows(tool, task_move(d, a, g), d, a, g)
           /\ tool = "task_update" => Follows(tool, task_update(d, a, g), d, a, g)
           /\ tool = "task_defer_smart" => Follows(tool, task_defer_smart(d, a, g), d, a, g)
           /\ tool = "task_clear_waiting_on" => Follows(tool, task_clear_waiting_on(d, a, g), d, a, g)
           /\ tool = "task_extract_from_note" =>
                 Follows(tool, task_extract_from_note(d, a, g), d, a, g)
           /\ tool = "task_extract_from_image" =>
                 Follows(tool, task_extract_from_image(d, a, g), d, a, g)
           /\ tool = "decision_clear" => Follows(tool, decision_clear(d, a, g), d, a, g)
           /\ tool = "project_delete" => Follows(tool, project_delete(d, a, g), d, a, g)
           /\ tool = "project_update" => Follows(tool, project_update(d, a, g), d, a, g)
<1>1. Len(g) \in Nat
  BY DEF Heard
<1> QED
  BY <1>1, DecidingToolsTurn DEF Follows, Asks, DecidesAfter, Describing, DescribingTasks, DescribingOthers

\* The asking tools, under their names.
LEMMA AskersFollow ==
    ASSUME NEW tool, NEW d, NEW a, NEW g, Heard(g)
    PROVE  /\ tool = "task_complete" => Follows(tool, task_complete(d, a, g), d, a, g)
           /\ tool = "project_create" => Follows(tool, project_create(d, a, g), d, a, g)
           /\ tool = "task_reclassify" => Follows(tool, task_reclassify(d, a, g), d, a, g)
           /\ tool = "task_batch_defer_smart" =>
                 Follows(tool, task_batch_defer_smart(d, a, g), d, a, g)
<1>1. Len(g) \in Nat
  BY DEF Heard
<1>2. tool \in {"task_complete", "project_create", "task_reclassify"} =>
         DecidesAfter(tool, a) = IF tool = "task_complete" THEN 2 ELSE 1
  BY DEF DecidesAfter
<1>3. tool = "task_batch_defer_smart" => DecidesAfter(tool, a) = -1
  BY DEF DecidesAfter
<1>4. \A s : Works(s) => Turns(s, d, Len(g), -1)
  BY <1>1 DEF Turns
<1> QED
  BY <1>1, <1>2, <1>3, <1>4, AskingToolsTurn DEF Follows

\* The previews, under their names.
LEMMA DescribersFollow ==
    ASSUME NEW tool \in Describing, NEW s, NEW d, NEW a, NEW g, Looks(s, d)
    PROVE  Follows(tool, s, d, a, g)
BY DEF Follows, Asks, Describing, DescribingTasks, DescribingOthers

\* Every tool is one of those.
LEMMA MoveFollows ==
    ASSUME NEW tool, NEW d, NEW a, NEW g, Heard(g)
    PROVE  Follows(tool, Move(tool, d, a, g), d, a, g)
<1>1. CASE tool \in Describing
  <2>1. CASE tool \in DescribingTasks
    <3>1. Looks(Move(tool, d, a, g), d)
      BY <2>1, DescribingToolsLook DEF Move, DescribingTasks
    <3> QED
      BY <1>1, <3>1, DescribersFollow
  <2>2. CASE tool \in DescribingOthers
    <3>1. Looks(Move(tool, d, a, g), d)
      BY <2>2, DescribingToolsLook DEF Move, DescribingOthers
    <3> QED
      BY <1>1, <3>1, DescribersFollow
  <2> QED
    BY <1>1, <2>1, <2>2 DEF Describing
<1>2. CASE tool \in Deciding
  BY <1>2, DecidersFollow DEF Move, Deciding
<1>3. CASE tool \in Asking
  BY <1>3, AskersFollow DEF Move, Asking
<1>4. CASE tool \notin Describing \cup Deciding \cup Asking
  <2>1. Works(Fail("Validation"))
    BY WorkingSteps
  <2>2. Works(Move(tool, d, a, g))
    BY <1>4, <2>1, TaskToolsWork, TaskReadersWork, BatchToolsWork, LibraryToolsWork,
       OtherToolsWork, ExchangeToolsWork, FolderDeleteWorks
       DEF Move, Describing, DescribingTasks, DescribingOthers, Deciding, Asking
  <2> QED
    BY <1>4, <2>2, OthersWork
<1> QED
  BY <1>1, <1>2, <1>3, <1>4

-----------------------------------------------------------------------------
\* Calls

\* A call that has written is past the point where it may decline.
CallOK(c) ==
    /\ DOMAIN c = {"tool", "args", "got", "wrote", "owes", "alone", "reply"}
    /\ c.wrote \in BOOLEAN
    /\ Heard(c.got)
    /\ c.wrote => Committed(c.tool, c.args, c.got)
    /\ c.reply # None /\ c.reply.code \in Declines => ~c.wrote

ToolsInv == DOMAIN calls = Callers /\ \A p \in Callers : CallOK(calls[p])

\* One more answer.
LEMMA HeardMore ==
    ASSUME NEW g, Heard(g), NEW r, Honest(r)
    PROVE  /\ Heard(Append(g, r))
           /\ Len(g) \in Nat /\ Len(Append(g, r)) = Len(g) + 1
           /\ \A i \in 1..Len(g) : Append(g, r)[i] = g[i]
<1>1. PICK S : g \in Seq(S) /\ \A i \in 1..Len(g) : Honest(g[i])
  BY DEF Heard
<1> DEFINE T == S \cup {r}
<1>2. g \in Seq(T) /\ r \in T
  BY <1>1
<1>3. /\ Append(g, r) \in Seq(T)
      /\ Len(g) \in Nat /\ Len(Append(g, r)) = Len(g) + 1
      /\ \A i \in 1..Len(g) : Append(g, r)[i] = g[i]
      /\ Append(g, r)[Len(g) + 1] = r
  BY <1>2
<1>4. \A i \in 1..Len(g) + 1 : Honest(Append(g, r)[i])
  BY <1>1, <1>3
<1> QED
  BY <1>3, <1>4 DEF Heard

\* A call that has decided to work stays with it, whatever it is answered.
LEMMA CommittedStays ==
    ASSUME NEW tool, NEW a, NEW g, Heard(g), NEW r, Honest(r),
           ~Asks(tool, a, g), Len(g) >= DecidesAfter(tool, a)
    PROVE  Committed(tool, a, Append(g, r))
<1>1. /\ Len(g) \in Nat /\ Len(Append(g, r)) = Len(g) + 1
      /\ \A i \in 1..Len(g) : Append(g, r)[i] = g[i]
  BY HeardMore
<1>2. DecidesAfter(tool, a) \in {-1, 0, 1, 2}
  BY DecidesEarly
<1>3. ~Asks(tool, a, Append(g, r))
  <2>1. CASE tool = "task_complete"
    <3>1. DecidesAfter(tool, a) = 2
      BY <2>1 DEF DecidesAfter
    <3>2. Append(g, r)[2] = g[2] /\ Len(g) > 1
      BY <1>1, <3>1
    <3> QED
      BY <2>1, <3>2 DEF Asks, Ok, Val
  <2>2. CASE tool \in {"project_create", "task_reclassify"}
    <3>1. DecidesAfter(tool, a) = 1
      BY <2>2 DEF DecidesAfter
    <3>2. Append(g, r)[1] = g[1] /\ Len(g) > 0
      BY <1>1, <3>1
    <3> QED
      BY <2>2, <3>2 DEF Asks, Ok, Val
  <2>3. CASE tool \notin {"task_complete", "project_create", "task_reclassify"}
    BY <2>3 DEF Asks
  <2> QED
    BY <2>1, <2>2, <2>3
<1> QED
  BY <1>1, <1>2, <1>3 DEF Committed

\* A call that has written is past its decision after one more answer.
LEMMA CommittedAfter ==
    ASSUME NEW c, CallOK(c), c.wrote, NEW r, Honest(r)
    PROVE  Committed(c.tool, c.args, Append(c.got, r))
<1>1. Len(c.got) \in Nat /\ DecidesAfter(c.tool, c.args) \in Int
  BY DecidesEarly DEF CallOK, Heard
<1> QED
  BY <1>1, CommittedStays DEF CallOK, Committed

\* A cached read fetches and does not write.
LEMMA FactoriesLook == \A d, k : Looking(Factory(d, k), d)
<1>1. \A d, r, q : Looking(r, d) /\ Looking(q, d) => Looking(Joined(r, q), d)
  BY AnswerReads DEF Joined, Looking
<1>2. \A d, t : Looking(TaskAndSubtasks(d, t), d) /\ Looking(ProjectAndTasks(d, t), d)
  BY <1>1, TaskReads, LibraryReads DEF TaskAndSubtasks, ProjectAndTasks
<1>3. \A d, x : /\ Looking(ProjectAlone(d, x), d) /\ Looking(TaskPage(d, x), d)
               /\ Looking(ProjectPage(d, x), d) /\ Looking(TagPage(d, x), d)
               /\ Looking(FolderPage(d, x), d) /\ Looking(ForecastDays(d, x), d)
  BY TaskReads, LibraryReads
     DEF ProjectAlone, TaskPage, ProjectPage, TagPage, FolderPage, ForecastDays
<1> QED
  BY <1>2, <1>3 DEF Factory

\* The next step of a call leaves the document alone unless the call is past
\* the point where it declines once it has the answer.
LEMMA StepWrites ==
    ASSUME NEW c, CallOK(c), NEW d, NEW s, s = Move(c.tool, d, c.args, c.got),
           s.kind \in {"ask", "try"}
    PROVE  /\ Honest(s.does)
           /\ \A r : Honest(r) /\ (c.wrote \/ s.does.doc # d) =>
                   Committed(c.tool, c.args, Append(c.got, r))
<1>1. Follows(c.tool, s, d, c.args, c.got) /\ Len(c.got) \in Nat
  BY MoveFollows DEF CallOK, Heard
<1>2. DecidesAfter(c.tool, c.args) \in Int
  BY DecidesEarly
<1>3. \/ Looks(s, d)
      \/ Works(s) /\ ~Asks(c.tool, c.args, c.got) /\ Len(c.got) >= DecidesAfter(c.tool, c.args)
  BY <1>1, <1>2 DEF Follows, Turns
<1>4. Honest(s.does)
  BY <1>3 DEF Looks, Works, Looking
<1>5. ASSUME c.wrote \/ s.does.doc # d
      PROVE  ~Asks(c.tool, c.args, c.got) /\ Len(c.got) >= DecidesAfter(c.tool, c.args)
  BY <1>1, <1>2, <1>3, <1>5 DEF Looks, Looking, CallOK, Committed
<1> QED
  BY <1>4, <1>5, CommittedStays DEF CallOK

\* An answer comes in, and the call goes on or ends.
LEMMA ReceiveKeepsInv ==
    ASSUME ToolsInv, NEW p \in Callers, NEW must, NEW r, NEW f, Receive(p, must, r, f),
           Waiting(calls[p]), Honest(r),
           \A x : Honest(x) /\ (calls[p].wrote \/ r.doc # doc) =>
               Committed(calls[p].tool, calls[p].args, Append(calls[p].got, x))
    PROVE  ToolsInv'
<1> DEFINE x == [code |-> r.code, val |-> r.val]
           c == [calls[p] EXCEPT !.got = Append(@, x), !.wrote = @ \/ r.doc # doc,
                                 !.owes = @ \/ r.doc # doc]
<1>1. CallOK(calls[p]) /\ calls[p].reply = None
  BY DEF ToolsInv, Waiting
<1>2. Honest(x)
  BY DEF Honest
<1>3. /\ DOMAIN c = {"tool", "args", "got", "wrote", "owes", "alone", "reply"}
      /\ c.tool = calls[p].tool /\ c.args = calls[p].args /\ c.got = Append(calls[p].got, x)
      /\ c.wrote = (calls[p].wrote \/ r.doc # doc) /\ c.reply = None
  BY <1>1 DEF CallOK
<1>4. CallOK(c)
  BY <1>1, <1>2, <1>3, HeardMore DEF CallOK
<1> HIDE DEF c
<1>5. ASSUME NEW e, CallOK(e), calls' = [calls EXCEPT ![p] = e]
      PROVE  ToolsInv'
  BY <1>5 DEF ToolsInv
<1>6. ASSUME NEW b, CallOK(b), NEW reply, reply.code \in Declines => ~b.wrote
      PROVE  CallOK([b EXCEPT !.reply = reply])
  BY <1>6 DEF CallOK
<1>7. CASE must /\ r.code # "OK"
  <2>1. Settle(p, c, [code |-> r.code, val |-> None])
    BY <1>7 DEF Receive, c
  <2> QED
    BY <1>4, <1>5, <1>6, <2>1 DEF Settle, Honest
<1>8. CASE ~(must /\ r.code # "OK")
  <2>1. Proceed(p, c, f)
    BY <1>8 DEF Receive, c
  <2> DEFINE s == Move(c.tool, doc', c.args, c.got)
             e == [c EXCEPT !.owes = @ /\ s.drop = {}]
  <2>2. c.wrote => Works(s)
    BY <1>4, MoveFollows DEF CallOK, Committed, Follows, Turns
  <2>3. CallOK(e) /\ e.wrote = c.wrote
    BY <1>4 DEF CallOK
  <2>4. \/ s.kind \in {"ask", "try", "cached"} /\ calls' = [calls EXCEPT ![p] = e]
        \/ s.kind = "reply" /\ Settle(p, e, [code |-> s.code, val |-> s.val])
        \/ s.kind = "clarify" /\ Settle(p, e, [code |-> "Clarify", val |-> Len(s.choices)])
    BY <2>1 DEF Proceed
  <2> HIDE DEF s, e
  <2> QED
    BY <1>5, <1>6, <2>2, <2>3, <2>4 DEF Settle, Works
<1> QED
  BY <1>7, <1>8

\* A call comes in.
LEMMA EnterKeepsInv ==
    ASSUME ToolsInv, NEW p \in Callers, NEW tool, NEW args, Enter(p, Fresh(tool, args))
    PROVE  ToolsInv'
<1> DEFINE c == Fresh(tool, args)
<1>1. CallOK(c)
  <2>1. Heard(<<>>)
    BY DEF Heard
  <2> QED
    BY <2>1 DEF CallOK, Fresh
<1>2. ~c.wrote
  BY DEF Fresh
<1> HIDE DEF c
<1> DEFINE s == Move(c.tool, doc, c.args, <<>>)
           first == IF s.kind = "reply" THEN [c EXCEPT !.reply = [code |-> s.code, val |-> s.val]]
                    ELSE c
           Alone(q) == q = p \/ ~Waiting(calls[q])
<1>3. calls' = [q \in Callers |-> IF q = p THEN [first EXCEPT !.alone = \A r \in Callers : Alone(r)]
                                  ELSE [calls[q] EXCEPT !.alone = @ /\ Alone(q)]]
  BY DEF Enter, c
<1>4. CallOK(first) /\ ~first.wrote
  BY <1>1, <1>2 DEF CallOK
<1> HIDE DEF s, first
<1>5. \A v : CallOK([first EXCEPT !.alone = v])
  BY <1>4 DEF CallOK
<1>6. \A q \in Callers : \A v : CallOK([calls[q] EXCEPT !.alone = v])
  BY DEF ToolsInv, CallOK
<1>7. \A q \in Callers : CallOK(calls'[q])
  <2> HIDE DEF Alone
  <2> QED
    BY <1>3, <1>5, <1>6
<1> QED
  BY <1>3, <1>7 DEF ToolsInv

\* Nobody has called anything yet.
LEMMA InitInv ==
    ASSUME Init
    PROVE  ToolsInv
<1>1. CallOK(Idle)
  <2>1. Heard(<<>>)
    BY DEF Heard
  <2> QED
    BY <2>1 DEF CallOK, Idle, Fresh
<1> QED
  BY <1>1 DEF Init, ToolsInv

\* A clarification that is unknown, or a choice that is not one of its.
LEMMA ChooseKeepsInv ==
    ASSUME ToolsInv, NEW p \in Callers, Choose(p)
    PROVE  ToolsInv'
<1>1. PICK n \in 1..3 :
         IF n \in DOMAIN pending
         THEN Enter(p, Fresh(pending[n].tool, pending[n].args))
         ELSE \E code : calls' = [calls EXCEPT ![p] = [Fresh("clarify", n) EXCEPT
                                                          !.reply = [code |-> code, val |-> None]]]
  BY DEF Choose
<1>2. CASE n \in DOMAIN pending
  BY <1>1, <1>2, EnterKeepsInv
<1>3. CASE n \notin DOMAIN pending
  <2>1. PICK code : calls' = [calls EXCEPT ![p] = [Fresh("clarify", n) EXCEPT
                                                     !.reply = [code |-> code, val |-> None]]]
    BY <1>1, <1>3
  <2>2. CallOK([Fresh("clarify", n) EXCEPT !.reply = [code |-> code, val |-> None]])
    <3>1. Heard(<<>>)
      BY DEF Heard
    <3> QED
      BY <3>1 DEF CallOK, Fresh
  <2> QED
    BY <2>1, <2>2 DEF ToolsInv
<1> QED
  BY <1>2, <1>3

\* The adapter executes the request of a call.
LEMMA AdvanceKeepsInv ==
    ASSUME ToolsInv, NEW p \in Callers, Advance(p)
    PROVE  ToolsInv'
<1> DEFINE c == calls[p]
           s == Move(c.tool, doc, c.args, c.got)
<1>1. CallOK(c) /\ Waiting(c)
  BY DEF ToolsInv, Advance
<1>2. CASE s.kind \in {"ask", "try"} /\ Receive(p, s.kind = "ask", s.does, cache)
  BY <1>1, <1>2, StepWrites, ReceiveKeepsInv
<1>3. CASE s.kind = "cached" /\ \E r \in {IF s.key \in DOMAIN cache THEN Answer(doc, cache[s.key])
                                                                    ELSE Factory(doc, s.key)} :
              Receive(p, TRUE, r, IF r.code = "OK" THEN With(cache, s.key, r.val) ELSE cache)
  <2>1. PICK r : /\ Looking(r, doc)
                 /\ Receive(p, TRUE, r, IF r.code = "OK" THEN With(cache, s.key, r.val) ELSE cache)
    BY <1>3, AnswerReads, FactoriesLook
  <2>2. Honest(r) /\ r.doc = doc
    BY <2>1 DEF Looking
  <2>3. \A x : Honest(x) /\ c.wrote => Committed(c.tool, c.args, Append(c.got, x))
    BY <1>1, CommittedAfter DEF CallOK
  <2> QED
    BY <1>1, <2>1, <2>2, <2>3, ReceiveKeepsInv
<1> QED
  BY <1>2, <1>3 DEF Advance

\* The request of a call times out, executed or not.
LEMMA LoseKeepsInv ==
    ASSUME ToolsInv, NEW p \in Callers, Lose(p)
    PROVE  ToolsInv'
<1> DEFINE c == calls[p]
           s == Move(c.tool, doc, c.args, c.got)
<1>1. CallOK(c) /\ Waiting(c)
  BY DEF ToolsInv, Lose
<1>2. PICK executed \in BOOLEAN :
         /\ s.kind \in {"ask", "try"}
         /\ Receive(p, s.kind = "ask", Refuse(IF executed THEN s.does.doc ELSE doc, "Timeout"), cache)
  BY DEF Lose
<1> DEFINE r == Refuse(IF executed THEN s.does.doc ELSE doc, "Timeout")
<1>3. Honest(r)
  BY RefuseHonest
<1>4. r.doc # doc => s.does.doc # doc
  BY DEF Refuse
<1> HIDE DEF r
<1>5. \A x : Honest(x) /\ (c.wrote \/ r.doc # doc) => Committed(c.tool, c.args, Append(c.got, x))
  BY <1>1, <1>2, <1>4, StepWrites
<1>6. Receive(p, s.kind = "ask", r, cache)
  BY <1>2 DEF r
<1> QED
  BY <1>1, <1>3, <1>5, <1>6, ReceiveKeepsInv

\* No step breaks ToolsInv.
LEMMA StepKeepsInv ==
    ASSUME ToolsInv, [Next]_vars
    PROVE  ToolsInv'
<1>1. ASSUME NEW p \in Callers, Call(p) PROVE ToolsInv'
  BY <1>1, EnterKeepsInv DEF Call
<1>2. CASE calls' = calls
  BY <1>2 DEF ToolsInv
<1> QED
  BY <1>1, <1>2, ChooseKeepsInv, AdvanceKeepsInv, LoseKeepsInv DEF Next, Expire, vars

\* Whatever the tools are asked to do, in whatever order the adapter executes
\* their requests and whichever of these time out: "no change", a preview, a
\* question, a conflict or a confirmation that does not fit is only answered
\* by a call none of whose requests has changed the document (src/tools).
THEOREM DecliningIsTrue == Spec => []DeclinedWroteNothing
<1>1. ToolsInv => DeclinedWroteNothing
  BY DEF ToolsInv, CallOK, DeclinedWroteNothing
<1>2. ToolsInv /\ [Next]_vars => ToolsInv'
  BY StepKeepsInv
<1> QED
  BY <1>1, <1>2, InitInv, PTL DEF Spec
=============================================================================
