---------------------------- MODULE ListingProofs ----------------------------
(***************************************************************************)
(* Whatever the tools do, no cached page of tasks, projects, tags or       *)
(* folders stays behind what OmniFocus would answer: for any documents,    *)
(* calls and callers and any order in which the adapter executes their     *)
(* requests.                                                               *)
(*                                                                         *)
(* A request of the adapter changes no listing but those of some kinds     *)
(* (Within), and a step of a tool that invalidates covers all the kinds    *)
(* its tool changes (Clean, Affects).  A call that has changed something   *)
(* is at a step from which it comes to its invalidation, or ends in a      *)
(* failure (Carries, MayOwe).  The invariant (SettleInv) is that a cached  *)
(* listing is right or such a call still owes its invalidation.            *)
(***************************************************************************)
EXTENDS ToolsProofs, FiniteSetTheorems, SequenceTheorems

\* What tasks, projects, tags and folders are is the same in both.
Still(e, d) == e.tasks = d.tasks /\ e.projects = d.projects /\ e.tags = d.tags /\ e.folders = d.folders

\* Chain, ProjectOf and the rows of tasks and projects as functions of the
\* tasks T and the projects P alone.
ChainIn(T, t) ==
    LET up[n \in 0..Cardinality(DOMAIN T)] ==
            [x \in DOMAIN T |->
                IF n = 0 \/ ~Has(T, T[x].at) THEN {x}
                ELSE {x} \cup up[n - 1][T[x].at]]
    IN up[Cardinality(DOMAIN T)][t]
HomeIn(T, P, t) ==
    LET root == CHOOSE x \in ChainIn(T, t) : ~Has(T, T[x].at)
    IN IF Has(P, T[root].at) THEN T[root].at ELSE None

\* A chain is one of the rows of tasks alone.
LEMMA ChainAlone == \A d, t : Chain(d, t) = ChainIn(d.tasks, t)
BY DEF Chain, ChainIn

\* So is the project of a task, with the projects.
LEMMA HomeAlone == \A d, t : ProjectOf(d, t) = HomeIn(d.tasks, d.projects, t)
BY DEF ProjectOf, HomeIn, Chain, ChainIn

\* A task's row
LEMMA RowsStill ==
    ASSUME NEW d, NEW e, Still(e, d)
    PROVE  /\ \A t : BuildTask(e, t) = BuildTask(d, t)
           /\ \A p : FlattenedTasks(e, p) = FlattenedTasks(d, p)
           /\ \A p : BuildProject(e, p) = BuildProject(d, p)
<1>1. \A t : ProjectOf(e, t) = ProjectOf(d, t)
  BY HomeAlone DEF Still
<1>2. \A t : BuildTask(e, t) = BuildTask(d, t)
  BY <1>1 DEF Still, BuildTask, ParentOf
<1>3. \A p : FlattenedTasks(e, p) = FlattenedTasks(d, p)
  BY <1>1 DEF Still, FlattenedTasks
<1>4. \A p : BuildProject(e, p) = BuildProject(d, p)
  <2> TAKE p
  <2>1. {t \in FlattenedTasks(e, p) : e.tasks[t].done} = {t \in FlattenedTasks(d, p) : d.tasks[t].done}
    BY <1>3 DEF Still
  <2> QED
    BY <1>3, <2>1 DEF Still, BuildProject
<1> QED
  BY <1>2, <1>3, <1>4

\* The kinds of listings that are cached, and their keys (src/cache/keys.ts)
Kinds == {"search", "tag", "folder", "forecast"}

ListingKey(k) ==
    \/ \E f : k = <<"search", "tasks", f>> \/ k = <<"search", "projects", f>>
    \/ \E f : k = <<"tag", "list", f>> \/ k = <<"folder", "list", f>>
    \/ \E f : k = <<"forecast", f>>

\* What a listing is filled with.
LEMMA ListingPages ==
    \A d, f : /\ Factory(d, <<"search", "tasks", f>>) = listTasks(d, f)
              /\ Factory(d, <<"search", "projects", f>>) = listProjects(d, f)
              /\ Factory(d, <<"tag", "list", f>>) = listTags(d, f)
              /\ Factory(d, <<"folder", "list", f>>) = listFolders(d, f)
              /\ Factory(d, <<"forecast", f>>) = getForecast(d, f)
BY DEF Factory, TaskPage, ProjectPage, TagPage, FolderPage, ForecastDays

\* The containers of a folder page
InTasks(e, d) ==
    /\ e.folders = d.folders /\ DOMAIN e.projects = DOMAIN d.projects
    /\ \A p \in DOMAIN d.projects : e.projects[p].folder = d.projects[p].folder
InFolders(e, d) == e.tasks = d.tasks /\ e.tags = d.tags

\* The cached listings of other kinds than those of A are the same in both.
Within(A, e, d) ==
    Framed(e) /\ \A k : ListingKey(k) /\ k[1] \notin A => Factory(e, k).val = Factory(d, k).val

\* A page of tags has its tasks counted.
LEMMA TagPages ==
    ASSUME NEW d, NEW e, e.tasks = d.tasks, e.tags = d.tags
    PROVE  \A f : listTags(e, f).val = listTags(d, f).val
<1>1. \A g : BuildTag(e, g) = BuildTag(d, g)
  BY DEF BuildTag, TasksTagged
<1>2. ASSUME NEW f PROVE listTags(e, f).val = listTags(d, f).val
  <2> DEFINE in(b, g) == /\ "parent" \in DOMAIN f => b.tags[g].parent = f.parent
                         /\ "status" \in DOMAIN f => b.tags[g].status = f.status
             page(b) == {BuildTag(b, g) : g \in {h \in DOMAIN b.tags : in(b, h)}}
  <2>1. page(e) = page(d)
    BY <1>1
  <2>2. \A b : listTags(b, f).val = page(b)
    BY DEF listTags, TagList, Answer
  <2> HIDE DEF page
  <2> QED
    BY <2>1, <2>2
<1> QED
  BY <1>2

\* The forecast is of tasks.
LEMMA ForecastPages ==
    ASSUME NEW d, NEW e, e.tasks = d.tasks
    PROVE  \A a : getForecast(e, a).val = getForecast(d, a).val
<1>1. Open(e) = Open(d) /\ \A lo, hi : Due(e, lo, hi) = Due(d, lo, hi)
  BY DEF Open, Due
<1>2. ASSUME NEW a PROVE getForecast(e, a).val = getForecast(d, a).val
  <2> DEFINE deferred(b) == {t \in Open(b) : b.tasks[t].defer # None /\ b.tasks[t].defer \in a.from..a.to}
             flagged(b) == {t \in Open(b) : b.tasks[t].flagged}
  <2>1. deferred(e) = deferred(d) /\ flagged(e) = flagged(d)
    BY <1>1
  <2>2. \A b : getForecast(b, a).val =
                 [overdue  |-> IF a.overdue THEN Due(b, 0, a.from - 1) ELSE {},
                  today    |-> Due(b, a.from, a.to),
                  deferred |-> IF a.deferred THEN deferred(b) ELSE {},
                  flagged  |-> IF a.flagged THEN flagged(b) ELSE {}]
    BY DEF getForecast, ForecastGet, Answer
  <2> HIDE DEF deferred, flagged
  <2> QED
    BY <1>1, <2>1, <2>2
<1> QED
  BY <1>2

\* A page of folders has the projects in them.
LEMMA FolderPages ==
    ASSUME NEW d, NEW e, InTasks(e, d)
    PROVE  \A f : listFolders(e, f).val = listFolders(d, f).val
<1>1. \A x : ProjectsIn(e, x) = ProjectsIn(d, x)
  BY DEF ProjectsIn, InTasks
<1>2. \A x : BuildFolder(e, x) = BuildFolder(d, x)
  BY <1>1 DEF BuildFolder, FoldersIn, InTasks
<1>3. ASSUME NEW f PROVE listFolders(e, f).val = listFolders(d, f).val
  <2> DEFINE page(b) == {BuildFolder(b, x) :
                  x \in {y \in DOMAIN b.folders : "parent" \in DOMAIN f => b.folders[y].parent = f.parent}}
  <2>1. page(e) = page(d)
    BY <1>2 DEF InTasks
  <2>2. \A b : listFolders(b, f).val = page(b)
    BY DEF listFolders, FolderList, Answer
  <2> HIDE DEF page
  <2> QED
    BY <2>1, <2>2
<1> QED
  BY <1>3

\* A page of tasks, with the projects they are in.
LEMMA TaskPages ==
    ASSUME NEW d, NEW e, Still(e, d)
    PROVE  \A f : listTasks(e, f).val = listTasks(d, f).val
<1> DEFINE rows(b, S, f) == Answer(b, {x \in {BuildTask(b, t) : t \in S} : Matches(x, f)})
<1>1. \A S, f : rows(e, S, f).val = rows(d, S, f).val
  <2> TAKE S, f
  <2>1. {BuildTask(e, t) : t \in S} = {BuildTask(d, t) : t \in S}
    BY RowsStill
  <2> QED
    BY <2>1 DEF Answer
<1>2. /\ \A c : ChildTasks(e, c) = ChildTasks(d, c)
      /\ \A g : TasksTagged(e, g) = TasksTagged(d, g)
  BY DEF ChildTasks, TasksTagged, Still
<1>3. \A b, f : TaskList(b, f) =
         CASE "inbox" \in DOMAIN f   -> rows(b, ChildTasks(b, Inbox), f)
           [] "project" \in DOMAIN f -> Found(b, b.projects, f.project,
                                              rows(b, FlattenedTasks(b, f.project), f))
           [] "parent" \in DOMAIN f  -> Found(b, b.tasks, f.parent, rows(b, ChildTasks(b, f.parent), f))
           [] "tag" \in DOMAIN f     -> Found(b, b.tags, f.tag, rows(b, TasksTagged(b, f.tag), f))
           [] OTHER                  -> rows(b, DOMAIN b.tasks, f)
  BY DEF TaskList
<1> HIDE DEF rows
<1>4. \A f : TaskList(e, f).val = TaskList(d, f).val
  BY <1>1, <1>2, <1>3, RowsStill DEF Still, Found, Refuse
<1> QED
  BY <1>4 DEF listTasks

\* A page of projects, with their tasks.
LEMMA ProjectPages ==
    ASSUME NEW d, NEW e, Still(e, d)
    PROVE  \A f : listProjects(e, f).val = listProjects(d, f).val
<1> SUFFICES ASSUME NEW f PROVE listProjects(e, f).val = listProjects(d, f).val
  OBVIOUS
<1> DEFINE in(b, p) == /\ "folder" \in DOMAIN f => b.projects[p].folder = f.folder
                       /\ "status" \in DOMAIN f => b.projects[p].status = f.status
           top(b) == "folder" \in DOMAIN f => Has(b.folders, f.folder) /\ b.folders[f.folder].parent = None
           page(b) == {BuildProject(b, p) : p \in {q \in DOMAIN b.projects : in(b, q)}}
<1>1. \A b : listProjects(b, f) = IF ~top(b) THEN Refuse(b, "NotFound") ELSE Answer(b, page(b))
  BY DEF listProjects, ProjectList
<1>2. page(e) = page(d)
  BY RowsStill DEF Still
<1>3. top(e) = top(d)
  BY DEF Still
<1> HIDE DEF page, top
<1> QED
  BY <1>1, <1>2, <1>3 DEF Answer, Refuse

\* Nothing that is listed has changed.
LEMMA StillWithin == \A d, e : Framed(e) /\ Still(e, d) => Within({}, e, d)
<1> SUFFICES ASSUME NEW d, NEW e, Framed(e), Still(e, d), NEW k, ListingKey(k)
             PROVE  Factory(e, k).val = Factory(d, k).val
  BY DEF Within
<1>1. InTasks(e, d)
  BY DEF Still, InTasks
<1>2. e.tasks = d.tasks /\ e.tags = d.tags
  BY DEF Still
<1> QED
  BY <1>1, <1>2, ListingPages, TaskPages, ProjectPages, FolderPages, TagPages, ForecastPages
     DEF ListingKey

\* Tasks and tags have changed, and of projects what folders do not show.
LEMMA InTasksWithin ==
    \A d, e : Framed(e) /\ InTasks(e, d) => Within({"search", "tag", "forecast"}, e, d)
<1> SUFFICES ASSUME NEW d, NEW e, Framed(e), InTasks(e, d), NEW k, ListingKey(k),
                    k[1] \notin {"search", "tag", "forecast"}
             PROVE  Factory(e, k).val = Factory(d, k).val
  BY DEF Within
<1> QED
  BY ListingPages, FolderPages DEF ListingKey

\* Folders and projects have changed.
LEMMA InFoldersWithin ==
    \A d, e : Framed(e) /\ InFolders(e, d) => Within({"folder", "search"}, e, d)
<1> SUFFICES ASSUME NEW d, NEW e, Framed(e), InFolders(e, d), NEW k, ListingKey(k),
                    k[1] \notin {"folder", "search"}
             PROVE  Factory(e, k).val = Factory(d, k).val
  BY DEF Within
<1>1. e.tasks = d.tasks /\ e.tags = d.tags
  BY DEF InFolders
<1> QED
  BY <1>1, ListingPages, TagPages, ForecastPages DEF ListingKey

\* Anything may have changed.
LEMMA AnyWithin == \A d, e : Framed(e) => Within(Kinds, e, d)
<1> SUFFICES ASSUME NEW k, ListingKey(k) PROVE k[1] \in Kinds
  BY DEF Within
<1> QED
  BY DEF ListingKey, Kinds

\* A document that differs in tasks only
OnlyTasks(e, d) ==
    /\ DOMAIN e = DOMAIN d /\ e.projects = d.projects /\ e.tags = d.tags /\ e.folders = d.folders
    /\ IsFiniteSet(DOMAIN e.tasks)

\* A change of tasks leaves the pages of folders alone.
LEMMA OnlyTasksIs == \A d, e : Framed(d) /\ OnlyTasks(e, d) => Framed(e) /\ InTasks(e, d)
BY DEF OnlyTasks, Framed, InTasks

\* withFound, of a request that changes tasks.
LEMMA FoundTasks ==
    \A d, f, id, r : Framed(d) /\ OnlyTasks(r.doc, d) => OnlyTasks(Found(d, f, id, r).doc, d)
BY DEF Found, Refuse, OnlyTasks, Framed

\* What an answer brings along.
LEMMA AnswersDoc == \A d, v, code : Answer(d, v).doc = d /\ Refuse(d, code).doc = d
BY DEF Answer, Refuse

\* Answers of a request that changes tasks.
LEMMA AnswersTasks ==
    \A d, e, f, id, v, code : Framed(d) /\ OnlyTasks(e, d) =>
        /\ OnlyTasks(Found(d, f, id, Answer(e, v)).doc, d)
        /\ OnlyTasks(Found(d, f, id, Refuse(e, code)).doc, d)
        /\ OnlyTasks(Answer(e, v).doc, d) /\ OnlyTasks(Refuse(e, code).doc, d)
BY DEF Found, Answer, Refuse, OnlyTasks, Framed

\* Stopping a script changes nothing more.
LEMMA StoppedDoc == \A r : Stopped(r).doc = r.doc
BY DEF Stopped, Refuse

\* No change is one of tasks.
LEMMA SameTasks == \A d : Framed(d) => OnlyTasks(d, d)
BY DEF OnlyTasks, Framed

\* Marks on a task, and its place.
LEMMA TaskMarks ==
    ASSUME NEW d, Framed(d), NEW t
    PROVE  /\ OnlyTasks(MarkComplete(d, t), d)
           /\ OnlyTasks(MarkDropped(d, t), d)
           /\ OnlyTasks(MarkIncomplete(d, t), d)
           /\ \A fields : OnlyTasks(Put(d, t, fields), d)
           /\ \A v : OnlyTasks([d EXCEPT !.tasks[t].alarms = v], d)
           /\ \A at, order : OnlyTasks([d EXCEPT !.tasks[t].at = at, !.order = order], d)
           /\ \A order : OnlyTasks([d EXCEPT !.order = order], d)
<1>1. OnlyTasks(MarkComplete(d, t), d)
  <2> DEFINE row == IF d.tasks[t].repeat = None THEN [d.tasks[t] EXCEPT !.done = TRUE]
                    ELSE NextOccurrence(d.tasks[t])
             T == [d.tasks EXCEPT ![t] = row]
  <2>1. MarkComplete(d, t) = [d EXCEPT !.tasks = T]
    BY DEF MarkComplete
  <2>2. DOMAIN T = DOMAIN d.tasks
    OBVIOUS
  <2> HIDE DEF T
  <2> QED
    BY <2>1, <2>2 DEF OnlyTasks, Framed
<1>2. OnlyTasks(MarkDropped(d, t), d)
  BY DEF MarkDropped, OnlyTasks, Framed
<1>3. OnlyTasks(MarkIncomplete(d, t), d)
  BY DEF MarkIncomplete, OnlyTasks, Framed
<1>4. \A fields : OnlyTasks(Put(d, t, fields), d)
  <2> TAKE fields
  <2> DEFINE row == Over(d.tasks[t], KnownTags(d, fields))
             T == [d.tasks EXCEPT ![t] = row]
  <2>1. Put(d, t, fields) = [d EXCEPT !.tasks = T]
    BY DEF Put
  <2>2. DOMAIN T = DOMAIN d.tasks
    OBVIOUS
  <2> HIDE DEF T
  <2> QED
    BY <2>1, <2>2 DEF OnlyTasks, Framed
<1>5. \A v : OnlyTasks([d EXCEPT !.tasks[t].alarms = v], d)
  BY DEF OnlyTasks, Framed
<1>6. \A at, order : OnlyTasks([d EXCEPT !.tasks[t].at = at, !.order = order], d)
  BY DEF OnlyTasks, Framed
<1>7. \A order : OnlyTasks([d EXCEPT !.order = order], d)
  BY DEF OnlyTasks, Framed
<1> QED
  BY <1>1, <1>2, <1>3, <1>4, <1>5, <1>6, <1>7

\* Tasks that are added and deleted.
LEMMA TasksComeAndGo ==
    ASSUME NEW d, Framed(d)
    PROVE  /\ \A S : OnlyTasks(DeleteTasks(d, S), d)
           /\ \A t, row : OnlyTasks(AddTask(d, t, row), d)
<1>1. \A S : OnlyTasks(DeleteTasks(d, S), d)
  <2> TAKE S
  <2>1. DOMAIN Without(d.tasks, S) = DOMAIN d.tasks \ S
    BY DEF Without, Restrict
  <2>2. IsFiniteSet(DOMAIN d.tasks \ S)
    BY FS_Subset DEF Framed
  <2> HIDE DEF Without
  <2> QED
    BY <2>1, <2>2 DEF DeleteTasks, OnlyTasks, Framed
<1>2. \A t, row : OnlyTasks(AddTask(d, t, row), d)
  <2> TAKE t, row
  <2>1. DOMAIN With(d.tasks, t, row) = DOMAIN d.tasks \cup {t}
    BY DEF With
  <2>2. IsFiniteSet(DOMAIN d.tasks \cup {t})
    BY FS_AddElement DEF Framed
  <2> QED
    BY <2>1, <2>2 DEF AddTask, OnlyTasks, Framed
<1> QED
  BY <1>1, <1>2

\* Copies of tasks are tasks.
LEMMA CopiesOnlyTasks ==
    ASSUME NEW d, Framed(d), NEW t, NEW S, IsFiniteSet(S), NEW at, NEW cut
    PROVE  OnlyTasks(Copied(d, t, S, at, cut).doc, d)
<1> DEFINE of == CHOOSE f \in CopyIds(d, t, S) : TRUE
           new == {of[x] : x \in S}
           source(c) == CHOOSE x \in S : of[x] = c
           reset(x) == [x EXCEPT !.dropped = IF x.done THEN FALSE ELSE @, !.done = FALSE]
           same(x) == [d.tasks[x] EXCEPT !.at = IF x = t THEN at ELSE of[@]]
           copy(x) == IF cut THEN same(x) ELSE reset(same(x))
           listed == Omitting(d.order, DOMAIN d.tasks \ S)
           row == [c \in new |-> copy(source(c))]
           T == Over(d.tasks, row)
           U == d.used \cup new
           O == d.order \o [i \in DOMAIN listed |-> of[listed[i]]]
<1>1. IsFiniteSet(new)
  <2> HIDE DEF of
  <2> DEFINE f == [x \in S |-> of[x]]
  <2>1. f \in Surjection(S, new)
    BY DEF Surjection
  <2> QED
    BY <2>1, FS_Surjection
<1>2. DOMAIN row = new /\ Copied(d, t, S, at, cut).doc = [d EXCEPT !.tasks = T, !.used = U, !.order = O]
  <2>1. DOMAIN row = new
    OBVIOUS
  <2>2. Copied(d, t, S, at, cut) = Answer([d EXCEPT !.tasks = T, !.used = U, !.order = O],
                                          [new |-> of[t], more |-> Cardinality(S) - 1])
    BY DEF Copied
  <2> HIDE DEF row, T, U, O, new
  <2> QED
    BY <2>1, <2>2 DEF Answer
<1> HIDE DEF row, U, O, new
<1>3. DOMAIN T = DOMAIN d.tasks \cup new
  BY <1>2 DEF Over
<1> HIDE DEF T
<1>4. IsFiniteSet(DOMAIN T)
  BY <1>1, <1>3, FS_Union DEF Framed
<1> QED
  BY <1>2, <1>4 DEF OnlyTasks, Framed

\* The requests on one task that write change tasks.
LEMMA TaskRequests ==
    ASSUME NEW d, Framed(d)
    PROVE  /\ \A t : OnlyTasks(completeTask(d, t).doc, d)
           /\ \A t : OnlyTasks(uncompleteTask(d, t).doc, d)
           /\ \A t : OnlyTasks(dropTask(d, t).doc, d)
           /\ \A t : OnlyTasks(undropTask(d, t).doc, d)
           /\ \A t : OnlyTasks(deleteTask(d, t).doc, d)
           /\ \A x, cut : OnlyTasks(createTask(d, x, cut).doc, d)
           /\ \A t, to : OnlyTasks(moveTask(d, t, to).doc, d)
           /\ \A t, pos : OnlyTasks(reorderTask(d, t, pos).doc, d)
           /\ \A t, to, all, cut : OnlyTasks(duplicateTask(d, t, to, all, cut).doc, d)
           /\ \A t, alarms : OnlyTasks(setTaskAlarms(d, t, alarms).doc, d)
           /\ \A t : OnlyTasks(clearTaskAlarms(d, t).doc, d)
<1>1. \A t : /\ OnlyTasks(completeTask(d, t).doc, d) /\ OnlyTasks(uncompleteTask(d, t).doc, d)
             /\ OnlyTasks(dropTask(d, t).doc, d) /\ OnlyTasks(undropTask(d, t).doc, d)
  BY AnswersTasks, TaskMarks
     DEF completeTask, TaskComplete, uncompleteTask, TaskUncomplete, dropTask, TaskDrop,
        undropTask, TaskUndrop
<1>2. \A t : OnlyTasks(deleteTask(d, t).doc, d)
  BY FoundTasks, AnswersDoc, TasksComeAndGo DEF deleteTask, TaskDelete
<1>3. \A at, fields : OnlyTasks(Insert(d, at, fields).doc, d)
  BY AnswersDoc, TasksComeAndGo DEF Insert
<1>4. \A x, cut : OnlyTasks(createTask(d, x, cut).doc, d)
  <2>1. \A x : OnlyTasks(CreateAt(d, x).doc, d)
    BY <1>3, FoundTasks, SameTasks, AnswersDoc DEF CreateAt
  <2> QED
    BY <2>1, StoppedDoc DEF createTask, TaskCreate
<1>5. \A t, at, order : OnlyTasks(MoveTask(d, t, at, order).doc, d)
  BY TaskMarks, AnswersTasks, SameTasks DEF MoveTask
<1>6. \A t, to : OnlyTasks(moveTask(d, t, to).doc, d)
  BY <1>5, FoundTasks DEF moveTask, TaskMove
<1>7. \A t, pos : OnlyTasks(reorderTask(d, t, pos).doc, d)
  <2> SUFFICES ASSUME NEW t, NEW pos PROVE OnlyTasks(reorderTask(d, t, pos).doc, d)
    OBVIOUS
  <2> DEFINE ends == pos.mode \in {"start", "end"}
             put(j) == [d EXCEPT !.order = PutBeside(@, t, pos.ref, j)]
  <2>1. \A j : OnlyTasks(put(j), d)
    BY DEF OnlyTasks, Framed
  <2> HIDE DEF put
  <2>2. CASE ends
    BY <1>5, <2>2, FoundTasks DEF reorderTask, TaskReorder
  <2>3. CASE ~ends
    <3> DEFINE order == put(IF pos.mode = "after" THEN 1 ELSE 0)
               beside == CASE d.tasks[pos.ref].at # d.tasks[t].at -> Refuse(d, "Validation")
                           [] pos.ref = t -> Answer(d, t)
                           [] OTHER -> Answer(order, t)
    <3>1. OnlyTasks(beside.doc, d)
      <4> HIDE DEF order
      <4>1. OnlyTasks(order, d)
        BY <2>1 DEF order
      <4> QED
        BY <4>1, SameTasks, AnswersTasks
    <3>2. reorderTask(d, t, pos) =
             Found(d, d.tasks, t, IF pos.ref = None THEN Refuse(d, "Validation")
                                  ELSE Found(d, d.tasks, pos.ref, beside))
      BY <2>3 DEF reorderTask, TaskReorder, put
    <3> HIDE DEF beside
    <3> QED
      BY <3>1, <3>2, FoundTasks, SameTasks, AnswersTasks
  <2> QED
    BY <2>2, <2>3
<1>8. \A t, to, all, cut : OnlyTasks(duplicateTask(d, t, to, all, cut).doc, d)
  <2> SUFFICES ASSUME NEW t, NEW to, NEW all, NEW cut
               PROVE  OnlyTasks(duplicateTask(d, t, to, all, cut).doc, d)
    OBVIOUS
  <2> DEFINE S == IF all \/ cut THEN Subtree(d, t) ELSE {t}
             copied(at) == IF cut THEN Stopped(Copied(d, t, S, at, cut)) ELSE Copied(d, t, S, at, cut)
  <2>1. IsFiniteSet(S)
    BY FS_Subset, FS_Singleton DEF Subtree, Framed
  <2>2. \A at : OnlyTasks(copied(at).doc, d)
    BY <2>1, CopiesOnlyTasks, StoppedDoc
  <2> QED
    BY <2>2, FoundTasks DEF duplicateTask, TaskDuplicate
<1>9. \A t, alarms : OnlyTasks(setTaskAlarms(d, t, alarms).doc, d)
  BY AnswersTasks, TaskMarks DEF setTaskAlarms, TaskSetAlarms
<1>10. \A t : OnlyTasks(clearTaskAlarms(d, t).doc, d)
  BY AnswersTasks, TaskMarks DEF clearTaskAlarms, TaskClearAlarms
<1> QED
  BY <1>1, <1>2, <1>4, <1>6, <1>7, <1>8, <1>9, <1>10

\* An update of a task, its note and its tags with it.
LEMMA UpdatesOnlyTasks ==
    ASSUME NEW d, Framed(d), NEW t, NEW patch, NEW cut
    PROVE  OnlyTasks(updateTask(d, t, patch, cut).doc, d)
<1>1. ASSUME NEW b, Framed(b), NEW p, NEW stop PROVE OnlyTasks(TaskUpdate(b, t, p, stop).doc, b)
  <2>1. \A fields : OnlyTasks(Put(b, t, fields), b)
    BY <1>1, TaskMarks, Zenon
  <2>2. \A fields, v, code : /\ OnlyTasks(Answer(Put(b, t, fields), v).doc, b)
                            /\ OnlyTasks(Refuse(Put(b, t, fields), code).doc, b)
    BY <2>1, AnswersDoc
  <2> QED
    BY <1>1, <2>2, FoundTasks, ZenonT(30) DEF TaskUpdate
<1>2. ASSUME NEW b, OnlyTasks(b, d), NEW p, NEW stop PROVE OnlyTasks(TaskUpdate(b, t, p, stop).doc, d)
  <2>1. Framed(b)
    BY <1>2, OnlyTasksIs
  <2> QED
    BY <1>1, <1>2, <2>1 DEF OnlyTasks
<1> DEFINE first == TaskUpdate(d, t, Without(patch, {"note"}), FALSE)
           second == TaskUpdate(first.doc, t, Only(patch, {"note"}), FALSE)
           whole == TaskUpdate(d, t, patch, cut)
<1>3. OnlyTasks(first.doc, d) /\ OnlyTasks(whole.doc, d)
  BY <1>1, Zenon
<1>4. OnlyTasks(second.doc, d)
  BY <1>2, <1>3, Zenon
<1>5. updateTask(d, t, patch, cut) \in {whole, first, Refuse(first.doc, "Script"), second}
  BY Zenon DEF updateTask
<1> HIDE DEF first, second, whole
<1> QED
  BY <1>3, <1>4, <1>5, AnswersDoc

\* Projects each of which is in a folder or in none
Filed(P) == \A p \in DOMAIN P : "folder" \in DOMAIN P[p]

\* Other projects for those of a document.
LEMMA NewProjectsFramed ==
    ASSUME NEW d, Framed(d), NEW P, Filed(P)
    PROVE  /\ Framed([d EXCEPT !.projects = P]) /\ InFolders([d EXCEPT !.projects = P], d)
           /\ [d EXCEPT !.projects = P].projects = P
           /\ \A u : Framed([d EXCEPT !.projects = P, !.used = u])
BY DEF Framed, Filed, InFolders

\* withFound answers with a document.
LEMMA FoundFramed ==
    \A d, f, id, r : Framed(d) /\ Framed(r.doc) => Framed(Found(d, f, id, r).doc)
BY DEF Found, Refuse

\* So do answers.
LEMMA AnswersFramed ==
    \A d, e, f, id, v, code : Framed(d) /\ Framed(e) =>
        /\ Framed(Found(d, f, id, Answer(e, v)).doc)
        /\ Framed(Found(d, f, id, Refuse(e, code)).doc)
        /\ Framed(Answer(e, v).doc) /\ Framed(Refuse(e, code).doc)
BY DEF Found, Answer, Refuse

\* The ways projects come, go and change keep each in its folder.
LEMMA ProjectRows ==
    /\ \A folder : "folder" \in DOMAIN NewProject(folder)
    /\ \A row, fields : "folder" \in DOMAIN row => "folder" \in DOMAIN Filled(row, fields)
    /\ \A P, p, row : Filed(P) /\ "folder" \in DOMAIN row => Filed(With(P, p, row))
    /\ \A P, S : Filed(P) => Filed(Without(P, S))
    /\ \A P, p, fields : Filed(P) => Filed([P EXCEPT ![p] = Over(@, fields)])
    /\ \A P, p, field, v : Filed(P) => Filed([P EXCEPT ![p][field] = v])
<1>1. \A folder : "folder" \in DOMAIN NewProject(folder)
  BY DEF NewProject
<1>2. \A row, fields : "folder" \in DOMAIN row => "folder" \in DOMAIN Filled(row, fields)
  BY DEF Filled
<1>3. \A P, p, row : Filed(P) /\ "folder" \in DOMAIN row => Filed(With(P, p, row))
  BY DEF Filed, With
<1>4. \A P, S : Filed(P) => Filed(Without(P, S))
  BY DEF Filed, Without, Restrict
<1>5. \A P, p, fields : Filed(P) => Filed([P EXCEPT ![p] = Over(@, fields)])
  BY DEF Filed, Over
<1>6. \A P, p, field, v : Filed(P) => Filed([P EXCEPT ![p][field] = v])
  BY DEF Filed
<1> QED
  BY <1>1, <1>2, <1>3, <1>4, <1>5, <1>6

\* One field of a project.
LEMMA SetProjectFramed ==
    ASSUME NEW d, Framed(d), NEW p, NEW field, NEW v
    PROVE  Framed(SetProject(d, p, field, v).doc) /\ InFolders(SetProject(d, p, field, v).doc, d)
<1> DEFINE P == [d.projects EXCEPT ![p][field] = v]
<1>1. Filed(P)
  BY ProjectRows DEF Framed, Filed
<1>2. [d EXCEPT !.projects[p][field] = v] = [d EXCEPT !.projects = P]
  OBVIOUS
<1> HIDE DEF P
<1>3. SetProject(d, p, field, v) = Found(d, d.projects, p, Answer([d EXCEPT !.projects = P], p))
  BY <1>2 DEF SetProject
<1>4. InFolders(d, d) /\ Framed([d EXCEPT !.projects = P]) /\ InFolders([d EXCEPT !.projects = P], d)
  BY <1>1, NewProjectsFramed DEF InFolders
<1> QED
  BY <1>3, <1>4 DEF Found, Answer, Refuse

\* The requests on projects that write.
LEMMA ProjectRequests ==
    ASSUME NEW d, Framed(d)
    PROVE  /\ \A p : Framed(completeProject(d, p).doc)
           /\ \A p : Framed(dropProject(d, p).doc)
           /\ \A p, f : Framed(moveProject(d, p, f).doc) /\ InFolders(moveProject(d, p, f).doc, d)
           /\ \A p, n : Framed(setProjectReviewInterval(d, p, n).doc)
           /\ \A p, n : Framed(setProjectNextReviewDate(d, p, n).doc)
           /\ \A p : Framed(markProjectReviewed(d, p).doc)
           /\ \A p : Framed(deleteProject(d, p).doc)
           /\ \A x, stuck : Framed(createProject(d, x, stuck).doc)
           /\ \A t, f : Framed(convertTaskToProject(d, t, f).doc)
<1>1. \A p, n : /\ Framed(completeProject(d, p).doc) /\ Framed(dropProject(d, p).doc)
               /\ Framed(setProjectReviewInterval(d, p, n).doc)
               /\ Framed(setProjectNextReviewDate(d, p, n).doc)
  BY SetProjectFramed DEF completeProject, ProjectComplete, dropProject, ProjectDrop,
     setProjectReviewInterval, ProjectSetReviewInterval, setProjectNextReviewDate, ProjectSetNextReviewDate
<1>2. \A p, f : Framed(moveProject(d, p, f).doc) /\ InFolders(moveProject(d, p, f).doc, d)
  BY SetProjectFramed, AnswersDoc DEF moveProject, ProjectMove, InFolders
<1>3. \A p : Framed(markProjectReviewed(d, p).doc)
  <2> TAKE p
  <2> DEFINE next == IF d.projects[p].interval = None THEN d.projects[p].next ELSE Today + d.projects[p].interval
             P == [d.projects EXCEPT ![p].last = Today, ![p].next = next]
             e == [d EXCEPT !.projects[p].last = Today,
                            !.projects[p].next = IF d.projects[p].interval = None THEN @
                                                 ELSE Today + d.projects[p].interval]
  <2>1. Filed(P)
    BY DEF Framed, Filed
  <2>2. Framed(e)
    BY DEF Framed
  <2>3. markProjectReviewed(d, p) = Found(d, d.projects, p, Answer(e, p))
    BY DEF markProjectReviewed, ProjectMarkReviewed
  <2> HIDE DEF e
  <2> QED
    BY <2>2, <2>3, AnswersFramed
<1>4. \A p : Framed(deleteProject(d, p).doc)
  <2> TAKE p
  <2> DEFINE b == DeleteTasks(d, FlattenedTasks(d, p))
             e == [b EXCEPT !.projects = Without(b.projects, {p})]
  <2>1. Framed(b)
    BY TasksComeAndGo, OnlyTasksIs
  <2> HIDE DEF b
  <2>2. Framed(e)
    BY <2>1, NewProjectsFramed, ProjectRows DEF Framed, Filed
  <2>3. deleteProject(d, p) = Found(d, d.projects, p, Answer(e, p))
    BY DEF deleteProject, ProjectDelete, b
  <2> HIDE DEF e
  <2> QED
    BY <2>2, <2>3, AnswersFramed
<1>5. \A x, stuck : Framed(createProject(d, x, stuck).doc)
  <2>1. ASSUME NEW a, NEW stuck PROVE Framed(ProjectCreate(d, a, stuck).doc)
    <3> DEFINE p == NewId(d, ProjectIds)
               row == Filled(NewProject(a.folder), Without(a.fields, {"tags"}))
               put(x) == [d EXCEPT !.projects = With(@, p, x), !.used = @ \cup {p}]
               made == put(row)
               half == put(Filled(NewProject(a.folder), SetFirst(a.fields)))
               gone == [half EXCEPT !.projects = Without(@, {p})]
    <3>1. \A x : "folder" \in DOMAIN x => Framed(put(x))
      <4> SUFFICES ASSUME NEW x, "folder" \in DOMAIN x PROVE Framed(put(x))
        OBVIOUS
      <4> DEFINE P == With(d.projects, p, x)
      <4>1. Filed(P)
        BY ProjectRows DEF Framed, Filed
      <4> HIDE DEF P, p
      <4> QED
        BY <4>1, NewProjectsFramed DEF P
    <3>2. Framed(made) /\ Framed(half)
      BY <3>1, ProjectRows
    <3>3. ProjectCreate(d, a, stuck) =
             CASE a.blank -> Refuse(d, "Validation")
               [] ~a.blank /\ a.folder # None /\ ~Has(d.folders, a.folder) -> Refuse(d, "NotFound")
               [] OTHER -> CASE row.interval # 0 -> Answer(made, BuildProject(made, p))
                             [] row.interval = 0 /\ stuck -> Refuse(half, "Validation")
                             [] row.interval = 0 /\ ~stuck -> Refuse(gone, "Validation")
      BY DEF ProjectCreate
    <3> HIDE DEF made, half, row, p
    <3>4. Framed(gone)
      BY <3>2, NewProjectsFramed, ProjectRows DEF Framed, Filed
    <3> HIDE DEF gone
    <3> QED
      BY <3>2, <3>3, <3>4, AnswersFramed
  <2> QED
    BY <2>1 DEF createProject
<1>6. \A t, f : Framed(convertTaskToProject(d, t, f).doc)
  <2> TAKE t, f
  <2> DEFINE b == DeleteTasks(d, {t})
             x == d.tasks[t]
             p == [NewProject(f) EXCEPT !.flagged = x.flagged, !.note = x.note, !.tags = x.tags]
             P == With(b.projects, t, p)
             e == [b EXCEPT !.projects = P]
  <2>1. Framed(b)
    BY TasksComeAndGo, OnlyTasksIs
  <2>2. "folder" \in DOMAIN p
    BY DEF NewProject
  <2>3. convertTaskToProject(d, t, f) =
          Found(d, d.tasks, t, IF f # None /\ ~Has(d.folders, f) THEN Refuse(d, "NotFound") ELSE Answer(e, t))
    BY DEF convertTaskToProject, TaskConvertToProject
  <2> HIDE DEF b, p
  <2>4. Filed(P)
    BY <2>1, <2>2, ProjectRows DEF Framed, Filed
  <2> HIDE DEF P
  <2>5. Framed(e)
    BY <2>1, <2>4, NewProjectsFramed
  <2> HIDE DEF e
  <2> QED
    BY <2>3, <2>5, AnswersFramed
<1> QED
  BY <1>1, <1>2, <1>3, <1>4, <1>5, <1>6

\* The note of a project: the folder it is in stays
LEMMA ProjectUpdates ==
    ASSUME NEW d, Framed(d), NEW p, NEW patch, NEW cut
    PROVE  Framed(updateProject(d, p, patch, cut).doc) /\ InTasks(updateProject(d, p, patch, cut).doc, d)
<1> DEFINE few == Only(patch, {"note", "noteHtml", "flagged", "status"})
           set(fields) == [d EXCEPT !.projects[p] = Over(@, Restrict(few, DOMAIN few \cap fields))]
<1>1. ASSUME NEW names, "folder" \notin names PROVE Framed(set(names)) /\ InTasks(set(names), d)
  <2> DEFINE fields == Restrict(few, DOMAIN few \cap names)
             row == Over(d.projects[p], fields)
             P == [d.projects EXCEPT ![p] = row]
  <2>1. set(names) = [d EXCEPT !.projects = P]
    OBVIOUS
  <2>2. "folder" \notin DOMAIN fields
    BY <1>1 DEF Restrict
  <2> HIDE DEF fields
  <2>3. p \in DOMAIN d.projects => "folder" \in DOMAIN row /\ row.folder = d.projects[p].folder
    BY <2>2 DEF Framed, Over, Has
  <2> HIDE DEF row
  <2>4. /\ Filed(P) /\ DOMAIN P = DOMAIN d.projects
        /\ \A q \in DOMAIN d.projects : P[q].folder = d.projects[q].folder
    BY <2>3 DEF Framed, Filed
  <2> HIDE DEF P, set
  <2> QED
    <3> DEFINE e == [d EXCEPT !.projects = P]
    <3>1. Framed(e) /\ e.projects = P
      BY <2>4, NewProjectsFramed
    <3>2. e.folders = d.folders
      OBVIOUS
    <3> HIDE DEF e
    <3>3. InTasks(e, d)
      BY <2>4, <3>1, <3>2 DEF InTasks
    <3> QED
      BY <2>1, <3>1, <3>3 DEF e
<1>2. updateProject(d, p, patch, cut) =
        Found(d, d.projects, p,
              CASE Has(few, "noteHtml") -> Refuse(set({"note"}), "Unsupported")
                [] ~Has(few, "noteHtml") /\ cut -> Refuse(set({"note", "flagged"}), "Script")
                [] OTHER -> Answer(set(ProjectSettable), BuildProject(set(ProjectSettable), p)))
  BY DEF updateProject, ProjectUpdate
<1>3. /\ InTasks(d, d) /\ "folder" \notin {"note"} /\ "folder" \notin {"note", "flagged"}
      /\ "folder" \notin ProjectSettable
  BY DEF InTasks, ProjectSettable
<1> HIDE DEF few, set
<1> QED
  BY <1>1, <1>2, <1>3 DEF Found, Answer, Refuse

\* The requests on tags that write change tasks and tags.
LEMMA TagRequests ==
    ASSUME NEW d, Framed(d)
    PROVE  /\ \A x : Framed(createTag(d, x).doc) /\ InTasks(createTag(d, x).doc, d)
           /\ \A g, patch : Framed(updateTag(d, g, patch).doc) /\ InTasks(updateTag(d, g, patch).doc, d)
           /\ \A g : Framed(deleteTag(d, g).doc) /\ InTasks(deleteTag(d, g).doc, d)
<1> DEFINE Fine(e) == Framed(e) /\ InTasks(e, d)
<1>1. \A T, u : Fine([d EXCEPT !.tags = T]) /\ Fine([d EXCEPT !.tags = T, !.used = u])
  BY DEF Framed, InTasks
<1>2. Fine(d)
  BY DEF InTasks
<1> HIDE DEF Fine
<1>3. \A e, v, code, f, id : Fine(e) => /\ Fine(Answer(e, v).doc) /\ Fine(Refuse(e, code).doc)
                                        /\ Fine(Found(d, f, id, Answer(e, v)).doc)
  BY <1>2 DEF Answer, Refuse, Found
<1>4. \A x : Fine(createTag(d, x).doc)
  <2>1. ASSUME NEW a PROVE Fine(TagCreate(d, a).doc)
    <3> DEFINE g == NewId(d, TagIds)
               row == Filled(NewTag(a.parent), Restrict(a, DOMAIN a \cap {"name"}))
               made == [d EXCEPT !.tags = With(d.tags, g, row), !.used = d.used \cup {g}]
    <3>1. TagCreate(d, a) =
            CASE a.blank -> Refuse(d, "Validation")
              [] ~a.blank /\ a.parent # None /\ ~Has(d.tags, a.parent) -> Refuse(d, "NotFound")
              [] OTHER -> Answer(made, BuildTag(made, g))
      BY DEF TagCreate
    <3>2. Fine(made)
      BY <1>1
    <3> HIDE DEF made
    <3> QED
      BY <1>2, <1>3, <3>1, <3>2
  <2> QED
    BY <2>1 DEF createTag
<1>5. \A g, patch : Fine(updateTag(d, g, patch).doc)
  <2> TAKE g, patch
  <2> DEFINE few == Only(patch, {"status", "nextAction"})
             e == [d EXCEPT !.tags[g] = Over(@, Restrict(few, DOMAIN few \cap {"status", "nextAction"}))]
  <2>1. \E T : e = [d EXCEPT !.tags = T]
    OBVIOUS
  <2>2. updateTag(d, g, patch) = Found(d, d.tags, g, Answer(e, BuildTag(e, g)))
    BY DEF updateTag, TagUpdate
  <2> HIDE DEF e
  <2> QED
    BY <1>1, <1>3, <2>1, <2>2
<1>6. \A g : Fine(deleteTag(d, g).doc)
  <2> TAKE g
  <2> DEFINE S == TagsIn(d, g)
             bare(f) == [x \in DOMAIN f |-> [f[x] EXCEPT !.tags = @ \ S]]
             U == Without(d.tags, S)
             T == bare(d.tasks)
             P == bare(d.projects)
             e == [d EXCEPT !.tags = U, !.tasks = T, !.projects = P]
  <2>1. deleteTag(d, g) = Found(d, d.tags, g, Answer(e, g))
    BY DEF deleteTag, TagDelete
  <2>2. DOMAIN T = DOMAIN d.tasks /\ DOMAIN P = DOMAIN d.projects
    OBVIOUS
  <2>3. \A p \in DOMAIN d.projects : "folder" \in DOMAIN P[p] /\ P[p].folder = d.projects[p].folder
    BY DEF Framed
  <2> HIDE DEF S, U, T, P
  <2>4. Fine(e)
    BY <2>2, <2>3 DEF Fine, Framed, InTasks
  <2> HIDE DEF e
  <2> QED
    BY <1>3, <2>1, <2>4
<1> QED
  BY <1>4, <1>5, <1>6 DEF Fine

\* The requests on folders that write change folders and the projects in them.
LEMMA FolderRequests ==
    ASSUME NEW d, Framed(d)
    PROVE  /\ \A x : Framed(createFolder(d, x).doc) /\ InFolders(createFolder(d, x).doc, d)
           /\ \A f, patch : Framed(updateFolder(d, f, patch).doc) /\ InFolders(updateFolder(d, f, patch).doc, d)
           /\ \A f : Framed(deleteFolder(d, f).doc) /\ InFolders(deleteFolder(d, f).doc, d)
<1> DEFINE Fine(e) == Framed(e) /\ InFolders(e, d)
<1>1. \A T, u : Fine([d EXCEPT !.folders = T]) /\ Fine([d EXCEPT !.folders = T, !.used = u])
  BY DEF Framed, InFolders
<1>2. Fine(d)
  BY DEF InFolders
<1> HIDE DEF Fine
<1>3. \A e, v, code, f, id : Fine(e) => /\ Fine(Answer(e, v).doc) /\ Fine(Refuse(e, code).doc)
                                        /\ Fine(Found(d, f, id, Answer(e, v)).doc)
                                        /\ Fine(Found(d, f, id, Refuse(e, code)).doc)
  BY <1>2 DEF Answer, Refuse, Found
<1>4. \A x : Fine(createFolder(d, x).doc)
  <2> TAKE a
  <2> DEFINE f == NewId(d, FolderIds)
             row == Filled(NewFolder(a.parent), Restrict(a, DOMAIN a \cap {"name"}))
             made == [d EXCEPT !.folders = With(d.folders, f, row), !.used = d.used \cup {f}]
  <2>1. createFolder(d, a) =
          CASE a.blank -> Refuse(d, "Validation")
            [] ~a.blank /\ a.parent # None /\ ~Has(d.folders, a.parent) -> Refuse(d, "NotFound")
            [] OTHER -> Answer(made, BuildFolder(made, f))
    BY DEF createFolder, FolderCreate
  <2>2. Fine(made)
    BY <1>1
  <2> HIDE DEF made
  <2> QED
    BY <1>2, <1>3, <2>1, <2>2
<1>5. \A f, patch : Fine(updateFolder(d, f, patch).doc)
  BY <1>2, <1>3 DEF updateFolder, FolderUpdate, FolderGet
<1>6. \A f : Fine(deleteFolder(d, f).doc)
  <2> TAKE f
  <2> DEFINE e == [d EXCEPT !.folders = Without(d.folders, {f})]
  <2>1. Fine(e)
    BY <1>1
  <2>2. deleteFolder(d, f) = Found(d, d.folders, f,
          IF ProjectsIn(d, f) \cup FoldersIn(d, f) # {} THEN Refuse(d, "Script") ELSE Answer(e, f))
    BY DEF deleteFolder, FolderDelete
  <2> HIDE DEF e
  <2> QED
    BY <1>2, <1>3, <2>1, <2>2
<1> QED
  BY <1>4, <1>5, <1>6 DEF Fine

\* What is shown in no listing: perspectives, attachments, the window, the forecast tag
Aside(e, d) == Framed(e) /\ Still(e, d)

\* The requests that write aside of all that is listed.
LEMMA AsideRequests ==
    ASSUME NEW d, Framed(d)
    PROVE  /\ \A x : Aside(setForecastTagWithName(d, x).doc, d)
           /\ \A x : Aside(createCustomPerspective(d, x, "no").doc, d)
           /\ \A x, patch : Aside(updateCustomPerspective(d, x, patch, "no").doc, d)
           /\ \A x : Aside(deleteCustomPerspective(d, x).doc, d)
           /\ \A x : Aside(evaluatePerspectiveRules(d, x, "no").doc, d)
           /\ \A o : Aside(addAttachment(d, o).doc, d)
           /\ \A o, x : Aside(removeAttachment(d, o, x).doc, d)
           /\ \A o, x, path : Aside(saveAttachmentToPath(d, o, x, path, {}).doc, d)
           /\ \A x : Aside(setWindowFocus(d, x).doc, d)
           /\ \A x : Aside(setWindowPerspective(d, x).doc, d)
<1>1. /\ \A x : Aside([d EXCEPT !.fcTag = x], d)
      /\ \A x, u : Aside([d EXCEPT !.persp = x], d) /\ Aside([d EXCEPT !.persp = x, !.used = u], d)
      /\ \A u : Aside([d EXCEPT !.used = u], d)
      /\ \A x, u : Aside([d EXCEPT !.attach = x], d) /\ Aside([[d EXCEPT !.attach = x] EXCEPT !.used = u], d)
      /\ \A x : Aside([d EXCEPT !.saved = x], d)
      /\ \A x : Aside([d EXCEPT !.window.focus = x], d)
      /\ \A x : Aside([d EXCEPT !.window.perspective = x], d)
  BY DEF Aside, Still, Framed
<1>2. Aside(d, d)
  BY DEF Aside, Still
<1>3. \A e, v, code, f, id : Aside(e, d) =>
         /\ Aside(Answer(e, v).doc, d) /\ Aside(Refuse(e, code).doc, d)
         /\ Aside(Found(d, f, id, Answer(e, v)).doc, d) /\ Aside(Found(d, f, id, Refuse(e, code)).doc, d)
  BY <1>2 DEF Answer, Refuse, Found
<1>4. \A f, id, r : Aside(r.doc, d) => Aside(Found(d, f, id, r).doc, d) /\ Aside(WithWindow(d, r).doc, d)
  BY <1>2 DEF Refuse, Found, WithWindow
<1>5. \A o, r : Aside(r.doc, d) => Aside(Owner(d, o, r).doc, d)
  BY <1>2, <1>3, <1>4 DEF Owner
<1>6. \A x : Aside(setForecastTagWithName(d, x).doc, d)
  BY <1>1, <1>3 DEF setForecastTagWithName, ForecastTagSetWithName
<1>7. \A x : Aside(createCustomPerspective(d, x, "no").doc, d)
  BY <1>1, <1>2, <1>3 DEF createCustomPerspective, PerspectiveCreate
<1>8. \A x, patch : Aside(updateCustomPerspective(d, x, patch, "no").doc, d)
  <2> TAKE x, patch
  <2> DEFINE kept == DOMAIN patch
             e == [d EXCEPT !.persp[x] = Over(@, Restrict(patch, DOMAIN patch \cap kept))]
  <2>1. Aside(e, d)
    BY DEF Aside, Still, Framed
  <2>2. updateCustomPerspective(d, x, patch, "no") =
          Found(d, d.persp, x,
             CASE Has(patch, "name") /\ patch.name = None -> Refuse(d, "Validation")
               [] Has(patch, "name") /\ patch.name # None /\ Named(d, patch.name) \ {x} # {} ->
                     Refuse(d, "Validation")
               [] OTHER -> Answer(e, x))
    BY DEF updateCustomPerspective, PerspectiveUpdate
  <2> HIDE DEF e
  <2> QED
    BY <1>2, <1>3, <1>4, <2>1, <2>2
<1>9. \A x : Aside(deleteCustomPerspective(d, x).doc, d)
  BY <1>1, <1>3 DEF deleteCustomPerspective, PerspectiveDelete
<1>10. \A x : Aside(evaluatePerspectiveRules(d, x, "no").doc, d)
  BY <1>1, <1>3 DEF evaluatePerspectiveRules, PerspectiveEvaluateDryRun
<1>11. \A o : Aside(addAttachment(d, o).doc, d)
  BY <1>1, <1>3, <1>5 DEF addAttachment, AttachmentAdd, SetAttached
<1>12. \A o, x : Aside(removeAttachment(d, o, x).doc, d)
  BY <1>1, <1>2, <1>3, <1>5 DEF removeAttachment, AttachmentRemove, SetAttached
<1>13. \A o, x, path : Aside(saveAttachmentToPath(d, o, x, path, {}).doc, d)
  BY <1>1, <1>2, <1>3, <1>5 DEF saveAttachmentToPath, AttachmentSaveToPath
<1>14. \A x : Aside(setWindowFocus(d, x).doc, d) /\ Aside(setWindowPerspective(d, x).doc, d)
  BY <1>1, <1>2, <1>3, <1>4 DEF setWindowFocus, WindowSetFocus, setWindowPerspective,
     WindowSetPerspective
<1> QED
  BY <1>6, <1>7, <1>8, <1>9, <1>10, <1>11, <1>12, <1>13, <1>14

\* The listings that show tasks, and those that show folders
TaskKinds == {"search", "tag", "forecast"}
FolderKinds == {"folder", "search"}

\* The scopes of S cover every listing of the kinds of A.
Hides(S, A) == \A k : ListingKey(k) /\ k[1] \in A => \E s \in S : Covers(s, k)

\* A key of the cache that looks like a listing is one.
KeyOK(k) == Listing(k) => ListingKey(k)

\* A step that changes listings of the kinds of A only, invalidates all of
\* these if any, and caches nothing that is not known.
Clean(s, d, A) ==
    /\ s.kind \in {"ask", "try"} => Within(A, s.does.doc, d)
    /\ s.drop # {} => Hides(s.drop, A)
    /\ s.kind = "cached" => KeyOK(s.key)

\* A call that does not end well
Pays(s) == s.kind # "clarify" /\ (s.kind = "reply" /\ s.code = "OK" => s.drop # {})

\* The scopes of listings (src/cache/keys.ts).
LEMMA ScopesCover ==
    /\ \A f : /\ Covers(<<"search">>, <<"search", "tasks", f>>)
              /\ Covers(<<"search">>, <<"search", "projects", f>>)
              /\ Covers(<<"tag", "list">>, <<"tag", "list", f>>)
              /\ Covers(<<"folder", "list">>, <<"folder", "list", f>>)
              /\ Covers(<<"forecast">>, <<"forecast", f>>)
              /\ Covers(<<>>, <<"search", "tasks", f>>)
              /\ Covers(<<>>, <<"search", "projects", f>>)
              /\ Covers(<<>>, <<"tag", "list", f>>)
              /\ Covers(<<>>, <<"folder", "list", f>>)
              /\ Covers(<<>>, <<"forecast", f>>)
BY DEF Covers, IsPrefix

\* The scopes of tasks, of all, and of folders.
LEMMA HidingScopes ==
    /\ \A S : Derived \subseteq S => Hides(S, TaskKinds) /\ S # {}
    /\ \A S : Derived \subseteq S /\ <<"folder", "list">> \in S => Hides(S, Kinds) /\ S # {}
    /\ \A S : <<"folder", "list">> \in S /\ <<"search">> \in S => Hides(S, FolderKinds) /\ S # {}
    /\ \A S : <<>> \in S => Hides(S, Kinds) /\ S # {}
    /\ \A S : Hides(S, {})
<1>1. \A S : Derived \subseteq S => Hides(S, TaskKinds) /\ S # {}
  <2> SUFFICES ASSUME NEW S, Derived \subseteq S, NEW k, ListingKey(k), k[1] \in TaskKinds
               PROVE  \E s \in S : Covers(s, k)
    BY DEF Hides, Derived
  <2>1. <<"search">> \in S /\ <<"tag", "list">> \in S /\ <<"forecast">> \in S
    BY DEF Derived
  <2>2. k[1] # "folder"
    BY DEF TaskKinds
  <2>3. CASE \E f : k = <<"search", "tasks", f>> \/ k = <<"search", "projects", f>>
    BY <2>1, <2>3, ScopesCover
  <2>4. CASE \E f : k = <<"tag", "list", f>> \/ k = <<"folder", "list", f>>
    <3>1. PICK f : k = <<"tag", "list", f>> \/ k = <<"folder", "list", f>>
      BY <2>4
    <3>2. k = <<"tag", "list", f>>
      BY <2>2, <3>1
    <3> QED
      BY <2>1, <3>2, ScopesCover
  <2>5. CASE \E f : k = <<"forecast", f>>
    BY <2>1, <2>5, ScopesCover
  <2> QED
    BY <2>3, <2>4, <2>5 DEF ListingKey
<1>2. \A S : Derived \subseteq S /\ <<"folder", "list">> \in S => Hides(S, Kinds) /\ S # {}
  <2> SUFFICES ASSUME NEW S, Derived \subseteq S, <<"folder", "list">> \in S, NEW k, ListingKey(k)
               PROVE  \E s \in S : Covers(s, k)
    BY DEF Hides, Derived
  <2>1. <<"search">> \in S /\ <<"tag", "list">> \in S /\ <<"forecast">> \in S
    BY DEF Derived
  <2> QED
    BY <2>1, ScopesCover DEF ListingKey
<1>3. \A S : <<"folder", "list">> \in S /\ <<"search">> \in S => Hides(S, FolderKinds) /\ S # {}
  <2> SUFFICES ASSUME NEW S, <<"folder", "list">> \in S, <<"search">> \in S,
                      NEW k, ListingKey(k), k[1] \in FolderKinds
               PROVE  \E s \in S : Covers(s, k)
    BY DEF Hides
  <2>1. k[1] \in {"folder", "search"}
    BY DEF FolderKinds
  <2>2. CASE \E f : k = <<"search", "tasks", f>> \/ k = <<"search", "projects", f>>
    BY <2>2, ScopesCover
  <2>3. CASE \E f : k = <<"tag", "list", f>> \/ k = <<"folder", "list", f>>
    <3>1. PICK f : k = <<"tag", "list", f>> \/ k = <<"folder", "list", f>>
      BY <2>3
    <3>2. k = <<"folder", "list", f>>
      BY <2>1, <3>1
    <3> QED
      BY <3>2, ScopesCover
  <2>4. CASE \E f : k = <<"forecast", f>>
    BY <2>1, <2>4
  <2> QED
    BY <2>2, <2>3, <2>4 DEF ListingKey
<1>4. \A S : <<>> \in S => Hides(S, Kinds) /\ S # {}
  BY ScopesCover DEF Hides, ListingKey
<1>5. \A S : Hides(S, {})
  BY DEF Hides
<1> QED
  BY <1>1, <1>2, <1>3, <1>4, <1>5

\* The scopes the tools invalidate.
LEMMA TaskScopesHide ==
    /\ \A T, P, S : Hides(TaskScopes(T, P) \cup S, TaskKinds) /\ Hides(TaskScopes(T, P), TaskKinds)
    /\ \A T, P, S : TaskScopes(T, P) \cup S # {} /\ TaskScopes(T, P) # {}
    /\ \A t, row, S : Hides(Around(t, row) \cup S, TaskKinds) /\ Hides(Around(t, row), TaskKinds)
    /\ \A t, row, S : Around(t, row) \cup S # {} /\ Around(t, row) # {}
<1>1. \A T, P, S : Derived \subseteq TaskScopes(T, P) \cup S /\ Derived \subseteq TaskScopes(T, P)
  BY DEF TaskScopes
<1>2. \A t, row, S : Derived \subseteq Around(t, row) \cup S /\ Derived \subseteq Around(t, row)
  BY <1>1 DEF Around
<1> QED
  BY <1>1, <1>2, HidingScopes

\* The scopes of a project, and of a tag.
LEMMA OtherScopesHide ==
    /\ \A p, S : Hides(ProjectScopes(p), Kinds) /\ Hides(S \cup ProjectScopes(p), Kinds)
    /\ \A p : Hides(ProjectScopes(p), TaskKinds)
    /\ \A p, S : ProjectScopes(p) # {} /\ S \cup ProjectScopes(p) # {}
    /\ \A g : Hides(TagScopes(g), TaskKinds) /\ TagScopes(g) # {}
    /\ \A f : Hides(FolderScopes(f), FolderKinds) /\ FolderScopes(f) # {}
    /\ Hides(Everything, Kinds) /\ Everything # {}
<1>1. \A p, S : /\ Derived \subseteq ProjectScopes(p) /\ <<"folder", "list">> \in ProjectScopes(p)
                /\ Derived \subseteq S \cup ProjectScopes(p) /\ <<"folder", "list">> \in S \cup ProjectScopes(p)
  BY DEF ProjectScopes
<1>2. \A g : Derived \subseteq TagScopes(g)
  BY DEF TagScopes
<1>3. \A f : <<"folder", "list">> \in FolderScopes(f) /\ <<"search">> \in FolderScopes(f)
  BY DEF FolderScopes
<1>4. <<>> \in Everything
  BY DEF Everything
<1> QED
  BY <1>1, <1>2, <1>3, <1>4, HidingScopes

\* The ways to write a step.
LEMMA CleanSteps ==
    /\ \A d, A, r : Within(A, r.doc, d) => Clean(Ask(r), d, A) /\ Clean(Try(r), d, A)
    /\ \A d, A, S, r : Within(A, r.doc, d) /\ Hides(S, A) =>
           Clean(Flush(S, Ask(r)), d, A) /\ Clean(Flush(S, Try(r)), d, A)
    /\ \A d, A, S, v : Hides(S, A) => Clean(Done(S, v), d, A) /\ Clean(Flush(S, Same(v)), d, A)
    /\ \A d, A, code, v : /\ Clean(Reply(code, v), d, A) /\ Clean(Same(v), d, A) /\ Clean(Fail(code), d, A)
                          /\ Clean(Preview(v), d, A) /\ Clean(NoChange, d, A)
    /\ \A d, A, k : KeyOK(k) => Clean(Cached(k), d, A)
    /\ \A d, A, c : Clean(Clarify(c), d, A)
<1>1. \A d, A, r : Within(A, r.doc, d) => Clean(Ask(r), d, A) /\ Clean(Try(r), d, A)
  BY DEF Clean, Ask, Try
<1>2. \A d, A, S, r : Within(A, r.doc, d) /\ Hides(S, A) =>
           Clean(Flush(S, Ask(r)), d, A) /\ Clean(Flush(S, Try(r)), d, A)
  <2> TAKE d, A, S, r
  <2>1. {} \cup S = S
    OBVIOUS
  <2> QED
    BY <2>1 DEF Clean, Ask, Try, Flush
<1>3. \A d, A, S, v : Hides(S, A) => Clean(Done(S, v), d, A) /\ Clean(Flush(S, Same(v)), d, A)
  <2> TAKE d, A, S, v
  <2>1. {} \cup S = S
    OBVIOUS
  <2> QED
    BY <2>1 DEF Clean, Done, Same, Flush, Reply
<1>4. \A d, A, code, v : /\ Clean(Reply(code, v), d, A) /\ Clean(Same(v), d, A) /\ Clean(Fail(code), d, A)
                         /\ Clean(Preview(v), d, A) /\ Clean(NoChange, d, A)
  BY DEF Clean, Reply, Same, Fail, Preview, NoChange
<1>5. \A d, A, k : KeyOK(k) => Clean(Cached(k), d, A)
  BY DEF Clean, Cached
<1>6. \A d, A, c : Clean(Clarify(c), d, A)
  BY DEF Clean, Clarify
<1> QED
  BY <1>1, <1>2, <1>3, <1>4, <1>5, <1>6

\* The ways to write one that does not say OK with nothing invalidated.
LEMMA PayingSteps ==
    /\ \A r : Pays(Ask(r)) /\ Pays(Try(r))
    /\ \A S, r : Pays(Flush(S, Ask(r))) /\ Pays(Flush(S, Try(r)))
    /\ \A k : Pays(Cached(k))
    /\ \A S, v : S # {} => Pays(Done(S, v))
    /\ \A code, v : code # "OK" => Pays(Reply(code, v)) /\ Pays(Fail(code))
    /\ \A v : Pays(Preview(v)) /\ Pays(NoChange)
<1>1. \A S, v : S # {} => Pays(Done(S, v))
  <2> TAKE S, v
  <2>1. {} \cup S = S
    OBVIOUS
  <2> QED
    BY <2>1 DEF Pays, Done, Same, Flush, Reply
<1>2. /\ \A r : Pays(Ask(r)) /\ Pays(Try(r))
      /\ \A S, r : Pays(Flush(S, Ask(r))) /\ Pays(Flush(S, Try(r)))
      /\ \A k : Pays(Cached(k))
      /\ \A code, v : code # "OK" => Pays(Reply(code, v)) /\ Pays(Fail(code))
      /\ \A v : Pays(Preview(v)) /\ Pays(NoChange)
  BY DEF Pays, Ask, Try, Flush, Cached, Reply, Fail, Preview, NoChange
<1> QED
  BY <1>1, <1>2

\* A reading request changes nothing.
LEMMA ReadsWithin == \A d, A, r : Framed(d) /\ Looking(r, d) => Within(A, r.doc, d)
BY DEF Looking, Within

\* What the writing requests change, as kinds of listings.
LEMMA WritesWithin ==
    \A d, e : Framed(d) =>
        /\ OnlyTasks(e, d) => Within(TaskKinds, e, d)
        /\ Framed(e) /\ InTasks(e, d) => Within(TaskKinds, e, d)
        /\ Framed(e) /\ InFolders(e, d) => Within(FolderKinds, e, d)
        /\ Framed(e) => Within(Kinds, e, d)
        /\ Aside(e, d) => Within({}, e, d)
BY OnlyTasksIs, InTasksWithin, InFoldersWithin, AnyWithin, StillWithin DEF TaskKinds, FolderKinds, Aside

\* Steps that read, and steps that write, in a document that is framed
LEMMA ReadingSteps ==
    ASSUME NEW d, Framed(d)
    PROVE  /\ \A A, r : Looking(r, d) => Clean(Ask(r), d, A) /\ Clean(Try(r), d, A)
           /\ \A A, S, r : Looking(r, d) /\ Hides(S, A) =>
                  Clean(Flush(S, Ask(r)), d, A) /\ Clean(Flush(S, Try(r)), d, A)
BY ReadsWithin, CleanSteps

\* Steps that write.
LEMMA WritingSteps ==
    ASSUME NEW d, Framed(d)
    PROVE  /\ \A r : OnlyTasks(r.doc, d) => Clean(Ask(r), d, TaskKinds) /\ Clean(Try(r), d, TaskKinds)
           /\ \A r : Framed(r.doc) /\ InTasks(r.doc, d) =>
                  Clean(Ask(r), d, TaskKinds) /\ Clean(Try(r), d, TaskKinds)
           /\ \A r : Framed(r.doc) /\ InFolders(r.doc, d) =>
                  Clean(Ask(r), d, FolderKinds) /\ Clean(Try(r), d, FolderKinds)
           /\ \A r : Framed(r.doc) => Clean(Ask(r), d, Kinds) /\ Clean(Try(r), d, Kinds)
           /\ \A r : Aside(r.doc, d) => Clean(Ask(r), d, {})
BY WritesWithin, CleanSteps

\* assertNotModifiedSince, dryRunGuard and what they let through.
LEMMA GuardedSteps ==
    ASSUME NEW d, NEW A, NEW r, Clean(Ask(r), d, A), NEW a, NEW row, NEW v
    PROVE  LET s == Guarded(a, row, Preview(v), Ask(r)) IN Clean(s, d, A) /\ Pays(s)
<1>1. Pays(Fail("Conflict"))
  BY DEF Pays, Fail, Reply
<1> QED
  BY <1>1, CleanSteps, PayingSteps DEF Guarded

\* src/tools/task
LEMMA TaskToolsPay ==
    ASSUME NEW d, Framed(d), NEW a, NEW g
    PROVE  /\ Clean(task_uncomplete(d, a, g), d, TaskKinds) /\ Pays(task_uncomplete(d, a, g))
           /\ Clean(task_drop(d, a, g), d, TaskKinds) /\ Pays(task_drop(d, a, g))
           /\ Clean(task_undrop(d, a, g), d, TaskKinds) /\ Pays(task_undrop(d, a, g))
           /\ Clean(task_delete(d, a, g), d, TaskKinds) /\ Pays(task_delete(d, a, g))
           /\ Clean(task_duplicate(d, a, g), d, TaskKinds) /\ Pays(task_duplicate(d, a, g))
           /\ Clean(task_move(d, a, g), d, TaskKinds) /\ Pays(task_move(d, a, g))
           /\ Clean(task_reorder(d, a, g), d, TaskKinds) /\ Pays(task_reorder(d, a, g))
           /\ Clean(task_update(d, a, g), d, TaskKinds) /\ Pays(task_update(d, a, g))
           /\ Clean(task_clear_alarms(d, a, g), d, TaskKinds) /\ Pays(task_clear_alarms(d, a, g))
           /\ Clean(task_set_repetition(d, a, g), d, TaskKinds) /\ Pays(task_set_repetition(d, a, g))
           /\ Clean(task_clear_repetition(d, a, g), d, TaskKinds) /\ Pays(task_clear_repetition(d, a, g))
           /\ Clean(task_set_alarms(d, a, g), d, TaskKinds) /\ Pays(task_set_alarms(d, a, g))
           /\ Clean(task_defer_smart(d, a, g), d, TaskKinds) /\ Pays(task_defer_smart(d, a, g))
           /\ Clean(task_set_waiting_on(d, a, g), d, TaskKinds) /\ Pays(task_set_waiting_on(d, a, g))
           /\ Clean(task_clear_waiting_on(d, a, g), d, TaskKinds) /\ Pays(task_clear_waiting_on(d, a, g))
<1>1. Clean(task_uncomplete(d, a, g), d, TaskKinds) /\ Pays(task_uncomplete(d, a, g))
  BY TaskReads, LibraryReads, ReadingSteps, WritingSteps, CleanSteps, PayingSteps, TaskScopesHide,
     TaskRequests
     DEF task_uncomplete, Change
<1>2. Clean(task_drop(d, a, g), d, TaskKinds) /\ Pays(task_drop(d, a, g))
  BY TaskReads, LibraryReads, ReadingSteps, WritingSteps, CleanSteps, PayingSteps, TaskScopesHide,
     TaskRequests
     DEF task_drop, Change
<1>3. Clean(task_undrop(d, a, g), d, TaskKinds) /\ Pays(task_undrop(d, a, g))
  BY TaskReads, LibraryReads, ReadingSteps, WritingSteps, CleanSteps, PayingSteps, TaskScopesHide,
     TaskRequests
     DEF task_undrop, Change
<1>4. Clean(task_delete(d, a, g), d, TaskKinds) /\ Pays(task_delete(d, a, g))
  BY TaskReads, LibraryReads, ReadingSteps, WritingSteps, CleanSteps, PayingSteps, TaskScopesHide,
     TaskRequests, GuardedSteps
     DEF task_delete
<1>5. Clean(task_duplicate(d, a, g), d, TaskKinds) /\ Pays(task_duplicate(d, a, g))
  BY TaskReads, LibraryReads, ReadingSteps, WritingSteps, CleanSteps, PayingSteps, TaskScopesHide,
     TaskRequests
     DEF task_duplicate
<1>6. Clean(task_move(d, a, g), d, TaskKinds) /\ Pays(task_move(d, a, g))
  BY TaskReads, LibraryReads, ReadingSteps, WritingSteps, CleanSteps, PayingSteps, TaskScopesHide,
     TaskRequests
     DEF task_move
<1>7. Clean(task_reorder(d, a, g), d, TaskKinds) /\ Pays(task_reorder(d, a, g))
  BY TaskReads, LibraryReads, ReadingSteps, WritingSteps, CleanSteps, PayingSteps, TaskScopesHide,
     TaskRequests
     DEF task_reorder
<1>8. Clean(task_update(d, a, g), d, TaskKinds) /\ Pays(task_update(d, a, g))
  BY TaskReads, LibraryReads, ReadingSteps, WritingSteps, CleanSteps, PayingSteps, TaskScopesHide,
     UpdatesOnlyTasks, GuardedSteps
     DEF task_update
<1>9. Clean(task_clear_alarms(d, a, g), d, TaskKinds) /\ Pays(task_clear_alarms(d, a, g))
  BY TaskReads, LibraryReads, ReadingSteps, WritingSteps, CleanSteps, PayingSteps, TaskScopesHide,
     TaskRequests
     DEF task_clear_alarms, WriteThenRead
<1>10. Clean(task_set_repetition(d, a, g), d, TaskKinds) /\ Pays(task_set_repetition(d, a, g))
  BY TaskReads, LibraryReads, ReadingSteps, WritingSteps, CleanSteps, PayingSteps, TaskScopesHide,
     UpdatesOnlyTasks
     DEF task_set_repetition, WriteThenRead
<1>11. Clean(task_clear_repetition(d, a, g), d, TaskKinds) /\ Pays(task_clear_repetition(d, a, g))
  BY TaskReads, LibraryReads, ReadingSteps, WritingSteps, CleanSteps, PayingSteps, TaskScopesHide,
     UpdatesOnlyTasks
     DEF task_clear_repetition, WriteThenRead
<1>12. Clean(task_set_alarms(d, a, g), d, TaskKinds) /\ Pays(task_set_alarms(d, a, g))
  BY TaskReads, LibraryReads, ReadingSteps, WritingSteps, CleanSteps, PayingSteps, TaskScopesHide,
     TaskRequests
     DEF task_set_alarms
<1>13. Clean(task_defer_smart(d, a, g), d, TaskKinds) /\ Pays(task_defer_smart(d, a, g))
  BY TaskReads, LibraryReads, ReadingSteps, WritingSteps, CleanSteps, PayingSteps, TaskScopesHide,
     UpdatesOnlyTasks, GuardedSteps
     DEF task_defer_smart
<1>14. Clean(task_set_waiting_on(d, a, g), d, TaskKinds) /\ Pays(task_set_waiting_on(d, a, g))
  BY TaskReads, LibraryReads, ReadingSteps, WritingSteps, CleanSteps, PayingSteps, TaskScopesHide,
     UpdatesOnlyTasks, TagRequests
     DEF task_set_waiting_on
<1>15. Clean(task_clear_waiting_on(d, a, g), d, TaskKinds) /\ Pays(task_clear_waiting_on(d, a, g))
  BY TaskReads, LibraryReads, ReadingSteps, WritingSteps, CleanSteps, PayingSteps, TaskScopesHide,
     UpdatesOnlyTasks
     DEF task_clear_waiting_on
<1> QED
  BY <1>1, <1>2, <1>3, <1>4, <1>5, <1>6, <1>7, <1>8, <1>9, <1>10, <1>11, <1>12, <1>13, <1>14, <1>15

\* A new note, of a task or of a project.
LEMMA OwnerSteps ==
    ASSUME NEW d, Framed(d), NEW o, NEW patch, NEW g
    PROVE  /\ Clean(NewNote(d, o, g, patch), d, TaskKinds) /\ Pays(NewNote(d, o, g, patch))
<1>1. Looking(OwnerOf(d, o), d)
  BY TaskReads, LibraryReads DEF OwnerOf
<1>2. Clean(Ask(SetOwner(d, o, patch)), d, TaskKinds)
  <2>1. CASE o.kind = "task"
    BY <2>1, UpdatesOnlyTasks, WritingSteps DEF SetOwner
  <2>2. CASE o.kind # "task"
    BY <2>2, ProjectUpdates, WritingSteps DEF SetOwner
  <2> QED
    BY <2>1, <2>2
<1>3. \A row : Hides(OwnerScopes(o, row), TaskKinds) /\ OwnerScopes(o, row) # {}
  BY TaskScopesHide, OtherScopesHide DEF OwnerScopes
<1> QED
  BY <1>1, <1>2, <1>3, ReadingSteps, CleanSteps, PayingSteps DEF NewNote, ReadWrite

\* src/tools/note and decision
LEMMA NoteToolsPay ==
    ASSUME NEW d, Framed(d), NEW a, NEW g
    PROVE  /\ Clean(note_append(d, a, g), d, TaskKinds) /\ Pays(note_append(d, a, g))
           /\ Clean(note_set(d, a, g), d, TaskKinds) /\ Pays(note_set(d, a, g))
           /\ Clean(note_set_html(d, a, g), d, TaskKinds) /\ Pays(note_set_html(d, a, g))
           /\ Clean(decision_record(d, a, g), d, TaskKinds) /\ Pays(decision_record(d, a, g))
           /\ Clean(decision_clear(d, a, g), d, TaskKinds) /\ Pays(decision_clear(d, a, g))
<1>1. Clean(note_append(d, a, g), d, TaskKinds) /\ Pays(note_append(d, a, g))
  BY OwnerSteps
     DEF note_append
<1>2. Clean(note_set(d, a, g), d, TaskKinds) /\ Pays(note_set(d, a, g))
  BY OwnerSteps
     DEF note_set
<1>3. Clean(note_set_html(d, a, g), d, TaskKinds) /\ Pays(note_set_html(d, a, g))
  BY OwnerSteps
     DEF note_set_html
<1>4. Clean(decision_record(d, a, g), d, TaskKinds) /\ Pays(decision_record(d, a, g))
  BY OwnerSteps
     DEF decision_record
<1>5. Clean(decision_clear(d, a, g), d, TaskKinds) /\ Pays(decision_clear(d, a, g))
  BY OwnerSteps, CleanSteps, PayingSteps
     DEF decision_clear
<1> QED
  BY <1>1, <1>2, <1>3, <1>4, <1>5

\* The keys of one task and of one project are no listings.
LEMMA ProjectKeyOK == \A t, form : KeyOK(<<"project", t, form>>) /\ KeyOK(<<"task", t, form>>)
BY DEF KeyOK, Listing

\* src/tools/project
LEMMA ProjectToolsPay ==
    ASSUME NEW d, Framed(d), NEW a, NEW g
    PROVE  /\ Clean(project_complete(d, a, g), d, Kinds) /\ Pays(project_complete(d, a, g))
           /\ Clean(project_drop(d, a, g), d, Kinds) /\ Pays(project_drop(d, a, g))
           /\ Clean(project_move(d, a, g), d, Kinds) /\ Pays(project_move(d, a, g))
           /\ Clean(project_delete(d, a, g), d, Kinds) /\ Pays(project_delete(d, a, g))
           /\ Clean(project_update(d, a, g), d, Kinds) /\ Pays(project_update(d, a, g))
           /\ Clean(doCreate(d, a, g), d, Kinds) /\ Pays(doCreate(d, a, g))
           /\ Clean(task_convert_to_project(d, a, g), d, Kinds) /\ Pays(task_convert_to_project(d, a, g))
           /\ Clean(project_template_delete(d, a, g), d, Kinds) /\ Pays(project_template_delete(d, a, g))
<1>1. Clean(project_complete(d, a, g), d, Kinds) /\ Pays(project_complete(d, a, g))
  BY TaskReads, LibraryReads, ReadingSteps, WritingSteps, CleanSteps, PayingSteps, TaskScopesHide,
     OtherScopesHide, ProjectRequests, ProjectKeyOK
     DEF project_complete, ProjectChange, ReadWrite
<1>2. Clean(project_drop(d, a, g), d, Kinds) /\ Pays(project_drop(d, a, g))
  BY TaskReads, LibraryReads, ReadingSteps, WritingSteps, CleanSteps, PayingSteps, TaskScopesHide,
     OtherScopesHide, ProjectRequests, ProjectKeyOK
     DEF project_drop, ProjectChange, ReadWrite
<1>3. Clean(project_move(d, a, g), d, Kinds) /\ Pays(project_move(d, a, g))
  BY TaskReads, LibraryReads, ReadingSteps, WritingSteps, CleanSteps, PayingSteps, TaskScopesHide,
     OtherScopesHide, ProjectRequests, ProjectKeyOK
     DEF project_move, ProjectChange, ReadWrite
<1>4. Clean(project_delete(d, a, g), d, Kinds) /\ Pays(project_delete(d, a, g))
  BY TaskReads, LibraryReads, ReadingSteps, WritingSteps, CleanSteps, PayingSteps, TaskScopesHide,
     OtherScopesHide, ProjectRequests, GuardedSteps
     DEF project_delete, GuardedProject
<1>5. Clean(project_update(d, a, g), d, Kinds) /\ Pays(project_update(d, a, g))
  BY TaskReads, LibraryReads, ReadingSteps, WritingSteps, CleanSteps, PayingSteps, TaskScopesHide,
     OtherScopesHide, ProjectUpdates, GuardedSteps
     DEF project_update, GuardedProject
<1>6. Clean(doCreate(d, a, g), d, Kinds) /\ Pays(doCreate(d, a, g))
  BY TaskReads, LibraryReads, ReadingSteps, WritingSteps, CleanSteps, PayingSteps, TaskScopesHide,
     OtherScopesHide, ProjectRequests
     DEF doCreate
<1>7. Clean(task_convert_to_project(d, a, g), d, Kinds) /\ Pays(task_convert_to_project(d, a, g))
  BY TaskReads, LibraryReads, ReadingSteps, WritingSteps, CleanSteps, PayingSteps, TaskScopesHide,
     OtherScopesHide, ProjectRequests
     DEF task_convert_to_project
<1>8. Clean(project_template_delete(d, a, g), d, Kinds) /\ Pays(project_template_delete(d, a, g))
  BY TaskReads, LibraryReads, ReadingSteps, WritingSteps, CleanSteps, PayingSteps, TaskScopesHide,
     OtherScopesHide, ProjectRequests
     DEF project_template_delete, InTemplates
<1> QED
  BY <1>1, <1>2, <1>3, <1>4, <1>5, <1>6, <1>7, <1>8

\* src/tools/tag/delete.ts
LEMMA TagDeletePays ==
    ASSUME NEW d, Framed(d), NEW a, NEW g
    PROVE  Clean(tag_delete(d, a, g), d, TaskKinds) /\ Pays(tag_delete(d, a, g))
BY TagRequests, WritingSteps, CleanSteps, PayingSteps, OtherScopesHide DEF tag_delete

\* Importing the text of a template
LEMMA ImportSteps ==
    ASSUME NEW d, Framed(d), NEW text, NEW project, NEW s, NEW finish, Clean(finish, d, Kinds), Pays(finish)
    PROVE  Clean(Import(d, text, project, s, finish), d, Kinds) /\ Pays(Import(d, text, project, s, finish))
<1>1. \A t : Clean(Ask(completeTask(d, t)), d, Kinds) /\ Clean(Ask(dropTask(d, t)), d, Kinds)
  BY TaskRequests, OnlyTasksIs, WritingSteps
<1>2. \A x : Clean(Ask(createTask(d, x, FALSE)), d, Kinds) /\ Clean(Try(createTag(d, x)), d, Kinds)
  BY TaskRequests, OnlyTasksIs, TagRequests, WritingSteps
<1> QED
  BY <1>1, <1>2, PayingSteps DEF Import

\* Reading what is in a project
LEMMA GatherSteps ==
    ASSUME NEW d, Framed(d), NEW A, NEW s, NEW finish, Clean(finish, d, A)
    PROVE  /\ Clean(Gather(d, s, finish), d, A)
           /\ Pays(finish) => Pays(Gather(d, s, finish))
BY TaskReads, ReadingSteps, PayingSteps DEF Gather

\* src/tools/project/template*.ts
LEMMA TemplateToolsPay ==
    ASSUME NEW d, Framed(d), NEW a, NEW g
    PROVE  /\ Clean(project_template_instantiate(d, a, g), d, Kinds) /\ Pays(project_template_instantiate(d, a, g))
           /\ Clean(project_template_save(d, a, g), d, Kinds) /\ Pays(project_template_save(d, a, g))
<1>1. Clean(Fail("NotFound"), d, Kinds) /\ Pays(Fail("NotFound")) /\ Clean(Fail("Validation"), d, Kinds)
      /\ Pays(Fail("Validation")) /\ Clean(Fail("Exists"), d, Kinds) /\ Pays(Fail("Exists"))
  BY CleanSteps, PayingSteps
<1>2. \A p, v : Clean(Done(ProjectScopes(p), v), d, Kinds) /\ Pays(Done(ProjectScopes(p), v))
  BY CleanSteps, PayingSteps, OtherScopesHide
<1>3. \A x : /\ Clean(Ask(createProject(d, x, FALSE)), d, Kinds) /\ Pays(Ask(createProject(d, x, FALSE)))
             /\ Clean(Ask(createFolder(d, x)), d, Kinds) /\ Pays(Ask(createFolder(d, x)))
  BY ProjectRequests, FolderRequests, WritingSteps, PayingSteps
<1>4. \A x : /\ Clean(Ask(listTags(d, x)), d, Kinds) /\ Pays(Ask(listTags(d, x)))
             /\ Clean(Ask(listProjects(d, x)), d, Kinds) /\ Pays(Ask(listProjects(d, x)))
             /\ Clean(Ask(listFolders(d, x)), d, Kinds) /\ Pays(Ask(listFolders(d, x)))
             /\ Clean(Ask(getProject(d, x)), d, Kinds) /\ Pays(Ask(getProject(d, x)))
  BY LibraryReads, ReadingSteps, PayingSteps
<1>5. ASSUME NEW then, Clean(then, d, Kinds), Pays(then)
      PROVE  LET s == InTemplates(d, g, Fail("NotFound"), then) IN Clean(s, d, Kinds) /\ Pays(s)
  BY <1>1, <1>4, <1>5 DEF InTemplates
<1>6. \A text, project, s, p, v :
         LET n == Import(d, text, project, s, Done(ProjectScopes(p), v)) IN Clean(n, d, Kinds) /\ Pays(n)
  BY <1>2, ImportSteps
<1>7. \A s, x : LET n == Gather(d, s, Ask(createProject(d, x, FALSE))) IN Clean(n, d, Kinds) /\ Pays(n)
  BY <1>3, GatherSteps
<1>8. Clean(project_template_instantiate(d, a, g), d, Kinds) /\ Pays(project_template_instantiate(d, a, g))
  BY <1>1, <1>3, <1>4, <1>5, <1>6 DEF project_template_instantiate
<1>9. Clean(project_template_save(d, a, g), d, Kinds) /\ Pays(project_template_save(d, a, g))
  BY <1>1, <1>2, <1>3, <1>4, <1>7 DEF project_template_save
<1> QED
  BY <1>8, <1>9

\* src/tools/folder/delete.ts
LEMMA FolderDeletePays ==
    ASSUME NEW d, Framed(d), NEW a, NEW g, Heard(g)
    PROVE  Clean(folder_delete(d, a, g), d, FolderKinds) /\ Pays(folder_delete(d, a, g))
<1> DEFINE stuck == {i \in DOMAIN g : ~Ok(g, i)}
<1>1. PICK S : g \in Seq(S)
  BY DEF Heard
<1>2. stuck # {} => g[Min(stuck)].code # "OK"
  <2> SUFFICES ASSUME stuck # {} PROVE Min(stuck) \in stuck
    BY DEF Ok
  <2>1. stuck \in SUBSET Nat
    BY <1>1
  <2>2. \E x \in stuck : \A y \in stuck : x <= y
    BY <2>1, LeastNat
  <2> QED
    BY <2>1, <2>2 DEF Min
<1>3. \A f, v : Clean(Done(FolderScopes(f), v), d, FolderKinds) /\ Pays(Done(FolderScopes(f), v))
  BY CleanSteps, PayingSteps, OtherScopesHide
<1>4. stuck # {} => Clean(Fail(g[Min(stuck)].code), d, FolderKinds) /\ Pays(Fail(g[Min(stuck)].code))
  BY <1>2, CleanSteps, PayingSteps
<1>5. \A x : /\ Clean(Ask(listProjects(d, x)), d, FolderKinds) /\ Pays(Ask(listProjects(d, x)))
             /\ Clean(Ask(listFolders(d, x)), d, FolderKinds) /\ Pays(Ask(listFolders(d, x)))
             /\ Clean(Ask(deleteFolder(d, x)), d, FolderKinds) /\ Pays(Ask(deleteFolder(d, x)))
             /\ Clean(Try(moveProject(d, x, None)), d, FolderKinds) /\ Pays(Try(moveProject(d, x, None)))
  BY LibraryReads, ReadingSteps, PayingSteps, WritingSteps, FolderRequests, ProjectRequests
<1> HIDE DEF stuck
<1> QED
  BY <1>3, <1>4, <1>5 DEF folder_delete, stuck

\* Requests that only read
LEMMA AsideReads ==
    ASSUME NEW d, Framed(d)
    PROVE  /\ Aside(getForecastTagWithName(d).doc, d) /\ Aside(listPerspectives(d).doc, d)
           /\ \A x : Aside(evaluatePerspective(d, x).doc, d) /\ Aside(getCustomPerspective(d, x).doc, d)
           /\ \A x : Aside(evaluateCustomPerspective(d, x).doc, d)
           /\ Aside(getWindowState(d).doc, d)
<1>1. Aside(d, d)
  BY DEF Aside, Still
<1>2. \A v, code, f, id : /\ Aside(Answer(d, v).doc, d) /\ Aside(Refuse(d, code).doc, d)
                          /\ Aside(Found(d, f, id, Answer(d, v)).doc, d)
  BY <1>1 DEF Answer, Refuse, Found
<1>3. \A r, f, id : Aside(r.doc, d) => Aside(WithWindow(d, r).doc, d) /\ Aside(Found(d, f, id, r).doc, d)
  BY <1>1, <1>2 DEF WithWindow, Found, Refuse
<1>4. Aside(getForecastTagWithName(d).doc, d) /\ Aside(listPerspectives(d).doc, d)
  BY <1>2 DEF getForecastTagWithName, ForecastTagWithName, listPerspectives, PerspectiveList
<1>5. \A x : Aside(evaluatePerspective(d, x).doc, d) /\ Aside(getCustomPerspective(d, x).doc, d)
  BY <1>2 DEF evaluatePerspective, PerspectiveEvaluate, getCustomPerspective, PerspectiveGet
<1>6. \A x : Aside(evaluateCustomPerspective(d, x).doc, d)
  BY <1>2, <1>3 DEF evaluateCustomPerspective, PerspectiveEvaluateCustom
<1>7. Aside(getWindowState(d).doc, d)
  BY <1>2, <1>3 DEF getWindowState, WindowGetState
<1> QED
  BY <1>4, <1>5, <1>6, <1>7

\* Steps that touch no listing
LEMMA AsideSteps ==
    ASSUME NEW d, Framed(d)
    PROVE  /\ \A r : Aside(r.doc, d) => Clean(Ask(r), d, {}) /\ Clean(Try(r), d, {})
           /\ \A S, v : Clean(Done(S, v), d, {})
           /\ \A id, form : Clean(Cached(<<"task", id, form>>), d, {}) /\ Clean(Cached(<<"project", id, form>>), d, {})
           /\ \A f : /\ Clean(Cached(<<"search", "tasks", f>>), d, {})
                     /\ Clean(Cached(<<"search", "projects", f>>), d, {})
                     /\ Clean(Cached(<<"tag", "list", f>>), d, {})
                     /\ Clean(Cached(<<"folder", "list", f>>), d, {})
                     /\ Clean(Cached(<<"forecast", f>>), d, {})
<1>1. \A id, form : KeyOK(<<"task", id, form>>) /\ KeyOK(<<"project", id, form>>)
  BY ProjectKeyOK
<1>2. \A f : /\ KeyOK(<<"search", "tasks", f>>) /\ KeyOK(<<"search", "projects", f>>)
             /\ KeyOK(<<"tag", "list", f>>) /\ KeyOK(<<"folder", "list", f>>) /\ KeyOK(<<"forecast", f>>)
  BY DEF KeyOK, ListingKey
<1>3. \A S : Hides(S, {})
  BY HidingScopes
<1> QED
  BY <1>1, <1>2, <1>3, WritesWithin, CleanSteps

\* Tools that read
LEMMA ReadersAside ==
    ASSUME NEW d, Framed(d), NEW a, NEW g
    PROVE  /\ Clean(task_get(d, a, g), d, {})
           /\ Clean(task_get_many(d, a, g), d, {})
           /\ Clean(task_list(d, a, g), d, {})
           /\ Clean(task_search(d, a, g), d, {})
           /\ Clean(search_query(d, a, g), d, {})
           /\ Clean(task_find_by_name(d, a, g), d, {})
           /\ Clean(task_find_similar(d, a, g), d, {})
           /\ Clean(note_get(d, a, g), d, {})
           /\ Clean(note_get_html(d, a, g), d, {})
           /\ Clean(project_get(d, a, g), d, {})
           /\ Clean(project_get_many(d, a, g), d, {})
           /\ Clean(project_list(d, a, g), d, {})
           /\ Clean(review_list_due(d, a, g), d, {})
           /\ Clean(tag_get_location(d, a, g), d, {})
           /\ Clean(tag_get(d, a, g), d, {})
           /\ Clean(tag_get_many(d, a, g), d, {})
           /\ Clean(tag_list(d, a, g), d, {})
           /\ Clean(folder_get(d, a, g), d, {})
           /\ Clean(folder_list(d, a, g), d, {})
           /\ Clean(forecast_get(d, a, g), d, {})
           /\ Clean(forecast_pack(d, a, g), d, {})
           /\ Clean(export_opml(d, a, g), d, {})
           /\ Clean(export_taskpaper(d, a, g), d, {})
           /\ Clean(project_template_list(d, a, g), d, {})
           /\ Clean(attachment_list(d, a, g), d, {})
<1>1. Clean(task_get(d, a, g), d, {})
  BY TaskReads, LibraryReads, ReadingSteps, AsideSteps, CleanSteps
     DEF task_get, Read
<1>2. Clean(task_get_many(d, a, g), d, {})
  BY TaskReads, LibraryReads, ReadingSteps, AsideSteps, CleanSteps
     DEF task_get_many, Read
<1>3. Clean(task_list(d, a, g), d, {})
  BY TaskReads, LibraryReads, ReadingSteps, AsideSteps, CleanSteps
     DEF task_list, Read
<1>4. Clean(task_search(d, a, g), d, {})
  BY TaskReads, LibraryReads, ReadingSteps, AsideSteps, CleanSteps
     DEF task_search, Read
<1>5. Clean(search_query(d, a, g), d, {})
  BY TaskReads, LibraryReads, ReadingSteps, AsideSteps, CleanSteps
     DEF search_query, Read
<1>6. Clean(task_find_by_name(d, a, g), d, {})
  BY TaskReads, LibraryReads, ReadingSteps, AsideSteps, CleanSteps
     DEF task_find_by_name, Read
<1>7. Clean(task_find_similar(d, a, g), d, {})
  BY TaskReads, LibraryReads, ReadingSteps, AsideSteps, CleanSteps
     DEF task_find_similar
<1>8. Clean(note_get(d, a, g), d, {})
  BY TaskReads, LibraryReads, ReadingSteps, AsideSteps, CleanSteps
     DEF note_get, Read, OwnerOf
<1>9. Clean(note_get_html(d, a, g), d, {})
  BY TaskReads, LibraryReads, ReadingSteps, AsideSteps, CleanSteps
     DEF note_get_html, Read
<1>10. Clean(project_get(d, a, g), d, {})
  BY TaskReads, LibraryReads, ReadingSteps, AsideSteps, CleanSteps
     DEF project_get, Read
<1>11. Clean(project_get_many(d, a, g), d, {})
  BY TaskReads, LibraryReads, ReadingSteps, AsideSteps, CleanSteps
     DEF project_get_many, ReadMany, Read
<1>12. Clean(project_list(d, a, g), d, {})
  BY TaskReads, LibraryReads, ReadingSteps, AsideSteps, CleanSteps
     DEF project_list, Read
<1>13. Clean(review_list_due(d, a, g), d, {})
  BY TaskReads, LibraryReads, ReadingSteps, AsideSteps, CleanSteps
     DEF review_list_due, Read
<1>14. Clean(tag_get_location(d, a, g), d, {})
  BY TaskReads, LibraryReads, ReadingSteps, AsideSteps, CleanSteps
     DEF tag_get_location, Read
<1>15. Clean(tag_get(d, a, g), d, {})
  BY TaskReads, LibraryReads, ReadingSteps, AsideSteps, CleanSteps
     DEF tag_get, Read
<1>16. Clean(tag_get_many(d, a, g), d, {})
  BY TaskReads, LibraryReads, ReadingSteps, AsideSteps, CleanSteps
     DEF tag_get_many, ReadMany, Read
<1>17. Clean(tag_list(d, a, g), d, {})
  BY TaskReads, LibraryReads, ReadingSteps, AsideSteps, CleanSteps
     DEF tag_list, Read
<1>18. Clean(folder_get(d, a, g), d, {})
  BY TaskReads, LibraryReads, ReadingSteps, AsideSteps, CleanSteps
     DEF folder_get, Read
<1>19. Clean(folder_list(d, a, g), d, {})
  BY TaskReads, LibraryReads, ReadingSteps, AsideSteps, CleanSteps
     DEF folder_list, Read
<1>20. Clean(forecast_get(d, a, g), d, {})
  BY TaskReads, LibraryReads, ReadingSteps, AsideSteps, CleanSteps
     DEF forecast_get, Read
<1>21. Clean(forecast_pack(d, a, g), d, {})
  BY TaskReads, LibraryReads, ReadingSteps, AsideSteps, CleanSteps
     DEF forecast_pack
<1>22. Clean(export_opml(d, a, g), d, {})
  BY TaskReads, LibraryReads, ReadingSteps, AsideSteps, CleanSteps, GatherSteps
     DEF export_opml, Export
<1>23. Clean(export_taskpaper(d, a, g), d, {})
  BY TaskReads, LibraryReads, ReadingSteps, AsideSteps, CleanSteps, GatherSteps
     DEF export_taskpaper, Export
<1>24. Clean(project_template_list(d, a, g), d, {})
  BY TaskReads, LibraryReads, ReadingSteps, AsideSteps, CleanSteps
     DEF project_template_list, InTemplates
<1>25. Clean(attachment_list(d, a, g), d, {})
  BY TaskReads, LibraryReads, ReadingSteps, AsideSteps, CleanSteps
     DEF attachment_list, Read
<1> QED
  BY <1>1, <1>2, <1>3, <1>4, <1>5, <1>6, <1>7, <1>8, <1>9, <1>10, <1>11, <1>12, <1>13, <1>14,
     <1>15, <1>16, <1>17, <1>18, <1>19, <1>20, <1>21, <1>22, <1>23, <1>24, <1>25

\* Tools that change what no listing shows
LEMMA OthersAside ==
    ASSUME NEW d, Framed(d), NEW a, NEW g
    PROVE  /\ Clean(forecast_get_tag(d, a, g), d, {})
           /\ Clean(forecast_set_tag(d, a, g), d, {})
           /\ Clean(perspective_create(d, a, g), d, {})
           /\ Clean(perspective_update(d, a, g), d, {})
           /\ Clean(perspective_delete(d, a, g), d, {})
           /\ Clean(perspective_evaluate(d, a, g), d, {})
           /\ Clean(perspective_evaluate_dry_run(d, a, g), d, {})
           /\ Clean(perspective_get(d, a, g), d, {})
           /\ Clean(perspective_list(d, a, g), d, {})
           /\ Clean(attachment_create(d, a, g), d, {})
           /\ Clean(attachment_delete(d, a, g), d, {})
           /\ Clean(attachment_save_to_path(d, a, g), d, {})
           /\ Clean(window_get_state(d, a, g), d, {})
           /\ Clean(window_set_focus(d, a, g), d, {})
           /\ Clean(window_set_perspective(d, a, g), d, {})
           /\ Clean(sync_status(d, a, g), d, {})
           /\ Clean(sync_trigger(d, a, g), d, {})
           /\ Clean(keepProject(d, a, g), d, {})
<1>1. Clean(forecast_get_tag(d, a, g), d, {})
  BY TaskReads, LibraryReads, ReadingSteps, AsideSteps, CleanSteps, AsideReads, AsideRequests
     DEF forecast_get_tag, Read
<1>2. Clean(forecast_set_tag(d, a, g), d, {})
  BY TaskReads, LibraryReads, ReadingSteps, AsideSteps, CleanSteps, AsideReads, AsideRequests
     DEF forecast_set_tag, Written
<1>3. Clean(perspective_create(d, a, g), d, {})
  BY TaskReads, LibraryReads, ReadingSteps, AsideSteps, CleanSteps, AsideReads, AsideRequests
     DEF perspective_create, Written
<1>4. Clean(perspective_update(d, a, g), d, {})
  BY TaskReads, LibraryReads, ReadingSteps, AsideSteps, CleanSteps, AsideReads, AsideRequests
     DEF perspective_update, Written
<1>5. Clean(perspective_delete(d, a, g), d, {})
  BY TaskReads, LibraryReads, ReadingSteps, AsideSteps, CleanSteps, AsideReads, AsideRequests
     DEF perspective_delete, Written
<1>6. Clean(perspective_evaluate(d, a, g), d, {})
  BY TaskReads, LibraryReads, ReadingSteps, AsideSteps, CleanSteps, AsideReads, AsideRequests
     DEF perspective_evaluate, Read
<1>7. Clean(perspective_evaluate_dry_run(d, a, g), d, {})
  BY TaskReads, LibraryReads, ReadingSteps, AsideSteps, CleanSteps, AsideReads, AsideRequests
     DEF perspective_evaluate_dry_run, Read
<1>8. Clean(perspective_get(d, a, g), d, {})
  BY TaskReads, LibraryReads, ReadingSteps, AsideSteps, CleanSteps, AsideReads, AsideRequests
     DEF perspective_get, Read
<1>9. Clean(perspective_list(d, a, g), d, {})
  BY TaskReads, LibraryReads, ReadingSteps, AsideSteps, CleanSteps, AsideReads, AsideRequests
     DEF perspective_list, Read
<1>10. Clean(attachment_create(d, a, g), d, {})
  BY TaskReads, LibraryReads, ReadingSteps, AsideSteps, CleanSteps, AsideReads, AsideRequests
     DEF attachment_create, OwnerOf
<1>11. Clean(attachment_delete(d, a, g), d, {})
  BY TaskReads, LibraryReads, ReadingSteps, AsideSteps, CleanSteps, AsideReads, AsideRequests
     DEF attachment_delete, OwnerOf
<1>12. Clean(attachment_save_to_path(d, a, g), d, {})
  BY TaskReads, LibraryReads, ReadingSteps, AsideSteps, CleanSteps, AsideReads, AsideRequests
     DEF attachment_save_to_path, Read
<1>13. Clean(window_get_state(d, a, g), d, {})
  BY TaskReads, LibraryReads, ReadingSteps, AsideSteps, CleanSteps, AsideReads, AsideRequests
     DEF window_get_state, Read
<1>14. Clean(window_set_focus(d, a, g), d, {})
  BY TaskReads, LibraryReads, ReadingSteps, AsideSteps, CleanSteps, AsideReads, AsideRequests
     DEF window_set_focus, Read
<1>15. Clean(window_set_perspective(d, a, g), d, {})
  BY TaskReads, LibraryReads, ReadingSteps, AsideSteps, CleanSteps, AsideReads, AsideRequests
     DEF window_set_perspective, Read
<1>16. Clean(sync_status(d, a, g), d, {})
  BY TaskReads, LibraryReads, ReadingSteps, AsideSteps, CleanSteps, AsideReads, AsideRequests,
     AnswerReads
     DEF sync_status, Read
<1>17. Clean(sync_trigger(d, a, g), d, {})
  BY TaskReads, LibraryReads, ReadingSteps, AsideSteps, CleanSteps, AsideReads, AsideRequests,
     AnswerReads
     DEF sync_trigger, Written
<1>18. Clean(keepProject(d, a, g), d, {})
  BY TaskReads, LibraryReads, ReadingSteps, AsideSteps, CleanSteps, AsideReads, AsideRequests
     DEF keepProject
<1> QED
  BY <1>1, <1>2, <1>3, <1>4, <1>5, <1>6, <1>7, <1>8, <1>9, <1>10, <1>11, <1>12, <1>13, <1>14,
     <1>15, <1>16, <1>17, <1>18

\* Previews in words
LEMMA DescribersAside ==
    ASSUME NEW d, Framed(d), NEW a, NEW g
    PROVE  /\ Clean(task_create_describe(d, a, g), d, {})
           /\ Clean(task_complete_describe(d, a, g), d, {})
           /\ Clean(task_drop_describe(d, a, g), d, {})
           /\ Clean(task_delete_describe(d, a, g), d, {})
           /\ Clean(task_move_describe(d, a, g), d, {})
           /\ Clean(task_update_describe(d, a, g), d, {})
           /\ Clean(task_batch_create_describe(d, a, g), d, {})
           /\ Clean(task_batch_update_describe(d, a, g), d, {})
           /\ Clean(project_create_describe(d, a, g), d, {})
           /\ Clean(project_complete_describe(d, a, g), d, {})
           /\ Clean(project_drop_describe(d, a, g), d, {})
           /\ Clean(project_delete_describe(d, a, g), d, {})
           /\ Clean(project_update_describe(d, a, g), d, {})
           /\ Clean(project_move_describe(d, a, g), d, {})
           /\ Clean(tag_create_describe(d, a, g), d, {})
           /\ Clean(tag_update_describe(d, a, g), d, {})
           /\ Clean(tag_delete_describe(d, a, g), d, {})
           /\ Clean(tag_move_describe(d, a, g), d, {})
           /\ Clean(folder_create_describe(d, a, g), d, {})
           /\ Clean(folder_update_describe(d, a, g), d, {})
           /\ Clean(folder_delete_describe(d, a, g), d, {})
           /\ Clean(folder_move_describe(d, a, g), d, {})
<1>1. \A those : Clean(Described(d, g, those), d, {})
  BY TaskReads, LibraryReads, ReadingSteps, CleanSteps DEF Described, LookUp
<1> QED
  BY <1>1
     DEF task_create_describe,
         task_complete_describe,
         task_drop_describe,
         task_delete_describe,
         task_move_describe,
         task_update_describe,
         task_batch_create_describe,
         task_batch_update_describe,
         project_create_describe,
         project_complete_describe,
         project_drop_describe,
         project_delete_describe,
         project_update_describe,
         project_move_describe,
         tag_create_describe,
         tag_update_describe,
         tag_delete_describe,
         tag_move_describe,
         folder_create_describe,
         folder_update_describe,
         folder_delete_describe,
         folder_move_describe

\* When the step s writes, n (the one after it) invalidates, unless the request
\* fails and the call with it.
FollowedUp(s, d, n) ==
    s.kind \in {"ask", "try"} /\ s.does.doc # d => s.kind = "ask" /\ (s.does.code = "OK" => n.drop # {})

\* The steps that are followed up.
LEMMA FollowingSteps ==
    /\ \A d, n, r : Looking(r, d) => FollowedUp(Ask(r), d, n) /\ FollowedUp(Try(r), d, n)
    /\ \A d, n, S, r : Looking(r, d) => FollowedUp(Flush(S, Ask(r)), d, n) /\ FollowedUp(Flush(S, Try(r)), d, n)
    /\ \A d, n, r : n.drop # {} => FollowedUp(Ask(r), d, n)
    /\ \A d, n, code, v : FollowedUp(Reply(code, v), d, n) /\ FollowedUp(Fail(code), d, n)
    /\ \A d, n, v : FollowedUp(Same(v), d, n)
    /\ \A d, n, S, v : FollowedUp(Done(S, v), d, n)
    /\ \A d, n, c : FollowedUp(Clarify(c), d, n)
    /\ \A d, n : FollowedUp(NoChange, d, n)
    /\ \A s, d, n : Looks(s, d) => FollowedUp(s, d, n)
    /\ \A s, d, n : s.kind = "ask" /\ n.drop # {} => FollowedUp(s, d, n)
<1>1. \A d, n, r : Looking(r, d) => FollowedUp(Ask(r), d, n) /\ FollowedUp(Try(r), d, n)
  BY DEF FollowedUp, Ask, Try, Looking
<1>2. \A d, n, S, r : Looking(r, d) => FollowedUp(Flush(S, Ask(r)), d, n) /\ FollowedUp(Flush(S, Try(r)), d, n)
  BY DEF FollowedUp, Ask, Try, Flush, Looking
<1>3. \A d, n, r : n.drop # {} => FollowedUp(Ask(r), d, n)
  BY DEF FollowedUp, Ask
<1>4. /\ \A d, n, code, v : FollowedUp(Reply(code, v), d, n) /\ FollowedUp(Fail(code), d, n)
      /\ \A d, n, v : FollowedUp(Same(v), d, n)
      /\ \A d, n, S, v : FollowedUp(Done(S, v), d, n)
      /\ \A d, n, c : FollowedUp(Clarify(c), d, n)
      /\ \A d, n : FollowedUp(NoChange, d, n)
  BY DEF FollowedUp, Reply, Fail, Same, Done, Flush, Clarify, NoChange
<1>5. \A s, d, n : Looks(s, d) => FollowedUp(s, d, n)
  BY DEF Looks, Looking, FollowedUp
<1>6. \A s, d, n : s.kind = "ask" /\ n.drop # {} => FollowedUp(s, d, n)
  BY DEF FollowedUp
<1> QED
  BY <1>1, <1>2, <1>3, <1>4, <1>5, <1>6

\* The steps that invalidate something.
LEMMA DroppingSteps ==
    /\ \A S, r : S # {} => Flush(S, Ask(r)).drop # {} /\ Flush(S, Try(r)).drop # {}
    /\ \A S, v : S # {} => Done(S, v).drop # {}
<1>1. \A S : {} \cup S = S
  OBVIOUS
<1> QED
  BY <1>1 DEF Flush, Ask, Try, Done, Reply

\* One answer more
LEMMA OneMore ==
    ASSUME NEW g, Heard(g), NEW x, Honest(x)
    PROVE  /\ Len(g) \in Nat /\ Len(Append(g, x)) = Len(g) + 1
           /\ \A i \in 1..Len(g) : Append(g, x)[i] = g[i]
           /\ Append(g, x)[Len(g) + 1] = x
           /\ Len(g) > 0 => Len(Tail(Append(g, x))) = Len(g)
           /\ Len(g) > 1 => Len(SubSeq(Append(g, x), 3, Len(Append(g, x)))) = Len(g) - 1
           /\ Len(g) > 1 => Len(SubSeq(g, 3, Len(g))) = Len(g) - 2
<1>1. PICK S : g \in Seq(S)
  BY DEF Heard
<1>2. g \in Seq(S \cup {x}) /\ x \in S \cup {x}
  BY <1>1
<1> DEFINE h == Append(g, x)
<1>3. /\ h \in Seq(S \cup {x}) /\ Len(g) \in Nat /\ Len(h) = Len(g) + 1
      /\ \A i \in 1..Len(g) : h[i] = g[i]
      /\ h[Len(g) + 1] = x
  BY <1>2
<1> HIDE DEF h
<1>4. Len(g) > 0 => Len(Tail(h)) = Len(g)
  BY <1>3
<1>5. Len(g) > 1 => Len(SubSeq(h, 3, Len(h))) = Len(g) - 1
  BY <1>3
<1> DEFINE L == Len(SubSeq(g, 3, Len(g)))
<1>6. Len(g) > 1 => L = Len(g) - 2
  <2>1. CASE Len(g) = 2
    <3>1. SubSeq(g, 3, Len(g)) = <<>>
      BY <2>1, SubSeqEmpty
    <3> QED
      BY <2>1, <3>1
  <2>2. CASE Len(g) > 2
    BY <1>2, <2>2
  <2>3. Len(g) > 1 => Len(g) = 2 \/ Len(g) > 2
    <3>1. \A n \in Nat : n > 1 => n = 2 \/ n > 2
      OBVIOUS
    <3> QED
      BY <1>3, <3>1
  <2> HIDE DEF L
  <2> QED
    BY <2>1, <2>2, <2>3
<1> QED
  BY <1>3, <1>4, <1>5, <1>6 DEF h

\* A write, the invalidation, a read.
LEMMA WriteReadSteps ==
    ASSUME NEW d, Framed(d), NEW g, Heard(g), NEW x, Honest(x), NEW A,
           NEW w, Clean(Ask(w), d, A), NEW S, Hides(S, A), NEW r, Looking(r, d),
           NEW u, NEW U, U # {}, NEW q
    PROVE  /\ Clean(WriteRead(g, w, S, r), d, A)
           /\ FollowedUp(WriteRead(g, w, S, r), d, WriteRead(Append(g, x), u, U, q))
<1>1. Clean(WriteRead(g, w, S, r), d, A)
  BY ReadingSteps, CleanSteps DEF WriteRead
<1>2. Len(g) = 0 => WriteRead(Append(g, x), u, U, q).drop # {}
  BY OneMore, DroppingSteps DEF WriteRead
<1>3. FollowedUp(WriteRead(g, w, S, r), d, WriteRead(Append(g, x), u, U, q))
  <2> DEFINE n == WriteRead(Append(g, x), u, U, q)
  <2>1. Len(g) = 0 => n.drop # {}
    BY <1>2
  <2> HIDE DEF n
  <2>2. FollowedUp(WriteRead(g, w, S, r), d, n)
    BY <2>1, FollowingSteps DEF WriteRead
  <2> QED
    BY <2>2 DEF n
<1> QED
  BY <1>1, <1>3

\* A review (src/tools/review).
LEMMA ReviewedSteps ==
    ASSUME NEW d, Framed(d), NEW g, Heard(g), NEW x, Honest(x), NEW p,
           NEW w, Clean(Ask(w), d, Kinds), NEW e, NEW u
    PROVE  /\ Clean(Reviewed(d, p, g, w), d, Kinds)
           /\ FollowedUp(Reviewed(d, p, g, w), d, Reviewed(e, p, Append(g, x), u))
<1>1. Clean(Reviewed(d, p, g, w), d, Kinds)
  BY LibraryReads, ReadingSteps, CleanSteps, OtherScopesHide DEF Reviewed
<1>2. Len(g) = 0 => Reviewed(e, p, Append(g, x), u).drop # {}
  BY OneMore, DroppingSteps, OtherScopesHide DEF Reviewed
<1>3. FollowedUp(Reviewed(d, p, g, w), d, Reviewed(e, p, Append(g, x), u))
  <2> DEFINE n == Reviewed(e, p, Append(g, x), u)
  <2>1. Len(g) = 0 => n.drop # {}
    BY <1>2
  <2> HIDE DEF n
  <2>2. FollowedUp(Reviewed(d, p, g, w), d, n)
    BY <2>1, LibraryReads, FollowingSteps DEF Reviewed
  <2> QED
    BY <2>2 DEF n
<1> QED
  BY <1>1, <1>3

\* src/tools/tag
LEMMA TagToolsFollow ==
    ASSUME NEW d, Framed(d), NEW a, NEW g, Heard(g), NEW x, Honest(x), NEW e
    PROVE  /\ Clean(tag_create(d, a, g), d, TaskKinds)
              /\ FollowedUp(tag_create(d, a, g), d, tag_create(e, a, Append(g, x)))
           /\ Clean(tag_update(d, a, g), d, TaskKinds)
              /\ FollowedUp(tag_update(d, a, g), d, tag_update(e, a, Append(g, x)))
           /\ Clean(tag_move(d, a, g), d, TaskKinds)
              /\ FollowedUp(tag_move(d, a, g), d, tag_move(e, a, Append(g, x)))
           /\ Clean(tag_set_status(d, a, g), d, TaskKinds)
              /\ FollowedUp(tag_set_status(d, a, g), d, tag_set_status(e, a, Append(g, x)))
           /\ Clean(tag_set_allows_next_action(d, a, g), d, TaskKinds)
              /\ FollowedUp(tag_set_allows_next_action(d, a, g),
                            d, tag_set_allows_next_action(e, a, Append(g, x)))
           /\ Clean(tag_set_location(d, a, g), d, TaskKinds)
              /\ FollowedUp(tag_set_location(d, a, g), d, tag_set_location(e, a, Append(g, x)))
<1>1. Clean(tag_create(d, a, g), d, TaskKinds)
      /\ FollowedUp(tag_create(d, a, g), d, tag_create(e, a, Append(g, x)))
  BY TagRequests, LibraryReads, WritingSteps, WriteReadSteps, OtherScopesHide
     DEF tag_create, SetTag
<1>2. Clean(tag_update(d, a, g), d, TaskKinds)
      /\ FollowedUp(tag_update(d, a, g), d, tag_update(e, a, Append(g, x)))
  BY TagRequests, LibraryReads, WritingSteps, WriteReadSteps, OtherScopesHide
     DEF tag_update, SetTag
<1>3. Clean(tag_move(d, a, g), d, TaskKinds)
      /\ FollowedUp(tag_move(d, a, g), d, tag_move(e, a, Append(g, x)))
  BY TagRequests, LibraryReads, WritingSteps, WriteReadSteps, OtherScopesHide
     DEF tag_move, SetTag
<1>4. Clean(tag_set_status(d, a, g), d, TaskKinds)
      /\ FollowedUp(tag_set_status(d, a, g), d, tag_set_status(e, a, Append(g, x)))
  BY TagRequests, LibraryReads, WritingSteps, WriteReadSteps, OtherScopesHide
     DEF tag_set_status, SetTag
<1>5. Clean(tag_set_allows_next_action(d, a, g), d, TaskKinds)
      /\ FollowedUp(tag_set_allows_next_action(d, a, g),
                    d, tag_set_allows_next_action(e, a, Append(g, x)))
  BY TagRequests, LibraryReads, WritingSteps, WriteReadSteps, OtherScopesHide
     DEF tag_set_allows_next_action, SetTag
<1>6. Clean(tag_set_location(d, a, g), d, TaskKinds)
      /\ FollowedUp(tag_set_location(d, a, g), d, tag_set_location(e, a, Append(g, x)))
  BY TagRequests, LibraryReads, WritingSteps, WriteReadSteps, OtherScopesHide
     DEF tag_set_location, SetTag
<1> QED
  BY <1>1, <1>2, <1>3, <1>4, <1>5, <1>6

\* src/tools/folder
LEMMA FolderToolsFollow ==
    ASSUME NEW d, Framed(d), NEW a, NEW g, Heard(g), NEW x, Honest(x), NEW e
    PROVE  /\ Clean(folder_create(d, a, g), d, FolderKinds)
              /\ FollowedUp(folder_create(d, a, g), d, folder_create(e, a, Append(g, x)))
           /\ Clean(folder_update(d, a, g), d, FolderKinds)
              /\ FollowedUp(folder_update(d, a, g), d, folder_update(e, a, Append(g, x)))
           /\ Clean(folder_move(d, a, g), d, FolderKinds)
              /\ FollowedUp(folder_move(d, a, g), d, folder_move(e, a, Append(g, x)))
<1>1. Clean(folder_create(d, a, g), d, FolderKinds)
      /\ FollowedUp(folder_create(d, a, g), d, folder_create(e, a, Append(g, x)))
  BY FolderRequests, LibraryReads, WritingSteps, WriteReadSteps, OtherScopesHide
     DEF folder_create, SetFolder
<1>2. Clean(folder_update(d, a, g), d, FolderKinds)
      /\ FollowedUp(folder_update(d, a, g), d, folder_update(e, a, Append(g, x)))
  BY FolderRequests, LibraryReads, WritingSteps, WriteReadSteps, OtherScopesHide
     DEF folder_update, SetFolder
<1>3. Clean(folder_move(d, a, g), d, FolderKinds)
      /\ FollowedUp(folder_move(d, a, g), d, folder_move(e, a, Append(g, x)))
  BY FolderRequests, LibraryReads, WritingSteps, WriteReadSteps, OtherScopesHide
     DEF folder_move, SetFolder
<1> QED
  BY <1>1, <1>2, <1>3

\* src/tools/review
LEMMA ReviewToolsFollow ==
    ASSUME NEW d, Framed(d), NEW a, NEW g, Heard(g), NEW x, Honest(x), NEW e
    PROVE  /\ Clean(review_mark_reviewed(d, a, g), d, Kinds)
              /\ FollowedUp(review_mark_reviewed(d, a, g), d, review_mark_reviewed(e, a, Append(g, x)))
           /\ Clean(project_mark_reviewed(d, a, g), d, Kinds)
              /\ FollowedUp(project_mark_reviewed(d, a, g), d, project_mark_reviewed(e, a, Append(g, x)))
           /\ Clean(review_set_interval(d, a, g), d, Kinds)
              /\ FollowedUp(review_set_interval(d, a, g), d, review_set_interval(e, a, Append(g, x)))
           /\ Clean(project_set_next_review_date(d, a, g), d, Kinds)
              /\ FollowedUp(project_set_next_review_date(d, a, g),
                            d, project_set_next_review_date(e, a, Append(g, x)))
<1>1. Clean(review_mark_reviewed(d, a, g), d, Kinds)
      /\ FollowedUp(review_mark_reviewed(d, a, g), d, review_mark_reviewed(e, a, Append(g, x)))
  BY ProjectRequests, WritingSteps, ReviewedSteps
     DEF review_mark_reviewed
<1>2. Clean(project_mark_reviewed(d, a, g), d, Kinds)
      /\ FollowedUp(project_mark_reviewed(d, a, g), d, project_mark_reviewed(e, a, Append(g, x)))
  BY ProjectRequests, WritingSteps, ReviewedSteps
     DEF project_mark_reviewed
<1>3. Clean(review_set_interval(d, a, g), d, Kinds)
      /\ FollowedUp(review_set_interval(d, a, g), d, review_set_interval(e, a, Append(g, x)))
  BY ProjectRequests, WritingSteps, ReviewedSteps
     DEF review_set_interval
<1>4. Clean(project_set_next_review_date(d, a, g), d, Kinds)
      /\ FollowedUp(project_set_next_review_date(d, a, g),
                    d, project_set_next_review_date(e, a, Append(g, x)))
  BY ProjectRequests, WritingSteps, ReviewedSteps
     DEF project_set_next_review_date
<1> QED
  BY <1>1, <1>2, <1>3, <1>4

\* src/tools/task/create.ts
LEMMA TaskCreateFollows ==
    ASSUME NEW d, Framed(d), NEW a, NEW g, Heard(g), NEW x, Honest(x), NEW e
    PROVE  /\ Clean(task_create(d, a, g), d, TaskKinds)
           /\ FollowedUp(task_create(d, a, g), d, task_create(e, a, Append(g, x)))
<1> DEFINE n == task_create(e, a, Append(g, x))
<1>1. Len(g) = 0 => n.drop # {}
  BY OneMore, DroppingSteps, TaskScopesHide DEF task_create
<1> HIDE DEF n
<1>2. Clean(task_create(d, a, g), d, TaskKinds)
  BY TaskReads, TaskRequests, ReadingSteps, WritingSteps, CleanSteps, TaskScopesHide DEF task_create
<1>3. FollowedUp(task_create(d, a, g), d, n)
  BY <1>1, TaskReads, FollowingSteps DEF task_create
<1> QED
  BY <1>2, <1>3 DEF n

\* doComplete of src/tools/task/complete.ts
LEMMA doCompleteSteps ==
    ASSUME NEW d, Framed(d), NEW a, NEW g
    PROVE  /\ Clean(doComplete(d, a, g), d, TaskKinds)
           /\ Len(g) \in Nat /\ Len(a.children) \in Nat =>
                 /\ Len(g) <= Len(a.children) => Pays(doComplete(d, a, g)) /\ doComplete(d, a, g).kind # "reply"
                 /\ Len(g) = Len(a.children) => doComplete(d, a, g).kind = "ask"
                 /\ Len(g) = Len(a.children) + 1 => doComplete(d, a, g).drop # {}
                 /\ Len(g) > Len(a.children) =>
                        Looks(doComplete(d, a, g), d) /\ doComplete(d, a, g).kind # "clarify"
<1>1. Clean(doComplete(d, a, g), d, TaskKinds)
  BY TaskReads, LibraryReads, TaskRequests, ReadingSteps, WritingSteps, CleanSteps,
     TaskScopesHide DEF doComplete
<1> SUFFICES ASSUME Len(g) \in Nat, Len(a.children) \in Nat
             PROVE  /\ Len(g) <= Len(a.children) => Pays(doComplete(d, a, g)) /\ doComplete(d, a, g).kind # "reply"
                    /\ Len(g) = Len(a.children) => doComplete(d, a, g).kind = "ask"
                    /\ Len(g) = Len(a.children) + 1 => doComplete(d, a, g).drop # {}
                    /\ Len(g) > Len(a.children) =>
                           Looks(doComplete(d, a, g), d) /\ doComplete(d, a, g).kind # "clarify"
  BY <1>1
<1>2. ASSUME Len(g) < Len(a.children)
      PROVE  doComplete(d, a, g) = Try(completeTask(d, a.children[Len(g) + 1]))
  BY <1>2 DEF doComplete
<1>3. ASSUME Len(g) = Len(a.children) PROVE doComplete(d, a, g) = Ask(completeTask(d, a.id))
  BY <1>3 DEF doComplete
<1>4. ASSUME Len(g) = Len(a.children) + 1
      PROVE  doComplete(d, a, g) =
               IF a.row.project = None THEN Done(Around(a.id, a.row), a.id)
               ELSE Flush(Around(a.id, a.row), Try(listTasks(d, [project |-> a.row.project, completed |-> FALSE])))
  BY <1>4 DEF doComplete
<1>5. ASSUME Len(g) > Len(a.children) + 1
      PROVE  doComplete(d, a, g) = Try(getProject(d, a.row.project)) \/ doComplete(d, a, g) = Same(a.id)
  BY <1>5 DEF doComplete
<1>6. Len(g) < Len(a.children) => Pays(doComplete(d, a, g)) /\ doComplete(d, a, g).kind # "reply"
  BY <1>2, PayingSteps DEF Try
<1>7. Len(g) = Len(a.children) =>
        Pays(doComplete(d, a, g)) /\ doComplete(d, a, g).kind # "reply" /\ doComplete(d, a, g).kind = "ask"
  BY <1>3, PayingSteps DEF Ask
<1>8. Len(g) = Len(a.children) + 1 =>
        /\ doComplete(d, a, g).drop # {} /\ Looks(doComplete(d, a, g), d)
        /\ doComplete(d, a, g).kind # "clarify"
  <2>1. \A f : Looking(listTasks(d, f), d)
    BY TaskReads
  <2> DEFINE Fine(s) == s.drop # {} /\ Looks(s, d) /\ s.kind # "clarify"
  <2>2. \A S, v : S # {} => Fine(Done(S, v))
    BY DroppingSteps DEF Done, Flush, Reply, Looks
  <2>3. \A S, r : S # {} /\ Looking(r, d) => Fine(Flush(S, Try(r)))
    BY DroppingSteps DEF Flush, Try, Looks
  <2> HIDE DEF Fine
  <2>4. Len(g) = Len(a.children) + 1 => Fine(doComplete(d, a, g))
    BY <1>4, <2>1, <2>2, <2>3, TaskScopesHide
  <2> QED
    BY <2>4 DEF Fine
<1>9. Len(g) > Len(a.children) + 1 => Looks(doComplete(d, a, g), d) /\ doComplete(d, a, g).kind # "clarify"
  BY <1>5, LibraryReads, LookingSteps DEF Same, Reply, Try
<1> QED
  BY <1>6, <1>7, <1>8, <1>9

\* src/tools/task/complete.ts
LEMMA TaskCompleteFollows ==
    ASSUME NEW d, Framed(d), NEW a, NEW g, Heard(g), NEW x, Honest(x), NEW e, Framed(e)
    PROVE  /\ Clean(task_complete(d, a, g), d, TaskKinds)
           /\ FollowedUp(task_complete(d, a, g), d, task_complete(e, a, Append(g, x)))
<1> DEFINE alone(h) == [id |-> a.id, row |-> Val(h, 1), children |-> <<>>]
           h == Append(g, x)
           s == doComplete(d, alone(g), SubSeq(g, 3, Len(g)))
           n == doComplete(e, alone(h), SubSeq(h, 3, Len(h)))
<1>1. Len(g) \in Nat /\ Len(h) = Len(g) + 1 /\ \A i \in 1..Len(g) : h[i] = g[i]
  BY OneMore
<1>2. Len(alone(g).children) = 0 /\ Len(alone(h).children) = 0
  OBVIOUS
<1>3. Len(g) > 1 => Len(SubSeq(g, 3, Len(g))) = Len(g) - 2 /\ Len(SubSeq(h, 3, Len(h))) = Len(g) - 1
  BY OneMore
<1>4. Clean(task_complete(d, a, g), d, TaskKinds)
  BY TaskReads, ReadingSteps, CleanSteps, doCompleteSteps DEF task_complete
<1>5. CASE Len(g) = 2 /\ ~(Ok(g, 2) /\ Val(g, 2) # {})
  <2>1. n.drop # {} /\ s.kind = "ask"
    <3> DEFINE al == alone(g)
               ah == alone(h)
               bg == SubSeq(g, 3, Len(g))
               bh == SubSeq(h, 3, Len(h))
    <3>1. /\ Len(bg) = 0 /\ Len(bh) \in Nat /\ Len(bh) = Len(ah.children) + 1
          /\ Len(al.children) = 0 /\ Len(ah.children) = 0 /\ Len(ah.children) \in Nat
      BY <1>1, <1>2, <1>3, <1>5
    <3> HIDE DEF al, ah, bg, bh
    <3>2. doComplete(d, al, bg).kind = "ask"
      BY <3>1, doCompleteSteps
    <3>3. doComplete(e, ah, bh).drop # {}
      BY <3>1, doCompleteSteps
    <3> QED
      BY <3>2, <3>3 DEF al, ah, bg, bh
  <2>2. ~(Ok(h, 2) /\ Val(h, 2) # {})
    BY <1>1, <1>5 DEF Ok, Val
  <2>3. task_complete(d, a, g) = s
    BY <1>5 DEF task_complete
  <2>4. task_complete(e, a, h) = n
    BY <1>1, <1>5, <2>2 DEF task_complete
  <2> HIDE DEF s, n, h
  <2>5. FollowedUp(task_complete(d, a, g), d, task_complete(e, a, h))
    BY <2>1, <2>3, <2>4, FollowingSteps
  <2> QED
    BY <1>4, <2>5 DEF h
<1>6. CASE ~(Len(g) = 2 /\ ~(Ok(g, 2) /\ Val(g, 2) # {}))
  <2>1. Looks(task_complete(d, a, g), d)
    <3>1. Len(g) > 2 => Looks(s, d)
      <4> SUFFICES ASSUME Len(g) > 2 PROVE Looks(s, d)
        OBVIOUS
      <4> DEFINE al == alone(g)
                 bg == SubSeq(g, 3, Len(g))
      <4>1. Len(bg) \in Nat /\ Len(bg) > 0 /\ Len(al.children) = 0
        BY <1>1, <1>2, <1>3
      <4> HIDE DEF al, bg
      <4>2. Looks(doComplete(d, al, bg), d)
        BY <4>1, doCompleteSteps
      <4> QED
        BY <4>2 DEF al, bg
    <3> HIDE DEF s
    <3> DEFINE m == task_complete(d, a, g)
    <3>2. \/ m = Ask(getTask(d, a.id)) \/ m = NoChange
          \/ \E f : m = Try(listTasks(d, f))
          \/ m.kind = "clarify"
          \/ Len(g) > 2 /\ m = s
      <4> HIDE DEF h
      <4>1. CASE Len(g) = 0
        BY <4>1 DEF task_complete
      <4>2. CASE Len(g) = 1
        BY <4>2 DEF task_complete
      <4>3. CASE Len(g) > 1 /\ Ok(g, 2) /\ Val(g, 2) # {}
        BY <4>3 DEF task_complete, Clarify
      <4>4. CASE Len(g) > 2 /\ ~(Ok(g, 2) /\ Val(g, 2) # {})
        BY <4>4 DEF task_complete, s
      <4>5. \A k \in Nat : /\ k = 0 \/ k = 1 \/ k = 2 \/ k > 2
                           /\ k > 1 \/ k = 0 \/ k = 1
        OBVIOUS
      <4>6. /\ Len(g) = 0 \/ Len(g) = 1 \/ Len(g) = 2 \/ Len(g) > 2
            /\ Len(g) > 1 \/ Len(g) = 0 \/ Len(g) = 1
        BY <1>1, <4>5
      <4> HIDE DEF m
      <4> QED
        BY <1>6, <4>1, <4>2, <4>3, <4>4, <4>6
    <3> HIDE DEF m
    <3>3. Looks(m, d)
      BY <3>1, <3>2, TaskReads, LookingSteps DEF Looks
    <3> QED
      BY <3>3 DEF m
  <2> QED
    BY <1>4, <2>1, FollowingSteps
<1> QED
  BY <1>4, <1>5, <1>6

\* src/tools/project/create.ts
LEMMA ProjectCreateFollows ==
    ASSUME NEW d, Framed(d), NEW a, NEW g, Heard(g), NEW x, Honest(x), NEW e
    PROVE  /\ Clean(project_create(d, a, g), d, Kinds)
           /\ FollowedUp(project_create(d, a, g), d, project_create(e, a, Append(g, x)))
<1> DEFINE h == Append(g, x)
           n == doCreate(e, a, Tail(h))
           asked(f) == Ok(f, 1) /\ Taken(a, Val(f, 1)) # {}
<1>1. /\ Len(g) \in Nat /\ Len(h) = Len(g) + 1 /\ \A i \in 1..Len(g) : h[i] = g[i]
      /\ Len(g) > 0 => Len(Tail(h)) = Len(g)
  BY OneMore
<1>2. Clean(project_create(d, a, g), d, Kinds)
  BY LibraryReads, ReadingSteps, CleanSteps, ProjectToolsPay DEF project_create
<1>3. CASE Len(g) > 0 /\ ~asked(g)
  <2>1. n.drop # {}
    <3> DEFINE t == Tail(h)
    <3>1. Len(t) # 0
      BY <1>1, <1>3
    <3> HIDE DEF t
    <3>2. doCreate(e, a, t) = Done(ProjectScopes(Val(t, 1).id), Val(t, 1).id)
      BY <3>1, Zenon DEF doCreate
    <3>3. doCreate(e, a, t).drop # {}
      BY <3>2, DroppingSteps, OtherScopesHide
    <3> QED
      BY <3>3 DEF t
  <2>2. ~asked(h)
    BY <1>1, <1>3 DEF Ok, Val
  <2>3. project_create(e, a, h) = n
    BY <1>1, <1>3, <2>2 DEF project_create
  <2>4. project_create(d, a, g) = doCreate(d, a, Tail(g))
    BY <1>3 DEF project_create
  <2> HIDE DEF n
  <2>5. FollowedUp(doCreate(d, a, Tail(g)), d, n)
    BY <2>1, FollowingSteps DEF doCreate
  <2> HIDE DEF h
  <2>6. FollowedUp(project_create(d, a, g), d, project_create(e, a, h))
    BY <2>3, <2>4, <2>5
  <2> QED
    BY <1>2, <2>6 DEF h
<1>4. CASE ~(Len(g) > 0 /\ ~asked(g))
  <2>1. Looks(project_create(d, a, g), d)
    <3> DEFINE m == project_create(d, a, g)
    <3>1. m = Try(listProjects(d, Nothing)) \/ \E c : m = Clarify(c)
      BY <1>1, <1>4 DEF project_create
    <3> HIDE DEF m
    <3>2. Looks(m, d)
      BY <3>1, LibraryReads, LookingSteps
    <3> QED
      BY <3>2 DEF m
  <2> QED
    BY <1>2, <2>1, FollowingSteps
<1> QED
  BY <1>2, <1>3, <1>4

\* src/tools/database
LEMMA UndoToolsFollow ==
    ASSUME NEW d, Framed(d), NEW a, NEW g, Heard(g), NEW x, Honest(x), NEW e,
           a.past # <<>> => Framed(Last(a.past)) /\ Framed(Head(a.past))
    PROVE  /\ Clean(database_undo(d, a, g), d, Kinds) /\ Clean(database_redo(d, a, g), d, Kinds)
           /\ x.val = database_undo(d, a, g).does.val =>
                 FollowedUp(database_undo(d, a, g), d, database_undo(e, a, Append(g, x)))
           /\ x.val = database_redo(d, a, g).does.val =>
                 FollowedUp(database_redo(d, a, g), d, database_redo(e, a, Append(g, x)))
<1>1. Framed(undoLastMutation(d, a.past).doc) /\ Framed(redoLastMutation(d, a.past).doc)
  BY DEF undoLastMutation, DatabaseUndo, redoLastMutation, DatabaseRedo, Answer
<1>2. \A v, w : Clean(Done(IF v THEN Everything ELSE {}, w), d, Kinds)
  <2> SUFFICES ASSUME NEW v, NEW w PROVE Clean(Done(IF v THEN Everything ELSE {}, w), d, Kinds)
    OBVIOUS
  <2>1. Clean(Done({}, w), d, Kinds)
    BY DEF Clean, Done, Flush, Reply
  <2> QED
    BY <2>1, CleanSteps, OtherScopesHide
<1>3. Clean(database_undo(d, a, g), d, Kinds) /\ Clean(database_redo(d, a, g), d, Kinds)
  BY <1>1, <1>2, WritingSteps DEF database_undo, database_redo, Undone
<1>4. ASSUME NEW r, r.doc # d => r.val = TRUE, NEW r2, x.val = Undone(g, r).does.val
      PROVE  FollowedUp(Undone(g, r), d, Undone(Append(g, x), r2))
  <2> DEFINE n == Undone(Append(g, x), r2)
  <2>1. CASE Len(g) = 0
    <3>1. Undone(g, r) = Ask(r)
      BY <2>1 DEF Undone
    <3>2. Val(Append(g, x), 1) = x.val /\ Len(Append(g, x)) = 1
      BY <2>1, OneMore DEF Val
    <3>3. x.val = r.val
      BY <1>4, <3>1 DEF Ask
    <3>4. r.val = TRUE => n = Done(Everything, x.val)
      <4> DEFINE h == Append(g, x)
      <4>1. Len(h) = 1 /\ Val(h, 1) = r.val
        BY <3>2, <3>3
      <4> HIDE DEF h
      <4>2. r.val = TRUE => Undone(h, r2) = Done(Everything, r.val)
        BY <4>1 DEF Undone
      <4> QED
        BY <3>3, <4>2 DEF h
    <3>5. r.val = TRUE => n.drop # {}
      BY <3>4, DroppingSteps, OtherScopesHide
    <3> HIDE DEF n
    <3> QED
      BY <1>4, <3>1, <3>5 DEF FollowedUp, Ask, n
  <2>2. CASE Len(g) # 0
    BY <2>2, FollowingSteps DEF Undone
  <2> QED
    BY <2>1, <2>2
<1>5. /\ undoLastMutation(d, a.past).doc # d => undoLastMutation(d, a.past).val = TRUE
      /\ redoLastMutation(d, a.past).doc # d => redoLastMutation(d, a.past).val = TRUE
  BY DEF undoLastMutation, DatabaseUndo, redoLastMutation, DatabaseRedo, Answer
<1> QED
  BY <1>3, <1>4, <1>5 DEF database_undo, database_redo

\* What holds at first and stays holds up to the end.
LEMMA CountsUp ==
    ASSUME NEW n \in Nat, NEW T, 0 \in T, \A m \in 0..n : m # 0 /\ m - 1 \in T => m \in T
    PROVE  0..n \subseteq T
<1> SUFFICES ASSUME NEW k \in 0..n, k \notin T PROVE FALSE
  OBVIOUS
<1> DEFINE Out == {m \in 0..n : m \notin T}
<1>1. Out \in SUBSET Nat /\ Out # {}
  OBVIOUS
<1>2. PICK x \in Out : \A y \in Out : x <= y
  BY <1>1, LeastNat
<1>3. x # 0 /\ x - 1 \in 0..n /\ ~(x <= x - 1)
  OBVIOUS
<1>4. x - 1 \in T
  BY <1>2, <1>3
<1> QED
  BY <1>3, <1>4

\* What a batch has come to after an item.
Tried(script, d, items, acc, i) ==
    LET r == Item(script, d, acc.doc, items[i]) IN
    IF r.code = "OK"
    THEN [doc |-> r.doc, ok |-> Append(acc.ok, [index |-> i, value |-> r.val]), bad |-> acc.bad]
    ELSE [doc |-> r.doc, ok |-> acc.ok, bad |-> Append(acc.bad, [index |-> i, code |-> r.code])]

\* f is what it has come to after each of the first n.
Tries(f, script, d, items, n) ==
    f = [i \in 0..n |-> IF i = 0 THEN [doc |-> d, ok |-> <<>>, bad |-> <<>>]
                        ELSE Tried(script, d, items, f[i - 1], i)]

\* One item more.
LEMMA TriesMore ==
    ASSUME NEW script, NEW d, NEW items, NEW n \in Nat, n # 0, \E f : Tries(f, script, d, items, n - 1)
    PROVE  \E g : Tries(g, script, d, items, n)
<1>1. PICK f : Tries(f, script, d, items, n - 1)
  OBVIOUS
<1> DEFINE start == [doc |-> d, ok |-> <<>>, bad |-> <<>>]
           g == [m \in 0..n |-> IF m = n THEN Tried(script, d, items, f[n - 1], n) ELSE f[m]]
<1>2. ASSUME NEW m \in 0..n
      PROVE  g[m] = IF m = 0 THEN start ELSE Tried(script, d, items, g[m - 1], m)
  <2> HIDE DEF start
  <2>1. CASE m = n
    <3>1. n - 1 \in 0..n /\ n - 1 # n
      OBVIOUS
    <3>2. g[n - 1] = f[n - 1] /\ g[n] = Tried(script, d, items, f[n - 1], n)
      BY <3>1
    <3> QED
      BY <2>1, <3>2
  <2>2. CASE m # n
    <3>1. m \in 0..(n - 1) /\ g[m] = f[m]
      BY <2>2
    <3>2. f[m] = IF m = 0 THEN start ELSE Tried(script, d, items, f[m - 1], m)
      BY <1>1, <3>1 DEF Tries, start
    <3>3. m # 0 => g[m - 1] = f[m - 1]
      BY <3>1
    <3> QED
      BY <3>1, <3>2, <3>3
  <2> QED
    BY <2>1, <2>2
<1>3. Tries(g, script, d, items, n)
  <2>1. g = [m \in 0..n |-> g[m]]
    OBVIOUS
  <2> HIDE DEF g
  <2> QED
    BY <2>1, <1>2 DEF Tries
<1> QED
  BY <1>3

\* The run over any number of items.
LEMMA TriesExist ==
    ASSUME NEW script, NEW d, NEW items, NEW n \in Nat
    PROVE  \E f : Tries(f, script, d, items, n)
<1> DEFINE T == {m \in 0..n : \E f : Tries(f, script, d, items, m)}
<1>1. 0 \in T
  <2> DEFINE f == [m \in 0..0 |-> [doc |-> d, ok |-> <<>>, bad |-> <<>>]]
  <2>1. \A m \in 0..0 : m = 0
    OBVIOUS
  <2>2. Tries(f, script, d, items, 0)
    BY <2>1 DEF Tries
  <2> QED
    BY <2>2
<1>2. ASSUME NEW m \in 0..n, m # 0, m - 1 \in T PROVE m \in T
  BY <1>2, TriesMore
<1>3. 0..n \subseteq T
  <2> HIDE DEF T
  <2> QED
    BY <1>1, <1>2, CountsUp
<1> QED
  BY <1>3

\* A batch is what it has come to after its last item.
LEMMA BatchIsTries ==
    ASSUME NEW script, NEW d, NEW items, Len(items) \in Nat
    PROVE  \E f : /\ Tries(f, script, d, items, Len(items))
                  /\ BatchScript(script, d, items) =
                        Answer(f[Len(items)].doc, [ok |-> f[Len(items)].ok, bad |-> f[Len(items)].bad])
<1> DEFINE F == CHOOSE f : Tries(f, script, d, items, Len(items))
<1>1. Tries(F, script, d, items, Len(items))
  BY TriesExist
<1>2. BatchScript(script, d, items) = Answer(F[Len(items)].doc, [ok |-> F[Len(items)].ok, bad |-> F[Len(items)].bad])
  BY DEF BatchScript, EachItem, Tries, Tried
<1> HIDE DEF F
<1> QED
  BY <1>1, <1>2

\* The answer of a batch names its items; where there are some it names one.
NamesSome(v) == OkItems(v) # {} \/ BadItems(v) # {}

\* A sequence of anything
IsSequence(s) == \E S : s \in Seq(S)

\* With one element more it names one.
LEMMA AppendNames ==
    ASSUME NEW s, IsSequence(s), NEW x
    PROVE  IsSequence(Append(s, x)) /\ DOMAIN Append(s, x) # {}
<1>1. PICK S : s \in Seq(S)
  BY DEF IsSequence
<1>2. s \in Seq(S \cup {x}) /\ x \in S \cup {x}
  BY <1>1
<1>3. Append(s, x) \in Seq(S \cup {x}) /\ Len(Append(s, x)) = Len(s) + 1 /\ Len(s) \in Nat
  BY <1>2
<1>4. Len(s) + 1 \in 1..Len(Append(s, x))
  BY <1>3
<1> QED
  BY <1>3, <1>4 DEF IsSequence


\* The scripts of batches (src/adapter/jxa/scripts)
TaskBatches == {"task_batch_create", "task_batch_update", "task_batch_complete", "task_batch_delete",
                "task_batch_drop", "task_batch_undrop", "task_batch_uncomplete", "task_batch_move"}
ProjectBatches == {"project_batch_complete", "project_batch_drop"}

\* What an item may leave.
Left(script, e, d) == IF script \in TaskBatches THEN OnlyTasks(e, d) ELSE Framed(e)

\* Item by item a batch of tasks changes tasks.
LEMMA ItemLeaves ==
    ASSUME NEW script \in TaskBatches \cup ProjectBatches, NEW d, Framed(d), NEW e, Left(script, e, d), NEW x
    PROVE  Left(script, Item(script, d, e, x).doc, d)
<1>1. \A b : Framed(b) =>
        /\ OnlyTasks(CreateItem(b, x).doc, b) /\ OnlyTasks(UpdateItem(b, x).doc, b)
        /\ OnlyTasks(TaskMove(b, x.id, x.to).doc, b)
        /\ OnlyTasks(TaskComplete(b, x).doc, b) /\ OnlyTasks(TaskDelete(b, x).doc, b)
        /\ OnlyTasks(TaskDrop(b, x).doc, b) /\ OnlyTasks(TaskUndrop(b, x).doc, b)
        /\ OnlyTasks(Answer(MarkIncomplete(b, x), x).doc, b) /\ OnlyTasks(Refuse(b, "NotFound").doc, b)
  <2> SUFFICES ASSUME NEW b, Framed(b)
      PROVE /\ OnlyTasks(CreateItem(b, x).doc, b) /\ OnlyTasks(UpdateItem(b, x).doc, b)
            /\ OnlyTasks(TaskMove(b, x.id, x.to).doc, b)
            /\ OnlyTasks(TaskComplete(b, x).doc, b) /\ OnlyTasks(TaskDelete(b, x).doc, b)
            /\ OnlyTasks(TaskDrop(b, x).doc, b) /\ OnlyTasks(TaskUndrop(b, x).doc, b)
            /\ OnlyTasks(Answer(MarkIncomplete(b, x), x).doc, b) /\ OnlyTasks(Refuse(b, "NotFound").doc, b)
    OBVIOUS
  <2>1. \A at, fields : OnlyTasks(Insert(b, at, fields).doc, b)
    BY AnswersDoc, TasksComeAndGo DEF Insert
  <2>2. OnlyTasks(CreateItem(b, x).doc, b)
    BY <2>1, FoundTasks DEF CreateItem
  <2>3. OnlyTasks(UpdateItem(b, x).doc, b)
    BY AnswersTasks, TaskMarks DEF UpdateItem
  <2>4. /\ OnlyTasks(TaskMove(b, x.id, x.to).doc, b)
        /\ OnlyTasks(TaskComplete(b, x).doc, b) /\ OnlyTasks(TaskDelete(b, x).doc, b)
        /\ OnlyTasks(TaskDrop(b, x).doc, b) /\ OnlyTasks(TaskUndrop(b, x).doc, b)
    BY TaskRequests DEF moveTask, completeTask, deleteTask, dropTask, undropTask
  <2>5. OnlyTasks(Answer(MarkIncomplete(b, x), x).doc, b) /\ OnlyTasks(Refuse(b, "NotFound").doc, b)
    BY TaskMarks, AnswersTasks, SameTasks
  <2> QED
    BY <2>2, <2>3, <2>4, <2>5
<1>2. \A b : OnlyTasks(b, e) /\ OnlyTasks(e, d) => OnlyTasks(b, d)
  BY DEF OnlyTasks
<1>3. CASE script \in TaskBatches
  <2>1. OnlyTasks(e, d) /\ Framed(e)
    BY <1>3, OnlyTasksIs DEF Left
  <2>2. OnlyTasks(Item(script, d, e, x).doc, e)
    BY <1>1, <1>3, <2>1 DEF Item, TaskBatches
  <2> QED
    BY <1>2, <1>3, <2>1, <2>2 DEF Left
<1>4. CASE script \notin TaskBatches
  <2>1. script \in ProjectBatches /\ Framed(e)
    BY <1>4 DEF Left
  <2>2. \A p : Framed(ProjectComplete(e, p).doc) /\ Framed(ProjectDrop(e, p).doc)
    BY <2>1, ProjectRequests DEF completeProject, dropProject
  <2>3. Framed(Refuse(e, "NotFound").doc)
    BY <2>1 DEF Refuse
  <2> QED
    BY <1>4, <2>1, <2>2, <2>3 DEF Left, Item, ProjectBatches
<1> QED
  BY <1>3, <1>4

\* After some of its items
Batched(script, d, acc, i) ==
    /\ Left(script, acc.doc, d)
    /\ IsSequence(acc.ok) /\ IsSequence(acc.bad)
    /\ (i # 0 => NamesSome(acc))

\* A batch that changes something, or has an item, names an item in its answer.
LEMMA BatchSettles ==
    ASSUME NEW script \in TaskBatches \cup ProjectBatches, NEW d, Framed(d), NEW items, Len(items) \in Nat
    PROVE  LET r == BatchScript(script, d, items) IN
           /\ r.code = "OK" /\ Left(script, r.doc, d)
           /\ Len(items) # 0 => NamesSome(r.val)
           /\ r.doc # d => NamesSome(r.val)
<1> DEFINE n == Len(items)
<1>1. PICK f : /\ Tries(f, script, d, items, n)
               /\ BatchScript(script, d, items) = Answer(f[n].doc, [ok |-> f[n].ok, bad |-> f[n].bad])
  BY BatchIsTries
<1> DEFINE T == {i \in 0..n : Batched(script, d, f[i], i)}
<1>2. f[0] = [doc |-> d, ok |-> <<>>, bad |-> <<>>]
  BY <1>1 DEF Tries
<1>3. 0 \in T
  <2>1. Left(script, d, d)
    BY SameTasks DEF Left
  <2>2. IsSequence(<<>>)
    BY DEF IsSequence
  <2> QED
    BY <1>2, <2>1, <2>2 DEF Batched
<1>4. ASSUME NEW i \in 0..n, i # 0, i - 1 \in T PROVE i \in T
  <2> DEFINE b == f[i - 1]
             r == Item(script, d, b.doc, items[i])
  <2>1. f[i] = Tried(script, d, items, b, i)
    BY <1>1, <1>4 DEF Tries
  <2>2. Batched(script, d, b, i - 1)
    BY <1>4
  <2>3. Left(script, r.doc, d)
    BY <2>2, ItemLeaves DEF Batched
  <2> HIDE DEF b
  <2>4. \/ f[i] = [doc |-> r.doc, ok |-> Append(b.ok, [index |-> i, value |-> r.val]), bad |-> b.bad]
        \/ f[i] = [doc |-> r.doc, ok |-> b.ok, bad |-> Append(b.bad, [index |-> i, code |-> r.code])]
    BY <2>1 DEF Tried
  <2> HIDE DEF r
  <2>5. Batched(script, d, f[i], i)
    <3>1. \A acc : DOMAIN acc.ok # {} \/ DOMAIN acc.bad # {} => NamesSome(acc)
      BY DEF NamesSome, OkItems, BadItems
    <3>2. IsSequence(b.ok) /\ IsSequence(b.bad)
      BY <2>2 DEF Batched
    <3>3. \A y : /\ IsSequence(Append(b.ok, y)) /\ DOMAIN Append(b.ok, y) # {}
                /\ IsSequence(Append(b.bad, y)) /\ DOMAIN Append(b.bad, y) # {}
      BY <3>2, AppendNames
    <3>4. f[i].doc = r.doc
      BY <2>4
    <3>5. IsSequence(f[i].ok) /\ IsSequence(f[i].bad) /\ (DOMAIN f[i].ok # {} \/ DOMAIN f[i].bad # {})
      <4>1. \/ \E y : f[i].ok = Append(b.ok, y) /\ f[i].bad = b.bad
            \/ \E y : f[i].ok = b.ok /\ f[i].bad = Append(b.bad, y)
        <5> DEFINE y == [index |-> i, value |-> r.val]
                   z == [index |-> i, code |-> r.code]
        <5>1. \/ f[i] = [doc |-> r.doc, ok |-> Append(b.ok, y), bad |-> b.bad]
              \/ f[i] = [doc |-> r.doc, ok |-> b.ok, bad |-> Append(b.bad, z)]
          BY <2>4
        <5> HIDE DEF y, z
        <5>2. \/ f[i].ok = Append(b.ok, y) /\ f[i].bad = b.bad
              \/ f[i].ok = b.ok /\ f[i].bad = Append(b.bad, z)
          BY <5>1
        <5> QED
          BY <5>2
      <4>2. CASE \E y : f[i].ok = Append(b.ok, y) /\ f[i].bad = b.bad
        BY <4>2, <3>2, <3>3
      <4>3. CASE \E y : f[i].ok = b.ok /\ f[i].bad = Append(b.bad, y)
        BY <4>3, <3>2, <3>3
      <4> QED
        BY <4>1, <4>2, <4>3
    <3> QED
      BY <2>3, <3>1, <3>4, <3>5 DEF Batched
  <2> QED
    BY <2>5
<1>5. Batched(script, d, f[n], n)
  <2> HIDE DEF T, n
  <2>1. 0..n \subseteq T
    BY <1>3, <1>4, CountsUp DEF n
  <2> QED
    BY <2>1 DEF T, n
<1>6. n = 0 => f[n].doc = d
  BY <1>2
<1> HIDE DEF n
<1> QED
  BY <1>1, <1>5, <1>6 DEF Batched, Answer, NamesSome, OkItems, BadItems, n

\* The step s invalidates, or tells the caller that the call fell short.
Ends(tool, s) ==
    \/ s.drop # {} \/ s.kind = "clarify"
    \/ s.kind = "reply" /\ FellShort(tool, [code |-> s.code, val |-> s.val])

\* When the step s writes and is answered x, the next one, n, ends the call's debt.
SettledBy(tool, s, d, x, n) ==
    s.kind \in {"ask", "try"} /\ s.does.doc # d =>
        s.kind = "ask" /\ (x.code = "OK" /\ x.val = s.does.val => Ends(tool, n))

\* Replies that invalidate, or that name what failed.
LEMMA EndingSteps ==
    ASSUME NEW tool \in Batches
    PROVE  /\ \A S, D, F : S # {} \/ F # {} => Ends(tool, Done(S, Outcome(D, F)))
           /\ \A code, v : code # "OK" => Ends(tool, Reply(code, v)) /\ Ends(tool, Fail(code))
           /\ \A v : Ends(tool, Preview(v))
<1>1. \A S, D, F : S # {} \/ F # {} => Ends(tool, Done(S, Outcome(D, F)))
  <2> TAKE S, D, F
  <2> DEFINE s == Done(S, Outcome(D, F))
  <2>1. s.drop = S /\ s.kind = "reply" /\ s.code = "OK" /\ s.val = Outcome(D, F)
    <3>1. {} \cup S = S
      OBVIOUS
    <3> QED
      BY <3>1 DEF Done, Flush, Same, Reply
  <2> HIDE DEF s
  <2>2. F # {} => FellShort(tool, [code |-> s.code, val |-> s.val])
    BY <2>1 DEF FellShort, Outcome
  <2>3. S # {} \/ F # {} => Ends(tool, s)
    BY <2>1, <2>2 DEF Ends
  <2> QED
    BY <2>3 DEF s
<1>2. /\ \A code, v : code # "OK" => Ends(tool, Reply(code, v)) /\ Ends(tool, Fail(code))
      /\ \A v : Ends(tool, Preview(v))
  BY DEF Ends, Reply, Fail, Preview, FellShort
<1> QED
  BY <1>1, <1>2

\* Steps whose next one may end the debt.
LEMMA SettlingSteps ==
    ASSUME NEW tool, NEW d, NEW x, NEW n
    PROVE  /\ \A r : Looking(r, d) => SettledBy(tool, Ask(r), d, x, n) /\ SettledBy(tool, Try(r), d, x, n)
           /\ \A r : (x.val = r.val => Ends(tool, n)) => SettledBy(tool, Ask(r), d, x, n)
           /\ \A r : (r.doc # d /\ x.val = r.val => Ends(tool, n)) => SettledBy(tool, Ask(r), d, x, n)
           /\ \A S, v : SettledBy(tool, Done(S, v), d, x, n)
           /\ \A v, code : SettledBy(tool, Reply(code, v), d, x, n) /\ SettledBy(tool, Preview(v), d, x, n)
                           /\ SettledBy(tool, Fail(code), d, x, n)
BY DEF SettledBy, Ask, Try, Looking, Done, Flush, Same, Reply, Preview, Fail

\* More scopes cover more.
LEMMA HidesMore == \A S, T, A : Hides(S, A) /\ S \subseteq T => Hides(T, A)
BY DEF Hides

\* A batch of tasks: the places, the write, and the scopes of what was done.
LEMMA BatchStepsEnd ==
    ASSUME NEW tool \in Batches, NEW d, Framed(d), NEW ids, NEW g, Heard(g), NEW x, Honest(x),
           NEW w, Clean(Ask(w), d, TaskKinds), w.doc # d => NamesSome(w.val), NEW more,
           NEW e, NEW u, NEW others
    PROVE  /\ Clean(Batch(d, ids, g, w, more), d, TaskKinds)
           /\ SettledBy(tool, Batch(d, ids, g, w, more), d, x, Batch(e, ids, Append(g, x), u, others))
<1> DEFINE ok == OkItems(Val(g, 2))
           S == UNION {Around(ids[i], Val(g, 1)[i]) \cup more[i] : i \in ok}
           F == Ids(ids, BadItems(Val(g, 2)))
<1>1. S # {} => Hides(S, TaskKinds)
  <2> SUFFICES ASSUME S # {} PROVE Hides(S, TaskKinds)
    OBVIOUS
  <2>1. PICK i \in ok : TRUE
    OBVIOUS
  <2> DEFINE R == Around(ids[i], Val(g, 1)[i]) \cup more[i]
  <2>2. R \subseteq S
    BY <2>1
  <2>3. Hides(R, TaskKinds)
    BY TaskScopesHide
  <2> HIDE DEF R, S
  <2> QED
    BY <2>2, <2>3, HidesMore
<1> HIDE DEF S
<1>2. Clean(Batch(d, ids, g, w, more), d, TaskKinds)
  <2>1. \A v : Clean(Done(S, v), d, TaskKinds)
    <3>1. CASE S = {}
      BY <3>1 DEF Clean, Done, Flush, Same, Reply
    <3>2. CASE S # {}
      BY <1>1, <3>2, CleanSteps
    <3> QED
      BY <3>1, <3>2
  <2> QED
    BY <2>1, TaskReads, ReadingSteps DEF Batch, S
<1>3. ASSUME Len(g) = 1, x.val = w.val, NamesSome(w.val)
      PROVE  Ends(tool, Batch(e, ids, Append(g, x), u, others))
  <2> DEFINE h == Append(g, x)
             T == UNION {Around(ids[i], Val(h, 1)[i]) \cup others[i] : i \in OkItems(Val(h, 2))}
             B == Ids(ids, BadItems(Val(h, 2)))
             done == Ids(ids, OkItems(Val(h, 2)))
  <2>1. Len(h) = 2 /\ Val(h, 2) = w.val
    <3>1. Len(h) = Len(g) + 1 /\ h[Len(g) + 1] = x
      BY OneMore
    <3> HIDE DEF h
    <3> QED
      BY <3>1, <1>3 DEF Val
  <2> HIDE DEF h
  <2>2. T # {} \/ B # {}
    <3>1. OkItems(Val(h, 2)) # {} => T # {}
      BY TaskScopesHide
    <3>2. BadItems(Val(h, 2)) # {} => B # {}
      BY DEF Ids
    <3> HIDE DEF T, B
    <3> QED
      BY <2>1, <3>1, <3>2, <1>3 DEF NamesSome
  <2>3. Batch(e, ids, h, u, others) = Done(T, Outcome(done, B))
    BY <2>1 DEF Batch
  <2> HIDE DEF T, B, done
  <2>4. Ends(tool, Batch(e, ids, h, u, others))
    BY <2>2, <2>3, EndingSteps
  <2> QED
    BY <2>4 DEF h
<1> DEFINE n == Batch(e, ids, Append(g, x), u, others)
<1>4. Len(g) = 1 /\ w.doc # d /\ x.val = w.val => Ends(tool, n)
  BY <1>3
<1> HIDE DEF n
<1>5. SettledBy(tool, Batch(d, ids, g, w, more), d, x, n)
  <2>1. CASE Len(g) = 0
    <3>1. Looking(getTasksMany(d, ids), d)
      BY TaskReads
    <3>2. Batch(d, ids, g, w, more) = Ask(getTasksMany(d, ids))
      BY <2>1 DEF Batch
    <3> QED
      BY <3>1, <3>2, SettlingSteps
  <2>2. CASE Len(g) = 1
    BY <1>4, <2>2, SettlingSteps DEF Batch
  <2>3. CASE Len(g) # 0 /\ Len(g) # 1
    BY <2>3, SettlingSteps DEF Batch
  <2> QED
    BY <2>1, <2>2, <2>3
<1> QED
  BY <1>2, <1>5 DEF n

\* A batch of projects
LEMMA ProjectsBatchEnd ==
    ASSUME NEW tool \in Batches, NEW d, Framed(d), NEW ids, NEW g, Heard(g), NEW x, Honest(x),
           NEW w, Clean(Ask(w), d, Kinds), w.doc # d => NamesSome(w.val), NEW e, NEW u
    PROVE  /\ Clean(ProjectsBatch(d, ids, g, w), d, Kinds)
           /\ SettledBy(tool, ProjectsBatch(d, ids, g, w), d, x, ProjectsBatch(e, ids, Append(g, x), u))
<1> DEFINE S == UNION {ProjectScopes(ids[i]) : i \in OkItems(Val(g, 2))}
<1>1. S # {} => Hides(S, Kinds)
  <2> SUFFICES ASSUME S # {} PROVE Hides(S, Kinds)
    OBVIOUS
  <2>1. PICK i \in OkItems(Val(g, 2)) : TRUE
    OBVIOUS
  <2> DEFINE R == ProjectScopes(ids[i])
  <2>2. R \subseteq S
    BY <2>1
  <2>3. Hides(R, Kinds)
    BY OtherScopesHide
  <2> HIDE DEF R, S
  <2> QED
    BY <2>2, <2>3, HidesMore
<1> HIDE DEF S
<1>2. Clean(ProjectsBatch(d, ids, g, w), d, Kinds)
  <2>1. \A v : Clean(Done(S, v), d, Kinds)
    <3>1. CASE S = {}
      BY <3>1 DEF Clean, Done, Flush, Same, Reply
    <3>2. CASE S # {}
      BY <1>1, <3>2, CleanSteps
    <3> QED
      BY <3>1, <3>2
  <2> QED
    BY <2>1, LibraryReads, ReadingSteps DEF ProjectsBatch, S
<1>3. ASSUME Len(g) = 1, x.val = w.val, NamesSome(w.val)
      PROVE  Ends(tool, ProjectsBatch(e, ids, Append(g, x), u))
  <2> DEFINE h == Append(g, x)
             T == UNION {ProjectScopes(ids[i]) : i \in OkItems(Val(h, 2))}
             B == Ids(ids, BadItems(Val(h, 2)))
             done == Ids(ids, OkItems(Val(h, 2)))
  <2>1. Len(h) = 2 /\ Val(h, 2) = w.val
    <3>1. Len(h) = Len(g) + 1 /\ h[Len(g) + 1] = x
      BY OneMore
    <3> HIDE DEF h
    <3> QED
      BY <3>1, <1>3 DEF Val
  <2> HIDE DEF h
  <2>2. T # {} \/ B # {}
    <3>1. OkItems(Val(h, 2)) # {} => T # {}
      BY OtherScopesHide
    <3>2. BadItems(Val(h, 2)) # {} => B # {}
      BY DEF Ids
    <3> HIDE DEF T, B
    <3> QED
      BY <2>1, <3>1, <3>2, <1>3 DEF NamesSome
  <2>3. ProjectsBatch(e, ids, h, u) = Done(T, Outcome(done, B))
    BY <2>1 DEF ProjectsBatch
  <2> HIDE DEF T, B, done
  <2>4. Ends(tool, ProjectsBatch(e, ids, h, u))
    BY <2>2, <2>3, EndingSteps
  <2> QED
    BY <2>4 DEF h
<1> DEFINE n == ProjectsBatch(e, ids, Append(g, x), u)
<1>4. Len(g) = 1 /\ w.doc # d /\ x.val = w.val => Ends(tool, n)
  BY <1>3
<1> HIDE DEF n
<1>5. SettledBy(tool, ProjectsBatch(d, ids, g, w), d, x, n)
  <2>1. CASE Len(g) = 0
    <3>1. Looking(getProjectsMany(d, ids), d)
      BY LibraryReads
    <3>2. ProjectsBatch(d, ids, g, w) = Ask(getProjectsMany(d, ids))
      BY <2>1 DEF ProjectsBatch
    <3> QED
      BY <3>1, <3>2, SettlingSteps
  <2>2. CASE Len(g) = 1
    BY <1>4, <2>2, SettlingSteps DEF ProjectsBatch
  <2>3. CASE Len(g) # 0 /\ Len(g) # 1
    BY <2>3, SettlingSteps DEF ProjectsBatch
  <2> QED
    BY <2>1, <2>2, <2>3
<1> QED
  BY <1>2, <1>5 DEF n

\* What has a length, and that many elements
Listed(s) == Len(s) \in Nat /\ DOMAIN s = 1..Len(s)

\* A function on the places of a sequence
LEMMA ListedLen ==
    ASSUME NEW n \in Nat, NEW f, f = [i \in 1..n |-> f[i]]
    PROVE  Len(f) = n /\ (n # 0 => f # <<>>)
<1> DEFINE S == {f[i] : i \in 1..n}
<1>1. f \in [1..n -> S]
  OBVIOUS
<1>2. f \in Seq(S)
  BY <1>1
<1>3. 1..Len(f) = 1..n /\ Len(f) \in Nat
  BY <1>1, <1>2
<1> HIDE DEF S
<1>4. Len(f) = n
  BY <1>3
<1> QED
  BY <1>4

\* The batches write tasks.
LEMMA BatchRequests ==
    ASSUME NEW d, Framed(d), NEW items, Len(items) \in Nat
    PROVE  LET Fine(r) == /\ OnlyTasks(r.doc, d)
                          /\ (r.doc # d => NamesSome(r.val)) /\ (Len(items) # 0 => NamesSome(r.val))
           IN /\ Fine(batchCompleteTasks(d, items)) /\ Fine(batchUncompleteTasks(d, items))
              /\ Fine(batchDeleteTasks(d, items)) /\ Fine(batchDropTasks(d, items))
              /\ Fine(batchUndropTasks(d, items)) /\ Fine(batchUpdateTasks(d, items))
              /\ Fine(batchMoveTasks(d, items)) /\ Fine(batchCreateTasks(d, items))
              /\ Framed(batchCompleteProjects(d, items).doc) /\ Framed(batchDropProjects(d, items).doc)
              /\ (batchCompleteProjects(d, items).doc # d => NamesSome(batchCompleteProjects(d, items).val))
              /\ (batchDropProjects(d, items).doc # d => NamesSome(batchDropProjects(d, items).val))
<1>1. ASSUME NEW script \in TaskBatches
      PROVE  LET r == BatchScript(script, d, items) IN
             OnlyTasks(r.doc, d) /\ (r.doc # d => NamesSome(r.val)) /\ (Len(items) # 0 => NamesSome(r.val))
  BY BatchSettles DEF Left
<1>2. ASSUME NEW script \in ProjectBatches
      PROVE  LET r == BatchScript(script, d, items) IN Framed(r.doc) /\ (r.doc # d => NamesSome(r.val))
  <2>1. script \notin TaskBatches
    BY <1>2 DEF TaskBatches, ProjectBatches
  <2> QED
    BY <2>1, BatchSettles DEF Left
<1> QED
  BY <1>1, <1>2 DEF TaskBatches, ProjectBatches,
     batchCompleteTasks, TaskBatchComplete, batchUncompleteTasks, TaskBatchUncomplete,
     batchDeleteTasks, TaskBatchDelete, batchDropTasks, TaskBatchDrop, batchUndropTasks, TaskBatchUndrop,
     batchUpdateTasks, TaskBatchUpdate, batchMoveTasks, TaskBatchMove, batchCreateTasks, TaskBatchCreate,
     batchCompleteProjects, ProjectBatchComplete, batchDropProjects, ProjectBatchDrop

\* Arguments of a call that come in as the schemas of the tools have them
LEMMA BatchToolsEnd ==
    ASSUME NEW d, Framed(d), NEW a, NEW g, Heard(g), NEW x, Honest(x), NEW e
    PROVE  /\ Len(a.ids) \in Nat =>
                 /\ Clean(task_batch_complete(d, a, g), d, TaskKinds)
                    /\ SettledBy("task_batch_complete", task_batch_complete(d, a, g),
                                  d, x, task_batch_complete(e, a, Append(g, x)))
                 /\ Clean(task_batch_uncomplete(d, a, g), d, TaskKinds)
                    /\ SettledBy("task_batch_uncomplete", task_batch_uncomplete(d, a, g),
                                  d, x, task_batch_uncomplete(e, a, Append(g, x)))
                 /\ Clean(task_batch_delete(d, a, g), d, TaskKinds)
                    /\ SettledBy("task_batch_delete", task_batch_delete(d, a, g),
                                  d, x, task_batch_delete(e, a, Append(g, x)))
                 /\ Clean(task_batch_drop(d, a, g), d, TaskKinds)
                    /\ SettledBy("task_batch_drop", task_batch_drop(d, a, g),
                                  d, x, task_batch_drop(e, a, Append(g, x)))
                 /\ Clean(task_batch_undrop(d, a, g), d, TaskKinds)
                    /\ SettledBy("task_batch_undrop", task_batch_undrop(d, a, g),
                                  d, x, task_batch_undrop(e, a, Append(g, x)))
                 /\ Clean(project_batch_complete(d, a, g), d, Kinds)
                    /\ SettledBy("project_batch_complete", project_batch_complete(d, a, g),
                                  d, x, project_batch_complete(e, a, Append(g, x)))
                 /\ Clean(project_batch_drop(d, a, g), d, Kinds)
                    /\ SettledBy("project_batch_drop", project_batch_drop(d, a, g),
                                  d, x, project_batch_drop(e, a, Append(g, x)))
           /\ Listed(a.items) =>
                 /\ Clean(task_batch_update(d, a, g), d, TaskKinds)
                    /\ SettledBy("task_batch_update", task_batch_update(d, a, g),
                                  d, x, task_batch_update(e, a, Append(g, x)))
                 /\ Clean(task_batch_move(d, a, g), d, TaskKinds)
                    /\ SettledBy("task_batch_move", task_batch_move(d, a, g),
                                  d, x, task_batch_move(e, a, Append(g, x)))
<1>1. ASSUME Len(a.ids) \in Nat
      PROVE  Clean(task_batch_complete(d, a, g), d, TaskKinds)
             /\ SettledBy("task_batch_complete", task_batch_complete(d, a, g),
                           d, x, task_batch_complete(e, a, Append(g, x)))
  <2> DEFINE w == batchCompleteTasks(d, a.ids)
  <2>1. Clean(Ask(w), d, TaskKinds) /\ (w.doc # d => NamesSome(w.val))
    BY <1>1, BatchRequests, WritingSteps
  <2> HIDE DEF w
  <2>2. "task_batch_complete" \in Batches
    BY DEF Batches
  <2> QED
    BY <2>1, <2>2, BatchStepsEnd DEF task_batch_complete, w
<1>2. ASSUME Len(a.ids) \in Nat
      PROVE  Clean(task_batch_uncomplete(d, a, g), d, TaskKinds)
             /\ SettledBy("task_batch_uncomplete", task_batch_uncomplete(d, a, g),
                           d, x, task_batch_uncomplete(e, a, Append(g, x)))
  <2> DEFINE w == batchUncompleteTasks(d, a.ids)
  <2>1. Clean(Ask(w), d, TaskKinds) /\ (w.doc # d => NamesSome(w.val))
    BY <1>2, BatchRequests, WritingSteps
  <2> HIDE DEF w
  <2>2. "task_batch_uncomplete" \in Batches
    BY DEF Batches
  <2> QED
    BY <2>1, <2>2, BatchStepsEnd DEF task_batch_uncomplete, w
<1>3. ASSUME Len(a.ids) \in Nat
      PROVE  Clean(task_batch_delete(d, a, g), d, TaskKinds)
             /\ SettledBy("task_batch_delete", task_batch_delete(d, a, g),
                           d, x, task_batch_delete(e, a, Append(g, x)))
  <2> DEFINE w == batchDeleteTasks(d, a.ids)
  <2>1. Clean(Ask(w), d, TaskKinds) /\ (w.doc # d => NamesSome(w.val))
    BY <1>3, BatchRequests, WritingSteps
  <2> HIDE DEF w
  <2>2. "task_batch_delete" \in Batches
    BY DEF Batches
  <2> QED
    BY <2>1, <2>2, BatchStepsEnd DEF task_batch_delete, w
<1>4. ASSUME Len(a.ids) \in Nat
      PROVE  Clean(task_batch_drop(d, a, g), d, TaskKinds)
             /\ SettledBy("task_batch_drop", task_batch_drop(d, a, g),
                           d, x, task_batch_drop(e, a, Append(g, x)))
  <2> DEFINE w == batchDropTasks(d, a.ids)
  <2>1. Clean(Ask(w), d, TaskKinds) /\ (w.doc # d => NamesSome(w.val))
    BY <1>4, BatchRequests, WritingSteps
  <2> HIDE DEF w
  <2>2. "task_batch_drop" \in Batches
    BY DEF Batches
  <2> QED
    BY <2>1, <2>2, BatchStepsEnd DEF task_batch_drop, w
<1>5. ASSUME Len(a.ids) \in Nat
      PROVE  Clean(task_batch_undrop(d, a, g), d, TaskKinds)
             /\ SettledBy("task_batch_undrop", task_batch_undrop(d, a, g),
                           d, x, task_batch_undrop(e, a, Append(g, x)))
  <2> DEFINE w == batchUndropTasks(d, a.ids)
  <2>1. Clean(Ask(w), d, TaskKinds) /\ (w.doc # d => NamesSome(w.val))
    BY <1>5, BatchRequests, WritingSteps
  <2> HIDE DEF w
  <2>2. "task_batch_undrop" \in Batches
    BY DEF Batches
  <2> QED
    BY <2>1, <2>2, BatchStepsEnd DEF task_batch_undrop, w
<1>6. ASSUME Len(a.ids) \in Nat
      PROVE  Clean(project_batch_complete(d, a, g), d, Kinds)
             /\ SettledBy("project_batch_complete", project_batch_complete(d, a, g),
                           d, x, project_batch_complete(e, a, Append(g, x)))
  <2> DEFINE w == batchCompleteProjects(d, a.ids)
  <2>1. Clean(Ask(w), d, Kinds) /\ (w.doc # d => NamesSome(w.val))
    BY <1>6, BatchRequests, WritingSteps
  <2> HIDE DEF w
  <2>2. "project_batch_complete" \in Batches
    BY DEF Batches
  <2> QED
    BY <2>1, <2>2, ProjectsBatchEnd DEF project_batch_complete, w
<1>7. ASSUME Len(a.ids) \in Nat
      PROVE  Clean(project_batch_drop(d, a, g), d, Kinds)
             /\ SettledBy("project_batch_drop", project_batch_drop(d, a, g),
                           d, x, project_batch_drop(e, a, Append(g, x)))
  <2> DEFINE w == batchDropProjects(d, a.ids)
  <2>1. Clean(Ask(w), d, Kinds) /\ (w.doc # d => NamesSome(w.val))
    BY <1>7, BatchRequests, WritingSteps
  <2> HIDE DEF w
  <2>2. "project_batch_drop" \in Batches
    BY DEF Batches
  <2> QED
    BY <2>1, <2>2, ProjectsBatchEnd DEF project_batch_drop, w
<1>8. ASSUME Listed(a.items)
      PROVE  Clean(task_batch_update(d, a, g), d, TaskKinds)
             /\ SettledBy("task_batch_update", task_batch_update(d, a, g),
                           d, x, task_batch_update(e, a, Append(g, x)))
  <2> DEFINE w == batchUpdateTasks(d, a.items)
  <2>1. Clean(Ask(w), d, TaskKinds) /\ (w.doc # d => NamesSome(w.val))
    BY <1>8, BatchRequests, WritingSteps DEF Listed
  <2> HIDE DEF w
  <2>2. "task_batch_update" \in Batches
    BY DEF Batches
  <2> QED
    BY <2>1, <2>2, BatchStepsEnd DEF task_batch_update, w
<1>9. ASSUME Listed(a.items)
      PROVE  Clean(task_batch_move(d, a, g), d, TaskKinds)
             /\ SettledBy("task_batch_move", task_batch_move(d, a, g),
                           d, x, task_batch_move(e, a, Append(g, x)))
  <2> DEFINE ids == [i \in DOMAIN a.items |-> a.items[i].id]
             moves == [i \in DOMAIN a.items |-> [id |-> ids[i], to |-> Destination(a.items[i].to)]]
             w == batchMoveTasks(d, moves)
             places(f) == [i \in DOMAIN ids |-> NewPlace(a.items[i].to, Val(f, 1)[i])]
  <2>1. Len(moves) \in Nat
    BY <1>9, ListedLen DEF Listed
  <2> HIDE DEF moves, ids
  <2>2. Clean(Ask(w), d, TaskKinds) /\ (w.doc # d => NamesSome(w.val))
    BY <2>1, BatchRequests, WritingSteps
  <2> DEFINE u == batchMoveTasks(e, moves)
             h == Append(g, x)
  <2> HIDE DEF w, u, h, places
  <2>3. "task_batch_move" \in Batches
    BY DEF Batches
  <2>4. /\ Clean(Batch(d, ids, g, w, places(g)), d, TaskKinds)
        /\ SettledBy("task_batch_move", Batch(d, ids, g, w, places(g)), d, x, Batch(e, ids, h, u, places(h)))
    BY <2>2, <2>3, BatchStepsEnd DEF h
  <2> QED
    BY <2>4 DEF task_batch_move, ids, moves, w, u, h, places
<1> QED
  BY <1>1, <1>2, <1>3, <1>4, <1>5, <1>6, <1>7, <1>8, <1>9

\* src/tools/task/batchCreate.ts
LEMMA BatchCreateEnds ==
    ASSUME NEW d, Framed(d), NEW a, Listed(a.items), NEW g, Heard(g), NEW x, Honest(x), NEW e
    PROVE  /\ Clean(task_batch_create(d, a, g), d, TaskKinds)
           /\ SettledBy("task_batch_create", task_batch_create(d, a, g), d, x, task_batch_create(e, a, Append(g, x)))
<1> DEFINE input(y) == [blank |-> FALSE, project |-> Opt(y, "project"), parent |-> Opt(y, "parent"),
                        fields |-> y.fields]
           inputs == [i \in DOMAIN a.items |-> input(a.items[i])]
           w == batchCreateTasks(d, inputs)
           S(f) == IF OkItems(Val(f, 1)) = {} THEN {}
                   ELSE TaskScopes({Opt(a.items[i], "parent") : i \in OkItems(Val(f, 1))},
                                   {Opt(a.items[i], "project") : i \in OkItems(Val(f, 1))})
           M(f) == {Val(f, 1).ok[n].value : n \in DOMAIN Val(f, 1).ok}
           B(f) == BadItems(Val(f, 1))
           h == Append(g, x)
<1>1. Len(inputs) \in Nat
  BY ListedLen DEF Listed
<1>2. Len(g) = 0 => task_batch_create(d, a, g) = Ask(w)
  BY DEF task_batch_create
<1>3. \A c, f : Len(f) # 0 => task_batch_create(c, a, f) = Done(S(f), Outcome(M(f), B(f)))
  BY DEF task_batch_create
<1>4. \A f : /\ S(f) # {} => Hides(S(f), TaskKinds)
             /\ OkItems(Val(f, 1)) # {} => S(f) # {}
  BY TaskScopesHide
<1> HIDE DEF inputs
<1>5. Clean(Ask(w), d, TaskKinds) /\ (w.doc # d => NamesSome(w.val))
  BY <1>1, BatchRequests, WritingSteps
<1> HIDE DEF w, S, M
<1>6. \A f, v : Clean(Done(S(f), v), d, TaskKinds)
  <2> TAKE f, v
  <2>1. CASE S(f) = {}
    BY <2>1 DEF Clean, Done, Flush, Same, Reply
  <2>2. CASE S(f) # {}
    BY <1>4, <2>2, CleanSteps
  <2> QED
    BY <2>1, <2>2
<1>7. Clean(task_batch_create(d, a, g), d, TaskKinds)
  BY <1>2, <1>3, <1>5, <1>6
<1>8. Len(h) = Len(g) + 1 /\ h[Len(g) + 1] = x /\ Len(g) \in Nat
  BY OneMore
<1> DEFINE n == task_batch_create(e, a, h)
<1> HIDE DEF h
<1>9. ASSUME Len(g) = 0, x.val = w.val, NamesSome(w.val) PROVE Ends("task_batch_create", n)
  <2>1. Len(h) # 0 /\ Val(h, 1) = w.val
    BY <1>8, <1>9 DEF Val
  <2>2. S(h) # {} \/ B(h) # {}
    BY <1>4, <1>9, <2>1 DEF NamesSome
  <2>3. "task_batch_create" \in Batches
    BY DEF Batches
  <2> HIDE DEF B
  <2> QED
    BY <1>3, <2>1, <2>2, <2>3, EndingSteps
<1> HIDE DEF n
<1>10. SettledBy("task_batch_create", task_batch_create(d, a, g), d, x, n)
  <2>1. CASE Len(g) = 0
    BY <1>2, <1>5, <1>9, <2>1, SettlingSteps
  <2>2. CASE Len(g) # 0
    BY <1>3, <2>2, SettlingSteps
  <2> QED
    BY <2>1, <2>2
<1> QED
  BY <1>7, <1>10 DEF n, h

\* What came of the tasks that were to be made out of a text or a picture
Full(r) == r.ok # <<>> \/ BadItems(r) # {}

\* The end of an extraction invalidates, or names what failed.
LEMMA ExtractedSteps ==
    /\ \A r : NamesSome(r) => Full(r)
    /\ \A tool \in Batches : \A r, p : Full(r) => Ends(tool, Extracted(r, p))
    /\ \A r, p, d : Clean(Extracted(r, p), d, TaskKinds)
    /\ \A tool, r, p, d, x, n : SettledBy(tool, Extracted(r, p), d, x, n)
<1>1. \A r : NamesSome(r) => Full(r)
  BY DEF NamesSome, Full, OkItems
<1>2. \A r, p : LET S == IF r.ok = <<>> THEN {} ELSE TaskScopes({}, {p}) IN
                (S # {} => Hides(S, TaskKinds)) /\ (r.ok # <<>> => S # {})
  BY TaskScopesHide
<1>3. ASSUME NEW r, NEW p
      PROVE  /\ \A tool \in Batches : Full(r) => Ends(tool, Extracted(r, p))
             /\ \A d : Clean(Extracted(r, p), d, TaskKinds)
             /\ \A tool, d, x, n : SettledBy(tool, Extracted(r, p), d, x, n)
  <2> DEFINE S == IF r.ok = <<>> THEN {} ELSE TaskScopes({}, {p})
             M == {r.ok[n].value : n \in DOMAIN r.ok}
             B == BadItems(r)
  <2>1. (S # {} => Hides(S, TaskKinds)) /\ (Full(r) => S # {} \/ B # {})
    BY <1>2 DEF Full
  <2>2. Extracted(r, p) = Done(S, Outcome(M, B))
    BY DEF Extracted
  <2> HIDE DEF S, M, B
  <2>3. \A v, d : Clean(Done(S, v), d, TaskKinds)
    <3> TAKE v, d
    <3>1. CASE S = {}
      BY <3>1 DEF Clean, Done, Flush, Same, Reply
    <3>2. CASE S # {}
      BY <2>1, <3>2, CleanSteps
    <3> QED
      BY <3>1, <3>2
  <2>4. \A tool \in Batches : Full(r) => Ends(tool, Extracted(r, p))
    BY <2>1, <2>2, EndingSteps
  <2>5. \A d : Clean(Extracted(r, p), d, TaskKinds)
    BY <2>2, <2>3
  <2>6. \A tool, d, x, n : SettledBy(tool, Extracted(r, p), d, x, n)
    BY <2>2, SettlingSteps
  <2> QED
    BY <2>4, <2>5, <2>6
<1> QED
  BY <1>1, <1>3

\* src/tools/task/extractFromNote.ts
LEMMA NoteExtractionEnds ==
    ASSUME NEW d, Framed(d), NEW a, Given(a, "confirmed") => Listed(a.confirmed),
           NEW g, Heard(g), NEW x, Honest(x), NEW e
    PROVE  /\ Clean(task_extract_from_note(d, a, g), d, TaskKinds)
           /\ SettledBy("task_extract_from_note", task_extract_from_note(d, a, g), d, x,
                        task_extract_from_note(e, a, Append(g, x)))
<1> DEFINE read == NoteAnswers(a)
           h == Append(g, x)
           n == task_extract_from_note(e, a, h)
           s == task_extract_from_note(d, a, g)
           asked == IF a.source.kind = "task" THEN getTask(d, a.source.id) ELSE getProject(d, a.source.id)
           w == batchCreateTasks(d, InProject(a.confirmed, a.project))
<1>1. read \in {0, 1} /\ Len(g) \in Nat /\ Len(h) = Len(g) + 1 /\ h[Len(g) + 1] = x
  BY OneMore DEF NoteAnswers
<1>2. Looking(asked, d)
  BY TaskReads, LibraryReads
<1>3. Given(a, "confirmed") => Clean(Ask(w), d, TaskKinds) /\ (w.doc # d => NamesSome(w.val))
  <2> SUFFICES ASSUME Given(a, "confirmed") PROVE Clean(Ask(w), d, TaskKinds) /\ (w.doc # d => NamesSome(w.val))
    OBVIOUS
  <2> DEFINE f == InProject(a.confirmed, a.project)
  <2>1. Len(f) \in Nat
    BY ListedLen DEF Listed, InProject
  <2> HIDE DEF f
  <2>2. LET v == batchCreateTasks(d, f) IN Clean(Ask(v), d, TaskKinds) /\ (v.doc # d => NamesSome(v.val))
    BY <2>1, BatchRequests, WritingSteps
  <2> QED
    BY <2>2 DEF f
<1>4. Len(h) > read => n = Extracted(Val(h, Len(h)), a.project)
  <2> HIDE DEF h
  <2>1. read = IF a.source.kind = "inline" THEN 0 ELSE 1
    BY DEF NoteAnswers
  <2>2. Len(h) > read => ~(Len(h) < read) /\ Len(h) # read
    BY <1>1
  <2> QED
    BY <2>1, <2>2 DEF task_extract_from_note
<1>5. Len(g) > read => s = Extracted(Val(g, Len(g)), a.project)
  <2>1. read = IF a.source.kind = "inline" THEN 0 ELSE 1
    BY DEF NoteAnswers
  <2>2. Len(g) > read => ~(Len(g) < read) /\ Len(g) # read
    BY <1>1
  <2> QED
    BY <2>1, <2>2 DEF task_extract_from_note
<1>6. Len(g) < read => s = Ask(asked)
  <2> SUFFICES ASSUME Len(g) < read PROVE s = Ask(asked)
    OBVIOUS
  <2>1. read = IF a.source.kind = "inline" THEN 0 ELSE 1
    BY DEF NoteAnswers
  <2>2. Len(g) # read
    <3> HIDE DEF read
    <3> QED
      BY <1>1
  <2> QED
    BY <2>1, <2>2, SMTT(30) DEF task_extract_from_note
<1>7. Len(g) = read => s = Preview(None) \/ (s = Ask(w) /\ Given(a, "confirmed"))
  BY DEF task_extract_from_note, NoteAnswers
<1>8. Len(g) = read /\ x.val = w.val /\ NamesSome(w.val) => Ends("task_extract_from_note", n)
  <2> SUFFICES ASSUME Len(g) = read, x.val = w.val, NamesSome(w.val) PROVE Ends("task_extract_from_note", n)
    OBVIOUS
  <2> HIDE DEF w, read, h, n
  <2>1. Len(h) > read /\ Val(h, Len(h)) = w.val
    BY <1>1 DEF Val
  <2>2. "task_extract_from_note" \in Batches
    BY DEF Batches
  <2> QED
    BY <1>4, <2>1, <2>2, ExtractedSteps
<1>9. Len(g) < read \/ Len(g) = read \/ Len(g) > read
  <2> HIDE DEF read
  <2> QED
    BY <1>1
<1> HIDE DEF w, read, h, n, s, asked
<1>10. Clean(s, d, TaskKinds)
  BY <1>2, <1>3, <1>5, <1>6, <1>7, <1>9, ReadingSteps, CleanSteps, ExtractedSteps
<1>11. SettledBy("task_extract_from_note", s, d, x, n)
  BY <1>2, <1>3, <1>5, <1>6, <1>7, <1>8, <1>9, SettlingSteps, ExtractedSteps
<1> QED
  BY <1>10, <1>11 DEF s, n, h

\* The answers that come before the tasks are made
ImageMade(a) == ImageAnswers(a) + (IF a.attach = "parent-task" THEN 2 ELSE 0)
BeforeImages(a) == (~Given(a, "dry") /\ ~Given(a, "confirmed")) \/ (~(a.source.kind = "path") /\ a.attach # "none")
Unusable(a, g) ==
    IF a.source.kind = "path" THEN ~a.source.addable ELSE a.source.attachment \notin Val(g, 1)

\* task_extract_from_image, its two counts apart
ImageMove(d, a, g, read, made) ==
    CASE BeforeImages(a) -> Fail("Validation")
      [] OTHER ->
           CASE Len(g) < read -> Ask(listAttachments(d, a.source.owner))
             [] Len(g) = read -> CASE Unusable(a, g) -> Fail("Validation")
                                   [] ~Unusable(a, g) /\ Given(a, "dry") -> Preview(None)
                                   [] OTHER ->
                                        IF a.attach = "parent-task"
                                        THEN Ask(createTask(d, [blank |-> FALSE, project |-> a.project,
                                                                parent |-> None, fields |-> Nothing], FALSE))
                                        ELSE Ask(batchCreateTasks(d, InProject(a.confirmed, a.project)))
             [] Len(g) \in (read + 1)..made ->
                   IF Len(g) = read + 1 THEN Ask(addAttachment(d, [task |-> Val(g, 1), project |-> None]))
                   ELSE Ask(batchCreateTasks(d, InTask(a.confirmed, Val(g, 1))))
             [] OTHER ->
                   IF a.attach = "each-task" /\ Len(g) - made - 1 < Len(Val(g, made + 1).ok)
                   THEN Ask(addAttachment(d, [task |-> Val(g, made + 1).ok[Len(g) - made - 1 + 1].value,
                                              project |-> None]))
                   ELSE Extracted(Val(g, made + 1), a.project)

\* ImageMove is the handler.
LEMMA ImageMoves ==
    \A d, a, g : task_extract_from_image(d, a, g) = ImageMove(d, a, g, ImageAnswers(a), ImageMade(a))
BY DEF task_extract_from_image, ImageMove, ImageAnswers, ImageMade, BeforeImages, Unusable

\* What such a step may be
ImageTurn(s, d, a, g, read, made) ==
    \/ s = Fail("Validation")
    \/ Len(g) < read /\ s = Ask(listAttachments(d, a.source.owner))
    \/ Len(g) = read /\ s = Preview(None)
    \/ /\ Len(g) = read /\ a.attach = "parent-task" /\ Given(a, "confirmed")
       /\ \E y : s = Ask(createTask(d, y, FALSE))
    \/ /\ Len(g) = read /\ a.attach # "parent-task" /\ Given(a, "confirmed")
       /\ s = Ask(batchCreateTasks(d, InProject(a.confirmed, a.project)))
    \/ Len(g) = read + 1 /\ a.attach = "parent-task" /\ \E o : s = Ask(addAttachment(d, o))
    \/ /\ Len(g) = read + 2 /\ a.attach = "parent-task"
       /\ s = Ask(batchCreateTasks(d, InTask(a.confirmed, Val(g, 1))))
    \/ Len(g) > made /\ Val(g, made + 1).ok # <<>> /\ \E o : s = Ask(addAttachment(d, o))
    \/ Len(g) > made /\ s = Extracted(Val(g, made + 1), a.project)

\* And one of these.
LEMMA ImageSteps ==
    ASSUME NEW d, NEW a, NEW g, NEW read \in Nat, NEW made, Len(g) \in Nat,
           made = IF a.attach = "parent-task" THEN read + 2 ELSE read
    PROVE  ImageTurn(ImageMove(d, a, g, read, made), d, a, g, read, made)
<1> DEFINE s == ImageMove(d, a, g, read, made)
<1>1. ASSUME BeforeImages(a) PROVE ImageTurn(s, d, a, g, read, made)
  BY <1>1 DEF ImageMove, ImageTurn
<1>2. ASSUME ~BeforeImages(a) /\ Len(g) < read PROVE ImageTurn(s, d, a, g, read, made)
  <2>1. Len(g) # read /\ Len(g) \notin (read + 1)..made
    BY <1>2
  <2> QED
    BY <1>2, <2>1 DEF ImageMove, ImageTurn
<1>3. ASSUME ~BeforeImages(a) /\ Len(g) = read PROVE ImageTurn(s, d, a, g, read, made)
  <2>1. ~(Len(g) < read) /\ Len(g) \notin (read + 1)..made
    BY <1>3
  <2>2. Given(a, "dry") \/ Given(a, "confirmed")
    BY <1>3 DEF BeforeImages
  <2>3. s = CASE Unusable(a, g) -> Fail("Validation")
              [] ~Unusable(a, g) /\ Given(a, "dry") -> Preview(None)
              [] OTHER ->
                   IF a.attach = "parent-task"
                   THEN Ask(createTask(d, [blank |-> FALSE, project |-> a.project,
                                           parent |-> None, fields |-> Nothing], FALSE))
                   ELSE Ask(batchCreateTasks(d, InProject(a.confirmed, a.project)))
    BY <1>3, <2>1 DEF ImageMove
  <2> HIDE DEF s
  <2>4. \/ s = Fail("Validation") \/ s = Preview(None)
        \/ a.attach = "parent-task" /\ Given(a, "confirmed") /\ \E y : s = Ask(createTask(d, y, FALSE))
        \/ /\ a.attach # "parent-task" /\ Given(a, "confirmed")
           /\ s = Ask(batchCreateTasks(d, InProject(a.confirmed, a.project)))
    BY <2>2, <2>3
  <2> QED
    BY <1>3, <2>4 DEF ImageTurn
<1>4. ASSUME ~BeforeImages(a) /\ Len(g) > read /\ Len(g) <= made PROVE ImageTurn(s, d, a, g, read, made)
  <2>1. ~(Len(g) < read) /\ Len(g) # read /\ Len(g) \in (read + 1)..made /\ a.attach = "parent-task"
        /\ (Len(g) # read + 1 => Len(g) = read + 2)
    BY <1>4
  <2>2. s = IF Len(g) = read + 1 THEN Ask(addAttachment(d, [task |-> Val(g, 1), project |-> None]))
            ELSE Ask(batchCreateTasks(d, InTask(a.confirmed, Val(g, 1))))
    BY <1>4, <2>1 DEF ImageMove
  <2> HIDE DEF s
  <2>3. \/ Len(g) = read + 1 /\ \E o : s = Ask(addAttachment(d, o))
        \/ Len(g) = read + 2 /\ s = Ask(batchCreateTasks(d, InTask(a.confirmed, Val(g, 1))))
    BY <2>1, <2>2
  <2> QED
    BY <2>1, <2>3 DEF ImageTurn
<1>5. ASSUME ~BeforeImages(a) /\ Len(g) > made PROVE ImageTurn(s, d, a, g, read, made)
  <2>1. ~(Len(g) < read) /\ Len(g) # read /\ Len(g) \notin (read + 1)..made
    BY <1>5
  <2> DEFINE r == Val(g, made + 1)
             n == Len(g) - made - 1
  <2>2. s = IF a.attach = "each-task" /\ n < Len(r.ok)
            THEN Ask(addAttachment(d, [task |-> r.ok[n + 1].value, project |-> None]))
            ELSE Extracted(r, a.project)
    BY <1>5, <2>1 DEF ImageMove
  <2>3. Len(<<>>) = 0 /\ ~(n < 0)
    BY <1>5
  <2> HIDE DEF s, r, n
  <2>4. \/ r.ok # <<>> /\ \E o : s = Ask(addAttachment(d, o))
        \/ s = Extracted(r, a.project)
    BY <2>2, <2>3
  <2> QED
    BY <1>5, <2>4 DEF ImageTurn, r
<1>6. made \in Nat /\ (Len(g) < read \/ Len(g) = read \/ (Len(g) > read /\ Len(g) <= made) \/ Len(g) > made)
  OBVIOUS
<1> HIDE DEF s
<1>7. ImageTurn(s, d, a, g, read, made)
  BY <1>1, <1>2, <1>3, <1>4, <1>5, <1>6 DEF ImageTurn
<1> QED
  BY <1>7 DEF s

\* Answers that stand for something written and not yet invalidated
ImagePays(a, g) ==
    \/ a.attach = "parent-task" /\ Len(g) <= ImageMade(a)
    \/ Len(g) > ImageMade(a) /\ Full(Val(g, ImageMade(a) + 1))

\* src/tools/task/extractFromImage.ts
LEMMA ImageEnds ==
    ASSUME NEW d, Framed(d), NEW a, NEW g, Heard(g), NEW x, Honest(x), NEW e,
           Given(a, "confirmed") => Listed(a.confirmed) /\ (a.attach = "parent-task" => Len(a.confirmed) # 0),
           ~Given(a, "confirmed") => Len(g) <= ImageAnswers(a)
    PROVE  LET s == task_extract_from_image(d, a, g)
               h == Append(g, x)
               n == task_extract_from_image(e, a, h)
           IN /\ Clean(s, d, TaskKinds) /\ s.kind \in {"ask", "reply"}
              /\ s.kind = "ask" /\ x.val = s.does.val /\ (ImagePays(a, g) \/ s.does.doc # d) => ImagePays(a, h)
              /\ ImagePays(a, h) => n.kind = "ask" \/ Ends("task_extract_from_image", n)
              /\ s.kind = "ask" /\ ~Given(a, "confirmed") => Len(h) <= ImageAnswers(a)
<1> DEFINE read == ImageAnswers(a)
           made == ImageMade(a)
           tool == "task_extract_from_image"
           h == Append(g, x)
           s == task_extract_from_image(d, a, g)
           n == task_extract_from_image(e, a, h)
<1>1. read \in Nat /\ made = IF a.attach = "parent-task" THEN read + 2 ELSE read
  BY DEF ImageAnswers, ImageMade
<1>2. made \in Nat /\ read <= made
  BY <1>1
<1>3. Len(g) \in Nat /\ Len(h) = Len(g) + 1 /\ h[Len(g) + 1] = x /\ \A i \in 1..Len(g) : h[i] = g[i]
  BY OneMore
<1> DEFINE w == batchCreateTasks(d, InProject(a.confirmed, a.project))
           v == batchCreateTasks(d, InTask(a.confirmed, Val(g, 1)))
           L == listAttachments(d, a.source.owner)
<1>4. Given(a, "confirmed") =>
        /\ Clean(Ask(w), d, TaskKinds) /\ (w.doc # d => NamesSome(w.val))
        /\ Clean(Ask(v), d, TaskKinds) /\ (a.attach = "parent-task" => NamesSome(v.val))
  <2> SUFFICES ASSUME Given(a, "confirmed")
               PROVE  /\ Clean(Ask(w), d, TaskKinds) /\ (w.doc # d => NamesSome(w.val))
                      /\ Clean(Ask(v), d, TaskKinds) /\ (a.attach = "parent-task" => NamesSome(v.val))
    OBVIOUS
  <2> DEFINE f == InProject(a.confirmed, a.project)
             i == InTask(a.confirmed, Val(g, 1))
  <2>1. Len(f) = Len(a.confirmed) /\ Len(i) = Len(a.confirmed) /\ Len(a.confirmed) \in Nat
    <3>1. f = [j \in 1..Len(a.confirmed) |-> f[j]] /\ i = [j \in 1..Len(a.confirmed) |-> i[j]]
      BY DEF Listed, InProject, InTask
    <3>2. Len(a.confirmed) \in Nat
      BY DEF Listed
    <3> HIDE DEF f, i
    <3> QED
      BY <3>1, <3>2, ListedLen
  <2> HIDE DEF f, i
  <2>2. LET r == batchCreateTasks(d, f) IN Clean(Ask(r), d, TaskKinds) /\ (r.doc # d => NamesSome(r.val))
    BY <2>1, BatchRequests, WritingSteps
  <2>3. LET r == batchCreateTasks(d, i) IN
        Clean(Ask(r), d, TaskKinds) /\ (Len(i) # 0 => NamesSome(r.val))
    BY <2>1, BatchRequests, WritingSteps
  <2> QED
    BY <2>1, <2>2, <2>3 DEF f, i
<1>5. /\ Looking(L, d)
      /\ \A y : Clean(Ask(createTask(d, y, FALSE)), d, TaskKinds)
      /\ \A o : Clean(Ask(addAttachment(d, o)), d, TaskKinds)
  <2>1. \A o : OnlyTasks(addAttachment(d, o).doc, d) \/ Aside(addAttachment(d, o).doc, d)
    BY AsideRequests
  <2>2. \A b : Aside(b, d) => Framed(b) /\ InTasks(b, d)
    BY DEF Aside, Still, InTasks
  <2> QED
    BY <2>1, <2>2, LibraryReads, TaskRequests, WritingSteps
<1>6. \/ s = Fail("Validation")
      \/ Len(g) < read /\ s = Ask(L)
      \/ Len(g) = read /\ s = Preview(None)
      \/ /\ Len(g) = read /\ a.attach = "parent-task" /\ Given(a, "confirmed")
         /\ \E y : s = Ask(createTask(d, y, FALSE))
      \/ /\ Len(g) = read /\ a.attach # "parent-task" /\ Given(a, "confirmed") /\ s = Ask(w)
      \/ Len(g) = read + 1 /\ a.attach = "parent-task" /\ \E o : s = Ask(addAttachment(d, o))
      \/ Len(g) = read + 2 /\ a.attach = "parent-task" /\ s = Ask(v)
      \/ Len(g) > made /\ Val(g, made + 1).ok # <<>> /\ \E o : s = Ask(addAttachment(d, o))
      \/ Len(g) > made /\ s = Extracted(Val(g, made + 1), a.project)
  <2>1. s = ImageMove(d, a, g, read, made)
    BY ImageMoves
  <2> HIDE DEF s, read, made, w, v, L
  <2>2. ImageTurn(s, d, a, g, read, made)
    BY <1>1, <1>3, <2>1, ImageSteps
  <2> QED
    BY <2>2 DEF ImageTurn, w, v, L
<1>7. \/ n = Fail("Validation") \/ n = Preview(None) \/ \E r : n = Ask(r)
      \/ Len(h) > made /\ n = Extracted(Val(h, made + 1), a.project)
  <2>1. n = ImageMove(e, a, h, read, made)
    BY ImageMoves
  <2>2. Len(h) \in Nat
    BY <1>3
  <2> HIDE DEF n, h, read, made
  <2>3. ImageTurn(n, e, a, h, read, made)
    BY <1>1, <2>1, <2>2, ImageSteps
  <2> QED
    BY <2>3 DEF ImageTurn
<1>8. ImagePays(a, h) => n.kind = "ask" \/ Ends(tool, n)
  <2>1. tool \in Batches /\ \A r : Ask(r).kind = "ask"
    BY DEF Batches, Ask
  <2>2. Len(h) > made => ~(Len(h) <= made)
    BY <1>2, <1>3
  <2> HIDE DEF n, h, made, tool
  <2>3. ImagePays(a, h) /\ Len(h) > made => Full(Val(h, made + 1))
    BY <2>2 DEF ImagePays, made
  <2> QED
    BY <1>7, <2>1, <2>3, EndingSteps, ExtractedSteps
<1> DEFINE paid == x.val = s.does.val /\ (ImagePays(a, g) \/ s.does.doc # d)
<1> HIDE DEF n, h, s, read, made, w, v, L, tool
<1>9. \A r : Ask(r).kind = "ask" /\ Ask(r).does = r
  BY DEF Ask
<1>10. /\ a.attach = "parent-task" /\ Len(g) < made => ImagePays(a, h)
       /\ Len(g) = made /\ NamesSome(x.val) => ImagePays(a, h)
       /\ Len(g) > made /\ Full(Val(g, made + 1)) => ImagePays(a, h)
  <2>1. a.attach = "parent-task" /\ Len(g) < made => ImagePays(a, h)
    BY <1>2, <1>3 DEF ImagePays, made
  <2>2. Len(g) = made /\ NamesSome(x.val) => ImagePays(a, h)
    <3> SUFFICES ASSUME Len(g) = made, NamesSome(x.val) PROVE ImagePays(a, h)
      OBVIOUS
    <3>1. Len(h) > made /\ Val(h, made + 1) = x.val
      BY <1>2, <1>3 DEF Val
    <3> QED
      BY <3>1, ExtractedSteps DEF ImagePays, made
  <2>3. Len(g) > made /\ Full(Val(g, made + 1)) => ImagePays(a, h)
    <3> SUFFICES ASSUME Len(g) > made, Full(Val(g, made + 1)) PROVE ImagePays(a, h)
      OBVIOUS
    <3>1. Len(h) > made /\ made + 1 \in 1..Len(g)
      BY <1>2, <1>3
    <3>2. Val(h, made + 1) = Val(g, made + 1)
      BY <1>3, <3>1 DEF Val
    <3> QED
      BY <3>1, <3>2 DEF ImagePays, made
  <2> QED
    BY <2>1, <2>2, <2>3
<1>11. ImagePays(a, g) => a.attach = "parent-task" \/ Len(g) > made
  BY DEF ImagePays, made
<1> DEFINE Fine == /\ Clean(s, d, TaskKinds) /\ s.kind \in {"ask", "reply"}
                   /\ s.kind = "ask" /\ paid => ImagePays(a, h)
                   /\ s.kind = "ask" /\ ~Given(a, "confirmed") => Len(h) <= read
<1>12. ASSUME s = Fail("Validation") \/ s = Preview(None)
      PROVE  Fine
  <2>1. s.kind = "reply"
    BY <1>12 DEF Fail, Preview, Reply
  <2> QED
    BY <1>12, <2>1, CleanSteps
<1>13. ASSUME Len(g) < read /\ s = Ask(L)
      PROVE  Fine
  <2>1. s.kind = "ask" /\ s.does.doc = d
    BY <1>5, <1>9, <1>13 DEF Looking
  <2>2. Len(h) <= read /\ Len(g) < made
    BY <1>1, <1>2, <1>3, <1>13
  <2>3. ~(Len(g) > made)
    BY <1>2, <1>3, <2>2
  <2> QED
    BY <1>5, <1>10, <1>11, <1>13, <2>1, <2>2, <2>3, ReadingSteps
<1>14. ASSUME /\ Len(g) = read /\ a.attach = "parent-task" /\ Given(a, "confirmed")
            /\ \E y : s = Ask(createTask(d, y, FALSE))
      PROVE  Fine
  <2>1. Len(g) < made
    BY <1>1, <1>14
  <2> QED
    BY <1>5, <1>9, <1>10, <1>14, <2>1
<1>15. ASSUME Len(g) = read /\ a.attach # "parent-task" /\ Given(a, "confirmed") /\ s = Ask(w)
      PROVE  Fine
  <2>1. Len(g) = made /\ ~(Len(g) > made)
    BY <1>1, <1>15
  <2>2. s.kind = "ask" /\ s.does = w
    BY <1>9, <1>15
  <2> QED
    BY <1>4, <1>10, <1>11, <1>15, <2>1, <2>2
<1>16. ASSUME Len(g) = read + 1 /\ a.attach = "parent-task" /\ \E o : s = Ask(addAttachment(d, o))
      PROVE  Fine
  <2>1. Len(g) < made /\ Given(a, "confirmed")
    BY <1>1, <1>16 DEF read
  <2> QED
    BY <1>5, <1>9, <1>10, <1>16, <2>1
<1>17. ASSUME Len(g) = read + 2 /\ a.attach = "parent-task" /\ s = Ask(v)
      PROVE  Fine
  <2>1. Len(g) = made /\ Given(a, "confirmed")
    BY <1>1, <1>17 DEF read
  <2>2. s.kind = "ask" /\ s.does = v
    BY <1>9, <1>17
  <2> QED
    BY <1>4, <1>10, <1>17, <2>1, <2>2
<1>18. ASSUME Len(g) > made /\ Val(g, made + 1).ok # <<>> /\ \E o : s = Ask(addAttachment(d, o))
      PROVE  Fine
  <2>1. Given(a, "confirmed")
    BY <1>1, <1>2, <1>3, <1>18 DEF read
  <2>2. Full(Val(g, made + 1))
    BY <1>18 DEF Full
  <2> QED
    BY <1>5, <1>9, <1>10, <1>18, <2>1, <2>2
<1>19. ASSUME Len(g) > made /\ s = Extracted(Val(g, made + 1), a.project)
      PROVE  Fine
  <2>1. \A r, p : Extracted(r, p).kind = "reply"
    BY DEF Extracted, Done, Flush, Same, Reply
  <2> QED
    BY <1>19, <2>1, ExtractedSteps
<1>20. Fine
  BY <1>6, <1>12, <1>13, <1>14, <1>15, <1>16, <1>17, <1>18, <1>19
<1> QED
  BY <1>8, <1>20 DEF n, h, s, read, tool

\* A call that goes on, or ends as one that wrote may
Goes(tool, s) == s.kind \in {"ask", "try", "cached"} \/ Ends(tool, s)

\* The indexes of some of the items, in their order.
LEMMA OrderedIndexes ==
    ASSUME NEW n \in Nat, NEW S \in SUBSET (1..n)
    PROVE  Listed(InOrder(S))
<1>1. Cardinality(S) \in Nat
  <2>1. IsFiniteSet(1..n)
    BY FS_Interval
  <2>3. IsFiniteSet(S)
    BY <2>1, FS_Subset
  <2> QED
    BY <2>3, FS_CardinalityType
<1> DEFINE f == InOrder(S)
           m == Cardinality(S)
<1>2. f = [k \in 1..m |-> f[k]]
  <2> DEFINE c(k) == CHOOSE i \in S : Cardinality({j \in S : j < i}) = k - 1
  <2>1. f = [k \in 1..m |-> c(k)]
    BY DEF InOrder
  <2> HIDE DEF c, f, m
  <2> QED
    BY <2>1
<1> HIDE DEF f, m
<1>3. m \in Nat
  BY <1>1 DEF m
<1>4. Len(f) = m
  BY <1>2, <1>3, ListedLen
<1>5. DOMAIN f = 1..m
  BY <1>2
<1> QED
  BY <1>3, <1>4, <1>5 DEF Listed, f

\* The answer of the tool that moves and updates, F the items that failed
AssignEnd(a, F, rows, ids) ==
    Done(UNION {Around(ids[i], rows[i]) \cup NewPlace(a.items[i], rows[i]) : i \in DOMAIN a.items \ F},
         Outcome({ids[i] : i \in DOMAIN a.items \ F}, {ids[i] : i \in F}))

\* Its steps
AssignTurn(s, d, a) ==
    \/ s = Fail("Validation")
    \/ \E ids : s = Ask(getTasksMany(d, ids))
    \/ \E q : Len(q) \in Nat /\ (s = Ask(batchMoveTasks(d, q)) \/ s = Ask(batchUpdateTasks(d, q)))
    \/ \E F, rows, ids : s = AssignEnd(a, F, rows, ids)

\* The steps of task_batch_assign are such.
LEMMA AssignSteps ==
    ASSUME NEW d, NEW a, Listed(a.items), NEW g
    PROVE  AssignTurn(task_batch_assign(d, a, g), d, a)
<1> DEFINE all == DOMAIN a.items
           id(i) == a.items[i].id
           diffs(i) == Given(a.items[i], "add") \/ Given(a.items[i], "remove")
           tagged == InOrder({i \in all : diffs(i)})
           moving == InOrder({i \in all : Given(a.items[i], "project")})
           read == 1 + (IF tagged = <<>> THEN 0 ELSE 1)
           moved == read + (IF moving = <<>> THEN 0 ELSE 1)
           stuck == IF moved = read THEN {} ELSE Ids(moving, BadItems(Val(g, moved)))
           tagsOf(i) == LET k == CHOOSE n \in DOMAIN tagged : tagged[n] = i
                            row == Val(g, 2)[k]
                        IN IF row = None THEN [tags |-> {}] ELSE row
           patch(i) == (IF diffs(i) THEN TagDiff(tagsOf(i), a.items[i]) ELSE Nothing) @@ a.items[i].set
           updating == InOrder({i \in all \ stuck : patch(i) # Nothing})
           failed == NotDone(stuck, IF Len(g) > moved THEN Ids(updating, BadItems(Val(g, Len(g)))) ELSE {})
           done == all \ failed
           scopes(i) == Around(id(i), Val(g, 1)[i]) \cup NewPlace(a.items[i], Val(g, 1)[i])
           asksNothing(x) == DOMAIN x = {"id", "set"} /\ x.set = Nothing
           first == IF \E x \in ToSet(a.items) : asksNothing(x) THEN Fail("Validation")
                    ELSE Ask(getTasksMany(d, [i \in all |-> id(i)]))
           second == [k \in DOMAIN tagged |-> id(tagged[k])]
           moves == [k \in DOMAIN moving |->
                      [id |-> id(moving[k]), to |-> Destination([project |-> a.items[moving[k]].project])]]
           updates == [k \in DOMAIN updating |->
                      [id |-> id(updating[k]), patch |-> patch(updating[k])]]
           last == Done(UNION {scopes(i) : i \in done}, Outcome({id(i) : i \in done}, {id(i) : i \in failed}))
           s == task_batch_assign(d, a, g)
<1>1. s = CASE Len(g) = 0 -> first
            [] Len(g) = 1 /\ read = 2 -> Ask(getTasksMany(d, second))
            [] Len(g) = read /\ moved > read -> Ask(batchMoveTasks(d, moves))
            [] Len(g) = moved /\ updating # <<>> -> Ask(batchUpdateTasks(d, updates))
            [] OTHER -> last
  BY DEF task_batch_assign
<1>2. Len(moves) \in Nat /\ Len(updates) \in Nat
  <2>1. PICK n \in Nat : all = 1..n
    BY DEF Listed
  <2>2. Listed(moving) /\ Listed(updating)
    <3> DEFINE M == {i \in all : Given(a.items[i], "project")}
               U == {i \in all \ stuck : patch(i) # Nothing}
    <3>1. M \in SUBSET (1..n) /\ U \in SUBSET (1..n)
      <4> HIDE DEF stuck, patch
      <4> QED
        BY <2>1
    <3> HIDE DEF M, U
    <3>2. Listed(InOrder(M)) /\ Listed(InOrder(U))
      BY <3>1, OrderedIndexes
    <3> QED
      BY <3>2 DEF M, U
  <2> HIDE DEF moving, updating, id, patch
  <2>3. moves = [k \in 1..Len(moving) |-> moves[k]] /\ updates = [k \in 1..Len(updating) |-> updates[k]]
    BY <2>2 DEF Listed
  <2>4. Len(moving) \in Nat /\ Len(updating) \in Nat
    BY <2>2 DEF Listed
  <2> HIDE DEF moves, updates
  <2>5. Len(moves) = Len(moving) /\ Len(updates) = Len(updating)
    BY <2>3, <2>4, ListedLen
  <2> QED
    BY <2>4, <2>5
<1>3. first = Fail("Validation") \/ \E ids : first = Ask(getTasksMany(d, ids))
  OBVIOUS
<1>4. \E F, rows, ids : last = AssignEnd(a, F, rows, ids)
  <2> DEFINE ids == [i \in all \cup failed |-> id(i)]
             rows == Val(g, 1)
  <2>1. /\ UNION {scopes(i) : i \in done} =
              UNION {Around(ids[i], rows[i]) \cup NewPlace(a.items[i], rows[i]) : i \in DOMAIN a.items \ failed}
        /\ {id(i) : i \in done} = {ids[i] : i \in DOMAIN a.items \ failed}
        /\ {id(i) : i \in failed} = {ids[i] : i \in failed}
    <3> HIDE DEF failed
    <3>1. \A i \in all \cup failed : ids[i] = id(i)
      OBVIOUS
    <3> HIDE DEF ids
    <3> QED
      BY <3>1
  <2> HIDE DEF ids, rows, failed, scopes, id
  <2>2. last = Done(UNION {Around(ids[i], rows[i]) \cup NewPlace(a.items[i], rows[i]) : i \in DOMAIN a.items \ failed},
                    Outcome({ids[i] : i \in DOMAIN a.items \ failed}, {ids[i] : i \in failed}))
    BY <2>1
  <2>3. last = AssignEnd(a, failed, rows, ids)
    BY <2>2 DEF AssignEnd
  <2> HIDE DEF last
  <2> QED
    BY <2>3
<1> HIDE DEF first, second, moves, updates, last, s, read, moved, updating
<1>5. \/ s = first \/ s = Ask(getTasksMany(d, second)) \/ s = Ask(batchMoveTasks(d, moves))
      \/ s = Ask(batchUpdateTasks(d, updates)) \/ s = last
  BY <1>1
<1>6. AssignTurn(s, d, a)
  <2>1. s = first => AssignTurn(s, d, a)
    BY <1>3 DEF AssignTurn
  <2>2. s = Ask(getTasksMany(d, second)) => AssignTurn(s, d, a)
    BY DEF AssignTurn
  <2>3. s = Ask(batchMoveTasks(d, moves)) \/ s = Ask(batchUpdateTasks(d, updates)) => AssignTurn(s, d, a)
    BY <1>2 DEF AssignTurn
  <2>4. s = last => AssignTurn(s, d, a)
    BY <1>4 DEF AssignTurn
  <2> QED
    BY <1>5, <2>1, <2>2, <2>3, <2>4
<1> QED
  BY <1>6 DEF s

\* src/tools/task/batchAssign.ts
LEMMA AssignGoes ==
    ASSUME NEW d, Framed(d), NEW a, Listed(a.items), Len(a.items) # 0, NEW g, NEW tool \in Batches
    PROVE  LET s == task_batch_assign(d, a, g) IN
           Clean(s, d, TaskKinds) /\ s.kind \in {"ask", "reply"} /\ Goes(tool, s)
<1> DEFINE s == task_batch_assign(d, a, g)
<1>1. AssignTurn(s, d, a)
  BY AssignSteps
<1> HIDE DEF s
<1> DEFINE Fine == Clean(s, d, TaskKinds) /\ s.kind \in {"ask", "reply"} /\ Goes(tool, s)
<1>2. \A r : Ask(r).kind = "ask" /\ Goes(tool, Ask(r))
  BY DEF Ask, Goes
<1>3. ASSUME s = Fail("Validation") PROVE Fine
  <2>1. s.kind = "reply"
    BY <1>3 DEF Fail, Reply
  <2> QED
    BY <1>3, <2>1, CleanSteps, EndingSteps DEF Goes
<1>4. ASSUME NEW ids, s = Ask(getTasksMany(d, ids)) PROVE Fine
  BY <1>2, <1>4, TaskReads, ReadingSteps
<1>5. ASSUME NEW q, Len(q) \in Nat, s = Ask(batchMoveTasks(d, q)) \/ s = Ask(batchUpdateTasks(d, q)) PROVE Fine
  <2>1. OnlyTasks(batchMoveTasks(d, q).doc, d) /\ OnlyTasks(batchUpdateTasks(d, q).doc, d)
    BY <1>5, BatchRequests
  <2> QED
    BY <1>2, <1>5, <2>1, WritingSteps
<1>6. ASSUME NEW F, NEW rows, NEW ids, s = AssignEnd(a, F, rows, ids) PROVE Fine
  <2> DEFINE R(i) == Around(ids[i], rows[i]) \cup NewPlace(a.items[i], rows[i])
             S == UNION {R(i) : i \in DOMAIN a.items \ F}
             D == {ids[i] : i \in DOMAIN a.items \ F}
             B == {ids[i] : i \in F}
  <2>1. \A i : Hides(R(i), TaskKinds) /\ R(i) # {}
    BY TaskScopesHide
  <2>2. DOMAIN a.items # {}
    <3>1. \A n \in Nat : n # 0 => 1 \in 1..n
      OBVIOUS
    <3> QED
      BY <3>1 DEF Listed
  <2>3. S # {} \/ B # {}
    <3> HIDE DEF R
    <3>1. CASE DOMAIN a.items \ F = {}
      BY <2>2, <3>1
    <3>2. CASE DOMAIN a.items \ F # {}
      BY <2>1, <3>2
    <3> QED
      BY <3>1, <3>2
  <2>4. S # {} => Hides(S, TaskKinds)
    <3> HIDE DEF R
    <3>1. S # {} => \E i : R(i) \subseteq S
      OBVIOUS
    <3> HIDE DEF S
    <3> QED
      BY <2>1, <3>1, HidesMore
  <2>5. s = Done(S, Outcome(D, B))
    BY <1>6 DEF AssignEnd
  <2> HIDE DEF R, S, D, B
  <2>6. s.kind = "reply"
    BY <2>5 DEF Done, Flush, Same, Reply
  <2>7. Ends(tool, s)
    BY <2>3, <2>5, EndingSteps
  <2>8. Clean(s, d, TaskKinds)
    <3>1. CASE S = {}
      BY <2>5, <3>1 DEF Clean, Done, Flush, Same, Reply
    <3>2. CASE S # {}
      BY <2>4, <2>5, <3>2, CleanSteps
    <3> QED
      BY <3>1, <3>2
  <2> QED
    BY <2>6, <2>7, <2>8 DEF Goes
<1> HIDE DEF Fine
<1>7. Fine
  BY <1>1, <1>3, <1>4, <1>5, <1>6 DEF AssignTurn
<1> QED
  BY <1>7 DEF s, Fine

\* A finite set in a sequence.
LEMMA SequencesOfSets ==
    ASSUME NEW S, IsFiniteSet(S)
    PROVE  Listed(SetToSeq(S)) /\ (S # {} => Len(SetToSeq(S)) # 0)
<1> DEFINE n == Cardinality(S)
           f == SetToSeq(S)
<1>1. n \in Nat /\ ExistsBijection(1..n, S)
  <2>1. PICK m \in Nat : ExistsBijection(1..m, S)
    BY FS_NatBijection
  <2>2. Cardinality(S) = m
    BY <2>1, FS_CountingElements
  <2> QED
    BY <2>1, <2>2
<1>2. \E b \in [1..n -> S] : IsInjective(b)
  <2>1. PICK b : b \in Bijection(1..n, S)
    BY <1>1 DEF ExistsBijection
  <2> HIDE DEF n
  <2> QED
    BY <2>1 DEF Bijection, Injection, IsInjective
<1> HIDE DEF n
<1>3. f \in [1..n -> S]
  BY <1>2 DEF SetToSeq, n
<1>4. f = [k \in 1..n |-> f[k]] /\ DOMAIN f = 1..n
  BY <1>3
<1> HIDE DEF f
<1>5. Len(f) = n
  BY <1>1, <1>4, ListedLen
<1>6. S # {} => n # 0
  BY FS_EmptySet DEF n
<1> QED
  BY <1>1, <1>4, <1>5, <1>6 DEF Listed, f

\* What is made of finitely many is finitely many.
LEMMA ImagesFinite ==
    ASSUME NEW S, IsFiniteSet(S), NEW f, NEW T, T \subseteq {f[x] : x \in S}
    PROVE  IsFiniteSet(T)
<1> DEFINE U == {f[x] : x \in S}
           h == [x \in S |-> f[x]]
<1>1. h \in Surjection(S, U)
  BY DEF Surjection
<1>2. IsFiniteSet(U)
  <2> HIDE DEF h, U
  <2> QED
    BY <1>1, FS_Surjection
<1> HIDE DEF U
<1>3. T \subseteq U
  BY DEF U
<1> QED
  BY <1>2, <1>3, FS_Subset

\* A page of tasks is finite.
LEMMA ListsFinite ==
    ASSUME NEW d, Framed(d)
    PROVE  \A f : listTasks(d, f).code = "OK" => IsFiniteSet(listTasks(d, f).val)
<1> SUFFICES ASSUME NEW f, TaskList(d, f).code = "OK" PROVE IsFiniteSet(TaskList(d, f).val)
  BY DEF listTasks
<1> DEFINE rows(S) == Answer(d, {x \in {BuildTask(d, t) : t \in S} : Matches(x, f)})
<1>1. ASSUME NEW S, S \subseteq DOMAIN d.tasks PROVE IsFiniteSet(rows(S).val)
  <2> DEFINE b == [t \in S |-> BuildTask(d, t)]
             R == {x \in {BuildTask(d, t) : t \in S} : Matches(x, f)}
  <2>1. IsFiniteSet(S)
    BY <1>1, FS_Subset DEF Framed
  <2>2. R \subseteq {b[t] : t \in S}
    OBVIOUS
  <2> HIDE DEF b, R
  <2>3. IsFiniteSet(R)
    BY <2>1, <2>2, ImagesFinite
  <2>4. rows(S).val = R
    BY DEF Answer, R
  <2> QED
    BY <2>3, <2>4
<1>2. /\ \A c : ChildTasks(d, c) \subseteq DOMAIN d.tasks
      /\ \A p : FlattenedTasks(d, p) \subseteq DOMAIN d.tasks
      /\ \A g : TasksTagged(d, g) \subseteq DOMAIN d.tasks
  BY DEF ChildTasks, FlattenedTasks, TasksTagged
<1>3. TaskList(d, f) =
         CASE "inbox" \in DOMAIN f   -> rows(ChildTasks(d, Inbox))
           [] "project" \in DOMAIN f -> Found(d, d.projects, f.project, rows(FlattenedTasks(d, f.project)))
           [] "parent" \in DOMAIN f  -> Found(d, d.tasks, f.parent, rows(ChildTasks(d, f.parent)))
           [] "tag" \in DOMAIN f     -> Found(d, d.tags, f.tag, rows(TasksTagged(d, f.tag)))
           [] OTHER                  -> rows(DOMAIN d.tasks)
  BY DEF TaskList
<1> HIDE DEF rows
<1>4. \A id, F, r : Found(d, F, id, r).code = "OK" => Found(d, F, id, r) = r
  BY DEF Found, Refuse
<1>5. \E S : S \subseteq DOMAIN d.tasks /\ TaskList(d, f).val = rows(S).val
  BY <1>2, <1>3, <1>4
<1> QED
  BY <1>1, <1>5

\* Answers after which the tasks that were found are changed
ReclassifyPays(a, g) == Len(g) # 0 /\ Len(Matching(a, Val(g, 1))) # 0

\* The tasks that are found are a sequence.
LEMMA MatchingListed ==
    ASSUME NEW a, NEW rows, IsFiniteSet(rows)
    PROVE  Listed(Matching(a, rows))
<1> DEFINE T == {x.id : x \in {y \in rows : ~y.dropped /\ Matches(y, a.where)}}
           f == [x \in rows |-> x.id]
<1>1. T \subseteq {f[x] : x \in rows}
  OBVIOUS
<1> HIDE DEF f, T
<1>2. IsFiniteSet(T)
  BY <1>1, ImagesFinite
<1>3. Listed(SetToSeq(T))
  BY <1>2, SequencesOfSets
<1> QED
  BY <1>3 DEF Matching, T

\* src/tools/task/reclassify.ts
LEMMA ReclassifyEnds ==
    ASSUME NEW d, Framed(d), NEW a, NEW g, Heard(g), Len(g) # 0 => IsFiniteSet(Val(g, 1))
    PROVE  LET s == task_reclassify(d, a, g) IN
           /\ Clean(s, d, TaskKinds) /\ s.kind \in {"ask", "reply"}
           /\ ReclassifyPays(a, g) => Goes("task_reclassify", s)
           /\ s.kind = "ask" /\ s.does.doc # d => ReclassifyPays(a, g)
           /\ s.kind = "ask" /\ Len(g) = 0 => (s.does.code = "OK" => IsFiniteSet(s.does.val))
<1> DEFINE tool == "task_reclassify"
           s == task_reclassify(d, a, g)
           matched == Matching(a, Val(g, 1))
           items == [i \in DOMAIN matched |-> [id |-> matched[i]] @@ a.changes]
           b == [items |-> items]
           r == listTasks(d, [completed |-> FALSE])
           assign == task_batch_assign(d, b, Tail(g))
<1> DEFINE Fine == /\ Clean(s, d, TaskKinds) /\ s.kind \in {"ask", "reply"}
                   /\ ReclassifyPays(a, g) => Goes(tool, s)
                   /\ s.kind = "ask" /\ s.does.doc # d => ReclassifyPays(a, g)
                   /\ s.kind = "ask" /\ Len(g) = 0 => (s.does.code = "OK" => IsFiniteSet(s.does.val))
<1>1. tool \in Batches
  BY DEF Batches
<1>2. CASE Len(g) = 0
  <2>1. s = Ask(r)
    BY <1>2 DEF task_reclassify
  <2> HIDE DEF s, r
  <2>2. Looking(r, d) /\ s.kind = "ask" /\ s.does = r
    BY <2>1, TaskReads DEF r, Ask
  <2>3. Goes(tool, s)
    BY <2>2 DEF Goes
  <2>4. Clean(s, d, TaskKinds)
    BY <2>1, <2>2, ReadingSteps
  <2>5. r.code = "OK" => IsFiniteSet(r.val)
    BY ListsFinite DEF r
  <2>6. Fine
    BY <2>2, <2>3, <2>4, <2>5 DEF Looking
  <2> QED
    BY <2>6 DEF s
<1>3. CASE Len(g) # 0
  <2>1. Listed(matched)
    BY <1>3, MatchingListed
  <2> HIDE DEF matched
  <2>2. Listed(items) /\ Len(items) = Len(matched)
    <3>1. Len(matched) \in Nat /\ DOMAIN matched = 1..Len(matched)
      BY <2>1 DEF Listed
    <3> DEFINE it(i) == [id |-> matched[i]] @@ a.changes
    <3>2. items = [i \in 1..Len(matched) |-> it(i)]
      BY <3>1
    <3> HIDE DEF items, it
    <3>3. items = [i \in 1..Len(matched) |-> items[i]] /\ DOMAIN items = 1..Len(matched)
      BY <3>2
    <3>4. Len(items) = Len(matched)
      BY <3>1, <3>3, ListedLen
    <3> QED
      BY <3>1, <3>3, <3>4 DEF Listed
  <2> HIDE DEF items
  <2>3. b.items = items
    OBVIOUS
  <2> HIDE DEF b
  <2>4. Len(matched) # 0 => /\ Clean(assign, d, TaskKinds) /\ assign.kind \in {"ask", "reply"}
                            /\ Goes(tool, assign)
    BY <1>1, <2>2, <2>3, AssignGoes
  <2>5. \/ s = Preview(Len(matched)) \/ s = Reply("Stale", Len(matched)) \/ s = Reply("OverCap", Len(matched))
        \/ Len(matched) = 0 /\ s = Same(Outcome({}, {}))
        \/ Len(matched) # 0 /\ s = assign
    BY <1>3 DEF task_reclassify, b, items, matched
  <2> HIDE DEF s, assign, tool
  <2>6. ReclassifyPays(a, g) <=> Len(matched) # 0
    BY <1>3 DEF ReclassifyPays, matched
  <2>7. ASSUME \/ s = Preview(Len(matched)) \/ s = Reply("Stale", Len(matched)) \/ s = Reply("OverCap", Len(matched))
        PROVE  Fine
    <3>1. s.kind = "reply"
      BY <2>7 DEF Preview, Reply
    <3>2. Ends(tool, s) /\ Clean(s, d, TaskKinds)
      BY <1>1, <2>7, EndingSteps, CleanSteps
    <3> QED
      BY <3>1, <3>2 DEF Goes
  <2>8. ASSUME Len(matched) = 0, s = Same(Outcome({}, {})) PROVE Fine
    <3>1. s.kind = "reply" /\ Clean(s, d, TaskKinds)
      BY <2>8, CleanSteps DEF Same, Reply
    <3> QED
      BY <2>6, <2>8, <3>1
  <2>9. ASSUME Len(matched) # 0, s = assign PROVE Fine
    BY <1>3, <2>4, <2>6, <2>9
  <2>10. Fine
    BY <2>5, <2>7, <2>8, <2>9
  <2> QED
    BY <2>10 DEF s, tool
<1> QED
  BY <1>2, <1>3

\* f is what the first n of the answers g have come to.
Turned(f, g, n) ==
    f = [m \in 0..n |-> IF m = 0 THEN [i |-> 1, writes |-> TRUE, bad |-> {}] ELSE EntryTurn(f[m - 1], g[m])]

\* One answer more.
LEMMA TurnedMore ==
    ASSUME NEW g, NEW n \in Nat, n # 0, \E f : Turned(f, g, n - 1)
    PROVE  \E f : Turned(f, g, n)
<1>1. PICK f : Turned(f, g, n - 1)
  OBVIOUS
<1> DEFINE start == [i |-> 1, writes |-> TRUE, bad |-> {}]
           k == [m \in 0..n |-> IF m = n THEN EntryTurn(f[n - 1], g[n]) ELSE f[m]]
<1>2. ASSUME NEW m \in 0..n
      PROVE  k[m] = IF m = 0 THEN start ELSE EntryTurn(k[m - 1], g[m])
  <2> HIDE DEF start
  <2>1. CASE m = n
    <3>1. n - 1 \in 0..n /\ n - 1 # n
      OBVIOUS
    <3>2. k[n - 1] = f[n - 1] /\ k[n] = EntryTurn(f[n - 1], g[n])
      BY <3>1
    <3> QED
      BY <2>1, <3>2
  <2>2. CASE m # n
    <3>1. m \in 0..(n - 1) /\ k[m] = f[m]
      BY <2>2
    <3>2. f[m] = IF m = 0 THEN start ELSE EntryTurn(f[m - 1], g[m])
      BY <1>1, <3>1 DEF Turned, start
    <3>3. m # 0 => k[m - 1] = f[m - 1]
      BY <3>1
    <3> QED
      BY <3>1, <3>2, <3>3
  <2> QED
    BY <2>1, <2>2
<1>3. Turned(k, g, n)
  <2>1. k = [m \in 0..n |-> k[m]]
    OBVIOUS
  <2> HIDE DEF k
  <2> QED
    BY <2>1, <1>2 DEF Turned
<1> QED
  BY <1>3

\* The run over any number of answers.
LEMMA TurnedExists ==
    ASSUME NEW g, NEW n \in Nat
    PROVE  \E f : Turned(f, g, n)
<1> DEFINE T == {m \in 0..n : \E f : Turned(f, g, m)}
<1>1. 0 \in T
  <2> DEFINE f == [m \in 0..0 |-> [i |-> 1, writes |-> TRUE, bad |-> {}]]
  <2>1. \A m \in 0..0 : m = 0
    OBVIOUS
  <2>2. Turned(f, g, 0)
    BY <2>1 DEF Turned
  <2> QED
    BY <2>2
<1>2. ASSUME NEW m \in 0..n, m # 0, m - 1 \in T PROVE m \in T
  BY <1>2, TurnedMore
<1>3. 0..n \subseteq T
  <2> HIDE DEF T
  <2> QED
    BY <1>1, <1>2, CountsUp
<1> QED
  BY <1>3

\* It is what Entries computes.
LEMMA EntriesTurned ==
    ASSUME NEW g, Len(g) \in Nat
    PROVE  \E f : Turned(f, g, Len(g)) /\ Entries(g) = f[Len(g)]
<1> DEFINE F == CHOOSE f : Turned(f, g, Len(g))
<1>1. Turned(F, g, Len(g))
  BY TurnedExists
<1>2. Entries(g) = F[Len(g)]
  BY DEF Entries, Turned
<1> HIDE DEF F
<1> QED
  BY <1>1, <1>2

\* So one answer more is one turn more.
LEMMA EntriesMore ==
    ASSUME NEW g, Heard(g), NEW x, Honest(x)
    PROVE  Entries(Append(g, x)) = EntryTurn(Entries(g), x)
<1> DEFINE h == Append(g, x)
           n == Len(g)
<1>1. n \in Nat /\ Len(h) = n + 1 /\ h[n + 1] = x /\ \A i \in 1..n : h[i] = g[i]
  BY OneMore
<1> HIDE DEF h
<1>2. PICK f : Turned(f, g, n) /\ Entries(g) = f[n]
  BY <1>1, EntriesTurned
<1>3. n + 1 \in Nat
  BY <1>1
<1>4. PICK k : Turned(k, h, n + 1) /\ Entries(h) = k[n + 1]
  BY <1>1, <1>3, EntriesTurned
<1> DEFINE T == {m \in 0..n : k[m] = f[m]}
<1> HIDE DEF n
<1>5. 0 \in T
  <2>1. 0 \in 0..n /\ 0 \in 0..(n + 1)
    BY <1>1
  <2> QED
    BY <2>1, <1>2, <1>4 DEF Turned
<1>6. ASSUME NEW m \in 0..n, m # 0, m - 1 \in T PROVE m \in T
  <2>1. m \in 0..(n + 1) /\ m \in 1..n
    BY <1>1, <1>6
  <2>2. k[m] = EntryTurn(k[m - 1], h[m]) /\ f[m] = EntryTurn(f[m - 1], g[m])
    BY <2>1, <1>2, <1>4, <1>6 DEF Turned
  <2> QED
    BY <2>1, <2>2, <1>1, <1>6
<1>7. k[n] = f[n]
  <2> HIDE DEF T
  <2>1. 0..n \subseteq T
    BY <1>1, <1>5, <1>6, CountsUp
  <2>2. n \in 0..n
    BY <1>1
  <2> QED
    BY <2>1, <2>2 DEF T
<1>8. k[n + 1] = EntryTurn(k[n], h[n + 1])
  <2> DEFINE m == n + 1
  <2>1. m \in 0..m /\ m # 0 /\ m - 1 = n
    BY <1>1
  <2>2. Turned(k, h, m)
    BY <1>4
  <2> HIDE DEF m
  <2>3. k[m] = EntryTurn(k[m - 1], h[m])
    BY <2>1, <2>2 DEF Turned
  <2>4. k[m] = EntryTurn(k[n], h[m])
    BY <2>1, <2>3
  <2> QED
    BY <2>4 DEF m
<1> QED
  BY <1>1, <1>2, <1>4, <1>7, <1>8 DEF h

\* Answers that leave something written and not invalidated, or an entry that
\* went wrong and that the answer will name
DeferPays(g) == ~Entries(g).writes \/ Entries(g).bad # {}

\* The write or the read of an entry, or the answer, u the entry
DeferStep(a, y, u) ==
    CASE u.i > Len(a.ids) -> Same(Outcome(Ids(a.ids, DOMAIN a.ids \ u.bad), Ids(a.ids, u.bad)))
      [] OTHER -> IF u.writes THEN Try(updateTask(y, a.ids[u.i], [defer |-> a.date], FALSE))
                  ELSE Try(getTask(y, a.ids[u.i]))

\* What such a step may be
DeferTurn(s, a, y, u) ==
    /\ s.drop = {} /\ s.kind \in {"try", "reply"}
    /\ \A S : Flush(S, s).kind = s.kind /\ Flush(S, s).drop = S
    /\ \A S : s.kind = "try" => Flush(S, s).does = s.does
    /\ s.kind = "try" => Within(TaskKinds, s.does.doc, y) /\ ~(u.i > Len(a.ids))
    /\ ~(u.i > Len(a.ids)) => s.kind = "try"
    /\ s.kind = "try" /\ s.does.doc # y => u.writes
    /\ s.kind # "try" => s = Done({}, Outcome(Ids(a.ids, DOMAIN a.ids \ u.bad), Ids(a.ids, u.bad)))

\* It is that.
LEMMA DeferSteps ==
    ASSUME NEW a, NEW y, Framed(y), NEW u
    PROVE  DeferTurn(DeferStep(a, y, u), a, y, u)
<1> DEFINE s == DeferStep(a, y, u)
           v == Outcome(Ids(a.ids, DOMAIN a.ids \ u.bad), Ids(a.ids, u.bad))
           w == updateTask(y, a.ids[u.i], [defer |-> a.date], FALSE)
           r == getTask(y, a.ids[u.i])
<1>1. \/ u.i > Len(a.ids) /\ s = Same(v)
      \/ ~(u.i > Len(a.ids)) /\ u.writes /\ s = Try(w)
      \/ ~(u.i > Len(a.ids)) /\ s = Try(r)
  BY DEF DeferStep
<1>2. Within(TaskKinds, w.doc, y)
  BY UpdatesOnlyTasks, WritesWithin
<1>3. Within(TaskKinds, r.doc, y) /\ r.doc = y
  BY TaskReads, ReadsWithin DEF Looking
<1> HIDE DEF s, v, w, r
<1>4. \A S : {} \cup S = S
  OBVIOUS
<1>5. ASSUME NEW q, s = Try(q)
      PROVE  /\ s.drop = {} /\ s.kind = "try" /\ s.does = q
             /\ \A S : Flush(S, s).kind = s.kind /\ Flush(S, s).drop = S /\ Flush(S, s).does = q
  BY <1>4, <1>5 DEF Try, Flush
<1>6. ASSUME s = Same(v)
      PROVE  /\ s.drop = {} /\ s.kind = "reply" /\ s = Done({}, v)
             /\ \A S : Flush(S, s).kind = s.kind /\ Flush(S, s).drop = S
  BY <1>4, <1>6 DEF Same, Reply, Done, Flush
<1>7. DeferTurn(s, a, y, u)
  BY <1>1, <1>2, <1>3, <1>5, <1>6 DEF DeferTurn, v
<1> QED
  BY <1>7 DEF s

\* src/tools/task/batchDeferSmart.ts
LEMMA DeferEnds ==
    ASSUME NEW d, Framed(d), NEW a, NEW g, Heard(g), NEW x, Honest(x), NEW e, Framed(e)
    PROVE  LET s == task_batch_defer_smart(d, a, g)
               h == Append(g, x)
               n == task_batch_defer_smart(e, a, h)
           IN /\ Clean(s, d, TaskKinds) /\ s.kind \in {"try", "reply"}
              /\ s.kind = "try" /\ (DeferPays(g) \/ s.does.doc # d) =>
                    (Ends("task_batch_defer_smart", n) \/ (DeferPays(h) /\ Goes("task_batch_defer_smart", n)))
<1> DEFINE tool == "task_batch_defer_smart"
           h == Append(g, x)
           b == Entries(g)
           c == Entries(h)
           s == task_batch_defer_smart(d, a, g)
           n == task_batch_defer_smart(e, a, h)
<1>1. s = IF Given(a, "dry") THEN Preview(a.date)
          ELSE IF g # <<>> /\ b.writes /\ Last(g).code = "OK"
               THEN Flush(Around(a.ids[b.i - 1], Last(g).val), DeferStep(a, d, b)) ELSE DeferStep(a, d, b)
  BY DEF task_batch_defer_smart, DeferStep
<1>2. n = IF Given(a, "dry") THEN Preview(a.date)
          ELSE IF h # <<>> /\ c.writes /\ Last(h).code = "OK"
               THEN Flush(Around(a.ids[c.i - 1], Last(h).val), DeferStep(a, e, c)) ELSE DeferStep(a, e, c)
  BY DEF task_batch_defer_smart, DeferStep
<1>3. h # <<>> /\ Last(h) = x
  <2>1. Len(h) = Len(g) + 1 /\ h[Len(g) + 1] = x /\ Len(g) \in Nat
    BY OneMore
  <2>2. Len(<<>>) = 0
    OBVIOUS
  <2> HIDE DEF h
  <2> QED
    BY <2>1, <2>2 DEF Last
<1>4. c = EntryTurn(b, x)
  BY EntriesMore
<1>5. /\ b.writes /\ x.code = "OK" => c.writes = FALSE /\ c.i = b.i /\ c.bad = b.bad
      /\ ~(b.writes /\ x.code = "OK") =>
            c.writes = TRUE /\ (x.code # "OK" => c.bad = b.bad \cup {b.i}) /\ (x.code = "OK" => c.bad = b.bad)
  BY <1>4 DEF EntryTurn
<1> HIDE DEF s, n, h, b, c
<1> DEFINE t == DeferStep(a, d, b)
           u == DeferStep(a, e, c)
           D == Ids(a.ids, DOMAIN a.ids \ c.bad)
           F == Ids(a.ids, c.bad)
<1>6. DeferTurn(t, a, d, b)
  BY DeferSteps
<1>7. DeferTurn(u, a, e, c)
  BY DeferSteps
<1> HIDE DEF t, u
<1>8. /\ t.drop = {} /\ t.kind \in {"try", "reply"}
      /\ \A S : Flush(S, t).kind = t.kind /\ Flush(S, t).drop = S
      /\ \A S : t.kind = "try" => Flush(S, t).does = t.does
      /\ t.kind = "try" => Within(TaskKinds, t.does.doc, d) /\ ~(b.i > Len(a.ids))
      /\ t.kind = "try" /\ t.does.doc # d => b.writes
  BY <1>6 DEF DeferTurn
<1>9. /\ u.drop = {} /\ u.kind \in {"try", "reply"}
      /\ \A S : Flush(S, u).kind = u.kind /\ Flush(S, u).drop = S
      /\ ~(c.i > Len(a.ids)) => u.kind = "try"
      /\ u.kind # "try" => u = Done({}, Outcome(D, F))
  BY <1>7 DEF DeferTurn
<1> HIDE DEF D, F
<1>10. /\ s.kind = "try" => ~Given(a, "dry") /\ s.does = t.does /\ t.kind = "try"
       /\ s.kind \in {"try", "reply"}
  BY <1>1, <1>8 DEF Preview, Reply, t
<1>11. Clean(s, d, TaskKinds)
  <2>1. s.kind = "try" => Within(TaskKinds, s.does.doc, d)
    BY <1>8, <1>10
  <2>2. s.drop # {} => Hides(s.drop, TaskKinds)
    <3> DEFINE S == Around(a.ids[b.i - 1], Last(g).val)
    <3>1. Hides(S, TaskKinds) /\ Flush(S, t).drop = S
      BY <1>8, TaskScopesHide
    <3> HIDE DEF S
    <3>2. s = Preview(a.date) \/ s = Flush(S, t) \/ s = t
      BY <1>1 DEF S, t
    <3> QED
      BY <1>8, <3>1, <3>2 DEF Preview, Reply
  <2> QED
    BY <1>10, <2>1, <2>2 DEF Clean
<1>12. ASSUME s.kind = "try", DeferPays(g) \/ s.does.doc # d
       PROVE  Ends(tool, n) \/ (DeferPays(h) /\ Goes(tool, n))
  <2>1. ~Given(a, "dry") /\ t.kind = "try"
    BY <1>10, <1>12
  <2>2. tool \in Batches
    BY DEF Batches
  <2> HIDE DEF tool
  <2>3. ~(b.i > Len(a.ids)) /\ (s.does.doc # d => b.writes)
    BY <1>8, <1>10, <1>12, <2>1
  <2>4. CASE b.writes /\ x.code = "OK"
    <3>1. n = u /\ ~(c.i > Len(a.ids)) /\ ~c.writes
      BY <1>2, <1>5, <2>1, <2>3, <2>4 DEF u
    <3>2. n.kind = "try"
      BY <1>9, <3>1
    <3> QED
      BY <3>1, <3>2 DEF DeferPays, c, Goes
  <2>5. CASE ~b.writes /\ x.code = "OK"
    <3>1. n = Flush(Around(a.ids[c.i - 1], x.val), u)
      BY <1>2, <1>3, <1>5, <2>1, <2>5 DEF u
    <3>2. n.drop # {}
      BY <1>9, <3>1, TaskScopesHide
    <3> QED
      BY <3>2 DEF Ends
  <2>6. CASE x.code # "OK"
    <3>1. n = u /\ c.bad # {}
      BY <1>2, <1>3, <1>5, <2>1, <2>6 DEF u
    <3>2. DeferPays(h)
      BY <3>1 DEF DeferPays, c
    <3>3. Goes(tool, n)
      <4>1. CASE n.kind = "try"
        BY <4>1 DEF Goes
      <4>2. CASE n.kind # "try"
        <5>1. n = Done({}, Outcome(D, F))
          BY <1>9, <3>1, <4>2
        <5>2. F # {}
          BY <3>1 DEF Ids, F
        <5> QED
          BY <2>2, <5>1, <5>2, EndingSteps DEF Goes
      <4> QED
        BY <4>1, <4>2
    <3> QED
      BY <3>2, <3>3
  <2> QED
    BY <2>4, <2>5, <2>6
<1> QED
  BY <1>10, <1>11, <1>12 DEF s, n, h

\* The tools by what they may change of what is listed, and by when they
\* invalidate it: whatever comes of the call, after the next answer, item by
\* item.
TaskPayers ==
    {"task_uncomplete", "task_drop", "task_undrop", "task_delete", "task_duplicate", "task_move",
     "task_reorder", "task_update", "task_clear_alarms", "task_set_repetition",
     "task_clear_repetition", "task_set_alarms", "task_defer_smart", "task_set_waiting_on",
     "task_clear_waiting_on"}
NotePayers ==
    {"note_append", "note_set", "note_set_html", "decision_record", "decision_clear", "tag_delete"}
LibraryPayers ==
    {"project_complete", "project_drop", "project_move", "project_delete", "project_update",
     "doCreate", "task_convert_to_project", "project_template_delete",
     "project_template_instantiate", "project_template_save"}
Payers == TaskPayers \cup NotePayers \cup LibraryPayers \cup {"folder_delete"}

TaskFollowers ==
    {"task_create", "task_complete", "tag_create", "tag_update", "tag_move", "tag_set_status",
     "tag_set_allows_next_action", "tag_set_location"}
FolderFollowers == {"folder_create", "folder_update", "folder_move"}
LibraryFollowers ==
    {"project_create", "review_mark_reviewed", "project_mark_reviewed", "review_set_interval",
     "project_set_next_review_date", "database_undo", "database_redo"}

IdBatches ==
    {"task_batch_complete", "task_batch_uncomplete", "task_batch_delete", "task_batch_drop",
     "task_batch_undrop", "project_batch_complete", "project_batch_drop"}
ItemBatches == {"task_batch_update", "task_batch_move", "task_batch_create"}
Others == {"task_batch_assign", "task_reclassify", "task_batch_defer_smart", "task_extract_from_image",
           "task_extract_from_note", "doComplete"}

\* The kinds of listings a tool may change.
Affects(tool) ==
    IF tool \in LibraryPayers \cup LibraryFollowers \cup ProjectBatches THEN Kinds
    ELSE IF tool \in FolderFollowers \cup {"folder_delete"} THEN FolderKinds
    ELSE IF tool \in TaskPayers \cup NotePayers \cup TaskFollowers \cup IdBatches \cup ItemBatches \cup Others
         THEN TaskKinds
    ELSE {}

\* Arguments as the schemas of the tools have them, and imports of nothing
Fit(tool, a) ==
    /\ tool = "doComplete" => Len(a.children) \in Nat
    /\ tool \in {"database_undo", "database_redo"} /\ a.past # <<>> =>
          Framed(Last(a.past)) /\ Framed(Head(a.past))
    /\ tool \in IdBatches => Len(a.ids) \in Nat
    /\ tool \in ItemBatches \cup {"task_batch_assign"} => Listed(a.items)
    /\ tool = "task_batch_assign" => Len(a.items) # 0
    /\ tool \in {"task_extract_from_note", "task_extract_from_image"} /\ Given(a, "confirmed") =>
          Listed(a.confirmed)
    /\ tool = "task_extract_from_image" /\ Given(a, "confirmed") /\ a.attach = "parent-task" =>
          Len(a.confirmed) # 0
    /\ tool \in {"import_taskpaper", "import_opml"} => a.text = <<>>

\* What the answers bring
Told(tool, a, g) ==
    /\ tool = "task_complete" /\ Len(g) > 1 /\ Ok(g, 2) => IsFiniteSet(Val(g, 2))
    /\ tool = "task_reclassify" /\ Len(g) # 0 => IsFiniteSet(Val(g, 1))
    /\ tool = "task_extract_from_image" /\ ~Given(a, "confirmed") => Len(g) <= ImageAnswers(a)

\* After the answers g a call may have written, and what it wrote is still to
\* be invalidated.
MayOwe(tool, a, g) ==
    \/ tool \in Payers \cup {"task_batch_assign"}
    \/ tool = "doComplete" /\ Len(g) <= Len(a.children)
    \/ tool = "task_reclassify" /\ ReclassifyPays(a, g)
    \/ tool = "task_batch_defer_smart" /\ DeferPays(g)
    \/ tool = "task_extract_from_image" /\ ImagePays(a, g)

\* x is what the request of the step s is answered with when the call goes on.
Answered(s, x) ==
    /\ s.kind = "ask" => x.code = "OK" /\ s.does.code = "OK" /\ x.val = s.does.val
    /\ s.kind = "try" /\ x.code = "OK" => s.does.code = "OK" /\ x.val = s.does.val

\* The step n after s ends the debt of the call, or leaves it one that it
\* will pay.
Carries(tool, s, d, was, n, is) ==
    was \/ (s.kind \in {"ask", "try"} /\ s.does.doc # d) =>
        Ends(tool, n) \/ (is /\ n.kind # "reply")

-----------------------------------------------------------------------------
\* Tools that invalidate whatever comes of the call

\* They change what they invalidate, and invalidate before they say OK.
LEMMA PayersMove ==
    ASSUME NEW tool \in Payers, NEW d, Framed(d), NEW a, NEW g, Heard(g)
    PROVE  Clean(Move(tool, d, a, g), d, Affects(tool)) /\ Pays(Move(tool, d, a, g))
<1>1. CASE tool \in TaskPayers
  <2>1. Affects(tool) = TaskKinds
    BY <1>1 DEF Affects, TaskPayers, LibraryPayers, LibraryFollowers, ProjectBatches, FolderFollowers
  <2>2. Clean(Move(tool, d, a, g), d, TaskKinds) /\ Pays(Move(tool, d, a, g))
    BY <1>1, TaskToolsPay, ZenonT(30) DEF Move, TaskPayers
  <2> QED
    BY <2>1, <2>2
<1>2. CASE tool \in NotePayers
  <2>1. Affects(tool) = TaskKinds
    BY <1>2 DEF Affects, NotePayers, LibraryPayers, LibraryFollowers, ProjectBatches, FolderFollowers
  <2>2. Clean(Move(tool, d, a, g), d, TaskKinds) /\ Pays(Move(tool, d, a, g))
    BY <1>2, NoteToolsPay, TagDeletePays, ZenonT(30) DEF Move, NotePayers
  <2> QED
    BY <2>1, <2>2
<1>3. CASE tool \in LibraryPayers
  <2>1. Affects(tool) = Kinds
    BY <1>3 DEF Affects
  <2>2. Clean(Move(tool, d, a, g), d, Kinds) /\ Pays(Move(tool, d, a, g))
    BY <1>3, ProjectToolsPay, TemplateToolsPay, ZenonT(30) DEF Move, LibraryPayers
  <2> QED
    BY <2>1, <2>2
<1>4. CASE tool = "folder_delete"
  <2>1. Affects(tool) = FolderKinds
    BY <1>4 DEF Affects, LibraryPayers, LibraryFollowers, ProjectBatches
  <2>2. Clean(Move(tool, d, a, g), d, FolderKinds) /\ Pays(Move(tool, d, a, g))
    BY <1>4, FolderDeletePays DEF Move
  <2> QED
    BY <2>1, <2>2
<1> QED
  BY <1>1, <1>2, <1>3, <1>4 DEF Payers

\* So they end their debt or go on.
LEMMA PayingEnds ==
    \A tool, s : Pays(s) => Ends(tool, s) \/ s.kind # "reply"
BY DEF Pays, Ends, FellShort

\* After every answer.
LEMMA PayersCarry ==
    ASSUME NEW tool \in Payers, NEW s, NEW d, NEW was, NEW e, Framed(e), NEW a, NEW h, Heard(h)
    PROVE  Carries(tool, s, d, was, Move(tool, e, a, h), MayOwe(tool, a, h))
<1>1. MayOwe(tool, a, h)
  BY DEF MayOwe
<1>2. Pays(Move(tool, e, a, h))
  BY PayersMove
<1> QED
  BY <1>1, <1>2, PayingEnds DEF Carries

\* The handlers of some names
LEMMA FollowersNamed ==
    ASSUME NEW tool, NEW d, NEW a, NEW g
    PROVE  /\ tool = "task_create" => Move(tool, d, a, g) = task_create(d, a, g)
           /\ tool = "task_complete" => Move(tool, d, a, g) = task_complete(d, a, g)
           /\ tool = "tag_create" => Move(tool, d, a, g) = tag_create(d, a, g)
           /\ tool = "tag_update" => Move(tool, d, a, g) = tag_update(d, a, g)
           /\ tool = "tag_move" => Move(tool, d, a, g) = tag_move(d, a, g)
           /\ tool = "tag_set_status" => Move(tool, d, a, g) = tag_set_status(d, a, g)
           /\ tool = "tag_set_allows_next_action" => Move(tool, d, a, g) = tag_set_allows_next_action(d, a, g)
           /\ tool = "tag_set_location" => Move(tool, d, a, g) = tag_set_location(d, a, g)
           /\ tool = "folder_create" => Move(tool, d, a, g) = folder_create(d, a, g)
           /\ tool = "folder_update" => Move(tool, d, a, g) = folder_update(d, a, g)
           /\ tool = "folder_move" => Move(tool, d, a, g) = folder_move(d, a, g)
           /\ tool = "project_create" => Move(tool, d, a, g) = project_create(d, a, g)
           /\ tool = "review_mark_reviewed" => Move(tool, d, a, g) = review_mark_reviewed(d, a, g)
           /\ tool = "project_mark_reviewed" => Move(tool, d, a, g) = project_mark_reviewed(d, a, g)
           /\ tool = "review_set_interval" => Move(tool, d, a, g) = review_set_interval(d, a, g)
           /\ tool = "project_set_next_review_date" => Move(tool, d, a, g) = project_set_next_review_date(d, a, g)
           /\ tool = "database_undo" => Move(tool, d, a, g) = database_undo(d, a, g)
           /\ tool = "database_redo" => Move(tool, d, a, g) = database_redo(d, a, g)
BY ZenonT(30) DEF Move

\* And the batches.
LEMMA BatchesNamed ==
    ASSUME NEW tool, NEW d, NEW a, NEW g
    PROVE  /\ tool = "task_batch_complete" => Move(tool, d, a, g) = task_batch_complete(d, a, g)
           /\ tool = "task_batch_uncomplete" => Move(tool, d, a, g) = task_batch_uncomplete(d, a, g)
           /\ tool = "task_batch_delete" => Move(tool, d, a, g) = task_batch_delete(d, a, g)
           /\ tool = "task_batch_drop" => Move(tool, d, a, g) = task_batch_drop(d, a, g)
           /\ tool = "task_batch_undrop" => Move(tool, d, a, g) = task_batch_undrop(d, a, g)
           /\ tool = "project_batch_complete" => Move(tool, d, a, g) = project_batch_complete(d, a, g)
           /\ tool = "project_batch_drop" => Move(tool, d, a, g) = project_batch_drop(d, a, g)
           /\ tool = "task_batch_update" => Move(tool, d, a, g) = task_batch_update(d, a, g)
           /\ tool = "task_batch_move" => Move(tool, d, a, g) = task_batch_move(d, a, g)
           /\ tool = "task_batch_create" => Move(tool, d, a, g) = task_batch_create(d, a, g)
           /\ tool = "task_extract_from_note" => Move(tool, d, a, g) = task_extract_from_note(d, a, g)
           /\ tool = "task_batch_assign" => Move(tool, d, a, g) = task_batch_assign(d, a, g)
           /\ tool = "task_reclassify" => Move(tool, d, a, g) = task_reclassify(d, a, g)
           /\ tool = "task_batch_defer_smart" => Move(tool, d, a, g) = task_batch_defer_smart(d, a, g)
           /\ tool = "task_extract_from_image" => Move(tool, d, a, g) = task_extract_from_image(d, a, g)
           /\ tool = "doComplete" => Move(tool, d, a, g) = doComplete(d, a, g)
BY ZenonT(30) DEF Move


\* Tools whose write is followed by the invalidation
Followers == TaskFollowers \cup FolderFollowers \cup LibraryFollowers

\* A step that is followed up leaves no debt.
LEMMA FollowedCarries ==
    \A tool, s, d, x, n, is : FollowedUp(s, d, n) /\ Answered(s, x) => Carries(tool, s, d, FALSE, n, is)
BY DEF FollowedUp, Answered, Carries, Ends

\* Nor one whose answer settles it.
LEMMA SettledCarries ==
    \A tool, s, d, x, n, is : SettledBy(tool, s, d, x, n) /\ Answered(s, x) => Carries(tool, s, d, FALSE, n, is)
BY DEF SettledBy, Answered, Carries

\* What follows a write invalidates.
LEMMA FollowersMove ==
    ASSUME NEW tool \in Followers, NEW d, Framed(d), NEW a, Fit(tool, a), NEW g, Heard(g),
           NEW x, Honest(x), NEW e, Framed(e)
    PROVE  /\ Clean(Move(tool, d, a, g), d, Affects(tool))
           /\ Answered(Move(tool, d, a, g), x) =>
                 FollowedUp(Move(tool, d, a, g), d, Move(tool, e, a, Append(g, x)))
<1> DEFINE Fine(r, m, A) == Clean(r, d, A) /\ (Answered(r, x) => FollowedUp(r, d, m))
           s == Move(tool, d, a, g)
           n == Move(tool, e, a, Append(g, x))
<1>1. tool \in TaskFollowers => Affects(tool) = TaskKinds
  BY DEF Affects, TaskFollowers, LibraryPayers, LibraryFollowers, ProjectBatches, FolderFollowers
<1>2. tool \in FolderFollowers => Affects(tool) = FolderKinds
  BY DEF Affects, LibraryPayers, LibraryFollowers, ProjectBatches, FolderFollowers
<1>3. tool \in LibraryFollowers => Affects(tool) = Kinds
  BY DEF Affects
<1>4. ASSUME tool = "task_create" PROVE Fine(s, n, Affects(tool))
  <2>1. s = task_create(d, a, g) /\ n = task_create(e, a, Append(g, x))
    BY <1>4, FollowersNamed
  <2>2. Fine(task_create(d, a, g), task_create(e, a, Append(g, x)), TaskKinds)
    BY TaskCreateFollows
  <2> HIDE DEF Fine, s, n
  <2> QED
    BY <2>1, <2>2, <1>1, <1>4 DEF TaskFollowers
<1>5. ASSUME tool = "task_complete" PROVE Fine(s, n, Affects(tool))
  <2>1. s = task_complete(d, a, g) /\ n = task_complete(e, a, Append(g, x))
    BY <1>5, FollowersNamed
  <2>2. Fine(task_complete(d, a, g), task_complete(e, a, Append(g, x)), TaskKinds)
    BY TaskCompleteFollows
  <2> HIDE DEF Fine, s, n
  <2> QED
    BY <2>1, <2>2, <1>1, <1>5 DEF TaskFollowers
<1>6. ASSUME tool = "tag_create" PROVE Fine(s, n, Affects(tool))
  <2>1. s = tag_create(d, a, g) /\ n = tag_create(e, a, Append(g, x))
    BY <1>6, FollowersNamed
  <2>2. Fine(tag_create(d, a, g), tag_create(e, a, Append(g, x)), TaskKinds)
    BY TagToolsFollow
  <2> HIDE DEF Fine, s, n
  <2> QED
    BY <2>1, <2>2, <1>1, <1>6 DEF TaskFollowers
<1>7. ASSUME tool = "tag_update" PROVE Fine(s, n, Affects(tool))
  <2>1. s = tag_update(d, a, g) /\ n = tag_update(e, a, Append(g, x))
    BY <1>7, FollowersNamed
  <2>2. Fine(tag_update(d, a, g), tag_update(e, a, Append(g, x)), TaskKinds)
    BY TagToolsFollow
  <2> HIDE DEF Fine, s, n
  <2> QED
    BY <2>1, <2>2, <1>1, <1>7 DEF TaskFollowers
<1>8. ASSUME tool = "tag_move" PROVE Fine(s, n, Affects(tool))
  <2>1. s = tag_move(d, a, g) /\ n = tag_move(e, a, Append(g, x))
    BY <1>8, FollowersNamed
  <2>2. Fine(tag_move(d, a, g), tag_move(e, a, Append(g, x)), TaskKinds)
    BY TagToolsFollow
  <2> HIDE DEF Fine, s, n
  <2> QED
    BY <2>1, <2>2, <1>1, <1>8 DEF TaskFollowers
<1>9. ASSUME tool = "tag_set_status" PROVE Fine(s, n, Affects(tool))
  <2>1. s = tag_set_status(d, a, g) /\ n = tag_set_status(e, a, Append(g, x))
    BY <1>9, FollowersNamed
  <2>2. Fine(tag_set_status(d, a, g), tag_set_status(e, a, Append(g, x)), TaskKinds)
    BY TagToolsFollow
  <2> HIDE DEF Fine, s, n
  <2> QED
    BY <2>1, <2>2, <1>1, <1>9 DEF TaskFollowers
<1>10. ASSUME tool = "tag_set_allows_next_action" PROVE Fine(s, n, Affects(tool))
  <2>1. s = tag_set_allows_next_action(d, a, g) /\ n = tag_set_allows_next_action(e, a, Append(g, x))
    BY <1>10, FollowersNamed
  <2>2. Fine(tag_set_allows_next_action(d, a, g), tag_set_allows_next_action(e, a, Append(g, x)), TaskKinds)
    BY TagToolsFollow
  <2> HIDE DEF Fine, s, n
  <2> QED
    BY <2>1, <2>2, <1>1, <1>10 DEF TaskFollowers
<1>11. ASSUME tool = "tag_set_location" PROVE Fine(s, n, Affects(tool))
  <2>1. s = tag_set_location(d, a, g) /\ n = tag_set_location(e, a, Append(g, x))
    BY <1>11, FollowersNamed
  <2>2. Fine(tag_set_location(d, a, g), tag_set_location(e, a, Append(g, x)), TaskKinds)
    BY TagToolsFollow
  <2> HIDE DEF Fine, s, n
  <2> QED
    BY <2>1, <2>2, <1>1, <1>11 DEF TaskFollowers
<1>12. ASSUME tool = "folder_create" PROVE Fine(s, n, Affects(tool))
  <2>1. s = folder_create(d, a, g) /\ n = folder_create(e, a, Append(g, x))
    BY <1>12, FollowersNamed
  <2>2. Fine(folder_create(d, a, g), folder_create(e, a, Append(g, x)), FolderKinds)
    BY FolderToolsFollow
  <2> HIDE DEF Fine, s, n
  <2> QED
    BY <2>1, <2>2, <1>2, <1>12 DEF FolderFollowers
<1>13. ASSUME tool = "folder_update" PROVE Fine(s, n, Affects(tool))
  <2>1. s = folder_update(d, a, g) /\ n = folder_update(e, a, Append(g, x))
    BY <1>13, FollowersNamed
  <2>2. Fine(folder_update(d, a, g), folder_update(e, a, Append(g, x)), FolderKinds)
    BY FolderToolsFollow
  <2> HIDE DEF Fine, s, n
  <2> QED
    BY <2>1, <2>2, <1>2, <1>13 DEF FolderFollowers
<1>14. ASSUME tool = "folder_move" PROVE Fine(s, n, Affects(tool))
  <2>1. s = folder_move(d, a, g) /\ n = folder_move(e, a, Append(g, x))
    BY <1>14, FollowersNamed
  <2>2. Fine(folder_move(d, a, g), folder_move(e, a, Append(g, x)), FolderKinds)
    BY FolderToolsFollow
  <2> HIDE DEF Fine, s, n
  <2> QED
    BY <2>1, <2>2, <1>2, <1>14 DEF FolderFollowers
<1>15. ASSUME tool = "project_create" PROVE Fine(s, n, Affects(tool))
  <2>1. s = project_create(d, a, g) /\ n = project_create(e, a, Append(g, x))
    BY <1>15, FollowersNamed
  <2>2. Fine(project_create(d, a, g), project_create(e, a, Append(g, x)), Kinds)
    BY ProjectCreateFollows
  <2> HIDE DEF Fine, s, n
  <2> QED
    BY <2>1, <2>2, <1>3, <1>15 DEF LibraryFollowers
<1>16. ASSUME tool = "review_mark_reviewed" PROVE Fine(s, n, Affects(tool))
  <2>1. s = review_mark_reviewed(d, a, g) /\ n = review_mark_reviewed(e, a, Append(g, x))
    BY <1>16, FollowersNamed
  <2>2. Fine(review_mark_reviewed(d, a, g), review_mark_reviewed(e, a, Append(g, x)), Kinds)
    BY ReviewToolsFollow
  <2> HIDE DEF Fine, s, n
  <2> QED
    BY <2>1, <2>2, <1>3, <1>16 DEF LibraryFollowers
<1>17. ASSUME tool = "project_mark_reviewed" PROVE Fine(s, n, Affects(tool))
  <2>1. s = project_mark_reviewed(d, a, g) /\ n = project_mark_reviewed(e, a, Append(g, x))
    BY <1>17, FollowersNamed
  <2>2. Fine(project_mark_reviewed(d, a, g), project_mark_reviewed(e, a, Append(g, x)), Kinds)
    BY ReviewToolsFollow
  <2> HIDE DEF Fine, s, n
  <2> QED
    BY <2>1, <2>2, <1>3, <1>17 DEF LibraryFollowers
<1>18. ASSUME tool = "review_set_interval" PROVE Fine(s, n, Affects(tool))
  <2>1. s = review_set_interval(d, a, g) /\ n = review_set_interval(e, a, Append(g, x))
    BY <1>18, FollowersNamed
  <2>2. Fine(review_set_interval(d, a, g), review_set_interval(e, a, Append(g, x)), Kinds)
    BY ReviewToolsFollow
  <2> HIDE DEF Fine, s, n
  <2> QED
    BY <2>1, <2>2, <1>3, <1>18 DEF LibraryFollowers
<1>19. ASSUME tool = "project_set_next_review_date" PROVE Fine(s, n, Affects(tool))
  <2>1. s = project_set_next_review_date(d, a, g) /\ n = project_set_next_review_date(e, a, Append(g, x))
    BY <1>19, FollowersNamed
  <2>2. Fine(project_set_next_review_date(d, a, g), project_set_next_review_date(e, a, Append(g, x)), Kinds)
    BY ReviewToolsFollow
  <2> HIDE DEF Fine, s, n
  <2> QED
    BY <2>1, <2>2, <1>3, <1>19 DEF LibraryFollowers
<1>20. ASSUME tool = "database_undo" PROVE Fine(s, n, Affects(tool))
  <2>1. s = database_undo(d, a, g) /\ n = database_undo(e, a, Append(g, x))
    BY <1>20, FollowersNamed
  <2>2. a.past # <<>> => Framed(Last(a.past)) /\ Framed(Head(a.past))
    BY <1>20 DEF Fit
  <2>3. database_undo(d, a, g).kind # "try"
    BY DEF database_undo, Undone, Ask, Reply, Done, Flush, Same
  <2>4. Fine(database_undo(d, a, g), database_undo(e, a, Append(g, x)), Kinds)
    BY <2>2, <2>3, UndoToolsFollow DEF Answered, FollowedUp
  <2> HIDE DEF Fine, s, n
  <2> QED
    BY <2>1, <2>4, <1>3, <1>20 DEF LibraryFollowers
<1>21. ASSUME tool = "database_redo" PROVE Fine(s, n, Affects(tool))
  <2>1. s = database_redo(d, a, g) /\ n = database_redo(e, a, Append(g, x))
    BY <1>21, FollowersNamed
  <2>2. a.past # <<>> => Framed(Last(a.past)) /\ Framed(Head(a.past))
    BY <1>21 DEF Fit
  <2>3. database_redo(d, a, g).kind # "try"
    BY DEF database_redo, Undone, Ask, Reply, Done, Flush, Same
  <2>4. Fine(database_redo(d, a, g), database_redo(e, a, Append(g, x)), Kinds)
    BY <2>2, <2>3, UndoToolsFollow DEF Answered, FollowedUp
  <2> HIDE DEF Fine, s, n
  <2> QED
    BY <2>1, <2>4, <1>3, <1>21 DEF LibraryFollowers
<1>q. Fine(s, n, Affects(tool))
  <2> HIDE DEF Fine, s, n
  <2> QED
    BY <1>4, <1>5, <1>6, <1>7, <1>8, <1>9, <1>10, <1>11, <1>12, <1>13, <1>14, <1>15, <1>16, <1>17,
       <1>18, <1>19, <1>20, <1>21 DEF Followers, TaskFollowers, FolderFollowers, LibraryFollowers
<1> QED
  BY <1>q DEF Fine, s, n

\* Tools that run a batch script
Batchers == IdBatches \cup ItemBatches \cup {"task_extract_from_note"}

\* Batches invalidate when an item was done, and name those that failed.
LEMMA BatchesMove ==
    ASSUME NEW tool \in Batchers, NEW d, Framed(d), NEW a, Fit(tool, a), NEW g, Heard(g),
           NEW x, Honest(x), NEW e
    PROVE  /\ Clean(Move(tool, d, a, g), d, Affects(tool))
           /\ SettledBy(tool, Move(tool, d, a, g), d, x, Move(tool, e, a, Append(g, x)))
<1> DEFINE Fine(r, m, A) == Clean(r, d, A) /\ SettledBy(tool, r, d, x, m)
           s == Move(tool, d, a, g)
           n == Move(tool, e, a, Append(g, x))
<1>1. tool \in IdBatches => Len(a.ids) \in Nat
  BY DEF Fit
<1>2. tool \in ItemBatches => Listed(a.items)
  BY DEF Fit
<1>3. tool = "task_extract_from_note" => (Given(a, "confirmed") => Listed(a.confirmed))
  BY DEF Fit
<1>4. tool \in ProjectBatches => Affects(tool) = Kinds
  BY DEF Affects
<1>5. tool \in Batchers \ ProjectBatches => Affects(tool) = TaskKinds
  BY DEF Affects, Batchers, IdBatches, ItemBatches, LibraryPayers, LibraryFollowers,
     FolderFollowers, Others
<1>6. Batchers = {"task_batch_complete", "task_batch_uncomplete", "task_batch_delete",
                  "task_batch_drop", "task_batch_undrop", "project_batch_complete",
                  "project_batch_drop", "task_batch_update", "task_batch_move",
                  "task_batch_create", "task_extract_from_note"}
  BY DEF Batchers, IdBatches, ItemBatches
<1>7. ASSUME tool = "task_batch_complete" PROVE Fine(s, n, Affects(tool))
  <2>1. s = task_batch_complete(d, a, g) /\ n = task_batch_complete(e, a, Append(g, x))
    BY <1>7, BatchesNamed
  <2>3. "task_batch_complete" \in IdBatches
    BY DEF IdBatches
  <2>4. Fine(task_batch_complete(d, a, g), task_batch_complete(e, a, Append(g, x)), TaskKinds)
    BY <1>7, <1>1, <2>3, BatchToolsEnd
  <2> HIDE DEF Fine, s, n
  <2> QED
    BY <2>1, <2>4, <1>5, <1>7, <1>6 DEF ProjectBatches
<1>8. ASSUME tool = "task_batch_uncomplete" PROVE Fine(s, n, Affects(tool))
  <2>1. s = task_batch_uncomplete(d, a, g) /\ n = task_batch_uncomplete(e, a, Append(g, x))
    BY <1>8, BatchesNamed
  <2>3. "task_batch_uncomplete" \in IdBatches
    BY DEF IdBatches
  <2>4. Fine(task_batch_uncomplete(d, a, g), task_batch_uncomplete(e, a, Append(g, x)), TaskKinds)
    BY <1>8, <1>1, <2>3, BatchToolsEnd
  <2> HIDE DEF Fine, s, n
  <2> QED
    BY <2>1, <2>4, <1>5, <1>8, <1>6 DEF ProjectBatches
<1>9. ASSUME tool = "task_batch_delete" PROVE Fine(s, n, Affects(tool))
  <2>1. s = task_batch_delete(d, a, g) /\ n = task_batch_delete(e, a, Append(g, x))
    BY <1>9, BatchesNamed
  <2>3. "task_batch_delete" \in IdBatches
    BY DEF IdBatches
  <2>4. Fine(task_batch_delete(d, a, g), task_batch_delete(e, a, Append(g, x)), TaskKinds)
    BY <1>9, <1>1, <2>3, BatchToolsEnd
  <2> HIDE DEF Fine, s, n
  <2> QED
    BY <2>1, <2>4, <1>5, <1>9, <1>6 DEF ProjectBatches
<1>10. ASSUME tool = "task_batch_drop" PROVE Fine(s, n, Affects(tool))
  <2>1. s = task_batch_drop(d, a, g) /\ n = task_batch_drop(e, a, Append(g, x))
    BY <1>10, BatchesNamed
  <2>3. "task_batch_drop" \in IdBatches
    BY DEF IdBatches
  <2>4. Fine(task_batch_drop(d, a, g), task_batch_drop(e, a, Append(g, x)), TaskKinds)
    BY <1>10, <1>1, <2>3, BatchToolsEnd
  <2> HIDE DEF Fine, s, n
  <2> QED
    BY <2>1, <2>4, <1>5, <1>10, <1>6 DEF ProjectBatches
<1>11. ASSUME tool = "task_batch_undrop" PROVE Fine(s, n, Affects(tool))
  <2>1. s = task_batch_undrop(d, a, g) /\ n = task_batch_undrop(e, a, Append(g, x))
    BY <1>11, BatchesNamed
  <2>3. "task_batch_undrop" \in IdBatches
    BY DEF IdBatches
  <2>4. Fine(task_batch_undrop(d, a, g), task_batch_undrop(e, a, Append(g, x)), TaskKinds)
    BY <1>11, <1>1, <2>3, BatchToolsEnd
  <2> HIDE DEF Fine, s, n
  <2> QED
    BY <2>1, <2>4, <1>5, <1>11, <1>6 DEF ProjectBatches
<1>12. ASSUME tool = "project_batch_complete" PROVE Fine(s, n, Affects(tool))
  <2>1. s = project_batch_complete(d, a, g) /\ n = project_batch_complete(e, a, Append(g, x))
    BY <1>12, BatchesNamed
  <2>3. "project_batch_complete" \in IdBatches
    BY DEF IdBatches
  <2>4. Fine(project_batch_complete(d, a, g), project_batch_complete(e, a, Append(g, x)), Kinds)
    BY <1>12, <1>1, <2>3, BatchToolsEnd
  <2> HIDE DEF Fine, s, n
  <2> QED
    BY <2>1, <2>4, <1>4, <1>12, <1>6 DEF ProjectBatches
<1>13. ASSUME tool = "project_batch_drop" PROVE Fine(s, n, Affects(tool))
  <2>1. s = project_batch_drop(d, a, g) /\ n = project_batch_drop(e, a, Append(g, x))
    BY <1>13, BatchesNamed
  <2>3. "project_batch_drop" \in IdBatches
    BY DEF IdBatches
  <2>4. Fine(project_batch_drop(d, a, g), project_batch_drop(e, a, Append(g, x)), Kinds)
    BY <1>13, <1>1, <2>3, BatchToolsEnd
  <2> HIDE DEF Fine, s, n
  <2> QED
    BY <2>1, <2>4, <1>4, <1>13, <1>6 DEF ProjectBatches
<1>14. ASSUME tool = "task_batch_update" PROVE Fine(s, n, Affects(tool))
  <2>1. s = task_batch_update(d, a, g) /\ n = task_batch_update(e, a, Append(g, x))
    BY <1>14, BatchesNamed
  <2>3. "task_batch_update" \in ItemBatches
    BY DEF ItemBatches
  <2>4. Fine(task_batch_update(d, a, g), task_batch_update(e, a, Append(g, x)), TaskKinds)
    BY <1>14, <1>2, <2>3, BatchToolsEnd
  <2> HIDE DEF Fine, s, n
  <2> QED
    BY <2>1, <2>4, <1>5, <1>14, <1>6 DEF ProjectBatches
<1>15. ASSUME tool = "task_batch_move" PROVE Fine(s, n, Affects(tool))
  <2>1. s = task_batch_move(d, a, g) /\ n = task_batch_move(e, a, Append(g, x))
    BY <1>15, BatchesNamed
  <2>3. "task_batch_move" \in ItemBatches
    BY DEF ItemBatches
  <2>4. Fine(task_batch_move(d, a, g), task_batch_move(e, a, Append(g, x)), TaskKinds)
    BY <1>15, <1>2, <2>3, BatchToolsEnd
  <2> HIDE DEF Fine, s, n
  <2> QED
    BY <2>1, <2>4, <1>5, <1>15, <1>6 DEF ProjectBatches
<1>16. ASSUME tool = "task_batch_create" PROVE Fine(s, n, Affects(tool))
  <2>1. s = task_batch_create(d, a, g) /\ n = task_batch_create(e, a, Append(g, x))
    BY <1>16, BatchesNamed
  <2>3. "task_batch_create" \in ItemBatches
    BY DEF ItemBatches
  <2>4. Fine(task_batch_create(d, a, g), task_batch_create(e, a, Append(g, x)), TaskKinds)
    BY <1>16, <1>2, <2>3, BatchCreateEnds
  <2> HIDE DEF Fine, s, n
  <2> QED
    BY <2>1, <2>4, <1>5, <1>16, <1>6 DEF ProjectBatches
<1>17. ASSUME tool = "task_extract_from_note" PROVE Fine(s, n, Affects(tool))
  <2>1. s = task_extract_from_note(d, a, g) /\ n = task_extract_from_note(e, a, Append(g, x))
    BY <1>17, BatchesNamed
  <2>4. Fine(task_extract_from_note(d, a, g), task_extract_from_note(e, a, Append(g, x)), TaskKinds)
    BY <1>17, <1>3, NoteExtractionEnds
  <2> HIDE DEF Fine, s, n
  <2> QED
    BY <2>1, <2>4, <1>5, <1>17, <1>6 DEF ProjectBatches
<1>q. Fine(s, n, Affects(tool))
  <2> HIDE DEF Fine, s, n
  <2> QED
    BY <1>6, <1>7, <1>8, <1>9, <1>10, <1>11, <1>12, <1>13, <1>14, <1>15, <1>16, <1>17
<1> QED
  BY <1>q

\* src/tools/task/extractFromImage.ts
LEMMA ImageGoesOn ==
    ASSUME NEW d, Framed(d), NEW a, Fit("task_extract_from_image", a), NEW g, Heard(g),
           Told("task_extract_from_image", a, g), NEW x, Honest(x), NEW e,
           LET s == Move("task_extract_from_image", d, a, g) IN
           Answered(s, x) /\ s.kind \in {"ask", "try", "cached"}
    PROVE  LET s == Move("task_extract_from_image", d, a, g)
               n == Move("task_extract_from_image", e, a, Append(g, x)) IN
           /\ Clean(s, d, TaskKinds)
           /\ Told("task_extract_from_image", a, Append(g, x))
           /\ Carries("task_extract_from_image", s, d, MayOwe("task_extract_from_image", a, g), n,
                      MayOwe("task_extract_from_image", a, Append(g, x)))
<1> DEFINE s == task_extract_from_image(d, a, g)
           h == Append(g, x)
           n == task_extract_from_image(e, a, h)
           tool == "task_extract_from_image"
<1>1. /\ Given(a, "confirmed") => Listed(a.confirmed) /\ (a.attach = "parent-task" => Len(a.confirmed) # 0)
      /\ ~Given(a, "confirmed") => Len(g) <= ImageAnswers(a)
  BY DEF Fit, Told
<1>2. /\ Clean(s, d, TaskKinds) /\ s.kind \in {"ask", "reply"}
      /\ s.kind = "ask" /\ x.val = s.does.val /\ (ImagePays(a, g) \/ s.does.doc # d) => ImagePays(a, h)
      /\ ImagePays(a, h) => n.kind = "ask" \/ Ends(tool, n)
      /\ s.kind = "ask" /\ ~Given(a, "confirmed") => Len(h) <= ImageAnswers(a)
  BY <1>1, ImageEnds
<1>3. Move(tool, d, a, g) = s /\ Move(tool, e, a, h) = n
  BY BatchesNamed
<1>4. \A k : MayOwe(tool, a, k) <=> ImagePays(a, k)
  BY DEF MayOwe, Payers, TaskPayers, NotePayers, LibraryPayers
<1> HIDE DEF s, n, h
<1>5. s.kind = "ask" /\ x.val = s.does.val
  BY <1>2, <1>3 DEF Answered
<1>6. Told(tool, a, h)
  BY <1>2, <1>5 DEF Told
<1>7. Carries(tool, s, d, ImagePays(a, g), n, ImagePays(a, h))
  BY <1>2, <1>5 DEF Carries
<1>8. Carries(tool, s, d, MayOwe(tool, a, g), n, MayOwe(tool, a, h))
  BY <1>4, <1>7 DEF Carries
<1> QED
  BY <1>2, <1>3, <1>6, <1>8 DEF h

\* Who goes on to pay carries the debt.
LEMMA GoingCarries ==
    \A tool, s, d, was, n, is :
        (was \/ (s.kind \in {"ask", "try"} /\ s.does.doc # d) => is /\ Goes(tool, n)) =>
            Carries(tool, s, d, was, n, is)
BY DEF Carries, Goes

\* A task and its children one after the other (src/tools/task/complete.ts).
LEMMA CompletionGoesOn ==
    ASSUME NEW d, Framed(d), NEW a, Fit("doComplete", a), NEW g, Heard(g), NEW x, Honest(x),
           NEW e, Framed(e)
    PROVE  LET s == Move("doComplete", d, a, g)
               n == Move("doComplete", e, a, Append(g, x)) IN
           /\ Clean(s, d, TaskKinds)
           /\ Carries("doComplete", s, d, MayOwe("doComplete", a, g), n, MayOwe("doComplete", a, Append(g, x)))
<1> DEFINE s == doComplete(d, a, g)
           h == Append(g, x)
           n == doComplete(e, a, h)
           tool == "doComplete"
           k == Len(a.children)
<1>1. k \in Nat /\ Len(g) \in Nat /\ Len(h) = Len(g) + 1
  BY OneMore DEF Fit
<1>2. Clean(s, d, TaskKinds) /\ (Len(g) > k => Looks(s, d))
  BY <1>1, doCompleteSteps
<1>3. Len(h) \in Nat
  BY <1>1
<1>4. /\ Len(h) <= k => n.kind # "reply"
      /\ Len(h) = k + 1 => n.drop # {}
  BY <1>1, <1>3, doCompleteSteps
<1>5. Move(tool, d, a, g) = s /\ Move(tool, e, a, h) = n
  BY BatchesNamed
<1>6. \A i : MayOwe(tool, a, i) <=> Len(i) <= k
  BY DEF MayOwe, Payers, TaskPayers, NotePayers, LibraryPayers
<1> HIDE DEF s, n, h, k
<1>7. ASSUME Len(g) <= k \/ (s.kind \in {"ask", "try"} /\ s.does.doc # d)
      PROVE  n.drop # {} \/ (Len(h) <= k /\ n.kind # "reply")
  <2>1. Len(g) <= k
    BY <1>1, <1>2, <1>7 DEF Looks, Looking
  <2> QED
    BY <1>1, <1>4, <2>1
<1>8. Carries(tool, s, d, MayOwe(tool, a, g), n, MayOwe(tool, a, h))
  BY <1>6, <1>7 DEF Carries, Ends
<1> QED
  BY <1>2, <1>5, <1>8 DEF h

\* src/tools/task/batchAssign.ts
LEMMA AssignmentGoesOn ==
    ASSUME NEW d, Framed(d), NEW a, Fit("task_batch_assign", a), NEW g, NEW h, NEW e, Framed(e)
    PROVE  LET s == Move("task_batch_assign", d, a, g)
               n == Move("task_batch_assign", e, a, h) IN
           /\ Clean(s, d, TaskKinds)
           /\ Carries("task_batch_assign", s, d, MayOwe("task_batch_assign", a, g), n,
                      MayOwe("task_batch_assign", a, h))
<1> DEFINE s == task_batch_assign(d, a, g)
           n == task_batch_assign(e, a, h)
           tool == "task_batch_assign"
<1>1. Listed(a.items) /\ Len(a.items) # 0 /\ tool \in Batches
  BY DEF Fit, Batches
<1>2. Clean(s, d, TaskKinds)
  BY <1>1, AssignGoes
<1>3. Goes(tool, n)
  BY <1>1, AssignGoes
<1>4. Move(tool, d, a, g) = s /\ Move(tool, e, a, h) = n
  BY BatchesNamed
<1>5. MayOwe(tool, a, h)
  BY DEF MayOwe
<1> HIDE DEF s, n
<1>6. Carries(tool, s, d, MayOwe(tool, a, g), n, MayOwe(tool, a, h))
  BY <1>3, <1>5, GoingCarries
<1> QED
  BY <1>2, <1>4, <1>6

\* src/tools/task/reclassify.ts
LEMMA ReclassifyingGoesOn ==
    ASSUME NEW d, Framed(d), NEW a, NEW g, Heard(g), Told("task_reclassify", a, g), NEW x, Honest(x),
           NEW e, Framed(e),
           LET s == Move("task_reclassify", d, a, g) IN
           Answered(s, x) /\ s.kind \in {"ask", "try", "cached"}
    PROVE  LET s == Move("task_reclassify", d, a, g)
               n == Move("task_reclassify", e, a, Append(g, x)) IN
           /\ Clean(s, d, TaskKinds)
           /\ Told("task_reclassify", a, Append(g, x))
           /\ Carries("task_reclassify", s, d, MayOwe("task_reclassify", a, g), n,
                      MayOwe("task_reclassify", a, Append(g, x)))
<1> DEFINE s == task_reclassify(d, a, g)
           h == Append(g, x)
           n == task_reclassify(e, a, h)
           tool == "task_reclassify"
<1>1. Len(g) # 0 => IsFiniteSet(Val(g, 1))
  BY DEF Told
<1>2. /\ Clean(s, d, TaskKinds) /\ s.kind \in {"ask", "reply"}
      /\ s.kind = "ask" /\ s.does.doc # d => ReclassifyPays(a, g)
      /\ s.kind = "ask" /\ Len(g) = 0 => (s.does.code = "OK" => IsFiniteSet(s.does.val))
  BY <1>1, ReclassifyEnds
<1>3. Move(tool, d, a, g) = s /\ Move(tool, e, a, h) = n
  BY BatchesNamed
<1>4. \A k : MayOwe(tool, a, k) <=> ReclassifyPays(a, k)
  BY DEF MayOwe, Payers, TaskPayers, NotePayers, LibraryPayers
<1>5. /\ Len(g) \in Nat /\ Len(h) = Len(g) + 1
      /\ Len(g) # 0 => Val(h, 1) = Val(g, 1)
      /\ Len(g) = 0 => Val(h, 1) = x.val
  BY OneMore DEF Val
<1>6. Heard(h)
  BY HeardMore
<1> HIDE DEF s, n, h
<1>7. s.kind = "ask" /\ x.val = s.does.val /\ s.does.code = "OK"
  BY <1>2, <1>3 DEF Answered
<1>8. IsFiniteSet(Val(h, 1))
  BY <1>1, <1>2, <1>5, <1>7
<1>9. ReclassifyPays(a, h) => Goes(tool, n)
  BY <1>6, <1>8, ReclassifyEnds DEF n
<1>10. ReclassifyPays(a, g) => ReclassifyPays(a, h)
  BY <1>5 DEF ReclassifyPays
<1>11. Carries(tool, s, d, MayOwe(tool, a, g), n, MayOwe(tool, a, h))
  <2>1. MayOwe(tool, a, g) \/ (s.kind \in {"ask", "try"} /\ s.does.doc # d) =>
            MayOwe(tool, a, h) /\ Goes(tool, n)
    BY <1>2, <1>4, <1>7, <1>9, <1>10
  <2> QED
    BY <2>1, GoingCarries
<1>12. Told(tool, a, h)
  BY <1>8 DEF Told
<1> QED
  BY <1>2, <1>3, <1>11, <1>12 DEF h

\* src/tools/task/batchDeferSmart.ts
LEMMA DeferringGoesOn ==
    ASSUME NEW d, Framed(d), NEW a, NEW g, Heard(g), NEW x, Honest(x), NEW e, Framed(e),
           Move("task_batch_defer_smart", d, a, g).kind \in {"ask", "try", "cached"}
    PROVE  LET s == Move("task_batch_defer_smart", d, a, g)
               n == Move("task_batch_defer_smart", e, a, Append(g, x)) IN
           /\ Clean(s, d, TaskKinds)
           /\ Carries("task_batch_defer_smart", s, d, MayOwe("task_batch_defer_smart", a, g), n,
                      MayOwe("task_batch_defer_smart", a, Append(g, x)))
<1> DEFINE s == task_batch_defer_smart(d, a, g)
           h == Append(g, x)
           n == task_batch_defer_smart(e, a, h)
           tool == "task_batch_defer_smart"
<1>1. /\ Clean(s, d, TaskKinds) /\ s.kind \in {"try", "reply"}
      /\ s.kind = "try" /\ (DeferPays(g) \/ s.does.doc # d) =>
            (Ends(tool, n) \/ (DeferPays(h) /\ Goes(tool, n)))
  BY DeferEnds
<1>2. Move(tool, d, a, g) = s /\ Move(tool, e, a, h) = n
  BY BatchesNamed
<1>3. \A k : MayOwe(tool, a, k) <=> DeferPays(k)
  BY DEF MayOwe, Payers, TaskPayers, NotePayers, LibraryPayers
<1> HIDE DEF s, n, h
<1>4. s.kind = "try"
  BY <1>1, <1>2
<1>5. Goes(tool, n) => Ends(tool, n) \/ n.kind # "reply"
  BY DEF Goes
<1>6. Carries(tool, s, d, MayOwe(tool, a, g), n, MayOwe(tool, a, h))
  BY <1>1, <1>3, <1>4, <1>5 DEF Carries
<1> QED
  BY <1>1, <1>2, <1>6 DEF h

\* Tools that change nothing that is listed
Readers ==
    {"task_get", "task_get_many", "task_list", "task_search", "search_query", "task_find_by_name",
     "task_find_similar", "note_get", "note_get_html", "project_get", "project_get_many",
     "project_list", "review_list_due", "tag_get_location", "tag_get", "tag_get_many", "tag_list",
     "folder_get", "folder_list", "forecast_get", "forecast_pack", "export_opml", "export_taskpaper",
     "project_template_list", "attachment_list"}
Bystanders ==
    {"forecast_get_tag", "forecast_set_tag", "perspective_create", "perspective_update",
     "perspective_delete", "perspective_evaluate", "perspective_evaluate_dry_run", "perspective_get",
     "perspective_list", "attachment_create", "attachment_delete", "attachment_save_to_path",
     "window_get_state", "window_set_focus", "window_set_perspective", "sync_status", "sync_trigger",
     "keepProject"}

\* They change nothing that is listed, and neither do the describing tools.
LEMMA ReadersMove ==
    ASSUME NEW tool, NEW d, Framed(d), NEW a, NEW g
    PROVE  /\ tool \in Readers => Clean(Move(tool, d, a, g), d, {})
           /\ tool \in Bystanders => Clean(Move(tool, d, a, g), d, {})
           /\ tool \in Describing => Clean(Move(tool, d, a, g), d, {})
<1>1. tool \in Readers => Clean(Move(tool, d, a, g), d, {})
  BY ReadersAside DEF Move, Readers
<1>2. tool \in Bystanders => Clean(Move(tool, d, a, g), d, {})
  BY OthersAside, ZenonT(30) DEF Move, Bystanders
<1>3. tool \in Describing => Clean(Move(tool, d, a, g), d, {})
  <2>1. tool \in DescribingTasks => Clean(Move(tool, d, a, g), d, {})
    BY DescribersAside DEF Move, DescribingTasks
  <2>2. tool \in DescribingOthers => Clean(Move(tool, d, a, g), d, {})
    BY DescribersAside DEF Move, DescribingOthers
  <2> QED
    BY <2>1, <2>2 DEF Describing
<1> QED
  BY <1>1, <1>2, <1>3

\* Every other tool
LEMMA RestMove ==
    ASSUME NEW tool, NEW d, Framed(d), NEW a, Fit(tool, a), NEW g, Heard(g),
           tool \notin Payers \cup Followers \cup Batchers \cup Others
    PROVE  Clean(Move(tool, d, a, g), d, {})
<1>1. CASE tool \in Readers \cup Bystanders \cup Describing
  BY <1>1, ReadersMove
<1>2. CASE tool \in {"import_taskpaper", "import_opml"}
  <2>1. a.text = <<>>
    BY <1>2 DEF Fit
  <2>2. import_taskpaper(d, a, g) = Fail("Validation") /\ import_opml(d, a, g) = Fail("Validation")
    BY <2>1 DEF import_taskpaper, import_opml
  <2>3. Move(tool, d, a, g) = Fail("Validation")
    BY <1>2, <2>2, ZenonT(30) DEF Move
  <2> QED
    BY <2>3, CleanSteps
<1>3. CASE tool \notin Readers \cup Bystanders \cup Describing \cup {"import_taskpaper", "import_opml"}
  <2>1. Move(tool, d, a, g) = Fail("Validation")
    BY <1>3, ZenonT(30) DEF Move, Readers, Bystanders, Describing, DescribingTasks, DescribingOthers, Payers,
       TaskPayers,
                NotePayers, LibraryPayers, Followers, TaskFollowers, FolderFollowers, LibraryFollowers,
                Batchers, IdBatches, ItemBatches, Others
  <2> QED
    BY <2>1, CleanSteps
<1> QED
  BY <1>1, <1>2, <1>3

\* The tools that are left
LEMMA RestAffect ==
    \A tool : tool \notin Payers \cup Followers \cup Batchers \cup Others => Affects(tool) = {}
BY DEF Affects, Payers, Followers, Batchers, ProjectBatches, IdBatches

-----------------------------------------------------------------------------
\* Only two tools ask the caller to choose.

\* A describing tool tells.
LEMMA DescribersTell ==
    ASSUME NEW tool \in Describing, NEW d, NEW a, NEW g
    PROVE  Move(tool, d, a, g).kind # "clarify"
<1>1. \A those : Described(d, g, those).kind # "clarify"
  BY DEF Described, LookUp, Ask, Try, Cached, Reply, Same, Fail, Preview
<1>2. /\ task_create_describe(d, a, g).kind # "clarify"
      /\ task_complete_describe(d, a, g).kind # "clarify"
      /\ task_drop_describe(d, a, g).kind # "clarify"
      /\ task_delete_describe(d, a, g).kind # "clarify"
      /\ task_move_describe(d, a, g).kind # "clarify"
      /\ task_update_describe(d, a, g).kind # "clarify"
      /\ task_batch_create_describe(d, a, g).kind # "clarify"
      /\ task_batch_update_describe(d, a, g).kind # "clarify"
  BY <1>1
     DEF task_create_describe, task_complete_describe, task_drop_describe, task_delete_describe,
         task_move_describe, task_update_describe, task_batch_create_describe,
         task_batch_update_describe
<1>3. /\ project_create_describe(d, a, g).kind # "clarify"
      /\ project_complete_describe(d, a, g).kind # "clarify"
      /\ project_drop_describe(d, a, g).kind # "clarify"
      /\ project_delete_describe(d, a, g).kind # "clarify"
      /\ project_update_describe(d, a, g).kind # "clarify"
      /\ project_move_describe(d, a, g).kind # "clarify"
      /\ tag_create_describe(d, a, g).kind # "clarify"
      /\ tag_update_describe(d, a, g).kind # "clarify"
      /\ tag_delete_describe(d, a, g).kind # "clarify"
      /\ tag_move_describe(d, a, g).kind # "clarify"
      /\ folder_create_describe(d, a, g).kind # "clarify"
      /\ folder_update_describe(d, a, g).kind # "clarify"
      /\ folder_delete_describe(d, a, g).kind # "clarify"
      /\ folder_move_describe(d, a, g).kind # "clarify"
  BY <1>1
     DEF project_create_describe, project_complete_describe, project_drop_describe,
         project_delete_describe, project_update_describe, project_move_describe,
         tag_create_describe, tag_update_describe, tag_delete_describe, tag_move_describe,
         folder_create_describe, folder_update_describe, folder_delete_describe,
         folder_move_describe
<1>4. CASE tool \in DescribingTasks
  BY <1>2, <1>4, ZenonT(30) DEF Move, DescribingTasks
<1>5. CASE tool \in DescribingOthers
  BY <1>3, <1>5, ZenonT(30) DEF Move, DescribingOthers
<1> QED
  BY <1>4, <1>5 DEF Describing

\* And so does every other than the two.
LEMMA OthersTell ==
    ASSUME NEW tool, tool \notin {"task_complete", "project_create"} \cup Describing,
           NEW d, Framed(d), NEW a, NEW g, Heard(g), Fit(tool, a), Told(tool, a, g)
    PROVE  Move(tool, d, a, g).kind # "clarify"
<1> DEFINE s == Move(tool, d, a, g)
<1>1. CASE tool \in Payers
  BY <1>1, PayersMove DEF Pays
<1>2. CASE tool \notin Payers \cup Deciding \cup Asking
  <2>1. Follows(tool, s, d, a, g)
    BY MoveFollows
  <2>2. ~Asks(tool, a, g)
    BY <1>2 DEF Asks, Asking
  <2>3. DecidesAfter(tool, a) = -1
    BY <1>2 DEF DecidesAfter, Deciding, Asking
  <2>4. Len(g) \in Nat
    BY DEF Heard
  <2>5. Works(s)
    <3> HIDE DEF s
    <3> QED
      BY <2>1, <2>2, <2>3, <2>4 DEF Follows, Turns
  <2> QED
    BY <2>5 DEF Works
<1>3. CASE tool = "task_extract_from_note"
  <2>1. s = task_extract_from_note(d, a, g)
    BY <1>3, BatchesNamed
  <2> QED
    BY <2>1 DEF task_extract_from_note, Extracted, Ask, Reply, Fail, Preview, Done, Same, Flush
<1>4. CASE tool = "task_extract_from_image"
  <2>1. s = task_extract_from_image(d, a, g)
    BY <1>4, BatchesNamed
  <2>2. /\ Given(a, "confirmed") => Listed(a.confirmed) /\ (a.attach = "parent-task" => Len(a.confirmed) # 0)
        /\ ~Given(a, "confirmed") => Len(g) <= ImageAnswers(a)
    BY <1>4 DEF Fit, Told
  <2>3. Honest(Answer(d, None))
    BY AnswerHonest
  <2>4. task_extract_from_image(d, a, g).kind \in {"ask", "reply"}
    BY <2>2, <2>3, ImageEnds
  <2> QED
    BY <2>1, <2>4
<1>5. CASE tool = "task_reclassify"
  <2>1. s = task_reclassify(d, a, g)
    BY <1>5, BatchesNamed
  <2>2. Len(g) # 0 => IsFiniteSet(Val(g, 1))
    BY <1>5 DEF Told
  <2>3. task_reclassify(d, a, g).kind \in {"ask", "reply"}
    BY <2>2, ReclassifyEnds
  <2> QED
    BY <2>1, <2>3
<1>6. CASE tool = "task_batch_defer_smart"
  <2>1. s = task_batch_defer_smart(d, a, g)
    BY <1>6, BatchesNamed
  <2>2. Honest(Answer(d, None))
    BY AnswerHonest
  <2>3. task_batch_defer_smart(d, a, g).kind \in {"try", "reply"}
    BY <2>2, DeferEnds
  <2> QED
    BY <2>1, <2>3
<1> QED
  BY <1>1, <1>2, <1>3, <1>4, <1>5, <1>6 DEF Payers, TaskPayers, NotePayers, LibraryPayers,
     Deciding, Asking

\* A handler stays with the listings of its kinds.
LEMMA MoveClean ==
    ASSUME NEW tool, NEW d, Framed(d), NEW a, Fit(tool, a), NEW g, Heard(g), Told(tool, a, g)
    PROVE  Clean(Move(tool, d, a, g), d, Affects(tool))
<1>0. Honest(Answer(d, None))
  BY AnswerHonest
<1>1. CASE tool \in Payers
  BY <1>1, PayersMove
<1>2. CASE tool \in Followers
  BY <1>0, <1>2, FollowersMove
<1>3. CASE tool \in Batchers
  BY <1>0, <1>3, BatchesMove
<1>4. ASSUME tool \in Others \ Batchers
      PROVE  Clean(Move(tool, d, a, g), d, TaskKinds)
  <2>1. CASE tool = "doComplete"
    <3>1. Clean(doComplete(d, a, g), d, TaskKinds)
      BY doCompleteSteps
    <3> QED
      BY <2>1, <3>1, BatchesNamed
  <2>2. CASE tool = "task_batch_assign"
    <3>1. Listed(a.items) /\ Len(a.items) # 0 /\ tool \in Batches
      BY <2>2 DEF Fit, Batches
    <3>2. Clean(task_batch_assign(d, a, g), d, TaskKinds)
      BY <3>1, AssignGoes
    <3> QED
      BY <2>2, <3>2, BatchesNamed
  <2>3. CASE tool = "task_reclassify"
    <3>1. Len(g) # 0 => IsFiniteSet(Val(g, 1))
      BY <2>3 DEF Told
    <3>2. Clean(task_reclassify(d, a, g), d, TaskKinds)
      BY <3>1, ReclassifyEnds
    <3> QED
      BY <2>3, <3>2, BatchesNamed
  <2>4. CASE tool = "task_batch_defer_smart"
    <3>1. Clean(task_batch_defer_smart(d, a, g), d, TaskKinds)
      BY <1>0, DeferEnds
    <3> QED
      BY <2>4, <3>1, BatchesNamed
  <2>5. CASE tool = "task_extract_from_image"
    <3>1. /\ Given(a, "confirmed") => Listed(a.confirmed) /\ (a.attach = "parent-task" => Len(a.confirmed) # 0)
          /\ ~Given(a, "confirmed") => Len(g) <= ImageAnswers(a)
      BY <2>5 DEF Fit, Told
    <3>2. Clean(task_extract_from_image(d, a, g), d, TaskKinds)
      BY <1>0, <3>1, ImageEnds
    <3> QED
      BY <2>5, <3>2, BatchesNamed
  <2> QED
    BY <1>4, <2>1, <2>2, <2>3, <2>4, <2>5 DEF Others, Batchers
<1>5. tool \in Others \ Batchers => Affects(tool) = TaskKinds
  BY DEF Affects, Batchers, Others, LibraryPayers, LibraryFollowers, FolderFollowers, ProjectBatches
<1>6. CASE tool \notin Payers \cup Followers \cup Batchers \cup Others
  <2>1. Affects(tool) = {} /\ Clean(Move(tool, d, a, g), d, {})
    BY <1>6, RestMove, RestAffect
  <2> QED
    BY <2>1
<1> QED
  BY <1>1, <1>2, <1>3, <1>4, <1>5, <1>6

\* The rows that come back of a request of task_complete
LEMMA CompletionTold ==
    ASSUME NEW d, Framed(d), NEW a, NEW g, Heard(g), Told("task_complete", a, g), NEW x, Honest(x),
           LET s == Move("task_complete", d, a, g) IN Answered(s, x) /\ s.kind \in {"ask", "try", "cached"}
    PROVE  Told("task_complete", a, Append(g, x))
<1> DEFINE s == task_complete(d, a, g)
           h == Append(g, x)
<1>1. Move("task_complete", d, a, g) = s
  BY FollowersNamed
<1>2. /\ Len(g) \in Nat /\ Len(h) = Len(g) + 1
      /\ Len(g) > 1 => h[2] = g[2]
      /\ Len(g) = 1 => h[2] = x
  BY OneMore
<1>3. CASE Len(g) = 1
  <2>1. s = NoChange \/ \E f : s = Try(listTasks(d, f))
    BY <1>3 DEF task_complete
  <2>2. s # NoChange
    BY <1>1 DEF NoChange, Reply
  <2>3. PICK f : s = Try(listTasks(d, f))
    BY <2>1, <2>2
  <2>4. s.kind = "try" /\ s.does = listTasks(d, f)
    BY <2>3 DEF Try
  <2> HIDE DEF s, h
  <2>5. x.code = "OK" => IsFiniteSet(x.val)
    BY <1>1, <2>4, ListsFinite DEF Answered
  <2>6. Told("task_complete", a, h)
    BY <1>2, <1>3, <2>5 DEF Told, Ok, Val
  <2> QED
    BY <2>6 DEF h
<1>4. CASE Len(g) # 1
  <2>1. Len(g) > 1 => (Ok(g, 2) => IsFiniteSet(Val(g, 2)))
    BY DEF Told
  <2> HIDE DEF s, h
  <2>2. Len(h) > 1 => Len(g) > 1
    BY <1>2, <1>4
  <2>3. Len(g) > 1 => Ok(h, 2) = Ok(g, 2) /\ Val(h, 2) = Val(g, 2)
    BY <1>2 DEF Ok, Val
  <2>4. Len(h) > 1 => (Ok(h, 2) => IsFiniteSet(Val(h, 2)))
    BY <2>1, <2>2, <2>3
  <2>5. Told("task_complete", a, h)
    BY <2>4 DEF Told
  <2> QED
    BY <2>5 DEF h
<1> QED
  BY <1>3, <1>4

\* After an answer the call has ended its debt, or goes on to do so.
LEMMA MoveCarries ==
    ASSUME NEW tool, NEW d, Framed(d), NEW a, Fit(tool, a), NEW g, Heard(g), Told(tool, a, g),
           NEW x, Honest(x), NEW e, Framed(e),
           LET s == Move(tool, d, a, g) IN Answered(s, x) /\ s.kind \in {"ask", "try", "cached"}
    PROVE  /\ Told(tool, a, Append(g, x))
           /\ \/ Affects(tool) = {}
              \/ Carries(tool, Move(tool, d, a, g), d, MayOwe(tool, a, g), Move(tool, e, a, Append(g, x)),
                         MayOwe(tool, a, Append(g, x)))
<1> DEFINE s == Move(tool, d, a, g)
           h == Append(g, x)
           n == Move(tool, e, a, h)
           Fine == Told(tool, a, h) /\ Carries(tool, s, d, MayOwe(tool, a, g), n, MayOwe(tool, a, h))
<1>0. Heard(h)
  BY HeardMore
<1>1. tool \notin {"task_complete", "task_reclassify", "task_extract_from_image"} => Told(tool, a, h)
  BY DEF Told
<1>2. ASSUME tool \in Payers
      PROVE  Fine
  <2>1. Told(tool, a, h)
    BY <1>1, <1>2 DEF Payers, TaskPayers, NotePayers, LibraryPayers
  <2>2. Carries(tool, s, d, MayOwe(tool, a, g), n, MayOwe(tool, a, h))
    BY <1>0, <1>2, PayersCarry
  <2> QED
    BY <2>1, <2>2
<1>3. ASSUME tool \in Followers \cup Batchers
      PROVE  ~MayOwe(tool, a, g)
  BY <1>3 DEF MayOwe, Payers, TaskPayers, NotePayers, LibraryPayers, Followers, TaskFollowers,
     FolderFollowers,
              LibraryFollowers, Batchers, IdBatches, ItemBatches
<1>4. ASSUME tool \in Followers
      PROVE  Fine
  <2>1. Told(tool, a, h)
    <3>1. CASE tool = "task_complete"
      BY <3>1, CompletionTold
    <3>2. CASE tool # "task_complete"
      BY <1>1, <1>4, <3>2 DEF Followers, TaskFollowers, FolderFollowers, LibraryFollowers
    <3> QED
      BY <3>1, <3>2
  <2>2. FollowedUp(s, d, n)
    BY <1>4, FollowersMove
  <2>3. Carries(tool, s, d, FALSE, n, MayOwe(tool, a, h))
    BY <2>2, FollowedCarries
  <2> HIDE DEF s, n, h
  <2>4. Carries(tool, s, d, MayOwe(tool, a, g), n, MayOwe(tool, a, h))
    BY <1>3, <1>4, <2>3 DEF Carries
  <2> QED
    BY <2>1, <2>4
<1>5. ASSUME tool \in Batchers
      PROVE  Fine
  <2>1. Told(tool, a, h)
    BY <1>1, <1>5 DEF Batchers, IdBatches, ItemBatches
  <2>2. SettledBy(tool, s, d, x, n)
    BY <1>5, BatchesMove
  <2>3. Carries(tool, s, d, FALSE, n, MayOwe(tool, a, h))
    BY <2>2, SettledCarries
  <2> HIDE DEF s, n, h
  <2>4. Carries(tool, s, d, MayOwe(tool, a, g), n, MayOwe(tool, a, h))
    BY <1>3, <1>5, <2>3 DEF Carries
  <2> QED
    BY <2>1, <2>4
<1>6. ASSUME tool \in Others \ Batchers
      PROVE  Fine
  <2>1. CASE tool = "doComplete"
    BY <1>1, <2>1, CompletionGoesOn
  <2>2. CASE tool = "task_batch_assign"
    BY <1>1, <2>2, AssignmentGoesOn
  <2>3. CASE tool = "task_reclassify"
    BY <2>3, ReclassifyingGoesOn
  <2>4. CASE tool = "task_batch_defer_smart"
    BY <1>1, <2>4, DeferringGoesOn
  <2>5. CASE tool = "task_extract_from_image"
    BY <2>5, ImageGoesOn
  <2> QED
    BY <1>6, <2>1, <2>2, <2>3, <2>4, <2>5 DEF Others, Batchers
<1>7. ASSUME tool \notin Payers \cup Followers \cup Batchers \cup Others
      PROVE  Told(tool, a, h) /\ Affects(tool) = {}
  <2>1. Affects(tool) = {}
    BY <1>7, RestAffect
  <2>2. Told(tool, a, h)
    BY <1>1, <1>7 DEF Followers, TaskFollowers, Others
  <2> QED
    BY <2>1, <2>2
<1>8. Fine \/ (Told(tool, a, h) /\ Affects(tool) = {})
  <2> HIDE DEF Fine, h
  <2> QED
    BY <1>2, <1>4, <1>5, <1>6, <1>7
<1> QED
  BY <1>8

\* The calls behind the choices of a clarification come with what their
\* handlers need.
LEMMA ChoicesFit ==
    ASSUME NEW tool, NEW d, Framed(d), NEW a, Fit(tool, a), NEW g, Heard(g), Told(tool, a, g),
           Move(tool, d, a, g).kind = "clarify"
    PROVE  \A i \in DOMAIN Move(tool, d, a, g).choices :
               LET c == Move(tool, d, a, g).choices[i] IN Fit(c.tool, c.args)
<1> DEFINE s == Move(tool, d, a, g)
<1>1. tool \in {"task_complete", "project_create"}
  BY OthersTell, DescribersTell
<1>2. ASSUME tool = "task_complete"
      PROVE  \E c, b : s.choices = <<[tool |-> "doComplete", args |-> c], [tool |-> "doComplete", args |-> b]>>
                       /\ Len(c.children) \in Nat /\ Len(b.children) \in Nat
  <2> DEFINE alone == [id |-> a.id, row |-> Val(g, 1), children |-> <<>>]
             ids == {y.id : y \in Val(g, 2)}
             all == [alone EXCEPT !.children = SetToSeq(ids)]
  <2>1. s = task_complete(d, a, g)
    BY <1>2, FollowersNamed
  <2>2. \A k, c : doComplete(d, c, k).kind # "clarify"
    BY DEF doComplete, Try, Ask, Done, Same, Reply, Flush
  <2>3. /\ Len(g) \notin {0, 1} /\ Ok(g, 2) /\ Val(g, 2) # {}
        /\ s = Clarify(<<[tool |-> "doComplete", args |-> all], [tool |-> "doComplete", args |-> alone]>>)
    BY <2>1, <2>2 DEF task_complete, Ask, Try, NoChange, Reply
  <2>4. Len(g) > 1
    <3>1. Len(g) \in Nat
      BY DEF Heard
    <3>2. Len(g) # 0 /\ Len(g) # 1
      BY <2>3
    <3>3. \A k \in Nat : k # 0 /\ k # 1 => k > 1
      OBVIOUS
    <3> QED
      BY <3>1, <3>2, <3>3
  <2>5. IsFiniteSet(ids)
    <3>1. IsFiniteSet(Val(g, 2))
      BY <1>2, <2>3, <2>4 DEF Told
    <3> DEFINE f == [y \in Val(g, 2) |-> y.id]
    <3>2. ids \subseteq {f[y] : y \in Val(g, 2)}
      OBVIOUS
    <3> HIDE DEF f, ids
    <3> QED
      BY <3>1, <3>2, ImagesFinite
  <2>6. Len(SetToSeq(ids)) \in Nat
    <3> HIDE DEF ids
    <3> QED
      BY <2>5, SequencesOfSets DEF Listed
  <2>7. Len(all.children) \in Nat /\ Len(alone.children) \in Nat
    BY <2>6
  <2>8. s.choices = <<[tool |-> "doComplete", args |-> all], [tool |-> "doComplete", args |-> alone]>>
    BY <2>3 DEF Clarify
  <2> HIDE DEF all, alone, s
  <2> QED
    BY <2>7, <2>8
<1>3. \A c : Len(c.children) \in Nat => Fit("doComplete", c)
  BY DEF Fit, IdBatches, ItemBatches
<1>4. ASSUME tool = "project_create"
      PROVE  \E c, b : s.choices = <<[tool |-> "keepProject", args |-> c], [tool |-> "doCreate", args |-> b]>>
  <2>1. s = project_create(d, a, g)
    BY <1>4, FollowersNamed
  <2>2. \A k : doCreate(d, a, k).kind # "clarify"
    BY DEF doCreate, Ask, Done, Same, Reply, Flush
  <2> DEFINE keep == [id |-> OneOf(Taken(a, Val(g, 1)))]
  <2>3. s = Clarify(<<[tool |-> "keepProject", args |-> keep], [tool |-> "doCreate", args |-> a]>>)
    BY <2>1, <2>2 DEF project_create, Try
  <2> HIDE DEF keep, s
  <2>4. s.choices = <<[tool |-> "keepProject", args |-> keep], [tool |-> "doCreate", args |-> a]>>
    BY <2>3 DEF Clarify
  <2> QED
    BY <2>4
<1>5. \A c : Fit("keepProject", c) /\ Fit("doCreate", c)
  BY DEF Fit, IdBatches, ItemBatches
<1> HIDE DEF s
<1>6. \A i \in DOMAIN s.choices : Fit(s.choices[i].tool, s.choices[i].args)
  <2>1. CASE tool = "task_complete"
    <3>1. PICK c, b : s.choices = <<[tool |-> "doComplete", args |-> c], [tool |-> "doComplete", args |-> b]>>
                      /\ Len(c.children) \in Nat /\ Len(b.children) \in Nat
      BY <1>2, <2>1
    <3> QED
      BY <1>3, <3>1
  <2>2. CASE tool = "project_create"
    <3>1. PICK c, b : s.choices = <<[tool |-> "keepProject", args |-> c], [tool |-> "doCreate", args |-> b]>>
      BY <1>4, <2>2
    <3> QED
      BY <1>5, <3>1
  <2> QED
    BY <1>1, <2>1, <2>2
<1> QED
  BY <1>6 DEF s

\* A call that can still invalidate what it wrote
CallSettles(c) ==
    /\ c.owes \in BOOLEAN
    /\ Waiting(c) => /\ Fit(c.tool, c.args) /\ Told(c.tool, c.args, c.got)
                     /\ c.owes => Affects(c.tool) = {} \/ MayOwe(c.tool, c.args, c.got)

\* The call c owes the invalidation of the listing k.
Owing(c, k) == Waiting(c) /\ c.owes /\ k[1] \in Affects(c.tool)

\* The cache f has for k what the document has.
Serves(f, d, k) == f[k] = Factory(d, k).val

\* No other listings than those of the kinds of A differ.
Keeps(A, e, d) == \A k : ListingKey(k) /\ k[1] \notin A => Factory(e, k).val = Factory(d, k).val
\* The cache f has known keys; the scopes T, if any, cover the listings of A.
Keyed(f) == \A k \in DOMAIN f : KeyOK(k)
Drops(T, A) == T # {} => Hides(T, A)

\* The invariant behind ListingsSettle: unless a call has failed with something
\* not yet invalidated, every listing in the cache is what OmniFocus would
\* answer, or a call on its way owes its invalidation; and a call that owes
\* one is at a step of its tool from where it comes to it (MayOwe).
SettleInv ==
    /\ Framed(doc)
    /\ \A p \in Callers : CallSettles(calls[p])
    /\ \A i \in DOMAIN pending : Fit(pending[i].tool, pending[i].args)
    /\ Keyed(cache)
    /\ unsettled \in BOOLEAN
    /\ \/ unsettled = TRUE
       \/ \A k \in DOMAIN cache : Listing(k) => Serves(cache, doc, k) \/ \E p \in Callers : Owing(calls[p], k)

\* None is not an answer.
NoReply == \A code, val : [code |-> code, val |-> val] # None

\* When nobody owes anything all listings are right.
LEMMA SettleInvSettles == SettleInv => ListingsSettle
BY DEF SettleInv, ListingsSettle, Owing, Serves

\* What is still cached after an invalidation.
LEMMA Evicted ==
    ASSUME NEW f, NEW S
    PROVE  \A k \in DOMAIN Evict(f, S) : k \in DOMAIN f /\ Evict(f, S)[k] = f[k] /\ \A s \in S : ~Covers(s, k)
BY DEF Evict, Restrict

\* A listing after the request of a call: as it was, or the call (or another)
\* owes its invalidation.
LEMMA ListingsMove ==
    ASSUME NEW d, NEW e, NEW A, Keeps(A, e, d),
           NEW f, Keyed(f),
           NEW T, Drops(T, A),
           NEW k \in DOMAIN Evict(f, T), Listing(k), Serves(f, d, k)
    PROVE  Serves(Evict(f, T), e, k) \/ (T = {} /\ e # d /\ k[1] \in A)
<1>1. /\ k \in DOMAIN f /\ Evict(f, T)[k] = f[k]
      /\ \A s \in T : ~Covers(s, k)
  BY Evicted
<1>2. ListingKey(k)
  BY <1>1 DEF KeyOK, Keyed
<1>3. T # {} => k[1] \notin A
  BY <1>1, <1>2 DEF Hides, Drops
<1>4. CASE k[1] \notin A
  BY <1>1, <1>2, <1>4 DEF Serves, Keeps
<1>5. CASE k[1] \in A /\ e = d
  BY <1>1, <1>5 DEF Serves
<1> QED
  BY <1>3, <1>4, <1>5

\* A listing that a call owes the invalidation of is gone, or still owed.
LEMMA OwedMove ==
    ASSUME NEW A, NEW f, Keyed(f), NEW T, Drops(T, A),
           NEW k \in DOMAIN Evict(f, T), Listing(k), k[1] \in A
    PROVE  T = {}
<1>1. /\ k \in DOMAIN f
      /\ \A s \in T : ~Covers(s, k)
  BY Evicted
<1>2. ListingKey(k)
  BY <1>1 DEF KeyOK, Keyed
<1> QED
  BY <1>1, <1>2 DEF Hides, Drops

\* What there is of the cache when a request is answered
LEMMA CacheMoves ==
    ASSUME NEW d, NEW e, NEW A, Keeps(A, e, d),
           NEW f, Keyed(f),
           NEW T, Drops(T, A),
           NEW p \in Callers, Waiting(calls[p]), Affects(calls[p].tool) = A, calls[p].owes \in BOOLEAN,
           \A k \in DOMAIN f : Listing(k) => Serves(f, d, k) \/ \E q \in Callers : Owing(calls[q], k)
    PROVE  \A k \in DOMAIN Evict(f, T) : Listing(k) =>
               \/ Serves(Evict(f, T), e, k)
               \/ \E q \in Callers \ {p} : Owing(calls[q], k)
               \/ T = {} /\ (calls[p].owes \/ e # d) /\ k[1] \in A
<1> SUFFICES ASSUME NEW k \in DOMAIN Evict(f, T), Listing(k)
             PROVE  \/ Serves(Evict(f, T), e, k)
                    \/ \E q \in Callers \ {p} : Owing(calls[q], k)
                    \/ T = {} /\ (calls[p].owes \/ e # d) /\ k[1] \in A
  OBVIOUS
<1>1. k \in DOMAIN f
  BY Evicted
<1>2. CASE Serves(f, d, k)
  BY <1>2, ListingsMove
<1>3. ASSUME NEW q \in Callers, Owing(calls[q], k), q # p
      PROVE  \E j \in Callers \ {p} : Owing(calls[j], k)
  BY <1>3
<1>4. CASE Owing(calls[p], k)
  <2>1. calls[p].owes /\ k[1] \in A
    BY <1>4 DEF Owing
  <2>2. T = {}
    BY <2>1, OwedMove
  <2> QED
    BY <2>1, <2>2
<1> QED
  BY <1>1, <1>2, <1>3, <1>4

\* Nothing invalidated.
LEMMA EvictNothing ==
    \A f : DOMAIN Evict(f, {}) = DOMAIN f /\ \A k \in DOMAIN f : Evict(f, {})[k] = f[k]
BY DEF Evict, Restrict

\* No new keys come of it.
LEMMA EvictKeeps == \A f, S : Keyed(f) => Keyed(Evict(f, S))
BY Evicted DEF Keyed

\* The listings of the cache f, the document d, the call p now z
Current(f, d, p, z) ==
    \A k \in DOMAIN f : Listing(k) =>
        Serves(f, d, k) \/ (\E q \in Callers \ {p} : Owing(calls[q], k)) \/ Owing(z, k)

\* One call has moved, and the invariant with it.
LEMMA OneCallSettles ==
    ASSUME ToolsInv, SettleInv, NEW p \in Callers, NEW z, calls' = [calls EXCEPT ![p] = z],
           Framed(doc'), CallSettles(z), \A i \in DOMAIN pending' : Fit(pending'[i].tool, pending'[i].args),
           Keyed(cache'), unsettled' \in BOOLEAN, unsettled' = TRUE \/ Current(cache', doc', p, z)
    PROVE  SettleInv'
<1>1. DOMAIN calls = Callers
  BY DEF ToolsInv
<1>2. calls'[p] = z /\ \A q \in Callers \ {p} : calls'[q] = calls[q]
  BY <1>1
<1>3. \A q \in Callers : CallSettles(calls'[q])
  BY <1>2 DEF SettleInv
<1>4. ASSUME Current(cache', doc', p, z), NEW k \in DOMAIN cache', Listing(k)
      PROVE  Serves(cache', doc', k) \/ \E q \in Callers : Owing(calls'[q], k)
  <2>1. \/ Serves(cache', doc', k)
        \/ \E q \in Callers \ {p} : Owing(calls[q], k)
        \/ Owing(z, k)
    BY <1>4 DEF Current
  <2>2. ASSUME NEW q \in Callers \ {p}, Owing(calls[q], k) PROVE \E j \in Callers : Owing(calls'[j], k)
    <3>1. Owing(calls'[q], k)
      BY <1>2, <2>2
    <3> QED
      BY <3>1
  <2>3. ASSUME Owing(z, k) PROVE \E j \in Callers : Owing(calls'[j], k)
    <3>1. Owing(calls'[p], k)
      BY <1>2, <2>3
    <3> QED
      BY <3>1
  <2> QED
    BY <2>1, <2>2, <2>3
<1> QED
  BY <1>3, <1>4 DEF SettleInv

\* The call c after its answer, invalidating T before the next step
LEMMA CurrentAfter ==
    ASSUME NEW d, NEW e, NEW p \in Callers, Waiting(calls[p]), calls[p].owes \in BOOLEAN,
           Keeps(Affects(calls[p].tool), e, d), NEW f, Keyed(f), NEW T, Drops(T, Affects(calls[p].tool)),
           \A k \in DOMAIN f : Listing(k) => Serves(f, d, k) \/ \E q \in Callers : Owing(calls[q], k),
           NEW z,
           T = {} /\ (calls[p].owes \/ e # d) /\ Affects(calls[p].tool) # {} =>
               Waiting(z) /\ z.owes /\ z.tool = calls[p].tool
    PROVE  Current(Evict(f, T), e, p, z)
<1> DEFINE A == Affects(calls[p].tool)
<1>1. \A k \in DOMAIN Evict(f, T) : Listing(k) =>
               \/ Serves(Evict(f, T), e, k)
               \/ \E q \in Callers \ {p} : Owing(calls[q], k)
               \/ T = {} /\ (calls[p].owes \/ e # d) /\ k[1] \in A
  BY CacheMoves
<1>2. ASSUME NEW k, T = {} /\ (calls[p].owes \/ e # d) /\ k[1] \in A
      PROVE  Owing(z, k)
  BY <1>2 DEF Owing
<1> QED
  BY <1>1, <1>2 DEF Current

\* What the request of call p comes back with
Comes(p, must, r, f) ==
    LET c == calls[p]
        s == Move(c.tool, doc, c.args, c.got)
    IN /\ Waiting(c) /\ Honest(r) /\ Framed(r.doc) /\ Keeps(Affects(c.tool), r.doc, doc)
       /\ s.kind \in {"ask", "try", "cached"}
       /\ (must /\ r.code # "OK") \/ Answered(s, [code |-> r.code, val |-> r.val])
       /\ r.doc # doc => s.kind \in {"ask", "try"} /\ s.does.doc # doc
       /\ Keyed(f)
       /\ \/ unsettled = TRUE
          \/ \A k \in DOMAIN f : Listing(k) => Serves(f, doc, k) \/ \E q \in Callers : Owing(calls[q], k)

\* The call that has the answer
Holding(c, r) ==
    [c EXCEPT !.got = Append(@, [code |-> r.code, val |-> r.val]), !.wrote = @ \/ r.doc # doc,
              !.owes = @ \/ r.doc # doc]

\* It is the call, with what it was answered.
LEMMA HoldingIs ==
    ASSUME NEW c, CallOK(c), c.owes \in BOOLEAN, c.reply = None, NEW r
    PROVE  /\ Holding(c, r).tool = c.tool /\ Holding(c, r).args = c.args
           /\ Holding(c, r).got = Append(c.got, [code |-> r.code, val |-> r.val])
           /\ Holding(c, r).owes \in BOOLEAN
           /\ Holding(c, r).owes = TRUE <=> (c.owes = TRUE \/ r.doc # doc)
           /\ Holding(c, r).reply = None
           /\ DOMAIN Holding(c, r) = DOMAIN c
BY DEF CallOK, Holding

\* The request fails, and the call with it.
LEMMA FailureSettles ==
    ASSUME ToolsInv, SettleInv, NoReply, NEW p \in Callers, NEW must, NEW r, NEW f, Comes(p, must, r, f),
           doc' = r.doc, r.code # "OK", cache' = f, UNCHANGED pending,
           Settle(p, Holding(calls[p], r), [code |-> r.code, val |-> None])
    PROVE  SettleInv'
<1> DEFINE c == Holding(calls[p], r)
           R == [code |-> r.code, val |-> None]
           z == [c EXCEPT !.reply = R]
           A == Affects(calls[p].tool)
<1>1. /\ Waiting(calls[p]) /\ calls[p].reply = None /\ Framed(doc') /\ Keeps(A, doc', doc) /\ Keyed(f)
      /\ \/ unsettled = TRUE
         \/ \A k \in DOMAIN f : Listing(k) => Serves(f, doc, k) \/ \E q \in Callers : Owing(calls[q], k)
  BY DEF Comes, Waiting
<1>2. CallOK(calls[p]) /\ calls[p].owes \in BOOLEAN
  BY DEF ToolsInv, SettleInv, CallSettles
<1>3. /\ c.owes \in BOOLEAN /\ DOMAIN c = DOMAIN calls[p]
      /\ c.owes = TRUE <=> (calls[p].owes = TRUE \/ doc' # doc)
  BY <1>1, <1>2, HoldingIs
<1>4. calls' = [calls EXCEPT ![p] = z] /\ unsettled' = (unsettled \/ (c.owes /\ FellShort(c.tool, R)))
  BY DEF Settle
<1>5. FellShort(c.tool, R)
  BY DEF FellShort
<1> HIDE DEF c
<1>6. z.reply = R /\ z.owes = c.owes
  BY <1>2, <1>3 DEF CallOK
<1>7. ~Waiting(z)
  BY <1>6 DEF Waiting, NoReply
<1>8. CallSettles(z)
  BY <1>3, <1>6, <1>7 DEF CallSettles
<1> HIDE DEF z, R
<1>9. unsettled' \in BOOLEAN /\ (unsettled = TRUE \/ c.owes = TRUE => unsettled' = TRUE)
  BY <1>3, <1>4, <1>5 DEF SettleInv
<1>10. ASSUME unsettled' # TRUE PROVE Current(cache', doc', p, z)
  <2>1. unsettled # TRUE /\ c.owes # TRUE
    BY <1>9, <1>10
  <2>2. ~(calls[p].owes \/ doc' # doc)
    BY <1>2, <1>3, <2>1
  <2>3. Drops({}, A)
    BY DEF Drops
  <2>4. \A k \in DOMAIN f : Listing(k) => Serves(f, doc, k) \/ \E q \in Callers : Owing(calls[q], k)
    BY <1>1, <2>1
  <2>5. Current(Evict(f, {}), doc', p, z)
    BY <1>1, <1>2, <2>2, <2>3, <2>4, CurrentAfter
  <2> QED
    BY <2>5, EvictNothing DEF Current, Serves
<1>11. Keyed(cache') /\ \A i \in DOMAIN pending' : Fit(pending'[i].tool, pending'[i].args)
  BY <1>1 DEF SettleInv
<1> QED
  BY <1>1, <1>4, <1>8, <1>9, <1>10, <1>11, OneCallSettles

\* The step after an answer, of the tool, the arguments and the answers of c
Proceeds(c) == Move(c.tool, doc', c.args, c.got)
\* The call on its way to it, paid if the step invalidates
GoesOn(c) == [c EXCEPT !.owes = @ /\ Proceeds(c).drop = {}]

\* What c is, the call b with one answer more
Hearing(b, c) ==
    /\ c.tool = b.tool /\ c.reply = None /\ c.owes \in BOOLEAN
    /\ c.owes = TRUE <=> (b.owes = TRUE \/ doc' # doc)
    /\ DOMAIN c = {"tool", "args", "got", "wrote", "owes", "alone", "reply"}
    /\ Heard(c.got) /\ Fit(c.tool, c.args) /\ Told(c.tool, c.args, c.got)
    /\ Clean(Proceeds(c), doc', Affects(b.tool))
    /\ c.owes = TRUE =>
          \/ Affects(b.tool) = {} \/ Ends(c.tool, Proceeds(c))
          \/ MayOwe(c.tool, c.args, c.got) /\ Proceeds(c).kind # "reply"

\* What the call knows once it has the answer
LEMMA AnswerHeard ==
    ASSUME ToolsInv, SettleInv, NEW p \in Callers, NEW must, NEW r, NEW f, Comes(p, must, r, f),
           doc' = r.doc, ~(must /\ r.code # "OK"),
           NEW c, c = Holding(calls[p], r)
    PROVE  Hearing(calls[p], c)
<1> DEFINE b == calls[p]
           A == Affects(b.tool)
           s == Move(b.tool, doc, b.args, b.got)
           x == [code |-> r.code, val |-> r.val]
           h == Append(b.got, x)
           n == Proceeds(c)
<1>1. /\ Waiting(b) /\ b.reply = None /\ Framed(doc) /\ Framed(doc') /\ Honest(r)
      /\ s.kind \in {"ask", "try", "cached"} /\ Answered(s, x)
      /\ doc' # doc => s.kind \in {"ask", "try"} /\ s.does.doc # doc
  BY DEF Comes, Waiting, SettleInv
<1>2. CallOK(b) /\ b.owes \in BOOLEAN /\ CallSettles(b)
  BY DEF ToolsInv, SettleInv, CallSettles
<1>3. /\ Heard(b.got) /\ Fit(b.tool, b.args) /\ Told(b.tool, b.args, b.got)
      /\ b.owes = TRUE => A = {} \/ MayOwe(b.tool, b.args, b.got)
  BY <1>1, <1>2 DEF CallOK, CallSettles
<1>4. Honest(x)
  BY <1>1 DEF Honest
<1>5. /\ c.tool = b.tool /\ c.args = b.args /\ c.got = h
      /\ c.owes \in BOOLEAN /\ c.reply = None /\ DOMAIN c = DOMAIN b
      /\ c.owes = TRUE <=> (b.owes = TRUE \/ doc' # doc)
  <2> HIDE DEF b
  <2>1. /\ Holding(b, r).tool = b.tool /\ Holding(b, r).args = b.args
        /\ Holding(b, r).got = Append(b.got, [code |-> r.code, val |-> r.val])
        /\ Holding(b, r).owes \in BOOLEAN
        /\ Holding(b, r).owes = TRUE <=> (b.owes = TRUE \/ r.doc # doc)
        /\ Holding(b, r).reply = None
        /\ DOMAIN Holding(b, r) = DOMAIN b
    BY <1>1, <1>2, HoldingIs
  <2>2. c = Holding(b, r)
    BY DEF b
  <2> QED
    BY <2>1, <2>2
<1>6. n = Move(b.tool, doc', b.args, h)
  BY <1>5 DEF Proceeds
<1>7. Heard(h)
  BY <1>3, <1>4, HeardMore
<1> DEFINE e == doc'
<1> HIDE DEF x, e
<1>8. /\ Told(b.tool, b.args, h)
      /\ \/ A = {}
         \/ Carries(b.tool, s, doc, MayOwe(b.tool, b.args, b.got), Move(b.tool, e, b.args, h),
                    MayOwe(b.tool, b.args, h))
  <2>1. Framed(e)
    BY <1>1 DEF e
  <2> QED
    BY <1>1, <1>3, <1>4, <2>1, MoveCarries
<1>9. Clean(Move(b.tool, e, b.args, h), e, A)
  <2>1. Framed(e)
    BY <1>1 DEF e
  <2> QED
    BY <1>3, <1>7, <1>8, <2>1, MoveClean
<1>10. ASSUME c.owes = TRUE
       PROVE  A = {} \/ Ends(b.tool, n) \/ (MayOwe(b.tool, b.args, h) /\ n.kind # "reply")
  <2>1. A = {} \/ MayOwe(b.tool, b.args, b.got) \/ (s.kind \in {"ask", "try"} /\ s.does.doc # doc)
    BY <1>1, <1>3, <1>5, <1>10
  <2> QED
    BY <1>6, <1>8, <2>1 DEF Carries, e
<1>11. DOMAIN c = {"tool", "args", "got", "wrote", "owes", "alone", "reply"}
  BY <1>2, <1>5 DEF CallOK
<1>12. Clean(n, doc', A)
  BY <1>6, <1>9 DEF e
<1> HIDE DEF n, h, s, A
<1> QED
  BY <1>3, <1>5, <1>7, <1>8, <1>10, <1>11, <1>12 DEF A, n, Hearing

\* It is the call, but for what it owes.
GoesOnFrom(c) ==
    /\ GoesOn(c).tool = c.tool /\ GoesOn(c).args = c.args /\ GoesOn(c).got = c.got
    /\ GoesOn(c).reply = c.reply
    /\ GoesOn(c).owes \in BOOLEAN
    /\ GoesOn(c).owes = TRUE <=> (c.owes = TRUE /\ Proceeds(c).drop = {})
    /\ \A R : /\ [GoesOn(c) EXCEPT !.reply = R].reply = R
             /\ [GoesOn(c) EXCEPT !.reply = R].owes = GoesOn(c).owes

\* So it is.
LEMMA GoesIs ==
    ASSUME NEW b, NEW c, Hearing(b, c)
    PROVE  GoesOnFrom(c)
BY DEF GoesOn, GoesOnFrom, Hearing

\* What is cached after the call went on to be z
LEMMA CurrentGoes ==
    ASSUME ToolsInv, SettleInv, NEW p \in Callers, NEW must, NEW r, NEW f, Comes(p, must, r, f),
           doc' = r.doc, NEW c, Hearing(calls[p], c), unsettled # TRUE,
           NEW z,
           Proceeds(c).drop = {} /\ c.owes = TRUE /\ Affects(calls[p].tool) # {} =>
               Waiting(z) /\ z.owes = TRUE /\ z.tool = c.tool
    PROVE  Current(Evict(f, Proceeds(c).drop), doc', p, z)
<1> DEFINE T == Proceeds(c).drop
           A == Affects(calls[p].tool)
           e == doc'
<1>1. /\ Waiting(calls[p]) /\ Keeps(A, e, doc) /\ Keyed(f)
      /\ \A k \in DOMAIN f : Listing(k) => Serves(f, doc, k) \/ \E q \in Callers : Owing(calls[q], k)
  BY DEF Comes
<1>2. calls[p].owes \in BOOLEAN
  BY DEF SettleInv, CallSettles
<1>3. Drops(T, A)
  BY DEF Hearing, Clean, Drops
<1>4. T = {} /\ (calls[p].owes \/ e # doc) /\ A # {} => Waiting(z) /\ z.owes /\ z.tool = calls[p].tool
  <2>1. calls[p].owes \/ e # doc => c.owes = TRUE
    BY <1>2 DEF Hearing
  <2>2. c.tool = calls[p].tool
    BY DEF Hearing
  <2> QED
    BY <2>1, <2>2
<1> HIDE DEF T, e
<1>5. Current(Evict(f, T), e, p, z)
  BY <1>1, <1>2, <1>3, <1>4, CurrentAfter
<1> QED
  BY <1>5 DEF T, e

\* The call goes on to another request.
LEMMA GoingOnSettles ==
    ASSUME ToolsInv, SettleInv, NEW p \in Callers, NEW must, NEW r, NEW f, Comes(p, must, r, f),
           doc' = r.doc, NEW c, Hearing(calls[p], c), Proceeds(c).kind \in {"ask", "try", "cached"},
           cache' = Evict(f, Proceeds(c).drop), calls' = [calls EXCEPT ![p] = GoesOn(c)],
           UNCHANGED <<pending, unsettled>>
    PROVE  SettleInv'
<1> DEFINE n == Proceeds(c)
           z == GoesOn(c)
           A == Affects(calls[p].tool)
<1>0. /\ c.owes \in BOOLEAN /\ DOMAIN c = {"tool", "args", "got", "wrote", "owes", "alone", "reply"}
      /\ c.tool = calls[p].tool /\ c.reply = None
  BY DEF Hearing
<1>1. /\ z.tool = c.tool /\ z.args = c.args /\ z.got = c.got /\ z.reply = None
      /\ z.owes \in BOOLEAN /\ (z.owes = TRUE <=> (c.owes = TRUE /\ n.drop = {}))
  <2>1. GoesOnFrom(c)
    BY GoesIs
  <2> QED
    BY <1>0, <2>1 DEF GoesOnFrom
<1>2. Waiting(calls[p]) /\ Framed(doc') /\ Keyed(f)
  BY DEF Comes
<1>3. Waiting(z)
  BY <1>0, <1>1, <1>2 DEF Waiting
<1> HIDE DEF z, n
<1>4. c.owes = TRUE /\ n.drop = {} => A = {} \/ MayOwe(c.tool, c.args, c.got)
  <2>1. n.drop = {} => ~Ends(c.tool, n)
    BY DEF Ends, n
  <2> QED
    BY <2>1 DEF Hearing, n
<1>5. CallSettles(z)
  <2>1. Fit(z.tool, z.args) /\ Told(z.tool, z.args, z.got)
    BY <1>1 DEF Hearing
  <2>2. z.owes => Affects(z.tool) = {} \/ MayOwe(z.tool, z.args, z.got)
    BY <1>0, <1>1, <1>4
  <2> QED
    BY <1>1, <2>1, <2>2 DEF CallSettles
<1>6. unsettled # TRUE => Current(cache', doc', p, z)
  <2>1. Proceeds(c).drop = {} /\ c.owes = TRUE /\ Affects(calls[p].tool) # {} =>
            Waiting(z) /\ z.owes = TRUE /\ z.tool = c.tool
    BY <1>1, <1>3 DEF n
  <2> QED
    BY <2>1, CurrentGoes
<1>7. Keyed(cache')
  BY <1>2, EvictKeeps
<1>8. unsettled' \in BOOLEAN /\ \A i \in DOMAIN pending' : Fit(pending'[i].tool, pending'[i].args)
  BY DEF SettleInv
<1> QED
  BY <1>2, <1>5, <1>6, <1>7, <1>8, OneCallSettles DEF z

\* The call ends with the reply R.
LEMMA EndingSettles ==
    ASSUME ToolsInv, SettleInv, NoReply, NEW p \in Callers, NEW must, NEW r, NEW f, Comes(p, must, r, f),
           doc' = r.doc, NEW c, Hearing(calls[p], c), NEW code, NEW val,
           Settle(p, GoesOn(c), [code |-> code, val |-> val]),
           Proceeds(c).kind = "reply" \/ code = "Clarify",
           Proceeds(c).kind = "reply" => code = Proceeds(c).code /\ val = Proceeds(c).val,
           cache' = Evict(f, Proceeds(c).drop),
           \A i \in DOMAIN pending' : Fit(pending'[i].tool, pending'[i].args)
    PROVE  SettleInv'
<1> DEFINE n == Proceeds(c)
           R == [code |-> code, val |-> val]
           z == [GoesOn(c) EXCEPT !.reply = R]
           A == Affects(calls[p].tool)
<1>0. /\ c.owes \in BOOLEAN /\ DOMAIN c = {"tool", "args", "got", "wrote", "owes", "alone", "reply"}
      /\ c.tool = calls[p].tool
  BY DEF Hearing
<1>1. /\ GoesOn(c).tool = c.tool
      /\ GoesOn(c).owes \in BOOLEAN /\ (GoesOn(c).owes = TRUE <=> (c.owes = TRUE /\ n.drop = {}))
      /\ z.reply = R /\ z.owes = GoesOn(c).owes
  <2>1. GoesOnFrom(c)
    BY GoesIs
  <2> QED
    BY <1>0, <2>1 DEF GoesOnFrom
<1>2. Framed(doc') /\ Keyed(f)
  BY DEF Comes
<1>3. calls' = [calls EXCEPT ![p] = z] /\ unsettled' = (unsettled \/ (GoesOn(c).owes /\ FellShort(c.tool, R)))
  BY <1>1 DEF Settle
<1>4. ~Waiting(z)
  BY <1>1 DEF Waiting, NoReply
<1>5. CallSettles(z)
  BY <1>1, <1>4 DEF CallSettles
<1>6. ASSUME n.drop = {}, c.owes = TRUE, A # {}
      PROVE  unsettled' = TRUE
  <2>1. CASE n.kind = "reply"
    <3>1. Ends(c.tool, n)
      BY <1>6, <2>1 DEF Hearing
    <3>2. FellShort(c.tool, R)
      BY <1>6, <2>1, <3>1 DEF Ends
    <3> QED
      BY <1>1, <1>3, <1>6, <3>2
  <2>2. CASE code = "Clarify"
    <3>1. FellShort(c.tool, R)
      BY <2>2 DEF FellShort
    <3> QED
      BY <1>1, <1>3, <1>6, <3>1
  <2> QED
    BY <2>1, <2>2
<1>7. unsettled' \in BOOLEAN /\ (unsettled = TRUE => unsettled' = TRUE)
  BY <1>3 DEF SettleInv
<1> HIDE DEF z, n
<1>8. unsettled' # TRUE => Current(cache', doc', p, z)
  <2> SUFFICES ASSUME unsettled' # TRUE PROVE Current(cache', doc', p, z)
    OBVIOUS
  <2>1. ~(n.drop = {} /\ c.owes = TRUE /\ A # {}) /\ unsettled # TRUE
    BY <1>6, <1>7
  <2>2. Proceeds(c).drop = {} /\ c.owes = TRUE /\ Affects(calls[p].tool) # {} =>
            Waiting(z) /\ z.owes = TRUE /\ z.tool = c.tool
    BY <2>1 DEF n
  <2> QED
    BY <2>1, <2>2, CurrentGoes
<1>9. Keyed(cache')
  BY <1>2, EvictKeeps
<1> QED
  BY <1>2, <1>3, <1>5, <1>7, <1>8, <1>9, OneCallSettles

\* The adapter answers.
LEMMA ReceiveSettles ==
    ASSUME ToolsInv, SettleInv, NoReply, NEW p \in Callers, NEW must, NEW r, NEW f, Comes(p, must, r, f),
           Receive(p, must, r, f)
    PROVE  SettleInv'
<1> DEFINE c == Holding(calls[p], r)
<1>1. doc' = r.doc
  BY DEF Receive
<1>2. CASE must /\ r.code # "OK"
  <2>1. /\ Settle(p, c, [code |-> r.code, val |-> None]) /\ cache' = f /\ UNCHANGED pending
    BY <1>2 DEF Receive, Holding
  <2> QED
    BY <1>1, <1>2, <2>1, FailureSettles
<1>3. CASE ~(must /\ r.code # "OK")
  <2>1. Proceed(p, c, f)
    BY <1>3 DEF Receive, Holding
  <2>2. Hearing(calls[p], c)
    BY <1>1, <1>3, AnswerHeard
  <2> DEFINE n == Proceeds(c)
  <2>3. /\ cache' = Evict(f, n.drop)
        /\ \/ /\ n.kind \in {"ask", "try", "cached"}
              /\ calls' = [calls EXCEPT ![p] = GoesOn(c)] /\ UNCHANGED <<pending, unsettled>>
           \/ /\ n.kind = "reply"
              /\ Settle(p, GoesOn(c), [code |-> n.code, val |-> n.val]) /\ UNCHANGED pending
           \/ /\ n.kind = "clarify"
              /\ Settle(p, GoesOn(c), [code |-> "Clarify", val |-> Len(n.choices)]) /\ pending' = n.choices
    BY <2>1 DEF Proceed, Proceeds, GoesOn
  <2> HIDE DEF c
  <2>4. CASE n.kind \in {"ask", "try", "cached"}
    BY <1>1, <2>2, <2>3, <2>4, GoingOnSettles
  <2>5. CASE n.kind = "reply"
    <3>1. \A i \in DOMAIN pending' : Fit(pending'[i].tool, pending'[i].args)
      BY <2>3, <2>5 DEF SettleInv
    <3> QED
      BY <1>1, <2>2, <2>3, <2>5, <3>1, EndingSettles
  <2>6. CASE n.kind = "clarify"
    <3>1. \A i \in DOMAIN n.choices : Fit(n.choices[i].tool, n.choices[i].args)
      <4> DEFINE e == doc'
      <4>1. Framed(e) /\ Fit(c.tool, c.args) /\ Heard(c.got) /\ Told(c.tool, c.args, c.got)
        BY <1>1, <2>2 DEF Hearing, Comes
      <4>2. n = Move(c.tool, e, c.args, c.got)
        BY DEF Proceeds
      <4> HIDE DEF e, n
      <4> QED
        BY <2>6, <4>1, <4>2, ChoicesFit
    <3>2. \A i \in DOMAIN pending' : Fit(pending'[i].tool, pending'[i].args)
      BY <2>3, <2>6, <3>1
    <3> QED
      BY <1>1, <2>2, <2>3, <2>6, <3>2, EndingSettles
  <2> QED
    BY <2>3, <2>4, <2>5, <2>6
<1> QED
  BY <1>2, <1>3

\* A call that no request has been answered of yet
LEMMA NothingTold == \A tool, a : Told(tool, a, <<>>)
<1>1. \A a : 0 <= ImageAnswers(a)
  BY DEF ImageAnswers
<1>2. Len(<<>>) = 0
  OBVIOUS
<1> QED
  BY <1>1, <1>2 DEF Told

\* The call of p is another one, of a caller that waited for nothing.
LEMMA NewCallSettles ==
    ASSUME ToolsInv, SettleInv, NEW p \in Callers, ~Waiting(calls[p]),
           NEW z, CallSettles(z), UNCHANGED <<doc, cache, unsettled>>,
           calls'[p] = z,
           \A q \in Callers \ {p} : /\ calls'[q].tool = calls[q].tool /\ calls'[q].args = calls[q].args
                                    /\ calls'[q].got = calls[q].got /\ calls'[q].owes = calls[q].owes
                                    /\ calls'[q].reply = calls[q].reply,
           \A i \in DOMAIN pending' : Fit(pending'[i].tool, pending'[i].args)
    PROVE  SettleInv'
<1>1. ASSUME NEW q \in Callers \ {p}
      PROVE  /\ CallSettles(calls'[q])
             /\ \A k : Owing(calls[q], k) => Owing(calls'[q], k)
  <2> DEFINE b == calls[q]
             c == calls'[q]
  <2>1. CallSettles(b)
    BY DEF SettleInv
  <2>2. /\ c.tool = b.tool /\ c.args = b.args /\ c.got = b.got /\ c.owes = b.owes /\ c.reply = b.reply
    OBVIOUS
  <2> HIDE DEF b, c
  <2>3. CallSettles(c) /\ \A k : Owing(b, k) => Owing(c, k)
    BY <2>1, <2>2 DEF CallSettles, Owing, Waiting
  <2> QED
    BY <2>3 DEF b, c
<1>2. ASSUME NEW k, NEW q \in Callers, Owing(calls[q], k)
      PROVE  \E j \in Callers : Owing(calls'[j], k)
  <2>1. q # p
    BY <1>2 DEF Owing
  <2> QED
    BY <1>1, <1>2, <2>1
<1>3. \A q \in Callers : CallSettles(calls'[q])
  BY <1>1
<1> QED
  BY <1>2, <1>3 DEF SettleInv

\* A call comes in.
LEMMA EnterSettles ==
    ASSUME ToolsInv, SettleInv, NEW p \in Callers, calls[p] = Idle, NEW tool, NEW args, Fit(tool, args),
           Enter(p, Fresh(tool, args)), \A i \in DOMAIN pending' : Fit(pending'[i].tool, pending'[i].args)
    PROVE  SettleInv'
<1> DEFINE c == Fresh(tool, args)
           s == Move(c.tool, doc, c.args, <<>>)
           first == IF s.kind = "reply" THEN [c EXCEPT !.reply = [code |-> s.code, val |-> s.val]]
                    ELSE c
           Alone(q) == q = p \/ ~Waiting(calls[q])
           all == \A q \in Callers : Alone(q)
           z == [first EXCEPT !.alone = all]
<1>1. /\ calls' = [q \in Callers |-> IF q = p THEN z ELSE [calls[q] EXCEPT !.alone = @ /\ Alone(q)]]
      /\ UNCHANGED <<doc, cache, unsettled>>
  BY DEF Enter
<1>2. ~Waiting(calls[p])
  BY DEF Waiting, Idle, Fresh
<1>3. c.tool = tool /\ c.args = args /\ c.got = <<>> /\ c.owes = FALSE
  BY DEF Fresh
<1>4. first.tool = tool /\ first.args = args /\ first.got = <<>> /\ first.owes = FALSE
  <2>1. \A r : LET b == [c EXCEPT !.reply = r] IN
               b.tool = tool /\ b.args = args /\ b.got = <<>> /\ b.owes = FALSE
    BY DEF Fresh
  <2> HIDE DEF c, s
  <2> QED
    BY <1>3, <2>1
<1> HIDE DEF first, Alone
<1>5. z.tool = tool /\ z.args = args /\ z.got = <<>> /\ z.owes = FALSE
  BY <1>4
<1> HIDE DEF z
<1>6. CallSettles(z)
  BY <1>5, NothingTold DEF CallSettles
<1>7. calls'[p] = z
  BY <1>1
<1>8. ASSUME NEW q \in Callers \ {p}
      PROVE  /\ calls'[q].tool = calls[q].tool /\ calls'[q].args = calls[q].args
             /\ calls'[q].got = calls[q].got /\ calls'[q].owes = calls[q].owes
             /\ calls'[q].reply = calls[q].reply
  <2>1. calls'[q] = [calls[q] EXCEPT !.alone = @ /\ Alone(q)]
    BY <1>1
  <2>2. CallOK(calls[q])
    BY DEF ToolsInv
  <2> QED
    BY <2>1, <2>2 DEF CallOK
<1> QED
  BY <1>1, <1>2, <1>6, <1>7, <1>8, NewCallSettles

\* The answer to a clarification comes in, or one to none.
LEMMA ChooseSettles ==
    ASSUME ToolsInv, SettleInv, NoReply, NEW p \in Callers, Choose(p)
    PROVE  SettleInv'
<1>1. calls[p] = Idle
  BY DEF Choose
<1>2. PICK n \in 1..3 :
         IF n \in DOMAIN pending
         THEN Enter(p, Fresh(pending[n].tool, pending[n].args)) /\ pending' = <<>>
         ELSE \E code : /\ calls' = [calls EXCEPT ![p] = [Fresh("clarify", n) EXCEPT
                                                            !.reply = [code |-> code, val |-> None]]]
                        /\ UNCHANGED <<doc, cache, unsettled, pending>>
  BY DEF Choose
<1>3. CASE n \in DOMAIN pending
  <2>1. Fit(pending[n].tool, pending[n].args)
    BY <1>3 DEF SettleInv
  <2>2. \A i \in DOMAIN pending' : Fit(pending'[i].tool, pending'[i].args)
    BY <1>2, <1>3
  <2> QED
    BY <1>1, <1>2, <1>3, <2>1, <2>2, EnterSettles
<1>4. CASE n \notin DOMAIN pending
  <2>1. PICK code : /\ calls' = [calls EXCEPT ![p] = [Fresh("clarify", n) EXCEPT
                                                        !.reply = [code |-> code, val |-> None]]]
                    /\ UNCHANGED <<doc, cache, unsettled, pending>>
    BY <1>2, <1>4
  <2> DEFINE z == [Fresh("clarify", n) EXCEPT !.reply = [code |-> code, val |-> None]]
  <2>2. z.owes = FALSE /\ z.reply = [code |-> code, val |-> None]
    BY DEF Fresh
  <2> HIDE DEF z
  <2>3. ~Waiting(z) /\ ~Waiting(calls[p])
    BY <1>1, <2>2 DEF Waiting, Idle, Fresh, NoReply
  <2>4. CallSettles(z)
    BY <2>2, <2>3 DEF CallSettles
  <2>5. DOMAIN calls = Callers
    BY DEF ToolsInv
  <2>6. calls'[p] = z /\ \A q \in Callers \ {p} : calls'[q] = calls[q]
    BY <2>1, <2>5 DEF z
  <2>7. \A i \in DOMAIN pending' : Fit(pending'[i].tool, pending'[i].args)
    BY <2>1 DEF SettleInv
  <2> QED
    BY <2>1, <2>3, <2>4, <2>6, <2>7, NewCallSettles
<1> QED
  BY <1>3, <1>4

\* Nobody has called anything yet, and the cache is new.
LEMMA InitSettles ==
    ASSUME Init
    PROVE  SettleInv
<1>1. Framed(doc) /\ pending = <<>> /\ unsettled = FALSE /\ \A p \in Callers : calls[p] = Idle
  BY DocumentsAssumption DEF Init
<1>2. Idle.tool = None /\ Idle.owes = FALSE
  BY DEF Idle, Fresh
<1>3. \A p \in Callers : CallSettles(calls[p])
  BY <1>1, <1>2 DEF CallSettles, Waiting
<1>4. \A k \in DOMAIN cache : k \in Keys /\ cache[k] = Factory(doc, k).val
  BY DEF Init
<1>5. ASSUME NEW k \in Keys PROVE KeyOK(k)
  <2>1. CASE k[1] \in {"task", "project"}
    BY <2>1 DEF KeyOK, Listing
  <2>2. CASE k = <<"forecast", k[2]>>
    BY <2>2 DEF KeyOK, ListingKey
  <2>3. ASSUME NEW page \in {<<"search", "tasks">>, <<"search", "projects">>, <<"tag", "list">>, <<"folder", "list">>},
               k = Append(page, k[3])
        PROVE  KeyOK(k)
    <3> DEFINE f == k[3]
    <3> HIDE DEF f
    <3>0. \A x, y, w : Append(<<x, y>>, w) = <<x, y, w>>
      <4> TAKE x, y, w
      <4>1. <<x, y>> \in Seq({x, y, w}) /\ Len(<<x, y>>) = 2
        OBVIOUS
      <4>2. /\ Append(<<x, y>>, w) \in Seq({x, y, w})
            /\ Len(Append(<<x, y>>, w)) = 3
            /\ Append(<<x, y>>, w)[1] = x /\ Append(<<x, y>>, w)[2] = y /\ Append(<<x, y>>, w)[3] = w
        BY <4>1
      <4>3. <<x, y, w>> \in Seq({x, y, w}) /\ Len(<<x, y, w>>) = 3
        OBVIOUS
      <4> DEFINE u == Append(<<x, y>>, w)
                 v == <<x, y, w>>
      <4>4. \A i \in 1..3 : u[i] = v[i]
        BY <4>2
      <4>5. v \in Seq({x, y, w}) /\ u \in Seq({x, y, w}) /\ Len(u) = Len(v) /\ Len(u) = 3
        BY <4>2, <4>3
      <4> HIDE DEF u, v
      <4> QED
        BY <4>4, <4>5, SeqEqual DEF u, v
    <3>1. /\ Append(<<"search", "tasks">>, f) = <<"search", "tasks", f>>
          /\ Append(<<"search", "projects">>, f) = <<"search", "projects", f>>
          /\ Append(<<"tag", "list">>, f) = <<"tag", "list", f>>
          /\ Append(<<"folder", "list">>, f) = <<"folder", "list", f>>
      BY <3>0
    <3>2. k = Append(page, f)
      BY <2>3 DEF f
    <3>3. \/ k = <<"search", "tasks", f>> \/ k = <<"search", "projects", f>>
          \/ k = <<"tag", "list", f>> \/ k = <<"folder", "list", f>>
      BY <3>1, <3>2
    <3> QED
      BY <3>3 DEF KeyOK, ListingKey
  <2> QED
    BY <2>1, <2>2, <2>3, KeysAssumption
<1>6. Keyed(cache)
  BY <1>4, <1>5 DEF Keyed
<1>7. \A k \in DOMAIN cache : Serves(cache, doc, k)
  BY <1>4 DEF Serves
<1>8. \A i \in DOMAIN pending : Fit(pending[i].tool, pending[i].args)
  BY <1>1
<1> QED
  BY <1>1, <1>3, <1>6, <1>7, <1>8 DEF SettleInv

\* The step a waiting call is at
LEMMA StepClean ==
    ASSUME ToolsInv, SettleInv, NEW p \in Callers, Waiting(calls[p])
    PROVE  LET c == calls[p] IN Clean(Move(c.tool, doc, c.args, c.got), doc, Affects(c.tool))
<1>1. CallOK(calls[p]) /\ CallSettles(calls[p]) /\ Framed(doc)
  BY DEF ToolsInv, SettleInv
<1> QED
  BY <1>1, MoveClean DEF CallOK, CallSettles

\* The request is executed, and answered or not.
LEMMA RequestComes ==
    ASSUME ToolsInv, SettleInv, NEW p \in Callers, Waiting(calls[p]), NEW s,
           s = Move(calls[p].tool, doc, calls[p].args, calls[p].got), s.kind \in {"ask", "try"},
           NEW r, Honest(r), r.doc = doc \/ r.doc = s.does.doc,
           r.code = "OK" => s.does.code = "OK" /\ r.val = s.does.val
    PROVE  Comes(p, s.kind = "ask", r, cache)
<1> DEFINE A == Affects(calls[p].tool)
           x == [code |-> r.code, val |-> r.val]
<1>1. Clean(s, doc, A)
  BY StepClean
<1>2. Framed(doc) /\ Keyed(cache)
      /\ \/ unsettled = TRUE
         \/ \A k \in DOMAIN cache : Listing(k) => Serves(cache, doc, k) \/ \E q \in Callers : Owing(calls[q], k)
  BY DEF SettleInv
<1>3. Within(A, s.does.doc, doc)
  BY <1>1 DEF Clean
<1>4. Framed(r.doc) /\ Keeps(A, r.doc, doc)
  BY <1>2, <1>3 DEF Within, Keeps
<1>5. (s.kind = "ask" /\ r.code # "OK") \/ Answered(s, x)
  BY DEF Answered
<1> QED
  BY <1>2, <1>4, <1>5 DEF Comes

\* A fill of the cache: the entries it has stay, a new one is what OmniFocus answers.
LEMMA FillServes ==
    ASSUME NEW h, Keyed(h), NEW j, KeyOK(j), NEW d, NEW v,
           IF j \in DOMAIN h THEN v = h[j] ELSE v = Factory(d, j).val
    PROVE  /\ Keyed(With(h, j, v))
           /\ \A k \in DOMAIN With(h, j, v) :
                 (k \in DOMAIN h /\ (Serves(h, d, k) => Serves(With(h, j, v), d, k))) \/ Serves(With(h, j, v), d, k)
<1> DEFINE f == With(h, j, v)
<1>1. DOMAIN f = DOMAIN h \cup {j} /\ \A k \in DOMAIN f : f[k] = IF k = j THEN v ELSE h[k]
  BY DEF With
<1> HIDE DEF f
<1>2. Keyed(f)
  BY <1>1 DEF Keyed
<1>3. ASSUME NEW k \in DOMAIN f
      PROVE  (k \in DOMAIN h /\ (Serves(h, d, k) => Serves(f, d, k))) \/ Serves(f, d, k)
  <2>1. CASE k \in DOMAIN h
    <3>1. f[k] = h[k]
      BY <1>1, <2>1
    <3> QED
      BY <2>1, <3>1 DEF Serves
  <2>2. CASE k \notin DOMAIN h
    <3>1. k = j /\ f[k] = v
      BY <1>1, <2>2
    <3>2. f[k] = Factory(d, k).val
      BY <2>2, <3>1
    <3> QED
      BY <3>2 DEF Serves
  <2> QED
    BY <2>1, <2>2
<1> QED
  BY <1>2, <1>3 DEF f

\* A cached read
LEMMA CachedComes ==
    ASSUME ToolsInv, SettleInv, NEW p \in Callers, Waiting(calls[p]), NEW s,
           s = Move(calls[p].tool, doc, calls[p].args, calls[p].got), s.kind = "cached",
           NEW r, r = IF s.key \in DOMAIN cache THEN Answer(doc, cache[s.key]) ELSE Factory(doc, s.key),
           NEW f, f = IF r.code = "OK" THEN With(cache, s.key, r.val) ELSE cache
    PROVE  Comes(p, TRUE, r, f)
<1> DEFINE x == [code |-> r.code, val |-> r.val]
           A == Affects(calls[p].tool)
<1>1. KeyOK(s.key)
  BY StepClean DEF Clean
<1>2. Framed(doc) /\ Keyed(cache)
      /\ \/ unsettled = TRUE
         \/ \A k \in DOMAIN cache : Listing(k) => Serves(cache, doc, k) \/ \E q \in Callers : Owing(calls[q], k)
  BY DEF SettleInv
<1>3. Honest(r) /\ r.doc = doc
  BY AnswerReads, FactoriesLook DEF Looking
<1>4. Answered(s, x)
  BY DEF Answered
<1>5. /\ Keyed(f)
      /\ \A k \in DOMAIN f :
            (k \in DOMAIN cache /\ (Serves(cache, doc, k) => Serves(f, doc, k))) \/ Serves(f, doc, k)
  <2>1. CASE r.code = "OK"
    <3>1. IF s.key \in DOMAIN cache THEN r.val = cache[s.key] ELSE r.val = Factory(doc, s.key).val
      BY DEF Answer
    <3>2. f = With(cache, s.key, r.val)
      BY <2>1
    <3>3. /\ Keyed(With(cache, s.key, r.val))
          /\ \A k \in DOMAIN With(cache, s.key, r.val) :
                \/ k \in DOMAIN cache /\ (Serves(cache, doc, k) => Serves(With(cache, s.key, r.val), doc, k))
                \/ Serves(With(cache, s.key, r.val), doc, k)
      BY <1>1, <1>2, <3>1, FillServes, Zenon
    <3> QED
      BY <3>2, <3>3, ZenonT(40)
  <2>2. CASE r.code # "OK"
    <3>1. f = cache
      BY <2>2
    <3> QED
      BY <1>2, <3>1
  <2> QED
    BY <2>1, <2>2, Zenon
<1>6. ASSUME \A k \in DOMAIN cache : Listing(k) => Serves(cache, doc, k) \/ \E q \in Callers : Owing(calls[q], k)
      PROVE  \A k \in DOMAIN f : Listing(k) => Serves(f, doc, k) \/ \E q \in Callers : Owing(calls[q], k)
  BY <1>5, <1>6, Zenon
<1>7. Keeps(A, r.doc, doc)
  BY <1>3 DEF Keeps
<1> QED
  BY <1>2, <1>3, <1>4, <1>5, <1>6, <1>7, Zenon DEF Comes

\* The adapter executes the request of a call.
LEMMA AdvanceSettles ==
    ASSUME ToolsInv, SettleInv, NoReply, NEW p \in Callers, Advance(p)
    PROVE  SettleInv'
<1> DEFINE c == calls[p]
           s == Move(c.tool, doc, c.args, c.got)
<1>1. CallOK(c) /\ Waiting(c)
  BY DEF ToolsInv, Advance
<1>2. CASE s.kind \in {"ask", "try"} /\ Receive(p, s.kind = "ask", s.does, cache)
  <2>1. Honest(s.does)
    BY <1>1, <1>2, StepWrites
  <2>2. Comes(p, s.kind = "ask", s.does, cache)
    BY <1>1, <1>2, <2>1, RequestComes
  <2> QED
    BY <1>2, <2>2, ReceiveSettles
<1>3. CASE s.kind = "cached" /\ \E r \in {IF s.key \in DOMAIN cache THEN Answer(doc, cache[s.key])
                                                                    ELSE Factory(doc, s.key)} :
              Receive(p, TRUE, r, IF r.code = "OK" THEN With(cache, s.key, r.val) ELSE cache)
  <2>0. PICK r : /\ r = IF s.key \in DOMAIN cache THEN Answer(doc, cache[s.key]) ELSE Factory(doc, s.key)
                 /\ Receive(p, TRUE, r, IF r.code = "OK" THEN With(cache, s.key, r.val) ELSE cache)
    BY <1>3
  <2> DEFINE f == IF r.code = "OK" THEN With(cache, s.key, r.val) ELSE cache
  <2>1. Receive(p, TRUE, r, f)
    BY <2>0
  <2>2. Comes(p, TRUE, r, f)
    BY <1>1, <1>3, <2>0, CachedComes, ZenonT(30)
  <2> HIDE DEF f
  <2> QED
    BY <2>1, <2>2, ReceiveSettles
<1> QED
  BY <1>2, <1>3 DEF Advance

\* The request of a call times out, executed or not.
LEMMA LoseSettles ==
    ASSUME ToolsInv, SettleInv, NoReply, NEW p \in Callers, Lose(p)
    PROVE  SettleInv'
<1> DEFINE c == calls[p]
           s == Move(c.tool, doc, c.args, c.got)
<1>1. Waiting(c)
  BY DEF Lose
<1>2. PICK executed \in BOOLEAN :
         /\ s.kind \in {"ask", "try"}
         /\ Receive(p, s.kind = "ask", Refuse(IF executed THEN s.does.doc ELSE doc, "Timeout"), cache)
  BY DEF Lose
<1> DEFINE r == Refuse(IF executed THEN s.does.doc ELSE doc, "Timeout")
<1>3. Honest(r)
  BY RefuseHonest
<1>4. (r.doc = doc \/ r.doc = s.does.doc) /\ r.code # "OK"
  BY DEF Refuse
<1>5. Receive(p, s.kind = "ask", r, cache)
  BY <1>2
<1> HIDE DEF r
<1>6. Comes(p, s.kind = "ask", r, cache)
  BY <1>1, <1>2, <1>3, <1>4, RequestComes
<1> QED
  BY <1>5, <1>6, ReceiveSettles

\* A call that invalidates all it lists: an import leaves the listings of what
\* it imported alone, and so does an extraction of nothing that still adds
\* the parent task (importTaskPaper.ts, importOpml.ts, extractFromImage.ts).
Invalidating(q) ==
    /\ q.tool \in {"import_taskpaper", "import_opml"} => q.args.text = <<>>
    /\ q.tool = "task_extract_from_image" /\ Given(q.args, "confirmed") /\ q.args.attach = "parent-task" =>
          q.args.confirmed # <<>>

\* Lists have a length.
LEMMA ListsListed == \A s : List(s) => Listed(s) /\ (s # <<>> => Len(s) # 0)
<1> SUFFICES ASSUME NEW s, List(s) PROVE Listed(s) /\ (s # <<>> => Len(s) # 0)
  OBVIOUS
<1>1. s \in Seq(ToSet(s))
  BY DEF List
<1> DEFINE S == ToSet(s)
<1>2. s \in Seq(S)
  BY <1>1
<1> HIDE DEF S
<1>3. Len(s) \in Nat /\ DOMAIN s = 1..Len(s)
  BY <1>2
<1>4. s # <<>> => Len(s) # 0
  BY <1>2, EmptySeq
<1> QED
  BY <1>3, <1>4 DEF Listed

\* The ends of a list are in it.
LEMMA LastsOfLists ==
    ASSUME NEW s, List(s), s # <<>>
    PROVE  Last(s) \in {s[i] : i \in DOMAIN s} /\ Head(s) \in {s[i] : i \in DOMAIN s}
<1>1. Listed(s) /\ Len(s) # 0
  BY ListsListed
<1>2. 1 \in DOMAIN s /\ Len(s) \in DOMAIN s
  BY <1>1 DEF Listed
<1>3. Last(s) = s[Len(s)]
  BY DEF Last
<1>4. Head(s) = s[1]
  <2> DEFINE S == ToSet(s)
  <2>1. s \in Seq(S)
    BY DEF List
  <2> HIDE DEF S
  <2> QED
    BY <2>1
<1> QED
  BY <1>2, <1>3, <1>4

\* What the schemas let through is fit for the handlers.
LEMMA AdmittedFits ==
    ASSUME NEW q, Admitted(q.tool, q.args), Invalidating(q)
    PROVE  Fit(q.tool, q.args)
<1> DEFINE tool == q.tool
           a == q.args
<1>1. tool \in {"database_undo", "database_redo"} /\ a.past # <<>> => Framed(Last(a.past)) /\ Framed(Head(a.past))
  <2> SUFFICES ASSUME tool \in {"database_undo", "database_redo"}, a.past # <<>>
               PROVE  Framed(Last(a.past)) /\ Framed(Head(a.past))
    OBVIOUS
  <2>1. List(a.past) /\ \A i \in DOMAIN a.past : Framed(a.past[i])
    BY DEF Admitted
  <2> QED
    BY <2>1, LastsOfLists
<1>2. tool \in IdBatches => Len(a.ids) \in Nat
  BY ListsListed DEF Admitted, IdBatches, Listed
<1>3. tool \in ItemBatches \cup {"task_batch_assign"} => Listed(a.items)
  BY ListsListed DEF Admitted, ItemBatches
<1>4. tool = "task_batch_assign" => Len(a.items) # 0
  BY ListsListed DEF Admitted
<1>5. tool \in {"task_extract_from_note", "task_extract_from_image"} /\ Given(a, "confirmed") => Listed(a.confirmed)
  BY ListsListed DEF Admitted
<1>6. tool = "task_extract_from_image" /\ Given(a, "confirmed") /\ a.attach = "parent-task" => Len(a.confirmed) # 0
  BY ListsListed DEF Admitted, Invalidating
<1>8. tool # "doComplete"
  BY DEF Admitted
<1>7. tool \in {"import_taskpaper", "import_opml"} => a.text = <<>>
  BY DEF Invalidating
<1> QED
  BY <1>1, <1>2, <1>3, <1>4, <1>5, <1>6, <1>7, <1>8 DEF Fit

\* Every call is one that invalidates what it lists.
AllInvalidating == \A p \in Callers : \A q \in Requests[p] : Invalidating(q)

\* A tool is called.
LEMMA CallSettled ==
    ASSUME ToolsInv, SettleInv, AllInvalidating, NEW p \in Callers, Call(p)
    PROVE  SettleInv'
<1>1. PICK q \in Requests[p] : Enter(p, Fresh(q.tool, q.args))
  BY DEF Call
<1>2. Fit(q.tool, q.args)
  <2>1. Admitted(q.tool, q.args)
    BY RequestsAssumption
  <2>2. Invalidating(q)
    BY DEF AllInvalidating
  <2> QED
    BY <2>1, <2>2, AdmittedFits
<1>3. calls[p] = Idle /\ \A i \in DOMAIN pending' : Fit(pending'[i].tool, pending'[i].args)
  BY DEF Call, SettleInv
<1> QED
  BY <1>1, <1>2, <1>3, EnterSettles

\* No step breaks SettleInv.
LEMMA StepSettles ==
    ASSUME ToolsInv, SettleInv, NoReply, AllInvalidating, [Next]_vars
    PROVE  SettleInv'
<1>1. CASE Expire
  <2>1. UNCHANGED <<doc, cache, calls, unsettled>> /\ pending' = <<>>
    BY <1>1 DEF Expire
  <2>2. \A i \in DOMAIN pending' : Fit(pending'[i].tool, pending'[i].args)
    BY <2>1
  <2> QED
    BY <2>1, <2>2 DEF SettleInv
<1>2. CASE UNCHANGED vars
  BY <1>2 DEF SettleInv, vars
<1> QED
  BY <1>1, <1>2, CallSettled, ChooseSettles, AdvanceSettles, LoseSettles DEF Next

\* Mutations are never served stale, whatever the tools are asked to do, in
\* whatever order the adapter executes the requests of the calls and
\* whichever of these time out: when no call has something written and not
\* yet invalidated, and none has failed with that, every cached listing is
\* what OmniFocus would answer (src/tools, src/cache).  It is so of all calls
\* but those that AllInvalidating excludes.
THEOREM ListingsAreNeverStale ==
    ASSUME NoReply, AllInvalidating
    PROVE  Spec => []ListingsSettle
<1>1. Init => ToolsInv /\ SettleInv
  BY InitInv, InitSettles
<1>2. ToolsInv /\ SettleInv /\ [Next]_vars => ToolsInv' /\ SettleInv'
  BY StepKeepsInv, StepSettles
<1>3. ToolsInv /\ SettleInv => ListingsSettle
  BY SettleInvSettles
<1> QED
  BY <1>1, <1>2, <1>3, PTL DEF Spec
==============================================================================
