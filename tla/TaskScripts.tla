---------------------------- MODULE TaskScripts -----------------------------
(***************************************************************************)
(* The scripts on tasks that the router reaches, one operator for each,    *)
(* named after its file: src/scripts/jxa for the reads, the updates and    *)
(* the batches, src/scripts/omnijs for creating, moving, reordering,       *)
(* duplicating and converting.  A script is a function of the document and *)
(* of its arguments; null is None.                                         *)
(***************************************************************************)
EXTENDS Document

-----------------------------------------------------------------------------
\* Reads.  A filter is a record with the fields the caller gave.

\* The part of a filter that is about the row itself.
Matches(row, f) ==
    /\ "tag" \in DOMAIN f => f.tag \in row.tags
    /\ "flagged" \in DOMAIN f => row.flagged = f.flagged
    /\ "completed" \in DOMAIN f => row.completed = f.completed
    /\ "dueBefore" \in DOMAIN f => row.due # None /\ row.due < f.dueBefore
    /\ "dueAfter" \in DOMAIN f => row.due # None /\ row.due > f.dueAfter
    /\ "deferredBefore" \in DOMAIN f => row.defer # None /\ row.defer < f.deferredBefore
    /\ "deferredAfter" \in DOMAIN f => row.defer # None /\ row.defer > f.deferredAfter

\* One source, by the first of the scope arguments, then the filters.
TaskList(d, f) ==
    LET rows(S) == Answer(d, {x \in {BuildTask(d, t) : t \in S} : Matches(x, f)}) IN
    CASE "inbox" \in DOMAIN f   -> rows(ChildTasks(d, Inbox))
      [] "project" \in DOMAIN f -> Found(d, d.projects, f.project,
                                         rows(FlattenedTasks(d, f.project)))
      [] "parent" \in DOMAIN f  -> Found(d, d.tasks, f.parent, rows(ChildTasks(d, f.parent)))
      [] "tag" \in DOMAIN f     -> Found(d, d.tags, f.tag, rows(TasksTagged(d, f.tag)))
      [] OTHER                  -> rows(DOMAIN d.tasks)

TaskGet(d, t) == Found(d, d.tasks, t, Answer(d, BuildTask(d, t)))

TaskGetMany(d, ids) ==
    Answer(d, [i \in DOMAIN ids |-> IF Has(d.tasks, ids[i]) THEN BuildTask(d, ids[i]) ELSE None])

\* Search: completed tasks are left out unless asked for, all tags must be
\* there, and a task without a due date is never in a date range.
TaskSearch(d, f) ==
    LET mode == IF "mode" \in DOMAIN f THEN f.mode ELSE "exclude"
        hit(x) == /\ mode = "exclude" => ~x.completed
                  /\ mode = "only" => x.completed
                  /\ "allTags" \in DOMAIN f => f.allTags \subseteq x.tags
                  /\ Matches(x, Without(f, {"tag", "completed", "deferredBefore", "deferredAfter"}))
        rows(S) == Answer(d, {x \in {BuildTask(d, t) : t \in S} : hit(x)})
    IN IF "project" \in DOMAIN f
       THEN Found(d, d.projects, f.project, rows(FlattenedTasks(d, f.project)))
       ELSE rows(DOMAIN d.tasks)

-----------------------------------------------------------------------------
\* Creating

\* Fields of the input that are given override those of a new task.
Filled(row, fields) == [k \in DOMAIN row |-> IF Has(fields, k) THEN fields[k] ELSE row[k]]

\* A tag that does not exist is skipped without an error.
KnownTags(d, fields) ==
    IF Has(fields, "tags") THEN [fields EXCEPT !.tags = @ \cap DOMAIN d.tags] ELSE fields

\* An input: [blank, project, parent, fields].
Insert(d, at, fields) ==
    LET t == NewId(d, TaskIds)
    IN Answer(AddTask(d, t, Filled(NewTask(at), KnownTags(d, fields))), t)

CreateAt(d, a) ==
    CASE a.blank                                -> Refuse(d, "Validation")
      [] a.project # None /\ a.parent # None    -> Refuse(d, "Validation")
      [] ~a.blank /\ a.parent # None /\ a.project = None ->
            Found(d, d.tasks, a.parent, Insert(d, a.parent, a.fields))
      [] ~a.blank /\ a.parent = None /\ a.project # None ->
            Found(d, d.projects, a.project, Insert(d, a.project, a.fields))
      [] ~a.blank /\ a.parent = None /\ a.project = None -> Insert(d, Inbox, a.fields)

\* The properties and the tags are set after the task was made, and in no try:
\* one that OmniFocus refuses (cut) leaves the task with those before it.
TaskCreate(d, a, cut) ==
    IF cut THEN Stopped(CreateAt(d, [a EXCEPT !.fields = SetFirst(@)])) ELSE CreateAt(d, a)

\* In a batch the name is not looked at and a parent wins over a project.
CreateItem(d, a) ==
    CASE a.parent # None -> Found(d, d.tasks, a.parent, Insert(d, a.parent, a.fields))
      [] a.parent = None /\ a.project # None ->
            Found(d, d.projects, a.project, Insert(d, a.project, a.fields))
      [] a.parent = None /\ a.project = None -> Insert(d, Inbox, a.fields)

-----------------------------------------------------------------------------
\* Updating

Put(d, t, fields) == [d EXCEPT !.tasks[t] = Over(@, KnownTags(d, fields))]

\* The fields are set one after the other.  A version of OmniFocus that rejects
\* noteHtml stops the script there, after the plain note; any other field that
\* is refused (cut) stops it with those before it set.
TaskUpdate(d, t, patch, cut) ==
    Found(d, d.tasks, t,
          CASE Has(patch, "noteHtml") ->
                  Refuse(Put(d, t, Restrict(patch, DOMAIN patch \cap {"note"})), "Unsupported")
            [] ~Has(patch, "noteHtml") /\ cut -> Refuse(Put(d, t, SetFirst(patch)), "Script")
            [] OTHER -> Answer(Put(d, t, patch), BuildTask(Put(d, t, patch), t)))

\* An update: [id, patch].  The batch does not know noteHtml.
UpdateItem(d, u) ==
    Found(d, d.tasks, u.id, Answer(Put(d, u.id, Without(u.patch, {"noteHtml"})), u.id))

TaskComplete(d, t)   == Found(d, d.tasks, t, Answer(MarkComplete(d, t), t))
TaskUncomplete(d, t) == Found(d, d.tasks, t, Answer(MarkIncomplete(d, t), t))
TaskDrop(d, t)       == Found(d, d.tasks, t, Answer(MarkDropped(d, t), t))
TaskUndrop(d, t)     == Found(d, d.tasks, t, Answer(MarkIncomplete(d, t), t))
TaskDelete(d, t)     == Found(d, d.tasks, t, Answer(DeleteTasks(d, Subtree(d, t)), t))

-----------------------------------------------------------------------------
\* Moving

\* A destination: [project, parent].
TaskMove(d, t, to) ==
    Found(d, d.tasks, t,
          CASE to.parent # None -> Found(d, d.tasks, to.parent,
                                         MoveTask(d, t, to.parent, PutLast(d.order, t)))
            [] to.parent = None /\ to.project # None ->
                  Found(d, d.projects, to.project, MoveTask(d, t, to.project, PutLast(d.order, t)))
            [] to.parent = None /\ to.project = None ->
                  MoveTask(d, t, Inbox, PutFirst(d.order, t)))

\* A position: [mode, ref] for before and after, [mode, project, parent] for
\* start and end.  The reference must share the task's parent; the parent of a
\* task directly in a project is the project's own task.
TaskReorder(d, t, pos) ==
    LET ends == pos.mode \in {"start", "end"}
        order == IF pos.mode = "start" THEN PutFirst(d.order, t) ELSE PutLast(d.order, t)
    IN Found(d, d.tasks, t,
             CASE ~ends /\ pos.ref = None -> Refuse(d, "Validation")
               [] ~ends /\ pos.ref # None ->
                     Found(d, d.tasks, pos.ref,
                           CASE d.tasks[pos.ref].at # d.tasks[t].at -> Refuse(d, "Validation")
                             [] pos.ref = t -> Answer(d, t)
                             [] OTHER -> Answer([d EXCEPT !.order =
                                   PutBeside(@, t, pos.ref, IF pos.mode = "after" THEN 1 ELSE 0)], t))
               [] ends /\ pos.project # None ->
                     Found(d, d.projects, pos.project, MoveTask(d, t, pos.project, order))
               [] ends /\ pos.project = None /\ pos.parent # None ->
                     Found(d, d.tasks, pos.parent, MoveTask(d, t, pos.parent, order))
               [] ends /\ pos.project = None /\ pos.parent = None ->
                     MoveTask(d, t, Inbox, order))

-----------------------------------------------------------------------------
\* Copying and converting

\* The ids that the copies of the tasks S, which are t and in t, may be given.
CopyIds(d, t, S) == {f \in Injection(S, TaskIds \ d.used) : f[t] = NewId(d, TaskIds)}

\* duplicateTasks copies the tasks (external): a copy is in the copy of what
\* the task is in, and that of t is where it was asked for.  The script deletes
\* the copy's children unless it was asked for all, and marks the rest as not
\* completed; when one of these steps throws (cut) the copy stays as it was made.
Copied(d, t, S, at, cut) ==
    LET of == CHOOSE f \in CopyIds(d, t, S) : TRUE
        source(c) == CHOOSE x \in S : of[x] = c
        reset(row) == [row EXCEPT !.dropped = IF row.done THEN FALSE ELSE @, !.done = FALSE]
        copy(x) == LET same == [d.tasks[x] EXCEPT !.at = IF x = t THEN at ELSE of[@]]
                   IN IF cut THEN same ELSE reset(same)
        new == {of[x] : x \in S}
        listed == Omitting(d.order, DOMAIN d.tasks \ S)
    IN Answer([d EXCEPT !.tasks = Over(@, [c \in new |-> copy(source(c))]), !.used = @ \cup new,
                        !.order = @ \o [i \in DOMAIN listed |-> of[listed[i]]]],
              [new |-> of[t], more |-> Cardinality(S) - 1])

\* A destination: [project, parent, inbox]; none of them is next to the source.
TaskDuplicate(d, t, to, recursive, cut) ==
    LET S == IF recursive \/ cut THEN Subtree(d, t) ELSE {t}
        copied(at) == IF cut THEN Stopped(Copied(d, t, S, at, cut)) ELSE Copied(d, t, S, at, cut)
    IN Found(d, d.tasks, t,
          CASE to.project # None -> Found(d, d.projects, to.project, copied(to.project))
            [] to.project = None /\ to.parent # None ->
                  Found(d, d.tasks, to.parent, copied(to.parent))
            [] to.project = None /\ to.parent = None ->
                  copied(IF to.inbox THEN Inbox ELSE d.tasks[t].at))

\* Mutant: the folder is not looked up before the task is converted.
ConvertsAnywhere(d, t, folder) ==
    LET x == d.tasks[t]
        p == [NewProject(folder) EXCEPT !.flagged = x.flagged, !.note = x.note, !.tags = x.tags]
    IN Found(d, d.tasks, t,
             Answer([DeleteTasks(d, {t}) EXCEPT !.projects = With(@, t, p)], t))

\* convertTasksToProjects (external): the project keeps the task's id, and the
\* tasks that were in the task are in the project.
TaskConvertToProject(d, t, folder) ==
    LET x == d.tasks[t]
        p == [NewProject(folder) EXCEPT !.flagged = x.flagged, !.note = x.note, !.tags = x.tags]
    IN Found(d, d.tasks, t,
             IF folder # None /\ ~Has(d.folders, folder) THEN Refuse(d, "NotFound")
             ELSE Answer([DeleteTasks(d, {t}) EXCEPT !.projects = With(@, t, p)], t))

\* Alarms: all are cleared, then added one by one; one that OmniFocus does not
\* take stops the script with the others already in place.
TaskClearAlarms(d, t) == Found(d, d.tasks, t, Answer([d EXCEPT !.tasks[t].alarms = <<>>], t))

\* An alarm is "due", "defer" (relative to that date) or "absolute".
Anchored(d, t, alarm) == alarm \in {"due", "defer"} => d.tasks[t][alarm] # None

\* Mutant: the alarms that were there are not cleared first.
AddsAlarms(d, t, alarms) ==
    Found(d, d.tasks, t,
          IF \A i \in DOMAIN alarms : Anchored(d, t, alarms[i])
          THEN Answer([d EXCEPT !.tasks[t].alarms = @ \o alarms], t) ELSE Refuse(d, "Script"))

TaskSetAlarms(d, t, alarms) ==
    LET bad == {i \in DOMAIN alarms : ~Anchored(d, t, alarms[i])}
        kept == IF bad = {} THEN alarms ELSE SubSeq(alarms, 1, Min(bad) - 1)
        set == [d EXCEPT !.tasks[t].alarms = kept]
    IN Found(d, d.tasks, t, IF bad = {} THEN Answer(set, t) ELSE Refuse(set, "Script"))
=============================================================================
