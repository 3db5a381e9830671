------------------------------ MODULE TaskTools ------------------------------
(***************************************************************************)
(* The tools on one task and the tools that read tasks (src/tools/task),   *)
(* one operator for each, named after it.  Idempotency keys are left to    *)
(* KeyedMutation.                                                          *)
(***************************************************************************)
EXTENDS ToolCalls

CONSTANTS WaitingTag, \* the name of the tag on what somebody else has to do
          MaxIds      \* ids one reading call may ask for

-----------------------------------------------------------------------------
\* Changing the state of a task: read it, answer that there is nothing to do
\* when it is settled already, write, and invalidate where it was read to be.
Change(d, t, g, settled, write) ==
    CASE Len(g) = 0 -> Ask(getTask(d, t))
      [] Len(g) = 1 -> IF settled THEN NoChange ELSE Ask(write)
      [] OTHER      -> Done(Around(t, Val(g, 1)), t)

\* Mutant: only the task's own entries are invalidated.
DropsOwnScopeOnly(d, a, g) ==
    CASE Len(g) = 0 -> Ask(getTask(d, a.id))
      [] Len(g) = 1 -> IF Val(g, 1).dropped THEN NoChange ELSE Ask(dropTask(d, a.id))
      [] OTHER      -> Done({<<"task", a.id>>}, a.id)

task_uncomplete(d, a, g) == Change(d, a.id, g, ~Val(g, 1).completed, uncompleteTask(d, a.id))
task_drop(d, a, g)       == Change(d, a.id, g, Val(g, 1).dropped, dropTask(d, a.id))
task_undrop(d, a, g)     == Change(d, a.id, g, ~Val(g, 1).dropped, undropTask(d, a.id))

\* Mutant: dry_run is looked at after the write.
PreviewsLate(d, a, g) ==
    CASE Len(g) = 0 -> Ask(getTask(d, a.id))
      [] Len(g) = 1 -> Guarded(a, Val(g, 1), Ask(deleteTask(d, a.id)), Ask(deleteTask(d, a.id)))
      [] OTHER      -> IF Given(a, "dry") THEN Preview(a.id) ELSE Done(Around(a.id, Val(g, 1)), a.id)

task_delete(d, a, g) ==
    CASE Len(g) = 0 -> Ask(getTask(d, a.id))
      [] Len(g) = 1 -> Guarded(a, Val(g, 1), Preview(a.id), Ask(deleteTask(d, a.id)))
      [] OTHER      -> Done(Around(a.id, Val(g, 1)), a.id)

\* Completing a task that was read as row, its children before it.  What goes
\* wrong with a child is passed over, and so is the look at what is left in the
\* project, which only serves a hint.
doComplete(d, a, g) ==
    LET n == Len(g) - Len(a.children)
        scopes == Around(a.id, a.row)
    IN CASE n < 0 -> Try(completeTask(d, a.children[Len(g) + 1]))
         [] n = 0 -> Ask(completeTask(d, a.id))
         [] n = 1 -> IF a.row.project = None THEN Done(scopes, a.id)
                     ELSE Flush(scopes, Try(listTasks(d, [project |-> a.row.project, completed |-> FALSE])))
         [] n = 2 -> IF Ok(g, Len(g)) /\ Val(g, Len(g)) = {} THEN Try(getProject(d, a.row.project))
                     ELSE Same(a.id)
         [] OTHER -> Same(a.id)

\* A task with open subtasks is not completed before the caller has chosen
\* what becomes of them.  The calls behind the choices keep the row and the
\* children that were read for the question.
task_complete(d, a, g) ==
    LET alone == [id |-> a.id, row |-> Val(g, 1), children |-> <<>>]
        all == [alone EXCEPT !.children = SetToSeq({x.id : x \in Val(g, 2)})]
        asked == Ok(g, 2) /\ Val(g, 2) # {}
    IN CASE Len(g) = 0 -> Ask(getTask(d, a.id))
         [] Len(g) = 1 -> IF Val(g, 1).completed THEN NoChange
                          ELSE Try(listTasks(d, [parent |-> a.id, completed |-> FALSE]))
         [] OTHER      -> IF asked THEN Clarify(<<[tool |-> "doComplete", args |-> all],
                                                  [tool |-> "doComplete", args |-> alone]>>)
                          ELSE doComplete(d, alone, SubSeq(g, 3, Len(g)))

-----------------------------------------------------------------------------
\* Creating, copying, moving

Both(a, one, other) == Given(a, one) /\ Given(a, other)
DueFirst(fields) ==
    /\ Opt(fields, "due") # None /\ Opt(fields, "defer") # None
    /\ fields.due < fields.defer

task_create(d, a, g) ==
    LET input == [blank |-> a.blank, project |-> Opt(a, "project"), parent |-> Opt(a, "parent"),
                  fields |-> a.fields]
        scopes == TaskScopes({input.parent}, {input.project})
    IN CASE Len(g) = 0 -> IF Both(a, "project", "parent") \/ DueFirst(a.fields) THEN Fail("Validation")
                          ELSE Ask(createTask(d, input, Given(a, "cut")))
         [] Len(g) = 1 -> IF Given(a, "project") \/ Given(a, "parent") THEN Done(scopes, Val(g, 1))
                          ELSE Flush(scopes, Try(listTasks(d, [inbox |-> TRUE, completed |-> FALSE])))
         [] OTHER      -> Same(Val(g, 1))

\* A destination has exactly one of project, parent and inbox.
Destination(to) == [project |-> Opt(to, "project"), parent |-> Opt(to, "parent")]

task_duplicate(d, a, g) ==
    LET to == IF Given(a, "to") THEN a.to ELSE Nothing
        where == Destination(to) @@ [inbox |-> Given(to, "inbox")]
        row == Val(g, 1)
    IN CASE Len(g) = 0 -> IF Given(a, "to") /\ Cardinality(DOMAIN to) # 1 THEN Fail("Validation")
                          ELSE Ask(getTask(d, a.id))
         [] Len(g) = 1 -> Ask(duplicateTask(d, a.id, where, a.recursive, FALSE))
         [] OTHER      -> Done(Around(Val(g, 2).new, row) \cup NewPlace(to, row), Val(g, 2).new)

\* Nothing to do when the task is there; a task in a task that is in a project
\* never is.
Already(row, to) ==
    \/ Given(to, "project") /\ row.project = to.project /\ row.parent = None
    \/ Given(to, "parent") /\ row.parent = to.parent /\ row.project = None
    \/ Given(to, "inbox") /\ row.project = None /\ row.parent = None

task_move(d, a, g) ==
    CASE Len(g) = 0 -> IF Cardinality(DOMAIN a.to) # 1 THEN Fail("Validation") ELSE Ask(getTask(d, a.id))
      [] Len(g) = 1 -> IF Already(Val(g, 1), a.to) THEN NoChange
                       ELSE Ask(moveTask(d, a.id, Destination(a.to)))
      [] OTHER      -> Done(Around(a.id, Val(g, 1)) \cup NewPlace(a.to, Val(g, 1)), a.id)

\* Exactly one of before, after and at; at comes with in.
task_reorder(d, a, g) ==
    LET forms == DOMAIN a.pos \cap {"before", "after", "at"}
        in == IF Given(a.pos, "in") THEN a.pos.in ELSE Nothing
        position == CASE Given(a.pos, "before") -> [mode |-> "before", ref |-> a.pos.before]
                      [] Given(a.pos, "after")  -> [mode |-> "after", ref |-> a.pos.after]
                      [] Given(a.pos, "at")     -> [mode |-> a.pos.at] @@ Destination(in)
    IN CASE Len(g) = 0 -> IF Cardinality(forms) # 1 \/ Given(a.pos, "at") # Given(a.pos, "in")
                          THEN Fail("Validation") ELSE Ask(getTask(d, a.id))
         [] Len(g) = 1 -> Ask(reorderTask(d, a.id, position))
         [] OTHER      -> Done(Around(a.id, Val(g, 1)) \cup NewPlace(in, Val(g, 1)), a.id)

task_convert_to_project(d, a, g) ==
    CASE Len(g) = 0 -> Ask(getTask(d, a.id))
      [] Len(g) = 1 -> Ask(convertTaskToProject(d, a.id, Opt(a, "folder")))
      [] OTHER      -> Done(Around(a.id, Val(g, 1)) \cup ProjectScopes(Val(g, 2)), Val(g, 2))

-----------------------------------------------------------------------------
\* Updating

Tags(a, field) == IF Given(a, field) THEN a[field] ELSE {}

\* The tags come to those of the row that was read, with and without some.
TagDiff(row, a) ==
    IF Given(a, "add") \/ Given(a, "remove")
    THEN [tags |-> (row.tags \cup Tags(a, "add")) \ Tags(a, "remove")] ELSE Nothing

task_update(d, a, g) ==
    LET patch == TagDiff(Val(g, 1), a) @@ a.set
        wrong == Given(a.set, "tags") /\ (Given(a, "add") \/ Given(a, "remove"))
    IN CASE Len(g) = 0 -> IF wrong \/ DueFirst(a.set) THEN Fail("Validation") ELSE Ask(getTask(d, a.id))
         [] Len(g) = 1 -> Guarded(a, Val(g, 1), Preview(patch @@ Val(g, 1)),
                                  Ask(updateTask(d, a.id, patch, Given(a, "cut"))))
         [] Len(g) = 2 -> Ask(getTask(d, a.id))
         [] OTHER      -> Done(Around(a.id, Val(g, 3)), Val(g, 3))

\* Write, read again, and invalidate where the task is then; a rule that did
\* not take is reported as an error before anything is invalidated.
WriteThenRead(d, t, g, write, took) ==
    CASE Len(g) = 0 -> Ask(write)
      [] Len(g) = 1 -> Ask(getTask(d, t))
      [] OTHER      -> IF took THEN Done(Around(t, Val(g, 2)), Val(g, 2)) ELSE Fail("Script")

task_clear_alarms(d, a, g) == WriteThenRead(d, a.id, g, clearTaskAlarms(d, a.id), TRUE)

\* Whether OmniFocus takes the rule, or the request to clear it, is external.
task_set_repetition(d, a, g) ==
    WriteThenRead(d, a.id, g, updateTask(d, a.id, IF a.taken THEN [repeat |-> "rule"] ELSE Nothing, FALSE),
                  Val(g, 2).repeat # None)
task_clear_repetition(d, a, g) ==
    WriteThenRead(d, a.id, g, updateTask(d, a.id, IF a.taken THEN [repeat |-> None] ELSE Nothing, FALSE),
                  Val(g, 2).repeat = None)

task_set_alarms(d, a, g) ==
    LET row == Val(g, 1)
        homeless == \E i \in DOMAIN a.alarms : a.alarms[i] \in {"due", "defer"} /\ row[a.alarms[i]] = None
    IN CASE Len(g) = 0 -> Ask(getTask(d, a.id))
         [] Len(g) = 1 -> IF homeless THEN Fail("Validation") ELSE Ask(setTaskAlarms(d, a.id, a.alarms))
         [] Len(g) = 2 -> Ask(getTask(d, a.id))
         [] OTHER      -> Done(TaskScopes({a.id}, {Val(g, 3).project}), Val(g, 3))

\* a.date is what the intent ("this evening") comes to.
task_defer_smart(d, a, g) ==
    CASE Len(g) = 0 -> Ask(getTask(d, a.id))
      [] Len(g) = 1 -> Guarded(a, Val(g, 1), Preview(a.date), Ask(updateTask(d, a.id, [defer |-> a.date], FALSE)))
      [] OTHER      -> Done(Around(a.id, Val(g, 1)), a.date)

-----------------------------------------------------------------------------
\* Notes carry blocks of data as fenced paragraphs, a paragraph named after
\* its fence here.

Paragraphs(note) == IF note = None THEN <<>> ELSE note
upsertFence(note, fence) ==
    IF fence \in ToSet(Paragraphs(note)) THEN note ELSE <<fence>> \o Paragraphs(note)
removeFence(note, fence) ==
    LET rest == SelectSeq(Paragraphs(note), LAMBDA x : x # fence)
    IN IF rest = <<>> THEN None ELSE rest

\* The tag is looked up by its name and made when it is missing.
task_set_waiting_on(d, a, g) ==
    LET row == Val(g, 1)
        known == {x.id : x \in {y \in Val(g, 2) : y.name = WaitingTag}}
        tag == IF known # {} THEN CHOOSE x \in known : TRUE ELSE Val(g, 3).id
        last == IF known # {} THEN 3 ELSE 4
        patch == [note |-> upsertFence(row.note, "waiting-on"), tags |-> row.tags \cup {tag}]
    IN CASE Len(g) = 0 -> Ask(getTask(d, a.id))
         [] Len(g) = 1 -> Ask(listTags(d, Nothing))
         [] OTHER -> CASE Len(g) = 2 /\ known = {} ->
                                Ask(createTag(d, [blank |-> FALSE, name |-> WaitingTag, parent |-> None]))
                       [] Len(g) = last - 1  -> Ask(updateTask(d, a.id, patch, FALSE))
                       [] OTHER              -> Done(Around(a.id, row), a.id)

task_clear_waiting_on(d, a, g) ==
    LET row == Val(g, 1)
        gone == {x.id : x \in {y \in Val(g, 2) : y.name = WaitingTag}} \cap row.tags
        note == removeFence(row.note, "waiting-on")
        patch == (IF note # row.note THEN [note |-> note] ELSE Nothing)
                 @@ (IF gone # {} THEN [tags |-> row.tags \ gone] ELSE Nothing)
    IN CASE Len(g) = 0 -> Ask(getTask(d, a.id))
         [] Len(g) = 1 -> Ask(listTags(d, Nothing))
         [] Len(g) = 2 -> IF patch = Nothing THEN NoChange ELSE Ask(updateTask(d, a.id, patch, FALSE))
         [] OTHER      -> Done(Around(a.id, row), a.id)

-----------------------------------------------------------------------------
\* Reading

Read(g, step) == IF Len(g) = 0 THEN step ELSE Same(Val(g, 1))

task_get(d, a, g) == Read(g, Cached(<<"task", a.id, a.form>>))

task_get_many(d, a, g) ==
    CASE a.ids = <<>>          -> Same(<<>>)
      [] Len(a.ids) > MaxIds   -> Fail("Validation")
      [] OTHER                 -> Read(g, Ask(getTasksMany(d, a.ids)))

task_list(d, a, g) ==
    CASE Unbounded(a) -> Fail("Validation")
      [] Given(a.filter, "inbox") /\ (Given(a.filter, "project") \/ Given(a.filter, "parent")) ->
            Fail("Validation")
      [] OTHER -> Read(g, Cached(<<"search", "tasks", a.filter>>))

task_search(d, a, g)       == Read(g, Ask(searchTasks(d, a.filter)))
search_query(d, a, g)      == Read(g, Ask(searchTasks(d, a.filter)))
task_find_by_name(d, a, g) == Read(g, Ask(listTasks(d, Nothing)))

\* Likely duplicates of a name; the projects and tags of the tasks found are
\* looked up to name them.
task_find_similar(d, a, g) ==
    LET scope == IF Given(a, "scope") THEN a.scope ELSE Nothing
        found == {x \in Val(g, 1) : Given(a, "completed") \/ ~x.dropped}
        projects == SetToSeq({x.project : x \in found} \ {None})
        tags == SetToSeq(UNION {x.tags : x \in found})
        some == (IF projects # <<>> THEN <<getProjectsMany(d, projects)>> ELSE <<>>)
                \o (IF tags # <<>> THEN <<getTagsMany(d, tags)>> ELSE <<>>)
    IN CASE Len(g) = 0 ->
              Ask(listTasks(d, (IF Given(a, "completed") THEN Nothing ELSE [completed |-> FALSE]) @@ scope))
         [] OTHER      -> IF Len(g) <= Len(some) THEN Ask(some[Len(g)]) ELSE Same(found)

\* What a writing tool would do, in words: every look-up may fail.
The(kind, id) == [kind |-> kind, id |-> id]
LookUp(d, x) ==
    CASE x.kind = "task"    -> getTask(d, x.id)
      [] x.kind = "project" -> getProject(d, x.id)
      [] x.kind = "tag"     -> getTag(d, x.id)
      [] OTHER (* folder *) -> getFolder(d, x.id)
Described(d, g, those) == IF Len(g) < Len(those) THEN Try(LookUp(d, those[Len(g) + 1])) ELSE Preview(None)

PlaceNames(to) ==
    IF Given(to, "project") THEN <<The("project", to.project)>>
    ELSE IF Given(to, "parent") THEN <<The("task", to.parent)>> ELSE <<>>
TagNames(tags) == LET s == SetToSeq(tags) IN [i \in DOMAIN s |-> The("tag", s[i])]

task_create_describe(d, a, g)   == Described(d, g, PlaceNames(a) \o TagNames(Tags(a.fields, "tags")))
task_complete_describe(d, a, g) == Described(d, g, <<The("task", a.id)>>)
task_drop_describe(d, a, g)     == Described(d, g, <<The("task", a.id)>>)
task_delete_describe(d, a, g)   == Described(d, g, <<The("task", a.id)>>)
task_move_describe(d, a, g)     == Described(d, g, <<The("task", a.id)>> \o PlaceNames(a.to))
task_update_describe(d, a, g)   ==
    Described(d, g, <<The("task", a.id)>>
                    \o (IF Len(g) > 0 /\ ~Ok(g, 1) THEN <<>>
                        ELSE TagNames(Tags(a.set, "tags")) \o TagNames(Tags(a, "add"))
                             \o TagNames(Tags(a, "remove"))))
=============================================================================
