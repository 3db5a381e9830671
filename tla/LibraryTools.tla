---------------------------- MODULE LibraryTools ----------------------------
(***************************************************************************)
(* The tools on notes and decisions, projects and their templates and      *)
(* reviews, tags, folders, the forecast, perspectives and undo             *)
(* (src/tools/note, decision, project, review, tag, folder, forecast,      *)
(* perspective, database, sync), one operator for each, named after it.    *)
(***************************************************************************)
EXTENDS BatchTools

CONSTANTS TemplatesFolder, \* the name of the folder that holds the templates
          Builtins         \* ids of the built-in perspectives

Called(rows, name) == {x.id : x \in {y \in rows : y.name = name}}
OneOf(S) == CHOOSE x \in S : TRUE

\* A read and one write after it, both through the adapter or the service.
ReadWrite(g, read, write, scopes, v) ==
    CASE Len(g) = 0 -> read
      [] Len(g) = 1 -> Ask(write)
      [] OTHER      -> Done(scopes, v)

\* A write, and the row as it is afterwards.
WriteRead(g, write, scopes, read) ==
    CASE Len(g) = 0 -> Ask(write)
      [] Len(g) = 1 -> Flush(scopes, Ask(read))
      [] OTHER      -> Same(Val(g, 2))

-----------------------------------------------------------------------------
\* Notes and decisions, of a task or a project: [kind, id].

OwnerOf(d, o) == IF o.kind = "task" THEN getTask(d, o.id) ELSE getProject(d, o.id)
SetOwner(d, o, patch) ==
    IF o.kind = "task" THEN updateTask(d, o.id, patch, FALSE) ELSE updateProject(d, o.id, patch, FALSE)
OwnerScopes(o, row) == IF o.kind = "task" THEN Around(o.id, row) ELSE ProjectScopes(o.id)

\* The note is read, made anew from what was read, and written.
NewNote(d, o, g, patch) ==
    ReadWrite(g, Ask(OwnerOf(d, o)), SetOwner(d, o, patch), OwnerScopes(o, Val(g, 1)), patch)

note_append(d, a, g) ==
    NewNote(d, a.of, g, [note |-> Append(Paragraphs(Val(g, 1).note), a.text)])
note_set(d, a, g) == NewNote(d, a.of, g, [note |-> a.note])
note_set_html(d, a, g) == NewNote(d, a.of, g, [noteHtml |-> a.html])
note_get(d, a, g) == Read(g, Ask(OwnerOf(d, a.of)))
note_get_html(d, a, g) == Read(g, Ask(getNoteHtml(d, a.of.kind, a.of.id)))

decision_record(d, a, g) ==
    NewNote(d, a.of, g, [note |-> upsertFence(Val(g, 1).note, "decision")])
decision_clear(d, a, g) ==
    IF Len(g) = 1 /\ "decision" \notin ToSet(Paragraphs(Val(g, 1).note)) THEN NoChange
    ELSE NewNote(d, a.of, g, [note |-> removeFence(Val(g, 1).note, "decision")])

-----------------------------------------------------------------------------
\* Projects.  The row read first only serves to name the project, and may be
\* an old one.

ProjectChange(a, g, write) == ReadWrite(g, Cached(<<"project", a.id, "solo">>), write, ProjectScopes(a.id), a.id)

project_complete(d, a, g) == ProjectChange(a, g, completeProject(d, a.id))
project_drop(d, a, g)     == ProjectChange(a, g, dropProject(d, a.id))
project_move(d, a, g)     == ProjectChange(a, g, moveProject(d, a.id, a.folder))

GuardedProject(d, a, g, write) ==
    CASE Len(g) = 0 -> Ask(getProject(d, a.id))
      [] Len(g) = 1 -> Guarded(a, Val(g, 1), Preview(a.id), Ask(write))
      [] OTHER      -> Done(ProjectScopes(a.id), a.id)

project_delete(d, a, g) == GuardedProject(d, a, g, deleteProject(d, a.id))
project_update(d, a, g) == GuardedProject(d, a, g, updateProject(d, a.id, a.set, FALSE))

\* _doCreate, and the choice of the project that is there.
doCreate(d, a, g) ==
    CASE Len(g) = 0 -> Ask(createProject(d, [blank |-> FALSE, folder |-> Opt(a, "folder"), fields |-> a.fields],
                                         FALSE))
      [] OTHER      -> Done(ProjectScopes(Val(g, 1).id), Val(g, 1).id)
keepProject(d, a, g) == Same(a.id)

\* A second project of a name is not made before the caller has said so.
\* Without the list there is no question.
Taken(a, rows) == Called({p \in rows : p.status # "dropped"}, a.fields.name)

project_create(d, a, g) ==
    LET taken == Taken(a, Val(g, 1)) IN
    CASE Len(g) = 0 -> Try(listProjects(d, Nothing))
      [] OTHER      -> IF Ok(g, 1) /\ taken # {}
                       THEN Clarify(<<[tool |-> "keepProject", args |-> [id |-> OneOf(taken)]],
                                      [tool |-> "doCreate", args |-> a]>>)
                       ELSE doCreate(d, a, Tail(g))

project_get(d, a, g) == Read(g, Cached(<<"project", a.id, a.form>>))
ReadMany(a, g, step) ==
    CASE a.ids = <<>>        -> Same(<<>>)
      [] Len(a.ids) > MaxIds -> Fail("Validation")
      [] OTHER               -> Read(g, step)
project_get_many(d, a, g) == ReadMany(a, g, Ask(getProjectsMany(d, a.ids)))
project_list(d, a, g) ==
    IF Unbounded(a) THEN Fail("Validation")
    ELSE Read(g, Cached(<<"search", "projects", a.filter>>))

FolderName(a) == IF Opt(a, "folder") # None THEN <<The("folder", a.folder)>> ELSE <<>>
project_create_describe(d, a, g)   == Described(d, g, FolderName(a) \o TagNames(Tags(a.fields, "tags")))
project_complete_describe(d, a, g) == Described(d, g, <<The("project", a.id)>>)
project_drop_describe(d, a, g)     == Described(d, g, <<The("project", a.id)>>)
project_delete_describe(d, a, g)   == Described(d, g, <<The("project", a.id)>>)
project_update_describe(d, a, g)   == Described(d, g, <<The("project", a.id)>>)
project_move_describe(d, a, g)     == Described(d, g, <<The("project", a.id)>> \o FolderName(a))

-----------------------------------------------------------------------------
\* Reviews.  That the project cannot be read afterwards is passed over.

Reviewed(d, p, g, write) ==
    CASE Len(g) = 0 -> Ask(write)
      [] Len(g) = 1 -> Flush(ProjectScopes(p), Try(getProject(d, p)))
      [] OTHER      -> Same(p)

review_list_due(d, a, g)              == Read(g, Ask(listProjectsDueForReview(d)))
review_mark_reviewed(d, a, g)         == Reviewed(d, a.id, g, markProjectReviewed(d, a.id))
project_mark_reviewed(d, a, g)        == Reviewed(d, a.id, g, markProjectReviewed(d, a.id))
review_set_interval(d, a, g)          == Reviewed(d, a.id, g, setProjectReviewInterval(d, a.id, a.days))
project_set_next_review_date(d, a, g) == Reviewed(d, a.id, g, setProjectNextReviewDate(d, a.id, a.date))

-----------------------------------------------------------------------------
\* Tags

tag_create(d, a, g) ==
    LET g1 == Val(g, 1).id IN
    WriteRead(g, createTag(d, [blank |-> FALSE, parent |-> Opt(a, "parent")]), TagScopes(g1), getTag(d, g1))

SetTag(d, g1, g, patch) == WriteRead(g, updateTag(d, g1, patch), TagScopes(g1), getTag(d, g1))
tag_update(d, a, g)                  == SetTag(d, a.id, g, a.set)
tag_move(d, a, g)                    == SetTag(d, a.id, g, [parent |-> a.parent])
tag_set_status(d, a, g)              == SetTag(d, a.id, g, [status |-> a.status])
tag_set_allows_next_action(d, a, g)  == SetTag(d, a.id, g, [nextAction |-> a.on])
tag_set_location(d, a, g)            == SetTag(d, a.id, g, [location |-> a.location])
tag_get_location(d, a, g)            == Read(g, Ask(getTag(d, a.id)))

tag_delete(d, a, g) ==
    CASE Len(g) = 0 -> Ask(deleteTag(d, a.id))
      [] OTHER      -> Done(TagScopes(a.id), a.id)

tag_get(d, a, g)      == Read(g, Ask(getTag(d, a.id)))
tag_get_many(d, a, g) == ReadMany(a, g, Ask(getTagsMany(d, a.ids)))
tag_list(d, a, g)     == Read(g, Cached(<<"tag", "list", a.filter>>))

TagName(a) == IF Opt(a, "parent") # None THEN <<The("tag", a.parent)>> ELSE <<>>
tag_create_describe(d, a, g) == Described(d, g, TagName(a))
tag_update_describe(d, a, g) == Described(d, g, <<The("tag", a.id)>>)
tag_delete_describe(d, a, g) == Described(d, g, <<The("tag", a.id)>>)
tag_move_describe(d, a, g)   == Described(d, g, <<The("tag", a.id)>> \o TagName(a))

-----------------------------------------------------------------------------
\* Folders

folder_create(d, a, g) ==
    LET f == Val(g, 1).id IN
    WriteRead(g, createFolder(d, [blank |-> FALSE, parent |-> Opt(a, "parent")]), FolderScopes(f), getFolder(d, f))
SetFolder(d, f, g, patch) == WriteRead(g, updateFolder(d, f, patch), FolderScopes(f), getFolder(d, f))
folder_update(d, a, g) == SetFolder(d, a.id, g, a.set)
folder_move(d, a, g)   == SetFolder(d, a.id, g, [parent |-> a.parent])

\* Emptying a folder: its projects leave it, all at once (here one after the
\* other), then each folder in it is emptied and deleted.  What is left to do
\* is a stack; when a project cannot leave, the others still do, and the call
\* ends with that first error.
Emptying(f) == <<[op |-> "projects", id |-> f], [op |-> "folders", id |-> f]>>
Deleting(f) == <<[op |-> "delete", id |-> f]>>
Leaving(x) == x.op = "leave"

Replied(todo, r) ==
    LET next == Head(todo)
        ids == SetToSeq({x.id : x \in r.val})
    IN CASE r.code # "OK"           -> SelectSeq(Tail(todo), Leaving)
         [] next.op = "projects" /\ r.code = "OK" ->
               [i \in DOMAIN ids |-> [op |-> "leave", id |-> ids[i]]] \o Tail(todo)
         [] next.op = "folders" /\ r.code = "OK"  ->
               FlattenSeq([i \in DOMAIN ids |-> Emptying(ids[i]) \o Deleting(ids[i])]) \o Tail(todo)
         [] OTHER                   -> Tail(todo)

folder_delete(d, a, g) ==
    LET start == (IF Given(a, "cascade") THEN Emptying(a.id) ELSE <<>>) \o Deleting(a.id)
        todo == FoldLeft(Replied, start, g)
        next == Head(todo)
        stuck == {i \in DOMAIN g : ~Ok(g, i)}
    IN CASE todo = <<>> /\ stuck = {}  -> Done(FolderScopes(a.id), a.id)
         [] todo = <<>> /\ stuck # {}  -> Fail(g[Min(stuck)].code)
         [] OTHER -> CASE next.op = "projects" -> Ask(listProjects(d, [folder |-> next.id]))
                       [] next.op = "leave"    -> Try(moveProject(d, next.id, None))
                       [] next.op = "folders"  -> Ask(listFolders(d, [parent |-> next.id]))
                       [] OTHER (* delete *)   -> Ask(deleteFolder(d, next.id))

folder_get(d, a, g)  == Read(g, Ask(getFolder(d, a.id)))
folder_list(d, a, g) == Read(g, Cached(<<"folder", "list", a.filter>>))

ParentName(a) == IF Opt(a, "parent") # None THEN <<The("folder", a.parent)>> ELSE <<>>
folder_create_describe(d, a, g) == Described(d, g, ParentName(a))
folder_update_describe(d, a, g) == Described(d, g, <<The("folder", a.id)>>)
folder_delete_describe(d, a, g) == Described(d, g, <<The("folder", a.id)>>)
folder_move_describe(d, a, g)   == Described(d, g, <<The("folder", a.id)>> \o ParentName(a))

-----------------------------------------------------------------------------
\* The forecast, perspectives, undo

forecast_get(d, a, g)  == Read(g, Cached(<<"forecast", a.days>>))
\* What is due, without any task twice.
forecast_pack(d, a, g) ==
    IF Len(g) = 0 THEN Cached(<<"forecast", a.days>>)
    ELSE Same(UNION {Val(g, 1).overdue, Val(g, 1).today, Val(g, 1).deferred, Val(g, 1).flagged})
forecast_get_tag(d, a, g) == Read(g, Ask(getForecastTagWithName(d)))

Written(g, write, scopes, v) ==
    CASE Len(g) = 0 -> Ask(write)
      [] OTHER      -> Done(scopes, v)

forecast_set_tag(d, a, g) == Written(g, setForecastTagWithName(d, a.tag), ForecastScope, a.tag)

perspective_create(d, a, g) ==
    Written(g, createCustomPerspective(d, [name |-> a.name, rules |-> a.rules], "no"), PerspectiveScope, Val(g, 1))
perspective_update(d, a, g) ==
    IF a.id \in Builtins THEN Fail("Validation")
    ELSE Written(g, updateCustomPerspective(d, a.id, a.set, "no"), PerspectiveScope, a.id)
perspective_delete(d, a, g) ==
    IF a.id \in Builtins THEN Fail("Validation")
    ELSE Written(g, deleteCustomPerspective(d, a.id), PerspectiveScope, a.id)
perspective_evaluate(d, a, g) ==
    Read(g, Ask(IF a.id \in Builtins THEN evaluatePerspective(d, a.id) ELSE evaluateCustomPerspective(d, a.id)))
perspective_evaluate_dry_run(d, a, g) == Read(g, Ask(evaluatePerspectiveRules(d, a.rules, "no")))
perspective_get(d, a, g) ==
    IF a.id \in Builtins THEN Fail("Validation") ELSE Read(g, Ask(getCustomPerspective(d, a.id)))
perspective_list(d, a, g) == Read(g, Ask(listPerspectives(d)))

\* a.past is what OmniFocus goes back to.
Undone(g, step) ==
    CASE Len(g) = 0 -> Ask(step)
      [] OTHER      -> Done(IF Val(g, 1) THEN Everything ELSE {}, Val(g, 1))
database_undo(d, a, g) == Undone(g, undoLastMutation(d, a.past))
database_redo(d, a, g) == Undone(g, redoLastMutation(d, a.past))

-----------------------------------------------------------------------------
\* Attachments, of an owner [task, project], and the front window: nothing of
\* them is cached.  a.allowed is what the guard of file paths says.

OwnerKind(o) == IF o.task # None THEN [kind |-> "task", id |-> o.task] ELSE [kind |-> "project", id |-> o.project]

attachment_list(d, a, g) == Read(g, Ask(listAttachments(d, a.of)))
attachment_create(d, a, g) ==
    CASE Len(g) = 0 -> IF a.allowed THEN Ask(addAttachment(d, a.of)) ELSE Fail("Validation")
      [] Len(g) = 1 -> Try(OwnerOf(d, OwnerKind(a.of)))
      [] OTHER      -> Same(Val(g, 1))
attachment_delete(d, a, g) ==
    CASE Len(g) = 0 -> Try(OwnerOf(d, OwnerKind(a.of)))
      [] Len(g) = 1 -> Ask(removeAttachment(d, a.of, a.id))
      [] OTHER      -> Same(a.id)
attachment_save_to_path(d, a, g) ==
    IF ~a.allowed THEN Fail("Validation")
    ELSE Read(g, Ask(saveAttachmentToPath(d, a.of, a.id, a.path, {})))

window_get_state(d, a, g)       == Read(g, Ask(getWindowState(d)))
window_set_focus(d, a, g)       == Read(g, Ask(setWindowFocus(d, a.on)))
window_set_perspective(d, a, g) == Read(g, Ask(setWindowPerspective(d, a.name)))

\* Synchronising is external; what it may bring is not looked at.
sync_status(d, a, g)  == Read(g, Ask(Answer(d, None)))
sync_trigger(d, a, g) == Written(g, Answer(d, TRUE), Everything, None)
=============================================================================
