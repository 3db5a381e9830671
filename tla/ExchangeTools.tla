---------------------------- MODULE ExchangeTools ---------------------------
(***************************************************************************)
(* The tools that take many objects out of the document or put them in:    *)
(* export and import (src/services/exportService.ts, src/tools/export) and *)
(* the project templates, which are an export kept in a note               *)
(* (src/tools/project/template*.ts).                                       *)
(*                                                                         *)
(* A text is what its parser makes of it, a sequence of tasks:             *)
(*   [under, heading, fields, tags, end]                                   *)
(* the earlier task this one is in (0 for none), the name of the project   *)
(* over it, the names of its tags in order, and whether it is "done",      *)
(* "dropped" or "open".                                                    *)
(***************************************************************************)
EXTENDS LibraryTools

-----------------------------------------------------------------------------
\* Reading projects with their tasks, and (deep) what is in each task again.
\* The reads of several projects go out at once, here one after the other.

Gathered(projects, deep, g) ==
    LET Turn(s, r) ==
            LET found == SetToSeq({x.id : x \in r.val} \ s.seen) IN
            [left |-> IF s.todo = <<>> THEN Tail(s.left) ELSE s.left,
             todo |-> (IF s.todo = <<>> THEN <<>> ELSE Tail(s.todo)) \o (IF deep THEN found ELSE <<>>),
             seen |-> s.seen \cup ToSet(found)]
    IN FoldLeft(Turn, [left |-> projects, todo |-> <<>>, seen |-> {}], g)

Gather(d, s, finish) ==
    CASE s.todo # <<>>                    -> Ask(listTasks(d, [parent |-> Head(s.todo)]))
      [] s.todo = <<>> /\ s.left # <<>>   -> Ask(listTasks(d, [project |-> Head(s.left)]))
      [] OTHER                            -> finish

\* An empty list of a folder may be that of no folder.
Export(d, a, g, deep) ==
    LET found == IF a.scope = "project" THEN {a.id} ELSE {p.id : p \in Val(g, 1)}
        check == a.scope = "folder" /\ found = {}
        read == IF check THEN 2 ELSE 1
        s == Gathered(SetToSeq(found), deep, SubSeq(g, read + 1, Len(g)))
    IN CASE a.scope # "all" /\ ~Given(a, "id") -> Fail("Validation")
         [] OTHER -> CASE Len(g) = 0 -> Ask(CASE a.scope = "all"     -> listProjects(d, [status |-> "active"])
                                              [] a.scope = "folder"  -> listProjects(d, [folder |-> a.id])
                                              [] OTHER               -> getProject(d, a.id))
                       [] Len(g) = 1 /\ check -> Try(getFolder(d, a.id))
                       [] Len(g) > 1 /\ check /\ ~Ok(g, 2) -> Fail("NotFound")
                       [] OTHER -> Gather(d, s, Same(s.seen))

export_opml(d, a, g)      == Export(d, a, g, FALSE)
export_taskpaper(d, a, g) == Export(d, a, g, TRUE)

-----------------------------------------------------------------------------
\* Importing a text.  For each task the tags it names are made unless they are
\* known (one that cannot be made is left out), then the task, and then it is
\* completed or dropped.  What was made stays when a later task fails.

Missing(s, text) == SelectSeq(text[s.i].tags, LAMBDA n : n \notin DOMAIN s.known \cup s.failed)

Imported(text, known, g) ==
    LET next(s) == [s EXCEPT !.i = @ + 1, !.failed = {}, !.made = FALSE]
        Turn(s, r) ==
            CASE s.i > Len(text) -> [s EXCEPT !.named = TRUE]
              [] s.i <= Len(text) ->
                    CASE s.made -> next(s)
                      [] ~s.made /\ Missing(s, text) # <<>> ->
                            IF r.code = "OK" THEN [s EXCEPT !.known = (Head(Missing(s, text)) :> r.val.id) @@ @]
                            ELSE [s EXCEPT !.failed = @ \cup {Head(Missing(s, text))}]
                      [] OTHER ->
                            LET e == [s EXCEPT !.created = Append(@, r.val)] IN
                            IF text[s.i].end = "open" THEN next(e) ELSE [e EXCEPT !.made = TRUE]
    IN FoldLeft(Turn, [i |-> 1, known |-> known, failed |-> {}, created |-> <<>>, made |-> FALSE,
                       named |-> FALSE], g)

Import(d, text, project, s, finish) ==
    LET x == text[s.i]
        own == {s.known[n] : n \in ToSet(x.tags) \cap DOMAIN s.known}
        input == [blank |-> FALSE,
                  project |-> IF x.under # 0 THEN None ELSE project,
                  parent |-> IF x.under # 0 THEN s.created[x.under] ELSE None,
                  fields |-> (IF own = {} THEN Nothing ELSE [tags |-> own]) @@ x.fields]
    IN CASE s.i > Len(text) -> finish
         [] OTHER ->
               CASE s.made -> Ask(IF x.end = "done" THEN completeTask(d, Last(s.created))
                                  ELSE dropTask(d, Last(s.created)))
                 [] ~s.made /\ Missing(s, text) # <<>> ->
                       Try(createTag(d, [blank |-> FALSE, name |-> Head(Missing(s, text)), parent |-> None]))
                 [] OTHER -> Ask(createTask(d, input, FALSE))

\* Tags by name, from a list of them.
ByName(rows) == [n \in {x.name : x \in rows} |-> OneOf(Called(rows, n))]

\* The project the heading over the next task stands for, unless the caller
\* says which; an unknown one is the inbox.
Title(text, s) == IF s.i > Len(text) THEN None ELSE text[s.i].heading
Titled(rows, title) == IF title = None THEN {} ELSE Called(rows, title)
Heading(a, those) ==
    CASE Given(a, "target")                   -> a.target
      [] ~Given(a, "target") /\ those # {}    -> OneOf(those)
      [] OTHER                                -> None

\* The tasks that were made are looked up, to name them in the answer.
Looked(d, s) ==
    IF s.created = <<>> \/ s.named THEN Same(s.created) ELSE Ask(getTasksMany(d, s.created))

import_taskpaper(d, a, g) ==
    LET s == Imported(a.text, ByName(Val(g, 1)), SubSeq(g, 3, Len(g))) IN
    CASE a.text = <<>> -> Fail("Validation")
      [] OTHER -> CASE Len(g) = 0 -> Ask(listTags(d, Nothing))
                    [] Len(g) = 1 -> Ask(listProjects(d, Nothing))
                    [] OTHER      -> Import(d, a.text, Heading(a, Titled(Val(g, 2), Title(a.text, s))), s, Looked(d, s))

\* An outline has no tags, and its projects go by their ids first.
import_opml(d, a, g) ==
    LET s == Imported(a.text, Nothing, Tail(g))
        title == Title(a.text, s)
        marked == {p.id : p \in Val(g, 1)} \cap {title}
        those == IF marked # {} THEN marked ELSE Titled(Val(g, 1), title)
    IN
    CASE a.text = <<>> -> Fail("Validation")
      [] OTHER -> CASE Len(g) = 0 -> Ask(listProjects(d, Nothing))
                    [] OTHER      -> Import(d, a.text, Heading(a, those), s, Looked(d, s))

-----------------------------------------------------------------------------
\* Templates: the projects of one folder whose note has the fence of one.

Fenced(p) == "template" \in ToSet(Paragraphs(p.note))
TemplateFolders(rows) == Called(rows, TemplatesFolder)

\* The folder and its projects, and then; or missing, when there is no folder.
InTemplates(d, g, missing, then) ==
    CASE Len(g) = 0 -> Ask(listFolders(d, Nothing))
      [] Len(g) = 1 -> IF TemplateFolders(Val(g, 1)) = {} THEN missing
                       ELSE Ask(listProjects(d, [folder |-> OneOf(TemplateFolders(Val(g, 1)))]))
      [] OTHER      -> then

project_template_list(d, a, g) ==
    InTemplates(d, g, Same({}), Same({p.id : p \in {q \in Val(g, 2) : Fenced(q)}}))

project_template_delete(d, a, g) ==
    LET those == Called({p \in Val(g, 2) : Fenced(p)}, a.name)
        p == OneOf(those)
    IN InTemplates(d, g, Fail("NotFound"),
           IF those = {} THEN Fail("NotFound")
           ELSE IF Len(g) = 2 THEN Ask(deleteProject(d, p)) ELSE Done(ProjectScopes(p), a.name))

\* a.text is what the note comes to with the parameters, and a.complete that
\* none of them is missing.
project_template_instantiate(d, a, g) ==
    LET those == {p \in Val(g, 2) : p.name = a.name}
        usable == those # {} /\ Fenced(OneOf(those))
        p == Val(g, 3).id
        s == Imported(a.text, ByName(Val(g, 4)), SubSeq(g, 6, Len(g)))
    IN InTemplates(d, g, Fail("NotFound"),
           CASE ~usable -> Fail("NotFound")
             [] usable /\ ~a.complete -> Fail("Validation")
             [] OTHER ->
                  CASE Len(g) = 2 -> Ask(createProject(d, [blank |-> FALSE, folder |-> Opt(a, "folder"),
                                                           fields |-> [name |-> a.name]], FALSE))
                    [] Len(g) = 3 -> Ask(listTags(d, Nothing))
                    [] Len(g) = 4 -> Ask(listProjects(d, Nothing))
                    [] OTHER      -> Import(d, a.text, p, s, Done(ProjectScopes(p), p)))

\* Saving a project as a template: the folder is made when it is missing, and
\* the tasks are written into the note.
project_template_save(d, a, g) ==
    LET folders == TemplateFolders(Val(g, 2))
        read == IF folders = {} THEN 3 ELSE 2
        f == IF folders = {} THEN Val(g, 3).id ELSE OneOf(folders)
        s == Gathered(<<a.id>>, TRUE, SubSeq(g, read + 3, Len(g)))
        new == [blank |-> FALSE, folder |-> f, fields |-> [name |-> a.name, note |-> <<"template">>]]
        saved == Last(g).val
    IN CASE Len(g) = 0 -> Ask(getProject(d, a.id))
         [] Len(g) = 1 -> Ask(listFolders(d, Nothing))
         [] Len(g) = 2 /\ folders = {} ->
               Ask(createFolder(d, [blank |-> FALSE, name |-> TemplatesFolder, parent |-> None]))
         [] Len(g) > 1 /\ Len(g) = read -> Ask(listProjects(d, [folder |-> f]))
         [] Len(g) > 2 /\ Len(g) = read + 1 -> IF Called(Last(g).val, a.name) # {} THEN Fail("Exists")
                                ELSE Ask(getProject(d, a.id))
         [] OTHER -> LET before == Gathered(<<a.id>>, TRUE, SubSeq(g, read + 3, Len(g) - 1)) IN
                     IF Len(g) > read + 2 /\ before.left = <<>> /\ before.todo = <<>>
                     THEN Done(ProjectScopes(saved.id), saved.id)
                     ELSE Gather(d, s, Ask(createProject(d, new, FALSE)))
=============================================================================
