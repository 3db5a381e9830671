------------------------------ MODULE Document ------------------------------
(***************************************************************************)
(* The OmniFocus document as the scripts of this repository see it, and    *)
(* the JSON they build of its objects (src/scripts/jxa/_helpers).          *)
(*                                                                         *)
(* The document is a record of functions whose domains are the objects     *)
(* that exist.  A task is in the inbox, in a project or in another task;   *)
(* the project of a task is never stored.  Of the names only those that    *)
(* are looked up are kept (a blank name is refused where the code refuses  *)
(* it), a note is its paragraphs, dates are small numbers.                 *)
(* What OmniFocus does by itself is external.                              *)
(***************************************************************************)
EXTENDS Integers, FiniteSets, SequencesExt

CONSTANTS TaskIds, ProjectIds, TagIds, FolderIds,
          PerspectiveIds, \* ids of custom perspectives
          Inbox,          \* the container of a task outside any project
          None            \* null

ASSUME DocumentIds ==
    /\ {Inbox, None} \cap (TaskIds \cup ProjectIds \cup TagIds \cup FolderIds) = {}
    /\ TaskIds \cap ProjectIds = {}

Nothing == [k \in {} |-> None]
Has(f, id) == id \in DOMAIN f

\* The function with an entry put in or replaced, and a row with fields put
\* over its own.
With(f, id, v) == [x \in DOMAIN f \cup {id} |-> IF x = id THEN v ELSE f[x]]
Over(row, fields) ==
    [k \in DOMAIN row \cup DOMAIN fields |-> IF Has(fields, k) THEN fields[k] ELSE row[k]]

\* The function, and the sequence, without the objects of S.
Without(f, S) == Restrict(f, DOMAIN f \ S)
Omitting(s, S) ==
    LET left[n \in 0..Len(s)] ==
            IF n = 0 THEN <<>> ELSE IF s[n] \in S THEN left[n - 1] ELSE Append(left[n - 1], s[n])
    IN left[Len(s)]

\* A new id.  Ids are never used again, also not after a deletion.
NewId(d, ids) == CHOOSE id \in ids : id \notin d.used
CanCreate(d, ids) == ids \ d.used # {}

NewTask(at) ==
    [at |-> at, done |-> FALSE, dropped |-> FALSE, flagged |-> FALSE, note |-> None,
     due |-> None, defer |-> None, tags |-> {}, alarms |-> <<>>,
     repeat |-> None, past |-> 0]
NewProject(folder) ==
    [folder |-> folder, name |-> None, status |-> "active", flagged |-> FALSE, note |-> None,
     tags |-> {}, criterion |-> "parallel", interval |-> None, next |-> None, last |-> None]
NewTag(parent) == [parent |-> parent, name |-> None, status |-> "active", nextAction |-> TRUE]
NewFolder(parent) == [parent |-> parent, name |-> None]

-----------------------------------------------------------------------------
\* Containment

\* The tasks t is in, itself included.
Chain(d, t) ==
    LET up[n \in 0..Cardinality(DOMAIN d.tasks)] ==
            [x \in DOMAIN d.tasks |->
                IF n = 0 \/ ~Has(d.tasks, d.tasks[x].at) THEN {x}
                ELSE {x} \cup up[n - 1][d.tasks[x].at]]
    IN up[Cardinality(DOMAIN d.tasks)][t]

Subtree(d, t) == {x \in DOMAIN d.tasks : t \in Chain(d, x)}
ChildTasks(d, c) == {x \in DOMAIN d.tasks : d.tasks[x].at = c}

\* task.containingProject, or null.
ProjectOf(d, t) ==
    LET root == CHOOSE x \in Chain(d, t) : ~Has(d.tasks, d.tasks[x].at)
    IN IF Has(d.projects, d.tasks[root].at) THEN d.tasks[root].at ELSE None

ParentOf(d, t) == IF Has(d.tasks, d.tasks[t].at) THEN d.tasks[t].at ELSE None

\* Mutant: project.tasks(), the tasks directly in the project.
TopTasksOnly(d, p) == {x \in DOMAIN d.tasks : d.tasks[x].at = p}

\* project.flattenedTasks()
FlattenedTasks(d, p) == {x \in DOMAIN d.tasks : ProjectOf(d, x) = p}

-----------------------------------------------------------------------------
\* The JSON the scripts answer with.

BuildTask(d, t) ==
    LET x == d.tasks[t] IN
    [id |-> t, project |-> ProjectOf(d, t), parent |-> ParentOf(d, t), tags |-> x.tags,
     flagged |-> x.flagged, completed |-> x.done, dropped |-> x.dropped, note |-> x.note,
     due |-> x.due, defer |-> x.defer, repeat |-> x.repeat]

BuildProject(d, p) ==
    LET x == d.projects[p]
        in == FlattenedTasks(d, p)
    IN [id |-> p, folder |-> x.folder, name |-> x.name, tags |-> x.tags, status |-> x.status,
        flagged |-> x.flagged, note |-> x.note, criterion |-> x.criterion,
        interval |-> x.interval, next |-> x.next, last |-> x.last,
        completed |-> x.status = "completed", dropped |-> x.status = "dropped",
        taskCount |-> Cardinality(in),
        completedTaskCount |-> Cardinality({t \in in : d.tasks[t].done})]

TasksTagged(d, g) == {t \in DOMAIN d.tasks : g \in d.tasks[t].tags}

BuildTag(d, g) ==
    [id |-> g, parent |-> d.tags[g].parent, name |-> d.tags[g].name, status |-> d.tags[g].status,
     nextAction |-> d.tags[g].nextAction, taskCount |-> Cardinality(TasksTagged(d, g))]

ProjectsIn(d, f) == {p \in DOMAIN d.projects : d.projects[p].folder = f}
FoldersIn(d, f) == {x \in DOMAIN d.folders : d.folders[x].parent = f}

BuildFolder(d, f) ==
    [id |-> f, parent |-> d.folders[f].parent, name |-> d.folders[f].name,
     projectCount |-> Cardinality(ProjectsIn(d, f)),
     subfolderCount |-> Cardinality(FoldersIn(d, f))]

-----------------------------------------------------------------------------
\* What a script, or an adapter method, comes to: the document afterwards, a
\* code ("OK" or that of an error) and the value answered.

Answer(d, v) == [doc |-> d, code |-> "OK", val |-> v]
Refuse(d, code) == [doc |-> d, code |-> code, val |-> None]

\* A script that throws after its changes, or after some of them.
Stopped(r) == IF r.code = "OK" THEN Refuse(r.doc, "Script") ELSE r

\* The fields that the scripts set before the dates and the tags.
SetFirst(fields) == Restrict(fields, DOMAIN fields \cap {"note", "flagged"})

\* lookupOrThrow, and the `filter(...)[0]` of the OmniJS scripts: the answer
\* when the object exists.
Found(d, f, id, answer) == IF Has(f, id) THEN answer ELSE Refuse(d, "NotFound")

\* A batch script tries its items in order; one that fails is reported and
\* does not stop the others.  One(d, item) is the body for one item.
EachItem(d, items, One(_, _)) ==
    LET Try(acc, i) ==
            LET r == One(acc.doc, items[i]) IN
            IF r.code = "OK"
            THEN [doc |-> r.doc, ok |-> Append(acc.ok, [index |-> i, value |-> r.val]),
                  bad |-> acc.bad]
            ELSE [doc |-> r.doc, ok |-> acc.ok,
                  bad |-> Append(acc.bad, [index |-> i, code |-> r.code])]
        after[i \in 0..Len(items)] ==
            IF i = 0 THEN [doc |-> d, ok |-> <<>>, bad |-> <<>>] ELSE Try(after[i - 1], i)
        all == after[Len(items)]
    IN Answer(all.doc, [ok |-> all.ok, bad |-> all.bad])

-----------------------------------------------------------------------------
\* What OmniFocus does when a script asks for it (external).

\* A task with a repetition rule is not done when it is completed: the next
\* occurrence comes in its place, with its dates moved on.  Of the completed
\* ones only the number is kept here.
Later(date) == IF date = None THEN None ELSE date + 1
NextOccurrence(row) == [row EXCEPT !.due = Later(@), !.defer = Later(@), !.past = @ + 1]

MarkComplete(d, t) ==
    [d EXCEPT !.tasks[t] = IF @.repeat = None THEN [@ EXCEPT !.done = TRUE] ELSE NextOccurrence(@)]
MarkDropped(d, t)    == [d EXCEPT !.tasks[t].dropped = TRUE]
MarkIncomplete(d, t) == [d EXCEPT !.tasks[t].done = FALSE, !.tasks[t].dropped = FALSE]

\* Deleting a task deletes what is in it.
DeleteTasks(d, S) ==
    [d EXCEPT !.tasks = Without(d.tasks, S),
              !.order = Omitting(d.order, S)]

AddTask(d, t, row) ==
    [d EXCEPT !.tasks = With(@, t, row), !.order = Append(d.order, t), !.used = @ \cup {t}]

\* moveTasks([t], location): the sequence with t put at a place of it.
PutFirst(s, t) == <<t>> \o Omitting(s, {t})
PutLast(s, t) == Append(Omitting(s, {t}), t)
PutBeside(s, t, ref, offset) ==
    LET rest == Omitting(s, {t})
        i == CHOOSE j \in 1..Len(rest) : rest[j] = ref
    IN InsertAt(rest, i + offset, t)

\* OmniFocus refuses to move a task into itself.
MoveTask(d, t, at, order) ==
    IF at \in Subtree(d, t) THEN Refuse(d, "Script")
    ELSE Answer([d EXCEPT !.tasks[t].at = at, !.order = order], t)
=============================================================================
