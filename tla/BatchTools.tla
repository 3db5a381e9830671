----------------------------- MODULE BatchTools ------------------------------
(***************************************************************************)
(* The tools on several tasks or projects at once (src/tools/task,         *)
(* src/tools/project), one operator for each, named after it.  An item     *)
(* that fails does not fail the call: the reply says which were done.      *)
(***************************************************************************)
EXTENDS TaskTools

CONSTANT HardCap \* matches one reclassification may change

ASSUME HardCapAssumption == HardCap \in Nat

\* The items of a batch answer, by index.
OkItems(r) == {r.ok[n].index : n \in DOMAIN r.ok}
BadItems(r) == {r.bad[n].index : n \in DOMAIN r.bad}

Outcome(done, failed) == [done |-> done, failed |-> failed]
Ids(ids, indexes) == {ids[i] : i \in indexes}

\* getTasksMany for the places of the tasks, the batch, and the scopes of the
\* items that were done.
Batch(d, ids, g, write, more) ==
    LET ok == OkItems(Val(g, 2)) IN
    CASE Len(g) = 0 -> Ask(getTasksMany(d, ids))
      [] Len(g) = 1 -> Ask(write)
      [] OTHER      -> Done(UNION {Around(ids[i], Val(g, 1)[i]) \cup more[i] : i \in ok},
                            Outcome(Ids(ids, ok), Ids(ids, BadItems(Val(g, 2)))))

NoMore(ids) == [i \in DOMAIN ids |-> {}]

task_batch_complete(d, a, g)   == Batch(d, a.ids, g, batchCompleteTasks(d, a.ids), NoMore(a.ids))
task_batch_uncomplete(d, a, g) == Batch(d, a.ids, g, batchUncompleteTasks(d, a.ids), NoMore(a.ids))
task_batch_delete(d, a, g)     == Batch(d, a.ids, g, batchDeleteTasks(d, a.ids), NoMore(a.ids))
task_batch_drop(d, a, g)       == Batch(d, a.ids, g, batchDropTasks(d, a.ids), NoMore(a.ids))
task_batch_undrop(d, a, g)     == Batch(d, a.ids, g, batchUndropTasks(d, a.ids), NoMore(a.ids))

\* An item: [id, patch].
task_batch_update(d, a, g) ==
    LET ids == [i \in DOMAIN a.items |-> a.items[i].id]
    IN Batch(d, ids, g, batchUpdateTasks(d, a.items), NoMore(ids))

\* An item: [id, to].
task_batch_move(d, a, g) ==
    LET ids == [i \in DOMAIN a.items |-> a.items[i].id]
        moves == [i \in DOMAIN a.items |-> [id |-> ids[i], to |-> Destination(a.items[i].to)]]
    IN Batch(d, ids, g, batchMoveTasks(d, moves),
             [i \in DOMAIN ids |-> NewPlace(a.items[i].to, Val(g, 1)[i])])

\* An item: [project, parent, fields].  Nothing is invalidated when no item
\* was created.
task_batch_create(d, a, g) ==
    LET input(x) == [blank |-> FALSE, project |-> Opt(x, "project"), parent |-> Opt(x, "parent"),
                     fields |-> x.fields]
        ok == OkItems(Val(g, 1))
        made == {Val(g, 1).ok[n].value : n \in DOMAIN Val(g, 1).ok}
        scopes == IF ok = {} THEN {}
                  ELSE TaskScopes({Opt(a.items[i], "parent") : i \in ok}, {Opt(a.items[i], "project") : i \in ok})
    IN CASE Len(g) = 0 -> Ask(batchCreateTasks(d, [i \in DOMAIN a.items |-> input(a.items[i])]))
         [] OTHER      -> Done(scopes, Outcome(made, BadItems(Val(g, 1))))

task_batch_create_describe(d, a, g) ==
    Described(d, g, FlattenSeq([i \in DOMAIN a.items |-> PlaceNames(a.items[i])]))
task_batch_update_describe(d, a, g) ==
    Described(d, g, [i \in DOMAIN a.items |-> The("task", a.items[i].id)])

\* Each project that was done is invalidated.
ProjectsBatch(d, ids, g, write) ==
    LET ok == OkItems(Val(g, 2)) IN
    CASE Len(g) = 0 -> Ask(getProjectsMany(d, ids))
      [] Len(g) = 1 -> Ask(write)
      [] OTHER      -> Done(UNION {ProjectScopes(ids[i]) : i \in ok},
                            Outcome(Ids(ids, ok), Ids(ids, BadItems(Val(g, 2)))))

project_batch_complete(d, a, g) == ProjectsBatch(d, a.ids, g, batchCompleteProjects(d, a.ids))
project_batch_drop(d, a, g)     == ProjectsBatch(d, a.ids, g, batchDropProjects(d, a.ids))

-----------------------------------------------------------------------------
\* Moving and updating in one call.  An item: [id, project, add, remove, set].
\* The moves go first; an item whose move failed is not updated, one whose
\* update failed stays moved, is reported as failed, and is not invalidated.

\* Mutant: an item is reported as done when its move was, whatever its update.
NotMoved(stuck, unwritten) == stuck

NotDone(stuck, unwritten) == stuck \cup unwritten

\* The indexes of S, the lowest first.
InOrder(S) == [k \in 1..Cardinality(S) |-> CHOOSE i \in S : Cardinality({j \in S : j < i}) = k - 1]

task_batch_assign(d, a, g) ==
    LET all == DOMAIN a.items
        id(i) == a.items[i].id
        diffs(i) == Given(a.items[i], "add") \/ Given(a.items[i], "remove")
        tagged == InOrder({i \in all : diffs(i)})
        moving == InOrder({i \in all : Given(a.items[i], "project")})
        read == 1 + (IF tagged = <<>> THEN 0 ELSE 1)
        moved == read + (IF moving = <<>> THEN 0 ELSE 1)
        stuck == IF moved = read THEN {} ELSE Ids(moving, BadItems(Val(g, moved)))
        \* The tags of the second read; a task that is not there has none.
        tagsOf(i) == LET k == CHOOSE n \in DOMAIN tagged : tagged[n] = i
                         row == Val(g, 2)[k]
                     IN IF row = None THEN [tags |-> {}] ELSE row
        patch(i) == (IF diffs(i) THEN TagDiff(tagsOf(i), a.items[i]) ELSE Nothing) @@ a.items[i].set
        updating == InOrder({i \in all \ stuck : patch(i) # Nothing})
        failed == NotDone(stuck, IF Len(g) > moved THEN Ids(updating, BadItems(Val(g, Len(g)))) ELSE {})
        done == all \ failed
        scopes(i) == Around(id(i), Val(g, 1)[i]) \cup NewPlace(a.items[i], Val(g, 1)[i])
        asksNothing(x) == DOMAIN x = {"id", "set"} /\ x.set = Nothing
    IN CASE Len(g) = 0 -> IF \E x \in ToSet(a.items) : asksNothing(x) THEN Fail("Validation")
                          ELSE Ask(getTasksMany(d, [i \in all |-> id(i)]))
         [] Len(g) = 1 /\ read = 2 -> Ask(getTasksMany(d, [k \in DOMAIN tagged |-> id(tagged[k])]))
         [] Len(g) = read /\ moved > read ->
               Ask(batchMoveTasks(d, [k \in DOMAIN moving |->
                      [id |-> id(moving[k]), to |-> Destination([project |-> a.items[moving[k]].project])]]))
         [] Len(g) = moved /\ updating # <<>> ->
               Ask(batchUpdateTasks(d, [k \in DOMAIN updating |->
                      [id |-> id(updating[k]), patch |-> patch(updating[k])]]))
         [] OTHER -> Done(UNION {scopes(i) : i \in done},
                          Outcome({id(i) : i \in done}, {id(i) : i \in failed}))

\* The open tasks a predicate matches are listed (dry), and changed when the
\* caller confirms how many there are.
Matching(a, rows) == SetToSeq({x.id : x \in {y \in rows : ~y.dropped /\ Matches(y, a.where)}})

task_reclassify(d, a, g) ==
    LET matched == Matching(a, Val(g, 1))
        items == [i \in DOMAIN matched |-> [id |-> matched[i]] @@ a.changes]
        expected == Len(matched)
    IN CASE Len(g) = 0 -> Ask(listTasks(d, [completed |-> FALSE]))
         [] OTHER -> CASE Given(a, "dry")                                 -> Preview(expected)
                       [] ~Given(a, "dry") /\ a.confirmation # expected   -> Reply("Stale", expected)
                       [] OTHER ->
                            CASE expected > HardCap -> Reply("OverCap", expected)
                              [] expected = 0       -> Same(Outcome({}, {}))
                              [] OTHER -> task_batch_assign(d, [items |-> items], Tail(g))

-----------------------------------------------------------------------------
\* Deferring one entry after the other, each with a write and a read; an error
\* of either is the result of the entry, and the next one follows.
EntryTurn(s, r) ==
    IF s.writes /\ r.code = "OK" THEN [s EXCEPT !.writes = FALSE]
    ELSE [i |-> s.i + 1, writes |-> TRUE, bad |-> IF r.code = "OK" THEN s.bad ELSE s.bad \cup {s.i}]

\* The entry the answers have come to, and those that went wrong.
Entries(g) ==
    LET turns[n \in 0..Len(g)] ==
            IF n = 0 THEN [i |-> 1, writes |-> TRUE, bad |-> {}] ELSE EntryTurn(turns[n - 1], g[n])
    IN turns[Len(g)]

task_batch_defer_smart(d, a, g) ==
    LET s == Entries(g)
        step == CASE s.i > Len(a.ids) ->
                        Same(Outcome(Ids(a.ids, DOMAIN a.ids \ s.bad), Ids(a.ids, s.bad)))
                  [] OTHER -> IF s.writes THEN Try(updateTask(d, a.ids[s.i], [defer |-> a.date], FALSE))
                              ELSE Try(getTask(d, a.ids[s.i]))
    IN CASE Given(a, "dry") -> Preview(a.date)
         [] OTHER -> IF g # <<>> /\ s.writes /\ Last(g).code = "OK"
                     THEN Flush(Around(a.ids[s.i - 1], Last(g).val), step) ELSE step

-----------------------------------------------------------------------------
\* Tasks out of a text or a picture.  The first of two calls proposes, the
\* second carries the tasks the caller confirmed.

InProject(fields, p) == [i \in DOMAIN fields |->
    [blank |-> FALSE, project |-> p, parent |-> None, fields |-> fields[i]]]
InTask(fields, t) == [i \in DOMAIN fields |->
    [blank |-> FALSE, project |-> None, parent |-> t, fields |-> fields[i]]]

Extracted(r, p) ==
    Done(IF r.ok = <<>> THEN {} ELSE TaskScopes({}, {p}),
         Outcome({r.ok[n].value : n \in DOMAIN r.ok}, BadItems(r)))

task_extract_from_note(d, a, g) ==
    LET read == IF a.source.kind = "inline" THEN 0 ELSE 1 IN
    CASE Len(g) < read -> Ask(IF a.source.kind = "task" THEN getTask(d, a.source.id) ELSE getProject(d, a.source.id))
      [] Len(g) = read -> IF Given(a, "dry") \/ ~Given(a, "confirmed") THEN Preview(None)
                          ELSE Ask(batchCreateTasks(d, InProject(a.confirmed, a.project)))
      [] OTHER         -> Extracted(Val(g, Len(g)), a.project)

\* The picture is a file (which the file system has, or not), or an attachment
\* of an owner.  A file can be attached to a task made to hold the others, or
\* to each of them.
task_extract_from_image(d, a, g) ==
    LET file == a.source.kind = "path"
        read == IF file THEN 0 ELSE 1
        wrapped == a.attach = "parent-task"
        made == read + (IF wrapped THEN 2 ELSE 0)
        batch == Val(g, made + 1)
        attached == Len(g) - made - 1
        unusable == IF file THEN ~a.source.addable ELSE a.source.attachment \notin Val(g, 1)
        holder == [blank |-> FALSE, project |-> a.project, parent |-> None, fields |-> Nothing]
    IN CASE (~Given(a, "dry") /\ ~Given(a, "confirmed")) \/ (~file /\ a.attach # "none") -> Fail("Validation")
         [] OTHER ->
              CASE Len(g) < read -> Ask(listAttachments(d, a.source.owner))
                [] Len(g) = read -> CASE unusable -> Fail("Validation")
                                      [] ~unusable /\ Given(a, "dry") -> Preview(None)
                                      [] OTHER -> IF wrapped THEN Ask(createTask(d, holder, FALSE))
                                                  ELSE Ask(batchCreateTasks(d, InProject(a.confirmed, a.project)))
                [] Len(g) \in (read + 1)..made ->
                      IF Len(g) = read + 1 THEN Ask(addAttachment(d, [task |-> Val(g, 1), project |-> None]))
                      ELSE Ask(batchCreateTasks(d, InTask(a.confirmed, Val(g, 1))))
                [] OTHER ->
                      IF a.attach = "each-task" /\ attached < Len(batch.ok)
                      THEN Ask(addAttachment(d, [task |-> batch.ok[attached + 1].value, project |-> None]))
                      ELSE Extracted(batch, a.project)
=============================================================================
