----------------------------- MODULE MCAdapters -----------------------------
\* Three documents: a library with a folder in a folder, a project in the
\* upper one, a task with a task in it, and tags; an inbox with a task that
\* repeats in another one and no window; tasks done or dropped with an empty
\* project.  In each, t9, p9, g9 and f9 are ids of nothing.
EXTENDS Adapters

Row(at, more) == more @@ NewTask(at)

Base ==
    [tasks |-> Nothing, order |-> <<>>, projects |-> Nothing, tags |-> Nothing, folders |-> Nothing,
     used |-> {}, fcTag |-> None, persp |-> Nothing,
     window |-> [perspective |-> "mine", focus |-> {}], attach |-> Nothing, saved |-> Nothing]

All(d) ==
    [d EXCEPT !.used = UNION {DOMAIN d.tasks, DOMAIN d.projects, DOMAIN d.tags, DOMAIN d.folders,
                              DOMAIN d.persp, UNION {d.attach[o] : o \in DOMAIN d.attach},
                              {"t9", "p9", "g9", "f9"}}]

Library ==
    All([Base EXCEPT
      !.folders = ("f1" :> NewFolder(None)) @@ ("f2" :> NewFolder("f1")),
      !.projects = "p1" :> [NewProject("f1") EXCEPT !.interval = 7, !.next = Today, !.tags = {"g1"}],
      !.tags = ("g1" :> NewTag(None)) @@ ("g2" :> NewTag("g1")),
      !.tasks = ("t1" :> Row("p1", [due |-> Today, tags |-> {"g1"}]))
                @@ ("t2" :> Row("t1", [note |-> <<"short">>])) @@ ("t3" :> Row("p1", [done |-> TRUE])),
      !.order = <<"t1", "t2", "t3">>,
      !.fcTag = "g2",
      !.attach = "t1" :> {"a1"}])

Tray ==
    All([Base EXCEPT
      !.folders = "f1" :> NewFolder(None),
      !.projects = "p1" :> NewProject(None),
      !.tags = "g1" :> NewTag(None),
      !.tasks = ("t1" :> Row(Inbox, [flagged |-> TRUE])) @@ ("t3" :> Row(Inbox, [defer |-> Today]))
                @@ ("t2" :> Row("t3", [due |-> Today - 1, repeat |-> "rule"])),
      !.order = <<"t1", "t3", "t2">>,
      !.window = None])

Finished ==
    All([Base EXCEPT
      !.folders = ("f1" :> NewFolder(None)) @@ ("f2" :> NewFolder(None)),
      !.projects = "p1" :> [NewProject("f2") EXCEPT !.status = "on-hold"],
      !.tags = ("g1" :> NewTag(None)) @@ ("g2" :> NewTag("g1")),
      !.tasks = ("t1" :> Row("p1", [dropped |-> TRUE, tags |-> {"g1"}]))
                @@ ("t2" :> Row("p1", [flagged |-> TRUE, note |-> <<"short">>]))
                @@ ("t3" :> Row("t2", [done |-> TRUE])),
      !.order = <<"t1", "t2", "t3">>,
      !.persp = "v1" :> [name |-> "mine", aggregation |-> "all", rules |-> {}, color |-> None]])

MCDocuments == {Library, Tray, Finished}
MCTaskLists == {<<"t1", "t2">>, <<"t2", "t9", "t3", "t1">>}
MCProjectLists == {<<"p1", "p9", "p1">>}
=============================================================================
