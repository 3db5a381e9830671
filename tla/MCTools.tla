------------------------------- MODULE MCTools -------------------------------
\* Two documents: a library with a folder in a folder, a folder of templates,
\* projects, tasks in tasks, tags (one of them the waiting tag), a forecast
\* tag, a perspective and an attachment; and an inbox without any of them and
\* without a window.  t9, p9, g9, f9 and v9 are ids of nothing.
EXTENDS Tools

Row(at, more) == more @@ NewTask(at)

Base ==
    [tasks |-> Nothing, order |-> <<>>, projects |-> Nothing, tags |-> Nothing, folders |-> Nothing,
     used |-> {"t9", "p9", "g9", "f9", "v9"}, fcTag |-> None, persp |-> Nothing,
     window |-> None, attach |-> Nothing, saved |-> Nothing]
All(d) ==
    [d EXCEPT !.used = @ \cup UNION {DOMAIN d.tasks, DOMAIN d.projects, DOMAIN d.tags, DOMAIN d.folders,
                                     DOMAIN d.persp, UNION {d.attach[o] : o \in DOMAIN d.attach}}]

Library ==
    All([Base EXCEPT
      !.folders = ("f1" :> NewFolder(None)) @@ ("f2" :> NewFolder("f1"))
                  @@ ("f3" :> [NewFolder(None) EXCEPT !.name = TemplatesFolder]),
      !.projects = ("p1" :> [NewProject("f1") EXCEPT !.name = "alpha", !.interval = 7, !.tags = {"g1"},
                                                     !.note = <<"decision">>])
                   @@ ("p2" :> [NewProject("f3") EXCEPT !.name = "beta", !.note = <<"template">>]),
      !.tags = ("g1" :> [NewTag(None) EXCEPT !.name = "home"])
               @@ ("g2" :> [NewTag("g1") EXCEPT !.name = WaitingTag]),
      !.tasks = ("t1" :> Row("p1", [due |-> Today, tags |-> {"g1"}]))
                @@ ("t2" :> Row("t1", [flagged |-> TRUE, tags |-> {"g2"}, note |-> <<"waiting-on", "decision">>,
                                     repeat |-> "rule", defer |-> Today]))
                @@ ("t3" :> Row("p1", [done |-> TRUE]))
                @@ ("t4" :> Row(Inbox, [defer |-> Today])),
      !.order = <<"t1", "t2", "t3", "t4">>,
      !.fcTag = "g2",
      !.persp = "v1" :> [name |-> "mine", aggregation |-> "all", rules |-> {}, color |-> None],
      !.window = [perspective |-> "mine", focus |-> {}],
      !.attach = "t1" :> {"a1"}])

Tray ==
    All([Base EXCEPT
      !.projects = "p1" :> [NewProject(None) EXCEPT !.status = "dropped", !.name = "alpha"],
      !.tasks = ("t1" :> Row(Inbox, [flagged |-> TRUE])) @@ ("t2" :> Row("p1", [dropped |-> TRUE])),
      !.order = <<"t1", "t2">>])

MCDocuments == {Library, Tray}

Window == [from |-> Today, to |-> Today + 1, overdue |-> TRUE, deferred |-> TRUE, flagged |-> TRUE]
MCKeys ==
    {<<"search", "tasks", Nothing>>, <<"search", "tasks", [completed |-> FALSE]>>,
     <<"search", "projects", Nothing>>, <<"tag", "list", Nothing>>, <<"folder", "list", Nothing>>,
     <<"forecast", Window>>, <<"project", "p1", "solo">>, <<"task", "t1", "rows">>}

-----------------------------------------------------------------------------
\* The calls.

Old == [id |-> "t1", due |-> 0] \* a row the caller has seen that is no more

Each(tools, args) == {[tool |-> n, args |-> a] : n \in tools, a \in args}
Ids1(ids) == {[id |-> x] : x \in ids}

TaskStates ==
    Each({"task_complete", "task_uncomplete", "task_drop", "task_undrop", "task_delete",
          "task_complete_describe"}, Ids1({"t1", "t2", "t3"}))
    \cup Each({"task_convert_to_project", "task_clear_alarms", "task_drop_describe",
               "task_delete_describe"}, Ids1({"t2"}))
    \cup Each({"task_set_waiting_on", "task_clear_waiting_on"}, Ids1({"t1", "t2"}))
    \cup Each({"task_delete"}, {[id |-> "t2", dry |-> TRUE], [id |-> "t1", seen |-> Old]})
    \cup Each({"task_drop", "task_undrop", "task_clear_waiting_on"}, Ids1({"t9"}))

TaskMakings ==
    Each({"task_create"},
         {[blank |-> FALSE, project |-> "p1", fields |-> [tags |-> {"g1"}]],
          [blank |-> FALSE, parent |-> "t1", fields |-> Nothing],
          [blank |-> FALSE, fields |-> [due |-> Today]],
          [blank |-> FALSE, fields |-> [due |-> Today, flagged |-> TRUE], cut |-> TRUE],
          [blank |-> TRUE, fields |-> Nothing],
          [blank |-> FALSE, fields |-> [due |-> 1, defer |-> 2]],
          [blank |-> FALSE, project |-> "p1", parent |-> "t1", fields |-> Nothing]})
    \cup Each({"task_create_describe"},
              {[project |-> "p9", fields |-> [tags |-> {"g1"}]], [parent |-> "t1", fields |-> Nothing]})
    \cup Each({"task_duplicate"},
              {[id |-> "t1", recursive |-> TRUE], [id |-> "t2", to |-> [inbox |-> TRUE], recursive |-> FALSE],
               [id |-> "t2", to |-> [project |-> "p2"], recursive |-> FALSE],
               [id |-> "t2", to |-> [project |-> "p2", parent |-> "t1"], recursive |-> FALSE]})
    \cup Each({"task_move", "task_move_describe"},
              {[id |-> x, to |-> to] : x \in {"t1", "t2"},
                 to \in {[project |-> "p1"], [parent |-> "t4"], [inbox |-> TRUE]}})
    \cup Each({"task_move"}, {[id |-> "t1", to |-> Nothing], [id |-> "t4", to |-> [parent |-> "t2"]]})
    \cup Each({"task_reorder"},
              {[id |-> "t1", pos |-> [before |-> "t3"]], [id |-> "t3", pos |-> [after |-> "t1"]],
               [id |-> "t1", pos |-> [at |-> "end", in |-> [project |-> "p1"]]],
               [id |-> "t2", pos |-> [at |-> "start", in |-> [parent |-> "t4"]]],
               [id |-> "t1", pos |-> [at |-> "end"]]})

TaskChanges ==
    Each({"task_update", "task_update_describe"},
         {[id |-> "t1", set |-> [flagged |-> TRUE], add |-> {"g2"}, remove |-> {"g1"}],
          [id |-> "t9", set |-> [tags |-> {"g1"}]]})
    \cup Each({"task_update"},
         {[id |-> "t1", set |-> [due |-> 3, note |-> <<"long">>]],
          [id |-> "t1", set |-> [due |-> 3, note |-> <<"long">>], cut |-> TRUE],
          [id |-> "t1", set |-> [flagged |-> TRUE], dry |-> TRUE],
          [id |-> "t1", set |-> [flagged |-> TRUE], seen |-> Old],
          [id |-> "t1", set |-> [due |-> 1, defer |-> 2]],
          [id |-> "t1", set |-> [tags |-> {"g1"}], add |-> {"g2"}]})
    \cup Each({"task_set_repetition", "task_clear_repetition"},
              {[id |-> "t2", taken |-> on] : on \in BOOLEAN})
    \cup Each({"task_set_alarms"},
              {[id |-> "t1", alarms |-> <<"due">>], [id |-> "t2", alarms |-> <<"due">>],
               [id |-> "t4", alarms |-> <<"defer">>]})
    \cup Each({"task_defer_smart"},
              {[id |-> "t1", date |-> 3], [id |-> "t1", date |-> 3, dry |-> TRUE],
               [id |-> "t1", date |-> 3, seen |-> Old]})

TaskReads ==
    Each({"task_get"}, {[id |-> "t1", form |-> "rows"], [id |-> "t2", form |-> "tree"],
                        [id |-> "t9", form |-> "rows"]})
    \cup Each({"task_get_many"}, {[ids |-> s] : s \in {<<>>, <<"t2", "t9">>, <<"t1", "t2", "t3", "t4", "t9">>}})
    \cup Each({"task_list"},
              {[filter |-> Nothing], [filter |-> Nothing, limit |-> 5], [filter |-> [flagged |-> TRUE]],
               [filter |-> [inbox |-> TRUE, project |-> "p1"]]})
    \cup Each({"task_search", "search_query"}, {[filter |-> Nothing]}) \cup Each({"task_find_by_name"}, {Nothing})
    \cup Each({"task_find_similar"}, {Nothing, [completed |-> TRUE, scope |-> [project |-> "p1"]]})

Some == <<"t2", "t9", "t1">>
Batching ==
    Each({"task_batch_complete", "task_batch_uncomplete", "task_batch_delete", "task_batch_drop",
          "task_batch_undrop"}, {[ids |-> Some]})
    \cup Each({"task_batch_update", "task_batch_update_describe"},
              {[items |-> <<[id |-> "t1", patch |-> [flagged |-> TRUE]], [id |-> "t9", patch |-> Nothing],
                            [id |-> "t2", patch |-> [due |-> 3]]>>]})
    \cup Each({"task_batch_move"},
              {[items |-> <<[id |-> "t2", to |-> [project |-> "p1"]], [id |-> "t1", to |-> [parent |-> "t9"]]>>]})
    \cup Each({"task_batch_create", "task_batch_create_describe"},
              {[items |-> <<[project |-> "p1", fields |-> Nothing], [parent |-> "t9", fields |-> Nothing]>>]})
    \cup Each({"task_batch_create"}, {[items |-> <<[project |-> "p9", fields |-> Nothing]>>]})
    \cup Each({"project_batch_complete", "project_batch_drop"}, {[ids |-> <<"p1", "p9">>]})
    \cup Each({"task_batch_assign"},
              {[items |-> <<[id |-> "t2", project |-> "p2", set |-> [flagged |-> FALSE]],
                            [id |-> "t1", project |-> "p9", set |-> [due |-> 3]],
                            [id |-> "t3", add |-> {"g1"}, set |-> Nothing],
                            [id |-> "t9", remove |-> {"g1"}, set |-> Nothing]>>],
               [items |-> <<[id |-> "t1", project |-> "p1", set |-> [tags |-> {"g9"}]]>>],
               [items |-> <<[id |-> "t1", set |-> Nothing]>>]})
    \cup Each({"task_reclassify"},
              {[where |-> w, changes |-> [set |-> [flagged |-> FALSE]], confirmation |-> n] :
                 w \in {[flagged |-> TRUE], [project |-> "p1"], Nothing, [tag |-> "g9"]}, n \in {0, 1, 3}}
              \cup {[where |-> Nothing, changes |-> [set |-> [due |-> 3]], dry |-> TRUE]})
    \cup Each({"task_batch_defer_smart"},
              {[ids |-> Some, date |-> 3], [ids |-> Some, date |-> 3, dry |-> TRUE]})

One2 == <<[due |-> 3], [tags |-> {"g9"}]>>
Extracting ==
    Each({"task_extract_from_note"},
         {[source |-> [kind |-> "inline"], project |-> "p1"],
          [source |-> [kind |-> "task", id |-> "t1"], project |-> "p1", confirmed |-> One2],
          [source |-> [kind |-> "project", id |-> "p2"], project |-> "p9", confirmed |-> One2],
          [source |-> [kind |-> "task", id |-> "t1"], project |-> "p1", confirmed |-> One2, dry |-> TRUE]})
    \cup Each({"task_extract_from_image"},
         {[source |-> [kind |-> "path", addable |-> TRUE], project |-> "p1", confirmed |-> One2, attach |-> how] :
             how \in {"none", "parent-task", "each-task"}}
         \cup {[source |-> [kind |-> "path", addable |-> FALSE], project |-> "p1", confirmed |-> One2,
                attach |-> "none"],
               [source |-> [kind |-> "path", addable |-> TRUE], project |-> "p1", attach |-> "none"],
               [source |-> [kind |-> "path", addable |-> TRUE], project |-> "p1", attach |-> "none", dry |-> TRUE]}
         \cup {[source |-> [kind |-> "attachment", owner |-> [task |-> "t1", project |-> None], attachment |-> x],
                project |-> "p1", confirmed |-> One2, attach |-> "none"] : x \in {"a1", "a9"}})

-----------------------------------------------------------------------------

Owners == {[kind |-> "task", id |-> "t2"], [kind |-> "project", id |-> "p1"]}
Notes ==
    Each({"note_append"}, {[of |-> o, text |-> "more"] : o \in Owners})
    \cup Each({"note_set"}, {[of |-> o, note |-> <<"more">>] : o \in Owners})
    \cup Each({"note_set_html"}, {[of |-> o, html |-> <<"more">>] : o \in Owners})
    \cup Each({"note_get", "note_get_html", "decision_record", "decision_clear"}, {[of |-> o] : o \in Owners})
    \cup Each({"decision_clear"}, {[of |-> [kind |-> "task", id |-> "t1"]]})

Projects ==
    Each({"project_complete", "project_drop", "project_delete", "project_complete_describe",
          "project_drop_describe", "project_delete_describe", "review_mark_reviewed",
          "project_mark_reviewed"}, Ids1({"p1", "p9"}))
    \cup Each({"project_move", "project_move_describe"}, {[id |-> "p1", folder |-> f] : f \in {"f2", "f9", None}})
    \cup Each({"project_delete"}, {[id |-> "p1", dry |-> TRUE], [id |-> "p1", seen |-> Old]})
    \cup Each({"project_update", "project_update_describe"}, {[id |-> "p1", set |-> [flagged |-> TRUE]]})
    \cup Each({"project_update"}, {[id |-> "p1", set |-> [noteHtml |-> <<"more">>, note |-> <<"more">>]]})
    \cup Each({"project_create", "project_create_describe"},
              {[fields |-> [name |-> "alpha"]], [fields |-> [name |-> "gamma"], folder |-> "f1"],
               [fields |-> [name |-> "gamma", interval |-> 0]]})
    \cup Each({"project_get"}, {[id |-> "p1", form |-> "solo"], [id |-> "p2", form |-> "with"]})
    \cup Each({"project_get_many", "tag_get_many"},
              {[ids |-> s] : s \in {<<>>, <<"p1", "g1">>, <<"p1", "p2", "p3", "p9", "p1">>}})
    \cup Each({"project_list"}, {[filter |-> Nothing], [filter |-> Nothing, limit |-> 5],
                                 [filter |-> [folder |-> "f1"]]})
    \cup Each({"review_list_due"}, {Nothing})
    \cup Each({"review_set_interval"}, {[id |-> "p1", days |-> 3]})
    \cup Each({"project_set_next_review_date"}, {[id |-> "p1", date |-> 3]})

TagsAndFolders ==
    Each({"tag_create", "tag_create_describe", "folder_create", "folder_create_describe"},
         {Nothing, [parent |-> "g1"], [parent |-> "f1"]})
    \cup Each({"tag_delete", "tag_get", "tag_get_location", "tag_delete_describe", "tag_update_describe"},
              Ids1({"g1"}))
    \cup Each({"tag_update"}, {[id |-> "g1", set |-> [status |-> "dropped"]]})
    \cup Each({"tag_move", "tag_move_describe"}, {[id |-> "g2", parent |-> None]})
    \cup Each({"tag_move_describe"}, {[id |-> "g1", parent |-> "g2"]})
    \cup Each({"tag_set_status"}, {[id |-> "g2", status |-> "on-hold"]})
    \cup Each({"tag_set_allows_next_action"}, {[id |-> "g2", on |-> FALSE]})
    \cup Each({"tag_set_location"}, {[id |-> "g2", location |-> "here"]})
    \cup Each({"tag_list", "folder_list"}, {[filter |-> Nothing], [filter |-> [parent |-> "f1"]]})
    \cup Each({"folder_update"}, {[id |-> "f2", set |-> Nothing]})
    \cup Each({"folder_move", "folder_move_describe"}, {[id |-> "f2", parent |-> "f3"]})
    \cup Each({"folder_get", "folder_update_describe", "folder_delete_describe"}, Ids1({"f2"}))
    \cup Each({"folder_delete"}, Ids1({"f1", "f2"}) \cup {[id |-> f, cascade |-> TRUE] : f \in {"f1", "f3"}})

Others ==
    Each({"forecast_get", "forecast_pack"}, {[days |-> Window], [days |-> [Window EXCEPT !.overdue = FALSE]]})
    \cup Each({"forecast_get_tag", "perspective_list", "window_get_state", "sync_status", "sync_trigger"}, {Nothing})
    \cup Each({"forecast_set_tag"}, {[tag |-> g] : g \in {"g1", "g9", None}})
    \cup Each({"perspective_create"}, {[name |-> n, rules |-> {"flagged"}] : n \in {"mine", "yours"}})
    \cup Each({"perspective_update"}, {[id |-> v, set |-> [name |-> "yours"]] : v \in {"v1", "flagged"}})
    \cup Each({"perspective_delete", "perspective_evaluate", "perspective_get"}, Ids1({"v1", "v9", "flagged"}))
    \cup Each({"perspective_evaluate_dry_run"}, {[rules |-> {"flagged"}]})
    \cup Each({"database_undo", "database_redo"}, {[past |-> s] : s \in {<<>>, <<Tray>>}})
    \cup Each({"attachment_list"}, {[of |-> [task |-> "t1", project |-> None]]})
    \cup Each({"attachment_create"},
              {[of |-> [task |-> None, project |-> "p1"], allowed |-> on] : on \in BOOLEAN})
    \cup Each({"attachment_delete"}, {[of |-> [task |-> "t1", project |-> None], id |-> "a1"]})
    \cup Each({"attachment_save_to_path"},
              {[of |-> [task |-> "t1", project |-> None], id |-> "a1", path |-> "desk", allowed |-> on] :
                 on \in BOOLEAN})
    \cup Each({"window_set_focus"}, {[on |-> x] : x \in {"p1", None}})
    \cup Each({"window_set_perspective"}, {[name |-> "mine"]})

Line(under, heading, tags, end) ==
    [under |-> under, heading |-> heading, fields |-> Nothing, tags |-> tags, end |-> end]
Text == <<Line(0, "alpha", <<"home", "office">>, "open"), Line(1, "alpha", <<"office">>, "done"),
          Line(0, None, <<>>, "dropped")>>

Exchange ==
    Each({"export_opml", "export_taskpaper"},
         {[scope |-> "all"], [scope |-> "folder"], [scope |-> "folder", id |-> "f1"],
          [scope |-> "folder", id |-> "f2"], [scope |-> "project", id |-> "p1"]})
    \cup Each({"project_template_list"}, {Nothing})
    \cup Each({"project_template_delete"}, {[name |-> n] : n \in {"alpha", "beta"}})
    \cup Each({"project_template_instantiate"},
              {[name |-> "beta", text |-> Text, complete |-> on, folder |-> "f1"] : on \in BOOLEAN}
              \cup {[name |-> "alpha", text |-> Text, complete |-> TRUE]})
    \cup Each({"project_template_save"}, {[id |-> "p1", name |-> n] : n \in {"beta", "gamma"}})
    \cup Each({"import_taskpaper", "import_opml"}, {[text |-> <<>>]})

Imports ==
    Each({"import_taskpaper"}, {[text |-> Text], [text |-> Text, target |-> "p1"]})
    \cup Each({"import_opml"}, {[text |-> [i \in DOMAIN Text |-> [Text[i] EXCEPT !.tags = <<>>, !.fields = [due |-> i]]]]})

MainCalls ==
    UNION {TaskStates, TaskMakings, TaskChanges, TaskReads, Batching, Extracting, Notes, Projects,
           TagsAndFolders, Others, Exchange}
RivalCalls ==
    Each({"task_drop", "task_delete"}, Ids1({"t2"}))
    \cup Each({"task_move"}, {[id |-> "t2", to |-> [inbox |-> TRUE]]})
    \cup Each({"task_list"}, {[filter |-> Nothing, limit |-> 5]})
    \cup Each({"task_complete"}, Ids1({"t1"}))
    \cup Each({"task_update"}, {[id |-> "t2", set |-> Nothing, add |-> {"g1"}]})
    \cup Each({"task_batch_assign"}, {[items |-> <<[id |-> "t1", project |-> "p2", set |-> [flagged |-> TRUE]]>>]})
    \cup Each({"note_append"}, {[of |-> [kind |-> "task", id |-> "t2"], text |-> "rival"]})
    \cup Each({"project_delete"}, Ids1({"p1"}))
    \cup Each({"tag_delete"}, Ids1({"g1"}))
    \cup Each({"folder_delete"}, {[id |-> "f1", cascade |-> TRUE]})

MCRequests == ("main" :> MainCalls) @@ ("rival" :> RivalCalls)
MCImportRequests == ("main" :> Imports) @@ ("rival" :> RivalCalls)
=============================================================================
