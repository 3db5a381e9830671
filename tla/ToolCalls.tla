------------------------------ MODULE ToolCalls ------------------------------
(***************************************************************************)
(* What the handlers of the tools (src/tools) are written with: a call of  *)
(* the adapter, a read through the cache, the invalidation of scopes       *)
(* (src/cache/invalidation.ts), and the ways to answer.                    *)
(*                                                                         *)
(* A handler is an operator of the document as it is now, its arguments    *)
(* and the replies it had from the adapter so far: the step it comes to    *)
(* next.  Between two steps of one call the steps of others come; what a   *)
(* handler keeps across an await is in the replies.  An argument that the  *)
(* caller left out is not in the record of arguments.                      *)
(***************************************************************************)
EXTENDS Transports

Given(a, field) == field \in DOMAIN a
Opt(a, field) == IF Given(a, field) THEN a[field] ELSE None

-----------------------------------------------------------------------------
\* Steps.  drop is the scopes to invalidate in the stretch before the step.

\* await adapter.x(...): an error ends the call with that error, or (Try) is
\* caught and the handler goes on.
Ask(r) == [kind |-> "ask", does |-> r, drop |-> {}]
Try(r) == [kind |-> "try", does |-> r, drop |-> {}]

\* await service.x(...) where the service reads through the cache.
Cached(key) == [kind |-> "cached", key |-> key, drop |-> {}]

Reply(code, v) == [kind |-> "reply", code |-> code, val |-> v, drop |-> {}]

\* clarificationNeeded(...): the call each choice stands for is registered
\* under a token, and the caller is asked to choose.
Clarify(choices) == [kind |-> "clarify", choices |-> choices, drop |-> {}]

Flush(scopes, step) == [step EXCEPT !.drop = @ \cup scopes]

Fail(code) == Reply(code, None)
Same(v) == Reply("OK", v)                 \* a reading tool
NoChange == Reply("NoChange", None)       \* { noChange: true }
Preview(v) == Reply("Preview", v)         \* dry_run, and the first of two phases
Done(scopes, v) == Flush(scopes, Reply("OK", v))

\* The value of the n-th reply.
Val(g, n) == g[n].val
Ok(g, n) == g[n].code = "OK"

\* assertNotModifiedSince, then dryRunGuard: the caller may name the row it
\* has seen, and may ask for a preview.
Guarded(a, row, preview, live) ==
    IF Given(a, "seen") /\ a.seen # row THEN Fail("Conflict")
    ELSE IF Given(a, "dry") THEN preview ELSE live

-----------------------------------------------------------------------------
\* Scopes.  A key is a sequence, and a scope is the beginning of the keys it
\* is about.

Covers(scope, k) == IsPrefix(scope, k)

\* What every change of a task or a project may be shown in.
Derived == {<<"forecast">>, <<"perspective">>, <<"search">>, <<"tag", "list">>}

TaskScopes(tasks, projects) ==
    {<<"task", t>> : t \in tasks \ {None}} \cup {<<"project", p>> : p \in projects \ {None}} \cup Derived
ProjectScopes(p) == {<<"project", p>>, <<"folder", "list">>} \cup Derived
TagScopes(g) == {<<"tag", g>>} \cup Derived
FolderScopes(f) == {<<"folder", f>>, <<"folder", "list">>, <<"perspective">>, <<"search">>}
PerspectiveScope == {<<"perspective">>}
ForecastScope == {<<"forecast">>}
Everything == {<<>>}

\* A task, and where the row that was read says it is.
Around(t, row) ==
    IF row = None THEN TaskScopes({t}, {}) ELSE TaskScopes({t, row.parent}, {row.project})

\* A place named by the caller, when it is not where the row says the task was.
NewPlace(to, row) ==
    LET old == IF row = None THEN [project |-> None, parent |-> None] ELSE row IN
    (IF Opt(to, "project") \notin {None, old.project} THEN TaskScopes({}, {to.project}) ELSE {})
    \cup (IF Opt(to, "parent") \notin {None, old.parent} THEN TaskScopes({to.parent}, {}) ELSE {})

-----------------------------------------------------------------------------
\* The cached reads of the services: what the factory of a key makes of the
\* document.  (The calls of one factory are not taken apart here: ReadCache is
\* about what comes between them.)

Joined(first, second) == IF first.code # "OK" THEN first ELSE Answer(first.doc, <<first.val, second.val>>)

TaskAndSubtasks(d, t) == Joined(getTask(d, t), listTasks(d, [parent |-> t]))
TaskPage(d, filter) == listTasks(d, filter)
ProjectAlone(d, p) == getProject(d, p)
ProjectAndTasks(d, p) == Joined(getProject(d, p), listTasks(d, [project |-> p]))
ProjectPage(d, filter) == listProjects(d, filter)
TagPage(d, filter) == listTags(d, filter)
FolderPage(d, filter) == listFolders(d, filter)
ForecastDays(d, days) == getForecast(d, days)

Factory(d, k) ==
    CASE k[1] = "task"                         -> TaskAndSubtasks(d, k[2])
      [] k[1] = "project" /\ k[3] = "with"     -> ProjectAndTasks(d, k[2])
      [] k[1] = "project" /\ k[3] = "solo"     -> ProjectAlone(d, k[2])
      [] k[1] = "search" /\ k[2] = "tasks"     -> TaskPage(d, k[3])
      [] k[1] = "search" /\ k[2] = "projects"  -> ProjectPage(d, k[3])
      [] k[1] = "tag"                          -> TagPage(d, k[3])
      [] k[1] = "folder"                       -> FolderPage(d, k[3])
      [] OTHER (* "forecast" *)                -> ForecastDays(d, k[2])

\* assertBounded: a list without a filter and without a limit is refused.
Unbounded(a) == a.filter = Nothing /\ ~Given(a, "limit")
=============================================================================
