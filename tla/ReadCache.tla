----------------------------- MODULE ReadCache ------------------------------
(***************************************************************************)
(* The read cache between the services and the adapter                     *)
(* (src/cache/lruCache.ts), the cached reads of the services, and the task *)
(* tools that write to OmniFocus and then invalidate                       *)
(* (src/cache/invalidation.ts).                                            *)
(*                                                                         *)
(* A cached read is a factory of one or two adapter calls; between the     *)
(* calls, and between the last call and the commit, other handlers run.  A *)
(* writing tool reads the task, writes, and only then invalidates the      *)
(* scopes it derived from what it read.  OmniFocus is a tree of tasks in   *)
(* projects; what the adapter's calls do to it is external.                *)
(***************************************************************************)
EXTENDS Naturals, FiniteSets

CONSTANTS Tasks, Projects,
          Inbox,    \* the place of a task outside any project
          Listing,  \* the key of a task_list page, scope search:*
          Readers,  \* cached reads: task_get, project_get, task_list
          Writers,  \* writing tool calls
          Jobs,     \* the tool calls considered: [tool, task, to]
          Place0,   \* where each task is at the start
          None

\* Where a task can be, and what a row of it can say.
Places == Tasks \cup Projects \cup {Inbox}
Rows == [task : Tasks, parent : Places, project : Places, done : BOOLEAN, flagged : BOOLEAN]

\* The tasks form a tree: no set of them is closed under going to the parent.
Acyclic(place) == \A S \in SUBSET Tasks : S # {} => \E t \in S : place[t] \notin S

ASSUME CacheAssumption ==
    /\ Tasks \cap Projects = {}
    /\ {Inbox, Listing} \cap (Tasks \cup Projects) = {}
    /\ None \notin Readers \cup Rows
    /\ Place0 \in [Tasks -> Places] /\ Acyclic(Place0)
    /\ \A j \in Jobs : /\ j.tool \in {"task_move", "task_complete", "task_update", "database_undo"}
                       /\ j.task \in Tasks
                       /\ j.tool = "task_move" => j.to \in Places

VARIABLES doc,       \* OmniFocus: [place, done, flagged], each by task
          undoDoc,   \* what database_undo restores, or None
          cached,    \* cache: key -> value or None
          inflight,  \* cache: key -> the reader whose factory is current, or None
          stage, key, parts, owner,     \* per reader; key is what it asks for
          job, step, before, todo,      \* per writer
          blind,     \* history: a write was not answered, or its prefetch was overtaken
          swept      \* history: tasks changed by a write that named another task

cacheVars  == <<cached, inflight>>
readerVars == <<stage, key, parts, owner>>
writerVars == <<job, step, before, todo, blind, swept>>
vars == <<doc, undoDoc, cacheVars, readerVars, writerVars>>

\* The key of task_get(t) stands for `task:t:...`, that of project_get(p) for
\* `project:p:...`: the first parts are the scopes.
Keys == Tasks \cup Projects \cup {Listing}

-----------------------------------------------------------------------------
\* What OmniFocus answers.

\* The project (or the inbox) a task is in, through its parents.
ContainerIn(d) ==
    [t \in Tasks |->
        LET up[x \in Tasks] == IF d.place[x] \in Tasks THEN up[d.place[x]] ELSE d.place[x]
        IN up[t]]

Row(d, t) == [task |-> t, parent |-> d.place[t], project |-> ContainerIn(d)[t],
              done |-> d.done[t], flagged |-> d.flagged[t]]

ChildrenIn(d, t) == {c \in Tasks : d.place[c] = t}
ContentsIn(d, p) == {t \in Tasks : ContainerIn(d)[t] = p}

\* The first adapter call of a factory: getTask, getProject (whose row counts
\* its tasks) or listTasks.
First(d, k) == CASE k \in Tasks    -> Row(d, k)
                 [] k \in Projects -> Cardinality(ContentsIn(d, k))
                 [] k = Listing    -> {Row(d, t) : t \in Tasks}

\* The second one: the subtasks, or the task tree of the project.
Second(d, k) == CASE k \in Tasks    -> {Row(d, c) : c \in ChildrenIn(d, k)}
                  [] k \in Projects -> {Row(d, t) : t \in ContentsIn(d, k)}
                  [] k = Listing    -> {}

Value(d, k) == <<First(d, k), Second(d, k)>>

-----------------------------------------------------------------------------

Init ==
    /\ doc = [place |-> Place0, done |-> [t \in Tasks |-> FALSE],
              flagged |-> [t \in Tasks |-> FALSE]]
    /\ undoDoc = None
    /\ cached = [k \in Keys |-> None]
    /\ inflight = [k \in Keys |-> None]
    /\ stage = [r \in Readers |-> "idle"]
    /\ key \in [Readers -> Keys]
    /\ parts = [r \in Readers |-> <<>>]
    /\ owner = [r \in Readers |-> None]
    /\ job \in [Writers -> Jobs]
    /\ step = [w \in Writers |-> "idle"]
    /\ before = [w \in Writers |-> None]
    /\ todo = [w \in Writers |-> {}]
    /\ blind = FALSE
    /\ swept = {}

-----------------------------------------------------------------------------
\* wrap(key, factory)

WrapHit(r) ==
    /\ stage[r] = "idle"
    /\ cached[key[r]] # None
    /\ stage' = [stage EXCEPT ![r] = "answered"]
    /\ UNCHANGED <<doc, undoDoc, cacheVars, key, parts, owner, writerVars>>

\* A factory for this key is in flight: await the same promise.
WrapJoin(r) ==
    /\ stage[r] = "idle"
    /\ cached[key[r]] = None /\ inflight[key[r]] # None
    /\ stage' = [stage EXCEPT ![r] = "joined"]
    /\ owner' = [owner EXCEPT ![r] = inflight[key[r]]]
    /\ UNCHANGED <<doc, undoDoc, cacheVars, key, parts, writerVars>>

WrapMiss(r) ==
    /\ stage[r] = "idle"
    /\ cached[key[r]] = None /\ inflight[key[r]] = None
    /\ stage' = [stage EXCEPT ![r] = "first"]
    /\ inflight' = [inflight EXCEPT ![key[r]] = r]
    /\ UNCHANGED <<doc, undoDoc, cached, key, parts, owner, writerVars>>

\* OmniFocus answers the factory's first call.
ReadFirst(r) ==
    /\ stage[r] = "first"
    /\ parts' = [parts EXCEPT ![r] = <<First(doc, key[r])>>]
    /\ stage' = [stage EXCEPT ![r] = "second"]
    /\ UNCHANGED <<doc, undoDoc, cacheVars, key, owner, writerVars>>

ReadSecond(r) ==
    /\ stage[r] = "second"
    /\ parts' = [parts EXCEPT ![r] = <<parts[r][1], Second(doc, key[r])>>]
    /\ stage' = [stage EXCEPT ![r] = "read"]
    /\ UNCHANGED <<doc, undoDoc, cacheVars, key, owner, writerVars>>

\* Fault: joiners look the entry up again, and an invalidation removed it.
SettledIfCurrent(r, outcome) ==
    stage' = [s \in Readers |->
                 IF s = r \/ (stage[s] = "joined" /\ owner[s] = r /\ inflight[key[r]] = r)
                 THEN outcome ELSE stage[s]]

\* The shared promise settles for r and for all who joined it.
Settled(r, outcome) ==
    stage' = [s \in Readers |->
                 IF s = r \/ (stage[s] = "joined" /\ owner[s] = r) THEN outcome ELSE stage[s]]

\* Fault: the result is cached whether or not the token is still current.
ResolveAnyToken(r) ==
    /\ stage[r] = "read"
    /\ Settled(r, "answered")
    /\ cached' = [cached EXCEPT ![key[r]] = parts[r]]
    /\ inflight' = [inflight EXCEPT ![key[r]] = IF @ = r THEN None ELSE @]
    /\ UNCHANGED <<doc, undoDoc, key, parts, owner, writerVars>>

\* The factory resolves: cache the value and clear the entry, each only while
\* the entry still carries this factory's token.
Resolve(r) ==
    /\ stage[r] = "read"
    /\ Settled(r, "answered")
    /\ IF inflight[key[r]] = r
       THEN /\ cached' = [cached EXCEPT ![key[r]] = parts[r]]
            /\ inflight' = [inflight EXCEPT ![key[r]] = None]
       ELSE UNCHANGED cacheVars
    /\ UNCHANGED <<doc, undoDoc, key, parts, owner, writerVars>>

\* An adapter call of the factory rejects; nothing is cached.
Reject(r) ==
    /\ stage[r] \in {"first", "second"}
    /\ Settled(r, "failed")
    /\ inflight' = [inflight EXCEPT ![key[r]] = IF @ = r THEN None ELSE @]
    /\ UNCHANGED <<doc, undoDoc, cached, key, parts, owner, writerVars>>

\* lru-cache drops an entry: capacity, byte cap or TTL.
Evict(k) ==
    /\ cached[k] # None
    /\ cached' = [cached EXCEPT ![k] = None]
    /\ UNCHANGED <<doc, undoDoc, inflight, readerVars, writerVars>>

-----------------------------------------------------------------------------
\* Invalidation

\* Fault: in-flight factories are left alone.
FlushCachedOnly(scopes) ==
    /\ cached' = [k \in Keys |-> IF k \in scopes THEN None ELSE cached[k]]
    /\ UNCHANGED inflight

\* invalidate(scope) for every scope of a set, in one synchronous stretch; for
\* all keys it is clear().
Flush(scopes) ==
    /\ cached' = [k \in Keys |-> IF k \in scopes THEN None ELSE cached[k]]
    /\ inflight' = [k \in Keys |-> IF k \in scopes THEN None ELSE inflight[k]]

\* Fault: the parent's payload embeds the subtask and is not flushed.
TaskScopesWithoutParent(t, at, to) == {t, at.project, to, Listing} \cap Keys

\* invalidateTaskMutation for the task as the tool read it (row `at`) and, for
\* a move, for its destination `to`.
TaskScopes(t, at, to) == {t, at.parent, at.project, to, Listing} \cap Keys

-----------------------------------------------------------------------------
\* The writing tools.  before[w] is the row a tool derives its scopes from.

\* task_move, task_complete: `await adapter.getTask(id)`.  A move to where the
\* task already is, or a second completion, answers noChange.  The parent of a
\* subtask in a project is never recognised as "already there".
Unneeded(j, row) ==
    \/ j.tool = "task_move" /\ j.to \notin Tasks /\ row.parent = j.to
    \/ j.tool = "task_complete" /\ row.done

Prefetch(w) ==
    /\ step[w] = "idle" /\ job[w].tool \in {"task_move", "task_complete"}
    /\ LET row == Row(doc, job[w].task) IN
       /\ before' = [before EXCEPT ![w] = row]
       /\ step' = [step EXCEPT ![w] = IF Unneeded(job[w], row) THEN "answered" ELSE "ready"]
       \* task_complete: list the incomplete children; the user may have
       \* asked, through a clarification token, to complete them too.
       /\ \E children \in {{}, {c \in ChildrenIn(doc, job[w].task) : ~doc.done[c]}} :
             /\ job[w].tool = "task_move" => children = {}
             /\ todo' = [todo EXCEPT ![w] = IF Unneeded(job[w], row) THEN {} ELSE children]
    /\ UNCHANGED <<doc, undoDoc, cacheVars, readerVars, job, blind, swept>>

\* Best-effort completion of one child before the parent.
CompleteChild(w) ==
    /\ step[w] \in {"ready", "cascading"}
    /\ step' = [step EXCEPT ![w] = "cascading"]
    /\ \E c \in todo[w] :
          /\ todo' = [todo EXCEPT ![w] = @ \ {c}]
          /\ \/ /\ doc' = [doc EXCEPT !.done[c] = TRUE]
                /\ undoDoc' = doc
                /\ swept' = swept \cup {c}
             \/ UNCHANGED <<doc, undoDoc, swept>>
    /\ blind' = (blind \/ Row(doc, job[w].task).project # before[w].project
                       \/ \E c \in todo[w] \ todo'[w] : doc.place[c] # job[w].task)
    /\ UNCHANGED <<cacheVars, readerVars, job, before>>

\* What the mutating adapter call does to OmniFocus.
After(j) ==
    CASE j.tool = "task_move"     -> [doc EXCEPT !.place[j.task] = j.to]
      [] j.tool = "task_complete" -> [doc EXCEPT !.done[j.task] = TRUE]
      [] j.tool = "task_update"   -> [doc EXCEPT !.flagged[j.task] = ~@]
      [] j.tool = "database_undo" -> IF undoDoc = None THEN doc ELSE undoDoc

Overtaken(w) ==
    LET now == Row(doc, job[w].task) IN
    before[w] # None /\ <<before[w].parent, before[w].project>> # <<now.parent, now.project>>

\* The tasks a write moves to another project without naming them.
MovedAlong(j) ==
    {t \in Tasks \ {j.task} : ContainerIn(After(j))[t] # ContainerIn(doc)[t]}

\* OmniFocus executes the write of w.  Its promise may reject afterwards: a
\* timeout says nothing of what OmniFocus did, and the tool throws before its
\* invalidation.
Execute(w) ==
    /\ \/ step[w] \in {"ready", "cascading"} /\ todo[w] = {}
       \/ step[w] = "idle" /\ job[w].tool \in {"task_update", "database_undo"}
    /\ doc' = After(job[w])
    /\ undoDoc' = IF job[w].tool = "database_undo" THEN None ELSE doc
    /\ swept' = IF job[w].tool = "task_move" THEN swept \cup MovedAlong(job[w]) ELSE swept
    /\ \/ /\ step' = [step EXCEPT ![w] =
                        IF job[w].tool = "database_undo" /\ undoDoc = None THEN "answered"
                        ELSE "executed"]
          /\ blind' = (blind \/ Overtaken(w))
       \/ /\ step' = [step EXCEPT ![w] = "failed"]
          /\ blind' = TRUE
    /\ UNCHANGED <<cacheVars, readerVars, job, before, todo>>

\* The write fails and OmniFocus did nothing, or nothing but some children.
Fail(w) ==
    /\ step[w] \in {"ready", "cascading"}
    /\ step' = [step EXCEPT ![w] = "failed"]
    /\ blind' = (blind \/ step[w] = "cascading")
    /\ UNCHANGED <<doc, undoDoc, cacheVars, readerVars, job, before, todo, swept>>

\* task_update reads the task again and derives its scopes from that.
Reread(w) ==
    /\ step[w] = "executed" /\ job[w].tool = "task_update" /\ before[w] = None
    /\ before' = [before EXCEPT ![w] = Row(doc, job[w].task)]
    /\ UNCHANGED <<doc, undoDoc, cacheVars, readerVars, job, step, todo, blind, swept>>

\* The tool invalidates and answers.
Acknowledge(w) ==
    /\ step[w] = "executed"
    /\ IF job[w].tool = "database_undo"
       THEN Flush(Keys)
       ELSE /\ before[w] # None
            /\ Flush(TaskScopes(job[w].task, before[w], job[w].to))
    /\ step' = [step EXCEPT ![w] = "answered"]
    /\ UNCHANGED <<doc, undoDoc, readerVars, job, before, todo, blind, swept>>

-----------------------------------------------------------------------------

Read(r) == ReadFirst(r) \/ ReadSecond(r) \/ Resolve(r)

Next ==
    \/ \E r \in Readers : WrapHit(r) \/ WrapJoin(r) \/ WrapMiss(r) \/ Read(r) \/ Reject(r)
    \/ \E k \in Keys : Evict(k)
    \/ \E w \in Writers : Prefetch(w) \/ CompleteChild(w) \/ Execute(w) \/ Fail(w)
                            \/ Reread(w) \/ Acknowledge(w)

\* Every adapter call settles: the gates lose no call and each transport call
\* has a timeout.
Fairness == \A r \in Readers : WF_vars(Read(r))

Spec == Init /\ [][Next]_vars /\ Fairness

-----------------------------------------------------------------------------

Producing == {"first", "second", "read"}

\* No tool is between its write and its invalidation.
Acknowledged == \A w \in Writers : step[w] \notin {"cascading", "executed"}

Fresh(k) == cached[k] # None => cached[k] = Value(doc, k)

\* Once every write is acknowledged, what the cache holds of a project or of a
\* list is what OmniFocus would answer: whatever reads were in flight, joined,
\* evicted or overtaken while the writes ran.  The two ways out are the
\* history `blind`: a write that OmniFocus executed and the adapter reported as
\* failed, and a write whose prefetched row another write had overtaken.
ListingsFresh ==
    Acknowledged /\ ~blind => \A k \in Projects \cup {Listing} : Fresh(k)

\* The same for task_get (the task's own row and those of its subtasks), for
\* every task that was not changed along with another one.
TaskEntriesFresh == Acknowledged /\ ~blind => \A t \in Tasks \ swept : Fresh(t)

\* A read that can still be joined or cached has seen nothing an acknowledged
\* write has changed: a caller that arrives after the acknowledgement can not
\* be given the value from before it.
InFlightFresh ==
    Acknowledged /\ ~blind =>
        \A k \in Keys \ swept : inflight[k] # None =>
            LET r == inflight[k] IN
            /\ stage[r] \in {"second", "read"} => parts[r][1] = First(doc, k)
            /\ stage[r] = "read" => parts[r][2] = Second(doc, k)

\* Every cached read is answered, also when it joined a factory whose entry an
\* invalidation removed.
EveryReadSettles ==
    \A r \in Readers : stage[r] # "idle" ~> stage[r] \in {"answered", "failed"}
=============================================================================
