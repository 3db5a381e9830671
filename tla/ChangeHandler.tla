--------------------------- MODULE ChangeHandler ---------------------------
(***************************************************************************)
(* What the server does to its read cache about a change made in OmniFocus *)
(* itself: the handler of makeDatabaseChangeHandler                        *)
(* (src/server/composition.ts), run once per window of the DatabaseWatcher *)
(* and overlapping with itself.  A run asks which objects changed since    *)
(* shortly before the window, which containers they are in, and evicts     *)
(* those entries, or everything when it cannot tell.  The observation for  *)
(* webhooks that follows is the subject of the module Webhooks.            *)
(***************************************************************************)
EXTENDS DatabaseWatcher, HandlerRuns, FiniteSets, Functions

CONSTANTS Documents, \* the documents OmniFocus may begin with
          Listing,     \* the key of a task_list page, scope search:*
          Buffer,      \* the query starts this much before the window
          MaxChanges   \* bound: changes the user makes

Row == [state   : {"new", "open", "done", "gone"},   \* "new": not yet created
        parent  : Tasks \cup {None},
        project : Projects \cup {None}]

\* Bound: trees of tasks are two deep, so a subtask has no subtasks.
Orderly(d) ==
    \A t \in Tasks : d[t].state \in {"open", "done"} /\ d[t].parent # None =>
        LET above == d[d[t].parent] IN
        above.state \in {"open", "done"} /\ above.parent = None /\ above.project = d[t].project

ASSUME HandlerAssumption ==
    /\ {Buffer, MaxChanges} \subseteq Nat /\ None \notin Tasks \cup Projects \cup {Listing}
    /\ \A d \in Documents : d \in [Objects -> Row] /\ Orderly(d)

VARIABLES doc, modAt, changes,     \* OmniFocus: row and modification date of each object
          key,                     \* the cache key this behaviour follows
          cached, reading,         \* its committed value and its current factory
          overlooked,              \* history: a move the handler cannot relate to that value
          stage, since, scopes     \* per handler run

docVars   == <<doc, modAt, changes>>
cacheVars == <<key, cached, reading, overlooked>>
runVars   == <<stage, since, scopes>>
vars == <<watcherVars, docVars, cacheVars, runVars>>

Keys == Objects \cup {Listing}
Never == -Buffer - 1     \* a modification date before any window

-----------------------------------------------------------------------------
Exists(o) == doc[o].state \in {"open", "done"}

Subtasks(t) == {s \in Tasks : Exists(s) /\ doc[s].parent = t}

\* task_get embeds the direct subtasks, project_get and task_list whole trees.
Embedded(k) == {o \in Objects : /\ Exists(o)
                                /\ \/ o = k
                                   \/ o \in Tasks /\ k \in {doc[o].parent, doc[o].project, Listing}}

Value(k) == Restrict(doc, Embedded(k))

Init ==
    /\ WatcherInit
    /\ doc \in Documents
    /\ modAt = [o \in Objects |-> Never]
    /\ changes = 0
    /\ key \in Keys /\ cached = None /\ reading = None /\ overlooked = FALSE
    /\ stage = [h \in Runs |-> "idle"]
    /\ since = [h \in Runs |-> Never]
    /\ scopes = [h \in Runs |-> {}]

-----------------------------------------------------------------------------
\* The user and the tool calls.

\* A change of o, and of what goes with it: only o has its date renewed.
Changed(o, d) ==
    /\ changes < MaxChanges
    /\ doc' = d
    /\ modAt' = [modAt EXCEPT ![o] = clock]
    /\ changes' = changes + 1
    /\ unsaved' = IF unsaved = None THEN clock ELSE unsaved
    /\ UNCHANGED <<clock, sourceVars, lines, window, missed, key, cached, reading, runVars>>

Edit(o) ==
    /\ Exists(o)
    /\ Changed(o, [doc EXCEPT ![o].state = IF @ = "open" THEN "done" ELSE "open"])
    /\ UNCHANGED overlooked

Delete(t) ==
    /\ Exists(t)
    /\ Changed(t, [o \in Objects |-> IF o \in {t} \cup Subtasks(t)
                                     THEN [doc[o] EXCEPT !.state = "gone"] ELSE doc[o]])
    /\ UNCHANGED overlooked

\* The entries a move changes that neither the task nor its new place leads to:
\* those of the place it leaves, and of the subtasks that change their project.
Behind(t, p, j) == ({doc[t].parent, doc[t].project} \ {p, j})
                   \cup {s \in Subtasks(t) : doc[s].project # j}

\* A task is created, or moved with its subtasks, under p (or None) in project j.
Place(t, p, j) ==
    /\ doc[t].state # "gone"
    /\ Exists(t) => doc[t].parent # p \/ doc[t].project # j
    /\ p # None => /\ p # t /\ Exists(p) /\ doc[p].parent = None /\ doc[p].project = j
                   /\ Subtasks(t) = {}
    /\ Changed(t, [o \in Objects |->
                     CASE o = t -> [state |-> IF Exists(t) THEN doc[t].state ELSE "open",
                                    parent |-> p, project |-> j]
                       [] o \in Subtasks(t) \ {t} -> [doc[o] EXCEPT !.project = j]
                       [] OTHER -> doc[o]])
    /\ overlooked' = (overlooked \/ ({cached, reading} # {None} /\ key \in Behind(t, p, j)))

\* A cached read misses, and its factory asks OmniFocus.
Read ==
    /\ cached = None /\ reading = None
    /\ key \in Objects => Exists(key)
    /\ reading' = Value(key)
    /\ UNCHANGED <<watcherVars, docVars, key, cached, overlooked, runVars>>

Commit ==
    /\ reading # None
    /\ cached' = reading
    /\ reading' = None
    /\ UNCHANGED <<watcherVars, docVars, key, overlooked, runVars>>

-----------------------------------------------------------------------------
\* One run of the handler.

\* The debounce timer: onChange is called and not awaited.  Runs differ in
\* nothing but their name, so any idle one will do.
Fire(h) ==
    /\ window # None /\ stage[h] = "idle"
    /\ h = CHOOSE g \in Runs : stage[g] = "idle"
    /\ since' = [since EXCEPT ![h] = window - Buffer]
    /\ stage' = [stage EXCEPT ![h] = "query"]
    /\ window' = None
    /\ UNCHANGED <<clock, unsaved, sourceVars, lines, missed, docVars, cacheVars, scopes>>

Evicting(h, found, next) ==
    /\ scopes' = [scopes EXCEPT ![h] = found]
    /\ stage' = [stage EXCEPT ![h] = next]

FullClear(h) == Evicting(h, Keys, "flush")

ModifiedSince(s) == {o \in Objects : Exists(o) /\ modAt[o] >= s}

\* getChangesSince answers or rejects; an empty answer means a full clear.
Query(h) ==
    /\ stage[h] = "query"
    /\ LET found == ModifiedSince(since[h]) IN
       \/ found = {} /\ FullClear(h)
       \/ found # {} /\ Evicting(h, found \cup {Listing},
                                 IF found \cap Tasks # {} THEN "resolve" ELSE "flush")
       \/ FullClear(h)
    /\ since' = [since EXCEPT ![h] = Never]
    /\ UNCHANGED <<watcherVars, docVars, cacheVars>>

\* Fault: only the parent tasks count as containers.
ParentsOnly(S) == {doc[t].parent : t \in S}

Containers(S) == {doc[t].parent : t \in S} \cup {doc[t].project : t \in S}

\* Fault: a rejected getTasksMany starts the run over.
ResolveAgain(h) ==
    /\ stage[h] = "resolve"
    /\ \/ LET found == {t \in scopes[h] \cap Tasks : Exists(t)}
          IN /\ Evicting(h, scopes[h] \cup (Containers(found) \ {None}), "flush")
             /\ UNCHANGED since
       \/ Evicting(h, {}, "query") /\ since' = [since EXCEPT ![h] = -Buffer]
    /\ UNCHANGED <<watcherVars, docVars, cacheVars>>

\* getTasksMany answers, with null for a task that is gone, or rejects.
Resolve(h) ==
    /\ stage[h] = "resolve"
    /\ \/ LET found == {t \in scopes[h] \cap Tasks : Exists(t)}
          IN Evicting(h, scopes[h] \cup (Containers(found) \ {None}), "flush")
       \/ FullClear(h)
    /\ UNCHANGED <<watcherVars, docVars, cacheVars, since>>

\* Invalidate the scopes, dropping the factories in flight under them.
Flush(h) ==
    /\ stage[h] = "flush"
    /\ \/ key \in scopes[h] /\ cached' = None /\ reading' = None /\ overlooked' = FALSE
       \/ key \notin scopes[h] /\ UNCHANGED <<cached, reading, overlooked>>
    /\ Evicting(h, {}, "idle")
    /\ UNCHANGED <<watcherVars, docVars, key, since>>

Run(h) == Query(h) \/ Resolve(h) \/ Flush(h)

Next == \/ WatcherStep /\ UNCHANGED <<docVars, cacheVars, runVars>>
        \/ \E h \in Runs : Fire(h) \/ Run(h)
        \/ \E o \in Objects : Edit(o)
        \/ \E t \in Tasks : \/ Delete(t)
                          \/ \E p \in Tasks \cup {None}, j \in Projects \cup {None} : Place(t, p, j)
        \/ Read \/ Commit

\* Node runs its timers and callbacks, the file system reports, and every
\* adapter call settles.  The user and the readers are under no obligation.
Spec == /\ Init /\ [][Next]_vars
        /\ WatcherFairness
        /\ WF_vars(\E h \in Runs : Fire(h))
        /\ \A h \in Runs : WF_vars(Run(h))

-----------------------------------------------------------------------------

\* Nothing is on its way from the database file to the cache.
Quiet == /\ unsaved = None /\ lines = <<>> /\ window = None
         /\ \A h \in Runs : stage[h] = "idle"

\* v lacks o, has it where it does not belong, or has an old row of it.
Differs(v, o) == /\ v # None /\ Exists(o)
                 /\ \/ o \in DOMAIN v /\ (o \notin Embedded(key) \/ v[o] # doc[o])
                    \/ o \notin DOMAIN v /\ o \in Embedded(key)

\* When every change that some watcher saw has been handled, what the cache has,
\* or a factory will still commit, tells of every object that exists what
\* OmniFocus would tell: the eviction reaches the containers the object is in
\* now, and no change falls between two windows, between overlapping runs or
\* into the fall-back to fs.watch.  Excused until its eviction is an entry that
\* a move left behind: the handler asks only where a moved task is now.
FreshWhenQuiet ==
    Quiet /\ ~missed /\ ~overlooked =>
        \A o \in Objects : ~Differs(cached, o) /\ ~Differs(reading, o)

\* However the sources fail and the adapter rejects, the work of every change
\* comes to an end: the cache does not stay behind OmniFocus for good.
CatchesUp == []<>Quiet
=============================================================================
