# omnifocus-mcp: TLA+ models, checks and proofs

The repository is an MCP server: an agent calls tools over stdio, and the server
answers by running scripts inside OmniFocus through `osascript` children. The
difficulty is in what lies between: tool calls overlap freely on one event loop,
OmniFocus is slow, may hang in a modal dialog and changes behind the server's
back, a write must not run twice, and a child must not outlive the server. This
directory models that middle (queues, child processes, retries, circuits, the
read cache, the database watcher, webhooks and shutdown), and the two ends it
connects: the scripts that read and change the OmniFocus document, with the
adapter the tests use instead of them, and the handlers of the tools.

Paths below are those of the repository (`src/...`).

## 1. Inventory

| Component | State it keeps | Operations | Hard behaviour | Correct when | Module |
|---|---|---|---|---|---|
| Read pool `src/concurrency/ReadPool.ts` | slots in flight, waiters | run, release | a slot is handed to a waiter one microtask before it runs | at most Size reads, oldest first, no free slot in front of a waiter | `ReadPool` |
| Write queue `src/concurrency/WriteQueue.ts` | in flight, queue | run, pump | the cap, a pump in a `finally` | one write at a time, oldest first, refused only when full | `WriteQueue` |
| Gates around the adapter `src/adapter/concurrent.ts` | the three gates | dispatch by method name | the same adapter call counted in the wrong gate | each call passes exactly one gate | `AdapterGates` |
| Shutdown `src/server/shutdown.ts`, `src/adapter/_shared/childRegistry.ts` | cleanup promise, live children | signal, drain poll, deadline, SIGTERM, SIGKILL | a killed child frees a gate and the next call spawns another child | no orphan, accepted work drained, always ends | `Shutdown` |
| Persistent transport `src/adapter/jxa/persistentScriptRunner.ts` | child, current call, promise chain | call, frame, timeout, exit, error, dispose | response frames carry no id; events of a replaced child come late | each call gets the answer of its own script, or a loss | `PersistentTransport` implementing `Spawner` |
| Script runners and transport circuits `src/adapter/jxa/scriptRunner.ts`, `src/adapter/omnijs/scriptRunner.ts`, `src/adapter/_shared/` | per transport: circuit state, failure count | run, retry, busy probe | results settle in any order; retrying a write | writes run at most once; a transport's circuit opens only on its own transient failures | `ScriptRunner` |
| Idempotency store `src/server/idempotencyStore.ts` | envelopes (LRU with TTL), in-flight promises | withIdempotencyKey | concurrent calls with one key; eviction; rejected executions | one execution per key | `KeyedMutation` |
| Tool middleware `src/server/circuitBreaker.ts`, `src/rateLimit/`, `src/loopDetector/` | breaker state and probe slot, two sliding windows | call, record | the breaker hears of outcomes in settling order | windows bound every interval; the probe slot comes back | `ToolMiddleware` |
| Read cache `src/cache/lruCache.ts`, `src/cache/invalidation.ts` and the tools that invalidate | entries, in-flight factories | wrap, invalidate, clear | a factory that read before a write commits after it | after an acknowledgement nothing older than the write is cached | `ReadCache` |
| Database watcher `src/watcher/DatabaseWatcher.ts` | Swift child or fs.watch, debounce window | start, stop, line, exit, timer | the child dies with lines in its pipe | every change seen reaches the handler with an early enough time | `DatabaseWatcher` |
| Change handler `src/server/composition.ts` | overlapping runs | query, resolve containers, evict | changes between query and eviction; rejections | no stale entry once everything is handled | `ChangeHandler` |
| Scripts `src/scripts/jxa/`, `src/scripts/omnijs/` | the OmniFocus document | one function of document and arguments for each script | look-ups and changes in turn: a script that stops half-way leaves the first half | the document stays one; a refused call leaves nothing | `Document`, `TaskScripts`, `LibraryScripts` |
| Routing and transports `src/adapter/router.ts`, `src/adapter/jxa/JxaTransport.ts`, `src/adapter/omnijs/OmniJsTransport.ts` | none | one method for each adapter call | arguments that do not reach the payload, one call in two scripts | the same answer and document as the in-memory adapter; a write sent again is harmless | `Transports`, `Adapters` |
| In-memory adapter `src/adapter/inMemory/InMemoryAdapter.ts` | maps of rows, stored projects and counts | the same methods | counts and places kept by hand on every path | it is the abstract adapter of the two above | `InMemory`, `Twin` |
| Tool handlers `src/tools/`, `src/services/`, `src/state/replayStore.ts` | the clarification that waits | some 130 tools: reads, guards, previews, questions, writes, batches, imports | rows read before a write and used after it; items that fail; the scopes each path invalidates | cached listings settle; a declining answer wrote nothing; what is reported as done is done | `ToolCalls`, `TaskTools`, `BatchTools`, `LibraryTools`, `ExchangeTools`, `Tools` |
| Webhooks `src/webhooks/` | registry, baseline snapshot, observeChain, per-name circuits | register, delete, observe, deliver | overlapping snapshots; deliveries of up to fifty seconds | no event twice, baseline ends at the present | `Webhooks` |

How they meet: a tool call passes the **middleware**, then a handler that may be
wrapped by the **idempotency store**, reads through the **cache**, and calls the
adapter, whose every method passes one of the three **gates**; the gated call runs
a script through the **script runner**, inside its transport's circuit, on a
**spawner** (one-shot or **persistent**). After a write the handler invalidates
the cache. Independently the **watcher** calls the **change handler**, which
queries through the same gated adapter, evicts from the same cache and feeds the
**webhooks**. **Shutdown** polls the gates and reaps the children.

Everything else in the repository (pagination, lifecycle probe, session snapshots,
resources, envelope, parsers, observability, calendar bridge, configuration) is
listed in `PROJECT.json` with the reason it has no model, and in section 8.

## 2. Modules, state and actions

**FifoGate** is the abstract specification of a gate: the calls served are always
the `Limit` oldest unfinished ones. This is bounded concurrency, no overtaking
and no idle slot in a single sentence.

**ReadPool** has the code's `inFlight` and `waiters`; `phase` says where each call
is and `order` is the history of unfinished calls. `Acquire` is `run` up to its
first await (with or without a free slot), `Enter` the microtask in which a
released waiter starts its work, `Settle` the `finally` that gives the slot back
*and takes it again* on behalf of the next waiter, in one step, as the code does.
**WriteQueue** is `Submit` (start or enqueue), `Reject` (`QueueFull`) and `Settle`
(the `finally` with its pump). **AdapterGates** instantiates one pool and two
queues (JXA and OmniJS writes run in different queues) and `PickGate` is the
routing by method of `wrapWithConcurrency`.

**Shutdown** extends AdapterGates with tool handlers that issue their adapter calls
one after the other (`Request`, `Issue`, `Resume`), children (`Enter`,
`SpawnAgain` for a retry or probe, `ChildExit`) and the sequence `Signal`,
`DrainPoll`, `DrainDeadline`, `Reaped`, `KillSurvivors`. A handler that
awaits something other than the adapter is invisible to the drain; that
is in the model as the state `elsewhere`.

**Spawner** is the abstract seam between the runners and the transports: a script
asked for runs at most once, maybe after its caller was told that it failed; one
result per caller; ok only from the script's own run, an error also from a one-shot
process that cannot be started; "unavailable" only when the script never runs. **PersistentTransport** models the class with the operating
system around it: `fifo`, `current`, `child` are its fields; `process`, `request`,
`frames`, `gone` are the children, their pipes and the events Node has
delivered. `Execute` and `Die` belong to the child and are not fair: OmniFocus may
hang for ever. Only the timers and the event loop are fair.

**ScriptRunner** is `runJxaScript` and `runOmniJsScript` (`Omnijs` says which script
is whose) over *any* spawner that keeps the promise of
Spawner (its steps are the steps of the instance `Seam`), with one retry for
read-only scripts, the busy probe after a timeout and one circuit per transport.
**KeyedMutation** extends it with `withIdempotencyKey`: `Replay`, `Join`, `Execute`,
`Publish`, and `Expire`.

**ToolMiddleware** models the synchronous stretch at the arrival of a call (breaker,
limiter, detector) and the later settling, with a clock.

**ReadCache** models `wrap` (hit, join, miss), the factories of `task_get`,
`project_get` and `task_list` as one or two adapter calls with anything in between,
`invalidate` with its token guard (the `inflight` map), and the writing tools
task_move, task_complete (with children), task_update and database_undo as prefetch,
write, re-read, acknowledge. OmniFocus is a tree of tasks in projects.

**DatabaseWatcher** has the two sources and the debounce window; **ChangeHandler**
extends it with OmniFocus (tasks that are edited, created, moved with their subtasks and
deleted: `Edit`, `Place`, `Delete`, each renewing the date of one object only), one cache key (entries do not interact, so a behaviour
follows one key, chosen initially) and the runs of the handler: `Query`, `Resolve`,
`Flush`, each of the first two also rejecting. **Webhooks**, about the same objects and
runs (`HandlerRuns`), models what follows the eviction: `observeChain`, torn fetches
(`listTasks` and `listProjects` run side by side), `diffWebhookEvents`, and the dispatcher
with retries and circuits.

**Document** is OmniFocus as the scripts see it: a record of functions whose domains
are the objects that exist, and the rows (`BuildTask`, `BuildProject`, ...) that
`src/scripts/jxa/_helpers/` build. A task stores only the container it is in; its
project is derived, by `Chain`, a recursive function on the tasks. **TaskScripts** and **LibraryScripts** have one operator for each
script, from a document and arguments to a document, a code and a value (`Answer`,
`Refuse`), with the order of its look-ups and changes: `TaskSetAlarms` keeps the alarms
set before one that cannot be, `PerspectiveCreate` and `ProjectCreate` have the object they take
away again, or fail to. An argument `cut` or `stuck` says that OmniFocus refuses a property or
the roll-back there.
**Transports** has one operator for each adapter method, named after it: what the
transport passes to the script, and drops (`updateFolder` and `updateTag` lose the
parent), the routing table, and the note that goes in a second script (`Split`).

**InMemory** is the in-memory adapter method by method, with its stored projects and
counters. **Twin** makes it an abstract specification: a state `w`, the last `answer`,
and the calls for which the two adapters are meant to agree (`Promised`; for the others
any answer will do). **Adapters** is the system of any adapter calls on a document, one
action for each method, each an `Invoke` of the operator of **Transports**, from any of the
documents `Starts`, which are sound by assumption. `Sound` is what a document must be: it has
its fields and no others, every container, tag and parent that a row names exists, no task is
in itself, the order has every task once, and what exists has an id that was given. `View` maps its document to the in-memory adapter's state, so that
`Promise!Spec` says that the transports do what the tests' adapter does.

**ToolCalls** says what a handler is made of. A handler is an operator `tool(d, a, g)`
of the document now, its arguments and the replies it has had: the next step it comes
to, which is a request of the adapter (`Ask`, or `Try` inside a try/catch), a read through
the cache (`Cached`), a question (`Clarify`), or the reply, and the scopes invalidated in
the stretch before it (`Flush`). What the code keeps over an await is in `g`, however old it
is by then. `Guarded` is assertNotModifiedSince and then dryRunGuard. **TaskTools**,
**BatchTools**, **LibraryTools** and **ExchangeTools** have one operator for each tool,
under the tool's own name. **Tools** runs calls of two callers side by side: `Call`, `Choose` (the clarify tool,
with its token), `Expire`, `Advance` (the adapter executes one request and the handler
runs on), `Lose` (a request that is executed or not, and answered with a timeout).
Modules of the same document are thus used twice: `Adapters` lets anybody call any adapter method
once, `Tools` lets the handlers call them in turn.

Definitions named as faults ("Fault: ...", "Mutant: ...") are not used by any specification: they
are plausible bugs, put in the place of the definition that follows them to see
that a property notices.

## 3. Runs

| Run | Shows | Bounds, and why they are enough |
|---|---|---|
| `gates` | type invariant, counters equal to the calls in flight, no lost wake-up, QueueFull only when full, both gates implement FifoGate, every call returns | 4 reads on 2 slots (two wait at once, so order matters), 4 JXA writes on a cap of 3 (two queued, or one refused), one OmniJS call |
| `shutdown` | NoOrphan, AcceptedWorkDrained, ShutdownEnds | 4 handlers using all three gates, a signal anywhere, calls that spawn twice (retry), children that ignore SIGTERM |
| `read_cache` | ListingsFresh, TaskEntriesFresh, InFlightFresh, EveryReadSettles | two readers of one key (hit, join, orphaned factory), two different writing tools at once, undo between |
| `tool_middleware` | ProbeSlotComesBack, RateBounded, LoopsCut, OpensOnOutage | 4 overlapping calls, thresholds and windows of 2, one key of room in the detector, 4 ticks: every window elapses twice |
| `transport` | OneInFlight, RestartsAreReal, NoStray, implements Spawner, EveryCallSettles | 3 calls on 2 children: one lost with its child, one on the next while old events are pending, one reusing a child |
| `keyed_mutations` | WritesRunOnce, OneExecutionPerKey, CircuitOpensWhenSick | two JXA invocations with one key, an OmniJS one with another, room for one envelope, a retried JXA read, threshold 2 |
| `changes` | FreshWhenQuiet, CatchesUp | a task in a project and a second one that is its subtask or yet to be created, 2 changes (edit, creation, move to or from the inbox or under the other task, deletion), 2 overlapping runs, both sources and their failures. Trees of tasks are two deep, as far as a task's entry and the handler's look-up reach |
| `webhooks` | ObservedWhenQuiet, NoRepeatedDelivery, RunsEnd | 4 windows (a baseline, two overlapping runs, the one in which harm would show), 4 changes, 2 attempts, circuits at 2 failures |
| `adapters` | WellFormed, TwinAgrees, RefusedLeavesNothing, RepeatedIsHarmless | any call, with arguments from small sets that include ids of nothing, and after it any other, on three documents: a library with nested folders, tags and tasks; an inbox with a task in a task; finished, dropped and on-hold things. A pair is what a repeated call, a left-over or a stored count needs to show |
| `adapters_moved` | violates MovedWhereAsked | the same |
| `tools` | ListingsSettle, DeclinedWroteNothing, AnsweredIsDone | one call of any tool on two of those documents, one call out of twelve of a rival (drops, deletes, moves, batches, a cascade) between any two of its requests, one clarification answered with any choice or expired, one lost request (`MaxLost`), reads of at most 4 ids (`MaxIds`), 2 matches per reclassification (`HardCap`); the cache starts full |
| `import_stale` | violates ListingsSettle | the same with an import as the call |

The names of counts the code does not have are bounds and are marked "bound:" where
they are declared (MaxChildren, MaxTime, Runs, MaxChanges, MaxWindows, MaxToggles,
MaxSpawns, MaxLost). Thresholds of the code (ten failures, four attempts, thirty calls a
minute) are constants, given small values so that they are reached.
Deadlock checking is off in every run: all calls may have been answered, or the
process has exited, and the model then rightly stops. That nothing stops too early is what
the liveness properties say; `tool_middleware`, `keyed_mutations`, `adapters` and `tools`
have none, because they end with what the user asks for.

What the adapter and tool properties excuse, and why:

* `Promised` (Twin) leaves out the calls for which the in-memory adapter is simpler on
  purpose or by omission: deleting or moving a task that has subtasks, unknown tags, a
  list filtered by the inbox, folders in folders, undo, custom perspectives. A change that makes the
  two adapters differ anywhere else is a violation.
* `HalfDone` (Adapters) names the calls that are refused after part of their work, see section 6.
  In the model a refused setter comes after the note and the flag; an item of a batch is done
  or not; the reads with which a script builds its answer after a change succeed.
* `Repeatable` names the methods that may be sent again; creating, duplicating, batch
  moves, adding attachments and undo are left out because a second run does more. So is
  completing or dropping a task that repeats (`ClosesRecurring`), and completing or dropping
  a project, whose repetition no script shows: a second completion of a repeating task is one of
  its next occurrence (section 6).
* `overlooked` (ChangeHandler) becomes true when a task is moved away from the followed
  entry, or takes subtasks to another project, while that entry is cached or being read, and
  false when the entry is next evicted. The handler asks only where a moved task is now, so
  FreshWhenQuiet claims nothing of such an entry (section 6).
* `unsettled` (Tools) becomes true when a call that has written and not yet invalidated
  ends in an error, or reports failed items: the code then leaves without invalidating,
  and ListingsSettle claims nothing of what follows.
* AnsweredIsDone is about calls nothing came between (`alone`) in behaviours without a
  lost request; with either, another call may rightly have undone what is reported.

For every property of a passing run `PROJECT.json` names a fault of a modelled
definition that makes TLC report this very property.

## 4. Fairness

* Microtasks and timers run: Node's event loop is never blocked for ever by the
  modelled code (`Enter`, `Issue`, `RunOne`, `TimerFires`, `Fire`, `FallBack`).
* Adapter calls settle: each transport call runs under a timeout, and `transport`
  shows that the timeout settles it and `gates` that no gate loses it. Hence the
  fairness of `Read` in ReadCache, `Run` in ChangeHandler, `Observation` in Webhooks, and of a
  gated call's settling in AdapterGates. HTTPS requests have their own timeout.
* Nothing is assumed of OmniFocus, the children, the user or the agent: no fairness
  for executing a script, for exiting on SIGTERM, or for making calls.

## 5. Proofs

TLAPS proves, for every set of calls and every size:

* `ShutdownProofs`, in three parts. The pool: the inductive invariant `PoolInv`
  (`PoolSafety`): the line of unfinished calls is exactly the slot owners followed by the
  parked callers in order, without repetition, and the counter is the smaller of the
  line's length and Size. Typing alone is not inductive: that `Settle` hands the slot to
  the right caller needs the waiters to be precisely the rest of the line. From it:
  `SlotsAlwaysAccounted`, `AlwaysWorkConserving` and `PoolImplementsGate` (the pool
  refines FifoGate with Limit = Size). The gates: a step of the composition is a step or a
  stutter of each gate (`StepPerGate`), so the composed specification implies each gate's
  (`SpecPerGate`), and the properties the run `gates` checks follow:
  `GatesTypeAlwaysOK`, `CountersAlwaysTrue`, `NoWakeupIsLost`, `RefusalAlwaysMeansFull`,
  `ReadsOldestFirst`, `WritesOldestFirst`. The shutdown: every step of the server is a
  step or a stutter of each gate, so the gates' line invariant holds here too, and
  `NoOrphanEver` and `AcceptedWorkIsDrained` follow: where the drain poll reads counters
  of zero, the line of each gate is empty, and no call the gates had accepted is
  unanswered. NoOrphanEver rests on the process exiting in the turn in which it finds the
  registry empty, or kills what is in it.
* `WriteQueueProofs`: the same argument with the running job and the queue;
  `AlwaysSerial`, `NeverStallsAlways`, `RefusalMeansFull`, and `QueueImplementsGate`
  (Limit = 1).
* `KeyedMutationProofs`: `WritesAlwaysRunOnce`, from `RunnerInv`: only a read-only
  script is given a second attempt, what the spawner said of an attempt is true, and
  the outcome of a writing script is the result of its one attempt. The property
  itself is not inductive: "at most once" needs to know that the second attempt was
  never made. `CircuitsOpenOnlyWhenSick`, from `CircuitInv`: what a circuit counts
  never exceeds the transient failures since the last success. `KeysExecuteOneAtATime`
  (and `KeyedTypes`), from `StoreInv`: an invocation that has executed holds its key by its
  promise or by its envelope, or has failed, or its envelope has expired or been evicted;
  one key has one promise and one entry, never both. That keeps a second invocation of the
  key from executing, whatever the cap and whoever joined whom.
* `AdapterProofs`, in two parts. The process: `OneCallInFlight`, `OnlyRealRestarts`, `NoStrayChild` and
  `TransportImplementsSpawner`, from one inductive `Inv`. Frames carry no id, so what has
  to be shown is that a child which is used again has nothing of an earlier call in its
  pipes (`ChildIsClear`): a call that ends without having read its frame takes the child
  with it. `CurrentOwns` says whose child the present call has, `RequestsTrue` and
  `FramesTrue` what the pipes contain. The refinement is proved action by action: each
  step is a step of `Spawner` or leaves its variables alone.
  The document: `DocumentStaysOne` (WellFormed) and `RefusedCallsLeaveNothing`
  (RefusedLeavesNothing), for any documents, ids and arguments. `Sound` is inductive as it
  stands; what makes the proof long is that its containers are recursive (`Chain`). They are
  restated first without recursion (`SoundIsParts`): no set of tasks has each member in
  another one of it (`Acyclic`), and the order lists the tasks (`Lists`). Then follows what
  each edit of a part keeps (putting a row, moving, inserting, cutting out a subtree with all
  below it, copying one), what each script keeps, a batch by its items, and the calls.
  `Keeps`, which is what is shown of a script, says in addition that one which refuses
  has left what it found; the second theorem follows from it and from the list of those that
  do not (`HalfDone`).
* `ChangeHandlerProofs`: `CacheFollowsOmniFocus` (FreshWhenQuiet). An old row may be
  cached, or be about to be, only while the news of the object's last change is on its way
  (`OldIsOnItsWay`), and the way is followed station by station: the pending file event,
  a line in the child's pipe, the window of the debounce timer, a run that is to query, to
  resolve containers or to flush. An old row of a subtask may also be on its way with the
  news of the task it was carried along with (`Carried`), and an entry that a move left
  behind is outside the claim, until it is evicted, by `overlooked`. That the stamps keep the order of the events
  (`StampsInOrder`) is what makes the oldest stamp of a window reach back far enough.
  The second part is about the webhooks, which the same runs of the handler feed:
  `BaselineCatchesUp` and `NoDeliveryIsRepeated`. Only the head of
  `observeChain` has fetched anything (`HeadObserves`), so between a fetch and its
  comparison no other run moves the baseline; `DueTrue` says that a completion which is
  in the document or in a snapshot and not in the baseline has not been reported, and
  `CaughtUp` what the last run in the chain has read or will read.
* `ToolsProofs`: `DecliningIsTrue` (DeclinedWroteNothing). No request of the adapter answers
  with a code by which a tool declines, and a reading request leaves the document alone
  (`Honest`, `Looking`). So each step of a tool looks or works (`Looks`, `Works`), and each
  of the tools looks until it decides, or until its question is answered, and works after
  that (`MoveFollows`, one lemma per group of tools). The invariant is `CallOK`: a call that
  has changed the document is past its decision (`Committed`). What the other callers do to
  the document in between does not matter to it, nor which requests time out, executed or
  not. Tools that never decline (most batches, the imports, folder_delete with its cascade)
  need only that the errors they pass on are the adapter's.
* `ListingProofs`, on top of it: `ListingsAreNeverStale` (ListingsSettle): no cached
  listing (tasks, projects, tags, folders, the forecast) stays behind what OmniFocus would
  answer, whichever tools ran. The property speaks of moments at which nobody owes an
  invalidation, so it is not inductive; `SettleInv` says for every moment that a cached
  listing is right or that a call on its way, with this kind of listing among those its
  tool changes (`Affects`), still owes its invalidation. Two things are shown of each
  handler. Its requests change no listings but those of the kinds in `Affects`, and a step
  that invalidates covers all of these (`Clean`, from what each script leaves alone in the
  rows the listing is built of, and the scopes it drops with any key of such a page). And
  a call that owes is at a step from which it still comes to its invalidation (`MayOwe`,
  carried from step to step by `Carries`), or ends in a failure, which is what `unsettled`
  records. For the batches this follows the list of items to its end: which answers have
  been done, and that one done item is enough for the invalidation.
* `SharedStateProofs`, in two parts. The read cache: `ListingsStayFresh`,
  `TaskEntriesStayFresh`, `InFlightStaysFresh`. A key is clean (nothing old is cached
  under it, or read by a factory that may still commit), or a tool that has written is
  still going to invalidate it (`CleanOrCovered`). That a write changes no value but those
  of the keys its tool invalidates is a statement about the tree of tasks, any tree: a set
  of tasks each member of which has its parent in the set is empty (`DownTheTree`), so the
  recursive container of a task is well defined and is shared along its ancestors.
  The tool middleware: `ProbeNeverLost`: whoever takes the probe slot is itself going
  to settle, and every settling in a half-open circuit frees the slot or leaves half-open.
  `WindowBoundsTheRate`, `LoopsAreCut` and `OpensOnlyOnOutage` compare the lists the code
  trims with the history of all executions and outcomes. A list of stamps is in order
  (`InOrder`) and has every event of the window, counted from the end (`Covers`), so a call
  is let through a list of n only if the n-th event before it is a window old (`Spaced`).
  While the circuit is closed, its failures are the last outcomes there were
  (`FailuresAreTheTail`). With them, `MiddlewareTypes`.

Assumptions: `PoolSize` and `QueueCap` are positive naturals and the set of gated calls is
arbitrary (finite where cardinalities are counted). Lemmas on appending to and removing from
a sequence are stated once and cited. `KeyedMutationProofs` assumes a positive threshold,
that the keyed scripts are writing scripts, and of the spawner only what `Spawner` says,
which `TransportImplementsSpawner` proves of the persistent one. The persistent transport's
proofs assume that the marker for "no call" is not a call, those about the document that the
documents to start from are sound and lists of ids are lists (`StartsAssumption`,
`ListsAssumption`), the shutdown's that a handler makes at least one adapter call
(`ScriptAssumption`; one that makes none is nothing to the gates), the middleware's that
thresholds and windows are positive, the tools' that `HardCap` is a natural, and of the
documents, keys and requests they are given what the schemas let through (`Framed`,
`Admitted`: tasks are finitely many, lists are lists, task_batch_assign has an item, and a
page's key is its listing with a filter), the webhooks', the handler's and the cache's that
a marker for "nothing" is none of the values it stands beside. `CacheAssumption` also has
the names of tasks and containers distinct and the tasks of the initial document in a tree,
as OmniFocus keeps them. Each is an ASSUME of the component's module, which TLC evaluates.

Three components have theorems with a hypothesis of their own, satisfied in the passing runs.
`HandlerAssumption` also has the initial documents in trees two deep (`Orderly`).
`CacheFollowsOmniFocus` is proved for `Lag <= Buffer`: a file event comes at most the query's
buffer after the change it announces, without which the property is false (section 6). The
theorems on the read cache are proved for `MovesToContainers`: no task_move names a task as
the new parent. Where one does, the new parent's project is left stale, the disagreement at
`src/tools/task/move.ts:151` in section 6.

`ListingsAreNeverStale` is proved for `AllInvalidating`, and only it. Imports of anything are
left out, since they invalidate too little (`import_stale`, section 6). So is
task_extract_from_image with an empty confirmation and the image to be attached to a new
parent task: `src/tools/task/extractFromImage.ts` creates that task and invalidates only if an
item of the confirmation succeeded, and its schema has no least number of items. No run has
this call; a proof attempt came upon it. `NoReply`, the other hypothesis, is that the
marker None is no answer.

Only model-checked:

* Liveness: `EveryCallReturns`, `ShutdownEnds`, `EveryReadSettles`, `EveryCallSettles`,
  `CatchesUp`, `RunsEnd`. The prover knows neither fairness nor ENABLED.
* That two adapters come to the same (`TwinAgrees`), that a repeated call comes to the same
  (`RepeatedIsHarmless`), and what an answer says of the document
  (`AnsweredIsDone`). They are about what cascades, clones and folds
  compute, value for value, where DocumentStaysOne and ListingsAreNeverStale only need
  what they preserve.

## 6. What the runs found

Two disagreements between the code and what the repository says of it have a run that
shows them (`findings` in `PROJECT.json`):

1. `adapters_moved`: folder_move and tag_move answer success and move nothing, because
   `updateFolder` and `updateTag` drop the parent (`src/adapter/jxa/JxaTransport.ts:809`
   against `src/tools/tag/move.ts:18` and `src/services/folderService.ts:190`).
2. `import_stale`: the imports create tags and tasks and invalidate nothing
   (`src/tools/export/taskpaper.ts:168` against `docs/adr/0006-read-cache-strategy.md:33`).

Others were met while modelling; the models have the behaviour, no run of their own:

* completing a task together with its children invalidates only the parent's scopes
  (`src/tools/task/complete.ts:112` against `src/services/taskService.ts:239`);
* moving a task under a parent in another project flushes both parents and the old
  project, not the new parent's (`src/tools/task/move.ts:151`);
* a call admitted before the circuit opened clears the probe slot of the half-open
  circuit when it settles, and a second probe is let through
  (`src/server/circuitBreaker.ts:175` against its comment at line 135);
* only resolved envelopes are stored, so a keyed write that timed out after taking effect
  runs again on retry (`src/server/idempotencyStore.ts:175` against `docs/idempotency.md:3`);
  RepeatedIsHarmless says for which adapter methods that does no harm. Completing a repeating
  task is not among them: OmniFocus puts the next occurrence in its place
  (`docs/domain-reference.md:28`), `src/scripts/jxa/task_complete.js:29` completes whatever is
  there, and so a completion that is sent again completes that one too;
* a task moved in OmniFocus stays in the cached entries of the project and the parent it was
  moved from, and its subtasks in theirs with the old project: the handler evicts the
  containers it finds after the change (`src/server/composition.ts:314`), while its comment
  claims the invariant of the mutating tools, and task_move evicts both ends
  (`src/tools/task/move.ts:142`);
* the filter `inbox` of task_list does not reach the script, which then lists every task
  (`src/adapter/jxa/JxaTransport.ts:231`); project_list with status "done" finds none, the
  scripts calling it "completed";
* a folder that is not empty is refused with a ScriptError where the in-memory adapter
  throws a ValidationError; a cascading delete works through the folders one request after
  the other and stops where one fails, the rest of its work done;
* calls that fail and leave part of themselves: `src/scripts/omnijs/task_create.js:77` sets
  the properties after `new Task`, outside any try; `src/scripts/omnijs/project_create.js:112`
  tolerates a roll-back that fails and answers "project rolled back" all the same, and so do
  the perspective scripts; task_update and project_update keep what was set before a
  field that is refused; task_duplicate leaves the whole copy when trimming it fails;
  task_set_alarms keeps the alarms set before one that cannot be; a long note is written by
  a second script that can fail after the first (`src/adapter/jxa/JxaTransport.ts:338`);
* assertNotModifiedSince compares a row read outside the write queue, so another tool's write
  may come between it and the guarded write; note_append likewise loses an append made between
  its read and its write (`src/tools/note/append.ts:151`); task_reclassify confirms the number
  of matches, not which tasks they are (`src/tools/task/reclassify.ts:257`);
* task_extract_from_image makes the task that holds the others first and invalidates only if
  one of those was made (`src/tools/task/extractFromImage.ts:375`): with none to make, or all of
  them failing, the holder is not in the listings. No request of the runs does that.

Behaviour the models have and a property excuses, by a history variable or a stated
assumption, is in the hazards with a note. The ones worth a look: a deletion in the
same debounce window as an edit is not evicted (FreshWhenQuiet says nothing of
rows of objects that are gone; the comment at `src/server/composition.ts:309`
expects a full clear); a change announced more than 200 ms after its modification
date is missed if another object matches the query (`Lag <= Buffer` in the run and in the theorem); a
webhook registered again is told of changes from before it existed (`behind` in
Webhooks; the comment at `src/webhooks/orchestrator.ts:100` expects otherwise); a
write whose prefetched row was overtaken flushes the wrong project (`blind` in
ReadCache).

## 7. Abstractions

* Payloads, texts, URLs and errors are model values or small sets; an error is the class the
  callers tell apart.
* Debounce and retry delays fire at any time. The clock of DatabaseWatcher only
  orders modification dates, stamps and windows, in units of the query's buffer.
* `ChangeHandler` reads a value atomically; reads in two calls are ReadCache's.
* A line the dead Swift child left in its pipe is handled before an event of the
  fs.watch opened afterwards; `start` and `stop` are called as the server does, once.
* Changes that reach the disk while nothing watches are lost to the server until
  the TTL: FreshWhenQuiet is about behaviours without such a change (`missed`).
* Expiry by TTL and eviction by capacity are one external action where they matter.
* A task that repeats passes to its next occurrence in its own row when it is completed, one
  day later; the completed ones are only counted (`past`). What dropping it does to the
  occurrences to come, and repeating projects, are not modelled. The in-memory adapter makes no next
  occurrences (`src/adapter/inMemory/InMemoryAdapter.ts:11`), so TwinAgrees leaves these calls out.
* In `Tools` only task_create and task_update can meet a refused property (`cut`), and a request
  of the run does; the other tools' creations and updates are done or refused as a whole.
* Of the names in a document only those that are looked up are kept; a note is its
  paragraphs, a date a small number, a text to import the sequence of tasks its parser
  makes of it, an answer's hints and the sections of a report are left out.
* The order OmniFocus keeps among tasks, new ids, cascades inside OmniFocus (a deleted
  container takes its contents along) and undo are external operators of `Document`.
* In `Tools` a read through the cache is one step; what readers of one key do to each other
  is ReadCache's. Requests a handler sends out at once are made one after the other.
  Idempotency keys are KeyedMutation's.

## 8. Not modelled, and what is left

Not modelled, because nothing in them is ordered against anything else: pagination cursors
(pure comparisons; a list that changes between two pages is documented as such), the
lifecycle probe (one memoised promise), session and sync snapshots (last write wins),
resources and prompts, the envelope, error and lint rules, parsers of dates, repetition
rules and TaskPaper (pure functions on text), observability, the calendar bridge, and
configuration. Of the tools, those without a document state: doctor, internal_status,
app_launch, parse_transport_text, repetition_from_prose, plugin_invoke and the raw scripts.

Left to do, by importance:

1. Restart: the webhook registry file and its partial failures, the baseline of a
   new process, `fireSynthetic`; the replay store with several clarifications at once.
2. `Tools` above `KeyedMutation` and the gates: keyed calls with lost requests.
