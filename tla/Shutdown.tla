------------------------------ MODULE Shutdown ------------------------------
(***************************************************************************)
(* src/server/shutdown.ts and src/adapter/_shared/childRegistry.ts, with   *)
(* the tool handlers that keep calling the adapter while the server goes   *)
(* down and the osascript children those calls spawn.                      *)
(*                                                                         *)
(* A handler is a sequence of adapter calls.  Between two of them it may   *)
(* await something that is not an adapter call (a progress notification, a *)
(* webhook delivery, a file): then no gate knows about it.  An adapter     *)
(* call spawns a child, and on a transient failure may spawn a second (the *)
(* read-only retry, or the busy probe) before it settles.                  *)
(*                                                                         *)
(* Node runs every pending microtask before the next signal, timer or      *)
(* child event, so those actions wait until the server is Quiet.           *)
(***************************************************************************)
EXTENDS AdapterGates

CONSTANTS Tools,     \* the tool invocations
          Script,    \* the adapter calls each of them makes, in order
          MaxSpawns  \* how many osascript processes each call may need

ASSUME ScriptAssumption ==
    Script \in [Tools -> Seq(Calls) \ {<<>>}] /\ MaxSpawns \in [Calls -> Nat \ {0}]

VARIABLES tool,      \* where each handler is
          step,      \* the index of its current adapter call
          child,     \* each call's osascript process
          spawns,    \* how many processes each call has started
          doomed,    \* the live children that have been sent SIGKILL
          server,    \* the lifecycle of the process
          graceOver, \* the drain ended by its deadline
          swept,     \* the children killActiveChildren() sent SIGTERM
          accepted   \* history: the calls pending when the signal arrived

hostVars == <<tool, step, child, spawns, doomed>>
lifeVars == <<server, graceOver, swept, accepted>>
vars == <<gateVars, hostVars, lifeVars>>

ToolStates == {"idle", "refused", "ready", "awaiting", "elsewhere", "over"}
ServerStates == {"serving", "draining", "reaping", "exited"}

Call(t) == Script[t][step[t]]
Up == server # "exited"

\* No microtask is pending.
Quiet == /\ \A t \in Tools : tool[t] # "ready"
         /\ \A c \in Calls : Phase(c) # "admitted"

\* activeChildren: spawned, neither `exit` nor `error` seen.
Active == {c \in Calls : child[c] = "alive"}

\* A call that has just been entered spawns its osascript child.
SpawnEntered ==
    LET entered == {c \in Calls : Phase(c) # "running" /\ Phase(c)' = "running"}
    IN  /\ child' = [c \in Calls |-> IF c \in entered THEN "alive" ELSE child[c]]
        /\ spawns' = [c \in Calls |-> IF c \in entered THEN 1 ELSE spawns[c]]

Init ==
    /\ GatesInit
    /\ tool = [t \in Tools |-> "idle"]
    /\ step = [t \in Tools |-> 1]
    /\ child = [c \in Calls |-> "none"]
    /\ spawns = [c \in Calls |-> 0]
    /\ doomed = {}
    /\ server = "serving"
    /\ graceOver = FALSE
    /\ swept = {}
    /\ accepted = {}

-----------------------------------------------------------------------------
(* Tool handlers                                                           *)

\* A request arrives; assertNotShuttingDown() lets it in or refuses it.
Request(t) ==
    /\ Up /\ Quiet
    /\ tool[t] = "idle"
    /\ tool' = [tool EXCEPT ![t] = IF server = "serving" THEN "ready" ELSE "refused"]
    /\ UNCHANGED <<gateVars, step, child, spawns, doomed, lifeVars>>

\* The handler calls the adapter; QueueFull is thrown at it synchronously.
Issue(t) ==
    /\ Up
    /\ tool[t] = "ready"
    /\ \E c \in {Call(t)} :
           /\ Dispatch(c)
           /\ tool' = [tool EXCEPT ![t] = IF Phase(c)' = "refused" THEN "over" ELSE "awaiting"]
    /\ SpawnEntered
    /\ UNCHANGED <<step, doomed, lifeVars>>

Enter(c) ==
    /\ Up
    /\ EnterRead(c)
    /\ SpawnEntered
    /\ UNCHANGED <<tool, step, doomed, lifeVars>>

\* A child ends: by itself, by execFile's timeout, or by a signal.
ChildExit(c) ==
    /\ Up /\ Quiet
    /\ child[c] = "alive"
    /\ child' = [child EXCEPT ![c] = "dead"]
    /\ UNCHANGED <<gateVars, tool, step, spawns, doomed, lifeVars>>

\* The runner spawns again for the same call: retry of a read, busy probe.
SpawnAgain(c) ==
    /\ Up /\ Quiet
    /\ child[c] = "dead"
    /\ Phase(c) = "running"
    /\ spawns[c] < MaxSpawns[c]
    /\ child' = [child EXCEPT ![c] = "alive"]
    /\ spawns' = [spawns EXCEPT ![c] = @ + 1]
    /\ UNCHANGED <<gateVars, tool, step, doomed, lifeVars>>

\* The promise of the handler's call settles: the handler fails or ends,
\* calls again in the same turn, or first awaits something else.
Settle(t) ==
    /\ Up /\ Quiet
    /\ tool[t] = "awaiting"
    /\ child[Call(t)] = "dead"
    /\ Return(Call(t))
    /\ SpawnEntered
    /\ \/ /\ tool' = [tool EXCEPT ![t] = "over"]
          /\ UNCHANGED step
       \/ /\ step[t] < Len(Script[t])
          /\ \E next \in {"ready", "elsewhere"} : tool' = [tool EXCEPT ![t] = next]
          /\ step' = [step EXCEPT ![t] = @ + 1]
    /\ UNCHANGED <<doomed, lifeVars>>

\* What the handler awaited outside the adapter is there.
Resume(t) ==
    /\ Up /\ Quiet
    /\ tool[t] = "elsewhere"
    /\ tool' = [tool EXCEPT ![t] = "ready"]
    /\ UNCHANGED <<gateVars, step, child, spawns, doomed, lifeVars>>

-----------------------------------------------------------------------------
(* The shutdown sequence                                                   *)

\* Fault: the OmniJS queue is not registered.
RegisteredWithoutOmniJs == Gates \ {"omniJsQueue"}

\* The queues mcpServer.ts registers with registerQueue().
Registered == Gates

Drained == \A g \in Registered : Pending(g) = 0

\* killActiveChildren() starts: nothing alive, and the process exits in the
\* same turn; otherwise SIGTERM to each and wait.
StartCleanup ==
    /\ server' = IF Active = {} THEN "exited" ELSE "reaping"
    /\ swept' = Active
    /\ UNCHANGED doomed

\* SIGINT or SIGTERM: initiate() sets the flag and looks at the queues once.
Signal ==
    /\ Quiet
    /\ server = "serving"
    /\ accepted' = {c \in Calls : Phase(c) \in Unfinished}
    /\ IF Drained THEN StartCleanup ELSE server' = "draining" /\ UNCHANGED <<doomed, swept>>
    /\ UNCHANGED <<gateVars, tool, step, child, spawns, graceOver>>

\* The 50 ms poll finds nothing pending.
DrainPoll ==
    /\ Quiet
    /\ server = "draining"
    /\ Drained
    /\ StartCleanup
    /\ UNCHANGED <<gateVars, tool, step, child, spawns, graceOver, accepted>>

\* Fault: the loop has no deadline.
DrainForever ==
    /\ DrainPoll
    /\ UNCHANGED graceOver

\* The grace window closes first; the sequence goes on regardless.
DrainDeadline ==
    /\ Quiet
    /\ server = "draining"
    /\ graceOver' = TRUE
    /\ StartCleanup
    /\ UNCHANGED <<gateVars, tool, step, child, spawns, accepted>>

\* The 25 ms poll of killActiveChildren finds the registry empty.
Reaped ==
    /\ Quiet
    /\ server = "reaping"
    /\ Active = {}
    /\ server' = "exited"
    /\ UNCHANGED <<gateVars, hostVars, graceOver, swept, accepted>>

\* Fault: the second sweep reuses the list of the first.
KillSwept ==
    /\ Quiet
    /\ server = "reaping"
    /\ doomed' = Active \cap swept
    /\ server' = "exited"
    /\ UNCHANGED <<gateVars, tool, step, child, spawns, graceOver, swept, accepted>>

\* Its own grace is over: SIGKILL to whatever is in the registry now, which
\* may be other children than those that were sent SIGTERM.
KillSurvivors ==
    /\ Quiet
    /\ server = "reaping"
    /\ doomed' = Active
    /\ server' = "exited"
    /\ UNCHANGED <<gateVars, tool, step, child, spawns, graceOver, swept, accepted>>

-----------------------------------------------------------------------------

Next ==
    \/ \E t \in Tools : Request(t) \/ Issue(t) \/ Settle(t) \/ Resume(t)
    \/ \E c \in Calls : Enter(c) \/ ChildExit(c) \/ SpawnAgain(c)
    \/ Signal \/ DrainPoll \/ DrainDeadline \/ Reaped \/ KillSurvivors

\* Microtasks run and the two deadlines of the shutdown sequence fire.  Nothing
\* is assumed of the children: a wedged osascript may ignore SIGTERM.
Fairness ==
    /\ \A t \in Tools : WF_vars(Issue(t))
    /\ \A c \in Calls : WF_vars(Enter(c))
    /\ WF_vars(DrainDeadline) /\ WF_vars(KillSurvivors)

Spec == Init /\ [][Next]_vars /\ Fairness

-----------------------------------------------------------------------------

\* childRegistry.ts: no osascript outlives the server unkilled and keeps
\* OmniFocus locked, although each killed child frees a gate whose next
\* call, or whose retry, spawns another one during the sweep.
NoOrphan == server = "exited" => Active = doomed

\* Work the gates had accepted when the signal arrived is cut off only by
\* the end of the grace window, whatever gate it waits in.
AcceptedWorkDrained ==
    server = "exited" /\ ~graceOver => \A c \in accepted : Phase(c) = "settled"

\* A wedged OmniFocus cannot keep the server up after a signal.
ShutdownEnds == server = "draining" ~> server = "exited"
=============================================================================
