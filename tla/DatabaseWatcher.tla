-------------------------- MODULE DatabaseWatcher --------------------------
(***************************************************************************)
(* The watcher of OmniFocus's database file                                *)
(* (src/watcher/DatabaseWatcher.ts) with its two sources of file events:   *)
(* the Swift child, whose lines carry the time of the event, and fs.watch, *)
(* to which the watcher falls back when the child dies.  Events are        *)
(* gathered in a window that keeps the time of the first one; the timer    *)
(* that closes it is re-armed by every event and may fire at any time.     *)
(***************************************************************************)
EXTENDS Integers, Sequences

CONSTANTS Lag,       \* a file event is stamped within this time of the change
          MaxTime,   \* bound: the model's clock stops here
          None

ASSUME WatcherAssumption == Lag \in Nat /\ MaxTime \in Nat /\ None \notin Int

VARIABLES clock,
          unsaved,   \* time of the oldest change no event has been stamped for, or None
          status,    \* "new", "started" or "stopped"
          swift,     \* the child: "none", "up", or "down" when its exit is not yet handled
          node,      \* fs.watch is open
          lines,     \* stamps of the lines in the child's pipe
          window,    \* windowStartTs; the debounce timer is armed iff it is set
          missed     \* history: a change or a window fell through

sourceVars  == <<status, swift, node>>
watcherVars == <<clock, unsaved, sourceVars, lines, window, missed>>

WatcherInit ==
    /\ clock = 0 /\ unsaved = None
    /\ status = "new" /\ swift = "none" /\ node = FALSE
    /\ lines = <<>> /\ window = None /\ missed = FALSE

-----------------------------------------------------------------------------

\* fs.watch may throw or find the path gone; the handle then stays as it was.
StartNodeWatcher == node' \in {node, TRUE}

\* start(): no database, the Swift child, or fs.watch because its binary is missing.
Start ==
    /\ status = "new"
    /\ \/ status' = "stopped" /\ UNCHANGED <<swift, node>>
       \/ status' = "started" /\ swift' = "up" /\ UNCHANGED node
       \/ status' = "started" /\ StartNodeWatcher /\ UNCHANGED swift
    /\ UNCHANGED <<clock, unsaved, lines, window, missed>>

\* The exit (or error) event of the child.
FallBack ==
    /\ swift = "down" /\ status = "started"
    /\ swift' = "none"
    /\ StartNodeWatcher
    /\ UNCHANGED <<clock, unsaved, status, lines, window, missed>>

\* fs.watch reports an error: stop(), which drops the open window.
NodeError ==
    /\ node
    /\ status' = "stopped" /\ swift' = "none" /\ node' = FALSE
    /\ window' = None
    /\ missed' = (missed \/ window # None)
    /\ UNCHANGED <<clock, unsaved, lines>>

\* scheduleNotify: the first event of a window gives it its time.
ScheduleNotify(ts) == window' = IF window = None THEN ts ELSE window

SwiftLine ==
    /\ lines # <<>>
    /\ ScheduleNotify(Head(lines))
    /\ lines' = Tail(lines)
    /\ UNCHANGED <<clock, unsaved, sourceVars, missed>>

\* A line the dead child left in the pipe was readable before fs.watch was
\* opened, so the event loop delivers it first.
NodeEvent ==
    /\ node /\ unsaved # None /\ lines = <<>>
    /\ ScheduleNotify(clock)
    /\ unsaved' = None
    /\ UNCHANGED <<clock, sourceVars, lines, missed>>

-----------------------------------------------------------------------------
\* The child and the file system.

SwiftEvent ==
    /\ swift = "up" /\ unsaved # None
    /\ lines' = Append(lines, clock)
    /\ unsaved' = None
    /\ UNCHANGED <<clock, sourceVars, window, missed>>

SwiftDies ==
    /\ swift = "up"
    /\ swift' = "down"
    /\ UNCHANGED <<clock, unsaved, status, node, lines, window, missed>>

\* The file changes while nothing watches it.
Unwatched ==
    /\ unsaved # None /\ swift # "up" /\ ~node
    /\ unsaved' = None
    /\ missed' = TRUE
    /\ UNCHANGED <<clock, sourceVars, lines, window>>

\* Time passes, but not past the moment a change must have been stamped.
Tick ==
    /\ clock < MaxTime
    /\ unsaved # None => clock - unsaved < Lag
    /\ clock' = clock + 1
    /\ UNCHANGED <<unsaved, sourceVars, lines, window, missed>>

WatcherStep == \/ Start \/ FallBack \/ NodeError \/ SwiftLine \/ NodeEvent
               \/ SwiftEvent \/ SwiftDies \/ Unwatched \/ Tick

WatcherFairness ==
    /\ WF_watcherVars(Start) /\ WF_watcherVars(FallBack)
    /\ WF_watcherVars(SwiftLine \/ NodeEvent)
    /\ WF_watcherVars(SwiftEvent \/ Unwatched)
=============================================================================
