------------------------- MODULE PersistentTransport -------------------------
(***************************************************************************)
(* src/adapter/jxa/persistentScriptRunner.ts: one long-lived osascript     *)
(* child, the promise chain that serialises its callers, the frames on     *)
(* stdin and fd 3, the per-call timeout, and dispose().                    *)
(*                                                                         *)
(* Frames carry no call id: a response belongs to whichever call is        *)
(* current.  The processes, the pipes and the events Node delivers about   *)
(* them run on their own, so a child that was given up may still execute   *)
(* its frame, and its data, exit and error events arrive late.             *)
(***************************************************************************)
EXTENDS Naturals, Sequences, FiniteSets

CONSTANTS Calls, NoCall,
          MaxChildren   \* bound: how many processes are launched

ASSUME TransportAssumption == NoCall \notin Calls /\ MaxChildren \in Nat \ {0}

Children == 1..MaxChildren
NoChild == 0

VARIABLES fifo,      \* callers behind `chain`
          current,   \* this.current
          target,    \* the child the current call's closure holds
          child,     \* this.child
          spawns,    \* counters.spawns: children 1..spawns were launched
          process,   \* per child: "absent", "up", "unborn" (spawn failed) or "dead"
          doomed,    \* children that were sent a signal (child.killed)
          closed,    \* children whose stdin dispose() ended
          gone,      \* children whose exit or error event was delivered
          request,   \* per child: the frame on its stdin or being executed
          frames,    \* per child: the response frames unread on fd 3
          disposal,  \* how far dispose() is
          victim,    \* the child dispose() holds
          asked, ran, result,
          ranOn      \* history: the child each call was written to

nodeVars == <<fifo, current, target, child, spawns>>
osVars   == <<process, doomed, closed, gone, request, frames>>
endVars  == <<disposal, victim>>
userVars == <<asked, ran, result, ranOn>>
vars == <<nodeVars, osVars, endVars, userVars>>

Init ==
    /\ fifo = <<>> /\ current = NoCall /\ target = NoChild
    /\ child = NoChild /\ spawns = 0
    /\ process = [k \in Children |-> "absent"]
    /\ doomed = {} /\ closed = {} /\ gone = {}
    /\ request = [k \in Children |-> NoCall]
    /\ frames = [k \in Children |-> <<>>]
    /\ disposal = "none" /\ victim = NoChild
    /\ asked = {}
    /\ ran = [c \in Calls |-> 0]
    /\ result = [c \in Calls |-> "none"]
    /\ ranOn = [c \in Calls |-> NoChild]

-----------------------------------------------------------------------------
\* The transport's own code

\* settle() of the current call
Settle(kind) ==
    /\ result' = [result EXCEPT ![current] = kind]
    /\ current' = NoCall

\* settle(), where the handler first asks whether a call is pending
SettleIfPending(kind) ==
    IF current = NoCall THEN UNCHANGED <<current, result>> ELSE Settle(kind)

\* enqueue()
Ask(c) ==
    /\ c \notin asked
    /\ asked' = asked \cup {c}
    /\ fifo' = Append(fifo, c)
    /\ UNCHANGED <<current, target, child, spawns, osVars, endVars, ran, result, ranOn>>

\* ensureChild(): the child at hand is neither known dead nor killed
Reusable == child # NoChild /\ child \notin gone /\ child \notin doomed

\* runOne(): the head of the chain starts on child k, just launched or not.
\* If k's stdin is no longer writable the call is told to retry.
RunOn(k) ==
    /\ fifo' = Tail(fifo)
    /\ target' = k
    /\ child' = k
    /\ ranOn' = [ranOn EXCEPT ![Head(fifo)] = k]
    /\ IF k \in closed
       THEN /\ result' = [result EXCEPT ![Head(fifo)] = "restarted"]
            /\ UNCHANGED <<current, request>>
       ELSE /\ current' = Head(fifo)
            /\ request' = [request EXCEPT ![k] = Head(fifo)]
            /\ UNCHANGED result
    /\ UNCHANGED <<doomed, closed, gone, frames, endVars, asked, ran>>

\* A failed spawn is reported on the next tick, before timers and other events.
NoErrorPending == \A k \in Children : process[k] = "unborn" => k \in gone

Idle == current = NoCall /\ fifo # <<>>

RunOnChild == Idle /\ Reusable /\ RunOn(child) /\ UNCHANGED <<spawns, process>>

\* spawnChild(); the process starts, or its failure is reported later
RunOnFreshChild ==
    /\ Idle /\ ~Reusable
    /\ spawns < MaxChildren
    /\ spawns' = spawns + 1
    /\ \E fate \in {"up", "unborn"} : process' = [process EXCEPT ![spawns + 1] = fate]
    /\ RunOn(spawns + 1)

\* spawn() throws: the call fails, this.child is left as it was
LaunchThrows ==
    /\ Idle /\ ~Reusable
    /\ fifo' = Tail(fifo)
    /\ result' = [result EXCEPT ![Head(fifo)] = "unavailable"]
    /\ UNCHANGED <<current, target, child, spawns, osVars, endVars, asked, ran, ranOn>>

RunOne == RunOnChild \/ RunOnFreshChild \/ LaunchThrows

\* Fault: the timer gives up when the child was replaced in the meantime.
TimeoutOfKnownChild ==
    /\ current # NoCall
    /\ target = child
    /\ doomed' = doomed \cup {target}
    /\ Settle("timeout")
    /\ UNCHANGED <<fifo, target, child, spawns, process, closed, gone, request, frames,
                   endVars, asked, ran, ranOn>>

\* Fault: the wedged child is not killed.
TimeoutWithoutKill ==
    /\ current # NoCall
    /\ Settle("timeout")
    /\ UNCHANGED <<fifo, target, child, spawns, osVars, endVars, asked, ran, ranOn>>

\* The timer of the current call: killChild, settle
Timeout ==
    /\ current # NoCall
    /\ doomed' = doomed \cup {target}
    /\ Settle("timeout")
    /\ UNCHANGED <<fifo, target, child, spawns, process, closed, gone, request, frames,
                   endVars, asked, ran, ranOn>>

-----------------------------------------------------------------------------
\* Events

\* Fault: a frame is taken for the current call whoever wrote it.
OnFd3DataOfAnyChild(k) ==
    /\ frames[k] # <<>>
    /\ frames' = [frames EXCEPT ![k] = Tail(@)]
    /\ SettleIfPending(Head(frames[k]).kind)
    /\ UNCHANGED <<fifo, target, child, spawns, process, doomed, closed, gone, request,
                   endVars, asked, ran, ranOn>>

\* onFd3Data and onResponse: a frame of a replaced child, or one nobody waits
\* for, is dropped
OnFd3Data(k) ==
    /\ frames[k] # <<>>
    /\ frames' = [frames EXCEPT ![k] = Tail(@)]
    /\ IF k = child THEN SettleIfPending(Head(frames[k]).kind)
                    ELSE UNCHANGED <<current, result>>
    /\ UNCHANGED <<fifo, target, child, spawns, process, doomed, closed, gone, request,
                   endVars, asked, ran, ranOn>>

\* this.child is given up and the pending call, if any, fails
Abandon(kind) == child' = NoChild /\ SettleIfPending(kind)

KeepChild == UNCHANGED <<child, current, result>>

\* Fault: every exit fails the pending call.
OnChildExitOfAnyChild(k) ==
    /\ process[k] = "dead" /\ k \notin gone
    /\ gone' = gone \cup {k}
    /\ Abandon("restarted")
    /\ UNCHANGED <<fifo, target, spawns, process, doomed, closed, request, frames,
                   endVars, asked, ran, ranOn>>

OnChildExit(k) ==
    /\ process[k] = "dead" /\ k \notin gone
    /\ gone' = gone \cup {k}
    /\ IF k = child THEN Abandon("restarted") ELSE KeepChild
    /\ UNCHANGED <<fifo, target, spawns, process, doomed, closed, request, frames,
                   endVars, asked, ran, ranOn>>

OnChildError(k) ==
    /\ process[k] = "unborn" /\ k \notin gone
    /\ gone' = gone \cup {k}
    /\ IF k = child THEN Abandon("unavailable") ELSE KeepChild
    /\ UNCHANGED <<fifo, target, spawns, process, doomed, closed, request, frames,
                   endVars, asked, ran, ranOn>>

\* Fault: a write error of any child fails the pending call.
OnStdinErrorOfAnyChild(k) ==
    /\ process[k] = "dead" /\ request[k] # NoCall
    /\ request' = [request EXCEPT ![k] = NoCall]
    /\ Abandon("restarted")
    /\ doomed' = doomed \cup {k}
    /\ UNCHANGED <<fifo, target, spawns, process, closed, gone, frames,
                   endVars, asked, ran, ranOn>>

\* EPIPE: the child died with the frame still on its stdin
OnStdinError(k) ==
    /\ process[k] = "dead" /\ request[k] # NoCall
    /\ request' = [request EXCEPT ![k] = NoCall]
    /\ IF k = child THEN Abandon("restarted") /\ doomed' = doomed \cup {k}
                    ELSE KeepChild /\ UNCHANGED doomed
    /\ UNCHANGED <<fifo, target, spawns, process, closed, gone, frames,
                   endVars, asked, ran, ranOn>>

-----------------------------------------------------------------------------
\* The osascript processes (external)

\* The script runs and its response frame is written
Execute(k) ==
    /\ process[k] = "up" /\ request[k] # NoCall
    /\ ran' = [ran EXCEPT ![request[k]] = @ + 1]
    /\ \E kind \in {"ok", "error"} :
          frames' = [frames EXCEPT ![k] = Append(@, [call |-> request[k], kind |-> kind])]
    /\ request' = [request EXCEPT ![k] = NoCall]
    /\ UNCHANGED <<nodeVars, process, doomed, closed, gone, endVars, asked, result, ranOn>>

\* A crash, possibly after the script took effect; a signal; end of stdin
Die(k) ==
    /\ process[k] = "up"
    /\ process' = [process EXCEPT ![k] = "dead"]
    /\ \/ UNCHANGED <<ran, request>>
       \/ /\ request[k] # NoCall
          /\ ran' = [ran EXCEPT ![request[k]] = @ + 1]
          /\ request' = [request EXCEPT ![k] = NoCall]
    /\ UNCHANGED <<nodeVars, doomed, closed, gone, frames, endVars, asked, result, ranOn>>

-----------------------------------------------------------------------------
\* dispose(), a shutdown hook; handlers may still call the spawner

DisposeEOF ==
    /\ disposal = "none"
    /\ IF child = NoChild
       THEN disposal' = "done" /\ UNCHANGED <<victim, closed>>
       ELSE disposal' = "eof" /\ victim' = child /\ closed' = closed \cup {child}
    /\ UNCHANGED <<nodeVars, process, doomed, gone, request, frames, userVars>>

\* Grace over: SIGTERM
DisposeTerm ==
    /\ disposal = "eof"
    /\ victim \notin gone
    /\ disposal' = "term"
    /\ doomed' = doomed \cup {victim}
    /\ UNCHANGED <<nodeVars, process, closed, gone, request, frames, victim, userVars>>

\* The victim has exited, or its second grace is over and it gets SIGKILL
DisposeEnd ==
    /\ disposal = "term" \/ (disposal = "eof" /\ victim \in gone)
    /\ disposal' = "done"
    /\ child' = NoChild
    /\ doomed' = IF victim \in gone THEN doomed ELSE doomed \cup {victim}
    /\ UNCHANGED <<fifo, current, target, spawns, process, closed, gone, request, frames,
                   victim, userVars>>

-----------------------------------------------------------------------------

TimerFires == NoErrorPending /\ Timeout

Event(k) == NoErrorPending /\ (OnFd3Data(k) \/ OnChildExit(k) \/ OnStdinError(k))

Next ==
    \/ \E c \in Calls : Ask(c)
    \/ RunOne \/ TimerFires
    \/ \E k \in Children : OnChildError(k) \/ Event(k)
    \/ \E k \in Children : Execute(k) \/ Die(k)
    \/ DisposeEOF \/ DisposeTerm \/ DisposeEnd

\* The event loop runs what is ready, and timers fire.  No fairness of the
\* processes: OmniFocus may hang in a modal for ever.
Fairness ==
    /\ WF_vars(RunOne) /\ WF_vars(TimerFires)
    /\ WF_vars(\E k \in Children : OnChildError(k))

Spec == Init /\ [][Next]_vars /\ Fairness

-----------------------------------------------------------------------------

\* What reading unnumbered frames in order rests on: a child has at most one
\* call between the write to its stdin and the read of its response, however
\* calls time out and children are replaced.
OneInFlight ==
    \A k \in Children : Len(frames[k]) + (IF request[k] = NoCall THEN 0 ELSE 1) <= 1

\* The transport keeps the promise of the seam: one result per call, from its
\* own run of the script, which is run at most once.
Seam == INSTANCE Spawner
ImplementsSpawner == Seam!Spec

\* A call is told to retry only because the child it was written to died or
\* had its stdin ended, never because of an event of an earlier child.
RestartsAreReal ==
    \A c \in Calls : result[c] = "restarted" =>
        ranOn[c] \in closed \/ process[ranOn[c]] = "dead"

\* Outside dispose() no process is lost sight of: whatever lives and was not
\* sent a signal is this.child, so the next call reuses it.
NoStray ==
    disposal = "none" =>
        \A k \in Children : process[k] = "up" => k = child \/ k \in doomed

\* The FIFO is never poisoned: whatever the children and dispose() do, every
\* caller gets a result.
EveryCallSettles == \A c \in Calls : c \in asked ~> result[c] # "none"
=============================================================================
