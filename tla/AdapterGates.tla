---------------------------- MODULE AdapterGates ----------------------------
(***************************************************************************)
(* src/adapter/concurrent.ts over src/concurrency/: every adapter call     *)
(* goes through exactly one of three gates, chosen by the transport its    *)
(* method is routed to and by whether the method mutates OmniFocus.        *)
(*                                                                         *)
(* The module composes one ReadPool and two WriteQueues.  Its actions are  *)
(* those of the gates, each leaving the other two gates alone; Shutdown    *)
(* adds the callers, the osascript children and the end of the process.    *)
(***************************************************************************)
EXTENDS Naturals, Sequences, FiniteSets

CONSTANTS Calls,     \* every adapter call of the behaviour
          Omnijs,    \* the calls whose method ROUTING_TABLE sends to OmniJS
          Mutating,  \* the calls whose method is in MUTATING_METHODS
          PoolSize,  \* OMNIFOCUS_READ_POOL_SIZE
          QueueCap   \* OMNIFOCUS_WRITE_QUEUE_CAP, shared by both queues

ASSUME GateAssumption ==
    /\ PoolSize \in Nat \ {0}
    /\ QueueCap \in Nat \ {0}
    /\ Omnijs \subseteq Calls
    /\ Mutating \subseteq Calls

VARIABLES poolInFlight, poolWaiters, poolPhase, poolOrder,   \* readPool
          jxaInFlight, jxaQueue, jxaPhase, jxaOrder,         \* jxaWriteQueue
          omniInFlight, omniQueue, omniPhase, omniOrder      \* omniJsQueue

poolVars == <<poolInFlight, poolWaiters, poolPhase, poolOrder>>
jxaVars  == <<jxaInFlight, jxaQueue, jxaPhase, jxaOrder>>
omniVars == <<omniInFlight, omniQueue, omniPhase, omniOrder>>
gateVars == <<poolVars, jxaVars, omniVars>>

PickGate(c) == IF c \in Omnijs THEN "omniJsQueue"
               ELSE IF c \in Mutating THEN "jxaWriteQueue" ELSE "readPool"

CallsOf(gate) == {c \in Calls : PickGate(c) = gate}
PoolCalls == CallsOf("readPool")
JxaCalls  == CallsOf("jxaWriteQueue")
OmniCalls == CallsOf("omniJsQueue")

Pool == INSTANCE ReadPool WITH
            Calls <- PoolCalls, Size <- PoolSize, inFlight <- poolInFlight,
            waiters <- poolWaiters, phase <- poolPhase, order <- poolOrder
Jxa  == INSTANCE WriteQueue WITH
            Calls <- JxaCalls, Cap <- QueueCap, inFlight <- jxaInFlight,
            queue <- jxaQueue, phase <- jxaPhase, order <- jxaOrder
Omni == INSTANCE WriteQueue WITH
            Calls <- OmniCalls, Cap <- QueueCap, inFlight <- omniInFlight,
            queue <- omniQueue, phase <- omniPhase, order <- omniOrder

GatesInit == Pool!Init /\ Jxa!Init /\ Omni!Init

Phase(c) == CASE PickGate(c) = "readPool"      -> poolPhase[c]
              [] PickGate(c) = "jxaWriteQueue" -> jxaPhase[c]
              [] PickGate(c) = "omniJsQueue"   -> omniPhase[c]

\* What DrainableQueue.pendingCount() of each gate answers.
Pending(gate) == CASE gate = "readPool"      -> poolInFlight + Len(poolWaiters)
                   [] gate = "jxaWriteQueue" -> jxaInFlight + Len(jxaQueue)
                   [] gate = "omniJsQueue"   -> omniInFlight + Len(omniQueue)

Gates == {"readPool", "jxaWriteQueue", "omniJsQueue"}

\* The proxied method is called: gate.run(() => bound(...args)).
Dispatch(c) ==
    \/ /\ PickGate(c) = "readPool"
       /\ Pool!Acquire(c)
       /\ UNCHANGED <<jxaVars, omniVars>>
    \/ /\ PickGate(c) = "jxaWriteQueue"
       /\ Jxa!Submit(c) \/ Jxa!Reject(c)
       /\ UNCHANGED <<poolVars, omniVars>>
    \/ /\ PickGate(c) = "omniJsQueue"
       /\ Omni!Submit(c) \/ Omni!Reject(c)
       /\ UNCHANGED <<poolVars, jxaVars>>

\* A read that owns its slot calls the adapter one microtask later.
EnterRead(c) ==
    /\ PickGate(c) = "readPool"
    /\ Pool!Enter(c)
    /\ UNCHANGED <<jxaVars, omniVars>>

\* The adapter's promise settles and the gate moves on.
Return(c) ==
    \/ /\ PickGate(c) = "readPool"
       /\ Pool!Settle(c)
       /\ UNCHANGED <<jxaVars, omniVars>>
    \/ /\ PickGate(c) = "jxaWriteQueue"
       /\ Jxa!Settle(c)
       /\ UNCHANGED <<poolVars, omniVars>>
    \/ /\ PickGate(c) = "omniJsQueue"
       /\ Omni!Settle(c)
       /\ UNCHANGED <<poolVars, jxaVars>>

GatesNext == \E c \in Calls : Dispatch(c) \/ EnterRead(c) \/ Return(c)

\* Microtasks run, and every adapter promise settles: its osascript child has
\* a timeout.
GatesFairness == \A c \in Calls : WF_gateVars(EnterRead(c)) /\ WF_gateVars(Return(c))

GatesSpec == GatesInit /\ [][GatesNext]_gateVars /\ GatesFairness

-----------------------------------------------------------------------------

GatesTypeOK == Pool!TypeOK /\ Jxa!TypeOK /\ Omni!TypeOK

\* The counters that admit calls, that internal_status shows and that the
\* shutdown drain polls are the real numbers of calls in flight: at most
\* PoolSize reads, one JXA write, one OmniJS call, and queues within their cap.
CountersTrue == Pool!SlotsAccounted /\ Jxa!Serial /\ Omni!Serial

\* No wake-up is lost: nobody is parked while a slot is free.
NoLostWakeup == Pool!WorkConserving /\ Jxa!NeverStalls /\ Omni!NeverStalls

\* QueueFull is only ever the answer while QueueCap writes of the same
\* transport are unfinished.
RefusedOnlyWhenFull == Jxa!RefusedOnlyWhenFull /\ Omni!RefusedOnlyWhenFull

\* The calls in the pool's slots are always its PoolSize oldest unfinished
\* ones: FIFO among waiters, and no barging by a caller that arrives between
\* a release and the hand-off.
ReadsAreServedOldestFirst == Pool!ImplementsGate

\* A queue always runs its oldest unfinished call.
WritesAreServedOldestFirst == Jxa!ImplementsGate /\ Omni!ImplementsGate

\* A gate has accepted the call and not answered it.
Unfinished == {"waiting", "admitted", "queued", "running"}

\* Every call a gate accepted runs and is answered: a busy server comes to
\* rest.
EveryCallReturns ==
    (\E c \in Calls : Phase(c) \in Unfinished) ~> (\A c \in Calls : Phase(c) \notin Unfinished)
=============================================================================
