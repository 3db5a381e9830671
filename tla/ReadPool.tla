------------------------------ MODULE ReadPool ------------------------------
(***************************************************************************)
(* src/concurrency/ReadPool.ts: the bounded pool every JXA read goes       *)
(* through.  The pool is a counter and a queue of waiter closures; a call  *)
(* that finds a free slot takes it synchronously, any other call parks a   *)
(* closure that takes the slot on its behalf when `release` runs it.       *)
(*                                                                         *)
(* JavaScript runs one callback at a time, so each action is the code      *)
(* between two awaits.  The promise of `acquire` resolves one microtask    *)
(* before `fn` is entered: a call is "admitted" (it owns a slot, fn has    *)
(* not been called) before it is "running".                                *)
(***************************************************************************)
EXTENDS Naturals, Sequences, FiniteSets

CONSTANTS Calls,  \* the invocations of run()
          Size    \* OMNIFOCUS_READ_POOL_SIZE

\* The constructor throws RangeError for anything else.
SizePositive == Size \in Nat \ {0}

VARIABLES inFlight,  \* the slot counter
          waiters,   \* the parked closures, named by their call
          phase,     \* where each call is in run()
          order      \* history: the unfinished calls in the order they came

vars == <<inFlight, waiters, phase, order>>

Phases == {"idle", "waiting", "admitted", "running", "settled"}

Owning(c) == phase[c] \in {"admitted", "running"}
Owners == {c \in Calls : Owning(c)}

\* The gate this class promises to be, seen from its callers.
Gate == INSTANCE FifoGate WITH Limit <- Size, line <- order, serving <- Owners

Init ==
    /\ inFlight = 0
    /\ waiters = <<>>
    /\ phase = [c \in Calls |-> "idle"]
    /\ order = <<>>

\* Fault: the comparison admits one call too many.
AcquireOneTooMany(c) ==
    /\ phase[c] = "idle"
    /\ inFlight <= Size
    /\ inFlight' = inFlight + 1
    /\ phase' = [phase EXCEPT ![c] = "admitted"]
    /\ order' = Append(order, c)
    /\ UNCHANGED waiters

\* acquire() when a slot is free
AcquireFree(c) ==
    /\ phase[c] = "idle"
    /\ inFlight < Size
    /\ inFlight' = inFlight + 1
    /\ phase' = [phase EXCEPT ![c] = "admitted"]
    /\ order' = Append(order, c)
    /\ UNCHANGED waiters

\* acquire() when every slot is taken: park a closure
AcquireWait(c) ==
    /\ phase[c] = "idle"
    /\ ~(inFlight < Size)
    /\ waiters' = Append(waiters, c)
    /\ phase' = [phase EXCEPT ![c] = "waiting"]
    /\ order' = Append(order, c)
    /\ UNCHANGED inFlight

Acquire(c) == AcquireFree(c) \/ AcquireWait(c)

\* the continuation of `await this.acquire()` enters fn
Enter(c) ==
    /\ phase[c] = "admitted"
    /\ phase' = [phase EXCEPT ![c] = "running"]
    /\ UNCHANGED <<inFlight, waiters, order>>

\* Fault: the slot is given back and no waiter is run.
ReleaseWithoutHandoff(settled) ==
    /\ inFlight' = inFlight - 1
    /\ phase' = settled
    /\ UNCHANGED waiters

\* Fault: pop() for shift().
ReleaseToNewest(settled) ==
    IF waiters = <<>>
    THEN /\ inFlight' = inFlight - 1
         /\ phase' = settled
         /\ UNCHANGED waiters
    ELSE /\ inFlight' = (inFlight - 1) + 1
         /\ phase' = [settled EXCEPT ![waiters[Len(waiters)]] = "admitted"]
         /\ waiters' = SubSeq(waiters, 1, Len(waiters) - 1)

\* release(): give the slot back and run the first parked closure, which
\* takes it again in the same synchronous step.
Release(settled) ==
    IF waiters = <<>>
    THEN /\ inFlight' = inFlight - 1
         /\ phase' = settled
         /\ UNCHANGED waiters
    ELSE /\ inFlight' = (inFlight - 1) + 1
         /\ phase' = [settled EXCEPT ![Head(waiters)] = "admitted"]
         /\ waiters' = Tail(waiters)

\* fn settles; the finally block releases whether it resolved or rejected
Settle(c) ==
    /\ phase[c] = "running"
    /\ Release([phase EXCEPT ![c] = "settled"])
    /\ \E i \in DOMAIN order : order[i] = c /\ order' = Gate!Without(order, i)

Next == \E c \in Calls : Acquire(c) \/ Enter(c) \/ Settle(c)

\* Microtasks run, and every fn settles: each transport call has a timeout.
Fairness == \A c \in Calls : WF_vars(Enter(c)) /\ WF_vars(Settle(c))

Spec == Init /\ [][Next]_vars /\ Fairness

-----------------------------------------------------------------------------

TypeOK ==
    /\ inFlight \in Nat
    /\ waiters \in Seq(Calls)
    /\ phase \in [Calls -> Phases]
    /\ order \in Seq(Calls)

\* The counter that internal_status and the shutdown drain read is the real
\* number of slot owners, and never exceeds the configured size.
SlotsAccounted == inFlight = Cardinality(Owners) /\ inFlight <= Size

\* Nobody waits while a slot is free: a hand-off can neither be lost between
\* the decrement and the waiter's increment nor skip a parked caller.
WorkConserving == waiters # <<>> => inFlight = Size

\* A caller that has just arrived never takes a slot ahead of one that is
\* parked, although acquire() does not look at the waiter queue.
NoBarging ==
    [][\A c \in Calls : phase[c] = "idle" /\ phase'[c] = "admitted" => waiters = <<>>]_vars

\* Bounded, FIFO and work conserving: the gate of FifoGate.
ImplementsGate == Gate!Spec

\* Every parked caller gets its slot.
EveryWaiterServed == \A c \in Calls : phase[c] = "waiting" ~> phase[c] = "running"
=============================================================================
