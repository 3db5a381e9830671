----------------------------- MODULE WriteQueue -----------------------------
(***************************************************************************)
(* src/concurrency/WriteQueue.ts: the single-slot FIFO queue with a soft   *)
(* cap.  One instance serialises JXA writes, another every OmniJS call.    *)
(*                                                                         *)
(* run() pushes a job and pumps in the same synchronous step, so a job     *)
(* that finds the slot free is running when run() returns.  The finally    *)
(* block frees the slot and pumps again before the caller of the finished  *)
(* job sees its result.                                                    *)
(***************************************************************************)
EXTENDS Naturals, Sequences, FiniteSets

CONSTANTS Calls,  \* the invocations of run()
          Cap     \* OMNIFOCUS_WRITE_QUEUE_CAP

\* The constructor throws RangeError for anything else.
CapPositive == Cap \in Nat \ {0}

VARIABLES inFlight,  \* the slot counter, 0 or 1
          queue,     \* the jobs not started
          phase,     \* where each call is
          order      \* history: admitted, unfinished calls, oldest first

vars == <<inFlight, queue, phase, order>>

Phases == {"idle", "refused", "queued", "running", "settled"}

\* Fault: the running job is counted twice.
pendingCountTwice == 2 * inFlight + Len(queue)

pendingCount == inFlight + Len(queue)
Running == {c \in Calls : phase[c] = "running"}

\* The gate this class promises to be, seen from its callers.
Gate == INSTANCE FifoGate WITH Limit <- 1, line <- order, serving <- Running

Init ==
    /\ inFlight = 0
    /\ queue = <<>>
    /\ phase = [c \in Calls |-> "idle"]
    /\ order = <<>>

\* run() at the cap throws QueueFull synchronously; nothing is queued
Reject(c) ==
    /\ phase[c] = "idle"
    /\ pendingCount >= Cap
    /\ phase' = [phase EXCEPT ![c] = "refused"]
    /\ UNCHANGED <<inFlight, queue, order>>

\* Fault: the newest job is started first.
PumpNewest(n, jobs, ph) ==
    IF n > 0 \/ jobs = <<>>
    THEN /\ inFlight' = n
         /\ queue' = jobs
         /\ phase' = ph
    ELSE /\ inFlight' = n + 1
         /\ queue' = SubSeq(jobs, 1, Len(jobs) - 1)
         /\ phase' = [ph EXCEPT ![jobs[Len(jobs)]] = "running"]

\* Fault: the slot is not looked at.
PumpUnguarded(n, jobs, ph) ==
    IF jobs = <<>>
    THEN /\ inFlight' = n
         /\ queue' = jobs
         /\ phase' = ph
    ELSE /\ inFlight' = n + 1
         /\ queue' = Tail(jobs)
         /\ phase' = [ph EXCEPT ![Head(jobs)] = "running"]

\* pump(), given the occupancy, the jobs and the phases its caller leaves
Pump(n, jobs, ph) ==
    IF n > 0 \/ jobs = <<>>
    THEN /\ inFlight' = n
         /\ queue' = jobs
         /\ phase' = ph
    ELSE /\ inFlight' = n + 1
         /\ queue' = Tail(jobs)
         /\ phase' = [ph EXCEPT ![Head(jobs)] = "running"]

\* run() below the cap: push, then pump
Submit(c) ==
    /\ phase[c] = "idle"
    /\ ~(pendingCount >= Cap)
    /\ Pump(inFlight, Append(queue, c), [phase EXCEPT ![c] = "queued"])
    /\ order' = Append(order, c)

\* Fault: the finally block frees the slot and does not pump.
SettleWithoutPump(c) ==
    /\ phase[c] = "running"
    /\ inFlight' = inFlight - 1
    /\ phase' = [phase EXCEPT ![c] = "settled"]
    /\ \E i \in DOMAIN order : order[i] = c /\ order' = Gate!Without(order, i)
    /\ UNCHANGED queue

\* the job's promise settles, either way; finally { inFlight--; pump() }
Settle(c) ==
    /\ phase[c] = "running"
    /\ Pump(inFlight - 1, queue, [phase EXCEPT ![c] = "settled"])
    /\ \E i \in DOMAIN order : order[i] = c /\ order' = Gate!Without(order, i)

Next == \E c \in Calls : Reject(c) \/ Submit(c) \/ Settle(c)

\* Every job settles: each transport call has a timeout.
Fairness == \A c \in Calls : WF_vars(Settle(c))

Spec == Init /\ [][Next]_vars /\ Fairness

-----------------------------------------------------------------------------

TypeOK ==
    /\ inFlight \in {0, 1}
    /\ queue \in Seq(Calls)
    /\ phase \in [Calls -> Phases]
    /\ order \in Seq(Calls)

\* Two OmniFocus writes are never in progress together, the counter that
\* decides so says the truth, and the backlog stays within the soft cap.
Serial ==
    /\ inFlight = Cardinality(Running)
    /\ inFlight <= 1
    /\ pendingCount <= Cap

\* The queue never stalls: while a job waits, a job runs whose finally block
\* will start it.  A pump lost after a failing job would leave the rest
\* stranded.
NeverStalls == queue # <<>> => Running # {}

\* QueueFull is only ever the answer while Cap admitted calls are unfinished.
RefusedOnlyWhenFull ==
    [][\A c \in Calls : phase'[c] = "refused" /\ phase[c] # "refused" => Len(order) = Cap]_vars

\* Serial, FIFO, work conserving: the gate of FifoGate with one slot.
ImplementsGate == Gate!Spec

\* An admitted write is executed and answered, whatever the others do.
EveryWriteAnswered ==
    \A c \in Calls : phase[c] = "queued" ~> phase[c] = "settled"
=============================================================================
