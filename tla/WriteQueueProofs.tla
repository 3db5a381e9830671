-------------------------- MODULE WriteQueueProofs --------------------------
(***************************************************************************)
(* Proofs about WriteQueue, for any set of calls and any positive cap.     *)
(*                                                                         *)
(* As for the pool, the inductive invariant reads the queue off the        *)
(* history variable `order`: its first element is the running job, the     *)
(* others are the queued jobs in the order pump() will start them.         *)
(***************************************************************************)
EXTENDS WriteQueue, FiniteSetTheorems, TLAPS

SafetySpec == Init /\ [][Next]_vars

Shape ==
    /\ inFlight \in {0, 1}
    /\ queue \in Seq(Calls)
    /\ order \in Seq(Calls)
    /\ phase \in [Calls -> Phases]
    /\ Len(order) = inFlight + Len(queue)
    /\ Len(order) <= Cap

NoDuplicates == \A i, j \in 1..Len(order) : order[i] = order[j] => i = j

RunningFirst == inFlight = 1 => phase[order[1]] = "running"

QueuedNext ==
    \A i \in 1..Len(queue) :
        queue[i] = order[inFlight + i] /\ phase[order[inFlight + i]] = "queued"

AllListed ==
    \A c \in Calls : phase[c] \in {"queued", "running"}
                        => \E i \in 1..Len(order) : order[i] = c

\* pump() has run: nothing is queued before a free slot.
Pumped == queue # <<>> => inFlight = 1

IInv ==
    /\ Shape
    /\ NoDuplicates
    /\ RunningFirst
    /\ QueuedNext
    /\ AllListed
    /\ Pumped

-----------------------------------------------------------------------------

\* Appending adds a last element and leaves the others.
LEMMA AppendFacts ==
    ASSUME NEW S, NEW s \in Seq(S), NEW e \in S
    PROVE  /\ Append(s, e) \in Seq(S)
           /\ Len(Append(s, e)) = Len(s) + 1
           /\ Append(s, e)[Len(s) + 1] = e
           /\ \A i \in 1..Len(s) : Append(s, e)[i] = s[i]
OBVIOUS

\* A call of the line is running or queued; the running one is the first.
LEMMA LinePhases ==
    ASSUME IInv, NEW i \in 1..Len(order)
    PROVE  /\ order[i] \in Calls
           /\ phase[order[i]] \in {"queued", "running"}
           /\ phase[order[i]] = "running" <=> inFlight = 1 /\ i = 1
<1>1. order[i] \in Calls
  BY DEF IInv, Shape
<1>2. CASE i <= inFlight
  <2>1. i = 1 /\ inFlight = 1
    BY <1>2 DEF IInv, Shape
  <2> QED BY <1>1, <2>1 DEF IInv, RunningFirst
<1>3. CASE i > inFlight
  <2>1. i - inFlight \in 1..Len(queue) /\ inFlight + (i - inFlight) = i
    BY <1>3 DEF IInv, Shape
  <2>2. phase[order[i]] = "queued" /\ ~(inFlight = 1 /\ i = 1)
    BY <1>3, <2>1 DEF IInv, QueuedNext
  <2> QED BY <1>1, <2>2
<1> QED BY <1>2, <1>3 DEF IInv, Shape

LEMMA InitIInv == CapPositive /\ Init => IInv
BY DEF CapPositive, Init, IInv, Shape, NoDuplicates, RunningFirst, QueuedNext, AllListed,
       Pumped, Phases

\* QueueFull leaves the queue alone.
LEMMA RejectIInv ==
    ASSUME CapPositive, IInv, NEW c \in Calls, Reject(c)
    PROVE  IInv'
<1>1. \A i \in 1..Len(order) : order[i] # c
  BY LinePhases DEF Reject
<1>2. \A d \in Calls : phase'[d] = IF d = c THEN "refused" ELSE phase[d]
  BY DEF Reject, IInv, Shape
<1>3. UNCHANGED <<inFlight, queue, order>>
  BY DEF Reject
<1>4. Shape'
  BY <1>3 DEF Reject, IInv, Shape, Phases
<1>5. NoDuplicates' /\ Pumped'
  BY <1>3 DEF IInv, NoDuplicates, Pumped
<1>6. RunningFirst'
  BY <1>1, <1>2, <1>3, LinePhases DEF IInv, Shape, RunningFirst
<1>7. QueuedNext'
  <2>1. \A i \in 1..Len(queue) : inFlight + i \in 1..Len(order)
    BY DEF IInv, Shape
  <2> QED BY <1>1, <1>2, <1>3, <2>1, LinePhases DEF IInv, QueuedNext
<1>8. AllListed'
  BY <1>2, <1>3 DEF IInv, AllListed
<1> QED BY <1>4, <1>5, <1>6, <1>7, <1>8 DEF IInv

\* A job that finds the slot free is running when run() returns.
LEMMA SubmitFreeIInv ==
    ASSUME CapPositive, IInv, NEW c \in Calls, Submit(c), inFlight = 0
    PROVE  IInv'
<1>1. queue = <<>> /\ order = <<>>
  BY DEF IInv, Shape, Pumped
<1>2. /\ inFlight' = 1
      /\ queue' = <<>>
      /\ order' = <<c>>
      /\ phase' = [[phase EXCEPT ![c] = "queued"] EXCEPT ![c] = "running"]
  BY <1>1 DEF Submit, Pump
<1>3. \A d \in Calls : phase[d] \notin {"queued", "running"}
  BY <1>1 DEF IInv, AllListed
<1>4. Shape'
  BY <1>2 DEF IInv, Shape, CapPositive, Phases
<1>5. NoDuplicates' /\ Pumped' /\ QueuedNext'
  BY <1>2 DEF NoDuplicates, Pumped, QueuedNext
<1>6. RunningFirst'
  BY <1>2 DEF IInv, Shape, RunningFirst
<1>7. AllListed'
  BY <1>2, <1>3 DEF IInv, Shape, AllListed
<1> QED BY <1>4, <1>5, <1>6, <1>7 DEF IInv

\* A job that finds the slot taken goes last.
LEMMA SubmitBusyIInv ==
    ASSUME CapPositive, IInv, NEW c \in Calls, Submit(c), inFlight = 1
    PROVE  IInv'
<1>1. /\ phase[c] = "idle"
      /\ ~(inFlight + Len(queue) >= Cap)
      /\ inFlight' = inFlight
      /\ queue' = Append(queue, c)
      /\ order' = Append(order, c)
      /\ phase' = [phase EXCEPT ![c] = "queued"]
  BY DEF Submit, Pump, pendingCount
<1>2. order \in Seq(Calls) /\ queue \in Seq(Calls) /\ Len(order) = 1 + Len(queue)
  BY DEF IInv, Shape
<1>3. /\ order' \in Seq(Calls)
      /\ Len(order') = Len(order) + 1
      /\ order'[Len(order) + 1] = c
      /\ \A i \in 1..Len(order) : order'[i] = order[i]
  BY <1>1, <1>2, AppendFacts
<1>4. /\ queue' \in Seq(Calls)
      /\ Len(queue') = Len(queue) + 1
      /\ queue'[Len(queue) + 1] = c
      /\ \A i \in 1..Len(queue) : queue'[i] = queue[i]
  BY <1>1, <1>2, AppendFacts
<1>5. \A i \in 1..Len(order) : order[i] \in Calls /\ order[i] # c
  BY <1>1, LinePhases
<1>6. Shape'
  BY <1>1, <1>2, <1>3, <1>4 DEF IInv, Shape, Phases, CapPositive
<1>7. NoDuplicates'
  BY <1>2, <1>3, <1>5 DEF IInv, NoDuplicates
<1>8. RunningFirst' /\ Pumped'
  BY <1>1, <1>2, <1>3, <1>5 DEF IInv, Shape, RunningFirst, Pumped
<1>9. QueuedNext'
  <2>1. SUFFICES ASSUME NEW i \in 1..Len(queue')
                 PROVE  queue'[i] = order'[inFlight + i] /\ phase'[order'[inFlight + i]] = "queued"
    BY <1>1 DEF QueuedNext
  <2>2. CASE i = Len(queue) + 1
    BY <1>1, <1>2, <1>3, <1>4, <2>2 DEF IInv, Shape
  <2>3. CASE i # Len(queue) + 1
    <3>1. i \in 1..Len(queue) /\ inFlight + i \in 1..Len(order)
      BY <1>2, <1>4, <2>1, <2>3
    <3>2. queue[i] = order[inFlight + i] /\ phase[order[inFlight + i]] = "queued"
      BY <3>1 DEF IInv, QueuedNext
    <3>3. phase'[order[inFlight + i]] = phase[order[inFlight + i]]
      BY <1>1, <1>5, <3>1 DEF IInv, Shape
    <3> QED BY <1>3, <1>4, <3>1, <3>2, <3>3
  <2> QED BY <2>2, <2>3
<1>10. AllListed'
  <2>1. SUFFICES ASSUME NEW d \in Calls, phase'[d] \in {"queued", "running"}
                 PROVE  \E i \in 1..Len(order') : order'[i] = d
    BY DEF AllListed
  <2>2. CASE d = c
    BY <1>2, <1>3, <2>2
  <2>3. CASE d # c
    <3>1. PICK i \in 1..Len(order) : order[i] = d
      BY <1>1, <2>1, <2>3 DEF IInv, Shape, AllListed
    <3>2. i \in 1..Len(order') /\ order'[i] = d
      BY <1>2, <1>3, <3>1
    <3> QED BY <3>2
  <2> QED BY <2>2, <2>3
<1> QED BY <1>6, <1>7, <1>8, <1>9, <1>10 DEF IInv

\* The running job is the first of the line; when it settles the others move
\* up and pump() starts the next one in the same step.
LEMMA SettleIInv ==
    ASSUME CapPositive, IInv, NEW c \in Calls, Settle(c)
    PROVE  IInv'
<1>1. PICK k \in DOMAIN order : order[k] = c /\ order' = Gate!Without(order, k)
  BY DEF Settle
<1>2. phase[c] = "running" /\ k \in 1..Len(order)
  BY <1>1 DEF Settle, IInv, Shape
<1>3. inFlight = 1 /\ k = 1
  BY <1>1, <1>2, LinePhases
<1>4. /\ queue \in Seq(Calls) /\ order \in Seq(Calls)
      /\ Len(order) = 1 + Len(queue)
      /\ Len(order) <= Cap
      /\ \A i \in 1..Len(queue) : queue[i] = order[1 + i] /\ phase[order[1 + i]] = "queued"
  BY <1>3 DEF IInv, Shape, QueuedNext
<1>5. \A i \in 2..Len(order) : order[i] \in Calls /\ order[i] # c /\ phase[order[i]] = "queued"
  BY <1>1, <1>2, <1>3, LinePhases DEF IInv, NoDuplicates
<1>6. /\ order' \in Seq(Calls)
      /\ Len(order') = Len(queue)
      /\ \A j \in 1..Len(queue) : order'[j] = order[j + 1]
  <2>1. order' = [j \in 1..Len(queue) |-> order[j + 1]]
    BY <1>1, <1>3, <1>4 DEF Gate!Without
  <2>2. \A j \in 1..Len(queue) : order[j + 1] \in Calls
    BY <1>4
  <2>3. Len(queue) \in Nat
    BY <1>4
  <2> QED BY <2>1, <2>2, <2>3
<1>7. NoDuplicates'
  <2>1. SUFFICES ASSUME NEW i \in 1..Len(order'), NEW j \in 1..Len(order'),
                        order'[i] = order'[j]
                 PROVE  i = j
    BY DEF NoDuplicates
  <2>2. i + 1 \in 1..Len(order) /\ j + 1 \in 1..Len(order) /\ order[i + 1] = order[j + 1]
    BY <1>4, <1>6, <2>1
  <2>3. i + 1 = j + 1
    BY <2>2 DEF IInv, NoDuplicates
  <2> QED BY <1>4, <1>6, <2>3
<1>8. CASE queue = <<>>
  <2>1. inFlight' = 0 /\ queue' = queue /\ phase' = [phase EXCEPT ![c] = "settled"]
    BY <1>3, <1>8 DEF Settle, Pump
  <2>2. Len(queue) = 0 /\ Len(order) = 1
    BY <1>4, <1>8
  <2>3. Shape'
    BY <1>4, <1>6, <2>1, <2>2 DEF IInv, Shape, Phases, CapPositive
  <2>4. RunningFirst' /\ QueuedNext' /\ Pumped'
    BY <1>8, <2>1, <2>2 DEF RunningFirst, QueuedNext, Pumped
  <2>5. \A d \in Calls : phase[d] \in {"queued", "running"} => d = c
    <3>1. \A i \in 1..Len(order) : i = 1
      BY <2>2
    <3> QED BY <1>1, <1>3, <3>1 DEF IInv, AllListed
  <2>6. AllListed'
    BY <2>1, <2>5 DEF IInv, Shape, AllListed
  <2> QED BY <1>7, <2>3, <2>4, <2>6 DEF IInv
<1>9. CASE queue # <<>>
  <2> DEFINE h == Head(queue)
  <2>1. /\ inFlight' = 1
        /\ queue' = Tail(queue)
        /\ phase' = [[phase EXCEPT ![c] = "settled"] EXCEPT ![h] = "running"]
    BY <1>3, <1>9 DEF Settle, Pump
  <2>2. /\ Len(queue) >= 1
        /\ h = queue[1] /\ h \in Calls
        /\ Tail(queue) \in Seq(Calls)
        /\ Len(Tail(queue)) = Len(queue) - 1
        /\ \A i \in 1..(Len(queue) - 1) : Tail(queue)[i] = queue[i + 1]
    BY <1>4, <1>9
  <2>3. h = order[2] /\ 2 \in 2..Len(order) /\ h # c
    BY <1>4, <1>5, <2>2
  <2>4. /\ phase' \in [Calls -> Phases]
        /\ \A d \in Calls : phase'[d] = IF d = h THEN "running"
                                      ELSE IF d = c THEN "settled" ELSE phase[d]
    BY <2>1, <2>2, <2>3 DEF IInv, Shape, Phases
  <2>5. Shape'
    <3>1. Len(order') = 1 + Len(Tail(queue)) /\ Len(order') <= Cap
      BY <1>4, <1>6, <2>2 DEF CapPositive
    <3> QED BY <1>6, <2>1, <2>2, <2>4, <3>1 DEF Shape
  <2>6. RunningFirst' /\ Pumped'
    BY <1>4, <1>6, <2>1, <2>2, <2>3, <2>4 DEF RunningFirst, Pumped
  <2>7. QueuedNext'
    <3>1. SUFFICES ASSUME NEW i \in 1..(Len(queue) - 1)
                   PROVE  queue'[i] = order'[1 + i] /\ phase'[order'[1 + i]] = "queued"
      BY <2>1, <2>2 DEF QueuedNext
    <3>2. i + 1 \in 1..Len(queue) /\ (1 + i) + 1 \in 2..Len(order) /\ (1 + i) + 1 # 2
          /\ 1 + (i + 1) = (1 + i) + 1 /\ 1 + i = i + 1
      BY <1>4, <2>2
    <3>3. order'[1 + i] = order[(1 + i) + 1] /\ queue'[i] = queue[i + 1]
      BY <1>6, <2>1, <2>2, <3>2
    <3>4. queue[i + 1] = order[(1 + i) + 1]
      BY <1>4, <3>2
    <3>5. order[(1 + i) + 1] # h
      BY <1>4, <2>3, <3>2 DEF IInv, NoDuplicates
    <3> QED BY <1>5, <2>4, <3>2, <3>3, <3>4, <3>5
  <2>8. AllListed'
    <3>1. SUFFICES ASSUME NEW d \in Calls, phase'[d] \in {"queued", "running"}
                   PROVE  \E i \in 1..Len(order') : order'[i] = d
      BY DEF AllListed
    <3>2. PICK j \in 2..Len(order) : order[j] = d
      <4>1. CASE d = h
        BY <2>3, <4>1
      <4>2. CASE d # h
        <5>1. phase[d] \in {"queued", "running"} /\ d # c
          BY <2>4, <3>1, <4>2
        <5>2. PICK j \in 1..Len(order) : order[j] = d
          BY <5>1 DEF IInv, AllListed
        <5> QED BY <1>1, <1>3, <1>4, <5>1, <5>2
      <4> QED BY <4>1, <4>2
    <3>3. j - 1 \in 1..Len(order') /\ (j - 1) + 1 = j
      BY <1>4, <1>6, <3>2
    <3> QED BY <1>6, <3>2, <3>3
  <2> QED BY <1>7, <2>5, <2>6, <2>7, <2>8 DEF IInv
<1> QED BY <1>8, <1>9

\* Every step of the queue keeps the invariant.
LEMMA NextIInv == CapPositive /\ IInv /\ [Next]_vars => IInv'
<1> SUFFICES ASSUME CapPositive, IInv, [Next]_vars PROVE IInv'
  OBVIOUS
<1>1. CASE UNCHANGED vars
  BY <1>1 DEF vars, IInv, Shape, NoDuplicates, RunningFirst, QueuedNext, AllListed, Pumped
<1>2. ASSUME NEW c \in Calls, Reject(c) PROVE IInv'
  BY <1>2, RejectIInv
<1>3. ASSUME NEW c \in Calls, Submit(c) PROVE IInv'
  BY <1>3, SubmitFreeIInv, SubmitBusyIInv DEF IInv, Shape
<1>4. ASSUME NEW c \in Calls, Settle(c) PROVE IInv'
  BY <1>4, SettleIInv
<1> QED BY <1>1, <1>2, <1>3, <1>4 DEF Next

\* The queue keeps its shape through every interleaving of calls.
THEOREM Safety ==
    ASSUME CapPositive
    PROVE  SafetySpec => []IInv
<1>1. Init => IInv
  BY InitIInv
<1>2. IInv /\ [Next]_vars => IInv'
  BY NextIInv
<1> QED BY <1>1, <1>2, PTL DEF SafetySpec

\* The queue's variables keep their types: in particular the slot counter is
\* never anything but 0 or 1.
THEOREM QueueTypeAlwaysOK ==
    ASSUME CapPositive
    PROVE  SafetySpec => []TypeOK
<1>1. IInv => TypeOK
  BY DEF IInv, Shape, TypeOK
<1> QED BY <1>1, Safety, PTL

\* A job that run() took in is answered, and its answer is final.
LEMMA AcceptedStays ==
    ASSUME IInv, [Next]_vars, NEW c \in Calls, phase[c] \in {"queued", "running", "settled"}
    PROVE  /\ phase'[c] \in {"queued", "running", "settled"}
           /\ phase[c] = "settled" => phase'[c] = "settled"
<1>1. phase \in [Calls -> Phases]
  BY DEF IInv, Shape
<1>2. CASE UNCHANGED vars
  BY <1>2 DEF vars
<1>3. ASSUME NEW d \in Calls, Reject(d)
      PROVE  phase'[c] = phase[c]
  BY <1>1, <1>3 DEF Reject
<1>4. ASSUME NEW d \in Calls, Submit(d)
      PROVE  /\ phase'[c] \in {"queued", "running", "settled"}
             /\ phase[c] = "settled" => phase'[c] = "settled"
  <2> DEFINE jobs == Append(queue, d)
             queued == [phase EXCEPT ![d] = "queued"]
  <2>1. phase[d] = "idle" /\ Pump(inFlight, jobs, queued)
    BY <1>4 DEF Submit
  <2>2. queued \in [Calls -> Phases] /\ \A e \in Calls : queued[e] = IF e = d THEN "queued" ELSE phase[e]
    BY <1>1 DEF Phases
  <2>3. CASE phase' = queued
    BY <2>1, <2>2, <2>3
  <2>4. CASE inFlight = 0 /\ phase' = [queued EXCEPT ![Head(jobs)] = "running"]
    <3>1. queue \in Seq(Calls) /\ (queue # <<>> => Head(queue) = queue[1] /\ 1 \in 1..Len(queue))
      BY DEF IInv, Shape
    <3>2. queue = <<>>
      BY <2>4 DEF IInv, Pumped
    <3>3. Head(jobs) = d
      BY <3>2
    <3> HIDE DEF jobs, queued
    <3>4. \A e \in Calls : phase'[e] = IF e = d THEN "running" ELSE queued[e]
      BY <2>2, <2>4, <3>3
    <3> QED BY <2>1, <2>2, <3>4
  <2> QED BY <2>1, <2>3, <2>4 DEF Pump, IInv, Shape
<1>5. ASSUME NEW d \in Calls, Settle(d)
      PROVE  /\ phase'[c] \in {"queued", "running", "settled"}
             /\ phase[c] = "settled" => phase'[c] = "settled"
  <2> DEFINE settled == [phase EXCEPT ![d] = "settled"]
  <2>1. Pump(inFlight - 1, queue, settled)
    BY <1>5 DEF Settle
  <2>2. settled \in [Calls -> Phases] /\ \A e \in Calls : settled[e] = IF e = d THEN "settled" ELSE phase[e]
    BY <1>1 DEF Phases
  <2>3. CASE phase' = settled
    BY <2>2, <2>3
  <2>4. CASE queue # <<>> /\ phase' = [settled EXCEPT ![Head(queue)] = "running"]
    <3>1. Head(queue) = queue[1] /\ 1 \in 1..Len(queue) /\ queue[1] \in Calls
      BY <2>4 DEF IInv, Shape
    <3>2. phase[Head(queue)] = "queued"
      BY <3>1 DEF IInv, QueuedNext
    <3> HIDE DEF settled
    <3>3. \A e \in Calls : phase'[e] = IF e = Head(queue) THEN "running" ELSE settled[e]
      BY <2>2, <2>4, <3>1
    <3> QED BY <2>2, <3>2, <3>3
  <2> QED BY <2>1, <2>3, <2>4 DEF Pump
<1> QED BY <1>2, <1>3, <1>4, <1>5 DEF Next

\* When the counter and the queue say so, no job is left.
LEMMA NobodyLeft ==
    ASSUME CapPositive, IInv, inFlight + Len(queue) = 0, NEW c \in Calls
    PROVE  phase[c] \notin {"queued", "running"}
<1>1. Len(order) = 0
  BY DEF IInv, Shape
<1>2. ~\E i \in 1..Len(order) : order[i] = c
  BY <1>1
<1> QED BY <1>2 DEF IInv, AllListed

-----------------------------------------------------------------------------

\* The running job is the oldest of the line.
LEMMA RunningIsFirst ==
    CapPositive /\ IInv => Running = IF inFlight = 1 THEN {order[1]} ELSE {}
<1> SUFFICES ASSUME CapPositive, IInv
             PROVE  Running = IF inFlight = 1 THEN {order[1]} ELSE {}
  OBVIOUS
<1>1. ASSUME NEW c \in Calls, phase[c] = "running" PROVE inFlight = 1 /\ c = order[1]
  <2>1. PICK i \in 1..Len(order) : order[i] = c
    BY <1>1 DEF IInv, AllListed
  <2> QED BY <1>1, <2>1, LinePhases
<1>2. inFlight = 1 => order[1] \in Calls /\ phase[order[1]] = "running"
  BY LinePhases DEF IInv, Shape
<1> QED BY <1>1, <1>2 DEF Running

\* One write at a time, an exact counter and a bounded backlog.
LEMMA IInvSerial == CapPositive /\ IInv => Serial
<1> SUFFICES ASSUME CapPositive, IInv PROVE Serial
  OBVIOUS
<1>1. inFlight = Cardinality(Running)
  BY RunningIsFirst, FS_EmptySet, FS_Singleton DEF IInv, Shape
<1> QED BY <1>1 DEF Serial, pendingCount, IInv, Shape

THEOREM AlwaysSerial ==
    ASSUME CapPositive
    PROVE  SafetySpec => []Serial
BY IInvSerial, Safety, PTL

\* A queued job always has a running one before it, whose end starts it.
LEMMA IInvNeverStalls == CapPositive /\ IInv => NeverStalls
BY RunningIsFirst DEF NeverStalls, IInv, Pumped

THEOREM NeverStallsAlways ==
    ASSUME CapPositive
    PROVE  SafetySpec => []NeverStalls
BY IInvNeverStalls, Safety, PTL

-----------------------------------------------------------------------------

\* The running job is what a gate of one slot serves.
LEMMA RunningIsOldest == CapPositive /\ IInv => Running = Gate!Oldest(order)
<1> SUFFICES ASSUME CapPositive, IInv PROVE Running = Gate!Oldest(order)
  OBVIOUS
<1>1. DOMAIN order = 1..Len(order) /\ Len(order) = inFlight + Len(queue)
  BY DEF IInv, Shape
<1>2. CASE inFlight = 1
  <2>1. {j \in DOMAIN order : j <= 1} = {1}
    BY <1>1, <1>2 DEF IInv, Shape
  <2> QED BY <1>2, <2>1, RunningIsFirst DEF Gate!Oldest
<1>3. CASE inFlight = 0
  <2>1. {j \in DOMAIN order : j <= 1} = {}
    BY <1>1, <1>3 DEF IInv, Shape, Pumped
  <2> QED BY <1>3, <2>1, RunningIsFirst DEF Gate!Oldest
<1> QED BY <1>2, <1>3 DEF IInv, Shape

\* A step of the queue is a step of the abstract gate or invisible to it.
LEMMA StepImplementsGate ==
    CapPositive /\ IInv /\ [Next]_vars => [Gate!Next]_(Gate!vars)
<1> SUFFICES ASSUME CapPositive, IInv, [Next]_vars PROVE [Gate!Next]_(Gate!vars)
  OBVIOUS
<1>0. IInv' /\ Running' = Gate!Oldest(order)'
  <2>1. IInv'
    BY NextIInv
  <2>2. (CapPositive /\ IInv => Running = Gate!Oldest(order))'
    BY RunningIsOldest, PTL
  <2> QED BY <2>1, <2>2 DEF CapPositive
<1>1. CASE UNCHANGED vars
  BY <1>1 DEF vars, Gate!vars, Running
<1>2. ASSUME NEW c \in Calls, Reject(c) PROVE UNCHANGED Gate!vars
  <2>1. \A d \in Calls : phase'[d] = "running" <=> phase[d] = "running"
    BY <1>2 DEF Reject, IInv, Shape
  <2>2. Running' = Running
    BY <2>1 DEF Running
  <2> QED BY <1>2, <2>2 DEF Reject, Gate!vars
<1>3. ASSUME NEW c \in Calls, Submit(c) PROVE Gate!Next
  <2>1. phase[c] = "idle" /\ order' = Append(order, c)
    BY <1>3 DEF Submit
  <2>2. \A i \in DOMAIN order : order[i] # c
    BY <2>1, LinePhases DEF IInv, Shape
  <2>3. Gate!Arrive(c)
    BY <1>0, <2>1, <2>2 DEF Gate!Arrive, Gate!Oldest
  <2> QED BY <2>3 DEF Gate!Next
<1>4. ASSUME NEW c \in Calls, Settle(c) PROVE Gate!Next
  <2>1. c \in Running
    BY <1>4 DEF Settle, Running
  <2>2. Gate!Finish(c)
    BY <1>0, <1>4, <2>1 DEF Settle, Gate!Finish, Gate!Oldest
  <2> QED BY <2>2 DEF Gate!Next
<1> QED BY <1>1, <1>2, <1>3, <1>4 DEF Next

\* The queue implements the abstract gate with one slot.
THEOREM QueueImplementsGate ==
    ASSUME CapPositive
    PROVE  SafetySpec => ImplementsGate
<1>1. Init => Gate!Init
  BY DEF Init, Gate!Init, Running
<1>2. IInv /\ [Next]_vars => [Gate!Next]_(Gate!vars)
  BY StepImplementsGate
<1> QED BY <1>1, <1>2, Safety, PTL DEF SafetySpec, ImplementsGate, Gate!Spec

\* QueueFull is answered only while Cap admitted jobs are unfinished.
THEOREM RefusalMeansFull ==
    ASSUME CapPositive
    PROVE  SafetySpec => RefusedOnlyWhenFull
<1> DEFINE Justified ==
       \A c \in Calls : phase'[c] = "refused" /\ phase[c] # "refused" => Len(order) = Cap
<1>1. IInv /\ [Next]_vars => [Justified]_vars
  <2> SUFFICES ASSUME IInv, Next, NEW c \in Calls,
                      phase'[c] = "refused", phase[c] # "refused"
               PROVE  Len(order) = Cap
    OBVIOUS
  <2>1. phase \in [Calls -> Phases]
    BY DEF IInv, Shape
  <2>2. PICK d \in Calls : Reject(d) \/ Submit(d) \/ Settle(d)
    BY DEF Next
  <2>3. CASE Reject(d)
    BY <2>3 DEF Reject, pendingCount, IInv, Shape, CapPositive
  <2>4. CASE Submit(d)
    <3>1. queue \in Seq(Calls) /\ Append(queue, d) \in Seq(Calls) /\ Append(queue, d) # <<>>
      BY DEF IInv, Shape
    <3>2. Head(Append(queue, d)) \in Calls
      BY <3>1
    <3> QED BY <2>1, <2>4, <3>2 DEF Submit, Pump
  <2>5. CASE Settle(d)
    <3>1. queue # <<>> => Head(queue) \in Calls
      BY DEF IInv, Shape
    <3> QED BY <2>1, <2>5, <3>1 DEF Settle, Pump
  <2> QED BY <2>2, <2>3, <2>4, <2>5
<1> QED BY <1>1, Safety, PTL DEF SafetySpec, RefusedOnlyWhenFull
=============================================================================
