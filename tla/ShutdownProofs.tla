--------------------------- MODULE ShutdownProofs ---------------------------
(***************************************************************************)
(* What the gates, shutdown.ts and childRegistry.ts promise, for any       *)
(* handlers, calls and gate sizes, in three parts.                         *)
(*                                                                         *)
(* The read pool: its invariant describes it through the history variable  *)
(* of the unfinished calls, oldest first: the slot owners followed by the  *)
(* parked callers.  (WriteQueueProofs says the same of a write queue.)     *)
(*                                                                         *)
(* The three gates: every step of the composition is a step of one gate    *)
(* and a stutter of the other two, so a behaviour of the composition is    *)
(* one of each gate.                                                       *)
(*                                                                         *)
(* The shutdown: the drain looks only at counters.  That nothing accepted  *)
(* is left when they read zero is the invariant of each gate (its line is  *)
(* the unfinished calls), which holds here because every step of the       *)
(* handlers is a step or a stutter of the gates.                           *)
(***************************************************************************)
EXTENDS Shutdown, FiniteSetTheorems, TLAPS

JxaP  == INSTANCE WriteQueueProofs WITH
            Calls <- JxaCalls, Cap <- QueueCap, inFlight <- jxaInFlight,
            queue <- jxaQueue, phase <- jxaPhase, order <- jxaOrder
OmniP == INSTANCE WriteQueueProofs WITH
            Calls <- OmniCalls, Cap <- QueueCap, inFlight <- omniInFlight,
            queue <- omniQueue, phase <- omniPhase, order <- omniOrder

-----------------------------------------------------------------------------
\* The read pool.

\* What one step of run() does, without the fairness of Spec.
PoolSpec == Pool!Init /\ [][Pool!Next]_(Pool!vars)

PoolShape ==
    /\ poolInFlight \in 0..PoolSize
    /\ poolWaiters \in Seq(PoolCalls)
    /\ poolOrder \in Seq(PoolCalls)
    /\ poolPhase \in [PoolCalls -> Pool!Phases]
    /\ Len(poolOrder) = poolInFlight + Len(poolWaiters)

PoolNoDuplicates == \A i, j \in 1..Len(poolOrder) : poolOrder[i] = poolOrder[j] => i = j

OwnersFirst == \A i \in 1..poolInFlight : poolPhase[poolOrder[i]] \in {"admitted", "running"}

ParkedNext ==
    \A i \in 1..Len(poolWaiters) :
        /\ poolWaiters[i] = poolOrder[poolInFlight + i]
        /\ poolPhase[poolOrder[poolInFlight + i]] = "waiting"

AllListed ==
    \A c \in PoolCalls : poolPhase[c] \in {"waiting", "admitted", "running"}
                        => \E i \in 1..Len(poolOrder) : poolOrder[i] = c

PoolInv ==
    /\ PoolShape
    /\ PoolNoDuplicates
    /\ OwnersFirst
    /\ ParkedNext
    /\ AllListed
    /\ Pool!WorkConserving

-----------------------------------------------------------------------------

\* Appending adds a last element and leaves the others.
LEMMA AppendFacts ==
    ASSUME NEW S, NEW s \in Seq(S), NEW e \in S
    PROVE  /\ Append(s, e) \in Seq(S)
           /\ Len(Append(s, e)) = Len(s) + 1
           /\ Append(s, e)[Len(s) + 1] = e
           /\ \A i \in 1..Len(s) : Append(s, e)[i] = s[i]
OBVIOUS

\* Removing one element of a sequence shifts the ones after it.
LEMMA WithoutFacts ==
    ASSUME NEW S, NEW s \in Seq(S), NEW i \in 1..Len(s)
    PROVE  /\ Pool!Gate!Without(s, i) \in Seq(S)
           /\ Len(Pool!Gate!Without(s, i)) = Len(s) - 1
           /\ \A j \in 1..(Len(s) - 1) :
                  Pool!Gate!Without(s, i)[j] = IF j < i THEN s[j] ELSE s[j + 1]
<1>1. Len(s) - 1 \in Nat
  OBVIOUS
<1>2. \A j \in 1..(Len(s) - 1) : (IF j < i THEN s[j] ELSE s[j + 1]) \in S
  OBVIOUS
<1> QED BY <1>1, <1>2 DEF Pool!Gate!Without

\* The invariant holds of an empty pool.
LEMMA PoolInitInv == Pool!SizePositive /\ Pool!Init => PoolInv
BY DEF Pool!SizePositive, Pool!Init, PoolInv, PoolShape, PoolNoDuplicates, OwnersFirst,
       ParkedNext, AllListed,
       Pool!WorkConserving, Pool!Phases

\* A caller that finds a free slot: nobody is parked, so it goes last.
LEMMA AcquireFreeInv ==
    ASSUME Pool!SizePositive, PoolInv, NEW c \in PoolCalls, Pool!AcquireFree(c)
    PROVE  PoolInv'
<1> USE DEF Pool!SizePositive
<1>1. poolWaiters = <<>>
  BY DEF PoolInv, Pool!WorkConserving, Pool!AcquireFree, PoolShape
<1>2. /\ poolOrder' \in Seq(PoolCalls)
      /\ Len(poolOrder') = Len(poolOrder) + 1
      /\ poolOrder'[Len(poolOrder) + 1] = c
      /\ \A i \in 1..Len(poolOrder) : poolOrder'[i] = poolOrder[i]
  <2>1. poolOrder \in Seq(PoolCalls) /\ poolOrder' = Append(poolOrder, c)
    BY DEF Pool!AcquireFree, PoolInv, PoolShape
  <2> QED BY <2>1, AppendFacts
<1>3. \A i \in 1..Len(poolOrder) : poolOrder[i] \in PoolCalls /\ poolOrder[i] # c
  BY <1>1 DEF Pool!AcquireFree, PoolInv, PoolShape, OwnersFirst
<1>4. PoolShape'
  BY <1>1, <1>2 DEF Pool!AcquireFree, PoolInv, PoolShape, Pool!Phases
<1>5. PoolNoDuplicates'
  BY <1>2, <1>3 DEF PoolInv, PoolNoDuplicates, PoolShape
<1>6. OwnersFirst'
  BY <1>1, <1>2, <1>3 DEF Pool!AcquireFree, PoolInv, PoolShape, OwnersFirst
<1>7. ParkedNext'
  BY <1>1 DEF Pool!AcquireFree, ParkedNext
<1>8. AllListed'
  <2>1. SUFFICES ASSUME NEW d \in PoolCalls, poolPhase'[d] \in {"waiting", "admitted", "running"}
                 PROVE  \E i \in 1..Len(poolOrder') : poolOrder'[i] = d
    BY DEF AllListed
  <2>2. CASE d = c
    BY <1>2, <2>2 DEF PoolInv, PoolShape
  <2>3. CASE d # c
    <3>1. poolPhase[d] \in {"waiting", "admitted", "running"}
      BY <2>1, <2>3 DEF Pool!AcquireFree, PoolInv, PoolShape
    <3>2. PICK i \in 1..Len(poolOrder) : poolOrder[i] = d
      BY <3>1 DEF PoolInv, AllListed
    <3>3. i \in 1..Len(poolOrder') /\ poolOrder'[i] = d
      BY <1>2, <3>2 DEF PoolInv, PoolShape
    <3> QED BY <3>3
  <2> QED BY <2>2, <2>3
<1>9. Pool!WorkConserving'
  BY <1>1 DEF Pool!AcquireFree, Pool!WorkConserving
<1> QED BY <1>4, <1>5, <1>6, <1>7, <1>8, <1>9 DEF PoolInv

\* A caller that finds every slot taken parks behind the others.
LEMMA AcquireWaitInv ==
    ASSUME Pool!SizePositive, PoolInv, NEW c \in PoolCalls, Pool!AcquireWait(c)
    PROVE  PoolInv'
<1> USE DEF Pool!SizePositive
<1>1. poolInFlight = PoolSize
  BY DEF Pool!AcquireWait, PoolInv, PoolShape
<1>2. /\ poolOrder' \in Seq(PoolCalls)
      /\ Len(poolOrder') = Len(poolOrder) + 1
      /\ poolOrder'[Len(poolOrder) + 1] = c
      /\ \A i \in 1..Len(poolOrder) : poolOrder'[i] = poolOrder[i]
  <2>1. poolOrder \in Seq(PoolCalls) /\ poolOrder' = Append(poolOrder, c)
    BY DEF Pool!AcquireWait, PoolInv, PoolShape
  <2> QED BY <2>1, AppendFacts
<1>3. /\ poolWaiters' \in Seq(PoolCalls)
      /\ Len(poolWaiters') = Len(poolWaiters) + 1
      /\ poolWaiters'[Len(poolWaiters) + 1] = c
      /\ \A i \in 1..Len(poolWaiters) : poolWaiters'[i] = poolWaiters[i]
  <2>1. poolWaiters \in Seq(PoolCalls) /\ poolWaiters' = Append(poolWaiters, c)
    BY DEF Pool!AcquireWait, PoolInv, PoolShape
  <2> QED BY <2>1, AppendFacts
<1>4. \A i \in 1..Len(poolOrder) : poolOrder[i] \in PoolCalls /\ poolOrder[i] # c
  <2>1. \A i \in 1..poolInFlight : poolOrder[i] # c
    BY DEF Pool!AcquireWait, PoolInv, PoolShape, OwnersFirst
  <2>2. \A i \in 1..Len(poolWaiters) : poolOrder[poolInFlight + i] # c
    BY DEF Pool!AcquireWait, PoolInv, PoolShape, ParkedNext
  <2>3. SUFFICES ASSUME NEW i \in 1..Len(poolOrder)
                 PROVE  poolOrder[i] \in PoolCalls /\ poolOrder[i] # c
    OBVIOUS
  <2>4. poolOrder[i] \in PoolCalls
    BY DEF PoolInv, PoolShape
  <2>5. CASE i \in 1..poolInFlight
    BY <2>1, <2>4, <2>5
  <2>6. CASE i \notin 1..poolInFlight
    <3>1. i - poolInFlight \in 1..Len(poolWaiters) /\ poolInFlight + (i - poolInFlight) = i
      BY <2>6 DEF PoolInv, PoolShape
    <3> QED BY <2>2, <2>4, <3>1
  <2> QED BY <2>5, <2>6
<1>5. PoolShape'
  BY <1>1, <1>2, <1>3 DEF Pool!AcquireWait, PoolInv, PoolShape, Pool!Phases
<1>6. PoolNoDuplicates'
  BY <1>2, <1>4 DEF PoolInv, PoolNoDuplicates, PoolShape
<1>7. OwnersFirst'
  BY <1>2, <1>4 DEF Pool!AcquireWait, PoolInv, PoolShape, OwnersFirst
<1>8. ParkedNext'
  <2>1. SUFFICES ASSUME NEW i \in 1..Len(poolWaiters')
                 PROVE  /\ poolWaiters'[i] = poolOrder'[poolInFlight + i]
                        /\ poolPhase'[poolOrder'[poolInFlight + i]] = "waiting"
    BY DEF Pool!AcquireWait, ParkedNext
  <2>2. CASE i = Len(poolWaiters) + 1
    BY <1>2, <1>3, <2>2 DEF Pool!AcquireWait, PoolInv, PoolShape
  <2>3. CASE i # Len(poolWaiters) + 1
    <3>1. i \in 1..Len(poolWaiters) /\ poolInFlight + i \in 1..Len(poolOrder)
      BY <1>3, <2>1, <2>3 DEF PoolInv, PoolShape
    <3>2. /\ poolWaiters[i] = poolOrder[poolInFlight + i]
          /\ poolPhase[poolOrder[poolInFlight + i]] = "waiting"
      BY <3>1 DEF PoolInv, ParkedNext
    <3>3. /\ poolWaiters'[i] = poolOrder'[poolInFlight + i]
          /\ poolOrder'[poolInFlight + i] = poolOrder[poolInFlight + i]
      BY <1>2, <1>3, <3>1, <3>2
    <3>4. poolPhase'[poolOrder[poolInFlight + i]] = poolPhase[poolOrder[poolInFlight + i]]
      BY <1>4, <3>1 DEF Pool!AcquireWait, PoolInv, PoolShape
    <3> QED BY <3>2, <3>3, <3>4
  <2> QED BY <2>2, <2>3
<1>9. AllListed'
  <2>1. SUFFICES ASSUME NEW d \in PoolCalls, poolPhase'[d] \in {"waiting", "admitted", "running"}
                 PROVE  \E i \in 1..Len(poolOrder') : poolOrder'[i] = d
    BY DEF AllListed
  <2>2. CASE d = c
    BY <1>2, <2>2 DEF PoolInv, PoolShape
  <2>3. CASE d # c
    <3>1. poolPhase[d] \in {"waiting", "admitted", "running"}
      BY <2>1, <2>3 DEF Pool!AcquireWait, PoolInv, PoolShape
    <3>2. PICK i \in 1..Len(poolOrder) : poolOrder[i] = d
      BY <3>1 DEF PoolInv, AllListed
    <3>3. i \in 1..Len(poolOrder') /\ poolOrder'[i] = d
      BY <1>2, <3>2 DEF PoolInv, PoolShape
    <3> QED BY <3>3
  <2> QED BY <2>2, <2>3
<1>10. Pool!WorkConserving'
  BY <1>1 DEF Pool!AcquireWait, Pool!WorkConserving
<1> QED BY <1>5, <1>6, <1>7, <1>8, <1>9, <1>10 DEF PoolInv

\* Entering fn moves an owner from "admitted" to "running".
LEMMA EnterInv ==
    ASSUME Pool!SizePositive, PoolInv, NEW c \in PoolCalls, Pool!Enter(c)
    PROVE  PoolInv'
<1>1. \A d \in PoolCalls : poolPhase'[d] = IF d = c THEN "running" ELSE poolPhase[d]
  BY DEF Pool!Enter, PoolInv, PoolShape
<1>2. poolPhase[c] = "admitted" /\ UNCHANGED <<poolInFlight, poolWaiters, poolOrder>>
  BY DEF Pool!Enter
<1>3. PoolShape'
  BY <1>2 DEF Pool!Enter, PoolInv, PoolShape, Pool!Phases
<1>4. PoolNoDuplicates' /\ Pool!WorkConserving'
  BY <1>2 DEF PoolInv, PoolNoDuplicates, Pool!WorkConserving
<1>5. \A i \in 1..Len(poolOrder) : poolOrder[i] \in PoolCalls
  BY DEF PoolInv, PoolShape
<1>6. OwnersFirst'
  BY <1>1, <1>2, <1>5 DEF PoolInv, PoolShape, OwnersFirst
<1>7. ParkedNext'
  BY <1>1, <1>2, <1>5 DEF PoolInv, PoolShape, ParkedNext
<1>8. AllListed'
  BY <1>1, <1>2 DEF PoolInv, AllListed
<1> QED BY <1>3, <1>4, <1>6, <1>7, <1>8 DEF PoolInv

\* Settling removes the call and shifts the others up; if somebody is parked,
\* the first of them takes the slot in the same step.
LEMMA SettleInv ==
    ASSUME Pool!SizePositive, PoolInv, NEW c \in PoolCalls, Pool!Settle(c)
    PROVE  PoolInv'
<1> USE DEF Pool!SizePositive
<1>1. PICK k \in DOMAIN poolOrder : poolOrder[k] = c /\ poolOrder' = Pool!Gate!Without(poolOrder, k)
  BY DEF Pool!Settle
<1>2. poolOrder \in Seq(PoolCalls) /\ Len(poolOrder) \in Nat /\ k \in 1..Len(poolOrder)
  BY <1>1 DEF PoolInv, PoolShape
<1>3. /\ poolOrder' \in Seq(PoolCalls)
      /\ Len(poolOrder') = Len(poolOrder) - 1
      /\ \A j \in 1..(Len(poolOrder) - 1) : poolOrder'[j] = IF j < k THEN poolOrder[j] ELSE poolOrder[j + 1]
  BY <1>1, <1>2, WithoutFacts, Zenon
<1>4. poolPhase[c] = "running" /\ poolInFlight \in 0..PoolSize /\ poolWaiters \in Seq(PoolCalls)
  BY DEF Pool!Settle, PoolInv, PoolShape
<1>5. k <= poolInFlight
  <2>1. SUFFICES ASSUME k > poolInFlight PROVE FALSE
    BY <1>2, <1>4
  <2>2. k - poolInFlight \in 1..Len(poolWaiters) /\ poolInFlight + (k - poolInFlight) = k
    BY <1>2, <1>4, <2>1 DEF PoolInv, PoolShape
  <2>3. poolPhase[poolOrder[k]] = "waiting"
    BY <2>2 DEF PoolInv, ParkedNext
  <2> QED BY <1>1, <1>4, <2>3
<1>6. \A j \in 1..Len(poolOrder) : poolOrder[j] \in PoolCalls /\ (j # k => poolOrder[j] # c)
  BY <1>1, <1>2 DEF PoolInv, PoolNoDuplicates
<1>7. PoolNoDuplicates'
  <2>1. SUFFICES ASSUME NEW i \in 1..Len(poolOrder'), NEW j \in 1..Len(poolOrder'),
                        poolOrder'[i] = poolOrder'[j]
                 PROVE  i = j
    BY DEF PoolNoDuplicates
  <2> DEFINE src(n) == IF n < k THEN n ELSE n + 1
  <2>2. /\ src(i) \in 1..Len(poolOrder) /\ poolOrder'[i] = poolOrder[src(i)]
        /\ src(j) \in 1..Len(poolOrder) /\ poolOrder'[j] = poolOrder[src(j)]
    BY <1>2, <1>3
  <2>3. src(i) = src(j)
    BY <2>1, <2>2 DEF PoolInv, PoolNoDuplicates
  <2> QED BY <1>2, <2>3
<1>8. CASE poolWaiters = <<>>
  <2>1. /\ poolInFlight' = poolInFlight - 1
        /\ poolWaiters' = poolWaiters
        /\ poolPhase' = [poolPhase EXCEPT ![c] = "settled"]
    BY <1>8 DEF Pool!Settle, Pool!Release
  <2>2. Len(poolWaiters) = 0 /\ Len(poolOrder) = poolInFlight
    BY <1>8 DEF PoolInv, PoolShape
  <2>3. PoolShape'
    BY <1>2, <1>3, <1>4, <1>5, <2>1, <2>2 DEF PoolInv, PoolShape, Pool!Phases
  <2>4. OwnersFirst'
    <3>1. SUFFICES ASSUME NEW i \in 1..poolInFlight'
                   PROVE  poolPhase'[poolOrder'[i]] \in {"admitted", "running"}
      BY DEF OwnersFirst
    <3>2. PICK j \in 1..Len(poolOrder) : j # k /\ poolOrder'[i] = poolOrder[j]
      <4>1. i \in 1..(Len(poolOrder) - 1)
        BY <1>2, <1>4, <2>1, <2>2
      <4>2. CASE i < k
        BY <1>2, <1>3, <4>1, <4>2
      <4>3. CASE ~(i < k)
        <5>1. i + 1 \in 1..Len(poolOrder) /\ i + 1 # k
          BY <1>2, <4>1, <4>3
        <5> QED BY <1>3, <4>1, <4>3, <5>1
      <4> QED BY <4>2, <4>3
    <3> QED BY <1>6, <2>1, <2>2, <3>2 DEF PoolInv, PoolShape, OwnersFirst
  <2>5. ParkedNext' /\ Pool!WorkConserving'
    BY <1>8, <2>1, <2>2 DEF ParkedNext, Pool!WorkConserving
  <2>6. AllListed'
    <3>1. SUFFICES ASSUME NEW d \in PoolCalls, poolPhase'[d] \in {"waiting", "admitted", "running"}
                   PROVE  \E i \in 1..Len(poolOrder') : poolOrder'[i] = d
      BY DEF AllListed
    <3>2. d # c /\ poolPhase[d] = poolPhase'[d]
      BY <2>1, <3>1 DEF PoolInv, PoolShape
    <3>3. PICK j \in 1..Len(poolOrder) : poolOrder[j] = d
      BY <3>1, <3>2 DEF PoolInv, AllListed
    <3>4. j # k
      BY <1>1, <3>2, <3>3
    <3>5. CASE j < k
      <4>1. j \in 1..Len(poolOrder') /\ poolOrder'[j] = d
        BY <1>2, <1>3, <3>3, <3>5
      <4> QED BY <4>1
    <3>6. CASE j > k
      <4>1. j - 1 \in 1..Len(poolOrder') /\ ~(j - 1 < k) /\ (j - 1) + 1 = j
        BY <1>2, <1>3, <3>3, <3>6
      <4>2. poolOrder'[j - 1] = d
        BY <1>3, <3>3, <4>1
      <4> QED BY <4>1, <4>2
    <3> QED BY <1>2, <3>3, <3>4, <3>5, <3>6
  <2> QED BY <1>7, <2>3, <2>4, <2>5, <2>6 DEF PoolInv
<1>9. CASE poolWaiters # <<>>
  <2> DEFINE h == Head(poolWaiters)
  <2>1. /\ poolInFlight' = poolInFlight
        /\ poolWaiters' = Tail(poolWaiters)
        /\ poolPhase' = [[poolPhase EXCEPT ![c] = "settled"] EXCEPT ![h] = "admitted"]
    BY <1>4, <1>9 DEF Pool!Settle, Pool!Release
  <2>2. /\ Len(poolWaiters) >= 1
        /\ h = poolWaiters[1] /\ h \in PoolCalls
        /\ Tail(poolWaiters) \in Seq(PoolCalls)
        /\ Len(Tail(poolWaiters)) = Len(poolWaiters) - 1
        /\ \A i \in 1..(Len(poolWaiters) - 1) : Tail(poolWaiters)[i] = poolWaiters[i + 1]
    BY <1>4, <1>9
  <2>3. poolInFlight = PoolSize /\ Len(poolOrder) = poolInFlight + Len(poolWaiters)
    BY <1>9 DEF PoolInv, PoolShape, Pool!WorkConserving
  <2>4. h = poolOrder[poolInFlight + 1] /\ poolPhase[h] = "waiting" /\ h # c
    BY <1>4, <2>2 DEF PoolInv, ParkedNext
  <2>5. /\ poolPhase' \in [PoolCalls -> Pool!Phases]
        /\ \A d \in PoolCalls : poolPhase'[d] = IF d = h THEN "admitted"
                                      ELSE IF d = c THEN "settled" ELSE poolPhase[d]
    BY <2>1, <2>2, <2>4 DEF PoolInv, PoolShape, Pool!Phases
  <2>6. PoolShape'
    BY <1>2, <1>3, <1>4, <2>1, <2>2, <2>3, <2>5 DEF PoolShape
  <2>7. OwnersFirst'
    <3>1. SUFFICES ASSUME NEW i \in 1..poolInFlight
                   PROVE  poolPhase'[poolOrder'[i]] \in {"admitted", "running"}
      BY <2>1 DEF OwnersFirst
    <3>2. PICK j \in 1..Len(poolOrder) : j # k /\ j <= poolInFlight + 1 /\ poolOrder'[i] = poolOrder[j]
      <4>1. i \in 1..(Len(poolOrder) - 1)
        BY <1>2, <1>4, <2>2, <2>3
      <4>2. CASE i < k
        BY <1>2, <1>3, <1>4, <4>1, <4>2
      <4>3. CASE ~(i < k)
        <5>1. i + 1 \in 1..Len(poolOrder) /\ i + 1 # k /\ i + 1 <= poolInFlight + 1
          BY <1>2, <1>4, <4>1, <4>3
        <5> QED BY <1>3, <4>1, <4>3, <5>1
      <4> QED BY <4>2, <4>3
    <3>3. CASE j = poolInFlight + 1
      BY <2>2, <2>4, <2>5, <3>2, <3>3
    <3>4. CASE j # poolInFlight + 1
      <4>1. j \in 1..poolInFlight
        BY <1>4, <3>2, <3>4
      <4>2. poolPhase[poolOrder[j]] \in {"admitted", "running"}
        BY <4>1 DEF PoolInv, OwnersFirst
      <4> QED BY <1>6, <2>4, <2>5, <3>2, <4>2
    <3> QED BY <3>3, <3>4
  <2>8. ParkedNext'
    <3>1. SUFFICES ASSUME NEW i \in 1..(Len(poolWaiters) - 1)
                   PROVE  /\ poolWaiters'[i] = poolOrder'[poolInFlight + i]
                          /\ poolPhase'[poolOrder'[poolInFlight + i]] = "waiting"
      BY <2>1, <2>2 DEF ParkedNext
    <3>2. /\ i + 1 \in 1..Len(poolWaiters)
          /\ poolInFlight + i \in 1..(Len(poolOrder) - 1)
          /\ ~(poolInFlight + i < k)
          /\ (poolInFlight + i) + 1 = poolInFlight + (i + 1)
      BY <1>2, <1>4, <1>5, <2>2, <2>3
    <3>3. poolOrder'[poolInFlight + i] = poolOrder[poolInFlight + (i + 1)]
      BY <1>3, <3>2
    <3>4. poolWaiters'[i] = poolWaiters[i + 1]
      BY <2>1, <2>2
    <3>5. /\ poolWaiters[i + 1] = poolOrder[poolInFlight + (i + 1)]
          /\ poolPhase[poolOrder[poolInFlight + (i + 1)]] = "waiting"
      BY <3>2 DEF PoolInv, ParkedNext
    <3>6. poolOrder[poolInFlight + (i + 1)] # h
      <4>1. poolInFlight + 1 \in 1..Len(poolOrder) /\ poolInFlight + (i + 1) \in 1..Len(poolOrder)
            /\ poolInFlight + 1 # poolInFlight + (i + 1)
        BY <1>2, <1>4, <2>2, <2>3, <3>2
      <4> QED BY <2>4, <4>1 DEF PoolInv, PoolNoDuplicates
    <3>7. poolOrder[poolInFlight + (i + 1)] # c /\ poolOrder[poolInFlight + (i + 1)] \in PoolCalls
      <4>1. poolInFlight + (i + 1) \in 1..Len(poolOrder)
        BY <1>2, <1>4, <2>2, <2>3, <3>2
      <4> QED BY <1>4, <1>6, <3>5, <4>1
    <3> QED BY <2>5, <3>3, <3>4, <3>5, <3>6, <3>7
  <2>9. Pool!WorkConserving'
    BY <2>1, <2>3 DEF Pool!WorkConserving
  <2>10. AllListed'
    <3>1. SUFFICES ASSUME NEW d \in PoolCalls, poolPhase'[d] \in {"waiting", "admitted", "running"}
                   PROVE  \E i \in 1..Len(poolOrder') : poolOrder'[i] = d
      BY DEF AllListed
    <3>2. PICK j \in 1..Len(poolOrder) : poolOrder[j] = d
      <4>1. CASE d = h
        <5>1. poolInFlight + 1 \in 1..Len(poolOrder)
          BY <1>2, <1>4, <2>2, <2>3
        <5> QED BY <2>4, <4>1, <5>1
      <4>2. CASE d # h
        BY <2>5, <3>1, <4>2 DEF PoolInv, AllListed
      <4> QED BY <4>1, <4>2
    <3>3. j # k
      BY <1>1, <2>4, <2>5, <3>1, <3>2
    <3>4. CASE j < k
      <4>1. j \in 1..Len(poolOrder') /\ poolOrder'[j] = d
        BY <1>2, <1>3, <3>2, <3>4
      <4> QED BY <4>1
    <3>5. CASE j > k
      <4>1. j - 1 \in 1..Len(poolOrder') /\ ~(j - 1 < k) /\ (j - 1) + 1 = j
        BY <1>2, <1>3, <3>2, <3>5
      <4>2. poolOrder'[j - 1] = d
        BY <1>3, <3>2, <4>1
      <4> QED BY <4>1, <4>2
    <3> QED BY <1>2, <3>2, <3>3, <3>4, <3>5
  <2> QED BY <1>7, <2>6, <2>7, <2>8, <2>9, <2>10 DEF PoolInv
<1> QED BY <1>8, <1>9

\* Every step of the pool keeps the invariant.
LEMMA PoolNextInv == Pool!SizePositive /\ PoolInv /\ [Pool!Next]_(Pool!vars) => PoolInv'
<1> SUFFICES ASSUME Pool!SizePositive, PoolInv, [Pool!Next]_(Pool!vars) PROVE PoolInv'
  OBVIOUS
<1>1. CASE UNCHANGED Pool!vars
  BY <1>1 DEF Pool!vars, PoolInv, PoolShape, PoolNoDuplicates, OwnersFirst, ParkedNext, AllListed,
              Pool!WorkConserving
<1>2. ASSUME NEW c \in PoolCalls, Pool!Acquire(c) PROVE PoolInv'
  BY <1>2, AcquireFreeInv, AcquireWaitInv DEF Pool!Acquire
<1>3. ASSUME NEW c \in PoolCalls, Pool!Enter(c) PROVE PoolInv'
  BY <1>3, EnterInv
<1>4. ASSUME NEW c \in PoolCalls, Pool!Settle(c) PROVE PoolInv'
  BY <1>4, SettleInv
<1> QED BY <1>1, <1>2, <1>3, <1>4 DEF Pool!Next

\* The pool keeps its shape through every interleaving of calls.
THEOREM PoolSafety ==
    ASSUME Pool!SizePositive
    PROVE  PoolSpec => []PoolInv
<1>1. Pool!Init => PoolInv
  BY PoolInitInv
<1>2. PoolInv /\ [Pool!Next]_(Pool!vars) => PoolInv'
  BY PoolNextInv
<1> QED BY <1>1, <1>2, PTL DEF PoolSpec

\* The pool's variables keep their types.
THEOREM PoolTypeAlwaysOK ==
    ASSUME Pool!SizePositive
    PROVE  PoolSpec => []Pool!TypeOK
<1>1. PoolInv => Pool!TypeOK
  BY DEF PoolInv, PoolShape, Pool!TypeOK
<1> QED BY <1>1, PoolSafety, PTL

\* A caller that acquire() took in is answered, and its answer is final.
LEMMA AcceptedStays ==
    ASSUME PoolInv, [Pool!Next]_(Pool!vars), NEW c \in PoolCalls,
           poolPhase[c] \in {"waiting", "admitted", "running", "settled"}
    PROVE  /\ poolPhase'[c] \in {"waiting", "admitted", "running", "settled"}
           /\ poolPhase[c] = "settled" => poolPhase'[c] = "settled"
<1>1. poolPhase \in [PoolCalls -> Pool!Phases]
  BY DEF PoolInv, PoolShape
<1>2. CASE UNCHANGED Pool!vars
  BY <1>2 DEF Pool!vars
<1>3. ASSUME NEW d \in PoolCalls, Pool!Acquire(d) \/ Pool!Enter(d)
      PROVE  poolPhase[d] \in {"idle", "admitted"} /\
             \E p \in {"waiting", "admitted", "running"} : poolPhase' = [poolPhase EXCEPT ![d] = p]
  BY <1>3 DEF Pool!Acquire, Pool!AcquireFree, Pool!AcquireWait, Pool!Enter
<1>4. ASSUME NEW d \in PoolCalls, Pool!Settle(d)
      PROVE  /\ poolPhase'[c] \in {"waiting", "admitted", "running", "settled"}
             /\ poolPhase[c] = "settled" => poolPhase'[c] = "settled"
  <2> DEFINE settled == [poolPhase EXCEPT ![d] = "settled"]
  <2>1. CASE poolWaiters = <<>>
    BY <1>1, <1>4, <2>1 DEF Pool!Settle, Pool!Release
  <2>2. CASE poolWaiters # <<>>
    <3>1. Head(poolWaiters) = poolWaiters[1] /\ 1 \in 1..Len(poolWaiters) /\ poolWaiters[1] \in PoolCalls
      BY <2>2 DEF PoolInv, PoolShape
    <3>2. poolPhase[Head(poolWaiters)] = "waiting"
      BY <3>1 DEF PoolInv, ParkedNext
    <3>3. poolPhase' = [settled EXCEPT ![Head(poolWaiters)] = "admitted"]
      BY <1>4, <2>2 DEF Pool!Settle, Pool!Release
    <3>4. \A e \in PoolCalls : poolPhase'[e] = IF e = Head(poolWaiters) THEN "admitted"
                                       ELSE IF e = d THEN "settled" ELSE poolPhase[e]
      BY <1>1, <3>1, <3>3
    <3> QED BY <3>2, <3>4
  <2> QED BY <2>1, <2>2
<1> QED BY <1>1, <1>2, <1>3, <1>4 DEF Pool!Next

\* When the counter and the line say so, nobody is in the pool.
LEMMA NobodyLeft ==
    ASSUME Pool!SizePositive, PoolInv, poolInFlight + Len(poolWaiters) = 0, NEW c \in PoolCalls
    PROVE  poolPhase[c] \notin {"waiting", "admitted", "running"}
<1>1. Len(poolOrder) = 0
  BY DEF PoolInv, PoolShape
<1>2. ~\E i \in 1..Len(poolOrder) : poolOrder[i] = c
  BY <1>1
<1> QED BY <1>2 DEF PoolInv, AllListed

-----------------------------------------------------------------------------

\* The slot owners are the first inFlight calls of the line.
LEMMA OwnersAreFirst ==
    Pool!SizePositive /\ PoolInv => Pool!Owners = {poolOrder[i] : i \in 1..poolInFlight}
<1> SUFFICES ASSUME Pool!SizePositive, PoolInv
             PROVE  Pool!Owners = {poolOrder[i] : i \in 1..poolInFlight}
  OBVIOUS
<1>1. ASSUME NEW i \in 1..poolInFlight PROVE poolOrder[i] \in Pool!Owners
  BY <1>1 DEF PoolInv, PoolShape, OwnersFirst, Pool!Owners, Pool!Owning
<1>2. ASSUME NEW c \in Pool!Owners PROVE \E i \in 1..poolInFlight : poolOrder[i] = c
  <2>1. c \in PoolCalls /\ poolPhase[c] \in {"admitted", "running"}
    BY <1>2 DEF Pool!Owners, Pool!Owning
  <2>2. PICK i \in 1..Len(poolOrder) : poolOrder[i] = c
    BY <2>1 DEF PoolInv, AllListed
  <2>3. CASE i <= poolInFlight
    BY <2>2, <2>3 DEF PoolInv, PoolShape
  <2>4. CASE i > poolInFlight
    <3>1. i - poolInFlight \in 1..Len(poolWaiters) /\ poolInFlight + (i - poolInFlight) = i
      BY <2>2, <2>4 DEF PoolInv, PoolShape
    <3>2. poolPhase[poolOrder[i]] = "waiting"
      BY <3>1 DEF PoolInv, ParkedNext
    <3> QED BY <2>1, <2>2, <3>2
  <2> QED BY <2>3, <2>4 DEF PoolInv, PoolShape
<1> QED BY <1>1, <1>2

\* ... and they are pairwise different, so the counter counts them.
LEMMA CounterCountsOwners ==
    Pool!SizePositive /\ PoolInv => poolInFlight = Cardinality(Pool!Owners) /\ poolInFlight <= PoolSize
<1> SUFFICES ASSUME Pool!SizePositive, PoolInv
             PROVE  poolInFlight = Cardinality(Pool!Owners) /\ poolInFlight <= PoolSize
  OBVIOUS
<1> DEFINE f == [i \in 1..poolInFlight |-> poolOrder[i]]
<1>1. Pool!Owners = {poolOrder[i] : i \in 1..poolInFlight}
  BY OwnersAreFirst
<1>2. poolInFlight \in Nat /\ poolInFlight <= PoolSize /\ poolInFlight <= Len(poolOrder)
  BY DEF Pool!SizePositive, PoolInv, PoolShape
<1>3. f \in Bijection(1..poolInFlight, Pool!Owners)
  <2>1. f \in [1..poolInFlight -> Pool!Owners]
    BY <1>1
  <2>2. \A i, j \in 1..poolInFlight : f[i] = f[j] => i = j
    BY <1>2 DEF PoolInv, PoolShape, PoolNoDuplicates
  <2>3. \A c \in Pool!Owners : \E i \in 1..poolInFlight : f[i] = c
    BY <1>1
  <2> HIDE DEF f
  <2> QED BY <2>1, <2>2, <2>3 DEF Bijection, Injection, Surjection, IsInjective
<1>4. ExistsBijection(1..poolInFlight, Pool!Owners)
  BY <1>3 DEF ExistsBijection
<1>5. IsFiniteSet(1..poolInFlight) /\ Cardinality(1..poolInFlight) = poolInFlight
  BY <1>2, FS_Interval
<1> QED BY <1>2, <1>4, <1>5, FS_Bijection

\* The counter that internal_status and the shutdown drain read is exact, and
\* the configured size is never exceeded.
THEOREM SlotsAlwaysAccounted ==
    ASSUME Pool!SizePositive
    PROVE  PoolSpec => []Pool!SlotsAccounted
<1>1. PoolInv => Pool!SlotsAccounted
  BY CounterCountsOwners DEF Pool!SlotsAccounted, Pool!Cardinality, Cardinality
<1> QED BY <1>1, PoolSafety, PTL

-----------------------------------------------------------------------------

\* With nobody parked the owners are the whole line; with somebody parked
\* they fill the pool.  Either way they are its Size oldest calls.
LEMMA OwnersAreOldest == Pool!SizePositive /\ PoolInv => Pool!Owners = Pool!Gate!Oldest(poolOrder)
<1> SUFFICES ASSUME Pool!SizePositive, PoolInv PROVE Pool!Owners = Pool!Gate!Oldest(poolOrder)
  OBVIOUS
<1>1. Pool!Owners = {poolOrder[i] : i \in 1..poolInFlight}
  BY OwnersAreFirst
<1>2. 1..poolInFlight = {j \in DOMAIN poolOrder : j <= PoolSize}
  <2>1. CASE poolWaiters = <<>>
    BY <2>1 DEF Pool!SizePositive, PoolInv, PoolShape
  <2>2. CASE poolWaiters # <<>>
    BY <2>2 DEF Pool!SizePositive, PoolInv, PoolShape, Pool!WorkConserving
  <2> QED BY <2>1, <2>2
<1> QED BY <1>1, <1>2 DEF Pool!Gate!Oldest

\* A call that has not come yet is not in the line.
LEMMA IdleNotListed ==
    ASSUME Pool!SizePositive, PoolInv, NEW c \in PoolCalls, poolPhase[c] = "idle"
    PROVE  \A i \in DOMAIN poolOrder : poolOrder[i] # c
<1> SUFFICES ASSUME NEW i \in DOMAIN poolOrder, poolOrder[i] = c PROVE FALSE
  OBVIOUS
<1>1. i \in 1..Len(poolOrder) /\ poolInFlight \in Nat /\ Len(poolOrder) = poolInFlight + Len(poolWaiters)
  BY DEF Pool!SizePositive, PoolInv, PoolShape
<1>2. CASE i <= poolInFlight
  BY <1>1, <1>2 DEF PoolInv, OwnersFirst
<1>3. CASE i > poolInFlight
  <2>1. i - poolInFlight \in 1..Len(poolWaiters) /\ poolInFlight + (i - poolInFlight) = i
    BY <1>1, <1>3 DEF PoolInv, PoolShape
  <2> QED BY <2>1 DEF PoolInv, ParkedNext
<1> QED BY <1>1, <1>2, <1>3

\* A step of the pool is a step of the abstract gate or invisible to it.
LEMMA StepImplementsGate ==
    Pool!SizePositive /\ PoolInv /\ [Pool!Next]_(Pool!vars) => [Pool!Gate!Next]_(Pool!Gate!vars)
<1> SUFFICES ASSUME Pool!SizePositive, PoolInv, [Pool!Next]_(Pool!vars)
             PROVE  [Pool!Gate!Next]_(Pool!Gate!vars)
  OBVIOUS
<1>0. PoolInv' /\ Pool!Owners' = Pool!Gate!Oldest(poolOrder)'
  <2>1. PoolInv'
    BY PoolNextInv
  <2>2. (Pool!SizePositive /\ PoolInv => Pool!Owners = Pool!Gate!Oldest(poolOrder))'
    BY OwnersAreOldest, PTL
  <2> QED BY <2>1, <2>2 DEF Pool!SizePositive
<1>1. CASE UNCHANGED Pool!vars
  BY <1>1 DEF Pool!vars, Pool!Gate!vars, Pool!Owners, Pool!Owning
<1>2. ASSUME NEW c \in PoolCalls, Pool!Acquire(c) PROVE Pool!Gate!Next
  <2>1. poolPhase[c] = "idle" /\ poolOrder' = Append(poolOrder, c)
    BY <1>2 DEF Pool!Acquire, Pool!AcquireFree, Pool!AcquireWait
  <2>2. Pool!Gate!Arrive(c)
    BY <1>0, <2>1, IdleNotListed DEF Pool!Gate!Arrive, Pool!Gate!Oldest
  <2> QED BY <2>2 DEF Pool!Gate!Next
<1>3. ASSUME NEW c \in PoolCalls, Pool!Enter(c) PROVE UNCHANGED Pool!Gate!vars
  <2>1. \A d \in PoolCalls : Pool!Owning(d)' <=> Pool!Owning(d)
    BY <1>3 DEF Pool!Enter, Pool!Owning, PoolInv, PoolShape
  <2>2. Pool!Owners' = Pool!Owners
    BY <2>1 DEF Pool!Owners
  <2> QED BY <1>3, <2>2 DEF Pool!Enter, Pool!Gate!vars
<1>4. ASSUME NEW c \in PoolCalls, Pool!Settle(c) PROVE Pool!Gate!Next
  <2>1. c \in Pool!Owners
    BY <1>4 DEF Pool!Settle, Pool!Owners, Pool!Owning
  <2>2. Pool!Gate!Finish(c)
    BY <1>0, <1>4, <2>1 DEF Pool!Settle, Pool!Gate!Finish, Pool!Gate!Oldest
  <2> QED BY <2>2 DEF Pool!Gate!Next
<1> QED BY <1>1, <1>2, <1>3, <1>4 DEF Pool!Next

\* The pool implements the abstract gate: its slots always go to its Size
\* oldest unfinished calls.
THEOREM PoolImplementsGate ==
    ASSUME Pool!SizePositive
    PROVE  PoolSpec => Pool!ImplementsGate
<1>1. Pool!Init => Pool!Gate!Init
  BY DEF Pool!Init, Pool!Gate!Init, Pool!Owners, Pool!Owning
<1>2. PoolInv /\ [Pool!Next]_(Pool!vars) => [Pool!Gate!Next]_(Pool!Gate!vars)
  BY StepImplementsGate
<1> QED BY <1>1, <1>2, PoolSafety, PTL DEF PoolSpec, Pool!ImplementsGate, Pool!Gate!Spec

\* A parked caller means that every slot is taken.
THEOREM AlwaysWorkConserving ==
    ASSUME Pool!SizePositive
    PROVE  PoolSpec => []Pool!WorkConserving
<1>1. PoolInv => Pool!WorkConserving
  BY DEF PoolInv
<1> QED BY <1>1, PoolSafety, PTL

-----------------------------------------------------------------------------
\* The three gates.

\* A method goes to the gate it is routed to and to no other.
LEMMA RoutedOnce ==
    ASSUME NEW c \in Calls, NEW gate, PickGate(c) = gate
    PROVE  c \in CallsOf(gate)
BY DEF CallsOf

\* A step of the composition, seen from each gate.
LEMMA StepPerGate ==
    [GatesNext]_gateVars =>
        /\ [Pool!Next]_(Pool!vars)
        /\ [JxaP!Next]_(JxaP!vars)
        /\ [OmniP!Next]_(OmniP!vars)
<1> SUFFICES ASSUME [GatesNext]_gateVars
             PROVE  /\ [Pool!Next]_(Pool!vars)
                    /\ [JxaP!Next]_(JxaP!vars)
                    /\ [OmniP!Next]_(OmniP!vars)
  OBVIOUS
<1> USE DEF poolVars, jxaVars, omniVars, gateVars, Pool!vars, JxaP!vars, OmniP!vars
<1>1. CASE UNCHANGED gateVars
  BY <1>1
<1>2. CASE GatesNext
  <2>1. PICK c \in Calls : Dispatch(c) \/ EnterRead(c) \/ Return(c)
    BY <1>2 DEF GatesNext
  <2>2. CASE PickGate(c) = "readPool"
    <3>1. c \in PoolCalls /\ UNCHANGED <<jxaVars, omniVars>>
      BY <2>1, <2>2, RoutedOnce DEF Dispatch, EnterRead, Return, PoolCalls
    <3>2. Pool!Acquire(c) \/ Pool!Enter(c) \/ Pool!Settle(c)
      BY <2>1, <2>2 DEF Dispatch, EnterRead, Return, Pool!Acquire,
         Pool!AcquireFree, Pool!AcquireWait,
         Pool!Enter, Pool!Settle, Pool!Release,
         Pool!Gate!Without
    <3> QED BY <3>1, <3>2 DEF Pool!Next
  <2>3. CASE PickGate(c) = "jxaWriteQueue"
    <3>1. c \in JxaCalls /\ UNCHANGED <<poolVars, omniVars>>
      BY <2>1, <2>3, RoutedOnce DEF Dispatch, EnterRead, Return, JxaCalls
    <3>2. JxaP!Reject(c) \/ JxaP!Submit(c) \/ JxaP!Settle(c)
      BY <2>1, <2>3 DEF Dispatch, EnterRead, Return, Jxa!Reject, JxaP!Reject,
         Jxa!Submit, JxaP!Submit, Jxa!Settle, JxaP!Settle, Jxa!Pump, JxaP!Pump,
         Jxa!pendingCount, JxaP!pendingCount, Jxa!Gate!Without, JxaP!Gate!Without
    <3> QED BY <3>1, <3>2 DEF JxaP!Next
  <2>4. CASE PickGate(c) = "omniJsQueue"
    <3>1. c \in OmniCalls /\ UNCHANGED <<poolVars, jxaVars>>
      BY <2>1, <2>4, RoutedOnce DEF Dispatch, EnterRead, Return, OmniCalls
    <3>2. OmniP!Reject(c) \/ OmniP!Submit(c) \/ OmniP!Settle(c)
      BY <2>1, <2>4 DEF Dispatch, EnterRead, Return, Omni!Reject, OmniP!Reject,
         Omni!Submit, OmniP!Submit, Omni!Settle, OmniP!Settle, Omni!Pump, OmniP!Pump,
         Omni!pendingCount, OmniP!pendingCount, Omni!Gate!Without, OmniP!Gate!Without
    <3> QED BY <3>1, <3>2 DEF OmniP!Next
  <2> QED BY <2>2, <2>3, <2>4 DEF PickGate
<1> QED BY <1>1, <1>2

\* A behaviour of the composition is a behaviour of each gate.
LEMMA SpecPerGate ==
    GatesSpec => PoolSpec /\ JxaP!SafetySpec /\ OmniP!SafetySpec
<1>1. GatesInit => Pool!Init /\ JxaP!Init /\ OmniP!Init
  BY DEF GatesInit, Pool!Init, Jxa!Init, JxaP!Init, Omni!Init, OmniP!Init
<1> QED BY <1>1, StepPerGate, PTL
        DEF GatesSpec, PoolSpec, JxaP!SafetySpec, OmniP!SafetySpec

LEMMA Sizes == Pool!SizePositive /\ JxaP!CapPositive /\ OmniP!CapPositive
BY GateAssumption DEF Pool!SizePositive, JxaP!CapPositive, OmniP!CapPositive

-----------------------------------------------------------------------------

\* The types of the three gates' variables, whatever the calls do.
THEOREM GatesTypeAlwaysOK == GatesSpec => []GatesTypeOK
<1>1. GatesSpec => []Pool!TypeOK /\ []JxaP!TypeOK /\ []OmniP!TypeOK
  BY SpecPerGate, Sizes, PoolTypeAlwaysOK, JxaP!QueueTypeAlwaysOK,
     OmniP!QueueTypeAlwaysOK, PTL
<1>2. Pool!TypeOK /\ JxaP!TypeOK /\ OmniP!TypeOK => GatesTypeOK
  BY DEF GatesTypeOK, Pool!TypeOK, Jxa!TypeOK, JxaP!TypeOK, Omni!TypeOK,
         OmniP!TypeOK, Pool!Phases, Jxa!Phases, JxaP!Phases, Omni!Phases,
         OmniP!Phases
<1> QED BY <1>1, <1>2, PTL

\* The counters that internal_status and the shutdown drain read are the real
\* numbers of calls in flight, within the configured bounds.
THEOREM CountersAlwaysTrue == GatesSpec => []CountersTrue
<1>1. GatesSpec => []Pool!SlotsAccounted /\ []JxaP!Serial /\ []OmniP!Serial
  BY SpecPerGate, Sizes, SlotsAlwaysAccounted, JxaP!AlwaysSerial, OmniP!AlwaysSerial, PTL
<1>2. JxaP!Serial => Jxa!Serial
  BY DEF Jxa!Serial, JxaP!Serial, Jxa!Running, JxaP!Running, Jxa!pendingCount,
         JxaP!pendingCount, Jxa!Cardinality, JxaP!Cardinality
<1>3. OmniP!Serial => Omni!Serial
  BY DEF Omni!Serial, OmniP!Serial, Omni!Running, OmniP!Running, Omni!pendingCount,
         OmniP!pendingCount, Omni!Cardinality, OmniP!Cardinality
<1>4. Pool!SlotsAccounted /\ JxaP!Serial /\ OmniP!Serial => CountersTrue
  BY <1>2, <1>3 DEF CountersTrue
<1> QED BY <1>1, <1>4, PTL

\* Nobody is parked in front of a free slot, in any of the three gates.
THEOREM NoWakeupIsLost == GatesSpec => []NoLostWakeup
<1>1. GatesSpec => []Pool!WorkConserving /\ []JxaP!NeverStalls /\ []OmniP!NeverStalls
  BY SpecPerGate, Sizes, AlwaysWorkConserving, JxaP!NeverStallsAlways,
     OmniP!NeverStallsAlways, PTL
<1>2. Pool!WorkConserving /\ JxaP!NeverStalls /\ OmniP!NeverStalls => NoLostWakeup
  BY DEF NoLostWakeup, Pool!WorkConserving, Jxa!NeverStalls,
         JxaP!NeverStalls, Jxa!Running, JxaP!Running, Omni!NeverStalls, OmniP!NeverStalls,
         Omni!Running, OmniP!Running
<1> QED BY <1>1, <1>2, PTL

\* QueueFull is answered only while QueueCap writes of that transport are
\* unfinished.
THEOREM RefusalAlwaysMeansFull == GatesSpec => RefusedOnlyWhenFull
<1>1. GatesSpec => JxaP!RefusedOnlyWhenFull /\ OmniP!RefusedOnlyWhenFull
  BY SpecPerGate, Sizes, JxaP!RefusalMeansFull, OmniP!RefusalMeansFull, PTL
<1> QED BY <1>1, PTL
        DEF RefusedOnlyWhenFull, Jxa!RefusedOnlyWhenFull, JxaP!RefusedOnlyWhenFull,
            Omni!RefusedOnlyWhenFull, OmniP!RefusedOnlyWhenFull, Jxa!vars, JxaP!vars,
            Omni!vars, OmniP!vars

\* The pool's slots go to its PoolSize oldest calls, and each queue runs its
\* oldest: the three gates implement FifoGate.
THEOREM ReadsOldestFirst == GatesSpec => ReadsAreServedOldestFirst
<1>1. GatesSpec => Pool!ImplementsGate
  BY SpecPerGate, Sizes, PoolImplementsGate, PTL
<1> QED BY <1>1, PTL
     DEF ReadsAreServedOldestFirst

THEOREM WritesOldestFirst == GatesSpec => WritesAreServedOldestFirst
<1>1. GatesSpec => JxaP!ImplementsGate /\ OmniP!ImplementsGate
  BY SpecPerGate, Sizes, JxaP!QueueImplementsGate, OmniP!QueueImplementsGate, PTL
<1> QED BY <1>1, PTL
     DEF WritesAreServedOldestFirst, Jxa!ImplementsGate, JxaP!ImplementsGate, Jxa!Gate!Spec, JxaP!Gate!Spec,
         Jxa!Gate!Init, JxaP!Gate!Init, Jxa!Gate!Next, JxaP!Gate!Next,
         Jxa!Gate!vars, JxaP!Gate!vars, Jxa!Gate!Arrive, JxaP!Gate!Arrive,
         Jxa!Gate!Finish, JxaP!Gate!Finish, Jxa!Gate!Oldest, JxaP!Gate!Oldest,
         Jxa!Gate!Without, JxaP!Gate!Without, Jxa!Running, JxaP!Running,
         Omni!ImplementsGate, OmniP!ImplementsGate, Omni!Gate!Spec,
         OmniP!Gate!Spec, Omni!Gate!Init, OmniP!Gate!Init, Omni!Gate!Next,
         OmniP!Gate!Next, Omni!Gate!vars, OmniP!Gate!vars, Omni!Gate!Arrive,
         OmniP!Gate!Arrive, Omni!Gate!Finish, OmniP!Gate!Finish, Omni!Gate!Oldest,
         OmniP!Gate!Oldest, Omni!Gate!Without, OmniP!Gate!Without, Omni!Running,
         OmniP!Running

-----------------------------------------------------------------------------
\* The handlers and the shutdown sequence.

Taken(c) == Phase(c) \in Unfinished \cup {"settled"}

HostTypeOK ==
    /\ tool \in [Tools -> ToolStates]
    /\ step \in [Tools -> Nat \ {0}]
    /\ \A t \in Tools : step[t] <= Len(Script[t])
    /\ server \in ServerStates
    /\ accepted \subseteq Calls

\* Before the end nothing is killed; at the end what lives was killed.
OrphansKilled ==
    /\ Up => doomed = {}
    /\ NoOrphan

\* What the gates had taken when the signal came is theirs until answered, and
\* answered once the counters have read zero.
AcceptedKept ==
    /\ \A c \in accepted : Taken(c)
    /\ server \in {"reaping", "exited"} /\ ~graceOver => \A c \in accepted : Phase(c) = "settled"

HostInv == HostTypeOK /\ OrphansKilled /\ AcceptedKept

GatesIInv == PoolInv /\ JxaP!IInv /\ OmniP!IInv

-----------------------------------------------------------------------------
\* The gates below the handlers

\* A handler is always at one of the calls it makes.
LEMMA CallIsGated ==
    ASSUME HostTypeOK, NEW t \in Tools
    PROVE  Call(t) \in Calls
<1>1. Script[t] \in Seq(Calls)
  BY ScriptAssumption
<1>2. Len(Script[t]) \in Nat /\ step[t] \in 1..Len(Script[t])
  BY <1>1 DEF HostTypeOK
<1> QED BY <1>1, <1>2 DEF Call

\* Whatever the server and its handlers do is a step of the gates or none.
LEMMA StepIsGateStep ==
    ASSUME HostTypeOK, [Next]_vars
    PROVE  [GatesNext]_gateVars
<1>1. CASE UNCHANGED vars
  BY <1>1 DEF vars
<1>2. ASSUME NEW t \in Tools, Issue(t) \/ Settle(t)
      PROVE  GatesNext
  <2>1. Call(t) \in Calls
    BY CallIsGated
  <2>2. Dispatch(Call(t)) \/ Return(Call(t))
    BY <1>2 DEF Issue, Settle
  <2> QED BY <2>1, <2>2 DEF GatesNext
<1>3. ASSUME NEW t \in Tools, Request(t) \/ Resume(t)
      PROVE  UNCHANGED gateVars
  BY <1>3 DEF Request, Resume
<1>4. ASSUME NEW c \in Calls, Enter(c)
      PROVE  GatesNext
  BY <1>4 DEF Enter, GatesNext
<1>5. ASSUME NEW c \in Calls, ChildExit(c) \/ SpawnAgain(c)
      PROVE  UNCHANGED gateVars
  BY <1>5 DEF ChildExit, SpawnAgain
<1>6. CASE Signal \/ DrainPoll \/ DrainDeadline \/ Reaped \/ KillSurvivors
  BY <1>6 DEF Signal, DrainPoll, DrainDeadline, Reaped, KillSurvivors
<1> QED BY <1>1, <1>2, <1>3, <1>4, <1>5, <1>6 DEF Next

\* A call a gate has taken stays taken, and its answer is final.
LEMMA TakenStays ==
    ASSUME GatesIInv, [GatesNext]_gateVars, NEW c \in Calls, Taken(c)
    PROVE  Taken(c)' /\ (Phase(c) = "settled" => Phase(c)' = "settled")
<1>1. [Pool!Next]_(Pool!vars) /\ [JxaP!Next]_(JxaP!vars) /\ [OmniP!Next]_(OmniP!vars)
  BY StepPerGate
<1>2. CASE PickGate(c) = "readPool"
  <2>1. c \in PoolCalls /\ Phase(c) = poolPhase[c] /\ Phase(c)' = poolPhase'[c]
    BY <1>2, RoutedOnce DEF PoolCalls, Phase
  <2>2. poolPhase[c] \in Pool!Phases
    BY <2>1 DEF GatesIInv, PoolInv, PoolShape
  <2>3. poolPhase[c] \in {"waiting", "admitted", "running", "settled"}
    BY <2>1, <2>2 DEF Pool!Phases, Taken, Unfinished
  <2>4. /\ poolPhase'[c] \in {"waiting", "admitted", "running", "settled"}
        /\ poolPhase[c] = "settled" => poolPhase'[c] = "settled"
    BY <1>1, <2>1, <2>3, AcceptedStays DEF GatesIInv
  <2> QED BY <2>1, <2>4 DEF Taken, Unfinished
<1>3. CASE PickGate(c) = "jxaWriteQueue"
  <2>1. c \in JxaCalls /\ Phase(c) = jxaPhase[c] /\ Phase(c)' = jxaPhase'[c]
    BY <1>3, RoutedOnce DEF JxaCalls, Phase
  <2>2. jxaPhase[c] \in JxaP!Phases
    BY <2>1 DEF GatesIInv, JxaP!IInv, JxaP!Shape
  <2>3. jxaPhase[c] \in {"queued", "running", "settled"}
    BY <2>1, <2>2 DEF JxaP!Phases, Taken, Unfinished
  <2>4. /\ jxaPhase'[c] \in {"queued", "running", "settled"}
        /\ jxaPhase[c] = "settled" => jxaPhase'[c] = "settled"
    BY <1>1, <2>1, <2>3, JxaP!AcceptedStays DEF GatesIInv
  <2> QED BY <2>1, <2>4 DEF Taken, Unfinished
<1>4. CASE PickGate(c) = "omniJsQueue"
  <2>1. c \in OmniCalls /\ Phase(c) = omniPhase[c] /\ Phase(c)' = omniPhase'[c]
    BY <1>4, RoutedOnce DEF OmniCalls, Phase
  <2>2. omniPhase[c] \in OmniP!Phases
    BY <2>1 DEF GatesIInv, OmniP!IInv, OmniP!Shape
  <2>3. omniPhase[c] \in {"queued", "running", "settled"}
    BY <2>1, <2>2 DEF OmniP!Phases, Taken, Unfinished
  <2>4. /\ omniPhase'[c] \in {"queued", "running", "settled"}
        /\ omniPhase[c] = "settled" => omniPhase'[c] = "settled"
    BY <1>1, <2>1, <2>3, OmniP!AcceptedStays DEF GatesIInv
  <2> QED BY <2>1, <2>4 DEF Taken, Unfinished
<1> QED BY <1>2, <1>3, <1>4 DEF PickGate

\* When the three counters read zero, a call that was taken was answered.
LEMMA DrainedMeansAnswered ==
    ASSUME GatesIInv, Drained, NEW c \in Calls, Taken(c)
    PROVE  Phase(c) = "settled"
<1>1. Pending("readPool") = 0 /\ Pending("jxaWriteQueue") = 0 /\ Pending("omniJsQueue") = 0
  BY DEF Drained, Registered, Gates
<1>2. poolInFlight + Len(poolWaiters) = 0 /\ jxaInFlight + Len(jxaQueue) = 0
      /\ omniInFlight + Len(omniQueue) = 0
  BY <1>1 DEF Pending
<1>3. CASE PickGate(c) = "readPool"
  <2>1. c \in PoolCalls /\ Phase(c) = poolPhase[c]
    BY <1>3, RoutedOnce DEF PoolCalls, Phase
  <2>2. poolPhase[c] \in Pool!Phases
    BY <2>1 DEF GatesIInv, PoolInv, PoolShape
  <2>3. poolPhase[c] \notin {"waiting", "admitted", "running"}
    BY <1>2, <2>1, Sizes, NobodyLeft DEF GatesIInv
  <2> QED BY <2>1, <2>2, <2>3 DEF Pool!Phases, Taken, Unfinished
<1>4. CASE PickGate(c) = "jxaWriteQueue"
  <2>1. c \in JxaCalls /\ Phase(c) = jxaPhase[c]
    BY <1>4, RoutedOnce DEF JxaCalls, Phase
  <2>2. jxaPhase[c] \in JxaP!Phases
    BY <2>1 DEF GatesIInv, JxaP!IInv, JxaP!Shape
  <2>3. jxaPhase[c] \notin {"queued", "running"}
    BY <1>2, <2>1, Sizes, JxaP!NobodyLeft DEF GatesIInv
  <2> QED BY <2>1, <2>2, <2>3 DEF JxaP!Phases, Taken, Unfinished
<1>5. CASE PickGate(c) = "omniJsQueue"
  <2>1. c \in OmniCalls /\ Phase(c) = omniPhase[c]
    BY <1>5, RoutedOnce DEF OmniCalls, Phase
  <2>2. omniPhase[c] \in OmniP!Phases
    BY <2>1 DEF GatesIInv, OmniP!IInv, OmniP!Shape
  <2>3. omniPhase[c] \notin {"queued", "running"}
    BY <1>2, <2>1, Sizes, OmniP!NobodyLeft DEF GatesIInv
  <2> QED BY <2>1, <2>2, <2>3 DEF OmniP!Phases, Taken, Unfinished
<1> QED BY <1>3, <1>4, <1>5 DEF PickGate

-----------------------------------------------------------------------------
\* Steps

\* The process starts with nothing taken and nothing alive.
LEMMA InitHostInv == Init => HostInv
<1> SUFFICES ASSUME Init PROVE HostInv
  OBVIOUS
<1>1. HostTypeOK
  <2>1. ASSUME NEW t \in Tools
        PROVE  1 <= Len(Script[t])
    <3>1. Script[t] \in Seq(Calls) /\ Script[t] # <<>>
      BY ScriptAssumption
    <3> QED BY <3>1
  <2> QED BY <2>1 DEF Init, HostTypeOK, ToolStates, ServerStates
<1>2. OrphansKilled /\ AcceptedKept
  BY DEF Init, OrphansKilled, NoOrphan, AcceptedKept, Up
<1> QED BY <1>1, <1>2 DEF HostInv

\* While the server is up, only the gates, the handlers and the children move.
LEMMA ServingKeepsHostInv ==
    ASSUME HostInv, GatesIInv, [GatesNext]_gateVars, Up, UNCHANGED <<doomed, lifeVars>>,
           HostTypeOK'
    PROVE  HostInv'
<1>1. OrphansKilled'
  BY DEF HostInv, OrphansKilled, NoOrphan, Up, lifeVars
<1>2. \A c \in accepted : Taken(c)' /\ (Phase(c) = "settled" => Phase(c)' = "settled")
  BY TakenStays DEF HostInv, HostTypeOK, AcceptedKept
<1>3. AcceptedKept'
  BY <1>2 DEF HostInv, AcceptedKept, lifeVars
<1> QED BY <1>1, <1>3 DEF HostInv

\* A step of the shutdown sequence leaves the gates and the handlers alone, kills
\* whatever lives when it exits, and says so when it goes on undrained.
LEMMA ShutdownKeepsHostInv ==
    ASSUME HostInv, GatesIInv,
           Signal \/ DrainPoll \/ DrainDeadline \/ Reaped \/ KillSurvivors
    PROVE  HostInv'
<1>1. /\ UNCHANGED <<gateVars, tool, step, child>>
      /\ server \in {"serving", "draining", "reaping"}
      /\ server' \in {"draining", "reaping", "exited"}
  BY DEF Signal, DrainPoll, DrainDeadline, Reaped, KillSurvivors, StartCleanup, hostVars
<1>2. /\ Active' = Active
      /\ \A c \in Calls : Phase(c)' = Phase(c) /\ (Taken(c)' <=> Taken(c))
  BY <1>1 DEF Active, Phase, Taken, gateVars, poolVars, jxaVars, omniVars
<1>3. doomed = {}
  BY <1>1 DEF HostInv, OrphansKilled, Up
<1>4. OrphansKilled'
  BY <1>1, <1>2, <1>3 DEF Signal, DrainPoll, DrainDeadline, Reaped, KillSurvivors,
     StartCleanup, OrphansKilled, NoOrphan, Up, hostVars
<1>5. accepted' \subseteq Calls /\ \A c \in accepted' : Taken(c)
  BY DEF Signal, DrainPoll, DrainDeadline, Reaped, KillSurvivors, HostInv, HostTypeOK,
     AcceptedKept, Taken
<1>6. HostTypeOK'
  BY <1>1, <1>5 DEF HostInv, HostTypeOK, ServerStates
<1>7. server' \in {"reaping", "exited"} /\ ~graceOver' =>
         \/ Drained
         \/ server = "reaping" /\ ~graceOver /\ accepted' = accepted
  BY DEF Signal, DrainPoll, DrainDeadline, Reaped, KillSurvivors
<1>8. server' \in {"reaping", "exited"} /\ ~graceOver' =>
         \A c \in accepted' : Phase(c) = "settled"
  BY <1>5, <1>7, DrainedMeansAnswered DEF HostInv, AcceptedKept
<1>9. AcceptedKept'
  BY <1>2, <1>5, <1>8 DEF AcceptedKept
<1> QED BY <1>4, <1>6, <1>9 DEF HostInv

\* The handlers' own variables keep their types.
LEMMA NextKeepsHostType ==
    ASSUME HostTypeOK, [Next]_vars
    PROVE  HostTypeOK'
<1>1. ASSUME NEW t \in Tools, Request(t) \/ Issue(t) \/ Resume(t)
      PROVE  HostTypeOK'
  <2>1. /\ UNCHANGED <<lifeVars, step>>
        /\ \E s \in ToolStates : tool' = [tool EXCEPT ![t] = s]
    BY <1>1 DEF Request, Issue, Resume, ToolStates
  <2> QED BY <2>1 DEF HostTypeOK, lifeVars
<1>2. ASSUME NEW t \in Tools, Settle(t)
      PROVE  HostTypeOK'
  <2>1. /\ UNCHANGED lifeVars
        /\ \E s \in ToolStates : tool' = [tool EXCEPT ![t] = s]
        /\ \/ UNCHANGED step
           \/ step[t] < Len(Script[t]) /\ step' = [step EXCEPT ![t] = @ + 1]
    BY <1>2 DEF Settle, ToolStates
  <2>2. Len(Script[t]) \in Nat
    BY ScriptAssumption
  <2>3. /\ step' \in [Tools -> Nat \ {0}]
        /\ \A u \in Tools : step'[u] <= Len(Script[u])
    BY <2>1, <2>2 DEF HostTypeOK
  <2> QED BY <2>1, <2>3 DEF HostTypeOK, lifeVars
<1>3. ASSUME NEW c \in Calls, Enter(c) \/ ChildExit(c) \/ SpawnAgain(c)
      PROVE  HostTypeOK'
  BY <1>3 DEF Enter, ChildExit, SpawnAgain, lifeVars, HostTypeOK
<1>4. CASE Signal \/ DrainPoll \/ DrainDeadline \/ Reaped \/ KillSurvivors
  BY <1>4 DEF Signal, DrainPoll, DrainDeadline, Reaped, KillSurvivors, StartCleanup, hostVars,
     HostTypeOK, ServerStates
<1>5. CASE UNCHANGED vars
  BY <1>5 DEF vars, hostVars, lifeVars, HostTypeOK
<1> QED BY <1>1, <1>2, <1>3, <1>4, <1>5 DEF Next

\* No step of the server, the handlers or the children breaks HostInv.
LEMMA NextKeepsHostInv ==
    ASSUME HostInv, GatesIInv, [Next]_vars
    PROVE  HostInv'
<1>1. [GatesNext]_gateVars
  BY StepIsGateStep DEF HostInv
<1>2. HostTypeOK'
  BY NextKeepsHostType DEF HostInv
<1>3. ASSUME NEW t \in Tools, Request(t) \/ Issue(t) \/ Settle(t) \/ Resume(t)
      PROVE  Up /\ UNCHANGED <<doomed, lifeVars>>
  BY <1>3 DEF Request, Issue, Settle, Resume
<1>4. ASSUME NEW c \in Calls, Enter(c) \/ ChildExit(c) \/ SpawnAgain(c)
      PROVE  Up /\ UNCHANGED <<doomed, lifeVars>>
  BY <1>4 DEF Enter, ChildExit, SpawnAgain
<1>5. CASE Up /\ UNCHANGED <<doomed, lifeVars>>
  BY <1>1, <1>2, <1>5, ServingKeepsHostInv
<1>6. CASE Signal \/ DrainPoll \/ DrainDeadline \/ Reaped \/ KillSurvivors
  BY <1>6, ShutdownKeepsHostInv
<1>7. CASE UNCHANGED vars
  <2>1. UNCHANGED <<tool, step, child, doomed, server, graceOver, accepted>> /\ UNCHANGED gateVars
    BY <1>7 DEF vars, hostVars, lifeVars
  <2>2. \A c \in Calls : Phase(c)' = Phase(c) /\ (Taken(c)' <=> Taken(c))
    BY <2>1 DEF Phase, Taken, gateVars, poolVars, jxaVars, omniVars
  <2> QED BY <2>1, <2>2 DEF HostInv, HostTypeOK, OrphansKilled, NoOrphan, Active, Up, AcceptedKept
<1> QED BY <1>3, <1>4, <1>5, <1>6, <1>7 DEF Next

-----------------------------------------------------------------------------
\* Theorems

\* The handlers are at one of their calls, so the gates see only their own steps.
LEMMA HandlersStay == Spec => []HostTypeOK
<1>1. Init => HostTypeOK
  BY InitHostInv DEF HostInv
<1>2. HostTypeOK /\ [Next]_vars => HostTypeOK'
  BY NextKeepsHostType
<1> QED BY <1>1, <1>2, PTL DEF Spec

\* The gates keep their shape under the handlers and the shutdown sequence.
LEMMA GatesKeepShape == Spec => []GatesIInv
<1>1. Init => Pool!Init /\ JxaP!Init /\ OmniP!Init
  BY DEF Init, GatesInit, Pool!Init, Jxa!Init, JxaP!Init, Omni!Init, OmniP!Init
<1>2. HostTypeOK /\ [Next]_vars => /\ [Pool!Next]_(Pool!vars)
                                   /\ [JxaP!Next]_(JxaP!vars)
                                   /\ [OmniP!Next]_(OmniP!vars)
  BY StepIsGateStep, StepPerGate
<1>3. Spec => PoolSpec /\ JxaP!SafetySpec /\ OmniP!SafetySpec
  BY <1>1, <1>2, HandlersStay, PTL
     DEF Spec, PoolSpec, JxaP!SafetySpec, OmniP!SafetySpec
<1> QED BY <1>3, Sizes, PoolSafety, JxaP!Safety, OmniP!Safety, PTL DEF GatesIInv

\* The server's own invariant.
LEMMA HostInvHolds == Spec => []HostInv
<1>1. Init => HostInv
  BY InitHostInv
<1>2. HostInv /\ GatesIInv /\ [Next]_vars => HostInv'
  BY NextKeepsHostInv
<1> QED BY <1>1, <1>2, GatesKeepShape, PTL DEF Spec

\* killActiveChildren() leaves no osascript behind that was not sent SIGKILL,
\* whatever the freed gates and the retries spawn meanwhile.
THEOREM NoOrphanEver == Spec => []NoOrphan
<1>1. HostInv => NoOrphan
  BY DEF HostInv, OrphansKilled
<1> QED BY <1>1, HostInvHolds, PTL

\* initiate() exits before its deadline only when everything the gates had
\* accepted was answered.
THEOREM AcceptedWorkIsDrained == Spec => []AcceptedWorkDrained
<1>1. HostInv => AcceptedWorkDrained
  BY DEF HostInv, AcceptedKept, AcceptedWorkDrained
<1> QED BY <1>1, HostInvHolds, PTL
=============================================================================
