------------------------ MODULE KeyedMutationProofs -------------------------
(***************************************************************************)
(* A script that writes runs at most once, for any scripts, keys, caps and *)
(* thresholds, over any spawner that keeps the promise of Spawner.         *)
(*                                                                         *)
(* The argument is about the runner alone: only a read-only script is ever *)
(* given a second attempt, an attempt runs at most once, and the two       *)
(* outcomes that say "never sent" are read off an attempt that was not     *)
(* made or could not start.  The idempotency store decides when a script   *)
(* starts and touches none of this.                                        *)
(*                                                                         *)
(* What the store adds is the last part: of one key a single invocation    *)
(* executes at a time, and afterwards its envelope, until it expires or is *)
(* evicted, keeps everyone else from executing.                            *)
(***************************************************************************)
EXTENDS KeyedMutation, TLAPS

Phases == {"idle", "first", "backoff", "second", "probe", "over"}

SeamTypeOK ==
    /\ asked \subseteq Attempts
    /\ ran \in [Attempts -> {0, 1}]
    /\ result \in [Attempts -> Seam!Results \cup {"none"}]

\* What the spawner has said of an attempt is true.
AnswersTrue ==
    \A a \in Attempts :
        /\ a \notin asked => ran[a] = 0 /\ result[a] = "none"
        /\ result[a] = "unavailable" => ran[a] = 0
        /\ result[a] = "ok" => ran[a] = 1

StepsTypeOK ==
    /\ phase \in [Scripts -> Phases]
    /\ outcome \in [Scripts -> Outcomes \cup {"none"}]
    /\ \A s \in Scripts : outcome[s] # "none" => phase[s] = "over"

\* A second attempt is for a read-only script; a writing script that has not
\* started, or was refused, has made none.
AttemptsOf ==
    \A s \in Scripts \ ReadOnly :
        /\ phase[s] \notin {"backoff", "second"}
        /\ <<s, 2>> \notin asked
        /\ phase[s] = "idle" \/ outcome[s] = "refused" => <<s, 1>> \notin asked

\* The outcome of a writing script is the result of its one attempt.
OutcomeTold ==
    \A s \in Scripts \ ReadOnly :
        outcome[s] \in {"ok", "unavailable"} => result[<<s, 1>>] = outcome[s]

RunnerInv == SeamTypeOK /\ AnswersTrue /\ StepsTypeOK /\ AttemptsOf /\ OutcomeTold

LEMMA InitRunnerInv == Init => RunnerInv
BY DEF Init, RunnerInit, RunnerInv, SeamTypeOK, AnswersTrue, StepsTypeOK, AttemptsOf,
       OutcomeTold, Seam!Init, Attempts, Phases

\* The invariant implies what is promised.
LEMMA RunnerInvGivesOnce == RunnerInv => WritesRunOnce
<1> SUFFICES ASSUME RunnerInv, NEW s \in Scripts \ ReadOnly
             PROVE  /\ Executions(s) <= 1
                    /\ outcome[s] \in {"refused", "unavailable"} => Executions(s) = 0
                    /\ outcome[s] = "ok" => Executions(s) = 1
  BY DEF WritesRunOnce
<1>1. <<s, 1>> \in Attempts /\ <<s, 2>> \in Attempts
  BY DEF Attempts
<1>2. ran[<<s, 1>>] \in {0, 1} /\ ran[<<s, 2>>] = 0
  BY <1>1 DEF RunnerInv, SeamTypeOK, AnswersTrue, AttemptsOf
<1>3. outcome[s] = "refused" => ran[<<s, 1>>] = 0
  BY <1>1 DEF RunnerInv, AnswersTrue, AttemptsOf
<1>4. outcome[s] = "unavailable" => ran[<<s, 1>>] = 0
  BY <1>1 DEF RunnerInv, AnswersTrue, OutcomeTold
<1>5. outcome[s] = "ok" => ran[<<s, 1>>] = 1
  BY <1>1 DEF RunnerInv, AnswersTrue, OutcomeTold
<1> QED BY <1>2, <1>3, <1>4, <1>5 DEF Executions

-----------------------------------------------------------------------------
\* One lemma per kind of step.

LEMMA RefuseKeepsInv ==
    ASSUME RunnerInv, NEW s \in Scripts, Refuse(s)
    PROVE  RunnerInv'
BY DEF RunnerInv, SeamTypeOK, AnswersTrue, StepsTypeOK, AttemptsOf, OutcomeTold, Refuse,
       Goto, seamVars, Phases, Outcomes

LEMMA StartKeepsInv ==
    ASSUME RunnerInv, NEW s \in Scripts, Start(s)
    PROVE  RunnerInv'
<1> <<s, 1>> \in Attempts
  BY DEF Attempts
<1>1. SeamTypeOK' /\ AnswersTrue'
  BY DEF RunnerInv, SeamTypeOK, AnswersTrue, Start, Seam!Ask
<1>2. StepsTypeOK' /\ OutcomeTold'
  BY DEF RunnerInv, StepsTypeOK, OutcomeTold, Start, Seam!Ask, Goto, Phases
<1>3. AttemptsOf'
  <2> SUFFICES ASSUME NEW t \in Scripts \ ReadOnly
               PROVE  /\ phase'[t] \notin {"backoff", "second"}
                      /\ <<t, 2>> \notin asked'
                      /\ phase'[t] = "idle" \/ outcome'[t] = "refused" => <<t, 1>> \notin asked'
    BY DEF AttemptsOf
  <2>1. /\ phase' = [phase EXCEPT ![s] = "first"] /\ phase[s] = "idle"
        /\ asked' = asked \cup {<<s, 1>>} /\ outcome' = outcome
    BY DEF Start, Goto, Seam!Ask
  <2>2. <<t, 2>> # <<s, 1>> /\ (t # s => <<t, 1>> # <<s, 1>>)
    OBVIOUS
  <2>3. outcome[s] # "refused"
    BY <2>1 DEF RunnerInv, StepsTypeOK
  <2>4. phase'[t] = IF t = s THEN "first" ELSE phase[t]
    BY <2>1 DEF RunnerInv, StepsTypeOK
  <2> QED BY <2>1, <2>2, <2>3, <2>4 DEF RunnerInv, AttemptsOf
<1> QED BY <1>1, <1>2, <1>3 DEF RunnerInv

\* The script ends; what it tells of a write is the result of its attempt.
LEMMA EndKeepsInv ==
    ASSUME RunnerInv, NEW s \in Scripts, phase[s] # "idle",
           NEW kind \in Outcomes \ {"refused"}, End(s, kind),
           s \notin ReadOnly /\ kind \in {"ok", "unavailable"} => result[<<s, 1>>] = kind
    PROVE  RunnerInv'
BY DEF RunnerInv, SeamTypeOK, AnswersTrue, StepsTypeOK, AttemptsOf, OutcomeTold, End,
       Goto, seamVars, Phases, Outcomes

\* Only the phase of a script moves, not to the start nor to a retry it may not have.
LEMMA MoveKeepsInv ==
    ASSUME RunnerInv, NEW s \in Scripts, NEW p \in Phases \ {"idle"}, Goto(s, p),
           phase[s] \notin {"idle", "over"}, UNCHANGED <<seamVars, outcome>>,
           p \in {"backoff", "second"} => s \in ReadOnly
    PROVE  RunnerInv'
BY DEF RunnerInv, SeamTypeOK, AnswersTrue, StepsTypeOK, AttemptsOf, OutcomeTold,
       Goto, seamVars, Phases

LEMMA ConcludeKeepsInv ==
    ASSUME RunnerInv, NEW s \in Scripts, NEW r, NEW stderr \in Stderrs,
           phase[s] \in {"first", "second"}, s \notin ReadOnly => r = result[<<s, 1>>],
           Conclude(s, r, stderr)
    PROVE  RunnerInv'
<1>1. CASE Goto(s, "probe") /\ UNCHANGED <<seamVars, outcome, circuitVars>>
  BY <1>1, MoveKeepsInv DEF Phases
<1>2. CASE r \in {"ok", "restarted", "unavailable"} /\ End(s, r)
  BY <1>2, EndKeepsInv DEF Outcomes
<1>3. CASE End(s, Classified(stderr))
  BY <1>3, EndKeepsInv DEF Outcomes, Classified
<1> QED BY <1>1, <1>2, <1>3 DEF Conclude

LEMMA ProceedKeepsInv ==
    ASSUME RunnerInv, NEW s \in Scripts, Proceed(s)
    PROVE  RunnerInv'
<1>1. CASE HearFirst(s)
  <2>1. PICK stderr \in Stderrs :
            IF Retries(s, result[<<s, 1>>], stderr)
            THEN Goto(s, "backoff") /\ UNCHANGED <<seamVars, outcome, circuitVars>>
            ELSE Conclude(s, result[<<s, 1>>], stderr)
    BY <1>1 DEF HearFirst
  <2>2. CASE Retries(s, result[<<s, 1>>], stderr)
    BY <1>1, <2>1, <2>2, MoveKeepsInv DEF HearFirst, Retries, Phases
  <2>3. CASE ~Retries(s, result[<<s, 1>>], stderr)
    <3>1. Conclude(s, result[<<s, 1>>], stderr) /\ phase[s] = "first"
      BY <1>1, <2>1, <2>3 DEF HearFirst
    <3> QED BY <3>1, ConcludeKeepsInv
  <2> QED BY <2>2, <2>3
<1>2. CASE Again(s)
  <2>1. s \in ReadOnly
    BY <1>2 DEF Again, RunnerInv, AttemptsOf
  <2>2. <<s, 2>> \in Attempts
    BY DEF Attempts
  <2>3. SeamTypeOK' /\ AnswersTrue'
    BY <1>2, <2>2 DEF RunnerInv, SeamTypeOK, AnswersTrue, Again, Seam!Ask
  <2>4. StepsTypeOK' /\ OutcomeTold'
    BY <1>2 DEF RunnerInv, StepsTypeOK, OutcomeTold, Again, Seam!Ask, Goto, Phases
  <2>5. AttemptsOf'
    BY <1>2, <2>1 DEF RunnerInv, StepsTypeOK, AttemptsOf, Again, Seam!Ask, Goto
  <2> QED BY <2>3, <2>4, <2>5 DEF RunnerInv
<1>3. CASE HearSecond(s)
  <2>1. s \in ReadOnly
    BY <1>3 DEF HearSecond, RunnerInv, AttemptsOf
  <2> QED BY <1>3, <2>1, ConcludeKeepsInv DEF HearSecond
<1>4. CASE Probe(s)
  BY <1>4, EndKeepsInv DEF Probe, Outcomes
<1> QED BY <1>1, <1>2, <1>3, <1>4 DEF Proceed

\* The spawner runs an attempt, or answers it.
LEMMA SpawnerKeepsInv ==
    ASSUME RunnerInv, NEW a \in Attempts, Run(a) \/ Answer(a)
    PROVE  RunnerInv'
<1>1. CASE Run(a)
  <2>1. SeamTypeOK' /\ AnswersTrue'
    BY <1>1 DEF RunnerInv, SeamTypeOK, AnswersTrue, Run, Seam!Run
  <2>2. StepsTypeOK' /\ AttemptsOf' /\ OutcomeTold'
    BY <1>1 DEF RunnerInv, StepsTypeOK, AttemptsOf, OutcomeTold, Run, Seam!Run
  <2> QED BY <2>1, <2>2 DEF RunnerInv
<1>2. CASE Answer(a)
  <2>1. PICK kind \in Seam!Results : Seam!Answer(a, kind)
    BY <1>2 DEF Answer, ResultsFor
  <2>2. SeamTypeOK' /\ AnswersTrue'
    BY <2>1 DEF RunnerInv, SeamTypeOK, AnswersTrue, Seam!Answer, Seam!Results,
       Seam!Responses, Seam!Losses
  <2>3. StepsTypeOK' /\ AttemptsOf'
    BY <1>2, <2>1 DEF RunnerInv, StepsTypeOK, AttemptsOf, Answer, Seam!Answer
  <2>4. OutcomeTold'
    BY <1>2, <2>1 DEF RunnerInv, SeamTypeOK, OutcomeTold, Answer, Seam!Answer
  <2> QED BY <2>2, <2>3, <2>4 DEF RunnerInv
<1> QED BY <1>1, <1>2

LEMMA StutterKeepsInv ==
    ASSUME RunnerInv, UNCHANGED <<seamVars, phase, outcome>>
    PROVE  RunnerInv'
BY DEF RunnerInv, SeamTypeOK, AnswersTrue, StepsTypeOK, AttemptsOf, OutcomeTold, seamVars

LEMMA StepKeepsInv == RunnerInv /\ [Next]_vars => RunnerInv'
<1> SUFFICES ASSUME RunnerInv, [Next]_vars
             PROVE  RunnerInv'
  OBVIOUS
<1>1. CASE UNCHANGED <<seamVars, phase, outcome>>
  BY <1>1, StutterKeepsInv
<1>2. ASSUME NEW i \in Invocations, Replay(i) \/ Join(i) \/ Execute(i) \/ Publish(i)
      PROVE  RunnerInv'
  <2>1. i \in Scripts
    BY KeyedAssumption
  <2>2. CASE Execute(i)
    BY <2>1, <2>2, StartKeepsInv, RefuseKeepsInv DEF Execute
  <2>3. CASE UNCHANGED runnerVars
    BY <2>3, <1>1 DEF runnerVars
  <2> QED BY <1>2, <2>2, <2>3 DEF Replay, Join, Publish
<1>3. CASE Expire
  BY <1>3, <1>1 DEF Expire, runnerVars
<1>4. ASSUME NEW s \in Scripts, Read(s)
      PROVE  RunnerInv'
  BY <1>4, StartKeepsInv, RefuseKeepsInv DEF Read
<1>5. CASE RunnerNext
  BY <1>5, <1>1, ProceedKeepsInv, SpawnerKeepsInv DEF RunnerNext, Rest
<1>6. CASE UNCHANGED vars
  BY <1>6, <1>1 DEF vars, runnerVars
<1> QED BY <1>2, <1>3, <1>4, <1>5, <1>6 DEF Next

-----------------------------------------------------------------------------

\* A script that writes is executed at most once whatever times out, restarts
\* or is retried, and never when its error says it was not sent
\* (runJxaScript, runOmniJsScript under withIdempotencyKey).
THEOREM WritesAlwaysRunOnce == Spec => []WritesRunOnce
BY InitRunnerInv, StepKeepsInv, RunnerInvGivesOnce, PTL DEF Spec

-----------------------------------------------------------------------------
\* The circuits.  What a circuit counts never exceeds the transient failures
\* since the last success, because a success resets both and every failure
\* that is counted is one.

CircuitInv ==
    /\ circuit \in [Transports -> {"closed", "open", "half-open"}]
    /\ failureCount \in [Transports -> Nat]
    /\ sick \in [Transports -> Nat]
    /\ \A x \in Transports : failureCount[x] <= sick[x]

OpensOnlyWhenSick ==
    \A x \in Transports : circuit[x] = "closed" /\ circuit'[x] = "open" => sick'[x] >= Threshold

LEMMA InitCircuitInv == Init => CircuitInv
BY DEF Init, RunnerInit, CircuitInv

LEMMA EndIsSound ==
    ASSUME CircuitInv, NEW s \in Scripts, NEW kind, End(s, kind)
    PROVE  CircuitInv' /\ OpensOnlyWhenSick
<1> DEFINE x == TransportOf(s)
<1>0. x \in Transports
  BY DEF TransportOf, Transports
<1>1. CASE kind = "ok"
  <2>1. /\ circuit' = [circuit EXCEPT ![x] = IF @ = "half-open" THEN "closed" ELSE @]
        /\ failureCount' = [failureCount EXCEPT ![x] = 0]
        /\ sick' = [sick EXCEPT ![x] = 0]
    BY <1>1 DEF End, Record, RecordSuccess, Transient
  <2> HIDE DEF x
  <2> QED BY <1>0, <2>1 DEF CircuitInv, OpensOnlyWhenSick
<1>2. CASE Transient(kind)
  <2>1. /\ sick' = [sick EXCEPT ![x] = @ + 1]
        /\ failureCount' = [failureCount EXCEPT ![x] =
                               IF circuit[x] = "half-open" THEN @ ELSE @ + 1]
        /\ IF circuit[x] = "half-open" \/ failureCount'[x] >= Threshold
           THEN circuit' = [circuit EXCEPT ![x] = "open"]
           ELSE circuit' = circuit
    BY <1>2 DEF End, Record, RecordTransient, Transient
  <2> HIDE DEF x
  <2>2. CircuitInv'
    BY <1>0, <2>1 DEF CircuitInv
  <2>3. OpensOnlyWhenSick
    BY <1>0, <2>1, RunnerAssumption DEF CircuitInv, OpensOnlyWhenSick
  <2> QED BY <2>2, <2>3
<1>3. CASE kind # "ok" /\ ~Transient(kind)
  <2>1. UNCHANGED <<circuit, failureCount>> /\ sick' = [sick EXCEPT ![x] = @]
    BY <1>3 DEF End, Record
  <2> HIDE DEF x
  <2> QED BY <1>0, <2>1 DEF CircuitInv, OpensOnlyWhenSick
<1> QED BY <1>1, <1>2, <1>3

LEMMA StartIsSound ==
    ASSUME CircuitInv, NEW s \in Scripts, Start(s)
    PROVE  CircuitInv' /\ OpensOnlyWhenSick
<1> DEFINE x == TransportOf(s)
<1>1. x \in Transports
  BY DEF TransportOf, Transports
<1>2. /\ circuit' = [circuit EXCEPT ![x] = IF @ = "open" THEN "half-open" ELSE @]
      /\ UNCHANGED <<failureCount, sick>>
  BY DEF Start
<1> HIDE DEF x
<1> QED BY <1>1, <1>2 DEF CircuitInv, OpensOnlyWhenSick

\* A step that leaves the states and the counts alone (time passing included).
LEMMA QuietIsSound ==
    ASSUME CircuitInv, UNCHANGED <<circuit, failureCount, sick>>
    PROVE  CircuitInv' /\ OpensOnlyWhenSick
BY DEF CircuitInv, OpensOnlyWhenSick

LEMMA ProceedIsSound ==
    ASSUME CircuitInv, NEW s \in Scripts, Proceed(s)
    PROVE  CircuitInv' /\ OpensOnlyWhenSick
<1>1. CASE UNCHANGED circuitVars
  BY <1>1, QuietIsSound DEF circuitVars
<1>2. ASSUME NEW r, NEW stderr, Conclude(s, r, stderr)
      PROVE  CircuitInv' /\ OpensOnlyWhenSick
  BY <1>1, <1>2, EndIsSound DEF Conclude
<1>3. CASE HearFirst(s)
  BY <1>1, <1>2, <1>3 DEF HearFirst
<1>4. CASE HearSecond(s)
  BY <1>2, <1>4 DEF HearSecond
<1> QED BY <1>1, <1>3, <1>4, EndIsSound DEF Proceed, Again, Probe

LEMMA StepIsSound ==
    ASSUME CircuitInv, [Next]_vars
    PROVE  CircuitInv' /\ OpensOnlyWhenSick
<1>1. CASE UNCHANGED <<circuit, failureCount, sick>>
  BY <1>1, QuietIsSound
<1>2. ASSUME NEW i \in Invocations, Replay(i) \/ Join(i) \/ Execute(i) \/ Publish(i)
      PROVE  CircuitInv' /\ OpensOnlyWhenSick
  <2>1. i \in Scripts
    BY KeyedAssumption
  <2>2. CASE Execute(i)
    BY <1>1, <2>1, <2>2, StartIsSound DEF Execute, Refuse, circuitVars
  <2>3. CASE UNCHANGED runnerVars
    BY <2>3, <1>1 DEF runnerVars, circuitVars
  <2> QED BY <1>2, <2>2, <2>3 DEF Replay, Join, Publish
<1>3. CASE Expire
  BY <1>3, <1>1 DEF Expire, runnerVars, circuitVars
<1>4. ASSUME NEW s \in Scripts, Read(s)
      PROVE  CircuitInv' /\ OpensOnlyWhenSick
  BY <1>1, <1>4, StartIsSound DEF Read, Refuse, circuitVars
<1>5. CASE RunnerNext
  BY <1>5, <1>1, ProceedIsSound DEF RunnerNext, Rest, Run, Answer, circuitVars
<1>6. CASE UNCHANGED vars
  BY <1>6, <1>1 DEF vars, runnerVars, circuitVars
<1> QED BY <1>2, <1>3, <1>4, <1>5, <1>6 DEF Next

\* A closed circuit opens on nothing but Threshold transient failures of its
\* own transport with no success between them (TransportCircuit.recordFailure).
THEOREM CircuitsOpenOnlyWhenSick == Spec => CircuitOpensWhenSick
<1>1. CircuitInv /\ [Next]_vars => CircuitInv' /\ [OpensOnlyWhenSick]_runnerVars
  BY StepIsSound
<1>2. Spec => [][OpensOnlyWhenSick]_runnerVars
  BY <1>1, InitCircuitInv, PTL DEF Spec
<1> QED BY <1>2 DEF CircuitOpensWhenSick, OpensOnlyWhenSick

-----------------------------------------------------------------------------
\* The idempotency store

Entry == [key : Keys, by : Invocations, expired : BOOLEAN]

\* What a list of entries holds, wherever it stands.
Held(list) == {list[n] : n \in 1..Len(list)}

OnePerKey(list) == \A m, n \in 1..Len(list) : list[m].key = list[n].key => m = n

StoreTypes ==
    /\ entries \in Seq(Entry) /\ Len(entries) <= MaxEntries
    /\ OnePerKey(entries)
    /\ inFlight \subseteq Invocations
    /\ joined \in [Invocations -> Invocations \cup {"none"}]
    /\ \A i \in Invocations : joined[i] # "none" => joined[i] \in inFlight

\* An entry is about the key of who made it, and its key has no promise.
EntriesTrue ==
    \A e \in Held(entries) :
        /\ e.key = KeyOf[e.by]
        /\ e.expired => e.by \in lost
        /\ \A i \in inFlight : KeyOf[i] # e.key

\* An invocation that has executed holds the key by its promise, or by its
\* envelope, or has failed, or its envelope is gone.
KeysHeld ==
    /\ \A i, j \in inFlight : KeyOf[i] = KeyOf[j] => i = j
    /\ \A i \in inFlight : phase[i] # "idle"
    /\ \A i \in Invocations \ inFlight :
          /\ phase[i] \in {"idle", "over"}
          /\ phase[i] = "over" /\ outcome[i] = "ok" /\ i \notin lost =>
                \E e \in Held(entries) : e.by = i

StoreInv == StoreTypes /\ EntriesTrue /\ KeysHeld

LEMMA InitStoreInv == Init => StoreInv
BY KeyedAssumption
   DEF Init, RunnerInit, StoreInv, StoreTypes, EntriesTrue, KeysHeld, Held, OnePerKey

LEMMA StoreGivesOnePerKey ==
    ASSUME RunnerInv, StoreInv
    PROVE  OneExecutionPerKey
<1> SUFFICES ASSUME NEW i \in Invocations, NEW j \in Invocations,
                    i # j, KeyOf[i] = KeyOf[j], phase[i] # "idle", phase[j] # "idle"
             PROVE  \E x \in {i, j} : x \notin inFlight /\ (x \in lost \/ outcome[x] # "ok")
  BY Zenon DEF OneExecutionPerKey
<1>1. ASSUME NEW x \in Invocations, NEW y \in Invocations,
             x # y, KeyOf[x] = KeyOf[y], phase[x] # "idle",
             y \in inFlight \/ \E e \in Held(entries) : e.by = y
      PROVE  x \notin inFlight => x \in lost \/ outcome[x] # "ok"
  <2> SUFFICES ASSUME x \notin inFlight, x \notin lost, outcome[x] = "ok"
               PROVE  FALSE
    OBVIOUS
  <2>1. PICK e \in Held(entries) : e.by = x
    BY <1>1 DEF StoreInv, KeysHeld
  <2>2. e.key = KeyOf[y]
    BY <1>1, <2>1 DEF StoreInv, EntriesTrue
  <2>3. y \notin inFlight
    BY <2>1, <2>2 DEF StoreInv, EntriesTrue
  <2>4. PICK f \in Held(entries) : f.by = y
    BY <1>1, <2>3
  <2>5. f.key = e.key
    BY <2>2, <2>4 DEF StoreInv, EntriesTrue
  <2>6. e = f
    BY <2>5 DEF StoreInv, StoreTypes, OnePerKey, Held
  <2> QED
    BY <1>1, <2>1, <2>4, <2>6
<1>2. CASE i \in inFlight
  BY <1>1, <1>2 DEF StoreInv, KeysHeld
<1>3. CASE i \notin inFlight /\ (i \in lost \/ outcome[i] # "ok")
  BY <1>3
<1>4. CASE i \notin inFlight /\ i \notin lost /\ outcome[i] = "ok"
  <2>1. \E e \in Held(entries) : e.by = i
    BY <1>4 DEF StoreInv, KeysHeld
  <2>2. j \notin inFlight => j \in lost \/ outcome[j] # "ok"
    BY <1>1, <2>1
  <2>3. j \notin inFlight
    BY <2>1 DEF StoreInv, EntriesTrue
  <2> QED
    BY <2>2, <2>3
<1> QED
  BY <1>2, <1>3, <1>4

\* _entries.delete: the entry of the key is gone, the others stay.
LEMMA WithoutTheKey ==
    ASSUME StoreTypes, NEW k \in Keys
    PROVE  /\ Without(k) \in Seq(Entry) /\ OnePerKey(Without(k))
           /\ Len(Without(k)) <= Len(entries)
           /\ EntryOf(k) # {} => Len(Without(k)) = Len(entries) - 1
           /\ Held(Without(k)) = {e \in Held(entries) : e.key # k}
<1>1. entries \in Seq(Entry) /\ OnePerKey(entries) /\ DOMAIN entries = 1..Len(entries)
  BY DEF StoreTypes
<1>2. CASE EntryOf(k) = {}
  <2>1. Without(k) = entries
    BY <1>2 DEF Without
  <2>2. \A e \in Held(entries) : e.key # k
    BY <1>1, <1>2 DEF EntryOf, Held
  <2> QED
    BY <1>1, <1>2, <2>1, <2>2
<1>3. CASE EntryOf(k) # {}
  <2> DEFINE at == CHOOSE n \in EntryOf(k) : TRUE
             front == SubSeq(entries, 1, at - 1)
             back == SubSeq(entries, at + 1, Len(entries))
             left == front \o back
  <2>1. at \in 1..Len(entries) /\ entries[at].key = k
    BY <1>1, <1>3 DEF EntryOf
  <2> HIDE DEF at
  <2>2. /\ front \in Seq(Entry) /\ Len(front) = at - 1
        /\ \A n \in 1..(at - 1) : front[n] = entries[n]
    BY <1>1, <2>1
  <2>3. /\ back \in Seq(Entry) /\ Len(back) = Len(entries) - at
        /\ \A n \in 1..(Len(entries) - at) : back[n] = entries[n + at]
    <3>1. at \in 1..Len(entries) /\ entries \in Seq(Entry)
      BY <1>1, <2>1
    <3>2. back \in Seq(Entry) /\ Len(back) = Len(entries) - at
      BY <3>1
    <3>3. ASSUME NEW n \in 1..(Len(entries) - at) PROVE back[n] = entries[n + at]
      BY <1>1, <2>1
    <3> QED
      BY <3>2, <3>3
  <2> HIDE DEF front, back
  <2>4. /\ left \in Seq(Entry) /\ Len(left) = Len(entries) - 1
        /\ \A n \in 1..Len(left) : left[n] = IF n < at THEN front[n] ELSE back[n - (at - 1)]
    <3>1. left \in Seq(Entry) /\ Len(left) = Len(front) + Len(back)
      BY <2>2, <2>3
    <3>2. Len(left) = Len(entries) - 1
      BY <1>1, <2>1, <2>2, <2>3, <3>1
    <3>3. ASSUME NEW n \in 1..Len(left)
          PROVE  left[n] = IF n <= Len(front) THEN front[n] ELSE back[n - Len(front)]
      <4>1. front \in Seq(Entry) /\ back \in Seq(Entry) /\ n \in 1..(Len(front) + Len(back))
        BY <2>2, <2>3, <3>1
      <4> HIDE DEF Entry
      <4> QED
        BY <4>1
    <3>4. ASSUME NEW n \in 1..Len(left)
          PROVE  left[n] = IF n < at THEN front[n] ELSE back[n - (at - 1)]
      <4>1. n <= Len(front) <=> n < at
        BY <1>1, <2>1, <2>2, <3>2
      <4> QED
        BY <2>2, <3>3, <4>1
    <3> QED
      BY <3>1, <3>2, <3>4
  <2>5. Without(k) = left
    BY <1>3 DEF Without, left, front, back, at
  <2> HIDE DEF left
  <2>6. ASSUME NEW n \in 1..Len(left)
        PROVE  left[n] = entries[IF n < at THEN n ELSE n + 1]
    <3>1. CASE n < at
      BY <1>1, <2>1, <2>2, <2>4, <3>1
    <3>2. CASE ~(n < at)
      <4>1. n - (at - 1) \in 1..(Len(entries) - at) /\ (n - (at - 1)) + at = n + 1
        BY <1>1, <2>1, <2>4, <3>2
      <4> QED
        BY <2>3, <2>4, <3>2, <4>1
    <3> QED
      BY <3>1, <3>2
  <2> DEFINE from(n) == IF n < at THEN n ELSE n + 1
  <2>7. ASSUME NEW n \in 1..Len(left)
        PROVE  from(n) \in 1..Len(entries) /\ from(n) # at /\ left[n] = entries[from(n)]
    BY <1>1, <2>1, <2>4, <2>6
  <2>8. OnePerKey(left)
    <3> SUFFICES ASSUME NEW m \in 1..Len(left), NEW n \in 1..Len(left),
                        left[m].key = left[n].key
                 PROVE  m = n
      BY DEF OnePerKey
    <3> HIDE DEF from
    <3>1. from(m) = from(n)
      BY <1>1, <2>7 DEF OnePerKey
    <3> QED
      BY <2>1, <2>4, <3>1 DEF from
  <2>9. ASSUME NEW e \in Held(left) PROVE e \in Held(entries) /\ e.key # k
    <3>1. PICK n \in 1..Len(left) : e = left[n]
      BY <2>9 DEF Held
    <3> HIDE DEF from
    <3>2. e = entries[from(n)] /\ from(n) \in 1..Len(entries) /\ from(n) # at
      BY <2>7, <3>1
    <3> QED
      BY <1>1, <2>1, <3>2 DEF OnePerKey, Held
  <2>10. ASSUME NEW e \in Held(entries), e.key # k PROVE e \in Held(left)
    <3>1. PICK n \in 1..Len(entries) : e = entries[n]
      BY <2>10 DEF Held
    <3>2. n # at
      BY <2>1, <2>10, <3>1
    <3> DEFINE m == IF n < at THEN n ELSE n - 1
    <3>3. m \in 1..Len(left) /\ from(m) = n
      BY <1>1, <2>1, <2>4, <3>2
    <3> HIDE DEF m, from
    <3> QED
      BY <2>7, <3>1, <3>3 DEF Held
  <2>11. Held(left) = {e \in Held(entries) : e.key # k}
    BY <2>9, <2>10
  <2>12. Len(left) <= Len(entries)
    BY <1>1, <2>1, <2>4
  <2> HIDE DEF from
  <2> QED
    BY <2>4, <2>5, <2>8, <2>11, <2>12
<1> QED
  BY <1>2, <1>3

\* _entries.set of a key that is not there: the entry joins at the end.
LEMMA JoinsAtTheEnd ==
    ASSUME NEW list \in Seq(Entry), OnePerKey(list), NEW e \in Entry,
           \A f \in Held(list) : f.key # e.key
    PROVE  /\ Append(list, e) \in Seq(Entry) /\ OnePerKey(Append(list, e))
           /\ Len(Append(list, e)) = Len(list) + 1
           /\ Held(Append(list, e)) = Held(list) \cup {e}
<1> DEFINE more == Append(list, e)
<1>1. /\ more \in Seq(Entry) /\ Len(more) = Len(list) + 1 /\ Len(list) \in Nat
      /\ more[Len(list) + 1] = e
      /\ \A n \in 1..Len(list) : more[n] = list[n]
  OBVIOUS
<1> HIDE DEF more
<1>2. OnePerKey(more)
  <2> SUFFICES ASSUME NEW m \in 1..Len(more), NEW n \in 1..Len(more),
                      more[m].key = more[n].key
               PROVE  m = n
    BY DEF OnePerKey
  <2>1. \A x \in 1..Len(list) : list[x].key # e.key
    BY DEF Held
  <2>2. CASE m \in 1..Len(list) /\ n \in 1..Len(list)
    BY <1>1, <2>2 DEF OnePerKey
  <2>3. CASE m = Len(list) + 1 /\ n \in 1..Len(list)
    BY <1>1, <2>1, <2>3
  <2>4. CASE n = Len(list) + 1 /\ m \in 1..Len(list)
    BY <1>1, <2>1, <2>4
  <2> QED
    BY <1>1, <2>2, <2>3, <2>4
<1>3. Held(more) = Held(list) \cup {e}
  <2>1. 1..Len(more) = (1..Len(list)) \cup {Len(list) + 1}
    BY <1>1
  <2> QED
    BY <1>1, <2>1 DEF Held
<1> QED
  BY <1>1, <1>2, <1>3 DEF more

\* The eviction of the oldest entry.
LEMMA OldestLeaves ==
    ASSUME NEW list \in Seq(Entry), OnePerKey(list), Len(list) > 0
    PROVE  /\ Tail(list) \in Seq(Entry) /\ OnePerKey(Tail(list))
           /\ Len(Tail(list)) = Len(list) - 1
           /\ Held(Tail(list)) \subseteq Held(list)
           /\ Len(list) > 1 => list[Len(list)] \in Held(Tail(list))
<1> DEFINE rest == Tail(list)
<1>1. /\ rest \in Seq(Entry) /\ Len(rest) = Len(list) - 1 /\ Len(list) \in Nat
      /\ \A n \in 1..Len(rest) : rest[n] = list[n + 1] /\ n + 1 \in 1..Len(list)
  OBVIOUS
<1> HIDE DEF rest
<1>2. OnePerKey(rest)
  <2> SUFFICES ASSUME NEW m \in 1..Len(rest), NEW n \in 1..Len(rest),
                      rest[m].key = rest[n].key
               PROVE  m = n
    BY DEF OnePerKey
  <2>1. m + 1 = n + 1
    BY <1>1 DEF OnePerKey
  <2> QED
    BY <2>1
<1>3. Held(rest) \subseteq Held(list)
  BY <1>1 DEF Held
<1>4. ASSUME Len(list) > 1 PROVE list[Len(list)] \in Held(rest)
  <2>1. Len(rest) \in 1..Len(rest) /\ rest[Len(rest)] = list[Len(list)]
    BY <1>1, <1>4
  <2> QED
    BY <2>1 DEF Held
<1> QED
  BY <1>1, <1>2, <1>3, <1>4 DEF rest

\* Nobody executes: the entries may change as the store's own steps let them.
LEMMA OtherEntries ==
    ASSUME StoreInv, UNCHANGED <<phase, outcome, inFlight, joined>>,
           entries' \in Seq(Entry), Len(entries') <= MaxEntries, OnePerKey(entries'),
           lost \subseteq lost',
           \A f \in Held(entries') : \E e \in Held(entries) :
               /\ f.key = e.key /\ f.by = e.by
               /\ f.expired => e.expired \/ f.by \in lost',
           \A e \in Held(entries) : e.by \in lost' \/ \E f \in Held(entries') : f.by = e.by
    PROVE  StoreInv'
<1>1. StoreTypes'
  BY DEF StoreInv, StoreTypes
<1>2. EntriesTrue'
  BY DEF StoreInv, EntriesTrue
<1>3. KeysHeld'
  <2>1. ASSUME NEW i \in Invocations \ inFlight', phase'[i] = "over", outcome'[i] = "ok", i \notin lost'
        PROVE  \E f \in Held(entries') : f.by = i
    <3>1. PICK e \in Held(entries) : e.by = i
      BY <2>1 DEF StoreInv, KeysHeld
    <3> QED
      BY <2>1, <3>1
  <2> QED
    BY <2>1 DEF StoreInv, KeysHeld
<1> QED
  BY <1>1, <1>2, <1>3 DEF StoreInv

\* get() of a live entry: it stands elsewhere.
LEMMA ReplayKeepsStore ==
    ASSUME StoreInv, NEW i \in Invocations, Replay(i)
    PROVE  StoreInv'
<1> DEFINE k == KeyOf[i]
           at == CHOOSE n \in EntryOf(k) : TRUE
           e == entries[at]
<1>1. k \in Keys /\ EntryOf(k) # {}
  BY KeyedAssumption DEF Replay, Live
<1>2. e \in Held(entries) /\ e \in Entry /\ e.key = k
  <2>1. at \in EntryOf(k)
    BY <1>1
  <2> HIDE DEF at
  <2>2. at \in 1..Len(entries) /\ entries[at].key = k /\ entries \in Seq(Entry)
    BY <2>1 DEF StoreInv, StoreTypes, EntryOf
  <2> QED
    BY <2>2 DEF Held
<1>3. entries' = Append(Without(k), e)
  BY DEF Replay, Touched
<1> HIDE DEF k, at, e
<1>4. /\ Without(k) \in Seq(Entry) /\ OnePerKey(Without(k))
      /\ Len(Without(k)) = Len(entries) - 1
      /\ Held(Without(k)) = {f \in Held(entries) : f.key # k}
  BY <1>1, WithoutTheKey DEF StoreInv
<1>5. /\ entries' \in Seq(Entry) /\ OnePerKey(entries')
      /\ Len(entries') = Len(Without(k)) + 1
      /\ Held(entries') = Held(Without(k)) \cup {e}
  BY <1>2, <1>3, <1>4, JoinsAtTheEnd
<1>6. \A f \in Held(entries) : f.key = k => f = e
  BY <1>2 DEF StoreInv, StoreTypes, OnePerKey, Held
<1>7. Held(entries') = Held(entries)
  BY <1>2, <1>4, <1>5, <1>6
<1>8. Len(entries') <= MaxEntries
  BY <1>4, <1>5 DEF StoreInv, StoreTypes
<1>9. UNCHANGED <<phase, outcome, inFlight, joined, lost>>
  BY DEF Replay, runnerVars
<1> QED
  BY <1>5, <1>7, <1>8, <1>9, OtherEntries

\* An entry expires: it keeps its place, and its maker is noted.
LEMMA ExpireKeepsStore ==
    ASSUME StoreInv, Expire
    PROVE  StoreInv'
<1>1. entries \in Seq(Entry) /\ OnePerKey(entries) /\ DOMAIN entries = 1..Len(entries)
  BY DEF StoreInv, StoreTypes
<1>2. PICK n \in 1..Len(entries) :
          /\ entries' = [entries EXCEPT ![n].expired = TRUE]
          /\ lost' = lost \cup {entries[n].by}
  BY <1>1 DEF Expire
<1> DEFINE old == [entries[n] EXCEPT !.expired = TRUE]
<1>3. entries[n] \in Entry /\ old \in Entry /\ old.key = entries[n].key /\ old.by = entries[n].by
  <2>1. entries[n] \in Entry
    BY <1>1
  <2> QED
    BY <2>1 DEF Entry
<1>4. entries' = [entries EXCEPT ![n] = old]
  BY <1>2
<1> HIDE DEF old
<1>5. /\ entries' \in Seq(Entry) /\ Len(entries') = Len(entries)
      /\ entries'[n] = old
      /\ \A m \in 1..Len(entries) : m # n => entries'[m] = entries[m]
  BY <1>1, <1>3, <1>4
<1>6. \A m \in 1..Len(entries) : entries'[m].key = entries[m].key /\ entries'[m].by = entries[m].by
  BY <1>3, <1>5
<1>7. OnePerKey(entries')
  BY <1>1, <1>5, <1>6 DEF OnePerKey
<1>8. ASSUME NEW f \in Held(entries')
      PROVE  \E e \in Held(entries) :
                 /\ f.key = e.key /\ f.by = e.by
                 /\ f.expired => e.expired \/ f.by \in lost'
  <2>1. PICK m \in 1..Len(entries) : f = entries'[m]
    BY <1>5 DEF Held
  <2>2. entries[m] \in Held(entries)
    BY DEF Held
  <2>3. m = n => f.by \in lost'
    BY <1>2, <1>6, <2>1
  <2> QED
    BY <1>5, <1>6, <2>1, <2>2, <2>3
<1>9. ASSUME NEW e \in Held(entries) PROVE \E f \in Held(entries') : f.by = e.by
  <2>1. PICK m \in 1..Len(entries) : e = entries[m]
    BY DEF Held
  <2>2. entries'[m] \in Held(entries')
    BY <1>5 DEF Held
  <2> QED
    BY <1>6, <2>1, <2>2
<1>10. Len(entries') <= MaxEntries
  BY <1>5 DEF StoreInv, StoreTypes
<1>11. lost \subseteq lost' /\ UNCHANGED <<phase, outcome, inFlight, joined>>
  BY <1>2 DEF Expire, runnerVars
<1> QED
  BY <1>5, <1>7, <1>8, <1>9, <1>10, <1>11, OtherEntries

\* get() of a key without a live entry: an expired one is deleted, and whose
\* it was is already lost.
LEMMA MissKeepsEntries ==
    ASSUME StoreInv, NEW i \in Invocations, ~Live(KeyOf[i]), entries' = Without(KeyOf[i])
    PROVE  /\ entries' \in Seq(Entry) /\ Len(entries') <= MaxEntries /\ OnePerKey(entries')
           /\ Held(entries') \subseteq Held(entries)
           /\ \A f \in Held(entries') : f.key # KeyOf[i]
           /\ \A e \in Held(entries) : e.by \in lost \/ e \in Held(entries')
<1> DEFINE k == KeyOf[i]
<1>1. k \in Keys
  BY KeyedAssumption
<1>2. /\ Without(k) \in Seq(Entry) /\ OnePerKey(Without(k))
      /\ Len(Without(k)) <= Len(entries)
      /\ Held(Without(k)) = {e \in Held(entries) : e.key # k}
  BY <1>1, WithoutTheKey DEF StoreInv
<1>3. Len(entries') <= MaxEntries
  <2>1. Len(entries) \in Nat /\ MaxEntries \in Nat /\ Len(entries) <= MaxEntries
    BY KeyedAssumption DEF StoreInv, StoreTypes
  <2>2. Len(Without(k)) \in Nat
    BY <1>2
  <2> QED
    BY <1>2, <2>1, <2>2
<1>4. ASSUME NEW e \in Held(entries), e.key = k PROVE e.by \in lost
  <2>1. PICK n \in 1..Len(entries) : e = entries[n]
    BY DEF Held
  <2>2. n \in EntryOf(k)
    BY <1>4, <2>1 DEF EntryOf, StoreInv, StoreTypes
  <2>3. e.expired
    BY <2>1, <2>2 DEF Live
  <2> QED
    BY <2>3 DEF StoreInv, EntriesTrue
<1> QED
  BY <1>2, <1>3, <1>4

LEMMA JoinKeepsStore ==
    ASSUME StoreInv, NEW i \in Invocations, Join(i)
    PROVE  StoreInv'
<1>1. /\ entries' \in Seq(Entry) /\ Len(entries') <= MaxEntries /\ OnePerKey(entries')
      /\ Held(entries') \subseteq Held(entries)
      /\ \A e \in Held(entries) : e.by \in lost \/ e \in Held(entries')
  BY MissKeepsEntries DEF Join
<1>2. UNCHANGED <<phase, outcome, inFlight, lost>>
  BY DEF Join, runnerVars
<1>3. PICK k \in inFlight : joined' = [joined EXCEPT ![i] = k]
  BY DEF Join, Pending
<1>4. StoreTypes'
  BY <1>1, <1>2, <1>3 DEF StoreInv, StoreTypes
<1>5. EntriesTrue'
  BY <1>1, <1>2 DEF StoreInv, EntriesTrue
<1>6. KeysHeld'
  <2>1. ASSUME NEW j \in Invocations \ inFlight, phase[j] = "over", outcome[j] = "ok", j \notin lost
        PROVE  \E f \in Held(entries') : f.by = j
    <3>1. PICK e \in Held(entries) : e.by = j
      BY <2>1 DEF StoreInv, KeysHeld
    <3> QED
      BY <1>1, <2>1, <3>1
  <2> QED
    BY <1>2, <2>1 DEF StoreInv, KeysHeld
<1> QED
  BY <1>4, <1>5, <1>6 DEF StoreInv

LEMMA ExecuteKeepsStore ==
    ASSUME RunnerInv, StoreInv, NEW i \in Invocations, Execute(i)
    PROVE  StoreInv'
<1>1. /\ entries' \in Seq(Entry) /\ Len(entries') <= MaxEntries /\ OnePerKey(entries')
      /\ Held(entries') \subseteq Held(entries)
      /\ \A f \in Held(entries') : f.key # KeyOf[i]
      /\ \A e \in Held(entries) : e.by \in lost \/ e \in Held(entries')
  BY MissKeepsEntries DEF Execute
<1>2. /\ inFlight' = inFlight \cup {i} /\ UNCHANGED <<joined, lost>>
      /\ \A j \in inFlight : KeyOf[j] # KeyOf[i]
  BY DEF Execute, FirstOf, Pending
<1>3. /\ phase' \in {[phase EXCEPT ![i] = "first"], [phase EXCEPT ![i] = "over"]}
      /\ outcome' \in {outcome, [outcome EXCEPT ![i] = "refused"]}
  BY DEF Execute, Start, Refuse, Goto
<1>4. /\ i \in Scripts /\ phase \in [Scripts -> Phases] /\ Invocations \subseteq Scripts
      /\ outcome \in [Scripts -> Outcomes \cup {"none"}]
  BY KeyedAssumption DEF RunnerInv, StepsTypeOK
<1>5. /\ phase'[i] # "idle"
      /\ \A j \in Invocations \ {i} : phase'[j] = phase[j] /\ outcome'[j] = outcome[j]
  BY <1>3, <1>4
<1>6. StoreTypes'
  BY <1>1, <1>2 DEF StoreInv, StoreTypes
<1>7. EntriesTrue'
  BY <1>1, <1>2 DEF StoreInv, EntriesTrue
<1>8. KeysHeld'
  <2>1. ASSUME NEW j \in Invocations \ inFlight', phase'[j] = "over", outcome'[j] = "ok", j \notin lost'
        PROVE  \E f \in Held(entries') : f.by = j
    <3>1. j \notin inFlight /\ phase[j] = "over" /\ outcome[j] = "ok" /\ j \notin lost
      BY <1>2, <1>5, <2>1
    <3>2. PICK e \in Held(entries) : e.by = j
      BY <3>1 DEF StoreInv, KeysHeld
    <3> QED
      BY <1>1, <3>1, <3>2
  <2>2. \A j \in Invocations \ inFlight' : phase'[j] \in {"idle", "over"}
    BY <1>2, <1>5 DEF StoreInv, KeysHeld
  <2>3. \A j \in inFlight' : phase'[j] # "idle"
    BY <1>2, <1>5 DEF StoreInv, StoreTypes, KeysHeld
  <2>4. \A x, y \in inFlight' : KeyOf[x] = KeyOf[y] => x = y
    BY <1>2 DEF StoreInv, KeysHeld
  <2> QED
    BY <2>1, <2>2, <2>3, <2>4 DEF KeysHeld
<1> QED
  BY <1>6, <1>7, <1>8 DEF StoreInv

\* What set() leaves: the new entry, and the others but for what it evicts.
LEMMA StoredHolds ==
    ASSUME StoreInv, NEW i \in inFlight, NEW list, list = Stored(i)
    PROVE  /\ list \in Seq(Entry) /\ Len(list) <= MaxEntries /\ OnePerKey(list)
           /\ [key |-> KeyOf[i], by |-> i, expired |-> FALSE] \in Held(list)
           /\ Held(list) \subseteq
                 Held(entries) \cup {[key |-> KeyOf[i], by |-> i, expired |-> FALSE]}
<1> DEFINE k == KeyOf[i]
           e == [key |-> KeyOf[i], by |-> i, expired |-> FALSE]
           left == Without(k)
           all == Append(left, e)
<1>1. k \in Keys /\ e \in Entry /\ e.key = k /\ MaxEntries \in Nat \ {0}
  BY KeyedAssumption DEF Entry, StoreInv, StoreTypes
<1>2. list = IF Len(all) > MaxEntries THEN Tail(all) ELSE all
  BY DEF Stored
<1> HIDE DEF k, e
<1>3. /\ left \in Seq(Entry) /\ OnePerKey(left)
      /\ Len(left) <= Len(entries)
      /\ Held(left) \subseteq Held(entries) /\ \A f \in Held(left) : f.key # k
  BY <1>1, WithoutTheKey DEF StoreInv
<1> HIDE DEF left
<1>4. /\ all \in Seq(Entry) /\ OnePerKey(all) /\ Len(all) = Len(left) + 1
      /\ Held(all) = Held(left) \cup {e}
  BY <1>1, <1>3, JoinsAtTheEnd
<1>5. all[Len(all)] = e
  BY <1>3, <1>4
<1>6. Len(entries) \in Nat /\ Len(entries) <= MaxEntries /\ Len(left) \in Nat
  BY <1>3 DEF StoreInv, StoreTypes
<1> HIDE DEF all
<1>7. CASE Len(all) > MaxEntries
  <2>1. Len(all) > 1 /\ Len(all) <= MaxEntries + 1
    BY <1>1, <1>3, <1>4, <1>6, <1>7
  <2>2. /\ Tail(all) \in Seq(Entry) /\ OnePerKey(Tail(all))
        /\ Len(Tail(all)) = Len(all) - 1
        /\ Held(Tail(all)) \subseteq Held(all)
        /\ all[Len(all)] \in Held(Tail(all))
    BY <1>4, <2>1, OldestLeaves
  <2>3. list = Tail(all)
    BY <1>2, <1>7
  <2>4. Len(list) <= MaxEntries
    BY <1>1, <1>4, <1>6, <2>1, <2>2, <2>3
  <2>5. e \in Held(list) /\ Held(list) \subseteq Held(entries) \cup {e}
    BY <1>3, <1>4, <1>5, <2>2, <2>3
  <2> QED
    BY <2>2, <2>3, <2>4, <2>5 DEF e
<1>8. CASE ~(Len(all) > MaxEntries)
  <2>1. list = all
    BY <1>2, <1>8
  <2>2. Len(list) <= MaxEntries
    BY <1>1, <1>4, <1>6, <1>8, <2>1
  <2>3. e \in Held(list) /\ Held(list) \subseteq Held(entries) \cup {e}
    BY <1>3, <1>4, <2>1
  <2> QED
    BY <1>4, <2>1, <2>2, <2>3 DEF e
<1> QED
  BY <1>7, <1>8

LEMMA PublishKeepsStore ==
    ASSUME RunnerInv, StoreInv, NEW i \in Invocations, Publish(i)
    PROVE  StoreInv'
<1> DEFINE e == [key |-> KeyOf[i], by |-> i, expired |-> FALSE]
<1>1. /\ i \in inFlight /\ phase[i] = "over" /\ inFlight' = inFlight \ {i}
      /\ UNCHANGED <<phase, outcome>>
      /\ joined' = [j \in Invocations |-> IF joined[j] = i THEN "none" ELSE joined[j]]
  BY DEF Publish, runnerVars
<1>2. /\ lost \subseteq lost'
      /\ \A n \in DOMAIN entries :
            entries[n].by \in lost' \/ \E m \in DOMAIN entries' : entries'[m].by = entries[n].by
  <2>1. lost' = lost \cup {entries[n].by : n \in {n \in DOMAIN entries :
                            \A m \in DOMAIN entries' : entries'[m].by # entries[n].by}}
    BY DEF Publish
  <2> QED
    BY <2>1
<1>3. IF outcome[i] = "ok" THEN entries' = Stored(i) ELSE entries' = entries
  BY DEF Publish
<1>4. /\ entries' \in Seq(Entry) /\ Len(entries') <= MaxEntries /\ OnePerKey(entries')
      /\ Held(entries') \subseteq Held(entries) \cup {e}
      /\ outcome[i] = "ok" => e \in Held(entries')
      /\ outcome[i] # "ok" => e \notin Held(entries')
  <2>1. CASE outcome[i] = "ok"
    BY <1>1, <1>3, <2>1, StoredHolds
  <2>2. CASE outcome[i] # "ok"
    <3>1. e.key = KeyOf[i] /\ \A f \in Held(entries) : f.key # KeyOf[i]
      BY <1>1 DEF StoreInv, EntriesTrue
    <3> HIDE DEF e
    <3> QED
      BY <1>3, <2>2, <3>1 DEF StoreInv, StoreTypes
  <2> QED
    BY <2>1, <2>2
<1>5. e.key = KeyOf[i] /\ e.by = i /\ ~e.expired
  OBVIOUS
<1> HIDE DEF e
<1>6. \A f \in Held(entries) : f.by \in lost' \/ \E g \in Held(entries') : g.by = f.by
  <2>1. entries \in Seq(Entry) /\ entries' \in Seq(Entry)
    BY <1>4 DEF StoreInv, StoreTypes
  <2>2. DOMAIN entries = 1..Len(entries) /\ DOMAIN entries' = 1..Len(entries')
    BY <2>1
  <2> QED
    BY <1>2, <2>2 DEF Held
<1>7. StoreTypes'
  <2>1. joined' \in [Invocations -> Invocations \cup {"none"}]
    BY <1>1 DEF StoreInv, StoreTypes
  <2>2. \A j \in Invocations : joined'[j] # "none" => joined'[j] \in inFlight'
    BY <1>1 DEF StoreInv, StoreTypes
  <2>3. inFlight' \subseteq Invocations
    BY <1>1 DEF StoreInv, StoreTypes
  <2> QED
    BY <1>4, <2>1, <2>2, <2>3 DEF StoreTypes
<1>8. EntriesTrue'
  <2>1. \A j \in inFlight' : KeyOf[j] # KeyOf[i]
    BY <1>1 DEF StoreInv, KeysHeld
  <2>2. ASSUME NEW f \in Held(entries')
        PROVE  /\ f.key = KeyOf[f.by]
               /\ f.expired => f.by \in lost'
               /\ \A j \in inFlight' : KeyOf[j] # f.key
    <3>1. CASE f = e
      BY <1>5, <2>1, <3>1
    <3>2. CASE f \in Held(entries)
      BY <1>1, <1>2, <3>2 DEF StoreInv, EntriesTrue
    <3> QED
      BY <1>4, <3>1, <3>2
  <2> QED
    BY <2>2 DEF EntriesTrue
<1>9. KeysHeld'
  <2>1. ASSUME NEW j \in Invocations \ inFlight', phase'[j] = "over", outcome'[j] = "ok", j \notin lost'
        PROVE  \E f \in Held(entries') : f.by = j
    <3>1. CASE j = i
      BY <1>1, <1>4, <1>5, <2>1, <3>1
    <3>2. CASE j # i
      <4>1. PICK f \in Held(entries) : f.by = j
        BY <1>1, <1>2, <2>1, <3>2 DEF StoreInv, KeysHeld
      <4> QED
        BY <1>6, <2>1, <4>1
    <3> QED
      BY <3>1, <3>2
  <2>2. \A j \in Invocations \ inFlight' : phase'[j] \in {"idle", "over"}
    BY <1>1 DEF StoreInv, KeysHeld
  <2>3. \A j \in inFlight' : phase'[j] # "idle"
    BY <1>1 DEF StoreInv, KeysHeld
  <2>4. \A x, y \in inFlight' : KeyOf[x] = KeyOf[y] => x = y
    BY <1>1 DEF StoreInv, KeysHeld
  <2> QED
    BY <2>1, <2>2, <2>3, <2>4 DEF KeysHeld
<1> QED
  BY <1>7, <1>8, <1>9 DEF StoreInv

\* The runner moves only scripts that are under way.
LEMMA RunnerMovesOnly ==
    ASSUME RunnerInv, StoreInv, UNCHANGED storeVars,
           NEW s \in Scripts,
           \A t \in Scripts \ {s} : phase'[t] = phase[t] /\ outcome'[t] = outcome[t],
           s \in Invocations => phase[s] \notin {"idle", "over"} /\ phase'[s] # "idle"
    PROVE  StoreInv'
<1>1. Invocations \subseteq Scripts
  BY KeyedAssumption
<1>2. UNCHANGED <<entries, inFlight, joined, lost>>
  BY DEF storeVars
<1>3. s \in Invocations => s \in inFlight
  BY DEF StoreInv, KeysHeld
<1>4. StoreTypes' /\ EntriesTrue'
  BY <1>2 DEF StoreInv, StoreTypes, EntriesTrue
<1>5. KeysHeld'
  <2>1. \A j \in Invocations \ inFlight : phase'[j] = phase[j] /\ outcome'[j] = outcome[j]
    BY <1>1, <1>3
  <2>2. inFlight \subseteq Invocations
    BY DEF StoreInv, StoreTypes
  <2>3. \A j \in inFlight : phase'[j] # "idle"
    BY <1>1, <2>2 DEF StoreInv, KeysHeld
  <2> QED
    BY <1>2, <2>1, <2>3 DEF StoreInv, KeysHeld
<1> QED
  BY <1>4, <1>5 DEF StoreInv

LEMMA RunnerKeepsStore ==
    ASSUME RunnerInv, StoreInv, RunnerNext, UNCHANGED storeVars
    PROVE  StoreInv'
<1>1. phase \in [Scripts -> Phases] /\ outcome \in [Scripts -> Outcomes \cup {"none"}]
  BY DEF RunnerInv, StepsTypeOK
<1>2. CASE UNCHANGED <<phase, outcome>>
  BY <1>2 DEF storeVars, StoreInv, StoreTypes, EntriesTrue, KeysHeld
<1>3. ASSUME NEW s \in Scripts, Proceed(s) PROVE StoreInv'
  <2>1. phase[s] \in {"first", "backoff", "second", "probe"}
    BY <1>3 DEF Proceed, HearFirst, Again, HearSecond, Probe
  <2>2. \E p \in Phases \ {"idle"} : phase' = [phase EXCEPT ![s] = p]
    BY <1>3 DEF Proceed, HearFirst, Again, HearSecond, Probe, Conclude, End, Goto, Phases
  <2>3. \/ outcome' = outcome
        \/ \E kind : outcome' = [outcome EXCEPT ![s] = kind]
    BY <1>3 DEF Proceed, HearFirst, Again, HearSecond, Probe, Conclude, End
  <2>4. \A t \in Scripts \ {s} : phase'[t] = phase[t] /\ outcome'[t] = outcome[t]
    BY <1>1, <2>2, <2>3
  <2>5. phase'[s] # "idle"
    BY <1>1, <2>2
  <2> QED
    BY <2>1, <2>4, <2>5, RunnerMovesOnly
<1> QED
  BY <1>2, <1>3 DEF RunnerNext, Rest, Run, Answer

LEMMA StepKeepsStore == RunnerInv /\ StoreInv /\ [Next]_vars => StoreInv'
<1> SUFFICES ASSUME RunnerInv, StoreInv, [Next]_vars PROVE StoreInv'
  OBVIOUS
<1>1. ASSUME NEW i \in Invocations, Replay(i) \/ Join(i) \/ Execute(i) \/ Publish(i)
      PROVE  StoreInv'
  BY <1>1, ReplayKeepsStore, JoinKeepsStore, ExecuteKeepsStore, PublishKeepsStore
<1>2. ASSUME NEW s \in Scripts, Read(s) PROVE StoreInv'
  <2>1. phase \in [Scripts -> Phases] /\ outcome \in [Scripts -> Outcomes \cup {"none"}]
    BY DEF RunnerInv, StepsTypeOK
  <2>2. \A t \in Scripts \ {s} : phase'[t] = phase[t] /\ outcome'[t] = outcome[t]
    BY <1>2, <2>1 DEF Read, Start, Refuse, Goto
  <2>3. s \notin Invocations /\ UNCHANGED storeVars
    BY <1>2 DEF Read
  <2> QED
    BY <2>2, <2>3, RunnerMovesOnly
<1>3. CASE UNCHANGED vars
  BY <1>3 DEF vars, runnerVars, storeVars, StoreInv, StoreTypes, EntriesTrue, KeysHeld
<1> QED
  BY <1>1, <1>2, <1>3, ExpireKeepsStore, RunnerKeepsStore DEF Next

-----------------------------------------------------------------------------

\* Of the invocations with one key a single one executes at a time, and while
\* its envelope is stored after it succeeded nobody else does
\* (withIdempotencyKey, IdempotencyStore).
THEOREM KeysExecuteOneAtATime == Spec => []OneExecutionPerKey
BY InitRunnerInv, StepKeepsInv, InitStoreInv, StepKeepsStore, StoreGivesOnePerKey, PTL DEF Spec

\* The store never exceeds its cap, who joined awaits a live promise, and the
\* runner's state is well typed.
THEOREM KeyedTypes == Spec => []TypeOK
<1>1. RunnerInv /\ CircuitInv /\ StoreInv => TypeOK
  BY DEF RunnerInv, SeamTypeOK, StepsTypeOK, Phases, CircuitInv, StoreInv, StoreTypes,
         TypeOK, RunnerTypeOK
<1>2. CircuitInv /\ [Next]_vars => CircuitInv'
  BY StepIsSound
<1> QED
  BY <1>1, <1>2, InitRunnerInv, StepKeepsInv, InitStoreInv, StepKeepsStore, InitCircuitInv, PTL DEF Spec

=============================================================================
