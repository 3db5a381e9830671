---------------------------- MODULE ScriptRunner ----------------------------
(***************************************************************************)
(* runJxaScript and runOmniJsScript (src/adapter/*/scriptRunner.ts), each  *)
(* inside its own circuit (src/adapter/_shared/transportCircuit.ts), over  *)
(* any spawner that keeps the promise of Spawner: retry once what only     *)
(* reads, probe after a timeout, and fail fast while OmniFocus is sick.    *)
(* The two runners differ in what they retry and in how a script can be    *)
(* lost; their steps are the same.                                         *)
(*                                                                         *)
(* A script is one adapter call; <<s, 1>> and <<s, 2>> are its attempts.   *)
(* retry.enabled and the circuit's enabled are on, the shipped defaults.   *)
(***************************************************************************)
EXTENDS Naturals, FiniteSets

CONSTANTS Scripts,
          Omnijs,      \* those run by runOmniJsScript, the others by runJxaScript
          ReadOnly,    \* those in READ_ONLY_JXA_SCRIPTS or READ_ONLY_OMNIJS_SCRIPTS
          Threshold    \* TransportCircuitOptions.threshold

ASSUME RunnerAssumption ==
    /\ Omnijs \subseteq Scripts
    /\ ReadOnly \subseteq Scripts
    /\ Threshold \in Nat \ {0}

Transports == {"jxa", "omnijs"}
TransportOf(s) == IF s \in Omnijs THEN "omnijs" ELSE "jxa"

Attempts == Scripts \X {1, 2}

VARIABLES asked, ran, result,           \* the spawner's
          phase,                        \* where runJxaScriptInner is
          outcome,                      \* how runJxaScript settled
          circuit, failureCount,        \* per transport
          rested,                       \* open, and recoveryMs has passed since openedAt
          sick                          \* history: transient failures of the transport's
                                        \* own calls since the last success of one

seamVars    == <<asked, ran, result>>
circuitVars == <<circuit, failureCount, rested, sick>>
runnerVars  == <<seamVars, phase, outcome, circuitVars>>

Seam == INSTANCE Spawner WITH Calls <- Attempts

\* The error classes the circuit and the callers tell apart.
Outcomes == {"ok", "refused", "restarted", "unavailable", "busy", "timeout",
             "notrunning", "failed"}

RunnerInit ==
    /\ Seam!Init
    /\ phase = [s \in Scripts |-> "idle"]
    /\ outcome = [s \in Scripts |-> "none"]
    /\ circuit = [x \in Transports |-> "closed"]
    /\ failureCount = [x \in Transports |-> 0]
    /\ rested = [x \in Transports |-> FALSE]
    /\ sick = [x \in Transports |-> 0]

Goto(s, p) == phase' = [phase EXCEPT ![s] = p]

-----------------------------------------------------------------------------
\* TransportCircuit

\* Fault: a success leaves the count of the failures before it.
RecordSuccessKeepingCount(x) ==
    /\ circuit' = [circuit EXCEPT ![x] = IF @ = "half-open" THEN "closed" ELSE @]
    /\ UNCHANGED <<failureCount, rested>>

RecordSuccess(x) ==
    /\ circuit' = [circuit EXCEPT ![x] = IF @ = "half-open" THEN "closed" ELSE @]
    /\ failureCount' = [failureCount EXCEPT ![x] = 0]
    /\ UNCHANGED rested

\* recordFailure(true); an open circuit is opened again and rests afresh
RecordTransient(x) ==
    /\ failureCount' = [failureCount EXCEPT ![x] = IF circuit[x] = "half-open" THEN @ ELSE @ + 1]
    /\ IF circuit[x] = "half-open" \/ failureCount'[x] >= Threshold
       THEN /\ circuit' = [circuit EXCEPT ![x] = "open"]
            /\ rested' = [rested EXCEPT ![x] = FALSE]
       ELSE UNCHANGED <<circuit, rested>>

\* isCircuitTransient
Transient(kind) == kind \in {"timeout", "notrunning"}

Record(x, kind) ==
    \/ /\ kind = "ok"
       /\ RecordSuccess(x)
    \/ /\ Transient(kind)
       /\ RecordTransient(x)
    \/ /\ kind # "ok" /\ ~Transient(kind)
       /\ UNCHANGED <<circuit, failureCount, rested>>

\* recoveryMs elapses
Rest ==
    /\ \E x \in Transports :
          /\ circuit[x] = "open" /\ ~rested[x]
          /\ rested' = [rested EXCEPT ![x] = TRUE]
    /\ UNCHANGED <<seamVars, phase, outcome, circuit, failureCount, sick>>

-----------------------------------------------------------------------------
\* runJxaScript, runOmniJsScript

\* tryCall throws CircuitOpen
Refuse(s) ==
    /\ phase[s] = "idle"
    /\ circuit[TransportOf(s)] = "open" /\ ~rested[TransportOf(s)]
    /\ outcome' = [outcome EXCEPT ![s] = "refused"]
    /\ Goto(s, "over")
    /\ UNCHANGED <<seamVars, circuitVars>>

Start(s) ==
    /\ phase[s] = "idle"
    /\ circuit[TransportOf(s)] = "open" => rested[TransportOf(s)]
    /\ circuit' = [circuit EXCEPT ![TransportOf(s)] = IF @ = "open" THEN "half-open" ELSE @]
    /\ rested' = [rested EXCEPT ![TransportOf(s)] = FALSE]
    /\ Seam!Ask(<<s, 1>>)
    /\ Goto(s, "first")
    /\ UNCHANGED <<outcome, failureCount, sick>>

\* Throw or return: the circuit of the transport hears of it
End(s, kind) ==
    /\ outcome' = [outcome EXCEPT ![s] = kind]
    /\ Goto(s, "over")
    /\ Record(TransportOf(s), kind)
    /\ sick' = [sick EXCEPT ![TransportOf(s)] =
                    IF kind = "ok" THEN 0 ELSE IF Transient(kind) THEN @ + 1 ELSE @]
    /\ UNCHANGED seamVars

\* What stderr tells of a script that threw: a retryable AppleEvent code, or
\* an application that is not running, or neither.
Stderrs == {"appleevent", "notrunning", "other"}

\* isTransientFailure of the JXA runner and of the OmniJS runner
JxaTransient(r, stderr) == r = "timeout" \/ (r = "error" /\ stderr = "appleevent")
OmniJsTransient(r) == r = "timeout"

\* Fault: whatever failed transiently is retried.
RetriesAnything(s, r, stderr) == JxaTransient(r, stderr)

\* isReadOnly && isTransientFailure(result)
Retries(s, r, stderr) ==
    /\ s \in ReadOnly
    /\ IF s \in Omnijs THEN OmniJsTransient(r) ELSE JxaTransient(r, stderr)

\* classifyJxaStderr, classifyOmniJsStderr
Classified(stderr) == IF stderr = "notrunning" THEN "notrunning" ELSE "failed"

\* The result of the last attempt becomes an error or a value; an exit code 0
\* with an empty or malformed stdout is an error like a throw.
Conclude(s, r, stderr) ==
    \/ r = "timeout" /\ Goto(s, "probe") /\ UNCHANGED <<seamVars, outcome, circuitVars>>
    \/ r \in {"ok", "restarted", "unavailable"} /\ End(s, r)
    \/ r = "error" /\ End(s, Classified(stderr))

HearFirst(s) ==
    /\ phase[s] = "first" /\ result[<<s, 1>>] # "none"
    /\ \E stderr \in Stderrs :
          IF Retries(s, result[<<s, 1>>], stderr)
          THEN Goto(s, "backoff") /\ UNCHANGED <<seamVars, outcome, circuitVars>>
          ELSE Conclude(s, result[<<s, 1>>], stderr)

\* retry.delayMs is over
Again(s) ==
    /\ phase[s] = "backoff"
    /\ Seam!Ask(<<s, 2>>)
    /\ Goto(s, "second")
    /\ UNCHANGED <<outcome, circuitVars>>

HearSecond(s) ==
    /\ phase[s] = "second" /\ result[<<s, 2>>] # "none"
    /\ \E stderr \in Stderrs : Conclude(s, result[<<s, 2>>], stderr)

\* probeOmniFocusResponsiveness answers: busy, or really a timeout
Probe(s) ==
    /\ phase[s] = "probe"
    /\ \E kind \in {"busy", "timeout"} : End(s, kind)

\* The spawner at work
Run(a) == Seam!Run(a) /\ UNCHANGED <<phase, outcome, circuitVars>>

\* OmniJS has only the one-shot spawner, which nobody restarts.
ResultsFor(s) == IF s \in Omnijs THEN Seam!Results \ {"restarted"} ELSE Seam!Results

Answer(a) ==
    /\ \E kind \in ResultsFor(a[1]) : Seam!Answer(a, kind)
    /\ UNCHANGED <<phase, outcome, circuitVars>>

Proceed(s) == HearFirst(s) \/ Again(s) \/ HearSecond(s) \/ Probe(s)

RunnerNext ==
    \/ \E s \in Scripts : Proceed(s)
    \/ \E a \in Attempts : Run(a) \/ Answer(a)
    \/ Rest

-----------------------------------------------------------------------------

\* Type invariant of the runner and its circuit.
RunnerTypeOK ==
    /\ asked \subseteq Attempts
    /\ phase \in [Scripts -> {"idle", "first", "backoff", "second", "probe", "over"}]
    /\ outcome \in [Scripts -> Outcomes \cup {"none"}]
    /\ circuit \in [Transports -> {"closed", "open", "half-open"}]
    /\ failureCount \in [Transports -> Nat]

\* How often OmniFocus ran the script, over both attempts.
Executions(s) == ran[<<s, 1>>] + ran[<<s, 2>>]

\* A script that writes is executed at most once, whatever is retried, and an
\* error that says it was never sent is true.
WritesRunOnce ==
    \A s \in Scripts \ ReadOnly :
        /\ Executions(s) <= 1
        /\ outcome[s] \in {"refused", "unavailable"} => Executions(s) = 0
        /\ outcome[s] = "ok" => Executions(s) = 1

\* A closed circuit opens only on Threshold transient failures of its own
\* transport with no success of it between them; a busy OmniFocus, restarts and
\* script errors count for nothing, and results settle in any order.
CircuitOpensWhenSick ==
    [][\A x \in Transports :
          circuit[x] = "closed" /\ circuit'[x] = "open" => sick'[x] >= Threshold]_runnerVars
=============================================================================
