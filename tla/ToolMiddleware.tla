--------------------------- MODULE ToolMiddleware ---------------------------
(***************************************************************************)
(* What composeToolCallback (src/server/middleware.ts) puts around every   *)
(* handler of one tool: the circuit breaker (src/server/circuitBreaker.ts),*)
(* inside it the rate limiter (src/rateLimit/ToolRateLimiter.ts), inside   *)
(* that the loop detector (src/loopDetector/LoopDetector.ts).              *)
(*                                                                         *)
(* The three layers run in one synchronous stretch when the call arrives;  *)
(* the breaker hears of the outcome when the handler settles, by which     *)
(* time its state may be another one.  Calls of one tool overlap freely.   *)
(***************************************************************************)
EXTENDS Integers, Sequences

CONSTANTS Calls,
          Args,              \* the argument hashes of the loop detector's keys
          FailureThreshold, CircuitWindow, OpenDuration,
          Limit, RateWindow,
          ErrorThreshold, LoopWindow, MaxKeys,
          MaxTime            \* bound: the model's clock stops here

ASSUME MiddlewareAssumption ==
    /\ {FailureThreshold, Limit, ErrorThreshold, MaxKeys} \subseteq Nat \ {0}
    /\ {CircuitWindow, OpenDuration, RateWindow, LoopWindow} \subseteq Nat \ {0}
    /\ MaxTime \in Nat

VARIABLES now,
          circuit, failures, openedAt, probeInFlight,   \* CircuitBreaker
          stamps,                                       \* ToolRateLimiter.windows
          keys, windows,   \* LoopDetector.windows: its keys in insertion order,
                           \* and the stamps under each, <<>> for a key it has not
          phase,        \* per call
          probing,      \* history: the call was admitted by the present half-open circuit
          started, ran, \* history: when handlers ran, altogether and for each args
          outcomes,     \* history: [at, kind] of the calls the breaker heard of
          forgotten     \* history: args whose window was evicted while it counted

breakerVars == <<circuit, failures, openedAt, probeInFlight>>
layerVars   == <<stamps, keys, windows, started, ran, forgotten>>
middlewareVars == <<now, breakerVars, layerVars, phase, probing, outcomes>>

MiddlewareInit ==
    /\ now = 0
    /\ circuit = "closed" /\ failures = <<>> /\ openedAt = 0 /\ probeInFlight = FALSE
    /\ stamps = <<>>
    /\ keys = <<>> /\ windows = [arg \in Args |-> <<>>]
    /\ phase = [c \in Calls |-> "idle"]
    /\ probing = {}
    /\ started = <<>> /\ ran = [arg \in Args |-> <<>>]
    /\ outcomes = <<>>
    /\ forgotten = {}

\* How many of the oldest timestamps are a full window old: the scan of the
\* limiter and the detector from the front, up to the first that still counts.
Stale(times, window) ==
    CHOOSE n \in 0..Len(times) : /\ \A i \in 1..n : now - times[i] >= window
                                 /\ n < Len(times) => now - times[n + 1] < window

\* The timestamps still inside a sliding window.  The breaker filters its
\* failures instead, which leaves the same of a list that is in order.
Recent(times, window) == SubSeq(times, Stale(times, window) + 1, Len(times))

\* Fault: as RateStamps, an entry leaves one tick early.
RateStampsTooShort(times) == Recent(times, RateWindow - 1)

\* ToolRateLimiter.getAndPrune
RateStamps(times) == Recent(times, RateWindow)

\* Fault: as LoopStamps, an entry leaves one tick early.
LoopStampsTooShort(times) == Recent(times, LoopWindow - 1)

\* LoopDetector.getAndPrune of one window
LoopStamps(times) == Recent(times, LoopWindow)

-----------------------------------------------------------------------------
\* The breaker

\* _maybeTransitionToHalfOpen, evaluated at the head of call()
Lapsed == circuit = "open" /\ now - openedAt >= OpenDuration
StateNow == IF Lapsed THEN "half_open" ELSE circuit
ProbeNow == IF Lapsed THEN FALSE ELSE probeInFlight

Refused == StateNow = "open" \/ (StateNow = "half_open" /\ ProbeNow)

\* CircuitOpen is thrown before fn is called.
FastFail(c) ==
    /\ phase[c] = "idle"
    /\ Refused
    /\ circuit' = StateNow
    /\ probeInFlight' = ProbeNow
    /\ phase' = [phase EXCEPT ![c] = "refused"]
    /\ UNCHANGED <<now, failures, openedAt, layerVars, probing, outcomes>>

\* The breaker lets the call through; in a half-open circuit it is the probe.
Admitted(c) ==
    /\ phase[c] = "idle"
    /\ ~Refused
    /\ circuit' = StateNow
    /\ probeInFlight' = (StateNow = "half_open")
    /\ probing' = (IF Lapsed THEN {} ELSE probing)
                     \cup (IF StateNow = "half_open" THEN {c} ELSE {})
    /\ UNCHANGED <<now, failures, openedAt, outcomes>>

-----------------------------------------------------------------------------
\* The limiter and the detector

Exhausted == Len(RateStamps(stamps)) >= Limit

\* check() throws RateLimited: fn rejects before the loop detector is asked.
RateLimited(c) ==
    /\ Admitted(c)
    /\ Exhausted
    /\ stamps' = RateStamps(stamps)
    /\ phase' = [phase EXCEPT ![c] = "limited"]
    /\ UNCHANGED <<keys, windows, started, ran, forgotten>>

\* LoopDetector.getAndPrune: the key of an expired window leaves the map.
Dropped(arg) ==
    LET at == CHOOSE i \in DOMAIN keys : keys[i] = arg
    IN  SubSeq(keys, 1, at - 1) \o SubSeq(keys, at + 1, Len(keys))

Kept(arg) == IF \E i \in DOMAIN keys : keys[i] = arg THEN Dropped(arg) ELSE keys

\* Fault: the cap is compared before the new key is counted.
EvictedTooLate(kept) == IF Len(kept) > MaxKeys THEN Tail(kept) ELSE kept

\* A new key makes room for itself: the first inserted one goes.
Evicted(kept) == IF Len(kept) >= MaxKeys THEN Tail(kept) ELSE kept

\* record(): prune, insert the key if it is not there (any more), push.
Record(arg) ==
    LET left == LoopStamps(windows[arg]) IN
    /\ keys' = IF left # <<>> THEN keys ELSE Append(Evicted(Kept(arg)), arg)
    /\ windows' = [a \in Args |-> IF a = arg THEN Append(left, now)
                                 ELSE IF \E i \in DOMAIN keys' : keys'[i] = a
                                 THEN windows[a] ELSE <<>>]

\* record() answers level "error": the handler is not called.
LoopDetected(count) == count >= ErrorThreshold

\* The limiter lets the call through; the detector does, or rejects it.
Enter(c, arg) ==
    /\ Admitted(c)
    /\ ~Exhausted
    /\ stamps' = Append(RateStamps(stamps), now)
    /\ Record(arg)
    /\ forgotten' = forgotten \cup
          {a \in Args : LoopStamps(windows[a]) # <<>> /\ windows'[a] = <<>>}
    /\ IF LoopDetected(Len(windows'[arg]))
       THEN /\ phase' = [phase EXCEPT ![c] = "limited"]
            /\ UNCHANGED <<started, ran>>
       ELSE /\ phase' = [phase EXCEPT ![c] = "running"]
            /\ started' = Append(started, now)
            /\ ran' = [ran EXCEPT ![arg] = Append(@, now)]

-----------------------------------------------------------------------------
\* The call settles

Open == /\ circuit' = "open" /\ openedAt' = now /\ probeInFlight' = FALSE

\* finally: whoever settles while the circuit is half-open frees the slot
FreeProbe == probeInFlight' = (IF circuit = "half_open" THEN FALSE ELSE probeInFlight)

\* Fault: in the closed state a success leaves the earlier failures counted.
OnSuccessWithoutReset ==
    /\ IF circuit = "half_open"
       THEN circuit' = "closed" /\ openedAt' = 0 /\ probeInFlight' = FALSE /\ failures' = <<>>
       ELSE UNCHANGED breakerVars

\* _onSuccess
OnSuccess ==
    /\ IF circuit = "half_open"
       THEN circuit' = "closed" /\ openedAt' = 0 /\ probeInFlight' = FALSE
       ELSE UNCHANGED <<circuit, openedAt, probeInFlight>>
    /\ failures' = <<>>

\* _onFailure
OnFailure ==
    IF circuit = "half_open"
    THEN Open /\ UNCHANGED failures
    ELSE /\ failures' = Append(Recent(failures, CircuitWindow), now)
         /\ IF Len(failures') >= FailureThreshold
            THEN Open
            ELSE UNCHANGED <<circuit, openedAt, probeInFlight>>

\* Fault: an input error is not a reason to give the probe slot back.
OnUncountedKeepingProbe == UNCHANGED breakerVars

\* An input error or a backpressure signal: isCircuitCountableFailure is false.
OnUncounted == FreeProbe /\ UNCHANGED <<circuit, failures, openedAt>>

Heard(kind) == outcomes' = Append(outcomes, [at |-> now, kind |-> kind])

SettleOk(c) ==
    /\ phase[c] = "running"
    /\ OnSuccess /\ Heard("ok")

SettleOutage(c) ==
    /\ phase[c] = "running"
    /\ OnFailure /\ Heard("outage")

\* The handler throws an input error, or an inner layer refused the call.
SettleUncounted(c) ==
    /\ phase[c] \in {"running", "limited"}
    /\ OnUncounted /\ UNCHANGED outcomes

Settle(c) ==
    /\ SettleOk(c) \/ SettleOutage(c) \/ SettleUncounted(c)
    /\ phase' = [phase EXCEPT ![c] = "settled"]
    /\ probing' = IF circuit' = "half_open" THEN probing \ {c} ELSE {}
    /\ UNCHANGED <<now, layerVars>>

Tick == now < MaxTime /\ now' = now + 1
        /\ UNCHANGED <<breakerVars, layerVars, phase, probing, outcomes>>

MiddlewareNext ==
    \/ \E c \in Calls : FastFail(c) \/ RateLimited(c) \/ Settle(c)
    \/ \E c \in Calls, arg \in Args : Enter(c, arg)
    \/ Tick

MiddlewareSpec == MiddlewareInit /\ [][MiddlewareNext]_middlewareVars

-----------------------------------------------------------------------------

\* Type invariant; the detector's map respects its cap.
TypeOK ==
    /\ circuit \in {"closed", "open", "half_open"}
    /\ probeInFlight \in BOOLEAN
    /\ phase \in [Calls -> {"idle", "refused", "limited", "running", "settled"}]
    /\ Len(keys) <= MaxKeys

\* A taken probe slot (CircuitBreaker.call) belongs to a call that is still
\* going to give it back, however that call ends: the circuit can not stay
\* half-open refusing every call.
ProbeSlotComesBack ==
    probeInFlight =>
        circuit = "half_open" /\ \E c \in probing : phase[c] \in {"running", "limited"}

\* A sliding window, not a bucket: any RateWindow long interval contains at
\* most Limit executions of the tool.
RateBounded ==
    \A i \in DOMAIN started : i + Limit \in DOMAIN started =>
        started[i + Limit] - started[i] >= RateWindow

\* In any LoopWindow fewer than ErrorThreshold executions have the same
\* arguments, unless the key cap made the detector forget them.
LoopsCut ==
    \A arg \in Args \ forgotten :
        \A i \in DOMAIN ran[arg] : i + ErrorThreshold - 1 \in DOMAIN ran[arg] =>
            ran[arg][i + ErrorThreshold - 1] - ran[arg][i] >= LoopWindow

\* The closed circuit opens on nothing but FailureThreshold consecutive
\* outages within the window: a success in between, and everything the agent
\* or the middleware itself did wrong, does not count towards it.
OpensOnOutage ==
    [][circuit = "closed" /\ circuit' = "open" =>
          /\ Len(outcomes') >= FailureThreshold
          /\ \A i \in (Len(outcomes') - FailureThreshold + 1)..Len(outcomes') :
                outcomes'[i].kind = "outage" /\ now - outcomes'[i].at < CircuitWindow]_middlewareVars

=============================================================================
