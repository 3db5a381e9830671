------------------------------ MODULE Webhooks ------------------------------
(***************************************************************************)
(* Webhooks: the registry (src/webhooks/registry.ts), the orchestrator     *)
(* that compares snapshots of OmniFocus (src/webhooks/orchestrator.ts,     *)
(* src/webhooks/events.ts), the dispatcher with its retries and circuits   *)
(* (src/webhooks/httpsDispatcher.ts), and the observeChain through which   *)
(* overlapping runs of the change handler (src/server/composition.ts) feed *)
(* them.  The names of the two webhooks are their triggers.                *)
(***************************************************************************)
EXTENDS HandlerRuns, Naturals, Sequences, FiniteSets, Functions

CONSTANTS MaxAttempts,       \* attempts of a delivery
          CircuitThreshold,  \* failed deliveries that open a webhook's circuit
          MaxEdits,          \* bound: changes in OmniFocus
          MaxWindows,        \* bound: windows of the watcher
          MaxToggles,        \* bound: registrations and deletions
          Null

ASSUME WebhooksAssumption ==
    /\ {MaxAttempts, CircuitThreshold} \subseteq Nat \ {0}
    /\ {MaxEdits, MaxWindows, MaxToggles} \subseteq Nat
    /\ Null \notin {"open", "done"}

VARIABLES states, edits,           \* OmniFocus: "open" or "done" (a project: not active)
          pending,                 \* a change has not been followed by a window yet
          windows, toggles,
          phase, observeChain,     \* runs of the handler after their eviction
          snap,                    \* per run: what it has fetched so far, Null elsewhere
          attempts,                \* per run: attempts of its unsettled deliveries
          registered, baseline,    \* registry, orchestrator
          failures, circuit,       \* dispatcher, per webhook
          due,      \* history: tasks completed since the last event about them
          behind    \* history: the last window was not observed

stateVars   == <<states, edits, pending, due>>
observeVars == <<windows, phase, observeChain, snap, behind>>
hookVars    == <<toggles, registered, baseline>>
sendVars    == <<attempts, failures, circuit>>
webhookVars == <<stateVars, observeVars, hookVars, sendVars>>

Hooks == {"task-completed", "project-status-changed"}
Blank == [o \in Objects |-> Null]
HookOf(o) == IF o \in Tasks THEN "task-completed" ELSE "project-status-changed"

-----------------------------------------------------------------------------

HooksInit ==
    /\ states = [o \in Objects |-> "open"]
    /\ edits = 0 /\ pending = FALSE
    /\ windows = 0 /\ toggles = 0
    /\ phase = [h \in Runs |-> "idle"]
    /\ observeChain = <<>>
    /\ snap = [h \in Runs |-> Blank]
    /\ attempts = [h \in Runs |-> <<>>]
    /\ registered \in SUBSET Hooks     \* the registry file of an earlier process
    /\ baseline = Null
    /\ failures = [w \in Hooks |-> 0]
    /\ circuit = [w \in Hooks |-> "closed"]
    /\ due = {} /\ behind = FALSE

\* Somebody completes or reopens a task, or changes a project's state.
Change(o) ==
    /\ edits < MaxEdits
    /\ states' = [states EXCEPT ![o] = IF @ = "open" THEN "done" ELSE "open"]
    /\ due' = IF o \in Tasks /\ states[o] = "open" THEN due \cup {o} ELSE due
    /\ edits' = edits + 1
    /\ pending' = TRUE
    /\ UNCHANGED <<observeVars, hookVars, sendVars>>

\* webhook_register and webhook_delete.  The dispatcher is not told.
Toggle(w) ==
    /\ toggles < MaxToggles
    /\ toggles' = toggles + 1
    /\ registered' = (registered \cup {w}) \ (registered \cap {w})
    /\ UNCHANGED <<stateVars, observeVars, baseline, sendVars>>

-----------------------------------------------------------------------------
\* A run of the handler comes to its observation; with no webhook it skips it.
Window(h) ==
    /\ windows < MaxWindows /\ phase[h] = "idle"
    /\ windows' = windows + 1
    /\ pending' = FALSE
    /\ behind' = (registered = {})
    /\ \/ registered = {} /\ UNCHANGED <<phase, observeChain>>
       \/ /\ registered # {}
          /\ phase' = [phase EXCEPT ![h] = "observe"]
          /\ observeChain' = Append(observeChain, h)
    /\ UNCHANGED <<states, edits, due, snap, hookVars, sendVars>>

\* Fault: observations do not wait for each other.
MayObserveAnyTime(h) == phase[h] = "observe"

MayObserve(h) == phase[h] = "observe" /\ Head(observeChain) = h

\* listTasks and listProjects run side by side, so they may see two states.
Fetch(h, part) ==
    /\ MayObserve(h)
    /\ \E o \in part : snap[h][o] = Null
    /\ snap' = [snap EXCEPT ![h] = [o \in Objects |-> IF o \in part THEN states[o] ELSE @[o]]]
    /\ UNCHANGED <<stateVars, windows, phase, observeChain, behind, hookVars, sendVars>>

Fetched(h) == \A o \in Objects : snap[h][o] # Null

\* The run's promise settles, the next one in the chain may start.
LeaveChain(h) ==
    /\ observeChain' = Tail(observeChain)
    /\ phase' = [phase EXCEPT ![h] = "idle"]

\* Fault: a failed fetch is tried again for as long as it takes.
FetchFailsAgain(h) ==
    /\ MayObserve(h) /\ ~Fetched(h)
    /\ snap' = [snap EXCEPT ![h] = Blank]
    /\ UNCHANGED <<stateVars, windows, phase, observeChain, behind, hookVars, sendVars>>

FetchFails(h) ==
    /\ MayObserve(h) /\ ~Fetched(h)
    /\ LeaveChain(h)
    /\ snap' = [snap EXCEPT ![h] = Blank]
    /\ behind' = (behind \/ Len(observeChain) = 1)
    /\ UNCHANGED <<stateVars, windows, hookVars, sendVars>>

\* diffWebhookEvents: tasks completed and projects changed between snapshots,
\* as far as a webhook wants to know.
Events(old, new) ==
    {o \in Objects : /\ HookOf(o) \in registered
                     /\ old[o] # new[o]
                     /\ o \in Tasks => new[o] = "done"}

\* deliver(): dropped while the circuit is open, which closes when it has rested.
Deliver(h, events) ==
    /\ attempts' = [attempts EXCEPT ![h] =
                       [o \in {e \in events : circuit[HookOf(e)] # "open"} |-> 1]]
    /\ circuit' = [w \in Hooks |->
                      IF circuit[w] = "rested" /\ \E e \in events : HookOf(e) = w
                      THEN "closed" ELSE circuit[w]]

\* Fault: observeSnapshot forgets to keep the snapshot it has compared.
ObserveForgetting(h) ==
    /\ MayObserve(h) /\ Fetched(h)
    /\ LET events == IF baseline = Null THEN {} ELSE Events(baseline, snap[h])
       IN Deliver(h, events) /\ due' = due \ events
    /\ baseline' = IF baseline = Null THEN snap[h] ELSE baseline
    /\ snap' = [snap EXCEPT ![h] = Blank]
    /\ phase' = [phase EXCEPT ![h] = "deliver"]
    /\ UNCHANGED <<states, edits, pending, windows, observeChain, behind,
                   toggles, registered, failures>>

\* observeSnapshot: the first snapshot is only kept, later ones are compared.
Observe(h) ==
    /\ MayObserve(h) /\ Fetched(h)
    /\ LET events == IF baseline = Null THEN {} ELSE Events(baseline, snap[h])
       IN Deliver(h, events) /\ due' = due \ events
    /\ baseline' = snap[h]
    /\ snap' = [snap EXCEPT ![h] = Blank]
    /\ phase' = [phase EXCEPT ![h] = "deliver"]
    /\ UNCHANGED <<states, edits, pending, windows, observeChain, behind,
                   toggles, registered, failures>>

-----------------------------------------------------------------------------
\* The dispatcher: each delivery is attempted until one attempt succeeds or
\* all have failed, which counts as one failure of the webhook.

Settle(h, o) == attempts' = [attempts EXCEPT ![h] = Restrict(@, DOMAIN @ \ {o})]

Succeed(h, o) ==
    /\ Settle(h, o)
    /\ failures' = [failures EXCEPT ![HookOf(o)] = 0]
    /\ UNCHANGED circuit

Retry(h, o) ==
    /\ attempts[h][o] < MaxAttempts
    /\ attempts' = [attempts EXCEPT ![h][o] = @ + 1]
    /\ UNCHANGED <<failures, circuit>>

GiveUp(h, o) ==
    /\ attempts[h][o] = MaxAttempts
    /\ Settle(h, o)
    /\ LET w == HookOf(o) IN
       \/ /\ failures[w] + 1 < CircuitThreshold
          /\ failures' = [failures EXCEPT ![w] = @ + 1]
          /\ UNCHANGED circuit
       \/ /\ failures[w] + 1 >= CircuitThreshold
          /\ failures' = [failures EXCEPT ![w] = 0]
          /\ circuit' = [circuit EXCEPT ![w] = "open"]

Attempt(h) ==
    /\ \E o \in DOMAIN attempts[h] : Succeed(h, o) \/ Retry(h, o) \/ GiveUp(h, o)
    /\ UNCHANGED <<stateVars, observeVars, hookVars>>

\* Promise.all of the deliveries resolves.
Delivered(h) ==
    /\ phase[h] = "deliver" /\ attempts[h] = <<>>
    /\ LeaveChain(h)
    /\ UNCHANGED <<stateVars, windows, snap, behind, hookVars, sendVars>>

\* The hour of an open circuit is over.
Rest(w) ==
    /\ circuit[w] = "open"
    /\ circuit' = [circuit EXCEPT ![w] = "rested"]
    /\ UNCHANGED <<stateVars, observeVars, hookVars, attempts, failures>>

-----------------------------------------------------------------------------

Observation(h) ==
    \/ \E part \in {Tasks, Projects} : Fetch(h, part)
    \/ FetchFails(h) \/ Observe(h) \/ Attempt(h) \/ Delivered(h)

HooksNext ==
    \/ \E o \in Objects : Change(o)
    \/ \E w \in Hooks : Toggle(w) \/ Rest(w)
    \/ \E h \in Runs : Window(h) \/ Observation(h)

\* Adapter calls and HTTPS requests settle, each under a timeout of its own.
HooksSpec ==
    /\ HooksInit /\ [][HooksNext]_webhookVars
    /\ \A h \in Runs : WF_webhookVars(Observation(h))

-----------------------------------------------------------------------------

\* When every window has been dealt with and the last one was observed, the
\* baseline is the present state: an older snapshot never overwrites a newer
\* one ("the baseline only ever moves forward", composition.ts:277).
ObservedWhenQuiet ==
    /\ ~pending /\ ~behind /\ windows > 0
    /\ \A h \in Runs : phase[h] = "idle"
    => baseline = states

\* A webhook hears of a completion once, however the runs overlap: a delivery
\* starts only for a task completed since the last event about it.
NoRepeatedDelivery ==
    [][\A h \in Runs : attempts[h] = <<>> => DOMAIN attempts'[h] \cap Tasks \subseteq due]_webhookVars

\* Every observation ends, those that fail and those queued behind others.
RunsEnd == \A h \in Runs : phase[h] # "idle" ~> phase[h] = "idle"
=============================================================================
