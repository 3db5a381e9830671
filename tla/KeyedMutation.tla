---------------------------- MODULE KeyedMutation ----------------------------
(***************************************************************************)
(* src/server/idempotencyStore.ts: mutation tools called with an           *)
(* idempotency key, each running one writing script through ScriptRunner.  *)
(*                                                                         *)
(* An agent invokes a tool again with the same key when it did not like    *)
(* the answer, or while it still waits for it.  The TTL of an entry runs   *)
(* out at any time after it was stored.                                    *)
(***************************************************************************)
EXTENDS ScriptRunner, Sequences

CONSTANTS Keys,
          KeyOf,        \* the key of each invocation; an invocation is its script
          MaxEntries    \* the store's LRU cap

Invocations == DOMAIN KeyOf

ASSUME KeyedAssumption ==
    /\ KeyOf \in [Invocations -> Keys]
    /\ Invocations \subseteq Scripts \ ReadOnly
    /\ MaxEntries \in Nat \ {0}

VARIABLES entries,    \* _entries in insertion order: [key, by, expired]
          inFlight,   \* the set of invocations whose promise is registered
          joined,     \* joined[i]: the invocation whose promise i awaits
          answer,     \* what each invocation was told: [kind, by]
          lost        \* history: invocations whose entry expired or was evicted

storeVars == <<entries, inFlight, joined, answer, lost>>
vars == <<runnerVars, storeVars>>

NoAnswer == [kind |-> "none", by |-> "none"]

Init ==
    /\ RunnerInit
    /\ entries = <<>>
    /\ inFlight = {}
    /\ joined = [i \in Invocations |-> "none"]
    /\ answer = [i \in Invocations |-> NoAnswer]
    /\ lost = {}

IsNew(i) == phase[i] = "idle" /\ joined[i] = "none" /\ answer[i] = NoAnswer

\* Where the entry of a key stands; there is at most one.
EntryOf(k) == {n \in DOMAIN entries : entries[n].key = k}

\* _entries.delete(key)
Without(k) ==
    IF EntryOf(k) = {} THEN entries
    ELSE LET at == CHOOSE n \in EntryOf(k) : TRUE
         IN  SubSeq(entries, 1, at - 1) \o SubSeq(entries, at + 1, Len(entries))

Live(k) == \E n \in EntryOf(k) : ~entries[n].expired
Pending(k) == {j \in inFlight : KeyOf[j] = k}

\* get() of a live entry: re-inserted at the end
Touched(k) == Append(Without(k), entries[CHOOSE n \in EntryOf(k) : TRUE])

\* A stored envelope is replayed
Replay(i) ==
    /\ IsNew(i)
    /\ Live(KeyOf[i])
    /\ entries' = Touched(KeyOf[i])
    /\ \E n \in EntryOf(KeyOf[i]) :
          answer' = [answer EXCEPT ![i] = [kind |-> "ok", by |-> entries[n].by]]
    /\ UNCHANGED <<runnerVars, inFlight, joined, lost>>

\* Fault: nobody looks whether the key is already being worked on.
AlwaysFirst(k) == TRUE

\* No promise is registered for the key.
FirstOf(k) == Pending(k) = {}

\* An identical call is already running
Join(i) ==
    /\ IsNew(i)
    /\ ~Live(KeyOf[i])
    /\ entries' = Without(KeyOf[i])
    /\ \E j \in Pending(KeyOf[i]) : joined' = [joined EXCEPT ![i] = j]
    /\ UNCHANGED <<runnerVars, inFlight, answer, lost>>

\* fn() runs: its script is refused or sent to the spawner
Execute(i) ==
    /\ IsNew(i)
    /\ ~Live(KeyOf[i])
    /\ FirstOf(KeyOf[i])
    /\ entries' = Without(KeyOf[i])
    /\ inFlight' = inFlight \cup {i}
    /\ Start(i) \/ Refuse(i)
    /\ UNCHANGED <<joined, answer, lost>>

\* Fault: the cap is compared before the entry is inserted.
StoredOverCap(i) ==
    LET all == Append(Without(KeyOf[i]), [key |-> KeyOf[i], by |-> i, expired |-> FALSE])
    IN  IF Len(all) > MaxEntries + 1 THEN Tail(all) ELSE all

\* set() and its eviction of the oldest entries
Stored(i) ==
    LET all == Append(Without(KeyOf[i]), [key |-> KeyOf[i], by |-> i, expired |-> FALSE])
    IN  IF Len(all) > MaxEntries THEN Tail(all) ELSE all

\* fn() has settled.  An envelope is stored, a rejection is not; the caller
\* and everyone who joined get the same, and the promise is forgotten.
Publish(i) ==
    /\ i \in inFlight /\ phase[i] = "over"
    /\ IF outcome[i] = "ok"
       THEN entries' = Stored(i)
       ELSE UNCHANGED entries
    /\ lost' = lost \cup {entries[n].by : n \in {n \in DOMAIN entries :
                            \A m \in DOMAIN entries' : entries'[m].by # entries[n].by}}
    /\ answer' = [j \in Invocations |->
                    IF j = i \/ joined[j] = i THEN [kind |-> outcome[i], by |-> i]
                                              ELSE answer[j]]
    /\ joined' = [j \in Invocations |-> IF joined[j] = i THEN "none" ELSE joined[j]]
    /\ inFlight' = inFlight \ {i}
    /\ UNCHANGED runnerVars

\* An entry passes its expiresAt
Expire ==
    /\ \E n \in DOMAIN entries :
          /\ ~entries[n].expired
          /\ entries' = [entries EXCEPT ![n].expired = TRUE]
          /\ lost' = lost \cup {entries[n].by}
    /\ UNCHANGED <<runnerVars, inFlight, joined, answer>>

\* A read of some other tool goes through the same runner
Read(s) == s \notin Invocations /\ (Start(s) \/ Refuse(s)) /\ UNCHANGED storeVars

Next ==
    \/ \E i \in Invocations : Replay(i) \/ Join(i) \/ Execute(i) \/ Publish(i)
    \/ Expire
    \/ \E s \in Scripts : Read(s)
    \/ RunnerNext /\ UNCHANGED storeVars

Spec == Init /\ [][Next]_vars

-----------------------------------------------------------------------------

\* Type invariant; the LRU cap holds and who joined awaits a live promise.
TypeOK ==
    /\ RunnerTypeOK
    /\ Len(entries) <= MaxEntries
    /\ inFlight \subseteq Invocations
    /\ \A i \in Invocations : joined[i] # "none" => joined[i] \in inFlight

\* Per key one invocation at a time executes: while one does, and after it
\* succeeded as long as its envelope is stored, the others only replay it.
OneExecutionPerKey ==
    \A i, j \in Invocations :
        i # j /\ KeyOf[i] = KeyOf[j] /\ phase[i] # "idle" /\ phase[j] # "idle" =>
            \E x \in {i, j} : /\ x \notin inFlight
                              /\ x \in lost \/ outcome[x] # "ok"

=============================================================================
