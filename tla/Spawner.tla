------------------------------- MODULE Spawner -------------------------------
(***************************************************************************)
(* What a script runner may rely on from a ScriptSpawner, the seam both    *)
(* the one-shot and the persistent osascript transport implement           *)
(* (src/adapter/jxa/scriptRunner.ts): a script that was asked for runs at  *)
(* most once, possibly after its caller was told that it failed, and every *)
(* caller gets one result.  Only the script's own run gives ok; an error   *)
(* is a script that threw or, one-shot, a process that could not be        *)
(* started; where the missing binary is told (unavailable) nothing runs.   *)
(***************************************************************************)
EXTENDS Naturals

CONSTANTS Calls

VARIABLES asked,   \* the calls the spawner was given
          ran,     \* how often each call's script was executed in OmniFocus
          result   \* the SpawnResult each caller received

vars == <<asked, ran, result>>

\* Exit code 0, or another: a script-level throw, or a spawn that failed.
Responses == {"ok", "error"}

\* No response: the timeout killed the process, the process ended on its own
\* (SpawnResult.restarted), or it never started.
Losses == {"timeout", "restarted", "unavailable"}

Results == Responses \cup Losses

Init ==
    /\ asked = {}
    /\ ran = [c \in Calls |-> 0]
    /\ result = [c \in Calls |-> "none"]

Ask(c) ==
    /\ c \notin asked
    /\ asked' = asked \cup {c}
    /\ UNCHANGED <<ran, result>>

Run(c) ==
    /\ c \in asked
    /\ ran[c] = 0 /\ result[c] # "unavailable"
    /\ ran' = [ran EXCEPT ![c] = 1]
    /\ UNCHANGED <<asked, result>>

Answer(c, kind) ==
    /\ c \in asked
    /\ result[c] = "none"
    /\ kind = "ok" => ran[c] = 1
    /\ kind = "unavailable" => ran[c] = 0
    /\ result' = [result EXCEPT ![c] = kind]
    /\ UNCHANGED <<asked, ran>>

Next ==
    \E c \in Calls : Ask(c) \/ Run(c) \/ \E kind \in Results : Answer(c, kind)

Spec == Init /\ [][Next]_vars
=============================================================================
