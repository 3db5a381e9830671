------------------------------ MODULE FifoGate ------------------------------
(***************************************************************************)
(* What a concurrency gate promises its callers, whatever its bookkeeping: *)
(* the calls being served are always the Limit oldest unfinished ones.     *)
(* That one sentence is bounded concurrency, FIFO fairness (nobody is      *)
(* overtaken while waiting) and work conservation (no free slot while      *)
(* somebody waits) at once.  ReadPool implements it with Limit = Size and  *)
(* WriteQueue with Limit = 1.                                              *)
(***************************************************************************)
EXTENDS Naturals, Sequences

CONSTANTS Calls,   \* the calls ever made through the gate
          Limit    \* how many are served at once

VARIABLES line,    \* the unfinished calls, oldest first
          serving  \* the calls being served

vars == <<line, serving>>

\* The Limit oldest calls of a line.
Oldest(l) == {l[i] : i \in {j \in DOMAIN l : j <= Limit}}

\* A line without its i-th call.
Without(l, i) == [j \in 1..(Len(l) - 1) |-> IF j < i THEN l[j] ELSE l[j + 1]]

Init == line = <<>> /\ serving = {}

Arrive(c) ==
    /\ \A i \in DOMAIN line : line[i] # c
    /\ line' = Append(line, c)
    /\ serving' = Oldest(line')

Finish(c) ==
    /\ c \in serving
    /\ \E i \in DOMAIN line : line[i] = c /\ line' = Without(line, i)
    /\ serving' = Oldest(line')

Next == \E c \in Calls : Arrive(c) \/ Finish(c)

Spec == Init /\ [][Next]_vars
=============================================================================
