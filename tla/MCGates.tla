------------------------------- MODULE MCGates -------------------------------
(* Four reads against a pool of two (two wait at once, so their order      *)
(* matters), four JXA writes against a queue of cap three (two wait, or    *)
(* one is refused), and an OmniJS call, which must disturb neither.        *)
EXTENDS AdapterGates
MCCalls == {"r1", "r2", "r3", "r4", "w1", "w2", "w3", "w4", "o1"}
MCOmnijs == {"o1"}
MCMutating == {"w1", "w2", "w3", "w4", "o1"}
=============================================================================
