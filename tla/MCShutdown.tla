----------------------------- MODULE MCShutdown -----------------------------
(* A handler that reads and then writes (task_delete), one that reads and  *)
(* then goes to OmniJS (task_move), and two plain writes.                  *)
EXTENDS Shutdown
MCCalls == {"r1", "r2", "w1", "w2", "w3", "o1"}
MCOmnijs == {"o1"}
MCMutating == {"w1", "w2", "w3", "o1"}
MCTools == {"t1", "t2", "t3", "t4"}
MCScript == [t \in MCTools |-> CASE t = "t1" -> <<"r1", "w1">>
                                 [] t = "t2" -> <<"r2", "o1">>
                                 [] t = "t3" -> <<"w2">>
                                 [] t = "t4" -> <<"w3">>]
MCMaxSpawns == [c \in MCCalls |-> IF c \in {"r2", "w1"} THEN 2 ELSE 1]
=============================================================================
