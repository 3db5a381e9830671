---------------------------- MODULE MCReadCache -----------------------------
(***************************************************************************)
(* Two projects.  P holds the task A with the subtask B; the first         *)
(* instance moves B to Q while A is completed (with or without B), and     *)
(* an undo may run at any moment.                                          *)
(***************************************************************************)
EXTENDS ReadCache, TLC

CONSTANTS A, B, P, Q, r1, r2, w1, w2

Nested == A :> P @@ B :> A

Ask(tool, task, to) == [tool |-> tool, task |-> task, to |-> to]

Together == {Ask("task_move", B, Q), Ask("task_complete", A, None),
             Ask("task_update", B, None), Ask("database_undo", A, None)}

\* The two writers differ, and which of them does what does not matter.
Rank(tool) == CASE tool = "task_move" -> 1 [] tool = "task_complete" -> 2
                [] tool = "task_update" -> 3 [] tool = "database_undo" -> 4

\* Reads of different keys touch different entries: all readers ask for the
\* same key, whichever it is.
MCInit ==
    /\ Init
    /\ \A r, s \in Readers : key[r] = key[s]
    /\ w2 \in Writers => Rank(job[w1].tool) < Rank(job[w2].tool)
MCSpec == MCInit /\ [][Next]_vars /\ Fairness
=============================================================================
