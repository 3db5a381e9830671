---------------------------- MODULE HandlerRuns ----------------------------
(***************************************************************************)
(* What the two halves of makeDatabaseChangeHandler                        *)
(* (src/server/composition.ts) are about: the eviction from the read cache *)
(* (ChangeHandler) and the observation for the webhooks (Webhooks).        *)
(***************************************************************************)

CONSTANTS Tasks, Projects,
          Runs         \* bound: handler runs that can overlap

Objects == Tasks \cup Projects
=============================================================================
