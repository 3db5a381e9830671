----------------------------- MODULE MCMutation -----------------------------
\* Two interchangeable invocations of a JXA write (task_update) with one key,
\* an OmniJS write (task_create) with another, room for one envelope, and a
\* JXA read that is retried.  Two transient failures open a circuit.
EXTENDS KeyedMutation, TLC

CONSTANTS first, again, other, read

MCKeyOf == first :> "k" @@ again :> "k" @@ other :> "l"

RetrySymmetry == Permutations({first, again})
=============================================================================
