---------------------------- MODULE MCTransport ----------------------------
\* Three calls on two processes: one times out or loses its child, the next
\* runs on the second while the first child's frame and events are still to
\* come, the third reuses a child, and dispose() starts anywhere.
EXTENDS PersistentTransport
=============================================================================
