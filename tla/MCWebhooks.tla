----------------------------- MODULE MCWebhooks -----------------------------
\* A task and a project.  Two attempts and two failures stand for the four
\* and ten of the code; four windows are a baseline, two overlapping runs and
\* the run in which the damage would show.
EXTENDS Webhooks
=============================================================================
