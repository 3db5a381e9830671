----------------------------- MODULE MCChanges -----------------------------
\* A task in a project, and a second one that is its subtask or yet to be
\* created; tasks also move to and from the inbox.  The query's buffer is as
\* long as a change may take to reach the watcher.
EXTENDS ChangeHandler, TLC

CONSTANTS parent, child, proj

In(state, p, j) == [state |-> state, parent |-> p, project |-> j]

MCDocuments == {(parent :> In("open", None, proj) @@ child :> row
             @@ proj :> In("open", None, None)) :
                row \in {In("open", parent, proj), In("new", None, None)}}
=============================================================================
