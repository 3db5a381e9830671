------------------------------- MODULE Tools --------------------------------
(***************************************************************************)
(* Calls of the tools side by side.  A call is a handler on its way: the   *)
(* adapter executes one request at a time, here against the document as    *)
(* the scripts leave it, and when the answer is there the handler runs to  *)
(* its next request or to its reply, invalidating what it has to in the    *)
(* same stretch.  Between two requests of a call those of the other come.  *)
(*                                                                         *)
(* The read cache starts full.  What one reading misses about another      *)
(* (shared factories, answers on their way) is in ReadCache.               *)
(***************************************************************************)
EXTENDS ExchangeTools

CONSTANTS Documents, \* documents to start from
          Keys,      \* the reads that are cached at first
          Callers,   \* each makes one call
          Requests,  \* for each caller the calls it may make: [tool, args]
          MaxLost    \* bound: requests of the adapter that are answered with a timeout

\* A document has tasks that can be counted, and projects that are somewhere.
Framed(d) ==
    /\ {"tasks", "projects", "tags", "folders"} \subseteq DOMAIN d
    /\ IsFiniteSet(DOMAIN d.tasks)
    /\ \A p \in DOMAIN d.projects : "folder" \in DOMAIN d.projects[p]

\* Calls are of tools, not of what the choices of a clarification stand for.
\* Their arguments are what the schemas let through: lists are lists, and an
\* assignment is of one task at least.  What can be undone are documents.
List(s) == s \in Seq(ToSet(s))
Admitted(tool, a) ==
    /\ tool \notin {"doComplete", "doCreate", "keepProject"}
    /\ tool \in {"task_batch_complete", "task_batch_uncomplete", "task_batch_delete", "task_batch_drop",
                 "task_batch_undrop", "project_batch_complete", "project_batch_drop"} => List(a.ids)
    /\ tool \in {"task_batch_update", "task_batch_move", "task_batch_create", "task_batch_assign"} => List(a.items)
    /\ tool = "task_batch_assign" => a.items # <<>>
    /\ tool \in {"task_extract_from_note", "task_extract_from_image"} /\ Given(a, "confirmed") => List(a.confirmed)
    /\ tool \in {"database_undo", "database_redo"} => List(a.past) /\ \A i \in DOMAIN a.past : Framed(a.past[i])

ASSUME CallersAssumption == MaxLost \in Nat /\ DOMAIN Requests = Callers
ASSUME DocumentsAssumption == \A d \in Documents : Framed(d)
ASSUME KeysAssumption ==
    \A k \in Keys :
        \/ k[1] \in {"task", "project"} \/ k = <<"forecast", k[2]>>
        \/ \E page \in {<<"search", "tasks">>, <<"search", "projects">>, <<"tag", "list">>, <<"folder", "list">>} :
               k = Append(page, k[3])
ASSUME RequestsAssumption == \A p \in Callers : \A q \in Requests[p] : Admitted(q.tool, q.args)

VARIABLES doc, cache, calls,
          pending,  \* the choices of the last clarification, while it waits for an answer
          lost,     \* requests that timed out
          unsettled \* a call failed, or items of it did, with something it wrote not yet invalidated

vars == <<doc, cache, calls, pending, lost, unsettled>>

-----------------------------------------------------------------------------
\* The tool a name is registered for; another name is refused.

Move(tool, d, a, g) ==
    CASE tool = "task_uncomplete"              -> task_uncomplete(d, a, g)
      [] tool = "task_drop"                    -> task_drop(d, a, g)
      [] tool = "task_undrop"                  -> task_undrop(d, a, g)
      [] tool = "task_delete"                  -> task_delete(d, a, g)
      [] tool = "doComplete"                   -> doComplete(d, a, g)
      [] tool = "task_complete"                -> task_complete(d, a, g)
      [] tool = "task_create"                  -> task_create(d, a, g)
      [] tool = "task_duplicate"               -> task_duplicate(d, a, g)
      [] tool = "task_move"                    -> task_move(d, a, g)
      [] tool = "task_reorder"                 -> task_reorder(d, a, g)
      [] tool = "task_convert_to_project"      -> task_convert_to_project(d, a, g)
      [] tool = "task_update"                  -> task_update(d, a, g)
      [] tool = "task_clear_alarms"            -> task_clear_alarms(d, a, g)
      [] tool = "task_set_repetition"          -> task_set_repetition(d, a, g)
      [] tool = "task_clear_repetition"        -> task_clear_repetition(d, a, g)
      [] tool = "task_set_alarms"              -> task_set_alarms(d, a, g)
      [] tool = "task_defer_smart"             -> task_defer_smart(d, a, g)
      [] tool = "task_set_waiting_on"          -> task_set_waiting_on(d, a, g)
      [] tool = "task_clear_waiting_on"        -> task_clear_waiting_on(d, a, g)
      [] tool = "task_get"                     -> task_get(d, a, g)
      [] tool = "task_get_many"                -> task_get_many(d, a, g)
      [] tool = "task_list"                    -> task_list(d, a, g)
      [] tool = "task_search"                  -> task_search(d, a, g)
      [] tool = "search_query"                 -> search_query(d, a, g)
      [] tool = "task_find_by_name"            -> task_find_by_name(d, a, g)
      [] tool = "task_find_similar"            -> task_find_similar(d, a, g)
      [] tool = "task_create_describe"         -> task_create_describe(d, a, g)
      [] tool = "task_complete_describe"       -> task_complete_describe(d, a, g)
      [] tool = "task_drop_describe"           -> task_drop_describe(d, a, g)
      [] tool = "task_delete_describe"         -> task_delete_describe(d, a, g)
      [] tool = "task_move_describe"           -> task_move_describe(d, a, g)
      [] tool = "task_update_describe"         -> task_update_describe(d, a, g)
      [] tool = "task_batch_complete"          -> task_batch_complete(d, a, g)
      [] tool = "task_batch_uncomplete"        -> task_batch_uncomplete(d, a, g)
      [] tool = "task_batch_delete"            -> task_batch_delete(d, a, g)
      [] tool = "task_batch_drop"              -> task_batch_drop(d, a, g)
      [] tool = "task_batch_undrop"            -> task_batch_undrop(d, a, g)
      [] tool = "task_batch_update"            -> task_batch_update(d, a, g)
      [] tool = "task_batch_move"              -> task_batch_move(d, a, g)
      [] tool = "task_batch_create"            -> task_batch_create(d, a, g)
      [] tool = "task_batch_create_describe"   -> task_batch_create_describe(d, a, g)
      [] tool = "task_batch_update_describe"   -> task_batch_update_describe(d, a, g)
      [] tool = "project_batch_complete"       -> project_batch_complete(d, a, g)
      [] tool = "project_batch_drop"           -> project_batch_drop(d, a, g)
      [] tool = "task_batch_assign"            -> task_batch_assign(d, a, g)
      [] tool = "task_reclassify"              -> task_reclassify(d, a, g)
      [] tool = "task_batch_defer_smart"       -> task_batch_defer_smart(d, a, g)
      [] tool = "task_extract_from_note"       -> task_extract_from_note(d, a, g)
      [] tool = "task_extract_from_image"      -> task_extract_from_image(d, a, g)
      [] tool = "note_append"                  -> note_append(d, a, g)
      [] tool = "note_set"                     -> note_set(d, a, g)
      [] tool = "note_set_html"                -> note_set_html(d, a, g)
      [] tool = "note_get"                     -> note_get(d, a, g)
      [] tool = "note_get_html"                -> note_get_html(d, a, g)
      [] tool = "decision_record"              -> decision_record(d, a, g)
      [] tool = "decision_clear"               -> decision_clear(d, a, g)
      [] tool = "project_complete"             -> project_complete(d, a, g)
      [] tool = "project_drop"                 -> project_drop(d, a, g)
      [] tool = "project_move"                 -> project_move(d, a, g)
      [] tool = "project_delete"               -> project_delete(d, a, g)
      [] tool = "project_update"               -> project_update(d, a, g)
      [] tool = "doCreate"                     -> doCreate(d, a, g)
      [] tool = "keepProject"                  -> keepProject(d, a, g)
      [] tool = "project_create"               -> project_create(d, a, g)
      [] tool = "project_get"                  -> project_get(d, a, g)
      [] tool = "project_get_many"             -> project_get_many(d, a, g)
      [] tool = "project_list"                 -> project_list(d, a, g)
      [] tool = "project_create_describe"      -> project_create_describe(d, a, g)
      [] tool = "project_complete_describe"    -> project_complete_describe(d, a, g)
      [] tool = "project_drop_describe"        -> project_drop_describe(d, a, g)
      [] tool = "project_delete_describe"      -> project_delete_describe(d, a, g)
      [] tool = "project_update_describe"      -> project_update_describe(d, a, g)
      [] tool = "project_move_describe"        -> project_move_describe(d, a, g)
      [] tool = "review_list_due"              -> review_list_due(d, a, g)
      [] tool = "review_mark_reviewed"         -> review_mark_reviewed(d, a, g)
      [] tool = "review_set_interval"          -> review_set_interval(d, a, g)
      [] tool = "project_mark_reviewed"        -> project_mark_reviewed(d, a, g)
      [] tool = "project_set_next_review_date" -> project_set_next_review_date(d, a, g)
      [] tool = "tag_create"                   -> tag_create(d, a, g)
      [] tool = "tag_update"                   -> tag_update(d, a, g)
      [] tool = "tag_move"                     -> tag_move(d, a, g)
      [] tool = "tag_set_status"               -> tag_set_status(d, a, g)
      [] tool = "tag_set_allows_next_action"   -> tag_set_allows_next_action(d, a, g)
      [] tool = "tag_set_location"             -> tag_set_location(d, a, g)
      [] tool = "tag_get_location"             -> tag_get_location(d, a, g)
      [] tool = "tag_delete"                   -> tag_delete(d, a, g)
      [] tool = "tag_get"                      -> tag_get(d, a, g)
      [] tool = "tag_get_many"                 -> tag_get_many(d, a, g)
      [] tool = "tag_list"                     -> tag_list(d, a, g)
      [] tool = "tag_create_describe"          -> tag_create_describe(d, a, g)
      [] tool = "tag_update_describe"          -> tag_update_describe(d, a, g)
      [] tool = "tag_delete_describe"          -> tag_delete_describe(d, a, g)
      [] tool = "tag_move_describe"            -> tag_move_describe(d, a, g)
      [] tool = "folder_create"                -> folder_create(d, a, g)
      [] tool = "folder_update"                -> folder_update(d, a, g)
      [] tool = "folder_move"                  -> folder_move(d, a, g)
      [] tool = "folder_delete"                -> folder_delete(d, a, g)
      [] tool = "folder_get"                   -> folder_get(d, a, g)
      [] tool = "folder_list"                  -> folder_list(d, a, g)
      [] tool = "folder_create_describe"       -> folder_create_describe(d, a, g)
      [] tool = "folder_update_describe"       -> folder_update_describe(d, a, g)
      [] tool = "folder_delete_describe"       -> folder_delete_describe(d, a, g)
      [] tool = "folder_move_describe"         -> folder_move_describe(d, a, g)
      [] tool = "forecast_get"                 -> forecast_get(d, a, g)
      [] tool = "forecast_pack"                -> forecast_pack(d, a, g)
      [] tool = "forecast_get_tag"             -> forecast_get_tag(d, a, g)
      [] tool = "forecast_set_tag"             -> forecast_set_tag(d, a, g)
      [] tool = "perspective_create"           -> perspective_create(d, a, g)
      [] tool = "perspective_update"           -> perspective_update(d, a, g)
      [] tool = "perspective_delete"           -> perspective_delete(d, a, g)
      [] tool = "perspective_evaluate"         -> perspective_evaluate(d, a, g)
      [] tool = "perspective_evaluate_dry_run" -> perspective_evaluate_dry_run(d, a, g)
      [] tool = "perspective_get"              -> perspective_get(d, a, g)
      [] tool = "perspective_list"             -> perspective_list(d, a, g)
      [] tool = "database_undo"                -> database_undo(d, a, g)
      [] tool = "database_redo"                -> database_redo(d, a, g)
      [] tool = "attachment_list"              -> attachment_list(d, a, g)
      [] tool = "attachment_create"            -> attachment_create(d, a, g)
      [] tool = "attachment_delete"            -> attachment_delete(d, a, g)
      [] tool = "attachment_save_to_path"      -> attachment_save_to_path(d, a, g)
      [] tool = "window_get_state"             -> window_get_state(d, a, g)
      [] tool = "window_set_focus"             -> window_set_focus(d, a, g)
      [] tool = "window_set_perspective"       -> window_set_perspective(d, a, g)
      [] tool = "sync_status"                  -> sync_status(d, a, g)
      [] tool = "sync_trigger"                 -> sync_trigger(d, a, g)
      [] tool = "export_opml"                  -> export_opml(d, a, g)
      [] tool = "export_taskpaper"             -> export_taskpaper(d, a, g)
      [] tool = "import_taskpaper"             -> import_taskpaper(d, a, g)
      [] tool = "import_opml"                  -> import_opml(d, a, g)
      [] tool = "project_template_list"        -> project_template_list(d, a, g)
      [] tool = "project_template_delete"      -> project_template_delete(d, a, g)
      [] tool = "project_template_instantiate" -> project_template_instantiate(d, a, g)
      [] tool = "project_template_save"        -> project_template_save(d, a, g)
      [] OTHER                                 -> Fail("Validation")

-----------------------------------------------------------------------------
\* A call: what the adapter answered so far, whether it wrote, whether it
\* wrote since it last invalidated, whether nothing came between, the reply.
Fresh(tool, args) ==
    [tool |-> tool, args |-> args, got |-> <<>>, wrote |-> FALSE, owes |-> FALSE, alone |-> TRUE,
     reply |-> None]
Idle == Fresh(None, None)
Waiting(c) == c.tool # None /\ c.reply = None

Init ==
    /\ doc \in Documents
    /\ cache = [k \in Keys |-> Factory(doc, k).val]
    /\ calls = [p \in Callers |-> Idle]
    /\ pending = <<>> /\ lost = 0 /\ unsettled = FALSE

Evict(f, scopes) == Restrict(f, {k \in DOMAIN f : \A s \in scopes : ~Covers(s, k)})

\* Tools whose answer says which items were done and which failed.
Batches ==
    {"task_batch_complete", "task_batch_uncomplete", "task_batch_delete", "task_batch_drop",
     "task_batch_undrop", "task_batch_update", "task_batch_move", "task_batch_create",
     "project_batch_complete", "project_batch_drop", "task_batch_assign", "task_reclassify",
     "task_batch_defer_smart", "task_extract_from_note", "task_extract_from_image"}

FellShort(tool, reply) == reply.code # "OK" \/ (tool \in Batches /\ reply.val.failed # {})

\* Call p replies.
Settle(p, c, reply) ==
    /\ calls' = [calls EXCEPT ![p] = [c EXCEPT !.reply = reply]]
    /\ unsettled' = (unsettled \/ (c.owes /\ FellShort(c.tool, reply)))

\* Call p goes on, with the cache f, to its next request or to its reply.
Proceed(p, c, f) ==
    \E s \in {Move(c.tool, doc', c.args, c.got)} :
        LET e == [c EXCEPT !.owes = @ /\ s.drop = {}] IN
        /\ cache' = Evict(f, s.drop)
        /\ \/ /\ s.kind \in {"ask", "try", "cached"}
              /\ calls' = [calls EXCEPT ![p] = e] /\ UNCHANGED <<pending, unsettled>>
           \/ /\ s.kind = "reply"
              /\ Settle(p, e, [code |-> s.code, val |-> s.val]) /\ UNCHANGED pending
           \/ /\ s.kind = "clarify"
              /\ Settle(p, e, [code |-> "Clarify", val |-> Len(s.choices)]) /\ pending' = s.choices

\* The adapter (or the cache) answers r to a request of call p.
Receive(p, must, r, f) ==
    LET c == [calls[p] EXCEPT !.got = Append(@, [code |-> r.code, val |-> r.val]),
                              !.wrote = @ \/ r.doc # doc, !.owes = @ \/ r.doc # doc]
    IN /\ doc' = r.doc
       /\ IF must /\ r.code # "OK"
          THEN Settle(p, c, [code |-> r.code, val |-> None]) /\ cache' = f /\ UNCHANGED pending
          ELSE Proceed(p, c, f)

-----------------------------------------------------------------------------
\* A call comes in and runs to its first request.
Enter(p, c) ==
    LET Alone(q) == q = p \/ ~Waiting(calls[q]) IN
    /\ \E s \in {Move(c.tool, doc, c.args, <<>>)} :
          LET first == IF s.kind = "reply" THEN [c EXCEPT !.reply = [code |-> s.code, val |-> s.val]] ELSE c IN
          calls' = [q \in Callers |->
                       IF q = p THEN [first EXCEPT !.alone = \A r \in Callers : Alone(r)]
                       ELSE [calls[q] EXCEPT !.alone = @ /\ Alone(q)]]
    /\ UNCHANGED <<doc, cache, lost, unsettled>>

Call(p) ==
    /\ calls[p] = Idle
    /\ \E q \in Requests[p] : Enter(p, Fresh(q.tool, q.args))
    /\ UNCHANGED pending

\* clarify: the token is used up before the chosen call runs.
Choose(p) ==
    /\ calls[p] = Idle
    /\ \E n \in 1..3 :
          IF n \in DOMAIN pending
          THEN Enter(p, Fresh(pending[n].tool, pending[n].args)) /\ pending' = <<>>
          ELSE LET code == IF pending = <<>> THEN "NotFound" ELSE "Validation" IN
               /\ calls' = [calls EXCEPT ![p] = [Fresh("clarify", n) EXCEPT
                                                    !.reply = [code |-> code, val |-> None]]]
               /\ UNCHANGED <<doc, cache, lost, unsettled, pending>>

\* The token is forgotten after a while.
Expire == pending # <<>> /\ pending' = <<>> /\ UNCHANGED <<doc, cache, calls, lost, unsettled>>

Advance(p) ==
    /\ Waiting(calls[p])
    /\ \E s \in {Move(calls[p].tool, doc, calls[p].args, calls[p].got)} :
          \/ s.kind \in {"ask", "try"} /\ Receive(p, s.kind = "ask", s.does, cache)
          \/ /\ s.kind = "cached"
             /\ \E r \in {IF s.key \in DOMAIN cache THEN Answer(doc, cache[s.key]) ELSE Factory(doc, s.key)} :
                   Receive(p, TRUE, r, IF r.code = "OK" THEN With(cache, s.key, r.val) ELSE cache)
    /\ UNCHANGED lost

\* The request times out: OmniFocus may have executed it all the same.
Lose(p) ==
    /\ Waiting(calls[p]) /\ lost < MaxLost /\ lost' = lost + 1
    /\ \E s \in {Move(calls[p].tool, doc, calls[p].args, calls[p].got)}, executed \in BOOLEAN :
          /\ s.kind \in {"ask", "try"}
          /\ Receive(p, s.kind = "ask",
                     Refuse(IF executed THEN s.does.doc ELSE doc, "Timeout"), cache)

Next == (\E p \in Callers : Call(p) \/ Choose(p) \/ Advance(p) \/ Lose(p)) \/ Expire
Spec == Init /\ [][Next]_vars

-----------------------------------------------------------------------------
\* Properties

Listing(k) == k[1] \in {"search", "tag", "folder", "forecast"}

\* Mutations are never served stale: whatever the calls did, by the time none
\* of them has something written and not yet invalidated, every cached listing
\* is what OmniFocus would answer.  (Calls that reported a failure may have
\* left without invalidating; that is what unsettled records.)
ListingsSettle ==
    (~unsettled /\ \A p \in Callers : ~(Waiting(calls[p]) /\ calls[p].owes)) =>
        \A k \in {x \in DOMAIN cache : Listing(x)} : cache[k] = Factory(doc, k).val

\* An answer that says nothing was done (no change, a preview, a question, a
\* row that was modified since, a confirmation that does not fit) is true: no
\* request of the call changed the document, also when others ran in between
\* and requests of it timed out.
Declines == {"NoChange", "Preview", "Clarify", "Conflict", "Stale", "OverCap"}
DeclinedWroteNothing ==
    \A p \in Callers : calls[p].reply # None /\ calls[p].reply.code \in Declines => ~calls[p].wrote

-----------------------------------------------------------------------------
\* What a call asked for is so.

Placed(d, t, to) ==
    d.tasks[t].at = CASE Given(to, "project") -> to.project
                      [] Given(to, "parent") -> to.parent
                      [] OTHER               -> Inbox
\* A tag that does not exist is passed over.
Holds(d, row, fields) ==
    \A f \in DOMAIN fields \cap DOMAIN row :
        row[f] = IF f = "tags" THEN fields.tags \cap DOMAIN d.tags ELSE fields[f]
Retagged(d, row, a) ==
    /\ Tags(a, "add") \cap DOMAIN d.tags \subseteq row.tags \cup Tags(a, "remove")
    /\ row.tags \cap Tags(a, "remove") = {}

\* A task that repeats has gone on instead.
Completed(row) == IF row.repeat = None THEN row.done ELSE row.past > 0

TaskDone(d, c) ==
    LET a == c.args
        t == a.id
    IN CASE c.tool \in {"task_complete", "doComplete"} -> Completed(d.tasks[t])
         [] c.tool = "task_uncomplete"                 -> ~d.tasks[t].done
         [] c.tool = "task_drop"                       -> d.tasks[t].dropped
         [] c.tool = "task_undrop"                     -> ~d.tasks[t].dropped
         [] c.tool = "task_delete"                     -> ~Has(d.tasks, t)
         [] c.tool = "task_move"                       -> Placed(d, t, a.to)
         [] c.tool = "task_defer_smart"                -> d.tasks[t].defer = a.date
         [] c.tool = "task_update"                     -> Holds(d, d.tasks[t], a.set) /\ Retagged(d, d.tasks[t], a)
         [] c.tool = "task_convert_to_project"         -> ~Has(d.tasks, t) /\ Has(d.projects, c.reply.val)
         [] OTHER                                      -> TRUE

\* Item by item: each is reported, and what is reported as done is done.
ItemDone(d, c, x, t) ==
    Has(d.tasks, t) /\
    CASE c.tool = "task_batch_update" -> Holds(d, d.tasks[t], x.patch)
      [] c.tool = "task_batch_move"   -> Placed(d, t, x.to)
      [] c.tool = "task_batch_assign" -> /\ Given(x, "project") => Placed(d, t, [project |-> x.project])
                                         /\ Holds(d, d.tasks[t], x.set) /\ Retagged(d, d.tasks[t], x)
IdDone(d, c, t) ==
    CASE c.tool = "task_batch_complete"    -> Completed(d.tasks[t])
      [] c.tool = "task_batch_uncomplete"  -> ~d.tasks[t].done
      [] c.tool = "task_batch_drop"        -> d.tasks[t].dropped
      [] c.tool = "task_batch_undrop"      -> ~d.tasks[t].dropped
      [] c.tool = "task_batch_delete"      -> ~Has(d.tasks, t)
      [] c.tool = "task_batch_defer_smart" -> d.tasks[t].defer = c.args.date
      [] c.tool = "project_batch_complete" -> d.projects[t].status = "completed"
      [] c.tool = "project_batch_drop"     -> d.projects[t].status = "dropped"

BatchDone(d, c) ==
    LET done == c.reply.val.done
        failed == c.reply.val.failed
    IN CASE Given(c.args, "ids") ->
              done \cup failed = ToSet(c.args.ids) /\ \A t \in done : IdDone(d, c, t)
         [] c.tool \in {"task_batch_update", "task_batch_move", "task_batch_assign"} ->
              /\ done \cup failed = {x.id : x \in ToSet(c.args.items)}
              /\ \A x \in ToSet(c.args.items) : x.id \in done => ItemDone(d, c, x, x.id)
         [] c.tool = "task_batch_create" ->
              Cardinality(done) + Cardinality(failed) = Len(c.args.items) /\ done \subseteq DOMAIN d.tasks
         [] OTHER -> TRUE

\* A call that nothing came between, and of which nothing was lost, says OK
\* only when what it was asked for is so; a batch reports every item, and as
\* done only what is done in all its parts.
AnsweredIsDone ==
    [][\A p \in Callers :
         (/\ calls[p].reply = None /\ calls'[p].reply # None /\ calls'[p].reply.code = "OK"
          /\ calls'[p].alone /\ lost' = 0) =>
            IF calls'[p].tool \in Batches THEN BatchDone(doc', calls'[p]) ELSE TaskDone(doc', calls'[p])]_vars
=============================================================================
