-------------------------- MODULE SharedStateProofs --------------------------
(***************************************************************************)
(* What all tool calls share: the read cache, and the layers of the tool   *)
(* middleware.                                                             *)
(*                                                                         *)
(* The cache.  What it holds is fresh, for any tree of tasks and any       *)
(* number of readers and writing tools.  The invariant says of every key   *)
(* that nothing old is cached under it or on its way there, or that a tool *)
(* which has written is still going to invalidate it.  A write keeps that  *)
(* because the keys whose values it changes are those that show the task's *)
(* row; this is about the tree, and comes first.                           *)
(*                                                                         *)
(* The middleware, for any number of calls and arguments, any thresholds,  *)
(* any windows and any clock.  The breaker's probe slot: whoever takes it  *)
(* is going to settle (it runs, or an inner layer has refused it), and     *)
(* every way of settling while the circuit is half-open gives the slot     *)
(* back or leaves half-open.  The sliding windows: a list of stamps is in  *)
(* order, so the scan from the front drops exactly what is a window old;   *)
(* and it covers the executions it is meant to bound, each of them younger *)
(* than the window having its own stamp, no older, at the same distance    *)
(* from the end.  A list shorter than the limit therefore admits no        *)
(* execution too many.                                                     *)
(***************************************************************************)
EXTENDS ReadCache, ToolMiddleware, WellFoundedInduction, TLAPS

-----------------------------------------------------------------------------
\* THE READ CACHE

\* OmniFocus keeps a tree of tasks.
DocOK(d) ==
    /\ d \in [place : [Tasks -> Places], done : [Tasks -> BOOLEAN], flagged : [Tasks -> BOOLEAN]]
    /\ Acyclic(d.place)

\* A property of a task that follows from the property of its parent holds of
\* every task: of the tasks without it, one would have its parent elsewhere.
LEMMA DownTheTree ==
    ASSUME NEW d, DocOK(d), NEW S \in SUBSET Tasks,
           \A x \in Tasks : d.place[x] \notin S => x \notin S
    PROVE  S = {}
BY DEF DocOK, Acyclic

\* ContainerIn is what its recursive definition says.
Solves(g, d) ==
    g = [x \in Tasks |-> IF d.place[x] \in Tasks THEN g[d.place[x]] ELSE d.place[x]]

\* Part of a solution: one that knows the tasks of T, a set closed under
\* going to the parent.
Attempt(g, T, d) ==
    /\ T \in SUBSET Tasks
    /\ \A x \in T : d.place[x] \in Tasks => d.place[x] \in T
    /\ \A x \in T : g[x] = IF d.place[x] \in Tasks THEN g[d.place[x]] ELSE d.place[x]

\* Two attempts agree where both know the answer.
LEMMA AttemptsAgree ==
    ASSUME NEW d, DocOK(d), NEW g, NEW h, NEW T, NEW U, Attempt(g, T, d), Attempt(h, U, d)
    PROVE  \A x \in T \cap U : g[x] = h[x]
<1> DEFINE S == {x \in T \cap U : g[x] # h[x]}
<1>1. S \in SUBSET Tasks
  BY DEF Attempt
<1>2. ASSUME NEW x \in Tasks, d.place[x] \notin S PROVE x \notin S
  BY <1>2 DEF Attempt
<1>3. S = {}
  <2> HIDE DEF S
  <2> QED BY <1>1, <1>2, DownTheTree
<1> QED
  BY <1>3

\* Every task is known to some attempt.
LEMMA EveryTaskAttempted ==
    ASSUME NEW d, DocOK(d)
    PROVE  \A x \in Tasks : \E T, g : x \in T /\ Attempt(g, T, d)
<1> DEFINE S == {x \in Tasks : ~ \E T, g : x \in T /\ Attempt(g, T, d)}
<1>1. ASSUME NEW x \in Tasks, d.place[x] \notin S PROVE x \notin S
  <2> SUFFICES \E T, g : x \in T /\ Attempt(g, T, d)
    OBVIOUS
  <2>1. CASE d.place[x] \notin Tasks
    <3> DEFINE h == [y \in {x} |-> d.place[x]]
    <3>1. Attempt(h, {x}, d)
      BY <2>1 DEF Attempt
    <3> QED
      BY <3>1
  <2>2. CASE d.place[x] \in Tasks
    <3>1. PICK T, g : d.place[x] \in T /\ Attempt(g, T, d)
      BY <1>1, <2>2
    <3>2. CASE x \in T
      BY <3>1, <3>2
    <3>3. CASE x \notin T
      <4> DEFINE U == T \cup {x}
                 h == [y \in U |-> IF y = x THEN g[d.place[x]] ELSE g[y]]
      <4>1. U \in SUBSET Tasks /\ \A y \in U : d.place[y] \in Tasks => d.place[y] \in T
        BY <3>1 DEF Attempt
      <4>2. \A y \in T : h[y] = g[y]
        BY <3>3
      <4>3. h[x] = g[d.place[x]]
        OBVIOUS
      <4> HIDE DEF h
      <4>4. ASSUME NEW y \in U
            PROVE  h[y] = IF d.place[y] \in Tasks THEN h[d.place[y]] ELSE d.place[y]
        <5>1. CASE y = x
          BY <2>2, <3>1, <4>2, <4>3, <5>1
        <5>2. CASE y \in T
          <6>1. g[y] = IF d.place[y] \in Tasks THEN g[d.place[y]] ELSE d.place[y]
            BY <3>1, <5>2 DEF Attempt
          <6> QED
            BY <4>1, <4>2, <5>2, <6>1
        <5> QED
          BY <5>1, <5>2
      <4>5. Attempt(h, U, d)
        BY <4>1, <4>4 DEF Attempt
      <4> QED
        BY <4>5
    <3> QED
      BY <3>2, <3>3
  <2> QED
    BY <2>1, <2>2
<1>2. S = {}
  <2>1. S \in SUBSET Tasks
    OBVIOUS
  <2> HIDE DEF S
  <2> QED
    BY <1>1, <2>1, DownTheTree
<1> QED
  BY <1>2

LEMMA SolutionExists ==
    ASSUME NEW d, DocOK(d)
    PROVE  \E g : Solves(g, d)
<1> DEFINE a(x) == CHOOSE p : x \in p[1] /\ Attempt(p[2], p[1], d)
           sol == [x \in Tasks |-> a(x)[2][x]]
<1>1. ASSUME NEW x \in Tasks PROVE x \in a(x)[1] /\ Attempt(a(x)[2], a(x)[1], d)
  <2>1. PICK T, g : x \in T /\ Attempt(g, T, d)
    BY EveryTaskAttempted
  <2>2. x \in <<T, g>>[1] /\ Attempt(<<T, g>>[2], <<T, g>>[1], d)
    BY <2>1
  <2>3. \E p : x \in p[1] /\ Attempt(p[2], p[1], d)
    BY <2>2
  <2> QED
    BY <2>3
<1> HIDE DEF a
<1>2. ASSUME NEW x \in Tasks
      PROVE  a(x)[2][x] = IF d.place[x] \in Tasks THEN a(d.place[x])[2][d.place[x]] ELSE d.place[x]
  <2>1. a(x)[2][x] = IF d.place[x] \in Tasks THEN a(x)[2][d.place[x]] ELSE d.place[x]
    BY <1>1 DEF Attempt
  <2>2. ASSUME d.place[x] \in Tasks
        PROVE  a(x)[2][d.place[x]] = a(d.place[x])[2][d.place[x]]
    <3>1. d.place[x] \in a(x)[1] /\ d.place[x] \in a(d.place[x])[1]
      BY <1>1, <2>2 DEF Attempt
    <3> QED
      BY <1>1, <2>2, <3>1, AttemptsAgree
  <2> QED
    BY <2>1, <2>2
<1>3. Solves(sol, d)
  BY <1>2 DEF Solves
<1> QED
  BY <1>3

\* The container of a task is that of its parent, or where the task itself is.
LEMMA ContainerEquation ==
    ASSUME NEW d, DocOK(d), NEW x \in Tasks
    PROVE  ContainerIn(d)[x] = IF d.place[x] \in Tasks THEN ContainerIn(d)[d.place[x]] ELSE d.place[x]
<1> DEFINE up == CHOOSE h : h = [y \in Tasks |->
                      IF d.place[y] \in Tasks THEN h[d.place[y]] ELSE d.place[y]]
<1>1. up = [y \in Tasks |-> IF d.place[y] \in Tasks THEN up[d.place[y]] ELSE d.place[y]]
  <2>1. PICK g : g = [y \in Tasks |-> IF d.place[y] \in Tasks THEN g[d.place[y]] ELSE d.place[y]]
    BY SolutionExists DEF Solves
  <2> QED
    BY <2>1, Zenon
<1>2. ContainerIn(d) = [t \in Tasks |-> up[t]]
  BY DEF ContainerIn
<1> HIDE DEF up
<1>3. \A y \in Tasks : ContainerIn(d)[y] = up[y]
  BY <1>2
<1>4. up[x] = IF d.place[x] \in Tasks THEN up[d.place[x]] ELSE d.place[x]
  BY <1>1
<1> QED
  BY <1>3, <1>4

\* Every container is a project or the inbox.
LEMMA ContainerIsPlace ==
    ASSUME NEW d, DocOK(d), NEW x \in Tasks
    PROVE  ContainerIn(d)[x] \in Places \ Tasks
<1> DEFINE S == {y \in Tasks : ContainerIn(d)[y] \notin Places \ Tasks}
<1>1. ASSUME NEW y \in Tasks, d.place[y] \notin S PROVE y \notin S
  <2>1. d.place[y] \in Places
    BY DEF DocOK
  <2> QED
    BY <1>1, <2>1, ContainerEquation
<1>2. S \in SUBSET Tasks
  OBVIOUS
<1>3. S = {}
  <2> HIDE DEF S
  <2> QED BY <1>1, <1>2, DownTheTree
<1> QED
  BY <1>3

\* It depends on the places alone.
LEMMA ContainerByPlace ==
    ASSUME NEW d, DocOK(d), NEW e, DocOK(e), e.place = d.place, NEW x \in Tasks
    PROVE  ContainerIn(e)[x] = ContainerIn(d)[x]
<1> DEFINE S == {y \in Tasks : ContainerIn(e)[y] # ContainerIn(d)[y]}
<1>1. ASSUME NEW y \in Tasks, d.place[y] \notin S PROVE y \notin S
  <2>1. ContainerIn(d)[y] = IF d.place[y] \in Tasks THEN ContainerIn(d)[d.place[y]] ELSE d.place[y]
    BY ContainerEquation
  <2>2. ContainerIn(e)[y] = IF d.place[y] \in Tasks THEN ContainerIn(e)[d.place[y]] ELSE d.place[y]
    BY ContainerEquation
  <2> QED
    BY <1>1, <2>1, <2>2
<1>2. S \in SUBSET Tasks
  OBVIOUS
<1>3. S = {}
  <2> HIDE DEF S
  <2> QED BY <1>1, <1>2, DownTheTree
<1> QED
  BY <1>3

\* e is d after t was moved.
Moved(d, e, t, to) ==
    /\ e \in [place : [Tasks -> Places], done : [Tasks -> BOOLEAN], flagged : [Tasks -> BOOLEAN]]
    /\ e.place[t] = to
    /\ \A x \in Tasks \ {t} : e.place[x] = d.place[x]
    /\ e.done = d.done /\ e.flagged = d.flagged

\* A task moves to a project or the inbox: every task keeps its container, or
\* was in the one of the moved task and is now in the destination.
LEMMA ContainerAfterMove ==
    ASSUME NEW d, DocOK(d), NEW t \in Tasks, NEW to \in Places \ Tasks,
           NEW e, Moved(d, e, t, to)
    PROVE  /\ DocOK(e)
           /\ \A x \in Tasks :
                 \/ ContainerIn(e)[x] = ContainerIn(d)[x]
                 \/ ContainerIn(d)[x] = ContainerIn(d)[t] /\ ContainerIn(e)[x] = to
<1>1. /\ e \in [place : [Tasks -> Places], done : [Tasks -> BOOLEAN], flagged : [Tasks -> BOOLEAN]]
      /\ e.place[t] = to /\ \A x \in Tasks \ {t} : e.place[x] = d.place[x]
      /\ e.done = d.done /\ e.flagged = d.flagged
  BY DEF Moved
<1>2. Acyclic(e.place)
  BY <1>1 DEF DocOK, Acyclic
<1>3. DocOK(e)
  BY <1>1, <1>2 DEF DocOK
<1> DEFINE S == {x \in Tasks :
                   ~ \/ ContainerIn(e)[x] = ContainerIn(d)[x]
                     \/ ContainerIn(d)[x] = ContainerIn(d)[t] /\ ContainerIn(e)[x] = to}
<1>4. ASSUME NEW x \in Tasks, e.place[x] \notin S PROVE x \notin S
  <2>1. ContainerIn(d)[x] = IF d.place[x] \in Tasks THEN ContainerIn(d)[d.place[x]] ELSE d.place[x]
    BY ContainerEquation
  <2>2. ContainerIn(e)[x] = IF e.place[x] \in Tasks THEN ContainerIn(e)[e.place[x]] ELSE e.place[x]
    BY <1>3, ContainerEquation
  <2>3. CASE x = t
    BY <1>1, <2>2, <2>3
  <2>4. CASE x # t
    BY <1>1, <1>4, <2>1, <2>2, <2>4
  <2> QED
    BY <2>3, <2>4
<1>5. S \in SUBSET Tasks
  OBVIOUS
<1>6. S = {}
  <2> HIDE DEF S
  <2> QED BY <1>3, <1>4, <1>5, DownTheTree
<1> QED
  BY <1>1, <1>3, <1>6

-----------------------------------------------------------------------------
\* What a change of OmniFocus changes for the reads.

Same(d, e, k) == First(e, k) = First(d, k) /\ Second(e, k) = Second(d, k)

\* The keys whose values show the row of t.
Shows(d, t) == {t, d.place[t], ContainerIn(d)[t], Listing}

LEMMA KeysApart ==
    ASSUME NEW k \in Keys
    PROVE  /\ k \in Tasks => k \notin Projects /\ k # Listing
           /\ k \in Projects => k \notin Tasks /\ k # Listing
           /\ k = Listing => k \notin Tasks /\ k \notin Projects
BY CacheAssumption DEF Keys

LEMMA ValuesOf ==
    ASSUME NEW d, NEW k \in Keys
    PROVE  /\ k \in Tasks => /\ First(d, k) = Row(d, k)
                             /\ Second(d, k) = {Row(d, c) : c \in ChildrenIn(d, k)}
           /\ k \in Projects => /\ First(d, k) = Cardinality(ContentsIn(d, k))
                                /\ Second(d, k) = {Row(d, t) : t \in ContentsIn(d, k)}
BY KeysApart DEF First, Second

\* An edit of a row in place.
LEMMA EditChanges ==
    ASSUME NEW d, DocOK(d), NEW e, DocOK(e), NEW t \in Tasks, e.place = d.place,
           \A x \in Tasks \ {t} : e.done[x] = d.done[x] /\ e.flagged[x] = d.flagged[x],
           NEW k \in Keys \ Shows(d, t)
    PROVE  Same(d, e, k)
<1>1. \A x \in Tasks : ContainerIn(e)[x] = ContainerIn(d)[x]
  BY ContainerByPlace
<1>2. \A x \in Tasks \ {t} : Row(e, x) = Row(d, x)
  BY <1>1 DEF Row
<1>3. CASE k \in Tasks
  <2>1. k # t /\ t \notin ChildrenIn(d, k) /\ ChildrenIn(e, k) = ChildrenIn(d, k)
    BY DEF Shows, ChildrenIn
  <2>2. ChildrenIn(d, k) \subseteq Tasks \ {t}
    BY <2>1 DEF ChildrenIn
  <2>3. {Row(e, c) : c \in ChildrenIn(e, k)} = {Row(d, c) : c \in ChildrenIn(d, k)}
    BY <1>2, <2>1, <2>2
  <2> QED
    BY <1>2, <1>3, <2>1, <2>3, ValuesOf DEF Same
<1>4. CASE k \in Projects
  <2>1. ContentsIn(e, k) = ContentsIn(d, k) /\ ContentsIn(d, k) \subseteq Tasks \ {t}
    BY <1>1 DEF Shows, ContentsIn
  <2>2. {Row(e, c) : c \in ContentsIn(e, k)} = {Row(d, c) : c \in ContentsIn(d, k)}
    BY <1>2, <2>1
  <2> QED
    BY <1>4, <2>1, <2>2, ValuesOf DEF Same
<1> QED
  BY <1>3, <1>4 DEF Keys, Shows

\* A move to a project or the inbox; the tasks that went along with it are
\* those whose own row says so.
LEMMA MoveChanges ==
    ASSUME NEW d, DocOK(d), NEW t \in Tasks, NEW to \in Places \ Tasks,
           NEW e, Moved(d, e, t, to),
           NEW k \in Keys \ (Shows(d, t) \cup {to}),
           k \in Tasks => ContainerIn(e)[k] = ContainerIn(d)[k]
    PROVE  Same(d, e, k)
<1>1. /\ DocOK(e)
      /\ e.place[t] = to /\ \A x \in Tasks \ {t} : e.place[x] = d.place[x]
      /\ e.done = d.done /\ e.flagged = d.flagged
      /\ \A x \in Tasks : \/ ContainerIn(e)[x] = ContainerIn(d)[x]
                          \/ ContainerIn(d)[x] = ContainerIn(d)[t] /\ ContainerIn(e)[x] = to
  BY ContainerAfterMove DEF Moved
<1>2. k # t /\ k # to /\ d.place[t] # k /\ ContainerIn(d)[t] # k /\ k # Listing
  BY DEF Shows
<1>3. \A x \in Tasks \ {t} : ContainerIn(e)[x] = ContainerIn(d)[x] => Row(e, x) = Row(d, x)
  BY <1>1 DEF Row
<1>4. CASE k \in Tasks
  <2>1. ChildrenIn(e, k) = ChildrenIn(d, k) /\ ChildrenIn(d, k) \subseteq Tasks \ {t}
    BY <1>1, <1>2 DEF ChildrenIn
  <2>2. ASSUME NEW c \in ChildrenIn(d, k) PROVE Row(e, c) = Row(d, c)
    <3>1. c \in Tasks \ {t} /\ d.place[c] = k /\ e.place[c] = k
      BY <1>1, <2>1 DEF ChildrenIn
    <3>2. ContainerIn(d)[c] = ContainerIn(d)[k] /\ ContainerIn(e)[c] = ContainerIn(e)[k]
      BY <1>1, <1>4, <3>1, ContainerEquation
    <3> QED
      BY <1>3, <1>4, <3>1, <3>2
  <2>3. {Row(e, c) : c \in ChildrenIn(e, k)} = {Row(d, c) : c \in ChildrenIn(d, k)}
    BY <2>1, <2>2
  <2> QED
    BY <1>2, <1>3, <1>4, <2>3, ValuesOf DEF Same
<1>5. CASE k \in Projects
  <2>1. ContentsIn(e, k) = ContentsIn(d, k)
    BY <1>1, <1>2 DEF ContentsIn
  <2>2. ASSUME NEW c \in ContentsIn(d, k) PROVE Row(e, c) = Row(d, c)
    <3>1. c \in Tasks /\ ContainerIn(d)[c] = k /\ ContainerIn(e)[c] = k
      BY <2>1 DEF ContentsIn
    <3> QED
      BY <1>2, <1>3, <3>1
  <2>3. {Row(e, c) : c \in ContentsIn(e, k)} = {Row(d, c) : c \in ContentsIn(d, k)}
    BY <2>1, <2>2
  <2> QED
    BY <1>5, <2>1, <2>3, ValuesOf DEF Same
<1> QED
  BY <1>2, <1>4, <1>5 DEF Keys

-----------------------------------------------------------------------------
\* The inductive invariant.

Stages == {"idle", "first", "second", "read", "joined", "answered", "failed"}

\* Every entry of the in-flight map is a factory for this key that still runs.
ReadersOK ==
    /\ stage \in [Readers -> Stages]
    /\ key \in [Readers -> Keys]
    /\ DOMAIN parts = Readers
    /\ DOMAIN cached = Keys
    /\ inflight \in [Keys -> Readers \cup {None}]
    /\ \A k \in Keys : inflight[k] # None => key[inflight[k]] = k /\ stage[inflight[k]] \in Producing

\* A tool that is about to write, or has written, remembers the row it read.
WritersOK ==
    /\ job \in [Writers -> Jobs]
    /\ step \in [Writers -> {"idle", "ready", "cascading", "executed", "answered", "failed"}]
    /\ before \in [Writers -> Rows \cup {None}]
    /\ \A w \in Writers :
          /\ todo[w] \subseteq Tasks
          /\ step[w] \in {"ready", "cascading"} =>
                /\ before[w] # None
                /\ job[w].tool \in {"task_move", "task_complete"}
                /\ job[w].tool = "task_move" => todo[w] = {}
          /\ step[w] = "executed" /\ before[w] = None =>
                job[w].tool \in {"task_update", "database_undo"}
          /\ step[w] = "idle" => before[w] = None
    /\ DOMAIN todo = Writers
    /\ blind \in BOOLEAN
    /\ swept \subseteq Tasks

DocsOK == DocOK(doc) /\ (undoDoc # None => DocOK(undoDoc))

\* The row a writer derives its scopes from: the one it read before, or the
\* one it would read now.
RowOf(w) == IF before[w] = None THEN Row(doc, job[w].task) ELSE before[w]

\* What the writer is going to invalidate.
ScopesOf(w) == IF job[w].tool = "database_undo" THEN Keys
               ELSE TaskScopes(job[w].task, RowOf(w), job[w].to)

Writing(w) == step[w] \in {"cascading", "executed"}

Covered(k) == \E w \in Writers : Writing(w) /\ k \in ScopesOf(w)

\* Nothing old under the key, nor on its way there.
Clean(k) ==
    /\ Fresh(k)
    /\ inflight[k] # None =>
          /\ stage[inflight[k]] = "second" => parts[inflight[k]] = <<First(doc, k)>>
          /\ stage[inflight[k]] = "read" => parts[inflight[k]] = Value(doc, k)

CleanOrCovered == ~blind => \A k \in Keys \ swept : Clean(k) \/ Covered(k)

CacheInv == ReadersOK /\ WritersOK /\ DocsOK /\ CleanOrCovered

\* What the runs check follows.
LEMMA InvGivesFresh ==
    CacheInv => ListingsFresh /\ TaskEntriesFresh /\ InFlightFresh
<1> SUFFICES ASSUME CacheInv, Acknowledged, ~blind
             PROVE  /\ \A k \in Projects \cup {Listing} : Fresh(k)
                    /\ \A t \in Tasks \ swept : Fresh(t)
                    /\ \A k \in Keys \ swept : inflight[k] # None =>
                          LET r == inflight[k] IN
                          /\ stage[r] \in {"second", "read"} => parts[r][1] = First(doc, k)
                          /\ stage[r] = "read" => parts[r][2] = Second(doc, k)
  BY DEF ListingsFresh, TaskEntriesFresh, InFlightFresh
<1>1. \A k \in Keys \ swept : Clean(k)
  BY DEF CacheInv, CleanOrCovered, Covered, Writing, Acknowledged
<1>2. (Projects \cup {Listing}) \cup (Tasks \ swept) \subseteq Keys \ swept
  BY CacheAssumption DEF CacheInv, WritersOK, Keys
<1> QED
  BY <1>1, <1>2 DEF Clean, Value

LEMMA CacheInit == Init => CacheInv
<1> SUFFICES ASSUME Init PROVE CacheInv
  OBVIOUS
<1>1. ReadersOK
  BY DEF Init, ReadersOK, Stages
<1>2. WritersOK
  BY DEF Init, WritersOK
<1>3. DocsOK
  BY CacheAssumption DEF Init, DocsOK, DocOK
<1>4. CleanOrCovered
  BY DEF Init, CleanOrCovered, Clean, Fresh
<1> QED
  BY <1>1, <1>2, <1>3, <1>4 DEF CacheInv

-----------------------------------------------------------------------------
\* The readers and the cache.

LEMMA SameAnswers ==
    ASSUME doc' = doc, NEW k
    PROVE  First(doc, k)' = First(doc, k) /\ Value(doc, k)' = Value(doc, k)
BY DEF Value, First, Second, Row, ContainerIn, ChildrenIn, ContentsIn

\* A step that leaves OmniFocus and the writers alone only has to leave clean
\* what was clean.
LEMMA ReaderSideStep ==
    ASSUME CacheInv, UNCHANGED <<doc, undoDoc, writerVars>>, ReadersOK',
           \A k \in Keys : Clean(k) => Clean(k)'
    PROVE  CacheInv'
<1>1. WritersOK'
  BY DEF CacheInv, WritersOK, writerVars
<1>2. DocsOK'
  BY DEF CacheInv, DocsOK
<1>3. \A k : Covered(k)' = Covered(k)
  BY DEF Covered, Writing, ScopesOf, RowOf, writerVars
<1>4. CleanOrCovered'
  BY <1>3 DEF CacheInv, CleanOrCovered, writerVars
<1> QED
  BY <1>1, <1>2, <1>4 DEF CacheInv

LEMMA WrapKeeps ==
    ASSUME CacheInv, NEW r \in Readers, WrapHit(r) \/ WrapJoin(r) \/ WrapMiss(r)
    PROVE  CacheInv'
<1>1. ASSUME NEW k \in Keys, inflight[k] # None
      PROVE  inflight[k] \in Readers \ {r} /\ key[inflight[k]] = k /\ stage[inflight[k]] \in Producing
  BY <1>1 DEF CacheInv, ReadersOK, WrapHit, WrapJoin, WrapMiss, Producing
<1>2. key[r] \in Keys /\ r # None
  BY CacheAssumption DEF CacheInv, ReadersOK
<1>3. /\ \A k \in Keys : inflight'[k] = inflight[k] \/ (inflight'[k] = r /\ k = key[r] /\ stage'[r] = "first")
      /\ \A s \in Readers \ {r} : stage'[s] = stage[s]
      /\ stage' \in [Readers -> Stages]
      /\ inflight' \in [Keys -> Readers \cup {None}]
      /\ UNCHANGED <<doc, undoDoc, cached, key, parts, writerVars>>
  BY <1>2 DEF CacheInv, ReadersOK, Stages, WrapHit, WrapJoin, WrapMiss, cacheVars
<1>4. ReadersOK'
  <2>1. \A k \in Keys : inflight'[k] # None => key[inflight'[k]] = k /\ stage'[inflight'[k]] \in Producing
    BY <1>1, <1>3 DEF Producing
  <2> QED
    BY <1>3, <2>1 DEF CacheInv, ReadersOK
<1>5. ASSUME NEW k \in Keys, Clean(k) PROVE Clean(k)'
  <2>1. First(doc, k)' = First(doc, k) /\ Value(doc, k)' = Value(doc, k)
    BY <1>3, SameAnswers
  <2>2. CASE inflight'[k] = r /\ stage'[r] = "first"
    BY <1>3, <1>5, <2>1, <2>2 DEF Clean, Fresh
  <2>3. CASE inflight'[k] = inflight[k]
    BY <1>1, <1>3, <1>5, <2>1, <2>3 DEF Clean, Fresh
  <2> QED
    BY <1>3, <2>2, <2>3
<1> QED
  BY <1>3, <1>4, <1>5, ReaderSideStep

LEMMA ReadKeeps ==
    ASSUME CacheInv, NEW r \in Readers, ReadFirst(r) \/ ReadSecond(r)
    PROVE  CacheInv'
<1>1. /\ stage' = [stage EXCEPT ![r] = IF ReadFirst(r) THEN "second" ELSE "read"]
      /\ UNCHANGED <<doc, undoDoc, cached, inflight, key, writerVars>>
      /\ stage[r] = "first" \/ stage[r] = "second"
      /\ DOMAIN parts' = Readers
      /\ \A s \in Readers \ {r} : parts'[s] = parts[s]
  BY DEF CacheInv, ReadersOK, ReadFirst, ReadSecond, cacheVars
<1>2. /\ stage' \in [Readers -> Stages]
      /\ \A s \in Readers \ {r} : stage'[s] = stage[s]
      /\ stage'[r] \in Producing
  BY <1>1 DEF CacheInv, ReadersOK, Stages, Producing
<1>3. ReadersOK'
  BY <1>1, <1>2 DEF CacheInv, ReadersOK
<1>4. /\ \/ stage'[r] = "second" /\ parts'[r] = <<First(doc, key[r])>>
         \/ stage[r] = "second" /\ stage'[r] = "read" /\ parts'[r] = <<parts[r][1], Second(doc, key[r])>>
  BY DEF CacheInv, ReadersOK, ReadFirst, ReadSecond
<1>5. ASSUME NEW k \in Keys, Clean(k) PROVE Clean(k)'
  <2>1. Fresh(k)' /\ First(doc, k)' = First(doc, k) /\ Value(doc, k)' = Value(doc, k)
    BY <1>1, <1>5, SameAnswers DEF Clean, Fresh
  <2>2. CASE inflight[k] = r
    <3>1. key[r] = k /\ r # None
      BY <2>2, CacheAssumption DEF CacheInv, ReadersOK
    <3>2. /\ stage[r] = "second" => parts[r] = <<First(doc, k)>>
      BY <1>5, <2>2, <3>1 DEF Clean
    <3>3. /\ stage'[r] = "second" => parts'[r] = <<First(doc, k)>>
          /\ stage'[r] = "read" => parts'[r] = Value(doc, k)
      BY <1>4, <3>1, <3>2 DEF Value
    <3> QED
      BY <1>1, <2>1, <2>2, <3>3 DEF Clean
  <2>3. CASE inflight[k] # r
    <3>1. inflight[k] # None => inflight[k] \in Readers \ {r}
      BY <2>3 DEF CacheInv, ReadersOK
    <3> QED
      BY <1>1, <1>2, <1>5, <2>1, <3>1 DEF Clean
  <2> QED
    BY <2>2, <2>3
<1> QED
  BY <1>1, <1>3, <1>5, ReaderSideStep

\* The factory's promise settles: r and those who joined it leave.
LEMMA SettledKeeps ==
    ASSUME CacheInv, NEW r \in Readers, Resolve(r) \/ Reject(r)
    PROVE  CacheInv'
<1>1. PICK outcome \in {"answered", "failed"} : Settled(r, outcome)
  BY DEF Resolve, Reject
<1>2. /\ stage' \in [Readers -> Stages]
      /\ \A s \in Readers : s = r \/ stage[s] = "joined" \/ stage'[s] = stage[s]
  BY <1>1 DEF Settled, CacheInv, ReadersOK, Stages
<1>3. /\ key[r] \in Keys
      /\ inflight' \in [Keys -> Readers \cup {None}]
      /\ \A k \in Keys : inflight'[k] = None \/ (inflight'[k] = inflight[k] /\ inflight[k] # r)
      /\ UNCHANGED <<doc, undoDoc, key, parts, writerVars>>
  <2>1. key[r] \in Keys /\ \A k \in Keys : inflight[k] = r => k = key[r]
    BY CacheAssumption DEF CacheInv, ReadersOK
  <2>2. \/ inflight' = [inflight EXCEPT ![key[r]] = None]
        \/ inflight' = inflight /\ inflight[key[r]] # r
    BY <2>1 DEF Resolve, Reject, cacheVars, CacheInv, ReadersOK
  <2> QED
    BY <2>1, <2>2 DEF CacheInv, ReadersOK, Resolve, Reject
<1>4. DOMAIN cached' = Keys
  BY DEF Resolve, Reject, cacheVars, CacheInv, ReadersOK
<1>5. ReadersOK'
  <2>1. \A k \in Keys : inflight'[k] # None => key[inflight'[k]] = k /\ stage'[inflight'[k]] \in Producing
    BY <1>2, <1>3 DEF CacheInv, ReadersOK, Producing
  <2> QED
    BY <1>2, <1>3, <1>4, <2>1 DEF CacheInv, ReadersOK
<1>6. ASSUME NEW k \in Keys, Clean(k) PROVE Clean(k)'
  <2>1. First(doc, k)' = First(doc, k) /\ Value(doc, k)' = Value(doc, k)
    BY <1>3, SameAnswers
  <2>2. cached'[k] = cached[k] \/ cached'[k] = Value(doc, k)
    <3>1. CASE cached' = cached
      BY <3>1
    <3>2. CASE /\ stage[r] = "read" /\ inflight[key[r]] = r
               /\ cached' = [cached EXCEPT ![key[r]] = parts[r]]
      <4>1. r # None
        BY CacheAssumption
      <4>2. k = key[r] => parts[r] = Value(doc, k)
        BY <1>6, <3>2, <4>1 DEF Clean
      <4> QED
        BY <3>2, <4>2 DEF CacheInv, ReadersOK
    <3> QED
      BY <3>1, <3>2 DEF Resolve, Reject, cacheVars
  <2>3. inflight'[k] # None => stage'[inflight'[k]] = stage[inflight[k]]
    BY <1>2, <1>3 DEF CacheInv, ReadersOK, Producing
  <2> QED
    BY <1>3, <1>6, <2>1, <2>2, <2>3 DEF Clean, Fresh
<1> QED
  BY <1>3, <1>5, <1>6, ReaderSideStep

LEMMA EvictKeeps ==
    ASSUME CacheInv, NEW k \in Keys, Evict(k)
    PROVE  CacheInv'
<1>1. ReadersOK'
  BY DEF Evict, CacheInv, ReadersOK, readerVars
<1>2. ASSUME NEW x \in Keys, Clean(x) PROVE Clean(x)'
  <2>1. First(doc, x)' = First(doc, x) /\ Value(doc, x)' = Value(doc, x)
    BY SameAnswers DEF Evict
  <2>2. cached'[x] = cached[x] \/ cached'[x] = None
    BY DEF Evict, CacheInv, ReadersOK
  <2>3. UNCHANGED <<inflight, stage, parts>>
    BY DEF Evict, readerVars
  <2> QED
    BY <1>2, <2>1, <2>2, <2>3 DEF Clean, Fresh
<1> QED
  BY <1>1, <1>2, ReaderSideStep DEF Evict

-----------------------------------------------------------------------------
\* The writers.

LEMMA RowIsRow ==
    ASSUME NEW d, DocOK(d), NEW t \in Tasks
    PROVE  /\ Row(d, t) \in Rows /\ Row(d, t) # None
           /\ Row(d, t).task = t /\ Row(d, t).parent = d.place[t]
           /\ Row(d, t).project = ContainerIn(d)[t]
<1>1. d.place[t] \in Places /\ d.done[t] \in BOOLEAN /\ d.flagged[t] \in BOOLEAN
  BY DEF DocOK
<1>2. ContainerIn(d)[t] \in Places
  BY ContainerIsPlace
<1>3. Row(d, t) \in Rows
  BY <1>1, <1>2 DEF Row, Rows
<1> QED
  BY <1>3, CacheAssumption DEF Row

\* The readers and the cache are left alone.
LEMMA WriterSideStep ==
    ASSUME ReadersOK, UNCHANGED <<cacheVars, readerVars>>
    PROVE  /\ ReadersOK'
           /\ \A k \in Keys : Clean(k) /\ Same(doc, doc', k) => Clean(k)'
<1>1. ReadersOK'
  BY DEF ReadersOK, cacheVars, readerVars
<1>2. ASSUME NEW k \in Keys, Clean(k), Same(doc, doc', k) PROVE Clean(k)'
  <2>1. First(doc', k) = First(doc, k) /\ Value(doc', k) = Value(doc, k)
    BY <1>2 DEF Same, Value
  <2>2. First(doc, k)' = First(doc', k) /\ Value(doc, k)' = Value(doc', k)
    BY DEF Value, First, Second, Row, ContainerIn, ChildrenIn, ContentsIn
  <2>3. UNCHANGED <<cached, inflight, stage, parts>>
    BY DEF cacheVars, readerVars
  <2> QED
    BY <1>2, <2>1, <2>2, <2>3 DEF Clean, Fresh
<1> QED
  BY <1>1, <1>2

\* A step of w that changes OmniFocus: w is going to invalidate what it
\* changes, and what somebody was going to invalidate still will be.
LEMMA StillCovered ==
    ASSUME ReadersOK, CleanOrCovered, UNCHANGED <<cacheVars, readerVars>>,
           NEW w \in Writers, blind => blind', swept \subseteq swept',
           ~blind' =>
             \A k \in Keys \ swept' :
                /\ Same(doc, doc', k) \/ (Writing(w)' /\ k \in ScopesOf(w)')
                /\ \A v \in Writers : Writing(v) /\ k \in ScopesOf(v) =>
                      \/ Writing(v)' /\ k \in ScopesOf(v)'
                      \/ Writing(w)' /\ k \in ScopesOf(w)'
    PROVE  CleanOrCovered'
<1> SUFFICES ASSUME ~blind', NEW k \in Keys \ swept' PROVE Clean(k)' \/ Covered(k)'
  BY DEF CleanOrCovered
<1>1. Clean(k) \/ Covered(k)
  BY DEF CleanOrCovered
<1>2. CASE Clean(k)
  BY <1>2, WriterSideStep DEF Covered
<1>3. CASE Covered(k)
  BY <1>3 DEF Covered
<1> QED
  BY <1>1, <1>2, <1>3

LEMMA JobOK ==
    ASSUME WritersOK, NEW w \in Writers
    PROVE  /\ job[w].tool \in {"task_move", "task_complete", "task_update", "database_undo"}
           /\ job[w].task \in Tasks
           /\ job[w].tool = "task_move" => job[w].to \in Places
BY CacheAssumption DEF WritersOK

LEMMA ScopesKept ==
    ASSUME NEW v \in Writers, job' = job, before'[v] = before[v], before[v] # None \/ doc' = doc
    PROVE  ScopesOf(v)' = ScopesOf(v)
<1>1. RowOf(v)' = RowOf(v)
  <2>1. CASE before[v] # None
    BY <2>1 DEF RowOf
  <2>2. CASE doc' = doc
    <3>1. Row(doc, job[v].task)' = Row(doc, job[v].task)
      BY <2>2 DEF Row, ContainerIn
    <3> QED
      BY <3>1 DEF RowOf
  <2> QED
    BY <2>1, <2>2
<1> QED
  BY <1>1 DEF ScopesOf, TaskScopes, Keys

\* A step of w that only looks at OmniFocus.
LEMMA LookingKeeps ==
    ASSUME CacheInv, NEW w \in Writers, WritersOK',
           UNCHANGED <<doc, undoDoc, cacheVars, readerVars, job, swept>>,
           blind => blind',
           \A v \in Writers \ {w} : step'[v] = step[v] /\ before'[v] = before[v],
           ~blind' /\ Writing(w) => Writing(w)' /\ ScopesOf(w)' = ScopesOf(w)
    PROVE  CacheInv'
<1>1. \A k : Same(doc, doc', k)
  BY DEF Same
<1>2. \A v \in Writers \ {w} : ScopesOf(v)' = ScopesOf(v) /\ Writing(v)' = Writing(v)
  BY ScopesKept DEF Writing
<1>3. CleanOrCovered'
  BY <1>1, <1>2, StillCovered DEF CacheInv
<1>4. ReadersOK' /\ DocsOK'
  BY WriterSideStep DEF CacheInv, DocsOK
<1> QED
  BY <1>3, <1>4 DEF CacheInv

LEMMA PrefetchKeeps ==
    ASSUME CacheInv, NEW w \in Writers, Prefetch(w)
    PROVE  CacheInv'
<1> DEFINE row == Row(doc, job[w].task)
<1>1. row \in Rows /\ row # None
  BY JobOK, RowIsRow DEF CacheInv, DocsOK
<1>2. /\ step[w] = "idle" /\ job[w].tool \in {"task_move", "task_complete"}
      /\ before' = [before EXCEPT ![w] = row]
      /\ \E s \in {"answered", "ready"} : step' = [step EXCEPT ![w] = s]
      /\ UNCHANGED <<doc, undoDoc, cacheVars, readerVars, job, blind, swept>>
  BY DEF Prefetch
<1>3. \E T \in SUBSET Tasks : todo' = [todo EXCEPT ![w] = T] /\ (job[w].tool = "task_move" => T = {})
  BY DEF Prefetch, ChildrenIn
<1> HIDE DEF row
<1>4. WritersOK'
  BY <1>1, <1>2, <1>3 DEF CacheInv, WritersOK
<1>5. \A v \in Writers \ {w} : step'[v] = step[v] /\ before'[v] = before[v]
  BY <1>2 DEF CacheInv, WritersOK
<1>6. ~Writing(w)
  BY <1>2 DEF Writing
<1> QED
  BY <1>2, <1>4, <1>5, <1>6, LookingKeeps

LEMMA FailKeeps ==
    ASSUME CacheInv, NEW w \in Writers, Fail(w)
    PROVE  CacheInv'
<1>1. WritersOK'
  BY DEF Fail, CacheInv, WritersOK
<1>2. \A v \in Writers \ {w} : step'[v] = step[v] /\ before'[v] = before[v]
  BY DEF Fail, CacheInv, WritersOK
<1>3. blind => blind'
  BY DEF Fail
<1>4. Writing(w) => blind'
  BY DEF Fail, Writing
<1> QED
  BY <1>1, <1>2, <1>3, <1>4, LookingKeeps DEF Fail

LEMMA RereadKeeps ==
    ASSUME CacheInv, NEW w \in Writers, Reread(w)
    PROVE  CacheInv'
<1> DEFINE row == Row(doc, job[w].task)
<1>1. row \in Rows /\ row # None
  BY JobOK, RowIsRow DEF CacheInv, DocsOK
<1>2. /\ step[w] = "executed" /\ before[w] = None /\ before' = [before EXCEPT ![w] = row]
      /\ UNCHANGED <<doc, undoDoc, cacheVars, readerVars, job, step, todo, blind, swept>>
  BY DEF Reread
<1>3. before'[w] = row /\ RowOf(w) = row
  BY <1>2 DEF RowOf, CacheInv, WritersOK
<1> HIDE DEF row
<1>4. WritersOK'
  BY <1>1, <1>2 DEF CacheInv, WritersOK
<1>5. \A v \in Writers \ {w} : step'[v] = step[v] /\ before'[v] = before[v]
  BY <1>2 DEF CacheInv, WritersOK
<1>6. RowOf(w)' = row
  BY <1>1, <1>3 DEF RowOf
<1>7. Writing(w)' = Writing(w) /\ ScopesOf(w)' = ScopesOf(w)
  BY <1>2, <1>3, <1>6 DEF Writing, ScopesOf, TaskScopes, Keys
<1> QED
  BY <1>2, <1>4, <1>5, <1>7, LookingKeeps

LEMMA AcknowledgeKeeps ==
    ASSUME CacheInv, NEW w \in Writers, Acknowledge(w)
    PROVE  CacheInv'
<1>1. /\ step[w] = "executed" /\ step' = [step EXCEPT ![w] = "answered"]
      /\ Flush(ScopesOf(w))
      /\ UNCHANGED <<doc, undoDoc, readerVars, job, before, todo, blind, swept>>
  BY DEF Acknowledge, ScopesOf, RowOf
<1>2. WritersOK'
  BY <1>1 DEF CacheInv, WritersOK
<1>3. ReadersOK'
  BY <1>1, CacheAssumption DEF Flush, CacheInv, ReadersOK, readerVars
<1>4. DocsOK'
  BY <1>1 DEF CacheInv, DocsOK
<1>5. \A v \in Writers \ {w} : ScopesOf(v)' = ScopesOf(v) /\ Writing(v)' = Writing(v)
  BY <1>1, ScopesKept DEF Writing, CacheInv, WritersOK
<1>6. ASSUME ~blind', NEW k \in Keys \ swept' PROVE Clean(k)' \/ Covered(k)'
  <2>1. First(doc, k)' = First(doc, k) /\ Value(doc, k)' = Value(doc, k)
    BY <1>1, SameAnswers
  <2>2. CASE k \in ScopesOf(w)
    BY <1>1, <2>2 DEF Flush, Clean, Fresh
  <2>3. CASE k \notin ScopesOf(w)
    <3>1. cached'[k] = cached[k] /\ inflight'[k] = inflight[k] /\ UNCHANGED <<stage, parts>>
      BY <1>1, <2>3 DEF Flush, readerVars
    <3>2. Clean(k) \/ Covered(k)
      BY <1>1, <1>6 DEF CacheInv, CleanOrCovered
    <3>3. Clean(k) => Clean(k)'
      BY <2>1, <3>1 DEF Clean, Fresh
    <3>4. Covered(k) => Covered(k)'
      BY <1>5, <2>3 DEF Covered
    <3> QED
      BY <3>2, <3>3, <3>4
  <2> QED
    BY <2>2, <2>3
<1>7. CleanOrCovered'
  BY <1>6 DEF CleanOrCovered
<1> QED
  BY <1>2, <1>3, <1>4, <1>7 DEF CacheInv

-----------------------------------------------------------------------------
\* The writes.

\* A step of w that edits the row of t in place.
LEMMA EditKeeps ==
    ASSUME CacheInv, NEW w \in Writers, NEW t \in Tasks, DocOK(doc'), doc'.place = doc.place,
           \A x \in Tasks \ {t} : doc'.done[x] = doc.done[x] /\ doc'.flagged[x] = doc.flagged[x],
           UNCHANGED <<cacheVars, readerVars, job>>, blind => blind', swept \subseteq swept',
           \A v \in Writers \ {w} : step'[v] = step[v] /\ before'[v] = before[v],
           ~blind' =>
              /\ Writing(w)' /\ (Shows(doc, t) \cap Keys) \ swept' \subseteq ScopesOf(w)'
              /\ Writing(w) => ScopesOf(w)' = ScopesOf(w)
    PROVE  CleanOrCovered'
<1>1. \A k \in Keys \ Shows(doc, t) : Same(doc, doc', k)
  BY EditChanges DEF CacheInv, DocsOK
<1>2. ASSUME NEW v \in Writers \ {w} PROVE ScopesOf(v)' = ScopesOf(v) /\ Writing(v)' = Writing(v)
  <2>1. RowOf(v)'.parent = RowOf(v).parent /\ RowOf(v)'.project = RowOf(v).project
    <3>1. job[v].task \in Tasks
      BY JobOK DEF CacheInv
    <3>2. Row(doc', job[v].task).parent = Row(doc, job[v].task).parent
      BY DEF Row
    <3>3. Row(doc', job[v].task).project = Row(doc, job[v].task).project
      BY <3>1, ContainerByPlace DEF CacheInv, DocsOK, Row
    <3>4. RowOf(v)' = IF before[v] = None THEN Row(doc', job[v].task) ELSE before[v]
      BY DEF RowOf, Row, ContainerIn
    <3> QED
      BY <3>2, <3>3, <3>4 DEF RowOf
  <2> QED
    BY <2>1 DEF ScopesOf, TaskScopes, Keys, Writing
<1> QED
  BY <1>1, <1>2, StillCovered DEF CacheInv

LEMMA CompleteChildKeeps ==
    ASSUME CacheInv, NEW w \in Writers, CompleteChild(w)
    PROVE  CacheInv'
<1> DEFINE t == job[w].task
<1>1. t \in Tasks /\ before[w] # None /\ job[w].tool \in {"task_move", "task_complete"} /\ DocOK(doc)
  BY JobOK DEF CompleteChild, CacheInv, WritersOK, DocsOK
<1>2. PICK c \in todo[w] :
          /\ todo' = [todo EXCEPT ![w] = @ \ {c}]
          /\ \/ /\ doc' = [doc EXCEPT !.done[c] = TRUE]
                /\ undoDoc' = doc
                /\ swept' = swept \cup {c}
             \/ UNCHANGED <<doc, undoDoc, swept>>
  BY DEF CompleteChild
<1>3. c \in Tasks /\ todo[w] \ todo'[w] = {c}
  BY <1>2 DEF CacheInv, WritersOK
<1>4. /\ step' = [step EXCEPT ![w] = "cascading"]
      /\ blind' = (blind \/ Row(doc, t).project # before[w].project
                         \/ \E x \in todo[w] \ todo'[w] : doc.place[x] # t)
      /\ UNCHANGED <<cacheVars, readerVars, job, before>>
  BY DEF CompleteChild
<1>5. /\ blind' \in BOOLEAN /\ (blind => blind')
      /\ ~blind' => Row(doc, t).project = before[w].project /\ doc.place[c] = t
  BY <1>3, <1>4 DEF CacheInv, WritersOK
<1>6. DocOK(doc') /\ doc'.place = doc.place
      /\ \A x \in Tasks \ {c} : doc'.done[x] = doc.done[x] /\ doc'.flagged[x] = doc.flagged[x]
  <2>1. CASE doc' = [doc EXCEPT !.done[c] = TRUE]
    BY <1>1, <1>3, <2>1 DEF DocOK
  <2>2. CASE doc' = doc
    BY <1>1, <2>2
  <2> QED
    BY <1>2, <2>1, <2>2
<1>7. DocsOK'
  BY <1>2, <1>6 DEF CacheInv, DocsOK
<1>8. swept \subseteq swept' /\ swept' \subseteq Tasks
  BY <1>2, <1>3 DEF CacheInv, WritersOK
<1>9. WritersOK'
  <2>1. step' \in [Writers -> {"idle", "ready", "cascading", "executed", "answered", "failed"}]
        /\ step[w] \in {"ready", "cascading"} /\ step'[w] = "cascading"
        /\ \A v \in Writers \ {w} : step'[v] = step[v]
    BY <1>4 DEF CompleteChild, CacheInv, WritersOK
  <2>2. DOMAIN todo' = Writers /\ \A v \in Writers : todo'[v] \subseteq todo[v]
    BY <1>2 DEF CacheInv, WritersOK
  <2> QED
    BY <1>4, <1>5, <1>8, <2>1, <2>2 DEF CacheInv, WritersOK
<1>10. \A v \in Writers \ {w} : step'[v] = step[v] /\ before'[v] = before[v]
  BY <1>4 DEF CacheInv, WritersOK
<1>11. Writing(w)' /\ ScopesOf(w)' = ScopesOf(w)
  BY <1>1, <1>4, ScopesKept DEF Writing, CacheInv, WritersOK
<1>12. ASSUME ~blind', c \in swept' PROVE (Shows(doc, c) \cap Keys) \ swept' \subseteq ScopesOf(w)'
  <2>1. ContainerIn(doc)[c] = before[w].project
    BY <1>1, <1>3, <1>5, <1>12, ContainerEquation, RowIsRow
  <2> QED
    BY <1>1, <1>5, <1>11, <1>12, <2>1 DEF Shows, ScopesOf, TaskScopes, RowOf, Keys
<1>13. CleanOrCovered'
  <2>1. CASE c \in swept'
    BY <1>3, <1>4, <1>5, <1>6, <1>8, <1>10, <1>11, <1>12, <2>1, EditKeeps
  <2>2. CASE UNCHANGED <<doc, undoDoc, swept>>
    <3>1. \A k : Same(doc, doc', k)
      BY <2>2 DEF Same
    <3>2. \A v \in Writers \ {w} : ScopesOf(v)' = ScopesOf(v) /\ Writing(v)' = Writing(v)
      BY <1>4, <1>10, <2>2, ScopesKept DEF Writing
    <3> QED
      BY <1>4, <1>5, <1>8, <1>11, <3>1, <3>2, StillCovered DEF CacheInv
  <2> QED
    BY <1>2, <2>1, <2>2
<1>14. ReadersOK'
  BY <1>4, WriterSideStep DEF CacheInv
<1> QED
  BY <1>7, <1>9, <1>13, <1>14 DEF CacheInv

\* What a write that was answered invalidates: everything that shows the task.
LEMMA AnsweredWrite ==
    ASSUME CacheInv, NEW w \in Writers, Execute(w), ~blind',
           before[w] # None \/ doc'.place = doc.place, DocOK(doc'), job[w].tool # "database_undo"
    PROVE  /\ Writing(w)'
           /\ ScopesOf(w)' = (Shows(doc, job[w].task) \cup {job[w].to}) \cap Keys
           /\ Writing(w) => ScopesOf(w)' = ScopesOf(w)
<1> DEFINE t == job[w].task
<1>1. t \in Tasks /\ DocOK(doc)
  BY JobOK DEF CacheInv, DocsOK
<1>2. step' = [step EXCEPT ![w] = "executed"] /\ ~Overtaken(w) /\ job' = job /\ before' = before
  BY DEF Execute
<1>3. Writing(w)'
  BY <1>2 DEF Writing, CacheInv, WritersOK
<1>4. RowOf(w)'.parent = doc.place[t] /\ RowOf(w)'.project = ContainerIn(doc)[t]
  <2>1. CASE before[w] # None
    <3>1. before[w].parent = Row(doc, t).parent /\ before[w].project = Row(doc, t).project
      BY <1>2, <2>1 DEF Overtaken
    <3> QED
      BY <1>1, <1>2, <2>1, <3>1, RowIsRow DEF RowOf
  <2>2. CASE before[w] = None
    <3>1. RowOf(w)' = Row(doc', t)
      BY <1>2, <2>2 DEF RowOf, Row, ContainerIn
    <3>2. ContainerIn(doc')[t] = ContainerIn(doc)[t] /\ doc'.place = doc.place
      BY <1>1, <2>2, ContainerByPlace
    <3> QED
      BY <1>1, <3>1, <3>2, RowIsRow
  <2> QED
    BY <2>1, <2>2
<1>5. Writing(w) => before[w] # None
  BY DEF Execute, Writing, CacheInv, WritersOK
<1>6. ScopesOf(w)' = (Shows(doc, t) \cup {job[w].to}) \cap Keys
  BY <1>2, <1>4 DEF ScopesOf, TaskScopes, Shows, Keys
<1>7. Writing(w) => ScopesOf(w)' = ScopesOf(w)
  BY <1>2, <1>5, ScopesKept
<1> QED
  BY <1>3, <1>6, <1>7

\* A move also changes what the other tools are going to invalidate: the
\* parent and the project an update has not yet read again.
LEMMA MoveScopes ==
    ASSUME CacheInv, NEW v \in Writers, NEW t \in Tasks, NEW to \in Places \ Tasks,
           Moved(doc, doc', t, to), job' = job, before'[v] = before[v], NEW k \in ScopesOf(v)
    PROVE  k \in ScopesOf(v)' \/ k \in Shows(doc, t)
<1>1. CASE before[v] # None \/ job[v].tool = "database_undo"
  BY <1>1, ScopesKept DEF ScopesOf, Keys
<1>2. CASE before[v] = None /\ job[v].tool # "database_undo"
  <2> DEFINE x == job[v].task
  <2>1. x \in Tasks /\ DocOK(doc)
    BY JobOK DEF CacheInv, DocsOK
  <2>2. DocOK(doc') /\ \/ ContainerIn(doc')[x] = ContainerIn(doc)[x]
                       \/ ContainerIn(doc)[x] = ContainerIn(doc)[t]
    BY <2>1, ContainerAfterMove
  <2>3. x = t \/ doc'.place[x] = doc.place[x]
    BY <2>1 DEF Moved
  <2>4. RowOf(v) = Row(doc, x) /\ RowOf(v)' = Row(doc', x)
    BY <1>2 DEF RowOf, Row, ContainerIn
  <2>5. /\ RowOf(v).parent = doc.place[x] /\ RowOf(v).project = ContainerIn(doc)[x]
        /\ RowOf(v)'.parent = doc'.place[x] /\ RowOf(v)'.project = ContainerIn(doc')[x]
    BY <2>1, <2>2, <2>4, RowIsRow
  <2>6. ScopesOf(v) = {x, doc.place[x], ContainerIn(doc)[x], job[v].to, Listing} \cap Keys
    BY <1>2, <2>5 DEF ScopesOf, TaskScopes
  <2>7. ScopesOf(v)' = {x, doc'.place[x], ContainerIn(doc')[x], job[v].to, Listing} \cap Keys
    BY <1>2, <2>5 DEF ScopesOf, TaskScopes, Keys
  <2> QED
    BY <2>2, <2>3, <2>6, <2>7 DEF Shows
<1> QED
  BY <1>1, <1>2

LEMMA MoveKeeps ==
    ASSUME CacheInv, NEW w \in Writers, Execute(w), job[w].tool = "task_move", job[w].to \notin Tasks
    PROVE  CleanOrCovered' /\ DocOK(doc')
<1> DEFINE t == job[w].task
           to == job[w].to
<1>1. t \in Tasks /\ to \in Places \ Tasks /\ DocOK(doc) /\ before[w] # None
  BY JobOK DEF Execute, CacheInv, WritersOK, DocsOK
<1>2. /\ doc' = [doc EXCEPT !.place[t] = to]
      /\ swept' = swept \cup {x \in Tasks \ {t} : ContainerIn(doc')[x] # ContainerIn(doc)[x]}
  BY DEF Execute, After, MovedAlong
<1>3. Moved(doc, doc', t, to)
  BY <1>1, <1>2 DEF Moved, DocOK
<1>4. DocOK(doc')
  BY <1>1, <1>3, ContainerAfterMove
<1>5. blind => blind'
  BY DEF Execute
<1>6. ~blind' => Writing(w)' /\ ScopesOf(w)' = (Shows(doc, t) \cup {to}) \cap Keys
  BY <1>1, <1>4, AnsweredWrite
<1>7. ASSUME NEW k \in Keys \ swept' PROVE Same(doc, doc', k) \/ k \in Shows(doc, t) \cup {to}
  BY <1>1, <1>2, <1>3, MoveChanges DEF Shows
<1>8. ASSUME NEW v \in Writers, NEW k \in Keys, ~blind', Writing(v), k \in ScopesOf(v)
      PROVE  \/ Writing(v)' /\ k \in ScopesOf(v)'
             \/ Writing(w)' /\ k \in ScopesOf(w)'
  <2>1. k \in ScopesOf(v)' \/ k \in Shows(doc, t)
    BY <1>1, <1>3, <1>8, MoveScopes DEF Execute
  <2>2. Writing(v)'
    BY <1>6, <1>8 DEF Writing, Execute, CacheInv, WritersOK
  <2> QED
    BY <1>6, <1>8, <2>1, <2>2
<1> QED
  BY <1>2, <1>4, <1>5, <1>6, <1>7, <1>8, StillCovered DEF Execute, CacheInv

LEMMA TickKeeps ==
    ASSUME CacheInv, NEW w \in Writers, Execute(w), job[w].tool \in {"task_complete", "task_update"}
    PROVE  CleanOrCovered' /\ DocOK(doc')
<1> DEFINE t == job[w].task
<1>1. t \in Tasks /\ DocOK(doc)
  BY JobOK DEF CacheInv, DocsOK
<1>2. doc' = [doc EXCEPT !.done[t] = TRUE] \/ doc' = [doc EXCEPT !.flagged[t] = ~@]
  BY DEF Execute, After
<1>3. /\ DocOK(doc') /\ doc'.place = doc.place
      /\ \A x \in Tasks \ {t} : doc'.done[x] = doc.done[x] /\ doc'.flagged[x] = doc.flagged[x]
  <2>1. CASE doc' = [doc EXCEPT !.done[t] = TRUE]
    BY <1>1, <2>1 DEF DocOK
  <2>2. CASE doc' = [doc EXCEPT !.flagged[t] = ~@]
    <3>1. doc'.flagged = [doc.flagged EXCEPT ![t] = ~doc.flagged[t]]
          /\ doc'.flagged \in [Tasks -> BOOLEAN]
      BY <1>1, <2>2 DEF DocOK
    <3>2. \A x \in Tasks \ {t} : doc'.flagged[x] = doc.flagged[x]
      BY <1>1, <3>1 DEF DocOK
    <3>3. doc' = [doc EXCEPT !.flagged = doc'.flagged]
      BY <2>2, <3>1 DEF DocOK
    <3> QED
      BY <1>1, <3>1, <3>2, <3>3 DEF DocOK
  <2> QED
    BY <1>2, <2>1, <2>2
<1>4. /\ blind => blind'
      /\ swept \subseteq swept'
      /\ UNCHANGED <<cacheVars, readerVars, job>>
      /\ \A v \in Writers \ {w} : step'[v] = step[v] /\ before'[v] = before[v]
  BY DEF Execute, CacheInv, WritersOK
<1>5. ~blind' => /\ Writing(w)' /\ Shows(doc, t) \cap Keys \subseteq ScopesOf(w)'
                 /\ Writing(w) => ScopesOf(w)' = ScopesOf(w)
  BY <1>3, AnsweredWrite
<1>6. CleanOrCovered'
  BY <1>1, <1>3, <1>4, <1>5, EditKeeps
<1> QED
  BY <1>3, <1>6

\* database_undo clears the whole cache.
LEMMA UndoKeeps ==
    ASSUME CacheInv, NEW w \in Writers, Execute(w), job[w].tool = "database_undo"
    PROVE  CleanOrCovered' /\ DocOK(doc')
<1>1. doc' = IF undoDoc = None THEN doc ELSE undoDoc
  BY DEF Execute, After
<1>2. DocOK(doc')
  BY <1>1 DEF CacheInv, DocsOK
<1>3. /\ blind => blind'
      /\ swept \subseteq swept'
      /\ UNCHANGED <<cacheVars, readerVars, job, before>>
      /\ \A v \in Writers \ {w} : step'[v] = step[v]
      /\ ~Writing(w)
  BY DEF Execute, CacheInv, WritersOK, Writing
<1>4. CASE undoDoc = None
  <2>1. \A k : Same(doc, doc', k)
    BY <1>1, <1>4 DEF Same
  <2>2. \A v \in Writers : Writing(v) => ScopesOf(v)' = ScopesOf(v) /\ Writing(v)'
    BY <1>1, <1>3, <1>4, ScopesKept DEF Writing
  <2>3. CleanOrCovered'
    BY <1>3, <2>1, <2>2, StillCovered DEF CacheInv
  <2> QED
    BY <1>2, <2>3
<1>5. CASE undoDoc # None
  <2>1. ~blind' => Writing(w)' /\ ScopesOf(w)' = Keys
    BY <1>3, <1>5 DEF Execute, Writing, ScopesOf, Keys, CacheInv, WritersOK
  <2>2. CleanOrCovered'
    BY <1>3, <2>1, StillCovered DEF CacheInv
  <2> QED
    BY <1>2, <2>2
<1> QED
  BY <1>4, <1>5

LEMMA ExecuteKeeps ==
    ASSUME CacheInv, NEW w \in Writers, Execute(w), job[w].tool = "task_move" => job[w].to \notin Tasks
    PROVE  CacheInv'
<1>1. CleanOrCovered' /\ DocOK(doc')
  BY JobOK, MoveKeeps, TickKeeps, UndoKeeps DEF CacheInv
<1>2. DocsOK'
  BY <1>1 DEF Execute, CacheInv, DocsOK
<1>3. ReadersOK'
  BY WriterSideStep DEF Execute, CacheInv
<1>4. swept' \subseteq Tasks /\ blind' \in BOOLEAN
  BY DEF Execute, MovedAlong, CacheInv, WritersOK
<1>5. /\ \E s \in {"executed", "answered", "failed"} : step' = [step EXCEPT ![w] = s]
      /\ before[w] = None => job[w].tool \in {"task_update", "database_undo"}
      /\ UNCHANGED <<job, before, todo>>
  BY DEF Execute, CacheInv, WritersOK
<1>6. WritersOK'
  BY <1>4, <1>5 DEF CacheInv, WritersOK
<1> QED
  BY <1>1, <1>2, <1>3, <1>6 DEF CacheInv

-----------------------------------------------------------------------------

\* The moves considered go to a project or to the inbox.  For a move under a
\* task the theorems would be false: task_move flushes the new parent, not the
\* project that parent is in.
MovesToContainers == \A j \in Jobs : j.tool = "task_move" => j.to \notin Tasks

LEMMA CacheStep ==
    ASSUME MovesToContainers, CacheInv, [Next]_vars
    PROVE  CacheInv'
<1>1. CASE UNCHANGED vars
  <2>1. ReadersOK'
    BY <1>1 DEF CacheInv, ReadersOK, vars, cacheVars, readerVars
  <2>2. \A k \in Keys : Clean(k) => Clean(k)'
    BY <1>1, SameAnswers DEF Clean, Fresh, vars, cacheVars, readerVars
  <2> QED
    BY <1>1, <2>1, <2>2, ReaderSideStep DEF vars
<1>2. ASSUME NEW r \in Readers, WrapHit(r) \/ WrapJoin(r) \/ WrapMiss(r) \/ Read(r) \/ Reject(r)
      PROVE  CacheInv'
  BY <1>2, WrapKeeps, ReadKeeps, SettledKeeps DEF Read
<1>3. ASSUME NEW k \in Keys, Evict(k) PROVE CacheInv'
  BY <1>3, EvictKeeps
<1>4. ASSUME NEW w \in Writers, Prefetch(w) PROVE CacheInv'
  BY <1>4, PrefetchKeeps
<1>5. ASSUME NEW w \in Writers, CompleteChild(w) PROVE CacheInv'
  BY <1>5, CompleteChildKeeps
<1>6. ASSUME NEW w \in Writers, Execute(w) PROVE CacheInv'
  BY <1>6, ExecuteKeeps DEF MovesToContainers, CacheInv, WritersOK
<1>7. ASSUME NEW w \in Writers, Fail(w) PROVE CacheInv'
  BY <1>7, FailKeeps
<1>8. ASSUME NEW w \in Writers, Reread(w) PROVE CacheInv'
  BY <1>8, RereadKeeps
<1>9. ASSUME NEW w \in Writers, Acknowledge(w) PROVE CacheInv'
  BY <1>9, AcknowledgeKeeps
<1> QED
  BY <1>1, <1>2, <1>3, <1>4, <1>5, <1>6, <1>7, <1>8, <1>9 DEF Next

LEMMA InvAlways ==
    ASSUME MovesToContainers
    PROVE  Spec => []CacheInv
<1>1. CacheInv /\ [Next]_vars => CacheInv'
  BY CacheStep
<1> QED
  BY <1>1, CacheInit, PTL DEF Spec

\* Once every write is acknowledged (and none was reported as failed or had its
\* prefetched row overtaken), what the cache holds of a project or of a list is
\* what OmniFocus would answer: invalidateTaskMutation flushes every key whose
\* value a write changed, and no read in flight brings it back.
THEOREM ListingsStayFresh ==
    ASSUME MovesToContainers
    PROVE  Spec => []ListingsFresh
<1>1. CacheInv => ListingsFresh
  BY InvGivesFresh
<1> QED
  BY <1>1, InvAlways, PTL

\* The same for the cached rows of the tasks themselves, except those that a
\* write changed along with the task it named.
THEOREM TaskEntriesStayFresh ==
    ASSUME MovesToContainers
    PROVE  Spec => []TaskEntriesFresh
<1>1. CacheInv => TaskEntriesFresh
  BY InvGivesFresh
<1> QED
  BY <1>1, InvAlways, PTL

\* The same for the reads a caller can still join: whoever asks after the
\* acknowledgement is not given a value from before it.
THEOREM InFlightStaysFresh ==
    ASSUME MovesToContainers
    PROVE  Spec => []InFlightFresh
<1>1. CacheInv => InFlightFresh
  BY InvGivesFresh
<1> QED
  BY <1>1, InvAlways, PTL

-----------------------------------------------------------------------------
\* THE TOOL MIDDLEWARE

\* What ProbeSlotComesBack needs to be inductive: the types it is about.
ProbeTypes ==
    /\ probeInFlight \in BOOLEAN
    /\ phase \in [Calls -> {"idle", "refused", "limited", "running", "settled"}]
    /\ probing \subseteq Calls

ProbeInv == ProbeTypes /\ ProbeSlotComesBack

\* The slot is taken only in a half-open circuit: outside it nobody has it.
LEMMA FreeOutsideHalfOpen ==
    ASSUME ProbeInv, circuit # "half_open"
    PROVE  probeInFlight = FALSE
BY DEF ProbeInv, ProbeTypes, ProbeSlotComesBack

\* A call that the breaker admits and an inner layer answers or runs: if it is
\* the probe, it is itself the one that will give the slot back.
LEMMA AdmittedHoldsTheSlot ==
    ASSUME ProbeInv, NEW c \in Calls, NEW p \in {"limited", "running"},
           Admitted(c), phase' = [phase EXCEPT ![c] = p]
    PROVE  ProbeInv'
<1>1. ProbeTypes'
  BY DEF ProbeInv, ProbeTypes, Admitted
<1>2. ProbeSlotComesBack'
  <2> SUFFICES ASSUME probeInFlight' PROVE circuit' = "half_open" /\ c \in probing' /\ phase'[c] = p
    BY DEF ProbeSlotComesBack
  <2>1. StateNow = "half_open"
    BY DEF Admitted
  <2> QED
    BY <2>1 DEF Admitted, ProbeInv, ProbeTypes
<1> QED
  BY <1>1, <1>2 DEF ProbeInv

\* However a call settles, the slot is free afterwards.
LEMMA SettlingFreesTheSlot ==
    ASSUME ProbeInv, NEW c \in Calls, Settle(c)
    PROVE  probeInFlight' = FALSE
<1>1. CASE OnSuccess
  BY <1>1, FreeOutsideHalfOpen DEF OnSuccess
<1>2. CASE OnFailure
  BY <1>2, FreeOutsideHalfOpen DEF OnFailure, Open
<1>3. CASE OnUncounted
  BY <1>3, FreeOutsideHalfOpen DEF OnUncounted, FreeProbe
<1> QED
  BY <1>1, <1>2, <1>3 DEF Settle, SettleOk, SettleOutage, SettleUncounted

LEMMA ProbeInit == MiddlewareInit => ProbeInv
BY DEF MiddlewareInit, ProbeInv, ProbeTypes, ProbeSlotComesBack

LEMMA ProbeStep == ProbeInv /\ [MiddlewareNext]_middlewareVars => ProbeInv'
<1> SUFFICES ASSUME ProbeInv, [MiddlewareNext]_middlewareVars PROVE ProbeInv'
  OBVIOUS
<1>1. ASSUME NEW c \in Calls, FastFail(c) PROVE ProbeInv'
  <2>1. ProbeTypes'
    BY <1>1 DEF FastFail, ProbeNow, ProbeInv, ProbeTypes
  <2>2. ProbeSlotComesBack'
    <3> SUFFICES ASSUME probeInFlight' PROVE ProbeSlotComesBack'
      BY DEF ProbeSlotComesBack
    <3>1. probeInFlight /\ ~Lapsed
      BY <1>1 DEF FastFail, ProbeNow
    <3>2. PICK d \in probing : phase[d] \in {"running", "limited"}
      BY <3>1 DEF ProbeInv, ProbeSlotComesBack
    <3>3. circuit' = "half_open" /\ probing' = probing
      BY <1>1, <3>1 DEF FastFail, StateNow, ProbeInv, ProbeSlotComesBack
    <3>4. phase'[d] = phase[d]
      BY <1>1, <3>2 DEF FastFail, ProbeInv, ProbeTypes
    <3> QED
      BY <3>2, <3>3, <3>4 DEF ProbeSlotComesBack
  <2> QED
    BY <2>1, <2>2 DEF ProbeInv
<1>2. ASSUME NEW c \in Calls, RateLimited(c) PROVE ProbeInv'
  BY <1>2, AdmittedHoldsTheSlot DEF RateLimited
<1>3. ASSUME NEW c \in Calls, NEW arg \in Args, Enter(c, arg) PROVE ProbeInv'
  <2>1. PICK p \in {"limited", "running"} : phase' = [phase EXCEPT ![c] = p]
    BY <1>3 DEF Enter
  <2> QED
    BY <1>3, <2>1, AdmittedHoldsTheSlot DEF Enter
<1>4. ASSUME NEW c \in Calls, Settle(c) PROVE ProbeInv'
  <2>1. ProbeTypes'
    BY <1>4, SettlingFreesTheSlot DEF Settle, ProbeInv, ProbeTypes
  <2> QED
    BY <1>4, <2>1, SettlingFreesTheSlot DEF ProbeInv, ProbeSlotComesBack
<1>5. CASE Tick
  BY <1>5 DEF Tick, breakerVars, ProbeInv, ProbeTypes, ProbeSlotComesBack
<1>6. CASE UNCHANGED middlewareVars
  BY <1>6 DEF middlewareVars, breakerVars, ProbeInv, ProbeTypes, ProbeSlotComesBack
<1> QED
  BY <1>1, <1>2, <1>3, <1>4, <1>5, <1>6 DEF MiddlewareNext

-----------------------------------------------------------------------------

\* A taken probe slot (CircuitBreaker.call) always belongs to a call that is
\* still going to give it back: the half-open circuit never refuses every call
\* for good.
THEOREM ProbeNeverLost == MiddlewareSpec => []ProbeSlotComesBack
<1>1. ProbeInv => ProbeSlotComesBack
  BY DEF ProbeInv
<1> QED
  BY <1>1, ProbeInit, ProbeStep, PTL DEF MiddlewareSpec

-----------------------------------------------------------------------------
\* Sliding windows

\* The stamps of a list are in the order they were pushed, none from later.
InOrder(times, clock) ==
    /\ times \in Seq(Nat)
    /\ \A i, k \in 1..Len(times) : i <= k => times[i] <= times[k]
    /\ \A i \in 1..Len(times) : times[i] <= clock

\* Counted from the end, every execution of the window has its own stamp.
Covers(times, history, window, clock) ==
    \A j \in 0..(Len(history) - 1) :
        clock - history[Len(history) - j] < window =>
            /\ j < Len(times)
            /\ history[Len(history) - j] <= times[Len(times) - j]

\* Of n + 1 executions in a row, the first and the last are a window apart.
Spaced(history, n, window) ==
    \A i \in DOMAIN history : i + n \in DOMAIN history =>
        history[i + n] - history[i] >= window

LEMMA StampIsPast ==
    ASSUME NEW times, NEW clock, InOrder(times, clock), NEW i \in 1..Len(times)
    PROVE  times[i] \in Nat /\ times[i] <= clock
BY DEF InOrder

\* A set of naturals that is not empty has a least member.
LEMMA LeastNat ==
    ASSUME NEW T \in SUBSET Nat, T # {}
    PROVE  \E x \in T : \A y \in T : x <= y
<1> DEFINE R == OpToRel(<, Nat)
<1>1. IsWellFoundedOn(R, Nat)
  BY NatLessThanWellFounded
<1>2. \A y, x \in Nat : y < x => <<y, x>> \in R
  BY DEF OpToRel
<1> HIDE DEF R
<1>3. PICK x \in T : \A y \in T : ~(<<y, x>> \in R)
  BY <1>1, WFMin
<1>4. ASSUME NEW y \in T PROVE x <= y
  <2>1. ~(y < x)
    BY <1>2, <1>3
  <2> QED
    BY <2>1
<1> QED
  BY <1>4

\* The scan from the front stops: Stale is what its definition describes.
LEMMA StaleStops ==
    ASSUME now \in Nat, NEW times \in Seq(Nat), NEW window \in Nat
    PROVE  /\ Stale(times, window) \in 0..Len(times)
           /\ \A i \in 1..Stale(times, window) : now - times[i] >= window
           /\ Stale(times, window) < Len(times) =>
                  now - times[Stale(times, window) + 1] < window
<1> DEFINE T == {n \in 0..Len(times) : n < Len(times) => now - times[n + 1] < window}
<1>1. T \in SUBSET Nat /\ Len(times) \in T
  OBVIOUS
<1>2. PICK n \in T : \A y \in T : n <= y
  BY <1>1, LeastNat
<1>3. n \in 0..Len(times) /\ (n < Len(times) => now - times[n + 1] < window)
  BY <1>2
<1>4. ASSUME NEW i \in 1..n PROVE now - times[i] >= window
  <2>1. i - 1 \in 0..Len(times) /\ i - 1 < n /\ i \in 1..Len(times)
    BY <1>3
  <2>2. i - 1 \notin T
    <3> HIDE DEF T
    <3>1. ASSUME i - 1 \in T PROVE FALSE
      <4>1. n <= i - 1
        BY <1>2, <3>1
      <4> QED
        BY <1>3, <2>1, <4>1
    <3> QED
      BY <3>1
  <2>3. i - 1 < Len(times) /\ ~(now - times[(i - 1) + 1] < window)
    BY <2>1, <2>2
  <2> QED
    BY <2>1, <2>3
<1> HIDE DEF T
<1> QED
  BY <1>3, <1>4 DEF Stale

\* Of a list in order, the scan leaves exactly the stamps of the window.
LEMMA RecentIsTheWindow ==
    ASSUME now \in Nat, NEW times, InOrder(times, now), NEW window \in Nat,
           NEW left, left = Recent(times, window)
    PROVE  /\ InOrder(left, now)
           /\ Len(left) <= Len(times)
           /\ \A j \in 0..(Len(left) - 1) :
                 /\ left[Len(left) - j] = times[Len(times) - j]
                 /\ now - left[Len(left) - j] < window
           /\ \A j \in 0..(Len(times) - 1) :
                 now - times[Len(times) - j] < window => j < Len(left)
<1> DEFINE n == Stale(times, window)
<1>1. times \in Seq(Nat)
  BY DEF InOrder
<1>2. /\ n \in 0..Len(times)
      /\ \A i \in 1..n : now - times[i] >= window
      /\ n < Len(times) => now - times[n + 1] < window
  BY <1>1, StaleStops
<1> HIDE DEF n
<1>3. left = SubSeq(times, n + 1, Len(times))
  BY DEF Recent, n
<1>4. left \in Seq(Nat) /\ Len(left) = Len(times) - n
  BY <1>1, <1>2, <1>3
<1>5. ASSUME NEW i \in 1..Len(left) PROVE left[i] = times[i + n] /\ i + n \in 1..Len(times)
  BY <1>1, <1>2, <1>3, <1>4
<1>6. InOrder(left, now)
  <2>1. ASSUME NEW i \in 1..Len(left), NEW k \in 1..Len(left), i <= k
        PROVE  left[i] <= left[k]
    <3>1. i + n <= k + n
      BY <1>2, <1>4, <2>1
    <3> QED
      BY <1>5, <3>1 DEF InOrder
  <2>2. ASSUME NEW i \in 1..Len(left) PROVE left[i] <= now
    BY <1>5 DEF InOrder
  <2> QED
    BY <1>4, <2>1, <2>2 DEF InOrder
<1>7. ASSUME NEW j \in 0..(Len(left) - 1)
      PROVE  /\ left[Len(left) - j] = times[Len(times) - j]
             /\ now - left[Len(left) - j] < window
  <2>1. Len(left) - j \in 1..Len(left) /\ (Len(left) - j) + n = Len(times) - j
    BY <1>1, <1>2, <1>4
  <2>2. left[Len(left) - j] = times[Len(times) - j]
    BY <1>5, <2>1
  <2>3. n + 1 \in 1..Len(times) /\ Len(times) - j \in 1..Len(times) /\ n + 1 <= Len(times) - j
    BY <1>1, <1>2, <1>4
  <2>4. times[n + 1] <= times[Len(times) - j] /\ now - times[n + 1] < window
    BY <1>2, <2>3 DEF InOrder
  <2>5. times[n + 1] \in Nat /\ times[Len(times) - j] \in Nat
    BY <1>1, <2>3
  <2> QED
    BY <2>2, <2>4, <2>5
<1>8. ASSUME NEW j \in 0..(Len(times) - 1), now - times[Len(times) - j] < window
      PROVE  j < Len(left)
  <2>1. Len(times) - j \in 1..Len(times)
    BY <1>1
  <2>2. ~(Len(times) - j \in 1..n)
    BY <1>1, <1>2, <1>8, <2>1
  <2> QED
    BY <1>1, <1>2, <1>4, <2>1, <2>2
<1> QED
  BY <1>1, <1>2, <1>4, <1>6, <1>7, <1>8

\* Time passing changes neither the order nor the cover.
LEMMA Aged ==
    ASSUME NEW clock \in Nat, NEW later \in Nat, clock <= later,
           NEW times, NEW history, NEW window \in Nat,
           InOrder(times, clock), InOrder(history, clock),
           Covers(times, history, window, clock)
    PROVE  /\ InOrder(times, later) /\ InOrder(history, later)
           /\ Covers(times, history, window, later)
<1>1. InOrder(times, later)
  BY DEF InOrder
<1>2. InOrder(history, later)
  BY DEF InOrder
<1>3. ASSUME NEW j \in 0..(Len(history) - 1), later - history[Len(history) - j] < window
      PROVE  /\ j < Len(times)
             /\ history[Len(history) - j] <= times[Len(times) - j]
  <2>1. history[Len(history) - j] \in Nat
    BY DEF InOrder
  <2>2. clock - history[Len(history) - j] < window
    BY <1>3, <2>1
  <2> QED
    BY <2>2 DEF Covers
<1> QED
  BY <1>1, <1>2, <1>3 DEF Covers

\* Nor does pruning the stamps that are a window old.
LEMMA Pruned ==
    ASSUME now \in Nat, NEW times, NEW history, NEW window \in Nat,
           InOrder(times, now), InOrder(history, now),
           Covers(times, history, window, now)
    PROVE  Covers(Recent(times, window), history, window, now)
<1> DEFINE left == Recent(times, window)
<1>1. /\ \A j \in 0..(Len(left) - 1) : left[Len(left) - j] = times[Len(times) - j]
      /\ \A j \in 0..(Len(times) - 1) :
            now - times[Len(times) - j] < window => j < Len(left)
      /\ InOrder(left, now)
  <2> HIDE DEF left
  <2>1. left = Recent(times, window)
    BY DEF left
  <2> QED
    BY <2>1, RecentIsTheWindow
<1>3. times \in Seq(Nat) /\ history \in Seq(Nat) /\ left \in Seq(Nat)
  BY <1>1 DEF InOrder
<1> HIDE DEF left
<1>2. ASSUME NEW j \in 0..(Len(history) - 1), now - history[Len(history) - j] < window
      PROVE  /\ j < Len(left)
             /\ history[Len(history) - j] <= left[Len(left) - j]
  <2>1. /\ j < Len(times)
        /\ history[Len(history) - j] <= times[Len(times) - j]
    BY <1>2 DEF Covers
  <2>2. /\ j \in 0..(Len(times) - 1)
        /\ history[Len(history) - j] \in Nat /\ times[Len(times) - j] \in Nat
    <3>1. Len(times) \in Nat /\ Len(history) \in Nat
      BY <1>3
    <3>2. /\ j \in 0..(Len(times) - 1) /\ Len(times) - j \in 1..Len(times)
          /\ Len(history) - j \in 1..Len(history)
      BY <2>1, <3>1
    <3> QED
      BY <3>2, StampIsPast
  <2>3. now - times[Len(times) - j] < window
    BY <1>2, <2>1, <2>2
  <2>4. j < Len(left)
    BY <1>1, <2>2, <2>3
  <2>5. j \in 0..(Len(left) - 1)
    BY <1>3, <2>4
  <2> QED
    BY <1>1, <2>1, <2>4, <2>5
<1> QED
  BY <1>2 DEF Covers, left

LEMMA Pushed ==
    ASSUME NEW clock \in Nat, NEW times, InOrder(times, clock)
    PROVE  /\ InOrder(Append(times, clock), clock)
           /\ Len(Append(times, clock)) = Len(times) + 1
           /\ Append(times, clock)[Len(times) + 1] = clock
           /\ \A i \in 1..Len(times) : Append(times, clock)[i] = times[i]
BY DEF InOrder

\* A stamp for a call that does not run: every other stamp moves one further
\* from the end, and the one it makes room for is no younger.
LEMMA StampWithoutRun ==
    ASSUME NEW clock \in Nat, NEW times, NEW history, NEW window \in Nat,
           InOrder(times, clock), InOrder(history, clock),
           Covers(times, history, window, clock)
    PROVE  Covers(Append(times, clock), history, window, clock)
<1> DEFINE more == Append(times, clock)
<1>1. /\ Len(more) = Len(times) + 1 /\ more[Len(times) + 1] = clock
      /\ \A i \in 1..Len(times) : more[i] = times[i]
  BY Pushed
<1>2. times \in Seq(Nat) /\ history \in Seq(Nat)
  BY DEF InOrder
<1> HIDE DEF more
<1>3. ASSUME NEW j \in 0..(Len(history) - 1), clock - history[Len(history) - j] < window
      PROVE  /\ j < Len(more)
             /\ history[Len(history) - j] <= more[Len(more) - j]
  <2>1. /\ j < Len(times)
        /\ history[Len(history) - j] <= times[Len(times) - j]
    BY <1>3 DEF Covers
  <2>2. history[Len(history) - j] \in Nat /\ history[Len(history) - j] <= clock
    BY <1>2 DEF InOrder
  <2>3. Len(times) \in Nat
    BY <1>2
  <2>4. CASE j = 0
    BY <1>1, <2>3, <2>2, <2>4
  <2>5. CASE j > 0
    <3> DEFINE k == Len(times) - j
    <3>1. k \in 1..Len(times) /\ k + 1 \in 1..Len(times) /\ Len(more) - j = k + 1
      BY <1>1, <2>1, <2>3, <2>5
    <3>2. history[Len(history) - j] <= times[k]
      BY <2>1
    <3> HIDE DEF k
    <3>3. times[k] <= times[k + 1]
      BY <3>1 DEF InOrder
    <3>4. more[k + 1] = times[k + 1]
      BY <1>1, <3>1
    <3>5. times[k] \in Nat /\ times[k + 1] \in Nat
      BY <3>1, StampIsPast
    <3>6. history[Len(history) - j] <= more[k + 1]
      BY <2>2, <3>2, <3>3, <3>4, <3>5
    <3>7. j < Len(more)
      BY <1>1, <2>1, <2>3
    <3> QED
      BY <3>1, <3>6, <3>7
  <2> QED
    BY <2>4, <2>5
<1> QED
  BY <1>3 DEF Covers, more

LEMMA StampWithRun ==
    ASSUME NEW clock \in Nat, NEW times, NEW history, NEW window \in Nat,
           InOrder(times, clock), InOrder(history, clock),
           Covers(times, history, window, clock)
    PROVE  Covers(Append(times, clock), Append(history, clock), window, clock)
<1> DEFINE more == Append(times, clock)
           grown == Append(history, clock)
<1>1. /\ Len(more) = Len(times) + 1 /\ more[Len(times) + 1] = clock
      /\ \A i \in 1..Len(times) : more[i] = times[i]
  BY Pushed
<1>2. /\ Len(grown) = Len(history) + 1 /\ grown[Len(history) + 1] = clock
      /\ \A i \in 1..Len(history) : grown[i] = history[i]
  BY Pushed
<1>3. times \in Seq(Nat) /\ history \in Seq(Nat)
  BY DEF InOrder
<1> HIDE DEF more, grown
<1>4. ASSUME NEW j \in 0..(Len(grown) - 1), clock - grown[Len(grown) - j] < window
      PROVE  /\ j < Len(more)
             /\ grown[Len(grown) - j] <= more[Len(more) - j]
  <2>1. CASE j = 0
    BY <1>1, <1>2, <1>3, <2>1
  <2>2. CASE j > 0
    <3>1. /\ j - 1 \in 0..(Len(history) - 1)
          /\ Len(grown) - j = Len(history) - (j - 1)
          /\ Len(history) - (j - 1) \in 1..Len(history)
      BY <1>2, <1>3, <2>2
    <3>2. grown[Len(grown) - j] = history[Len(history) - (j - 1)]
      BY <1>2, <3>1
    <3>3. /\ j - 1 < Len(times)
          /\ history[Len(history) - (j - 1)] <= times[Len(times) - (j - 1)]
      BY <1>4, <3>1, <3>2 DEF Covers
    <3>4. /\ Len(more) - j = Len(times) - (j - 1)
          /\ Len(times) - (j - 1) \in 1..Len(times)
      BY <1>1, <1>3, <2>2, <3>1, <3>3
    <3>5. more[Len(more) - j] = times[Len(times) - (j - 1)]
      BY <1>1, <3>4
    <3>6. j < Len(more)
      BY <1>1, <1>3, <3>3
    <3> QED
      BY <3>2, <3>3, <3>5, <3>6
  <2> QED
    BY <2>1, <2>2
<1> QED
  BY <1>4 DEF Covers, more, grown

\* What the two limits rest on: where the window holds fewer than n stamps,
\* the n-th execution back from a new one is a window old.
LEMMA RoomKeepsSpacing ==
    ASSUME NEW clock \in Nat, NEW times, NEW history, NEW window \in Nat, NEW n \in Nat,
           InOrder(times, clock), InOrder(history, clock),
           Covers(times, history, window, clock),
           Spaced(history, n, window), Len(times) < n
    PROVE  Spaced(Append(history, clock), n, window)
<1> DEFINE grown == Append(history, clock)
<1>1. /\ Len(grown) = Len(history) + 1 /\ grown[Len(history) + 1] = clock
      /\ \A i \in 1..Len(history) : grown[i] = history[i]
  BY Pushed
<1>2. /\ history \in Seq(Nat) /\ Len(times) \in Nat
      /\ DOMAIN grown = 1..Len(grown)
      /\ DOMAIN history = 1..Len(history)
  BY DEF InOrder
<1> HIDE DEF grown
<1>3. ASSUME NEW i \in 1..Len(grown), i + n \in 1..Len(grown)
      PROVE  grown[i + n] - grown[i] >= window
  <2>1. i \in 1..Len(history)
    BY <1>1, <1>2, <1>3
  <2>2. CASE i + n \in 1..Len(history)
    <3>1. history[i + n] - history[i] >= window
      BY <1>2, <2>1, <2>2 DEF Spaced
    <3> QED
      BY <1>1, <2>1, <2>2, <3>1
  <2>3. CASE i + n = Len(history) + 1
    <3>1. /\ n - 1 \in 0..(Len(history) - 1) /\ Len(history) - (n - 1) = i
          /\ ~(n - 1 < Len(times))
      BY <1>2, <2>1, <2>3
    <3>2. ~(clock - history[i] < window)
      BY <3>1 DEF Covers
    <3>3. history[i] \in Nat
      BY <1>2, <2>1
    <3> QED
      BY <1>1, <2>1, <2>3, <3>2, <3>3
  <2>4. Len(history) \in Nat
    BY <1>2
  <2>5. i + n \in 1..Len(history) \/ i + n = Len(history) + 1
    BY <1>1, <1>3, <2>4
  <2> QED
    BY <2>2, <2>3, <2>5
<1> QED
  BY <1>2, <1>3 DEF Spaced, grown

\* What the three layers keep of each other's past.
WindowTypes ==
    /\ now \in Nat
    /\ circuit \in {"closed", "open", "half_open"}
    /\ keys \in Seq(Args) /\ Len(keys) <= MaxKeys
    /\ windows \in [Args -> Seq(Nat)] /\ ran \in [Args -> Seq(Nat)]
    /\ outcomes \in Seq([at : Nat, kind : {"ok", "outage"}])

\* The limiter's stamps cover the executions of the tool.
LimiterCovers ==
    /\ InOrder(stamps, now) /\ InOrder(started, now)
    /\ Covers(stamps, started, RateWindow, now)
    /\ Spaced(started, Limit, RateWindow)

\* The detector's stamps under args cover the executions with these args, of
\* every args it did not have to forget.
DetectorCovers(arg) ==
    /\ InOrder(windows[arg], now) /\ InOrder(ran[arg], now)
    /\ arg \notin forgotten =>
          /\ Covers(windows[arg], ran[arg], LoopWindow, now)
          /\ Spaced(ran[arg], ErrorThreshold - 1, LoopWindow)

\* While the circuit is closed, its failures are the last outcomes there were.
FailuresAreTheTail ==
    /\ InOrder(failures, now)
    /\ circuit = "closed" =>
          /\ Len(failures) <= Len(outcomes)
          /\ \A j \in 0..(Len(failures) - 1) :
                outcomes[Len(outcomes) - j]
                    = [at |-> failures[Len(failures) - j], kind |-> "outage"]

WindowInv ==
    /\ WindowTypes
    /\ LimiterCovers
    /\ \A arg \in Args : DetectorCovers(arg)
    /\ FailuresAreTheTail

LEMMA WindowInit == MiddlewareInit => WindowInv
<1> SUFFICES ASSUME MiddlewareInit PROVE WindowInv
  OBVIOUS
<1>1. WindowTypes
  BY MiddlewareAssumption DEF MiddlewareInit, WindowTypes
<1>2. InOrder(<<>>, 0) /\ Covers(<<>>, <<>>, RateWindow, 0) /\ Covers(<<>>, <<>>, LoopWindow, 0)
  BY DEF InOrder, Covers
<1>3. Spaced(<<>>, Limit, RateWindow) /\ Spaced(<<>>, ErrorThreshold - 1, LoopWindow)
  BY DEF Spaced
<1>4. LimiterCovers
  BY <1>2, <1>3 DEF MiddlewareInit, LimiterCovers
<1>5. ASSUME NEW arg \in Args PROVE DetectorCovers(arg)
  BY <1>2, <1>3 DEF MiddlewareInit, DetectorCovers
<1>6. FailuresAreTheTail
  BY <1>2 DEF MiddlewareInit, FailuresAreTheTail
<1> QED
  BY <1>1, <1>4, <1>5, <1>6 DEF WindowInv

\* The detector's keys after a call: the key cap holds.
LEMMA KeysAfterRecord ==
    ASSUME WindowTypes, NEW arg \in Args, Record(arg)
    PROVE  keys' \in Seq(Args) /\ Len(keys') <= MaxKeys
<1>1. keys \in Seq(Args) /\ Len(keys) <= MaxKeys /\ MaxKeys \in Nat \ {0}
  BY MiddlewareAssumption DEF WindowTypes
<1>2. Kept(arg) \in Seq(Args) /\ Len(Kept(arg)) <= MaxKeys
  <2>1. CASE \E i \in DOMAIN keys : keys[i] = arg
    <3> DEFINE at == CHOOSE i \in DOMAIN keys : keys[i] = arg
               former == SubSeq(keys, 1, at - 1)
               after == SubSeq(keys, at + 1, Len(keys))
    <3>1. at \in 1..Len(keys)
      BY <1>1, <2>1
    <3> HIDE DEF at
    <3>2. former \in Seq(Args) /\ Len(former) = at - 1
      BY <1>1, <3>1
    <3>3. after \in Seq(Args) /\ Len(after) = Len(keys) - at
      BY <1>1, <3>1
    <3>4. Kept(arg) = former \o after
      BY <2>1 DEF Kept, Dropped, at
    <3> HIDE DEF former, after
    <3> QED
      BY <1>1, <3>1, <3>2, <3>3, <3>4
  <2> QED
    BY <1>1, <2>1 DEF Kept
<1> DEFINE room == Evicted(Kept(arg))
<1>3. room \in Seq(Args) /\ Len(room) < MaxKeys
  BY <1>1, <1>2 DEF Evicted
<1> HIDE DEF room
<1>4. keys' = keys \/ keys' = Append(room, arg)
  BY DEF Record, room
<1> QED
  BY <1>1, <1>3, <1>4

\* The clock moves.
LEMMA WindowTick == WindowInv /\ Tick => WindowInv'
<1> SUFFICES ASSUME WindowInv, Tick PROVE WindowInv'
  OBVIOUS
<1>1. /\ now \in Nat /\ now' \in Nat /\ now <= now'
      /\ RateWindow \in Nat /\ LoopWindow \in Nat
  BY MiddlewareAssumption DEF WindowInv, WindowTypes, Tick
<1>2. UNCHANGED <<breakerVars, layerVars, outcomes>>
  BY DEF Tick
<1>3. WindowTypes'
  BY <1>1, <1>2 DEF WindowInv, WindowTypes, layerVars, breakerVars
<1>4. LimiterCovers'
  BY <1>1, <1>2, Aged DEF WindowInv, LimiterCovers, layerVars
<1>5. ASSUME NEW arg \in Args PROVE DetectorCovers(arg)'
  <2>1. DetectorCovers(arg)
    BY DEF WindowInv
  <2>2. InOrder(windows[arg], now') /\ InOrder(ran[arg], now')
    BY <1>1, <2>1 DEF DetectorCovers, InOrder
  <2>3. ASSUME arg \notin forgotten PROVE Covers(windows[arg], ran[arg], LoopWindow, now')
    BY <1>1, <2>1, <2>3, Aged DEF DetectorCovers
  <2> QED
    BY <1>2, <2>1, <2>2, <2>3 DEF DetectorCovers, layerVars
<1>6. FailuresAreTheTail'
  BY <1>1, <1>2 DEF WindowInv, FailuresAreTheTail, InOrder, breakerVars
<1> QED
  BY <1>3, <1>4, <1>5, <1>6 DEF WindowInv

\* The breaker's answer to an arriving call opens or half-opens a circuit, it
\* does not close one.
LEMMA ArrivalKeepsTheTail ==
    ASSUME FailuresAreTheTail, WindowTypes,
           circuit' = StateNow, UNCHANGED <<now, failures, outcomes>>
    PROVE  FailuresAreTheTail' /\ circuit' \in {"closed", "open", "half_open"}
<1>1. StateNow \in {"closed", "open", "half_open"} /\ (StateNow = "closed" => circuit = "closed")
  BY DEF StateNow, WindowTypes
<1> QED
  BY <1>1 DEF FailuresAreTheTail, InOrder

\* A call the limiter and the detector see: the limiter's list.
LEMMA StampsAfterEnter ==
    ASSUME WindowInv, NEW c \in Calls, NEW arg \in Args, Enter(c, arg)
    PROVE  LimiterCovers'
<1> DEFINE left == RateStamps(stamps)
<1>1. /\ now \in Nat /\ now' = now /\ RateWindow \in Nat /\ Limit \in Nat
      /\ InOrder(stamps, now) /\ InOrder(started, now)
      /\ Covers(stamps, started, RateWindow, now)
      /\ Spaced(started, Limit, RateWindow)
  BY MiddlewareAssumption DEF WindowInv, WindowTypes, LimiterCovers, Enter, Admitted
<1>2. /\ stamps' = Append(left, now) /\ ~(Len(left) >= Limit)
      /\ started' = started \/ started' = Append(started, now)
  BY DEF Enter, Exhausted
<1>3. InOrder(left, now)
  BY <1>1, RecentIsTheWindow DEF RateStamps
<1>4. Covers(left, started, RateWindow, now)
  BY <1>1, Pruned DEF RateStamps
<1> HIDE DEF left
<1>5. InOrder(stamps', now) /\ InOrder(started', now)
  <2>1. InOrder(Append(left, now), now) /\ InOrder(Append(started, now), now)
    BY <1>1, <1>3, Pushed
  <2> QED
    BY <1>1, <1>2, <2>1
<1>6. Covers(stamps', started', RateWindow, now)
  <2>1. CASE started' = started
    BY <1>1, <1>2, <1>3, <1>4, <2>1, StampWithoutRun
  <2>2. CASE started' = Append(started, now)
    BY <1>1, <1>2, <1>3, <1>4, <2>2, StampWithRun
  <2> QED
    BY <1>2, <2>1, <2>2
<1>7. Len(left) < Limit
  BY <1>1, <1>2, <1>3 DEF InOrder
<1>8. Spaced(started', Limit, RateWindow)
  BY <1>1, <1>2, <1>3, <1>4, <1>7, RoomKeepsSpacing
<1> QED
  BY <1>1, <1>5, <1>6, <1>8 DEF LimiterCovers

\* The same of the detector, for the arguments of the call and for all others.
LEMMA WindowsAfterEnter ==
    ASSUME WindowInv, NEW c \in Calls, NEW arg \in Args, Enter(c, arg), NEW a \in Args
    PROVE  DetectorCovers(a)' /\ windows' \in [Args -> Seq(Nat)] /\ ran' \in [Args -> Seq(Nat)]
<1> DEFINE left(b) == LoopStamps(windows[b])
<1>1. /\ now \in Nat /\ now' = now /\ LoopWindow \in Nat /\ ErrorThreshold \in Nat \ {0}
      /\ windows \in [Args -> Seq(Nat)] /\ ran \in [Args -> Seq(Nat)]
  BY MiddlewareAssumption DEF WindowInv, WindowTypes, Enter, Admitted
<1>2. ASSUME NEW b \in Args
      PROVE  /\ InOrder(windows[b], now) /\ InOrder(ran[b], now)
             /\ InOrder(left(b), now) /\ left(b) \in Seq(Nat)
             /\ b \notin forgotten => /\ Covers(windows[b], ran[b], LoopWindow, now)
                                      /\ Covers(left(b), ran[b], LoopWindow, now)
                                      /\ Spaced(ran[b], ErrorThreshold - 1, LoopWindow)
  <2>1. DetectorCovers(b)
    BY DEF WindowInv
  <2>2. InOrder(windows[b], now) /\ InOrder(ran[b], now)
    BY <2>1 DEF DetectorCovers
  <2>3. InOrder(left(b), now)
    BY <1>1, <2>2, RecentIsTheWindow DEF LoopStamps
  <2>4. left(b) \in Seq(Nat)
    BY <2>3 DEF InOrder
  <2>5. ASSUME b \notin forgotten
        PROVE  /\ Covers(windows[b], ran[b], LoopWindow, now)
               /\ Spaced(ran[b], ErrorThreshold - 1, LoopWindow)
    BY <2>1, <2>5 DEF DetectorCovers
  <2>6. ASSUME b \notin forgotten PROVE Covers(left(b), ran[b], LoopWindow, now)
    BY <1>1, <2>2, <2>5, <2>6, Pruned DEF LoopStamps
  <2> QED
    BY <2>2, <2>3, <2>4, <2>5, <2>6
<1>3. /\ windows'[arg] = Append(left(arg), now)
      /\ \A b \in Args \ {arg} : windows'[b] \in {windows[b], <<>>}
      /\ \A b \in Args : left(b) # <<>> /\ windows'[b] = <<>> => b \in forgotten'
      /\ forgotten \subseteq forgotten'
  BY DEF Enter, Record
<1>4. windows' \in [Args -> Seq(Nat)]
  <2>1. windows' = [b \in Args |-> windows'[b]]
    BY DEF Enter, Record
  <2>2. ASSUME NEW b \in Args PROVE windows'[b] \in Seq(Nat)
    <3>1. left(b) \in Seq(Nat) /\ windows[b] \in Seq(Nat) /\ now \in Nat
      BY <1>1, <1>2
    <3> HIDE DEF left
    <3>2. Append(left(b), now) \in Seq(Nat) /\ <<>> \in Seq(Nat)
      BY <3>1
    <3> QED
      BY <1>3, <3>1, <3>2
  <2> QED
    BY <2>1, <2>2
<1>5. \/ ran' = ran
      \/ /\ ran' = [ran EXCEPT ![arg] = Append(@, now)]
         /\ ~(Len(windows'[arg]) >= ErrorThreshold)
  BY DEF Enter, LoopDetected
<1>6. ran' \in [Args -> Seq(Nat)]
  <2>1. Append(ran[arg], now) \in Seq(Nat)
    BY <1>1
  <2> QED
    BY <1>1, <1>5, <2>1
<1>7. CASE a # arg
  <2>1. ran'[a] = ran[a]
    BY <1>1, <1>5, <1>7
  <2>2. CASE windows'[a] = windows[a]
    <3>1. /\ InOrder(windows'[a], now) /\ InOrder(ran'[a], now)
          /\ a \notin forgotten' => /\ Covers(windows'[a], ran'[a], LoopWindow, now)
                                    /\ Spaced(ran'[a], ErrorThreshold - 1, LoopWindow)
      BY <1>2, <1>3, <2>1, <2>2
    <3> QED
      BY <1>1, <1>4, <1>6, <3>1 DEF DetectorCovers
  <2>3. CASE windows'[a] = <<>>
    <3>0. \A t : InOrder(<<>>, t)
      BY DEF InOrder
    <3>1. InOrder(windows'[a], now) /\ InOrder(ran'[a], now)
      BY <1>2, <2>1, <2>3, <3>0
    <3>2. ASSUME a \notin forgotten'
          PROVE  /\ Covers(windows'[a], ran'[a], LoopWindow, now)
                 /\ Spaced(ran'[a], ErrorThreshold - 1, LoopWindow)
      <4>1. left(a) = <<>> /\ a \notin forgotten
        BY <1>3, <2>3, <3>2
      <4> HIDE DEF left
      <4> QED
        BY <1>2, <2>1, <2>3, <4>1
    <3> QED
      BY <1>1, <1>4, <1>6, <3>1, <3>2 DEF DetectorCovers
  <2> QED
    BY <1>3, <1>7, <2>2, <2>3
<1>8. CASE a = arg
  <2> DEFINE mine == left(arg)
  <2>1. /\ InOrder(mine, now) /\ InOrder(ran[arg], now) /\ windows'[arg] = Append(mine, now)
        /\ arg \notin forgotten => /\ Covers(mine, ran[arg], LoopWindow, now)
                                   /\ Spaced(ran[arg], ErrorThreshold - 1, LoopWindow)
    BY <1>2, <1>3
  <2> HIDE DEF mine
  <2>2. ran'[arg] \in {ran[arg], Append(ran[arg], now)}
    BY <1>1, <1>5
  <2>3. InOrder(windows'[arg], now) /\ InOrder(ran'[arg], now)
    <3>1. InOrder(Append(mine, now), now) /\ InOrder(Append(ran[arg], now), now)
      BY <1>1, <2>1, Pushed
    <3>2. CASE ran'[arg] = ran[arg]
      BY <2>1, <3>1, <3>2
    <3>3. CASE ran'[arg] = Append(ran[arg], now)
      BY <2>1, <3>1, <3>3
    <3> QED
      BY <2>2, <3>2, <3>3
  <2>4. ASSUME arg \notin forgotten'
        PROVE  /\ Covers(windows'[arg], ran'[arg], LoopWindow, now)
               /\ Spaced(ran'[arg], ErrorThreshold - 1, LoopWindow)
    <3>1. /\ Covers(mine, ran[arg], LoopWindow, now)
          /\ Spaced(ran[arg], ErrorThreshold - 1, LoopWindow)
      BY <1>3, <2>1, <2>4
    <3>2. CASE ran'[arg] = ran[arg]
      BY <1>1, <2>1, <3>1, <3>2, StampWithoutRun
    <3>3. CASE ran'[arg] = Append(ran[arg], now) /\ ran'[arg] # ran[arg]
      <4>1. Covers(windows'[arg], ran'[arg], LoopWindow, now)
        BY <1>1, <2>1, <3>1, <3>3, StampWithRun
      <4>2. ~(Len(windows'[arg]) >= ErrorThreshold)
        BY <1>5, <3>3
      <4>3. Len(windows'[arg]) = Len(mine) + 1 /\ Len(mine) \in Nat
        <5>1. mine \in Seq(Nat)
          BY <2>1 DEF InOrder
        <5> QED
          BY <1>1, <2>1, <5>1
      <4>4. ErrorThreshold - 1 \in Nat /\ Len(mine) < ErrorThreshold - 1
        BY <1>1, <4>2, <4>3
      <4>5. Spaced(Append(ran[arg], now), ErrorThreshold - 1, LoopWindow)
        BY <1>1, <2>1, <3>1, <4>4, RoomKeepsSpacing
      <4> QED
        BY <3>3, <4>1, <4>5
    <3> QED
      BY <2>2, <3>2, <3>3
  <2> QED
    BY <1>1, <1>4, <1>6, <1>8, <2>3, <2>4 DEF DetectorCovers
<1> QED
  BY <1>7, <1>8

LEMMA WindowEnter ==
    ASSUME WindowInv, NEW c \in Calls, NEW arg \in Args, Enter(c, arg)
    PROVE  WindowInv'
<1>1. FailuresAreTheTail' /\ circuit' \in {"closed", "open", "half_open"}
  BY ArrivalKeepsTheTail DEF WindowInv, Enter, Admitted
<1>2. keys' \in Seq(Args) /\ Len(keys') <= MaxKeys
  BY KeysAfterRecord DEF WindowInv, Enter
<1>3. windows' \in [Args -> Seq(Nat)] /\ ran' \in [Args -> Seq(Nat)]
  BY WindowsAfterEnter
<1>4. WindowTypes'
  BY <1>1, <1>2, <1>3 DEF WindowInv, WindowTypes, Enter, Admitted
<1>5. \A a \in Args : DetectorCovers(a)'
  BY WindowsAfterEnter
<1> QED
  BY <1>1, <1>4, <1>5, StampsAfterEnter DEF WindowInv

\* A call refused by the breaker or by the limiter leaves the detector alone.
LEMMA WindowRefused ==
    ASSUME WindowInv, NEW c \in Calls, FastFail(c) \/ RateLimited(c)
    PROVE  WindowInv'
<1>1. /\ circuit' = StateNow
      /\ UNCHANGED <<now, failures, outcomes, keys, windows, started, ran, forgotten>>
      /\ stamps' \in {stamps, RateStamps(stamps)}
  BY DEF FastFail, RateLimited, Admitted, layerVars
<1>2. FailuresAreTheTail' /\ circuit' \in {"closed", "open", "half_open"}
  BY <1>1, ArrivalKeepsTheTail DEF WindowInv
<1>3. WindowTypes'
  BY <1>1, <1>2 DEF WindowInv, WindowTypes
<1>4. LimiterCovers'
  <2>1. /\ now \in Nat /\ RateWindow \in Nat
        /\ InOrder(stamps, now) /\ InOrder(started, now)
        /\ Covers(stamps, started, RateWindow, now) /\ Spaced(started, Limit, RateWindow)
    BY MiddlewareAssumption DEF WindowInv, WindowTypes, LimiterCovers
  <2>2. InOrder(RateStamps(stamps), now)
    BY <2>1, RecentIsTheWindow DEF RateStamps
  <2>3. Covers(RateStamps(stamps), started, RateWindow, now)
    BY <2>1, Pruned DEF RateStamps
  <2>4. InOrder(stamps', now) /\ Covers(stamps', started, RateWindow, now)
    BY <1>1, <2>1, <2>2, <2>3
  <2> QED
    BY <1>1, <2>1, <2>4 DEF LimiterCovers
<1>5. \A arg \in Args : DetectorCovers(arg)'
  BY <1>1 DEF WindowInv, DetectorCovers
<1> QED
  BY <1>2, <1>3, <1>4, <1>5 DEF WindowInv

\* An outage while the circuit is not half-open joins both lists at the end.
LEMMA FailureJoins ==
    ASSUME WindowInv, NEW c \in Calls, SettleOutage(c), circuit # "half_open", now' = now
    PROVE  /\ InOrder(failures', now)
           /\ \A i \in 1..Len(failures') : now - failures'[i] < CircuitWindow
           /\ circuit = "closed" =>
                /\ Len(failures') <= Len(outcomes')
                /\ \A j \in 0..(Len(failures') - 1) :
                      outcomes'[Len(outcomes') - j]
                          = [at |-> failures'[Len(failures') - j], kind |-> "outage"]
<1> DEFINE left == Recent(failures, CircuitWindow)
<1>1. /\ now \in Nat /\ CircuitWindow \in Nat \ {0} /\ InOrder(failures, now)
      /\ outcomes \in Seq([at : Nat, kind : {"ok", "outage"}])
  BY MiddlewareAssumption DEF WindowInv, WindowTypes, FailuresAreTheTail
<1>2. /\ failures' = Append(left, now)
      /\ outcomes' = Append(outcomes, [at |-> now, kind |-> "outage"])
  BY DEF SettleOutage, OnFailure, Heard
<1>3. /\ InOrder(left, now)
      /\ Len(left) <= Len(failures)
      /\ \A j \in 0..(Len(left) - 1) :
            /\ left[Len(left) - j] = failures[Len(failures) - j]
            /\ now - left[Len(left) - j] < CircuitWindow
  <2> HIDE DEF left
  <2>1. left = Recent(failures, CircuitWindow)
    BY DEF left
  <2> QED
    BY <1>1, <2>1, RecentIsTheWindow
<1> HIDE DEF left
<1>4. /\ InOrder(failures', now) /\ Len(failures') = Len(left) + 1
      /\ failures'[Len(left) + 1] = now
      /\ \A i \in 1..Len(left) : failures'[i] = left[i]
  BY <1>1, <1>2, <1>3, Pushed
<1>5. left \in Seq(Nat) /\ failures \in Seq(Nat)
  BY <1>1, <1>3 DEF InOrder
<1>6. ASSUME NEW i \in 1..Len(failures') PROVE now - failures'[i] < CircuitWindow
  <2>1. CASE i = Len(left) + 1
    BY <1>1, <1>4, <2>1
  <2>2. CASE i # Len(left) + 1
    <3> DEFINE j == Len(left) - i
    <3>1. i \in 1..Len(left) /\ j \in 0..(Len(left) - 1) /\ Len(left) - j = i
      BY <1>4, <1>5, <2>2
    <3>2. now - left[i] < CircuitWindow
      BY <1>3, <3>1
    <3> QED
      BY <1>4, <3>1, <3>2
  <2> QED
    BY <2>1, <2>2
<1>7. /\ Len(outcomes') = Len(outcomes) + 1
      /\ outcomes'[Len(outcomes) + 1] = [at |-> now, kind |-> "outage"]
      /\ \A i \in 1..Len(outcomes) : outcomes'[i] = outcomes[i]
  BY <1>1, <1>2
<1>8. ASSUME circuit = "closed"
      PROVE  /\ Len(failures') <= Len(outcomes')
             /\ \A j \in 0..(Len(failures') - 1) :
                   outcomes'[Len(outcomes') - j]
                       = [at |-> failures'[Len(failures') - j], kind |-> "outage"]
  <2>1. /\ Len(failures) <= Len(outcomes)
        /\ \A j \in 0..(Len(failures) - 1) :
              outcomes[Len(outcomes) - j]
                  = [at |-> failures[Len(failures) - j], kind |-> "outage"]
    BY <1>8 DEF WindowInv, FailuresAreTheTail
  <2>2. Len(outcomes) \in Nat /\ Len(failures) \in Nat /\ Len(left) \in Nat
    BY <1>1, <1>5
  <2>3. Len(failures') <= Len(outcomes')
    BY <1>3, <1>4, <1>7, <2>1, <2>2
  <2>4. ASSUME NEW j \in 0..(Len(failures') - 1)
        PROVE  outcomes'[Len(outcomes') - j]
                   = [at |-> failures'[Len(failures') - j], kind |-> "outage"]
    <3>1. CASE j = 0
      BY <1>4, <1>7, <2>2, <3>1
    <3>2. CASE j # 0
      <4> DEFINE k == j - 1
      <4>1. /\ k \in 0..(Len(left) - 1) /\ k \in 0..(Len(failures) - 1)
            /\ Len(left) - k \in 1..Len(left) /\ Len(outcomes) - k \in 1..Len(outcomes)
            /\ Len(failures') - j = Len(left) - k /\ Len(outcomes') - j = Len(outcomes) - k
        BY <1>3, <1>4, <1>7, <2>1, <2>2, <3>2
      <4> HIDE DEF k
      <4>2. outcomes'[Len(outcomes') - j] = outcomes[Len(outcomes) - k]
        BY <1>7, <4>1
      <4>3. failures'[Len(failures') - j] = failures[Len(failures) - k]
        BY <1>3, <1>4, <4>1
      <4>4. outcomes[Len(outcomes) - k]
                = [at |-> failures[Len(failures) - k], kind |-> "outage"]
        BY <2>1, <4>1
      <4> QED
        BY <4>2, <4>3, <4>4
    <3> QED
      BY <3>1, <3>2
  <2> QED
    BY <2>3, <2>4
<1> QED
  BY <1>4, <1>6, <1>8

LEMMA WindowSettle ==
    ASSUME WindowInv, NEW c \in Calls, Settle(c)
    PROVE  WindowInv'
<1>1. UNCHANGED <<now, layerVars>> /\ now \in Nat
  BY DEF Settle, WindowInv, WindowTypes
<1>2. LimiterCovers' /\ \A arg \in Args : DetectorCovers(arg)'
  BY <1>1 DEF WindowInv, LimiterCovers, DetectorCovers, layerVars
<1>3. outcomes' \in Seq([at : Nat, kind : {"ok", "outage"}])
  <2>1. outcomes \in Seq([at : Nat, kind : {"ok", "outage"}])
    BY DEF WindowInv, WindowTypes
  <2>2. [at |-> now, kind |-> "ok"] \in [at : Nat, kind : {"ok", "outage"}]
        /\ [at |-> now, kind |-> "outage"] \in [at : Nat, kind : {"ok", "outage"}]
    BY <1>1
  <2>3. \/ outcomes' = outcomes
        \/ \E o \in [at : Nat, kind : {"ok", "outage"}] : outcomes' = Append(outcomes, o)
    BY <2>2 DEF Settle, SettleOk, SettleOutage, SettleUncounted, Heard
  <2>4. ASSUME NEW o \in [at : Nat, kind : {"ok", "outage"}], outcomes' = Append(outcomes, o)
        PROVE  outcomes' \in Seq([at : Nat, kind : {"ok", "outage"}])
    <3> DEFINE Outcome == [at : Nat, kind : {"ok", "outage"}]
    <3> HIDE DEF Outcome
    <3>1. outcomes \in Seq(Outcome) /\ o \in Outcome
      BY <2>1, <2>4 DEF Outcome
    <3>2. Append(outcomes, o) \in Seq(Outcome)
      BY <3>1
    <3> QED
      BY <2>4, <3>2 DEF Outcome
  <2> QED
    BY <2>1, <2>3, <2>4
<1>4. circuit' \in {"closed", "open", "half_open"}
  BY DEF Settle, SettleOk, SettleOutage, SettleUncounted, OnSuccess, OnFailure, OnUncounted,
         Open, WindowInv, WindowTypes
<1>5. WindowTypes'
  BY <1>1, <1>3, <1>4 DEF WindowInv, WindowTypes, layerVars
<1>6. FailuresAreTheTail'
  <2>1. CASE SettleOk(c)
    <3>1. failures' = <<>>
      BY <2>1 DEF SettleOk, OnSuccess
    <3>2. outcomes' \in Seq([at : Nat, kind : {"ok", "outage"}])
      BY <1>3
    <3> QED
      BY <1>1, <3>1, <3>2 DEF FailuresAreTheTail, InOrder
  <2>2. CASE SettleUncounted(c)
    BY <1>1, <2>2 DEF SettleUncounted, OnUncounted, WindowInv, FailuresAreTheTail
  <2>3. CASE SettleOutage(c) /\ circuit = "half_open"
    <3>1. circuit' = "open" /\ failures' = failures
      BY <2>3 DEF SettleOutage, OnFailure, Open
    <3> QED
      BY <1>1, <3>1 DEF WindowInv, FailuresAreTheTail
  <2>4. CASE SettleOutage(c) /\ circuit # "half_open"
    <3>1. circuit' = "closed" => circuit = "closed"
      BY <2>4 DEF SettleOutage, OnFailure, Open
    <3>2. /\ InOrder(failures', now)
          /\ circuit = "closed" =>
               /\ Len(failures') <= Len(outcomes')
               /\ \A j \in 0..(Len(failures') - 1) :
                     outcomes'[Len(outcomes') - j]
                         = [at |-> failures'[Len(failures') - j], kind |-> "outage"]
      BY <1>1, <2>4, FailureJoins
    <3> QED
      BY <1>1, <3>1, <3>2 DEF FailuresAreTheTail
  <2> QED
    BY <2>1, <2>2, <2>3, <2>4 DEF Settle
<1> QED
  BY <1>2, <1>5, <1>6 DEF WindowInv

LEMMA WindowStep == WindowInv /\ [MiddlewareNext]_middlewareVars => WindowInv'
<1> SUFFICES ASSUME WindowInv, [MiddlewareNext]_middlewareVars PROVE WindowInv'
  OBVIOUS
<1>1. CASE UNCHANGED middlewareVars
  BY <1>1 DEF middlewareVars, breakerVars, layerVars, WindowInv, WindowTypes, LimiterCovers,
              DetectorCovers, FailuresAreTheTail
<1> QED
  BY <1>1, WindowRefused, WindowSettle, WindowEnter, WindowTick DEF MiddlewareNext

-----------------------------------------------------------------------------

\* The circuit is in one of its three states, every call in one of its five,
\* and the loop detector never holds more than MaxKeys windows.
THEOREM MiddlewareTypes == MiddlewareSpec => []TypeOK
<1>1. ProbeInv /\ WindowInv => TypeOK
  BY DEF ProbeInv, ProbeTypes, WindowInv, WindowTypes, TypeOK
<1> QED
  BY <1>1, ProbeInit, ProbeStep, WindowInit, WindowStep, PTL DEF MiddlewareSpec

\* Any interval of RateWindow contains at most Limit executions of the tool,
\* however the calls overlap: the limiter's window slides (ToolRateLimiter).
THEOREM WindowBoundsTheRate == MiddlewareSpec => []RateBounded
<1>1. WindowInv => RateBounded
  BY DEF WindowInv, LimiterCovers, Spaced, RateBounded
<1> QED
  BY <1>1, WindowInit, WindowStep, PTL DEF MiddlewareSpec

\* Any interval of LoopWindow contains fewer than ErrorThreshold executions
\* with the same arguments, unless the key cap made the detector forget them.
THEOREM LoopsAreCut == MiddlewareSpec => []LoopsCut
<1>1. ASSUME WindowInv PROVE LoopsCut
  <2> SUFFICES ASSUME NEW arg \in Args \ forgotten, NEW i \in DOMAIN ran[arg],
                      i + ErrorThreshold - 1 \in DOMAIN ran[arg]
               PROVE  ran[arg][i + ErrorThreshold - 1] - ran[arg][i] >= LoopWindow
    BY DEF LoopsCut
  <2>1. Spaced(ran[arg], ErrorThreshold - 1, LoopWindow) /\ ran[arg] \in Seq(Nat)
    BY <1>1 DEF WindowInv, DetectorCovers, InOrder
  <2>2. i + (ErrorThreshold - 1) = i + ErrorThreshold - 1
    BY <2>1, MiddlewareAssumption
  <2> QED
    BY <2>1, <2>2 DEF Spaced
<1> QED
  BY <1>1, WindowInit, WindowStep, PTL DEF MiddlewareSpec

\* A closed circuit opens only on FailureThreshold outages in a row, all of
\* them within CircuitWindow of now.
THEOREM OpensOnlyOnOutage == MiddlewareSpec => OpensOnOutage
<1>1. ASSUME WindowInv, [MiddlewareNext]_middlewareVars, circuit = "closed", circuit' = "open"
      PROVE  /\ Len(outcomes') >= FailureThreshold
             /\ \A i \in (Len(outcomes') - FailureThreshold + 1)..Len(outcomes') :
                   outcomes'[i].kind = "outage" /\ now - outcomes'[i].at < CircuitWindow
  <2>1. PICK c \in Calls : Settle(c) /\ SettleOutage(c)
    <3>1. CASE UNCHANGED middlewareVars
      BY <1>1, <3>1 DEF middlewareVars, breakerVars
    <3>2. CASE Tick
      BY <1>1, <3>2 DEF Tick, breakerVars
    <3>3. ASSUME NEW c \in Calls, FastFail(c) \/ RateLimited(c) PROVE FALSE
      BY <1>1, <3>3 DEF FastFail, RateLimited, Admitted, StateNow, Lapsed
    <3>4. ASSUME NEW c \in Calls, NEW arg \in Args, Enter(c, arg) PROVE FALSE
      BY <1>1, <3>4 DEF Enter, Admitted, StateNow, Lapsed
    <3>5. ASSUME NEW c \in Calls, SettleOk(c) \/ SettleUncounted(c) PROVE FALSE
      BY <1>1, <3>5 DEF SettleOk, SettleUncounted, OnSuccess, OnUncounted
    <3> QED
      BY <1>1, <3>1, <3>2, <3>3, <3>4, <3>5 DEF MiddlewareNext, Settle
  <2>2. Len(failures') >= FailureThreshold /\ FailureThreshold \in Nat \ {0}
    BY <1>1, <2>1, MiddlewareAssumption DEF SettleOutage, OnFailure
  <2>3. /\ InOrder(failures', now)
        /\ \A i \in 1..Len(failures') : now - failures'[i] < CircuitWindow
        /\ Len(failures') <= Len(outcomes')
        /\ \A j \in 0..(Len(failures') - 1) :
              outcomes'[Len(outcomes') - j]
                  = [at |-> failures'[Len(failures') - j], kind |-> "outage"]
    BY <1>1, <2>1, FailureJoins DEF Settle
  <2>4. Len(failures') \in Nat /\ Len(outcomes') \in Nat
    <3>1. WindowTypes'
      BY <1>1, WindowStep DEF WindowInv
    <3> QED
      BY <2>3, <3>1 DEF InOrder, WindowTypes
  <2>5. ASSUME NEW i \in (Len(outcomes') - FailureThreshold + 1)..Len(outcomes')
        PROVE  outcomes'[i].kind = "outage" /\ now - outcomes'[i].at < CircuitWindow
    <3> DEFINE j == Len(outcomes') - i
               k == Len(failures') - j
    <3>1. j \in 0..(Len(failures') - 1) /\ k \in 1..Len(failures') /\ Len(outcomes') - j = i
      BY <2>2, <2>3, <2>4
    <3> HIDE DEF j
    <3>2. outcomes'[i] = [at |-> failures'[k], kind |-> "outage"]
      BY <2>3, <3>1
    <3>3. now - failures'[k] < CircuitWindow
      BY <2>3, <3>1
    <3> QED
      BY <3>2, <3>3
  <2> QED
    BY <2>2, <2>3, <2>4, <2>5
<1>2. WindowInv /\ [MiddlewareNext]_middlewareVars =>
        [circuit = "closed" /\ circuit' = "open" =>
          /\ Len(outcomes') >= FailureThreshold
          /\ \A i \in (Len(outcomes') - FailureThreshold + 1)..Len(outcomes') :
                outcomes'[i].kind = "outage" /\ now - outcomes'[i].at < CircuitWindow]_middlewareVars
  BY <1>1
<1> QED
  BY <1>2, WindowInit, WindowStep, PTL DEF MiddlewareSpec, OpensOnOutage
==============================================================================
