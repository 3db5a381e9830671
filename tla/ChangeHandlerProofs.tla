------------------------ MODULE ChangeHandlerProofs ------------------------
(***************************************************************************)
(* What the runs of the change handler keep, for any tasks and projects,   *)
(* any number of overlapping runs and any bounds, in two parts.            *)
(*                                                                         *)
(* The cache, as long as a file event is stamped no later after its change *)
(* than the query reaches back (Lag <= Buffer).  What is cached may differ *)
(* from OmniFocus about an object that exists only while the news of its   *)
(* last change, or of the move of the task above it, is on its way, and    *)
(* the way is followed station by station: the file event, the child's     *)
(* pipe, the window of the debounce timer, the query, the containers, the  *)
(* eviction.                                                               *)
(*                                                                         *)
(* The baseline of the webhooks.  Everything rests on the chain: only its  *)
(* head has fetched anything, so between a fetch and the comparison no     *)
(* other run moves the baseline.                                           *)
(***************************************************************************)
EXTENDS ChangeHandler, Webhooks, SequenceTheorems, TLAPS

HandlerTypeOK ==
    /\ clock \in Nat
    /\ unsaved \in Nat \cup {None}
    /\ lines \in Seq(Nat)
    /\ window \in Nat \cup {None}
    /\ missed \in BOOLEAN
    /\ doc \in [Objects -> Row] /\ Orderly(doc)
    /\ modAt \in [Objects -> Int]
    /\ key \in Keys
    /\ \A v \in {cached, reading} \ {None} : \A o \in DOMAIN v \cap Objects : doc[o].state # "new"
    /\ overlooked \in BOOLEAN
    /\ stage \in [Runs -> {"idle", "query", "resolve", "flush"}]
    /\ since \in [Runs -> Int]
    /\ DOMAIN scopes = Runs

\* Stamps are in the order of the events, the window's is the first of them,
\* and an event that is due is not overdue.
StampsInOrder ==
    /\ \A i, j \in 1..Len(lines) : i <= j => lines[i] <= lines[j]
    /\ \A i \in 1..Len(lines) : lines[i] <= clock
    /\ window # None => window <= clock /\ \A i \in 1..Len(lines) : window <= lines[i]
    /\ unsaved # None => unsaved <= clock /\ clock - unsaved <= Lag

\* An event with this stamp makes the query look back to the change of o.
Reaches(stamp, o) == stamp - Buffer <= modAt[o]

\* The news that o has changed has not been lost, wherever it is.
OnItsWay(o) ==
    \/ unsaved # None /\ unsaved <= modAt[o]
    \/ \E i \in 1..Len(lines) : Reaches(lines[i], o)
    \/ window # None /\ Reaches(window, o)
    \/ \E h \in Runs :
          \/ stage[h] = "query" /\ since[h] <= modAt[o]
          \/ stage[h] = "resolve" /\ {o, Listing} \subseteq scopes[h]
          \/ stage[h] = "flush" /\ key \in scopes[h]

\* o went along when the task above it was moved, and the news of that is on
\* its way.
Carried(o) == o \in Tasks /\ o # key /\ \E m \in Tasks : doc[o].parent = m /\ OnItsWay(m)

\* An entry that no move has left behind differs only by what is on its way.
OldIsOnItsWay ==
    ~missed /\ ~overlooked =>
        \A o \in Objects : Differs(cached, o) \/ Differs(reading, o) =>
            o \in Embedded(key) /\ (OnItsWay(o) \/ Carried(o))

Inv == HandlerTypeOK /\ StampsInOrder /\ OldIsOnItsWay

-----------------------------------------------------------------------------

\* What an entry embeds: itself, or a task whose containers include the key, or
\* any task when the key is a listing.
LEMMA EmbeddedFacts ==
    \A o \in Embedded(key) :
        /\ o \in Objects /\ Exists(o)
        /\ o = key \/ (o \in Tasks /\ key \in {doc[o].parent, doc[o].project, Listing})
BY DEF Embedded

\* A task above one that exists exists, and is in the same project.
LEMMA Above ==
    ASSUME HandlerTypeOK, NEW o \in Tasks, Exists(o), NEW m \in Tasks, doc[o].parent = m
    PROVE  m \in Objects /\ Exists(m) /\ doc[m].parent = None /\ doc[m].project = doc[o].project
BY HandlerAssumption DEF HandlerTypeOK, Orderly, Exists, Objects

\* Where a task that went along is embedded, so is the task above it.
LEMMA CarriedWithin ==
    ASSUME HandlerTypeOK, NEW o \in Embedded(key), Carried(o)
    PROVE  \E m \in Tasks : doc[o].parent = m /\ m \in Embedded(key) /\ OnItsWay(m)
<1>1. PICK m \in Tasks : /\ o \in Tasks /\ o # key /\ Exists(o) /\ doc[o].parent = m /\ OnItsWay(m)
                         /\ key \in {doc[o].parent, doc[o].project, Listing}
  BY EmbeddedFacts DEF Carried
<1>2. m \in Objects /\ Exists(m) /\ doc[m].project = doc[o].project
  BY <1>1, Above
<1> QED BY <1>1, <1>2 DEF Embedded

\* As long as OmniFocus and the entry stay as they are, and no news of an object
\* in the entry is lost, the entry may go on to differ.
LEMMA NewsKept ==
    ASSUME Inv, UNCHANGED <<doc, key, cached, reading, overlooked, missed>>,
           \A o \in Embedded(key) : OnItsWay(o) => OnItsWay(o)'
    PROVE  OldIsOnItsWay'
<1>1. /\ Embedded(key)' = Embedded(key)
      /\ \A o \in Objects : Differs(cached, o)' = Differs(cached, o) /\ Differs(reading, o)' = Differs(reading, o)
  BY DEF Embedded, Exists, Differs
<1> SUFFICES ASSUME ~missed, ~overlooked, NEW o \in Objects, Differs(cached, o) \/ Differs(reading, o)
             PROVE  o \in Embedded(key) /\ (OnItsWay(o)' \/ Carried(o)')
  BY <1>1 DEF OldIsOnItsWay
<1>2. o \in Embedded(key) /\ (OnItsWay(o) \/ Carried(o))
  BY DEF Inv, OldIsOnItsWay
<1>3. CASE OnItsWay(o)
  BY <1>2, <1>3
<1>4. CASE Carried(o)
  <2>1. PICK m \in Tasks : doc[o].parent = m /\ m \in Embedded(key) /\ OnItsWay(m)
    BY <1>2, <1>4, CarriedWithin DEF Inv
  <2>2. OnItsWay(m)'
    BY <2>1
  <2> QED BY <1>2, <1>4, <2>1, <2>2 DEF Carried
<1> QED BY <1>2, <1>3, <1>4

LEMMA InitInv == Init => Inv
<1> SUFFICES ASSUME Init PROVE Inv
  OBVIOUS
<1>1. HandlerTypeOK
  <2>1. Never \in Int
    BY HandlerAssumption DEF Never
  <2>2. /\ clock \in Nat /\ unsaved \in Nat \cup {None} /\ lines \in Seq(Nat)
        /\ window \in Nat \cup {None}
    BY DEF Init, WatcherInit
  <2>4. missed \in BOOLEAN
    BY DEF Init, WatcherInit
  <2>3. /\ modAt \in [Objects -> Int] /\ since \in [Runs -> Int]
        /\ stage \in [Runs -> {"idle", "query", "resolve", "flush"}]
    BY <2>1 DEF Init
  <2>5. doc \in [Objects -> Row] /\ Orderly(doc)
    BY HandlerAssumption DEF Init
  <2> QED BY <2>2, <2>3, <2>4, <2>5 DEF Init, HandlerTypeOK
<1>2. StampsInOrder
  BY DEF Init, WatcherInit, StampsInOrder
<1>3. OldIsOnItsWay
  BY DEF Init, OldIsOnItsWay, Differs
<1> QED BY <1>1, <1>2, <1>3 DEF Inv

\* A step of the watcher passes the news on, or owns up to losing it.
LEMMA WatcherKeepsInv ==
    ASSUME Lag <= Buffer, Inv, WatcherStep, UNCHANGED <<docVars, cacheVars, runVars>>
    PROVE  Inv'
<1> USE WatcherAssumption, HandlerAssumption DEF docVars, cacheVars, runVars, sourceVars
<1> DEFINE Passed == \A o \in Objects : OnItsWay(o) => OnItsWay(o)'
<1>0. ASSUME HandlerTypeOK', StampsInOrder', missed'
      PROVE  Inv'
  BY <1>0 DEF Inv, OldIsOnItsWay
<1>1. ASSUME HandlerTypeOK', StampsInOrder', missed' = missed, Passed
      PROVE  Inv'
  <2>1. OldIsOnItsWay'
    BY <1>1, EmbeddedFacts, NewsKept
  <2> QED BY <1>1, <2>1 DEF Inv
<1> HIDE DEF Passed
<1>3. CASE UNCHANGED <<clock, unsaved, lines, window, missed>>
  <2>1. HandlerTypeOK' /\ StampsInOrder'
    BY <1>3 DEF Inv, HandlerTypeOK, StampsInOrder
  <2>2. Passed
    BY <1>3 DEF Passed, OnItsWay, Reaches
  <2> QED BY <1>1, <1>3, <2>1, <2>2
<1>4. CASE NodeError
  <2>1. HandlerTypeOK' /\ StampsInOrder'
    BY <1>4 DEF NodeError, Inv, HandlerTypeOK, StampsInOrder
  <2>2. CASE window # None
    <3>1. missed'
      BY <1>4, <2>2 DEF NodeError
    <3> QED BY <1>0, <2>1, <3>1
  <2>3. CASE window = None
    <3>1. missed' = missed
      BY <1>4, <2>3 DEF NodeError, Inv, HandlerTypeOK
    <3>2. Passed
      BY <1>4, <2>3 DEF NodeError, Passed, OnItsWay, Reaches
    <3> QED BY <1>1, <2>1, <3>1, <3>2
  <2> QED BY <2>2, <2>3
<1>5. CASE SwiftLine
  <2> DEFINE first == Head(lines)
  <2>1. /\ lines # <<>> /\ first \in Nat /\ first = lines[1]
        /\ lines' \in Seq(Nat) /\ Len(lines') = Len(lines) - 1
        /\ \A i \in 1..Len(lines') : lines'[i] = lines[i + 1] /\ i + 1 \in 1..Len(lines)
    BY <1>5 DEF SwiftLine, Inv, HandlerTypeOK
  <2>2. /\ window' = IF window = None THEN first ELSE window
        /\ UNCHANGED <<clock, unsaved, missed>>
    BY <1>5 DEF SwiftLine, ScheduleNotify
  <2>3. HandlerTypeOK'
    BY <2>1, <2>2 DEF Inv, HandlerTypeOK
  <2>4. window' # None /\ window' \in Nat /\ window' <= first
    BY <2>1, <2>2 DEF Inv, HandlerTypeOK, StampsInOrder
  <2>5. StampsInOrder'
    <3>1. ASSUME NEW i \in 1..Len(lines'), NEW j \in 1..Len(lines'), i <= j
          PROVE  lines'[i] <= lines'[j]
      <4>1. /\ i + 1 \in 1..Len(lines) /\ j + 1 \in 1..Len(lines) /\ i + 1 <= j + 1
            /\ lines'[i] = lines[i + 1] /\ lines'[j] = lines[j + 1]
        BY <2>1, <3>1
      <4> QED BY <4>1 DEF Inv, StampsInOrder
    <3>2. ASSUME NEW i \in 1..Len(lines')
          PROVE  first <= lines'[i] /\ lines'[i] <= clock /\ lines'[i] \in Nat
      <4>1. /\ 1 \in 1..Len(lines) /\ i + 1 \in 1..Len(lines) /\ 1 <= i + 1
            /\ lines'[i] = lines[i + 1] /\ lines'[i] \in Nat
        BY <2>1, <3>2
      <4> QED BY <2>1, <4>1 DEF Inv, StampsInOrder
    <3>3. ASSUME NEW i \in 1..Len(lines')
          PROVE  window' <= lines'[i]
      BY <2>1, <2>4, <3>2
    <3>4. window' <= clock
      <4>1. 1 \in 1..Len(lines) /\ first <= clock
        BY <2>1 DEF Inv, StampsInOrder
      <4> QED BY <2>1, <2>4, <4>1 DEF Inv, HandlerTypeOK
    <3> QED BY <3>4, <2>2, <3>1, <3>2, <3>3 DEF Inv, StampsInOrder
  <2>6. Passed
    <3> SUFFICES ASSUME NEW o \in Objects, OnItsWay(o) PROVE OnItsWay(o)'
      BY DEF Passed
    <3>1. modAt[o] \in Int /\ modAt' = modAt
      BY DEF Inv, HandlerTypeOK
    <3>2. CASE window # None /\ Reaches(window, o)
      BY <2>2, <2>4, <3>1, <3>2 DEF OnItsWay, Reaches
    <3>3. ASSUME NEW i \in 1..Len(lines), Reaches(lines[i], o)
          PROVE  OnItsWay(o)'
      <4>1. CASE i = 1
        BY <2>1, <2>2, <2>4, <3>1, <3>3, <4>1 DEF OnItsWay, Reaches
      <4>2. CASE i # 1
        <5> DEFINE j == i - 1
        <5>1. j \in 1..Len(lines') /\ lines'[j] = lines[i]
          BY <2>1, <4>2
        <5> HIDE DEF j
        <5> QED BY <3>1, <3>3, <5>1 DEF OnItsWay, Reaches
      <4> QED BY <4>1, <4>2
    <3>4. CASE unsaved # None /\ unsaved <= modAt[o]
      BY <2>2, <3>1, <3>4 DEF OnItsWay
    <3>5. CASE \E h \in Runs :
                  \/ stage[h] = "query" /\ since[h] <= modAt[o]
                  \/ stage[h] = "resolve" /\ {o, Listing} \subseteq scopes[h]
                  \/ stage[h] = "flush" /\ key \in scopes[h]
      BY <3>1, <3>5 DEF OnItsWay
    <3> QED BY <3>2, <3>3, <3>4, <3>5 DEF OnItsWay
  <2> QED BY <1>1, <2>2, <2>3, <2>5, <2>6
<1>6. CASE NodeEvent
  <2>1. /\ lines = <<>> /\ lines' = <<>> /\ unsaved # None /\ unsaved' = None
        /\ window' = IF window = None THEN clock ELSE window
        /\ UNCHANGED <<clock, missed>>
    BY <1>6 DEF NodeEvent, ScheduleNotify
  <2>2. HandlerTypeOK' /\ StampsInOrder'
    BY <2>1 DEF Inv, HandlerTypeOK, StampsInOrder
  <2>3. window' # None /\ window' \in Nat /\ window' <= unsaved + Lag
    BY <2>1 DEF Inv, HandlerTypeOK, StampsInOrder
  <2>4. Passed
    BY <2>1, <2>3 DEF Inv, HandlerTypeOK, Passed, OnItsWay, Reaches
  <2> QED BY <1>1, <2>1, <2>2, <2>4
<1>7. CASE SwiftEvent
  <2>1. /\ lines' \in Seq(Nat) /\ Len(lines') = Len(lines) + 1 /\ Len(lines) \in Nat
        /\ lines'[Len(lines')] = clock
        /\ \A i \in 1..Len(lines) : lines'[i] = lines[i]
    BY <1>7 DEF SwiftEvent, Inv, HandlerTypeOK
  <2>2. unsaved # None /\ unsaved' = None /\ UNCHANGED <<clock, window, missed>>
    BY <1>7 DEF SwiftEvent
  <2>3. HandlerTypeOK'
    BY <2>1, <2>2 DEF Inv, HandlerTypeOK
  <2>4. StampsInOrder'
    <3>1. \A i \in 1..Len(lines') : i = Len(lines') \/ i \in 1..Len(lines)
      BY <2>1
    <3>2. ASSUME NEW i \in 1..Len(lines')
          PROVE  lines'[i] <= clock /\ lines'[i] \in Nat
      <4>1. CASE i = Len(lines')
        BY <2>1, <4>1 DEF Inv, HandlerTypeOK
      <4>2. CASE i \in 1..Len(lines)
        <5>1. lines[i] <= clock
          BY <4>2 DEF Inv, StampsInOrder
        <5>2. lines[i] \in Nat
          BY <4>2 DEF Inv, HandlerTypeOK
        <5> QED BY <2>1, <4>2, <5>1, <5>2
      <4> QED BY <3>1, <3>2, <4>1, <4>2
    <3>3. ASSUME NEW i \in 1..Len(lines'), NEW j \in 1..Len(lines'), i <= j
          PROVE  lines'[i] <= lines'[j]
      <4>1. CASE j = Len(lines')
        BY <2>1, <3>2, <4>1
      <4>2. CASE j \in 1..Len(lines)
        <5>1. i \in 1..Len(lines)
          BY <2>1, <3>3, <4>2
        <5> QED BY <2>1, <3>3, <4>2, <5>1 DEF Inv, StampsInOrder
      <4> QED BY <3>1, <3>3, <4>1, <4>2
    <3>4. window # None => window <= clock /\ \A i \in 1..Len(lines') : window <= lines'[i]
      BY <2>1, <3>1 DEF Inv, StampsInOrder
    <3> QED BY <2>2, <3>2, <3>3, <3>4 DEF StampsInOrder
  <2>5. Passed
    <3> SUFFICES ASSUME NEW o \in Objects, OnItsWay(o) PROVE OnItsWay(o)'
      BY DEF Passed
    <3>1. modAt[o] \in Int /\ modAt' = modAt
      BY DEF Inv, HandlerTypeOK
    <3>2. CASE unsaved # None /\ unsaved <= modAt[o]
      <4>1. clock - Buffer <= modAt[o]
        BY <3>1, <3>2 DEF Inv, HandlerTypeOK, StampsInOrder
      <4>2. Len(lines') \in 1..Len(lines')
        BY <2>1
      <4> QED BY <2>1, <3>1, <4>1, <4>2 DEF OnItsWay, Reaches
    <3>3. CASE ~(unsaved # None /\ unsaved <= modAt[o])
      BY <2>1, <2>2, <3>1, <3>3 DEF OnItsWay, Reaches
    <3> QED BY <3>2, <3>3
  <2> QED BY <1>1, <2>2, <2>3, <2>4, <2>5
<1>8. CASE Unwatched
  <2>1. HandlerTypeOK' /\ StampsInOrder'
    BY <1>8 DEF Unwatched, Inv, HandlerTypeOK, StampsInOrder
  <2> QED BY <1>0, <1>8, <2>1 DEF Unwatched
<1>9. CASE Tick
  <2>1. HandlerTypeOK'
    BY <1>9 DEF Tick, Inv, HandlerTypeOK
  <2>3. clock' = clock + 1 /\ UNCHANGED <<unsaved, lines, window>>
    BY <1>9 DEF Tick
  <2>4. unsaved # None => unsaved <= clock' /\ clock' - unsaved <= Lag
    BY <1>9, <2>3 DEF Tick, Inv, HandlerTypeOK, StampsInOrder
  <2>5. /\ window # None => window <= clock'
        /\ \A i \in 1..Len(lines) : lines[i] <= clock'
    BY <2>3 DEF Inv, HandlerTypeOK, StampsInOrder
  <2>6. StampsInOrder'
    BY <2>3, <2>4, <2>5 DEF Inv, StampsInOrder
  <2>2. Passed
    BY <1>9 DEF Tick, Passed, OnItsWay, Reaches
  <2> QED BY <1>1, <1>9, <2>1, <2>2, <2>6 DEF Tick
<1> QED
  BY <1>3, <1>4, <1>5, <1>6, <1>7, <1>8, <1>9
     DEF WatcherStep, Start, FallBack, SwiftDies

\* A change is news that no event has been stamped for yet.  It need only leave
\* the documents in order, and account for what is cached of what it changed.
LEMMA ChangedKeepsInv ==
    ASSUME Inv, NEW o \in Objects, NEW d, Changed(o, d), overlooked' \in BOOLEAN,
           overlooked => overlooked',
           d \in [Objects -> Row], Orderly(d),
           \A x \in Objects : d[x].state = "new" => doc[x].state = "new",
           ~missed /\ ~overlooked' => \A x \in Objects : Differs(cached, x)' \/ Differs(reading, x)' =>
              /\ x \in Embedded(key)'
              /\ \/ x = o
                 \/ x \in Tasks /\ x # key /\ d[x].parent = o /\ o \in Tasks
                 \/ /\ Differs(cached, x) \/ Differs(reading, x)
                    /\ x \in Tasks => d[x].parent = doc[x].parent
    PROVE  Inv'
<1> USE WatcherAssumption
<1>1. /\ doc' = d /\ modAt' = [modAt EXCEPT ![o] = clock]
      /\ unsaved' = IF unsaved = None THEN clock ELSE unsaved
      /\ UNCHANGED <<clock, lines, window, missed, key, cached, reading, stage, since, scopes>>
  BY DEF Changed, runVars
<1>3. HandlerTypeOK' /\ StampsInOrder'
  <2>1. HandlerTypeOK'
    <3>1. clock \in Nat /\ modAt' \in [Objects -> Int] /\ unsaved' \in Nat \cup {None}
      BY <1>1 DEF Inv, HandlerTypeOK
    <3>2. /\ doc' \in [Objects -> Row] /\ Orderly(doc)'
          /\ \A v \in {cached, reading} \ {None} : \A x \in DOMAIN v \cap Objects : doc'[x].state # "new"
      BY <1>1 DEF Inv, HandlerTypeOK, Orderly
    <3> QED BY <1>1, <3>1, <3>2 DEF Inv, HandlerTypeOK
  <2>2. unsaved' # None /\ unsaved' <= clock /\ clock - unsaved' <= Lag
    BY <1>1 DEF Inv, HandlerTypeOK, StampsInOrder
  <2> QED BY <1>1, <2>1, <2>2 DEF Inv, StampsInOrder
<1>4. unsaved' # None /\ unsaved' <= modAt'[o]
  BY <1>1 DEF Inv, HandlerTypeOK, StampsInOrder
<1>5. ASSUME NEW x, OnItsWay(x)
      PROVE  OnItsWay(x)'
  <2>1. CASE x = o
    BY <1>4, <2>1 DEF OnItsWay
  <2>2. CASE x # o
    <3>1. modAt'[x] = modAt[x]
      BY <1>1, <2>2 DEF Inv, HandlerTypeOK
    <3>2. CASE unsaved # None /\ unsaved <= modAt[x]
      BY <1>1, <3>1, <3>2 DEF OnItsWay
    <3>3. CASE ~(unsaved # None /\ unsaved <= modAt[x])
      BY <1>1, <1>5, <3>1, <3>3 DEF OnItsWay, Reaches
    <3> QED BY <3>2, <3>3
  <2> QED BY <2>1, <2>2
<1>6. OldIsOnItsWay'
  <2> SUFFICES ASSUME ~missed, ~overlooked', NEW x \in Objects,
                      Differs(cached, x)' \/ Differs(reading, x)'
               PROVE  x \in Embedded(key)' /\ (OnItsWay(x)' \/ Carried(x)')
    BY <1>1 DEF OldIsOnItsWay
  <2>1. x \in Embedded(key)'
    OBVIOUS
  <2>2. CASE x = o
    BY <1>4, <2>1, <2>2 DEF OnItsWay
  <2>3. CASE x \in Tasks /\ x # key /\ d[x].parent = o /\ o \in Tasks
    <3>1. OnItsWay(o)'
      BY <1>4 DEF OnItsWay
    <3> QED BY <1>1, <2>1, <2>3, <3>1 DEF Carried
  <2>4. CASE /\ Differs(cached, x) \/ Differs(reading, x)
             /\ x \in Tasks => d[x].parent = doc[x].parent
    <3>1. OnItsWay(x) \/ Carried(x)
      BY <2>4 DEF Inv, OldIsOnItsWay
    <3>2. CASE OnItsWay(x)
      BY <1>5, <2>1, <3>2
    <3>3. CASE Carried(x)
      <4>1. PICK m \in Tasks : x \in Tasks /\ x # key /\ doc[x].parent = m /\ OnItsWay(m)
        BY <3>3 DEF Carried
      <4>2. OnItsWay(m)'
        BY <1>5, <4>1
      <4> QED BY <1>1, <2>1, <2>4, <4>1, <4>2 DEF Carried
    <3> QED BY <3>1, <3>2, <3>3
  <2> QED BY <2>1, <2>2, <2>3, <2>4
<1> QED BY <1>3, <1>6 DEF Inv

LEMMA EditKeepsInv ==
    ASSUME Inv, NEW o \in Objects, Edit(o)
    PROVE  Inv'
<1> DEFINE d == [doc EXCEPT ![o].state = IF @ = "open" THEN "done" ELSE "open"]
<1>1. Changed(o, d) /\ UNCHANGED overlooked /\ Exists(o) /\ doc' = d /\ UNCHANGED <<key, cached, reading>>
  BY DEF Edit, Changed
<1>2. /\ d \in [Objects -> Row]
      /\ \A x \in Objects : /\ d[x].parent = doc[x].parent /\ d[x].project = doc[x].project
                            /\ d[x].state \in {"open", "done"} <=> Exists(x)
                            /\ d[x].state = "new" => doc[x].state = "new"
                            /\ x # o => d[x] = doc[x]
  BY <1>1 DEF Inv, HandlerTypeOK, Row, Exists
<1> HIDE DEF d
<1>3. Orderly(d)
  <2> SUFFICES ASSUME NEW t \in Tasks, d[t].state \in {"open", "done"}, d[t].parent # None
               PROVE  LET m == d[t].parent IN
                      d[m].state \in {"open", "done"} /\ d[m].parent = None /\ d[m].project = d[t].project
    BY DEF Orderly
  <2>1. PICK m \in Tasks : doc[t].parent = m
    BY <1>2 DEF Inv, HandlerTypeOK, Row, Objects
  <2>2. m \in Objects /\ Exists(m) /\ doc[m].parent = None /\ doc[m].project = doc[t].project
    BY <1>2, <2>1, Above DEF Inv, Objects
  <2> QED BY <1>2, <2>1, <2>2 DEF Objects
<1>4. Embedded(key)' = Embedded(key)
  BY <1>1, <1>2 DEF Embedded, Exists, Objects
<1>5. ASSUME ~missed, ~overlooked, NEW x \in Objects, Differs(cached, x)' \/ Differs(reading, x)'
      PROVE  x \in Embedded(key)' /\ (x = o \/ Differs(cached, x) \/ Differs(reading, x))
  <2>1. Differs(cached, x) \/ Differs(reading, x) => x \in Embedded(key)
    BY <1>5 DEF Inv, OldIsOnItsWay
  <2> QED BY <1>1, <1>2, <1>4, <1>5, <2>1 DEF Differs, Exists
<1> QED BY <1>1, <1>2, <1>3, <1>5, ChangedKeepsInv DEF Inv, HandlerTypeOK, Objects

\* What is deleted with its subtasks is no longer looked at.
LEMMA DeleteKeepsInv ==
    ASSUME Inv, NEW t \in Tasks, Delete(t)
    PROVE  Inv'
<1> DEFINE d == [o \in Objects |-> IF o \in {t} \cup Subtasks(t)
                                   THEN [doc[o] EXCEPT !.state = "gone"] ELSE doc[o]]
<1>1. Changed(t, d) /\ UNCHANGED overlooked /\ doc' = d /\ UNCHANGED <<key, cached, reading>> /\ t \in Objects
  BY DEF Delete, Changed, Objects
<1>2. /\ d \in [Objects -> Row]
      /\ \A x \in Objects : /\ d[x].parent = doc[x].parent /\ d[x].project = doc[x].project
                            /\ d[x].state \in {"open", "done"} <=> Exists(x) /\ x \notin {t} \cup Subtasks(t)
                            /\ d[x].state = "new" => doc[x].state = "new"
                            /\ d[x].state \in {"open", "done"} => d[x] = doc[x]
  BY DEF Inv, HandlerTypeOK, Row, Exists
<1> HIDE DEF d
<1>3. Orderly(d)
  <2> SUFFICES ASSUME NEW s \in Tasks, d[s].state \in {"open", "done"}, d[s].parent # None
               PROVE  LET m == d[s].parent IN
                      d[m].state \in {"open", "done"} /\ d[m].parent = None /\ d[m].project = d[s].project
    BY DEF Orderly
  <2>1. PICK m \in Tasks : doc[s].parent = m
    BY <1>2 DEF Inv, HandlerTypeOK, Row, Objects
  <2>2. /\ m \in Objects /\ Exists(m) /\ doc[m].parent = None /\ doc[m].project = doc[s].project
        /\ Exists(s) /\ s \notin {t} \cup Subtasks(t)
    BY <1>2, <2>1, Above DEF Inv, Objects
  <2>3. m # t /\ m \notin Subtasks(t)
    BY <2>1, <2>2, HandlerAssumption DEF Subtasks
  <2> QED BY <1>2, <2>1, <2>2, <2>3 DEF Objects
<1>4. ASSUME NEW x \in Objects, Exists(x)'
      PROVE  x \in Embedded(key)' <=> x \in Embedded(key)
  BY <1>1, <1>2, <1>4 DEF Embedded, Exists, Objects
<1>5. ASSUME ~missed, ~overlooked, NEW x \in Objects, Differs(cached, x)' \/ Differs(reading, x)'
      PROVE  x \in Embedded(key)' /\ (Differs(cached, x) \/ Differs(reading, x))
  <2>1. Exists(x)' /\ Exists(x) /\ d[x] = doc[x]
    BY <1>1, <1>2, <1>5 DEF Differs, Exists
  <2>2. Differs(cached, x) \/ Differs(reading, x)
    BY <1>1, <1>4, <1>5, <2>1 DEF Differs
  <2>3. x \in Embedded(key)
    BY <1>5, <2>2 DEF Inv, OldIsOnItsWay
  <2> QED BY <1>4, <2>1, <2>2, <2>3
<1> QED BY <1>1, <1>2, <1>3, <1>5, ChangedKeepsInv DEF Inv, HandlerTypeOK, Objects

\* A task that is moved is on its way itself, and its subtasks with it.
LEMMA PlaceKeepsInv ==
    ASSUME Inv, NEW t \in Tasks, NEW p \in Tasks \cup {None}, NEW j \in Projects \cup {None}, Place(t, p, j)
    PROVE  Inv'
<1> DEFINE d == [o \in Objects |->
                     CASE o = t -> [state |-> IF Exists(t) THEN doc[t].state ELSE "open",
                                    parent |-> p, project |-> j]
                       [] o \in Subtasks(t) \ {t} -> [doc[o] EXCEPT !.project = j]
                       [] OTHER -> doc[o]]
<1>1. /\ Changed(t, d) /\ doc' = d /\ UNCHANGED <<key, cached, reading>> /\ t \in Objects
      /\ p # None => /\ p # t /\ Exists(p) /\ doc[p].parent = None /\ doc[p].project = j
                     /\ Subtasks(t) = {}
      /\ overlooked' = (overlooked \/ ({cached, reading} # {None} /\ key \in Behind(t, p, j)))
      /\ overlooked' \in BOOLEAN /\ overlooked \in BOOLEAN
  BY DEF Place, Changed, Objects, Inv, HandlerTypeOK
<1>2. /\ d \in [Objects -> Row]
      /\ d[t].state \in {"open", "done"} /\ d[t].parent = p /\ d[t].project = j
      /\ \A x \in Objects \ {t} : /\ d[x].parent = doc[x].parent /\ d[x].state = doc[x].state
                                  /\ x \in Subtasks(t) => d[x].project = j
                                  /\ x \notin Subtasks(t) => d[x] = doc[x]
                                  /\ doc[x].project = j => d[x] = doc[x]
  <2>1. /\ d[t] = [state |-> IF Exists(t) THEN doc[t].state ELSE "open", parent |-> p, project |-> j]
        /\ \A x \in Objects \ {t} : d[x] = IF x \in Subtasks(t) THEN [doc[x] EXCEPT !.project = j] ELSE doc[x]
        /\ DOMAIN d = Objects
    BY <1>1
  <2>2. d = [x \in Objects |-> d[x]]
    OBVIOUS
  <2> HIDE DEF d
  <2>3. d[t] \in Row /\ d[t].state \in {"open", "done"} /\ d[t].parent = p /\ d[t].project = j
    BY <1>1, <2>1 DEF Inv, HandlerTypeOK, Row, Exists
  <2>4. \A x \in Objects \ {t} : /\ d[x] \in Row
                                 /\ d[x].parent = doc[x].parent /\ d[x].state = doc[x].state
                                 /\ x \in Subtasks(t) => d[x].project = j
                                 /\ x \notin Subtasks(t) => d[x] = doc[x]
                                 /\ doc[x].project = j => d[x] = doc[x]
    BY <2>1 DEF Inv, HandlerTypeOK, Row
  <2>5. \A x \in Objects : d[x] \in Row
    BY <2>3, <2>4
  <2>6. d \in [Objects -> Row]
    BY <2>2, <2>5
  <2> QED BY <2>3, <2>4, <2>6
<1> HIDE DEF d
<1>3. Orderly(d)
  <2> SUFFICES ASSUME NEW s \in Tasks, d[s].state \in {"open", "done"}, d[s].parent # None
               PROVE  LET m == d[s].parent IN
                      d[m].state \in {"open", "done"} /\ d[m].parent = None /\ d[m].project = d[s].project
    BY DEF Orderly
  <2>1. CASE s = t
    <3>1. p \in Tasks /\ p \in Objects /\ p # t /\ p \notin Subtasks(t)
      BY <1>1, <1>2, <2>1 DEF Objects
    <3> QED BY <1>1, <1>2, <2>1, <3>1 DEF Exists
  <2>2. CASE s # t
    <3>1. PICK m \in Tasks : doc[s].parent = m
      BY <1>2, <2>2 DEF Inv, HandlerTypeOK, Row, Objects
    <3>2. s \in Objects /\ Exists(s) /\ d[s].parent = m
      BY <1>2, <2>2, <3>1 DEF Exists, Objects
    <3>3. m \in Objects /\ Exists(m) /\ doc[m].parent = None /\ doc[m].project = doc[s].project
      BY <3>1, <3>2, Above DEF Inv, Objects
    <3>4. CASE m = t
      <4>1. s \in Subtasks(t)
        BY <3>1, <3>2, <3>4 DEF Subtasks
      <4>2. p = None /\ d[s].project = j
        BY <1>1, <1>2, <2>2, <3>2, <4>1
      <4> QED BY <1>2, <3>2, <3>4, <4>2
    <3>5. CASE m # t
      <4>1. s \notin Subtasks(t) /\ m \notin Subtasks(t)
        BY <3>1, <3>3, <3>5, HandlerAssumption DEF Subtasks
      <4>2. d[s] = doc[s] /\ d[m] = doc[m]
        BY <1>2, <2>2, <3>2, <3>3, <3>5, <4>1
      <4> QED BY <3>1, <3>3, <4>2 DEF Exists
    <3> QED BY <3>4, <3>5
  <2> QED BY <2>1, <2>2
<1>4. ASSUME ~missed, ~overlooked', NEW x \in Objects, Differs(cached, x)' \/ Differs(reading, x)'
      PROVE  /\ x \in Embedded(key)'
             /\ \/ x = t
                \/ x \in Tasks /\ x # key /\ d[x].parent = t /\ t \in Tasks
                \/ /\ Differs(cached, x) \/ Differs(reading, x)
                   /\ x \in Tasks => d[x].parent = doc[x].parent
  <2>1. /\ ~overlooked /\ key \notin Behind(t, p, j)
        /\ Differs(cached, x) \/ Differs(reading, x) => x \in Embedded(key)
    <3>1. ~overlooked /\ {cached, reading} # {None}
      BY <1>1, <1>4 DEF Differs
    <3> QED BY <1>1, <1>4, <3>1 DEF Inv, OldIsOnItsWay
  <2>2. \A v \in {cached, reading} \ {None} : x \in DOMAIN v /\ Exists(x) => x \in Embedded(key)
    BY <2>1 DEF Differs
  <2>3. CASE x = t
    <3>1. Exists(t)'
      BY <1>1, <1>2 DEF Exists
    <3>2. CASE \E v \in {cached, reading} \ {None} : t \in DOMAIN v
      <4>1. Exists(t)
        BY <1>1, <3>2 DEF Place, Inv, HandlerTypeOK, Row, Exists
      <4>2. key = t \/ key \in {doc[t].parent, doc[t].project, Listing}
        BY <2>2, <2>3, <3>2, <4>1, EmbeddedFacts
      <4>3. key = t \/ key \in {p, j, Listing}
        BY <2>1, <4>2 DEF Behind
      <4> QED BY <1>1, <1>2, <2>3, <3>1, <4>3 DEF Embedded
    <3>3. CASE ~\E v \in {cached, reading} \ {None} : t \in DOMAIN v
      BY <1>1, <1>4, <2>3, <3>3 DEF Differs
    <3> QED BY <2>3, <3>2, <3>3
  <2>4. CASE x \in Subtasks(t) \ {t}
    <3>1. /\ x \in Tasks /\ Exists(x) /\ doc[x].parent = t /\ d[x].parent = t /\ Exists(x)'
          /\ d[x].project = j
      BY <1>1, <1>2, <2>4 DEF Subtasks, Objects, Exists
    <3>2. x \in Embedded(key) => x \in Embedded(key)'
      <4>1. x \in Embedded(key) => x = key \/ key \in {t, j, Listing}
        <5>1. p = None /\ key # None
          BY <1>1, <2>4, HandlerAssumption DEF Inv, HandlerTypeOK, Keys, Objects
        <5>2. doc[x].project = doc[t].project
          BY <3>1, Above DEF Inv
        <5>3. key = doc[t].project => key = j
          BY <2>1, <5>1 DEF Behind
        <5> QED BY <3>1, <5>2, <5>3, EmbeddedFacts
      <4> QED BY <1>1, <3>1, <4>1 DEF Embedded
    <3>3. x \in Embedded(key)'
      BY <1>1, <1>4, <2>2, <3>1, <3>2 DEF Differs
    <3>4. CASE x # key
      BY <3>1, <3>3, <3>4
    <3>5. CASE x = key
      <4>1. doc[x].project = j
        BY <2>1, <2>4, <3>5 DEF Behind
      <4>2. d[x] = doc[x]
        BY <1>2, <2>4, <4>1
      <4>3. x \in Embedded(key)
        BY <3>1, <3>5 DEF Embedded
      <4>4. Differs(cached, x) \/ Differs(reading, x)
        BY <1>1, <1>4, <3>1, <3>3, <4>2, <4>3 DEF Differs
      <4> QED BY <3>1, <3>3, <4>4
    <3> QED BY <3>4, <3>5
  <2>5. CASE x # t /\ x \notin Subtasks(t)
    <3>1. d[x] = doc[x]
      BY <1>2, <2>5
    <3>2. Exists(x)' = Exists(x) /\ (x \in Embedded(key)' <=> x \in Embedded(key))
      BY <1>1, <3>1 DEF Embedded, Exists
    <3>3. Differs(cached, x) \/ Differs(reading, x)
      BY <1>1, <1>4, <3>1, <3>2 DEF Differs
    <3> QED BY <2>1, <3>1, <3>2, <3>3
  <2> QED BY <2>3, <2>4, <2>5
<1>5. \A x \in Objects : d[x].state = "new" => doc[x].state = "new"
  BY <1>2
<1> QED BY <1>1, <1>2, <1>3, <1>4, <1>5, ChangedKeepsInv

\* A read sees OmniFocus as it is, and what it read is committed unchanged.
LEMMA ReadKeepsInv == ASSUME Inv, Read \/ Commit PROVE Inv'
<1>1. UNCHANGED <<clock, unsaved, lines, window, missed, doc, modAt, key, overlooked,
                  stage, since, scopes>>
  BY DEF Read, Commit, watcherVars, sourceVars, docVars, runVars
<1>2. Embedded(key)' = Embedded(key)
  BY <1>1 DEF Embedded, Exists
<1>3. \/ cached = None /\ reading = None /\ cached' = None /\ reading' = Value(key)
      \/ cached' = reading /\ reading' = None
  BY DEF Read, Commit
<1>4. /\ \A o \in DOMAIN Value(key) : doc[o].state # "new"
      /\ \A o \in Objects : ~Differs(Value(key), o)
  BY DEF Value, Restrict, Differs, Embedded, Exists
<1>5. HandlerTypeOK' /\ StampsInOrder'
  <2>1. \A v \in {cached', reading'} \ {None} : \A o \in DOMAIN v \cap Objects : doc[o].state # "new"
    BY <1>3, <1>4 DEF Inv, HandlerTypeOK
  <2> QED BY <1>1, <2>1 DEF Inv, HandlerTypeOK, StampsInOrder, Orderly
<1>6. OldIsOnItsWay'
  <2> SUFFICES ASSUME ~missed, ~overlooked, NEW o \in Objects, Differs(cached, o)' \/ Differs(reading, o)'
               PROVE  o \in Embedded(key) /\ (OnItsWay(o)' \/ Carried(o)')
    BY <1>1, <1>2 DEF OldIsOnItsWay
  <2>1. Differs(cached, o) \/ Differs(reading, o)
    BY <1>1, <1>2, <1>3, <1>4 DEF Differs, Exists
  <2>2. o \in Embedded(key) /\ (OnItsWay(o) \/ Carried(o))
    BY <2>1 DEF Inv, OldIsOnItsWay
  <2>3. \A x : OnItsWay(x) => OnItsWay(x)'
    BY <1>1 DEF OnItsWay, Reaches
  <2> QED BY <1>1, <2>2, <2>3 DEF Carried
<1> QED BY <1>5, <1>6 DEF Inv

-----------------------------------------------------------------------------
\* The runs of the handler

\* What each of their steps leaves alone.
RunFrame == UNCHANGED <<clock, unsaved, lines, missed, doc, modAt, key>>

\* A run that passes on what it was told, and touches no entry, keeps the
\* invariant.
LEMMA PassingOnKeepsInv ==
    ASSUME Inv, RunFrame, UNCHANGED <<cached, reading, overlooked>>, window' \in {window, None},
           stage' \in [Runs -> {"idle", "query", "resolve", "flush"}],
           since' \in [Runs -> Int], DOMAIN scopes' = Runs,
           \A o \in Embedded(key) : OnItsWay(o) => OnItsWay(o)'
    PROVE  Inv'
<1>1. HandlerTypeOK' /\ StampsInOrder'
  BY WatcherAssumption DEF RunFrame, Inv, HandlerTypeOK, StampsInOrder, Orderly
<1>2. OldIsOnItsWay'
  BY NewsKept DEF RunFrame
<1> QED BY <1>1, <1>2 DEF Inv

\* The debounce timer hands the window's stamp to a run.
LEMMA FireKeepsInv ==
    ASSUME Inv, NEW h \in Runs, Fire(h)
    PROVE  Inv'
<1> USE WatcherAssumption, HandlerAssumption
<1>1. /\ window # None /\ stage[h] = "idle" /\ window' = None
      /\ since' = [since EXCEPT ![h] = window - Buffer]
      /\ stage' = [stage EXCEPT ![h] = "query"]
      /\ UNCHANGED <<scopes, cached, reading, overlooked>> /\ RunFrame
  BY DEF Fire, RunFrame, docVars, cacheVars
<1>2. /\ stage' \in [Runs -> {"idle", "query", "resolve", "flush"}]
      /\ since' \in [Runs -> Int] /\ DOMAIN scopes' = Runs
  BY <1>1 DEF Inv, HandlerTypeOK
<1>3. ASSUME NEW o \in Embedded(key), OnItsWay(o)
      PROVE  OnItsWay(o)'
  <2>1. CASE Reaches(window, o)
    <3>1. stage'[h] = "query" /\ since'[h] <= modAt[o]
      BY <1>1, <2>1 DEF Inv, HandlerTypeOK, Reaches
    <3> QED BY <1>1, <3>1 DEF OnItsWay, RunFrame
  <2>2. ASSUME NEW g \in Runs,
               \/ stage[g] = "query" /\ since[g] <= modAt[o]
               \/ stage[g] = "resolve" /\ {o, Listing} \subseteq scopes[g]
               \/ stage[g] = "flush" /\ key \in scopes[g]
        PROVE  OnItsWay(o)'
    <3>1. stage'[g] = stage[g] /\ since'[g] = since[g]
      BY <1>1, <2>2 DEF Inv, HandlerTypeOK
    <3> QED BY <1>1, <2>2, <3>1 DEF OnItsWay, RunFrame
  <2> QED BY <1>1, <1>3, <2>1, <2>2 DEF OnItsWay, Reaches, RunFrame
<1> QED BY <1>1, <1>2, <1>3, PassingOnKeepsInv

\* A run that goes on to its next stage: what the others carry stays, and it
\* has to show only that it still carries what it did.
LEMMA RunGoesOn ==
    ASSUME Inv, NEW h \in Runs, NEW found, NEW next \in {"resolve", "flush"},
           Evicting(h, found, next), RunFrame, UNCHANGED <<window, cached, reading, overlooked>>,
           since' \in [Runs -> Int], \A g \in Runs \ {h} : since'[g] = since[g],
           NEW o \in Embedded(key), OnItsWay(o),
           \/ stage[h] = "query" /\ since[h] <= modAt[o]
           \/ stage[h] = "resolve" /\ {o, Listing} \subseteq scopes[h]
           => \/ next = "resolve" /\ {o, Listing} \subseteq found
              \/ next = "flush" /\ key \in found,
           stage[h] # "flush"
    PROVE  OnItsWay(o)'
<1>1. stage' = [stage EXCEPT ![h] = next] /\ scopes' = [scopes EXCEPT ![h] = found]
  BY DEF Evicting
<1>2. stage'[h] = next /\ scopes'[h] = found
  BY <1>1 DEF Inv, HandlerTypeOK
<1>3. ASSUME NEW g \in Runs \ {h}
      PROVE  stage'[g] = stage[g] /\ scopes'[g] = scopes[g] /\ since'[g] = since[g]
  BY <1>1 DEF Inv, HandlerTypeOK
<1>4. CASE \/ stage[h] = "query" /\ since[h] <= modAt[o]
           \/ stage[h] = "resolve" /\ {o, Listing} \subseteq scopes[h]
  BY <1>2, <1>4 DEF OnItsWay, RunFrame
<1>5. ASSUME NEW g \in Runs \ {h},
             \/ stage[g] = "query" /\ since[g] <= modAt[o]
             \/ stage[g] = "resolve" /\ {o, Listing} \subseteq scopes[g]
             \/ stage[g] = "flush" /\ key \in scopes[g]
      PROVE  OnItsWay(o)'
  BY <1>3, <1>5 DEF OnItsWay, RunFrame
<1>6. CASE \/ unsaved # None /\ unsaved <= modAt[o]
           \/ \E i \in 1..Len(lines) : Reaches(lines[i], o)
           \/ window # None /\ Reaches(window, o)
  BY <1>6 DEF OnItsWay, Reaches, RunFrame
<1> QED BY <1>4, <1>5, <1>6 DEF OnItsWay

\* The query finds every object that still exists and changed since.
LEMMA QueryKeepsInv ==
    ASSUME Inv, NEW h \in Runs, Query(h)
    PROVE  Inv'
<1> USE HandlerAssumption
<1> DEFINE found == ModifiedSince(since[h])
           next == IF found \cap Tasks # {} THEN "resolve" ELSE "flush"
<1>1. /\ stage[h] = "query" /\ RunFrame /\ UNCHANGED <<window, cached, reading, overlooked>>
      /\ since' = [since EXCEPT ![h] = Never]
      /\ Evicting(h, Keys, "flush") \/ Evicting(h, found \cup {Listing}, next)
  BY DEF Query, FullClear, RunFrame, watcherVars, docVars, cacheVars
<1>2. /\ since' \in [Runs -> Int] /\ \A g \in Runs \ {h} : since'[g] = since[g]
      /\ key \in Keys
  BY <1>1 DEF Inv, HandlerTypeOK, Never
<1>3. /\ stage' \in [Runs -> {"idle", "query", "resolve", "flush"}] /\ DOMAIN scopes' = Runs
  BY <1>1 DEF Inv, HandlerTypeOK, Evicting
<1>4. ASSUME NEW o \in Embedded(key), OnItsWay(o)
      PROVE  OnItsWay(o)'
  <2>1. CASE Evicting(h, Keys, "flush")
    BY <1>1, <1>2, <1>4, <2>1, RunGoesOn
  <2>2. CASE Evicting(h, found \cup {Listing}, next)
    <3>1. /\ o \in Objects /\ Exists(o)
          /\ o = key \/ (o \in Tasks /\ key \in {doc[o].parent, doc[o].project, Listing})
      BY <1>4, EmbeddedFacts
    <3>2. since[h] <= modAt[o] => o \in found
      BY <1>4, <3>1 DEF ModifiedSince, Inv, HandlerTypeOK
    <3>3. since[h] <= modAt[o] =>
             \/ next = "resolve" /\ {o, Listing} \subseteq found \cup {Listing}
             \/ next = "flush" /\ key \in found \cup {Listing}
      BY <3>1, <3>2
    <3>4. next \in {"resolve", "flush"}
      OBVIOUS
    <3> HIDE DEF next, found
    <3> QED BY <1>1, <1>2, <1>4, <2>2, <3>3, <3>4, RunGoesOn
  <2> QED BY <1>1, <2>1, <2>2
<1> QED BY <1>1, <1>2, <1>3, <1>4, PassingOnKeepsInv

\* The containers of a task that still exists are found with it.
LEMMA ResolveKeepsInv ==
    ASSUME Inv, NEW h \in Runs, Resolve(h)
    PROVE  Inv'
<1> USE HandlerAssumption
<1> DEFINE found == {t \in scopes[h] \cap Tasks : Exists(t)}
           wider == scopes[h] \cup (Containers(found) \ {None})
<1>1. /\ stage[h] = "resolve" /\ RunFrame /\ UNCHANGED <<window, cached, reading, overlooked, since>>
      /\ Evicting(h, Keys, "flush") \/ Evicting(h, wider, "flush")
  BY DEF Resolve, FullClear, RunFrame, watcherVars, docVars, cacheVars
<1>2. /\ since' \in [Runs -> Int] /\ \A g \in Runs \ {h} : since'[g] = since[g]
      /\ key \in Keys /\ key # None
  BY <1>1 DEF Inv, HandlerTypeOK, Keys, Objects
<1>3. /\ stage' \in [Runs -> {"idle", "query", "resolve", "flush"}] /\ DOMAIN scopes' = Runs
  BY <1>1 DEF Inv, HandlerTypeOK, Evicting
<1>4. ASSUME NEW o \in Embedded(key), OnItsWay(o)
      PROVE  OnItsWay(o)'
  <2>1. CASE Evicting(h, Keys, "flush")
    BY <1>1, <1>2, <1>4, <2>1, RunGoesOn
  <2>2. CASE Evicting(h, wider, "flush")
    <3>1. /\ o \in Objects /\ Exists(o)
          /\ o = key \/ (o \in Tasks /\ key \in {doc[o].parent, doc[o].project, Listing})
      BY <1>4, EmbeddedFacts
    <3>2. {o, Listing} \subseteq scopes[h] => key \in wider
      BY <1>2, <1>4, <3>1 DEF Containers
    <3> HIDE DEF wider
    <3> QED BY <1>1, <1>2, <1>4, <2>2, <3>2, RunGoesOn
  <2> QED BY <1>1, <2>1, <2>2
<1> QED BY <1>1, <1>2, <1>3, <1>4, PassingOnKeepsInv

\* The eviction: the entry goes with the run that carried the news of it.
LEMMA FlushKeepsInv ==
    ASSUME Inv, NEW h \in Runs, Flush(h)
    PROVE  Inv'
<1>1. /\ stage[h] = "flush" /\ RunFrame /\ UNCHANGED <<window, since>>
      /\ \/ key \in scopes[h] /\ cached' = None /\ reading' = None /\ overlooked' = FALSE
         \/ key \notin scopes[h] /\ UNCHANGED <<cached, reading, overlooked>>
      /\ stage' = [stage EXCEPT ![h] = "idle"] /\ scopes' = [scopes EXCEPT ![h] = {}]
  BY DEF Flush, Evicting, RunFrame, watcherVars, docVars
<1>2. /\ stage' \in [Runs -> {"idle", "query", "resolve", "flush"}] /\ DOMAIN scopes' = Runs
      /\ since' \in [Runs -> Int]
      /\ \A g \in Runs \ {h} : stage'[g] = stage[g] /\ scopes'[g] = scopes[g] /\ since'[g] = since[g]
  BY <1>1 DEF Inv, HandlerTypeOK
<1>3. CASE key \in scopes[h] /\ cached' = None /\ reading' = None /\ overlooked' = FALSE
  <2>1. HandlerTypeOK' /\ StampsInOrder'
    BY <1>1, <1>2, <1>3 DEF Inv, HandlerTypeOK, StampsInOrder, RunFrame, Orderly
  <2> QED BY <1>3, <2>1 DEF Inv, OldIsOnItsWay, Differs
<1>4. CASE key \notin scopes[h] /\ UNCHANGED <<cached, reading, overlooked>>
  <2>1. ASSUME NEW o \in Embedded(key), OnItsWay(o)
        PROVE  OnItsWay(o)'
    <3>1. CASE \/ unsaved # None /\ unsaved <= modAt[o]
               \/ \E i \in 1..Len(lines) : Reaches(lines[i], o)
               \/ window # None /\ Reaches(window, o)
      BY <1>1, <3>1 DEF OnItsWay, Reaches, RunFrame
    <3>2. ASSUME NEW g \in Runs,
                 \/ stage[g] = "query" /\ since[g] <= modAt[o]
                 \/ stage[g] = "resolve" /\ {o, Listing} \subseteq scopes[g]
                 \/ stage[g] = "flush" /\ key \in scopes[g]
          PROVE  OnItsWay(o)'
      <4>1. g # h
        BY <1>1, <1>4, <3>2
      <4> QED BY <1>1, <1>2, <3>2, <4>1 DEF OnItsWay, RunFrame
    <3> QED BY <2>1, <3>1, <3>2 DEF OnItsWay
  <2> QED BY <1>1, <1>2, <1>4, <2>1, PassingOnKeepsInv
<1> QED BY <1>1, <1>3, <1>4

-----------------------------------------------------------------------------

LEMMA StepKeepsInv ==
    ASSUME Lag <= Buffer, Inv, [Next]_vars
    PROVE  Inv'
<1>1. CASE UNCHANGED vars
  <2>1. UNCHANGED <<clock, unsaved, sourceVars, lines, window, missed, doc, modAt, key, cached, reading,
                    overlooked, stage, since, scopes>>
    BY <1>1 DEF vars, watcherVars, docVars, cacheVars, runVars
  <2>2. HandlerTypeOK' /\ StampsInOrder'
    BY <2>1 DEF Inv, HandlerTypeOK, StampsInOrder, Orderly
  <2>3. OldIsOnItsWay'
    BY <2>1, NewsKept DEF OnItsWay, Reaches
  <2> QED BY <2>2, <2>3 DEF Inv
<1>2. ASSUME NEW o \in Objects, Edit(o) PROVE Inv'
  BY <1>2, EditKeepsInv
<1>3. ASSUME NEW t \in Tasks, Delete(t) PROVE Inv'
  BY <1>3, DeleteKeepsInv
<1>5. ASSUME NEW t \in Tasks, NEW p \in Tasks \cup {None}, NEW j \in Projects \cup {None}, Place(t, p, j)
      PROVE  Inv'
  BY <1>5, PlaceKeepsInv
<1>4. ASSUME NEW h \in Runs, Fire(h) \/ Run(h) PROVE Inv'
  BY <1>4, FireKeepsInv, QueryKeepsInv, ResolveKeepsInv, FlushKeepsInv DEF Run
<1> QED BY <1>1, <1>2, <1>3, <1>4, <1>5, WatcherKeepsInv, ReadKeepsInv DEF Next

\* When every change that some watcher saw has been handled, what is cached, or
\* about to be, of the objects that exist is what OmniFocus has, unless a move
\* took a task out of the entry's reach: makeDatabaseChangeHandler with
\* DatabaseWatcher keeps the cache, for any tasks and projects, whatever is
\* edited, created, moved or deleted, and for any overlap of runs and any
\* failures of the sources and of the adapter.
THEOREM CacheFollowsOmniFocus ==
    ASSUME Lag <= Buffer
    PROVE  Spec => []FreshWhenQuiet
<1>1. Inv => FreshWhenQuiet
  <2> SUFFICES ASSUME Inv, Quiet, ~missed, ~overlooked, NEW o \in Objects
               PROVE  ~Differs(cached, o) /\ ~Differs(reading, o)
    BY DEF FreshWhenQuiet
  <2>1. \A x : ~OnItsWay(x)
    BY DEF Quiet, OnItsWay
  <2> QED BY <2>1 DEF Inv, OldIsOnItsWay, Carried
<1>2. Inv /\ [Next]_vars => Inv'
  BY StepKeepsInv
<1> QED BY <1>1, <1>2, InitInv, PTL DEF Spec

-----------------------------------------------------------------------------
\* The webhooks: the same runs of the handler, after their eviction.

OpenOrDone == {"open", "done"}

HookTypeOK ==
    /\ states \in [Objects -> OpenOrDone]
    /\ snap \in [Runs -> [Objects -> OpenOrDone \cup {Null}]]
    /\ phase \in [Runs -> {"idle", "observe", "deliver"}]
    /\ observeChain \in Seq(Runs)
    /\ windows \in Nat
    /\ baseline \in [Objects -> OpenOrDone] \cup {Null}
    /\ DOMAIN attempts = Runs

\* What does not touch the runs, OmniFocus or the baseline.
Elsewhere ==
    /\ UNCHANGED <<states, due, pending, windows, phase, observeChain, snap, behind, baseline>>
    /\ DOMAIN attempts' = DOMAIN attempts

First(h) == observeChain # <<>> /\ Head(observeChain) = h

\* Only the head of the chain has fetched, or delivers.
HeadObserves ==
    \A h \in Runs :
        /\ (\E o \in Objects : snap[h][o] # Null) => phase[h] = "observe" /\ First(h)
        /\ phase[h] = "deliver" => First(h)

\* The chain holds the runs at work, each once.
ChainAtWork ==
    /\ \A i \in 1..Len(observeChain) : phase[observeChain[i]] # "idle"
    /\ \A h \in Runs : phase[h] # "idle" => \E i \in 1..Len(observeChain) : observeChain[i] = h
    /\ \A i, j \in 1..Len(observeChain) : observeChain[i] = observeChain[j] => i = j

\* A task that is done now and was not in what was read of it is due.
DueTrue ==
    \A t \in Tasks :
        /\ baseline # Null /\ baseline[t] = "open" /\ states[t] = "done" => t \in due
        /\ \A h \in Runs :
              /\ snap[h][t] = "open" /\ states[t] = "done" => t \in due
              /\ baseline # Null /\ baseline[t] = "open" /\ snap[h][t] = "done" => t \in due

Last == observeChain[Len(observeChain)]
LastWillObserve == observeChain # <<>> /\ phase[Last] = "observe"

\* When OmniFocus rests, what the last run has read or will read is the
\* present state, and once it has compared, so is the baseline.
CaughtUp ==
    ~pending /\ ~behind /\ windows > 0 =>
        /\ LastWillObserve => \A o \in Objects : snap[Last][o] \in {Null, states[o]}
        /\ ~LastWillObserve => baseline = states

HookInv == HookTypeOK /\ HeadObserves /\ ChainAtWork /\ DueTrue /\ CaughtUp
-----------------------------------------------------------------------------
\* The chain

\* What the line is when its head has left.
LEMMA TailOf ==
    ASSUME NEW S, NEW s \in Seq(S), s # <<>>
    PROVE  /\ Tail(s) \in Seq(S) /\ Len(Tail(s)) = Len(s) - 1 /\ Len(s) \in Nat /\ Len(s) >= 1
           /\ Head(s) = s[1] /\ \A i \in 1..Len(s) - 1 : Tail(s)[i] = s[i + 1]
<1>1. Len(s) \in Nat /\ Len(s) # 0
  BY EmptySeq, LenProperties
<1> QED BY <1>1, HeadTailProperties

\* What the line is when a run has joined it.
LEMMA AppendOf ==
    ASSUME NEW S, NEW s \in Seq(S), NEW e \in S
    PROVE  /\ Append(s, e) \in Seq(S) /\ Len(Append(s, e)) = Len(s) + 1 /\ Len(s) \in Nat
           /\ Append(s, e)[Len(s) + 1] = e /\ \A i \in 1..Len(s) : Append(s, e)[i] = s[i]
           /\ Append(s, e) # <<>> /\ (s # <<>> => Head(Append(s, e)) = Head(s))
           /\ (s = <<>> => Head(Append(s, e)) = e)
<1>1. /\ Append(s, e) \in Seq(S) /\ Len(Append(s, e)) = Len(s) + 1 /\ Len(s) \in Nat
      /\ Append(s, e)[Len(s) + 1] = e /\ \A i \in 1..Len(s) : Append(s, e)[i] = s[i]
  BY AppendProperties, LenProperties
<1>2. Append(s, e) # <<>> /\ Head(Append(s, e)) = Append(s, e)[1]
  <2>1. Len(Append(s, e)) # 0
    BY <1>1
  <2>2. Append(s, e) # <<>>
    BY <2>1, EmptySeq
  <2> QED BY <1>1, <2>2, HeadTailProperties
<1>3. s # <<>> => Len(s) >= 1 /\ Head(s) = s[1]
  BY TailOf
<1>4. s = <<>> => Len(s) = 0
  BY EmptySeq
<1> QED BY <1>1, <1>2, <1>3, <1>4

\* A run that leaves hands its place to the next, and nobody else moves.
LEMMA HeadLeaves ==
    ASSUME HookInv, NEW h \in Runs, First(h), LeaveChain(h)
    PROVE  /\ observeChain' \in Seq(Runs)
           /\ phase' \in [Runs -> {"idle", "observe", "deliver"}]
           /\ \A g \in Runs : phase'[g] = IF g = h THEN "idle" ELSE phase[g]
           /\ ChainAtWork'
           /\ Len(observeChain) # 1 =>
                 observeChain' # <<>> /\ Last' = Last /\ Last # h /\ Last \in Runs
                 /\ LastWillObserve /\ LastWillObserve'
           /\ Len(observeChain) = 1 => observeChain' = <<>> /\ Last = h
<1> DEFINE n == Len(observeChain)
<1>1. /\ observeChain' \in Seq(Runs) /\ Len(observeChain') = n - 1 /\ n \in Nat /\ n >= 1
      /\ observeChain[1] = h /\ \A i \in 1..n - 1 : observeChain'[i] = observeChain[i + 1]
  BY TailOf DEF HookInv, HookTypeOK, First, LeaveChain
<1>2. /\ phase' \in [Runs -> {"idle", "observe", "deliver"}]
      /\ \A g \in Runs : phase'[g] = IF g = h THEN "idle" ELSE phase[g]
  BY DEF HookInv, HookTypeOK, LeaveChain
<1>3. \A i \in 1..n : observeChain[i] \in Runs /\ (i # 1 => observeChain[i] # h)
  <2>1. \A i \in 1..n : observeChain[i] \in Runs
    BY ElementOfSeq DEF HookInv, HookTypeOK
  <2>2. 1 \in 1..n
    BY <1>1
  <2> QED BY <1>1, <2>1, <2>2 DEF HookInv, ChainAtWork
<1>4. ChainAtWork'
  <2>1. ASSUME NEW i \in 1..n - 1
        PROVE  phase'[observeChain'[i]] # "idle" /\ i + 1 \in 1..n
               /\ observeChain'[i] = observeChain[i + 1]
    <3>1. i + 1 \in 1..n /\ i + 1 # 1
      BY <1>1
    <3> QED BY <1>1, <1>2, <1>3, <3>1 DEF HookInv, ChainAtWork
  <2>2. ASSUME NEW i \in 1..n - 1, NEW j \in 1..n - 1, observeChain'[i] = observeChain'[j]
        PROVE  i = j
    <3>1. /\ i + 1 \in 1..n /\ j + 1 \in 1..n
          /\ observeChain[i + 1] = observeChain[j + 1]
      BY <2>1, <2>2
    <3>2. i + 1 = j + 1
      BY <3>1 DEF HookInv, ChainAtWork
    <3> QED BY <3>2
  <2>3. ASSUME NEW g \in Runs, phase'[g] # "idle"
        PROVE  \E i \in 1..n - 1 : observeChain'[i] = g
    <3>1. g # h /\ phase[g] # "idle"
      BY <1>2, <2>3
    <3>2. PICK i \in 1..n : observeChain[i] = g
      BY <3>1 DEF HookInv, ChainAtWork
    <3>3. i - 1 \in 1..n - 1 /\ (i - 1) + 1 = i
      BY <1>1, <3>1, <3>2
    <3> QED BY <1>1, <3>2, <3>3
  <2> QED BY <1>1, <2>1, <2>2, <2>3 DEF ChainAtWork
<1>5. CASE n # 1
  <2>1. n - 1 \in 1..n - 1 /\ (n - 1) + 1 = n /\ n \in 1..n /\ n # 1 /\ n - 1 # 0
    BY <1>1, <1>5
  <2>2. observeChain' # <<>> /\ Last' = Last
    <3>1. Last' = observeChain'[n - 1]
      BY <1>1 DEF Last
    <3>2. observeChain'[n - 1] = observeChain[n]
      BY <1>1, <2>1
    <3>3. observeChain' # <<>>
      BY <1>1, <2>1, EmptySeq
    <3> QED BY <3>1, <3>2, <3>3 DEF Last
  <2>3. Last \in Runs /\ Last # h
    BY <1>3, <2>1 DEF Last
  <2>4. phase[Last] # "idle" /\ phase[Last] # "deliver"
    BY <2>1, <2>3 DEF Last, HookInv, ChainAtWork, HeadObserves, First
  <2>5. LastWillObserve /\ LastWillObserve'
    BY <1>2, <2>2, <2>3, <2>4 DEF LastWillObserve, HookInv, HookTypeOK, First
  <2> QED BY <1>1, <1>2, <1>4, <1>5, <2>2, <2>3, <2>5
<1>6. CASE n = 1
  <2>1. observeChain' = <<>>
    BY <1>1, <1>6, EmptySeq
  <2> QED BY <1>1, <1>2, <1>4, <1>6, <2>1 DEF Last
<1> QED BY <1>5, <1>6

\* Only the head has anything of its own, so for the others nothing changes.
LEMMA OthersBlank ==
    ASSUME HookInv, NEW h \in Runs, First(h), NEW g \in Runs, g # h
    PROVE  phase[g] # "deliver" /\ \A o \in Objects : snap[g][o] = Null
BY DEF HookInv, HeadObserves, First

-----------------------------------------------------------------------------
\* Steps

\* Somebody works in OmniFocus: a completed task becomes due.
LEMMA ChangeKeepsInv ==
    ASSUME HookInv, NEW x \in Objects, Change(x)
    PROVE  HookInv'
<1>1. /\ states' = [states EXCEPT ![x] = IF @ = "open" THEN "done" ELSE "open"]
      /\ due \subseteq due' /\ (x \in Tasks /\ states[x] = "open" => x \in due')
      /\ pending' = TRUE
      /\ UNCHANGED <<windows, phase, observeChain, snap, behind, baseline, attempts>>
  BY DEF Change, observeVars, hookVars, sendVars
<1>2. HookTypeOK'
  BY <1>1 DEF HookInv, HookTypeOK, OpenOrDone
<1>3. HeadObserves' /\ ChainAtWork' /\ CaughtUp'
  BY <1>1 DEF HookInv, HeadObserves, ChainAtWork, First, CaughtUp
<1>4. ASSUME NEW t \in Tasks, states'[t] = "done", t \notin due'
      PROVE  states[t] = "done"
  BY <1>1, <1>4 DEF HookInv, HookTypeOK, OpenOrDone, Objects
<1>5. DueTrue'
  BY <1>1, <1>4 DEF HookInv, DueTrue
<1> QED BY <1>2, <1>3, <1>5 DEF HookInv

LEMMA ElsewhereKeepsInv ==
    ASSUME HookInv, Elsewhere
    PROVE  HookInv'
BY DEF Elsewhere, HookInv, HookTypeOK, HeadObserves, First, ChainAtWork, DueTrue, CaughtUp, Last,
       LastWillObserve

\* A window opens a run at the end of the chain, or none is interested.
LEMMA WindowKeepsInv ==
    ASSUME HookInv, NEW h \in Runs, Window(h)
    PROVE  HookInv'
<1>1. /\ phase[h] = "idle" /\ windows' = windows + 1 /\ pending' = FALSE
      /\ behind' = (registered = {})
      /\ UNCHANGED <<states, due, snap, baseline, attempts>>
  BY DEF Window, hookVars, sendVars
<1>2. DueTrue'
  BY <1>1 DEF HookInv, DueTrue
<1>3. CASE registered = {} /\ UNCHANGED <<phase, observeChain>>
  <2>1. HookTypeOK'
    BY <1>1, <1>3 DEF HookInv, HookTypeOK
  <2>2. HeadObserves' /\ ChainAtWork' /\ CaughtUp'
    BY <1>1, <1>3 DEF HookInv, HeadObserves, First, ChainAtWork, CaughtUp
  <2> QED BY <1>2, <2>1, <2>2 DEF HookInv
<1>4. CASE /\ registered # {} /\ phase' = [phase EXCEPT ![h] = "observe"]
           /\ observeChain' = Append(observeChain, h)
  <2> DEFINE n == Len(observeChain)
  <2>1. /\ observeChain' \in Seq(Runs) /\ Len(observeChain') = n + 1 /\ n \in Nat
        /\ observeChain'[n + 1] = h /\ \A i \in 1..n : observeChain'[i] = observeChain[i]
        /\ observeChain' # <<>> /\ (observeChain # <<>> => Head(observeChain') = Head(observeChain))
    BY <1>4, AppendOf DEF HookInv, HookTypeOK
  <2>2. /\ phase' \in [Runs -> {"idle", "observe", "deliver"}]
        /\ \A g \in Runs : phase'[g] = IF g = h THEN "observe" ELSE phase[g]
    BY <1>4 DEF HookInv, HookTypeOK
  <2>3. HookTypeOK'
    BY <1>1, <2>1, <2>2 DEF HookInv, HookTypeOK
  <2>4. \A g \in Runs : First(g) => First(g)'
    BY <2>1 DEF First
  <2>5. \A o \in Objects : snap[h][o] = Null
    BY <1>1 DEF HookInv, HeadObserves
  <2>6. HeadObserves'
    BY <1>1, <2>2, <2>4, <2>5 DEF HookInv, HeadObserves
  <2>7. ChainAtWork'
    <3>1. \A i \in 1..n : observeChain[i] \in Runs /\ phase[observeChain[i]] # "idle"
      BY ElementOfSeq DEF HookInv, HookTypeOK, ChainAtWork
    <3>2. \A i \in 1..n : observeChain[i] # h
      BY <1>1, <3>1
    <3>3. \A i \in 1..n + 1 : i \in 1..n \/ i = n + 1
      BY <2>1
    <3>4. \A i \in 1..n + 1 : phase'[observeChain'[i]] # "idle"
      BY <2>1, <2>2, <3>1, <3>3
    <3>5. \A i, j \in 1..n + 1 : observeChain'[i] = observeChain'[j] => i = j
      BY <2>1, <3>2, <3>3 DEF HookInv, ChainAtWork
    <3>6. ASSUME NEW g \in Runs, phase'[g] # "idle"
          PROVE  \E i \in 1..n + 1 : observeChain'[i] = g
      <4>1. CASE g = h
        BY <2>1, <4>1
      <4>2. CASE g # h
        <5>1. PICK i \in 1..n : observeChain[i] = g
          BY <2>2, <3>6, <4>2 DEF HookInv, ChainAtWork
        <5>2. i \in 1..n + 1
          BY <2>1
        <5> QED BY <2>1, <5>1, <5>2
      <4> QED BY <4>1, <4>2
    <3> QED BY <2>1, <3>4, <3>5, <3>6 DEF ChainAtWork
  <2>8. CaughtUp'
    <3>1. Last' = h
      BY <2>1 DEF Last
    <3>2. LastWillObserve'
      BY <2>1, <2>2, <3>1 DEF LastWillObserve
    <3> QED BY <1>1, <2>5, <3>1, <3>2 DEF CaughtUp
  <2> QED BY <1>2, <2>3, <2>6, <2>7, <2>8 DEF HookInv
<1> QED BY <1>3, <1>4 DEF Window

\* Whoever observes or delivers is the head of the chain.
LEMMA WhoIsFirst ==
    ASSUME HookInv, NEW h \in Runs, MayObserve(h)
    PROVE  phase[h] = "observe" /\ First(h)
<1>1. phase[h] = "observe" /\ Head(observeChain) = h
  BY DEF MayObserve
<1>2. \E i \in 1..Len(observeChain) : observeChain[i] = h
  BY <1>1 DEF HookInv, ChainAtWork
<1>3. observeChain # <<>>
  <2>1. Len(observeChain) # 0
    BY <1>2
  <2> QED BY <2>1, EmptySeq
<1> QED BY <1>1, <1>3 DEF First

\* The head reads some objects as they are now.
LEMMA FetchKeepsInv ==
    ASSUME HookInv, NEW h \in Runs, NEW part, Fetch(h, part)
    PROVE  HookInv'
<1>1. /\ phase[h] = "observe" /\ First(h)
      /\ snap' = [snap EXCEPT ![h] = [o \in Objects |->
                                         IF o \in part THEN states[o] ELSE snap[h][o]]]
      /\ UNCHANGED <<states, due, pending, windows, phase, observeChain, behind, baseline,
                     attempts>>
  BY WhoIsFirst DEF Fetch, stateVars, hookVars, sendVars
<1>2. /\ snap' \in [Runs -> [Objects -> OpenOrDone \cup {Null}]]
      /\ \A g \in Runs : g # h => snap'[g] = snap[g]
      /\ \A o \in Objects : snap'[h][o] = IF o \in part THEN states[o] ELSE snap[h][o]
  BY <1>1 DEF HookInv, HookTypeOK
<1>3. HookTypeOK'
  BY <1>1, <1>2 DEF HookInv, HookTypeOK
<1>4. HeadObserves'
  BY <1>1, <1>2 DEF HookInv, HeadObserves, First
<1>5. ChainAtWork'
  BY <1>1 DEF HookInv, ChainAtWork
<1>6. DueTrue'
  <2>1. ASSUME NEW t \in Tasks, NEW g \in Runs
        PROVE  /\ snap'[g][t] = "open" /\ states[t] = "done" => t \in due
               /\ baseline # Null /\ baseline[t] = "open" /\ snap'[g][t] = "done" => t \in due
    <3>1. t \in Objects
      BY DEF Objects
    <3>2. snap'[g][t] \in {snap[g][t], states[t]}
      BY <1>2, <3>1
    <3> QED BY <3>2 DEF HookInv, DueTrue
  <2> QED BY <1>1, <2>1 DEF HookInv, DueTrue
<1>7. CaughtUp'
  <2>1. Last' = Last /\ (LastWillObserve' <=> LastWillObserve)
    BY <1>1 DEF Last, LastWillObserve
  <2>2. \A o \in Objects :
           LastWillObserve /\ snap[Last][o] \in {Null, states[o]} =>
               snap'[Last][o] \in {Null, states[o]}
    <3>1. LastWillObserve => Last \in Runs
      <4>1. observeChain # <<>> => Len(observeChain) \in 1..Len(observeChain)
        BY TailOf DEF HookInv, HookTypeOK
      <4> QED BY <4>1, ElementOfSeq DEF HookInv, HookTypeOK, LastWillObserve, Last
    <3> QED BY <1>2, <3>1
  <2> QED BY <1>1, <2>1, <2>2 DEF HookInv, CaughtUp
<1> QED BY <1>3, <1>4, <1>5, <1>6, <1>7 DEF HookInv

\* The head gives up: the chain moves on, and if it was the last, it is behind.
LEMMA FetchFailsKeepsInv ==
    ASSUME HookInv, NEW h \in Runs, FetchFails(h)
    PROVE  HookInv'
<1>1. /\ First(h) /\ LeaveChain(h) /\ snap' = [snap EXCEPT ![h] = Blank]
      /\ behind' = (behind \/ Len(observeChain) = 1)
      /\ UNCHANGED <<states, due, pending, windows, baseline, attempts>>
  BY WhoIsFirst DEF FetchFails, stateVars, hookVars, sendVars
<1>2. /\ observeChain' \in Seq(Runs)
      /\ phase' \in [Runs -> {"idle", "observe", "deliver"}]
      /\ \A g \in Runs : phase'[g] = IF g = h THEN "idle" ELSE phase[g]
      /\ ChainAtWork'
      /\ Len(observeChain) # 1 =>
            observeChain' # <<>> /\ Last' = Last /\ Last # h /\ Last \in Runs
            /\ LastWillObserve /\ LastWillObserve'
  BY <1>1, HeadLeaves
<1>3. /\ snap' \in [Runs -> [Objects -> OpenOrDone \cup {Null}]]
      /\ \A g \in Runs : g # h => snap'[g] = snap[g]
      /\ \A g \in Runs : \A o \in Objects : snap'[g][o] = Null
  BY <1>1, OthersBlank DEF HookInv, HookTypeOK, Blank
<1>4. HookTypeOK'
  BY <1>1, <1>2, <1>3 DEF HookInv, HookTypeOK
<1>5. HeadObserves'
  BY <1>1, <1>2, <1>3, OthersBlank DEF HeadObserves
<1>6. DueTrue'
  BY <1>1, <1>3, WebhooksAssumption DEF OpenOrDone, HookInv, DueTrue, Objects
<1>7. CaughtUp'
  <2> SUFFICES ASSUME ~pending', ~behind', windows' > 0
               PROVE  /\ LastWillObserve' =>
                             \A o \in Objects : snap'[Last'][o] \in {Null, states'[o]}
                      /\ ~LastWillObserve' => baseline' = states'
    BY DEF CaughtUp
  <2>1. ~pending /\ ~behind /\ windows > 0 /\ Len(observeChain) # 1
    BY <1>1
  <2>2. /\ Last' = Last /\ Last \in Runs /\ snap'[Last] = snap[Last]
        /\ LastWillObserve /\ LastWillObserve'
    BY <1>2, <1>3, <2>1
  <2>3. \A o \in Objects : snap[Last][o] \in {Null, states[o]}
    BY <2>1, <2>2 DEF HookInv, CaughtUp
  <2> QED BY <1>1, <2>2, <2>3
<1> QED BY <1>2, <1>4, <1>5, <1>6, <1>7 DEF HookInv

\* The head compares what it has read with the baseline, which becomes that.
LEMMA ObserveKeepsInv ==
    ASSUME HookInv, NEW h \in Runs, Observe(h)
    PROVE  HookInv'
<1> DEFINE events == IF baseline = Null THEN {} ELSE Events(baseline, snap[h])
<1>1. /\ First(h) /\ Fetched(h) /\ due' = due \ events /\ baseline' = snap[h]
      /\ snap' = [snap EXCEPT ![h] = Blank] /\ phase' = [phase EXCEPT ![h] = "deliver"]
      /\ DOMAIN attempts' = DOMAIN attempts
      /\ UNCHANGED <<states, pending, windows, observeChain, behind>>
  BY WhoIsFirst DEF Observe, Deliver
<1>2. /\ snap' \in [Runs -> [Objects -> OpenOrDone \cup {Null}]]
      /\ \A g \in Runs : \A o \in Objects : snap'[g][o] = Null
  BY <1>1, OthersBlank DEF HookInv, HookTypeOK, Blank
<1>3. /\ phase' \in [Runs -> {"idle", "observe", "deliver"}]
      /\ \A g \in Runs : phase'[g] = IF g = h THEN "deliver" ELSE phase[g]
  BY <1>1 DEF HookInv, HookTypeOK
<1>4. HookTypeOK'
  <2>1. snap[h] \in [Objects -> OpenOrDone]
    BY <1>1 DEF HookInv, HookTypeOK, Fetched
  <2> QED BY <1>1, <1>2, <1>3, <2>1 DEF HookInv, HookTypeOK
<1>5. HeadObserves'
  BY <1>1, <1>2, <1>3, OthersBlank DEF HeadObserves, First
<1>6. ChainAtWork'
  <2>1. \A i \in 1..Len(observeChain) : observeChain[i] \in Runs
    BY ElementOfSeq DEF HookInv, HookTypeOK
  <2>2. \A g \in Runs : phase'[g] # "idle" => phase[g] # "idle" \/ g = h
    BY <1>3
  <2>3. \E i \in 1..Len(observeChain) : observeChain[i] = h
    <3>1. 1 \in 1..Len(observeChain) /\ observeChain[1] = h
      BY <1>1, TailOf DEF First, HookInv, HookTypeOK
    <3> QED BY <3>1
  <2> QED BY <1>1, <1>3, <2>1, <2>2, <2>3 DEF HookInv, ChainAtWork
<1>7. DueTrue'
  <2>1. ASSUME NEW t \in Tasks, snap[h][t] = "open", states[t] = "done"
        PROVE  t \in due'
    <3>1. t \in due
      BY <2>1 DEF HookInv, DueTrue
    <3>2. t \notin events
      BY <2>1 DEF Events
    <3> QED BY <1>1, <3>1, <3>2
  <2>2. \A t \in Tasks, g \in Runs : snap'[g][t] \notin {"open", "done"}
    BY <1>2, WebhooksAssumption DEF OpenOrDone, Objects
  <2> QED BY <1>1, <2>1, <2>2 DEF DueTrue
<1>8. CaughtUp'
  <2>1. Last' = Last
    BY <1>1 DEF Last
  <2>2. observeChain # <<>> /\ Last \in Runs
    <3>1. observeChain # <<>> /\ Len(observeChain) \in 1..Len(observeChain)
      BY <1>1, TailOf DEF First, HookInv, HookTypeOK
    <3> QED BY <3>1, ElementOfSeq DEF HookInv, HookTypeOK, Last
  <2>3. CASE Last # h
    <3>1. LastWillObserve' <=> LastWillObserve
      BY <1>1, <1>3, <2>1, <2>2, <2>3 DEF LastWillObserve
    <3>2. LastWillObserve
      <4>1. phase[Last] # "deliver"
        BY <1>1, <2>2, <2>3, OthersBlank
      <4>2. phase[Last] # "idle"
        <5>1. Len(observeChain) \in 1..Len(observeChain)
          BY <1>1, TailOf DEF First, HookInv, HookTypeOK
        <5> QED BY <5>1 DEF HookInv, ChainAtWork, Last
      <4> QED BY <2>2, <4>1, <4>2 DEF LastWillObserve, HookInv, HookTypeOK
    <3> QED BY <1>2, <2>1, <2>2, <3>1, <3>2 DEF CaughtUp
  <2>4. CASE Last = h
    <3>1. ~LastWillObserve'
      BY <1>3, <2>1, <2>2, <2>4 DEF LastWillObserve
    <3>2. phase[h] = "observe"
      BY WhoIsFirst DEF Observe
    <3>3. LastWillObserve
      BY <2>2, <2>4, <3>2 DEF LastWillObserve
    <3>4. ~pending /\ ~behind /\ windows > 0 => \A o \in Objects : snap[h][o] = states[o]
      BY <1>1, <2>4, <3>3 DEF HookInv, CaughtUp, Fetched
    <3>5. ~pending /\ ~behind /\ windows > 0 => snap[h] = states
      BY <3>4 DEF HookInv, HookTypeOK
    <3> QED BY <1>1, <3>1, <3>5 DEF CaughtUp
  <2> QED BY <2>3, <2>4
<1> QED BY <1>4, <1>5, <1>6, <1>7, <1>8 DEF HookInv

\* The head is done: the baseline stands, and the chain moves on.
LEMMA DeliveredKeepsInv ==
    ASSUME HookInv, NEW h \in Runs, Delivered(h)
    PROVE  HookInv'
<1>1. /\ phase[h] = "deliver" /\ First(h) /\ LeaveChain(h)
      /\ UNCHANGED <<states, due, pending, windows, behind, snap, baseline, attempts>>
  BY DEF Delivered, HookInv, HeadObserves, stateVars, hookVars, sendVars
<1>2. /\ observeChain' \in Seq(Runs)
      /\ phase' \in [Runs -> {"idle", "observe", "deliver"}]
      /\ \A g \in Runs : phase'[g] = IF g = h THEN "idle" ELSE phase[g]
      /\ ChainAtWork'
      /\ Len(observeChain) # 1 =>
            observeChain' # <<>> /\ Last' = Last /\ Last # h /\ Last \in Runs
            /\ LastWillObserve /\ LastWillObserve'
      /\ Len(observeChain) = 1 => observeChain' = <<>> /\ Last = h
  BY <1>1, HeadLeaves
<1>3. \A g \in Runs : \A o \in Objects : snap[g][o] = Null
  <2>1. \A o \in Objects : snap[h][o] = Null
    BY <1>1 DEF HookInv, HeadObserves
  <2> QED BY <1>1, <2>1, OthersBlank
<1>4. HookTypeOK'
  BY <1>1, <1>2 DEF HookInv, HookTypeOK
<1>5. HeadObserves'
  BY <1>1, <1>2, <1>3, OthersBlank DEF HeadObserves
<1>6. DueTrue'
  BY <1>1 DEF HookInv, DueTrue
<1>7. CaughtUp'
  <2>1. CASE Len(observeChain) # 1
    BY <1>1, <1>2, <2>1 DEF HookInv, CaughtUp
  <2>2. CASE Len(observeChain) = 1
    <3>1. ~LastWillObserve /\ ~LastWillObserve'
      BY <1>1, <1>2, <2>2 DEF LastWillObserve
    <3> QED BY <1>1, <3>1 DEF HookInv, CaughtUp
  <2> QED BY <2>1, <2>2
<1> QED BY <1>2, <1>4, <1>5, <1>6, <1>7 DEF HookInv

\* Nothing was read and no window has passed.
LEMMA InitHookInv ==
    ASSUME HooksInit
    PROVE  HookInv
<1>1. observeChain = <<>> /\ <<>> \in Seq(Runs) /\ Len(<<>>) = 0
  BY EmptySeq DEF HooksInit
<1>2. HookTypeOK
  BY <1>1 DEF HooksInit, HookTypeOK, OpenOrDone, Blank
<1>3. \A h \in Runs : \A o \in Objects : snap[h][o] = Null
  BY DEF HooksInit, Blank
<1>4. HeadObserves
  BY <1>3 DEF HooksInit, HeadObserves
<1>5. ChainAtWork
  BY <1>1 DEF HooksInit, ChainAtWork
<1>6. DueTrue
  BY <1>3, WebhooksAssumption DEF OpenOrDone, HooksInit, DueTrue, Objects
<1>7. CaughtUp
  BY DEF HooksInit, CaughtUp
<1> QED BY <1>2, <1>4, <1>5, <1>6, <1>7 DEF HookInv

\* No step breaks HookInv.
LEMMA NextKeepsHookInv ==
    ASSUME HookInv, [HooksNext]_webhookVars
    PROVE  HookInv'
<1>1. ASSUME NEW o \in Objects, Change(o) PROVE HookInv'
  BY <1>1, ChangeKeepsInv
<1>2. ASSUME NEW w \in Hooks, Toggle(w) \/ Rest(w) PROVE HookInv'
  <2>1. Elsewhere
    BY <1>2 DEF Elsewhere, Toggle, Rest, stateVars, observeVars, hookVars,
               sendVars
  <2> QED BY <2>1, ElsewhereKeepsInv
<1>3. ASSUME NEW h \in Runs, Window(h) PROVE HookInv'
  BY <1>3, WindowKeepsInv
<1>4. ASSUME NEW h \in Runs, Attempt(h) PROVE HookInv'
  <2>1. Elsewhere
    BY <1>4 DEF Elsewhere, Attempt, Succeed, Retry, GiveUp, Settle,
               stateVars, observeVars, hookVars
  <2> QED BY <2>1, ElsewhereKeepsInv
<1>5. ASSUME NEW h \in Runs, Observation(h) PROVE HookInv'
  BY <1>4, <1>5, FetchKeepsInv, FetchFailsKeepsInv, ObserveKeepsInv, DeliveredKeepsInv DEF Observation
<1>6. CASE UNCHANGED webhookVars
  <2>1. Elsewhere
    BY <1>6 DEF Elsewhere, webhookVars, stateVars, observeVars, hookVars, sendVars
  <2> QED BY <2>1, ElsewhereKeepsInv
<1> QED BY <1>1, <1>2, <1>3, <1>5, <1>6 DEF HooksNext

-----------------------------------------------------------------------------
\* Theorems

LEMMA HookInvHolds == HooksSpec => []HookInv
<1>1. HooksInit => HookInv
  BY InitHookInv
<1>2. HookInv /\ [HooksNext]_webhookVars => HookInv'
  BY NextKeepsHookInv
<1> QED BY <1>1, <1>2, PTL DEF HooksSpec

\* observeChain in composition.ts: the baseline only ever moves forward, so
\* it is the present state once every window was observed.
THEOREM BaselineCatchesUp == HooksSpec => []ObservedWhenQuiet
<1>1. HookInv => ObservedWhenQuiet
  <2> SUFFICES ASSUME HookInv, ~pending, ~behind, windows > 0, \A h \in Runs : phase[h] = "idle"
               PROVE  baseline = states
    BY DEF ObservedWhenQuiet
  <2>1. observeChain # <<>> => Last \in Runs
    <3>1. observeChain # <<>> => Len(observeChain) \in 1..Len(observeChain)
      BY TailOf DEF HookInv, HookTypeOK
    <3> QED BY <3>1, ElementOfSeq DEF HookInv, HookTypeOK, Last
  <2>2. ~LastWillObserve
    BY <2>1 DEF LastWillObserve
  <2> QED BY <2>2 DEF HookInv, CaughtUp
<1> QED BY <1>1, HookInvHolds, PTL

\* observeSnapshot starts a delivery about a task only when it was completed
\* after the last event about it, however the runs of the handler overlap.
THEOREM NoDeliveryIsRepeated == HooksSpec => NoRepeatedDelivery
<1>1. DOMAIN <<>> = {}
  OBVIOUS
<1>2. ASSUME HookInv, NEW g \in Runs, attempts[g] = <<>>, NEW h \in Runs, Observe(h)
      PROVE  DOMAIN attempts'[g] \cap Tasks \subseteq due
  <2> DEFINE events == IF baseline = Null THEN {} ELSE Events(baseline, snap[h])
             sent == {e \in events : circuit[HookOf(e)] # "open"}
  <2>1. attempts' = [attempts EXCEPT ![h] = [o \in sent |-> 1]]
    BY <1>2 DEF Observe, Deliver
  <2>2. ASSUME NEW t \in Tasks, t \in events
        PROVE  t \in due
    <3>1. baseline # Null /\ baseline[t] # snap[h][t] /\ snap[h][t] = "done"
      BY <2>2 DEF Events
    <3>2. baseline[t] = "open"
      BY <3>1, <1>2 DEF HookInv, HookTypeOK, Objects, OpenOrDone
    <3> QED BY <1>2, <3>1, <3>2 DEF HookInv, DueTrue
  <2>3. CASE g = h
    <3>1. attempts'[g] = [o \in sent |-> 1]
      BY <1>2, <2>1, <2>3 DEF HookInv, HookTypeOK
    <3>2. DOMAIN attempts'[g] = sent
      BY <3>1
    <3> QED BY <2>2, <3>2
  <2>4. CASE g # h
    <3>1. attempts'[g] = <<>>
      BY <1>2, <2>1, <2>4 DEF HookInv, HookTypeOK
    <3> QED BY <1>1, <3>1
  <2> QED BY <2>3, <2>4
<1>3. ASSUME HookInv, NEW g \in Runs, attempts[g] = <<>>, NEW h \in Runs, Attempt(h)
      PROVE  DOMAIN attempts'[g] \cap Tasks \subseteq due
  <2>1. PICK o \in DOMAIN attempts[h] : Succeed(h, o) \/ Retry(h, o) \/ GiveUp(h, o)
    BY <1>3 DEF Attempt
  <2>2. g # h
    <3>1. DOMAIN attempts[h] # {}
      BY <2>1
    <3> QED BY <1>1, <1>3, <3>1
  <2>3. attempts'[g] = attempts[g]
    BY <1>3, <2>1, <2>2
       DEF Succeed, Retry, GiveUp, Settle, HookInv, HookTypeOK
  <2>4. attempts'[g] = <<>>
    BY <1>3, <2>3
  <2> QED BY <1>1, <2>4
<1>4. ASSUME HookInv, NEW g \in Runs, attempts[g] = <<>>, HooksNext
      PROVE  DOMAIN attempts'[g] \cap Tasks \subseteq due
  <2>1. CASE attempts' = attempts
    <3>1. attempts'[g] = <<>>
      BY <1>4, <2>1
    <3> QED BY <1>1, <3>1
  <2>2. ASSUME NEW h \in Runs, Observation(h)
        PROVE  DOMAIN attempts'[g] \cap Tasks \subseteq due
    BY <1>2, <1>3, <1>4, <2>1, <2>2
       DEF Observation, Fetch, FetchFails, Delivered, sendVars
  <2>3. ASSUME NEW h \in Runs, Window(h) PROVE attempts' = attempts
    BY <2>3 DEF Window, sendVars
  <2>4. ASSUME NEW w \in Hooks, Toggle(w) \/ Rest(w) PROVE attempts' = attempts
    BY <2>4 DEF Toggle, Rest, sendVars
  <2>5. ASSUME NEW o \in Objects, Change(o) PROVE attempts' = attempts
    BY <2>5 DEF Change, sendVars
  <2> QED BY <1>4, <2>1, <2>2, <2>3, <2>4, <2>5 DEF HooksNext
<1>5. HookInv /\ [HooksNext]_webhookVars =>
         [\A h \in Runs :
             attempts[h] = <<>> => DOMAIN attempts'[h] \cap Tasks \subseteq due]_webhookVars
  BY <1>4
<1> QED BY <1>5, HookInvHolds, PTL DEF HooksSpec, NoRepeatedDelivery
=============================================================================
