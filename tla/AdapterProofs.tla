--------------------------- MODULE AdapterProofs ---------------------------
(***************************************************************************)
(* Proofs about the calls of the adapter: the process that answers them,   *)
(* and what they do to the document.                                       *)
(*                                                                         *)
(* The process.  The persistent transport keeps the promise of Spawner,    *)
(* for any calls and any number of children, although its response frames  *)
(* carry no id.  A child that may be reused has nothing on its stdin and   *)
(* nothing unread on fd 3 (ChildIsClear), because a call that ends without *)
(* its frame being read takes the child with it.  So the only frame a      *)
(* child in use can write is that of the current call (CurrentOwns), and   *)
(* what a child wrote or has yet to execute belongs to a call that was     *)
(* written to it (RequestsTrue, FramesTrue).                               *)
(*                                                                         *)
(* The document.  That a document is one (Sound) is inductive by itself,   *)
(* for any documents, ids and arguments.  What it says of the containers   *)
(* is recursive in the model (Chain), so it is first put without           *)
(* recursion: no tasks are each in another of them (Acyclic), and the      *)
(* order lists the tasks (Lists).  Then comes what each edit of a part     *)
(* keeps (Parts), what each script keeps, and the calls.  A promise of a   *)
(* script (Keeps) says in addition that it leaves what it found when it    *)
(* refuses.                                                                *)
(***************************************************************************)
EXTENDS Adapters, PersistentTransport, SequenceTheorems, FiniteSetTheorems,
        WellFoundedInduction, TLAPS

-----------------------------------------------------------------------------
\* THE PROCESS

ProcessStates == {"absent", "up", "unborn", "dead"}
Frames == [call : Calls, kind : {"ok", "error"}]

TransportTypeOK ==
    /\ fifo \in Seq(Calls)
    /\ current \in Calls \cup {NoCall}
    /\ target \in Children \cup {NoChild}
    /\ child \in Children \cup {NoChild}
    /\ victim \in Children \cup {NoChild}
    /\ spawns \in 0..MaxChildren
    /\ process \in [Children -> ProcessStates]
    /\ doomed \subseteq Children /\ closed \subseteq Children /\ gone \subseteq Children
    /\ request \in [Children -> Calls \cup {NoCall}]
    /\ frames \in [Children -> Seq(Frames)]
    /\ disposal \in {"none", "eof", "term", "done"}
    /\ asked \subseteq Calls
    /\ ran \in [Calls -> {0, 1}]
    /\ result \in [Calls -> Seam!Results \cup {"none"}]
    /\ ranOn \in [Calls -> Children \cup {NoChild}]

\* A call that no child has heard of and that was not answered.
Untouched(c) == ran[c] = 0 /\ result[c] = "none" /\ ranOn[c] = NoChild

CallersWait ==
    /\ \A c \in Calls \ asked : Untouched(c)
    /\ \A i \in 1..Len(fifo) : fifo[i] \in asked /\ Untouched(fifo[i])
    /\ \A i, j \in 1..Len(fifo) : fifo[i] = fifo[j] => i = j

\* The current call was written to its child, and what that child has of a
\* call is of this one.
CurrentOwns ==
    current # NoCall =>
        /\ target # NoChild /\ ranOn[current] = target
        /\ current \in asked /\ result[current] = "none"
        /\ child \in {NoChild, target}
        /\ child # NoChild =>
              /\ request[child] \in {NoCall, current}
              /\ frames[child] # <<>> => frames[child][1].call = current

ChildIsClear ==
    (current = NoCall /\ child # NoChild /\ child \notin doomed) =>
        frames[child] = <<>> /\ request[child] = NoCall

RequestsTrue ==
    \A k \in Children : request[k] # NoCall =>
        request[k] \in asked /\ ran[request[k]] = 0 /\ ranOn[request[k]] = k

FramesTrue == \A k \in Children : frames[k] # <<>> => ran[frames[k][1].call] = 1

RunsTrue ==
    \A c \in Calls : ran[c] = 1 => ranOn[c] \in Children /\ process[ranOn[c]] \in {"up", "dead"}

ResultsTrue ==
    \A c \in Calls :
        /\ result[c] = "unavailable" =>
              ran[c] = 0 /\ (ranOn[c] = NoChild \/ process[ranOn[c]] = "unborn")
        /\ result[c] = "restarted" =>
              ranOn[c] \in Children /\ (ranOn[c] \in closed \/ process[ranOn[c]] = "dead")

LaunchesTrue ==
    /\ child <= spawns /\ target <= spawns /\ victim <= spawns
    /\ \A k \in Children : k > spawns =>
          /\ process[k] = "absent" /\ frames[k] = <<>> /\ request[k] = NoCall
          /\ k \notin doomed /\ k \notin closed /\ k \notin gone
    /\ \A k \in gone : process[k] \in {"dead", "unborn"}

VictimKnown == disposal \in {"eof", "term"} => victim # NoChild

Inv ==
    /\ TransportTypeOK /\ CallersWait /\ CurrentOwns /\ ChildIsClear
    /\ RequestsTrue /\ FramesTrue /\ RunsTrue /\ ResultsTrue /\ LaunchesTrue
    /\ VictimKnown /\ OneInFlight /\ NoStray

-----------------------------------------------------------------------------
\* Sequences

\* What Tail leaves of a sequence.
LEMMA TailOf ==
    ASSUME NEW S, NEW s \in Seq(S), s # <<>>
    PROVE  /\ Tail(s) \in Seq(S) /\ Len(Tail(s)) = Len(s) - 1 /\ Len(s) >= 1
           /\ Head(s) = s[1] /\ s[1] \in S
           /\ \A i \in 1..Len(s) - 1 : Tail(s)[i] = s[i + 1]
<1>1. Len(s) \in Nat /\ Len(s) # 0
  BY EmptySeq, LenProperties
<1> QED BY <1>1, HeadTailProperties, ElementOfSeq

\* A sequence of at most one element is empty or has its head as the rest.
LEMMA ShortTail ==
    ASSUME NEW S, NEW s \in Seq(S), s # <<>>, Len(s) <= 1
    PROVE  Tail(s) = <<>>
<1>1. Len(s) \in Nat
  BY LenProperties
<1>2. Tail(s) \in Seq(S) /\ Len(Tail(s)) = Len(s) - 1 /\ Len(s) >= 1
  BY TailOf
<1>3. Len(Tail(s)) = 0
  BY <1>1, <1>2
<1> QED BY <1>2, <1>3, EmptySeq

\* The head of the line is untouched, and leaves an ordered line of others.
LEMMA HeadLeaves ==
    ASSUME Inv, fifo # <<>>, fifo' = Tail(fifo)
    PROVE  /\ Head(fifo) \in Calls /\ Head(fifo) \in asked /\ Untouched(Head(fifo))
           /\ fifo' \in Seq(Calls)
           /\ \A i \in 1..Len(fifo') : /\ fifo'[i] # Head(fifo)
                                       /\ fifo'[i] \in asked /\ Untouched(fifo'[i])
           /\ \A i, j \in 1..Len(fifo') : fifo'[i] = fifo'[j] => i = j
<1> USE DEF Inv, TransportTypeOK, CallersWait
<1>1. /\ Tail(fifo) \in Seq(Calls) /\ Len(Tail(fifo)) = Len(fifo) - 1 /\ Len(fifo) >= 1
      /\ Head(fifo) = fifo[1] /\ fifo[1] \in Calls
      /\ \A i \in 1..Len(fifo) - 1 : Tail(fifo)[i] = fifo[i + 1]
  BY TailOf
<1>2. Len(fifo) \in Nat
  BY LenProperties
<1>3. fifo[1] \in asked /\ Untouched(fifo[1])
  BY <1>1, <1>2
<1>4. ASSUME NEW i \in 1..Len(fifo')
      PROVE  fifo'[i] = fifo[i + 1] /\ i + 1 \in 1..Len(fifo) /\ 1 \in 1..Len(fifo) /\ i + 1 # 1
  BY <1>1, <1>2
<1>5. \A i \in 1..Len(fifo') : fifo'[i] # fifo[1] /\ fifo'[i] \in asked /\ Untouched(fifo'[i])
  BY <1>4
<1>6. ASSUME NEW i \in 1..Len(fifo'), NEW j \in 1..Len(fifo'), fifo'[i] = fifo'[j]
      PROVE  i = j
  <2>1. i + 1 = j + 1
    BY <1>4, <1>6
  <2> QED BY <2>1
<1> QED BY <1>1, <1>3, <1>5, <1>6
\* Nobody in the line is touched by a step that is about a call of some child.
LEMMA LineStays ==
    ASSUME Inv, NEW c, c \in Calls => ranOn[c] # NoChild,
           UNCHANGED <<fifo, asked, ranOn>>,
           \A d \in Calls : d # c => ran'[d] = ran[d] /\ result'[d] = result[d]
    PROVE  CallersWait'
<1>1. \A d \in Calls : Untouched(d) => Untouched(d)'
  BY DEF Untouched
<1>2. \A i \in 1..Len(fifo) : fifo[i] \in Calls
  BY ElementOfSeq DEF Inv, TransportTypeOK
<1> QED BY <1>1, <1>2 DEF Inv, CallersWait

\* What OneInFlight says of a child.
LEMMA RoomForOne ==
    ASSUME NEW n \in Nat, NEW r
    PROVE  (n + (IF r = NoCall THEN 0 ELSE 1) <= 1) <=> (n <= 1 /\ (r # NoCall => n = 0))
<1> DEFINE x == IF r = NoCall THEN 0 ELSE 1
<1>1. CASE r = NoCall
  <2>1. x = 0
    BY <1>1
  <2> HIDE DEF x
  <2>2. n + x <= 1 <=> n <= 1
    BY <2>1
  <2> QED BY <1>1, <2>2 DEF x
<1>2. CASE r # NoCall
  <2>1. x = 1
    BY <1>2
  <2> HIDE DEF x
  <2>2. n + x <= 1 <=> n = 0
    BY <2>1
  <2> QED BY <1>2, <2>2 DEF x
<1> QED BY <1>1, <1>2

\* OneInFlight follows from what it says of each child.
LEMMA AllHaveRoom ==
    ASSUME frames' \in [Children -> Seq(Frames)],
           \A j \in Children : Len(frames'[j]) <= 1 /\ (request'[j] # NoCall => Len(frames'[j]) = 0)
    PROVE  OneInFlight'
<1>1. ASSUME NEW j \in Children
      PROVE  Len(frames'[j]) + (IF request'[j] = NoCall THEN 0 ELSE 1) <= 1
  <2>1. Len(frames'[j]) \in Nat
    BY LenProperties
  <2>2. Len(frames'[j]) <= 1 /\ (request'[j] # NoCall => Len(frames'[j]) = 0)
    OBVIOUS
  <2> QED BY <2>1, <2>2, RoomForOne
<1> QED BY <1>1 DEF OneInFlight

\* A child has at most one frame, and none while a request is with it.
LEMMA FramesOfChild ==
    ASSUME Inv, NEW k \in Children
    PROVE  /\ frames[k] \in Seq(Frames) /\ Len(frames[k]) \in Nat /\ Len(frames[k]) <= 1
           /\ request[k] # NoCall => frames[k] = <<>> /\ Len(frames[k]) = 0
<1>1. frames[k] \in Seq(Frames) /\ Len(frames[k]) \in Nat
  BY LenProperties DEF Inv, TransportTypeOK
<1>2. Len(frames[k]) + (IF request[k] = NoCall THEN 0 ELSE 1) <= 1
  BY DEF Inv, OneInFlight
<1>3. Len(frames[k]) <= 1 /\ (request[k] # NoCall => Len(frames[k]) = 0)
  BY <1>1, <1>2, RoomForOne
<1> QED BY <1>1, <1>3, EmptySeq

-----------------------------------------------------------------------------
\* Answers

\* Whoever ends the current call, if there is one, ends it truthfully.
LEMMA SettleIfPendingKeeps ==
    ASSUME Inv, NEW kind \in Seam!Results, SettleIfPending(kind),
           UNCHANGED <<fifo, asked, ran, ranOn, process, closed>>,
           current # NoCall /\ kind = "unavailable" =>
               ran[current] = 0 /\ process[target] = "unborn",
           current # NoCall /\ kind = "restarted" =>
               target \in closed \/ process[target] = "dead"
    PROVE  /\ CallersWait' /\ RunsTrue' /\ ResultsTrue'
           /\ current' = NoCall /\ result' \in [Calls -> Seam!Results \cup {"none"}]
<1>1. current' = NoCall /\ (current = NoCall => result' = result)
      /\ (current # NoCall => result' = [result EXCEPT ![current] = kind])
  BY DEF SettleIfPending, Settle
<1>2. result' \in [Calls -> Seam!Results \cup {"none"}]
  BY <1>1 DEF Inv, TransportTypeOK
<1>3. \A d \in Calls : d # current => result'[d] = result[d]
  BY <1>1 DEF Inv, TransportTypeOK
<1>4. current \in Calls => ranOn[current] # NoChild /\ current # NoCall
  BY TransportAssumption DEF Inv, CurrentOwns, TransportTypeOK
<1>5. CallersWait'
  BY <1>3, <1>4, LineStays
<1>6. RunsTrue'
  BY DEF Inv, RunsTrue
<1>7. ASSUME NEW c \in Calls
      PROVE  /\ result'[c] = "unavailable" =>
                   ran[c] = 0 /\ (ranOn[c] = NoChild \/ process[ranOn[c]] = "unborn")
             /\ result'[c] = "restarted" =>
                   ranOn[c] \in Children /\ (ranOn[c] \in closed \/ process[ranOn[c]] = "dead")
  <2>1. CASE c # current \/ current = NoCall
    BY <1>1, <1>3, <2>1 DEF Inv, ResultsTrue
  <2>2. CASE c = current /\ current # NoCall
    <3>1. ranOn[c] = target /\ target \in Children
      BY <2>2 DEF Inv, CurrentOwns, TransportTypeOK
    <3>2. result'[c] = kind
      BY <1>1, <2>2 DEF Inv, TransportTypeOK
    <3> QED BY <2>2, <3>1, <3>2
  <2> QED BY <2>1, <2>2
<1>8. ResultsTrue'
  BY <1>7 DEF ResultsTrue
<1> QED BY <1>1, <1>2, <1>5, <1>6, <1>8

\* No call ends, and no child or script does anything to what was said.
LEMMA QuietKeeps ==
    ASSUME Inv, UNCHANGED <<fifo, asked, ran, ranOn, process, closed, current, result>>
    PROVE  CallersWait' /\ RunsTrue' /\ ResultsTrue'
BY DEF Inv, CallersWait, RunsTrue, ResultsTrue, Untouched

-----------------------------------------------------------------------------
\* Steps

\* A caller joins the end of the line.
LEMMA AskKeepsInv ==
    ASSUME Inv, NEW c \in Calls, Ask(c)
    PROVE  Inv'
<1>1. /\ c \notin asked /\ asked' = asked \cup {c} /\ fifo' = Append(fifo, c)
      /\ UNCHANGED <<current, target, child, spawns, process, doomed, closed, gone, request,
                     frames, disposal, victim, ran, result, ranOn>>
  BY DEF Ask, osVars, endVars
<1>2. TransportTypeOK'
  BY <1>1 DEF Inv, TransportTypeOK
<1>3. CallersWait'
  <2>1. /\ Len(fifo) \in Nat /\ Len(fifo') = Len(fifo) + 1 /\ fifo'[Len(fifo) + 1] = c
        /\ \A i \in 1..Len(fifo) : fifo'[i] = fifo[i] /\ fifo[i] # c
    BY <1>1, AppendProperties, LenProperties DEF Inv, TransportTypeOK, CallersWait
  <2> QED BY <1>1, <2>1 DEF Inv, CallersWait, Untouched
<1>4. CurrentOwns' /\ ChildIsClear' /\ RequestsTrue' /\ FramesTrue'
  BY <1>1 DEF Inv, CurrentOwns, ChildIsClear, RequestsTrue, FramesTrue
<1>5. RunsTrue' /\ ResultsTrue' /\ LaunchesTrue' /\ VictimKnown'
  BY <1>1 DEF Inv, RunsTrue, ResultsTrue, LaunchesTrue, VictimKnown
<1>6. OneInFlight' /\ NoStray'
  BY <1>1 DEF Inv, OneInFlight, NoStray
<1> QED BY <1>2, <1>3, <1>4, <1>5, <1>6 DEF Inv

\* The call ends and takes its child with it.
LEMMA TimeoutKeepsInv ==
    ASSUME Inv, Timeout
    PROVE  Inv'
<1>1. /\ current # NoCall /\ doomed' = doomed \cup {target} /\ SettleIfPending("timeout")
      /\ UNCHANGED <<fifo, target, child, spawns, process, closed, gone, request, frames,
                     disposal, victim, asked, ran, ranOn>>
  BY DEF Timeout, endVars, SettleIfPending
<1>2. /\ CallersWait' /\ RunsTrue' /\ ResultsTrue'
      /\ current' = NoCall /\ result' \in [Calls -> Seam!Results \cup {"none"}]
  BY <1>1, SettleIfPendingKeeps DEF Seam!Results, Seam!Losses
<1>3. target \in Children /\ child \in {NoChild, target}
  BY <1>1 DEF Inv, CurrentOwns, TransportTypeOK
<1>4. TransportTypeOK'
  BY <1>1, <1>2, <1>3 DEF Inv, TransportTypeOK
<1>5. CurrentOwns' /\ ChildIsClear'
  BY <1>1, <1>2, <1>3 DEF CurrentOwns, ChildIsClear
<1>6. RequestsTrue' /\ FramesTrue' /\ VictimKnown' /\ OneInFlight'
  BY <1>1 DEF Inv, RequestsTrue, FramesTrue, VictimKnown, OneInFlight
<1>7. LaunchesTrue' /\ NoStray'
  <2>1. target <= spawns /\ target \in Nat /\ spawns \in Nat
    BY <1>3 DEF Inv, LaunchesTrue, TransportTypeOK, Children
  <2>2. \A k \in Children : k > spawns => k # target
    BY <2>1 DEF Children
  <2> QED BY <1>1, <2>2 DEF Inv, LaunchesTrue, NoStray
<1> QED BY <1>2, <1>4, <1>5, <1>6, <1>7 DEF Inv

\* The frame of the child in use is that of the current call.
LEMMA DataKeepsInv ==
    ASSUME Inv, NEW k \in Children, OnFd3Data(k)
    PROVE  Inv'
<1>1. /\ frames[k] # <<>> /\ frames' = [frames EXCEPT ![k] = Tail(frames[k])]
      /\ UNCHANGED <<fifo, target, child, spawns, process, doomed, closed, gone, request,
                     disposal, victim, asked, ran, ranOn>>
      /\ k = child => SettleIfPending(Head(frames[k]).kind)
      /\ k # child => UNCHANGED <<current, result>>
  BY DEF OnFd3Data, endVars
<1>2. /\ frames[k] \in Seq(Frames) /\ Len(frames[k]) <= 1 /\ request[k] = NoCall
  BY <1>1, FramesOfChild
<1>3. Head(frames[k]).kind \in {"ok", "error"}
  <2>1. Head(frames[k]) \in Frames
    BY <1>1, <1>2, TailOf
  <2> QED BY <2>1 DEF Frames
<1>4. Tail(frames[k]) = <<>>
  BY <1>1, <1>2, ShortTail
<1>5. /\ \A j \in Children : frames'[j] = IF j = k THEN <<>> ELSE frames[j]
      /\ frames' \in [Children -> Seq(Frames)]
  <2>1. <<>> \in Seq(Frames) /\ frames \in [Children -> Seq(Frames)]
    BY EmptySeq DEF Inv, TransportTypeOK
  <2> QED BY <1>1, <1>4, <2>1
<1>6. /\ CallersWait' /\ RunsTrue' /\ ResultsTrue'
      /\ (k = child => current' = NoCall) /\ result' \in [Calls -> Seam!Results \cup {"none"}]
  <2>1. CASE k = child
    BY <1>1, <1>3, <2>1, SettleIfPendingKeeps DEF Seam!Results, Seam!Responses
  <2>2. CASE k # child
    BY <1>1, <2>2, QuietKeeps DEF Inv, TransportTypeOK
  <2> QED BY <2>1, <2>2
<1>7. TransportTypeOK'
  BY <1>1, <1>5, <1>6 DEF Inv, TransportTypeOK
<1>8. CurrentOwns' /\ ChildIsClear'
  <2>1. CASE k = child
    BY <1>1, <1>2, <1>5, <1>6, <2>1 DEF CurrentOwns, ChildIsClear
  <2>2. CASE k # child
    BY <1>1, <1>5, <2>2 DEF Inv, TransportTypeOK, CurrentOwns, ChildIsClear
  <2> QED BY <2>1, <2>2
<1>9. RequestsTrue' /\ VictimKnown' /\ NoStray'
  BY <1>1 DEF Inv, RequestsTrue, VictimKnown, NoStray
<1>10. FramesTrue' /\ LaunchesTrue'
  BY <1>1, <1>5 DEF Inv, FramesTrue, LaunchesTrue
<1>11. OneInFlight'
  <2>1. \A j \in Children : Len(frames'[j]) <= 1 /\ (request'[j] # NoCall => Len(frames'[j]) = 0)
    BY <1>1, <1>2, <1>5, FramesOfChild, EmptySeq
  <2> QED BY <1>5, <2>1, AllHaveRoom
<1> QED BY <1>6, <1>7, <1>8, <1>9, <1>10, <1>11 DEF Inv

\* What a child's last event leaves: the current call, if it is that child's,
\* has ended, and the transport has forgotten the child.
LEMMA EventKeepsInv ==
    ASSUME Inv, NEW k \in Children, NEW kind \in {"restarted", "unavailable"},
           process[k] = (IF kind = "restarted" THEN "dead" ELSE "unborn"),
           IF k = child THEN Abandon(kind) ELSE KeepChild,
           UNCHANGED <<fifo, target, spawns, process, closed, frames, endVars, asked, ran, ranOn>>
    PROVE  /\ CallersWait' /\ RunsTrue' /\ ResultsTrue' /\ FramesTrue' /\ VictimKnown'
           /\ (k = child => current' = NoCall) /\ result' \in [Calls -> Seam!Results \cup {"none"}]
           /\ child' = (IF k = child THEN NoChild ELSE child)
           /\ (k # child => UNCHANGED <<current, result>>)
<1>1. /\ k = child => child' = NoChild /\ SettleIfPending(kind)
      /\ k # child => UNCHANGED <<child, current, result>>
  BY DEF Abandon, KeepChild
<1>2. CASE k = child
  <2>1. current # NoCall => target = k /\ ranOn[current] = k /\ current \in Calls
    BY <1>2 DEF Inv, CurrentOwns, TransportTypeOK, Children, NoChild
  <2>2. current # NoCall /\ kind = "unavailable" => ran[current] = 0 /\ process[target] = "unborn"
    BY <2>1 DEF Inv, RunsTrue, TransportTypeOK
  <2>3. current # NoCall /\ kind = "restarted" => target \in closed \/ process[target] = "dead"
    BY <2>1
  <2>4. /\ CallersWait' /\ RunsTrue' /\ ResultsTrue'
        /\ current' = NoCall /\ result' \in [Calls -> Seam!Results \cup {"none"}]
    <3>1. kind \in Seam!Results
      BY DEF Seam!Results, Seam!Losses
    <3> QED BY <1>1, <1>2, <2>2, <2>3, <3>1, SettleIfPendingKeeps
  <2> QED BY <1>1, <1>2, <2>4 DEF Inv, FramesTrue, VictimKnown, endVars
<1>3. CASE k # child
  <2>1. CallersWait' /\ RunsTrue' /\ ResultsTrue'
    BY <1>1, <1>3, QuietKeeps
  <2> QED BY <1>1, <1>3, <2>1 DEF Inv, TransportTypeOK, FramesTrue, VictimKnown, endVars
<1> QED BY <1>2, <1>3

\* A child has exited.
LEMMA ExitKeepsInv ==
    ASSUME Inv, NEW k \in Children, OnChildExit(k)
    PROVE  Inv'
<1>1. /\ process[k] = "dead" /\ gone' = gone \cup {k}
      /\ UNCHANGED <<fifo, target, spawns, process, doomed, closed, request, frames,
                     disposal, victim, asked, ran, ranOn>>
  BY DEF OnChildExit, endVars
<1>2. /\ CallersWait' /\ RunsTrue' /\ ResultsTrue' /\ FramesTrue' /\ VictimKnown'
      /\ (k = child => current' = NoCall) /\ result' \in [Calls -> Seam!Results \cup {"none"}]
      /\ child' = (IF k = child THEN NoChild ELSE child)
      /\ (k # child => UNCHANGED <<current, result>>)
  BY EventKeepsInv DEF OnChildExit
<1>3. TransportTypeOK'
  BY <1>1, <1>2 DEF Inv, TransportTypeOK
<1>4. CurrentOwns' /\ ChildIsClear'
  BY <1>1, <1>2 DEF Inv, CurrentOwns, ChildIsClear
<1>5. RequestsTrue' /\ OneInFlight'
  BY <1>1 DEF Inv, RequestsTrue, OneInFlight
<1>6. LaunchesTrue'
  BY <1>1, <1>2 DEF Inv, TransportTypeOK, LaunchesTrue, Children, NoChild
<1>7. NoStray'
  BY <1>1, <1>2 DEF Inv, NoStray
<1> QED BY <1>2, <1>3, <1>4, <1>5, <1>6, <1>7 DEF Inv

\* A child was never born, so its call has not run.
LEMMA ErrorKeepsInv ==
    ASSUME Inv, NEW k \in Children, OnChildError(k)
    PROVE  Inv'
<1>1. /\ process[k] = "unborn" /\ gone' = gone \cup {k}
      /\ UNCHANGED <<fifo, target, spawns, process, doomed, closed, request, frames,
                     disposal, victim, asked, ran, ranOn>>
  BY DEF OnChildError, endVars
<1>2. /\ CallersWait' /\ RunsTrue' /\ ResultsTrue' /\ FramesTrue' /\ VictimKnown'
      /\ (k = child => current' = NoCall) /\ result' \in [Calls -> Seam!Results \cup {"none"}]
      /\ child' = (IF k = child THEN NoChild ELSE child)
      /\ (k # child => UNCHANGED <<current, result>>)
  BY EventKeepsInv DEF OnChildError
<1>3. TransportTypeOK'
  BY <1>1, <1>2 DEF Inv, TransportTypeOK
<1>4. CurrentOwns' /\ ChildIsClear'
  BY <1>1, <1>2 DEF Inv, CurrentOwns, ChildIsClear
<1>5. RequestsTrue' /\ OneInFlight'
  BY <1>1 DEF Inv, RequestsTrue, OneInFlight
<1>6. LaunchesTrue'
  BY <1>1, <1>2 DEF Inv, TransportTypeOK, LaunchesTrue, Children, NoChild
<1>7. NoStray'
  BY <1>1, <1>2 DEF Inv, NoStray
<1> QED BY <1>2, <1>3, <1>4, <1>5, <1>6, <1>7 DEF Inv

\* A frame could not be written to a dead child.
LEMMA StdinErrorKeepsInv ==
    ASSUME Inv, NEW k \in Children, OnStdinError(k)
    PROVE  Inv'
<1>1. /\ process[k] = "dead" /\ request' = [request EXCEPT ![k] = NoCall]
      /\ doomed' = (IF k = child THEN doomed \cup {k} ELSE doomed)
      /\ UNCHANGED <<fifo, target, spawns, process, closed, gone, frames,
                     disposal, victim, asked, ran, ranOn>>
  BY DEF OnStdinError, endVars
<1>2. /\ CallersWait' /\ RunsTrue' /\ ResultsTrue' /\ FramesTrue' /\ VictimKnown'
      /\ (k = child => current' = NoCall) /\ result' \in [Calls -> Seam!Results \cup {"none"}]
      /\ child' = (IF k = child THEN NoChild ELSE child)
      /\ (k # child => UNCHANGED <<current, result>>)
  BY EventKeepsInv DEF OnStdinError
<1>3. \A j \in Children : request'[j] = IF j = k THEN NoCall ELSE request[j]
  BY <1>1 DEF Inv, TransportTypeOK
<1>4. TransportTypeOK'
  BY <1>1, <1>2 DEF Inv, TransportTypeOK
<1>5. CurrentOwns' /\ ChildIsClear'
  BY <1>1, <1>2, <1>3 DEF Inv, TransportTypeOK, CurrentOwns, ChildIsClear
<1>6. RequestsTrue'
  BY <1>1, <1>3 DEF Inv, RequestsTrue
<1>9. OneInFlight'
  <2>1. frames' \in [Children -> Seq(Frames)]
    BY <1>1 DEF Inv, TransportTypeOK
  <2>2. \A j \in Children : Len(frames'[j]) <= 1 /\ (request'[j] # NoCall => Len(frames'[j]) = 0)
    BY <1>1, <1>3, FramesOfChild
  <2> QED BY <2>1, <2>2, AllHaveRoom
<1>7. LaunchesTrue'
  <2>1. process[k] # "absent"
    BY <1>1
  <2>2. ~(k > spawns)
    BY <2>1 DEF Inv, LaunchesTrue
  <2> QED BY <1>1, <1>2, <1>3, <2>2 DEF Inv, TransportTypeOK, LaunchesTrue, Children, NoChild
<1>8. NoStray'
  BY <1>1, <1>2 DEF Inv, NoStray
<1> QED BY <1>2, <1>4, <1>5, <1>6, <1>7, <1>8, <1>9 DEF Inv

\* A child runs the script on its stdin.
LEMMA ExecuteKeepsInv ==
    ASSUME Inv, NEW k \in Children, Execute(k)
    PROVE  Inv'
<1> DEFINE c == request[k]
<1>1. /\ process[k] = "up" /\ c # NoCall /\ c \in Calls
      /\ c \in asked /\ ran[c] = 0 /\ ranOn[c] = k
      /\ ran' = [ran EXCEPT ![c] = @ + 1] /\ request' = [request EXCEPT ![k] = NoCall]
      /\ UNCHANGED <<fifo, current, target, child, spawns, process, doomed, closed, gone,
                     disposal, victim, asked, result, ranOn>>
  BY DEF Inv, TransportTypeOK, RequestsTrue, Execute, nodeVars, endVars
<1>2. PICK kind \in {"ok", "error"} :
          frames' = [frames EXCEPT ![k] = Append(@, [call |-> c, kind |-> kind])]
  BY DEF Execute
<1>3. frames[k] = <<>>
  BY <1>1, FramesOfChild
<1> DEFINE frame == [call |-> c, kind |-> kind]
<1>4. /\ frame \in Frames /\ Append(<<>>, frame) \in Seq(Frames)
      /\ Len(Append(<<>>, frame)) = 1 /\ Append(<<>>, frame)[1] = frame
      /\ Append(<<>>, frame) # <<>>
  <2>1. frame \in Frames
    BY <1>1 DEF Frames
  <2>2. <<>> \in Seq(Frames) /\ Len(<<>>) = 0
    BY EmptySeq
  <2> HIDE DEF frame
  <2>3. /\ Append(<<>>, frame) \in Seq(Frames) /\ Len(Append(<<>>, frame)) = 1
        /\ Append(<<>>, frame)[1] = frame
    BY <2>1, <2>2, AppendProperties
  <2> QED BY <2>1, <2>2, <2>3
<1>5. /\ frames' \in [Children -> Seq(Frames)]
      /\ \A j \in Children : frames'[j] = IF j = k THEN Append(<<>>, frame) ELSE frames[j]
  BY <1>2, <1>3, <1>4 DEF Inv, TransportTypeOK
<1>6. /\ ran' \in [Calls -> {0, 1}] /\ \A d \in Calls : ran'[d] = IF d = c THEN 1 ELSE ran[d]
  BY <1>1 DEF Inv, TransportTypeOK
<1>7. /\ request' \in [Children -> Calls \cup {NoCall}]
      /\ \A j \in Children : request'[j] = IF j = k THEN NoCall ELSE request[j]
  BY <1>1 DEF Inv, TransportTypeOK
<1>8. frame.call = c
  OBVIOUS
<1> HIDE DEF frame, c
<1>9. TransportTypeOK'
  BY <1>1, <1>5, <1>6, <1>7 DEF Inv, TransportTypeOK
<1>10. CallersWait'
  BY <1>1, <1>6, LineStays DEF Children, NoChild
<1>11. CurrentOwns' /\ ChildIsClear'
  BY <1>1, <1>4, <1>5, <1>7, <1>8 DEF Inv, TransportTypeOK, CurrentOwns, ChildIsClear, c
<1>12. RequestsTrue'
  BY <1>1, <1>6, <1>7 DEF Inv, TransportTypeOK, RequestsTrue
<1>13. FramesTrue'
  <2>1. ASSUME NEW j \in Children, frames'[j] # <<>>
        PROVE  ran'[frames'[j][1].call] = 1
    <3>1. CASE j = k
      BY <1>1, <1>4, <1>5, <1>6, <1>8, <3>1
    <3>2. CASE j # k
      <4>1. frames'[j] = frames[j] /\ frames[j] \in Seq(Frames) /\ ran[frames[j][1].call] = 1
        BY <1>5, <2>1, <3>2 DEF Inv, TransportTypeOK, FramesTrue
      <4>2. frames[j][1].call \in Calls
        <5>1. frames[j][1] \in Frames
          BY <2>1, <4>1, TailOf
        <5> QED BY <5>1 DEF Frames
      <4> QED BY <1>6, <4>1, <4>2
    <3> QED BY <3>1, <3>2
  <2> QED BY <2>1 DEF FramesTrue
<1>14. RunsTrue'
  BY <1>1, <1>6 DEF Inv, RunsTrue
<1>15. ResultsTrue'
  BY <1>1, <1>6 DEF Inv, ResultsTrue, Children, NoChild
<1>16. LaunchesTrue' /\ VictimKnown' /\ NoStray'
  BY <1>1, <1>5, <1>7 DEF Inv, LaunchesTrue, VictimKnown, NoStray
<1>17. OneInFlight'
  <2>1. \A j \in Children : Len(frames'[j]) <= 1 /\ (request'[j] # NoCall => Len(frames'[j]) = 0)
    <3> TAKE j \in Children
    <3>1. CASE j = k
      <4>1. request'[j] = NoCall /\ Len(frames'[j]) = 1
        BY <1>4, <1>5, <1>7, <3>1
      <4> QED BY <4>1
    <3>2. CASE j # k
      <4>1. request'[j] = request[j] /\ frames'[j] = frames[j]
        BY <1>5, <1>7, <3>2
      <4> QED BY <4>1, FramesOfChild
    <3> QED BY <3>1, <3>2
  <2> QED BY <1>5, <2>1, AllHaveRoom
<1> QED BY <1>9, <1>10, <1>11, <1>12, <1>13, <1>14, <1>15, <1>16, <1>17 DEF Inv
\* A child ends, and its script may have taken effect unseen.
LEMMA DieKeepsInv ==
    ASSUME Inv, NEW k \in Children, Die(k)
    PROVE  Inv'
<1>1. /\ process[k] = "up" /\ process' = [process EXCEPT ![k] = "dead"]
      /\ UNCHANGED <<fifo, current, target, child, spawns, doomed, closed, gone, frames,
                     disposal, victim, asked, result, ranOn>>
  BY DEF Die, nodeVars, endVars
<1>2. /\ process' \in [Children -> ProcessStates]
      /\ \A j \in Children : process'[j] = IF j = k THEN "dead" ELSE process[j]
  BY <1>1 DEF Inv, TransportTypeOK, ProcessStates
<1>3. LaunchesTrue' \/ request' # request
  BY <1>1, <1>2 DEF Inv, LaunchesTrue
<1>4. VictimKnown' /\ NoStray'
  BY <1>1, <1>2 DEF Inv, VictimKnown, NoStray
<1>5. \A c \in Calls : ranOn[c] \in Children /\ process[ranOn[c]] \in {"up", "dead"} =>
                           ranOn'[c] \in Children /\ process'[ranOn'[c]] \in {"up", "dead"}
  BY <1>1, <1>2
<1>6. CASE UNCHANGED <<ran, request>>
  <2>1. TransportTypeOK'
    BY <1>1, <1>2, <1>6 DEF Inv, TransportTypeOK
  <2>2. CallersWait'
    BY <1>1, <1>6 DEF Inv, CallersWait, Untouched
  <2>3. CurrentOwns' /\ ChildIsClear' /\ RequestsTrue' /\ FramesTrue' /\ OneInFlight'
    BY <1>1, <1>6 DEF Inv, CurrentOwns, ChildIsClear, RequestsTrue, FramesTrue, OneInFlight
  <2>4. RunsTrue'
    BY <1>1, <1>5, <1>6 DEF Inv, RunsTrue
  <2>5. ResultsTrue'
    BY <1>1, <1>2, <1>6 DEF Inv, TransportTypeOK, ResultsTrue, Children, NoChild
  <2> QED BY <1>3, <1>4, <1>6, <2>1, <2>2, <2>3, <2>4, <2>5 DEF Inv
<1>7. CASE /\ request[k] # NoCall /\ ran' = [ran EXCEPT ![request[k]] = @ + 1]
           /\ request' = [request EXCEPT ![k] = NoCall]
  <2> DEFINE c == request[k]
  <2>1. c \in Calls /\ c \in asked /\ ran[c] = 0 /\ ranOn[c] = k
    BY <1>7 DEF Inv, TransportTypeOK, RequestsTrue
  <2>2. /\ ran' \in [Calls -> {0, 1}] /\ \A d \in Calls : ran'[d] = IF d = c THEN 1 ELSE ran[d]
    BY <1>7, <2>1 DEF Inv, TransportTypeOK
  <2>3. /\ request' \in [Children -> Calls \cup {NoCall}]
        /\ \A j \in Children : request'[j] = IF j = k THEN NoCall ELSE request[j]
    BY <1>7 DEF Inv, TransportTypeOK
  <2> HIDE DEF c
  <2>4. TransportTypeOK'
    BY <1>1, <1>2, <2>2, <2>3 DEF Inv, TransportTypeOK
  <2>5. CallersWait'
    BY <1>1, <2>1, <2>2, LineStays DEF Children, NoChild
  <2>6. CurrentOwns' /\ ChildIsClear'
    BY <1>1, <2>3 DEF Inv, TransportTypeOK, CurrentOwns, ChildIsClear
  <2>7. RequestsTrue'
    BY <1>1, <2>1, <2>2, <2>3 DEF Inv, TransportTypeOK, RequestsTrue
  <2>8. FramesTrue'
    <3>1. ASSUME NEW j \in Children, frames'[j] # <<>>
          PROVE  ran'[frames'[j][1].call] = 1
      <4>1. frames'[j] = frames[j] /\ frames[j] \in Seq(Frames) /\ ran[frames[j][1].call] = 1
        BY <1>1, <3>1 DEF Inv, TransportTypeOK, FramesTrue
      <4>2. frames[j][1].call \in Calls
        <5>1. frames[j][1] \in Frames
          BY <3>1, <4>1, TailOf
        <5> QED BY <5>1 DEF Frames
      <4> QED BY <2>2, <4>1, <4>2
    <3> QED BY <3>1 DEF FramesTrue
  <2>9. RunsTrue'
    <3>1. process[k] \in {"up", "dead"}
      BY <1>1
    <3> QED BY <1>1, <1>5, <2>1, <2>2, <3>1 DEF Inv, RunsTrue
  <2>10. ResultsTrue'
    <3>1. ASSUME NEW d \in Calls
          PROVE  /\ result'[d] = "unavailable" =>
                       ran'[d] = 0 /\ (ranOn'[d] = NoChild \/ process'[ranOn'[d]] = "unborn")
                 /\ result'[d] = "restarted" =>
                       ranOn'[d] \in Children /\ (ranOn'[d] \in closed' \/ process'[ranOn'[d]] = "dead")
      <4>1. ranOn[d] \in Children => process'[ranOn[d]] = IF ranOn[d] = k THEN "dead" ELSE process[ranOn[d]]
        BY <1>2
      <4>2. ranOn[d] \in Children \cup {NoChild} /\ NoChild \notin Children
        BY DEF Inv, TransportTypeOK, Children, NoChild
      <4>3. result[d] = "unavailable" => d # c
        BY <1>1, <2>1, <4>2 DEF Inv, ResultsTrue
      <4> QED BY <1>1, <2>2, <4>1, <4>2, <4>3 DEF Inv, ResultsTrue
    <3> QED BY <3>1 DEF ResultsTrue
  <2>11. LaunchesTrue'
    BY <1>1, <1>2, <2>3 DEF Inv, LaunchesTrue
  <2>12. OneInFlight'
    <3>1. frames' \in [Children -> Seq(Frames)]
      BY <1>1 DEF Inv, TransportTypeOK
    <3>2. \A j \in Children : Len(frames'[j]) <= 1 /\ (request'[j] # NoCall => Len(frames'[j]) = 0)
      BY <1>1, <2>3, FramesOfChild
    <3> QED BY <3>1, <3>2, AllHaveRoom
  <2> QED BY <1>4, <2>4, <2>5, <2>6, <2>7, <2>8, <2>9, <2>10, <2>11, <2>12 DEF Inv
<1> QED BY <1>6, <1>7 DEF Die

\* dispose() only takes this.child from the transport, or sends it a signal.
LEMMA DisposeKeepsInv ==
    ASSUME Inv, DisposeEOF \/ DisposeTerm \/ DisposeEnd
    PROVE  Inv'
<1>1. UNCHANGED <<fifo, current, target, spawns, process, gone, request, frames,
                  asked, ran, result, ranOn>>
  BY DEF DisposeEOF, DisposeTerm, DisposeEnd, nodeVars, userVars
<1>2. /\ disposal' \in {"eof", "term", "done"} /\ victim' \in Children \cup {NoChild}
      /\ victim' \in {victim, child} /\ (disposal' \in {"eof", "term"} => victim' # NoChild)
      /\ child' \in {child, NoChild}
      /\ closed \subseteq closed' /\ closed' \subseteq closed \cup (Children \cap {child})
      /\ doomed \subseteq doomed' /\ doomed' \subseteq doomed \cup {victim}
      /\ doomed' \subseteq Children \/ victim = NoChild
  <2>1. CASE DisposeEOF
    BY <2>1 DEF DisposeEOF, Inv, TransportTypeOK, nodeVars, userVars
  <2>2. CASE DisposeTerm
    BY <2>2 DEF DisposeTerm, Inv, TransportTypeOK, VictimKnown, nodeVars, userVars
  <2>3. CASE DisposeEnd
    BY <2>3 DEF DisposeEnd, Inv, TransportTypeOK, userVars
  <2> QED BY <2>1, <2>2, <2>3
<1>3. doomed' # doomed => victim # NoChild
  BY DEF DisposeEOF, DisposeTerm, DisposeEnd, Inv, VictimKnown
<1>4. TransportTypeOK'
  BY <1>1, <1>2, <1>3 DEF Inv, TransportTypeOK
<1>5. CallersWait'
  BY <1>1 DEF Inv, CallersWait, Untouched
<1>6. CurrentOwns' /\ ChildIsClear'
  BY <1>1, <1>2 DEF Inv, CurrentOwns, ChildIsClear
<1>7. RequestsTrue' /\ FramesTrue' /\ RunsTrue' /\ OneInFlight'
  BY <1>1 DEF Inv, RequestsTrue, FramesTrue, RunsTrue, OneInFlight
<1>8. ResultsTrue'
  BY <1>1, <1>2 DEF Inv, ResultsTrue
<1>9. LaunchesTrue'
  <2>1. child' <= spawns /\ victim' <= spawns /\ target <= spawns
    BY <1>2 DEF Inv, TransportTypeOK, LaunchesTrue, NoChild
  <2>2. \A k \in Children : k > spawns => k # child /\ k # victim
    BY DEF Inv, TransportTypeOK, LaunchesTrue, Children
  <2> QED BY <1>1, <1>2, <2>1, <2>2 DEF Inv, LaunchesTrue
<1>10. VictimKnown' /\ NoStray'
  BY <1>1, <1>2 DEF VictimKnown, NoStray
<1> QED BY <1>4, <1>5, <1>6, <1>7, <1>8, <1>9, <1>10 DEF Inv

\* No child could be launched for the head of the line.
LEMMA LaunchThrowsKeepsInv ==
    ASSUME Inv, LaunchThrows
    PROVE  Inv'
<1> DEFINE c == Head(fifo)
<1>1. /\ current = NoCall /\ fifo # <<>> /\ fifo' = Tail(fifo)
      /\ result' = [result EXCEPT ![c] = "unavailable"]
      /\ UNCHANGED <<current, target, child, spawns, process, doomed, closed, gone, request,
                     frames, disposal, victim, asked, ran, ranOn>>
  BY DEF LaunchThrows, Idle, osVars, endVars
<1>2. /\ c \in Calls /\ c \in asked /\ ran[c] = 0 /\ ranOn[c] = NoChild
      /\ fifo' \in Seq(Calls)
      /\ \A i \in 1..Len(fifo') : fifo'[i] # c /\ fifo'[i] \in asked /\ Untouched(fifo'[i])
      /\ \A i, j \in 1..Len(fifo') : fifo'[i] = fifo'[j] => i = j
  BY <1>1, HeadLeaves DEF Untouched
<1>3. /\ result' \in [Calls -> Seam!Results \cup {"none"}]
      /\ \A d \in Calls : result'[d] = IF d = c THEN "unavailable" ELSE result[d]
  BY <1>1, <1>2 DEF Inv, TransportTypeOK, Seam!Results, Seam!Losses
<1> HIDE DEF c
<1>4. TransportTypeOK'
  BY <1>1, <1>2, <1>3 DEF Inv, TransportTypeOK
<1>5. CallersWait'
  <2>1. \A d \in Calls : d # c /\ Untouched(d) => Untouched(d)'
    BY <1>1, <1>3 DEF Untouched
  <2>2. \A i \in 1..Len(fifo') : fifo'[i] \in Calls
    BY <1>2, ElementOfSeq
  <2> QED BY <1>1, <1>2, <2>1, <2>2 DEF Inv, CallersWait
<1>6. CurrentOwns' /\ ChildIsClear'
  BY <1>1 DEF Inv, CurrentOwns, ChildIsClear
<1>7. RequestsTrue' /\ FramesTrue' /\ RunsTrue' /\ OneInFlight'
  BY <1>1 DEF Inv, RequestsTrue, FramesTrue, RunsTrue, OneInFlight
<1>8. ResultsTrue'
  BY <1>1, <1>2, <1>3 DEF Inv, ResultsTrue
<1>9. LaunchesTrue' /\ VictimKnown' /\ NoStray'
  BY <1>1 DEF Inv, LaunchesTrue, VictimKnown, NoStray
<1> QED BY <1>4, <1>5, <1>6, <1>7, <1>8, <1>9 DEF Inv

\* The head of the line starts on a child that has nothing of another call.
LEMMA RunOnKeepsInv ==
    ASSUME Inv, current = NoCall, fifo # <<>>, NEW k \in Children, RunOn(k),
           frames[k] = <<>>, request[k] = NoCall,
           child \in {k, NoChild} \/ child \in gone \/ child \in doomed,
           spawns' \in 0..MaxChildren, spawns <= spawns', k <= spawns',
           process' \in [Children -> ProcessStates],
           \A j \in Children : process'[j] = process[j] \/ (j = k /\ process[j] = "absent")
    PROVE  Inv'
<1> DEFINE c == Head(fifo)
<1>1. /\ fifo' = Tail(fifo) /\ target' = k /\ child' = k /\ ranOn' = [ranOn EXCEPT ![c] = k]
      /\ UNCHANGED <<doomed, closed, gone, frames, disposal, victim, asked, ran>>
      /\ \/ /\ k \in closed /\ result' = [result EXCEPT ![c] = "restarted"]
            /\ UNCHANGED <<current, request>>
         \/ /\ current' = c /\ request' = [request EXCEPT ![k] = c] /\ UNCHANGED result
  BY DEF RunOn, endVars
<1>2. /\ c \in Calls /\ c \in asked /\ ran[c] = 0 /\ ranOn[c] = NoChild /\ result[c] = "none"
      /\ fifo' \in Seq(Calls)
      /\ \A i \in 1..Len(fifo') : fifo'[i] # c /\ fifo'[i] \in asked /\ Untouched(fifo'[i])
      /\ \A i, j \in 1..Len(fifo') : fifo'[i] = fifo'[j] => i = j
  BY <1>1, HeadLeaves DEF Untouched
<1>3. /\ ranOn' \in [Calls -> Children \cup {NoChild}]
      /\ \A d \in Calls : ranOn'[d] = IF d = c THEN k ELSE ranOn[d]
  BY <1>1, <1>2 DEF Inv, TransportTypeOK
<1>4. /\ result' \in [Calls -> Seam!Results \cup {"none"}]
      /\ \A d \in Calls : d # c => result'[d] = result[d]
      /\ result'[c] = "none" \/ (result'[c] = "restarted" /\ k \in closed)
      /\ current' = c => result'[c] = "none"
  BY <1>1, <1>2, TransportAssumption DEF Inv, TransportTypeOK, Seam!Results, Seam!Losses
<1>5. /\ request' \in [Children -> Calls \cup {NoCall}]
      /\ \A j \in Children : j # k => request'[j] = request[j]
      /\ request'[k] = current' /\ current' \in {c, NoCall}
  <2>1. c \in Calls /\ request \in [Children -> Calls \cup {NoCall}]
    BY <1>2 DEF Inv, TransportTypeOK
  <2> HIDE DEF c
  <2>2. CASE UNCHANGED <<current, request>>
    BY <2>1, <2>2
  <2>3. CASE current' = c /\ request' = [request EXCEPT ![k] = c]
    BY <2>1, <2>3
  <2> QED BY <1>1, <2>2, <2>3
<1> HIDE DEF c
<1>6. k # NoChild /\ NoChild \notin Children /\ c # NoCall
  BY <1>2, TransportAssumption DEF Children, NoChild
<1>7. TransportTypeOK'
  BY <1>1, <1>2, <1>3, <1>4, <1>5 DEF Inv, TransportTypeOK
<1>8. CallersWait'
  <2>1. \A d \in Calls : d # c /\ Untouched(d) => Untouched(d)'
    BY <1>1, <1>3, <1>4 DEF Untouched
  <2>2. \A i \in 1..Len(fifo') : fifo'[i] \in Calls
    BY <1>2, ElementOfSeq
  <2> QED BY <1>1, <1>2, <2>1, <2>2 DEF Inv, CallersWait
<1>9. CurrentOwns' /\ ChildIsClear'
  BY <1>1, <1>2, <1>3, <1>4, <1>5, <1>6 DEF CurrentOwns, ChildIsClear
<1>10. RequestsTrue'
  <2>1. ASSUME NEW j \in Children, request'[j] # NoCall
        PROVE  request'[j] \in asked' /\ ran'[request'[j]] = 0 /\ ranOn'[request'[j]] = j
    <3>1. CASE j = k
      BY <1>1, <1>2, <1>3, <1>5, <2>1, <3>1
    <3>2. CASE j # k
      <4>1. /\ request'[j] = request[j] /\ request[j] \in Calls /\ request[j] \in asked
            /\ ran[request[j]] = 0 /\ ranOn[request[j]] = j
        BY <1>5, <2>1, <3>2 DEF Inv, TransportTypeOK, RequestsTrue
      <4> QED BY <1>1, <1>2, <1>3, <1>6, <4>1
    <3> QED BY <3>1, <3>2
  <2> QED BY <2>1 DEF RequestsTrue
<1>11. FramesTrue' /\ VictimKnown'
  BY <1>1 DEF Inv, FramesTrue, VictimKnown
<1>12. \A d \in Calls : d # c /\ ranOn[d] \in Children /\ process[ranOn[d]] # "absent" =>
                           ranOn'[d] = ranOn[d] /\ process'[ranOn'[d]] = process[ranOn[d]]
  BY <1>3
<1>13. RunsTrue'
  <2>1. ASSUME NEW d \in Calls, ran'[d] = 1
        PROVE  ranOn'[d] \in Children /\ process'[ranOn'[d]] \in {"up", "dead"}
    <3>1. d # c /\ ranOn[d] \in Children /\ process[ranOn[d]] \in {"up", "dead"}
      BY <1>1, <1>2, <2>1 DEF Inv, RunsTrue
    <3> QED BY <1>12, <3>1
  <2> QED BY <2>1 DEF RunsTrue
<1>14. ResultsTrue'
  <2>1. ASSUME NEW d \in Calls
        PROVE  /\ result'[d] = "unavailable" =>
                     ran'[d] = 0 /\ (ranOn'[d] = NoChild \/ process'[ranOn'[d]] = "unborn")
               /\ result'[d] = "restarted" =>
                     ranOn'[d] \in Children /\ (ranOn'[d] \in closed' \/ process'[ranOn'[d]] = "dead")
    <3>1. CASE d = c
      BY <1>1, <1>3, <1>4, <3>1
    <3>2. CASE d # c
      <4>1. ran'[d] = ran[d] /\ result'[d] = result[d] /\ ranOn'[d] = ranOn[d] /\ closed' = closed
        BY <1>1, <1>3, <1>4, <3>2
      <4>2. ranOn[d] \in Children \cup {NoChild}
        BY DEF Inv, TransportTypeOK
      <4>3. ranOn[d] \in Children /\ process[ranOn[d]] # "absent" =>
                process'[ranOn[d]] = process[ranOn[d]]
        BY <1>12, <3>2, <4>1
      <4>4. /\ result[d] = "unavailable" =>
                    ran[d] = 0 /\ (ranOn[d] = NoChild \/ process[ranOn[d]] = "unborn")
            /\ result[d] = "restarted" =>
                    ranOn[d] \in Children /\ (ranOn[d] \in closed \/ process[ranOn[d]] = "dead")
        BY DEF Inv, ResultsTrue
      <4> QED BY <4>1, <4>2, <4>3, <4>4
    <3> QED BY <3>1, <3>2
  <2> QED BY <2>1 DEF ResultsTrue
<1>15. LaunchesTrue'
  <2>1. spawns \in Nat /\ spawns' \in Nat /\ victim \in Nat /\ k \in Nat
    BY DEF Inv, TransportTypeOK, Children, NoChild
  <2>2. child' <= spawns' /\ target' <= spawns' /\ victim' <= spawns'
    BY <1>1, <2>1 DEF Inv, LaunchesTrue
  <2>3. \A j \in Children : j > spawns' => j > spawns /\ j # k
    BY <2>1 DEF Children
  <2>4. \A j \in Children : j > spawns' =>
           /\ process'[j] = "absent" /\ frames'[j] = <<>> /\ request'[j] = NoCall
           /\ j \notin doomed' /\ j \notin closed' /\ j \notin gone'
    BY <1>1, <1>5, <2>3 DEF Inv, LaunchesTrue
  <2>5. \A j \in gone' : process'[j] \in {"dead", "unborn"}
    <3>1. \A j \in gone : j \in Children /\ process[j] \in {"dead", "unborn"}
      BY DEF Inv, TransportTypeOK, LaunchesTrue
    <3> QED BY <1>1, <3>1
  <2> QED BY <2>2, <2>4, <2>5 DEF LaunchesTrue
<1>16. OneInFlight'
  <2>1. frames' \in [Children -> Seq(Frames)]
    BY <1>1 DEF Inv, TransportTypeOK
  <2>2. \A j \in Children : Len(frames'[j]) <= 1 /\ (request'[j] # NoCall => Len(frames'[j]) = 0)
    BY <1>1, <1>5, FramesOfChild, EmptySeq
  <2> QED BY <2>1, <2>2, AllHaveRoom
<1>17. NoStray'
  <2>1. ASSUME disposal' = "none", NEW j \in Children, process'[j] = "up"
        PROVE  j = child' \/ j \in doomed'
    <3>1. CASE j = k
      BY <1>1, <3>1
    <3>2. CASE j # k
      <4>1. process[j] = "up"
        BY <2>1, <3>2
      <4>2. j = child \/ j \in doomed
        BY <1>1, <2>1, <4>1 DEF Inv, NoStray
      <4>3. j \notin gone
        BY <4>1 DEF Inv, LaunchesTrue
      <4> QED BY <1>1, <1>6, <3>2, <4>2, <4>3
    <3> QED BY <3>1, <3>2
  <2> QED BY <2>1 DEF NoStray
<1> QED BY <1>7, <1>8, <1>9, <1>10, <1>11, <1>13, <1>14, <1>15, <1>16, <1>17 DEF Inv

\* A reused child is clear, and so is one just launched.
LEMMA RunKeepsInv ==
    ASSUME Inv, RunOnChild \/ RunOnFreshChild
    PROVE  Inv'
<1>1. CASE RunOnChild
  <2>1. /\ current = NoCall /\ fifo # <<>> /\ RunOn(child) /\ UNCHANGED <<spawns, process>>
        /\ child # NoChild /\ child \notin doomed
    BY <1>1 DEF RunOnChild, Idle, Reusable
  <2>2. child \in Children /\ frames[child] = <<>> /\ request[child] = NoCall
    BY <2>1 DEF Inv, TransportTypeOK, ChildIsClear
  <2>3. child <= spawns /\ spawns \in 0..MaxChildren /\ process \in [Children -> ProcessStates]
    BY DEF Inv, TransportTypeOK, LaunchesTrue
  <2>4. spawns <= spawns
    BY <2>3, TransportAssumption
  <2> QED BY <2>1, <2>2, <2>3, <2>4, RunOnKeepsInv
<1>2. CASE RunOnFreshChild
  <2>1. /\ current = NoCall /\ fifo # <<>> /\ RunOn(spawns + 1) /\ spawns' = spawns + 1
        /\ spawns < MaxChildren
        /\ child = NoChild \/ child \in gone \/ child \in doomed
    BY <1>2 DEF RunOnFreshChild, Idle, Reusable
  <2>2. spawns \in Nat /\ MaxChildren \in Nat /\ spawns + 1 \in Children
        /\ spawns' \in 0..MaxChildren /\ spawns + 1 > spawns
    BY <2>1, TransportAssumption DEF Inv, TransportTypeOK, Children
  <2>3. /\ process[spawns + 1] = "absent" /\ frames[spawns + 1] = <<>>
        /\ request[spawns + 1] = NoCall
    BY <2>2 DEF Inv, LaunchesTrue
  <2>4. PICK fate \in {"up", "unborn"} : process' = [process EXCEPT ![spawns + 1] = fate]
    BY <1>2 DEF RunOnFreshChild
  <2>5. /\ process' \in [Children -> ProcessStates]
        /\ \A j \in Children : process'[j] = process[j] \/ (j = spawns + 1 /\ process[j] = "absent")
    BY <2>2, <2>3, <2>4 DEF Inv, TransportTypeOK, ProcessStates
  <2>6. spawns <= spawns' /\ spawns + 1 <= spawns'
    BY <2>1, <2>2
  <2> QED BY <2>1, <2>2, <2>3, <2>5, <2>6, RunOnKeepsInv
<1> QED BY <1>1, <1>2

\* Nothing was asked and no child launched.
LEMMA InitInv ==
    ASSUME Init
    PROVE  Inv
<1>1. /\ fifo = <<>> /\ <<>> \in Seq(Calls) /\ <<>> \in Seq(Frames) /\ Len(<<>>) = 0
      /\ MaxChildren \in Nat
  BY EmptySeq, TransportAssumption DEF Init
<1>2. TransportTypeOK
  BY <1>1 DEF Init, TransportTypeOK, ProcessStates
<1>3. CallersWait
  BY <1>1 DEF Init, CallersWait, Untouched
<1>4. /\ CurrentOwns /\ ChildIsClear /\ RequestsTrue /\ FramesTrue /\ RunsTrue /\ ResultsTrue
      /\ VictimKnown /\ NoStray
  BY DEF Init, CurrentOwns, ChildIsClear, RequestsTrue, FramesTrue, RunsTrue, ResultsTrue,
         VictimKnown, NoStray
<1>5. LaunchesTrue
  BY <1>1 DEF Init, LaunchesTrue, NoChild
<1>6. OneInFlight
  BY <1>1 DEF Init, OneInFlight
<1> QED BY <1>2, <1>3, <1>4, <1>5, <1>6 DEF Inv

\* No step of the transport, of its children or of dispose() breaks Inv.
LEMMA NextKeepsInv ==
    ASSUME Inv, [Next]_vars
    PROVE  Inv'
<1>1. CASE \E c \in Calls : Ask(c)
  BY <1>1, AskKeepsInv
<1>2. CASE RunOne
  BY <1>2, RunKeepsInv, LaunchThrowsKeepsInv DEF RunOne
<1>3. CASE TimerFires
  BY <1>3, TimeoutKeepsInv DEF TimerFires
<1>4. ASSUME NEW k \in Children, OnChildError(k) \/ Event(k) \/ Execute(k) \/ Die(k)
      PROVE  Inv'
  BY <1>4, ErrorKeepsInv, DataKeepsInv, ExitKeepsInv, StdinErrorKeepsInv, ExecuteKeepsInv,
     DieKeepsInv DEF Event
<1>5. CASE DisposeEOF \/ DisposeTerm \/ DisposeEnd
  BY <1>5, DisposeKeepsInv
<1>6. CASE UNCHANGED vars
  BY <1>6 DEF vars, nodeVars, osVars, endVars, userVars, Inv, TransportTypeOK, CallersWait,
     Untouched, CurrentOwns, ChildIsClear, RequestsTrue, FramesTrue, RunsTrue, ResultsTrue,
     LaunchesTrue, VictimKnown, OneInFlight, NoStray
<1> QED BY <1>1, <1>2, <1>3, <1>4, <1>5, <1>6 DEF Next
-----------------------------------------------------------------------------
\* The promise of Spawner

\* The end of the current call, if there is one, is an answer of the seam.
LEMMA SettleIsAnswer ==
    ASSUME Inv, NEW kind \in Seam!Results, SettleIfPending(kind),
           UNCHANGED <<asked, ran>>,
           current # NoCall /\ kind \in Seam!Responses => ran[current] = 1,
           current # NoCall /\ kind = "unavailable" => ran[current] = 0
    PROVE  Seam!Next \/ UNCHANGED Seam!vars
<1>1. CASE current = NoCall
  BY <1>1 DEF SettleIfPending, Seam!vars
<1>2. CASE current # NoCall
  <2>1. current \in Calls /\ current \in asked /\ result[current] = "none"
    BY <1>2 DEF Inv, TransportTypeOK, CurrentOwns
  <2>2. result' = [result EXCEPT ![current] = kind]
    BY <1>2 DEF SettleIfPending, Settle
  <2>3. Seam!Answer(current, kind)
    BY <1>2, <2>1, <2>2 DEF Seam!Answer, Seam!Responses
  <2> QED BY <2>1, <2>3 DEF Seam!Next
<1> QED BY <1>1, <1>2

\* What a child reports at its end answers the current call, if it is its own.
LEMMA EventIsAnswer ==
    ASSUME Inv, NEW k \in Children, NEW kind \in {"restarted", "unavailable"},
           process[k] = (IF kind = "restarted" THEN "dead" ELSE "unborn"),
           IF k = child THEN Abandon(kind) ELSE KeepChild,
           UNCHANGED <<asked, ran>>
    PROVE  Seam!Next \/ UNCHANGED Seam!vars
<1>1. CASE k = child
  <2>1. SettleIfPending(kind) /\ kind \in Seam!Results /\ kind \notin Seam!Responses
    BY <1>1 DEF Abandon, Seam!Results, Seam!Losses, Seam!Responses
  <2>2. current # NoCall => ranOn[current] = k /\ current \in Calls
    BY <1>1 DEF Inv, CurrentOwns, TransportTypeOK, Children, NoChild
  <2>3. current # NoCall /\ kind = "unavailable" => ran[current] = 0
    BY <2>2 DEF Inv, RunsTrue, TransportTypeOK
  <2> QED BY <2>1, <2>3, SettleIsAnswer
<1>2. CASE k # child
  BY <1>2 DEF KeepChild, Seam!vars
<1> QED BY <1>1, <1>2

\* A child runs only what was asked for, and has not run, and did not fail to
\* be launched.
LEMMA ScriptIsRun ==
    ASSUME Inv, NEW k \in Children, process[k] = "up", request[k] # NoCall,
           ran' = [ran EXCEPT ![request[k]] = @ + 1], UNCHANGED <<asked, result>>
    PROVE  Seam!Next
<1> DEFINE c == request[k]
<1>1. c \in Calls /\ c \in asked /\ ran[c] = 0 /\ ranOn[c] = k
  BY DEF Inv, TransportTypeOK, RequestsTrue
<1>2. result[c] # "unavailable"
  BY <1>1 DEF Inv, ResultsTrue, Children, NoChild
<1>3. ran' = [ran EXCEPT ![c] = 1]
  BY <1>1
<1> HIDE DEF c
<1>4. Seam!Run(c)
  BY <1>1, <1>2, <1>3 DEF Seam!Run
<1> QED BY <1>1, <1>4 DEF Seam!Next

\* The head of the line may be told to retry, or that no child could start.
LEMMA HeadIsAnswered ==
    ASSUME Inv, fifo # <<>>, fifo' = Tail(fifo), NEW kind \in Seam!Losses,
           result' = [result EXCEPT ![Head(fifo)] = kind], UNCHANGED <<asked, ran>>
    PROVE  Seam!Next
<1> DEFINE c == Head(fifo)
<1>1. c \in Calls /\ c \in asked /\ ran[c] = 0 /\ result[c] = "none"
  BY HeadLeaves DEF Untouched
<1>2. kind \in Seam!Results /\ kind \notin Seam!Responses
  BY DEF Seam!Results, Seam!Losses, Seam!Responses
<1>3. result' = [result EXCEPT ![c] = kind]
  OBVIOUS
<1> HIDE DEF c
<1>4. Seam!Answer(c, kind)
  BY <1>1, <1>2, <1>3 DEF Seam!Answer, Seam!Responses
<1> QED BY <1>1, <1>2, <1>4 DEF Seam!Next

\* Every step of the transport is one of the seam, or nothing its callers or
\* OmniFocus can see.
LEMMA StepIsSeamStep ==
    ASSUME Inv, [Next]_vars
    PROVE  [Seam!Next]_Seam!vars
<1>1. ASSUME NEW c \in Calls, Ask(c)
      PROVE  Seam!Next
  <2>1. Seam!Ask(c)
    BY <1>1 DEF Ask, Seam!Ask
  <2> QED BY <2>1 DEF Seam!Next
<1>2. CASE LaunchThrows
  <2>1. "unavailable" \in Seam!Losses
    BY DEF Seam!Losses
  <2> QED BY <1>2, <2>1, HeadIsAnswered DEF LaunchThrows, Idle
<1>3. ASSUME NEW k, RunOn(k), Idle
      PROVE  Seam!Next \/ UNCHANGED Seam!vars
  <2>1. CASE k \in closed
    <3>1. "restarted" \in Seam!Losses
      BY DEF Seam!Losses
    <3> QED BY <1>3, <2>1, <3>1, HeadIsAnswered DEF RunOn, Idle
  <2>2. CASE k \notin closed
    BY <1>3, <2>2 DEF RunOn, Seam!vars
  <2> QED BY <2>1, <2>2
<1>4. CASE RunOne
  BY <1>2, <1>3, <1>4 DEF RunOne, RunOnChild, RunOnFreshChild
<1>5. CASE TimerFires
  <2>1. SettleIfPending("timeout") /\ UNCHANGED <<asked, ran>>
    BY <1>5 DEF TimerFires, Timeout, SettleIfPending
  <2> QED BY <2>1, SettleIsAnswer DEF Seam!Results, Seam!Losses, Seam!Responses
<1>6. ASSUME NEW k \in Children, OnFd3Data(k)
      PROVE  Seam!Next \/ UNCHANGED Seam!vars
  <2>1. CASE k = child
    <3> DEFINE kind == Head(frames[k]).kind
    <3>1. frames[k] # <<>> /\ SettleIfPending(kind) /\ UNCHANGED <<asked, ran>>
      BY <1>6, <2>1 DEF OnFd3Data
    <3>2. frames[k] \in Seq(Frames) /\ Head(frames[k]) = frames[k][1] /\ frames[k][1] \in Frames
      BY <3>1, FramesOfChild, TailOf
    <3>3. kind \in {"ok", "error"}
      BY <3>2 DEF Frames
    <3>4. current # NoCall => ran[current] = 1
      BY <2>1, <3>1 DEF Inv, CurrentOwns, FramesTrue, Children, NoChild
    <3> HIDE DEF kind
    <3>5. kind \in Seam!Results /\ kind # "unavailable"
      BY <3>3 DEF Seam!Results, Seam!Responses
    <3> QED BY <3>1, <3>4, <3>5, SettleIsAnswer
  <2>2. CASE k # child
    BY <1>6, <2>2 DEF OnFd3Data, Seam!vars
  <2> QED BY <2>1, <2>2
<1>7. ASSUME NEW k \in Children, OnChildExit(k) \/ OnChildError(k) \/ OnStdinError(k)
      PROVE  Seam!Next \/ UNCHANGED Seam!vars
  <2>1. CASE OnChildExit(k)
    BY <2>1, EventIsAnswer DEF OnChildExit
  <2>2. CASE OnChildError(k)
    BY <2>2, EventIsAnswer DEF OnChildError
  <2>3. CASE OnStdinError(k)
    BY <2>3, EventIsAnswer DEF OnStdinError
  <2> QED BY <1>7, <2>1, <2>2, <2>3
<1>8. ASSUME NEW k \in Children, Execute(k) \/ Die(k)
      PROVE  Seam!Next \/ UNCHANGED Seam!vars
  <2>1. UNCHANGED <<asked, result>>
    BY <1>8 DEF Execute, Die
  <2>2. CASE UNCHANGED ran
    BY <2>1, <2>2 DEF Seam!vars
  <2>3. CASE /\ process[k] = "up" /\ request[k] # NoCall
             /\ ran' = [ran EXCEPT ![request[k]] = @ + 1]
    BY <2>1, <2>3, ScriptIsRun
  <2> QED BY <1>8, <2>2, <2>3 DEF Execute, Die
<1>9. CASE DisposeEOF \/ DisposeTerm \/ DisposeEnd \/ UNCHANGED vars
  BY <1>9 DEF DisposeEOF, DisposeTerm, DisposeEnd, vars, userVars, Seam!vars
<1> QED BY <1>1, <1>4, <1>5, <1>6, <1>7, <1>8, <1>9 DEF Next, Event

-----------------------------------------------------------------------------
\* Theorems

\* Inv is an invariant, whatever fails and whenever it fails.
LEMMA InvHolds == Spec => []Inv
<1>1. Init => Inv
  BY InitInv
<1>2. Inv /\ [Next]_vars => Inv'
  BY NextKeepsInv
<1> QED BY <1>1, <1>2, PTL DEF Spec

\* enqueue()'s chain and the kill on timeout keep at most one call between a
\* child's stdin and its fd 3, so a frame without an id is never misread.
THEOREM OneCallInFlight == Spec => []OneInFlight
<1>1. Inv => OneInFlight
  BY DEF Inv
<1> QED BY <1>1, InvHolds, PTL

\* settle("restarted") is reached only for a child that died or whose stdin
\* dispose() ended.
THEOREM OnlyRealRestarts == Spec => []RestartsAreReal
<1>1. Inv => RestartsAreReal
  BY DEF Inv, ResultsTrue, RestartsAreReal
<1> QED BY <1>1, InvHolds, PTL

\* ensureChild() replaces only a child that is dead or was sent a signal.
THEOREM NoStrayChild == Spec => []NoStray
<1>1. Inv => NoStray
  BY DEF Inv
<1> QED BY <1>1, InvHolds, PTL

\* PersistentScriptRunner implements ScriptSpawner: every caller gets at most
\* one result, true of its own script, and no script runs twice.
THEOREM TransportImplementsSpawner == Spec => ImplementsSpawner
<1>1. Init => Seam!Init
  BY DEF Init, Seam!Init
<1>2. Inv /\ [Next]_vars => [Seam!Next]_Seam!vars
  BY StepIsSeamStep
<1> QED BY <1>1, <1>2, InvHolds, PTL DEF Spec, ImplementsSpawner, Seam!Spec

-----------------------------------------------------------------------------
\* THE DOCUMENT

\* Of some numbers one is the least.
LEMMA LeastNat ==
    ASSUME NEW T \in SUBSET Nat, T # {}
    PROVE  \E x \in T : \A y \in T : x <= y
<1> DEFINE R == OpToRel(<, Nat)
<1>1. IsWellFoundedOn(R, Nat)
  BY NatLessThanWellFounded
<1>2. \A y, x \in Nat : y < x => <<y, x>> \in R
  BY DEF OpToRel
<1> HIDE DEF R
<1>3. PICK x \in T : \A y \in T : ~(<<y, x>> \in R)
  BY <1>1, WFMin
<1>4. ASSUME NEW y \in T PROVE x <= y
  <2>1. ~(y < x)
    BY <1>2, <1>3
  <2> QED
    BY <2>1
<1> QED
  BY <1>4

\* Induction on the numbers up to n, for the functions of the sequences and
\* the chains, which are defined on those.
LEMMA UpTo ==
    ASSUME NEW n \in Nat, NEW T, 0 \in T, \A m \in 0..n : m # 0 /\ m - 1 \in T => m \in T
    PROVE  0..n \subseteq T
<1> SUFFICES ASSUME NEW k \in 0..n, k \notin T PROVE FALSE
  OBVIOUS
<1> DEFINE Out == {m \in 0..n : m \notin T}
<1>1. Out \in SUBSET Nat /\ Out # {}
  OBVIOUS
<1>2. PICK x \in Out : \A y \in Out : x <= y
  BY <1>1, LeastNat
<1>3. x # 0 /\ x - 1 \in 0..n /\ ~(x <= x - 1)
  OBVIOUS
<1>4. x - 1 \in T
  BY <1>2, <1>3
<1> QED
  BY <1>3, <1>4

-----------------------------------------------------------------------------

\* Sequences that list a set: every element once.

Lists(s, S) ==
    /\ s \in Seq(S)
    /\ \A x \in S : \E i \in 1..Len(s) : s[i] = x
    /\ \A i, j \in 1..Len(s) : s[i] = s[j] => i = j

\* f is what Omitting leaves of the first n elements.
Leaves(f, s, S, n) ==
    f = [m \in 0..n |-> IF m = 0 THEN <<>>
                        ELSE IF s[m] \in S THEN f[m - 1] ELSE Append(f[m - 1], s[m])]

\* The next element.
LEMMA LeavesMore ==
    ASSUME NEW s, NEW S, NEW n \in Nat, n # 0, \E f : Leaves(f, s, S, n - 1)
    PROVE  \E g : Leaves(g, s, S, n)
<1>1. PICK f : Leaves(f, s, S, n - 1)
  OBVIOUS
<1> DEFINE more == IF s[n] \in S THEN f[n - 1] ELSE Append(f[n - 1], s[n])
           g == [m \in 0..n |-> IF m = n THEN more ELSE f[m]]
<1>2. ASSUME NEW m \in 0..n
      PROVE  g[m] = IF m = 0 THEN <<>>
                    ELSE IF s[m] \in S THEN g[m - 1] ELSE Append(g[m - 1], s[m])
  <2> HIDE DEF more
  <2>1. CASE m = n
    <3>1. n - 1 \in 0..n /\ n - 1 # n
      OBVIOUS
    <3>2. g[n - 1] = f[n - 1] /\ g[n] = more
      BY <3>1
    <3> QED
      BY <2>1, <3>2 DEF more
  <2>2. CASE m # n
    <3>1. m \in 0..(n - 1) /\ g[m] = f[m]
      BY <2>2
    <3>2. f[m] = IF m = 0 THEN <<>>
                 ELSE IF s[m] \in S THEN f[m - 1] ELSE Append(f[m - 1], s[m])
      BY <1>1, <3>1 DEF Leaves
    <3>3. m # 0 => g[m - 1] = f[m - 1]
      BY <3>1
    <3> QED
      BY <3>1, <3>2, <3>3
  <2> QED
    BY <2>1, <2>2
<1>3. Leaves(g, s, S, n)
  <2> HIDE DEF more
  <2>1. g = [m \in 0..n |-> g[m]]
    OBVIOUS
  <2> HIDE DEF g
  <2> QED
    BY <2>1, <1>2 DEF Leaves
<1> QED
  BY <1>3

\* So the function of Omitting is there.
LEMMA LeavesExist ==
    ASSUME NEW s, NEW S, NEW n \in Nat
    PROVE  \E f : Leaves(f, s, S, n)
<1> DEFINE T == {m \in 0..n : \E f : Leaves(f, s, S, m)}
<1>1. 0 \in T
  <2> DEFINE f == [m \in 0..0 |-> <<>>]
  <2>1. \A m \in 0..0 : m = 0 
    OBVIOUS
  <2>2. Leaves(f, s, S, 0)
    BY <2>1 DEF Leaves
  <2> QED
    BY <2>2
<1>2. ASSUME NEW m \in 0..n, m # 0, m - 1 \in T PROVE m \in T
  BY <1>2, LeavesMore
<1>3. 0..n \subseteq T
  <2> HIDE DEF T
  <2> QED
    BY <1>1, <1>2, UpTo
<1> QED
  BY <1>3

\* l has, once each, the elements of the first n of s that are not in S.
Kept(l, s, S, U, n) ==
    /\ l \in Seq(U \ S)
    /\ \A i \in 1..Len(l) : \E k \in 1..n : l[i] = s[k]
    /\ \A k \in 1..n : s[k] \notin S => \E i \in 1..Len(l) : l[i] = s[k]
    /\ \A i, j \in 1..Len(l) : l[i] = l[j] => i = j

\* One element more, which is left out or comes last.
LEMMA KeptMore ==
    ASSUME NEW U, NEW s, Lists(s, U), NEW S, NEW n \in 1..Len(s), NEW l, Kept(l, s, S, U, n - 1)
    PROVE  Kept(IF s[n] \in S THEN l ELSE Append(l, s[n]), s, S, U, n)
<1>1. s \in Seq(U) /\ Len(s) \in Nat /\ s[n] \in U
  BY DEF Lists
<1>2. \A k \in 1..n : k = n \/ k \in 1..(n - 1)
  OBVIOUS
<1>3. 1..(n - 1) \subseteq 1..n /\ n \in 1..n /\ \A k \in 1..(n - 1) : k # n /\ k \in 1..Len(s)
  BY <1>1
<1>4. CASE s[n] \in S
  BY <1>2, <1>3, <1>4 DEF Kept
<1>5. CASE s[n] \notin S
  <2> DEFINE m == Append(l, s[n])
  <2>1. l \in Seq(U \ S) /\ Len(l) \in Nat /\ s[n] \in U \ S
    BY <1>1, <1>5 DEF Kept
  <2>2. /\ m \in Seq(U \ S)
        /\ Len(m) = Len(l) + 1
        /\ m[Len(l) + 1] = s[n]
        /\ \A i \in 1..Len(l) : m[i] = l[i]
    BY <2>1
  <2> HIDE DEF m
  <2>3. \A i \in 1..Len(m) : i = Len(l) + 1 \/ i \in 1..Len(l)
    BY <2>1, <2>2
  <2>4. 1..Len(l) \subseteq 1..Len(m) /\ Len(l) + 1 \in 1..Len(m)
    BY <2>1, <2>2
  <2>5. ASSUME NEW i \in 1..Len(l) PROVE l[i] # s[n]
    <3>1. PICK k \in 1..(n - 1) : l[i] = s[k]
      BY DEF Kept
    <3> QED
      BY <3>1, <1>3 DEF Lists
  <2>6. ASSUME NEW i \in 1..Len(m) PROVE \E k \in 1..n : m[i] = s[k]
    BY <2>3, <2>2, <1>3 DEF Kept
  <2>7. ASSUME NEW k \in 1..n, s[k] \notin S PROVE \E i \in 1..Len(m) : m[i] = s[k]
    <3>1. CASE k = n
      BY <3>1, <2>2, <2>4
    <3>2. CASE k \in 1..(n - 1)
      <4>1. PICK i \in 1..Len(l) : l[i] = s[k]
        BY <3>2, <2>7 DEF Kept
      <4> QED
        BY <4>1, <2>2, <2>4
    <3> QED
      BY <3>1, <3>2, <1>2
  <2>8. ASSUME NEW i \in 1..Len(m), NEW j \in 1..Len(m), m[i] = m[j] PROVE i = j
    <3>1. CASE i \in 1..Len(l) /\ j \in 1..Len(l)
      BY <2>8, <3>1, <2>2 DEF Kept
    <3>2. CASE i = Len(l) + 1 /\ j \in 1..Len(l)
      BY <2>8, <3>2, <2>2, <2>5
    <3>3. CASE i \in 1..Len(l) /\ j = Len(l) + 1
      BY <2>8, <3>3, <2>2, <2>5
    <3> QED
      BY <3>1, <3>2, <3>3, <2>3
  <2>9. Kept(m, s, S, U, n)
    BY <2>2, <2>6, <2>7, <2>8 DEF Kept
  <2> QED
    BY <2>9, <1>5 DEF m
<1> QED
  BY <1>4, <1>5

\* Leaving elements out keeps the others, each once.
LEMMA OmittingLists ==
    ASSUME NEW U, NEW s, Lists(s, U), NEW S
    PROVE  Lists(Omitting(s, S), U \ S)
<1> DEFINE left == CHOOSE f : f = [m \in 0..Len(s) |->
                       IF m = 0 THEN <<>>
                       ELSE IF s[m] \in S THEN f[m - 1] ELSE Append(f[m - 1], s[m])]
           T == {n \in 0..Len(s) : Kept(left[n], s, S, U, n)}
<1>0. s \in Seq(U) /\ Len(s) \in Nat
  BY DEF Lists
<1>1. Leaves(left, s, S, Len(s)) /\ s \in Seq(U) /\ Len(s) \in Nat
  <2>1. \E f : Leaves(f, s, S, Len(s))
    BY <1>0, LeavesExist
  <2>2. left = CHOOSE f : Leaves(f, s, S, Len(s))
    BY DEF Leaves
  <2> HIDE DEF left
  <2> QED
    BY <2>1, <2>2, <1>0
<1>2. Omitting(s, S) = left[Len(s)]
  BY DEF Omitting
<1> HIDE DEF left
<1>3. left[0] = <<>>
  BY <1>1 DEF Leaves
<1>4. 0 \in T
  <2>1. Kept(<<>>, s, S, U, 0)
    BY DEF Kept
  <2> QED
    BY <1>1, <1>3, <2>1
<1>5. ASSUME NEW n \in 0..Len(s), n # 0, n - 1 \in T PROVE n \in T
  <2>1. left[n] = IF s[n] \in S THEN left[n - 1] ELSE Append(left[n - 1], s[n])
    BY <1>1, <1>5 DEF Leaves
  <2> QED
    BY <2>1, <1>5, <1>1, KeptMore
<1>6. Len(s) \in T
  <2> HIDE DEF T
  <2>1. 0..Len(s) \subseteq T
    BY <1>1, <1>4, <1>5, UpTo
  <2> QED
    BY <1>1, <2>1
<1>7. Kept(left[Len(s)], s, S, U, Len(s))
  BY <1>6
<1> QED
  <2>1. ASSUME NEW x \in U \ S PROVE \E i \in 1..Len(left[Len(s)]) : left[Len(s)][i] = x
    <3>1. PICK k \in 1..Len(s) : s[k] = x
      BY DEF Lists
    <3> QED
      BY <1>7, <3>1, <2>1 DEF Kept
  <2> QED
    BY <1>2, <1>7, <2>1 DEF Kept, Lists

\* Two lists with nothing in common, one after the other.
LEMMA ConcatLists ==
    ASSUME NEW s, NEW S, Lists(s, S), NEW q, NEW Q, Lists(q, Q), S \cap Q = {}
    PROVE  Lists(s \o q, S \cup Q)
<1> DEFINE r == s \o q
<1>1. s \in Seq(S \cup Q) /\ q \in Seq(S \cup Q) /\ Len(s) \in Nat /\ Len(q) \in Nat
  BY DEF Lists
<1>2. /\ r \in Seq(S \cup Q)
      /\ Len(r) = Len(s) + Len(q)
      /\ \A i \in 1..Len(s) : r[i] = s[i]
      /\ \A i \in 1..Len(q) : r[Len(s) + i] = q[i]
  BY <1>1
<1> HIDE DEF r
<1>a. (\A i \in 1..Len(s) : s[i] \in S) /\ (\A i \in 1..Len(q) : q[i] \in Q)
  BY DEF Lists
<1>3. ASSUME NEW i \in 1..Len(r)
      PROVE  \/ i \in 1..Len(s) /\ r[i] = s[i] /\ r[i] \in S
             \/ i - Len(s) \in 1..Len(q) /\ r[i] = q[i - Len(s)] /\ r[i] \in Q
  <2>1. CASE i \in 1..Len(s)
    BY <2>1, <1>2, <1>a
  <2>2. CASE i \notin 1..Len(s)
    <3>1. i - Len(s) \in 1..Len(q) /\ i = Len(s) + (i - Len(s))
      BY <2>2, <1>1, <1>2
    <3> QED
      BY <3>1, <1>2, <1>a
  <2> QED
    BY <2>1, <2>2
<1>4. ASSUME NEW i \in 1..Len(r), NEW j \in 1..Len(r), r[i] = r[j] PROVE i = j
  <2>1. CASE i \in 1..Len(s) /\ r[i] = s[i] /\ r[i] \in S
    BY <2>1, <1>3, <1>4 DEF Lists
  <2>2. CASE i - Len(s) \in 1..Len(q) /\ r[i] = q[i - Len(s)] /\ r[i] \in Q
    <3>1. j - Len(s) \in 1..Len(q) /\ r[j] = q[j - Len(s)]
      BY <2>2, <1>3, <1>4
    <3>2. i - Len(s) = j - Len(s)
      BY <2>2, <3>1, <1>4 DEF Lists
    <3> QED
      BY <3>2, <1>1, <1>2
  <2> QED
    BY <2>1, <2>2, <1>3
<1>5. ASSUME NEW x \in S \cup Q PROVE \E i \in 1..Len(r) : r[i] = x
  <2>1. CASE x \in S
    <3>1. PICK i \in 1..Len(s) : s[i] = x
      BY <2>1 DEF Lists
    <3> QED
      BY <3>1, <1>1, <1>2
  <2>2. CASE x \in Q
    <3>1. PICK i \in 1..Len(q) : q[i] = x
      BY <2>2 DEF Lists
    <3>2. Len(s) + i \in 1..Len(r)
      BY <3>1, <1>1, <1>2
    <3> QED
      BY <3>1, <3>2, <1>2
  <2> QED
    BY <2>1, <2>2
<1> QED
  <2>1. Lists(r, S \cup Q)
    BY <1>2, <1>4, <1>5 DEF Lists
  <2> QED
    BY <2>1 DEF r

\* One element more, at either end.
LEMMA AppendLists ==
    ASSUME NEW s, NEW S, Lists(s, S), NEW x, x \notin S
    PROVE  Lists(Append(s, x), S \cup {x}) /\ Lists(<<x>> \o s, S \cup {x})
<1>1. Lists(<<x>>, {x})
  BY DEF Lists
<1>2. Lists(s \o <<x>>, S \cup {x}) /\ Lists(<<x>> \o s, {x} \cup S)
  BY <1>1, ConcatLists
<1>3. s \in Seq(S \cup {x})
  BY DEF Lists
<1>4. Append(s, x) = s \o <<x>>
  BY <1>3
<1>5. {x} \cup S = S \cup {x}
  OBVIOUS
<1> QED
  BY <1>2, <1>4, <1>5

\* One element more, at any place.
LEMMA InsertLists ==
    ASSUME NEW s, NEW S, Lists(s, S), NEW x, x \notin S, NEW p \in 1..(Len(s) + 1)
    PROVE  Lists(InsertAt(s, p, x), S \cup {x})
<1> DEFINE r == SubSeq(s, 1, p - 1) \o <<x>> \o SubSeq(s, p, Len(s))
           at(i) == IF i < p THEN i ELSE i + 1
<1>1. s \in Seq(S \cup {x}) /\ Len(s) \in Nat /\ x \in S \cup {x}
  BY DEF Lists
<1>2. /\ SubSeq(s, 1, p - 1) \in Seq(S \cup {x}) /\ Len(SubSeq(s, 1, p - 1)) = p - 1
      /\ \A i \in 1..(p - 1) : SubSeq(s, 1, p - 1)[i] = s[i]
  BY <1>1
<1>3. /\ SubSeq(s, p, Len(s)) \in Seq(S \cup {x}) /\ Len(SubSeq(s, p, Len(s))) = Len(s) - p + 1
      /\ \A i \in 1..(Len(s) - p + 1) : SubSeq(s, p, Len(s))[i] = s[p + i - 1]
  BY <1>1
<1>4. /\ r \in Seq(S \cup {x}) /\ Len(r) = Len(s) + 1 /\ r[p] = x
      /\ \A i \in 1..(p - 1) : r[i] = s[i]
      /\ \A i \in (p + 1)..(Len(s) + 1) : r[i] = s[i - 1]
  <2> DEFINE a == SubSeq(s, 1, p - 1)
             b == SubSeq(s, p, Len(s))
             c == a \o <<x>>
  <2>1. c \in Seq(S \cup {x}) /\ Len(c) = p /\ c[p] = x /\ \A i \in 1..(p - 1) : c[i] = s[i]
    <3> HIDE DEF a
    <3>1. a \in Seq(S \cup {x}) /\ Len(a) = p - 1 /\ \A i \in 1..(p - 1) : a[i] = s[i]
      BY <1>2 DEF a
    <3>2. <<x>> \in Seq(S \cup {x}) /\ Len(<<x>>) = 1 /\ <<x>>[1] = x
      OBVIOUS
    <3> QED
      BY <3>1, <3>2
  <2>2. r = c \o b
    OBVIOUS
  <2> HIDE DEF r, b, c
  <2>3. b \in Seq(S \cup {x}) /\ Len(b) = Len(s) - p + 1
        /\ \A i \in 1..(Len(s) - p + 1) : b[i] = s[p + i - 1]
    BY <1>3 DEF b
  <2>4. r \in Seq(S \cup {x}) /\ Len(r) = Len(s) + 1 /\ \A i \in 1..p : r[i] = c[i]
    BY <2>1, <2>2, <2>3, <1>1
  <2>5. ASSUME NEW i \in (p + 1)..(Len(s) + 1) PROVE r[i] = s[i - 1]
    <3>1. i - p \in 1..(Len(s) - p + 1) /\ i = p + (i - p) /\ p + (i - p) - 1 = i - 1
      BY <1>1
    <3>2. r[i] = b[i - p]
      BY <3>1, <2>1, <2>2, <2>3
    <3> QED
      BY <3>1, <3>2, <2>3
  <2>6. p \in 1..p /\ \A i \in 1..(p - 1) : i \in 1..p
    OBVIOUS
  <2> QED
    BY <2>1, <2>4, <2>5, <2>6
<1>5. r = InsertAt(s, p, x)
  BY DEF InsertAt
<1> HIDE DEF r
<1>6. ASSUME NEW i \in 1..Len(r)
      PROVE  \/ i = p /\ r[i] = x
             \/ i < p /\ i \in 1..Len(s) /\ r[i] = s[i] /\ r[i] \in S
             \/ i > p /\ i - 1 \in 1..Len(s) /\ r[i] = s[i - 1] /\ r[i] \in S
  <2>1. s \in Seq(S)
    BY DEF Lists
  <2> QED
    BY <2>1, <1>1, <1>4
<1>7. ASSUME NEW i \in 1..Len(r), NEW j \in 1..Len(r), r[i] = r[j] PROVE i = j
  <2>1. \A k, l \in 1..Len(s) : s[k] = s[l] => k = l
    BY DEF Lists
  <2>2. CASE i = p
    BY <2>2, <1>6, <1>7
  <2>3. CASE i < p
    BY <2>3, <2>1, <1>6, <1>7
  <2>4. CASE i > p
    BY <2>4, <2>1, <1>6, <1>7
  <2> QED
    BY <2>2, <2>3, <2>4, <1>1, <1>4
<1>8. ASSUME NEW y \in S \cup {x} PROVE \E i \in 1..Len(r) : r[i] = y
  <2>1. CASE y = x
    BY <2>1, <1>1, <1>4
  <2>2. CASE y \in S
    <3>1. PICK i \in 1..Len(s) : s[i] = y
      BY <2>2 DEF Lists
    <3>2. CASE i < p
      BY <3>1, <3>2, <1>1, <1>4
    <3>3. CASE ~(i < p)
      <4>1. i + 1 \in (p + 1)..(Len(s) + 1) /\ i + 1 \in 1..Len(r) /\ (i + 1) - 1 = i
        BY <3>3, <1>1, <1>4
      <4> QED
        BY <4>1, <3>1, <1>4
    <3> QED
      BY <3>2, <3>3
  <2> QED
    BY <2>1, <2>2
<1> QED
  BY <1>4, <1>5, <1>7, <1>8 DEF Lists

\* The images of a list under a one-to-one function.
LEMMA ImageLists ==
    ASSUME NEW q, NEW Q, Lists(q, Q), NEW f, \A x, y \in Q : f[x] = f[y] => x = y,
           NEW r, r = [i \in DOMAIN q |-> r[i]], \A i \in DOMAIN q : r[i] = f[q[i]],
           NEW I, \A x \in Q : f[x] \in I, \A y \in I : \E x \in Q : y = f[x]
    PROVE  Lists(r, I)
<1>1. q \in Seq(Q) /\ Len(q) \in Nat /\ DOMAIN q = 1..Len(q) /\ \A i \in 1..Len(q) : q[i] \in Q
  BY DEF Lists
<1>2. r \in Seq(I) /\ Len(r) = Len(q) /\ \A i \in 1..Len(q) : r[i] = f[q[i]]
  BY <1>1
<1>3. ASSUME NEW y \in I PROVE \E i \in 1..Len(r) : r[i] = y
  <2>1. PICK x \in Q : y = f[x]
    OBVIOUS
  <2>2. PICK i \in 1..Len(q) : q[i] = x
    BY DEF Lists
  <2> QED
    BY <2>1, <2>2, <1>2
<1>4. ASSUME NEW i \in 1..Len(r), NEW j \in 1..Len(r), r[i] = r[j] PROVE i = j
  BY <1>1, <1>2, <1>4 DEF Lists
<1> QED
  BY <1>2, <1>3, <1>4 DEF Lists

\* The order of a document is a list of its tasks, and there are finitely many.
LEMMA ListsCount ==
    ASSUME NEW s, NEW S
    PROVE  (s \in Seq(S) /\ Len(s) = Cardinality(S) /\ ToSet(s) = S) <=> Lists(s, S)
<1>1. ASSUME s \in Seq(S), Len(s) = Cardinality(S), ToSet(s) = S PROVE Lists(s, S)
  <2>1. s \in [1..Len(s) -> S] /\ DOMAIN s = 1..Len(s) /\ Len(s) \in Nat
    BY <1>1
  <2>2. \A x \in S : \E i \in 1..Len(s) : s[i] = x
    BY <1>1, <2>1 DEF ToSet
  <2>3. s \in Surjection(1..Len(s), S)
    BY <2>1, <2>2 DEF Surjection
  <2>4. IsFiniteSet(1..Len(s)) /\ Cardinality(1..Len(s)) = Len(s)
    <3>1. 1 \in Int /\ Len(s) \in Int /\ (IF 1 > Len(s) THEN 0 ELSE Len(s) - 1 + 1) = Len(s)
      BY <2>1
    <3> QED
      BY <3>1, FS_Interval
  <2>5. s \in Injection(1..Len(s), S)
    BY <2>3, <2>4, <1>1, FS_SurjSameCardinalityImpliesInj
  <2> QED
    BY <1>1, <2>2, <2>5 DEF Lists, Injection, IsInjective
<1>2. ASSUME Lists(s, S) PROVE s \in Seq(S) /\ Len(s) = Cardinality(S) /\ ToSet(s) = S
  <2>1. s \in [1..Len(s) -> S] /\ DOMAIN s = 1..Len(s) /\ Len(s) \in Nat
    BY <1>2 DEF Lists
  <2>2. s \in Surjection(1..Len(s), S) /\ s \in Injection(1..Len(s), S)
    BY <2>1, <1>2 DEF Lists, Surjection, Injection, IsInjective
  <2>3. IsFiniteSet(1..Len(s)) /\ Cardinality(1..Len(s)) = Len(s)
    <3>1. 1 \in Int /\ Len(s) \in Int /\ (IF 1 > Len(s) THEN 0 ELSE Len(s) - 1 + 1) = Len(s)
      BY <2>1
    <3> QED
      BY <3>1, FS_Interval
  <2>4. Cardinality(S) = Len(s)
    BY <2>2, <2>3, FS_Surjection
  <2>5. ToSet(s) = S
    BY <2>1, <1>2 DEF ToSet, Lists
  <2> QED
    BY <1>2, <2>4, <2>5 DEF Lists
<1> QED
  BY <1>1, <1>2

\* So what is listed is finite.
LEMMA ListsFinite ==
    ASSUME NEW s, NEW S, Lists(s, S)
    PROVE  IsFiniteSet(S)
<1>1. s \in [1..Len(s) -> S] /\ Len(s) \in Nat
  BY DEF Lists
<1>2. s \in Surjection(1..Len(s), S)
  BY <1>1 DEF Lists, Surjection
<1>3. IsFiniteSet(1..Len(s))
  BY <1>1, FS_Interval
<1> QED
  BY <1>2, <1>3, FS_Surjection


-----------------------------------------------------------------------------

\* What a task is in.

\* No task is in itself: tasks that are all in one another are none.
Acyclic(T) == \A S \in SUBSET DOMAIN T : (\A x \in S : T[x].at \in S) => S = {}

\* f has, for every task, what it is in up to m times, for m up to n.
Ups(f, d, n) ==
    f = [m \in 0..n |-> [x \in DOMAIN d.tasks |->
            IF m = 0 \/ ~Has(d.tasks, d.tasks[x].at) THEN {x}
            ELSE {x} \cup f[m - 1][d.tasks[x].at]]]

\* Once more.
LEMMA UpsMore ==
    ASSUME NEW d, NEW n \in Nat, n # 0, \E f : Ups(f, d, n - 1)
    PROVE  \E g : Ups(g, d, n)
<1>1. PICK f : Ups(f, d, n - 1)
  OBVIOUS
<1> DEFINE more == [x \in DOMAIN d.tasks |->
                      IF n = 0 \/ ~Has(d.tasks, d.tasks[x].at) THEN {x}
                      ELSE {x} \cup f[n - 1][d.tasks[x].at]]
           g == [m \in 0..n |-> IF m = n THEN more ELSE f[m]]
<1>2. ASSUME NEW m \in 0..n
      PROVE  g[m] = [x \in DOMAIN d.tasks |->
                        IF m = 0 \/ ~Has(d.tasks, d.tasks[x].at) THEN {x}
                        ELSE {x} \cup g[m - 1][d.tasks[x].at]]
  <2> HIDE DEF more
  <2>1. CASE m = n
    <3>1. n - 1 \in 0..n /\ n - 1 # n
      OBVIOUS
    <3>2. g[n - 1] = f[n - 1] /\ g[n] = more
      BY <3>1
    <3> QED
      BY <2>1, <3>2 DEF more
  <2>2. CASE m # n
    <3>1. m \in 0..(n - 1) /\ g[m] = f[m]
      BY <2>2
    <3>2. f[m] = [x \in DOMAIN d.tasks |->
                     IF m = 0 \/ ~Has(d.tasks, d.tasks[x].at) THEN {x}
                     ELSE {x} \cup f[m - 1][d.tasks[x].at]]
      BY <1>1, <3>1 DEF Ups
    <3>3. m # 0 => g[m - 1] = f[m - 1]
      BY <3>1
    <3>4. CASE m = 0
      BY <3>1, <3>2, <3>4
    <3>5. CASE m # 0
      BY <3>1, <3>2, <3>3, <3>5
    <3> QED
      BY <3>4, <3>5
  <2> QED
    BY <2>1, <2>2
<1>3. Ups(g, d, n)
  <2> HIDE DEF more
  <2>1. g = [m \in 0..n |-> g[m]]
    OBVIOUS
  <2> HIDE DEF g
  <2> QED
    BY <2>1, <1>2 DEF Ups
<1> QED
  BY <1>3

\* They are there for every number of steps up.
LEMMA UpsExist ==
    ASSUME NEW d, NEW n \in Nat
    PROVE  \E f : Ups(f, d, n)
<1> DEFINE T == {m \in 0..n : \E f : Ups(f, d, m)}
<1>1. 0 \in T
  <2> DEFINE f == [m \in 0..0 |-> [x \in DOMAIN d.tasks |-> {x}]]
  <2>1. \A m \in 0..0 : m = 0
    OBVIOUS
  <2>2. Ups(f, d, 0)
    BY <2>1 DEF Ups
  <2> QED
    BY <2>2
<1>2. ASSUME NEW m \in 0..n, m # 0, m - 1 \in T PROVE m \in T
  BY <1>2, UpsMore
<1>3. 0..n \subseteq T
  <2> HIDE DEF T
  <2> QED
    BY <1>1, <1>2, UpTo
<1> QED
  BY <1>3

\* Chain is what its recursive definition says.
LEMMA ChainIsUps ==
    ASSUME NEW d, IsFiniteSet(DOMAIN d.tasks)
    PROVE  /\ Cardinality(DOMAIN d.tasks) \in Nat
           /\ \E f : /\ Ups(f, d, Cardinality(DOMAIN d.tasks))
                     /\ \A t : Chain(d, t) = f[Cardinality(DOMAIN d.tasks)][t]
<1> DEFINE N == Cardinality(DOMAIN d.tasks)
           up == CHOOSE f : f = [m \in 0..N |-> [x \in DOMAIN d.tasks |->
                    IF m = 0 \/ ~Has(d.tasks, d.tasks[x].at) THEN {x}
                    ELSE {x} \cup f[m - 1][d.tasks[x].at]]]
<1>1. N \in Nat
  BY FS_CardinalityType
<1>2. Ups(up, d, N)
  <2>1. \E f : Ups(f, d, N)
    BY <1>1, UpsExist
  <2>2. up = CHOOSE f : Ups(f, d, N)
    BY DEF Ups
  <2> HIDE DEF up
  <2> QED
    BY <2>1, <2>2
<1>3. \A t : Chain(d, t) = up[N][t]
  BY DEF Chain
<1> HIDE DEF up
<1> QED
  BY <1>1, <1>2, <1>3

\* A step of Ups.
Climbs(f, d, m, x) ==
    f[m][x] = IF m = 0 \/ ~Has(d.tasks, d.tasks[x].at) THEN {x}
              ELSE {x} \cup f[m - 1][d.tasks[x].at]

\* One step up.
LEMMA UpsStep ==
    ASSUME NEW d, NEW n \in Nat, NEW f, Ups(f, d, n)
    PROVE  \A m \in 0..n : \A x \in DOMAIN d.tasks : Climbs(f, d, m, x)
<1> SUFFICES ASSUME NEW m \in 0..n, NEW x \in DOMAIN d.tasks PROVE Climbs(f, d, m, x)
  OBVIOUS
<1>1. f[m] = [y \in DOMAIN d.tasks |->
                IF m = 0 \/ ~Has(d.tasks, d.tasks[y].at) THEN {y}
                ELSE {y} \cup f[m - 1][d.tasks[y].at]]
  BY DEF Ups
<1> QED
  BY <1>1 DEF Climbs

\* S reaches a task that is in no other, and from then on a chain stays.
Top(d, S) == \E y \in S : ~Has(d.tasks, d.tasks[y].at)

\* What has reached one stays there.
Settled(f, d, m, x) == Top(d, f[m][x]) => f[m + 1][x] = f[m][x]

\* Once it has come to the top it stays as it is.
LEMMA UpsSettle ==
    ASSUME NEW d, NEW n \in Nat, NEW f, Ups(f, d, n)
    PROVE  \A m \in 0..n : m # n => \A x \in DOMAIN d.tasks : Settled(f, d, m, x)
<1> DEFINE P(m) == m # n => \A x \in DOMAIN d.tasks : Settled(f, d, m, x)
           T == {m \in 0..n : P(m)}
<1>0. \A k \in 0..n : \A y \in DOMAIN d.tasks : Climbs(f, d, k, y)
  BY UpsStep
<1>1. 0 \in T
  <2> SUFFICES ASSUME 0 # n, NEW x \in DOMAIN d.tasks, Top(d, f[0][x])
               PROVE  f[0 + 1][x] = f[0][x]
    BY DEF Settled
  <2>1. f[0][x] = {x} /\ 0 \in 0..n
    <3>1. 0 \in 0..n
      OBVIOUS
    <3>2. Climbs(f, d, 0, x)
      BY <3>1, <1>0
    <3> QED
      BY <3>1, <3>2 DEF Climbs
  <2>2. ~Has(d.tasks, d.tasks[x].at)
    BY <2>1 DEF Top
  <2>3. 1 \in 0..n /\ 0 + 1 = 1
    OBVIOUS
  <2>4. f[1][x] = {x}
    BY <1>0, <2>2, <2>3 DEF Climbs
  <2> QED
    BY <2>1, <2>3, <2>4
<1>2. ASSUME NEW m \in 0..n, m # 0, m - 1 \in T PROVE m \in T
  <2> SUFFICES ASSUME m # n, NEW x \in DOMAIN d.tasks, Top(d, f[m][x])
               PROVE  f[m + 1][x] = f[m][x]
    BY DEF Settled
  <2>1. m + 1 \in 0..n /\ m + 1 # 0 /\ (m + 1) - 1 = m
    BY <1>2
  <2>2. CASE ~Has(d.tasks, d.tasks[x].at)
    <3>1. f[m + 1][x] = {x} /\ f[m][x] = {x}
      BY <1>0, <2>1, <2>2 DEF Climbs
    <3> QED
      BY <3>1
  <2>3. CASE Has(d.tasks, d.tasks[x].at)
    <3>1. f[m][x] = {x} \cup f[m - 1][d.tasks[x].at]
      BY <1>0, <1>2, <2>3 DEF Climbs
    <3>2. f[m + 1][x] = {x} \cup f[m][d.tasks[x].at]
      <4>1. Climbs(f, d, m + 1, x)
        BY <1>0, <2>1
      <4> QED
        BY <4>1, <2>1, <2>3 DEF Climbs
    <3>3. Top(d, f[m - 1][d.tasks[x].at])
      BY <2>3, <3>1 DEF Top
    <3>4. m - 1 # n /\ (m - 1) + 1 = m
      BY <1>2
    <3>5. f[m][d.tasks[x].at] = f[m - 1][d.tasks[x].at]
      BY <1>2, <2>3, <3>3, <3>4 DEF Has, Settled
    <3> QED
      BY <3>1, <3>2, <3>5
  <2> QED
    BY <2>2, <2>3
<1>3. 0..n \subseteq T
  <2> HIDE DEF T
  <2> QED
    BY <1>1, <1>2, UpTo
<1> QED
  BY <1>3

\* A chain is the task and the chain of what it is in.
LEMMA ChainEquation ==
    ASSUME NEW d, IsFiniteSet(DOMAIN d.tasks), Rooted(d), NEW x \in DOMAIN d.tasks
    PROVE  Chain(d, x) = IF Has(d.tasks, d.tasks[x].at) THEN {x} \cup Chain(d, d.tasks[x].at) ELSE {x}
<1> DEFINE N == Cardinality(DOMAIN d.tasks)
<1>1. PICK f : Ups(f, d, N) /\ \A t : Chain(d, t) = f[N][t]
  BY ChainIsUps
<1>2. N \in Nat /\ (x \in DOMAIN d.tasks => N # 0)
  BY ChainIsUps, FS_EmptySet
<1> HIDE DEF N
<1>0. \A k \in 0..N : \A y \in DOMAIN d.tasks : Climbs(f, d, k, y)
  BY <1>1, <1>2, UpsStep
<1>3. CASE ~Has(d.tasks, d.tasks[x].at)
  <2>1. N \in 0..N
    BY <1>2
  <2>2. Climbs(f, d, N, x)
    BY <1>0, <2>1
  <2>3. f[N][x] = {x}
    BY <1>3, <2>2 DEF Climbs
  <2> QED
    BY <1>1, <1>3, <2>3
<1>4. CASE Has(d.tasks, d.tasks[x].at)
  <2>1. f[N][x] = {x} \cup f[N - 1][d.tasks[x].at]
    <3>1. N \in 0..N
      BY <1>2
    <3>2. Climbs(f, d, N, x)
      BY <1>0, <3>1
    <3> QED
      BY <1>2, <1>4, <3>2 DEF Climbs
  <2>2. Top(d, f[N - 1][d.tasks[x].at])
    BY <1>1, <1>4, <2>1 DEF Rooted, Top
  <2>3. N - 1 \in 0..N /\ N - 1 # N /\ (N - 1) + 1 = N
    BY <1>2
  <2>4. f[N][d.tasks[x].at] = f[N - 1][d.tasks[x].at]
    <3>1. \A m \in 0..N : m # N => \A y \in DOMAIN d.tasks : Settled(f, d, m, y)
      BY <1>1, <1>2, UpsSettle
    <3>2. d.tasks[x].at \in DOMAIN d.tasks
      BY <1>4 DEF Has
    <3> QED
      BY <3>1, <3>2, <2>2, <2>3 DEF Settled
  <2> QED
    BY <1>1, <1>4, <2>1, <2>4
<1> QED
  BY <1>3, <1>4

\* When every chain has a top, no task is in itself.
LEMMA RootedIsAcyclic ==
    ASSUME NEW d, IsFiniteSet(DOMAIN d.tasks), Rooted(d)
    PROVE  Acyclic(d.tasks)
<1> SUFFICES ASSUME NEW S \in SUBSET DOMAIN d.tasks, \A x \in S : d.tasks[x].at \in S,
                    NEW t \in S
             PROVE  FALSE
  BY DEF Acyclic
<1> DEFINE N == Cardinality(DOMAIN d.tasks)
<1>1. PICK f : Ups(f, d, N) /\ \A x : Chain(d, x) = f[N][x]
  BY ChainIsUps
<1>2. N \in Nat
  BY ChainIsUps
<1> HIDE DEF N
<1>0. \A k \in 0..N : \A y \in DOMAIN d.tasks : Climbs(f, d, k, y)
  BY <1>1, <1>2, UpsStep
<1> DEFINE T == {m \in 0..N : \A x \in S : f[m][x] \subseteq S}
<1>3. 0 \in T
  <2>1. ASSUME NEW x \in S PROVE f[0][x] = {x}
    <3>1. 0 \in 0..N
      BY <1>2
    <3>2. Climbs(f, d, 0, x)
      BY <1>0, <3>1
    <3> QED
      BY <3>2 DEF Climbs
  <2> QED
    BY <1>2, <2>1
<1>4. ASSUME NEW m \in 0..N, m # 0, m - 1 \in T PROVE m \in T
  <2> SUFFICES ASSUME NEW x \in S PROVE f[m][x] \subseteq S
    OBVIOUS
  <2>1. f[m - 1][d.tasks[x].at] \subseteq S
    BY <1>4
  <2>2. Climbs(f, d, m, x)
    BY <1>0
  <2> QED
    BY <2>1, <2>2 DEF Climbs
<1>5. Chain(d, t) \subseteq S
  <2>1. 0..N \subseteq T
    <3> HIDE DEF T
    <3> QED
      BY <1>2, <1>3, <1>4, UpTo
  <2>2. N \in T
    BY <2>1, <1>2
  <2> QED
    BY <2>2, <1>1
<1> QED
  BY <1>5 DEF Rooted, Has

\* When no task is in itself, every chain has a top: each time up, another
\* task comes to its top, until all have.
LEMMA AcyclicIsRooted ==
    ASSUME NEW d, IsFiniteSet(DOMAIN d.tasks), Acyclic(d.tasks)
    PROVE  Rooted(d)
<1> DEFINE N == Cardinality(DOMAIN d.tasks)
<1>1. PICK f : Ups(f, d, N) /\ \A x : Chain(d, x) = f[N][x]
  BY ChainIsUps
<1>2. N \in Nat
  BY ChainIsUps
<1>0. \A k \in 0..N : \A y \in DOMAIN d.tasks : Climbs(f, d, k, y)
  BY <1>1, <1>2, UpsStep
<1>s. \A m \in 0..N : m # N => \A y \in DOMAIN d.tasks : Settled(f, d, m, y)
  BY <1>1, <1>2, UpsSettle
<1> DEFINE D(m) == {x \in DOMAIN d.tasks : Top(d, f[m][x])}
           P(m) == D(m) = DOMAIN d.tasks \/ Cardinality(D(m)) >= m
           T == {m \in 0..N : P(m)}
<1>3. ASSUME NEW m \in 0..N PROVE IsFiniteSet(D(m)) /\ Cardinality(D(m)) \in Nat
  <2>1. D(m) \in SUBSET DOMAIN d.tasks
    OBVIOUS
  <2> QED
    BY <2>1, FS_Subset, FS_CardinalityType
<1>4. 0 \in T
  BY <1>2, <1>3
<1>5. ASSUME NEW m \in 0..N, m # 0, m - 1 \in T PROVE m \in T
  <2>1. m - 1 \in 0..N /\ m - 1 # N /\ (m - 1) + 1 = m
    BY <1>2, <1>5
  <2>2. D(m - 1) \subseteq D(m)
    <3> SUFFICES ASSUME NEW x \in DOMAIN d.tasks, Top(d, f[m - 1][x]) PROVE Top(d, f[m][x])
      OBVIOUS
    <3>1. f[m][x] = f[m - 1][x]
      BY <1>s, <2>1 DEF Settled
    <3> QED
      BY <3>1
  <2>3. CASE D(m - 1) = DOMAIN d.tasks
    BY <2>2, <2>3
  <2>4. CASE D(m - 1) # DOMAIN d.tasks
    <3> DEFINE S == DOMAIN d.tasks \ D(m - 1)
    <3>1. S \in SUBSET DOMAIN d.tasks /\ S # {}
      BY <2>4
    <3>2. PICK x \in S : d.tasks[x].at \notin S
      BY <3>1 DEF Acyclic
    <3>3. x \in DOMAIN d.tasks /\ x \notin D(m - 1)
      OBVIOUS
    <3>4. Has(d.tasks, d.tasks[x].at)
      <4>1. ~Has(d.tasks, d.tasks[x].at) => f[m - 1][x] = {x}
        BY <1>0, <2>1, <3>3 DEF Climbs
      <4> QED
        BY <4>1, <3>3 DEF Top
    <3>5. d.tasks[x].at \in D(m - 1)
      BY <3>2, <3>4 DEF Has
    <3>6. f[m][x] = {x} \cup f[m - 1][d.tasks[x].at]
      BY <1>0, <1>5, <3>3, <3>4 DEF Climbs
    <3>7. x \in D(m)
      BY <3>3, <3>5, <3>6 DEF Top
    <3> HIDE DEF S, D
    <3>8. D(m - 1) \in SUBSET D(m) /\ D(m - 1) # D(m)
      BY <2>2, <3>3, <3>7
    <3>9. Cardinality(D(m - 1)) < Cardinality(D(m))
      BY <1>3, <2>1, <3>8, FS_Subset
    <3>10. Cardinality(D(m - 1)) >= m - 1
      BY <1>5, <2>4
    <3>11. Cardinality(D(m)) >= m
      BY <3>9, <3>10, <1>3, <2>1
    <3> QED
      BY <3>11
  <2> QED
    BY <2>3, <2>4
<1>6. P(N)
  <2>1. 0..N \subseteq T
    <3> HIDE DEF T
    <3> QED
      BY <1>2, <1>4, <1>5, UpTo
  <2> QED
    BY <2>1, <1>2
<1>7. D(N) = DOMAIN d.tasks
  <2>1. D(N) \in SUBSET DOMAIN d.tasks /\ N \in 0..N
    BY <1>2
  <2>2. Cardinality(D(N)) <= N /\ (Cardinality(D(N)) = N => D(N) = DOMAIN d.tasks)
    <3> HIDE DEF D
    <3> QED
      BY <2>1, FS_Subset
  <2> HIDE DEF D
  <2> QED
    BY <1>2, <1>3, <1>6, <2>1, <2>2
<1> QED
  BY <1>1, <1>7 DEF Rooted, Top

-----------------------------------------------------------------------------

\* The tasks of a document that are at the top of what x is in.
Tops(d, x) == {y \in Chain(d, x) : ~Has(d.tasks, d.tasks[y].at)}

\* A chain has one top.
LEMMA OneTop ==
    ASSUME NEW d, IsFiniteSet(DOMAIN d.tasks), Rooted(d), NEW x \in DOMAIN d.tasks
    PROVE  \E y : Tops(d, x) = {y}
<1> DEFINE S == {z \in DOMAIN d.tasks : ~ \E y : Tops(d, z) = {y}}
<1>1. ASSUME NEW z \in S PROVE d.tasks[z].at \in S
  <2>1. CASE Has(d.tasks, d.tasks[z].at)
    <3>1. Chain(d, z) = {z} \cup Chain(d, d.tasks[z].at)
      BY <2>1, ChainEquation
    <3>2. Tops(d, z) = Tops(d, d.tasks[z].at)
      BY <2>1, <3>1 DEF Tops
    <3> QED
      BY <2>1, <3>2 DEF Has
  <2>2. CASE ~Has(d.tasks, d.tasks[z].at)
    <3>1. Chain(d, z) = {z}
      BY <2>2, ChainEquation
    <3>2. Tops(d, z) = {z}
      BY <2>2, <3>1 DEF Tops
    <3> QED
      BY <3>2
  <2> QED
    BY <2>1, <2>2
<1>2. S \in SUBSET DOMAIN d.tasks
  OBVIOUS
<1>3. S = {}
  <2> HIDE DEF S
  <2> QED
    BY <1>1, <1>2, RootedIsAcyclic DEF Acyclic
<1> QED
  BY <1>3

\* The project of a task is that of the task it is in, or the one it is in.
LEMMA ProjectUp ==
    ASSUME NEW d, IsFiniteSet(DOMAIN d.tasks), Rooted(d), NEW x \in DOMAIN d.tasks
    PROVE  ProjectOf(d, x) = LET c == d.tasks[x].at IN
               IF Has(d.tasks, c) THEN ProjectOf(d, c) ELSE IF Has(d.projects, c) THEN c ELSE None
<1>1. ASSUME NEW z \in DOMAIN d.tasks
      PROVE  \E y : /\ Tops(d, z) = {y}
                    /\ ProjectOf(d, z) = IF Has(d.projects, d.tasks[y].at) THEN d.tasks[y].at ELSE None
  <2>1. PICK y : Tops(d, z) = {y}
    BY OneTop
  <2> DEFINE root == CHOOSE w \in Chain(d, z) : ~Has(d.tasks, d.tasks[w].at)
  <2>2. root = y
    <3>1. \A w : (w \in Chain(d, z) /\ ~Has(d.tasks, d.tasks[w].at)) <=> w = y
      BY <2>1 DEF Tops
    <3> QED
      BY <3>1
  <2>3. ProjectOf(d, z) = IF Has(d.projects, d.tasks[root].at) THEN d.tasks[root].at ELSE None
    BY DEF ProjectOf
  <2> HIDE DEF root
  <2> QED
    BY <2>1, <2>2, <2>3
<1>2. CASE Has(d.tasks, d.tasks[x].at)
  <2>1. Chain(d, x) = {x} \cup Chain(d, d.tasks[x].at)
    BY <1>2, ChainEquation
  <2>2. Tops(d, x) = Tops(d, d.tasks[x].at)
    BY <1>2, <2>1 DEF Tops
  <2>3. d.tasks[x].at \in DOMAIN d.tasks
    BY <1>2 DEF Has
  <2>4. PICK y : /\ Tops(d, x) = {y}
                 /\ ProjectOf(d, x) = IF Has(d.projects, d.tasks[y].at) THEN d.tasks[y].at ELSE None
    BY <1>1
  <2>5. PICK v : /\ Tops(d, d.tasks[x].at) = {v}
                 /\ ProjectOf(d, d.tasks[x].at) = IF Has(d.projects, d.tasks[v].at) THEN d.tasks[v].at ELSE None
    BY <1>1, <2>3
  <2>6. y = v
    BY <2>2, <2>4, <2>5
  <2> QED
    BY <1>2, <2>4, <2>5, <2>6
<1>3. CASE ~Has(d.tasks, d.tasks[x].at)
  <2>1. Chain(d, x) = {x}
    BY <1>3, ChainEquation
  <2>2. Tops(d, x) = {x}
    BY <1>3, <2>1 DEF Tops
  <2>3. PICK y : /\ Tops(d, x) = {y}
                 /\ ProjectOf(d, x) = IF Has(d.projects, d.tasks[y].at) THEN d.tasks[y].at ELSE None
    BY <1>1
  <2>4. y = x
    BY <2>2, <2>3
  <2> QED
    BY <1>3, <2>3, <2>4
<1> QED
  BY <1>2, <1>3

-----------------------------------------------------------------------------

\* A document, field by field.

IsRecord(d) == d = [k \in DocFields |-> d[k]]

\* What Sound says, for each of the functions: ids that were given, rows that
\* name what there is.
GivenIds(f, used) == f = [id \in DOMAIN f |-> f[id]] /\ DOMAIN f \subseteq used

\* A task is in a project, in a task or in the inbox, and has tags that are there.
TaskRows(T, P, G) ==
    \A t \in DOMAIN T : /\ {"at", "tags"} \subseteq DOMAIN T[t]
                        /\ T[t].at \in {Inbox} \cup DOMAIN P \cup DOMAIN T
                        /\ T[t].tags \subseteq DOMAIN G

\* A project is in a folder or at the top.
ProjectRows(P, F, G) ==
    \A p \in DOMAIN P : /\ {"folder", "tags"} \subseteq DOMAIN P[p]
                        /\ P[p].folder \in {None} \cup DOMAIN F
                        /\ P[p].tags \subseteq DOMAIN G

\* A tag or a folder is in another or at the top.
ParentRows(G) == \A g \in DOMAIN G : "parent" \in DOMAIN G[g] /\ G[g].parent \in {None} \cup DOMAIN G

\* All of it, for the parts of a document.
Parts(T, O, P, G, F, used) ==
    /\ GivenIds(T, used) /\ GivenIds(P, used) /\ GivenIds(G, used) /\ GivenIds(F, used)
    /\ TaskRows(T, P, G) /\ ProjectRows(P, F, G) /\ ParentRows(G) /\ ParentRows(F)
    /\ Acyclic(T) /\ Lists(O, DOMAIN T)

\* It is what makes a document one.
LEMMA SoundIsParts ==
    ASSUME NEW d
    PROVE  Sound(d) <=> IsRecord(d) /\ Parts(d.tasks, d.order, d.projects, d.tags, d.folders, d.used)
<1>1. Ordered(d) <=> Lists(d.order, DOMAIN d.tasks)
  BY ListsCount DEF Ordered
<1>2. Lists(d.order, DOMAIN d.tasks) => (Rooted(d) <=> Acyclic(d.tasks))
  BY ListsFinite, RootedIsAcyclic, AcyclicIsRooted
<1>3. IsDocument(d) <=> /\ IsRecord(d) /\ GivenIds(d.tasks, d.used) /\ GivenIds(d.projects, d.used)
                        /\ GivenIds(d.tags, d.used) /\ GivenIds(d.folders, d.used)
  BY DEF IsDocument, IsRecord, GivenIds
<1>4. SoundRows(d) <=> /\ TaskRows(d.tasks, d.projects, d.tags)
                       /\ ProjectRows(d.projects, d.folders, d.tags)
                       /\ ParentRows(d.tags) /\ ParentRows(d.folders)
  BY DEF SoundRows, TaskRows, ProjectRows, ParentRows
<1> QED
  BY <1>1, <1>2, <1>3, <1>4 DEF Sound, Parts

\* The fields of an edited document.
LEMMA Edited ==
    ASSUME NEW d, IsRecord(d), NEW k \in DocFields, NEW v
    PROVE  /\ IsRecord([d EXCEPT ![k] = v])
           /\ \A j \in DocFields : [d EXCEPT ![k] = v][j] = IF j = k THEN v ELSE d[j]
<1> DEFINE e == [d EXCEPT ![k] = v]
<1>1. DOMAIN d = DocFields
  BY DEF IsRecord
<1>2. e = [j \in DocFields |-> IF j = k THEN v ELSE d[j]]
  BY <1>1
<1>3. \A j \in DocFields : e[j] = IF j = k THEN v ELSE d[j]
  BY <1>2
<1> HIDE DEF e
<1>4. IsRecord(e)
  BY <1>2 DEF IsRecord
<1> QED
  BY <1>3, <1>4 DEF e

\* An entry of a function, replaced, added and taken away.
LEMMA Entries ==
    ASSUME NEW f, NEW id, NEW v, NEW S
    PROVE  /\ DOMAIN With(f, id, v) = DOMAIN f \cup {id}
           /\ With(f, id, v) = [x \in DOMAIN f \cup {id} |-> IF x = id THEN v ELSE f[x]]
           /\ DOMAIN Without(f, S) = DOMAIN f \ S
           /\ Without(f, S) = [x \in DOMAIN f \ S |-> f[x]]
BY DEF With, Without, Restrict

\* Rows that stay where they are.
LEMMA RowsStay ==
    ASSUME NEW T, NEW O, NEW P, NEW G, NEW F, NEW U, Parts(T, O, P, G, F, U),
           NEW R, R = [t \in DOMAIN T |-> R[t]],
           \A t \in DOMAIN T : /\ {"at", "tags"} \subseteq DOMAIN R[t]
                               /\ R[t].at = T[t].at /\ R[t].tags \subseteq DOMAIN G
    PROVE  Parts(R, O, P, G, F, U)
<1>1. DOMAIN R = DOMAIN T
  OBVIOUS
<1>2. GivenIds(R, U) /\ TaskRows(R, P, G)
  BY <1>1 DEF Parts, GivenIds, TaskRows
<1>3. Acyclic(R)
  BY <1>1 DEF Parts, Acyclic
<1> QED
  BY <1>1, <1>2, <1>3 DEF Parts

\* Another order.
LEMMA Reordered ==
    ASSUME NEW T, NEW O, NEW P, NEW G, NEW F, NEW U, Parts(T, O, P, G, F, U),
           NEW Q, Lists(Q, DOMAIN T)
    PROVE  Parts(T, Q, P, G, F, U)
BY DEF Parts

\* Ids that were given and are of nothing in a document.
LEMMA MoreUsed ==
    ASSUME NEW T, NEW O, NEW P, NEW G, NEW F, NEW U, Parts(T, O, P, G, F, U), NEW V, U \subseteq V
    PROVE  Parts(T, O, P, G, F, V)
BY DEF Parts, GivenIds

\* What a task may be in.
Containers(T, P) == {Inbox} \cup DOMAIN P \cup DOMAIN T

\* A new task.
LEMMA TaskAdded ==
    ASSUME NEW T, NEW O, NEW P, NEW G, NEW F, NEW U, Parts(T, O, P, G, F, U),
           NEW t, t \notin U, t # Inbox, NEW row, {"at", "tags"} \subseteq DOMAIN row,
           row.at \in Containers(T, P), row.tags \subseteq DOMAIN G,
           NEW Q, Lists(Q, DOMAIN T \cup {t})
    PROVE  Parts(With(T, t, row), Q, P, G, F, U \cup {t})
<1> DEFINE R == With(T, t, row)
<1>1. R = [x \in DOMAIN T \cup {t} |-> IF x = t THEN row ELSE T[x]]
  BY DEF With
<1>2. DOMAIN R = DOMAIN T \cup {t} /\ R[t] = row /\ \A x \in DOMAIN T : x # t => R[x] = T[x]
  BY <1>1
<1> HIDE DEF R
<1>3. t \notin Containers(T, P)
  BY DEF Parts, GivenIds, Containers
<1>4. t \notin DOMAIN T
  BY DEF Parts, GivenIds
<1>5. GivenIds(R, U \cup {t})
  BY <1>1, <1>2 DEF Parts, GivenIds
<1>6. TaskRows(R, P, G)
  BY <1>2, <1>4 DEF Parts, TaskRows, Containers
<1>7. Acyclic(R)
  <2> SUFFICES ASSUME NEW S \in SUBSET DOMAIN R, \A x \in S : R[x].at \in S
               PROVE  S = {}
    BY DEF Acyclic
  <2>1. \A x \in S \ {t} : x \in DOMAIN T /\ T[x].at \in S \ {t}
    BY <1>2, <1>3 DEF Parts, TaskRows, Containers
  <2>2. S \ {t} = {}
    BY <2>1 DEF Parts, Acyclic
  <2> QED
    BY <2>2, <1>2, <1>3
<1>8. Lists(Q, DOMAIN R)
  <2>1. DOMAIN R = DOMAIN T \cup {t}
    BY <1>2
  <2> QED
    BY <2>1
<1>9. Parts(R, Q, P, G, F, U \cup {t})
  BY <1>5, <1>6, <1>7, <1>8 DEF Parts, GivenIds
<1> QED
  BY <1>9 DEF R

\* Tasks taken away with all that is in them, other than what is a project now.
LEMMA TasksRemoved ==
    ASSUME NEW T, NEW O, NEW P, NEW G, NEW F, NEW U, Parts(T, O, P, G, F, U),
           NEW S, \A x \in DOMAIN T \ S : T[x].at \in S => T[x].at \in DOMAIN P,
           NEW Q, Lists(Q, DOMAIN T \ S)
    PROVE  Parts(Without(T, S), Q, P, G, F, U)
<1> DEFINE R == Without(T, S)
<1>1. R = [x \in DOMAIN T \ S |-> T[x]]
  BY Entries
<1>2. DOMAIN R = DOMAIN T \ S /\ \A x \in DOMAIN T \ S : R[x] = T[x]
  BY <1>1
<1> HIDE DEF R
<1>3. GivenIds(R, U)
  BY <1>1, <1>2 DEF Parts, GivenIds
<1>4. TaskRows(R, P, G)
  <2>1. \A t \in DOMAIN R : T[t].at \in {Inbox} \cup DOMAIN P \cup DOMAIN R
    BY <1>2 DEF Parts, TaskRows
  <2> QED
    BY <2>1, <1>2 DEF Parts, TaskRows
<1>5. Acyclic(R)
  BY <1>2 DEF Parts, Acyclic
<1>6. Parts(R, Q, P, G, F, U)
  BY <1>2, <1>3, <1>4, <1>5 DEF Parts
<1> QED
  BY <1>6 DEF R

\* A task moved.
LEMMA TaskMoved ==
    ASSUME NEW T, NEW O, NEW P, NEW G, NEW F, NEW U, Parts(T, O, P, G, F, U),
           NEW t \in DOMAIN T, NEW at \in Containers(T, P), Acyclic([T EXCEPT ![t].at = at])
    PROVE  Parts([T EXCEPT ![t].at = at], O, P, G, F, U)
<1> DEFINE R == [T EXCEPT ![t].at = at]
<1>1. /\ R = [x \in DOMAIN T |-> R[x]] /\ DOMAIN R = DOMAIN T
      /\ \A x \in DOMAIN T : x # t => R[x] = T[x]
      /\ R[t] = [T[t] EXCEPT !.at = at]
  BY DEF Parts, GivenIds
<1>2. {"at", "tags"} \subseteq DOMAIN T[t]
  BY DEF Parts, TaskRows
<1> HIDE DEF R
<1>3. {"at", "tags"} \subseteq DOMAIN R[t] /\ R[t].at = at /\ R[t].tags = T[t].tags
  BY <1>1, <1>2
<1>4. GivenIds(R, U)
  BY <1>1 DEF Parts, GivenIds
<1>5. TaskRows(R, P, G)
  BY <1>1, <1>3 DEF Parts, TaskRows, Containers
<1>6. Parts(R, O, P, G, F, U)
  BY <1>1, <1>4, <1>5 DEF Parts, R
<1> QED
  BY <1>6 DEF R

\* Other projects: what a task names is one of them still.
LEMMA OtherProjects ==
    ASSUME NEW T, NEW O, NEW P, NEW G, NEW F, NEW U, Parts(T, O, P, G, F, U),
           NEW Q, GivenIds(Q, U), ProjectRows(Q, F, G),
           \A t \in DOMAIN T : T[t].at \in DOMAIN P => T[t].at \in Containers(T, Q)
    PROVE  Parts(T, O, Q, G, F, U)
<1>1. TaskRows(T, Q, G)
  BY DEF Parts, TaskRows, Containers
<1> QED
  BY <1>1 DEF Parts

\* Other tags, all of the old ones among them.
LEMMA OtherTags ==
    ASSUME NEW T, NEW O, NEW P, NEW G, NEW F, NEW U, Parts(T, O, P, G, F, U),
           NEW H, GivenIds(H, U), ParentRows(H), DOMAIN G \subseteq DOMAIN H
    PROVE  Parts(T, O, P, H, F, U)
<1>1. TaskRows(T, P, H)
  BY DEF Parts, TaskRows
<1>2. ProjectRows(P, F, H)
  BY DEF Parts, ProjectRows
<1> QED
  BY <1>1, <1>2 DEF Parts

\* Other folders: what a project names is one of them still.
LEMMA OtherFolders ==
    ASSUME NEW T, NEW O, NEW P, NEW G, NEW F, NEW U, Parts(T, O, P, G, F, U),
           NEW H, GivenIds(H, U), ParentRows(H),
           \A p \in DOMAIN P : P[p].folder \in DOMAIN F => P[p].folder \in DOMAIN H
    PROVE  Parts(T, O, P, G, H, U)
<1>1. ProjectRows(P, H, G)
  BY DEF Parts, ProjectRows
<1> QED
  BY <1>1 DEF Parts

-----------------------------------------------------------------------------

\* A task outside t can be what t is in: no task comes to be in itself.
LEMMA MoveAcyclic ==
    ASSUME NEW d, Lists(d.order, DOMAIN d.tasks), Acyclic(d.tasks),
           NEW t \in DOMAIN d.tasks, NEW at, at \notin Subtree(d, t),
           NEW R, DOMAIN R = DOMAIN d.tasks, \A x \in DOMAIN R : x # t => R[x] = d.tasks[x], R[t].at = at
    PROVE  Acyclic(R)
<1>1. IsFiniteSet(DOMAIN d.tasks) /\ Rooted(d)
  BY ListsFinite, AcyclicIsRooted
<1> SUFFICES ASSUME NEW S \in SUBSET DOMAIN R, \A x \in S : R[x].at \in S
             PROVE  S = {}
  BY DEF Acyclic
<1> DEFINE Out == {x \in S : t \notin Chain(d, x)}
<1>2. ASSUME NEW x \in Out PROVE d.tasks[x].at \in Out
  <2>1. Chain(d, x) = IF Has(d.tasks, d.tasks[x].at) THEN {x} \cup Chain(d, d.tasks[x].at) ELSE {x}
    BY <1>1, ChainEquation
  <2>2. Chain(d, t) = IF Has(d.tasks, d.tasks[t].at) THEN {t} \cup Chain(d, d.tasks[t].at) ELSE {t}
    BY <1>1, ChainEquation
  <2>3. x # t
    BY <2>2
  <2>4. d.tasks[x].at \in S
    BY <2>3
  <2>5. Has(d.tasks, d.tasks[x].at)
    BY <2>4 DEF Has
  <2> QED
    BY <2>1, <2>4, <2>5
<1>3. Out = {}
  <2>1. Out \in SUBSET DOMAIN d.tasks
    OBVIOUS
  <2> HIDE DEF Out
  <2> QED
    BY <1>2, <2>1 DEF Acyclic
<1>4. t \notin S
  BY <1>3 DEF Subtree
<1>5. \A x \in S : d.tasks[x].at \in S
  BY <1>4
<1> QED
  BY <1>5 DEF Acyclic

\* What is in t is closed under what is in it, and t is in it.
LEMMA SubtreeClosed ==
    ASSUME NEW d, Lists(d.order, DOMAIN d.tasks), Acyclic(d.tasks), NEW t \in DOMAIN d.tasks
    PROVE  /\ t \in Subtree(d, t)
           /\ \A x \in DOMAIN d.tasks \ Subtree(d, t) : d.tasks[x].at \notin Subtree(d, t)
           /\ \A x \in Subtree(d, t) \ {t} : d.tasks[x].at \in Subtree(d, t)
<1>1. IsFiniteSet(DOMAIN d.tasks) /\ Rooted(d)
  BY ListsFinite, AcyclicIsRooted
<1>2. ASSUME NEW x \in DOMAIN d.tasks
      PROVE  Chain(d, x) = IF Has(d.tasks, d.tasks[x].at) THEN {x} \cup Chain(d, d.tasks[x].at) ELSE {x}
  BY <1>1, ChainEquation
<1>3. t \in Subtree(d, t)
  BY <1>2 DEF Subtree
<1>4. ASSUME NEW x \in DOMAIN d.tasks \ Subtree(d, t) PROVE d.tasks[x].at \notin Subtree(d, t)
  BY <1>2 DEF Subtree, Has
<1>5. ASSUME NEW x \in Subtree(d, t) \ {t} PROVE d.tasks[x].at \in Subtree(d, t)
  BY <1>2 DEF Subtree, Has
<1> QED
  BY <1>3, <1>4, <1>5

\* A task outside p is in nothing of p.
LEMMA OutsideProject ==
    ASSUME NEW d, Lists(d.order, DOMAIN d.tasks), Acyclic(d.tasks), NEW p, Has(d.projects, p),
           NEW x \in DOMAIN d.tasks \ FlattenedTasks(d, p)
    PROVE  /\ d.tasks[x].at \notin FlattenedTasks(d, p)
           /\ d.tasks[x].at # p \/ p \in DOMAIN d.tasks
<1>1. IsFiniteSet(DOMAIN d.tasks) /\ Rooted(d)
  BY ListsFinite, AcyclicIsRooted
<1>2. ProjectOf(d, x) = LET c == d.tasks[x].at IN
           IF Has(d.tasks, c) THEN ProjectOf(d, c) ELSE IF Has(d.projects, c) THEN c ELSE None
  BY <1>1, ProjectUp
<1> QED
  BY <1>2 DEF FlattenedTasks, Has

\* Where a task may be put in the order.
LEMMA PutLists ==
    ASSUME NEW s, NEW U, Lists(s, U), NEW t \in U
    PROVE  /\ Lists(PutFirst(s, t), U) /\ Lists(PutLast(s, t), U)
           /\ \A ref \in U : \A offset \in {0, 1} : ref # t => Lists(PutBeside(s, t, ref, offset), U)
<1> DEFINE rest == Omitting(s, {t})
<1>1. Lists(rest, U \ {t})
  BY OmittingLists
<1>2. (U \ {t}) \cup {t} = U
  OBVIOUS
<1>3. Lists(PutFirst(s, t), U) /\ Lists(PutLast(s, t), U)
  <2> HIDE DEF rest
  <2>1. Lists(Append(rest, t), U) /\ Lists(<<t>> \o rest, U)
    BY <1>1, <1>2, AppendLists
  <2> QED
    BY <2>1 DEF PutFirst, PutLast, rest
<1>4. ASSUME NEW ref \in U, NEW offset \in {0, 1}, ref # t PROVE Lists(PutBeside(s, t, ref, offset), U)
  <2> DEFINE i == CHOOSE j \in 1..Len(rest) : rest[j] = ref
  <2>1. PutBeside(s, t, ref, offset) = InsertAt(rest, i + offset, t)
    BY DEF PutBeside
  <2>2. \E j \in 1..Len(rest) : rest[j] = ref
    BY <1>1, <1>4 DEF Lists
  <2>3. i \in 1..Len(rest)
    BY <2>2
  <2>4. Len(rest) \in Nat
    BY <1>1 DEF Lists
  <2> HIDE DEF i, rest
  <2>5. i + offset \in 1..(Len(rest) + 1)
    BY <2>3, <2>4
  <2>6. Lists(InsertAt(rest, i + offset, t), U)
    BY <1>1, <1>2, <2>5, InsertLists
  <2> QED
    BY <2>1, <2>6
<1> QED
  BY <1>3, <1>4

\* R has, beside the rows of T, copies of those of S, which are t and in t:
\* of gives their ids, which are those of N, and that of t is in at.
CopyOf(R, T, S, t, of, N, at) ==
    /\ S \in SUBSET DOMAIN T /\ t \in S /\ \A x \in S \ {t} : T[x].at \in S
    /\ N = {of[x] : x \in S} /\ \A x, y \in S : of[x] = of[y] => x = y
    /\ R = [x \in DOMAIN T \cup N |-> R[x]] /\ \A x \in DOMAIN T : R[x] = T[x]
    /\ \A x \in S : /\ {"at", "tags"} \subseteq DOMAIN R[of[x]]
                    /\ R[of[x]].tags = T[x].tags
                    /\ R[of[x]].at = IF x = t THEN at ELSE of[T[x].at]

\* Copies of tasks that are all in one of them, with it put somewhere.
LEMMA CopiesAdded ==
    ASSUME NEW T, NEW O, NEW P, NEW G, NEW F, NEW U, Parts(T, O, P, G, F, U),
           NEW R, NEW S, NEW t, NEW of, NEW N, NEW at, CopyOf(R, T, S, t, of, N, at),
           N \cap (U \cup {Inbox}) = {}, at \in Containers(T, P),
           NEW Q, Lists(Q, DOMAIN T \cup N)
    PROVE  Parts(R, Q, P, G, F, U \cup N)
<1>0. /\ S \in SUBSET DOMAIN T /\ t \in S /\ \A x \in S \ {t} : T[x].at \in S
      /\ N = {of[x] : x \in S} /\ \A x, y \in S : of[x] = of[y] => x = y
      /\ R = [x \in DOMAIN T \cup N |-> R[x]] /\ \A x \in DOMAIN T : R[x] = T[x]
      /\ \A x \in S : /\ {"at", "tags"} \subseteq DOMAIN R[of[x]]
                      /\ R[of[x]].tags = T[x].tags
                      /\ R[of[x]].at = IF x = t THEN at ELSE of[T[x].at]
  BY DEF CopyOf
<1>1. DOMAIN R = DOMAIN T \cup N
  BY <1>0
<1>2. Containers(T, P) \cap N = {}
  BY <1>0 DEF Parts, GivenIds, Containers
<1>3. GivenIds(R, U \cup N) /\ GivenIds(P, U \cup N) /\ GivenIds(G, U \cup N) /\ GivenIds(F, U \cup N)
  BY <1>0, <1>1 DEF Parts, GivenIds
<1>4. TaskRows(R, P, G)
  <2> SUFFICES ASSUME NEW y \in DOMAIN R
               PROVE  /\ {"at", "tags"} \subseteq DOMAIN R[y]
                      /\ R[y].at \in {Inbox} \cup DOMAIN P \cup DOMAIN R
                      /\ R[y].tags \subseteq DOMAIN G
    BY <1>0 DEF TaskRows
  <2>1. CASE y \in DOMAIN T
    BY <1>0, <1>1, <2>1 DEF Parts, TaskRows
  <2>2. CASE y \in N
    <3>1. PICK x \in S : y = of[x]
      BY <1>0, <2>2
    <3>2. {"at", "tags"} \subseteq DOMAIN R[y] /\ R[y].tags = T[x].tags
      BY <1>0, <3>1
    <3>3. T[x].tags \subseteq DOMAIN G
      BY <1>0 DEF Parts, TaskRows
    <3>4. R[y].at \in {Inbox} \cup DOMAIN P \cup DOMAIN R
      <4>1. CASE x = t
        BY <1>0, <4>1, <3>1, <1>1 DEF Containers
      <4>2. CASE x # t
        <5>1. R[y].at = of[T[x].at] /\ T[x].at \in S
          BY <1>0, <4>2, <3>1
        <5>2. of[T[x].at] \in N
          BY <1>0, <5>1
        <5> QED
          BY <1>0, <5>1, <5>2, <1>1
      <4> QED
        BY <1>0, <4>1, <4>2
    <3> QED
      BY <1>0, <3>2, <3>3, <3>4
  <2> QED
    BY <1>0, <1>1, <2>1, <2>2
<1>5. Acyclic(R)
  <2> SUFFICES ASSUME NEW Z \in SUBSET DOMAIN R, \A x \in Z : R[x].at \in Z
               PROVE  Z = {}
    BY <1>0 DEF Acyclic
  <2>1. Z \ N = {}
    <3>1. Z \ N \in SUBSET DOMAIN T
      BY <1>0, <1>1
    <3>2. ASSUME NEW x \in Z \ N PROVE T[x].at \in Z \ N
      <4>1. R[x] = T[x] /\ T[x].at \in Containers(T, P)
        BY <1>0, <3>1 DEF Parts, TaskRows, Containers
      <4> QED
        BY <1>0, <4>1, <1>2
    <3> QED
      BY <1>0, <3>1, <3>2 DEF Parts, Acyclic
  <2>2. {x \in S : of[x] \in Z} = {}
    <3> DEFINE Y == {x \in S : of[x] \in Z}
    <3>1. ASSUME NEW x \in Y PROVE T[x].at \in Y
      <4>1. R[of[x]].at \in Z
        BY <1>0
      <4>2. x # t
        <5>1. Z \cap Containers(T, P) = {}
          BY <1>0, <2>1, <1>2
        <5> QED
          BY <1>0, <4>1, <5>1
      <4>3. T[x].at \in S /\ of[T[x].at] \in Z
        BY <1>0, <4>1, <4>2
      <4> QED
        BY <1>0, <4>3
    <3>2. Y \in SUBSET DOMAIN T
      BY <1>0
    <3> HIDE DEF Y
    <3>3. Y = {}
      BY <1>0, <3>1, <3>2 DEF Parts, Acyclic
    <3> QED
      BY <1>0, <3>3 DEF Y
  <2> QED
    BY <1>0, <2>1, <2>2
<1> QED
  BY <1>0, <1>1, <1>3, <1>4, <1>5 DEF Parts

\* The document but for the ids that were given.
SameRows(e, d) == [e EXCEPT !.used = d.used] = d

\* What a script promises: a document, and when it refuses, the one it had.
Keeps(r, d) == Sound(r.doc) /\ (r.code # "OK" => SameRows(r.doc, d))

\* What was not changed is the same.
LEMMA SameDocument == ASSUME NEW d, IsRecord(d) PROVE SameRows(d, d)
BY DEF SameRows, IsRecord, DocFields

\* An answer.
LEMMA KeepsAnswer == ASSUME NEW d, NEW e, NEW v, Sound(e) PROVE Keeps(Answer(e, v), d)
BY DEF Keeps, Answer

\* An error.
LEMMA KeepsRefuse == ASSUME NEW d, NEW code, Sound(d) PROVE Keeps(Refuse(d, code), d)
BY SoundIsParts, SameDocument DEF Keeps, Refuse

\* Either, by whether the object is there.
LEMMA KeepsFound ==
    ASSUME NEW d, NEW f, NEW id, NEW r, Sound(d), id \in DOMAIN f => Keeps(r, d)
    PROVE  Keeps(Found(d, f, id, r), d)
BY KeepsRefuse DEF Found, Has

\* What is promised of a script that OmniFocus may stop half-way: still one.
KeepsOrStops(r, d) == Sound(r.doc) /\ (r.code \notin {"OK", "Script"} => SameRows(r.doc, d))

\* Stopped after its last change, or not stopped.
LEMMA StoppedKeeps ==
    ASSUME NEW d, NEW r, Keeps(r, d)
    PROVE  KeepsOrStops(r, d) /\ KeepsOrStops(Stopped(r), d)
BY DEF Keeps, KeepsOrStops, Stopped, Refuse

\* The same by whether the object is there.
LEMMA FoundStops ==
    ASSUME NEW d, NEW f, NEW id, NEW r, Sound(d), id \in DOMAIN f => KeepsOrStops(r, d)
    PROVE  KeepsOrStops(Found(d, f, id, r), d)
BY KeepsRefuse, StoppedKeeps DEF Found, Has

-----------------------------------------------------------------------------

\* The edits of the tasks.

\* A row replaced by one that is in the same place.
LEMMA RowReplaced ==
    ASSUME NEW d, Sound(d), NEW t \in DOMAIN d.tasks, NEW row, {"at", "tags"} \subseteq DOMAIN row,
           row.at = d.tasks[t].at, row.tags \subseteq DOMAIN d.tags
    PROVE  Sound([d EXCEPT !.tasks[t] = row])
<1> DEFINE e == [d EXCEPT !.tasks[t] = row]
           R == [d.tasks EXCEPT ![t] = row]
<1>1. IsRecord(d) /\ Parts(d.tasks, d.order, d.projects, d.tags, d.folders, d.used)
  BY SoundIsParts
<1>2. /\ IsRecord(e) /\ e.tasks = R /\ e.order = d.order /\ e.projects = d.projects
      /\ e.tags = d.tags /\ e.folders = d.folders /\ e.used = d.used
  BY <1>1 DEF IsRecord, DocFields
<1>3. d.tasks = [x \in DOMAIN d.tasks |-> d.tasks[x]]
      /\ \A x \in DOMAIN d.tasks : {"at", "tags"} \subseteq DOMAIN d.tasks[x] /\ d.tasks[x].tags \subseteq DOMAIN d.tags
  BY <1>1 DEF Parts, GivenIds, TaskRows
<1>4. /\ R = [x \in DOMAIN d.tasks |-> R[x]] /\ R[t] = row
      /\ \A x \in DOMAIN d.tasks : x # t => R[x] = d.tasks[x]
  BY <1>3
<1> HIDE DEF e, R
<1>5. Parts(R, d.order, d.projects, d.tags, d.folders, d.used)
  <2>1. \A x \in DOMAIN d.tasks : /\ {"at", "tags"} \subseteq DOMAIN R[x]
                                  /\ R[x].at = d.tasks[x].at /\ R[x].tags \subseteq DOMAIN d.tags
    BY <1>3, <1>4
  <2> QED
    BY <1>1, <1>4, <2>1, RowsStay
<1>6. Sound(e)
  BY <1>2, <1>5, SoundIsParts
<1> QED
  BY <1>6 DEF e

\* The row of a task.
LEMMA TaskRow ==
    ASSUME NEW d, Sound(d), NEW t \in DOMAIN d.tasks
    PROVE  /\ {"at", "tags"} \subseteq DOMAIN d.tasks[t] /\ d.tasks[t].tags \subseteq DOMAIN d.tags
           /\ d.tasks[t].at \in Containers(d.tasks, d.projects)
           /\ d.tasks = [x \in DOMAIN d.tasks |-> d.tasks[x]] /\ IsRecord(d)
BY SoundIsParts DEF Parts, TaskRows, Containers, GivenIds

\* A field of it that is neither its place nor its tags.
LEMMA FieldSet ==
    ASSUME NEW d, Sound(d), NEW t \in DOMAIN d.tasks, NEW k, k \notin {"at", "tags"}, NEW v
    PROVE  Sound([d EXCEPT !.tasks[t] = [d.tasks[t] EXCEPT ![k] = v]])
<1> DEFINE row == [d.tasks[t] EXCEPT ![k] = v]
<1>1. /\ {"at", "tags"} \subseteq DOMAIN row
      /\ row.at = d.tasks[t].at /\ row.tags = d.tasks[t].tags
  BY TaskRow
<1> HIDE DEF row
<1>2. Sound([d EXCEPT !.tasks[t] = row])
  BY <1>1, TaskRow, RowReplaced
<1> QED
  BY <1>2 DEF row

\* Completing, dropping, and their opposite.
LEMMA Marked ==
    ASSUME NEW d, Sound(d), NEW t \in DOMAIN d.tasks
    PROVE  Sound(MarkComplete(d, t)) /\ Sound(MarkDropped(d, t)) /\ Sound(MarkIncomplete(d, t))
<1>1. "done" \notin {"at", "tags"} /\ "dropped" \notin {"at", "tags"}
  OBVIOUS
<1>2. ASSUME NEW e, Sound(e), t \in DOMAIN e.tasks, NEW k, k \notin {"at", "tags"}, NEW v
      PROVE  Sound([e EXCEPT !.tasks[t][k] = v]) /\ t \in DOMAIN [e EXCEPT !.tasks[t][k] = v].tasks
  <2>1. [e EXCEPT !.tasks[t][k] = v] = [e EXCEPT !.tasks[t] = [e.tasks[t] EXCEPT ![k] = v]]
    OBVIOUS
  <2>2. Sound([e EXCEPT !.tasks[t] = [e.tasks[t] EXCEPT ![k] = v]])
    BY <1>2, FieldSet
  <2>3. "tasks" \in DOMAIN e
    <3>1. DOMAIN e = DocFields
      BY <1>2, SoundIsParts DEF IsRecord
    <3> QED
      BY <3>1 DEF DocFields
  <2>4. t \in DOMAIN [e EXCEPT !.tasks[t][k] = v].tasks
    BY <1>2, <2>3
  <2> QED
    BY <2>1, <2>2, <2>4
<1>3. Sound(MarkComplete(d, t))
  <2> DEFINE row == IF d.tasks[t].repeat = None THEN [d.tasks[t] EXCEPT !.done = TRUE]
                    ELSE NextOccurrence(d.tasks[t])
  <2>1. /\ {"at", "tags"} \subseteq DOMAIN d.tasks[t] /\ d.tasks[t].tags \subseteq DOMAIN d.tags
    BY TaskRow
  <2>2. /\ {"at", "tags"} \subseteq DOMAIN row
        /\ row.at = d.tasks[t].at /\ row.tags = d.tasks[t].tags
    BY <2>1 DEF NextOccurrence
  <2>3. MarkComplete(d, t) = [d EXCEPT !.tasks[t] = row]
    BY DEF MarkComplete
  <2> HIDE DEF row
  <2> QED
    BY <2>1, <2>2, <2>3, RowReplaced
<1>4. Sound(MarkDropped(d, t))
  <2>1. Sound([d EXCEPT !.tasks[t]["dropped"] = TRUE])
    BY <1>1, <1>2
  <2> QED
    BY <2>1 DEF MarkDropped
<1>5. Sound(MarkIncomplete(d, t))
  <2> DEFINE e == [d EXCEPT !.tasks[t]["done"] = FALSE]
  <2>1. Sound(e) /\ t \in DOMAIN e.tasks
    BY <1>1, <1>2
  <2>2. Sound([e EXCEPT !.tasks[t]["dropped"] = FALSE])
    <3> HIDE DEF e
    <3> QED
      BY <1>1, <1>2, <2>1
  <2>3. MarkIncomplete(d, t) = [e EXCEPT !.tasks[t]["dropped"] = FALSE]
    BY DEF MarkIncomplete
  <2> QED
    BY <2>2, <2>3
<1> QED
  BY <1>3, <1>4, <1>5

\* Fields put over those of a task, its place not among them.
LEMMA PutSound ==
    ASSUME NEW d, Sound(d), NEW t \in DOMAIN d.tasks, NEW fields, "at" \notin DOMAIN fields
    PROVE  Sound(Put(d, t, fields))
<1> DEFINE g == KnownTags(d, fields)
           row == Over(d.tasks[t], g)
<1>1. "at" \notin DOMAIN g /\ ("tags" \in DOMAIN g => g.tags \subseteq DOMAIN d.tags)
  BY DEF KnownTags, Has
<1> HIDE DEF g
<1>2. DOMAIN row = DOMAIN d.tasks[t] \cup DOMAIN g
      /\ \A k \in DOMAIN row : row[k] = IF k \in DOMAIN g THEN g[k] ELSE d.tasks[t][k]
  BY DEF Over, Has
<1> HIDE DEF row
<1>3. /\ {"at", "tags"} \subseteq DOMAIN row
      /\ row.at = d.tasks[t].at /\ row.tags \subseteq DOMAIN d.tags
  BY <1>1, <1>2, TaskRow
<1>4. Sound([d EXCEPT !.tasks[t] = row])
  BY <1>3, RowReplaced
<1> QED
  BY <1>4 DEF Put, row, g

\* A task created: with the fields given, where it was asked for.
LEMMA InsertKeeps ==
    ASSUME NEW d, Sound(d), CanCreate(d, TaskIds), NEW at \in Containers(d.tasks, d.projects),
           NEW fields, "at" \notin DOMAIN fields
    PROVE  Keeps(Insert(d, at, fields), d)
<1> DEFINE t == NewId(d, TaskIds)
           g == KnownTags(d, fields)
           row == Filled(NewTask(at), g)
           e == AddTask(d, t, row)
<1>1. IsRecord(d) /\ Parts(d.tasks, d.order, d.projects, d.tags, d.folders, d.used)
  BY SoundIsParts
<1>2. t \in TaskIds /\ t \notin d.used /\ t # Inbox
  BY DocumentIds DEF NewId, CanCreate
<1>3. Insert(d, at, fields) = Answer(e, t)
  BY DEF Insert
<1>4. "at" \notin DOMAIN g /\ ("tags" \in DOMAIN g => g.tags \subseteq DOMAIN d.tags)
  BY DEF KnownTags, Has
<1> HIDE DEF t, g
<1>5. {"at", "tags"} \subseteq DOMAIN row /\ row.at = at /\ row.tags \subseteq DOMAIN d.tags
  BY <1>4 DEF Filled, NewTask, Has
<1> HIDE DEF row
<1>6. t \notin DOMAIN d.tasks /\ Lists(d.order, DOMAIN d.tasks)
  BY <1>1, <1>2 DEF Parts, GivenIds
<1>7. Lists(Append(d.order, t), DOMAIN d.tasks \cup {t})
  BY <1>6, AppendLists
<1>8. Parts(With(d.tasks, t, row), Append(d.order, t), d.projects, d.tags, d.folders, d.used \cup {t})
  BY <1>1, <1>2, <1>5, <1>7, TaskAdded
<1>9. /\ IsRecord(e) /\ e.tasks = With(d.tasks, t, row) /\ e.order = Append(d.order, t)
      /\ e.projects = d.projects /\ e.tags = d.tags /\ e.folders = d.folders
      /\ e.used = d.used \cup {t}
  BY <1>1 DEF AddTask, IsRecord, DocFields
<1>10. Sound(e)
  BY <1>8, <1>9, SoundIsParts
<1> QED
  BY <1>3, <1>10, KeepsAnswer

\* A task moved, unless into itself.
LEMMA MoveKeeps ==
    ASSUME NEW d, Sound(d), NEW t \in DOMAIN d.tasks, NEW at \in Containers(d.tasks, d.projects),
           NEW order, Lists(order, DOMAIN d.tasks)
    PROVE  Keeps(MoveTask(d, t, at, order), d)
<1> DEFINE R == [d.tasks EXCEPT ![t].at = at]
           e == [d EXCEPT !.tasks[t].at = at, !.order = order]
<1>1. IsRecord(d) /\ Parts(d.tasks, d.order, d.projects, d.tags, d.folders, d.used)
  BY SoundIsParts
<1>2. CASE at \in Subtree(d, t)
  BY <1>2, KeepsRefuse DEF MoveTask
<1>3. CASE at \notin Subtree(d, t)
  <2>1. DOMAIN R = DOMAIN d.tasks /\ (\A x \in DOMAIN R : x # t => R[x] = d.tasks[x]) /\ R[t].at = at
    BY TaskRow
  <2>2. Acyclic(R)
    <3> HIDE DEF R
    <3> QED
      BY <1>1, <1>3, <2>1, MoveAcyclic DEF Parts
  <2>3. Parts(R, d.order, d.projects, d.tags, d.folders, d.used)
    BY <1>1, <2>2, TaskMoved
  <2>4. Parts(R, order, d.projects, d.tags, d.folders, d.used)
    <3> HIDE DEF R
    <3> QED
      BY <2>1, <2>3, Reordered
  <2>5. /\ IsRecord(e) /\ e.tasks = R /\ e.order = order /\ e.projects = d.projects
        /\ e.tags = d.tags /\ e.folders = d.folders /\ e.used = d.used
    BY <1>1 DEF IsRecord, DocFields
  <2>6. Sound(e)
    <3> HIDE DEF e, R
    <3> QED
      BY <2>4, <2>5, SoundIsParts
  <2> QED
    BY <1>3, <2>6, KeepsAnswer DEF MoveTask
<1> QED
  BY <1>2, <1>3

\* Another order of the same tasks.
LEMMA OrderSound ==
    ASSUME NEW d, Sound(d), NEW order, Lists(order, DOMAIN d.tasks)
    PROVE  Sound([d EXCEPT !.order = order])
<1> DEFINE e == [d EXCEPT !.order = order]
<1>1. IsRecord(d) /\ Parts(d.tasks, d.order, d.projects, d.tags, d.folders, d.used)
  BY SoundIsParts
<1>2. /\ IsRecord(e) /\ e.tasks = d.tasks /\ e.order = order /\ e.projects = d.projects
      /\ e.tags = d.tags /\ e.folders = d.folders /\ e.used = d.used
  BY <1>1 DEF IsRecord, DocFields
<1>3. Parts(d.tasks, order, d.projects, d.tags, d.folders, d.used)
  BY <1>1, Reordered
<1> QED
  BY <1>2, <1>3, SoundIsParts

\* Tasks deleted with all that is in them.
LEMMA DeletedSound ==
    ASSUME NEW d, Sound(d), NEW S, \A x \in DOMAIN d.tasks \ S : d.tasks[x].at \notin S
    PROVE  Sound(DeleteTasks(d, S))
<1> DEFINE e == DeleteTasks(d, S)
<1>1. IsRecord(d) /\ Parts(d.tasks, d.order, d.projects, d.tags, d.folders, d.used)
  BY SoundIsParts
<1>2. Lists(Omitting(d.order, S), DOMAIN d.tasks \ S)
  BY <1>1, OmittingLists DEF Parts
<1>3. Parts(Without(d.tasks, S), Omitting(d.order, S), d.projects, d.tags, d.folders, d.used)
  BY <1>1, <1>2, TasksRemoved
<1>4. /\ IsRecord(e) /\ e.tasks = Without(d.tasks, S) /\ e.order = Omitting(d.order, S)
      /\ e.projects = d.projects /\ e.tags = d.tags /\ e.folders = d.folders /\ e.used = d.used
  BY <1>1 DEF IsRecord, DocFields, DeleteTasks
<1> QED
  BY <1>3, <1>4, SoundIsParts

-----------------------------------------------------------------------------

\* A task made a project: what was in it is in the project.
LEMMA ConvertKeeps ==
    ASSUME NEW d, Sound(d), NEW t, NEW folder
    PROVE  Keeps(TaskConvertToProject(d, t, folder), d)
<1> DEFINE x == d.tasks[t]
           p == [NewProject(folder) EXCEPT !.flagged = x.flagged, !.note = x.note, !.tags = x.tags]
           e == [DeleteTasks(d, {t}) EXCEPT !.projects = With(@, t, p)]
           r == IF folder # None /\ ~Has(d.folders, folder) THEN Refuse(d, "NotFound") ELSE Answer(e, t)
           Q == With(d.projects, t, p)
<1>1. IsRecord(d) /\ Parts(d.tasks, d.order, d.projects, d.tags, d.folders, d.used)
  BY SoundIsParts
<1>2. TaskConvertToProject(d, t, folder) = Found(d, d.tasks, t, r)
  BY DEF TaskConvertToProject
<1>3. ASSUME t \in DOMAIN d.tasks, ~(folder # None /\ ~Has(d.folders, folder)) PROVE Sound(e)
  <2>1. {"folder", "tags"} \subseteq DOMAIN p /\ p.folder = folder /\ p.tags = d.tasks[t].tags
    BY DEF NewProject
  <2>2. folder \in {None} \cup DOMAIN d.folders
    BY <1>3 DEF Has
  <2>3. t \in d.used /\ d.tasks[t].tags \subseteq DOMAIN d.tags
    BY <1>1, <1>3 DEF Parts, GivenIds, TaskRows
  <2> HIDE DEF p
  <2>4. DOMAIN Q = DOMAIN d.projects \cup {t} /\ Q = [y \in DOMAIN Q |-> Q[y]]
        /\ \A y \in DOMAIN Q : Q[y] = IF y = t THEN p ELSE d.projects[y]
    BY DEF With
  <2> HIDE DEF Q
  <2>5. GivenIds(Q, d.used)
    BY <1>1, <2>3, <2>4 DEF Parts, GivenIds
  <2>6. ProjectRows(Q, d.folders, d.tags)
    BY <1>1, <2>1, <2>2, <2>3, <2>4 DEF Parts, ProjectRows
  <2>7. Parts(d.tasks, d.order, Q, d.tags, d.folders, d.used)
    <3>1. \A y \in DOMAIN d.tasks :
              d.tasks[y].at \in DOMAIN d.projects => d.tasks[y].at \in Containers(d.tasks, Q)
      BY <2>4 DEF Containers
    <3> QED
      BY <1>1, <2>5, <2>6, <3>1, OtherProjects
  <2>8. Lists(Omitting(d.order, {t}), DOMAIN d.tasks \ {t})
    BY <1>1, OmittingLists DEF Parts
  <2>9. Parts(Without(d.tasks, {t}), Omitting(d.order, {t}), Q, d.tags, d.folders, d.used)
    BY <2>4, <2>7, <2>8, TasksRemoved
  <2>10. /\ IsRecord(e) /\ e.tasks = Without(d.tasks, {t}) /\ e.order = Omitting(d.order, {t})
         /\ e.projects = Q /\ e.tags = d.tags /\ e.folders = d.folders /\ e.used = d.used
    BY <1>1 DEF IsRecord, DocFields, DeleteTasks, Q
  <2> HIDE DEF e
  <2> QED
    BY <2>9, <2>10, SoundIsParts
<1>4. t \in DOMAIN d.tasks => Keeps(r, d)
  <2> HIDE DEF e
  <2> QED
    BY <1>3, KeepsRefuse, KeepsAnswer
<1> QED
  <2> HIDE DEF r
  <2> QED
    BY <1>2, <1>4, KeepsFound

\* What of and source are to each other in Copied.
LEMMA CopiesOf ==
    ASSUME NEW S, NEW V, NEW of \in Injection(S, V)
    PROVE  /\ of \in [S -> V] /\ \A x, y \in S : of[x] = of[y] => x = y
           /\ \A x \in S : (CHOOSE y \in S : of[y] = of[x]) = x
<1>1. of \in [S -> V] /\ \A x, y \in S : of[x] = of[y] => x = y
  BY DEF Injection, IsInjective
<1>2. ASSUME NEW x \in S PROVE (CHOOSE y \in S : of[y] = of[x]) = x
  <2>1. \A y : (y \in S /\ of[y] = of[x]) <=> y = x
    BY <1>1
  <2> QED
    BY <2>1
<1> QED
  BY <1>1, <1>2

\* Copies of tasks that are all in one of them, with it put somewhere.
LEMMA CopiedKeeps ==
    ASSUME NEW d, Sound(d), NEW t \in DOMAIN d.tasks, NEW S \in SUBSET DOMAIN d.tasks, t \in S,
           \A x \in S \ {t} : d.tasks[x].at \in S, CopyIds(d, t, S) # {},
           NEW at \in Containers(d.tasks, d.projects), NEW cut
    PROVE  Keeps(Copied(d, t, S, at, cut), d)
<1> DEFINE of == CHOOSE f \in CopyIds(d, t, S) : TRUE
           source(c) == CHOOSE x \in S : of[x] = c
           reset(row) == [row EXCEPT !.dropped = IF row.done THEN FALSE ELSE @, !.done = FALSE]
           same(x) == [d.tasks[x] EXCEPT !.at = IF x = t THEN at ELSE of[@]]
           copy(x) == IF cut THEN same(x) ELSE reset(same(x))
           new == {of[x] : x \in S}
           listed == Omitting(d.order, DOMAIN d.tasks \ S)
           M == [c \in new |-> copy(source(c))]
           R == Over(d.tasks, M)
           L == [i \in DOMAIN listed |-> of[listed[i]]]
           e == [d EXCEPT !.tasks = Over(@, M), !.used = @ \cup new, !.order = @ \o L]
<1>1. IsRecord(d) /\ Parts(d.tasks, d.order, d.projects, d.tags, d.folders, d.used)
  BY SoundIsParts
<1>2. Copied(d, t, S, at, cut) = Answer(e, [new |-> of[t], more |-> Cardinality(S) - 1])
  BY DEF Copied
<1>3. of \in Injection(S, TaskIds \ d.used)
  BY DEF CopyIds
<1> HIDE DEF of
<1>4. /\ of \in [S -> TaskIds \ d.used] /\ \A x, y \in S : of[x] = of[y] => x = y
      /\ \A x \in S : source(of[x]) = x
  BY <1>3, CopiesOf
<1> HIDE DEF source
<1>5. new \cap (d.used \cup {Inbox}) = {}
  BY <1>4, DocumentIds
<1>6. ASSUME NEW x \in S
      PROVE  /\ {"at", "tags"} \subseteq DOMAIN copy(x) /\ copy(x).tags = d.tasks[x].tags
             /\ copy(x).at = IF x = t THEN at ELSE of[d.tasks[x].at]
  <2>1. /\ {"at", "tags"} \subseteq DOMAIN same(x) /\ same(x).tags = d.tasks[x].tags
        /\ same(x).at = IF x = t THEN at ELSE of[d.tasks[x].at]
    BY TaskRow
  <2> HIDE DEF same
  <2> QED
    BY <2>1
<1> HIDE DEF copy
<1>7. /\ R = [x \in DOMAIN d.tasks \cup new |-> R[x]]
      /\ \A x \in DOMAIN d.tasks : R[x] = d.tasks[x]
      /\ \A x \in S : R[of[x]] = copy(x)
  <2>1. DOMAIN M = new /\ \A x \in S : M[of[x]] = copy(x)
    BY <1>4
  <2> HIDE DEF M
  <2>2. R = [x \in DOMAIN d.tasks \cup new |-> IF x \in new THEN M[x] ELSE d.tasks[x]]
    BY <2>1 DEF Over, Has
  <2>3. DOMAIN d.tasks \cap new = {}
    BY <1>1, <1>5 DEF Parts, GivenIds
  <2>4. \A x \in S : of[x] \in new
    OBVIOUS
  <2> HIDE DEF new, R
  <2> QED
    BY <2>1, <2>2, <2>3, <2>4
<1>8. Lists(d.order \o L, DOMAIN d.tasks \cup new)
  <2>1. Lists(listed, S)
    <3>1. DOMAIN d.tasks \ (DOMAIN d.tasks \ S) = S
      OBVIOUS
    <3>2. Lists(d.order, DOMAIN d.tasks)
      BY <1>1 DEF Parts
    <3> QED
      BY <3>1, <3>2, OmittingLists
  <2> HIDE DEF listed
  <2>2. Lists(L, new)
    <3>1. L = [i \in DOMAIN listed |-> L[i]] /\ \A i \in DOMAIN listed : L[i] = of[listed[i]]
      OBVIOUS
    <3>2. (\A x \in S : of[x] \in new) /\ \A y \in new : \E x \in S : y = of[x]
      OBVIOUS
    <3>3. \A x, y \in S : of[x] = of[y] => x = y
      BY <1>4
    <3> HIDE DEF L, new
    <3> QED
      BY <2>1, <3>1, <3>2, <3>3, ImageLists
  <2>3. DOMAIN d.tasks \cap new = {} /\ Lists(d.order, DOMAIN d.tasks)
    BY <1>1, <1>5 DEF Parts, GivenIds
  <2> HIDE DEF L, new
  <2> QED
    BY <2>2, <2>3, ConcatLists
<1>9. /\ IsRecord(e) /\ e.tasks = R /\ e.order = d.order \o L /\ e.projects = d.projects
      /\ e.tags = d.tags /\ e.folders = d.folders /\ e.used = d.used \cup new
  <2> HIDE DEF new, L, M
  <2> QED
    BY <1>1 DEF IsRecord, DocFields
<1>10. Parts(R, d.order \o L, d.projects, d.tags, d.folders, d.used \cup new)
  <2>1. \A x \in S : /\ {"at", "tags"} \subseteq DOMAIN R[of[x]]
                     /\ R[of[x]].tags = d.tasks[x].tags
                     /\ R[of[x]].at = IF x = t THEN at ELSE of[d.tasks[x].at]
    BY <1>6, <1>7
  <2>2. CopyOf(R, d.tasks, S, t, of, new, at)
    <3>1. new = {of[x] : x \in S}
      OBVIOUS
    <3> HIDE DEF new, R
    <3> QED
      BY <1>4, <1>7, <2>1, <3>1 DEF CopyOf
  <2> HIDE DEF new, R, L
  <2> QED
    BY <1>1, <1>5, <1>8, <2>2, CopiesAdded
<1>11. Sound(e)
  <2> HIDE DEF e, R, new, L
  <2> QED
    BY <1>9, <1>10, SoundIsParts
<1> QED
  <2> HIDE DEF e
  <2> QED
    BY <1>2, <1>11, KeepsAnswer

-----------------------------------------------------------------------------

\* The scripts on tasks.

\* The containers there are.
LEMMA ContainersOf ==
    ASSUME NEW d
    PROVE  /\ Inbox \in Containers(d.tasks, d.projects)
           /\ \A p \in DOMAIN d.projects : p \in Containers(d.tasks, d.projects)
           /\ \A x \in DOMAIN d.tasks : x \in Containers(d.tasks, d.projects)
BY DEF Containers

\* Completing, dropping and their opposite.
LEMMA MarksKeep ==
    ASSUME NEW d, Sound(d), NEW t
    PROVE  /\ Keeps(TaskComplete(d, t), d) /\ Keeps(TaskUncomplete(d, t), d)
           /\ Keeps(TaskDrop(d, t), d) /\ Keeps(TaskUndrop(d, t), d)
<1>1. t \in DOMAIN d.tasks => /\ Keeps(Answer(MarkComplete(d, t), t), d)
                              /\ Keeps(Answer(MarkIncomplete(d, t), t), d)
                              /\ Keeps(Answer(MarkDropped(d, t), t), d)
  BY Marked, KeepsAnswer
<1> QED
  BY <1>1, KeepsFound DEF TaskComplete, TaskUncomplete, TaskDrop, TaskUndrop

\* Deleting.
LEMMA DeleteKeeps ==
    ASSUME NEW d, Sound(d), NEW t
    PROVE  Keeps(TaskDelete(d, t), d)
<1>1. ASSUME t \in DOMAIN d.tasks PROVE Keeps(Answer(DeleteTasks(d, Subtree(d, t)), t), d)
  <2>1. \A x \in DOMAIN d.tasks \ Subtree(d, t) : d.tasks[x].at \notin Subtree(d, t)
    BY <1>1, SoundIsParts, SubtreeClosed DEF Parts
  <2> QED
    BY <2>1, DeletedSound, KeepsAnswer
<1> QED
  BY <1>1, KeepsFound DEF TaskDelete

\* Creating, for a call and in a batch.
LEMMA CreatesKeep ==
    ASSUME NEW d, Sound(d), CanCreate(d, TaskIds), NEW a, "at" \notin DOMAIN a.fields
    PROVE  Keeps(CreateAt(d, a), d) /\ Keeps(CreateItem(d, a), d)
<1>1. Keeps(Insert(d, Inbox, a.fields), d)
  BY InsertKeeps, ContainersOf
<1>2. Keeps(Found(d, d.tasks, a.parent, Insert(d, a.parent, a.fields)), d)
  <2>1. a.parent \in DOMAIN d.tasks => Keeps(Insert(d, a.parent, a.fields), d)
    BY InsertKeeps, ContainersOf
  <2> QED
    BY <2>1, KeepsFound
<1>3. Keeps(Found(d, d.projects, a.project, Insert(d, a.project, a.fields)), d)
  <2>1. a.project \in DOMAIN d.projects => Keeps(Insert(d, a.project, a.fields), d)
    BY InsertKeeps, ContainersOf
  <2> QED
    BY <2>1, KeepsFound
<1>4. Keeps(CreateAt(d, a), d)
  <2>1. Keeps(Refuse(d, "Validation"), d)
    BY KeepsRefuse
  <2>2. CASE a.blank
    BY <2>1, <2>2 DEF CreateAt
  <2>3. CASE a.project # None /\ a.parent # None
    BY <2>1, <2>3 DEF CreateAt
  <2>4. CASE ~a.blank /\ ~(a.project # None /\ a.parent # None)
    BY <2>4, <1>1, <1>2, <1>3 DEF CreateAt
  <2> QED
    BY <2>2, <2>3, <2>4
<1> QED
  BY <1>1, <1>2, <1>3, <1>4 DEF CreateItem

\* A call that creates may be stopped with the task made and not all of it set.
LEMMA TaskCreateKeeps ==
    ASSUME NEW d, Sound(d), CanCreate(d, TaskIds), NEW a, "fields" \in DOMAIN a,
           "at" \notin DOMAIN a.fields, NEW cut
    PROVE  KeepsOrStops(TaskCreate(d, a, cut), d)
<1> DEFINE some == [a EXCEPT !.fields = SetFirst(@)]
<1>1. "at" \notin DOMAIN some.fields
  BY DEF SetFirst, Restrict
<1>2. TaskCreate(d, a, cut) = IF cut THEN Stopped(CreateAt(d, some)) ELSE CreateAt(d, a)
  BY DEF TaskCreate
<1> HIDE DEF some
<1>3. Keeps(CreateAt(d, some), d) /\ Keeps(CreateAt(d, a), d)
  BY <1>1, CreatesKeep
<1> QED
  BY <1>2, <1>3, StoppedKeeps

\* Updating in a batch.
LEMMA UpdateItemKeeps ==
    ASSUME NEW d, Sound(d), NEW u, "at" \notin DOMAIN u.patch
    PROVE  Keeps(UpdateItem(d, u), d)
<1>1. "at" \notin DOMAIN Without(u.patch, {"noteHtml"})
  BY DEF Without, Restrict
<1>2. u.id \in DOMAIN d.tasks => Keeps(Answer(Put(d, u.id, Without(u.patch, {"noteHtml"})), u.id), d)
  BY <1>1, PutSound, KeepsAnswer
<1> QED
  BY <1>2, KeepsFound DEF UpdateItem

\* Putting fields over a row takes no task away.
LEMMA PutTasks ==
    ASSUME NEW d, Sound(d), NEW t, NEW fields
    PROVE  DOMAIN Put(d, t, fields).tasks = DOMAIN d.tasks
<1>1. DOMAIN d = DocFields
  BY SoundIsParts DEF IsRecord
<1> QED
  BY <1>1 DEF Put, DocFields

\* A script, or a refused one that may leave what it had put.
LEMMA UpdateScriptKeeps ==
    ASSUME NEW d, Sound(d), NEW t, NEW patch, "at" \notin DOMAIN patch, NEW cut
    PROVE  LET r == TaskUpdate(d, t, patch, cut) IN
           /\ Sound(r.doc)
           /\ r.code \notin {"OK", "Unsupported", "Script"} => SameRows(r.doc, d)
           /\ r.code = "OK" => t \in DOMAIN r.doc.tasks
           /\ t \in DOMAIN d.tasks /\ ~Has(patch, "noteHtml") /\ ~cut => r.code = "OK"
<1> DEFINE e == Put(d, t, Restrict(patch, DOMAIN patch \cap {"note"}))
           some == Put(d, t, SetFirst(patch))
           all == Put(d, t, patch)
           s == CASE Has(patch, "noteHtml") -> Refuse(e, "Unsupported")
                  [] ~Has(patch, "noteHtml") /\ cut -> Refuse(some, "Script")
                  [] OTHER -> Answer(all, BuildTask(all, t))
<1>1. TaskUpdate(d, t, patch, cut) = Found(d, d.tasks, t, s)
  BY DEF TaskUpdate
<1>2. ASSUME t \in DOMAIN d.tasks PROVE Sound(e) /\ Sound(some) /\ Sound(all)
  <2>1. "at" \notin DOMAIN Restrict(patch, DOMAIN patch \cap {"note"}) /\ "at" \notin DOMAIN SetFirst(patch)
    BY DEF SetFirst, Restrict
  <2> QED
    BY <1>2, <2>1, PutSound
<1>3. Keeps(Refuse(d, "NotFound"), d)
  BY KeepsRefuse
<1>4. t \in DOMAIN all.tasks <=> t \in DOMAIN d.tasks
  BY PutTasks
<1> HIDE DEF e, some, all
<1>5. /\ s.doc \in {e, some, all}
      /\ s.code \in {"OK", "Unsupported", "Script"} /\ (s.code = "OK" => s.doc = all)
      /\ ~Has(patch, "noteHtml") /\ ~cut => s.code = "OK"
  BY DEF Answer, Refuse
<1> HIDE DEF s
<1>6. CASE t \in DOMAIN d.tasks
  BY <1>1, <1>2, <1>4, <1>5, <1>6 DEF Found, Has
<1>7. CASE t \notin DOMAIN d.tasks
  BY <1>1, <1>3, <1>7 DEF Keeps, Found, Has, Refuse
<1> QED
  BY <1>6, <1>7

\* A call that updates, in one script or in two.
LEMMA UpdateTaskKeeps ==
    ASSUME NEW d, Sound(d), NEW t, NEW patch, "at" \notin DOMAIN patch, NEW cut
    PROVE  LET r == updateTask(d, t, patch, cut) IN
           Sound(r.doc) /\ (r.code \notin {"OK", "Unsupported", "Script"} => SameRows(r.doc, d))
<1> DEFINE rest == Without(patch, {"note"})
           note == Only(patch, {"note"})
           first == TaskUpdate(d, t, rest, FALSE)
           second == TaskUpdate(first.doc, t, note, FALSE)
<1>1. "at" \notin DOMAIN rest /\ "at" \notin DOMAIN note /\ ~Has(note, "noteHtml")
  BY DEF Without, Only, Restrict, Has
<1> HIDE DEF rest, note
<1>2. /\ Sound(first.doc)
      /\ first.code \notin {"OK", "Unsupported", "Script"} => SameRows(first.doc, d)
      /\ first.code = "OK" => t \in DOMAIN first.doc.tasks
  BY <1>1, UpdateScriptKeeps
<1> HIDE DEF first
<1>3. /\ Sound(second.doc)
      /\ t \in DOMAIN first.doc.tasks => second.code = "OK"
  <2>1. ASSUME NEW b, Sound(b), NEW q, "at" \notin DOMAIN q, ~Has(q, "noteHtml"), NEW stop, ~stop
        PROVE  /\ Sound(TaskUpdate(b, t, q, stop).doc)
               /\ t \in DOMAIN b.tasks => TaskUpdate(b, t, q, stop).code = "OK"
    BY <2>1, UpdateScriptKeeps
  <2> QED
    BY <1>1, <1>2, <2>1, Zenon
<1>4. LET r == TaskUpdate(d, t, patch, cut) IN
      Sound(r.doc) /\ (r.code \notin {"OK", "Unsupported", "Script"} => SameRows(r.doc, d))
  BY UpdateScriptKeeps
<1>5. updateTask(d, t, patch, cut) =
          CASE ~Split(patch) -> TaskUpdate(d, t, patch, cut)
            [] Split(patch) /\ first.code # "OK" -> first
            [] Split(patch) /\ first.code = "OK" -> IF cut THEN Refuse(first.doc, "Script") ELSE second
  BY DEF updateTask, first, rest, note
<1> HIDE DEF second
<1>6. CASE ~Split(patch)
  BY <1>4, <1>5, <1>6
<1>7. CASE Split(patch) /\ first.code # "OK"
  BY <1>2, <1>5, <1>7
<1>8. CASE Split(patch) /\ first.code = "OK"
  BY <1>2, <1>3, <1>5, <1>8 DEF Refuse
<1> QED
  BY <1>6, <1>7, <1>8

\* The orders a task may be put in.
LEMMA PutOrders ==
    ASSUME NEW d, Sound(d), NEW t \in DOMAIN d.tasks
    PROVE  /\ Lists(PutFirst(d.order, t), DOMAIN d.tasks) /\ Lists(PutLast(d.order, t), DOMAIN d.tasks)
           /\ \A ref \in DOMAIN d.tasks : \A offset \in {0, 1} :
                 ref # t => Lists(PutBeside(d.order, t, ref, offset), DOMAIN d.tasks)
<1>1. Lists(d.order, DOMAIN d.tasks)
  BY SoundIsParts DEF Parts
<1> QED
  BY <1>1, PutLists

\* To a task, a project or the inbox.
LEMMA MovesKeep ==
    ASSUME NEW d, Sound(d), NEW t \in DOMAIN d.tasks, NEW c, NEW order, Lists(order, DOMAIN d.tasks)
    PROVE  /\ Keeps(Found(d, d.tasks, c, MoveTask(d, t, c, order)), d)
           /\ Keeps(Found(d, d.projects, c, MoveTask(d, t, c, order)), d)
           /\ Keeps(MoveTask(d, t, Inbox, order), d)
<1>1. c \in DOMAIN d.tasks \/ c \in DOMAIN d.projects => Keeps(MoveTask(d, t, c, order), d)
  BY MoveKeeps, ContainersOf
<1> QED
  BY <1>1, MoveKeeps, ContainersOf, KeepsFound

\* Moving.
LEMMA TaskMoveKeeps ==
    ASSUME NEW d, Sound(d), NEW t, NEW to
    PROVE  Keeps(TaskMove(d, t, to), d)
<1> DEFINE r == CASE to.parent # None -> Found(d, d.tasks, to.parent,
                                               MoveTask(d, t, to.parent, PutLast(d.order, t)))
                  [] to.parent = None /\ to.project # None ->
                        Found(d, d.projects, to.project, MoveTask(d, t, to.project, PutLast(d.order, t)))
                  [] to.parent = None /\ to.project = None ->
                        MoveTask(d, t, Inbox, PutFirst(d.order, t))
<1>1. TaskMove(d, t, to) = Found(d, d.tasks, t, r)
  BY DEF TaskMove
<1>2. ASSUME t \in DOMAIN d.tasks PROVE Keeps(r, d)
  <2>1. /\ Keeps(Found(d, d.tasks, to.parent, MoveTask(d, t, to.parent, PutLast(d.order, t))), d)
        /\ Keeps(Found(d, d.projects, to.project, MoveTask(d, t, to.project, PutLast(d.order, t))), d)
        /\ Keeps(MoveTask(d, t, Inbox, PutFirst(d.order, t)), d)
    BY <1>2, PutOrders, MovesKeep
  <2> QED
    BY <2>1
<1> HIDE DEF r
<1> QED
  BY <1>1, <1>2, KeepsFound

\* Reordering.
LEMMA ReorderKeeps ==
    ASSUME NEW d, Sound(d), NEW t, NEW pos
    PROVE  Keeps(TaskReorder(d, t, pos), d)
<1> DEFINE ends == pos.mode \in {"start", "end"}
           order == IF pos.mode = "start" THEN PutFirst(d.order, t) ELSE PutLast(d.order, t)
           beside == CASE d.tasks[pos.ref].at # d.tasks[t].at -> Refuse(d, "Validation")
                       [] pos.ref = t -> Answer(d, t)
                       [] OTHER -> Answer([d EXCEPT !.order =
                             PutBeside(@, t, pos.ref, IF pos.mode = "after" THEN 1 ELSE 0)], t)
           r == CASE ~ends /\ pos.ref = None -> Refuse(d, "Validation")
                  [] ~ends /\ pos.ref # None -> Found(d, d.tasks, pos.ref, beside)
                  [] ends /\ pos.project # None ->
                        Found(d, d.projects, pos.project, MoveTask(d, t, pos.project, order))
                  [] ends /\ pos.project = None /\ pos.parent # None ->
                        Found(d, d.tasks, pos.parent, MoveTask(d, t, pos.parent, order))
                  [] ends /\ pos.project = None /\ pos.parent = None ->
                        MoveTask(d, t, Inbox, order)
<1>1. TaskReorder(d, t, pos) = Found(d, d.tasks, t, r)
  BY DEF TaskReorder
<1>2. ASSUME t \in DOMAIN d.tasks PROVE Keeps(r, d)
  <2>1. Lists(order, DOMAIN d.tasks)
    BY <1>2, PutOrders
  <2> HIDE DEF order
  <2>2. /\ Keeps(Found(d, d.projects, pos.project, MoveTask(d, t, pos.project, order)), d)
        /\ Keeps(Found(d, d.tasks, pos.parent, MoveTask(d, t, pos.parent, order)), d)
        /\ Keeps(MoveTask(d, t, Inbox, order), d)
    BY <1>2, <2>1, MovesKeep
  <2>3. Keeps(Refuse(d, "Validation"), d) /\ Keeps(Answer(d, t), d)
    BY KeepsRefuse, KeepsAnswer
  <2>4. ASSUME pos.ref \in DOMAIN d.tasks PROVE Keeps(beside, d)
    <3> DEFINE beyond == IF pos.mode = "after" THEN 1 ELSE 0
               e == [d EXCEPT !.order = PutBeside(d.order, t, pos.ref, beyond)]
    <3>1. pos.ref # t => Sound(e)
      <4>1. beyond \in {0, 1}
        OBVIOUS
      <4> HIDE DEF beyond
      <4> QED
        BY <1>2, <2>4, <4>1, PutOrders, OrderSound
    <3>2. beside = CASE d.tasks[pos.ref].at # d.tasks[t].at -> Refuse(d, "Validation")
                     [] pos.ref = t -> Answer(d, t)
                     [] OTHER -> Answer(e, t)
      OBVIOUS
    <3>3. pos.ref # t => Keeps(Answer(e, t), d)
      BY <3>1, KeepsAnswer
    <3> HIDE DEF e, beside
    <3> QED
      BY <2>3, <3>2, <3>3
  <2>5. Keeps(Found(d, d.tasks, pos.ref, beside), d)
    <3> HIDE DEF beside
    <3> QED
      BY <2>4, KeepsFound
  <2> HIDE DEF beside, ends
  <2> QED
    BY <2>2, <2>3, <2>5
<1> HIDE DEF r
<1> QED
  BY <1>1, <1>2, KeepsFound

\* Where there are ids for all the copies there is one for the first.
LEMMA OneCopy ==
    ASSUME NEW d, Sound(d), NEW t \in DOMAIN d.tasks, CopyIds(d, t, Subtree(d, t)) # {}
    PROVE  CopyIds(d, t, {t}) # {}
<1>1. t \in Subtree(d, t)
  BY SoundIsParts, SubtreeClosed DEF Parts
<1>2. PICK f : f \in Injection(Subtree(d, t), TaskIds \ d.used) /\ f[t] = NewId(d, TaskIds)
  BY DEF CopyIds
<1>3. NewId(d, TaskIds) \in TaskIds \ d.used
  BY <1>1, <1>2 DEF Injection
<1> DEFINE g == [x \in {t} |-> NewId(d, TaskIds)]
<1>4. g \in Injection({t}, TaskIds \ d.used) /\ g[t] = NewId(d, TaskIds)
  BY <1>3 DEF Injection, IsInjective
<1> QED
  BY <1>4 DEF CopyIds

\* To a project, to a task, to the inbox or next to the source.
LEMMA DuplicateKeeps ==
    ASSUME NEW d, Sound(d), NEW t, NEW to, NEW recursive \in BOOLEAN, NEW cut \in BOOLEAN,
           Has(d.tasks, t) => CopyIds(d, t, Subtree(d, t)) # {}
    PROVE  KeepsOrStops(TaskDuplicate(d, t, to, recursive, cut), d)
<1> DEFINE S == IF recursive \/ cut THEN Subtree(d, t) ELSE {t}
           copied(at) == IF cut THEN Stopped(Copied(d, t, S, at, cut)) ELSE Copied(d, t, S, at, cut)
           r == CASE to.project # None -> Found(d, d.projects, to.project, copied(to.project))
                  [] to.project = None /\ to.parent # None ->
                        Found(d, d.tasks, to.parent, copied(to.parent))
                  [] to.project = None /\ to.parent = None ->
                        copied(IF to.inbox THEN Inbox ELSE d.tasks[t].at)
<1>1. TaskDuplicate(d, t, to, recursive, cut) = Found(d, d.tasks, t, r)
  BY DEF TaskDuplicate
<1>2. ASSUME t \in DOMAIN d.tasks PROVE KeepsOrStops(r, d)
  <2>1. /\ t \in Subtree(d, t) /\ Subtree(d, t) \in SUBSET DOMAIN d.tasks
        /\ \A x \in Subtree(d, t) \ {t} : d.tasks[x].at \in Subtree(d, t)
    <3>1. Lists(d.order, DOMAIN d.tasks) /\ Acyclic(d.tasks)
      BY SoundIsParts DEF Parts
    <3>2. Subtree(d, t) \in SUBSET DOMAIN d.tasks
      BY DEF Subtree
    <3> QED
      BY <1>2, <3>1, <3>2, SubtreeClosed
  <2>2. CopyIds(d, t, Subtree(d, t)) # {} /\ CopyIds(d, t, {t}) # {}
    BY <1>2, OneCopy DEF Has
  <2>3. /\ S \in SUBSET DOMAIN d.tasks /\ t \in S /\ CopyIds(d, t, S) # {}
        /\ \A x \in S \ {t} : d.tasks[x].at \in S
    BY <1>2, <2>1, <2>2
  <2> HIDE DEF S
  <2>4. ASSUME NEW c \in Containers(d.tasks, d.projects) PROVE KeepsOrStops(copied(c), d)
    BY <1>2, <2>3, CopiedKeeps, StoppedKeeps
  <2> HIDE DEF copied
  <2>5. KeepsOrStops(Found(d, d.projects, to.project, copied(to.project)), d)
    BY <2>4, FoundStops, ContainersOf
  <2>6. KeepsOrStops(Found(d, d.tasks, to.parent, copied(to.parent)), d)
    BY <2>4, FoundStops, ContainersOf
  <2>7. KeepsOrStops(copied(IF to.inbox THEN Inbox ELSE d.tasks[t].at), d)
    BY <1>2, <2>4, ContainersOf, TaskRow
  <2> QED
    BY <2>5, <2>6, <2>7
<1> HIDE DEF r
<1> QED
  BY <1>1, <1>2, FoundStops

\* Alarms are not part of what makes a document one.
LEMMA AlarmsKeep ==
    ASSUME NEW d, Sound(d), NEW t
    PROVE  /\ Keeps(TaskClearAlarms(d, t), d)
           /\ \A alarms : KeepsOrStops(TaskSetAlarms(d, t, alarms), d)
<1>1. ASSUME t \in DOMAIN d.tasks, NEW v PROVE Sound([d EXCEPT !.tasks[t].alarms = v])
  <2>1. [d EXCEPT !.tasks[t].alarms = v] = [d EXCEPT !.tasks[t] = [d.tasks[t] EXCEPT !["alarms"] = v]]
    OBVIOUS
  <2>2. "alarms" \notin {"at", "tags"}
    OBVIOUS
  <2>3. Sound([d EXCEPT !.tasks[t] = [d.tasks[t] EXCEPT !["alarms"] = v]])
    BY <1>1, <2>2, FieldSet
  <2> QED
    BY <2>1, <2>3
<1>2. Keeps(TaskClearAlarms(d, t), d)
  <2>1. t \in DOMAIN d.tasks => Keeps(Answer([d EXCEPT !.tasks[t].alarms = <<>>], t), d)
    BY <1>1, KeepsAnswer
  <2> QED
    BY <2>1, KeepsFound DEF TaskClearAlarms
<1>3. ASSUME NEW alarms
      PROVE  KeepsOrStops(TaskSetAlarms(d, t, alarms), d)
  <2> DEFINE bad == {i \in DOMAIN alarms : ~Anchored(d, t, alarms[i])}
             kept == IF bad = {} THEN alarms ELSE SubSeq(alarms, 1, Min(bad) - 1)
             set == [d EXCEPT !.tasks[t].alarms = kept]
  <2>1. TaskSetAlarms(d, t, alarms) =
            Found(d, d.tasks, t, IF bad = {} THEN Answer(set, t) ELSE Refuse(set, "Script"))
    BY DEF TaskSetAlarms
  <2> HIDE DEF bad, kept
  <2>2. t \in DOMAIN d.tasks => Sound(set)
    BY <1>1
  <2>3. Keeps(Refuse(d, "NotFound"), d)
    BY KeepsRefuse
  <2> HIDE DEF set
  <2> QED
    BY <2>1, <2>2, <2>3 DEF Found, Has, Answer, Refuse, Keeps, KeepsOrStops
<1> QED
  BY <1>2, <1>3

-----------------------------------------------------------------------------

\* The edits of the projects, the tags, the folders and the rest.

\* Ids given to what is there no longer.
LEMMA IdsUsed ==
    ASSUME NEW d, Sound(d), NEW V, d.used \subseteq V
    PROVE  Sound([d EXCEPT !.used = V]) /\ SameRows([d EXCEPT !.used = V], d)
<1> DEFINE e == [d EXCEPT !.used = V]
<1>1. IsRecord(d) /\ Parts(d.tasks, d.order, d.projects, d.tags, d.folders, d.used)
  BY SoundIsParts
<1>2. /\ IsRecord(e) /\ e.tasks = d.tasks /\ e.order = d.order /\ e.projects = d.projects
      /\ e.tags = d.tags /\ e.folders = d.folders /\ e.used = V
  BY <1>1 DEF IsRecord, DocFields
<1>3. Sound(e)
  <2> HIDE DEF e
  <2> QED
    BY <1>1, <1>2, MoreUsed, SoundIsParts
<1>4. SameRows(e, d)
  BY <1>1 DEF SameRows, IsRecord, DocFields
<1> QED
  BY <1>3, <1>4

\* A field that says nothing of what there is.
LEMMA OtherFieldSet ==
    ASSUME NEW d, Sound(d), NEW k \in {"fcTag", "persp", "window", "attach", "saved"}, NEW v
    PROVE  Sound([d EXCEPT ![k] = v])
<1> DEFINE e == [d EXCEPT ![k] = v]
<1>1. IsRecord(d) /\ Parts(d.tasks, d.order, d.projects, d.tags, d.folders, d.used)
  BY SoundIsParts
<1>2. k \in DocFields
  BY DEF DocFields
<1>3. IsRecord(e) /\ \A j \in DocFields : e[j] = IF j = k THEN v ELSE d[j]
  BY <1>1, <1>2, Edited
<1> HIDE DEF e
<1>4. /\ e.tasks = d.tasks /\ e.order = d.order /\ e.projects = d.projects
      /\ e.tags = d.tags /\ e.folders = d.folders /\ e.used = d.used
  BY <1>3 DEF DocFields
<1>5. Sound(e)
  BY <1>1, <1>3, <1>4, SoundIsParts
<1> QED
  BY <1>5 DEF e

\* The row of a project.
ProjectRow(d, row) ==
    /\ {"folder", "tags"} \subseteq DOMAIN row
    /\ row.folder \in {None} \cup DOMAIN d.folders /\ row.tags \subseteq DOMAIN d.tags

\* Every project has one.
LEMMA RowOfProject ==
    ASSUME NEW d, Sound(d)
    PROVE  /\ \A p \in DOMAIN d.projects : ProjectRow(d, d.projects[p])
           /\ d.projects = [p \in DOMAIN d.projects |-> d.projects[p]]
           /\ DOMAIN d.projects \subseteq d.used
BY SoundIsParts DEF Parts, ProjectRows, ProjectRow, GivenIds

\* Other projects.
LEMMA ProjectsReplaced ==
    ASSUME NEW d, Sound(d), NEW Q, NEW V, d.used \subseteq V, GivenIds(Q, V),
           \A p \in DOMAIN Q : ProjectRow(d, Q[p]),
           \A t \in DOMAIN d.tasks : d.tasks[t].at \in DOMAIN d.projects => d.tasks[t].at \in Containers(d.tasks, Q)
    PROVE  Sound([d EXCEPT !.projects = Q, !.used = V])
<1> DEFINE e == [d EXCEPT !.projects = Q, !.used = V]
<1>1. IsRecord(d) /\ Parts(d.tasks, d.order, d.projects, d.tags, d.folders, V)
  BY SoundIsParts, MoreUsed
<1>2. ProjectRows(Q, d.folders, d.tags)
  BY DEF ProjectRow, ProjectRows
<1>3. Parts(d.tasks, d.order, Q, d.tags, d.folders, V)
  BY <1>1, <1>2, OtherProjects
<1>4. /\ IsRecord(e) /\ e.tasks = d.tasks /\ e.order = d.order /\ e.projects = Q
      /\ e.tags = d.tags /\ e.folders = d.folders /\ e.used = V
  BY <1>1 DEF IsRecord, DocFields
<1> QED
  BY <1>3, <1>4, SoundIsParts

\* The row of a project replaced.
LEMMA ProjectSet ==
    ASSUME NEW d, Sound(d), NEW p \in DOMAIN d.projects, NEW row, ProjectRow(d, row)
    PROVE  Sound([d EXCEPT !.projects[p] = row])
<1> DEFINE Q == [d.projects EXCEPT ![p] = row]
<1>1. Q = [x \in DOMAIN d.projects |-> Q[x]] /\ DOMAIN Q = DOMAIN d.projects
      /\ \A x \in DOMAIN Q : Q[x] = IF x = p THEN row ELSE d.projects[x]
  BY RowOfProject
<1>2. [d EXCEPT !.projects[p] = row] = [d EXCEPT !.projects = Q, !.used = d.used]
  <2>1. DOMAIN d = DocFields
    BY SoundIsParts DEF IsRecord
  <2> QED
    BY <2>1 DEF DocFields
<1> HIDE DEF Q
<1>3. GivenIds(Q, d.used) /\ \A x \in DOMAIN Q : ProjectRow(d, Q[x])
  BY <1>1, RowOfProject DEF GivenIds
<1>4. \A t \in DOMAIN d.tasks : d.tasks[t].at \in DOMAIN d.projects => d.tasks[t].at \in Containers(d.tasks, Q)
  BY <1>1 DEF Containers
<1>5. Sound([d EXCEPT !.projects = Q, !.used = d.used])
  BY <1>3, <1>4, ProjectsReplaced
<1> QED
  BY <1>2, <1>5

\* A new project.
LEMMA ProjectAdded ==
    ASSUME NEW d, Sound(d), NEW p, NEW row, ProjectRow(d, row)
    PROVE  Sound([d EXCEPT !.projects = With(@, p, row), !.used = @ \cup {p}])
<1> DEFINE Q == With(d.projects, p, row)
<1>1. DOMAIN Q = DOMAIN d.projects \cup {p} /\ Q = [x \in DOMAIN Q |-> Q[x]]
      /\ \A x \in DOMAIN Q : Q[x] = IF x = p THEN row ELSE d.projects[x]
  BY DEF With
<1> HIDE DEF Q
<1>2. GivenIds(Q, d.used \cup {p}) /\ \A x \in DOMAIN Q : ProjectRow(d, Q[x])
  BY <1>1, RowOfProject DEF GivenIds
<1>3. \A t \in DOMAIN d.tasks : d.tasks[t].at \in DOMAIN d.projects => d.tasks[t].at \in Containers(d.tasks, Q)
  BY <1>1 DEF Containers
<1>4. Sound([d EXCEPT !.projects = Q, !.used = d.used \cup {p}])
  BY <1>2, <1>3, ProjectsReplaced
<1> QED
  BY <1>4 DEF Q

\* Other tags, or other folders.
LEMMA TagsReplaced ==
    ASSUME NEW d, Sound(d), NEW H, NEW V, d.used \subseteq V, GivenIds(H, V), ParentRows(H),
           DOMAIN d.tags \subseteq DOMAIN H
    PROVE  Sound([d EXCEPT !.tags = H, !.used = V])
<1> DEFINE e == [d EXCEPT !.tags = H, !.used = V]
<1>1. IsRecord(d) /\ Parts(d.tasks, d.order, d.projects, d.tags, d.folders, V)
  BY SoundIsParts, MoreUsed
<1>2. Parts(d.tasks, d.order, d.projects, H, d.folders, V)
  BY <1>1, OtherTags
<1>3. /\ IsRecord(e) /\ e.tasks = d.tasks /\ e.order = d.order /\ e.projects = d.projects
      /\ e.tags = H /\ e.folders = d.folders /\ e.used = V
  BY <1>1 DEF IsRecord, DocFields
<1> QED
  BY <1>2, <1>3, SoundIsParts

\* Other folders: those that projects are in are still there.
LEMMA FoldersReplaced ==
    ASSUME NEW d, Sound(d), NEW H, NEW V, d.used \subseteq V, GivenIds(H, V), ParentRows(H),
           \A p \in DOMAIN d.projects : d.projects[p].folder \in DOMAIN d.folders => d.projects[p].folder \in DOMAIN H
    PROVE  Sound([d EXCEPT !.folders = H, !.used = V])
<1> DEFINE e == [d EXCEPT !.folders = H, !.used = V]
<1>1. IsRecord(d) /\ Parts(d.tasks, d.order, d.projects, d.tags, d.folders, V)
  BY SoundIsParts, MoreUsed
<1>2. Parts(d.tasks, d.order, d.projects, d.tags, H, V)
  BY <1>1, OtherFolders
<1>3. /\ IsRecord(e) /\ e.tasks = d.tasks /\ e.order = d.order /\ e.projects = d.projects
      /\ e.tags = d.tags /\ e.folders = H /\ e.used = V
  BY <1>1 DEF IsRecord, DocFields
<1> QED
  BY <1>2, <1>3, SoundIsParts

\* A new tag or folder in one that is there.
LEMMA ParentRowsMore ==
    ASSUME NEW H, NEW V, GivenIds(H, V), ParentRows(H), NEW g, NEW row, "parent" \in DOMAIN row,
           row.parent \in {None} \cup DOMAIN H
    PROVE  GivenIds(With(H, g, row), V \cup {g}) /\ ParentRows(With(H, g, row))
           /\ DOMAIN H \subseteq DOMAIN With(H, g, row)
BY DEF With, GivenIds, ParentRows

-----------------------------------------------------------------------------

\* The scripts on projects.

\* A new project, or none: one that is deleted again leaves its id, and one
\* that cannot be deleted stays.
LEMMA ProjectCreateKeeps ==
    ASSUME NEW d, Sound(d), CanCreate(d, ProjectIds), NEW a, "folder" \notin DOMAIN a.fields, NEW stuck
    PROVE  LET r == ProjectCreate(d, a, stuck) IN
           /\ Sound(r.doc)
           /\ r.code # "OK" => SameRows(r.doc, d) \/ (r.code = "Validation" /\ stuck /\ ~a.blank)
<1> DEFINE p == NewId(d, ProjectIds)
           g == Without(a.fields, {"tags"})
           row == Filled(NewProject(a.folder), g)
           some == Filled(NewProject(a.folder), SetFirst(a.fields))
           put(x) == [d EXCEPT !.projects = With(@, p, x), !.used = @ \cup {p}]
           new == put(row)
           half == put(some)
           undone == [half EXCEPT !.projects = Without(@, {p})]
<1>1. ProjectCreate(d, a, stuck) =
          CASE a.blank -> Refuse(d, "Validation")
            [] ~a.blank /\ a.folder # None /\ ~Has(d.folders, a.folder) -> Refuse(d, "NotFound")
            [] OTHER -> CASE row.interval # 0 -> Answer(new, BuildProject(new, p))
                          [] row.interval = 0 /\ stuck -> Refuse(half, "Validation")
                          [] row.interval = 0 /\ ~stuck -> Refuse(undone, "Validation")
  BY DEF ProjectCreate
<1>2. p \in ProjectIds /\ p \notin d.used
  BY DEF NewId, CanCreate
<1>3. a.folder \in {None} \cup DOMAIN d.folders => ProjectRow(d, row) /\ ProjectRow(d, some)
  <2>1. ASSUME NEW x, DOMAIN x \cap {"folder", "tags"} = {}, a.folder \in {None} \cup DOMAIN d.folders
        PROVE  ProjectRow(d, Filled(NewProject(a.folder), x))
    <3> DEFINE y == Filled(NewProject(a.folder), x)
    <3>1. {"folder", "tags"} \subseteq DOMAIN y /\ y.folder = a.folder /\ y.tags = {}
      BY <2>1 DEF Filled, NewProject, Has
    <3> HIDE DEF y
    <3>2. ProjectRow(d, y)
      BY <2>1, <3>1 DEF ProjectRow
    <3> QED
      BY <3>2 DEF y
  <2>2. DOMAIN g \cap {"folder", "tags"} = {} /\ DOMAIN SetFirst(a.fields) \cap {"folder", "tags"} = {}
    BY DEF Without, SetFirst, Restrict
  <2> HIDE DEF g
  <2> QED
    BY <2>1, <2>2
<1> HIDE DEF p, row, some
<1>4. a.folder \in {None} \cup DOMAIN d.folders => Sound(new) /\ Sound(half)
  BY <1>3, ProjectAdded
<1>5. Sound(undone) /\ SameRows(undone, d)
  <2>1. undone = [d EXCEPT !.used = d.used \cup {p}]
    <3>1. Without(With(d.projects, p, some), {p}) = d.projects
      <4>1. p \notin DOMAIN d.projects /\ d.projects = [x \in DOMAIN d.projects |-> d.projects[x]]
        BY <1>2, RowOfProject
      <4> QED
        BY <4>1 DEF With, Without, Restrict
    <3>2. IsRecord(d)
      BY SoundIsParts
    <3>3. undone = [d EXCEPT !.projects = Without(With(d.projects, p, some), {p}), !.used = d.used \cup {p}]
      BY <3>2 DEF IsRecord, DocFields
    <3>4. undone = [d EXCEPT !.projects = d.projects, !.used = d.used \cup {p}]
      BY <3>1, <3>3
    <3> HIDE DEF undone
    <3> QED
      BY <3>2, <3>4 DEF IsRecord, DocFields
  <2> HIDE DEF undone
  <2> QED
    BY <2>1, IdsUsed
<1>6. Keeps(Refuse(undone, "Validation"), d)
  <2> HIDE DEF undone
  <2> QED
    BY <1>5 DEF Keeps, Refuse
<1>7. a.folder \in {None} \cup DOMAIN d.folders =>
         /\ Keeps(Answer(new, BuildProject(new, p)), d)
         /\ Sound(Refuse(half, "Validation").doc) /\ Refuse(half, "Validation").code = "Validation"
  <2> HIDE DEF new, half
  <2> QED
    BY <1>4, KeepsAnswer DEF Refuse
<1>8. Keeps(Refuse(d, "Validation"), d) /\ Keeps(Refuse(d, "NotFound"), d)
  BY KeepsRefuse
<1> HIDE DEF new, half, undone
<1>9. CASE a.blank
  BY <1>1, <1>8, <1>9 DEF Keeps
<1>10. CASE ~a.blank /\ a.folder # None /\ ~Has(d.folders, a.folder)
  BY <1>1, <1>8, <1>10 DEF Keeps
<1>11. CASE ~a.blank /\ ~(a.folder # None /\ ~Has(d.folders, a.folder))
  <2>1. a.folder \in {None} \cup DOMAIN d.folders
    BY <1>11 DEF Has
  <2>2. \/ ProjectCreate(d, a, stuck) = Answer(new, BuildProject(new, p))
        \/ stuck /\ ProjectCreate(d, a, stuck) = Refuse(half, "Validation")
        \/ ProjectCreate(d, a, stuck) = Refuse(undone, "Validation")
    BY <1>1, <1>11
  <2> QED
    BY <1>6, <1>7, <1>11, <2>1, <2>2 DEF Keeps
<1> QED
  BY <1>9, <1>10, <1>11

\* Fields put over those of a project, its folder and tags not among them.
LEMMA ProjectPut ==
    ASSUME NEW d, Sound(d), NEW p \in DOMAIN d.projects, NEW g, DOMAIN g \cap {"folder", "tags"} = {}
    PROVE  Sound([d EXCEPT !.projects[p] = Over(@, g)])
<1> DEFINE row == Over(d.projects[p], g)
<1>1. ProjectRow(d, d.projects[p])
  BY RowOfProject
<1>2. ProjectRow(d, row)
  BY <1>1 DEF ProjectRow, Over, Has
<1>3. Sound([d EXCEPT !.projects[p] = row])
  <2> HIDE DEF row
  <2> QED
    BY <1>2, ProjectSet
<1> QED
  BY <1>3

\* Updating: the first fields may be there although a later one was refused.
LEMMA ProjectUpdateKeeps ==
    ASSUME NEW d, Sound(d), NEW p, NEW patch, NEW cut
    PROVE  LET r == ProjectUpdate(d, p, patch, cut) IN
           Sound(r.doc) /\ (r.code \notin {"OK", "Unsupported", "Script"} => SameRows(r.doc, d))
<1> DEFINE set(fields) == [d EXCEPT !.projects[p] = Over(@, Restrict(patch, DOMAIN patch \cap fields))]
           s == CASE Has(patch, "noteHtml") -> Refuse(set({"note"}), "Unsupported")
                  [] ~Has(patch, "noteHtml") /\ cut -> Refuse(set({"note", "flagged"}), "Script")
                  [] OTHER -> Answer(set(ProjectSettable), BuildProject(set(ProjectSettable), p))
<1>1. ProjectUpdate(d, p, patch, cut) = Found(d, d.projects, p, s)
  BY DEF ProjectUpdate
<1>2. ASSUME p \in DOMAIN d.projects, NEW fields, fields \cap {"folder", "tags"} = {}
      PROVE  Sound(set(fields))
  <2> DEFINE g == Restrict(patch, DOMAIN patch \cap fields)
  <2>1. DOMAIN g \cap {"folder", "tags"} = {}
    BY <1>2 DEF Restrict
  <2> HIDE DEF g
  <2>2. Sound([d EXCEPT !.projects[p] = Over(@, g)])
    BY <1>2, <2>1, ProjectPut
  <2> QED
    BY <2>2 DEF g
<1>3. /\ {"note"} \cap {"folder", "tags"} = {} /\ {"note", "flagged"} \cap {"folder", "tags"} = {}
      /\ ProjectSettable \cap {"folder", "tags"} = {}
  BY DEF ProjectSettable
<1>4. p \in DOMAIN d.projects =>
         Sound(set({"note"})) /\ Sound(set({"note", "flagged"})) /\ Sound(set(ProjectSettable))
  BY <1>2, <1>3
<1>5. Keeps(Refuse(d, "NotFound"), d)
  BY KeepsRefuse
<1> HIDE DEF set
<1>6. p \in DOMAIN d.projects => Sound(s.doc) /\ s.code \in {"OK", "Unsupported", "Script"}
  BY <1>4 DEF Answer, Refuse
<1> HIDE DEF s
<1> QED
  BY <1>1, <1>5, <1>6 DEF Found, Has, Keeps

\* A field of a project that is not its tags, and its folder only if it exists.
LEMMA ProjectFieldSet ==
    ASSUME NEW d, Sound(d), NEW p \in DOMAIN d.projects, NEW field, field # "tags", NEW value,
           field = "folder" => value \in {None} \cup DOMAIN d.folders
    PROVE  /\ Sound([d EXCEPT !.projects[p][field] = value])
           /\ p \in DOMAIN [d EXCEPT !.projects[p][field] = value].projects
<1> DEFINE row == [d.projects[p] EXCEPT ![field] = value]
<1>1. ProjectRow(d, d.projects[p])
  BY RowOfProject
<1>2. ProjectRow(d, row)
  BY <1>1 DEF ProjectRow
<1>3. Sound([d EXCEPT !.projects[p] = row])
  <2> HIDE DEF row
  <2> QED
    BY <1>2, ProjectSet
<1>4. "projects" \in DOMAIN d
  <2>1. DOMAIN d = DocFields
    BY SoundIsParts DEF IsRecord
  <2> QED
    BY <2>1 DEF DocFields
<1>5. p \in DOMAIN [d EXCEPT !.projects[p][field] = value].projects
  BY <1>4
<1> QED
  BY <1>3, <1>5

\* A script that sets one.
LEMMA SetProjectKeeps ==
    ASSUME NEW d, Sound(d), NEW p, NEW field, field # "tags", NEW value,
           field = "folder" => value \in {None} \cup DOMAIN d.folders
    PROVE  Keeps(SetProject(d, p, field, value), d)
<1>1. p \in DOMAIN d.projects => Keeps(Answer([d EXCEPT !.projects[p][field] = value], p), d)
  BY ProjectFieldSet, KeepsAnswer
<1> QED
  BY <1>1, KeepsFound DEF SetProject

\* The scripts that do.
LEMMA ProjectSetsKeep ==
    ASSUME NEW d, Sound(d), NEW p
    PROVE  /\ Keeps(ProjectComplete(d, p), d) /\ Keeps(ProjectDrop(d, p), d)
           /\ \A n : Keeps(ProjectSetReviewInterval(d, p, n), d)
           /\ \A x : Keeps(ProjectSetNextReviewDate(d, p, x), d)
           /\ \A f : Keeps(ProjectMove(d, p, f), d)
<1>1. "status" \notin {"tags", "folder"} /\ "interval" \notin {"tags", "folder"} /\ "next" \notin {"tags", "folder"}
      /\ "folder" # "tags"
  OBVIOUS
<1>2. Keeps(ProjectComplete(d, p), d) /\ Keeps(ProjectDrop(d, p), d)
  BY <1>1, SetProjectKeeps DEF ProjectComplete, ProjectDrop
<1>3. ASSUME NEW n PROVE Keeps(ProjectSetReviewInterval(d, p, n), d)
  BY <1>1, SetProjectKeeps DEF ProjectSetReviewInterval
<1>4. ASSUME NEW x PROVE Keeps(ProjectSetNextReviewDate(d, p, x), d)
  BY <1>1, SetProjectKeeps DEF ProjectSetNextReviewDate
<1>5. ASSUME NEW f PROVE Keeps(ProjectMove(d, p, f), d)
  <2>1. CASE f # None /\ Has(d.projects, p) /\ ~Has(d.folders, f)
    BY <2>1, KeepsRefuse DEF ProjectMove
  <2>2. CASE ~Has(d.projects, p)
    BY <2>2, KeepsRefuse DEF ProjectMove, SetProject, Found
  <2>3. CASE f = None \/ Has(d.folders, f)
    <3>1. f \in {None} \cup DOMAIN d.folders
      BY <2>3 DEF Has
    <3>2. Keeps(SetProject(d, p, "folder", f), d)
      BY <1>1, <3>1, SetProjectKeeps
    <3> QED
      BY <2>3, <3>2 DEF ProjectMove
  <2> QED
    BY <2>1, <2>2, <2>3
<1> QED
  BY <1>2, <1>3, <1>4, <1>5

\* Reviewing.
LEMMA ReviewedKeeps ==
    ASSUME NEW d, Sound(d), NEW p
    PROVE  Keeps(ProjectMarkReviewed(d, p), d)
<1> DEFINE x == d.projects[p]
           c == [d EXCEPT !.projects[p]["last"] = Today]
           next == IF x.interval = None THEN c.projects[p].next ELSE Today + x.interval
           e == [c EXCEPT !.projects[p]["next"] = next]
<1>1. ASSUME p \in DOMAIN d.projects PROVE Sound(e)
  <2>1. Sound(c) /\ p \in DOMAIN c.projects
    BY <1>1, ProjectFieldSet
  <2> HIDE DEF c, next
  <2> QED
    BY <2>1, ProjectFieldSet
<1>2. p \in DOMAIN d.projects => Keeps(Answer(e, p), d)
  <2> HIDE DEF e
  <2> QED
    BY <1>1, KeepsAnswer
<1>3. ProjectMarkReviewed(d, p) = Found(d, d.projects, p, Answer(e, p))
  BY DEF ProjectMarkReviewed
<1> HIDE DEF e
<1> QED
  BY <1>2, <1>3, KeepsFound

\* A project deleted, with the tasks in it.
LEMMA ProjectDeleteKeeps ==
    ASSUME NEW d, Sound(d), NEW p
    PROVE  Keeps(ProjectDelete(d, p), d)
<1> DEFINE S == FlattenedTasks(d, p)
           c == DeleteTasks(d, S)
           Q == Without(c.projects, {p})
           e == [c EXCEPT !.projects = Without(@, {p})]
<1>1. ASSUME p \in DOMAIN d.projects PROVE Sound(e)
  <2>1. Lists(d.order, DOMAIN d.tasks) /\ Acyclic(d.tasks)
    BY SoundIsParts DEF Parts
  <2>2. \A x \in DOMAIN d.tasks \ S : d.tasks[x].at \notin S /\ (d.tasks[x].at # p \/ p \in DOMAIN d.tasks)
    BY <1>1, <2>1, OutsideProject DEF Has
  <2> HIDE DEF S
  <2>3. Sound(c)
    BY <2>2, DeletedSound
  <2>4. /\ c.tasks = Without(d.tasks, S) /\ c.projects = d.projects /\ IsRecord(c)
    <3>1. IsRecord(d) /\ IsRecord(c)
      BY <2>3, SoundIsParts
    <3> QED
      BY <3>1 DEF IsRecord, DocFields, DeleteTasks
  <2>5. DOMAIN c.tasks = DOMAIN d.tasks \ S /\ \A x \in DOMAIN c.tasks : c.tasks[x] = d.tasks[x]
    BY <2>4 DEF Without, Restrict
  <2> HIDE DEF c
  <2>6. DOMAIN Q = DOMAIN c.projects \ {p} /\ Q = [x \in DOMAIN c.projects \ {p} |-> c.projects[x]]
    BY Entries
  <2> HIDE DEF Q
  <2>7. GivenIds(Q, c.used) /\ \A x \in DOMAIN Q : ProjectRow(c, Q[x])
    BY <2>3, <2>6, RowOfProject DEF GivenIds
  <2>8. \A x \in DOMAIN c.tasks : c.tasks[x].at \in DOMAIN c.projects => c.tasks[x].at \in Containers(c.tasks, Q)
    BY <2>2, <2>5, <2>6 DEF Containers
  <2>9. Sound([c EXCEPT !.projects = Q, !.used = c.used])
    BY <2>3, <2>7, <2>8, ProjectsReplaced
  <2>10. e = [c EXCEPT !.projects = Q, !.used = c.used]
    BY <2>4 DEF IsRecord, DocFields, Q
  <2> QED
    BY <2>9, <2>10
<1>2. p \in DOMAIN d.projects => Keeps(Answer(e, p), d)
  <2> HIDE DEF e
  <2> QED
    BY <1>1, KeepsAnswer
<1> QED
  BY <1>2, KeepsFound DEF ProjectDelete

-----------------------------------------------------------------------------

\* The scripts on tags and folders.

LEMMA TagCreateKeeps ==
    ASSUME NEW d, Sound(d), CanCreate(d, TagIds), NEW a
    PROVE  Keeps(TagCreate(d, a), d)
<1> DEFINE g == NewId(d, TagIds)
           row == Filled(NewTag(a.parent), Restrict(a, DOMAIN a \cap {"name"}))
           new == [d EXCEPT !.tags = With(@, g, row), !.used = @ \cup {g}]
<1>1. TagCreate(d, a) = CASE a.blank -> Refuse(d, "Validation")
                          [] ~a.blank /\ a.parent # None /\ ~Has(d.tags, a.parent) -> Refuse(d, "NotFound")
                          [] OTHER -> Answer(new, BuildTag(new, g))
  BY DEF TagCreate
<1>2. "parent" \in DOMAIN row /\ row.parent = a.parent
  <2>1. "parent" \notin DOMAIN Restrict(a, DOMAIN a \cap {"name"})
    BY DEF Restrict
  <2> QED
    BY <2>1 DEF Filled, NewTag, Has
<1> HIDE DEF g, row
<1>3. a.parent \in {None} \cup DOMAIN d.tags => Sound(new)
  <2> SUFFICES ASSUME a.parent \in {None} \cup DOMAIN d.tags PROVE Sound(new)
    OBVIOUS
  <2> DEFINE H == With(d.tags, g, row)
             V == d.used \cup {g}
  <2>1. GivenIds(d.tags, d.used) /\ ParentRows(d.tags)
    BY SoundIsParts DEF Parts
  <2>2. GivenIds(H, V) /\ ParentRows(H) /\ DOMAIN d.tags \subseteq DOMAIN H
    BY <1>2, <2>1, ParentRowsMore
  <2>3. d.used \subseteq V
    OBVIOUS
  <2> HIDE DEF H, V
  <2>4. Sound([d EXCEPT !.tags = H, !.used = V])
    BY <2>2, <2>3, TagsReplaced
  <2> QED
    BY <2>4 DEF H, V
<1>4. Keeps(Refuse(d, "Validation"), d) /\ Keeps(Refuse(d, "NotFound"), d)
  BY KeepsRefuse
<1>5. a.parent \in {None} \cup DOMAIN d.tags => Keeps(Answer(new, BuildTag(new, g)), d)
  <2> HIDE DEF new
  <2> QED
    BY <1>3, KeepsAnswer
<1> HIDE DEF new
<1>6. CASE a.blank
  BY <1>1, <1>4, <1>6
<1>7. CASE ~a.blank /\ a.parent # None /\ ~Has(d.tags, a.parent)
  BY <1>1, <1>4, <1>7
<1>8. CASE ~a.blank /\ ~(a.parent # None /\ ~Has(d.tags, a.parent))
  <2>1. a.parent \in {None} \cup DOMAIN d.tags
    BY <1>8 DEF Has
  <2> QED
    BY <1>1, <1>5, <1>8, <2>1
<1> QED
  BY <1>6, <1>7, <1>8

\* A tag stays where it is.
LEMMA TagUpdateKeeps ==
    ASSUME NEW d, Sound(d), NEW g, NEW patch
    PROVE  Keeps(TagUpdate(d, g, patch), d)
<1> DEFINE f == Restrict(patch, DOMAIN patch \cap {"status", "nextAction"})
           row == Over(d.tags[g], f)
           e == [d EXCEPT !.tags[g] = Over(@, f)]
           H == [d.tags EXCEPT ![g] = row]
<1>1. TagUpdate(d, g, patch) = Found(d, d.tags, g, Answer(e, BuildTag(e, g)))
  BY DEF TagUpdate
<1>2. ASSUME g \in DOMAIN d.tags PROVE Sound(e)
  <2>1. GivenIds(d.tags, d.used) /\ ParentRows(d.tags) /\ IsRecord(d)
    BY SoundIsParts DEF Parts
  <2>2. "parent" \notin DOMAIN f
    BY DEF Restrict
  <2> HIDE DEF f
  <2>3. "parent" \in DOMAIN row /\ row.parent = d.tags[g].parent
    BY <1>2, <2>1, <2>2 DEF Over, Has, ParentRows
  <2>4. e = [d EXCEPT !.tags = H, !.used = d.used]
    BY <2>1 DEF IsRecord, DocFields
  <2> HIDE DEF row, e
  <2>5. DOMAIN H = DOMAIN d.tags /\ H = [x \in DOMAIN H |-> H[x]]
        /\ \A x \in DOMAIN H : H[x] = IF x = g THEN row ELSE d.tags[x]
    BY <1>2, <2>1 DEF GivenIds
  <2> HIDE DEF H
  <2>6. GivenIds(H, d.used) /\ ParentRows(H) /\ DOMAIN d.tags \subseteq DOMAIN H
    BY <1>2, <2>1, <2>3, <2>5 DEF GivenIds, ParentRows
  <2> QED
    BY <2>4, <2>6, TagsReplaced
<1>3. g \in DOMAIN d.tags => Keeps(Answer(e, BuildTag(e, g)), d)
  <2> HIDE DEF e
  <2> QED
    BY <1>2, KeepsAnswer
<1> HIDE DEF e
<1> QED
  BY <1>1, <1>3, KeepsFound

\* The tags in a tag are closed under what is in them.
LEMMA TagsInClosed ==
    ASSUME NEW d, NEW g, NEW x \in DOMAIN d.tags, d.tags[x].parent \in TagsIn(d, g)
    PROVE  x \in TagsIn(d, g)
<1>1. ASSUME NEW S \in SUBSET DOMAIN d.tags, g \in S,
             \A y \in DOMAIN d.tags : d.tags[y].parent \in S => y \in S
      PROVE  x \in S
  <2>1. d.tags[x].parent \in S
    BY <1>1 DEF TagsIn
  <2> QED
    BY <1>1, <2>1
<1> QED
  BY <1>1 DEF TagsIn

\* A tag deleted, with the tags in it, wherever it was.
LEMMA TagDeleteKeeps ==
    ASSUME NEW d, Sound(d), NEW g
    PROVE  Keeps(TagDelete(d, g), d)
<1> DEFINE S == TagsIn(d, g)
           H == Without(d.tags, S)
           T == [t \in DOMAIN d.tasks |-> [d.tasks[t] EXCEPT !.tags = @ \ S]]
           P == [p \in DOMAIN d.projects |-> [d.projects[p] EXCEPT !.tags = @ \ S]]
           e == [d EXCEPT !.tags = H, !.tasks = T, !.projects = P]
<1>1. IsRecord(d) /\ Parts(d.tasks, d.order, d.projects, d.tags, d.folders, d.used)
  BY SoundIsParts
<1>2. \A x \in DOMAIN d.tags : d.tags[x].parent \in S => x \in S
  BY TagsInClosed
<1> HIDE DEF S
<1>3. /\ IsRecord(e) /\ e.tasks = T /\ e.order = d.order /\ e.projects = P
      /\ e.tags = H /\ e.folders = d.folders /\ e.used = d.used
  <2> HIDE DEF H, T, P
  <2> QED
    BY <1>1 DEF IsRecord, DocFields
<1>4. DOMAIN H = DOMAIN d.tags \ S /\ H = [x \in DOMAIN H |-> H[x]]
      /\ \A x \in DOMAIN H : H[x] = d.tags[x]
  BY DEF Without, Restrict
<1>5. /\ DOMAIN T = DOMAIN d.tasks /\ T = [x \in DOMAIN T |-> T[x]]
      /\ \A x \in DOMAIN T : /\ {"at", "tags"} \subseteq DOMAIN T[x]
                             /\ T[x].at = d.tasks[x].at /\ T[x].tags = d.tasks[x].tags \ S
  BY TaskRow
<1>6. /\ DOMAIN P = DOMAIN d.projects /\ P = [x \in DOMAIN P |-> P[x]]
      /\ \A x \in DOMAIN P : /\ {"folder", "tags"} \subseteq DOMAIN P[x]
                             /\ P[x].folder = d.projects[x].folder /\ P[x].tags = d.projects[x].tags \ S
  BY RowOfProject DEF ProjectRow
<1> HIDE DEF H, T, P, e
<1>7. GivenIds(H, d.used) /\ ParentRows(H)
  BY <1>1, <1>2, <1>4 DEF Parts, GivenIds, ParentRows
<1>8. GivenIds(T, d.used) /\ TaskRows(T, P, H) /\ Acyclic(T) /\ Lists(d.order, DOMAIN T)
  <2>1. GivenIds(T, d.used) /\ Lists(d.order, DOMAIN T)
    BY <1>1, <1>5 DEF Parts, GivenIds
  <2>2. TaskRows(T, P, H)
    BY <1>1, <1>4, <1>5, <1>6 DEF Parts, TaskRows
  <2>3. Acyclic(T)
    BY <1>1, <1>5 DEF Parts, Acyclic
  <2> QED
    BY <2>1, <2>2, <2>3
<1>9. GivenIds(P, d.used) /\ ProjectRows(P, d.folders, H)
  <2>1. GivenIds(P, d.used)
    BY <1>1, <1>6 DEF Parts, GivenIds
  <2>2. ProjectRows(P, d.folders, H)
    BY <1>1, <1>4, <1>6 DEF Parts, ProjectRows
  <2> QED
    BY <2>1, <2>2
<1>10. Parts(T, d.order, P, H, d.folders, d.used)
  BY <1>1, <1>7, <1>8, <1>9 DEF Parts
<1>11. Keeps(Answer(e, g), d)
  BY <1>3, <1>10, SoundIsParts, KeepsAnswer
<1>12. TagDelete(d, g) = Found(d, d.tags, g, Answer(e, g))
  BY DEF TagDelete, S, e, H, T, P
<1> QED
  BY <1>11, <1>12, KeepsFound

\* A new folder in one that is there, or at the top.
LEMMA FolderCreateKeeps ==
    ASSUME NEW d, Sound(d), CanCreate(d, FolderIds), NEW a
    PROVE  Keeps(FolderCreate(d, a), d)
<1> DEFINE f == NewId(d, FolderIds)
           row == Filled(NewFolder(a.parent), Restrict(a, DOMAIN a \cap {"name"}))
           new == [d EXCEPT !.folders = With(@, f, row), !.used = @ \cup {f}]
<1>1. FolderCreate(d, a) = CASE a.blank -> Refuse(d, "Validation")
                             [] ~a.blank /\ a.parent # None /\ ~Has(d.folders, a.parent) -> Refuse(d, "NotFound")
                             [] OTHER -> Answer(new, BuildFolder(new, f))
  BY DEF FolderCreate
<1>2. "parent" \in DOMAIN row /\ row.parent = a.parent
  <2>1. "parent" \notin DOMAIN Restrict(a, DOMAIN a \cap {"name"})
    BY DEF Restrict
  <2> QED
    BY <2>1 DEF Filled, NewFolder, Has
<1> HIDE DEF f, row
<1>3. a.parent \in {None} \cup DOMAIN d.folders => Sound(new)
  <2> SUFFICES ASSUME a.parent \in {None} \cup DOMAIN d.folders PROVE Sound(new)
    OBVIOUS
  <2> DEFINE H == With(d.folders, f, row)
             V == d.used \cup {f}
  <2>1. GivenIds(d.folders, d.used) /\ ParentRows(d.folders)
    BY SoundIsParts DEF Parts
  <2>2. GivenIds(H, V) /\ ParentRows(H) /\ DOMAIN d.folders \subseteq DOMAIN H
    BY <1>2, <2>1, ParentRowsMore
  <2>3. d.used \subseteq V
    OBVIOUS
  <2> HIDE DEF H, V
  <2>4. Sound([d EXCEPT !.folders = H, !.used = V])
    BY <2>2, <2>3, FoldersReplaced
  <2> QED
    BY <2>4 DEF H, V
<1>4. Keeps(Refuse(d, "Validation"), d) /\ Keeps(Refuse(d, "NotFound"), d)
  BY KeepsRefuse
<1>5. a.parent \in {None} \cup DOMAIN d.folders => Keeps(Answer(new, BuildFolder(new, f)), d)
  <2> HIDE DEF new
  <2> QED
    BY <1>3, KeepsAnswer
<1> HIDE DEF new
<1>6. CASE a.blank
  BY <1>1, <1>4, <1>6
<1>7. CASE ~a.blank /\ a.parent # None /\ ~Has(d.folders, a.parent)
  BY <1>1, <1>4, <1>7
<1>8. CASE ~a.blank /\ ~(a.parent # None /\ ~Has(d.folders, a.parent))
  <2>1. a.parent \in {None} \cup DOMAIN d.folders
    BY <1>8 DEF Has
  <2> QED
    BY <1>1, <1>5, <1>8, <2>1
<1> QED
  BY <1>6, <1>7, <1>8

\* A folder with nothing in it deleted.
LEMMA FolderDeleteKeeps ==
    ASSUME NEW d, Sound(d), NEW f
    PROVE  Keeps(FolderDelete(d, f), d)
<1> DEFINE e == [d EXCEPT !.folders = Without(@, {f})]
           H == Without(d.folders, {f})
<1>1. ASSUME ProjectsIn(d, f) \cup FoldersIn(d, f) = {} PROVE Sound(e)
  <2>1. GivenIds(d.folders, d.used) /\ ParentRows(d.folders) /\ IsRecord(d)
    BY SoundIsParts DEF Parts
  <2>2. DOMAIN H = DOMAIN d.folders \ {f} /\ H = [x \in DOMAIN H |-> H[x]]
        /\ \A x \in DOMAIN H : H[x] = d.folders[x]
    BY DEF Without, Restrict
  <2>3. e = [d EXCEPT !.folders = H, !.used = d.used]
    BY <2>1 DEF IsRecord, DocFields
  <2> HIDE DEF H, e
  <2>4. GivenIds(H, d.used) /\ ParentRows(H)
    BY <1>1, <2>1, <2>2 DEF GivenIds, ParentRows, FoldersIn
  <2>5. \A p \in DOMAIN d.projects : d.projects[p].folder \in DOMAIN d.folders => d.projects[p].folder \in DOMAIN H
    BY <1>1, <2>2 DEF ProjectsIn
  <2> QED
    BY <2>3, <2>4, <2>5, FoldersReplaced
<1>2. Keeps(IF ProjectsIn(d, f) \cup FoldersIn(d, f) # {} THEN Refuse(d, "Script") ELSE Answer(e, f), d)
  <2> HIDE DEF e
  <2> QED
    BY <1>1, KeepsRefuse, KeepsAnswer
<1> HIDE DEF e
<1>3. FolderDelete(d, f) = Found(d, d.folders, f, IF ProjectsIn(d, f) \cup FoldersIn(d, f) # {} THEN Refuse(d, "Script") ELSE Answer(e, f))
  BY DEF FolderDelete, e
<1> QED
  BY <1>2, <1>3, KeepsFound

-----------------------------------------------------------------------------

\* The other scripts.

\* One that sets a field which says nothing of what there is, and gives an id.
LEMMA OtherAnswer ==
    ASSUME NEW d, Sound(d), NEW k \in {"fcTag", "persp", "window", "attach", "saved"}, NEW v,
           NEW V, d.used \subseteq V, NEW r
    PROVE  /\ Keeps(Answer([d EXCEPT ![k] = v], r), d)
           /\ Sound([d EXCEPT ![k] = v, !.used = V])
           /\ Keeps(Answer([d EXCEPT ![k] = v, !.used = V], r), d)
<1> DEFINE e == [d EXCEPT ![k] = v]
<1>1. Sound(e)
  BY OtherFieldSet
<1>2. e.used = d.used
  OBVIOUS
<1>3. [d EXCEPT ![k] = v, !.used = V] = [e EXCEPT !.used = V]
  OBVIOUS
<1> HIDE DEF e
<1>4. Sound([e EXCEPT !.used = V])
  BY <1>1, <1>2, IdsUsed
<1> QED
  BY <1>1, <1>3, <1>4, KeepsAnswer DEF e

\* Reads.
LEMMA ReadsKeep ==
    ASSUME NEW d, Sound(d)
    PROVE  /\ \A v : Keeps(Answer(d, v), d)
           /\ \A code : Keeps(Refuse(d, code), d)
           /\ \A f, id, v : Keeps(Found(d, f, id, Answer(d, v)), d)
BY KeepsAnswer, KeepsRefuse, KeepsFound

\* Those of tasks.
LEMMA TaskReadsKeep ==
    ASSUME NEW d, Sound(d), NEW f, NEW t, NEW ids
    PROVE  /\ Keeps(listTasks(d, f), d) /\ Keeps(searchTasks(d, f), d)
           /\ Keeps(getTask(d, t), d) /\ Keeps(getTasksMany(d, ids), d)
<1>1. \A g : Keeps(TaskList(d, g), d)
  BY ReadsKeep DEF TaskList
<1>2. Keeps(TaskSearch(d, f), d)
  BY ReadsKeep DEF TaskSearch
<1>3. Keeps(TaskGet(d, t), d) /\ Keeps(TaskGetMany(d, ids), d)
  BY ReadsKeep DEF TaskGet, TaskGetMany
<1> QED
  BY <1>1, <1>2, <1>3 DEF listTasks, searchTasks, getTask, getTasksMany

\* Those of projects, tags and folders.
LEMMA LibraryReadsKeep ==
    ASSUME NEW d, Sound(d), NEW f, NEW id, NEW ids
    PROVE  /\ Keeps(listProjects(d, f), d) /\ Keeps(getProject(d, id), d)
           /\ Keeps(getProjectsMany(d, ids), d) /\ Keeps(listProjectsDueForReview(d), d)
           /\ Keeps(listTags(d, f), d) /\ Keeps(getTag(d, id), d) /\ Keeps(getTagsMany(d, ids), d)
           /\ Keeps(listFolders(d, f), d) /\ Keeps(getFolder(d, id), d) /\ Keeps(updateFolder(d, id, f), d)
<1>1. Keeps(ProjectList(d, f), d) /\ Keeps(ProjectGet(d, id), d) /\ Keeps(ProjectGetMany(d, ids), d)
      /\ Keeps(ReviewListDue(d), d)
  BY ReadsKeep DEF ProjectList, ProjectGet, ProjectGetMany, ReviewListDue
<1>2. Keeps(TagList(d, f), d) /\ Keeps(TagGet(d, id), d) /\ Keeps(TagGetMany(d, ids), d)
  BY ReadsKeep DEF TagList, TagGet, TagGetMany
<1>3. Keeps(FolderList(d, f), d) /\ Keeps(FolderGet(d, id), d) /\ Keeps(FolderUpdate(d, id), d)
  BY ReadsKeep DEF FolderList, FolderGet, FolderUpdate
<1> QED
  BY <1>1, <1>2, <1>3
     DEF listProjects, getProject, getProjectsMany, listProjectsDueForReview, listTags, getTag,
         getTagsMany, listFolders, getFolder, updateFolder

\* Those of the rest.
LEMMA OtherReadsKeep ==
    ASSUME NEW d, Sound(d), NEW a, NEW id
    PROVE  /\ Keeps(getForecast(d, a), d) /\ Keeps(getForecastTagWithName(d), d)
           /\ Keeps(listPerspectives(d), d) /\ Keeps(evaluatePerspective(d, id), d)
           /\ Keeps(getCustomPerspective(d, id), d) /\ Keeps(evaluateCustomPerspective(d, id), d)
           /\ Keeps(listAttachments(d, a), d) /\ Keeps(getWindowState(d), d)
<1>1. Keeps(ForecastGet(d, a), d) /\ Keeps(ForecastTagWithName(d), d)
  BY ReadsKeep DEF ForecastGet, ForecastTagWithName
<1>2. Keeps(PerspectiveList(d), d) /\ Keeps(PerspectiveEvaluate(d, id), d) /\ Keeps(PerspectiveGet(d, id), d)
  BY ReadsKeep DEF PerspectiveList, PerspectiveEvaluate, PerspectiveGet
<1>3. Keeps(PerspectiveEvaluateCustom(d, id), d)
  BY ReadsKeep, KeepsFound DEF PerspectiveEvaluateCustom
<1>4. Keeps(AttachmentList(d, a), d)
  BY ReadsKeep DEF AttachmentList, Owner
<1>5. Keeps(WindowGetState(d), d)
  BY ReadsKeep DEF WindowGetState, WithWindow
<1> QED
  BY <1>1, <1>2, <1>3, <1>4, <1>5
     DEF getForecast, getForecastTagWithName, listPerspectives, evaluatePerspective,
         getCustomPerspective, evaluateCustomPerspective, listAttachments, getWindowState

-----------------------------------------------------------------------------

\* Perspectives.

\* One made, refused by OmniFocus, or left behind as a shell.
LEMMA PerspectiveCreateKeeps ==
    ASSUME NEW d, Sound(d), NEW a, NEW fault \in Faults
    PROVE  LET r == createCustomPerspective(d, a, fault) IN
           Sound(r.doc) /\ (r.code # "OK" => SameRows(r.doc, d) \/ fault = "rollback")
<1> DEFINE v == NewId(d, PerspectiveIds)
           shell == [name |-> a.name, aggregation |-> "all", rules |-> {}, color |-> None]
           put(row) == [d EXCEPT !.persp = With(@, v, row), !.used = @ \cup {v}]
           given == [d EXCEPT !.used = @ \cup {v}]
           r == PerspectiveCreate(d, a, fault)
<1>1. \/ r = Refuse(d, "Validation") \/ r = Answer(put(Filled(shell, a)), v)
      \/ r = Refuse(given, "Script") \/ (fault = "rollback" /\ r = Refuse(put(shell), "Script"))
  <2>1. CASE a.name = None
    BY <2>1 DEF PerspectiveCreate
  <2>2. CASE a.name # None /\ Named(d, a.name) # {}
    BY <2>2 DEF PerspectiveCreate
  <2>3. CASE a.name # None /\ Named(d, a.name) = {}
    <3>1. r = CASE fault = "no"        -> Answer(put(Filled(shell, a)), v)
                [] fault = "configure" -> Refuse(given, "Script")
                [] fault = "rollback"  -> Refuse(put(shell), "Script")
      BY <2>3 DEF PerspectiveCreate
    <3> HIDE DEF r, put, given, shell, v
    <3>2. fault = "no" => r = Answer(put(Filled(shell, a)), v)
      BY <3>1
    <3>3. fault = "configure" => r = Refuse(given, "Script")
      BY <3>1
    <3>4. fault = "rollback" => r = Refuse(put(shell), "Script")
      BY <3>1
    <3> QED
      BY <3>2, <3>3, <3>4 DEF Faults
  <2> QED
    BY <2>1, <2>2, <2>3
<1>2. \A row : Sound(put(row))
  <2>1. ASSUME NEW H PROVE Sound([d EXCEPT !.persp = H, !.used = d.used \cup {v}])
    <3>1. Sound([d EXCEPT !["persp"] = H, !.used = d.used \cup {v}])
      BY OtherAnswer
    <3> QED
      BY <3>1
  <2> QED
    BY <2>1
<1>3. Sound(given) /\ SameRows(given, d)
  BY IdsUsed
<1> HIDE DEF given, put
<1>4. CASE r = Refuse(d, "Validation")
  BY <1>4, KeepsRefuse DEF Keeps, createCustomPerspective
<1>5. CASE r = Answer(put(Filled(shell, a)), v)
  BY <1>2, <1>5 DEF Answer, createCustomPerspective
<1>6. CASE r = Refuse(given, "Script")
  BY <1>3, <1>6 DEF Refuse, createCustomPerspective
<1>7. CASE fault = "rollback" /\ r = Refuse(put(shell), "Script")
  BY <1>2, <1>7 DEF Refuse, createCustomPerspective
<1> QED
  BY <1>1, <1>4, <1>5, <1>6, <1>7

\* Fields of one set in turn, up to one that OmniFocus does not take.
LEMMA PerspectiveUpdateKeeps ==
    ASSUME NEW d, Sound(d), NEW v, NEW patch, NEW fault
    PROVE  LET r == updateCustomPerspective(d, v, patch, fault) IN
           Sound(r.doc) /\ (r.code # "OK" => SameRows(r.doc, d) \/ fault = "configure")
<1> DEFINE kept == IF fault = "configure" THEN {"name", "aggregation"} ELSE DOMAIN patch
           row == Over(d.persp[v], Restrict(patch, DOMAIN patch \cap kept))
           e == [d EXCEPT !.persp[v] = Over(@, Restrict(patch, DOMAIN patch \cap kept))]
           r == PerspectiveUpdate(d, v, patch, fault)
<1>1. \/ \E code : r = Refuse(d, code)
      \/ (fault = "configure" /\ r = Refuse(e, "Script")) \/ r = Answer(e, v)
  BY DEF PerspectiveUpdate, Found
<1>2. Sound(e)
  <2>1. e = [d EXCEPT !["persp"] = [d.persp EXCEPT ![v] = row]]
    OBVIOUS
  <2> HIDE DEF e, row
  <2> QED
    BY <2>1, OtherFieldSet
<1> HIDE DEF e
<1>3. CASE \E code : r = Refuse(d, code)
  BY <1>3, KeepsRefuse DEF Keeps, updateCustomPerspective
<1>4. CASE fault = "configure" /\ r = Refuse(e, "Script")
  BY <1>2, <1>4 DEF Refuse, updateCustomPerspective
<1>5. CASE r = Answer(e, v)
  BY <1>2, <1>5 DEF Answer, updateCustomPerspective
<1> QED
  BY <1>1, <1>3, <1>4, <1>5

\* The one made to show what rules would give, and deleted again or not.
LEMMA DryRunKeeps ==
    ASSUME NEW d, Sound(d), NEW rules, NEW fault
    PROVE  LET r == evaluatePerspectiveRules(d, rules, fault) IN
           Sound(r.doc) /\ (r.code # "OK" => SameRows(r.doc, d) \/ fault = "rollback")
<1> DEFINE v == NewId(d, PerspectiveIds)
           shell == [name |-> v, aggregation |-> "all", rules |-> rules, color |-> None]
           left == [d EXCEPT !.persp = With(@, v, shell), !.used = @ \cup {v}]
           given == [d EXCEPT !.used = @ \cup {v}]
           after == IF fault = "rollback" THEN left ELSE given
           r == PerspectiveEvaluateDryRun(d, rules, fault)
<1>1. r.doc = after
  BY DEF PerspectiveEvaluateDryRun, Refuse, Answer
<1>2. Sound(left)
  <2>1. left = [d EXCEPT !["persp"] = With(d.persp, v, shell), !.used = d.used \cup {v}]
    OBVIOUS
  <2> HIDE DEF v, left, shell
  <2> QED
    BY <2>1, OtherAnswer
<1>3. Sound(given) /\ SameRows(given, d)
  BY IdsUsed
<1> HIDE DEF left, given, r
<1> QED
  BY <1>1, <1>2, <1>3 DEF evaluatePerspectiveRules, r

-----------------------------------------------------------------------------

\* The forecast tag, attachments, the window, undo and redo.

LEMMA OtherWritesKeep ==
    ASSUME NEW d, Sound(d), NEW g, NEW v, NEW o, NEW x, NEW path, NEW directories
    PROVE  /\ Keeps(setForecastTagWithName(d, g), d) /\ Keeps(deleteCustomPerspective(d, v), d)
           /\ Keeps(addAttachment(d, o), d) /\ Keeps(removeAttachment(d, o, x), d)
           /\ Keeps(saveAttachmentToPath(d, o, x, path, directories), d)
           /\ Keeps(setWindowFocus(d, g), d) /\ Keeps(setWindowPerspective(d, v), d)
<1>1. Keeps(ForecastTagSetWithName(d, g), d)
  <2>1. \A y, r : Keeps(Answer([d EXCEPT !.fcTag = y], r), d)
    BY OtherAnswer
  <2> QED
    BY <2>1, KeepsFound DEF ForecastTagSetWithName
<1>2. Keeps(PerspectiveDelete(d, v), d)
  <2>1. Keeps(Answer([d EXCEPT !.persp = Without(@, {v})], v), d)
    BY OtherAnswer
  <2> QED
    BY <2>1, KeepsFound DEF PerspectiveDelete
<1>3. \A r : Keeps(r, d) => Keeps(Owner(d, o, r), d)
  BY KeepsFound, KeepsRefuse DEF Owner
<1>4. Keeps(AttachmentAdd(d, o), d)
  <2> DEFINE y == NewId(d, AttachmentIds)
             S == Attached(d, o) \cup {y}
             e == [SetAttached(d, o, S) EXCEPT !.used = @ \cup {y}]
  <2>1. e = [d EXCEPT !["attach"] = With(d.attach, OwnerId(o), S), !.used = d.used \cup {y}]
    BY DEF SetAttached
  <2>2. AttachmentAdd(d, o) = Owner(d, o, Answer(e, y))
    BY DEF AttachmentAdd
  <2> HIDE DEF S, y, e
  <2>3. Keeps(Answer(e, y), d)
    BY <2>1, OtherAnswer
  <2> QED
    BY <1>3, <2>2, <2>3
<1>5. Keeps(AttachmentRemove(d, o, x), d)
  <2>1. \A S, r : Keeps(Answer(SetAttached(d, o, S), r), d)
    BY OtherAnswer DEF SetAttached
  <2> QED
    BY <1>3, <2>1, KeepsRefuse DEF AttachmentRemove
<1>6. Keeps(AttachmentSaveToPath(d, o, x, path, directories), d)
  <2>1. Keeps(Answer([d EXCEPT !.saved = With(@, path, x)], path), d)
    BY OtherAnswer
  <2> QED
    BY <1>3, <2>1, KeepsRefuse DEF AttachmentSaveToPath
<1>7. \A r : Keeps(r, d) => Keeps(WithWindow(d, r), d)
  BY KeepsRefuse DEF WithWindow
<1>8. Keeps(WindowSetFocus(d, g), d)
  <2>1. \A S, r : Keeps(Answer([d EXCEPT !.window.focus = S], r), d)
    <3> TAKE S, r
    <3>1. [d EXCEPT !.window.focus = S] = [d EXCEPT !["window"] = [d.window EXCEPT !.focus = S]]
      OBVIOUS
    <3> QED
      BY <3>1, OtherAnswer
  <2> QED
    BY <1>7, <2>1, KeepsRefuse DEF WindowSetFocus
<1>9. Keeps(WindowSetPerspective(d, v), d)
  <2>1. \A r : Keeps(Answer([d EXCEPT !.window.perspective = v], r), d)
    <3> TAKE r
    <3>1. [d EXCEPT !.window.perspective = v] = [d EXCEPT !["window"] = [d.window EXCEPT !.perspective = v]]
      OBVIOUS
    <3> QED
      BY <3>1, OtherAnswer
  <2> QED
    BY <1>7, <2>1, KeepsRefuse DEF WindowSetPerspective
<1> QED
  BY <1>1, <1>2, <1>4, <1>5, <1>6, <1>8, <1>9
     DEF setForecastTagWithName, deleteCustomPerspective, addAttachment, removeAttachment,
         saveAttachmentToPath, setWindowFocus, setWindowPerspective

\* The documents to go back to are documents.
LEMMA UndoKeeps ==
    ASSUME NEW d, Sound(d), NEW history \in Histories
    PROVE  Keeps(undoLastMutation(d, history), d) /\ Keeps(redoLastMutation(d, history), d)
<1>1. history # <<>> => Sound(Last(history)) /\ Sound(Head(history))
  BY StartsAssumption DEF Histories, Last
<1> QED
  BY <1>1, KeepsAnswer DEF undoLastMutation, redoLastMutation, DatabaseUndo, DatabaseRedo

-----------------------------------------------------------------------------

\* The batches.

\* What a batch has come to after an item.
Tried(script, d, items, acc, i) ==
    LET r == Item(script, d, acc.doc, items[i]) IN
    IF r.code = "OK"
    THEN [doc |-> r.doc, ok |-> Append(acc.ok, [index |-> i, value |-> r.val]), bad |-> acc.bad]
    ELSE [doc |-> r.doc, ok |-> acc.ok, bad |-> Append(acc.bad, [index |-> i, code |-> r.code])]

\* f is what it has come to after each of the first n.
Tries(f, script, d, items, n) ==
    f = [i \in 0..n |-> IF i = 0 THEN [doc |-> d, ok |-> <<>>, bad |-> <<>>]
                        ELSE Tried(script, d, items, f[i - 1], i)]

\* The next item.
LEMMA TriesMore ==
    ASSUME NEW script, NEW d, NEW items, NEW n \in Nat, n # 0, \E f : Tries(f, script, d, items, n - 1)
    PROVE  \E g : Tries(g, script, d, items, n)
<1>1. PICK f : Tries(f, script, d, items, n - 1)
  OBVIOUS
<1> DEFINE start == [doc |-> d, ok |-> <<>>, bad |-> <<>>]
           g == [m \in 0..n |-> IF m = n THEN Tried(script, d, items, f[n - 1], n) ELSE f[m]]
<1>2. ASSUME NEW m \in 0..n
      PROVE  g[m] = IF m = 0 THEN start ELSE Tried(script, d, items, g[m - 1], m)
  <2> HIDE DEF start
  <2>1. CASE m = n
    <3>1. n - 1 \in 0..n /\ n - 1 # n
      OBVIOUS
    <3>2. g[n - 1] = f[n - 1] /\ g[n] = Tried(script, d, items, f[n - 1], n)
      BY <3>1
    <3> QED
      BY <2>1, <3>2
  <2>2. CASE m # n
    <3>1. m \in 0..(n - 1) /\ g[m] = f[m]
      BY <2>2
    <3>2. f[m] = IF m = 0 THEN start ELSE Tried(script, d, items, f[m - 1], m)
      BY <1>1, <3>1 DEF Tries, start
    <3>3. m # 0 => g[m - 1] = f[m - 1]
      BY <3>1
    <3> QED
      BY <3>1, <3>2, <3>3
  <2> QED
    BY <2>1, <2>2
<1>3. Tries(g, script, d, items, n)
  <2>1. g = [m \in 0..n |-> g[m]]
    OBVIOUS
  <2> HIDE DEF g
  <2> QED
    BY <2>1, <1>2 DEF Tries
<1> QED
  BY <1>3

\* So the function of EachItem is there.
LEMMA TriesExist ==
    ASSUME NEW script, NEW d, NEW items, NEW n \in Nat
    PROVE  \E f : Tries(f, script, d, items, n)
<1> DEFINE T == {m \in 0..n : \E f : Tries(f, script, d, items, m)}
<1>1. 0 \in T
  <2> DEFINE f == [m \in 0..0 |-> [doc |-> d, ok |-> <<>>, bad |-> <<>>]]
  <2>1. \A m \in 0..0 : m = 0
    OBVIOUS
  <2>2. Tries(f, script, d, items, 0)
    BY <2>1 DEF Tries
  <2> QED
    BY <2>2
<1>2. ASSUME NEW m \in 0..n, m # 0, m - 1 \in T PROVE m \in T
  BY <1>2, TriesMore
<1>3. 0..n \subseteq T
  <2> HIDE DEF T
  <2> QED
    BY <1>1, <1>2, UpTo
<1> QED
  BY <1>3

\* What a batch leaves is what it has come to after its last item.
LEMMA BatchIsTries ==
    ASSUME NEW script, NEW d, NEW items, Len(items) \in Nat
    PROVE  \E f : /\ Tries(f, script, d, items, Len(items))
                  /\ BatchScript(script, d, items).doc = f[Len(items)].doc
                  /\ BatchScript(script, d, items).code = "OK"
<1> DEFINE F == CHOOSE f : Tries(f, script, d, items, Len(items))
<1>1. Tries(F, script, d, items, Len(items))
  BY TriesExist
<1>2. BatchScript(script, d, items) = Answer(F[Len(items)].doc, [ok |-> F[Len(items)].ok, bad |-> F[Len(items)].bad])
  BY DEF BatchScript, EachItem, Tries, Tried
<1> HIDE DEF F
<1> QED
  BY <1>1, <1>2 DEF Answer

\* The arguments of a batch: no item puts a task somewhere, and there is an id
\* for each that makes one.
Scripts == {"task_batch_create", "task_batch_update", "task_batch_complete", "task_batch_delete",
            "task_batch_drop", "task_batch_undrop", "task_batch_uncomplete", "task_batch_move",
            "project_batch_complete", "project_batch_drop"}

\* What a batch is given for a document.
Fits(script, d, items) ==
    /\ script \in Scripts /\ Len(items) \in Nat
    /\ script = "task_batch_create" =>
          /\ Len(items) = 2 /\ ~ \A x, y \in TaskIds \ d.used : x = y
          /\ \A i \in 1..2 : "at" \notin DOMAIN items[i].fields
    /\ script = "task_batch_update" => \A i \in 1..Len(items) : "at" \notin DOMAIN items[i].patch

\* The document after i of the items.
Fit(script, d, e, i) ==
    /\ Sound(e)
    /\ script = "task_batch_uncomplete" => DOMAIN e.tasks = DOMAIN d.tasks
    /\ script = "task_batch_create" => (i = 0 => e = d) /\ (i = 1 => CanCreate(e, TaskIds))

\* One made leaves an id for one more.
LEMMA OneIsLeft ==
    ASSUME NEW d, Sound(d), NEW a, ~ \A x, y \in TaskIds \ d.used : x = y
    PROVE  CanCreate(d, TaskIds) /\ CanCreate(CreateItem(d, a).doc, TaskIds)
<1>1. CanCreate(d, TaskIds)
  BY DEF CanCreate
<1>2. ASSUME NEW at PROVE CanCreate(Insert(d, at, a.fields).doc, TaskIds)
  <2> DEFINE t == NewId(d, TaskIds)
             e == AddTask(d, t, Filled(NewTask(at), KnownTags(d, a.fields)))
  <2>1. Insert(d, at, a.fields).doc = e
    BY DEF Insert, Answer
  <2>2. e.used = d.used \cup {t}
    <3>1. IsRecord(d)
      BY SoundIsParts
    <3> QED
      BY <3>1 DEF AddTask, IsRecord, DocFields
  <2> HIDE DEF e, t
  <2> QED
    BY <2>1, <2>2 DEF CanCreate
<1>3. CanCreate(Refuse(d, "NotFound").doc, TaskIds)
  BY <1>1 DEF Refuse
<1>4. \A f, id, at : CanCreate(Found(d, f, id, Insert(d, at, a.fields)).doc, TaskIds)
  BY <1>2, <1>3 DEF Found
<1> QED
  BY <1>1, <1>2, <1>4 DEF CreateItem

\* The next item leaves a document that is fit for the one after it.
LEMMA ItemFits ==
    ASSUME NEW script, NEW d, NEW items, Fits(script, d, items), Sound(d),
           NEW i \in 1..Len(items), NEW e, Fit(script, d, e, i - 1)
    PROVE  Fit(script, d, Item(script, d, e, items[i]).doc, i)
<1> DEFINE x == items[i]
<1>1. Sound(e) /\ i \in Nat /\ i # 0
  BY DEF Fit, Fits
<1>2. CASE script = "task_batch_create"
  <2>1. Item(script, d, e, x) = CreateItem(e, x)
    BY <1>2 DEF Item
  <2>2. i \in 1..2 /\ "at" \notin DOMAIN x.fields /\ ~ \A y, z \in TaskIds \ d.used : y = z
    BY <1>2 DEF Fits
  <2>3. CanCreate(e, TaskIds)
    BY <1>1, <1>2, <2>2, OneIsLeft DEF Fit
  <2>4. Sound(CreateItem(e, x).doc)
    BY <1>1, <2>2, <2>3, CreatesKeep DEF Keeps
  <2>5. i = 1 => CanCreate(CreateItem(e, x).doc, TaskIds)
    BY <1>1, <1>2, <2>2, OneIsLeft DEF Fit
  <2> QED
    BY <1>1, <1>2, <2>1, <2>4, <2>5 DEF Fit
<1>3. CASE script = "task_batch_uncomplete"
  <2>1. Item(script, d, e, x) = IF Has(d.tasks, x) THEN Answer(MarkIncomplete(e, x), x) ELSE Refuse(e, "NotFound")
    BY <1>3 DEF Item
  <2>2. DOMAIN e.tasks = DOMAIN d.tasks
    BY <1>3 DEF Fit
  <2>3. CASE Has(d.tasks, x)
    <3>1. Sound(MarkIncomplete(e, x))
      BY <1>1, <2>2, <2>3, Marked DEF Has
    <3>2. DOMAIN MarkIncomplete(e, x).tasks = DOMAIN e.tasks
      <4>1. IsRecord(e)
        BY <1>1, SoundIsParts
      <4> QED
        BY <4>1 DEF MarkIncomplete, IsRecord, DocFields
    <3> QED
      BY <1>3, <2>1, <2>2, <2>3, <3>1, <3>2 DEF Fit, Answer
  <2> QED
    BY <1>1, <1>3, <2>1, <2>2, <2>3 DEF Fit, Refuse
<1>4. CASE script \notin {"task_batch_create", "task_batch_uncomplete"}
  <2>1. Keeps(Item(script, d, e, x), e)
    <3>1. CASE script = "task_batch_update"
      <4>1. Item(script, d, e, x) = UpdateItem(e, x) /\ "at" \notin DOMAIN x.patch
        BY <3>1 DEF Item, Fits
      <4> QED
        BY <1>1, <4>1, UpdateItemKeeps
    <3>2. CASE script \in {"task_batch_complete", "task_batch_drop", "task_batch_undrop"}
      <4>1. Item(script, d, e, x) \in {TaskComplete(e, x), TaskDrop(e, x), TaskUndrop(e, x)}
        BY <3>2 DEF Item
      <4> QED
        BY <1>1, <4>1, MarksKeep
    <3>3. CASE script = "task_batch_delete"
      <4>1. Item(script, d, e, x) = TaskDelete(e, x)
        BY <3>3 DEF Item
      <4> QED
        BY <1>1, <4>1, DeleteKeeps
    <3>4. CASE script = "task_batch_move"
      <4>1. Item(script, d, e, x) = TaskMove(e, x.id, x.to)
        BY <3>4 DEF Item
      <4> QED
        BY <1>1, <4>1, TaskMoveKeeps
    <3>5. CASE script \in {"project_batch_complete", "project_batch_drop"}
      <4>1. Item(script, d, e, x) \in {ProjectComplete(e, x), ProjectDrop(e, x), Refuse(e, "NotFound")}
        BY <3>5 DEF Item
      <4> QED
        BY <1>1, <4>1, ProjectSetsKeep, KeepsRefuse
    <3> QED
      BY <1>4, <3>1, <3>2, <3>3, <3>4, <3>5 DEF Fits, Scripts
  <2> QED
    BY <1>4, <2>1 DEF Fit, Keeps
<1> QED
  BY <1>2, <1>3, <1>4

\* So the document a batch leaves is one.
LEMMA BatchKeeps ==
    ASSUME NEW script, NEW d, Sound(d), NEW items, Fits(script, d, items)
    PROVE  Keeps(BatchScript(script, d, items), d)
<1>1. PICK f : /\ Tries(f, script, d, items, Len(items))
               /\ BatchScript(script, d, items).doc = f[Len(items)].doc
               /\ BatchScript(script, d, items).code = "OK"
  BY BatchIsTries DEF Fits
<1> DEFINE n == Len(items)
           T == {i \in 0..n : Fit(script, d, f[i].doc, i)}
<1>2. n \in Nat
  BY DEF Fits
<1>3. 0 \in T
  <2>1. f[0].doc = d
    BY <1>1, <1>2 DEF Tries
  <2> QED
    BY <1>2, <2>1 DEF Fit
<1>4. ASSUME NEW i \in 0..n, i # 0, i - 1 \in T PROVE i \in T
  <2>1. i \in 1..n /\ Fit(script, d, f[i - 1].doc, i - 1)
    BY <1>2, <1>4
  <2>2. f[i] = Tried(script, d, items, f[i - 1], i)
    BY <1>1, <1>2, <1>4 DEF Tries
  <2>3. f[i].doc = Item(script, d, f[i - 1].doc, items[i]).doc
    BY <2>2 DEF Tried
  <2> QED
    BY <2>1, <2>3, ItemFits
<1>5. Fit(script, d, f[n].doc, n)
  <2> HIDE DEF T, n
  <2>1. 0..n \subseteq T
    BY <1>2, <1>3, <1>4, UpTo
  <2> QED
    BY <1>2, <2>1 DEF T
<1> QED
  BY <1>1, <1>5 DEF Fit, Keeps

-----------------------------------------------------------------------------

\* The calls.

\* A step that leaves a document, and the one there was when it is refused.
Fine == /\ Sound(db')
        /\ answer'.code # "OK" /\ ~HalfDone(answer') => SameRows(db', db)

\* Whatever way the router goes.
LEMMA Invoked ==
    ASSUME Sound(db), NEW method, NEW args, NEW r, Invoke(method, args, r), Sound(r.doc),
           r.code # "OK" => \/ SameRows(r.doc, db)
                            \/ HalfDone([method |-> method, args |-> args, code |-> r.code, val |-> r.val])
    PROVE  Fine
<1> DEFINE routed == Route(db, method, r)
<1>1. routed \in {r, Refuse(db, "Script")}
  BY DEF Route
<1>2. db' = routed.doc
      /\ answer' = [method |-> method, args |-> args, code |-> routed.code, val |-> routed.val]
  BY DEF Invoke
<1> HIDE DEF routed
<1>3. CASE routed = r
  BY <1>2, <1>3 DEF Fine
<1>4. CASE routed = Refuse(db, "Script")
  <2>1. SameRows(db, db)
    BY SoundIsParts, SameDocument
  <2> QED
    BY <1>2, <1>4, <2>1 DEF Fine, Refuse
<1> QED
  BY <1>1, <1>3, <1>4

\* A call whose script keeps its promise.
LEMMA InvokedKeeps ==
    ASSUME Sound(db), NEW method, NEW args, NEW r, Invoke(method, args, r), Keeps(r, db)
    PROVE  Fine
BY Invoked DEF Keeps

\* A call whose script may be stopped.
LEMMA InvokedStops ==
    ASSUME Sound(db), NEW args, NEW r, KeepsOrStops(r, db),
           NEW method \in {"createTask", "duplicateTask", "setTaskAlarms"}, Invoke(method, args, r)
    PROVE  Fine
BY Invoked DEF KeepsOrStops, HalfDone

\* No input and no patch says where a task is.
LEMMA ArgumentsSayNoPlace ==
    /\ \A a \in TaskInputs : "fields" \in DOMAIN a /\ "at" \notin DOMAIN a.fields
    /\ \A patch \in Patches : "at" \notin DOMAIN patch
BY DEF TaskInputs, TaskInput, NewFields, Patches, Nothing

\* The calls about tasks.
LEMMA TasksFine ==
    ASSUME Sound(db), Tasks
    PROVE  Fine
<1>1. ASSUME ListTasks PROVE Fine
  BY <1>1, InvokedKeeps, TaskReadsKeep DEF ListTasks
<1>2. ASSUME GetTask PROVE Fine
  BY <1>2, InvokedKeeps, TaskReadsKeep DEF GetTask
<1>3. ASSUME GetTasksMany PROVE Fine
  BY <1>3, InvokedKeeps, TaskReadsKeep DEF GetTasksMany
<1>4. ASSUME SearchTasks PROVE Fine
  BY <1>4, InvokedKeeps, TaskReadsKeep DEF SearchTasks
<1>5. ASSUME CreateTask PROVE Fine
  <2>1. PICK a \in TaskInputs, cut \in BOOLEAN : Invoke("createTask", <<a, cut>>, createTask(db, a, cut))
    BY <1>5 DEF CreateTask
  <2>2. KeepsOrStops(createTask(db, a, cut), db)
    BY <1>5, TaskCreateKeeps, ArgumentsSayNoPlace DEF CreateTask, createTask
  <2> QED
    BY <2>1, <2>2, InvokedStops
<1>6. ASSUME BatchCreateTasks PROVE Fine
  <2>1. PICK a \in {TaskInput(to, Nothing, FALSE) : to \in Places}, blank \in BOOLEAN :
           LET two == <<a, TaskInput(To(None, None), Nothing, blank)>>
           IN Invoke("batchCreateTasks", <<two>>, batchCreateTasks(db, two))
    BY <1>6 DEF BatchCreateTasks
  <2> DEFINE two == <<a, TaskInput(To(None, None), Nothing, blank)>>
  <2>2. Fits("task_batch_create", db, two)
    <3>1. Len(two) = 2 /\ ~ \A x, y \in TaskIds \ db.used : x = y
      BY <1>6 DEF BatchCreateTasks, TwoCanBeCreated
    <3>2. two[1].fields = Nothing /\ two[2].fields = Nothing
      BY DEF TaskInput
    <3> HIDE DEF two
    <3> QED
      BY <3>1, <3>2 DEF Fits, Scripts, Nothing
  <2> QED
    BY <2>1, <2>2, BatchKeeps, InvokedKeeps DEF batchCreateTasks, TaskBatchCreate
<1>7. ASSUME UpdateTask PROVE Fine
  <2>1. PICK t \in TaskArgs, patch \in Patches, cut \in BOOLEAN :
           Invoke("updateTask", <<t, patch, cut>>, updateTask(db, t, patch, cut))
    BY <1>7 DEF UpdateTask
  <2> DEFINE r == updateTask(db, t, patch, cut)
  <2>2. Sound(r.doc) /\ (r.code \notin {"OK", "Unsupported", "Script"} => SameRows(r.doc, db))
    BY UpdateTaskKeeps, ArgumentsSayNoPlace
  <2> HIDE DEF r
  <2> QED
    BY <2>1, <2>2, Invoked DEF HalfDone, r
<1>8. ASSUME BatchUpdateTasks PROVE Fine
  <2>1. PICK s \in TaskLists, p \in Patches :
           LET updates == [i \in DOMAIN s |-> [id |-> s[i], patch |-> IF i = 1 THEN p ELSE [flagged |-> FALSE]]]
           IN Invoke("batchUpdateTasks", <<updates>>, batchUpdateTasks(db, updates))
    BY <1>8 DEF BatchUpdateTasks
  <2> DEFINE updates == [i \in DOMAIN s |-> [id |-> s[i], patch |-> IF i = 1 THEN p ELSE [flagged |-> FALSE]]]
  <2>2. Len(updates) \in Nat /\ \A i \in 1..Len(updates) : "at" \notin DOMAIN updates[i].patch
    <3>1. DOMAIN s = 1..Len(s) /\ Len(s) \in Nat
      BY ListsAssumption
    <3>2. Len(updates) = Len(s)
      BY <3>1
    <3> QED
      BY <3>1, <3>2, ArgumentsSayNoPlace
  <2> HIDE DEF updates
  <2>3. Fits("task_batch_update", db, updates)
    BY <2>2 DEF Fits, Scripts
  <2> QED
    BY <2>1, <2>3, BatchKeeps, InvokedKeeps DEF batchUpdateTasks, TaskBatchUpdate, updates
<1>9. ASSUME CompleteTask PROVE Fine
  BY <1>9, InvokedKeeps, MarksKeep DEF CompleteTask, completeTask
<1>10. ASSUME UncompleteTask PROVE Fine
  BY <1>10, InvokedKeeps, MarksKeep DEF UncompleteTask, uncompleteTask
<1>11. ASSUME DropTask PROVE Fine
  BY <1>11, InvokedKeeps, MarksKeep DEF DropTask, dropTask
<1>12. ASSUME UndropTask PROVE Fine
  BY <1>12, InvokedKeeps, MarksKeep DEF UndropTask, undropTask
<1>13. ASSUME DeleteTask PROVE Fine
  BY <1>13, InvokedKeeps, DeleteKeeps DEF DeleteTask, deleteTask
<1>14. ASSUME BatchCompleteTasks PROVE Fine
  <2>1. PICK s \in TaskLists : Invoke("batchCompleteTasks", <<s>>, batchCompleteTasks(db, s))
    BY <1>14 DEF BatchCompleteTasks
  <2>2. Fits("task_batch_complete", db, s)
    BY ListsAssumption DEF Fits, Scripts
  <2> QED
    BY <2>1, <2>2, BatchKeeps, InvokedKeeps DEF batchCompleteTasks, TaskBatchComplete
<1>15. ASSUME BatchUncompleteTasks PROVE Fine
  <2>1. PICK s \in TaskLists : Invoke("batchUncompleteTasks", <<s>>, batchUncompleteTasks(db, s))
    BY <1>15 DEF BatchUncompleteTasks
  <2>2. Fits("task_batch_uncomplete", db, s)
    BY ListsAssumption DEF Fits, Scripts
  <2> QED
    BY <2>1, <2>2, BatchKeeps, InvokedKeeps DEF batchUncompleteTasks, TaskBatchUncomplete
<1>16. ASSUME BatchDropTasks PROVE Fine
  <2>1. PICK s \in TaskLists : Invoke("batchDropTasks", <<s>>, batchDropTasks(db, s))
    BY <1>16 DEF BatchDropTasks
  <2>2. Fits("task_batch_drop", db, s)
    BY ListsAssumption DEF Fits, Scripts
  <2> QED
    BY <2>1, <2>2, BatchKeeps, InvokedKeeps DEF batchDropTasks, TaskBatchDrop
<1>17. ASSUME BatchUndropTasks PROVE Fine
  <2>1. PICK s \in TaskLists : Invoke("batchUndropTasks", <<s>>, batchUndropTasks(db, s))
    BY <1>17 DEF BatchUndropTasks
  <2>2. Fits("task_batch_undrop", db, s)
    BY ListsAssumption DEF Fits, Scripts
  <2> QED
    BY <2>1, <2>2, BatchKeeps, InvokedKeeps DEF batchUndropTasks, TaskBatchUndrop
<1>18. ASSUME BatchDeleteTasks PROVE Fine
  <2>1. PICK s \in TaskLists : Invoke("batchDeleteTasks", <<s>>, batchDeleteTasks(db, s))
    BY <1>18 DEF BatchDeleteTasks
  <2>2. Fits("task_batch_delete", db, s)
    BY ListsAssumption DEF Fits, Scripts
  <2> QED
    BY <2>1, <2>2, BatchKeeps, InvokedKeeps DEF batchDeleteTasks, TaskBatchDelete
<1>19. ASSUME MoveTo PROVE Fine
  BY <1>19, InvokedKeeps, TaskMoveKeeps DEF MoveTo, moveTask
<1>20. ASSUME BatchMoveTasks PROVE Fine
  <2>1. PICK s \in TaskLists, to \in SomePlaces :
           LET items == [i \in DOMAIN s |-> [id |-> s[i], to |-> to]]
           IN Invoke("batchMoveTasks", <<items>>, batchMoveTasks(db, items))
    BY <1>20 DEF BatchMoveTasks
  <2> DEFINE items == [i \in DOMAIN s |-> [id |-> s[i], to |-> to]]
  <2>2. Len(items) \in Nat
    <3>1. DOMAIN s = 1..Len(s) /\ Len(s) \in Nat
      BY ListsAssumption
    <3> QED
      BY <3>1
  <2> HIDE DEF items
  <2>3. Fits("task_batch_move", db, items)
    BY <2>2 DEF Fits, Scripts
  <2> QED
    BY <2>1, <2>3, BatchKeeps, InvokedKeeps DEF batchMoveTasks, TaskBatchMove, items
<1>21. ASSUME ReorderTask PROVE Fine
  BY <1>21, InvokedKeeps, ReorderKeeps DEF ReorderTask, reorderTask
<1>22. ASSUME DuplicateTask PROVE Fine
  <2>1. PICK t \in TaskArgs, to \in SomePlaces, inbox \in BOOLEAN, all \in BOOLEAN, cut \in BOOLEAN :
           LET where == to @@ [inbox |-> inbox] IN
           /\ Has(db.tasks, t) => CopyIds(db, t, Subtree(db, t)) # {}
           /\ Invoke("duplicateTask", <<t, where, all, cut>>, duplicateTask(db, t, where, all, cut))
    BY <1>22 DEF DuplicateTask
  <2> DEFINE where == to @@ [inbox |-> inbox]
  <2>2. KeepsOrStops(duplicateTask(db, t, where, all, cut), db)
    BY <2>1, DuplicateKeeps DEF duplicateTask
  <2> HIDE DEF where
  <2> QED
    BY <2>1, <2>2, InvokedStops DEF where
<1>23. ASSUME ConvertTaskToProject PROVE Fine
  BY <1>23, InvokedKeeps, ConvertKeeps DEF ConvertTaskToProject, convertTaskToProject
<1>24. ASSUME SetTaskAlarms PROVE Fine
  <2>1. PICK t \in TaskArgs, s \in AlarmLists : Invoke("setTaskAlarms", <<t, s>>, setTaskAlarms(db, t, s))
    BY <1>24 DEF SetTaskAlarms
  <2> DEFINE r == setTaskAlarms(db, t, s)
  <2>2. KeepsOrStops(r, db)
    BY AlarmsKeep DEF setTaskAlarms
  <2> HIDE DEF r
  <2> QED
    BY <2>1, <2>2, InvokedStops DEF r
<1>25. ASSUME ClearTaskAlarms PROVE Fine
  BY <1>25, InvokedKeeps, AlarmsKeep DEF ClearTaskAlarms, clearTaskAlarms
<1> QED
  BY <1>1, <1>2, <1>3, <1>4, <1>5, <1>6, <1>7, <1>8, <1>9, <1>10, <1>11, <1>12, <1>13, <1>14, <1>15, <1>16, <1>17, <1>18, <1>19, <1>20, <1>21, <1>22, <1>23, <1>24, <1>25 DEF Tasks

\* The calls about projects.
LEMMA ProjectsFine ==
    ASSUME Sound(db), Projects
    PROVE  Fine
<1>1. ASSUME ListProjects PROVE Fine
  BY <1>1, InvokedKeeps, LibraryReadsKeep DEF ListProjects
<1>2. ASSUME GetProject PROVE Fine
  BY <1>2, InvokedKeeps, LibraryReadsKeep DEF GetProject
<1>3. ASSUME GetProjectsMany PROVE Fine
  BY <1>3, InvokedKeeps, LibraryReadsKeep DEF GetProjectsMany
<1>4. ASSUME CreateProject PROVE Fine
  <2>1. PICK a, stuck : /\ DOMAIN a = {"blank", "folder", "fields"} /\ "folder" \notin DOMAIN a.fields
                        /\ Invoke("createProject", <<a, stuck>>, createProject(db, a, stuck))
    <3>1. PICK f \in OrNone(FolderArgs), blank \in BOOLEAN, stuck \in BOOLEAN,
               fields \in {[flagged |-> TRUE, interval |-> 7], [flagged |-> TRUE, interval |-> 0],
                          [tags |-> TagArgs]} :
             LET a == [blank |-> blank, folder |-> f, fields |-> fields]
             IN Invoke("createProject", <<a, stuck>>, createProject(db, a, stuck))
      BY <1>4 DEF CreateProject
    <3>2. "folder" \notin DOMAIN fields
      OBVIOUS
    <3> QED
      BY <3>1, <3>2
  <2> DEFINE b == [a EXCEPT !.fields = Without(@, {"tags", "next"})]
             r == createProject(db, a, stuck)
  <2>2. "folder" \notin DOMAIN b.fields /\ b.blank = a.blank
    BY <2>1 DEF Without, Restrict
  <2>3. r = ProjectCreate(db, b, stuck) /\ CanCreate(db, ProjectIds)
    BY <1>4 DEF createProject, CreateProject
  <2> HIDE DEF b, r
  <2>4. Sound(r.doc) /\ (r.code # "OK" => SameRows(r.doc, db) \/ (r.code = "Validation" /\ stuck /\ ~a.blank))
    BY <2>2, <2>3, ProjectCreateKeeps
  <2> QED
    BY <2>1, <2>4, Invoked DEF HalfDone, r
<1>5. ASSUME UpdateProject PROVE Fine
  <2>1. PICK p, patch, cut : Invoke("updateProject", <<p, patch, cut>>, updateProject(db, p, patch, cut))
    BY <1>5 DEF UpdateProject
  <2> DEFINE r == updateProject(db, p, patch, cut)
  <2>2. Sound(r.doc) /\ (r.code \notin {"OK", "Unsupported", "Script"} => SameRows(r.doc, db))
    BY ProjectUpdateKeeps DEF updateProject
  <2> HIDE DEF r
  <2> QED
    BY <2>1, <2>2, Invoked DEF HalfDone, r
<1>6. ASSUME CompleteProject PROVE Fine
  BY <1>6, InvokedKeeps, ProjectSetsKeep DEF CompleteProject, completeProject
<1>7. ASSUME DropProject PROVE Fine
  BY <1>7, InvokedKeeps, ProjectSetsKeep DEF DropProject, dropProject
<1>8. ASSUME BatchCompleteProjects PROVE Fine
  <2>1. PICK s \in ProjectLists : Invoke("batchCompleteProjects", <<s>>, batchCompleteProjects(db, s))
    BY <1>8 DEF BatchCompleteProjects
  <2>2. Fits("project_batch_complete", db, s)
    BY ListsAssumption DEF Fits, Scripts
  <2> QED
    BY <2>1, <2>2, BatchKeeps, InvokedKeeps DEF batchCompleteProjects, ProjectBatchComplete
<1>9. ASSUME BatchDropProjects PROVE Fine
  <2>1. PICK s \in ProjectLists : Invoke("batchDropProjects", <<s>>, batchDropProjects(db, s))
    BY <1>9 DEF BatchDropProjects
  <2>2. Fits("project_batch_drop", db, s)
    BY ListsAssumption DEF Fits, Scripts
  <2> QED
    BY <2>1, <2>2, BatchKeeps, InvokedKeeps DEF batchDropProjects, ProjectBatchDrop
<1>10. ASSUME MoveProject PROVE Fine
  BY <1>10, InvokedKeeps, ProjectSetsKeep DEF MoveProject, moveProject
<1>11. ASSUME DeleteProject PROVE Fine
  BY <1>11, InvokedKeeps, ProjectDeleteKeeps DEF DeleteProject, deleteProject
<1>12. ASSUME MarkProjectReviewed PROVE Fine
  BY <1>12, InvokedKeeps, ReviewedKeeps DEF MarkProjectReviewed, markProjectReviewed
<1>13. ASSUME ListProjectsDueForReview PROVE Fine
  BY <1>13, InvokedKeeps, LibraryReadsKeep DEF ListProjectsDueForReview
<1>14. ASSUME SetProjectReviewInterval PROVE Fine
  BY <1>14, InvokedKeeps, ProjectSetsKeep DEF SetProjectReviewInterval, setProjectReviewInterval
<1>15. ASSUME SetProjectNextReviewDate PROVE Fine
  BY <1>15, InvokedKeeps, ProjectSetsKeep DEF SetProjectNextReviewDate, setProjectNextReviewDate
<1> QED
  BY <1>1, <1>2, <1>3, <1>4, <1>5, <1>6, <1>7, <1>8, <1>9, <1>10, <1>11, <1>12, <1>13, <1>14, <1>15 DEF Projects

\* The calls about tags and folders.
LEMMA TagsAndFoldersFine ==
    ASSUME Sound(db), TagsAndFolders
    PROVE  Fine
<1>1. ASSUME ListTags PROVE Fine
  BY <1>1, InvokedKeeps, LibraryReadsKeep DEF ListTags
<1>2. ASSUME GetTag PROVE Fine
  BY <1>2, InvokedKeeps, LibraryReadsKeep DEF GetTag
<1>3. ASSUME GetTagsMany PROVE Fine
  BY <1>3, InvokedKeeps, LibraryReadsKeep DEF GetTagsMany
<1>4. ASSUME CreateTag PROVE Fine
  BY <1>4, InvokedKeeps, TagCreateKeeps DEF CreateTag, createTag
<1>5. ASSUME UpdateTag PROVE Fine
  BY <1>5, InvokedKeeps, TagUpdateKeeps DEF UpdateTag, updateTag
<1>6. ASSUME DeleteTag PROVE Fine
  BY <1>6, InvokedKeeps, TagDeleteKeeps DEF DeleteTag, deleteTag
<1>7. ASSUME ListFolders PROVE Fine
  BY <1>7, InvokedKeeps, LibraryReadsKeep DEF ListFolders
<1>8. ASSUME GetFolder PROVE Fine
  BY <1>8, InvokedKeeps, LibraryReadsKeep DEF GetFolder
<1>9. ASSUME CreateFolder PROVE Fine
  BY <1>9, InvokedKeeps, FolderCreateKeeps DEF CreateFolder, createFolder
<1>10. ASSUME UpdateFolder PROVE Fine
  BY <1>10, InvokedKeeps, LibraryReadsKeep DEF UpdateFolder
<1>11. ASSUME DeleteFolder PROVE Fine
  BY <1>11, InvokedKeeps, FolderDeleteKeeps DEF DeleteFolder, deleteFolder
<1> QED
  BY <1>1, <1>2, <1>3, <1>4, <1>5, <1>6, <1>7, <1>8, <1>9, <1>10, <1>11 DEF TagsAndFolders

\* The others.
LEMMA OthersFine ==
    ASSUME Sound(db), Others
    PROVE  Fine
<1>1. ASSUME GetForecast PROVE Fine
  BY <1>1, InvokedKeeps, OtherReadsKeep DEF GetForecast
<1>2. ASSUME GetForecastTag PROVE Fine
  BY <1>2, InvokedKeeps, OtherReadsKeep DEF GetForecastTag
<1>3. ASSUME SetForecastTag PROVE Fine
  BY <1>3, InvokedKeeps, OtherWritesKeep DEF SetForecastTag
<1>4. ASSUME ListPerspectives PROVE Fine
  BY <1>4, InvokedKeeps, OtherReadsKeep DEF ListPerspectives
<1>5. ASSUME EvaluatePerspective PROVE Fine
  BY <1>5, InvokedKeeps, OtherReadsKeep DEF EvaluatePerspective
<1>6. ASSUME GetCustomPerspective PROVE Fine
  BY <1>6, InvokedKeeps, OtherReadsKeep DEF GetCustomPerspective
<1>7. ASSUME EvaluateCustomPerspective PROVE Fine
  BY <1>7, InvokedKeeps, OtherReadsKeep DEF EvaluateCustomPerspective
<1>8. ASSUME EvaluatePerspectiveRules PROVE Fine
  <2>1. PICK x \in Faults : Invoke("evaluatePerspectiveRules", <<{"flagged"}, x>>, evaluatePerspectiveRules(db, {"flagged"}, x))
    BY <1>8 DEF EvaluatePerspectiveRules
  <2> DEFINE r == evaluatePerspectiveRules(db, {"flagged"}, x)
  <2>2. Sound(r.doc) /\ (r.code # "OK" => SameRows(r.doc, db) \/ x = "rollback")
    BY DryRunKeeps
  <2> HIDE DEF r
  <2> QED
    BY <2>1, <2>2, Invoked DEF HalfDone, r, Last
<1>9. ASSUME CreateCustomPerspective PROVE Fine
  <2>1. PICK a \in PerspectiveInputs, x \in Faults : Invoke("createCustomPerspective", <<a, x>>, createCustomPerspective(db, a, x))
    BY <1>9 DEF CreateCustomPerspective
  <2> DEFINE r == createCustomPerspective(db, a, x)
  <2>2. Sound(r.doc) /\ (r.code # "OK" => SameRows(r.doc, db) \/ x = "rollback")
    BY PerspectiveCreateKeeps
  <2> HIDE DEF r
  <2> QED
    BY <2>1, <2>2, Invoked DEF HalfDone, r, Last
<1>10. ASSUME UpdateCustomPerspective PROVE Fine
  <2>1. PICK v \in PerspectiveIds, patch \in PerspectiveInputs, x \in {"no", "configure"} : Invoke("updateCustomPerspective", <<v, patch, x>>, updateCustomPerspective(db, v, patch, x))
    BY <1>10 DEF UpdateCustomPerspective
  <2> DEFINE r == updateCustomPerspective(db, v, patch, x)
  <2>2. Sound(r.doc) /\ (r.code # "OK" => SameRows(r.doc, db) \/ x = "configure")
    BY PerspectiveUpdateKeeps
  <2> HIDE DEF r
  <2> QED
    BY <2>1, <2>2, Invoked DEF HalfDone, r, Last
<1>11. ASSUME DeleteCustomPerspective PROVE Fine
  BY <1>11, InvokedKeeps, OtherWritesKeep DEF DeleteCustomPerspective
<1>12. ASSUME ListAttachments PROVE Fine
  BY <1>12, InvokedKeeps, OtherReadsKeep DEF ListAttachments
<1>13. ASSUME AddAttachment PROVE Fine
  BY <1>13, InvokedKeeps, OtherWritesKeep DEF AddAttachment
<1>14. ASSUME RemoveAttachment PROVE Fine
  BY <1>14, InvokedKeeps, OtherWritesKeep DEF RemoveAttachment
<1>15. ASSUME SaveAttachmentToPath PROVE Fine
  BY <1>15, InvokedKeeps, OtherWritesKeep DEF SaveAttachmentToPath
<1>16. ASSUME GetWindowState PROVE Fine
  BY <1>16, InvokedKeeps, OtherReadsKeep DEF GetWindowState
<1>17. ASSUME SetWindowFocus PROVE Fine
  BY <1>17, InvokedKeeps, OtherWritesKeep DEF SetWindowFocus
<1>18. ASSUME SetWindowPerspective PROVE Fine
  BY <1>18, InvokedKeeps, OtherWritesKeep DEF SetWindowPerspective
<1>19. ASSUME UndoLastMutation PROVE Fine
  BY <1>19, InvokedKeeps, UndoKeeps DEF UndoLastMutation
<1>20. ASSUME RedoLastMutation PROVE Fine
  BY <1>20, InvokedKeeps, UndoKeeps DEF RedoLastMutation
<1> QED
  BY <1>1, <1>2, <1>3, <1>4, <1>5, <1>6, <1>7, <1>8, <1>9, <1>10, <1>11, <1>12, <1>13, <1>14, <1>15, <1>16, <1>17, <1>18, <1>19, <1>20 DEF Others

\* Every call leaves a document, and the one it found when it is refused.
LEMMA CallsFine == ASSUME Sound(db), AdapterNext PROVE Fine
BY TasksFine, ProjectsFine, TagsAndFoldersFine, OthersFine DEF AdapterNext

\* The document stays one, whatever is asked of the adapter in whatever order,
\* with any arguments and any number of objects.
THEOREM DocumentStaysOne == AdapterSpec => []WellFormed
<1>1. AdapterInit => WellFormed
  BY StartsAssumption DEF AdapterInit, WellFormed
<1>2. WellFormed /\ [AdapterNext]_adapterVars => WellFormed'
  <2> SUFFICES ASSUME Sound(db), [AdapterNext]_adapterVars PROVE Sound(db')
    BY DEF WellFormed
  <2>1. CASE AdapterNext
    BY <2>1, CallsFine DEF Fine
  <2>2. CASE UNCHANGED adapterVars
    BY <2>2 DEF adapterVars
  <2> QED
    BY <2>1, <2>2
<1> QED
  BY <1>1, <1>2, PTL DEF AdapterSpec

\* A call that is answered with an error has left the document as it was, but
\* for what the scripts are known to leave half done.
THEOREM RefusedCallsLeaveNothing == AdapterSpec => RefusedLeavesNothing
<1>1. WellFormed /\ [AdapterNext]_adapterVars =>
          [answer'.code # "OK" /\ ~HalfDone(answer') => [db' EXCEPT !.used = db.used] = db]_adapterVars
  <2> SUFFICES ASSUME Sound(db), AdapterNext
               PROVE  answer'.code # "OK" /\ ~HalfDone(answer') => [db' EXCEPT !.used = db.used] = db
    BY DEF WellFormed
  <2> QED
    BY CallsFine DEF Fine, SameRows
<1> QED
  BY <1>1, DocumentStaysOne, PTL DEF AdapterSpec, RefusedLeavesNothing
=============================================================================
