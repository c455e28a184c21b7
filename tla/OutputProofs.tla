---------------------------- MODULE OutputProofs ----------------------------
(***************************************************************************)
(* Proofs about the output of a process, from its capture file to the      *)
(* calls that show it.                                                     *)
(*                                                                         *)
(* Logs, for any number of calls, any filters and any queue length: the    *)
(* counts of dropped lines are exact, a follow that ends on the exit       *)
(* carries the output of the run, and the calls implement LogStream.  The  *)
(* argument is about one call at a time.  Settled(f) relates the queue of  *)
(* f to what f has received and to the buffer's next line; a step of       *)
(* another call leaves all of these alone.  A replay during which nothing  *)
(* is appended is exact: Reads says how the lines lie in the files, the    *)
(* write buffer and the ring, and what a call has gathered of them.        *)
(*                                                                         *)
(* Capture, for any line ends, any bounds and any number of crashes: every *)
(* byte is accounted for, the history is in order as long as no agent is   *)
(* killed, its lines are whole, and a drained file was drained.  The       *)
(* argument is about numbers: what the file, the tailer and the bytes      *)
(* ahead hold are three runs of consecutive bytes that meet (Flow), and    *)
(* all that a line of the history can be is a part of such a run.          *)
(***************************************************************************)
EXTENDS Logs, Capture, FiniteSetTheorems, SequenceTheorems, TLAPS

\* The deliveries queued for f, oldest first, lie between the line that f
\* expects and the next line of the buffer.
Ordered(f) ==
  /\ call[f].at <= nextSeq
  /\ \A i \in 1 .. Len(queue[f]) : call[f].at <= queue[f][i].seq /\ queue[f][i].seq < nextSeq
  /\ \A i, j \in 1 .. Len(queue[f]) : i < j => queue[f][i].seq < queue[f][j].seq

Gaps(f) ==
  /\ \A i \in 1 .. Len(queue[f]) : queue[f][i].seq = Due(f, i - 1) + queue[f][i].dropped
  /\ Due(f, Len(queue[f])) + pending[f] = nextSeq

\* A call that never subscribed has nothing queued and nothing counted.
Detached(f) ==
  /\ f \notin subs /\ queue[f] = <<>> /\ pending[f] = 0
  /\ call[f].told = 0 /\ call[f].owed = 0 /\ call[f].shown = 0

Late(f) == \A i \in 1 .. Len(queue[f]) : queue[f][i].seq >= call[f].saw

Settled(f) ==
  /\ call[f].pc = "idle" => call[f] = Idle
  /\ ~call[f].follow => Detached(f)
  /\ f \in subs => Attached(f)
  /\ Attached(f) /\ ~closed => f \in subs
  /\ Attached(f) => Gaps(f) /\ Ordered(f)
  /\ call[f].saw <= exitSeq
  /\ call[f].end = "exit" => call[f].pc \in {"summary", "done"} /\ Late(f)

IInv ==
  /\ FollowType
  /\ exitSeq <= nextSeq
  /\ \A f \in Followers : Settled(f)

\* What a step of another call leaves of f.
Same(f) ==
  /\ nextSeq' = nextSeq /\ closed' = closed /\ exitSeq' = exitSeq
  /\ call'[f] = call[f] /\ queue'[f] = queue[f] /\ pending'[f] = pending[f]
  /\ (f \in subs') <=> (f \in subs)

LEMMA SameSettled ==
  ASSUME NEW f \in Followers, Settled(f), Same(f)
  PROVE  Settled(f)'
  BY DEF Settled, Same, Attached, Gaps, Ordered, Detached, Late, Due

-----------------------------------------------------------------------------
(* Types *)

LEMMA CallFields ==
  ASSUME NEW f \in Followers, FollowType
  PROVE  /\ call[f] \in CallType
         /\ queue[f] \in Seq(Delivery) /\ pending[f] \in Nat
         /\ Len(queue[f]) \in Nat
         /\ \A i \in 1 .. Len(queue[f]) : queue[f][i] \in Delivery
  BY DEF FollowType

LEMMA IdleType == Idle \in CallType
  BY DEF Idle, CallType, PCs

LEMMA InitType == Init => FollowType
<1> SUFFICES ASSUME Init PROVE FollowType OBVIOUS
<1>1. queue \in [Followers -> Seq(Delivery)]
  <2>1. <<>> \in Seq(Delivery) OBVIOUS
  <2> QED BY <2>1 DEF Init
<1>2. pending \in [Followers -> Nat] /\ call \in [Followers -> CallType]
  BY IdleType DEF Init
<1> QED BY <1>1, <1>2 DEF Init, FollowType

\* The steps of the replay change the pc of one call and its replay.
LEMMA ReadingType ==
  ASSUME FollowType, NEW f \in Followers, NEW from, NEW to \in PCs, Reading(f, from, to)
  PROVE  FollowType'
  BY DEF FollowType, Reading, GoOn, bufVars, CallType

LEMMA AppendType ==
  ASSUME FollowType, AppendLine
  PROVE  FollowType'
<1>1. nextSeq \in Nat /\ nextSeq' = nextSeq + 1 BY DEF FollowType, AppendLine
<1>2. ASSUME NEW f \in Followers
      PROVE  /\ queue'[f] \in Seq(Delivery)
             /\ pending'[f] \in Nat
  <2>1. [seq |-> nextSeq, dropped |-> pending[f]] \in Delivery
    BY <1>1, CallFields DEF Delivery
  <2>2. Append(queue[f], [seq |-> nextSeq, dropped |-> pending[f]]) \in Seq(Delivery)
    BY <2>1, CallFields
  <2>3. pending[f] + 1 \in Nat BY CallFields
  <2> QED BY <2>2, <2>3, CallFields DEF AppendLine, Counted, Room
<1>3. queue' \in [Followers -> Seq(Delivery)] BY <1>2 DEF AppendLine, Counted, Room
<1>4. pending' \in [Followers -> Nat] BY <1>2 DEF AppendLine, Counted, Room
<1> QED BY <1>1, <1>3, <1>4 DEF FollowType, AppendLine, Counted, Room

LEMMA ReceiveType ==
  ASSUME FollowType, NEW f \in Followers, Receive(f)
  PROVE  FollowType'
<1> DEFINE d    == Head(queue[f])
           c    == call[f]
           shows == d.seq \in Filter[f]
           pc_   == IF c.pc = "select" THEN "top" ELSE "drain"
           at_    == d.seq + 1
           told_  == c.told + d.dropped
           owed_  == IF shows THEN 0 ELSE c.owed + d.dropped
           shown_ == IF shows THEN c.shown + 1 ELSE c.shown
<1>1. d \in Delivery /\ Tail(queue[f]) \in Seq(Delivery)
  BY CallFields DEF Receive, Carried
<1>2. d.seq \in Nat /\ d.dropped \in Nat BY <1>1 DEF Delivery
<1>3. call' \in [Followers -> CallType]
  <2>1. c.told \in Nat /\ c.owed \in Nat /\ c.shown \in Nat
    BY CallFields DEF CallType
  <2>2. pc_ \in PCs BY DEF PCs
  <2> HIDE DEF d, c
  <2>3. told_ \in Nat /\ owed_ \in Nat /\ shown_ \in Nat /\ at_ \in Nat
    BY <1>2, <2>1
  <2>4. call' = [call EXCEPT ![f].pc = pc_, ![f].at = at_, ![f].told = told_,
                             ![f].owed = owed_, ![f].shown = shown_]
    BY DEF Receive, Carried, d, c
  <2> HIDE DEF pc_, at_, told_, owed_, shown_
  <2>5. PICK p \in PCs, a \in Nat, t \in Nat, o \in Nat, s \in Nat :
          call' = [call EXCEPT ![f].pc = p, ![f].at = a, ![f].told = t,
                               ![f].owed = o, ![f].shown = s]
    BY <2>2, <2>3, <2>4
  <2>6. [call[f] EXCEPT !.pc = p, !.at = a, !.told = t, !.owed = o, !.shown = s] \in CallType
    BY CallFields DEF CallType
  <2> QED BY <2>5, <2>6 DEF FollowType
<1>4. queue' \in [Followers -> Seq(Delivery)] BY <1>1 DEF FollowType, Receive, Carried
<1> QED BY <1>3, <1>4 DEF FollowType, Receive, Carried, Following, bufVars

LEMMA SnapshotType ==
  ASSUME FollowType, NEW f \in Followers, NEW follow \in BOOLEAN, Snapshot(f, follow)
  PROVE  FollowType'
<1> DEFINE x == [Idle EXCEPT !.pc = "stats", !.follow = follow, !.at = nextSeq]
<1>1. x \in CallType BY IdleType DEF FollowType, Idle, CallType, PCs
<1>2. call' \in [Followers -> CallType] BY <1>1 DEF FollowType, Snapshot
<1> QED BY <1>2 DEF FollowType, Snapshot, bufVars

LEMMA SummariseType ==
  ASSUME FollowType, NEW f \in Followers, Summarise(f)
  PROVE  FollowType'
<1> DEFINE t == call[f].told + pending[f]
           x == [call[f] EXCEPT !.pc = "done", !.told = t]
<1>1. t \in Nat
  <2>1. call[f].told \in Nat /\ pending[f] \in Nat BY CallFields DEF CallType
  <2> QED BY <2>1
<1> HIDE DEF t
<1>2. x \in CallType BY <1>1, CallFields DEF CallType, PCs
<1>3. call' = [call EXCEPT ![f] = x] BY DEF FollowType, Summarise, t
<1>4. call' \in [Followers -> CallType] BY <1>2, <1>3 DEF FollowType
<1> QED BY <1>4 DEF FollowType, Summarise

\* The remaining steps of a call move its pc and may note the exit it saw or
\* why it ended.
LEMMA TurnType ==
  ASSUME FollowType, NEW f \in Followers,
         Look(f) \/ Emptied(f) \/ Deadline(f) \/ Changed(f) \/ Abandon(f)
  PROVE  FollowType'
<1> DEFINE Ends == {"none", "exit", "removed", "deadline", "gone"}
<1>1. CASE Look(f)
  <2> DEFINE p == IF ended THEN "drain" ELSE "select"
             w == IF ended THEN exitSeq ELSE 0
  <2>1. p \in PCs /\ w \in Nat BY DEF PCs, FollowType
  <2>2. call' = [call EXCEPT ![f].pc = p, ![f].saw = w] BY <1>1 DEF Look
  <2> HIDE DEF p, w
  <2>3. [call[f] EXCEPT !.pc = p, !.saw = w] \in CallType
    BY <2>1, CallFields DEF CallType
  <2>4. call' \in [Followers -> CallType] BY <2>2, <2>3 DEF FollowType
  <2> QED BY <1>1, <2>4 DEF FollowType, Following, bufVars, Look
<1>2. CASE Emptied(f) \/ Deadline(f) \/ Abandon(f)
  <2>1. PICK p \in PCs, e \in Ends : call' = [call EXCEPT ![f].pc = p, ![f].end = e]
    <3>1. "summary" \in PCs /\ "done" \in PCs BY DEF PCs
    <3>2. CASE Emptied(f)
      <4> DEFINE e == IF call[f].pc = "drain" THEN "exit" ELSE "removed"
      <4>1. e \in Ends OBVIOUS
      <4>2. call' = [call EXCEPT ![f].pc = "summary", ![f].end = e] BY <3>2 DEF Emptied
      <4> HIDE DEF e
      <4> QED BY <3>1, <4>1, <4>2
    <3>3. CASE Deadline(f) BY <3>1, <3>3 DEF Deadline
    <3>4. CASE Abandon(f) BY <3>1, <3>4 DEF Abandon
    <3> QED BY <1>2, <3>2, <3>3, <3>4
  <2>2. [call[f] EXCEPT !.pc = p, !.end = e] \in CallType
    BY CallFields DEF CallType
  <2>3. call' \in [Followers -> CallType] BY <2>1, <2>2 DEF FollowType
  <2> QED
    BY <1>2, <2>3 DEF FollowType, Following, bufVars, Emptied, Deadline, Abandon
<1>3. CASE Changed(f)
  <2>1. [call[f] EXCEPT !.pc = "top"] \in CallType BY CallFields DEF CallType, PCs
  <2>2. call' \in [Followers -> CallType] BY <1>3, <2>1 DEF FollowType, Changed
  <2> QED BY <1>3, <2>2 DEF FollowType, Following, bufVars, Changed
<1> QED BY <1>1, <1>2, <1>3

-----------------------------------------------------------------------------
(* The steps of a call *)

\* A step that leaves the counts, the queue and the subscription of f alone.
Turn(f) ==
  LET c == call[f]
      d == call'[f]
  IN  /\ nextSeq' = nextSeq /\ closed' = closed /\ exitSeq' = exitSeq
      /\ queue'[f] = queue[f] /\ pending'[f] = pending[f] /\ (f \in subs') = (f \in subs)
      /\ c.pc \notin {"idle", "summary", "done"} /\ d.pc \notin {"idle", "done"}
      /\ d.follow = c.follow /\ d.at = c.at /\ d.told = c.told
      /\ d.owed = c.owed /\ d.shown = c.shown
      /\ d.saw <= exitSeq
      /\ d.end # "exit"

LEMMA TurnSettled ==
  ASSUME NEW f \in Followers, Settled(f), Turn(f)
  PROVE  Settled(f)'
  BY DEF Turn, Settled, Attached, Gaps, Ordered, Detached, Late, Due

\* The steps of the replay and the bookkeeping of the follow loop.
LEMMA TurnSteps ==
  ASSUME FollowType, NEW f \in Followers, Settled(f),
         \/ Stats(f) \/ Oldest(f) \/ ListSegments(f) \/ ReadFile(f) \/ Assemble(f)
         \/ Look(f) \/ Deadline(f) \/ Changed(f)
  PROVE  Turn(f)
<1>0. call[f] \in CallType /\ exitSeq \in Nat BY CallFields DEF FollowType
<1>1. call[f].saw <= exitSeq /\ (call[f].end = "exit" => call[f].pc \in {"summary", "done"})
  BY DEF Settled
<1>2. ASSUME NEW from \in {"stats", "oldest", "segments", "files", "assemble"},
             NEW to \in {"oldest", "segments", "files", "assemble", "top", "summary"},
             Reading(f, from, to)
      PROVE  Turn(f)
  BY <1>0, <1>1, <1>2 DEF Turn, Reading, GoOn, bufVars, FollowType
<1>3. CASE Stats(f) BY <1>2, <1>3 DEF Stats
<1>4. CASE Oldest(f)
  <2>1. Reading(f, "oldest", "segments") \/ Reading(f, "oldest", "assemble")
    BY <1>4 DEF Oldest
  <2> QED BY <1>2, <2>1
<1>5. CASE ListSegments(f) BY <1>2, <1>5 DEF ListSegments
<1>6. CASE ReadFile(f)
  <2>1. Reading(f, "files", "assemble") \/ Reading(f, "files", "files")
    BY <1>6 DEF ReadFile
  <2> QED BY <1>2, <2>1
<1>7. CASE Assemble(f)
  <2>1. Reading(f, "assemble", "top") \/ Reading(f, "assemble", "summary")
    BY <1>7 DEF Assemble
  <2> QED BY <1>2, <2>1
<1>8. CASE Look(f)
  BY <1>0, <1>1, <1>8 DEF Turn, Look, Following, bufVars, FollowType
<1>9. CASE Deadline(f)
  BY <1>0, <1>1, <1>9 DEF Turn, Deadline, Following, bufVars, FollowType
<1>10. CASE Changed(f)
  BY <1>0, <1>1, <1>10 DEF Turn, Changed, Following, bufVars, FollowType
<1> QED BY <1>3, <1>4, <1>5, <1>6, <1>7, <1>8, <1>9, <1>10

\* The first step: the subscription starts at the buffer's next line.
LEMMA SnapshotSettles ==
  ASSUME FollowType, NEW f \in Followers, Settled(f), NEW follow \in BOOLEAN,
         Snapshot(f, follow)
  PROVE  Settled(f)'
<1>1. call[f] = Idle /\ call'[f] = [Idle EXCEPT !.pc = "stats", !.follow = follow, !.at = nextSeq]
  BY DEF Snapshot, FollowType
<1>2. /\ call'[f].pc = "stats" /\ call'[f].follow = follow /\ call'[f].at = nextSeq
      /\ call'[f].told = 0 /\ call'[f].owed = 0 /\ call'[f].shown = 0
      /\ call'[f].saw = 0 /\ call'[f].end = "none"
  BY <1>1 DEF Idle
<1>3. queue[f] = <<>> /\ pending[f] = 0 /\ f \notin subs
  BY <1>1 DEF Settled, Detached, Idle
<1>4. queue'[f] = <<>> /\ pending'[f] = 0 /\ nextSeq' = nextSeq /\ closed' = closed
      /\ exitSeq' = exitSeq /\ (f \in subs' <=> follow /\ ~closed)
  BY <1>3 DEF Snapshot, bufVars
<1>5. Len(queue'[f]) = 0 /\ nextSeq \in Nat /\ exitSeq \in Nat BY <1>4 DEF FollowType
<1> QED
  BY <1>2, <1>4, <1>5 DEF Settled, Attached, Gaps, Ordered, Detached, Due

\* A delivery closes the gap it announces.
LEMMA ReceiveSettles ==
  ASSUME FollowType, NEW f \in Followers, Settled(f), Receive(f)
  PROVE  Settled(f)'
<1> DEFINE q == queue[f]
<1>1. q \in Seq(Delivery) /\ q # <<>> /\ Len(q) \in Nat /\ nextSeq \in Nat
  BY CallFields DEF Receive, Carried, FollowType
<1>2. call[f].follow BY <1>1 DEF Settled, Detached
<1>3. /\ queue'[f] = Tail(q) /\ call'[f].at = q[1].seq + 1
      /\ call'[f].follow = call[f].follow /\ call'[f].saw = call[f].saw
      /\ call'[f].end = call[f].end
      /\ call'[f].pc \in {"top", "drain"} /\ call[f].pc \in {"select", "drain"}
      /\ pending'[f] = pending[f] /\ nextSeq' = nextSeq /\ closed' = closed
      /\ exitSeq' = exitSeq /\ subs' = subs
  BY CallFields DEF Receive, Carried, Following, bufVars, FollowType, CallType
<1>4. Attached(f) /\ Attached(f)' BY <1>2, <1>3 DEF Attached
<1>5. /\ Len(Tail(q)) = Len(q) - 1
      /\ \A i \in 1 .. Len(Tail(q)) : i + 1 \in 1 .. Len(q) /\ Tail(q)[i] = q[i + 1]
  BY <1>1
<1>6. \A i \in 1 .. Len(q) : q[i].seq \in Nat /\ q[i].dropped \in Nat
  BY CallFields DEF Delivery
<1>7. Gaps(f) /\ Ordered(f) BY <1>4 DEF Settled
<1>8. \A i \in 0 .. Len(q) - 1 :
        Due(f, i + 1) = IF i = 0 THEN q[1].seq + 1 ELSE Tail(q)[i].seq + 1
  BY <1>1, <1>5 DEF Due
<1>9. Gaps(f)'
  <2> DEFINE due(i) == IF i = 0 THEN q[1].seq + 1 ELSE Tail(q)[i].seq + 1
  <2>1. due(Len(q) - 1) = Due(f, Len(q))
    <3>1. Len(q) - 1 \in 0 .. Len(q) - 1 /\ (Len(q) - 1) + 1 = Len(q) BY <1>1
    <3> QED BY <1>8, <3>1
  <2>2. \A i \in 1 .. Len(Tail(q)) : due(i - 1) = Due(f, i)
    <3>1. \A i \in 1 .. Len(Tail(q)) : i - 1 \in 0 .. Len(q) - 1 /\ (i - 1) + 1 = i
      BY <1>1, <1>5
    <3> QED BY <1>8, <3>1
  <2>3. \A i \in 1 .. Len(Tail(q)) : Tail(q)[i].seq = due(i - 1) + Tail(q)[i].dropped
    <3>1. \A i \in 1 .. Len(Tail(q)) : q[i + 1].seq = Due(f, (i + 1) - 1) + q[i + 1].dropped
      BY <1>5, <1>7 DEF Gaps
    <3>2. \A i \in 1 .. Len(Tail(q)) : (i + 1) - 1 = i OBVIOUS
    <3> QED BY <1>5, <2>2, <3>1, <3>2
  <2>4. due(Len(Tail(q))) + pending[f] = nextSeq
    BY <1>5, <1>7, <2>1 DEF Gaps
  <2> QED BY <1>3, <2>3, <2>4 DEF Gaps, Due
<1>10. Ordered(f)'
  <2>1. 1 \in 1 .. Len(q) BY <1>1
  <2>2. q[1].seq + 1 <= nextSeq BY <1>1, <1>6, <1>7, <2>1 DEF Ordered
  <2>3. ASSUME NEW i \in 1 .. Len(Tail(q))
        PROVE  q[1].seq + 1 <= Tail(q)[i].seq /\ Tail(q)[i].seq < nextSeq
    BY <1>5, <1>6, <1>7, <2>1 DEF Ordered
  <2>4. \A i, j \in 1 .. Len(Tail(q)) : i < j => Tail(q)[i].seq < Tail(q)[j].seq
    BY <1>5, <1>7 DEF Ordered
  <2> QED BY <1>3, <2>2, <2>3, <2>4 DEF Ordered
<1> QED BY <1>2, <1>3, <1>4, <1>9, <1>10 DEF Settled

\* Nothing is queued when a follow ends on the exit, so what comes is later.
LEMMA EmptiedSettles ==
  ASSUME FollowType, NEW f \in Followers, Settled(f), Emptied(f)
  PROVE  Settled(f)'
<1>1. /\ queue'[f] = queue[f] /\ queue[f] = <<>> /\ pending'[f] = pending[f]
      /\ nextSeq' = nextSeq /\ closed' = closed /\ exitSeq' = exitSeq /\ subs' = subs
      /\ call[f].pc \in {"drain", "select"} /\ call'[f].pc = "summary"
      /\ call'[f].follow = call[f].follow /\ call'[f].at = call[f].at
      /\ call'[f].told = call[f].told /\ call'[f].owed = call[f].owed
      /\ call'[f].shown = call[f].shown /\ call'[f].saw = call[f].saw
  BY CallFields DEF Emptied, Following, bufVars, FollowType, CallType
<1>2. Len(queue[f]) = 0 BY <1>1
<1> QED BY <1>1, <1>2 DEF Settled, Attached, Gaps, Ordered, Detached, Late, Due

LEMMA AbandonSettles ==
  ASSUME FollowType, NEW f \in Followers, Settled(f), Abandon(f)
  PROVE  Settled(f)'
<1>1. /\ queue'[f] = queue[f] /\ pending'[f] = pending[f]
      /\ exitSeq' = exitSeq /\ f \notin subs'
      /\ call'[f].pc = "done" /\ call'[f].end = "gone"
      /\ call'[f].follow = call[f].follow
      /\ call'[f].told = call[f].told /\ call'[f].owed = call[f].owed
      /\ call'[f].shown = call[f].shown /\ call'[f].saw = call[f].saw
  BY CallFields DEF Abandon, Following, bufVars, FollowType, CallType
<1> QED BY <1>1 DEF Settled, Attached, Detached

LEMMA SummariseSettles ==
  ASSUME FollowType, NEW f \in Followers, Settled(f), Summarise(f)
  PROVE  Settled(f)'
<1>1. /\ queue'[f] = queue[f] /\ pending'[f] = 0
      /\ exitSeq' = exitSeq /\ f \notin subs'
      /\ call'[f].pc = "done" /\ call'[f].end = call[f].end
      /\ call'[f].follow = call[f].follow
      /\ call'[f].told = call[f].told + pending[f] /\ call'[f].owed = call[f].owed
      /\ call'[f].shown = call[f].shown /\ call'[f].saw = call[f].saw
  BY CallFields DEF Summarise, FollowType, CallType
<1>2. call[f].end = "exit" => Late(f)' BY <1>1 DEF Settled, Late
<1> QED BY <1>1, <1>2 DEF Settled, Attached, Detached

\* A step of g is the same to every other call.
LEMMA OthersSame ==
  ASSUME FollowType, NEW g \in Followers, Serve(g), NEW f \in Followers, f # g
  PROVE  Same(f)
<1>1. ASSUME NEW from, NEW to, Reading(g, from, to)
      PROVE  Same(f)
  BY <1>1 DEF Same, Reading, GoOn, bufVars, FollowType
<1>2. CASE \E follow \in BOOLEAN : Snapshot(g, follow)
  BY <1>2 DEF Same, Snapshot, bufVars, FollowType
<1>3. CASE Stats(g) \/ Oldest(g) \/ ListSegments(g) \/ ReadFile(g) \/ Assemble(g)
  BY <1>1, <1>3 DEF Stats, Oldest, ListSegments, ReadFile, Assemble
<1>4. CASE Look(g) BY <1>4 DEF Same, Look, Following, bufVars, FollowType
<1>5. CASE Receive(g) BY <1>5 DEF Same, Receive, Following, bufVars, FollowType
<1>6. CASE Emptied(g) BY <1>6 DEF Same, Emptied, Following, bufVars, FollowType
<1>7. CASE Deadline(g) BY <1>7 DEF Same, Deadline, Following, bufVars, FollowType
<1>8. CASE Changed(g) BY <1>8 DEF Same, Changed, Following, bufVars, FollowType
<1>9. CASE Abandon(g) BY <1>9 DEF Same, Abandon, Following, bufVars, FollowType
<1>10. CASE Summarise(g) BY <1>10 DEF Same, Summarise, FollowType
<1> QED
  BY <1>2, <1>3, <1>4, <1>5, <1>6, <1>7, <1>8, <1>9, <1>10 DEF Serve

LEMMA ServeKeeps ==
  ASSUME IInv, NEW g \in Followers, Serve(g)
  PROVE  IInv'
<1>1. FollowType /\ exitSeq <= nextSeq /\ Settled(g) BY DEF IInv
<1>2. \A f \in Followers \ {g} : Settled(f)'
  BY <1>1, OthersSame, SameSettled DEF IInv
<1>3. nextSeq' = nextSeq /\ exitSeq' = exitSeq
  BY DEF Serve, Snapshot, Stats, Oldest, ListSegments, ReadFile, Assemble, Reading,
         Look, Receive, Emptied, Deadline, Changed, Abandon, Summarise, Following, bufVars
<1>4. FollowType' /\ Settled(g)'
  <2>1. CASE \E follow \in BOOLEAN : Snapshot(g, follow)
    BY <1>1, <2>1, SnapshotType, SnapshotSettles
  <2>2. CASE Stats(g) \/ Oldest(g) \/ ListSegments(g) \/ ReadFile(g) \/ Assemble(g)
    <3>1. Settled(g)' BY <1>1, <2>2, TurnSteps, TurnSettled
    <3>2. PICK from \in PCs, to \in PCs : Reading(g, from, to)
      BY <2>2 DEF Stats, Oldest, ListSegments, ReadFile, Assemble, PCs
    <3> QED BY <1>1, <3>1, <3>2, ReadingType
  <2>3. CASE Look(g) \/ Deadline(g) \/ Changed(g)
    BY <1>1, <2>3, TurnType, TurnSteps, TurnSettled
  <2>4. CASE Receive(g) BY <1>1, <2>4, ReceiveType, ReceiveSettles
  <2>5. CASE Emptied(g) BY <1>1, <2>5, TurnType, EmptiedSettles
  <2>6. CASE Abandon(g) BY <1>1, <2>6, TurnType, AbandonSettles
  <2>7. CASE Summarise(g) BY <1>1, <2>7, SummariseType, SummariseSettles
  <2> QED BY <2>1, <2>2, <2>3, <2>4, <2>5, <2>6, <2>7 DEF Serve
<1> QED BY <1>1, <1>2, <1>3, <1>4 DEF IInv

-----------------------------------------------------------------------------
(* The steps of the buffer and the record *)

\* A line that finds room carries what was missed before it; one that does not
\* is missed as well.
LEMMA AppendSettles ==
  ASSUME FollowType, exitSeq <= nextSeq, NEW f \in Followers, Settled(f), AppendLine
  PROVE  Settled(f)'
<1> DEFINE q == queue[f]
           d == [seq |-> nextSeq, dropped |-> pending[f]]
<1>1. /\ q \in Seq(Delivery) /\ Len(q) \in Nat /\ nextSeq \in Nat /\ pending[f] \in Nat
      /\ exitSeq \in Nat /\ call[f] \in CallType /\ d \in Delivery
  BY CallFields DEF FollowType, Delivery
<1>2. /\ ~closed /\ nextSeq' = nextSeq + 1 /\ call' = call /\ subs' = subs
      /\ closed' = closed /\ exitSeq' = exitSeq
  BY DEF AppendLine, Counted, Room
<1>3. CASE f \notin subs
  <2>1. queue'[f] = q /\ pending'[f] = pending[f] BY <1>3 DEF AppendLine, Counted, Room
  <2>2. ~Attached(f) /\ ~Attached(f)' BY <1>2, <1>3 DEF Settled, Attached
  <2> QED BY <1>2, <2>1, <2>2 DEF Settled, Detached, Late, Attached
<1>4. CASE f \in subs /\ Len(q) < QueueLen
  <2>1. queue'[f] = Append(q, d) /\ pending'[f] = 0 BY <1>4 DEF AppendLine, Counted, Room
  <2>2. Attached(f) /\ Attached(f)' /\ call[f].follow
    BY <1>2, <1>4 DEF Settled, Attached
  <2>3. /\ Len(Append(q, d)) = Len(q) + 1
        /\ \A i \in 1 .. Len(q) : Append(q, d)[i] = q[i]
        /\ Append(q, d)[Len(q) + 1] = d
    BY <1>1
  <2>4. Gaps(f) /\ Ordered(f) BY <2>2 DEF Settled
  <2>5. Gaps(f)'
    <3> DEFINE due(i) == IF i = 0 THEN call[f].at ELSE Append(q, d)[i].seq + 1
    <3>1. \A i \in 0 .. Len(q) : due(i) = Due(f, i) BY <1>1, <2>3 DEF Due
    <3>2. due(Len(q) + 1) = nextSeq + 1 BY <1>1, <2>3
    <3>3. ASSUME NEW i \in 1 .. Len(q) + 1
          PROVE  Append(q, d)[i].seq = due(i - 1) + Append(q, d)[i].dropped
      <4>1. i - 1 \in 0 .. Len(q) BY <1>1
      <4>2. due(i - 1) = Due(f, i - 1) BY <3>1, <4>1
      <4>3. CASE i = Len(q) + 1
        <5>1. Due(f, i - 1) + pending[f] = nextSeq BY <1>1, <2>4, <4>3 DEF Gaps
        <5> QED BY <2>3, <4>2, <4>3, <5>1
      <4>4. CASE i \in 1 .. Len(q) BY <2>3, <2>4, <4>2, <4>4 DEF Gaps
      <4> QED BY <1>1, <4>3, <4>4
    <3> QED BY <1>1, <1>2, <2>1, <2>3, <3>2, <3>3 DEF Gaps, Due
  <2>6. Ordered(f)'
    <3>1. call[f].at \in Nat BY <1>1 DEF CallType
    <3>2. \A i \in 1 .. Len(q) : q[i].seq \in Nat BY CallFields DEF Delivery
    <3>3. ASSUME NEW i \in 1 .. Len(q) + 1
          PROVE  call[f].at <= Append(q, d)[i].seq /\ Append(q, d)[i].seq < nextSeq + 1
      BY <1>1, <2>3, <2>4, <3>1, <3>2 DEF Ordered
    <3>4. ASSUME NEW i \in 1 .. Len(q) + 1, NEW j \in 1 .. Len(q) + 1, i < j
          PROVE  Append(q, d)[i].seq < Append(q, d)[j].seq
      <4>1. i \in 1 .. Len(q) BY <1>1, <3>4
      <4>2. Append(q, d)[i].seq = q[i].seq /\ q[i].seq < nextSeq
        BY <2>3, <2>4, <4>1 DEF Ordered
      <4>3. CASE j = Len(q) + 1 BY <2>3, <4>2, <4>3
      <4>4. CASE j \in 1 .. Len(q)
        BY <2>3, <2>4, <3>4, <4>1, <4>2, <4>4 DEF Ordered
      <4> QED BY <1>1, <4>3, <4>4
    <3> QED BY <1>1, <1>2, <2>1, <2>3, <2>4, <3>1, <3>3, <3>4 DEF Ordered
  <2>7. call[f].end = "exit" => Late(f)'
    <3>1. call[f].saw <= nextSeq BY <1>1 DEF Settled, CallType
    <3>2. ASSUME Late(f), NEW i \in 1 .. Len(q) + 1
          PROVE  Append(q, d)[i].seq >= call[f].saw
      <4>1. CASE i = Len(q) + 1 BY <2>3, <3>1, <4>1
      <4>2. CASE i \in 1 .. Len(q) BY <2>3, <3>2, <4>2 DEF Late
      <4> QED BY <1>1, <4>1, <4>2
    <3>3. Late(f) => Late(f)' BY <1>2, <2>1, <2>3, <3>2 DEF Late
    <3> QED BY <3>3 DEF Settled
  <2> QED BY <1>2, <1>4, <2>2, <2>5, <2>6, <2>7 DEF Settled
<1>5. CASE f \in subs /\ ~(Len(q) < QueueLen)
  <2>1. queue'[f] = q /\ pending'[f] = pending[f] + 1 BY <1>5 DEF AppendLine, Counted, Room
  <2>2. Attached(f) /\ Attached(f)' /\ call[f].follow
    BY <1>2, <1>5 DEF Settled, Attached
  <2>3. Gaps(f) /\ Ordered(f) BY <2>2 DEF Settled
  <2>4. Due(f, Len(q)) \in Nat
    <3>1. call[f].at \in Nat BY <1>1 DEF CallType
    <3>2. \A i \in 1 .. Len(q) : q[i].seq \in Nat BY CallFields DEF Delivery
    <3> QED BY <1>1, <3>1, <3>2 DEF Due
  <2>5. Due(f, Len(q)) + (pending[f] + 1) = nextSeq + 1
    BY <1>1, <2>3, <2>4 DEF Gaps
  <2>6. Gaps(f)' BY <1>2, <2>1, <2>3, <2>5 DEF Gaps, Due
  <2>7. Ordered(f)'
    <3>1. call[f].at \in Nat BY <1>1 DEF CallType
    <3>2. \A i \in 1 .. Len(q) : q[i].seq \in Nat BY CallFields DEF Delivery
    <3>3. call[f].at <= nextSeq + 1 BY <1>1, <2>3, <3>1 DEF Ordered
    <3>4. \A i \in 1 .. Len(q) : call[f].at <= q[i].seq /\ q[i].seq < nextSeq + 1
      BY <1>1, <2>3, <3>2 DEF Ordered
    <3>5. \A i, j \in 1 .. Len(q) : i < j => q[i].seq < q[j].seq BY <2>3 DEF Ordered
    <3> QED BY <1>2, <2>1, <3>3, <3>4, <3>5 DEF Ordered
  <2> QED BY <1>2, <1>5, <2>1, <2>2, <2>6, <2>7 DEF Settled, Late
<1> QED BY <1>3, <1>4, <1>5

LEMMA BufferKeeps ==
  ASSUME IInv, AppendLine \/ Flush \/ Exit \/ Respawn \/ Close
  PROVE  IInv'
<1>1. FollowType /\ exitSeq <= nextSeq BY DEF IInv
<1>2. CASE AppendLine
  <2>1. \A f \in Followers : Settled(f)' BY <1>1, <1>2, AppendSettles DEF IInv
  <2>2. exitSeq' <= nextSeq' BY <1>1, <1>2 DEF AppendLine, FollowType
  <2> QED BY <1>1, <1>2, <2>1, <2>2, AppendType DEF IInv
<1>3. CASE Flush \/ Respawn
  <2>1. \A f \in Followers : Same(f) BY <1>3 DEF Same, Flush, Respawn, bufVars
  <2> QED BY <1>3, <2>1, SameSettled DEF IInv, FollowType, Flush, Respawn, bufVars
<1>4. CASE Exit
  <2>1. exitSeq' = nextSeq /\ nextSeq' = nextSeq /\ FollowType'
    BY <1>1, <1>4 DEF Exit, bufVars, FollowType
  <2>2. ASSUME NEW f \in Followers PROVE Settled(f)'
    <3>1. Settled(f) /\ call[f].saw \in Nat BY <1>1, CallFields DEF IInv, CallType
    <3>2. call[f].saw <= exitSeq' BY <1>1, <2>1, <3>1 DEF Settled, FollowType
    <3> QED
      BY <1>4, <3>1, <3>2 DEF Exit, bufVars, Settled, Attached, Gaps, Ordered, Detached, Late, Due
  <2> QED BY <2>1, <2>2, <1>1 DEF IInv, FollowType
<1>5. CASE Close
  <2>1. FollowType' BY <1>1, <1>5 DEF FollowType, Close
  <2>2. ASSUME NEW f \in Followers PROVE Settled(f)'
    <3>1. Settled(f) BY DEF IInv
    <3> QED
      BY <1>5, <3>1 DEF Close, Settled, Attached, Gaps, Ordered, Detached, Late, Due
  <2> QED BY <1>1, <1>5, <2>1, <2>2 DEF IInv, Close
<1> QED BY <1>2, <1>3, <1>4, <1>5

LEMMA InitInv == Init => IInv
<1> SUFFICES ASSUME Init PROVE IInv OBVIOUS
<1>1. \A f \in Followers : Settled(f)
  BY DEF Init, Settled, Idle, Detached, Attached, Late
<1> QED BY <1>1, InitType DEF IInv, Init

LEMMA StepInv == IInv /\ [Next]_vars => IInv'
<1> SUFFICES ASSUME IInv, [Next]_vars PROVE IInv' OBVIOUS
<1>1. CASE AppendLine \/ Flush \/ Exit \/ Respawn \/ Close BY <1>1, BufferKeeps
<1>2. CASE \E f \in Followers : Serve(f) BY <1>2, ServeKeeps
<1>3. CASE UNCHANGED vars
  <2>1. \A f \in Followers : Same(f) BY <1>3 DEF Same, vars
  <2> QED BY <1>3, <2>1, SameSettled DEF IInv, FollowType, vars
<1> QED BY <1>1, <1>2, <1>3 DEF Next

LEMMA Invariance == Spec => []IInv
  BY InitInv, StepInv, PTL DEF Spec

\* For every call the deliveries queued for it and the count that is pending
\* account for each line since its subscription exactly once.
THEOREM GapsAreExact == Spec => []GapsExact
<1>1. IInv => GapsExact BY DEF IInv, Settled, Gaps, GapsExact
<1> QED BY <1>1, Invariance, PTL

\* A follow that ends on the exit has received all that was queued before it.
THEOREM ExitsCarryOutput == Spec => []ExitCarriesOutput
<1>1. IInv => ExitCarriesOutput BY DEF IInv, Settled, Late, ExitCarriesOutput
<1> QED BY <1>1, Invariance, PTL

-----------------------------------------------------------------------------
(* The capacities *)

Capacities ==
  /\ ring \in Seq(Nat) /\ Len(ring) <= RingLines
  /\ files \in [Segments -> Seq(Nat)] /\ \A i \in Segments : Len(files[i]) <= SegLines
  /\ buffered \in Seq(Nat) /\ Len(files[0]) + Len(buffered) <= SegLines
  /\ \A f \in Followers : Len(queue[f]) <= QueueLen

\* The live file with the write buffer flushed into it.
LEMMA FlushFits ==
  ASSUME Capacities
  PROVE  LET whole == [files EXCEPT ![0] = @ \o buffered]
         IN  /\ whole \in [Segments -> Seq(Nat)] /\ \A i \in Segments : Len(whole[i]) <= SegLines
             /\ Len(whole[0]) = Len(files[0]) + Len(buffered)
<1> DEFINE whole == [files EXCEPT ![0] = @ \o buffered]
<1>1. 0 \in Segments BY LogsAssumption DEF Segments
<1>2. /\ files[0] \o buffered \in Seq(Nat)
      /\ Len(files[0] \o buffered) = Len(files[0]) + Len(buffered)
  BY <1>1 DEF Capacities
<1>3. whole \in [Segments -> Seq(Nat)] BY <1>1, <1>2 DEF Capacities
<1>4. whole[0] = files[0] \o buffered BY <1>1 DEF Capacities
<1>5. ASSUME NEW i \in Segments PROVE Len(whole[i]) <= SegLines
  <2>1. CASE i = 0 BY <1>2, <1>4, <2>1 DEF Capacities
  <2>2. CASE i # 0
    <3>1. whole[i] = files[i] BY <2>2 DEF Capacities
    <3> QED BY <3>1 DEF Capacities
  <2> QED BY <2>1, <2>2
<1> QED BY <1>2, <1>3, <1>4, <1>5

LEMMA WriteFits ==
  ASSUME Capacities, nextSeq \in Nat, WriteFile(nextSeq)
  PROVE  /\ files' \in [Segments -> Seq(Nat)] /\ \A i \in Segments : Len(files'[i]) <= SegLines
         /\ buffered' \in Seq(Nat) /\ Len(files'[0]) + Len(buffered') <= SegLines
<1> DEFINE n == nextSeq
<1>1. 0 \in Segments BY LogsAssumption DEF Segments
<1>2. /\ files[0] \in Seq(Nat) /\ Len(files[0]) \in Nat /\ Len(buffered) \in Nat
      /\ SegLines \in Nat \ {0}
  BY <1>1, LogsAssumption DEF Capacities
<1>3. /\ files[0] \o buffered \in Seq(Nat)
      /\ Len(files[0] \o buffered) = Len(files[0]) + Len(buffered)
  BY <1>2 DEF Capacities
<1>4. <<n>> \in Seq(Nat) /\ Len(<<n>>) = 1 OBVIOUS
<1>5. CASE Len(files[0]) + Len(buffered) >= SegLines
  <2> DEFINE moved == [i \in Segments |-> CASE i = 0 -> <<>>
                                            [] i = 1 -> files[0] \o buffered
                                            [] OTHER -> files[i - 1]]
  <2>1. files' = moved /\ buffered' = <<n>> BY <1>5 DEF WriteFile
  <2>2. moved[0] = <<>> BY <1>1
  <2>3. ASSUME NEW i \in Segments PROVE moved[i] \in Seq(Nat) /\ Len(moved[i]) <= SegLines
    <3>1. CASE i = 0
      <4>1. moved[i] = <<>> BY <2>2, <3>1
      <4>2. <<>> \in Seq(Nat) /\ Len(<<>>) = 0 OBVIOUS
      <4>3. 0 <= SegLines BY <1>2
      <4> HIDE DEF moved
      <4> QED BY <4>1, <4>2, <4>3
    <3>2. CASE i = 1
      <4>1. moved[i] = files[0] \o buffered BY <3>2
      <4> QED BY <1>3, <4>1 DEF Capacities
    <3>3. CASE i # 0 /\ i # 1
      <4>1. moved[i] = files[i - 1] /\ i - 1 \in Segments BY <3>3, LogsAssumption DEF Segments
      <4> QED BY <4>1 DEF Capacities
    <3> QED BY <3>1, <3>2, <3>3
  <2>4. moved \in [Segments -> Seq(Nat)] BY <2>3
  <2> HIDE DEF moved
  <2>5. Len(files'[0]) = 0 BY <2>1, <2>2
  <2> QED BY <1>2, <1>4, <2>1, <2>3, <2>4, <2>5
<1>6. CASE ~(Len(files[0]) + Len(buffered) >= SegLines)
  <2>1. CASE Len(buffered) >= BufLines
    <3>1. files' = [files EXCEPT ![0] = @ \o buffered] /\ buffered' = <<n>>
      BY <1>6, <2>1 DEF WriteFile
    <3>2. Len(files'[0]) = Len(files[0]) + Len(buffered) BY <3>1, FlushFits
    <3> QED BY <1>2, <1>4, <1>6, <3>1, <3>2, FlushFits
  <2>2. CASE ~(Len(buffered) >= BufLines)
    <3>1. files' = files /\ buffered' = Append(buffered, n) BY <1>6, <2>2 DEF WriteFile
    <3>2. Append(buffered, n) \in Seq(Nat) /\ Len(Append(buffered, n)) = Len(buffered) + 1
      BY DEF Capacities
    <3>3. Len(files[0]) + (Len(buffered) + 1) <= SegLines
      <4>1. \A a, b, c \in Nat : ~(a + b >= c) => a + (b + 1) <= c OBVIOUS
      <4>2. SegLines \in Nat BY <1>2
      <4> QED BY ONLY <1>2, <1>6, <4>1, <4>2
    <3>4. Len(files'[0]) = Len(files[0]) /\ Len(buffered') = Len(buffered) + 1
      BY ONLY <3>1, <3>2
    <3> QED BY <3>1, <3>2, <3>3, <3>4 DEF Capacities
  <2> QED BY <2>1, <2>2
<1> QED BY <1>5, <1>6

LEMMA AppendFits ==
  ASSUME Capacities, FollowType, AppendLine
  PROVE  Capacities'
<1>1. nextSeq \in Nat BY DEF FollowType
<1>2. ring' \in Seq(Nat) /\ Len(ring') <= RingLines
  <2>1. CASE Len(ring) = RingLines
    <3>1. ring' = Append(Tail(ring), nextSeq) BY <2>1 DEF AppendLine
    <3>2. ring \in Seq(Nat) /\ ring # <<>> BY <2>1, LogsAssumption DEF Capacities
    <3>3. Tail(ring) \in Seq(Nat) /\ Len(Tail(ring)) = Len(ring) - 1 BY <3>2
    <3> QED BY <1>1, <2>1, <3>1, <3>3, LogsAssumption
  <2>2. CASE Len(ring) # RingLines
    <3>1. ring' = Append(ring, nextSeq) BY <2>2 DEF AppendLine
    <3> QED BY <1>1, <2>2, <3>1, LogsAssumption DEF Capacities
  <2> QED BY <2>1, <2>2
<1>3. ASSUME NEW f \in Followers PROVE Len(queue'[f]) <= QueueLen
  <2>1. queue[f] \in Seq(Delivery) /\ Len(queue[f]) \in Nat BY CallFields
  <2>2. CASE f \in subs /\ Room(f)
    <3>1. queue'[f] = Append(queue[f], [seq |-> nextSeq, dropped |-> pending[f]])
      BY <2>2 DEF AppendLine
    <3>2. Len(queue'[f]) = Len(queue[f]) + 1 BY <2>1, <3>1
    <3> QED BY <2>1, <2>2, <3>2, LogsAssumption DEF Room
  <2>3. CASE ~(f \in subs /\ Room(f))
    <3>1. queue'[f] = queue[f] BY <2>3 DEF AppendLine
    <3> QED BY <3>1 DEF Capacities
  <2> QED BY <2>2, <2>3
<1>4. WriteFile(nextSeq) BY DEF AppendLine
<1> QED BY <1>1, <1>2, <1>3, <1>4, WriteFits DEF Capacities

LEMMA FlushKeeps ==
  ASSUME Capacities, files' = [files EXCEPT ![0] = @ \o buffered], buffered' = <<>>,
         UNCHANGED <<ring, queue>>
  PROVE  Capacities'
<1>1. Len(buffered') = 0 /\ buffered' \in Seq(Nat) OBVIOUS
<1>2. 0 \in Segments BY LogsAssumption DEF Segments
<1>3. Len(files'[0]) <= SegLines /\ Len(files'[0]) \in Nat BY <1>2, FlushFits DEF Capacities
<1>4. Len(files'[0]) + Len(buffered') <= SegLines BY <1>1, <1>3
<1> QED BY <1>1, <1>4, FlushFits DEF Capacities

LEMMA ServeFits ==
  ASSUME Capacities, FollowType, NEW f \in Followers, Serve(f)
  PROVE  Capacities'
<1>1. CASE \/ \E follow \in BOOLEAN : Snapshot(f, follow)
           \/ Stats(f) \/ Oldest(f) \/ ListSegments(f) \/ ReadFile(f) \/ Assemble(f)
  <2>1. CASE \E follow \in BOOLEAN : Snapshot(f, follow)
    BY <2>1 DEF Snapshot, bufVars, Capacities
  <2>2. CASE Stats(f) \/ Oldest(f) \/ ListSegments(f) \/ ReadFile(f) \/ Assemble(f)
    <3>1. PICK from \in PCs, to \in PCs : Reading(f, from, to)
      BY <2>2 DEF Stats, Oldest, ListSegments, ReadFile, Assemble, PCs
    <3> QED BY <3>1 DEF Reading, bufVars, Capacities
  <2> QED BY <1>1, <2>1, <2>2
<1>2. CASE Receive(f)
  <2>1. ASSUME NEW g \in Followers PROVE Len(queue'[g]) <= QueueLen
    <3>1. CASE g = f
      <4>1. queue[f] \in Seq(Delivery) /\ queue[f] # <<>> BY <1>2, CallFields DEF Receive
      <4>2. queue'[f] = Tail(queue[f]) BY <1>2 DEF Receive, FollowType
      <4>3. Len(queue'[f]) = Len(queue[f]) - 1 BY <4>1, <4>2
      <4> QED BY <3>1, <4>1, <4>3, LogsAssumption DEF Capacities
    <3>2. CASE g # f
      <4>1. queue'[g] = queue[g] BY <1>2, <3>2 DEF Receive, FollowType
      <4> QED BY <4>1 DEF Capacities
    <3> QED BY <3>1, <3>2
  <2>2. UNCHANGED <<ring, files, buffered>> BY <1>2 DEF Receive, Following, bufVars
  <2> QED BY <2>1, <2>2 DEF Capacities
<1>3. CASE Look(f) \/ Emptied(f) \/ Deadline(f) \/ Changed(f) \/ Abandon(f) \/ Summarise(f)
  <2>1. UNCHANGED <<ring, files, buffered, queue>>
    BY <1>3 DEF Look, Emptied, Deadline, Changed, Abandon, Summarise, Following, bufVars
  <2> QED BY <2>1 DEF Capacities
<1> QED BY <1>1, <1>2, <1>3 DEF Serve

\* Every variable has its type, and the ring, the queues, the files and the write
\* buffer never hold more than their capacities.
THEOREM LogsTyped == Spec => []TypeOK
<1>1. Init => Capacities
  <2> SUFFICES ASSUME Init PROVE Capacities OBVIOUS
  <2>1. 0 \in Segments /\ SegLines \in Nat /\ RingLines \in Nat /\ QueueLen \in Nat
    BY LogsAssumption DEF Segments
  <2>2. <<>> \in Seq(Nat) /\ Len(<<>>) = 0 OBVIOUS
  <2>3. \A i \in Segments : files[i] = <<>> BY DEF Init
  <2>4. files \in [Segments -> Seq(Nat)] BY <2>2 DEF Init
  <2> QED BY <2>1, <2>2, <2>3, <2>4 DEF Init, Capacities
<1>2. IInv /\ Capacities /\ [Next]_vars => Capacities'
  <2> SUFFICES ASSUME IInv, Capacities, [Next]_vars PROVE Capacities' OBVIOUS
  <2>1. FollowType BY DEF IInv
  <2>2. CASE AppendLine BY <2>1, <2>2, AppendFits
  <2>3. CASE Flush \/ Close BY <2>3, FlushKeeps DEF Flush, Close
  <2>4. CASE \E f \in Followers : Serve(f) BY <2>1, <2>4, ServeFits
  <2>5. CASE Exit \/ Respawn \/ UNCHANGED vars
    BY <2>5 DEF Exit, Respawn, vars, bufVars, Capacities
  <2> QED BY <2>2, <2>3, <2>4, <2>5 DEF Next
<1>3. IInv /\ Capacities => TypeOK BY DEF IInv, Capacities, TypeOK
<1> QED BY <1>1, <1>2, <1>3, Invariance, PTL DEF Spec

-----------------------------------------------------------------------------
(* The refinement *)

\* A call in which only f may look different.
LEMMA OneView ==
  ASSUME NEW f \in Followers, \A g \in Followers \ {f} : Same(g)
  PROVE  Views' = [Views EXCEPT ![f] = Seen(f)']
<1>1. \A g \in Followers \ {f} : Seen(g)' = Seen(g) BY DEF Seen, Same, Attached
<1>2. Views' = [g \in Followers |-> Seen(g)'] BY DEF Views
<1>3. Views = [g \in Followers |-> Seen(g)] BY DEF Views
<1> QED BY <1>1, <1>2, <1>3

LEMMA SameView ==
  ASSUME \A f \in Followers : Seen(f)' = Seen(f)
  PROVE  Views' = Views
  BY DEF Views

\* A delivery is the line at the end of the gap it announces.
LEMMA ReceiveTakes ==
  ASSUME IInv, NEW f \in Followers, Receive(f)
  PROVE  \E n \in call[f].at .. nextSeq - 1 :
           /\ call[f].follow /\ Attached(f) /\ Attached(f)'
           /\ call'[f].follow
           /\ call'[f].at = n + 1
           /\ call'[f].told = call[f].told + (n - call[f].at)
           /\ call'[f].owed = IF n \in Filter[f] THEN 0 ELSE call[f].owed + (n - call[f].at)
           /\ call'[f].shown = IF n \in Filter[f] THEN call[f].shown + 1 ELSE call[f].shown
<1> DEFINE q == queue[f]
           n == q[1].seq
<1>1. /\ FollowType /\ Settled(f) /\ q # <<>> /\ q \in Seq(Delivery)
      /\ Len(q) \in Nat /\ nextSeq \in Nat /\ call[f] \in CallType
  BY CallFields DEF IInv, Receive, Carried, FollowType
<1>2. 1 \in 1 .. Len(q) /\ Head(q) = q[1] BY <1>1
<1>3. call[f].follow /\ Attached(f)
  BY <1>1 DEF Settled, Detached, Attached, Receive, Carried
<1>4. Gaps(f) /\ Ordered(f) BY <1>1, <1>3 DEF Settled
<1>5. n = call[f].at + q[1].dropped
  <2>1. Due(f, 1 - 1) = call[f].at BY DEF Due
  <2> QED BY <1>2, <1>4, <2>1 DEF Gaps
<1>6. n \in Nat /\ q[1].dropped \in Nat /\ call[f].at \in Nat
  BY <1>1, <1>2, CallFields DEF Delivery, CallType
<1>7. n \in call[f].at .. nextSeq - 1 BY <1>1, <1>2, <1>4, <1>6 DEF Ordered
<1>8. n - call[f].at = q[1].dropped BY <1>5, <1>6
<1>9. /\ call'[f].follow = call[f].follow /\ call'[f].pc \in {"top", "drain"}
      /\ call'[f].at = n + 1
      /\ call'[f].told = call[f].told + q[1].dropped
      /\ call'[f].owed = IF n \in Filter[f] THEN 0 ELSE call[f].owed + q[1].dropped
      /\ call'[f].shown = IF n \in Filter[f] THEN call[f].shown + 1 ELSE call[f].shown
  BY <1>1, <1>2 DEF Receive, Carried, FollowType, CallType
<1>10. Attached(f)' BY <1>3, <1>9 DEF Attached
<1> QED BY <1>3, <1>7, <1>8, <1>9, <1>10

LEMMA ReceiveIsTake ==
  ASSUME IInv, NEW f \in Followers, Receive(f)
  PROVE  Stream!Next
<1>1. PICK n \in call[f].at .. nextSeq - 1 :
           /\ call[f].follow /\ Attached(f) /\ Attached(f)'
           /\ call'[f].follow
           /\ call'[f].at = n + 1
           /\ call'[f].told = call[f].told + (n - call[f].at)
           /\ call'[f].owed = IF n \in Filter[f] THEN 0 ELSE call[f].owed + (n - call[f].at)
           /\ call'[f].shown = IF n \in Filter[f] THEN call[f].shown + 1 ELSE call[f].shown
  BY ReceiveTakes
<1>2. Views' = [Views EXCEPT ![f] = Seen(f)']
  <2>1. FollowType /\ Serve(f) BY DEF IInv, Serve
  <2> QED BY <2>1, OthersSame, OneView
<1>3. Views[f] = Seen(f) BY DEF Views
<1>4. nextSeq' = nextSeq BY DEF Receive, Following, bufVars
<1>5. Seen(f).phase = "open" /\ Seen(f).at = call[f].at BY <1>1 DEF Seen
<1>7. Stream!Take(f, n)
  <2> DEFINE gap == n - Views[f].at
             t == Views[f].told + gap
             o == IF n \in Filter[f] THEN 0 ELSE Views[f].owed + gap
             s == IF n \in Filter[f] THEN Views[f].shown + 1 ELSE Views[f].shown
             a == n + 1
  <2>1. Views[f] = [phase |-> "open", at |-> call[f].at, told |-> call[f].told,
                    owed |-> call[f].owed, shown |-> call[f].shown]
    BY <1>1, <1>3 DEF Seen
  <2>2. gap = n - call[f].at /\ Views[f].told = call[f].told
        /\ Views[f].owed = call[f].owed /\ Views[f].shown = call[f].shown
    BY <2>1
  <2>3. Seen(f)' = [phase |-> "open", at |-> a, told |-> t, owed |-> o, shown |-> s]
    BY <1>1, <2>2 DEF Seen
  <2>4. Views[f].phase = "open" BY <2>1
  <2> QED BY <1>2, <1>4, <2>2, <2>3, <2>4 DEF Stream!Take, Stream!View
<1>8. n \in Views[f].at .. nextSeq - 1 BY <1>1, <1>3, <1>5
<1> QED BY <1>7, <1>8 DEF Stream!Next

\* Snapshot opens a view of a call that follows, and shows nothing of another.
LEMMA SnapshotIsOpen ==
  ASSUME IInv, NEW f \in Followers, NEW follow \in BOOLEAN, Snapshot(f, follow)
  PROVE  Stream!Next \/ UNCHANGED Stream!streamVars
<1>1. /\ call[f] = Idle
      /\ call'[f] = [Idle EXCEPT !.pc = "stats", !.follow = follow, !.at = nextSeq]
      /\ nextSeq' = nextSeq
  BY DEF Snapshot, IInv, FollowType, bufVars
<1>2. Seen(f) = Stream!Unopened
  <2>1. /\ call[f].follow = FALSE /\ call[f].told = 0 /\ call[f].owed = 0
        /\ call[f].shown = 0
    BY <1>1 DEF Idle
  <2>2. Attached(f) = FALSE BY <2>1 DEF Attached
  <2> QED BY <2>1, <2>2 DEF Seen, Stream!Unopened, Stream!View
<1>3. Seen(f)' = IF follow THEN Stream!View("open", nextSeq, 0, 0, 0)
                 ELSE Stream!Unopened
  BY <1>1 DEF Seen, Attached, Idle, Stream!Unopened, Stream!View
<1>4. Views' = [Views EXCEPT ![f] = Seen(f)']
  <2>1. FollowType /\ Serve(f) BY DEF IInv, Serve
  <2> QED BY <2>1, OthersSame, OneView
<1>5. Views[f] = Seen(f) BY DEF Views
<1>6. CASE follow
  <2>1. Stream!Open(f) BY <1>1, <1>2, <1>3, <1>4, <1>5, <1>6 DEF Stream!Open
  <2> QED BY <2>1 DEF Stream!Next
<1>7. CASE ~follow
  <2>1. Views' = Views BY <1>2, <1>3, <1>4, <1>5, <1>7 DEF Views
  <2> QED BY <1>1, <2>1 DEF Stream!streamVars
<1> QED BY <1>6, <1>7

LEMMA AbandonIsHangUp ==
  ASSUME IInv, NEW f \in Followers, Abandon(f)
  PROVE  Stream!Next \/ UNCHANGED Stream!streamVars
<1>1. /\ nextSeq' = nextSeq /\ call[f].pc # "done" /\ call'[f].pc = "done"
      /\ call'[f].follow = call[f].follow /\ call'[f].at = call[f].at
      /\ call'[f].told = call[f].told /\ call'[f].owed = call[f].owed
      /\ call'[f].shown = call[f].shown
  BY CallFields DEF Abandon, Following, bufVars, IInv, FollowType, CallType
<1>2. Attached(f)' = FALSE BY <1>1 DEF Attached
<1>3. Views' = [Views EXCEPT ![f] = Seen(f)'] /\ Views[f] = Seen(f)
  <2>1. FollowType /\ Serve(f) BY DEF IInv, Serve
  <2> QED BY <2>1, OthersSame, OneView DEF Views
<1>4. CASE call[f].follow
  <2>1. Attached(f) = TRUE BY <1>1, <1>4 DEF Attached
  <2>2. Seen(f)' = [Seen(f) EXCEPT !.phase = "over"] /\ Seen(f).phase = "open"
    BY <1>1, <1>2, <1>4, <2>1 DEF Seen
  <2>3. Stream!HangUp(f) BY <1>1, <1>3, <2>2 DEF Stream!HangUp
  <2> QED BY <2>3 DEF Stream!Next
<1>5. CASE ~call[f].follow
  <2>1. Seen(f)' = Seen(f) BY <1>1, <1>5 DEF Seen, Attached
  <2>2. Views' = Views BY <1>3, <2>1 DEF Views
  <2> QED BY <1>1, <2>2 DEF Stream!streamVars
<1> QED
  <2>1. call[f].follow \in BOOLEAN BY CallFields DEF IInv, CallType
  <2> QED BY <1>4, <1>5, <2>1

\* The summary's count stays within the lines that were produced.
LEMMA SummariseIsFinish ==
  ASSUME IInv, NEW f \in Followers, Summarise(f)
  PROVE  Stream!Next \/ UNCHANGED Stream!streamVars
<1>1. /\ nextSeq' = nextSeq /\ call[f].pc = "summary" /\ call'[f].pc = "done"
      /\ call'[f].follow = call[f].follow /\ call'[f].at = call[f].at
      /\ call'[f].told = call[f].told + pending[f] /\ call'[f].owed = call[f].owed
      /\ call'[f].shown = call[f].shown
  BY CallFields DEF Summarise, IInv, FollowType, CallType
<1>2. /\ FollowType /\ Settled(f) /\ call[f] \in CallType /\ pending[f] \in Nat
      /\ nextSeq \in Nat /\ queue[f] \in Seq(Delivery) /\ Len(queue[f]) \in Nat
  BY CallFields DEF IInv, FollowType
<1>3. Views' = [Views EXCEPT ![f] = Seen(f)'] /\ Views[f] = Seen(f)
  <2>1. Serve(f) BY DEF Serve
  <2> QED BY <1>2, <2>1, OthersSame, OneView DEF Views
<1>4. CASE call[f].follow
  <2>1. Attached(f) BY <1>1, <1>4 DEF Attached
  <2>2. Gaps(f) /\ Ordered(f) BY <1>2, <2>1 DEF Settled
  <2>3. call[f].at \in Nat BY <1>2 DEF CallType
  <2>4. call[f].at + pending[f] <= nextSeq
    <3>1. CASE Len(queue[f]) = 0 BY <1>2, <2>2, <2>3, <3>1 DEF Gaps, Due
    <3>2. CASE Len(queue[f]) # 0
      <4>1. Len(queue[f]) \in 1 .. Len(queue[f]) BY <1>2, <3>2
      <4>2. queue[f][Len(queue[f])].seq \in Nat BY <1>2, <4>1, CallFields DEF Delivery
      <4>3. queue[f][Len(queue[f])].seq + 1 + pending[f] = nextSeq
        BY <2>2, <3>2 DEF Gaps, Due
      <4>4. call[f].at <= queue[f][Len(queue[f])].seq BY <2>2, <4>1 DEF Ordered
      <4> QED BY <1>2, <2>3, <4>2, <4>3, <4>4
    <3> QED BY <3>1, <3>2
  <2>5. Seen(f) = [phase |-> "open", at |-> call[f].at, told |-> call[f].told,
                   owed |-> call[f].owed, shown |-> call[f].shown]
    BY <1>4, <2>1 DEF Seen
  <2>6. Seen(f)' = [phase |-> "over", at |-> call[f].at, told |-> call[f].told + pending[f],
                    owed |-> call[f].owed, shown |-> call[f].shown]
    BY <1>1, <1>4 DEF Seen, Attached
  <2>7. Stream!Finish(f, pending[f])
    <3>1. Views[f].phase = "open" /\ Views[f].at = call[f].at
          /\ Views[f].told = call[f].told /\ Views[f].owed = call[f].owed
          /\ Views[f].shown = call[f].shown
      BY <1>3, <2>5
    <3> QED BY <1>1, <1>3, <2>6, <3>1 DEF Stream!Finish, Stream!View
  <2>8. pending[f] \in 0 .. nextSeq - Views[f].at BY <1>2, <1>3, <2>3, <2>4, <2>5
  <2> QED BY <2>7, <2>8 DEF Stream!Next
<1>5. CASE ~call[f].follow
  <2>1. pending[f] = 0 /\ call[f].told = 0 BY <1>2, <1>5 DEF Settled, Detached
  <2>2. Seen(f)' = Seen(f) BY <1>1, <1>5, <2>1 DEF Seen, Attached
  <2>3. Views' = Views BY <1>3, <2>2 DEF Views
  <2> QED BY <1>1, <2>3 DEF Stream!streamVars
<1> QED
  <2>1. call[f].follow \in BOOLEAN BY <1>2 DEF CallType
  <2> QED BY <1>4, <1>5, <2>1

LEMMA Implements ==
  ASSUME IInv, [Next]_vars
  PROVE  Stream!Next \/ UNCHANGED Stream!streamVars
<1>1. CASE AppendLine
  <2>1. Views' = Views BY <1>1, SameView DEF AppendLine, Counted, Room, Seen, Attached
  <2>2. Stream!Produce BY <1>1, <2>1 DEF AppendLine, Stream!Produce
  <2> QED BY <2>2 DEF Stream!Next
<1>2. CASE Flush \/ Exit \/ Respawn \/ Close \/ UNCHANGED vars
  <2>1. nextSeq' = nextSeq /\ call' = call
    BY <1>2 DEF Flush, Exit, Respawn, Close, bufVars, vars
  <2>2. Views' = Views BY <2>1, SameView DEF Seen, Attached
  <2> QED BY <2>1, <2>2 DEF Stream!streamVars
<1>3. ASSUME NEW f \in Followers, Serve(f)
      PROVE  Stream!Next \/ UNCHANGED Stream!streamVars
  <2>1. CASE \E follow \in BOOLEAN : Snapshot(f, follow) BY <2>1, SnapshotIsOpen
  <2>2. CASE Receive(f) BY <2>2, ReceiveIsTake
  <2>3. CASE Abandon(f) BY <2>3, AbandonIsHangUp
  <2>4. CASE Summarise(f) BY <2>4, SummariseIsFinish
  <2>5. CASE \/ Stats(f) \/ Oldest(f) \/ ListSegments(f) \/ ReadFile(f) \/ Assemble(f)
             \/ Look(f) \/ Deadline(f) \/ Changed(f) \/ Emptied(f)
    <3>1. FollowType /\ Settled(f) BY DEF IInv
    <3>2. Seen(f)' = Seen(f)
      <4>1. CASE Emptied(f)
        BY <3>1, <4>1 DEF Emptied, Following, FollowType, Seen, Attached
      <4>2. CASE ~Emptied(f)
        <5>1. Turn(f) BY <2>5, <3>1, <4>2, TurnSteps
        <5> QED BY <5>1 DEF Turn, Seen, Attached
      <4> QED BY <4>1, <4>2
    <3>3. \A g \in Followers \ {f} : Seen(g)' = Seen(g)
      BY <1>3, <3>1, OthersSame DEF Same, Seen, Attached
    <3>4. Views' = Views BY <3>2, <3>3, SameView
    <3>5. nextSeq' = nextSeq
      BY <2>5 DEF Stats, Oldest, ListSegments, ReadFile, Assemble, Reading,
         Look, Deadline, Changed, Emptied, Following, bufVars
    <3> QED BY <3>4, <3>5 DEF Stream!streamVars
  <2> QED BY <1>3, <2>1, <2>2, <2>3, <2>4, <2>5 DEF Serve
<1> QED BY <1>1, <1>2, <1>3 DEF Next

\* The calls implement LogStream: whatever the filters, the queue length and the
\* order in which lines, exits, removals and deadlines come, what a follower is
\* given is an increasing sequence of lines with exact counts of those missed.
THEOREM Refinement == Spec => StreamSpec
<1>1. Init => Stream!Init
  BY DEF Init, Stream!Init, Views, Seen, Attached, Idle, Stream!Unopened, Stream!View
<1>2. IInv /\ [Next]_vars => [Stream!Next]_(Stream!streamVars) BY Implements
<1> QED BY <1>1, <1>2, Invariance, PTL DEF Spec, StreamSpec, Stream!Spec

-----------------------------------------------------------------------------
(* Capture: the line ends, in order *)

\* A non-empty set of naturals has a least element.
LEMMA LeastNatural ==
  ASSUME NEW T \in SUBSET Nat, T # {}
  PROVE  \E m \in T : \A k \in T : m <= k
<1>1. PICK n \in T : TRUE
  OBVIOUS
<1> DEFINE S == 0 .. n
           Upto(m) == 0 .. m
           Family == {Upto(m) : m \in T \cap S}
           R == StrictSubsetOrdering(S)
<1>2. IsWellFoundedOn(R, FiniteSubsetsOf(S)) /\ FiniteSubsetsOf(S) = SUBSET S
  <2>1. IsFiniteSet(S)
    BY <1>1, FS_Interval
  <2> HIDE DEF S
  <2> QED BY <2>1, FS_StrictSubsetOrderingWellFounded, FS_FiniteSubsetsOfFinite
<1>3. Family \subseteq SUBSET S /\ Family # {}
  BY <1>1
<1>4. PICK F \in Family : \A G \in Family : <<G, F>> \notin R
  <2> HIDE DEF R, Family, S
  <2> QED BY <1>2, <1>3, WFMin
<1>5. PICK m \in T \cap S : F = Upto(m)
  BY <1>4
<1>6. \A k \in T \cap S : m <= k
  <2> SUFFICES ASSUME NEW k \in T \cap S, k < m PROVE FALSE
    BY <1>5
  <2>1. Upto(k) \in Family /\ Upto(k) \subseteq Upto(m) /\ Upto(k) # Upto(m)
    BY <1>5
  <2>2. <<Upto(k), Upto(m)>> \in R
    BY <2>1, <1>3, <1>5, <1>4 DEF StrictSubsetOrdering
  <2> QED BY <2>1, <2>2, <1>4, <1>5
<1> QED
  BY <1>1, <1>5, <1>6

LEMMA AppendBytes ==
  ASSUME NEW S, NEW s \in Seq(S), NEW x
  PROVE  BytesIn(Append(s, x)) = BytesIn(s) \cup {x}
<1> DEFINE t == Append(s, x)
<1>1. Len(t) = Len(s) + 1 /\ t[Len(s) + 1] = x /\ \A i \in 1 .. Len(s) : t[i] = s[i]
  OBVIOUS
<1>2. 1 .. Len(s) + 1 = (1 .. Len(s)) \cup {Len(s) + 1}
  OBVIOUS
<1> HIDE DEF t
<1>3. BytesIn(t) = {t[i] : i \in 1 .. Len(s)} \cup {x}
  BY <1>1, <1>2 DEF BytesIn
<1> QED BY <1>1, <1>3 DEF BytesIn, t

\* The line ends among the first n bytes.
EndsUpTo(all, n) == {i \in 1 .. n : all[i] \in LineEnds}

\* Up to any place of a sequence, the line ends can be put in order.
LEMMA EndsCanBeOrdered ==
  ASSUME NEW all \in Seq(Bytes), NEW n \in 0 .. Len(all)
  PROVE  \E s \in Seq(Nat) : Len(s) <= n /\ Increasing(s) /\ BytesIn(s) = EndsUpTo(all, n)
<1> DEFINE Possible(m) ==
             \E s \in Seq(Nat) : Len(s) <= m /\ Increasing(s) /\ BytesIn(s) = EndsUpTo(all, m)
           Bad == {m \in Nat : m <= Len(all) /\ ~Possible(m)}
<1> SUFFICES ASSUME Bad # {} PROVE FALSE
  OBVIOUS
<1>1. PICK m \in Bad : \A k \in Bad : m <= k
  <2> HIDE DEF Possible
  <2> QED BY LeastNatural
<1>2. Possible(0)
  <2> DEFINE none == <<>>
  <2>1. none \in Seq(Nat) /\ Len(none) = 0
    OBVIOUS
  <2> HIDE DEF none
  <2>2. Increasing(none) /\ BytesIn(none) = {} /\ EndsUpTo(all, 0) = {}
    BY <2>1 DEF Increasing, BytesIn, EndsUpTo
  <2> QED
    <3> HIDE DEF Bad
    <3> SUFFICES \E s \in Seq(Nat) : Len(s) <= 0 /\ Increasing(s) /\ BytesIn(s) = EndsUpTo(all, 0)
      OBVIOUS
    <3> none \in Seq(Nat)
      BY <2>1
    <3> WITNESS none \in Seq(Nat)
    <3> QED BY <2>1, <2>2
<1>3. m \in Nat /\ m # 0 /\ m <= Len(all) /\ ~Possible(m)
  <2> HIDE DEF Possible
  <2> QED BY <1>1, <1>2
<1>4. Possible(m - 1)
  <2> HIDE DEF Possible
  <2>1. m - 1 \in Nat /\ m - 1 <= Len(all)
    BY <1>3
  <2> QED BY <1>1, <1>3, <2>1
<1>5. PICK s \in Seq(Nat) : Len(s) <= m - 1 /\ Increasing(s) /\ BytesIn(s) = EndsUpTo(all, m - 1)
  BY <1>4
<1>6. CASE all[m] \notin LineEnds
  <2>1. EndsUpTo(all, m) = EndsUpTo(all, m - 1)
    BY <1>3, <1>6 DEF EndsUpTo
  <2> QED BY <1>3, <1>5, <2>1
<1>7. CASE all[m] \in LineEnds
  <2> DEFINE t == Append(s, m)
  <2>1. t \in Seq(Nat) /\ Len(t) = Len(s) + 1 /\ Len(t) <= m
    BY <1>3, <1>5
  <2>2. t[Len(s) + 1] = m /\ \A i \in 1 .. Len(s) : t[i] = s[i]
    BY <1>3, <1>5
  <2>3. BytesIn(t) = EndsUpTo(all, m)
    <3>1. BytesIn(t) = BytesIn(s) \cup {m}
      BY <1>5, AppendBytes
    <3>2. EndsUpTo(all, m) = EndsUpTo(all, m - 1) \cup {m}
      BY <1>3, <1>7 DEF EndsUpTo
    <3> QED BY <1>5, <3>1, <3>2
  <2>4. Increasing(t)
    <3>1. \A i \in 1 .. Len(s) : s[i] \in EndsUpTo(all, m - 1)
      BY <1>5 DEF BytesIn
    <3>2. \A i \in 1 .. Len(s) : s[i] < m /\ s[i] \in Nat
      BY <1>3, <3>1 DEF EndsUpTo
    <3>3. SUFFICES ASSUME NEW j \in 1 .. Len(t), NEW k \in 1 .. Len(t), j < k
                   PROVE  t[j] < t[k]
      BY DEF Increasing
    <3>4. j \in 1 .. Len(s) /\ t[j] = s[j]
      BY <1>5, <2>1, <2>2, <3>3
    <3>5. CASE k = Len(s) + 1
      BY <2>2, <3>2, <3>4, <3>5
    <3>6. CASE k \in 1 .. Len(s)
      <4> HIDE DEF t
      <4> QED BY <1>5, <2>2, <3>3, <3>4, <3>6 DEF Increasing
    <3> QED BY <1>5, <2>1, <3>5, <3>6
  <2> QED BY <2>1, <2>3, <2>4, <1>3
<1> QED BY <1>6, <1>7

\* So the choice in EndsOf has something to choose.
LEMMA EndsInOrder ==
  ASSUME NEW all \in Seq(Bytes)
  PROVE  /\ EndsOf(all) \in Seq(1 .. Len(all))
         /\ Increasing(EndsOf(all))
         /\ BytesIn(EndsOf(all)) = EndsUpTo(all, Len(all))
<1> DEFINE ends == EndsUpTo(all, Len(all))
           Tables == UNION {[1 .. n -> ends] : n \in 0 .. Len(all)}
<1>1. \E s \in Tables : Increasing(s) /\ BytesIn(s) = ends
  <2>1. PICK s \in Seq(Nat) : Len(s) <= Len(all) /\ Increasing(s) /\ BytesIn(s) = ends
    BY EndsCanBeOrdered
  <2>2. s \in [1 .. Len(s) -> ends] /\ Len(s) \in 0 .. Len(all)
    BY <2>1 DEF BytesIn
  <2> QED BY <2>1, <2>2
<1>2. EndsOf(all) = CHOOSE s \in Tables : Increasing(s) /\ BytesIn(s) = ends
  BY DEF EndsOf, EndsUpTo
<1>3. EndsOf(all) \in Tables /\ Increasing(EndsOf(all)) /\ BytesIn(EndsOf(all)) = ends
  BY <1>1, <1>2
<1>4. ends \subseteq 1 .. Len(all)
  BY DEF EndsUpTo
<1>5. PICK n \in 0 .. Len(all) : EndsOf(all) \in [1 .. n -> ends]
  BY <1>3
<1>6. EndsOf(all) \in Seq(1 .. Len(all))
  BY <1>4, <1>5
<1> QED BY <1>3, <1>6

LEMMA Division ==
  ASSUME NEW n \in Nat, NEW d \in Nat \ {0}
  PROVE  /\ n \div d \in Nat
         /\ (n \div d) * d <= n /\ n - (n \div d) * d < d
BY SMT

-----------------------------------------------------------------------------
(* Capture: what consume makes of the bytes it has is a cutting of them *)

\* The n entries and the rest cut a sequence at the places c, from left to right.
CutsAt(all, n, c, entries, rest) ==
  /\ n \in Nat /\ c \in [0 .. n -> 0 .. Len(all)] /\ c[0] = 0
  /\ \A i, j \in 0 .. n : i < j => c[i] < c[j]
  /\ entries = [j \in 1 .. n |-> SubSeq(all, c[j - 1] + 1, c[j])]
  /\ rest = SubSeq(all, c[n] + 1, Len(all))

\* What SubSeq returns.
LEMMA Part ==
  ASSUME NEW S, NEW s \in Seq(S), NEW a \in Nat, NEW b \in Nat, a <= b, b <= Len(s)
  PROVE  /\ SubSeq(s, a + 1, b) \in Seq(S)
         /\ Len(SubSeq(s, a + 1, b)) = b - a
         /\ \A i \in 1 .. b - a : SubSeq(s, a + 1, b)[i] = s[a + i]
  OBVIOUS

\* What follows from it.
CutInto(all, n, c, entries, rest) ==
  /\ n \in Nat /\ \A j \in 0 .. n : c[j] \in Nat /\ c[j] <= Len(all)
  /\ c[0] = 0 /\ \A i, j \in 0 .. n : i <= j => c[i] <= c[j]
  /\ \A i, j \in 0 .. n : i < j => c[i] < c[j]
  /\ \A j \in 1 .. n : c[j - 1] \in Nat /\ c[j] \in Nat /\ c[j - 1] < c[j]
  /\ entries \in Seq(Seq(Bytes)) /\ Len(entries) = n
  /\ \A j \in 1 .. n :
       /\ entries[j] = SubSeq(all, c[j - 1] + 1, c[j])
       /\ Len(entries[j]) = c[j] - c[j - 1]
       /\ \A a \in 1 .. Len(entries[j]) : entries[j][a] = all[c[j - 1] + a]
  /\ rest = SubSeq(all, c[n] + 1, Len(all))
  /\ rest \in Seq(Bytes) /\ Len(rest) = Len(all) - c[n]
  /\ \A a \in 1 .. Len(rest) : rest[a] = all[c[n] + a]

\* A cutting gives typed entries, with their lengths and bytes.
LEMMA CutsTyped ==
  ASSUME NEW all \in Seq(Bytes), NEW n, NEW c, NEW entries, NEW rest,
         CutsAt(all, n, c, entries, rest)
  PROVE  CutInto(all, n, c, entries, rest)
<1>1. n \in Nat /\ \A j \in 0 .. n : c[j] \in Nat /\ c[j] <= Len(all)
  BY DEF CutsAt
<1>2. ASSUME NEW j \in 1 .. n
      PROVE  c[j - 1] \in Nat /\ c[j] \in Nat /\ c[j - 1] < c[j] /\ c[j] <= Len(all)
  <2>1. j - 1 \in 0 .. n /\ j \in 0 .. n /\ j - 1 < j
    BY <1>1
  <2> QED BY <1>1, <2>1 DEF CutsAt
<1>3. /\ c[0] = 0 /\ \A i, j \in 0 .. n : i <= j => c[i] <= c[j]
      /\ \A i, j \in 0 .. n : i < j => c[i] < c[j]
  BY <1>1 DEF CutsAt
<1>4. ASSUME NEW j \in 1 .. n
      PROVE  /\ SubSeq(all, c[j - 1] + 1, c[j]) \in Seq(Bytes)
             /\ Len(SubSeq(all, c[j - 1] + 1, c[j])) = c[j] - c[j - 1]
             /\ \A a \in 1 .. c[j] - c[j - 1] :
                  SubSeq(all, c[j - 1] + 1, c[j])[a] = all[c[j - 1] + a]
  <2>1. c[j - 1] <= c[j]
    BY <1>2
  <2> QED BY <1>2, <2>1, Part
<1>5. entries = [j \in 1 .. n |-> SubSeq(all, c[j - 1] + 1, c[j])]
  BY DEF CutsAt
<1>6. entries \in Seq(Seq(Bytes)) /\ Len(entries) = n
  <2>1. entries \in [1 .. n -> Seq(Bytes)]
    BY <1>4, <1>5
  <2> QED BY <1>1, <2>1
<1>7. c[n] \in Nat /\ c[n] <= Len(all) /\ rest = SubSeq(all, c[n] + 1, Len(all))
  BY <1>1 DEF CutsAt
<1>8. /\ rest \in Seq(Bytes) /\ Len(rest) = Len(all) - c[n]
      /\ \A a \in 1 .. Len(rest) : rest[a] = all[c[n] + a]
  <2> DEFINE p == c[n]
             L == Len(all)
             r == SubSeq(all, p + 1, L)
  <2>1. p \in Nat /\ L \in Nat /\ p <= L
    BY <1>7
  <2>2. rest = r
    BY <1>7
  <2> HIDE DEF p
  <2>3. r \in Seq(Bytes) /\ Len(r) = L - p /\ \A a \in 1 .. L - p : r[a] = all[p + a]
    BY <2>1, Part
  <2> HIDE DEF r
  <2> QED BY <2>2, <2>3 DEF p
<1>9. ASSUME NEW j \in 1 .. n
      PROVE  /\ entries[j] = SubSeq(all, c[j - 1] + 1, c[j])
             /\ Len(entries[j]) = c[j] - c[j - 1]
             /\ \A a \in 1 .. Len(entries[j]) : entries[j][a] = all[c[j - 1] + a]
  <2>1. entries[j] = SubSeq(all, c[j - 1] + 1, c[j])
    BY <1>5
  <2> QED BY <1>4, <2>1
<1> QED BY <1>1, <1>2, <1>3, <1>6, <1>7, <1>8, <1>9 DEF CutInto

\* The lines end at the line ends,
LEMMA LinesCut ==
  ASSUME NEW all \in Seq(Bytes)
  PROVE  \E n, c : CutsAt(all, n, c, LinesOf(all), RestOf(all))
<1> DEFINE ends == EndsOf(all)
           n == Len(ends)
           c == [j \in 0 .. n |-> IF j = 0 THEN 0 ELSE ends[j]]
<1>1. ends \in Seq(1 .. Len(all)) /\ Increasing(ends)
  BY EndsInOrder
<1>2. n \in Nat /\ \A j \in 1 .. n : ends[j] \in 1 .. Len(all)
  BY <1>1
<1>3. c \in [0 .. n -> 0 .. Len(all)] /\ c[0] = 0
  BY <1>2
<1>4. \A j \in 1 .. n : c[j] = ends[j]
  BY <1>2
<1>5. ASSUME NEW i \in 0 .. n, NEW j \in 0 .. n, i < j PROVE c[i] < c[j]
  <2>1. CASE i = 0
    BY <1>2, <1>3, <1>4, <1>5, <2>1
  <2>2. CASE i # 0
    <3> HIDE DEF ends, n, c
    <3> QED BY <1>1, <1>2, <1>4, <1>5, <2>2 DEF Increasing, n
  <2> QED BY <2>1, <2>2
<1>6. /\ LinesOf(all) = [j \in 1 .. n |->
           SubSeq(all, IF j = 1 THEN 1 ELSE ends[j - 1] + 1, ends[j])]
      /\ RestOf(all) = SubSeq(all, IF ends = <<>> THEN 1 ELSE ends[n] + 1, Len(all))
  BY DEF LinesOf, RestOf
<1>7. ASSUME NEW j \in 1 .. n
      PROVE  (IF j = 1 THEN 1 ELSE ends[j - 1] + 1) = c[j - 1] + 1 /\ ends[j] = c[j]
  BY <1>2, <1>7
<1>8. LinesOf(all) = [j \in 1 .. n |-> SubSeq(all, c[j - 1] + 1, c[j])]
  <2> HIDE DEF c, n, ends
  <2> QED BY <1>6, <1>7
<1>9. RestOf(all) = SubSeq(all, c[n] + 1, Len(all))
  <2>1. (IF ends = <<>> THEN 1 ELSE ends[n] + 1) = c[n] + 1
    BY <1>1, <1>2
  <2> HIDE DEF c, n, ends
  <2> QED BY <1>6, <2>1
<1> HIDE DEF c, n, ends
<1>10. CutsAt(all, n, c, LinesOf(all), RestOf(all))
  BY <1>2, <1>3, <1>5, <1>8, <1>9 DEF CutsAt
<1> QED BY <1>10

\* the pieces of the rest at the multiples of MaxLine,
LEMMA PiecesCut ==
  ASSUME NEW rest \in Seq(Bytes), CaptureAssumption
  PROVE  /\ \E n, c : CutsAt(rest, n, c, PiecesOf(rest), Remainder(rest))
         /\ Len(Remainder(rest)) < MaxLine
<1> DEFINE n == Len(rest) \div MaxLine
           c == [j \in 0 .. n |-> j * MaxLine]
<1>1. MaxLine \in Nat \ {0} /\ Len(rest) \in Nat
  BY DEF CaptureAssumption
<1>2. n \in Nat /\ n * MaxLine <= Len(rest) /\ Len(rest) - n * MaxLine < MaxLine
  BY <1>1, Division
<1> HIDE DEF n
<1>3. ASSUME NEW i \in 0 .. n, NEW j \in 0 .. n, i < j
      PROVE  i * MaxLine \in Nat /\ i * MaxLine + MaxLine <= j * MaxLine /\ j * MaxLine \in Nat
  <2> HIDE DEF c
  <2>1. i \in Nat /\ j \in Nat /\ i + 1 <= j /\ MaxLine \in Nat
    BY <1>1, <1>2, <1>3
  <2>2. PICK d \in Nat : j = i + 1 + d
    <3>1. j - i - 1 \in Nat /\ j = i + 1 + (j - i - 1)
      BY <2>1
    <3> QED BY <3>1
  <2>3. j * MaxLine = i * MaxLine + MaxLine + d * MaxLine /\ d * MaxLine \in Nat
        /\ i * MaxLine \in Nat
    BY <2>1, <2>2
  <2> QED BY <1>1, <2>3
<1>4. c[0] = 0 /\ c[n] = n * MaxLine /\ \A j \in 0 .. n : c[j] = j * MaxLine
  BY <1>1, <1>2
<1> HIDE DEF c
<1>5. ASSUME NEW i \in 0 .. n, NEW j \in 0 .. n, i < j
      PROVE  c[i] \in Nat /\ c[j] \in Nat /\ c[i] + MaxLine <= c[j]
  <2>1. c[i] = i * MaxLine /\ c[j] = j * MaxLine
    BY <1>4
  <2> QED BY <1>3, <1>5, <2>1
<1>6. ASSUME NEW j \in 0 .. n PROVE c[j] \in 0 .. Len(rest)
  <2>1. c[n] \in 0 .. Len(rest)
    <3>1. n * MaxLine \in Nat
      BY <1>1, <1>2
    <3> QED BY <1>1, <1>2, <1>4, <3>1
  <2>2. CASE j = n
    BY <2>1, <2>2
  <2>3. CASE j < n
    <3>1. c[j] \in Nat /\ c[j] + MaxLine <= c[n]
      BY <1>2, <1>5, <2>3
    <3> QED BY <1>1, <2>1, <3>1
  <2> QED BY <1>2, <2>2, <2>3
<1>7. c \in [0 .. n -> 0 .. Len(rest)]
  BY <1>6 DEF c
<1>8. PiecesOf(rest) =
        [j \in 1 .. n |-> SubSeq(rest, (j - 1) * MaxLine + 1, j * MaxLine)]
  BY DEF PiecesOf, n
<1>9. PiecesOf(rest) = [j \in 1 .. n |-> SubSeq(rest, c[j - 1] + 1, c[j])]
  <2>1. ASSUME NEW j \in 1 .. n PROVE c[j - 1] = (j - 1) * MaxLine /\ c[j] = j * MaxLine
    BY <1>2, <1>4
  <2> QED BY <1>8, <2>1
<1>10. Remainder(rest) = SubSeq(rest, c[n] + 1, Len(rest))
  BY <1>4 DEF Remainder, n
<1>11. \A i, j \in 0 .. n : i < j => c[i] < c[j]
  BY <1>1, <1>5
<1>12. CutsAt(rest, n, c, PiecesOf(rest), Remainder(rest))
  BY <1>2, <1>4, <1>7, <1>9, <1>10, <1>11 DEF CutsAt
<1>13. Len(Remainder(rest)) = Len(rest) - n * MaxLine
  <2>1. c[n] \in Nat /\ c[n] <= Len(rest)
    BY <1>2, <1>6
  <2> QED BY <1>1, <1>4, <1>10, <2>1, Part
<1> QED BY <1>2, <1>12, <1>13

\* A part of a tail of s is a part of s.
LEMMA PartOfPart ==
  ASSUME NEW S, NEW s \in Seq(S), NEW p \in 0 .. Len(s),
         NEW a \in Nat, NEW b \in Nat, a <= b, p + b <= Len(s)
  PROVE  SubSeq(SubSeq(s, p + 1, Len(s)), a + 1, b) = SubSeq(s, p + a + 1, p + b)
<1> DEFINE t == SubSeq(s, p + 1, Len(s))
           u == SubSeq(t, a + 1, b)
           v == SubSeq(s, p + a + 1, p + b)
<1>1. t \in Seq(S) /\ Len(t) = Len(s) - p /\ \A i \in 1 .. Len(s) - p : t[i] = s[p + i]
  BY Part
<1> HIDE DEF t
<1>2. u \in Seq(S) /\ Len(u) = b - a /\ \A i \in 1 .. b - a : u[i] = t[a + i]
  BY <1>1, Part
<1>3. v \in Seq(S) /\ Len(v) = b - a /\ \A i \in 1 .. b - a : v[i] = s[p + a + i]
  <2> p + a \in Nat /\ p + b \in Nat
    OBVIOUS
  <2> HIDE DEF u
  <2> QED BY Part
<1> HIDE DEF u, v
<1>4. ASSUME NEW i \in 1 .. Len(u) PROVE u[i] = v[i]
  <2>1. i \in 1 .. b - a /\ a + i \in 1 .. Len(s) - p
    BY <1>2, <1>4
  <2>2. p + (a + i) = p + a + i
    BY <2>1
  <2> QED BY <1>1, <1>2, <1>3, <2>1, <2>2
<1>5. u = v
  BY <1>2, <1>3, <1>4, SeqEqual
<1> QED BY <1>5 DEF u, v, t

LEMMA JoinProperties ==
  ASSUME NEW S, NEW s \in Seq(S), NEW t \in Seq(S)
  PROVE  /\ s \o t \in Seq(S) /\ Len(s \o t) = Len(s) + Len(t)
         /\ \A i \in 1 .. Len(s) : (s \o t)[i] = s[i]
         /\ \A i \in Len(s) + 1 .. Len(s) + Len(t) : (s \o t)[i] = t[i - Len(s)]
  OBVIOUS

\* and to cut the rest of a cutting is to go on with it.
LEMMA CutsJoin ==
  ASSUME NEW all \in Seq(Bytes), NEW m, NEW n, NEW c, NEW d,
         NEW lines, NEW pieces, NEW rest, NEW kept,
         CutsAt(all, m, c, lines, rest), CutsAt(rest, n, d, pieces, kept)
  PROVE  \E k, e : CutsAt(all, k, e, lines \o pieces, kept)
<1> DEFINE L == Len(all)
           e == [j \in 0 .. m + n |-> IF j <= m THEN c[j] ELSE c[m] + d[j - m]]
<1>1. /\ m \in Nat /\ L \in Nat /\ c[0] = 0 /\ rest \in Seq(Bytes) /\ Len(rest) = L - c[m]
      /\ \A j \in 0 .. m : c[j] \in Nat /\ c[j] <= L
      /\ \A i, j \in 0 .. m : i < j => c[i] < c[j]
      /\ \A j \in 0 .. m : c[j] <= c[m]
      /\ rest = SubSeq(all, c[m] + 1, L)
      /\ lines \in Seq(Seq(Bytes)) /\ Len(lines) = m
      /\ \A j \in 1 .. m : lines[j] = SubSeq(all, c[j - 1] + 1, c[j])
  <2>1. CutInto(all, m, c, lines, rest)
    BY CutsTyped
  <2>2. L \in Nat
    OBVIOUS
  <2> HIDE DEF L, e
  <2> QED BY <2>1, <2>2 DEF CutInto, L
<1>2. /\ n \in Nat /\ d[0] = 0 /\ kept = SubSeq(rest, d[n] + 1, Len(rest))
      /\ \A j \in 0 .. n : d[j] \in Nat /\ d[j] <= Len(rest)
      /\ \A i, j \in 0 .. n : i < j => d[i] < d[j]
      /\ \A j \in 1 .. n : d[j - 1] \in Nat /\ d[j] \in Nat /\ d[j - 1] < d[j]
      /\ pieces \in Seq(Seq(Bytes)) /\ Len(pieces) = n
      /\ \A j \in 1 .. n : pieces[j] = SubSeq(rest, d[j - 1] + 1, d[j])
  <2>1. CutInto(rest, n, d, pieces, kept)
    BY <1>1, CutsTyped
  <2> HIDE DEF L, e
  <2> QED BY <2>1 DEF CutInto
<1>3. c[m] \in Nat /\ c[m] <= L
  BY <1>1
<1>4. /\ \A j \in 0 .. m : e[j] = c[j]
      /\ \A j \in 0 .. n : e[m + j] = c[m] + d[j]
  <2>1. ASSUME NEW j \in 0 .. m PROVE e[j] = c[j]
    BY <1>1, <1>2
  <2>2. ASSUME NEW j \in 0 .. n PROVE e[m + j] = c[m] + d[j]
    <3>1. m + j \in 0 .. m + n /\ (m + j) - m = j
      BY <1>1, <1>2
    <3>2. CASE j = 0
      <4>1. m + j = m /\ e[m] = c[m]
        BY <1>1, <2>1, <3>2
      <4> HIDE DEF e
      <4> QED BY <1>2, <1>3, <3>2, <4>1
    <3>3. CASE j # 0
      <4>1. ~(m + j <= m)
        BY <1>1, <1>2, <3>3
      <4>2. e[m + j] = c[m] + d[(m + j) - m]
        BY <3>1, <4>1
      <4> HIDE DEF e
      <4> QED BY <3>1, <4>2
    <3> QED BY <3>2, <3>3
  <2> QED BY <2>1, <2>2
<1>5. e \in [0 .. m + n -> 0 .. L]
  <2> SUFFICES ASSUME NEW j \in 0 .. m + n
               PROVE  (IF j <= m THEN c[j] ELSE c[m] + d[j - m]) \in 0 .. L
    OBVIOUS
  <2>1. CASE j <= m
    BY <1>1, <2>1
  <2>2. CASE ~(j <= m)
    <3> DEFINE k == j - m
    <3>1. k \in 0 .. n
      BY <1>1, <1>2, <2>2
    <3> HIDE DEF k
    <3>2. d[k] \in Nat /\ d[k] <= L - c[m]
      BY <1>1, <1>2, <3>1
    <3>3. c[m] + d[k] \in 0 .. L
      <4> HIDE DEF L
      <4> QED BY <1>1, <1>3, <3>2
    <3> QED BY <2>2, <3>3 DEF k
  <2> QED BY <2>1, <2>2
<1> HIDE DEF e, L
<1>6. ASSUME NEW j \in 0 .. m + n, ~(j <= m)
      PROVE  j - m \in 1 .. n /\ j = m + (j - m)
             /\ e[j] = c[m] + d[j - m] /\ d[j - m] \in Nat /\ 0 < d[j - m]
  <2>1. j - m \in 1 .. n /\ j = m + (j - m) /\ j - m \in 0 .. n /\ 0 \in 0 .. n /\ 0 < j - m
    BY <1>1, <1>2, <1>6
  <2> QED BY <1>2, <1>4, <2>1
<1>7. ASSUME NEW i \in 0 .. m + n, NEW j \in 0 .. m + n, i < j PROVE e[i] < e[j]
  <2>1. i \in Nat /\ j \in Nat
    BY <1>1, <1>2
  <2>2. CASE j <= m
    <3>1. i \in 0 .. m /\ j \in 0 .. m
      BY <1>1, <1>7, <2>1, <2>2
    <3> QED BY <1>1, <1>4, <1>7, <3>1
  <2>3. CASE i <= m /\ ~(j <= m)
    <3>1. i \in 0 .. m
      BY <1>1, <2>1, <2>3
    <3>2. e[i] \in Nat /\ e[i] <= c[m]
      BY <1>1, <1>4, <3>1
    <3>3. e[j] = c[m] + d[j - m] /\ d[j - m] \in Nat /\ 0 < d[j - m]
      BY <1>6, <2>3
    <3> QED BY <1>3, <3>2, <3>3
  <2>4. CASE ~(i <= m)
    <3>1. ~(j <= m)
      BY <1>1, <1>7, <2>1, <2>4
    <3>2. i - m \in 1 .. n /\ e[i] = c[m] + d[i - m] /\ d[i - m] \in Nat
      BY <1>6, <2>4
    <3>3. j - m \in 1 .. n /\ e[j] = c[m] + d[j - m] /\ d[j - m] \in Nat
      BY <1>6, <3>1
    <3>4. i - m \in 0 .. n /\ j - m \in 0 .. n /\ i - m < j - m
      BY <1>1, <1>2, <1>7, <2>1, <3>2, <3>3
    <3>5. d[i - m] < d[j - m]
      BY <1>2, <3>4
    <3> QED BY <1>3, <3>2, <3>3, <3>5
  <2> QED BY <2>2, <2>3, <2>4
<1>8. /\ lines \o pieces \in Seq(Seq(Bytes)) /\ Len(lines \o pieces) = m + n
      /\ \A j \in 1 .. m : (lines \o pieces)[j] = lines[j]
      /\ \A j \in m + 1 .. m + n : (lines \o pieces)[j] = pieces[j - m]
  <2>1. lines \in Seq(Seq(Bytes)) /\ pieces \in Seq(Seq(Bytes)) /\ Len(lines) = m /\ Len(pieces) = n
    BY <1>1, <1>2
  <2> QED BY <2>1, JoinProperties
<1>9. ASSUME NEW j \in 1 .. m + n
      PROVE  (lines \o pieces)[j] = SubSeq(all, e[j - 1] + 1, e[j])
  <2>1. j \in Nat /\ j - 1 \in Nat
    BY <1>1, <1>2
  <2>2. CASE j <= m
    <3>1. j \in 1 .. m /\ j - 1 \in 0 .. m /\ j \in 0 .. m
      BY <1>1, <2>1, <2>2
    <3>2. e[j - 1] = c[j - 1] /\ e[j] = c[j] /\ (lines \o pieces)[j] = lines[j]
      BY <1>4, <1>8, <3>1
    <3> QED BY <1>1, <3>1, <3>2
  <2>3. CASE ~(j <= m)
    <3> DEFINE k == j - m
    <3>1. /\ k \in 1 .. n /\ k - 1 \in 0 .. n /\ j = m + k /\ j - 1 = m + (k - 1)
          /\ k \in 0 .. n /\ j \in m + 1 .. m + n
      BY <1>1, <1>2, <2>1, <2>3
    <3>2. (lines \o pieces)[j] = pieces[k]
      BY <1>8, <3>1
    <3> HIDE DEF k
    <3>3. e[j - 1] = c[m] + d[k - 1] /\ e[j] = c[m] + d[k]
      BY <1>4, <3>1
    <3>4. d[k - 1] \in Nat /\ d[k] \in Nat /\ d[k - 1] < d[k]
      BY <1>2, <3>1
    <3>5. d[k - 1] <= d[k] /\ c[m] + d[k] <= L /\ c[m] \in 0 .. L
      <4>1. d[k] <= Len(rest)
        BY <1>2, <3>1
      <4> QED BY <1>1, <1>3, <3>4, <4>1
    <3>6. SubSeq(rest, d[k - 1] + 1, d[k]) = SubSeq(all, c[m] + d[k - 1] + 1, c[m] + d[k])
      <4>1. SubSeq(SubSeq(all, c[m] + 1, L), d[k - 1] + 1, d[k])
              = SubSeq(all, c[m] + d[k - 1] + 1, c[m] + d[k])
        BY <3>4, <3>5, PartOfPart DEF L
      <4> QED BY <1>1, <4>1
    <3>7. pieces[k] = SubSeq(rest, d[k - 1] + 1, d[k])
      BY <1>2, <3>1
    <3> QED BY <3>2, <3>3, <3>6, <3>7
  <2> QED BY <2>2, <2>3
<1>10. lines \o pieces = [j \in 1 .. m + n |-> SubSeq(all, e[j - 1] + 1, e[j])]
  <2> DEFINE s == lines \o pieces
  <2>1. s \in Seq(Seq(Bytes)) /\ Len(s) = m + n
    BY <1>8
  <2>2. \A j \in 1 .. m + n : s[j] = SubSeq(all, e[j - 1] + 1, e[j])
    BY <1>9
  <2> HIDE DEF s
  <2>3. s = [j \in 1 .. m + n |-> s[j]]
    BY <2>1
  <2>4. s = [j \in 1 .. m + n |-> SubSeq(all, e[j - 1] + 1, e[j])]
    BY <2>2, <2>3
  <2> QED BY <2>4 DEF s
<1>11. kept = SubSeq(all, e[m + n] + 1, L)
  <2>1. d[n] \in Nat /\ d[n] <= Len(rest) /\ n \in 0 .. n /\ c[m] + Len(rest) = L
        /\ Len(rest) \in Nat /\ c[m] \in 0 .. L
    BY <1>1, <1>2, <1>3
  <2>2. SubSeq(SubSeq(all, c[m] + 1, L), d[n] + 1, Len(rest))
          = SubSeq(all, c[m] + d[n] + 1, c[m] + Len(rest))
    <3>1. d[n] \in Nat /\ Len(rest) \in Nat /\ d[n] <= Len(rest) /\ c[m] + Len(rest) <= Len(all)
          /\ c[m] \in 0 .. Len(all)
      BY <1>1, <2>1 DEF L
    <3> DEFINE p == c[m]
               a == d[n]
               b == Len(rest)
    <3> HIDE DEF p, a, b
    <3>2. SubSeq(SubSeq(all, p + 1, Len(all)), a + 1, b) = SubSeq(all, p + a + 1, p + b)
      BY <3>1, PartOfPart DEF p, a, b
    <3> QED BY <3>2 DEF p, a, b, L
  <2>3. e[m + n] = c[m] + d[n]
    BY <1>4, <2>1
  <2> QED BY <1>1, <1>2, <2>1, <2>2, <2>3
<1>12. e[0] = 0 /\ m + n \in Nat
  BY <1>1, <1>2, <1>4
<1>13. CutsAt(all, m + n, e, lines \o pieces, kept)
  BY <1>5, <1>7, <1>10, <1>11, <1>12 DEF CutsAt, L
<1> QED BY <1>13

\* What consume makes of the bytes it has: entries, and a rest within the bound.
LEMMA ConsumeCuts ==
  ASSUME NEW all \in Seq(Bytes), CaptureAssumption
  PROVE  /\ \E n, c : CutsAt(all, n, c, LinesOf(all) \o PiecesOf(RestOf(all)),
                             Remainder(RestOf(all)))
         /\ Len(Remainder(RestOf(all))) < MaxLine
<1> DEFINE rest == RestOf(all)
<1>1. PICK m, c : CutsAt(all, m, c, LinesOf(all), rest)
  BY LinesCut
<1> HIDE DEF rest
<1>2. rest \in Seq(Bytes)
  BY <1>1, CutsTyped DEF CutInto
<1>3. PICK n, d : CutsAt(rest, n, d, PiecesOf(rest), Remainder(rest))
  BY <1>2, PiecesCut
<1>4. Len(Remainder(rest)) < MaxLine
  BY <1>2, PiecesCut
<1>5. \E k, e : CutsAt(all, k, e, LinesOf(all) \o PiecesOf(rest), Remainder(rest))
  BY <1>1, <1>3, CutsJoin
<1> QED BY <1>4, <1>5 DEF rest

-----------------------------------------------------------------------------
(* Capture: what a history holds, and when it is in order *)

\* The bytes of a list of lines; they increase; each line is bytes that followed each
\* other; and the bytes of s are consecutive.
LoggedIn(l) == UNION {BytesIn(l[i]) : i \in 1 .. Len(l)}
Sorted(l) ==
  \A i, j \in 1 .. Len(l) :
    \A a \in 1 .. Len(l[i]), b \in 1 .. Len(l[j]) :
      i < j \/ (i = j /\ a < b) => l[i][a] < l[j][b]
Whole(l) == \A i \in 1 .. Len(l) : \A a \in 2 .. Len(l[i]) : l[i][a] = l[i][a - 1] + 1

Consecutive(s, from) == \A i \in 1 .. Len(s) : s[i] = from + i - 1

LEMMA LoggedHas ==
  ASSUME NEW l, NEW i \in 1 .. Len(l), NEW a \in 1 .. Len(l[i])
  PROVE  l[i][a] \in LoggedIn(l)
BY DEF LoggedIn, BytesIn

LEMMA LoggedJoins ==
  ASSUME NEW l \in Seq(Seq(Bytes)), NEW m \in Seq(Seq(Bytes))
  PROVE  LoggedIn(l \o m) = LoggedIn(l) \cup LoggedIn(m)
<1> DEFINE s == l \o m
<1>1. /\ Len(s) = Len(l) + Len(m) /\ Len(l) \in Nat /\ Len(m) \in Nat
      /\ \A i \in 1 .. Len(l) : s[i] = l[i]
      /\ \A i \in Len(l) + 1 .. Len(l) + Len(m) : s[i] = m[i - Len(l)]
  BY JoinProperties
<1> HIDE DEF s
<1>2. ASSUME NEW i \in 1 .. Len(m)
      PROVE  Len(l) + i \in 1 .. Len(s) /\ s[Len(l) + i] = m[i]
  <2>1. /\ Len(l) + i \in Len(l) + 1 .. Len(l) + Len(m) /\ (Len(l) + i) - Len(l) = i
        /\ Len(l) + i \in 1 .. Len(s)
    BY <1>1
  <2> QED BY <1>1, <2>1
<1>3. \A i \in 1 .. Len(s) : i \in 1 .. Len(l) \/ \E j \in 1 .. Len(m) : i = Len(l) + j
  <2> TAKE i \in 1 .. Len(s)
  <2>1. CASE i <= Len(l)
    BY <1>1, <2>1
  <2>2. CASE ~(i <= Len(l))
    <3>1. i - Len(l) \in 1 .. Len(m) /\ i = Len(l) + (i - Len(l))
      BY <1>1, <2>2
    <3> QED BY <3>1
  <2> QED BY <2>1, <2>2
<1>4. LoggedIn(s) \subseteq LoggedIn(l) \cup LoggedIn(m)
  <2> SUFFICES ASSUME NEW i \in 1 .. Len(s), NEW x \in BytesIn(s[i])
               PROVE  x \in LoggedIn(l) \cup LoggedIn(m)
    BY DEF LoggedIn
  <2>1. CASE i \in 1 .. Len(l)
    BY <1>1, <2>1 DEF LoggedIn
  <2>2. CASE \E j \in 1 .. Len(m) : i = Len(l) + j
    BY <1>2, <2>2 DEF LoggedIn
  <2> QED BY <1>3, <2>1, <2>2
<1>5. LoggedIn(l) \subseteq LoggedIn(s)
  <2>1. \A i \in 1 .. Len(l) : i \in 1 .. Len(s) /\ s[i] = l[i]
    BY <1>1
  <2> QED BY <2>1 DEF LoggedIn
<1>6. LoggedIn(m) \subseteq LoggedIn(s)
  BY <1>2 DEF LoggedIn
<1> QED BY <1>4, <1>5, <1>6 DEF s

LEMMA WholeJoins ==
  ASSUME NEW l \in Seq(Seq(Bytes)), NEW m \in Seq(Seq(Bytes)), Whole(l), Whole(m)
  PROVE  Whole(l \o m)
<1> DEFINE s == l \o m
<1>1. /\ Len(s) = Len(l) + Len(m) /\ Len(l) \in Nat /\ Len(m) \in Nat
      /\ \A i \in 1 .. Len(l) : s[i] = l[i]
      /\ \A i \in Len(l) + 1 .. Len(l) + Len(m) : s[i] = m[i - Len(l)]
  BY JoinProperties
<1> HIDE DEF s
<1>2. SUFFICES ASSUME NEW i \in 1 .. Len(s)
               PROVE  \A a \in 2 .. Len(s[i]) : s[i][a] = s[i][a - 1] + 1
  BY DEF Whole, s
<1>3. CASE i <= Len(l)
  <2>1. i \in 1 .. Len(l) /\ s[i] = l[i]
    BY <1>1, <1>3
  <2> QED BY <2>1 DEF Whole
<1>4. CASE ~(i <= Len(l))
  <2>1. i - Len(l) \in 1 .. Len(m) /\ s[i] = m[i - Len(l)]
    BY <1>1, <1>4
  <2> QED BY <2>1 DEF Whole
<1> QED BY <1>3, <1>4

LEMMA SortedJoins ==
  ASSUME NEW l \in Seq(Seq(Bytes)), NEW m \in Seq(Seq(Bytes)), Sorted(l), Sorted(m),
         \A x \in LoggedIn(l), y \in LoggedIn(m) : x < y
  PROVE  Sorted(l \o m)
<1> DEFINE s == l \o m
<1>1. /\ Len(s) = Len(l) + Len(m) /\ Len(l) \in Nat /\ Len(m) \in Nat
      /\ \A i \in 1 .. Len(l) : s[i] = l[i]
      /\ \A i \in Len(l) + 1 .. Len(l) + Len(m) : s[i] = m[i - Len(l)]
  BY JoinProperties
<1> HIDE DEF s
<1>2. SUFFICES ASSUME NEW i \in 1 .. Len(s), NEW j \in 1 .. Len(s),
                      NEW a \in 1 .. Len(s[i]), NEW b \in 1 .. Len(s[j]),
                      i < j \/ (i = j /\ a < b)
               PROVE  s[i][a] < s[j][b]
  BY DEF Sorted, s
<1>3. CASE j <= Len(l)
  <2>1. i \in 1 .. Len(l) /\ s[i] = l[i] /\ j \in 1 .. Len(l) /\ s[j] = l[j]
    BY <1>1, <1>2, <1>3
  <2> QED BY <1>2, <2>1 DEF Sorted
<1>4. CASE ~(i <= Len(l))
  <2>1. i \in Len(l) + 1 .. Len(l) + Len(m) /\ j \in Len(l) + 1 .. Len(l) + Len(m)
    BY <1>1, <1>2, <1>4
  <2>2. s[i] = m[i - Len(l)] /\ s[j] = m[j - Len(l)]
    BY <1>1, <2>1
  <2>3. /\ i - Len(l) \in 1 .. Len(m) /\ j - Len(l) \in 1 .. Len(m)
        /\ (i < j <=> i - Len(l) < j - Len(l)) /\ (i = j <=> i - Len(l) = j - Len(l))
    BY <1>1, <2>1
  <2>4. /\ i - Len(l) \in 1 .. Len(m) /\ s[i] = m[i - Len(l)]
        /\ j - Len(l) \in 1 .. Len(m) /\ s[j] = m[j - Len(l)]
        /\ (i < j <=> i - Len(l) < j - Len(l)) /\ (i = j <=> i - Len(l) = j - Len(l))
    BY <2>2, <2>3
  <2> QED BY <1>2, <2>4 DEF Sorted
<1>5. CASE i <= Len(l) /\ ~(j <= Len(l))
  <2>1. i \in 1 .. Len(l) /\ s[i] = l[i] /\ j - Len(l) \in 1 .. Len(m) /\ s[j] = m[j - Len(l)]
    BY <1>1, <1>2, <1>5
  <2>2. s[i][a] \in LoggedIn(l) /\ s[j][b] \in LoggedIn(m)
    BY <1>2, <2>1, LoggedHas
  <2> QED BY <2>2
<1> QED BY <1>3, <1>4, <1>5

\* What the cuts of a run of consecutive bytes hold.
LEMMA CutContents ==
  ASSUME NEW all \in Seq(Bytes), NEW n, NEW c, NEW entries, NEW rest,
         CutInto(all, n, c, entries, rest), NEW from \in Nat,
         Consecutive(all, from)
  PROVE  /\ LoggedIn(entries) \cup BytesIn(rest) = BytesIn(all)
         /\ Whole(entries) /\ Sorted(entries)
         /\ \A x \in LoggedIn(entries) : from <= x /\ x < from + c[n]
         /\ Consecutive(rest, from + c[n])
<1>1. \A i \in 1 .. Len(all) : all[i] = from + i - 1
  BY DEF Consecutive
<1>2. /\ n \in Nat /\ Len(entries) = n /\ Len(all) \in Nat
      /\ \A j \in 0 .. n : c[j] \in Nat /\ c[j] <= Len(all)
      /\ c[0] = 0 /\ \A i, j \in 0 .. n : i <= j => c[i] <= c[j]
  BY DEF CutInto
<1>3. ASSUME NEW j \in 1 .. n
      PROVE  /\ c[j - 1] \in Nat /\ c[j] \in Nat /\ c[j - 1] < c[j] /\ c[j] <= c[n]
             /\ c[n] <= Len(all) /\ c[n] \in Nat /\ 0 <= c[j - 1]
             /\ Len(entries[j]) = c[j] - c[j - 1]
             /\ \A a \in 1 .. Len(entries[j]) :
                  /\ c[j - 1] + a \in 1 .. Len(all) /\ entries[j][a] = all[c[j - 1] + a]
                  /\ entries[j][a] = from + c[j - 1] + a - 1
  <2>1. /\ c[j - 1] \in Nat /\ c[j] \in Nat /\ c[j - 1] < c[j]
        /\ Len(entries[j]) = c[j] - c[j - 1]
        /\ \A a \in 1 .. Len(entries[j]) : entries[j][a] = all[c[j - 1] + a]
    BY DEF CutInto
  <2>2. c[j] <= c[n] /\ c[n] <= Len(all) /\ c[n] \in Nat
    <3>1. j \in 0 .. n /\ n \in 0 .. n /\ j <= n
      BY <1>2
    <3> QED BY <1>2, <3>1
  <2>3. ASSUME NEW a \in 1 .. Len(entries[j])
        PROVE  /\ c[j - 1] + a \in 1 .. Len(all) /\ entries[j][a] = all[c[j - 1] + a]
               /\ entries[j][a] = from + c[j - 1] + a - 1
    <3>1. c[j - 1] + a \in 1 .. Len(all)
      BY <1>2, <2>1, <2>2
    <3>2. all[c[j - 1] + a] = from + (c[j - 1] + a) - 1
      BY <1>1, <3>1
    <3> QED BY <2>1, <3>1, <3>2
  <2> QED BY <2>1, <2>2, <2>3
<1>4. /\ rest \in Seq(Bytes) /\ Len(rest) = Len(all) - c[n] /\ c[n] \in Nat /\ c[n] <= Len(all)
      /\ \A a \in 1 .. Len(rest) : rest[a] = all[c[n] + a] /\ c[n] + a \in 1 .. Len(all)
  <2>1. n \in 0 .. n
    BY <1>2
  <2>2. rest \in Seq(Bytes) /\ Len(rest) = Len(all) - c[n]
        /\ \A a \in 1 .. Len(rest) : rest[a] = all[c[n] + a]
    BY DEF CutInto
  <2> QED BY <1>2, <2>1, <2>2
<1>5. ASSUME NEW a \in 1 .. Len(rest) PROVE rest[a] = from + c[n] + a - 1
  <2>1. all[c[n] + a] = from + (c[n] + a) - 1
    BY <1>1, <1>4
  <2> QED BY <1>4, <2>1
<1>6. ASSUME NEW j \in 1 .. n, NEW a \in 1 .. Len(entries[j])
       PROVE  /\ a \in Nat /\ 1 <= a /\ a <= c[j] - c[j - 1]
              /\ c[j - 1] \in Nat /\ c[j] \in Nat /\ c[j] <= c[n] /\ c[n] \in Nat
              /\ entries[j][a] = from + c[j - 1] + a - 1
  <2>1. /\ c[j - 1] \in Nat /\ c[j] \in Nat /\ c[j] <= c[n] /\ c[n] \in Nat
        /\ Len(entries[j]) = c[j] - c[j - 1] /\ entries[j][a] = from + c[j - 1] + a - 1
    BY <1>3
  <2> QED BY <2>1
<1>7. \A x \in LoggedIn(entries) : from <= x /\ x < from + c[n]
  <2> SUFFICES ASSUME NEW j \in 1 .. n, NEW a \in 1 .. Len(entries[j])
               PROVE  from <= entries[j][a] /\ entries[j][a] < from + c[n]
    BY <1>2 DEF LoggedIn, BytesIn
  <2>1. /\ a \in Nat /\ 1 <= a /\ a <= c[j] - c[j - 1]
        /\ c[j - 1] \in Nat /\ c[j] \in Nat /\ c[j] <= c[n] /\ c[n] \in Nat
        /\ entries[j][a] = from + c[j - 1] + a - 1
    BY <1>6
  <2> DEFINE p == c[j - 1]
             q == c[j]
             r == c[n]
             x == entries[j][a]
  <2>2. a \in Nat /\ 1 <= a /\ a <= q - p /\ p \in Nat /\ q \in Nat /\ q <= r /\ r \in Nat
        /\ x = from + p + a - 1
    BY <2>1
  <2> HIDE DEF p, q, r, x
  <2>3. from <= x /\ x < from + r
    BY <2>2
  <2> QED BY <2>3 DEF r, x
<1>8. Whole(entries)
  <2> SUFFICES ASSUME NEW j \in 1 .. n, NEW a \in 2 .. Len(entries[j])
               PROVE  entries[j][a] = entries[j][a - 1] + 1
    BY <1>2 DEF Whole
  <2>1. Len(entries[j]) \in Nat
    BY <1>3
  <2>2. a \in 1 .. Len(entries[j]) /\ a - 1 \in 1 .. Len(entries[j])
    BY <2>1
  <2>3. entries[j][a] = from + c[j - 1] + a - 1 /\ c[j - 1] \in Nat /\ a \in Nat
    BY <1>6, <2>2
  <2>4. entries[j][a - 1] = from + c[j - 1] + (a - 1) - 1
    BY <1>6, <2>2
  <2> DEFINE x == entries[j][a]
             y == entries[j][a - 1]
             p == c[j - 1]
  <2>5. x = from + p + a - 1 /\ p \in Nat /\ a \in Nat /\ y = from + p + (a - 1) - 1
    BY <2>3, <2>4
  <2> HIDE DEF x, y, p
  <2>6. x = y + 1
    BY <2>5
  <2> QED BY <2>6 DEF x, y
<1>9. Sorted(entries)
  <2> SUFFICES ASSUME NEW i \in 1 .. n, NEW j \in 1 .. n, NEW a \in 1 .. Len(entries[i]),
                      NEW b \in 1 .. Len(entries[j]), i < j \/ (i = j /\ a < b)
               PROVE  entries[i][a] < entries[j][b]
    BY <1>2 DEF Sorted
  <2>1. /\ entries[i][a] = from + c[i - 1] + a - 1 /\ a <= c[i] - c[i - 1]
        /\ c[i - 1] \in Nat /\ c[i] \in Nat /\ a \in Nat
    BY <1>6
  <2>2. entries[j][b] = from + c[j - 1] + b - 1 /\ c[j - 1] \in Nat /\ b \in Nat /\ 1 <= b
    BY <1>6
  <2> DEFINE p == c[i - 1]
             q == c[i]
             r == c[j - 1]
             x == entries[i][a]
             y == entries[j][b]
  <2>3. x = from + p + a - 1 /\ a <= q - p /\ p \in Nat /\ q \in Nat /\ a \in Nat
        /\ y = from + r + b - 1 /\ r \in Nat /\ b \in Nat /\ 1 <= b
    BY <2>1, <2>2
  <2>4. CASE i = j /\ a < b
    <3>1. r = p
      BY <2>4
    <3> HIDE DEF p, q, r, x, y
    <3>2. x < y
      BY <2>3, <2>4, <3>1
    <3> QED BY <3>2 DEF x, y
  <2>5. CASE i < j
    <3>1. i \in 0 .. n /\ j - 1 \in 0 .. n /\ i <= j - 1
      BY <1>2, <2>5
    <3>2. q <= r
      BY <1>2, <3>1
    <3> HIDE DEF p, q, r, x, y
    <3>3. x < y
      BY <2>3, <3>2
    <3> QED BY <3>3 DEF x, y
  <2> QED BY <2>4, <2>5
<1>10. LoggedIn(entries) \subseteq BytesIn(all)
  <2> SUFFICES ASSUME NEW j \in 1 .. n, NEW a \in 1 .. Len(entries[j])
               PROVE  entries[j][a] \in BytesIn(all)
    BY <1>2 DEF LoggedIn, BytesIn
  <2>1. c[j - 1] + a \in 1 .. Len(all) /\ entries[j][a] = all[c[j - 1] + a]
    BY <1>3
  <2> QED BY <2>1 DEF BytesIn
<1>11. BytesIn(rest) \subseteq BytesIn(all)
  BY <1>4 DEF BytesIn
<1>12. BytesIn(all) \subseteq LoggedIn(entries) \cup BytesIn(rest)
  <2> SUFFICES ASSUME NEW i \in 1 .. Len(all)
               PROVE  all[i] \in LoggedIn(entries) \cup BytesIn(rest)
    BY DEF BytesIn
  <2>1. CASE i > c[n]
    <3>1. i - c[n] \in 1 .. Len(rest) /\ c[n] + (i - c[n]) = i
      BY <1>2, <1>4, <2>1
    <3>2. rest[i - c[n]] = all[i]
      BY <1>4, <3>1
    <3> QED BY <3>1, <3>2 DEF BytesIn
  <2>2. CASE i <= c[n]
    <3> DEFINE T == {j \in 0 .. n : i <= c[j]}
    <3>1. T \in SUBSET Nat /\ n \in T
      BY <1>2, <2>2
    <3>2. PICK j \in T : \A k \in T : j <= k
      BY <3>1, LeastNatural
    <3>3. j \in 1 .. n
      BY <1>2, <3>2
    <3>4. ~(i <= c[j - 1])
      <4>1. j - 1 \in 0 .. n /\ ~(j <= j - 1)
        BY <1>2, <3>3
      <4>2. j - 1 \notin T
        BY <3>2, <4>1
      <4> QED BY <4>1, <4>2
    <3> DEFINE p == c[j - 1]
               q == c[j]
    <3>5. p \in Nat /\ q \in Nat /\ Len(entries[j]) = q - p /\ i <= q /\ ~(i <= p) /\ i \in Nat
      BY <1>2, <1>3, <3>2, <3>3, <3>4
    <3> HIDE DEF p, q
    <3> DEFINE a == i - p
    <3>6. a \in 1 .. Len(entries[j]) /\ p + a = i
      BY <3>5
    <3> HIDE DEF a
    <3>7. entries[j][a] = all[c[j - 1] + a]
      BY <1>3, <3>3, <3>6
    <3>8. entries[j][a] = all[i]
      BY <3>6, <3>7 DEF p
    <3>9. entries[j][a] \in LoggedIn(entries)
      BY <1>2, <3>3, <3>6, LoggedHas
    <3> QED BY <3>8, <3>9
  <2>3. i \in Nat /\ c[n] \in Nat
    BY <1>2, <1>4
  <2> QED BY <2>1, <2>2, <2>3
<1>13. Consecutive(rest, from + c[n])
  BY <1>5 DEF Consecutive
<1>14. LoggedIn(entries) \cup BytesIn(rest) = BytesIn(all)
  BY <1>10, <1>12, <1>11
<1> QED BY <1>7, <1>8, <1>9, <1>13, <1>14

-----------------------------------------------------------------------------
(* Capture: the invariant *)

\* The next byte to read, and the first byte that is not in the history.
At == written - Len(file) + offset
Low == At - Len(partial) - Len(chunk)

\* The file holds the last bytes written.
Numbered ==
  /\ Len(file) <= written
  /\ Consecutive(file, written - Len(file))

\* What the tailer holds, first the unfinished line and then the chunk, are the bytes
\* before the next one to read, and are in the file.
Held ==
  /\ Len(partial) + Len(chunk) <= offset
  /\ partial # <<>> \/ chunk # <<>> => offset <= Len(file)
  /\ Consecutive(partial, Low) /\ Consecutive(chunk, At - Len(chunk))

\* What is in the history came before all of these, unless an agent was killed and
\* read them again.
LoggedBefore == crashes = 0 => \A n \in Logged : n < Low

\* What the tailer holds where, and that only a killed agent leaves an offset past
\* the end of the file.
Places ==
  /\ chunk # <<>> => pc = "consume"
  /\ pc \in {"cut", "done", "down"} => partial = <<>>
  /\ pc = "cut" => offset + unread \in 0 .. Len(file)
  /\ offset <= Len(file) \/ crashes > 0

\* What has been seen of the exit, and that a drained tailer stays ended.
Ends ==
  /\ exitAt <= written
  /\ seen => ~alive
  /\ drains = 2 => pc = "done"
  /\ end = "drained" => pc = "done" /\ ~alive

Flow == Numbered /\ Held /\ Accounted /\ OnceInOrder /\ LinesWhole /\ LoggedBefore
CInv == CaptureTypes /\ Flow /\ Places /\ Ends /\ DrainedSeesAll

LEMMA BytesAreNat == ASSUME CaptureAssumption PROVE MaxBytes \in Nat /\ Bytes \subseteq Nat
BY DEF CaptureAssumption, Bytes

\* The bytes of a part of a sequence, which may be empty.
LEMMA PartBytes ==
  ASSUME NEW S, NEW s \in Seq(S), NEW a \in Nat, NEW b \in Int, b <= Len(s)
  PROVE  BytesIn(SubSeq(s, a + 1, b)) = {s[i] : i \in a + 1 .. b}
<1> DEFINE t == SubSeq(s, a + 1, b)
<1>1. CASE a <= b
  <2>1. Len(t) = b - a /\ \A i \in 1 .. b - a : t[i] = s[a + i]
    BY <1>1, Part
  <2> HIDE DEF t
  <2>2. BytesIn(t) \subseteq {s[i] : i \in a + 1 .. b}
    <3> SUFFICES ASSUME NEW i \in 1 .. b - a PROVE t[i] \in {s[j] : j \in a + 1 .. b}
      BY <2>1 DEF BytesIn
    <3>1. a + i \in a + 1 .. b /\ t[i] = s[a + i]
      BY <2>1
    <3> QED BY <3>1
  <2>3. {s[i] : i \in a + 1 .. b} \subseteq BytesIn(t)
    <3> SUFFICES ASSUME NEW i \in a + 1 .. b PROVE s[i] \in BytesIn(t)
      OBVIOUS
    <3>1. i - a \in 1 .. b - a /\ a + (i - a) = i
      OBVIOUS
    <3>2. t[i - a] = s[i]
      BY <2>1, <3>1
    <3> QED BY <2>1, <3>1, <3>2 DEF BytesIn
  <2> QED BY <2>2, <2>3 DEF t
<1>2. CASE b < a
  <2>1. t = <<>>
    BY <1>2
  <2>2. a + 1 .. b = {}
    BY <1>2
  <2> HIDE DEF t
  <2>3. BytesIn(t) = {}
    BY <2>1 DEF BytesIn
  <2> QED BY <2>2, <2>3 DEF t
<1> QED BY <1>1, <1>2

\* Consecutive bytes are an interval.
LEMMA Interval ==
  ASSUME NEW s \in Seq(Bytes), NEW from \in Int,
         Consecutive(s, from)
  PROVE  BytesIn(s) = from .. from + Len(s) - 1
<1> DEFINE n == Len(s)
<1>1. n \in Nat
  OBVIOUS
<1>2. BytesIn(s) \subseteq from .. from + n - 1
  <2> SUFFICES ASSUME NEW i \in 1 .. n PROVE s[i] \in from .. from + n - 1
    BY DEF BytesIn
  <2>1. s[i] = from + i - 1
    BY DEF Consecutive
  <2> HIDE DEF n
  <2> QED BY <1>1, <2>1
<1>3. from .. from + n - 1 \subseteq BytesIn(s)
  <2> SUFFICES ASSUME NEW x \in from .. from + n - 1 PROVE x \in BytesIn(s)
    OBVIOUS
  <2> DEFINE i == x - from + 1
  <2>1. i \in 1 .. n /\ from + i - 1 = x
    BY <1>1
  <2> HIDE DEF i
  <2>2. s[i] = x
    BY <2>1 DEF Consecutive
  <2> QED BY <2>1, <2>2 DEF BytesIn
<1> QED BY <1>2, <1>3

\* What an append to the history and the discard of the partial line are: a cut.
LEMMA FlushCuts ==
  ASSUME NEW s \in Seq(Bytes)
  PROVE  /\ s # <<>> => \E n, c : CutsAt(s, n, c, << s >>, <<>>)
         /\ s = <<>> => \E n, c : CutsAt(s, n, c, <<>>, <<>>)
<1>1. ASSUME s # <<>> PROVE \E n, c : CutsAt(s, n, c, << s >>, <<>>)
  <2> DEFINE c == [j \in 0 .. 1 |-> IF j = 0 THEN 0 ELSE Len(s)]
  <2>1. Len(s) \in Nat /\ Len(s) # 0
    BY <1>1
  <2>2. c \in [0 .. 1 -> 0 .. Len(s)] /\ c[0] = 0 /\ c[1] = Len(s)
    BY <2>1
  <2>3. SubSeq(s, 1, Len(s)) = s /\ SubSeq(s, Len(s) + 1, Len(s)) = <<>>
    OBVIOUS
  <2> HIDE DEF c
  <2>4. << s >> = [j \in 1 .. 1 |-> SubSeq(s, c[j - 1] + 1, c[j])]
    <3>1. \A j \in 1 .. 1 : SubSeq(s, c[j - 1] + 1, c[j]) = s
      BY <2>2, <2>3
    <3>2. << s >> = [j \in 1 .. 1 |-> s]
      OBVIOUS
    <3> QED BY <3>1, <3>2
  <2>5. CutsAt(s, 1, c, << s >>, <<>>)
    BY <2>1, <2>2, <2>3, <2>4 DEF CutsAt
  <2> QED BY <2>5
<1>2. ASSUME s = <<>> PROVE \E n, c : CutsAt(s, n, c, <<>>, <<>>)
  <2> DEFINE c == [j \in 0 .. 0 |-> 0]
  <2>1. Len(s) = 0 /\ SubSeq(s, 1, 0) = <<>>
    BY <1>2
  <2>2. c \in [0 .. 0 -> 0 .. Len(s)] /\ c[0] = 0
    BY <2>1
  <2> HIDE DEF c
  <2>3. <<>> = [j \in 1 .. 0 |-> SubSeq(s, c[j - 1] + 1, c[j])]
    OBVIOUS
  <2>4. CutsAt(s, 0, c, <<>>, <<>>)
    BY <2>1, <2>2, <2>3 DEF CutsAt
  <2> QED BY <2>4
<1> QED BY <1>1, <1>2

\* The bytes still to come are consecutive.
LEMMA AheadRange ==
  ASSUME CaptureAssumption, CaptureTypes, Numbered
  PROVE  /\ At \in Int /\ Low \in Int /\ Low <= At
         /\ Ahead = At .. written - 1
         /\ BytesIn(file) = written - Len(file) .. written - 1
<1> DEFINE w == written
           L == Len(file)
           o == offset
<1>1. w \in Nat /\ L \in Nat /\ o \in Nat /\ Len(partial) \in Nat /\ Len(chunk) \in Nat
      /\ file \in Seq(Bytes) /\ L <= w
  BY DEF CaptureTypes, CaptureAssumption, Numbered
<1>2. At = w - L + o /\ Low = At - Len(partial) - Len(chunk)
  BY DEF At, Low
<1>3. At \in Int /\ Low \in Int /\ Low <= At
  <2> HIDE DEF w, L, o
  <2> QED BY <1>1, <1>2
<1>4. Ahead = {file[i] : i \in o + 1 .. L}
  <2>1. L \in Int /\ L <= Len(file)
    BY <1>1
  <2> HIDE DEF L
  <2>2. BytesIn(SubSeq(file, o + 1, L)) = {file[i] : i \in o + 1 .. L}
    BY <1>1, <2>1, PartBytes
  <2> QED BY <2>2 DEF Ahead, L
<1>5. ASSUME NEW i \in 1 .. L PROVE file[i] = w - L + i - 1
  BY DEF Numbered, Consecutive
<1>6. {file[i] : i \in o + 1 .. L} \subseteq At .. w - 1
  <2> SUFFICES ASSUME NEW i \in o + 1 .. L PROVE file[i] \in At .. w - 1
    OBVIOUS
  <2>1. i \in 1 .. L
    BY <1>1
  <2>2. file[i] = w - L + i - 1
    BY <1>5, <2>1
  <2> HIDE DEF w, L, o
  <2> QED BY <1>1, <1>2, <2>2
<1>7. At .. w - 1 \subseteq {file[i] : i \in o + 1 .. L}
  <2> SUFFICES ASSUME NEW x \in At .. w - 1 PROVE x \in {file[i] : i \in o + 1 .. L}
    OBVIOUS
  <2> DEFINE i == x - w + L + 1
  <2>1. i \in o + 1 .. L /\ i \in 1 .. L /\ w - L + i - 1 = x
    <3> HIDE DEF w, L, o
    <3> QED BY <1>1, <1>2, <1>3
  <2> HIDE DEF i
  <2>2. file[i] = x
    BY <1>5, <2>1
  <2> QED BY <2>1, <2>2
<1>8. BytesIn(file) = w - L .. w - 1
  <2>1. w - L \in Int /\ (w - L) + L - 1 = w - 1
    BY <1>1
  <2>2. BytesIn(file) = (w - L) .. (w - L) + L - 1
    <3> DEFINE f == w - L
    <3>1. f \in Int /\ Consecutive(file, f)
      BY <2>1 DEF Numbered
    <3> HIDE DEF f
    <3>2. BytesIn(file) = f .. f + Len(file) - 1
      BY <1>1, <3>1, Interval
    <3> QED BY <3>2 DEF f
  <2> QED BY <2>1, <2>2
<1> QED BY <1>3, <1>4, <1>6, <1>7, <1>8

\* What the tailer holds are the bytes just before the ones to be read.
LEMMA HeldRange ==
  ASSUME CaptureAssumption, CaptureTypes, Numbered, Held
  PROVE  /\ BytesIn(partial) \cup BytesIn(chunk) = Low .. At - 1
         /\ BytesIn(partial) \cup BytesIn(chunk) \cup Ahead \cup (Low .. written - 1) =
              BytesIn(partial) \cup BytesIn(chunk) \cup Ahead
         /\ BytesIn(partial) \cup BytesIn(chunk) \cup Ahead \subseteq Low .. written - 1
         /\ written - Len(file) <= Low
<1> DEFINE w == written
           L == Len(file)
           p == Len(partial)
           c == Len(chunk)
           o == offset
<1>1. w \in Nat /\ L \in Nat /\ o \in Nat /\ p \in Nat /\ c \in Nat /\ L <= w
      /\ partial \in Seq(Bytes) /\ chunk \in Seq(Bytes)
  BY DEF CaptureTypes, CaptureAssumption, Numbered
<1>2. At = w - L + o /\ Low = At - p - c /\ At \in Int /\ Low \in Int
      /\ Ahead = At .. w - 1
  BY AheadRange DEF At, Low
<1>3. BytesIn(partial) = Low .. Low + p - 1
  BY <1>1, <1>2, Interval DEF Held
<1>4. BytesIn(chunk) = At - c .. (At - c) + c - 1
  <2> DEFINE f == At - c
  <2>1. f \in Int /\ Consecutive(chunk, f)
    BY <1>1, <1>2 DEF Held
  <2> HIDE DEF f
  <2>2. BytesIn(chunk) = f .. f + Len(chunk) - 1
    BY <1>1, <2>1, Interval
  <2> QED BY <2>2 DEF f
<1>5. Low + p = At - c /\ (At - c) + c = At /\ p + c <= o
  BY <1>1, <1>2 DEF Held
<1>6. (p = 0 /\ c = 0) \/ o <= L
  BY <1>1 DEF Held
<1> HIDE DEF w, L, p, c, o
<1>7. (Low .. Low + p - 1) \cup (At - c .. (At - c) + c - 1) = Low .. At - 1
  BY <1>1, <1>2, <1>5
<1>8. At <= w \/ Low = At
  BY <1>1, <1>2, <1>6
<1>9. (Low .. At - 1) \cup (At .. w - 1) \subseteq Low .. w - 1
  BY <1>1, <1>2, <1>8
<1>10. (Low .. w - 1) \subseteq (Low .. At - 1) \cup (At .. w - 1)
  BY <1>1, <1>2, <1>8
<1>11. w - L <= Low
  BY <1>1, <1>2, <1>5
<1> QED BY <1>2, <1>3, <1>4, <1>7, <1>9, <1>10, <1>11 DEF w, L

\* Accounted, with what is held and what is ahead as one interval.
AccountedBelow ==
  0 .. written - 1 = Logged \cup (Low .. written - 1) \cup noted \cup raced \cup forfeit
LEMMA AccountedAs ==
  CaptureAssumption /\ CaptureTypes /\ Numbered /\ Held => (Accounted <=> AccountedBelow)
<1> SUFFICES ASSUME CaptureAssumption, CaptureTypes, Numbered, Held
             PROVE  Accounted <=> AccountedBelow
  OBVIOUS
<1>1. BytesIn(partial) \cup BytesIn(chunk) \cup Ahead = Low .. written - 1
  BY HeldRange
<1> QED BY <1>1 DEF Accounted, AccountedBelow

LEMMA AccountedLater ==
  (CaptureAssumption /\ CaptureTypes /\ Numbered /\ Held)' => (Accounted' <=> AccountedBelow')
BY AccountedAs, PTL

LEMMA LoggedAs == Logged = LoggedIn(log)
BY DEF Logged, LoggedIn

LEMMA LoggedNat ==
  ASSUME CaptureAssumption, NEW l \in Seq(Seq(Bytes))
  PROVE  LoggedIn(l) \subseteq Bytes /\ \A x \in LoggedIn(l) : x \in Nat
<1>1. ASSUME NEW i \in 1 .. Len(l), NEW a \in 1 .. Len(l[i]) PROVE l[i][a] \in Bytes
  <2>1. l[i] \in Seq(Bytes)
    OBVIOUS
  <2> QED BY <2>1
<1>2. LoggedIn(l) \subseteq Bytes
  BY <1>1 DEF LoggedIn, BytesIn
<1> QED BY <1>2, BytesAreNat

LEMMA OnceAs == OnceInOrder <=> (crashes = 0 => Sorted(log))
BY DEF OnceInOrder, Sorted

LEMMA WholeAs == LinesWhole <=> Whole(log)
BY DEF LinesWhole, Whole

\* Entries that cut what was held leave the history in order and accounted for.
LEMMA EmitKeepsFlow ==
  ASSUME CaptureAssumption, CaptureTypes, CaptureTypes', Flow, NEW n, NEW c, NEW more,
         CutInto(partial \o chunk, n, c, more, partial'),
         log' = log \o more, chunk' = <<>>,
         UNCHANGED <<written, file, offset, crashes, fates>>
  PROVE  Flow'
<1> DEFINE all == partial \o chunk
           P == Len(partial)
           C == Len(chunk)
<1>1. UNCHANGED <<written, file, offset, crashes, noted, raced, forfeit>>
  BY DEF fates
<1>2. /\ partial \in Seq(Bytes) /\ chunk \in Seq(Bytes) /\ log \in Seq(Seq(Bytes))
      /\ more \in Seq(Seq(Bytes)) /\ Numbered /\ Held /\ Accounted /\ OnceInOrder
      /\ LinesWhole /\ LoggedBefore /\ P \in Nat /\ C \in Nat
      /\ written \in Nat /\ offset \in Nat /\ Len(file) \in Nat
  <2>1. /\ partial \in Seq(Bytes) /\ chunk \in Seq(Bytes) /\ log \in Seq(Seq(Bytes))
        /\ file \in Seq(Bytes) /\ written \in 0 .. MaxBytes /\ offset \in Nat
    BY DEF CaptureTypes
  <2>2. written \in Nat /\ P \in Nat /\ C \in Nat /\ Len(file) \in Nat
    BY <2>1, BytesAreNat
  <2>3. more \in Seq(Seq(Bytes))
    BY DEF CutInto
  <2>4. Numbered /\ Held /\ Accounted /\ OnceInOrder /\ LinesWhole /\ LoggedBefore
    BY DEF Flow
  <2> QED BY <2>1, <2>2, <2>3, <2>4
<1>3. /\ all \in Seq(Bytes) /\ Len(all) = P + C
      /\ \A i \in 1 .. P : all[i] = partial[i]
      /\ \A i \in P + 1 .. P + C : all[i] = chunk[i - P]
  BY <1>2, JoinProperties
<1>4. At \in Int /\ Low \in Int /\ Low = At - P - C /\ At = written - Len(file) + offset
  BY <1>2, AheadRange DEF Low, At
<1>5. 0 <= written - Len(file) /\ written - Len(file) <= Low
  BY <1>2, HeldRange DEF Numbered
<1>6. Low \in Nat
  BY <1>2, <1>4, <1>5
<1> HIDE DEF all, P, C
<1>7. ASSUME NEW i \in 1 .. Len(all) PROVE all[i] = Low + i - 1
  <2>1. CASE i \in 1 .. P
    BY <1>2, <1>3, <2>1 DEF Held, P, Consecutive
  <2>2. CASE i \in P + 1 .. P + C
    <3>1. i - P \in 1 .. C /\ all[i] = chunk[i - P]
      BY <1>2, <1>3, <2>2
    <3> DEFINE k == i - P
    <3>2. k \in 1 .. C /\ all[i] = chunk[k] /\ i = P + k
      BY <1>2, <3>1
    <3> HIDE DEF k
    <3>3. chunk[k] = At - C + k - 1
      BY <1>2, <3>2 DEF Held, C, Consecutive
    <3> QED BY <1>2, <1>4, <3>2, <3>3
  <2> QED BY <1>2, <1>3, <2>1, <2>2
<1>8. Consecutive(all, Low)
  BY <1>7 DEF Consecutive
<1>9. /\ LoggedIn(more) \cup BytesIn(partial') = BytesIn(all)
      /\ Whole(more) /\ Sorted(more)
      /\ \A x \in LoggedIn(more) : Low <= x /\ x < Low + c[n]
      /\ Consecutive(partial', Low + c[n])
  <2> DEFINE r == partial'
             f == Low
  <2>1. CutInto(all, n, c, more, r)
    BY DEF all
  <2>2. all \in Seq(Bytes) /\ f \in Nat /\ Consecutive(all, f)
    BY <1>3, <1>6, <1>8
  <2> HIDE DEF r, f
  <2>3. /\ LoggedIn(more) \cup BytesIn(r) = BytesIn(all)
        /\ Whole(more) /\ Sorted(more)
        /\ \A x \in LoggedIn(more) : f <= x /\ x < f + c[n]
        /\ Consecutive(r, f + c[n])
    BY <2>1, <2>2, CutContents
  <2> QED BY <2>3 DEF r, f
<1>10. /\ c[n] \in Nat /\ c[n] <= P + C /\ Len(partial') = P + C - c[n]
      /\ Len(partial') \in Nat /\ partial' \in Seq(Bytes)
  <2>1. n \in Nat /\ n \in 0 .. n
    BY DEF CutInto
  <2>2. c[n] \in Nat /\ c[n] <= Len(all) /\ Len(partial') = Len(all) - c[n]
        /\ partial' \in Seq(Bytes)
    BY <2>1 DEF CutInto, all
  <2> QED BY <1>2, <1>3, <2>2
<1>11. At' = At /\ Low' = Low + c[n] /\ Low' \in Int /\ Len(chunk') = 0
  <2>1. At' = At /\ Low' = At' - Len(partial') - Len(chunk') /\ Len(chunk') = 0
    BY <1>1 DEF At, Low
  <2> DEFINE q == c[n]
             r == Len(partial')
             lo == Low
             at == At
  <2>2. q \in Nat /\ r = P + C - q /\ lo = at - P - C /\ at \in Int /\ P \in Nat /\ C \in Nat
        /\ lo \in Int
    BY <1>2, <1>4, <1>10
  <2>3. at - r - 0 = lo + q /\ lo + q \in Int
    <3> HIDE DEF q, r, lo, at
    <3> QED BY <2>2
  <2>4. Low' = at - r - 0
    BY <2>1
  <2> QED BY <2>1, <2>3, <2>4
<1>12. Numbered'
  BY <1>1, <1>2 DEF Numbered
<1>13. Held'
  <2>1. Len(partial') + Len(chunk') <= offset'
    <3>1. P + C <= offset
      BY <1>2 DEF Held, P, C
    <3> QED BY <1>1, <1>2, <1>10, <1>11, <3>1
  <2>2. (partial' # <<>> \/ chunk' # <<>>) => offset' <= Len(file')
    <3> SUFFICES ASSUME partial' # <<>> PROVE offset <= Len(file)
      BY <1>1
    <3>1. Len(partial') # 0
      BY <1>10
    <3>2. P # 0 \/ C # 0
      BY <1>2, <1>10, <3>1
    <3>3. partial # <<>> \/ chunk # <<>>
      BY <3>2 DEF P, C
    <3> QED BY <1>2, <3>3 DEF Held
  <2>3. Consecutive(partial, Low)'
    <3>1. Consecutive(partial', Low')
      BY <1>9, <1>11
    <3> QED BY <3>1 DEF Consecutive
  <2>4. Consecutive(chunk, At - Len(chunk))'
    BY <1>11 DEF Consecutive
  <2> QED BY <2>1, <2>2, <2>3, <2>4 DEF Held
<1>14. Logged' = Logged \cup LoggedIn(more)
  <2>1. Logged' = LoggedIn(log \o more)
    BY DEF Logged, LoggedIn
  <2> QED BY <1>2, <2>1, LoggedAs, LoggedJoins
<1>15. Accounted'
  <2>1. BytesIn(all) = BytesIn(partial) \cup BytesIn(chunk)
    <3>1. BytesIn(all) = Low .. Low + Len(all) - 1
      BY <1>3, <1>4, <1>8, Interval
    <3>2. BytesIn(partial) \cup BytesIn(chunk) = Low .. At - 1
      BY <1>2, HeldRange
    <3>3. Low + Len(all) - 1 = At - 1
      <4>1. Low = At - P - C /\ At \in Int /\ P \in Nat /\ C \in Nat /\ Len(all) = P + C
        BY <1>2, <1>3, <1>4
      <4> QED BY <4>1
    <3> QED BY <3>1, <3>2, <3>3
  <2>2. Ahead' = Ahead /\ BytesIn(chunk') = {}
    BY <1>1, <1>11 DEF Ahead, BytesIn
  <2> QED BY <1>1, <1>2, <1>9, <1>14, <2>1, <2>2 DEF Accounted
<1>16. LinesWhole'
  <2>1. Whole(log \o more)
    BY <1>2, <1>9, WholeAs, WholeJoins
  <2> QED BY <2>1 DEF LinesWhole, Whole
<1>17. OnceInOrder'
  <2>1. ASSUME crashes = 0 PROVE Sorted(log \o more)
    <3>1. Sorted(log) /\ \A x \in LoggedIn(log) : x < Low
      BY <1>2, <2>1, OnceAs, LoggedAs DEF LoggedBefore
    <3>2. \A x \in LoggedIn(log), y \in LoggedIn(more) : x < y
      <4> SUFFICES ASSUME NEW x \in LoggedIn(log), NEW y \in LoggedIn(more) PROVE x < y
        OBVIOUS
      <4>1. x < Low /\ Low <= y
        BY <1>9, <3>1
      <4>2. x \in Nat /\ y \in Nat
        BY <1>2, LoggedNat
      <4> QED BY <1>4, <4>1, <4>2
    <3> QED BY <1>2, <1>9, <3>1, <3>2, SortedJoins
  <2> QED BY <1>1, <2>1 DEF OnceInOrder, Sorted
<1>18. LoggedBefore'
  <2> SUFFICES ASSUME crashes = 0, NEW x \in Logged \cup LoggedIn(more) PROVE x < Low + c[n]
    BY <1>1, <1>11, <1>14 DEF LoggedBefore
  <2>1. x \in Nat
    BY <1>2, LoggedNat, LoggedAs
  <2>2. CASE x \in Logged
    <3>1. x < Low
      BY <1>2, <2>2 DEF LoggedBefore
    <3> QED BY <1>4, <1>10, <2>1, <3>1
  <2>3. CASE x \in LoggedIn(more)
    BY <1>9, <2>3
  <2> QED BY <2>2, <2>3
<1> QED BY <1>12, <1>13, <1>15, <1>16, <1>17, <1>18 DEF Flow

-----------------------------------------------------------------------------
(* Capture: the steps and the flow of the bytes *)

FlowVars == <<written, file, offset, chunk, partial, log, crashes, fates>>

\* A step that moves no byte.
LEMMA SameFlow == ASSUME Flow, UNCHANGED FlowVars PROVE Flow'
<1>1. /\ UNCHANGED <<written, file, offset, chunk, partial, log, crashes>>
      /\ UNCHANGED <<noted, raced, forfeit>>
  BY DEF FlowVars, fates
<1>2. At' = At /\ Low' = Low /\ Ahead' = Ahead /\ Logged' = Logged
  BY <1>1 DEF At, Low, Ahead, Logged, BytesIn
<1>3. Numbered'
  BY <1>1 DEF Flow, Numbered, Consecutive
<1>4. Held'
  BY <1>1, <1>2 DEF Flow, Held, Consecutive
<1>5. Accounted'
  BY <1>1, <1>2 DEF Flow, Accounted, BytesIn
<1>6. OnceInOrder' /\ LinesWhole'
  BY <1>1 DEF Flow, OnceInOrder, LinesWhole
<1>7. LoggedBefore'
  BY <1>1, <1>2 DEF Flow, LoggedBefore
<1> QED BY <1>3, <1>4, <1>5, <1>6, <1>7 DEF Flow

\* The flush of a partial line.
LEMMA FinishFlow ==
  ASSUME CaptureAssumption, CaptureTypes, CaptureTypes', Flow, NEW why, EndLoop(why),
         chunk = <<>>, UNCHANGED <<written, file, offset, chunk, crashes, fates>>
  PROVE  Flow'
<1>1. partial \in Seq(Bytes) /\ log \in Seq(Seq(Bytes)) /\ chunk' = <<>> /\ partial' = <<>>
  BY DEF CaptureTypes, EndLoop
<1>2. partial \o chunk = partial
  BY <1>1
<1>3. CASE partial = <<>>
  <2>1. PICK n, c : CutsAt(partial, n, c, <<>>, <<>>)
    BY <1>1, <1>3, FlushCuts
  <2>2. CutInto(partial \o chunk, n, c, <<>>, partial')
    BY <1>1, <1>2, <2>1, CutsTyped
  <2>3. log' = log \o <<>>
    BY <1>1, <1>3 DEF EndLoop
  <2> QED BY <1>1, <2>2, <2>3, EmitKeepsFlow
<1>4. CASE partial # <<>>
  <2>1. PICK n, c : CutsAt(partial, n, c, << partial >>, <<>>)
    BY <1>1, <1>4, FlushCuts
  <2>2. CutInto(partial \o chunk, n, c, << partial >>, partial')
    BY <1>1, <1>2, <2>1, CutsTyped
  <2>3. log' = log \o << partial >>
    BY <1>1, <1>4 DEF EndLoop
  <2> QED BY <1>1, <2>2, <2>3, EmitKeepsFlow
<1> QED BY <1>3, <1>4

\* The lines of a chunk.
LEMMA ConsumeFlow ==
  ASSUME CaptureAssumption, CaptureTypes, CaptureTypes', Flow, Consume
  PROVE  Flow'
<1> DEFINE all == partial \o chunk
           more == LinesOf(all) \o PiecesOf(RestOf(all))
<1>1. partial \in Seq(Bytes) /\ chunk \in Seq(Bytes) /\ log \in Seq(Seq(Bytes))
  BY DEF CaptureTypes
<1>2. all \in Seq(Bytes)
  BY <1>1
<1>3. /\ log' = log \o LinesOf(all) \o PiecesOf(RestOf(all))
      /\ partial' = Remainder(RestOf(all)) /\ chunk' = <<>>
      /\ UNCHANGED <<written, file, offset, crashes, fates>>
  BY DEF Consume, output
<1> HIDE DEF all
<1>4. PICK n, c : CutsAt(all, n, c, more, Remainder(RestOf(all)))
  BY <1>2, ConsumeCuts
<1>5. CutInto(all, n, c, more, partial')
  BY <1>2, <1>3, <1>4, CutsTyped
<1>6. LinesOf(all) \in Seq(Seq(Bytes)) /\ PiecesOf(RestOf(all)) \in Seq(Seq(Bytes))
  <2>1. PICK m, d : CutsAt(all, m, d, LinesOf(all), RestOf(all))
    BY <1>2, LinesCut
  <2>2. LinesOf(all) \in Seq(Seq(Bytes)) /\ RestOf(all) \in Seq(Bytes)
    BY <1>2, <2>1, CutsTyped DEF CutInto
  <2>3. PICK k, e : CutsAt(RestOf(all), k, e, PiecesOf(RestOf(all)), Remainder(RestOf(all)))
    BY <2>2, PiecesCut
  <2>4. PiecesOf(RestOf(all)) \in Seq(Seq(Bytes))
    BY <2>2, <2>3, CutsTyped DEF CutInto
  <2> QED BY <2>2, <2>4
<1>7. log' = log \o more
  <2>1. ASSUME NEW a \in Seq(Seq(Bytes)), NEW b \in Seq(Seq(Bytes)), NEW d \in Seq(Seq(Bytes))
        PROVE  a \o b \o d = a \o (b \o d)
    OBVIOUS
  <2> QED BY <1>1, <1>3, <1>6, <2>1
<1> HIDE DEF more
<1> QED BY <1>3, <1>5, <1>7, EmitKeepsFlow DEF all

\* A read that returns bytes.
LEMMA ReadFlow ==
  ASSUME CaptureAssumption, CaptureTypes, CaptureTypes', Flow, NEW n \in Nat,
         chunk = <<>>, offset + n <= Len(file),
         chunk' = SubSeq(file, offset + 1, offset + n), offset' = offset + n,
         UNCHANGED <<written, file, partial, log, crashes, fates>>
  PROVE  Flow'
<1> DEFINE w == written
           L == Len(file)
           o == offset
           p == Len(partial)
           q == o + n
<1>1. /\ UNCHANGED <<written, file, partial, log, crashes, noted, raced, forfeit>>
      /\ file \in Seq(Bytes) /\ o \in Nat /\ w \in Nat /\ L \in Nat /\ p \in Nat /\ L <= w
      /\ Numbered /\ Held /\ Len(chunk) = 0 /\ q \in Nat /\ o <= q /\ q <= L
  BY DEF fates, CaptureTypes, CaptureAssumption, Flow, Numbered
<1>2. Len(chunk') = n /\ \A i \in 1 .. n : chunk'[i] = file[o + i]
  <2> HIDE DEF q
  <2>1. chunk' = SubSeq(file, o + 1, q)
    BY DEF q
  <2>2. q \in Nat /\ o \in Nat /\ o <= q /\ q <= Len(file) /\ file \in Seq(Bytes)
    BY <1>1
  <2> HIDE DEF o
  <2>3. LET t == SubSeq(file, o + 1, q)
        IN  Len(t) = q - o /\ \A i \in 1 .. q - o : t[i] = file[o + i]
    BY <2>2, Part
  <2>4. Len(chunk') = q - o /\ \A i \in 1 .. q - o : chunk'[i] = file[o + i]
    BY <2>1, <2>3
  <2>5. q - o = n
    BY <1>1 DEF q, o
  <2> QED BY <2>4, <2>5 DEF o
<1>3. At = w - L + o /\ Low = At - p - 0 /\ At' = w - L + q /\ Low' = At' - p - n
  BY <1>1, <1>2 DEF At, Low
<1>4. Low' = Low /\ At' - n = At /\ At \in Int /\ At' \in Int
  <2> HIDE DEF w, L, o, p
  <2> QED BY <1>1, <1>3
<1>5. Numbered'
  BY <1>1 DEF Numbered
<1>6. Held'
  <2>1. p + n <= q /\ p <= o
    <3>1. p + 0 <= o
      BY <1>1 DEF Held
    <3> HIDE DEF p, o
    <3> QED BY <1>1, <3>1
  <2>2. Consecutive(partial, Low)'
    <3>1. Consecutive(partial, Low)
      BY <1>1 DEF Held
    <3> QED BY <1>1, <1>4, <3>1 DEF Consecutive
  <2>3. Consecutive(chunk, At - Len(chunk))'
    <3>1. ASSUME NEW i \in 1 .. n PROVE chunk'[i] = At + i - 1
      <4>1. o + i \in 1 .. L
        <5> HIDE DEF o, L
        <5> QED BY <1>1
      <4>2. file[o + i] = w - L + (o + i) - 1
        BY <1>1, <4>1 DEF Numbered, Consecutive
      <4>3. w - L + (o + i) - 1 = At + i - 1
        <5> HIDE DEF w, L, o
        <5> QED BY <1>1, <1>3
      <4> QED BY <1>2, <4>2, <4>3
    <3> QED BY <1>2, <1>4, <3>1 DEF Consecutive
  <2> QED BY <1>1, <1>2, <2>1, <2>2, <2>3 DEF Held
<1>7. Logged' = Logged
  BY <1>1 DEF Logged, BytesIn
<1>8. Accounted'
  <2>1. AccountedBelow
    BY <1>1, AccountedAs DEF Flow
  <2>2. AccountedBelow'
    BY <1>1, <1>4, <1>7, <2>1 DEF AccountedBelow
  <2>3. Accounted' <=> AccountedBelow'
    BY <1>5, <1>6, AccountedLater
  <2> QED BY <2>2, <2>3
<1>9. OnceInOrder' /\ LinesWhole' /\ LoggedBefore'
  BY <1>1, <1>4, <1>7 DEF Flow, OnceInOrder, LinesWhole, LoggedBefore
<1> QED BY <1>5, <1>6, <1>8, <1>9 DEF Flow

\* The file starts over with nothing held: what was ahead is given up.
LEMMA ResetFlow ==
  ASSUME CaptureAssumption, CaptureTypes, CaptureTypes', Flow,
         partial = <<>>, chunk = <<>>, offset <= Len(file) \/ crashes > 0,
         file' = <<>>, offset' = 0,
         Ahead \subseteq (noted \cup raced)',
         noted \subseteq noted', raced \subseteq raced',
         (noted \cup raced)' \subseteq noted \cup raced \cup BytesIn(file),
         UNCHANGED <<written, chunk, partial, log, crashes, forfeit>>
  PROVE  Flow'
<1>1. /\ written \in Nat /\ Len(file) \in Nat /\ offset \in Nat /\ Numbered /\ Held
      /\ Len(file) <= written /\ file' = <<>> /\ Len(file') = 0
      /\ Len(partial) = 0 /\ Len(chunk) = 0
  BY DEF CaptureTypes, CaptureAssumption, Flow, Numbered
<1>2. At = written - Len(file) + offset /\ Low = At - 0 - 0
      /\ At' = written - 0 + 0 /\ Low' = At' - 0 - 0
  BY <1>1 DEF At, Low
<1>3. At \in Int /\ Low = At /\ At' = written /\ Low' = written
  BY <1>1, <1>2
<1>4. Numbered'
  BY <1>1 DEF Numbered, Consecutive
<1>5. Held'
  BY <1>1 DEF Held, Consecutive
<1>6. Logged' = Logged
  BY DEF Logged, BytesIn
<1>7. Accounted'
  <2>1. AccountedBelow
    BY <1>1, AccountedAs DEF Flow
  <2>2. Low .. written - 1 = Ahead /\ BytesIn(file) \subseteq 0 .. written - 1
    <3>1. Ahead = At .. written - 1 /\ BytesIn(file) = written - Len(file) .. written - 1
      BY <1>1, AheadRange
    <3>2. 0 <= written - Len(file)
      BY <1>1
    <3> QED BY <1>1, <1>3, <3>1, <3>2
  <2>3. Low' .. written' - 1 = {}
    BY <1>1, <1>3
  <2>4. AccountedBelow'
    BY <1>6, <2>1, <2>2, <2>3 DEF AccountedBelow
  <2> QED BY <1>4, <1>5, <2>4, AccountedLater
<1>8. OnceInOrder' /\ LinesWhole'
  <2>1. OnceInOrder /\ LinesWhole
    BY DEF Flow
  <2>2. OnceInOrder'
    BY <2>1 DEF OnceInOrder
  <2>3. LinesWhole'
    BY <2>1 DEF LinesWhole
  <2> QED BY <2>2, <2>3
<1>9. LoggedBefore'
  <2> SUFFICES ASSUME crashes = 0, NEW n \in Logged PROVE n < written
    BY <1>3, <1>6 DEF LoggedBefore
  <2>1. n < Low /\ n \in Nat
    BY LoggedAs, LoggedNat DEF Flow, LoggedBefore, CaptureTypes
  <2>2. Low <= written
    BY <1>1, <1>2, <1>3
  <2> QED BY <1>1, <1>3, <2>1, <2>2
<1> QED BY <1>4, <1>5, <1>7, <1>8, <1>9 DEF Flow

\* A byte written below the offset is forfeit; any other is ahead.
LEMMA WriteFlow ==
  ASSUME CaptureAssumption, CaptureTypes, CaptureTypes', Flow,
         offset <= Len(file) \/ crashes > 0, Write
  PROVE  Flow'
<1> DEFINE w == written
           L == Len(file)
<1>1. /\ w \in Nat /\ L \in Nat /\ offset \in Nat /\ Numbered /\ Held /\ L <= w
      /\ Len(partial) \in Nat /\ Len(chunk) \in Nat /\ file \in Seq(Bytes)
      /\ UNCHANGED <<offset, chunk, partial, log, crashes, noted, raced>>
      /\ written' = w + 1 /\ file' = Append(file, w)
  BY DEF CaptureTypes, CaptureAssumption, Flow, Numbered, Write, tailer
<1>2. /\ Len(file') = L + 1 /\ file'[L + 1] = w
      /\ \A i \in 1 .. L : file'[i] = file[i]
  BY <1>1
<1>3. /\ At = w - L + offset /\ At' = (w + 1) - (L + 1) + offset
      /\ Low = At - Len(partial) - Len(chunk) /\ Low' = At' - Len(partial) - Len(chunk)
  BY <1>1, <1>2 DEF At, Low
<1>4. At' = At /\ Low' = Low /\ At \in Int /\ Low \in Int
  <2> HIDE DEF w, L
  <2> QED BY <1>1, <1>3
<1>5. Numbered'
  <2>1. ASSUME NEW i \in 1 .. L + 1 PROVE file'[i] = (w + 1) - (L + 1) + i - 1
    <3>1. CASE i = L + 1
      BY <1>1, <1>2, <3>1
    <3>2. CASE i # L + 1
      <4>1. i \in 1 .. L
        BY <1>1, <3>2
      <4>2. file'[i] = w - L + i - 1
        BY <1>1, <1>2, <4>1 DEF Numbered, Consecutive
      <4> QED BY <1>1, <4>2
    <3> QED BY <3>1, <3>2
  <2>2. Consecutive(file, written - Len(file))'
    BY <1>1, <1>2, <2>1 DEF Consecutive
  <2>3. Len(file') <= written'
    BY <1>1, <1>2
  <2> QED BY <2>2, <2>3 DEF Numbered
<1>6. Held'
  <2>1. offset <= Len(file) => offset <= Len(file')
    BY <1>1, <1>2
  <2>2. Consecutive(partial, Low)'
    BY <1>1, <1>4 DEF Held, Consecutive
  <2>3. Consecutive(chunk, At - Len(chunk))'
    BY <1>1, <1>4 DEF Held, Consecutive
  <2> QED BY <1>1, <2>1, <2>2, <2>3 DEF Held
<1>7. Logged' = Logged
  BY <1>1 DEF Logged, BytesIn
<1>8. Accounted'
  <2>1. AccountedBelow
    BY <1>1, AccountedAs DEF Flow
  <2>2. CASE Low <= w
    <3>1. Low .. w = (Low .. w - 1) \cup {w} /\ 0 .. w = (0 .. w - 1) \cup {w}
      BY <1>1, <1>4, <2>2
    <3>2. Low' .. written' - 1 = Low .. w /\ 0 .. written' - 1 = 0 .. w
      BY <1>1, <1>4
    <3>3. forfeit' \in {forfeit, forfeit \cup {w}}
      BY DEF Write
    <3>4. AccountedBelow'
      BY <1>1, <1>7, <2>1, <3>1, <3>2, <3>3 DEF AccountedBelow
    <3> QED BY <1>5, <1>6, <3>4, AccountedLater
  <2>3. CASE Low > w
    <3>1. Low <= At /\ L < offset
      <4>1. Low <= At
        BY <1>1, AheadRange
      <4> HIDE DEF w, L
      <4> QED BY <1>1, <1>3, <1>4, <2>3, <4>1
    <3>2. crashes > 0
      BY <1>1, <3>1
    <3>3. forfeit' = forfeit \cup {w}
      BY <3>1, <3>2 DEF Write
    <3>4. Low .. w - 1 = {} /\ Low' .. written' - 1 = {} /\ 0 .. w = (0 .. w - 1) \cup {w}
          /\ 0 .. written' - 1 = 0 .. w
      BY <1>1, <1>4, <2>3
    <3>5. AccountedBelow'
      BY <1>1, <1>7, <2>1, <3>3, <3>4 DEF AccountedBelow
    <3> QED BY <1>5, <1>6, <3>5, AccountedLater
  <2> QED BY <1>1, <1>4, <2>2, <2>3
<1>9. OnceInOrder' /\ LinesWhole' /\ LoggedBefore'
  BY <1>1, <1>4, <1>7 DEF Flow, OnceInOrder, LinesWhole, LoggedBefore
<1> QED BY <1>5, <1>6, <1>8, <1>9 DEF Flow

\* A death puts back what the record does not have: bytes are read again, or forfeit.
LEMMA CrashFlow ==
  ASSUME CaptureAssumption, CaptureTypes, CaptureTypes', Flow, Crash
  PROVE  Flow'
<1> DEFINE w == written
           L == Len(file)
           back == {file[i] : i \in {j \in DOMAIN file : j <= saved}}
<1>1. /\ w \in Nat /\ L \in Nat /\ offset \in Nat /\ saved \in Nat /\ Numbered /\ Held /\ L <= w
      /\ file \in Seq(Bytes) /\ crashes \in Nat
  BY DEF CaptureTypes, CaptureAssumption, Flow, Numbered
<1>2. /\ UNCHANGED <<written, file, log, noted, raced>>
      /\ offset' = saved /\ chunk' = <<>> /\ partial' = <<>>
      /\ Len(chunk') = 0 /\ Len(partial') = 0
      /\ crashes' = crashes + 1 /\ forfeit' = forfeit \cup (back \ Logged)
  BY DEF Crash, Down, output
<1>3. At' = w - L + saved /\ Low' = At' - 0 - 0
  BY <1>2 DEF At, Low
<1>4. Numbered'
  BY <1>1, <1>2 DEF Numbered, Consecutive
<1>5. Held'
  BY <1>1, <1>2 DEF Held, Consecutive
<1>6. Logged' = Logged /\ Low' = At'
  <2>1. Low' = At'
    BY <1>1, <1>3
  <2> QED BY <1>2, <2>1 DEF Logged, BytesIn
<1>7. Accounted'
  <2>1. AccountedBelow
    BY <1>1, AccountedAs DEF Flow
  <2>2. Low .. w - 1 \subseteq BytesIn(file) /\ BytesIn(file) \subseteq 0 .. w - 1
    <3>1. BytesIn(file) = w - L .. w - 1 /\ Low \in Int
      BY <1>1, AheadRange
    <3>2. w - L <= Low /\ 0 <= w - L
      BY <1>1, HeldRange
    <3> HIDE DEF w, L
    <3> QED BY <1>1, <3>1, <3>2
  <2>3. BytesIn(file) \subseteq back \cup (Low' .. w - 1) /\ back \subseteq BytesIn(file)
    <3>1. ASSUME NEW i \in 1 .. L, ~(i <= saved) PROVE file[i] \in Low' .. w - 1
      <4>1. file[i] = w - L + i - 1
        BY <1>1 DEF Numbered, Consecutive
      <4> HIDE DEF w, L
      <4> QED BY <1>1, <1>3, <1>6, <3>1, <4>1
    <3>2. BytesIn(file) \subseteq back \cup (Low' .. w - 1)
      BY <1>1, <3>1 DEF BytesIn
    <3>3. back \subseteq BytesIn(file)
      BY <1>1 DEF BytesIn
    <3> QED BY <3>2, <3>3
  <2>4. Low' .. w - 1 \subseteq 0 .. w - 1
    BY <1>1, <1>3
  <2>5. AccountedBelow'
    <3> HIDE DEF back
    <3> QED BY <1>2, <1>6, <2>1, <2>2, <2>3, <2>4 DEF AccountedBelow
  <2> QED BY <1>4, <1>5, <2>5, AccountedLater
<1>8. OnceInOrder' /\ LinesWhole' /\ LoggedBefore'
  <2>1. crashes' # 0
    BY <1>1, <1>2
  <2>2. LinesWhole'
    BY <1>2 DEF Flow, LinesWhole
  <2> QED BY <2>1, <2>2 DEF OnceInOrder, LoggedBefore
<1> QED BY <1>4, <1>5, <1>7, <1>8 DEF Flow

-----------------------------------------------------------------------------
(* Capture: every step keeps the invariant *)

LEMMA FinishTyped ==
  ASSUME CaptureAssumption, CaptureTypes,
         NEW why \in {"stopped", "window", "drained", "unreadable"}, EndLoop(why)
  PROVE  /\ log' \in Seq(Seq(Bytes)) /\ partial' \in Seq(Bytes) /\ Len(partial') < MaxLine
         /\ pc' = "done" /\ end' = why
<1>1. log \in Seq(Seq(Bytes)) /\ partial \in Seq(Bytes)
  BY DEF CaptureTypes
<1>2. Append(log, partial) \in Seq(Seq(Bytes))
  BY <1>1
<1>3. partial' = <<>> /\ Len(partial') = 0 /\ partial' \in Seq(Bytes)
  BY DEF EndLoop
<1> QED BY <1>1, <1>2, <1>3 DEF EndLoop, CaptureAssumption

\* A part of a sequence has none but its bytes.
LEMMA PartWithin ==
  ASSUME NEW s \in Seq(Bytes), NEW a \in Nat, NEW b \in Int, b <= Len(s)
  PROVE  BytesIn(SubSeq(s, a + 1, b)) \subseteq BytesIn(s) /\ BytesIn(s) \subseteq Bytes
<1>1. BytesIn(SubSeq(s, a + 1, b)) = {s[i] : i \in a + 1 .. b}
  BY PartBytes
<1>2. ASSUME NEW i \in a + 1 .. b PROVE i \in 1 .. Len(s)
  OBVIOUS
<1>3. BytesIn(SubSeq(s, a + 1, b)) \subseteq BytesIn(s)
  BY <1>1, <1>2 DEF BytesIn
<1>4. BytesIn(s) \subseteq Bytes
  BY DEF BytesIn
<1> QED BY <1>3, <1>4

LEMMA AheadWithin ==
  ASSUME file \in Seq(Bytes), offset \in Nat
  PROVE  Ahead \subseteq BytesIn(file) /\ Ahead \subseteq Bytes
<1> DEFINE b == Len(file)
<1>1. b \in Int /\ b <= Len(file)
  OBVIOUS
<1> HIDE DEF b
<1>2. BytesIn(SubSeq(file, offset + 1, b)) \subseteq BytesIn(file) /\ BytesIn(file) \subseteq Bytes
  BY <1>1, PartWithin
<1> QED BY <1>2 DEF Ahead, b

\* What a cut discards is in the file, and is all that was ahead.
LEMMA CutParts ==
  ASSUME file \in Seq(Bytes), offset \in Nat, offset + unread \in 0 .. Len(file), unread \in Int
  PROVE  LET counted == BytesIn(SubSeq(file, offset + 1, offset + unread))
             unseen  == BytesIn(SubSeq(file, offset + unread + 1, Len(file)))
         IN  /\ counted \cup unseen \subseteq BytesIn(file) /\ BytesIn(file) \subseteq Bytes
             /\ Ahead \subseteq counted \cup unseen
<1> DEFINE a == offset
           m == offset + unread
           b == Len(file)
<1>1. a \in Nat /\ m \in Nat /\ m \in Int /\ b \in Int /\ m <= Len(file) /\ b <= Len(file)
  OBVIOUS
<1> HIDE DEF a, m, b
<1>2. /\ BytesIn(SubSeq(file, a + 1, m)) = {file[i] : i \in a + 1 .. m}
      /\ BytesIn(SubSeq(file, a + 1, m)) \subseteq BytesIn(file)
  BY <1>1, PartBytes, PartWithin
<1>3. /\ BytesIn(SubSeq(file, m + 1, b)) = {file[i] : i \in m + 1 .. b}
      /\ BytesIn(SubSeq(file, m + 1, b)) \subseteq BytesIn(file)
      /\ BytesIn(file) \subseteq Bytes
  BY <1>1, PartBytes, PartWithin
<1>4. BytesIn(SubSeq(file, a + 1, b)) = {file[i] : i \in a + 1 .. b}
  BY <1>1, PartBytes
<1>5. ASSUME NEW i \in a + 1 .. b PROVE i \in a + 1 .. m \/ i \in m + 1 .. b
  BY <1>1
<1>6. BytesIn(SubSeq(file, a + 1, b))
        \subseteq BytesIn(SubSeq(file, a + 1, m)) \cup BytesIn(SubSeq(file, m + 1, b))
  BY <1>2, <1>3, <1>4, <1>5
<1> QED BY <1>2, <1>3, <1>6 DEF Ahead, a, m, b

LEMMA TypesKept ==
  ASSUME CaptureAssumption, CaptureTypes, Places, Ends, Numbered, [CaptureNext]_captureVars
  PROVE  CaptureTypes'
<1> USE DEF CaptureTypes
<1>1. /\ MaxBytes \in Nat /\ MaxCrashes \in Nat /\ Chunk \in Nat \ {0} /\ MaxLine \in Nat \ {0}
      /\ 0 < MaxLine
      /\ written \in Nat /\ Len(file) \in Nat /\ Bytes = 0 .. MaxBytes - 1
  BY DEF CaptureAssumption, Bytes
<1>2. ASSUME Write PROVE CaptureTypes'
  <2>1. written \in Bytes /\ written' \in 0 .. MaxBytes
    BY <1>1, <1>2 DEF Write
  <2>2. Append(file, written) \in Seq(Bytes) /\ forfeit' \subseteq Bytes
    BY <1>2, <2>1 DEF Write
  <2> QED BY <1>2, <2>1, <2>2 DEF Write, tailer
<1>3. ASSUME ProcessExits PROVE CaptureTypes'
  BY <1>3 DEF ProcessExits, tailer, fates
<1>4. ASSUME WindowPasses PROVE CaptureTypes'
  BY <1>4 DEF WindowPasses, tailer, fates, output
<1>5. ASSUME Top PROVE CaptureTypes'
  <2>1. UNCHANGED <<output, expired, stopping, offset, chunk, unread, drains, saved,
                    crashes, fates>>
    BY <1>5 DEF Top
  <2>2. CASE EndLoop("stopped") /\ UNCHANGED seen
    BY <2>1, <2>2, FinishTyped DEF output, fates
  <2>3. CASE EndLoop("window") /\ UNCHANGED seen
    BY <2>1, <2>3, FinishTyped DEF output, fates
  <2>4. CASE pc' = "stat" /\ seen' = (seen \/ ~alive) /\ UNCHANGED <<log, partial, end>>
    BY <2>1, <2>4 DEF output, fates
  <2> QED BY <1>5, <2>2, <2>3, <2>4 DEF Top
<1>6. ASSUME Stat PROVE CaptureTypes'
  <2>1. UNCHANGED <<output, expired, stopping, offset, chunk, partial, seen, drains, end,
                    log, saved, crashes, fates>>
    BY <1>6 DEF Stat
  <2>2. pc' \in {"cut", "read"} /\ unread' \in {unread, Len(file) - offset}
    BY <1>6 DEF Stat
  <2>3. unread' \in Int
    BY <1>1, <2>2
  <2> QED BY <2>1, <2>2, <2>3 DEF output, fates
<1>7. ASSUME Cut PROVE CaptureTypes'
  <2>1. /\ UNCHANGED <<written, alive, exitAt, expired, stopping, chunk, partial, seen, drains,
                       end, log, saved, crashes, forfeit>>
        /\ file' = <<>> /\ offset' = 0 /\ pc' = "read" /\ unread' = 0
    BY <1>7 DEF Cut
  <2>2. offset + unread \in Nat /\ offset + unread <= Len(file)
    BY <1>1, <1>7 DEF Cut, Places
  <2>3. noted' \subseteq Bytes /\ raced' \subseteq Bytes
    <3>1. offset + unread \in 0 .. Len(file)
      BY <1>1, <2>2
    <3>2. BytesIn(SubSeq(file, offset + 1, offset + unread)) \subseteq Bytes
          /\ BytesIn(SubSeq(file, offset + unread + 1, Len(file))) \subseteq Bytes
      BY <3>1, CutParts
    <3> QED BY <1>7, <3>2 DEF Cut
  <2> QED BY <2>1, <2>3
<1>8. ASSUME Read PROVE CaptureTypes'
  <2>1. UNCHANGED <<output, expired, stopping, unread, seen, saved, crashes, fates>>
    BY <1>8 DEF Read
  <2>2. CASE Len(file) > offset
    <3> DEFINE n == IF Len(file) - offset < Chunk THEN Len(file) - offset ELSE Chunk
               q == offset + n
    <3>1. chunk' = SubSeq(file, offset + 1, q) /\ offset' = q /\ pc' = "consume" /\ drains' = 0
          /\ UNCHANGED <<log, partial, end>>
      BY <1>8, <2>2 DEF Read
    <3>2. q \in Nat /\ offset <= q /\ q <= Len(file) /\ q - offset <= Chunk
      BY <1>1, <2>2
    <3> HIDE DEF q
    <3>3. SubSeq(file, offset + 1, q) \in Seq(Bytes)
          /\ Len(SubSeq(file, offset + 1, q)) = q - offset
      BY <3>2, Part
    <3> QED BY <2>1, <3>1, <3>2, <3>3 DEF output, fates
  <2>3. CASE ~(Len(file) > offset)
    <3>1. UNCHANGED <<chunk, offset>> /\ drains' \in 0 .. 2
      BY <1>8, <2>3 DEF Read, Ends
    <3>2. CASE EndLoop("drained")
      BY <2>1, <3>1, <3>2, FinishTyped DEF output, fates
    <3>3. CASE pc' = "pause" /\ UNCHANGED <<log, partial, end>>
      BY <2>1, <3>1, <3>3 DEF output, fates
    <3> QED BY <1>8, <2>3, <3>2, <3>3 DEF Read
  <2> QED BY <2>2, <2>3
<1>9. ASSUME ReadFails PROVE CaptureTypes'
  <2>1. EndLoop("unreadable") /\ UNCHANGED <<output, expired, stopping, offset, chunk, unread,
                                            seen, drains, saved, crashes, fates>>
    BY <1>9 DEF ReadFails
  <2> QED BY <2>1, FinishTyped DEF output, fates
<1>10. ASSUME Consume PROVE CaptureTypes'
  <2> DEFINE all == partial \o chunk
             more == LinesOf(all) \o PiecesOf(RestOf(all))
  <2>1. all \in Seq(Bytes)
    OBVIOUS
  <2>2. /\ log' = log \o LinesOf(all) \o PiecesOf(RestOf(all))
        /\ partial' = Remainder(RestOf(all)) /\ chunk' = <<>> /\ pc' = "top"
        /\ UNCHANGED <<output, expired, stopping, offset, unread, seen, drains, end, saved,
                       crashes, fates>>
    BY <1>10 DEF Consume
  <2> HIDE DEF all
  <2>3. LinesOf(all) \in Seq(Seq(Bytes)) /\ RestOf(all) \in Seq(Bytes)
    <3>1. PICK m, d : CutsAt(all, m, d, LinesOf(all), RestOf(all))
      BY <2>1, LinesCut
    <3> QED BY <2>1, <3>1, CutsTyped DEF CutInto
  <2>4. PiecesOf(RestOf(all)) \in Seq(Seq(Bytes)) /\ Remainder(RestOf(all)) \in Seq(Bytes)
        /\ Len(Remainder(RestOf(all))) < MaxLine
    <3>1. PICK k, e : CutsAt(RestOf(all), k, e, PiecesOf(RestOf(all)), Remainder(RestOf(all)))
      BY <2>3, PiecesCut
    <3>2. PiecesOf(RestOf(all)) \in Seq(Seq(Bytes)) /\ Remainder(RestOf(all)) \in Seq(Bytes)
      BY <2>3, <3>1, CutsTyped DEF CutInto
    <3> QED BY <2>3, <3>2, PiecesCut
  <2>5. log' \in Seq(Seq(Bytes))
    <3>1. ASSUME NEW a \in Seq(Seq(Bytes)), NEW b \in Seq(Seq(Bytes)), NEW d \in Seq(Seq(Bytes))
          PROVE  a \o b \o d \in Seq(Seq(Bytes))
      OBVIOUS
    <3> QED BY <2>2, <2>3, <2>4, <3>1
  <2>6. chunk' \in Seq(Bytes) /\ Len(chunk') = 0 /\ 0 <= Chunk
    BY <1>1, <2>2
  <2> QED BY <2>2, <2>4, <2>5, <2>6 DEF output, fates
<1>11. ASSUME Pause PROVE CaptureTypes'
  <2>1. UNCHANGED <<output, expired, stopping, offset, chunk, unread, seen, drains, saved,
                    crashes, fates>>
    BY <1>11 DEF Pause
  <2>2. CASE EndLoop("stopped")
    BY <2>1, <2>2, FinishTyped DEF output, fates
  <2>3. CASE pc' = "top" /\ UNCHANGED <<log, partial, end>>
    BY <2>1, <2>3 DEF output, fates
  <2> QED BY <1>11, <2>2, <2>3 DEF Pause
<1>12. ASSUME Persist PROVE CaptureTypes'
  BY <1>12 DEF Persist, output, tailer, fates
<1>13. ASSUME StartOver PROVE CaptureTypes'
  <2>1. Ahead \subseteq Bytes
    BY AheadWithin
  <2>2. /\ raced' = raced \cup Ahead /\ alive' = TRUE /\ exitAt' = 0
        /\ file' = <<>> /\ offset' = 0 /\ saved' = 0 /\ pc' = "top" /\ end' = "none"
        /\ seen' = FALSE /\ drains' = 0 /\ expired' = FALSE
        /\ UNCHANGED <<written, stopping, chunk, partial, unread, log, crashes, noted, forfeit>>
    BY <1>13 DEF StartOver
  <2>3. raced' \subseteq Bytes /\ file' \in Seq(Bytes) /\ exitAt' \in 0 .. MaxBytes
    BY <1>1, <2>1, <2>2
  <2>4. alive' \in BOOLEAN /\ expired' \in BOOLEAN /\ seen' \in BOOLEAN
    BY <2>2, Zenon
  <2>5. /\ drains' \in 0 .. 2 /\ offset' \in Nat /\ saved' \in Nat
        /\ pc' = "top" /\ end' = "none"
    BY <2>2
  <2>6. UNCHANGED <<written, stopping, chunk, partial, unread, log, crashes, noted, forfeit>>
    BY <2>2
  <2> QED BY <2>3, <2>5, <2>6, <2>4
<1>14. ASSUME BeginClose PROVE CaptureTypes'
  BY <1>14 DEF BeginClose, output, tailer, fates
<1>15. ASSUME NEW at \in Nat, Down(at)
       PROVE  /\ pc' = "down" /\ offset' \in Nat /\ chunk' \in Seq(Bytes) /\ Len(chunk') <= Chunk
              /\ partial' \in Seq(Bytes) /\ Len(partial') < MaxLine /\ unread' \in Int
              /\ seen' \in BOOLEAN /\ drains' \in 0 .. 2 /\ end' = "none"
              /\ expired' \in BOOLEAN /\ stopping' \in BOOLEAN
  <2>1. /\ pc' = "down" /\ offset' = at /\ chunk' = <<>> /\ partial' = <<>> /\ unread' = 0
        /\ seen' = FALSE /\ drains' = 0 /\ end' = "none" /\ expired' = FALSE /\ stopping' = FALSE
    BY <1>15 DEF Down
  <2>2. chunk' \in Seq(Bytes) /\ Len(chunk') <= Chunk
    BY <1>1, <2>1
  <2>3. partial' \in Seq(Bytes) /\ Len(partial') < MaxLine
    BY <1>1, <2>1
  <2>4. /\ offset' \in Nat /\ unread' \in Int /\ drains' \in 0 .. 2
        /\ pc' = "down" /\ end' = "none"
    BY <2>1
  <2>5. seen' \in BOOLEAN /\ expired' \in BOOLEAN /\ stopping' \in BOOLEAN
    BY <2>1, Zenon
  <2> QED BY <2>2, <2>3, <2>4, <2>5
<1>16. ASSUME FinishClose PROVE CaptureTypes'
  <2>1. Down(offset) /\ saved' = offset /\ UNCHANGED <<output, log, crashes, fates>>
    BY <1>16 DEF FinishClose
  <2> QED BY <1>15, <2>1 DEF output, fates
<1>17. ASSUME Crash PROVE CaptureTypes'
  <2>1. Down(saved) /\ UNCHANGED <<output, log, saved, noted, raced>>
        /\ crashes' = crashes + 1 /\ crashes < MaxCrashes
    BY <1>17 DEF Crash
  <2>2. crashes' \in 0 .. MaxCrashes
    BY <1>1, <2>1
  <2>3. forfeit' \subseteq Bytes
    BY <1>17 DEF Crash
  <2> QED BY <1>15, <2>1, <2>2, <2>3 DEF output
<1>18. ASSUME Adopt PROVE CaptureTypes'
  BY <1>18 DEF Adopt, output, fates
<1>19. ASSUME UNCHANGED captureVars PROVE CaptureTypes'
  BY <1>19 DEF captureVars, output, tailer, fates
<1> QED
  BY <1>2, <1>3, <1>4, <1>5, <1>6, <1>7, <1>8, <1>9, <1>10, <1>11, <1>12, <1>13, <1>14,
     <1>16, <1>17, <1>18, <1>19 DEF CaptureNext, Follow

\* Each step moves bytes in one of these ways.
LEMMA FlowKept ==
  ASSUME CaptureAssumption, CInv, CaptureTypes', [CaptureNext]_captureVars
  PROVE  Flow'
<1>1. CaptureTypes /\ Flow /\ Places /\ Numbered
  BY DEF CInv, Flow
<1>2. ASSUME Write PROVE Flow'
  BY <1>1, <1>2, WriteFlow DEF Places
<1>3. ASSUME NEW why, EndLoop(why), pc # "consume",
             UNCHANGED <<written, file, offset, chunk, crashes, fates>>
      PROVE  Flow'
  <2>1. chunk = <<>>
    BY <1>1, <1>3 DEF Places
  <2> QED BY <1>1, <1>3, <2>1, FinishFlow
<1>4. ASSUME Top PROVE Flow'
  <2>1. pc # "consume" /\ UNCHANGED <<written, file, offset, chunk, crashes, fates>>
    BY <1>4 DEF Top, output
  <2>2. CASE \E why : EndLoop(why)
    BY <1>3, <2>1, <2>2
  <2>3. CASE UNCHANGED <<log, partial, end>>
    BY <1>1, <2>1, <2>3, SameFlow DEF FlowVars
  <2> QED BY <1>4, <2>2, <2>3 DEF Top
<1>5. ASSUME Pause PROVE Flow'
  <2>1. pc # "consume" /\ UNCHANGED <<written, file, offset, chunk, crashes, fates>>
    BY <1>5 DEF Pause, output
  <2>2. CASE \E why : EndLoop(why)
    BY <1>3, <2>1, <2>2
  <2>3. CASE UNCHANGED <<log, partial, end>>
    BY <1>1, <2>1, <2>3, SameFlow DEF FlowVars
  <2> QED BY <1>5, <2>2, <2>3 DEF Pause
<1>6. ASSUME ReadFails PROVE Flow'
  BY <1>3, <1>6 DEF ReadFails, output
<1>7. ASSUME Read PROVE Flow'
  <2>1. pc = "read" /\ UNCHANGED <<written, file, crashes, fates>>
    BY <1>7 DEF Read, output
  <2>2. CASE Len(file) > offset
    <3> DEFINE n == IF Len(file) - offset < Chunk THEN Len(file) - offset ELSE Chunk
    <3>1. /\ chunk' = SubSeq(file, offset + 1, offset + n) /\ offset' = offset + n
          /\ UNCHANGED <<log, partial>>
      BY <1>7, <2>2 DEF Read
    <3>2. n \in Nat /\ offset + n <= Len(file)
      <4>1. offset \in Nat /\ Len(file) \in Nat /\ Chunk \in Nat
        BY <1>1 DEF CaptureTypes, CaptureAssumption
      <4> QED BY <2>2, <4>1
    <3>3. chunk = <<>>
      BY <1>1, <2>1 DEF Places
    <3> HIDE DEF n
    <3> QED BY <1>1, <2>1, <3>1, <3>2, <3>3, ReadFlow
  <2>3. CASE ~(Len(file) > offset)
    <3>1. UNCHANGED <<chunk, offset>>
      BY <1>7, <2>3 DEF Read
    <3>2. CASE EndLoop("drained")
      BY <1>3, <2>1, <3>1, <3>2
    <3>3. CASE UNCHANGED <<log, partial, end>>
      BY <1>1, <2>1, <3>1, <3>3, SameFlow DEF FlowVars
    <3> QED BY <1>7, <2>3, <3>2, <3>3 DEF Read
  <2> QED BY <2>2, <2>3
<1>8. ASSUME Consume PROVE Flow'
  BY <1>1, <1>8, ConsumeFlow
<1>9. ASSUME Cut PROVE Flow'
  <2>1. partial = <<>> /\ chunk = <<>> /\ (offset <= Len(file) \/ crashes > 0)
        /\ offset + unread \in 0 .. Len(file)
    BY <1>1, <1>9 DEF Cut, Places
  <2> DEFINE counted == BytesIn(SubSeq(file, offset + 1, offset + unread))
             unseen  == BytesIn(SubSeq(file, offset + unread + 1, Len(file)))
  <2>2. /\ file' = <<>> /\ offset' = 0
        /\ noted' = noted \cup counted /\ raced' = raced \cup unseen
        /\ UNCHANGED <<written, chunk, partial, log, crashes, forfeit>>
    BY <1>9 DEF Cut
  <2>3. counted \cup unseen \subseteq BytesIn(file) /\ Ahead \subseteq counted \cup unseen
    BY <1>1, <2>1, CutParts DEF CaptureTypes
  <2> HIDE DEF counted, unseen
  <2>4. /\ Ahead \subseteq (noted \cup raced)' /\ noted \subseteq noted' /\ raced \subseteq raced'
        /\ (noted \cup raced)' \subseteq noted \cup raced \cup BytesIn(file)
    BY <2>2, <2>3
  <2> QED BY <1>1, <2>1, <2>2, <2>4, ResetFlow
<1>10. ASSUME StartOver PROVE Flow'
  <2>1. partial = <<>> /\ chunk = <<>> /\ (offset <= Len(file) \/ crashes > 0)
    BY <1>1, <1>10 DEF StartOver, Places
  <2>2. /\ file' = <<>> /\ offset' = 0 /\ noted' = noted /\ raced' = raced \cup Ahead
        /\ UNCHANGED <<written, chunk, partial, log, crashes, forfeit>>
    BY <1>10 DEF StartOver
  <2>3. Ahead \subseteq BytesIn(file)
    BY <1>1, AheadWithin DEF CaptureTypes
  <2>4. /\ Ahead \subseteq (noted \cup raced)' /\ noted \subseteq noted' /\ raced \subseteq raced'
        /\ (noted \cup raced)' \subseteq noted \cup raced \cup BytesIn(file)
    BY <2>2, <2>3
  <2> QED BY <1>1, <2>1, <2>2, <2>4, ResetFlow
<1>11. ASSUME FinishClose PROVE Flow'
  <2>1. chunk = <<>> /\ partial = <<>>
    BY <1>1, <1>11 DEF FinishClose, Places
  <2>2. UNCHANGED FlowVars
    BY <1>11, <2>1 DEF FinishClose, Down, FlowVars, output
  <2> QED BY <1>1, <2>2, SameFlow
<1>12. ASSUME Crash PROVE Flow'
  BY <1>1, <1>12, CrashFlow
<1>13. ASSUME ProcessExits \/ WindowPasses \/ Stat \/ Persist \/ BeginClose \/ Adopt
              \/ UNCHANGED captureVars
       PROVE  Flow'
  <2>1. UNCHANGED FlowVars
    BY <1>13 DEF ProcessExits, WindowPasses, Stat, Persist, BeginClose, Adopt, captureVars,
                 FlowVars, output, tailer
  <2> QED BY <1>1, <2>1, SameFlow
<1> QED
  BY <1>2, <1>4, <1>5, <1>6, <1>7, <1>8, <1>9, <1>10, <1>11, <1>12, <1>13 DEF CaptureNext, Follow

\* Where the tailer is, and how its run may have ended.
LEMMA PlacesKept ==
  ASSUME CaptureAssumption, CInv, CaptureTypes', [CaptureNext]_captureVars
  PROVE  Places'
<1>1. CaptureTypes /\ Places
  BY DEF CInv
<1>2. ASSUME Write PROVE Places'
  <2>1. /\ UNCHANGED <<pc, chunk, partial, offset, unread, crashes>>
        /\ file' = Append(file, written)
    BY <1>2 DEF Write, tailer
  <2>2. Len(file') = Len(file) + 1 /\ Len(file) \in Nat
    BY <1>1, <2>1 DEF CaptureTypes
  <2>3. offset \in Nat /\ unread \in Int
    BY <1>1 DEF CaptureTypes
  <2>4. pc = "cut" => offset + unread \in 0 .. Len(file')
    BY <1>1, <2>2, <2>3 DEF Places
  <2>5. offset <= Len(file') \/ crashes > 0
    BY <1>1, <2>2, <2>3 DEF Places
  <2> QED BY <1>1, <2>1, <2>4, <2>5 DEF Places
<1>3. ASSUME NEW why, EndLoop(why), pc # "consume", UNCHANGED <<file, offset, chunk, crashes>>
      PROVE  Places'
  BY <1>1, <1>3 DEF EndLoop, Places
<1>4. ASSUME Top PROVE Places'
  <2>1. pc = "top" /\ UNCHANGED <<file, offset, chunk, crashes>>
    BY <1>4 DEF Top, output
  <2>2. CASE \E why : EndLoop(why)
    BY <1>3, <2>1, <2>2
  <2>3. CASE pc' = "stat" /\ UNCHANGED <<log, partial, end>>
    BY <1>1, <2>1, <2>3 DEF Places
  <2> QED BY <1>4, <2>2, <2>3 DEF Top
<1>5. ASSUME Pause PROVE Places'
  <2>1. pc = "pause" /\ UNCHANGED <<file, offset, chunk, crashes>>
    BY <1>5 DEF Pause, output
  <2>2. CASE \E why : EndLoop(why)
    BY <1>3, <2>1, <2>2
  <2>3. CASE pc' = "top" /\ UNCHANGED <<log, partial, end>>
    BY <1>1, <2>1, <2>3 DEF Places
  <2> QED BY <1>5, <2>2, <2>3 DEF Pause
<1>6. ASSUME ReadFails PROVE Places'
  BY <1>3, <1>6 DEF ReadFails, output
<1>7. ASSUME Read PROVE Places'
  <2>1. pc = "read" /\ UNCHANGED <<file, crashes>>
    BY <1>7 DEF Read, output
  <2>2. CASE Len(file) > offset
    <3> DEFINE n == IF Len(file) - offset < Chunk THEN Len(file) - offset ELSE Chunk
    <3>1. pc' = "consume" /\ offset' = offset + n
      BY <1>7, <2>2 DEF Read
    <3>2. offset + n <= Len(file)
      <4>1. offset \in Nat /\ Len(file) \in Nat /\ Chunk \in Nat
        BY <1>1 DEF CaptureTypes, CaptureAssumption
      <4> QED BY <2>2, <4>1
    <3> HIDE DEF n
    <3> QED BY <2>1, <3>1, <3>2 DEF Places
  <2>3. CASE ~(Len(file) > offset)
    <3>1. UNCHANGED <<chunk, offset>>
      BY <1>7, <2>3 DEF Read
    <3>2. CASE EndLoop("drained")
      BY <1>3, <2>1, <3>1, <3>2
    <3>3. CASE pc' = "pause" /\ UNCHANGED <<log, partial, end>>
      BY <1>1, <2>1, <3>1, <3>3 DEF Places
    <3> QED BY <1>7, <2>3, <3>2, <3>3 DEF Read
  <2> QED BY <2>2, <2>3
<1>8. ASSUME Consume PROVE Places'
  BY <1>1, <1>8 DEF Consume, Places, output
<1>9. ASSUME Cut PROVE Places'
  <2>1. offset' = 0 /\ Len(file') = 0 /\ pc' = "read" /\ chunk' = <<>>
    BY <1>1, <1>9 DEF Cut, Places
  <2> QED BY <2>1 DEF Places
<1>10. ASSUME StartOver PROVE Places'
  <2>1. offset' = 0 /\ Len(file') = 0 /\ pc' = "top" /\ chunk' = <<>>
    BY <1>1, <1>10 DEF StartOver, Places
  <2> QED BY <2>1 DEF Places
<1>11. ASSUME FinishClose PROVE Places'
  BY <1>1, <1>11 DEF FinishClose, Down, Places, output
<1>12. ASSUME Crash PROVE Places'
  <2>1. pc' = "down" /\ chunk' = <<>> /\ partial' = <<>> /\ crashes' = crashes + 1
    BY <1>12 DEF Crash, Down
  <2>2. crashes' > 0
    BY <1>1, <2>1 DEF CaptureTypes, CaptureAssumption
  <2> QED BY <2>1, <2>2 DEF Places
<1>13. ASSUME Stat PROVE Places'
  <2>1. /\ pc = "stat" /\ UNCHANGED <<file, offset, chunk, partial, crashes>>
        /\ pc' = "cut" => partial = <<>> /\ unread' = Len(file) - offset
        /\ pc' \in {"cut", "read"}
    BY <1>13 DEF Stat, Truncatable, output
  <2>2. pc' = "cut" => offset' + unread' = Len(file') /\ Len(file') \in Nat
    BY <1>1, <2>1 DEF CaptureTypes
  <2>3. pc' = "cut" => offset' + unread' \in 0 .. Len(file')
    BY <2>2
  <2> QED BY <1>1, <2>1, <2>3 DEF Places
<1>14. ASSUME Adopt PROVE Places'
  BY <1>1, <1>14 DEF Adopt, Places, output
<1>15. ASSUME ProcessExits \/ WindowPasses \/ Persist \/ BeginClose \/ UNCHANGED captureVars
       PROVE  Places'
  <2>1. UNCHANGED <<pc, file, chunk, partial, offset, unread, crashes>>
    BY <1>15 DEF ProcessExits, WindowPasses, Persist, BeginClose, captureVars, output, tailer
  <2> QED BY <1>1, <2>1 DEF Places
<1> QED
  BY <1>2, <1>4, <1>5, <1>6, <1>7, <1>8, <1>9, <1>10, <1>11, <1>12, <1>13, <1>14, <1>15
  DEF CaptureNext, Follow

\* Only a tailer that has seen the exit drains.
LEMMA EndsKept ==
  ASSUME CaptureAssumption, CInv, CaptureTypes', [CaptureNext]_captureVars
  PROVE  Ends'
<1>1. CaptureTypes /\ Ends
  BY DEF CInv
<1>2. ASSUME Write PROVE Ends'
  <2>1. UNCHANGED <<exitAt, seen, alive, drains, pc, end>> /\ written' = written + 1
    BY <1>2 DEF Write, tailer
  <2>2. exitAt <= written'
    <3>1. exitAt \in Int /\ written \in Int /\ exitAt <= written
      BY <1>1 DEF CaptureTypes, Ends, CaptureAssumption
    <3> QED BY <2>1, <3>1
  <2> QED BY <1>1, <2>1, <2>2 DEF Ends
<1>3. ASSUME NEW why, EndLoop(why), why = "drained" => seen,
             UNCHANGED <<written, exitAt, seen, alive>>
      PROVE  Ends'
  BY <1>1, <1>3 DEF EndLoop, Ends
<1>4. ASSUME Top PROVE Ends'
  <2>1. pc = "top" /\ UNCHANGED <<written, exitAt, alive, drains>>
    BY <1>4 DEF Top, output
  <2>2. CASE (EndLoop("stopped") \/ EndLoop("window")) /\ UNCHANGED seen
    BY <1>3, <2>1, <2>2
  <2>3. CASE pc' = "stat" /\ seen' = (seen \/ ~alive) /\ UNCHANGED <<log, partial, end>>
    BY <1>1, <2>1, <2>3 DEF Ends
  <2> QED BY <1>4, <2>2, <2>3 DEF Top
<1>5. ASSUME Pause PROVE Ends'
  <2>1. pc = "pause" /\ UNCHANGED <<written, exitAt, alive, drains, seen>>
    BY <1>5 DEF Pause, output
  <2>2. CASE EndLoop("stopped")
    BY <1>3, <2>1, <2>2
  <2>3. CASE pc' = "top" /\ UNCHANGED <<log, partial, end>>
    BY <1>1, <2>1, <2>3 DEF Ends
  <2> QED BY <1>5, <2>2, <2>3 DEF Pause
<1>6. ASSUME ReadFails PROVE Ends'
  BY <1>3, <1>6 DEF ReadFails, output
<1>7. ASSUME Read PROVE Ends'
  <2>1. pc = "read" /\ UNCHANGED <<written, exitAt, alive, seen>>
    BY <1>7 DEF Read, output
  <2>2. CASE Len(file) > offset
    <3>1. drains' = 0 /\ pc' = "consume" /\ UNCHANGED end
      BY <1>7, <2>2 DEF Read
    <3> QED BY <1>1, <2>1, <3>1 DEF Ends
  <2>3. CASE ~(Len(file) > offset)
    <3>1. /\ drains' = IF seen THEN drains + 1 ELSE drains
          /\ IF drains' > 1 THEN EndLoop("drained")
             ELSE pc' = "pause" /\ UNCHANGED <<log, partial, end>>
      BY <1>7, <2>3 DEF Read
    <3>2. drains \in 0 .. 2 /\ drains # 2
      BY <1>1, <2>1 DEF CaptureTypes, Ends
    <3>3. CASE drains' > 1
      <4>1. seen /\ EndLoop("drained")
        BY <3>1, <3>2, <3>3
      <4> QED BY <1>3, <2>1, <4>1
    <3>4. CASE ~(drains' > 1)
      <4>1. drains' # 2 /\ pc' = "pause" /\ UNCHANGED end
        BY <3>1, <3>4
      <4> QED BY <1>1, <2>1, <4>1 DEF Ends
    <3> QED BY <3>3, <3>4
  <2> QED BY <2>2, <2>3
<1>8. ASSUME ProcessExits PROVE Ends'
  <2>1. alive /\ ~alive' /\ exitAt' = written /\ written' = written
        /\ UNCHANGED <<seen, drains, pc, end>>
    BY <1>8 DEF ProcessExits, tailer
  <2>2. exitAt' <= written'
    BY <1>1, <2>1 DEF CaptureTypes, CaptureAssumption
  <2> QED BY <1>1, <2>1, <2>2 DEF Ends
<1>9. ASSUME StartOver PROVE Ends'
  <2>1. exitAt' = 0 /\ written' = written /\ seen' = FALSE /\ drains' = 0 /\ end' = "none"
    BY <1>9 DEF StartOver
  <2>2. exitAt' <= written'
    BY <1>1, <2>1 DEF CaptureTypes, CaptureAssumption
  <2> QED BY <2>1, <2>2 DEF Ends
<1>10. ASSUME FinishClose \/ Crash PROVE Ends'
  <2>1. UNCHANGED <<written, exitAt>> /\ ~seen' /\ drains' = 0 /\ end' = "none"
    BY <1>10 DEF FinishClose, Crash, Down, output
  <2> QED BY <1>1, <2>1 DEF Ends
<1>11. ASSUME Adopt PROVE Ends'
  <2>1. /\ pc = "down" /\ UNCHANGED <<written, exitAt, seen, alive, drains>>
        /\ end' \in {"none", "unfollowed"}
    BY <1>11 DEF Adopt, output
  <2> QED BY <1>1, <2>1 DEF Ends
<1>12. ASSUME Stat \/ Cut \/ Consume PROVE Ends'
  <2>1. pc \notin {"done"} /\ UNCHANGED <<written, exitAt, seen, alive, drains, end>>
    BY <1>12 DEF Stat, Cut, Consume, output
  <2> QED BY <1>1, <2>1 DEF Ends
<1>13. ASSUME WindowPasses \/ Persist \/ BeginClose \/ UNCHANGED captureVars PROVE Ends'
  <2>1. UNCHANGED <<written, exitAt, seen, alive, drains, end, pc>>
    BY <1>13 DEF WindowPasses, Persist, BeginClose, captureVars, output, tailer
  <2> QED BY <1>1, <2>1 DEF Ends
<1> QED
  BY <1>2, <1>4, <1>5, <1>6, <1>7, <1>8, <1>9, <1>10, <1>11, <1>12, <1>13 DEF CaptureNext, Follow

AheadIsTail == Ahead = At .. written - 1

LEMMA AheadAs == CaptureAssumption /\ CaptureTypes /\ Numbered => AheadIsTail
BY AheadRange DEF AheadIsTail

LEMMA AheadLater == (CaptureAssumption /\ CaptureTypes /\ Numbered)' => AheadIsTail'
BY AheadAs, PTL

\* At the drain nothing is ahead, and what comes after was written after the exit.
LEMMA DrainedKept ==
  ASSUME CaptureAssumption, CInv, CaptureTypes', Flow', [CaptureNext]_captureVars
  PROVE  DrainedSeesAll'
<1>1. CaptureTypes /\ Numbered /\ Ends /\ DrainedSeesAll /\ Numbered'
  BY DEF CInv, Flow
<1>2. ASSUME Write PROVE DrainedSeesAll'
  <2>1. UNCHANGED <<exitAt, end, offset>> /\ written' = written + 1
        /\ file' = Append(file, written)
    BY <1>2 DEF Write, tailer
  <2>2. written \in Nat /\ exitAt \in Nat /\ offset \in Nat /\ exitAt <= written
        /\ Len(file) \in Nat /\ Len(file') = Len(file) + 1
    BY <1>1, <2>1 DEF CaptureTypes, CaptureAssumption, Ends
  <2>3. At' = At /\ At \in Int
    BY <2>1, <2>2 DEF At
  <2>4. Ahead = At .. written - 1 /\ Ahead' = At .. written
    <3>1. Ahead' = At' .. written' - 1 /\ Ahead = At .. written - 1
      BY <1>1, AheadAs, AheadLater DEF AheadIsTail
    <3>2. written' - 1 = written
      BY <2>1, <2>2
    <3> QED BY <2>3, <3>1, <3>2
  <2>5. \A x \in Ahead' : x \in Ahead \/ x = written
    BY <2>2, <2>3, <2>4
  <2>6. written >= exitAt
    BY <2>2
  <2> QED BY <1>1, <2>1, <2>5, <2>6 DEF DrainedSeesAll
<1>3. ASSUME NEW why, EndLoop(why), why # "drained" PROVE DrainedSeesAll'
  BY <1>3 DEF EndLoop, DrainedSeesAll
<1>4. ASSUME pc # "done", UNCHANGED end PROVE DrainedSeesAll'
  BY <1>1, <1>4 DEF Ends, DrainedSeesAll
<1>5. ASSUME Top \/ Pause \/ ReadFails PROVE DrainedSeesAll'
  BY <1>3, <1>4, <1>5 DEF Top, Pause, ReadFails
<1>6. ASSUME Stat \/ Cut \/ Consume PROVE DrainedSeesAll'
  BY <1>4, <1>6 DEF Stat, Cut, Consume
<1>7. ASSUME Read PROVE DrainedSeesAll'
  <2>1. pc = "read" /\ UNCHANGED <<written, file>>
    BY <1>7 DEF Read, output
  <2>2. CASE Len(file) > offset
    BY <1>4, <1>7, <2>1, <2>2 DEF Read
  <2>3. CASE ~(Len(file) > offset)
    <3>1. UNCHANGED offset
      BY <1>7, <2>3 DEF Read
    <3>2. Ahead' = {}
      <4>1. written \in Nat /\ offset \in Nat /\ Len(file) \in Nat
        BY <1>1 DEF CaptureTypes, CaptureAssumption
      <4>2. At > written - 1 /\ At \in Int
        BY <2>3, <4>1 DEF At
      <4>3. Ahead = {}
        BY <1>1, <4>1, <4>2, AheadAs DEF AheadIsTail
      <4> QED BY <2>1, <3>1, <4>3 DEF Ahead, BytesIn
    <3> QED BY <3>2 DEF DrainedSeesAll
  <2> QED BY <2>2, <2>3
<1>8. ASSUME ProcessExits PROVE DrainedSeesAll'
  BY <1>1, <1>8 DEF ProcessExits, tailer, Ends, DrainedSeesAll
<1>9. ASSUME StartOver \/ FinishClose \/ Crash \/ Adopt PROVE DrainedSeesAll'
  <2>1. end' \in {"none", "unfollowed"}
    BY <1>9 DEF StartOver, FinishClose, Crash, Adopt, Down
  <2> QED BY <2>1 DEF DrainedSeesAll
<1>10. ASSUME WindowPasses \/ Persist \/ BeginClose \/ UNCHANGED captureVars
      PROVE  DrainedSeesAll'
  <2>1. UNCHANGED <<file, offset, exitAt, end>>
    BY <1>10 DEF WindowPasses, Persist, BeginClose, captureVars, output, tailer
  <2>2. Ahead' = Ahead
    BY <2>1 DEF Ahead, BytesIn
  <2> QED BY <1>1, <2>1, <2>2 DEF DrainedSeesAll
<1> QED
  BY <1>2, <1>5, <1>6, <1>7, <1>8, <1>9, <1>10 DEF CaptureNext, Follow

-----------------------------------------------------------------------------
(* Capture: the theorems *)

LEMMA CaptureStarts == ASSUME CaptureAssumption, CaptureInit PROVE CInv
<1>1. CaptureTypes
  <2>1. /\ file \in Seq(Bytes) /\ chunk \in Seq(Bytes) /\ partial \in Seq(Bytes)
        /\ log \in Seq(Seq(Bytes)) /\ Len(chunk) = 0 /\ Len(partial) = 0
    BY DEF CaptureInit
  <2>2. MaxBytes \in Nat /\ MaxCrashes \in Nat /\ Chunk \in Nat /\ MaxLine \in Nat \ {0}
    BY DEF CaptureAssumption
  <2>3. /\ written \in 0 .. MaxBytes /\ exitAt \in 0 .. MaxBytes /\ crashes \in 0 .. MaxCrashes
        /\ Len(chunk) <= Chunk /\ Len(partial) < MaxLine
        /\ offset \in Nat /\ saved \in Nat /\ unread \in Int /\ drains \in 0 .. 2
    <3>1. written = 0 /\ exitAt = 0 /\ crashes = 0 /\ offset = 0 /\ saved = 0 /\ unread = 0
          /\ drains = 0
      BY DEF CaptureInit
    <3> QED BY <2>1, <2>2, <3>1
  <2>4. alive \in BOOLEAN /\ expired \in BOOLEAN /\ stopping \in BOOLEAN /\ seen \in BOOLEAN
    BY Zenon DEF CaptureInit
  <2>5. /\ pc = "top" /\ end = "none" /\ noted \subseteq Bytes /\ raced \subseteq Bytes
        /\ forfeit \subseteq Bytes
    BY DEF CaptureInit
  <2> QED BY <2>1, <2>3, <2>4, <2>5 DEF CaptureTypes
<1>2. Len(file) = 0 /\ Len(partial) = 0 /\ Len(chunk) = 0 /\ Len(log) = 0
  BY DEF CaptureInit
<1>3. Numbered /\ Held /\ Places /\ Ends
  BY <1>2 DEF CaptureInit, Numbered, Held, Consecutive, Places, Ends
<1>4. Logged = {}
  BY <1>2 DEF Logged
<1>5. OnceInOrder /\ LinesWhole /\ LoggedBefore /\ DrainedSeesAll
  BY <1>2, <1>4 DEF CaptureInit, OnceInOrder, LinesWhole, LoggedBefore, DrainedSeesAll
<1>6. Accounted
  <2>1. Low = 0 /\ 0 .. written - 1 = {} /\ noted = {} /\ raced = {} /\ forfeit = {}
    <3>1. written = 0 /\ offset = 0 /\ noted = {} /\ raced = {} /\ forfeit = {}
      BY DEF CaptureInit
    <3>2. At = 0
      BY <1>2, <3>1 DEF At
    <3>3. Low = 0
      BY <1>2, <3>2 DEF Low
    <3> QED BY <3>1, <3>3
  <2>2. AccountedBelow
    BY <1>4, <2>1 DEF AccountedBelow, CaptureInit
  <2> QED BY <1>1, <1>3, <2>2, AccountedAs
<1> QED BY <1>1, <1>3, <1>5, <1>6 DEF CInv, Flow

LEMMA CaptureInductive ==
  CInv /\ [CaptureNext]_captureVars => CInv'
<1> SUFFICES ASSUME CInv, [CaptureNext]_captureVars PROVE CInv'
  OBVIOUS
<1>1. CaptureTypes'
  BY CaptureAssumption, TypesKept DEF CInv, Flow
<1>2. Flow'
  BY <1>1, CaptureAssumption, FlowKept
<1>3. Places' /\ Ends' /\ DrainedSeesAll'
  BY <1>1, <1>2, CaptureAssumption, PlacesKept, EndsKept, DrainedKept
<1> QED BY <1>1, <1>2, <1>3 DEF CInv

LEMMA CaptureHolds == CaptureSpec => []CInv
<1>1. CaptureInit => CInv
  BY CaptureStarts, CaptureAssumption
<1> QED BY <1>1, CaptureInductive, PTL DEF CaptureSpec

\* Every variable has its type, and an unfinished line stays below maxLineBytes: consume
\* cuts it there (tail.go:267).
THEOREM CaptureTyped == CaptureSpec => []CaptureTypes
<1>1. CInv => CaptureTypes
  BY DEF CInv
<1> QED BY <1>1, CaptureHolds, PTL

\* No byte of the output disappears: consume, maybeTruncate, the restart of a run and the
\* offsets that agents resume from leave each where it can be found or own up to it
\* (tail.go:275).
THEOREM OutputAccounted == CaptureSpec => []Accounted
<1>1. CInv => Accounted
  BY DEF CInv, Flow
<1> QED BY <1>1, CaptureHolds, PTL

\* While no agent is killed, consume adds the output to the history once and in order,
\* whatever is truncated, closed and run again (supervisor.go:295).
THEOREM HistoryInOrder == CaptureSpec => []OnceInOrder
<1>1. CInv => OnceInOrder
  BY DEF CInv, Flow
<1> QED BY <1>1, CaptureHolds, PTL

\* consume and flushPartial put only bytes that followed each other in a line: a
\* truncation waits for the end of one (tail.go:269).
THEOREM LinesStayWhole == CaptureSpec => []LinesWhole
<1>1. CInv => LinesWhole
  BY DEF CInv, Flow
<1> QED BY <1>1, CaptureHolds, PTL

\* follow's second empty read after the exit comes after all that the process wrote, so
\* the monitor records the exit after the final lines (supervisor.go:844).
THEOREM DrainsSeeAll == CaptureSpec => []DrainedSeesAll
<1>1. CInv => DrainedSeesAll
  BY DEF CInv
<1> QED BY <1>1, CaptureHolds, PTL

-----------------------------------------------------------------------------
(* Logs: the replay *)

\* What Sift has kept of the first k lines.
KeptOf(t, lines, S, k) ==
  /\ t \in Seq(Nat) /\ Elements(t) = {lines[i] : i \in 1 .. k} \cap S
  /\ Increasing(lines) => Increasing(t)

LEMMA AppendKept ==
  ASSUME NEW lines \in Seq(Nat), NEW S, NEW k \in 0 .. Len(lines), k # 0,
         NEW t, KeptOf(t, lines, S, k - 1)
  PROVE  KeptOf(IF lines[k] \in S THEN Append(t, lines[k]) ELSE t, lines, S, k)
<1>1. t \in Seq(Nat) /\ (Increasing(lines) => Increasing(t)) /\ k \in 1 .. Len(lines) /\ lines[k] \in Nat /\ Len(lines) \in Nat
      /\ Elements(t) = {lines[i] : i \in 1 .. k - 1} \cap S
  BY DEF KeptOf
<1>2. {lines[i] : i \in 1 .. k} = {lines[i] : i \in 1 .. k - 1} \cup {lines[k]}
  <2>1. 1 .. k = (1 .. k - 1) \cup {k} BY <1>1
  <2> QED BY <2>1
<1>3. CASE lines[k] \in S
  <2> DEFINE u == Append(t, lines[k])
  <2>1. /\ u \in Seq(Nat) /\ Len(u) = Len(t) + 1 /\ u[Len(t) + 1] = lines[k]
        /\ \A i \in 1 .. Len(t) : u[i] = t[i]
    BY <1>1
  <2>2. Len(t) \in Nat BY <1>1
  <2> HIDE DEF u
  <2>3. Elements(u) = Elements(t) \cup {lines[k]}
    <3>1. 1 .. Len(u) = (1 .. Len(t)) \cup {Len(t) + 1} BY <2>1, <2>2
    <3> QED BY <2>1, <2>2, <3>1 DEF Elements
  <2>4. ASSUME Increasing(lines), NEW i \in 1 .. Len(t) PROVE t[i] < lines[k]
    <3>1. t[i] \in Elements(t) BY DEF Elements
    <3>2. PICK j \in 1 .. k - 1 : t[i] = lines[j] BY <1>1, <3>1
    <3>3. j \in 1 .. Len(lines) /\ j < k BY <1>1, <3>2
    <3>4. lines[j] < lines[k] BY <1>1, <2>4, <3>3 DEF Increasing
    <3> QED BY <3>2, <3>4
  <2>5. Increasing(lines) => Increasing(u)
    <3> SUFFICES ASSUME Increasing(lines), NEW i \in 1 .. Len(u), NEW j \in 1 .. Len(u), i < j PROVE u[i] < u[j]
      BY DEF Increasing
    <3>0. i \in 1 .. Len(t) BY <2>1, <2>2
    <3>1. CASE j = Len(t) + 1
      <4>1. u[j] = lines[k] /\ u[i] = t[i] BY <2>1, <3>0, <3>1
      <4> QED BY <2>4, <3>0, <4>1
    <3>2. CASE j # Len(t) + 1
      <4>1. j \in 1 .. Len(t) BY <2>1, <2>2, <3>2
      <4>2. u[j] = t[j] /\ u[i] = t[i] BY <2>1, <3>0, <4>1
      <4>3. t[i] < t[j] BY <1>1, <3>0, <4>1 DEF Increasing
      <4> QED BY <4>2, <4>3
    <3> QED BY <3>1, <3>2
  <2>6. Elements(u) = {lines[i] : i \in 1 .. k} \cap S BY <1>1, <1>2, <1>3, <2>3
  <2> QED BY <1>3, <2>1, <2>5, <2>6 DEF KeptOf, u
<1>4. CASE lines[k] \notin S
  BY <1>1, <1>2, <1>4 DEF KeptOf
<1> QED BY <1>3, <1>4

\* The recursion of Sift has a solution, and each of its values is what the
\* lines up to there leave.  By the least line for which it is not.
LEMMA SiftKeeps ==
  ASSUME NEW lines \in Seq(Nat), NEW S
  PROVE  KeptOf(Sift(lines, S), lines, S, Len(lines))
<1> DEFINE Step(g, i) ==
      IF i = 0 THEN <<>> ELSE IF lines[i] \in S THEN Append(g[i - 1], lines[i]) ELSE g[i - 1]
    Solves(g, k) == g = [i \in 0 .. k |-> Step(g, i)]
    Solvable(k) == \E g : Solves(g, k)
<1>1. Len(lines) \in Nat OBVIOUS
<1>2. \A k \in 0 .. Len(lines) : Solvable(k)
  <2> DEFINE Bad == {k \in 0 .. Len(lines) : ~Solvable(k)}
  <2> SUFFICES ASSUME Bad # {} PROVE FALSE
    <3> HIDE DEF Solvable
    <3> QED OBVIOUS
  <2>1. Bad \in SUBSET Nat
    <3> HIDE DEF Solvable
    <3> QED BY <1>1
  <2>2. PICK k \in Bad : \A i \in Bad : k <= i
    <3> HIDE DEF Bad
    <3> QED BY <2>1, LeastNatural
  <2>3. k \in 0 .. Len(lines) /\ ~Solvable(k)
    <3> HIDE DEF Solvable
    <3> QED BY <2>2
  <2>4. CASE k = 0
    <3> DEFINE g == [i \in 0 .. 0 |-> <<>>]
    <3>1. Solves(g, 0) OBVIOUS
    <3> QED BY <2>3, <2>4, <3>1
  <2>5. CASE k # 0
    <3>1. k - 1 \in 0 .. Len(lines) /\ k - 1 < k BY <1>1, <2>3, <2>5
    <3>2. Solvable(k - 1)
      <4> HIDE DEF Solvable
      <4> QED BY <1>1, <2>2, <3>1
    <3>3. PICK g : Solves(g, k - 1) BY <3>2
    <3> DEFINE h == [i \in 0 .. k |-> Step(g, i)]
    <3>4. ASSUME NEW i \in 0 .. k PROVE Step(h, i) = Step(g, i)
      <4>1. CASE i = 0 BY <4>1
      <4>2. CASE i # 0
        <5>1. i - 1 \in 0 .. k - 1 /\ i - 1 \in 0 .. k BY <2>3, <4>2
        <5>2. g[i - 1] = Step(g, i - 1)
          <6> HIDE DEF Step
          <6> QED BY <3>3, <5>1
        <5>3. h[i - 1] = g[i - 1]
          <6> HIDE DEF Step
          <6> QED BY <5>1, <5>2
        <5> HIDE DEF h
        <5> QED BY <5>3
      <4> QED BY <4>1, <4>2
    <3>5. Solves(h, k)
      <4> SUFFICES [i \in 0 .. k |-> Step(g, i)] = [i \in 0 .. k |-> Step(h, i)] OBVIOUS
      <4> HIDE DEF Step, h
      <4> QED BY <3>4
    <3> HIDE DEF Solves, h
    <3> QED BY <2>3, <3>5
  <2> QED BY <2>4, <2>5
<1> DEFINE first == CHOOSE g : Solves(g, Len(lines))
<1>3. Solves(first, Len(lines))
  <2>1. Solvable(Len(lines))
    <3> HIDE DEF Solvable
    <3> QED BY <1>1, <1>2
  <2> HIDE DEF Solves
  <2> QED BY <2>1
<1>4. Sift(lines, S) = first[Len(lines)] BY DEF Sift
<1> HIDE DEF first
<1>5. \A i \in 0 .. Len(lines) : first[i] = Step(first, i)
  <2> HIDE DEF Step
  <2> QED BY <1>3
<1>6. first[0] = <<>> /\ \A i \in 1 .. Len(lines) :
        first[i] = IF lines[i] \in S THEN Append(first[i - 1], lines[i]) ELSE first[i - 1]
  <2>1. 0 \in 0 .. Len(lines) BY <1>1
  <2>2. first[0] = <<>> BY <1>5, <2>1
  <2>3. ASSUME NEW i \in 1 .. Len(lines) PROVE first[i] = Step(first, i) /\ i # 0
    <3> HIDE DEF Step
    <3> QED BY <1>1, <1>5
  <2> QED BY <2>2, <2>3
<1> HIDE DEF Solves
<1>7. \A k \in 0 .. Len(lines) : KeptOf(first[k], lines, S, k)
  <2> DEFINE Bad == {k \in 0 .. Len(lines) : ~KeptOf(first[k], lines, S, k)}
  <2> SUFFICES ASSUME Bad # {} PROVE FALSE OBVIOUS
  <2>1. Bad \in SUBSET Nat BY <1>1
  <2>2. PICK k \in Bad : \A i \in Bad : k <= i
    <3> HIDE DEF Bad
    <3> QED BY <2>1, LeastNatural
  <2>3. CASE k = 0
    <3>1. <<>> \in Seq(Nat) /\ Len(<<>>) = 0 OBVIOUS
    <3>2. Elements(<<>>) = {} /\ {lines[i] : i \in 1 .. 0} = {} BY <3>1 DEF Elements
    <3>3. KeptOf(<<>>, lines, S, 0) BY <3>1, <3>2 DEF KeptOf, Increasing
    <3> QED BY <1>6, <2>2, <2>3, <3>3
  <2>4. CASE k # 0
    <3>1. k - 1 \in 0 .. Len(lines) /\ k - 1 \notin Bad /\ k \in 1 .. Len(lines) BY <1>1, <2>2, <2>4
    <3>2. KeptOf(first[k - 1], lines, S, k - 1) BY <3>1
    <3> QED BY <1>6, <2>2, <2>4, <3>1, <3>2, AppendKept
  <2> QED BY <2>3, <2>4
<1> QED BY <1>1, <1>4, <1>7

LEMMA Sifted ==
  ASSUME NEW lines \in Seq(Nat), NEW S
  PROVE  /\ Sift(lines, S) \in Seq(Nat) /\ (Increasing(lines) => Increasing(Sift(lines, S)))
         /\ Elements(Sift(lines, S)) = Elements(lines) \cap S
BY SiftKeeps DEF KeptOf, Elements

\* Increasing naturals are at least as far apart as their places.
LEMMA SpreadOut ==
  ASSUME NEW s \in Seq(Nat), Increasing(s), s # <<>>
  PROVE  s[1] + Len(s) - 1 <= s[Len(s)]
<1>1. Len(s) \in Nat \ {0} /\ \A i \in 1 .. Len(s) : s[i] \in Nat OBVIOUS
<1> DEFINE Bad == {i \in 1 .. Len(s) : s[i] < s[1] + i - 1}
<1>2. Bad = {}
  <2> SUFFICES ASSUME Bad # {} PROVE FALSE OBVIOUS
  <2>1. Bad \in SUBSET Nat BY <1>1
  <2>2. PICK k \in Bad : \A i \in Bad : k <= i
    <3> HIDE DEF Bad
    <3> QED BY <2>1, LeastNatural
  <2>3. k # 1 BY <1>1, <2>2
  <2>4. k - 1 \in 1 .. Len(s) /\ k - 1 \notin Bad BY <1>1, <2>2, <2>3
  <2>5. s[k - 1] < s[k]
    <3>1. k \in 1 .. Len(s) /\ k - 1 < k BY <2>2
    <3> QED BY <2>4, <3>1 DEF Increasing
  <2> QED BY <1>1, <2>2, <2>4, <2>5
<1> QED BY <1>1, <1>2

\* s is the run of consecutive lines from a up to b, without b.
Span(s, a, b) ==
  /\ a \in Nat /\ b \in Nat /\ a <= b /\ s \in Seq(Nat) /\ Len(s) = b - a
  /\ \A k \in 1 .. Len(s) : s[k] = a + k - 1

LEMMA NoSpan == ASSUME NEW a \in Nat PROVE Span(<<>>, a, a)
<1>1. <<>> \in Seq(Nat) /\ Len(<<>>) = 0 OBVIOUS
<1> QED BY <1>1 DEF Span

LEMMA OneSpan == ASSUME NEW a \in Nat PROVE Span(<<a>>, a, a + 1)
<1>1. <<a>> \in Seq(Nat) /\ Len(<<a>>) = 1 /\ <<a>>[1] = a OBVIOUS
<1> HIDE DEF Span
<1>2. \A k \in 1 .. 1 : k = 1 OBVIOUS
<1> QED BY <1>1, <1>2 DEF Span

LEMMA SpanElements ==
  ASSUME NEW s, NEW a, NEW b, Span(s, a, b)
  PROVE  Increasing(s) /\ Elements(s) = a .. b - 1
<1>1. /\ a \in Nat /\ b \in Nat /\ a <= b /\ Len(s) = b - a
      /\ \A k \in 1 .. Len(s) : s[k] = a + k - 1
  BY DEF Span
<1>2. ASSUME NEW n \in a .. b - 1 PROVE n \in Elements(s)
  <2>1. n - a + 1 \in 1 .. Len(s) BY <1>1
  <2>2. s[n - a + 1] = n BY <1>1, <2>1
  <2> QED BY <2>1, <2>2 DEF Elements
<1>3. ASSUME NEW n \in Elements(s) PROVE n \in a .. b - 1
  <2>1. PICK k \in 1 .. Len(s) : n = s[k] BY DEF Elements
  <2> QED BY <1>1, <2>1
<1>4. Increasing(s) BY <1>1 DEF Increasing
<1> QED BY <1>2, <1>3, <1>4

LEMMA SpanJoin ==
  ASSUME NEW s, NEW t, NEW a, NEW b, NEW c, Span(s, a, b), Span(t, b, c)
  PROVE  Span(s \o t, a, c)
<1>1. /\ a \in Nat /\ b \in Nat /\ c \in Nat /\ a <= b /\ b <= c
      /\ s \in Seq(Nat) /\ t \in Seq(Nat) /\ Len(s) = b - a /\ Len(t) = c - b
      /\ \A k \in 1 .. Len(s) : s[k] = a + k - 1
      /\ \A k \in 1 .. Len(t) : t[k] = b + k - 1
  BY DEF Span
<1>2. /\ s \o t \in Seq(Nat) /\ Len(s \o t) = Len(s) + Len(t)
      /\ \A k \in 1 .. Len(s) + Len(t) :
           (s \o t)[k] = IF k <= Len(s) THEN s[k] ELSE t[k - Len(s)]
  BY <1>1, ConcatProperties
<1>3. ASSUME NEW k \in 1 .. Len(s) + Len(t) PROVE (s \o t)[k] = a + k - 1
  <2>1. CASE k <= Len(s)
    <3>1. k \in 1 .. Len(s) BY <1>1, <2>1
    <3>2. (s \o t)[k] = s[k] BY <1>2, <2>1
    <3> QED BY <1>1, <3>1, <3>2
  <2>2. CASE ~(k <= Len(s))
    <3>1. k - Len(s) \in 1 .. Len(t) BY <1>1, <2>2
    <3>2. (s \o t)[k] = t[k - Len(s)] BY <1>2, <2>2
    <3>3. t[k - Len(s)] = b + (k - Len(s)) - 1 BY <1>1, <3>1
    <3> QED BY <1>1, <3>2, <3>3
  <2> QED BY <2>1, <2>2
<1>4. Len(s \o t) = c - a BY <1>1, <1>2
<1> QED BY <1>1, <1>2, <1>3, <1>4 DEF Span

LEMMA SpanAppend ==
  ASSUME NEW s, NEW a, NEW n, Span(s, a, n)
  PROVE  Span(Append(s, n), a, n + 1)
<1>1. /\ a \in Nat /\ n \in Nat /\ a <= n /\ s \in Seq(Nat) /\ Len(s) = n - a
      /\ \A k \in 1 .. Len(s) : s[k] = a + k - 1
  BY DEF Span
<1> DEFINE t == Append(s, n)
<1>2. /\ t \in Seq(Nat) /\ Len(t) = Len(s) + 1 /\ t[Len(s) + 1] = n
      /\ \A k \in 1 .. Len(s) : t[k] = s[k]
  BY <1>1
<1> HIDE DEF t
<1>3. ASSUME NEW k \in 1 .. Len(t) PROVE t[k] = a + k - 1
  <2>1. CASE k = Len(s) + 1 BY <1>1, <1>2, <2>1
  <2>2. CASE k # Len(s) + 1
    <3>1. k \in 1 .. Len(s) BY <1>1, <1>2, <2>2
    <3> QED BY <1>1, <1>2, <3>1
  <2> QED BY <2>1, <2>2
<1>4. Span(t, a, n + 1) BY <1>1, <1>2, <1>3 DEF Span
<1> QED BY <1>4 DEF t

LEMMA SpanTail ==
  ASSUME NEW s, NEW a, NEW b, Span(s, a, b), a # b
  PROVE  Span(Tail(s), a + 1, b)
<1>1. /\ a \in Nat /\ b \in Nat /\ a <= b /\ s \in Seq(Nat) /\ Len(s) = b - a
      /\ \A k \in 1 .. Len(s) : s[k] = a + k - 1
  BY DEF Span
<1>2. s # <<>> BY <1>1
<1> DEFINE t == Tail(s)
<1>3. /\ t \in Seq(Nat) /\ Len(t) = Len(s) - 1
      /\ \A k \in 1 .. Len(s) - 1 : t[k] = s[k + 1]
  BY <1>1, <1>2
<1> HIDE DEF t
<1>4. ASSUME NEW k \in 1 .. Len(t) PROVE t[k] = a + 1 + k - 1
  <2>1. k \in 1 .. Len(s) - 1 /\ k + 1 \in 1 .. Len(s) BY <1>1, <1>3
  <2> QED BY <1>1, <1>3, <2>1
<1>5. Len(t) = b - (a + 1) /\ a + 1 <= b BY <1>1, <1>3
<1>6. Span(t, a + 1, b) BY <1>1, <1>3, <1>4, <1>5 DEF Span
<1> QED BY <1>6 DEF t

\* The lines appended so far fall into consecutive runs, one for each history
\* file, the oldest first, and one for the write buffer: cut[i] is the line after
\* those of file i, and the files that remain begin at the last cut.
Cuts == [0 .. Retain + 1 -> Nat]
Layout(cut) ==
  /\ \A i, j \in 0 .. Retain + 1 : i <= j => cut[j] <= cut[i]
  /\ \A i \in Segments : Span(files[i], cut[i + 1], cut[i])
  /\ Span(buffered, cut[0], nextSeq)

\* The ring is full or holds every line, and what the write buffer holds fits it.
First == nextSeq - Len(ring)
Rings ==
  /\ Span(ring, First, nextSeq)
  /\ Len(ring) <= RingLines /\ Len(ring) \in {RingLines, nextSeq}
  /\ Len(buffered) <= BufLines \/ Len(buffered) <= 1

ReadType == [snap : Seq(Nat), from : Nat, produced : Nat, oldest : Nat,
             todo : SUBSET Segments, disk : Seq(Nat), lines : Seq(Nat), shortfall : Nat]

ReplayPCs == {"stats", "oldest", "segments", "files", "assemble"}

\* What has been read of the files, of which those in todo remain.
Partway(disk, todo, cut) ==
  /\ 0 \in todo
  /\ \A i \in todo :
       /\ (\A k \in todo : k <= i) => Span(disk, cut[Retain + 1], cut[i + 1])
       /\ \A j \in Segments \ todo : j < i => cut[j] = cut[j + 1]

\* What a call has gathered, as long as nothing has been appended since its
\* snapshot.
Gathered(f, cut) ==
  LET r == read[f]
      at(names) == call[f].pc \in names
  IN  /\ at(ReplayPCs) => r.snap = ring
      /\ at(ReplayPCs \ {"stats"}) => r.produced = nextSeq
      /\ at({"segments", "files", "assemble"}) => r.oldest = First
      /\ at({"files"}) => Partway(r.disk, r.todo, cut)
      /\ at({"assemble"}) =>
           \/ r.disk = <<>> /\ (First = 0 \/ Len(Matching(f, ring)) >= Tail_)
           \/ \E hi \in Nat : First <= hi /\ Span(r.disk, cut[Retain + 1], hi)

Sound(f, cut) ==
  /\ read[f].from <= nextSeq
  /\ call[f].pc \in {"idle", "stats", "oldest", "segments"} => read[f].disk = <<>>
  /\ call[f].pc = "files" => 0 \in read[f].todo
  /\ nextSeq = read[f].from => Gathered(f, cut)

Reads ==
  /\ files \in [Segments -> Seq(Nat)] /\ read \in [Followers -> ReadType]
  /\ Rings
  /\ \E cut \in Cuts : Layout(cut) /\ \A f \in Followers : Sound(f, cut)

\* The files and the buffer after a line has entered them.
LEMMA WriteLays ==
  ASSUME nextSeq \in Nat, files \in [Segments -> Seq(Nat)], NEW cut \in Cuts, Layout(cut),
         Len(buffered) <= BufLines \/ Len(buffered) <= 1,
         WriteFile(nextSeq), nextSeq' = nextSeq + 1
  PROVE  /\ files' \in [Segments -> Seq(Nat)] /\ \E new \in Cuts : Layout(new)'
         /\ Len(buffered') <= BufLines \/ Len(buffered') <= 1
<1> DEFINE n == nextSeq
           whole == files[0] \o buffered
           flushed == [files EXCEPT ![0] = @ \o buffered]
           cut1 == [cut EXCEPT ![0] = n]
<1>1. /\ Retain \in Nat \ {0} /\ 0 \in Segments /\ 1 \in Segments /\ BufLines \in Nat
      /\ 0 \in 0 .. Retain + 1 /\ 1 \in 0 .. Retain + 1
  BY LogsAssumption DEF Segments
<1>2. /\ Span(files[0], cut[1], cut[0]) /\ Span(buffered, cut[0], n)
      /\ \A i \in 0 .. Retain + 1 : cut[i] \in Nat /\ cut[i] <= cut[0]
      /\ cut[0] <= n /\ Len(buffered) \in Nat
  <2>1. Span(files[0], cut[0 + 1], cut[0]) /\ Span(buffered, cut[0], n) BY <1>1 DEF Layout
  <2>2. \A i \in 0 .. Retain + 1 : 0 <= i BY <1>1
  <2>3. cut[0] <= n /\ Len(buffered) \in Nat BY <2>1 DEF Span
  <2> QED BY <1>1, <2>1, <2>2, <2>3 DEF Layout, Cuts
<1>3. Span(whole, cut[1], n) /\ whole \in Seq(Nat)
  <2>1. Span(whole, cut[1], n) BY <1>2, SpanJoin
  <2> QED BY <2>1 DEF Span
<1>4. Len(<<n>>) = 1 /\ Span(<<n>>, n, n + 1) BY OneSpan
<1>5. CASE Len(files[0]) + Len(buffered) >= SegLines
  <2> DEFINE moved == [i \in Segments |-> CASE i = 0 -> <<>>
                                            [] i = 1 -> whole
                                            [] OTHER -> files[i - 1]]
             new == [i \in 0 .. Retain + 1 |-> IF i <= 1 THEN n ELSE cut[i - 1]]
  <2>1. files' = moved /\ buffered' = <<n>> BY <1>5 DEF WriteFile
  <2>2. ASSUME NEW i \in 0 .. Retain + 1 PROVE new[i] \in Nat /\ new[i] <= n
    <3>1. CASE i <= 1 BY <3>1
    <3>2. CASE ~(i <= 1)
      <4>1. i - 1 \in 0 .. Retain + 1 BY <1>1, <3>2
      <4>2. new[i] = cut[i - 1] BY <3>2
      <4>3. cut[i - 1] \in Nat /\ cut[i - 1] <= cut[0] /\ cut[0] \in Nat /\ cut[0] <= n
        BY <1>1, <1>2, <4>1
      <4> QED BY <4>2, <4>3
    <3> QED BY <3>1, <3>2
  <2>3. new \in Cuts BY <2>2 DEF Cuts
  <2>4. ASSUME NEW i \in 0 .. Retain + 1, NEW j \in 0 .. Retain + 1, i <= j
        PROVE  new[j] <= new[i]
    <3>1. CASE i <= 1
      <4>1. new[i] = n BY <3>1
      <4> QED BY <2>2, <4>1
    <3>2. CASE ~(i <= 1)
      <4>1. /\ i - 1 \in 0 .. Retain + 1 /\ j - 1 \in 0 .. Retain + 1 /\ i - 1 <= j - 1
            /\ ~(j <= 1)
        BY <1>1, <2>4, <3>2
      <4>2. new[i] = cut[i - 1] /\ new[j] = cut[j - 1] BY <3>2, <4>1
      <4>3. cut[j - 1] <= cut[i - 1]
        <5> HIDE DEF new
        <5> QED BY <4>1 DEF Layout
      <4> QED BY <4>2, <4>3
    <3> QED BY <3>1, <3>2
  <2>5. ASSUME NEW i \in Segments PROVE Span(moved[i], new[i + 1], new[i])
    <3>1. i \in 0 .. Retain + 1 /\ i + 1 \in 0 .. Retain + 1 BY <1>1 DEF Segments
    <3>2. CASE i = 0
      <4>1. moved[i] = <<>> /\ new[i + 1] = n /\ new[i] = n BY <3>1, <3>2
      <4> QED BY <4>1, NoSpan
    <3>3. CASE i = 1
      <4>1. moved[i] = whole /\ new[i] = n BY <3>1, <3>3
      <4>2. new[i + 1] = cut[1] BY <3>1, <3>3
      <4> QED BY <1>3, <4>1, <4>2
    <3>4. CASE i # 0 /\ i # 1
      <4>1. i - 1 \in Segments /\ ~(i <= 1) /\ ~(i + 1 <= 1) /\ (i - 1) + 1 = i /\ (i + 1) - 1 = i
        BY <1>1, <3>4 DEF Segments
      <4>2. moved[i] = files[i - 1] /\ new[i] = cut[i - 1] /\ new[i + 1] = cut[(i + 1) - 1]
        BY <3>1, <3>4, <4>1
      <4>3. Span(files[i - 1], cut[(i - 1) + 1], cut[i - 1]) BY <4>1 DEF Layout
      <4> QED BY <4>1, <4>2, <4>3
    <3> QED BY <3>2, <3>3, <3>4
  <2>6. ASSUME NEW i \in Segments PROVE moved[i] \in Seq(Nat)
    <3> HIDE DEF moved, new
    <3> QED BY <2>5 DEF Span
  <2>7. moved \in [Segments -> Seq(Nat)] BY <2>6
  <2>8. new[0] = n BY <1>1
  <2> HIDE DEF moved, new
  <2>9. PICK c \in Cuts : c = new BY <2>3
  <2>10. Layout(c)'
    <3>1. Span(buffered', c[0], nextSeq') BY <1>4, <2>1, <2>8, <2>9
    <3> QED BY <2>1, <2>4, <2>5, <2>9, <3>1 DEF Layout
  <2> QED BY <1>4, <2>1, <2>7, <2>10
<1>6. CASE ~(Len(files[0]) + Len(buffered) >= SegLines) /\ Len(buffered) >= BufLines
  <2>1. files' = flushed /\ buffered' = <<n>> BY <1>6 DEF WriteFile
  <2>2. PICK new \in Cuts : new = cut1
    <3>1. cut1 \in Cuts BY <1>1 DEF Cuts
    <3> QED BY <3>1
  <2>3. new[0] = n /\ \A i \in 0 .. Retain + 1 : i # 0 => new[i] = cut[i]
    BY <1>1, <2>2 DEF Cuts
  <2>4. flushed[0] = whole /\ \A i \in Segments : i # 0 => flushed[i] = files[i] BY <1>1
  <2>5. flushed \in [Segments -> Seq(Nat)] BY <1>1, <1>3
  <2> HIDE DEF flushed, whole
  <2>6. ASSUME NEW i \in 0 .. Retain + 1, NEW j \in 0 .. Retain + 1, i <= j
        PROVE  new[j] <= new[i]
    <3>1. CASE j = 0 BY <1>1, <2>3, <2>6, <3>1
    <3>2. CASE j # 0 /\ i = 0 BY <1>2, <2>3, <3>2
    <3>3. CASE j # 0 /\ i # 0 BY <2>3, <2>6, <3>3 DEF Layout
    <3> QED BY <3>1, <3>2, <3>3
  <2>7. ASSUME NEW i \in Segments PROVE Span(flushed[i], new[i + 1], new[i])
    <3>1. i \in 0 .. Retain + 1 /\ i + 1 \in 0 .. Retain + 1 /\ i + 1 # 0
      BY <1>1 DEF Segments
    <3>2. new[i + 1] = cut[i + 1] BY <2>3, <3>1
    <3>3. CASE i = 0 BY <1>3, <2>3, <2>4, <3>2, <3>3
    <3>4. CASE i # 0 BY <2>3, <2>4, <3>1, <3>2, <3>4 DEF Layout
    <3> QED BY <3>3, <3>4
  <2>8. Layout(new)'
    <3>1. Span(buffered', new[0], nextSeq') BY <1>4, <2>1, <2>3
    <3> QED BY <2>1, <2>6, <2>7, <3>1 DEF Layout
  <2> QED BY <1>4, <2>1, <2>5, <2>8
<1>7. CASE ~(Len(files[0]) + Len(buffered) >= SegLines) /\ ~(Len(buffered) >= BufLines)
  <2>1. files' = files /\ buffered' = Append(buffered, n) BY <1>7 DEF WriteFile
  <2>2. Span(buffered', cut[0], n + 1) BY <1>2, <2>1, SpanAppend
  <2>3. Layout(cut)' BY <2>1, <2>2 DEF Layout
  <2>4. Len(buffered') = Len(buffered) + 1
    <3>1. buffered \in Seq(Nat) BY <1>2 DEF Span
    <3> QED BY <2>1, <3>1
  <2>5. Len(buffered') <= BufLines BY <1>1, <1>2, <1>7, <2>4
  <2> QED BY <2>1, <2>3, <2>5
<1> QED BY <1>5, <1>6, <1>7

LEMMA RingTakes ==
  ASSUME Rings, nextSeq \in Nat, AppendLine
  PROVE  Span(ring', First', nextSeq') /\ Len(ring') <= RingLines
         /\ Len(ring') \in {RingLines, nextSeq'}
<1> DEFINE n == nextSeq
<1>1. /\ Span(ring, First, n) /\ ring \in Seq(Nat) /\ Len(ring) \in Nat /\ First \in Nat
      /\ First = n - Len(ring) /\ Len(ring) <= RingLines /\ Len(ring) \in {RingLines, n}
      /\ RingLines \in Nat \ {0} /\ nextSeq' = n + 1
  BY LogsAssumption DEF Rings, Span, First, AppendLine
<1>2. CASE Len(ring) = RingLines
  <2>1. ring' = Append(Tail(ring), n) BY <1>2 DEF AppendLine
  <2>2. First # n BY <1>1, <1>2
  <2>3. Span(ring', First + 1, n + 1) BY <1>1, <2>1, <2>2, SpanTail, SpanAppend
  <2>4. Len(ring') = n + 1 - (First + 1) BY <2>3 DEF Span
  <2>5. Len(ring') = RingLines BY <1>1, <1>2, <2>4
  <2>6. First' = First + 1
    <3>1. First' = nextSeq' - Len(ring') BY DEF First
    <3> QED BY <1>1, <1>2, <2>5, <3>1
  <2> QED BY <1>1, <2>3, <2>5, <2>6
<1>3. CASE Len(ring) # RingLines
  <2>1. ring' = Append(ring, n) BY <1>3 DEF AppendLine
  <2>2. Span(ring', First, n + 1) BY <1>1, <2>1, SpanAppend
  <2>3. Len(ring') = n + 1 - First BY <2>2 DEF Span
  <2>4. Len(ring') = Len(ring) + 1 BY <1>1, <2>3
  <2>5. First' = First
    <3>1. First' = nextSeq' - Len(ring') BY DEF First
    <3> QED BY <1>1, <2>4, <3>1
  <2> QED BY <1>1, <1>3, <2>2, <2>4, <2>5
<1> QED BY <1>2, <1>3

LEMMA AppendReads ==
  ASSUME FollowType, Reads, AppendLine
  PROVE  Reads'
<1>1. nextSeq \in Nat /\ nextSeq' = nextSeq + 1 /\ read' = read /\ call' = call
  BY DEF FollowType, AppendLine
<1>2. PICK cut \in Cuts : Layout(cut) /\ \A f \in Followers : Sound(f, cut) BY DEF Reads
<1>3. /\ files' \in [Segments -> Seq(Nat)] /\ \E new \in Cuts : Layout(new)'
      /\ Len(buffered') <= BufLines \/ Len(buffered') <= 1
  BY <1>1, <1>2, WriteLays DEF Reads, Rings, AppendLine
<1>4. Rings' BY <1>1, <1>3, RingTakes DEF Reads, Rings
<1>5. PICK new \in Cuts : Layout(new)' BY <1>3
<1>6. ASSUME NEW f \in Followers PROVE Sound(f, new)'
  <2>1. read[f].from \in Nat /\ read[f].from <= nextSeq BY <1>2 DEF Sound, Reads, ReadType
  <2>2. read'[f].from <= nextSeq' /\ nextSeq' # read'[f].from BY <1>1, <2>1
  <2>3. /\ call[f].pc \in {"idle", "stats", "oldest", "segments"} => read[f].disk = <<>>
        /\ call[f].pc = "files" => 0 \in read[f].todo
    BY <1>2 DEF Sound
  <2> QED BY <1>1, <2>2, <2>3 DEF Sound
<1>7. read' \in [Followers -> ReadType] BY <1>1 DEF Reads
<1> QED BY <1>3, <1>4, <1>5, <1>6, <1>7 DEF Reads

LEMMA FlushReads ==
  ASSUME FollowType, Reads, files' = [files EXCEPT ![0] = @ \o buffered], buffered' = <<>>,
         UNCHANGED <<nextSeq, ring, call, read>>
  PROVE  Reads'
<1> DEFINE n == nextSeq
<1>1. /\ nextSeq \in Nat /\ Retain \in Nat \ {0} /\ 0 \in Segments /\ 0 \in 0 .. Retain + 1
      /\ files \in [Segments -> Seq(Nat)]
  BY LogsAssumption DEF FollowType, Segments, Reads
<1>2. PICK cut \in Cuts : Layout(cut) /\ \A f \in Followers : Sound(f, cut) BY DEF Reads
<1>3. /\ Span(files[0], cut[1], cut[0]) /\ Span(buffered, cut[0], n)
      /\ \A i \in 0 .. Retain + 1 : cut[i] \in Nat /\ cut[i] <= cut[0]
      /\ cut[0] <= n
  <2>1. Span(files[0], cut[0 + 1], cut[0]) /\ Span(buffered, cut[0], n) BY <1>1, <1>2 DEF Layout
  <2>2. \A i \in 0 .. Retain + 1 : 0 <= i BY <1>1
  <2>3. cut[0] <= n BY <2>1 DEF Span
  <2> QED BY <1>1, <1>2, <2>1, <2>2, <2>3 DEF Layout, Cuts
<1>4. Span(files[0] \o buffered, cut[1], n) BY <1>3, SpanJoin
<1>5. PICK new \in Cuts : new = [cut EXCEPT ![0] = n]
  <2>1. [cut EXCEPT ![0] = n] \in Cuts BY <1>1 DEF Cuts
  <2> QED BY <2>1
<1>6. new[0] = n /\ \A i \in 0 .. Retain + 1 : i # 0 => new[i] = cut[i]
  BY <1>1, <1>5 DEF Cuts
<1>7. /\ files'[0] = files[0] \o buffered /\ \A i \in Segments : i # 0 => files'[i] = files[i]
      /\ files' \in [Segments -> Seq(Nat)]
  <2>1. files[0] \o buffered \in Seq(Nat) BY <1>4 DEF Span
  <2> QED BY <1>1, <2>1
<1>8. Layout(new)'
  <2>1. ASSUME NEW i \in 0 .. Retain + 1, NEW j \in 0 .. Retain + 1, i <= j
        PROVE  new[j] <= new[i]
    <3>1. CASE j = 0 BY <1>1, <1>6, <2>1, <3>1
    <3>2. CASE j # 0 /\ i = 0 BY <1>1, <1>3, <1>6, <3>2
    <3>3. CASE j # 0 /\ i # 0 BY <1>2, <1>6, <2>1, <3>3 DEF Layout
    <3> QED BY <3>1, <3>2, <3>3
  <2>2. ASSUME NEW i \in Segments PROVE Span(files'[i], new[i + 1], new[i])
    <3>1. i \in 0 .. Retain + 1 /\ i + 1 \in 0 .. Retain + 1 /\ i + 1 # 0
      BY <1>1 DEF Segments
    <3>2. new[i + 1] = cut[i + 1] BY <1>6, <3>1
    <3>3. CASE i = 0 BY <1>4, <1>6, <1>7, <3>2, <3>3
    <3>4. CASE i # 0 BY <1>2, <1>6, <1>7, <3>1, <3>2, <3>4 DEF Layout
    <3> QED BY <3>3, <3>4
  <2>3. Span(buffered', new[0], nextSeq') BY <1>1, <1>6, NoSpan
  <2> QED BY <2>1, <2>2, <2>3 DEF Layout
<1>9. Rings'
  <2>1. Len(buffered') = 0 OBVIOUS
  <2>2. First' = First BY DEF First
  <2> QED BY <2>1, <2>2 DEF Reads, Rings
<1>10. ASSUME NEW f \in Followers PROVE Sound(f, new)'
  <2>1. Sound(f, cut) BY <1>2
  <2>2. ASSUME nextSeq' = read'[f].from PROVE Gathered(f, new)'
    <3>1. Gathered(f, cut) BY <2>1, <2>2 DEF Sound
    <3>2. new[Retain + 1] = cut[Retain + 1]
      <4>1. Retain + 1 \in 0 .. Retain + 1 /\ Retain + 1 # 0 BY <1>1
      <4> QED BY <1>6, <4>1
    <3>3. ASSUME Partway(read[f].disk, read[f].todo, cut)
          PROVE  Partway(read[f].disk, read[f].todo, new)
      <4>1. read[f].todo \subseteq Segments BY DEF Reads, ReadType
      <4>2. \A i \in Segments : i + 1 \in 0 .. Retain + 1 /\ i + 1 # 0 /\ i \in 0 .. Retain + 1
        BY <1>1 DEF Segments
      <4>3. \A i \in Segments : new[i + 1] = cut[i + 1] BY <1>6, <4>2
      <4>4. \A j \in Segments \ read[f].todo : new[j] = cut[j]
        <5>1. 0 \in read[f].todo BY <3>3 DEF Partway
        <5> QED BY <1>6, <4>2, <5>1
      <4> QED BY <3>2, <3>3, <4>1, <4>3, <4>4 DEF Partway
    <3>4. First' = First BY DEF First
    <3> QED BY <3>1, <3>2, <3>3, <3>4 DEF Gathered
  <2> QED BY <2>1, <2>2 DEF Sound
<1> QED BY <1>7, <1>8, <1>9, <1>10 DEF Reads

\* Cuts of which each is the next one are all the same.
LEMMA FlatCuts ==
  ASSUME NEW cut \in Cuts, NEW a \in 0 .. Retain + 1, NEW b \in 0 .. Retain + 1, a <= b,
         \A j \in Segments : a <= j /\ j < b => cut[j] = cut[j + 1]
  PROVE  cut[a] = cut[b]
<1> DEFINE Bad == {k \in a .. b : cut[k] # cut[a]}
<1> SUFFICES ASSUME Bad # {} PROVE FALSE OBVIOUS
<1>1. Bad \in SUBSET Nat /\ Retain \in Nat BY LogsAssumption
<1>2. PICK k \in Bad : \A i \in Bad : k <= i
  <2> HIDE DEF Bad
  <2> QED BY <1>1, LeastNatural
<1>3. k # a /\ k \in a .. b BY <1>2
<1>4. /\ k - 1 \in a .. b /\ k - 1 \notin Bad /\ k - 1 \in Segments
      /\ a <= k - 1 /\ k - 1 < b /\ (k - 1) + 1 = k
  BY <1>1, <1>2, <1>3 DEF Segments
<1>5. cut[k - 1] = cut[k] /\ cut[k - 1] = cut[a] BY <1>4
<1> QED BY <1>2, <1>5

LEMMA Greatest ==
  ASSUME NEW T \in SUBSET Segments, T # {}
  PROVE  \E m \in T : \A k \in T : k <= m
<1>1. Retain \in Nat BY LogsAssumption
<1> DEFINE D == {Retain - k : k \in T}
<1>2. D \in SUBSET Nat /\ D # {}
  <2>1. \A k \in T : Retain - k \in Nat BY <1>1 DEF Segments
  <2> QED BY <2>1
<1>3. PICK d \in D : \A k \in D : d <= k
  <2> HIDE DEF D
  <2> QED BY <1>2, LeastNatural
<1>4. PICK m \in T : d = Retain - m BY <1>3
<1>5. ASSUME NEW k \in T PROVE k <= m
  <2>1. d <= Retain - k BY <1>3
  <2> QED BY <1>1, <1>4, <2>1 DEF Segments
<1> QED BY <1>5

\* Only names without lines are left off the list: when nothing has been read
\* yet, nothing lies above the first of the names.
LEMMA ListedPartway ==
  ASSUME NEW cut \in Cuts, Layout(cut), NEW disk, disk = <<>>
  PROVE  Partway(disk, {i \in Segments : i = 0 \/ files[i] # <<>>}, cut)
<1> DEFINE todo == {i \in Segments : i = 0 \/ files[i] # <<>>}
<1>1. Retain \in Nat /\ 0 \in Segments BY LogsAssumption DEF Segments
<1>2. ASSUME NEW j \in Segments \ todo PROVE cut[j] = cut[j + 1]
  <2>1. Span(files[j], cut[j + 1], cut[j]) /\ files[j] = <<>> BY DEF Layout
  <2>2. Len(files[j]) = 0 BY <2>1
  <2> QED BY <2>1, <2>2 DEF Span
<1>3. ASSUME NEW i \in todo, \A k \in todo : k <= i
      PROVE  Span(disk, cut[Retain + 1], cut[i + 1])
  <2>1. i + 1 \in 0 .. Retain + 1 /\ Retain + 1 \in 0 .. Retain + 1 /\ i + 1 <= Retain + 1
        /\ i \in Nat
    BY <1>1 DEF Segments
  <2>2. \A j \in Segments : i + 1 <= j => j \notin todo
    <3> SUFFICES ASSUME NEW j \in Segments, i + 1 <= j, j \in todo PROVE FALSE OBVIOUS
    <3>1. j <= i BY <1>3
    <3> QED BY <2>1, <3>1 DEF Segments
  <2>3. cut[i + 1] = cut[Retain + 1]
    <3> HIDE DEF todo
    <3> QED BY <1>2, <2>1, <2>2, FlatCuts
  <2>4. cut[i + 1] \in Nat BY <2>1 DEF Cuts
  <2> QED BY <2>3, <2>4, NoSpan
<1>4. 0 \in todo BY <1>1
<1> HIDE DEF todo
<1>5. Partway(disk, todo, cut) BY <1>2, <1>3, <1>4 DEF Partway
<1> QED BY <1>5 DEF todo

\* The next name is read: its lines follow those read before.
LEMMA ReadPartway ==
  ASSUME NEW cut \in Cuts, Layout(cut), NEW disk, NEW todo \in SUBSET Segments,
         Partway(disk, todo, cut), NEW i \in todo, \A k \in todo : k <= i
  PROVE  /\ Span(disk \o files[i], cut[Retain + 1], cut[i])
         /\ todo = {i} => i = 0
         /\ todo # {i} => Partway(disk \o files[i], todo \ {i}, cut)
<1>1. Retain \in Nat /\ 0 \in todo /\ i \in Segments BY LogsAssumption DEF Partway
<1>2. Span(disk, cut[Retain + 1], cut[i + 1]) /\ Span(files[i], cut[i + 1], cut[i])
  BY <1>1 DEF Partway, Layout
<1>3. Span(disk \o files[i], cut[Retain + 1], cut[i]) BY <1>2, SpanJoin
<1>4. todo = {i} => i = 0 BY <1>1
<1>5. ASSUME todo # {i} PROVE Partway(disk \o files[i], todo \ {i}, cut)
  <2>1. i # 0
    <3> SUFFICES ASSUME i = 0 PROVE FALSE OBVIOUS
    <3>1. \A k \in todo : k = 0 BY <1>1 DEF Segments
    <3> QED BY <1>1, <1>5, <3>1
  <2>2. ASSUME NEW j \in todo \ {i}
        PROVE  /\ j < i /\ \A k \in Segments \ (todo \ {i}) : k < j => cut[k] = cut[k + 1]
    <3>1. j < i
      <4>1. j <= i /\ j # i /\ j \in Segments OBVIOUS
      <4> QED BY <1>1, <4>1 DEF Segments
    <3>2. ASSUME NEW k \in Segments \ (todo \ {i}), k < j PROVE cut[k] = cut[k + 1]
      <4>1. k # i BY <1>1, <3>1, <3>2 DEF Segments
      <4>2. k \in Segments \ todo BY <4>1
      <4> QED BY <3>2, <4>2 DEF Partway
    <3> QED BY <3>1, <3>2
  <2>3. ASSUME NEW j \in todo \ {i}, \A k \in todo \ {i} : k <= j
        PROVE  Span(disk \o files[i], cut[Retain + 1], cut[j + 1])
    <3>1. j < i /\ j \in Segments BY <2>2
    <3>2. j + 1 \in 0 .. Retain + 1 /\ i \in 0 .. Retain + 1 /\ j + 1 <= i
      BY <1>1, <3>1 DEF Segments
    <3>3. ASSUME NEW k \in Segments, j + 1 <= k, k < i PROVE cut[k] = cut[k + 1]
      <4>1. k \notin todo
        <5> SUFFICES ASSUME k \in todo PROVE FALSE OBVIOUS
        <5>1. k # i BY <1>1, <3>3 DEF Segments
        <5>2. k <= j BY <2>3, <5>1
        <5> QED BY <3>1, <3>3, <5>2 DEF Segments
      <4> QED BY <3>3, <4>1 DEF Partway
    <3>4. cut[j + 1] = cut[i] BY <3>2, <3>3, FlatCuts
    <3> QED BY <1>3, <3>4
  <2> QED BY <1>1, <2>1, <2>2, <2>3 DEF Partway
<1> QED BY <1>3, <1>4, <1>5

\* A step that leaves a call and the lines alone leaves what the call gathered.
LEMMA SameSound ==
  ASSUME NEW f \in Followers, NEW cut \in Cuts, Sound(f, cut),
         UNCHANGED <<nextSeq, ring>>, call'[f] = call[f], read'[f] = read[f]
  PROVE  Sound(f, cut)'
<1>1. First' = First BY DEF First
<1>2. Partway(read[f].disk, read[f].todo, cut)' <=> Partway(read[f].disk, read[f].todo, cut)
  BY DEF Partway
<1>3. Matching(f, ring)' = Matching(f, ring) OBVIOUS
<1>4. Gathered(f, cut) => Gathered(f, cut)' BY <1>1, <1>2, <1>3 DEF Gathered
<1> QED BY <1>4 DEF Sound

\* A call past its replay holds nothing that must stay true.
LEMMA PastSound ==
  ASSUME NEW f \in Followers, NEW cut \in Cuts, read'[f].from <= nextSeq',
         call'[f].pc \in {"top", "select", "drain", "summary", "done"}
  PROVE  Sound(f, cut)'
BY DEF Sound, Gathered, ReplayPCs

\* What each step of a replay gathers.
LEMMA SnapshotSound ==
  ASSUME FollowType, Reads, NEW f \in Followers, NEW cut \in Cuts, Sound(f, cut),
         NEW follow \in BOOLEAN, Snapshot(f, follow)
  PROVE  Sound(f, cut)'
<1>1. /\ call[f].pc = "idle" /\ call'[f].pc = "stats"
      /\ read'[f] = [[read[f] EXCEPT !.snap = ring] EXCEPT !.from = nextSeq]
      /\ nextSeq' = nextSeq /\ ring' = ring /\ nextSeq \in Nat
  BY DEF Snapshot, FollowType, Reads, ReadType, Idle, bufVars
<1>2. read[f] \in ReadType BY DEF Reads
<1>3. read[f].disk = <<>> BY <1>1 DEF Sound
<1>4. read'[f].snap = ring /\ read'[f].from = nextSeq /\ read'[f].disk = <<>>
  BY <1>1, <1>2, <1>3 DEF ReadType
<1> QED BY <1>1, <1>4 DEF Sound, Gathered, ReplayPCs

LEMMA StatsSound ==
  ASSUME FollowType, Reads, NEW f \in Followers, NEW cut \in Cuts, Sound(f, cut), Stats(f)
  PROVE  Sound(f, cut)'
<1>1. /\ call[f].pc = "stats" /\ call'[f].pc = "oldest"
      /\ read'[f] = [read[f] EXCEPT !.produced = nextSeq]
      /\ nextSeq' = nextSeq /\ ring' = ring
  BY DEF Stats, Reading, GoOn, FollowType, Reads, bufVars
<1>2. read[f] \in ReadType BY DEF Reads
<1>3. /\ read'[f].snap = read[f].snap /\ read'[f].from = read[f].from
      /\ read'[f].disk = read[f].disk /\ read'[f].produced = nextSeq
  BY <1>1, <1>2 DEF ReadType
<1> QED BY <1>1, <1>3 DEF Sound, Gathered, ReplayPCs

LEMMA OldestSound ==
  ASSUME FollowType, Reads, NEW f \in Followers, NEW cut \in Cuts, Sound(f, cut), Oldest(f)
  PROVE  Sound(f, cut)'
<1> DEFINE oldest == IF ring = <<>> THEN read[f].produced ELSE Head(ring)
           short  == Len(Matching(f, read[f].snap)) < Tail_
<1>1. /\ call[f].pc = "oldest"
      /\ call'[f].pc = IF oldest > 0 /\ short THEN "segments" ELSE "assemble"
      /\ read'[f] = [read[f] EXCEPT !.oldest = oldest]
      /\ nextSeq' = nextSeq /\ ring' = ring /\ nextSeq \in Nat
  BY DEF Oldest, Reading, GoOn, FollowType, Reads, bufVars
<1>2. read[f] \in ReadType BY DEF Reads
<1>3. /\ read'[f].snap = read[f].snap /\ read'[f].from = read[f].from
      /\ read'[f].disk = read[f].disk /\ read'[f].produced = read[f].produced
      /\ read'[f].oldest = oldest
  BY <1>1, <1>2 DEF ReadType
<1>4. read[f].disk = <<>> /\ read[f].from <= nextSeq BY <1>1 DEF Sound
<1>5. ASSUME nextSeq = read[f].from
      PROVE  /\ read[f].snap = ring /\ read[f].produced = nextSeq /\ oldest = First
             /\ call'[f].pc = "assemble" => First = 0 \/ Len(Matching(f, ring)) >= Tail_
  <2>1. read[f].snap = ring /\ read[f].produced = nextSeq
    BY <1>1, <1>5 DEF Sound, Gathered, ReplayPCs
  <2>2. /\ First \in Nat /\ ring \in Seq(Nat) /\ Len(ring) = nextSeq - First
        /\ \A k \in 1 .. Len(ring) : ring[k] = First + k - 1
    BY DEF Reads, Rings, Span
  <2>3. oldest = First
    <3>1. CASE ring = <<>>
      <4>1. Len(ring) = 0 BY <3>1
      <4> QED BY <1>1, <2>1, <2>2, <3>1, <4>1
    <3>2. CASE ring # <<>>
      <4>1. 1 \in 1 .. Len(ring) /\ Head(ring) = ring[1] BY <2>2, <3>2
      <4> QED BY <2>2, <3>2, <4>1
    <3> QED BY <3>1, <3>2
  <2>4. Len(Matching(f, ring)) \in Nat
    <3>1. Sift(ring, Filter[f]) \in Seq(Nat) BY <2>2, Sifted
    <3> QED BY <3>1 DEF Matching
  <2>5. Tail_ \in Nat BY LogsAssumption
  <2> HIDE DEF oldest
  <2>6. ASSUME call'[f].pc = "assemble" PROVE First = 0 \/ Len(Matching(f, ring)) >= Tail_
    <3>1. ~(oldest > 0) \/ ~short BY <1>1, <2>6
    <3>2. CASE ~(oldest > 0) BY <2>2, <2>3, <3>2
    <3>3. CASE ~short BY <2>1, <2>4, <2>5, <3>3
    <3> QED BY <3>1, <3>2, <3>3
  <2> QED BY <2>1, <2>3, <2>6
<1>6. call'[f].pc \in {"segments", "assemble"} BY <1>1
<1>7. First' = First BY <1>1 DEF First
<1> HIDE DEF oldest, short
<1>8. (nextSeq = read[f].from) => Gathered(f, cut)'
  <2> SUFFICES ASSUME nextSeq = read[f].from PROVE Gathered(f, cut)' OBVIOUS
  <2>1. /\ read'[f].snap = ring' /\ read'[f].produced = nextSeq' /\ read'[f].oldest = First'
        /\ read'[f].disk = <<>>
    BY <1>1, <1>3, <1>4, <1>5, <1>7
  <2>2. Matching(f, ring)' = Matching(f, ring) BY <1>1
  <2> QED BY <1>1, <1>5, <1>6, <1>7, <2>1, <2>2 DEF Gathered
<1> QED BY <1>1, <1>3, <1>4, <1>6, <1>8 DEF Sound

LEMMA ListSound ==
  ASSUME FollowType, Reads, NEW f \in Followers, NEW cut \in Cuts, Layout(cut), Sound(f, cut),
         ListSegments(f)
  PROVE  Sound(f, cut)'
<1> DEFINE listed == {i \in Segments : i = 0 \/ files[i] # <<>>}
<1>1. /\ call[f].pc = "segments" /\ call'[f].pc = "files"
      /\ read'[f] = [read[f] EXCEPT !.todo = listed]
      /\ nextSeq' = nextSeq /\ ring' = ring
  BY DEF ListSegments, Reading, GoOn, FollowType, Reads, bufVars
<1>2. read[f] \in ReadType BY DEF Reads
<1>3. /\ read'[f].snap = read[f].snap /\ read'[f].from = read[f].from
      /\ read'[f].disk = read[f].disk /\ read'[f].produced = read[f].produced
      /\ read'[f].oldest = read[f].oldest /\ read'[f].todo = listed
  BY <1>1, <1>2 DEF ReadType
<1>4. read[f].disk = <<>> /\ read[f].from <= nextSeq BY <1>1 DEF Sound
<1>5. Partway(read[f].disk, listed, cut) /\ 0 \in listed BY <1>4, ListedPartway DEF Partway
<1> HIDE DEF listed
<1>6. First' = First BY <1>1 DEF First
<1>7. ASSUME nextSeq = read[f].from PROVE Gathered(f, cut)'
  <2>1. read[f].snap = ring /\ read[f].produced = nextSeq /\ read[f].oldest = First
    BY <1>1, <1>7 DEF Sound, Gathered, ReplayPCs
  <2>2. Partway(read'[f].disk, read'[f].todo, cut) BY <1>3, <1>5
  <2> QED BY <1>1, <1>3, <1>6, <2>1, <2>2 DEF Gathered
<1> QED BY <1>1, <1>3, <1>4, <1>5, <1>7 DEF Sound

LEMMA ReadSound ==
  ASSUME BufLines <= RingLines,
         FollowType, Reads, NEW f \in Followers, NEW cut \in Cuts, Layout(cut), Sound(f, cut),
         ReadFile(f)
  PROVE  Sound(f, cut)'
<1> DEFINE todo == read[f].todo
           i == CHOOSE j \in todo : \A k \in todo : k <= j
<1>1. /\ call[f].pc = "files" /\ call'[f].pc = IF todo = {i} THEN "assemble" ELSE "files"
      /\ read'[f] = [[read[f] EXCEPT !.todo = @ \ {i}] EXCEPT !.disk = @ \o files[i]]
      /\ nextSeq' = nextSeq /\ ring' = ring
  BY DEF ReadFile, Reading, GoOn, FollowType, Reads, bufVars
<1>2. read[f] \in ReadType BY DEF Reads
<1> HIDE DEF i
<1>3. /\ read'[f].snap = read[f].snap /\ read'[f].from = read[f].from
      /\ read'[f].disk = read[f].disk \o files[i] /\ read'[f].produced = read[f].produced
      /\ read'[f].oldest = read[f].oldest /\ read'[f].todo = todo \ {i}
  BY <1>1, <1>2 DEF ReadType
<1>4. read[f].from <= nextSeq /\ 0 \in todo BY <1>1 DEF Sound
<1>5. First' = First BY <1>1 DEF First
<1>6. ASSUME nextSeq = read[f].from PROVE Gathered(f, cut)'
  <2>1. /\ read[f].snap = ring /\ read[f].produced = nextSeq /\ read[f].oldest = First
        /\ Partway(read[f].disk, todo, cut)
    BY <1>1, <1>6 DEF Sound, Gathered, ReplayPCs
  <2>2. todo \in SUBSET Segments BY <1>2 DEF ReadType
  <2> HIDE DEF todo
  <2>3. i \in todo /\ \A k \in todo : k <= i BY <1>4, <2>2, Greatest DEF i
  <2>4. /\ Span(read[f].disk \o files[i], cut[Retain + 1], cut[i])
        /\ todo = {i} => i = 0
        /\ todo # {i} => Partway(read[f].disk \o files[i], todo \ {i}, cut)
    BY <2>1, <2>2, <2>3, ReadPartway
  <2>5. CASE todo = {i}
    <3>1. Span(read'[f].disk, cut[Retain + 1], cut[0]) BY <1>3, <2>4, <2>5
    <3>2. First <= cut[0] /\ cut[0] \in Nat
      <4>1. /\ Len(ring) = nextSeq - First /\ First \in Nat /\ nextSeq \in Nat
            /\ Len(ring) \in {RingLines, nextSeq}
            /\ Len(buffered) <= BufLines \/ Len(buffered) <= 1
        BY DEF Reads, Rings, Span
      <4>2. Len(buffered) = nextSeq - cut[0] /\ cut[0] \in Nat /\ cut[0] <= nextSeq
        BY DEF Layout, Span
      <4>3. RingLines \in Nat \ {0} /\ BufLines \in Nat BY LogsAssumption
      <4> QED BY <4>1, <4>2, <4>3
    <3>3. call'[f].pc = "assemble" BY <1>1, <2>5
    <3> QED BY <1>1, <1>3, <1>5, <2>1, <3>1, <3>2, <3>3 DEF Gathered
  <2>6. CASE todo # {i}
    <3>1. call'[f].pc = "files" BY <1>1, <2>6
    <3>2. Partway(read'[f].disk, read'[f].todo, cut) BY <1>3, <2>4, <2>6
    <3> QED BY <1>1, <1>3, <1>5, <2>1, <3>1, <3>2 DEF Gathered
  <2> QED BY <2>5, <2>6
<1>7. call'[f].pc \in {"files", "assemble"} BY <1>1
<1>8. call'[f].pc = "files" => 0 \in read'[f].todo
  <2> SUFFICES ASSUME todo # {i} PROVE i # 0 BY <1>1, <1>3, <1>4
  <2> SUFFICES ASSUME i = 0 PROVE FALSE OBVIOUS
  <2>1. todo \in SUBSET Segments /\ Retain \in Nat BY <1>2, LogsAssumption DEF ReadType
  <2> HIDE DEF todo
  <2>2. i \in todo /\ \A k \in todo : k <= i BY <1>4, <2>1, Greatest DEF i
  <2>3. \A k \in todo : k = 0 BY <2>1, <2>2 DEF Segments
  <2> QED BY <1>4, <2>2, <2>3
<1> QED BY <1>1, <1>3, <1>4, <1>6, <1>7, <1>8 DEF Sound

LEMMA LastTyped ==
  ASSUME NEW s \in Seq(Nat), NEW k \in Nat \ {0}
  PROVE  /\ LastOf(s, k) \in Seq(Nat)
         /\ Len(LastOf(s, k)) = IF Len(s) > k THEN k ELSE Len(s)
         /\ \A i \in 1 .. Len(LastOf(s, k)) : LastOf(s, k)[i] = s[Len(s) - Len(LastOf(s, k)) + i]
<1> DEFINE m == IF Len(s) > k THEN Len(s) - k + 1 ELSE 1
<1>1. m \in Nat \ {0} /\ m <= Len(s) + 1 /\ Len(s) \in Nat OBVIOUS
<1>2. LastOf(s, k) = SubSeq(s, m, Len(s)) BY DEF LastOf
<1>3. Len(s) - m + 1 = IF Len(s) > k THEN k ELSE Len(s) BY <1>1
<1> HIDE DEF m
<1>4. /\ SubSeq(s, m, Len(s)) \in Seq(Nat) /\ Len(SubSeq(s, m, Len(s))) = Len(s) - m + 1
      /\ \A i \in 1 .. Len(s) - m + 1 : SubSeq(s, m, Len(s))[i] = s[m + i - 1]
  BY <1>1
<1>5. \A i \in 1 .. Len(s) - m + 1 : m + i - 1 = Len(s) - (Len(s) - m + 1) + i BY <1>1
<1> QED BY <1>2, <1>3, <1>4, <1>5

\* The last lines of an increasing sequence, and where the others lie.
LEMMA LastLines ==
  ASSUME NEW s \in Seq(Nat), Increasing(s), NEW k \in Nat \ {0}
  PROVE  LET t == LastOf(s, k)
         IN  /\ Increasing(t) /\ Elements(t) \subseteq Elements(s)
             /\ \A n \in Elements(s) \ Elements(t) : Len(t) = k /\ n < t[1]
<1> DEFINE t == LastOf(s, k)
           d == Len(s) - Len(t)
<1>1. /\ t \in Seq(Nat) /\ Len(t) = IF Len(s) > k THEN k ELSE Len(s)
      /\ \A i \in 1 .. Len(t) : t[i] = s[d + i]
  BY LastTyped
<1> HIDE DEF t
<1>2. Len(t) \in Nat /\ Len(s) \in Nat /\ d \in Nat BY <1>1
<1>3. \A i \in 1 .. Len(t) : d + i \in 1 .. Len(s) BY <1>2
<1>4. Increasing(t)
  <2> SUFFICES ASSUME NEW i \in 1 .. Len(t), NEW j \in 1 .. Len(t), i < j PROVE t[i] < t[j]
    BY DEF Increasing
  <2>1. d + i \in 1 .. Len(s) /\ d + j \in 1 .. Len(s) /\ d + i < d + j BY <1>2, <1>3
  <2>2. s[d + i] < s[d + j]
    <3> HIDE DEF d
    <3> QED BY <2>1 DEF Increasing
  <2> QED BY <1>1, <2>2
<1>5. Elements(t) \subseteq Elements(s)
  <2> HIDE DEF d
  <2> QED BY <1>1, <1>3 DEF Elements
<1>6. ASSUME NEW n \in Elements(s) \ Elements(t) PROVE Len(t) = k /\ n < t[1]
  <2>1. PICK j \in 1 .. Len(s) : n = s[j] BY DEF Elements
  <2>2. j <= d
    <3> SUFFICES ASSUME j > d PROVE FALSE BY <1>2
    <3>1. j - d \in 1 .. Len(t) /\ d + (j - d) = j BY <1>2
    <3>2. t[j - d] = n BY <1>1, <2>1, <3>1
    <3> QED BY <3>1, <3>2 DEF Elements
  <2>3. Len(t) = k /\ d + 1 \in 1 .. Len(s) /\ 1 \in 1 .. Len(t) BY <1>1, <1>2, <2>2
  <2>4. s[j] < s[d + 1]
    <3>1. j < d + 1 BY <1>2, <2>2
    <3> HIDE DEF d
    <3> QED BY <2>3, <3>1 DEF Increasing
  <2> QED BY <1>1, <2>1, <2>3, <2>4
<1> QED BY <1>4, <1>5, <1>6 DEF t

LEMMA AssembleTyped ==
  ASSUME Reads, NEW f \in Followers, Assemble(f)
  PROVE  read' \in [Followers -> ReadType] /\ read'[f].from = 0
<1> DEFINE r       == read[f]
           older   == Below(r.disk, r.oldest)
           lines   == LastOf(Matching(f, older \o r.snap), Tail_)
           oldest  == IF older = <<>> THEN r.oldest ELSE Head(older)
           window  == IF r.produced > Tail_ THEN r.produced - Tail_ ELSE 0
           missing == IF Len(lines) < Tail_ /\ oldest > window THEN oldest - window ELSE 0
           next    == [Unread EXCEPT !.lines = lines, !.shortfall = missing]
<1>1. r \in ReadType /\ Tail_ \in Nat \ {0} BY LogsAssumption DEF Reads
<1>2. older \in Seq(Nat) BY <1>1, Sifted DEF ReadType, Below
<1>3. lines \in Seq(Nat)
  <2> HIDE DEF older
  <2>1. older \o r.snap \in Seq(Nat) BY <1>1, <1>2 DEF ReadType
  <2>2. Matching(f, older \o r.snap) \in Seq(Nat) BY <2>1, Sifted DEF Matching
  <2> QED BY <1>1, <2>2, LastTyped
<1>4. oldest \in Nat
  <2> HIDE DEF older
  <2> QED BY <1>1, <1>2 DEF ReadType
<1>5. missing \in Nat
  <2>1. Len(lines) \in Nat
    <3> HIDE DEF lines
    <3> QED BY <1>3
  <2> HIDE DEF lines, oldest
  <2> QED BY <1>1, <1>4, <2>1 DEF ReadType
<1>6. read' = [read EXCEPT ![f] = next] BY DEF Assemble
<1> HIDE DEF lines, missing
<1>7. next \in ReadType /\ next.from = 0
  <2>1. <<>> \in Seq(Nat) /\ {} \in SUBSET Segments OBVIOUS
  <2> QED BY <1>3, <1>5, <2>1 DEF Unread, ReadType
<1> HIDE DEF next
<1> QED BY <1>6, <1>7 DEF Reads

\* A call in its replay changes nothing but what it has gathered.
LEMMA ReplayReads ==
  ASSUME BufLines <= RingLines,
         FollowType, Reads, NEW f \in Followers,
         \/ \E follow \in BOOLEAN : Snapshot(f, follow)
         \/ Stats(f) \/ Oldest(f) \/ ListSegments(f) \/ ReadFile(f) \/ Assemble(f)
  PROVE  Reads'
<1>1. PICK cut \in Cuts : Layout(cut) /\ \A g \in Followers : Sound(g, cut) BY DEF Reads
<1>2. UNCHANGED <<nextSeq, ring, files, buffered>>
  <2>1. CASE \E follow \in BOOLEAN : Snapshot(f, follow) BY <2>1 DEF Snapshot, bufVars
  <2>2. CASE Stats(f) \/ Oldest(f) \/ ListSegments(f) \/ ReadFile(f) \/ Assemble(f)
    <3>1. PICK from \in PCs, to \in PCs : Reading(f, from, to)
      BY <2>2 DEF Stats, Oldest, ListSegments, ReadFile, Assemble, PCs
    <3> QED BY <3>1 DEF Reading, bufVars
  <2> QED BY <2>1, <2>2
<1>3. ASSUME NEW g \in Followers \ {f} PROVE call'[g] = call[g] /\ read'[g] = read[g]
  <2>1. CASE \E follow \in BOOLEAN : Snapshot(f, follow)
    BY <2>1 DEF Snapshot, FollowType, Reads
  <2>2. CASE Stats(f) \/ Oldest(f) \/ ListSegments(f) \/ ReadFile(f) \/ Assemble(f)
    <3>1. read'[g] = read[g]
      BY <2>2 DEF Stats, Oldest, ListSegments, ReadFile, Assemble, Reads
    <3>2. PICK from \in PCs, to \in PCs : Reading(f, from, to)
      BY <2>2 DEF Stats, Oldest, ListSegments, ReadFile, Assemble, PCs
    <3> QED BY <3>1, <3>2 DEF Reading, GoOn, FollowType
  <2> QED BY <2>1, <2>2
<1>4. read' \in [Followers -> ReadType] /\ Sound(f, cut)'
  <2>1. CASE \E follow \in BOOLEAN : Snapshot(f, follow)
    <3>1. PICK follow \in BOOLEAN : Snapshot(f, follow) BY <2>1
    <3>2. Sound(f, cut)' BY <1>1, <3>1, SnapshotSound
    <3>3. ring \in Seq(Nat) /\ nextSeq \in Nat BY DEF Reads, Rings, Span, FollowType
    <3>4. read' = [read EXCEPT ![f].snap = ring, ![f].from = nextSeq] BY <3>1 DEF Snapshot
    <3>5. read' \in [Followers -> ReadType] BY <3>3, <3>4 DEF Reads, ReadType
    <3> QED BY <3>2, <3>5
  <2>2. CASE Stats(f)
    <3>1. Sound(f, cut)' BY <1>1, <2>2, StatsSound
    <3> QED BY <2>2, <3>1 DEF Stats, Reads, ReadType, FollowType
  <2>3. CASE Oldest(f)
    <3>1. Sound(f, cut)' BY <1>1, <2>3, OldestSound
    <3>2. read[f].produced \in Nat /\ ring \in Seq(Nat) BY DEF Reads, ReadType, Rings, Span
    <3>3. PICK o \in Nat : read' = [read EXCEPT ![f].oldest = o]
      <4>1. (IF ring = <<>> THEN read[f].produced ELSE Head(ring)) \in Nat BY <3>2
      <4> QED BY <2>3, <4>1 DEF Oldest
    <3> QED BY <3>1, <3>3 DEF Reads, ReadType
  <2>4. CASE ListSegments(f)
    <3>1. Sound(f, cut)' BY <1>1, <2>4, ListSound
    <3> QED BY <2>4, <3>1 DEF ListSegments, Reads, ReadType
  <2>5. CASE ReadFile(f)
    <3>1. Sound(f, cut)' BY <1>1, <2>5, ReadSound
    <3>2. PICK i : /\ i = CHOOSE j \in read[f].todo : \A k \in read[f].todo : k <= j
                   /\ read' = [read EXCEPT ![f].todo = @ \ {i}, ![f].disk = @ \o files[i]]
      BY <2>5 DEF ReadFile
    <3>3. 0 \in read[f].todo /\ read[f] \in ReadType
      BY <1>1, <2>5 DEF ReadFile, Reading, GoOn, Sound, Reads
    <3>4. i \in read[f].todo /\ read[f].todo \in SUBSET Segments
      <4>1. read[f].todo \in SUBSET Segments BY <3>3 DEF ReadType
      <4> QED BY <3>2, <3>3, <4>1, Greatest
    <3>5. files[i] \in Seq(Nat) /\ read[f].disk \in Seq(Nat) BY <3>3, <3>4 DEF Reads, ReadType
    <3>6. read[f].disk \o files[i] \in Seq(Nat) BY <3>5
    <3>7. read[f].todo \ {i} \in SUBSET Segments BY <3>4
    <3>8. read' \in [Followers -> ReadType] BY <3>2, <3>6, <3>7 DEF Reads, ReadType
    <3> QED BY <3>1, <3>8
  <2>6. CASE Assemble(f)
    <3>1. read' \in [Followers -> ReadType] /\ read'[f].from = 0 BY <2>6, AssembleTyped
    <3>2. call'[f].pc \in {"top", "summary"} BY <2>6 DEF Assemble, Reading, GoOn, FollowType
    <3>3. nextSeq' \in Nat BY <1>2 DEF FollowType
    <3>4. read'[f].from <= nextSeq' BY <3>1, <3>3
    <3> QED BY <3>1, <3>2, <3>4, PastSound
  <2> QED BY <2>1, <2>2, <2>3, <2>4, <2>5, <2>6
<1>5. \A g \in Followers \ {f} : Sound(g, cut)' BY <1>1, <1>2, <1>3, SameSound
<1>6. Layout(cut)' BY <1>1, <1>2 DEF Layout
<1>7. Rings' BY <1>2 DEF Reads, Rings, First
<1>8. files' \in [Segments -> Seq(Nat)] BY <1>2 DEF Reads
<1> QED BY <1>1, <1>4, <1>5, <1>6, <1>7, <1>8 DEF Reads

\* A call that follows, or is over, has no replay left to be right about.
LEMMA FollowReads ==
  ASSUME FollowType, Reads, NEW f \in Followers,
         \/ Look(f) \/ Receive(f) \/ Emptied(f) \/ Deadline(f) \/ Changed(f)
         \/ Abandon(f) \/ Summarise(f)
  PROVE  Reads'
<1>1. PICK cut \in Cuts : Layout(cut) /\ \A g \in Followers : Sound(g, cut) BY DEF Reads
<1>2. UNCHANGED <<nextSeq, ring, files, buffered, read>>
  BY DEF Look, Receive, Emptied, Deadline, Changed, Abandon, Summarise, Following, bufVars
<1>3. \A g \in Followers \ {f} : call'[g] = call[g]
  BY DEF Look, Receive, Emptied, Deadline, Changed, Abandon, Summarise, FollowType
<1>4. call'[f].pc \in {"top", "select", "drain", "summary", "done"}
  <2>1. call[f] \in CallType BY DEF FollowType
  <2> QED BY <2>1 DEF Look, Receive, Emptied, Deadline, Changed, Abandon, Summarise, FollowType,
                      CallType
<1>5. \A g \in Followers \ {f} : Sound(g, cut)' BY <1>1, <1>2, <1>3, SameSound
<1>6. Sound(f, cut)'
  <2>1. read'[f].from <= nextSeq' BY <1>1, <1>2 DEF Sound
  <2> QED BY <1>4, <2>1, PastSound
<1>7. Layout(cut)' BY <1>1, <1>2 DEF Layout
<1>8. Rings' BY <1>2 DEF Reads, Rings, First
<1>9. files' \in [Segments -> Seq(Nat)] /\ read' \in [Followers -> ReadType] BY <1>2 DEF Reads
<1> QED BY <1>1, <1>5, <1>6, <1>7, <1>8, <1>9 DEF Reads

LEMMA ReadsStart == ASSUME Init PROVE Reads
<1>1. Retain \in Nat /\ RingLines \in Nat \ {0} /\ BufLines \in Nat BY LogsAssumption
<1>2. <<>> \in Seq(Nat) /\ Len(<<>>) = 0 /\ {} \in SUBSET Segments OBVIOUS
<1>3. Span(<<>>, 0, 0) BY NoSpan
<1>4. First = 0
  <2>1. nextSeq = 0 /\ ring = <<>> BY DEF Init
  <2>2. Len(ring) = 0 BY <1>2, <2>1
  <2>3. First = nextSeq - Len(ring) BY DEF First
  <2> QED BY <2>1, <2>2, <2>3
<1>5. PICK cut \in Cuts : cut = [i \in 0 .. Retain + 1 |-> 0]
  <2>1. [i \in 0 .. Retain + 1 |-> 0] \in Cuts BY DEF Cuts
  <2> QED BY <2>1
<1>6. Layout(cut)
  <2>1. \A i \in Segments : i \in 0 .. Retain + 1 /\ i + 1 \in 0 .. Retain + 1
    BY <1>1 DEF Segments
  <2>2. 0 \in 0 .. Retain + 1 BY <1>1
  <2>3. \A i \in 0 .. Retain + 1 : cut[i] = 0 BY <1>5
  <2>4. \A i \in Segments : files[i] = <<>> BY DEF Init
  <2>5. buffered = <<>> /\ nextSeq = 0 BY DEF Init
  <2> QED BY <1>3, <2>1, <2>2, <2>3, <2>4, <2>5 DEF Layout
<1>7. Rings BY <1>1, <1>2, <1>3, <1>4 DEF Rings, Init
<1>8. Unread \in ReadType BY <1>2 DEF Unread, ReadType
<1>9. ASSUME NEW f \in Followers PROVE Sound(f, cut)
  <2>1. read[f] = Unread /\ call[f].pc = "idle" /\ nextSeq = 0 BY DEF Init, Idle
  <2> QED BY <2>1 DEF Sound, Gathered, Unread, ReplayPCs
<1>10. files \in [Segments -> Seq(Nat)] /\ read \in [Followers -> ReadType]
  BY <1>2, <1>8 DEF Init
<1> QED BY <1>6, <1>7, <1>9, <1>10 DEF Reads

LEMMA ReadsKept ==
  ASSUME BufLines <= RingLines, FollowType, Reads, [Next]_vars
  PROVE  Reads'
<1>1. CASE AppendLine BY <1>1, AppendReads
<1>2. CASE Flush \/ Close BY <1>2, FlushReads DEF Flush, Close
<1>3. CASE Exit \/ Respawn \/ UNCHANGED vars
  <2>1. UNCHANGED <<nextSeq, ring, files, buffered, call, read>>
    BY <1>3 DEF Exit, Respawn, vars, bufVars
  <2>2. PICK cut \in Cuts : Layout(cut) /\ \A g \in Followers : Sound(g, cut) BY DEF Reads
  <2>3. \A g \in Followers : Sound(g, cut)' BY <2>1, <2>2, SameSound
  <2>4. Layout(cut)' BY <2>1, <2>2 DEF Layout
  <2>5. Rings' BY <2>1 DEF Reads, Rings, First
  <2> QED BY <2>1, <2>2, <2>3, <2>4, <2>5 DEF Reads
<1>4. CASE \E f \in Followers : Serve(f)
  <2>1. PICK f \in Followers : Serve(f) BY <1>4
  <2> QED BY <2>1, ReplayReads, FollowReads DEF Serve
<1> QED BY <1>1, <1>2, <1>3, <1>4 DEF Next

LEMMA JoinLines ==
  ASSUME NEW s \in Seq(Nat), NEW t \in Seq(Nat), Increasing(s), Increasing(t),
         \A x \in Elements(s), y \in Elements(t) : x < y
  PROVE  Increasing(s \o t) /\ Elements(s \o t) = Elements(s) \cup Elements(t)
<1> DEFINE u == s \o t
<1>1. /\ u \in Seq(Nat) /\ Len(u) = Len(s) + Len(t) /\ Len(s) \in Nat /\ Len(t) \in Nat
      /\ \A k \in 1 .. Len(s) + Len(t) : u[k] = IF k <= Len(s) THEN s[k] ELSE t[k - Len(s)]
  BY ConcatProperties
<1> HIDE DEF u
<1>2. \A k \in 1 .. Len(s) : k \in 1 .. Len(u) /\ u[k] = s[k] BY <1>1
<1>3. \A k \in 1 .. Len(t) : Len(s) + k \in 1 .. Len(u) /\ u[Len(s) + k] = t[k]
  <2> SUFFICES ASSUME NEW k \in 1 .. Len(t)
               PROVE  Len(s) + k \in 1 .. Len(u) /\ u[Len(s) + k] = t[k]
    OBVIOUS
  <2>1. Len(s) + k \in 1 .. Len(s) + Len(t) /\ ~(Len(s) + k <= Len(s)) /\ (Len(s) + k) - Len(s) = k
    BY <1>1
  <2> QED BY <1>1, <2>1
<1>4. ASSUME NEW k \in 1 .. Len(u), ~(k \in 1 .. Len(s))
      PROVE  k - Len(s) \in 1 .. Len(t) /\ u[k] = t[k - Len(s)]
  BY <1>1, <1>4
<1>5. Elements(u) = Elements(s) \cup Elements(t)
  <2>1. ASSUME NEW n \in Elements(u) PROVE n \in Elements(s) \cup Elements(t)
    <3>1. PICK k \in 1 .. Len(u) : n = u[k] BY DEF Elements
    <3> QED BY <1>2, <1>4, <3>1 DEF Elements
  <2>2. ASSUME NEW n \in Elements(s) PROVE n \in Elements(u) BY <1>2 DEF Elements
  <2>3. ASSUME NEW n \in Elements(t) PROVE n \in Elements(u) BY <1>3 DEF Elements
  <2> QED BY <2>1, <2>2, <2>3
<1>6. Increasing(u)
  <2> SUFFICES ASSUME NEW i \in 1 .. Len(u), NEW j \in 1 .. Len(u), i < j PROVE u[i] < u[j]
    BY DEF Increasing
  <2>1. CASE i \in 1 .. Len(s) /\ j \in 1 .. Len(s) BY <1>2, <2>1 DEF Increasing
  <2>2. CASE i \in 1 .. Len(s) /\ j \notin 1 .. Len(s)
    <3>1. u[i] \in Elements(s) /\ u[j] \in Elements(t) BY <1>2, <1>4, <2>2 DEF Elements
    <3> QED BY <3>1
  <2>3. CASE i \notin 1 .. Len(s)
    <3>1. j \notin 1 .. Len(s) BY <1>1, <2>3
    <3>2. i - Len(s) \in 1 .. Len(t) /\ j - Len(s) \in 1 .. Len(t) /\ i - Len(s) < j - Len(s)
      BY <1>1, <1>4, <2>3, <3>1
    <3>3. t[i - Len(s)] < t[j - Len(s)] BY <3>2 DEF Increasing
    <3> QED BY <1>4, <2>3, <3>1, <3>3
  <2> QED BY <2>1, <2>2, <2>3
<1> QED BY <1>5, <1>6 DEF u

\* What the write buffer holds is still in the ring.
LEMMA BufferWithin ==
  ASSUME BufLines <= RingLines, FollowType, Rings, NEW cut \in Cuts, Layout(cut)
  PROVE  First \in Nat /\ cut[0] \in Nat /\ First <= cut[0] /\ cut[0] <= nextSeq
<1>1. /\ Len(ring) = nextSeq - First /\ First \in Nat /\ nextSeq \in Nat
      /\ Len(ring) \in {RingLines, nextSeq}
      /\ Len(buffered) <= BufLines \/ Len(buffered) <= 1
  BY DEF Rings, Span
<1>2. Len(buffered) = nextSeq - cut[0] /\ cut[0] \in Nat /\ cut[0] <= nextSeq
  BY DEF Layout, Span
<1>3. RingLines \in Nat \ {0} /\ BufLines \in Nat BY LogsAssumption
<1> QED BY <1>1, <1>2, <1>3

\* The file that a line between the first cut and the last lies in.
LEMMA WhichFile ==
  ASSUME NEW cut \in Cuts, NEW n \in Nat, cut[Retain + 1] <= n, n < cut[0]
  PROVE  \E i \in Segments : cut[i + 1] <= n /\ n < cut[i]
<1>1. Retain \in Nat /\ \A i \in 0 .. Retain + 1 : cut[i] \in Nat BY LogsAssumption DEF Cuts
<1> DEFINE Under == {k \in 0 .. Retain + 1 : cut[k] <= n}
<1>2. Under \in SUBSET Nat /\ Under # {}
  <2>1. Retain + 1 \in Under BY <1>1
  <2> QED BY <1>1, <2>1
<1>3. PICK k \in Under : \A i \in Under : k <= i
  <2> HIDE DEF Under
  <2> QED BY <1>2, LeastNatural
<1>4. k \in 0 .. Retain + 1 /\ cut[k] <= n BY <1>3
<1>5. k # 0
  <2>1. 0 \in 0 .. Retain + 1 BY <1>1
  <2> QED BY <1>1, <1>4, <2>1
<1>6. k - 1 \in Segments /\ k - 1 \in 0 .. Retain + 1 /\ (k - 1) + 1 = k /\ k - 1 < k
  BY <1>1, <1>4, <1>5 DEF Segments
<1>7. k - 1 \notin Under
  <2> HIDE DEF Under
  <2> QED BY <1>3, <1>4, <1>6
<1> QED BY <1>1, <1>4, <1>6, <1>7

\* The ring and the files together: one run of lines that ends with the last.
Floor(cut) == IF cut[Retain + 1] < First THEN cut[Retain + 1] ELSE First

LEMMA KeptLines ==
  ASSUME BufLines <= RingLines, FollowType, Rings, NEW cut \in Cuts, Layout(cut)
  PROVE  Floor(cut) \in Nat /\ Floor(cut) <= First /\ Kept = Floor(cut) .. nextSeq - 1
<1>1. /\ Retain \in Nat /\ First \in Nat /\ nextSeq \in Nat /\ First <= cut[0] /\ cut[0] <= nextSeq
      /\ \A i \in 0 .. Retain + 1 : cut[i] \in Nat
      /\ Retain + 1 \in 0 .. Retain + 1 /\ 0 \in 0 .. Retain + 1
      /\ \A i \in Segments : i \in 0 .. Retain + 1 /\ i + 1 \in 0 .. Retain + 1
                            /\ 0 <= i /\ i + 1 <= Retain + 1
  <2>1. Retain \in Nat BY LogsAssumption
  <2>2. First \in Nat /\ First <= cut[0] /\ cut[0] <= nextSeq BY BufferWithin
  <2>3. nextSeq \in Nat /\ \A i \in 0 .. Retain + 1 : cut[i] \in Nat BY DEF FollowType, Cuts
  <2>4. Retain + 1 \in 0 .. Retain + 1 /\ 0 \in 0 .. Retain + 1 BY <2>1
  <2>5. \A i \in Segments : i \in 0 .. Retain + 1 /\ i + 1 \in 0 .. Retain + 1
                          /\ 0 <= i /\ i + 1 <= Retain + 1
    BY <2>1 DEF Segments
  <2> QED BY <2>1, <2>2, <2>3, <2>4, <2>5
<1>2. Elements(ring) = First .. nextSeq - 1 BY SpanElements DEF Rings
<1>3. \A i \in Segments : Elements(files[i]) = cut[i + 1] .. cut[i] - 1
  BY SpanElements DEF Layout
<1>4. Floor(cut) \in Nat /\ Floor(cut) <= First BY <1>1 DEF Floor
<1>5. ASSUME NEW n \in Kept PROVE n \in Floor(cut) .. nextSeq - 1
  <2>1. CASE n \in Elements(ring) BY <1>1, <1>2, <1>4, <2>1
  <2>2. CASE n \in UNION {Elements(files[i]) : i \in Segments}
    <3>1. PICK i \in Segments : n \in Elements(files[i]) BY <2>2
    <3>2. n \in cut[i + 1] .. cut[i] - 1 BY <1>3, <3>1
    <3>3. cut[Retain + 1] <= cut[i + 1] /\ cut[i] <= cut[0] BY <1>1 DEF Layout
    <3>4. cut[Retain + 1] <= n /\ n < nextSeq /\ n \in Nat
      <4>1. cut[i] \in Nat /\ cut[i + 1] \in Nat /\ cut[0] \in Nat /\ cut[Retain + 1] \in Nat
        BY <1>1
      <4> QED BY <1>1, <3>2, <3>3, <4>1
    <3>5. cut[Retain + 1] \in Nat /\ Floor(cut) <= cut[Retain + 1] BY <1>1 DEF Floor
    <3> QED BY <1>1, <1>4, <3>4, <3>5
  <2> QED BY <2>1, <2>2 DEF Kept
<1>6. ASSUME NEW n \in Floor(cut) .. nextSeq - 1 PROVE n \in Kept
  <2>0. n \in Nat /\ Floor(cut) <= n /\ n <= nextSeq - 1 BY <1>1, <1>4
  <2>1. CASE First <= n
    <3>1. n \in First .. nextSeq - 1 BY <1>1, <2>0, <2>1
    <3> QED BY <1>2, <3>1 DEF Kept
  <2>2. CASE n < First
    <3>1. cut[Retain + 1] <= n /\ n < cut[0]
      <4>1. cut[0] \in Nat /\ cut[Retain + 1] \in Nat BY <1>1
      <4> QED BY <1>1, <2>0, <2>2, <4>1 DEF Floor
    <3>2. PICK i \in Segments : cut[i + 1] <= n /\ n < cut[i] BY <2>0, <3>1, WhichFile
    <3>3. cut[i] \in Nat /\ cut[i + 1] \in Nat BY <1>1
    <3>4. n \in Elements(files[i]) BY <1>3, <2>0, <3>2, <3>3
    <3> QED BY <3>4 DEF Kept
  <2> QED BY <1>1, <2>0, <2>1, <2>2
<1> QED BY <1>4, <1>5, <1>6

\* The lines of the window of the last k that lie below lo.
LEMMA WindowCount ==
  ASSUME NEW next \in Nat, NEW k \in Nat \ {0}, NEW lo \in Nat, lo <= next
  PROVE  LET window == IF next > k THEN next - k ELSE 0
         IN  Cardinality({n \in 0 .. next - 1 : n + k >= next} \ (lo .. next - 1)) =
               IF lo > window THEN lo - window ELSE 0
<1> DEFINE window == IF next > k THEN next - k ELSE 0
<1>1. window \in Nat OBVIOUS
<1>2. {n \in 0 .. next - 1 : n + k >= next} \ (lo .. next - 1) = window .. lo - 1 OBVIOUS
<1>3. Cardinality(window .. lo - 1) = IF window > lo - 1 THEN 0 ELSE lo - 1 - window + 1
  <2> HIDE DEF window
  <2> QED BY <1>1, FS_Interval
<1> HIDE DEF window
<1>4. Cardinality(window .. lo - 1) = IF lo > window THEN lo - window ELSE 0 BY <1>1, <1>3
<1> QED BY <1>2, <1>4 DEF window

\* The candidates of a replay are the lines from lo on, and lo is the first line
\* kept unless the ring alone has enough that match.
LEMMA Candidates ==
  ASSUME BufLines <= RingLines, FollowType, Reads, NEW f \in Followers, NEW cut \in Cuts,
         Layout(cut), Sound(f, cut), call[f].pc = "assemble", nextSeq = read[f].from
  PROVE  LET older == Below(read[f].disk, read[f].oldest)
             lines == older \o read[f].snap
             lo    == IF older = <<>> THEN read[f].oldest ELSE Head(older)
         IN  /\ lo \in Floor(cut) .. First /\ lines \in Seq(Nat) /\ Increasing(lines)
             /\ Elements(lines) = lo .. nextSeq - 1
             /\ lo = Floor(cut) \/ Len(Matching(f, lines)) >= Tail_
<1> DEFINE older == Below(read[f].disk, read[f].oldest)
           lines == older \o read[f].snap
           lo    == IF older = <<>> THEN read[f].oldest ELSE Head(older)
<1>1. /\ read[f].snap = ring /\ read[f].oldest = First
      /\ \/ read[f].disk = <<>> /\ (First = 0 \/ Len(Matching(f, ring)) >= Tail_)
         \/ \E hi \in Nat : First <= hi /\ Span(read[f].disk, cut[Retain + 1], hi)
  BY DEF Sound, Gathered, ReplayPCs
<1>2. /\ ring \in Seq(Nat) /\ Increasing(ring) /\ Elements(ring) = First .. nextSeq - 1
      /\ First \in Nat /\ nextSeq \in Nat /\ First <= nextSeq
  <2>1. Span(ring, First, nextSeq) BY DEF Reads, Rings
  <2> QED BY <2>1, SpanElements DEF Span
<1>3. Floor(cut) \in Nat /\ Floor(cut) <= First BY KeptLines DEF Reads
<1>4. read[f].disk \in Seq(Nat) BY DEF Reads, ReadType
<1>5. /\ older \in Seq(Nat) /\ Elements(older) = Elements(read[f].disk) \cap (0 .. First - 1)
      /\ Increasing(read[f].disk) => Increasing(older)
  BY <1>1, <1>4, Sifted DEF Below
<1> HIDE DEF older
<1>6. ASSUME older = <<>>
      PROVE  /\ lo = First /\ lines = ring /\ lines \in Seq(Nat) /\ Increasing(lines)
             /\ Elements(lines) = lo .. nextSeq - 1
  <2>1. lines = ring BY <1>1, <1>2, <1>6
  <2>2. lo = First BY <1>1, <1>6
  <2> QED BY <1>2, <2>1, <2>2
<1>7. CASE read[f].disk = <<>> /\ (First = 0 \/ Len(Matching(f, ring)) >= Tail_)
  <2>1. older = <<>>
    <3>1. Elements(<<>>) = {}
      <4>1. Len(<<>>) = 0 OBVIOUS
      <4> QED BY <4>1 DEF Elements
    <3>2. Elements(older) = {} BY <1>5, <1>7, <3>1
    <3>3. Len(older) = 0
      <4> SUFFICES ASSUME Len(older) # 0 PROVE FALSE OBVIOUS
      <4>1. 1 \in 1 .. Len(older) BY <1>5
      <4> QED BY <3>2, <4>1 DEF Elements
    <3> QED BY <1>5, <3>3
  <2>2. First = 0 => lo = Floor(cut) BY <1>3, <1>6, <2>1
  <2>3. Len(Matching(f, ring)) >= Tail_ => Len(Matching(f, lines)) >= Tail_ BY <1>6, <2>1
  <2>4. lo \in Floor(cut) .. First BY <1>2, <1>3, <1>6, <2>1
  <2> HIDE DEF lo, lines
  <2>5. /\ lo \in Floor(cut) .. First /\ lines \in Seq(Nat) /\ Increasing(lines)
        /\ Elements(lines) = lo .. nextSeq - 1
        /\ lo = Floor(cut) \/ Len(Matching(f, lines)) >= Tail_
    BY <1>6, <1>7, <2>1, <2>2, <2>3, <2>4
  <2> QED BY <2>5 DEF lo, lines, older
<1>8. CASE \E hi \in Nat : First <= hi /\ Span(read[f].disk, cut[Retain + 1], hi)
  <2>1. PICK hi \in Nat : First <= hi /\ Span(read[f].disk, cut[Retain + 1], hi) BY <1>8
  <2>2. Increasing(read[f].disk) /\ Elements(read[f].disk) = cut[Retain + 1] .. hi - 1
        /\ cut[Retain + 1] \in Nat
    BY <2>1, SpanElements DEF Span
  <2>3. Elements(older) = Floor(cut) .. First - 1
    <3>1. CASE cut[Retain + 1] < First
      <4>1. Floor(cut) = cut[Retain + 1] BY <3>1 DEF Floor
      <4>2. (cut[Retain + 1] .. hi - 1) \cap (0 .. First - 1) = cut[Retain + 1] .. First - 1
        BY <1>2, <2>1, <2>2
      <4> QED BY <1>5, <2>2, <4>1, <4>2
    <3>2. CASE ~(cut[Retain + 1] < First)
      <4>1. Floor(cut) = First BY <3>2 DEF Floor
      <4>2. (cut[Retain + 1] .. hi - 1) \cap (0 .. First - 1) = {} BY <1>2, <2>1, <2>2, <3>2
      <4>3. First .. First - 1 = {} BY <1>2
      <4> QED BY <1>5, <2>2, <4>1, <4>2, <4>3
    <3> QED BY <3>1, <3>2
  <2>4. CASE older = <<>>
    <3>1. Floor(cut) = First
      <4> SUFFICES ASSUME Floor(cut) # First PROVE FALSE OBVIOUS
      <4>1. Floor(cut) \in Elements(older) BY <1>2, <1>3, <2>3
      <4>2. Len(older) = 0 BY <2>4
      <4> QED BY <4>1, <4>2 DEF Elements
    <3> HIDE DEF lines, lo
    <3>2. lo = Floor(cut) /\ lo \in Floor(cut) .. First BY <1>2, <1>3, <1>6, <2>4, <3>1
    <3>3. /\ lo \in Floor(cut) .. First /\ lines \in Seq(Nat) /\ Increasing(lines)
          /\ Elements(lines) = lo .. nextSeq - 1
          /\ lo = Floor(cut)
      BY <1>6, <2>4, <3>2
    <3> QED BY <3>3 DEF lo, lines, older
  <2>5. CASE older # <<>>
    <3>1. 1 \in 1 .. Len(older) /\ Len(older) \in Nat /\ lo = older[1] BY <1>5, <2>5
    <3>2. older[1] \in Floor(cut) .. First - 1 BY <2>3, <3>1 DEF Elements
    <3>3. Floor(cut) <= older[1] /\ older[1] <= First - 1 /\ older[1] \in Nat
      BY <1>2, <1>3, <3>2
    <3>4. Floor(cut) \in Elements(older) BY <1>2, <1>3, <2>3, <3>3
    <3>5. PICK k \in 1 .. Len(older) : older[k] = Floor(cut) BY <3>4 DEF Elements
    <3>6. older[1] <= older[k]
      <4>1. CASE k = 1 BY <3>3, <4>1
      <4>2. CASE k # 1
        <5>1. 1 < k BY <3>1, <4>2
        <5>2. Increasing(older) BY <1>5, <2>2
        <5>3. older[1] < older[k] BY <3>1, <5>1, <5>2 DEF Increasing
        <5>4. older[k] \in Nat BY <1>3, <3>5
        <5> QED BY <3>3, <5>3, <5>4
      <4> QED BY <4>1, <4>2
    <3>7. lo = Floor(cut) BY <1>3, <3>1, <3>3, <3>5, <3>6
    <3>8. \A x \in Elements(older), y \in Elements(ring) : x < y BY <1>2, <1>3, <2>3
    <3>9. lines = older \o ring BY <1>1
    <3> HIDE DEF lo, lines
    <3>10. Increasing(lines) /\ Elements(lines) = Elements(older) \cup Elements(ring)
      BY <1>2, <1>5, <2>2, <3>8, <3>9, JoinLines
    <3>11. Elements(lines) = lo .. nextSeq - 1
      <4>1. (Floor(cut) .. First - 1) \cup (First .. nextSeq - 1) = Floor(cut) .. nextSeq - 1
        BY <1>2, <1>3
      <4> QED BY <1>2, <2>3, <3>7, <3>10, <4>1
    <3>12. lines \in Seq(Nat) BY <1>2, <1>5, <3>9
    <3>13. lo \in Floor(cut) .. First BY <1>2, <1>3, <3>7
    <3> QED BY <3>7, <3>10, <3>11, <3>12, <3>13 DEF lo, lines, older
  <2> QED BY <2>4, <2>5
<1> QED BY <1>1, <1>7, <1>8

\* What ReplayExact says of one step.
Exact(f) ==
  LET lines == read'[f].lines
      wanted == Kept \cap Filter[f]
  IN  /\ \A i, j \in 1 .. Len(lines) : i < j => lines[i] < lines[j]
      /\ Elements(lines) \subseteq wanted
      /\ \A n \in wanted \ Elements(lines) : Len(lines) = Tail_ /\ n < lines[1]
      /\ read'[f].shortfall =
           Cardinality({n \in 0 .. nextSeq - 1 : n + Tail_ >= nextSeq} \ Kept)

LEMMA AssembleExact ==
  ASSUME BufLines <= RingLines, FollowType, Reads, NEW f \in Followers, Assemble(f),
         nextSeq = read[f].from
  PROVE  Exact(f)
<1> DEFINE older   == Below(read[f].disk, read[f].oldest)
           all     == older \o read[f].snap
           lines   == LastOf(Matching(f, all), Tail_)
           lo      == IF older = <<>> THEN read[f].oldest ELSE Head(older)
           window  == IF nextSeq > Tail_ THEN nextSeq - Tail_ ELSE 0
           missing == IF Len(lines) < Tail_ /\ lo > window THEN lo - window ELSE 0
<1>1. PICK cut \in Cuts : Layout(cut) /\ Sound(f, cut) BY DEF Reads
<1>2. call[f].pc = "assemble" BY DEF Assemble, Reading, GoOn
<1>3. read[f].produced = nextSeq BY <1>1, <1>2 DEF Sound, Gathered, ReplayPCs
<1>4. read'[f].lines = lines /\ read'[f].shortfall = missing
  <2>1. read'[f] = [Unread EXCEPT !.lines = lines, !.shortfall = missing]
    BY <1>3 DEF Assemble, Reads
  <2> HIDE DEF lines, missing
  <2> QED BY <2>1 DEF Unread
<1>5. /\ lo \in Floor(cut) .. First /\ all \in Seq(Nat) /\ Increasing(all)
      /\ Elements(all) = lo .. nextSeq - 1
      /\ lo = Floor(cut) \/ Len(Matching(f, all)) >= Tail_
  BY <1>1, <1>2, Candidates
<1>6. /\ Floor(cut) \in Nat /\ Floor(cut) <= First /\ Kept = Floor(cut) .. nextSeq - 1
      /\ Tail_ \in Nat \ {0} /\ nextSeq \in Nat /\ First \in Nat /\ First <= nextSeq
  BY <1>1, KeptLines, LogsAssumption DEF Reads, FollowType, Rings, Span
<1> HIDE DEF lo, all
<1> DEFINE found == Matching(f, all)
<1>7. /\ found \in Seq(Nat) /\ Increasing(found)
      /\ Elements(found) = (lo .. nextSeq - 1) \cap Filter[f]
  BY <1>5, Sifted DEF Matching
<1> HIDE DEF found
<1>8. /\ lines = LastOf(found, Tail_) /\ lines \in Seq(Nat) /\ Len(lines) \in Nat
      /\ Len(lines) = IF Len(found) > Tail_ THEN Tail_ ELSE Len(found)
      /\ Increasing(lines) /\ Elements(lines) \subseteq Elements(found)
      /\ \A n \in Elements(found) \ Elements(lines) : Len(lines) = Tail_ /\ n < lines[1]
  <2>1. lines = LastOf(found, Tail_) BY DEF found
  <2> HIDE DEF lines
  <2>2. lines \in Seq(Nat) /\ Len(lines) = IF Len(found) > Tail_ THEN Tail_ ELSE Len(found)
    BY <1>6, <1>7, <2>1, LastTyped
  <2> QED BY <1>6, <1>7, <2>1, <2>2, LastLines
<1> HIDE DEF lines
<1>9. lo \in Nat /\ Floor(cut) <= lo /\ lo <= First /\ lo <= nextSeq BY <1>5, <1>6
<1>10. ASSUME NEW n \in Elements(lines)
       PROVE  n \in Nat /\ lo <= n /\ n < nextSeq /\ n \in Filter[f]
  BY <1>6, <1>7, <1>8, <1>9
<1>11. Elements(lines) \subseteq Kept \cap Filter[f]
  <2> SUFFICES ASSUME NEW n \in Elements(lines) PROVE n \in Kept \cap Filter[f] OBVIOUS
  <2> QED BY <1>6, <1>9, <1>10
<1>12. lo = Floor(cut) \/ Len(lines) = Tail_
  <2>1. Len(found) \in Nat BY <1>7
  <2>2. lo = Floor(cut) \/ Len(found) >= Tail_ BY <1>5 DEF found
  <2> QED BY <1>6, <1>8, <2>1, <2>2
<1>13. ASSUME Len(lines) = Tail_ PROVE lo <= lines[1] /\ lines[1] \in Nat /\ lo + Tail_ <= nextSeq
  <2>1. lines # <<>> /\ 1 \in 1 .. Len(lines) /\ Len(lines) \in 1 .. Len(lines)
    BY <1>6, <1>8, <1>13
  <2>2. lines[1] \in Elements(lines) /\ lines[Len(lines)] \in Elements(lines)
    BY <2>1 DEF Elements
  <2>3. lines[1] + Len(lines) - 1 <= lines[Len(lines)] BY <1>8, <2>1, SpreadOut
  <2>4. /\ lines[1] \in Nat /\ lo <= lines[1] /\ lines[Len(lines)] \in Nat
        /\ lines[Len(lines)] < nextSeq
    BY <1>10, <2>2
  <2> QED BY <1>6, <1>9, <1>13, <2>3, <2>4
<1>14. ASSUME NEW n \in (Kept \cap Filter[f]) \ Elements(lines)
       PROVE  Len(lines) = Tail_ /\ n < lines[1]
  <2>1. n \in Nat /\ Floor(cut) <= n /\ n < nextSeq BY <1>6
  <2>2. CASE lo <= n
    <3>1. n \in Elements(found) BY <1>6, <1>7, <1>9, <2>1, <2>2
    <3> QED BY <1>8, <3>1
  <2>3. CASE n < lo
    <3>1. Len(lines) = Tail_ BY <1>6, <1>9, <1>12, <2>1, <2>3
    <3> QED BY <1>9, <1>13, <2>1, <2>3, <3>1
  <2> QED BY <1>9, <2>1, <2>2, <2>3
<1>15. missing = Cardinality({n \in 0 .. nextSeq - 1 : n + Tail_ >= nextSeq} \ Kept)
  <2>1. Floor(cut) <= nextSeq BY <1>6
  <2>2. Cardinality({n \in 0 .. nextSeq - 1 : n + Tail_ >= nextSeq} \ Kept) =
          IF Floor(cut) > window THEN Floor(cut) - window ELSE 0
    BY <1>6, <2>1, WindowCount
  <2>3. CASE Len(lines) = Tail_
    <3>1. missing = 0 BY <1>6, <2>3
    <3>2. Floor(cut) + Tail_ <= nextSeq BY <1>6, <1>9, <1>13, <2>3
    <3>3. ~(Floor(cut) > window) BY <1>6, <3>2
    <3> QED BY <2>2, <3>1, <3>3
  <2>4. CASE Len(lines) # Tail_
    <3>1. lo = Floor(cut) BY <1>12, <2>4
    <3>2. Len(lines) < Tail_
      <4>1. Len(found) \in Nat BY <1>7
      <4> QED BY <1>6, <1>8, <2>4, <4>1
    <3>3. missing = IF Floor(cut) > window THEN Floor(cut) - window ELSE 0 BY <3>1, <3>2
    <3> QED BY <2>2, <3>3
  <2> QED BY <2>3, <2>4
<1> QED BY <1>4, <1>8, <1>11, <1>14, <1>15 DEF Exact, Increasing

\* A replay during which nothing is appended sends the last matching lines that the
\* ring or the disk holds, once each and in order, and reports exactly the lines of
\* its window that are gone.  What the write buffer can hold must fit the ring: with
\* a shorter ring a line can have left it and not be in a file yet.
THEOREM ReplaysAreExact == ASSUME BufLines <= RingLines PROVE Spec => ReplayExact
<1>1. Init => Reads BY ReadsStart
<1>2. IInv /\ Reads /\ [Next]_vars => Reads' BY ReadsKept DEF IInv
<1>3. IInv /\ Reads /\ [Next]_vars =>
        [\A f \in Followers : Assemble(f) /\ nextSeq = read[f].from => Exact(f)]_vars
  BY AssembleExact DEF IInv
<1>4. [][\A f \in Followers : Assemble(f) /\ nextSeq = read[f].from => Exact(f)]_vars
        => ReplayExact
  BY DEF ReplayExact, Exact
<1> QED BY <1>1, <1>2, <1>3, <1>4, Invariance, PTL DEF Spec
=============================================================================
