-------------------------------- MODULE Logs --------------------------------
(***************************************************************************)
(* The captured output of one supervised process and the GetProcessLogs    *)
(* calls that read it (src/internal/agent/process/logbuf.go and logs.go):  *)
(* a ring of recent lines, a rotating file of older ones, and a bounded    *)
(* queue for each follower.                                                *)
(*                                                                         *)
(* A line is its sequence number.  A step is a critical section of         *)
(* logBuffer.mu, the reading of one history file, or what a follow does    *)
(* between two waits.  Lines sent to the caller are not lost or reordered: *)
(* that is gRPC's part.                                                    *)
(***************************************************************************)
EXTENDS Integers, Sequences, FiniteSets

CONSTANTS
  Followers,   \* GetProcessLogs calls, each made once
  Filter,      \* Filter[f]: the lines that f's selector matches
  Tail_,       \* tail_lines of every call, clamped by the service
  RingLines,   \* ring_buffer_lines
  QueueLen,    \* subscriberQueue
  SegLines,    \* lines that fit a history file (max_log_bytes)
  Retain,      \* retained segments besides the live one
  BufLines,    \* lines that fit the file's write buffer
  MaxLines     \* bound: lines appended in a behaviour

Segments == 0 .. Retain        \* 0 is the live file, i is the file ".i"

ASSUME LogsAssumption ==
  /\ Filter \in [Followers -> SUBSET Nat]
  /\ Tail_ \in Nat \ {0} /\ RingLines \in Nat \ {0} /\ QueueLen \in Nat \ {0}
  /\ SegLines \in Nat \ {0} /\ Retain \in Nat \ {0} /\ BufLines \in Nat
  /\ MaxLines \in Nat

VARIABLES
  nextSeq,     \* b.nextSeq
  ring,        \* the retained lines, oldest first
  files,       \* files[i]: the lines of the i-th history file on disk
  buffered,    \* lines written to the live file and not yet flushed
  closed,      \* b.closed
  subs,        \* b.subs
  queue,       \* queue[f]: the channel of f's subscription
  pending,     \* pending[f]: sub.pending
  ended,       \* the record is in a terminal state
  exitSeq,     \* lines captured when it last became terminal (auxiliary)
  call,        \* call[f]: the follow half of a call
  read         \* read[f]: its replay half

bufVars == <<nextSeq, ring, files, buffered, closed, pending>>
vars == <<nextSeq, ring, files, buffered, closed, subs, queue, pending,
          ended, exitSeq, call, read>>

\* at: the line after the last one received; told: lines reported as dropped
\* since the subscription; owed: those not yet carried by a sent line; shown:
\* lines sent by the follow; saw: exitSeq when the terminal state was seen.
Idle   == [pc |-> "idle", follow |-> FALSE, at |-> 0, told |-> 0, owed |-> 0,
           shown |-> 0, saw |-> 0, end |-> "none"]
Unread == [snap |-> <<>>, from |-> 0, produced |-> 0, oldest |-> 0,
           todo |-> {}, disk |-> <<>>, lines |-> <<>>, shortfall |-> 0]

Init ==
  /\ nextSeq = 0 /\ ring = <<>> /\ buffered = <<>>
  /\ files = [i \in Segments |-> <<>>]
  /\ closed = FALSE /\ subs = {}
  /\ queue = [f \in Followers |-> <<>>]
  /\ pending = [f \in Followers |-> 0]
  /\ ended = FALSE /\ exitSeq = 0
  /\ call = [f \in Followers |-> Idle]
  /\ read = [f \in Followers |-> Unread]

-----------------------------------------------------------------------------
(* The writing side *)

\* The file's part of append.  A full live file is flushed, the older ones move
\* down a name and the oldest is lost; a full write buffer flushes itself.
WriteFile(n) ==
  CASE Len(files[0]) + Len(buffered) >= SegLines ->
         /\ files' = [i \in Segments |->
                        CASE i = 0 -> <<>>
                          [] i = 1 -> files[0] \o buffered
                          [] OTHER -> files[i - 1]]
         /\ buffered' = <<n>>
    [] OTHER ->
         LET full == Len(buffered) >= BufLines
         IN  /\ files' = IF full THEN [files EXCEPT ![0] = @ \o buffered] ELSE files
             /\ buffered' = IF full THEN <<n>> ELSE Append(buffered, n)

\* A queue that is full drops the line and counts it; the count leaves with the
\* next delivery.  Mutant: it stays behind as well.
Room(f) == Len(queue[f]) < QueueLen
CountedTwice(f) == IF f \in subs /\ ~Room(f) THEN pending[f] + 1 ELSE pending[f]
Counted(f) ==
  IF f \notin subs THEN pending[f] ELSE IF Room(f) THEN 0 ELSE pending[f] + 1

\* append: the line enters the ring, the file and every subscription.
AppendLine ==
  LET n == nextSeq
  IN  /\ ~closed
      /\ nextSeq < MaxLines
      /\ nextSeq' = n + 1
      /\ ring' = Append(IF Len(ring) = RingLines THEN Tail(ring) ELSE ring, n)
      /\ WriteFile(n)
      /\ queue' = [f \in Followers |->
                     IF f \in subs /\ Room(f)
                     THEN Append(queue[f], [seq |-> n, dropped |-> pending[f]])
                     ELSE queue[f]]
      /\ pending' = [f \in Followers |-> Counted(f)]
      /\ UNCHANGED <<closed, subs, ended, exitSeq, call, read>>

\* The tailer flushes the file after each batch it has read.
Flush ==
  /\ ~closed /\ buffered # <<>>
  /\ files' = [files EXCEPT ![0] = @ \o buffered]
  /\ buffered' = <<>>
  /\ UNCHANGED <<nextSeq, ring, closed, subs, queue, pending, ended, exitSeq, call, read>>

\* The run ends: its tailers have finished and the monitor records the exit.
\* The record may be restarted afterwards, and the supervisor's own notes are
\* appended in either state.
Exit ==
  /\ ~ended
  /\ ended' = TRUE
  /\ exitSeq' = nextSeq
  /\ UNCHANGED <<bufVars, subs, queue, call, read>>

Respawn ==
  /\ ended
  /\ ended' = FALSE
  /\ UNCHANGED <<bufVars, exitSeq, subs, queue, call, read>>

\* close, on the removal of the record or of the agent: the subscriptions end
\* and what they have queued can still be received.
Close ==
  /\ ~closed
  /\ closed' = TRUE
  /\ subs' = {}
  /\ files' = [files EXCEPT ![0] = @ \o buffered]
  /\ buffered' = <<>>
  /\ UNCHANGED <<nextSeq, ring, pending, queue, ended, exitSeq, call, read>>

-----------------------------------------------------------------------------
(* The replay that a call starts with *)

GoOn(f, from, to) == call[f].pc = from /\ call' = [call EXCEPT ![f].pc = to]
Reading(f, from, to) ==
  /\ GoOn(f, from, to)
  /\ UNCHANGED <<bufVars, subs, queue, ended, exitSeq>>

\* snapshot: the ring and the subscription under one lock; ringLines when the
\* call does not follow.
Snapshot(f, follow) ==
  /\ call[f] = Idle
  /\ subs' = IF follow /\ ~closed THEN subs \cup {f} ELSE subs
  /\ call' = [call EXCEPT ![f] = [Idle EXCEPT !.pc = "stats", !.follow = follow, !.at = nextSeq]]
  /\ read' = [read EXCEPT ![f].snap = ring, ![f].from = nextSeq]
  /\ UNCHANGED <<bufVars, queue, ended, exitSeq>>

Stats(f) ==
  /\ Reading(f, "stats", "oldest")
  /\ read' = [read EXCEPT ![f].produced = nextSeq]

\* The lines that are in S, in their order: SelectSeq, as a function that the
\* proofs can open.
Sift(lines, S) ==
  LET first[i \in 0 .. Len(lines)] ==
        IF i = 0 THEN <<>>
        ELSE IF lines[i] \in S THEN Append(first[i - 1], lines[i])
        ELSE first[i - 1]
  IN  first[Len(lines)]

Matching(f, lines) == Sift(lines, Filter[f])

\* oldestRetainedSeq, and whether the ring covers the request.
Oldest(f) ==
  LET oldest == IF ring = <<>> THEN read[f].produced ELSE Head(ring)
      short  == Len(Matching(f, read[f].snap)) < Tail_
  IN  /\ Reading(f, "oldest", IF oldest > 0 /\ short THEN "segments" ELSE "assemble")
      /\ read' = [read EXCEPT ![f].oldest = oldest]

\* segments: the names that exist, the live one included.
ListSegments(f) ==
  /\ Reading(f, "segments", "files")
  /\ read' = [read EXCEPT ![f].todo = {i \in Segments : i = 0 \/ files[i] # <<>>}]

\* readSegments opens the listed names, oldest first, without the lock.
ReadFile(f) ==
  LET i == CHOOSE j \in read[f].todo : \A k \in read[f].todo : k <= j
  IN  /\ Reading(f, "files", IF read[f].todo = {i} THEN "assemble" ELSE "files")
      /\ read' = [read EXCEPT ![f].todo = @ \ {i}, ![f].disk = @ \o files[i]]

LastOf(lines, k) == SubSeq(lines, IF Len(lines) > k THEN Len(lines) - k + 1 ELSE 1, Len(lines))

\* The lines of the disk that the ring does not repeat.  Mutant: off by one.
UpTo(lines, seq)  == Sift(lines, 0 .. seq)
Below(lines, seq) == Sift(lines, 0 .. seq - 1)

\* The rest of replay and the sending of its lines: what the disk has below
\* the ring, then the snapshot, filtered and cut to the tail, and the lines of
\* the window that are gone.
Assemble(f) ==
  LET r       == read[f]
      older   == Below(r.disk, r.oldest)
      lines   == LastOf(Matching(f, older \o r.snap), Tail_)
      oldest  == IF older = <<>> THEN r.oldest ELSE Head(older)
      window  == IF r.produced > Tail_ THEN r.produced - Tail_ ELSE 0
      missing == IF Len(lines) < Tail_ /\ oldest > window THEN oldest - window ELSE 0
  IN  /\ Reading(f, "assemble", IF call[f].follow THEN "top" ELSE "summary")
      /\ read' = [read EXCEPT ![f] = [Unread EXCEPT !.lines = lines, !.shortfall = missing]]

-----------------------------------------------------------------------------
(* followLines *)

Following(f) == UNCHANGED <<bufVars, ended, exitSeq, read>>

\* The state is read before each wait; a terminal one turns to the queue.
Look(f) ==
  /\ call[f].pc = "top"
  /\ call' = [call EXCEPT ![f].pc = IF ended THEN "drain" ELSE "select",
                          ![f].saw = IF ended THEN exitSeq ELSE 0]
  /\ Following(f) /\ UNCHANGED <<subs, queue>>

\* Drops ride on the next line that the filter lets through.  Mutant: they
\* vanish with the line they came with.
CarriedOnce(f, d) == IF d.seq \in Filter[f] THEN 0 ELSE call[f].owed
Carried(f, d) == IF d.seq \in Filter[f] THEN 0 ELSE call[f].owed + d.dropped

\* A delivery, in the loop or in drainSubscriber.
Receive(f) ==
  LET d    == Head(queue[f])
      seen == d.seq \in Filter[f]
  IN  /\ call[f].pc \in {"select", "drain"}
      /\ queue[f] # <<>>
      /\ queue' = [queue EXCEPT ![f] = Tail(@)]
      /\ call' = [call EXCEPT
           ![f].pc    = IF @ = "select" THEN "top" ELSE "drain",
           ![f].at    = d.seq + 1,
           ![f].told  = @ + d.dropped,
           ![f].owed  = Carried(f, d),
           ![f].shown = IF seen THEN @ + 1 ELSE @]
      /\ Following(f) /\ UNCHANGED subs

\* Mutant: the follow returns on the state alone.
EmptiedEarly(f) ==
  /\ \/ call[f].pc = "drain"
     \/ call[f].pc = "select" /\ f \notin subs /\ queue[f] = <<>>
  /\ call' = [call EXCEPT ![f].pc = "summary",
                          ![f].end = IF call[f].pc = "drain" THEN "exit" ELSE "removed"]
  /\ Following(f) /\ UNCHANGED <<subs, queue>>

\* The channel is empty: the drain is over, or the record was removed.
Emptied(f) ==
  /\ queue[f] = <<>>
  /\ \/ call[f].pc = "drain"
     \/ call[f].pc = "select" /\ f \notin subs
  /\ call' = [call EXCEPT ![f].pc = "summary",
                          ![f].end = IF call[f].pc = "drain" THEN "exit" ELSE "removed"]
  /\ Following(f) /\ UNCHANGED <<subs, queue>>

\* The deadline, the agent's shutdown, or another change of the record.
Deadline(f) ==
  /\ call[f].pc = "select"
  /\ call' = [call EXCEPT ![f].pc = "summary", ![f].end = "deadline"]
  /\ Following(f) /\ UNCHANGED <<subs, queue>>

Changed(f) ==
  /\ call[f].pc = "select"
  /\ call' = [call EXCEPT ![f].pc = "top"]
  /\ Following(f) /\ UNCHANGED <<subs, queue>>

\* The caller has gone, or a send to it fails: no summary.
Abandon(f) ==
  /\ call[f].pc \in {"top", "select", "drain", "summary"}
  /\ call' = [call EXCEPT ![f].pc = "done", ![f].end = "gone"]
  /\ subs' = subs \ {f}
  /\ Following(f) /\ UNCHANGED queue

\* takePending, the summary, and the deferred unsubscribe.
Summarise(f) ==
  /\ call[f].pc = "summary"
  /\ call' = [call EXCEPT ![f].pc = "done", ![f].told = @ + pending[f]]
  /\ pending' = [pending EXCEPT ![f] = 0]
  /\ subs' = subs \ {f}
  /\ UNCHANGED <<nextSeq, ring, files, buffered, closed, queue, ended, exitSeq, read>>

Serve(f) ==
  \/ \E follow \in BOOLEAN : Snapshot(f, follow)
  \/ Stats(f) \/ Oldest(f) \/ ListSegments(f) \/ ReadFile(f) \/ Assemble(f)
  \/ Look(f) \/ Receive(f) \/ Emptied(f) \/ Deadline(f) \/ Changed(f)
  \/ Abandon(f) \/ Summarise(f)

Next ==
  \/ AppendLine \/ Flush \/ Exit \/ Respawn \/ Close
  \/ \E f \in Followers : Serve(f)

Spec == Init /\ [][Next]_vars
-----------------------------------------------------------------------------
(* Properties *)

PCs == {"idle", "stats", "oldest", "segments", "files", "assemble",
        "top", "select", "drain", "summary", "done"}
CallType == [pc : PCs, follow : BOOLEAN, at : Nat, told : Nat, owed : Nat,
             shown : Nat, saw : Nat,
             end : {"none", "exit", "removed", "deadline", "gone"}]
Delivery == [seq : Nat, dropped : Nat]

FollowType ==
  /\ nextSeq \in Nat /\ exitSeq \in Nat
  /\ closed \in BOOLEAN /\ ended \in BOOLEAN
  /\ subs \subseteq Followers
  /\ queue \in [Followers -> Seq(Delivery)]
  /\ pending \in [Followers -> Nat]
  /\ call \in [Followers -> CallType]

\* Every variable has its type, and the ring, the queues, the files and the
\* write buffer keep their capacities (logbuf.go:72).
TypeOK ==
  /\ FollowType
  /\ ring \in Seq(Nat) /\ Len(ring) <= RingLines
  /\ \A i \in Segments : files[i] \in Seq(Nat) /\ Len(files[i]) <= SegLines
  /\ buffered \in Seq(Nat) /\ Len(files[0]) + Len(buffered) <= SegLines
  /\ \A f \in Followers : Len(queue[f]) <= QueueLen

\* A call whose subscription stands, or stood until the buffer was closed.
Attached(f) == call[f].follow /\ call[f].pc # "done"

\* The line that follows the first i deliveries queued for f.
Due(f, i) == IF i = 0 THEN call[f].at ELSE queue[f][i].seq + 1

\* Each delivery names exactly the lines missing before it, and what has been
\* missed since the last one is pending: between the subscription and the last
\* line appended no line is lost uncounted and none is counted twice
\* (logbuf.go:143, takePending).
GapsExact ==
  \A f \in Followers : Attached(f) =>
    /\ \A i \in 1 .. Len(queue[f]) :
         queue[f][i].seq = Due(f, i - 1) + queue[f][i].dropped
    /\ Due(f, Len(queue[f])) + pending[f] = nextSeq

\* A follow that ended on the exit has received everything that was queued for
\* it when the exit was recorded: what is left came after (logs.go:227).
ExitCarriesOutput ==
  \A f \in Followers : call[f].pc = "done" /\ call[f].end = "exit" =>
    \A i \in 1 .. Len(queue[f]) : queue[f][i].seq >= call[f].saw

Elements(s) == {s[i] : i \in 1 .. Len(s)}
Kept == Elements(ring) \cup UNION {Elements(files[i]) : i \in Segments}

\* A replay during which nothing is appended sends the last matching lines that
\* the ring or the disk holds, once each and in order, and reports exactly the
\* lines of its window that neither holds any more (logs.go:53).
ReplayExact ==
  [][\A f \in Followers :
       Assemble(f) /\ nextSeq = read[f].from =>
         LET lines == read'[f].lines
             wanted == Kept \cap Filter[f]
         IN  /\ \A i, j \in 1 .. Len(lines) : i < j => lines[i] < lines[j]
             /\ Elements(lines) \subseteq wanted
             /\ \A n \in wanted \ Elements(lines) :
                  Len(lines) = Tail_ /\ n < lines[1]
             /\ read'[f].shortfall =
                  Cardinality({n \in 0 .. nextSeq - 1 : n + Tail_ >= nextSeq} \ Kept)]_vars

\* What LogStream sees of a call.
Seen(f) ==
  [phase |-> CASE ~call[f].follow -> "new"
               [] Attached(f)     -> "open"
               [] OTHER           -> "over",
   at    |-> IF call[f].follow THEN call[f].at ELSE 0,
   told  |-> call[f].told, owed |-> call[f].owed, shown |-> call[f].shown]
Views == [f \in Followers |-> Seen(f)]

Stream == INSTANCE LogStream WITH produced <- nextSeq, view <- Views

\* The calls implement LogStream: what a follower is given of the output that
\* appears while it follows is an increasing sequence of lines, each with the
\* exact number of lines missed before it (logs.go:205).
StreamSpec == Stream!Spec
=============================================================================
