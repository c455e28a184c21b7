------------------------------ MODULE Capture -------------------------------
(***************************************************************************)
(* The capture of one output stream of a supervised process                *)
(* (src/internal/agent/process/tail.go): the process appends to a file     *)
(* that outlives the agent, a tailer turns what it appends into lines and  *)
(* truncates the file in place, and the offset it has reached is written   *)
(* to the record, from which the next agent resumes (record.go).           *)
(*                                                                         *)
(* A byte is the number of bytes written before it.  A step of the tailer  *)
(* is what it does between two system calls on the file.                   *)
(***************************************************************************)
EXTENDS Integers, Sequences

CONSTANTS
  LineEnds,    \* the bytes that end a line
  Chunk,       \* chunkBytes
  MaxLine,     \* maxLineBytes
  RawCap,      \* capture.rawCap
  HardCap,     \* rawCap * rawHardCapFactor
  MaxBytes,    \* bound: bytes written in a behaviour
  MaxCrashes   \* bound: agents killed in a behaviour

ASSUME CaptureAssumption ==
  /\ LineEnds \subseteq Nat
  /\ Chunk \in Nat \ {0} /\ MaxLine \in Nat \ {0}
  /\ RawCap \in Nat \ {0} /\ HardCap \in Nat /\ HardCap >= RawCap
  /\ MaxBytes \in Nat /\ MaxCrashes \in Nat

VARIABLES
  written,     \* bytes that the process, or a child of it, has written
  file,        \* the bytes in the capture file
  alive,       \* the process has not been reaped (exited is not closed)
  expired,     \* the drain window has passed since the tailer saw the exit
  stopping,    \* capture.stop is closed
  pc,          \* the tailer: where it is, "down" when no agent runs
  offset,      \* streamTail.offset; of the record while no agent runs
  chunk,       \* bytes read and not yet consumed
  partial,     \* streamTail.partial
  unread,      \* maybeTruncate: the size it saw less the offset
  seen,        \* drainUntil is set
  drains,      \* empty reads since the exit was seen
  log,         \* the lines in the history
  saved,       \* the offset in the record on disk
  crashes,     \* agents killed so far
  end,         \* why the tailer ended (auxiliary)
  exitAt,      \* bytes written when the process ended (auxiliary)
  noted,       \* bytes discarded with a note that counts them (auxiliary)
  raced,       \* bytes that a truncation removed unseen (auxiliary)
  forfeit      \* bytes that an agent's death put out of reach (auxiliary)

output == <<written, file, alive, exitAt>>
tailer == <<pc, offset, chunk, partial, unread, seen, drains, end>>
fates  == <<noted, raced, forfeit>>
captureVars == <<output, expired, stopping, tailer, log, saved, crashes, fates>>

BytesIn(s) == {s[i] : i \in 1 .. Len(s)}
Logged == UNION {BytesIn(log[i]) : i \in 1 .. Len(log)}
Ahead == BytesIn(SubSeq(file, offset + 1, Len(file)))   \* still to be read

CaptureInit ==
  /\ written = 0 /\ file = <<>> /\ alive = TRUE /\ exitAt = 0
  /\ expired = FALSE /\ stopping = FALSE
  /\ pc = "top" /\ offset = 0 /\ chunk = <<>> /\ partial = <<>> /\ unread = 0
  /\ seen = FALSE /\ drains = 0 /\ end = "none"
  /\ log = <<>> /\ saved = 0 /\ crashes = 0
  /\ noted = {} /\ raced = {} /\ forfeit = {}

-----------------------------------------------------------------------------
(* The process *)

\* An append, by the process or by a grandchild that has outlived it.  What it
\* writes below the offset an agent has resumed from is never read.
Write ==
  /\ written < MaxBytes
  /\ written' = written + 1
  /\ file' = Append(file, written)
  /\ forfeit' = IF Len(file) < offset /\ crashes > 0
                  THEN forfeit \cup {written} ELSE forfeit
  /\ UNCHANGED <<alive, exitAt, expired, stopping, tailer, log, saved, crashes,
                 noted, raced>>

ProcessExits ==
  /\ alive
  /\ alive' = FALSE /\ exitAt' = written
  /\ UNCHANGED <<written, file, expired, stopping, tailer, log, saved, crashes, fates>>

\* drainWindow passes.
WindowPasses ==
  /\ seen /\ ~expired
  /\ expired' = TRUE
  /\ UNCHANGED <<output, stopping, tailer, log, saved, crashes, fates>>

-----------------------------------------------------------------------------
(* The tailer: one turn of follow's loop *)

\* flushPartial and the end of the loop.
EndLoop(why) ==
  /\ log' = IF partial = <<>> THEN log ELSE Append(log, partial)
  /\ partial' = <<>>
  /\ pc' = "done" /\ end' = why

\* Mutant: the exit is never looked at.
TopUnaware ==
  /\ pc = "top"
  /\ IF stopping
       THEN EndLoop("stopped") /\ UNCHANGED seen
       ELSE pc' = "stat" /\ UNCHANGED <<log, partial, end, seen>>
  /\ UNCHANGED <<output, expired, stopping, offset, chunk, unread, drains, saved,
                 crashes, fates>>

\* A stop ends the loop; so does the drain window that the exit has opened.
Top ==
  /\ pc = "top"
  /\ CASE stopping        -> EndLoop("stopped") /\ UNCHANGED seen
       [] ~stopping /\ seen /\ expired -> EndLoop("window") /\ UNCHANGED seen
       [] OTHER -> /\ pc' = "stat" /\ seen' = (seen \/ ~alive)
                   /\ UNCHANGED <<log, partial, end>>
  /\ UNCHANGED <<output, expired, stopping, offset, chunk, unread, drains, saved,
                 crashes, fates>>

\* maybeTruncate's guards: between lines only, and with the file consumed or past
\* its hard ceiling.  Mutant: in the middle of a line as well.
TruncatableAnywhere ==
  offset >= RawCap /\ (Len(file) = offset \/ Len(file) >= HardCap)
Truncatable ==
  /\ offset >= RawCap /\ partial = <<>>
  /\ Len(file) = offset \/ Len(file) >= HardCap

Stat ==
  /\ pc = "stat"
  /\ IF Truncatable
       THEN pc' = "cut" /\ unread' = Len(file) - offset
       ELSE pc' = "read" /\ UNCHANGED unread
  /\ UNCHANGED <<output, expired, stopping, offset, chunk, partial, seen, drains, end,
                 log, saved, crashes, fates>>

\* The truncation.  The note counts what was unread at the stat; a write since
\* then is lost unseen.
Cut ==
  /\ pc = "cut"
  /\ file' = <<>> /\ offset' = 0
  /\ noted' = noted \cup BytesIn(SubSeq(file, offset + 1, offset + unread))
  /\ raced' = raced \cup BytesIn(SubSeq(file, offset + unread + 1, Len(file)))
  /\ pc' = "read" /\ unread' = 0
  /\ UNCHANGED <<written, alive, exitAt, expired, stopping, chunk, partial, seen, drains,
                 end, log, saved, crashes, forfeit>>

\* A read at the offset.  The second empty one after the exit ends the loop.
Read ==
  /\ pc = "read"
  /\ IF Len(file) > offset
       THEN LET n == IF Len(file) - offset < Chunk THEN Len(file) - offset ELSE Chunk
            IN  /\ chunk' = SubSeq(file, offset + 1, offset + n)
                /\ offset' = offset + n
                /\ pc' = "consume" /\ drains' = 0
                /\ UNCHANGED <<log, partial, end>>
       ELSE /\ UNCHANGED <<chunk, offset>>
            /\ drains' = IF seen THEN drains + 1 ELSE drains
            /\ IF drains' > 1
                 THEN EndLoop("drained")
                 ELSE pc' = "pause" /\ UNCHANGED <<log, partial, end>>
  /\ UNCHANGED <<output, expired, stopping, unread, seen, saved, crashes, fates>>

\* The file was removed, or cannot be read any more.
ReadFails ==
  /\ pc = "read"
  /\ EndLoop("unreadable")
  /\ UNCHANGED <<output, expired, stopping, offset, chunk, unread, seen, drains, saved,
                 crashes, fates>>

\* The lines that consume completes in all, and what it leaves: a rest that has
\* grown to MaxLine is cut in pieces.  The pieces that splitLine makes of one
\* line are one entry here.
Increasing(s) == \A j, k \in 1 .. Len(s) : j < k => s[j] < s[k]
EndsOf(all) ==
  LET ends == {i \in 1 .. Len(all) : all[i] \in LineEnds}
  IN  CHOOSE s \in UNION {[1 .. n -> ends] : n \in 0 .. Len(all)} :
        Increasing(s) /\ BytesIn(s) = ends
LinesOf(all) ==
  LET ends == EndsOf(all)
  IN  [j \in 1 .. Len(ends) |->
         SubSeq(all, IF j = 1 THEN 1 ELSE ends[j - 1] + 1, ends[j])]
RestOf(all) ==
  LET ends == EndsOf(all)
  IN  SubSeq(all, IF ends = <<>> THEN 1 ELSE ends[Len(ends)] + 1, Len(all))
PiecesOf(rest) ==
  [k \in 1 .. Len(rest) \div MaxLine |-> SubSeq(rest, (k - 1) * MaxLine + 1, k * MaxLine)]

\* Mutant: a rest is kept whole.
RemainderWhole(rest) == rest
Remainder(rest) == SubSeq(rest, (Len(rest) \div MaxLine) * MaxLine + 1, Len(rest))

\* consume, and the flush that follows it.
Consume ==
  /\ pc = "consume"
  /\ LET all  == partial \o chunk
         rest == RestOf(all)
     IN  /\ log' = log \o LinesOf(all) \o PiecesOf(rest)
         /\ partial' = Remainder(rest)
  /\ chunk' = <<>> /\ pc' = "top"
  /\ UNCHANGED <<output, expired, stopping, offset, unread, seen, drains, end, saved,
                 crashes, fates>>

\* Mutant: an exit seen on waking ends the loop, without another read.
PauseToEnd ==
  /\ pc = "pause"
  /\ CASE stopping            -> EndLoop("stopped")
       [] ~stopping /\ ~alive -> EndLoop("drained")
       [] OTHER               -> pc' = "top" /\ UNCHANGED <<log, partial, end>>
  /\ UNCHANGED <<output, expired, stopping, offset, chunk, unread, seen, drains, saved,
                 crashes, fates>>

\* The wait for the next poll, or the stop.
Pause ==
  /\ pc = "pause"
  /\ IF stopping
       THEN EndLoop("stopped")
       ELSE pc' = "top" /\ UNCHANGED <<log, partial, end>>
  /\ UNCHANGED <<output, expired, stopping, offset, chunk, unread, seen, drains, saved,
                 crashes, fates>>

Follow == Top \/ Stat \/ Cut \/ Read \/ ReadFails \/ Consume \/ Pause

-----------------------------------------------------------------------------
(* The agent *)

Up == pc # "down"

\* persist, on a transition of the record or by the periodic write.
Persist ==
  /\ Up /\ saved # offset
  /\ saved' = offset
  /\ UNCHANGED <<output, expired, stopping, tailer, log, crashes, fates>>

\* The monitor has recorded the exit, and the record is run again: the history
\* goes on and the capture files start over, with whatever is unread in them.
\* Mutant: the files start over and the offset is kept.
StartOverKeepsOffset ==
  /\ pc = "done" /\ ~alive /\ ~stopping
  /\ alive' = TRUE /\ exitAt' = 0
  /\ raced' = raced \cup Ahead
  /\ file' = <<>>
  /\ pc' = "top" /\ end' = "none" /\ seen' = FALSE /\ drains' = 0 /\ expired' = FALSE
  /\ UNCHANGED <<written, stopping, offset, chunk, partial, unread, log, saved, crashes,
                 noted, forfeit>>
StartOver ==
  /\ pc = "done" /\ ~alive /\ ~stopping
  /\ alive' = TRUE /\ exitAt' = 0
  /\ raced' = raced \cup Ahead
  /\ file' = <<>> /\ offset' = 0 /\ saved' = 0
  /\ pc' = "top" /\ end' = "none" /\ seen' = FALSE /\ drains' = 0 /\ expired' = FALSE
  /\ UNCHANGED <<written, stopping, chunk, partial, unread, log, crashes, noted, forfeit>>

\* Supervisor.Close: stop the tailer, wait for it, and write the record last.
BeginClose ==
  /\ Up /\ ~stopping
  /\ stopping' = TRUE
  /\ UNCHANGED <<output, expired, tailer, log, saved, crashes, fates>>

\* What the next agent finds: the offset of the record, and no tailer.
Down(at) ==
  /\ pc' = "down" /\ offset' = at
  /\ chunk' = <<>> /\ partial' = <<>> /\ unread' = 0
  /\ seen' = FALSE /\ drains' = 0 /\ end' = "none"
  /\ expired' = FALSE /\ stopping' = FALSE

\* Mutant: the offsets are read before the tailers have stopped.
FinishCloseEarly ==
  /\ stopping /\ pc = "done"
  /\ Down(saved)
  /\ UNCHANGED <<output, log, saved, crashes, fates>>
FinishClose ==
  /\ stopping /\ pc = "done"
  /\ saved' = offset
  /\ Down(offset)
  /\ UNCHANGED <<output, log, crashes, fates>>

\* The agent is killed: what the record's offset skips and the history does not
\* have is out of reach.
Crash ==
  /\ Up /\ crashes < MaxCrashes
  /\ crashes' = crashes + 1
  /\ forfeit' = forfeit \cup ({file[i] : i \in {j \in DOMAIN file : j <= saved}} \ Logged)
  /\ Down(saved)
  /\ UNCHANGED <<output, log, saved, noted, raced>>

\* The next agent: a process that is still there is followed again, and one that
\* has ended is not.
Adopt ==
  /\ pc = "down"
  /\ pc' = IF alive THEN "top" ELSE "done"
  /\ end' = IF alive THEN "none" ELSE "unfollowed"
  /\ UNCHANGED <<output, expired, stopping, offset, chunk, partial, unread, seen, drains,
                 log, saved, crashes, fates>>

CaptureNext ==
  \/ Write \/ ProcessExits \/ WindowPasses
  \/ Follow
  \/ Persist \/ StartOver \/ BeginClose \/ FinishClose \/ Crash \/ Adopt

CaptureSpec == CaptureInit /\ [][CaptureNext]_captureVars

\* The tailer's goroutine is scheduled and its timers fire.
FairSpec == CaptureSpec /\ WF_captureVars(Follow) /\ WF_captureVars(WindowPasses)

-----------------------------------------------------------------------------
(* Properties *)

Bytes == 0 .. MaxBytes - 1

\* The types, with the bound on a line that never ends (tail.go:68).
CaptureTypes ==
  /\ written \in 0 .. MaxBytes /\ exitAt \in 0 .. MaxBytes
  /\ file \in Seq(Bytes) /\ alive \in BOOLEAN
  /\ expired \in BOOLEAN /\ stopping \in BOOLEAN /\ seen \in BOOLEAN
  /\ pc \in {"top", "stat", "cut", "read", "consume", "pause", "done", "down"}
  /\ end \in {"none", "stopped", "window", "drained", "unreadable", "unfollowed"}
  /\ offset \in Nat /\ saved \in Nat /\ unread \in Int /\ drains \in 0 .. 2
  /\ chunk \in Seq(Bytes) /\ Len(chunk) <= Chunk
  /\ partial \in Seq(Bytes) /\ Len(partial) < MaxLine
  /\ log \in Seq(Seq(Bytes))
  /\ crashes \in 0 .. MaxCrashes
  /\ noted \subseteq Bytes /\ raced \subseteq Bytes /\ forfeit \subseteq Bytes

\* Every byte the process has written is in the history, on its way there or
\* still to be read, or it was discarded in one of the ways the comments own up
\* to: counted in a note, written between a stat and its truncation or after the
\* drain of a run that another has followed, or lost with an agent that was
\* killed (tail.go:275).
Accounted ==
  0 .. written - 1 =
    Logged \cup BytesIn(partial) \cup BytesIn(chunk) \cup Ahead
      \cup noted \cup raced \cup forfeit

\* As long as no agent is killed the history has the output once and in order,
\* across restarts of the process and of the agent (supervisor.go:295).
OnceInOrder ==
  crashes = 0 =>
    \A i, j \in 1 .. Len(log) :
      \A a \in 1 .. Len(log[i]), b \in 1 .. Len(log[j]) :
        i < j \/ (i = j /\ a < b) => log[i][a] < log[j][b]

\* A line of the history is bytes that followed each other: a truncation never
\* joins half of one line to the start of the next (tail.go:269).
LinesWhole ==
  \A i \in 1 .. Len(log) :
    \A a \in 2 .. Len(log[i]) : log[i][a] = log[i][a - 1] + 1

\* A tailer that ended because the file was drained has read all that its process
\* wrote: the monitor records the exit after the final lines (supervisor.go:844).
DrainedSeesAll ==
  end = "drained" => \A n \in Ahead : n >= exitAt

\* The tailer of a process that has ended stops, even if somebody goes on writing
\* to its file: the exit is recorded (tail.go:184).
TailerEnds == Up /\ ~alive ~> pc \in {"done", "down"}
=============================================================================
