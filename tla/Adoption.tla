------------------------------ MODULE Adoption ------------------------------
(***************************************************************************)
(* Supervised processes outlive the agent (src/internal/agent/process):    *)
(* what the record on disk says of a process when its agent dies, how the  *)
(* next agent decides whether the pid in it is still that process          *)
(* (adopt.go), how it watches and signals a process it did not fork        *)
(* (adopt.go, signal.go), and what becomes of the limit on concurrent      *)
(* processes.                                                              *)
(*                                                                         *)
(* A process is a number, which is also its start identity; the kernel     *)
(* gives a free pid to anybody.  The goroutines of one agent that work on  *)
(* one record, and the steps inside a transition, are those of Supervisor: *)
(* here a transition and the write that follows it are one step, EXITED is *)
(* taken together with CRASHED, and one goroutine at a time starts the     *)
(* runs of a record.                                                       *)
(***************************************************************************)
EXTENDS Integers, Sequences, FiniteSets, ProcState

CONSTANTS
  Records,     \* processes that a caller may start
  Pids,        \* the pids of the host
  Foreign,     \* what a process that no agent started was started for
  Always,      \* the records whose policy restarts them
  Probed,      \* the records with a readiness probe
  FirstCap,    \* process.max_concurrent of the first agent
  Caps,        \* and its values for the ones after it
  MaxRestarts, \* max_restarts
  Faults,      \* which of "identity", "read", "capture" and "record" may fail
  Managed,     \* bound: the records that callers stop and restart
  MaxForks,    \* bound: processes started on the host
  MaxDeaths    \* bound: agents that die

ASSUME AdoptionAssumption ==
  /\ Foreign \notin Records /\ Always \subseteq Records /\ Probed \subseteq Records
  /\ Managed \subseteq Records /\ IsFiniteSet(Records)
  /\ Pids \subseteq Nat \ {0} /\ FirstCap \in Nat \ {0} /\ Caps \subseteq Nat \ {0}
  /\ MaxRestarts \in Nat /\ MaxForks \in Nat /\ MaxDeaths \in Nat

VARIABLES
  holder,     \* holder[p]: the process that has pid p, or 0
  origin,     \* origin[n]: what process n was started for
  children,   \* the processes the agent forked and has not collected
  zombies,    \* those of them that have ended
  agent,      \* "up", "adopting" (NewSupervisor has not returned) or "down"
  cap, inUse, \* the agent-wide limit, and the slots taken
  todo,       \* records on disk that adoptAll has still to come to
  mem,        \* mem[r]: the record in the agent
  disk,       \* disk[r]: the record in the state directory
  asked,      \* asked[r]: a signal that has passed its check
  known,      \* processes whose identity has reached the disk (auxiliary)
  struck,     \* strangers that a signal has reached (auxiliary)
  deaths      \* agents that have died

host   == <<holder, origin, children, zombies>>
limits == <<cap, inUse>>
ghosts == <<known, struck, deaths>>
vars   == <<host, agent, limits, todo, mem, disk, asked, ghosts>>

\* No process.
NoFork == [pid |-> 0, sid |-> 0, run |-> 0]
\* run is the group handle of a process this agent forked, fork a process that has
\* not been written down yet, settle who still has to say that the run is up.
NoRecord == [state |-> "UNSPECIFIED", pid |-> 0, sid |-> 0, run |-> 0, fork |-> NoFork,
             watch |-> "none", slot |-> FALSE, disabled |-> FALSE, count |-> 0,
             pc |-> "idle", settle |-> "no", probing |-> FALSE]
NotSaved == [state |-> "UNSPECIFIED", pid |-> 0, sid |-> 0, disabled |-> FALSE, count |-> 0]
NotAsked == [pid |-> 0, seen |-> 0, run |-> 0]

Init ==
  /\ holder = [p \in Pids |-> 0] /\ origin = <<>> /\ children = {} /\ zombies = {}
  /\ agent = "up" /\ cap = FirstCap /\ inUse = 0 /\ todo = {}
  /\ mem = [r \in Records |-> NoRecord] /\ disk = [r \in Records |-> NotSaved]
  /\ asked = [r \in Records |-> NotAsked]
  /\ known = {} /\ struck = {} /\ deaths = 0

Up == agent # "down"
Free == inUse < cap
HolderOf(p) == IF p \in Pids THEN holder[p] ELSE 0
Running(n) == n \notin zombies /\ \E p \in Pids : holder[p] = n

-----------------------------------------------------------------------------
(* Records: memory, disk and slots *)

Saved(x) == [state |-> x.state, pid |-> x.pid, sid |-> x.sid, disabled |-> x.disabled,
             count |-> x.count]
Put(r, x)  == mem' = [mem EXCEPT ![r] = x]
Save(r, x) == Put(r, x) /\ disk' = [disk EXCEPT ![r] = Saved(x)]

\* setState once the move is accepted, and restoreState: the slot is given back
\* on the way out of the live states.
Moved(x, to) ==
  [x EXCEPT !.state = to, !.slot = @ /\ ~(IsLive(x.state) /\ ~IsLive(to))]
\* The slots that go back with it.  Mutant: one, whether it was held or not.
GivenBackBlindly(x, to) == IF IsLive(x.state) /\ ~IsLive(to) THEN 1 ELSE 0
GivenBack(x, to) == IF x.slot /\ IsLive(x.state) /\ ~IsLive(to) THEN 1 ELSE 0

RestoreState(r, x, to) == Save(r, Moved(x, to)) /\ inUse' = inUse - GivenBack(x, to)

Legal(x, to) == x.state = to \/ CanTransition(x.state, to)
SetState(r, x, to) ==
  IF Legal(x, to) THEN RestoreState(r, x, to) ELSE Put(r, x) /\ UNCHANGED <<disk, inUse>>

-----------------------------------------------------------------------------
(* The host *)

\* A process ends.  The agent that forked it has to collect it before the pid is
\* free; one whose agent has died is collected by init.
Die(p) ==
  /\ holder[p] # 0 /\ holder[p] \notin zombies
  /\ IF holder[p] \in children
       THEN zombies' = zombies \cup {holder[p]} /\ UNCHANGED holder
       ELSE holder' = [holder EXCEPT ![p] = 0] /\ UNCHANGED zombies
  /\ UNCHANGED <<origin, children, agent, limits, todo, mem, disk, asked, ghosts>>

NextProcess == Len(origin) + 1
Begin(p, for) ==
  /\ NextProcess <= MaxForks /\ holder[p] = 0
  /\ holder' = [holder EXCEPT ![p] = NextProcess]
  /\ origin' = Append(origin, for)

ForeignStarts(p) ==
  /\ Begin(p, Foreign)
  /\ UNCHANGED <<children, zombies, agent, limits, todo, mem, disk, asked, ghosts>>

-----------------------------------------------------------------------------
(* A run: from the slot to the end *)

StartProcess(r) ==
  /\ agent = "up" /\ mem[r] = NoRecord /\ disk[r] = NotSaved /\ Free
  /\ inUse' = inUse + 1
  /\ Save(r, [NoRecord EXCEPT !.state = "STARTING", !.slot = TRUE, !.pc = "spawn"])
  /\ UNCHANGED <<host, agent, cap, todo, asked, ghosts>>

\* spawn up to the fork, and the read of the child's start identity.
Fork(r) ==
  /\ Up /\ mem[r].pc = "spawn"
  /\ \E p \in Pids, read \in {TRUE} \cup (IF "identity" \in Faults THEN {FALSE} ELSE {}) :
       /\ Begin(p, r)
       /\ Put(r, [mem[r] EXCEPT
            !.pc = "forked",
            !.fork = [pid |-> p, run |-> NextProcess, sid |-> IF read THEN NextProcess ELSE 0]])
  /\ children' = children \cup {NextProcess}
  /\ UNCHANGED <<zombies, agent, limits, todo, disk, asked, ghosts>>

SpawnFails(r) ==
  /\ Up /\ mem[r].pc = "spawn"
  /\ SetState(r, [mem[r] EXCEPT !.pc = "idle"], "CRASHED")
  /\ UNCHANGED <<host, agent, cap, todo, asked, ghosts>>

\* spawn's identity of the run, which is written down before anything else happens
\* to it.  Mutant: the next transition writes it.
Identified(r) ==
  LET x == mem[r]
  IN  [x EXCEPT !.pid = x.fork.pid, !.sid = x.fork.sid, !.run = x.fork.run,
                !.fork = NoFork, !.watch = "monitor", !.pc = "idle",
                !.settle = IF r \in Probed THEN @ ELSE "spawn",
                !.probing = r \in Probed]
Recorded(r) ==
  /\ Up /\ mem[r].pc = "forked"
  /\ known' = known \cup ({mem[r].fork.sid} \ {0})
  /\ UNCHANGED <<host, agent, limits, todo, asked, struck, deaths>>
IdentifyUnwritten(r) == Recorded(r) /\ Put(r, Identified(r)) /\ UNCHANGED disk
Identify(r) == Recorded(r) /\ Save(r, Identified(r))

\* A run without a probe is RUNNING as soon as it is recorded, unless it has ended.
\* Mutant: adoption leaves it to somebody else.
SettleSpawned(r) ==
  /\ Up /\ mem[r].settle = "spawn"
  /\ LET x == [mem[r] EXCEPT !.settle = "no"]
     IN  SetState(r, x, IF Legal(x, "RUNNING") THEN "RUNNING" ELSE "CRASHED")
  /\ UNCHANGED <<host, agent, cap, todo, asked, ghosts>>
Settle(r) ==
  /\ Up /\ mem[r].settle # "no"
  /\ LET x == [mem[r] EXCEPT !.settle = "no"]
     IN  SetState(r, x, IF mem[r].settle = "spawn" /\ ~Legal(x, "RUNNING")
                          THEN "CRASHED" ELSE "RUNNING")
  /\ UNCHANGED <<host, agent, cap, todo, asked, ghosts>>

\* superviseProbe: the probe passes, or says nothing.
ProbeEnds(r) ==
  /\ Up /\ mem[r].probing
  /\ LET x == [mem[r] EXCEPT !.probing = FALSE]
     IN  \/ SetState(r, x, "READY")
         \/ Put(r, x) /\ UNCHANGED <<disk, inUse>>
  /\ UNCHANGED <<host, agent, cap, todo, asked, ghosts>>

\* group.Collect: the child is reaped and its group released.
Collect(p) ==
  /\ Up /\ holder[p] \in zombies
  /\ holder' = [holder EXCEPT ![p] = 0]
  /\ children' = children \ {holder[p]} /\ zombies' = zombies \ {holder[p]}
  /\ UNCHANGED <<origin, agent, limits, todo, mem, disk, asked, ghosts>>

\* The run is over: nobody watches it, and its group is closed.
Ended(r) ==
  /\ SetState(r, [mem[r] EXCEPT !.watch = "none", !.run = 0, !.pc = "ended"], "CRASHED")
  /\ UNCHANGED <<host, agent, cap, todo, asked, ghosts>>

\* The end of a run this agent forked.
Monitor(r) ==
  /\ Up /\ mem[r].watch = "monitor" /\ mem[r].run \notin children
  /\ Ended(r)

\* The end of one it did not fork: the pid is gone, or somebody else's, or the
\* read of it has failed, which SameProcess tells apart from neither.
\* Mutant: only a pid that is gone.
GonePid(r) == HolderOf(mem[r].pid) = 0
Gone(r) == HolderOf(mem[r].pid) # mem[r].sid
WatchAdopted(r) ==
  /\ Up /\ mem[r].watch = "poll"
  /\ \/ /\ ~IsLive(mem[r].state)
        /\ Put(r, [mem[r] EXCEPT !.watch = "none"])
        /\ UNCHANGED <<host, agent, limits, todo, disk, asked, ghosts>>
     \/ /\ IsLive(mem[r].state) /\ (Gone(r) \/ "read" \in Faults)
        /\ Ended(r)

MaybeRestart(r) ==
  /\ Up /\ mem[r].pc = "ended"
  /\ IF /\ r \in Always /\ ~mem[r].disabled /\ mem[r].count < MaxRestarts
        /\ Free /\ Legal(mem[r], "RESTARTING")
       THEN /\ Save(r, [mem[r] EXCEPT !.state = "RESTARTING", !.slot = TRUE, !.pc = "backoff"])
            /\ inUse' = IF mem[r].slot THEN inUse ELSE inUse + 1
       ELSE Put(r, [mem[r] EXCEPT !.pc = "idle"]) /\ UNCHANGED <<disk, inUse>>
  /\ UNCHANGED <<host, agent, cap, todo, asked, ghosts>>

\* The timer of a restart.
Backoff(r) ==
  /\ Up /\ mem[r].pc = "backoff"
  /\ IF mem[r].disabled
       THEN SetState(r, [mem[r] EXCEPT !.pc = "idle"], "CRASHED")
       ELSE LET x == [mem[r] EXCEPT !.count = @ + 1]
            IN  SetState(r, [x EXCEPT !.pc = IF Legal(x, "STARTING") THEN "spawn" ELSE "idle"],
                         "STARTING")
  /\ UNCHANGED <<host, agent, cap, todo, asked, ghosts>>

-----------------------------------------------------------------------------
(* Requests *)

\* gracefulStop: the policy is suppressed and signalRecord looks at who has the pid.
\* Mutant: whoever it is will do.
AskUnchecked(x) == IsLive(x.state) /\ HolderOf(x.pid) # 0
Ask(x) == IsLive(x.state) /\ HolderOf(x.pid) # 0 /\ x.sid \in {0, HolderOf(x.pid)}
StopProcess(r) ==
  /\ agent = "up" /\ mem[r] # NoRecord /\ asked[r] = NotAsked
  /\ Put(r, [mem[r] EXCEPT !.disabled = TRUE])
  /\ asked' = [asked EXCEPT ![r] =
       IF Ask(mem[r])
         THEN [pid |-> mem[r].pid, seen |-> HolderOf(mem[r].pid), run |-> mem[r].run]
         ELSE NotAsked]
  /\ UNCHANGED <<host, agent, limits, todo, disk, ghosts>>

\* The signal itself: through the handle of a process this agent forked, which is
\* refused once it has been collected, and else to whoever has the pid.  Whether
\* the process ends of it is its own step.
Signal(r) ==
  /\ Up /\ asked[r] # NotAsked
  /\ LET hit == IF asked[r].run # 0
                  THEN IF asked[r].run \in children THEN asked[r].run ELSE 0
                  ELSE HolderOf(asked[r].pid)
     IN  struck' = IF hit # 0 /\ origin[hit] # r
                     THEN struck \cup {[process |-> hit, seen |-> asked[r].seen]} ELSE struck
  /\ asked' = [asked EXCEPT ![r] = NotAsked]
  /\ UNCHANGED <<host, agent, limits, todo, mem, disk, known, deaths>>

\* restart, once the record is terminal; an ORPHANED one is refused.  Mutant: the
\* end of the run is not waited for.
RestartableLive(x) == x # NoRecord /\ x.pc = "idle" /\ x.state # "ORPHANED" /\ ~x.slot
Restartable(x) == x.pc = "idle" /\ x.state = "CRASHED"
RestartProcess(r) ==
  /\ agent = "up" /\ Restartable(mem[r])
  /\ IF Free
       THEN /\ inUse' = inUse + 1
            /\ Save(r, [mem[r] EXCEPT !.disabled = FALSE, !.state = "STARTING",
                                      !.slot = TRUE, !.pc = "spawn"])
       ELSE Put(r, [mem[r] EXCEPT !.disabled = FALSE]) /\ UNCHANGED <<disk, inUse>>
  /\ UNCHANGED <<host, agent, cap, todo, asked, ghosts>>

-----------------------------------------------------------------------------
(* One agent after another *)

\* The agent is killed, or closes: what it forked goes on.
AgentDies ==
  /\ Up /\ deaths < MaxDeaths
  /\ deaths' = deaths + 1
  /\ agent' = "down" /\ inUse' = 0 /\ todo' = {}
  /\ mem' = [r \in Records |-> NoRecord] /\ asked' = [r \in Records |-> NotAsked]
  /\ holder' = [p \in Pids |-> IF holder[p] \in zombies THEN 0 ELSE holder[p]]
  /\ children' = {} /\ zombies' = {}
  /\ UNCHANGED <<origin, cap, disk, known, struck>>

AgentStarts ==
  /\ agent = "down"
  /\ agent' = "adopting" /\ cap' \in Caps
  /\ todo' = {r \in Records : disk[r] # NotSaved}
  /\ UNCHANGED <<host, inUse, mem, disk, asked, ghosts>>

\* One record after another; load's order, oldest first, is left open.
Deciding(r) == mem[r].pc \in {"decide", "refused"}
IsNext(r) == agent = "adopting" /\ r \in todo /\ \A s \in Records : ~Deciding(s)

\* The record is rebuilt, with a slot if it was live and there is one.
Restored(r) == [NoRecord EXCEPT !.state = disk[r].state, !.pid = disk[r].pid,
                  !.sid = disk[r].sid, !.disabled = disk[r].disabled, !.count = disk[r].count]
Rebuild(r) ==
  /\ IsNext(r) /\ todo' = todo \ {r}
  /\ IF IsLive(disk[r].state)
       THEN /\ Put(r, [Restored(r) EXCEPT !.slot = Free, !.pc = "decide"])
            /\ inUse' = IF Free THEN inUse + 1 ELSE inUse
       ELSE Put(r, Restored(r)) /\ UNCHANGED inUse
  /\ UNCHANGED <<host, agent, cap, disk, asked, ghosts>>

\* A record that cannot be read, or whose history cannot be opened, is left out.
SkipRecord(r) ==
  /\ IsNext(r) /\ "record" \in Faults
  /\ todo' = todo \ {r}
  /\ UNCHANGED <<host, agent, limits, mem, disk, asked, ghosts>>

\* adoptionDecision's two facts.
Proven(x) == x.state # "RESTARTING" /\ x.sid # 0 /\ HolderOf(x.pid) = x.sid

\* An adopted process is watched only if its output could be followed.
AdoptionDecision(r) ==
  /\ Up /\ mem[r].pc = "decide"
  /\ \/ /\ Proven(mem[r])
        /\ \E watch \in {"poll"} \cup (IF "capture" \in Faults THEN {"none"} ELSE {}) :
             LET starting == mem[r].state = "STARTING"
             IN  Save(r, [mem[r] EXCEPT !.pc = "idle", !.watch = watch,
                            !.settle = IF starting /\ r \notin Probed THEN "adopt" ELSE "no",
                            !.probing = starting /\ r \in Probed])
     \/ /\ ~Proven(mem[r]) \/ "read" \in Faults
        /\ Put(r, [mem[r] EXCEPT !.pc = "refused"]) /\ UNCHANGED disk
  /\ UNCHANGED <<host, agent, limits, todo, asked, ghosts>>

\* orphanOrTerminal looks at the pid again; a read that fails is taken for a pid
\* that is gone.
NotAdopted(x) ==
  IF x.state = "RESTARTING" \/ HolderOf(x.pid) = 0 THEN {"CRASHED"}
  ELSE {"ORPHANED"} \cup (IF "read" \in Faults THEN {"CRASHED"} ELSE {})

\* Mutant: the slot is not given back.
OrphanKeepsSlot(r) ==
  /\ Up /\ mem[r].pc = "refused"
  /\ \E to \in NotAdopted(mem[r]) : Save(r, [mem[r] EXCEPT !.pc = "idle", !.state = to])
  /\ UNCHANGED <<host, agent, limits, todo, asked, ghosts>>
OrphanOrTerminal(r) ==
  /\ Up /\ mem[r].pc = "refused"
  /\ \E to \in NotAdopted(mem[r]) : RestoreState(r, [mem[r] EXCEPT !.pc = "idle"], to)
  /\ UNCHANGED <<host, agent, cap, todo, asked, ghosts>>

AllAdopted ==
  /\ agent = "adopting" /\ todo = {} /\ \A r \in Records : ~Deciding(r)
  /\ agent' = "up"
  /\ UNCHANGED <<host, limits, todo, mem, disk, asked, ghosts>>

-----------------------------------------------------------------------------
(* The specification *)

Host == \E p \in Pids : Die(p) \/ ForeignStarts(p)

Run(r) ==
  \/ Fork(r) \/ SpawnFails(r) \/ Identify(r) \/ Settle(r) \/ ProbeEnds(r)
  \/ Monitor(r) \/ WatchAdopted(r) \/ MaybeRestart(r) \/ Backoff(r)

Adopt(r) == Rebuild(r) \/ SkipRecord(r) \/ AdoptionDecision(r) \/ OrphanOrTerminal(r)

Request ==
  \/ \E r \in Records : StartProcess(r) \/ Signal(r)
  \/ \E r \in Managed : StopProcess(r) \/ RestartProcess(r)

Collects == \E p \in Pids : Collect(p)
Adopts   == AllAdopted \/ \E r \in Records : Adopt(r)

Next ==
  \/ Host \/ Collects \/ Adopts \/ \E r \in Records : Run(r)
  \/ Request \/ AgentDies \/ AgentStarts

Spec == Init /\ [][Next]_vars

\* An agent that is up goes on: its goroutines are scheduled, its tickers fire, and
\* its children are collected once they have ended.
Fairness == WF_vars(Collects) /\ WF_vars(Adopts) /\ \A r \in Records : WF_vars(Run(r))
FairSpec == Spec /\ Fairness

-----------------------------------------------------------------------------
(* Properties *)

Forks == 0 .. MaxForks
PidOr0 == Pids \cup {0}
Identity == [pid : PidOr0, sid : Forks, run : Forks]
Disk == [state : States, pid : PidOr0, sid : Forks, disabled : BOOLEAN,
         count : 0 .. MaxRestarts]
Memory ==
  [state : States, pid : PidOr0, sid : Forks, run : Forks, fork : Identity,
   watch : {"none", "monitor", "poll"}, slot : BOOLEAN, disabled : BOOLEAN,
   count : 0 .. MaxRestarts,
   pc : {"idle", "spawn", "forked", "ended", "backoff", "decide", "refused"},
   settle : {"no", "spawn", "adopt"}, probing : BOOLEAN]

\* The types, with the bound on policy restarts: a budget survives the agent.
TypeOK ==
  /\ holder \in [Pids -> Forks] /\ origin \in Seq(Records \cup {Foreign})
  /\ zombies \subseteq children /\ children \subseteq 1 .. Len(origin)
  /\ agent \in {"up", "adopting", "down"} /\ cap \in Caps \cup {FirstCap} /\ inUse \in 0 .. cap
  /\ todo \subseteq Records
  /\ mem \in [Records -> Memory] /\ disk \in [Records -> Disk]
  /\ asked \in [Records -> [pid : PidOr0, seen : Forks, run : Forks]]
  /\ known \subseteq 1 .. Len(origin) /\ struck \subseteq [process : Forks, seen : Forks]
  /\ deaths \in 0 .. MaxDeaths

\* The limit is kept across agents (adopt.go:138): every slot taken is held by a
\* live record, and every run this agent forked holds one; only an adopted
\* process may be without.
SlotsKept ==
  /\ inUse = Cardinality({r \in Records : mem[r].slot})
  /\ \A r \in Records : mem[r].slot => IsLive(mem[r].state)
  /\ \A r \in Records :
       IsLive(mem[r].state) /\ (mem[r].run # 0 \/ mem[r].pc = "spawn") => mem[r].slot

\* A process whose identity was recorded is never taken for dead while it runs
\* (supervisor.go:739, adopt.go:295).
RunningNotDead ==
  \A r \in Records, n \in known :
    origin[n] = r /\ Running(n) => mem[r].state # "CRASHED"

\* A record never has two runs of which the disk has known the identity.
OneRunKnown ==
  \A m, n \in known : origin[m] = origin[n] /\ Running(m) /\ Running(n) => m = n

\* A signal reaches a process that is not the record's only if that took the pid
\* between the check and the signal (signal.go:25, 116).
StrangersSafe == \A s \in struck : s.process # s.seen

\* A process that an agent did not fork is missed when it goes (adopt.go:32), as
\* long as the agent could follow its output.
GoneIsNoticed ==
  \A r \in Records :
    mem[r].watch = "poll" /\ IsLive(mem[r].state) /\ HolderOf(mem[r].pid) # mem[r].sid
      ~> mem[r].watch # "poll" \/ ~IsLive(mem[r].state)

\* A record without a probe does not stay STARTING, whichever agent it was left
\* to (adopt.go:227).
StartingIsDecided ==
  \A r \in Records \ Probed :
    mem[r].state = "STARTING" ~> mem[r].state # "STARTING"
=============================================================================
