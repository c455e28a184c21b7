----------------------------- MODULE Supervisor -----------------------------
(***************************************************************************)
(* One lifetime of the process supervisor of fleet-agent                   *)
(* (src/internal/agent/process): the RPC goroutines that start, signal,    *)
(* stop, restart and remove supervised processes, and the goroutines the   *)
(* supervisor runs for every spawned run of a process: a monitor, a        *)
(* readiness probe and a restart timer.                                    *)
(*                                                                         *)
(* A step is what a goroutine does between two points at which another one *)
(* can get in: one critical section, one channel operation, one system     *)
(* call.  setState is three steps, as in the code: the transition under    *)
(* r.mu, then the slot given back, then the live count and the disk write. *)
(* Timers fire at any moment, since the model does not measure time.       *)
(***************************************************************************)
EXTENDS Integers, FiniteSets, ProcState

CONSTANTS
  Calls,          \* RPC goroutines; a StartProcess call's record bears its name
  NoCall,         \* no call, hence no record
  Names,          \* the labels processes are started under
  MaxRuns,        \* bound: OS processes that can be forked in a behaviour
  MaxConcurrent,  \* process.max_concurrent, the capacity of the shared limiter
  MaxRestarts,    \* max_restarts of every record
  Policies,       \* restart policies a start may ask for
  Probed,         \* whether a start may configure a readiness probe
  Ops,            \* the requests clients make: [kind, flag]
  Shutdown        \* whether the supervisor is ever closed

Runs    == 1 .. MaxRuns
OpKinds == {"start", "stop", "signal", "restart", "remove"}
NoOp    == [kind |-> "none", flag |-> FALSE]

\* The goroutines of the n-th run: its monitor, its probe when one is
\* configured, and the timer its end may leave behind for a restart.
Mon(n)   == <<"monitor", n>>
Probe(n) == <<"probe", n>>
Timer(n) == <<"timer", n>>
Helpers  == {"monitor", "probe", "timer"} \X Runs
Goroutines == Calls \cup Helpers

ASSUME SupervisorAssumption ==
  /\ IsFiniteSet(Calls) /\ NoCall \notin Calls /\ Calls \cap Helpers = {}
  /\ MaxRuns \in Nat
  /\ MaxConcurrent \in Nat \ {0}
  /\ MaxRestarts \in Nat
  /\ Policies \subseteq {"never", "on_failure", "always"}
  /\ Probed \subseteq BOOLEAN
  /\ Ops \subseteq [kind : OpKinds, flag : BOOLEAN]
  /\ Shutdown \in BOOLEAN

VARIABLES
  rec,         \* rec[c]: the record started by call c
  registered,  \* s.records: the records a lookup finds
  admitted,    \* s.admitted: starts that have claimed a name, not yet live
  recSlot,     \* records whose slot field holds a release function
  goSlot,      \* goroutines holding a slot they have not yet attached
  inUse,       \* tokens in the limiter's channel
  live,        \* s.live, what HostService.Health reports
  disk,        \* disk[c]: the persisted record, or NoRecord
  proc,        \* proc[n]: the n-th forked OS process
  go,          \* go[g]: where goroutine g is
  phase        \* open, closing (ctx cancelled), closed (Close has returned)

vars == <<rec, registered, admitted, recSlot, goSlot, inUse, live, disk, proc, go,
          phase>>

NoRecord == [state |-> "none", cur |-> 0]

Init ==
  /\ rec = [c \in Calls |->
              [state |-> "UNSPECIFIED", name |-> "none", policy |-> "never",
               probe |-> FALSE, cur |-> 0, disabled |-> FALSE, restarts |-> 0,
               exit |-> "none", removed |-> FALSE]]
  /\ registered = {} /\ admitted = {}
  /\ recSlot = {} /\ goSlot = {} /\ inUse = 0 /\ live = 0
  /\ disk = [c \in Calls |-> NoRecord]
  /\ proc = [n \in Runs |-> [os |-> "unborn", owner |-> NoCall, spoke |-> FALSE]]
  /\ go = [g \in Goroutines |->
             [pc |-> "idle", rec |-> NoCall, run |-> 0, todo |-> {}, op |-> NoOp]]
  /\ phase = "open"

-----------------------------------------------------------------------------
(* Steps common to the goroutines. *)

At(g, label) == go[g].pc = label /\ go[g].todo = {}
Target(g) == go[g].rec
Kind(g) == go[g].op.kind

\* The goroutine moves on, leaving the effects in todo for its next steps.
Goto(g, label, todo) == go' = [go EXCEPT ![g].pc = label, ![g].todo = todo]

\* setState refuses a move the table forbids and accepts a repeated one.
Accepts(r, to) == rec[r].state = to \/ CanTransition(rec[r].state, to)

\* Mutants: the slot goes back as soon as the run has ended; the live count is
\* left to somebody else.
AftermathEarly(r, to) ==
  {"refresh", "persist"} \cup (IF to \in {"STARTING", "RUNNING", "READY"} THEN {}
                              ELSE {"drop"})
AftermathNoRefresh(r, to) ==
  {"persist"} \cup (IF IsLive(rec[r].state) /\ ~IsLive(to) THEN {"drop"} ELSE {})

\* What setState does after it unlocks: a record that stops being live gives
\* its slot back, then the live count and the disk follow.
Aftermath(r, to) ==
  {"refresh", "persist"}
    \cup (IF IsLive(rec[r].state) /\ ~IsLive(to) THEN {"drop"} ELSE {})

SetState(g, to, label) ==
  /\ rec' = [rec EXCEPT ![Target(g)].state = to]
  /\ Goto(g, label, Aftermath(Target(g), to))

\* Mutant: the release is not called.
GiveBackNever(r) == recSlot' = recSlot \ {r} /\ UNCHANGED inUse

\* dropSlot: safe when no slot is held.
GiveBack(r) ==
  IF r \in recSlot
    THEN recSlot' = recSlot \ {r} /\ inUse' = inUse - 1
    ELSE UNCHANGED <<recSlot, inUse>>

DropSlot(g) ==
  /\ "drop" \in go[g].todo
  /\ go' = [go EXCEPT ![g].todo = @ \ {"drop"}]
  /\ GiveBack(Target(g))
  /\ UNCHANGED <<rec, registered, admitted, goSlot, live, disk, proc, phase>>

LiveRecords == {r \in registered : IsLive(rec[r].state)}
Snapshot(r) == [state |-> rec[r].state, cur |-> rec[r].cur]

\* A removed record is not written again.  Mutant: the flag is not consulted.
PersistAlways(r) == TRUE
Persistable(r) == ~rec[r].removed

\* refreshLive and persist.  Nothing a goroutine decides on reads the live
\* count, so one step stands for both.
Settle(g) ==
  /\ go[g].todo \notin {{}} /\ "drop" \notin go[g].todo
  /\ live' = IF "refresh" \in go[g].todo THEN Cardinality(LiveRecords) ELSE live
  /\ disk' = IF "persist" \in go[g].todo /\ Persistable(Target(g))
               THEN [disk EXCEPT ![Target(g)] = Snapshot(Target(g))] ELSE disk
  /\ go' = [go EXCEPT ![g].todo = {}]
  /\ UNCHANGED <<rec, registered, admitted, recSlot, goSlot, inUse, proc, phase>>

\* A refused or failed call: every way out of start releases the reservation.
Abort(g) == Goto(g, "done", {}) /\ admitted' = admitted \ {g}

\* Acquire gives up when no slot comes free within slotWait, or at the shutdown.
\* Mutant: no deadline.
NoDeadline == phase # "open"
Refused == inUse >= MaxConcurrent \/ phase # "open"

\* Policy.Acquire under the slotWait deadline and the supervisor's context.
AcquireSlot(g) ==
  /\ At(g, "acquire")
  /\ \/ /\ inUse < MaxConcurrent
        /\ inUse' = inUse + 1 /\ goSlot' = goSlot \cup {g}
        /\ Goto(g, IF Kind(g) = "start" THEN "create" ELSE "hold", {})
        /\ UNCHANGED admitted
     \/ /\ Refused
        /\ Abort(g)
        /\ UNCHANGED <<inUse, goSlot>>
  /\ UNCHANGED <<rec, registered, recSlot, live, disk, proc, phase>>

\* holdSlot: a record that already holds a slot keeps it, the new one goes back.
Attach(g, r) ==
  /\ goSlot' = goSlot \ {g}
  /\ IF r \in recSlot
       THEN inUse' = inUse - 1 /\ UNCHANGED recSlot
       ELSE recSlot' = recSlot \cup {r} /\ UNCHANGED inUse

HoldSlot(g) ==
  /\ At(g, "hold")
  /\ Attach(g, Target(g))
  /\ Goto(g, "restarting", {})
  /\ UNCHANGED <<rec, registered, admitted, live, disk, proc, phase>>

\* A restart, automatic or asked for, enters RESTARTING; only the automatic one
\* then waits out its backoff.
MarkRestarting(g) ==
  /\ At(g, "restarting")
  /\ IF Accepts(Target(g), "RESTARTING")
       THEN SetState(g, "RESTARTING", IF g \in Calls THEN "starting" ELSE "schedule")
       ELSE Goto(g, "done", {"drop"}) /\ UNCHANGED rec
  /\ UNCHANGED <<registered, admitted, recSlot, goSlot, inUse, live, disk, proc, phase>>

\* Every spawn is preceded by STARTING.
MarkStarting(g) ==
  /\ At(g, "starting")
  /\ IF Accepts(Target(g), "STARTING")
       THEN /\ SetState(g, "STARTING", IF Kind(g) = "start" THEN "release" ELSE "spawn")
            /\ UNCHANGED admitted
       ELSE /\ Goto(g, "done", IF Kind(g) = "start" THEN {"drop"} ELSE {})
            /\ admitted' = admitted \ {g}
            /\ UNCHANGED rec
  /\ UNCHANGED <<registered, recSlot, goSlot, inUse, live, disk, proc, phase>>

-----------------------------------------------------------------------------
(* spawn: fork the command, record the run, start its goroutines. *)

NextRun(n) == proc[n].os = "unborn" /\ \A m \in 1 .. n - 1 : proc[m].os # "unborn"

\* The capture files, the group or the fork can fail; otherwise there is an OS
\* process from here on, and the record does not name it yet.
Fork(g) ==
  /\ At(g, "spawn")
  /\ \/ Goto(g, "failed", {}) /\ UNCHANGED proc
     \/ \E n \in Runs :
          /\ NextRun(n)
          /\ proc' = [proc EXCEPT ![n] = [os |-> "alive", owner |-> Target(g),
                                          spoke |-> FALSE]]
          /\ go' = [go EXCEPT ![g].pc = "record", ![g].run = n]
  /\ UNCHANGED <<rec, registered, admitted, recSlot, goSlot, inUse, live, disk, phase>>

\* The run's identity goes into the record and to disk before anything else.
\* Mutant: the next transition is left to write it.
RecordRunLater(g) ==
  /\ At(g, "record")
  /\ rec' = [rec EXCEPT ![Target(g)].cur = go[g].run, ![Target(g)].exit = "none"]
  /\ Goto(g, "watch", {})
  /\ UNCHANGED <<registered, admitted, recSlot, goSlot, inUse, live, disk, proc, phase>>
RecordRun(g) ==
  /\ At(g, "record")
  /\ rec' = [rec EXCEPT ![Target(g)].cur = go[g].run, ![Target(g)].exit = "none"]
  /\ Goto(g, "watch", {"persist"})
  /\ UNCHANGED <<registered, admitted, recSlot, goSlot, inUse, live, disk, proc, phase>>

\* restart recomputes the live count once more on its way out.
AfterSpawn(g) == IF Kind(g) = "restart" THEN {"refresh"} ELSE {}

Helper(g, label) == [pc |-> label, rec |-> Target(g), run |-> go[g].run, todo |-> {},
                     op |-> NoOp]

\* The monitor starts; a probed process stays STARTING and its probe starts, and
\* one without a probe is about to be marked RUNNING.
WatchRun(g) ==
  /\ At(g, "watch")
  /\ LET n == go[g].run IN
       IF rec[Target(g)].probe
         THEN go' = [go EXCEPT ![Mon(n)] = Helper(g, "wait"),
                               ![Probe(n)] = Helper(g, "probing"),
                               ![g].pc = "done", ![g].todo = AfterSpawn(g)]
         ELSE go' = [go EXCEPT ![Mon(n)] = Helper(g, "wait"), ![g].pc = "running"]
  /\ UNCHANGED <<rec, registered, admitted, recSlot, goSlot, inUse, live, disk, proc,
                 phase>>

MarkRunning(g) ==
  /\ At(g, "running")
  /\ IF Accepts(Target(g), "RUNNING")
       THEN SetState(g, "RUNNING", "done")
       ELSE Goto(g, "failed", {}) /\ UNCHANGED rec
  /\ UNCHANGED <<registered, admitted, recSlot, goSlot, inUse, live, disk, proc, phase>>

\* Every caller of spawn answers its error by marking the record CRASHED with an
\* exit code of -1, if the table lets it.
SpawnFailed(g) ==
  /\ At(g, "failed")
  /\ IF Accepts(Target(g), "CRASHED")
       THEN /\ rec' = [rec EXCEPT ![Target(g)].state = "CRASHED",
                                  ![Target(g)].exit = "lost"]
            /\ Goto(g, "done", Aftermath(Target(g), "CRASHED"))
       ELSE Goto(g, "done", AfterSpawn(g)) /\ UNCHANGED rec
  /\ UNCHANGED <<registered, admitted, recSlot, goSlot, inUse, live, disk, proc, phase>>

-----------------------------------------------------------------------------
(* The operating system: a process may print its readiness line, and end. *)

Announce(n) ==
  /\ proc[n].os = "alive" /\ ~proc[n].spoke /\ rec[proc[n].owner].probe
  /\ proc' = [proc EXCEPT ![n].spoke = TRUE]
  /\ UNCHANGED <<rec, registered, admitted, recSlot, goSlot, inUse, live, disk, go, phase>>

Exit(n, how) ==
  /\ proc[n].os = "alive"
  /\ proc' = [proc EXCEPT ![n].os = how]
  /\ UNCHANGED <<rec, registered, admitted, recSlot, goSlot, inUse, live, disk, go, phase>>

-----------------------------------------------------------------------------
(* The monitor of a run: reap, record the exit, apply the restart policy. *)

Exited(n) == proc[n].os \in {"ok", "fail"}

\* Mutants: the restart does not wait for the reap; the monitor waits for the
\* reap alone.
RestartUnreaped(n) ==
  /\ At(Mon(n), "wait") /\ Goto(Mon(n), "acquire", {})
  /\ UNCHANGED <<rec, registered, admitted, recSlot, goSlot, inUse, live, disk, proc,
                 phase>>
ReapOnly(n) ==
  /\ At(Mon(n), "wait") /\ Exited(n) /\ Goto(Mon(n), "exit", {})
  /\ UNCHANGED <<rec, registered, admitted, recSlot, goSlot, inUse, live, disk, proc,
                 phase>>

\* The reap and the supervisor's shutdown race in a select.  A monitor that sees
\* the shutdown concludes nothing.
Reap(n) ==
  /\ At(Mon(n), "wait")
  /\ \/ Exited(n) /\ Goto(Mon(n), "exit", {})
     \/ phase # "open" /\ Goto(Mon(n), "done", {})
  /\ UNCHANGED <<rec, registered, admitted, recSlot, goSlot, inUse, live, disk, proc,
                 phase>>

RecordExit(n) ==
  /\ At(Mon(n), "exit")
  /\ LET r == Target(Mon(n))
         to == IF proc[n].os = "ok" THEN "EXITED" ELSE "CRASHED" IN
       IF Accepts(r, to)
         THEN /\ rec' = [rec EXCEPT ![r].state = to, ![r].exit = proc[n].os]
              /\ Goto(Mon(n), "policy", Aftermath(r, to))
         ELSE Goto(Mon(n), "policy", {}) /\ UNCHANGED rec
  /\ UNCHANGED <<registered, admitted, recSlot, goSlot, inUse, live, disk, proc, phase>>

\* The restart budget.  Mutant: off by one.
SpentLate(count) == count > MaxRestarts
Spent(count) == count >= MaxRestarts

\* maybeRestart.  A run that outlasted the stability window resets the counter;
\* the decision is made on one reading of the record and acted on later.
ApplyPolicy(n) ==
  /\ At(Mon(n), "policy")
  /\ \E stable \in BOOLEAN :
       LET r == Target(Mon(n))
           count == IF stable THEN 0 ELSE rec[r].restarts
           wanted == /\ ~rec[r].disabled
                     /\ \/ rec[r].policy = "always"
                        \/ rec[r].policy = "on_failure" /\ proc[n].os = "fail" IN
       /\ rec' = [rec EXCEPT ![r].restarts = count]
       /\ \/ ~wanted /\ Goto(Mon(n), "done", {})
          \/ wanted /\ Spent(count) /\ Goto(Mon(n), "giveup", {})
          \/ wanted /\ ~Spent(count) /\ Goto(Mon(n), "acquire", {})
  /\ UNCHANGED <<registered, admitted, recSlot, goSlot, inUse, live, disk, proc, phase>>

\* The budget is spent: CRASHED, if the table lets it.
GiveUp(n) ==
  /\ At(Mon(n), "giveup")
  /\ LET r == Target(Mon(n)) IN
       IF rec[r].state # "CRASHED" /\ Accepts(r, "CRASHED")
         THEN SetState(Mon(n), "CRASHED", "done")
         ELSE Goto(Mon(n), "done", {}) /\ UNCHANGED rec
  /\ UNCHANGED <<registered, admitted, recSlot, goSlot, inUse, live, disk, proc, phase>>

Schedule(n) ==
  /\ At(Mon(n), "schedule")
  /\ go' = [go EXCEPT ![Timer(n)] = [go[Mon(n)] EXCEPT !.pc = "backoff"],
                      ![Mon(n)].pc = "done"]
  /\ UNCHANGED <<rec, registered, admitted, recSlot, goSlot, inUse, live, disk, proc,
                 phase>>

-----------------------------------------------------------------------------
(* The restart timer of a run that has ended. *)

\* A shutdown abandons the restart.  Otherwise a stop that landed during the
\* backoff cancels it, and the check is made once.
Backoff(n) ==
  /\ At(Timer(n), "backoff")
  /\ LET r == Target(Timer(n)) IN
       \/ phase # "open" /\ Goto(Timer(n), "done", {}) /\ UNCHANGED rec
       \/ rec[r].disabled /\ Goto(Timer(n), "cancel", {}) /\ UNCHANGED rec
       \/ /\ ~rec[r].disabled
          /\ rec' = [rec EXCEPT ![r].restarts = @ + 1]
          /\ Goto(Timer(n), "starting", {})
  /\ UNCHANGED <<registered, admitted, recSlot, goSlot, inUse, live, disk, proc, phase>>

Cancel(n) ==
  /\ At(Timer(n), "cancel")
  /\ IF Accepts(Target(Timer(n)), "CRASHED")
       THEN SetState(Timer(n), "CRASHED", "done")
       ELSE Goto(Timer(n), "done", {}) /\ UNCHANGED rec
  /\ UNCHANGED <<registered, admitted, recSlot, goSlot, inUse, live, disk, proc, phase>>

-----------------------------------------------------------------------------
(* The readiness probe of a run. *)

\* Evidence is what the run, or by then a later one of the record, has printed.
\* The probe ends without a verdict on a terminal state, its timeout, or the
\* shutdown.
ProbeRun(n) ==
  /\ At(Probe(n), "probing")
  /\ \/ /\ \E m \in n .. MaxRuns : proc[m].owner = Target(Probe(n)) /\ proc[m].spoke
        /\ Goto(Probe(n), "passed", {})
     \/ Goto(Probe(n), "done", {})
  /\ UNCHANGED <<rec, registered, admitted, recSlot, goSlot, inUse, live, disk, proc,
                 phase>>

MarkReady(n) ==
  /\ At(Probe(n), "passed")
  /\ IF Accepts(Target(Probe(n)), "READY")
       THEN SetState(Probe(n), "READY", "done")
       ELSE Goto(Probe(n), "done", {}) /\ UNCHANGED rec
  /\ UNCHANGED <<registered, admitted, recSlot, goSlot, inUse, live, disk, proc, phase>>

-----------------------------------------------------------------------------
(* StartProcess: claim the name, replace, take a slot, create the record. *)

\* A start of this name is on its way.
Claimed(name) == \E a \in admitted : rec[a].name = name

Rivals(name) == {r \in registered : IsLive(rec[r].state) /\ rec[r].name = name}

\* The name check and the claim are one critical section of s.mu.  A start that
\* replaces stops the live record of that name first.
StartProcess(c, o, name, policy, probe) ==
  /\ At(c, "idle") /\ o.kind = "start"
  /\ LET refused == phase # "open" \/ Claimed(name) \/ (Rivals(name) # {} /\ ~o.flag)
         target  == IF Rivals(name) = {} THEN {c} ELSE Rivals(name) IN
       IF refused
         THEN Goto(c, "done", {}) /\ UNCHANGED <<rec, admitted>>
         ELSE /\ admitted' = admitted \cup {c}
              /\ rec' = [rec EXCEPT ![c].name = name, ![c].policy = policy,
                                    ![c].probe = probe]
              /\ \E r \in target :
                   go' = [go EXCEPT ![c].pc = IF r = c THEN "acquire" ELSE "disable",
                                    ![c].rec = r, ![c].op = o]
  /\ UNCHANGED <<registered, recSlot, goSlot, inUse, live, disk, proc, phase>>

\* The directory or the log file can fail.  Otherwise the new record holds the
\* slot, and joins s.records unless the supervisor has started to close.
CreateRecord(c) ==
  /\ At(c, "create")
  /\ \/ /\ goSlot' = goSlot \ {c} /\ inUse' = inUse - 1
        /\ Abort(c) /\ UNCHANGED <<registered, recSlot>>
     \/ /\ Attach(c, c)
        /\ IF phase # "open"
             THEN Abort(c) /\ UNCHANGED registered
             ELSE /\ registered' = registered \cup {c}
                  /\ go' = [go EXCEPT ![c].pc = "starting", ![c].rec = c]
                  /\ UNCHANGED admitted
  /\ UNCHANGED <<rec, live, disk, proc, phase>>

\* The record is STARTING, hence live, and holds the name itself.
ReleaseName(c) ==
  /\ At(c, "release")
  /\ admitted' = admitted \ {c}
  /\ Goto(c, "spawn", {})
  /\ UNCHANGED <<rec, registered, recSlot, goSlot, inUse, live, disk, proc, phase>>

-----------------------------------------------------------------------------
(* SignalProcess, RestartProcess and RemoveProcess begin with a lookup. *)

EntryPoint(o) ==
  CASE o.kind = "stop" -> "term" [] o.kind = "signal" -> "signal"
    [] o.kind = "restart" -> "suppress" [] o.kind = "remove" -> "inspect"

\* disable_restart (the stop's flag) is recorded and written to disk at once.
Request(c, o, r) ==
  /\ At(c, "idle") /\ o.kind # "start"
  /\ r \in registered
  /\ LET disable == o.kind = "stop" /\ o.flag IN
       /\ rec' = [rec EXCEPT ![r].disabled = @ \/ disable]
       /\ go' = [go EXCEPT ![c].pc = EntryPoint(o), ![c].rec = r, ![c].op = o,
                           ![c].todo = IF disable THEN {"persist"} ELSE {}]
  /\ UNCHANGED <<registered, admitted, recSlot, goSlot, inUse, live, disk, proc, phase>>

\* signalRecord reaches the run the record names while the record is live and
\* the run has not been collected; a run that has ended but is not yet reaped
\* may go either way.
Reachable(r) ==
  /\ IsLive(rec[r].state) /\ rec[r].cur # 0
  /\ LET n == rec[r].cur IN proc[n].os = "alive" \/ go[Mon(n)].pc = "wait"
Gone(r) ==
  \/ ~IsLive(rec[r].state) \/ rec[r].cur = 0
  \/ rec[r].cur # 0 /\ Exited(rec[r].cur)

KillRun(r) ==
  proc' = [proc EXCEPT ![rec[r].cur].os = IF @ = "alive" THEN "fail" ELSE @]

\* What follows a successful stop depends on who asked for it.
AfterStop(c) ==
  CASE Kind(c) = "start" -> "acquire" [] Kind(c) = "stop" -> "done"
    [] OTHER -> "await"

\* gracefulStop on behalf of a replacement, a restart or a removal suppresses
\* the restart policy first.
Disable(c) ==
  /\ At(c, "disable")
  /\ rec' = [rec EXCEPT ![Target(c)].disabled = TRUE]
  /\ Goto(c, "term", {})
  /\ UNCHANGED <<registered, admitted, recSlot, goSlot, inUse, live, disk, proc, phase>>

\* A TERM leaves the process free to exit or not.
Terminate(c) ==
  /\ At(c, "term")
  /\ \/ Reachable(Target(c)) /\ Goto(c, "grace", {})
     \/ Gone(Target(c)) /\ Goto(c, AfterStop(c), {})
  /\ UNCHANGED <<rec, registered, admitted, recSlot, goSlot, inUse, live, disk, proc,
                 phase>>

\* awaitExit takes RESTARTING for stopped.
Stopped(r) == IsTerminal(rec[r].state) \/ rec[r].state = "RESTARTING"

AwaitGrace(c) ==
  /\ At(c, "grace")
  /\ \/ Stopped(Target(c)) /\ Goto(c, AfterStop(c), {})
     \/ Goto(c, "kill", {})
  /\ UNCHANGED <<rec, registered, admitted, recSlot, goSlot, inUse, live, disk, proc,
                 phase>>

Kill(c) ==
  /\ At(c, "kill")
  /\ \/ Reachable(Target(c)) /\ KillRun(Target(c)) /\ Goto(c, "killed", {})
     \/ Gone(Target(c)) /\ Goto(c, AfterStop(c), {}) /\ UNCHANGED proc
  /\ UNCHANGED <<rec, registered, admitted, recSlot, goSlot, inUse, live, disk, phase>>

\* killGrace can run out, and then the whole call fails.
AwaitKill(c) ==
  /\ At(c, "killed")
  /\ \/ Stopped(Target(c)) /\ Goto(c, AfterStop(c), {}) /\ UNCHANGED admitted
     \/ Abort(c)
  /\ UNCHANGED <<rec, registered, recSlot, goSlot, inUse, live, disk, proc, phase>>

\* A plain SIGKILL: no grace, no wait, the restart policy left alone.
SignalOnce(c) ==
  /\ At(c, "signal")
  /\ \/ Reachable(Target(c)) /\ KillRun(Target(c))
     \/ Gone(Target(c)) /\ UNCHANGED proc
  /\ Goto(c, "done", {})
  /\ UNCHANGED <<rec, registered, admitted, recSlot, goSlot, inUse, live, disk, phase>>

\* restart suppresses the policy across the whole stop, and stops a live record.
Suppress(c) ==
  /\ At(c, "suppress")
  /\ rec' = [rec EXCEPT ![Target(c)].disabled = TRUE]
  /\ Goto(c, "check", {})
  /\ UNCHANGED <<registered, admitted, recSlot, goSlot, inUse, live, disk, proc, phase>>

CheckLive(c) ==
  /\ At(c, "check")
  /\ Goto(c, IF IsLive(rec[Target(c)].state) THEN "disable" ELSE "await", {})
  /\ UNCHANGED <<rec, registered, admitted, recSlot, goSlot, inUse, live, disk, proc,
                 phase>>

\* awaitTerminal, for restart and remove: RESTARTING is not enough.
AwaitTerminal(c) ==
  /\ At(c, "await")
  /\ \/ /\ IsTerminal(rec[Target(c)].state)
        /\ Goto(c, IF Kind(c) = "restart" THEN "enable" ELSE "mark", {})
     \/ Goto(c, "done", {})
  /\ UNCHANGED <<rec, registered, admitted, recSlot, goSlot, inUse, live, disk, proc,
                 phase>>

Enable(c) ==
  /\ At(c, "enable")
  /\ rec' = [rec EXCEPT ![Target(c)].disabled = FALSE]
  /\ Goto(c, "acquire", {})
  /\ UNCHANGED <<registered, admitted, recSlot, goSlot, inUse, live, disk, proc, phase>>

\* remove: a live record only with force (the remove's flag).
Inspect(c) ==
  /\ At(c, "inspect")
  /\ LET alive == IsLive(rec[Target(c)].state) IN
       Goto(c, IF ~alive THEN "mark" ELSE IF go[c].op.flag THEN "disable" ELSE "done", {})
  /\ UNCHANGED <<rec, registered, admitted, recSlot, goSlot, inUse, live, disk, proc,
                 phase>>

MarkRemoved(c) ==
  /\ At(c, "mark")
  /\ rec' = [rec EXCEPT ![Target(c)].removed = TRUE]
  /\ Goto(c, "forget", {})
  /\ UNCHANGED <<registered, admitted, recSlot, goSlot, inUse, live, disk, proc, phase>>

\* Out of s.records; then the slot goes back and the live count is refreshed.
Forget(c) ==
  /\ At(c, "forget")
  /\ registered' = registered \ {Target(c)}
  /\ Goto(c, "unlink", {"drop", "refresh"})
  /\ UNCHANGED <<rec, admitted, recSlot, goSlot, inUse, live, disk, proc, phase>>

Unlink(c) ==
  /\ At(c, "unlink")
  /\ disk' = [disk EXCEPT ![Target(c)] = NoRecord]
  /\ Goto(c, "done", {})
  /\ UNCHANGED <<rec, registered, admitted, recSlot, goSlot, inUse, live, proc, phase>>

-----------------------------------------------------------------------------
(* Close: cancel the context, wait for the helpers, flush every record. *)

BeginClose ==
  /\ Shutdown /\ phase = "open"
  /\ phase' = "closing"
  /\ UNCHANGED <<rec, registered, admitted, recSlot, goSlot, inUse, live, disk, proc, go>>

FinishClose ==
  /\ phase = "closing"
  /\ \A h \in Helpers : go[h].pc \in {"idle", "done"} /\ go[h].todo = {}
  /\ phase' = "closed"
  /\ inUse' = inUse - Cardinality(recSlot \cap registered)
  /\ recSlot' = recSlot \ registered
  /\ disk' = [c \in Calls |-> IF c \in registered /\ Persistable(c)
                               THEN Snapshot(c) ELSE disk[c]]
  /\ UNCHANGED <<rec, registered, admitted, goSlot, live, proc, go>>

-----------------------------------------------------------------------------
(* The specification. *)

Effects(g) == DropSlot(g) \/ Settle(g)

Spawning(g) ==
  MarkStarting(g) \/ Fork(g) \/ RecordRun(g) \/ WatchRun(g) \/ MarkRunning(g)
    \/ SpawnFailed(g)

\* What call c does once a client has made it.
CallStep(c) ==
  \/ Effects(c) \/ Spawning(c)
  \/ AcquireSlot(c) \/ HoldSlot(c) \/ MarkRestarting(c)
  \/ CreateRecord(c) \/ ReleaseName(c)
  \/ Disable(c) \/ Terminate(c) \/ AwaitGrace(c) \/ Kill(c) \/ AwaitKill(c)
  \/ SignalOnce(c)
  \/ Suppress(c) \/ CheckLive(c) \/ AwaitTerminal(c) \/ Enable(c)
  \/ Inspect(c) \/ MarkRemoved(c) \/ Forget(c) \/ Unlink(c)

MonitorStep(n) ==
  LET g == Mon(n) IN
    \/ Effects(g) \/ Reap(n) \/ RecordExit(n) \/ ApplyPolicy(n) \/ GiveUp(n)
    \/ AcquireSlot(g) \/ HoldSlot(g) \/ MarkRestarting(g) \/ Schedule(n)

TimerStep(n) ==
  LET g == Timer(n) IN Effects(g) \/ Backoff(n) \/ Cancel(n) \/ Spawning(g)

ProbeStep(n) == Effects(Probe(n)) \/ ProbeRun(n) \/ MarkReady(n)

\* A client makes a request.
Arrive(c) ==
  \E o \in Ops :
    \/ \E name \in Names, policy \in Policies, probe \in Probed :
         StartProcess(c, o, name, policy, probe)
    \/ \E r \in Calls : Request(c, o, r)

Host(n) == Announce(n) \/ Exit(n, "ok") \/ Exit(n, "fail")

\* Everything has come to rest, so that any other deadlock is a stuck goroutine.
Quiet ==
  /\ \A g \in Goroutines : go[g].pc \in {"idle", "done"} /\ go[g].todo = {}
  /\ UNCHANGED vars

Next ==
  \/ \E c \in Calls : Arrive(c) \/ CallStep(c)
  \/ \E n \in Runs : MonitorStep(n) \/ TimerStep(n) \/ ProbeStep(n) \/ Host(n)
  \/ BeginClose \/ FinishClose
  \/ Quiet

Spec == Init /\ [][Next]_vars

\* Go's scheduler runs every goroutine that can run, and its timers fire.  No
\* fairness is assumed of clients, of supervised processes or of a shutdown.
Fairness ==
  /\ \A c \in Calls : WF_vars(CallStep(c))
  /\ \A n \in Runs : WF_vars(MonitorStep(n)) /\ WF_vars(TimerStep(n))
                      /\ WF_vars(ProbeStep(n))
  /\ WF_vars(FinishClose)

FairSpec == Spec /\ Fairness

-----------------------------------------------------------------------------
(* Invariants that hold whatever clients ask for. *)

Labels == {"idle", "done", "acquire", "hold", "create", "starting", "release", "spawn",
           "record", "watch", "running", "failed", "restarting", "schedule", "wait",
           "exit", "policy", "giveup", "backoff", "cancel", "probing", "passed",
           "disable", "term", "grace", "kill", "killed", "signal", "suppress", "check",
           "await", "enable", "inspect", "mark", "forget", "unlink"}

Effect == {"drop", "refresh", "persist"}
Record ==
  [state : States, name : Names \cup {"none"}, policy : Policies \cup {"never"},
   probe : BOOLEAN, cur : 0 .. MaxRuns, disabled : BOOLEAN, restarts : Nat,
   exit : {"none", "ok", "fail", "lost"}, removed : BOOLEAN]
Process ==
  [os : {"unborn", "alive", "ok", "fail"}, owner : Calls \cup {NoCall}, spoke : BOOLEAN]
Goroutine ==
  [pc : Labels, rec : Calls \cup {NoCall}, run : 0 .. MaxRuns, todo : SUBSET Effect,
   op : Ops \cup {NoOp}]

\* The types of the supervisor's state (Supervisor, record, policy.Policy).  Only
\* calls and monitors ever take a slot.
TypeOK ==
  /\ rec \in [Calls -> Record]
  /\ registered \subseteq Calls /\ admitted \subseteq Calls
  /\ recSlot \subseteq Calls
  /\ goSlot \subseteq Calls \cup {Mon(n) : n \in Runs}
  /\ inUse \in Nat /\ live \in Nat
  /\ disk \in [Calls -> [state : States \cup {"none"}, cur : 0 .. MaxRuns]]
  /\ proc \in [Runs -> Process]
  /\ go \in [Goroutines -> Goroutine]
  /\ phase \in {"open", "closing", "closed"}

\* No slot leaks and none is given back twice: the limiter's count is the slots
\* held by records plus those in the hands of goroutines, and stays within
\* max_concurrent (holdSlot, dropSlot, Policy.Acquire and every error path).
SlotsBalance ==
  /\ inUse = Cardinality(recSlot) + Cardinality(goSlot)
  /\ inUse <= MaxConcurrent

\* Somebody has asked to restart the record.
Restarted(r) == \E c \in Calls : go[c].op.kind = "restart" /\ go[c].rec = r

\* The disk never falls behind by more than a write under way: a process that is
\* running is one the next agent can find, because the persisted record names its
\* run, and names the state the record in memory has (persist in spawn and after
\* every transition).  A record that was asked to restart may have two processes,
\* and the disk has room for one.
Owes(effect, r) == \E g \in Goroutines : go[g].rec = r /\ effect \in go[g].todo

DiskNamesRun ==
  \A r \in registered :
    \/ rec[r].removed \/ rec[r].state = "UNSPECIFIED" \/ Owes("persist", r)
    \/ /\ disk[r] = Snapshot(r)
       /\ \A n \in Runs :
            proc[n].os = "alive" /\ proc[n].owner = r =>
              \/ disk[r].cur = n \/ Restarted(r)
              \/ \E g \in Goroutines : go[g].run = n /\ go[g].pc = "record"

\* A removed record stays removed: no write that was on its way when the record
\* was unlinked brings the file back (the removed flag).
RemovedStaysGone ==
  \A r \in Calls :
    rec[r].removed =>
      \/ disk[r] = NoRecord
      \/ \E c \in Calls : go[c].rec = r /\ go[c].pc \in {"forget", "unlink"}

\* Once the recomputations under way are done, Health reports the number of live
\* records (refreshLive from setState and remove).
LiveCountFollows ==
  (\A r \in Calls : ~Owes("refresh", r)) => live = Cardinality(LiveRecords)

-----------------------------------------------------------------------------
(* What a client relies on.  A RestartProcess can race the restart policy of   *)
(* the run that it ended, and then a record may run twice: what is said of a   *)
(* record below is said as long as nobody has asked to restart it.             *)

\* A live record is never wedged: some goroutine is still answerable for moving
\* it on, a monitor that has not yet recorded its run's end, a timer, or a caller
\* that is about to spawn (setState's table against every race of its callers).
\* And it holds a slot, so that max_concurrent bounds what runs.  The exception is
\* a record without a probe that its policy has run again: the goroutine that
\* spawned a run may find only after the next one is under way that it cannot
\* mark its own RUNNING, and then gives back a slot that is no longer its own.
Answerable(g, r) ==
  /\ go[g].rec = r
  /\ go[g].pc \in {"wait", "exit", "schedule", "backoff", "cancel", "starting",
                   "release", "spawn", "record", "watch", "running", "failed"}

RunAgain(r) == \E m, n \in Runs : m # n /\ proc[m].owner = r /\ proc[n].owner = r
Overtaken(r) == ~rec[r].probe /\ RunAgain(r)

LiveIsKept ==
  phase = "open" =>
    /\ \A r \in Calls : IsLive(rec[r].state) => \E g \in Goroutines : Answerable(g, r)
    /\ \A r \in LiveRecords : r \in recSlot \/ Restarted(r) \/ Overtaken(r)

\* A record's earlier process has ended when the next one is forked: the policy,
\* the timer, a failed fork and the removal of a record leave it one process.
OnePolicyRun ==
  \A m, n \in Runs :
    proc[m].os = "alive" /\ proc[n].os = "alive" /\ proc[m].owner = proc[n].owner
      => m = n \/ Restarted(proc[m].owner)

\* One record, one OS process.
OneRun ==
  \A m, n \in Runs :
    proc[m].os = "alive" /\ proc[n].os = "alive" /\ proc[m].owner = proc[n].owner
      => m = n

\* The automatic restarts of a record stay within max_restarts.
BudgetKept == \A r \in Calls : rec[r].restarts <= MaxRestarts \/ Restarted(r)

\* Every request is answered: no wait in start, stop, restart or remove is
\* unbounded.
CallsReturn == \A c \in Calls : go[c].pc # "idle" ~> go[c].pc = "done"

\* A live record whose process is gone gets another process or stops being live.
LiveIsBacked ==
  \A r \in Calls :
    IsLive(rec[r].state)
      ~> \/ ~IsLive(rec[r].state) \/ phase # "open"
         \/ \E n \in Runs : proc[n].owner = r /\ proc[n].os = "alive"

\* Close returns: no helper goroutine outlives the cancelled context.
CloseReturns == phase = "closing" ~> phase = "closed"
=============================================================================
