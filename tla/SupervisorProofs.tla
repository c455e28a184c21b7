-------------------------- MODULE SupervisorProofs --------------------------
(***************************************************************************)
(* What the supervisor keeps for any number of calls, runs and slots: its  *)
(* types, the balance of its concurrency slots, a removed record's         *)
(* absence, the live count, the record on disk, one process and one budget *)
(* for a record nobody asks to restart, and a worker and a slot for every  *)
(* live record.                                                            *)
(*                                                                         *)
(* The argument.  Slots are conserved because every goroutine that has a   *)
(* slot in hand is at one of two labels (Holders), and it stays there until *)
(* it attaches the slot or gives it back.  The one step that could break   *)
(* this is spawn starting a monitor: it must not start one that is already *)
(* running, which is so because a run is forked once and watched once      *)
(* (Forked).                                                               *)
(*                                                                         *)
(* The properties of a record rest on who works for it (Working).  KInv    *)
(* says which goroutine can be where and whom it serves; every step of     *)
(* Next is then of one of a few kinds (StepKinds), and the invariants      *)
(* about records are shown to survive each kind rather than each action:   *)
(* DiskInv, what the disk says; Chain, one worker and one process; Kept,   *)
(* somebody answers for a live record; SlotInv, where the worker can be    *)
(* when a slot is still to be given back.                                  *)
(***************************************************************************)
EXTENDS Supervisor, FiniteSetTheorems, TLAPS

\* A goroutine with something to do knows its record.
Targets ==
  \A g \in Goroutines :
    go[g].pc \notin {"idle", "done"} \/ go[g].todo # {} => go[g].rec \in Calls

\* The slots in hand are those of the goroutines at these two labels.
Holders == \A g \in Goroutines : g \in goSlot <=> go[g].pc \in {"create", "hold"}

\* g has forked the run it names and has not started its monitor yet.
Launching(g) == go[g].pc \in {"record", "watch"}

UnbornUnknown ==
  \A n \in Runs :
    proc[n].os = "unborn" =>
      /\ go[Mon(n)].pc = "idle"
      /\ \A g \in Goroutines : Launching(g) => go[g].run # n
LaunchingIdle ==
  \A g \in Goroutines :
    Launching(g) => go[g].run \in Runs /\ go[Mon(go[g].run)].pc = "idle"
LaunchingApart ==
  \A g, h \in Goroutines :
    Launching(g) /\ Launching(h) /\ go[g].run = go[h].run => g = h
ExitIsReal == \A n \in Runs : go[Mon(n)].pc = "exit" => Exited(n)

Forked == UnbornUnknown /\ LaunchingIdle /\ LaunchingApart /\ ExitIsReal

IInv == TypeOK /\ SlotsBalance /\ Targets /\ Holders /\ Forked

-----------------------------------------------------------------------------
(* The goroutines. *)

LEMMA HelperNames ==
  /\ \A n \in Runs : /\ Mon(n) \in Goroutines /\ Probe(n) \in Goroutines
                     /\ Timer(n) \in Goroutines
                     /\ Mon(n) \notin Calls /\ Probe(n) \notin Calls
                     /\ Timer(n) \notin Calls
  /\ \A n, m \in Runs : /\ Mon(n) = Mon(m) => n = m
                        /\ Mon(n) # Timer(m) /\ Mon(n) # Probe(m) /\ Timer(n) # Probe(m)
  /\ Calls \subseteq Goroutines
BY SupervisorAssumption DEF Mon, Probe, Timer, Goroutines, Helpers

LEMMA FiniteGoroutines == IsFiniteSet(Calls) /\ IsFiniteSet(Goroutines)
<1>1. IsFiniteSet(Runs)
  BY SupervisorAssumption, FS_Interval DEF Runs
<1>2. IsFiniteSet({"monitor", "probe", "timer"})
  <2>1. IsFiniteSet({"monitor"} \cup {"probe"})
    BY FS_Singleton, FS_AddElement
  <2>2. IsFiniteSet(({"monitor"} \cup {"probe"}) \cup {"timer"})
    BY <2>1, FS_AddElement
  <2>3. {"monitor", "probe", "timer"} = ({"monitor"} \cup {"probe"}) \cup {"timer"}
    OBVIOUS
  <2> QED
    BY <2>2, <2>3
<1>3. IsFiniteSet(Helpers)
  BY <1>1, <1>2, FS_Product DEF Helpers
<1> QED
  BY <1>3, FS_Union, SupervisorAssumption DEF Goroutines

THEOREM InitInv == Init => IInv
<1> SUFFICES ASSUME Init PROVE IInv
  OBVIOUS
<1> USE DEF Init
<1>1. TypeOK
  BY SupervisorAssumption
  DEF TypeOK, Record, Process, Goroutine, States, Labels, Effect, NoOp, NoRecord, Runs
<1>2. SlotsBalance
  BY SupervisorAssumption, FS_EmptySet DEF SlotsBalance
<1>3. Targets /\ Holders
  BY DEF Targets, Holders
<1>4. Forked
  BY HelperNames
  DEF Forked, Launching, UnbornUnknown, LaunchingIdle, LaunchingApart, ExitIsReal
<1> QED
  BY <1>1, <1>2, <1>3, <1>4 DEF IInv

-----------------------------------------------------------------------------
(* A goroutine's ordinary moves keep everything but the types of the variables *)
(* the move writes.                                                            *)

\* A move of g that neither begins nor ends at a label the invariant speaks of.
Ordinary(g) ==
  /\ go[g].pc \notin {"idle", "done", "create", "hold"}
  /\ go' \in [Goroutines -> Goroutine]
  /\ go'[g].pc \notin {"idle", "create", "hold", "record", "watch", "exit"}
  /\ go'[g].rec = go[g].rec /\ go'[g].run = go[g].run
  /\ \A h \in Goroutines : h # g => go'[h] = go[h]

\* Processes end, and nothing else happens to them.
OnlyEnds ==
  /\ proc' \in [Runs -> Process]
  /\ \A n \in Runs :
       /\ proc'[n].os = "unborn" <=> proc[n].os = "unborn"
       /\ proc[n].os \in {"ok", "fail"} => proc'[n].os \in {"ok", "fail"}

LEMMA OrdinaryMove ==
  ASSUME IInv, NEW g \in Goroutines, Ordinary(g), OnlyEnds,
         rec' \in [Calls -> Record], registered' \subseteq Calls, admitted' \subseteq Calls,
         disk' \in [Calls -> [state : States \cup {"none"}, cur : 0 .. MaxRuns]],
         UNCHANGED <<recSlot, goSlot, inUse, live, phase>>
  PROVE  IInv'
<1>1. TypeOK'
  BY DEF IInv, TypeOK, Ordinary, OnlyEnds
<1>2. SlotsBalance'
  BY DEF IInv, SlotsBalance
<1>3. Targets'
  BY DEF IInv, Targets, Ordinary
<1>4. Holders'
  BY DEF IInv, Holders, Ordinary
<1>5. Forked'
  <2>1. UnbornUnknown'
    BY HelperNames DEF IInv, Forked, UnbornUnknown, Launching, Ordinary, OnlyEnds
  <2>2. LaunchingIdle'
    BY HelperNames DEF IInv, Forked, LaunchingIdle, Launching, Ordinary
  <2>3. LaunchingApart'
    BY DEF IInv, Forked, LaunchingApart, Launching, Ordinary
  <2>4. ExitIsReal'
    BY HelperNames DEF IInv, Forked, ExitIsReal, Ordinary, OnlyEnds, Exited
  <2> QED
    BY <2>1, <2>2, <2>3, <2>4 DEF Forked
<1> QED
  BY <1>1, <1>2, <1>3, <1>4, <1>5 DEF IInv

\* What a goroutine that is not idle can rely on.
LEMMA Ready ==
  ASSUME IInv, NEW g \in Goroutines, NEW label \in Labels \ {"idle", "done"},
         At(g, label)
  PROVE  /\ go[g] \in Goroutine /\ go[g].pc = label
         /\ Target(g) \in Calls /\ rec[Target(g)] \in Record
BY DEF IInv, TypeOK, Targets, At, Target, Goroutine, Labels

LEMMA AftermathType ==
  ASSUME NEW r, NEW to
  PROVE  Aftermath(r, to) \in SUBSET Effect
BY DEF Aftermath, Effect

LEMMA SameProcesses == IInv /\ UNCHANGED proc => OnlyEnds
BY DEF IInv, TypeOK, OnlyEnds

\* The labels an ordinary move may go to.
Waypoints == Labels \ {"idle", "create", "hold", "record", "watch", "exit"}

LEMMA GotoOrdinary ==
  ASSUME IInv, NEW g \in Goroutines, go[g].pc \notin {"idle", "done", "create", "hold"},
         NEW label \in Waypoints, NEW todo \in SUBSET Effect, Goto(g, label, todo)
  PROVE  Ordinary(g)
<1>1. go \in [Goroutines -> Goroutine] /\ label \in Labels
  BY DEF IInv, TypeOK, Waypoints
<1>2. go' \in [Goroutines -> Goroutine]
  BY <1>1 DEF Goto, Goroutine
<1>3. /\ go'[g].pc = label /\ go'[g].rec = go[g].rec /\ go'[g].run = go[g].run
      /\ \A h \in Goroutines : h # g => go'[h] = go[h]
  BY <1>1 DEF Goto, Goroutine
<1> QED
  BY <1>2, <1>3 DEF Ordinary, Waypoints

\* Records stay records when a state, and an exit with it, is set.
LEMMA SetOutcome ==
  ASSUME NEW rs \in [Calls -> Record], NEW r \in Calls, NEW to \in States,
         NEW code \in {"none", "ok", "fail", "lost"}
  PROVE  /\ [rs EXCEPT ![r].state = to] \in [Calls -> Record]
         /\ [rs EXCEPT ![r].state = to, ![r].exit = code] \in [Calls -> Record]
<1> DEFINE y == [rs[r] EXCEPT !.state = to]
           z == [y EXCEPT !.exit = code]
<1>1. y \in Record
  BY DEF Record
<1>2. z \in Record
  BY <1>1 DEF Record
<1>3. /\ [rs EXCEPT ![r].state = to] = [rs EXCEPT ![r] = y]
      /\ [rs EXCEPT ![r].state = to, ![r].exit = code] = [rs EXCEPT ![r] = z]
  OBVIOUS
<1> HIDE DEF y, z
<1> QED
  BY <1>1, <1>2, <1>3

LEMMA SetStateMove ==
  ASSUME IInv, NEW g \in Goroutines, go[g].pc \notin {"idle", "done", "create", "hold"},
         Target(g) \in Calls, NEW to \in States, NEW label \in Waypoints,
         SetState(g, to, label)
  PROVE  Ordinary(g) /\ rec' \in [Calls -> Record]
<1>1. Ordinary(g)
  BY GotoOrdinary, AftermathType DEF SetState
<1>2. rec' \in [Calls -> Record]
  BY SetOutcome DEF SetState, IInv, TypeOK
<1> QED
  BY <1>1, <1>2

\* The moves every goroutine makes on its way to a spawn.
LEMMA MarkRestartingInv ==
  ASSUME IInv, NEW g \in Goroutines, MarkRestarting(g) PROVE IInv'
<1>1. Target(g) \in Calls /\ go[g].pc = "restarting"
  BY Ready DEF MarkRestarting, Labels
<1>2. Ordinary(g) /\ rec' \in [Calls -> Record]
  <2>1. CASE Accepts(Target(g), "RESTARTING")
    BY <1>1, <2>1, SetStateMove DEF MarkRestarting, States, Waypoints, Labels
  <2>2. CASE ~Accepts(Target(g), "RESTARTING")
    BY <1>1, <2>2, GotoOrdinary DEF MarkRestarting, Waypoints, Labels, Effect, IInv, TypeOK
  <2> QED
    BY <2>1, <2>2
<1> QED
  BY <1>2, OrdinaryMove, SameProcesses DEF MarkRestarting, IInv, TypeOK

LEMMA MarkStartingInv ==
  ASSUME IInv, NEW g \in Goroutines, MarkStarting(g) PROVE IInv'
<1>1. g \in Goroutines /\ Target(g) \in Calls /\ go[g].pc = "starting"
  BY Ready, HelperNames DEF MarkStarting, Labels
<1>2. Ordinary(g) /\ rec' \in [Calls -> Record]
  <2>1. CASE Accepts(Target(g), "STARTING")
    BY <1>1, <2>1, SetStateMove DEF MarkStarting, States, Waypoints, Labels
  <2>2. CASE ~Accepts(Target(g), "STARTING")
    BY <1>1, <2>2, GotoOrdinary DEF MarkStarting, Waypoints, Labels, Effect, IInv, TypeOK
  <2> QED
    BY <2>1, <2>2
<1> QED
  BY <1>1, <1>2, OrdinaryMove, SameProcesses DEF MarkStarting, IInv, TypeOK

LEMMA MarkRunningInv ==
  ASSUME IInv, NEW g \in Goroutines, MarkRunning(g) PROVE IInv'
<1>1. g \in Goroutines /\ Target(g) \in Calls /\ go[g].pc = "running"
  BY Ready, HelperNames DEF MarkRunning, Labels
<1>2. Ordinary(g) /\ rec' \in [Calls -> Record]
  <2>1. CASE Accepts(Target(g), "RUNNING")
    BY <1>1, <2>1, SetStateMove DEF MarkRunning, States, Waypoints, Labels
  <2>2. CASE ~Accepts(Target(g), "RUNNING")
    BY <1>1, <2>2, GotoOrdinary DEF MarkRunning, Waypoints, Labels, Effect, IInv, TypeOK
  <2> QED
    BY <2>1, <2>2
<1> QED
  BY <1>1, <1>2, OrdinaryMove, SameProcesses DEF MarkRunning, IInv, TypeOK

LEMMA GiveUpInv ==
  ASSUME IInv, NEW n \in Runs, GiveUp(n) PROVE IInv'
<1> DEFINE spent == /\ rec[Target(Mon(n))].state # "CRASHED"
                    /\ Accepts(Target(Mon(n)), "CRASHED")
<1>1. Mon(n) \in Goroutines /\ Target(Mon(n)) \in Calls /\ go[Mon(n)].pc = "giveup"
  BY Ready, HelperNames DEF GiveUp, Labels
<1>2. Ordinary(Mon(n)) /\ rec' \in [Calls -> Record]
  <2>1. CASE spent
    BY <1>1, <2>1, SetStateMove DEF GiveUp, States, Waypoints, Labels
  <2>2. CASE ~spent
    BY <1>1, <2>2, GotoOrdinary DEF GiveUp, Waypoints, Labels, Effect, IInv, TypeOK
  <2> QED
    BY <2>1, <2>2
<1> QED
  BY <1>1, <1>2, OrdinaryMove, SameProcesses DEF GiveUp, IInv, TypeOK

LEMMA CancelInv ==
  ASSUME IInv, NEW n \in Runs, Cancel(n) PROVE IInv'
<1>1. Timer(n) \in Goroutines /\ Target(Timer(n)) \in Calls /\ go[Timer(n)].pc = "cancel"
  BY Ready, HelperNames DEF Cancel, Labels
<1>2. Ordinary(Timer(n)) /\ rec' \in [Calls -> Record]
  <2>1. CASE Accepts(Target(Timer(n)), "CRASHED")
    BY <1>1, <2>1, SetStateMove DEF Cancel, States, Waypoints, Labels
  <2>2. CASE ~Accepts(Target(Timer(n)), "CRASHED")
    BY <1>1, <2>2, GotoOrdinary DEF Cancel, Waypoints, Labels, Effect, IInv, TypeOK
  <2> QED
    BY <2>1, <2>2
<1> QED
  BY <1>1, <1>2, OrdinaryMove, SameProcesses DEF Cancel, IInv, TypeOK

LEMMA MarkReadyInv ==
  ASSUME IInv, NEW n \in Runs, MarkReady(n) PROVE IInv'
<1>1. Probe(n) \in Goroutines /\ Target(Probe(n)) \in Calls /\ go[Probe(n)].pc = "passed"
  BY Ready, HelperNames DEF MarkReady, Labels
<1>2. Ordinary(Probe(n)) /\ rec' \in [Calls -> Record]
  <2>1. CASE Accepts(Target(Probe(n)), "READY")
    BY <1>1, <2>1, SetStateMove DEF MarkReady, States, Waypoints, Labels
  <2>2. CASE ~Accepts(Target(Probe(n)), "READY")
    BY <1>1, <2>2, GotoOrdinary DEF MarkReady, Waypoints, Labels, Effect, IInv, TypeOK
  <2> QED
    BY <2>1, <2>2
<1> QED
  BY <1>1, <1>2, OrdinaryMove, SameProcesses DEF MarkReady, IInv, TypeOK

LEMMA SpawnFailedInv ==
  ASSUME IInv, NEW g \in Goroutines, SpawnFailed(g) PROVE IInv'
<1>1. Target(g) \in Calls /\ go[g].pc = "failed"
  BY Ready DEF SpawnFailed, Labels
<1>2. Ordinary(g)
  BY <1>1, GotoOrdinary, AftermathType
  DEF SpawnFailed, AfterSpawn, Waypoints, Labels, Effect
<1>3. rec' \in [Calls -> Record]
  <2>1. CASE Accepts(Target(g), "CRASHED")
    <3>1. rec' = [rec EXCEPT ![Target(g)].state = "CRASHED", ![Target(g)].exit = "lost"]
      BY <2>1 DEF SpawnFailed
    <3>2. rec \in [Calls -> Record] /\ "CRASHED" \in States
      BY DEF IInv, TypeOK, States
    <3> QED
      BY <1>1, <3>1, <3>2, SetOutcome
  <2>2. CASE ~Accepts(Target(g), "CRASHED")
    BY <2>2 DEF SpawnFailed, IInv, TypeOK
  <2> QED
    BY <2>1, <2>2
<1> QED
  BY <1>2, <1>3, OrdinaryMove, SameProcesses DEF SpawnFailed, IInv, TypeOK

LEMMA RecordExitInv ==
  ASSUME IInv, NEW n \in Runs, RecordExit(n) PROVE IInv'
<1> DEFINE g == Mon(n)
           r == Target(g)
           to == IF proc[n].os = "ok" THEN "EXITED" ELSE "CRASHED"
<1>1. g \in Goroutines /\ r \in Calls /\ go[g].pc = "exit"
  BY Ready, HelperNames DEF RecordExit, Labels
<1>2. proc[n].os \in {"ok", "fail"}
  BY <1>1 DEF IInv, Forked, ExitIsReal, Exited
<1>3. Ordinary(g)
  BY <1>1, GotoOrdinary, AftermathType DEF RecordExit, Waypoints, Labels, Effect
<1>4. rec' \in [Calls -> Record]
  <2>1. CASE Accepts(r, to)
    <3>1. rec' = [rec EXCEPT ![r].state = to, ![r].exit = proc[n].os]
      BY <2>1 DEF RecordExit
    <3>2. rec \in [Calls -> Record] /\ to \in States
      BY DEF IInv, TypeOK, States
    <3> HIDE DEF to, r
    <3> QED
      BY <1>1, <1>2, <3>1, <3>2, SetOutcome
  <2>2. CASE ~Accepts(r, to)
    BY <2>2 DEF RecordExit, IInv, TypeOK
  <2> QED
    BY <2>1, <2>2
<1> QED
  BY <1>1, <1>3, <1>4, OrdinaryMove, SameProcesses DEF RecordExit, IInv, TypeOK

\* Records stay records when a field is set.
LEMMA SetProbe ==
  ASSUME NEW y \in Record, NEW b \in BOOLEAN PROVE [y EXCEPT !.probe = b] \in Record
BY DEF Record

LEMMA SetNamed ==
  ASSUME NEW y \in Record, NEW name \in Names PROVE [y EXCEPT !.name = name] \in Record
BY DEF Record

LEMMA SetPolicy ==
  ASSUME NEW y \in Record, NEW policy \in Policies
  PROVE  [y EXCEPT !.policy = policy] \in Record
BY DEF Record

LEMMA SetRestarts ==
  ASSUME NEW y \in Record, NEW k \in Nat PROVE [y EXCEPT !.restarts = k] \in Record
BY DEF Record

LEMMA SetRun ==
  ASSUME NEW y \in Record, NEW n \in 0 .. MaxRuns PROVE [y EXCEPT !.cur = n] \in Record
BY DEF Record

LEMMA SetNoExit ==
  ASSUME NEW y \in Record PROVE [y EXCEPT !.exit = "none"] \in Record
BY DEF Record

LEMMA ApplyPolicyInv ==
  ASSUME IInv, NEW n \in Runs, ApplyPolicy(n) PROVE IInv'
<1>1. Mon(n) \in Goroutines /\ Target(Mon(n)) \in Calls /\ go[Mon(n)].pc = "policy"
  BY Ready, HelperNames DEF ApplyPolicy, Labels
<1>2. Ordinary(Mon(n))
  BY <1>1, GotoOrdinary DEF ApplyPolicy, Waypoints, Labels, Effect
<1>3. rec' \in [Calls -> Record]
  <2> DEFINE r == Target(Mon(n))
  <2>1. PICK k \in {0, rec[r].restarts} : rec' = [rec EXCEPT ![r].restarts = k]
    BY DEF ApplyPolicy
  <2>2. rec \in [Calls -> Record] /\ rec[r] \in Record /\ rec[r].restarts \in Nat
    BY <1>1 DEF IInv, TypeOK, Record
  <2> DEFINE y == [rec[r] EXCEPT !.restarts = k]
  <2>3. y \in Record
    BY <2>2, SetRestarts
  <2>4. rec' = [rec EXCEPT ![r] = y]
    BY <1>1, <2>1, <2>2
  <2> HIDE DEF r, y
  <2> QED
    BY <2>2, <2>3, <2>4
<1> QED
  BY <1>1, <1>2, <1>3, OrdinaryMove, SameProcesses DEF ApplyPolicy, IInv, TypeOK

LEMMA BackoffInv ==
  ASSUME IInv, NEW n \in Runs, Backoff(n) PROVE IInv'
<1>1. /\ Timer(n) \in Goroutines /\ Target(Timer(n)) \in Calls
      /\ go[Timer(n)].pc = "backoff"
  BY Ready, HelperNames DEF Backoff, Labels
<1>2. Ordinary(Timer(n))
  BY <1>1, GotoOrdinary DEF Backoff, Waypoints, Labels, Effect
<1>3. rec' \in [Calls -> Record]
  BY <1>1 DEF Backoff, IInv, TypeOK, Record
<1> QED
  BY <1>1, <1>2, <1>3, OrdinaryMove, SameProcesses DEF Backoff, IInv, TypeOK

\* A flag of a record is set or cleared.
LEMMA SetFlag ==
  ASSUME rec \in [Calls -> Record], NEW r \in Calls, NEW b \in BOOLEAN
  PROVE  /\ [rec EXCEPT ![r].disabled = b] \in [Calls -> Record]
         /\ [rec EXCEPT ![r].removed = b] \in [Calls -> Record]
<1>1. /\ [rec[r] EXCEPT !.disabled = b] \in Record
      /\ [rec[r] EXCEPT !.removed = b] \in Record
  BY DEF Record
<1>2. \A y \in Record : [rec EXCEPT ![r] = y] \in [Calls -> Record]
  OBVIOUS
<1> QED
  BY <1>1, <1>2

LEMMA ReleaseNameInv ==
  ASSUME IInv, NEW c \in Calls, ReleaseName(c) PROVE IInv'
<1>1. c \in Goroutines /\ Target(c) \in Calls /\ go[c].pc = "release"
  BY Ready, HelperNames DEF ReleaseName, Labels
<1>2. Ordinary(c)
  BY <1>1, GotoOrdinary DEF ReleaseName, AfterStop, Waypoints, Labels, Effect
<1>3. rec' \in [Calls -> Record]
  BY <1>1 DEF ReleaseName, IInv, TypeOK, Record
<1> QED
  BY <1>1, <1>2, <1>3, OrdinaryMove, SameProcesses DEF ReleaseName, IInv, TypeOK

LEMMA DisableInv ==
  ASSUME IInv, NEW c \in Calls, Disable(c) PROVE IInv'
<1>1. c \in Goroutines /\ Target(c) \in Calls /\ go[c].pc = "disable"
  BY Ready, HelperNames DEF Disable, Labels
<1>2. Ordinary(c)
  BY <1>1, GotoOrdinary DEF Disable, AfterStop, Waypoints, Labels, Effect
<1>3. rec' \in [Calls -> Record]
  BY <1>1, SetFlag DEF Disable, IInv, TypeOK
<1> QED
  BY <1>1, <1>2, <1>3, OrdinaryMove, SameProcesses DEF Disable, IInv, TypeOK

LEMMA TerminateInv ==
  ASSUME IInv, NEW c \in Calls, Terminate(c) PROVE IInv'
<1>1. c \in Goroutines /\ Target(c) \in Calls /\ go[c].pc = "term"
  BY Ready, HelperNames DEF Terminate, Labels
<1>2. Ordinary(c)
  BY <1>1, GotoOrdinary DEF Terminate, AfterStop, Waypoints, Labels, Effect
<1>3. rec' \in [Calls -> Record]
  BY <1>1 DEF Terminate, IInv, TypeOK, Record
<1> QED
  BY <1>1, <1>2, <1>3, OrdinaryMove, SameProcesses DEF Terminate, IInv, TypeOK

LEMMA AwaitGraceInv ==
  ASSUME IInv, NEW c \in Calls, AwaitGrace(c) PROVE IInv'
<1>1. c \in Goroutines /\ Target(c) \in Calls /\ go[c].pc = "grace"
  BY Ready, HelperNames DEF AwaitGrace, Labels
<1>2. Ordinary(c)
  BY <1>1, GotoOrdinary DEF AwaitGrace, AfterStop, Waypoints, Labels, Effect
<1>3. rec' \in [Calls -> Record]
  BY <1>1 DEF AwaitGrace, IInv, TypeOK, Record
<1> QED
  BY <1>1, <1>2, <1>3, OrdinaryMove, SameProcesses DEF AwaitGrace, IInv, TypeOK

LEMMA SuppressInv ==
  ASSUME IInv, NEW c \in Calls, Suppress(c) PROVE IInv'
<1>1. c \in Goroutines /\ Target(c) \in Calls /\ go[c].pc = "suppress"
  BY Ready, HelperNames DEF Suppress, Labels
<1>2. Ordinary(c)
  BY <1>1, GotoOrdinary DEF Suppress, AfterStop, Waypoints, Labels, Effect
<1>3. rec' \in [Calls -> Record]
  BY <1>1, SetFlag DEF Suppress, IInv, TypeOK
<1> QED
  BY <1>1, <1>2, <1>3, OrdinaryMove, SameProcesses DEF Suppress, IInv, TypeOK

LEMMA CheckLiveInv ==
  ASSUME IInv, NEW c \in Calls, CheckLive(c) PROVE IInv'
<1>1. c \in Goroutines /\ Target(c) \in Calls /\ go[c].pc = "check"
  BY Ready, HelperNames DEF CheckLive, Labels
<1>2. Ordinary(c)
  BY <1>1, GotoOrdinary DEF CheckLive, AfterStop, Waypoints, Labels, Effect
<1>3. rec' \in [Calls -> Record]
  BY <1>1 DEF CheckLive, IInv, TypeOK, Record
<1> QED
  BY <1>1, <1>2, <1>3, OrdinaryMove, SameProcesses DEF CheckLive, IInv, TypeOK

LEMMA AwaitTerminalInv ==
  ASSUME IInv, NEW c \in Calls, AwaitTerminal(c) PROVE IInv'
<1>1. c \in Goroutines /\ Target(c) \in Calls /\ go[c].pc = "await"
  BY Ready, HelperNames DEF AwaitTerminal, Labels
<1>2. Ordinary(c)
  BY <1>1, GotoOrdinary DEF AwaitTerminal, AfterStop, Waypoints, Labels, Effect
<1>3. rec' \in [Calls -> Record]
  BY <1>1 DEF AwaitTerminal, IInv, TypeOK, Record
<1> QED
  BY <1>1, <1>2, <1>3, OrdinaryMove, SameProcesses DEF AwaitTerminal, IInv, TypeOK

LEMMA EnableInv ==
  ASSUME IInv, NEW c \in Calls, Enable(c) PROVE IInv'
<1>1. c \in Goroutines /\ Target(c) \in Calls /\ go[c].pc = "enable"
  BY Ready, HelperNames DEF Enable, Labels
<1>2. Ordinary(c)
  BY <1>1, GotoOrdinary DEF Enable, AfterStop, Waypoints, Labels, Effect
<1>3. rec' \in [Calls -> Record]
  BY <1>1, SetFlag DEF Enable, IInv, TypeOK
<1> QED
  BY <1>1, <1>2, <1>3, OrdinaryMove, SameProcesses DEF Enable, IInv, TypeOK

LEMMA InspectInv ==
  ASSUME IInv, NEW c \in Calls, Inspect(c) PROVE IInv'
<1>1. c \in Goroutines /\ Target(c) \in Calls /\ go[c].pc = "inspect"
  BY Ready, HelperNames DEF Inspect, Labels
<1>2. Ordinary(c)
  BY <1>1, GotoOrdinary DEF Inspect, AfterStop, Waypoints, Labels, Effect
<1>3. rec' \in [Calls -> Record]
  BY <1>1 DEF Inspect, IInv, TypeOK, Record
<1> QED
  BY <1>1, <1>2, <1>3, OrdinaryMove, SameProcesses DEF Inspect, IInv, TypeOK

LEMMA MarkRemovedInv ==
  ASSUME IInv, NEW c \in Calls, MarkRemoved(c) PROVE IInv'
<1>1. c \in Goroutines /\ Target(c) \in Calls /\ go[c].pc = "mark"
  BY Ready, HelperNames DEF MarkRemoved, Labels
<1>2. Ordinary(c)
  BY <1>1, GotoOrdinary DEF MarkRemoved, AfterStop, Waypoints, Labels, Effect
<1>3. rec' \in [Calls -> Record]
  BY <1>1, SetFlag DEF MarkRemoved, IInv, TypeOK
<1> QED
  BY <1>1, <1>2, <1>3, OrdinaryMove, SameProcesses DEF MarkRemoved, IInv, TypeOK

LEMMA ForgetInv ==
  ASSUME IInv, NEW c \in Calls, Forget(c) PROVE IInv'
<1>1. c \in Goroutines /\ Target(c) \in Calls /\ go[c].pc = "forget"
  BY Ready, HelperNames DEF Forget, Labels
<1>2. Ordinary(c)
  BY <1>1, GotoOrdinary DEF Forget, AfterStop, Waypoints, Labels, Effect
<1>3. rec' \in [Calls -> Record]
  BY <1>1 DEF Forget, IInv, TypeOK, Record
<1> QED
  BY <1>1, <1>2, <1>3, OrdinaryMove, SameProcesses DEF Forget, IInv, TypeOK

LEMMA UnlinkInv ==
  ASSUME IInv, NEW c \in Calls, Unlink(c) PROVE IInv'
<1>1. c \in Goroutines /\ Target(c) \in Calls /\ go[c].pc = "unlink"
  BY Ready, HelperNames DEF Unlink, Labels
<1>2. Ordinary(c)
  BY <1>1, GotoOrdinary DEF Unlink, AfterStop, Waypoints, Labels, Effect
<1>3. rec' \in [Calls -> Record]
  BY <1>1 DEF Unlink, IInv, TypeOK, Record
<1>4. disk' \in [Calls -> [state : States \cup {"none"}, cur : 0 .. MaxRuns]]
  BY <1>1, SupervisorAssumption DEF Unlink, NoRecord, IInv, TypeOK
<1> QED
  BY <1>1, <1>2, <1>3, <1>4, OrdinaryMove, SameProcesses
  DEF Unlink, IInv, TypeOK

LEMMA KillRunType ==
  ASSUME IInv, NEW r \in Calls, KillRun(r)
  PROVE  OnlyEnds
<1> DEFINE n == rec[r].cur
           x == [proc[n] EXCEPT !.os = IF @ = "alive" THEN "fail" ELSE @]
<1>1. proc \in [Runs -> Process] /\ proc' = [proc EXCEPT ![n] = x]
  BY DEF IInv, TypeOK, KillRun
<1>2. n \in Runs => x \in Process /\ (x.os = "unborn" <=> proc[n].os = "unborn")
                    /\ (proc[n].os \in {"ok", "fail"} => x.os = proc[n].os)
  BY <1>1 DEF Process
<1> HIDE DEF n, x
<1> QED
  BY <1>1, <1>2 DEF OnlyEnds

LEMMA KillInv ==
  ASSUME IInv, NEW c \in Calls, Kill(c) PROVE IInv'
<1>1. c \in Goroutines /\ Target(c) \in Calls /\ go[c].pc = "kill"
  BY Ready, HelperNames DEF Kill, Labels
<1>2. Ordinary(c)
  BY <1>1, GotoOrdinary DEF Kill, AfterStop, Waypoints, Labels, Effect
<1>3. OnlyEnds
  BY <1>1, KillRunType, SameProcesses DEF Kill
<1> QED
  BY <1>1, <1>2, <1>3, OrdinaryMove DEF Kill, IInv, TypeOK

LEMMA AwaitKillInv ==
  ASSUME IInv, NEW c \in Calls, AwaitKill(c) PROVE IInv'
<1>1. c \in Goroutines /\ Target(c) \in Calls /\ go[c].pc = "killed"
  BY Ready, HelperNames DEF AwaitKill, Labels
<1>2. Ordinary(c)
  BY <1>1, GotoOrdinary DEF AwaitKill, AfterStop, Abort, Waypoints, Labels, Effect
<1> QED
  BY <1>1, <1>2, OrdinaryMove, SameProcesses DEF AwaitKill, Abort, IInv, TypeOK

LEMMA SignalOnceInv ==
  ASSUME IInv, NEW c \in Calls, SignalOnce(c) PROVE IInv'
<1>1. c \in Goroutines /\ Target(c) \in Calls /\ go[c].pc = "signal"
  BY Ready, HelperNames DEF SignalOnce, Labels
<1>2. Ordinary(c)
  BY <1>1, GotoOrdinary DEF SignalOnce, Waypoints, Labels, Effect
<1>3. OnlyEnds
  BY <1>1, KillRunType, SameProcesses DEF SignalOnce
<1> QED
  BY <1>1, <1>2, <1>3, OrdinaryMove DEF SignalOnce, IInv, TypeOK

LEMMA ProbeRunInv ==
  ASSUME IInv, NEW n \in Runs, ProbeRun(n) PROVE IInv'
<1>1. Probe(n) \in Goroutines /\ go[Probe(n)].pc = "probing"
  BY Ready, HelperNames DEF ProbeRun, Labels
<1>2. Ordinary(Probe(n))
  BY <1>1, GotoOrdinary DEF ProbeRun, Waypoints, Labels, Effect
<1> QED
  BY <1>1, <1>2, OrdinaryMove, SameProcesses DEF ProbeRun, IInv, TypeOK

-----------------------------------------------------------------------------
(* The steps that move slots. *)

\* One goroutine gets a new value.
LEMMA PutGoroutine ==
  ASSUME IInv, NEW g \in Goroutines, NEW x \in Goroutine, go' = [go EXCEPT ![g] = x]
  PROVE  /\ go' \in [Goroutines -> Goroutine] /\ go'[g] = x
         /\ \A h \in Goroutines : h # g => go'[h] = go[h]
BY DEF IInv, TypeOK

LEMMA FiniteSlots ==
  ASSUME IInv
  PROVE  /\ IsFiniteSet(recSlot) /\ IsFiniteSet(goSlot)
         /\ Cardinality(recSlot) \in Nat /\ Cardinality(goSlot) \in Nat
<1>1. recSlot \subseteq Calls /\ goSlot \subseteq Goroutines
  BY HelperNames DEF IInv, TypeOK
<1>2. IsFiniteSet(recSlot) /\ IsFiniteSet(goSlot)
  BY <1>1, FiniteGoroutines, FS_Subset
<1> QED
  BY <1>2, FS_CardinalityType

\* dropSlot keeps the account.
LEMMA GiveBackBalance ==
  ASSUME IInv, NEW r, GiveBack(r), UNCHANGED goSlot
  PROVE  SlotsBalance' /\ inUse' \in Nat /\ recSlot' \subseteq Calls
<1>1. CASE r \in recSlot
  <2>1. Cardinality(recSlot') = Cardinality(recSlot) - 1 /\ IsFiniteSet(recSlot')
    BY <1>1, FiniteSlots, FS_RemoveElement DEF GiveBack
  <2>2. Cardinality(recSlot') \in Nat
    BY <2>1, FS_CardinalityType
  <2> QED
    BY <1>1, <2>1, <2>2, FiniteSlots, SupervisorAssumption
    DEF GiveBack, SlotsBalance, IInv, TypeOK
<1>2. CASE r \notin recSlot
  BY <1>2 DEF GiveBack, SlotsBalance, IInv, TypeOK
<1> QED
  BY <1>1, <1>2

\* holdSlot keeps the account: the slot in hand becomes the record's, or goes back.
LEMMA AttachBalance ==
  ASSUME IInv, NEW g \in goSlot, NEW r \in Calls, Attach(g, r)
  PROVE  /\ SlotsBalance' /\ inUse' \in Nat /\ recSlot' \subseteq Calls
         /\ goSlot' = goSlot \ {g}
<1>1. Cardinality(goSlot') = Cardinality(goSlot) - 1 /\ IsFiniteSet(goSlot')
  BY FiniteSlots, FS_RemoveElement DEF Attach
<1>2. Cardinality(goSlot') \in Nat
  BY <1>1, FS_CardinalityType
<1>3. CASE r \in recSlot
  BY <1>1, <1>2, <1>3, FiniteSlots, SupervisorAssumption
  DEF Attach, SlotsBalance, IInv, TypeOK
<1>4. CASE r \notin recSlot
  <2>1. Cardinality(recSlot') = Cardinality(recSlot) + 1
    BY <1>4, FiniteSlots, FS_AddElement DEF Attach
  <2> QED
    BY <1>1, <1>2, <1>4, <2>1, FiniteSlots, SupervisorAssumption
    DEF Attach, SlotsBalance, IInv, TypeOK
<1> QED
  BY <1>3, <1>4 DEF Attach

\* What a step of one goroutine must respect, whatever it does with the slots.
Careful(g) ==
  /\ go' \in [Goroutines -> Goroutine]
  /\ \A h \in Goroutines : h # g => go'[h] = go[h]
  /\ goSlot' \ {g} = goSlot \ {g}
  /\ go'[g].pc \notin {"idle", "done"} \/ go'[g].todo # {} => go'[g].rec \in Calls
  /\ g \in goSlot' <=> go'[g].pc \in {"create", "hold"}
  /\ \/ go'[g].run = go[g].run /\ go'[g].pc = go[g].pc
     \/ go'[g].run = go[g].run /\ Launching(g) /\ go'[g].pc \in {"record", "watch"}
     \/ /\ go'[g].pc \notin {"record", "watch"} /\ (go[g].pc # "idle" \/ g \in Calls)
        /\ \A n \in Runs : g = Mon(n) /\ go'[g].pc = "exit" => Exited(n)

LEMMA CarefulMove ==
  ASSUME IInv, NEW g \in Goroutines, Careful(g), OnlyEnds
  PROVE  Targets' /\ Holders' /\ Forked'
<1>1. Targets'
  BY DEF IInv, Targets, Careful
<1>2. Holders'
  BY DEF IInv, Holders, Careful
<1>3. UnbornUnknown'
  BY HelperNames DEF IInv, Forked, UnbornUnknown, Launching, Careful, OnlyEnds
<1>4. LaunchingIdle'
  BY HelperNames DEF IInv, Forked, LaunchingIdle, Launching, Careful
<1>5. LaunchingApart'
  BY DEF IInv, Forked, LaunchingApart, Launching, Careful
<1>6. ExitIsReal'
  BY HelperNames DEF IInv, Forked, ExitIsReal, Careful, OnlyEnds, Exited
<1> QED
  BY <1>1, <1>2, <1>3, <1>4, <1>5, <1>6 DEF Forked

LEMMA DropSlotInv ==
  ASSUME IInv, NEW g \in Goroutines, DropSlot(g) PROVE IInv'
<1>1. SlotsBalance' /\ inUse' \in Nat /\ recSlot' \subseteq Calls
  BY GiveBackBalance DEF DropSlot
<1>2. Careful(g)
  BY DEF DropSlot, Careful, IInv, TypeOK, Targets, Holders, Goroutine, Effect
<1>3. TypeOK'
  BY <1>1, <1>2 DEF DropSlot, Careful, IInv, TypeOK
<1> QED
  BY <1>1, <1>2, <1>3, CarefulMove, SameProcesses DEF DropSlot, IInv

LEMMA SettleInv ==
  ASSUME IInv, NEW g \in Goroutines, Settle(g) PROVE IInv'
<1>1. Target(g) \in Calls
  BY DEF Settle, Target, IInv, Targets
<1>2. live' \in Nat
  <2>1. IsFiniteSet(LiveRecords)
    BY FiniteGoroutines, FS_Subset DEF IInv, TypeOK, LiveRecords
  <2> QED
    BY <2>1, FS_CardinalityType DEF Settle, IInv, TypeOK
<1>3. disk' \in [Calls -> [state : States \cup {"none"}, cur : 0 .. MaxRuns]]
  BY <1>1 DEF Settle, Snapshot, IInv, TypeOK, Record
<1>4. Careful(g)
  BY DEF Settle, Careful, IInv, TypeOK, Targets, Holders, Goroutine, Effect
<1>5. TypeOK'
  BY <1>2, <1>3, <1>4 DEF Settle, Careful, IInv, TypeOK
<1>6. SlotsBalance'
  BY DEF Settle, IInv, SlotsBalance
<1> QED
  BY <1>4, <1>5, <1>6, CarefulMove, SameProcesses DEF Settle, IInv

\* What Goto does.
LEMMA PutPlace ==
  ASSUME IInv, NEW g \in Goroutines, NEW label \in Labels, NEW todo \in SUBSET Effect,
         Goto(g, label, todo)
  PROVE  /\ go' \in [Goroutines -> Goroutine]
         /\ \A h \in Goroutines : h # g => go'[h] = go[h]
         /\ go'[g].pc = label /\ go'[g].rec = go[g].rec /\ go'[g].todo = todo
<1> DEFINE x == [go[g] EXCEPT !.pc = label, !.todo = todo]
<1>1. go \in [Goroutines -> Goroutine] /\ go[g] \in Goroutine
  BY DEF IInv, TypeOK
<1>2. x \in Goroutine /\ x.pc = label /\ x.rec = go[g].rec /\ x.todo = todo
  BY <1>1 DEF Goroutine
<1>3. go' = [go EXCEPT ![g] = x]
  BY <1>1 DEF Goto
<1> HIDE DEF x
<1> QED
  BY <1>1, <1>2, <1>3

\* A goroutine moves to a label, away from the forking of a run.
LEMMA GotoCareful ==
  ASSUME IInv, NEW g \in Goroutines, NEW label \in Labels, NEW todo \in SUBSET Effect,
         Goto(g, label, todo), go[g].rec \in Calls \/ (label = "done" /\ todo = {}),
         go[g].pc # "idle" \/ g \in Calls,
         label \notin {"record", "watch", "exit"},
         goSlot' \ {g} = goSlot \ {g}, g \in goSlot' <=> label \in {"create", "hold"}
  PROVE  Careful(g)
<1>1. /\ go' \in [Goroutines -> Goroutine]
      /\ \A h \in Goroutines : h # g => go'[h] = go[h]
  BY PutPlace
<1>2. go'[g].pc = label /\ go'[g].rec = go[g].rec /\ go'[g].todo = todo
  BY PutPlace
<1> QED
  BY <1>1, <1>2 DEF Careful

LEMMA AcquireSlotInv ==
  ASSUME IInv, NEW g \in Calls \cup {Mon(n) : n \in Runs}, AcquireSlot(g) PROVE IInv'
<1>1. g \in Goroutines /\ Target(g) \in Calls /\ go[g].pc = "acquire"
  BY Ready, HelperNames DEF AcquireSlot, Labels
<1>2. g \notin goSlot
  BY <1>1 DEF IInv, Holders
<1> DEFINE next == IF Kind(g) = "start" THEN "create" ELSE "hold"
<1>3. CASE /\ inUse < MaxConcurrent
           /\ inUse' = inUse + 1 /\ goSlot' = goSlot \cup {g}
           /\ Goto(g, next, {})
           /\ UNCHANGED admitted
  <2>1. SlotsBalance' /\ inUse' \in Nat
    <3>1. Cardinality(goSlot') = Cardinality(goSlot) + 1
      BY <1>2, <1>3, FiniteSlots, FS_AddElement
    <3> QED
      BY <1>3, <3>1, FiniteSlots, SupervisorAssumption
      DEF AcquireSlot, SlotsBalance, IInv, TypeOK
  <2>2. next \in Labels /\ next \in {"create", "hold"}
    BY DEF Labels
  <2>3. Careful(g)
    <3> HIDE DEF next
    <3> QED
      BY <1>1, <1>3, <2>2, GotoCareful DEF Target
  <2>4. TypeOK'
    BY <1>3, <2>1, <2>3 DEF AcquireSlot, Careful, IInv, TypeOK
  <2> QED
    BY <1>1, <2>1, <2>3, <2>4, CarefulMove, SameProcesses DEF AcquireSlot, IInv
<1>4. CASE Refused /\ Abort(g) /\ UNCHANGED <<inUse, goSlot>>
  <2>1. Ordinary(g)
    BY <1>1, <1>4, GotoOrdinary DEF Abort, Waypoints, Labels, Effect
  <2> QED
    BY <1>1, <1>4, <2>1, OrdinaryMove, SameProcesses DEF AcquireSlot, Abort, IInv, TypeOK
<1> QED
  BY <1>3, <1>4 DEF AcquireSlot

LEMMA HoldSlotInv ==
  ASSUME IInv, NEW g \in Goroutines, HoldSlot(g) PROVE IInv'
<1>1. Target(g) \in Calls /\ go[g].pc = "hold"
  BY Ready DEF HoldSlot, Labels
<1>2. g \in goSlot
  BY <1>1 DEF IInv, Holders
<1>3. /\ SlotsBalance' /\ inUse' \in Nat /\ recSlot' \subseteq Calls
      /\ goSlot' = goSlot \ {g}
  BY <1>1, <1>2, AttachBalance DEF HoldSlot
<1>4. Careful(g)
  BY <1>1, <1>3, GotoCareful DEF HoldSlot, Target, Labels
<1>5. TypeOK'
  BY <1>3, <1>4 DEF HoldSlot, Careful, IInv, TypeOK
<1> QED
  BY <1>3, <1>4, <1>5, CarefulMove, SameProcesses DEF HoldSlot, IInv

\* The new record gets the slot in hand; a start that failed gives it back.
LEMMA CreateRecordInv ==
  ASSUME IInv, NEW c \in Calls, CreateRecord(c) PROVE IInv'
<1>1. c \in Goroutines /\ Target(c) \in Calls /\ go[c].pc = "create"
  BY Ready, HelperNames DEF CreateRecord, Labels
<1>2. c \in goSlot
  BY <1>1 DEF IInv, Holders
<1>3. goSlot' = goSlot \ {c}
  BY <1>2, AttachBalance DEF CreateRecord
<1>4. SlotsBalance' /\ inUse' \in Nat /\ recSlot' \subseteq Calls
  <2>1. CASE inUse' = inUse - 1 /\ UNCHANGED recSlot
    <3>1. Cardinality(goSlot') = Cardinality(goSlot) - 1 /\ IsFiniteSet(goSlot')
      BY <1>2, <1>3, FiniteSlots, FS_RemoveElement
    <3>2. Cardinality(goSlot') \in Nat
      BY <3>1, FS_CardinalityType
    <3>3. Cardinality(recSlot') = Cardinality(recSlot) /\ recSlot' \subseteq Calls
      BY <2>1 DEF IInv, TypeOK
    <3>4. /\ inUse = Cardinality(recSlot) + Cardinality(goSlot)
          /\ inUse <= MaxConcurrent /\ inUse \in Nat
      BY DEF SlotsBalance, IInv, TypeOK
    <3>5. inUse' = Cardinality(recSlot') + Cardinality(goSlot')
      BY <2>1, <3>1, <3>3, <3>4, FiniteSlots
    <3>6. inUse' \in Nat /\ inUse' <= MaxConcurrent
      BY <2>1, <3>2, <3>3, <3>4, <3>5, FiniteSlots, SupervisorAssumption
    <3> QED
      BY <3>3, <3>5, <3>6 DEF SlotsBalance
  <2>2. CASE Attach(c, c)
    BY <1>2, <2>2, AttachBalance
  <2> QED
    BY <2>1, <2>2 DEF CreateRecord
<1>5. Careful(c)
  <2>1. CASE Abort(c)
    BY <1>1, <1>3, <2>1, GotoCareful DEF Abort, Target, Labels
  <2>2. CASE go' = [go EXCEPT ![c].pc = "starting", ![c].rec = c]
    <3> DEFINE x == [go[c] EXCEPT !.pc = "starting", !.rec = c]
    <3>1. go' = [go EXCEPT ![c] = x]
      BY <1>1, <2>2 DEF IInv, TypeOK
    <3>2. "starting" \in Labels
      BY DEF Labels
    <3>3. x \in Goroutine /\ x.pc = "starting" /\ x.rec = c
      BY <1>1, <3>2 DEF IInv, TypeOK, Goroutine
    <3> HIDE DEF x
    <3> QED
      BY <1>1, <1>3, <3>1, <3>3, PutGoroutine DEF Careful
  <2> QED
    BY <2>1, <2>2 DEF CreateRecord
<1>6. TypeOK'
  BY <1>3, <1>4, <1>5 DEF CreateRecord, Abort, Careful, IInv, TypeOK
<1> QED
  BY <1>1, <1>4, <1>5, <1>6, CarefulMove, SameProcesses DEF CreateRecord, IInv

-----------------------------------------------------------------------------
(* The steps of a run, from the fork to the reap. *)

LEMMA ForkInv ==
  ASSUME IInv, NEW g \in Goroutines, Fork(g) PROVE IInv'
<1>1. Target(g) \in Calls /\ go[g].pc = "spawn"
  BY Ready DEF Fork, Labels
<1>2. CASE Goto(g, "failed", {}) /\ UNCHANGED proc
  <2>1. Ordinary(g)
    BY <1>1, <1>2, GotoOrdinary DEF Waypoints, Labels, Effect
  <2> QED
    BY <1>2, <2>1, OrdinaryMove, SameProcesses DEF Fork, IInv, TypeOK
<1>3. CASE \E n \in Runs :
             /\ NextRun(n)
             /\ proc' = [proc EXCEPT ![n] = [os |-> "alive", owner |-> Target(g),
                                             spoke |-> FALSE]]
             /\ go' = [go EXCEPT ![g].pc = "record", ![g].run = n]
  <2>1. PICK n \in Runs :
          /\ proc[n].os = "unborn"
          /\ proc' = [proc EXCEPT ![n] = [os |-> "alive", owner |-> Target(g),
                                          spoke |-> FALSE]]
          /\ go' = [go EXCEPT ![g].pc = "record", ![g].run = n]
    BY <1>3 DEF NextRun
  <2>2. /\ go' \in [Goroutines -> Goroutine]
        /\ go'[g].pc = "record" /\ go'[g].run = n /\ go'[g].rec = go[g].rec
        /\ \A h \in Goroutines : h # g => go'[h] = go[h]
    <3> DEFINE x == [go[g] EXCEPT !.pc = "record", !.run = n]
    <3>1. go' = [go EXCEPT ![g] = x]
      BY <2>1 DEF IInv, TypeOK
    <3>2. "record" \in Labels /\ n \in 0 .. MaxRuns
      BY SupervisorAssumption DEF Labels, Runs
    <3>3. x \in Goroutine /\ x.pc = "record" /\ x.run = n /\ x.rec = go[g].rec
      BY <3>2 DEF IInv, TypeOK, Goroutine
    <3> HIDE DEF x
    <3> QED
      BY <3>1, <3>3, PutGoroutine
  <2>3. /\ proc' \in [Runs -> Process] /\ proc'[n].os = "alive"
        /\ \A m \in Runs : m # n => proc'[m] = proc[m]
    BY <1>1, <2>1 DEF IInv, TypeOK, Process
  <2>4. TypeOK'
    BY <2>2, <2>3 DEF Fork, IInv, TypeOK
  <2>5. SlotsBalance' /\ Targets' /\ Holders'
    BY <1>1, <2>2 DEF Fork, Target, IInv, SlotsBalance, Targets, Holders
  <2>6. go[Mon(n)].pc = "idle" /\ \A h \in Goroutines : Launching(h) => go[h].run # n
    BY <2>1 DEF IInv, Forked, UnbornUnknown
  <2>7. UnbornUnknown'
    BY <1>1, <2>2, <2>3, HelperNames DEF IInv, Forked, UnbornUnknown, Launching
  <2>8. LaunchingIdle'
    BY <1>1, <2>2, <2>6, HelperNames DEF IInv, Forked, LaunchingIdle, Launching
  <2>9. LaunchingApart'
    BY <2>2, <2>6 DEF IInv, Forked, LaunchingApart, Launching
  <2>10. ExitIsReal'
    BY <2>1, <2>2, <2>3, HelperNames DEF IInv, Forked, ExitIsReal, Exited
  <2> QED
    BY <2>4, <2>5, <2>7, <2>8, <2>9, <2>10 DEF IInv, Forked
<1> QED
  BY <1>2, <1>3 DEF Fork

LEMMA RecordRunInv ==
  ASSUME IInv, NEW g \in Goroutines, RecordRun(g) PROVE IInv'
<1>1. Target(g) \in Calls /\ go[g].pc = "record" /\ go[g] \in Goroutine
  BY Ready DEF RecordRun, Labels
<1>2. /\ go' \in [Goroutines -> Goroutine]
      /\ \A h \in Goroutines : h # g => go'[h] = go[h]
      /\ go'[g].pc = "watch" /\ go'[g].rec = go[g].rec /\ go'[g].run = go[g].run
  <2>1. "watch" \in Labels /\ {"persist"} \in SUBSET Effect
    BY DEF Labels, Effect
  <2> QED
    BY <2>1 DEF RecordRun, Goto, IInv, TypeOK, Goroutine
<1>3. Careful(g)
  BY <1>1, <1>2 DEF Careful, Target, Launching, RecordRun, IInv, Holders
<1>4. rec' \in [Calls -> Record]
  <2>1. go[g].run \in 0 .. MaxRuns
    BY <1>1 DEF Goroutine
  <2> DEFINE placed == [rec[Target(g)] EXCEPT !.cur = go[g].run]
             y == [placed EXCEPT !.exit = "none"]
  <2>2. y \in Record
    <3>1. placed \in Record
      BY <1>1, <2>1, SetRun DEF IInv, TypeOK
    <3> HIDE DEF placed
    <3> QED
      BY <3>1, SetNoExit
  <2>3. rec' = [rec EXCEPT ![Target(g)] = y]
    BY <1>1 DEF RecordRun, IInv, TypeOK
  <2> HIDE DEF y
  <2> QED
    BY <1>1, <2>2, <2>3 DEF IInv, TypeOK
<1>5. TypeOK' /\ SlotsBalance'
  BY <1>2, <1>4 DEF RecordRun, IInv, TypeOK, SlotsBalance
<1> QED
  BY <1>3, <1>5, CarefulMove, SameProcesses DEF RecordRun, IInv

\* The monitor that is started is one that was not running.
LEMMA WatchRunInv ==
  ASSUME IInv, NEW g \in Calls \cup {Timer(n) : n \in Runs}, WatchRun(g) PROVE IInv'
<1> DEFINE n == go[g].run
<1>1. g \in Goroutines /\ Target(g) \in Calls /\ go[g].pc = "watch" /\ Launching(g)
  BY Ready, HelperNames DEF WatchRun, Labels, Launching
<1>2. n \in Runs /\ go[Mon(n)].pc = "idle"
  BY <1>1 DEF IInv, Forked, LaunchingIdle
<1>3. /\ Mon(n) \in Goroutines /\ Probe(n) \in Goroutines
      /\ g # Mon(n) /\ g # Probe(n) /\ Mon(n) # Probe(n)
      /\ \A m \in Runs : Mon(m) # g /\ Mon(m) # Probe(n)
  BY <1>2, HelperNames
<1>4. Helper(g, "wait") \in Goroutine /\ Helper(g, "probing") \in Goroutine
  BY <1>1, <1>2 DEF Helper, Goroutine, Labels, IInv, TypeOK
<1>5. /\ go' \in [Goroutines -> Goroutine]
      /\ go'[Mon(n)] = Helper(g, "wait")
      /\ go'[Probe(n)] \in {go[Probe(n)], Helper(g, "probing")}
      /\ go'[g].pc \in {"done", "running"} /\ go'[g].rec = go[g].rec
      /\ \A h \in Goroutines : h \notin {g, Mon(n), Probe(n)} => go'[h] = go[h]
  <2>1. PICK x \in Goroutine, p \in Goroutine :
          /\ go' = [go EXCEPT ![Mon(n)] = Helper(g, "wait"), ![Probe(n)] = p, ![g] = x]
          /\ p \in {go[Probe(n)], Helper(g, "probing")}
          /\ x.pc \in {"done", "running"} /\ x.rec = go[g].rec
    <3>1. /\ "done" \in Labels /\ "running" \in Labels
          /\ AfterSpawn(g) \in SUBSET Effect
      BY DEF AfterSpawn, Effect, Labels
    <3> DEFINE done == [go[g] EXCEPT !.pc = "done", !.todo = AfterSpawn(g)]
               running == [go[g] EXCEPT !.pc = "running"]
    <3>2. /\ done \in Goroutine /\ done.pc = "done" /\ done.rec = go[g].rec
          /\ running \in Goroutine /\ running.pc = "running" /\ running.rec = go[g].rec
          /\ go[Probe(n)] \in Goroutine
      BY <1>1, <1>3, <3>1 DEF IInv, TypeOK, Goroutine
    <3>3. CASE rec[Target(g)].probe
      <4>1. go' = [go EXCEPT ![Mon(n)] = Helper(g, "wait"),
                             ![Probe(n)] = Helper(g, "probing"), ![g] = done]
        BY <1>1, <1>3, <3>3 DEF WatchRun, IInv, TypeOK
      <4> HIDE DEF done
      <4> QED
        BY <1>4, <3>2, <4>1
    <3>4. CASE ~rec[Target(g)].probe
      <4>1. go' = [go EXCEPT ![Mon(n)] = Helper(g, "wait"),
                             ![Probe(n)] = go[Probe(n)], ![g] = running]
        BY <1>1, <1>3, <3>4 DEF WatchRun, IInv, TypeOK
      <4> HIDE DEF running
      <4> QED
        BY <3>2, <4>1
    <3> QED
      BY <3>3, <3>4
  <2> QED
    BY <1>1, <1>3, <1>4, <2>1 DEF IInv, TypeOK
<1>6. TypeOK' /\ SlotsBalance'
  BY <1>5 DEF WatchRun, IInv, TypeOK, SlotsBalance
<1>7. Targets'
  BY <1>1, <1>5 DEF IInv, Targets, Helper, Target
<1>8. Holders'
  <2>1. Mon(n) \notin goSlot /\ Probe(n) \notin goSlot /\ g \notin goSlot
    BY <1>1, <1>2, <1>3, HelperNames DEF IInv, TypeOK, Holders
  <2>2. go[Probe(n)].pc \notin {"create", "hold"}
    BY <1>3, <2>1 DEF IInv, Holders
  <2> QED
    BY <1>5, <2>1, <2>2 DEF WatchRun, IInv, Holders, Helper
<1>9. proc[n].os # "unborn" /\ UNCHANGED proc
  BY <1>1, <1>2 DEF IInv, Forked, UnbornUnknown, WatchRun
<1>10. \A h \in Goroutines :
         /\ Launching(h)' => h # g /\ go'[h] = go[h] /\ Launching(h)
         /\ h # g /\ Launching(h) => go[h].run # n
  BY <1>1, <1>5 DEF Launching, Helper, IInv, Forked, LaunchingApart
<1>11. \A m \in Runs : m # n => go'[Mon(m)] = go[Mon(m)]
  BY <1>2, <1>3, <1>5, HelperNames
<1>12. UnbornUnknown'
  BY <1>9, <1>10, <1>11 DEF IInv, Forked, UnbornUnknown
<1>13. LaunchingIdle'
  BY <1>10, <1>11 DEF IInv, Forked, LaunchingIdle
<1>14. LaunchingApart'
  BY <1>10 DEF IInv, Forked, LaunchingApart
<1>15. ExitIsReal'
  BY <1>5, <1>9, <1>11 DEF IInv, Forked, ExitIsReal, Exited, Helper
<1> QED
  BY <1>6, <1>7, <1>8, <1>12, <1>13, <1>14, <1>15 DEF IInv, Forked

LEMMA ReapInv ==
  ASSUME IInv, NEW n \in Runs, Reap(n) PROVE IInv'
<1>1. Mon(n) \in Goroutines /\ Target(Mon(n)) \in Calls /\ go[Mon(n)].pc = "wait"
  BY Ready, HelperNames DEF Reap, Labels
<1>2. CASE Exited(n) /\ Goto(Mon(n), "exit", {})
  <2> DEFINE x == [go[Mon(n)] EXCEPT !.pc = "exit", !.todo = {}]
  <2>1. go' = [go EXCEPT ![Mon(n)] = x]
    BY <1>1, <1>2 DEF Goto, IInv, TypeOK
  <2>2. "exit" \in Labels
    BY DEF Labels
  <2>3. x \in Goroutine /\ x.pc = "exit" /\ x.rec = go[Mon(n)].rec /\ x.run = go[Mon(n)].run
    BY <1>1, <2>2 DEF IInv, TypeOK, Goroutine
  <2> HIDE DEF x
  <2>4. \A m \in Runs : Mon(n) = Mon(m) => Exited(m)
    BY <1>2, HelperNames
  <2>5. Careful(Mon(n))
    BY <1>1, <2>1, <2>3, <2>4, PutGoroutine DEF Reap, Careful, Target, IInv, Holders
  <2>6. TypeOK' /\ SlotsBalance'
    BY <2>5 DEF Reap, Careful, IInv, TypeOK, SlotsBalance
  <2> QED
    BY <1>1, <2>5, <2>6, CarefulMove, SameProcesses DEF Reap, IInv
<1>3. CASE Goto(Mon(n), "done", {})
  <2>1. Ordinary(Mon(n))
    BY <1>1, <1>3, GotoOrdinary DEF Waypoints, Labels, Effect
  <2> QED
    BY <1>1, <2>1, OrdinaryMove, SameProcesses DEF Reap, IInv, TypeOK
<1> QED
  BY <1>2, <1>3 DEF Reap

\* A step that leaves every goroutine where it is.
LEMMA NobodyMoves ==
  ASSUME IInv, OnlyEnds, UNCHANGED <<go, goSlot>> PROVE Targets' /\ Holders' /\ Forked'
<1>1. Targets' /\ Holders'
  BY DEF IInv, Targets, Holders
<1>2. UnbornUnknown'
  BY DEF IInv, Forked, UnbornUnknown, Launching, OnlyEnds
<1>3. LaunchingIdle' /\ LaunchingApart'
  BY DEF IInv, Forked, LaunchingIdle, LaunchingApart, Launching
<1>4. ExitIsReal'
  BY DEF IInv, Forked, ExitIsReal, Exited, OnlyEnds
<1> QED
  BY <1>1, <1>2, <1>3, <1>4 DEF Forked

LEMMA HostInv ==
  ASSUME IInv, NEW n \in Runs, Host(n) PROVE IInv'
<1>1. OnlyEnds
  <2>1. CASE Announce(n)
    <3>1. [proc[n] EXCEPT !.spoke = TRUE] \in Process
      BY DEF IInv, TypeOK, Process
    <3>2. proc' = [proc EXCEPT ![n] = [proc[n] EXCEPT !.spoke = TRUE]]
      BY <2>1 DEF Announce, IInv, TypeOK
    <3> QED
      BY <3>1, <3>2 DEF OnlyEnds, IInv, TypeOK, Process
  <2>2. CASE Exit(n, "ok")
    BY <2>2 DEF Exit, OnlyEnds, IInv, TypeOK, Process
  <2>3. CASE Exit(n, "fail")
    BY <2>3 DEF Exit, OnlyEnds, IInv, TypeOK, Process
  <2> QED
    BY <2>1, <2>2, <2>3 DEF Host
<1>2. UNCHANGED <<rec, registered, admitted, recSlot, goSlot, inUse, live, disk, go, phase>>
  BY DEF Host, Announce, Exit
<1>3. TypeOK' /\ SlotsBalance'
  BY <1>1, <1>2 DEF OnlyEnds, IInv, TypeOK, SlotsBalance
<1> QED
  BY <1>1, <1>2, <1>3, NobodyMoves DEF IInv

\* The monitor hands its record over to the timer.
LEMMA ScheduleInv ==
  ASSUME IInv, NEW n \in Runs, Schedule(n) PROVE IInv'
<1> DEFINE m == Mon(n)
           t == Timer(n)
<1>1. /\ m \in Goroutines /\ t \in Goroutines /\ m # t
      /\ go[m].rec \in Calls /\ go[m].pc = "schedule" /\ go[m] \in Goroutine
      /\ \A k \in Runs : Mon(k) # t /\ (Mon(k) = m => k = n)
  BY Ready, HelperNames DEF Schedule, Labels, Target
<1>2. PICK x \in Goroutine, y \in Goroutine :
        /\ go' = [go EXCEPT ![t] = x, ![m] = y]
        /\ x.pc = "backoff" /\ x.rec = go[m].rec
        /\ y.pc = "done" /\ y.rec = go[m].rec
  <2>1. "backoff" \in Labels /\ "done" \in Labels
    BY DEF Labels
  <2> DEFINE x == [go[m] EXCEPT !.pc = "backoff"]
             y == [go[m] EXCEPT !.pc = "done"]
  <2>2. /\ x \in Goroutine /\ x.pc = "backoff" /\ x.rec = go[m].rec
        /\ y \in Goroutine /\ y.pc = "done" /\ y.rec = go[m].rec
    BY <1>1, <2>1 DEF Goroutine
  <2>3. go' = [go EXCEPT ![t] = x, ![m] = y]
    BY <1>1 DEF Schedule, IInv, TypeOK
  <2> HIDE DEF x, y
  <2> QED
    BY <2>2, <2>3
<1>3. /\ go' \in [Goroutines -> Goroutine]
      /\ go'[t] = x /\ go'[m] = y
      /\ \A h \in Goroutines : h \notin {t, m} => go'[h] = go[h]
  BY <1>1, <1>2 DEF IInv, TypeOK
<1> HIDE DEF m, t
<1>4. TypeOK' /\ SlotsBalance'
  BY <1>3 DEF Schedule, IInv, TypeOK, SlotsBalance
<1>5. Targets'
  BY <1>1, <1>2, <1>3 DEF IInv, Targets
<1>6. Holders'
  <2>1. t \notin goSlot /\ m \notin goSlot
    BY <1>1, HelperNames DEF IInv, TypeOK, Holders, t
  <2> QED
    BY <1>2, <1>3, <2>1 DEF Schedule, IInv, Holders
<1>7. UNCHANGED proc /\ proc[n].os # "unborn"
  BY <1>1 DEF Schedule, IInv, Forked, UnbornUnknown, m
<1>8. \A k \in Runs : k # n => go'[Mon(k)] = go[Mon(k)]
  BY <1>1, <1>3, HelperNames
<1>9. \A h \in Goroutines :
        go'[h].pc \in {"record", "watch"} => Launching(h) /\ go'[h] = go[h]
  BY <1>2, <1>3 DEF Launching
<1>10. UnbornUnknown'
  BY <1>7, <1>8, <1>9 DEF IInv, Forked, UnbornUnknown, Launching
<1>11. LaunchingIdle'
  <2>1. \A h \in Goroutines : Launching(h) => go[h].run # n
    BY <1>1 DEF IInv, Forked, LaunchingIdle, m
  <2> QED
    BY <1>8, <1>9, <2>1 DEF IInv, Forked, LaunchingIdle, Launching
<1>12. LaunchingApart'
  BY <1>9 DEF IInv, Forked, LaunchingApart, Launching
<1>13. ExitIsReal'
  BY <1>2, <1>3, <1>7, <1>8 DEF IInv, Forked, ExitIsReal, Exited, m
<1> QED
  BY <1>4, <1>5, <1>6, <1>10, <1>11, <1>12, <1>13 DEF IInv, Forked

-----------------------------------------------------------------------------
(* Clients and the shutdown. *)

LEMMA StartProcessInv ==
  ASSUME IInv, NEW c \in Calls, NEW o \in Ops, NEW name \in Names, NEW policy \in Policies,
         NEW probe \in Probed, StartProcess(c, o, name, policy, probe)
  PROVE  IInv'
<1>1. c \in Goroutines /\ go[c].pc = "idle" /\ go[c] \in Goroutine /\ c \notin goSlot
  BY HelperNames DEF StartProcess, At, IInv, TypeOK, Holders
<1>0. UNCHANGED <<registered, recSlot, goSlot, inUse, live, disk, proc, phase>>
  BY DEF StartProcess
<1>2. CASE Goto(c, "done", {}) /\ UNCHANGED <<rec, admitted>>
  <2>1. Careful(c)
    BY <1>0, <1>1, <1>2, GotoCareful DEF Labels
  <2>2. TypeOK' /\ SlotsBalance'
    BY <1>0, <1>2, <2>1 DEF Careful, IInv, TypeOK, SlotsBalance
  <2> QED
    BY <1>0, <1>1, <2>1, <2>2, CarefulMove, SameProcesses DEF IInv
<1>3. ASSUME admitted' = admitted \cup {c},
             rec' = [rec EXCEPT ![c].name = name, ![c].policy = policy, ![c].probe = probe],
             NEW r \in Calls,
             go' = [go EXCEPT ![c].pc = IF r = c THEN "acquire" ELSE "disable",
                              ![c].rec = r, ![c].op = o]
      PROVE  IInv'
  <2> DEFINE label == IF r = c THEN "acquire" ELSE "disable"
             x == [go[c] EXCEPT !.pc = label, !.rec = r, !.op = o]
             named == [rec[c] EXCEPT !.name = name]
             ruled == [named EXCEPT !.policy = policy]
             y == [ruled EXCEPT !.probe = probe]
  <2>1. label \in Labels /\ label \notin {"create", "hold", "record", "watch", "exit"}
    BY DEF Labels
  <2>2. go' = [go EXCEPT ![c] = x]
    BY <1>1, <1>3 DEF IInv, TypeOK
  <2> HIDE DEF label
  <2>3. x \in Goroutine /\ x.pc = label /\ x.rec = r
    BY <1>1, <2>1 DEF Goroutine
  <2>4. rec' = [rec EXCEPT ![c] = y]
    BY <1>3 DEF IInv, TypeOK
  <2>5. probe \in BOOLEAN
    BY SupervisorAssumption
  <2>6. y \in Record
    <3>1. named \in Record
      BY SetNamed DEF IInv, TypeOK
    <3> HIDE DEF named
    <3>2. ruled \in Record
      BY <3>1, SetPolicy
    <3> HIDE DEF ruled
    <3> QED
      BY <2>5, <3>2, SetProbe
  <2> HIDE DEF x, y
  <2>7. Careful(c)
    BY <1>0, <1>1, <2>1, <2>2, <2>3, PutGoroutine DEF Careful
  <2>8. rec' \in [Calls -> Record]
    BY <2>4, <2>6 DEF IInv, TypeOK
  <2>9. TypeOK' /\ SlotsBalance'
    BY <1>0, <1>3, <2>7, <2>8 DEF Careful, IInv, TypeOK, SlotsBalance
  <2> QED
    BY <1>0, <1>1, <2>7, <2>9, CarefulMove, SameProcesses DEF IInv
<1>4. (IF Rivals(name) = {} THEN {c} ELSE Rivals(name)) \subseteq Calls
  BY DEF Rivals, IInv, TypeOK
<1> QED
  BY <1>2, <1>3, <1>4 DEF StartProcess

LEMMA RequestInv ==
  ASSUME IInv, NEW c \in Calls, NEW o \in Ops, NEW r \in Calls, Request(c, o, r)
  PROVE  IInv'
<1> DEFINE disable == o.kind = "stop" /\ o.flag
           todo == IF disable THEN {"persist"} ELSE {}
           x == [go[c] EXCEPT !.pc = EntryPoint(o), !.rec = r, !.op = o, !.todo = todo]
           flag == rec[r].disabled \/ disable
<1>1. /\ c \in Goroutines /\ go[c].pc = "idle" /\ go[c] \in Goroutine
      /\ c \notin goSlot
  BY HelperNames DEF Request, At, IInv, TypeOK, Holders
<1>2. /\ EntryPoint(o) \in {"term", "signal", "suppress", "inspect"}
      /\ EntryPoint(o) \in Labels
  BY SupervisorAssumption DEF Request, EntryPoint, OpKinds, Labels
<1>3. go' = [go EXCEPT ![c] = x]
  BY <1>1 DEF Request, IInv, TypeOK
<1>4. todo \in SUBSET Effect
  BY DEF Effect
<1> HIDE DEF todo
<1>5. x \in Goroutine /\ x.pc = EntryPoint(o) /\ x.rec = r
  BY <1>1, <1>2, <1>4 DEF Goroutine
<1>6. rec' \in [Calls -> Record]
  <2>1. flag \in BOOLEAN
    BY SupervisorAssumption DEF IInv, TypeOK, Record
  <2>2. rec' = [rec EXCEPT ![r].disabled = flag]
    BY DEF Request
  <2> HIDE DEF flag
  <2> QED
    BY <2>1, <2>2, SetFlag DEF IInv, TypeOK
<1> HIDE DEF x
<1>7. Careful(c)
  BY <1>1, <1>2, <1>3, <1>5, PutGoroutine DEF Request, Careful
<1>8. TypeOK' /\ SlotsBalance'
  BY <1>6, <1>7 DEF Request, Careful, IInv, TypeOK, SlotsBalance
<1> QED
  BY <1>1, <1>7, <1>8, CarefulMove, SameProcesses DEF Request, IInv

\* Close gives back the slots of every registered record at once.
LEMMA CloseInv ==
  ASSUME IInv, BeginClose \/ FinishClose PROVE IInv'
<1>1. Targets' /\ Holders' /\ Forked'
  BY NobodyMoves, SameProcesses DEF BeginClose, FinishClose, IInv
<1>2. CASE BeginClose
  BY <1>1, <1>2 DEF BeginClose, IInv, TypeOK, SlotsBalance
<1>3. CASE FinishClose
  <2> DEFINE back == recSlot \cap registered
  <2>1. recSlot' = recSlot \ back
    BY <1>3 DEF FinishClose
  <2>2. /\ IsFiniteSet(back) /\ IsFiniteSet(recSlot')
        /\ Cardinality(back) \in Nat /\ Cardinality(recSlot') \in Nat
    BY <2>1, FiniteSlots, FS_Subset, FS_CardinalityType
  <2>3. Cardinality(recSlot') = Cardinality(recSlot) - Cardinality(back)
    <3>1. recSlot \cap back = back
      OBVIOUS
    <3> QED
      BY <2>1, <3>1, FiniteSlots, FS_Difference
  <2>4. inUse' = inUse - Cardinality(back) /\ goSlot' = goSlot
    BY <1>3 DEF FinishClose
  <2>5. /\ inUse = Cardinality(recSlot) + Cardinality(goSlot)
        /\ inUse <= MaxConcurrent
    BY DEF IInv, SlotsBalance
  <2> HIDE DEF back
  <2>6. SlotsBalance' /\ inUse' \in Nat
    <3>1. inUse' = Cardinality(recSlot') + Cardinality(goSlot')
      BY <2>2, <2>3, <2>4, <2>5, FiniteSlots
    <3>2. inUse' \in Nat /\ inUse' <= MaxConcurrent
      BY <2>2, <2>3, <2>4, <2>5, FiniteSlots, SupervisorAssumption
    <3> QED
      BY <3>1, <3>2 DEF SlotsBalance
  <2>7. \A r \in Calls : Snapshot(r) \in [state : States \cup {"none"}, cur : 0 .. MaxRuns]
    BY DEF Snapshot, IInv, TypeOK, Record
  <2>8. disk' \in [Calls -> [state : States \cup {"none"}, cur : 0 .. MaxRuns]]
    BY <1>3, <2>7 DEF FinishClose, IInv, TypeOK
  <2>9. TypeOK'
    BY <1>3, <2>6, <2>8 DEF FinishClose, IInv, TypeOK
  <2> QED
    BY <1>1, <2>6, <2>9 DEF IInv
<1> QED
  BY <1>2, <1>3

LEMMA StutterInv == ASSUME IInv, UNCHANGED vars PROVE IInv'
<1>1. Targets' /\ Holders' /\ Forked'
  BY NobodyMoves, SameProcesses DEF vars
<1> QED
  BY <1>1 DEF vars, IInv, TypeOK, SlotsBalance

-----------------------------------------------------------------------------
(* Every step. *)

LEMMA SpawningInv ==
  ASSUME IInv, NEW g \in Calls \cup {Timer(n) : n \in Runs}, Spawning(g) PROVE IInv'
BY HelperNames, MarkStartingInv, ForkInv, RecordRunInv, WatchRunInv, MarkRunningInv,
   SpawnFailedInv
DEF Spawning

LEMMA EffectsInv == ASSUME IInv, NEW g \in Goroutines, Effects(g) PROVE IInv'
BY DropSlotInv, SettleInv DEF Effects

LEMMA CallStepInv == ASSUME IInv, NEW c \in Calls, CallStep(c) PROVE IInv'
<1>1. c \in Goroutines
  BY HelperNames
<1>2. CASE Effects(c) \/ Spawning(c)
  BY <1>1, <1>2, EffectsInv, SpawningInv
<1>3. CASE \/ AcquireSlot(c) \/ HoldSlot(c) \/ MarkRestarting(c)
           \/ CreateRecord(c) \/ ReleaseName(c)
  BY <1>1, <1>3, AcquireSlotInv, HoldSlotInv, MarkRestartingInv, CreateRecordInv,
     ReleaseNameInv
<1>4. CASE \/ Disable(c) \/ Terminate(c) \/ AwaitGrace(c) \/ Kill(c) \/ AwaitKill(c)
           \/ SignalOnce(c)
  BY <1>4, DisableInv, TerminateInv, AwaitGraceInv, KillInv, AwaitKillInv, SignalOnceInv
<1>5. CASE \/ Suppress(c) \/ CheckLive(c) \/ AwaitTerminal(c) \/ Enable(c)
           \/ Inspect(c) \/ MarkRemoved(c) \/ Forget(c) \/ Unlink(c)
  BY <1>5, SuppressInv, CheckLiveInv, AwaitTerminalInv, EnableInv, InspectInv,
     MarkRemovedInv, ForgetInv, UnlinkInv
<1> QED
  BY <1>2, <1>3, <1>4, <1>5 DEF CallStep

LEMMA MonitorStepInv == ASSUME IInv, NEW n \in Runs, MonitorStep(n) PROVE IInv'
<1>1. Mon(n) \in Goroutines
  BY HelperNames
<1>2. CASE Effects(Mon(n))
  BY <1>1, <1>2, EffectsInv
<1>3. CASE Reap(n) \/ RecordExit(n) \/ ApplyPolicy(n) \/ GiveUp(n) \/ Schedule(n)
  BY <1>3, ReapInv, RecordExitInv, ApplyPolicyInv, GiveUpInv, ScheduleInv
<1>4. CASE AcquireSlot(Mon(n)) \/ HoldSlot(Mon(n)) \/ MarkRestarting(Mon(n))
  BY <1>1, <1>4, AcquireSlotInv, HoldSlotInv, MarkRestartingInv
<1> QED
  BY <1>2, <1>3, <1>4 DEF MonitorStep

LEMMA TimerStepInv == ASSUME IInv, NEW n \in Runs, TimerStep(n) PROVE IInv'
<1>1. Timer(n) \in Goroutines
  BY HelperNames
<1> QED
  BY <1>1, EffectsInv, BackoffInv, CancelInv, SpawningInv DEF TimerStep

LEMMA ProbeStepInv == ASSUME IInv, NEW n \in Runs, ProbeStep(n) PROVE IInv'
<1>1. Probe(n) \in Goroutines
  BY HelperNames
<1> QED
  BY <1>1, EffectsInv, ProbeRunInv, MarkReadyInv DEF ProbeStep

THEOREM NextInv == IInv /\ [Next]_vars => IInv'
<1> SUFFICES ASSUME IInv, [Next]_vars PROVE IInv'
  OBVIOUS
<1>1. ASSUME NEW c \in Calls, Arrive(c) PROVE IInv'
  BY <1>1, StartProcessInv, RequestInv DEF Arrive
<1>2. ASSUME NEW c \in Calls, CallStep(c) PROVE IInv'
  BY <1>2, CallStepInv
<1>3. ASSUME NEW n \in Runs, MonitorStep(n) \/ TimerStep(n) \/ ProbeStep(n) \/ Host(n)
      PROVE  IInv'
  BY <1>3, MonitorStepInv, TimerStepInv, ProbeStepInv, HostInv
<1>4. CASE BeginClose \/ FinishClose
  BY <1>4, CloseInv
<1>5. CASE Quiet \/ UNCHANGED vars
  BY <1>5, StutterInv DEF Quiet
<1> QED
  BY <1>1, <1>2, <1>3, <1>4, <1>5 DEF Next

\* Every variable of the supervisor keeps its type.
THEOREM TypeCorrect == Spec => []TypeOK
<1>1. IInv => TypeOK
  BY DEF IInv
<1> QED
  BY <1>1, InitInv, NextInv, PTL DEF Spec

\* Concurrency slots are conserved: whatever is started, stopped, restarted,
\* removed and failed, in whatever order, the limiter's count is what records and
\* goroutines hold, and never more than max_concurrent.
THEOREM SlotsAlwaysBalance == Spec => []SlotsBalance
<1>1. IInv => SlotsBalance
  BY DEF IInv
<1> QED
  BY <1>1, InitInv, NextInv, PTL DEF Spec

-----------------------------------------------------------------------------
(* A removed record.  Only its removal writes the flag, only the goroutine that *)
(* removes it is between the two steps, and every write to the disk asks first. *)

Removing == {"forget", "unlink"}

\* A step that has nothing to do with a removal or with the disk.
Aloof ==
  /\ disk' = disk
  /\ \A r \in Calls : rec'[r].removed = rec[r].removed
  /\ \A c \in Calls :
       go[c].pc \in Removing => go'[c].pc = go[c].pc /\ go'[c].rec = go[c].rec

LEMMA AloofKeeps == RemovedStaysGone /\ Aloof => RemovedStaysGone'
BY DEF RemovedStaysGone, Aloof, Removing

\* A goroutine that is elsewhere moves on.
LEMMA GotoAloof ==
  ASSUME IInv, NEW g \in Goroutines, go[g].pc \notin Removing, NEW label, NEW todo,
         Goto(g, label, todo), disk' = disk,
         \A r \in Calls : rec'[r].removed = rec[r].removed
  PROVE  Aloof
BY HelperNames DEF Goto, Aloof, IInv, TypeOK

LEMMA SetStateAloof ==
  ASSUME IInv, NEW g \in Goroutines, go[g].pc \notin Removing, NEW to, NEW label,
         SetState(g, to, label), disk' = disk
  PROVE  Aloof
<1>1. \A r \in Calls : rec'[r].removed = rec[r].removed
  BY DEF SetState, IInv, TypeOK, Record
<1> QED
  BY <1>1, GotoAloof DEF SetState

LEMMA SpawningAloof ==
  ASSUME IInv, NEW g \in Calls \cup {Timer(n) : n \in Runs}, Spawning(g) PROVE Aloof
<1>1. g \in Goroutines /\ go[g].pc \notin Removing
  BY HelperNames DEF Spawning, MarkStarting, Fork, RecordRun, WatchRun, MarkRunning,
     SpawnFailed, At, Removing
<1>2. CASE MarkStarting(g) \/ MarkRunning(g)
  BY <1>1, <1>2, SetStateAloof, GotoAloof DEF MarkStarting, MarkRunning
<1>3. CASE Fork(g)
  BY <1>1, <1>3, GotoAloof, HelperNames DEF Fork, Aloof, IInv, TypeOK
<1>4. CASE RecordRun(g) \/ SpawnFailed(g)
  <2>1. \A r \in Calls : rec'[r].removed = rec[r].removed
    BY <1>4 DEF RecordRun, SpawnFailed, IInv, TypeOK, Record
  <2> QED
    BY <1>1, <1>4, <2>1, GotoAloof DEF RecordRun, SpawnFailed
<1>5. CASE WatchRun(g)
  <2>1. go[g].run \in Runs
    BY <1>1, <1>5 DEF WatchRun, At, IInv, Forked, LaunchingIdle, Launching
  <2> QED
    BY <1>1, <1>5, <2>1, HelperNames DEF WatchRun, Aloof, IInv, TypeOK
<1> QED
  BY <1>2, <1>3, <1>4, <1>5 DEF Spawning

LEMMA MonitorAloof ==
  ASSUME IInv, NEW n \in Runs,
         \/ Reap(n) \/ RecordExit(n) \/ ApplyPolicy(n) \/ GiveUp(n) \/ Schedule(n)
         \/ Backoff(n) \/ Cancel(n) \/ ProbeRun(n) \/ MarkReady(n)
  PROVE  Aloof
<1>1. CASE Reap(n) \/ ProbeRun(n)
  BY <1>1, HelperNames DEF Reap, ProbeRun, Aloof, Goto, IInv, TypeOK
<1>2. CASE GiveUp(n) \/ Cancel(n) \/ MarkReady(n)
  <2>1. PICK g \in {Mon(n), Timer(n), Probe(n)} :
          /\ go[g].pc \notin Removing
          /\ \/ \E to, label : SetState(g, to, label)
             \/ (\E label, todo : Goto(g, label, todo)) /\ UNCHANGED rec
    BY <1>2 DEF GiveUp, Cancel, MarkReady, At, Removing
  <2> QED
    BY <1>2, <2>1, SetStateAloof, GotoAloof, HelperNames DEF GiveUp, Cancel, MarkReady
<1>3. CASE RecordExit(n) \/ ApplyPolicy(n) \/ Backoff(n)
  <2>0. rec \in [Calls -> Record]
    BY DEF IInv, TypeOK
  <2>1. \A r \in Calls : rec'[r].removed = rec[r].removed
    <3>1. CASE RecordExit(n)
      BY <2>0, <3>1 DEF RecordExit, Record
    <3>2. CASE ApplyPolicy(n)
      BY <2>0, <3>2 DEF ApplyPolicy, Record
    <3>3. CASE Backoff(n)
      BY <2>0, <3>3 DEF Backoff, Record
    <3> QED
      BY <1>3, <3>1, <3>2, <3>3
  <2>2. PICK g \in {Mon(n), Timer(n)} :
          \E label, todo : Goto(g, label, todo) /\ disk' = disk
    BY <1>3 DEF RecordExit, ApplyPolicy, Backoff
  <2>3. go \in [Goroutines -> Goroutine] /\ g \notin Calls /\ Calls \subseteq Goroutines
    BY HelperNames DEF IInv, TypeOK
  <2> QED
    BY <2>1, <2>2, <2>3 DEF Aloof, Goto
<1>4. CASE Schedule(n)
  BY <1>4, HelperNames DEF Schedule, Aloof, IInv, TypeOK
<1> QED
  BY <1>1, <1>2, <1>3, <1>4

LEMMA SlotAloof ==
  ASSUME IInv, NEW g \in Goroutines,
         \/ DropSlot(g) \/ AcquireSlot(g) \/ HoldSlot(g) \/ MarkRestarting(g)
  PROVE  Aloof
<1>1. CASE DropSlot(g)
  BY <1>1, HelperNames DEF DropSlot, Aloof, IInv, TypeOK, Goroutine
<1>2. CASE AcquireSlot(g) \/ HoldSlot(g)
  BY <1>2, GotoAloof DEF AcquireSlot, HoldSlot, Abort, At, Removing
<1>3. CASE MarkRestarting(g)
  BY <1>3, SetStateAloof, GotoAloof DEF MarkRestarting, At, Removing
<1> QED
  BY <1>1, <1>2, <1>3

LEMMA CallAloof ==
  ASSUME IInv, NEW c \in Calls,
         \/ CreateRecord(c) \/ ReleaseName(c) \/ Disable(c) \/ Terminate(c)
         \/ AwaitGrace(c) \/ Kill(c) \/ AwaitKill(c) \/ SignalOnce(c)
         \/ Suppress(c) \/ CheckLive(c) \/ AwaitTerminal(c) \/ Enable(c) \/ Inspect(c)
  PROVE  Aloof
<1>1. c \in Goroutines /\ go[c].pc \notin Removing
  BY HelperNames DEF CreateRecord, ReleaseName, Disable, Terminate, AwaitGrace, Kill,
     AwaitKill, SignalOnce, Suppress, CheckLive, AwaitTerminal, Enable, Inspect, At, Removing
<1>2. CASE CreateRecord(c)
  BY <1>1, <1>2, GotoAloof, HelperNames DEF CreateRecord, Abort, Aloof, IInv, TypeOK
<1>3. CASE ReleaseName(c) \/ Terminate(c) \/ AwaitGrace(c) \/ CheckLive(c)
           \/ AwaitTerminal(c) \/ Inspect(c)
  BY <1>1, <1>3, GotoAloof
  DEF ReleaseName, Terminate, AwaitGrace, CheckLive, AwaitTerminal, Inspect
<1>4. CASE Kill(c) \/ AwaitKill(c) \/ SignalOnce(c)
  BY <1>1, <1>4, GotoAloof DEF Kill, AwaitKill, SignalOnce, Abort
<1>5. CASE Disable(c) \/ Suppress(c) \/ Enable(c)
  <2>1. \A r \in Calls : rec'[r].removed = rec[r].removed
    BY <1>5 DEF Disable, Suppress, Enable, IInv, TypeOK, Record
  <2> QED
    BY <1>1, <1>5, <2>1, GotoAloof DEF Disable, Suppress, Enable
<1> QED
  BY <1>2, <1>3, <1>4, <1>5

LEMMA ArriveAloof == ASSUME IInv, NEW c \in Calls, Arrive(c) PROVE Aloof
<1>1. /\ go[c].pc = "idle" /\ disk' = disk
      /\ \A h \in Calls : h # c => go'[h] = go[h]
  <2>0. go \in [Goroutines -> Goroutine] /\ Calls \subseteq Goroutines
    BY HelperNames DEF IInv, TypeOK
  <2>1. ASSUME NEW o \in Ops, NEW name \in Names, NEW policy \in Policies,
               NEW probe \in Probed, StartProcess(c, o, name, policy, probe)
        PROVE  /\ go[c].pc = "idle" /\ disk' = disk
               /\ \A h \in Calls : h # c => go'[h] = go[h]
    BY <2>0, <2>1 DEF StartProcess, At, Goto
  <2>2. ASSUME NEW o \in Ops, NEW r \in Calls, Request(c, o, r)
        PROVE  /\ go[c].pc = "idle" /\ disk' = disk
               /\ \A h \in Calls : h # c => go'[h] = go[h]
    BY <2>0, <2>2 DEF Request, At
  <2> QED
    BY <2>1, <2>2 DEF Arrive
<1>2. \A r \in Calls : rec'[r].removed = rec[r].removed
  <2>1. ASSUME NEW o \in Ops, NEW name \in Names, NEW policy \in Policies,
               NEW probe \in Probed, StartProcess(c, o, name, policy, probe)
        PROVE  \A r \in Calls : rec'[r].removed = rec[r].removed
    <3>1. CASE UNCHANGED rec
      BY <3>1
    <3>2. CASE rec' = [rec EXCEPT ![c].name = name, ![c].policy = policy,
                                  ![c].probe = probe]
      BY <3>2 DEF IInv, TypeOK, Record
    <3> QED
      BY <2>1, <3>1, <3>2 DEF StartProcess
  <2>2. ASSUME NEW o \in Ops, NEW q \in Calls, Request(c, o, q)
        PROVE  \A r \in Calls : rec'[r].removed = rec[r].removed
    <3>1. PICK b : rec' = [rec EXCEPT ![q].disabled = b]
      BY <2>2 DEF Request
    <3> QED
      BY <3>1 DEF IInv, TypeOK, Record
  <2> QED
    BY <2>1, <2>2 DEF Arrive
<1> QED
  BY <1>1, <1>2 DEF Aloof, Removing

\* The steps that write the flag or the disk.
LEMMA RemovalKeeps ==
  ASSUME IInv, RemovedStaysGone, NEW c \in Calls, MarkRemoved(c) \/ Forget(c) \/ Unlink(c)
  PROVE  RemovedStaysGone'
<1>1. c \in Goroutines /\ Target(c) \in Calls /\ go[c].pc \in {"mark", "forget", "unlink"}
  BY Ready, HelperNames DEF MarkRemoved, Forget, Unlink, Labels
<1>2. /\ \A h \in Calls : h # c => go'[h] = go[h]
      /\ go'[c].rec = go[c].rec
  BY HelperNames DEF MarkRemoved, Forget, Unlink, Goto, IInv, TypeOK, Goroutine
<1>3. CASE MarkRemoved(c)
  <2>1. \A r \in Calls : r # Target(c) => rec'[r] = rec[r]
    BY <1>3 DEF MarkRemoved, IInv, TypeOK
  <2>2. go'[c].pc = "forget" /\ disk' = disk /\ go[c].pc = "mark"
    BY <1>3, HelperNames DEF MarkRemoved, At, Goto, IInv, TypeOK, Goroutine
  <2> QED
    BY <1>2, <2>1, <2>2 DEF RemovedStaysGone, Target
<1>4. CASE Forget(c)
  <2>1. go'[c].pc = "unlink" /\ disk' = disk /\ rec' = rec
    BY <1>4, HelperNames DEF Forget, Goto, IInv, TypeOK, Goroutine
  <2> QED
    BY <1>2, <2>1 DEF RemovedStaysGone
<1>5. CASE Unlink(c)
  <2>1. /\ disk'[Target(c)] = NoRecord /\ rec' = rec
        /\ \A r \in Calls : r # Target(c) => disk'[r] = disk[r]
    BY <1>1, <1>5 DEF Unlink, IInv, TypeOK
  <2> QED
    BY <1>2, <2>1 DEF RemovedStaysGone, Target
<1> QED
  BY <1>3, <1>4, <1>5

LEMMA WriteKeeps ==
  ASSUME IInv, RemovedStaysGone, (\E g \in Goroutines : Settle(g)) \/ FinishClose
  PROVE  RemovedStaysGone'
<1>1. /\ rec' = rec /\ \A r \in Calls : rec[r].removed => disk'[r] = disk[r]
      /\ \A c \in Calls : go'[c].pc = go[c].pc /\ go'[c].rec = go[c].rec
  BY HelperNames DEF Settle, FinishClose, Persistable, IInv, TypeOK, Goroutine
<1> QED
  BY <1>1 DEF RemovedStaysGone

THEOREM RemovedKept == IInv /\ RemovedStaysGone /\ [Next]_vars => RemovedStaysGone'
<1> SUFFICES ASSUME IInv, RemovedStaysGone, [Next]_vars PROVE RemovedStaysGone'
  OBVIOUS
<1>1. ASSUME NEW c \in Calls, CallStep(c) PROVE RemovedStaysGone'
  <2>1. c \in Goroutines
    BY HelperNames
  <2>2. CASE MarkRemoved(c) \/ Forget(c) \/ Unlink(c) \/ Settle(c)
    BY <2>1, <2>2, RemovalKeeps, WriteKeeps
  <2>3. CASE Aloof
    BY <2>3, AloofKeeps
  <2> QED
    BY <1>1, <2>1, <2>2, <2>3, SlotAloof, SpawningAloof, CallAloof DEF CallStep, Effects
<1>2. ASSUME NEW n \in Runs, MonitorStep(n) \/ TimerStep(n) \/ ProbeStep(n)
      PROVE  RemovedStaysGone'
  <2>1. Mon(n) \in Goroutines /\ Timer(n) \in Goroutines /\ Probe(n) \in Goroutines
    BY HelperNames
  <2>2. CASE Settle(Mon(n)) \/ Settle(Timer(n)) \/ Settle(Probe(n))
    BY <2>1, <2>2, WriteKeeps
  <2>3. CASE Aloof
    BY <2>3, AloofKeeps
  <2> QED
    BY <1>2, <2>1, <2>2, <2>3, SlotAloof, SpawningAloof, MonitorAloof
    DEF MonitorStep, TimerStep, ProbeStep, Effects
<1>3. ASSUME NEW n \in Runs, Host(n) PROVE RemovedStaysGone'
  BY <1>3 DEF Host, Announce, Exit, RemovedStaysGone
<1>4. CASE BeginClose \/ Quiet \/ UNCHANGED vars
  BY <1>4 DEF BeginClose, Quiet, vars, RemovedStaysGone
<1>5. CASE FinishClose
  BY <1>5, WriteKeeps
<1>6. ASSUME NEW c \in Calls, Arrive(c) PROVE RemovedStaysGone'
  BY <1>6, ArriveAloof, AloofKeeps
<1> QED
  BY <1>1, <1>2, <1>3, <1>4, <1>5, <1>6 DEF Next

\* The file of a removed record never comes back, whichever transition was on its
\* way to the disk when the record was unlinked.
THEOREM RemovedRecordsStayGone == Spec => []RemovedStaysGone
<1>1. Init => RemovedStaysGone
  BY DEF Init, RemovedStaysGone
<1> QED
  BY <1>1, InitInv, NextInv, RemovedKept, PTL DEF Spec
-----------------------------------------------------------------------------
(* Who works for which record.  Two goroutines are never about to fork for one  *)
(* record, as long as nobody asks to restart it: the start hands its turn to    *)
(* the monitor of the run it forked, the monitor to the timer, and the timer to *)
(* the next monitor.                                                            *)

\* The labels from which a goroutine goes on to fork a run, or is forking one.
Launch == {"starting", "release", "spawn", "record", "watch"}
Turn == {"wait", "exit", "policy", "giveup", "acquire", "hold", "restarting", "schedule",
         "backoff", "cancel", "starting", "spawn", "record", "watch"}
Charged == {"acquire", "hold", "restarting", "schedule", "backoff"}

\* A call whose record does not exist, or not yet.
Unmade(c) ==
  \/ go[c].pc = "idle"
  \/ /\ Kind(c) = "start"
     /\ go[c].pc \in {"disable", "term", "grace", "kill", "killed", "acquire", "create"}

\* Which calls can be where.
Suits(c) ==
  /\ go[c].pc \in {"suppress", "check", "await", "inspect"} => Kind(c) # "start"
  /\ go[c].pc \in {"enable", "hold", "restarting"} => Kind(c) = "restart"
  /\ go[c].pc = "acquire" => Kind(c) \in {"start", "restart"}
  /\ go[c].pc = "create" => Kind(c) = "start"
  /\ go[c].pc \in Launch => \/ Kind(c) = "restart"
                            \/ Kind(c) = "start" /\ go[c].rec = c
  /\ go[c].pc \in {"forget", "unlink"} => rec[go[c].rec].removed

Suited == \A c \in Calls : Suits(c)

\* The helpers of a run work for its owner, and start one after another.
Helping ==
  /\ \A h \in Helpers : Kind(h) = "none"
  /\ \A n \in Runs :
       /\ go[Mon(n)].pc # "done" => go[Timer(n)].pc = "idle"
       /\ go[Mon(n)].pc = "idle" => go[Probe(n)].pc = "idle"
       /\ go[Mon(n)].pc # "idle" => go[Mon(n)].run = n /\ go[Mon(n)].rec = proc[n].owner
       /\ go[Timer(n)].pc # "idle" => go[Timer(n)].rec = proc[n].owner

IdleFree ==
  \A g \in Goroutines : go[g].pc = "idle" => go[g].todo = {} /\ Kind(g) = "none"

Owned ==
  /\ \A n \in Runs : proc[n].os = "unborn" => proc[n].owner = NoCall
  /\ \A n \in Runs : proc[n].os # "unborn" => proc[n].owner \in Calls
  /\ \A g \in Goroutines : Launching(g) => proc[go[g].run].owner = go[g].rec

\* Nobody knows of a record that does not exist yet.
Unknown ==
  \A c \in Calls :
    Unmade(c) =>
      /\ c \notin registered /\ rec[c].state = "UNSPECIFIED"
      /\ \A g \in Goroutines : go[g].rec = c => g = c
      /\ \A n \in Runs : proc[n].owner # c

KInv == Suited /\ Helping /\ IdleFree /\ Owned /\ Unknown

LEMMA InitKnown == Init => KInv
<1> SUFFICES ASSUME Init PROVE KInv
  OBVIOUS
<1> USE DEF Init
<1>1. Suited
  BY HelperNames DEF Suited, Suits, Launch
<1>2. Helping
  BY HelperNames DEF Helping, Goroutines, Kind, NoOp
<1>3. IdleFree /\ Owned
  BY DEF IdleFree, Owned, Launching, Kind, NoOp
<1>4. Unknown
  BY SupervisorAssumption, HelperNames DEF Unknown
<1> QED
  BY <1>1, <1>2, <1>3, <1>4 DEF KInv

-----------------------------------------------------------------------------
(* Two sorts of step.  Most only move a goroutine; a transition also writes the *)
(* state of its record.                                                         *)

\* g alone moves, on behalf of the record it had.
Moves(g) ==
  /\ go[g].pc \notin {"idle", "done"} /\ go[g].todo = {}
  /\ go'[g].pc # "idle"
  /\ go'[g].rec = go[g].rec /\ go'[g].run = go[g].run /\ go'[g].op = go[g].op
  /\ \A h \in Goroutines : h # g => go'[h] = go[h]

\* Nothing is forked.
SameRuns ==
  \A n \in Runs :
    /\ proc'[n].owner = proc[n].owner
    /\ proc'[n].os = "unborn" <=> proc[n].os = "unborn"
    /\ proc'[n].os = "alive" => proc[n].os = "alive"

\* No record changes its state, its run or its budget.
SameRecords ==
  \A r \in Calls :
    /\ rec'[r].state = rec[r].state /\ rec'[r].cur = rec[r].cur
    /\ rec'[r].restarts = rec[r].restarts /\ rec'[r].probe = rec[r].probe
    /\ rec[r].removed => rec'[r].removed

\* The move neither forks nor watches a run, and does not take anybody's turn.
Hops(g) ==
  /\ go[g].pc \notin {"record", "watch"}
  /\ go'[g].pc \notin {"record", "watch", "wait", "running"}
  /\ g \in Calls => Suits(g)'
  /\ g \in Calls => (Unmade(g)' => Unmade(g))
  /\ g \in Calls => (go'[g].pc \in Launch => go[g].pc \in Launch \/ Kind(g) = "restart")
  /\ g \notin Calls => (go'[g].pc \in Turn => go[g].pc \in Turn)
  /\ g \notin Calls => (go'[g].pc \in Charged => go[g].pc \in Charged)
  /\ go[g].pc = "wait" => \E n \in Runs : g = Mon(n) /\ go'[g].pc \in {"exit", "done"}

\* From where to where a worker passes.
Routes == {<<"release", "spawn">>, <<"wait", "exit">>, <<"backoff", "cancel">>,
           <<"exit", "policy">>, <<"acquire", "hold">>, <<"hold", "restarting">>}

\* Why a goroutine may pass, and what follows.
Reasons(g) ==
  /\ go'[g].pc \in (IF g \in Calls THEN Launch ELSE Turn)
       => <<go[g].pc, go'[g].pc>> \in Routes
  /\ go'[g].pc = "restarting" => Target(g) \in recSlot'
  /\ go'[g].pc \in {"probing", "passed"} => go[g].pc = "probing"
  /\ go'[g].pc = "failed" =>
       \/ go[g].pc = "spawn"
       \/ go[g].pc = "running" /\ ~Accepts(Target(g), "RUNNING")
  /\ go[g].pc = "exit" => ~Accepts(Target(g), "EXITED") \/ ~Accepts(Target(g), "CRASHED")
  /\ go[g].pc = "starting" => ~Accepts(Target(g), "STARTING")
  /\ go[g].pc \in {"failed", "cancel"} => ~Accepts(Target(g), "CRASHED")
  /\ go[g].pc = "wait" /\ phase = "open" => go'[g].pc = "exit"
  /\ go[g].pc = "backoff" /\ phase = "open" => go'[g].pc = "cancel"
  /\ go[g].pc \in {"release", "spawn"} => go'[g].pc \in {"spawn", "failed"}
  /\ go[g].pc # "schedule"
  /\ "drop" \in go'[g].todo =>
       \/ go[g].pc = "restarting" /\ ~Accepts(Target(g), "RESTARTING")
       \/ go[g].pc = "starting" /\ Kind(g) = "start"

Passes(g) ==
  /\ Moves(g) /\ Hops(g) /\ Reasons(g) /\ SameRuns /\ SameRecords
  /\ go'[g].todo \subseteq {"drop", "refresh"}
  /\ recSlot \subseteq recSlot'
  /\ UNCHANGED <<registered, live, disk, phase>>

\* Who asks for a transition, and where it goes from there.
Paths ==
  {<<"restarting", "starting", "RESTARTING">>, <<"restarting", "schedule", "RESTARTING">>,
   <<"starting", "release", "STARTING">>, <<"starting", "spawn", "STARTING">>,
   <<"running", "done", "RUNNING">>, <<"passed", "done", "READY">>,
   <<"failed", "done", "CRASHED">>, <<"giveup", "done", "CRASHED">>,
   <<"cancel", "done", "CRASHED">>, <<"exit", "policy", "EXITED">>,
   <<"exit", "policy", "CRASHED">>}

\* An accepted transition of g's record.
Transits(g, to) ==
  /\ <<go[g].pc, go'[g].pc, to>> \in Paths
  /\ Moves(g) /\ Hops(g) /\ (g \in Calls => ~Unmade(g))
  /\ g \in Calls => go[g].pc \in {"restarting", "starting", "running", "failed"}
  /\ Accepts(Target(g), to)
  /\ go'[g].todo = Aftermath(Target(g), to)
  /\ rec'[Target(g)].state = to
  /\ \A r \in Calls :
       /\ r # Target(g) => rec'[r].state = rec[r].state
       /\ rec'[r].cur = rec[r].cur /\ rec'[r].restarts = rec[r].restarts
       /\ rec'[r].probe = rec[r].probe /\ rec'[r].removed = rec[r].removed
  /\ UNCHANGED <<registered, recSlot, live, disk, proc, phase>>

LEMMA GotoMoves ==
  ASSUME IInv, NEW g \in Goroutines, go[g].pc \notin {"idle", "done"}, go[g].todo = {},
         NEW label, label # "idle", NEW todo, Goto(g, label, todo)
  PROVE  Moves(g) /\ go'[g].pc = label /\ go'[g].todo = todo
BY DEF Goto, Moves, IInv, TypeOK, Goroutine

LEMMA KnownPass ==
  ASSUME IInv, KInv, NEW g \in Goroutines, Moves(g), SameRuns,
         go[g].pc \notin {"record", "watch"}, go'[g].pc \notin {"record", "watch"},
         g \in Calls => Suits(g)' /\ (Unmade(g)' => Unmade(g)),
         \A r \in Calls : rec[r].removed => rec'[r].removed,
         \A r \in Calls : Unmade(r) => rec'[r].state = rec[r].state,
         registered' \subseteq registered
  PROVE  KInv'
<1>1. Suited'
  <2> SUFFICES ASSUME NEW c \in Calls PROVE Suits(c)'
    BY DEF Suited
  <2>1. CASE c = g
    BY <2>1
  <2>2. CASE c # g
    <3>1. go'[c] = go[c] /\ Suits(c) /\ c \in Goroutines
      BY <2>2, HelperNames DEF Moves, KInv, Suited
    <3>2. go[c].pc \in {"forget", "unlink"} => go[c].rec \in Calls
      BY <3>1 DEF IInv, Targets
    <3> QED
      BY <3>1, <3>2 DEF Suits, Kind
  <2> QED
    BY <2>1, <2>2
<1>2. Helping'
  <2>1. \A h \in Goroutines : Kind(h)' = Kind(h)
    BY DEF Moves, Kind
  <2>2. \A h \in Goroutines : go'[h].pc = "idle" <=> go[h].pc = "idle"
    BY DEF Moves
  <2>3. \A h \in Goroutines : /\ go'[h].rec = go[h].rec /\ go'[h].run = go[h].run
                              /\ go[h].pc = "done" => go'[h].pc = "done"
    BY DEF Moves
  <2> QED
    BY <2>1, <2>2, <2>3, HelperNames DEF KInv, Helping, SameRuns, Goroutines
<1>3. IdleFree'
  BY DEF KInv, IdleFree, Moves, Kind
<1>4. Owned'
  <2>1. \A h \in Goroutines : Launching(h)' => Launching(h) /\ go'[h] = go[h]
    BY DEF Moves, Launching
  <2> QED
    BY <2>1 DEF KInv, Owned, SameRuns, IInv, Forked, LaunchingIdle
<1>5. Unknown'
  <2>1. \A c \in Calls : Unmade(c)' => Unmade(c)
    BY HelperNames DEF Moves, Unmade, Kind
  <2>2. \A h \in Goroutines : go'[h].rec = go[h].rec
    BY DEF Moves
  <2> QED
    BY <2>1, <2>2 DEF KInv, Unknown, SameRuns
<1> QED
  BY <1>1, <1>2, <1>3, <1>4, <1>5 DEF KInv

\* A signal ends the run of a record at most.
LEMMA KillSame ==
  ASSUME IInv, NEW r \in Calls, KillRun(r) PROVE SameRuns
<1> DEFINE n == rec[r].cur
           x == [proc[n] EXCEPT !.os = IF @ = "alive" THEN "fail" ELSE @]
<1>1. proc \in [Runs -> Process] /\ proc' = [proc EXCEPT ![n] = x]
  BY DEF IInv, TypeOK, KillRun
<1>2. n \in Runs => /\ x.owner = proc[n].owner /\ x.os # "alive"
                    /\ x.os = "unborn" <=> proc[n].os = "unborn"
  BY <1>1 DEF Process
<1> HIDE DEF n, x
<1> QED
  BY <1>1, <1>2 DEF SameRuns

LEMMA CallPasses ==
  ASSUME IInv, KInv, NEW c \in Calls,
         \/ ReleaseName(c) \/ Disable(c) \/ Terminate(c) \/ AwaitGrace(c) \/ Kill(c)
         \/ AwaitKill(c) \/ SignalOnce(c) \/ Suppress(c) \/ CheckLive(c)
         \/ AwaitTerminal(c) \/ Enable(c) \/ Inspect(c) \/ MarkRemoved(c)
  PROVE  Passes(c)
<1>1. c \in Goroutines /\ go[c].todo = {} /\ Target(c) \in Calls
      /\ go[c].pc \notin {"idle", "done"}
  BY HelperNames DEF ReleaseName, Disable, Terminate, AwaitGrace, Kill, AwaitKill,
     SignalOnce, Suppress, CheckLive, AwaitTerminal, Enable, Inspect, MarkRemoved, At,
     IInv, Targets, Target
<1>2. PICK label \in {"spawn", "term", "grace", "acquire", "done", "await", "kill",
                      "killed", "check", "disable", "enable", "mark", "forget"} :
        Goto(c, label, {})
  BY DEF ReleaseName, Disable, Terminate, AwaitGrace, Kill, AwaitKill, AfterStop, Abort,
     SignalOnce, Suppress, CheckLive, AwaitTerminal, Enable, Inspect, MarkRemoved
<1>3. Moves(c) /\ go'[c].pc = label /\ go'[c].todo = {}
  BY <1>1, <1>2, GotoMoves
<1>4. SameRuns
  BY <1>1, KillSame DEF ReleaseName, Disable, Terminate, AwaitGrace, Kill, AwaitKill,
     SignalOnce, Suppress, CheckLive, AwaitTerminal, Enable, Inspect, MarkRemoved, SameRuns
<1>5. SameRecords
  <2>0. rec \in [Calls -> Record]
    BY DEF IInv, TypeOK
  <2>1. CASE UNCHANGED rec
    BY <2>1 DEF SameRecords
  <2>2. CASE Disable(c) \/ Suppress(c) \/ Enable(c) \/ MarkRemoved(c)
    BY <2>0, <2>2 DEF Disable, Suppress, Enable, MarkRemoved, SameRecords, Record
  <2> QED
    BY <2>1, <2>2 DEF ReleaseName, Terminate, AwaitGrace, Kill, AwaitKill, SignalOnce,
       CheckLive, AwaitTerminal, Inspect
<1>6. Suits(c) /\ Kind(c)' = Kind(c)
  BY <1>3 DEF KInv, Suited, Moves, Kind
<1>7. Hops(c)
  <2>0. \A l, t : Goto(c, l, t) => go'[c].pc = l
    BY <1>1, HelperNames DEF Goto, IInv, TypeOK, Goroutine
  <2>1. go'[c].rec = go[c].rec
    BY <1>3 DEF Moves
  <2>2. CASE ReleaseName(c) \/ Disable(c) \/ SignalOnce(c) \/ Suppress(c)
    BY <1>1, <1>6, <2>0, <2>1, <2>2
    DEF Hops, Suits, Unmade, Launch, ReleaseName, Disable, SignalOnce, Suppress, At
  <2>3. CASE Enable(c) \/ MarkRemoved(c)
    <3>1. MarkRemoved(c) => rec'[go[c].rec].removed
      BY <1>1 DEF MarkRemoved, IInv, TypeOK, Target, Record
    <3> QED
      BY <1>1, <1>6, <2>0, <2>1, <2>3, <3>1
      DEF Hops, Suits, Unmade, Launch, Enable, MarkRemoved, At
  <2>4. CASE Terminate(c) \/ AwaitGrace(c)
    BY <1>1, <1>6, <2>0, <2>1, <2>4
    DEF Hops, Suits, Unmade, Launch, Terminate, AwaitGrace, AfterStop, At
  <2>5. CASE Kill(c) \/ AwaitKill(c)
    BY <1>1, <1>6, <2>0, <2>1, <2>5
    DEF Hops, Suits, Unmade, Launch, Kill, AwaitKill, Abort, AfterStop, At
  <2>6. CASE CheckLive(c) \/ AwaitTerminal(c) \/ Inspect(c)
    BY <1>1, <1>6, <2>0, <2>1, <2>6
    DEF Hops, Suits, Unmade, Launch, CheckLive, AwaitTerminal, Inspect, At
  <2> QED
    BY <2>2, <2>3, <2>4, <2>5, <2>6
<1>9. Reasons(c)
  <2>1. \A l, t : Goto(c, l, t) => go'[c].pc = l
    BY <1>1, HelperNames DEF Goto, IInv, TypeOK, Goroutine
  <2>2. go[c].pc \in {"release", "disable", "term", "grace", "kill", "killed", "signal",
                     "suppress", "check", "await", "enable", "inspect", "mark"}
    BY DEF ReleaseName, Disable, Terminate, AwaitGrace, Kill, AwaitKill, SignalOnce,
       Suppress, CheckLive, AwaitTerminal, Enable, Inspect, MarkRemoved, At
  <2>3. go[c].pc = "release" <=> ReleaseName(c)
    BY DEF ReleaseName, Disable, Terminate, AwaitGrace, Kill, AwaitKill, SignalOnce,
       Suppress, CheckLive, AwaitTerminal, Enable, Inspect, MarkRemoved, At
  <2>4. ReleaseName(c) <=> label = "spawn"
    <3>1. ReleaseName(c) => label = "spawn"
      BY <1>3, <2>1 DEF ReleaseName
    <3>2. ~ReleaseName(c) => label # "spawn"
      BY <1>3, <2>1 DEF Disable, Terminate, AwaitGrace, Kill, AwaitKill, AfterStop, Abort,
         SignalOnce, Suppress, CheckLive, AwaitTerminal, Enable, Inspect, MarkRemoved
    <3> QED
      BY <3>1, <3>2
  <2> QED
    BY <1>1, <1>3, <2>2, <2>3, <2>4 DEF Reasons, Routes, Launch
<1>8. UNCHANGED <<registered, recSlot, live, disk, phase>>
  BY DEF ReleaseName, Disable, Terminate, AwaitGrace, Kill, AwaitKill,
     SignalOnce, Suppress, CheckLive, AwaitTerminal, Enable, Inspect, MarkRemoved
<1> QED
  BY <1>3, <1>4, <1>5, <1>7, <1>8, <1>9 DEF Passes

\* What a goroutine at a label can rely on.
LEMMA Standing ==
  ASSUME IInv, KInv, NEW g \in Goroutines, NEW label \in Labels \ {"idle", "done"},
         At(g, label)
  PROVE  /\ go[g].pc = label /\ go[g].todo = {} /\ Target(g) \in Calls
         /\ g \in Calls => Suits(g)
         /\ g \notin Calls => Kind(g) = "none"
         /\ \A l, t : Goto(g, l, t) => go'[g].pc = l /\ go'[g].todo = t
         /\ \A l, t : Goto(g, l, t) /\ l # "idle" => Moves(g) /\ Kind(g)' = Kind(g)
<1>1. go[g].pc = label /\ go[g].todo = {} /\ Target(g) \in Calls
  BY Ready DEF At
<1>2. g \in Calls => Suits(g)
  BY DEF KInv, Suited
<1>3. g \notin Calls => Kind(g) = "none"
  BY DEF KInv, Helping, Goroutines
<1>4. \A l, t : Goto(g, l, t) => go'[g].pc = l /\ go'[g].todo = t
  BY DEF Goto, IInv, TypeOK, Goroutine
<1>5. \A l, t : Goto(g, l, t) /\ l # "idle" => Moves(g)
  BY <1>1, GotoMoves
<1>6. Moves(g) => Kind(g)' = Kind(g)
  BY DEF Moves, Kind
<1> QED
  BY <1>1, <1>2, <1>3, <1>4, <1>5, <1>6

LEMMA NothingWritten == UNCHANGED <<rec, proc>> => SameRuns /\ SameRecords
BY DEF SameRuns, SameRecords

LEMMA SlotPasses ==
  ASSUME IInv, KInv, NEW g \in Calls \cup {Mon(n) : n \in Runs},
         AcquireSlot(g) \/ HoldSlot(g)
  PROVE  Passes(g)
<1>1. g \in Goroutines
  BY HelperNames
<1>2. CASE AcquireSlot(g)
  <2>1. At(g, "acquire") /\ "acquire" \in Labels \ {"idle", "done"}
    BY <1>2 DEF AcquireSlot, Labels
  <2>2. PICK label \in {IF Kind(g) = "start" THEN "create" ELSE "hold", "done"} :
          Goto(g, label, {})
    BY <1>2 DEF AcquireSlot, Abort
  <2>3. /\ Moves(g) /\ Kind(g)' = Kind(g) /\ go'[g].pc = label /\ go'[g].todo = {}
        /\ go[g].pc = "acquire"
        /\ g \in Calls => Suits(g)
        /\ g \notin Calls => Kind(g) = "none"
    BY <1>1, <2>1, <2>2, Standing
  <2>4. Hops(g)
    BY <2>2, <2>3 DEF Hops, Suits, Unmade, Launch, Turn, Charged
  <2>5. Reasons(g)
    BY <2>2, <2>3 DEF Reasons, Routes, Launch, Turn
  <2> QED
    BY <1>2, <2>3, <2>4, <2>5, NothingWritten DEF AcquireSlot, Passes
<1>3. CASE HoldSlot(g)
  <2>1. At(g, "hold") /\ "hold" \in Labels \ {"idle", "done"} /\ Goto(g, "restarting", {})
    BY <1>3 DEF HoldSlot, Labels
  <2>2. /\ Moves(g) /\ Kind(g)' = Kind(g) /\ go'[g].pc = "restarting" /\ go'[g].todo = {}
        /\ go[g].pc = "hold"
        /\ g \in Calls => Suits(g)
        /\ g \notin Calls => Kind(g) = "none"
    BY <1>1, <2>1, Standing
  <2>3. Hops(g)
    BY <2>2 DEF Hops, Suits, Unmade, Launch, Turn, Charged
  <2>4. Target(g) \in recSlot'
    BY <1>3 DEF HoldSlot, Attach
  <2>5. Reasons(g)
    BY <2>2, <2>4 DEF Reasons, Routes, Launch, Turn
  <2> QED
    BY <1>3, <2>2, <2>3, <2>5, NothingWritten DEF HoldSlot, Attach, Passes
<1> QED
  BY <1>2, <1>3

\* A start that fails before it has a record.
LEMMA CreatePasses ==
  ASSUME IInv, KInv, NEW c \in Calls, CreateRecord(c), Abort(c), UNCHANGED registered
  PROVE  Passes(c)
<1>1. c \in Goroutines /\ At(c, "create") /\ "create" \in Labels \ {"idle", "done"}
      /\ Goto(c, "done", {})
  BY HelperNames DEF CreateRecord, Abort, Labels
<1>2. /\ Moves(c) /\ Kind(c)' = Kind(c) /\ go'[c].pc = "done" /\ go'[c].todo = {}
      /\ go[c].pc = "create"
  BY <1>1, Standing
<1>3. Hops(c)
  BY <1>2 DEF Hops, Suits, Unmade, Launch
<1> QED
  BY <1>2, <1>3, NothingWritten DEF CreateRecord, Attach, Passes, Reasons, Launch

\* The fork fails.
LEMMA ForkPasses ==
  ASSUME IInv, KInv, NEW g \in Goroutines, Fork(g), Goto(g, "failed", {}), UNCHANGED proc
  PROVE  Passes(g)
<1>1. At(g, "spawn") /\ "spawn" \in Labels \ {"idle", "done"}
  BY DEF Fork, Labels
<1>2. /\ Moves(g) /\ Kind(g)' = Kind(g) /\ go'[g].pc = "failed" /\ go'[g].todo = {}
      /\ go[g].pc = "spawn"
  BY <1>1, Standing
<1>3. Hops(g)
  BY <1>2 DEF Hops, Suits, Unmade, Launch, Turn, Charged
<1>4. Reasons(g)
  BY <1>2 DEF Reasons, Launch, Turn
<1> QED
  BY <1>2, <1>3, <1>4, NothingWritten DEF Fork, Passes

\* The moves of a run's helpers that decide nothing.
LEMMA HelperPasses ==
  ASSUME IInv, KInv, NEW n \in Runs,
         Reap(n) \/ ProbeRun(n) \/ (Backoff(n) /\ UNCHANGED rec)
  PROVE  \E g \in {Mon(n), Probe(n), Timer(n)} : Passes(g)
<1>1. /\ Mon(n) \in Goroutines \ Calls /\ Probe(n) \in Goroutines \ Calls
      /\ Timer(n) \in Goroutines \ Calls
  BY HelperNames
<1>2. PICK g \in {Mon(n), Probe(n), Timer(n)}, from \in {"wait", "probing", "backoff"},
           to \in {"exit", "done", "passed", "cancel"} :
        /\ At(g, from) /\ Goto(g, to, {})
        /\ <<from, to>> \in {<<"wait", "exit">>, <<"wait", "done">>, <<"probing", "passed">>,
                             <<"probing", "done">>, <<"backoff", "done">>,
                             <<"backoff", "cancel">>}
        /\ from = "wait" => g = Mon(n)
        /\ phase = "open" /\ from = "wait" => to = "exit"
        /\ phase = "open" /\ from = "backoff" => to = "cancel"
  <2>1. CASE Reap(n)
    BY <2>1 DEF Reap
  <2>2. CASE ProbeRun(n)
    BY <2>2 DEF ProbeRun
  <2>3. CASE Backoff(n) /\ UNCHANGED rec
    <3>1. ~(rec' = [rec EXCEPT ![Target(Timer(n))].restarts = @ + 1])
      <4>1. Target(Timer(n)) \in Calls
        BY <1>1, <2>3, Ready DEF Backoff, Labels
      <4>2. rec[Target(Timer(n))].restarts \in Nat
        BY <4>1 DEF IInv, TypeOK, Record
      <4> QED
        BY <2>3, <4>1, <4>2 DEF IInv, TypeOK, Record
    <3> QED
      BY <2>3, <3>1 DEF Backoff
  <2> QED
    BY <2>1, <2>2, <2>3
<1>3. from \in Labels \ {"idle", "done"} /\ g \in Goroutines \ Calls
  BY <1>1 DEF Labels
<1>4. Moves(g) /\ go'[g].pc = to /\ go'[g].todo = {} /\ go[g].pc = from
  BY <1>2, <1>3, Standing
<1>5. Hops(g)
  BY <1>2, <1>3, <1>4 DEF Hops, Turn, Charged
<1>6. Reasons(g)
  BY <1>2, <1>3, <1>4 DEF Reasons, Routes, Turn
<1> QED
  BY <1>4, <1>5, <1>6, NothingWritten DEF Reap, ProbeRun, Backoff, Passes

\* setState is called, and the table accepts the move or does not.
LEMMA SetStateTransits ==
  ASSUME IInv, KInv, NEW g \in Goroutines, NEW from \in Labels \ {"idle", "done"},
         At(g, from), NEW to \in States, NEW label \in Labels \ {"idle"},
         Accepts(Target(g), to), SetState(g, to, label),
         g \in Calls => ~Unmade(g), Hops(g), <<from, label, to>> \in Paths,
         g \in Calls => from \in {"restarting", "starting", "running"},
         UNCHANGED <<registered, recSlot, live, disk, proc, phase>>
  PROVE  Transits(g, to)
<1>1. Target(g) \in Calls /\ Moves(g) /\ go'[g].todo = Aftermath(Target(g), to)
      /\ go[g].pc = from /\ go'[g].pc = label
  BY Standing DEF SetState
<1>2. /\ rec'[Target(g)].state = to
      /\ \A r \in Calls :
           /\ r # Target(g) => rec'[r].state = rec[r].state
           /\ rec'[r].cur = rec[r].cur /\ rec'[r].restarts = rec[r].restarts
           /\ rec'[r].probe = rec[r].probe /\ rec'[r].removed = rec[r].removed
  BY <1>1 DEF SetState, IInv, TypeOK, Record
<1> QED
  BY <1>1, <1>2 DEF Transits

\* The eight callers of setState: the table accepts the move, or it does not and
\* the goroutine goes its way.
LEMMA SpawnerTransits ==
  ASSUME IInv, KInv, NEW g \in Goroutines,
         MarkRestarting(g) \/ MarkStarting(g) \/ MarkRunning(g) \/ SpawnFailed(g)
  PROVE  Passes(g) \/ \E to \in States : Transits(g, to)
<1>0. /\ {"RESTARTING", "STARTING", "RUNNING", "CRASHED"} \subseteq States
      /\ {"restarting", "starting", "running", "failed"} \subseteq Labels \ {"idle", "done"}
      /\ {"starting", "schedule", "done", "release", "spawn", "failed"}
            \subseteq Labels \ {"idle"}
  BY DEF States, Labels
<1> DEFINE r == Target(g)
<1>1. CASE MarkRestarting(g)
  <2>1. At(g, "restarting")
    BY <1>1 DEF MarkRestarting
  <2>2. CASE Accepts(r, "RESTARTING")
    <3> DEFINE label == IF g \in Calls THEN "starting" ELSE "schedule"
    <3>1. SetState(g, "RESTARTING", label) /\ label \in Labels \ {"idle"}
      BY <1>0, <1>1, <2>2 DEF MarkRestarting
    <3>2. Hops(g) /\ (g \in Calls => ~Unmade(g))
      BY <1>0, <2>1, <3>1, Standing
      DEF SetState, Hops, Suits, Unmade, Launch, Turn, Charged, Moves
    <3>3. <<"restarting", label, "RESTARTING">> \in Paths
      BY DEF Paths
    <3> QED
      BY <1>0, <1>1, <2>1, <2>2, <3>1, <3>2, <3>3, SetStateTransits DEF MarkRestarting
  <2>3. CASE ~Accepts(r, "RESTARTING")
    <3>1. Goto(g, "done", {"drop"})
      BY <1>1, <2>3 DEF MarkRestarting
    <3>2. Hops(g) /\ Moves(g) /\ go'[g].todo = {"drop"}
      BY <1>0, <2>1, <3>1, Standing DEF Hops, Suits, Unmade, Launch, Turn, Charged
    <3>3. Reasons(g)
      BY <1>0, <2>1, <2>3, <3>1, Standing DEF Reasons, Launch, Turn
    <3> QED
      BY <1>1, <2>3, <3>2, <3>3, NothingWritten DEF MarkRestarting, Passes
  <2> QED
    BY <2>2, <2>3
<1>2. CASE MarkStarting(g)
  <2>1. At(g, "starting")
    BY <1>2 DEF MarkStarting
  <2>2. CASE Accepts(r, "STARTING")
    <3> DEFINE label == IF Kind(g) = "start" THEN "release" ELSE "spawn"
    <3>1. SetState(g, "STARTING", label) /\ label \in Labels \ {"idle"}
      BY <1>0, <1>2, <2>2 DEF MarkStarting
    <3>2. Hops(g) /\ (g \in Calls => ~Unmade(g))
      BY <1>0, <2>1, <3>1, Standing
      DEF SetState, Hops, Suits, Unmade, Launch, Turn, Charged, Moves
    <3>3. <<"starting", label, "STARTING">> \in Paths
      BY DEF Paths
    <3> QED
      BY <1>0, <1>2, <2>1, <2>2, <3>1, <3>2, <3>3, SetStateTransits DEF MarkStarting
  <2>3. CASE ~Accepts(r, "STARTING")
    <3>1. PICK todo \in {{"drop"}, {}} :
            Goto(g, "done", todo) /\ ("drop" \in todo => Kind(g) = "start")
      BY <1>2, <2>3 DEF MarkStarting
    <3>2. Hops(g) /\ Moves(g) /\ go'[g].todo = todo
      BY <1>0, <2>1, <3>1, Standing DEF Hops, Suits, Unmade, Launch, Turn, Charged
    <3>3. Reasons(g)
      BY <1>0, <2>1, <2>3, <3>1, Standing DEF Reasons, Launch, Turn
    <3> QED
      BY <1>2, <2>3, <3>2, <3>3, NothingWritten DEF MarkStarting, Passes
  <2> QED
    BY <2>2, <2>3
<1>3. CASE MarkRunning(g)
  <2>1. At(g, "running")
    BY <1>3 DEF MarkRunning
  <2>2. CASE Accepts(r, "RUNNING")
    <3>1. SetState(g, "RUNNING", "done")
      BY <1>3, <2>2 DEF MarkRunning
    <3>2. Hops(g) /\ (g \in Calls => ~Unmade(g))
      BY <1>0, <2>1, <3>1, Standing
      DEF SetState, Hops, Suits, Unmade, Launch, Turn, Charged
    <3>3. <<"running", "done", "RUNNING">> \in Paths
      BY DEF Paths
    <3> QED
      BY <1>0, <1>3, <2>1, <2>2, <3>1, <3>2, <3>3, SetStateTransits DEF MarkRunning
  <2>3. CASE ~Accepts(r, "RUNNING")
    <3>1. Goto(g, "failed", {})
      BY <1>3, <2>3 DEF MarkRunning
    <3>2. Hops(g) /\ Moves(g) /\ go'[g].todo = {}
      BY <1>0, <2>1, <3>1, Standing DEF Hops, Suits, Unmade, Launch, Turn, Charged
    <3>3. Reasons(g)
      BY <1>0, <2>1, <2>3, <3>1, Standing DEF Reasons, Launch, Turn
    <3> QED
      BY <1>3, <2>3, <3>2, <3>3, NothingWritten DEF MarkRunning, Passes
  <2> QED
    BY <2>2, <2>3
<1>4. CASE SpawnFailed(g)
  <2>1. At(g, "failed")
    BY <1>4 DEF SpawnFailed
  <2>2. CASE Accepts(r, "CRASHED")
    <3>1. /\ rec' = [rec EXCEPT ![r].state = "CRASHED", ![r].exit = "lost"]
          /\ Goto(g, "done", Aftermath(r, "CRASHED"))
      BY <1>4, <2>2 DEF SpawnFailed
    <3>2. Hops(g) /\ (g \in Calls => ~Unmade(g)) /\ Moves(g) /\ r \in Calls
          /\ go'[g].todo = Aftermath(r, "CRASHED") /\ go[g].pc = "failed"
          /\ go'[g].pc = "done"
      BY <1>0, <2>1, <3>1, Standing DEF Hops, Suits, Unmade, Launch, Turn, Charged
    <3>3. /\ rec'[r].state = "CRASHED"
          /\ \A q \in Calls :
               /\ q # r => rec'[q].state = rec[q].state
               /\ rec'[q].cur = rec[q].cur /\ rec'[q].restarts = rec[q].restarts
               /\ rec'[q].probe = rec[q].probe /\ rec'[q].removed = rec[q].removed
      BY <3>1, <3>2 DEF IInv, TypeOK, Record
    <3> QED
      BY <1>0, <1>4, <2>2, <3>2, <3>3 DEF SpawnFailed, Transits, Paths
  <2>3. CASE ~Accepts(r, "CRASHED")
    <3>1. Goto(g, "done", AfterSpawn(g))
      BY <1>4, <2>3 DEF SpawnFailed
    <3>2. Hops(g) /\ Moves(g) /\ go'[g].todo \subseteq {"refresh"}
      BY <1>0, <2>1, <3>1, Standing
      DEF Hops, Suits, Unmade, Launch, Turn, Charged, AfterSpawn
    <3>3. Reasons(g)
      BY <1>0, <2>1, <2>3, <3>1, Standing DEF Reasons, Launch, Turn, AfterSpawn
    <3> QED
      BY <1>4, <2>3, <3>2, <3>3, NothingWritten DEF SpawnFailed, Passes
  <2> QED
    BY <2>2, <2>3
<1> QED
  BY <1>1, <1>2, <1>3, <1>4

LEMMA HelperTransits ==
  ASSUME IInv, KInv, NEW n \in Runs,
         RecordExit(n) \/ GiveUp(n) \/ Cancel(n) \/ MarkReady(n)
  PROVE  \E g \in {Mon(n), Timer(n), Probe(n)} :
           Passes(g) \/ \E to \in States : Transits(g, to)
<1>0. /\ {"EXITED", "CRASHED", "READY"} \subseteq States
      /\ {"exit", "giveup", "cancel", "passed"} \subseteq Labels \ {"idle", "done"}
      /\ {"policy", "done"} \subseteq Labels \ {"idle"}
  BY DEF States, Labels
<1>1. /\ Mon(n) \in Goroutines \ Calls /\ Probe(n) \in Goroutines \ Calls
      /\ Timer(n) \in Goroutines \ Calls
  BY HelperNames
<1>2. PICK g \in {Mon(n), Timer(n), Probe(n)},
           from \in {"exit", "giveup", "cancel", "passed"}, label \in {"policy", "done"},
           to \in {"EXITED", "CRASHED", "READY"} :
        /\ At(g, from) /\ <<from, label, to>> \in Paths
        /\ \/ /\ Goto(g, label, {}) /\ UNCHANGED rec
              /\ from # "giveup" => ~Accepts(Target(g), to)
           \/ /\ Accepts(Target(g), to)
              /\ Goto(g, label, Aftermath(Target(g), to))
              /\ \/ rec' = [rec EXCEPT ![Target(g)].state = to]
                 \/ \E code : rec' = [rec EXCEPT ![Target(g)].state = to,
                                                 ![Target(g)].exit = code]
  <2>1. CASE RecordExit(n)
    BY <2>1 DEF RecordExit, Paths
  <2>2. CASE GiveUp(n)
    BY <2>2 DEF GiveUp, SetState, Paths
  <2>3. CASE Cancel(n)
    BY <2>3 DEF Cancel, SetState, Paths
  <2>4. CASE MarkReady(n)
    BY <2>4 DEF MarkReady, SetState, Paths
  <2> QED
    BY <2>1, <2>2, <2>3, <2>4
<1>3. g \in Goroutines \ Calls /\ UNCHANGED <<registered, recSlot, live, disk, proc, phase>>
  BY <1>1 DEF RecordExit, GiveUp, Cancel, MarkReady
<1>4. /\ Moves(g) /\ go'[g].pc = label /\ go[g].pc = from /\ Target(g) \in Calls
      /\ \A l, t : Goto(g, l, t) => go'[g].todo = t
  BY <1>0, <1>2, <1>3, Standing
<1>5. Hops(g)
  BY <1>2, <1>3, <1>4 DEF Hops, Turn, Charged, Paths
<1>6. CASE Goto(g, label, {}) /\ UNCHANGED rec /\ (from # "giveup" => ~Accepts(Target(g), to))
  <2>1. Reasons(g)
    BY <1>2, <1>3, <1>4, <1>6 DEF Reasons, Routes, Turn, Paths
  <2> QED
    BY <1>3, <1>4, <1>5, <1>6, <2>1, NothingWritten DEF Passes
<1>7. CASE /\ Accepts(Target(g), to)
           /\ Goto(g, label, Aftermath(Target(g), to))
           /\ \/ rec' = [rec EXCEPT ![Target(g)].state = to]
              \/ \E code : rec' = [rec EXCEPT ![Target(g)].state = to,
                                              ![Target(g)].exit = code]
  <2>1. /\ rec'[Target(g)].state = to
        /\ \A q \in Calls :
             /\ q # Target(g) => rec'[q].state = rec[q].state
             /\ rec'[q].cur = rec[q].cur /\ rec'[q].restarts = rec[q].restarts
             /\ rec'[q].probe = rec[q].probe /\ rec'[q].removed = rec[q].removed
    BY <1>4, <1>7 DEF IInv, TypeOK, Record
  <2>2. Transits(g, to)
    BY <1>2, <1>3, <1>4, <1>5, <1>7, <2>1 DEF Transits
  <2> QED
    BY <1>0, <2>2
<1> QED
  BY <1>2, <1>6, <1>7

(* The other sorts of step, each with what it does to what the invariants below *)
(* speak of.                                                                    *)

\* Nobody but g moves.
Alone(g) == \A h \in Goroutines : h # g => go'[h] = go[h]

\* The goroutines that spawn.
Spawners == Calls \cup {Timer(n) : n \in Runs}

Drops(g) ==
  /\ "drop" \in go[g].todo /\ go'[g].todo = go[g].todo \ {"drop"} /\ Alone(g)
  /\ go'[g].pc = go[g].pc /\ go'[g].rec = go[g].rec /\ go'[g].run = go[g].run
  /\ go'[g].op = go[g].op
  /\ recSlot' = recSlot \ {Target(g)}
  /\ UNCHANGED <<rec, registered, live, disk, proc, phase>>

Settles(g) ==
  /\ go[g].todo # {} /\ "drop" \notin go[g].todo /\ go'[g].todo = {} /\ Alone(g)
  /\ go'[g].pc = go[g].pc /\ go'[g].rec = go[g].rec /\ go'[g].run = go[g].run
  /\ go'[g].op = go[g].op
  /\ live' = IF "refresh" \in go[g].todo THEN Cardinality(LiveRecords) ELSE live
  /\ disk' = IF "persist" \in go[g].todo /\ ~rec[Target(g)].removed
               THEN [disk EXCEPT ![Target(g)] = Snapshot(Target(g))] ELSE disk
  /\ UNCHANGED <<rec, registered, recSlot, proc, phase>>

Forks(g, n) ==
  /\ go[g].pc = "spawn" /\ go[g].todo = {} /\ proc[n].os = "unborn" /\ Alone(g)
  /\ go'[g].pc = "record" /\ go'[g].run = n /\ go'[g].rec = go[g].rec
  /\ go'[g].op = go[g].op /\ go'[g].todo = {}
  /\ proc'[n].os = "alive" /\ proc'[n].owner = Target(g)
  /\ \A m \in Runs : m # n => proc'[m] = proc[m]
  /\ UNCHANGED <<rec, registered, recSlot, live, disk, phase>>

Records(g) ==
  /\ go[g].pc = "record" /\ Moves(g) /\ go'[g].pc = "watch" /\ go'[g].todo = {"persist"}
  /\ rec'[Target(g)].cur = go[g].run
  /\ \A r \in Calls :
       /\ r # Target(g) => rec'[r].cur = rec[r].cur
       /\ rec'[r].state = rec[r].state /\ rec'[r].restarts = rec[r].restarts
       /\ rec'[r].probe = rec[r].probe /\ rec'[r].removed = rec[r].removed
  /\ UNCHANGED <<registered, recSlot, live, disk, proc, phase>>

Watches(g, n) ==
  /\ go[g].pc = "watch" /\ go[g].todo = {} /\ go[g].run = n
  /\ go'[g].pc = IF rec[Target(g)].probe THEN "done" ELSE "running"
  /\ go'[g].rec = go[g].rec /\ go'[g].run = n /\ go'[g].op = go[g].op
  /\ go'[g].todo \subseteq {"refresh"}
  /\ go'[Mon(n)] = Helper(g, "wait")
  /\ go'[Probe(n)] = IF rec[Target(g)].probe THEN Helper(g, "probing") ELSE go[Probe(n)]
  /\ \A h \in Goroutines : h \notin {g, Mon(n), Probe(n)} => go'[h] = go[h]
  /\ UNCHANGED <<rec, registered, recSlot, live, disk, proc, phase>>

Schedules(n) ==
  /\ go[Mon(n)].pc = "schedule" /\ go[Mon(n)].todo = {}
  /\ go'[Mon(n)].pc = "done" /\ go'[Mon(n)].rec = go[Mon(n)].rec
  /\ go'[Mon(n)].run = go[Mon(n)].run /\ go'[Mon(n)].op = go[Mon(n)].op
  /\ go'[Mon(n)].todo = {}
  /\ go'[Timer(n)].pc = "backoff" /\ go'[Timer(n)].rec = go[Mon(n)].rec
  /\ go'[Timer(n)].run = go[Mon(n)].run /\ go'[Timer(n)].op = go[Mon(n)].op
  /\ go'[Timer(n)].todo = {}
  /\ \A h \in Goroutines : h \notin {Mon(n), Timer(n)} => go'[h] = go[h]
  /\ UNCHANGED <<rec, registered, recSlot, live, disk, proc, phase>>

\* The policy's verdict, and the end of the backoff, change the budget.
Counts(g, count) ==
  /\ rec'[Target(g)].restarts = count
  /\ \A r \in Calls :
       /\ r # Target(g) => rec'[r].restarts = rec[r].restarts
       /\ rec'[r].state = rec[r].state /\ rec'[r].cur = rec[r].cur
       /\ rec'[r].probe = rec[r].probe /\ rec'[r].removed = rec[r].removed
  /\ UNCHANGED <<registered, recSlot, live, disk, proc, phase>>

Decides(n) ==
  LET g == Mon(n) IN
    /\ go[g].pc = "policy" /\ Moves(g) /\ go'[g].todo = {}
    /\ go'[g].pc \in {"done", "giveup", "acquire"}
    /\ \E count \in {0, rec[Target(g)].restarts} :
         Counts(g, count) /\ (go'[g].pc = "acquire" => count < MaxRestarts)

Resumes(n) ==
  LET g == Timer(n) IN
    /\ go[g].pc = "backoff" /\ Moves(g) /\ go'[g].pc = "starting" /\ go'[g].todo = {}
    /\ Counts(g, rec[Target(g)].restarts + 1)

Arrives(c) ==
  /\ go[c].pc = "idle" /\ Alone(c) /\ Suits(c)'
  /\ go'[c].pc \in {"done", "acquire", "disable", "term", "signal", "suppress", "inspect"}
  /\ go'[c].rec \in registered \cup {c, go[c].rec}
  /\ go'[c].todo \subseteq {"persist"}
  /\ \A r \in Calls :
       /\ rec'[r].state = rec[r].state /\ rec'[r].cur = rec[r].cur
       /\ rec'[r].restarts = rec[r].restarts /\ rec'[r].removed = rec[r].removed
       /\ r # c => rec'[r].probe = rec[r].probe
  /\ UNCHANGED <<registered, recSlot, live, disk, proc, phase>>

Creates(c) ==
  /\ go[c].pc = "create" /\ go[c].todo = {} /\ Alone(c)
  /\ go'[c].pc = "starting" /\ go'[c].rec = c /\ go'[c].run = go[c].run
  /\ go'[c].op = go[c].op /\ go'[c].todo = {}
  /\ registered' = registered \cup {c} /\ recSlot' = recSlot \cup {c}
  /\ UNCHANGED <<rec, live, disk, proc, phase>>

Forgets(c) ==
  /\ go[c].pc = "forget" /\ Moves(c) /\ go'[c].pc = "unlink"
  /\ go'[c].todo = {"drop", "refresh"}
  /\ registered' = registered \ {Target(c)}
  /\ UNCHANGED <<rec, recSlot, live, disk, proc, phase>>

Unlinks(c) ==
  /\ go[c].pc = "unlink" /\ Moves(c) /\ go'[c].pc = "done" /\ go'[c].todo = {}
  /\ disk' = [disk EXCEPT ![Target(c)] = NoRecord]
  /\ UNCHANGED <<rec, registered, recSlot, live, proc, phase>>

\* Processes go on or end, the shutdown begins, or nothing happens at all.
Rests ==
  /\ SameRuns /\ (phase' = "open" => phase = "open")
  /\ UNCHANGED <<rec, registered, recSlot, live, disk, go>>

StepKind ==
  \/ \E g \in Goroutines : \/ Passes(g) \/ Drops(g) \/ Settles(g)
                           \/ \E to \in States : Transits(g, to)
  \/ \E g \in Spawners : Records(g) \/ \E n \in Runs : Forks(g, n) \/ Watches(g, n)
  \/ \E n \in Runs : Schedules(n) \/ Decides(n) \/ Resumes(n)
  \/ \E c \in Calls : Arrives(c) \/ Creates(c) \/ Forgets(c) \/ Unlinks(c)
  \/ Rests \/ FinishClose

-----------------------------------------------------------------------------
(* Every step is of one of these sorts. *)

LEMMA SpawnerNames ==
  /\ Spawners \subseteq Goroutines
  /\ \A g \in Spawners, n \in Runs : g # Mon(n) /\ g # Probe(n)
  /\ \A n \in Runs : Timer(n) \in Spawners
BY HelperNames DEF Spawners

LEMMA EffectsKind ==
  ASSUME IInv, NEW g \in Goroutines, Effects(g) PROVE Drops(g) \/ Settles(g)
<1>1. go \in [Goroutines -> Goroutine] /\ recSlot \subseteq Calls
  BY DEF IInv, TypeOK
<1>2. CASE DropSlot(g)
  BY <1>1, <1>2 DEF DropSlot, GiveBack, Drops, Alone, Goroutine
<1>3. CASE Settle(g)
  BY <1>1, <1>3 DEF Settle, Persistable, Settles, Alone, Goroutine
<1> QED
  BY <1>2, <1>3 DEF Effects

LEMMA ForkKind ==
  ASSUME IInv, KInv, NEW g \in Spawners, Fork(g)
  PROVE  Passes(g) \/ \E n \in Runs : Forks(g, n)
<1>0. g \in Goroutines /\ At(g, "spawn") /\ go \in [Goroutines -> Goroutine]
      /\ proc \in [Runs -> Process]
  BY SpawnerNames DEF Fork, IInv, TypeOK
<1>1. CASE Goto(g, "failed", {}) /\ UNCHANGED proc
  BY <1>0, <1>1, ForkPasses
<1>2. ASSUME NEW n \in Runs, NextRun(n),
             proc' = [proc EXCEPT ![n] = [os |-> "alive", owner |-> Target(g),
                                          spoke |-> FALSE]],
             go' = [go EXCEPT ![g].pc = "record", ![g].run = n]
      PROVE  Forks(g, n)
  <2>1. /\ go'[g].pc = "record" /\ go'[g].run = n /\ go'[g].rec = go[g].rec
        /\ go'[g].op = go[g].op /\ go'[g].todo = go[g].todo /\ Alone(g)
    BY <1>0, <1>2 DEF Goroutine, Alone
  <2>2. /\ proc'[n].os = "alive" /\ proc'[n].owner = Target(g)
        /\ \A m \in Runs : m # n => proc'[m] = proc[m]
    BY <1>0, <1>2
  <2> QED
    BY <1>0, <1>2, <2>1, <2>2 DEF Fork, NextRun, Forks, At
<1> QED
  BY <1>1, <1>2 DEF Fork

LEMMA RecordRunKind ==
  ASSUME IInv, KInv, NEW g \in Spawners, RecordRun(g) PROVE Records(g)
<1>1. g \in Goroutines /\ At(g, "record") /\ "record" \in Labels \ {"idle", "done"}
      /\ Goto(g, "watch", {"persist"})
  BY SpawnerNames DEF RecordRun, Labels
<1>2. /\ go[g].pc = "record" /\ Moves(g) /\ go'[g].pc = "watch"
      /\ go'[g].todo = {"persist"} /\ Target(g) \in Calls
  BY <1>1, Standing
<1>3. /\ rec'[Target(g)].cur = go[g].run
      /\ \A r \in Calls :
           /\ r # Target(g) => rec'[r].cur = rec[r].cur
           /\ rec'[r].state = rec[r].state /\ rec'[r].restarts = rec[r].restarts
           /\ rec'[r].probe = rec[r].probe /\ rec'[r].removed = rec[r].removed
  BY <1>2 DEF RecordRun, IInv, TypeOK, Record
<1> QED
  BY <1>2, <1>3 DEF RecordRun, Records

LEMMA WatchRunKind ==
  ASSUME IInv, KInv, NEW g \in Spawners, WatchRun(g) PROVE \E n \in Runs : Watches(g, n)
<1> DEFINE n == go[g].run
           mine == Helper(g, "wait")
           its == Helper(g, "probing")
<1>1. g \in Goroutines /\ At(g, "watch") /\ go \in [Goroutines -> Goroutine]
      /\ go[g] \in Goroutine
  BY SpawnerNames DEF WatchRun, IInv, TypeOK
<1>2. n \in Runs
  BY <1>1 DEF IInv, Forked, LaunchingIdle, Launching, At
<1>3. /\ Mon(n) \in Goroutines /\ Probe(n) \in Goroutines /\ Mon(n) # Probe(n)
      /\ g # Mon(n) /\ g # Probe(n)
  BY <1>2, HelperNames, SpawnerNames
<1>4. CASE rec[Target(g)].probe
  <2>1. go' = [go EXCEPT ![Mon(n)] = mine, ![Probe(n)] = its,
                         ![g].pc = "done", ![g].todo = AfterSpawn(g)]
    BY <1>4 DEF WatchRun
  <2> HIDE DEF mine, its, n
  <2>2. /\ go'[g].pc = "done" /\ go'[g].rec = go[g].rec /\ go'[g].run = go[g].run
        /\ go'[g].op = go[g].op /\ go'[g].todo = AfterSpawn(g)
        /\ go'[Mon(n)] = mine /\ go'[Probe(n)] = its
        /\ \A h \in Goroutines : h \notin {g, Mon(n), Probe(n)} => go'[h] = go[h]
    BY <1>1, <1>3, <2>1 DEF Goroutine
  <2> USE DEF mine, its, n
  <2> QED
    BY <1>1, <1>2, <1>4, <2>2 DEF WatchRun, Watches, AfterSpawn, At
<1>5. CASE ~rec[Target(g)].probe
  <2>1. go' = [go EXCEPT ![Mon(n)] = mine, ![g].pc = "running"]
    BY <1>5 DEF WatchRun
  <2> HIDE DEF mine, its, n
  <2>2. /\ go'[g].pc = "running" /\ go'[g].rec = go[g].rec /\ go'[g].run = go[g].run
        /\ go'[g].op = go[g].op /\ go'[g].todo = go[g].todo
        /\ go'[Mon(n)] = mine /\ go'[Probe(n)] = go[Probe(n)]
        /\ \A h \in Goroutines : h \notin {g, Mon(n), Probe(n)} => go'[h] = go[h]
    BY <1>1, <1>3, <2>1 DEF Goroutine
  <2> USE DEF mine, its, n
  <2> QED
    BY <1>1, <1>2, <1>5, <2>2 DEF WatchRun, Watches, At
<1> QED
  BY <1>4, <1>5

LEMMA ScheduleKind == ASSUME IInv, NEW n \in Runs, Schedule(n) PROVE Schedules(n)
<1> DEFINE g == Mon(n)
           t == Timer(n)
           x == [go[g] EXCEPT !.pc = "backoff"]
<1>1. /\ g \in Goroutines /\ t \in Goroutines /\ g # t /\ At(g, "schedule")
      /\ go \in [Goroutines -> Goroutine] /\ go[g] \in Goroutine
  BY HelperNames DEF Schedule, IInv, TypeOK
<1>2. /\ x.pc = "backoff" /\ x.rec = go[g].rec /\ x.run = go[g].run /\ x.op = go[g].op
      /\ x.todo = go[g].todo
  BY <1>1 DEF Goroutine
<1>3. go' = [go EXCEPT ![t] = x, ![g].pc = "done"]
  BY DEF Schedule
<1> HIDE DEF x, g, t
<1>4. /\ go'[t] = x /\ go'[g].pc = "done" /\ go'[g].rec = go[g].rec
      /\ go'[g].run = go[g].run /\ go'[g].op = go[g].op /\ go'[g].todo = go[g].todo
      /\ \A h \in Goroutines : h \notin {g, t} => go'[h] = go[h]
  BY <1>1, <1>3 DEF Goroutine
<1> QED
  BY <1>1, <1>2, <1>4 DEF g, t, Schedule, Schedules, At

LEMMA ApplyPolicyKind ==
  ASSUME IInv, KInv, NEW n \in Runs, ApplyPolicy(n) PROVE Decides(n)
<1> DEFINE g == Mon(n)
           r == Target(g)
<1>1. g \in Goroutines /\ At(g, "policy") /\ "policy" \in Labels \ {"idle", "done"}
  BY HelperNames DEF ApplyPolicy, Labels
<1>2. /\ r \in Calls /\ go[g].pc = "policy"
      /\ \A l, t : Goto(g, l, t) => go'[g].pc = l /\ go'[g].todo = t
      /\ \A l, t : Goto(g, l, t) /\ l # "idle" => Moves(g)
  BY <1>1, Standing
<1>3. rec[r].restarts \in Nat /\ rec \in [Calls -> Record]
  BY <1>2 DEF IInv, TypeOK, Record
<1>4. PICK count \in {0, rec[r].restarts}, label \in {"done", "giveup", "acquire"} :
        /\ rec' = [rec EXCEPT ![r].restarts = count] /\ Goto(g, label, {})
        /\ label = "acquire" => ~Spent(count)
  BY DEF ApplyPolicy
<1>5. count \in Nat /\ (label = "acquire" => count < MaxRestarts)
  BY <1>3, <1>4, SupervisorAssumption DEF Spent
<1>6. Moves(g) /\ go'[g].pc = label /\ go'[g].todo = {}
  BY <1>2, <1>4
<1>7. Counts(g, count)
  BY <1>2, <1>3, <1>4 DEF Counts, Record, ApplyPolicy
<1> QED
  BY <1>2, <1>4, <1>5, <1>6, <1>7 DEF Decides

LEMMA BackoffKind ==
  ASSUME IInv, KInv, NEW n \in Runs, Backoff(n)
  PROVE  Resumes(n) \/ \E g \in Goroutines : Passes(g)
<1> DEFINE g == Timer(n)
           r == Target(g)
<1>1. g \in Goroutines /\ At(g, "backoff") /\ "backoff" \in Labels \ {"idle", "done"}
  BY HelperNames DEF Backoff, Labels
<1>2. /\ r \in Calls /\ go[g].pc = "backoff"
      /\ \A l, t : Goto(g, l, t) => go'[g].pc = l /\ go'[g].todo = t
      /\ \A l, t : Goto(g, l, t) /\ l # "idle" => Moves(g)
  BY <1>1, Standing
<1>3. CASE UNCHANGED rec
  BY <1>3, HelperPasses, HelperNames
<1>4. CASE rec' # rec
  <2>1. /\ rec' = [rec EXCEPT ![r].restarts = rec[r].restarts + 1]
        /\ Goto(g, "starting", {})
    BY <1>4 DEF Backoff
  <2>2. Counts(g, rec[r].restarts + 1)
    BY <1>2, <2>1 DEF Counts, Record, Backoff, IInv, TypeOK
  <2> QED
    BY <1>2, <2>1, <2>2 DEF Resumes
<1> QED
  BY <1>3, <1>4

LEMMA CreateKind ==
  ASSUME IInv, KInv, NEW c \in Calls, CreateRecord(c) PROVE Passes(c) \/ Creates(c)
<1>1. CASE Abort(c) /\ UNCHANGED registered
  BY <1>1, CreatePasses
<1>2. CASE ~(Abort(c) /\ UNCHANGED registered)
  <2>1. /\ registered' = registered \cup {c} /\ Attach(c, c)
        /\ go' = [go EXCEPT ![c].pc = "starting", ![c].rec = c]
    BY <1>2 DEF CreateRecord
  <2>2. c \in Goroutines /\ go \in [Goroutines -> Goroutine] /\ recSlot \subseteq Calls
    BY HelperNames DEF IInv, TypeOK
  <2>3. /\ go'[c].pc = "starting" /\ go'[c].rec = c /\ go'[c].run = go[c].run
        /\ go'[c].op = go[c].op /\ go'[c].todo = go[c].todo /\ Alone(c)
    BY <2>1, <2>2 DEF Goroutine, Alone
  <2>4. recSlot' = recSlot \cup {c}
    BY <2>1 DEF Attach
  <2> QED
    BY <2>1, <2>3, <2>4 DEF CreateRecord, Creates, At
<1> QED
  BY <1>1, <1>2

LEMMA LeavingKind ==
  ASSUME IInv, KInv, NEW c \in Calls, Forget(c) \/ Unlink(c)
  PROVE  Forgets(c) \/ Unlinks(c)
<1>1. c \in Goroutines /\ {"forget", "unlink"} \subseteq Labels \ {"idle", "done"}
  BY HelperNames DEF Labels
<1>2. CASE Forget(c)
  <2>1. At(c, "forget") /\ Goto(c, "unlink", {"drop", "refresh"})
    BY <1>2 DEF Forget
  <2>2. /\ go[c].pc = "forget" /\ Moves(c) /\ go'[c].pc = "unlink"
        /\ go'[c].todo = {"drop", "refresh"}
    BY <1>1, <2>1, Standing
  <2> QED
    BY <1>2, <2>2 DEF Forget, Forgets
<1>3. CASE Unlink(c)
  <2>1. At(c, "unlink") /\ Goto(c, "done", {})
    BY <1>3 DEF Unlink
  <2>2. go[c].pc = "unlink" /\ Moves(c) /\ go'[c].pc = "done" /\ go'[c].todo = {}
    BY <1>1, <2>1, Standing
  <2> QED
    BY <1>3, <2>2 DEF Unlink, Unlinks
<1> QED
  BY <1>2, <1>3

LEMMA ArriveKind ==
  ASSUME IInv, KInv, NEW c \in Calls, Arrive(c) PROVE Arrives(c)
<1>0. c \in Goroutines /\ go[c] \in Goroutine /\ go \in [Goroutines -> Goroutine]
      /\ rec \in [Calls -> Record]
  BY HelperNames DEF IInv, TypeOK
<1>1. ASSUME NEW o \in Ops, NEW name \in Names, NEW policy \in Policies, NEW probe \in Probed,
             StartProcess(c, o, name, policy, probe)
      PROVE  Arrives(c)
  <2>1. go[c].pc = "idle" /\ UNCHANGED <<registered, recSlot, live, disk, proc, phase>>
        /\ o.kind = "start"
    BY <1>1 DEF StartProcess, At
  <2>2. CASE Goto(c, "done", {}) /\ UNCHANGED rec
    <3>1. /\ go'[c].pc = "done" /\ go'[c].rec = go[c].rec /\ go'[c].todo = {} /\ Alone(c)
      BY <1>0, <2>2 DEF Goto, Goroutine, Alone
    <3>2. Suits(c)'
      BY <3>1 DEF Suits, Launch
    <3> QED
      BY <2>1, <2>2, <3>1, <3>2 DEF Arrives
  <2>3. ASSUME NEW r \in registered \cup {c},
               rec' = [rec EXCEPT ![c].name = name, ![c].policy = policy,
                                  ![c].probe = probe],
               go' = [go EXCEPT ![c].pc = IF r = c THEN "acquire" ELSE "disable",
                                ![c].rec = r, ![c].op = o]
        PROVE  Arrives(c)
    <3>1. /\ go'[c].pc = IF r = c THEN "acquire" ELSE "disable"
          /\ go'[c].rec = r /\ go'[c].op = o /\ go'[c].todo = go[c].todo /\ Alone(c)
      BY <1>0, <2>3 DEF Goroutine, Alone
    <3>2. Suits(c)'
      BY <2>1, <3>1 DEF Suits, Launch, Kind
    <3>3. \A q \in Calls :
            /\ rec'[q].state = rec[q].state /\ rec'[q].cur = rec[q].cur
            /\ rec'[q].restarts = rec[q].restarts /\ rec'[q].removed = rec[q].removed
            /\ q # c => rec'[q].probe = rec[q].probe
      BY <1>0, <2>3 DEF Record
    <3>4. go[c].todo = {}
      BY <1>1 DEF StartProcess, At
    <3> QED
      BY <2>1, <3>1, <3>2, <3>3, <3>4 DEF Arrives
  <2> QED
    BY <1>1, <2>2, <2>3 DEF StartProcess, Rivals
<1>2. ASSUME NEW o \in Ops, NEW r \in Calls, Request(c, o, r) PROVE Arrives(c)
  <2> DEFINE disable == o.kind = "stop" /\ o.flag
             todo == IF disable THEN {"persist"} ELSE {}
  <2>1. /\ go[c].pc = "idle" /\ o.kind # "start" /\ r \in registered
        /\ UNCHANGED <<registered, recSlot, live, disk, proc, phase>>
        /\ rec' = [rec EXCEPT ![r].disabled = @ \/ disable]
        /\ go' = [go EXCEPT ![c].pc = EntryPoint(o), ![c].rec = r, ![c].op = o,
                            ![c].todo = todo]
    BY <1>2 DEF Request, At
  <2>2. /\ go'[c].pc = EntryPoint(o) /\ go'[c].rec = r /\ go'[c].op = o
        /\ go'[c].todo \subseteq {"persist"} /\ Alone(c)
    BY <1>0, <2>1 DEF Goroutine, Alone
  <2>3. EntryPoint(o) \in {"term", "signal", "suppress", "inspect"}
    BY <2>1, SupervisorAssumption DEF EntryPoint, OpKinds
  <2>4. Suits(c)'
    BY <2>1, <2>2, <2>3 DEF Suits, Launch, Kind
  <2>5. \A q \in Calls :
          /\ rec'[q].state = rec[q].state /\ rec'[q].cur = rec[q].cur
          /\ rec'[q].restarts = rec[q].restarts /\ rec'[q].removed = rec[q].removed
          /\ q # c => rec'[q].probe = rec[q].probe
    BY <1>0, <2>1 DEF Record
  <2> QED
    BY <2>1, <2>2, <2>3, <2>4, <2>5 DEF Arrives
<1> QED
  BY <1>1, <1>2 DEF Arrive

LEMMA RestKind ==
  ASSUME IInv, (\E n \in Runs : Host(n)) \/ BeginClose \/ UNCHANGED vars PROVE Rests
<1>1. CASE \E n \in Runs : Host(n)
  <2>1. SameRuns
    BY <1>1 DEF Host, Announce, Exit, SameRuns, IInv, TypeOK, Process
  <2> QED
    BY <1>1, <2>1 DEF Host, Announce, Exit, Rests
<1>2. CASE BeginClose
  BY <1>2, NothingWritten DEF BeginClose, Rests
<1>3. CASE UNCHANGED vars
  BY <1>3, NothingWritten DEF vars, Rests
<1> QED
  BY <1>1, <1>2, <1>3

LEMMA SpawningKind ==
  ASSUME IInv, KInv, NEW g \in Spawners, Spawning(g) PROVE StepKind
<1>1. g \in Goroutines
  BY SpawnerNames
<1> QED
  BY <1>1, SpawnerTransits, ForkKind, RecordRunKind, WatchRunKind DEF Spawning, StepKind

LEMMA CallKind == ASSUME IInv, KInv, NEW c \in Calls, CallStep(c) PROVE StepKind
<1>1. c \in Goroutines /\ c \in Spawners /\ c \in Calls \cup {Mon(n) : n \in Runs}
  BY HelperNames DEF Spawners
<1>2. CASE Effects(c) \/ Spawning(c)
  BY <1>1, <1>2, EffectsKind, SpawningKind DEF StepKind
<1>3. CASE AcquireSlot(c) \/ HoldSlot(c) \/ MarkRestarting(c)
  BY <1>1, <1>3, SlotPasses, SpawnerTransits DEF StepKind
<1>4. CASE CreateRecord(c) \/ Forget(c) \/ Unlink(c)
  BY <1>1, <1>4, CreateKind, LeavingKind DEF StepKind
<1>5. CASE \/ ReleaseName(c) \/ Disable(c) \/ Terminate(c) \/ AwaitGrace(c) \/ Kill(c)
           \/ AwaitKill(c) \/ SignalOnce(c) \/ Suppress(c) \/ CheckLive(c)
           \/ AwaitTerminal(c) \/ Enable(c) \/ Inspect(c) \/ MarkRemoved(c)
  BY <1>1, <1>5, CallPasses DEF StepKind
<1> QED
  BY <1>2, <1>3, <1>4, <1>5 DEF CallStep

LEMMA HelperKind ==
  ASSUME IInv, KInv, NEW n \in Runs, MonitorStep(n) \/ TimerStep(n) \/ ProbeStep(n)
  PROVE  StepKind
<1>1. /\ Mon(n) \in Goroutines /\ Timer(n) \in Goroutines /\ Probe(n) \in Goroutines
      /\ Timer(n) \in Spawners /\ Mon(n) \in Calls \cup {Mon(m) : m \in Runs}
  BY HelperNames, SpawnerNames
<1>2. CASE Effects(Mon(n)) \/ Effects(Timer(n)) \/ Effects(Probe(n))
  BY <1>1, <1>2, EffectsKind DEF StepKind
<1>3. CASE Reap(n) \/ ProbeRun(n)
  BY <1>1, <1>3, HelperPasses DEF StepKind
<1>4. CASE RecordExit(n) \/ GiveUp(n) \/ Cancel(n) \/ MarkReady(n)
  BY <1>1, <1>4, HelperTransits DEF StepKind
<1>5. CASE AcquireSlot(Mon(n)) \/ HoldSlot(Mon(n)) \/ MarkRestarting(Mon(n))
  BY <1>1, <1>5, SlotPasses, SpawnerTransits DEF StepKind
<1>6. CASE Schedule(n) \/ ApplyPolicy(n) \/ Backoff(n)
  BY <1>1, <1>6, ScheduleKind, ApplyPolicyKind, BackoffKind DEF StepKind
<1>7. CASE Spawning(Timer(n))
  BY <1>1, <1>7, SpawningKind
<1> QED
  BY <1>2, <1>3, <1>4, <1>5, <1>6, <1>7 DEF MonitorStep, TimerStep, ProbeStep

LEMMA StepKinds == IInv /\ KInv /\ [Next]_vars => StepKind
<1> SUFFICES ASSUME IInv, KInv, [Next]_vars PROVE StepKind
  OBVIOUS
<1>1. ASSUME NEW c \in Calls, Arrive(c) \/ CallStep(c) PROVE StepKind
  BY <1>1, ArriveKind, CallKind DEF StepKind
<1>2. ASSUME NEW n \in Runs, MonitorStep(n) \/ TimerStep(n) \/ ProbeStep(n) PROVE StepKind
  BY <1>2, HelperKind
<1>3. CASE (\E n \in Runs : Host(n)) \/ BeginClose \/ UNCHANGED vars
  BY <1>3, RestKind DEF StepKind
<1>4. CASE FinishClose
  BY <1>4 DEF StepKind
<1> QED
  BY <1>1, <1>2, <1>3, <1>4 DEF Next, Quiet

-----------------------------------------------------------------------------
(* What is known of the records is kept by every step. *)

\* Nobody moves, or what moves is only what is left to do.
LEMMA StillKnown ==
  ASSUME IInv, KInv, SameRuns, SameRecords, UNCHANGED registered,
         \A h \in Goroutines :
           /\ go'[h].pc = go[h].pc /\ go'[h].rec = go[h].rec /\ go'[h].run = go[h].run
           /\ go'[h].op = go[h].op /\ go'[h].todo \subseteq go[h].todo
  PROVE  KInv'
<1>1. Suited'
  <2> SUFFICES ASSUME NEW c \in Calls PROVE Suits(c)'
    BY DEF Suited
  <2>1. Suits(c) /\ c \in Goroutines
    BY HelperNames DEF KInv, Suited
  <2>2. go[c].pc \in {"forget", "unlink"} => go[c].rec \in Calls
    BY <2>1 DEF IInv, Targets
  <2> QED
    BY <2>1, <2>2 DEF Suits, Kind, SameRecords
<1>2. Helping'
  BY HelperNames DEF KInv, Helping, SameRuns, Goroutines, Kind
<1>3. IdleFree'
  BY DEF KInv, IdleFree, Kind
<1>4. Owned'
  <2>1. \A h \in Goroutines : Launching(h) => Launching(h)' /\ go[h].run \in Runs
    BY DEF Launching, IInv, Forked, LaunchingIdle
  <2> QED
    BY <2>1 DEF KInv, Owned, SameRuns, Launching
<1>5. Unknown'
  <2>1. \A c \in Calls : Unmade(c)' => Unmade(c)
    BY HelperNames DEF Unmade, Kind
  <2> QED
    BY <2>1 DEF KInv, Unknown, SameRuns, SameRecords
<1> QED
  BY <1>1, <1>2, <1>3, <1>4, <1>5 DEF KInv

LEMMA StillStep ==
  ASSUME IInv, KInv, (\E g \in Goroutines : Drops(g) \/ Settles(g)) \/ Rests \/ FinishClose
  PROVE  KInv'
<1>1. CASE \E g \in Goroutines : Drops(g) \/ Settles(g)
  <2>1. \A h \in Goroutines :
          /\ go'[h].pc = go[h].pc /\ go'[h].rec = go[h].rec /\ go'[h].run = go[h].run
          /\ go'[h].op = go[h].op /\ go'[h].todo \subseteq go[h].todo
    BY <1>1 DEF Drops, Settles, Alone
  <2>2. UNCHANGED <<rec, registered, proc>>
    BY <1>1 DEF Drops, Settles
  <2> QED
    BY <2>1, <2>2, NothingWritten, StillKnown
<1>2. CASE Rests \/ FinishClose
  <2>1. UNCHANGED <<rec, registered, go>> /\ SameRuns /\ SameRecords
    BY <1>2, NothingWritten DEF Rests, FinishClose, SameRecords
  <2> QED
    BY <2>1, StillKnown
<1> QED
  BY <1>1, <1>2

LEMMA MoveKnown ==
  ASSUME IInv, KInv, NEW g \in Goroutines,
         Passes(g) \/ \E to \in States : Transits(g, to)
  PROVE  KInv'
<1>1. CASE Passes(g)
  <2>1. \A r \in Calls : rec[r].removed => rec'[r].removed
    BY <1>1 DEF Passes, SameRecords
  <2>2. \A r \in Calls : rec'[r].state = rec[r].state
    BY <1>1 DEF Passes, SameRecords
  <2> QED
    BY <1>1, <2>1, <2>2, KnownPass DEF Passes, Hops
<1>2. ASSUME NEW to \in States, Transits(g, to) PROVE KInv'
  <2>1. \A r \in Calls : rec'[r].removed = rec[r].removed
    BY <1>2 DEF Transits
  <2>2. SameRuns
    BY <1>2 DEF Transits, SameRuns
  <2>3. \A r \in Calls : Unmade(r) => rec'[r].state = rec[r].state
    <3> SUFFICES ASSUME NEW r \in Calls, Unmade(r), r = Target(g) PROVE FALSE
      BY <1>2 DEF Transits
    <3>1. g = r
      BY DEF KInv, Unknown, Target
    <3> QED
      BY <1>2, <3>1 DEF Transits
  <2> QED
    BY <1>2, <2>1, <2>2, <2>3, KnownPass DEF Transits, Hops
<1> QED
  BY <1>1, <1>2

LEMMA CountKnown ==
  ASSUME IInv, KInv, NEW n \in Runs, Decides(n) \/ Resumes(n) PROVE KInv'
<1>1. PICK g \in {Mon(n), Timer(n)} :
        /\ Moves(g) /\ go[g].pc \in {"policy", "backoff"}
        /\ go'[g].pc \in {"done", "giveup", "acquire", "starting"}
        /\ \E count : Counts(g, count)
  BY DEF Decides, Resumes
<1>2. g \in Goroutines \ Calls
  BY HelperNames
<1>3. SameRuns
  BY <1>1 DEF Counts, SameRuns
<1>4. UNCHANGED registered
      /\ \A r \in Calls : rec'[r].removed = rec[r].removed /\ rec'[r].state = rec[r].state
  BY <1>1 DEF Counts
<1> QED
  BY <1>1, <1>2, <1>3, <1>4, KnownPass

LEMMA LeavingKnown ==
  ASSUME IInv, KInv, NEW c \in Calls, Forgets(c) \/ Unlinks(c) PROVE KInv'
<1>1. /\ c \in Goroutines /\ Moves(c) /\ go[c].pc \in {"forget", "unlink"}
      /\ go'[c].pc \in {"unlink", "done"} /\ registered' \subseteq registered
      /\ UNCHANGED <<rec, proc>>
  BY HelperNames DEF Forgets, Unlinks
<1>2. ~Unmade(c)'
  BY <1>1 DEF Unmade
<1>3. Suits(c)'
  BY <1>1 DEF KInv, Suited, Suits, Moves, Launch
<1> QED
  BY <1>1, <1>2, <1>3, NothingWritten, KnownPass

LEMMA ArrivesKnown ==
  ASSUME IInv, KInv, NEW c \in Calls, Arrives(c) PROVE KInv'
<1>0. /\ go[c].pc = "idle" /\ go'[c].pc # "idle" /\ Suits(c)' /\ c \in Goroutines
      /\ \A h \in Goroutines : h # c => go'[h] = go[h]
      /\ go'[c].rec \in registered \cup {c, go[c].rec}
      /\ go'[c].pc \notin {"record", "watch"}
      /\ SameRuns /\ UNCHANGED <<registered, proc>>
      /\ \A r \in Calls : rec'[r].state = rec[r].state /\ rec'[r].removed = rec[r].removed
  BY HelperNames DEF Arrives, Alone, SameRuns
<1>1. Suited'
  <2> SUFFICES ASSUME NEW d \in Calls, d # c PROVE Suits(d)'
    BY <1>0 DEF Suited
  <2>1. Suits(d) /\ d \in Goroutines /\ go'[d] = go[d]
    BY <1>0, HelperNames DEF KInv, Suited
  <2>2. go[d].pc \in {"forget", "unlink"} => go[d].rec \in Calls
    BY <2>1 DEF IInv, Targets
  <2> QED
    BY <1>0, <2>1, <2>2 DEF Suits, Kind
<1>2. Helping'
  <2>1. \A h \in Helpers : h \in Goroutines /\ h # c /\ go'[h] = go[h]
    BY <1>0, SupervisorAssumption DEF Goroutines
  <2>2. \A n \in Runs : Mon(n) \in Helpers /\ Timer(n) \in Helpers /\ Probe(n) \in Helpers
    BY DEF Mon, Timer, Probe, Helpers
  <2> QED
    BY <1>0, <2>1, <2>2 DEF KInv, Helping, Kind
<1>3. IdleFree'
  BY <1>0 DEF KInv, IdleFree, Kind
<1>4. Owned'
  <2>1. \A h \in Goroutines : Launching(h)' => Launching(h) /\ go'[h] = go[h]
    BY <1>0 DEF Launching
  <2> QED
    BY <1>0, <2>1 DEF KInv, Owned
<1>5. Unknown'
  <2>1. \A d \in Calls : Unmade(d)' => Unmade(d)
    BY <1>0, HelperNames DEF Unmade, Kind
  <2>2. \A d \in Calls : Unmade(d)' => \A g \in Goroutines : go'[g].rec = d => g = d
    BY <1>0, <2>1 DEF KInv, Unknown
  <2> QED
    BY <1>0, <2>1, <2>2 DEF KInv, Unknown
<1> QED
  BY <1>1, <1>2, <1>3, <1>4, <1>5 DEF KInv

LEMMA CreatesKnown ==
  ASSUME IInv, KInv, NEW c \in Calls, Creates(c) PROVE KInv'
<1>0. /\ go[c].pc = "create" /\ go'[c].pc = "starting" /\ go'[c].rec = c /\ c \in Goroutines
      /\ go'[c].op = go[c].op /\ \A h \in Goroutines : h # c => go'[h] = go[h]
      /\ registered' = registered \cup {c} /\ UNCHANGED <<rec, proc>>
  BY HelperNames DEF Creates, Alone
<1>1. Suited'
  <2>1. Suits(c)'
    BY <1>0 DEF KInv, Suited, Suits, Launch, Kind
  <2> QED
    BY <1>0, <2>1, HelperNames DEF KInv, Suited, Suits, Kind
<1>2. Helping'
  <2>1. \A h \in Helpers : h \in Goroutines /\ h # c /\ go'[h] = go[h]
    BY <1>0, SupervisorAssumption DEF Goroutines
  <2>2. \A n \in Runs : Mon(n) \in Helpers /\ Timer(n) \in Helpers /\ Probe(n) \in Helpers
    BY DEF Mon, Timer, Probe, Helpers
  <2> QED
    BY <1>0, <2>1, <2>2 DEF KInv, Helping, Kind
<1>3. IdleFree'
  BY <1>0 DEF KInv, IdleFree, Kind
<1>4. Owned'
  <2>1. \A h \in Goroutines : Launching(h)' => Launching(h) /\ go'[h] = go[h]
    BY <1>0 DEF Launching
  <2> QED
    BY <1>0, <2>1 DEF KInv, Owned
<1>5. Unknown'
  <2>1. \A d \in Calls : Unmade(d)' => Unmade(d) /\ d # c
    BY <1>0, HelperNames DEF Unmade, Kind
  <2> QED
    BY <1>0, <2>1 DEF KInv, Unknown
<1> QED
  BY <1>1, <1>2, <1>3, <1>4, <1>5 DEF KInv

LEMMA ForksKnown ==
  ASSUME IInv, KInv, NEW g \in Spawners, NEW n \in Runs, Forks(g, n) PROVE KInv'
<1>1. g \in Goroutines /\ \A m \in Runs : g # Mon(m)
  BY SpawnerNames
<1>2. /\ go[g].pc = "spawn" /\ go'[g].pc = "record" /\ go'[g].run = n
      /\ go'[g].rec = go[g].rec /\ go'[g].op = go[g].op
      /\ \A h \in Goroutines : h # g => go'[h] = go[h]
      /\ proc[n].os = "unborn" /\ proc'[n].os = "alive" /\ proc'[n].owner = Target(g)
      /\ \A m \in Runs : m # n => proc'[m] = proc[m]
      /\ UNCHANGED <<rec, registered>>
  BY DEF Forks, Alone
<1>3. Target(g) \in Calls /\ (g \in Calls => Suits(g))
  BY <1>1, <1>2 DEF KInv, Suited, IInv, Targets, Target
<1>4. Suited'
  <2> SUFFICES ASSUME NEW c \in Calls PROVE Suits(c)'
    BY DEF Suited
  <2>1. CASE c = g
    BY <1>2, <1>3, <2>1 DEF Suits, Launch, Kind
  <2>2. CASE c # g
    BY <1>2, <2>2, HelperNames DEF KInv, Suited, Suits, Kind
  <2> QED
    BY <2>1, <2>2
<1>5. go[Mon(n)].pc = "idle"
  BY <1>2 DEF IInv, Forked, UnbornUnknown
<1>6. Helping'
  <2>1. \A h \in Helpers : Kind(h)' = Kind(h) /\ Kind(h) = "none"
    BY <1>1, <1>2 DEF Kind, Goroutines, KInv, Helping
  <2>2. \A h \in Goroutines : /\ go'[h].pc = "idle" <=> go[h].pc = "idle"
                              /\ go'[h].rec = go[h].rec
                              /\ go[h].pc = "done" => go'[h].pc = "done"
    BY <1>1, <1>2
  <2>3. \A m \in Runs : go'[Mon(m)] = go[Mon(m)]
    BY <1>1, <1>2, HelperNames
  <2>4. go[Timer(n)].pc = "idle" /\ go'[Timer(n)].pc = "idle"
    BY <1>5, <2>2, HelperNames DEF KInv, Helping
  <2>5. \A m \in Runs :
          /\ go'[Mon(m)].pc # "done" => go'[Timer(m)].pc = "idle"
          /\ go'[Mon(m)].pc = "idle" => go'[Probe(m)].pc = "idle"
    BY <2>2, HelperNames DEF KInv, Helping
  <2>6. \A m \in Runs :
          /\ go'[Mon(m)].pc # "idle" => go'[Mon(m)].run = m
                                       /\ go'[Mon(m)].rec = proc'[m].owner
          /\ go'[Timer(m)].pc # "idle" => go'[Timer(m)].rec = proc'[m].owner
    <3> SUFFICES ASSUME NEW m \in Runs
                 PROVE  /\ go'[Mon(m)].pc # "idle" => go'[Mon(m)].run = m
                                                    /\ go'[Mon(m)].rec = proc'[m].owner
                        /\ go'[Timer(m)].pc # "idle" => go'[Timer(m)].rec = proc'[m].owner
      OBVIOUS
    <3>1. CASE m = n
      BY <1>5, <2>3, <2>4, <3>1
    <3>2. CASE m # n
      BY <1>2, <2>2, <2>3, <3>2, HelperNames DEF KInv, Helping
    <3> QED
      BY <3>1, <3>2
  <2> QED
    BY <2>1, <2>5, <2>6 DEF Helping
<1>7. IdleFree'
  BY <1>1, <1>2 DEF KInv, IdleFree, Kind
<1>8. Owned'
  <2>1. \A h \in Goroutines : h # g /\ Launching(h) => go[h].run # n /\ go[h].run \in Runs
    BY <1>2 DEF IInv, Forked, UnbornUnknown, LaunchingIdle
  <2>2. \A h \in Goroutines : h # g => (Launching(h)' <=> Launching(h))
    BY <1>2 DEF Launching
  <2> QED
    BY <1>1, <1>2, <1>3, <2>1, <2>2 DEF KInv, Owned, Target
<1>9. Unknown'
  <2>1. \A c \in Calls : Unmade(c)' => Unmade(c) /\ c # g
    BY <1>2, HelperNames DEF Unmade, Kind
  <2>2. \A c \in Calls : Unmade(c)' => Target(g) # c
    BY <1>1, <2>1 DEF KInv, Unknown, Target
  <2> QED
    BY <1>1, <1>2, <2>1, <2>2 DEF KInv, Unknown
<1> QED
  BY <1>4, <1>6, <1>7, <1>8, <1>9 DEF KInv

LEMMA RecordsKnown ==
  ASSUME IInv, KInv, NEW g \in Spawners, Records(g) PROVE KInv'
<1>1. /\ g \in Goroutines /\ go[g].pc = "record" /\ go'[g].pc = "watch" /\ Moves(g)
      /\ \A r \in Calls : rec'[r].state = rec[r].state /\ rec'[r].removed = rec[r].removed
      /\ UNCHANGED <<registered, proc>>
  BY SpawnerNames DEF Records
<1>2. Suited'
  <2> SUFFICES ASSUME NEW c \in Calls PROVE Suits(c)'
    BY DEF Suited
  <2>1. Suits(c) /\ c \in Goroutines
    BY HelperNames DEF KInv, Suited
  <2>2. CASE c = g
    BY <1>1, <2>1, <2>2 DEF Suits, Launch, Moves, Kind
  <2>3. CASE c # g
    <3>1. go'[c] = go[c]
      BY <1>1, <2>1, <2>3 DEF Moves
    <3>2. go[c].pc \in {"forget", "unlink"} => go[c].rec \in Calls
      BY <2>1 DEF IInv, Targets
    <3> QED
      BY <1>1, <2>1, <3>1, <3>2 DEF Suits, Kind
  <2> QED
    BY <2>2, <2>3
<1>3. Helping'
  <2>1. \A h \in Goroutines : Kind(h)' = Kind(h)
    BY <1>1 DEF Moves, Kind
  <2>2. \A h \in Goroutines : /\ go'[h].pc = "idle" <=> go[h].pc = "idle"
                              /\ go'[h].rec = go[h].rec /\ go'[h].run = go[h].run
                              /\ go[h].pc = "done" => go'[h].pc = "done"
    BY <1>1 DEF Moves
  <2> QED
    BY <1>1, <2>1, <2>2, HelperNames DEF KInv, Helping, Goroutines
<1>4. IdleFree'
  BY <1>1 DEF KInv, IdleFree, Moves, Kind
<1>5. Owned'
  BY <1>1 DEF KInv, Owned, Moves, Launching
<1>6. Unknown'
  <2>1. \A c \in Calls : Unmade(c)' => Unmade(c)
    BY <1>1, HelperNames DEF Moves, Unmade, Kind
  <2>2. \A h \in Goroutines : go'[h].rec = go[h].rec
    BY <1>1 DEF Moves
  <2> QED
    BY <1>1, <2>1, <2>2 DEF KInv, Unknown
<1> QED
  BY <1>2, <1>3, <1>4, <1>5, <1>6 DEF KInv

LEMMA WatchesKnown ==
  ASSUME IInv, KInv, NEW g \in Spawners, NEW n \in Runs, Watches(g, n) PROVE KInv'
<1>0. /\ Mon(n) \in Goroutines /\ Probe(n) \in Goroutines /\ g \in Goroutines
      /\ g # Mon(n) /\ g # Probe(n) /\ Mon(n) # Probe(n)
      /\ Mon(n) \notin Calls /\ Probe(n) \notin Calls
  BY HelperNames, SpawnerNames
<1>1. /\ go[g].pc = "watch" /\ go[g].run = n /\ go'[g].pc \in {"done", "running"}
      /\ go'[g].rec = go[g].rec /\ go'[g].op = go[g].op /\ go'[g].run = n
      /\ go'[Mon(n)].pc = "wait" /\ go'[Mon(n)].rec = Target(g) /\ go'[Mon(n)].run = n
      /\ Kind(Mon(n))' = "none"
      /\ \/ go'[Probe(n)] = go[Probe(n)]
         \/ /\ go'[Probe(n)].pc = "probing" /\ go'[Probe(n)].rec = Target(g)
            /\ Kind(Probe(n))' = "none"
      /\ \A h \in Goroutines : h \notin {g, Mon(n), Probe(n)} => go'[h] = go[h]
      /\ UNCHANGED <<rec, registered, proc>>
  BY DEF Watches, Helper, NoOp, Kind
<1>2. /\ Target(g) \in Calls /\ (g \in Calls => Suits(g)) /\ proc[n].owner = Target(g)
      /\ go[Mon(n)].pc = "idle" /\ go[Timer(n)].pc = "idle" /\ g # Timer(n)
  BY <1>0, <1>1, HelperNames
  DEF KInv, Suited, Owned, Helping, IInv, Targets, Target, Forked, LaunchingIdle, Launching
<1>3. Suited'
  <2> SUFFICES ASSUME NEW c \in Calls PROVE Suits(c)'
    BY DEF Suited
  <2>1. CASE c = g
    BY <1>1, <1>2, <2>1 DEF Suits, Launch, Kind
  <2>2. CASE c # g
    BY <1>0, <1>1, <2>2, HelperNames DEF KInv, Suited, Suits, Kind
  <2> QED
    BY <2>1, <2>2
<1>4. Helping'
  <2>1. \A h \in Helpers : Kind(h)' = "none"
    BY <1>0, <1>1 DEF Kind, Goroutines, KInv, Helping
  <2>2. ASSUME NEW m \in Runs, m # n
        PROVE  /\ go'[Mon(m)] = go[Mon(m)] /\ go'[Probe(m)] = go[Probe(m)]
               /\ go'[Timer(m)].rec = go[Timer(m)].rec
               /\ go'[Timer(m)].pc = "idle" <=> go[Timer(m)].pc = "idle"
    <3>1. /\ Mon(m) \in Goroutines \ {g, Mon(n), Probe(n)}
          /\ Probe(m) \in Goroutines \ {g, Mon(n), Probe(n)}
          /\ Timer(m) \in Goroutines \ {Mon(n), Probe(n)}
      BY <2>2, HelperNames, SpawnerNames, SupervisorAssumption DEF Mon, Probe, Timer
    <3> QED
      BY <1>1, <3>1
  <2>3. go'[Timer(n)].pc = "idle"
    BY <1>1, <1>2, HelperNames
  <2>4. ASSUME NEW m \in Runs
        PROVE  /\ go'[Mon(m)].pc # "done" => go'[Timer(m)].pc = "idle"
               /\ go'[Mon(m)].pc = "idle" => go'[Probe(m)].pc = "idle"
               /\ go'[Mon(m)].pc # "idle" => /\ go'[Mon(m)].run = m
                                             /\ go'[Mon(m)].rec = proc'[m].owner
               /\ go'[Timer(m)].pc # "idle" => go'[Timer(m)].rec = proc'[m].owner
    <3>1. CASE m = n
      BY <1>1, <1>2, <2>3, <3>1
    <3>2. CASE m # n
      BY <1>1, <2>2, <3>2 DEF KInv, Helping
    <3> QED
      BY <3>1, <3>2
  <2> QED
    BY <2>1, <2>4 DEF Helping
<1>5. IdleFree'
  BY <1>0, <1>1 DEF KInv, IdleFree, Kind
<1>6. Owned'
  <2>1. \A h \in Goroutines : Launching(h)' => Launching(h) /\ go'[h] = go[h]
    BY <1>1 DEF Launching
  <2> QED
    BY <1>1, <2>1 DEF KInv, Owned
<1>7. Unknown'
  <2>1. \A c \in Calls : Unmade(c)' => Unmade(c) /\ c # g
    BY <1>0, <1>1, HelperNames DEF Unmade, Kind
  <2>2. \A c \in Calls : Unmade(c)' => Target(g) # c
    BY <1>0, <2>1 DEF KInv, Unknown, Target
  <2>3. \A h \in Goroutines : go'[h].rec \in {go[h].rec, Target(g)}
    BY <1>0, <1>1
  <2> QED
    BY <1>1, <2>1, <2>2, <2>3 DEF KInv, Unknown
<1> QED
  BY <1>3, <1>4, <1>5, <1>6, <1>7 DEF KInv

LEMMA SchedulesKnown ==
  ASSUME IInv, KInv, NEW n \in Runs, Schedules(n) PROVE KInv'
<1>0. /\ Mon(n) \in Goroutines /\ Timer(n) \in Goroutines /\ Mon(n) # Timer(n)
      /\ Mon(n) \notin Calls /\ Timer(n) \notin Calls
  BY HelperNames
<1>1. /\ go[Mon(n)].pc = "schedule" /\ go'[Mon(n)].pc = "done"
      /\ go'[Mon(n)].rec = go[Mon(n)].rec /\ go'[Mon(n)].run = go[Mon(n)].run
      /\ Kind(Mon(n))' = Kind(Mon(n)) /\ Kind(Timer(n))' = Kind(Mon(n))
      /\ go'[Timer(n)].pc = "backoff" /\ go'[Timer(n)].rec = go[Mon(n)].rec
      /\ \A h \in Goroutines : h \notin {Mon(n), Timer(n)} => go'[h] = go[h]
      /\ UNCHANGED <<rec, registered, proc>>
  BY DEF Schedules, Kind
<1>3. Suited'
  BY <1>0, <1>1, HelperNames DEF KInv, Suited, Suits, Kind
<1>4. Helping'
  <2>1. \A h \in Helpers : Kind(h)' = "none"
    <3>1. Mon(n) \in Helpers
      BY DEF Mon, Helpers
    <3> QED
      BY <1>0, <1>1, <3>1 DEF Kind, Goroutines, KInv, Helping
  <2>2. ASSUME NEW m \in Runs, m # n
        PROVE  /\ go'[Mon(m)] = go[Mon(m)] /\ go'[Probe(m)] = go[Probe(m)]
               /\ go'[Timer(m)] = go[Timer(m)]
    <3>1. /\ Mon(m) \in Goroutines \ {Mon(n), Timer(n)}
          /\ Probe(m) \in Goroutines \ {Mon(n), Timer(n)}
          /\ Timer(m) \in Goroutines \ {Mon(n), Timer(n)}
      BY <2>2, HelperNames DEF Mon, Probe, Timer
    <3> QED
      BY <1>1, <3>1
  <2>3. go'[Mon(n)].run = n /\ go[Mon(n)].rec = proc[n].owner
    BY <1>1 DEF KInv, Helping
  <2>4. ASSUME NEW m \in Runs
        PROVE  /\ go'[Mon(m)].pc # "done" => go'[Timer(m)].pc = "idle"
               /\ go'[Mon(m)].pc = "idle" => go'[Probe(m)].pc = "idle"
               /\ go'[Mon(m)].pc # "idle" => /\ go'[Mon(m)].run = m
                                             /\ go'[Mon(m)].rec = proc'[m].owner
               /\ go'[Timer(m)].pc # "idle" => go'[Timer(m)].rec = proc'[m].owner
    <3>1. CASE m = n
      BY <1>1, <2>3, <3>1
    <3>2. CASE m # n
      BY <1>1, <2>2, <3>2 DEF KInv, Helping
    <3> QED
      BY <3>1, <3>2
  <2> QED
    BY <2>1, <2>4 DEF Helping
<1>5. IdleFree'
  BY <1>0, <1>1 DEF KInv, IdleFree, Kind
<1>6. Owned'
  <2>1. \A h \in Goroutines : Launching(h)' => Launching(h) /\ go'[h] = go[h]
    BY <1>1 DEF Launching
  <2> QED
    BY <1>1, <2>1 DEF KInv, Owned
<1>7. Unknown'
  <2>1. \A c \in Calls : Unmade(c)' => Unmade(c)
    BY <1>0, <1>1, HelperNames DEF Unmade, Kind
  <2>2. \A h \in Goroutines : go'[h].rec \in {go[h].rec, go[Mon(n)].rec}
    BY <1>0, <1>1
  <2>3. \A c \in Calls : Unmade(c)' => go[Mon(n)].rec # c
    BY <1>0, <2>1 DEF KInv, Unknown
  <2> QED
    BY <1>1, <2>1, <2>2, <2>3 DEF KInv, Unknown
<1> QED
  BY <1>3, <1>4, <1>5, <1>6, <1>7 DEF KInv

THEOREM KnownStep == IInv /\ KInv /\ [Next]_vars => KInv'
<1> SUFFICES ASSUME IInv, KInv, [Next]_vars PROVE KInv'
  OBVIOUS
<1>1. StepKind
  BY StepKinds
<1> QED
  BY <1>1, StillStep, MoveKnown, CountKnown, LeavingKnown, ArrivesKnown, CreatesKnown,
     ForksKnown, RecordsKnown, WatchesKnown, SchedulesKnown DEF StepKind

-----------------------------------------------------------------------------
(* The live count.  A step that changes how many records are live leaves its    *)
(* goroutine a recomputation to do.                                             *)

Clear == \A g \in Goroutines : "refresh" \notin go[g].todo

LEMMA ClearOwes ==
  /\ IInv => (Clear <=> \A r \in Calls : ~Owes("refresh", r))
  /\ IInv' => (Clear' <=> \A r \in Calls : ~Owes("refresh", r)')
<1>1. IInv => \A g \in Goroutines : go[g].todo # {} => go[g].rec \in Calls
  BY DEF IInv, Targets
<1>2. IInv' => \A g \in Goroutines : go'[g].todo # {} => go'[g].rec \in Calls
  BY DEF IInv, Targets
<1> QED
  BY <1>1, <1>2 DEF Clear, Owes

LEMMA SameLive ==
  ASSUME IInv, UNCHANGED registered, \A r \in Calls : rec'[r].state = rec[r].state
  PROVE  LiveRecords' = LiveRecords
BY DEF LiveRecords, IInv, TypeOK

LEMMA CountPasses ==
  ASSUME IInv, IInv', LiveCountFollows, LiveRecords' = LiveRecords, UNCHANGED live,
         \A g \in Goroutines : "refresh" \in go[g].todo => "refresh" \in go'[g].todo
  PROVE  LiveCountFollows'
<1>1. LiveCountFollows' <=> (Clear' => live' = Cardinality(LiveRecords)')
  BY ClearOwes DEF LiveCountFollows
<1>2. LiveCountFollows <=> (Clear => live = Cardinality(LiveRecords))
  BY ClearOwes DEF LiveCountFollows
<1>3. Clear' => Clear
  BY DEF Clear
<1> QED
  BY <1>1, <1>2, <1>3

LEMMA CountOwed ==
  ASSUME IInv, IInv', NEW g \in Goroutines, "refresh" \in go'[g].todo
  PROVE  LiveCountFollows'
<1>1. ~Clear'
  BY DEF Clear
<1> QED
  BY <1>1, ClearOwes DEF LiveCountFollows

LEMMA CountGoroutine ==
  ASSUME IInv, IInv', KInv, LiveCountFollows, NEW g \in Goroutines,
         \/ Passes(g) \/ Drops(g) \/ Settles(g) \/ \E to \in States : Transits(g, to)
  PROVE  LiveCountFollows'
<1>1. CASE Passes(g)
  <2>1. LiveRecords' = LiveRecords
    BY <1>1, SameLive DEF Passes, SameRecords
  <2> QED
    BY <1>1, <2>1, CountPasses DEF Passes, Moves
<1>2. CASE Drops(g)
  <2>1. LiveRecords' = LiveRecords
    BY <1>2, SameLive DEF Drops
  <2> QED
    BY <1>2, <2>1, CountPasses DEF Drops, Alone
<1>3. CASE Settles(g)
  <2>1. LiveRecords' = LiveRecords
    BY <1>3, SameLive DEF Settles
  <2>2. CASE "refresh" \in go[g].todo
    BY <1>3, <2>1, <2>2 DEF Settles, LiveCountFollows
  <2>3. CASE "refresh" \notin go[g].todo
    BY <1>3, <2>1, <2>3, CountPasses DEF Settles, Alone
  <2> QED
    BY <2>2, <2>3
<1>4. ASSUME NEW to \in States, Transits(g, to) PROVE LiveCountFollows'
  BY <1>4, CountOwed DEF Transits, Aftermath
<1> QED
  BY <1>1, <1>2, <1>3, <1>4

LEMMA CountSpawner ==
  ASSUME IInv, IInv', KInv, LiveCountFollows, NEW g \in Spawners,
         Records(g) \/ \E n \in Runs : Forks(g, n) \/ Watches(g, n)
  PROVE  LiveCountFollows'
<1>1. LiveRecords' = LiveRecords
  BY SameLive DEF Records, Forks, Watches
<1>2. UNCHANGED live
  BY DEF Records, Forks, Watches
<1>3. \A h \in Goroutines : "refresh" \in go[h].todo => "refresh" \in go'[h].todo
  <2>1. CASE Records(g) \/ \E n \in Runs : Forks(g, n)
    BY <2>1 DEF Records, Forks, Moves, Alone
  <2>2. ASSUME NEW n \in Runs, Watches(g, n)
        PROVE  \A h \in Goroutines : "refresh" \in go[h].todo => "refresh" \in go'[h].todo
    <3>1. go[Mon(n)].pc = "idle"
      BY <2>2, SpawnerNames DEF Watches, IInv, Forked, LaunchingIdle, Launching
    <3>2. go[Mon(n)].todo = {} /\ go[Probe(n)].todo = {} /\ go[g].todo = {}
      BY <2>2, <3>1, HelperNames DEF KInv, Helping, IdleFree, Watches
    <3> QED
      BY <2>2, <3>2 DEF Watches
  <2> QED
    BY <2>1, <2>2
<1> QED
  BY <1>1, <1>2, <1>3, CountPasses

LEMMA CountHelper ==
  ASSUME IInv, IInv', KInv, LiveCountFollows, NEW n \in Runs,
         Schedules(n) \/ Decides(n) \/ Resumes(n)
  PROVE  LiveCountFollows'
<1>1. LiveRecords' = LiveRecords
  BY SameLive DEF Schedules, Decides, Resumes, Counts
<1>2. UNCHANGED live
  BY DEF Schedules, Decides, Resumes, Counts
<1>3. \A h \in Goroutines : "refresh" \in go[h].todo => "refresh" \in go'[h].todo
  <2>1. CASE Decides(n) \/ Resumes(n)
    BY <2>1 DEF Decides, Resumes, Moves
  <2>2. CASE Schedules(n)
    <3>1. go[Timer(n)].todo = {} /\ go[Mon(n)].todo = {}
      BY <2>2, HelperNames DEF Schedules, KInv, Helping, IdleFree
    <3> QED
      BY <2>2, <3>1 DEF Schedules
  <2> QED
    BY <2>1, <2>2
<1> QED
  BY <1>1, <1>2, <1>3, CountPasses

LEMMA CountCall ==
  ASSUME IInv, IInv', KInv, LiveCountFollows, NEW c \in Calls,
         Arrives(c) \/ Creates(c) \/ Forgets(c) \/ Unlinks(c)
  PROVE  LiveCountFollows'
<1>0. c \in Goroutines
  BY HelperNames
<1>1. CASE Forgets(c)
  BY <1>0, <1>1, CountOwed DEF Forgets
<1>2. CASE Arrives(c) \/ Unlinks(c)
  <2>1. LiveRecords' = LiveRecords
    BY <1>2, SameLive DEF Arrives, Unlinks
  <2>2. \A h \in Goroutines : "refresh" \in go[h].todo => "refresh" \in go'[h].todo
    BY <1>0, <1>2 DEF Arrives, Unlinks, Alone, Moves, KInv, IdleFree
  <2> QED
    BY <1>2, <2>1, <2>2, CountPasses DEF Arrives, Unlinks
<1>3. CASE Creates(c)
  <2>1. ~IsLive(rec[c].state)
    BY <1>3 DEF Creates, KInv, Suited, Suits, Unknown, Unmade, IsLive
  <2>2. LiveRecords' = LiveRecords
    BY <1>3, <2>1 DEF Creates, LiveRecords
  <2>3. \A h \in Goroutines : "refresh" \in go[h].todo => "refresh" \in go'[h].todo
    BY <1>3 DEF Creates, Alone
  <2> QED
    BY <1>3, <2>2, <2>3, CountPasses DEF Creates
<1> QED
  BY <1>1, <1>2, <1>3

\* Once the recomputations under way are done, Health reports the number of live
\* records: every transition and every removal leaves one to do.
THEOREM LiveCountAlwaysFollows == Spec => []LiveCountFollows
<1>1. Init => LiveCountFollows
  <2>1. Init => LiveRecords = {} /\ live = 0
    BY DEF Init, LiveRecords
  <2> QED
    BY <2>1, FS_EmptySet DEF LiveCountFollows
<1>2. IInv /\ KInv /\ LiveCountFollows /\ [Next]_vars => LiveCountFollows'
  <2> SUFFICES ASSUME IInv, KInv, LiveCountFollows, [Next]_vars PROVE LiveCountFollows'
    OBVIOUS
  <2>1. IInv' /\ StepKind
    BY NextInv, StepKinds
  <2>2. CASE Rests \/ FinishClose
    <3>1. LiveRecords' = LiveRecords /\ UNCHANGED <<live, go>>
      BY <2>2 DEF Rests, FinishClose, LiveRecords
    <3> QED
      BY <2>1, <3>1, CountPasses
  <2> QED
    BY <2>1, <2>2, CountGoroutine, CountSpawner, CountHelper, CountCall DEF StepKind
<1> QED
  BY <1>1, <1>2, InitInv, NextInv, InitKnown, KnownStep, PTL DEF Spec

-----------------------------------------------------------------------------
(* The disk.  A step that changes what the disk should say of a record leaves   *)
(* its goroutine a write to do.                                                 *)

Written(r) ==
  \/ rec[r].removed \/ rec[r].state = "UNSPECIFIED" \/ Owes("persist", r)
  \/ disk[r] = Snapshot(r)

DiskInv == \A r \in registered : Written(r)

LEMMA WrittenPasses ==
  ASSUME NEW r, Written(r), rec'[r].state = rec[r].state, rec'[r].cur = rec[r].cur,
         rec[r].removed => rec'[r].removed, disk'[r] = disk[r],
         \A g \in Goroutines : go[g].rec = r /\ "persist" \in go[g].todo
                                 => go'[g].rec = r /\ "persist" \in go'[g].todo
  PROVE  Written(r)'
BY DEF Written, Snapshot, Owes

LEMMA WrittenOwed ==
  ASSUME NEW r, NEW g \in Goroutines, go'[g].rec = r, "persist" \in go'[g].todo
  PROVE  Written(r)'
BY DEF Written, Owes

LEMMA DiskGoroutine ==
  ASSUME IInv, KInv, DiskInv, NEW g \in Goroutines,
         \/ Passes(g) \/ Drops(g) \/ Settles(g) \/ \E to \in States : Transits(g, to)
  PROVE  DiskInv'
<1> SUFFICES ASSUME NEW r \in registered' PROVE Written(r)'
  BY DEF DiskInv
<1>0. r \in registered /\ r \in Calls
  BY DEF Passes, Drops, Settles, Transits, IInv, TypeOK
<1>1. CASE Passes(g)
  BY <1>0, <1>1, WrittenPasses DEF DiskInv, Passes, SameRecords, Moves
<1>2. CASE Drops(g)
  BY <1>0, <1>2, WrittenPasses DEF DiskInv, Drops, Alone
<1>3. CASE Settles(g)
  <2>1. CASE "persist" \in go[g].todo /\ Target(g) = r
    <3>1. CASE rec[r].removed
      BY <1>3, <3>1 DEF Settles, Written
    <3>2. CASE ~rec[r].removed
      <4>1. disk'[r] = Snapshot(r) /\ UNCHANGED rec
        BY <1>0, <1>3, <2>1, <3>2 DEF Settles, IInv, TypeOK
      <4> QED
        BY <4>1 DEF Written, Snapshot
    <3> QED
      BY <3>1, <3>2
  <2>2. CASE ~("persist" \in go[g].todo /\ Target(g) = r)
    <3>1. disk'[r] = disk[r]
      BY <1>0, <1>3, <2>2 DEF Settles, IInv, TypeOK
    <3>2. \A h \in Goroutines : go[h].rec = r /\ "persist" \in go[h].todo
                                  => go'[h].rec = r /\ "persist" \in go'[h].todo
      BY <1>3, <2>2 DEF Settles, Alone, Target
    <3>3. rec'[r] = rec[r]
      BY <1>3 DEF Settles
    <3> QED
      BY <1>0, <3>1, <3>2, <3>3, WrittenPasses DEF DiskInv
  <2> QED
    BY <2>1, <2>2
<1>4. ASSUME NEW to \in States, Transits(g, to) PROVE Written(r)'
  <2>1. CASE Target(g) = r
    BY <1>4, <2>1, WrittenOwed DEF Transits, Moves, Aftermath, Target
  <2>2. CASE Target(g) # r
    BY <1>0, <1>4, <2>2, WrittenPasses DEF DiskInv, Transits, Moves
  <2> QED
    BY <2>1, <2>2
<1> QED
  BY <1>1, <1>2, <1>3, <1>4

LEMMA DiskSpawner ==
  ASSUME IInv, KInv, DiskInv, NEW g \in Spawners,
         Records(g) \/ \E n \in Runs : Forks(g, n) \/ Watches(g, n)
  PROVE  DiskInv'
<1> SUFFICES ASSUME NEW r \in registered' PROVE Written(r)'
  BY DEF DiskInv
<1>0. r \in registered /\ r \in Calls /\ g \in Goroutines
  BY SpawnerNames DEF Records, Forks, Watches, IInv, TypeOK
<1>1. CASE Records(g)
  <2>1. CASE Target(g) = r
    BY <1>0, <1>1, <2>1, WrittenOwed DEF Records, Moves, Target
  <2>2. CASE Target(g) # r
    BY <1>0, <1>1, <2>2, WrittenPasses DEF DiskInv, Records, Moves
  <2> QED
    BY <2>1, <2>2
<1>2. CASE \E n \in Runs : Forks(g, n)
  BY <1>0, <1>2, WrittenPasses DEF DiskInv, Forks, Alone
<1>3. ASSUME NEW n \in Runs, Watches(g, n) PROVE Written(r)'
  <2>1. go[Mon(n)].pc = "idle"
    BY <1>3, SpawnerNames DEF Watches, IInv, Forked, LaunchingIdle, Launching
  <2>2. go[Mon(n)].todo = {} /\ go[Probe(n)].todo = {} /\ go[g].todo = {}
    BY <1>3, <2>1, HelperNames DEF KInv, Helping, IdleFree, Watches
  <2> QED
    BY <1>0, <1>3, <2>2, WrittenPasses DEF DiskInv, Watches
<1> QED
  BY <1>1, <1>2, <1>3

LEMMA DiskHelper ==
  ASSUME IInv, KInv, DiskInv, NEW n \in Runs, Schedules(n) \/ Decides(n) \/ Resumes(n)
  PROVE  DiskInv'
<1> SUFFICES ASSUME NEW r \in registered' PROVE Written(r)'
  BY DEF DiskInv
<1>0. r \in registered /\ r \in Calls
  BY DEF Schedules, Decides, Resumes, Counts, IInv, TypeOK
<1>1. CASE Decides(n) \/ Resumes(n)
  BY <1>0, <1>1, WrittenPasses DEF DiskInv, Decides, Resumes, Counts, Moves
<1>2. CASE Schedules(n)
  <2>1. go[Timer(n)].todo = {} /\ go[Mon(n)].todo = {}
    BY <1>2, HelperNames DEF Schedules, KInv, Helping, IdleFree
  <2> QED
    BY <1>0, <1>2, <2>1, WrittenPasses DEF DiskInv, Schedules
<1> QED
  BY <1>1, <1>2

LEMMA DiskCall ==
  ASSUME IInv, KInv, DiskInv, NEW c \in Calls,
         Arrives(c) \/ Creates(c) \/ Forgets(c) \/ Unlinks(c)
  PROVE  DiskInv'
<1> SUFFICES ASSUME NEW r \in registered' PROVE Written(r)'
  BY DEF DiskInv
<1>0. c \in Goroutines
  BY HelperNames
<1>1. CASE Arrives(c) \/ Forgets(c)
  <2>1. r \in registered /\ r \in Calls
    BY <1>1 DEF Arrives, Forgets, IInv, TypeOK
  <2> QED
    BY <1>0, <1>1, <2>1, WrittenPasses
    DEF DiskInv, Arrives, Forgets, Alone, Moves, KInv, IdleFree
<1>2. CASE Creates(c)
  <2>1. CASE r = c
    BY <1>2, <2>1 DEF Creates, KInv, Suited, Suits, Unknown, Unmade, Written
  <2>2. CASE r # c
    BY <1>2, <2>2, WrittenPasses DEF DiskInv, Creates, Alone
  <2> QED
    BY <2>1, <2>2
<1>3. CASE Unlinks(c)
  <2>1. r \in registered /\ r \in Calls
    BY <1>3 DEF Unlinks, IInv, TypeOK
  <2>2. CASE Target(c) = r
    BY <1>3, <2>2 DEF Unlinks, KInv, Suited, Suits, Written, Target
  <2>3. CASE Target(c) # r
    <3>1. disk'[r] = disk[r]
      BY <1>3, <2>1, <2>3 DEF Unlinks, IInv, TypeOK
    <3> QED
      BY <1>3, <2>1, <3>1, WrittenPasses DEF DiskInv, Unlinks, Moves
  <2> QED
    BY <2>2, <2>3
<1> QED
  BY <1>1, <1>2, <1>3

LEMMA DiskRest == ASSUME IInv, DiskInv, Rests \/ FinishClose PROVE DiskInv'
<1> SUFFICES ASSUME NEW r \in registered' PROVE Written(r)'
  BY DEF DiskInv
<1>1. r \in registered /\ r \in Calls /\ UNCHANGED <<rec, go>>
  BY DEF Rests, FinishClose, IInv, TypeOK
<1>2. CASE FinishClose /\ ~rec[r].removed
  BY <1>1, <1>2 DEF FinishClose, Persistable, Written, Snapshot
<1>3. CASE Rests \/ rec[r].removed
  BY <1>1, <1>3, WrittenPasses DEF DiskInv, Rests, Written
<1> QED
  BY <1>2, <1>3

THEOREM DiskStep == IInv /\ KInv /\ DiskInv /\ [Next]_vars => DiskInv'
<1> SUFFICES ASSUME IInv, KInv, DiskInv, [Next]_vars PROVE DiskInv'
  OBVIOUS
<1>1. StepKind
  BY StepKinds
<1> QED
  BY <1>1, DiskGoroutine, DiskSpawner, DiskHelper, DiskCall, DiskRest DEF StepKind

-----------------------------------------------------------------------------
(* One worker for one record, and no more than one process.  Whoever is working *)
(* for a record that has a process is forking it, recording it or waiting for   *)
(* its end.                                                                     *)

Working(g, r) == go[g].rec = r /\ go[g].pc \in (IF g \in Calls THEN Launch ELSE Turn)
Tied(g, n) == go[g].run = n /\ go[g].pc \in {"record", "watch", "wait"}
Alive(n, r) == proc[n].os = "alive" /\ proc[n].owner = r
Recording(g, n) == go[g].run = n /\ go[g].pc = "record"

OneWorker(r) ==
  /\ \A g, h \in Goroutines : Working(g, r) /\ Working(h, r) => g = h
  /\ \A n \in Runs, g \in Goroutines : Alive(n, r) /\ Working(g, r) => Tied(g, n)
  /\ \A m, n \in Runs : Alive(m, r) /\ Alive(n, r) => m = n
  /\ \A n \in Runs : Alive(n, r) => rec[r].cur = n \/ \E g \in Goroutines : Recording(g, n)

\* Whoever is on the way to an automatic restart has one left.
Within(r) ==
  /\ rec[r].restarts <= MaxRestarts
  /\ \A h \in Helpers :
       go[h].rec = r /\ go[h].pc \in Charged => rec[r].restarts < MaxRestarts

Single(r) == OneWorker(r) /\ Within(r)
Chain == \A r \in Calls : Restarted(r) \/ Single(r)

\* What a step must leave alone for a record to stay single.
LEMMA SingleFrame ==
  ASSUME NEW r, Single(r),
         \A g \in Goroutines : Working(g, r)' => Working(g, r),
         \A n \in Runs : Alive(n, r)' => Alive(n, r),
         \A g \in Goroutines, n \in Runs :
           Alive(n, r)' /\ Working(g, r)' /\ Tied(g, n) => Tied(g, n)',
         \A g \in Goroutines, n \in Runs :
           Alive(n, r)' /\ Recording(g, n) => Recording(g, n)',
         rec'[r].cur = rec[r].cur, rec'[r].restarts = rec[r].restarts,
         \A h \in Helpers : go'[h].rec = r /\ go'[h].pc \in Charged
                              => go[h].rec = r /\ go[h].pc \in Charged
  PROVE  Single(r)'
<1>1. OneWorker(r)'
  BY DEF Single, OneWorker
<1>2. Within(r)'
  BY DEF Single, Within
<1> QED
  BY <1>1, <1>2 DEF Single

\* A move of one goroutine.
LEMMA WorkerMoves ==
  ASSUME IInv, IInv', KInv, NEW g \in Goroutines, Moves(g), SameRuns,
         go[g].pc \notin {"record", "watch"},
         go'[g].pc \notin {"record", "watch", "wait"},
         g \in Calls => (go'[g].pc \in Launch => go[g].pc \in Launch \/ Kind(g) = "restart"),
         g \notin Calls => (go'[g].pc \in Turn => go[g].pc \in Turn),
         go[g].pc = "wait" => \E n \in Runs : g = Mon(n) /\ go'[g].pc \in {"exit", "done"},
         NEW r \in Calls, ~Restarted(r)
  PROVE  /\ \A h \in Goroutines : Working(h, r)' => Working(h, r)
         /\ \A n \in Runs : Alive(n, r)' => Alive(n, r)
         /\ \A h \in Goroutines, n \in Runs :
              Alive(n, r)' /\ Working(h, r)' /\ Tied(h, n) => Tied(h, n)'
         /\ \A h \in Goroutines, n \in Runs : Recording(h, n) => Recording(h, n)'
<1>1. \A h \in Goroutines : Working(h, r)' => Working(h, r)
  <2>1. go'[g].rec = go[g].rec /\ \A h \in Goroutines : h # g => go'[h] = go[h]
    BY DEF Moves
  <2>2. g \in Calls /\ go[g].rec = r => Kind(g) # "restart"
    BY DEF Restarted, Kind
  <2> QED
    BY <2>1, <2>2 DEF Working
<1>2. \A n \in Runs : Alive(n, r)' => Alive(n, r)
  BY DEF SameRuns, Alive
<1>3. ASSUME NEW h \in Goroutines, NEW n \in Runs,
             Alive(n, r)', Working(h, r)', Tied(h, n)
      PROVE  Tied(h, n)'
  <2>1. CASE h = g
    <3>1. go[g].pc = "wait" /\ go[g].run = n
      BY <1>3, <2>1 DEF Tied
    <3>2. PICK m \in Runs : g = Mon(m) /\ go'[g].pc \in {"exit", "done"}
      BY <3>1
    <3>3. m = n
      BY <3>1, <3>2 DEF KInv, Helping
    <3>4. go'[g].pc = "exit" => Exited(n)'
      BY <3>2, <3>3 DEF IInv, Forked, ExitIsReal
    <3>5. ~Exited(n)'
      BY <1>3 DEF Alive, Exited
    <3>6. go'[g].pc # "done"
      BY <1>3, <2>1 DEF Working, Launch, Turn
    <3> QED
      BY <3>2, <3>4, <3>5, <3>6
  <2>2. CASE h # g
    BY <1>3, <2>2 DEF Tied, Moves
  <2> QED
    BY <2>1, <2>2
<1>4. \A h \in Goroutines, n \in Runs : Recording(h, n) => Recording(h, n)'
  BY DEF Recording, Moves
<1> QED
  BY <1>1, <1>2, <1>3, <1>4

LEMMA SinglePasses ==
  ASSUME IInv, IInv', KInv, NEW g \in Goroutines,
         Passes(g) \/ \E to \in States : Transits(g, to),
         NEW r \in Calls, ~Restarted(r), Single(r)
  PROVE  Single(r)'
<1>1. Moves(g) /\ Hops(g) /\ SameRuns
      /\ rec'[r].cur = rec[r].cur /\ rec'[r].restarts = rec[r].restarts
  BY DEF Passes, Transits, SameRecords, SameRuns
<1>2. /\ \A h \in Goroutines : Working(h, r)' => Working(h, r)
      /\ \A n \in Runs : Alive(n, r)' => Alive(n, r)
      /\ \A h \in Goroutines, n \in Runs :
           Alive(n, r)' /\ Working(h, r)' /\ Tied(h, n) => Tied(h, n)'
      /\ \A h \in Goroutines, n \in Runs : Recording(h, n) => Recording(h, n)'
  BY <1>1, WorkerMoves DEF Hops
<1>3. \A h \in Helpers : go'[h].rec = r /\ go'[h].pc \in Charged
                            => go[h].rec = r /\ go[h].pc \in Charged
  BY <1>1, SupervisorAssumption DEF Moves, Hops, Goroutines
<1> QED
  BY <1>1, <1>2, <1>3, SingleFrame

LEMMA SingleLeaving ==
  ASSUME IInv, IInv', KInv, NEW c \in Calls, Forgets(c) \/ Unlinks(c),
         NEW r \in Calls, ~Restarted(r), Single(r)
  PROVE  Single(r)'
<1>1. /\ c \in Goroutines /\ Moves(c) /\ UNCHANGED <<rec, proc>>
      /\ go[c].pc \in {"forget", "unlink"} /\ go'[c].pc \in {"unlink", "done"}
  BY HelperNames DEF Forgets, Unlinks
<1>2. /\ \A h \in Goroutines : Working(h, r)' => Working(h, r)
      /\ \A n \in Runs : Alive(n, r)' => Alive(n, r)
      /\ \A h \in Goroutines, n \in Runs :
           Alive(n, r)' /\ Working(h, r)' /\ Tied(h, n) => Tied(h, n)'
      /\ \A h \in Goroutines, n \in Runs : Recording(h, n) => Recording(h, n)'
  BY <1>1, NothingWritten, WorkerMoves DEF Launch
<1>3. \A h \in Helpers : go'[h] = go[h]
  BY <1>1, SupervisorAssumption DEF Moves, Goroutines
<1> QED
  BY <1>1, <1>2, <1>3, SingleFrame

LEMMA SingleCounts ==
  ASSUME IInv, IInv', KInv, NEW n \in Runs, Decides(n) \/ Resumes(n),
         NEW r \in Calls, ~Restarted(r), Single(r)
  PROVE  Single(r)'
<1>1. PICK g \in {Mon(n), Timer(n)} :
        /\ Moves(g)
        /\ \/ /\ go[g].pc = "policy" /\ go'[g].pc \in {"done", "giveup", "acquire"}
              /\ \E count \in {0, rec[Target(g)].restarts} :
                   Counts(g, count) /\ (go'[g].pc = "acquire" => count < MaxRestarts)
           \/ /\ go[g].pc = "backoff" /\ go'[g].pc = "starting"
              /\ Counts(g, rec[Target(g)].restarts + 1)
  BY DEF Decides, Resumes
<1>2. g \in Goroutines \ Calls /\ g \in Helpers
  <2>1. Mon(n) \in Helpers /\ Timer(n) \in Helpers
    BY DEF Mon, Timer, Helpers
  <2> QED
    BY <2>1, HelperNames
<1>3. SameRuns /\ rec'[r].cur = rec[r].cur
      /\ (r # Target(g) => rec'[r].restarts = rec[r].restarts)
  BY <1>1 DEF Counts, SameRuns
<1>4. /\ \A h \in Goroutines : Working(h, r)' => Working(h, r)
      /\ \A m \in Runs : Alive(m, r)' => Alive(m, r)
      /\ \A h \in Goroutines, m \in Runs :
           Alive(m, r)' /\ Working(h, r)' /\ Tied(h, m) => Tied(h, m)'
      /\ \A h \in Goroutines, m \in Runs : Recording(h, m) => Recording(h, m)'
  BY <1>1, <1>2, <1>3, WorkerMoves DEF Turn
<1>5. \A h \in Helpers : h # g => go'[h] = go[h]
  BY <1>1 DEF Moves, Goroutines
<1>6. CASE r # Target(g)
  <2>1. \A h \in Helpers : go'[h].rec = r => h # g
    BY <1>1, <1>6 DEF Moves, Target
  <2> QED
    BY <1>3, <1>4, <1>5, <1>6, <2>1, SingleFrame
<1>7. CASE r = Target(g)
  <2>1. OneWorker(r)'
    BY <1>3, <1>4 DEF Single, OneWorker
  <2>2. \A h \in Helpers : go[h].rec = r /\ go[h].pc \in Charged => h = g
    <3>1. Working(g, r)
      BY <1>1, <1>2, <1>7 DEF Working, Turn, Target
    <3>2. \A h \in Helpers : go[h].rec = r /\ go[h].pc \in Charged => Working(h, r)
      BY SupervisorAssumption DEF Working, Turn, Charged
    <3> QED
      BY <1>2, <3>1, <3>2 DEF Single, OneWorker, Goroutines
  <2>3. rec[r].restarts \in Nat /\ MaxRestarts \in Nat /\ rec[r].restarts <= MaxRestarts
    BY SupervisorAssumption DEF IInv, TypeOK, Record, Single, Within
  <2>4. CASE go[g].pc = "policy"
    <3>1. PICK count \in {0, rec[r].restarts} :
            Counts(g, count) /\ (go'[g].pc = "acquire" => count < MaxRestarts)
      BY <1>1, <1>7, <2>4
    <3>2. rec'[r].restarts = count /\ count <= MaxRestarts
      BY <1>7, <2>3, <3>1 DEF Counts
    <3>3. go'[g].pc \in {"done", "giveup", "acquire"}
      BY <1>1, <2>4
    <3>4. \A h \in Helpers : go'[h].rec = r /\ go'[h].pc \in Charged => count < MaxRestarts
      BY <1>5, <2>2, <3>1, <3>3 DEF Charged
    <3> QED
      BY <2>1, <3>2, <3>4 DEF Single, Within
  <2>5. CASE go[g].pc = "backoff"
    <3>1. rec[r].restarts < MaxRestarts
      BY <1>2, <1>7, <2>5 DEF Single, Within, Charged, Target
    <3>2. rec'[r].restarts = rec[r].restarts + 1 /\ go'[g].pc = "starting"
      BY <1>1, <1>7, <2>5 DEF Counts
    <3>3. \A h \in Helpers : ~(go'[h].rec = r /\ go'[h].pc \in Charged)
      BY <1>5, <2>2, <3>2 DEF Charged
    <3>4. rec'[r].restarts <= MaxRestarts
      BY <2>3, <3>1, <3>2
    <3> QED
      BY <2>1, <3>3, <3>4 DEF Single, Within
  <2> QED
    BY <1>1, <2>4, <2>5
<1> QED
  BY <1>6, <1>7

LEMMA SingleForks ==
  ASSUME IInv, KInv, NEW g \in Spawners, NEW n \in Runs, Forks(g, n),
         NEW r \in Calls, Single(r)
  PROVE  Single(r)'
<1>1. /\ g \in Goroutines /\ go[g].pc = "spawn" /\ go'[g].pc = "record" /\ go'[g].run = n
      /\ go'[g].rec = go[g].rec /\ proc'[n].owner = go[g].rec
      /\ \A h \in Goroutines : h # g => go'[h] = go[h]
      /\ \A m \in Runs : m # n => proc'[m] = proc[m]
      /\ UNCHANGED rec
  BY SpawnerNames DEF Forks, Alone, Target
<1>2. Within(r)'
  BY <1>1, SupervisorAssumption DEF Single, Within, Charged, Goroutines
<1>3. \A h \in Goroutines : Working(h, r)' => Working(h, r)
  BY <1>1 DEF Working, Launch, Turn
<1>4. CASE go[g].rec = r
  <2>1. Working(g, r)
    BY <1>1, <1>4 DEF Working, Launch, Turn
  <2>2. \A m \in Runs : ~Alive(m, r)
    BY <1>1, <2>1 DEF Single, OneWorker, Tied
  <2>3. \A m \in Runs : Alive(m, r)' => m = n
    BY <1>1, <2>2 DEF Alive
  <2>4. \A h \in Goroutines : Working(h, r)' => h = g
    BY <1>1, <1>3, <2>1 DEF Single, OneWorker
  <2>5. Tied(g, n)' /\ Recording(g, n)'
    BY <1>1 DEF Tied, Recording
  <2>6. OneWorker(r)'
    BY <1>1, <2>3, <2>4, <2>5 DEF OneWorker
  <2> QED
    BY <1>2, <2>6 DEF Single
<1>5. CASE go[g].rec # r
  <2>1. \A m \in Runs : Alive(m, r)' => Alive(m, r)
    BY <1>1, <1>5 DEF Alive
  <2>2. \A h \in Goroutines, m \in Runs :
          /\ Working(h, r)' /\ Tied(h, m) => Tied(h, m)'
          /\ Recording(h, m) => Recording(h, m)'
    BY <1>1, <1>5 DEF Working, Tied, Recording
  <2>3. \A h \in Helpers : go'[h].rec = r /\ go'[h].pc \in Charged
                              => go[h].rec = r /\ go[h].pc \in Charged
    BY <1>1, SupervisorAssumption DEF Goroutines, Charged
  <2> QED
    BY <1>1, <1>3, <2>1, <2>2, <2>3, SingleFrame
<1> QED
  BY <1>4, <1>5

LEMMA SingleRecords ==
  ASSUME IInv, KInv, NEW g \in Spawners, Records(g), NEW r \in Calls, Single(r)
  PROVE  Single(r)'
<1>1. /\ g \in Goroutines /\ go[g].pc = "record" /\ go'[g].pc = "watch"
      /\ go'[g].rec = go[g].rec /\ go'[g].run = go[g].run
      /\ \A h \in Goroutines : h # g => go'[h] = go[h]
      /\ UNCHANGED proc /\ rec'[r].restarts = rec[r].restarts
      /\ IF go[g].rec = r THEN rec'[r].cur = go[g].run ELSE rec'[r].cur = rec[r].cur
  BY SpawnerNames DEF Records, Moves, Target
<1>2. \A h \in Goroutines : Working(h, r)' => Working(h, r)
  BY <1>1 DEF Working, Launch, Turn
<1>3. \A h \in Goroutines, m \in Runs : Tied(h, m) => Tied(h, m)'
  BY <1>1 DEF Tied
<1>4. \A h \in Helpers : go'[h].rec = r /\ go'[h].pc \in Charged
                            => go[h].rec = r /\ go[h].pc \in Charged
  BY <1>1, SupervisorAssumption DEF Goroutines, Charged
<1>5. \A m \in Runs : Alive(m, r)' <=> Alive(m, r)
  BY <1>1 DEF Alive
<1>6. CASE go[g].rec = r
  <2>1. Working(g, r)
    BY <1>1, <1>6 DEF Working, Launch, Turn
  <2>2. \A m \in Runs : Alive(m, r) => m = go[g].run
    BY <2>1, <1>1 DEF Single, OneWorker, Tied
  <2>3. OneWorker(r)'
    BY <1>1, <1>2, <1>3, <1>5, <1>6, <2>2 DEF Single, OneWorker
  <2>4. Within(r)'
    BY <1>1, <1>4 DEF Single, Within
  <2> QED
    BY <2>3, <2>4 DEF Single
<1>7. CASE go[g].rec # r
  <2>1. \A m \in Runs : Alive(m, r) => ~Recording(g, m)
    BY <1>1, <1>7 DEF Alive, Recording, KInv, Owned, Launching
  <2>2. \A h \in Goroutines, m \in Runs :
          Alive(m, r)' /\ Recording(h, m) => Recording(h, m)'
    BY <1>1, <1>5, <2>1 DEF Recording
  <2> QED
    BY <1>1, <1>2, <1>3, <1>4, <1>5, <1>7, <2>2, SingleFrame
<1> QED
  BY <1>6, <1>7

LEMMA SingleWatches ==
  ASSUME IInv, KInv, NEW g \in Spawners, NEW n \in Runs, Watches(g, n),
         NEW r \in Calls, Single(r)
  PROVE  Single(r)'
<1>0. /\ Mon(n) \in Goroutines /\ Probe(n) \in Goroutines /\ g \in Goroutines
      /\ g # Mon(n) /\ g # Probe(n) /\ Mon(n) # Probe(n)
      /\ Mon(n) \notin Calls /\ Probe(n) \notin Calls
  BY HelperNames, SpawnerNames
<1>1. /\ go[g].pc = "watch" /\ go[g].run = n /\ go'[g].pc \in {"done", "running"}
      /\ go'[Mon(n)].pc = "wait" /\ go'[Mon(n)].rec = go[g].rec /\ go'[Mon(n)].run = n
      /\ \/ go'[Probe(n)] = go[Probe(n)]
         \/ go'[Probe(n)].pc = "probing"
      /\ \A h \in Goroutines : h \notin {g, Mon(n), Probe(n)} => go'[h] = go[h]
      /\ UNCHANGED <<rec, proc>>
  BY DEF Watches, Helper, Target
<1>2. go[Mon(n)].pc = "idle" /\ go[Probe(n)].pc = "idle"
  BY <1>0, <1>1 DEF IInv, Forked, LaunchingIdle, Launching, KInv, Helping
<1>3. \A h \in Goroutines : Working(h, r)' => Working(h, r) \/ (h = Mon(n) /\ go[g].rec = r)
  BY <1>0, <1>1, <1>2 DEF Working, Launch, Turn
<1>4. \A h \in Goroutines, m \in Runs : Working(h, r)' /\ Tied(h, m) => Tied(h, m)'
  <2>1. ~Working(g, r)' /\ \A m \in Runs : ~Tied(Mon(n), m) /\ ~Tied(Probe(n), m)
    BY <1>1, <1>2 DEF Working, Launch, Turn, Tied
  <2> QED
    BY <1>1, <2>1 DEF Tied
<1>5. \A h \in Goroutines, m \in Runs : Recording(h, m) => Recording(h, m)'
  BY <1>1, <1>2 DEF Recording
<1>6. \A h \in Helpers : go'[h].rec = r /\ go'[h].pc \in Charged
                            => go[h].rec = r /\ go[h].pc \in Charged
  <2>1. \A h \in Goroutines : go'[h].rec = r /\ go'[h].pc \in Charged
                                 => go[h].rec = r /\ go[h].pc \in Charged
    BY <1>1 DEF Charged
  <2> QED
    BY <2>1 DEF Goroutines
<1>7. \A m \in Runs : Alive(m, r)' <=> Alive(m, r)
  BY <1>1 DEF Alive
<1>8. CASE go[g].rec = r
  <2>1. Working(g, r) /\ ~Working(g, r)'
    BY <1>1, <1>8 DEF Working, Launch, Turn
  <2>2. \A h \in Goroutines : Working(h, r)' => h = Mon(n)
    BY <1>0, <1>3, <2>1 DEF Single, OneWorker
  <2>3. \A m \in Runs : Alive(m, r) => m = n
    BY <1>0, <1>1, <2>1 DEF Single, OneWorker, Tied
  <2>4. Tied(Mon(n), n)'
    BY <1>1 DEF Tied
  <2>5. OneWorker(r)'
    BY <1>1, <1>5, <1>7, <2>2, <2>3, <2>4 DEF Single, OneWorker
  <2>6. Within(r)'
    BY <1>1, <1>6 DEF Single, Within
  <2> QED
    BY <2>5, <2>6 DEF Single
<1>9. CASE go[g].rec # r
  BY <1>1, <1>3, <1>4, <1>5, <1>6, <1>7, <1>9, SingleFrame
<1> QED
  BY <1>8, <1>9

LEMMA SingleSchedules ==
  ASSUME IInv, KInv, NEW n \in Runs, Schedules(n), NEW r \in Calls, Single(r)
  PROVE  Single(r)'
<1>0. /\ Mon(n) \in Goroutines /\ Timer(n) \in Goroutines /\ Mon(n) # Timer(n)
      /\ Mon(n) \notin Calls /\ Timer(n) \notin Calls
      /\ Mon(n) \in Helpers /\ Timer(n) \in Helpers
  BY HelperNames DEF Goroutines
<1>1. /\ go[Mon(n)].pc = "schedule" /\ go'[Mon(n)].pc = "done"
      /\ go'[Mon(n)].rec = go[Mon(n)].rec
      /\ go'[Timer(n)].pc = "backoff" /\ go'[Timer(n)].rec = go[Mon(n)].rec
      /\ \A h \in Goroutines : h \notin {Mon(n), Timer(n)} => go'[h] = go[h]
      /\ UNCHANGED <<rec, proc>>
  BY DEF Schedules
<1>2. go[Timer(n)].pc = "idle"
  BY <1>1 DEF KInv, Helping
<1>3. \A h \in Goroutines :
        Working(h, r)' => \/ h \notin {Mon(n), Timer(n)} /\ Working(h, r)
                          \/ h = Timer(n) /\ go[Mon(n)].rec = r
  BY <1>0, <1>1 DEF Working, Launch, Turn
<1>4. \A m \in Runs : Alive(m, r)' <=> Alive(m, r)
  BY <1>1 DEF Alive
<1>5. CASE go[Mon(n)].rec = r
  <2>1. Working(Mon(n), r)
    BY <1>0, <1>1, <1>5 DEF Working, Turn
  <2>2. \A m \in Runs : ~Alive(m, r)
    BY <1>0, <1>1, <2>1 DEF Single, OneWorker, Tied
  <2>3. \A h \in Goroutines : Working(h, r)' => h = Timer(n)
    BY <1>0, <1>3, <2>1 DEF Single, OneWorker
  <2>4. OneWorker(r)'
    BY <1>4, <2>2, <2>3 DEF OneWorker
  <2>5. rec[r].restarts < MaxRestarts
    BY <1>0, <1>1, <1>5 DEF Single, Within, Charged
  <2>6. Within(r)'
    BY <1>1, <2>5 DEF Single, Within
  <2> QED
    BY <2>4, <2>6 DEF Single
<1>6. CASE go[Mon(n)].rec # r
  <2>1. \A h \in Goroutines : go'[h].rec = r => go'[h] = go[h]
    BY <1>0, <1>1, <1>6
  <2>2. \A h \in Goroutines, m \in Runs : Recording(h, m) => Recording(h, m)'
    BY <1>1, <1>2 DEF Recording
  <2>3. \A h \in Goroutines, m \in Runs : Working(h, r)' /\ Tied(h, m) => Tied(h, m)'
    BY <2>1 DEF Working, Tied
  <2>4. \A h \in Helpers : go'[h].rec = r /\ go'[h].pc \in Charged
                              => go[h].rec = r /\ go[h].pc \in Charged
    BY <2>1 DEF Goroutines
  <2> QED
    BY <1>1, <1>3, <1>4, <1>6, <2>2, <2>3, <2>4, SingleFrame
<1> QED
  BY <1>5, <1>6

LEMMA SingleArrives ==
  ASSUME IInv, KInv, NEW c \in Calls, Arrives(c), NEW r \in Calls, Single(r)
  PROVE  Single(r)'
<1>1. /\ c \in Goroutines /\ go[c].pc = "idle"
      /\ go'[c].pc \in {"done", "acquire", "disable", "term", "signal", "suppress", "inspect"}
      /\ \A h \in Goroutines : h # c => go'[h] = go[h]
      /\ rec'[r].cur = rec[r].cur /\ rec'[r].restarts = rec[r].restarts /\ UNCHANGED proc
  BY HelperNames DEF Arrives, Alone
<1>2. \A h \in Goroutines : Working(h, r)' => h # c
  BY <1>1 DEF Working, Launch
<1>3. \A h \in Helpers : h # c /\ h \in Goroutines
  BY SupervisorAssumption DEF Goroutines
<1>4. /\ \A h \in Goroutines : Working(h, r)' => Working(h, r)
      /\ \A n \in Runs : Alive(n, r)' => Alive(n, r)
      /\ \A h \in Goroutines, n \in Runs :
           Alive(n, r)' /\ Working(h, r)' /\ Tied(h, n) => Tied(h, n)'
      /\ \A h \in Goroutines, n \in Runs : Recording(h, n) => Recording(h, n)'
  BY <1>1, <1>2 DEF Working, Alive, Tied, Recording
<1> QED
  BY <1>1, <1>3, <1>4, SingleFrame

LEMMA SingleCreates ==
  ASSUME IInv, KInv, NEW c \in Calls, Creates(c), NEW r \in Calls, Single(r)
  PROVE  Single(r)'
<1>1. /\ c \in Goroutines /\ go[c].pc = "create" /\ go'[c].pc = "starting"
      /\ go'[c].rec = c /\ \A h \in Goroutines : h # c => go'[h] = go[h]
      /\ UNCHANGED <<rec, proc>>
  BY HelperNames DEF Creates, Alone
<1>2. /\ \A h \in Goroutines : go[h].rec = c => h = c
      /\ \A n \in Runs : proc[n].owner # c
  BY <1>1 DEF KInv, Suited, Suits, Unknown, Unmade
<1>3. \A h \in Helpers : h # c /\ h \in Goroutines
  BY SupervisorAssumption DEF Goroutines
<1>4. CASE r = c
  <2>1. \A h \in Goroutines : go'[h].rec = r => h = c
    BY <1>1, <1>2, <1>4
  <2>2. \A n \in Runs : ~Alive(n, r)'
    BY <1>1, <1>2, <1>4 DEF Alive
  <2>3. OneWorker(r)'
    BY <2>1, <2>2 DEF OneWorker, Working
  <2>4. Within(r)'
    BY <1>1, <1>3, <2>1 DEF Single, Within
  <2> QED
    BY <2>3, <2>4 DEF Single
<1>5. CASE r # c
  <2>1. \A h \in Goroutines : Working(h, r)' => h # c
    BY <1>1, <1>5 DEF Working
  <2>2. /\ \A h \in Goroutines : Working(h, r)' => Working(h, r)
        /\ \A n \in Runs : Alive(n, r)' => Alive(n, r)
        /\ \A h \in Goroutines, n \in Runs :
             Alive(n, r)' /\ Working(h, r)' /\ Tied(h, n) => Tied(h, n)'
        /\ \A h \in Goroutines, n \in Runs : Recording(h, n) => Recording(h, n)'
    BY <1>1, <2>1 DEF Working, Alive, Tied, Recording
  <2> QED
    BY <1>1, <1>3, <2>2, SingleFrame
<1> QED
  BY <1>4, <1>5

LEMMA SingleStill ==
  ASSUME IInv, (\E g \in Goroutines : Drops(g) \/ Settles(g)) \/ Rests \/ FinishClose,
         NEW r \in Calls, Single(r)
  PROVE  Single(r)'
<1>1. \A h \in Goroutines :
        go'[h].pc = go[h].pc /\ go'[h].rec = go[h].rec /\ go'[h].run = go[h].run
  BY DEF Drops, Settles, Alone, Rests, FinishClose
<1>2. UNCHANGED rec /\ \A n \in Runs : Alive(n, r)' => Alive(n, r)
  BY DEF Drops, Settles, Rests, FinishClose, SameRuns, Alive
<1>3. /\ \A h \in Goroutines : Working(h, r)' => Working(h, r)
      /\ \A h \in Goroutines, n \in Runs : Tied(h, n) => Tied(h, n)'
      /\ \A h \in Goroutines, n \in Runs : Recording(h, n) => Recording(h, n)'
      /\ \A h \in Helpers : h \in Goroutines
  BY <1>1 DEF Working, Tied, Recording, Goroutines
<1> QED
  BY <1>1, <1>2, <1>3, SingleFrame

\* A request to restart a record is not forgotten.
LEMMA RequestsStay ==
  ASSUME KInv, StepKind, NEW c \in Calls, Kind(c) = "restart"
  PROVE  Kind(c)' = "restart" /\ go'[c].rec = go[c].rec
<1>0. c \in Goroutines /\ go[c].pc # "idle"
      /\ \A n \in Runs : c \notin {Mon(n), Timer(n), Probe(n)}
  BY HelperNames DEF KInv, IdleFree
<1>1. ASSUME NEW g \in Goroutines,
             \/ Passes(g) \/ Drops(g) \/ Settles(g) \/ \E to \in States : Transits(g, to)
      PROVE  Kind(c)' = "restart" /\ go'[c].rec = go[c].rec
  BY <1>0, <1>1 DEF Passes, Drops, Settles, Transits, Moves, Alone, Kind
<1>2. ASSUME NEW g \in Spawners, Records(g) \/ \E n \in Runs : Forks(g, n) \/ Watches(g, n)
      PROVE  Kind(c)' = "restart" /\ go'[c].rec = go[c].rec
  BY <1>0, <1>2 DEF Records, Forks, Watches, Moves, Alone, Kind
<1>3. ASSUME NEW n \in Runs, Schedules(n) \/ Decides(n) \/ Resumes(n)
      PROVE  Kind(c)' = "restart" /\ go'[c].rec = go[c].rec
  BY <1>0, <1>3 DEF Schedules, Decides, Resumes, Moves, Kind
<1>4. ASSUME NEW d \in Calls, Arrives(d) \/ Creates(d) \/ Forgets(d) \/ Unlinks(d)
      PROVE  Kind(c)' = "restart" /\ go'[c].rec = go[c].rec
  <2>1. Creates(d) => Kind(d) = "start"
    BY DEF Creates, KInv, Suited, Suits
  <2> QED
    BY <1>0, <1>4, <2>1 DEF Arrives, Creates, Forgets, Unlinks, Moves, Alone, Kind
<1>5. CASE Rests \/ FinishClose
  BY <1>5 DEF Rests, FinishClose, Kind
<1> QED
  BY <1>1, <1>2, <1>3, <1>4, <1>5 DEF StepKind

LEMMA RestartedStays ==
  ASSUME KInv, StepKind, NEW r, Restarted(r) PROVE Restarted(r)'
<1>1. PICK c \in Calls : Kind(c) = "restart" /\ go[c].rec = r
  BY DEF Restarted, Kind
<1> QED
  BY <1>1, RequestsStay DEF Restarted, Kind

THEOREM ChainStep == IInv /\ KInv /\ Chain /\ [Next]_vars => Chain'
<1> SUFFICES ASSUME IInv, KInv, Chain, [Next]_vars, NEW r \in Calls,
                    ~Restarted(r)'
             PROVE  Single(r)'
  BY DEF Chain
<1>1. IInv' /\ StepKind
  BY NextInv, StepKinds
<1>2. ~Restarted(r) /\ Single(r)
  BY <1>1, RestartedStays DEF Chain
<1>3. ASSUME NEW g \in Goroutines,
             \/ Passes(g) \/ Drops(g) \/ Settles(g) \/ \E to \in States : Transits(g, to)
      PROVE  Single(r)'
  BY <1>1, <1>2, <1>3, SinglePasses, SingleStill
<1>4. ASSUME NEW g \in Spawners, Records(g) \/ \E n \in Runs : Forks(g, n) \/ Watches(g, n)
      PROVE  Single(r)'
  BY <1>2, <1>4, SingleRecords, SingleForks, SingleWatches
<1>5. ASSUME NEW n \in Runs, Schedules(n) \/ Decides(n) \/ Resumes(n) PROVE Single(r)'
  BY <1>1, <1>2, <1>5, SingleSchedules, SingleCounts
<1>6. ASSUME NEW c \in Calls, Arrives(c) \/ Creates(c) \/ Forgets(c) \/ Unlinks(c)
      PROVE  Single(r)'
  BY <1>1, <1>2, <1>6, SingleArrives, SingleCreates, SingleLeaving
<1>7. CASE Rests \/ FinishClose
  BY <1>2, <1>7, SingleStill
<1> QED
  BY <1>1, <1>3, <1>4, <1>5, <1>6, <1>7 DEF StepKind

LEMMA InitChain == Init => Chain /\ DiskInv
<1> SUFFICES ASSUME Init PROVE Chain /\ DiskInv
  OBVIOUS
<1>1. DiskInv
  BY DEF Init, DiskInv
<1>2. ASSUME NEW r \in Calls PROVE Single(r)
  <2>1. \A g \in Goroutines : ~Working(g, r)
    BY DEF Init, Working, Launch, Turn
  <2>2. \A n \in Runs : ~Alive(n, r)
    BY DEF Init, Alive
  <2>3. Within(r)
    BY SupervisorAssumption DEF Init, Within, Charged, Goroutines
  <2> QED
    BY <2>1, <2>2, <2>3 DEF Single, OneWorker
<1> QED
  BY <1>1, <1>2 DEF Chain

\* The four invariants together, for every behaviour.
Sound == IInv /\ KInv /\ DiskInv /\ Chain

THEOREM AlwaysSound == Spec => []Sound
<1>1. Init => Sound
  BY InitInv, InitKnown, InitChain DEF Sound
<1>2. Sound /\ [Next]_vars => Sound'
  BY NextInv, KnownStep, DiskStep, ChainStep DEF Sound
<1> QED
  BY <1>1, <1>2, PTL DEF Spec

\* A record's earlier process has ended when the next one is forked: the policy,
\* the timer, a failed fork and the removal of a record leave it one process.
THEOREM PolicyRunsOnce == Spec => []OnePolicyRun
<1>1. Sound => OnePolicyRun
  <2> SUFFICES ASSUME Sound, NEW m \in Runs, NEW n \in Runs,
                      proc[m].os = "alive", proc[n].os = "alive",
                      proc[m].owner = proc[n].owner, ~Restarted(proc[m].owner)
               PROVE  m = n
    BY DEF OnePolicyRun
  <2>1. proc[m].owner \in Calls
    BY DEF Sound, KInv, Owned
  <2> QED
    BY <2>1 DEF Sound, Chain, Single, OneWorker, Alive
<1> QED
  BY <1>1, AlwaysSound, PTL

\* The automatic restarts of a record stay within max_restarts.
THEOREM BudgetAlwaysKept == Spec => []BudgetKept
<1>1. Sound => BudgetKept
  BY DEF Sound, BudgetKept, Chain, Single, Within
<1> QED
  BY <1>1, AlwaysSound, PTL

\* A process that is running is one the next agent can find: the record on disk
\* names it, and says what the record in memory says.
THEOREM DiskAlwaysNamesRun == Spec => []DiskNamesRun
<1>1. Sound => DiskNamesRun
  <2> SUFFICES ASSUME Sound, NEW r \in registered, ~rec[r].removed,
                      rec[r].state # "UNSPECIFIED", ~Owes("persist", r)
               PROVE  /\ disk[r] = Snapshot(r)
                      /\ \A n \in Runs :
                           proc[n].os = "alive" /\ proc[n].owner = r =>
                             \/ disk[r].cur = n \/ Restarted(r)
                             \/ \E g \in Goroutines : go[g].run = n /\ go[g].pc = "record"
    BY DEF DiskNamesRun
  <2>1. disk[r] = Snapshot(r) /\ disk[r].cur = rec[r].cur
    BY DEF Sound, DiskInv, Written, Snapshot
  <2>2. r \in Calls
    BY DEF Sound, IInv, TypeOK
  <2> QED
    BY <2>1, <2>2 DEF Sound, Chain, Single, OneWorker, Alive, Recording
<1> QED
  BY <1>1, AlwaysSound, PTL

-----------------------------------------------------------------------------
(* Somebody answers for a live record.  While the supervisor is open, a record  *)
(* that waits for its next run has a goroutine about to start it, and a record  *)
(* that claims to run has one that is forking the run, or waits for its end.    *)

Resuming == {"schedule", "backoff", "cancel", "starting"}
Attending == {"release", "spawn", "record", "watch", "failed", "wait", "exit"}
Resumed(r) == \E g \in Goroutines : go[g].rec = r /\ go[g].pc \in Resuming
Attended(r) == \E g \in Goroutines : go[g].rec = r /\ go[g].pc \in Attending

Answered(r) ==
  /\ rec[r].state = "RESTARTING" => Resumed(r)
  /\ rec[r].state \in {"STARTING", "RUNNING", "READY"} => Attended(r)

Kept == phase = "open" => \A r \in Calls : Answered(r)

LEMMA AnsweredFrame ==
  ASSUME NEW r, Answered(r), rec'[r].state = rec[r].state,
         rec[r].state = "RESTARTING" /\ Resumed(r) => Resumed(r)',
         rec[r].state \in {"STARTING", "RUNNING", "READY"} /\ Attended(r) => Attended(r)'
  PROVE  Answered(r)'
BY DEF Answered

LEMMA AnsweredPasses ==
  ASSUME IInv, KInv, NEW g \in Goroutines, Passes(g), phase' = "open",
         NEW r \in Calls, Answered(r)
  PROVE  Answered(r)'
<1>1. /\ go'[g].rec = go[g].rec /\ \A h \in Goroutines : h # g => go'[h] = go[h]
      /\ rec'[r].state = rec[r].state /\ phase = "open"
  BY DEF Passes, Moves, SameRecords
<1>2. CASE go[g].rec # r
  <2>1. \A h \in Goroutines : go[h].rec = r => go'[h] = go[h]
    BY <1>1, <1>2
  <2> QED
    BY <1>1, <2>1, AnsweredFrame DEF Resumed, Attended
<1>3. CASE go[g].rec = r
  <2>1. go[g].pc \in Resuming /\ rec[r].state = "RESTARTING" => go'[g].pc \in Resuming
    BY <1>1, <1>3 DEF Passes, Reasons, Resuming, Accepts, CanTransition, Transitions,
       States, Target
  <2>2. go[g].pc \in Attending /\ rec[r].state \in {"STARTING", "RUNNING", "READY"}
          => go'[g].pc \in Attending
    BY <1>1, <1>3 DEF Passes, Hops, Reasons, Attending, Accepts, CanTransition,
       Transitions, States, Target
  <2> QED
    BY <1>1, <2>1, <2>2, AnsweredFrame DEF Resumed, Attended
<1> QED
  BY <1>2, <1>3

LEMMA AnsweredTransits ==
  ASSUME IInv, KInv, NEW g \in Goroutines, NEW to \in States, Transits(g, to),
         NEW r \in Calls, Answered(r)
  PROVE  Answered(r)'
<1>1. /\ go'[g].rec = go[g].rec /\ \A h \in Goroutines : h # g => go'[h] = go[h]
      /\ (go[g].rec # r => rec'[r].state = rec[r].state)
      /\ (go[g].rec = r => rec'[r].state = to)
  BY DEF Transits, Moves, Target
<1>2. CASE go[g].rec # r
  <2>1. \A h \in Goroutines : go[h].rec = r => go'[h] = go[h]
    BY <1>1, <1>2
  <2> QED
    BY <1>1, <1>2, <2>1, AnsweredFrame DEF Resumed, Attended
<1>3. CASE go[g].rec = r
  <2>1. /\ to = "RESTARTING" => go'[g].pc \in Resuming
        /\ to = "STARTING" => go'[g].pc \in Attending
        /\ to \in {"RUNNING", "READY"} => go[g].pc \in {"running", "passed"}
        /\ to \in {"RESTARTING", "STARTING", "RUNNING", "READY", "EXITED", "CRASHED"}
    BY DEF Transits, Paths, Resuming, Attending
  <2>2. to \in {"RUNNING", "READY"} => rec[r].state \in {"STARTING", "RUNNING", "READY"}
    BY <1>3 DEF Transits, Accepts, CanTransition, Transitions, States, Target, IInv, TypeOK,
       Record
  <2>3. go[g].pc \in {"running", "passed"} => go[g].pc \notin Attending
    BY DEF Attending
  <2>4. CASE to \in {"RUNNING", "READY"}
    BY <1>1, <1>3, <2>1, <2>2, <2>3, <2>4 DEF Answered, Resumed, Attended
  <2>5. CASE to \notin {"RUNNING", "READY"}
    BY <1>1, <1>3, <2>1, <2>5 DEF Answered, Resumed, Attended
  <2> QED
    BY <2>4, <2>5
<1> QED
  BY <1>2, <1>3

LEMMA AnsweredRuns ==
  ASSUME IInv, KInv, NEW g \in Spawners,
         Records(g) \/ \E n \in Runs : Forks(g, n) \/ Watches(g, n),
         NEW r \in Calls, Answered(r)
  PROVE  Answered(r)'
<1>1. g \in Goroutines /\ rec'[r].state = rec[r].state
  BY SpawnerNames DEF Records, Forks, Watches
<1>2. \A h \in Goroutines :
        go[h].pc \in Resuming => go'[h].rec = go[h].rec /\ go'[h].pc = go[h].pc
  <2>1. CASE Records(g) \/ \E n \in Runs : Forks(g, n)
    BY <2>1 DEF Records, Forks, Moves, Alone, Resuming
  <2>2. ASSUME NEW n \in Runs, Watches(g, n)
        PROVE  \A h \in Goroutines :
                 go[h].pc \in Resuming => go'[h].rec = go[h].rec /\ go'[h].pc = go[h].pc
    <3>1. go[Mon(n)].pc = "idle" /\ go[Probe(n)].pc = "idle"
      BY <1>1, <2>2 DEF Watches, IInv, Forked, LaunchingIdle, Launching, KInv, Helping
    <3> QED
      BY <2>2, <3>1 DEF Watches, Resuming
  <2> QED
    BY <2>1, <2>2
<1>3. \A h \in Goroutines :
        go[h].pc \in Attending
          => \E k \in Goroutines : go'[k].rec = go[h].rec /\ go'[k].pc \in Attending
  <2>1. CASE Records(g) \/ \E n \in Runs : Forks(g, n)
    BY <2>1 DEF Records, Forks, Moves, Alone, Attending
  <2>2. ASSUME NEW n \in Runs, Watches(g, n), NEW h \in Goroutines, go[h].pc \in Attending
        PROVE  \E k \in Goroutines : go'[k].rec = go[h].rec /\ go'[k].pc \in Attending
    <3>1. go[Mon(n)].pc = "idle" /\ go[Probe(n)].pc = "idle"
      BY <1>1, <2>2 DEF Watches, IInv, Forked, LaunchingIdle, Launching, KInv, Helping
    <3>2. h # Mon(n) /\ h # Probe(n) /\ Mon(n) \in Goroutines
      BY <2>2, <3>1, HelperNames DEF Attending
    <3>3. go'[Mon(n)].pc = "wait" /\ go'[Mon(n)].rec = go[g].rec
      BY <2>2 DEF Watches, Helper, Target
    <3>4. CASE h = g
      BY <3>2, <3>3, <3>4 DEF Attending
    <3>5. CASE h # g
      BY <2>2, <3>2, <3>5 DEF Watches
    <3> QED
      BY <3>4, <3>5
  <2> QED
    BY <2>1, <2>2
<1> QED
  BY <1>1, <1>2, <1>3, AnsweredFrame DEF Resumed, Attended

LEMMA AnsweredHelpers ==
  ASSUME IInv, KInv, NEW n \in Runs, Schedules(n) \/ Decides(n) \/ Resumes(n),
         NEW r \in Calls, Answered(r)
  PROVE  Answered(r)'
<1>1. Mon(n) \in Goroutines /\ Timer(n) \in Goroutines /\ rec'[r].state = rec[r].state
  BY HelperNames DEF Schedules, Decides, Resumes, Counts
<1>2. CASE Schedules(n)
  <2>1. go[Timer(n)].pc = "idle"
    BY <1>2 DEF Schedules, KInv, Helping
  <2>2. \A h \in Goroutines : go[h].pc \in Attending => go'[h] = go[h]
    BY <1>2, <2>1 DEF Schedules, Attending
  <2>3. \A h \in Goroutines :
          go[h].pc \in Resuming
            => \E k \in Goroutines : go'[k].rec = go[h].rec /\ go'[k].pc \in Resuming
    BY <1>1, <1>2, <2>1 DEF Schedules, Resuming
  <2> QED
    BY <1>1, <2>2, <2>3, AnsweredFrame DEF Resumed, Attended
<1>3. CASE Decides(n) \/ Resumes(n)
  <2>1. PICK g \in {Mon(n), Timer(n)} :
          /\ Moves(g) /\ go[g].pc \in {"policy", "backoff"}
          /\ go[g].pc = "backoff" => go'[g].pc = "starting"
    BY <1>3 DEF Decides, Resumes
  <2>2. \A h \in Goroutines :
          /\ go'[h].rec = go[h].rec
          /\ go[h].pc \in Resuming => go'[h].pc \in Resuming
          /\ go[h].pc \in Attending => go'[h].pc \in Attending
    BY <1>1, <2>1 DEF Moves, Resuming, Attending
  <2> QED
    BY <1>1, <2>2, AnsweredFrame DEF Resumed, Attended
<1> QED
  BY <1>2, <1>3

LEMMA AnsweredCalls ==
  ASSUME IInv, KInv, NEW c \in Calls, Arrives(c) \/ Creates(c) \/ Forgets(c) \/ Unlinks(c),
         NEW r \in Calls, Answered(r)
  PROVE  Answered(r)'
<1>1. /\ c \in Goroutines /\ rec'[r].state = rec[r].state
      /\ go[c].pc \in {"idle", "create", "forget", "unlink"}
      /\ \A h \in Goroutines : h # c => go'[h] = go[h]
  BY HelperNames DEF Arrives, Creates, Forgets, Unlinks, Alone, Moves
<1>2. \A h \in Goroutines : go[h].pc \in Resuming \cup Attending => go'[h] = go[h]
  BY <1>1 DEF Resuming, Attending
<1> QED
  BY <1>1, <1>2, AnsweredFrame DEF Resumed, Attended

\* Only a start adds to s.records, and a shutdown is never taken back.
LEMMA Beginnings ==
  ASSUME StepKind
  PROVE  /\ \A r \in registered' : r \in registered \/ (r \in Calls /\ Creates(r))
         /\ phase' = "open" => phase = "open"
<1>1. ASSUME NEW g \in Goroutines,
             \/ Passes(g) \/ Drops(g) \/ Settles(g) \/ \E to \in States : Transits(g, to)
      PROVE  registered' = registered /\ phase' = phase
  BY <1>1 DEF Passes, Drops, Settles, Transits
<1>2. ASSUME NEW g \in Spawners, Records(g) \/ \E n \in Runs : Forks(g, n) \/ Watches(g, n)
      PROVE  registered' = registered /\ phase' = phase
  BY <1>2 DEF Records, Forks, Watches
<1>3. ASSUME NEW n \in Runs, Schedules(n) \/ Decides(n) \/ Resumes(n)
      PROVE  registered' = registered /\ phase' = phase
  BY <1>3 DEF Schedules, Decides, Resumes, Counts
<1>4. ASSUME NEW c \in Calls, Arrives(c) \/ Creates(c) \/ Forgets(c) \/ Unlinks(c)
      PROVE  /\ registered' \subseteq registered \/ Creates(c)
             /\ registered' \subseteq registered \cup {c} /\ phase' = phase
  BY <1>4 DEF Arrives, Creates, Forgets, Unlinks
<1>5. CASE Rests \/ FinishClose
  BY <1>5 DEF Rests, FinishClose
<1> QED
  BY <1>1, <1>2, <1>3, <1>4, <1>5 DEF StepKind

THEOREM KeptStep == IInv /\ KInv /\ Kept /\ [Next]_vars => Kept'
<1> SUFFICES ASSUME IInv, KInv, Kept, [Next]_vars, phase' = "open", NEW r \in Calls
             PROVE  Answered(r)'
  BY DEF Kept
<1>1. StepKind
  BY StepKinds
<1>2. Answered(r)
  <2>1. phase = "open"
    BY <1>1, Beginnings
  <2> QED
    BY <2>1 DEF Kept
<1>3. ASSUME NEW g \in Goroutines, Passes(g) \/ \E to \in States : Transits(g, to)
      PROVE  Answered(r)'
  BY <1>2, <1>3, AnsweredPasses, AnsweredTransits
<1>4. ASSUME NEW g \in Goroutines, Drops(g) \/ Settles(g) PROVE Answered(r)'
  <2>1. /\ rec' = rec
        /\ \A h \in Goroutines : go'[h].pc = go[h].pc /\ go'[h].rec = go[h].rec
    BY <1>4 DEF Drops, Settles, Alone
  <2> QED
    BY <1>2, <2>1 DEF Answered, Resumed, Attended
<1>5. ASSUME NEW g \in Spawners, Records(g) \/ \E n \in Runs : Forks(g, n) \/ Watches(g, n)
      PROVE  Answered(r)'
  BY <1>2, <1>5, AnsweredRuns
<1>6. ASSUME NEW n \in Runs, Schedules(n) \/ Decides(n) \/ Resumes(n) PROVE Answered(r)'
  BY <1>2, <1>6, AnsweredHelpers
<1>7. ASSUME NEW c \in Calls, Arrives(c) \/ Creates(c) \/ Forgets(c) \/ Unlinks(c)
      PROVE  Answered(r)'
  BY <1>2, <1>7, AnsweredCalls
<1>8. CASE Rests \/ FinishClose
  <2>1. rec' = rec /\ go' = go
    BY <1>8 DEF Rests, FinishClose
  <2> QED
    BY <1>2, <2>1 DEF Answered, Resumed, Attended
<1> QED
  BY <1>1, <1>3, <1>4, <1>5, <1>6, <1>7, <1>8 DEF StepKind

-----------------------------------------------------------------------------
(* Slots.  While the supervisor is open, a live record holds a slot, unless it  *)
(* was asked to restart or its launcher was overtaken.  A slot goes back late,  *)
(* by the goroutine whose transition ended the record's life; what follows says *)
(* where the record's worker can be by then.                                    *)

\* The labels of a worker between two runs, on the way to one, and in one.
Ending == {"policy", "giveup", "acquire", "hold", "restarting"}
Aside == {"schedule", "backoff", "cancel", "starting", "spawn"}
Busy == {"release", "spawn", "record", "watch", "wait", "exit"}
Dead == {"EXITED", "CRASHED"}

\* What the place of a record's worker says of its state.
Placed(r) ==
  /\ rec[r].state # "ORPHANED"
  /\ \A h \in Goroutines :
       Working(h, r) =>
         /\ h \notin Calls /\ go[h].pc \in Ending => rec[r].state \in Dead
         /\ h \notin Calls \/ go[h].pc \in Busy => rec[r].state # "UNSPECIFIED"
         /\ go[h].pc \in Busy => rec[r].state # "RESTARTING"

\* A record's first run.
First(r) ==
  go[r].rec = r =>
    /\ go[r].pc = "starting" => rec[r].state = "UNSPECIFIED" /\ r \in recSlot
    /\ go[r].pc \in {"starting", "release", "spawn"} => \A n \in Runs : proc[n].owner # r
    /\ go[r].pc \in {"release", "spawn", "record", "watch"} /\ ~rec[r].probe
         => rec[r].state = "STARTING"

\* The launcher of a run that has yet to mark it RUNNING, or could not.
Launched(r) ==
  \A g \in Goroutines :
    go[g].rec = r =>
      /\ go[g].pc = "running" =>
           /\ ~rec[r].probe /\ go[g].run \in Runs /\ proc[go[g].run].owner = r
           /\ go[Mon(go[g].run)].pc # "idle"
           /\ \A h \in Goroutines :
                Working(h, r) /\ go[h].pc \in {"wait", "exit"}
                  => rec[r].state \in {"STARTING", "RUNNING"}
      /\ go[g].pc = "failed" =>
           \A h \in Goroutines :
             Working(h, r) => /\ h \notin Calls /\ go[h].pc \in Ending \cup Aside
                              /\ ~rec[r].probe
      /\ go[g].pc \in {"probing", "passed"} => rec[r].probe

\* Who has a slot to give back.
Dropping(r) ==
  \A g \in Goroutines :
    go[g].rec = r /\ "drop" \in go[g].todo =>
      /\ rec[r].state \in Dead
      /\ \A h \in Goroutines :
           Working(h, r) => \/ h = g /\ go[h].pc = "policy"
                            \/ h \notin Calls /\ go[h].pc \in Aside /\ ~rec[r].probe

Slotted(r) ==
  /\ IsLive(rec[r].state) => r \in recSlot
  /\ \A h \in Goroutines :
       h \notin Calls /\ Working(h, r) /\ go[h].pc = "restarting" => r \in recSlot

Slots(r) == Placed(r) /\ First(r) /\ Launched(r) /\ Dropping(r) /\ Slotted(r)

SlotInv ==
  phase = "open" => \A r \in registered : Restarted(r) \/ Overtaken(r) \/ Slots(r)

\* A step that touches nobody who works for r, and takes no slot from it.
LEMMA SlotsFrame ==
  ASSUME NEW r \in Calls, Slots(r), r \in Goroutines,
         rec'[r].state = rec[r].state, rec'[r].probe = rec[r].probe,
         r \in recSlot => r \in recSlot',
         \A n \in Runs : proc'[n].owner = r <=> proc[n].owner = r,
         \A n \in Runs : go[Mon(n)].pc # "idle" => go'[Mon(n)].pc # "idle",
         \A h \in Goroutines :
           go'[h].rec = r =>
             \/ /\ go'[h].pc = go[h].pc /\ go[h].rec = r /\ go'[h].run = go[h].run
                /\ "drop" \in go'[h].todo => "drop" \in go[h].todo
             \/ /\ go'[h].pc \notin {"running", "failed", "probing", "passed"}
                /\ ~Working(h, r)' /\ "drop" \notin go'[h].todo
  PROVE  Slots(r)'
<1>1. \A h \in Goroutines :
        Working(h, r)' => Working(h, r) /\ go'[h].pc = go[h].pc
  BY DEF Working
<1>2. Placed(r)' /\ Slotted(r)'
  BY <1>1 DEF Slots, Placed, Slotted
<1>3. First(r)'
  <2>1. go'[r].rec = r /\ go'[r].pc \in Launch => go'[r].pc = go[r].pc /\ go[r].rec = r
    BY DEF Working
  <2> QED
    BY <2>1 DEF Slots, First, Launch
<1>4. Launched(r)'
  BY <1>1 DEF Slots, Launched
<1>5. Dropping(r)'
  BY <1>1 DEF Slots, Dropping
<1> QED
  BY <1>2, <1>3, <1>4, <1>5 DEF Slots

\* The only call that works for a record nobody asks to restart is its start.
LEMMA WorkerNames ==
  ASSUME KInv, NEW r \in Calls, ~Restarted(r), NEW h \in Calls, Working(h, r)
  PROVE  h = r
BY DEF KInv, Suited, Suits, Working, Restarted, Kind

\* A launcher that has still to mark its run is never followed so closely that
\* the next run is being forked, but for a record that may be overtaken.
LEMMA LaunchersApart ==
  ASSUME IInv, KInv, NEW r \in Calls, ~Overtaken(r), Launched(r),
         NEW g \in Goroutines, go[g].rec = r, go[g].pc = "running",
         NEW h \in Goroutines, go[h].rec = r
  PROVE  ~Launching(h)
<1> SUFFICES ASSUME Launching(h) PROVE FALSE
  OBVIOUS
<1>1. /\ go[h].run \in Runs /\ go[Mon(go[h].run)].pc = "idle" /\ proc[go[h].run].owner = r
  BY DEF IInv, Forked, LaunchingIdle, KInv, Owned
<1>2. /\ go[g].run \in Runs /\ go[Mon(go[g].run)].pc # "idle" /\ proc[go[g].run].owner = r
      /\ ~rec[r].probe
  BY DEF Launched
<1> QED
  BY <1>1, <1>2 DEF Overtaken, RunAgain

LEMMA LateWorkers ==
  ASSUME IInv, KInv, NEW r \in Calls, ~Restarted(r), ~Overtaken(r), Slots(r),
         NEW g \in Goroutines, go[g].rec = r, go[g].pc = "running",
         rec[r].state \notin {"STARTING", "RUNNING"},
         NEW h \in Goroutines, Working(h, r)
  PROVE  h \notin Calls /\ go[h].pc \in Ending \cup Aside /\ ~rec[r].probe
<1>1. go[h].pc \notin {"record", "watch"}
  BY LaunchersApart DEF Slots, Working, Launching
<1>2. h \notin Calls
  <2> SUFFICES ASSUME h \in Calls PROVE FALSE
    OBVIOUS
  <2>1. h = r /\ go[r].rec = r
    BY WorkerNames DEF Working
  <2>2. go[r].pc \in {"starting", "release", "spawn"}
    BY <1>1, <2>1 DEF Working, Launch
  <2> QED
    BY <2>1, <2>2 DEF Slots, First, Launched
<1>3. go[h].pc \notin {"wait", "exit"}
  BY DEF Slots, Launched
<1>4. go[h].pc \in Ending \cup Aside
  BY <1>1, <1>2, <1>3 DEF Working, Turn, Ending, Aside
<1> QED
  BY <1>2, <1>4 DEF Slots, Launched

LEMMA SlotsPasses ==
  ASSUME IInv, IInv', KInv, NEW g \in Goroutines, Passes(g),
         NEW r \in Calls, ~Restarted(r), ~Overtaken(r), Single(r), Slots(r)
  PROVE  Slots(r)'
<1>1. /\ go'[g].rec = go[g].rec /\ go'[g].run = go[g].run /\ go'[g].pc # "idle"
      /\ \A h \in Goroutines : h # g => go'[h] = go[h]
      /\ rec'[r].state = rec[r].state /\ rec'[r].probe = rec[r].probe
      /\ recSlot \subseteq recSlot' /\ r \in Goroutines
      /\ \A n \in Runs : proc'[n].owner = proc[n].owner
      /\ \A n \in Runs : go[Mon(n)].pc # "idle" => go'[Mon(n)].pc # "idle"
  BY HelperNames DEF Passes, Moves, SameRecords, SameRuns
<1>2. CASE go[g].rec # r
  BY <1>1, <1>2, SlotsFrame
<1>3. CASE go[g].rec = r
  <2>1. /\ \A h \in Goroutines : Working(h, r)' => Working(h, r)
        /\ Working(g, r)' => <<go[g].pc, go'[g].pc>> \in Routes
    <3>1. \A h \in Goroutines : Working(h, r)' => Working(h, r)
      BY <1>1, <1>3, WorkerMoves DEF Passes, Hops
    <3> QED
      BY <1>1, <1>3, <3>1 DEF Passes, Reasons, Working
  <2>2. Working(g, r)' =>
          \/ /\ g \notin Calls
             /\ <<go[g].pc, go'[g].pc>> \in
                  {<<"wait", "exit">>, <<"backoff", "cancel">>, <<"exit", "policy">>,
                   <<"acquire", "hold">>, <<"hold", "restarting">>}
          \/ g = r /\ go[g].pc = "release" /\ go'[g].pc = "spawn"
    BY <2>1, WorkerNames DEF Routes, Working, Launch, Turn
  <2>3. "drop" \notin go'[g].todo
    <3> SUFFICES ASSUME "drop" \in go'[g].todo PROVE FALSE
      OBVIOUS
    <3>1. CASE go[g].pc = "restarting" /\ ~Accepts(Target(g), "RESTARTING")
      <4>1. g \notin Calls
        BY <1>3, <3>1 DEF KInv, Suited, Suits, Restarted, Kind
      <4>2. rec[r].state \in Dead
        BY <1>3, <3>1, <4>1 DEF Slots, Placed, Working, Turn, Ending
      <4> QED
        BY <1>3, <3>1, <4>2
        DEF Accepts, CanTransition, Transitions, States, Target, Dead
    <3>2. CASE go[g].pc = "starting" /\ Kind(g) = "start"
      <4>1. g \in Calls /\ go[g].rec = g
        BY <3>2 DEF KInv, Suited, Suits, Helping, Launch, Goroutines
      <4>2. rec[r].state = "UNSPECIFIED" /\ ~Accepts(Target(g), "STARTING")
        BY <1>3, <3>2, <4>1 DEF Slots, First, Passes, Reasons
      <4> QED
        BY <1>3, <4>2 DEF Accepts, CanTransition, Transitions, States, Target
    <3> QED
      BY <3>1, <3>2 DEF Passes, Reasons
  <2>4. go[g].pc = "exit" /\ Working(g, r) => rec[r].state \in Dead \/ g \in Calls
    BY <1>3 DEF Passes, Reasons, Accepts, CanTransition, Transitions, States, Target, Dead,
       Slots, Placed, Busy, IInv, TypeOK, Record
  <2>5. \A h \in Goroutines : h # g => (Working(h, r)' <=> Working(h, r))
    BY <1>1 DEF Working
  <2>6. Placed(r)'
    BY <1>1, <2>1, <2>2, <2>4, <2>5 DEF Slots, Placed, Ending, Busy
  <2>7. First(r)'
    <3>1. CASE g = r
      <4>1. go'[r].pc \in Launch => go[r].pc = "release" /\ go'[r].pc = "spawn"
        BY <1>1, <1>3, <2>2, <3>1 DEF Working
      <4> QED
        BY <1>1, <3>1, <4>1 DEF Slots, First, Launch
    <3>2. CASE g # r
      BY <1>1, <3>2 DEF Slots, First
    <3> QED
      BY <3>1, <3>2
  <2>8. Launched(r)'
    <3>1. ASSUME NEW k \in Goroutines, go'[k].rec = r, go'[k].pc = "running"
          PROVE  /\ ~rec'[r].probe /\ go'[k].run \in Runs /\ proc'[go'[k].run].owner = r
                 /\ go'[Mon(go'[k].run)].pc # "idle"
                 /\ \A h \in Goroutines :
                      Working(h, r)' /\ go'[h].pc \in {"wait", "exit"}
                        => rec'[r].state \in {"STARTING", "RUNNING"}
      <4>1. k # g
        BY <3>1 DEF Passes, Hops
      <4>2. \A h \in Goroutines :
              Working(h, r)' /\ go'[h].pc \in {"wait", "exit"}
                => Working(h, r) /\ go[h].pc \in {"wait", "exit"}
        BY <1>1, <2>1, <2>2
      <4> QED
        BY <1>1, <3>1, <4>1, <4>2 DEF Slots, Launched
    <3>2. ASSUME NEW k \in Goroutines, go'[k].rec = r, go'[k].pc = "failed",
                 NEW h \in Goroutines, Working(h, r)'
          PROVE  h \notin Calls /\ go'[h].pc \in Ending \cup Aside /\ ~rec'[r].probe
      <4>1. CASE k = g
        <5>1. h # g
          BY <2>1, <3>2, <4>1 DEF Routes
        <5>2. CASE go[g].pc = "spawn"
          <6>1. Working(g, r)
            BY <1>3, <5>2 DEF Working, Launch, Turn
          <6> QED
            BY <2>1, <3>2, <5>1, <6>1 DEF Single, OneWorker
        <5>3. CASE go[g].pc = "running" /\ ~Accepts(Target(g), "RUNNING")
          <6>1. rec[r].state \notin {"STARTING", "RUNNING"}
            BY <1>3, <5>3 DEF Accepts, CanTransition, Transitions, States, Target
          <6> QED
            BY <1>1, <1>3, <2>1, <3>2, <5>1, <5>3, <6>1, LateWorkers
        <5> QED
          BY <3>2, <4>1, <5>2, <5>3 DEF Passes, Reasons
      <4>2. CASE k # g
        <5>1. h \notin Calls /\ go[h].pc \in Ending \cup Aside /\ ~rec[r].probe
          BY <1>1, <2>1, <3>2, <4>2 DEF Slots, Launched
        <5>2. h = g => go'[h].pc \in {"cancel", "hold", "restarting"}
          BY <2>2, <3>2, <5>1 DEF Ending, Aside
        <5> QED
          BY <1>1, <5>1, <5>2 DEF Ending, Aside
      <4> QED
        BY <4>1, <4>2
    <3>3. ASSUME NEW k \in Goroutines, go'[k].rec = r, go'[k].pc \in {"probing", "passed"}
          PROVE  rec'[r].probe
      BY <1>1, <3>3 DEF Slots, Launched, Passes, Reasons
    <3> QED
      BY <3>1, <3>2, <3>3 DEF Launched
  <2>9. Dropping(r)'
    <3> SUFFICES ASSUME NEW k \in Goroutines, go'[k].rec = r, "drop" \in go'[k].todo
                 PROVE  /\ rec'[r].state \in Dead
                        /\ \A h \in Goroutines :
                             Working(h, r)' =>
                               \/ h = k /\ go'[h].pc = "policy"
                               \/ h \notin Calls /\ go'[h].pc \in Aside /\ ~rec'[r].probe
      BY DEF Dropping
    <3>1. k # g /\ go'[k] = go[k]
      BY <1>1, <2>3
    <3>2. Working(g, r)' => go'[g].pc = "cancel" /\ g \notin Calls /\ ~rec[r].probe
      BY <2>1, <2>2, <3>1 DEF Slots, Dropping, Aside
    <3> QED
      BY <1>1, <2>5, <3>1, <3>2 DEF Slots, Dropping, Aside
  <2>10. Slotted(r)'
    <3>1. go'[g].pc = "restarting" => r \in recSlot'
      BY <1>3 DEF Passes, Reasons, Target
    <3> QED
      BY <1>1, <2>5, <3>1 DEF Slots, Slotted
  <2> QED
    BY <2>6, <2>7, <2>8, <2>9, <2>10 DEF Slots
<1> QED
  BY <1>2, <1>3

\* What an accepted transition of g's record leaves alone.
LEMMA TransitFrame ==
  ASSUME IInv, IInv', KInv, NEW g \in Goroutines, NEW to \in States, Transits(g, to),
         NEW r \in Calls, ~Restarted(r), go[g].rec = r
  PROVE  /\ go'[g].rec = r /\ go'[g].run = go[g].run
         /\ \A h \in Goroutines : h # g => go'[h] = go[h]
         /\ rec'[r].state = to /\ rec'[r].probe = rec[r].probe
         /\ recSlot' = recSlot /\ r \in Goroutines
         /\ \A n \in Runs : proc'[n] = proc[n]
         /\ \A n \in Runs : go[Mon(n)].pc # "idle" => go'[Mon(n)].pc # "idle"
         /\ go'[g].pc \notin {"running", "failed", "probing", "passed"}
         /\ \A h \in Goroutines : Working(h, r)' => Working(h, r)
         /\ \A h \in Goroutines : h # g => (Working(h, r)' <=> Working(h, r))
         /\ "drop" \in go'[g].todo <=> IsLive(rec[r].state) /\ ~IsLive(to)
<1>1. /\ go'[g].rec = r /\ go'[g].run = go[g].run
      /\ \A h \in Goroutines : h # g => go'[h] = go[h]
      /\ rec'[r].state = to /\ rec'[r].probe = rec[r].probe
      /\ recSlot' = recSlot /\ r \in Goroutines
      /\ \A n \in Runs : proc'[n] = proc[n]
      /\ \A n \in Runs : go[Mon(n)].pc # "idle" => go'[Mon(n)].pc # "idle"
      /\ go'[g].pc \notin {"running", "failed", "probing", "passed"}
  BY HelperNames DEF Transits, Moves, Target, Paths
<1>2. \A h \in Goroutines : Working(h, r)' => Working(h, r)
  <2>1. SameRuns
    BY DEF Transits, SameRuns
  <2> QED
    BY <1>1, <2>1, WorkerMoves DEF Transits, Hops
<1>3. \A h \in Goroutines : h # g => (Working(h, r)' <=> Working(h, r))
  BY <1>1 DEF Working
<1>4. "drop" \in go'[g].todo <=> IsLive(rec[r].state) /\ ~IsLive(to)
  BY DEF Transits, Aftermath, Target
<1> QED
  BY <1>1, <1>2, <1>3, <1>4

\* A worker that is a helper leaves no room for the record's start.
LEMMA HelperWorks ==
  ASSUME NEW r \in Calls, r \in Goroutines, Single(r), NEW g \in Goroutines,
         g \notin Calls, Working(g, r)
  PROVE  go[r].rec = r => go[r].pc \notin Launch
BY DEF Single, OneWorker, Working

LEMMA SlotsRestarting ==
  ASSUME IInv, IInv', KInv, NEW g \in Goroutines, Transits(g, "RESTARTING"),
         NEW r \in Calls, ~Restarted(r), Single(r), Slots(r), go[g].rec = r
  PROVE  Slots(r)'
<1>0. "RESTARTING" \in States
  BY DEF States
<1>1. go[g].pc = "restarting" /\ go'[g].pc \in {"starting", "schedule"}
  BY DEF Transits, Paths
<1>2. g \notin Calls
  BY <1>1 DEF KInv, Suited, Suits, Restarted, Kind
<1>3. Working(g, r) /\ \A h \in Goroutines : Working(h, r) => h = g
  BY <1>1, <1>2 DEF Working, Turn, Single, OneWorker
<1>4. rec[r].state \in Dead /\ r \in recSlot
  BY <1>1, <1>2, <1>3 DEF Slots, Placed, Slotted, Ending
<1>5. "drop" \notin go'[g].todo
  BY <1>0, <1>4, TransitFrame DEF IsLive, Dead
<1>6. \A h \in Goroutines : Working(h, r)' => h = g
  BY <1>0, <1>3, TransitFrame
<1>7. Placed(r)'
  BY <1>0, <1>1, <1>6, TransitFrame DEF Placed, Ending, Busy
<1>8. First(r)'
  <2>1. go[r].rec = r => go[r].pc \notin Launch
    BY <1>0, <1>2, <1>3, HelperWorks, TransitFrame
  <2>2. go'[r] = go[r]
    BY <1>0, <1>2, TransitFrame
  <2> QED
    BY <2>1, <2>2 DEF First, Launch
<1>9. Launched(r)'
  <2>1. \A k \in Goroutines : go'[k].pc \in {"running", "failed", "probing", "passed"}
                                => k # g
    BY <1>0, TransitFrame
  <2> QED
    BY <1>0, <1>1, <1>2, <1>3, <1>6, <2>1, TransitFrame DEF Slots, Launched, Ending, Aside
<1>10. Dropping(r)'
  <2>1. \A k \in Goroutines : go[k].rec = r /\ "drop" \in go[k].todo => FALSE
    BY <1>1, <1>3 DEF Slots, Dropping, Aside
  <2> QED
    BY <1>0, <1>5, <2>1, TransitFrame DEF Dropping
<1>11. Slotted(r)'
  BY <1>0, <1>4, TransitFrame DEF Slotted
<1> QED
  BY <1>7, <1>8, <1>9, <1>10, <1>11 DEF Slots

LEMMA SlotsStarting ==
  ASSUME IInv, IInv', KInv, NEW g \in Goroutines, Transits(g, "STARTING"),
         NEW r \in Calls, ~Restarted(r), Single(r), Slots(r), go[g].rec = r
  PROVE  Slots(r)'
<1>0. "STARTING" \in States
  BY DEF States
<1>1. go[g].pc = "starting" /\ go'[g].pc \in {"release", "spawn"}
  BY DEF Transits, Paths
<1>2. Working(g, r) /\ \A h \in Goroutines : Working(h, r) => h = g
  BY <1>1 DEF Working, Turn, Launch, Single, OneWorker
<1>3. g \in Calls => g = r
  BY <1>2, WorkerNames
<1>4. /\ rec[r].state \notin Dead /\ r \in recSlot
      /\ g \notin Calls => IsLive(rec[r].state)
  <2>1. CASE g \in Calls
    BY <1>1, <1>3, <2>1 DEF Slots, First, Dead
  <2>2. CASE g \notin Calls
    BY <1>2, <2>2
    DEF Slots, Placed, Slotted, Transits, Accepts, CanTransition, Transitions, States, Target,
        IInv, TypeOK, Record, IsLive, Dead
  <2> QED
    BY <2>1, <2>2
<1>5. "drop" \notin go'[g].todo
  BY <1>0, TransitFrame DEF IsLive
<1>6. \A h \in Goroutines : Working(h, r)' => h = g
  BY <1>0, <1>2, TransitFrame
<1>7. Placed(r)'
  BY <1>0, <1>1, <1>6, TransitFrame DEF Placed, Ending, Busy
<1>8. First(r)'
  <2>1. CASE g = r
    BY <1>0, <1>1, <2>1, TransitFrame DEF Slots, First
  <2>2. CASE g # r
    <3>1. go[r].rec = r => go[r].pc \notin Launch
      BY <1>0, <1>2, <1>3, <2>2, HelperWorks, TransitFrame
    <3>2. go'[r] = go[r]
      BY <1>0, <2>2, TransitFrame
    <3> QED
      BY <3>1, <3>2 DEF First, Launch
  <2> QED
    BY <2>1, <2>2
<1>9. Launched(r)'
  <2>1. \A k \in Goroutines : go'[k].pc \in {"running", "failed", "probing", "passed"}
                                => k # g
    BY <1>0, TransitFrame
  <2>2. go'[g].pc \in Ending \cup Aside \/ ~Working(g, r)' \/ g \in Calls
    BY <1>1 DEF Aside, Working, Turn
  <2> QED
    BY <1>0, <1>1, <1>2, <1>6, <2>1, <2>2, TransitFrame DEF Slots, Launched
<1>10. Dropping(r)'
  <2>1. \A k \in Goroutines : go[k].rec = r /\ "drop" \in go[k].todo => FALSE
    BY <1>4 DEF Slots, Dropping
  <2> QED
    BY <1>0, <1>5, <2>1, TransitFrame DEF Dropping
<1>11. Slotted(r)'
  BY <1>0, <1>4, TransitFrame DEF Slotted
<1> QED
  BY <1>7, <1>8, <1>9, <1>10, <1>11 DEF Slots

\* The launcher marks the run RUNNING, or the probe READY.
LEMMA SlotsReady ==
  ASSUME IInv, IInv', KInv, NEW g \in Goroutines, NEW to \in {"RUNNING", "READY"},
         Transits(g, to), NEW r \in Calls, ~Restarted(r), ~Overtaken(r), Single(r), Slots(r),
         go[g].rec = r
  PROVE  Slots(r)'
<1>0. to \in States
  BY DEF States
<1>1. /\ go'[g].pc = "done"
      /\ to = "RUNNING" => go[g].pc = "running"
      /\ to = "READY" => go[g].pc = "passed"
  BY DEF Transits, Paths
<1>2. /\ rec[r].state \in {"STARTING", "RUNNING", "READY"} /\ r \in recSlot
      /\ to = "RUNNING" => rec[r].state \in {"STARTING", "RUNNING"}
  BY DEF Transits, Accepts, CanTransition, Transitions, States, Target, IInv, TypeOK, Record,
     Slots, Slotted, IsLive
<1>3. "drop" \notin go'[g].todo
  BY <1>0, TransitFrame DEF IsLive
<1>4. \A h \in Goroutines : Working(h, r)' => h # g /\ Working(h, r) /\ go'[h] = go[h]
  <2>1. ~Working(g, r)'
    BY <1>1 DEF Working, Launch, Turn
  <2> QED
    BY <1>0, <2>1, TransitFrame
<1>5. Placed(r)'
  BY <1>0, <1>2, <1>4, TransitFrame DEF Slots, Placed, Dead
<1>6. First(r)'
  <2>1. CASE to = "READY"
    <3>1. rec'[r].probe
      BY <1>0, <1>1, <2>1, TransitFrame DEF Slots, Launched
    <3> QED
      BY <1>0, <1>1, <1>2, <3>1, TransitFrame DEF Slots, First
  <2>2. CASE to = "RUNNING"
    <3>1. /\ go[r].rec = r => go[r].pc \notin {"record", "watch"}
          /\ \E n \in Runs : proc[n].owner = r
      BY <1>0, <1>1, <2>2, LaunchersApart, TransitFrame DEF Slots, Launched, Launching
    <3> QED
      BY <1>0, <1>1, <3>1, TransitFrame DEF Slots, First
  <2> QED
    BY <2>1, <2>2
<1>7. Launched(r)'
  <2>1. \A k \in Goroutines :
          go'[k].rec = r /\ go'[k].pc \in {"running", "failed", "probing", "passed"}
            => k # g /\ go'[k] = go[k]
    BY <1>0, TransitFrame
  <2>2. CASE to = "READY"
    <3>1. rec[r].probe
      BY <1>1, <2>2 DEF Slots, Launched
    <3> QED
      BY <1>0, <1>4, <2>1, <3>1, TransitFrame DEF Slots, Launched
  <2>3. CASE to = "RUNNING"
    BY <1>0, <1>4, <2>1, <2>3, TransitFrame DEF Slots, Launched
  <2> QED
    BY <2>2, <2>3
<1>8. Dropping(r)'
  <2>1. \A k \in Goroutines : go[k].rec = r /\ "drop" \in go[k].todo => FALSE
    BY <1>2 DEF Slots, Dropping, Dead
  <2> QED
    BY <1>0, <1>3, <2>1, TransitFrame DEF Dropping
<1>9. Slotted(r)'
  BY <1>0, <1>2, TransitFrame DEF Slotted
<1> QED
  BY <1>5, <1>6, <1>7, <1>8, <1>9 DEF Slots

\* The worker of the record says that its run, or its turn, is over.
LEMMA SlotsEnded ==
  ASSUME IInv, IInv', KInv, NEW g \in Goroutines, NEW to \in Dead, Transits(g, to),
         go[g].pc # "failed",
         NEW r \in Calls, ~Restarted(r), Single(r), Slots(r), go[g].rec = r
  PROVE  Slots(r)'
<1>0. to \in States
  BY DEF States, Dead
<1>1. /\ g \notin Calls
      /\ \/ go[g].pc = "exit" /\ go'[g].pc = "policy"
         \/ go[g].pc \in {"giveup", "cancel"} /\ go'[g].pc = "done"
  BY DEF Transits, Paths, Dead
<1>2. Working(g, r) /\ \A h \in Goroutines : Working(h, r) => h = g
  BY <1>1 DEF Working, Turn, Single, OneWorker
<1>3. \A h \in Goroutines : Working(h, r)' => h = g /\ go'[g].pc = "policy"
                                               /\ go[g].pc = "exit"
  <2>1. Working(g, r)' => go'[g].pc # "done"
    BY <1>1 DEF Working, Turn
  <2> QED
    BY <1>0, <1>1, <1>2, <2>1, TransitFrame
<1>4. Placed(r)'
  BY <1>0, <1>3, TransitFrame DEF Placed, Busy, Dead
<1>5. First(r)'
  <2>1. go[r].rec = r => go[r].pc \notin Launch
    BY <1>0, <1>1, <1>2, HelperWorks, TransitFrame
  <2>2. go'[r] = go[r]
    BY <1>0, <1>1, TransitFrame
  <2> QED
    BY <2>1, <2>2 DEF First, Launch
<1>6. Launched(r)'
  <2>1. \A k \in Goroutines :
          go'[k].rec = r /\ go'[k].pc \in {"running", "failed", "probing", "passed"}
            => k # g /\ go'[k] = go[k]
    BY <1>0, TransitFrame
  <2>2. \A k \in Goroutines : go[k].rec = r /\ go[k].pc = "failed" => go[g].pc # "exit"
    BY <1>2 DEF Slots, Launched, Ending, Aside
  <2> QED
    BY <1>0, <1>3, <2>1, <2>2, TransitFrame DEF Slots, Launched
<1>7. Dropping(r)'
  <2>1. \A k \in Goroutines :
          go[k].rec = r /\ "drop" \in go[k].todo => go[g].pc # "exit"
    BY <1>2 DEF Slots, Dropping, Aside
  <2> QED
    BY <1>0, <1>3, <2>1, TransitFrame DEF Dropping
<1>8. Slotted(r)'
  BY <1>0, <1>3, TransitFrame DEF Slotted, IsLive, Dead
<1> QED
  BY <1>4, <1>5, <1>6, <1>7, <1>8 DEF Slots

\* The launcher says that its run failed.
LEMMA SlotsFailed ==
  ASSUME IInv, IInv', KInv, NEW g \in Goroutines, Transits(g, "CRASHED"),
         go[g].pc = "failed",
         NEW r \in Calls, ~Restarted(r), Single(r), Slots(r), go[g].rec = r
  PROVE  Slots(r)'
<1>0. "CRASHED" \in States /\ go'[g].pc = "done"
  BY DEF States, Transits, Paths
<1>1. \A h \in Goroutines :
        Working(h, r)' => /\ h # g /\ Working(h, r) /\ go'[h] = go[h]
                          /\ h \notin Calls /\ go[h].pc \in Ending \cup Aside
                          /\ ~rec[r].probe
  <2>1. ~Working(g, r)'
    BY <1>0 DEF Working, Launch, Turn
  <2> QED
    BY <1>0, <2>1, TransitFrame DEF Slots, Launched
<1>2. Placed(r)'
  BY <1>0, TransitFrame DEF Placed, Dead
<1>3. First(r)'
  <2>1. go'[r].rec = r => ~(go'[r].pc \in Launch)
    BY <1>0, <1>1, TransitFrame DEF Working
  <2> QED
    BY <2>1 DEF First, Launch
<1>4. Launched(r)'
  <2>1. \A k \in Goroutines :
          go'[k].rec = r /\ go'[k].pc \in {"running", "failed", "probing", "passed"}
            => k # g /\ go'[k] = go[k]
    BY <1>0, TransitFrame
  <2>2. \A h \in Goroutines : Working(h, r)' => go'[h].pc \notin {"wait", "exit"}
    BY <1>1 DEF Ending, Aside
  <2> QED
    BY <1>0, <1>1, <2>1, <2>2, TransitFrame DEF Slots, Launched
<1>5. Dropping(r)'
  <2> SUFFICES ASSUME NEW k \in Goroutines, go'[k].rec = r, "drop" \in go'[k].todo,
                      NEW h \in Goroutines, Working(h, r)'
               PROVE  \/ h = k /\ go'[h].pc = "policy"
                      \/ h \notin Calls /\ go'[h].pc \in Aside /\ ~rec'[r].probe
    BY <1>0, TransitFrame DEF Dropping, Dead
  <2>1. CASE k = g
    <3>1. rec[r].state \notin Dead
      BY <1>0, <2>1, TransitFrame DEF IsLive, Dead
    <3>2. go[h].pc \notin Ending
      BY <1>1, <3>1 DEF Slots, Placed
    <3> QED
      BY <1>0, <1>1, <3>2, TransitFrame
  <2>2. CASE k # g
    BY <1>0, <1>1, <2>2, TransitFrame DEF Slots, Dropping
  <2> QED
    BY <2>1, <2>2
<1>6. Slotted(r)'
  BY <1>0, <1>1, TransitFrame DEF Slots, Slotted, IsLive
<1> QED
  BY <1>2, <1>3, <1>4, <1>5, <1>6 DEF Slots

LEMMA SlotsTransits ==
  ASSUME IInv, IInv', KInv, NEW g \in Goroutines, NEW to \in States, Transits(g, to),
         NEW r \in Calls, ~Restarted(r), ~Overtaken(r), Single(r), Slots(r)
  PROVE  Slots(r)'
<1>1. CASE go[g].rec # r
  <2>1. /\ go'[g].rec = go[g].rec /\ \A h \in Goroutines : h # g => go'[h] = go[h]
        /\ rec'[r].state = rec[r].state /\ rec'[r].probe = rec[r].probe
        /\ recSlot' = recSlot /\ r \in Goroutines /\ proc' = proc
        /\ \A n \in Runs : go[Mon(n)].pc # "idle" => go'[Mon(n)].pc # "idle"
    BY <1>1, HelperNames DEF Transits, Moves, Target
  <2> QED
    BY <1>1, <2>1, SlotsFrame
<1>2. CASE go[g].rec = r
  <2>1. \/ to \in {"RESTARTING", "STARTING", "RUNNING", "READY"}
        \/ to \in Dead /\ go[g].pc # "failed"
        \/ to = "CRASHED" /\ go[g].pc = "failed"
    BY DEF Transits, Paths, Dead
  <2> QED
    BY <1>2, <2>1, SlotsRestarting, SlotsStarting, SlotsReady, SlotsEnded, SlotsFailed
<1> QED
  BY <1>1, <1>2

\* The spawner of a record is its start or the timer of an earlier run of it.
LEMMA SpawnerWorks ==
  ASSUME KInv, NEW g \in Spawners, NEW r \in Calls, ~Restarted(r), go[g].rec = r,
         go[g].pc \in {"spawn", "record", "watch"}
  PROVE  /\ Working(g, r)
         /\ g \in Calls => g = r
         /\ g \notin Calls => \E m \in Runs : /\ proc[m].owner = r /\ proc[m].os # "unborn"
                                              /\ go[Mon(m)].pc = "done"
<1>1. Working(g, r)
  BY DEF Working, Launch, Turn
<1>2. g \in Calls => g = r
  BY <1>1, WorkerNames
<1>3. g \notin Calls => \E m \in Runs : /\ proc[m].owner = r /\ proc[m].os # "unborn"
                                        /\ go[Mon(m)].pc = "done"
  <2> SUFFICES ASSUME NEW m \in Runs, g = Timer(m)
               PROVE  /\ proc[m].owner = r /\ proc[m].os # "unborn"
                      /\ go[Mon(m)].pc = "done"
    BY DEF Spawners
  <2>1. proc[m].owner = r /\ go[Mon(m)].pc = "done"
    BY DEF KInv, Helping
  <2>2. r # NoCall
    BY SupervisorAssumption
  <2> QED
    BY <2>1, <2>2 DEF KInv, Owned
<1> QED
  BY <1>1, <1>2, <1>3

LEMMA SlotsForks ==
  ASSUME IInv, KInv, NEW g \in Spawners, NEW n \in Runs, Forks(g, n),
         NEW r \in Calls, ~Restarted(r), ~Overtaken(r)', Single(r), Slots(r)
  PROVE  Slots(r)'
<1>1. /\ g \in Goroutines /\ r \in Goroutines
      /\ go[g].pc = "spawn" /\ go'[g].pc = "record" /\ go'[g].rec = go[g].rec
      /\ go[g].todo = {} /\ go'[g].todo = {}
      /\ \A h \in Goroutines : h # g => go'[h] = go[h]
      /\ proc[n].os = "unborn" /\ proc'[n].owner = go[g].rec
      /\ \A m \in Runs : m # n => proc'[m] = proc[m]
      /\ proc[n].owner = NoCall /\ NoCall # r
      /\ rec' = rec /\ recSlot' = recSlot
      /\ \A m \in Runs : go[Mon(m)].pc # "idle" => go'[Mon(m)].pc # "idle"
  BY SpawnerNames, HelperNames, SupervisorAssumption DEF Forks, Alone, Target, KInv, Owned
<1>2. CASE go[g].rec # r
  <2>1. \A m \in Runs : proc'[m].owner = r <=> proc[m].owner = r
    BY <1>1, <1>2
  <2> QED
    BY <1>1, <1>2, <2>1, SlotsFrame
<1>3. CASE go[g].rec = r
  <2>1. /\ Working(g, r) /\ \A h \in Goroutines : Working(h, r) => h = g
        /\ g \in Calls => g = r
    BY <1>1, <1>3, SpawnerWorks DEF Single, OneWorker
  <2>2. \A h \in Goroutines : Working(h, r)' => h = g
    BY <1>1, <2>1 DEF Working
  <2>3. g \notin Calls => rec[r].probe
    <3>1. ASSUME NEW m \in Runs, proc[m].owner = r, proc[m].os # "unborn"
          PROVE  rec[r].probe
      <4>1. m # n /\ proc'[m].owner = r /\ proc'[n].owner = r
        BY <1>1, <1>3, <3>1
      <4> QED
        BY <1>1, <4>1 DEF Overtaken, RunAgain
    <3> QED
      BY <1>1, <1>3, <3>1, SpawnerWorks
  <2>4. Placed(r)'
    BY <1>1, <2>1, <2>2 DEF Slots, Placed, Ending, Busy
  <2>5. First(r)'
    <3>1. CASE g = r
      BY <1>1, <1>3, <3>1 DEF Slots, First
    <3>2. CASE g # r
      <4>1. go[r].rec = r => go[r].pc \notin Launch
        BY <1>1, <2>1, <3>2, HelperWorks
      <4> QED
        BY <1>1, <3>2, <4>1 DEF First, Launch
    <3> QED
      BY <3>1, <3>2
  <2>6. Launched(r)'
    <3>1. \A k \in Goroutines : go[k].rec = r => go[k].pc # "failed"
      BY <1>1, <2>1, <2>3 DEF Slots, Launched
    <3>2. \A k \in Goroutines :
            go'[k].rec = r /\ go'[k].pc \in {"running", "failed", "probing", "passed"}
              => k # g /\ go'[k] = go[k]
      BY <1>1
    <3>3. \A k \in Goroutines :
            go[k].rec = r /\ go[k].pc = "running" => proc'[go[k].run].owner = r
      BY <1>1 DEF Slots, Launched
    <3> QED
      BY <1>1, <2>2, <3>1, <3>2, <3>3 DEF Slots, Launched
  <2>7. Dropping(r)'
    <3>1. \A k \in Goroutines : go[k].rec = r /\ "drop" \in go[k].todo => FALSE
      BY <1>1, <2>1, <2>3 DEF Slots, Dropping
    <3> QED
      BY <1>1, <3>1 DEF Dropping
  <2>8. Slotted(r)'
    BY <1>1, <2>2 DEF Slots, Slotted
  <2> QED
    BY <2>4, <2>5, <2>6, <2>7, <2>8 DEF Slots
<1> QED
  BY <1>2, <1>3

LEMMA SlotsRecords ==
  ASSUME IInv, KInv, NEW g \in Spawners, Records(g),
         NEW r \in Calls, ~Restarted(r), Single(r), Slots(r)
  PROVE  Slots(r)'
<1>1. /\ g \in Goroutines /\ r \in Goroutines
      /\ go[g].pc = "record" /\ go'[g].pc = "watch" /\ go'[g].rec = go[g].rec
      /\ go'[g].todo = {"persist"}
      /\ \A h \in Goroutines : h # g => go'[h] = go[h]
      /\ rec'[r].state = rec[r].state /\ rec'[r].probe = rec[r].probe
      /\ recSlot' = recSlot /\ proc' = proc
      /\ \A m \in Runs : go[Mon(m)].pc # "idle" => go'[Mon(m)].pc # "idle"
  BY SpawnerNames, HelperNames DEF Records, Moves
<1>2. CASE go[g].rec # r
  BY <1>1, <1>2, SlotsFrame
<1>3. CASE go[g].rec = r
  <2>1. /\ Working(g, r) /\ \A h \in Goroutines : Working(h, r) => h = g
        /\ g \in Calls => g = r
    BY <1>1, <1>3, SpawnerWorks DEF Single, OneWorker
  <2>2. \A h \in Goroutines : Working(h, r)' => h = g
    BY <1>1, <2>1 DEF Working
  <2>3. Placed(r)'
    BY <1>1, <2>1, <2>2 DEF Slots, Placed, Ending, Busy
  <2>4. First(r)'
    BY <1>1 DEF Slots, First
  <2>5. Launched(r)'
    BY <1>1, <2>1, <2>2 DEF Slots, Launched, Ending, Aside
  <2>6. Dropping(r)'
    BY <1>1, <2>1 DEF Slots, Dropping, Aside
  <2>7. Slotted(r)'
    BY <1>1, <2>2 DEF Slots, Slotted
  <2> QED
    BY <2>3, <2>4, <2>5, <2>6, <2>7 DEF Slots
<1> QED
  BY <1>2, <1>3

LEMMA SlotsWatches ==
  ASSUME IInv, KInv, NEW g \in Spawners, NEW n \in Runs, Watches(g, n),
         NEW r \in Calls, ~Restarted(r), ~Overtaken(r), Single(r), Slots(r)
  PROVE  Slots(r)'
<1>0. /\ Mon(n) \in Goroutines /\ Probe(n) \in Goroutines /\ g \in Goroutines
      /\ r \in Goroutines /\ g # Mon(n) /\ g # Probe(n) /\ Mon(n) # Probe(n)
      /\ Mon(n) \notin Calls /\ Probe(n) \notin Calls
      /\ \A m \in Runs : Mon(m) \in Goroutines /\ Mon(m) # g /\ Mon(m) # Probe(n)
  BY HelperNames, SpawnerNames
<1>1. /\ go[g].pc = "watch" /\ go[g].run = n /\ go'[g].rec = go[g].rec /\ go'[g].run = n
      /\ go'[g].pc = IF rec[go[g].rec].probe THEN "done" ELSE "running"
      /\ "drop" \notin go'[g].todo
      /\ go'[Mon(n)].pc = "wait" /\ go'[Mon(n)].rec = go[g].rec /\ go'[Mon(n)].todo = {}
      /\ \/ go'[Probe(n)] = go[Probe(n)]
         \/ /\ go'[Probe(n)].pc = "probing" /\ go'[Probe(n)].rec = go[g].rec
            /\ go'[Probe(n)].todo = {} /\ rec[go[g].rec].probe
      /\ \A h \in Goroutines : h \notin {g, Mon(n), Probe(n)} => go'[h] = go[h]
      /\ UNCHANGED <<rec, proc, recSlot>>
  BY DEF Watches, Helper, Target
<1>2. /\ go[Mon(n)].pc = "idle" /\ go[Probe(n)].pc = "idle" /\ go[Probe(n)].todo = {}
      /\ proc[n].owner = go[g].rec
  BY <1>0, <1>1 DEF IInv, Forked, LaunchingIdle, Launching, KInv, Helping, IdleFree, Owned
<1>3. \A m \in Runs : go[Mon(m)].pc # "idle" => go'[Mon(m)].pc # "idle"
  BY <1>0, <1>1, <1>2
<1>4. CASE go[g].rec # r
  <2>1. \A h \in Goroutines : go'[h].rec = r => go'[h] = go[h]
    BY <1>0, <1>1, <1>4
  <2> QED
    BY <1>0, <1>1, <1>3, <2>1, SlotsFrame
<1>5. CASE go[g].rec = r
  <2>1. /\ Working(g, r) /\ \A h \in Goroutines : Working(h, r) => h = g
        /\ g \in Calls => g = r
    BY <1>0, <1>1, <1>5, SpawnerWorks DEF Single, OneWorker
  <2>2. \A h \in Goroutines : Working(h, r)' => h = Mon(n)
    <3>1. ~Working(g, r)' /\ ~Working(Probe(n), r)'
      BY <1>0, <1>1, <1>2 DEF Working, Launch, Turn
    <3> QED
      BY <1>0, <1>1, <2>1, <3>1 DEF Working
  <2>3. g \notin Calls => rec[r].probe
    <3>1. ASSUME NEW m \in Runs, proc[m].owner = r, go[Mon(m)].pc = "done"
          PROVE  rec[r].probe
      <4>1. m # n
        BY <1>2, <3>1
      <4> QED
        BY <1>2, <1>5, <3>1, <4>1 DEF Overtaken, RunAgain
    <3> QED
      BY <1>1, <1>5, <3>1, SpawnerWorks
  <2>4. rec[r].probe \/ rec[r].state = "STARTING"
    BY <1>1, <1>5, <2>1, <2>3 DEF Slots, First
  <2>5. \A k \in Goroutines : go[k].rec = r => go[k].pc \notin {"running", "failed"}
    <3>1. \A k \in Goroutines : go[k].rec = r => go[k].pc # "running"
      BY <1>0, <1>1, <1>5, LaunchersApart DEF Slots, Launching
    <3>2. \A k \in Goroutines : go[k].rec = r => go[k].pc # "failed"
      BY <1>0, <1>1, <2>1 DEF Slots, Launched, Ending, Aside
    <3> QED
      BY <3>1, <3>2
  <2>6. Placed(r)'
    BY <1>0, <1>1, <2>1, <2>2 DEF Slots, Placed, Ending, Busy
  <2>7. First(r)'
    <3>1. CASE g = r
      BY <1>1, <1>5, <3>1 DEF First
    <3>2. CASE g # r
      <4>1. go[r].rec = r => go[r].pc \notin Launch
        BY <1>0, <2>1, <3>2, HelperWorks
      <4>2. go'[r] = go[r]
        BY <1>0, <1>1, <3>2
      <4> QED
        BY <4>1, <4>2 DEF First, Launch
    <3> QED
      BY <3>1, <3>2
  <2>8. Launched(r)'
    <3>1. ASSUME NEW k \in Goroutines, go'[k].rec = r, go'[k].pc = "running"
          PROVE  /\ ~rec'[r].probe /\ go'[k].run \in Runs /\ proc'[go'[k].run].owner = r
                 /\ go'[Mon(go'[k].run)].pc # "idle"
                 /\ rec'[r].state \in {"STARTING", "RUNNING"}
      <4>1. k = g
        BY <1>0, <1>1, <1>2, <2>5, <3>1
      <4> QED
        BY <1>1, <1>2, <1>5, <2>4, <3>1, <4>1
    <3>2. \A k \in Goroutines : go'[k].rec = r => go'[k].pc # "failed"
      BY <1>0, <1>1, <1>2, <2>5
    <3>3. \A k \in Goroutines : go'[k].rec = r /\ go'[k].pc \in {"probing", "passed"}
                                  => rec'[r].probe
      BY <1>0, <1>1, <1>5 DEF Slots, Launched
    <3> QED
      BY <3>1, <3>2, <3>3 DEF Launched
  <2>9. Dropping(r)'
    <3>1. \A k \in Goroutines : go[k].rec = r /\ "drop" \in go[k].todo => FALSE
      BY <1>0, <1>1, <2>1 DEF Slots, Dropping, Aside
    <3>2. \A k \in Goroutines : go'[k].rec = r => "drop" \notin go'[k].todo
      BY <1>0, <1>1, <1>2, <3>1
    <3> QED
      BY <3>2 DEF Dropping
  <2>10. Slotted(r)'
    BY <1>0, <1>1, <2>2 DEF Slots, Slotted
  <2> QED
    BY <2>6, <2>7, <2>8, <2>9, <2>10 DEF Slots
<1> QED
  BY <1>4, <1>5

LEMMA SlotsSchedules ==
  ASSUME IInv, KInv, NEW n \in Runs, Schedules(n),
         NEW r \in Calls, ~Restarted(r), Single(r), Slots(r)
  PROVE  Slots(r)'
<1>0. /\ Mon(n) \in Goroutines /\ Timer(n) \in Goroutines /\ Mon(n) # Timer(n)
      /\ Mon(n) \notin Calls /\ Timer(n) \notin Calls /\ r \in Goroutines
      /\ \A m \in Runs : Mon(m) \in Goroutines /\ Mon(m) # Timer(n)
  BY HelperNames
<1>1. /\ go[Mon(n)].pc = "schedule" /\ go'[Mon(n)].pc = "done"
      /\ go'[Mon(n)].rec = go[Mon(n)].rec /\ go'[Mon(n)].todo = {}
      /\ go'[Timer(n)].pc = "backoff" /\ go'[Timer(n)].rec = go[Mon(n)].rec
      /\ go'[Timer(n)].todo = {}
      /\ \A h \in Goroutines : h \notin {Mon(n), Timer(n)} => go'[h] = go[h]
      /\ UNCHANGED <<rec, proc, recSlot>>
  BY DEF Schedules
<1>2. \A m \in Runs : go[Mon(m)].pc # "idle" => go'[Mon(m)].pc # "idle"
  BY <1>0, <1>1
<1>3. CASE go[Mon(n)].rec # r
  <2>1. \A h \in Goroutines : go'[h].rec = r => go'[h] = go[h]
    BY <1>0, <1>1, <1>3
  <2> QED
    BY <1>0, <1>1, <1>2, <2>1, SlotsFrame
<1>4. CASE go[Mon(n)].rec = r
  <2>1. Working(Mon(n), r) /\ \A h \in Goroutines : Working(h, r) => h = Mon(n)
    BY <1>0, <1>1, <1>4 DEF Working, Turn, Single, OneWorker
  <2>2. \A h \in Goroutines : Working(h, r)' => h = Timer(n)
    <3>1. ~Working(Mon(n), r)'
      BY <1>0, <1>1 DEF Working, Turn
    <3> QED
      BY <1>0, <1>1, <2>1, <3>1 DEF Working
  <2>3. Placed(r)'
    BY <1>0, <1>1, <2>1, <2>2 DEF Slots, Placed, Ending, Busy
  <2>4. First(r)'
    <3>1. go[r].rec = r => go[r].pc \notin Launch
      BY <1>0, <2>1, HelperWorks
    <3>2. go'[r] = go[r]
      BY <1>0, <1>1
    <3> QED
      BY <3>1, <3>2 DEF First, Launch
  <2>5. Launched(r)'
    <3>1. \A k \in Goroutines :
            go'[k].pc \in {"running", "failed", "probing", "passed"} => go'[k] = go[k]
      BY <1>0, <1>1
    <3> QED
      BY <1>0, <1>1, <1>2, <2>1, <2>2, <3>1 DEF Slots, Launched, Aside
  <2>6. Dropping(r)'
    <3>1. \A k \in Goroutines : go'[k].rec = r /\ "drop" \in go'[k].todo =>
            k # Mon(n) /\ go'[k] = go[k]
      BY <1>0, <1>1
    <3>2. \A k \in Goroutines : go[k].rec = r /\ "drop" \in go[k].todo /\ k # Mon(n) =>
            rec[r].state \in Dead /\ ~rec[r].probe
      BY <1>0, <2>1 DEF Slots, Dropping
    <3>3. \A h \in Goroutines : Working(h, r)' => h \notin Calls /\ go'[h].pc \in Aside
      BY <1>0, <1>1, <2>2 DEF Aside
    <3> QED
      BY <1>1, <3>1, <3>2, <3>3 DEF Dropping
  <2>7. Slotted(r)'
    BY <1>0, <1>1, <2>2 DEF Slots, Slotted
  <2> QED
    BY <2>3, <2>4, <2>5, <2>6, <2>7 DEF Slots
<1> QED
  BY <1>3, <1>4

LEMMA SlotsCounts ==
  ASSUME IInv, KInv, NEW n \in Runs, Decides(n) \/ Resumes(n),
         NEW r \in Calls, ~Restarted(r), Single(r), Slots(r)
  PROVE  Slots(r)'
<1>1. PICK g \in {Mon(n), Timer(n)} :
        /\ Moves(g) /\ go'[g].todo = {} /\ (\E count : Counts(g, count))
        /\ \/ go[g].pc = "policy" /\ go'[g].pc \in {"done", "giveup", "acquire"}
           \/ go[g].pc = "backoff" /\ go'[g].pc = "starting"
  BY DEF Decides, Resumes
<1>2. /\ g \in Goroutines \ Calls /\ r \in Goroutines
      /\ go[g].todo = {} /\ go'[g].rec = go[g].rec
      /\ \A h \in Goroutines : h # g => go'[h] = go[h]
      /\ rec'[r].state = rec[r].state /\ rec'[r].probe = rec[r].probe
      /\ UNCHANGED <<proc, recSlot>>
      /\ \A m \in Runs : go[Mon(m)].pc # "idle" => go'[Mon(m)].pc # "idle"
  BY <1>1, HelperNames DEF Moves, Counts
<1>3. CASE go[g].rec # r
  BY <1>2, <1>3, SlotsFrame
<1>4. CASE go[g].rec = r
  <2>1. Working(g, r) /\ \A h \in Goroutines : Working(h, r) => h = g
    BY <1>1, <1>2, <1>4 DEF Working, Turn, Single, OneWorker
  <2>2. \A h \in Goroutines : Working(h, r)' => h = g
    BY <1>2, <2>1 DEF Working
  <2>3. Placed(r)'
    BY <1>1, <1>2, <2>1, <2>2 DEF Slots, Placed, Ending, Busy
  <2>4. First(r)'
    BY <1>2 DEF Slots, First
  <2>5. Launched(r)'
    <3>1. \A k \in Goroutines :
            go'[k].pc \in {"running", "failed", "probing", "passed"} => go'[k] = go[k]
      BY <1>1, <1>2
    <3>2. Working(g, r)' => go'[g].pc \in Ending \cup Aside /\ go'[g].pc \notin {"wait", "exit"}
      BY <1>1, <1>2 DEF Working, Turn, Ending, Aside
    <3> QED
      BY <1>2, <2>1, <2>2, <3>1, <3>2 DEF Slots, Launched
  <2>6. Dropping(r)'
    <3>1. \A k \in Goroutines :
            go'[k].rec = r /\ "drop" \in go'[k].todo => k # g /\ go'[k] = go[k]
      BY <1>1, <1>2
    <3>2. \A k \in Goroutines :
            go[k].rec = r /\ "drop" \in go[k].todo /\ k # g
              => rec[r].state \in Dead /\ ~rec[r].probe /\ go[g].pc = "backoff"
      BY <1>1, <1>2, <2>1 DEF Slots, Dropping, Aside
    <3> QED
      BY <1>1, <1>2, <2>2, <3>1, <3>2 DEF Dropping, Aside
  <2>7. Slotted(r)'
    BY <1>1, <1>2, <2>2 DEF Slots, Slotted
  <2> QED
    BY <2>3, <2>4, <2>5, <2>6, <2>7 DEF Slots
<1> QED
  BY <1>3, <1>4

LEMMA SlotsEffects ==
  ASSUME IInv, NEW g \in Goroutines, Drops(g) \/ Settles(g),
         NEW r \in Calls, Slots(r)
  PROVE  Slots(r)'
<1>1. /\ r \in Goroutines /\ UNCHANGED <<rec, proc>>
      /\ \A h \in Goroutines :
           /\ go'[h].pc = go[h].pc /\ go'[h].rec = go[h].rec /\ go'[h].run = go[h].run
           /\ "drop" \in go'[h].todo => "drop" \in go[h].todo
      /\ \A n \in Runs : go[Mon(n)].pc # "idle" => go'[Mon(n)].pc # "idle"
  BY HelperNames DEF Drops, Settles, Alone
<1>2. CASE r \in recSlot => r \in recSlot'
  BY <1>1, <1>2, SlotsFrame
<1>3. CASE ~(r \in recSlot => r \in recSlot')
  <2>1. Drops(g) /\ go[g].rec = r
    BY <1>3 DEF Drops, Settles, Target
  <2>2. rec[r].state \in Dead
    BY <2>1 DEF Drops, Slots, Dropping
  <2>3. \A h \in Goroutines : h \notin Calls /\ Working(h, r) => go[h].pc # "restarting"
    BY <2>1 DEF Drops, Slots, Dropping, Aside
  <2>4. \A h \in Goroutines : Working(h, r)' <=> Working(h, r)
    BY <1>1 DEF Working
  <2>5. Placed(r)' /\ Slotted(r)'
    BY <1>1, <2>2, <2>3, <2>4 DEF Slots, Placed, Slotted, IsLive, Dead
  <2>6. First(r)'
    BY <1>1, <2>2 DEF Slots, First, Dead
  <2>7. Launched(r)'
    BY <1>1, <2>4 DEF Slots, Launched
  <2>8. Dropping(r)'
    BY <1>1, <2>4 DEF Slots, Dropping
  <2> QED
    BY <2>5, <2>6, <2>7, <2>8 DEF Slots
<1> QED
  BY <1>2, <1>3

\* A record begins with its slot, and nobody else knows of it.
LEMMA SlotsBegin ==
  ASSUME IInv, KInv, NEW r \in Calls, Creates(r) PROVE Slots(r)'
<1>1. /\ r \in Goroutines /\ go'[r].pc = "starting" /\ go'[r].rec = r /\ go'[r].todo = {}
      /\ \A h \in Goroutines : h # r => go'[h] = go[h]
      /\ UNCHANGED <<rec, proc>> /\ recSlot' = recSlot \cup {r}
  BY HelperNames DEF Creates, Alone
<1>2. /\ rec[r].state = "UNSPECIFIED"
      /\ \A h \in Goroutines : go[h].rec = r => h = r
      /\ \A n \in Runs : proc[n].owner # r
  BY DEF Creates, KInv, Suited, Suits, Unknown, Unmade
<1>3. \A h \in Goroutines : go'[h].rec = r => h = r
  BY <1>1, <1>2
<1>4. \A h \in Goroutines : Working(h, r)' => h = r
  BY <1>3 DEF Working
<1>5. Placed(r)' /\ First(r)' /\ Slotted(r)'
  BY <1>1, <1>2, <1>4 DEF Placed, First, Slotted, Busy, IsLive
<1>6. Launched(r)' /\ Dropping(r)'
  BY <1>1, <1>3 DEF Launched, Dropping
<1> QED
  BY <1>5, <1>6 DEF Slots

LEMMA SlotsCalls ==
  ASSUME IInv, KInv, NEW c \in Calls,
         Arrives(c) \/ Creates(c) \/ Forgets(c) \/ Unlinks(c),
         NEW r \in registered, r \in registered', r \in Calls, Slots(r)
  PROVE  Slots(r)'
<1>1. /\ c \in Goroutines /\ r \in Goroutines
      /\ \A h \in Goroutines : h # c => go'[h] = go[h]
      /\ rec'[r].state = rec[r].state /\ (r # c => rec'[r].probe = rec[r].probe)
      /\ recSlot \subseteq recSlot' /\ UNCHANGED proc
      /\ \A n \in Runs : Mon(n) \in Goroutines /\ Mon(n) # c
  BY HelperNames DEF Arrives, Creates, Forgets, Unlinks, Alone, Moves
<1>2. c # r \/ ~(Arrives(c) \/ Creates(c))
  BY DEF Arrives, Creates, KInv, Suited, Suits, Unknown, Unmade
<1>3. rec'[r].probe = rec[r].probe
  BY <1>1, <1>2 DEF Arrives, Creates, Forgets, Unlinks
<1>4. go'[c].rec = r =>
        /\ go'[c].pc \notin Launch \cup {"running", "failed", "probing", "passed"}
        /\ "drop" \notin go'[c].todo
  BY <1>2 DEF Arrives, Creates, Forgets, Unlinks, Launch, Moves, Target
<1>5. \A h \in Goroutines :
        go'[h].rec = r =>
          \/ /\ go'[h].pc = go[h].pc /\ go[h].rec = r /\ go'[h].run = go[h].run
             /\ "drop" \in go'[h].todo => "drop" \in go[h].todo
          \/ /\ go'[h].pc \notin {"running", "failed", "probing", "passed"}
             /\ ~Working(h, r)' /\ "drop" \notin go'[h].todo
  BY <1>1, <1>4 DEF Working
<1> QED
  BY <1>1, <1>3, <1>5, SlotsFrame

\* A run keeps the record it was forked for, and a record its probe.
LEMMA OwnersStay ==
  ASSUME IInv, KInv, StepKind, NEW n \in Runs, proc[n].owner \in Calls
  PROVE  proc'[n].owner = proc[n].owner
<1>1. proc[n].os # "unborn"
  BY SupervisorAssumption DEF KInv, Owned
<1>2. ASSUME NEW g \in Goroutines,
             \/ Passes(g) \/ Drops(g) \/ Settles(g) \/ \E to \in States : Transits(g, to)
      PROVE  proc'[n].owner = proc[n].owner
  BY <1>2 DEF Passes, Drops, Settles, Transits, SameRuns
<1>3. ASSUME NEW g \in Spawners, Records(g) \/ \E m \in Runs : Forks(g, m) \/ Watches(g, m)
      PROVE  proc'[n].owner = proc[n].owner
  BY <1>1, <1>3 DEF Records, Forks, Watches
<1>4. ASSUME NEW m \in Runs, Schedules(m) \/ Decides(m) \/ Resumes(m)
      PROVE  proc'[n].owner = proc[n].owner
  BY <1>4 DEF Schedules, Decides, Resumes, Counts
<1>5. ASSUME NEW c \in Calls, Arrives(c) \/ Creates(c) \/ Forgets(c) \/ Unlinks(c)
      PROVE  proc'[n].owner = proc[n].owner
  BY <1>5 DEF Arrives, Creates, Forgets, Unlinks
<1>6. CASE Rests \/ FinishClose
  BY <1>6 DEF Rests, FinishClose, SameRuns
<1> QED
  BY <1>2, <1>3, <1>4, <1>5, <1>6 DEF StepKind

LEMMA ProbesStay ==
  ASSUME IInv, KInv, StepKind, NEW r \in registered
  PROVE  rec'[r].probe = rec[r].probe
<1>1. r \in Calls
  BY DEF IInv, TypeOK
<1>2. ASSUME NEW g \in Goroutines,
             \/ Passes(g) \/ Drops(g) \/ Settles(g) \/ \E to \in States : Transits(g, to)
      PROVE  rec'[r].probe = rec[r].probe
  BY <1>1, <1>2 DEF Passes, Drops, Settles, Transits, SameRecords
<1>3. ASSUME NEW g \in Spawners, Records(g) \/ \E m \in Runs : Forks(g, m) \/ Watches(g, m)
      PROVE  rec'[r].probe = rec[r].probe
  BY <1>1, <1>3 DEF Records, Forks, Watches
<1>4. ASSUME NEW m \in Runs, Schedules(m) \/ Decides(m) \/ Resumes(m)
      PROVE  rec'[r].probe = rec[r].probe
  BY <1>1, <1>4 DEF Schedules, Decides, Resumes, Counts
<1>5. ASSUME NEW c \in Calls, Arrives(c) \/ Creates(c) \/ Forgets(c) \/ Unlinks(c)
      PROVE  rec'[r].probe = rec[r].probe
  <2>1. Arrives(c) => r # c
    BY DEF Arrives, KInv, Unknown, Unmade
  <2> QED
    BY <1>1, <1>5, <2>1 DEF Arrives, Creates, Forgets, Unlinks
<1>6. CASE Rests \/ FinishClose
  BY <1>6 DEF Rests, FinishClose
<1> QED
  BY <1>2, <1>3, <1>4, <1>5, <1>6 DEF StepKind

LEMMA OvertakenStays ==
  ASSUME IInv, KInv, StepKind, NEW r \in registered, Overtaken(r)
  PROVE  Overtaken(r)'
<1>1. PICK m \in Runs, n \in Runs : m # n /\ proc[m].owner = r /\ proc[n].owner = r
  BY DEF Overtaken, RunAgain
<1>2. r \in Calls
  BY DEF IInv, TypeOK
<1>3. proc'[m].owner = r /\ proc'[n].owner = r
  BY <1>1, <1>2, OwnersStay
<1>4. ~rec'[r].probe
  BY ProbesStay DEF Overtaken
<1> QED
  BY <1>1, <1>3, <1>4 DEF Overtaken, RunAgain

THEOREM SlotStep == IInv /\ KInv /\ Chain /\ SlotInv /\ [Next]_vars => SlotInv'
<1> SUFFICES ASSUME IInv, KInv, Chain, SlotInv, [Next]_vars, phase' = "open",
                    NEW r \in registered', ~Restarted(r)', ~Overtaken(r)'
             PROVE  Slots(r)'
  BY DEF SlotInv
<1>1. IInv' /\ StepKind
  BY NextInv, StepKinds
<1>2. r \in Calls /\ ~Restarted(r) /\ Single(r)
  BY <1>1, RestartedStays DEF Chain, IInv, TypeOK
<1>3. CASE r \notin registered
  <2>1. Creates(r)
    BY <1>1, <1>3, Beginnings
  <2> QED
    BY <1>2, <2>1, SlotsBegin
<1>4. CASE r \in registered
  <2>1. ~Overtaken(r) /\ Slots(r)
    <3>1. phase = "open"
      BY <1>1, Beginnings
    <3> QED
      BY <1>1, <1>2, <1>4, <3>1, OvertakenStays DEF SlotInv
  <2>2. ASSUME NEW g \in Goroutines, Passes(g) \/ \E to \in States : Transits(g, to)
        PROVE  Slots(r)'
    BY <1>1, <1>2, <2>1, <2>2, SlotsPasses, SlotsTransits
  <2>3. ASSUME NEW g \in Goroutines, Drops(g) \/ Settles(g) PROVE Slots(r)'
    BY <1>2, <2>1, <2>3, SlotsEffects
  <2>4. ASSUME NEW g \in Spawners, Records(g) \/ \E n \in Runs : Forks(g, n) \/ Watches(g, n)
        PROVE  Slots(r)'
    BY <1>2, <2>1, <2>4, SlotsForks, SlotsRecords, SlotsWatches
  <2>5. ASSUME NEW n \in Runs, Schedules(n) \/ Decides(n) \/ Resumes(n) PROVE Slots(r)'
    BY <1>2, <2>1, <2>5, SlotsSchedules, SlotsCounts
  <2>6. ASSUME NEW c \in Calls, Arrives(c) \/ Creates(c) \/ Forgets(c) \/ Unlinks(c)
        PROVE  Slots(r)'
    BY <1>2, <1>4, <2>1, <2>6, SlotsCalls
  <2>7. CASE Rests
    <3>1. /\ UNCHANGED <<rec, recSlot, go>> /\ r \in Goroutines
          /\ \A n \in Runs : proc'[n].owner = proc[n].owner
      BY <1>2, <2>7, HelperNames DEF Rests, SameRuns
    <3> QED
      BY <1>2, <2>1, <3>1, SlotsFrame
  <2>8. ~FinishClose
    BY DEF FinishClose
  <2> QED
    BY <1>1, <2>2, <2>3, <2>4, <2>5, <2>6, <2>7, <2>8 DEF StepKind
<1> QED
  BY <1>3, <1>4

\* A live record is never wedged: while the supervisor is open some goroutine
\* answers for moving it on; and it holds a slot, so that max_concurrent bounds
\* what runs.
THEOREM LiveAlwaysKept == Spec => []LiveIsKept
<1>1. Init => Sound /\ Kept /\ SlotInv
  <2>1. Init => Sound
    BY InitInv, InitKnown, InitChain DEF Sound
  <2>2. Init => Kept /\ SlotInv
    BY DEF Init, Kept, Answered, SlotInv
  <2> QED
    BY <2>1, <2>2
<1>2. Sound /\ Kept /\ SlotInv /\ [Next]_vars => (Sound /\ Kept /\ SlotInv)'
  BY NextInv, KnownStep, DiskStep, ChainStep, KeptStep, SlotStep DEF Sound
<1>3. Sound /\ Kept /\ SlotInv => LiveIsKept
  <2> SUFFICES ASSUME Sound, Kept, SlotInv, phase = "open"
               PROVE  /\ \A r \in Calls :
                           IsLive(rec[r].state) => \E g \in Goroutines : Answerable(g, r)
                      /\ \A r \in LiveRecords : r \in recSlot \/ Restarted(r) \/ Overtaken(r)
    BY DEF LiveIsKept
  <2>1. ASSUME NEW r \in Calls, IsLive(rec[r].state)
        PROVE  \E g \in Goroutines : Answerable(g, r)
    <3>1. Resumed(r) \/ Attended(r)
      BY <2>1 DEF Kept, Answered, IsLive
    <3> QED
      BY <3>1 DEF Resumed, Attended, Resuming, Attending, Answerable
  <2>2. \A r \in LiveRecords : r \in recSlot \/ Restarted(r) \/ Overtaken(r)
    BY DEF LiveRecords, SlotInv, Slots, Slotted
  <2> QED
    BY <2>1, <2>2
<1> QED
  BY <1>1, <1>2, <1>3, PTL DEF Spec
=============================================================================
