--------------------------- MODULE AdoptionProofs ---------------------------
(***************************************************************************)
(* What is proved of adoption, for any records, pids, limits and numbers   *)
(* of agents: the types, the limit on concurrent processes, that a signal  *)
(* reaches a stranger only if that took the pid after the check, and that  *)
(* the disk knows every running process whose identity was recorded.       *)
(***************************************************************************)
EXTENDS Adoption, FiniteSetTheorems, TLAPS

-----------------------------------------------------------------------------
(* The inductive invariant *)

One(slot) == IF slot THEN 1 ELSE 0
Holding(m) == {r \in Records : m[r].slot}

\* Who has a slot, and who has to have one: the work ahead of a record that is to
\* be started keeps the slot that was taken for it.
Kept(x) ==
  /\ x.slot => IsLive(x.state)
  /\ IsLive(x.state) /\ (x.run # 0 \/ x.pc \in {"spawn", "forked", "backoff"}) => x.slot
  /\ x.pc = "backoff" => x.count < MaxRestarts /\ x.state # "UNSPECIFIED"
Balance == inUse = Cardinality(Holding(mem)) /\ \A r \in Records : Kept(mem[r])

\* A record still to be adopted is not in memory, nor is any while no agent is up.
Pending ==
  /\ agent # "adopting" => todo = {}
  /\ agent = "down" => \A r \in Records : mem[r] = NoRecord
  /\ \A r \in todo : mem[r] = NoRecord

\* Whatever is known of a process of a record was started for that record.
Ours(n, r) == n # 0 => n \in 1 .. Len(origin) /\ origin[n] = r
Trace(x, r) ==
  Ours(x.sid, r) /\ Ours(x.run, r) /\ Ours(x.fork.sid, r) /\ Ours(x.fork.run, r)
Traced(r) == Trace(mem[r], r) /\ Ours(disk[r].sid, r)
Numbered ==
  /\ Len(origin) <= MaxForks
  /\ \A p \in Pids : holder[p] <= Len(origin)
  /\ \A r \in Records : Traced(r)

IInv == TypeOK /\ Balance /\ Pending /\ Numbered

\* A signal that has passed its check has found a process of the record.
Checked ==
  \A r \in Records :
    /\ mem[r].pid # 0 => mem[r].sid # 0
    /\ mem[r].fork.pid # 0 => mem[r].fork.sid # 0
    /\ disk[r].pid # 0 => disk[r].sid # 0
    /\ Ours(asked[r].seen, r)
SignalInv == Checked /\ StrangersSafe

At(r, label) == mem[r].pc = label
Started == {"STARTING", "RUNNING", "READY"}

\* The disk follows the memory.
Synced(r) ==
  /\ mem[r] # NoRecord =>
       mem[r].state = disk[r].state /\ mem[r].pid = disk[r].pid /\ mem[r].sid = disk[r].sid
  /\ mem[r].state = "UNSPECIFIED" => mem[r] = NoRecord
  /\ disk[r].state = "UNSPECIFIED" => disk[r] = NotSaved /\ r \notin todo /\ mem[r] = NoRecord
\* The one process of it that is known and may run is the one on disk.
Known(r, n) == n \in known /\ origin[n] = r /\ Running(n)
OnDisk(r) ==
  \A n \in 1 .. Len(origin) :
    Known(r, n) =>
      /\ disk[r].sid = n /\ \A p \in Pids : holder[p] = n => p = disk[r].pid
      /\ disk[r].state \in Started \cup {"ORPHANED"}
      /\ mem[r].pc \in {"idle", "decide"}
\* A process this agent forked is its child until it has been collected.
Child(n) == Running(n) => n \in children
ForkedOne(r) ==
  At(r, "forked") =>
    /\ mem[r].fork.run # 0 /\ mem[r].fork.sid \in {0, mem[r].fork.run}
    /\ \A p \in Pids : holder[p] = mem[r].fork.run => p = mem[r].fork.pid
    /\ Child(mem[r].fork.run)
Watched(r) ==
  /\ mem[r].watch = "monitor" =>
       mem[r].run # 0 /\ mem[r].sid \in {0, mem[r].run} /\ Child(mem[r].run)
  /\ mem[r].watch # "none" => At(r, "idle")
  /\ mem[r].watch # "none" \/ mem[r].pc \in {"spawn", "forked"} => mem[r].state \in Started
  /\ At(r, "decide") => IsLive(mem[r].state) /\ mem[r].settle = "no"
\* Only a record with a probe becomes READY, and it is not settled by the spawn.
Settling(r) ==
  /\ mem[r].settle = "spawn" => r \notin Probed
  /\ mem[r].probing => r \in Probed
  /\ disk[r].state = "READY" => r \in Probed
Sane(r) == Synced(r) /\ OnDisk(r) /\ ForkedOne(r) /\ Watched(r) /\ Settling(r)
Injective == \A p, q \in Pids : holder[p] = holder[q] /\ holder[p] # 0 => p = q
\* What is recorded is a process that was started for a record.
Owned == \A n \in known : origin[n] \in Records
RunInv == Injective /\ Owned /\ \A r \in Records : Sane(r)

-----------------------------------------------------------------------------
(* Lemmas about records and slots *)

\* The rows of the transition table that the proofs need.
LEMMA Table ==
  ASSUME NEW s \in States
  PROVE  /\ CanTransition(s, "RUNNING") => s = "STARTING"
         /\ CanTransition(s, "READY") => s \in {"STARTING", "RUNNING"}
         /\ CanTransition(s, "STARTING") => s \in {"UNSPECIFIED", "RESTARTING"}
         /\ CanTransition(s, "CRASHED") <=> s \in Started \cup {"RESTARTING"}
         /\ CanTransition(s, "RESTARTING") => s # "UNSPECIFIED"
  BY DEF CanTransition, Transitions, States, Started

LEMMA FirstRecord == NoRecord \in Memory /\ NotSaved \in Disk /\ Kept(NoRecord)
  BY AdoptionAssumption DEF NoRecord, NoFork, NotSaved, Memory, Disk, Identity, PidOr0, Forks,
     States, Kept, IsLive

LEMMA SavedTyped == ASSUME NEW x \in Memory PROVE Saved(x) \in Disk
  BY DEF Saved, Memory, Disk

\* A change of one record changes the count of the slots by what it changes there.
LEMMA SlotCount ==
  ASSUME NEW r \in Records, NEW m, NEW n,
         \A s \in Records : m[s].slot \in BOOLEAN /\ n[s].slot \in BOOLEAN,
         \A s \in Records \ {r} : n[s] = m[s]
  PROVE  /\ Cardinality(Holding(m)) \in Nat /\ Cardinality(Holding(n)) \in Nat
         /\ Cardinality(Holding(n)) = Cardinality(Holding(m)) + One(n[r].slot) - One(m[r].slot)
<1>1. IsFiniteSet(Holding(m)) /\ IsFiniteSet(Holding(n))
  BY AdoptionAssumption, FS_Subset DEF Holding
<1>2. Cardinality(Holding(m)) \in Nat /\ Cardinality(Holding(n)) \in Nat
  BY <1>1, FS_CardinalityType
<1>3. CASE n[r].slot = m[r].slot
  <2>1. Holding(n) = Holding(m)
    BY <1>3 DEF Holding
  <2> QED
    BY <1>2, <1>3, <2>1 DEF One
<1>4. CASE n[r].slot /\ ~m[r].slot
  <2>1. Holding(n) = Holding(m) \cup {r} /\ r \notin Holding(m)
    BY <1>4 DEF Holding
  <2>2. Cardinality(Holding(n)) = Cardinality(Holding(m)) + 1
    BY <1>1, <2>1, FS_AddElement
  <2> QED
    BY <1>2, <1>4, <2>2 DEF One
<1>5. CASE ~n[r].slot /\ m[r].slot
  <2>1. Holding(m) = Holding(n) \cup {r} /\ r \notin Holding(n)
    BY <1>5 DEF Holding
  <2>2. Cardinality(Holding(m)) = Cardinality(Holding(n)) + 1
    BY <1>1, <2>1, FS_AddElement
  <2> QED
    BY <1>2, <1>5, <2>2 DEF One
<1> QED
  BY <1>3, <1>4, <1>5

-----------------------------------------------------------------------------
(* One record's step *)

\* The record r becomes x, and with it its copy on disk and the count of slots.
Becomes(r, x) ==
  /\ mem' = [mem EXCEPT ![r] = x]
  /\ disk' = disk \/ disk' = [disk EXCEPT ![r] = Saved(x)]
  /\ inUse' = inUse + One(x.slot) - One(mem[r].slot)

\* A state that is not live is not left by SetState.
Stays(x, to) == IsLive(to) /\ Legal(x, to) => IsLive(x.state)
After(x, to) == IF Legal(x, to) THEN Moved(x, to) ELSE x

LEMMA Restoring ==
  ASSUME TypeOK, NEW r \in Records, NEW x \in Memory, NEW to \in States,
         to # "UNSPECIFIED", Kept(x), x.slot = mem[r].slot, IsLive(to) => IsLive(x.state),
         RestoreState(r, x, to)
  PROVE  /\ Moved(x, to) \in Memory /\ Kept(Moved(x, to)) /\ Becomes(r, Moved(x, to))
         /\ inUse' <= inUse
<1> DEFINE y == Moved(x, to)
<1>1. y \in Memory
  BY DEF Moved, Memory
<1>2. /\ y.state = to /\ y.run = x.run /\ y.pc = x.pc /\ y.count = x.count
      /\ y.slot = (x.slot /\ ~(IsLive(x.state) /\ ~IsLive(to)))
  BY DEF Moved, Memory
<1>3. x.slot \in BOOLEAN /\ inUse \in Int
  BY DEF Memory, TypeOK
<1>5. GivenBack(x, to) = One(x.slot) - One(y.slot)
  <2>1. CASE x.slot /\ IsLive(x.state) /\ ~IsLive(to)
    <3>1. x.slot = TRUE /\ y.slot = FALSE
      BY <1>2, <1>3, <2>1
    <3> QED
      BY <2>1, <3>1 DEF GivenBack, One
  <2>2. CASE ~(x.slot /\ IsLive(x.state) /\ ~IsLive(to))
    <3>1. x.slot = y.slot
      BY <1>2, <1>3, <2>2
    <3> QED
      BY <1>3, <2>2, <3>1 DEF GivenBack, One
  <2> QED
    BY <2>1, <2>2
<1>6. inUse' = inUse + One(y.slot) - One(mem[r].slot) /\ inUse' <= inUse
  BY <1>2, <1>3, <1>5 DEF One, RestoreState
<1>7. mem' = [mem EXCEPT ![r] = y] /\ disk' = [disk EXCEPT ![r] = Saved(y)]
  BY DEF RestoreState, Save, Put
<1>4. Kept(y)
  BY <1>2, <1>3 DEF Kept
<1> QED
  BY <1>1, <1>2, <1>4, <1>6, <1>7 DEF Becomes

LEMMA Setting ==
  ASSUME TypeOK, NEW r \in Records, NEW x \in Memory, NEW to \in States,
         to # "UNSPECIFIED", Kept(x), x.slot = mem[r].slot, Stays(x, to),
         SetState(r, x, to)
  PROVE  /\ After(x, to) \in Memory /\ Kept(After(x, to)) /\ Becomes(r, After(x, to))
         /\ inUse' <= inUse
<1>1. CASE Legal(x, to)
  BY <1>1, Restoring DEF SetState, Stays, After
<1>2. CASE ~Legal(x, to)
  <2>1. mem' = [mem EXCEPT ![r] = x] /\ disk' = disk /\ inUse' = inUse
    BY <1>2 DEF SetState, Put
  <2>2. inUse \in Int /\ After(x, to) = x
    BY <1>2 DEF TypeOK, After
  <2> QED
    BY <2>1, <2>2 DEF Becomes, One
<1> QED
  BY <1>1, <1>2

\* A step of one record that keeps the invariant of it.  Processes are only added.
Grows == \A n \in 1 .. Len(origin) : n \in 1 .. Len(origin)' /\ origin'[n] = origin[n]
Claim == inUse' <= inUse \/ (inUse' = inUse + 1 /\ Free)
Works(r) ==
  /\ agent' = agent /\ cap' = cap /\ agent # "down" /\ r \notin todo' /\ todo' \subseteq todo
  /\ Grows /\ Claim
  /\ \E x \in Memory : Becomes(r, x) /\ Kept(x) /\ Trace(x, r)'

LEMMA OursKept ==
  ASSUME Grows, NEW n, NEW r, Ours(n, r) PROVE Ours(n, r)'
  BY DEF Grows, Ours

LEMMA TraceKept ==
  ASSUME Grows, NEW x, NEW r, Trace(x, r) PROVE Trace(x, r)'
  BY OursKept DEF Trace

LEMMA WorkKeeps ==
  ASSUME IInv, NEW r \in Records, Works(r)
  PROVE  /\ mem' \in [Records -> Memory] /\ disk' \in [Records -> Disk]
         /\ cap' \in Caps \cup {FirstCap} /\ inUse' \in 0 .. cap' /\ todo' \subseteq Records
         /\ agent' \in {"up", "adopting", "down"}
         /\ Balance' /\ Pending' /\ \A s \in Records : Traced(s)'
<1>1. PICK x \in Memory : Becomes(r, x) /\ Kept(x) /\ Trace(x, r)'
  BY DEF Works
<1>2. /\ mem \in [Records -> Memory] /\ disk \in [Records -> Disk] /\ inUse \in 0 .. cap
      /\ cap \in Nat /\ cap \in Caps \cup {FirstCap} /\ todo \subseteq Records
      /\ agent \in {"up", "adopting", "down"}
  BY AdoptionAssumption DEF IInv, TypeOK
<1>3. mem' \in [Records -> Memory] /\ mem'[r] = x /\ \A s \in Records \ {r} : mem'[s] = mem[s]
  BY <1>1, <1>2 DEF Becomes
<1>4. /\ disk' \in [Records -> Disk]
      /\ disk'[r] = disk[r] \/ disk'[r].sid = x.sid
      /\ \A s \in Records \ {r} : disk'[s] = disk[s]
  BY <1>1, <1>2, SavedTyped DEF Becomes, Saved
<1>5. \A s \in Records : mem[s].slot \in BOOLEAN /\ mem'[s].slot \in BOOLEAN
  BY <1>2, <1>3 DEF Memory
<1>6. /\ Cardinality(Holding(mem)) \in Nat /\ Cardinality(Holding(mem')) \in Nat
      /\ Cardinality(Holding(mem')) = Cardinality(Holding(mem)) + One(x.slot) - One(mem[r].slot)
  BY <1>3, <1>5, SlotCount
<1>7. inUse' = Cardinality(Holding(mem'))
  BY <1>1, <1>6 DEF Becomes, IInv, Balance
<1>8. Balance'
  BY <1>1, <1>3, <1>7 DEF IInv, Balance
<1>9. inUse' \in 0 .. cap'
  BY <1>2, <1>6, <1>7 DEF Works, Claim, Free
<1>10. Pending'
  BY <1>2, <1>3 DEF IInv, Pending, Works
<1>11. ASSUME NEW s \in Records PROVE Traced(s)'
  <2>1. Trace(mem[s], s)' /\ Ours(disk[s].sid, s)'
    <3>1. Trace(mem[s], s) /\ Ours(disk[s].sid, s) /\ Grows
      BY DEF IInv, Numbered, Traced, Works
    <3>2. CASE s = r
      <4>1. Ours(x.sid, r)' /\ Ours(disk[r].sid, r)
        BY <1>1, <3>1, <3>2 DEF Trace
      <4>2. CASE disk'[r] = disk[r]
        BY <1>1, <1>3, <3>1, <3>2, <4>1, <4>2, OursKept DEF Trace, Ours, Grows
      <4>3. CASE disk'[r].sid = x.sid
        BY <1>1, <1>3, <3>2, <4>1, <4>3 DEF Trace, Ours
      <4> QED
        BY <1>4, <4>2, <4>3
    <3>3. CASE s # r
      <4>1. mem'[s] = mem[s] /\ disk'[s] = disk[s]
        BY <1>3, <1>4, <3>3
      <4> QED
        BY <3>1, <4>1 DEF Trace, Ours, Grows
    <3> QED
      BY <3>2, <3>3
  <2> QED
    BY <2>1 DEF Traced
<1> QED
  BY <1>2, <1>3, <1>4, <1>8, <1>9, <1>10, <1>11 DEF Works

-----------------------------------------------------------------------------
(* Each operation on a record is such a step *)

\* Nothing but the one record moves.
Quiet == UNCHANGED <<agent, cap, todo, origin>> /\ Up

LEMMA InMemory ==
  ASSUME IInv, NEW r \in Records
  PROVE  /\ mem[r] \in Memory /\ Kept(mem[r]) /\ Trace(mem[r], r) /\ disk[r] \in Disk
         /\ mem[r] # NoRecord => r \notin todo
         /\ inUse \in Int /\ One(mem[r].slot) \in Int
  BY DEF IInv, TypeOK, Balance, Pending, Numbered, Traced, One

\* A record that is written, or only changed in memory, without a slot.
LEMMA PutWorks ==
  ASSUME IInv, NEW r \in Records, NEW x \in Memory,
         Kept(x), Trace(x, r), x.slot = mem[r].slot, mem[r] # NoRecord, Quiet,
         Save(r, x) \/ (Put(r, x) /\ UNCHANGED disk), UNCHANGED inUse
  PROVE  Works(r)
<1>1. Grows /\ Trace(x, r)' /\ r \notin todo'
  BY InMemory, TraceKept DEF Quiet, Grows
<1>2. Becomes(r, x) /\ Claim
  BY InMemory DEF Save, Put, Becomes, Claim
<1> QED
  BY <1>1, <1>2 DEF Works, Quiet, Up

LEMMA SettingWorks ==
  ASSUME IInv, NEW r \in Records, NEW x \in Memory, NEW to \in States, to # "UNSPECIFIED",
         Kept(x), Trace(x, r), x.slot = mem[r].slot, Stays(x, to), mem[r] # NoRecord, Quiet,
         SetState(r, x, to) \/ (RestoreState(r, x, to) /\ (IsLive(to) => IsLive(x.state)))
  PROVE  Works(r)
<1>1. Grows /\ Trace(x, r)' /\ r \notin todo' /\ TypeOK
  BY InMemory, TraceKept DEF Quiet, Grows, IInv
<1>2. CASE SetState(r, x, to)
  <2>1. After(x, to) \in Memory /\ Kept(After(x, to)) /\ Becomes(r, After(x, to)) /\ Claim
    BY <1>1, <1>2, InMemory, Setting DEF Claim
  <2>2. Trace(After(x, to), r)'
    BY <1>1 DEF After, Moved, Trace, Memory
  <2> QED
    BY <1>1, <2>1, <2>2 DEF Works, Quiet, Up
<1>3. CASE RestoreState(r, x, to) /\ (IsLive(to) => IsLive(x.state))
  <2>1. Moved(x, to) \in Memory /\ Kept(Moved(x, to)) /\ Becomes(r, Moved(x, to)) /\ Claim
    BY <1>1, <1>3, InMemory, Restoring DEF Claim
  <2>2. Trace(Moved(x, to), r)'
    BY <1>1 DEF Moved, Trace, Memory
  <2> QED
    BY <1>1, <2>1, <2>2 DEF Works, Quiet, Up
<1> QED
  BY <1>2, <1>3

\* Taking a slot for a record that had none, or keeping the one it has.
LEMMA TakingWorks ==
  ASSUME IInv, NEW r \in Records, NEW x \in Memory, Kept(x), Trace(x, r), r \notin todo',
         agent' = agent, cap' = cap, Up, origin' = origin, todo' \subseteq todo,
         Save(r, x) \/ (Put(r, x) /\ UNCHANGED disk),
         inUse' = inUse + One(x.slot) - One(mem[r].slot), x.slot = mem[r].slot \/ Free
  PROVE  Works(r)
<1>1. Grows /\ Trace(x, r)'
  BY TraceKept DEF Grows
<1>2. Becomes(r, x)
  BY DEF Save, Put, Becomes
<1>3. Claim
  BY InMemory DEF Claim, One
<1> QED
  BY <1>1, <1>2, <1>3 DEF Works, Up

LEMMA StartWorks ==
  ASSUME IInv, NEW r \in Records, StartProcess(r) PROVE Works(r)
<1> DEFINE x == [NoRecord EXCEPT !.state = "STARTING", !.slot = TRUE, !.pc = "spawn"]
<1>1. x \in Memory
  BY FirstRecord DEF Memory, States
<1>2. /\ x.slot = TRUE /\ x.state = "STARTING" /\ x.pc = "spawn"
      /\ x.sid = 0 /\ x.run = 0 /\ x.fork = NoFork
  BY DEF NoRecord
<1>3. Kept(x) /\ Trace(x, r)
  BY <1>2 DEF Kept, Trace, Ours, IsLive, NoFork
<1>4. r \notin todo' /\ todo' \subseteq todo
  BY DEF StartProcess, IInv, Pending
<1>5. inUse' = inUse + One(x.slot) - One(mem[r].slot)
  BY <1>2, InMemory DEF StartProcess, One, NoRecord
<1> QED
  BY <1>1, <1>3, <1>4, <1>5, TakingWorks DEF StartProcess, Up, host

LEMMA SpawnFailsWorks ==
  ASSUME IInv, NEW r \in Records, SpawnFails(r) PROVE Works(r)
<1> DEFINE x == [mem[r] EXCEPT !.pc = "idle"]
<1>1. mem[r] \in Memory /\ Kept(mem[r]) /\ Trace(mem[r], r) /\ mem[r].pc = "spawn"
  BY InMemory DEF SpawnFails
<1>2. x \in Memory /\ x.slot = mem[r].slot /\ Trace(x, r)
  BY <1>1 DEF Memory, Trace
<1>3. Kept(x)
  BY <1>1 DEF Memory, Kept
<1>4. mem[r] # NoRecord /\ Quiet
  BY <1>1 DEF SpawnFails, Quiet, NoRecord, host
<1>5. Stays(x, "CRASHED")
  BY DEF Stays, IsLive
<1> QED
  BY <1>2, <1>3, <1>4, <1>5, SettingWorks DEF SpawnFails, States

LEMMA IdentifyWorks ==
  ASSUME IInv, NEW r \in Records, Identify(r) PROVE Works(r)
<1> DEFINE x == Identified(r)
<1>1. mem[r] \in Memory /\ Kept(mem[r]) /\ Trace(mem[r], r) /\ mem[r].pc = "forked"
  BY InMemory DEF Identify, Recorded
<1>2. x \in Memory /\ x.slot = mem[r].slot
  <2>1. mem[r].fork \in Identity /\ NoFork \in Identity /\ (r \in Probed) \in BOOLEAN
    BY <1>1, AdoptionAssumption DEF Memory, Identity, NoFork, Forks, PidOr0
  <2> QED
    BY <1>1, <2>1 DEF Memory, Identified, Identity
<1>3. /\ x.pc = "idle" /\ x.state = mem[r].state /\ x.sid = mem[r].fork.sid
      /\ x.run = mem[r].fork.run /\ x.fork = NoFork
  BY <1>1 DEF Memory, Identified
<1>4. Trace(x, r)
  BY <1>1, <1>3 DEF Trace, Ours, NoFork
<1>5. Kept(x)
  BY <1>1, <1>2, <1>3 DEF Kept
<1>6. mem[r] # NoRecord /\ Quiet
  BY <1>1 DEF Identify, Recorded, Quiet, NoRecord, host, limits
<1> QED
  BY <1>2, <1>4, <1>5, <1>6, PutWorks DEF Identify, Recorded, limits

LEMMA SettleWorks ==
  ASSUME IInv, NEW r \in Records, Settle(r) PROVE Works(r)
<1> DEFINE x  == [mem[r] EXCEPT !.settle = "no"]
           to == IF mem[r].settle = "spawn" /\ ~Legal(x, "RUNNING") THEN "CRASHED" ELSE "RUNNING"
<1>1. mem[r] \in Memory /\ Kept(mem[r]) /\ Trace(mem[r], r) /\ mem[r].settle # "no"
  BY InMemory DEF Settle
<1>2. x \in Memory /\ x.slot = mem[r].slot /\ x.state = mem[r].state /\ Trace(x, r)
  BY <1>1 DEF Memory, Trace
<1>3. Kept(x)
  BY <1>1 DEF Memory, Kept
<1>4. mem[r] # NoRecord /\ Quiet
  BY <1>1 DEF Settle, Quiet, NoRecord, host
<1>5. Stays(x, to) /\ to \in States /\ to # "UNSPECIFIED"
  <2>1. x.state \in States
    BY <1>2 DEF Memory
  <2> QED
    BY <2>1, Table DEF Stays, IsLive, Legal, States
<1>6. SetState(r, x, to)
  BY DEF Settle
<1> QED
  BY <1>2, <1>3, <1>4, <1>5, <1>6, SettingWorks

LEMMA ProbeEndsWorks ==
  ASSUME IInv, NEW r \in Records, ProbeEnds(r) PROVE Works(r)
<1> DEFINE x == [mem[r] EXCEPT !.probing = FALSE]
<1>1. mem[r] \in Memory /\ Kept(mem[r]) /\ Trace(mem[r], r) /\ mem[r].probing
  BY InMemory DEF ProbeEnds
<1>2. x \in Memory /\ x.slot = mem[r].slot /\ x.state = mem[r].state /\ Trace(x, r)
  BY <1>1 DEF Memory, Trace
<1>3. Kept(x)
  BY <1>1 DEF Memory, Kept
<1>4. mem[r] # NoRecord /\ Quiet
  BY <1>1 DEF ProbeEnds, Quiet, NoRecord, host
<1>5. Stays(x, "READY")
  <2>1. x.state \in States
    BY <1>2 DEF Memory
  <2> QED
    BY <2>1, Table DEF Stays, IsLive, Legal
<1>6. CASE SetState(r, x, "READY")
  BY <1>2, <1>3, <1>4, <1>5, <1>6, SettingWorks DEF States
<1>7. CASE Put(r, x) /\ UNCHANGED <<disk, inUse>>
  BY <1>2, <1>3, <1>4, <1>7, PutWorks
<1> QED
  BY <1>6, <1>7 DEF ProbeEnds

LEMMA EndedWorks ==
  ASSUME IInv, NEW r \in Records, Ended(r), mem[r] # NoRecord, Up, UNCHANGED agent
  PROVE  Works(r)
<1> DEFINE x == [mem[r] EXCEPT !.watch = "none", !.run = 0, !.pc = "ended"]
<1>1. mem[r] \in Memory /\ Kept(mem[r]) /\ Trace(mem[r], r)
  BY InMemory
<1>2. /\ x \in Memory /\ x.slot = mem[r].slot /\ x.run = 0 /\ x.pc = "ended"
      /\ x.state = mem[r].state
  <2>1. 0 \in Forks
    BY AdoptionAssumption DEF Forks
  <2> QED
    BY <1>1, <2>1 DEF Memory
<1>3. Kept(x) /\ Trace(x, r)
  <2>1. x.sid = mem[r].sid /\ x.fork = mem[r].fork
    BY <1>1 DEF Memory
  <2> QED
    BY <1>1, <1>2, <2>1 DEF Kept, Trace, Ours
<1>4. Quiet
  BY DEF Ended, Quiet, host
<1>5. Stays(x, "CRASHED") /\ "CRASHED" \in States
  BY DEF Stays, IsLive, States
<1> QED
  BY <1>2, <1>3, <1>4, <1>5, SettingWorks DEF Ended

LEMMA MonitorWorks ==
  ASSUME IInv, NEW r \in Records, Monitor(r) PROVE Works(r)
<1>1. mem[r] # NoRecord
  BY DEF Monitor, NoRecord
<1> QED
  BY <1>1, EndedWorks DEF Monitor, Ended

LEMMA WatchAdoptedWorks ==
  ASSUME IInv, NEW r \in Records, WatchAdopted(r) PROVE Works(r)
<1> DEFINE x == [mem[r] EXCEPT !.watch = "none"]
<1>1. mem[r] \in Memory /\ Kept(mem[r]) /\ Trace(mem[r], r) /\ mem[r] # NoRecord
  BY InMemory DEF WatchAdopted, NoRecord
<1>2. CASE Ended(r)
  BY <1>1, <1>2, EndedWorks DEF WatchAdopted, Ended
<1>3. CASE Put(r, x) /\ UNCHANGED <<host, agent, limits, todo, disk>>
  <2>1. x \in Memory /\ x.slot = mem[r].slot /\ Kept(x) /\ Trace(x, r)
    BY <1>1 DEF Memory, Kept, Trace
  <2>2. Quiet /\ UNCHANGED <<disk, inUse>>
    BY <1>3 DEF WatchAdopted, Quiet, host, limits
  <2> QED
    BY <1>1, <1>3, <2>1, <2>2, PutWorks
<1> QED
  BY <1>2, <1>3 DEF WatchAdopted

LEMMA MaybeRestartWorks ==
  ASSUME IInv, NEW r \in Records, MaybeRestart(r) PROVE Works(r)
<1>1. mem[r] \in Memory /\ Kept(mem[r]) /\ Trace(mem[r], r) /\ mem[r].pc = "ended"
  BY InMemory DEF MaybeRestart
<1>2. mem[r] # NoRecord /\ Quiet /\ r \notin todo'
  BY <1>1, InMemory DEF MaybeRestart, NoRecord, Quiet, host
<1>3. ASSUME NEW x, x = [mem[r] EXCEPT !.state = "RESTARTING", !.slot = TRUE, !.pc = "backoff"],
             Save(r, x), mem[r].count < MaxRestarts, Free,
             inUse' = IF mem[r].slot THEN inUse ELSE inUse + 1
      PROVE  Works(r)
  <2>1. /\ x \in Memory /\ x.slot = TRUE /\ x.state = "RESTARTING" /\ x.count = mem[r].count
        /\ x.sid = mem[r].sid /\ x.run = mem[r].run /\ x.fork = mem[r].fork
    BY <1>1, <1>3 DEF Memory, States
  <2>2. Kept(x) /\ Trace(x, r)
    BY <1>1, <1>3, <2>1 DEF Kept, Trace, IsLive
  <2>3. inUse' = inUse + One(x.slot) - One(mem[r].slot)
    BY <1>1, <1>3, <2>1, InMemory DEF One
  <2> QED
    BY <1>2, <1>3, <2>1, <2>2, <2>3, TakingWorks DEF Quiet
<1>4. ASSUME NEW x, x = [mem[r] EXCEPT !.pc = "idle"], Put(r, x), UNCHANGED <<disk, inUse>>
      PROVE  Works(r)
  <2>1. x \in Memory /\ x.slot = mem[r].slot /\ Kept(x) /\ Trace(x, r)
    BY <1>1, <1>4 DEF Memory, Kept, Trace
  <2> QED
    BY <1>2, <1>4, <2>1, PutWorks
<1> QED
  BY <1>3, <1>4 DEF MaybeRestart

LEMMA BackoffWorks ==
  ASSUME IInv, NEW r \in Records, Backoff(r) PROVE Works(r)
<1>1. mem[r] \in Memory /\ Kept(mem[r]) /\ Trace(mem[r], r) /\ mem[r].pc = "backoff"
  BY InMemory DEF Backoff
<1>2. mem[r] # NoRecord /\ Quiet
  BY <1>1 DEF Backoff, NoRecord, Quiet, host
<1>3. ASSUME NEW x, x = [mem[r] EXCEPT !.pc = "idle"], SetState(r, x, "CRASHED")
      PROVE  Works(r)
  <2>1. x \in Memory /\ x.slot = mem[r].slot /\ Kept(x) /\ Trace(x, r)
    BY <1>1, <1>3 DEF Memory, Kept, Trace
  <2>2. Stays(x, "CRASHED") /\ "CRASHED" \in States
    BY DEF Stays, IsLive, States
  <2> QED
    BY <1>2, <1>3, <2>1, <2>2, SettingWorks
<1>4. ASSUME NEW pc \in {"spawn", "idle"}, NEW x,
             x = [[mem[r] EXCEPT !.count = @ + 1] EXCEPT !.pc = pc], SetState(r, x, "STARTING")
      PROVE  Works(r)
  <2>1. mem[r].count \in 0 .. MaxRestarts /\ mem[r].count < MaxRestarts
        /\ mem[r].state \in States /\ mem[r].state # "UNSPECIFIED"
    BY <1>1 DEF Kept, Memory
  <2>2. /\ x.pc = pc /\ x.slot = mem[r].slot /\ x.state = mem[r].state /\ x.run = mem[r].run
        /\ x.count = mem[r].count + 1
    BY <1>1, <1>4 DEF Memory
  <2>3. x \in Memory
    <3>1. mem[r].count + 1 \in 0 .. MaxRestarts
      BY <2>1, AdoptionAssumption
    <3>2. [mem[r] EXCEPT !.count = @ + 1] \in Memory
      BY <1>1, <3>1 DEF Memory
    <3> QED
      BY <1>4, <3>2 DEF Memory
  <2>4. Kept(x) /\ Trace(x, r)
    BY <1>1, <1>4, <2>2 DEF Memory, Kept, Trace
  <2>5. Stays(x, "STARTING") /\ "STARTING" \in States
    BY <2>1, <2>2, Table DEF Stays, Legal, IsLive, States
  <2> QED
    BY <1>2, <1>4, <2>2, <2>3, <2>4, <2>5, SettingWorks
<1> QED
  BY <1>3, <1>4 DEF Backoff

LEMMA StopWorks ==
  ASSUME IInv, NEW r \in Records, StopProcess(r) PROVE Works(r)
<1> DEFINE x == [mem[r] EXCEPT !.disabled = TRUE]
<1>1. mem[r] \in Memory /\ Kept(mem[r]) /\ Trace(mem[r], r)
  BY InMemory
<1>2. x \in Memory /\ x.slot = mem[r].slot /\ Kept(x) /\ Trace(x, r)
  BY <1>1 DEF Memory, Kept, Trace
<1>3. mem[r] # NoRecord /\ Quiet /\ UNCHANGED <<disk, inUse>>
  BY DEF StopProcess, Quiet, Up, host, limits
<1> QED
  BY <1>2, <1>3, PutWorks DEF StopProcess

LEMMA RestartWorks ==
  ASSUME IInv, NEW r \in Records, RestartProcess(r) PROVE Works(r)
<1>1. /\ mem[r] \in Memory /\ Kept(mem[r]) /\ Trace(mem[r], r) /\ mem[r].state = "CRASHED"
      /\ mem[r].slot = FALSE
  BY InMemory DEF RestartProcess, Restartable, Kept, IsLive, Memory
<1>2. mem[r] # NoRecord /\ Quiet /\ r \notin todo'
  BY <1>1, InMemory DEF RestartProcess, NoRecord, Quiet, Up, host
<1>3. ASSUME NEW x, x = [mem[r] EXCEPT !.disabled = FALSE, !.state = "STARTING",
                                       !.slot = TRUE, !.pc = "spawn"],
             Save(r, x), Free, inUse' = inUse + 1
      PROVE  Works(r)
  <2>1. /\ x \in Memory /\ x.slot = TRUE /\ x.state = "STARTING" /\ x.pc = "spawn"
        /\ x.sid = mem[r].sid /\ x.run = mem[r].run /\ x.fork = mem[r].fork
    BY <1>1, <1>3 DEF Memory, States
  <2>2. Kept(x) /\ Trace(x, r)
    BY <1>1, <2>1 DEF Kept, Trace, IsLive
  <2>3. inUse' = inUse + One(x.slot) - One(mem[r].slot)
    BY <1>1, <1>3, <2>1, InMemory DEF One
  <2> QED
    BY <1>2, <1>3, <2>1, <2>2, <2>3, TakingWorks DEF Quiet
<1>4. ASSUME NEW x, x = [mem[r] EXCEPT !.disabled = FALSE], Put(r, x), UNCHANGED <<disk, inUse>>
      PROVE  Works(r)
  <2>1. x \in Memory /\ x.slot = mem[r].slot /\ Kept(x) /\ Trace(x, r)
    BY <1>1, <1>4 DEF Memory, Kept, Trace
  <2> QED
    BY <1>2, <1>4, <2>1, PutWorks
<1> QED
  BY <1>3, <1>4 DEF RestartProcess

LEMMA RebuildWorks ==
  ASSUME IInv, NEW r \in Records, Rebuild(r) PROVE Works(r)
<1> DEFINE y == Restored(r)
<1>1. /\ disk[r] \in Disk /\ Ours(disk[r].sid, r) /\ mem[r] = NoRecord
      /\ r \notin todo' /\ todo' \subseteq todo
  BY DEF Rebuild, IsNext, IInv, TypeOK, Numbered, Traced, Pending
<1>2. /\ y \in Memory /\ y.slot = FALSE /\ y.state = disk[r].state /\ y.sid = disk[r].sid
      /\ y.run = 0 /\ y.fork = NoFork /\ y.pc = "idle"
  BY <1>1, FirstRecord DEF Restored, NoRecord, Memory, Disk
<1>3. Kept(y) /\ Trace(y, r)
  BY <1>1, <1>2 DEF Kept, Trace, Ours, NoFork
<1>4. One(mem[r].slot) = 0 /\ mem[r].slot = FALSE /\ inUse \in Int
  BY <1>1, InMemory DEF One, NoRecord
<1>5. agent' = agent /\ cap' = cap /\ Up /\ origin' = origin /\ disk' = disk
  BY DEF Rebuild, IsNext, Up, host
<1>6. ASSUME NEW x, x = [y EXCEPT !.slot = Free, !.pc = "decide"], IsLive(y.state),
             Put(r, x), inUse' = IF Free THEN inUse + 1 ELSE inUse
      PROVE  Works(r)
  <2>1. Free \in BOOLEAN
    BY DEF Free
  <2>2. /\ x \in Memory /\ x.slot = Free /\ x.state = y.state /\ x.pc = "decide"
        /\ x.sid = y.sid /\ x.run = y.run /\ x.fork = y.fork
    BY <1>2, <1>6, <2>1 DEF Memory
  <2>3. Kept(x) /\ Trace(x, r)
    BY <1>2, <1>3, <1>6, <2>2 DEF Kept, Trace
  <2>4. inUse' = inUse + One(x.slot) - One(mem[r].slot) /\ (x.slot = mem[r].slot \/ Free)
    <3>1. CASE Free
      BY <1>4, <1>6, <2>2, <3>1 DEF One
    <3>2. CASE ~Free
      <4>1. x.slot = FALSE
        BY <2>1, <2>2, <3>2
      <4>2. inUse' = inUse
        BY <1>6, <3>2
      <4>3. One(x.slot) = 0
        BY <4>1 DEF One
      <4>4. inUse' = inUse + One(x.slot) - One(mem[r].slot)
        BY <1>4, <4>2, <4>3
      <4> QED
        BY <1>4, <4>1, <4>4
    <3> QED
      BY <3>1, <3>2
  <2> QED
    BY <1>1, <1>5, <1>6, <2>2, <2>3, <2>4, TakingWorks
<1>7. ASSUME Put(r, y), UNCHANGED inUse PROVE Works(r)
  <2>1. inUse' = inUse + One(y.slot) - One(mem[r].slot)
    BY <1>2, <1>4, <1>7 DEF One
  <2> QED
    BY <1>1, <1>2, <1>3, <1>4, <1>5, <1>7, <2>1, TakingWorks
<1> QED
  BY <1>2, <1>6, <1>7 DEF Rebuild

LEMMA DecisionWorks ==
  ASSUME IInv, NEW r \in Records, AdoptionDecision(r) PROVE Works(r)
<1>1. mem[r] \in Memory /\ Kept(mem[r]) /\ Trace(mem[r], r) /\ mem[r].pc = "decide"
  BY InMemory DEF AdoptionDecision
<1>2. mem[r] # NoRecord /\ Quiet /\ UNCHANGED inUse
  <2>1. Up /\ UNCHANGED <<host, agent, limits, todo>>
    BY DEF AdoptionDecision
  <2> QED
    BY <1>1, <2>1 DEF NoRecord, Quiet, host, limits
<1>3. ASSUME NEW watch \in {"poll", "none"}, NEW settle \in {"adopt", "no"},
             NEW probing \in BOOLEAN, NEW x,
             x = [mem[r] EXCEPT !.pc = "idle", !.watch = watch, !.settle = settle,
                                !.probing = probing], Save(r, x)
      PROVE  Works(r)
  <2>1. x \in Memory /\ x.slot = mem[r].slot /\ Kept(x) /\ Trace(x, r)
    BY <1>1, <1>3 DEF Memory, Kept, Trace
  <2> QED
    BY <1>2, <1>3, <2>1, PutWorks
<1>4. ASSUME NEW x, x = [mem[r] EXCEPT !.pc = "refused"], Put(r, x), UNCHANGED disk
      PROVE  Works(r)
  <2>1. x \in Memory /\ x.slot = mem[r].slot /\ Kept(x) /\ Trace(x, r)
    BY <1>1, <1>4 DEF Memory, Kept, Trace
  <2> QED
    BY <1>2, <1>4, <2>1, PutWorks
<1>5. CASE Put(r, [mem[r] EXCEPT !.pc = "refused"]) /\ UNCHANGED disk
  BY <1>4, <1>5
<1>6. CASE Proven(mem[r]) /\ ~(Put(r, [mem[r] EXCEPT !.pc = "refused"]) /\ UNCHANGED disk)
  <2> DEFINE starting == mem[r].state = "STARTING"
             settle   == IF starting /\ r \notin Probed THEN "adopt" ELSE "no"
  <2>1. PICK watch \in {"poll"} \cup (IF "capture" \in Faults THEN {"none"} ELSE {}) :
          Save(r, [mem[r] EXCEPT !.pc = "idle", !.watch = watch, !.settle = settle,
                                 !.probing = starting /\ r \in Probed])
    BY <1>6 DEF AdoptionDecision
  <2>2. watch \in {"poll", "none"} /\ settle \in {"adopt", "no"}
        /\ (starting /\ r \in Probed) \in BOOLEAN
    OBVIOUS
  <2> QED
    BY <1>3, <2>1, <2>2
<1> QED
  BY <1>5, <1>6 DEF AdoptionDecision

LEMMA OrphanWorks ==
  ASSUME IInv, NEW r \in Records, OrphanOrTerminal(r) PROVE Works(r)
<1> DEFINE x == [mem[r] EXCEPT !.pc = "idle"]
<1>1. mem[r] \in Memory /\ Kept(mem[r]) /\ Trace(mem[r], r) /\ mem[r].pc = "refused"
  BY InMemory DEF OrphanOrTerminal
<1>2. x \in Memory /\ x.slot = mem[r].slot /\ Kept(x) /\ Trace(x, r)
  BY <1>1 DEF Memory, Kept, Trace
<1>3. mem[r] # NoRecord /\ Quiet
  BY <1>1 DEF OrphanOrTerminal, NoRecord, Quiet, host
<1>4. PICK to \in {"CRASHED", "ORPHANED"} : RestoreState(r, x, to)
  BY DEF OrphanOrTerminal, NotAdopted
<1>5. to \in States /\ to # "UNSPECIFIED" /\ ~IsLive(to)
  BY DEF States, IsLive
<1>6. Stays(x, to)
  BY <1>5 DEF Stays
<1> QED
  BY <1>2, <1>3, <1>4, <1>5, <1>6, SettingWorks

\* A fork: the process is the next of the host, and the record's own.
LEMMA ForkWorks ==
  ASSUME IInv, NEW r \in Records, Fork(r) PROVE Works(r)
<1>1. mem[r] \in Memory /\ Kept(mem[r]) /\ Trace(mem[r], r) /\ mem[r].pc = "spawn"
  BY InMemory DEF Fork
<1>2. PICK p \in Pids, n \in {NextProcess}, sid \in {0, NextProcess} :
        /\ Begin(p, r)
        /\ Put(r, [mem[r] EXCEPT !.pc = "forked", !.fork = [pid |-> p, run |-> n, sid |-> sid]])
  BY DEF Fork
<1> DEFINE fork == [pid |-> p, run |-> n, sid |-> sid]
<1> DEFINE forked == [mem[r] EXCEPT !.pc = "forked", !.fork = fork]
<1>12. PICK x : x = forked
  OBVIOUS
<1>3. /\ origin \in Seq(Records \cup {Foreign}) /\ Len(origin) \in Nat
      /\ origin' = Append(origin, r) /\ n = Len(origin) + 1 /\ n <= MaxForks
  BY <1>2 DEF Begin, NextProcess, IInv, TypeOK
<1>4. Grows /\ Ours(n, r)'
  <2>1. /\ Len(origin') = Len(origin) + 1 /\ origin'[Len(origin) + 1] = r
        /\ \A m \in 1 .. Len(origin) : origin'[m] = origin[m]
    BY <1>3
  <2>2. Grows
    BY <1>3, <2>1 DEF Grows
  <2>3. origin'[n] = r /\ n \in 1 .. Len(origin')
    BY <1>3, <2>1
  <2> QED
    BY <2>2, <2>3 DEF Ours
<1>5. p \in PidOr0 /\ n \in Forks /\ sid \in Forks
  BY <1>3, AdoptionAssumption DEF PidOr0, Forks
<1>6. fork \in Identity /\ fork.run = n /\ fork.sid = sid
  BY <1>5 DEF Identity
<1>7. /\ x \in Memory /\ x.slot = mem[r].slot /\ x.fork = fork /\ x.pc = "forked"
      /\ x.sid = mem[r].sid /\ x.run = mem[r].run /\ x.state = mem[r].state
  BY <1>1, <1>6, <1>12 DEF Memory
<1>8. Kept(x)
  BY <1>1, <1>7 DEF Kept
<1>9. Trace(x, r)'
  <2>1. Trace(mem[r], r)
    BY <1>1
  <2>2. Ours(x.sid, r)' /\ Ours(x.run, r)'
    BY <1>4, <1>7, <2>1 DEF Trace, Ours, Grows
  <2>3. Ours(x.fork.sid, r)' /\ Ours(x.fork.run, r)'
    BY <1>4, <1>6, <1>7 DEF Ours
  <2> QED
    BY <2>2, <2>3 DEF Trace
<1>10. /\ UNCHANGED <<agent, cap, inUse, todo, disk>> /\ Up
       /\ r \notin todo'
  <2>1. mem[r] # NoRecord
    BY <1>1 DEF NoRecord
  <2> QED
    BY <2>1, InMemory DEF Fork, limits
<1>11. Becomes(r, x) /\ Claim
  BY <1>2, <1>7, <1>10, <1>12, InMemory DEF Becomes, Put, Claim
<1> QED
  BY <1>4, <1>7, <1>8, <1>9, <1>10, <1>11 DEF Works, Up

-----------------------------------------------------------------------------
(* The invariant is kept *)

\* The parts of the types that are not about one record.
HostTypes ==
  /\ holder \in [Pids -> Forks] /\ origin \in Seq(Records \cup {Foreign})
  /\ zombies \subseteq children /\ children \subseteq 1 .. Len(origin)
SignalTypes ==
  /\ asked \in [Records -> [pid : PidOr0, seen : Forks, run : Forks]]
  /\ known \subseteq 1 .. Len(origin) /\ struck \subseteq [process : Forks, seen : Forks]
  /\ deaths \in 0 .. MaxDeaths
Bounded == Len(origin) <= MaxForks /\ \A p \in Pids : holder[p] <= Len(origin)

LEMMA WorkStep ==
  ASSUME IInv, NEW r \in Records, Works(r), HostTypes', SignalTypes', Bounded'
  PROVE  IInv'
  BY WorkKeeps DEF IInv, TypeOK, HostTypes, SignalTypes, Bounded, Numbered

\* A step of one record that touches neither the host nor the signals.
LEMMA PlainStep ==
  ASSUME IInv, NEW r \in Records, Works(r), UNCHANGED <<host, asked, ghosts>>
  PROVE  IInv'
<1>1. HostTypes' /\ SignalTypes' /\ Bounded'
  BY DEF IInv, TypeOK, Numbered, HostTypes, SignalTypes, Bounded, host, ghosts
<1> QED
  BY <1>1, WorkStep

\* A step of the host or of the signals alone.
LEMMA HostStep ==
  ASSUME IInv, UNCHANGED <<agent, limits, todo, mem, disk>>, Grows,
         HostTypes', SignalTypes', Bounded'
  PROVE  IInv'
<1>1. \A r \in Records : Traced(r)'
  BY OursKept, TraceKept DEF IInv, Numbered, Traced, Trace, Ours, Grows
<1> QED
  BY <1>1 DEF IInv, TypeOK, Balance, Pending, Numbered, HostTypes, SignalTypes, Bounded, limits

LEMMA HostFacts ==
  ASSUME IInv
  PROVE  /\ HostTypes /\ SignalTypes /\ Bounded /\ Len(origin) \in Nat
         /\ \A p \in Pids : holder[p] \in Forks
         /\ \A p \in Pids \cup {0} : HolderOf(p) \in Forks
  BY AdoptionAssumption DEF IInv, TypeOK, Numbered, HostTypes, SignalTypes, Bounded, HolderOf, Forks

LEMMA BeginStep ==
  ASSUME IInv, NEW p \in Pids, NEW for \in Records \cup {Foreign}, Begin(p, for)
  PROVE  /\ Grows /\ Bounded' /\ Len(origin') = Len(origin) + 1 /\ Len(origin) \in Nat
         /\ holder' \in [Pids -> Forks] /\ origin' \in Seq(Records \cup {Foreign})
         /\ origin'[NextProcess] = for /\ NextProcess = Len(origin) + 1
<1>1. /\ holder \in [Pids -> Forks] /\ origin \in Seq(Records \cup {Foreign}) /\ Len(origin) \in Nat
      /\ \A q \in Pids : holder[q] <= Len(origin)
  BY DEF IInv, TypeOK, Numbered
<1>2. /\ NextProcess = Len(origin) + 1 /\ NextProcess <= MaxForks
      /\ holder' = [holder EXCEPT ![p] = NextProcess] /\ origin' = Append(origin, for)
  BY DEF Begin, NextProcess
<1>3. /\ origin' \in Seq(Records \cup {Foreign}) /\ Len(origin') = Len(origin) + 1
      /\ origin'[Len(origin) + 1] = for /\ \A n \in 1 .. Len(origin) : origin'[n] = origin[n]
  BY <1>1, <1>2
<1>4. NextProcess \in Forks
  BY <1>1, <1>2, AdoptionAssumption DEF Forks
<1>5. holder' \in [Pids -> Forks]
  BY <1>1, <1>2, <1>4
<1>6. \A q \in Pids : holder'[q] <= Len(origin')
  BY <1>1, <1>2, <1>3, AdoptionAssumption DEF Forks
<1>7. Grows
  BY <1>1, <1>3 DEF Grows
<1> QED
  BY <1>1, <1>2, <1>3, <1>5, <1>6, <1>7 DEF Bounded

THEOREM InvInit == ASSUME Init PROVE IInv
<1>1. TypeOK
  BY AdoptionAssumption, FirstRecord DEF Init, TypeOK, Forks, PidOr0, NotAsked
<1>2. Balance
  <2>1. Holding(mem) = {}
    BY DEF Init, Holding, NoRecord
  <2> QED
    BY <2>1, FS_EmptySet, FirstRecord DEF Init, Balance
<1>3. Pending /\ Numbered
  BY AdoptionAssumption DEF Init, Pending, Numbered, Traced, Trace, Ours, NoRecord, NoFork, NotSaved
<1> QED
  BY <1>1, <1>2, <1>3 DEF IInv

LEMMA InvDie == ASSUME IInv, NEW p \in Pids, Die(p) PROVE IInv'
<1>1. HostTypes' /\ Bounded' /\ Grows
  BY HostFacts, AdoptionAssumption DEF Die, HostTypes, Bounded, Grows, Forks
<1>2. SignalTypes'
  BY HostFacts DEF Die, SignalTypes, ghosts
<1> QED
  BY <1>1, <1>2, HostStep DEF Die

LEMMA InvForeign == ASSUME IInv, NEW p \in Pids, ForeignStarts(p) PROVE IInv'
<1>1. Grows /\ Bounded' /\ HostTypes'
  BY BeginStep, HostFacts DEF ForeignStarts, HostTypes
<1>2. SignalTypes'
  BY BeginStep, HostFacts DEF ForeignStarts, SignalTypes, ghosts
<1> QED
  BY <1>1, <1>2, HostStep DEF ForeignStarts

LEMMA InvCollect == ASSUME IInv, NEW p \in Pids, Collect(p) PROVE IInv'
<1>1. HostTypes' /\ Bounded' /\ Grows
  BY HostFacts, AdoptionAssumption DEF Collect, HostTypes, Bounded, Grows, Forks
<1>2. SignalTypes'
  BY HostFacts DEF Collect, SignalTypes, ghosts
<1> QED
  BY <1>1, <1>2, HostStep DEF Collect

LEMMA InvFork == ASSUME IInv, NEW r \in Records, Fork(r) PROVE IInv'
<1>1. PICK p \in Pids : Begin(p, r)
  BY DEF Fork
<1>2. Bounded' /\ HostTypes'
  BY <1>1, BeginStep, HostFacts DEF Fork, HostTypes
<1>3. SignalTypes'
  BY <1>1, BeginStep, HostFacts DEF Fork, SignalTypes, ghosts
<1> QED
  BY <1>2, <1>3, ForkWorks, WorkStep

LEMMA InvIdentify == ASSUME IInv, NEW r \in Records, Identify(r) PROVE IInv'
<1>1. Ours(mem[r].fork.sid, r) /\ UNCHANGED host
  BY InMemory DEF Trace, Identify, Recorded
<1>2. HostTypes' /\ Bounded'
  BY <1>1, HostFacts DEF HostTypes, Bounded, host
<1>3. SignalTypes'
  BY <1>1, HostFacts DEF SignalTypes, Ours, Identify, Recorded, host
<1> QED
  BY <1>2, <1>3, IdentifyWorks, WorkStep

LEMMA InvStop == ASSUME IInv, NEW r \in Records, StopProcess(r) PROVE IInv'
<1>1. HostTypes' /\ Bounded'
  BY HostFacts DEF StopProcess, HostTypes, Bounded, host
<1>2. mem[r].pid \in PidOr0 /\ mem[r].run \in Forks /\ HolderOf(mem[r].pid) \in Forks
  BY InMemory, HostFacts DEF Memory, PidOr0
<1>3. SignalTypes'
  BY <1>2, HostFacts, AdoptionAssumption
     DEF StopProcess, SignalTypes, NotAsked, PidOr0, Forks, ghosts, host
<1> QED
  BY <1>1, <1>3, StopWorks, WorkStep

LEMMA InvSignal == ASSUME IInv, NEW r \in Records, Signal(r) PROVE IInv'
<1>1. HostTypes' /\ Bounded' /\ Grows
  BY HostFacts DEF Signal, HostTypes, Bounded, Grows, host
<1>2. asked[r] \in [pid : PidOr0, seen : Forks, run : Forks]
  BY HostFacts DEF SignalTypes
<1>3. /\ asked[r].run \in Forks /\ asked[r].seen \in Forks /\ 0 \in Forks
      /\ HolderOf(asked[r].pid) \in Forks
  <2>1. 0 \in Forks
    BY AdoptionAssumption DEF Forks
  <2>2. asked[r].pid \in Pids \cup {0} /\ asked[r].run \in Forks /\ asked[r].seen \in Forks
    BY <1>2 DEF PidOr0
  <2> QED
    BY <2>1, <2>2, HostFacts
<1>4. struck' \subseteq [process : Forks, seen : Forks]
  BY <1>3, HostFacts DEF Signal, SignalTypes
<1>5. SignalTypes'
  BY <1>4, HostFacts, AdoptionAssumption
     DEF Signal, SignalTypes, NotAsked, PidOr0, Forks, host
<1> QED
  BY <1>1, <1>5, HostStep DEF Signal

LEMMA InvDies == ASSUME IInv, AgentDies PROVE IInv'
<1>1. HostTypes' /\ SignalTypes' /\ Bounded'
  BY HostFacts, AdoptionAssumption
     DEF AgentDies, HostTypes, SignalTypes, Bounded, Forks, NotAsked, PidOr0, IInv
<1>2. Balance' /\ mem' \in [Records -> Memory] /\ inUse' = 0
  <2>1. Holding(mem') = {}
    BY DEF AgentDies, Holding, NoRecord
  <2> QED
    BY <2>1, FS_EmptySet, FirstRecord DEF AgentDies, Balance
<1>3. Pending' /\ Numbered'
  BY <1>1, AdoptionAssumption
     DEF IInv, Numbered, Pending, Bounded, Traced, Trace, Ours, AgentDies, NoRecord, NoFork
<1>4. TypeOK'
  BY <1>1, <1>2, AdoptionAssumption DEF IInv, TypeOK, HostTypes, SignalTypes, AgentDies
<1> QED
  BY <1>2, <1>3, <1>4 DEF IInv

LEMMA InvStarts == ASSUME IInv, AgentStarts PROVE IInv'
<1>1. inUse = 0
  <2>1. Holding(mem) = {}
    BY DEF IInv, Pending, AgentStarts, Holding, NoRecord
  <2> QED
    BY <2>1, FS_EmptySet DEF IInv, Balance
<1>2. TypeOK'
  BY <1>1, AdoptionAssumption DEF IInv, TypeOK, AgentStarts, host, ghosts
<1>3. Balance' /\ Numbered'
  BY DEF IInv, Balance, Numbered, Traced, Trace, Ours, AgentStarts, host
<1>4. Pending'
  BY DEF IInv, Pending, AgentStarts
<1> QED
  BY <1>2, <1>3, <1>4 DEF IInv

LEMMA InvAdopts == ASSUME IInv, AllAdopted PROVE IInv'
  BY DEF IInv, TypeOK, Balance, Pending, Numbered, Traced, Trace, Ours, AllAdopted, host, limits, ghosts

LEMMA InvSkip == ASSUME IInv, NEW r \in Records, SkipRecord(r) PROVE IInv'
  BY DEF IInv, TypeOK, Balance, Pending, Numbered, Traced, Trace, Ours, SkipRecord, IsNext, host,
     limits, ghosts

THEOREM InvStep == ASSUME IInv, [Next]_vars PROVE IInv'
<1>1. CASE Host
  BY <1>1, InvDie, InvForeign DEF Host
<1>2. CASE Collects
  BY <1>2, InvCollect DEF Collects
<1>3. CASE Adopts
  <2>1. CASE AllAdopted
    BY <2>1, InvAdopts
  <2>2. ASSUME NEW r \in Records, Adopt(r) PROVE IInv'
    <3>1. CASE SkipRecord(r)
      BY <3>1, InvSkip
    <3>2. CASE Rebuild(r)
      BY <3>2, RebuildWorks, PlainStep DEF Rebuild
    <3>3. CASE AdoptionDecision(r)
      BY <3>3, DecisionWorks, PlainStep DEF AdoptionDecision
    <3>4. CASE OrphanOrTerminal(r)
      BY <3>4, OrphanWorks, PlainStep DEF OrphanOrTerminal
    <3> QED
      BY <2>2, <3>1, <3>2, <3>3, <3>4 DEF Adopt
  <2> QED
    BY <1>3, <2>1, <2>2 DEF Adopts
<1>4. ASSUME NEW r \in Records, Run(r) PROVE IInv'
  <2>1. CASE Fork(r)
    BY <2>1, InvFork
  <2>2. CASE SpawnFails(r)
    BY <2>2, SpawnFailsWorks, PlainStep DEF SpawnFails
  <2>3. CASE Identify(r)
    BY <2>3, InvIdentify
  <2>4. CASE Settle(r)
    BY <2>4, SettleWorks, PlainStep DEF Settle
  <2>5. CASE ProbeEnds(r)
    BY <2>5, ProbeEndsWorks, PlainStep DEF ProbeEnds
  <2>6. CASE Monitor(r)
    BY <2>6, MonitorWorks, PlainStep DEF Monitor, Ended
  <2>7. CASE WatchAdopted(r)
    BY <2>7, WatchAdoptedWorks, PlainStep DEF WatchAdopted, Ended
  <2>8. CASE MaybeRestart(r)
    BY <2>8, MaybeRestartWorks, PlainStep DEF MaybeRestart
  <2>9. CASE Backoff(r)
    BY <2>9, BackoffWorks, PlainStep DEF Backoff
  <2> QED
    BY <1>4, <2>1, <2>2, <2>3, <2>4, <2>5, <2>6, <2>7, <2>8, <2>9 DEF Run
<1>5. CASE Request
  <2>1. ASSUME NEW r \in Records, StartProcess(r) PROVE IInv'
    BY <2>1, StartWorks, PlainStep DEF StartProcess
  <2>2. ASSUME NEW r \in Records, Signal(r) PROVE IInv'
    BY <2>2, InvSignal
  <2>3. ASSUME NEW r \in Records, StopProcess(r) PROVE IInv'
    BY <2>3, InvStop
  <2>4. ASSUME NEW r \in Records, RestartProcess(r) PROVE IInv'
    BY <2>4, RestartWorks, PlainStep DEF RestartProcess
  <2> QED
    BY <1>5, <2>1, <2>2, <2>3, <2>4, AdoptionAssumption DEF Request
<1>6. CASE AgentDies
  BY <1>6, InvDies
<1>7. CASE AgentStarts
  BY <1>7, InvStarts
<1>8. CASE UNCHANGED vars
  BY <1>8 DEF IInv, TypeOK, Balance, Pending, Numbered, Traced, Trace, Ours, vars, host, limits, ghosts
<1> QED
  BY <1>1, <1>2, <1>3, <1>4, <1>5, <1>6, <1>7, <1>8 DEF Next

LEMMA InvAlways == Spec => []IInv
<1>1. Init => IInv
  BY InvInit
<1>2. IInv /\ [Next]_vars => IInv'
  BY InvStep
<1> QED
  BY <1>1, <1>2, PTL DEF Spec

\* Type correctness, and with it that no policy restarts a record more often than
\* max_restarts, however many agents the restarts are spread over.
THEOREM AdoptionTyped == Spec => []TypeOK
<1>1. IInv => TypeOK
  BY DEF IInv
<1> QED
  BY <1>1, InvAlways, PTL

\* The limit on concurrent processes is kept across agents (adopt.go:138).
THEOREM SlotsAreKept == Spec => []SlotsKept
<1>1. IInv => SlotsKept
  BY DEF IInv, Balance, Kept, SlotsKept, Holding
<1> QED
  BY <1>1, InvAlways, PTL

-----------------------------------------------------------------------------
(* What a step of one record leaves of it *)

Touches(r) == \A s \in Records \ {r} : mem'[s] = mem[s] /\ disk'[s] = disk[s]
\* The record is written, or nothing of it changes that the disk would show.
Follows(r) ==
  \/ /\ disk'[r].state = mem'[r].state /\ disk'[r].pid = mem'[r].pid
     /\ disk'[r].sid = mem'[r].sid
  \/ /\ disk'[r] = disk[r] /\ mem'[r].state = mem[r].state
     /\ mem'[r].pid = mem[r].pid /\ mem'[r].sid = mem[r].sid
\* A step that leaves the identity of the record's process.
Turns(r, x) ==
  /\ mem[r] # NoRecord /\ Touches(r) /\ Follows(r)
  /\ mem'[r].pid = mem[r].pid /\ mem'[r].sid = mem[r].sid /\ mem'[r].fork = mem[r].fork
  /\ mem'[r].pc = x.pc /\ mem'[r].watch = x.watch /\ mem'[r].run = x.run
  /\ mem'[r].settle = x.settle /\ mem'[r].probing = x.probing
Alike(r, x) ==
  x \in Memory /\ x.pid = mem[r].pid /\ x.sid = mem[r].sid /\ x.fork = mem[r].fork

LEMMA PutTurns ==
  ASSUME IInv, NEW r \in Records, NEW x, Alike(r, x), mem[r] # NoRecord,
         Save(r, x) \/ (Put(r, x) /\ UNCHANGED disk /\ x.state = mem[r].state)
  PROVE  Turns(r, x) /\ mem'[r].state = x.state
<1>1. mem \in [Records -> Memory] /\ disk \in [Records -> Disk]
  BY DEF IInv, TypeOK
<1>2. mem' = [mem EXCEPT ![r] = x]
  BY DEF Save, Put
<1>3. mem'[r] = x /\ \A s \in Records \ {r} : mem'[s] = mem[s]
  BY <1>1, <1>2
<1>4. CASE Save(r, x)
  <2>1. disk'[r] = Saved(x) /\ \A s \in Records \ {r} : disk'[s] = disk[s]
    BY <1>1, <1>4 DEF Save
  <2> QED
    BY <1>3, <2>1 DEF Turns, Touches, Follows, Alike, Saved
<1>5. CASE UNCHANGED disk /\ x.state = mem[r].state
  BY <1>3, <1>5 DEF Turns, Touches, Follows, Alike
<1> QED
  BY <1>4, <1>5

LEMMA RestoringTurns ==
  ASSUME IInv, NEW r \in Records, NEW x, Alike(r, x), mem[r] # NoRecord,
         NEW to \in States, RestoreState(r, x, to)
  PROVE  Turns(r, x) /\ mem'[r].state = to
<1> DEFINE y == Moved(x, to)
<1>1. /\ y \in Memory /\ y.state = to /\ y.pid = x.pid /\ y.sid = x.sid /\ y.fork = x.fork
      /\ y.pc = x.pc /\ y.watch = x.watch /\ y.run = x.run /\ y.settle = x.settle
      /\ y.probing = x.probing
  BY DEF Moved, Memory, Alike
<1>2. Save(r, y) /\ Alike(r, y)
  BY <1>1 DEF RestoreState, Alike
<1>3. Turns(r, y) /\ mem'[r].state = to
  <2> HIDE DEF y
  <2> QED
    BY <1>1, <1>2, PutTurns
<1> QED
  BY <1>1, <1>3 DEF Turns

LEMMA SettingTurns ==
  ASSUME IInv, NEW r \in Records, NEW x, Alike(r, x), mem[r] # NoRecord,
         NEW to \in States, SetState(r, x, to), x.state = mem[r].state
  PROVE  Turns(r, x) /\ mem'[r].state = IF Legal(x, to) THEN to ELSE x.state
<1>1. CASE Legal(x, to)
  BY <1>1, RestoringTurns DEF SetState
<1>2. CASE ~Legal(x, to)
  BY <1>2, PutTurns DEF SetState
<1> QED
  BY <1>1, <1>2

\* The same for each operation that is of this kind.

LEMMA SpawnFailsTurns ==
  ASSUME IInv, NEW r \in Records, SpawnFails(r)
  PROVE  /\ Turns(r, [mem[r] EXCEPT !.pc = "idle"])
         /\ mem'[r].state \in {mem[r].state, "CRASHED"}
<1> DEFINE x == [mem[r] EXCEPT !.pc = "idle"]
<1>1. Alike(r, x) /\ x.state = mem[r].state /\ mem[r] # NoRecord
  BY InMemory DEF SpawnFails, Alike, Memory, NoRecord
<1> QED
  BY <1>1, SettingTurns DEF SpawnFails, States

LEMMA SettleTurns ==
  ASSUME IInv, NEW r \in Records, Settle(r)
  PROVE  /\ Turns(r, [mem[r] EXCEPT !.settle = "no"])
         /\ \/ mem'[r].state = mem[r].state
            \/ mem[r].state \in {"STARTING", "RUNNING"} /\ mem'[r].state = "RUNNING"
            \/ /\ mem[r].settle = "spawn" /\ mem[r].state \in {"READY", "RESTARTING", "CRASHED"}
               /\ mem'[r].state = "CRASHED"
<1> DEFINE x  == [mem[r] EXCEPT !.settle = "no"]
           to == IF mem[r].settle = "spawn" /\ ~Legal(x, "RUNNING") THEN "CRASHED" ELSE "RUNNING"
<1>1. Alike(r, x) /\ x.state = mem[r].state /\ mem[r] # NoRecord /\ x.state \in States
  BY InMemory DEF Settle, Alike, Memory, NoRecord
<1>2. to \in States /\ SetState(r, x, to)
  BY DEF Settle, States
<1>3. Turns(r, x) /\ mem'[r].state = IF Legal(x, to) THEN to ELSE x.state
  <2> HIDE DEF x, to
  <2> QED
    BY <1>1, <1>2, SettingTurns
<1>4. /\ Legal(x, "RUNNING") => x.state \in {"STARTING", "RUNNING"}
      /\ Legal(x, "CRASHED") => x.state \in Started \cup {"RESTARTING", "CRASHED"}
      /\ x.state \in {"STARTING", "RUNNING"} => Legal(x, "RUNNING")
  BY <1>1, Table DEF Legal, CanTransition, Transitions, States
<1> QED
  BY <1>1, <1>3, <1>4 DEF Started

LEMMA ProbeEndsTurns ==
  ASSUME IInv, NEW r \in Records, ProbeEnds(r)
  PROVE  /\ Turns(r, [mem[r] EXCEPT !.probing = FALSE])
         /\ \/ mem'[r].state = mem[r].state
            \/ mem[r].state \in Started /\ mem'[r].state = "READY"
<1> DEFINE x == [mem[r] EXCEPT !.probing = FALSE]
<1>1. Alike(r, x) /\ x.state = mem[r].state /\ mem[r] # NoRecord /\ x.state \in States
  <2>1. mem[r] \in Memory /\ mem[r] # NoRecord
    BY InMemory DEF ProbeEnds, NoRecord
  <2> QED
    BY <2>1 DEF Alike, Memory
<1>2. CASE SetState(r, x, "READY")
  <2>1. Legal(x, "READY") => x.state \in Started
    BY <1>1, Table DEF Legal, Started
  <2>2. Turns(r, x) /\ mem'[r].state = IF Legal(x, "READY") THEN "READY" ELSE x.state
    BY <1>1, <1>2, SettingTurns DEF States
  <2> QED
    BY <1>1, <2>1, <2>2
<1>3. CASE Put(r, x) /\ UNCHANGED <<disk, inUse>>
  <2>1. Turns(r, x) /\ mem'[r].state = x.state
    BY <1>1, <1>3, PutTurns
  <2> QED
    BY <1>1, <2>1
<1> QED
  BY <1>2, <1>3 DEF ProbeEnds

LEMMA EndedTurns ==
  ASSUME IInv, NEW r \in Records, Ended(r), mem[r] # NoRecord
  PROVE  /\ Turns(r, [mem[r] EXCEPT !.watch = "none", !.run = 0, !.pc = "ended"])
         /\ mem'[r].state \in {mem[r].state, "CRASHED"}
         /\ mem[r].state \in Started => mem'[r].state = "CRASHED"
<1> DEFINE x == [mem[r] EXCEPT !.watch = "none", !.run = 0, !.pc = "ended"]
<1>1. mem[r] \in Memory /\ 0 \in Forks
  BY InMemory, AdoptionAssumption DEF Forks
<1>2. Alike(r, x) /\ x.state = mem[r].state /\ x.state \in States
  BY <1>1 DEF Alike, Memory
<1>3. Turns(r, x) /\ mem'[r].state = IF Legal(x, "CRASHED") THEN "CRASHED" ELSE x.state
  BY <1>2, SettingTurns DEF Ended, States
<1>4. x.state \in Started => Legal(x, "CRASHED")
  BY <1>2, Table DEF Legal
<1> QED
  BY <1>2, <1>3, <1>4

LEMMA UnwatchTurns ==
  ASSUME IInv, NEW r \in Records, mem[r].watch = "poll",
         Put(r, [mem[r] EXCEPT !.watch = "none"]), UNCHANGED disk
  PROVE  Turns(r, [mem[r] EXCEPT !.watch = "none"]) /\ mem'[r].state = mem[r].state
<1> DEFINE x == [mem[r] EXCEPT !.watch = "none"]
<1>1. mem[r] \in Memory /\ mem[r] # NoRecord
  BY InMemory DEF NoRecord
<1>2. Alike(r, x) /\ x.state = mem[r].state
  BY <1>1 DEF Alike, Memory
<1> QED
  BY <1>1, <1>2, PutTurns

LEMMA MaybeRestartTurns ==
  ASSUME IInv, NEW r \in Records, MaybeRestart(r)
  PROVE  \E pc \in {"backoff", "idle"} :
           /\ Turns(r, [mem[r] EXCEPT !.pc = pc])
           /\ mem'[r].state \in {mem[r].state, "RESTARTING"}
<1>1. mem[r] \in Memory /\ mem[r] # NoRecord
  BY InMemory DEF MaybeRestart, NoRecord
<1>2. CASE Put(r, [mem[r] EXCEPT !.pc = "idle"]) /\ UNCHANGED disk
  <2> DEFINE x == [mem[r] EXCEPT !.pc = "idle"]
  <2>1. Alike(r, x) /\ x.state = mem[r].state
    BY <1>1 DEF Alike, Memory
  <2> QED
    BY <1>1, <1>2, <2>1, PutTurns
<1>3. CASE Save(r, [mem[r] EXCEPT !.state = "RESTARTING", !.slot = TRUE, !.pc = "backoff"])
  <2> DEFINE x == [mem[r] EXCEPT !.state = "RESTARTING", !.slot = TRUE, !.pc = "backoff"]
             z == [mem[r] EXCEPT !.pc = "backoff"]
  <2>1. Alike(r, x) /\ x.state = "RESTARTING"
    BY <1>1 DEF Alike, Memory, States
  <2>2. Turns(r, x) /\ mem'[r].state = "RESTARTING"
    BY <1>1, <1>3, <2>1, PutTurns
  <2>3. /\ x.pc = z.pc /\ x.watch = z.watch /\ x.run = z.run /\ x.settle = z.settle
        /\ x.probing = z.probing
    BY <1>1 DEF Memory
  <2>4. Turns(r, z)
    BY <2>2, <2>3 DEF Turns
  <2> QED
    BY <2>2, <2>4
<1> QED
  BY <1>2, <1>3 DEF MaybeRestart

LEMMA BackoffTurns ==
  ASSUME IInv, NEW r \in Records, Backoff(r)
  PROVE  \E pc \in {"spawn", "idle"} :
           /\ Turns(r, [mem[r] EXCEPT !.pc = pc])
           /\ mem'[r].state \in {mem[r].state, "CRASHED", "STARTING"}
           /\ pc = "spawn" => mem'[r].state = "STARTING"
<1>1. mem[r] \in Memory /\ mem[r] # NoRecord /\ Kept(mem[r]) /\ mem[r].pc = "backoff"
  BY InMemory DEF Backoff, NoRecord
<1>2. ASSUME SetState(r, [mem[r] EXCEPT !.pc = "idle"], "CRASHED")
      PROVE  /\ Turns(r, [mem[r] EXCEPT !.pc = "idle"])
             /\ mem'[r].state \in {mem[r].state, "CRASHED"}
  <2> DEFINE x == [mem[r] EXCEPT !.pc = "idle"]
  <2>1. Alike(r, x) /\ x.state = mem[r].state
    BY <1>1 DEF Alike, Memory
  <2> QED
    BY <1>1, <1>2, <2>1, SettingTurns DEF States
<1>3. ASSUME NEW pc \in {"spawn", "idle"}, NEW x,
             x = [[mem[r] EXCEPT !.count = @ + 1] EXCEPT !.pc = pc],
             SetState(r, x, "STARTING"), pc = "spawn" => Legal(x, "STARTING")
      PROVE  /\ Turns(r, [mem[r] EXCEPT !.pc = pc])
             /\ mem'[r].state \in {mem[r].state, "STARTING"}
             /\ pc = "spawn" => mem'[r].state = "STARTING"
  <2> DEFINE z == [mem[r] EXCEPT !.pc = pc]
  <2>1. mem[r].count + 1 \in 0 .. MaxRestarts
    BY <1>1, AdoptionAssumption DEF Kept, Memory
  <2>2. [mem[r] EXCEPT !.count = @ + 1] \in Memory
    BY <1>1, <2>1 DEF Memory
  <2>3. /\ x \in Memory /\ x.state = mem[r].state /\ x.pid = mem[r].pid /\ x.sid = mem[r].sid
        /\ x.fork = mem[r].fork
        /\ x.pc = z.pc /\ x.watch = z.watch /\ x.run = z.run /\ x.settle = z.settle
        /\ x.probing = z.probing
    BY <1>1, <1>3, <2>2 DEF Memory
  <2>4. Turns(r, x) /\ mem'[r].state = IF Legal(x, "STARTING") THEN "STARTING" ELSE x.state
    BY <1>1, <1>3, <2>3, SettingTurns DEF Alike, States
  <2>5. Turns(r, z)
    BY <2>3, <2>4 DEF Turns
  <2> QED
    BY <1>3, <2>3, <2>4, <2>5
<1>4. CASE mem[r].disabled
  BY <1>2, <1>4 DEF Backoff
<1>5. CASE ~mem[r].disabled
  <2> DEFINE y == [mem[r] EXCEPT !.count = @ + 1]
             pc == IF Legal(y, "STARTING") THEN "spawn" ELSE "idle"
             x == [y EXCEPT !.pc = pc]
  <2>1. SetState(r, x, "STARTING")
    BY <1>5 DEF Backoff
  <2>2. pc = "spawn" => Legal(x, "STARTING")
    BY <1>1 DEF Legal, Memory
  <2> QED
    BY <1>3, <2>1, <2>2
<1> QED
  BY <1>4, <1>5

LEMMA StopTurns ==
  ASSUME IInv, NEW r \in Records, StopProcess(r)
  PROVE  Turns(r, mem[r]) /\ mem'[r].state = mem[r].state
<1> DEFINE x == [mem[r] EXCEPT !.disabled = TRUE]
<1>1. mem[r] \in Memory /\ mem[r] # NoRecord
  BY InMemory DEF StopProcess
<1>2. /\ Alike(r, x) /\ x.state = mem[r].state /\ x.pc = mem[r].pc /\ x.watch = mem[r].watch
      /\ x.run = mem[r].run /\ x.settle = mem[r].settle /\ x.probing = mem[r].probing
  BY <1>1 DEF Alike, Memory
<1>3. Turns(r, x) /\ mem'[r].state = x.state
  BY <1>1, <1>2, PutTurns DEF StopProcess
<1> QED
  BY <1>2, <1>3 DEF Turns

LEMMA RestartTurns ==
  ASSUME IInv, NEW r \in Records, RestartProcess(r)
  PROVE  \E pc \in {"spawn", "idle"} :
           /\ Turns(r, [mem[r] EXCEPT !.pc = pc])
           /\ mem[r].state = "CRASHED" /\ mem'[r].state \in {"CRASHED", "STARTING"}
           /\ pc = "spawn" => mem'[r].state = "STARTING"
<1>1. mem[r] \in Memory /\ mem[r] # NoRecord /\ mem[r].state = "CRASHED" /\ mem[r].pc = "idle"
  BY InMemory DEF RestartProcess, Restartable, NoRecord
<1>2. CASE Put(r, [mem[r] EXCEPT !.disabled = FALSE]) /\ UNCHANGED disk
  <2> DEFINE x == [mem[r] EXCEPT !.disabled = FALSE]
             z == [mem[r] EXCEPT !.pc = "idle"]
  <2>1. /\ Alike(r, x) /\ x.state = mem[r].state /\ x.pc = z.pc /\ x.watch = z.watch
        /\ x.run = z.run /\ x.settle = z.settle /\ x.probing = z.probing
    BY <1>1 DEF Alike, Memory
  <2>2. Turns(r, x) /\ mem'[r].state = x.state
    BY <1>1, <1>2, <2>1, PutTurns
  <2>3. Turns(r, z)
    BY <2>1, <2>2 DEF Turns
  <2> QED
    BY <1>1, <2>1, <2>2, <2>3
<1>3. CASE Save(r, [mem[r] EXCEPT !.disabled = FALSE, !.state = "STARTING", !.slot = TRUE,
                                  !.pc = "spawn"])
  <2> DEFINE x == [mem[r] EXCEPT !.disabled = FALSE, !.state = "STARTING", !.slot = TRUE,
                                 !.pc = "spawn"]
             z == [mem[r] EXCEPT !.pc = "spawn"]
  <2>1. /\ Alike(r, x) /\ x.state = "STARTING" /\ x.pc = z.pc /\ x.watch = z.watch
        /\ x.run = z.run /\ x.settle = z.settle /\ x.probing = z.probing
    BY <1>1 DEF Alike, Memory, States
  <2>2. Turns(r, x) /\ mem'[r].state = x.state
    BY <1>1, <1>3, <2>1, PutTurns
  <2>3. Turns(r, z)
    BY <2>1, <2>2 DEF Turns
  <2> QED
    BY <1>1, <2>1, <2>2, <2>3
<1> QED
  BY <1>2, <1>3 DEF RestartProcess

LEMMA DecisionTurns ==
  ASSUME IInv, NEW r \in Records, AdoptionDecision(r)
  PROVE  /\ mem'[r].state = mem[r].state
         /\ \/ /\ Turns(r, [mem[r] EXCEPT !.pc = "refused"])
               /\ ~Proven(mem[r]) \/ "read" \in Faults
            \/ /\ Proven(mem[r])
               /\ \E watch \in {"poll", "none"}, settle \in {"adopt", "no"}, probing \in BOOLEAN :
                    /\ Turns(r, [mem[r] EXCEPT !.pc = "idle", !.watch = watch, !.settle = settle,
                                               !.probing = probing])
                    /\ probing => r \in Probed
<1>1. mem[r] \in Memory /\ mem[r] # NoRecord
  <2>1. mem[r].pc = "decide"
    BY DEF AdoptionDecision
  <2> QED
    BY <2>1, InMemory DEF NoRecord
<1> DEFINE starting == mem[r].state = "STARTING"
           Keeps(watch) ==
             Save(r, [mem[r] EXCEPT !.pc = "idle", !.watch = watch,
                        !.settle = IF starting /\ r \notin Probed THEN "adopt" ELSE "no",
                        !.probing = starting /\ r \in Probed])
           Drops == Put(r, [mem[r] EXCEPT !.pc = "refused"]) /\ UNCHANGED disk
<1>5. \/ Proven(mem[r]) /\ \E watch \in {"poll", "none"} : Keeps(watch)
      \/ (~Proven(mem[r]) \/ "read" \in Faults) /\ Drops
  BY DEF AdoptionDecision
<1>2. CASE /\ ~Proven(mem[r]) \/ "read" \in Faults
           /\ Put(r, [mem[r] EXCEPT !.pc = "refused"]) /\ UNCHANGED disk
  <2> DEFINE x == [mem[r] EXCEPT !.pc = "refused"]
  <2>1. Alike(r, x) /\ x.state = mem[r].state
    BY <1>1 DEF Alike, Memory
  <2> QED
    BY <1>1, <1>2, <2>1, PutTurns
<1>3. ASSUME NEW watch \in {"poll", "none"}, NEW settle \in {"adopt", "no"},
             NEW probing \in BOOLEAN, probing => r \in Probed, Proven(mem[r]),
             Save(r, [mem[r] EXCEPT !.pc = "idle", !.watch = watch, !.settle = settle,
                                    !.probing = probing])
      PROVE  /\ mem'[r].state = mem[r].state
             /\ Turns(r, [mem[r] EXCEPT !.pc = "idle", !.watch = watch, !.settle = settle,
                                        !.probing = probing])
  <2> DEFINE x == [mem[r] EXCEPT !.pc = "idle", !.watch = watch, !.settle = settle,
                                 !.probing = probing]
  <2>1. Alike(r, x) /\ x.state = mem[r].state
    BY <1>1 DEF Alike, Memory
  <2> QED
    BY <1>1, <1>3, <2>1, PutTurns
<1>4. ASSUME Proven(mem[r]), NEW watch \in {"poll", "none"}, Keeps(watch)
      PROVE  /\ mem'[r].state = mem[r].state
             /\ \E settle \in {"adopt", "no"}, probing \in BOOLEAN :
                  /\ Turns(r, [mem[r] EXCEPT !.pc = "idle", !.watch = watch, !.settle = settle,
                                             !.probing = probing])
                  /\ probing => r \in Probed
  <2> DEFINE settle  == IF starting /\ r \notin Probed THEN "adopt" ELSE "no"
             probing == starting /\ r \in Probed
  <2>1. settle \in {"adopt", "no"} /\ probing \in BOOLEAN /\ (probing => r \in Probed)
    OBVIOUS
  <2>2. Save(r, [mem[r] EXCEPT !.pc = "idle", !.watch = watch, !.settle = settle,
                               !.probing = probing])
    BY <1>4
  <2> HIDE DEF settle, probing
  <2> QED
    BY <1>3, <1>4, <2>1, <2>2
<1>6. CASE Proven(mem[r]) /\ \E watch \in {"poll", "none"} : Keeps(watch)
  BY <1>4, <1>6
<1>7. CASE (~Proven(mem[r]) \/ "read" \in Faults) /\ Drops
  BY <1>2, <1>7
<1> QED
  BY <1>5, <1>6, <1>7

LEMMA OrphanTurns ==
  ASSUME IInv, NEW r \in Records, OrphanOrTerminal(r)
  PROVE  /\ Turns(r, [mem[r] EXCEPT !.pc = "idle"])
         /\ mem'[r].state \in {"CRASHED", "ORPHANED"}
<1> DEFINE x == [mem[r] EXCEPT !.pc = "idle"]
<1>1. Alike(r, x) /\ mem[r] # NoRecord
  BY InMemory DEF OrphanOrTerminal, NoRecord, Alike, Memory
<1>2. PICK to \in {"CRASHED", "ORPHANED"} : RestoreState(r, x, to)
  BY DEF OrphanOrTerminal, NotAdopted
<1> QED
  BY <1>1, <1>2, RestoringTurns DEF States

\* The steps that are not: the first record, a fork, its identity and the record
\* rebuilt from disk.
Untouched(x) == x.run = 0 /\ x.fork = NoFork /\ x.watch = "none" /\ x.settle = "no" /\ ~x.probing

LEMMA StartFields ==
  ASSUME IInv, NEW r \in Records, StartProcess(r)
  PROVE  /\ Touches(r) /\ disk[r] = NotSaved /\ Untouched(mem'[r])
         /\ mem'[r].state = "STARTING" /\ mem'[r].pid = 0 /\ mem'[r].sid = 0
         /\ mem'[r].pc = "spawn"
         /\ disk'[r].state = "STARTING" /\ disk'[r].pid = 0 /\ disk'[r].sid = 0
<1> DEFINE x == [NoRecord EXCEPT !.state = "STARTING", !.slot = TRUE, !.pc = "spawn"]
<1>1. Saved(x).state = "STARTING" /\ Saved(x).pid = 0 /\ Saved(x).sid = 0
  BY DEF Saved, NoRecord
<1>2. /\ mem \in [Records -> Memory] /\ disk \in [Records -> Disk]
      /\ disk[r] = NotSaved /\ mem' = [mem EXCEPT ![r] = x] /\ disk' = [disk EXCEPT ![r] = Saved(x)]
  BY DEF StartProcess, Save, Put, IInv, TypeOK
<1>3. Untouched(x) /\ x.state = "STARTING" /\ x.pid = 0 /\ x.sid = 0 /\ x.pc = "spawn"
  BY DEF NoRecord, Untouched
<1> HIDE DEF x
<1> QED
  BY <1>1, <1>2, <1>3 DEF Touches

LEMMA ForkFields ==
  ASSUME IInv, NEW r \in Records, Fork(r)
  PROVE  \E p \in Pids, sid \in {0, NextProcess} :
           /\ Begin(p, r) /\ Touches(r) /\ disk' = disk
           /\ "identity" \notin Faults => sid = NextProcess
           /\ mem'[r] = [mem[r] EXCEPT !.pc = "forked",
                           !.fork = [pid |-> p, run |-> NextProcess, sid |-> sid]]
<1>1. mem \in [Records -> Memory]
  BY DEF IInv, TypeOK
<1>2. PICK p \in Pids, sid \in {0, NextProcess} :
        /\ Begin(p, r) /\ "identity" \notin Faults => sid = NextProcess
        /\ Put(r, [mem[r] EXCEPT !.pc = "forked",
                                 !.fork = [pid |-> p, run |-> NextProcess, sid |-> sid]])
  BY DEF Fork
<1> QED
  BY <1>1, <1>2 DEF Put, Touches, Fork

LEMMA IdentifyFields ==
  ASSUME IInv, NEW r \in Records, Identify(r)
  PROVE  /\ Touches(r) /\ mem[r] # NoRecord /\ mem[r].pc = "forked"
         /\ mem'[r].pid = mem[r].fork.pid /\ mem'[r].sid = mem[r].fork.sid
         /\ mem'[r].run = mem[r].fork.run /\ mem'[r].fork = NoFork
         /\ mem'[r].state = mem[r].state /\ mem'[r].watch = "monitor" /\ mem'[r].pc = "idle"
         /\ mem'[r].settle = (IF r \in Probed THEN mem[r].settle ELSE "spawn")
         /\ mem'[r].probing = (r \in Probed)
         /\ Follows(r)
<1> DEFINE x == Identified(r)
<1>1. mem[r] \in Memory /\ mem[r].pc = "forked"
  BY InMemory DEF Identify, Recorded
<1>2. /\ x.pid = mem[r].fork.pid /\ x.sid = mem[r].fork.sid
      /\ x.run = mem[r].fork.run /\ x.fork = NoFork
      /\ x.state = mem[r].state /\ x.watch = "monitor" /\ x.pc = "idle"
      /\ x.settle = (IF r \in Probed THEN mem[r].settle ELSE "spawn")
      /\ x.probing = (r \in Probed)
  BY <1>1 DEF Identified, Memory
<1>3. /\ mem \in [Records -> Memory] /\ disk \in [Records -> Disk]
      /\ mem' = [mem EXCEPT ![r] = x] /\ disk' = [disk EXCEPT ![r] = Saved(x)]
  BY DEF Identify, Save, Put, IInv, TypeOK
<1> HIDE DEF x
<1>4. mem'[r] = x /\ disk'[r] = Saved(x) /\ Touches(r)
  BY <1>3 DEF Touches
<1>5. Follows(r)
  BY <1>4 DEF Follows, Saved
<1> QED
  BY <1>1, <1>2, <1>4, <1>5 DEF NoRecord

LEMMA RebuildFields ==
  ASSUME IInv, NEW r \in Records, Rebuild(r)
  PROVE  /\ mem[r] = NoRecord /\ Touches(r) /\ disk' = disk
         /\ Untouched(mem'[r]) /\ mem'[r].state = disk[r].state
         /\ mem'[r].pid = disk[r].pid /\ mem'[r].sid = disk[r].sid
         /\ mem'[r].pc \in {"idle", "decide"}
         /\ mem'[r].pc = "decide" => IsLive(disk[r].state)
<1>1. /\ mem \in [Records -> Memory] /\ disk[r] \in Disk /\ mem[r] = NoRecord /\ disk' = disk
      /\ \/ /\ mem' = [mem EXCEPT ![r] = [Restored(r) EXCEPT !.slot = Free, !.pc = "decide"]]
            /\ IsLive(disk[r].state)
         \/ mem' = [mem EXCEPT ![r] = Restored(r)]
  BY DEF Rebuild, IsNext, Put, IInv, TypeOK, Pending
<1>2. ASSUME NEW x, x \in {Restored(r), [Restored(r) EXCEPT !.slot = Free, !.pc = "decide"]}
      PROVE  /\ Untouched(x) /\ x.state = disk[r].state /\ x.pid = disk[r].pid
             /\ x.sid = disk[r].sid /\ x.pc \in {"idle", "decide"}
  <2>1. CASE x = Restored(r)
    BY <2>1 DEF Restored, NoRecord, Untouched
  <2>2. CASE x = [Restored(r) EXCEPT !.slot = Free, !.pc = "decide"]
    BY <2>2 DEF Restored, NoRecord, Untouched
  <2> QED
    BY <1>2, <2>1, <2>2
<1>3. Restored(r).pc = "idle"
  BY DEF Restored, NoRecord
<1> QED
  BY <1>1, <1>2, <1>3 DEF Touches

-----------------------------------------------------------------------------
(* Signals *)

\* What is known of a pid, on both sides of a step.
Named(x) == (x.pid # 0 => x.sid # 0) /\ (x.fork.pid # 0 => x.fork.sid # 0)
NamedOnDisk(r) == disk[r].pid # 0 => disk[r].sid # 0

LEMMA CheckedStep ==
  ASSUME IInv, Checked, NEW r \in Records, Touches(r), Named(mem'[r]), NamedOnDisk(r)',
         UNCHANGED asked, Grows
  PROVE  Checked'
<1>1. ASSUME NEW s \in Records
      PROVE  Named(mem'[s]) /\ NamedOnDisk(s)' /\ Ours(asked[s].seen, s)'
  <2>1. Named(mem[s]) /\ NamedOnDisk(s) /\ Ours(asked[s].seen, s)
    BY DEF Checked, Named, NamedOnDisk
  <2>2. Ours(asked[s].seen, s)'
    BY <2>1 DEF Ours, Grows
  <2> QED
    BY <2>1, <2>2 DEF Touches, Named, NamedOnDisk
<1> QED
  BY <1>1 DEF Checked, Named, NamedOnDisk

LEMMA CheckedTurn ==
  ASSUME IInv, Checked, NEW r \in Records, NEW x, Turns(r, x)
  PROVE  Touches(r) /\ Named(mem'[r]) /\ NamedOnDisk(r)'
  BY DEF Turns, Follows, Checked, Named, NamedOnDisk

THEOREM CheckedKept ==
  ASSUME IInv, Checked, [Next]_vars, "identity" \notin Faults
  PROVE  Checked'
<1>1. ASSUME NEW r \in Records, NEW x, Turns(r, x), UNCHANGED <<asked, origin>>
      PROVE  Checked'
  BY <1>1, CheckedTurn, CheckedStep DEF Grows
<1>2. ASSUME UNCHANGED <<mem, disk, asked>>, Grows
      PROVE  Checked'
  BY <1>2 DEF Checked, Ours, Grows
<1>3. CASE Host
  <2>1. ASSUME NEW p \in Pids, Die(p) PROVE Checked'
    BY <1>2, <2>1 DEF Die, Grows
  <2>2. ASSUME NEW p \in Pids, ForeignStarts(p) PROVE Checked'
    BY <1>2, <2>2, BeginStep DEF ForeignStarts
  <2> QED
    BY <1>3, <2>1, <2>2 DEF Host
<1>4. CASE Collects
  BY <1>2, <1>4 DEF Collects, Collect, Grows
<1>5. ASSUME NEW r \in Records, Adopt(r) PROVE Checked'
  <2>1. CASE SkipRecord(r)
    BY <1>2, <2>1 DEF SkipRecord, Grows, host
  <2>2. CASE Rebuild(r)
    <3>1. Touches(r) /\ disk' = disk
          /\ mem'[r].pid = disk[r].pid /\ mem'[r].sid = disk[r].sid /\ mem'[r].fork = NoFork
      BY <2>2, RebuildFields DEF Untouched
    <3>2. Named(mem'[r]) /\ NamedOnDisk(r)'
      BY <3>1 DEF Checked, Named, NamedOnDisk, NoFork
    <3> QED
      BY <2>2, <3>1, <3>2, CheckedStep DEF Rebuild, Grows, host
  <2>3. CASE AdoptionDecision(r)
    BY <1>1, <2>3, DecisionTurns DEF AdoptionDecision, host
  <2>4. CASE OrphanOrTerminal(r)
    BY <1>1, <2>4, OrphanTurns DEF OrphanOrTerminal, host
  <2> QED
    BY <1>5, <2>1, <2>2, <2>3, <2>4 DEF Adopt
<1>6. CASE AllAdopted
  BY <1>2, <1>6 DEF AllAdopted, Grows, host
<1>7. ASSUME NEW r \in Records, Run(r) PROVE Checked'
  <2>1. CASE Fork(r)
    <3>1. PICK p \in Pids : /\ Begin(p, r) /\ Touches(r) /\ disk' = disk
                            /\ mem'[r] = [mem[r] EXCEPT !.pc = "forked", !.fork =
                                 [pid |-> p, run |-> NextProcess, sid |-> NextProcess]]
      BY <2>1, ForkFields
    <3>2. /\ mem'[r].pid = mem[r].pid /\ mem'[r].sid = mem[r].sid
          /\ mem'[r].fork.sid = NextProcess /\ NextProcess # 0 /\ Grows
      BY <3>1, InMemory, BeginStep DEF Memory
    <3>3. Named(mem'[r]) /\ NamedOnDisk(r)'
      BY <3>1, <3>2 DEF Checked, Named, NamedOnDisk
    <3> QED
      BY <2>1, <3>1, <3>2, <3>3, CheckedStep DEF Fork
  <2>2. CASE SpawnFails(r)
    BY <1>1, <2>2, SpawnFailsTurns DEF SpawnFails, host
  <2>3. CASE Identify(r)
    <3>1. /\ Touches(r) /\ mem'[r].fork = NoFork
          /\ mem'[r].pid = mem[r].fork.pid /\ mem'[r].sid = mem[r].fork.sid
          /\ Follows(r)
      BY <2>3, IdentifyFields
    <3>2. Named(mem'[r]) /\ NamedOnDisk(r)'
      BY <3>1 DEF Checked, Named, NamedOnDisk, NoFork, Follows
    <3> QED
      BY <2>3, <3>1, <3>2, CheckedStep DEF Identify, Recorded, Grows, host
  <2>4. CASE Settle(r)
    BY <1>1, <2>4, SettleTurns DEF Settle, host
  <2>5. CASE ProbeEnds(r)
    BY <1>1, <2>5, ProbeEndsTurns DEF ProbeEnds, host
  <2>6. CASE Ended(r) /\ mem[r] # NoRecord
    BY <1>1, <2>6, EndedTurns DEF Ended, host
  <2>7. CASE /\ mem[r].watch = "poll" /\ Put(r, [mem[r] EXCEPT !.watch = "none"])
             /\ UNCHANGED <<host, disk, asked>>
    BY <1>1, <2>7, UnwatchTurns DEF host
  <2>8. CASE MaybeRestart(r)
    BY <1>1, <2>8, MaybeRestartTurns DEF MaybeRestart, host
  <2>9. CASE Backoff(r)
    BY <1>1, <2>9, BackoffTurns DEF Backoff, host
  <2>10. Monitor(r) \/ WatchAdopted(r) => mem[r] # NoRecord
    BY DEF Monitor, WatchAdopted, NoRecord
  <2> QED
    BY <1>7, <2>1, <2>2, <2>3, <2>4, <2>5, <2>6, <2>7, <2>8, <2>9, <2>10
       DEF Run, Monitor, WatchAdopted
<1>8. CASE Request
  <2>1. ASSUME NEW r \in Records, StartProcess(r) PROVE Checked'
    <3>1. Touches(r) /\ Named(mem'[r]) /\ NamedOnDisk(r)'
      BY <2>1, StartFields DEF Named, NamedOnDisk, Untouched, NoFork
    <3> QED
      BY <2>1, <3>1, CheckedStep DEF StartProcess, Grows, host
  <2>2. ASSUME NEW r \in Records, Signal(r) PROVE Checked'
    BY <2>2, HostFacts DEF Checked, Signal, SignalTypes, Ours, NotAsked, host
  <2>3. ASSUME NEW r \in Records, StopProcess(r) PROVE Checked'
    <3>1. Touches(r) /\ Named(mem'[r]) /\ NamedOnDisk(r)' /\ origin' = origin
      BY <2>3, StopTurns, CheckedTurn DEF StopProcess, host
    <3>2. Ours(asked'[r].seen, r) /\ \A s \in Records \ {r} : asked'[s] = asked[s]
      <4>1. asked \in [Records -> [pid : PidOr0, seen : Forks, run : Forks]]
        BY HostFacts DEF SignalTypes
      <4>2. CASE Ask(mem[r])
        <5>1. asked'[r].seen = HolderOf(mem[r].pid) /\ HolderOf(mem[r].pid) # 0
          BY <2>3, <4>1, <4>2 DEF StopProcess, Ask
        <5>2. mem[r].pid # 0
          BY <5>1, AdoptionAssumption DEF HolderOf
        <5>3. mem[r].sid = HolderOf(mem[r].pid)
          BY <4>2, <5>2 DEF Ask, Checked
        <5>4. Ours(mem[r].sid, r)
          BY InMemory DEF Trace
        <5> QED
          BY <2>3, <4>1, <5>1, <5>3, <5>4 DEF StopProcess
      <4>3. CASE ~Ask(mem[r])
        BY <2>3, <4>1, <4>3 DEF StopProcess, NotAsked, Ours
      <4> QED
        BY <4>2, <4>3
    <3> QED
      BY <3>1, <3>2 DEF Checked, Touches, Named, NamedOnDisk, Ours
  <2>4. ASSUME NEW r \in Records, RestartProcess(r) PROVE Checked'
    BY <1>1, <2>4, RestartTurns DEF RestartProcess, host
  <2> QED
    BY <1>8, <2>1, <2>2, <2>3, <2>4, AdoptionAssumption DEF Request
<1>9. CASE AgentDies
  BY <1>9 DEF AgentDies, Checked, Ours, NoRecord, NoFork, NotAsked
<1>10. CASE AgentStarts
  BY <1>2, <1>10 DEF AgentStarts, Grows, host
<1>11. CASE UNCHANGED vars
  BY <1>2, <1>11 DEF vars, Grows, host
<1> QED
  BY <1>3, <1>4, <1>5, <1>6, <1>7, <1>8, <1>9, <1>10, <1>11 DEF Next, Adopts

LEMMA StrangersKept ==
  ASSUME IInv, Checked, StrangersSafe, [Next]_vars
  PROVE  StrangersSafe'
<1>1. CASE struck' = struck
  BY <1>1 DEF StrangersSafe
<1>2. ASSUME NEW r \in Records, Signal(r) PROVE StrangersSafe'
  <2>1. PICK hit : /\ struck' = struck \/
                        (hit # 0 /\ origin[hit] # r
                         /\ struck' = struck \cup {[process |-> hit, seen |-> asked[r].seen]})
    BY <1>2 DEF Signal
  <2>2. Ours(asked[r].seen, r)
    BY DEF Checked
  <2> QED
    BY <2>1, <2>2 DEF StrangersSafe, Ours
<1>3. [Next]_vars => struck' = struck \/ \E r \in Records : Signal(r)
  <2>1. Host \/ Collects \/ Adopts => struck' = struck
    BY DEF Host, Die, ForeignStarts, Collects, Collect, Adopts, AllAdopted, Adopt, Rebuild,
           SkipRecord, AdoptionDecision, OrphanOrTerminal, ghosts
  <2>2. \A r \in Records : Run(r) => struck' = struck
    BY DEF Run, Fork, SpawnFails, Identify, Recorded, Settle, ProbeEnds, Monitor, WatchAdopted,
           Ended, MaybeRestart, Backoff, ghosts
  <2>3. \A r \in Records :
          StartProcess(r) \/ StopProcess(r) \/ RestartProcess(r) => struck' = struck
    BY DEF StartProcess, StopProcess, RestartProcess, ghosts
  <2>4. AgentDies \/ AgentStarts \/ UNCHANGED vars => struck' = struck
    BY DEF AgentDies, AgentStarts, vars, ghosts
  <2> QED
    BY <2>1, <2>2, <2>3, <2>4, AdoptionAssumption DEF Next, Request
<1> QED
  BY <1>1, <1>2, <1>3

\* If the start identity of a child can always be read, a signal reaches a process
\* that is not the record's only if that took the pid between the check and the
\* signal (signal.go:25, 116).
THEOREM StrangersAreSafe == "identity" \notin Faults /\ Spec => []StrangersSafe
<1>1. Init => SignalInv
  BY DEF Init, SignalInv, Checked, StrangersSafe, Ours, NoRecord, NoFork, NotSaved, NotAsked
<1>2. SUFFICES ASSUME "identity" \notin Faults PROVE Spec => []StrangersSafe
  OBVIOUS
<1>3. IInv /\ SignalInv /\ [Next]_vars => SignalInv'
  BY <1>2, CheckedKept, StrangersKept DEF SignalInv
<1>4. SignalInv => StrangersSafe
  BY DEF SignalInv
<1> QED
  BY <1>1, <1>3, <1>4, InvAlways, PTL DEF Spec

-----------------------------------------------------------------------------
(* The one process the disk knows *)

Alive(r) == \E n \in 1 .. Len(origin) : Known(r, n)

LEMMA AliveFacts ==
  ASSUME IInv, NEW r \in Records, Sane(r), Alive(r), mem[r] # NoRecord
  PROVE  /\ mem[r].state \in Started \cup {"ORPHANED"} /\ mem[r].pc \in {"idle", "decide"}
         /\ mem[r].sid # 0 /\ Running(mem[r].sid) /\ HolderOf(mem[r].pid) = mem[r].sid
<1>1. PICK n \in 1 .. Len(origin) : Known(r, n)
  BY DEF Alive
<1>2. /\ mem[r].state \in Started \cup {"ORPHANED"} /\ mem[r].pc \in {"idle", "decide"}
      /\ mem[r].sid = n /\ \A p \in Pids : holder[p] = n => p = mem[r].pid
  BY <1>1 DEF Sane, OnDisk, Synced
<1>3. n # 0 /\ Running(n)
  BY <1>1, HostFacts DEF Known
<1>4. HolderOf(mem[r].pid) = n
  BY <1>2, <1>3 DEF Running, HolderOf
<1> QED
  BY <1>2, <1>3, <1>4

\* What a step leaves of the processes there were: none of them starts to run, none
\* changes its pid, and a child that runs is still one.
HostCalm ==
  \A n \in 1 .. Len(origin) :
    /\ n \in 1 .. Len(origin)' /\ origin'[n] = origin[n]
    /\ Running(n)' => Running(n)
    /\ \A p \in Pids : holder'[p] = n => holder[p] = n
    /\ n \in children /\ Running(n)' => n \in children'

LEMMA StillHost == ASSUME IInv, UNCHANGED host PROVE HostCalm /\ (Injective => Injective')
  BY DEF host, HostCalm, Running, Injective

LEMMA OwnedKept ==
  ASSUME IInv, Owned, HostCalm, \A n \in known' : n \in known \/ origin'[n] \in Records
  PROVE  Owned'
  BY HostFacts DEF SignalTypes, Owned, HostCalm

LEMMA SaneKept ==
  ASSUME IInv, IInv', NEW s \in Records, Sane(s), mem'[s] = mem[s], disk'[s] = disk[s], HostCalm,
         s \in todo' => s \in todo \/ disk[s] # NotSaved,
         \A n \in known' : n \in known \/ origin'[n] # s
  PROVE  Sane(s)'
<1>1. Synced(s)'
  BY DEF Sane, Synced
<1>2. OnDisk(s)'
  <2> SUFFICES ASSUME NEW n \in 1 .. Len(origin'), Known(s, n)'
               PROVE  /\ disk'[s].sid = n /\ \A p \in Pids : holder'[p] = n => p = disk'[s].pid
                      /\ disk'[s].state \in Started \cup {"ORPHANED"}
                      /\ mem'[s].pc \in {"idle", "decide"}
    BY DEF OnDisk
  <2>1. n \in known /\ n \in 1 .. Len(origin)
    BY HostFacts DEF Known, SignalTypes
  <2>2. Known(s, n)
    BY <2>1 DEF Known, HostCalm
  <2> QED
    BY <2>1, <2>2 DEF Sane, OnDisk, HostCalm
<1>3. ASSUME NEW n \in 1 .. Len(origin), Child(n) PROVE Child(n)'
  BY <1>3 DEF Child, HostCalm
<1>4. Traced(s)
  BY DEF IInv, Numbered
<1>5. ForkedOne(s)'
  <2> SUFFICES ASSUME At(s, "forked") PROVE ForkedOne(s)'
    BY DEF ForkedOne, At
  <2>1. mem[s].fork.run \in 1 .. Len(origin)
    BY <1>4 DEF Sane, ForkedOne, Traced, Trace, Ours
  <2>2. Child(mem[s].fork.run)'
    BY <1>3, <2>1 DEF Sane, ForkedOne, Child
  <2> QED
    BY <2>1, <2>2 DEF Sane, ForkedOne, HostCalm, At
<1>6. Watched(s)'
  <2>1. CASE mem[s].watch = "monitor"
    <3>1. mem[s].run \in 1 .. Len(origin)
      BY <1>4, <2>1 DEF Sane, Watched, Traced, Trace, Ours
    <3>2. Child(mem[s].run)'
      BY <1>3, <2>1, <3>1 DEF Sane, Watched, Child
    <3> QED
      BY <2>1, <3>2 DEF Sane, Watched, At
  <2>2. CASE mem[s].watch # "monitor"
    BY <2>2 DEF Sane, Watched, At
  <2> QED
    BY <2>1, <2>2
<1>7. Settling(s)'
  BY DEF Sane, Settling
<1> QED
  BY <1>1, <1>2, <1>5, <1>6, <1>7 DEF Sane

\* The conditions under which a step of r that is a Turn keeps r sane.
TurnsWell(r, x) ==
  /\ Alive(r) => mem'[r].state \in Started \cup {"ORPHANED"} /\ x.pc \in {"idle", "decide"}
  /\ mem'[r].state # "UNSPECIFIED"
  /\ x.pc = "forked" => At(r, "forked")
  /\ x.watch = "monitor" => mem[r].watch = "monitor" /\ x.run = mem[r].run
  /\ x.watch # "none" => x.pc = "idle"
  /\ x.watch # "none" \/ x.pc \in {"spawn", "forked"} => mem'[r].state \in Started
  /\ x.pc = "decide" => IsLive(mem'[r].state) /\ x.settle = "no"
  /\ x.settle = "spawn" => r \notin Probed
  /\ x.probing => r \in Probed
  /\ mem'[r].state = "READY" => r \in Probed

LEMMA TurnSane ==
  ASSUME IInv, IInv', NEW r \in Records, NEW x, Sane(r), Turns(r, x), TurnsWell(r, x),
         UNCHANGED host, known' = known
  PROVE  Sane(r)'
<1>1. /\ mem[r].state = disk[r].state /\ mem[r].pid = disk[r].pid /\ mem[r].sid = disk[r].sid
  BY DEF Sane, Synced, Turns
<1>2. /\ disk'[r].state = mem'[r].state /\ disk'[r].pid = mem'[r].pid /\ disk'[r].sid = mem'[r].sid
      /\ disk'[r].pid = disk[r].pid /\ disk'[r].sid = disk[r].sid
  BY <1>1 DEF Turns, Follows
<1>3. Synced(r)'
  BY <1>2 DEF Synced, TurnsWell
<1>4. OnDisk(r)'
  <2> SUFFICES ASSUME NEW n \in 1 .. Len(origin), Known(r, n)
               PROVE  /\ disk'[r].sid = n /\ \A p \in Pids : holder[p] = n => p = disk'[r].pid
                      /\ disk'[r].state \in Started \cup {"ORPHANED"}
                      /\ mem'[r].pc \in {"idle", "decide"}
    BY DEF OnDisk, Known, Running, host
  <2>1. Alive(r)
    BY DEF Alive
  <2> QED
    BY <1>2, <2>1 DEF Sane, OnDisk, TurnsWell, Turns
<1>5. ForkedOne(r)'
  BY DEF Sane, ForkedOne, At, Child, Running, TurnsWell, Turns, host
<1>6. Watched(r)'
  BY DEF Sane, Watched, At, Child, Running, TurnsWell, Turns, host
<1>7. Settling(r)'
  BY <1>2 DEF Settling, TurnsWell, Turns
<1> QED
  BY <1>3, <1>4, <1>5, <1>6, <1>7 DEF Sane

\* A step of one record that is a turn keeps all of them sane.
LEMMA TurnStep ==
  ASSUME IInv, IInv', RunInv, NEW r \in Records, NEW x, Turns(r, x), TurnsWell(r, x),
         UNCHANGED host, known' = known, todo' = todo
  PROVE  RunInv'
<1>1. Sane(r)'
  BY TurnSane DEF RunInv
<1>2. ASSUME NEW s \in Records \ {r} PROVE Sane(s)'
  BY StillHost, SaneKept DEF RunInv, Turns, Touches
<1> QED
  BY <1>1, <1>2, StillHost, OwnedKept DEF RunInv

\* A step that leaves the records.
LEMMA StillStep ==
  ASSUME IInv, IInv', RunInv, UNCHANGED <<mem, disk, known>>,
         \A s \in todo' : s \in todo \/ disk[s] # NotSaved,
         HostCalm, Injective'
  PROVE  RunInv'
  BY SaneKept, OwnedKept DEF RunInv

\* What every Turn may rely on.
LEMMA Before ==
  ASSUME IInv, RunInv, NEW r \in Records, mem[r] # NoRecord
  PROVE  /\ Sane(r) /\ mem[r].state # "UNSPECIFIED"
         /\ mem[r].state = "READY" => r \in Probed
         /\ Watched(r) /\ Settling(r) /\ mem[r] \in Memory
         /\ Alive(r) => mem[r].state \in Started \cup {"ORPHANED"} /\ mem[r].pc \in {"idle", "decide"}
  BY AliveFacts, InMemory DEF RunInv, Sane, Synced, Settling

LEMMA RunSpawnFails ==
  ASSUME IInv, IInv', RunInv, NEW r \in Records, SpawnFails(r) PROVE RunInv'
<1> DEFINE x == [mem[r] EXCEPT !.pc = "idle"]
<1>1. Turns(r, x) /\ mem'[r].state \in {mem[r].state, "CRASHED"} /\ mem[r].pc = "spawn"
      /\ mem[r] # NoRecord
  BY SpawnFailsTurns DEF SpawnFails, Turns
<1>2. /\ x.pc = "idle" /\ x.watch = mem[r].watch /\ x.run = mem[r].run
      /\ x.settle = mem[r].settle /\ x.probing = mem[r].probing
  BY <1>1, Before DEF Memory
<1>3. TurnsWell(r, x)
  BY <1>1, <1>2, Before DEF TurnsWell, Watched, Settling, At
<1> QED
  BY <1>1, <1>3, TurnStep DEF SpawnFails, ghosts

LEMMA RunSettle ==
  ASSUME IInv, IInv', RunInv, NEW r \in Records, Settle(r) PROVE RunInv'
<1> DEFINE x == [mem[r] EXCEPT !.settle = "no"]
<1>1. /\ Turns(r, x) /\ mem[r] # NoRecord /\ mem[r].settle # "no"
      /\ \/ mem'[r].state = mem[r].state
         \/ mem[r].state \in {"STARTING", "RUNNING"} /\ mem'[r].state = "RUNNING"
         \/ /\ mem[r].settle = "spawn" /\ mem[r].state \in {"READY", "RESTARTING", "CRASHED"}
            /\ mem'[r].state = "CRASHED"
  BY SettleTurns DEF Settle, Turns
<1>2. /\ x.pc = mem[r].pc /\ x.watch = mem[r].watch /\ x.run = mem[r].run
      /\ x.settle = "no" /\ x.probing = mem[r].probing
  BY <1>1, Before DEF Memory
<1>3. mem'[r].state = "CRASHED" /\ mem[r].state # "CRASHED" =>
        mem[r].state = "RESTARTING"
  BY <1>1, Before DEF Settling
<1>4. TurnsWell(r, x)
  BY <1>1, <1>2, <1>3, Before DEF TurnsWell, Watched, Settling, At, Started, IsLive
<1> QED
  BY <1>1, <1>4, TurnStep DEF Settle, ghosts

LEMMA RunProbeEnds ==
  ASSUME IInv, IInv', RunInv, NEW r \in Records, ProbeEnds(r) PROVE RunInv'
<1> DEFINE x == [mem[r] EXCEPT !.probing = FALSE]
<1>1. /\ Turns(r, x) /\ mem[r] # NoRecord /\ mem[r].probing
      /\ \/ mem'[r].state = mem[r].state
         \/ mem[r].state \in Started /\ mem'[r].state = "READY"
  BY ProbeEndsTurns DEF ProbeEnds, Turns
<1>2. /\ x.pc = mem[r].pc /\ x.watch = mem[r].watch /\ x.run = mem[r].run
      /\ x.settle = mem[r].settle /\ x.probing = FALSE
  BY <1>1, Before DEF Memory
<1>3. r \in Probed
  BY <1>1, Before DEF Settling
<1>4. TurnsWell(r, x)
  BY <1>1, <1>2, <1>3, Before DEF TurnsWell, Watched, Settling, At, Started, IsLive
<1> QED
  BY <1>1, <1>4, TurnStep DEF ProbeEnds, ghosts

LEMMA RunEnded ==
  ASSUME IInv, IInv', RunInv, NEW r \in Records, Ended(r), mem[r] # NoRecord, ~Alive(r)
  PROVE  RunInv'
<1> DEFINE x == [mem[r] EXCEPT !.watch = "none", !.run = 0, !.pc = "ended"]
<1>1. Turns(r, x) /\ mem'[r].state \in {mem[r].state, "CRASHED"}
  BY EndedTurns
<1>2. x.pc = "ended" /\ x.watch = "none" /\ x.settle = mem[r].settle /\ x.probing = mem[r].probing
  BY Before DEF Memory
<1>3. TurnsWell(r, x)
  BY <1>1, <1>2, Before DEF TurnsWell, Settling
<1> QED
  BY <1>1, <1>3, TurnStep DEF Ended, ghosts

\* The end of a run is seen only when it is over: a child of this agent has been
\* collected, and the pid of another is not that process's any more.
LEMMA RunMonitor ==
  ASSUME IInv, IInv', RunInv, NEW r \in Records, Monitor(r) PROVE RunInv'
<1>1. mem[r] # NoRecord /\ mem[r].watch = "monitor" /\ mem[r].run \notin children /\ Ended(r)
  BY DEF Monitor, NoRecord
<1>2. ~Alive(r)
  <2> SUFFICES ASSUME Alive(r) PROVE FALSE
    OBVIOUS
  <2>1. mem[r].sid # 0 /\ Running(mem[r].sid)
    BY <1>1, Before, AliveFacts
  <2>2. mem[r].sid = mem[r].run /\ Child(mem[r].run)
    BY <1>1, <2>1, Before DEF Watched
  <2> QED
    BY <1>1, <2>1, <2>2 DEF Child
<1> QED
  BY <1>1, <1>2, RunEnded

LEMMA RunWatchAdopted ==
  ASSUME IInv, IInv', RunInv, "read" \notin Faults, NEW r \in Records, WatchAdopted(r)
  PROVE  RunInv'
<1>1. mem[r] # NoRecord /\ mem[r].watch = "poll"
  BY DEF WatchAdopted, NoRecord
<1>2. CASE Ended(r) /\ Gone(r)
  <2>1. ~Alive(r)
    BY <1>1, <1>2, Before, AliveFacts DEF Gone
  <2> QED
    BY <1>1, <1>2, <2>1, RunEnded
<1>3. CASE /\ Put(r, [mem[r] EXCEPT !.watch = "none"])
           /\ UNCHANGED <<host, agent, limits, todo, disk, asked, ghosts>>
  <2> DEFINE x == [mem[r] EXCEPT !.watch = "none"]
  <2>1. Turns(r, x) /\ mem'[r].state = mem[r].state
    BY <1>1, <1>3, UnwatchTurns
  <2>2. /\ x.pc = mem[r].pc /\ x.watch = "none" /\ x.settle = mem[r].settle
        /\ x.probing = mem[r].probing
    BY <1>1, Before DEF Memory
  <2>3. mem[r].pc = "idle"
    BY <1>1, Before DEF Watched, At
  <2>4. TurnsWell(r, x)
    BY <1>1, <2>1, <2>2, <2>3, Before DEF TurnsWell, Settling
  <2>5. UNCHANGED host /\ known' = known /\ todo' = todo
    BY <1>3 DEF ghosts
  <2> QED
    BY <2>1, <2>4, <2>5, TurnStep
<1> QED
  BY <1>2, <1>3 DEF WatchAdopted

LEMMA RunMaybeRestart ==
  ASSUME IInv, IInv', RunInv, NEW r \in Records, MaybeRestart(r) PROVE RunInv'
<1>1. PICK pc \in {"backoff", "idle"} :
        /\ Turns(r, [mem[r] EXCEPT !.pc = pc])
        /\ mem'[r].state \in {mem[r].state, "RESTARTING"}
  BY MaybeRestartTurns
<1> DEFINE x == [mem[r] EXCEPT !.pc = pc]
<1>2. mem[r] # NoRecord /\ mem[r].pc = "ended"
  BY DEF MaybeRestart, NoRecord
<1>3. x.pc = pc /\ x.watch = mem[r].watch /\ x.settle = mem[r].settle /\ x.probing = mem[r].probing
  BY <1>2, Before DEF Memory
<1>4. TurnsWell(r, x)
  BY <1>1, <1>2, <1>3, Before DEF TurnsWell, Watched, Settling, At
<1> QED
  BY <1>1, <1>4, TurnStep DEF MaybeRestart, ghosts

LEMMA RunBackoff ==
  ASSUME IInv, IInv', RunInv, NEW r \in Records, Backoff(r) PROVE RunInv'
<1>1. PICK pc \in {"spawn", "idle"} :
        /\ Turns(r, [mem[r] EXCEPT !.pc = pc])
        /\ mem'[r].state \in {mem[r].state, "CRASHED", "STARTING"}
        /\ pc = "spawn" => mem'[r].state = "STARTING"
  BY BackoffTurns
<1> DEFINE x == [mem[r] EXCEPT !.pc = pc]
<1>2. mem[r] # NoRecord /\ mem[r].pc = "backoff"
  BY DEF Backoff, NoRecord
<1>3. x.pc = pc /\ x.watch = mem[r].watch /\ x.settle = mem[r].settle /\ x.probing = mem[r].probing
  BY <1>2, Before DEF Memory
<1>4. TurnsWell(r, x)
  BY <1>1, <1>2, <1>3, Before DEF TurnsWell, Watched, Settling, At, Started
<1> QED
  BY <1>1, <1>4, TurnStep DEF Backoff, ghosts

LEMMA RunStop ==
  ASSUME IInv, IInv', RunInv, NEW r \in Records, StopProcess(r) PROVE RunInv'
<1>1. Turns(r, mem[r]) /\ mem'[r].state = mem[r].state /\ mem[r] # NoRecord
  BY StopTurns DEF Turns
<1>2. TurnsWell(r, mem[r])
  BY <1>1, Before DEF TurnsWell, Watched, Settling, At
<1> QED
  BY <1>1, <1>2, TurnStep DEF StopProcess, ghosts

LEMMA RunRestart ==
  ASSUME IInv, IInv', RunInv, NEW r \in Records, RestartProcess(r) PROVE RunInv'
<1>1. PICK pc \in {"spawn", "idle"} :
        /\ Turns(r, [mem[r] EXCEPT !.pc = pc])
        /\ mem[r].state = "CRASHED" /\ mem'[r].state \in {"CRASHED", "STARTING"}
        /\ pc = "spawn" => mem'[r].state = "STARTING"
  BY RestartTurns
<1> DEFINE x == [mem[r] EXCEPT !.pc = pc]
<1>2. mem[r] # NoRecord
  BY <1>1 DEF NoRecord
<1>3. x.pc = pc /\ x.watch = mem[r].watch /\ x.settle = mem[r].settle /\ x.probing = mem[r].probing
  BY <1>2, Before DEF Memory
<1>4. TurnsWell(r, x)
  BY <1>1, <1>2, <1>3, Before DEF TurnsWell, Watched, Settling, At, Started
<1> QED
  BY <1>1, <1>4, TurnStep DEF RestartProcess, ghosts

\* A process that runs proves itself, so what is refused does not.
LEMMA RunDecision ==
  ASSUME IInv, IInv', RunInv, "read" \notin Faults, NEW r \in Records, AdoptionDecision(r)
  PROVE  RunInv'
<1>1. mem'[r].state = mem[r].state /\ UNCHANGED host /\ known' = known /\ todo' = todo
  BY DecisionTurns DEF AdoptionDecision, ghosts
<1>2. mem[r] # NoRecord /\ mem[r].pc = "decide"
  <2>1. mem[r].pc = "decide"
    BY DEF AdoptionDecision
  <2> QED
    BY <2>1 DEF NoRecord
<1>3. Alive(r) => Proven(mem[r])
  BY <1>2, Before, AliveFacts DEF Proven, Started
<1>4. CASE Turns(r, [mem[r] EXCEPT !.pc = "refused"]) /\ ~Proven(mem[r])
  <2> DEFINE x == [mem[r] EXCEPT !.pc = "refused"]
  <2>1. /\ x.pc = "refused" /\ x.watch = mem[r].watch /\ x.settle = mem[r].settle
        /\ x.probing = mem[r].probing
    BY <1>2, Before DEF Memory
  <2>2. TurnsWell(r, x)
    BY <1>1, <1>2, <1>3, <1>4, <2>1, Before DEF TurnsWell, Watched, Settling, At
  <2> QED
    BY <1>1, <1>4, <2>2, TurnStep
<1>5. ASSUME NEW watch \in {"poll", "none"}, NEW settle \in {"adopt", "no"},
             NEW probing \in BOOLEAN, probing => r \in Probed, Proven(mem[r]),
             Turns(r, [mem[r] EXCEPT !.pc = "idle", !.watch = watch, !.settle = settle,
                                     !.probing = probing])
      PROVE  RunInv'
  <2> DEFINE x == [mem[r] EXCEPT !.pc = "idle", !.watch = watch, !.settle = settle,
                                 !.probing = probing]
  <2>1. x.pc = "idle" /\ x.watch = watch /\ x.settle = settle /\ x.probing = probing
    BY <1>2, Before DEF Memory
  <2>2. mem[r].state \in Started
    BY <1>2, <1>5, Before DEF Watched, At, IsLive, Proven, Started
  <2>3. TurnsWell(r, x)
    BY <1>1, <1>2, <1>5, <2>1, <2>2, Before DEF TurnsWell
  <2> QED
    BY <1>1, <1>5, <2>3, TurnStep
<1> QED
  BY <1>4, <1>5, DecisionTurns

LEMMA RunOrphan ==
  ASSUME IInv, IInv', RunInv, NEW r \in Records, OrphanOrTerminal(r) PROVE RunInv'
<1> DEFINE x == [mem[r] EXCEPT !.pc = "idle"]
<1>1. Turns(r, x) /\ mem'[r].state \in {"CRASHED", "ORPHANED"} /\ mem[r] # NoRecord
      /\ mem[r].pc = "refused"
  BY OrphanTurns DEF OrphanOrTerminal, Turns
<1>2. /\ x.pc = "idle" /\ x.watch = mem[r].watch /\ x.settle = mem[r].settle
      /\ x.probing = mem[r].probing
  BY <1>1, Before DEF Memory
<1>3. TurnsWell(r, x)
  BY <1>1, <1>2, Before DEF TurnsWell, Watched, Settling, At
<1> QED
  BY <1>1, <1>3, TurnStep DEF OrphanOrTerminal, ghosts

\* The steps that change what the host runs, or bring a record into memory.

LEMMA HostDie == ASSUME IInv, RunInv, NEW p \in Pids, Die(p) PROVE RunInv'
<1>1. /\ IInv' /\ UNCHANGED <<mem, disk, known, todo, origin, children>>
  BY InvDie DEF Die, ghosts
<1>2. holder \in [Pids -> Forks]
  BY HostFacts DEF HostTypes
<1>3. \A q \in Pids : holder'[q] # 0 => holder'[q] = holder[q]
  BY <1>2 DEF Die
<1>4. zombies \subseteq zombies'
  BY DEF Die
<1>5. HostCalm
  <2> SUFFICES ASSUME NEW n \in 1 .. Len(origin), n # 0
               PROVE  /\ Running(n)' => Running(n)
                      /\ \A q \in Pids : holder'[q] = n => holder[q] = n
    BY <1>1 DEF HostCalm
  <2> QED
    BY <1>3, <1>4 DEF Running
<1>6. Injective'
  BY <1>3 DEF RunInv, Injective
<1> QED
  BY <1>1, <1>5, <1>6, StillStep

\* A new process changes nothing of the ones there were.
LEMMA BeginCalm ==
  ASSUME IInv, RunInv, NEW p \in Pids, NEW for \in Records \cup {Foreign}, Begin(p, for),
         zombies' = zombies, children \subseteq children'
  PROVE  HostCalm /\ Injective' /\ \A q \in Pids : holder'[q] = NextProcess => q = p
<1>1. /\ holder' = [holder EXCEPT ![p] = NextProcess] /\ NextProcess = Len(origin) + 1
      /\ Len(origin) \in Nat /\ \A q \in Pids : holder[q] <= Len(origin) /\ holder[q] \in Forks
      /\ holder \in [Pids -> Forks]
  BY BeginStep, HostFacts DEF Begin, Bounded, HostTypes
<1>2. \A q \in Pids : holder[q] # NextProcess
  BY <1>1 DEF Forks
<1>3. \A q \in Pids : holder'[q] = IF q = p THEN NextProcess ELSE holder[q]
  BY <1>1
<1>4. HostCalm
  <2> SUFFICES ASSUME NEW n \in 1 .. Len(origin)
               PROVE  /\ n \in 1 .. Len(origin)' /\ origin'[n] = origin[n]
                      /\ Running(n)' => Running(n)
                      /\ \A q \in Pids : holder'[q] = n => holder[q] = n
                      /\ n \in children => n \in children'
    BY DEF HostCalm
  <2>1. n \in 1 .. Len(origin)' /\ origin'[n] = origin[n]
    BY BeginStep DEF Grows
  <2>2. n # NextProcess
    BY <1>1
  <2> QED
    BY <1>3, <2>1, <2>2 DEF Running
<1> QED
  BY <1>2, <1>3, <1>4 DEF RunInv, Injective

LEMMA HostForeign == ASSUME IInv, RunInv, NEW p \in Pids, ForeignStarts(p) PROVE RunInv'
<1>1. HostCalm /\ Injective'
  BY BeginCalm DEF ForeignStarts
<1> QED
  BY <1>1, InvForeign, StillStep DEF ForeignStarts, ghosts

LEMMA HostCollect == ASSUME IInv, RunInv, NEW p \in Pids, Collect(p) PROVE RunInv'
<1>1. IInv' /\ UNCHANGED <<mem, disk, known, todo, origin>>
  BY InvCollect DEF Collect, ghosts
<1>2. /\ holder \in [Pids -> Forks] /\ holder[p] \in zombies /\ 0 \notin zombies
      /\ holder' = [holder EXCEPT ![p] = 0]
      /\ children' = children \ {holder[p]} /\ zombies' = zombies \ {holder[p]}
  BY HostFacts DEF HostTypes, Collect
<1>3. \A q \in Pids : holder'[q] # 0 => holder'[q] = holder[q] /\ holder[q] # holder[p]
  BY <1>2 DEF RunInv, Injective
<1>4. HostCalm
  <2> SUFFICES ASSUME NEW n \in 1 .. Len(origin), n # 0
               PROVE  /\ Running(n)' => Running(n) /\ n # holder[p]
                      /\ \A q \in Pids : holder'[q] = n => holder[q] = n
    BY <1>1, <1>2 DEF HostCalm
  <2> QED
    BY <1>2, <1>3 DEF Running
<1>5. Injective'
  BY <1>3 DEF RunInv, Injective
<1> QED
  BY <1>1, <1>4, <1>5, StillStep

LEMMA RunSignal == ASSUME IInv, RunInv, NEW r \in Records, Signal(r) PROVE RunInv'
  BY InvSignal, StillHost, StillStep DEF Signal, RunInv

LEMMA RunSkip == ASSUME IInv, RunInv, NEW r \in Records, SkipRecord(r) PROVE RunInv'
  BY InvSkip, StillHost, StillStep DEF SkipRecord, ghosts, RunInv

LEMMA RunAllAdopted == ASSUME IInv, RunInv, AllAdopted PROVE RunInv'
  BY InvAdopts, StillHost, StillStep DEF AllAdopted, ghosts, RunInv

LEMMA RunAgentStarts == ASSUME IInv, RunInv, AgentStarts PROVE RunInv'
  BY InvStarts, StillHost, StillStep DEF AgentStarts, ghosts, RunInv

\* A step of one record that brings it in, or a process with it: what is left to show
\* is that this record is sane.
LEMMA OneStep ==
  ASSUME IInv, IInv', RunInv, NEW r \in Records, Touches(r), Sane(r)', HostCalm, Injective',
         todo' \subseteq todo, \A n \in known' : n \in known \/ origin'[n] = r
  PROVE  RunInv'
<1>1. ASSUME NEW s \in Records \ {r} PROVE Sane(s)'
  BY SaneKept DEF RunInv, Touches
<1> QED
  BY <1>1, OwnedKept DEF RunInv

LEMMA RunStart == ASSUME IInv, RunInv, NEW r \in Records, StartProcess(r) PROVE RunInv'
<1>1. IInv' /\ UNCHANGED <<host, known, todo>>
  BY StartWorks, PlainStep DEF StartProcess, ghosts
<1>2. /\ Touches(r) /\ disk[r] = NotSaved /\ Untouched(mem'[r])
      /\ mem'[r].state = "STARTING" /\ mem'[r].pid = 0 /\ mem'[r].sid = 0
      /\ mem'[r].pc = "spawn"
      /\ disk'[r].state = "STARTING" /\ disk'[r].pid = 0 /\ disk'[r].sid = 0
  BY StartFields
<1>3. \A n \in 1 .. Len(origin) : ~Known(r, n)
  BY <1>2 DEF RunInv, Sane, OnDisk, NotSaved, Started
<1>4. Synced(r)' /\ Watched(r)' /\ ForkedOne(r)' /\ Settling(r)'
  BY <1>2 DEF Synced, Watched, ForkedOne, Settling, Untouched, At, Started
<1>5. OnDisk(r)'
  BY <1>1, <1>3 DEF OnDisk, Known, Running, host
<1> QED
  BY <1>1, <1>2, <1>4, <1>5, OneStep, StillHost DEF Sane, RunInv

LEMMA RunFork == ASSUME IInv, RunInv, NEW r \in Records, Fork(r) PROVE RunInv'
<1>1. IInv' /\ UNCHANGED <<known, todo, zombies>> /\ children' = children \cup {NextProcess}
  BY InvFork DEF Fork, ghosts
<1>2. PICK p \in Pids, sid \in {0, NextProcess} :
        /\ Begin(p, r) /\ Touches(r) /\ disk' = disk
        /\ mem'[r] = [mem[r] EXCEPT !.pc = "forked",
                        !.fork = [pid |-> p, run |-> NextProcess, sid |-> sid]]
  BY ForkFields
<1>3. mem[r].pc = "spawn" /\ mem[r] # NoRecord /\ mem[r] \in Memory
  BY InMemory DEF Fork, NoRecord
<1>4. /\ mem'[r].pc = "forked" /\ mem'[r].fork.pid = p /\ mem'[r].fork.run = NextProcess
      /\ mem'[r].fork.sid = sid /\ mem'[r].state = mem[r].state /\ mem'[r].pid = mem[r].pid
      /\ mem'[r].sid = mem[r].sid /\ mem'[r].watch = mem[r].watch
      /\ mem'[r].settle = mem[r].settle /\ mem'[r].probing = mem[r].probing
  BY <1>2, <1>3 DEF Memory
<1>5. HostCalm /\ Injective' /\ \A q \in Pids : holder'[q] = NextProcess => q = p
  BY <1>1, <1>2, BeginCalm
<1>6. /\ NextProcess = Len(origin) + 1 /\ Len(origin') = Len(origin) + 1 /\ Len(origin) \in Nat
      /\ known \subseteq 1 .. Len(origin)
  BY <1>2, BeginStep, HostFacts DEF SignalTypes
<1>7. Sane(r) /\ ~Alive(r) /\ Watched(r) /\ Settling(r) /\ mem[r].state # "UNSPECIFIED"
  BY <1>3, Before
<1>8. Synced(r)'
  BY <1>2, <1>3, <1>4, <1>7 DEF Sane, Synced
<1>9. OnDisk(r)'
  <2> SUFFICES ASSUME NEW n \in 1 .. Len(origin'), Known(r, n)' PROVE FALSE
    BY DEF OnDisk
  <2>1. n \in 1 .. Len(origin)
    BY <1>1, <1>6 DEF Known
  <2>2. Known(r, n)
    BY <1>1, <1>5, <2>1 DEF Known, HostCalm
  <2> QED
    BY <1>7, <2>1, <2>2 DEF Alive
<1>10. ForkedOne(r)'
  <2>1. mem'[r].fork.run \in children' /\ NextProcess # 0
    BY <1>1, <1>4, <1>6
  <2> QED
    BY <1>4, <1>5, <2>1 DEF ForkedOne, Child, At
<1>11. Watched(r)' /\ Settling(r)'
  BY <1>2, <1>3, <1>4, <1>7 DEF Watched, Settling, At
<1> QED
  BY <1>1, <1>2, <1>5, <1>8, <1>9, <1>10, <1>11, OneStep DEF Sane

\* What is recorded is the child that was forked, and nothing else runs for the record.
LEMMA RunIdentify == ASSUME IInv, RunInv, NEW r \in Records, Identify(r) PROVE RunInv'
<1>1. /\ IInv' /\ UNCHANGED <<host, todo>> /\ known' = known \cup ({mem[r].fork.sid} \ {0})
  BY InvIdentify DEF Identify, Recorded
<1>2. /\ Touches(r) /\ mem[r] # NoRecord /\ mem[r].pc = "forked"
      /\ mem'[r].pid = mem[r].fork.pid /\ mem'[r].sid = mem[r].fork.sid
      /\ mem'[r].run = mem[r].fork.run /\ mem'[r].fork = NoFork
      /\ mem'[r].state = mem[r].state /\ mem'[r].watch = "monitor" /\ mem'[r].pc = "idle"
      /\ mem'[r].settle = (IF r \in Probed THEN mem[r].settle ELSE "spawn")
      /\ mem'[r].probing = (r \in Probed)
      /\ Follows(r)
  BY IdentifyFields
<1>3. /\ Sane(r) /\ ~Alive(r) /\ Watched(r) /\ Settling(r) /\ mem[r].state # "UNSPECIFIED"
      /\ mem[r].state \in Started /\ ForkedOne(r)
      /\ mem[r].state = disk[r].state /\ mem[r].pid = disk[r].pid /\ mem[r].sid = disk[r].sid
  BY <1>2, Before DEF Sane, Watched, Synced
<1>4. /\ mem[r].fork.run # 0 /\ mem[r].fork.sid \in {0, mem[r].fork.run}
      /\ \A p \in Pids : holder[p] = mem[r].fork.run => p = mem[r].fork.pid
      /\ Child(mem[r].fork.run)
  BY <1>2, <1>3 DEF ForkedOne, At
<1>5. disk'[r].state = mem'[r].state /\ disk'[r].pid = mem'[r].pid /\ disk'[r].sid = mem'[r].sid
  BY <1>2, <1>3 DEF Follows
<1>6. Synced(r)'
  BY <1>2, <1>3, <1>5 DEF Synced
<1>7. OnDisk(r)'
  <2> SUFFICES ASSUME NEW n \in 1 .. Len(origin), Known(r, n)'
               PROVE  /\ disk'[r].sid = n /\ \A p \in Pids : holder[p] = n => p = disk'[r].pid
                      /\ disk'[r].state \in Started /\ mem'[r].pc = "idle"
    BY <1>1 DEF OnDisk, host
  <2>1. n = mem[r].fork.sid /\ n # 0
    <3>1. ~Known(r, n)
      BY <1>3 DEF Alive
    <3> QED
      BY <1>1, <3>1 DEF Known, Running, host
  <2> QED
    BY <1>2, <1>3, <1>4, <1>5, <2>1
<1>8. ForkedOne(r)'
  BY <1>2 DEF ForkedOne, At
<1>9. Watched(r)'
  BY <1>1, <1>2, <1>3, <1>4 DEF Watched, At, Child, Running, host
<1>10. Settling(r)'
  BY <1>2, <1>3, <1>5 DEF Settling
<1>11. Ours(mem[r].fork.sid, r)
  BY InMemory DEF Trace
<1>12. \A n \in known' : n \in known \/ origin'[n] = r
  BY <1>1, <1>11 DEF Ours, host
<1> QED
  BY <1>1, <1>2, <1>6, <1>7, <1>8, <1>9, <1>10, <1>12, OneStep, StillHost DEF Sane, RunInv

LEMMA RunRebuild == ASSUME IInv, RunInv, NEW r \in Records, Rebuild(r) PROVE RunInv'
<1>1. /\ IInv' /\ UNCHANGED <<host, known>> /\ todo' = todo \ {r} /\ r \in todo
  BY RebuildWorks, PlainStep DEF Rebuild, IsNext, ghosts
<1>2. /\ mem[r] = NoRecord /\ Touches(r) /\ disk' = disk
      /\ Untouched(mem'[r]) /\ mem'[r].state = disk[r].state
      /\ mem'[r].pid = disk[r].pid /\ mem'[r].sid = disk[r].sid
      /\ mem'[r].pc \in {"idle", "decide"}
      /\ mem'[r].pc = "decide" => IsLive(disk[r].state)
  BY RebuildFields
<1>3. Synced(r) /\ OnDisk(r) /\ Settling(r)
  BY DEF RunInv, Sane
<1>4. Synced(r)'
  BY <1>1, <1>2, <1>3 DEF Synced
<1>5. OnDisk(r)'
  BY <1>1, <1>2, <1>3 DEF OnDisk, Known, Running, host
<1>6. ForkedOne(r)' /\ Watched(r)' /\ Settling(r)'
  BY <1>2, <1>3 DEF ForkedOne, Watched, Settling, Untouched, At
<1> QED
  BY <1>1, <1>2, <1>4, <1>5, <1>6, OneStep, StillHost DEF Sane, RunInv

\* An agent that dies takes its memory with it, and what it had not collected.
LEMMA RunAgentDies == ASSUME IInv, RunInv, AgentDies PROVE RunInv'
<1>1. /\ UNCHANGED <<disk, known, origin>> /\ todo' = {} /\ zombies' = {}
      /\ \A p \in Pids : holder'[p] = IF holder[p] \in zombies THEN 0 ELSE holder[p]
      /\ \A r \in Records : mem'[r] = NoRecord
  BY DEF AgentDies
<1>2. Injective'
  BY <1>1 DEF RunInv, Injective
<1>3. ASSUME NEW r \in Records PROVE Sane(r)'
  <2>1. /\ NoRecord.state = "UNSPECIFIED" /\ NoRecord.pc = "idle" /\ NoRecord.watch = "none"
        /\ NoRecord.settle = "no" /\ NoRecord.probing = FALSE
    BY DEF NoRecord
  <2>2. /\ mem'[r].state = "UNSPECIFIED" /\ mem'[r].pc = "idle" /\ mem'[r].watch = "none"
        /\ mem'[r].settle = "no" /\ mem'[r].probing = FALSE /\ mem'[r] = NoRecord
    BY <1>1, <2>1
  <2>3. Synced(r) /\ OnDisk(r) /\ Settling(r)
    BY DEF RunInv, Sane
  <2>4. Synced(r)' /\ ForkedOne(r)' /\ Watched(r)' /\ Settling(r)'
    BY <1>1, <2>2, <2>3 DEF Synced, ForkedOne, Watched, Settling, At
  <2>5. OnDisk(r)'
    <3> SUFFICES ASSUME NEW n \in 1 .. Len(origin), Known(r, n)', n # 0
                 PROVE  Known(r, n) /\ \A p \in Pids : holder'[p] = n => holder[p] = n
      BY <1>1, <2>2, <2>3 DEF OnDisk
    <3> QED
      BY <1>1 DEF Known, Running
  <2> QED
    BY <2>4, <2>5 DEF Sane
<1>4. Owned'
  BY <1>1 DEF RunInv, Owned
<1> QED
  BY <1>2, <1>3, <1>4 DEF RunInv

LEMMA RunInvInit == ASSUME Init PROVE RunInv
<1>1. Injective /\ Owned
  BY DEF Init, Injective, Owned
<1>2. ASSUME NEW r \in Records PROVE Sane(r)
  <2>1. mem[r] = NoRecord /\ disk[r] = NotSaved /\ todo = {} /\ known = {}
    BY DEF Init
  <2>2. /\ NoRecord.pc = "idle" /\ NoRecord.watch = "none" /\ NoRecord.settle = "no"
        /\ NoRecord.probing = FALSE /\ NotSaved.state = "UNSPECIFIED"
    BY DEF NoRecord, NotSaved
  <2>3. Synced(r) /\ OnDisk(r) /\ ForkedOne(r) /\ Watched(r) /\ Settling(r)
    BY <2>1, <2>2 DEF Synced, OnDisk, Known, ForkedOne, Watched, Settling, At
  <2> QED
    BY <2>3 DEF Sane
<1> QED
  BY <1>1, <1>2 DEF RunInv

THEOREM RunInvStep == ASSUME IInv, RunInv, [Next]_vars, "read" \notin Faults PROVE RunInv'
<1> USE InvStep
<1>1. CASE Host
  BY <1>1, HostDie, HostForeign DEF Host
<1>2. CASE Collects
  BY <1>2, HostCollect DEF Collects
<1>3. CASE Adopts
  BY <1>3, RunAllAdopted, RunRebuild, RunSkip, RunDecision, RunOrphan DEF Adopts, Adopt
<1>4. ASSUME NEW r \in Records, Run(r) PROVE RunInv'
  <2>1. CASE Fork(r) \/ Identify(r)
    BY <2>1, RunFork, RunIdentify
  <2>2. CASE SpawnFails(r) \/ Settle(r) \/ ProbeEnds(r)
    BY <2>2, RunSpawnFails, RunSettle, RunProbeEnds
  <2>3. CASE Monitor(r) \/ WatchAdopted(r)
    BY <2>3, RunMonitor, RunWatchAdopted
  <2>4. CASE MaybeRestart(r) \/ Backoff(r)
    BY <2>4, RunMaybeRestart, RunBackoff
  <2> QED
    BY <1>4, <2>1, <2>2, <2>3, <2>4 DEF Run
<1>5. CASE Request
  <2>1. \A r \in Managed : r \in Records
    BY AdoptionAssumption
  <2> QED
    BY <1>5, <2>1, RunStart, RunSignal, RunStop, RunRestart DEF Request
<1>6. CASE AgentDies \/ AgentStarts
  BY <1>6, RunAgentDies, RunAgentStarts
<1>7. CASE UNCHANGED vars
  BY <1>7, StillHost, StillStep DEF vars, ghosts, host, RunInv
<1> QED
  BY <1>1, <1>2, <1>3, <1>4, <1>5, <1>6, <1>7 DEF Next

LEMMA RunInvSays == ASSUME IInv, RunInv PROVE RunningNotDead /\ OneRunKnown
<1>1. ASSUME NEW n \in known
      PROVE  n \in 1 .. Len(origin) /\ \A r \in Records : origin[n] = r /\ Running(n) => Known(r, n)
  BY <1>1, HostFacts DEF SignalTypes, Known
<1>2. ASSUME NEW r \in Records, NEW n \in known, origin[n] = r, Running(n)
      PROVE  mem[r].state # "CRASHED" /\ disk[r].sid = n
  <2>1. disk[r].sid = n /\ disk[r].state # "CRASHED"
    BY <1>1, <1>2 DEF RunInv, Sane, OnDisk, Started
  <2>2. NoRecord.state # "CRASHED"
    BY DEF NoRecord
  <2> QED
    BY <2>1, <2>2 DEF RunInv, Sane, Synced
<1>3. RunningNotDead
  BY <1>2 DEF RunningNotDead
<1> QED
  BY <1>2, <1>3 DEF OneRunKnown, RunInv, Owned

\* If a read of a pid does not fail, a process whose identity was recorded is never
\* taken for dead while it runs, whatever agents come and go (supervisor.go:739,
\* adopt.go:295).
THEOREM RunningIsNotDead == "read" \notin Faults /\ Spec => []RunningNotDead
<1>1. SUFFICES ASSUME "read" \notin Faults PROVE Spec => []RunningNotDead
  OBVIOUS
<1>2. IInv /\ RunInv /\ [Next]_vars => RunInv'
  BY <1>1, RunInvStep
<1> QED
  BY <1>2, RunInvInit, RunInvSays, InvAlways, PTL DEF Spec

\* Under the same hypothesis a record never has two runs whose identity was recorded:
\* the next agent does not start another beside the one it finds (adopt.go:258).
THEOREM OneRunIsKnown == "read" \notin Faults /\ Spec => []OneRunKnown
<1>1. SUFFICES ASSUME "read" \notin Faults PROVE Spec => []OneRunKnown
  OBVIOUS
<1>2. IInv /\ RunInv /\ [Next]_vars => RunInv'
  BY <1>1, RunInvStep
<1> QED
  BY <1>2, RunInvInit, RunInvSays, InvAlways, PTL DEF Spec
=============================================================================
