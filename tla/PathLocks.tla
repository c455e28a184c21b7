----------------------------- MODULE PathLocks ------------------------------
(***************************************************************************)
(* The per-path locks of the file service                                  *)
(* (src/internal/agent/fs/locks.go): one entry per path that somebody uses,*)
(* created by the first request that asks for the path, counted, and taken *)
(* out of the map by the last one that lets go of it.  A request asks for  *)
(* one path or, through lockBoth, for two.                                 *)
(*                                                                         *)
(* The mutex of the map is held for one step at a time, so a step under it *)
(* is one action; the wait for an entry's channel is outside it.  A path   *)
(* stands for its lockKey, and < for the order of those.                   *)
(***************************************************************************)
EXTENDS Integers, Sequences, FiniteSets

CONSTANTS
  Clients,     \* requests that may be in flight
  Paths,       \* paths, as lockKey spells them
  Entries,     \* pathLock objects
  NoEntry      \* not one of them

ASSUME LocksAssumption ==
  NoEntry \notin Entries /\ Paths \subseteq Nat /\ IsFiniteSet(Clients)

VARIABLES
  entry,       \* entry[p]: what the map has for path p, or NoEntry
  refs,        \* refs[e]: the references counted on an entry
  handle,      \* handle[c][p]: the entry that c has for p, and how far it is:
               \* "none", "waiting", "held", or "freed" and not yet dropped
  want,        \* want[c]: the paths whose lock c has still to take, in order
  phase        \* phase[c]: "idle", "lock", "in" or "release"

vars == <<entry, refs, handle, want, phase>>

NoHandle == [entry |-> NoEntry, st |-> "none"]

Init ==
  /\ entry = [p \in Paths |-> NoEntry]
  /\ refs = [e \in Entries |-> 0]
  /\ handle = [c \in Clients |-> [p \in Paths |-> NoHandle]]
  /\ want = [c \in Clients |-> <<>>]
  /\ phase = [c \in Clients |-> "idle"]

Handle(c, p, h) == handle' = [handle EXCEPT ![c][p] = h]
Using(p) == {c \in Clients : handle[c][p].st # "none"}

\* lockBoth's order, for one path or two.  Mutant: the caller's.
OrderAsked(p, q) == IF p = q THEN <<p>> ELSE <<p, q>>
Order(p, q) == IF p = q THEN <<p>> ELSE IF p < q THEN <<p, q>> ELSE <<q, p>>

Ask(c) ==
  /\ phase[c] = "idle" /\ phase' = [phase EXCEPT ![c] = "lock"]
  /\ \E p, q \in Paths : want' = [want EXCEPT ![c] = Order(p, q)]
  /\ UNCHANGED <<entry, refs, handle>>

\* A new object is one that nothing refers to.
New(e) ==
  /\ \A p \in Paths : entry[p] # e
  /\ \A c \in Clients, p \in Paths : handle[c][p].entry # e

\* lock, up to the wait.
Enter(c) ==
  /\ phase[c] = "lock"
  /\ LET p == Head(want[c])
         e == IF entry[p] = NoEntry THEN CHOOSE x \in Entries : New(x) ELSE entry[p]
     IN  /\ handle[c][p] = NoHandle
         /\ entry[p] = NoEntry => \E x \in Entries : New(x)
         /\ entry' = [entry EXCEPT ![p] = e]
         /\ refs' = [refs EXCEPT ![e] = (IF entry[p] = NoEntry THEN 0 ELSE @) + 1]
         /\ Handle(c, p, [entry |-> e, st |-> "waiting"])
  /\ UNCHANGED <<want, phase>>

\* The send on the one-slot channel of the entry.
Grab(c) ==
  /\ phase[c] = "lock"
  /\ LET p == Head(want[c])
     IN  /\ handle[c][p].st = "waiting"
         /\ \A d \in Clients, q \in Paths :
              handle[d][q].st = "held" => handle[d][q].entry # handle[c][p].entry
         /\ Handle(c, p, [handle[c][p] EXCEPT !.st = "held"])
  /\ want' = [want EXCEPT ![c] = Tail(@)]
  /\ phase' = IF Len(want[c]) = 1 THEN [phase EXCEPT ![c] = "in"] ELSE phase
  /\ UNCHANGED <<entry, refs>>

\* drop.  Mutants: the entry goes with the first reference, or never.
DropFirst(c, p) ==
  /\ refs' = [refs EXCEPT ![handle[c][p].entry] = @ - 1]
  /\ entry' = [entry EXCEPT ![p] = NoEntry]
  /\ Handle(c, p, NoHandle)
DropNever(c, p) ==
  /\ refs' = [refs EXCEPT ![handle[c][p].entry] = @ - 1]
  /\ UNCHANGED entry
  /\ Handle(c, p, NoHandle)
Drop(c, p) ==
  /\ refs' = [refs EXCEPT ![handle[c][p].entry] = @ - 1]
  /\ entry' = IF refs[handle[c][p].entry] = 1 THEN [entry EXCEPT ![p] = NoEntry] ELSE entry
  /\ Handle(c, p, NoHandle)

\* The request is cancelled in its wait; lockBoth then releases a first lock.
Cancelled(c) ==
  /\ phase[c] = "lock" /\ handle[c][Head(want[c])].st = "waiting"
  /\ Drop(c, Head(want[c]))
  /\ want' = [want EXCEPT ![c] = <<>>]
  /\ phase' = [phase EXCEPT ![c] = "release"]

\* The work under the locks is done.
Finish(c) ==
  /\ phase[c] = "in" /\ phase' = [phase EXCEPT ![c] = "release"]
  /\ UNCHANGED <<entry, refs, handle, want>>

\* A release, in its two steps; the second lock goes first.
Unlock(c) ==
  /\ phase[c] = "release"
  /\ \A p \in Paths : handle[c][p].st # "freed"
  /\ \E p \in Paths :
       /\ handle[c][p].st = "held"
       /\ \A q \in Paths : handle[c][q].st = "held" => q <= p
       /\ Handle(c, p, [handle[c][p] EXCEPT !.st = "freed"])
  /\ UNCHANGED <<entry, refs, want, phase>>
Release(c) ==
  /\ phase[c] = "release"
  /\ \E p \in Paths : handle[c][p].st = "freed" /\ Drop(c, p)
  /\ UNCHANGED <<want, phase>>

Leave(c) ==
  /\ phase[c] = "release" /\ handle[c] = [p \in Paths |-> NoHandle]
  /\ phase' = [phase EXCEPT ![c] = "idle"]
  /\ UNCHANGED <<entry, refs, handle, want>>

Work(c) == Enter(c) \/ Finish(c) \/ Unlock(c) \/ Release(c) \/ Leave(c)
Next == \E c \in Clients : Ask(c) \/ Work(c) \/ Grab(c) \/ Cancelled(c)

Spec == Init /\ [][Next]_vars

\* Handlers are scheduled and come to an end, and a channel serves those who wait
\* on it in the order they came.
FairSpec == Spec /\ \A c \in Clients : WF_vars(Work(c)) /\ SF_vars(Grab(c))

-----------------------------------------------------------------------------
(* Properties *)

HandleType == [entry : Entries \cup {NoEntry}, st : {"none", "waiting", "held", "freed"}]
TypeOK ==
  /\ entry \in [Paths -> Entries \cup {NoEntry}]
  /\ refs \in [Entries -> Nat]
  /\ handle \in [Clients -> [Paths -> HandleType]]
  /\ want \in [Clients -> Seq(Paths)] /\ \A c \in Clients : Len(want[c]) <= 2
  /\ phase \in [Clients -> {"idle", "lock", "in", "release"}]

\* Two requests never hold the lock of one path, although the entry of a path comes
\* and goes between them: the locks implement PathMutex (locks.go:11).
Mutex == INSTANCE PathMutex
           WITH held <- [c \in Clients |-> {p \in Paths : handle[c][p].st = "held"}]
MutexSpec == Mutex!MutexSpec

\* The map has an entry for a path exactly as long as somebody uses it, and counts
\* its users: nothing accumulates (locks.go:21).
EntriesCounted ==
  \A p \in Paths :
    /\ entry[p] = NoEntry <=> Using(p) = {}
    /\ entry[p] # NoEntry => refs[entry[p]] = Cardinality(Using(p))

\* Every request gets its locks or gives up, and is done: two moves that cross do
\* not wait for each other for ever (locks.go:84).
RequestsEnd == \A c \in Clients : phase[c] = "lock" ~> phase[c] = "idle"
=============================================================================
