---------------------------- MODULE FileService -----------------------------
(***************************************************************************)
(* The requests of the file service that change regular files              *)
(* (src/internal/agent/fs): WriteFile, EditFile, MovePath and RemovePath,  *)
(* from the locks to the answer.  The locks are PathMutex, which PathLocks *)
(* implements; what the requests do to the files is meant to be FileStore. *)
(*                                                                         *)
(* A path is a name whose parents are resolved and that is no symlink;     *)
(* directories, and programs outside the agent, are left out.  A content   *)
(* is the set of the requests whose data is in it.                         *)
(***************************************************************************)
EXTENDS PathMutex, Naturals, FiniteSets

CONSTANTS
  Kinds,        \* the kinds of request made
  Present,      \* the files that are there to begin with
  Absent,       \* no file
  MaxRequests   \* bound: requests in a behaviour

Requests == 1 .. MaxRequests

\* What is asked for: a move has two paths, the others have one.
Asks ==
  {a \in [kind : Kinds, src : Paths, dst : Paths] :
     a.kind \in {"move", "overwrite"} <=> a.src # a.dst}

ASSUME FileAssumption ==
  /\ Paths \subseteq Nat /\ Present \subseteq Paths /\ MaxRequests \in Nat
  /\ Kinds \subseteq {"write", "create", "append", "edit", "move", "overwrite", "remove"}

VARIABLES
  file,     \* file[p]: the content of p, or Absent
  temps,    \* the temp files, by the request that made them
  req,      \* req[c]: the request c is on
  made,     \* requests made so far
  effect,   \* effect[n]: "none", "copied" or "done" (auxiliary)
  answer    \* answer[n]: "none", "ok" or "error"

vars == <<held, file, temps, req, made, effect, answer>>

NoRequest == [n |-> 0, kind |-> "none", src |-> 0, dst |-> 0, pc |-> "idle", data |-> {},
              said |-> "none"]

Init ==
  /\ MutexInit
  /\ file = [p \in Paths |-> IF p \in Present THEN {} ELSE Absent]
  /\ temps = {} /\ made = 0
  /\ req = [c \in Clients |-> NoRequest]
  /\ effect = [n \in Requests |-> "none"] /\ answer = [n \in Requests |-> "none"]

Is(c, pc) == req[c].pc = pc
Moves(c) == req[c].kind \in {"move", "overwrite"}
Goes(c, pc) == req' = [req EXCEPT ![c].pc = pc]
\* The handler returns: its deferred calls run next, Close if it has a temp file.
Ends(c, pc, said) == req' = [req EXCEPT ![c].pc = pc, ![c].said = said]
Returns(c, said) == Ends(c, IF req[c].n \in temps THEN "close" ELSE "release", said)
Takes(c, to) == effect' = [effect EXCEPT ![req[c].n] = to]

-----------------------------------------------------------------------------
(* A request and its locks *)

Arrive(c) ==
  /\ Is(c, "idle") /\ made < MaxRequests
  /\ made' = made + 1
  /\ \E a \in Asks :
       req' = [req EXCEPT ![c] = [NoRequest EXCEPT !.n = made + 1, !.kind = a.kind,
                                    !.src = a.src, !.dst = a.dst, !.pc = "lock"]]
  /\ UNCHANGED <<held, file, temps, effect, answer>>

\* The locks a request needs.  Mutant: a move takes its source's only.
LocksSource(c) == {req[c].src}
Locks(c) == {req[c].src, req[c].dst}

\* lockBoth's order.
Lock(c) ==
  /\ Is(c, "lock")
  /\ LET left == Locks(c) \ held[c]
     IN  /\ \E p \in left : Take(c, p) /\ \A q \in left : p <= q
         /\ IF Cardinality(left) = 1 THEN Goes(c, "look") ELSE UNCHANGED req
  /\ UNCHANGED <<file, temps, made, effect, answer>>

\* The request is cancelled in its wait.
LockCancelled(c) ==
  /\ Is(c, "lock") /\ Returns(c, "error")
  /\ UNCHANGED <<held, file, temps, made, effect, answer>>

-----------------------------------------------------------------------------
(* Under the locks *)

There(p) == file[p] # Absent

\* What the look at the endpoints lets through.
Allowed(c) ==
  /\ req[c].kind \in {"edit", "remove", "move", "overwrite"} => There(req[c].src)
  /\ req[c].kind \in {"create", "move"} => ~There(req[c].dst)

\* The look; an edit reads the file here.  It also ends at a stat that fails, and
\* an edit at a string that is not there.
Look(c) ==
  /\ Is(c, "look")
  /\ \/ /\ Allowed(c)
        /\ req' = [req EXCEPT
             ![c].pc = IF req[c].kind = "remove" THEN "unlink"
                       ELSE IF Moves(c) THEN "rename" ELSE "fill",
             ![c].data = IF req[c].kind = "edit" THEN file[req[c].src] ELSE {}]
     \/ Returns(c, "error")
  /\ UNCHANGED <<held, file, temps, made, effect, answer>>

\* A temp file is made beside the target and filled: with what is there and the
\* request's data, or with the source of a move across file systems.
Fill(c) ==
  /\ Is(c, "fill")
  /\ LET x   == req[c]
         old == IF (Moves(c) \/ x.kind = "append") /\ There(x.src) THEN file[x.src] ELSE x.data
     IN  req' = [req EXCEPT ![c].pc = "commit",
                            ![c].data = IF Moves(c) THEN old ELSE old \cup {x.n}]
  /\ temps' = temps \cup {req[c].n}
  /\ UNCHANGED <<held, file, made, effect, answer>>

\* A stream that breaks, a request cancelled, a disk that is full.
Fails(c) ==
  /\ req[c].pc \in {"fill", "commit"}
  /\ Returns(c, "error")
  /\ UNCHANGED <<held, file, temps, made, effect, answer>>

\* Commit: the rename over the target.  A move across file systems goes on.
Commit(c) ==
  /\ Is(c, "commit")
  /\ file' = [file EXCEPT ![req[c].dst] = req[c].data]
  /\ temps' = temps \ {req[c].n}
  /\ IF Moves(c) THEN Goes(c, "unlink") /\ Takes(c, "copied")
     ELSE Ends(c, "release", "ok") /\ Takes(c, "done")
  /\ UNCHANGED <<held, made, answer>>

\* MovePath's rename, which may fail, and fails between file systems.
Rename(c) ==
  /\ Is(c, "rename")
  /\ LET p == req[c].src  q == req[c].dst
     IN  \/ /\ There(p) /\ file' = [file EXCEPT ![p] = Absent, ![q] = file[p]]
            /\ Takes(c, "done") /\ Returns(c, "ok")
         \/ Returns(c, "error") /\ UNCHANGED <<file, effect>>
         \/ Goes(c, "fill") /\ UNCHANGED <<file, effect>>
  /\ UNCHANGED <<held, temps, made, answer>>

\* The removal of the file, or of the source once its copy is there.
Unlink(c) ==
  /\ Is(c, "unlink")
  /\ \/ /\ There(req[c].src) /\ file' = [file EXCEPT ![req[c].src] = Absent]
        /\ Takes(c, "done") /\ Returns(c, "ok")
     \/ Returns(c, "error") /\ UNCHANGED <<file, effect>>
  /\ UNCHANGED <<held, temps, made, answer>>

-----------------------------------------------------------------------------
(* The end of a request: deferred calls, the last one first *)

\* atomicFile.Close before a commit.  Mutant: it leaves the file.
CloseNothing(c) ==
  /\ Is(c, "close") /\ Goes(c, "release")
  /\ UNCHANGED <<held, file, temps, made, effect, answer>>
Close(c) ==
  /\ Is(c, "close") /\ Goes(c, "release")
  /\ temps' = temps \ {req[c].n}
  /\ UNCHANGED <<held, file, made, effect, answer>>

Release(c) ==
  /\ Is(c, "release")
  /\ \E p \in held[c] : Give(c, p) /\ \A q \in held[c] : q <= p
  /\ UNCHANGED <<file, temps, req, made, effect, answer>>

Reply(c) ==
  /\ Is(c, "release") /\ held[c] = {}
  /\ answer' = [answer EXCEPT ![req[c].n] = req[c].said]
  /\ req' = [req EXCEPT ![c] = NoRequest]
  /\ UNCHANGED <<held, file, temps, made, effect>>

-----------------------------------------------------------------------------
(* The specification *)

\* The agent dies: the files are what is left.
Dies ==
  /\ req' = [c \in Clients |-> NoRequest] /\ held' = [c \in Clients |-> {}]
  /\ UNCHANGED <<file, temps, made, effect, answer>>

Next ==
  \/ \E c \in Clients :
       \/ Arrive(c) \/ Lock(c) \/ LockCancelled(c)
       \/ Look(c) \/ Fill(c) \/ Fails(c) \/ Commit(c) \/ Rename(c) \/ Unlink(c)
       \/ Close(c) \/ Release(c) \/ Reply(c)
  \/ Dies

Spec == Init /\ [][Next]_vars

-----------------------------------------------------------------------------
(* Properties *)

Contents == SUBSET Requests
PCs == {"idle", "lock", "look", "fill", "commit", "rename", "unlink", "close", "release"}
RequestType ==
  [n : Requests \cup {0}, kind : Kinds \cup {"none"}, src : Paths \cup {0},
   dst : Paths \cup {0}, pc : PCs, data : Contents, said : {"none", "ok", "error"}]

TypeOK ==
  /\ held \in [Clients -> SUBSET Paths]
  /\ file \in [Paths -> Contents \cup {Absent}]
  /\ req \in [Clients -> RequestType]
  /\ temps \subseteq Requests /\ made \in 0 .. MaxRequests
  /\ effect \in [Requests -> {"none", "copied", "done"}]
  /\ answer \in [Requests -> {"none", "ok", "error"}]

\* What request n asks for, as long as it is open.
Open(n) == {c \in Clients : req[c].n = n}
AskedBy(c) == [kind |-> req[c].kind, src |-> req[c].src, dst |-> req[c].dst]
Asked ==
  [n \in Requests |->
     IF Open(n) = {} THEN NoRequest ELSE AskedBy(CHOOSE c \in Clients : req[c].n = n)]

Store == INSTANCE FileStore WITH None <- NoRequest, asked <- Asked

\* The requests do to the files what FileStore says: no edit works on a content
\* that another request has changed since, no create or move replaces what its look
\* has not seen, no move loses a file, a refused request and one that an agent died
\* in have changed nothing or everything (locks.go:11, write.go:22,76, manage.go:309).
StoreSpec == Store!Spec

\* A request that is answered, whatever the answer, has left no temp file
\* (atomic.go:152).
TempsCleaned == \A n \in Requests : answer[n] # "none" => n \notin temps
=============================================================================
