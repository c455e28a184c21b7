----------------------------- MODULE FileStore ------------------------------
(***************************************************************************)
(* What the file service promises of the files it is asked to change       *)
(* (src/internal/agent/fs): every request takes effect in one step, on the *)
(* files as they are at that moment and at most once, and is answered with *)
(* whether it did.  The exception is the move across file systems, which   *)
(* copies and then removes.                                                *)
(*                                                                         *)
(* A content is the set of the requests whose data is in it.               *)
(***************************************************************************)
CONSTANTS
  Paths, Requests,
  Asks,    \* what a request may ask for: a kind and two paths
  Absent,  \* no file
  None     \* no request

VARIABLES
  file,    \* file[p]: the content of p, or Absent
  asked,   \* asked[n]: what request n, now open, asks for, or None
  effect,  \* effect[n]: "none", "copied" or "done"
  answer   \* answer[n]: "none", "ok" or "error"

vars == <<file, asked, effect, answer>>

Init ==
  /\ file \in [Paths -> {Absent, {}}]
  /\ asked = [n \in Requests |-> None]
  /\ effect = [n \in Requests |-> "none"] /\ answer = [n \in Requests |-> "none"]

There(p) == file[p] # Absent

Ask(n) ==
  /\ asked[n] = None /\ effect[n] = "none" /\ answer[n] = "none"
  /\ \E a \in Asks : asked' = [asked EXCEPT ![n] = a]
  /\ UNCHANGED <<file, effect, answer>>

\* Request n has what a asks for done to the files.
Done(n, a) ==
  \/ /\ a.kind \in {"write", "create"}
     /\ file' = [file EXCEPT ![a.src] = {n}]
  \/ /\ a.kind \in {"append", "edit"}
     /\ file' = [file EXCEPT ![a.src] = IF There(a.src) THEN @ \cup {n} ELSE {n}]
  \/ /\ a.kind = "remove"
     /\ file' = [file EXCEPT ![a.src] = Absent]
  \/ /\ a.kind \in {"move", "overwrite"}
     /\ file' = [file EXCEPT ![a.src] = Absent, ![a.dst] = file[a.src]]

Possible(a) ==
  /\ a.kind \in {"edit", "remove", "move", "overwrite"} => There(a.src)
  /\ a.kind \in {"create", "move"} => ~There(a.dst)

Effect(n) ==
  /\ asked[n] # None /\ effect[n] = "none" /\ Possible(asked[n])
  /\ Done(n, asked[n]) /\ effect' = [effect EXCEPT ![n] = "done"]
  /\ UNCHANGED <<asked, answer>>

\* A move across file systems: the source goes once the destination has all of it.
Copy(n) ==
  /\ asked[n] # None /\ asked[n].kind \in {"move", "overwrite"}
  /\ effect[n] = "none" /\ Possible(asked[n])
  /\ file' = [file EXCEPT ![asked[n].dst] = file[asked[n].src]]
  /\ effect' = [effect EXCEPT ![n] = "copied"]
  /\ UNCHANGED <<asked, answer>>
RemoveSource(n) ==
  /\ asked[n] # None /\ effect[n] = "copied"
  /\ There(asked[n].src) /\ file[asked[n].dst] = file[asked[n].src]
  /\ file' = [file EXCEPT ![asked[n].src] = Absent]
  /\ effect' = [effect EXCEPT ![n] = "done"]
  /\ UNCHANGED <<asked, answer>>

Answer(n) ==
  /\ asked[n] # None
  /\ answer' = [answer EXCEPT ![n] = IF effect[n] = "done" THEN "ok" ELSE "error"]
  /\ asked' = [asked EXCEPT ![n] = None]
  /\ UNCHANGED <<file, effect>>

\* The service is gone, with all that was asked of it.
Cut ==
  /\ asked' = [n \in Requests |-> None]
  /\ UNCHANGED <<file, effect, answer>>

Next == Cut \/ \E n \in Requests : Ask(n) \/ Effect(n) \/ Copy(n) \/ RemoveSource(n) \/ Answer(n)

Spec == Init /\ [][Next]_vars
=============================================================================
