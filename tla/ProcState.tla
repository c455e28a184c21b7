------------------------------ MODULE ProcState ------------------------------
(***************************************************************************)
(* The state machine of a supervised process: the states, the transition  *)
(* table and the two classifications the supervisor's decisions rest on   *)
(* (src/internal/agent/process/state.go).                                 *)
(***************************************************************************)

\* The states of the wire enum.  UNSPECIFIED is the zero value a new record has.
States == {"UNSPECIFIED", "STARTING", "READY", "RUNNING", "EXITED", "CRASHED",
           "RESTARTING", "ORPHANED"}

\* The legal moves out of each state.
Transitions ==
  [s \in States |->
     CASE s = "UNSPECIFIED" -> {"STARTING"}
       [] s = "STARTING"    -> {"READY", "RUNNING", "EXITED", "CRASHED"}
       [] s = "RUNNING"     -> {"READY", "EXITED", "CRASHED", "RESTARTING"}
       [] s = "READY"       -> {"EXITED", "CRASHED", "RESTARTING"}
       [] s = "EXITED"      -> {"RESTARTING"}
       [] s = "CRASHED"     -> {"RESTARTING"}
       [] s = "RESTARTING"  -> {"STARTING", "CRASHED"}
       [] s = "ORPHANED"    -> {}]

\* Mutants: a cancelled restart, or a failed start, has nowhere to go.
CanTransitionNoCancel(from, to) ==
  to \in Transitions[from] /\ ~(from = "RESTARTING" /\ to = "CRASHED")
CanTransitionNoFailure(from, to) ==
  to \in Transitions[from] /\ ~(from = "STARTING" /\ to = "CRASHED")

CanTransition(from, to) == to \in Transitions[from]

\* The supervisor will not act on the process again unless it is asked to.
IsTerminal(s) == s \in {"EXITED", "CRASHED", "ORPHANED"}

\* There is, or is about to be, an OS process: what a name and a slot are
\* counted over.
IsLive(s) == s \in {"STARTING", "READY", "RUNNING", "RESTARTING"}
=============================================================================
