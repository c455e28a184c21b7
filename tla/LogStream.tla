----------------------------- MODULE LogStream ------------------------------
(***************************************************************************)
(* What a GetProcessLogs call with follow set promises about the output    *)
(* that appears while it lasts (src/internal/agent/process/logs.go): the   *)
(* lines come in order and once, and the follower is told, line by line,   *)
(* exactly how many it did not get.  Lines are numbered from 0.            *)
(***************************************************************************)
EXTENDS Integers

CONSTANTS
  Followers,   \* GetProcessLogs calls
  Filter       \* Filter[f]: the lines that f's selector matches

VARIABLES
  produced,    \* lines the process and its supervisor have produced
  view         \* view[f]: what the call f has been given so far

streamVars == <<produced, view>>

\* at: the next line to account for; told: lines reported missing; owed: those
\* among them that await a line to ride on; shown: lines sent.
View(phase, at, told, owed, shown) ==
  [phase |-> phase, at |-> at, told |-> told, owed |-> owed, shown |-> shown]
Unopened == View("new", 0, 0, 0, 0)

Init == produced = 0 /\ view = [f \in Followers |-> Unopened]

Produce == produced' = produced + 1 /\ UNCHANGED view

Open(f) ==
  /\ view[f] = Unopened
  /\ view' = [view EXCEPT ![f] = View("open", produced, 0, 0, 0)]
  /\ UNCHANGED produced

\* The follower is given line n and told of the lines it missed before it.  A
\* line the filter excludes is passed over and its gap stays owed.
Take(f, n) ==
  /\ view[f].phase = "open"
  /\ LET v    == view[f]
         gap  == n - v.at
         seen == n \in Filter[f]
     IN  view' = [view EXCEPT ![f] =
           View("open", n + 1, v.told + gap,
                IF seen THEN 0 ELSE v.owed + gap,
                IF seen THEN v.shown + 1 ELSE v.shown)]
  /\ UNCHANGED produced

\* The summary, which accounts for lines that nothing was left to announce.
Finish(f, k) ==
  /\ view[f].phase = "open"
  /\ LET v == view[f]
     IN  view' = [view EXCEPT ![f] = View("over", v.at, v.told + k, v.owed, v.shown)]
  /\ UNCHANGED produced

\* A call that ends without a summary: the caller hung up.
HangUp(f) ==
  /\ view[f].phase = "open"
  /\ view' = [view EXCEPT ![f].phase = "over"]
  /\ UNCHANGED produced

Next ==
  \/ Produce
  \/ \E f \in Followers :
       \/ Open(f) \/ HangUp(f)
       \/ \E n \in view[f].at .. produced - 1 : Take(f, n)
       \/ \E k \in 0 .. produced - view[f].at : Finish(f, k)

Spec == Init /\ [][Next]_streamVars
=============================================================================
