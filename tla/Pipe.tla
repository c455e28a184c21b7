-------------------------------- MODULE Pipe --------------------------------
(***************************************************************************)
(* What a forwarded connection promises to the two programs at its ends    *)
(* (src/internal/tunnel, src/internal/agent/forward): two directions, each *)
(* of which carries what is written to it in order and ends on its own,    *)
(* after the last byte, unless the connection is broken.                   *)
(***************************************************************************)
EXTENDS Naturals

Directions == {"request", "response"}

VARIABLES
  wrote,    \* wrote[d]: bytes written at the start of d
  fin,      \* fin[d]: no more will be
  got,      \* got[d]: bytes that have come out at its end
  ended,    \* ended[d]: so has its end
  broken    \* one of the programs, or what carries the bytes, is gone

vars == <<wrote, fin, got, ended, broken>>

Init ==
  /\ wrote = [d \in Directions |-> 0] /\ got = [d \in Directions |-> 0]
  /\ fin = [d \in Directions |-> FALSE] /\ ended = [d \in Directions |-> FALSE]
  /\ broken = FALSE

Write(d) ==
  /\ ~fin[d] /\ wrote' = [wrote EXCEPT ![d] = @ + 1]
  /\ UNCHANGED <<fin, got, ended, broken>>

Finish(d) ==
  /\ fin' = [fin EXCEPT ![d] = TRUE]
  /\ UNCHANGED <<wrote, got, ended, broken>>

Get(d) ==
  /\ got[d] < wrote[d] /\ ~ended[d]
  /\ got' = [got EXCEPT ![d] = @ + 1]
  /\ UNCHANGED <<wrote, fin, ended, broken>>

End(d) ==
  /\ fin[d] /\ got[d] = wrote[d]
  /\ ended' = [ended EXCEPT ![d] = TRUE]
  /\ UNCHANGED <<wrote, fin, got, broken>>

\* Anything may end once the connection is broken, and nothing is got after the end.
Break ==
  /\ broken' /\ fin' \in [Directions -> BOOLEAN] /\ ended' \in [Directions -> BOOLEAN]
  /\ \A d \in Directions : (fin[d] => fin'[d]) /\ (ended[d] => ended'[d])
  /\ UNCHANGED <<wrote, got>>

Next == Break \/ \E d \in Directions : Write(d) \/ Finish(d) \/ Get(d) \/ End(d)

Spec == Init /\ [][Next]_vars
=============================================================================
