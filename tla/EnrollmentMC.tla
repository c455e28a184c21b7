---------------------------- MODULE EnrollmentMC ----------------------------
(* Instances of Enrollment for TLC. *)
EXTENDS Enrollment, TLC

\* One name asked for by everybody, and two to fall back on.
Fallbacks == "build" :> <<"build", "build-2", "build-3">>

Symmetric == Permutations(Calls) \cup Permutations(Tokens)
=============================================================================
