------------------------------- MODULE LogsMC -------------------------------
(***************************************************************************)
(* Values for the constants of Logs: the filter of the calls, which lets   *)
(* two lines of three through.                                             *)
(***************************************************************************)
EXTENDS Logs

Filters == [f \in Followers |-> {n \in 0 .. MaxLines : n % 3 # 1}]
=============================================================================
