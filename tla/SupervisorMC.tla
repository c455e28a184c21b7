---------------------------- MODULE SupervisorMC ----------------------------
(***************************************************************************)
(* Values for the constants of Supervisor: which requests each run makes.  *)
(***************************************************************************)
EXTENDS Supervisor, TLC

Request_(kind, flag) == [kind |-> kind, flag |-> flag]
Start   == {Request_("start", FALSE)}
Replace == {Request_("start", TRUE)}
Stop    == {Request_("stop", TRUE)}
Signals == {Request_("stop", FALSE), Request_("signal", FALSE)}
Restart == {Request_("restart", FALSE)}
Remove  == {Request_("remove", FALSE), Request_("remove", TRUE)}

AllOps        == Start \cup Replace \cup Stop \cup Signals \cup Restart \cup Remove
StartStop     == Start \cup Stop \cup Signals
StartRestart  == Start \cup Restart
Everything    == StartStop \cup Remove \cup Restart
OnFailure     == {"on_failure"}

Never     == {"never"}
Always    == {"always"}
AnyProbe  == BOOLEAN
NoProbe   == {FALSE}

Symmetry == Permutations(Calls)
=============================================================================
