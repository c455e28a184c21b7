------------------------------- MODULE Tunnel -------------------------------
(***************************************************************************)
(* One forwarded connection, from end to end: the local client's socket,   *)
(* Carry and its two pumps (src/internal/tunnel/tunnel.go), the gRPC       *)
(* stream, the agent's Forward with its two pumps                          *)
(* (src/internal/agent/forward/service.go), and the socket of the server   *)
(* on the sandbox.  It is meant to be a Pipe.                              *)
(*                                                                         *)
(* Bytes are counted.  Of the messages under way on the stream it is       *)
(* enough to count the data: the open message and its answer come before   *)
(* the data, the Close event after it, and the end of the RPC comes last.  *)
(* The programs at the ends, the kernel's sockets and gRPC are the         *)
(* environment.                                                            *)
(***************************************************************************)
EXTENDS Naturals

CONSTANTS
  RequestBytes,  \* bound: bytes written by the client
  ResponseBytes  \* bound: bytes written by the server

ASSUME TunnelAssumption == RequestBytes \in Nat /\ ResponseBytes \in Nat

VARIABLES
  client, server,  \* the programs: bytes written, and what they did to their end
  lsock, rsock,    \* the sockets: bytes read from and written to the program
  carry,           \* where Carry is
  pumps,           \* its pumps: "none", "run" or "done"
  hook,            \* its AfterFunc: "armed", "stopped" or "fired"
  cancelled,       \* its stream's context is
  up, down,        \* what is under way on the stream
  handler,         \* where Forward is
  pumping,         \* its pumps
  ctxDone,         \* its context is
  teardown,        \* whoever owns the listener cancelled
  lost             \* the transport, or the agent, is gone

local  == <<lsock, carry, pumps, hook, cancelled>>
agent  == <<rsock, handler, pumping, ctxDone>>
faults == <<teardown, lost>>
vars   == <<client, server, local, up, down, agent, faults>>

NothingUp   == [open |-> FALSE, data |-> 0, close |-> FALSE]
NothingDown == [answer |-> "none", data |-> 0, close |-> FALSE, end |-> FALSE]

Init ==
  /\ client = [wrote |-> 0, at |-> "open"] /\ server = [wrote |-> 0, at |-> "open"]
  /\ lsock = [read |-> 0, given |-> 0, eof |-> FALSE, at |-> "open"]
  /\ rsock = [read |-> 0, given |-> 0, eof |-> FALSE, at |-> "none"]
  /\ carry = "start" /\ pumps = [up |-> "none", down |-> "none"]
  /\ hook = "armed" /\ cancelled = FALSE
  /\ up = NothingUp /\ down = NothingDown
  /\ handler = "none" /\ pumping = [in |-> "none", out |-> "none"]
  /\ ctxDone = FALSE /\ teardown = FALSE /\ lost = FALSE

\* A socket closed on this side: the program at the other end sees its end.
Closed(sock) == [sock EXCEPT !.at = "closed", !.eof = TRUE]
Hung(program) == program.at \in {"gone", "reset"}
\* A write to a socket, which fails when the other end has gone, if not at once.
Writable(sock) == sock.at = "open" /\ ~sock.eof
WriteFails(sock, program) == ~Writable(sock) \/ Hung(program)

-----------------------------------------------------------------------------
(* Carry *)

Alive == ~cancelled /\ ~lost

\* The context of the stream is cancelled: AfterFunc closes the socket.
Cancel ==
  /\ cancelled' = TRUE
  /\ hook' = IF hook = "armed" THEN "fired" ELSE hook

\* The stream and the open message, either of which may fail.
OpenStream ==
  /\ carry = "start"
  /\ \/ /\ Alive /\ handler' = "idle"
        /\ \/ carry' = "opening" /\ up' = [up EXCEPT !.open = TRUE]
           \/ carry' = "leaving" /\ UNCHANGED up
     \/ carry' = "leaving" /\ UNCHANGED <<handler, up>>
  /\ UNCHANGED <<client, server, lsock, pumps, hook, cancelled, down, rsock, pumping, ctxDone,
                 faults>>

\* The answer to it, and onOpen, which may fail.
RecvOpened ==
  /\ carry = "opening"
  /\ \/ /\ down.answer = "opened" /\ down' = [down EXCEPT !.answer = "none"]
        /\ \/ carry' = "pump" /\ pumps' = [up |-> "run", down |-> "run"]
           \/ WriteFails(lsock, client) /\ carry' = "leaving" /\ UNCHANGED pumps
     \/ /\ down.answer = "refused" \/ (down.answer = "none" /\ down.end) \/ ~Alive
        /\ carry' = "leaving" /\ UNCHANGED <<down, pumps>>
  /\ UNCHANGED <<client, server, lsock, hook, cancelled, up, agent, faults>>

\* localToStream: a read and its send.
ReadLocal ==
  /\ pumps.up = "run" /\ lsock.at = "open" /\ lsock.read < client.wrote
  /\ lsock' = [lsock EXCEPT !.read = @ + 1]
  /\ \/ Alive /\ up' = [up EXCEPT !.data = @ + 1] /\ UNCHANGED pumps
     \/ (~Alive \/ handler = "over") /\ pumps' = [pumps EXCEPT !.up = "done"] /\ UNCHANGED up
  /\ UNCHANGED <<client, server, carry, hook, cancelled, down, agent, faults>>

\* Its end: the Close event and CloseSend.
EndsUp ==
  /\ pumps.up = "run" /\ pumps' = [pumps EXCEPT !.up = "done"]
  /\ up' = [up EXCEPT !.close = Alive]
  /\ UNCHANGED <<client, server, lsock, carry, down, agent, faults>>

\* The client has finished, or the socket was closed here.
LocalEnds ==
  /\ EndsUp
  /\ \/ lsock.at = "closed"
     \/ lsock.read = client.wrote /\ client.at \in {"half", "gone"}
  /\ UNCHANGED <<hook, cancelled>>
\* The client is gone: nobody is left to answer to.  Mutant: it is one that finished.
LocalFailsQuietly ==
  EndsUp /\ lsock.at = "open" /\ client.at = "reset" /\ UNCHANGED <<hook, cancelled>>
LocalFails == EndsUp /\ lsock.at = "open" /\ client.at = "reset" /\ Cancel

\* streamToLocal.
RecvData ==
  /\ pumps.down = "run" /\ down.data > 0 /\ down' = [down EXCEPT !.data = @ - 1]
  /\ \/ /\ Writable(lsock) /\ lsock' = [lsock EXCEPT !.given = @ + 1]
        /\ UNCHANGED <<pumps, hook, cancelled>>
     \/ /\ WriteFails(lsock, client) /\ pumps' = [pumps EXCEPT !.down = "done"]
        /\ Cancel /\ UNCHANGED lsock
  /\ UNCHANGED <<client, server, carry, up, agent, faults>>

\* The server closed its write side: the client's is shut, and receiving goes on.
\* Mutant: receiving ends there.
RecvCloseLast ==
  /\ pumps.down = "run" /\ down.data = 0 /\ down.close /\ down' = [down EXCEPT !.close = FALSE]
  /\ lsock' = [lsock EXCEPT !.eof = TRUE] /\ pumps' = [pumps EXCEPT !.down = "done"]
  /\ Cancel
  /\ UNCHANGED <<client, server, carry, up, agent, faults>>
RecvClose ==
  /\ pumps.down = "run" /\ down.data = 0 /\ down.close /\ down' = [down EXCEPT !.close = FALSE]
  /\ lsock' = [lsock EXCEPT !.eof = TRUE]
  /\ UNCHANGED <<client, server, carry, pumps, hook, cancelled, up, agent, faults>>

\* The stream has ended, and the other pump is not to outlive it.
RecvEnd ==
  /\ pumps.down = "run"
  /\ (down.data = 0 /\ ~down.close /\ down.end) \/ ~Alive
  /\ lsock' = [lsock EXCEPT !.eof = TRUE] /\ pumps' = [pumps EXCEPT !.down = "done"]
  /\ Cancel
  /\ UNCHANGED <<client, server, carry, up, down, agent, faults>>

\* Both pumps are joined.
Join ==
  /\ carry = "pump" /\ pumps.up = "done" /\ pumps.down = "done" /\ carry' = "leaving"
  /\ UNCHANGED <<client, server, lsock, pumps, hook, cancelled, up, down, agent, faults>>

\* The deferred calls: the hook is stopped, and then the context is cancelled.
Leave ==
  /\ carry = "leaving" /\ carry' = "returned"
  /\ hook' = IF hook = "armed" THEN "stopped" ELSE hook
  /\ cancelled' = TRUE
  /\ UNCHANGED <<client, server, lsock, pumps, up, down, agent, faults>>

\* AfterFunc's goroutine.
CloseLocal ==
  /\ hook = "fired" /\ lsock.at = "open" /\ lsock' = Closed(lsock)
  /\ UNCHANGED <<client, server, carry, pumps, hook, cancelled, up, down, agent, faults>>

\* The caller of Carry closes the connection it owns.
OwnerCloses ==
  /\ carry = "returned" /\ carry' = "over" /\ lsock' = Closed(lsock)
  /\ UNCHANGED <<client, server, pumps, hook, cancelled, up, down, agent, faults>>

\* Whoever owns the listener tears it down.
Teardown ==
  /\ ~teardown /\ carry \notin {"returned", "over"}
  /\ teardown' = TRUE /\ Cancel
  /\ UNCHANGED <<client, server, lsock, carry, pumps, up, down, agent, lost>>

-----------------------------------------------------------------------------
(* Forward *)

\* A message of the handler's, dropped if there is nothing to carry it.
Answers(messages) == down' = IF lost THEN down ELSE messages

\* The end of the RPC, or of the transport, reaches the agent.
Notice ==
  /\ cancelled \/ lost
  /\ handler \in {"idle", "dial", "pump"} /\ ~ctxDone /\ ctxDone' = TRUE
  /\ UNCHANGED <<client, server, local, up, down, rsock, handler, pumping, faults>>

\* The open message, the policy and the bound on connections.
Admit ==
  /\ handler = "idle"
  /\ \/ /\ up.open /\ up' = [up EXCEPT !.open = FALSE]
        /\ \/ handler' = "dial" /\ UNCHANGED down
           \/ handler' = "over" /\ Answers([down EXCEPT !.end = TRUE])
     \/ ctxDone /\ handler' = "over" /\ UNCHANGED <<up, down>>
  /\ UNCHANGED <<client, server, local, rsock, pumping, ctxDone, faults>>

\* connect, and the answer to the open message.
Dial ==
  /\ handler = "dial"
  /\ \/ /\ ~ctxDone /\ handler' = "pump" /\ Answers([down EXCEPT !.answer = "opened"])
        /\ rsock' = [rsock EXCEPT !.at = "open"] /\ pumping' = [in |-> "run", out |-> "run"]
     \/ /\ handler' = "over" /\ Answers([down EXCEPT !.answer = "refused", !.end = TRUE])
        /\ UNCHANGED <<rsock, pumping>>
  /\ UNCHANGED <<client, server, local, up, ctxDone, faults>>

EndsIn == pumping' = [pumping EXCEPT !.in = "done"]
EndsOut == pumping' = [pumping EXCEPT !.out = "done"]

\* streamToSocket.
TakeData ==
  /\ pumping.in = "run" /\ up.data > 0 /\ up' = [up EXCEPT !.data = @ - 1]
  /\ \/ /\ Writable(rsock) /\ rsock' = [rsock EXCEPT !.given = @ + 1]
        /\ UNCHANGED pumping
     \/ WriteFails(rsock, server) /\ EndsIn /\ UNCHANGED rsock
  /\ UNCHANGED <<client, server, local, down, handler, ctxDone, faults>>

\* The caller has finished: only the write half of the socket is shut.
TakeClose ==
  /\ pumping.in = "run" /\ up.data = 0 /\ up.close /\ up' = [up EXCEPT !.close = FALSE]
  /\ rsock' = [rsock EXCEPT !.eof = TRUE] /\ EndsIn
  /\ UNCHANGED <<client, server, local, down, handler, ctxDone, faults>>
TakeFails ==
  /\ pumping.in = "run" /\ ctxDone /\ EndsIn
  /\ UNCHANGED <<client, server, local, up, down, rsock, handler, ctxDone, faults>>

\* socketToStream: a read and its send.
ReadSocket ==
  /\ pumping.out = "run" /\ rsock.at = "open" /\ rsock.read < server.wrote
  /\ rsock' = [rsock EXCEPT !.read = @ + 1]
  /\ \/ ~ctxDone /\ Answers([down EXCEPT !.data = @ + 1]) /\ UNCHANGED pumping
     \/ ctxDone /\ EndsOut /\ UNCHANGED down
  /\ UNCHANGED <<client, server, local, up, handler, ctxDone, faults>>

\* Its end is told to the caller, and so is its failure.
SocketEnds ==
  /\ pumping.out = "run" /\ EndsOut
  /\ \/ rsock.at = "closed"
     \/ rsock.read = server.wrote /\ server.at \in {"half", "gone"}
     \/ server.at = "reset"
  /\ IF ctxDone THEN UNCHANGED down ELSE Answers([down EXCEPT !.close = TRUE])
  /\ UNCHANGED <<client, server, local, up, rsock, handler, ctxDone, faults>>

\* AfterFunc: a pump parked in a read of the socket waits on no context.
CloseSocket ==
  /\ ctxDone /\ rsock.at = "open" /\ rsock' = Closed(rsock)
  /\ UNCHANGED <<client, server, local, up, down, handler, pumping, ctxDone, faults>>

\* Both pumps are joined, and the socket is closed.
Finish ==
  /\ handler = "pump" /\ pumping.in = "done" /\ pumping.out = "done"
  /\ handler' = "over" /\ Answers([down EXCEPT !.end = TRUE])
  /\ rsock' = Closed(rsock)
  /\ UNCHANGED <<client, server, local, up, pumping, ctxDone, faults>>

-----------------------------------------------------------------------------
(* The environment *)

Moves(program, to, bound) ==
  \/ /\ program.at = "open" /\ program.wrote < bound
     /\ to = [program EXCEPT !.wrote = @ + 1]
  \/ program.at = "open" /\ to = [program EXCEPT !.at = "half"]
  \/ ~Hung(program) /\ \E at \in {"gone", "reset"} : to = [program EXCEPT !.at = at]

ClientMoves ==
  /\ lsock.at = "open" /\ Moves(client, client', RequestBytes)
  /\ UNCHANGED <<server, local, up, down, agent, faults>>
ServerMoves ==
  /\ rsock.at = "open" /\ Moves(server, server', ResponseBytes)
  /\ UNCHANGED <<client, local, up, down, agent, faults>>

\* The transport is lost; the agent may be what is.
Lose ==
  /\ ~lost /\ lost' = TRUE /\ up' = NothingUp /\ down' = NothingDown
  /\ \/ UNCHANGED agent
     \/ /\ handler \in {"idle", "dial", "pump"} /\ handler' = "over"
        /\ rsock' = IF rsock.at = "open" THEN Closed(rsock) ELSE rsock
        /\ pumping' = [in |-> "done", out |-> "done"] /\ UNCHANGED ctxDone
  /\ UNCHANGED <<client, server, local, teardown>>

-----------------------------------------------------------------------------
(* The specification *)

Opening  == OpenStream \/ RecvOpened
UpPump   == ReadLocal \/ LocalEnds \/ LocalFails
DownPump == RecvData \/ RecvClose \/ RecvEnd
InPump   == TakeData \/ TakeClose \/ TakeFails
OutPump  == ReadSocket \/ SocketEnds

Next ==
  \/ Opening \/ UpPump \/ DownPump \/ Join \/ Leave \/ CloseLocal \/ OwnerCloses
  \/ Notice \/ Admit \/ Dial \/ InPump \/ OutPump \/ CloseSocket \/ Finish
  \/ ClientMoves \/ ServerMoves \/ Teardown \/ Lose

Spec == Init /\ [][Next]_vars

\* The goroutines run, a dial ends, and gRPC tells both sides of an end.  The programs
\* need never do anything.
Fairness ==
  /\ WF_vars(Opening) /\ WF_vars(UpPump) /\ WF_vars(DownPump) /\ WF_vars(Join \/ Leave)
  /\ WF_vars(CloseLocal) /\ WF_vars(OwnerCloses)
  /\ WF_vars(Notice) /\ WF_vars(Admit \/ Dial) /\ WF_vars(InPump) /\ WF_vars(OutPump)
  /\ WF_vars(CloseSocket) /\ WF_vars(Finish)

FairSpec == Spec /\ Fairness

-----------------------------------------------------------------------------
(* Properties *)

Sockets(places) == [read : Nat, given : Nat, eof : BOOLEAN, at : places]
Programs(bound) == [wrote : 0 .. bound, at : {"open", "half", "gone", "reset"}]

TypeOK ==
  /\ client \in Programs(RequestBytes) /\ server \in Programs(ResponseBytes)
  /\ lsock \in Sockets({"open", "closed"}) /\ rsock \in Sockets({"none", "open", "closed"})
  /\ carry \in {"start", "opening", "pump", "leaving", "returned", "over"}
  /\ pumps \in [up : {"none", "run", "done"}, down : {"none", "run", "done"}]
  /\ hook \in {"armed", "stopped", "fired"} /\ cancelled \in BOOLEAN
  /\ up \in [open : BOOLEAN, data : Nat, close : BOOLEAN]
  /\ down \in [answer : {"none", "opened", "refused"}, data : Nat, close : BOOLEAN, end : BOOLEAN]
  /\ handler \in {"none", "idle", "dial", "pump", "over"}
  /\ pumping \in [in : {"none", "run", "done"}, out : {"none", "run", "done"}]
  /\ ctxDone \in BOOLEAN /\ teardown \in BOOLEAN /\ lost \in BOOLEAN

\* A program is gone, or what carries the bytes; or the connection was never made,
\* and the owner of the local one has closed it.
Broken ==
  \/ Hung(client) \/ Hung(server) \/ teardown \/ lost
  \/ carry = "over" /\ pumps.up = "none"

Both(request, response) == [d \in {"request", "response"} |-> IF d = "request" THEN request ELSE response]
P == INSTANCE Pipe WITH
       wrote  <- Both(client.wrote, server.wrote),
       fin    <- Both(client.at # "open", server.at # "open"),
       got    <- Both(rsock.given, lsock.given),
       ended  <- Both(rsock.eof, lsock.eof),
       broken <- Broken

\* As long as nothing breaks, each direction carries all that was written and only
\* then ends, whichever ends first: a half-close takes nothing from the other
\* direction, the end of the stream nothing that is under way, and a connection that
\* was refused is left to its owner to answer on (tunnel.go:119, 155, 359;
\* service.go:542).
PipeSpec == P!Spec

\* A connection that nothing reads any more, or that is torn down, is given up at
\* both ends, with the goroutines, sockets and the slot it holds: no pump stays
\* parked on a program that has no reason to speak (tunnel.go:126, 185, 204; service.go:281).
Final ==
  \/ teardown \/ lost \/ handler = "over"
  \/ client.at = "reset" /\ pumps.up # "done"
  \/ client.at # "open" /\ server.at # "open"
ConnectionEnds ==
  Final ~> carry = "over" /\ handler \notin {"idle", "dial", "pump"} /\ rsock.at # "open"
=============================================================================
