---------------------------- MODULE TunnelProofs ----------------------------
(***************************************************************************)
(* Proofs about Tunnel, for any number of bytes: the types, and that a     *)
(* forwarded connection is a Pipe.                                         *)
(***************************************************************************)
EXTENDS Tunnel, TLAPS

-----------------------------------------------------------------------------
(* The inductive invariant *)

\* What has come out of a direction and what is under way went into it.
Counts ==
  /\ lsock.read <= client.wrote /\ rsock.given + up.data <= lsock.read
  /\ rsock.read <= server.wrote /\ lsock.given + down.data <= rsock.read

\* Where Carry and its pumps can be.
CarrySteps ==
  /\ pumps.up = "none" <=> pumps.down = "none"
  /\ pumps.up # "none" => carry \notin {"start", "opening"} /\ pumping.in # "none"
  /\ carry \in {"leaving", "returned", "over"} => pumps.up # "run" /\ pumps.down # "run"
  /\ carry \in {"returned", "over"} \/ hook = "fired" \/ lsock.at = "closed" => cancelled
  /\ lsock.at = "closed" => lsock.eof
  /\ up.close => pumps.up = "done"

\* Where Forward and its pumps can be.
ForwardSteps ==
  /\ carry = "start" => handler = "none"
  /\ pumping.in = "none" <=> pumping.out = "none"
  /\ handler \in {"none", "idle", "dial"} => pumping.in = "none"
  /\ pumping.in = "run" \/ pumping.out = "run" => handler = "pump" /\ rsock.at # "none"
  /\ rsock.at = "open" => handler = "pump"
  /\ rsock.at = "closed" => rsock.eof
  /\ down.close => pumping.out = "done"
  /\ down.end \/ down.answer = "refused" => handler = "over"
  /\ down.answer = "opened" => pumping.in # "none"

\* While nothing is broken, each direction is whole and is closed in order: the
\* client, the pump up, the agent's pump in, and the server, the agent's pump out,
\* the pump down.
Whole ==
  /\ rsock.given + up.data = lsock.read /\ lsock.given + down.data = rsock.read
  /\ pumps.up = "done" => client.at = "half" /\ lsock.read = client.wrote
  /\ pumping.in = "done" => pumps.up = "done" /\ up.data = 0 /\ rsock.eof
  /\ rsock.eof => pumping.in = "done"
  /\ pumping.out = "done" => server.at = "half" /\ rsock.read = server.wrote
  /\ lsock.eof => pumping.out = "done" /\ down.data = 0 /\ pumps.up # "none"
  /\ pumps.down = "done" => lsock.eof /\ handler = "over"

\* Nothing is cancelled, or closed, that still has something to carry.
Unhurried ==
  /\ cancelled => /\ carry \notin {"start", "opening"} /\ pumps.down # "run"
                  /\ handler \notin {"dial", "pump"}
  /\ carry \in {"leaving", "returned", "over"} => handler \notin {"dial", "pump"}
  /\ up.open => handler = "idle" /\ carry = "opening"
  /\ ctxDone => cancelled
  /\ hook = "fired" => lsock.eof
  /\ rsock.at = "closed" => handler = "over"

IInv ==
  /\ TypeOK /\ Counts /\ CarrySteps /\ ForwardSteps
  /\ ~Broken => Whole /\ Unhurried

-----------------------------------------------------------------------------
(* Every step keeps it *)

LEMMA OpenStreamKeeps == IInv /\ OpenStream => IInv'
<1> SUFFICES ASSUME IInv, OpenStream PROVE IInv' OBVIOUS
<1> USE DEF OpenStream, Alive, faults, IInv, TypeOK, Sockets, Programs
<1>1. TypeOK'
  <2>1. up' \in [open : BOOLEAN, data : Nat, close : BOOLEAN]
    OBVIOUS
  <2> QED BY <2>1, TunnelAssumption
<1>2. Counts' BY DEF Counts
<1>3. CarrySteps' BY DEF CarrySteps, ForwardSteps
<1>4. ForwardSteps' BY DEF CarrySteps, ForwardSteps
<1>5. ~Broken' => ~Broken BY DEF CarrySteps, Broken, Hung
<1>6. ASSUME ~Broken' PROVE Whole'
  BY <1>5, <1>6 DEF Broken, Hung, CarrySteps, ForwardSteps, Counts, Whole, Unhurried
<1>7. ASSUME ~Broken' PROVE Unhurried'
  BY <1>5, <1>7 DEF Broken, Hung, CarrySteps, ForwardSteps, Counts, Whole, Unhurried
<1> QED BY <1>1, <1>2, <1>3, <1>4, <1>6, <1>7

LEMMA RecvOpenedKeeps == IInv /\ RecvOpened => IInv'
<1> SUFFICES ASSUME IInv, RecvOpened PROVE IInv' OBVIOUS
<1> USE DEF RecvOpened, Alive, Hung, Writable, WriteFails, agent, faults, IInv, TypeOK,
          Sockets, Programs
<1>1. TypeOK' BY TunnelAssumption
<1>2. Counts' BY DEF Counts
<1>3. CarrySteps' BY DEF CarrySteps, ForwardSteps
<1>4. ForwardSteps' BY DEF CarrySteps, ForwardSteps
<1>5. ~Broken' => ~Broken BY DEF CarrySteps, Broken, Hung
<1>6. ASSUME ~Broken' PROVE Whole'
  BY <1>5, <1>6 DEF Broken, Hung, CarrySteps, ForwardSteps, Counts, Whole, Unhurried
<1>7. ASSUME ~Broken' PROVE Unhurried'
  BY <1>5, <1>7 DEF Broken, Hung, CarrySteps, ForwardSteps, Counts, Whole, Unhurried
<1> QED BY <1>1, <1>2, <1>3, <1>4, <1>6, <1>7

LEMMA ReadLocalKeeps == IInv /\ ReadLocal => IInv'
<1> SUFFICES ASSUME IInv, ReadLocal PROVE IInv' OBVIOUS
<1> USE DEF ReadLocal, Alive, agent, faults, IInv, TypeOK, Sockets, Programs
<1>1. TypeOK' BY TunnelAssumption
<1>2. Counts' BY DEF Counts
<1>3. CarrySteps' BY DEF CarrySteps, ForwardSteps
<1>4. ForwardSteps' BY DEF CarrySteps, ForwardSteps
<1>5. ~Broken' => ~Broken BY DEF CarrySteps, Broken, Hung
<1>6. ASSUME ~Broken' PROVE Whole'
  BY <1>5, <1>6 DEF Broken, Hung, CarrySteps, ForwardSteps, Counts, Whole, Unhurried
<1>7. ASSUME ~Broken' PROVE Unhurried'
  BY <1>5, <1>7 DEF Broken, Hung, CarrySteps, ForwardSteps, Counts, Whole, Unhurried
<1> QED BY <1>1, <1>2, <1>3, <1>4, <1>6, <1>7

LEMMA LocalEndsKeeps == IInv /\ LocalEnds => IInv'
<1> SUFFICES ASSUME IInv, LocalEnds PROVE IInv' OBVIOUS
<1> USE DEF LocalEnds, Alive, EndsUp, agent, faults, IInv, TypeOK, Sockets, Programs
<1>1. TypeOK'
  <2>1. pumps' \in [up : {"none", "run", "done"}, down : {"none", "run", "done"}] OBVIOUS
  <2>2. up' \in [open : BOOLEAN, data : Nat, close : BOOLEAN]
    OBVIOUS
  <2> QED BY <2>1, <2>2, TunnelAssumption
<1>2. Counts' BY DEF Counts
<1>3. CarrySteps' BY DEF CarrySteps, ForwardSteps
<1>4. ForwardSteps' BY DEF CarrySteps, ForwardSteps
<1>5. ~Broken' => ~Broken BY DEF CarrySteps, Broken, Hung
<1>6. ASSUME ~Broken' PROVE Whole'
  BY <1>5, <1>6 DEF Broken, Hung, CarrySteps, ForwardSteps, Counts, Whole, Unhurried
<1>7. ASSUME ~Broken' PROVE Unhurried'
  BY <1>5, <1>7 DEF Broken, Hung, CarrySteps, ForwardSteps, Counts, Whole, Unhurried
<1> QED BY <1>1, <1>2, <1>3, <1>4, <1>6, <1>7

LEMMA LocalFailsKeeps == IInv /\ LocalFails => IInv'
<1> SUFFICES ASSUME IInv, LocalFails PROVE IInv' OBVIOUS
<1> USE DEF LocalFails, Alive, Cancel, EndsUp, agent, faults, IInv, TypeOK, Sockets,
          Programs
<1>1. TypeOK'
  <2>1. pumps' \in [up : {"none", "run", "done"}, down : {"none", "run", "done"}] OBVIOUS
  <2>2. up' \in [open : BOOLEAN, data : Nat, close : BOOLEAN]
    OBVIOUS
  <2> QED BY <2>1, <2>2, TunnelAssumption
<1>2. Counts' BY DEF Counts
<1>3. CarrySteps' BY DEF CarrySteps, ForwardSteps
<1>4. ForwardSteps' BY DEF CarrySteps, ForwardSteps
<1>5. ~Broken' => ~Broken BY DEF CarrySteps, Broken, Hung
<1>6. ASSUME ~Broken' PROVE Whole'
  BY <1>5, <1>6 DEF Broken, Hung, CarrySteps, ForwardSteps, Counts, Whole, Unhurried
<1>7. ASSUME ~Broken' PROVE Unhurried'
  BY <1>5, <1>7 DEF Broken, Hung, CarrySteps, ForwardSteps, Counts, Whole, Unhurried
<1> QED BY <1>1, <1>2, <1>3, <1>4, <1>6, <1>7

LEMMA RecvDataKeeps == IInv /\ RecvData => IInv'
<1> SUFFICES ASSUME IInv, RecvData PROVE IInv' OBVIOUS
<1> USE DEF RecvData, Cancel, Hung, Writable, WriteFails, agent, faults, IInv, TypeOK,
          Sockets, Programs
<1>1. TypeOK'
  <2>1. lsock' \in Sockets({"open", "closed"}) OBVIOUS
  <2>2. pumps' \in [up : {"none", "run", "done"}, down : {"none", "run", "done"}] OBVIOUS
  <2>3. down' \in [answer : {"none", "opened", "refused"}, data : Nat, close : BOOLEAN,
                    end : BOOLEAN]
    OBVIOUS
  <2>4. UNCHANGED <<client, server, carry, up, rsock, handler, pumping, ctxDone, faults>>
    OBVIOUS
  <2>5. hook' \in {"armed", "stopped", "fired"} /\ cancelled' \in BOOLEAN OBVIOUS
  <2> QED BY ONLY IInv, <2>1, <2>2, <2>3, <2>4, <2>5 DEF IInv, TypeOK, faults
<1>2. Counts' BY DEF Counts
<1>3. CarrySteps' BY DEF CarrySteps, ForwardSteps
<1>4. ForwardSteps' BY DEF CarrySteps, ForwardSteps
<1>5. ~Broken' => ~Broken BY DEF CarrySteps, Broken, Hung
<1>6. ASSUME ~Broken' PROVE Whole'
  BY <1>5, <1>6 DEF Broken, Hung, CarrySteps, ForwardSteps, Counts, Whole, Unhurried
<1>7. ASSUME ~Broken' PROVE Unhurried'
  BY <1>5, <1>7 DEF Broken, Hung, CarrySteps, ForwardSteps, Counts, Whole, Unhurried
<1> QED BY <1>1, <1>2, <1>3, <1>4, <1>6, <1>7

LEMMA RecvCloseKeeps == IInv /\ RecvClose => IInv'
<1> SUFFICES ASSUME IInv, RecvClose PROVE IInv' OBVIOUS
<1> USE DEF RecvClose, agent, faults, IInv, TypeOK, Sockets, Programs
<1>1. TypeOK'
  <2>1. lsock' \in Sockets({"open", "closed"}) OBVIOUS
  <2>2. down' \in [answer : {"none", "opened", "refused"}, data : Nat, close : BOOLEAN,
                    end : BOOLEAN]
    OBVIOUS
  <2> QED BY <2>1, <2>2, TunnelAssumption
<1>2. Counts' BY DEF Counts
<1>3. CarrySteps' BY DEF CarrySteps, ForwardSteps
<1>4. ForwardSteps' BY DEF CarrySteps, ForwardSteps
<1>5. ~Broken' => ~Broken BY DEF CarrySteps, Broken, Hung
<1>6. ASSUME ~Broken' PROVE Whole'
  BY <1>5, <1>6 DEF Broken, Hung, CarrySteps, ForwardSteps, Counts, Whole, Unhurried
<1>7. ASSUME ~Broken' PROVE Unhurried'
  BY <1>5, <1>7 DEF Broken, Hung, CarrySteps, ForwardSteps, Counts, Whole, Unhurried
<1> QED BY <1>1, <1>2, <1>3, <1>4, <1>6, <1>7

LEMMA RecvEndKeeps == IInv /\ RecvEnd => IInv'
<1> SUFFICES ASSUME IInv, RecvEnd PROVE IInv' OBVIOUS
<1> USE DEF RecvEnd, Alive, Cancel, agent, faults, IInv, TypeOK, Sockets, Programs
<1>1. TypeOK'
  <2>1. lsock' \in Sockets({"open", "closed"}) OBVIOUS
  <2>2. pumps' \in [up : {"none", "run", "done"}, down : {"none", "run", "done"}] OBVIOUS
  <2> QED BY <2>1, <2>2, TunnelAssumption
<1>2. Counts' BY DEF Counts
<1>3. CarrySteps' BY DEF CarrySteps, ForwardSteps
<1>4. ForwardSteps' BY DEF CarrySteps, ForwardSteps
<1>5. ~Broken' => ~Broken BY DEF CarrySteps, Broken, Hung
<1>6. ASSUME ~Broken' PROVE Whole'
  BY <1>5, <1>6 DEF Broken, Hung, CarrySteps, ForwardSteps, Counts, Whole, Unhurried
<1>7. ASSUME ~Broken' PROVE Unhurried'
  BY <1>5, <1>7 DEF Broken, Hung, CarrySteps, ForwardSteps, Counts, Whole, Unhurried
<1> QED BY <1>1, <1>2, <1>3, <1>4, <1>6, <1>7

LEMMA JoinKeeps == IInv /\ Join => IInv'
<1> SUFFICES ASSUME IInv, Join PROVE IInv' OBVIOUS
<1> USE DEF Join, agent, faults, IInv, TypeOK, Sockets, Programs
<1>1. TypeOK' BY TunnelAssumption
<1>2. Counts' BY DEF Counts
<1>3. CarrySteps' BY DEF CarrySteps, ForwardSteps
<1>4. ForwardSteps' BY DEF CarrySteps, ForwardSteps
<1>5. ~Broken' => ~Broken BY DEF CarrySteps, Broken, Hung
<1>6. ASSUME ~Broken' PROVE Whole'
  BY <1>5, <1>6 DEF Broken, Hung, CarrySteps, ForwardSteps, Counts, Whole, Unhurried
<1>7. ASSUME ~Broken' PROVE Unhurried'
  BY <1>5, <1>7 DEF Broken, Hung, CarrySteps, ForwardSteps, Counts, Whole, Unhurried
<1> QED BY <1>1, <1>2, <1>3, <1>4, <1>6, <1>7

LEMMA LeaveKeeps == IInv /\ Leave => IInv'
<1> SUFFICES ASSUME IInv, Leave PROVE IInv' OBVIOUS
<1> USE DEF Leave, agent, faults, IInv, TypeOK, Sockets, Programs
<1>1. TypeOK' BY TunnelAssumption
<1>2. Counts' BY DEF Counts
<1>3. CarrySteps' BY DEF CarrySteps, ForwardSteps
<1>4. ForwardSteps' BY DEF CarrySteps, ForwardSteps
<1>5. ~Broken' => ~Broken BY DEF CarrySteps, Broken, Hung
<1>6. ASSUME ~Broken' PROVE Whole'
  BY <1>5, <1>6 DEF Broken, Hung, CarrySteps, ForwardSteps, Counts, Whole, Unhurried
<1>7. ASSUME ~Broken' PROVE Unhurried'
  BY <1>5, <1>7 DEF Broken, Hung, CarrySteps, ForwardSteps, Counts, Whole, Unhurried
<1> QED BY <1>1, <1>2, <1>3, <1>4, <1>6, <1>7

LEMMA CloseLocalKeeps == IInv /\ CloseLocal => IInv'
<1> SUFFICES ASSUME IInv, CloseLocal PROVE IInv' OBVIOUS
<1> USE DEF CloseLocal, Closed, agent, faults, IInv, TypeOK, Sockets, Programs
<1>1. TypeOK'
  <2>1. lsock' \in Sockets({"open", "closed"}) OBVIOUS
  <2> QED BY <2>1, TunnelAssumption
<1>2. Counts' BY DEF Counts
<1>3. CarrySteps' BY DEF CarrySteps, ForwardSteps
<1>4. ForwardSteps' BY DEF CarrySteps, ForwardSteps
<1>5. ~Broken' => ~Broken BY DEF CarrySteps, Broken, Hung
<1>6. ASSUME ~Broken' PROVE Whole'
  BY <1>5, <1>6 DEF Broken, Hung, CarrySteps, ForwardSteps, Counts, Whole, Unhurried
<1>7. ASSUME ~Broken' PROVE Unhurried'
  BY <1>5, <1>7 DEF Broken, Hung, CarrySteps, ForwardSteps, Counts, Whole, Unhurried
<1> QED BY <1>1, <1>2, <1>3, <1>4, <1>6, <1>7

LEMMA OwnerClosesKeeps == IInv /\ OwnerCloses => IInv'
<1> SUFFICES ASSUME IInv, OwnerCloses PROVE IInv' OBVIOUS
<1> USE DEF OwnerCloses, Closed, agent, faults, IInv, TypeOK, Sockets, Programs
<1>1. TypeOK'
  <2>1. lsock' \in Sockets({"open", "closed"}) OBVIOUS
  <2> QED BY <2>1, TunnelAssumption
<1>2. Counts' BY DEF Counts
<1>3. CarrySteps' BY DEF CarrySteps, ForwardSteps
<1>4. ForwardSteps' BY DEF CarrySteps, ForwardSteps
<1>5. ~Broken' => ~Broken BY DEF CarrySteps, Broken, Hung
<1>6. ASSUME ~Broken' PROVE Whole'
  BY <1>5, <1>6 DEF Broken, Hung, CarrySteps, ForwardSteps, Counts, Whole, Unhurried
<1>7. ASSUME ~Broken' PROVE Unhurried'
  BY <1>5, <1>7 DEF Broken, Hung, CarrySteps, ForwardSteps, Counts, Whole, Unhurried
<1> QED BY <1>1, <1>2, <1>3, <1>4, <1>6, <1>7

LEMMA TeardownKeeps == IInv /\ Teardown => IInv'
<1> SUFFICES ASSUME IInv, Teardown PROVE IInv' OBVIOUS
<1> USE DEF Teardown, Cancel, agent, IInv, TypeOK, Sockets, Programs
<1>1. TypeOK' BY TunnelAssumption
<1>2. Counts' BY DEF Counts
<1>3. CarrySteps' BY DEF CarrySteps, ForwardSteps
<1>4. ForwardSteps' BY DEF CarrySteps, ForwardSteps
<1>5. ~Broken' => ~Broken BY DEF CarrySteps, Broken, Hung
<1>6. ASSUME ~Broken' PROVE Whole'
  BY <1>5, <1>6 DEF Broken, Hung, CarrySteps, ForwardSteps, Counts, Whole, Unhurried
<1>7. ASSUME ~Broken' PROVE Unhurried'
  BY <1>5, <1>7 DEF Broken, Hung, CarrySteps, ForwardSteps, Counts, Whole, Unhurried
<1> QED BY <1>1, <1>2, <1>3, <1>4, <1>6, <1>7

LEMMA NoticeKeeps == IInv /\ Notice => IInv'
<1> SUFFICES ASSUME IInv, Notice PROVE IInv' OBVIOUS
<1> USE DEF Notice, local, faults, IInv, TypeOK, Sockets, Programs
<1>1. TypeOK' BY TunnelAssumption
<1>2. Counts' BY DEF Counts
<1>3. CarrySteps' BY DEF CarrySteps, ForwardSteps
<1>4. ForwardSteps' BY DEF CarrySteps, ForwardSteps
<1>5. ~Broken' => ~Broken BY DEF CarrySteps, Broken, Hung
<1>6. ASSUME ~Broken' PROVE Whole'
  BY <1>5, <1>6 DEF Broken, Hung, CarrySteps, ForwardSteps, Counts, Whole, Unhurried
<1>7. ASSUME ~Broken' PROVE Unhurried'
  BY <1>5, <1>7 DEF Broken, Hung, CarrySteps, ForwardSteps, Counts, Whole, Unhurried
<1> QED BY <1>1, <1>2, <1>3, <1>4, <1>6, <1>7

LEMMA AdmitKeeps == IInv /\ Admit => IInv'
<1> SUFFICES ASSUME IInv, Admit PROVE IInv' OBVIOUS
<1> USE DEF Admit, Answers, local, faults, IInv, TypeOK, Sockets, Programs
<1>1. TypeOK'
  <2>1. up' \in [open : BOOLEAN, data : Nat, close : BOOLEAN]
    <3>1. up' = up \/ up' = [up EXCEPT !.open = FALSE] BY ONLY Admit DEF Admit
    <3> QED BY ONLY <3>1, IInv DEF IInv, TypeOK
  <2>2. down' \in [answer : {"none", "opened", "refused"}, data : Nat, close : BOOLEAN,
                    end : BOOLEAN]
    <3>1. down' = down \/ down' = [down EXCEPT !.end = TRUE] BY ONLY Admit DEF Admit, Answers
    <3> QED BY ONLY <3>1, IInv DEF IInv, TypeOK
  <2> QED BY <2>1, <2>2, TunnelAssumption
<1>2. Counts' BY DEF Counts
<1>3. CarrySteps' BY DEF CarrySteps, ForwardSteps
<1>4. ForwardSteps' BY DEF CarrySteps, ForwardSteps
<1>5. ~Broken' => ~Broken BY DEF CarrySteps, Broken, Hung
<1>6. ASSUME ~Broken' PROVE Whole'
  BY <1>5, <1>6 DEF Broken, Hung, CarrySteps, ForwardSteps, Counts, Whole, Unhurried
<1>7. ASSUME ~Broken' PROVE Unhurried'
  BY <1>5, <1>7 DEF Broken, Hung, CarrySteps, ForwardSteps, Counts, Whole, Unhurried
<1> QED BY <1>1, <1>2, <1>3, <1>4, <1>6, <1>7

LEMMA DialKeeps == IInv /\ Dial => IInv'
<1> SUFFICES ASSUME IInv, Dial PROVE IInv' OBVIOUS
<1> USE DEF Dial, Answers, local, faults, IInv, TypeOK, Sockets, Programs
<1>1. TypeOK'
  <2>1. rsock' \in Sockets({"none", "open", "closed"}) OBVIOUS
  <2>2. pumping' \in [in : {"none", "run", "done"}, out : {"none", "run", "done"}]
    OBVIOUS
  <2>3. down' \in [answer : {"none", "opened", "refused"}, data : Nat, close : BOOLEAN,
                    end : BOOLEAN]
    <3>1. \/ down' = down
          \/ down' = [down EXCEPT !.answer = "opened"]
          \/ down' = [down EXCEPT !.answer = "refused", !.end = TRUE]
      BY ONLY Dial DEF Dial, Answers
    <3> QED BY ONLY <3>1, IInv DEF IInv, TypeOK
  <2> QED BY <2>1, <2>2, <2>3, TunnelAssumption
<1>2. Counts' BY DEF Counts
<1>3. CarrySteps' BY DEF CarrySteps, ForwardSteps
<1>4. ForwardSteps'
  <2>1. CASE handler' = "pump" BY <2>1 DEF CarrySteps, ForwardSteps
  <2>2. CASE handler' = "over" BY <2>2 DEF CarrySteps, ForwardSteps
  <2> QED BY <2>1, <2>2
<1>5. ~Broken' => ~Broken BY DEF CarrySteps, Broken, Hung
<1>6. ASSUME ~Broken' PROVE Whole'
  <2>1. CASE handler' = "pump"
    BY <1>5, <1>6, <2>1 DEF Broken, Hung, CarrySteps, ForwardSteps, Counts, Whole, Unhurried
  <2>2. CASE handler' = "over"
    BY <1>5, <1>6, <2>2 DEF Broken, Hung, CarrySteps, ForwardSteps, Counts, Whole, Unhurried
  <2> QED BY <2>1, <2>2
<1>7. ASSUME ~Broken' PROVE Unhurried'
  BY <1>5, <1>7 DEF Broken, Hung, CarrySteps, ForwardSteps, Counts, Whole, Unhurried
<1> QED BY <1>1, <1>2, <1>3, <1>4, <1>6, <1>7

LEMMA TakeDataKeeps == IInv /\ TakeData => IInv'
<1> SUFFICES ASSUME IInv, TakeData PROVE IInv' OBVIOUS
<1> USE DEF TakeData, Hung, Writable, WriteFails, EndsIn, local, faults, IInv, TypeOK,
          Sockets, Programs
<1>1. TypeOK' BY TunnelAssumption
<1>2. Counts' BY DEF Counts
<1>3. CarrySteps' BY DEF CarrySteps, ForwardSteps
<1>4. ForwardSteps' BY DEF CarrySteps, ForwardSteps
<1>5. ~Broken' => ~Broken BY DEF CarrySteps, Broken, Hung
<1>6. ASSUME ~Broken' PROVE Whole'
  BY <1>5, <1>6 DEF Broken, Hung, CarrySteps, ForwardSteps, Counts, Whole, Unhurried
<1>7. ASSUME ~Broken' PROVE Unhurried'
  BY <1>5, <1>7 DEF Broken, Hung, CarrySteps, ForwardSteps, Counts, Whole, Unhurried
<1> QED BY <1>1, <1>2, <1>3, <1>4, <1>6, <1>7

LEMMA TakeCloseKeeps == IInv /\ TakeClose => IInv'
<1> SUFFICES ASSUME IInv, TakeClose PROVE IInv' OBVIOUS
<1> USE DEF TakeClose, EndsIn, local, faults, IInv, TypeOK, Sockets, Programs
<1>1. TypeOK'
  <2>1. rsock' \in Sockets({"none", "open", "closed"}) OBVIOUS
  <2>2. pumping' \in [in : {"none", "run", "done"}, out : {"none", "run", "done"}]
    OBVIOUS
  <2>3. up' \in [open : BOOLEAN, data : Nat, close : BOOLEAN]
    OBVIOUS
  <2> QED BY <2>1, <2>2, <2>3, TunnelAssumption
<1>2. Counts' BY DEF Counts
<1>3. CarrySteps' BY DEF CarrySteps, ForwardSteps
<1>4. ForwardSteps' BY DEF CarrySteps, ForwardSteps
<1>5. ~Broken' => ~Broken BY DEF CarrySteps, Broken, Hung
<1>6. ASSUME ~Broken' PROVE Whole'
  BY <1>5, <1>6 DEF Broken, Hung, CarrySteps, ForwardSteps, Counts, Whole, Unhurried
<1>7. ASSUME ~Broken' PROVE Unhurried'
  BY <1>5, <1>7 DEF Broken, Hung, CarrySteps, ForwardSteps, Counts, Whole, Unhurried
<1> QED BY <1>1, <1>2, <1>3, <1>4, <1>6, <1>7

LEMMA TakeFailsKeeps == IInv /\ TakeFails => IInv'
<1> SUFFICES ASSUME IInv, TakeFails PROVE IInv' OBVIOUS
<1> USE DEF TakeFails, EndsIn, local, faults, IInv, TypeOK, Sockets, Programs
<1>1. TypeOK' BY TunnelAssumption
<1>2. Counts' BY DEF Counts
<1>3. CarrySteps' BY DEF CarrySteps, ForwardSteps
<1>4. ForwardSteps' BY DEF CarrySteps, ForwardSteps
<1>5. ~Broken' => ~Broken BY DEF CarrySteps, Broken, Hung
<1>6. ASSUME ~Broken' PROVE Whole'
  BY <1>5, <1>6 DEF Broken, Hung, CarrySteps, ForwardSteps, Counts, Whole, Unhurried
<1>7. ASSUME ~Broken' PROVE Unhurried'
  BY <1>5, <1>7 DEF Broken, Hung, CarrySteps, ForwardSteps, Counts, Whole, Unhurried
<1> QED BY <1>1, <1>2, <1>3, <1>4, <1>6, <1>7

LEMMA ReadSocketKeeps == IInv /\ ReadSocket => IInv'
<1> SUFFICES ASSUME IInv, ReadSocket PROVE IInv' OBVIOUS
<1> USE DEF ReadSocket, EndsOut, Answers, local, faults, IInv, TypeOK, Sockets, Programs
<1>1. TypeOK' BY TunnelAssumption
<1>2. Counts' BY DEF Counts
<1>3. CarrySteps' BY DEF CarrySteps, ForwardSteps
<1>4. ForwardSteps' BY DEF CarrySteps, ForwardSteps
<1>5. ~Broken' => ~Broken BY DEF CarrySteps, Broken, Hung
<1>6. ASSUME ~Broken' PROVE Whole'
  BY <1>5, <1>6 DEF Broken, Hung, CarrySteps, ForwardSteps, Counts, Whole, Unhurried
<1>7. ASSUME ~Broken' PROVE Unhurried'
  BY <1>5, <1>7 DEF Broken, Hung, CarrySteps, ForwardSteps, Counts, Whole, Unhurried
<1> QED BY <1>1, <1>2, <1>3, <1>4, <1>6, <1>7

LEMMA SocketEndsKeeps == IInv /\ SocketEnds => IInv'
<1> SUFFICES ASSUME IInv, SocketEnds PROVE IInv' OBVIOUS
<1> USE DEF SocketEnds, EndsOut, Answers, local, faults, IInv, TypeOK, Sockets, Programs
<1>1. TypeOK'
  <2>1. pumping' \in [in : {"none", "run", "done"}, out : {"none", "run", "done"}]
    OBVIOUS
  <2>2. down' \in [answer : {"none", "opened", "refused"}, data : Nat, close : BOOLEAN,
                    end : BOOLEAN]
    <3>1. down' = down \/ down' = [down EXCEPT !.close = TRUE]
      BY ONLY SocketEnds DEF SocketEnds, Answers
    <3> QED BY ONLY <3>1, IInv DEF IInv, TypeOK
  <2> QED BY <2>1, <2>2, TunnelAssumption
<1>2. Counts' BY DEF Counts
<1>3. CarrySteps' BY DEF CarrySteps, ForwardSteps
<1>4. ForwardSteps' BY DEF CarrySteps, ForwardSteps
<1>5. ~Broken' => ~Broken BY DEF CarrySteps, Broken, Hung
<1>6. ASSUME ~Broken' PROVE Whole'
  BY <1>5, <1>6 DEF Broken, Hung, CarrySteps, ForwardSteps, Counts, Whole, Unhurried
<1>7. ASSUME ~Broken' PROVE Unhurried'
  BY <1>5, <1>7 DEF Broken, Hung, CarrySteps, ForwardSteps, Counts, Whole, Unhurried
<1> QED BY <1>1, <1>2, <1>3, <1>4, <1>6, <1>7

LEMMA CloseSocketKeeps == IInv /\ CloseSocket => IInv'
<1> SUFFICES ASSUME IInv, CloseSocket PROVE IInv' OBVIOUS
<1> USE DEF CloseSocket, Closed, local, faults, IInv, TypeOK, Sockets, Programs
<1>1. TypeOK'
  <2>1. rsock' \in Sockets({"none", "open", "closed"}) OBVIOUS
  <2> QED BY <2>1, TunnelAssumption
<1>2. Counts' BY DEF Counts
<1>3. CarrySteps' BY DEF CarrySteps, ForwardSteps
<1>4. ForwardSteps' BY DEF CarrySteps, ForwardSteps
<1>5. ~Broken' => ~Broken BY DEF CarrySteps, Broken, Hung
<1>6. ASSUME ~Broken' PROVE Whole'
  BY <1>5, <1>6 DEF Broken, Hung, CarrySteps, ForwardSteps, Counts, Whole, Unhurried
<1>7. ASSUME ~Broken' PROVE Unhurried'
  BY <1>5, <1>7 DEF Broken, Hung, CarrySteps, ForwardSteps, Counts, Whole, Unhurried
<1> QED BY <1>1, <1>2, <1>3, <1>4, <1>6, <1>7

LEMMA FinishKeeps == IInv /\ Finish => IInv'
<1> SUFFICES ASSUME IInv, Finish PROVE IInv' OBVIOUS
<1> USE DEF Finish, Closed, Answers, local, faults, IInv, TypeOK, Sockets, Programs
<1>1. TypeOK'
  <2>1. rsock' \in Sockets({"none", "open", "closed"}) OBVIOUS
  <2>2. down' \in [answer : {"none", "opened", "refused"}, data : Nat, close : BOOLEAN,
                    end : BOOLEAN]
    OBVIOUS
  <2> QED BY <2>1, <2>2, TunnelAssumption
<1>2. Counts' BY DEF Counts
<1>3. CarrySteps' BY DEF CarrySteps, ForwardSteps
<1>4. ForwardSteps' BY DEF CarrySteps, ForwardSteps
<1>5. ~Broken' => ~Broken BY DEF CarrySteps, Broken, Hung
<1>6. ASSUME ~Broken' PROVE Whole'
  BY <1>5, <1>6 DEF Broken, Hung, CarrySteps, ForwardSteps, Counts, Whole, Unhurried
<1>7. ASSUME ~Broken' PROVE Unhurried'
  BY <1>5, <1>7 DEF Broken, Hung, CarrySteps, ForwardSteps, Counts, Whole, Unhurried
<1> QED BY <1>1, <1>2, <1>3, <1>4, <1>6, <1>7

LEMMA ClientMovesKeeps == IInv /\ ClientMoves => IInv'
<1> SUFFICES ASSUME IInv, ClientMoves PROVE IInv' OBVIOUS
<1> USE DEF ClientMoves, Hung, Moves, local, agent, faults, IInv, TypeOK, Sockets,
          Programs
<1>1. TypeOK' BY TunnelAssumption
<1>2. Counts' BY DEF Counts
<1>3. CarrySteps' BY DEF CarrySteps, ForwardSteps
<1>4. ForwardSteps' BY DEF CarrySteps, ForwardSteps
<1>5. ~Broken' => ~Broken BY DEF CarrySteps, Broken, Hung
<1>6. ASSUME ~Broken' PROVE Whole'
  BY <1>5, <1>6 DEF Broken, Hung, CarrySteps, ForwardSteps, Counts, Whole, Unhurried
<1>7. ASSUME ~Broken' PROVE Unhurried'
  BY <1>5, <1>7 DEF Broken, Hung, CarrySteps, ForwardSteps, Counts, Whole, Unhurried
<1> QED BY <1>1, <1>2, <1>3, <1>4, <1>6, <1>7

LEMMA ServerMovesKeeps == IInv /\ ServerMoves => IInv'
<1> SUFFICES ASSUME IInv, ServerMoves PROVE IInv' OBVIOUS
<1> USE DEF ServerMoves, Hung, Moves, local, agent, faults, IInv, TypeOK, Sockets,
          Programs
<1>1. TypeOK' BY TunnelAssumption
<1>2. Counts' BY DEF Counts
<1>3. CarrySteps' BY DEF CarrySteps, ForwardSteps
<1>4. ForwardSteps' BY DEF CarrySteps, ForwardSteps
<1>5. ~Broken' => ~Broken BY DEF CarrySteps, Broken, Hung
<1>6. ASSUME ~Broken' PROVE Whole'
  BY <1>5, <1>6 DEF Broken, Hung, CarrySteps, ForwardSteps, Counts, Whole, Unhurried
<1>7. ASSUME ~Broken' PROVE Unhurried'
  BY <1>5, <1>7 DEF Broken, Hung, CarrySteps, ForwardSteps, Counts, Whole, Unhurried
<1> QED BY <1>1, <1>2, <1>3, <1>4, <1>6, <1>7

LEMMA LoseKeeps == IInv /\ Lose => IInv'
<1> SUFFICES ASSUME IInv, Lose PROVE IInv' OBVIOUS
<1> USE DEF Lose, Closed, NothingUp, NothingDown, local, agent, IInv, TypeOK, Sockets,
          Programs
<1>1. TypeOK'
  <2>1. rsock' \in Sockets({"none", "open", "closed"})
    <3>1. rsock' = rsock \/ rsock' = [rsock EXCEPT !.at = "closed", !.eof = TRUE]
      BY ONLY Lose DEF Lose, Closed, agent
    <3> QED BY ONLY <3>1, IInv DEF IInv, TypeOK, Sockets
  <2>2. pumping' \in [in : {"none", "run", "done"}, out : {"none", "run", "done"}]
    OBVIOUS
  <2>3. up' \in [open : BOOLEAN, data : Nat, close : BOOLEAN]
    OBVIOUS
  <2>4. down' \in [answer : {"none", "opened", "refused"}, data : Nat, close : BOOLEAN,
                    end : BOOLEAN]
    OBVIOUS
  <2> QED BY <2>1, <2>2, <2>3, <2>4, TunnelAssumption
<1>2. /\ UNCHANGED <<client, server, lsock, carry, pumps, hook, cancelled>>
      /\ up' = NothingUp /\ down' = NothingDown
      /\ rsock'.read = rsock.read /\ rsock'.given = rsock.given
  OBVIOUS
<1>3. Counts' /\ CarrySteps'
  <2>1. Counts' BY <1>2 DEF Counts
  <2>2. pumping'.in # "none" \/ pumping' = pumping OBVIOUS
  <2>3. CarrySteps' BY <1>2, <2>2 DEF CarrySteps
  <2> QED BY <2>1, <2>3
<1>4. ForwardSteps'
  <2>1. CASE UNCHANGED agent BY <1>2, <2>1 DEF ForwardSteps
  <2>2. CASE handler' = "over" /\ pumping' = [in |-> "done", out |-> "done"]
    <3>1. rsock'.at # "open" /\ (rsock'.at = "closed" => rsock'.eof) BY <2>2 DEF ForwardSteps
    <3>2. carry # "start" BY <2>2 DEF ForwardSteps
    <3> QED BY <1>2, <2>2, <3>1, <3>2 DEF ForwardSteps
  <2> QED BY <2>1, <2>2
<1>5. ~Broken' => ~Broken BY DEF CarrySteps, Broken, Hung
<1>6. ASSUME ~Broken' PROVE Whole'
  BY <1>5, <1>6 DEF Broken, Hung, CarrySteps, ForwardSteps, Counts, Whole, Unhurried
<1>7. ASSUME ~Broken' PROVE Unhurried'
  BY <1>5, <1>7 DEF Broken, Hung, CarrySteps, ForwardSteps, Counts, Whole, Unhurried
<1> QED BY <1>1, <1>3, <1>4, <1>6, <1>7

-----------------------------------------------------------------------------
(* The types *)

LEMMA StepInv == IInv /\ [Next]_vars => IInv'
<1> SUFFICES ASSUME IInv, [Next]_vars PROVE IInv' OBVIOUS
<1>1. CASE Opening \/ UpPump \/ DownPump
  BY <1>1, OpenStreamKeeps, RecvOpenedKeeps, ReadLocalKeeps, LocalEndsKeeps, LocalFailsKeeps,
     RecvDataKeeps, RecvCloseKeeps, RecvEndKeeps DEF Opening, UpPump, DownPump
<1>2. CASE Join \/ Leave \/ CloseLocal \/ OwnerCloses
  BY <1>2, JoinKeeps, LeaveKeeps, CloseLocalKeeps, OwnerClosesKeeps
<1>3. CASE Notice \/ Admit \/ Dial \/ InPump \/ OutPump \/ CloseSocket \/ Finish
  BY <1>3, NoticeKeeps, AdmitKeeps, DialKeeps, TakeDataKeeps, TakeCloseKeeps, TakeFailsKeeps,
     ReadSocketKeeps, SocketEndsKeeps, CloseSocketKeeps, FinishKeeps DEF InPump, OutPump
<1>4. CASE ClientMoves \/ ServerMoves \/ Teardown \/ Lose
  BY <1>4, ClientMovesKeeps, ServerMovesKeeps, TeardownKeeps, LoseKeeps
<1>5. CASE UNCHANGED vars
  BY <1>5 DEF vars, local, agent, faults, IInv, TypeOK, Counts, CarrySteps, ForwardSteps, Broken,
              Hung, Whole, Unhurried
<1> QED BY <1>1, <1>2, <1>3, <1>4, <1>5 DEF Next

LEMMA InitInv == Init => IInv
<1> SUFFICES ASSUME Init PROVE IInv OBVIOUS
<1> USE DEF Init, NothingUp, NothingDown
<1>1. TypeOK
  <2>1. client \in Programs(RequestBytes) /\ server \in Programs(ResponseBytes)
    BY TunnelAssumption DEF Programs
  <2>2. lsock \in Sockets({"open", "closed"}) /\ rsock \in Sockets({"none", "open", "closed"})
    BY DEF Sockets
  <2>3. up \in [open : BOOLEAN, data : Nat, close : BOOLEAN] OBVIOUS
  <2>4. down \in [answer : {"none", "opened", "refused"}, data : Nat, close : BOOLEAN,
                  end : BOOLEAN]
    OBVIOUS
  <2>5. /\ pumps \in [up : {"none", "run", "done"}, down : {"none", "run", "done"}]
        /\ pumping \in [in : {"none", "run", "done"}, out : {"none", "run", "done"}]
    OBVIOUS
  <2> QED BY <2>1, <2>2, <2>3, <2>4, <2>5 DEF TypeOK
<1>2. Counts /\ CarrySteps /\ ForwardSteps BY DEF Counts, CarrySteps, ForwardSteps
<1>3. Whole /\ Unhurried BY DEF Whole, Unhurried
<1> QED BY <1>1, <1>2, <1>3 DEF IInv

LEMMA Invariance == Spec => []IInv
  BY InitInv, StepInv, PTL DEF Spec

\* The variables of a connection keep their types, and no more is taken from a queue
\* than was put there.
THEOREM TunnelTyped == Spec => []TypeOK
<1>1. IInv => TypeOK BY DEF IInv
<1> QED BY <1>1, Invariance, PTL

-----------------------------------------------------------------------------
(* The refinement *)

\* What of a connection a Pipe shows.
Seen == <<client.wrote, server.wrote, client.at # "open", server.at # "open",
          rsock.given, lsock.given, rsock.eof, lsock.eof,
                     Broken>>

LEMMA Unseen == ASSUME UNCHANGED Seen PROVE UNCHANGED P!vars
  BY DEF Seen, P!vars, Both

LEMMA Breaks ==
  ASSUME Broken', TypeOK, TypeOK',
         UNCHANGED <<client.wrote, server.wrote, rsock.given, lsock.given>>,
         client.at # "open" => client'.at # "open", server.at # "open" => server'.at # "open",
         rsock.eof => rsock'.eof, lsock.eof => lsock'.eof
  PROVE  P!Next
<1>1. P!Break
  BY DEF P!Break, P!Directions, Both, TypeOK, Sockets
<1> QED BY <1>1 DEF P!Next

\* The six things a Pipe does while it is whole.
LEMMA Writes ==
  ASSUME ~(client.at # "open"), ~(client'.at # "open"), client'.wrote = client.wrote + 1,
         UNCHANGED <<server.wrote, server.at, rsock.given, lsock.given, rsock.eof, lsock.eof,
                     Broken>>
  PROVE  P!Next
<1>1. P!Write("request") BY DEF P!Write, P!Directions, Both
<1> QED BY <1>1 DEF P!Next, P!Directions

LEMMA Responds ==
  ASSUME ~(server.at # "open"), ~(server'.at # "open"), server'.wrote = server.wrote + 1,
         UNCHANGED <<client.wrote, client.at, rsock.given, lsock.given, rsock.eof, lsock.eof,
                     Broken>>
  PROVE  P!Next
<1>1. P!Write("response") BY DEF P!Write, P!Directions, Both
<1> QED BY <1>1 DEF P!Next, P!Directions

LEMMA ClientEnds ==
  ASSUME client'.at # "open",
         UNCHANGED <<client.wrote, server.wrote, server.at, rsock.given, lsock.given, rsock.eof,
                     lsock.eof, Broken>>
  PROVE  P!Next
<1>1. P!Finish("request") BY DEF P!Finish, P!Directions, Both
<1> QED BY <1>1 DEF P!Next, P!Directions

LEMMA ServerEnds ==
  ASSUME server'.at # "open",
         UNCHANGED <<client.wrote, server.wrote, client.at, rsock.given, lsock.given, rsock.eof,
                     lsock.eof, Broken>>
  PROVE  P!Next
<1>1. P!Finish("response") BY DEF P!Finish, P!Directions, Both
<1> QED BY <1>1 DEF P!Next, P!Directions

LEMMA RequestGot ==
  ASSUME ~rsock.eof, rsock.given < client.wrote, rsock'.given = rsock.given + 1,
         UNCHANGED <<client, server, lsock.given, rsock.eof, lsock.eof,
                     Broken>>
  PROVE  P!Next
<1>1. P!Get("request") BY DEF P!Get, P!Directions, Both
<1> QED BY <1>1 DEF P!Next, P!Directions

LEMMA ResponseGot ==
  ASSUME ~lsock.eof, lsock.given < server.wrote, lsock'.given = lsock.given + 1,
         UNCHANGED <<client, server, rsock.given, rsock.eof, lsock.eof,
                     Broken>>
  PROVE  P!Next
<1>1. P!Get("response") BY DEF P!Get, P!Directions, Both
<1> QED BY <1>1 DEF P!Next, P!Directions

LEMMA RequestEnded ==
  ASSUME client.at # "open", rsock.given = client.wrote, rsock'.eof,
         UNCHANGED <<client, server, rsock.given, lsock.given, lsock.eof, Broken>>
  PROVE  P!Next
<1>1. rsock'.eof = TRUE OBVIOUS
<1>2. P!End("request") BY <1>1 DEF P!End, P!Directions, Both
<1> QED BY <1>2 DEF P!Next, P!Directions

LEMMA ResponseEnded ==
  ASSUME server.at # "open", lsock.given = server.wrote, lsock'.eof,
         UNCHANGED <<client, server, rsock.given, lsock.given, rsock.eof, Broken>>
  PROVE  P!Next
<1>1. lsock'.eof = TRUE OBVIOUS
<1>2. P!End("response") BY <1>1 DEF P!End, P!Directions, Both
<1> QED BY <1>2 DEF P!Next, P!Directions

\* The steps of Carry, of Forward and of the environment, as steps of a Pipe.

LEMMA OpenStreamMaps == IInv /\ IInv' /\ OpenStream => [P!Next]_(P!vars)
<1> SUFFICES ASSUME IInv, IInv', OpenStream PROVE [P!Next]_(P!vars) OBVIOUS
<1>1. UNCHANGED Seen BY DEF OpenStream, Alive, faults, Seen, Broken, Hung, IInv, TypeOK,
   Sockets, Programs, Counts, CarrySteps, ForwardSteps, Whole, Unhurried
<1> QED BY <1>1, Unseen

LEMMA RecvOpenedMaps == IInv /\ IInv' /\ RecvOpened => [P!Next]_(P!vars)
<1> SUFFICES ASSUME IInv, IInv', RecvOpened PROVE [P!Next]_(P!vars) OBVIOUS
<1>1. UNCHANGED Seen BY DEF RecvOpened, Alive, Hung, Writable, WriteFails, agent,
   faults, Seen, Broken, Hung, IInv, TypeOK, Sockets, Programs, Counts, CarrySteps,
   ForwardSteps, Whole, Unhurried
<1> QED BY <1>1, Unseen

LEMMA ReadLocalMaps == IInv /\ IInv' /\ ReadLocal => [P!Next]_(P!vars)
<1> SUFFICES ASSUME IInv, IInv', ReadLocal PROVE [P!Next]_(P!vars) OBVIOUS
<1>1. UNCHANGED Seen BY DEF ReadLocal, Alive, agent, faults, Seen, Broken, Hung, IInv,
   TypeOK, Sockets, Programs, Counts, CarrySteps, ForwardSteps, Whole, Unhurried
<1> QED BY <1>1, Unseen

LEMMA LocalEndsMaps == IInv /\ IInv' /\ LocalEnds => [P!Next]_(P!vars)
<1> SUFFICES ASSUME IInv, IInv', LocalEnds PROVE [P!Next]_(P!vars) OBVIOUS
<1>1. UNCHANGED Seen BY DEF LocalEnds, Alive, EndsUp, agent, faults, Seen, Broken, Hung,
   IInv, TypeOK, Sockets, Programs, Counts, CarrySteps, ForwardSteps, Whole, Unhurried
<1> QED BY <1>1, Unseen

LEMMA LocalFailsMaps == IInv /\ IInv' /\ LocalFails => [P!Next]_(P!vars)
<1> SUFFICES ASSUME IInv, IInv', LocalFails PROVE [P!Next]_(P!vars) OBVIOUS
<1>1. UNCHANGED Seen BY DEF LocalFails, Alive, Cancel, EndsUp, agent, faults, Seen,
   Broken, Hung, IInv, TypeOK, Sockets, Programs, Counts, CarrySteps, ForwardSteps,
   Whole, Unhurried
<1> QED BY <1>1, Unseen

LEMMA JoinMaps == IInv /\ IInv' /\ Join => [P!Next]_(P!vars)
<1> SUFFICES ASSUME IInv, IInv', Join PROVE [P!Next]_(P!vars) OBVIOUS
<1>1. UNCHANGED Seen BY DEF Join, agent, faults, Seen, Broken, Hung, IInv, TypeOK,
   Sockets, Programs, Counts, CarrySteps, ForwardSteps, Whole, Unhurried
<1> QED BY <1>1, Unseen

LEMMA LeaveMaps == IInv /\ IInv' /\ Leave => [P!Next]_(P!vars)
<1> SUFFICES ASSUME IInv, IInv', Leave PROVE [P!Next]_(P!vars) OBVIOUS
<1>1. UNCHANGED Seen BY DEF Leave, agent, faults, Seen, Broken, Hung, IInv, TypeOK,
   Sockets, Programs, Counts, CarrySteps, ForwardSteps, Whole, Unhurried
<1> QED BY <1>1, Unseen

LEMMA NoticeMaps == IInv /\ IInv' /\ Notice => [P!Next]_(P!vars)
<1> SUFFICES ASSUME IInv, IInv', Notice PROVE [P!Next]_(P!vars) OBVIOUS
<1>1. UNCHANGED Seen BY DEF Notice, local, faults, Seen, Broken, Hung, IInv, TypeOK,
   Sockets, Programs, Counts, CarrySteps, ForwardSteps, Whole, Unhurried
<1> QED BY <1>1, Unseen

LEMMA AdmitMaps == IInv /\ IInv' /\ Admit => [P!Next]_(P!vars)
<1> SUFFICES ASSUME IInv, IInv', Admit PROVE [P!Next]_(P!vars) OBVIOUS
<1>1. UNCHANGED Seen BY DEF Admit, Answers, local, faults, Seen, Broken, Hung, IInv,
   TypeOK, Sockets, Programs, Counts, CarrySteps, ForwardSteps, Whole, Unhurried
<1> QED BY <1>1, Unseen

LEMMA DialMaps == IInv /\ IInv' /\ Dial => [P!Next]_(P!vars)
<1> SUFFICES ASSUME IInv, IInv', Dial PROVE [P!Next]_(P!vars) OBVIOUS
<1>1. UNCHANGED Seen BY DEF Dial, Answers, local, faults, Seen, Broken, Hung, IInv,
   TypeOK, Sockets, Programs, Counts, CarrySteps, ForwardSteps, Whole, Unhurried
<1> QED BY <1>1, Unseen

LEMMA TakeFailsMaps == IInv /\ IInv' /\ TakeFails => [P!Next]_(P!vars)
<1> SUFFICES ASSUME IInv, IInv', TakeFails PROVE [P!Next]_(P!vars) OBVIOUS
<1>1. UNCHANGED Seen BY DEF TakeFails, EndsIn, local, faults, Seen, Broken, Hung, IInv,
   TypeOK, Sockets, Programs, Counts, CarrySteps, ForwardSteps, Whole, Unhurried
<1> QED BY <1>1, Unseen

LEMMA ReadSocketMaps == IInv /\ IInv' /\ ReadSocket => [P!Next]_(P!vars)
<1> SUFFICES ASSUME IInv, IInv', ReadSocket PROVE [P!Next]_(P!vars) OBVIOUS
<1>1. UNCHANGED Seen BY DEF ReadSocket, EndsOut, Answers, local, faults, Seen, Broken,
   Hung, IInv, TypeOK, Sockets, Programs, Counts, CarrySteps, ForwardSteps, Whole,
   Unhurried
<1> QED BY <1>1, Unseen

LEMMA SocketEndsMaps == IInv /\ IInv' /\ SocketEnds => [P!Next]_(P!vars)
<1> SUFFICES ASSUME IInv, IInv', SocketEnds PROVE [P!Next]_(P!vars) OBVIOUS
<1>1. UNCHANGED Seen BY DEF SocketEnds, EndsOut, Answers, local, faults, Seen, Broken,
   Hung, IInv, TypeOK, Sockets, Programs, Counts, CarrySteps, ForwardSteps, Whole,
   Unhurried
<1> QED BY <1>1, Unseen

LEMMA RecvCloseMaps == IInv /\ IInv' /\ RecvClose => [P!Next]_(P!vars)
<1> SUFFICES ASSUME IInv, IInv', RecvClose PROVE [P!Next]_(P!vars) OBVIOUS
<1> USE DEF RecvClose, agent, faults, IInv, TypeOK, Sockets, Programs
<1>1. /\ UNCHANGED <<client, server, rsock, lsock.given>> /\ lsock'.eof OBVIOUS
<1>2. CASE Broken' BY <1>1, <1>2, Breaks
<1>3. CASE ~Broken'
  <2>1. ~Broken /\ UNCHANGED Broken
    BY <1>3 DEF CarrySteps, Broken, Hung
  <2>2. lsock.eof \/ (server.at # "open" /\ lsock.given = server.wrote)
    BY <2>1 DEF Counts, CarrySteps, ForwardSteps, Whole, Unhurried, Broken, Hung
  <2>3. CASE lsock.eof
    <3>1. UNCHANGED Seen BY <1>1, <2>1, <2>3 DEF Seen
    <3> QED BY <3>1, Unseen
  <2>4. CASE ~lsock.eof BY <1>1, <2>1, <2>2, <2>4, ResponseEnded
  <2> QED BY <2>3, <2>4
<1> QED BY <1>2, <1>3

LEMMA RecvEndMaps == IInv /\ IInv' /\ RecvEnd => [P!Next]_(P!vars)
<1> SUFFICES ASSUME IInv, IInv', RecvEnd PROVE [P!Next]_(P!vars) OBVIOUS
<1> USE DEF RecvEnd, Alive, Cancel, agent, faults, IInv, TypeOK, Sockets, Programs
<1>1. /\ UNCHANGED <<client, server, rsock, lsock.given>> /\ lsock'.eof OBVIOUS
<1>2. CASE Broken' BY <1>1, <1>2, Breaks
<1>3. CASE ~Broken'
  <2>1. ~Broken /\ UNCHANGED Broken
    BY <1>3 DEF CarrySteps, Broken, Hung
  <2>2. lsock.eof \/ (server.at # "open" /\ lsock.given = server.wrote)
    BY <2>1 DEF Counts, CarrySteps, ForwardSteps, Whole, Unhurried, Broken, Hung
  <2>3. CASE lsock.eof
    <3>1. UNCHANGED Seen BY <1>1, <2>1, <2>3 DEF Seen
    <3> QED BY <3>1, Unseen
  <2>4. CASE ~lsock.eof BY <1>1, <2>1, <2>2, <2>4, ResponseEnded
  <2> QED BY <2>3, <2>4
<1> QED BY <1>2, <1>3

LEMMA CloseLocalMaps == IInv /\ IInv' /\ CloseLocal => [P!Next]_(P!vars)
<1> SUFFICES ASSUME IInv, IInv', CloseLocal PROVE [P!Next]_(P!vars) OBVIOUS
<1> USE DEF CloseLocal, Closed, agent, faults, IInv, TypeOK, Sockets, Programs
<1>1. /\ UNCHANGED <<client, server, rsock, lsock.given>> /\ lsock'.eof OBVIOUS
<1>2. CASE Broken' BY <1>1, <1>2, Breaks
<1>3. CASE ~Broken'
  <2>1. ~Broken /\ UNCHANGED Broken
    BY <1>3 DEF CarrySteps, Broken, Hung
  <2>2. lsock.eof \/ (server.at # "open" /\ lsock.given = server.wrote)
    BY <2>1 DEF Counts, CarrySteps, ForwardSteps, Whole, Unhurried, Broken, Hung
  <2>3. CASE lsock.eof
    <3>1. UNCHANGED Seen BY <1>1, <2>1, <2>3 DEF Seen
    <3> QED BY <3>1, Unseen
  <2>4. CASE ~lsock.eof BY <1>1, <2>1, <2>2, <2>4, ResponseEnded
  <2> QED BY <2>3, <2>4
<1> QED BY <1>2, <1>3

LEMMA OwnerClosesMaps == IInv /\ IInv' /\ OwnerCloses => [P!Next]_(P!vars)
<1> SUFFICES ASSUME IInv, IInv', OwnerCloses PROVE [P!Next]_(P!vars) OBVIOUS
<1> USE DEF OwnerCloses, Closed, agent, faults, IInv, TypeOK, Sockets, Programs
<1>1. /\ UNCHANGED <<client, server, rsock, lsock.given>> /\ lsock'.eof OBVIOUS
<1>2. CASE Broken' BY <1>1, <1>2, Breaks
<1>3. CASE ~Broken'
  <2>1. ~Broken /\ UNCHANGED Broken
    BY <1>3 DEF CarrySteps, Broken, Hung
  <2>2. lsock.eof \/ (server.at # "open" /\ lsock.given = server.wrote)
    BY <2>1 DEF Counts, CarrySteps, ForwardSteps, Whole, Unhurried, Broken, Hung
  <2>3. CASE lsock.eof
    <3>1. UNCHANGED Seen BY <1>1, <2>1, <2>3 DEF Seen
    <3> QED BY <3>1, Unseen
  <2>4. CASE ~lsock.eof BY <1>1, <2>1, <2>2, <2>4, ResponseEnded
  <2> QED BY <2>3, <2>4
<1> QED BY <1>2, <1>3

LEMMA TakeCloseMaps == IInv /\ IInv' /\ TakeClose => [P!Next]_(P!vars)
<1> SUFFICES ASSUME IInv, IInv', TakeClose PROVE [P!Next]_(P!vars) OBVIOUS
<1> USE DEF TakeClose, EndsIn, local, faults, IInv, TypeOK, Sockets, Programs
<1>1. /\ UNCHANGED <<client, server, lsock, rsock.given>> /\ rsock'.eof OBVIOUS
<1>2. CASE Broken' BY <1>1, <1>2, Breaks
<1>3. CASE ~Broken'
  <2>1. ~Broken /\ UNCHANGED Broken
    BY <1>3 DEF CarrySteps, Broken, Hung
  <2>2. rsock.eof \/ (client.at # "open" /\ rsock.given = client.wrote)
    BY <2>1 DEF Counts, CarrySteps, ForwardSteps, Whole, Unhurried, Broken, Hung
  <2>3. CASE rsock.eof
    <3>1. UNCHANGED Seen BY <1>1, <2>1, <2>3 DEF Seen
    <3> QED BY <3>1, Unseen
  <2>4. CASE ~rsock.eof BY <1>1, <2>1, <2>2, <2>4, RequestEnded
  <2> QED BY <2>3, <2>4
<1> QED BY <1>2, <1>3

LEMMA CloseSocketMaps == IInv /\ IInv' /\ CloseSocket => [P!Next]_(P!vars)
<1> SUFFICES ASSUME IInv, IInv', CloseSocket PROVE [P!Next]_(P!vars) OBVIOUS
<1> USE DEF CloseSocket, Closed, local, faults, IInv, TypeOK, Sockets, Programs
<1>1. /\ UNCHANGED <<client, server, lsock, rsock.given>> /\ rsock'.eof OBVIOUS
<1>2. CASE Broken' BY <1>1, <1>2, Breaks
<1>3. CASE ~Broken'
  <2>1. ~Broken /\ UNCHANGED Broken
    BY <1>3 DEF CarrySteps, Broken, Hung
  <2>2. rsock.eof \/ (client.at # "open" /\ rsock.given = client.wrote)
    BY <2>1 DEF Counts, CarrySteps, ForwardSteps, Whole, Unhurried, Broken, Hung
  <2>3. CASE rsock.eof
    <3>1. UNCHANGED Seen BY <1>1, <2>1, <2>3 DEF Seen
    <3> QED BY <3>1, Unseen
  <2>4. CASE ~rsock.eof BY <1>1, <2>1, <2>2, <2>4, RequestEnded
  <2> QED BY <2>3, <2>4
<1> QED BY <1>2, <1>3

LEMMA FinishMaps == IInv /\ IInv' /\ Finish => [P!Next]_(P!vars)
<1> SUFFICES ASSUME IInv, IInv', Finish PROVE [P!Next]_(P!vars) OBVIOUS
<1> USE DEF Finish, Closed, Answers, local, faults, IInv, TypeOK, Sockets, Programs
<1>1. /\ UNCHANGED <<client, server, lsock, rsock.given>> /\ rsock'.eof OBVIOUS
<1>2. CASE Broken' BY <1>1, <1>2, Breaks
<1>3. CASE ~Broken'
  <2>1. ~Broken /\ UNCHANGED Broken
    BY <1>3 DEF CarrySteps, Broken, Hung
  <2>2. rsock.eof \/ (client.at # "open" /\ rsock.given = client.wrote)
    BY <2>1 DEF Counts, CarrySteps, ForwardSteps, Whole, Unhurried, Broken, Hung
  <2>3. CASE rsock.eof
    <3>1. UNCHANGED Seen BY <1>1, <2>1, <2>3 DEF Seen
    <3> QED BY <3>1, Unseen
  <2>4. CASE ~rsock.eof BY <1>1, <2>1, <2>2, <2>4, RequestEnded
  <2> QED BY <2>3, <2>4
<1> QED BY <1>2, <1>3

LEMMA RecvDataMaps == IInv /\ IInv' /\ RecvData => [P!Next]_(P!vars)
<1> SUFFICES ASSUME IInv, IInv', RecvData PROVE [P!Next]_(P!vars) OBVIOUS
<1> USE DEF RecvData, Cancel, Hung, Writable, WriteFails, agent, faults, IInv, TypeOK,
   Sockets, Programs
<1>1. /\ UNCHANGED <<client, server, rsock, carry, teardown, lost>>
      /\ pumps.up = "none" <=> pumps'.up = "none"
  OBVIOUS
<1>2. UNCHANGED Broken BY <1>1 DEF Broken
<1>3. CASE UNCHANGED lsock
  <2>1. UNCHANGED Seen BY <1>1, <1>2, <1>3 DEF Seen
  <2> QED BY <2>1, Unseen
<1>4. CASE lsock' # lsock
  <2>1. ~lsock.eof /\ lsock'.given = lsock.given + 1 /\ UNCHANGED lsock.eof BY <1>4
  <2>2. lsock.given < server.wrote BY DEF Counts
  <2> QED BY <1>1, <1>2, <2>1, <2>2, ResponseGot
<1> QED BY <1>3, <1>4

LEMMA TakeDataMaps == IInv /\ IInv' /\ TakeData => [P!Next]_(P!vars)
<1> SUFFICES ASSUME IInv, IInv', TakeData PROVE [P!Next]_(P!vars) OBVIOUS
<1> USE DEF TakeData, Hung, Writable, WriteFails, EndsIn, local, faults, IInv, TypeOK,
   Sockets, Programs
<1>1. /\ UNCHANGED <<client, server, lsock, carry, teardown, lost>>
      /\ pumps.up = "none" <=> pumps'.up = "none"
  OBVIOUS
<1>2. UNCHANGED Broken BY <1>1 DEF Broken
<1>3. CASE UNCHANGED rsock
  <2>1. UNCHANGED Seen BY <1>1, <1>2, <1>3 DEF Seen
  <2> QED BY <2>1, Unseen
<1>4. CASE rsock' # rsock
  <2>1. ~rsock.eof /\ rsock'.given = rsock.given + 1 /\ UNCHANGED rsock.eof BY <1>4
  <2>2. rsock.given < client.wrote BY DEF Counts
  <2> QED BY <1>1, <1>2, <2>1, <2>2, RequestGot
<1> QED BY <1>3, <1>4

LEMMA TeardownMaps == IInv /\ IInv' /\ Teardown => [P!Next]_(P!vars)
<1> SUFFICES ASSUME IInv, IInv', Teardown PROVE [P!Next]_(P!vars) OBVIOUS
<1>1. Broken' BY DEF Teardown, Broken
<1>2. UNCHANGED <<client, server, lsock, rsock>> BY DEF Teardown, agent, local
<1> QED BY <1>1, <1>2, Breaks DEF IInv

LEMMA LoseMaps == IInv /\ IInv' /\ Lose => [P!Next]_(P!vars)
<1> SUFFICES ASSUME IInv, IInv', Lose PROVE [P!Next]_(P!vars) OBVIOUS
<1>1. Broken' BY DEF Lose, Broken
<1>2. UNCHANGED <<client, server, lsock, rsock.given>> /\ (rsock.eof => rsock'.eof)
  BY DEF Lose, local, agent, Closed, IInv, TypeOK, Sockets
<1> QED BY <1>1, <1>2, Breaks DEF IInv

LEMMA ClientMovesMaps == IInv /\ IInv' /\ ClientMoves => [P!Next]_(P!vars)
<1> SUFFICES ASSUME IInv, IInv', ClientMoves PROVE [P!Next]_(P!vars) OBVIOUS
<1> USE DEF ClientMoves, Hung, Moves, local, agent, faults, IInv, TypeOK, Sockets, Programs
<1>1. UNCHANGED <<server, lsock, rsock, carry, pumps, teardown, lost>> OBVIOUS
<1>2. CASE client.at = "open" /\ client' = [client EXCEPT !.wrote = @ + 1]
  <2>1. UNCHANGED Broken BY <1>1, <1>2 DEF Broken
  <2>2. client'.at = client.at /\ client'.wrote = client.wrote + 1 BY <1>2
  <2> QED BY <1>1, <1>2, <2>1, <2>2, Writes
<1>3. CASE client.at = "open" /\ client' = [client EXCEPT !.at = "half"]
  <2>1. UNCHANGED Broken BY <1>1, <1>3 DEF Broken
  <2>2. client'.at # "open" /\ client'.wrote = client.wrote BY <1>3
  <2> QED BY <1>1, <2>1, <2>2, ClientEnds
<1>4. CASE \E at \in {"gone", "reset"} : client' = [client EXCEPT !.at = at]
  <2>1. client'.at \in {"gone", "reset"} /\ client'.wrote = client.wrote BY <1>4
  <2>2. Broken' BY <2>1 DEF Broken
  <2> QED BY <1>1, <2>1, <2>2, Breaks
<1> QED BY <1>2, <1>3, <1>4

LEMMA ServerMovesMaps == IInv /\ IInv' /\ ServerMoves => [P!Next]_(P!vars)
<1> SUFFICES ASSUME IInv, IInv', ServerMoves PROVE [P!Next]_(P!vars) OBVIOUS
<1> USE DEF ServerMoves, Hung, Moves, local, agent, faults, IInv, TypeOK, Sockets, Programs
<1>1. UNCHANGED <<client, lsock, rsock, carry, pumps, teardown, lost>> OBVIOUS
<1>2. CASE server.at = "open" /\ server' = [server EXCEPT !.wrote = @ + 1]
  <2>1. UNCHANGED Broken BY <1>1, <1>2 DEF Broken
  <2>2. server'.at = server.at /\ server'.wrote = server.wrote + 1 BY <1>2
  <2> QED BY <1>1, <1>2, <2>1, <2>2, Responds
<1>3. CASE server.at = "open" /\ server' = [server EXCEPT !.at = "half"]
  <2>1. UNCHANGED Broken BY <1>1, <1>3 DEF Broken
  <2>2. server'.at # "open" /\ server'.wrote = server.wrote BY <1>3
  <2> QED BY <1>1, <2>1, <2>2, ServerEnds
<1>4. CASE \E at \in {"gone", "reset"} : server' = [server EXCEPT !.at = at]
  <2>1. server'.at \in {"gone", "reset"} /\ server'.wrote = server.wrote BY <1>4
  <2>2. Broken' BY <2>1 DEF Broken
  <2> QED BY <1>1, <2>1, <2>2, Breaks
<1> QED BY <1>2, <1>3, <1>4

LEMMA StepMaps == IInv /\ IInv' /\ [Next]_vars => [P!Next]_(P!vars)
<1> SUFFICES ASSUME IInv, IInv', [Next]_vars PROVE [P!Next]_(P!vars) OBVIOUS
<1>1. CASE Opening \/ UpPump \/ DownPump
  BY <1>1, OpenStreamMaps, RecvOpenedMaps, ReadLocalMaps, LocalEndsMaps, LocalFailsMaps,
     RecvDataMaps, RecvCloseMaps, RecvEndMaps DEF Opening, UpPump, DownPump
<1>2. CASE Join \/ Leave \/ CloseLocal \/ OwnerCloses
  BY <1>2, JoinMaps, LeaveMaps, CloseLocalMaps, OwnerClosesMaps
<1>3. CASE Notice \/ Admit \/ Dial \/ InPump \/ OutPump \/ CloseSocket \/ Finish
  BY <1>3, NoticeMaps, AdmitMaps, DialMaps, TakeDataMaps, TakeCloseMaps, TakeFailsMaps,
     ReadSocketMaps, SocketEndsMaps, CloseSocketMaps, FinishMaps DEF InPump, OutPump
<1>4. CASE ClientMoves \/ ServerMoves \/ Teardown \/ Lose
  BY <1>4, ClientMovesMaps, ServerMovesMaps, TeardownMaps, LoseMaps
<1>5. CASE UNCHANGED vars
  <2>1. UNCHANGED Seen BY <1>5 DEF vars, local, agent, faults, Seen, Broken, Hung
  <2> QED BY <2>1, Unseen
<1> QED BY <1>1, <1>2, <1>3, <1>4, <1>5 DEF Next

\* A forwarded connection is a Pipe: as long as nothing breaks, what is written at an
\* end comes out at the other, all of it and before the end.
THEOREM TunnelIsPipe == Spec => PipeSpec
<1>1. ASSUME Init PROVE P!Init
  <2>1. client.at = "open" /\ server.at = "open" /\ carry = "start" /\ ~teardown /\ ~lost
    BY <1>1 DEF Init
  <2>2. Broken = FALSE BY <2>1 DEF Broken, Hung
  <2>3. Both(client.at # "open", server.at # "open") = [d \in P!Directions |-> FALSE]
    BY <2>1 DEF Both, P!Directions
  <2>4. Both(rsock.eof, lsock.eof) = [d \in P!Directions |-> FALSE]
    BY <1>1 DEF Init, Both, P!Directions
  <2>5. /\ Both(client.wrote, server.wrote) = [d \in P!Directions |-> 0]
        /\ Both(rsock.given, lsock.given) = [d \in P!Directions |-> 0]
    BY <1>1 DEF Init, Both, P!Directions
  <2> QED BY <2>2, <2>3, <2>4, <2>5 DEF P!Init
<1> QED BY <1>1, StepMaps, Invariance, PTL DEF Spec, PipeSpec, P!Spec

=============================================================================
