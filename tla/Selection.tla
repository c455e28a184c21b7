------------------------------ MODULE Selection ------------------------------
(***************************************************************************)
(* The sticky selections: which sandbox a client's calls go to when they   *)
(* name none (src/internal/mcpserver/selection/selection.go), kept in the  *)
(* registry file beside the sandboxes they name                            *)
(* (src/internal/registry/store.go), against registrations and removals    *)
(* from fleet-mcp and fleetctl.                                            *)
(*                                                                         *)
(* Every access to the registry file is one locked step; a selection and a *)
(* removal are several of them.                                            *)
(***************************************************************************)
CONSTANTS
  Names,         \* sandbox names
  Clients,       \* identities that may hold a selection
  Unidentified,  \* of those, the ones held in the memory of fleet-mcp
  Removers,      \* processes removing a sandbox
  InServer,      \* of those, the ones running in fleet-mcp (fleet_remove)
  NoName         \* not a sandbox's name

VARIABLES
  members,   \* the registered sandboxes
  selected,  \* selected[c]: the sticky selection of client c, or NoName
  select,    \* select[c]: the member a Select of client c has looked up
  removal    \* removal[r]: where a removal is, and of what

vars == <<members, selected, select, removal>>

Idle == [pc |-> "idle", name |-> NoName]

Init ==
  /\ members = {}
  /\ selected = [c \in Clients |-> NoName] /\ select = [c \in Clients |-> NoName]
  /\ removal = [r \in Removers |-> Idle]

\* fleetctl add, fleet_add and an enrollment.
Add(n) ==
  /\ n \notin members
  /\ members' = members \cup {n}
  /\ UNCHANGED <<selected, select, removal>>

\* Resolver.Select: the name is looked up, then recorded for the client.
Lookup(c) ==
  /\ select[c] = NoName
  /\ \E n \in members : select' = [select EXCEPT ![c] = n]
  /\ UNCHANGED <<members, selected, removal>>

SetSelection(c) ==
  /\ select[c] # NoName
  /\ selected' = [selected EXCEPT ![c] = select[c]]
  /\ select' = [select EXCEPT ![c] = NoName]
  /\ UNCHANGED <<members, removal>>

-----------------------------------------------------------------------------
(* Removal: the selections that point at the sandbox are cleared, the      *)
(* unidentified client's first and only from inside the server, then it is *)
(* deleted.                                                                *)

To(r, pc) == removal' = [removal EXCEPT ![r].pc = pc]
Done(r)   == removal' = [removal EXCEPT ![r] = Idle]

LookupRemoved(r) ==
  /\ removal[r].pc = "idle"
  /\ \E n \in members :
       removal' = [removal EXCEPT ![r] =
                     [pc |-> IF r \in InServer THEN "clear memory" ELSE "clear", name |-> n]]
  /\ UNCHANGED <<members, selected, select>>

Unselect(n, C) ==
  selected' = [c \in Clients |-> IF c \in C /\ selected[c] = n THEN NoName ELSE selected[c]]

ClearMemory(r) ==
  /\ removal[r].pc = "clear memory" /\ To(r, "clear")
  /\ Unselect(removal[r].name, Unidentified)
  /\ UNCHANGED <<members, select>>

ClearSelectionsFor(r) ==
  /\ removal[r].pc = "clear" /\ To(r, "remove")
  /\ Unselect(removal[r].name, Clients \ Unidentified)
  /\ UNCHANGED <<members, select>>

\* A name that is gone already is ErrNotFound, and changes nothing.
Remove(r) ==
  /\ removal[r].pc = "remove" /\ Done(r)
  /\ members' = members \ {removal[r].name}
  /\ UNCHANGED <<selected, select>>

\* The process ends between two of the steps, or the file fails it.
Abandon(r) ==
  /\ removal[r].pc # "idle" /\ Done(r)
  /\ UNCHANGED <<members, selected, select>>

Withdraw(r) ==
  LookupRemoved(r) \/ ClearMemory(r) \/ ClearSelectionsFor(r) \/ Remove(r) \/ Abandon(r)

Next ==
  \/ \E n \in Names : Add(n)
  \/ \E c \in Clients : Lookup(c) \/ SetSelection(c)
  \/ \E r \in Removers : Withdraw(r)

Spec == Init /\ [][Next]_vars

\* tools/fleet.go on a removal: selections are cleared first, "so no window exists
\* in which a selection points at something that is gone".
NoneDangling == \A c \in Clients : selected[c] # NoName => selected[c] \in members
=============================================================================
