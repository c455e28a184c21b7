----------------------------- MODULE PathMutex ------------------------------
(***************************************************************************)
(* What the per-path locks of the file service promise to the requests     *)
(* that use them (src/internal/agent/fs/locks.go): a path is held by one   *)
(* request at a time.                                                      *)
(***************************************************************************)
CONSTANTS
  Clients,     \* requests that may be in flight
  Paths        \* paths, as lockKey spells them

VARIABLE held  \* held[c]: the paths whose lock c has

MutexInit == held = [c \in Clients |-> {}]

Free(p) == \A c \in Clients : p \notin held[c]

Take(c, p) == Free(p) /\ held' = [held EXCEPT ![c] = @ \cup {p}]
Give(c, p) == p \in held[c] /\ held' = [held EXCEPT ![c] = @ \ {p}]

MutexNext == \E c \in Clients, p \in Paths : Take(c, p) \/ Give(c, p)

MutexSpec == MutexInit /\ [][MutexNext]_held
=============================================================================
