----------------------------- MODULE CARotation -----------------------------
(***************************************************************************)
(* Rotating the fleet's certificate authority: stage a new root, activate  *)
(* it, retire the old ones (src/internal/security/ca/rotate.go), as steps  *)
(* on the files of the CA directory that a crash can fall between, and     *)
(* against the hosts and the control plane that hold copies of what the    *)
(* directory said when they last looked.                                   *)
(*                                                                         *)
(* A key pair is a number; a file holds the number of the pair its key or  *)
(* certificate is from.  A write of a file is atomic (fsutil.WriteAtomic). *)
(***************************************************************************)
EXTENDS Naturals

CONSTANTS
  Hosts,      \* enrolled agents
  Operators,  \* fleetctl processes that may run a command at the same time: at
              \* most one, as nothing in the code keeps two from interleaving
  MaxRoots    \* bound: CA key pairs ever generated

None  == 0
Roots == 1 .. MaxRoots

ASSUME RotationAssumption ==
  MaxRoots \in Nat \ {0} /\ \A p, q \in Operators : p = q

VARIABLES
  key,       \* ca.key
  bundle,    \* ca.crt: the issuer first, then the other trusted roots
  nextKey,   \* ca-next.key, or None
  nextCert,  \* ca-next.crt, or None
  made,      \* key pairs generated so far
  cmd,       \* cmd[p]: the command p runs, and what it is about to write
  leaf,      \* leaf[h]: the root that signed what host h presents
  trust,     \* trust[h]: the roots in the bundle of host h
  control,   \* what the control plane presents and trusts
  served     \* what a running enrollment endpoint loaded at startup

files == <<key, bundle, nextKey, nextCert>>
fleet == <<leaf, trust, control, served>>
vars  == <<files, made, cmd, fleet>>

Idle == [pc |-> "idle", root |-> None, issuer |-> None, rest |-> {}]
NotServing == [issuer |-> None, roots |-> {}]

Init ==
  /\ key = 1 /\ bundle = [issuer |-> 1, rest |-> {}]
  /\ nextKey = None /\ nextCert = None /\ made = 1
  /\ cmd = [p \in Operators |-> Idle]
  /\ leaf = [h \in Hosts |-> 1] /\ trust = [h \in Hosts |-> {1}]
  /\ control = [leaf |-> 1, trust |-> {1}]
  /\ served = NotServing

-----------------------------------------------------------------------------
(* What a command reads. *)

Trusted == {bundle.issuer} \cup bundle.rest

\* Load: the signing key has to belong to the certificate beside it.
Loadable == key = bundle.issuer

\* classify: a staged certificate the bundle does not hold is an interrupted
\* stage, and an error whatever the command.
Staging    == nextCert # None
Classified == Staging => nextCert \in Trusted
Superseded == bundle.rest \ {nextCert}

CanStage    == Loadable /\ Classified /\ ~Staging
\* Activate reads the bundle and not the key it is about to replace, but checks
\* the key it promotes.
CanActivate == Classified /\ Staging /\ nextKey = nextCert
CanRetire   == Loadable /\ Classified /\ ~Staging /\ Superseded # {}

-----------------------------------------------------------------------------
(* The commands, one file at a time. *)

Running(p, pc) == cmd[p].pc = pc
Quiescent == \A p \in Operators : Running(p, "idle")

Begin(p, pc, root, issuer, rest) ==
  /\ Running(p, "idle")
  /\ cmd' = [cmd EXCEPT ![p] = [pc |-> pc, root |-> root, issuer |-> issuer,
                                rest |-> rest]]
Step(p, from, to) == Running(p, from) /\ cmd' = [cmd EXCEPT ![p].pc = to]
Done(p, from)     == Running(p, from) /\ cmd' = [cmd EXCEPT ![p] = Idle]

\* The operator stops the enrollment endpoint before rotating.
Stage(p) ==
  /\ served = NotServing
  /\ CanStage /\ made < MaxRoots
  /\ made' = made + 1
  /\ Begin(p, "stage key", made + 1, bundle.issuer, bundle.rest \cup {made + 1})
  /\ UNCHANGED <<files, fleet>>

StageKey(p) ==
  /\ Step(p, "stage key", "stage cert") /\ nextKey' = cmd[p].root
  /\ UNCHANGED <<key, bundle, nextCert, made, fleet>>

StageCert(p) ==
  /\ Step(p, "stage cert", "stage bundle") /\ nextCert' = cmd[p].root
  /\ UNCHANGED <<key, bundle, nextKey, made, fleet>>

WriteBundle(p) == bundle' = [issuer |-> cmd[p].issuer, rest |-> cmd[p].rest]

StageBundle(p) ==
  /\ Done(p, "stage bundle") /\ WriteBundle(p)
  /\ UNCHANGED <<key, nextKey, nextCert, made, fleet>>

\* Mutants: the superseded roots, or the outgoing issuer, are forgotten.
PromotedOnly == {bundle.issuer} \ {nextCert}
Outlawed == Superseded \ {nextCert}
Demoted == ({bundle.issuer} \cup Superseded) \ {nextCert}

\* The operator has taken the widened bundle to everything first.
Activate(p) ==
  /\ served = NotServing
  /\ \A h \in Hosts : nextCert \in trust[h]
  /\ nextCert \in control.trust
  /\ CanActivate
  /\ Begin(p, "key", nextKey, nextCert, Demoted)
  /\ UNCHANGED <<files, made, fleet>>

ActivateKey(p) ==
  /\ Step(p, "key", "bundle") /\ key' = cmd[p].root
  /\ UNCHANGED <<bundle, nextKey, nextCert, made, fleet>>

\* Mutant: the staged files go before the bundle is written.
ActivateBundleLate(p) ==
  /\ Step(p, "bundle", "drop cert") /\ nextKey' = None
  /\ UNCHANGED <<key, bundle, nextCert, made, fleet>>
ActivateBundle(p) ==
  /\ Step(p, "bundle", "drop key") /\ WriteBundle(p)
  /\ UNCHANGED <<key, nextKey, nextCert, made, fleet>>

\* discardStaged: the key file, then the certificate.
DropKey(p) ==
  /\ Step(p, "drop key", "drop cert") /\ nextKey' = None
  /\ UNCHANGED <<key, bundle, nextCert, made, fleet>>

DropCert(p) ==
  /\ Done(p, "drop cert") /\ nextCert' = None
  /\ UNCHANGED <<key, bundle, nextKey, made, fleet>>

\* The operator has had every leaf issued again first.
Retire(p) ==
  /\ served = NotServing
  /\ \A h \in Hosts : leaf[h] = bundle.issuer
  /\ control.leaf = bundle.issuer
  /\ CanRetire
  /\ Begin(p, "retire", None, bundle.issuer, {})
  /\ UNCHANGED <<files, made, fleet>>

RetireBundle(p) ==
  /\ Done(p, "retire") /\ WriteBundle(p)
  /\ UNCHANGED <<key, nextKey, nextCert, made, fleet>>

\* A crash, a ^C or a write that fails: the files stay as they are.
Interrupt(p) ==
  /\ ~Running(p, "idle")
  /\ cmd' = [cmd EXCEPT ![p] = Idle]
  /\ UNCHANGED <<files, made, fleet>>

-----------------------------------------------------------------------------
(* The fleet. *)

\* ca.crt is copied to a host, whose agent is restarted.
Distribute(h) ==
  /\ trust' = [trust EXCEPT ![h] = Trusted]
  /\ UNCHANGED <<files, made, cmd, leaf, control, served>>

\* fleet-mcp is restarted.
RestartControl ==
  /\ control' = [control EXCEPT !.trust = Trusted]
  /\ UNCHANGED <<files, made, cmd, leaf, trust, served>>

\* ca sign: the issuer signs, if the directory loads.
SignHost(h) ==
  /\ Loadable
  /\ leaf' = [leaf EXCEPT ![h] = key]
  /\ UNCHANGED <<files, made, cmd, trust, control, served>>

SignControl ==
  /\ Loadable
  /\ control' = [leaf |-> key, trust |-> Trusted]
  /\ UNCHANGED <<files, made, cmd, leaf, trust, served>>

\* fleetctl serve loads the CA once.
StartServe ==
  /\ served = NotServing /\ Loadable
  /\ served' = [issuer |-> key, roots |-> Trusted]
  /\ UNCHANGED <<files, made, cmd, leaf, trust, control>>

StopServe ==
  /\ served # NotServing
  /\ served' = NotServing
  /\ UNCHANGED <<files, made, cmd, leaf, trust, control>>

Enroll(h) ==
  /\ served # NotServing
  /\ leaf' = [leaf EXCEPT ![h] = served.issuer]
  /\ trust' = [trust EXCEPT ![h] = served.roots]
  /\ UNCHANGED <<files, made, cmd, control, served>>

\* What the commands advise when they find a staged CA: delete the two files.
Discard ==
  /\ Quiescent /\ Loadable /\ Staging
  /\ nextKey' = None /\ nextCert' = None
  /\ UNCHANGED <<key, bundle, made, cmd, fleet>>

Command(p) ==
  \/ Stage(p) \/ StageKey(p) \/ StageCert(p) \/ StageBundle(p)
  \/ Activate(p) \/ ActivateKey(p) \/ ActivateBundle(p) \/ DropKey(p) \/ DropCert(p)
  \/ Retire(p) \/ RetireBundle(p)

Next ==
  \/ \E p \in Operators : Command(p) \/ Interrupt(p)
  \/ \E h \in Hosts : Distribute(h) \/ SignHost(h) \/ Enroll(h)
  \/ RestartControl \/ SignControl \/ StartServe \/ StopServe \/ Discard

Spec == Init /\ [][Next]_vars

-----------------------------------------------------------------------------
(* Properties. *)

Commands == [pc : {"idle", "stage key", "stage cert", "stage bundle", "key", "bundle",
                   "drop key", "drop cert", "retire"},
             root : Roots \cup {None}, issuer : Roots \cup {None}, rest : SUBSET Roots]

TypeOK ==
  /\ key \in Roots
  /\ bundle \in [issuer : Roots, rest : SUBSET Roots]
  /\ nextKey \in Roots \cup {None} /\ nextCert \in Roots \cup {None}
  /\ made \in Roots
  /\ cmd \in [Operators -> Commands]
  /\ leaf \in [Hosts -> Roots] /\ trust \in [Hosts -> SUBSET Roots]
  /\ control \in [leaf : Roots, trust : SUBSET Roots]
  /\ served \in [issuer : Roots \cup {None}, roots : SUBSET Roots]

\* The point of the three steps (rotate.go): the control plane accepts every
\* host's certificate and every host accepts the control plane's, through any
\* number of rotations and whichever steps were interrupted.
MutualTrust ==
  \A h \in Hosts : leaf[h] \in control.trust /\ control.leaf \in trust[h]

\* An interrupted command never costs the CA its identity: the directory loads,
\* or running the activation again makes it whole (Activate's order of writes).
Recoverable == Quiescent => Loadable \/ CanActivate

\* Only a retirement narrows what the fleet accepts: staging, activating and
\* interrupting either keep every root in ca.crt that was there.
OnlyRetireNarrows ==
  [][Trusted \subseteq Trusted' \/ \E p \in Operators : Running(p, "retire")]_vars
=============================================================================
