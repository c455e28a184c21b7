-------------------------- MODULE CARotationProofs --------------------------
(***************************************************************************)
(* A rotation keeps the fleet in contact and the CA directory repairable,  *)
(* for any number of hosts and of rotations.                               *)
(*                                                                         *)
(* The argument.  The key that signs is, at every moment, one that every   *)
(* bundle in use holds (Vouched): staging only adds a root, and the key    *)
(* becomes the staged one only after everybody has the widened bundle,     *)
(* which no later copy of ca.crt takes away (the phase "key").  Rewriting  *)
(* the bundle on activation is a reordering, and on retirement it drops    *)
(* roots nobody presents any more (the phase "retire").                    *)
(***************************************************************************)
EXTENDS CARotation, TLAPS

Serving == served # NotServing

\* Every certificate presented is from a root of ca.crt, and so is the key that
\* signs the next; every bundle in use accepts what that key signs.
Vouched ==
  /\ key \in Trusted /\ key \in control.trust /\ \A h \in Hosts : key \in trust[h]
  /\ control.leaf \in Trusted /\ \A h \in Hosts : leaf[h] \in Trusted

\* What the enrollment endpoint hands out is accepted too.
ServesVouched ==
  Serving => /\ served.issuer \in Trusted /\ served.issuer \in control.trust
             /\ key \in served.roots /\ control.leaf \in served.roots

\* The directory loads, or an activation was cut short that can be run again.
Whole == Loadable \/ (CanActivate /\ key = nextCert)

\* The staged root is everywhere.
Everywhere(r) ==
  /\ r \in Trusted /\ r \in control.trust /\ \A h \in Hosts : r \in trust[h]
  /\ Serving => r \in served.roots

\* What a command may rely on at each of its writes.
StagePhase(p) ==
  cmd[p].pc \in {"stage key", "stage cert", "stage bundle"} =>
    Loadable /\ cmd[p].issuer = bundle.issuer /\ bundle.rest \subseteq cmd[p].rest
ActivatePhase(p) ==
  cmd[p].pc \in {"key", "bundle"} =>
    /\ cmd[p].root = nextKey /\ cmd[p].root = nextCert /\ cmd[p].issuer = cmd[p].root
    /\ cmd[p].root # None /\ cmd[p].rest = Demoted /\ Everywhere(cmd[p].root)
    /\ cmd[p].pc = "bundle" => key = cmd[p].root
DropPhase(p) == cmd[p].pc \in {"drop key", "drop cert"} => Loadable
RetirePhase(p) ==
  cmd[p].pc = "retire" =>
    /\ Loadable /\ cmd[p].issuer = bundle.issuer /\ cmd[p].rest = {}
    /\ control.leaf = key /\ \A h \in Hosts : leaf[h] = key
    /\ Serving => served.issuer = key
Phases ==
  \A p \in Operators : StagePhase(p) /\ ActivatePhase(p) /\ DropPhase(p) /\ RetirePhase(p)

IInv == TypeOK /\ MutualTrust /\ Vouched /\ ServesVouched /\ Whole /\ Phases

-----------------------------------------------------------------------------

LEMMA InitInv == Init => IInv
<1> SUFFICES ASSUME Init PROVE IInv
  OBVIOUS
<1> USE RotationAssumption DEF Init
<1>1. TypeOK
  BY DEF TypeOK, Roots, None, Idle, NotServing, Commands
<1>2. bundle.issuer = 1 /\ Trusted = {1} /\ control.leaf = 1 /\ control.trust = {1}
      /\ \A h \in Hosts : leaf[h] = 1 /\ trust[h] = {1}
  BY DEF Trusted
<1>3. MutualTrust /\ Vouched /\ ServesVouched /\ Whole
  <2>1. MutualTrust
    BY <1>2 DEF MutualTrust
  <2>2. Vouched
    BY <1>2 DEF Vouched
  <2>3. ServesVouched
    BY DEF ServesVouched, Serving
  <2>5. Loadable
    BY <1>2 DEF Loadable
  <2>4. Whole
    BY <2>5 DEF Whole
  <2> QED
    BY <2>1, <2>2, <2>3, <2>4
<1>4. Phases
  BY DEF Phases, StagePhase, ActivatePhase, DropPhase, RetirePhase, Idle
<1> QED
  BY <1>1, <1>3, <1>4 DEF IInv

\* There is one command at a time, so a step of one is about that one.
LEMMA OnePhase ==
  ASSUME NEW p \in Operators,
         StagePhase(p)', ActivatePhase(p)', DropPhase(p)', RetirePhase(p)'
  PROVE  Phases'
  BY RotationAssumption DEF Phases

\* Contact depends on ca.crt, the key and the copies only.
LEMMA ContactSame ==
  ASSUME IInv, Trusted' = Trusted, UNCHANGED <<key, leaf, trust, control, served>>
  PROVE  MutualTrust' /\ Vouched' /\ ServesVouched'
<1>1. MutualTrust'
  BY DEF IInv, MutualTrust
<1>2. Vouched'
  BY DEF IInv, Vouched
<1>3. ServesVouched'
  BY DEF IInv, ServesVouched, Serving
<1> QED
  BY <1>1, <1>2, <1>3

\* A command on record is of its type.
LEMMA CommandTyped ==
  ASSUME TypeOK, NEW p \in Operators
  PROVE  /\ cmd[p].root \in Roots \cup {None} /\ cmd[p].issuer \in Roots \cup {None}
         /\ cmd[p].rest \subseteq Roots
  BY DEF TypeOK, Commands

\* A command that moves on is still a command.
LEMMA StepTyped ==
  ASSUME TypeOK, NEW p \in Operators, NEW from, NEW to, Step(p, from, to),
         to \in {"stage cert", "stage bundle", "bundle", "drop key", "drop cert"}
  PROVE  cmd' \in [Operators -> Commands] /\ cmd'[p].pc = to
<1> DEFINE k == [cmd[p] EXCEPT !.pc = to]
<1>1. cmd \in [Operators -> Commands] /\ cmd[p] \in Commands
  BY DEF TypeOK
<1>2. k \in Commands /\ k.pc = to
  BY <1>1 DEF Commands
<1>3. cmd' = [cmd EXCEPT ![p] = k]
  BY <1>1 DEF Step
<1> HIDE DEF k
<1> QED
  BY <1>1, <1>2, <1>3

-----------------------------------------------------------------------------
(* Staging. *)

LEMMA StageKeeps == ASSUME IInv, NEW p \in Operators, Stage(p) PROVE IInv'
<1>8. made \in Roots /\ made < MaxRoots /\ made' = made + 1
  BY DEF IInv, TypeOK, Stage
<1> USE RotationAssumption DEF IInv, Stage, Begin, Running, files, fleet
<1>1. made' \in Roots /\ bundle.issuer \in Roots /\ bundle.rest \cup {made'} \subseteq Roots
  <2>1. made' \in Roots
    BY ONLY <1>8, RotationAssumption DEF Roots
  <2> QED
    BY <2>1 DEF TypeOK
<1>6. cmd' \in [Operators -> Commands]
  BY <1>1 DEF TypeOK, Commands
<1>2. TypeOK'
  BY <1>1, <1>6 DEF TypeOK
<1>3. MutualTrust' /\ Vouched' /\ ServesVouched' /\ Whole'
  BY DEF MutualTrust, Vouched, ServesVouched, Serving, Whole, Trusted, Loadable, CanActivate,
         Classified, Staging
<1>4. /\ cmd'[p].pc = "stage key" /\ cmd'[p].issuer = bundle.issuer
      /\ bundle.rest \subseteq cmd'[p].rest
  BY DEF TypeOK
<1>5. Phases'
  BY <1>4, OnePhase
  DEF CanStage, Loadable, StagePhase, ActivatePhase, DropPhase, RetirePhase
<1> QED
  BY <1>2, <1>3, <1>5

\* The two files a stage writes first are not read until the bundle holds the root.
LEMMA StageFilesKeep ==
  ASSUME IInv, NEW p \in Operators, StageKey(p) \/ StageCert(p) PROVE IInv'
<1>1. /\ UNCHANGED <<key, bundle, made, leaf, trust, control, served>>
      /\ cmd[p].pc \in {"stage key", "stage cert"}
  BY DEF StageKey, StageCert, Step, Running, fleet
<1>2. \E to \in {"stage cert", "stage bundle"} : cmd' = [cmd EXCEPT ![p].pc = to]
  BY DEF StageKey, StageCert, Step
<1>3. cmd[p].root \in Roots \cup {None} /\ nextKey' \in Roots \cup {None}
      /\ nextCert' \in Roots \cup {None}
  BY DEF StageKey, StageCert, IInv, TypeOK, Commands
<1>4. /\ cmd'[p].pc \in {"stage cert", "stage bundle"} /\ cmd'[p].issuer = cmd[p].issuer
      /\ cmd'[p].rest = cmd[p].rest
      /\ cmd' \in [Operators -> Commands]
  <2>1. PICK to \in {"stage cert", "stage bundle"} : cmd' = [cmd EXCEPT ![p].pc = to]
    BY <1>2
  <2>2. cmd \in [Operators -> Commands]
    BY DEF IInv, TypeOK
  <2> QED
    BY <2>1, <2>2 DEF Commands
<1>5. Loadable /\ cmd[p].issuer = bundle.issuer /\ bundle.rest \subseteq cmd[p].rest
  BY <1>1 DEF IInv, Phases, StagePhase
<1>6. TypeOK'
  BY <1>1, <1>3, <1>4 DEF IInv, TypeOK
<1>7. MutualTrust' /\ Vouched' /\ ServesVouched' /\ Whole'
  <2>1. Trusted' = Trusted
    BY <1>1 DEF Trusted
  <2>2. Loadable'
    BY <1>1, <1>5 DEF Loadable
  <2>3. Whole'
    BY <2>2 DEF Whole
  <2> QED
    BY <1>1, <2>1, <2>3, ContactSame
<1>8. Phases'
  BY <1>1, <1>4, <1>5, OnePhase
  DEF Loadable, StagePhase, ActivatePhase, DropPhase, RetirePhase
<1> QED
  BY <1>6, <1>7, <1>8 DEF IInv

\* The bundle is widened.
LEMMA StageBundleKeeps ==
  ASSUME IInv, NEW p \in Operators, StageBundle(p)
  PROVE  IInv' /\ Trusted \subseteq Trusted'
<1> USE RotationAssumption DEF IInv, StageBundle, Done, Running, fleet
<1>1. Loadable /\ cmd[p].issuer = bundle.issuer /\ bundle.rest \subseteq cmd[p].rest
  BY DEF Phases, StagePhase
<1>2. bundle'.issuer = bundle.issuer /\ bundle.rest \subseteq bundle'.rest
  BY <1>1 DEF WriteBundle
<1>3. TypeOK'
  BY <1>1 DEF TypeOK, WriteBundle, Idle, None, Commands
<1>4. Trusted \subseteq Trusted'
  BY <1>2 DEF Trusted
<1>5. MutualTrust' /\ Vouched' /\ ServesVouched' /\ Whole'
  BY <1>1, <1>2, <1>4 DEF MutualTrust, Vouched, ServesVouched, Serving, Whole, Loadable
<1>6. cmd'[p].pc = "idle"
  BY DEF TypeOK, Idle
<1>7. Phases'
  BY <1>6, OnePhase DEF StagePhase, ActivatePhase, DropPhase, RetirePhase
<1> QED
  BY <1>3, <1>4, <1>5, <1>7

-----------------------------------------------------------------------------
(* Activating. *)

LEMMA ActivateKeeps == ASSUME IInv, NEW p \in Operators, Activate(p) PROVE IInv'
<1> USE RotationAssumption DEF IInv, Activate, Begin, Running, files, fleet
<1>1. nextKey = nextCert /\ nextCert # None /\ nextCert \in Trusted /\ ~Serving
  BY DEF CanActivate, Classified, Staging, Serving
<1>2. /\ cmd' = [cmd EXCEPT ![p] = [pc |-> "key", root |-> nextKey, issuer |-> nextCert,
                                    rest |-> Demoted]]
      /\ Demoted \subseteq Roots
  BY DEF TypeOK, Demoted, Superseded
<1>11. cmd' \in [Operators -> Commands]
  <2>1. nextKey \in Roots \cup {None} /\ nextCert \in Roots \cup {None}
    BY DEF TypeOK
  <2>2. [pc |-> "key", root |-> nextKey, issuer |-> nextCert, rest |-> Demoted] \in Commands
    BY <1>2, <2>1 DEF Commands
  <2> QED
    BY <1>2, <2>2 DEF TypeOK
<1> HIDE DEF Activate, Begin
<1>3. UNCHANGED <<files, made, fleet>> /\ (\A h \in Hosts : nextCert \in trust[h])
      /\ nextCert \in control.trust
  BY DEF Activate
<1>4. TypeOK'
  BY <1>3, <1>11 DEF TypeOK
<1>5. MutualTrust' /\ Vouched' /\ ServesVouched' /\ Whole'
  BY <1>3
  DEF MutualTrust, Vouched, ServesVouched, Serving, Whole, Trusted, Loadable, CanActivate,
      Classified, Staging
<1>6. /\ cmd'[p].pc = "key" /\ cmd'[p].root = nextKey /\ cmd'[p].issuer = nextCert
      /\ cmd'[p].rest = Demoted
  BY <1>2 DEF TypeOK
<1>7. Everywhere(nextKey)'
  BY <1>1, <1>3 DEF Everywhere, Serving, Trusted
<1>8. Demoted' = Demoted
  BY <1>3 DEF Demoted, Superseded
<1>9. ActivatePhase(p)'
  BY <1>1, <1>3, <1>6, <1>7, <1>8 DEF ActivatePhase, Everywhere, Serving, Trusted
<1>10. Phases'
  BY <1>6, <1>9, OnePhase DEF StagePhase, DropPhase, RetirePhase
<1> QED
  BY <1>4, <1>5, <1>10

\* From here on the staged root signs; everybody has it.
LEMMA ActivateKeyKeeps == ASSUME IInv, NEW p \in Operators, ActivateKey(p) PROVE IInv'
<1> USE RotationAssumption DEF IInv, ActivateKey, Step, Running, fleet
<1> DEFINE r == cmd[p].root
<1>1. /\ r = nextKey /\ r = nextCert /\ cmd[p].issuer = r /\ r # None
      /\ cmd[p].rest = Demoted /\ Everywhere(r)
  BY DEF Phases, ActivatePhase
<1>2. /\ key' = r /\ cmd'[p].pc = "bundle" /\ cmd'[p].root = r /\ cmd'[p].issuer = r
      /\ cmd'[p].rest = Demoted
      /\ UNCHANGED <<bundle, nextKey, nextCert, made, fleet>>
  BY <1>1 DEF TypeOK
<1>8. cmd' \in [Operators -> Commands] /\ r \in Roots
  <2> HIDE DEF IInv, Step, Running
  <2>1. cmd' \in [Operators -> Commands]
    BY StepTyped DEF IInv
  <2> QED
    BY <1>1, <2>1, CommandTyped DEF IInv
<1>3. TypeOK'
  BY <1>2, <1>8 DEF TypeOK
<1> HIDE DEF r, ActivateKey
<1>4. MutualTrust' /\ Vouched' /\ ServesVouched'
  BY <1>1, <1>2
  DEF MutualTrust, Vouched, ServesVouched, Serving, Trusted, Everywhere
<1>5. Whole'
  BY <1>1, <1>2 DEF Whole, CanActivate, Classified, Staging, Everywhere, Trusted
<1>6. ActivatePhase(p)'
  BY <1>1, <1>2 DEF ActivatePhase, Everywhere, Serving, Trusted, Demoted, Superseded
<1>7. Phases'
  BY <1>2, <1>6, OnePhase DEF StagePhase, DropPhase, RetirePhase
<1> QED
  BY <1>3, <1>4, <1>5, <1>7

\* The roots of the bundle change places, and none is lost.
LEMMA ActivateBundleKeeps ==
  ASSUME IInv, NEW p \in Operators, ActivateBundle(p)
  PROVE  IInv' /\ Trusted \subseteq Trusted'
<1> USE RotationAssumption DEF IInv, ActivateBundle, Step, Running, fleet
<1> DEFINE r == cmd[p].root
<1>1. /\ r = nextKey /\ r = nextCert /\ cmd[p].issuer = r /\ r # None
      /\ cmd[p].rest = Demoted /\ r \in Trusted /\ key = r
  BY DEF Phases, ActivatePhase, Everywhere
<1>2. /\ bundle' = [issuer |-> r, rest |-> Demoted] /\ cmd'[p].pc = "drop key"
      /\ UNCHANGED <<key, nextKey, nextCert, made, leaf, trust, control, served>>
  <2>1. cmd'[p].pc = "drop key"
    BY CommandTyped DEF TypeOK, Commands
  <2> QED
    BY <1>1, <2>1 DEF WriteBundle
<1>3. Trusted' = Trusted
  BY <1>1, <1>2 DEF Trusted, Demoted, Superseded
<1>8. cmd' \in [Operators -> Commands] /\ r \in Roots /\ Demoted \subseteq Roots
  <2> HIDE DEF IInv, Step, Running
  <2>1. cmd' \in [Operators -> Commands]
    BY StepTyped DEF IInv
  <2> QED
    BY <1>1, <2>1, CommandTyped DEF IInv, Demoted, Superseded, TypeOK
<1>4. TypeOK'
  BY <1>2, <1>8 DEF TypeOK
<1> HIDE DEF r, ActivateBundle
<1>5. MutualTrust' /\ Vouched' /\ ServesVouched'
  BY <1>2, <1>3, ContactSame
<1>6. Loadable'
  BY <1>1, <1>2 DEF Loadable
<1>7. Phases' /\ Whole'
  BY <1>2, <1>6, OnePhase DEF Whole, StagePhase, ActivatePhase, DropPhase, RetirePhase
<1> QED
  BY <1>3, <1>4, <1>5, <1>7

LEMMA DropsKeep ==
  ASSUME IInv, NEW p \in Operators, DropKey(p) \/ DropCert(p) PROVE IInv'
<1>1. /\ UNCHANGED <<key, bundle, made, leaf, trust, control, served>>
      /\ cmd[p].pc \in {"drop key", "drop cert"}
      /\ nextKey' \in {nextKey, None} /\ nextCert' \in {nextCert, None}
  BY DEF DropKey, DropCert, Step, Done, Running, fleet
<1>2. cmd'[p].pc \in {"drop cert", "idle"} /\ cmd' \in [Operators -> Commands]
  <2>1. CASE DropKey(p)
    BY <2>1, StepTyped DEF DropKey, IInv
  <2>2. CASE DropCert(p)
    <3>1. Idle \in Commands /\ Idle.pc = "idle"
      BY DEF Idle, Commands
    <3> QED
      BY <2>2, <3>1 DEF DropCert, Done, IInv, TypeOK
  <2> QED
    BY <2>1, <2>2
<1>3. Loadable
  BY <1>1 DEF IInv, Phases, DropPhase
<1>4. TypeOK'
  BY <1>1, <1>2 DEF IInv, TypeOK
<1>5. MutualTrust' /\ Vouched' /\ ServesVouched' /\ Whole'
  <2>1. Trusted' = Trusted
    BY <1>1 DEF Trusted
  <2>2. Loadable'
    BY <1>1, <1>3 DEF Loadable
  <2>3. Whole'
    BY <2>2 DEF Whole
  <2> QED
    BY <1>1, <2>1, <2>3, ContactSame
<1>6. Phases'
  BY <1>1, <1>2, <1>3, OnePhase DEF StagePhase, ActivatePhase, DropPhase, RetirePhase, Loadable
<1> QED
  BY <1>4, <1>5, <1>6 DEF IInv

-----------------------------------------------------------------------------
(* Retiring, and stopping short. *)

LEMMA RetireKeeps == ASSUME IInv, NEW p \in Operators, Retire(p) PROVE IInv'
<1>1. /\ Loadable /\ ~Serving /\ control.leaf = key /\ \A h \in Hosts : leaf[h] = key
      /\ UNCHANGED <<key, bundle, nextKey, nextCert, made, leaf, trust, control, served>>
  BY DEF Retire, CanRetire, Loadable, Serving, files, fleet
<1>2. cmd' = [cmd EXCEPT ![p] = [pc |-> "retire", root |-> None, issuer |-> bundle.issuer,
                                 rest |-> {}]]
  BY DEF Retire, Begin
<1>3. [pc |-> "retire", root |-> None, issuer |-> bundle.issuer, rest |-> {}] \in Commands
  BY DEF IInv, TypeOK, Commands
<1>4. /\ cmd' \in [Operators -> Commands] /\ cmd'[p].pc = "retire"
      /\ cmd'[p].issuer = bundle.issuer /\ cmd'[p].rest = {}
  BY <1>2, <1>3 DEF IInv, TypeOK
<1>5. TypeOK'
  BY <1>1, <1>4 DEF IInv, TypeOK
<1>6. Trusted' = Trusted /\ Loadable'
  BY <1>1 DEF Trusted, Loadable
<1>7. MutualTrust' /\ Vouched' /\ ServesVouched'
  BY <1>1, <1>6, ContactSame
<1>8. Whole'
  BY <1>6 DEF Whole
<1>9. ~Serving'
  BY <1>1 DEF Serving
<1>10. RetirePhase(p)'
  BY <1>1, <1>4, <1>6, <1>9 DEF RetirePhase
<1>11. Phases'
  BY <1>4, <1>10, OnePhase DEF StagePhase, ActivatePhase, DropPhase
<1> QED
  BY <1>5, <1>7, <1>8, <1>11 DEF IInv

\* The roots that go are ones nobody presents.
LEMMA RetireBundleKeeps == ASSUME IInv, NEW p \in Operators, RetireBundle(p) PROVE IInv'
<1>1. /\ cmd[p].pc = "retire" /\ cmd' = [cmd EXCEPT ![p] = Idle]
      /\ bundle' = [issuer |-> cmd[p].issuer, rest |-> cmd[p].rest]
      /\ UNCHANGED <<key, nextKey, nextCert, made, leaf, trust, control, served>>
  BY DEF RetireBundle, Done, Running, WriteBundle, fleet
<1>2. /\ Loadable /\ cmd[p].issuer = bundle.issuer /\ cmd[p].rest = {}
      /\ control.leaf = key /\ \A h \in Hosts : leaf[h] = key
      /\ Serving => served.issuer = key
  BY <1>1 DEF IInv, Phases, RetirePhase
<1>3. bundle'.issuer = key /\ bundle'.rest = {} /\ Trusted' = {key}
  BY <1>1, <1>2 DEF Loadable, Trusted
<1>4. cmd'[p].pc = "idle" /\ cmd' \in [Operators -> Commands]
  <2>1. Idle \in Commands /\ Idle.pc = "idle"
    BY DEF Idle, Commands
  <2> QED
    BY <1>1, <2>1 DEF IInv, TypeOK
<1>5. bundle' \in [issuer : Roots, rest : SUBSET Roots]
  BY <1>1, <1>2 DEF IInv, TypeOK
<1>6. TypeOK'
  BY <1>1, <1>4, <1>5 DEF IInv, TypeOK
<1>7. MutualTrust' /\ Vouched'
  BY <1>1, <1>2, <1>3 DEF IInv, MutualTrust, Vouched
<1>8. ServesVouched'
  BY <1>1, <1>2, <1>3 DEF IInv, ServesVouched, Serving
<1>9. Loadable'
  BY <1>1, <1>3 DEF Loadable
<1>10. Whole'
  BY <1>9 DEF Whole
<1>11. Phases'
  BY <1>4, OnePhase DEF StagePhase, ActivatePhase, DropPhase, RetirePhase
<1> QED
  BY <1>6, <1>7, <1>8, <1>10, <1>11 DEF IInv

LEMMA InterruptKeeps == ASSUME IInv, NEW p \in Operators, Interrupt(p) PROVE IInv'
<1>1. /\ cmd' = [cmd EXCEPT ![p] = Idle]
      /\ UNCHANGED <<key, bundle, nextKey, nextCert, made, leaf, trust, control, served>>
  BY DEF Interrupt, files, fleet
<1>2. cmd'[p].pc = "idle" /\ cmd' \in [Operators -> Commands]
  <2>1. Idle \in Commands /\ Idle.pc = "idle"
    BY DEF Idle, Commands
  <2> QED
    BY <1>1, <2>1 DEF IInv, TypeOK
<1>3. TypeOK'
  BY <1>1, <1>2 DEF IInv, TypeOK
<1>4. Trusted' = Trusted
  BY <1>1 DEF Trusted
<1>5. MutualTrust' /\ Vouched' /\ ServesVouched'
  BY <1>1, <1>4, ContactSame
<1>6. Whole'
  BY <1>1 DEF IInv, Whole, Loadable, CanActivate, Classified, Staging, Trusted
<1>7. Phases'
  BY <1>2, OnePhase DEF StagePhase, ActivatePhase, DropPhase, RetirePhase
<1> QED
  BY <1>3, <1>5, <1>6, <1>7 DEF IInv

-----------------------------------------------------------------------------
(* The fleet. *)

\* What the fleet does leaves the directory alone; a command in progress relies on no
\* more than these facts of it.
LEMMA FleetKeeps ==
  ASSUME IInv, UNCHANGED <<key, bundle, nextKey, nextCert, made, cmd>>,
         TypeOK', Vouched', ServesVouched', MutualTrust',
         \A r \in Roots : Everywhere(r) => Everywhere(r)',
         \A h \in Hosts : leaf'[h] = leaf[h] \/ leaf'[h] = key
                          \/ (Serving /\ leaf'[h] = served.issuer),
         control'.leaf = control.leaf \/ (Loadable /\ control'.leaf = key),
         Serving' => (Serving /\ served' = served) \/ served'.issuer = key
  PROVE  IInv'
<1>1. Whole'
  BY DEF IInv, Whole, Loadable, CanActivate, Classified, Staging, Trusted
<1>2. ASSUME NEW p \in Operators PROVE StagePhase(p)' /\ DropPhase(p)'
  BY DEF IInv, Phases, StagePhase, DropPhase, Loadable
<1>3. ASSUME NEW p \in Operators PROVE ActivatePhase(p)'
  <2>1. CASE cmd[p].pc \in {"key", "bundle"}
    <3>1. ActivatePhase(p) /\ cmd[p].root \in Roots \cup {None}
      BY CommandTyped DEF IInv, Phases
    <3>2. cmd[p].root \in Roots /\ Everywhere(cmd[p].root)
      BY <2>1, <3>1 DEF ActivatePhase
    <3>3. Everywhere(cmd[p].root)'
      BY <3>2 DEF Everywhere
    <3> QED
      BY <2>1, <3>1, <3>3 DEF ActivatePhase, Demoted, Superseded
  <2>2. CASE cmd[p].pc \notin {"key", "bundle"}
    BY <2>2 DEF ActivatePhase
  <2> QED
    BY <2>1, <2>2
<1>4. ASSUME NEW p \in Operators PROVE RetirePhase(p)'
  BY DEF IInv, Phases, RetirePhase, Loadable
<1> QED
  BY <1>1, <1>2, <1>3, <1>4 DEF IInv, Phases
LEMMA DistributeKeeps == ASSUME IInv, NEW h \in Hosts, Distribute(h) PROVE IInv'
<1>1. /\ trust' = [trust EXCEPT ![h] = Trusted]
      /\ UNCHANGED <<key, bundle, nextKey, nextCert, made, cmd, leaf, control, served>>
  BY DEF Distribute, files
<1>2. Trusted \subseteq Roots /\ Trusted' = Trusted
  BY <1>1 DEF IInv, TypeOK, Trusted
<1>3. /\ trust' \in [Hosts -> SUBSET Roots]
      /\ \A g \in Hosts : trust'[g] = trust[g] \/ trust'[g] = Trusted
  BY <1>1, <1>2 DEF IInv, TypeOK
<1>4. TypeOK'
  BY <1>1, <1>3 DEF IInv, TypeOK
<1>5. MutualTrust'
  BY <1>1, <1>3 DEF IInv, MutualTrust, Vouched
<1>6. Vouched' /\ ServesVouched'
  BY <1>1, <1>2, <1>3 DEF IInv, Vouched, ServesVouched, Serving
<1>7. \A r \in Roots : Everywhere(r) => Everywhere(r)'
  BY <1>1, <1>2, <1>3 DEF Everywhere, Serving
<1>8. Serving' => Serving /\ served' = served
  BY <1>1 DEF Serving
<1> QED
  BY <1>1, <1>4, <1>5, <1>6, <1>7, <1>8, FleetKeeps

LEMMA ControlKeeps == ASSUME IInv, RestartControl \/ SignControl PROVE IInv'
<1>1. /\ control' = [leaf |-> control'.leaf, trust |-> Trusted]
      /\ control'.leaf = control.leaf \/ (Loadable /\ control'.leaf = key)
      /\ UNCHANGED <<key, bundle, nextKey, nextCert, made, cmd, leaf, trust, served>>
  BY DEF RestartControl, SignControl, files, IInv, TypeOK
<1>2. Trusted \subseteq Roots /\ Trusted' = Trusted
  BY <1>1 DEF IInv, TypeOK, Trusted
<1>3. control' \in [leaf : Roots, trust : SUBSET Roots] /\ control'.trust = Trusted
  BY <1>1, <1>2 DEF IInv, TypeOK
<1>4. TypeOK'
  BY <1>1, <1>3 DEF IInv, TypeOK
<1>5. MutualTrust'
  BY <1>1, <1>3 DEF IInv, MutualTrust, Vouched
<1>6. Vouched' /\ ServesVouched'
  BY <1>1, <1>2, <1>3 DEF IInv, Vouched, ServesVouched, Serving
<1>7. \A r \in Roots : Everywhere(r) => Everywhere(r)'
  BY <1>1, <1>2, <1>3 DEF Everywhere, Serving
<1>8. Serving' => Serving /\ served' = served
  BY <1>1 DEF Serving
<1> QED
  BY <1>1, <1>4, <1>5, <1>6, <1>7, <1>8, FleetKeeps

LEMMA SignHostKeeps == ASSUME IInv, NEW h \in Hosts, SignHost(h) PROVE IInv'
<1>1. /\ leaf' = [leaf EXCEPT ![h] = key]
      /\ UNCHANGED <<key, bundle, nextKey, nextCert, made, cmd, trust, control, served>>
  BY DEF SignHost, files
<1>2. Trusted' = Trusted
  BY <1>1 DEF Trusted
<1>3. /\ leaf' \in [Hosts -> Roots]
      /\ \A g \in Hosts : leaf'[g] = leaf[g] \/ leaf'[g] = key
  BY <1>1 DEF IInv, TypeOK
<1>4. TypeOK'
  BY <1>1, <1>3 DEF IInv, TypeOK
<1>5. MutualTrust'
  BY <1>1, <1>3 DEF IInv, MutualTrust, Vouched
<1>6. Vouched' /\ ServesVouched'
  BY <1>1, <1>2, <1>3 DEF IInv, Vouched, ServesVouched, Serving
<1>7. \A r \in Roots : Everywhere(r) => Everywhere(r)'
  BY <1>1, <1>2 DEF Everywhere, Serving
<1>8. Serving' => Serving /\ served' = served
  BY <1>1 DEF Serving
<1> QED
  BY <1>1, <1>3, <1>4, <1>5, <1>6, <1>7, <1>8, FleetKeeps

LEMMA EnrollKeeps == ASSUME IInv, NEW h \in Hosts, Enroll(h) PROVE IInv'
<1>1. /\ Serving /\ leaf' = [leaf EXCEPT ![h] = served.issuer]
      /\ trust' = [trust EXCEPT ![h] = served.roots]
      /\ UNCHANGED <<key, bundle, nextKey, nextCert, made, cmd, control, served>>
  BY DEF Enroll, Serving, files
<1>2. Trusted' = Trusted /\ served.issuer \in Trusted /\ Trusted \subseteq Roots
      /\ served.roots \subseteq Roots
  BY <1>1 DEF IInv, TypeOK, Trusted, ServesVouched
<1>3. /\ leaf' \in [Hosts -> Roots] /\ trust' \in [Hosts -> SUBSET Roots]
      /\ \A g \in Hosts : \/ leaf'[g] = leaf[g] /\ trust'[g] = trust[g]
                          \/ leaf'[g] = served.issuer /\ trust'[g] = served.roots
  BY <1>1, <1>2 DEF IInv, TypeOK
<1>4. TypeOK'
  BY <1>1, <1>3 DEF IInv, TypeOK
<1>5. MutualTrust'
  BY <1>1, <1>3 DEF IInv, MutualTrust, ServesVouched
<1>6. Vouched'
  BY <1>1, <1>2, <1>3 DEF IInv, Vouched, ServesVouched
<1>7. ServesVouched'
  BY <1>1, <1>2 DEF IInv, ServesVouched, Serving
<1>8. \A r \in Roots : Everywhere(r) => Everywhere(r)'
  BY <1>1, <1>2, <1>3 DEF Everywhere, Serving
<1>9. Serving' => Serving /\ served' = served
  BY <1>1 DEF Serving
<1> QED
  BY <1>1, <1>3, <1>4, <1>5, <1>6, <1>7, <1>8, <1>9, FleetKeeps

LEMMA ServeKeeps == ASSUME IInv, StartServe \/ StopServe PROVE IInv'
<1>1. UNCHANGED <<key, bundle, nextKey, nextCert, made, cmd, leaf, trust, control>>
  BY DEF StartServe, StopServe, files
<1>2. \/ Serving' /\ Loadable /\ served' = [issuer |-> key, roots |-> Trusted]
      \/ ~Serving' /\ served' = NotServing
  BY DEF StartServe, StopServe, Serving
<1>3. Trusted' = Trusted /\ Trusted \subseteq Roots
  BY <1>1 DEF IInv, TypeOK, Trusted
<1>4. served' \in [issuer : Roots \cup {None}, roots : SUBSET Roots]
  BY <1>2, <1>3 DEF IInv, TypeOK, NotServing
<1>5. TypeOK'
  BY <1>1, <1>4 DEF IInv, TypeOK
<1>6. MutualTrust'
  BY <1>1 DEF IInv, MutualTrust
<1>7. Vouched'
  BY <1>1, <1>3 DEF IInv, Vouched
<1>8. ServesVouched'
  BY <1>1, <1>2, <1>3 DEF IInv, ServesVouched, Vouched
<1>9. \A r \in Roots : Everywhere(r) => Everywhere(r)'
  BY <1>1, <1>2, <1>3 DEF Everywhere
<1>10. Serving' => served'.issuer = key
  BY <1>2
<1> QED
  BY <1>1, <1>5, <1>6, <1>7, <1>8, <1>9, <1>10, FleetKeeps

LEMMA DiscardKeeps == ASSUME IInv, Discard PROVE IInv'
<1>1. /\ Loadable /\ \A p \in Operators : cmd[p].pc = "idle"
      /\ nextKey' = None /\ nextCert' = None
      /\ UNCHANGED <<key, bundle, made, cmd, leaf, trust, control, served>>
  BY DEF Discard, Quiescent, Running, fleet
<1>2. TypeOK'
  BY <1>1 DEF IInv, TypeOK
<1>3. Trusted' = Trusted
  BY <1>1 DEF Trusted
<1>4. MutualTrust' /\ Vouched' /\ ServesVouched'
  BY <1>1, <1>3, ContactSame
<1>5. Loadable'
  BY <1>1 DEF Loadable
<1>6. Whole'
  BY <1>5 DEF Whole
<1>7. Phases'
  BY <1>1 DEF Phases, StagePhase, ActivatePhase, DropPhase, RetirePhase
<1> QED
  BY <1>2, <1>4, <1>6, <1>7 DEF IInv

-----------------------------------------------------------------------------
(* The theorems. *)

LEMMA NextInv == IInv /\ [Next]_vars => IInv'
<1> SUFFICES ASSUME IInv, [Next]_vars PROVE IInv'
  OBVIOUS
<1>1. ASSUME NEW p \in Operators, Command(p) PROVE IInv'
  BY <1>1, StageKeeps, StageFilesKeep, StageBundleKeeps, ActivateKeeps, ActivateKeyKeeps,
     ActivateBundleKeeps, DropsKeep, RetireKeeps, RetireBundleKeeps DEF Command
<1>2. ASSUME NEW p \in Operators, Interrupt(p) PROVE IInv'
  BY <1>2, InterruptKeeps
<1>3. ASSUME NEW h \in Hosts, Distribute(h) \/ SignHost(h) \/ Enroll(h) PROVE IInv'
  BY <1>3, DistributeKeeps, SignHostKeeps, EnrollKeeps
<1>4. CASE RestartControl \/ SignControl \/ StartServe \/ StopServe \/ Discard
  BY <1>4, ControlKeeps, ServeKeeps, DiscardKeeps
<1>5. CASE UNCHANGED vars
  <2>1. UNCHANGED <<key, bundle, nextKey, nextCert, made, cmd, leaf, trust, control, served>>
    BY <1>5 DEF vars, files, fleet
  <2>2. TypeOK' /\ Trusted' = Trusted
    BY <2>1 DEF IInv, TypeOK, Trusted
  <2>3. MutualTrust' /\ Vouched' /\ ServesVouched'
    BY <2>1, <2>2, ContactSame
  <2>4. \A r \in Roots : Everywhere(r) => Everywhere(r)'
    BY <2>1, <2>2 DEF Everywhere, Serving
  <2>5. Serving' => Serving /\ served' = served
    BY <2>1 DEF Serving
  <2> QED
    BY <2>1, <2>2, <2>3, <2>4, <2>5, FleetKeeps
<1> QED
  BY <1>1, <1>2, <1>3, <1>4, <1>5 DEF Next

\* The files, copies and commands keep their types, and no key pair past the bound on
\* them is made (rotate.go, ca.go).
THEOREM RotationTyped == Spec => []TypeOK
<1>1. IInv => TypeOK
  BY DEF IInv
<1> QED
  BY <1>1, InitInv, NextInv, PTL DEF Spec

\* The control plane and every host accept one another at every moment of any number
\* of rotations, with every command cut short anywhere (rotate.go).
THEOREM ContactIsKept == Spec => []MutualTrust
<1>1. IInv => MutualTrust
  BY DEF IInv
<1> QED
  BY <1>1, InitInv, NextInv, PTL DEF Spec

\* Whatever write a command stopped at, the directory loads or the activation can be
\* run again (the order of Activate's writes).
THEOREM DirectoryRecovers == Spec => []Recoverable
<1>1. IInv => Recoverable
  BY DEF IInv, Recoverable, Whole
<1> QED
  BY <1>1, InitInv, NextInv, PTL DEF Spec

\* No step but the write of a retirement takes a root out of ca.crt.
THEOREM WideningIsKept == Spec => OnlyRetireNarrows
<1>1. IInv /\ [Next]_vars =>
        [Trusted \subseteq Trusted' \/ \E p \in Operators : Running(p, "retire")]_vars
  <2> SUFFICES ASSUME IInv, Next
               PROVE  Trusted \subseteq Trusted' \/ \E p \in Operators : Running(p, "retire")
    OBVIOUS
  <2>1. CASE UNCHANGED bundle
    BY <2>1 DEF Trusted
  <2>2. ASSUME NEW p \in Operators, Command(p) \/ Interrupt(p)
        PROVE  \/ UNCHANGED bundle \/ Trusted \subseteq Trusted' \/ Running(p, "retire")
    <3>1. CASE StageBundle(p) \/ ActivateBundle(p)
      BY <3>1, StageBundleKeeps, ActivateBundleKeeps
    <3>2. CASE RetireBundle(p)
      BY <3>2 DEF RetireBundle, Done
    <3> QED
      BY <2>2, <3>1, <3>2
      DEF Command, Stage, StageKey, StageCert, Activate, ActivateKey, DropKey, DropCert,
          Retire, Interrupt, files
  <2>3. ASSUME NEW h \in Hosts, Distribute(h) \/ SignHost(h) \/ Enroll(h)
        PROVE  UNCHANGED bundle
    BY <2>3 DEF Distribute, SignHost, Enroll, files
  <2>4. CASE RestartControl \/ SignControl \/ StartServe \/ StopServe \/ Discard
    BY <2>1, <2>4 DEF RestartControl, SignControl, StartServe, StopServe, Discard, files
  <2> QED
    BY <2>1, <2>2, <2>3, <2>4 DEF Next
<1> QED
  BY <1>1, InitInv, NextInv, PTL DEF Spec, OnlyRetireNarrows
=============================================================================
