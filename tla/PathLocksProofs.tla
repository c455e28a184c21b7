-------------------------- MODULE PathLocksProofs ---------------------------
(***************************************************************************)
(* What is proved of the per-path locks: for any finite set of requests    *)
(* and any paths, the counted entries implement a mutex per path, and the  *)
(* map keeps an entry exactly for the paths in use.                        *)
(***************************************************************************)
EXTENDS PathLocks, FiniteSetTheorems, SequenceTheorems, TLAPS

-----------------------------------------------------------------------------
(* The inductive invariant *)

LockTypes ==
  /\ entry \in [Paths -> Entries \cup {NoEntry}]
  /\ refs \in [Entries -> Nat]
  /\ handle \in [Clients -> [Paths -> HandleType]]

\* Whoever uses a path uses the entry that the map has for it.
Mapped ==
  \A c \in Clients, p \in Paths :
    IF handle[c][p].st = "none" THEN handle[c][p] = NoHandle
    ELSE entry[p] # NoEntry /\ handle[c][p].entry = entry[p]

\* Two paths never share an entry.
Distinct ==
  \A p, q \in Paths : entry[p] # NoEntry /\ entry[p] = entry[q] => p = q

Counted ==
  \A p \in Paths :
    entry[p] # NoEntry => Using(p) # {} /\ refs[entry[p]] = Cardinality(Using(p))

Holds(c, p) == handle[c][p].st = "held"
MutualExclusion ==
  \A c, d \in Clients, p \in Paths : Holds(c, p) /\ Holds(d, p) => c = d

LInv == LockTypes /\ Mapped /\ Distinct /\ Counted /\ MutualExclusion

\* A request that is taking locks knows which one is next.
Wanting ==
  /\ want \in [Clients -> Seq(Paths)] /\ \A c \in Clients : Len(want[c]) <= 2
  /\ phase \in [Clients -> {"idle", "lock", "in", "release"}]
  /\ \A c \in Clients : phase[c] = "lock" => want[c] # <<>>

IInv == LInv /\ Wanting

-----------------------------------------------------------------------------
(* The users of a path *)

LEMMA UsingFinite ==
  ASSUME NEW p \in Paths
  PROVE  IsFiniteSet(Using(p)) /\ Cardinality(Using(p)) \in Nat
  <1>1. Using(p) \subseteq Clients  BY DEF Using
  <1>2. IsFiniteSet(Using(p))  BY <1>1, LocksAssumption, FS_Subset
  <1> QED  BY <1>2, FS_CardinalityType

LEMMA UserJoins ==
  ASSUME NEW p \in Paths, NEW c \in Clients, c \notin Using(p), Using(p)' = Using(p) \cup {c}
  PROVE  Using(p)' # {} /\ Cardinality(Using(p)') = Cardinality(Using(p)) + 1
  BY UsingFinite, FS_AddElement

LEMMA UserLeaves ==
  ASSUME NEW p \in Paths, NEW c \in Clients, c \in Using(p), Using(p)' = Using(p) \ {c}
  PROVE  /\ Cardinality(Using(p)') = Cardinality(Using(p)) - 1
         /\ Cardinality(Using(p)) >= 1
         /\ Cardinality(Using(p)) # 1 => Using(p)' # {}
         /\ Cardinality(Using(p)) = 1 => Using(p)' = {}
  <1>1. IsFiniteSet(Using(p)) /\ Cardinality(Using(p)) \in Nat  BY UsingFinite
  <1>2. Cardinality(Using(p) \ {c}) = Cardinality(Using(p)) - 1  BY <1>1, FS_RemoveElement
  <1>3. IsFiniteSet(Using(p) \ {c})  BY <1>1, FS_Subset
  <1>4. Cardinality(Using(p) \ {c}) \in Nat  BY <1>3, FS_CardinalityType
  <1>5. Cardinality(Using(p) \ {c}) = 0 <=> Using(p) \ {c} = {}  BY <1>3, FS_EmptySet
  <1> QED  BY <1>1, <1>2, <1>4, <1>5

\* A step on the handle that one request has for one path.
LEMMA OneHandle ==
  ASSUME LInv, NEW c \in Clients, NEW p \in Paths, NEW h \in HandleType, Handle(c, p, h)
  PROVE  /\ handle' \in [Clients -> [Paths -> HandleType]]
         /\ handle'[c][p] = h
         /\ \A d \in Clients, q \in Paths : d # c \/ q # p => handle'[d][q] = handle[d][q]
         /\ \A q \in Paths : q # p => Using(q)' = Using(q)
         /\ Using(p)' = IF h.st = "none" THEN Using(p) \ {c} ELSE Using(p) \cup {c}
  <1> USE DEF Handle, LInv, LockTypes
  <1>1. handle' \in [Clients -> [Paths -> HandleType]]  OBVIOUS
  <1>2. handle'[c][p] = h  OBVIOUS
  <1>3. \A d \in Clients, q \in Paths : d # c \/ q # p => handle'[d][q] = handle[d][q]  OBVIOUS
  <1> HIDE DEF Handle
  <1>4. \A q \in Paths : q # p => Using(q)' = Using(q)  BY <1>3 DEF Using
  <1>5. Using(p)' = IF h.st = "none" THEN Using(p) \ {c} ELSE Using(p) \cup {c}
    BY <1>2, <1>3 DEF Using
  <1> QED  BY <1>1, <1>2, <1>3, <1>4, <1>5

-----------------------------------------------------------------------------
(* The steps on a lock *)

HeldNow == [c \in Clients |-> {p \in Paths : handle[c][p].st = "held"}]

LEMMA JoinKeeps ==
  ASSUME LInv, NEW c \in Clients, NEW p \in Paths, NEW e \in Entries,
         handle[c][p] = NoHandle,
         IF entry[p] = NoEntry THEN New(e) ELSE e = entry[p],
         entry' = [entry EXCEPT ![p] = e],
         refs' = [refs EXCEPT ![e] = (IF entry[p] = NoEntry THEN 0 ELSE @) + 1],
         Handle(c, p, [entry |-> e, st |-> "waiting"])
  PROVE  LInv' /\ HeldNow' = HeldNow
  <1> DEFINE h == [entry |-> e, st |-> "waiting"]
  <1>1. h \in HandleType /\ h.st = "waiting" /\ h.entry = e  BY DEF HandleType
  <1>2. /\ handle' \in [Clients -> [Paths -> HandleType]]
        /\ handle'[c][p] = h
        /\ \A d \in Clients, q \in Paths : d # c \/ q # p => handle'[d][q] = handle[d][q]
        /\ \A q \in Paths : q # p => Using(q)' = Using(q)
        /\ Using(p)' = Using(p) \cup {c}
    <2> HIDE DEF h
    <2>1. Handle(c, p, h)  BY DEF h
    <2> QED  BY <1>1, <2>1, OneHandle
  <1>3. NoEntry \notin Entries  BY LocksAssumption
  <1>4. e # NoEntry  BY <1>3
  <1>5. \A q \in Paths : q # p => entry'[q] = entry[q] /\ entry[q] # e
    BY DEF LInv, LockTypes, Distinct, New
  <1>6. entry'[p] = e /\ entry' \in [Paths -> Entries \cup {NoEntry}]
    BY DEF LInv, LockTypes
  <1>7. refs' \in [Entries -> Nat]  BY DEF LInv, LockTypes
  <1>8. LockTypes'  BY <1>2, <1>6, <1>7 DEF LockTypes
  <1>9. Mapped'
    <2> SUFFICES ASSUME NEW d \in Clients, NEW q \in Paths
                 PROVE  IF handle'[d][q].st = "none" THEN handle'[d][q] = NoHandle
                        ELSE entry'[q] # NoEntry /\ handle'[d][q].entry = entry'[q]
      BY DEF Mapped
    <2>1. CASE d = c /\ q = p  BY <2>1, <1>1, <1>2, <1>4, <1>6
    <2>2. CASE d # c /\ q = p
      <3>1. handle'[d][q] = handle[d][q]  BY <2>2, <1>2
      <3>2. handle[d][q].st # "none" => entry[p] # NoEntry /\ handle[d][q].entry = entry[p]
        BY <2>2 DEF LInv, Mapped
      <3>3. handle[d][q].st = "none" => handle[d][q] = NoHandle  BY DEF LInv, Mapped
      <3> QED  BY <2>2, <3>1, <3>2, <3>3, <1>4, <1>6
    <2>3. CASE q # p
      <3>1. handle'[d][q] = handle[d][q] /\ entry'[q] = entry[q]  BY <2>3, <1>2, <1>5
      <3> QED  BY <3>1 DEF LInv, Mapped
    <2> QED  BY <2>1, <2>2, <2>3
  <1>10. Distinct'
    <2>1. \A q \in Paths : q # p => entry'[q] # entry'[p]  BY <1>5, <1>6
    <2> QED  BY <2>1, <1>5 DEF LInv, Distinct
  <1>11. Counted'
    <2> SUFFICES ASSUME NEW q \in Paths, entry'[q] # NoEntry
                 PROVE  Using(q)' # {} /\ refs'[entry'[q]] = Cardinality(Using(q)')
      BY DEF Counted
    <2>1. CASE q = p
      <3>1. c \notin Using(p)  BY DEF Using, NoHandle
      <3>2. Using(p)' # {} /\ Cardinality(Using(p)') = Cardinality(Using(p)) + 1
        BY <3>1, <1>2, UserJoins
      <3>3. CASE entry[p] = NoEntry
        <4>1. Using(p) = {}  BY <3>3 DEF LInv, Mapped, Using
        <4>2. Cardinality(Using(p)) = 0  BY <4>1, FS_EmptySet
        <4>3. refs'[e] = 1  BY <3>3 DEF LInv, LockTypes
        <4> QED  BY <2>1, <3>2, <4>2, <4>3, <1>6
      <3>4. CASE entry[p] # NoEntry
        <4>1. refs[e] = Cardinality(Using(p))  BY <3>4 DEF LInv, Counted
        <4>2. refs'[e] = refs[e] + 1  BY <3>4 DEF LInv, LockTypes
        <4> QED  BY <2>1, <3>2, <4>1, <4>2, <1>6
      <3> QED  BY <3>3, <3>4
    <2>2. CASE q # p
      <3>1. entry'[q] = entry[q] /\ entry[q] # e  BY <2>2, <1>5
      <3>2. entry[q] \in Entries  BY <3>1 DEF LInv, LockTypes
      <3>3. refs'[entry[q]] = refs[entry[q]]  BY <3>1, <3>2 DEF LInv, LockTypes
      <3>4. Using(q)' = Using(q)  BY <2>2, <1>2
      <3> QED  BY <3>1, <3>3, <3>4 DEF LInv, Counted
    <2> QED  BY <2>1, <2>2
  <1>12. \A d \in Clients, q \in Paths : Holds(d, q)' <=> Holds(d, q)
    BY <1>1, <1>2 DEF Holds, NoHandle
  <1>13. MutualExclusion'  BY <1>12 DEF LInv, MutualExclusion
  <1>14. HeldNow' = HeldNow  BY <1>12 DEF HeldNow, Holds
  <1> QED  BY <1>8, <1>9, <1>10, <1>11, <1>13, <1>14 DEF LInv

LEMMA DropKeeps ==
  ASSUME LInv, NEW c \in Clients, NEW p \in Paths, handle[c][p].st \in {"waiting", "freed"},
         Drop(c, p)
  PROVE  LInv' /\ HeldNow' = HeldNow
  <1> DEFINE e == entry[p]
  <1>1. NoHandle \in HandleType /\ NoHandle.st = "none"  BY DEF NoHandle, HandleType
  <1>2. /\ handle' \in [Clients -> [Paths -> HandleType]]
        /\ handle'[c][p] = NoHandle
        /\ \A d \in Clients, q \in Paths : d # c \/ q # p => handle'[d][q] = handle[d][q]
        /\ \A q \in Paths : q # p => Using(q)' = Using(q)
        /\ Using(p)' = Using(p) \ {c}
    <2>1. Handle(c, p, NoHandle)  BY DEF Drop
    <2> QED  BY <1>1, <2>1, OneHandle
  <1>3. e # NoEntry /\ handle[c][p].entry = e  BY DEF LInv, Mapped
  <1>4. e \in Entries  BY <1>3 DEF LInv, LockTypes
  <1>5. c \in Using(p)  BY DEF Using
  <1>6. refs[e] = Cardinality(Using(p))  BY <1>3 DEF LInv, Counted
  <1>7. /\ Cardinality(Using(p)') = refs[e] - 1
        /\ refs[e] >= 1
        /\ refs[e] # 1 => Using(p)' # {}
        /\ refs[e] = 1 => Using(p)' = {}
    BY <1>2, <1>5, <1>6, UserLeaves
  <1>8. /\ refs' = [refs EXCEPT ![e] = @ - 1]
        /\ entry' = IF refs[e] = 1 THEN [entry EXCEPT ![p] = NoEntry] ELSE entry
    BY <1>3 DEF Drop
  <1> HIDE DEF e
  <1>9. refs' \in [Entries -> Nat] /\ refs'[e] = refs[e] - 1
    BY <1>4, <1>7, <1>8 DEF LInv, LockTypes
  <1>10. entry' \in [Paths -> Entries \cup {NoEntry}]  BY <1>8 DEF LInv, LockTypes
  <1>11. \A q \in Paths : q # p => entry'[q] = entry[q]  BY <1>8 DEF LInv, LockTypes
  <1>12. entry'[p] = IF refs[e] = 1 THEN NoEntry ELSE e  BY <1>8 DEF e, LInv, LockTypes
  <1>13. LockTypes'  BY <1>2, <1>9, <1>10 DEF LockTypes
  <1>14. Mapped'
    <2> SUFFICES ASSUME NEW d \in Clients, NEW q \in Paths
                 PROVE  IF handle'[d][q].st = "none" THEN handle'[d][q] = NoHandle
                        ELSE entry'[q] # NoEntry /\ handle'[d][q].entry = entry'[q]
      BY DEF Mapped
    <2>1. CASE d = c /\ q = p  BY <2>1, <1>1, <1>2
    <2>2. CASE d # c /\ q = p
      <3>1. handle'[d][q] = handle[d][q]  BY <2>2, <1>2
      <3>2. CASE handle[d][q].st = "none"  BY <3>1, <3>2 DEF LInv, Mapped
      <3>3. CASE handle[d][q].st # "none"
        <4>1. d \in Using(p) /\ d \in Using(p)'  BY <2>2, <3>3, <1>2 DEF Using
        <4>2. refs[e] # 1  BY <4>1, <1>7
        <4>3. entry'[p] = entry[p]  BY <4>2, <1>12 DEF e
        <4> QED  BY <2>2, <3>1, <3>3, <4>3 DEF LInv, Mapped
      <3> QED  BY <3>2, <3>3
    <2>3. CASE q # p
      <3>1. handle'[d][q] = handle[d][q] /\ entry'[q] = entry[q]  BY <2>3, <1>2, <1>11
      <3> QED  BY <3>1 DEF LInv, Mapped
    <2> QED  BY <2>1, <2>2, <2>3
  <1>15. Distinct'  BY <1>11, <1>12 DEF e, LInv, Distinct
  <1>16. Counted'
    <2> SUFFICES ASSUME NEW q \in Paths, entry'[q] # NoEntry
                 PROVE  Using(q)' # {} /\ refs'[entry'[q]] = Cardinality(Using(q)')
      BY DEF Counted
    <2>1. CASE q = p  BY <2>1, <1>7, <1>9, <1>12
    <2>2. CASE q # p
      <3>1. entry'[q] = entry[q] /\ entry[q] # e  BY <2>2, <1>3, <1>11 DEF e, LInv, Distinct
      <3>2. entry[q] \in Entries  BY <3>1 DEF LInv, LockTypes
      <3>3. refs'[entry[q]] = refs[entry[q]]  BY <3>1, <3>2, <1>8 DEF LInv, LockTypes
      <3>4. Using(q)' = Using(q)  BY <2>2, <1>2
      <3> QED  BY <3>1, <3>3, <3>4 DEF LInv, Counted
    <2> QED  BY <2>1, <2>2
  <1>17. \A d \in Clients, q \in Paths : Holds(d, q)' <=> Holds(d, q)
    BY <1>1, <1>2 DEF Holds
  <1>18. MutualExclusion'  BY <1>17 DEF LInv, MutualExclusion
  <1>19. HeldNow' = HeldNow  BY <1>17 DEF HeldNow, Holds
  <1> QED  BY <1>13, <1>14, <1>15, <1>16, <1>18, <1>19 DEF LInv

\* A handle that changes what it is for, and neither its path's entry nor its users.
LEMMA TurnKeeps ==
  ASSUME LInv, NEW c \in Clients, NEW p \in Paths, NEW st \in {"held", "freed"},
         handle[c][p].st \in {"waiting", "held"},
         Handle(c, p, [handle[c][p] EXCEPT !.st = st]), UNCHANGED <<entry, refs>>
  PROVE  /\ LockTypes' /\ Mapped' /\ Distinct' /\ Counted'
         /\ \A d \in Clients, q \in Paths : d # c \/ q # p => Holds(d, q)' = Holds(d, q)
         /\ handle'[c][p].st = st
  <1> DEFINE h == [handle[c][p] EXCEPT !.st = st]
  <1>1. handle[c][p] \in HandleType  BY DEF LInv, LockTypes
  <1>2. /\ h \in HandleType /\ h.st = st /\ h.entry = handle[c][p].entry
        /\ h.st # "none"
    BY <1>1 DEF HandleType
  <1>3. /\ handle' \in [Clients -> [Paths -> HandleType]]
        /\ handle'[c][p] = h
        /\ \A d \in Clients, q \in Paths : d # c \/ q # p => handle'[d][q] = handle[d][q]
        /\ \A q \in Paths : q # p => Using(q)' = Using(q)
        /\ Using(p)' = Using(p) \cup {c}
    <2> HIDE DEF h
    <2>1. Handle(c, p, h)  BY DEF h
    <2> QED  BY <1>2, <2>1, OneHandle
  <1> HIDE DEF h
  <1>4. c \in Using(p)  BY DEF Using
  <1>5. \A q \in Paths : Using(q)' = Using(q)  BY <1>3, <1>4
  <1>6. LockTypes'  BY <1>3 DEF LInv, LockTypes
  <1>7. Mapped'  BY <1>2, <1>3 DEF LInv, Mapped
  <1>8. Distinct'  BY DEF LInv, Distinct
  <1>9. Counted'  BY <1>5 DEF LInv, Counted
  <1>10. \A d \in Clients, q \in Paths : d # c \/ q # p => Holds(d, q)' = Holds(d, q)
    BY <1>3 DEF Holds
  <1> QED  BY <1>2, <1>3, <1>6, <1>7, <1>8, <1>9, <1>10

LEMMA GrabKeeps ==
  ASSUME LInv, NEW c \in Clients, NEW p \in Paths, handle[c][p].st = "waiting",
         \A d \in Clients, q \in Paths :
           handle[d][q].st = "held" => handle[d][q].entry # handle[c][p].entry,
         Handle(c, p, [handle[c][p] EXCEPT !.st = "held"]), UNCHANGED <<entry, refs>>
  PROVE  /\ LInv'
         /\ \A d \in Clients : p \notin HeldNow[d]
         /\ HeldNow' = [HeldNow EXCEPT ![c] = @ \cup {p}]
  <1>1. /\ LockTypes' /\ Mapped' /\ Distinct' /\ Counted'
        /\ \A d \in Clients, q \in Paths : d # c \/ q # p => Holds(d, q)' = Holds(d, q)
        /\ handle'[c][p].st = "held"
    BY TurnKeeps
  <1>2. \A d \in Clients : ~Holds(d, p)  BY DEF LInv, Mapped, Holds
  <1>3. Holds(c, p)'  BY <1>1 DEF Holds
  <1>4. MutualExclusion'  BY <1>1, <1>2 DEF LInv, MutualExclusion
  <1>5. HeldNow' = [HeldNow EXCEPT ![c] = @ \cup {p}]
    <2>1. \A d \in Clients : HeldNow'[d] = {q \in Paths : Holds(d, q)'}
      BY DEF HeldNow, Holds
    <2>2. \A d \in Clients : HeldNow[d] = {q \in Paths : Holds(d, q)}
      BY DEF HeldNow, Holds
    <2>3. HeldNow'[c] = HeldNow[c] \cup {p}  BY <2>1, <2>2, <1>1, <1>3
    <2>4. \A d \in Clients : d # c => HeldNow'[d] = HeldNow[d]  BY <2>1, <2>2, <1>1
    <2>5. HeldNow = [d \in Clients |-> HeldNow[d]] /\ HeldNow' = [d \in Clients |-> HeldNow'[d]]
      BY DEF HeldNow
    <2> QED  BY <2>3, <2>4, <2>5
  <1>6. \A d \in Clients : p \notin HeldNow[d]  BY <1>2 DEF HeldNow, Holds
  <1> QED  BY <1>1, <1>4, <1>5, <1>6 DEF LInv

LEMMA UnlockKeeps ==
  ASSUME LInv, NEW c \in Clients, NEW p \in Paths, handle[c][p].st = "held",
         Handle(c, p, [handle[c][p] EXCEPT !.st = "freed"]), UNCHANGED <<entry, refs>>
  PROVE  /\ LInv'
         /\ p \in HeldNow[c]
         /\ HeldNow' = [HeldNow EXCEPT ![c] = @ \ {p}]
  <1>1. /\ LockTypes' /\ Mapped' /\ Distinct' /\ Counted'
        /\ \A d \in Clients, q \in Paths : d # c \/ q # p => Holds(d, q)' = Holds(d, q)
        /\ handle'[c][p].st = "freed"
    BY TurnKeeps
  <1>2. ~Holds(c, p)'  BY <1>1 DEF Holds
  <1>3. MutualExclusion'  BY <1>1, <1>2 DEF LInv, MutualExclusion
  <1>4. HeldNow' = [HeldNow EXCEPT ![c] = @ \ {p}]
    <2>1. \A d \in Clients : HeldNow'[d] = {q \in Paths : Holds(d, q)'}
      BY DEF HeldNow, Holds
    <2>2. \A d \in Clients : HeldNow[d] = {q \in Paths : Holds(d, q)}
      BY DEF HeldNow, Holds
    <2>3. HeldNow'[c] = HeldNow[c] \ {p}  BY <2>1, <2>2, <1>1, <1>2
    <2>4. \A d \in Clients : d # c => HeldNow'[d] = HeldNow[d]  BY <2>1, <2>2, <1>1
    <2>5. HeldNow = [d \in Clients |-> HeldNow[d]] /\ HeldNow' = [d \in Clients |-> HeldNow'[d]]
      BY DEF HeldNow
    <2> QED  BY <2>3, <2>4, <2>5
  <1>5. p \in HeldNow[c]  BY DEF HeldNow
  <1> QED  BY <1>1, <1>3, <1>4, <1>5 DEF LInv

-----------------------------------------------------------------------------
(* The actions: the invariant, and what PathMutex sees *)

Seen == UNCHANGED HeldNow \/ \E c \in Clients, p \in Paths : Mutex!Take(c, p) \/ Mutex!Give(c, p)

\* A sequence of at most two.
LEMMA ShortSeq ==
  ASSUME NEW S, NEW s \in Seq(S), s # <<>>, Len(s) <= 2
  PROVE  /\ Head(s) \in S /\ Tail(s) \in Seq(S)
         /\ Len(s) = 1 \/ Len(s) = 2
         /\ Len(Tail(s)) <= 2 /\ (Len(s) # 1 => Tail(s) # <<>>)
  <1>1. Len(s) \in Nat \ {0}  BY EmptySeq
  <1>2. PICK n \in Nat \ {0} : n = Len(s)  BY <1>1
  <1>3. n <= 2  BY <1>2
  <1>4. n = 1 \/ n = 2  BY <1>3
  <1>5. Head(s) \in S /\ Tail(s) \in Seq(S) /\ Len(Tail(s)) = Len(s) - 1
    BY HeadTailProperties
  <1>6. Len(Tail(s)) = n - 1  BY <1>2, <1>5
  <1>7. Len(Tail(s)) <= 2  BY <1>4, <1>6
  <1>8. n # 1 => Len(Tail(s)) = 1  BY <1>4, <1>6
  <1>9. Len(<<>>) = 0  BY EmptySeq
  <1>10. n # 1 => Tail(s) # <<>>
    <2> SUFFICES ASSUME n # 1, Tail(s) = <<>> PROVE FALSE  OBVIOUS
    <2>1. Len(<<>>) = 1  BY <1>8
    <2> QED  BY <2>1, <1>9
  <1> QED  BY <1>2, <1>4, <1>5, <1>7, <1>10

LEMMA WantedPath ==
  ASSUME Wanting, NEW c \in Clients, phase[c] = "lock"
  PROVE  /\ Head(want[c]) \in Paths /\ Tail(want[c]) \in Seq(Paths)
         /\ Len(Tail(want[c])) <= 2 /\ (Len(want[c]) # 1 => Tail(want[c]) # <<>>)
  <1>1. want[c] \in Seq(Paths) /\ want[c] # <<>> /\ Len(want[c]) <= 2  BY DEF Wanting
  <1> QED  BY <1>1, ShortSeq

LEMMA SameLocks ==
  ASSUME LInv, UNCHANGED <<entry, refs, handle>>
  PROVE  LInv' /\ HeldNow' = HeldNow
  <1>1. LockTypes' /\ Mapped' /\ Distinct'  BY DEF LInv, LockTypes, Mapped, Distinct
  <1>2. \A p \in Paths : Using(p)' = Using(p)  BY DEF Using
  <1>3. Counted'  BY <1>2 DEF LInv, Counted
  <1>4. MutualExclusion'  BY DEF LInv, MutualExclusion, Holds
  <1>5. HeldNow' = HeldNow  BY DEF HeldNow
  <1> QED  BY <1>1, <1>3, <1>4, <1>5 DEF LInv

LEMMA AskKeeps ==
  ASSUME IInv, NEW c \in Clients, Ask(c)  PROVE  IInv' /\ Seen
  <1>1. LInv' /\ HeldNow' = HeldNow  BY SameLocks DEF IInv, Ask
  <1>2. \A p, q \in Paths :
          Order(p, q) \in Seq(Paths) /\ Order(p, q) # <<>> /\ Len(Order(p, q)) <= 2
    BY DEF Order
  <1>3. Wanting'
    <2>1. PICK p \in Paths, q \in Paths : want' = [want EXCEPT ![c] = Order(p, q)]  BY DEF Ask
    <2> QED  BY <1>2, <2>1 DEF IInv, Wanting, Ask
  <1> QED  BY <1>1, <1>3 DEF IInv, Seen

LEMMA EnterKeeps ==
  ASSUME IInv, NEW c \in Clients, Enter(c)  PROVE  IInv' /\ Seen
  <1> DEFINE p == Head(want[c])
             e == IF entry[p] = NoEntry THEN CHOOSE x \in Entries : New(x) ELSE entry[p]
  <1>1. p \in Paths  BY WantedPath DEF IInv, Enter
  <1>2. /\ handle[c][p] = NoHandle
        /\ entry[p] = NoEntry => \E x \in Entries : New(x)
        /\ entry' = [entry EXCEPT ![p] = e]
        /\ refs' = [refs EXCEPT ![e] = (IF entry[p] = NoEntry THEN 0 ELSE @) + 1]
        /\ Handle(c, p, [entry |-> e, st |-> "waiting"])
    BY DEF Enter
  <1>3. e \in Entries /\ IF entry[p] = NoEntry THEN New(e) ELSE e = entry[p]
    <2>1. CASE entry[p] = NoEntry  BY <2>1, <1>2
    <2>2. CASE entry[p] # NoEntry  BY <2>2, <1>1 DEF IInv, LInv, LockTypes
    <2> QED  BY <2>1, <2>2
  <1> HIDE DEF p, e
  <1>4. LInv' /\ HeldNow' = HeldNow  BY <1>1, <1>2, <1>3, JoinKeeps DEF IInv
  <1>5. Wanting'  BY DEF IInv, Wanting, Enter
  <1> QED  BY <1>4, <1>5 DEF IInv, Seen

LEMMA GrabStep ==
  ASSUME IInv, NEW c \in Clients, Grab(c)  PROVE  IInv' /\ Seen
  <1>1. /\ Head(want[c]) \in Paths /\ Tail(want[c]) \in Seq(Paths)
        /\ Len(Tail(want[c])) <= 2 /\ (Len(want[c]) # 1 => Tail(want[c]) # <<>>)
    BY WantedPath DEF IInv, Grab
  <1>p. PICK p \in Paths : p = Head(want[c])  BY <1>1
  <1>2. /\ LInv' /\ \A d \in Clients : p \notin HeldNow[d]
        /\ HeldNow' = [HeldNow EXCEPT ![c] = @ \cup {p}]
    <2>1. /\ handle[c][p].st = "waiting"
          /\ \A d \in Clients, q \in Paths :
               handle[d][q].st = "held" => handle[d][q].entry # handle[c][p].entry
          /\ Handle(c, p, [handle[c][p] EXCEPT !.st = "held"])
          /\ UNCHANGED <<entry, refs>>
      BY <1>p DEF Grab
    <2> QED  BY <2>1, GrabKeeps DEF IInv
  <1>3. Mutex!Take(c, p)  BY <1>2 DEF Mutex!Take, Mutex!Free, HeldNow
  <1>4. Wanting'
    <2>1. /\ want' = [want EXCEPT ![c] = Tail(@)]
          /\ phase' = IF Len(want[c]) = 1 THEN [phase EXCEPT ![c] = "in"] ELSE phase
      BY DEF Grab
    <2>2. want'[c] = Tail(want[c]) /\ \A d \in Clients : d # c => want'[d] = want[d]
      BY <2>1 DEF IInv, Wanting
    <2>3. want' \in [Clients -> Seq(Paths)]  BY <2>1, <1>1 DEF IInv, Wanting
    <2>4. Len(want'[c]) <= 2  BY <1>1, <2>2
    <2>5. Len(want[c]) # 1 => want'[c] # <<>>  BY <1>1, <2>2
    <2>6. phase'[c] = "lock" => Len(want[c]) # 1  BY <2>1 DEF IInv, Wanting
    <2>7. \A d \in Clients : d # c => phase'[d] = phase[d]  BY <2>1 DEF IInv, Wanting
    <2>8. phase' \in [Clients -> {"idle", "lock", "in", "release"}]
      BY <2>1 DEF IInv, Wanting
    <2>9. \A d \in Clients : Len(want'[d]) <= 2  BY <2>2, <2>4 DEF IInv, Wanting
    <2>10. \A d \in Clients : phase'[d] = "lock" => want'[d] # <<>>
      BY <2>2, <2>5, <2>6, <2>7 DEF IInv, Wanting
    <2> QED  BY <2>3, <2>8, <2>9, <2>10 DEF Wanting
  <1>5. Seen  BY <1>3 DEF Seen
  <1> QED  BY <1>2, <1>4, <1>5 DEF IInv

LEMMA CancelledKeeps ==
  ASSUME IInv, NEW c \in Clients, Cancelled(c)  PROVE  IInv' /\ Seen
  <1>1. Head(want[c]) \in Paths  BY WantedPath DEF IInv, Cancelled
  <1>2. LInv' /\ HeldNow' = HeldNow  BY <1>1, DropKeeps DEF IInv, Cancelled
  <1>3. Wanting'  BY DEF IInv, Wanting, Cancelled
  <1> QED  BY <1>2, <1>3 DEF IInv, Seen

LEMMA FinishKeeps ==
  ASSUME IInv, NEW c \in Clients, Finish(c) \/ Leave(c)  PROVE  IInv' /\ Seen
  <1>1. LInv' /\ HeldNow' = HeldNow  BY SameLocks DEF IInv, Finish, Leave
  <1>2. Wanting'  BY DEF IInv, Wanting, Finish, Leave
  <1> QED  BY <1>1, <1>2 DEF IInv, Seen

LEMMA UnlockStep ==
  ASSUME IInv, NEW c \in Clients, Unlock(c)  PROVE  IInv' /\ Seen
  <1>1. PICK p \in Paths :
          handle[c][p].st = "held" /\ Handle(c, p, [handle[c][p] EXCEPT !.st = "freed"])
    BY DEF Unlock
  <1>2. LInv' /\ p \in HeldNow[c] /\ HeldNow' = [HeldNow EXCEPT ![c] = @ \ {p}]
    BY <1>1, UnlockKeeps DEF IInv, Unlock
  <1>3. Mutex!Give(c, p)  BY <1>2 DEF Mutex!Give, HeldNow
  <1>4. Wanting'  BY DEF IInv, Wanting, Unlock
  <1> QED  BY <1>2, <1>3, <1>4 DEF IInv, Seen

LEMMA ReleaseKeeps ==
  ASSUME IInv, NEW c \in Clients, Release(c)  PROVE  IInv' /\ Seen
  <1>1. PICK p \in Paths : handle[c][p].st = "freed" /\ Drop(c, p)  BY DEF Release
  <1>2. LInv' /\ HeldNow' = HeldNow  BY <1>1, DropKeeps DEF IInv
  <1>3. Wanting'  BY DEF IInv, Wanting, Release
  <1> QED  BY <1>2, <1>3 DEF IInv, Seen

-----------------------------------------------------------------------------
(* The theorems *)

LEMMA InitInv == Init => IInv /\ Mutex!MutexInit
  <1> SUFFICES ASSUME Init PROVE IInv /\ Mutex!MutexInit  OBVIOUS
  <1>1. NoHandle \in HandleType  BY DEF NoHandle, HandleType
  <1>2. LockTypes  BY <1>1 DEF Init, LockTypes
  <1>3. \A c \in Clients, p \in Paths : handle[c][p] = NoHandle /\ NoHandle.st = "none"
    BY DEF Init, NoHandle
  <1>4. Mapped /\ MutualExclusion  BY <1>3 DEF Mapped, MutualExclusion, Holds
  <1>5. Distinct /\ Counted  BY DEF Init, Distinct, Counted
  <1>6. Wanting  BY DEF Init, Wanting
  <1>7. Mutex!MutexInit  BY <1>3 DEF Mutex!MutexInit
  <1> QED  BY <1>2, <1>4, <1>5, <1>6, <1>7 DEF IInv, LInv

LEMMA NextInv == IInv /\ [Next]_vars => IInv' /\ Seen
  <1> SUFFICES ASSUME IInv, [Next]_vars PROVE IInv' /\ Seen  OBVIOUS
  <1>1. CASE UNCHANGED vars
    <2>1. LInv' /\ HeldNow' = HeldNow  BY <1>1, SameLocks DEF IInv, vars
    <2> QED  BY <1>1, <2>1 DEF IInv, Wanting, Seen, vars
  <1>2. ASSUME NEW c \in Clients, Ask(c) \/ Work(c) \/ Grab(c) \/ Cancelled(c)
        PROVE  IInv' /\ Seen
    BY <1>2, AskKeeps, EnterKeeps, GrabStep, CancelledKeeps, FinishKeeps, UnlockStep,
       ReleaseKeeps DEF Work
  <1> QED  BY <1>1, <1>2 DEF Next

LEMMA Invariant == Spec => []IInv
  <1>1. Init => IInv  BY InitInv
  <1>2. IInv /\ [Next]_vars => IInv'  BY NextInv
  <1> QED  BY <1>1, <1>2, PTL DEF Spec

\* The variables always have their types; a count never goes below zero.
THEOREM TypesHold == Spec => []TypeOK
  <1>1. IInv => TypeOK  BY DEF IInv, LInv, LockTypes, Wanting, TypeOK
  <1> QED  BY <1>1, Invariant, PTL

\* The map has an entry for a path exactly as long as somebody uses it, and counts
\* its users.
THEOREM EntriesAreCounted == Spec => []EntriesCounted
  <1>1. IInv => EntriesCounted
    <2> SUFFICES ASSUME IInv, NEW p \in Paths
                 PROVE  /\ entry[p] = NoEntry <=> Using(p) = {}
                        /\ entry[p] # NoEntry => refs[entry[p]] = Cardinality(Using(p))
      BY DEF EntriesCounted
    <2>1. entry[p] = NoEntry => Using(p) = {}  BY DEF IInv, LInv, Mapped, Using
    <2> QED  BY <2>1 DEF IInv, LInv, Counted
  <1> QED  BY <1>1, Invariant, PTL

\* The locks implement PathMutex: a path is taken only when nobody holds it.
THEOREM LocksImplementMutex == Spec => MutexSpec
  <1>1. Init => Mutex!MutexInit  BY InitInv
  <1>2. IInv /\ [Next]_vars => [Mutex!MutexNext]_(HeldNow)
    BY NextInv DEF Seen, Mutex!MutexNext, HeldNow
  <1> QED  BY <1>1, <1>2, Invariant, PTL DEF Spec, MutexSpec, Mutex!MutexSpec, HeldNow
=============================================================================
