------------------------- MODULE FileServiceProofs -------------------------
(***************************************************************************)
(* What is proved of the file service, for any requests on any paths: the  *)
(* handlers implement FileStore, and no answered request leaves a temp     *)
(* file behind.                                                            *)
(*                                                                         *)
(* The argument is about one request at a time.  Sound(c) says what the    *)
(* handler of c may rely on at each of its steps; the others leave it      *)
(* alone, because the files it speaks of are under its locks.              *)
(***************************************************************************)
EXTENDS FileService, FiniteSetTheorems, TLAPS

-----------------------------------------------------------------------------
(* The inductive invariant *)

\* The locks it has are those its place asks for.
Placed(c) ==
  /\ Is(c, "idle") => held[c] = {}
  /\ Is(c, "lock") => held[c] \subseteq Locks(c)
  /\ req[c].pc \in {"look", "fill", "commit", "rename", "unlink"} => held[c] = Locks(c)

\* It asks for something under a number that was given out.
Formed(c) ==
  /\ Placed(c)
  /\ Is(c, "idle") => req[c] = NoRequest
  /\ ~Is(c, "idle") => req[c].n \in 1 .. made /\ AskedBy(c) \in Asks

\* What it has done so far, and what it will say of it.
Effected(c) ==
  /\ req[c].pc \in {"lock", "look", "fill", "commit", "rename"} => effect[req[c].n] = "none"
  /\ Is(c, "unlink") => effect[req[c].n] = IF Moves(c) THEN "copied" ELSE "none"
  /\ req[c].pc \in {"close", "release"} =>
       req[c].said = IF effect[req[c].n] = "done" THEN "ok" ELSE "error"

\* What it has seen is still so, and what it is about to put in place is right.
Content(c) ==
  IF Moves(c) THEN file[req[c].src]
  ELSE IF req[c].kind \in {"append", "edit"} /\ There(req[c].src)
    THEN file[req[c].src] \cup {req[c].n}
    ELSE {req[c].n}
Seen(c) ==
  /\ Is(c, "rename") => Moves(c)
  /\ req[c].pc \in {"fill", "commit"} => req[c].kind # "remove"
  /\ Is(c, "unlink") => Moves(c) \/ req[c].kind = "remove"
  /\ req[c].pc \in {"fill", "commit", "rename"} => Allowed(c)
  /\ Is(c, "fill") /\ ~Moves(c) =>
       req[c].data = IF req[c].kind = "edit" THEN file[req[c].src] ELSE {}
  /\ Is(c, "commit") => req[c].data = Content(c)
  /\ Is(c, "unlink") /\ Moves(c) => file[req[c].dst] = file[req[c].src]

\* It has a temp file from the making of it to the rename or the Close.
Tidy(c) ==
  ~Is(c, "idle") =>
    /\ answer[req[c].n] = "none"
    /\ req[c].n \in temps => req[c].pc \in {"commit", "close"}
    /\ Is(c, "commit") => req[c].n \in temps

Sound(c) == Formed(c) /\ Effected(c) /\ Seen(c) /\ Tidy(c)

\* Requests have different numbers, and their locks different paths.
Apart ==
  \A c, d \in Clients : c # d =>
    held[c] \cap held[d] = {} /\ (req[c].n = req[d].n => req[c].n = 0)

\* A number that has not been given out has no history.
Fresh ==
  \A n \in Requests :
    n > made => effect[n] = "none" /\ answer[n] = "none" /\ n \notin temps

IInv == TypeOK /\ Apart /\ Fresh /\ TempsCleaned /\ \A c \in Clients : Sound(c)

-----------------------------------------------------------------------------
(* One client's step *)

\* What every step of c leaves alone, and what it may do to its own.
Local(c) ==
  /\ made' \in {made, made + 1}
  /\ \A d \in Clients : d # c => req'[d] = req[d] /\ held'[d] = held[d]
  /\ \A n \in Requests : n \notin {req[c].n, req'[c].n} =>
       effect'[n] = effect[n] /\ answer'[n] = answer[n] /\ (n \in temps' <=> n \in temps)
  /\ \A p \in Paths \ held[c] : file'[p] = file[p]
  /\ req'[c].n \in {req[c].n, 0} \/ (made' = made + 1 /\ req'[c].n = made')
  /\ \A p \in held'[c] \ held[c] : Free(p)
  /\ req[c].n # 0 => answer'[req[c].n] = "none" \/ req[c].n \notin temps'

\* The number of a request is one that was given out.
LEMMA Numbers ==
  ASSUME TypeOK, NEW c \in Clients, Formed(c)
  PROVE  /\ req[c].n \in Nat /\ req[c].n <= made /\ made \in Nat
         /\ Is(c, "idle") <=> req[c].n = 0
         /\ ~Is(c, "idle") => req[c].n \in Requests
  BY FileAssumption DEF TypeOK, RequestType, Formed, Is, NoRequest, Requests

\* A request that is open asks for something, on paths.
LEMMA Asking ==
  ASSUME TypeOK, NEW c \in Clients, Formed(c), ~Is(c, "idle")
  PROVE  /\ req[c].kind \in Kinds /\ req[c].src \in Paths /\ req[c].dst \in Paths
         /\ Moves(c) <=> req[c].src # req[c].dst
  BY DEF Formed, AskedBy, Asks, Moves

\* The others' requests are not disturbed: what they rely on is theirs.
LEMMA OtherSound ==
  ASSUME IInv, NEW c \in Clients, Local(c), NEW d \in Clients, d # c
  PROVE  Sound(d)'
<1>1. TypeOK /\ Sound(d) /\ Apart  BY DEF IInv
<1>2. req'[d] = req[d] /\ held'[d] = held[d]  BY DEF Local
<1>3. ASSUME ~Is(d, "idle")
      PROVE  /\ effect'[req[d].n] = effect[req[d].n]
             /\ answer'[req[d].n] = answer[req[d].n]
             /\ req[d].n \in temps' <=> req[d].n \in temps
  <2>1. req[d].n \in Requests /\ req[d].n # 0 /\ req[d].n <= made /\ made \in Nat
    BY <1>1, <1>3, Numbers DEF Sound, Requests
  <2>2. req[d].n # req[c].n  BY <1>1, <2>1 DEF Apart
  <2>3. req[d].n # req'[c].n  BY <2>1, <2>2 DEF Local
  <2> QED  BY <2>1, <2>2, <2>3 DEF Local
<1>4. \A p \in held[d] : file'[p] = file[p]
  <2>1. held[d] \subseteq Paths  BY <1>1 DEF TypeOK
  <2> QED  BY <1>1, <2>1 DEF Apart, Local
<1>5. Formed(d)'
  <2>1. made' \in Nat /\ made' >= made /\ made \in Nat  BY <1>1 DEF Local, TypeOK
  <2> QED  BY <1>1, <1>2, <2>1 DEF Sound, Formed, Placed, Is, AskedBy, Locks
<1>6. Effected(d)'
  BY <1>1, <1>2, <1>3 DEF Sound, Effected, Is, Moves
<1>7. Tidy(d)'
  BY <1>1, <1>2, <1>3 DEF Sound, Tidy, Is
<1>8. Seen(d)'
  <2>1. req[d].pc \in {"fill", "commit", "rename", "unlink"} =>
          file'[req[d].src] = file[req[d].src] /\ file'[req[d].dst] = file[req[d].dst]
    BY <1>1, <1>4 DEF Sound, Formed, Placed, Locks
  <2> QED
    BY <1>1, <1>2, <2>1 DEF Sound, Seen, Is, Moves, Allowed, There, Content
<1> QED  BY <1>5, <1>6, <1>7, <1>8 DEF Sound

\* With its own request sound after it, a step of c keeps the invariant.
LEMMA LocalKeeps ==
  ASSUME IInv, NEW c \in Clients, Local(c), TypeOK', Sound(c)'
  PROVE  IInv'
<1>1. \A d \in Clients : Sound(d)'  BY OtherSound
<1>2. \A d \in Clients : req[d].n \in Nat /\ req[d].n <= made /\ made \in Nat
  BY Numbers DEF IInv, Sound
<1>3. Apart'
  <2>1. SUFFICES ASSUME NEW d \in Clients, d # c
                 PROVE  /\ held'[c] \cap held[d] = {}
                        /\ req'[c].n = req[d].n => req[d].n = 0
    BY DEF Local, Apart, IInv
  <2>2. held'[c] \cap held[d] = {}  BY <2>1 DEF Local, Apart, IInv, Free
  <2>3. req'[c].n = req[d].n => req[d].n = 0
    BY <1>2, <2>1 DEF Local, Apart, IInv
  <2> QED  BY <2>2, <2>3
<1>4. Fresh'
  <2>1. SUFFICES ASSUME NEW n \in Requests, n > made'
                 PROVE  effect'[n] = "none" /\ answer'[n] = "none" /\ n \notin temps'
    BY DEF Fresh
  <2>2. n \in Nat /\ made' \in Nat /\ n > made  BY <1>2, <2>1 DEF Local, Requests
  <2>3. n # req[c].n /\ n # req'[c].n  BY <1>2, <2>1, <2>2 DEF Local
  <2> QED  BY <2>2, <2>3 DEF Local, Fresh, IInv
<1>5. TempsCleaned'
  <2>1. SUFFICES ASSUME NEW n \in Requests, answer'[n] # "none"  PROVE n \notin temps'
    BY DEF TempsCleaned
  <2>2. n # 0  BY DEF Requests
  <2>3. CASE n = req[c].n  BY <2>1, <2>2, <2>3 DEF Local
  <2>4. CASE n = req'[c].n
    <3>1. ~Is(c, "idle")'
      BY <2>2, <2>4 DEF Sound, Formed, NoRequest, Is
    <3> QED  BY <2>1, <2>4, <3>1 DEF Sound, Tidy
  <2>5. CASE n \notin {req[c].n, req'[c].n}
    BY <2>1, <2>5 DEF Local, IInv, TempsCleaned
  <2> QED  BY <2>3, <2>4, <2>5
<1> QED  BY <1>1, <1>3, <1>4, <1>5 DEF IInv
-----------------------------------------------------------------------------
(* How a request goes on *)

\* Only c's request moves, and asks for what it did.
Turned(c) ==
  /\ req' \in [Clients -> RequestType]
  /\ \A d \in Clients : d # c => req'[d] = req[d]
  /\ req'[c].n = req[c].n /\ req'[c].kind = req[c].kind
  /\ req'[c].src = req[c].src /\ req'[c].dst = req[c].dst

\* The handler goes on to another place.
LEMMA GoesTurns ==
  ASSUME TypeOK, NEW c \in Clients, NEW pc \in PCs, Goes(c, pc)
  PROVE  /\ Turned(c)
         /\ req'[c].pc = pc /\ req'[c].data = req[c].data /\ req'[c].said = req[c].said
<1>1. req \in [Clients -> RequestType] /\ req' = [req EXCEPT ![c] = [req[c] EXCEPT !.pc = pc]]
  BY DEF TypeOK, Goes
<1>2. [req[c] EXCEPT !.pc = pc] \in RequestType  BY <1>1 DEF RequestType
<1>3. req'[c] = [req[c] EXCEPT !.pc = pc]  BY <1>1
<1> QED  BY <1>1, <1>2, <1>3 DEF Turned, RequestType

\* The handler has its result.
LEMMA EndsTurns ==
  ASSUME TypeOK, NEW c \in Clients, NEW pc \in PCs, NEW said \in {"none", "ok", "error"},
         Ends(c, pc, said)
  PROVE  /\ Turned(c)
         /\ req'[c].pc = pc /\ req'[c].data = req[c].data /\ req'[c].said = said
<1>1. /\ req \in [Clients -> RequestType]
      /\ req' = [req EXCEPT ![c] = [req[c] EXCEPT !.pc = pc, !.said = said]]
  BY DEF TypeOK, Ends
<1>2. [req[c] EXCEPT !.pc = pc, !.said = said] \in RequestType  BY <1>1 DEF RequestType
<1>3. req'[c] = [req[c] EXCEPT !.pc = pc, !.said = said]  BY <1>1
<1> QED  BY <1>1, <1>2, <1>3 DEF Turned, RequestType

\* The handler returns, to its deferred calls.
LEMMA ReturnsTurns ==
  ASSUME TypeOK, NEW c \in Clients, NEW said \in {"ok", "error"}, Returns(c, said)
  PROVE  /\ Turned(c)
         /\ req'[c].pc = IF req[c].n \in temps THEN "close" ELSE "release"
         /\ req'[c].said = said
  BY EndsTurns DEF Returns, PCs

\* The effect a request writes down is its own.
LEMMA TakesOwn ==
  ASSUME TypeOK, NEW c \in Clients, Formed(c), ~Is(c, "idle"),
         NEW to \in {"none", "copied", "done"}, Takes(c, to)
  PROVE  /\ effect' \in [Requests -> {"none", "copied", "done"}]
         /\ effect'[req[c].n] = to
         /\ \A n \in Requests : n # req[c].n => effect'[n] = effect[n]
  BY Numbers DEF Takes, TypeOK

\* A step of c on its own request, its locks and the files under them.
Proper(c) ==
  /\ ~Is(c, "idle") /\ req'[c].pc # "idle" /\ Turned(c)
  /\ UNCHANGED <<made, answer>>
  /\ held' \in [Clients -> SUBSET Paths] /\ file' \in [Paths -> Contents \cup {Absent}]
  /\ temps' \subseteq Requests /\ effect' \in [Requests -> {"none", "copied", "done"}]
  /\ \A d \in Clients : d # c => held'[d] = held[d]
  /\ \A p \in held'[c] \ held[c] : Free(p)
  /\ \A p \in Paths \ held[c] : file'[p] = file[p]
  /\ \A n \in Requests : n # req[c].n =>
       effect'[n] = effect[n] /\ (n \in temps' <=> n \in temps)

\* A proper step need only leave the request right for its new place.
LEMMA ProperKeeps ==
  ASSUME IInv, NEW c \in Clients, Proper(c),
         Placed(c)', Effected(c)', Seen(c)',
         req[c].n \in temps' => req'[c].pc \in {"commit", "close"},
         req'[c].pc = "commit" => req[c].n \in temps'
  PROVE  IInv'
<1>1. TypeOK /\ Sound(c)  BY DEF IInv
<1>2. TypeOK'  BY <1>1 DEF TypeOK, Proper, Turned
<1>3. answer[req[c].n] = "none"  BY <1>1 DEF Sound, Tidy, Proper
<1>4. Local(c)  BY <1>3 DEF Local, Proper, Turned
<1>5. Formed(c)'
  BY <1>1 DEF Sound, Formed, Placed, Proper, Turned, Is, AskedBy
<1>6. Tidy(c)'  BY <1>3 DEF Tidy, Proper, Turned, Is
<1> QED  BY <1>2, <1>4, <1>5, <1>6, LocalKeeps DEF Sound

-----------------------------------------------------------------------------
(* The steps *)

\* The last lock a request takes gives it all those it needs.
LEMMA LockKeeps ==
  ASSUME IInv, NEW c \in Clients, Lock(c)
  PROVE  IInv' /\ Turned(c)
<1>1. TypeOK /\ Sound(c) /\ Is(c, "lock") /\ ~Is(c, "idle") BY DEF IInv, Lock, Is
<1> DEFINE left == Locks(c) \ held[c]
<1>2. PICK p \in left : Take(c, p)  BY DEF Lock
<1>3. /\ Turned(c)
      /\ Is(c, "lock")' \/ Is(c, "look")'
      /\ Is(c, "look")' => left = {p}
  <2>1. CASE Cardinality(left) = 1
    <3>1. Goes(c, "look")  BY <2>1 DEF Lock
    <3>2. IsFiniteSet(left)
      <4>1. Locks(c) = {req[c].src} \cup {req[c].dst}  BY DEF Locks
      <4>2. IsFiniteSet({req[c].src})  BY FS_Singleton
      <4>3. IsFiniteSet(Locks(c))  BY <4>1, <4>2, FS_AddElement
      <4> QED  BY <4>3, FS_Subset
    <3>3. left = {p}  BY <1>2, <2>1, <3>2, FS_Singleton
    <3> QED  BY <1>1, <3>1, <3>3, GoesTurns DEF PCs, Is
  <2>2. CASE Cardinality(left) # 1
    <3>1. req' = req  BY <2>2 DEF Lock
    <3> QED  BY <1>1, <3>1 DEF Turned, TypeOK, Is
  <2> QED  BY <2>1, <2>2
<1>4. Locks(c)' = Locks(c) /\ Locks(c) \subseteq Paths
  BY <1>1, <1>3, Asking DEF Locks, Turned, Sound
<1>5. held' = [held EXCEPT ![c] = @ \cup {p}] /\ Free(p)  BY <1>2 DEF Take
<1>6. held'[c] = held[c] \cup {p} /\ \A d \in Clients : d # c => held'[d] = held[d]
  BY <1>1, <1>5 DEF TypeOK
<1>7. held[c] \subseteq Locks(c)  BY <1>1 DEF Sound, Formed, Placed
<1>8. Proper(c)
  BY <1>1, <1>3, <1>4, <1>5, <1>6 DEF Proper, Lock, TypeOK, Is
<1>9. Placed(c)'  BY <1>3, <1>4, <1>6, <1>7 DEF Placed, Is
<1>10. Effected(c)' /\ Seen(c)'
  BY <1>1, <1>3 DEF Sound, Effected, Seen, Lock, Turned, Is
<1>11. req[c].n \notin temps'  BY <1>1 DEF Sound, Tidy, Lock, Is
<1> QED  BY <1>3, <1>8, <1>9, <1>10, <1>11, ProperKeeps DEF Is

\* A handler that returns an error before it has changed anything.
LEMMA RefusalKeeps ==
  ASSUME IInv, NEW c \in Clients, req[c].pc \in {"lock", "look", "fill", "commit", "rename", "unlink"},
         Returns(c, "error"), UNCHANGED <<held, file, temps, made, effect, answer>>
  PROVE  IInv' /\ Turned(c)
<1>1. TypeOK /\ Sound(c) /\ ~Is(c, "idle")  BY DEF IInv, Is
<1>2. /\ Turned(c) /\ req'[c].said = "error"
      /\ req'[c].pc = IF req[c].n \in temps THEN "close" ELSE "release"
  BY <1>1, ReturnsTurns
<1>3. Proper(c)  BY <1>1, <1>2 DEF Proper, TypeOK
<1>4. Placed(c)' /\ Seen(c)'  BY <1>2 DEF Placed, Seen, Is
<1>5. effect[req[c].n] # "done"
  BY <1>1 DEF Sound, Effected, Is
<1>6. Effected(c)'  BY <1>2, <1>5 DEF Effected, Is, Turned
<1> QED  BY <1>2, <1>3, <1>4, <1>6, ProperKeeps

\* What the look lets through holds under the locks.
LEMMA LookKeeps ==
  ASSUME IInv, NEW c \in Clients, Look(c)
  PROVE  IInv' /\ Turned(c)
<1>1. TypeOK /\ Sound(c) /\ Is(c, "look") /\ ~Is(c, "idle")  BY DEF IInv, Look, Is
<1>2. CASE Returns(c, "error")  BY <1>1, <1>2, RefusalKeeps DEF Look, Is
<1>3. CASE ~Returns(c, "error")
  <2> DEFINE to   == IF req[c].kind = "remove" THEN "unlink"
                     ELSE IF Moves(c) THEN "rename" ELSE "fill"
             data == IF req[c].kind = "edit" THEN file[req[c].src] ELSE {}
  <2>1. Allowed(c) /\ req' = [req EXCEPT ![c] = [req[c] EXCEPT !.pc = to, !.data = data]]
    BY <1>3 DEF Look
  <2>2. to \in PCs /\ to \in {"unlink", "rename", "fill"}  BY DEF PCs
  <2>3. data \in Contents
    BY <1>1, <2>1, Asking DEF Sound, Allowed, There, TypeOK, Contents
  <2>4. req \in [Clients -> RequestType]  BY <1>1 DEF TypeOK
  <2>5. [req[c] EXCEPT !.pc = to, !.data = data] \in RequestType
    BY <2>2, <2>3, <2>4 DEF RequestType
  <2>6. req'[c] = [req[c] EXCEPT !.pc = to, !.data = data]  BY <2>1, <2>4
  <2>7. Turned(c) /\ req'[c].pc = to /\ req'[c].data = data
    BY <2>1, <2>4, <2>5, <2>6 DEF Turned, RequestType
  <2> HIDE DEF to, data
  <2>8. Proper(c)  BY <1>1, <2>2, <2>7 DEF Proper, Look, TypeOK
  <2>9. Placed(c)'
    BY <1>1, <2>2, <2>7 DEF Placed, Sound, Formed, Locks, Look, Turned, Is
  <2>10. Effected(c)'
    BY <1>1, <2>2, <2>7 DEF Effected, Sound, Look, Turned, Is, Moves, to
  <2>11. Seen(c)'
    <3>1. Allowed(c)'  BY <2>1, <2>7 DEF Allowed, There, Look, Turned
    <3> QED  BY <2>2, <2>7, <3>1 DEF Seen, Look, Turned, Is, Moves, to, data
  <2>12. req[c].n \notin temps'  BY <1>1 DEF Sound, Tidy, Look, Is
  <2> QED  BY <2>2, <2>7, <2>8, <2>9, <2>10, <2>11, <2>12, ProperKeeps
<1> QED  BY <1>2, <1>3

\* What is put in the temp file is what the request is to leave.
LEMMA FillKeeps ==
  ASSUME IInv, NEW c \in Clients, Fill(c)
  PROVE  IInv' /\ Turned(c)
<1>1. TypeOK /\ Sound(c) /\ Is(c, "fill") /\ ~Is(c, "idle")  BY DEF IInv, Fill, Is
<1> DEFINE x    == req[c]
           old  == IF (Moves(c) \/ x.kind = "append") /\ There(x.src)
                     THEN file[x.src] ELSE x.data
           data == IF Moves(c) THEN old ELSE old \cup {x.n}
<1>2. /\ req \in [Clients -> RequestType]
      /\ req' = [req EXCEPT ![c] = [req[c] EXCEPT !.pc = "commit", !.data = data]]
  BY <1>1 DEF TypeOK, Fill
<1>3. x.n \in Requests /\ x.kind \in Kinds /\ x.src \in Paths
  BY <1>1, Numbers, Asking DEF Sound
<1>4. data \in Contents
  <2>1. x.data \in Contents  BY <1>2 DEF RequestType
  <2>2. There(x.src) => file[x.src] \in Contents  BY <1>1, <1>3 DEF TypeOK, There
  <2> QED  BY <1>3, <2>1, <2>2 DEF Contents
<1>5. [req[c] EXCEPT !.pc = "commit", !.data = data] \in RequestType
  BY <1>2, <1>4 DEF RequestType, PCs
<1>6. req'[c] = [req[c] EXCEPT !.pc = "commit", !.data = data]  BY <1>2
<1>7. Turned(c) /\ req'[c].pc = "commit" /\ req'[c].data = data
  BY <1>2, <1>5, <1>6 DEF Turned, RequestType
<1>8. data = Content(c)
  <2>1. Allowed(c)  BY <1>1 DEF Sound, Seen, Is
  <2>2. CASE Moves(c)
    BY <2>1, <2>2 DEF Allowed, Moves, There, Content
  <2>3. CASE ~Moves(c)
    <3>1. x.data = IF x.kind = "edit" THEN file[x.src] ELSE {}
      BY <1>1, <2>3 DEF Sound, Seen
    <3>2. x.kind = "edit" => There(x.src)  BY <2>1 DEF Allowed
    <3> QED  BY <2>3, <3>1, <3>2 DEF Content
  <2> QED  BY <2>2, <2>3
<1> HIDE DEF data
<1>9. temps' = temps \cup {x.n}  BY DEF Fill
<1>10. Proper(c)
  BY <1>1, <1>3, <1>7, <1>9 DEF Proper, Fill, TypeOK
<1>11. Placed(c)'
  BY <1>1, <1>7 DEF Placed, Sound, Formed, Locks, Fill, Turned, Is
<1>12. Effected(c)'  BY <1>1, <1>7 DEF Effected, Sound, Fill, Turned, Is
<1>13. Seen(c)'
  <2>1. Allowed(c)'
    BY <1>1, <1>7 DEF Allowed, There, Sound, Seen, Fill, Turned, Is
  <2>2. Content(c)' = Content(c)
    BY <1>7 DEF Content, Moves, There, Fill, Turned
  <2>3. req[c].kind # "remove"  BY <1>1 DEF Sound, Seen, Is
  <2> QED  BY <1>7, <1>8, <2>1, <2>2, <2>3 DEF Seen, Is, Turned
<1> QED  BY <1>7, <1>9, <1>10, <1>11, <1>12, <1>13, ProperKeeps

\* Close removes the temp file.
LEMMA CloseKeeps ==
  ASSUME IInv, NEW c \in Clients, Close(c)
  PROVE  IInv' /\ Turned(c)
<1>1. TypeOK /\ Sound(c) /\ Is(c, "close") /\ ~Is(c, "idle")  BY DEF IInv, Close, Is
<1>2. Turned(c) /\ req'[c].pc = "release" /\ req'[c].said = req[c].said
  BY <1>1, GoesTurns DEF Close, PCs
<1>3. req[c].n \notin temps' /\ temps' = temps \ {req[c].n}  BY DEF Close
<1>4. Proper(c)  BY <1>1, <1>2, <1>3 DEF Proper, Close, TypeOK
<1>5. Placed(c)' /\ Seen(c)'  BY <1>2 DEF Placed, Seen, Is
<1>6. Effected(c)'  BY <1>1, <1>2 DEF Effected, Sound, Close, Turned, Is
<1> QED  BY <1>2, <1>3, <1>4, <1>5, <1>6, ProperKeeps

\* A lock is given back once the files under it are done with.
LEMMA ReleaseKeeps ==
  ASSUME IInv, NEW c \in Clients, Release(c)
  PROVE  IInv' /\ Turned(c)
<1>1. TypeOK /\ Sound(c) /\ Is(c, "release") /\ ~Is(c, "idle")  BY DEF IInv, Release, Is
<1>2. req' = req  BY DEF Release
<1>3. Turned(c)  BY <1>1, <1>2 DEF Turned, TypeOK
<1>4. PICK p \in held[c] : held' = [held EXCEPT ![c] = @ \ {p}]  BY DEF Release, Give
<1>5. /\ held'[c] = held[c] \ {p}
      /\ \A d \in Clients : d # c => held'[d] = held[d]
      /\ held' \in [Clients -> SUBSET Paths]
  BY <1>1, <1>4 DEF TypeOK
<1>6. Proper(c)  BY <1>1, <1>2, <1>3, <1>5 DEF Proper, Release, TypeOK, Is
<1>7. Placed(c)' /\ Seen(c)'  BY <1>1, <1>2 DEF Placed, Seen, Is
<1>8. Effected(c)'  BY <1>1, <1>2 DEF Effected, Sound, Release, Is
<1>9. req[c].n \notin temps'  BY <1>1 DEF Sound, Tidy, Release, Is
<1> QED  BY <1>1, <1>2, <1>3, <1>6, <1>7, <1>8, <1>9, ProperKeeps DEF Is

\* The step that puts the content of a request in place.
LEMMA CommitKeeps ==
  ASSUME IInv, NEW c \in Clients, Commit(c)
  PROVE  IInv' /\ Turned(c)
<1>1. TypeOK /\ Sound(c) /\ Is(c, "commit") /\ ~Is(c, "idle")  BY DEF IInv, Commit, Is
<1>2. /\ Turned(c)
      /\ Moves(c)  => req'[c].pc = "unlink" /\ Takes(c, "copied")
      /\ ~Moves(c) => req'[c].pc = "release" /\ req'[c].said = "ok" /\ Takes(c, "done")
  BY <1>1, GoesTurns, EndsTurns DEF Commit, PCs
<1>3. /\ req[c].n \in Requests /\ req[c].src \in Paths /\ req[c].dst \in Paths
      /\ Moves(c) <=> req[c].src # req[c].dst
  BY <1>1, Numbers, Asking DEF Sound
<1>4. req[c].data \in Contents  BY <1>1 DEF TypeOK, RequestType
<1>5. /\ file' = [file EXCEPT ![req[c].dst] = req[c].data]
      /\ temps' = temps \ {req[c].n}
  BY DEF Commit
<1>6. /\ effect' \in [Requests -> {"none", "copied", "done"}]
      /\ effect'[req[c].n] = IF Moves(c) THEN "copied" ELSE "done"
      /\ \A n \in Requests : n # req[c].n => effect'[n] = effect[n]
  BY <1>1, <1>2, TakesOwn DEF Sound
<1>7. held[c] = Locks(c)  BY <1>1 DEF Sound, Formed, Placed, Is
<1>8. Proper(c)
  <2>1. file' \in [Paths -> Contents \cup {Absent}]  BY <1>1, <1>4, <1>5 DEF TypeOK
  <2>2. \A p \in Paths \ held[c] : file'[p] = file[p]
    BY <1>1, <1>5, <1>7 DEF TypeOK, Locks
  <2> QED  BY <1>1, <1>2, <1>5, <1>6, <2>1, <2>2 DEF Proper, Commit, TypeOK
<1>9. Placed(c)'  BY <1>2, <1>7 DEF Placed, Locks, Commit, Turned, Is
<1>10. Effected(c)'  BY <1>2, <1>6 DEF Effected, Turned, Is, Moves
<1>11. Seen(c)'
  <2>1. Moves(c) => file'[req[c].dst] = file[req[c].src] /\ file'[req[c].src] = file[req[c].src]
    BY <1>1, <1>3, <1>5 DEF Sound, Seen, Content, TypeOK
  <2> QED  BY <1>2, <2>1 DEF Seen, Is, Turned, Moves
<1> QED  BY <1>2, <1>5, <1>8, <1>9, <1>10, <1>11, ProperKeeps

\* The files after p's content went to q.
LEMMA Moved ==
  ASSUME TypeOK, NEW p \in Paths, NEW q \in Paths,
         file' = [file EXCEPT ![p] = Absent, ![q] = file[p]]
  PROVE  /\ file' \in [Paths -> Contents \cup {Absent}]
         /\ \A r \in Paths : r \notin {p, q} => file'[r] = file[r]
  BY DEF TypeOK

\* The rename does the move, is refused, or leaves it to the copy.
LEMMA RenameKeeps ==
  ASSUME IInv, NEW c \in Clients, Rename(c)
  PROVE  IInv' /\ Turned(c)
<1>1. TypeOK /\ Sound(c) /\ Is(c, "rename") /\ ~Is(c, "idle")  BY DEF IInv, Rename, Is
<1>2. /\ req[c].n \in Requests /\ req[c].src \in Paths /\ req[c].dst \in Paths
      /\ held[c] = Locks(c) /\ req[c].n \notin temps
  BY <1>1, Numbers, Asking DEF Sound, Formed, Placed, Tidy, Is
<1>3. CASE /\ file' = [file EXCEPT ![req[c].src] = Absent, ![req[c].dst] = file[req[c].src]]
           /\ Takes(c, "done") /\ Returns(c, "ok")
  <2>1. Turned(c) /\ req'[c].pc = "release" /\ req'[c].said = "ok"
    BY <1>1, <1>2, <1>3, ReturnsTurns
  <2>2. /\ effect' \in [Requests -> {"none", "copied", "done"}]
        /\ effect'[req[c].n] = "done"
        /\ \A n \in Requests : n # req[c].n => effect'[n] = effect[n]
    BY <1>1, <1>3, TakesOwn DEF Sound
  <2>3. /\ file' \in [Paths -> Contents \cup {Absent}]
        /\ \A p \in Paths \ held[c] : file'[p] = file[p]
    BY <1>1, <1>2, <1>3, Moved DEF Locks
  <2>4. Proper(c)
    BY <1>1, <2>1, <2>2, <2>3 DEF Proper, Rename, TypeOK
  <2>5. Placed(c)' /\ Seen(c)'  BY <2>1 DEF Placed, Seen, Is
  <2>6. Effected(c)'  BY <2>1, <2>2 DEF Effected, Turned, Is
  <2>7. req[c].n \notin temps'  BY <1>2 DEF Rename
  <2> QED  BY <2>1, <2>4, <2>5, <2>6, <2>7, ProperKeeps
<1>4. CASE Returns(c, "error") /\ UNCHANGED <<file, effect>>
  BY <1>1, <1>4, RefusalKeeps DEF Rename, Is
<1>5. CASE Goes(c, "fill") /\ UNCHANGED <<file, effect>>
  <2>1. Turned(c) /\ req'[c].pc = "fill"  BY <1>1, <1>5, GoesTurns DEF PCs
  <2>2. Moves(c)  BY <1>1 DEF Sound, Seen
  <2>3. Proper(c)  BY <1>1, <1>5, <2>1 DEF Proper, Rename, TypeOK
  <2>4. Placed(c)'  BY <1>2, <2>1 DEF Placed, Locks, Rename, Turned, Is
  <2>5. Effected(c)'
    BY <1>1, <1>5, <2>1 DEF Effected, Sound, Turned, Is
  <2>6. Seen(c)'
    BY <1>1, <1>5, <2>1, <2>2 DEF Seen, Sound, Allowed, There, Turned, Is, Moves
  <2>7. req[c].n \notin temps'  BY <1>2 DEF Rename
  <2> QED  BY <2>1, <2>3, <2>4, <2>5, <2>6, <2>7, ProperKeeps
<1> QED  BY <1>3, <1>4, <1>5 DEF Rename

\* The removal of a file, or of the source of a copy.
LEMMA UnlinkKeeps ==
  ASSUME IInv, NEW c \in Clients, Unlink(c)
  PROVE  IInv' /\ Turned(c)
<1>1. TypeOK /\ Sound(c) /\ Is(c, "unlink") /\ ~Is(c, "idle")  BY DEF IInv, Unlink, Is
<1>2. /\ req[c].n \in Requests /\ req[c].src \in Paths
      /\ held[c] = Locks(c) /\ req[c].n \notin temps
  BY <1>1, Numbers, Asking DEF Sound, Formed, Placed, Tidy, Is
<1>3. CASE file' = [file EXCEPT ![req[c].src] = Absent] /\ Takes(c, "done") /\ Returns(c, "ok")
  <2>1. Turned(c) /\ req'[c].pc = "release" /\ req'[c].said = "ok"
    BY <1>1, <1>2, <1>3, ReturnsTurns
  <2>2. /\ effect' \in [Requests -> {"none", "copied", "done"}]
        /\ effect'[req[c].n] = "done"
        /\ \A n \in Requests : n # req[c].n => effect'[n] = effect[n]
    BY <1>1, <1>3, TakesOwn DEF Sound
  <2>3. /\ file' \in [Paths -> Contents \cup {Absent}]
        /\ \A p \in Paths \ held[c] : file'[p] = file[p]
    BY <1>1, <1>2, <1>3 DEF Locks, TypeOK
  <2>4. Proper(c)
    BY <1>1, <2>1, <2>2, <2>3 DEF Proper, Unlink, TypeOK
  <2>5. Placed(c)' /\ Seen(c)'  BY <2>1 DEF Placed, Seen, Is
  <2>6. Effected(c)'  BY <2>1, <2>2 DEF Effected, Turned, Is
  <2>7. req[c].n \notin temps'  BY <1>2 DEF Unlink
  <2> QED  BY <2>1, <2>4, <2>5, <2>6, <2>7, ProperKeeps
<1>4. CASE Returns(c, "error") /\ UNCHANGED <<file, effect>>
  BY <1>1, <1>4, RefusalKeeps DEF Unlink, Is
<1> QED  BY <1>3, <1>4 DEF Unlink

\* A new request has a number and no history.
LEMMA ArriveKeeps ==
  ASSUME IInv, NEW c \in Clients, Arrive(c)
  PROVE  /\ IInv'
         /\ made + 1 \in Requests /\ req'[c].n = made + 1 /\ AskedBy(c)' \in Asks
         /\ \A d \in Clients : d # c => req'[d] = req[d]
<1>1. TypeOK /\ Sound(c) /\ Is(c, "idle")  BY DEF IInv, Arrive
<1>2. PICK a \in Asks :
        req' = [req EXCEPT ![c] = [NoRequest EXCEPT !.n = made + 1, !.kind = a.kind,
                                     !.src = a.src, !.dst = a.dst, !.pc = "lock"]]
  BY DEF Arrive
<1>3. /\ a \in [kind : Kinds, src : Paths, dst : Paths]
      /\ a.kind \in {"move", "overwrite"} <=> a.src # a.dst
  BY DEF Asks
<1>4. /\ made \in Nat /\ made < MaxRequests /\ made' = made + 1
      /\ made + 1 \in Requests /\ made' \in 0 .. MaxRequests
  BY <1>1, FileAssumption DEF Arrive, TypeOK, Requests
<1> DEFINE x == [NoRequest EXCEPT !.n = made + 1, !.kind = a.kind, !.src = a.src,
                                  !.dst = a.dst, !.pc = "lock"]
<1>5. x.n = made + 1 /\ x.kind = a.kind /\ x.src = a.src /\ x.dst = a.dst /\ x.pc = "lock"
  BY DEF NoRequest
<1>6. x \in RequestType
  BY <1>3, <1>4 DEF NoRequest, RequestType, PCs, Contents
<1>7. req \in [Clients -> RequestType] /\ req' = [req EXCEPT ![c] = x]
  BY <1>1, <1>2 DEF TypeOK
<1> HIDE DEF x
<1>8. /\ req' \in [Clients -> RequestType] /\ req'[c] = x
      /\ \A d \in Clients : d # c => req'[d] = req[d]
  BY <1>6, <1>7
<1>9. TypeOK'  BY <1>1, <1>4, <1>8 DEF TypeOK, Arrive
<1>10. req[c].n = 0  BY <1>1 DEF Sound, Formed, NoRequest
<1>11. Local(c)  BY <1>4, <1>5, <1>8, <1>10 DEF Local, Arrive
<1>12. AskedBy(c)' \in Asks  BY <1>3, <1>5, <1>8 DEF AskedBy, Asks
<1>13. effect[made + 1] = "none" /\ answer[made + 1] = "none" /\ made + 1 \notin temps
  BY <1>4 DEF IInv, Fresh
<1>14. Formed(c)'
  <2>1. Placed(c)'  BY <1>1, <1>5, <1>8 DEF Sound, Formed, Placed, Arrive, Is
  <2> QED  BY <1>4, <1>5, <1>8, <1>12, <2>1 DEF Formed, Is
<1>15. Effected(c)' /\ Seen(c)' /\ Tidy(c)'
  BY <1>5, <1>8, <1>13 DEF Effected, Seen, Tidy, Arrive, Is
<1> QED  BY <1>4, <1>5, <1>8, <1>9, <1>11, <1>12, <1>14, <1>15, LocalKeeps DEF Sound

\* An answered request is over.
LEMMA ReplyKeeps ==
  ASSUME IInv, NEW c \in Clients, Reply(c)
  PROVE  /\ IInv'
         /\ req'[c] = NoRequest /\ \A d \in Clients : d # c => req'[d] = req[d]
<1>1. TypeOK /\ Sound(c) /\ Is(c, "release") /\ ~Is(c, "idle")  BY DEF IInv, Reply, Is
<1>2. NoRequest \in RequestType  BY DEF NoRequest, RequestType, PCs, Contents
<1>3. /\ req' = [req EXCEPT ![c] = NoRequest] /\ req' \in [Clients -> RequestType]
      /\ req'[c] = NoRequest /\ \A d \in Clients : d # c => req'[d] = req[d]
  BY <1>1, <1>2 DEF Reply, TypeOK
<1>4. req[c].n \in Requests /\ req[c].n \notin temps
  BY <1>1, Numbers DEF Sound, Tidy, Is
<1>5. req[c].said \in {"none", "ok", "error"}  BY <1>1 DEF TypeOK, RequestType
<1>6. /\ answer' \in [Requests -> {"none", "ok", "error"}]
      /\ \A n \in Requests : n # req[c].n => answer'[n] = answer[n]
  BY <1>1, <1>4, <1>5 DEF Reply, TypeOK
<1>7. TypeOK'  BY <1>1, <1>3, <1>6 DEF TypeOK, Reply
<1>8. Local(c)
  BY <1>3, <1>4, <1>6 DEF Local, Reply, NoRequest
<1>9. Sound(c)'
  BY <1>3 DEF Sound, Formed, Placed, Effected, Seen, Tidy, Is, NoRequest, Reply
<1> QED  BY <1>3, <1>7, <1>8, <1>9, LocalKeeps

\* What is left after the agent died is a state no request is in.
LEMMA DiesKeeps ==
  ASSUME IInv, Dies
  PROVE  IInv'
<1>1. NoRequest \in RequestType  BY DEF NoRequest, RequestType, PCs, Contents
<1>2. TypeOK'  BY <1>1 DEF IInv, TypeOK, Dies
<1>3. \A c \in Clients : req'[c] = NoRequest /\ held'[c] = {}  BY DEF Dies
<1>4. Apart'  BY <1>3 DEF Apart, NoRequest
<1>5. Fresh' /\ TempsCleaned'  BY DEF IInv, Fresh, TempsCleaned, Dies
<1>6. \A c \in Clients : Sound(c)'
  BY <1>3 DEF Sound, Formed, Placed, Effected, Seen, Tidy, Is, NoRequest
<1> QED  BY <1>2, <1>4, <1>5, <1>6 DEF IInv

\* The invariant holds at the start.
LEMMA InitInv ==
  ASSUME Init
  PROVE  IInv
<1>1. NoRequest \in RequestType  BY DEF NoRequest, RequestType, PCs, Contents
<1>2. TypeOK
  BY <1>1, FileAssumption DEF Init, MutexInit, TypeOK, Contents
<1>3. \A c \in Clients : req[c] = NoRequest /\ held[c] = {}  BY DEF Init, MutexInit
<1>4. Apart  BY <1>3 DEF Apart, NoRequest
<1>5. Fresh /\ TempsCleaned  BY DEF Fresh, TempsCleaned, Init
<1>6. ASSUME NEW c \in Clients
      PROVE  Sound(c)
  <2>1. req[c] = NoRequest /\ held[c] = {} /\ req[c].pc = "idle"  BY <1>3 DEF NoRequest
  <2>2. Formed(c)  BY <2>1 DEF Formed, Placed, Is
  <2>3. Effected(c) /\ Seen(c) /\ Tidy(c)  BY <2>1 DEF Effected, Seen, Tidy, Is
  <2> QED  BY <2>2, <2>3 DEF Sound
<1> QED  BY <1>2, <1>4, <1>5, <1>6 DEF IInv

\* A step that is neither a request's first nor its last.
Inner(c) ==
  \/ Lock(c) \/ LockCancelled(c) \/ Look(c) \/ Fill(c) \/ Fails(c)
  \/ Commit(c) \/ Rename(c) \/ Unlink(c) \/ Close(c) \/ Release(c)

\* Every such step keeps the invariant, and what the request asks for.
LEMMA InnerKeeps ==
  ASSUME IInv, NEW c \in Clients, Inner(c)
  PROVE  IInv' /\ Turned(c)
<1>1. CASE LockCancelled(c)  BY <1>1, RefusalKeeps DEF LockCancelled, Is
<1>2. CASE Fails(c)  BY <1>2, RefusalKeeps DEF Fails
<1> QED
  BY <1>1, <1>2, LockKeeps, LookKeeps, FillKeeps, CommitKeeps, RenameKeeps, UnlinkKeeps,
     CloseKeeps, ReleaseKeeps DEF Inner

\* Every step keeps the invariant.
LEMMA NextInv ==
  ASSUME IInv, [Next]_vars
  PROVE  IInv'
<1>1. CASE Dies  BY <1>1, DiesKeeps
<1>2. ASSUME NEW c \in Clients, Arrive(c) \/ Inner(c) \/ Reply(c)
      PROVE  IInv'
  BY <1>2, ArriveKeeps, InnerKeeps, ReplyKeeps
<1>3. CASE UNCHANGED vars
  <2>1. TypeOK' /\ Apart' /\ Fresh' /\ TempsCleaned'
    BY <1>3 DEF vars, IInv, TypeOK, Apart, Fresh, TempsCleaned
  <2>2. ASSUME NEW c \in Clients
        PROVE  Formed(c)' /\ Effected(c)' /\ Seen(c)' /\ Tidy(c)'
    <3>1. Formed(c)' /\ Effected(c)' /\ Tidy(c)'
      BY <1>3 DEF vars, IInv, Sound, Formed, Placed, Effected, Tidy, Is, Moves, Locks, AskedBy
    <3>2. Seen(c)'
      BY <1>3 DEF vars, IInv, Sound, Seen, Content, Is, Moves, Allowed, There
    <3> QED  BY <3>1, <3>2
  <2> QED  BY <2>1, <2>2 DEF IInv, Sound
<1> QED  BY <1>1, <1>2, <1>3 DEF Next, Inner

\* The invariant holds in every reachable state.
LEMMA Invariant == Spec => []IInv
<1>1. Init => IInv  BY InitInv
<1>2. IInv /\ [Next]_vars => IInv'  BY NextInv
<1> QED  BY <1>1, <1>2, PTL DEF Spec

\* Every reachable state has the types the model gives its variables.
THEOREM FilesTyped == Spec => []TypeOK
<1>1. IInv => TypeOK  BY DEF IInv
<1> QED  BY <1>1, Invariant, PTL

\* A request that is answered, by whichever of its returns, has left no temp file: the
\* deferred Close runs before the answer, and after it there is nothing to remove
\* (atomic.go:152).
THEOREM TempsAreCleaned == Spec => []TempsCleaned
<1>1. IInv => TempsCleaned  BY DEF IInv
<1> QED  BY <1>1, Invariant, PTL

-----------------------------------------------------------------------------
(* The refinement *)

\* The one client on a request, in a state that req describes.
LEMMA Chosen ==
  ASSUME NEW r, NEW n, NEW c \in Clients, r[c].n = n,
         \A d \in Clients : d # c => r[d].n # n
  PROVE  (CHOOSE d \in Clients : r[d].n = n) = c
  OBVIOUS

\* Asked, as a function of the requests.
LEMMA AskedShape ==
  /\ Asked = [m \in Requests |-> Asked[m]]
  /\ Asked' = [m \in Requests |-> Asked'[m]]
  BY DEF Asked

\* What FileStore sees of a number: the request on it, if it is open.
LEMMA AskedOf ==
  ASSUME Apart, NEW n \in Requests
  PROVE  /\ \A c \in Clients : req[c].n = n => Asked[n] = AskedBy(c)
         /\ (\A c \in Clients : req[c].n # n) => Asked[n] = NoRequest
<1>1. n # 0  BY DEF Requests
<1>2. ASSUME NEW c \in Clients, req[c].n = n
      PROVE  Asked[n] = AskedBy(c)
  <2>1. \A d \in Clients : d # c => req[d].n # n  BY <1>1, <1>2 DEF Apart
  <2>2. (CHOOSE d \in Clients : req[d].n = n) = c  BY <1>2, <2>1, Chosen
  <2>3. Open(n) # {}  BY <1>2 DEF Open
  <2> QED  BY <2>2, <2>3 DEF Asked
<1>3. (\A c \in Clients : req[c].n # n) => Asked[n] = NoRequest  BY DEF Asked, Open
<1> QED  BY <1>2, <1>3

\* The same of the state after a step.
LEMMA AskedOfNext ==
  ASSUME Apart', NEW n \in Requests
  PROVE  /\ \A c \in Clients : req'[c].n = n => Asked'[n] = AskedBy(c)'
         /\ (\A c \in Clients : req'[c].n # n) => Asked'[n] = NoRequest
<1>1. n # 0  BY DEF Requests
<1>2. ASSUME NEW c \in Clients, req'[c].n = n
      PROVE  Asked'[n] = AskedBy(c)'
  <2>1. \A d \in Clients : d # c => req'[d].n # n  BY <1>1, <1>2 DEF Apart
  <2>2. (CHOOSE d \in Clients : req'[d].n = n) = c  BY <1>2, <2>1, Chosen
  <2>3. Open(n)' # {}  BY <1>2 DEF Open
  <2> QED  BY <2>2, <2>3 DEF Asked
<1>3. (\A c \in Clients : req'[c].n # n) => Asked'[n] = NoRequest  BY DEF Asked, Open
<1> QED  BY <1>2, <1>3

\* A step inside a request changes nothing of what is asked for.
LEMMA AskedStays ==
  ASSUME IInv, IInv', NEW c \in Clients, Turned(c)
  PROVE  Asked' = Asked
<1>1. \A d \in Clients : req'[d].n = req[d].n /\ AskedBy(d)' = AskedBy(d)
  BY DEF Turned, AskedBy
<1>2. ASSUME NEW n \in Requests  PROVE Asked'[n] = Asked[n]
  <2>1. CASE \E d \in Clients : req[d].n = n
    BY <1>1, <2>1, AskedOf, AskedOfNext DEF IInv
  <2>2. CASE \A d \in Clients : req[d].n # n
    BY <1>1, <2>2, AskedOf, AskedOfNext DEF IInv
  <2> QED  BY <2>1, <2>2
<1> QED  BY <1>2 DEF Asked

\* An open request, as FileStore sees it.
LEMMA OpenRequest ==
  ASSUME IInv, NEW c \in Clients, ~Is(c, "idle")
  PROVE  /\ req[c].n \in Requests /\ Asked[req[c].n] = AskedBy(c)
         /\ AskedBy(c) # NoRequest
         /\ AskedBy(c).kind = req[c].kind /\ AskedBy(c).src = req[c].src
         /\ AskedBy(c).dst = req[c].dst
         /\ Store!Possible(AskedBy(c)) <=> Allowed(c)
<1>1. TypeOK /\ Apart /\ Formed(c)  BY DEF IInv, Sound
<1>2. req[c].n \in Requests /\ req[c].kind \in Kinds  BY <1>1, Numbers, Asking
<1>3. /\ AskedBy(c).kind = req[c].kind /\ AskedBy(c).src = req[c].src
      /\ AskedBy(c).dst = req[c].dst
  BY DEF AskedBy
<1>4. AskedBy(c) # NoRequest
  <2>1. NoRequest.kind = "none" /\ "none" \notin Kinds  BY FileAssumption DEF NoRequest
  <2> QED  BY <1>2, <1>3, <2>1
<1>5. Store!Possible(AskedBy(c)) <=> Allowed(c)
  BY <1>3 DEF Store!Possible, Allowed, Store!There, There
<1> QED  BY <1>1, <1>2, <1>3, <1>4, <1>5, AskedOf

\* The rename over the target is the effect of a request, or the copy of a move.
LEMMA CommitImplements ==
  ASSUME IInv, IInv', NEW c \in Clients, Commit(c), Asked' = Asked
  PROVE  Store!Effect(req[c].n) \/ Store!Copy(req[c].n)
<1> DEFINE n == req[c].n
           a == AskedBy(c)
<1>1. TypeOK /\ Sound(c) /\ Is(c, "commit") /\ ~Is(c, "idle")  BY DEF IInv, Commit, Is
<1>2. /\ n \in Requests /\ Asked[n] = a /\ a # NoRequest
      /\ a.kind = req[c].kind /\ a.src = req[c].src /\ a.dst = req[c].dst
      /\ Store!Possible(a) <=> Allowed(c)
  BY <1>1, OpenRequest
<1>3. /\ req[c].kind \in Kinds /\ req[c].src \in Paths /\ req[c].dst \in Paths
      /\ Moves(c) <=> req[c].src # req[c].dst
  BY <1>1, Asking DEF Sound
<1>4. /\ Allowed(c) /\ effect[n] = "none" /\ req[c].data = Content(c)
      /\ req[c].kind # "remove"
  BY <1>1 DEF Sound, Seen, Effected, Is
<1>5. file' = [file EXCEPT ![req[c].dst] = Content(c)] /\ answer' = answer
  BY <1>4 DEF Commit
<1> HIDE DEF a, n
<1>6. CASE Moves(c)
  <2>1. effect' = [effect EXCEPT ![n] = "copied"]  BY <1>6 DEF Commit, Takes, n
  <2>2. file' = [file EXCEPT ![a.dst] = file[a.src]]  BY <1>2, <1>5, <1>6 DEF Content
  <2>3. a.kind \in {"move", "overwrite"}  BY <1>2, <1>6 DEF Moves
  <2>4. Store!Copy(n)  BY <1>2, <1>4, <1>5, <2>1, <2>2, <2>3 DEF Store!Copy
  <2> QED  BY <2>4 DEF n
<1>7. CASE ~Moves(c)
  <2>1. effect' = [effect EXCEPT ![n] = "done"]  BY <1>7 DEF Commit, Takes, n
  <2>2. a.dst = a.src /\ file' = [file EXCEPT ![a.src] = Content(c)]
    BY <1>2, <1>3, <1>5, <1>7
  <2>3. ASSUME req[c].kind \in {"append", "edit"}
        PROVE  Store!Done(n, a)
    <3>1. Content(c) = IF There(a.src) THEN file[a.src] \cup {n} ELSE {n}
      BY <1>2, <1>7, <2>3 DEF Content, n
    <3>2. file' = [file EXCEPT ![a.src] = IF There(a.src) THEN @ \cup {n} ELSE {n}]
      BY <1>1, <1>2, <1>3, <2>2, <3>1 DEF TypeOK
    <3> QED  BY <1>2, <2>3, <3>2 DEF Store!Done, Store!There, There
  <2>4. ASSUME req[c].kind \in {"write", "create"}
        PROVE  Store!Done(n, a)
    <3>1. Content(c) = {n}  BY <1>7, <2>4 DEF Content, n
    <3> QED  BY <1>2, <2>2, <2>4, <3>1 DEF Store!Done
  <2>5. req[c].kind \in {"write", "create", "append", "edit"}
    BY <1>3, <1>4, <1>7, FileAssumption DEF Moves
  <2>6. Store!Done(n, a)  BY <2>3, <2>4, <2>5
  <2>7. Store!Effect(n)  BY <1>2, <1>4, <1>5, <2>1, <2>6 DEF Store!Effect
  <2> QED  BY <2>7 DEF n
<1> QED  BY <1>6, <1>7

\* The rename of a move is its effect.
LEMMA RenameImplements ==
  ASSUME IInv, NEW c \in Clients, Rename(c), Asked' = Asked
  PROVE  Store!Effect(req[c].n) \/ UNCHANGED <<file, Asked, effect, answer>>
<1> DEFINE n == req[c].n
           a == AskedBy(c)
<1>1. TypeOK /\ Sound(c) /\ Is(c, "rename") /\ ~Is(c, "idle")  BY DEF IInv, Rename, Is
<1>2. /\ Asked[n] = a /\ a # NoRequest
      /\ a.kind = req[c].kind /\ a.src = req[c].src /\ a.dst = req[c].dst
      /\ Store!Possible(a) <=> Allowed(c)
  BY <1>1, OpenRequest
<1>3. Allowed(c) /\ effect[n] = "none" /\ Moves(c)  BY <1>1 DEF Sound, Seen, Effected, Is
<1>4. CASE file' = [file EXCEPT ![req[c].src] = Absent, ![req[c].dst] = file[req[c].src]]
           /\ Takes(c, "done")
  <2>1. Store!Done(n, a)  BY <1>2, <1>3, <1>4 DEF Store!Done, Moves
  <2>2. Store!Effect(n)
    BY <1>2, <1>3, <1>4, <2>1 DEF Store!Effect, Takes, Rename
  <2> QED  BY <2>2
<1>5. CASE UNCHANGED <<file, effect>>  BY <1>5 DEF Rename
<1> QED  BY <1>4, <1>5 DEF Rename

\* The removal is the effect, or the end of a move that copied.
LEMMA UnlinkImplements ==
  ASSUME IInv, NEW c \in Clients, Unlink(c), Asked' = Asked
  PROVE  \/ Store!Effect(req[c].n) \/ Store!RemoveSource(req[c].n)
         \/ UNCHANGED <<file, Asked, effect, answer>>
<1> DEFINE n == req[c].n
           a == AskedBy(c)
<1>1. TypeOK /\ Sound(c) /\ Is(c, "unlink") /\ ~Is(c, "idle")  BY DEF IInv, Unlink, Is
<1>2. /\ Asked[n] = a /\ a # NoRequest
      /\ a.kind = req[c].kind /\ a.src = req[c].src /\ a.dst = req[c].dst
      /\ Store!Possible(a) <=> Allowed(c)
  BY <1>1, OpenRequest
<1>3. CASE There(req[c].src) /\ file' = [file EXCEPT ![req[c].src] = Absent] /\ Takes(c, "done")
  <2>1. CASE Moves(c)
    <3>1. effect[n] = "copied" /\ file[a.dst] = file[a.src]
      BY <1>1, <1>2, <2>1 DEF Sound, Seen, Effected
    <3>2. Store!RemoveSource(n)
      BY <1>2, <1>3, <3>1 DEF Store!RemoveSource, Store!There, There, Takes, Unlink
    <3> QED  BY <3>2
  <2>2. CASE ~Moves(c)
    <3>1. effect[n] = "none" /\ a.kind = "remove"
      BY <1>1, <1>2, <2>2 DEF Sound, Seen, Effected
    <3>2. Store!Possible(a)  BY <1>2, <1>3, <3>1 DEF Store!Possible, Store!There, There
    <3>3. Store!Done(n, a)  BY <1>2, <1>3, <3>1 DEF Store!Done
    <3>4. Store!Effect(n)
      BY <1>2, <1>3, <3>1, <3>2, <3>3 DEF Store!Effect, Takes, Unlink
    <3> QED  BY <3>4
  <2> QED  BY <2>1, <2>2
<1>4. CASE UNCHANGED <<file, effect>>  BY <1>4 DEF Unlink
<1> QED  BY <1>3, <1>4 DEF Unlink

\* The other steps of a handler change nothing of what FileStore sees.
LEMMA InnerImplements ==
  ASSUME IInv, IInv', NEW c \in Clients, Inner(c)
  PROVE  Store!Next \/ UNCHANGED <<file, Asked, effect, answer>>
<1>1. Asked' = Asked  BY InnerKeeps, AskedStays
<1>2. req[c].n \in Requests \/ Is(c, "idle")  BY OpenRequest
<1>3. CASE Commit(c)
  BY <1>1, <1>2, <1>3, CommitImplements DEF Store!Next, Commit, Is
<1>4. CASE Rename(c)
  BY <1>1, <1>2, <1>4, RenameImplements DEF Store!Next, Rename, Is
<1>5. CASE Unlink(c)
  BY <1>1, <1>2, <1>5, UnlinkImplements DEF Store!Next, Unlink, Is
<1>6. CASE ~(Commit(c) \/ Rename(c) \/ Unlink(c))
  BY <1>1, <1>6 DEF Inner, Lock, LockCancelled, Look, Fill, Fails, Close, Release
<1> QED  BY <1>3, <1>4, <1>5, <1>6

\* A request that arrives is asked.
LEMMA ArriveImplements ==
  ASSUME IInv, IInv', NEW c \in Clients, Arrive(c)
  PROVE  Store!Next
<1> DEFINE n == made + 1
<1>1. /\ n \in Requests /\ req'[c].n = n /\ AskedBy(c)' \in Asks
      /\ \A d \in Clients : d # c => req'[d] = req[d]
  BY ArriveKeeps
<1>2. \A d \in Clients : req[d].n \in Nat /\ req[d].n <= made /\ made \in Nat
  BY Numbers DEF IInv, Sound
<1>3. effect[n] = "none" /\ answer[n] = "none" /\ Asked[n] = NoRequest
  <2>1. n > made /\ \A d \in Clients : req[d].n # n  BY <1>2
  <2> QED  BY <1>1, <2>1, AskedOf DEF IInv, Fresh
<1>4. req[c].n = 0  BY DEF Arrive, IInv, Sound, Formed, NoRequest
<1>5. Asked'[n] = AskedBy(c)'  BY <1>1, AskedOfNext DEF IInv
<1>6. ASSUME NEW m \in Requests, m # n  PROVE Asked'[m] = Asked[m]
  <2>1. m # 0  BY DEF Requests
  <2>2. \A d \in Clients : d # c => AskedBy(d)' = AskedBy(d)  BY <1>1 DEF AskedBy
  <2>3. CASE \E d \in Clients : req[d].n = m
    BY <1>1, <1>4, <1>6, <2>1, <2>2, <2>3, AskedOf, AskedOfNext DEF IInv
  <2>4. CASE \A d \in Clients : req[d].n # m
    BY <1>1, <1>6, <2>4, AskedOf, AskedOfNext DEF IInv
  <2> QED  BY <2>3, <2>4
<1>7. Asked' = [Asked EXCEPT ![n] = AskedBy(c)']
  BY <1>1, <1>5, <1>6, AskedShape
<1>8. Store!Ask(n)  BY <1>1, <1>3, <1>7 DEF Store!Ask, Arrive
<1> QED  BY <1>1, <1>8 DEF Store!Next

\* A request that is answered says whether it took effect.
LEMMA ReplyImplements ==
  ASSUME IInv, IInv', NEW c \in Clients, Reply(c)
  PROVE  Store!Next
<1> DEFINE n == req[c].n
<1>1. Sound(c) /\ Is(c, "release") /\ ~Is(c, "idle")  BY DEF IInv, Reply, Is
<1>2. n \in Requests /\ Asked[n] # NoRequest  BY <1>1, OpenRequest
<1>3. /\ req'[c] = NoRequest /\ \A d \in Clients : d # c => req'[d] = req[d]
  BY ReplyKeeps
<1>4. n # 0 /\ NoRequest.n = 0  BY <1>2 DEF Requests, NoRequest
<1>5. \A d \in Clients : req'[d].n # n  BY <1>3, <1>4 DEF IInv, Apart
<1>6. Asked'[n] = NoRequest  BY <1>2, <1>5, AskedOfNext DEF IInv
<1>7. ASSUME NEW m \in Requests, m # n  PROVE Asked'[m] = Asked[m]
  <2>1. m # 0  BY DEF Requests
  <2>2. \A d \in Clients : d # c => AskedBy(d)' = AskedBy(d)  BY <1>3 DEF AskedBy
  <2>3. CASE \E d \in Clients : req[d].n = m
    BY <1>3, <1>7, <2>2, <2>3, AskedOf, AskedOfNext DEF IInv
  <2>4. CASE \A d \in Clients : req[d].n # m
    BY <1>3, <1>4, <2>1, <2>4, AskedOf, AskedOfNext DEF IInv
  <2> QED  BY <2>3, <2>4
<1>8. Asked' = [Asked EXCEPT ![n] = NoRequest]
  BY <1>2, <1>6, <1>7, AskedShape
<1>9. answer' = [answer EXCEPT ![n] = IF effect[n] = "done" THEN "ok" ELSE "error"]
  BY <1>1 DEF Reply, Sound, Effected, Is
<1>10. Store!Answer(n)  BY <1>2, <1>8, <1>9 DEF Store!Answer, Reply
<1> QED  BY <1>2, <1>10 DEF Store!Next

\* An agent that dies takes the open requests with it.
LEMMA DiesImplements ==
  ASSUME IInv', Dies
  PROVE  Store!Next
<1>1. \A d \in Clients : req'[d].n = 0  BY DEF Dies, NoRequest
<1>2. \A n \in Requests : Asked'[n] = NoRequest
  BY <1>1, AskedOfNext DEF IInv, Requests
<1>3. Asked' = [n \in Requests |-> NoRequest]  BY <1>2 DEF Asked
<1> QED  BY <1>3 DEF Store!Next, Store!Cut, Dies

\* The service starts as FileStore does.
LEMMA InitImplements ==
  ASSUME Init
  PROVE  Store!Init
<1>1. \A c \in Clients : req[c].n = 0  BY DEF Init, NoRequest
<1>2. \A n \in Requests : Asked[n] = NoRequest
  BY <1>1, InitInv, AskedOf DEF IInv, Requests
<1>3. Asked = [n \in Requests |-> NoRequest]  BY <1>2 DEF Asked
<1>4. file \in [Paths -> {Absent, {}}]  BY DEF Init
<1> QED  BY <1>3, <1>4 DEF Store!Init, Init

\* Every step is one of FileStore, or none.
LEMMA NextImplements ==
  ASSUME IInv, IInv', [Next]_vars
  PROVE  [Store!Next]_(Store!vars)
<1>1. CASE Dies  BY <1>1, DiesImplements
<1>2. ASSUME NEW c \in Clients, Arrive(c) \/ Inner(c) \/ Reply(c)
      PROVE  Store!Next \/ UNCHANGED <<file, Asked, effect, answer>>
  BY <1>2, ArriveImplements, InnerImplements, ReplyImplements
<1>3. CASE UNCHANGED vars
  <2>1. Asked' = Asked  BY <1>3 DEF vars, Asked, Open, AskedBy
  <2> QED  BY <1>3, <2>1 DEF vars, Store!vars
<1> QED  BY <1>1, <1>2, <1>3 DEF Next, Inner, Store!vars

\* The handlers implement FileStore, for any paths, clients and requests: every request
\* takes effect in one step, on the files as they are then, and is answered with
\* whether it did; a move across file systems copies and then removes, with nobody
\* between; an agent that dies in a request leaves it undone, or done
\* (locks.go:11, write.go:22, write.go:76, manage.go:309).
THEOREM ServiceImplementsStore == Spec => StoreSpec
<1>1. Init => Store!Init  BY InitImplements
<1>2. IInv /\ IInv' /\ [Next]_vars => [Store!Next]_(Store!vars)  BY NextImplements
<1> QED  BY <1>1, <1>2, Invariant, PTL DEF Spec, StoreSpec, Store!Spec

=============================================================================
