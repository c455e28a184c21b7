-------------------------- MODULE EnrollmentProofs --------------------------
(***************************************************************************)
(* Enrollment is paid for and names are its own, for any number of         *)
(* requests, tokens and names.                                             *)
(*                                                                         *)
(* The argument.  A request has spent its token exactly when the token     *)
(* carries the mark it put there and no other (Paid): Redeem looks for     *)
(* marks under the lock it marks under, so the second redemption, or the   *)
(* revocation, finds the first.  A name is a request's from Record on, and *)
(* only a removal takes it away again (Held).                              *)
(***************************************************************************)
EXTENDS Enrollment, SequenceTheorems, TLAPS

Working == {"check", "redeem", "record", "sign"}
Owning  == {"sign", "enrolled", "failed", "lost"}

\* What the place a request is at says of what it holds.
Sound(k) ==
  /\ k.pc \in Working \/ k.spent => k.token \in Tokens /\ k.base \in Bases
  /\ k.pc \in {"waiting", "redeem"} => ~k.spent
  /\ k.pc \in {"record", "sign", "enrolled"} => k.spent
AllSound == \A e \in Calls : Sound(call[e])

Paid == \A e \in Calls : call[e].spent => token[call[e].token].marks = {"used"}

\* The name a request has registered is in the registry under it, or was removed,
\* and is the only one its certificate can carry.
Held ==
  \A e \in Calls :
    /\ call[e].pc \in {"sign", "enrolled"} =>
         members[Candidate(e)] = e \/ Candidate(e) \in freed
    /\ leaf[e] # {} => At(e, "enrolled") /\ leaf[e] \subseteq {NoName, Candidate(e)}

IInv == TypeOK /\ AllSound /\ Paid /\ SingleUse /\ MembersPaid /\ Held

-----------------------------------------------------------------------------
(* The pieces of a step. *)

\* What a request tries is a name.
LEMMA CandidateIsName ==
  ASSUME TypeOK, NEW e \in Calls, call[e].base \in Bases
  PROVE  Candidate(e) \in Names
<1>1. call[e].base # NoName /\ Candidates[call[e].base] \in Seq(Names)
  BY EnrollmentAssumption
<1>2. call[e].attempt \in DOMAIN Candidates[call[e].base]
  BY <1>1 DEF TypeOK, Placed
<1> QED
  BY <1>1, <1>2, ElementOfSeq DEF Candidate

\* Every request starts out empty-handed.
LEMMA WaitingIsSound == Waiting \in Requests /\ Placed(Waiting) /\ Sound(Waiting)
  BY DEF Waiting, Requests, Placed, Sound, PCs, Ended, Working

\* A request that is over keeps what it has spent and taken.
LEMMA OverKeeps ==
  ASSUME NEW k \in Requests, Placed(k), Sound(k),
         NEW pc \in Ended \ {"waiting"}, pc = "enrolled" => k.spent
  PROVE  /\ Over(k, pc) \in Requests /\ Placed(Over(k, pc)) /\ Sound(Over(k, pc))
         /\ Over(k, pc).pc = pc /\ Over(k, pc).spent = k.spent
         /\ k.spent => /\ Over(k, pc).token = k.token
                       /\ Over(k, pc).base = k.base /\ Over(k, pc).attempt = k.attempt
<1>1. CASE k.spent
  BY <1>1 DEF Over, Requests, Placed, Sound, PCs, Ended, Working
<1>2. CASE ~k.spent
  BY <1>2, WaitingIsSound DEF Over, Requests, Placed, Sound, PCs, Ended, Working, Waiting
<1> QED
  BY <1>1, <1>2 DEF Requests

\* A request that owns no name moves: the stores stay, and so does the invariant.
LEMMA CallMoves ==
  ASSUME IInv, NEW e \in Calls, NEW k \in Requests, Placed(k), Sound(k),
         call[e].pc \notin Owning, k.pc \notin {"sign", "enrolled"},
         k.spent = call[e].spent, k.spent => k.token = call[e].token,
         call' = [call EXCEPT ![e] = k], UNCHANGED <<token, leaf, registry>>
  PROVE  IInv'
<1> USE DEF IInv, registry
<1>1. \A f \in Calls : call'[f] = IF f = e THEN k ELSE call[f]
  BY DEF TypeOK
<1>2. TypeOK' /\ AllSound'
  BY <1>1 DEF TypeOK, AllSound, Placed, Sound
<1>3. Paid' /\ SingleUse'
  BY <1>1 DEF Paid, SingleUse
<1>4. MembersPaid'
  BY <1>1 DEF MembersPaid, Owning
<1>5. leaf[e] = {}
  BY DEF Held, At, Owning
<1>6. Held'
  BY <1>1, <1>5 DEF Held, At, Candidate
<1> QED
  BY <1>2, <1>3, <1>4, <1>6

\* A request at work that owns no name ends, without having enrolled.
LEMMA EndKeeps ==
  ASSUME IInv, NEW e \in Calls, NEW pc \in Ended \ {"waiting", "enrolled"},
         call[e].pc \notin Owning, End(e, pc), UNCHANGED <<token, leaf, registry>>
  PROVE  IInv'
<1>1. call[e] \in Requests /\ Placed(call[e]) /\ Sound(call[e])
  BY DEF IInv, TypeOK, AllSound
<1>2. /\ Over(call[e], pc) \in Requests /\ Placed(Over(call[e], pc))
      /\ Sound(Over(call[e], pc)) /\ Over(call[e], pc).pc = pc
      /\ Over(call[e], pc).spent = call[e].spent
      /\ call[e].spent => Over(call[e], pc).token = call[e].token
  BY <1>1, OverKeeps
<1> QED
  BY <1>2, CallMoves DEF End, Ended

\* The search for a name goes on, or ends.
LEMMA NextNameKeeps ==
  ASSUME IInv, NEW e \in Calls, call[e].pc \in {"check", "record"}, NextName(e),
         UNCHANGED <<token, leaf, registry>>
  PROVE  IInv'
<1> DEFINE n == Len(Candidates[call[e].base])
<1>1. call[e].pc \notin Owning
  BY DEF Owning
<1>2. CASE call[e].attempt = n
  <2>1. End(e, "exhausted")
    BY <1>2 DEF NextName
  <2> QED
    BY <1>1, <2>1, EndKeeps DEF Ended
<1>3. CASE call[e].attempt # n
  <2> DEFINE k == [call[e] EXCEPT !.pc = "check", !.attempt = call[e].attempt + 1]
  <2>1. call' = [call EXCEPT ![e] = k]
    BY <1>3 DEF NextName, IInv, TypeOK
  <2>2. call[e] \in Requests /\ Placed(call[e]) /\ Sound(call[e])
    BY DEF IInv, TypeOK, AllSound
  <2>3. call[e].base \in Bases /\ call[e].base # NoName
    BY <2>2, EnrollmentAssumption DEF Sound, Working
  <2>4. Candidates[call[e].base] \in Seq(Names) /\ call[e].attempt \in 1 .. n
    BY <2>2, <2>3, EnrollmentAssumption DEF Placed
  <2>5. k.attempt \in 1 .. n
    BY <1>3, <2>2, <2>4 DEF Requests
  <2>6. /\ k \in Requests /\ k.pc = "check" /\ k.spent = call[e].spent
        /\ k.token = call[e].token /\ k.base = call[e].base
    <3>1. call[e].attempt + 1 \in Nat \ {0} /\ "check" \in PCs
      BY <2>2 DEF Requests, PCs
    <3> QED
      BY <2>2, <3>1 DEF Requests
  <2>7. Placed(k) /\ Sound(k)
    BY <2>2, <2>4, <2>5, <2>6 DEF Placed, Sound, Working
  <2> HIDE DEF k
  <2> QED
    BY <1>1, <2>1, <2>6, <2>7, CallMoves
<1> QED
  BY <1>2, <1>3

-----------------------------------------------------------------------------
(* The steps of a request. *)

LEMMA InspectKeeps == ASSUME IInv, NEW e \in Calls, Inspect(e) PROVE IInv'
<1>1. PICK t \in Tokens, requested \in Bases \cup {NoName}, tight \in BOOLEAN :
        LET reserved == token[t].name
            base     == IF reserved # NoName THEN reserved ELSE requested
        IN  /\ base # NoName
            /\ call' = [call EXCEPT ![e] = [Waiting EXCEPT !.pc = "check", !.token = t,
                                            !.base = base, !.reserved = reserved,
                                            !.tight = tight /\ reserved # NoName]]
  BY DEF Inspect
<1> DEFINE reserved == token[t].name
           base == IF reserved # NoName THEN reserved ELSE requested
           k == [Waiting EXCEPT !.pc = "check", !.token = t, !.base = base,
                                !.reserved = reserved, !.tight = tight /\ reserved # NoName]
<1>2. reserved \in Bases \cup {NoName} /\ base \in Bases
  BY <1>1 DEF IInv, TypeOK
<1>3. /\ k.pc = "check" /\ k.token = t /\ k.base = base /\ k.attempt = 1
      /\ k.spent = FALSE
  BY DEF Waiting
<1>4. k \in Requests
  <2>1. (tight /\ reserved # NoName) \in BOOLEAN /\ "check" \in PCs
    BY DEF PCs
  <2> HIDE DEF reserved, base
  <2> QED
    BY <1>2, <2>1, WaitingIsSound DEF Waiting, Requests
<1>5. 1 \in DOMAIN Candidates[base]
  BY <1>2, EmptySeq, EnrollmentAssumption
<1>6. Placed(k) /\ Sound(k)
  BY <1>2, <1>3, <1>5 DEF Placed, Sound, Working
<1>7. call[e].pc = "waiting" /\ UNCHANGED <<token, leaf, registry>>
  BY DEF Inspect, At
<1>8. call[e].spent = FALSE /\ call[e].pc \notin Owning
  BY <1>7 DEF IInv, TypeOK, Requests, AllSound, Sound, Owning
<1>9. call' = [call EXCEPT ![e] = k]
  BY <1>1
<1> HIDE DEF k, base, reserved
<1> QED
  BY <1>3, <1>4, <1>6, <1>7, <1>8, <1>9, CallMoves

LEMMA CheckNameKeeps == ASSUME IInv, NEW e \in Calls, CheckName(e) PROVE IInv'
<1> DEFINE k == [call[e] EXCEPT !.pc = IF call[e].spent THEN "record" ELSE "redeem",
                                !.late = ~call[e].spent /\ Expired(call[e].token)]
<1>1. call[e].pc = "check" /\ UNCHANGED <<token, leaf, registry>>
  BY DEF CheckName, At
<1>2. call[e] \in Requests /\ Placed(call[e]) /\ Sound(call[e])
  BY DEF IInv, TypeOK, AllSound
<1>3. CASE NextName(e)
  BY <1>1, <1>3, NextNameKeeps
<1>4. CASE End(e, "uncertifiable")
  BY <1>1, <1>4, EndKeeps DEF Owning, Ended
<1>5. CASE call' = [call EXCEPT ![e].pc = IF call[e].spent THEN "record" ELSE "redeem",
                                ![e].late = ~call[e].spent /\ Expired(call[e].token)]
  <2>1. call' = [call EXCEPT ![e] = k]
    BY <1>5 DEF IInv, TypeOK
  <2>2. /\ k \in Requests /\ k.pc = IF call[e].spent THEN "record" ELSE "redeem"
        /\ k.spent = call[e].spent /\ k.token = call[e].token
        /\ k.base = call[e].base /\ k.attempt = call[e].attempt
    BY <1>2 DEF Requests, PCs, Expired
  <2>3. Placed(k) /\ Sound(k)
    BY <1>1, <1>2, <2>2 DEF Placed, Sound, Working, Requests
  <2> HIDE DEF k
  <2>4. call[e].pc \notin Owning /\ k.pc \notin {"sign", "enrolled"}
    BY <1>1, <2>2 DEF Owning
  <2> QED
    BY <1>1, <2>1, <2>2, <2>3, <2>4, CallMoves
<1> QED
  BY <1>3, <1>4, <1>5 DEF CheckName

\* The compare-and-swap: the token carries no mark before, and this one after.
LEMMA RedeemKeeps == ASSUME IInv, NEW e \in Calls, Redeem(e) PROVE IInv'
<1> DEFINE t == call[e].token
<1>1. call[e].pc = "redeem" /\ UNCHANGED <<leaf, registry>>
  BY DEF Redeem, At
<1>2. call[e] \in Requests /\ Placed(call[e]) /\ Sound(call[e])
  BY DEF IInv, TypeOK, AllSound
<1>3. t \in Tokens /\ ~call[e].spent
  BY <1>1, <1>2 DEF Sound, Working
<1>4. CASE token' = token /\ End(e, "refused")
  BY <1>1, <1>4, EndKeeps DEF Owning, Ended
<1>5. CASE /\ Redeemable(t, call[e].late)
           /\ token' = [token EXCEPT ![t].marks = @ \cup {"used"}]
           /\ call' = [call EXCEPT ![e].pc = "record", ![e].spent = TRUE, ![e].late = FALSE]
  <2>1. /\ \A f \in Calls \ {e} : call'[f] = call[f]
        /\ call'[e].pc = "record" /\ call'[e].spent /\ call'[e].token = t
        /\ call'[e].base = call[e].base /\ call'[e].attempt = call[e].attempt
        /\ call' \in [Calls -> Requests]
    BY <1>2, <1>5 DEF IInv, TypeOK, Requests, PCs
  <2>2. /\ token[t].marks = {} /\ token'[t].marks = {"used"}
        /\ \A u \in Tokens \ {t} : token'[u] = token[u]
        /\ token' \in [Tokens -> [age : Ages, marks : SUBSET {"used", "revoked"},
                                   name : Bases \cup {NoName}]]
    BY <1>3, <1>5 DEF Redeemable, IInv, TypeOK
  <2>3. \A f \in Calls : call[f].spent => call[f].token # t
    BY <2>2 DEF IInv, Paid
  <2>4. TypeOK'
    BY <1>1, <2>1, <2>2 DEF IInv, TypeOK, Placed, registry
  <2>5. AllSound'
    BY <1>1, <1>2, <2>1 DEF IInv, AllSound, Sound, Working
  <2>6. \A f \in Calls : call[f].spent => call[f].token \in Tokens \ {t}
    BY <2>3 DEF IInv, AllSound, Sound
  <2>7. /\ Paid'
        /\ SingleUse'
        /\ MembersPaid'
    <3> HIDE DEF t
    <3>1. Paid'
      <4>1. call'[e].spent => token'[call'[e].token].marks = {"used"}
        BY <2>1, <2>2
      <4>2. ASSUME NEW f \in Calls \ {e}, call'[f].spent
            PROVE  token'[call'[f].token].marks = {"used"}
        BY <2>1, <2>2, <2>6, <4>2 DEF IInv, Paid
      <4> QED
        BY <4>1, <4>2 DEF Paid
    <3>2. ASSUME NEW f \in Calls, NEW g \in Calls, call'[f].spent, call'[g].spent,
                 call'[f].token = call'[g].token
          PROVE  f = g
      BY <2>1, <2>6, <3>2 DEF IInv, SingleUse
    <3>5. \A u \in Tokens : token'[u].marks # {"used", "revoked"}
      BY <2>2 DEF IInv, SingleUse
    <3>6. SingleUse'
      BY <3>2, <3>5 DEF SingleUse
    <3>3. ASSUME NEW n \in Names, NEW f \in Calls, members[n] = f
          PROVE  f # e /\ call[f].spent
      BY <1>1, <3>3 DEF IInv, MembersPaid
    <3>4. ASSUME NEW n \in Names, NEW f \in Calls, members'[n] = f
          PROVE  /\ call'[f].spent /\ token'[call'[f].token].marks = {"used"}
                 /\ call'[f].pc \in {"sign", "enrolled", "failed", "lost"}
      <4>1. members[n] = f
        BY <1>1, <3>4 DEF registry
      <4>2. f # e /\ call[f].spent /\ call[f].pc \in {"sign", "enrolled", "failed", "lost"}
            /\ token[call[f].token].marks = {"used"}
        BY <3>3, <4>1 DEF IInv, MembersPaid
      <4> QED
        BY <2>1, <2>2, <2>6, <4>2
    <3>7. MembersPaid'
      BY <3>4 DEF MembersPaid
    <3> QED
      BY <3>1, <3>6, <3>7
  <2>8. Held'
    BY <1>1, <2>1 DEF IInv, Held, At, Candidate, registry
  <2> QED
    BY <2>4, <2>5, <2>7, <2>8 DEF IInv
<1> QED
  BY <1>4, <1>5 DEF Redeem

LEMMA RecordKeeps == ASSUME IInv, NEW e \in Calls, Record(e) PROVE IInv'
<1>1. call[e].pc = "record" /\ UNCHANGED <<token, leaf, freed>>
  BY DEF Record, At
<1>2. call[e] \in Requests /\ Placed(call[e]) /\ Sound(call[e])
  BY DEF IInv, TypeOK, AllSound
<1>3. CASE members' = members /\ NextName(e)
  BY <1>1, <1>3, NextNameKeeps DEF registry
<1>4. CASE members' = members /\ End(e, "failed")
  BY <1>1, <1>4, EndKeeps DEF Owning, Ended, registry
<1>5. CASE /\ members[Candidate(e)] = NoName
           /\ members' = [members EXCEPT ![Candidate(e)] = e]
           /\ call' = [call EXCEPT ![e].pc = "sign"]
  <2>1. call[e].spent /\ call[e].base \in Bases /\ Candidate(e) \in Names
    BY <1>1, <1>2, CandidateIsName DEF Sound, Working, IInv
  <2>2. /\ \A f \in Calls \ {e} : call'[f] = call[f]
        /\ call'[e].pc = "sign" /\ call'[e].spent = call[e].spent
        /\ call'[e].token = call[e].token
        /\ call'[e].base = call[e].base /\ call'[e].attempt = call[e].attempt
        /\ call' \in [Calls -> Requests]
    BY <1>2, <1>5 DEF IInv, TypeOK, Requests, PCs
  <2>3. /\ members'[Candidate(e)] = e
        /\ \A n \in Names \ {Candidate(e)} : members'[n] = members[n]
        /\ members' \in [Names -> Calls \cup {Operator, NoName}]
    BY <1>5, <2>1 DEF IInv, TypeOK
  <2>4. TypeOK' /\ AllSound'
    <3>1. TypeOK'
      BY <1>1, <2>2, <2>3 DEF IInv, TypeOK, Placed
    <3>2. \A f \in Calls \ {e} : Sound(call'[f])
      BY <2>2 DEF IInv, AllSound
    <3>3. Sound(call'[e])
      BY <1>1, <1>2, <2>1, <2>2 DEF Sound, Working
    <3> QED
      BY <3>1, <3>2, <3>3 DEF AllSound
  <2>5. Paid' /\ SingleUse'
    BY <1>1, <2>2 DEF IInv, Paid, SingleUse
  <2>6. MembersPaid'
    <3> SUFFICES ASSUME NEW n \in Names, NEW f \in Calls, members'[n] = f
                 PROVE  /\ call'[f].spent /\ token'[call'[f].token].marks = {"used"}
                        /\ call'[f].pc \in {"sign", "enrolled", "failed", "lost"}
      BY DEF MembersPaid
    <3>1. CASE n = Candidate(e)
      <4>1. f = e /\ call'[e].spent /\ call'[e].pc = "sign"
        BY <2>1, <2>2, <2>3, <3>1
      <4>2. token'[call'[e].token].marks = {"used"}
        BY <1>1, <2>1, <2>2 DEF IInv, Paid
      <4> QED
        BY <4>1, <4>2
    <3>2. CASE n # Candidate(e)
      <4>1. members[n] = f
        BY <2>3, <3>2
      <4>2. f # e
        BY <1>1, <4>1 DEF IInv, MembersPaid
      <4> QED
        BY <1>1, <2>2, <4>1, <4>2 DEF IInv, MembersPaid
    <3> QED
      BY <3>1, <3>2
  <2>7. \A f \in Calls : Candidate(f)' = Candidate(f)
    BY <2>2 DEF Candidate
  <2>8. leaf[e] = {}
    BY <1>1 DEF IInv, Held, At
  <2>9. ASSUME NEW f \in Calls, call[f].pc \in {"sign", "enrolled"}
        PROVE  members'[Candidate(f)] = f \/ Candidate(f) \in freed
    <3>1. Candidate(f) \in Names
      BY <2>9, CandidateIsName DEF IInv, AllSound, Sound
    <3> QED
      BY <1>5, <2>3, <2>9, <3>1, EnrollmentAssumption DEF IInv, Held
  <2>10. Held'
    BY <1>1, <2>2, <2>3, <2>7, <2>8, <2>9 DEF IInv, Held, At
  <2> QED
    BY <2>4, <2>5, <2>6, <2>10 DEF IInv
<1> QED
  BY <1>3, <1>4, <1>5 DEF Record
\* Requests may end, keeping what they spent and took: what they left in the stores
\* stays theirs.
LEMMA EndingsKeep ==
  ASSUME IInv, NEW E \in SUBSET Calls, UNCHANGED <<token, registry>>,
         call' \in [Calls -> Requests],
         leaf' \in [Calls -> SUBSET (Names \cup {NoName})],
         \A f \in Calls \ E : call'[f] = call[f] /\ leaf'[f] = leaf[f],
         \A f \in E :
           /\ Placed(call'[f]) /\ Sound(call'[f]) /\ call'[f].spent = call[f].spent
           /\ call'[f].spent => /\ call'[f].token = call[f].token
                                /\ call'[f].base = call[f].base
                                /\ call'[f].attempt = call[f].attempt
           /\ call[f].pc = "sign" => call'[f].pc \in {"enrolled", "failed", "lost"}
           /\ call'[f].pc # "sign" /\ call[f].pc \in Working
           /\ call'[f].pc = "enrolled" =>
                call[f].pc = "sign" /\ leaf'[f] \subseteq {NoName, Candidate(f)}
           /\ call'[f].pc # "enrolled" => leaf'[f] = leaf[f]
  PROVE  IInv'
<1>1. TypeOK'
  BY DEF IInv, TypeOK, registry
<1>2. AllSound'
  BY DEF IInv, AllSound
<1>3. Paid'
  BY DEF IInv, Paid
<1>4. SingleUse'
  <2>1. ASSUME NEW f \in Calls, NEW g \in Calls, call'[f].spent, call'[g].spent,
               call'[f].token = call'[g].token
        PROVE  f = g
    <3>1. call[f].spent /\ call[g].spent /\ call[f].token = call[g].token
      BY <2>1
    <3> QED
      BY <3>1 DEF IInv, SingleUse
  <2>2. \A t \in Tokens : token'[t].marks # {"used", "revoked"}
    BY DEF IInv, SingleUse
  <2> QED
    BY <2>1, <2>2 DEF SingleUse
<1>5. MembersPaid'
  <2>1. ASSUME NEW n \in Names, NEW f \in Calls, members'[n] = f
        PROVE  /\ call'[f].spent /\ token'[call'[f].token].marks = {"used"}
               /\ call'[f].pc \in {"sign", "enrolled", "failed", "lost"}
    <3>1. /\ call[f].spent /\ token[call[f].token].marks = {"used"}
          /\ call[f].pc \in {"sign", "enrolled", "failed", "lost"}
      BY <2>1 DEF IInv, MembersPaid, registry
    <3>2. CASE f \in E
      BY <3>1, <3>2 DEF Working
    <3>3. CASE f \notin E
      BY <3>1, <3>3
    <3> QED
      BY <3>2, <3>3
  <2> QED
    BY <2>1 DEF MembersPaid
<1>6. Held'
  <2>1. ASSUME NEW f \in Calls \ E
        PROVE  /\ call'[f].pc \in {"sign", "enrolled"} =>
                    members'[Candidate(f)'] = f \/ Candidate(f)' \in freed'
               /\ leaf'[f] # {} => call'[f].pc = "enrolled"
                                   /\ leaf'[f] \subseteq {NoName, Candidate(f)'}
    BY DEF IInv, Held, At, Candidate, registry
  <2>2. ASSUME NEW f \in E
        PROVE  /\ call'[f].pc \in {"sign", "enrolled"} =>
                    members'[Candidate(f)'] = f \/ Candidate(f)' \in freed'
               /\ leaf'[f] # {} => call'[f].pc = "enrolled"
                                   /\ leaf'[f] \subseteq {NoName, Candidate(f)'}
    <3>1. leaf[f] = {}
      BY DEF IInv, Held, At, Working
    <3>2. CASE call'[f].pc = "enrolled"
      <4>1. call'[f].spent /\ call[f].pc = "sign"
        BY <3>2 DEF Sound
      <4>2. Candidate(f)' = Candidate(f)
        BY <4>1 DEF Candidate
      <4>3. members[Candidate(f)] = f \/ Candidate(f) \in freed
        BY <4>1 DEF IInv, Held
      <4> QED
        BY <3>2, <4>1, <4>2, <4>3 DEF registry
    <3>3. CASE call'[f].pc # "enrolled"
      BY <3>1, <3>3
    <3> QED
      BY <3>2, <3>3
  <2> QED
    BY <2>1, <2>2 DEF Held, At
<1> QED
  BY <1>1, <1>2, <1>3, <1>4, <1>5, <1>6 DEF IInv

LEMMA SignKeeps == ASSUME IInv, NEW e \in Calls, Sign(e) PROVE IInv'
<1>1. call[e].pc = "sign" /\ UNCHANGED <<token, registry>>
  BY DEF Sign, At
<1>2. call[e] \in Requests /\ Placed(call[e]) /\ Sound(call[e])
  BY DEF IInv, TypeOK, AllSound
<1>3. call[e].spent /\ call[e].base \in Bases
  BY <1>1, <1>2 DEF Sound, Working
<1>4. Candidate(e) \in Names
  BY <1>3, CandidateIsName DEF IInv
<1>5. CASE leaf' = [leaf EXCEPT ![e] = {Certified(e)}] /\ End(e, "enrolled")
  <2>1. /\ Over(call[e], "enrolled") \in Requests /\ Placed(Over(call[e], "enrolled"))
        /\ Sound(Over(call[e], "enrolled")) /\ Over(call[e], "enrolled").pc = "enrolled"
        /\ Over(call[e], "enrolled").spent = call[e].spent
        /\ Over(call[e], "enrolled").token = call[e].token
        /\ Over(call[e], "enrolled").base = call[e].base
        /\ Over(call[e], "enrolled").attempt = call[e].attempt
    BY <1>2, <1>3, OverKeeps DEF Ended
  <2>2. call' \in [Calls -> Requests] /\ call'[e] = Over(call[e], "enrolled")
        /\ \A f \in Calls \ {e} : call'[f] = call[f]
    BY <1>5, <2>1 DEF End, IInv, TypeOK
  <2>3. Certified(e) \in {NoName, Candidate(e)}
    BY DEF Certified
  <2>4. leaf' \in [Calls -> SUBSET (Names \cup {NoName})] /\ leaf'[e] = {Certified(e)}
        /\ \A f \in Calls \ {e} : leaf'[f] = leaf[f]
    BY <1>4, <1>5, <2>3 DEF IInv, TypeOK
  <2> DEFINE E == {e}
  <2>5. \A f \in Calls \ E : call'[f] = call[f] /\ leaf'[f] = leaf[f]
    BY <2>2, <2>4
  <2>6. \A f \in E :
          /\ Placed(call'[f]) /\ Sound(call'[f]) /\ call'[f].spent = call[f].spent
          /\ call'[f].token = call[f].token /\ call'[f].base = call[f].base
          /\ call'[f].attempt = call[f].attempt
          /\ call'[f].pc = "enrolled" /\ call[f].pc = "sign" /\ call[f].pc \in Working
          /\ leaf'[f] \subseteq {NoName, Candidate(f)}
    BY <1>1, <2>1, <2>2, <2>3, <2>4 DEF Working
  <2>7. E \in SUBSET Calls
    OBVIOUS
  <2> HIDE DEF E
  <2> QED
    BY <1>1, <2>2, <2>4, <2>5, <2>6, <2>7, EndingsKeep
<1>6. CASE leaf' = leaf /\ End(e, "failed")
  <2>1. /\ Over(call[e], "failed") \in Requests /\ Placed(Over(call[e], "failed"))
        /\ Sound(Over(call[e], "failed")) /\ Over(call[e], "failed").pc = "failed"
        /\ Over(call[e], "failed").spent = call[e].spent
        /\ Over(call[e], "failed").token = call[e].token
        /\ Over(call[e], "failed").base = call[e].base
        /\ Over(call[e], "failed").attempt = call[e].attempt
    BY <1>2, <1>3, OverKeeps DEF Ended
  <2>2. call' \in [Calls -> Requests] /\ call'[e] = Over(call[e], "failed")
        /\ \A f \in Calls \ {e} : call'[f] = call[f]
    BY <1>6, <2>1 DEF End, IInv, TypeOK
  <2>3. leaf' \in [Calls -> SUBSET (Names \cup {NoName})]
    BY <1>6 DEF IInv, TypeOK
  <2> QED
    BY <1>1, <1>6, <2>1, <2>2, <2>3, EndingsKeep DEF Working
<1> QED
  BY <1>5, <1>6 DEF Sign

LEMMA CrashKeeps == ASSUME IInv, Crash PROVE IInv'
<1> DEFINE E == {f \in Calls : call[f].pc \in Working}
<1>1. \A f \in Calls : call[f] \in Requests /\ Placed(call[f]) /\ Sound(call[f])
  BY DEF IInv, TypeOK, AllSound
<1>2. \A f \in Calls : call[f].pc \in Ended <=> f \notin E
  BY <1>1 DEF Requests, PCs, Ended, Working
<1>3. UNCHANGED <<token, leaf, registry>> /\ leaf \in [Calls -> SUBSET (Names \cup {NoName})]
  BY DEF Crash, IInv, TypeOK
<1>4. \A f \in Calls : call'[f] = IF f \in E THEN Over(call[f], "lost") ELSE call[f]
  BY <1>2 DEF Crash
<1> HIDE DEF E
<1>5. \A f \in Calls :
        LET k == Over(call[f], "lost")
        IN  /\ k \in Requests /\ Placed(k) /\ Sound(k) /\ k.pc = "lost"
            /\ k.spent = call[f].spent
            /\ k.spent => /\ k.token = call[f].token
                          /\ k.base = call[f].base /\ k.attempt = call[f].attempt
  BY <1>1, OverKeeps DEF Ended
<1>6. call' \in [Calls -> Requests]
  <2>1. call' = [f \in Calls |-> IF call[f].pc \in Ended THEN call[f] ELSE Over(call[f], "lost")]
    BY DEF Crash
  <2> QED
    BY <1>1, <1>5, <2>1
<1>7. E \in SUBSET Calls /\ \A f \in E : call[f].pc \in Working
  BY DEF E
<1>8. \A f \in E :
        /\ Placed(call'[f]) /\ Sound(call'[f]) /\ call'[f].spent = call[f].spent
        /\ call'[f].spent => /\ call'[f].token = call[f].token
                             /\ call'[f].base = call[f].base
                             /\ call'[f].attempt = call[f].attempt
        /\ call'[f].pc = "lost" /\ call[f].pc \in Working
  BY <1>4, <1>5, <1>7
<1>9. \A f \in Calls \ E : call'[f] = call[f] /\ leaf'[f] = leaf[f]
  BY <1>3, <1>4
<1> QED
  BY <1>3, <1>6, <1>7, <1>8, <1>9, EndingsKeep

-----------------------------------------------------------------------------
(* The other writers of the two stores. *)

\* Minting, ageing and revoking leave alone the marks of a token that was spent.
LEMMA TokensKeep ==
  ASSUME IInv, NEW t \in Tokens, Mint(t) \/ Age(t) \/ Revoke(t)
  PROVE  IInv'
<1>1. UNCHANGED <<call, leaf, registry>>
  BY DEF Mint, Age, Revoke
<1>2. /\ token' \in [Tokens -> [age : Ages, marks : SUBSET {"used", "revoked"},
                                 name : Bases \cup {NoName}]]
      /\ \A u \in Tokens :
           \/ token'[u].marks = token[u].marks
           \/ token[u].marks = {} /\ token'[u].marks = {"revoked"}
  <2>1. CASE Mint(t)
    <3>1. PICK name \in Bases \cup {NoName} :
            token' = [token EXCEPT ![t].age = "live", ![t].name = name]
      BY <2>1 DEF Mint
    <3>2. "live" \in Ages
      BY DEF Ages
    <3> QED
      BY <3>1, <3>2 DEF IInv, TypeOK
  <2>2. CASE Age(t)
    BY <2>2 DEF Age, IInv, TypeOK, Ages
  <2>3. CASE Revoke(t)
    BY <2>3 DEF Revoke, Redeemable, IInv, TypeOK
  <2> QED
    BY <2>1, <2>2, <2>3
<1>3. \A f \in Calls : call[f].spent => token'[call[f].token].marks = {"used"}
  BY <1>2 DEF IInv, Paid, AllSound, Sound
<1>4. TypeOK' /\ AllSound'
  BY <1>1, <1>2 DEF IInv, TypeOK, AllSound, Placed, Sound, registry
<1>5. Paid' /\ MembersPaid'
  BY <1>1, <1>3 DEF IInv, Paid, MembersPaid, registry
<1>6. SingleUse'
  BY <1>1, <1>2 DEF IInv, SingleUse
<1>7. Held'
  BY <1>1 DEF IInv, Held, At, Candidate, registry
<1> QED
  BY <1>4, <1>5, <1>6, <1>7 DEF IInv

\* A name that is added belonged to nobody, and one that is removed is freed.
LEMMA RegistryKeeps ==
  ASSUME IInv, NEW n \in Names, Add(n) \/ Remove(n)
  PROVE  IInv'
<1>1. UNCHANGED <<token, call, leaf>>
  BY DEF Add, Remove
<1>2. /\ members' \in [Names -> Calls \cup {Operator, NoName}]
      /\ freed' \subseteq Names /\ freed \subseteq freed'
      /\ \A m \in Names, f \in Calls :
           /\ members'[m] = f => members[m] = f
           /\ members[m] = f => members'[m] = f \/ m \in freed'
  BY EnrollmentAssumption DEF Add, Remove, IInv, TypeOK
<1>3. TypeOK' /\ AllSound' /\ Paid' /\ SingleUse'
  BY <1>1, <1>2 DEF IInv, TypeOK, AllSound, Paid, SingleUse, Placed, Sound
<1>4. MembersPaid'
  BY <1>1, <1>2 DEF IInv, MembersPaid
<1>5. ASSUME NEW f \in Calls, call[f].pc \in {"sign", "enrolled"}
      PROVE  members'[Candidate(f)] = f \/ Candidate(f) \in freed'
  <2>1. Candidate(f) \in Names
    BY <1>5, CandidateIsName DEF IInv, AllSound, Sound
  <2> QED
    BY <1>2, <1>5, <2>1 DEF IInv, Held
<1>6. Held'
  BY <1>1, <1>5 DEF IInv, Held, At, Candidate
<1> QED
  BY <1>3, <1>4, <1>6 DEF IInv

-----------------------------------------------------------------------------
(* The theorems. *)

LEMMA InitInv == Init => IInv
<1> SUFFICES ASSUME Init PROVE IInv
  OBVIOUS
<1>1. \A f \in Calls : call[f] = Waiting /\ leaf[f] = {}
  BY DEF Init
<1>2. Waiting.pc = "waiting" /\ ~Waiting.spent
  BY DEF Waiting
<1>3. \A n \in Names, f \in Calls : members[n] # f
  BY EnrollmentAssumption DEF Init
<1>4. TypeOK
  BY <1>1, WaitingIsSound DEF Init, TypeOK, Ages
<1>5. AllSound /\ Paid /\ MembersPaid
  BY <1>1, <1>2, <1>3, WaitingIsSound DEF AllSound, Paid, MembersPaid
<1>6. SingleUse
  BY <1>1, <1>2 DEF Init, SingleUse
<1>7. Held
  BY <1>1, <1>2 DEF Held
<1> QED
  BY <1>4, <1>5, <1>6, <1>7 DEF IInv

LEMMA NextInv == IInv /\ [Next]_vars => IInv'
<1> SUFFICES ASSUME IInv, [Next]_vars PROVE IInv'
  OBVIOUS
<1>1. ASSUME NEW t \in Tokens, Mint(t) \/ Age(t) \/ Revoke(t) PROVE IInv'
  BY <1>1, TokensKeep
<1>2. ASSUME NEW e \in Calls, Enroll(e) PROVE IInv'
  BY <1>2, InspectKeeps, CheckNameKeeps, RedeemKeeps, RecordKeeps, SignKeeps DEF Enroll
<1>3. CASE Crash
  BY <1>3, CrashKeeps
<1>4. ASSUME NEW n \in Names, Add(n) \/ Remove(n) PROVE IInv'
  BY <1>4, RegistryKeeps
<1>5. CASE UNCHANGED vars
  BY <1>5 DEF vars, registry, IInv, TypeOK, AllSound, Paid, SingleUse, MembersPaid, Held,
              At, Candidate, Placed, Sound
<1> QED
  BY <1>1, <1>2, <1>3, <1>4, <1>5 DEF Next

\* Names and certificates follow from Held.
LEMMA HeldIsEnough == IInv => NamesHeld
  BY DEF IInv, Held, NamesHeld, At

\* The search for a name stays inside the candidates it may try (Service.reserve),
\* and the two stores keep their types.
THEOREM EnrollmentTyped == Spec => []TypeOK
<1>1. IInv => TypeOK
  BY DEF IInv
<1> QED
  BY <1>1, InitInv, NextInv, PTL DEF Spec

\* One enrollment per token, however many requests hold a successful Inspect of it
\* and whatever the operator revokes meanwhile (TokenStore.Redeem).
THEOREM TokensAdmitOne == Spec => []SingleUse
<1>1. IInv => SingleUse
  BY DEF IInv
<1> QED
  BY <1>1, InitInv, NextInv, PTL DEF Spec

\* The registry holds no member that did not spend its token, wherever the request
\* was refused, failed or cut off (Service.reserve).
THEOREM MembersHavePaid == Spec => []MembersPaid
<1>1. IInv => MembersPaid
  BY DEF IInv
<1> QED
  BY <1>1, InitInv, NextInv, PTL DEF Spec

\* The name in a certificate is its holder's until it is removed from the registry
\* (Service.reserve, certifiedName).
THEOREM NamesAreHeld == Spec => []NamesHeld
  BY InitInv, NextInv, HeldIsEnough, PTL DEF Spec
=============================================================================
