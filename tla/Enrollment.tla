----------------------------- MODULE Enrollment -----------------------------
(***************************************************************************)
(* How a host joins the fleet and how a name leaves it: the enrollment     *)
(* service (src/internal/security/enroll/service.go), the token store it   *)
(* spends from (token.go), the registry that reserves names                *)
(* (src/internal/registry/store.go), and the other writers of both.        *)
(*                                                                         *)
(* The token file and the registry file have a lock each, held for one     *)
(* read-modify-write and replaced by rename, so an operation on either is  *)
(* a step, and what an Enroll does between two of them can be overtaken.   *)
(***************************************************************************)
EXTENDS Naturals, Sequences

CONSTANTS
  Calls,          \* Enroll requests, each made once
  Tokens,         \* token values the operator may mint
  Names,          \* sandbox names
  Candidates,     \* Candidates[b]: b, b-2, ... up to maxNameAttempts of them
  NoName,         \* a name left out: by the token, the request or the leaf
  Operator        \* who a member registered by fleetctl add belongs to

Bases == DOMAIN Candidates

ASSUME EnrollmentAssumption ==
  /\ \A b \in Bases : Candidates[b] \in Seq(Names) /\ Candidates[b] # <<>>
  /\ Bases \subseteq Names /\ NoName \notin Names
  /\ NoName \notin Tokens \cup Calls /\ Operator \notin Calls

VARIABLES
  token,     \* token[t]: minted or not, its marks, its age and the name it reserves
  members,   \* members[n]: whose registration holds the name n, or NoName
  call,      \* call[e]: where request e is, and what it holds
  leaf,      \* leaf[e]: the name in the certificate e was issued, once it was
  freed      \* names that have been removed at some time

registry == <<members, freed>>
vars == <<token, call, leaf, registry>>

Ages == {"unminted", "live", "expired", "forgotten"}
Waiting == [pc |-> "waiting", token |-> NoName, base |-> NoName, reserved |-> NoName,
            attempt |-> 1, spent |-> FALSE, late |-> FALSE, tight |-> FALSE]

Init ==
  /\ token = [t \in Tokens |-> [age |-> "unminted", marks |-> {}, name |-> NoName]]
  /\ members = [n \in Names |-> NoName]
  /\ call = [e \in Calls |-> Waiting]
  /\ leaf = [e \in Calls |-> {}]
  /\ freed = {}

-----------------------------------------------------------------------------
(* The token store.  Every operation starts by pruning what was spent longer *)
(* ago than spentTokenRetention, so none of them ever sees such a token.     *)

Pruned(t) == token[t].age = "forgotten"

Redeemable(t, late) ==
  token[t].age # "unminted" /\ ~Pruned(t) /\ token[t].marks = {} /\ ~late

Expired(t) == token[t].age \in {"expired", "forgotten"}

\* The generator never repeats a value.
Mint(t) ==
  /\ token[t].age = "unminted"
  /\ \E name \in Bases \cup {NoName} :
       token' = [token EXCEPT ![t].age = "live", ![t].name = name]
  /\ UNCHANGED <<call, leaf, registry>>

\* Time passes: the TTL, then the retention of a spent token.
Age(t) ==
  /\ \/ token[t].age = "live" /\ token' = [token EXCEPT ![t].age = "expired"]
     \/ token[t].age = "expired" /\ token' = [token EXCEPT ![t].age = "forgotten"]
  /\ UNCHANGED <<call, leaf, registry>>

\* Only a pending token can be withdrawn.
Revoke(t) ==
  /\ Redeemable(t, Expired(t))
  /\ token' = [token EXCEPT ![t].marks = @ \cup {"revoked"}]
  /\ UNCHANGED <<call, leaf, registry>>

-----------------------------------------------------------------------------
(* Enroll. *)

At(e, pc) == call[e].pc = pc
\* The request is over, and keeps on record what it has spent and taken.
Over(k, pc) == IF k.spent THEN [k EXCEPT !.pc = pc, !.late = FALSE, !.tight = FALSE]
               ELSE [Waiting EXCEPT !.pc = pc]
End(e, pc) == call' = [call EXCEPT ![e] = Over(call[e], pc)]
Candidate(e) == Candidates[call[e].base][call[e].attempt]

\* Inspect, and the checks of the request against what the token authorizes.  A
\* request that fails another check, or the rate limit, is one not made.  A tight
\* request names so much that its leaf has room for the reserved name alone.
Inspect(e) ==
  /\ At(e, "waiting")
  /\ \E t \in Tokens, requested \in Bases \cup {NoName}, tight \in BOOLEAN :
       LET reserved == token[t].name
           base     == IF reserved # NoName THEN reserved ELSE requested
       IN  /\ Redeemable(t, Expired(t))
           /\ base # NoName /\ requested \in {base, NoName}
           /\ call' = [call EXCEPT ![e] = [Waiting EXCEPT !.pc = "check", !.token = t,
                                           !.base = base, !.reserved = reserved,
                                           !.tight = tight /\ reserved # NoName]]
  /\ UNCHANGED <<token, leaf, registry>>

\* The next candidate, or maxNameAttempts of them were taken.
NextName(e) ==
  IF call[e].attempt = Len(Candidates[call[e].base])
  THEN End(e, "exhausted")
  ELSE call' = [call EXCEPT ![e].pc = "check", ![e].attempt = @ + 1]

\* The name the leaf carries: one the operator chose, or none.
Certified(e) == IF call[e].reserved = NoName THEN NoName ELSE Candidate(e)
Certifiable(e) == call[e].tight => call[e].attempt = 1

\* Names.Exists, where an unreadable registry counts as taken, then certifiable;
\* and the clock, which Redeem reads before it waits for the lock.
CheckName(e) ==
  /\ At(e, "check")
  /\ \/ NextName(e)
     \/ /\ members[Candidate(e)] = NoName
        /\ \/ ~Certifiable(e) /\ End(e, "uncertifiable")
           \/ /\ Certifiable(e)
              /\ call' = [call EXCEPT ![e].pc = IF call[e].spent THEN "record" ELSE "redeem",
                                     ![e].late = ~call[e].spent /\ Expired(call[e].token)]
  /\ UNCHANGED <<token, leaf, registry>>

\* Mutant: what Inspect answered is good enough.
RedeemUnchecked(e) ==
  /\ At(e, "redeem")
  /\ token' = [token EXCEPT ![call[e].token].marks = @ \cup {"used"}]
  /\ call' = [call EXCEPT ![e].pc = "record", ![e].spent = TRUE,
                               ![e].late = FALSE]
  /\ UNCHANGED <<leaf, registry>>
\* Mutant: the mark is lost when the file is written.
RedeemUnmarked(e) ==
  /\ At(e, "redeem")
  /\ Redeemable(call[e].token, call[e].late) /\ token' = token
  /\ call' = [call EXCEPT ![e].pc = "record", ![e].spent = TRUE,
                               ![e].late = FALSE]
  /\ UNCHANGED <<leaf, registry>>
Redeem(e) ==
  /\ At(e, "redeem")
  /\ \/ /\ Redeemable(call[e].token, call[e].late)
        /\ token' = [token EXCEPT ![call[e].token].marks = @ \cup {"used"}]
        /\ call' = [call EXCEPT ![e].pc = "record", ![e].spent = TRUE,
                               ![e].late = FALSE]
     \/ token' = token /\ End(e, "refused")  \* spent, or the store cannot be read or written
  /\ UNCHANGED <<leaf, registry>>

\* Registry.Add: ErrNameTaken moves the search on, another error ends it.
\* Mutant: the registration replaces the one it finds.
RecordOver(e) ==
  /\ At(e, "record")
  /\ members' = [members EXCEPT ![Candidate(e)] = e]
  /\ call' = [call EXCEPT ![e].pc = "sign"]
  /\ UNCHANGED <<token, leaf, freed>>
Record(e) ==
  /\ At(e, "record")
  /\ \/ /\ members[Candidate(e)] = NoName
        /\ members' = [members EXCEPT ![Candidate(e)] = e]
        /\ call' = [call EXCEPT ![e].pc = "sign"]
     \/ members[Candidate(e)] # NoName /\ members' = members /\ NextName(e)
     \/ members' = members /\ End(e, "failed")
  /\ UNCHANGED <<token, leaf, freed>>

\* Mutant: the leaf carries the name the request came with.
SignBase(e) ==
  /\ At(e, "sign")
  /\ leaf' = [leaf EXCEPT ![e] = {call[e].base}] /\ End(e, "enrolled")
  /\ UNCHANGED <<token, registry>>
Sign(e) ==
  /\ At(e, "sign")
  /\ \/ /\ leaf' = [leaf EXCEPT ![e] = {Certified(e)}] /\ End(e, "enrolled")
     \/ leaf' = leaf /\ End(e, "failed")
  /\ UNCHANGED <<token, registry>>

Ended == {"waiting", "exhausted", "uncertifiable", "refused", "failed", "enrolled", "lost"}

\* fleetctl serve dies; the files are as the last step left them.
Crash ==
  /\ \E e \in Calls : call[e].pc \notin Ended
  /\ call' = [e \in Calls |-> IF call[e].pc \in Ended THEN call[e]
                              ELSE Over(call[e], "lost")]
  /\ UNCHANGED <<token, leaf, registry>>

-----------------------------------------------------------------------------
(* The registry's other writers. *)

\* fleetctl add and fleet_add.
Add(n) ==
  /\ members[n] = NoName
  /\ members' = [members EXCEPT ![n] = Operator]
  /\ UNCHANGED <<token, call, leaf, freed>>

\* The last step of fleetctl remove and fleet_remove.
Remove(n) ==
  /\ members[n] # NoName
  /\ members' = [members EXCEPT ![n] = NoName]
  /\ freed' = freed \cup {n}
  /\ UNCHANGED <<token, call, leaf>>

Enroll(e) ==
  Inspect(e) \/ CheckName(e) \/ Redeem(e) \/ Record(e) \/ Sign(e)
Next ==
  \/ \E t \in Tokens : Mint(t) \/ Age(t) \/ Revoke(t)
  \/ \E e \in Calls : Enroll(e)
  \/ Crash
  \/ \E n \in Names : Add(n) \/ Remove(n)

Spec == Init /\ [][Next]_vars

-----------------------------------------------------------------------------
(* Properties. *)

PCs == Ended \cup {"check", "redeem", "record", "sign"}
Requests == [pc : PCs, token : Tokens \cup {NoName}, base : Bases \cup {NoName},
             reserved : Bases \cup {NoName}, attempt : Nat \ {0},
             spent : BOOLEAN, late : BOOLEAN, tight : BOOLEAN]
\* A request with a base has not run past its last candidate.
Placed(k) == k.base # NoName => k.attempt \in DOMAIN Candidates[k.base]

TypeOK ==
  /\ token \in [Tokens -> [age : Ages, marks : SUBSET {"used", "revoked"},
                           name : Bases \cup {NoName}]]
  /\ members \in [Names -> Calls \cup {Operator, NoName}]
  /\ call \in [Calls -> Requests] /\ \A e \in Calls : Placed(call[e])
  /\ leaf \in [Calls -> SUBSET (Names \cup {NoName})]
  /\ freed \subseteq Names

\* A token admits one enrollment, and none once it was withdrawn: however many
\* requests hold a successful Inspect of it, one wins the swap in Redeem, and
\* Revoke and Redeem exclude each other (token.go).
SingleUse ==
  /\ \A e, f \in Calls :
       call[e].spent /\ call[f].spent /\ call[e].token = call[f].token => e = f
  /\ \A t \in Tokens : token[t].marks # {"used", "revoked"}

\* Whoever is in the registry through enrollment has paid for it, and a request
\* that was refused has left no member behind (Service.reserve's order).
MembersPaid ==
  \A n \in Names : \A e \in Calls : members[n] = e =>
    /\ call[e].spent /\ token[call[e].token].marks = {"used"}
    /\ call[e].pc \in {"sign", "enrolled", "failed", "lost"}

\* The name a host is told, and the one in its certificate, is its own in the
\* registry until somebody removes it: collisions are resolved before signing.
NamesHeld ==
  \A e \in Calls :
    /\ At(e, "enrolled") => members[Candidate(e)] = e \/ Candidate(e) \in freed
    /\ \A n \in leaf[e] \ {NoName} :
         members[n] = e \/ n \in freed
=============================================================================
