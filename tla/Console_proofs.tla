--------------------------- MODULE Console_proofs ---------------------------
(***************************************************************************)
(* Theorems about the parts of the console, for every number of people,    *)
(* requests, connections, tables and launches that overlap.                *)
(***************************************************************************)
EXTENDS Members, Workspace, Comparison, Review, FiniteSetTheorems, TLAPS

-----------------------------------------------------------------------------
(***************************************************************************)
(* Sums over finite sets.                                                  *)
(***************************************************************************)

\* A family of subsets of a finite set that is not empty has a smallest member: what is
\* used for induction over finite sets.
LEMMA Smallest ==
  ASSUME NEW S, IsFiniteSet(S), NEW F \in SUBSET (SUBSET S), F # {}
  PROVE  \E X \in F : \A Y \in F : Y \subseteq X => Y = X
<1>1. F \subseteq FiniteSubsetsOf(S)
  BY FS_Subset DEF FiniteSubsetsOf
<1>2. \E X \in F : \A Y \in F : ~ (<<Y, X>> \in StrictSubsetOrdering(S))
  BY <1>1, FS_StrictSubsetOrderingWellFounded, WFMin
<1> QED BY <1>2 DEF StrictSubsetOrdering

\* An element of a set, and the set without it.
Some(s) == CHOOSE x \in s : TRUE
Rest(s) == s \ {Some(s)}

\* g adds up f over every subset of S.
Adds(f, S, g) == g = [s \in SUBSET S |-> IF s = {} THEN 0 ELSE f[Some(s)] + g[Rest(s)]]

\* A set that is not empty is one of its elements and the rest.
LEMMA SomeAndRest ==
  ASSUME NEW S, NEW s \in SUBSET S, s # {}
  PROVE  Some(s) \in s /\ Rest(s) \in SUBSET S /\ Rest(s) \subseteq s /\ Rest(s) # s
  BY DEF Some, Rest

\* The sum of a set is one of its elements and the sum of the rest.
LEMMA AddsAt ==
  ASSUME NEW f, NEW S, NEW g, Adds(f, S, g)
  PROVE  /\ g[{}] = 0
         /\ \A s \in SUBSET S : s # {} => g[s] = f[Some(s)] + g[Rest(s)]
  BY DEF Adds

\* Two functions that add up f agree where both are defined.
LEMMA AddsAgree ==
  ASSUME NEW f, NEW T, IsFiniteSet(T), NEW S \in SUBSET T, NEW g, NEW h, Adds(f, S, g), Adds(f, T, h)
  PROVE  \A s \in SUBSET S : g[s] = h[s]
<1> DEFINE F == {s \in SUBSET S : g[s] # h[s]}
<1>1. SUFFICES ASSUME F # {} PROVE FALSE
  OBVIOUS
<1>2. PICK X \in F : \A Y \in F : Y \subseteq X => Y = X
  <2>1. IsFiniteSet(S)
    BY FS_Subset
  <2>2. F \in SUBSET (SUBSET S)
    OBVIOUS
  <2> HIDE DEF F
  <2> QED BY <1>1, <2>1, <2>2, Smallest
<1>3. CASE X = {}
  BY <1>2, <1>3, AddsAt
<1>4. CASE X # {}
  <2>1. X \in SUBSET S /\ X \in SUBSET T /\ g[X] # h[X]
    BY <1>2
  <2>2. Rest(X) \in SUBSET S /\ Rest(X) \subseteq X /\ Rest(X) # X
    BY <1>4, <2>1, SomeAndRest
  <2>3. g[Rest(X)] = h[Rest(X)]
    BY <1>2, <2>2
  <2>4. g[X] = f[Some(X)] + g[Rest(X)] /\ h[X] = f[Some(X)] + h[Rest(X)]
    BY <1>4, <2>1, AddsAt
  <2> QED BY <2>1, <2>3, <2>4
<1> QED BY <1>3, <1>4

\* There is such a function.
LEMMA AddsExists ==
  ASSUME NEW f, NEW S, IsFiniteSet(S)
  PROVE  \E g : Adds(f, S, g)
<1> DEFINE F == {s \in SUBSET S : ~ \E g : Adds(f, s, g)}
           sum(s) == CHOOSE g : Adds(f, s, g)
<1>1. SUFFICES ASSUME F # {} PROVE FALSE
  OBVIOUS
<1>2. PICK X \in F : \A Y \in F : Y \subseteq X => Y = X
  <2>1. F \in SUBSET (SUBSET S)
    OBVIOUS
  <2> HIDE DEF F
  <2> QED BY <1>1, <2>1, Smallest
<1>3. X \in SUBSET S /\ IsFiniteSet(X) /\ ~ \E g : Adds(f, X, g)
  BY <1>2, FS_Subset
<1>4. \A s \in SUBSET X : s # X => Adds(f, s, sum(s))
  BY <1>2, <1>3
<1> DEFINE h == [s \in SUBSET X |-> IF s = {} THEN 0 ELSE f[Some(s)] + sum(Rest(s))[Rest(s)]]
<1> HIDE DEF sum
<1>5. ASSUME NEW s \in SUBSET X, s # {} PROVE h[Rest(s)] = sum(Rest(s))[Rest(s)]
  <2> DEFINE r == Rest(s)
  <2>1. r \in SUBSET X /\ r # X
    BY <1>5, SomeAndRest
  <2>2. Adds(f, r, sum(r))
    BY <1>4, <2>1
  <2>3. CASE r = {}
    BY <2>1, <2>2, <2>3, AddsAt
  <2>4. CASE r # {}
    <3>1. Rest(r) \in SUBSET r /\ Rest(r) \in SUBSET X /\ Rest(r) # X
      BY <2>1, <2>4, SomeAndRest
    <3>2. sum(Rest(r))[Rest(r)] = sum(r)[Rest(r)]
      <4>1. Adds(f, Rest(r), sum(Rest(r))) /\ IsFiniteSet(r)
        BY <1>3, <1>4, <2>1, <3>1, FS_Subset
      <4> QED BY <2>2, <3>1, <4>1, AddsAgree
    <3>3. sum(r)[r] = f[Some(r)] + sum(r)[Rest(r)]
      BY <2>2, <2>4, AddsAt
    <3> QED BY <2>1, <2>4, <3>2, <3>3
  <2> QED BY <2>3, <2>4
<1>6. Adds(f, X, h)
  BY <1>5 DEF Adds
<1> QED BY <1>3, <1>6

\* What the sum of the community modules is.
LEMMA SumAdds ==
  ASSUME NEW f, NEW S, IsFiniteSet(S)
  PROVE  \E g : Adds(f, S, g) /\ MapThenSumSet(LAMBDA t : f[t], S) = g[S]
<1>1. PICK h : Adds(f, S, h)
  BY AddsExists
<1> QED BY <1>1 DEF MapThenSumSet, MapThenFoldSet, Adds, Some, Rest

\* Where nothing of f is more than the same of g, and nothing of g is there where f has
\* none, the same holds of their sums.
LEMMA SumsCompare ==
  ASSUME NEW S, IsFiniteSet(S), NEW f \in [S -> Nat], NEW g \in [S -> Nat],
         \A t \in S : f[t] <= g[t] /\ (f[t] = 0 => g[t] = 0),
         NEW F, Adds(f, S, F), NEW G, Adds(g, S, G)
  PROVE  F[S] \in Nat /\ G[S] \in Nat /\ F[S] <= G[S] /\ (F[S] = 0 => G[S] = 0)
<1> DEFINE Fits(s) == F[s] \in Nat /\ G[s] \in Nat /\ F[s] <= G[s] /\ (F[s] = 0 => G[s] = 0)
           Bad == {s \in SUBSET S : ~ Fits(s)}
<1>1. SUFFICES ASSUME Bad # {} PROVE FALSE
  OBVIOUS
<1>2. PICK X \in Bad : \A Y \in Bad : Y \subseteq X => Y = X
  <2>1. Bad \in SUBSET (SUBSET S)
    OBVIOUS
  <2> HIDE DEF Bad
  <2> QED BY <1>1, <2>1, Smallest
<1>3. CASE X = {}
  BY <1>2, <1>3, AddsAt
<1>4. CASE X # {}
  <2>1. X \in SUBSET S /\ ~ Fits(X)
    BY <1>2
  <2>2. Some(X) \in S /\ Rest(X) \in SUBSET S /\ Rest(X) \subseteq X /\ Rest(X) # X
    BY <1>4, <2>1, SomeAndRest
  <2>3. Fits(Rest(X))
    BY <1>2, <2>2
  <2>4. F[X] = f[Some(X)] + F[Rest(X)] /\ G[X] = g[Some(X)] + G[Rest(X)]
    BY <1>4, <2>1, AddsAt
  <2>5. f[Some(X)] \in Nat /\ g[Some(X)] \in Nat /\ f[Some(X)] <= g[Some(X)] /\ (f[Some(X)] = 0 => g[Some(X)] = 0)
    BY <2>2
  <2> QED BY <2>1, <2>3, <2>4, <2>5
<1> QED BY <1>3, <1>4

-----------------------------------------------------------------------------
(***************************************************************************)
(* Members.                                                                *)
(***************************************************************************)

RequestRecord ==
  [phase : {"idle", "allowed", "found", "counted", "checked", "redeeming"},
   kind : {"none", "change", "invite", "withdraw", "accept"},
   target : User \cup {"none"}, role : Role \cup {"none"}, seen : Role \cup {"none"}, token : Nat]

InvitationRecord ==
  [status : {"none", "pending", "expired", "revoked", "accepted"}, role : Role \cup {"none"}, token : Nat]

MemberType ==
  /\ member \in [User -> Role \cup {"none"}]
  /\ invitation \in [User -> InvitationRecord]
  /\ tokens \in Nat /\ requests \in Nat /\ dead \subseteq Nat /\ crossed \in BOOLEAN
  /\ request \in [Request -> RequestRecord]
  /\ \A q \in Request : request[q].phase # "idle" => request[q].target \in User

\* Tokens are minted one after another and each belongs to one address: what is dead
\* was minted, and an invitation that is pending has a token that is not dead.
TokenInv ==
  /\ \A n \in dead : n <= tokens
  /\ \A u \in User : invitation[u].token <= tokens
  /\ \A u, v \in User : invitation[u].token = invitation[v].token => u = v \/ invitation[u].token = NoToken
  /\ \A u \in User : invitation[u].status = "pending" =>
       invitation[u].token # NoToken /\ invitation[u].token \notin dead

\* Whoever redeems an invitation read it as pending and holds its row.
RedeemInv ==
  \A q \in Request : request[q].phase = "redeeming" => LET u == request[q].target IN
    /\ invitation[u].status = "pending" /\ request[q].token = invitation[u].token
    /\ \A p \in Request : request[p].phase = "redeeming" /\ request[p].target = u => p = q

\* A request that may lower somebody.
Lowering(q) == request[q].phase \in {"found", "counted"} /\ request[q].role # "admin"

\* Unless lowerings crossed there is an administrator, and beside the one a request is
\* about to lower there is another.  A request that read "editor" will not count, whatever
\* became of the member since: it read so while somebody else was an administrator.
AdminInv ==
  ~ crossed =>
    /\ Admins # {}
    /\ \A q \in Request : Lowering(q) /\ (request[q].phase = "found" => request[q].seen # "admin")
                          => Admins \ {request[q].target} # {}

MembersInv == MemberType /\ TokenInv /\ RedeemInv /\ AdminInv

\* A request that waits is in the domain of requests.
LEMMA IdleTyped == Idle \in RequestRecord /\ Idle.phase = "idle"
  BY DEF Idle, InPhase, RequestRecord, Role, NoToken

\* No step leaves the domains.
LEMMA MemberTypeStep == ASSUME MemberType, [MembersNext]_memberVars PROVE MemberType'
<1> USE DEF MemberType, Role, RequestRecord, InvitationRecord, NoToken
<1>1. ASSUME NEW q \in Request, AdminRequest(q) PROVE MemberType'
  <2>1. PICK u \in User, role \in Role \cup {"none"}, kind \in {"change", "invite", "withdraw"} :
          Authorise(q, kind, u, role)
    BY <1>1 DEF AdminRequest
  <2>2. request' = [request EXCEPT ![q] = InPhase("allowed", kind, u, role, NoToken)]
    BY <2>1 DEF Authorise
  <2>3. requests' \in Nat /\ UNCHANGED <<member, invitation, tokens, dead, crossed>>
    BY <2>1 DEF Authorise
  <2>4. InPhase("allowed", kind, u, role, NoToken) \in RequestRecord /\ InPhase("allowed", kind, u, role, NoToken).target \in User
    BY DEF InPhase
  <2> HIDE DEF RequestRecord
  <2> QED BY <2>2, <2>3, <2>4
<1>2. ASSUME NEW q \in Request, FindMember(q) PROVE MemberType'
  <2>1. member[request[q].target] \in Role \cup {"none"}
    BY <1>2 DEF FindMember
  <2>2. CASE request' = [request EXCEPT ![q].phase = "found", ![q].seen = member[request[q].target]]
    <3> DEFINE found == [request[q] EXCEPT !.phase = "found", !.seen = member[request[q].target]]
    <3>1. found \in RequestRecord /\ found.target \in User
      BY <1>2, <2>1 DEF FindMember
    <3>2. request' = [request EXCEPT ![q] = found] /\ UNCHANGED <<member, invitation, tokens, requests, dead, crossed>>
      BY <1>2, <2>2 DEF FindMember
    <3> HIDE DEF found, RequestRecord
    <3> QED BY <3>1, <3>2
  <2>3. CASE Over(q)
    BY <1>2, <2>3, IdleTyped DEF FindMember, Over
  <2> QED BY <1>2, <2>2, <2>3 DEF FindMember
<1>3. ASSUME NEW q \in Request, CountAdmins(q) PROVE MemberType'
  <2>1. CASE Over(q)
    BY <1>3, <2>1, IdleTyped DEF CountAdmins, Over
  <2>2. CASE request' = [request EXCEPT ![q].phase = "counted"]
    BY <1>3, <2>2 DEF CountAdmins
  <2> QED BY <1>3, <2>1, <2>2 DEF CountAdmins
<1>4. ASSUME NEW q \in Request, ChangeMember(q) PROVE MemberType'
  BY <1>4, IdleTyped DEF ChangeMember, Over
<1>5. ASSUME NEW q \in Request, CheckInvitee(q) PROVE MemberType'
  BY <1>5, IdleTyped DEF CheckInvitee, Over
<1>6. ASSUME NEW q \in Request, Invite(q) PROVE MemberType'
  <2> DEFINE u == request[q].target
             issued == [status |-> "pending", role |-> request[q].role, token |-> tokens + 1]
  <2>1. u \in User /\ request[q].role \in Role \cup {"none"} /\ invitation[u].token \in Nat
    BY <1>6 DEF Invite
  <2>2. invitation' = [invitation EXCEPT ![u] = issued] /\ tokens' \in Nat
    BY <1>6 DEF Invite
  <2>3. dead' \subseteq Nat
    BY <1>6, <2>1 DEF Invite
  <2>4. request' = [request EXCEPT ![q] = Idle] /\ UNCHANGED <<member, requests, crossed>>
    BY <1>6 DEF Invite, Over
  <2> HIDE DEF RequestRecord
  <2> QED BY <2>1, <2>2, <2>3, <2>4, IdleTyped
<1>7. ASSUME NEW q \in Request, Withdraw(q) PROVE MemberType'
  <2> DEFINE u == request[q].target
             free == invitation[u].status \in {"pending", "expired"}
  <2>1. u \in User /\ request' = [request EXCEPT ![q] = Idle] /\ UNCHANGED <<member, tokens, requests, crossed>>
    BY <1>7 DEF Withdraw, Over
  <2>2. \/ UNCHANGED <<invitation, dead>>
        \/ invitation' = [invitation EXCEPT ![u].status = "revoked"] /\ dead' = dead \cup {invitation[u].token}
    BY <1>7 DEF Withdraw
  <2>3. /\ request' \in [Request -> RequestRecord]
        /\ \A p \in Request : request'[p].phase # "idle" => request'[p].target \in User
    BY <2>1, IdleTyped
  <2>4. invitation' \in [User -> InvitationRecord]
    BY <2>1, <2>2
  <2>5. dead' \subseteq Nat
    BY <2>1, <2>2
  <2> HIDE DEF RequestRecord, u
  <2> QED BY <2>1, <2>3, <2>4, <2>5
<1>8. ASSUME NEW q \in Request, Accept(q) PROVE MemberType'
  BY <1>8, IdleTyped DEF Accept, Over
<1>9. ASSUME NEW q \in Request, NEW caller \in User, NEW token \in 1 .. tokens, Redeem(q, caller, token)
      PROVE MemberType'
  <2>1. request' = request \/ request' = [request EXCEPT ![q] = InPhase("redeeming", "accept", caller, "none", token)]
    BY <1>9 DEF Redeem
  <2>2. requests' \in Nat /\ UNCHANGED <<member, invitation, tokens, dead, crossed>>
    BY <1>9 DEF Redeem
  <2>3. InPhase("redeeming", "accept", caller, "none", token) \in RequestRecord /\ InPhase("redeeming", "accept", caller, "none", token).target \in User
    BY DEF InPhase
  <2> HIDE DEF RequestRecord
  <2> QED BY <2>1, <2>2, <2>3
<1>10. ASSUME NEW u \in User, Expire(u) PROVE MemberType'
  BY <1>10 DEF Expire
<1>11. CASE UNCHANGED memberVars
  BY <1>11 DEF memberVars
<1> QED
  BY <1>1, <1>2, <1>3, <1>4, <1>5, <1>6, <1>7, <1>8, <1>9, <1>10, <1>11 DEF MembersNext

\* A step that neither mints, kills nor redeems keeps what is said of tokens.
LEMMA TokensKept ==
  ASSUME TokenInv, RedeemInv, UNCHANGED <<invitation, tokens, dead>>,
         \A p \in Request : request'[p].phase = "redeeming" => request'[p] = request[p]
  PROVE  TokenInv' /\ RedeemInv'
<1>1. TokenInv'
  BY DEF TokenInv
<1>2. RedeemInv'
  BY DEF RedeemInv
<1> QED BY <1>1, <1>2

\* Whoever holds the row of an invitation keeps everybody else from writing it, so that
\* what was read of it stays true; a token that is minted is a new one.
LEMMA TokenStep == ASSUME MembersInv, [MembersNext]_memberVars PROVE TokenInv' /\ RedeemInv'
<1> USE IdleTyped DEF MembersInv, MemberType, NoToken
<1>1. ASSUME NEW q \in Request, AdminRequest(q) PROVE TokenInv' /\ RedeemInv'
  <2>1. UNCHANGED <<invitation, tokens, dead>>
    BY <1>1 DEF AdminRequest, Authorise
  <2>2. \A p \in Request : request'[p].phase = "redeeming" => request'[p] = request[p]
    BY <1>1 DEF AdminRequest, Authorise, InPhase
  <2> QED BY <2>1, <2>2, TokensKept
<1>2. ASSUME NEW q \in Request, FindMember(q) \/ CountAdmins(q) \/ ChangeMember(q) \/ CheckInvitee(q)
      PROVE TokenInv' /\ RedeemInv'
  <2>1. UNCHANGED <<invitation, tokens, dead>>
    BY <1>2 DEF FindMember, CountAdmins, ChangeMember, CheckInvitee
  <2>2. \A p \in Request : request'[p].phase = "redeeming" => request'[p] = request[p]
    <3> USE DEF RequestRecord
    <3>1. CASE Over(q)
      BY <3>1 DEF Over
    <3>2. CASE \E s \in {"found", "counted", "checked"} : request'[q].phase = s /\ \A p \in Request \ {q} : request'[p] = request[p]
      BY <3>2
    <3> QED BY <1>2, <3>1, <3>2 DEF FindMember, CountAdmins, ChangeMember, CheckInvitee
  <2> QED BY <2>1, <2>2, TokensKept
<1>3. ASSUME NEW q \in Request, Invite(q) PROVE TokenInv' /\ RedeemInv'
  <2> DEFINE u == request[q].target
  <2>1. /\ u \in User /\ tokens' = tokens + 1
        /\ invitation'[u].token = tokens + 1 /\ invitation'[u].status = "pending"
        /\ \A v \in User : v # u => invitation'[v] = invitation[v]
        /\ dead' \subseteq dead \cup {invitation[u].token}
    BY <1>3 DEF Invite, InvitationRecord
  <2>2. \A p \in Request : request'[p].phase = "redeeming" => request'[p] = request[p] /\ request[p].target # u
    BY <1>3 DEF Invite, Over, RowFree
  <2>3. \A v \in User : invitation[v].token \in Nat
    BY DEF InvitationRecord
  <2> HIDE DEF u, MemberType
  <2>4. TokenInv'
    BY <2>1, <2>3 DEF TokenInv, MemberType
  <2>5. RedeemInv'
    BY <2>1, <2>2 DEF RedeemInv, MemberType
  <2> QED BY <2>4, <2>5
<1>4. ASSUME NEW q \in Request, NEW u \in User, RowFree(u),
             \/ UNCHANGED <<invitation, dead>>
             \/ \E s \in {"revoked", "expired"} :
                  invitation' = [invitation EXCEPT ![u].status = s] /\ dead' = dead \cup {invitation[u].token},
             request' = request \/ Over(q), UNCHANGED tokens
      PROVE TokenInv' /\ RedeemInv'
  <2>1. /\ \A v \in User : /\ invitation'[v].token = invitation[v].token
                           /\ invitation'[v].status = "pending" => invitation[v].status = "pending"
                           /\ v # u => invitation'[v] = invitation[v]
        /\ dead' = dead \/ (dead' = dead \cup {invitation[u].token} /\ invitation'[u].status # "pending")
    <3>1. CASE UNCHANGED <<invitation, dead>>
      BY <3>1
    <3>2. CASE \E s \in {"revoked", "expired"} :
                 invitation' = [invitation EXCEPT ![u].status = s] /\ dead' = dead \cup {invitation[u].token}
      <4>1. PICK s \in {"revoked", "expired"} : invitation' = [invitation EXCEPT ![u].status = s]
        BY <3>2
      <4>2. /\ \A v \in User \ {u} : invitation'[v] = invitation[v]
            /\ invitation'[u].token = invitation[u].token /\ invitation'[u].status = s
        BY <4>1 DEF InvitationRecord
      <4> QED BY <3>2, <4>2
    <3> QED BY <1>4, <3>1, <3>2
  <2>2. \A p \in Request : request'[p].phase = "redeeming" => request'[p] = request[p] /\ request[p].target # u
    BY <1>4 DEF Over, RowFree
  <2>3. \A v \in User : invitation[v].token \in Nat
    BY DEF InvitationRecord
  <2> HIDE DEF MemberType
  <2>4. TokenInv'
    BY <2>1, <2>3, <1>4 DEF TokenInv, MemberType
  <2>5. RedeemInv'
    BY <2>1, <2>2 DEF RedeemInv, MemberType
  <2> QED BY <2>4, <2>5
<1>5. ASSUME NEW q \in Request, Withdraw(q) PROVE TokenInv' /\ RedeemInv'
  <2> DEFINE u == request[q].target
  <2>1. u \in User /\ RowFree(u) /\ Over(q) /\ UNCHANGED tokens
    BY <1>5 DEF Withdraw
  <2>2. \/ UNCHANGED <<invitation, dead>>
        \/ invitation' = [invitation EXCEPT ![u].status = "revoked"] /\ dead' = dead \cup {invitation[u].token}
    BY <1>5 DEF Withdraw
  <2> QED BY <2>1, <2>2, <1>4
<1>6. ASSUME NEW u \in User, Expire(u) PROVE TokenInv' /\ RedeemInv'
  <2>1. CASE Request = {}
    BY <1>6, <2>1 DEF Expire, TokenInv, RedeemInv
  <2>2. CASE Request # {}
    BY <1>6, <2>2, <1>4 DEF Expire
  <2> QED BY <2>1, <2>2
<1>7. ASSUME NEW q \in Request, Accept(q) PROVE TokenInv' /\ RedeemInv'
  <2> DEFINE u == request[q].target
  <2>1. /\ u \in User /\ tokens' = tokens /\ request[q].token = invitation[u].token
        /\ \A v \in User : /\ invitation'[v].token = invitation[v].token
                           /\ invitation'[v].status = "pending" => invitation[v].status = "pending" /\ v # u
                           /\ v # u => invitation'[v] = invitation[v]
        /\ dead' = dead \cup {invitation[u].token}
    BY <1>7 DEF Accept, RedeemInv, InvitationRecord
  <2>2. \A p \in Request : request'[p].phase = "redeeming" => request'[p] = request[p] /\ request[p].target # u
    BY <1>7 DEF Accept, Over, RedeemInv
  <2>3. \A v \in User : invitation[v].token \in Nat
    BY DEF InvitationRecord
  <2> HIDE DEF u, MemberType
  <2>4. TokenInv'
    BY <2>1, <2>3 DEF TokenInv, MemberType
  <2>5. RedeemInv'
    BY <2>1, <2>2 DEF RedeemInv, MemberType
  <2> QED BY <2>4, <2>5
<1>8. ASSUME NEW q \in Request, NEW caller \in User, NEW token \in 1 .. tokens, Redeem(q, caller, token)
      PROVE TokenInv' /\ RedeemInv'
  <2>1. UNCHANGED <<invitation, tokens, dead>>
    BY <1>8 DEF Redeem
  <2>2. CASE request' = request
    BY <2>1, <2>2, TokensKept
  <2>3. CASE /\ request' = [request EXCEPT ![q] = InPhase("redeeming", "accept", caller, "none", token)]
             /\ RowFree(caller) /\ invitation[caller].token = token /\ invitation[caller].status = "pending"
    <3>1. TokenInv'
      BY <2>1 DEF TokenInv
    <3>2. RedeemInv'
      BY <2>1, <2>3 DEF RedeemInv, InPhase, RowFree
    <3> QED BY <3>1, <3>2
  <2> QED BY <1>8, <2>2, <2>3 DEF Redeem
<1>9. CASE UNCHANGED memberVars
  BY <1>9, TokensKept DEF memberVars
<1> QED
  BY <1>1, <1>2, <1>3, <1>5, <1>6, <1>7, <1>8, <1>9 DEF MembersNext

\* Two sets of which the second is the first without one element: if that leaves nothing,
\* the first has one element at most.
LEMMA OnlyOne == ASSUME NEW S, NEW x, S \ {x} = {} PROVE Cardinality(S) \in {0, 1}
<1>1. S = {} \/ S = {x}
  OBVIOUS
<1> QED BY <1>1, FS_EmptySet, FS_Singleton

\* A step that lowers nobody, and after which no request is about to lower that was not
\* before, keeps what is said of administrators.
LEMMA AdminsKept ==
  ASSUME AdminInv, Admins \subseteq Admins', crossed' = crossed,
         \A q \in Request : Lowering(q)' => request'[q] = request[q]
  PROVE  AdminInv'
  BY DEF AdminInv, Lowering

\* The administrators are there until a lowering crosses another.
LEMMA AdminStep == ASSUME MembersInv, [MembersNext]_memberVars PROVE AdminInv'
<1> USE IdleTyped DEF MembersInv, MemberType
<1>1. ASSUME NEW q \in Request, \/ AdminRequest(q) \/ CheckInvitee(q) \/ Invite(q) \/ Withdraw(q)
                                \/ \E caller \in User, token \in 1 .. tokens : Redeem(q, caller, token)
      PROVE AdminInv'
  <2>1. UNCHANGED <<member, crossed>>
    BY <1>1 DEF AdminRequest, Authorise, CheckInvitee, Invite, Withdraw, Redeem
  <2>2. \A p \in Request : Lowering(p)' => request'[p] = request[p]
    <3>1. \A p \in Request \ {q} : request'[p] = request[p]
      BY <1>1 DEF AdminRequest, Authorise, CheckInvitee, Invite, Withdraw, Redeem, Over, RequestRecord
    <3>2. ~ Lowering(q)' \/ request'[q] = request[q]
      BY <1>1 DEF AdminRequest, Authorise, CheckInvitee, Invite, Withdraw, Redeem, Over, InPhase, Lowering, RequestRecord
    <3> QED BY <3>1, <3>2
  <2> QED BY <2>1, <2>2, AdminsKept DEF Admins
<1>2. ASSUME NEW q \in Request, FindMember(q) PROVE AdminInv'
  <2> DEFINE u == request[q].target
  <2>1. CASE Over(q)
    BY <1>2, <2>1, AdminsKept DEF FindMember, Over, Admins, Lowering
  <2>2. CASE request' = [request EXCEPT ![q].phase = "found", ![q].seen = member[u]]
    <3>1. /\ \A p \in Request \ {q} : request'[p] = request[p]
          /\ request'[q].target = u /\ request'[q].seen = member[u] /\ request'[q].phase = "found"
      BY <2>2 DEF RequestRecord
    <3>2. Admins' = Admins /\ crossed' = crossed
      BY <1>2 DEF FindMember, Admins
    <3>3. member[u] # "admin" => u \notin Admins
      BY DEF Admins
    <3> QED BY <3>1, <3>2, <3>3 DEF AdminInv, Lowering
  <2> QED BY <1>2, <2>1, <2>2 DEF FindMember
<1>3. ASSUME NEW q \in Request, CountAdmins(q) PROVE AdminInv'
  <2> DEFINE u == request[q].target
  <2>1. CASE Over(q)
    BY <1>3, <2>1, AdminsKept DEF CountAdmins, Over, Admins, Lowering
  <2>2. CASE /\ request' = [request EXCEPT ![q].phase = "counted"]
             /\ ~ WouldOrphan(request[q].seen, request[q].role, Cardinality(Admins))
    <3>1. /\ \A p \in Request \ {q} : request'[p] = request[p]
          /\ request'[q].target = u /\ request'[q].phase = "counted" /\ request'[q].role = request[q].role
      BY <2>2 DEF RequestRecord
    <3>2. Admins' = Admins /\ crossed' = crossed
      BY <1>3 DEF CountAdmins, Admins
    <3>3. Lowering(q)' /\ ~ crossed => Admins \ {u} # {}
      <4>1. CASE request[q].seen = "admin" /\ request[q].role # "admin"
        <5>1. ~ (Cardinality(Admins) <= 1)
          BY <2>2, <4>1 DEF WouldOrphan
        <5>2. Admins \ {u} = {} => Cardinality(Admins) \in {0, 1}
          BY OnlyOne
        <5> QED BY <5>1, <5>2
      <4>2. CASE request[q].seen # "admin" /\ request[q].role # "admin"
        BY <1>3, <4>2 DEF AdminInv, Lowering, CountAdmins
      <4>3. CASE request[q].role = "admin"
        BY <3>1, <4>3 DEF Lowering
      <4> QED BY <4>1, <4>2, <4>3
    <3> QED BY <3>1, <3>2, <3>3 DEF AdminInv, Lowering
  <2> QED BY <1>3, <2>1, <2>2 DEF CountAdmins
<1>4. ASSUME NEW q \in Request, ChangeMember(q) PROVE AdminInv'
  <2> DEFINE u == request[q].target
             role == request[q].role
  <2>1. /\ \A p \in Request \ {q} : request'[p] = request[p]
        /\ request'[q] = Idle
    BY <1>4 DEF ChangeMember, Over
  <2>2. u \in User /\ \A v \in User \ {u} : member'[v] = member[v]
    BY <1>4 DEF ChangeMember
  <2>3. CASE u \notin Admins \/ role = "admin"
    <3>1. Admins \subseteq Admins'
      BY <1>4, <2>2, <2>3 DEF ChangeMember, Admins
    <3>2. crossed' = crossed
      BY <1>4, <2>3 DEF ChangeMember
    <3>3. \A p \in Request : Lowering(p)' => request'[p] = request[p]
      BY <2>1 DEF Lowering
    <3> QED BY <3>1, <3>2, <3>3, AdminsKept
  <2>4. CASE u \in Admins /\ role # "admin"
    <3>1. SUFFICES ASSUME ~ crossed' PROVE AdminInv'
      BY DEF AdminInv
    <3>2. ~ crossed /\ ~ AnotherLowering(q)
      BY <1>4, <2>4, <3>1 DEF ChangeMember
    <3>3. Admins \ {u} # {} /\ Admins \ {u} \subseteq Admins'
      BY <1>4, <2>2, <2>4, <3>2 DEF AdminInv, Lowering, ChangeMember, Admins
    <3>4. \A p \in Request : ~ Lowering(p)'
      BY <2>1, <3>2 DEF AnotherLowering, Lowering
    <3> QED BY <3>3, <3>4 DEF AdminInv
  <2> QED BY <2>3, <2>4
<1>5. ASSUME NEW q \in Request, Accept(q) PROVE AdminInv'
  <2>1. Admins \subseteq Admins' /\ crossed' = crossed
    BY <1>5 DEF Accept, Admins
  <2>2. \A p \in Request : Lowering(p)' => request'[p] = request[p]
    BY <1>5 DEF Accept, Over, Lowering
  <2> QED BY <2>1, <2>2, AdminsKept
<1>6. ASSUME UNCHANGED <<member, crossed, request>> PROVE AdminInv'
  BY <1>6, AdminsKept DEF Admins
<1>7. ASSUME NEW u \in User, Expire(u) PROVE AdminInv'
  BY <1>6, <1>7 DEF Expire
<1>8. CASE UNCHANGED memberVars
  BY <1>6, <1>8 DEF memberVars
<1> QED
  BY <1>1, <1>2, <1>3, <1>4, <1>5, <1>7, <1>8 DEF MembersNext

\* Who is there, what is invited and what is asked for keeps to its domain, and with it
\* what the two properties below need.
THEOREM MembersInductive == MembersSpec => []MembersInv
<1>1. MembersInit => MembersInv
  <2> SUFFICES ASSUME MembersInit PROVE MembersInv OBVIOUS
  <2> USE DEF MembersInit, NoToken
  <2>1. MemberType
    BY IdleTyped DEF MemberType, Role, InvitationRecord
  <2>2. TokenInv
    BY DEF TokenInv
  <2>3. RedeemInv /\ AdminInv
    BY IdleTyped DEF RedeemInv, AdminInv, Admins, Lowering
  <2> QED BY <2>1, <2>2, <2>3 DEF MembersInv
<1>2. MembersInv /\ [MembersNext]_memberVars => MembersInv'
  BY MemberTypeStep, TokenStep, AdminStep DEF MembersInv
<1> QED BY <1>1, <1>2, PTL DEF MembersSpec

\* However many people are demoted and removed at the same time, an organisation loses
\* its last administrator only where two of these requests crossed.
THEOREM AdminsStay == MembersSpec => []OrgKeepsAdmin
<1>1. MembersInv => OrgKeepsAdmin
  BY DEF MembersInv, AdminInv, OrgKeepsAdmin
<1> QED BY <1>1, MembersInductive, PTL

\* Whoever joins an organisation redeems a token that was his and good until then.
THEOREM NobodyJoinsByADeadToken == MembersSpec => DeadTokenAdmitsNobody
<1> DEFINE ByItsToken(u) ==
      member[u] = "none" /\ member'[u] # "none"
        => \E q \in Request : /\ request[q].phase = "redeeming" /\ request[q].target = u
                              /\ request[q].token = invitation[u].token /\ request[q].token \notin dead
<1>1. ASSUME MembersInv, [MembersNext]_memberVars, NEW u \in User PROVE ByItsToken(u)
  <2> USE DEF MembersInv, MemberType
  <2>1. ASSUME NEW q \in Request, Accept(q) PROVE ByItsToken(u)
    <3>1. \A v \in User \ {request[q].target} : member'[v] = member[v]
      BY <2>1 DEF Accept
    <3>2. request[q].phase = "redeeming" /\ request[q].target \in User
      BY <1>1, <2>1 DEF Accept
    <3> QED BY <1>1, <3>1, <3>2 DEF TokenInv, RedeemInv
  <2>2. ASSUME NEW q \in Request, ChangeMember(q) PROVE ByItsToken(u)
    BY <1>1, <2>2 DEF ChangeMember
  <2>3. CASE UNCHANGED member
    BY <2>3
  <2> QED
    BY <1>1, <2>1, <2>2, <2>3 DEF MembersNext, memberVars, AdminRequest, Authorise, FindMember, CountAdmins,
       CheckInvitee, Invite, Withdraw, Redeem, Expire
<1>2. MembersInv /\ [MembersNext]_memberVars => [\A u \in User : ByItsToken(u)]_memberVars
  BY <1>1
<1> QED BY <1>2, MembersInductive, PTL DEF MembersSpec, DeadTokenAdmitsNobody

-----------------------------------------------------------------------------
(***************************************************************************)
(* Comparison.                                                             *)
(***************************************************************************)

Counted == [source : Nat, dest : Nat]

ComparisonType ==
  /\ src \in Counts /\ dst \in Counts
  /\ phase \in {"none", "listing", "listed", "counting", "failing", "answered", "dead"}
  /\ listed \in [{1, 2} -> SUBSET Table] /\ writes \in Nat
  /\ DOMAIN counted \subseteq listed[1] /\ counted \in [DOMAIN counted -> Counted]
  /\ half = <<>> \/ (half \in Table \X Nat /\ half[1] \in listed[1])

\* What was listed and counted is still so where nobody wrote since.
CountedInv ==
  /\ phase \in {"none", "listing", "listed"} => counted = <<>> /\ half = <<>>
  /\ writes = 0 /\ phase \in {"listed", "counting"} => listed[1] = Tables(src)
  /\ writes = 0 /\ phase = "counting" =>
       /\ listed[2] = Tables(dst)
       /\ \A t \in DOMAIN counted : counted[t].source = src[t] /\ counted[t].dest = Rows(dst, t)
       /\ half # <<>> => half[2] = src[half[1]]

\* A row that says it succeeded was written with the counts of all that was listed, when
\* they were counted; the handler has nothing more to do but to fail.
SettledInv ==
  status = "succeeded" =>
    /\ phase \in {"failing", "answered", "dead"}
    /\ summary = <<Summary(counted)>> /\ stored = counted /\ DOMAIN counted = listed[1]
    /\ writes = 0 => /\ listed[1] = Tables(src)
                     /\ \A t \in listed[1] : counted[t].source = src[t] /\ counted[t].dest = Rows(dst, t)

ComparisonInv == ComparisonType /\ CountedInv /\ SettledInv

\* Every step keeps to the domains; nothing is counted before everything is listed.
LEMMA ComparisonTypeStep == ASSUME ComparisonType, CountedInv, [ComparisonNext]_comparisonVars PROVE ComparisonType'
<1> USE ComparisonAssumption DEF ComparisonType, Counts, Absent
<1>1. CASE Create
  BY <1>1 DEF Create
<1>2. CASE ListSource
  <2>1. counted = <<>> /\ half = <<>> /\ UNCHANGED <<counted, half, src, dst, writes>>
    BY <1>2 DEF ListSource, CountedInv
  <2>2. listed' \in [{1, 2} -> SUBSET Table] /\ phase' = "listed"
    BY <1>2 DEF ListSource, Tables
  <2> QED BY <2>1, <2>2
<1>3. CASE ListDestination
  BY <1>3 DEF ListDestination, Tables
<1>4. CASE CountSource
  BY <1>4 DEF CountSource
<1>5. CASE CountDestination
  BY <1>5 DEF CountDestination, DestinationCount, Counted
<1>6. CASE Complete
  BY <1>6 DEF Complete
<1>7. CASE Fails \/ RecordFailure \/ ComparisonDies
  BY <1>7 DEF Fails, RecordFailure, ComparisonDies
<1>8. CASE Write
  BY <1>8 DEF Write
<1>9. CASE UNCHANGED comparisonVars
  BY <1>9 DEF comparisonVars
<1> QED
  BY <1>1, <1>2, <1>3, <1>4, <1>5, <1>6, <1>7, <1>8, <1>9 DEF ComparisonNext

\* As long as nobody writes, what is listed and counted is what is there.
LEMMA CountedStep == ASSUME ComparisonType, CountedInv, [ComparisonNext]_comparisonVars PROVE CountedInv'
<1> USE DEF ComparisonType, CountedInv
<1>1. CASE Create \/ Fails \/ RecordFailure \/ ComparisonDies
  BY <1>1 DEF Create, Fails, RecordFailure, ComparisonDies
<1>2. CASE ListSource
  BY <1>2 DEF ListSource, Tables
<1>3. CASE ListDestination
  BY <1>3 DEF ListDestination, Tables
<1>4. CASE CountSource
  BY <1>4 DEF CountSource, Tables
<1>5. CASE CountDestination
  <2>1. CASE phase' = "failing"
    BY <1>5, <2>1 DEF CountDestination
  <2>2. CASE phase' = phase
    <3> DEFINE t == half[1]
    <3>1. phase = "counting" /\ t \in Table /\ half' = <<>> /\ UNCHANGED <<src, dst, listed, writes>>
      BY <1>5 DEF CountDestination
    <3>2. /\ DOMAIN counted' = DOMAIN counted \cup {t}
          /\ \A q \in DOMAIN counted' :
               counted'[q] = IF q = t THEN [source |-> half[2], dest |-> DestinationCount(t)] ELSE counted[q]
      BY <1>5, <2>2 DEF CountDestination
    <3>3. writes = 0 => DestinationCount(t) = Rows(dst, t) /\ half[2] = src[t]
      BY <1>5, <3>1 DEF CountDestination, DestinationCount, Rows, Tables
    <3> HIDE DEF t
    <3>4. Tables(src)' = Tables(src) /\ Tables(dst)' = Tables(dst) /\ \A q : Rows(dst, q)' = Rows(dst, q)
      BY <3>1 DEF Tables, Rows
    <3> QED BY <2>2, <3>1, <3>2, <3>3, <3>4
  <2> QED BY <1>5, <2>1, <2>2 DEF CountDestination
<1>6. CASE Complete
  BY <1>6 DEF Complete
<1>7. CASE Write
  BY <1>7 DEF Write
<1>8. CASE UNCHANGED comparisonVars
  BY <1>8 DEF comparisonVars, Tables, Rows
<1> QED
  BY <1>1, <1>2, <1>3, <1>4, <1>5, <1>6, <1>7, <1>8 DEF ComparisonNext

\* What was stored stays, and what it was counted from.
LEMMA SettledStep == ASSUME ComparisonInv, [ComparisonNext]_comparisonVars PROVE SettledInv'
<1> USE DEF ComparisonInv
<1>1. CASE Complete
  <2>1. /\ phase = "counting" /\ phase' \in {"failing", "answered"} /\ DOMAIN counted = listed[1]
        /\ summary' = <<Summary(counted)>> /\ stored' = counted
        /\ UNCHANGED <<src, dst, listed, counted, writes>>
    BY <1>1 DEF Complete, Settle
  <2>2. Tables(src)' = Tables(src) /\ (\A t : Rows(dst, t)' = Rows(dst, t)) /\ Summary(counted)' = Summary(counted)
    BY <2>1 DEF Tables, Rows
  <2> QED BY <2>1, <2>2 DEF SettledInv, CountedInv
<1>2. CASE status' # "succeeded"
  BY <1>2 DEF SettledInv
<1>3. ASSUME status = "succeeded", status' = "succeeded" PROVE SettledInv'
  <2>1. phase \in {"failing", "answered", "dead"}
    BY <1>3 DEF SettledInv
  <2>2. UNCHANGED <<src, dst, listed, counted, summary, stored, writes>> /\ phase' \in {"failing", "answered", "dead"}
    BY <1>3, <2>1 DEF ComparisonNext, comparisonVars, Create, ListSource, ListDestination, CountSource,
       CountDestination, Complete, Fails, RecordFailure, ComparisonDies, Write
  <2>3. Tables(src)' = Tables(src) /\ (\A t : Rows(dst, t)' = Rows(dst, t)) /\ Summary(counted)' = Summary(counted)
    BY <2>2 DEF Tables, Rows
  <2> QED BY <1>3, <2>2, <2>3 DEF SettledInv
<1>4. CASE status # "succeeded" /\ ~ Complete
  BY <1>2, <1>4 DEF ComparisonNext, comparisonVars, Create, ListSource, ListDestination, CountSource,
     CountDestination, Fails, RecordFailure, ComparisonDies, Write
<1> QED BY <1>1, <1>2, <1>3, <1>4

\* A share of 100 or more: no fewer rows than the source, and none if it has none.
LEMMA FullShare ==
  ASSUME NEW n \in Nat, NEW m \in Nat, MatchPct(n, m) >= 100
  PROVE  n <= m /\ (n = 0 => m = 0)
  BY DEF MatchPct

\* The totals of such tables have a full share as well.
LEMMA FullTotal ==
  ASSUME NEW n \in Nat, NEW m \in Nat, n <= m, n = 0 => m = 0
  PROVE  AtMost(IF n = 0 THEN IF m = 0 THEN 100 ELSE 0 ELSE (100 * m) \div n, 100) = 100
<1>1. CASE n = 0
  BY <1>1 DEF AtMost
<1>2. CASE n # 0
  <2>1. (100 * m) \div n >= 100
    BY <1>2
  <2>2. (100 * m) \div n \in Int
    BY <1>2
  <2> HIDE DEF AtMost
  <2> QED BY <1>2, <2>1, <2>2 DEF AtMost
<1> QED BY <1>1, <1>2

\* The two totals of a summary, as sums of functions.
LEMMA Totals ==
  ASSUME NEW c, IsFiniteSet(DOMAIN c), c \in [DOMAIN c -> Counted]
  PROVE  LET f == [t \in DOMAIN c |-> c[t].source]
             g == [t \in DOMAIN c |-> c[t].dest]
         IN  /\ \E F : Adds(f, DOMAIN c, F) /\ MapThenSumSet(LAMBDA t : c[t].source, DOMAIN c) = F[DOMAIN c]
             /\ \E G : Adds(g, DOMAIN c, G) /\ MapThenSumSet(LAMBDA t : c[t].dest, DOMAIN c) = G[DOMAIN c]
<1> DEFINE f == [t \in DOMAIN c |-> c[t].source]
           g == [t \in DOMAIN c |-> c[t].dest]
<1>1. (\E F : Adds(f, DOMAIN c, F)) /\ (\E G : Adds(g, DOMAIN c, G))
  <2> HIDE DEF f, g
  <2> QED BY AddsExists
<1>2. \A s \in SUBSET (DOMAIN c) : s # {} => f[Some(s)] = c[Some(s)].source /\ g[Some(s)] = c[Some(s)].dest
  BY SomeAndRest
<1> HIDE DEF f, g
<1>3. \A F : Adds(f, DOMAIN c, F) <=>
        F = [s \in SUBSET (DOMAIN c) |-> IF s = {} THEN 0 ELSE c[Some(s)].source + F[Rest(s)]]
  BY <1>2 DEF Adds
<1>4. \A G : Adds(g, DOMAIN c, G) <=>
        G = [s \in SUBSET (DOMAIN c) |-> IF s = {} THEN 0 ELSE c[Some(s)].dest + G[Rest(s)]]
  BY <1>2 DEF Adds
<1>5. \E F : Adds(f, DOMAIN c, F) /\ MapThenSumSet(LAMBDA t : c[t].source, DOMAIN c) = F[DOMAIN c]
  <2>1. \E F : F = [s \in SUBSET (DOMAIN c) |-> IF s = {} THEN 0 ELSE c[Some(s)].source + F[Rest(s)]]
    BY <1>1, <1>3
  <2>2. \E F : /\ F = [s \in SUBSET (DOMAIN c) |-> IF s = {} THEN 0 ELSE c[Some(s)].source + F[Rest(s)]]
               /\ MapThenSumSet(LAMBDA t : c[t].source, DOMAIN c) = F[DOMAIN c]
    BY <2>1 DEF MapThenSumSet, MapThenFoldSet, Some, Rest
  <2> QED BY <1>3, <2>2
<1>6. \E G : Adds(g, DOMAIN c, G) /\ MapThenSumSet(LAMBDA t : c[t].dest, DOMAIN c) = G[DOMAIN c]
  <2>1. \E G : G = [s \in SUBSET (DOMAIN c) |-> IF s = {} THEN 0 ELSE c[Some(s)].dest + G[Rest(s)]]
    BY <1>1, <1>4
  <2>2. \E G : /\ G = [s \in SUBSET (DOMAIN c) |-> IF s = {} THEN 0 ELSE c[Some(s)].dest + G[Rest(s)]]
               /\ MapThenSumSet(LAMBDA t : c[t].dest, DOMAIN c) = G[DOMAIN c]
    BY <2>1 DEF MapThenSumSet, MapThenFoldSet, Some, Rest
  <2> QED BY <1>4, <2>2
<1> QED BY <1>5, <1>6 DEF f, g

\* A summary that says all matched says so of each table and of the totals.
LEMMA MatchedSummary ==
  ASSUME NEW c, IsFiniteSet(DOMAIN c), c \in [DOMAIN c -> Counted], Summary(c).allMatch
  PROVE  /\ \A t \in DOMAIN c : c[t].source <= c[t].dest /\ (c[t].source = 0 => c[t].dest = 0)
         /\ Summary(c).totalMatchPct = 100
         /\ Summary(c).tablesMismatched = 0
<1> DEFINE D == DOMAIN c
           f == [t \in D |-> c[t].source]
           g == [t \in D |-> c[t].dest]
           n == MapThenSumSet(LAMBDA t : c[t].source, D)
           m == MapThenSumSet(LAMBDA t : c[t].dest, D)
<1>1. \A t \in D : MatchPct(c[t].source, c[t].dest) >= 100
  BY DEF Summary
<1>2. \A t \in D : c[t].source \in Nat /\ c[t].dest \in Nat
  BY DEF Counted
<1>3. \A t \in D : c[t].source <= c[t].dest /\ (c[t].source = 0 => c[t].dest = 0)
  BY <1>1, <1>2, FullShare
<1>4. n \in Nat /\ m \in Nat /\ n <= m /\ (n = 0 => m = 0)
  <2>1. f \in [D -> Nat] /\ g \in [D -> Nat] /\ \A t \in D : f[t] <= g[t] /\ (f[t] = 0 => g[t] = 0)
    BY <1>2, <1>3
  <2>2. (\E F : Adds(f, D, F) /\ n = F[D]) /\ \E G : Adds(g, D, G) /\ m = G[D]
    BY Totals
  <2> HIDE DEF f, g, n, m
  <2> QED BY <2>1, <2>2, SumsCompare
<1>5. Summary(c).totalMatchPct = AtMost(IF n = 0 THEN IF m = 0 THEN 100 ELSE 0 ELSE (100 * m) \div n, 100)
  BY DEF Summary
<1>6. Summary(c).totalMatchPct = 100
  <2> HIDE DEF n, m
  <2> QED BY <1>4, <1>5, FullTotal
<1>7. {t \in D : ~ (MatchPct(c[t].source, c[t].dest) >= 100)} = {}
  BY <1>1
<1>8. Summary(c).tablesMismatched = Cardinality({t \in D : ~ (MatchPct(c[t].source, c[t].dest) >= 100)})
  BY DEF Summary
<1> QED BY <1>3, <1>6, <1>7, <1>8, FS_EmptySet

\* What is listed, counted, summed up and stored belongs together in every state.
THEOREM ComparisonInductive == ComparisonSpec => []ComparisonInv
<1>1. ComparisonInit => ComparisonInv
  BY DEF ComparisonInit, ComparisonInv, ComparisonType, CountedInv, SettledInv, Counted
<1>2. ComparisonInv /\ [ComparisonNext]_comparisonVars => ComparisonInv'
  BY ComparisonTypeStep, CountedStep, SettledStep DEF ComparisonInv
<1> QED BY <1>1, <1>2, PTL DEF ComparisonSpec

\* What the page of a comparison shows can be believed, for any tables with any rows: a
\* comparison that succeeded has the counts of all it listed, and "all matched" is true of
\* every table and of the totals.
THEOREM ComparisonsTellTheTruth == ComparisonSpec => []StoredCountsAreTrue
<1>1. ASSUME ComparisonInv, status = "succeeded" PROVE SucceededHasCounts /\ AllMatchedIsTrue
  <2> USE <1>1 DEF ComparisonInv
  <2>1. SucceededHasCounts
    BY DEF SettledInv, SucceededHasCounts
  <2>2. ASSUME summary[1].allMatch PROVE AllMatchedIsTrue
    <3>1. summary[1] = Summary(counted) /\ DOMAIN counted = listed[1]
      BY DEF SettledInv
    <3>2. IsFiniteSet(DOMAIN counted)
      BY <3>1, ComparisonAssumption, FS_Subset DEF ComparisonType
    <3>3. /\ \A t \in DOMAIN counted : /\ counted[t].source <= counted[t].dest
                                       /\ counted[t].source = 0 => counted[t].dest = 0
          /\ summary[1].totalMatchPct = 100 /\ summary[1].tablesMismatched = 0
      BY <2>2, <3>1, <3>2, MatchedSummary DEF ComparisonType
    <3>4. writes = 0 => \A t \in Tables(src) : Rows(dst, t) >= src[t] /\ (src[t] = 0 => Rows(dst, t) = 0)
      <4>1. SUFFICES ASSUME writes = 0, NEW t \in Tables(src)
                     PROVE  Rows(dst, t) >= src[t] /\ (src[t] = 0 => Rows(dst, t) = 0)
        OBVIOUS
      <4>2. t \in DOMAIN counted /\ counted[t].source = src[t] /\ counted[t].dest = Rows(dst, t)
        BY <3>1, <4>1 DEF SettledInv
      <4>3. counted[t].source \in Nat /\ counted[t].dest \in Nat
        BY <4>2 DEF ComparisonType, Counted
      <4> QED BY <3>3, <4>2, <4>3
    <3> QED BY <3>3, <3>4 DEF AllMatchedIsTrue
  <2> QED BY <2>1, <2>2 DEF AllMatchedIsTrue
<1>2. ComparisonInv => StoredCountsAreTrue
  BY <1>1 DEF StoredCountsAreTrue, SucceededHasCounts, AllMatchedIsTrue
<1> QED BY <1>2, ComparisonInductive, PTL

-----------------------------------------------------------------------------
(***************************************************************************)
(* Workspace.                                                              *)
(***************************************************************************)

MaybeDb == Db \cup {NoDb}
LaunchEnds == [source : Conn, target : Conn, sourceDb : MaybeDb, targetDb : MaybeDb]
DefRow == [source : Conn, target : Conn, sourceDb : MaybeDb, targetDb : MaybeDb,
           mode : {"full", "query"}, archived : BOOLEAN]
RunRow == [active : BOOLEAN, org : {TRUE}, def : Def \cup {NoDef},
           source : Conn \cup {NoConn}, target : Conn \cup {NoConn}, sourceDb : Db, targetDb : Db]

LaunchRow == [phase : {"idle", "defined", "source", "target", "resolved", "counted"}, def : Def \cup {NoDef},
              ends : {<<>>} \cup {<<e>> : e \in LaunchEnds}, mode : {"full", "query"}]

WorkspaceType ==
  /\ conn \in [Conn -> MaybeDb]
  /\ def \in [Def -> {<<>>} \cup {<<row>> : row \in DefRow}]
  /\ runs \in Seq(RunRow) /\ edits \in Nat
  /\ launch \in [Launcher -> LaunchRow]
  /\ \A l \in Launcher : launch[l].phase # "idle" => launch[l].ends # <<>>

\* A connection that was read has filled in its database; once both are, a launch names
\* two databases that are not one.
Apart(r) ==
  LET e == r.ends[1] IN
    /\ r.phase \in {"source", "resolved", "counted"} => e.sourceDb \in Db
    /\ r.phase \in {"target", "resolved", "counted"} => e.targetDb \in Db
    /\ r.phase \in {"resolved", "counted"} /\ e.source = e.target => e.sourceDb # e.targetDb

ResolvedInv == \A l \in Launcher : Apart(launch[l])

Counting == {l \in Launcher : launch[l].phase = "counted"}
ActiveRuns == {i \in DOMAIN runs : runs[i].active}

\* A launch that has counted counts as the run it is about to insert.
RoomInv == CountActive + Cardinality(Counting) <= MaxConcurrentRuns + Cardinality(Launcher) - 1

WorkspaceInv == WorkspaceType /\ NeverOntoItself /\ ResolvedInv /\ RoomInv

\* What the read of a connection makes of a launch.
ReadOutcome(l, r) ==
  /\ launch' = [launch EXCEPT ![l] = r] /\ UNCHANGED <<conn, def, runs, edits>>
  /\ r = NoLaunch \/ (/\ r \in LaunchRow /\ r.ends # <<>> /\ Apart(r)
                      /\ r.phase \in {"source", "target", "resolved"})

\* A connection that is there fills in its database; the second one read settles whether
\* the two are apart.
LEMMA ConnectionIsRead ==
  ASSUME WorkspaceType, ResolvedInv, NEW l \in Launcher, NEW side \in Side, ReadConnection(l, side)
  PROVE  \E r : ReadOutcome(l, r)
<1> USE WorkspaceAssumption DEF WorkspaceType
<1> DEFINE asked == launch[l].ends[1]
           ends == Filled(asked, side)
           read(at) == [launch[l] EXCEPT !.phase = at, !.ends = <<ends>>]
<1>1. /\ launch[l].phase \in {"defined"} \cup (Side \ {side})
      /\ UNCHANGED <<conn, def, runs, edits>>
      /\ \/ launch' = [launch EXCEPT ![l] = NoLaunch]
         \/ /\ Exists(ConnOf(asked, side)) /\ launch[l].phase = "defined"
            /\ launch' = [launch EXCEPT ![l] = read(side)]
         \/ /\ Exists(ConnOf(asked, side)) /\ launch[l].phase # "defined" /\ ~ OntoItself(ends)
            /\ launch' = [launch EXCEPT ![l] = read("resolved")]
  BY DEF ReadConnection, Refuse
<1>2. launch[l] \in LaunchRow /\ launch[l].ends # <<>> /\ Apart(launch[l])
  BY <1>1 DEF ResolvedInv, Side
<1>3. asked \in LaunchEnds
  BY <1>2 DEF LaunchRow
<1> HIDE DEF asked
<1>4. ASSUME Exists(ConnOf(asked, side))
      PROVE  /\ ends \in LaunchEnds
             /\ side = "source" => ends.sourceDb \in Db /\ ends.targetDb = asked.targetDb
             /\ side = "target" => ends.targetDb \in Db /\ ends.sourceDb = asked.sourceDb
  <2>1. side \in {"source", "target"}
    BY DEF Side
  <2>2. CASE side = "source"
    <3>1. conn[asked.source] \in Db
      BY <1>3, <1>4, <2>2 DEF LaunchEnds, MaybeDb, Exists, ConnOf
    <3> QED BY <1>3, <2>2, <3>1 DEF LaunchEnds, MaybeDb, Filled, Either
  <2>3. CASE side = "target"
    <3>1. conn[asked.target] \in Db
      BY <1>3, <1>4, <2>3 DEF LaunchEnds, MaybeDb, Exists, ConnOf
    <3> QED BY <1>3, <2>3, <3>1 DEF LaunchEnds, MaybeDb, Filled, Either
  <2> QED BY <2>1, <2>2, <2>3
<1> HIDE DEF ends
<1>5. \A at \in {"source", "target", "resolved"} : ends \in LaunchEnds =>
        /\ read(at) \in LaunchRow /\ read(at).ends # <<>> /\ read(at).ends[1] = ends
        /\ read(at).phase = at
  BY <1>2 DEF LaunchRow
<1> HIDE DEF read
<1>6. CASE launch' = [launch EXCEPT ![l] = NoLaunch]
  BY <1>1, <1>6 DEF ReadOutcome
<1>7. CASE Exists(ConnOf(asked, side)) /\ launch' = [launch EXCEPT ![l] = read(side)]
  <2>1. side \in {"source", "target"} /\ ends \in LaunchEnds
    BY <1>4, <1>7 DEF Side
  <2>2. read(side) \in LaunchRow /\ read(side).ends # <<>> /\ read(side).ends[1] = ends /\ read(side).phase = side
    BY <1>5, <2>1
  <2>3. Apart(read(side))
    BY <1>4, <1>7, <2>1, <2>2 DEF Apart
  <2> QED BY <1>1, <1>7, <2>1, <2>2, <2>3 DEF ReadOutcome
<1>8. CASE /\ Exists(ConnOf(asked, side)) /\ launch[l].phase # "defined" /\ ~ OntoItself(ends)
           /\ launch' = [launch EXCEPT ![l] = read("resolved")]
  <2>1. read("resolved") \in LaunchRow /\ read("resolved").ends # <<>> /\ read("resolved").ends[1] = ends
        /\ read("resolved").phase = "resolved"
    BY <1>4, <1>5, <1>8
  <2>2. \/ side = "source" /\ launch[l].phase = "target"
        \/ side = "target" /\ launch[l].phase = "source"
    BY <1>1, <1>8 DEF Side
  <2>3. ends.sourceDb \in Db /\ ends.targetDb \in Db
    BY <1>2, <1>4, <1>8, <2>2 DEF Apart, asked
  <2>4. Apart(read("resolved"))
    BY <1>8, <2>1, <2>3 DEF Apart, OntoItself
  <2> QED BY <1>1, <1>8, <2>1, <2>4 DEF ReadOutcome
<1> QED BY <1>1, <1>6, <1>7, <1>8

\* The states of a workspace keep their type, whatever the step.
LEMMA WorkspaceTypeStep == ASSUME WorkspaceType, ResolvedInv, [WorkspaceNext]_workspaceVars PROVE WorkspaceType'
<1> USE WorkspaceAssumption DEF WorkspaceType
<1>1. ASSUME NEW c \in Conn, EditConnection(c) PROVE WorkspaceType'
  BY <1>1 DEF EditConnection, Edit, MaybeDb
<1>2. ASSUME NEW c \in Conn, RemoveConnection(c) PROVE WorkspaceType'
  <2>1. conn' \in [Conn -> MaybeDb] /\ edits' \in Nat /\ UNCHANGED <<def, launch>>
    BY <1>2 DEF RemoveConnection, Edit, MaybeDb
  <2>2. \A run \in RunRow : Forget(run, c) \in RunRow
    BY DEF Forget, RunRow
  <2>3. runs' \in Seq(RunRow)
    BY <1>2, <2>2 DEF RemoveConnection
  <2> QED BY <2>1, <2>3
<1>3. ASSUME NEW m \in Def, SaveDefinition(m) PROVE WorkspaceType'
  <2>1. PICK e \in Ends, mode \in {"full", "query"} :
          def' = [def EXCEPT ![m] = <<[source |-> e.source, target |-> e.target, sourceDb |-> e.sourceDb,
                                       targetDb |-> e.targetDb, mode |-> mode, archived |-> FALSE]>>]
    BY <1>3 DEF SaveDefinition
  <2>2. [source |-> e.source, target |-> e.target, sourceDb |-> e.sourceDb,
         targetDb |-> e.targetDb, mode |-> mode, archived |-> FALSE] \in DefRow
    BY DEF Ends, DefRow, MaybeDb
  <2> QED BY <1>3, <2>1, <2>2 DEF SaveDefinition, Edit
<1>4. ASSUME NEW m \in Def, ArchiveDefinition(m) PROVE WorkspaceType'
  <2>1. PICK row \in DefRow : def[m] = <<row>>
    BY <1>4 DEF ArchiveDefinition, Live
  <2>2. [row EXCEPT !.archived = TRUE] \in DefRow
    BY DEF DefRow
  <2>3. def' = [def EXCEPT ![m] = <<[row EXCEPT !.archived = TRUE]>>]
    BY <1>4, <2>1 DEF ArchiveDefinition
  <2>4. def' \in [Def -> {<<>>} \cup {<<r>> : r \in DefRow}]
    BY <2>2, <2>3
  <2> QED BY <1>4, <2>4 DEF ArchiveDefinition, Edit
<1>6. ASSUME NEW i \in DOMAIN runs, Settles(i) PROVE WorkspaceType'
  <2>0. runs[i] \in RunRow
    OBVIOUS
  <2>1. [runs[i] EXCEPT !.active = FALSE] \in RunRow
    <3> HIDE DEF WorkspaceType
    <3> QED BY <2>0 DEF RunRow
  <2>2. runs' = [runs EXCEPT ![i] = [runs[i] EXCEPT !.active = FALSE]]
    BY <1>6 DEF Settles
  <2> QED BY <1>6, <2>1, <2>2 DEF Settles
<1>7. CASE UNCHANGED workspaceVars
  BY <1>7 DEF workspaceVars
\* A launch moves on to a record of a launch, and nothing else of the state does.
<1>11. ASSUME NEW l \in Launcher, NEW r \in LaunchRow, r.phase # "idle" => r.ends # <<>>,
              launch' = [launch EXCEPT ![l] = r], UNCHANGED <<conn, def, edits>>, runs' \in Seq(RunRow)
       PROVE  WorkspaceType'
  BY <1>11
<1>12. NoLaunch \in LaunchRow /\ NoLaunch.phase = "idle"
  BY DEF NoLaunch, LaunchRow
<1>8. ASSUME NEW l \in Launcher, ReadDefinition(l) PROVE WorkspaceType'
  <2>1. PICK m \in Def \cup {NoDef}, asked \in Ends :
          IF m = NoDef
          THEN launch' = [launch EXCEPT ![l] = [phase |-> "defined", def |-> NoDef, ends |-> <<asked>>, mode |-> "full"]]
          ELSE /\ Live(m)
               /\ LET row == def[m][1]
                      ends == [source |-> row.source, target |-> row.target,
                               sourceDb |-> Either(row.sourceDb, asked.sourceDb),
                               targetDb |-> Either(row.targetDb, asked.targetDb)]
                  IN  launch' = [launch EXCEPT ![l] = [phase |-> "defined", def |-> m, ends |-> <<ends>>, mode |-> row.mode]]
    BY <1>8 DEF ReadDefinition
  <2>2. UNCHANGED <<conn, def, runs, edits>>
    BY <1>8 DEF ReadDefinition
  <2>3. CASE m = NoDef
    <3>1. asked \in LaunchEnds
      BY DEF Ends, LaunchEnds, MaybeDb
    <3>2. [phase |-> "defined", def |-> NoDef, ends |-> <<asked>>, mode |-> "full"] \in LaunchRow
      BY <3>1 DEF LaunchRow
    <3> QED BY <1>11, <2>1, <2>2, <2>3, <3>2
  <2>4. CASE m # NoDef
    <3>1. PICK row \in DefRow : def[m] = <<row>>
      BY <2>1, <2>4 DEF Live
    <3> DEFINE ends == [source |-> row.source, target |-> row.target,
                        sourceDb |-> Either(row.sourceDb, asked.sourceDb),
                        targetDb |-> Either(row.targetDb, asked.targetDb)]
    <3>2. ends \in LaunchEnds
      BY DEF Ends, LaunchEnds, MaybeDb, DefRow, Either
    <3>3. row.mode \in {"full", "query"}
      BY DEF DefRow
    <3>4. launch' = [launch EXCEPT ![l] = [phase |-> "defined", def |-> m, ends |-> <<ends>>, mode |-> row.mode]]
      BY <2>1, <2>4, <3>1
    <3> HIDE DEF ends
    <3>5. [phase |-> "defined", def |-> m, ends |-> <<ends>>, mode |-> row.mode] \in LaunchRow
      BY <3>2, <3>3, <2>4 DEF LaunchRow
    <3> QED BY <1>11, <2>2, <3>4, <3>5
  <2> QED BY <2>3, <2>4
<1>9. ASSUME NEW l \in Launcher, NEW side \in Side, ReadConnection(l, side) PROVE WorkspaceType'
  <2>1. PICK r : ReadOutcome(l, r)
    BY <1>9, ConnectionIsRead
  <2>2. r = NoLaunch \/ (r \in LaunchRow /\ r.ends # <<>>)
    BY <2>1 DEF ReadOutcome
  <2> QED BY <1>11, <1>12, <2>1, <2>2 DEF ReadOutcome
<1>5. ASSUME NEW l \in Launcher, CountRuns(l) PROVE WorkspaceType'
  <2> DEFINE passed == [launch[l] EXCEPT !.phase = "counted"]
  <2>1. launch[l].phase = "resolved" /\ UNCHANGED <<conn, def, runs, edits>>
    BY <1>5 DEF CountRuns
  <2>2. \/ launch' = [launch EXCEPT ![l] = passed]
        \/ launch' = [launch EXCEPT ![l] = NoLaunch]
    BY <1>5 DEF CountRuns, Refuse
  <2>3. launch[l] \in LaunchRow /\ launch[l].ends # <<>>
    BY <2>1
  <2>4. passed \in LaunchRow /\ passed.ends # <<>>
    BY <2>3 DEF LaunchRow
  <2> HIDE DEF passed
  <2> QED BY <1>11, <1>12, <2>1, <2>2, <2>4
<1>10. ASSUME NEW l \in Launcher, Enqueue(l) PROVE WorkspaceType'
  <2> DEFINE e == launch[l].ends[1]
             run == [active |-> TRUE, org |-> TRUE, def |-> launch[l].def, source |-> e.source, target |-> e.target,
                     sourceDb |-> e.sourceDb, targetDb |-> e.targetDb]
  <2>1. launch' = [launch EXCEPT ![l] = NoLaunch] /\ UNCHANGED <<conn, def, edits>> /\ launch[l].phase = "counted"
    BY <1>10 DEF Enqueue, Refuse
  <2>2. runs' = Append(runs, run) \/ runs' = runs
    BY <1>10 DEF Enqueue
  <2>3. launch[l] \in LaunchRow /\ launch[l].ends # <<>>
    BY <2>1
  <2>4. e \in LaunchEnds /\ launch[l].def \in Def \cup {NoDef}
    BY <2>3 DEF LaunchRow
  <2>5. e.sourceDb \in Db /\ e.targetDb \in Db
    BY <2>1 DEF ResolvedInv, Apart
  <2>6. run \in RunRow
    <3> HIDE DEF e
    <3> QED BY <2>4, <2>5 DEF LaunchEnds, RunRow
  <2> HIDE DEF run
  <2>7. runs' \in Seq(RunRow)
    BY <2>2, <2>6
  <2> QED BY <1>11, <1>12, <2>1, <2>7
<1> QED
  BY <1>1, <1>2, <1>3, <1>4, <1>5, <1>6, <1>7, <1>8, <1>9, <1>10 DEF WorkspaceNext

\* What a step does to the launches: it leaves them alone, or moves one of them on.
LEMMA LaunchesMove ==
  ASSUME WorkspaceType, [WorkspaceNext]_workspaceVars
  PROVE  \/ UNCHANGED launch
         \/ \E l \in Launcher : ReadDefinition(l) \/ CountRuns(l) \/ Enqueue(l)
         \/ \E l \in Launcher, side \in Side : ReadConnection(l, side)
BY DEF WorkspaceNext, workspaceVars, EditConnection, RemoveConnection, SaveDefinition, ArchiveDefinition, Settles

\* What a step does to the runs: it forgets a connection in them, settles one, inserts
\* one, or leaves them alone.
LEMMA RunsMove ==
  ASSUME WorkspaceType, [WorkspaceNext]_workspaceVars
  PROVE  \/ UNCHANGED runs
         \/ \E c \in Conn : RemoveConnection(c)
         \/ \E l \in Launcher : Enqueue(l)
         \/ \E i \in DOMAIN runs : Settles(i)
BY DEF WorkspaceNext, workspaceVars, EditConnection, SaveDefinition, ArchiveDefinition,
       ReadDefinition, ReadConnection, CountRuns

\* A launch that was read onto one database was refused; only the read of the
\* connections makes a launch resolved.
LEMMA ResolvedStep == ASSUME WorkspaceType, ResolvedInv, [WorkspaceNext]_workspaceVars PROVE ResolvedInv'
<1> USE WorkspaceAssumption DEF WorkspaceType
<1>1. ResolvedInv <=> \A l \in Launcher : Apart(launch[l])
  BY DEF ResolvedInv
<1>2. ResolvedInv' <=> \A l \in Launcher : Apart(launch'[l])
  BY DEF ResolvedInv
<1>3. ASSUME NEW l \in Launcher, NEW r, launch' = [launch EXCEPT ![l] = r], Apart(r) PROVE ResolvedInv'
  <2> QED BY <1>1, <1>2, <1>3
<1>4. Apart(NoLaunch)
  BY DEF NoLaunch, Apart
<1>5. CASE UNCHANGED launch
  BY <1>5 DEF ResolvedInv
<1>6. ASSUME NEW l \in Launcher, ReadDefinition(l) PROVE ResolvedInv'
  <2>1. \E m, ends, mode :
          launch' = [launch EXCEPT ![l] = [phase |-> "defined", def |-> m, ends |-> <<ends>>, mode |-> mode]]
    BY <1>6 DEF ReadDefinition
  <2>2. PICK m, ends, mode :
          launch' = [launch EXCEPT ![l] = [phase |-> "defined", def |-> m, ends |-> <<ends>>, mode |-> mode]]
    BY <2>1
  <2>3. Apart([phase |-> "defined", def |-> m, ends |-> <<ends>>, mode |-> mode])
    BY DEF Apart
  <2> QED BY <1>3, <2>2, <2>3
<1>7. ASSUME NEW l \in Launcher, NEW side \in Side, ReadConnection(l, side) PROVE ResolvedInv'
  <2>1. PICK r : ReadOutcome(l, r)
    BY <1>7, ConnectionIsRead
  <2>2. Apart(r)
    BY <1>4, <2>1 DEF ReadOutcome
  <2> QED BY <1>3, <2>1, <2>2 DEF ReadOutcome
<1>8. ASSUME NEW l \in Launcher, CountRuns(l) PROVE ResolvedInv'
  <2> DEFINE passed == [launch[l] EXCEPT !.phase = "counted"]
  <2>1. launch[l].phase = "resolved"
    BY <1>8 DEF CountRuns
  <2>2. \/ launch' = [launch EXCEPT ![l] = passed]
        \/ launch' = [launch EXCEPT ![l] = NoLaunch]
    BY <1>8 DEF CountRuns, Refuse
  <2>3. passed.ends = launch[l].ends
    BY DEF LaunchRow
  <2>4. Apart(launch[l])
    BY <1>1
  <2>5. Apart(passed)
    <3>1. passed.phase = "counted"
      BY DEF LaunchRow
    <3> HIDE DEF passed
    <3> QED BY <2>1, <2>3, <2>4, <3>1 DEF Apart
  <2> QED BY <1>3, <1>4, <2>2, <2>5
<1>9. ASSUME NEW l \in Launcher, Enqueue(l) PROVE ResolvedInv'
  BY <1>3, <1>4, <1>9 DEF Enqueue, Refuse
<1> QED
  BY <1>5, <1>6, <1>7, <1>8, <1>9, LaunchesMove

\* No step inserts a run that copies a database of a connection onto itself.
LEMMA NeverOntoItselfStep ==
  ASSUME WorkspaceType, NeverOntoItself, ResolvedInv, [WorkspaceNext]_workspaceVars
  PROVE  NeverOntoItself'
<1> USE WorkspaceAssumption DEF NeverOntoItself
<1>1. CASE UNCHANGED runs
  BY <1>1
<1>2. ASSUME NEW c \in Conn, RemoveConnection(c) PROVE NeverOntoItself'
  <2>1. runs' = [i \in DOMAIN runs |-> Forget(runs[i], c)]
    BY <1>2 DEF RemoveConnection
  <2>2. \A run \in RunRow : LET was == Forget(run, c) IN
          was.source = was.target /\ was.source # NoConn =>
            run.source = run.target /\ run.source # NoConn /\ was.sourceDb = run.sourceDb /\ was.targetDb = run.targetDb
    BY DEF Forget, RunRow
  <2>3. \A i \in DOMAIN runs : runs[i] \in RunRow
    BY DEF WorkspaceType
  <2> QED BY <2>1, <2>2, <2>3
<1>3. ASSUME NEW l \in Launcher, Enqueue(l) PROVE NeverOntoItself'
  <2> DEFINE e == launch[l].ends[1]
             run == [active |-> TRUE, org |-> TRUE, def |-> launch[l].def, source |-> e.source, target |-> e.target,
                     sourceDb |-> e.sourceDb, targetDb |-> e.targetDb]
  <2>1. runs' = Append(runs, run) \/ runs' = runs
    BY <1>3 DEF Enqueue
  <2>2. run.source = run.target => run.sourceDb # run.targetDb
    BY <1>3 DEF Enqueue, ResolvedInv, Apart
  <2>3. runs \in Seq(RunRow)
    BY DEF WorkspaceType
  <2> HIDE DEF run
  <2> QED BY <2>1, <2>2, <2>3
<1>4. ASSUME NEW i \in DOMAIN runs, Settles(i) PROVE NeverOntoItself'
  <2>1. runs' = [runs EXCEPT ![i] = [runs[i] EXCEPT !.active = FALSE]] /\ runs[i] \in RunRow
    BY <1>4 DEF Settles, WorkspaceType
  <2>2. LET was == [runs[i] EXCEPT !.active = FALSE] IN
          was.source = runs[i].source /\ was.target = runs[i].target
          /\ was.sourceDb = runs[i].sourceDb /\ was.targetDb = runs[i].targetDb
    BY <2>1 DEF RunRow
  <2> QED BY <2>1, <2>2
<1> QED BY <1>1, <1>2, <1>3, <1>4, RunsMove

\* The runs and the launches that are counted are finitely many.
LEMMA CountsAreFinite ==
  ASSUME WorkspaceType
  PROVE  /\ IsFiniteSet(ActiveRuns) /\ CountActive = Cardinality(ActiveRuns) /\ CountActive \in Nat
         /\ IsFiniteSet(Counting) /\ Cardinality(Counting) \in Nat
         /\ Cardinality(Counting) <= Cardinality(Launcher) /\ Cardinality(Launcher) \in Nat \ {0}
<1>1. Len(runs) \in Nat /\ DOMAIN runs = 1..Len(runs)
  BY DEF WorkspaceType
<1>2. IsFiniteSet(1..Len(runs))
  BY <1>1, FS_Interval
<1>3. IsFiniteSet(ActiveRuns)
  BY <1>1, <1>2, FS_Subset DEF ActiveRuns
<1>4. IsFiniteSet(Counting) /\ Cardinality(Counting) <= Cardinality(Launcher)
  BY WorkspaceAssumption, FS_Subset DEF Counting
<1>5. Cardinality(Launcher) \in Nat \ {0}
  BY WorkspaceAssumption, FS_CardinalityType, FS_EmptySet
<1> QED BY <1>3, <1>4, <1>5, FS_CardinalityType DEF CountActive, ActiveRuns

\* A launch that has not been counted moves on, or one that has been is refused: the
\* launches that are counted do not grow.
LEMMA CountingShrinks ==
  ASSUME WorkspaceType, NEW l \in Launcher, NEW r, launch' = [launch EXCEPT ![l] = r], r.phase # "counted"
  PROVE  Counting' = Counting \ {l}
BY DEF WorkspaceType, Counting

\* There is room for every launch that has counted: only the count admits one, and it
\* saw less than the limit; the others are one fewer than the launches.
LEMMA RoomStep == ASSUME WorkspaceType, WorkspaceType', ResolvedInv, RoomInv, [WorkspaceNext]_workspaceVars PROVE RoomInv'
<1> USE DEF RoomInv
<1>0. MaxConcurrentRuns \in Nat
  BY WorkspaceAssumption
<1>1. /\ IsFiniteSet(ActiveRuns) /\ CountActive = Cardinality(ActiveRuns) /\ CountActive \in Nat
      /\ IsFiniteSet(Counting) /\ Cardinality(Counting) \in Nat
      /\ Cardinality(Counting) <= Cardinality(Launcher) /\ Cardinality(Launcher) \in Nat \ {0}
  BY CountsAreFinite
<1>2. /\ IsFiniteSet(ActiveRuns') /\ CountActive' = Cardinality(ActiveRuns') /\ CountActive' \in Nat
      /\ IsFiniteSet(Counting') /\ Cardinality(Counting') \in Nat
      /\ Cardinality(Counting') <= Cardinality(Launcher)
  <2>1. DOMAIN runs' = 1..Len(runs') /\ Len(runs') \in Nat
    BY DEF WorkspaceType
  <2>2. IsFiniteSet(1..Len(runs'))
    BY <2>1, FS_Interval
  <2>3. ActiveRuns' \subseteq 1..Len(runs') /\ Counting' \subseteq Launcher
    BY <2>1 DEF ActiveRuns, Counting
  <2>4. IsFiniteSet(ActiveRuns') /\ IsFiniteSet(Counting') /\ Cardinality(Counting') <= Cardinality(Launcher)
    BY <2>2, <2>3, WorkspaceAssumption, FS_Subset
  <2>5. CountActive' = Cardinality(ActiveRuns')
    BY DEF CountActive, ActiveRuns
  <2> QED BY <2>4, <2>5, FS_CardinalityType
<1>3. ASSUME ActiveRuns' \subseteq ActiveRuns, Counting' \subseteq Counting PROVE RoomInv'
  <2>1. Cardinality(ActiveRuns') <= Cardinality(ActiveRuns) /\ Cardinality(Counting') <= Cardinality(Counting)
    BY <1>1, <1>3, FS_Subset
  <2> QED BY <1>0, <1>1, <1>2, <2>1
<1>4. UNCHANGED launch => Counting' = Counting
  BY DEF Counting
<1>5. UNCHANGED runs => ActiveRuns' = ActiveRuns
  BY DEF ActiveRuns
<1>6. ASSUME NEW c \in Conn, RemoveConnection(c) PROVE RoomInv'
  <2>1. runs' = [i \in DOMAIN runs |-> Forget(runs[i], c)] /\ UNCHANGED launch
    BY <1>6 DEF RemoveConnection
  <2>2. \A run \in RunRow : Forget(run, c).active = run.active
    BY DEF Forget, RunRow
  <2>3. \A i \in DOMAIN runs : runs[i] \in RunRow
    BY DEF WorkspaceType
  <2>4. ActiveRuns' = ActiveRuns
    BY <2>1, <2>2, <2>3 DEF ActiveRuns
  <2> QED BY <1>3, <1>4, <2>1, <2>4
<1>7. ASSUME NEW i \in DOMAIN runs, Settles(i) PROVE RoomInv'
  <2>1. runs' = [runs EXCEPT ![i] = [runs[i] EXCEPT !.active = FALSE]] /\ UNCHANGED launch /\ runs[i] \in RunRow
    BY <1>7 DEF Settles, WorkspaceType
  <2>2. [runs[i] EXCEPT !.active = FALSE].active = FALSE
    BY <2>1 DEF RunRow
  <2>3. ActiveRuns' \subseteq ActiveRuns
    BY <2>1, <2>2 DEF ActiveRuns
  <2> QED BY <1>3, <1>4, <2>1, <2>3
<1>8. ASSUME NEW l \in Launcher, ReadDefinition(l) PROVE RoomInv'
  <2>1. UNCHANGED runs /\ \E m, ends, mode :
          launch' = [launch EXCEPT ![l] = [phase |-> "defined", def |-> m, ends |-> <<ends>>, mode |-> mode]]
    BY <1>8 DEF ReadDefinition
  <2>2. \A m, ends, mode : [phase |-> "defined", def |-> m, ends |-> <<ends>>, mode |-> mode].phase # "counted"
    OBVIOUS
  <2>3. \E r : launch' = [launch EXCEPT ![l] = r] /\ r.phase # "counted"
    BY <2>1, <2>2
  <2> QED BY <1>3, <1>5, <2>1, <2>3, CountingShrinks
<1>9. NoLaunch.phase = "idle"
  BY DEF NoLaunch
<1>10. ASSUME NEW l \in Launcher, NEW side \in Side, ReadConnection(l, side) PROVE RoomInv'
  <2>1. PICK r : ReadOutcome(l, r)
    BY <1>10, ConnectionIsRead
  <2>2. UNCHANGED runs /\ launch' = [launch EXCEPT ![l] = r] /\ r.phase # "counted"
    BY <1>9, <2>1 DEF ReadOutcome
  <2> QED BY <1>3, <1>5, <2>2, CountingShrinks
<1>11. ASSUME NEW l \in Launcher, CountRuns(l) PROVE RoomInv'
  <2>1. UNCHANGED runs
    BY <1>11 DEF CountRuns
  <2>2. CASE CountActive < MaxConcurrentRuns
    <3>1. CountActive' = CountActive
      BY <2>1 DEF CountActive
    <3> QED BY <1>0, <1>1, <1>2, <2>2, <3>1
  <2>3. CASE ~ CountActive < MaxConcurrentRuns
    <3>1. launch' = [launch EXCEPT ![l] = NoLaunch]
      BY <1>11, <2>3 DEF CountRuns, Refuse
    <3> QED BY <1>3, <1>5, <1>9, <2>1, <3>1, CountingShrinks
  <2> QED BY <2>2, <2>3
<1>12. ASSUME NEW l \in Launcher, Enqueue(l) PROVE RoomInv'
  <2>1. launch' = [launch EXCEPT ![l] = NoLaunch] /\ l \in Counting
    BY <1>12 DEF Enqueue, Refuse, Counting
  <2>2. Counting' = Counting \ {l}
    BY <1>9, <2>1, CountingShrinks
  <2>3. Cardinality(Counting') = Cardinality(Counting) - 1
    BY <1>1, <2>1, <2>2, FS_RemoveElement
  <2>4. UNCHANGED runs \/ \E run : runs' = Append(runs, run)
    BY <1>12 DEF Enqueue
  <2>5. Cardinality(ActiveRuns') <= Cardinality(ActiveRuns) + 1
    <3>1. CASE UNCHANGED runs
      BY <1>1, <1>5, <3>1
    <3>2. CASE \E run : runs' = Append(runs, run)
      <4>1. runs \in Seq(RunRow)
        BY DEF WorkspaceType
      <4>2. ActiveRuns' \subseteq ActiveRuns \cup {Len(runs) + 1}
        BY <3>2, <4>1 DEF ActiveRuns
      <4>3. IsFiniteSet(ActiveRuns \cup {Len(runs) + 1})
            /\ Cardinality(ActiveRuns \cup {Len(runs) + 1}) <= Cardinality(ActiveRuns) + 1
        <5> DEFINE S == ActiveRuns
                   n == Len(runs) + 1
        <5>1. IsFiniteSet(S) /\ Cardinality(S) \in Nat
          BY <1>1
        <5> HIDE DEF S, n
        <5>2. IsFiniteSet(S \cup {n}) /\ Cardinality(S \cup {n}) <= Cardinality(S) + 1
          <6>1. CASE n \in S
            <7>1. S \cup {n} = S
              BY <6>1
            <7>2. Cardinality(S) <= Cardinality(S) + 1
              BY <5>1
            <7> QED BY <5>1, <7>1, <7>2, Zenon
          <6>2. CASE n \notin S
            <7>1. IsFiniteSet(S \cup {n}) /\ Cardinality(S \cup {n}) = Cardinality(S) + 1
              BY <5>1, <6>2, FS_AddElement
            <7> QED BY <5>1, <7>1
          <6> QED BY <6>1, <6>2
        <5> QED BY <5>2 DEF S, n
      <4>4. Cardinality(ActiveRuns') <= Cardinality(ActiveRuns \cup {Len(runs) + 1})
        BY <4>2, <4>3, FS_Subset
      <4>5. Cardinality(ActiveRuns \cup {Len(runs) + 1}) \in Nat
        BY <4>3, FS_CardinalityType
      <4> QED BY <1>1, <1>2, <4>3, <4>4, <4>5
    <3> QED BY <2>4, <3>1, <3>2
  <2> QED BY <1>0, <1>1, <1>2, <2>3, <2>5
<1>13. CASE UNCHANGED launch /\ UNCHANGED runs
  BY <1>3, <1>4, <1>5, <1>13
<1> QED BY <1>6, <1>7, <1>8, <1>10, <1>11, <1>12, <1>13, LaunchesMove, RunsMove

\* A workspace's states have their type, the launches that were resolved name two
\* databases and those that were counted have room.
THEOREM WorkspaceInductive == WorkspaceSpec => []WorkspaceInv
<1>1. WorkspaceInit => WorkspaceInv
  <2> SUFFICES ASSUME WorkspaceInit PROVE WorkspaceInv
    OBVIOUS
  <2> USE DEF WorkspaceInit
  <2>1. WorkspaceType
    <3>1. NoLaunch \in LaunchRow /\ NoLaunch.phase = "idle"
      BY DEF NoLaunch, LaunchRow
    <3> QED BY <3>1 DEF WorkspaceType, MaybeDb
  <2>2. NeverOntoItself /\ ResolvedInv
    BY DEF NeverOntoItself, ResolvedInv, Apart, NoLaunch
  <2>3. RoomInv
    <3>1. ActiveRuns = {} /\ Counting = {}
      BY DEF ActiveRuns, Counting, NoLaunch
    <3>2. CountActive = 0 /\ Cardinality(Counting) = 0
      BY <2>1, <3>1, CountsAreFinite, FS_EmptySet
    <3> QED BY <2>1, <3>2, CountsAreFinite, WorkspaceAssumption DEF RoomInv
  <2> QED BY <2>1, <2>2, <2>3 DEF WorkspaceInv
<1>2. WorkspaceInv /\ [WorkspaceNext]_workspaceVars => WorkspaceInv'
  BY WorkspaceTypeStep, NeverOntoItselfStep, ResolvedStep, RoomStep DEF WorkspaceInv
<1> QED BY <1>1, <1>2, PTL DEF WorkspaceSpec

\* What a launch is checked for still holds of the run it became: two databases, and
\* the limit passed by the overlapping launches alone.
THEOREM LaunchesAreAdmittedAsChecked == WorkspaceSpec => []AdmittedAsChecked
<1>1. WorkspaceInv => AdmittedAsChecked
  BY CountsAreFinite, WorkspaceAssumption DEF WorkspaceInv, RoomInv, AdmittedAsChecked, ActiveBounded
<1> QED BY <1>1, WorkspaceInductive, PTL

\* No edit, archiving or deletion rewrites the history of runs.
THEOREM HistoryStays == WorkspaceSpec => HistoryKept
<1> DEFINE Kept(i, a, b) == b = a \/ (b = NoConn /\ a # NoConn /\ conn'[a] = NoDb)
           Same(i) == /\ runs'[i].org /\ runs'[i].def = runs[i].def
                      /\ runs'[i].sourceDb = runs[i].sourceDb /\ runs'[i].targetDb = runs[i].targetDb
                      /\ Kept(i, runs[i].source, runs'[i].source) /\ Kept(i, runs[i].target, runs'[i].target)
<1>1. ASSUME WorkspaceInv, [WorkspaceNext]_workspaceVars, NEW i \in DOMAIN runs PROVE Same(i)
  <2>0. runs \in Seq(RunRow) /\ runs[i] \in RunRow
    BY <1>1 DEF WorkspaceInv, WorkspaceType
  <2>1. runs \in Seq(RunRow) /\ runs[i] \in RunRow /\ runs[i].org
    BY <2>0 DEF RunRow
  <2>2. CASE UNCHANGED runs
    BY <2>1, <2>2
  <2>3. ASSUME NEW c \in Conn, RemoveConnection(c) PROVE Same(i)
    <3>1. runs'[i] = Forget(runs[i], c) /\ conn'[c] = NoDb /\ c # NoConn
      BY <2>3, <1>1, WorkspaceAssumption DEF RemoveConnection, WorkspaceInv, WorkspaceType
    <3> QED BY <2>1, <3>1 DEF Forget, RunRow
  <2>4. ASSUME NEW l \in Launcher, Enqueue(l) PROVE Same(i)
    <3>1. runs'[i] = runs[i]
      BY <2>1, <2>4 DEF Enqueue
    <3> QED BY <2>1, <3>1
  <2>5. ASSUME NEW j \in DOMAIN runs, Settles(j) PROVE Same(i)
    <3>1. runs'[i] = runs[i] \/ runs'[i] = [runs[i] EXCEPT !.active = FALSE]
      BY <2>1, <2>5 DEF Settles
    <3> QED BY <2>1, <3>1 DEF RunRow
  <2> QED BY <1>1, <2>2, <2>3, <2>4, <2>5, RunsMove DEF WorkspaceInv
<1>2. WorkspaceInv /\ [WorkspaceNext]_workspaceVars => [\A i \in DOMAIN runs :
       LET was == runs[i] is == runs'[i]
           Keeps(a, b) == b = a \/ (b = NoConn /\ a # NoConn /\ conn'[a] = NoDb)
       IN  /\ is.org /\ is.def = was.def /\ is.sourceDb = was.sourceDb /\ is.targetDb = was.targetDb
           /\ Keeps(was.source, is.source) /\ Keeps(was.target, is.target)]_workspaceVars
  BY <1>1
<1> QED BY <1>2, WorkspaceInductive, PTL DEF WorkspaceSpec, HistoryKept

-----------------------------------------------------------------------------
(***************************************************************************)
(* Review.                                                                 *)
(***************************************************************************)

\* A preview that is being made and has its answer is of what its request named.
AnswerInv ==
  /\ previewing = <<>> \/ \E body, of : previewing = <<[body |-> body, of |-> of]>>
  /\ previewing # <<>> /\ reviewEdits = 0 =>
       previewing[1].of = <<>> \/ previewing[1].of = <<Resolved(previewing[1].body)>>

\* A preview that was not late is of what is chosen: whoever chooses anew loses it.
ShownInv ==
  preview # <<>> /\ reviewEdits = 0 => preview[1].late \/ preview[1].of = Resolved(Body(selection))

\* What was seen, as the request goes out.
SentInv ==
  launching # <<>> /\ ~ launching[1].simulate =>
    /\ launching[1].seen # <<>>
    /\ reviewEdits = 0 => launching[1].seen[1].late \/ launching[1].seen[1].of = Resolved(launching[1].body)

NewRunInv == reviewEdits \in Nat /\ AnswerInv /\ ShownInv /\ SentInv /\ LaunchFollowsPreview

\* Whenever what is shown is not what the URL names, an answer is on its way for it, or
\* the URL is about to be changed.
CompareInv ==
  comparing # "stored" => result \in {0, url} \/ passedBy \/ url \in stillOpening

\* What the page "New run" shows, sends and has started belongs together in every state.
LEMMA NewRunStep == ASSUME NewRunInv, [NewRunNext]_newRunVars PROVE NewRunInv'
<1> USE DEF NewRunInv
<1>1. UNCHANGED saved => \A body : Resolved(body)' = Resolved(body)
  BY DEF Resolved
<1>2. ASSUME UNCHANGED <<saved, selection, preview, previewing, launching, started, reviewEdits>> PROVE NewRunInv'
  BY <1>1, <1>2 DEF AnswerInv, ShownInv, SentInv, LaunchFollowsPreview
<1>3. ASSUME NEW s, Choose(s), UNCHANGED <<saved, previewing, launching, started, reviewEdits>> PROVE NewRunInv'
  <2>1. AnswerInv' /\ SentInv' /\ LaunchFollowsPreview'
    BY <1>1, <1>3 DEF AnswerInv, SentInv, LaunchFollowsPreview
  <2>2. ShownInv'
    <3>1. Body(selection)' = Body(s)
      BY <1>3 DEF Choose, Body
    <3>2. CASE Body(s) = Body(selection)
      BY <1>1, <1>3, <3>1, <3>2 DEF Choose, ShownInv
    <3>3. CASE Body(s) # Body(selection)
      BY <1>3, <3>3 DEF Choose, ShownInv
    <3> QED BY <3>2, <3>3
  <2> QED BY <1>3, <2>1, <2>2
<1>4. CASE ChooseAnother
  <2>1. \E s : Choose(s)
    BY <1>4 DEF ChooseAnother
  <2> QED BY <1>3, <1>4, <2>1 DEF ChooseAnother
<1>5. CASE Simulate
  BY <1>2, <1>5 DEF Simulate
<1>6. CASE RunPreview
  <2>1. /\ previewing' = <<[body |-> Body(selection), of |-> <<>>]>>
        /\ UNCHANGED <<saved, selection, preview, launching, started, reviewEdits>>
    BY <1>6 DEF RunPreview
  <2>2. AnswerInv'
    BY <2>1 DEF AnswerInv
  <2> QED BY <1>1, <2>1, <2>2 DEF ShownInv, SentInv, LaunchFollowsPreview
<1>7. CASE Inspect
  <2>1. /\ previewing # <<>> /\ UNCHANGED <<saved, selection, preview, launching, started, reviewEdits>>
        /\ \/ previewing' = <<[previewing[1] EXCEPT !.of = <<Resolved(previewing[1].body)>>]>>
           \/ previewing' = <<>>
    BY <1>7 DEF Inspect
  <2>2. PICK body, of : previewing = <<[body |-> body, of |-> of]>>
    BY <2>1 DEF AnswerInv
  <2>3. [previewing[1] EXCEPT !.of = <<Resolved(previewing[1].body)>>] = [body |-> body, of |-> <<Resolved(body)>>]
    BY <2>2
  <2>4. previewing' = <<[body |-> body, of |-> <<Resolved(body)>>]>> \/ previewing' = <<>>
    BY <2>1, <2>3
  <2>5. AnswerInv'
    BY <1>1, <2>1, <2>4 DEF AnswerInv
  <2> QED BY <1>1, <2>1, <2>5 DEF ShownInv, SentInv, LaunchFollowsPreview
<1>8. CASE ShowPreview
  <2>1. /\ previewing # <<>> /\ previewing[1].of # <<>> /\ previewing' = <<>>
        /\ preview' = <<[of |-> previewing[1].of[1], late |-> previewing[1].body # Body(selection)]>>
        /\ UNCHANGED <<saved, selection, launching, started, reviewEdits>>
    BY <1>8 DEF ShowPreview
  <2>2. AnswerInv' /\ SentInv' /\ LaunchFollowsPreview'
    BY <1>1, <2>1 DEF AnswerInv, SentInv, LaunchFollowsPreview
  <2>3. Body(selection)' = Body(selection)
    BY <2>1 DEF Body
  <2>4. ASSUME reviewEdits = 0, previewing[1].body = Body(selection) PROVE previewing[1].of[1] = Resolved(Body(selection))
    BY <2>1, <2>4 DEF AnswerInv
  <2>5. ShownInv'
    BY <1>1, <2>1, <2>3, <2>4 DEF ShownInv
  <2> QED BY <2>1, <2>2, <2>5
<1>9. CASE Launch
  <2>1. /\ launching' = <<[body |-> Body(selection), simulate |-> simulate, seen |-> preview]>>
        /\ ~ NeedsPreview /\ UNCHANGED <<saved, selection, preview, previewing, started, reviewEdits>>
    BY <1>9 DEF Launch
  <2>2. AnswerInv' /\ ShownInv' /\ LaunchFollowsPreview'
    BY <1>1, <2>1 DEF AnswerInv, ShownInv, LaunchFollowsPreview
  <2>3. SentInv'
    BY <1>1, <2>1 DEF SentInv, ShownInv, NeedsPreview
  <2> QED BY <2>1, <2>2, <2>3
<1>10. CASE StartRun
  <2>1. /\ launching # <<>> /\ launching' = <<>> /\ UNCHANGED <<saved, selection, preview, previewing, reviewEdits>>
        /\ \/ started' = <<[of |-> Resolved(launching[1].body), simulate |-> launching[1].simulate,
                            seen |-> launching[1].seen]>>
           \/ UNCHANGED started
    BY <1>10 DEF StartRun
  <2>2. AnswerInv' /\ ShownInv' /\ SentInv'
    BY <1>1, <2>1 DEF AnswerInv, ShownInv, SentInv
  <2>3. LaunchFollowsPreview'
    BY <2>1 DEF SentInv, LaunchFollowsPreview
  <2> QED BY <2>1, <2>2, <2>3
<1>11. CASE EditSaved
  <2>1. reviewEdits' > 0 /\ reviewEdits' \in Nat /\ UNCHANGED <<selection, preview, previewing, launching, started>>
    BY <1>11 DEF EditSaved
  <2> QED BY <2>1 DEF AnswerInv, ShownInv, SentInv, LaunchFollowsPreview
<1>12. CASE UNCHANGED newRunVars
  BY <1>2, <1>12 DEF newRunVars
<1> QED BY <1>4, <1>5, <1>6, <1>7, <1>8, <1>9, <1>10, <1>11, <1>12 DEF NewRunNext

\* Opening by the URL leaves what it names shown or on its way.
LEMMA OpensKeeps == ASSUME NEW v, Opens(v) PROVE result' \in {0, url'} \/ url' \in stillOpening'
BY DEF Opens

\* An answer that comes after the URL had moved on says so, any other is what it names.
LEMMA CompareStep == ASSUME CompareInv, [CompareNext]_compareVars PROVE CompareInv'
<1>1. CASE OpenStored
  <2>1. \E v : Opens(v)
    BY <1>1 DEF OpenStored
  <2> QED BY <2>1, OpensKeeps DEF CompareInv
<1>2. CASE NameIt
  BY <1>2, OpensKeeps DEF NameIt, CompareInv
<1>3. CASE Compare \/ ShowComparison
  BY <1>3 DEF Compare, ShowComparison, CompareInv
<1>4. ASSUME NEW v, ShowStored(v) PROVE CompareInv'
  BY <1>4 DEF ShowStored, Unreadable, CompareInv
<1>5. CASE UNCHANGED compareVars
  BY <1>5 DEF compareVars, CompareInv
<1> QED BY <1>1, <1>2, <1>3, <1>4, <1>5 DEF CompareNext

\* On both pages what is shown, sent and opened belongs together in every state.
THEOREM ReviewInductive == ReviewSpec => [](NewRunInv /\ CompareInv)
<1>1. ReviewInit => NewRunInv /\ CompareInv
  <2> SUFFICES ASSUME ReviewInit PROVE NewRunInv /\ CompareInv
    OBVIOUS
  <2>1. previewing = <<>> /\ preview = <<>> /\ launching = <<>> /\ started = <<>> /\ reviewEdits = 0 /\ result = 0
    BY DEF ReviewInit
  <2> QED BY <2>1 DEF NewRunInv, AnswerInv, ShownInv, SentInv, LaunchFollowsPreview, CompareInv
<1>2. NewRunInv /\ CompareInv /\ [ReviewNext]_reviewVars => (NewRunInv /\ CompareInv)'
  BY NewRunStep, CompareStep DEF ReviewNext, reviewVars
<1> QED BY <1>1, <1>2, PTL DEF ReviewSpec

\* What is launched is what the preview was made of, unless a late answer or another's
\* edit came between.
THEOREM LaunchIsWhatWasSeen == ReviewSpec => []LaunchFollowsPreview
BY ReviewInductive, PTL DEF NewRunInv

\* When nothing is on its way the URL names the comparison that is shown, unless it came
\* late.
THEOREM UrlIsWhatIsShown == ReviewSpec => []UrlNamesResult
<1>1. CompareInv => UrlNamesResult
  BY DEF CompareInv, UrlNamesResult
<1> QED BY <1>1, ReviewInductive, PTL

=============================================================================
