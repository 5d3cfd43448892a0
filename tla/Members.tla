------------------------------ MODULE Members ------------------------------
(***************************************************************************)
(* The people of one organisation: members with a role, invitations bound  *)
(* to an address, and the requests that change them.  A handler reads the  *)
(* caller's role, the member it is about and the number of admins, and     *)
(* writes, each in a statement of its own; accepting an invitation is one  *)
(* transaction that holds the invitation's row.                            *)
(*                                                                         *)
(* A user stands for his address, a number for the token of an invitation, *)
(* "editor" for the two roles below an administrator's.                    *)
(***************************************************************************)
EXTENDS Integers, FiniteSets

CONSTANTS
  User,             \* people, each with an address
  Request,          \* requests that may be under way at the same moment
  MaxTokens,        \* bound: invitations ever issued
  MaxRequests       \* bound: requests ever made

ASSUME MembersAssumption == MaxTokens \in Nat /\ MaxRequests \in Nat

Role == {"admin", "editor"}
NoToken == 0

VARIABLES
  member,      \* memberships.role, or "none"
  invitation,  \* the row of each address: [status, role, token]
  tokens,      \* tokens minted so far
  request,     \* [phase, kind, target, role, seen, token]
  requests,    \* requests made so far
  dead,        \* history: tokens used, withdrawn, replaced or expired
  crossed      \* history: an admin was lowered while another lowering was under way

memberVars == <<member, invitation, tokens, request, requests, dead, crossed>>

InPhase(phase, kind, u, role, token) ==
  [phase |-> phase, kind |-> kind, target |-> u, role |-> role, seen |-> "none", token |-> token]
Idle == InPhase("idle", "none", "none", "none", NoToken)

\* An organisation as createOrganizationWithAdmin and its life so far left it.
MembersInit ==
  /\ member \in {m \in [User -> Role \cup {"none"}] : \E u \in User : m[u] = "admin"}
  /\ invitation = [u \in User |-> [status |-> "none", role |-> "none", token |-> NoToken]]
  /\ tokens = 0 /\ request = [q \in Request |-> Idle] /\ requests = 0
  /\ dead = {} /\ crossed = FALSE

Admins == {u \in User : member[u] = "admin"}

\* Mutant: the invitation is read without FOR UPDATE.
RowFreeAlways(u) == TRUE

\* FOR UPDATE: nobody else writes an invitation while somebody redeems it.
RowFree(u) == \A q \in Request : ~ (request[q].phase = "redeeming" /\ request[q].target = u)

Over(q) == request' = [request EXCEPT ![q] = Idle]

-----------------------------------------------------------------------------
(***************************************************************************)
(* Requests of an administrator: change a role, remove a member, invite,   *)
(* withdraw an invitation.                                                 *)
(***************************************************************************)

\* The middleware reads the caller's role; requirePermission asks member:manage.
Authorise(q, kind, u, role) ==
  /\ request[q] = Idle /\ requests < MaxRequests /\ Admins # {}
  /\ request' = [request EXCEPT ![q] = InPhase("allowed", kind, u, role, NoToken)]
  /\ requests' = requests + 1
  /\ UNCHANGED <<member, invitation, tokens, dead, crossed>>

AdminRequest(q) ==
  \E u \in User :
    \/ \E role \in Role : Authorise(q, "change", u, role) \/ Authorise(q, "invite", u, role)
    \/ Authorise(q, "change", u, "none")      \* DELETE: the member is to have no role
    \/ Authorise(q, "withdraw", u, "none")

\* findMembership.
FindMember(q) ==
  /\ request[q].phase = "allowed" /\ request[q].kind = "change"
  /\ IF member[request[q].target] = "none"
     THEN Over(q)
     ELSE request' = [request EXCEPT ![q].phase = "found", ![q].seen = member[request[q].target]]
  /\ UNCHANGED <<member, invitation, tokens, requests, dead, crossed>>

\* Mutant: only a demotion is counted, a removal is not.
WouldOrphanDemoted(current, next, adminCount) == current = "admin" /\ next = "editor" /\ adminCount <= 1

\* wouldOrphanOrg.
WouldOrphan(current, next, adminCount) == current = "admin" /\ next # "admin" /\ adminCount <= 1

\* countAdmins, and the refusal for the last administrator.
CountAdmins(q) ==
  /\ request[q].phase = "found"
  /\ IF WouldOrphan(request[q].seen, request[q].role, Cardinality(Admins))
     THEN Over(q)
     ELSE request' = [request EXCEPT ![q].phase = "counted"]
  /\ UNCHANGED <<member, invitation, tokens, requests, dead, crossed>>

\* Another request that may lower somebody has read and not yet written.
AnotherLowering(q) ==
  \E p \in Request \ {q} : request[p].phase \in {"found", "counted"} /\ request[p].role # "admin"

\* setRole or removeMember: an UPDATE or a DELETE of the row, if it is still there.
ChangeMember(q) ==
  LET u == request[q].target IN
  /\ request[q].phase = "counted"
  /\ member' = IF member[u] = "none" THEN member ELSE [member EXCEPT ![u] = request[q].role]
  /\ crossed' = (crossed \/ (u \in Admins /\ request[q].role # "admin" /\ AnotherLowering(q)))
  /\ Over(q)
  /\ UNCHANGED <<invitation, tokens, requests, dead>>

\* findMemberByEmail: who is a member already is not invited.
CheckInvitee(q) ==
  /\ request[q].phase = "allowed" /\ request[q].kind = "invite"
  /\ IF member[request[q].target] # "none" THEN Over(q)
                                           ELSE request' = [request EXCEPT ![q].phase = "checked"]
  /\ UNCHANGED <<member, invitation, tokens, requests, dead, crossed>>

\* upsertInvitation: one row per address; a new token takes the place of the old one.
Invite(q) ==
  LET u == request[q].target IN
  /\ request[q].phase = "checked" /\ RowFree(u) /\ tokens < MaxTokens
  /\ tokens' = tokens + 1
  /\ invitation' = [invitation EXCEPT ![u] = [status |-> "pending", role |-> request[q].role, token |-> tokens + 1]]
  /\ dead' = dead \cup ({invitation[u].token} \ {NoToken})
  /\ Over(q)
  /\ UNCHANGED <<member, requests, crossed>>

\* revokeInvitation: neither accepted nor withdrawn already; an expired one may be.
Withdraw(q) ==
  LET u == request[q].target IN
  /\ request[q].phase = "allowed" /\ request[q].kind = "withdraw" /\ RowFree(u)
  /\ IF invitation[u].status \in {"pending", "expired"}
     THEN /\ invitation' = [invitation EXCEPT ![u].status = "revoked"]
          /\ dead' = dead \cup {invitation[u].token}
     ELSE UNCHANGED <<invitation, dead>>
  /\ Over(q)
  /\ UNCHANGED <<member, tokens, requests, crossed>>

-----------------------------------------------------------------------------
\* acceptInvitation, its SELECT: the row with that token, still pending, and issued
\* to the caller's address; its row is then held to the end of the transaction.
Redeem(q, caller, token) ==
  /\ request[q] = Idle /\ requests < MaxRequests /\ requests' = requests + 1
  /\ \E u \in User :
       /\ invitation[u].token = token /\ RowFree(u)
       /\ IF invitation[u].status = "pending" /\ u = caller
          THEN request' = [request EXCEPT ![q] = InPhase("redeeming", "accept", u, "none", token)]
          ELSE UNCHANGED request
  /\ UNCHANGED <<member, invitation, tokens, dead, crossed>>

\* The membership, unless there is one, whose role then stands; the invitation is used.
Accept(q) ==
  LET u == request[q].target IN
  /\ request[q].phase = "redeeming"
  /\ member' = IF member[u] = "none" THEN [member EXCEPT ![u] = invitation[u].role] ELSE member
  /\ invitation' = [invitation EXCEPT ![u].status = "accepted"]
  /\ dead' = dead \cup {request[q].token}
  /\ Over(q)
  /\ UNCHANGED <<tokens, requests, crossed>>

\* A week passes.
Expire(u) ==
  /\ invitation[u].status = "pending" /\ RowFree(u)
  /\ invitation' = [invitation EXCEPT ![u].status = "expired"]
  /\ dead' = dead \cup {invitation[u].token}
  /\ UNCHANGED <<member, tokens, request, requests, crossed>>

MembersNext ==
  \/ \E q \in Request :
       \/ AdminRequest(q) \/ FindMember(q) \/ CountAdmins(q) \/ ChangeMember(q)
       \/ CheckInvitee(q) \/ Invite(q) \/ Withdraw(q) \/ Accept(q)
       \/ \E caller \in User, token \in 1 .. tokens : Redeem(q, caller, token)
  \/ \E u \in User : Expire(u)

MembersSpec == MembersInit /\ [][MembersNext]_memberVars

-----------------------------------------------------------------------------
(***************************************************************************)
(* Properties.                                                             *)
(***************************************************************************)

\* An organisation loses its last administrator only where an admin was lowered
\* while another such request had read and not yet written: neither handler locks.
OrgKeepsAdmin == Admins = {} => crossed

\* Whoever joins does so by a token that is nobody's any more only afterwards: not
\* used, withdrawn, replaced or expired before, whatever raced with it.
DeadTokenAdmitsNobody ==
  [][\A u \in User : member[u] = "none" /\ member'[u] # "none"
        => \E q \in Request : /\ request[q].phase = "redeeming" /\ request[q].target = u
                              /\ request[q].token = invitation[u].token /\ request[q].token \notin dead]_memberVars
=============================================================================
