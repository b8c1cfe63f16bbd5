------------------------------- MODULE Grants -------------------------------
(***************************************************************************)
(* The OAuth grants an account gives to MCP clients on one project         *)
(* (mcp/oauth-routes.ts; services/auth/mcp-tokens.ts, oauth.ts; the routes *)
(* that revoke them in admin/auth-routes.ts and users-routes.ts): consent, *)
(* the exchange of a code, the rotation of refresh tokens, a grant handed  *)
(* back, a password set, an identity unlinked, a project deleted.          *)
(*                                                                         *)
(* Codes are in memory, everything else in PostgreSQL at READ COMMITTED.   *)
(* An action is a statement, or several between which nobody interferes;   *)
(* what a transaction writes is seen when it ends, and what it holds until *)
(* then is read off the place its request has reached: the account FOR     *)
(* SHARE, the project FOR KEY SHARE, the row of a claimed refresh token.   *)
(* An access and a refresh token are inserted together and make one pair;  *)
(* a credential that expired and one that was revoked differ, since only   *)
(* the second tells of theft.  A token that is swept long after its expiry *)
(* is an expired one that stays so.                                        *)
(***************************************************************************)
EXTENDS Naturals

CONSTANTS
  Users, Clients,
  Requests,     \* how many requests may be going on at once
  MaxCodes,     \* how many approvals are given
  MaxPairs,     \* how many pairs are issued
  MaxEpoch,     \* how often the credentials of an account are revoked
  None

ASSUME NoneAssumption == None \notin Users \cup Clients \cup Requests
ASSUME BoundsAssumption == MaxCodes \in Nat /\ MaxPairs \in Nat /\ MaxEpoch \in Nat

VARIABLES
  account,   \* users: the credentials' epoch; is_active and no password to be changed
  member,    \* the accounts that may read the project
  project,   \* the project exists
  code,      \* AuthorizationCodeStore, by the order of the approvals
  approved,  \* how many codes were made
  pair,      \* mcp_tokens of kind access and refresh
  issued,    \* how many pairs were made
  req,       \* the requests
  raced      \* for the properties: the pairs an exchange lost the race for

grants == <<code, approved, pair, issued, raced>>
vars == <<account, member, project, grants, req>>

Codes == 1..MaxCodes
Pairs == 1..MaxPairs

NoCode == [state |-> "none", user |-> None, client |-> None, epoch |-> 0]
\* The code a pair goes back to, its epoch and the pair that was claimed for it are
\* no columns: they are there for the properties.
NoPair == [access |-> "none", refresh |-> "none", user |-> None, client |-> None,
           code |-> 0, epoch |-> 0, from |-> 0]
NoRequest == [at |-> "off", kind |-> "consent", user |-> None, client |-> None, code |-> 0,
              pair |-> 0, epoch |-> 0, signedIn |-> TRUE, todo |-> {}, locked |-> {}]

Init ==
  /\ account = [u \in Users |-> [epoch |-> 0, usable |-> TRUE]]
  /\ member = Users /\ project = TRUE
  /\ code = [k \in Codes |-> NoCode] /\ approved = 0
  /\ pair = [i \in Pairs |-> NoPair] /\ issued = 0
  /\ req = [q \in Requests |-> NoRequest]
  /\ raced = {}

-----------------------------------------------------------------------------
(* What the requests hold.                                                 *)

About(kind, u) == [NoRequest EXCEPT !.kind = kind, !.user = u]
Begin(q, r, at) == req[q].at = "off" /\ req' = [req EXCEPT ![q] = [r EXCEPT !.at = at]]
Move(q, at) == req' = [req EXCEPT ![q].at = at]
End(q) == req' = [req EXCEPT ![q] = NoRequest]

\* An exchange past its checks, a rotation past its locks.
Sharing(q) == req[q].kind \in {"exchange", "refresh"} /\ req[q].at \in {"claim", "insert", "raced"}

\* Mutant: nobody takes the account FOR SHARE.
AnyoneFree(u) == u \in Users

\* SELECT ... FOR UPDATE, or an UPDATE, of the account gets its row.
AccountFree(u) == \A q \in Requests : ~(Sharing(q) /\ req[q].user = u)

\* DELETE of the project gets its row.
ProjectFree == \A q \in Requests : ~(Sharing(q) /\ req[q].kind = "refresh")

\* The rows an UPDATE of this request has changed, and not committed.
Holds(q, i) == i \in req[q].locked \/ (req[q].kind = "refresh" /\ req[q].at = "insert" /\ req[q].pair = i)
\* Mutant: rows are not waited for.
UnlockedAnyway(q, i) == i \in Pairs
Unlocked(q, i) == \A p \in Requests \ {q} : ~Holds(p, i)

Standing(i) == pair[i].access \in {"live", "expired"} \/ pair[i].refresh \in {"live", "expired"}
Grant(u, c) == {i \in Pairs : Standing(i) /\ pair[i].user = u /\ pair[i].client = c}

Revoke(t) == IF t \in {"live", "expired"} THEN "revoked" ELSE t
Without(S) == [i \in Pairs |-> IF i \in S
                               THEN [pair[i] EXCEPT !.access = Revoke(@), !.refresh = Revoke(@)]
                               ELSE pair[i]]

-----------------------------------------------------------------------------
(* POST /oauth/authorize.                                                  *)

\* whoIsThis, validateRequest
BeginConsent(q, u, c) ==
  /\ account[u].usable /\ project
  /\ Begin(q, [About("consent", u) EXCEPT !.client = c], "ask")
  /\ UNCHANGED <<account, member, project, grants>>

\* isSessionLive, under the lock
StillSignedIn(q) == req[q].signedIn

\* The transaction that reads the epoch; the person may say no.
ApproveConsent(q, allow) ==
  LET r == req[q]
  IN /\ r.kind = "consent" /\ r.at = "ask"
     /\ IF StillSignedIn(q) /\ r.user \in member /\ allow
          THEN req' = [req EXCEPT ![q].at = "issue", ![q].epoch = account[r.user].epoch]
          ELSE End(q)
     /\ UNCHANGED <<account, member, project, grants>>

\* upsertMetadataClient has been awaited; AuthorizationCodeStore.issue
IssueCode(q) ==
  LET r == req[q]
  IN /\ r.kind = "consent" /\ r.at = "issue" /\ approved < MaxCodes
     /\ approved' = approved + 1
     /\ code' = [code EXCEPT ![approved + 1] = [state |-> "pending", user |-> r.user,
                                                client |-> r.client, epoch |-> r.epoch]]
     /\ End(q)
     /\ UNCHANGED <<account, member, project, pair, issued, raced>>

ExpireCode(k) ==
  /\ code[k].state = "pending"
  /\ code' = [code EXCEPT ![k].state = "gone"]
  /\ UNCHANGED <<account, member, project, approved, pair, issued, req, raced>>

-----------------------------------------------------------------------------
(* POST /oauth/token, grant_type=authorization_code.                       *)

\* Mutant: a code whose verifier does not match stays.
RedeemOnlyWhatMatches(q, k, matches) ==
  /\ code[k].state = "pending"
  /\ Begin(q, [About("exchange", code[k].user) EXCEPT !.client = code[k].client, !.code = k,
                                                       !.epoch = code[k].epoch], "check")
  /\ UNCHANGED <<account, member, project, grants>>

\* Gone whether or not the verifier, the client and the URI are its own.
Redeem(q, k, matches) ==
  /\ code[k].state = "pending"
  /\ code' = [code EXCEPT ![k].state = "gone"]
  /\ IF matches
       THEN Begin(q, [About("exchange", code[k].user) EXCEPT !.client = code[k].client, !.code = k,
                                                            !.epoch = code[k].epoch], "check")
       ELSE UNCHANGED req
  /\ UNCHANGED <<account, member, project, approved, pair, issued, raced>>

\* Mutant: whether the account revoked its credentials since is not asked.
MayBeGrantedAnyEpoch(r) == account[r.user].usable /\ r.user \in member
MayBeGranted(r) ==
  account[r.user].usable /\ r.epoch = account[r.user].epoch /\ r.user \in member

\* getProjectById, shareUserRowForGrant and the checks; the account stays locked.
CheckAccount(q) ==
  /\ req[q].kind = "exchange" /\ req[q].at = "check"
  /\ IF project /\ MayBeGranted(req[q]) THEN Move(q, "insert") ELSE End(q)
  /\ UNCHANGED <<account, member, project, grants>>

IssuePair(r) ==
  /\ issued < MaxPairs /\ issued' = issued + 1
  /\ pair' = [i \in Pairs |->
                IF i = issued + 1
                THEN [access |-> "live", refresh |-> "live", user |-> r.user, client |-> r.client,
                      code |-> r.code, epoch |-> r.epoch, from |-> r.pair]
                ELSE IF i = r.pair THEN [pair[i] EXCEPT !.refresh = Revoke(@)] ELSE pair[i]]

\* The inserts and the commit; the foreign key notices a project deleted since.
InsertPair(q) ==
  /\ req[q].kind = "exchange" /\ req[q].at = "insert"
  /\ IF project THEN IssuePair(req[q]) ELSE UNCHANGED <<pair, issued>>
  /\ End(q)
  /\ UNCHANGED <<account, member, project, code, approved, raced>>

-----------------------------------------------------------------------------
(* POST /oauth/token, grant_type=refresh_token: one transaction.           *)

\* revokeMcpCredentialsOfGrant: the rows of the statement's snapshot,
BeginRevokeGrant(q, r, at) ==
  req' = [req EXCEPT ![q] = [r EXCEPT !.at = at, !.todo = Grant(r.user, r.client), !.locked = {}]]

\* one after the other, each waited for;
LockPair(q) ==
  /\ req[q].at \in {"raced", "reuse", "revoke"}
  /\ \E i \in req[q].todo :
       /\ \A j \in req[q].todo : i <= j
       /\ Unlocked(q, i)
       /\ req' = [req EXCEPT ![q].todo = @ \ {i}, ![q].locked = @ \cup {i}]
  /\ UNCHANGED <<account, member, project, grants>>

\* and the commit.
RevokeGrant(q) ==
  /\ req[q].at \in {"raced", "reuse", "revoke"} /\ req[q].todo = {}
  /\ pair' = Without(req[q].locked)
  /\ raced' = IF req[q].at = "raced" THEN raced \cup {req[q].pair} ELSE raced
  /\ End(q)
  /\ UNCHANGED <<account, member, project, code, approved, issued>>

\* A pair's refresh token is presented, by whoever holds it: verifyRefreshToken,
\* findSpentRefreshToken.
PresentRefresh(q, i) ==
  LET r == [About("refresh", pair[i].user) EXCEPT !.client = pair[i].client, !.code = pair[i].code,
                                                  !.pair = i, !.epoch = pair[i].epoch]
  IN /\ req[q].at = "off"
     /\ \/ pair[i].refresh = "live" /\ req' = [req EXCEPT ![q] = [r EXCEPT !.at = "share"]]
        \/ pair[i].refresh = "revoked" /\ BeginRevokeGrant(q, r, "reuse")
     /\ UNCHANGED <<account, member, project, grants>>

\* keyShareProjectRow, shareUserRowLock
ShareRows(q) ==
  /\ req[q].kind = "refresh" /\ req[q].at = "share"
  /\ IF project THEN Move(q, "claim") ELSE End(q)
  /\ UNCHANGED <<account, member, project, grants>>

\* Mutant: who verified the token may have it.
ClaimsAnyway(i) == i \in Pairs
\* WHERE revoked_at IS NULL
Claims(i) == pair[i].refresh \in {"live", "expired"}

\* Mutant: two exchanges that race cost the loser its answer, and nobody the grant.
LoserIsRefused(q) ==
  /\ req[q].kind = "refresh" /\ req[q].at = "claim" /\ Unlocked(q, req[q].pair)
  /\ IF Claims(req[q].pair)
       THEN Move(q, "insert") /\ raced' = raced
       ELSE End(q) /\ raced' = raced \cup {req[q].pair}
  /\ UNCHANGED <<account, member, project, code, approved, pair, issued>>

\* revokeMcpTokenById: waits for whoever has claimed the token; what that one
\* inserted is in the snapshot of the statement that follows.
ClaimRefresh(q) ==
  /\ req[q].kind = "refresh" /\ req[q].at = "claim" /\ Unlocked(q, req[q].pair)
  /\ IF Claims(req[q].pair) THEN Move(q, "insert") ELSE BeginRevokeGrant(q, req[q], "raced")
  /\ UNCHANGED <<account, member, project, grants>>

RotatePair(q) ==
  /\ req[q].kind = "refresh" /\ req[q].at = "insert"
  /\ IssuePair(req[q])
  /\ End(q)
  /\ UNCHANGED <<account, member, project, code, approved, raced>>

ExpireRefresh(i) ==
  /\ pair[i].refresh = "live"
  /\ pair' = [pair EXCEPT ![i].refresh = "expired", ![i].access = IF @ = "live" THEN "expired" ELSE @]
  /\ UNCHANGED <<account, member, project, code, approved, issued, req, raced>>

\* POST /oauth/revoke: the grant of the presented credential, without any other lock.
HandBack(q, i) ==
  /\ pair[i].access \notin {"none", "deleted"} /\ req[q].at = "off"
  /\ BeginRevokeGrant(q, [About("handback", pair[i].user) EXCEPT !.client = pair[i].client,
                                                                 !.code = pair[i].code], "revoke")
  /\ UNCHANGED <<account, member, project, grants>>

-----------------------------------------------------------------------------
(* The account.                                                            *)

\* revokeSessionsOfUser: every session of the account, or all but one.
SignOut(u, kept) ==
  [q \in Requests |-> IF req[q].kind = "consent" /\ req[q].user = u /\ q \notin kept
                      THEN [req[q] EXCEPT !.signedIn = FALSE] ELSE req[q]]

\* A person's own password, or an administrator's reset: setPassword, ...
SetPassword(q, u, reset) ==
  /\ AccountFree(u)
  /\ account' = [account EXCEPT ![u].usable = ~reset]
  /\ Begin(q, About(IF reset THEN "reset" ELSE "password", u), "sessions")
  /\ UNCHANGED <<member, project, grants>>

\* ... then the sessions, but the one that asked; if it fails here, or later, it
\* is over.
EndSessions(q) ==
  /\ req[q].kind \in {"reset", "password"} /\ req[q].at = "sessions"
  /\ \E kept \in IF req[q].kind = "reset" THEN {{}} ELSE {{}, Requests} :
       req' = [SignOut(req[q].user, kept) EXCEPT ![q].at = "credentials"]
  /\ UNCHANGED <<account, member, project, grants>>

\* revokeMcpCredentialsOfUser, FOR UPDATE of the account
RevokeOfUser(u) ==
  /\ AccountFree(u)
  /\ account[u].epoch < MaxEpoch
  /\ account' = [account EXCEPT ![u].epoch = @ + 1]
  /\ \A i \in Pairs : pair[i].user = u => Unlocked(None, i)
  /\ pair' = Without({i \in Pairs : pair[i].user = u})

EndCredentials(q) ==
  /\ req[q].kind \in {"reset", "password"} /\ req[q].at = "credentials"
  /\ RevokeOfUser(req[q].user)
  /\ End(q)
  /\ UNCHANGED <<member, project, code, approved, issued, raced>>

\* DELETE /api/auth/oidc/link: sessions and credentials in one transaction.
Unlink(u) ==
  /\ RevokeOfUser(u)
  /\ req' = SignOut(u, {})
  /\ UNCHANGED <<member, project, code, approved, issued, raced>>

\* PATCH of the account; a new password chosen.
Disable(u) ==
  /\ account[u].usable /\ AccountFree(u)
  /\ account' = [account EXCEPT ![u].usable = FALSE]
  /\ UNCHANGED <<member, project, grants, req>>

Enable(u) ==
  /\ ~account[u].usable /\ AccountFree(u)
  /\ account' = [account EXCEPT ![u].usable = TRUE]
  /\ UNCHANGED <<member, project, grants, req>>

\* What follows a PATCH that disables, and DELETE of an account's sessions.
CloseSessions(u) ==
  /\ req' = SignOut(u, {})
  /\ UNCHANGED <<account, member, project, grants>>

\* setMemberRole, removeMember: under the account's lock.
ChangeMembership(u) ==
  /\ AccountFree(u)
  /\ member' = IF u \in member THEN member \ {u} ELSE member \cup {u}
  /\ UNCHANGED <<account, project, grants, req>>

\* The project's row is locked, and the tokens go with it.
DeleteProject ==
  /\ project /\ ProjectFree
  /\ \A i \in Pairs : Unlocked(None, i)
  /\ project' = FALSE
  /\ pair' = [i \in Pairs |-> IF i <= issued
                              THEN [pair[i] EXCEPT !.access = "deleted", !.refresh = "deleted"]
                              ELSE pair[i]]
  /\ UNCHANGED <<account, member, code, approved, issued, req, raced>>

\* A request fails, and its transaction is rolled back.
Fail(q) ==
  /\ req[q].at # "off" /\ End(q)
  /\ UNCHANGED <<account, member, project, grants>>

\* The process ends and starts again.
Restart ==
  /\ \E k \in Codes : code[k].state = "pending"
  /\ code' = [k \in Codes |-> IF code[k].state = "pending" THEN [code[k] EXCEPT !.state = "gone"] ELSE code[k]]
  /\ req' = [q \in Requests |-> NoRequest]
  /\ UNCHANGED <<account, member, project, approved, pair, issued, raced>>

-----------------------------------------------------------------------------
Consent(q) ==
  \/ \E u \in Users, c \in Clients : BeginConsent(q, u, c)
  \/ \E allow \in BOOLEAN : ApproveConsent(q, allow)
  \/ IssueCode(q)

Exchange(q) ==
  \/ \E k \in Codes, matches \in BOOLEAN : Redeem(q, k, matches)
  \/ CheckAccount(q) \/ InsertPair(q)

Refresh(q) ==
  \/ \E i \in Pairs : PresentRefresh(q, i) \/ HandBack(q, i)
  \/ ShareRows(q) \/ ClaimRefresh(q) \/ RotatePair(q) \/ LockPair(q) \/ RevokeGrant(q)

ChangeAccount(q) ==
  \/ \E u \in Users, reset \in BOOLEAN : SetPassword(q, u, reset)
  \/ EndSessions(q) \/ EndCredentials(q)

Next ==
  \/ \E q \in Requests : Consent(q) \/ Exchange(q) \/ Refresh(q) \/ ChangeAccount(q) \/ Fail(q)
  \/ \E u \in Users : Unlink(u) \/ Disable(u) \/ Enable(u) \/ CloseSessions(u) \/ ChangeMembership(u)
  \/ \E k \in Codes : ExpireCode(k)
  \/ \E i \in Pairs : ExpireRefresh(i)
  \/ DeleteProject \/ Restart

Spec == Init /\ [][Next]_vars
-----------------------------------------------------------------------------
(* Properties.                                                             *)

States == {"none", "live", "expired", "revoked", "deleted"}
Kinds == {"consent", "exchange", "refresh", "handback", "reset", "password"}
Stages == {"off", "ask", "issue", "check", "share", "claim", "insert", "raced", "reuse", "revoke",
           "sessions", "credentials"}

\* Types; codes and pairs are made in their order, and no row is locked twice.
TypeOK ==
  /\ account \in [Users -> [epoch : 0..MaxEpoch, usable : BOOLEAN]]
  /\ member \subseteq Users /\ project \in BOOLEAN
  /\ code \in [Codes -> [state : {"none", "pending", "gone"}, user : Users \cup {None},
                         client : Clients \cup {None}, epoch : 0..MaxEpoch]]
  /\ approved \in 0..MaxCodes /\ issued \in 0..MaxPairs
  /\ pair \in [Pairs -> [access : States, refresh : States, user : Users \cup {None},
                         client : Clients \cup {None}, code : 0..MaxCodes, epoch : 0..MaxEpoch,
                         from : 0..MaxPairs]]
  /\ req \in [Requests -> [at : Stages, kind : Kinds, user : Users \cup {None},
                           client : Clients \cup {None}, code : 0..MaxCodes, pair : 0..MaxPairs,
                           epoch : 0..MaxEpoch, signedIn : BOOLEAN, todo : SUBSET Pairs,
                           locked : SUBSET Pairs]]
  /\ raced \subseteq Pairs
  /\ \A k \in Codes : code[k].state = "none" <=> k > approved
  /\ \A i \in Pairs : pair[i].access = "none" <=> i > issued
  /\ \A i \in Pairs, p, q \in Requests : Holds(p, i) /\ Holds(q, i) => p = q

Live(i) == pair[i].access = "live" \/ pair[i].refresh = "live"

\* What is revoked with an account's credentials stays so: whatever is live goes back to an
\* approval given since the account last revoked them.  Codes in flight, exchanges past their
\* checks and rotations past their claim are where a pair could slip through
\* (services/auth/mcp-tokens.ts, revokeMcpCredentialsOfUser; oauth-routes.ts, the exchange).
NothingOfAnOldEpoch ==
  \A i \in Pairs : Live(i) => pair[i].epoch = account[pair[i].user].epoch

\* A code gives one pair, however often and by whomever it is presented, and whatever fails
\* (oauth.ts, AuthorizationCodeStore.redeem).
CodeGivesOnePair ==
  \A i, j \in 1..issued : pair[i].from = 0 /\ pair[j].from = 0 /\ pair[i].code = pair[j].code => i = j

\* Rotation hands the refresh token on: of one approval at most one is live, though two
\* exchanges may have verified the same one (oauth-routes.ts, the claim).
OneRefreshPerApproval ==
  \A i, j \in Pairs : pair[i].refresh = "live" /\ pair[j].refresh = "live" /\ pair[i].code = pair[j].code
                      => i = j

\* Where two exchanges raced for a refresh token, what the winner was given is dead once the
\* loser has been answered (oauth-routes.ts, "two exchanges raced").
RacedPairIsDead ==
  \A i \in raced : \A j \in Pairs : pair[j].from = i => ~Live(j)

\* A code becomes a pair only for an account that can be used and may read the project when
\* the pair is inserted, and not when it was looked at (oauth-routes.ts, shareUserRowForGrant).
MintsForWhoMayRead ==
  [][\A i \in Pairs : pair[i].access = "none" /\ pair'[i].access = "live" /\ pair'[i].from = 0
       => project /\ account[pair'[i].user].usable /\ pair'[i].user \in member]_vars

\* What oauth-routes.ts says of /oauth/revoke: "What comes down is the grant, not the string".
\* When it is answered, no credential of the approval is live.
ReturnedGrantIsDown ==
  [][\A q \in Requests :
       req[q].kind = "handback" /\ RevokeGrant(q) => \A i \in Pairs : pair[i].code = req[q].code => ~Live(i)']_vars

\* One approval is one line of credentials (redeem, the claim of a rotation): its code gives one pair, of the
\* pairs one can be refreshed, and of two refreshes that race one is dead when both are
\* answered.
ApprovalGivesOneGrant == CodeGivesOnePair /\ OneRefreshPerApproval /\ RacedPairIsDead
=============================================================================
