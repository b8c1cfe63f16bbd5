------------------------------ MODULE Accounts ------------------------------
(***************************************************************************)
(* The accounts of an instance and the requests that change them at the    *)
(* same time: PATCH and DELETE of a user, linking and unlinking a          *)
(* single-sign-on identity, signing in through it, minting an API token,   *)
(* setting a password, granting a membership (services/auth/users.ts,      *)
(* federated-identities.ts, memberships.ts; admin/users-routes.ts,         *)
(* auth-routes.ts, tokens-routes.ts).                                      *)
(*                                                                         *)
(* They meet in PostgreSQL, at READ COMMITTED: a statement sees what was   *)
(* committed when it began, and SELECT ... FOR UPDATE takes the rows of    *)
(* its snapshot one by one, waits for whoever holds one, and passes over   *)
(* a row that does not match any more.  An action below is a statement, or *)
(* several between which nobody can interfere, since they touch one        *)
(* account whose row is locked; what a transaction wrote is seen, and its  *)
(* locks are given back, at Commit.  Setup is over, so there is a root.    *)
(***************************************************************************)
EXTENDS Naturals, Sequences

CONSTANTS
  Users,        \* account ids, in the order of ORDER BY id; never used again
  StartRole,    \* the accounts there are
  Requests,     \* how many requests may be going on at once
  Bodies,       \* the bodies of PATCH for each account
  RequestKinds,        \* the kinds of requests that are made
  Creatable,    \* the roles accounts are created with
  Identities,   \* what the identity provider calls people: (issuer, subject)
  Sessions,     \* sessions opened through single sign-on
  GroupsOn,     \* OIDC_GROUPS_CLAIM is set
  NoOne

Roles == {"root", "admin", "member"}
Body == [role : Roles \cup {"keep"}, active : {"yes", "no", "keep"}]
AllKinds == {"patch", "delete", "login", "link", "unlink", "mint", "password", "signin", "member"}

ASSUME UsersAssumption == Users \subseteq Nat /\ NoOne \notin Users
ASSUME NoneAssumption == NoOne \notin Identities \cup Sessions
ASSUME SetupAssumption ==
  StartRole \in [Users -> Roles \cup {"unborn"}] /\ \E u \in Users : StartRole[u] = "root"
ASSUME RequestsAssumption ==
  /\ Bodies \in [Users -> SUBSET Body] /\ RequestKinds \subseteq AllKinds /\ Creatable \subseteq Roles
  /\ GroupsOn \in BOOLEAN

VARIABLES
  role,        \* users.role, "unborn" or "deleted" where there is no row
  active,      \* users.is_active
  ssoOnly,     \* users.password_hash is the sentinel no password matches
  link,        \* user_federated_identities: whose each identity is
  liveSessions, \* user_sessions: the live sessions opened through the identity
  tokens,      \* an API token minted in such a session is live
  membership,  \* project_members: the origin of the account's row, if any
  req,         \* the requests
  grown        \* a root was made while a removal was waiting for the roots
               \* there were; for the properties

account == <<role, active, ssoOnly>>
credentials == <<link, liveSessions, tokens, membership>>
accountVars == <<account, credentials, req, grown>>

NoBody == [role |-> "keep", active |-> "keep"]
NoRequest == [at |-> "off", kind |-> "patch", user |-> NoOne, body |-> NoBody, seen |-> "member",
              identity |-> NoOne, session |-> NoOne, todo |-> <<>>, roots |-> {}, held |-> {}]

Exists(u) == role[u] \in Roles
ActiveRoot(u) == role[u] = "root" /\ active[u]
ActiveRoots == {u \in Users : ActiveRoot(u)}
Linked(u) == \E i \in Identities : link[i] = u

AccountsInit ==
  /\ role = StartRole
  /\ active = [u \in Users |-> TRUE]
  /\ ssoOnly = [u \in Users |-> FALSE]
  /\ link = [i \in Identities |-> NoOne]
  /\ liveSessions = [u \in Users |-> {}]
  /\ tokens = [u \in Users |-> FALSE]
  /\ membership = [u \in Users |-> "none"]
  /\ req = [q \in Requests |-> NoRequest]
  /\ grown = FALSE

-----------------------------------------------------------------------------
(* What a request asks, and which locks it takes.                          *)

\* Known from the request alone; whether the account is a root is read later.
MayLoseRoot(r) ==
  \/ r.kind = "delete"
  \/ r.kind = "patch" /\ (r.body.role \notin {"keep", "root"} \/ r.body.active = "no")

\* Mutant: a PATCH that disables is not taken for one that may remove a root.
LocksOfDemotionOnly(r) ==
  IF r.kind = "delete" \/ r.body.role \notin {"keep", "root"} THEN <<"roots", "row">> ELSE <<"row">>

\* Mutant: the account first, then the roots.
LocksAccountFirst(r) == IF MayLoseRoot(r) THEN <<"row", "roots">> ELSE <<"row">>

\* lockActiveRoots, then withUserRowLock.
Locks(r) == IF MayLoseRoot(r) THEN <<"roots", "row">> ELSE <<"row">>

\* Has its snapshot of the roots, and not yet all its locks.
Acquiring(r) == MayLoseRoot(r) /\ (r.at = "roots" \/ (r.at = "lock" /\ r.todo = <<"row">>))

\* Observes a step that makes an active root a removal may not know of.
Watch == grown' = (grown \/ (ActiveRoots' \ ActiveRoots # {} /\ \E q \in Requests : Acquiring(req[q])))

Begin(q, r) ==
  /\ req[q].at = "off" /\ r.kind \in RequestKinds
  /\ req' = [req EXCEPT ![q] = [r EXCEPT !.at = "lock", !.todo = Locks(r)]]

About(kind, u) == [NoRequest EXCEPT !.kind = kind, !.user = u]

\* The checks of the route read the account before any lock.  Who may ask is
\* the policy's business: ADMIN_TOKEN may ask anything of anybody.
BeginPatch(q, u, body) ==
  /\ Exists(u)
  /\ Begin(q, [About("patch", u) EXCEPT !.body = body, !.seen = role[u]])
  /\ UNCHANGED <<account, credentials, grown>>

BeginAbout(q, kind, u) ==
  /\ Exists(u)
  /\ kind = "signin" => active[u] /\ ~ssoOnly[u]
  /\ Begin(q, About(kind, u))
  /\ UNCHANGED <<account, credentials, grown>>

\* POST .../oidc/link, and some time later the provider's callback.
BeginLink(q, u, i) ==
  /\ Exists(u) /\ role[u] # "root"
  /\ Begin(q, [About("link", u) EXCEPT !.identity = i])
  /\ UNCHANGED <<account, credentials, grown>>

BeginMint(q, u, s) ==
  /\ s \in liveSessions[u]
  /\ Begin(q, [About("mint", u) EXCEPT !.session = s])
  /\ UNCHANGED <<account, credentials, grown>>

\* Ids of sessions are never used again; here one nobody refers to any more is.
Unused(s) == (\A u \in Users : s \notin liveSessions[u]) /\ \A q \in Requests : req[q].session # s

\* The callback of a sign-in finds the account of the identity,
BeginLogin(q, u, i, s) ==
  /\ link[i] = u /\ Unused(s)
  /\ Begin(q, [About("login", u) EXCEPT !.identity = i, !.session = s])
  /\ UNCHANGED <<account, credentials, grown>>

\* or makes one, and its link, in a transaction of their own.
ProvisionFederatedUser(q, u, i, s) ==
  /\ link[i] = NoOne /\ role[u] = "unborn" /\ Unused(s)
  /\ \E r \in Creatable \ {"root"} : role' = [role EXCEPT ![u] = r]
  /\ ssoOnly' = [ssoOnly EXCEPT ![u] = TRUE]
  /\ link' = [link EXCEPT ![i] = u]
  /\ Begin(q, [About("login", u) EXCEPT !.identity = i, !.session = s])
  /\ UNCHANGED <<active, liveSessions, tokens, membership, grown>>

CreateUser(u, r) ==
  /\ role[u] = "unborn" /\ r \in Creatable
  /\ role' = [role EXCEPT ![u] = r]
  /\ UNCHANGED <<active, ssoOnly, credentials, req>>
  /\ Watch

-----------------------------------------------------------------------------
(* Locks.                                                                  *)

First(S) == {u \in S : \A v \in S : u <= v}
Unlocked(r) == IF r.todo = <<>> THEN "decide" ELSE "lock"
Moved(r) == [r EXCEPT !.at = IF r.roots # {} THEN "roots" ELSE Unlocked(r)]

\* Mutant: a row is never waited for.
FreeAnyway(u, q) == Exists(u)
Free(u, q) == \A p \in Requests \ {q} : u \notin req[p].held

\* lockActiveRoots: the statement's snapshot,
BeginLockRoots(q) ==
  /\ req[q].at = "lock" /\ Head(req[q].todo) = "roots"
  /\ req' = [req EXCEPT ![q] = Moved([req[q] EXCEPT !.todo = Tail(@), !.roots = ActiveRoots])]
  /\ UNCHANGED <<account, credentials, grown>>

\* and its rows in their order, each matched again when its turn comes.
LockRoot(q) ==
  /\ req[q].at = "roots"
  /\ \E u \in First(req[q].roots) :
       /\ Free(u, q)
       /\ req' = [req EXCEPT ![q] = Moved([req[q] EXCEPT !.roots = @ \ {u},
                                                 !.held = IF ActiveRoot(u) THEN @ \cup {u} ELSE @])]
  /\ UNCHANGED <<account, credentials, grown>>

\* withUserRowLock; a row that is gone is not locked.
LockRow(q) ==
  LET u == req[q].user
  IN /\ req[q].at = "lock" /\ Head(req[q].todo) = "row" /\ Free(u, q)
     /\ req' = [req EXCEPT ![q] = Moved([req[q] EXCEPT !.todo = Tail(@),
                                               !.held = IF Exists(u) THEN @ \cup {u} ELSE @])]
     /\ UNCHANGED <<account, credentials, grown>>
-----------------------------------------------------------------------------
(* Under the locks: read again, decide, write.                             *)

\* assertAnotherActiveRoot
AnotherActiveRoot(u) == ActiveRoots \ {u} # {}

LosesRoot(r) ==
  /\ MayLoseRoot(r) /\ role[r.user] = "root"
  /\ r.kind = "delete" => active[r.user]

\* Mutant: the role before the lock decides whether this is a promotion.
AllowedPatchStale(r) ==
  /\ r.body.role = "root" /\ r.seen # "root" => ~Linked(r.user)
  /\ LosesRoot(r) => AnotherActiveRoot(r.user)

\* updateUser: root stays a local account, and there is another one.
AllowedPatch(r) ==
  /\ r.body.role = "root" /\ role[r.user] # "root" => ~Linked(r.user)
  /\ LosesRoot(r) => AnotherActiveRoot(r.user)

\* The callback of a sign-in: still linked to this account, no root.
AllowedLogin(r) == link[r.identity] = r.user /\ active[r.user] /\ role[r.user] # "root"

\* Mutant: the session that asked is taken to be live still.
AllowedMintAnyway(r) == TRUE
AllowedMint(r) == r.session \in liveSessions[r.user]

\* Mutant: the link may go though there is no password.
AllowedUnlinkAlways(r) == Linked(r.user)
AllowedUnlink(r) == Linked(r.user) /\ ~ssoOnly[r.user]

\* Mutant: whoever the account is.
AllowedMemberOfAnyRole(r) == r.kind = "signin" => GroupsOn

\* setMemberRole refuses administrators and, while groups are mapped, a row a
\* group granted; a sign-in with the password drops what groups granted.
AllowedMember(r) ==
  /\ role[r.user] = "member"
  /\ GroupsOn => (r.kind = "signin" \/ membership[r.user] # "group")
  /\ r.kind = "signin" => GroupsOn

Allowed(r) ==
  /\ Exists(r.user)
  /\ r.kind = "patch" => AllowedPatch(r)
  /\ r.kind = "delete" => (LosesRoot(r) => AnotherActiveRoot(r.user))
  /\ r.kind = "login" => AllowedLogin(r)
  /\ r.kind = "link" => role[r.user] # "root" /\ link[r.identity] \in {NoOne, r.user}
  /\ r.kind = "unlink" => AllowedUnlink(r)
  /\ r.kind = "mint" => AllowedMint(r)
  /\ r.kind \in {"signin", "member"} => AllowedMember(r)

\* A refusal rolls back, which gives the locks back.
Decide(q) ==
  /\ req[q].at = "decide"
  /\ req' = [req EXCEPT ![q] = IF Allowed(req[q]) THEN [req[q] EXCEPT !.at = "commit"] ELSE NoRequest]
  /\ UNCHANGED <<account, credentials, grown>>

Rank(r) == CASE r = "root" -> 3 [] r = "admin" -> 2 [] OTHER -> 1

\* The sessions are ended afterwards, in a statement of their own; a demotion
\* is one from what the route had read.
Demoted(r) == r.body.role # "keep" /\ Rank(r.body.role) < Rank(r.seen)
RevokesAfter(r) == r.kind = "password" \/ (r.kind = "patch" /\ (r.body.active = "no" \/ Demoted(r)))
Ended(q) == req' = [req EXCEPT ![q] = IF RevokesAfter(req[q])
                                      THEN [About("patch", req[q].user) EXCEPT !.at = "revoke"]
                                      ELSE NoRequest]

Patch(u, body) ==
  /\ role' = [role EXCEPT ![u] = IF body.role = "keep" THEN @ ELSE body.role]
  /\ active' = [active EXCEPT ![u] = IF body.active = "keep" THEN @ ELSE body.active = "yes"]
  /\ membership' = [membership EXCEPT ![u] = IF body.role \in {"keep", "member"} THEN @ ELSE "none"]
  /\ UNCHANGED <<ssoOnly, link, liveSessions, tokens>>

Without(u) == [i \in Identities |-> IF link[i] = u THEN NoOne ELSE link[i]]

\* Everything of the account goes with it, ON DELETE CASCADE.
Delete(u) ==
  /\ role' = [role EXCEPT ![u] = "deleted"]
  /\ link' = Without(u)
  /\ liveSessions' = [liveSessions EXCEPT ![u] = {}] /\ tokens' = [tokens EXCEPT ![u] = FALSE]
  /\ membership' = [membership EXCEPT ![u] = "none"]
  /\ UNCHANGED <<active, ssoOnly>>

\* reconcileGroupMemberships: what a hand made stays, groups grant or not.
Login(u, s, granted) ==
  /\ liveSessions' = [liveSessions EXCEPT ![u] = @ \cup {s}]
  /\ membership' = [membership EXCEPT ![u] =
                      IF GroupsOn /\ role[u] = "member" /\ @ # "manual" THEN granted ELSE @]
  /\ UNCHANGED <<account, link, tokens>>

\* The loser of two inserts of one identity finds it taken.
Link(u, i) ==
  /\ link' = [link EXCEPT ![i] = IF @ = NoOne THEN u ELSE @]
  /\ UNCHANGED <<account, liveSessions, tokens, membership>>

Unlink(u) ==
  /\ link' = Without(u)
  /\ liveSessions' = [liveSessions EXCEPT ![u] = {}] /\ tokens' = [tokens EXCEPT ![u] = FALSE]
  /\ membership' = [membership EXCEPT ![u] = IF @ = "group" THEN "none" ELSE @]
  /\ UNCHANGED account

Mint(u) == tokens' = [tokens EXCEPT ![u] = TRUE] /\ UNCHANGED <<account, link, liveSessions, membership>>

SetPassword(u) ==
  /\ ssoOnly' = [ssoOnly EXCEPT ![u] = FALSE]
  /\ UNCHANGED <<role, active, credentials>>

SetMember(u, origin) ==
  /\ membership' = [membership EXCEPT ![u] = origin]
  /\ UNCHANGED <<account, link, liveSessions, tokens>>

\* removeGroupMemberships, at a sign-in with the password
SignIn(u) ==
  /\ membership' = [membership EXCEPT ![u] = IF @ = "group" THEN "none" ELSE @]
  /\ UNCHANGED <<account, link, liveSessions, tokens>>

Commit(q) ==
  LET u == req[q].user
      kind == req[q].kind
  IN /\ req[q].at = "commit"
     /\ \/ kind = "patch" /\ Patch(u, req[q].body)
        \/ kind = "delete" /\ Delete(u)
        \/ kind = "login" /\ \E granted \in {"none", "group"} : Login(u, req[q].session, granted)
        \/ kind = "link" /\ Link(u, req[q].identity)
        \/ kind = "unlink" /\ Unlink(u)
        \/ kind = "mint" /\ Mint(u)
        \/ kind = "password" /\ SetPassword(u)
        \/ kind = "member" /\ \E origin \in {"none", "manual"} : SetMember(u, origin)
        \/ kind = "signin" /\ SignIn(u)
     /\ Ended(q)
     /\ Watch

\* revokeSessionsOfUser.  Whoever changes a password of their own keeps the
\* session they ask in: EndSession of the others, and Fail.
RevokeSessions(q) ==
  /\ req[q].at = "revoke"
  /\ liveSessions' = [liveSessions EXCEPT ![req[q].user] = {}]
  /\ req' = [req EXCEPT ![q] = NoRequest]
  /\ UNCHANGED <<account, link, tokens, membership, grown>>

\* A statement fails, the process dies, or PostgreSQL breaks a deadlock.
Fail(q) ==
  /\ req[q].at # "off"
  /\ req' = [req EXCEPT ![q] = NoRequest]
  /\ UNCHANGED <<account, credentials, grown>>

\* Signing out, and the reaper.
EndSession(u, s) ==
  /\ s \in liveSessions[u]
  /\ liveSessions' = [liveSessions EXCEPT ![u] = @ \ {s}]
  /\ UNCHANGED <<account, link, tokens, membership, req, grown>>

-----------------------------------------------------------------------------
Ask(q, u) ==
  \/ \E body \in Bodies[u] : BeginPatch(q, u, body)
  \/ \E kind \in RequestKinds \ {"patch", "login", "link", "mint"} : BeginAbout(q, kind, u)
  \/ \E i \in Identities : BeginLink(q, u, i)
  \/ \E s \in Sessions : BeginMint(q, u, s)
  \/ \E i \in Identities, s \in Sessions : BeginLogin(q, u, i, s) \/ ProvisionFederatedUser(q, u, i, s)

Handle(q) ==
  BeginLockRoots(q) \/ LockRoot(q) \/ LockRow(q) \/ Decide(q) \/ Commit(q) \/ RevokeSessions(q) \/ Fail(q)

AccountsNext ==
  \/ \E q \in Requests : Handle(q) \/ \E u \in Users : Ask(q, u)
  \/ \E u \in Users : (\E r \in Roles : CreateUser(u, r)) \/ \E s \in Sessions : EndSession(u, s)

AccountsSpec == AccountsInit /\ [][AccountsNext]_accountVars
-----------------------------------------------------------------------------
Request == [at : {"off", "lock", "roots", "decide", "commit", "revoke"}, kind : AllKinds,
            user : Users \cup {NoOne}, body : Body, seen : Roles,
            identity : Identities \cup {NoOne}, session : Sessions \cup {NoOne},
            todo : Seq({"roots", "row"}), roots : SUBSET Users, held : SUBSET Users]

\* Every variable stays in its type, and a row is locked by one request.
AccountsTypeOK ==
  /\ role \in [Users -> Roles \cup {"unborn", "deleted"}]
  /\ active \in [Users -> BOOLEAN] /\ ssoOnly \in [Users -> BOOLEAN]
  /\ link \in [Identities -> Users \cup {NoOne}]
  /\ liveSessions \in [Users -> SUBSET Sessions] /\ tokens \in [Users -> BOOLEAN]
  /\ membership \in [Users -> {"none", "manual", "group"}]
  /\ req \in [Requests -> Request] /\ grown \in BOOLEAN
  /\ \A p, q \in Requests : p # q => req[p].held \cap req[q].held = {}

\* There is always a root that can sign in, since the roots are locked before
\* they are counted (assertAnotherActiveRoot); as long as no root is made
\* while a removal waits for the roots there were.
ARootRemains == ~grown => ActiveRoots # {}

\* What users.ts says without that reservation: two administrators cannot each
\* remove "the other" root at the same moment.  The code breaks it: roots made
\* while both wait are in neither's lock.
AlwaysARoot == ActiveRoots # {}

\* Root stays local: no account is root and linked, whichever of a promotion,
\* a link and a sign-in comes first (updateUser, the link callback).
RootIsLocal == \A u \in Users : role[u] = "root" => ~Linked(u)

\* What was opened through an identity ends with its link: the sessions, the
\* tokens minted in them, and the memberships its groups granted (DELETE
\* /api/auth/oidc/link).  With RootIsLocal, no such session is ever a root's,
\* and what installAuth does about one is a backstop.
LinkOutlivesNothing ==
  \A u \in Users : liveSessions[u] # {} \/ tokens[u] \/ membership[u] = "group" => Linked(u)

\* No account is left without a way in: a password, or an identity.
AlwaysAWayIn == \A u \in Users : Exists(u) /\ ssoOnly[u] => Linked(u)

\* Only members have memberships; a row for anybody else would say something
\* untrue (setMemberRole, updateUser).
MembersOnly == \A u \in Users : membership[u] # "none" => role[u] = "member"

\* The order of the locks leaves no cycle of requests that wait for one
\* another (users.ts, "Lock order"), with the same reservation.
Wants(r) == CASE r.at = "roots" -> First(r.roots)
              [] r.at = "lock" /\ Head(r.todo) = "row" -> {r.user}
              [] OTHER -> {}
WaitsFor(q, p) == p # q /\ Wants(req[q]) \cap req[p].held # {}
NoDeadlock ==
  ~grown => ~\E stuck \in SUBSET Requests :
     stuck # {} /\ \A q \in stuck : \E p \in stuck : WaitsFor(q, p)

\* The installation keeps an administrator no identity provider can take away
\* (updateUser, deleteUser, the link callback).
RootsRemain == ARootRemains /\ RootIsLocal

\* Requests that decide on a row they have not locked leave no account half changed
\* (unlink, PATCH, grants): who may only sign in by a link has one, and only members have
\* memberships.
AccountsWhole == AlwaysAWayIn /\ MembersOnly
=============================================================================
