---------------------------- MODULE RowsProofs ----------------------------
(***************************************************************************)
(* What holds of the rows of the database: of the accounts, however many   *)
(* there are and however many requests change them at once; then of the    *)
(* credential of a source (SecretRefresh); last of the two in one run.     *)
(* The argument for the accounts:                                          *)
(*                                                                         *)
(*   Staged    a request that decides holds the row of its account         *)
(*   Decided   so what it decided upon is still so when it commits         *)
(*   Bare      who has no account has nothing                              *)
(*   RootsOf   a removal that took its snapshot of the roots covers the    *)
(*             roots there are (Covers) until it has its locks; from then  *)
(*             on it holds a root, so no other removal gets past the roots *)
(*                                                                         *)
(* Nobody waits for ever because the roots are locked in one order, and a  *)
(* request that waits for its own row holds nothing or is past the roots.  *)
(***************************************************************************)
EXTENDS MCRows, TLAPS

Staged(r) ==
  /\ r.at \in {"off", "revoke"} => r.held = {}
  /\ r.at # "off" => r.user \in Users
  /\ r.at \in {"lock", "roots", "decide", "commit"} => role[r.user] # "unborn"
  /\ r.at = "lock" => /\ r.roots = {}
                      /\ \/ r.todo = <<"row">> /\ (MayLoseRoot(r) \/ r.held = {})
                         \/ r.todo = <<"roots", "row">> /\ MayLoseRoot(r) /\ r.held = {}
  /\ r.at = "roots" => r.todo = <<"row">> /\ MayLoseRoot(r)
  /\ r.at \in {"decide", "commit"} => r.roots = {} /\ (Exists(r.user) => r.user \in r.held)
  /\ r.at = "commit" => Exists(r.user)
  /\ r.at # "off" /\ r.kind = "login" => r.identity \in Identities /\ r.session \in Sessions

Decided(r) ==
  r.at = "commit" =>
    /\ r.kind = "patch" /\ r.body.role = "root" /\ role[r.user] # "root" => ~Linked(r.user)
    /\ r.kind = "link" => role[r.user] # "root"
    /\ r.kind \in {"login", "mint"} => Linked(r.user)
    /\ r.kind = "unlink" => ~ssoOnly[r.user]
    /\ r.kind = "member" => role[r.user] = "member"

\* Has the roots, and has not given them back.
Past(r) == MayLoseRoot(r) /\ (r.at \in {"decide", "commit"} \/ (r.at = "lock" /\ r.todo = <<"row">>))

\* Roots are locked in the order of their ids.
Covers(r) ==
  Acquiring(r) => /\ ActiveRoots \subseteq r.roots \cup r.held /\ r.held \subseteq ActiveRoots
                  /\ \A u \in r.held, v \in r.roots : u < v

RootsOf(r) ==
  /\ Covers(r)
  /\ Past(r) => r.held \cap ActiveRoots # {}
  /\ r.at = "commit" /\ LosesRoot(r) => AnotherActiveRoot(r.user)

Bare(u) ==
  ~Exists(u) => /\ ~Linked(u) /\ ~tokens[u] /\ liveSessions[u] = {} /\ membership[u] = "none"
                /\ role[u] = "unborn" => ~ssoOnly[u]

\* RootIsLocal, LinkOutlivesNothing, AlwaysAWayIn and MembersOnly, of one account.
Sound(u) ==
  /\ role[u] = "root" => ~Linked(u)
  /\ liveSessions[u] # {} \/ tokens[u] \/ membership[u] = "group" => Linked(u)
  /\ Exists(u) /\ ssoOnly[u] => Linked(u)
  /\ membership[u] # "none" => role[u] = "member"

RequestInv == \A q \in Requests : Staged(req[q]) /\ Decided(req[q])
AccountInv == \A u \in Users : Bare(u) /\ Sound(u)
RootsInv ==
  ~grown => /\ ActiveRoots # {}
            /\ \A q \in Requests : RootsOf(req[q])
            /\ \A p, q \in Requests : p # q => ~(Past(req[p]) /\ Past(req[q]))

Inv == AccountsTypeOK /\ RequestInv /\ AccountInv /\ RootsInv

-----------------------------------------------------------------------------
LEMMA IdleFacts ==
  /\ NoRequest \in Request /\ Staged(NoRequest) /\ Decided(NoRequest)
  /\ RootsOf(NoRequest) /\ ~Past(NoRequest) /\ NoRequest.held = {} /\ NoRequest.at = "off"
<1>1. NoRequest \in Request
  BY DEF NoRequest, Request, NoBody, Body, Roles, AllKinds
<1> QED
  BY <1>1 DEF NoRequest, Staged, Decided, RootsOf, Covers, Acquiring, Past, MayLoseRoot

LEMMA InitInv == AccountsInit => Inv
<1> SUFFICES ASSUME AccountsInit PROVE Inv
  OBVIOUS
<1>1. AccountsTypeOK
  BY IdleFacts, SetupAssumption DEF AccountsInit, AccountsTypeOK
<1>2. RequestInv
  BY IdleFacts DEF AccountsInit, RequestInv
<1>3. AccountInv
  BY NoneAssumption, UsersAssumption, SetupAssumption
     DEF AccountsInit, AccountInv, Bare, Sound, Linked, Exists, Roles
<1>4. ActiveRoots # {}
  BY SetupAssumption DEF AccountsInit, ActiveRoots, ActiveRoot
<1>5. RootsInv
  BY <1>4, IdleFacts DEF AccountsInit, RootsInv
<1> QED
  BY <1>1, <1>2, <1>3, <1>5 DEF Inv

-----------------------------------------------------------------------------
(* A step of one request that leaves the accounts as they are, but may end *)
(* sessions.                                                               *)
LEMMA QuietStep ==
  ASSUME Inv, NEW q \in Requests,
         UNCHANGED <<account, link, tokens, membership, grown>>,
         liveSessions' \in [Users -> SUBSET Sessions], \A u \in Users : liveSessions'[u] \subseteq liveSessions[u],
         req' \in [Requests -> Request],
         \A p \in Requests \ {q} : req'[p] = req[p] /\ req'[q].held \cap req[p].held = {},
         Staged(req'[q]), Decided(req'[q]),
         ~grown => RootsOf(req'[q]),
         ~grown /\ Past(req'[q]) => \A p \in Requests \ {q} : ~Past(req[p])
  PROVE  Inv'
<1> USE DEF account
<1>1. AccountsTypeOK'
  BY DEF Inv, AccountsTypeOK
<1>2. RequestInv'
  <2> SUFFICES ASSUME NEW p \in Requests PROVE (Staged(req[p]) /\ Decided(req[p]))'
    BY DEF RequestInv
  <2>1. Staged(req'[p]) /\ Decided(req'[p])
    BY DEF Inv, RequestInv
  <2> QED
    BY <2>1 DEF Staged, Decided, Exists, Linked, MayLoseRoot
<1>3. AccountInv'
  BY DEF Inv, AccountInv, Bare, Sound, Linked, Exists, AccountsTypeOK
<1>4. RootsInv'
  <2> SUFFICES ASSUME ~grown PROVE RootsInv'
    BY DEF RootsInv
  <2>1. ActiveRoots' = ActiveRoots /\ ActiveRoots # {}
    BY DEF Inv, RootsInv, ActiveRoots, ActiveRoot
  <2>2. ASSUME NEW p \in Requests PROVE RootsOf(req[p])'
    <3>1. RootsOf(req'[p])
      BY DEF Inv, RootsInv
    <3> QED
      BY <2>1, <3>1 DEF RootsOf, Covers, Acquiring, Past, MayLoseRoot, LosesRoot, AnotherActiveRoot
  <2>3. ASSUME NEW p1 \in Requests, NEW p2 \in Requests, p1 # p2
        PROVE  ~(Past(req[p1]) /\ Past(req[p2]))'
    BY <2>3 DEF Inv, RootsInv, Past, MayLoseRoot
  <2> QED
    BY <2>1, <2>2, <2>3 DEF RootsInv
<1> QED
  BY <1>1, <1>2, <1>3, <1>4 DEF Inv

\* A request that ends, and may have ended sessions.
LEMMA EndStep ==
  ASSUME Inv, NEW q \in Requests,
         UNCHANGED <<account, link, tokens, membership, grown>>,
         liveSessions' \in [Users -> SUBSET Sessions], \A u \in Users : liveSessions'[u] \subseteq liveSessions[u],
         req' = [req EXCEPT ![q] = NoRequest]
  PROVE  Inv'
<1>1. req \in [Requests -> Request] /\ req'[q] = NoRequest
  BY DEF Inv, AccountsTypeOK
<1>2. req' \in [Requests -> Request] /\ \A p \in Requests \ {q} : req'[p] = req[p]
  BY <1>1, IdleFacts
<1> QED
  BY <1>1, <1>2, IdleFacts, QuietStep

-----------------------------------------------------------------------------
(* A step that changes the account u and the requests of Q.                *)
Same(v) ==
  /\ role'[v] = role[v] /\ active'[v] = active[v] /\ ssoOnly'[v] = ssoOnly[v]
  /\ liveSessions'[v] = liveSessions[v] /\ tokens'[v] = tokens[v] /\ membership'[v] = membership[v]
  /\ Linked(v)' = Linked(v)

\* What Watch is for.
Watched == ~grown' => ~grown /\ (ActiveRoots' \subseteq ActiveRoots \/ \A q \in Requests : ~Acquiring(req[q]))

LEMMA AccountStep ==
  ASSUME Inv, NEW u \in Users, NEW Q \in SUBSET Requests, AccountsTypeOK', Watched,
         \A v \in Users \ {u} : Same(v),
         Bare(u)', Sound(u)',
         role'[u] = "unborn" => role[u] = "unborn",
         \A p \in Requests \ Q : req'[p] = req[p],
         \A p \in Requests \ Q : req[p].at \in {"decide", "commit"} => req[p].user # u,
         \A p \in Requests \ Q : u \in req[p].held /\ ActiveRoot(u) => ActiveRoot(u)',
         \A p \in Q : req'[p].at \in {"off", "lock", "revoke"} /\ ~Past(req'[p]) /\ Staged(req[p])',
         ~grown /\ ActiveRoot(u) /\ ~ActiveRoot(u)' =>
           AnotherActiveRoot(u) /\ \A p \in Requests \ Q : ~Past(req[p])
  PROVE  Inv'
<1>1. RequestInv'
  <2>1. ASSUME NEW p \in Q PROVE (Staged(req[p]) /\ Decided(req[p]))'
    BY <2>1 DEF Decided
  <2>2. ASSUME NEW p \in Requests \ Q PROVE (Staged(req[p]) /\ Decided(req[p]))'
    <3>1. req'[p] = req[p] /\ Staged(req[p]) /\ Decided(req[p])
      BY DEF Inv, RequestInv
    <3>2. req[p].at \in {"decide", "commit"} => req[p].user \in Users \ {u}
      BY <3>1 DEF Staged
    <3>3. Staged(req[p])'
      BY <3>1, <3>2 DEF Staged, Same, Exists, MayLoseRoot
    <3>4. Decided(req[p])'
      BY <3>1, <3>2 DEF Decided, Same
    <3> QED
      BY <3>3, <3>4
  <2> QED
    BY <2>1, <2>2 DEF RequestInv
<1>2. AccountInv'
  <2>1. ASSUME NEW v \in Users \ {u} PROVE (Bare(v) /\ Sound(v))'
    <3>1. Same(v) /\ Bare(v) /\ Sound(v)
      BY DEF Inv, AccountInv
    <3> QED
      BY <3>1 DEF Same, Bare, Sound, Exists
  <2> QED
    BY <2>1 DEF AccountInv
<1>3. RootsInv'
  <2> SUFFICES ASSUME ~grown' PROVE RootsInv'
    BY DEF RootsInv
  <2>1. ~grown /\ (ActiveRoots' \subseteq ActiveRoots \/ \A p \in Requests : ~Acquiring(req[p]))
    BY DEF Watched
  <2>2. \A v \in Users \ {u} : ActiveRoot(v)' = ActiveRoot(v)
    BY DEF Same, ActiveRoot
  <2>3. /\ ActiveRoots # {} /\ \A p \in Requests : RootsOf(req[p])
        /\ \A p1, p2 \in Requests : p1 # p2 => ~(Past(req[p1]) /\ Past(req[p2]))
    BY <2>1 DEF Inv, RootsInv
  <2>4. ActiveRoots' # {}
    <3>1. CASE ActiveRoot(u) /\ ~ActiveRoot(u)'
      BY <3>1, <2>1, <2>2 DEF AnotherActiveRoot, ActiveRoots
    <3>2. CASE ~(ActiveRoot(u) /\ ~ActiveRoot(u)')
      BY <3>2, <2>2, <2>3 DEF ActiveRoots
    <3> QED
      BY <3>1, <3>2
  <2>5. ASSUME NEW p \in Requests PROVE RootsOf(req[p])'
    <3>1. CASE p \in Q
      BY <3>1 DEF RootsOf, Covers, Acquiring, Past, MayLoseRoot
    <3>2. CASE p \notin Q
      <4>1. req'[p] = req[p] /\ RootsOf(req[p]) /\ Staged(req[p])
        BY <3>2, <2>3 DEF Inv, RequestInv
      <4>2. Covers(req[p])'
        <5> SUFFICES ASSUME Acquiring(req[p])
                     PROVE  ActiveRoots' \subseteq req[p].roots \cup req[p].held /\ req[p].held \subseteq ActiveRoots'
          BY <4>1 DEF RootsOf, Covers, Acquiring, MayLoseRoot
        <5>1. /\ ActiveRoots \subseteq req[p].roots \cup req[p].held /\ req[p].held \subseteq ActiveRoots
              /\ ActiveRoots' \subseteq ActiveRoots
          BY <4>1, <2>1 DEF RootsOf, Covers
        <5>2. ASSUME NEW v \in req[p].held PROVE v \in ActiveRoots'
          BY <5>1, <5>2, <3>2, <2>2 DEF ActiveRoots
        <5> QED
          BY <5>1, <5>2
      <4>3. ASSUME Past(req[p]) PROVE ActiveRoot(u) => ActiveRoot(u)'
        BY <4>3, <3>2, <2>1
      <4>4. ASSUME Past(req[p]) PROVE req[p].held \cap ActiveRoots' # {}
        BY <4>1, <4>3, <4>4, <2>2 DEF RootsOf, ActiveRoots
      <4>5. ASSUME req[p].at = "commit", LosesRoot(req[p])' PROVE ActiveRoots' \ {req[p].user} # {}
        <5>1. req[p].user \in Users \ {u}
          BY <4>1, <4>5, <3>2 DEF Staged
        <5>2. LosesRoot(req[p])
          BY <5>1, <4>1, <4>5 DEF LosesRoot, Same, MayLoseRoot
        <5>3. Past(req[p])
          BY <5>2, <4>5 DEF Past, LosesRoot
        <5>4. ActiveRoots \ {req[p].user} # {}
          BY <5>2, <4>1, <4>5 DEF RootsOf, AnotherActiveRoot
        <5> QED
          BY <5>3, <5>4, <4>3, <2>2 DEF ActiveRoots
      <4> QED
        BY <4>1, <4>2, <4>4, <4>5 DEF RootsOf, AnotherActiveRoot, Past, MayLoseRoot
    <3> QED
      BY <3>1, <3>2
  <2>6. ASSUME NEW p1 \in Requests, NEW p2 \in Requests, p1 # p2
        PROVE  ~(Past(req[p1]) /\ Past(req[p2]))'
    <3>1. ASSUME NEW p \in Requests, Past(req[p])' PROVE p \notin Q /\ Past(req[p])
      BY <3>1 DEF Past, MayLoseRoot
    <3> QED
      BY <3>1, <2>3, <2>6
  <2> QED
    BY <2>4, <2>5, <2>6 DEF RootsInv
<1> QED
  BY <1>1, <1>2, <1>3 DEF Inv

-----------------------------------------------------------------------------
(* Asking.                                                                 *)

\* What a request is asked with.
Asked(r) ==
  /\ r.user \in Users /\ r.roots = {} /\ r.held = {}
  /\ r.kind = "login" => r.identity \in Identities /\ r.session \in Sessions

LEMMA LockLists ==
  /\ <<>> \in Seq({"roots", "row"}) /\ <<"row">> \in Seq({"roots", "row"})
  /\ <<"roots", "row">> \in Seq({"roots", "row"})
  /\ Tail(<<"row">>) = <<>> /\ Tail(<<"roots", "row">>) = <<"row">>
  /\ Head(<<"row">>) = "row" /\ Head(<<"roots", "row">>) = "roots"
  /\ <<"row">> # <<>> /\ <<"roots", "row">> # <<>> /\ <<"roots", "row">> # <<"row">>
<1>1. <<"row">> \in Seq({"roots", "row"}) /\ Tail(<<"row">>) = <<>> /\ Head(<<"row">>) = "row"
  OBVIOUS
<1>2. <<"roots", "row">> \in Seq({"roots", "row"}) /\ Head(<<"roots", "row">>) = "roots"
  OBVIOUS
<1>3. Tail(<<"roots", "row">>) = <<"row">>
  OBVIOUS
<1> QED
  BY <1>1, <1>2, <1>3

LEMMA BegunFacts ==
  ASSUME NEW r \in Request, Asked(r), NEW s, s = [r EXCEPT !.at = "lock", !.todo = Locks(r)]
  PROVE  /\ s \in Request /\ s.at = "lock" /\ s.held = {} /\ s.user = r.user /\ ~Past(s) /\ Decided(s)
         /\ RootsOf(s)
         /\ role[r.user] # "unborn" => Staged(s)
<1>1. /\ s.at = "lock" /\ s.todo = Locks(r) /\ s.held = {} /\ s.roots = {} /\ s.user = r.user
      /\ s.kind = r.kind /\ s.body = r.body /\ s.identity = r.identity /\ s.session = r.session
  BY DEF Request, Asked
<1>2. Locks(r) \in Seq({"roots", "row"})
  BY LockLists DEF Locks
<1>3. s \in Request
  BY <1>2 DEF Request
<1>4. MayLoseRoot(s) = MayLoseRoot(r)
  BY <1>1 DEF MayLoseRoot
<1>5. ~Past(s)
  BY <1>1, <1>4, LockLists DEF Past, Locks
<1> QED
  BY LockLists, <1>1, <1>3, <1>4, <1>5 DEF Asked, Staged, Decided, RootsOf, Covers, Acquiring, Locks, Past

LEMMA AboutFacts ==
  ASSUME NEW kind \in AllKinds, NEW u \in Users
  PROVE  /\ About(kind, u) \in Request /\ About(kind, u).kind = kind /\ About(kind, u).user = u
         /\ About(kind, u).held = {} /\ About(kind, u).roots = {}
  BY IdleFacts DEF About, NoRequest, Request

LEMMA BeginStep ==
  ASSUME Inv, NEW q \in Requests,
         \E r \in Request : Begin(q, r) /\ Asked(r) /\ Exists(r.user),
         UNCHANGED <<account, credentials, grown>>
  PROVE  Inv'
<1>1. PICK r \in Request : Begin(q, r) /\ Asked(r) /\ Exists(r.user)
  OBVIOUS
<1> DEFINE s == [r EXCEPT !.at = "lock", !.todo = Locks(r)]
<1>2. /\ s \in Request /\ s.at = "lock" /\ s.held = {} /\ s.user = r.user /\ ~Past(s)
      /\ Decided(s) /\ RootsOf(s) /\ Staged(s)
  BY <1>1, BegunFacts DEF Exists, Roles
<1>3. req \in [Requests -> Request] /\ liveSessions \in [Users -> SUBSET Sessions]
  BY DEF Inv, AccountsTypeOK
<1>4. req' = [req EXCEPT ![q] = s]
  BY <1>1 DEF Begin
<1> HIDE DEF s
<1>5. req'[q] = s /\ req' \in [Requests -> Request] /\ \A p \in Requests \ {q} : req'[p] = req[p]
  BY <1>2, <1>3, <1>4
<1> QED
  BY <1>2, <1>3, <1>5, QuietStep DEF credentials

LEMMA BeginPatchStep ==
  ASSUME Inv, NEW q \in Requests, NEW u \in Users, NEW body \in Bodies[u], BeginPatch(q, u, body)
  PROVE  Inv'
<1>1. body \in Body /\ role[u] \in Roles
  BY RequestsAssumption DEF BeginPatch, Exists
<1>2. About("patch", u) \in Request /\ Asked(About("patch", u)) /\ About("patch", u).user = u
      /\ About("patch", u).kind = "patch"
  BY AboutFacts DEF Asked, AllKinds
<1> DEFINE a == About("patch", u)
           r == [a EXCEPT !.body = body, !.seen = role[u]]
<1> HIDE DEF a
<1>3. r \in Request /\ r.user = u /\ r.kind = "patch" /\ Asked(r)
  BY <1>1, <1>2 DEF a, Request, Asked
<1> QED
  BY <1>3, BeginStep DEF BeginPatch, a

LEMMA BeginAboutStep ==
  ASSUME Inv, NEW q \in Requests, NEW u \in Users,
         NEW kind \in RequestKinds \ {"patch", "login", "link", "mint"}, BeginAbout(q, kind, u)
  PROVE  Inv'
<1>1. kind \in AllKinds
  BY RequestsAssumption
<1>2. About(kind, u) \in Request /\ Asked(About(kind, u)) /\ About(kind, u).user = u
  BY <1>1, AboutFacts DEF Asked
<1> QED
  BY <1>2, BeginStep DEF BeginAbout

LEMMA BeginLinkStep ==
  ASSUME Inv, NEW q \in Requests, NEW u \in Users, NEW i \in Identities, BeginLink(q, u, i)
  PROVE  Inv'
<1> DEFINE r == [About("link", u) EXCEPT !.identity = i]
<1>1. r \in Request /\ Asked(r) /\ r.user = u
  BY AboutFacts DEF Asked, Request, AllKinds
<1>2. Begin(q, r) /\ Exists(u) /\ UNCHANGED <<account, credentials, grown>>
  BY DEF BeginLink
<1> QED
  BY <1>1, <1>2, BeginStep

LEMMA BeginMintStep ==
  ASSUME Inv, NEW q \in Requests, NEW u \in Users, NEW s \in Sessions, BeginMint(q, u, s)
  PROVE  Inv'
<1> DEFINE r == [About("mint", u) EXCEPT !.session = s]
<1>1. r \in Request /\ Asked(r) /\ r.user = u
  BY AboutFacts DEF Asked, Request, AllKinds
<1>2. Begin(q, r) /\ Exists(u) /\ UNCHANGED <<account, credentials, grown>>
  BY DEF BeginMint, Inv, AccountInv, Bare
<1> QED
  BY <1>1, <1>2, BeginStep

LEMMA LoginAsked ==
  ASSUME NEW u \in Users, NEW i \in Identities, NEW s \in Sessions
  PROVE  LET r == [About("login", u) EXCEPT !.identity = i, !.session = s]
         IN r \in Request /\ Asked(r) /\ r.user = u
<1>1. About("login", u) \in Request /\ Asked([About("login", u) EXCEPT !.kind = "patch"])
      /\ About("login", u).user = u
  BY AboutFacts DEF Asked, AllKinds, Request
<1> DEFINE a == About("login", u)
           r == [a EXCEPT !.identity = i, !.session = s]
<1> HIDE DEF a
<1>2. r \in Request /\ r.user = u /\ Asked(r)
  BY <1>1 DEF a, Request, Asked
<1> QED
  BY <1>2 DEF a

LEMMA BeginLoginStep ==
  ASSUME Inv, NEW q \in Requests, NEW u \in Users, NEW i \in Identities, NEW s \in Sessions,
         BeginLogin(q, u, i, s)
  PROVE  Inv'
<1> DEFINE r == [About("login", u) EXCEPT !.identity = i, !.session = s]
<1>1. r \in Request /\ Asked(r) /\ r.user = u
  BY LoginAsked
<1>2. Exists(u)
  BY DEF BeginLogin, Inv, AccountInv, Bare, Linked
<1>3. Begin(q, r) /\ UNCHANGED <<account, credentials, grown>>
  BY DEF BeginLogin
<1> QED
  BY <1>1, <1>2, <1>3, BeginStep

-----------------------------------------------------------------------------
(* New accounts.                                                           *)

LEMMA ProvisionStep ==
  ASSUME Inv, NEW q \in Requests, NEW u \in Users, NEW i \in Identities, NEW s \in Sessions,
         ProvisionFederatedUser(q, u, i, s)
  PROVE  Inv'
<1> DEFINE r == [About("login", u) EXCEPT !.identity = i, !.session = s]
           b == [r EXCEPT !.at = "lock", !.todo = Locks(r)]
<1>1. r \in Request /\ Asked(r) /\ r.user = u
  BY LoginAsked
<1>2. /\ req' = [req EXCEPT ![q] = b] /\ link' = [link EXCEPT ![i] = u] /\ link[i] = NoOne
      /\ role[u] = "unborn" /\ ssoOnly' = [ssoOnly EXCEPT ![u] = TRUE]
      /\ UNCHANGED <<active, liveSessions, tokens, membership, grown>>
  BY DEF ProvisionFederatedUser, Begin
<1>3. PICK x \in Creatable \ {"root"} : role' = [role EXCEPT ![u] = x]
  BY DEF ProvisionFederatedUser
<1> HIDE DEF r
<1>4. x \in Roles /\ role'[u] = x /\ \A v \in Users \ {u} : role'[v] = role[v]
  BY <1>3, RequestsAssumption DEF Inv, AccountsTypeOK
<1>5. b \in Request /\ b.at = "lock" /\ b.held = {} /\ ~Past(b) /\ b.user = u
  BY <1>1, BegunFacts
<1>6. Staged(b)'
  <2>1. role[r.user] # "unborn" => Staged(b)
    BY <1>1, BegunFacts
  <2>2. b.roots = {} /\ (b.todo = <<"row">> \/ (b.todo = <<"roots", "row">> /\ MayLoseRoot(b)))
        /\ (b.kind = "login" => b.identity \in Identities /\ b.session \in Sessions)
    BY <1>1 DEF Request, Asked, Locks, MayLoseRoot
  <2> QED
    BY <2>2, <1>4, <1>5 DEF Staged, Roles, MayLoseRoot
<1> HIDE DEF b
<1>7. req'[q] = b /\ \A p \in Requests \ {q} : req'[p] = req[p]
  BY <1>2 DEF Inv, AccountsTypeOK
<1>8. AccountsTypeOK'
  <2>1. req' \in [Requests -> Request] /\ link' \in [Identities -> Users \cup {NoOne}]
        /\ ssoOnly' \in [Users -> BOOLEAN] /\ role' \in [Users -> Roles \cup {"unborn", "deleted"}]
    BY <1>2, <1>3, <1>4, <1>5 DEF Inv, AccountsTypeOK
  <2>2. \A p1, p2 \in Requests : p1 # p2 => req'[p1].held \cap req'[p2].held = {}
    BY <1>7, <1>5 DEF Inv, AccountsTypeOK
  <2> QED
    BY <2>1, <2>2, <1>2 DEF Inv, AccountsTypeOK
<1>9. ~ActiveRoot(u) /\ \A v \in Users : ActiveRoot(v)' = ActiveRoot(v)
  BY <1>2, <1>3, <1>4 DEF ActiveRoot
<1>10. Watched
  BY <1>9, <1>2 DEF Watched, ActiveRoots
<1>11. \A v \in Users \ {u} : Same(v)
  BY <1>2, <1>4, NoneAssumption, UsersAssumption DEF Same, Linked, Inv, AccountsTypeOK
<1>12. Linked(u)' /\ Exists(u)' /\ role'[u] # "root" /\ membership'[u] = "none"
  BY <1>2, <1>3, <1>4 DEF Inv, AccountInv, Bare, Linked, Exists, AccountsTypeOK, Roles
<1>13. Bare(u)' /\ Sound(u)'
  BY <1>12 DEF Bare, Sound
<1>14. \A p \in Requests : req[p].at \in {"decide", "commit"} => req[p].user # u
  BY <1>2 DEF Inv, RequestInv, Staged
<1> DEFINE Q == {q}
<1>15. /\ Q \in SUBSET Requests /\ \A p \in Requests \ Q : req'[p] = req[p]
       /\ \A p \in Q : req'[p].at \in {"off", "lock", "revoke"} /\ ~Past(req'[p]) /\ Staged(req[p])'
  BY <1>5, <1>6, <1>7
<1>16. role'[u] # "unborn"
  BY <1>4 DEF Roles
<1> HIDE DEF Q
<1> QED
  BY <1>8, <1>9, <1>10, <1>11, <1>13, <1>14, <1>15, <1>16, AccountStep

LEMMA WatchFacts == Watch => Watched /\ grown' \in BOOLEAN
  BY DEF Watch, Watched

LEMMA CreateStep ==
  ASSUME Inv, NEW u \in Users, NEW r \in Roles, CreateUser(u, r)
  PROVE  Inv'
<1> USE DEF credentials
<1>1. /\ role[u] = "unborn" /\ role' = [role EXCEPT ![u] = r] /\ Watched /\ grown' \in BOOLEAN
      /\ UNCHANGED <<active, ssoOnly, link, liveSessions, tokens, membership, req>>
  BY WatchFacts DEF CreateUser
<1>2. role'[u] = r /\ \A v \in Users \ {u} : role'[v] = role[v]
  BY <1>1 DEF Inv, AccountsTypeOK
<1>3. AccountsTypeOK'
  BY <1>1 DEF Inv, AccountsTypeOK
<1>4. Exists(u)' /\ Bare(u)' /\ Sound(u)'
  BY <1>1, <1>2 DEF Inv, AccountInv, Bare, Sound, Exists, Linked, Roles
<1>5. ~ActiveRoot(u) /\ \A v \in Users \ {u} : Same(v)
  BY <1>1, <1>2 DEF Same, ActiveRoot, Linked
<1>6. \A p \in Requests : req[p].at \in {"decide", "commit"} => req[p].user # u
  BY <1>1 DEF Inv, RequestInv, Staged
<1>7. role'[u] # "unborn" /\ {} \in SUBSET Requests
  BY <1>2 DEF Roles
<1> DEFINE Q == {}
<1>8. Q \in SUBSET Requests /\ \A p \in Requests \ Q : req'[p] = req[p]
  BY <1>1
<1>9. \A p \in Q : req'[p].at \in {"off", "lock", "revoke"} /\ ~Past(req'[p]) /\ Staged(req[p])'
  OBVIOUS
<1> HIDE DEF Q
<1> QED
  BY <1>1, <1>3, <1>4, <1>5, <1>6, <1>7, <1>8, <1>9, AccountStep

-----------------------------------------------------------------------------
(* Locks, and the decision under them.                                     *)

\* A step of the request q, which becomes r, that leaves the accounts alone.
LEMMA RequestStep ==
  ASSUME Inv, NEW q \in Requests, UNCHANGED <<account, credentials, grown>>,
         \E r \in Request :
           /\ req' = [req EXCEPT ![q] = r]
           /\ Staged(r) /\ Decided(r) /\ (~grown => RootsOf(r))
           /\ \A p \in Requests \ {q} : r.held \cap req[p].held = {}
           /\ ~grown /\ Past(r) => \A p \in Requests \ {q} : ~Past(req[p])
  PROVE  Inv'
<1>1. PICK r \in Request :
           /\ req' = [req EXCEPT ![q] = r]
           /\ Staged(r) /\ Decided(r) /\ (~grown => RootsOf(r))
           /\ \A p \in Requests \ {q} : r.held \cap req[p].held = {}
           /\ ~grown /\ Past(r) => \A p \in Requests \ {q} : ~Past(req[p])
  OBVIOUS
<1>2. req \in [Requests -> Request] /\ liveSessions \in [Users -> SUBSET Sessions]
  BY DEF Inv, AccountsTypeOK
<1>3. req'[q] = r /\ req' \in [Requests -> Request] /\ \A p \in Requests \ {q} : req'[p] = req[p]
  BY <1>1, <1>2
<1> QED
  BY <1>1, <1>2, <1>3, QuietStep DEF credentials

\* Two requests never hold the row of one account.
LEMMA Owned ==
  ASSUME Inv, NEW p \in Requests, NEW q \in Requests, p # q
  PROVE  req[p].held \cap req[q].held = {}
  BY DEF Inv, AccountsTypeOK

\* The request that locked the last of its roots holds one, and is the only
\* one past the roots.
LEMMA LastRoot ==
  ASSUME Inv, ~grown, NEW q \in Requests, NEW held, ActiveRoots \subseteq held,
         \A p \in Requests \ {q} : held \cap req[p].held = {}
  PROVE  held \cap ActiveRoots # {} /\ \A p \in Requests \ {q} : ~Past(req[p])
<1>1. ActiveRoots # {} /\ \A p \in Requests : RootsOf(req[p])
  BY DEF Inv, RootsInv
<1>2. ASSUME NEW p \in Requests \ {q}, Past(req[p]) PROVE FALSE
  BY <1>1, <1>2 DEF RootsOf
<1> QED
  BY <1>1, <1>2

LEMMA BeginLockRootsStep ==
  ASSUME Inv, NEW q \in Requests, BeginLockRoots(q)
  PROVE  Inv'
<1> DEFINE r0 == [req[q] EXCEPT !.todo = Tail(@), !.roots = ActiveRoots]
           r == Moved(r0)
<1>1. req[q] \in Request /\ Staged(req[q]) /\ req[q].at = "lock" /\ Head(req[q].todo) = "roots"
      /\ req' = [req EXCEPT ![q] = r] /\ UNCHANGED <<account, credentials, grown>>
  BY DEF BeginLockRoots, Inv, AccountsTypeOK, RequestInv
<1>2. req[q].todo = <<"roots", "row">> /\ MayLoseRoot(req[q]) /\ req[q].held = {}
  <2>1. req[q].todo # <<"row">>
    <3> SUFFICES ASSUME req[q].todo = <<"row">> PROVE FALSE
      OBVIOUS
    <3>1. Head(req[q].todo) = "row"
      BY LockLists
    <3> QED
      BY <3>1, <1>1
  <2> QED
    BY <2>1, <1>1 DEF Staged
<1>3. Tail(req[q].todo) = <<"row">> /\ ActiveRoots \in SUBSET Users
  BY <1>2, LockLists DEF ActiveRoots
<1>4. /\ r0 \in Request /\ r0.todo = <<"row">> /\ r0.roots = ActiveRoots /\ r0.held = {}
      /\ r0.kind = req[q].kind /\ r0.body = req[q].body /\ r0.user = req[q].user
      /\ r0.identity = req[q].identity /\ r0.session = req[q].session
  BY <1>1, <1>2, <1>3, LockLists DEF Request
<1> HIDE DEF r0
<1>5. /\ r \in Request /\ r.at = (IF ActiveRoots # {} THEN "roots" ELSE "lock")
      /\ r.todo = <<"row">> /\ r.roots = ActiveRoots /\ r.held = {} /\ r.user = req[q].user
      /\ r.kind = req[q].kind /\ r.body = req[q].body
      /\ r.identity = req[q].identity /\ r.session = req[q].session
  BY <1>4, LockLists DEF Moved, Unlocked, Request
<1> HIDE DEF r
<1>6. MayLoseRoot(r)
  BY <1>2, <1>5 DEF MayLoseRoot
<1>7. Staged(r) /\ Decided(r)
  BY <1>1, <1>5, <1>6 DEF Staged, Decided
<1>8. ~grown => ActiveRoots # {}
  BY DEF Inv, RootsInv
<1>9. ~grown => RootsOf(r) /\ ~Past(r)
  BY <1>5, <1>8 DEF RootsOf, Covers, Past
<1> QED
  BY <1>1, <1>5, <1>7, <1>9, RequestStep

LEMMA LockRootStep ==
  ASSUME Inv, NEW q \in Requests, LockRoot(q)
  PROVE  Inv'
<1>1. PICK u \in First(req[q].roots) :
        Free(u, q) /\ req' = [req EXCEPT ![q] = Moved([req[q] EXCEPT !.roots = @ \ {u},
                                                 !.held = IF ActiveRoot(u) THEN @ \cup {u} ELSE @])]
  BY DEF LockRoot
<1> DEFINE r0 == [req[q] EXCEPT !.roots = @ \ {u}, !.held = IF ActiveRoot(u) THEN @ \cup {u} ELSE @]
           r == Moved(r0)
           roots == req[q].roots \ {u}
           held == IF ActiveRoot(u) THEN req[q].held \cup {u} ELSE req[q].held
<1>2. req[q] \in Request /\ Staged(req[q]) /\ req[q].at = "roots" /\ req' = [req EXCEPT ![q] = r]
      /\ UNCHANGED <<account, credentials, grown>>
  <2>1. req[q] \in Request /\ Staged(req[q])
    BY DEF Inv, AccountsTypeOK, RequestInv
  <2>2. req' = [req EXCEPT ![q] = r]
    BY <1>1
  <2> QED
    BY <2>1, <2>2 DEF LockRoot
<1>3. u \in Users /\ req[q].todo = <<"row">> /\ MayLoseRoot(req[q])
  BY <1>2 DEF First, Request, Staged
<1>4. /\ r0 \in Request /\ r0.todo = <<"row">> /\ r0.roots = roots /\ r0.held = held /\ r0.at = "roots"
      /\ r0.kind = req[q].kind /\ r0.body = req[q].body /\ r0.user = req[q].user
      /\ r0.identity = req[q].identity /\ r0.session = req[q].session
  BY <1>2, <1>3 DEF Request
<1> HIDE DEF r0
<1>5. /\ r \in Request /\ r.at = (IF roots # {} THEN "roots" ELSE "lock")
      /\ r.todo = <<"row">> /\ r.roots = roots /\ r.held = held /\ r.user = req[q].user
      /\ r.kind = req[q].kind /\ r.body = req[q].body
      /\ r.identity = req[q].identity /\ r.session = req[q].session
  BY <1>4, LockLists DEF Moved, Unlocked, Request
<1> HIDE DEF r
<1>6. MayLoseRoot(r)
  BY <1>3, <1>5 DEF MayLoseRoot
<1>7. Staged(r) /\ Decided(r)
  BY <1>2, <1>3, <1>5, <1>6 DEF Staged, Decided
<1>8. \A p \in Requests \ {q} : held \cap req[p].held = {}
  BY <1>1, Owned DEF Free
<1>9. ASSUME ~grown
      PROVE  /\ ActiveRoots \subseteq roots \cup held /\ held \subseteq ActiveRoots
             /\ \A h \in held, v \in roots : h < v
  <2>1. /\ ActiveRoots \subseteq req[q].roots \cup req[q].held /\ req[q].held \subseteq ActiveRoots
        /\ \A h \in req[q].held, v \in req[q].roots : h < v
    BY <1>2, <1>3, <1>9 DEF Inv, RootsInv, RootsOf, Covers, Acquiring
  <2>2. \A v \in roots : u < v
    <3>1. \A v \in req[q].roots : u <= v /\ u \in Nat /\ v \in Nat
      BY <1>1, <1>2, UsersAssumption DEF First, Request
    <3> QED
      BY <3>1
  <2>. QED
    BY <2>1, <2>2, <1>3 DEF ActiveRoots
<1>10. ASSUME ~grown PROVE RootsOf(r) /\ (Past(r) => \A p \in Requests \ {q} : ~Past(req[p]))
  <2>1. CASE roots # {}
    BY <1>5, <1>9, <1>10, <2>1 DEF RootsOf, Covers, Past
  <2>2. CASE roots = {}
    <3>1. held \cap ActiveRoots # {} /\ \A p \in Requests \ {q} : ~Past(req[p])
      BY <1>8, <1>9, <1>10, <2>2, LastRoot
    <3> QED
      BY <3>1, <1>5, <1>9, <1>10, <2>2 DEF RootsOf, Covers
  <2> QED
    BY <2>1, <2>2
<1> QED
  BY <1>2, <1>5, <1>7, <1>8, <1>10, RequestStep

LEMMA LockRowStep ==
  ASSUME Inv, NEW q \in Requests, LockRow(q)
  PROVE  Inv'
<1> DEFINE u == req[q].user
           held == IF Exists(u) THEN req[q].held \cup {u} ELSE req[q].held
           r0 == [req[q] EXCEPT !.todo = Tail(@), !.held = IF Exists(u) THEN @ \cup {u} ELSE @]
           r == Moved(r0)
<1>1. req[q] \in Request /\ Staged(req[q]) /\ req[q].at = "lock" /\ Head(req[q].todo) = "row"
      /\ req' = [req EXCEPT ![q] = r] /\ UNCHANGED <<account, credentials, grown>> /\ Free(u, q)
  BY DEF LockRow, Inv, AccountsTypeOK, RequestInv
<1>2. req[q].todo = <<"row">>
  <2>1. req[q].todo # <<"roots", "row">>
    <3> SUFFICES ASSUME req[q].todo = <<"roots", "row">> PROVE FALSE
      OBVIOUS
    <3>1. Head(req[q].todo) = "roots"
      BY LockLists
    <3> QED
      BY <3>1, <1>1
  <2> QED
    BY <2>1, <1>1 DEF Staged
<1>3. Tail(req[q].todo) = <<>> /\ u \in Users /\ req[q].roots = {} /\ role[u] # "unborn"
  BY <1>1, <1>2, LockLists DEF Staged
<1>4. /\ r0 \in Request /\ r0.todo = <<>> /\ r0.roots = {} /\ r0.held = held
      /\ r0.kind = req[q].kind /\ r0.body = req[q].body /\ r0.user = u
      /\ r0.identity = req[q].identity /\ r0.session = req[q].session
  BY <1>1, <1>3, LockLists DEF Request
<1> HIDE DEF r0
<1>5. /\ r \in Request /\ r.at = "decide" /\ r.roots = {} /\ r.held = held /\ r.user = u
      /\ r.kind = req[q].kind /\ r.body = req[q].body
      /\ r.identity = req[q].identity /\ r.session = req[q].session
  BY <1>4 DEF Moved, Unlocked, Request
<1> HIDE DEF r
<1>6. Staged(r) /\ Decided(r)
  BY <1>1, <1>3, <1>5 DEF Staged, Decided
<1>7. \A p \in Requests \ {q} : held \cap req[p].held = {}
  BY <1>1, Owned DEF Free
<1>8. Past(r) => Past(req[q])
  BY <1>1, <1>2, <1>5 DEF Past, MayLoseRoot
<1>9. ~grown => RootsOf(r)
  BY <1>5, <1>8 DEF Inv, RootsInv, RootsOf, Covers, Acquiring
<1>10. ~grown /\ Past(r) => \A p \in Requests \ {q} : ~Past(req[p])
  BY <1>8 DEF Inv, RootsInv
<1> QED
  BY <1>1, <1>5, <1>6, <1>7, <1>9, <1>10, RequestStep

LEMMA DecideStep ==
  ASSUME Inv, NEW q \in Requests, Decide(q)
  PROVE  Inv'
<1>1. req[q] \in Request /\ Staged(req[q]) /\ req[q].at = "decide" /\ UNCHANGED <<account, credentials, grown>>
  BY DEF Decide, Inv, AccountsTypeOK, RequestInv
<1>2. CASE ~Allowed(req[q])
  <2>1. req' = [req EXCEPT ![q] = NoRequest]
    BY <1>2 DEF Decide
  <2> QED
    BY <2>1, <1>1, EndStep DEF credentials, Inv, AccountsTypeOK
<1>3. CASE Allowed(req[q])
  <2> DEFINE r == [req[q] EXCEPT !.at = "commit"]
  <2>1. req' = [req EXCEPT ![q] = r]
    BY <1>3 DEF Decide
  <2>2. /\ r \in Request /\ r.at = "commit" /\ r.roots = req[q].roots /\ r.held = req[q].held
        /\ r.user = req[q].user /\ r.kind = req[q].kind /\ r.body = req[q].body
        /\ r.identity = req[q].identity /\ r.session = req[q].session
    BY <1>1 DEF Request
  <2> HIDE DEF r
  <2>3. Staged(r)
    BY <1>1, <1>3, <2>2 DEF Staged, Allowed
  <2>4. Decided(r)
    <3>1. req[q].kind = "login" => Linked(req[q].user)
      BY <1>1, <1>3 DEF Allowed, AllowedLogin, Linked, Staged
    <3>2. req[q].kind = "mint" => Linked(req[q].user)
      BY <1>1, <1>3 DEF Allowed, AllowedMint, Inv, AccountInv, Sound, Staged
    <3>3. req[q].kind = "patch" /\ req[q].body.role = "root" /\ role[req[q].user] # "root" => ~Linked(req[q].user)
      BY <1>3 DEF Allowed, AllowedPatch
    <3> QED
      BY <3>1, <3>2, <3>3, <2>2, <1>3 DEF Decided, Allowed, AllowedUnlink, AllowedMember
  <2>5. Past(r) => Past(req[q])
    BY <1>1, <2>2 DEF Past, MayLoseRoot
  <2>6. LosesRoot(r) => AnotherActiveRoot(r.user)
    BY <1>3, <2>2 DEF Allowed, AllowedPatch, LosesRoot, MayLoseRoot
  <2>7. ~grown => RootsOf(r)
    BY <2>2, <2>5, <2>6 DEF Inv, RootsInv, RootsOf, Covers, Acquiring
  <2>8. ~grown /\ Past(r) => \A p \in Requests \ {q} : ~Past(req[p])
    BY <2>5 DEF Inv, RootsInv
  <2>9. \A p \in Requests \ {q} : r.held \cap req[p].held = {}
    BY <2>2, Owned
  <2> QED
    BY <1>1, <2>1, <2>2, <2>3, <2>4, <2>7, <2>8, <2>9, RequestStep
<1> QED
  BY <1>2, <1>3

LEMMA FailStep ==
  ASSUME Inv, NEW q \in Requests, Fail(q)
  PROVE  Inv'
  BY EndStep DEF Fail, credentials, Inv, AccountsTypeOK

LEMMA RevokeStep ==
  ASSUME Inv, NEW q \in Requests, RevokeSessions(q)
  PROVE  Inv'
<1>1. liveSessions \in [Users -> SUBSET Sessions]
  BY DEF Inv, AccountsTypeOK
<1>2. liveSessions' \in [Users -> SUBSET Sessions] /\ \A u \in Users : liveSessions'[u] \subseteq liveSessions[u]
  BY <1>1 DEF RevokeSessions
<1> QED
  BY <1>2, EndStep DEF RevokeSessions

LEMMA EndSessionStep ==
  ASSUME Inv, NEW u \in Users, NEW s \in Sessions, EndSession(u, s)
  PROVE  Inv'
<1>1. /\ UNCHANGED <<role, active, ssoOnly, link, tokens, membership, req, grown>>
      /\ liveSessions' = [liveSessions EXCEPT ![u] = @ \ {s}]
  BY DEF EndSession, account
<1>2. AccountsTypeOK'
  BY <1>1 DEF Inv, AccountsTypeOK
<1>3. RequestInv'
  BY <1>1 DEF Inv, RequestInv, Staged, Decided, Linked, Exists, MayLoseRoot
<1>4. AccountInv'
  BY <1>1 DEF Inv, AccountInv, Bare, Sound, Linked, Exists, AccountsTypeOK
<1>5. RootsInv'
  BY <1>1 DEF Inv, RootsInv, RootsOf, Covers, Acquiring, Past, MayLoseRoot, LosesRoot, AnotherActiveRoot,
              ActiveRoots, ActiveRoot
<1> QED
  BY <1>2, <1>3, <1>4, <1>5 DEF Inv

-----------------------------------------------------------------------------
(* Commit.                                                                 *)

AccountTypes ==
  /\ role \in [Users -> Roles \cup {"unborn", "deleted"}]
  /\ active \in [Users -> BOOLEAN] /\ ssoOnly \in [Users -> BOOLEAN]
  /\ link \in [Identities -> Users \cup {NoOne}]
  /\ liveSessions \in [Users -> SUBSET Sessions] /\ tokens \in [Users -> BOOLEAN]
  /\ membership \in [Users -> {"none", "manual", "group"}]

\* What a commit does to its account, and to no other.
Effect(r, u) ==
  /\ AccountTypes'
  /\ \A v \in Users \ {u} : Same(v)
  /\ Bare(u)' /\ Sound(u)' /\ role'[u] # "unborn"
  /\ ActiveRoot(u) /\ ~ActiveRoot(u)' => LosesRoot(r)

\* What is known when it commits.
Ready(r, u) ==
  /\ r \in Request /\ r.at = "commit" /\ Decided(r) /\ u \in Users /\ u = r.user /\ Exists(u)
  /\ AccountTypes /\ Bare(u) /\ Sound(u)

LEMMA PatchEffect ==
  ASSUME NEW r, NEW u, Ready(r, u), r.kind = "patch", Patch(u, r.body)
  PROVE  Effect(r, u)
<1>1. /\ r.body.role \in Roles \cup {"keep"} /\ r.body.active \in {"yes", "no", "keep"}
      /\ UNCHANGED <<ssoOnly, link, liveSessions, tokens>>
  BY DEF Ready, Request, Body, Patch
<1>2. /\ role'[u] = (IF r.body.role = "keep" THEN role[u] ELSE r.body.role)
      /\ active'[u] = (IF r.body.active = "keep" THEN active[u] ELSE r.body.active = "yes")
      /\ membership'[u] = (IF r.body.role \in {"keep", "member"} THEN membership[u] ELSE "none")
  BY DEF Ready, AccountTypes, Patch
<1>3. AccountTypes'
  BY <1>1 DEF Ready, AccountTypes, Patch, Exists
<1>4. \A v \in Users \ {u} : Same(v)
  BY <1>1 DEF Ready, AccountTypes, Patch, Same, Linked
<1>5. Exists(u)' /\ role'[u] # "unborn" /\ Bare(u)'
  BY <1>1, <1>2 DEF Ready, Exists, Roles, Bare
<1>6. Sound(u)'
  BY <1>1, <1>2 DEF Ready, Decided, Sound, Exists, Linked, Roles
<1>7. ActiveRoot(u) /\ ~ActiveRoot(u)' => LosesRoot(r)
  BY <1>1, <1>2 DEF Ready, ActiveRoot, LosesRoot, MayLoseRoot
<1> QED
  BY <1>3, <1>4, <1>5, <1>6, <1>7 DEF Effect

LEMMA WithoutFacts ==
  ASSUME AccountTypes, NEW u \in Users, link' = Without(u)
  PROVE  /\ link' \in [Identities -> Users \cup {NoOne}] /\ ~Linked(u)'
         /\ \A v \in Users \ {u} : Linked(v)' = Linked(v)
  BY UsersAssumption DEF AccountTypes, Without, Linked

LEMMA DeleteEffect ==
  ASSUME NEW r, NEW u, Ready(r, u), r.kind = "delete", Delete(u)
  PROVE  Effect(r, u)
<1>1. /\ link' \in [Identities -> Users \cup {NoOne}] /\ ~Linked(u)'
      /\ \A v \in Users \ {u} : Linked(v)' = Linked(v)
  BY WithoutFacts DEF Ready, Delete
<1>2. /\ role'[u] = "deleted" /\ liveSessions'[u] = {} /\ tokens'[u] = FALSE /\ membership'[u] = "none"
      /\ UNCHANGED <<active, ssoOnly>>
  BY DEF Ready, AccountTypes, Delete
<1>3. AccountTypes'
  BY <1>1 DEF Ready, AccountTypes, Delete
<1>4. \A v \in Users \ {u} : Same(v)
  BY <1>1, <1>2 DEF Ready, AccountTypes, Delete, Same
<1>5. Bare(u)' /\ Sound(u)' /\ role'[u] # "unborn"
  BY <1>1, <1>2 DEF Bare, Sound, Exists, Roles
<1>6. ActiveRoot(u) => LosesRoot(r)
  BY DEF Ready, ActiveRoot, LosesRoot, MayLoseRoot
<1> QED
  BY <1>3, <1>4, <1>5, <1>6 DEF Effect

LEMMA LinkEffect ==
  ASSUME NEW r, NEW u, Ready(r, u), r.kind = "link", Link(u, r.identity)
  PROVE  Effect(r, u)
<1> USE DEF account
<1>1. link' = [link EXCEPT ![r.identity] = IF @ = NoOne THEN u ELSE @]
      /\ UNCHANGED <<role, active, ssoOnly, liveSessions, tokens, membership>>
  BY DEF Link
<1>2. AccountTypes'
  BY <1>1 DEF Ready, AccountTypes
<1>3. \A v \in Users \ {u} : Same(v)
  BY <1>1, UsersAssumption DEF Ready, AccountTypes, Same, Linked
<1>4. Linked(u) => Linked(u)'
  BY <1>1, UsersAssumption DEF Ready, AccountTypes, Linked
<1>5. Bare(u)' /\ Sound(u)' /\ role'[u] # "unborn"
  BY <1>1, <1>4 DEF Ready, Decided, Bare, Sound, Exists, Roles
<1> QED
  BY <1>1, <1>2, <1>3, <1>5 DEF Effect, ActiveRoot

LEMMA UnlinkEffect ==
  ASSUME NEW r, NEW u, Ready(r, u), r.kind = "unlink", Unlink(u)
  PROVE  Effect(r, u)
<1> USE DEF account
<1>1. /\ link' \in [Identities -> Users \cup {NoOne}] /\ ~Linked(u)'
      /\ \A v \in Users \ {u} : Linked(v)' = Linked(v)
  BY WithoutFacts DEF Ready, Unlink
<1>2. /\ liveSessions'[u] = {} /\ tokens'[u] = FALSE /\ UNCHANGED <<role, active, ssoOnly>>
      /\ membership'[u] = (IF membership[u] = "group" THEN "none" ELSE membership[u])
  BY DEF Ready, AccountTypes, Unlink
<1>3. AccountTypes'
  BY <1>1 DEF Ready, AccountTypes, Unlink
<1>4. \A v \in Users \ {u} : Same(v)
  BY <1>1, <1>2 DEF Ready, AccountTypes, Unlink, Same
<1>5. Bare(u)' /\ Sound(u)' /\ role'[u] # "unborn"
  BY <1>1, <1>2 DEF Ready, Decided, Bare, Sound, Exists, Roles
<1> QED
  BY <1>2, <1>3, <1>4, <1>5 DEF Effect, ActiveRoot

\* A session, a token, a password or a membership for an account that may have it.
LEMMA GrantEffect ==
  ASSUME NEW r, NEW u, Ready(r, u),
         \/ r.kind = "login" /\ r.session \in Sessions
              /\ \E granted \in {"none", "group"} : Login(u, r.session, granted)
         \/ r.kind = "mint" /\ Mint(u)
         \/ r.kind = "password" /\ SetPassword(u)
         \/ r.kind = "member" /\ \E origin \in {"none", "manual"} : SetMember(u, origin)
         \/ r.kind = "signin" /\ SignIn(u)
  PROVE  Effect(r, u)
<1> USE DEF account, credentials
<1>1. UNCHANGED <<role, active, link>>
  BY DEF Login, Mint, SetPassword, SetMember, SignIn
<1>2. AccountTypes'
  <2>1. CASE r.session \in Sessions /\ \E granted \in {"none", "group"} : Login(u, r.session, granted)
    <3>1. PICK granted \in {"none", "group"} : Login(u, r.session, granted)
      BY <2>1
    <3>2. liveSessions' \in [Users -> SUBSET Sessions]
      BY <2>1, <3>1 DEF Ready, AccountTypes, Login
    <3>3. membership' \in [Users -> {"none", "manual", "group"}]
      BY <3>1 DEF Ready, AccountTypes, Login
    <3> QED
      BY <3>1, <3>2, <3>3 DEF Ready, AccountTypes, Login
  <2>2. CASE Mint(u) \/ SetPassword(u)
    BY <2>2 DEF Ready, AccountTypes, Mint, SetPassword
  <2>3. CASE SignIn(u) \/ \E origin \in {"none", "manual"} : SetMember(u, origin)
    BY <2>3 DEF Ready, AccountTypes, SignIn, SetMember
  <2> QED
    BY <2>1, <2>2, <2>3
<1>3. \A v \in Users \ {u} : Same(v)
  BY DEF Ready, AccountTypes, Same, Linked, Login, Mint, SetPassword, SetMember, SignIn
<1>4. Linked(u)' = Linked(u) /\ Exists(u)'
  BY <1>1 DEF Ready, Linked, Exists
<1>5. Sound(u)'
  <2>1. CASE r.kind = "login"
    BY <2>1, <1>1, <1>4 DEF Ready, Decided, AccountTypes, Sound, Exists, Login
  <2>2. CASE r.kind = "mint"
    BY <2>2, <1>1, <1>4 DEF Ready, Decided, AccountTypes, Sound, Exists, Mint
  <2>3. CASE r.kind = "password"
    BY <2>3, <1>1, <1>4 DEF Ready, AccountTypes, Sound, Exists, SetPassword
  <2>4. CASE r.kind = "member"
    BY <2>4, <1>1, <1>4 DEF Ready, Decided, AccountTypes, Sound, Exists, SetMember
  <2>5. CASE r.kind = "signin"
    BY <2>5, <1>1, <1>4 DEF Ready, AccountTypes, Sound, Exists, SignIn
  <2> QED
    BY <2>1, <2>2, <2>3, <2>4, <2>5
<1> QED
  BY <1>1, <1>2, <1>3, <1>4, <1>5 DEF Effect, Bare, Exists, Roles, ActiveRoot

LEMMA CommitStep ==
  ASSUME Inv, NEW q \in Requests, Commit(q)
  PROVE  Inv'
<1>1. PICK r \in Request, u \in Users : r = req[q] /\ u = r.user /\ Staged(r)
  BY DEF Commit, Inv, AccountsTypeOK, RequestInv, Staged
<1>2. Ready(r, u) /\ u \in r.held
  <2>1. AccountTypes /\ Decided(r) /\ Bare(u) /\ Sound(u)
    BY <1>1 DEF Inv, AccountsTypeOK, AccountTypes, RequestInv, AccountInv
  <2> QED
    BY <1>1, <2>1 DEF Commit, Ready, Staged
<1>3. Effect(r, u)
  <2>1. CASE r.kind = "patch"
    BY <1>1, <1>2, <2>1, PatchEffect DEF Commit
  <2>2. CASE r.kind = "delete"
    BY <1>1, <1>2, <2>2, DeleteEffect DEF Commit
  <2>3. CASE r.kind = "link"
    BY <1>1, <1>2, <2>3, LinkEffect DEF Commit
  <2>4. CASE r.kind = "unlink"
    BY <1>1, <1>2, <2>4, UnlinkEffect DEF Commit
  <2>5. CASE r.kind \in {"login", "mint", "password", "member", "signin"}
    <3>1. r.kind = "login" => r.session \in Sessions
      BY <1>1, <1>2 DEF Staged, Ready
    <3> QED
      BY <1>1, <1>2, <2>5, <3>1, GrantEffect DEF Commit
  <2> QED
    BY <1>1, <2>1, <2>2, <2>3, <2>4, <2>5 DEF Request, AllKinds
<1>4. /\ req' \in [Requests -> Request] /\ \A p \in Requests \ {q} : req'[p] = req[p]
      /\ req'[q].at \in {"off", "revoke"} /\ req'[q].held = {}
      /\ req'[q].user = (IF req'[q].at = "off" THEN NoOne ELSE u)
      /\ req'[q].kind = "patch"
  <2> DEFINE s == IF RevokesAfter(r) THEN [About("patch", u) EXCEPT !.at = "revoke"] ELSE NoRequest
  <2>1. s \in Request /\ s.at \in {"off", "revoke"} /\ s.held = {} /\ s.kind = "patch"
        /\ s.user = (IF s.at = "off" THEN NoOne ELSE u)
    <3>1. About("patch", u) \in Request /\ About("patch", u).kind = "patch"
          /\ About("patch", u).user = u /\ About("patch", u).held = {}
      BY AboutFacts DEF AllKinds
    <3> QED
      BY <3>1, IdleFacts DEF Request, NoRequest
  <2>2. req' = [req EXCEPT ![q] = s]
    BY <1>1 DEF Commit, Ended
  <2> HIDE DEF s
  <2> QED
    BY <2>1, <2>2 DEF Inv, AccountsTypeOK
<1>5. Watched /\ grown' \in BOOLEAN
  BY WatchFacts DEF Commit
<1>6. AccountsTypeOK'
  <2>1. \A p1, p2 \in Requests : p1 # p2 => req'[p1].held \cap req'[p2].held = {}
    BY <1>4, Owned
  <2> QED
    BY <2>1, <1>3, <1>4, <1>5 DEF Effect, AccountTypes, AccountsTypeOK
<1>7. \A p \in Requests \ {q} : u \notin req[p].held
  BY <1>1, <1>2, Owned
<1>8. \A p \in Requests \ {q} : req[p].at \in {"decide", "commit"} => req[p].user # u
  BY <1>2, <1>7 DEF Inv, RequestInv, Staged, Ready
<1>9. ~grown /\ ActiveRoot(u) /\ ~ActiveRoot(u)' =>
        AnotherActiveRoot(u) /\ \A p \in Requests \ {q} : ~Past(req[p])
  <2> SUFFICES ASSUME ~grown, ActiveRoot(u), ~ActiveRoot(u)'
               PROVE  AnotherActiveRoot(u) /\ \A p \in Requests \ {q} : ~Past(req[p])
    OBVIOUS
  <2>1. LosesRoot(r) /\ r.at = "commit"
    BY <1>2, <1>3 DEF Effect, Ready
  <2>2. Past(r)
    BY <2>1 DEF Past, LosesRoot
  <2> QED
    BY <1>1, <2>1, <2>2 DEF Inv, RootsInv, RootsOf
<1> DEFINE Q == {q}
<1>10. /\ Q \in SUBSET Requests /\ \A p \in Requests \ Q : req'[p] = req[p]
       /\ \A p \in Q : req'[p].at \in {"off", "lock", "revoke"} /\ ~Past(req'[p]) /\ Staged(req[p])'
  BY <1>4 DEF Past, Staged
<1>11. Inv /\ u \in Users /\ Bare(u)' /\ Sound(u)' /\ role'[u] # "unborn" /\ \A v \in Users \ {u} : Same(v)
  BY <1>3 DEF Effect
<1>12. /\ \A p \in Requests \ Q : req[p].at \in {"decide", "commit"} => req[p].user # u
       /\ \A p \in Requests \ Q : u \in req[p].held /\ ActiveRoot(u) => ActiveRoot(u)'
       /\ ~grown /\ ActiveRoot(u) /\ ~ActiveRoot(u)' =>
            AnotherActiveRoot(u) /\ \A p \in Requests \ Q : ~Past(req[p])
  BY <1>7, <1>8, <1>9
<1> HIDE DEF Q
<1> QED
  BY <1>5, <1>6, <1>10, <1>11, <1>12, AccountStep

-----------------------------------------------------------------------------
LEMMA NextInv == Inv /\ [AccountsNext]_accountVars => Inv'
<1> SUFFICES ASSUME Inv, [AccountsNext]_accountVars PROVE Inv'
  OBVIOUS
<1>1. ASSUME NEW q \in Requests, Handle(q) PROVE Inv'
  BY <1>1, BeginLockRootsStep, LockRootStep, LockRowStep, DecideStep, CommitStep, RevokeStep, FailStep
     DEF Handle
<1>2. ASSUME NEW q \in Requests, NEW u \in Users, Ask(q, u) PROVE Inv'
  BY <1>2, BeginPatchStep, BeginAboutStep, BeginLinkStep, BeginMintStep, BeginLoginStep, ProvisionStep
     DEF Ask
<1>3. ASSUME NEW u \in Users, NEW r \in Roles, CreateUser(u, r) PROVE Inv'
  BY <1>3, CreateStep
<1>4. ASSUME NEW u \in Users, NEW s \in Sessions, EndSession(u, s) PROVE Inv'
  BY <1>4, EndSessionStep
<1>5. ASSUME UNCHANGED accountVars PROVE Inv'
  <2>1. UNCHANGED <<role, active, ssoOnly, link, liveSessions, tokens, membership, req, grown>>
    BY <1>5 DEF accountVars, account, credentials
  <2>2. AccountsTypeOK' /\ RequestInv' /\ AccountInv'
    BY <2>1 DEF Inv, AccountsTypeOK, RequestInv, Staged, Decided, AccountInv, Bare, Sound, Linked, Exists, MayLoseRoot
  <2>3. RootsInv'
    BY <2>1 DEF Inv, RootsInv, RootsOf, Covers, Acquiring, Past, MayLoseRoot, LosesRoot, AnotherActiveRoot,
                ActiveRoots, ActiveRoot
  <2> QED
    BY <2>2, <2>3 DEF Inv
<1> QED
  BY <1>1, <1>2, <1>3, <1>4, <1>5 DEF AccountsNext

LEMMA Invariance == AccountsSpec => []Inv
<1>1. AccountsInit => Inv
  BY InitInv
<1>2. Inv /\ [AccountsNext]_accountVars => Inv'
  BY NextInv
<1> QED
  BY <1>1, <1>2, PTL DEF AccountsSpec

\* Every variable stays in its type, and no row is locked by two requests.
THEOREM TypeCorrect == AccountsSpec => []AccountsTypeOK
<1>1. Inv => AccountsTypeOK
  BY DEF Inv
<1> QED
  BY <1>1, Invariance, PTL

\* Whatever the requests and their order, somebody is left who can administer
\* the instance, unless a root was made while a removal was waiting.
THEOREM SomebodyAdministers == AccountsSpec => []ARootRemains
<1>1. Inv => ARootRemains
  BY DEF Inv, RootsInv, ARootRemains
<1> QED
  BY <1>1, Invariance, PTL

\* No promotion, link or sign-in makes a root whom an identity signs in.
THEOREM RootStaysLocal == AccountsSpec => []RootIsLocal
<1>1. Inv => RootIsLocal
  BY DEF Inv, AccountInv, Sound, RootIsLocal
<1> QED
  BY <1>1, Invariance, PTL

\* An administrator nobody else's identity provider can take away remains
\* (Accounts.RootsRemain).
THEOREM RootsDoRemain == AccountsSpec => []RootsRemain
<1>1. ARootRemains /\ RootIsLocal => RootsRemain
  BY DEF RootsRemain
<1> QED
  BY <1>1, SomebodyAdministers, RootStaysLocal, PTL

\* Unlinking ends what was opened through the identity, though requests that
\* were under way would open more of it.
THEOREM UnlinkingIsComplete == AccountsSpec => []LinkOutlivesNothing
<1>1. Inv => LinkOutlivesNothing
  BY DEF Inv, AccountInv, Sound, LinkOutlivesNothing
<1> QED
  BY <1>1, Invariance, PTL

\* Nobody is locked out of an account, and nobody but members has memberships.
THEOREM AccountsAreWhole == AccountsSpec => []AccountsWhole
<1>1. Inv => AccountsWhole
  BY DEF Inv, AccountInv, Sound, AccountsWhole, AlwaysAWayIn, MembersOnly
<1> QED
  BY <1>1, Invariance, PTL

-----------------------------------------------------------------------------
(* Who waits for whom.  Only a removal that has its snapshot of the roots  *)
(* waits while it holds anything, and only one of them holds a root.       *)

\* Of two removals that hold roots, the one whose root comes later has passed over a root there is.
LEMMA OneHolder ==
  ASSUME Inv, ~grown, NEW p \in Requests, NEW q \in Requests, p # q,
         Acquiring(req[p]), Acquiring(req[q]), req[p].held # {}
  PROVE  req[q].held = {}
<1> SUFFICES ASSUME NEW h \in req[p].held, NEW k \in req[q].held PROVE FALSE
  OBVIOUS
<1>1. /\ req[p].held \subseteq ActiveRoots /\ ActiveRoots \subseteq req[p].roots \cup req[p].held
      /\ \A u \in req[p].held, v \in req[p].roots : u < v
  BY DEF Inv, RootsInv, RootsOf, Covers
<1>2. /\ req[q].held \subseteq ActiveRoots /\ ActiveRoots \subseteq req[q].roots \cup req[q].held
      /\ \A u \in req[q].held, v \in req[q].roots : u < v
  BY DEF Inv, RootsInv, RootsOf, Covers
<1>3. req[p].held \cap req[q].held = {}
  BY Owned
<1>4. h \in req[q].roots /\ k \in req[p].roots
  BY <1>1, <1>2, <1>3
<1>5. h < k /\ k < h
  BY <1>1, <1>2, <1>4
<1>6. h \in Nat /\ k \in Nat
  BY <1>1, <1>2, UsersAssumption DEF ActiveRoots
<1> QED
  BY <1>5, <1>6

LEMMA WhoWaits ==
  ASSUME Inv, NEW p \in Requests, Wants(req[p]) # {}, req[p].held # {}
  PROVE  Acquiring(req[p])
<1>1. Staged(req[p])
  BY DEF Inv, RequestInv
<1>2. CASE req[p].at = "roots"
  BY <1>1, <1>2 DEF Staged, Acquiring
<1>3. CASE req[p].at = "lock" /\ Head(req[p].todo) = "row"
  <2>1. req[p].todo # <<"roots", "row">>
    <3> SUFFICES ASSUME req[p].todo = <<"roots", "row">> PROVE FALSE
      OBVIOUS
    <3>1. Head(req[p].todo) = "roots"
      BY LockLists
    <3> QED
      BY <3>1, <1>3
  <2> QED
    BY <2>1, <1>1, <1>3 DEF Staged, Acquiring
<1> QED
  BY <1>2, <1>3 DEF Wants

\* PostgreSQL never has a deadlock to break: roots in the order of their ids, then the account
\* (users.ts, "Lock order"), for any number of requests and unless a root was made meanwhile.
THEOREM NobodyWaitsForever == AccountsSpec => []NoDeadlock
<1>1. ASSUME Inv PROVE NoDeadlock
  <2> SUFFICES ASSUME ~grown, NEW stuck \in SUBSET Requests, stuck # {},
                      \A q \in stuck : \E p \in stuck : WaitsFor(q, p)
               PROVE  FALSE
    BY DEF NoDeadlock
  <2>1. ASSUME NEW q \in stuck, NEW p \in stuck, WaitsFor(q, p)
        PROVE  p # q /\ req[p].held # {} /\ Acquiring(req[p])
    <3>1. p # q /\ req[p].held # {}
      BY <2>1 DEF WaitsFor
    <3>2. Wants(req[p]) # {}
      BY DEF WaitsFor
    <3> QED
      BY <1>1, <3>1, <3>2, WhoWaits
  <2>2. PICK q \in stuck : TRUE
    OBVIOUS
  <2>3. PICK p1 \in stuck : WaitsFor(q, p1)
    OBVIOUS
  <2>4. PICK p2 \in stuck : WaitsFor(p1, p2)
    OBVIOUS
  <2> QED
    BY <1>1, <2>1, <2>3, <2>4, OneHolder
<1> QED
  BY <1>1, Invariance, PTL

-----------------------------------------------------------------------------
(***************************************************************************)
(* The credential of a source (SecretRefresh), however many runs, probes   *)
(* and callbacks there are and however many connections and pairs Notion   *)
(* has given out.  The argument:                                           *)
(*                                                                         *)
(*   PlacesInv  the lock is held by whoever is between its read of the row *)
(*              and its write, so at most one driver refreshes             *)
(*   FreshInv   a connection Notion has not made is nobody's               *)
(*   GrantInv   the one a callback brings is nobody else's yet             *)
(*   ReadInv    a driver whose ciphertext is still in the row has the pair *)
(*              of the row                                                 *)
(*   SavedInv   what is about to be saved is the newest pair of its        *)
(*              connection, unless the connection was withdrawn            *)
(*                                                                         *)
(* A step is first said to be what it changes; each part of the invariant  *)
(* follows from that.                                                      *)
(***************************************************************************)
\* Types.
Pairs == Connections \X (1..MaxRefreshes)
Tokens == Pairs \cup {NoTokens}
Held == {"refreshing", "saving"}
SecretRow == [here : {"not yet", "yes", "gone"}, secret : {"none", "token", "oauth"}, pair : Tokens,
              oauth : {0} \cup Connections]
Session == [at : {"off", "working", "waiting", "refreshing", "saving", "dead"}, pair : Tokens, met : BOOLEAN]
Flow == [at : {"off", "granted", "checked", "created"}, flow : {"none", "reconnect", "create"},
         connection : {0} \cup Connections]

ShapeInv ==
  /\ row \in SecretRow /\ driver \in [Drivers -> Session] /\ callback \in [Callbacks -> Flow]
  /\ lock \in Drivers \cup Callbacks \cup {NoHolder} /\ patch \in 0..NoPatch /\ pass \in BOOLEAN
  /\ read \subseteq Drivers \cup Callbacks \cup {Pass} /\ newest \in [Connections -> 0..Withdrawn]
  /\ replaced \subseteq Connections /\ stale \in BOOLEAN

PlacesInv ==
  /\ row.pair # NoTokens <=> row.secret = "oauth"
  /\ row.here # "yes" => row.secret = "none"
  /\ \A d \in Drivers : driver[d].pair = NoTokens <=> driver[d].at = "off"
  /\ \A d \in Drivers : driver[d].at \in Held <=> lock = d
  /\ \A k \in Callbacks : callback[k].at = "checked" <=> lock = k

\* Connection c is in nobody's hands: not in the row, not replaced, not a driver's.
Untaken(c) == row.pair[1] # c /\ c \notin replaced /\ \A d \in Drivers : driver[d].pair[1] # c

\* Connections Notion has not made yet.
FreshInv == \A c \in Connections : newest[c] = 0 => Untaken(c)

\* Connections that callbacks bring: each one's own, with its first pair.
GrantInv ==
  \A k \in Callbacks : callback[k].at # "off" =>
    LET c == callback[k].connection
    IN /\ c \in Connections /\ newest[c] \in {1, Withdrawn} /\ Untaken(c)
       /\ \A j \in Callbacks \ {k} : callback[j].at # "off" => callback[j].connection # c

\* A driver under the lock whose ciphertext nobody has overwritten.
ReadInv == \A d \in Drivers : driver[d].at \in Held /\ d \in read => row.pair = driver[d].pair

\* What a refresh is about to save.
SavedInv ==
  \A d \in Drivers : driver[d].at = "saving" =>
    /\ driver[d].pair[2] < MaxRefreshes
    /\ newest[driver[d].pair[1]] \in {driver[d].pair[2] + 1, Withdrawn}

SecretInv ==
  /\ ShapeInv /\ PlacesInv /\ FreshInv /\ GrantInv /\ ReadInv /\ SavedInv
  /\ TokenIsSpentOnce /\ StoredPairWorks
  /\ ReplacedStaysReplaced /\ OnlyOutsidersMeet /\ WorkspaceFollowsCredential

-----------------------------------------------------------------------------
(* Pairs of tokens.                                                        *)

LEMMA PairParts ==
  ASSUME NEW p \in Tokens
  PROVE  /\ p[1] \in {0} \cup Connections /\ p[2] \in 0..MaxRefreshes
         /\ p # NoTokens => p[1] \in Connections /\ p[2] \in 1..MaxRefreshes
         /\ p = NoTokens => p[1] = 0
         /\ p[1] = 0 => p = NoTokens
<1>1. CASE p = NoTokens
  BY <1>1, ConnectionsAssumption DEF NoTokens
<1>2. CASE p \in Pairs
  <2>1. PICK c \in Connections, n \in 1..MaxRefreshes : p = <<c, n>>
    BY <1>2 DEF Pairs
  <2>. QED  BY <2>1, ConnectionsAssumption DEF NoTokens, Connections
<1> QED  BY <1>1, <1>2 DEF Tokens

\* A pair is told by its parts.
LEMMA PairIsItsParts ==
  ASSUME NEW p \in Tokens, NEW q \in Tokens, p[1] = q[1], p[2] = q[2]
  PROVE  p = q
<1>1. CASE p = NoTokens \/ q = NoTokens
  BY <1>1, PairParts
<1>2. CASE p \in Pairs /\ q \in Pairs
  BY <1>2 DEF Pairs
<1> QED  BY <1>1, <1>2 DEF Tokens

LEMMA APair ==
  ASSUME NEW c \in Connections, NEW n \in 1..MaxRefreshes
  PROVE  /\ <<c, n>> \in Tokens /\ <<c, n>> # NoTokens
         /\ <<c, n>>[1] = c /\ <<c, n>>[2] = n
  BY DEF Tokens, Pairs, NoTokens, Connections

\* What is used of the bounds.
LEMMA Numbers ==
  /\ 0 \notin Connections /\ NoTokens \in Tokens /\ NoTokens[1] = 0 /\ NoTokens[2] = 0
  /\ Withdrawn # 0 /\ Withdrawn # 1 /\ 1 \in 0..Withdrawn /\ Withdrawn \in 0..Withdrawn /\ 1 \in 1..MaxRefreshes
  /\ \A n \in 0..MaxRefreshes : n # Withdrawn /\ n + 1 # 0
  /\ \A n \in 0..MaxRefreshes : n < MaxRefreshes => n + 1 \in 1..MaxRefreshes /\ n + 1 \in 0..Withdrawn
  BY ConnectionsAssumption DEF Connections, NoTokens, Withdrawn, Tokens

LEMMA Workspaces ==
  /\ 0 \in 0..NoPatch /\ NoPatch \in 0..NoPatch /\ Connections \subseteq 0..NoPatch
  /\ \A w \in 0..NoPatch : w # NoPatch => w \in {0} \cup Connections
  BY ConnectionsAssumption DEF Connections, NoPatch

\* The types of the parts of records.
LEMMA Parts ==
  ASSUME ShapeInv
  PROVE  /\ row.here \in {"not yet", "yes", "gone"} /\ row.secret \in {"none", "token", "oauth"}
         /\ row.pair \in Tokens /\ row.oauth \in {0} \cup Connections
         /\ \A d \in Drivers : /\ driver[d] \in Session /\ driver[d].pair \in Tokens /\ driver[d].met \in BOOLEAN
                               /\ driver[d].at \in {"off", "working", "waiting", "refreshing", "saving", "dead"}
         /\ \A k \in Callbacks : /\ callback[k] \in Flow /\ callback[k].connection \in {0} \cup Connections
                                 /\ callback[k].at \in {"off", "granted", "checked", "created"}
  BY DEF ShapeInv, SecretRow, Session, Flow

LEMMA SessionForms ==
  ASSUME ShapeInv, NEW d \in Drivers
  PROVE  /\ Off \in Session /\ Off.at = "off" /\ Off.pair = NoTokens
         /\ \A p \in Tokens : LET s == [Off EXCEPT !.at = "working", !.pair = p]
                              IN s \in Session /\ s.at = "working" /\ s.pair = p
         /\ \A at \in {"waiting", "saving", "dead"} :
              LET s == [driver[d] EXCEPT !.at = at]
              IN s \in Session /\ s.at = at /\ s.pair = driver[d].pair /\ s.met = driver[d].met
  BY Parts, Numbers DEF Session, Off

LEMMA OneSession ==
  ASSUME ShapeInv, NEW d \in Drivers, NEW s \in Session, driver' = [driver EXCEPT ![d] = s]
  PROVE  /\ driver' \in [Drivers -> Session] /\ driver'[d] = s
         /\ \A e \in Drivers \ {d} : driver'[e] = driver[e]
  BY DEF ShapeInv

LEMMA TypesFollow == SecretInv => SecretTypeOK
  BY Parts DEF SecretInv, ShapeInv, PlacesInv, Held, SecretTypeOK

LEMMA SafetyFollows == SecretInv => RefreshIsSafe /\ WritersAgree
  BY DEF SecretInv, RefreshIsSafe, WritersAgree

\* What most steps use of the invariant.
LEMMA Known ==
  ASSUME SecretInv
  PROVE  /\ row.pair \in Tokens /\ row.pair[1] \in {0} \cup Connections
         /\ row.pair # NoTokens <=> row.pair[1] # 0
         /\ row.pair # NoTokens => row.pair[1] \in Connections /\ row.pair[2] \in 1..MaxRefreshes
         /\ \A d \in Drivers :
              /\ driver[d].pair \in Tokens /\ driver[d].pair[1] \in {0} \cup Connections
              /\ driver[d].pair # NoTokens <=> driver[d].pair[1] # 0
              /\ driver[d].at # "off" => /\ driver[d].pair # NoTokens
                                         /\ driver[d].pair[1] \in Connections /\ driver[d].pair[2] \in 1..MaxRefreshes
         /\ \A c \in Connections : newest[c] \in 0..Withdrawn
         /\ lock \in Drivers => lock \notin Callbacks /\ lock # NoHolder
  BY Parts, PairParts, WritersAssumption DEF SecretInv, ShapeInv, PlacesInv

LEMMA BuildStep ==
  ASSUME SecretInv, NEW d \in Drivers, Build(d)
  PROVE  SecretInv'
<1>1. /\ driver[d].at = "off" /\ row.pair # NoTokens
      /\ driver'[d].at = "working" /\ driver'[d].pair = row.pair
      /\ \A e \in Drivers \ {d} : driver'[e] = driver[e]
      /\ driver' \in [Drivers -> Session]
      /\ UNCHANGED <<row, read, callback, lock, patch, pass, newest, lost, replaced, stale>>
  BY Parts DEF SecretInv, ShapeInv, Session, others, notion, ghosts, Build, Off
<1>a. ShapeInv'
  BY <1>1, Known DEF SecretInv, ShapeInv
<1>b. PlacesInv'
  BY <1>1, Known DEF SecretInv, PlacesInv, Held
<1>c. FreshInv'
  BY <1>1, Known DEF SecretInv, FreshInv, Untaken
<1>d. GrantInv'
  BY <1>1, Known DEF SecretInv, GrantInv, Untaken
<1>e. ReadInv'
  BY <1>1, Known DEF SecretInv, ReadInv, Held
<1>f. SavedInv'
  BY <1>1, Known DEF SecretInv, SavedInv
<1>g. TokenIsSpentOnce'
  BY <1>1, Known DEF SecretInv, TokenIsSpentOnce
<1>h. StoredPairWorks'
  BY <1>1, Known DEF SecretInv, StoredPairWorks
<1>i. ReplacedStaysReplaced'
  BY <1>1, Known DEF SecretInv, ReplacedStaysReplaced
<1>j. OnlyOutsidersMeet'
  BY <1>1, Known DEF SecretInv, OnlyOutsidersMeet, Unchanged, Here, Held
<1>k. WorkspaceFollowsCredential'
  BY <1>1, Known DEF SecretInv, WorkspaceFollowsCredential
<1> QED  BY <1>a, <1>b, <1>c, <1>d, <1>e, <1>f, <1>g, <1>h, <1>i, <1>j, <1>k DEF SecretInv

LEMMA Meet401Step ==
  ASSUME SecretInv, NEW d \in Drivers, Meet401(d)
  PROVE  SecretInv'
<1>1. /\ driver[d].at = "working"
      /\ driver'[d].at = "waiting" /\ driver'[d].pair = driver[d].pair
      /\ \A e \in Drivers \ {d} : driver'[e] = driver[e]
      /\ driver' \in [Drivers -> Session]
      /\ UNCHANGED <<row, read, callback, lock, patch, pass, newest, lost, replaced, stale>>
  BY Parts DEF SecretInv, ShapeInv, Session, others, notion, ghosts, Meet401
<1>a. ShapeInv'
  BY <1>1, Known DEF SecretInv, ShapeInv
<1>b. PlacesInv'
  BY <1>1, Known DEF SecretInv, PlacesInv, Held
<1>c. FreshInv'
  BY <1>1, Known DEF SecretInv, FreshInv, Untaken
<1>d. GrantInv'
  BY <1>1, Known DEF SecretInv, GrantInv, Untaken
<1>e. ReadInv'
  BY <1>1, Known DEF SecretInv, ReadInv, Held
<1>f. SavedInv'
  BY <1>1, Known DEF SecretInv, SavedInv
<1>g. TokenIsSpentOnce'
  BY <1>1, Known DEF SecretInv, TokenIsSpentOnce
<1>h. StoredPairWorks'
  BY <1>1, Known DEF SecretInv, StoredPairWorks
<1>i. ReplacedStaysReplaced'
  BY <1>1, Known DEF SecretInv, ReplacedStaysReplaced
<1>j. OnlyOutsidersMeet'
  BY <1>1, Known DEF SecretInv, OnlyOutsidersMeet, Unchanged, Here, Held
<1>k. WorkspaceFollowsCredential'
  BY <1>1, Known DEF SecretInv, WorkspaceFollowsCredential
<1> QED  BY <1>a, <1>b, <1>c, <1>d, <1>e, <1>f, <1>g, <1>h, <1>i, <1>j, <1>k DEF SecretInv

LEMMA EndDriverStep ==
  ASSUME SecretInv, NEW d \in Drivers, EndDriver(d)
  PROVE  SecretInv'
<1>1. /\ driver[d].at \in {"working", "dead"}
      /\ driver'[d].at = "off" /\ driver'[d].pair = NoTokens
      /\ \A e \in Drivers \ {d} : driver'[e] = driver[e]
      /\ driver' \in [Drivers -> Session]
      /\ UNCHANGED <<row, read, callback, lock, patch, pass, newest, lost, replaced, stale>>
  BY Parts DEF SecretInv, ShapeInv, Session, others, notion, ghosts, EndDriver, Off, Tokens
<1>a. ShapeInv'
  BY <1>1, Known, Numbers DEF SecretInv, ShapeInv
<1>b. PlacesInv'
  BY <1>1, Known, Numbers DEF SecretInv, PlacesInv, Held
<1>c. FreshInv'
  BY <1>1, Known, Numbers DEF SecretInv, FreshInv, Untaken
<1>d. GrantInv'
  BY <1>1, Known, Numbers DEF SecretInv, GrantInv, Untaken
<1>e. ReadInv'
  BY <1>1, Known, Numbers DEF SecretInv, ReadInv, Held
<1>f. SavedInv'
  BY <1>1, Known, Numbers DEF SecretInv, SavedInv
<1>g. TokenIsSpentOnce'
  BY <1>1, Known, Numbers DEF SecretInv, TokenIsSpentOnce
<1>h. StoredPairWorks'
  BY <1>1, Known, Numbers DEF SecretInv, StoredPairWorks
<1>i. ReplacedStaysReplaced'
  BY <1>1, Known, Numbers DEF SecretInv, ReplacedStaysReplaced
<1>j. OnlyOutsidersMeet'
  BY <1>1, Known, Numbers DEF SecretInv, OnlyOutsidersMeet, Unchanged, Here, Held
<1>k. WorkspaceFollowsCredential'
  BY <1>1, Known, Numbers DEF SecretInv, WorkspaceFollowsCredential
<1> QED  BY <1>a, <1>b, <1>c, <1>d, <1>e, <1>f, <1>g, <1>h, <1>i, <1>j, <1>k DEF SecretInv

(* What comes of a look-up: the session's end, another pair, or the lock. *)

LEMMA LookUpElsewhere ==
  ASSUME SecretInv, NEW d \in Drivers,
         driver[d].at = "waiting",
         /\ \/ driver'[d].at = "dead" /\ driver'[d].pair = driver[d].pair
            \/ driver'[d].at = "working" /\ driver'[d].pair = row.pair /\ row.pair # NoTokens
         /\ \A e \in Drivers \ {d} : driver'[e] = driver[e]
         /\ driver' \in [Drivers -> Session]
         /\ UNCHANGED <<row, read, callback, lock, patch, pass, newest, lost, replaced, stale>>
  PROVE  SecretInv'
<1>a. ShapeInv'
  BY Known DEF SecretInv, ShapeInv
<1>b. PlacesInv'
  BY Known DEF SecretInv, PlacesInv, Held
<1>c. FreshInv'
  BY Known DEF SecretInv, FreshInv, Untaken
<1>d. GrantInv'
  BY Known DEF SecretInv, GrantInv, Untaken
<1>e. ReadInv'
  BY Known DEF SecretInv, ReadInv, Held
<1>f. SavedInv'
  BY Known DEF SecretInv, SavedInv
<1>g. TokenIsSpentOnce'
  BY Known DEF SecretInv, TokenIsSpentOnce
<1>h. StoredPairWorks'
  BY Known DEF SecretInv, StoredPairWorks
<1>i. ReplacedStaysReplaced'
  BY Known DEF SecretInv, ReplacedStaysReplaced
<1>j. OnlyOutsidersMeet'
  BY Known DEF SecretInv, OnlyOutsidersMeet, Unchanged, Here, Held
<1>k. WorkspaceFollowsCredential'
  BY Known DEF SecretInv, WorkspaceFollowsCredential
<1> QED  BY <1>a, <1>b, <1>c, <1>d, <1>e, <1>f, <1>g, <1>h, <1>i, <1>j, <1>k DEF SecretInv

LEMMA LookUpLocked ==
  ASSUME SecretInv, NEW d \in Drivers,
         driver[d].at = "waiting", lock = NoHolder, row.pair = driver[d].pair,
         /\ driver'[d].at = "refreshing" /\ driver'[d].pair = driver[d].pair
         /\ \A e \in Drivers \ {d} : driver'[e] = driver[e]
         /\ driver' \in [Drivers -> Session]
         /\ lock' = d /\ read' = read \cup {d}
         /\ UNCHANGED <<row, callback, patch, pass, newest, lost, replaced, stale>>
  PROVE  SecretInv'
<1>a. ShapeInv'
  BY Known DEF SecretInv, ShapeInv
<1>b. PlacesInv'
  BY Known, WritersAssumption DEF SecretInv, PlacesInv, Held
<1>c. FreshInv'
  BY Known DEF SecretInv, FreshInv, Untaken
<1>d. GrantInv'
  BY Known DEF SecretInv, GrantInv, Untaken
<1>e. ReadInv'
  BY Known DEF SecretInv, ReadInv, Held, PlacesInv
<1>f. SavedInv'
  BY Known DEF SecretInv, SavedInv, PlacesInv, Held
<1>g. TokenIsSpentOnce'
  BY Known DEF SecretInv, TokenIsSpentOnce, StoredPairWorks, PlacesInv, Held
<1>h. StoredPairWorks'
  BY Known DEF SecretInv, StoredPairWorks, PlacesInv, Held
<1>i. ReplacedStaysReplaced'
  BY Known DEF SecretInv, ReplacedStaysReplaced
<1>j. OnlyOutsidersMeet'
  BY Known DEF SecretInv, OnlyOutsidersMeet, Unchanged, Here, Held, PlacesInv
<1>k. WorkspaceFollowsCredential'
  BY Known DEF SecretInv, WorkspaceFollowsCredential
<1> QED  BY <1>a, <1>b, <1>c, <1>d, <1>e, <1>f, <1>g, <1>h, <1>i, <1>j, <1>k DEF SecretInv

LEMMA LookUpStep ==
  ASSUME SecretInv, NEW d \in Drivers, LookUp(d)
  PROVE  SecretInv'
<1>. USE DEF LookUp, Locked, others, notion, ghosts
<1>1. CASE row.pair = driver[d].pair /\ Locked(d)
  BY <1>1, LookUpLocked, Parts DEF SecretInv, ShapeInv, Session
<1>2. CASE row.pair = NoTokens /\ driver' = [driver EXCEPT ![d].at = "dead"] /\ UNCHANGED <<lock, read>>
  <2>1. driver' = [driver EXCEPT ![d] = [driver[d] EXCEPT !.at = "dead"]]
    BY <1>2
  <2>2. /\ driver'[d].at = "dead" /\ driver'[d].pair = driver[d].pair
        /\ driver' \in [Drivers -> Session] /\ \A e \in Drivers \ {d} : driver'[e] = driver[e]
    BY <2>1, SessionForms, OneSession, Zenon DEF SecretInv
  <2>. QED  BY <1>2, <2>2, LookUpElsewhere
<1>3. CASE /\ row.pair \notin {NoTokens, driver[d].pair} /\ UNCHANGED <<lock, read>>
           /\ driver' = [driver EXCEPT ![d].at = "working", ![d].pair = row.pair]
  <2>1. /\ driver'[d].at = "working" /\ driver'[d].pair = row.pair
        /\ driver' \in [Drivers -> Session] /\ \A e \in Drivers \ {d} : driver'[e] = driver[e]
    BY <1>3, Parts DEF SecretInv, ShapeInv, Session
  <2>. QED  BY <1>3, <2>1, LookUpElsewhere
<1> QED  BY <1>1, <1>2, <1>3

(* A request for new tokens: answered, answered and lost, refused, or not answered. *)

LEMMA Refreshed ==
  ASSUME SecretInv, NEW d \in Drivers,
         driver[d].at = "refreshing", driver[d].pair[2] = newest[driver[d].pair[1]], driver[d].pair[2] < MaxRefreshes,
         /\ newest' = [newest EXCEPT ![driver[d].pair[1]] = driver[d].pair[2] + 1]
         /\ driver'[d].at = "saving" /\ driver'[d].pair = driver[d].pair /\ driver'[d].met = driver[d].met
         /\ \A e \in Drivers \ {d} : driver'[e] = driver[e]
         /\ driver' \in [Drivers -> Session]
         /\ UNCHANGED <<row, read, callback, lock, patch, pass, lost, replaced, stale>>
  PROVE  SecretInv'
<1>a. ShapeInv'
  BY Known, Numbers DEF SecretInv, ShapeInv
<1>b. PlacesInv'
  BY Known, Numbers DEF SecretInv, PlacesInv, Held
<1>c. FreshInv'
  BY Known, Numbers DEF SecretInv, FreshInv, Untaken
<1>d. GrantInv'
  BY Known, Numbers DEF SecretInv, GrantInv, Untaken
<1>e. ReadInv'
  BY Known, Numbers DEF SecretInv, ReadInv, Held
<1>f. SavedInv'
  BY Known, Numbers DEF SecretInv, SavedInv, ShapeInv, PlacesInv, Held
<1>g. TokenIsSpentOnce'
  BY Known, Numbers DEF SecretInv, TokenIsSpentOnce, PlacesInv, Held
<1>h. StoredPairWorks'
  <2>. SUFFICES ASSUME row.pair # NoTokens, row.pair[1] \notin lost
                PROVE  \/ newest'[row.pair[1]] \in {row.pair[2], Withdrawn}
                       \/ driver'[d].at = "saving" /\ driver'[d].pair = row.pair
    BY DEF StoredPairWorks
  <2>1. newest[row.pair[1]] \in {row.pair[2], Withdrawn}
    BY Known DEF SecretInv, StoredPairWorks, PlacesInv, Held
  <2>2. CASE row.pair[1] = driver[d].pair[1]
    <3>1. row.pair[2] = driver[d].pair[2]
      BY <2>1, <2>2, Known, Numbers
    <3>. QED  BY <3>1, <2>2, Known, PairIsItsParts
  <2>3. CASE row.pair[1] # driver[d].pair[1]
    BY <2>1, <2>3, Known DEF SecretInv, ShapeInv
  <2>. QED  BY <2>2, <2>3

<1>i. ReplacedStaysReplaced'
  BY Known, Numbers DEF SecretInv, ReplacedStaysReplaced
<1>j. OnlyOutsidersMeet'
  BY Known, Numbers DEF SecretInv, OnlyOutsidersMeet, Unchanged, Here, Held
<1>k. WorkspaceFollowsCredential'
  BY Known, Numbers DEF SecretInv, WorkspaceFollowsCredential
<1> QED  BY <1>a, <1>b, <1>c, <1>d, <1>e, <1>f, <1>g, <1>h, <1>i, <1>j, <1>k DEF SecretInv

LEMMA RefreshLost ==
  ASSUME SecretInv, NEW d \in Drivers,
         driver[d].at = "refreshing", driver[d].pair[2] = newest[driver[d].pair[1]], driver[d].pair[2] < MaxRefreshes,
         /\ newest' = [newest EXCEPT ![driver[d].pair[1]] = driver[d].pair[2] + 1]
         /\ driver'[d].at = "off" /\ driver'[d].pair = NoTokens
         /\ \A e \in Drivers \ {d} : driver'[e] = driver[e]
         /\ driver' \in [Drivers -> Session]
         /\ lock' = NoHolder /\ read' = read \ {d}
         /\ lost' = lost \cup {driver[d].pair[1]}
         /\ UNCHANGED <<row, callback, patch, pass, replaced, stale>>
  PROVE  SecretInv'
<1>a. ShapeInv'
  BY Known, Numbers DEF SecretInv, ShapeInv
<1>b. PlacesInv'
  BY Known, Numbers, WritersAssumption DEF SecretInv, PlacesInv, Held
<1>c. FreshInv'
  BY Known, Numbers DEF SecretInv, FreshInv, Untaken
<1>d. GrantInv'
  BY Known, Numbers DEF SecretInv, GrantInv, Untaken
<1>e. ReadInv'
  BY Known, Numbers DEF SecretInv, ReadInv, Held
<1>f. SavedInv'
  BY Known, Numbers DEF SecretInv, SavedInv, PlacesInv, Held
<1>g. TokenIsSpentOnce'
  BY Known, Numbers DEF SecretInv, TokenIsSpentOnce, PlacesInv, Held
<1>h. StoredPairWorks'
  BY Known, Numbers DEF SecretInv, StoredPairWorks, PlacesInv, Held
<1>i. ReplacedStaysReplaced'
  BY Known, Numbers DEF SecretInv, ReplacedStaysReplaced
<1>j. OnlyOutsidersMeet'
  BY Known DEF SecretInv, OnlyOutsidersMeet, Unchanged, Here, Held, PlacesInv
<1>k. WorkspaceFollowsCredential'
  BY Known, Numbers DEF SecretInv, WorkspaceFollowsCredential
<1> QED  BY <1>a, <1>b, <1>c, <1>d, <1>e, <1>f, <1>g, <1>h, <1>i, <1>j, <1>k DEF SecretInv

LEMMA RefreshEnds ==
  ASSUME SecretInv, NEW d \in Drivers,
         driver[d].at = "refreshing",
         /\ \/ driver'[d].at = "dead" /\ driver'[d].pair = driver[d].pair
            \/ driver'[d].at = "off" /\ driver'[d].pair = NoTokens
         /\ \A e \in Drivers \ {d} : driver'[e] = driver[e]
         /\ driver' \in [Drivers -> Session]
         /\ lock' = NoHolder /\ read' = read \ {d}
         /\ UNCHANGED <<row, callback, patch, pass, newest, lost, replaced, stale>>
  PROVE  SecretInv'
<1>a. ShapeInv'
  BY Known, Numbers DEF SecretInv, ShapeInv
<1>b. PlacesInv'
  BY Known, Numbers, WritersAssumption DEF SecretInv, PlacesInv, Held
<1>c. FreshInv'
  BY Known, Numbers DEF SecretInv, FreshInv, Untaken
<1>d. GrantInv'
  BY Known, Numbers DEF SecretInv, GrantInv, Untaken
<1>e. ReadInv'
  BY Known, Numbers DEF SecretInv, ReadInv, Held
<1>f. SavedInv'
  BY Known, Numbers DEF SecretInv, SavedInv
<1>g. TokenIsSpentOnce'
  BY Known, Numbers DEF SecretInv, TokenIsSpentOnce
<1>h. StoredPairWorks'
  BY Known, Numbers DEF SecretInv, StoredPairWorks
<1>i. ReplacedStaysReplaced'
  BY Known, Numbers DEF SecretInv, ReplacedStaysReplaced
<1>j. OnlyOutsidersMeet'
  BY Known DEF SecretInv, OnlyOutsidersMeet, Unchanged, Here, Held, PlacesInv
<1>k. WorkspaceFollowsCredential'
  BY Known, Numbers DEF SecretInv, WorkspaceFollowsCredential
<1> QED  BY <1>a, <1>b, <1>c, <1>d, <1>e, <1>f, <1>g, <1>h, <1>i, <1>j, <1>k DEF SecretInv

LEMMA RefreshPairStep ==
  ASSUME SecretInv, NEW d \in Drivers, RefreshPair(d)
  PROVE  SecretInv'
<1>. DEFINE c == driver[d].pair[1]
            n == driver[d].pair[2]
<1>0. ShapeInv
  BY DEF SecretInv
<1>1. driver[d].at = "refreshing" /\ UNCHANGED <<row, callback, patch, pass, replaced, stale>>
  BY DEF RefreshPair, others
<1>2. CASE /\ n = newest[c] /\ n < MaxRefreshes /\ newest' = [newest EXCEPT ![c] = n + 1]
           /\ driver' = [driver EXCEPT ![d].at = "saving"] /\ UNCHANGED <<read, lock, lost>>
  <2>1. driver' = [driver EXCEPT ![d] = [driver[d] EXCEPT !.at = "saving"]]
    BY <1>2
  <2>2. /\ driver'[d].at = "saving" /\ driver'[d].pair = driver[d].pair /\ driver'[d].met = driver[d].met
        /\ driver' \in [Drivers -> Session] /\ \A e \in Drivers \ {d} : driver'[e] = driver[e]
    BY <1>0, <2>1, SessionForms, OneSession, Zenon
  <2>. QED  BY <1>1, <1>2, <2>2, Refreshed
<1>3. CASE /\ n = newest[c] /\ n < MaxRefreshes /\ newest' = [newest EXCEPT ![c] = n + 1]
           /\ LetGo(d, Off) /\ read' = read \ {d} /\ lost' = lost \cup {c}
  <2>1. /\ driver'[d].at = "off" /\ driver'[d].pair = NoTokens
        /\ driver' \in [Drivers -> Session] /\ \A e \in Drivers \ {d} : driver'[e] = driver[e]
    BY <1>0, <1>3, SessionForms, OneSession, Zenon DEF LetGo
  <2>. QED  BY <1>1, <1>3, <2>1, RefreshLost DEF LetGo
<1>4. CASE /\ LetGo(d, [driver[d] EXCEPT !.at = "dead"]) \/ LetGo(d, Off)
           /\ read' = read \ {d} /\ UNCHANGED <<notion, lost>>
  <2>1. PICK s \in Session : /\ LetGo(d, s)
                             /\ \/ s.at = "dead" /\ s.pair = driver[d].pair
                                \/ s.at = "off" /\ s.pair = NoTokens
    BY <1>0, <1>4, SessionForms
  <2>2. /\ driver'[d] = s /\ lock' = NoHolder
        /\ driver' \in [Drivers -> Session] /\ \A e \in Drivers \ {d} : driver'[e] = driver[e]
    BY <1>0, <2>1, OneSession, Zenon DEF LetGo
  <2>. QED  BY <1>1, <1>4, <2>1, <2>2, RefreshEnds DEF notion
<1> QED  BY <1>2, <1>3, <1>4 DEF RefreshPair

(* The compare-and-swap: done, and known of or not; or not done. *)

LEMMA Saved ==
  ASSUME SecretInv, NEW d \in Drivers,
         driver[d].at = "saving", d \in read, Here,
         /\ row'.here = row.here /\ row'.secret = "oauth" /\ row'.oauth = row.oauth /\ row' \in SecretRow
         /\ row'.pair \in Tokens /\ row'.pair[1] = driver[d].pair[1] /\ row'.pair[2] = driver[d].pair[2] + 1
         /\ \/ driver'[d].at = "dead" /\ driver'[d].pair = driver[d].pair
            \/ driver'[d].at = "working" /\ driver'[d].pair = row'.pair
         /\ \A e \in Drivers \ {d} : driver'[e] = driver[e]
         /\ driver' \in [Drivers -> Session]
         /\ lock' = NoHolder /\ read' = {} /\ replaced' = replaced \cup ({row.pair[1]} \ {0, driver[d].pair[1]})
         /\ UNCHANGED <<callback, patch, pass, newest, lost, stale>>
  PROVE  SecretInv'
<1>a. ShapeInv'
  BY Known, Numbers DEF SecretInv, ShapeInv, ReadInv, Held
<1>b. PlacesInv'
  BY Known, WritersAssumption, PairParts DEF SecretInv, PlacesInv, Held, Here
<1>c. FreshInv'
  BY Known, Numbers DEF SecretInv, FreshInv, Untaken, ReadInv, Held
<1>d. GrantInv'
  BY Known, Numbers DEF SecretInv, GrantInv, Untaken, ReadInv, Held
<1>e. ReadInv'
  BY Known, Numbers DEF SecretInv, ReadInv, Held
<1>f. SavedInv'
  BY Known, Numbers DEF SecretInv, SavedInv, PlacesInv, Held
<1>g. TokenIsSpentOnce'
  BY Known, Numbers DEF SecretInv, TokenIsSpentOnce, PlacesInv, Held
<1>h. StoredPairWorks'
  BY Known, Numbers DEF SecretInv, StoredPairWorks, PlacesInv, Held, SavedInv, Untaken
<1>i. ReplacedStaysReplaced'
  BY Known, Numbers DEF SecretInv, ReplacedStaysReplaced, ReadInv, Held
<1>j. OnlyOutsidersMeet'
  BY Known DEF SecretInv, OnlyOutsidersMeet, Unchanged, Here, Held, PlacesInv
<1>k. WorkspaceFollowsCredential'
  BY Known DEF SecretInv, WorkspaceFollowsCredential, ReadInv, Held, PlacesInv
<1> QED  BY <1>a, <1>b, <1>c, <1>d, <1>e, <1>f, <1>g, <1>h, <1>i, <1>j, <1>k DEF SecretInv

LEMMA NotSaved ==
  ASSUME SecretInv, NEW d \in Drivers,
         driver[d].at = "saving",
         /\ driver'[d].at = "dead" /\ driver'[d].pair = driver[d].pair
         /\ \A e \in Drivers \ {d} : driver'[e] = driver[e]
         /\ driver' \in [Drivers -> Session]
         /\ lock' = NoHolder /\ read' = read \ {d}
         /\ lost' = lost \cup {driver[d].pair[1]}
         /\ UNCHANGED <<row, callback, patch, pass, newest, replaced, stale>>
  PROVE  SecretInv'
<1>a. ShapeInv'
  BY Known DEF SecretInv, ShapeInv
<1>b. PlacesInv'
  BY Known, WritersAssumption DEF SecretInv, PlacesInv, Held
<1>c. FreshInv'
  BY Known DEF SecretInv, FreshInv, Untaken
<1>d. GrantInv'
  BY Known DEF SecretInv, GrantInv, Untaken
<1>e. ReadInv'
  BY Known DEF SecretInv, ReadInv, Held
<1>f. SavedInv'
  BY Known DEF SecretInv, SavedInv
<1>g. TokenIsSpentOnce'
  BY Known DEF SecretInv, TokenIsSpentOnce, PlacesInv, Held
<1>h. StoredPairWorks'
  BY Known DEF SecretInv, StoredPairWorks, PlacesInv, Held
<1>i. ReplacedStaysReplaced'
  BY Known DEF SecretInv, ReplacedStaysReplaced
<1>j. OnlyOutsidersMeet'
  BY Known DEF SecretInv, OnlyOutsidersMeet, Unchanged, Here, Held, PlacesInv
<1>k. WorkspaceFollowsCredential'
  BY Known DEF SecretInv, WorkspaceFollowsCredential
<1> QED  BY <1>a, <1>b, <1>c, <1>d, <1>e, <1>f, <1>g, <1>h, <1>i, <1>j, <1>k DEF SecretInv

LEMMA SaveStep ==
  ASSUME SecretInv, NEW d \in Drivers, Save(d)
  PROVE  SecretInv'
<1>. DEFINE next == Renewed(driver[d].pair)
<1>1. driver[d].at = "saving" /\ UNCHANGED <<callback, patch, pass, newest, stale>>
  BY DEF Save, others, notion
<1>2. next \in Tokens /\ next # NoTokens /\ next[1] = driver[d].pair[1] /\ next[2] = driver[d].pair[2] + 1
  BY <1>1, Known, Numbers, APair DEF Renewed, SecretInv, SavedInv
<1>3. CASE Unchanged(d) /\ Write(WithPair(next)) /\ GivesWayTo(driver[d].pair[1])
           /\ (LetGo(d, [Off EXCEPT !.at = "working", !.pair = next]) \/ LetGo(d, [driver[d] EXCEPT !.at = "dead"]))
           /\ UNCHANGED lost
  <2>1. /\ row'.here = row.here /\ row'.secret = "oauth" /\ row'.oauth = row.oauth /\ row'.pair = next
        /\ row' \in SecretRow /\ read' = {}
    BY <1>2, <1>3 DEF Write, WithPair, SecretInv, ShapeInv, SecretRow
  <2>0. PICK s \in Session : /\ LetGo(d, s)
                             /\ \/ s.at = "dead" /\ s.pair = driver[d].pair
                                \/ s.at = "working" /\ s.pair = next
    BY <1>2, <1>3, SessionForms DEF SecretInv
  <2>2. /\ driver'[d] = s
        /\ driver' \in [Drivers -> Session] /\ \A e \in Drivers \ {d} : driver'[e] = driver[e]
    BY <2>0, OneSession, Zenon DEF LetGo, SecretInv
  <2>3. /\ d \in read /\ Here /\ lock' = NoHolder
        /\ replaced' = replaced \cup ({row.pair[1]} \ {0, driver[d].pair[1]})
    BY <1>3 DEF Unchanged, LetGo, GivesWayTo
  <2>. QED  BY <1>1, <1>2, <1>3, <2>0, <2>1, <2>2, <2>3, Saved
<1>4. CASE LetGo(d, [driver[d] EXCEPT !.at = "dead"]) /\ read' = read \ {d}
           /\ lost' = lost \cup {driver[d].pair[1]} /\ UNCHANGED <<row, replaced>>
  <2>1. /\ driver'[d].at = "dead" /\ driver'[d].pair = driver[d].pair /\ lock' = NoHolder
        /\ \A e \in Drivers \ {d} : driver'[e] = driver[e]
        /\ driver' \in [Drivers -> Session]
    BY <1>4, Parts DEF LetGo, SecretInv, ShapeInv, Session
  <2>. QED  BY <1>1, <1>4, <2>1, NotSaved
<1> QED  BY <1>3, <1>4 DEF Save

-----------------------------------------------------------------------------
(* Callbacks.                                                              *)

LEMMA FlowForms ==
  ASSUME ShapeInv, NEW k \in Callbacks
  PROVE  /\ NoFlow \in Flow /\ NoFlow.at = "off"
         /\ \A at \in {"checked", "created"} :
              LET f == [callback[k] EXCEPT !.at = at]
              IN f \in Flow /\ f.at = at /\ f.connection = callback[k].connection
  BY Parts, Numbers DEF Flow, NoFlow

LEMMA OneFlow ==
  ASSUME ShapeInv, NEW k \in Callbacks, NEW f \in Flow, callback' = [callback EXCEPT ![k] = f]
  PROVE  /\ callback' \in [Callbacks -> Flow] /\ callback'[k] = f
         /\ \A j \in Callbacks \ {k} : callback'[j] = callback[j]
  BY DEF ShapeInv

LEMMA Authorised ==
  ASSUME SecretInv, NEW k \in Callbacks, NEW c \in Connections,
         callback[k].at = "off", newest[c] = 0,
         /\ newest' = [newest EXCEPT ![c] = 1]
         /\ callback'[k].at = "granted" /\ callback'[k].connection = c
         /\ \A j \in Callbacks \ {k} : callback'[j] = callback[j]
         /\ callback' \in [Callbacks -> Flow]
         /\ UNCHANGED <<row, read, driver, lock, patch, pass, lost, replaced, stale>>
  PROVE  SecretInv'
<1>a. ShapeInv'
  BY Known, Numbers DEF SecretInv, ShapeInv
<1>b. PlacesInv'
  BY Known, Numbers DEF SecretInv, PlacesInv, Held, FreshInv, Untaken
<1>c. FreshInv'
  BY Known, Numbers DEF SecretInv, FreshInv, Untaken, ShapeInv
<1>d. GrantInv'
  BY Known, Numbers DEF SecretInv, GrantInv, Untaken, FreshInv, ShapeInv
<1>e. ReadInv'
  BY Known, Numbers DEF SecretInv, ReadInv, Held, FreshInv, Untaken
<1>f. SavedInv'
  BY Known, Numbers DEF SecretInv, SavedInv, FreshInv, Untaken, ShapeInv
<1>g. TokenIsSpentOnce'
  BY Known, Numbers DEF SecretInv, TokenIsSpentOnce, FreshInv, Untaken, ShapeInv
<1>h. StoredPairWorks'
  BY Known, Numbers DEF SecretInv, StoredPairWorks, FreshInv, Untaken, ShapeInv
<1>i. ReplacedStaysReplaced'
  BY Known, Numbers DEF SecretInv, ReplacedStaysReplaced, FreshInv, Untaken
<1>j. OnlyOutsidersMeet'
  BY Known, Numbers DEF SecretInv, OnlyOutsidersMeet, Unchanged, Here, Held, FreshInv, Untaken
<1>k. WorkspaceFollowsCredential'
  BY Known, Numbers DEF SecretInv, WorkspaceFollowsCredential, FreshInv, Untaken
<1> QED  BY <1>a, <1>b, <1>c, <1>d, <1>e, <1>f, <1>g, <1>h, <1>i, <1>j, <1>k DEF SecretInv

LEMMA AuthoriseStep ==
  ASSUME SecretInv, NEW k \in Callbacks, Authorise(k)
  PROVE  SecretInv'
<1>1. PICK c \in Connections, flow \in {"reconnect", "create"} :
        /\ newest[c] = 0 /\ newest' = [newest EXCEPT ![c] = 1]
        /\ callback' = [callback EXCEPT ![k] = [at |-> "granted", flow |-> flow, connection |-> c]]
  BY DEF Authorise
<1>. DEFINE f == [at |-> "granted", flow |-> flow, connection |-> c]
<1>2. f \in Flow /\ f.at = "granted" /\ f.connection = c
  BY DEF Flow
<1>3. /\ callback'[k] = f /\ callback' \in [Callbacks -> Flow]
      /\ \A j \in Callbacks \ {k} : callback'[j] = callback[j]
  BY <1>1, <1>2, OneFlow, Zenon DEF SecretInv
<1> QED  BY <1>1, <1>2, <1>3, Authorised DEF Authorise, ghosts

LEMMA ReconnectBegun ==
  ASSUME SecretInv, NEW k \in Callbacks,
         callback[k].at = "granted", Here, lock = NoHolder,
         /\ callback'[k].at = "checked" /\ callback'[k].connection = callback[k].connection
         /\ \A j \in Callbacks \ {k} : callback'[j] = callback[j]
         /\ callback' \in [Callbacks -> Flow]
         /\ lock' = k /\ read' = read \cup {k}
         /\ UNCHANGED <<row, driver, patch, pass, newest, lost, replaced, stale>>
  PROVE  SecretInv'
<1>a. ShapeInv'
  BY Known, WritersAssumption DEF SecretInv, ShapeInv
<1>b. PlacesInv'
  BY Known, WritersAssumption DEF SecretInv, PlacesInv, Held
<1>c. FreshInv'
  BY Known, WritersAssumption DEF SecretInv, FreshInv, Untaken
<1>d. GrantInv'
  BY Known, WritersAssumption DEF SecretInv, GrantInv, Untaken
<1>e. ReadInv'
  BY Known, WritersAssumption DEF SecretInv, ReadInv, Held
<1>f. SavedInv'
  BY Known, WritersAssumption DEF SecretInv, SavedInv
<1>g. TokenIsSpentOnce'
  BY Known, WritersAssumption DEF SecretInv, TokenIsSpentOnce
<1>h. StoredPairWorks'
  BY Known, WritersAssumption DEF SecretInv, StoredPairWorks
<1>i. ReplacedStaysReplaced'
  BY Known, WritersAssumption DEF SecretInv, ReplacedStaysReplaced
<1>j. OnlyOutsidersMeet'
  BY Known, WritersAssumption DEF SecretInv, OnlyOutsidersMeet, Unchanged, Here, Held
<1>k. WorkspaceFollowsCredential'
  BY Known, WritersAssumption DEF SecretInv, WorkspaceFollowsCredential
<1> QED  BY <1>a, <1>b, <1>c, <1>d, <1>e, <1>f, <1>g, <1>h, <1>i, <1>j, <1>k DEF SecretInv

LEMMA FlowEnds ==
  ASSUME SecretInv, NEW k \in Callbacks,
         callback[k].at # "checked",
         /\ callback'[k].at = "off" 
         /\ \A j \in Callbacks \ {k} : callback'[j] = callback[j]
         /\ callback' \in [Callbacks -> Flow]
         /\ UNCHANGED <<row, read, driver, lock, patch, pass, newest, lost, replaced, stale>>
  PROVE  SecretInv'
<1>a. ShapeInv'
  BY Known DEF SecretInv, ShapeInv
<1>b. PlacesInv'
  BY Known DEF SecretInv, PlacesInv, Held
<1>c. FreshInv'
  BY Known DEF SecretInv, FreshInv, Untaken
<1>d. GrantInv'
  BY Known DEF SecretInv, GrantInv, Untaken
<1>e. ReadInv'
  BY Known DEF SecretInv, ReadInv, Held
<1>f. SavedInv'
  BY Known DEF SecretInv, SavedInv
<1>g. TokenIsSpentOnce'
  BY Known DEF SecretInv, TokenIsSpentOnce
<1>h. StoredPairWorks'
  BY Known DEF SecretInv, StoredPairWorks
<1>i. ReplacedStaysReplaced'
  BY Known DEF SecretInv, ReplacedStaysReplaced
<1>j. OnlyOutsidersMeet'
  BY Known DEF SecretInv, OnlyOutsidersMeet, Unchanged, Here, Held
<1>k. WorkspaceFollowsCredential'
  BY Known DEF SecretInv, WorkspaceFollowsCredential
<1> QED  BY <1>a, <1>b, <1>c, <1>d, <1>e, <1>f, <1>g, <1>h, <1>i, <1>j, <1>k DEF SecretInv

LEMMA BeginReconnectStep ==
  ASSUME SecretInv, NEW k \in Callbacks, BeginReconnect(k)
  PROVE  SecretInv'
<1>0. ShapeInv
  BY DEF SecretInv
<1>1. /\ callback[k].at = "granted" /\ lock = NoHolder
      /\ UNCHANGED <<row, driver, patch, pass, newest, lost, replaced, stale>>
  BY DEF BeginReconnect, notion, ghosts
<1>2. CASE Here
  <2>1. callback' = [callback EXCEPT ![k] = [callback[k] EXCEPT !.at = "checked"]] /\ lock' = k /\ read' = read \cup {k}
    BY <1>2 DEF BeginReconnect
  <2>2. /\ callback'[k].at = "checked" /\ callback'[k].connection = callback[k].connection
        /\ callback' \in [Callbacks -> Flow] /\ \A j \in Callbacks \ {k} : callback'[j] = callback[j]
    BY <1>0, <2>1, FlowForms, OneFlow, Zenon
  <2>. QED  BY <1>1, <1>2, <2>1, <2>2, ReconnectBegun
<1>3. CASE ~Here
  <2>1. callback' = [callback EXCEPT ![k] = NoFlow] /\ UNCHANGED <<lock, read>>
    BY <1>3 DEF BeginReconnect
  <2>2. /\ callback'[k].at = "off"
        /\ callback' \in [Callbacks -> Flow] /\ \A j \in Callbacks \ {k} : callback'[j] = callback[j]
    BY <1>0, <2>1, FlowForms, OneFlow, Zenon
  <2>. QED  BY <1>1, <2>1, <2>2, FlowEnds
<1> QED  BY <1>2, <1>3

LEMMA Reconnected ==
  ASSUME SecretInv, NEW k \in Callbacks,
         callback[k].at = "checked", Here,
         /\ callback'[k].at = "off" 
         /\ \A j \in Callbacks \ {k} : callback'[j] = callback[j]
         /\ callback' \in [Callbacks -> Flow]
         /\ row' \in SecretRow /\ row'.here = row.here /\ row'.secret = "oauth" /\ row'.pair \in Tokens
         /\ row'.pair[1] = callback[k].connection /\ row'.pair[2] = 1
         /\ row'.oauth = callback[k].connection /\ read' = {} /\ lock' = NoHolder
         /\ replaced' = replaced \cup ({row.pair[1]} \ {0, callback[k].connection})
         /\ UNCHANGED <<driver, patch, pass, newest, lost, stale>>
  PROVE  SecretInv'
<1>a. ShapeInv'
  BY Known DEF SecretInv, ShapeInv
<1>b. PlacesInv'
  BY Known, WritersAssumption, PairParts, Numbers DEF SecretInv, PlacesInv, Held, GrantInv, Here
<1>c. FreshInv'
  BY Known, Numbers DEF SecretInv, FreshInv, Untaken, GrantInv
<1>d. GrantInv'
  BY Known, Numbers DEF SecretInv, GrantInv, Untaken
<1>e. ReadInv'
  BY Known DEF SecretInv, ReadInv, Held, PlacesInv
<1>f. SavedInv'
  BY Known, Numbers DEF SecretInv, SavedInv, GrantInv, Untaken, PlacesInv, Held
<1>g. TokenIsSpentOnce'
  BY Known DEF SecretInv, TokenIsSpentOnce
<1>h. StoredPairWorks'
  BY Known, Numbers DEF SecretInv, StoredPairWorks, GrantInv, Untaken, PlacesInv, Held
<1>i. ReplacedStaysReplaced'
  BY Known, Numbers DEF SecretInv, ReplacedStaysReplaced, GrantInv, Untaken, PlacesInv, Held
<1>j. OnlyOutsidersMeet'
  BY Known DEF SecretInv, OnlyOutsidersMeet, Unchanged, Here, Held, PlacesInv
<1>k. WorkspaceFollowsCredential'
  BY Known, Numbers DEF SecretInv, WorkspaceFollowsCredential, GrantInv, Untaken, PlacesInv, Held
<1> QED  BY <1>a, <1>b, <1>c, <1>d, <1>e, <1>f, <1>g, <1>h, <1>i, <1>j, <1>k DEF SecretInv

LEMMA NotReconnected ==
  ASSUME SecretInv, NEW k \in Callbacks,
         callback[k].at = "checked",
         /\ callback'[k].at = "off" 
         /\ \A j \in Callbacks \ {k} : callback'[j] = callback[j]
         /\ callback' \in [Callbacks -> Flow]
         /\ read' = read \ {k} /\ lock' = NoHolder
         /\ UNCHANGED <<row, driver, patch, pass, newest, lost, replaced, stale>>
  PROVE  SecretInv'
<1>a. ShapeInv'
  BY Known DEF SecretInv, ShapeInv
<1>b. PlacesInv'
  BY Known, WritersAssumption DEF SecretInv, PlacesInv, Held
<1>c. FreshInv'
  BY Known DEF SecretInv, FreshInv, Untaken
<1>d. GrantInv'
  BY Known DEF SecretInv, GrantInv, Untaken
<1>e. ReadInv'
  BY Known DEF SecretInv, ReadInv, Held
<1>f. SavedInv'
  BY Known DEF SecretInv, SavedInv
<1>g. TokenIsSpentOnce'
  BY Known DEF SecretInv, TokenIsSpentOnce
<1>h. StoredPairWorks'
  BY Known DEF SecretInv, StoredPairWorks
<1>i. ReplacedStaysReplaced'
  BY Known DEF SecretInv, ReplacedStaysReplaced
<1>j. OnlyOutsidersMeet'
  BY Known DEF SecretInv, OnlyOutsidersMeet, Unchanged, Here, Held, PlacesInv
<1>k. WorkspaceFollowsCredential'
  BY Known DEF SecretInv, WorkspaceFollowsCredential
<1> QED  BY <1>a, <1>b, <1>c, <1>d, <1>e, <1>f, <1>g, <1>h, <1>i, <1>j, <1>k DEF SecretInv

LEMMA ReconnectStep ==
  ASSUME SecretInv, NEW k \in Callbacks, Reconnect(k)
  PROVE  SecretInv'
<1>. DEFINE c == callback[k].connection
<1>0. ShapeInv
  BY DEF SecretInv
<1>1. callback[k].at = "checked" /\ UNCHANGED <<driver, patch, pass, newest, lost, stale>>
  BY DEF Reconnect, notion
<1>2. callback' = [callback EXCEPT ![k] = NoFlow] /\ lock' = NoHolder
  BY <1>1 DEF Reconnect, SecretInv, PlacesInv
<1>3. /\ callback'[k].at = "off"
      /\ callback' \in [Callbacks -> Flow] /\ \A j \in Callbacks \ {k} : callback'[j] = callback[j]
  BY <1>0, <1>2, FlowForms, OneFlow, Zenon
<1>4. c \in Connections
  BY <1>1 DEF SecretInv, GrantInv
<1>5. CASE Unchanged(k) /\ Write([WithPair(<<c, 1>>) EXCEPT !.oauth = c]) /\ GivesWayTo(c)
  <2>1. <<c, 1>> \in Tokens /\ <<c, 1>>[1] = c /\ <<c, 1>>[2] = 1
    BY <1>4, APair, Numbers
  <2>2. row' = [[row EXCEPT !.secret = "oauth", !.pair = <<c, 1>>] EXCEPT !.oauth = c] /\ read' = {}
    BY <1>5 DEF Write, WithPair
  <2>3. /\ row' \in SecretRow /\ row'.here = row.here /\ row'.secret = "oauth"
        /\ row'.pair = <<c, 1>> /\ row'.oauth = c
    BY <1>0, <1>4, <2>1, <2>2 DEF ShapeInv, SecretRow
  <2>4. Here /\ replaced' = replaced \cup ({row.pair[1]} \ {0, c})
    BY <1>5 DEF Unchanged, GivesWayTo
  <2>. QED  BY <1>1, <1>2, <1>3, <2>1, <2>2, <2>3, <2>4, Reconnected
<1>6. CASE read' = read \ {k} /\ UNCHANGED <<row, replaced>>
  BY <1>1, <1>2, <1>3, <1>6, NotReconnected
<1> QED  BY <1>5, <1>6 DEF Reconnect

LEMMA Created ==
  ASSUME SecretInv, NEW k \in Callbacks,
         callback[k].at = "granted", row.here # "yes",
         /\ callback'[k].at = "created" /\ callback'[k].connection = callback[k].connection
         /\ \A j \in Callbacks \ {k} : callback'[j] = callback[j]
         /\ callback' \in [Callbacks -> Flow]
         /\ row' \in SecretRow /\ row'.here = "yes" /\ row'.secret = "none"
         /\ row'.pair = NoTokens /\ row'.pair[1] = 0 /\ read' = {}
         /\ UNCHANGED <<driver, lock, patch, pass, newest, lost, replaced, stale>>
  PROVE  SecretInv'
<1>a. ShapeInv'
  BY Known DEF SecretInv, ShapeInv, PlacesInv
<1>b. PlacesInv'
  BY Known DEF SecretInv, PlacesInv, Held
<1>c. FreshInv'
  BY Known, Numbers DEF SecretInv, FreshInv, Untaken
<1>d. GrantInv'
  BY Known, Numbers DEF SecretInv, GrantInv, Untaken
<1>e. ReadInv'
  BY Known DEF SecretInv, ReadInv, Held, PlacesInv
<1>f. SavedInv'
  BY Known DEF SecretInv, SavedInv, PlacesInv
<1>g. TokenIsSpentOnce'
  BY Known DEF SecretInv, TokenIsSpentOnce, PlacesInv
<1>h. StoredPairWorks'
  BY Known DEF SecretInv, StoredPairWorks, PlacesInv
<1>i. ReplacedStaysReplaced'
  BY Known, Numbers DEF SecretInv, ReplacedStaysReplaced, ShapeInv
<1>j. OnlyOutsidersMeet'
  BY Known DEF SecretInv, OnlyOutsidersMeet, Unchanged, Here, Held, PlacesInv
<1>k. WorkspaceFollowsCredential'
  BY Known DEF SecretInv, WorkspaceFollowsCredential, PlacesInv
<1> QED  BY <1>a, <1>b, <1>c, <1>d, <1>e, <1>f, <1>g, <1>h, <1>i, <1>j, <1>k DEF SecretInv

LEMMA CreateSourceStep ==
  ASSUME SecretInv, NEW k \in Callbacks, Create(k)
  PROVE  SecretInv'
<1>0. ShapeInv
  BY DEF SecretInv
<1>1. callback[k].at = "granted" /\ UNCHANGED <<driver, lock, patch, pass, newest, lost, replaced, stale>>
  BY DEF Create, notion, ghosts
<1>2. CASE row.here = "not yet"
  <2>1. callback' = [callback EXCEPT ![k] = [callback[k] EXCEPT !.at = "created"]]
    BY <1>2 DEF Create
  <2>2. /\ callback'[k].at = "created" /\ callback'[k].connection = callback[k].connection
        /\ callback' \in [Callbacks -> Flow] /\ \A j \in Callbacks \ {k} : callback'[j] = callback[j]
    BY <1>0, <2>1, FlowForms, OneFlow, Zenon
  <2>3. row' = [NoSecret("yes") EXCEPT !.oauth = callback[k].connection] /\ read' = {}
    BY <1>2 DEF Create, Write
  <2>4. row' \in SecretRow /\ row'.here = "yes" /\ row'.secret = "none" /\ row'.pair = NoTokens
    BY <1>0, <2>3, Parts, Numbers DEF NoSecret, SecretRow
  <2>5. row.here # "yes" /\ row'.pair[1] = 0
    <3>1. row.here # "yes"
      BY <1>2, Zenon
    <3>. QED  BY <2>4, <3>1, Numbers
  <2>. QED  BY <1>1, <2>2, <2>3, <2>4, <2>5, Created
<1>3. CASE row.here # "not yet"
  <2>1. callback' = [callback EXCEPT ![k] = NoFlow] /\ UNCHANGED <<row, read>>
    BY <1>3 DEF Create
  <2>2. /\ callback'[k].at = "off"
        /\ callback' \in [Callbacks -> Flow] /\ \A j \in Callbacks \ {k} : callback'[j] = callback[j]
    BY <1>0, <2>1, FlowForms, OneFlow, Zenon
  <2>. QED  BY <1>1, <2>1, <2>2, FlowEnds
<1> QED  BY <1>2, <1>3

-----------------------------------------------------------------------------
(* Those who do not know of the lock: every refresh under way has met them. *)

Told ==
  /\ driver' \in [Drivers -> Session]
  /\ \A d \in Drivers : /\ driver'[d].at = driver[d].at /\ driver'[d].pair = driver[d].pair
                        /\ driver[d].at \in Held => driver'[d].met
OthersFlow ==
  /\ callback' \in [Callbacks -> Flow]
  /\ \A k \in Callbacks : \/ callback'[k] = callback[k]
                          \/ callback[k].at # "checked" /\ callback'[k].at = "off"

LEMMA MetIsTold ==
  ASSUME ShapeInv, Met
  PROVE  Told
<1>1. \A d \in Drivers : driver'[d] = [driver[d] EXCEPT !.met = @ \/ driver[d].at \in Held]
  BY DEF Met, Held
<1>2. ASSUME NEW d \in Drivers
      PROVE  /\ driver'[d] \in Session
             /\ driver'[d].at = driver[d].at /\ driver'[d].pair = driver[d].pair
             /\ driver[d].at \in Held => driver'[d].met
  BY <1>1, Parts DEF Session
<1> QED  BY <1>2 DEF Told, Met

LEMMA Emptied ==
  ASSUME SecretInv, Told, OthersFlow,
         /\ row' \in SecretRow /\ row'.pair = NoTokens /\ row'.pair[1] = 0 /\ row'.secret # "oauth" /\ row'.oauth = 0
         /\ row'.here # "yes" => row'.secret = "none" 
         /\ read' = {} /\ replaced' = replaced \cup ({row.pair[1]} \ {0})
         /\ UNCHANGED <<lock, patch, pass, newest, lost, stale>>
  PROVE  SecretInv'
<1>a. ShapeInv'
  BY Known, Numbers DEF SecretInv, ShapeInv, Told, OthersFlow
<1>b. PlacesInv'
  BY Known, Numbers DEF SecretInv, PlacesInv, Held, Told, OthersFlow
<1>c. FreshInv'
  BY Known, Numbers DEF SecretInv, FreshInv, Untaken, Told, OthersFlow
<1>d. GrantInv'
  BY Known, Numbers DEF SecretInv, GrantInv, Untaken, Told, OthersFlow
<1>e. ReadInv'
  BY Known DEF SecretInv, ReadInv, Held, Told, OthersFlow
<1>f. SavedInv'
  BY Known DEF SecretInv, SavedInv, Told, OthersFlow
<1>g. TokenIsSpentOnce'
  BY Known DEF SecretInv, TokenIsSpentOnce, Told, OthersFlow
<1>h. StoredPairWorks'
  BY Known, Numbers DEF SecretInv, StoredPairWorks, Told, OthersFlow
<1>i. ReplacedStaysReplaced'
  BY Known, Numbers DEF SecretInv, ReplacedStaysReplaced, ShapeInv, Told, OthersFlow
<1>j. OnlyOutsidersMeet'
  BY Known, Numbers DEF SecretInv, OnlyOutsidersMeet, Unchanged, Here, Held, Told, OthersFlow
<1>k. WorkspaceFollowsCredential'
  BY Known, Numbers DEF SecretInv, WorkspaceFollowsCredential, Told, OthersFlow
<1> QED  BY <1>a, <1>b, <1>c, <1>d, <1>e, <1>f, <1>g, <1>h, <1>i, <1>j, <1>k DEF SecretInv

LEMMA SealedAnew ==
  ASSUME SecretInv, Told, OthersFlow,
         /\ read' \in {read, {}} /\ pass' \in BOOLEAN
         /\ UNCHANGED <<row, lock, patch, newest, lost, replaced, stale>>
  PROVE  SecretInv'
<1>a. ShapeInv'
  BY Known, Numbers DEF SecretInv, ShapeInv, Told, OthersFlow
<1>b. PlacesInv'
  BY Known, Numbers DEF SecretInv, PlacesInv, Held, Told, OthersFlow
<1>c. FreshInv'
  BY Known, Numbers DEF SecretInv, FreshInv, Untaken, Told, OthersFlow
<1>d. GrantInv'
  BY Known, Numbers DEF SecretInv, GrantInv, Untaken, Told, OthersFlow
<1>e. ReadInv'
  BY Known, Numbers DEF SecretInv, ReadInv, Held, Told, OthersFlow
<1>f. SavedInv'
  BY Known, Numbers DEF SecretInv, SavedInv, Told, OthersFlow
<1>g. TokenIsSpentOnce'
  BY Known, Numbers DEF SecretInv, TokenIsSpentOnce, Told, OthersFlow
<1>h. StoredPairWorks'
  BY Known, Numbers DEF SecretInv, StoredPairWorks, Told, OthersFlow
<1>i. ReplacedStaysReplaced'
  BY Known, Numbers DEF SecretInv, ReplacedStaysReplaced, Told, OthersFlow
<1>j. OnlyOutsidersMeet'
  BY Known, Numbers DEF SecretInv, OnlyOutsidersMeet, Unchanged, Here, Held, Told, OthersFlow
<1>k. WorkspaceFollowsCredential'
  BY Known, Numbers DEF SecretInv, WorkspaceFollowsCredential, Told, OthersFlow
<1> QED  BY <1>a, <1>b, <1>c, <1>d, <1>e, <1>f, <1>g, <1>h, <1>i, <1>j, <1>k DEF SecretInv

LEMMA FirstPairKept ==
  ASSUME SecretInv, Told, OthersFlow,
         NEW k \in Callbacks, callback[k].at = "created", callback'[k].at = "off", Here, row.secret = "none",
         /\ row' \in SecretRow /\ row'.here = row.here /\ row'.secret = "oauth" /\ row'.pair \in Tokens
         /\ row'.pair[1] = callback[k].connection /\ row'.pair[2] = 1
         /\ row'.oauth = row.oauth /\ read' = {} /\ stale' = (stale \/ row.oauth # callback[k].connection)
         /\ UNCHANGED <<lock, patch, pass, newest, lost, replaced>>
  PROVE  SecretInv'
<1>a. ShapeInv'
  BY Known, Numbers DEF SecretInv, ShapeInv, GrantInv, Untaken, Told, OthersFlow
<1>b. PlacesInv'
  BY Known, Numbers, PairParts DEF SecretInv, PlacesInv, Held, GrantInv, Here, Told, OthersFlow
<1>c. FreshInv'
  BY Known, Numbers DEF SecretInv, FreshInv, Untaken, GrantInv, Told, OthersFlow
<1>d. GrantInv'
  BY Known, Numbers DEF SecretInv, GrantInv, Untaken, Told, OthersFlow
<1>e. ReadInv'
  BY Known, Numbers DEF SecretInv, ReadInv, Held, GrantInv, Untaken, Told, OthersFlow
<1>f. SavedInv'
  BY Known DEF SecretInv, SavedInv, Told, OthersFlow
<1>g. TokenIsSpentOnce'
  BY Known DEF SecretInv, TokenIsSpentOnce, Told, OthersFlow
<1>h. StoredPairWorks'
  BY Known, Numbers DEF SecretInv, StoredPairWorks, GrantInv, Untaken, Told, OthersFlow
<1>i. ReplacedStaysReplaced'
  BY Known, Numbers DEF SecretInv, ReplacedStaysReplaced, GrantInv, Untaken, Told, OthersFlow
<1>j. OnlyOutsidersMeet'
  BY Known, Numbers DEF SecretInv, OnlyOutsidersMeet, Unchanged, Here, Held, GrantInv, Untaken, Told, OthersFlow
<1>k. WorkspaceFollowsCredential'
  BY Known, Numbers DEF SecretInv, WorkspaceFollowsCredential, GrantInv, Untaken, Told, OthersFlow
<1> QED  BY <1>a, <1>b, <1>c, <1>d, <1>e, <1>f, <1>g, <1>h, <1>i, <1>j, <1>k DEF SecretInv

LEMMA SealFirstStep ==
  ASSUME SecretInv, NEW k \in Callbacks, SealFirst(k)
  PROVE  SecretInv'
<1>. DEFINE c == callback[k].connection
<1>0. ShapeInv
  BY DEF SecretInv
<1>1. callback[k].at = "created" /\ UNCHANGED <<lock, patch, pass, newest, lost>>
  BY DEF SealFirst, notion
<1>2. Told
  BY <1>0, MetIsTold DEF SealFirst
<1>3. callback' = [callback EXCEPT ![k] = NoFlow]
  BY DEF SealFirst
<1>4. callback'[k].at = "off" /\ OthersFlow
  <2>1. /\ callback'[k].at = "off"
        /\ callback' \in [Callbacks -> Flow] /\ \A j \in Callbacks \ {k} : callback'[j] = callback[j]
    BY <1>0, <1>3, FlowForms, OneFlow, Zenon
  <2>. QED  BY <1>1, <2>1 DEF OthersFlow
<1>5. c \in Connections
  BY <1>1 DEF SecretInv, GrantInv
<1>6. CASE /\ Here /\ row.secret = "none"
           /\ Write(WithPair(<<c, 1>>)) /\ stale' = (stale \/ row.oauth # c) /\ UNCHANGED replaced
  <2>1. <<c, 1>> \in Tokens /\ <<c, 1>>[1] = c /\ <<c, 1>>[2] = 1
    BY <1>5, APair, Numbers
  <2>2. row' = [row EXCEPT !.secret = "oauth", !.pair = <<c, 1>>] /\ read' = {}
    BY <1>6 DEF Write, WithPair
  <2>3. /\ row' \in SecretRow /\ row'.here = row.here /\ row'.secret = "oauth"
        /\ row'.pair = <<c, 1>> /\ row'.oauth = row.oauth
    BY <1>0, <2>1, <2>2 DEF ShapeInv, SecretRow
  <2>. QED  BY <1>1, <1>2, <1>4, <1>6, <2>1, <2>2, <2>3, FirstPairKept
<1>7. CASE Write(NoSecret("gone")) /\ GivesWayTo(0) /\ UNCHANGED stale
  <2>1. /\ row' \in SecretRow /\ row'.pair = NoTokens /\ row'.secret = "none" /\ row'.oauth = 0
        /\ read' = {} /\ replaced' = replaced \cup ({row.pair[1]} \ {0})
    BY <1>7, Numbers DEF Write, NoSecret, SecretRow, GivesWayTo
  <2>. QED  BY <1>1, <1>2, <1>4, <1>7, <2>1, Numbers, Emptied
<1>8. CASE UNCHANGED <<row, read, replaced, stale>>
  BY <1>0, <1>1, <1>2, <1>4, <1>8, SealedAnew DEF ShapeInv
<1> QED  BY <1>6, <1>7, <1>8 DEF SealFirst

LEMMA PatchSecretStep ==
  ASSUME SecretInv, PatchSecret
  PROVE  SecretInv'
<1>0. ShapeInv
  BY DEF SecretInv
<1>1. UNCHANGED <<callback, lock, patch, pass, newest, lost, stale>>
  BY DEF PatchSecret, others, notion
<1>2. Told /\ OthersFlow
  BY <1>0, <1>1, MetIsTold DEF PatchSecret, OthersFlow, ShapeInv
<1>3. PICK secret \in {"token", "none"} :
        row' = [row EXCEPT !.secret = secret, !.pair = NoTokens, !.oauth = 0] /\ read' = {}
  BY DEF PatchSecret, Write
<1>4. row' \in SecretRow /\ row'.pair = NoTokens /\ row'.secret = secret /\ row'.oauth = 0 /\ row'.here = "yes"
  BY <1>0, <1>3, Numbers DEF ShapeInv, SecretRow, PatchSecret, Here
<1>5. replaced' = replaced \cup ({row.pair[1]} \ {0})
  BY DEF PatchSecret, GivesWayTo
<1> QED  BY <1>1, <1>2, <1>3, <1>4, <1>5, Numbers, Emptied

LEMMA DeleteSecretStep ==
  ASSUME SecretInv, DeleteSecret
  PROVE  SecretInv'
<1>0. ShapeInv
  BY DEF SecretInv
<1>1. UNCHANGED <<callback, lock, patch, pass, newest, lost, stale>>
  BY DEF DeleteSecret, others, notion
<1>2. Told /\ OthersFlow
  BY <1>0, <1>1, MetIsTold DEF DeleteSecret, OthersFlow, ShapeInv
<1>3. /\ row' \in SecretRow /\ row'.pair = NoTokens /\ row'.secret = "none" /\ row'.oauth = 0
      /\ read' = {} /\ replaced' = replaced \cup ({row.pair[1]} \ {0})
  BY Numbers DEF DeleteSecret, Write, NoSecret, SecretRow, GivesWayTo
<1> QED  BY <1>1, <1>2, <1>3, Numbers, Emptied

LEMMA PassEnds ==
  ASSUME SecretInv,
         /\ pass' \in BOOLEAN /\ read' \in {read, read \cup {Pass}}
         /\ UNCHANGED <<row, driver, callback, lock, patch, newest, lost, replaced, stale>>
  PROVE  SecretInv'
<1>a. ShapeInv'
  BY Known DEF SecretInv, ShapeInv
<1>b. PlacesInv'
  BY Known DEF SecretInv, PlacesInv, Held
<1>c. FreshInv'
  BY Known DEF SecretInv, FreshInv, Untaken
<1>d. GrantInv'
  BY Known DEF SecretInv, GrantInv, Untaken
<1>e. ReadInv'
  BY Known, WritersAssumption DEF SecretInv, ReadInv, Held
<1>f. SavedInv'
  BY Known DEF SecretInv, SavedInv
<1>g. TokenIsSpentOnce'
  BY Known DEF SecretInv, TokenIsSpentOnce
<1>h. StoredPairWorks'
  BY Known DEF SecretInv, StoredPairWorks
<1>i. ReplacedStaysReplaced'
  BY Known DEF SecretInv, ReplacedStaysReplaced
<1>j. OnlyOutsidersMeet'
  BY Known DEF SecretInv, OnlyOutsidersMeet, Unchanged, Here, Held
<1>k. WorkspaceFollowsCredential'
  BY Known DEF SecretInv, WorkspaceFollowsCredential
<1> QED  BY <1>a, <1>b, <1>c, <1>d, <1>e, <1>f, <1>g, <1>h, <1>i, <1>j, <1>k DEF SecretInv

LEMMA RotateStep ==
  ASSUME SecretInv, Rotate
  PROVE  SecretInv'
<1>0. ShapeInv
  BY DEF SecretInv
<1>1. pass' = FALSE /\ UNCHANGED <<row, callback, lock, patch, newest, lost, replaced, stale>>
  BY DEF Rotate, Write, notion, ghosts
<1>2. OthersFlow
  BY <1>0, <1>1 DEF OthersFlow, ShapeInv
<1>3. CASE Unchanged(Pass)
  <2>1. Told /\ read' = {}
    BY <1>0, <1>3, MetIsTold DEF Rotate, Write
  <2>. QED  BY <1>1, <1>2, <2>1, SealedAnew
<1>4. CASE ~Unchanged(Pass)
  <2>1. driver' = driver /\ read' = read
    BY <1>4 DEF Rotate
  <2>. QED  BY <1>1, <2>1, PassEnds
<1> QED  BY <1>3, <1>4

LEMMA ReadForRotationStep ==
  ASSUME SecretInv, ReadForRotation
  PROVE  SecretInv'
<1>1. /\ UNCHANGED <<row, driver, callback, lock, patch, newest, lost, replaced, stale>>
      /\ pass' \in BOOLEAN /\ read' = read \cup {Pass}
  BY DEF ReadForRotation, notion, ghosts
<1> QED  BY <1>1, PassEnds

LEMMA BeginSourcePatchStep ==
  ASSUME SecretInv, BeginSourcePatch
  PROVE  SecretInv'
<1>1. /\ patch' \in 0..NoPatch
      /\ UNCHANGED <<row, read, driver, callback, lock, pass, newest, lost, replaced, stale>>
  BY Parts, Workspaces DEF SecretInv, BeginSourcePatch, notion, ghosts
<1>a. ShapeInv'
  BY <1>1, Known DEF SecretInv, ShapeInv
<1>b. PlacesInv'
  BY <1>1, Known DEF SecretInv, PlacesInv, Held
<1>c. FreshInv'
  BY <1>1, Known DEF SecretInv, FreshInv, Untaken
<1>d. GrantInv'
  BY <1>1, Known DEF SecretInv, GrantInv, Untaken
<1>e. ReadInv'
  BY <1>1, Known DEF SecretInv, ReadInv, Held
<1>f. SavedInv'
  BY <1>1, Known DEF SecretInv, SavedInv
<1>g. TokenIsSpentOnce'
  BY <1>1, Known DEF SecretInv, TokenIsSpentOnce
<1>h. StoredPairWorks'
  BY <1>1, Known DEF SecretInv, StoredPairWorks
<1>i. ReplacedStaysReplaced'
  BY <1>1, Known DEF SecretInv, ReplacedStaysReplaced
<1>j. OnlyOutsidersMeet'
  BY <1>1, Known DEF SecretInv, OnlyOutsidersMeet, Unchanged, Here, Held
<1>k. WorkspaceFollowsCredential'
  BY <1>1, Known DEF SecretInv, WorkspaceFollowsCredential
<1> QED  BY <1>a, <1>b, <1>c, <1>d, <1>e, <1>f, <1>g, <1>h, <1>i, <1>j, <1>k DEF SecretInv

LEMMA PatchSettingsStep ==
  ASSUME SecretInv, PatchSettings
  PROVE  SecretInv'
<1>0. ShapeInv
  BY DEF SecretInv
<1>1. /\ patch' = NoPatch /\ patch' \in 0..NoPatch /\ patch \in {0} \cup Connections
      /\ UNCHANGED <<read, driver, callback, lock, pass, newest, lost, replaced>>
  BY <1>0, Workspaces DEF PatchSettings, notion, ShapeInv
<1>2. /\ row' \in SecretRow /\ row'.here = row.here /\ row'.secret = row.secret /\ row'.pair = row.pair
      /\ stale' \in BOOLEAN
      /\ ~stale' => ~stale /\ row'.oauth = row.oauth
  <2>1. CASE Here
    BY <1>0, <1>1, <2>1 DEF PatchSettings, ShapeInv, SecretRow
  <2>2. CASE ~Here
    BY <1>0, <2>2 DEF PatchSettings, ShapeInv
  <2>. QED  BY <2>1, <2>2
<1>a. ShapeInv'
  BY <1>1, Known, <1>2 DEF SecretInv, ShapeInv
<1>b. PlacesInv'
  BY <1>1, Known, <1>2 DEF SecretInv, PlacesInv, Held
<1>c. FreshInv'
  BY <1>1, Known, <1>2 DEF SecretInv, FreshInv, Untaken
<1>d. GrantInv'
  BY <1>1, Known, <1>2 DEF SecretInv, GrantInv, Untaken
<1>e. ReadInv'
  BY <1>1, Known, <1>2 DEF SecretInv, ReadInv, Held
<1>f. SavedInv'
  BY <1>1, Known, <1>2 DEF SecretInv, SavedInv
<1>g. TokenIsSpentOnce'
  BY <1>1, Known, <1>2 DEF SecretInv, TokenIsSpentOnce
<1>h. StoredPairWorks'
  BY <1>1, Known, <1>2 DEF SecretInv, StoredPairWorks
<1>i. ReplacedStaysReplaced'
  BY <1>1, Known, <1>2 DEF SecretInv, ReplacedStaysReplaced
<1>j. OnlyOutsidersMeet'
  BY <1>1, Known, <1>2 DEF SecretInv, OnlyOutsidersMeet, Unchanged, Here, Held
<1>k. WorkspaceFollowsCredential'
  BY <1>1, Known, <1>2 DEF SecretInv, WorkspaceFollowsCredential
<1> QED  BY <1>a, <1>b, <1>c, <1>d, <1>e, <1>f, <1>g, <1>h, <1>i, <1>j, <1>k DEF SecretInv

LEMMA CrashStep ==
  ASSUME SecretInv, Crash
  PROVE  SecretInv'
<1>1. /\ driver' \in [Drivers -> Session] /\ \A d \in Drivers : driver'[d].at = "off" /\ driver'[d].pair = NoTokens
      /\ callback' \in [Callbacks -> Flow] /\ \A k \in Callbacks : callback'[k].at = "off"
  BY Numbers DEF Crash, Session, Flow, Off, NoFlow
<1>2. /\ lock' = NoHolder /\ patch' \in 0..NoPatch /\ read' = read \cap {Pass}
      /\ \A d \in Drivers : driver[d].at = "saving" => driver[d].pair[1] \in lost'
      /\ \A c \in lost : c \in lost'
      /\ row' = row /\ pass' = pass /\ newest' = newest /\ replaced' = replaced /\ stale' = stale
  BY Workspaces DEF Crash, notion
<1>a. ShapeInv'
  BY <1>1, Known, <1>2, Numbers DEF SecretInv, ShapeInv
<1>b. PlacesInv'
  BY <1>1, Known, <1>2, Numbers, WritersAssumption DEF SecretInv, PlacesInv, Held
<1>c. FreshInv'
  BY <1>1, Known, <1>2, Numbers DEF SecretInv, FreshInv, Untaken
<1>d. GrantInv'
  BY <1>1, Known, <1>2, Numbers DEF SecretInv, GrantInv, Untaken
<1>e. ReadInv'
  BY <1>1, Known, <1>2, Numbers DEF SecretInv, ReadInv, Held
<1>f. SavedInv'
  BY <1>1, Known, <1>2, Numbers DEF SecretInv, SavedInv
<1>g. TokenIsSpentOnce'
  BY <1>1, Known, <1>2, Numbers DEF SecretInv, TokenIsSpentOnce
<1>h. StoredPairWorks'
  BY <1>1, Known, <1>2, Numbers DEF SecretInv, StoredPairWorks
<1>i. ReplacedStaysReplaced'
  BY <1>1, Known, <1>2, Numbers DEF SecretInv, ReplacedStaysReplaced
<1>j. OnlyOutsidersMeet'
  BY <1>1, Known, <1>2, Numbers DEF SecretInv, OnlyOutsidersMeet, Unchanged, Here, Held
<1>k. WorkspaceFollowsCredential'
  BY <1>1, Known, <1>2, Numbers DEF SecretInv, WorkspaceFollowsCredential
<1> QED  BY <1>a, <1>b, <1>c, <1>d, <1>e, <1>f, <1>g, <1>h, <1>i, <1>j, <1>k DEF SecretInv

LEMMA ExpireStep ==
  ASSUME SecretInv, NEW c \in Connections, Expire(c)
  PROVE  SecretInv'
<1>1. /\ UNCHANGED <<row, read, driver, callback, lock, patch, pass, newest, lost, replaced, stale>>
  BY DEF Expire, others, ghosts
<1>a. ShapeInv'
  BY <1>1, Known DEF SecretInv, ShapeInv
<1>b. PlacesInv'
  BY <1>1, Known DEF SecretInv, PlacesInv, Held
<1>c. FreshInv'
  BY <1>1, Known DEF SecretInv, FreshInv, Untaken
<1>d. GrantInv'
  BY <1>1, Known DEF SecretInv, GrantInv, Untaken
<1>e. ReadInv'
  BY <1>1, Known DEF SecretInv, ReadInv, Held
<1>f. SavedInv'
  BY <1>1, Known DEF SecretInv, SavedInv
<1>g. TokenIsSpentOnce'
  BY <1>1, Known DEF SecretInv, TokenIsSpentOnce
<1>h. StoredPairWorks'
  BY <1>1, Known DEF SecretInv, StoredPairWorks
<1>i. ReplacedStaysReplaced'
  BY <1>1, Known DEF SecretInv, ReplacedStaysReplaced
<1>j. OnlyOutsidersMeet'
  BY <1>1, Known DEF SecretInv, OnlyOutsidersMeet, Unchanged, Here, Held
<1>k. WorkspaceFollowsCredential'
  BY <1>1, Known DEF SecretInv, WorkspaceFollowsCredential
<1> QED  BY <1>a, <1>b, <1>c, <1>d, <1>e, <1>f, <1>g, <1>h, <1>i, <1>j, <1>k DEF SecretInv

LEMMA RevokeConnectionStep ==
  ASSUME SecretInv, NEW c \in Connections, RevokeConnection(c)
  PROVE  SecretInv'
<1>1. /\ newest[c] # 0 /\ newest' = [newest EXCEPT ![c] = Withdrawn]
      /\ UNCHANGED <<row, read, driver, callback, lock, patch, pass, lost, replaced, stale>>
  BY DEF RevokeConnection, others, ghosts
<1>a. ShapeInv'
  BY <1>1, Known, Numbers DEF SecretInv, ShapeInv
<1>b. PlacesInv'
  BY <1>1, Known, Numbers DEF SecretInv, PlacesInv, Held, ShapeInv
<1>c. FreshInv'
  BY <1>1, Known, Numbers DEF SecretInv, FreshInv, Untaken, ShapeInv
<1>d. GrantInv'
  BY <1>1, Known, Numbers DEF SecretInv, GrantInv, Untaken, ShapeInv
<1>e. ReadInv'
  BY <1>1, Known, Numbers DEF SecretInv, ReadInv, Held, ShapeInv
<1>f. SavedInv'
  BY <1>1, Known, Numbers DEF SecretInv, SavedInv, ShapeInv
<1>g. TokenIsSpentOnce'
  BY <1>1, Known, Numbers DEF SecretInv, TokenIsSpentOnce, ShapeInv
<1>h. StoredPairWorks'
  BY <1>1, Known, Numbers DEF SecretInv, StoredPairWorks, ShapeInv
<1>i. ReplacedStaysReplaced'
  BY <1>1, Known, Numbers DEF SecretInv, ReplacedStaysReplaced, ShapeInv
<1>j. OnlyOutsidersMeet'
  BY <1>1, Known, Numbers DEF SecretInv, OnlyOutsidersMeet, Unchanged, Here, Held, ShapeInv
<1>k. WorkspaceFollowsCredential'
  BY <1>1, Known, Numbers DEF SecretInv, WorkspaceFollowsCredential, ShapeInv
<1> QED  BY <1>a, <1>b, <1>c, <1>d, <1>e, <1>f, <1>g, <1>h, <1>i, <1>j, <1>k DEF SecretInv

-----------------------------------------------------------------------------
LEMMA SecretInvInit == SecretInit => SecretInv
<1>. SUFFICES ASSUME SecretInit PROVE SecretInv
  OBVIOUS
<1>0. 1 \in Connections
  BY ConnectionsAssumption DEF Connections
<1>1. <<1, 1>> \in Tokens /\ <<1, 1>> # NoTokens /\ <<1, 1>>[1] = 1 /\ <<1, 1>>[2] = 1
  BY <1>0, APair, Numbers
<1>2. /\ row \in SecretRow
      /\ row.here # "yes" => row.secret = "none" /\ row.pair = NoTokens
      /\ row.here = "yes" => row.secret = "oauth" /\ row.pair = <<1, 1>> /\ row.oauth = 1
  <2>1. CASE row = NoSecret("not yet")
    BY <2>1, Numbers DEF NoSecret, SecretRow
  <2>2. CASE row = [here |-> "yes", secret |-> "oauth", pair |-> <<1, 1>>, oauth |-> 1]
    BY <1>0, <1>1, <2>2 DEF SecretRow
  <2>. QED  BY <2>1, <2>2, Zenon DEF SecretInit
<1>3. /\ newest \in [Connections -> 0..Withdrawn]
      /\ row.here = "yes" => newest[1] = 1 /\ \A c \in Connections : newest[c] = 0 => c # 1
  <2>1. newest = [c \in Connections |-> IF c = 1 /\ row.here = "yes" THEN 1 ELSE 0]
    BY Zenon DEF SecretInit
  <2>. QED  BY <1>0, <2>1, Numbers
<1>4. /\ driver \in [Drivers -> Session] /\ \A d \in Drivers : driver[d].at = "off" /\ driver[d].pair = NoTokens
      /\ callback \in [Callbacks -> Flow] /\ \A k \in Callbacks : callback[k].at = "off"
  BY Numbers DEF Session, Flow, Off, NoFlow, SecretInit
<1>5. ShapeInv
  BY <1>2, <1>3, <1>4, Workspaces DEF ShapeInv, SecretInit
<1>6. PlacesInv
  BY <1>1, <1>2, <1>4, WritersAssumption DEF PlacesInv, Held, SecretInit
<1>7. FreshInv
  BY <1>0, <1>1, <1>2, <1>3, <1>4, Numbers DEF FreshInv, Untaken, SecretInit
<1>8. GrantInv /\ ReadInv /\ SavedInv /\ TokenIsSpentOnce /\ OnlyOutsidersMeet
  BY <1>4 DEF GrantInv, ReadInv, SavedInv, TokenIsSpentOnce, OnlyOutsidersMeet, Held
<1>9. replaced = {} /\ stale = FALSE
  BY Zenon DEF SecretInit
<1>10. StoredPairWorks /\ ReplacedStaysReplaced /\ WorkspaceFollowsCredential
  <2>1. CASE row.here = "yes"
    BY <1>1, <1>2, <1>3, <1>9, <2>1 DEF StoredPairWorks, ReplacedStaysReplaced, WorkspaceFollowsCredential
  <2>2. CASE row.here # "yes"
    BY <1>2, <1>9, <2>2, Numbers DEF StoredPairWorks, ReplacedStaysReplaced, WorkspaceFollowsCredential
  <2>. QED  BY <2>1, <2>2
<1> QED  BY <1>5, <1>6, <1>7, <1>8, <1>10 DEF SecretInv

LEMMA SecretInvStill ==
  ASSUME SecretInv, UNCHANGED refreshVars
  PROVE  SecretInv'
<1>1. UNCHANGED <<row, read, driver, callback, lock, patch, pass, newest, lost, replaced, stale>>
  BY DEF refreshVars, others, notion, ghosts
<1> QED  BY <1>1 DEF SecretInv, ShapeInv, PlacesInv, FreshInv, GrantInv, Untaken, ReadInv, SavedInv, TokenIsSpentOnce,
            StoredPairWorks, ReplacedStaysReplaced, OnlyOutsidersMeet, WorkspaceFollowsCredential, Unchanged, Here

LEMMA SecretInvStep == SecretInv /\ [SecretNext]_refreshVars => SecretInv'
<1>. SUFFICES ASSUME SecretInv, [SecretNext]_refreshVars PROVE SecretInv'
  OBVIOUS
<1>1. ASSUME NEW d \in Drivers, Build(d) \/ Meet401(d) \/ LookUp(d) \/ RefreshPair(d) \/ Save(d) \/ EndDriver(d)
      PROVE  SecretInv'
  BY <1>1, BuildStep, Meet401Step, LookUpStep, RefreshPairStep, SaveStep, EndDriverStep
<1>2. ASSUME NEW k \in Callbacks, Authorise(k) \/ BeginReconnect(k) \/ Reconnect(k) \/ Create(k) \/ SealFirst(k)
      PROVE  SecretInv'
  BY <1>2, AuthoriseStep, BeginReconnectStep, ReconnectStep, CreateSourceStep, SealFirstStep
<1>3. CASE PatchSecret \/ BeginSourcePatch \/ PatchSettings \/ DeleteSecret \/ ReadForRotation \/ Rotate \/ Crash
  BY <1>3, PatchSecretStep, BeginSourcePatchStep, PatchSettingsStep, DeleteSecretStep, ReadForRotationStep, RotateStep,
     CrashStep
<1>4. ASSUME NEW c \in Connections, Expire(c) \/ RevokeConnection(c)
      PROVE  SecretInv'
  BY <1>4, ExpireStep, RevokeConnectionStep
<1>5. CASE UNCHANGED refreshVars
  BY <1>5, SecretInvStill
<1> QED  BY <1>1, <1>2, <1>3, <1>4, <1>5 DEF SecretNext

LEMMA SecretInvHolds == SecretSpec => []SecretInv
  BY SecretInvInit, SecretInvStep, PTL DEF SecretSpec

\* Types, and the lock is held by whoever is between its read and its write, for any number of
\* runs, probes, callbacks, connections and pairs.
THEOREM SecretTypesHold == SecretSpec => []SecretTypeOK
  BY SecretInvHolds, TypesFollow, PTL

\* Whoever dies, whatever answer is lost and however often Notion withdraws a connection: no
\* refresh token is presented twice, and the pair in the row can be refreshed, unless its
\* successor could not be kept (notion-oauth.ts, refreshLocked).
THEOREM RefreshDoesStaySafe == SecretSpec => []RefreshIsSafe
  BY SecretInvHolds, SafetyFollows, PTL

\* Drivers, callbacks, PATCH, deletion and rotate-secret in any order: a refresh that ends late
\* brings nothing back, only those outside the lock meet a refresh, and the workspace in the row
\* is the one of the credential until a PATCH of the settings has met another writer
\* (sources.ts, replaceSourceSecretIfUnchanged; notion-oauth-routes.ts).
THEOREM WritersDoAgree == SecretSpec => []WritersAgree
  BY SecretInvHolds, SafetyFollows, PTL

-----------------------------------------------------------------------------
(* The two in one run (MCRows): each goes as it goes alone, or not at all. *)

LEMMA RowsGoOn == RowsSpec => [](Inv /\ SecretInv)
<1>1. Begins => Inv /\ SecretInv
  BY InitInv, SecretInvInit DEF Begins
<1>2. Inv /\ SecretInv /\ [Goes]_<<part, vars, accountVars, refreshVars>> => Inv' /\ SecretInv'
  <2> SUFFICES ASSUME Inv, SecretInv, [Goes]_<<part, vars, accountVars, refreshVars>> PROVE Inv' /\ SecretInv'
    OBVIOUS
  <2>1. [AccountsNext]_accountVars /\ [SecretNext]_refreshVars
    BY DEF Goes
  <2> QED
    BY <2>1, NextInv, SecretInvStep
<1> QED
  BY <1>1, <1>2, PTL DEF RowsSpec

\* The types of the accounts and of the credential, in the run that checks both.
THEOREM RowsTypesHold == RowsSpec => []RowsTypeOK
<1>1. Inv /\ SecretInv => RowsTypeOK
  BY TypesFollow DEF Inv, RowsTypeOK
<1> QED
  BY <1>1, RowsGoOn, PTL
=============================================================================
