---------------------------- MODULE GrantsProofs ----------------------------
(***************************************************************************)
(* What holds of the grants for every set of accounts, clients and         *)
(* requests, and any number of codes, pairs and revocations.               *)
(***************************************************************************)
EXTENDS Grants, TLAPS

\* The columns of a pair that never change, and its tokens that were not revoked.
Identity(i) == <<pair[i].user, pair[i].client, pair[i].code, pair[i].epoch, pair[i].from>>
Unspent(i) == pair[i].refresh \in {"live", "expired"}

PairType == [access : States, refresh : States, user : Users \cup {None}, client : Clients \cup {None},
             code : 0..MaxCodes, epoch : 0..MaxEpoch, from : 0..MaxPairs]
CodeType == [state : {"none", "pending", "gone"}, user : Users \cup {None},
             client : Clients \cup {None}, epoch : 0..MaxEpoch]
ReqType == [at : Stages, kind : Kinds, user : Users \cup {None}, client : Clients \cup {None},
            code : 0..MaxCodes, pair : 0..MaxPairs, epoch : 0..MaxEpoch, signedIn : BOOLEAN,
            todo : SUBSET Pairs, locked : SUBSET Pairs]

\* Which requests are where, and that who refreshes carries the grant of its pair.
Fine(r, P, n) ==
  /\ r.at # "off" => r.user \in Users
  /\ r.at = "off" => r = NoRequest
  /\ r.kind = "exchange" => r.at \in {"check", "insert"} /\ r.pair = 0 /\ r.code \in Codes
  /\ r.kind = "refresh" =>
       /\ r.at \in {"share", "claim", "insert", "raced", "reuse"} /\ r.pair \in 1..n
       /\ <<r.user, r.client, r.code, r.epoch>>
          = <<P[r.pair].user, P[r.pair].client, P[r.pair].code, P[r.pair].epoch>>
  /\ r.at \in {"check", "share", "claim", "insert", "raced", "reuse"} => r.kind \in {"exchange", "refresh"}
  /\ r.at = "revoke" => r.kind = "handback"
  /\ r.at \notin {"raced", "reuse", "revoke"} => r.locked = {}

RequestInv ==
  /\ \A i \in Pairs : /\ i <= issued => pair[i].user \in Users
                      /\ pair[i].refresh # "none" => i <= issued
  /\ \A k \in Codes : code[k].state # "none" => code[k].user \in Users
  /\ \A q \in Requests : Fine(req[q], pair, issued)

Inv1 == TypeOK /\ RequestInv

LEMMA NoRequestType == NoRequest \in ReqType /\ NoRequest.at = "off" /\ NoRequest.locked = {}
BY BoundsAssumption DEF NoRequest, ReqType, Stages, Kinds

LEMMA KindsFact == /\ "consent" \in Kinds /\ "exchange" \in Kinds /\ "refresh" \in Kinds
                   /\ "handback" \in Kinds /\ "reset" \in Kinds /\ "password" \in Kinds
BY DEF Kinds

LEMMA AboutType ==
  ASSUME NEW kind \in Kinds, NEW u \in Users
  PROVE  /\ About(kind, u) \in ReqType /\ About(kind, u).locked = {} /\ About(kind, u).todo = {}
         /\ About(kind, u).kind = kind /\ About(kind, u).user = u /\ About(kind, u).pair = 0
BY NoRequestType DEF About, NoRequest, ReqType

LEMMA InitType == Init => Inv1
<1> SUFFICES ASSUME Init PROVE Inv1
  OBVIOUS
<1>1. req \in [Requests -> ReqType] /\ \A q \in Requests : req[q] = NoRequest
  BY NoRequestType DEF Init
<1>2. pair \in [Pairs -> PairType] /\ \A i \in Pairs : pair[i] = NoPair /\ i > 0
  BY BoundsAssumption DEF Init, NoPair, PairType, States, Pairs
<1>3. code \in [Codes -> CodeType] /\ \A k \in Codes : code[k] = NoCode /\ k > 0
  BY BoundsAssumption DEF Init, NoCode, CodeType, Codes
<1>4. account \in [Users -> [epoch : 0..MaxEpoch, usable : BOOLEAN]]
  BY BoundsAssumption DEF Init
<1>5. TypeOK
  BY <1>1, <1>2, <1>3, <1>4, BoundsAssumption
  DEF Init, TypeOK, ReqType, PairType, CodeType, NoPair, NoCode, NoRequest, Holds
<1>6. RequestInv
  BY <1>1, <1>2 DEF Init, RequestInv, Fine, NoRequest, NoCode, NoPair, Pairs
<1> QED
  BY <1>5, <1>6 DEF Inv1

\* A request that begins, moves on or ends, and holds no row afterwards that it did not hold.
LEMMA RequestStep ==
  ASSUME Inv1, NEW q \in Requests, NEW r \in ReqType, req' = [req EXCEPT ![q] = r],
         \A i \in Pairs : (i \in r.locked \/ (r.kind = "refresh" /\ r.at = "insert" /\ r.pair = i))
                          => Holds(q, i) \/ Unlocked(q, i)
  PROVE  /\ req' \in [Requests -> ReqType]
         /\ \A p \in Requests : req'[p] = IF p = q THEN r ELSE req[p]
         /\ \A i \in Pairs, p, s \in Requests : (Holds(p, i) /\ Holds(s, i))' => p = s
<1>1. req \in [Requests -> ReqType]
  BY DEF Inv1, TypeOK, ReqType
<1>2. req' \in [Requests -> ReqType] /\ \A p \in Requests : req'[p] = IF p = q THEN r ELSE req[p]
  BY <1>1
<1>3. \A i \in Pairs, p \in Requests \ {q} : Holds(p, i)' <=> Holds(p, i)
  BY <1>2 DEF Holds
<1>4. \A i \in Pairs : Holds(q, i)' => Holds(q, i) \/ Unlocked(q, i)
  BY <1>2 DEF Holds
<1> QED
  BY <1>2, <1>3, <1>4 DEF Inv1, TypeOK, Unlocked

\* What a step does to the pairs: one more at most, and whatever a pair lost it does not
\* get back.
PairStep ==
  /\ issued' \in {issued, issued + 1} /\ issued' <= MaxPairs /\ pair' \in [Pairs -> PairType]
  /\ \A i \in Pairs : i <= issued => /\ Identity(i)' = Identity(i)
                                     /\ Unspent(i)' => Unspent(i)
                                     /\ Standing(i)' => Standing(i)
                                     /\ Live(i)' => Live(i)
  /\ \A i \in Pairs : /\ pair'[i].access = "none" <=> i > issued'
                      /\ pair'[i].refresh # "none" => i <= issued'

LEMMA PairTypes ==
  ASSUME Inv1
  PROVE  /\ pair \in [Pairs -> PairType] /\ issued \in 0..MaxPairs /\ MaxPairs \in Nat /\ issued \in Nat
         /\ \A i \in Pairs : i \in Nat /\ i # 0 /\ i <= MaxPairs /\ (pair[i].access = "none" <=> i > issued)
                           /\ (pair[i].refresh # "none" => i <= issued)
         /\ \A i \in Nat : i # 0 /\ i <= MaxPairs => i \in Pairs
         /\ req \in [Requests -> ReqType]
         /\ code \in [Codes -> CodeType] /\ approved \in 0..MaxCodes
         /\ account \in [Users -> [epoch : 0..MaxEpoch, usable : BOOLEAN]]
BY BoundsAssumption DEF Inv1, TypeOK, RequestInv, PairType, ReqType, CodeType, Pairs

LEMMA SamePairs == ASSUME Inv1, UNCHANGED <<pair, issued>> PROVE PairStep
BY PairTypes DEF PairStep, Identity, Unspent, Standing, Live

LEMMA RevokeType ==
  \A t \in States : /\ Revoke(t) \in States /\ Revoke(t) \notin {"live", "expired"}
                    /\ Revoke(t) = "none" <=> t = "none"
BY DEF Revoke, States

\* What becomes of a pair's columns when one of its tokens is revoked, or both are.
LEMMA RevokePair ==
  ASSUME NEW i \in Pairs, pair[i] \in PairType, NEW access \in {pair[i].access, Revoke(pair[i].access)},
         pair'[i] = [pair[i] EXCEPT !.access = access, !.refresh = Revoke(pair[i].refresh)]
  PROVE  /\ pair'[i] \in PairType /\ Identity(i)' = Identity(i) /\ ~Unspent(i)'
         /\ Standing(i)' => Standing(i)
         /\ Live(i)' => Live(i)
         /\ access # pair[i].access => ~Standing(i)' /\ ~Live(i)'
         /\ pair'[i].access = "none" <=> pair[i].access = "none"
         /\ pair'[i].refresh # "none" => pair[i].refresh # "none"
<1>1. pair[i].access \in States /\ pair[i].refresh \in States
  BY DEF PairType
<1>2. pair'[i].access = access /\ pair'[i].refresh = Revoke(pair[i].refresh)
  BY DEF PairType
<1>3. pair'[i] \in PairType /\ Identity(i)' = Identity(i)
  <2>1. access \in States /\ Revoke(pair[i].refresh) \in States
    BY <1>1, RevokeType
  <2>2. pair'[i] \in PairType
    BY <2>1 DEF PairType
  <2>3. Identity(i)' = Identity(i)
    BY DEF PairType, Identity
  <2> QED
    BY <2>2, <2>3
<1>4. /\ ~Unspent(i)' /\ (pair'[i].access = "none" <=> pair[i].access = "none")
      /\ pair'[i].refresh # "none" => pair[i].refresh # "none"
  BY <1>1, <1>2, RevokeType DEF Unspent
<1>5. /\ Standing(i)' => Standing(i)
      /\ Live(i)' => Live(i)
      /\ access # pair[i].access => ~Standing(i)' /\ ~Live(i)'
  BY <1>1, <1>2, RevokeType DEF Standing, Live
<1> QED
  BY <1>3, <1>4, <1>5

LEMMA WithoutStep ==
  ASSUME Inv1, NEW S \in SUBSET Pairs, pair' = Without(S), UNCHANGED issued
  PROVE  /\ PairStep
         /\ \A i \in S : ~Standing(i)' /\ ~Unspent(i)' /\ ~Live(i)'
         /\ \A i \in Pairs \ S : pair'[i] = pair[i]
<1>1. \A i \in S : pair'[i] = [pair[i] EXCEPT !.access = Revoke(pair[i].access), !.refresh = Revoke(pair[i].refresh)]
  BY DEF Without
<1>2. \A i \in Pairs \ S : pair'[i] = pair[i]
  BY DEF Without
<1>3. \A i \in S : /\ pair'[i] \in PairType /\ Identity(i)' = Identity(i)
                   /\ ~Standing(i)' /\ ~Unspent(i)' /\ ~Live(i)'
                   /\ (pair'[i].access = "none" <=> pair[i].access = "none")
                   /\ (pair'[i].refresh # "none" => pair[i].refresh # "none")
  <2> TAKE i \in S
  <2>1. i \in Pairs /\ pair[i] \in PairType
    BY PairTypes
  <2>2. pair'[i].access \notin {"live", "expired"} /\ pair'[i].refresh \notin {"live", "expired"}
    BY <1>1, <2>1, RevokeType DEF PairType
  <2>3. ~Standing(i)' /\ ~Unspent(i)' /\ ~Live(i)'
    BY <2>2 DEF Standing, Unspent, Live
  <2> QED
    BY <1>1, <2>1, <2>3, RevokePair
<1>4. pair' \in [Pairs -> PairType]
  <2>1. pair' = [i \in Pairs |-> pair'[i]]
    BY DEF Without
  <2> QED
    BY <1>2, <1>3, <2>1, PairTypes
<1>5. \A i \in Pairs : /\ Identity(i)' = Identity(i)
                       /\ Unspent(i)' => Unspent(i)
                       /\ Standing(i)' => Standing(i)
                       /\ Live(i)' => Live(i)
                       /\ pair'[i].access = "none" <=> i > issued'
                       /\ pair'[i].refresh # "none" => i <= issued'
  <2> TAKE i \in Pairs
  <2>1. CASE i \in S
    BY <1>3, <2>1, PairTypes
  <2>2. CASE i \notin S
    BY <1>2, <2>2, PairTypes DEF Identity, Standing, Unspent, Live
  <2> QED
    BY <2>1, <2>2
<1> QED
  BY <1>2, <1>3, <1>4, <1>5, PairTypes DEF PairStep

LEMMA IssueStep ==
  ASSUME Inv1, NEW r \in ReqType, IssuePair(r), r.pair \in 0..issued
  PROVE  /\ PairStep /\ issued' = issued + 1 /\ issued' \in Pairs
         /\ pair'[issued'] = [access |-> "live", refresh |-> "live", user |-> r.user, client |-> r.client,
                              code |-> r.code, epoch |-> r.epoch, from |-> r.pair]
         /\ r.pair # 0 => r.pair \in Pairs /\ ~Unspent(r.pair)' /\ Identity(r.pair)' = Identity(r.pair)
         /\ \A i \in Pairs : i # issued' /\ i # r.pair => pair'[i] = pair[i]
<1>1. issued' = issued + 1 /\ issued' \in Pairs /\ issued' # r.pair /\ issued' <= MaxPairs
  <2>1. issued < MaxPairs /\ issued' = issued + 1
    BY DEF IssuePair
  <2> QED
    BY <2>1, PairTypes
<1>2. pair'[issued'] = [access |-> "live", refresh |-> "live", user |-> r.user, client |-> r.client,
                        code |-> r.code, epoch |-> r.epoch, from |-> r.pair]
  BY <1>1 DEF IssuePair
<1>3. pair'[issued'] \in PairType
  BY <1>2 DEF PairType, ReqType, States
<1>4. \A i \in Pairs : i # issued' /\ i # r.pair => pair'[i] = pair[i]
  BY <1>1 DEF IssuePair
<1>5. r.pair # 0 => /\ r.pair \in Pairs
                    /\ pair'[r.pair] = [pair[r.pair] EXCEPT !.refresh = Revoke(pair[r.pair].refresh)]
  <2>1. r.pair # 0 => r.pair \in Pairs
    BY PairTypes
  <2> QED
    BY <1>1, <2>1 DEF IssuePair
<1>6. r.pair # 0 => /\ pair'[r.pair] \in PairType /\ Identity(r.pair)' = Identity(r.pair)
                    /\ ~Unspent(r.pair)'
                    /\ Standing(r.pair)' => Standing(r.pair)
                    /\ Live(r.pair)' => Live(r.pair)
                    /\ pair'[r.pair].access = "none" <=> pair[r.pair].access = "none"
                    /\ pair'[r.pair].refresh # "none" => pair[r.pair].refresh # "none"
  <2> HAVE r.pair # 0
  <2>1. r.pair \in Pairs /\ pair[r.pair] \in PairType
    BY <1>5, PairTypes
  <2>2. pair'[r.pair] = [pair[r.pair] EXCEPT !.access = pair[r.pair].access, !.refresh = Revoke(pair[r.pair].refresh)]
    BY <1>5, <2>1 DEF PairType
  <2> QED
    BY <2>1, <2>2, RevokePair
<1>7. pair' \in [Pairs -> PairType]
  <2>1. pair' = [i \in Pairs |-> pair'[i]]
    BY DEF IssuePair
  <2>2. \A i \in Pairs : pair'[i] \in PairType
    BY <1>3, <1>4, <1>6, PairTypes
  <2> QED
    BY <2>1, <2>2
<1>8. \A i \in Pairs : i <= issued => /\ Identity(i)' = Identity(i)
                                      /\ Unspent(i)' => Unspent(i)
                                      /\ Standing(i)' => Standing(i)
                                      /\ Live(i)' => Live(i)
                                      /\ pair'[i].access # "none"
  <2> TAKE i \in Pairs
  <2> HAVE i <= issued
  <2>1. i # issued' /\ pair[i].access # "none"
    BY <1>1, PairTypes
  <2>2. CASE i = r.pair
    BY <1>6, <2>1, <2>2, PairTypes
  <2>3. CASE i # r.pair
    BY <1>4, <2>1, <2>3 DEF Identity, Standing, Unspent, Live
  <2> QED
    BY <2>2, <2>3
<1>9. \A i \in Pairs : /\ pair'[i].access = "none" <=> i > issued'
                       /\ pair'[i].refresh # "none" => i <= issued'
  <2> TAKE i \in Pairs
  <2>1. CASE i <= issued
    BY <1>1, <1>8, <2>1, PairTypes
  <2>2. CASE i = issued'
    BY <1>1, <1>2, <2>2, PairTypes
  <2>3. CASE i > issued'
    BY <1>1, <1>4, <2>3, PairTypes
  <2> QED
    BY <1>1, <2>1, <2>2, <2>3, PairTypes
<1> QED
  BY <1>1, <1>2, <1>4, <1>5, <1>6, <1>7, <1>8, <1>9 DEF PairStep
LEMMA FineStep ==
  ASSUME Inv1, PairStep, NEW r \in ReqType, Fine(r, pair, issued)
  PROVE  Fine(r, pair', issued')
<1>1. issued \in Nat /\ issued' \in Nat /\ issued <= issued'
  BY PairTypes DEF PairStep
<1>2. \A i \in 1..issued : i \in Pairs /\ i <= issued /\ i \in 1..issued'
  BY <1>1, PairTypes
<1>3. \A i \in 1..issued : pair'[i].user = pair[i].user /\ pair'[i].client = pair[i].client
                           /\ pair'[i].code = pair[i].code /\ pair'[i].epoch = pair[i].epoch
  BY <1>2 DEF PairStep, Identity
<1> QED
  BY <1>2, <1>3 DEF Fine

\* What is left to show of a step when its pairs and its requests are known.
LEMMA TypeStep ==
  ASSUME Inv1, PairStep, req' \in [Requests -> ReqType],
         \A q \in Requests : Fine(req'[q], pair', issued'),
         \A i \in Pairs, p, q \in Requests : (Holds(p, i) /\ Holds(q, i))' => p = q,
         account' \in [Users -> [epoch : 0..MaxEpoch, usable : BOOLEAN]],
         member' \subseteq Users, project' \in BOOLEAN,
         code' \in [Codes -> CodeType], approved' \in 0..MaxCodes,
         \A k \in Codes : /\ code'[k].state = "none" <=> k > approved'
                          /\ code'[k].state # "none" => code'[k].user \in Users,
         raced' \subseteq Pairs,
         issued' # issued => pair'[issued'].user \in Users
  PROVE  Inv1'
<1>1. \A i \in Pairs : i <= issued' => pair'[i].user \in Users
  <2>1. \A i \in Pairs : i <= issued => pair'[i].user \in Users
    BY DEF PairStep, Identity, Inv1, RequestInv
  <2> QED
    BY <2>1, PairTypes DEF PairStep
<1>2. pair' \in [Pairs -> PairType] /\ issued' \in 0..MaxPairs
      /\ \A i \in Pairs : /\ pair'[i].access = "none" <=> i > issued'
                          /\ pair'[i].refresh # "none" => i <= issued'
  BY PairTypes DEF PairStep
<1>3. TypeOK'
  BY <1>2 DEF TypeOK, ReqType, PairType, CodeType
<1>4. RequestInv'
  BY <1>1, <1>2 DEF RequestInv
<1> QED
  BY <1>3, <1>4 DEF Inv1

LEMMA Facts ==
  ASSUME Inv1
  PROVE  /\ account \in [Users -> [epoch : 0..MaxEpoch, usable : BOOLEAN]]
         /\ member \subseteq Users /\ project \in BOOLEAN
         /\ code \in [Codes -> CodeType] /\ approved \in 0..MaxCodes
         /\ \A k \in Codes : /\ code[k].state = "none" <=> k > approved
                             /\ code[k].state # "none" => code[k].user \in Users
         /\ raced \subseteq Pairs
         /\ \A i \in Pairs, p, q \in Requests : Holds(p, i) /\ Holds(q, i) => p = q
         /\ req \in [Requests -> ReqType]
         /\ \A q \in Requests : Fine(req[q], pair, issued) /\ req[q] \in ReqType
         /\ \A i \in Pairs : i <= issued => pair[i].user \in Users
BY DEF Inv1, TypeOK, RequestInv, CodeType, ReqType

\* One request moves on, and nothing else happens.
LEMMA MoveStep ==
  ASSUME Inv1, NEW q \in Requests, NEW r \in ReqType, req' = [req EXCEPT ![q] = r],
         Fine(r, pair, issued),
         \A i \in Pairs : (i \in r.locked \/ (r.kind = "refresh" /\ r.at = "insert" /\ r.pair = i))
                          => Holds(q, i) \/ Unlocked(q, i),
         UNCHANGED <<account, member, project, pair, issued, raced>>,
         code' \in [Codes -> CodeType], approved' \in 0..MaxCodes,
         \A k \in Codes : /\ code'[k].state = "none" <=> k > approved'
                          /\ code'[k].state # "none" => code'[k].user \in Users
  PROVE  Inv1'
<1>1. PairStep
  BY SamePairs
<1>2. \A p \in Requests : Fine(req'[p], pair', issued')
  <2>1. \A p \in Requests : Fine(req'[p], pair, issued)
    BY Facts
  <2> QED
    BY <2>1
<1> QED
  BY <1>1, <1>2, RequestStep, Facts, TypeStep

\* A request ends while the rest may change.
LEMMA EndStep ==
  ASSUME Inv1, PairStep, NEW q \in Requests, End(q)
  PROVE  /\ req' \in [Requests -> ReqType]
         /\ \A p \in Requests : Fine(req'[p], pair', issued')
         /\ \A i \in Pairs, p, s \in Requests : (Holds(p, i) /\ Holds(s, i))' => p = s
         /\ \A p \in Requests : req'[p] = IF p = q THEN NoRequest ELSE req[p]
<1>1. Fine(NoRequest, pair, issued)
  BY DEF Fine, NoRequest
<1>2. \A p \in Requests : Fine(req'[p], pair, issued)
  BY <1>1, Facts DEF End
<1>3. /\ req' \in [Requests -> ReqType]
      /\ \A p \in Requests : req'[p] = IF p = q THEN NoRequest ELSE req[p]
      /\ \A i \in Pairs, p, s \in Requests : (Holds(p, i) /\ Holds(s, i))' => p = s
  BY NoRequestType, RequestStep DEF End, NoRequest
<1> QED
  BY <1>2, <1>3, FineStep

\* Requests are signed out, and one may move on.
LEMMA SignOutStep ==
  ASSUME Inv1, PairStep, NEW u \in Users, NEW kept \in SUBSET Requests,
         \/ req' = SignOut(u, kept)
         \/ \E q \in Requests : /\ req[q].kind \in {"reset", "password"} /\ req[q].at = "sessions"
                                /\ req' = [SignOut(u, kept) EXCEPT ![q].at = "credentials"]
  PROVE  /\ req' \in [Requests -> ReqType]
         /\ \A p \in Requests : Fine(req'[p], pair', issued')
         /\ \A i \in Pairs, p, s \in Requests : (Holds(p, i) /\ Holds(s, i))' => p = s
         /\ \A p \in Requests : \/ req'[p] = req[p]
                                \/ req'[p].kind \notin {"exchange", "refresh"} /\ req'[p].at # "raced"
<1> DEFINE Out(p) == /\ req[p].kind = "consent" /\ req[p].at # "off"
                     /\ req'[p] = [req[p] EXCEPT !.signedIn = FALSE]
           Up(p)  == /\ req[p].kind \in {"reset", "password"} /\ req[p].at = "sessions"
                     /\ req'[p] = [req[p] EXCEPT !.at = "credentials"]
<1>1. /\ SignOut(u, kept) \in [Requests -> ReqType]
      /\ \A p \in Requests : \/ SignOut(u, kept)[p] = req[p]
                             \/ /\ req[p].kind = "consent" /\ req[p].at # "off"
                                /\ SignOut(u, kept)[p] = [req[p] EXCEPT !.signedIn = FALSE]
  <2>1. \A p \in Requests : req[p] \in ReqType /\ (req[p].user = u => req[p].at # "off")
    BY Facts, NoneAssumption DEF Fine, NoRequest
  <2>2. \A p \in Requests : [req[p] EXCEPT !.signedIn = FALSE] \in ReqType
    <3>1. \A r \in ReqType : [r EXCEPT !.signedIn = FALSE] \in ReqType
      BY DEF ReqType
    <3> QED
      BY <2>1, <3>1
  <2> QED
    BY <2>1, <2>2 DEF SignOut
<1>2. req' \in [Requests -> ReqType] /\ \A p \in Requests : req'[p] = req[p] \/ Out(p) \/ Up(p)
  <2>1. CASE req' = SignOut(u, kept)
    BY <1>1, <2>1
  <2>2. ASSUME NEW q \in Requests, req[q].kind \in {"reset", "password"}, req[q].at = "sessions",
               req' = [SignOut(u, kept) EXCEPT ![q].at = "credentials"]
        PROVE  req' \in [Requests -> ReqType] /\ \A p \in Requests : req'[p] = req[p] \/ Out(p) \/ Up(p)
    <3>1. SignOut(u, kept)[q] = req[q] /\ req[q] \in ReqType
      BY <1>1, <2>2, Facts
    <3>2. [req[q] EXCEPT !.at = "credentials"] \in ReqType
      BY <3>1 DEF ReqType, Stages
    <3>3. req' = [SignOut(u, kept) EXCEPT ![q] = [req[q] EXCEPT !.at = "credentials"]]
      BY <2>2, <3>1
    <3>4. \A p \in Requests : req'[p] = IF p = q THEN [req[q] EXCEPT !.at = "credentials"] ELSE SignOut(u, kept)[p]
      BY <1>1, <3>3
    <3>5. req' \in [Requests -> ReqType]
      BY <1>1, <3>2, <3>3
    <3>6. ASSUME NEW p \in Requests PROVE req'[p] = req[p] \/ Out(p) \/ Up(p)
      <4>1. CASE p = q
        BY <2>2, <3>4, <4>1
      <4>2. CASE p # q
        BY <1>1, <3>4, <4>2
      <4> QED
        BY <4>1, <4>2
    <3> QED
      BY <3>5, <3>6
  <2> QED
    BY <2>1, <2>2
<1>3. \A p \in Requests : Fine(req'[p], pair, issued)
  <2> TAKE p \in Requests
  <2>1. Fine(req[p], pair, issued) /\ req[p] \in ReqType
    BY Facts
  <2>2. CASE Out(p)
    BY <2>1, <2>2 DEF Fine, ReqType
  <2>3. CASE Up(p)
    BY <2>1, <2>3 DEF Fine, ReqType
  <2> QED
    BY <1>2, <2>1, <2>2, <2>3
<1>4. \A p \in Requests : /\ req'[p].locked = req[p].locked
                          /\ req'[p].kind = req[p].kind /\ req'[p].pair = req[p].pair
                          /\ req'[p].at # req[p].at => req'[p].kind \in {"reset", "password"}
                          /\ \/ req'[p] = req[p]
                             \/ req'[p].kind \in {"consent", "reset", "password"}
  <2> TAKE p \in Requests
  <2>1. req[p] \in ReqType
    BY Facts
  <2> QED
    BY <1>2, <2>1 DEF ReqType
<1>5. \A i \in Pairs, p \in Requests : Holds(p, i)' <=> Holds(p, i)
  BY <1>4 DEF Holds
<1>6. \A p \in Requests : \/ req'[p] = req[p]
                          \/ req'[p].kind \notin {"exchange", "refresh"} /\ req'[p].at # "raced"
  BY <1>3, <1>4 DEF Fine
<1>7. \A p \in Requests : Fine(req'[p], pair', issued')
  BY <1>2, <1>3, FineStep
<1>8. \A i \in Pairs, p, s \in Requests : (Holds(p, i) /\ Holds(s, i))' => p = s
  BY <1>5, Facts
<1> QED
  BY <1>2, <1>6, <1>7, <1>8
-----------------------------------------------------------------------------
(* Type correctness, action by action.                                     *)

LEMMA ConsentType == ASSUME Inv1, NEW q \in Requests, Consent(q) PROVE Inv1'
<1> USE Facts
<1>1. ASSUME NEW u \in Users, NEW c \in Clients, BeginConsent(q, u, c) PROVE Inv1'
  <2> DEFINE r == [[About("consent", u) EXCEPT !.client = c] EXCEPT !.at = "ask"]
  <2>1. About("consent", u) \in ReqType /\ About("consent", u).locked = {}
        /\ About("consent", u).kind = "consent" /\ About("consent", u).user = u
    BY AboutType, KindsFact
  <2>3. r \in ReqType /\ Fine(r, pair, issued) /\ r.locked = {} /\ r.kind = "consent"
    BY <2>1 DEF ReqType, Stages, Fine
  <2>2. req' = [req EXCEPT ![q] = r]
    BY <1>1 DEF BeginConsent, Begin
  <2> HIDE DEF r
  <2> QED
    BY <1>1, <2>2, <2>3, MoveStep DEF BeginConsent, grants
<1>2. ASSUME NEW allow \in BOOLEAN, ApproveConsent(q, allow) PROVE Inv1'
  <2>1. CASE End(q)
    <3>1. PairStep
      BY <1>2, SamePairs DEF ApproveConsent, grants
    <3> QED
      BY <1>2, <2>1, <3>1, EndStep, TypeStep DEF ApproveConsent, grants
  <2>2. CASE ~End(q)
    <3> DEFINE r == [req[q] EXCEPT !.at = "issue", !.epoch = account[req[q].user].epoch]
    <3>1. req' = [req EXCEPT ![q] = r]
      BY <1>2, <2>2 DEF ApproveConsent
    <3>2. req[q].kind = "consent" /\ req[q].at = "ask" /\ req[q].user \in Users /\ req[q] \in ReqType
      BY <1>2 DEF ApproveConsent, Fine
    <3>3. account[req[q].user].epoch \in 0..MaxEpoch
      BY <3>2
    <3>4. r \in ReqType /\ r.kind = "consent" /\ r.at = "issue" /\ r.locked = {} /\ r.user \in Users
      BY <3>2, <3>3 DEF ReqType, Stages, Fine
    <3>5. Fine(r, pair, issued)
      BY <3>4 DEF Fine
    <3> QED
      BY <1>2, <3>1, <3>4, <3>5, MoveStep DEF ApproveConsent, grants
  <2> QED
    BY <2>1, <2>2
<1>3. ASSUME IssueCode(q) PROVE Inv1'
  <2>1. /\ approved' = approved + 1 /\ approved < MaxCodes /\ approved \in Nat /\ approved' \in Codes
        /\ req[q] \in ReqType /\ req[q].user \in Users
    BY <1>3, BoundsAssumption DEF IssueCode, Codes, Fine
  <2>2. /\ code' \in [Codes -> CodeType]
        /\ \A k \in Codes : code'[k] = IF k = approved'
                                       THEN [state |-> "pending", user |-> req[q].user,
                                             client |-> req[q].client, epoch |-> req[q].epoch]
                                       ELSE code[k]
    BY <1>3, <2>1 DEF IssueCode, CodeType, ReqType
  <2>3. \A k \in Codes : /\ code'[k].state = "none" <=> k > approved'
                         /\ code'[k].state # "none" => code'[k].user \in Users
    <3> TAKE k \in Codes
    <3>1. k \in Nat /\ (code[k].state = "none" <=> k > approved)
      BY DEF Codes
    <3>2. CASE k = approved'
      BY <2>1, <2>2, <3>2
    <3>3. CASE k # approved'
      BY <2>1, <2>2, <3>1, <3>3
    <3> QED
      BY <3>2, <3>3
  <2>4. approved' \in 0..MaxCodes
    BY <2>1 DEF Codes
  <2>5. Fine(NoRequest, pair, issued)
    BY DEF Fine, NoRequest
  <2> QED
    BY <1>3, <2>2, <2>3, <2>4, <2>5, NoRequestType, MoveStep DEF IssueCode, End, NoRequest
<1> QED
  BY <1>1, <1>2, <1>3 DEF Consent

LEMMA ExchangeType == ASSUME Inv1, NEW q \in Requests, Exchange(q) PROVE Inv1'
<1> USE Facts
<1>1. ASSUME NEW k \in Codes, NEW matches \in BOOLEAN, Redeem(q, k, matches) PROVE Inv1'
  <2>1. /\ code[k] \in CodeType /\ code[k].state = "pending" /\ code[k].user \in Users
        /\ code' = [code EXCEPT ![k] = [code[k] EXCEPT !.state = "gone"]]
        /\ UNCHANGED <<account, member, project, approved, pair, issued, raced>>
    BY <1>1 DEF Redeem
  <2>2. [code[k] EXCEPT !.state = "gone"] \in CodeType
    BY <2>1 DEF CodeType
  <2>3. /\ code' \in [Codes -> CodeType] /\ approved' \in 0..MaxCodes
        /\ \A j \in Codes : code'[j] = IF j = k THEN [code[k] EXCEPT !.state = "gone"] ELSE code[j]
    BY <2>1, <2>2
  <2>4. \A j \in Codes : /\ code'[j].state = "none" <=> j > approved'
                         /\ code'[j].state # "none" => code'[j].user \in Users
    BY <2>1, <2>3 DEF CodeType
  <2>5. CASE matches
    <3> DEFINE r == [[About("exchange", code[k].user) EXCEPT !.client = code[k].client, !.code = k,
                                                             !.epoch = code[k].epoch] EXCEPT !.at = "check"]
    <3>1. k \in 0..MaxCodes /\ code[k].client \in Clients \cup {None} /\ code[k].epoch \in 0..MaxEpoch
      BY <2>1 DEF CodeType, Codes
    <3>2. /\ r \in ReqType /\ r.locked = {} /\ r.at = "check" /\ r.kind = "exchange" /\ r.user \in Users
          /\ r.pair = 0 /\ r.code = k
      <4>1. /\ About("exchange", code[k].user) \in ReqType /\ About("exchange", code[k].user).locked = {}
            /\ About("exchange", code[k].user).kind = "exchange" /\ About("exchange", code[k].user).pair = 0
            /\ About("exchange", code[k].user).user \in Users
        BY <2>1, AboutType, KindsFact
      <4>2. "check" \in Stages /\ k \in 0..MaxCodes /\ code[k].client \in Clients \cup {None}
            /\ code[k].epoch \in 0..MaxEpoch
        BY <3>1 DEF Stages
      <4>3. r \in ReqType
        BY <4>1, <4>2 DEF ReqType
      <4>4. r.locked = {} /\ r.at = "check" /\ r.kind = "exchange" /\ r.user \in Users /\ r.pair = 0 /\ r.code = k
        BY <4>1, <4>2 DEF ReqType
      <4> QED
        BY <4>3, <4>4
    <3>3. Fine(r, pair, issued)
      BY <3>2 DEF Fine
    <3>4. req' = [req EXCEPT ![q] = r]
      BY <1>1, <2>5 DEF Redeem, Begin
    <3> HIDE DEF r
    <3> QED
      BY <2>1, <2>3, <2>4, <3>2, <3>3, <3>4, MoveStep
  <2>6. CASE ~matches
    <3>1. req' = req
      BY <1>1, <2>6 DEF Redeem
    <3>2. PairStep
      BY <2>1, SamePairs
    <3>3. \A i \in Pairs, p, s \in Requests : (Holds(p, i) /\ Holds(s, i))' => p = s
      BY <3>1 DEF Holds
    <3> QED
      BY <2>1, <2>3, <2>4, <3>1, <3>2, <3>3, TypeStep
  <2> QED
    BY <2>5, <2>6
<1>2. ASSUME CheckAccount(q) PROVE Inv1'
  <2>1. PairStep
    BY <1>2, SamePairs DEF CheckAccount, grants
  <2>2. CASE End(q)
    BY <1>2, <2>1, <2>2, EndStep, TypeStep DEF CheckAccount, grants
  <2>3. CASE Move(q, "insert")
    <3> DEFINE r == [req[q] EXCEPT !.at = "insert"]
    <3>1. req[q] \in ReqType /\ req[q].kind = "exchange" /\ req[q].at = "check" /\ Fine(req[q], pair, issued)
      BY <1>2 DEF CheckAccount
    <3>2. r \in ReqType /\ r.locked = {} /\ r.kind = "exchange"
      BY <3>1 DEF ReqType, Stages, Fine
    <3>3. Fine(r, pair, issued)
      BY <3>1, <3>2 DEF Fine, ReqType
    <3>4. req' = [req EXCEPT ![q] = r]
      BY <2>3 DEF Move
    <3> QED
      BY <1>2, <3>2, <3>3, <3>4, MoveStep DEF CheckAccount, grants
  <2> QED
    BY <1>2, <2>2, <2>3 DEF CheckAccount
<1>3. ASSUME InsertPair(q) PROVE Inv1'
  <2>1. End(q) /\ UNCHANGED <<account, member, project, code, approved, raced>>
        /\ req[q] \in ReqType /\ req[q].pair = 0 /\ req[q].user \in Users
    BY <1>3 DEF InsertPair, Fine
  <2>2. CASE project
    <3>1. IssuePair(req[q]) /\ req[q].pair \in 0..issued
      BY <1>3, <2>1, <2>2, PairTypes DEF InsertPair
    <3>2. PairStep /\ pair'[issued'].user = req[q].user
      <4>1. PairStep /\ pair'[issued'] = [access |-> "live", refresh |-> "live", user |-> req[q].user,
                                         client |-> req[q].client, code |-> req[q].code,
                                         epoch |-> req[q].epoch, from |-> req[q].pair]
        BY <2>1, <3>1, IssueStep
      <4> QED
        BY <4>1
    <3> QED
      BY <2>1, <3>2, EndStep, TypeStep
  <2>3. CASE ~project
    BY <1>3, <2>1, <2>3, SamePairs, EndStep, TypeStep DEF InsertPair
  <2> QED
    BY <2>2, <2>3
<1> QED
  BY <1>1, <1>2, <1>3 DEF Exchange
LEMMA GrantType == \A u, c : Grant(u, c) \subseteq Pairs
BY DEF Grant

\* The requests that present a token, those that wait and those that lock rows.
LEMMA PresentType == ASSUME Inv1, NEW q \in Requests, NEW i \in Pairs, PresentRefresh(q, i) PROVE Inv1'
<1> USE Facts
<1> DEFINE r == [About("refresh", pair[i].user) EXCEPT !.client = pair[i].client, !.code = pair[i].code,
                                                       !.pair = i, !.epoch = pair[i].epoch]
<1>1. i \in 1..issued /\ pair[i] \in PairType /\ pair[i].user \in Users
  <2>1. pair[i].refresh \in {"live", "revoked"} /\ pair[i] \in PairType
    BY PairTypes DEF PresentRefresh
  <2>2. pair[i].access # "none"
    BY <2>1, PairTypes
  <2> QED
    BY <2>1, <2>2, PairTypes
<1>2. i \in 0..MaxPairs /\ pair[i].client \in Clients \cup {None} /\ pair[i].code \in 0..MaxCodes
      /\ pair[i].epoch \in 0..MaxEpoch
  BY <1>1, PairTypes DEF PairType
<1>3. /\ r \in ReqType /\ r.locked = {} /\ r.kind = "refresh" /\ r.pair = i /\ r.user = pair[i].user
      /\ r.client = pair[i].client /\ r.code = pair[i].code /\ r.epoch = pair[i].epoch
  <2>1. /\ About("refresh", pair[i].user) \in ReqType /\ About("refresh", pair[i].user).locked = {}
        /\ About("refresh", pair[i].user).kind = "refresh"
        /\ About("refresh", pair[i].user).user = pair[i].user
    BY <1>1, AboutType, KindsFact
  <2> QED
    BY <1>2, <2>1 DEF ReqType
<1> HIDE DEF r
<1>4. UNCHANGED <<account, member, project, code, approved, pair, issued, raced>>
  BY DEF PresentRefresh, grants
<1>5. CASE req' = [req EXCEPT ![q] = [r EXCEPT !.at = "share"]]
  <2>1. [r EXCEPT !.at = "share"] \in ReqType /\ Fine([r EXCEPT !.at = "share"], pair, issued)
        /\ [r EXCEPT !.at = "share"].locked = {} /\ [r EXCEPT !.at = "share"].at = "share"
    BY <1>1, <1>3 DEF ReqType, Stages, Fine
  <2> QED
    BY <1>4, <1>5, <2>1, MoveStep
<1>6. CASE BeginRevokeGrant(q, r, "reuse")
  <2> DEFINE t == [r EXCEPT !.at = "reuse", !.todo = Grant(r.user, r.client), !.locked = {}]
  <2>1. t \in ReqType /\ t.locked = {} /\ t.at = "reuse" /\ Fine(t, pair, issued)
    BY <1>1, <1>3, GrantType DEF ReqType, Stages, Fine
  <2>2. req' = [req EXCEPT ![q] = t]
    BY <1>6 DEF BeginRevokeGrant
  <2> HIDE DEF t
  <2> QED
    BY <1>4, <2>1, <2>2, MoveStep
<1> QED
  BY <1>5, <1>6 DEF PresentRefresh, r

LEMMA HandBackType == ASSUME Inv1, NEW q \in Requests, NEW i \in Pairs, HandBack(q, i) PROVE Inv1'
<1> USE Facts
<1> DEFINE r == [About("handback", pair[i].user) EXCEPT !.client = pair[i].client, !.code = pair[i].code]
           t == [r EXCEPT !.at = "revoke", !.todo = Grant(r.user, r.client), !.locked = {}]
<1>1. pair[i] \in PairType /\ pair[i].user \in Users
  BY PairTypes DEF HandBack
<1>2. pair[i].client \in Clients \cup {None} /\ pair[i].code \in 0..MaxCodes
  BY <1>1 DEF PairType
<1>3. r \in ReqType /\ r.locked = {} /\ r.kind = "handback" /\ r.user \in Users
  <2>1. /\ About("handback", pair[i].user) \in ReqType /\ About("handback", pair[i].user).locked = {}
        /\ About("handback", pair[i].user).kind = "handback"
        /\ About("handback", pair[i].user).user = pair[i].user
    BY <1>1, AboutType, KindsFact
  <2> QED
    BY <1>1, <1>2, <2>1 DEF ReqType
<1>4. UNCHANGED <<account, member, project, code, approved, pair, issued, raced>>
      /\ req' = [req EXCEPT ![q] = t]
  BY DEF HandBack, grants, BeginRevokeGrant
<1> HIDE DEF r
<1>5. t \in ReqType /\ t.locked = {} /\ t.at = "revoke" /\ t.kind = "handback" /\ Fine(t, pair, issued)
  BY <1>3, GrantType DEF ReqType, Stages, Fine
<1> HIDE DEF t
<1> QED
  BY <1>4, <1>5, MoveStep

\* What a request is about does not change with the place it has reached.
SameGrant(t, r) ==
  /\ t.user = r.user /\ t.client = r.client /\ t.code = r.code /\ t.epoch = r.epoch
  /\ t.pair = r.pair /\ t.kind = r.kind /\ t.locked = r.locked

LEMMA AtStage ==
  ASSUME NEW r \in ReqType, NEW s \in Stages
  PROVE  [r EXCEPT !.at = s] \in ReqType /\ [r EXCEPT !.at = s].at = s /\ SameGrant([r EXCEPT !.at = s], r)
<1>1. [r EXCEPT !.at = s] \in ReqType /\ [r EXCEPT !.at = s].at = s
  BY DEF ReqType
<1>2. SameGrant([r EXCEPT !.at = s], r)
  BY DEF ReqType, SameGrant
<1> QED
  BY <1>1, <1>2

LEMMA RefreshType == ASSUME Inv1, NEW q \in Requests, Refresh(q) PROVE Inv1'
<1> USE Facts
<1> DEFINE at(s) == [req[q] EXCEPT !.at = s]
<1>1. CASE ShareRows(q)
  <2>1. req[q].kind = "refresh" /\ req[q].at = "share" /\ UNCHANGED <<account, member, project, code, approved, pair, issued, raced>>
    BY <1>1 DEF ShareRows, grants
  <2>2. CASE End(q)
    BY <2>1, <2>2, SamePairs, EndStep, TypeStep
  <2>3. CASE Move(q, "claim")
    <3>1. at("claim") \in ReqType /\ at("claim").locked = {} /\ at("claim").at = "claim" /\ Fine(at("claim"), pair, issued)
      <4>1. req[q] \in ReqType /\ Fine(req[q], pair, issued) /\ "claim" \in Stages
        BY DEF Stages
      <4>2. req[q].locked = {}
        BY <2>1, <4>1 DEF Fine
      <4>3. at("claim") \in ReqType /\ at("claim").at = "claim" /\ SameGrant(at("claim"), req[q])
        BY <4>1, AtStage
      <4> QED
        BY <2>1, <4>1, <4>2, <4>3 DEF Fine, SameGrant
    <3> QED
      BY <2>1, <2>3, <3>1, MoveStep DEF Move
  <2> QED
    BY <1>1, <2>2, <2>3 DEF ShareRows
<1>2. CASE ClaimRefresh(q)
  <2>1. /\ req[q].kind = "refresh" /\ req[q].at = "claim" /\ Unlocked(q, req[q].pair) /\ req[q].locked = {}
        /\ UNCHANGED <<account, member, project, code, approved, pair, issued, raced>>
    BY <1>2 DEF ClaimRefresh, grants, Fine
  <2>2. CASE Move(q, "insert")
    <3> DEFINE t == at("insert")
    <3>1. t \in ReqType /\ t.locked = {} /\ t.pair = req[q].pair /\ Fine(t, pair, issued)
      <4>1. req[q] \in ReqType /\ Fine(req[q], pair, issued) /\ "insert" \in Stages
        BY DEF Stages
      <4>2. t \in ReqType /\ t.at = "insert" /\ SameGrant(t, req[q])
        BY <4>1, AtStage
      <4> HIDE DEF t
      <4> QED
        BY <2>1, <4>1, <4>2 DEF Fine, SameGrant
    <3>2. req' = [req EXCEPT ![q] = t]
      BY <2>2 DEF Move
    <3> HIDE DEF t
    <3>3. \A i \in Pairs : i \in t.locked \/ (t.kind = "refresh" /\ t.at = "insert" /\ t.pair = i)
                           => Holds(q, i) \/ Unlocked(q, i)
      BY <2>1, <3>1
    <3> QED
      BY <2>1, <3>1, <3>2, <3>3, MoveStep
  <2>3. CASE BeginRevokeGrant(q, req[q], "raced")
    <3> DEFINE t == [req[q] EXCEPT !.at = "raced", !.todo = Grant(req[q].user, req[q].client), !.locked = {}]
    <3>1. t \in ReqType /\ t.locked = {} /\ t.at = "raced" /\ Fine(t, pair, issued)
      <4>1. req[q] \in ReqType /\ Fine(req[q], pair, issued) /\ "raced" \in Stages
            /\ Grant(req[q].user, req[q].client) \in SUBSET Pairs
        BY GrantType DEF Stages
      <4>2. t \in ReqType /\ t.at = "raced" /\ t.locked = {}
        BY <4>1 DEF ReqType
      <4>3. /\ t.user = req[q].user /\ t.client = req[q].client /\ t.code = req[q].code
            /\ t.epoch = req[q].epoch /\ t.pair = req[q].pair /\ t.kind = req[q].kind
        BY <4>1 DEF ReqType
      <4> HIDE DEF t
      <4> QED
        BY <2>1, <4>1, <4>2, <4>3 DEF Fine
    <3>2. req' = [req EXCEPT ![q] = t]
      BY <2>3 DEF BeginRevokeGrant
    <3> HIDE DEF t
    <3> QED
      BY <2>1, <3>1, <3>2, MoveStep
  <2> QED
    BY <1>2, <2>2, <2>3 DEF ClaimRefresh
<1>3. CASE RotatePair(q)
  <2>1. /\ IssuePair(req[q]) /\ End(q) /\ UNCHANGED <<account, member, project, code, approved, raced>>
        /\ req[q] \in ReqType /\ req[q].user \in Users /\ req[q].pair \in 0..issued
    BY <1>3, PairTypes DEF RotatePair, Fine
  <2>2. PairStep /\ pair'[issued'].user = req[q].user
    <3>1. PairStep /\ pair'[issued'] = [access |-> "live", refresh |-> "live", user |-> req[q].user,
                                        client |-> req[q].client, code |-> req[q].code,
                                        epoch |-> req[q].epoch, from |-> req[q].pair]
      BY <2>1, IssueStep
    <3> QED
      BY <3>1
  <2> QED
    BY <2>1, <2>2, EndStep, TypeStep
<1>4. CASE LockPair(q)
  <2>1. /\ req[q].at \in {"raced", "reuse", "revoke"}
        /\ UNCHANGED <<account, member, project, code, approved, pair, issued, raced>>
    BY <1>4 DEF LockPair, grants
  <2>2. PICK i \in req[q].todo : /\ Unlocked(q, i)
                                 /\ req' = [req EXCEPT ![q].todo = @ \ {i}, ![q].locked = @ \cup {i}]
    BY <1>4 DEF LockPair
  <2> DEFINE t == [req[q] EXCEPT !.todo = req[q].todo \ {i}, !.locked = req[q].locked \cup {i}]
  <2>3. req' = [req EXCEPT ![q] = t]
    BY <2>2
  <2>4. /\ t \in ReqType /\ t.at = req[q].at /\ t.kind = req[q].kind /\ t.pair = req[q].pair
        /\ t.locked = req[q].locked \cup {i}
    <3>1. /\ req[q] \in ReqType /\ req[q].todo \ {i} \in SUBSET Pairs
          /\ req[q].locked \cup {i} \in SUBSET Pairs
      BY <2>2 DEF ReqType
    <3> QED
      BY <3>1 DEF ReqType
  <2>5. Fine(t, pair, issued)
    <3>1. t.user = req[q].user /\ t.client = req[q].client /\ t.code = req[q].code /\ t.epoch = req[q].epoch
      BY DEF ReqType
    <3> QED
      BY <2>1, <2>4, <3>1 DEF Fine
  <2> HIDE DEF t
  <2>6. \A j \in Pairs : j \in t.locked \/ (t.kind = "refresh" /\ t.at = "insert" /\ t.pair = j)
                         => Holds(q, j) \/ Unlocked(q, j)
    BY <2>1, <2>2, <2>4 DEF Holds
  <2> QED
    BY <2>1, <2>3, <2>4, <2>5, <2>6, MoveStep
<1>5. CASE RevokeGrant(q)
  <2>1. /\ pair' = Without(req[q].locked) /\ End(q) /\ UNCHANGED <<account, member, project, code, approved, issued>>
        /\ req[q].locked \in SUBSET Pairs
    BY <1>5 DEF RevokeGrant, ReqType
  <2>2. PairStep
    BY <2>1, WithoutStep
  <2>3. raced' \subseteq Pairs
    <3>1. req[q].at = "raced" => req[q].pair \in Pairs
      BY PairTypes DEF Fine
    <3> QED
      BY <1>5, <3>1 DEF RevokeGrant
  <2> QED
    BY <2>1, <2>2, <2>3, EndStep, TypeStep
<1> QED
  BY <1>1, <1>2, <1>3, <1>4, <1>5, PresentType, HandBackType DEF Refresh

LEMMA EndCredentialsStep ==
  ASSUME Inv1, NEW u \in Users, RevokeOfUser(u)
  PROVE  /\ account' \in [Users -> [epoch : 0..MaxEpoch, usable : BOOLEAN]]
         /\ \A v \in Users : account'[v].usable = account[v].usable
         /\ \A v \in Users \ {u} : account'[v] = account[v]
         /\ pair' = Without({i \in Pairs : pair[i].user = u})
<1>1. account[u].epoch + 1 \in 0..MaxEpoch
  BY Facts, BoundsAssumption DEF RevokeOfUser
<1>2. [account[u] EXCEPT !.epoch = account[u].epoch + 1] \in [epoch : 0..MaxEpoch, usable : BOOLEAN]
  BY <1>1, Facts
<1>3. account' = [account EXCEPT ![u] = [account[u] EXCEPT !.epoch = account[u].epoch + 1]]
  BY DEF RevokeOfUser
<1> QED
  BY <1>2, <1>3, Facts DEF RevokeOfUser

\* An account that loses, or gets, what makes it usable.
LEMMA UsableStep ==
  ASSUME Inv1, NEW u \in Users, NEW b \in BOOLEAN, account' = [account EXCEPT ![u].usable = b]
  PROVE  /\ account' \in [Users -> [epoch : 0..MaxEpoch, usable : BOOLEAN]]
         /\ \A v \in Users : account'[v].epoch = account[v].epoch
         /\ \A v \in Users \ {u} : account'[v] = account[v]
<1>1. [account[u] EXCEPT !.usable = b] \in [epoch : 0..MaxEpoch, usable : BOOLEAN]
  BY Facts
<1> QED
  BY <1>1, Facts

LEMMA ChangeAccountType == ASSUME Inv1, NEW q \in Requests, ChangeAccount(q) PROVE Inv1'
<1> USE Facts
<1>1. ASSUME NEW u \in Users, NEW reset \in BOOLEAN, SetPassword(q, u, reset) PROVE Inv1'
  <2> DEFINE r == [About(IF reset THEN "reset" ELSE "password", u) EXCEPT !.at = "sessions"]
  <2>1. r \in ReqType /\ r.locked = {} /\ r.at = "sessions" /\ r.kind \in {"reset", "password"} /\ r.user = u
    <3>1. PICK k \in {"reset", "password"} : k = IF reset THEN "reset" ELSE "password"
      OBVIOUS
    <3>2. /\ About(k, u) \in ReqType /\ About(k, u).locked = {} /\ About(k, u).kind = k /\ About(k, u).user = u
      BY <3>1, AboutType, KindsFact
    <3> QED
      BY <3>1, <3>2 DEF ReqType, Stages
  <2>2. req' = [req EXCEPT ![q] = r] /\ UNCHANGED <<member, project, code, approved, pair, issued, raced>>
    BY <1>1 DEF SetPassword, Begin, grants
  <2> HIDE DEF r
  <2>3. Fine(r, pair, issued)
    BY <2>1 DEF Fine
  <2>4. PairStep
    BY <2>2, SamePairs
  <2>5. \A p \in Requests : Fine(req'[p], pair, issued)
    BY <2>2, <2>3
  <2>6. \A p \in Requests : Fine(req'[p], pair', issued')
    BY <2>2, <2>5
  <2>7. account' \in [Users -> [epoch : 0..MaxEpoch, usable : BOOLEAN]]
    BY <1>1, UsableStep DEF SetPassword
  <2> QED
    BY <2>1, <2>2, <2>4, <2>6, <2>7, RequestStep, TypeStep
<1>2. ASSUME EndSessions(q) PROVE Inv1'
  <2>1. /\ req[q].kind \in {"reset", "password"} /\ req[q].at = "sessions" /\ req[q].user \in Users
        /\ UNCHANGED <<account, member, project, code, approved, pair, issued, raced>>
    BY <1>2 DEF EndSessions, grants, Fine
  <2>2. PICK kept \in SUBSET Requests : req' = [SignOut(req[q].user, kept) EXCEPT ![q].at = "credentials"]
    BY <1>2 DEF EndSessions
  <2>3. PairStep
    BY <2>1, SamePairs
  <2> QED
    BY <2>1, <2>2, <2>3, SignOutStep, TypeStep
<1>3. ASSUME EndCredentials(q) PROVE Inv1'
  <2>1. /\ req[q].user \in Users /\ RevokeOfUser(req[q].user) /\ End(q)
        /\ UNCHANGED <<member, project, code, approved, issued, raced>>
    BY <1>3 DEF EndCredentials, Fine
  <2>2. PairStep
    BY <2>1, EndCredentialsStep, WithoutStep
  <2> QED
    BY <2>1, <2>2, EndCredentialsStep, EndStep, TypeStep
<1> QED
  BY <1>1, <1>2, <1>3 DEF ChangeAccount

LEMMA AccountType ==
  ASSUME Inv1, NEW u \in Users, Unlink(u) \/ Disable(u) \/ Enable(u) \/ CloseSessions(u) \/ ChangeMembership(u)
  PROVE  Inv1'
<1> USE Facts
<1>1. CASE Unlink(u)
  <2>1. RevokeOfUser(u) /\ req' = SignOut(u, {}) /\ UNCHANGED <<member, project, code, approved, issued, raced>>
    BY <1>1 DEF Unlink
  <2>2. PairStep
    BY <2>1, EndCredentialsStep, WithoutStep
  <2>3. PICK kept \in SUBSET Requests : req' = SignOut(u, kept)
    BY <2>1
  <2>4. account' \in [Users -> [epoch : 0..MaxEpoch, usable : BOOLEAN]]
    BY <2>1, EndCredentialsStep
  <2> QED
    BY <2>1, <2>2, <2>3, <2>4, SignOutStep, TypeStep
<1>2. CASE CloseSessions(u)
  <2>1. req' = SignOut(u, {}) /\ UNCHANGED <<account, member, project, code, approved, pair, issued, raced>>
    BY <1>2 DEF CloseSessions, grants
  <2>2. PICK kept \in SUBSET Requests : req' = SignOut(u, kept)
    BY <2>1
  <2>3. PairStep
    BY <2>1, SamePairs
  <2> QED
    BY <2>1, <2>2, <2>3, SignOutStep, TypeStep
<1>3. CASE Disable(u) \/ Enable(u) \/ ChangeMembership(u)
  <2>1. UNCHANGED <<project, code, approved, pair, issued, raced, req>>
        /\ member' \subseteq Users /\ account' \in [Users -> [epoch : 0..MaxEpoch, usable : BOOLEAN]]
    BY <1>3, UsableStep DEF Disable, Enable, ChangeMembership, grants
  <2>2. \A i \in Pairs, p, q \in Requests : (Holds(p, i) /\ Holds(q, i))' => p = q
    BY <2>1 DEF Holds
  <2> QED
    BY <2>1, <2>2, SamePairs, TypeStep
<1> QED
  BY <1>1, <1>2, <1>3

\* An expiry and the end of the project; a failure and a restart.
LEMMA ExpireType == ASSUME Inv1, NEW i \in Pairs, ExpireRefresh(i) PROVE Inv1' /\ PairStep
<1> USE Facts
<1> DEFINE t == IF pair[i].access = "live" THEN "expired" ELSE pair[i].access
<1>1. pair[i] \in PairType /\ pair[i].refresh = "live" /\ t \in States /\ i <= issued
  BY PairTypes DEF ExpireRefresh, PairType, States
<1>2. pair' = [pair EXCEPT ![i] = [pair[i] EXCEPT !.refresh = "expired", !.access = t]]
  BY DEF ExpireRefresh
<1> HIDE DEF t
<1>3. [pair[i] EXCEPT !.refresh = "expired", !.access = t] \in PairType
  BY <1>1 DEF PairType, States
<1>4. pair' \in [Pairs -> PairType] /\ \A j \in Pairs \ {i} : pair'[j] = pair[j]
  BY <1>2, <1>3, PairTypes
<1>5. pair'[i] = [pair[i] EXCEPT !.refresh = "expired", !.access = t]
  BY <1>2, PairTypes
<1>6. /\ Identity(i)' = Identity(i) /\ Unspent(i) /\ Standing(i) /\ Live(i)
      /\ pair'[i].access = "none" <=> pair[i].access = "none"
  BY <1>1, <1>5 DEF Identity, Unspent, Standing, Live, PairType, t
<1>7. UNCHANGED <<account, member, project, code, approved, issued, req, raced>>
  BY DEF ExpireRefresh
<1>8. PairStep
  <2>1. \A j \in Pairs : j # i => /\ Identity(j)' = Identity(j)
                                  /\ Unspent(j)' => Unspent(j)
                                  /\ Standing(j)' => Standing(j)
                                  /\ Live(j)' => Live(j)
    BY <1>4 DEF Identity, Unspent, Standing, Live
  <2> QED
    BY <1>1, <1>4, <1>6, <1>7, <2>1, PairTypes DEF PairStep
<1>9. \A j \in Pairs, p, q \in Requests : (Holds(p, j) /\ Holds(q, j))' => p = q
  BY <1>7 DEF Holds
<1>10. \A q \in Requests : Fine(req'[q], pair', issued')
  BY <1>7, <1>8, FineStep
<1> QED
  BY <1>7, <1>8, <1>9, <1>10, TypeStep

LEMMA DeletedPairs == ASSUME Inv1, DeleteProject PROVE PairStep /\ \A i \in Pairs : ~Standing(i)' /\ ~Unspent(i)' /\ ~Live(i)'
<1>1. /\ issued' = issued
      /\ pair' = [i \in Pairs |-> IF i <= issued
                                  THEN [pair[i] EXCEPT !.access = "deleted", !.refresh = "deleted"]
                                  ELSE pair[i]]
  BY DEF DeleteProject
<1>2. \A i \in Pairs : i <= issued =>
        /\ pair'[i] \in PairType /\ Identity(i)' = Identity(i)
        /\ pair'[i].access = "deleted" /\ pair'[i].refresh = "deleted"
  <2> SUFFICES ASSUME NEW i \in Pairs, i <= issued
               PROVE  /\ pair'[i] \in PairType /\ Identity(i)' = Identity(i)
                      /\ pair'[i].access = "deleted" /\ pair'[i].refresh = "deleted"
    OBVIOUS
  <2>1. pair[i] \in PairType
    BY PairTypes
  <2>2. pair'[i] = [pair[i] EXCEPT !.access = "deleted", !.refresh = "deleted"]
    BY <1>1
  <2>3. pair'[i] \in PairType /\ pair'[i].access = "deleted" /\ pair'[i].refresh = "deleted"
    BY <2>1, <2>2 DEF PairType, States
  <2>4. Identity(i)' = Identity(i)
    BY <2>1, <2>2 DEF PairType, Identity
  <2> QED
    BY <2>3, <2>4
<1>3. \A i \in Pairs : i > issued => pair'[i] = pair[i] /\ pair[i].access = "none" /\ pair[i].refresh = "none"
  <2>1. \A i \in Pairs : i > issued => ~(i <= issued) /\ pair[i].access = "none"
    BY PairTypes
  <2>2. \A i \in Pairs : i > issued => pair[i].refresh = "none"
    BY <2>1, PairTypes
  <2> QED
    BY <1>1, <2>1, <2>2
<1>4. \A i \in Pairs : ~Standing(i)' /\ ~Unspent(i)' /\ ~Live(i)'
  BY <1>2, <1>3, PairTypes DEF Standing, Unspent, Live
<1>5. pair' \in [Pairs -> PairType]
  <2>1. \A i \in Pairs : pair'[i] \in PairType
    BY <1>2, <1>3, PairTypes
  <2> QED
    BY <1>1, <2>1
<1>6. issued' \in {issued, issued + 1} /\ issued' <= MaxPairs
  <2>1. issued' = issued
    BY <1>1
  <2> QED
    BY <2>1, PairTypes
<1>7. \A i \in Pairs : /\ pair'[i].access = "none" <=> i > issued'
                       /\ pair'[i].refresh # "none" => i <= issued'
  BY <1>1, <1>2, <1>3, PairTypes
<1> QED
  BY <1>2, <1>4, <1>5, <1>6, <1>7 DEF PairStep

LEMMA OtherType ==
  ASSUME Inv1, \/ \E q \in Requests : Fail(q)
               \/ \E k \in Codes : ExpireCode(k)
               \/ DeleteProject \/ Restart
  PROVE  Inv1'
<1> USE Facts
<1>1. CASE \E q \in Requests : Fail(q)
  BY <1>1, SamePairs, EndStep, TypeStep DEF Fail, grants
<1>2. ASSUME NEW k \in Codes, ExpireCode(k) PROVE Inv1'
  <2>1. /\ code[k] \in CodeType /\ code[k].state = "pending"
        /\ code' = [code EXCEPT ![k] = [code[k] EXCEPT !.state = "gone"]]
        /\ UNCHANGED <<account, member, project, approved, pair, issued, req, raced>>
    BY <1>2 DEF ExpireCode
  <2>2. [code[k] EXCEPT !.state = "gone"] \in CodeType /\ [code[k] EXCEPT !.state = "gone"].user = code[k].user
        /\ [code[k] EXCEPT !.state = "gone"].state = "gone"
    BY <2>1 DEF CodeType
  <2>3. /\ code' \in [Codes -> CodeType]
        /\ \A j \in Codes : code'[j] = IF j = k THEN [code[k] EXCEPT !.state = "gone"] ELSE code[j]
    BY <2>1, <2>2
  <2>4. \A j \in Codes : /\ code'[j].state = "none" <=> j > approved'
                         /\ code'[j].state # "none" => code'[j].user \in Users
    BY <2>1, <2>2, <2>3
  <2>5. \A i \in Pairs, p, q \in Requests : (Holds(p, i) /\ Holds(q, i))' => p = q
    BY <2>1 DEF Holds
  <2> QED
    BY <2>1, <2>3, <2>4, <2>5, SamePairs, TypeStep
<1>3. CASE DeleteProject
  <2>1. PairStep /\ project' = FALSE /\ UNCHANGED <<account, member, code, approved, issued, req, raced>>
    BY <1>3, DeletedPairs DEF DeleteProject
  <2>2. \A i \in Pairs, p, q \in Requests : (Holds(p, i) /\ Holds(q, i))' => p = q
    BY <2>1 DEF Holds
  <2>3. \A q \in Requests : Fine(req'[q], pair', issued')
    BY <2>1, FineStep
  <2> QED
    BY <2>1, <2>2, <2>3, TypeStep
<1>4. CASE Restart
  <2>1. UNCHANGED <<account, member, project, approved, pair, issued, raced>> /\ req' = [q \in Requests |-> NoRequest]
    BY <1>4 DEF Restart
  <2>2. /\ code' \in [Codes -> CodeType]
        /\ \A k \in Codes : code'[k] = IF code[k].state = "pending" THEN [code[k] EXCEPT !.state = "gone"] ELSE code[k]
    BY <1>4 DEF Restart, CodeType
  <2>3. \A k \in Codes : /\ code'[k].state = "none" <=> code[k].state = "none"
                         /\ code'[k].user = code[k].user
    BY <2>2 DEF CodeType
  <2>4. req' \in [Requests -> ReqType] /\ \A q \in Requests : Fine(req'[q], pair', issued')
    BY <2>1, NoRequestType DEF Fine, NoRequest
  <2>5. \A i \in Pairs, p, q \in Requests : (Holds(p, i) /\ Holds(q, i))' => p = q
    BY <2>1 DEF Holds, NoRequest
  <2> QED
    BY <2>1, <2>2, <2>3, <2>4, <2>5, SamePairs, TypeStep
<1> QED
  BY <1>1, <1>2, <1>3, <1>4

LEMMA StutterType == ASSUME Inv1, UNCHANGED vars PROVE Inv1'
BY DEF Inv1, TypeOK, RequestInv, Holds, Fine, vars, grants

LEMMA Inv1Step == Inv1 /\ [Next]_vars => Inv1'
BY ConsentType, ExchangeType, RefreshType, ChangeAccountType, AccountType, ExpireType, OtherType, StutterType
DEF Next

\* Types, and no row of a token is locked by two (Grants.TypeOK).
THEOREM TypeCorrect == Spec => []TypeOK
<1>1. Inv1 => TypeOK
  BY DEF Inv1
<1> QED
  BY <1>1, InitType, Inv1Step, PTL DEF Spec

-----------------------------------------------------------------------------
(* What makes the properties inductive.                                    *)

\* Who is about to insert a pair has what it takes, and keeps it: the account's row is
\* shared, the refresh token's is locked.
AboutToInsert ==
  \A q \in Requests :
    /\ req[q].kind = "exchange" /\ req[q].at = "insert" => MayBeGranted(req[q])
    /\ req[q].kind = "refresh" /\ req[q].at = "insert" => Unspent(req[q].pair)

EpochInv == \A i \in Pairs : Standing(i) => pair[i].epoch = account[pair[i].user].epoch

\* A code is with the store, with one exchange, or in a pair.
CodeInv ==
  /\ \A i \in Pairs : i <= issued => pair[i].code \in 1..approved /\ code[pair[i].code].state = "gone"
  /\ \A q \in Requests : req[q].kind = "exchange" =>
       /\ req[q].code \in 1..approved /\ code[req[q].code].state = "gone"
       /\ \A i \in 1..issued : pair[i].code # req[q].code
       /\ \A p \in Requests : req[p].kind = "exchange" /\ req[p].code = req[q].code => p = q
  /\ CodeGivesOnePair

\* Of one approval at most one refresh token was neither revoked nor handed on.
RefreshInv == \A i, j \in Pairs : Unspent(i) /\ Unspent(j) /\ pair[i].code = pair[j].code => i = j

\* The pairs a refresh token was exchanged for belong to its grant; once the token is spent
\* there will be no other.
RacedInv ==
  /\ \A i \in 1..issued : pair[i].from # 0 =>
       pair[i].from \in 1..issued /\ pair[pair[i].from].user = pair[i].user
                                  /\ pair[pair[i].from].client = pair[i].client
  /\ \A i \in raced : i \in 1..issued /\ ~Unspent(i) /\ \A j \in Pairs : pair[j].from = i => ~Live(j)
  /\ \A q \in Requests : req[q].at = "raced" =>
       /\ ~Unspent(req[q].pair)
       /\ \A j \in Pairs : pair[j].from = req[q].pair /\ Live(j) => j \in req[q].todo \cup req[q].locked

GrantsInv == Inv1 /\ AboutToInsert /\ EpochInv /\ CodeInv /\ RefreshInv /\ RacedInv
-----------------------------------------------------------------------------
(* The steps, by what they do to the grants.                               *)

\* No request is on its way to a pair, or revoking one it lost the race for, that was not.
AllKeep == \A p \in Requests : req'[p].kind \in {"exchange", "refresh"} => req'[p] = req[p]
OthersKeep(q) == \A p \in Requests \ {q} : req'[p] = req[p]
\* Codes are made and used up.
CodesGoOn ==
  /\ approved' \in Nat /\ approved <= approved'
  /\ \A k \in 1..approved : code[k].state = "gone" => code'[k].state = "gone"

Quiet == AllKeep /\ CodesGoOn /\ UNCHANGED <<account, member, pair, issued, raced>>
AccountStep(u) ==
  /\ AllKeep /\ AccountFree(u) /\ UNCHANGED <<code, approved, pair, issued, raced>>
  /\ \A v \in Users : /\ account'[v].epoch = account[v].epoch
                      /\ v # u => account'[v] = account[v] /\ (v \in member' <=> v \in member)
RevokeStep(u) == AllKeep /\ RevokeOfUser(u) /\ UNCHANGED <<member, code, approved, issued, raced>>
RedeemStep(q, k) ==
  /\ OthersKeep(q) /\ req'[q].kind = "exchange" /\ req'[q].at = "check" /\ req'[q].code = k
  /\ k \in 1..approved /\ code[k].state = "pending" /\ code'[k].state = "gone"
  /\ CodesGoOn /\ UNCHANGED <<account, member, approved, pair, issued, raced>>
\* A request that has begun moves on.
Goes(q, at) ==
  /\ OthersKeep(q) /\ req'[q].at = at
  /\ req'[q].kind = req[q].kind /\ req'[q].user = req[q].user /\ req'[q].client = req[q].client
  /\ req'[q].code = req[q].code /\ req'[q].pair = req[q].pair /\ req'[q].epoch = req[q].epoch
GoesStep(q, at) == Goes(q, at) /\ UNCHANGED <<account, member, code, approved, pair, issued, raced>>
PresentStep(q) ==
  /\ OthersKeep(q) /\ req'[q].kind = "refresh" /\ req'[q].at \in {"share", "reuse"}
  /\ UNCHANGED <<account, member, code, approved, pair, issued, raced>>

LEMMA SameCodes == ASSUME Inv1, UNCHANGED <<code, approved>> PROVE CodesGoOn
BY PairTypes DEF CodesGoOn

LEMMA EndKeeps == ASSUME Inv1, NEW q \in Requests, End(q) PROVE AllKeep
BY Facts DEF End, AllKeep, NoRequest

LEMMA ConsentKind == ASSUME Inv1, NEW q \in Requests, Consent(q) PROVE Quiet
<1> USE Facts
<1>1. ASSUME NEW u \in Users, NEW c \in Clients, BeginConsent(q, u, c) PROVE Quiet
  <2> DEFINE r == [[About("consent", u) EXCEPT !.client = c] EXCEPT !.at = "ask"]
  <2>1. About("consent", u) \in ReqType /\ About("consent", u).kind = "consent"
    BY AboutType, KindsFact
  <2>2. r.kind = "consent"
    BY <2>1 DEF ReqType
  <2>3. req' = [req EXCEPT ![q] = r] /\ UNCHANGED <<account, member, code, approved, pair, issued, raced>>
    BY <1>1 DEF BeginConsent, Begin, grants
  <2> HIDE DEF r
  <2> QED
    BY <2>2, <2>3, SameCodes DEF Quiet, AllKeep
<1>2. ASSUME NEW allow \in BOOLEAN, ApproveConsent(q, allow) PROVE Quiet
  <2>1. UNCHANGED <<account, member, code, approved, pair, issued, raced>>
    BY <1>2 DEF ApproveConsent, grants
  <2>2. CASE End(q)
    BY <2>1, <2>2, EndKeeps, SameCodes DEF Quiet
  <2>3. CASE ~End(q)
    <3>1. req' = [req EXCEPT ![q].at = "issue", ![q].epoch = account[req[q].user].epoch]
          /\ req[q].kind = "consent" /\ req[q] \in ReqType
      BY <1>2, <2>3 DEF ApproveConsent
    <3>2. req'[q].kind = "consent" /\ OthersKeep(q)
      BY <3>1 DEF ReqType, OthersKeep
    <3> QED
      BY <2>1, <3>2, SameCodes DEF Quiet, AllKeep, OthersKeep
  <2> QED
    BY <2>2, <2>3
<1>3. ASSUME IssueCode(q) PROVE Quiet
  <2>1. /\ approved' = approved + 1 /\ End(q) /\ UNCHANGED <<account, member, pair, issued, raced>>
        /\ \A k \in 1..approved : code'[k] = code[k]
    BY <1>3, PairTypes, BoundsAssumption DEF IssueCode, Codes
  <2>2. CodesGoOn
    BY <2>1, PairTypes DEF CodesGoOn
  <2> QED
    BY <2>1, <2>2, EndKeeps DEF Quiet
<1> QED
  BY <1>1, <1>2, <1>3 DEF Consent

LEMMA ExchangeKind ==
  ASSUME Inv1, NEW q \in Requests, Exchange(q)
  PROVE  \/ Quiet
         \/ \E k \in Codes : RedeemStep(q, k)
         \/ GoesStep(q, "insert") /\ req[q].kind = "exchange" /\ MayBeGranted(req[q])
         \/ InsertPair(q) /\ project
<1> USE Facts
<1>1. ASSUME NEW k \in Codes, NEW matches \in BOOLEAN, Redeem(q, k, matches) PROVE Quiet \/ RedeemStep(q, k)
  <2>1. /\ code[k].state = "pending" /\ code' = [code EXCEPT ![k].state = "gone"] /\ code[k] \in CodeType
        /\ UNCHANGED <<account, member, approved, pair, issued, raced>>
    BY <1>1 DEF Redeem
  <2>2. code'[k].state = "gone" /\ \A j \in Codes \ {k} : code'[j] = code[j]
    BY <2>1 DEF CodeType
  <2>3. k \in 1..approved /\ 1..approved \subseteq Codes /\ approved \in Nat
    BY <2>1, BoundsAssumption DEF Codes
  <2>4. CodesGoOn
    BY <2>1, <2>2, <2>3 DEF CodesGoOn
  <2>5. CASE matches
    <3> DEFINE r == [[About("exchange", code[k].user) EXCEPT !.client = code[k].client, !.code = k,
                                                             !.epoch = code[k].epoch] EXCEPT !.at = "check"]
    <3>1. /\ About("exchange", code[k].user) \in ReqType /\ About("exchange", code[k].user).kind = "exchange"
      BY <2>1, AboutType, KindsFact
    <3>2. r.at = "check" /\ r.kind = "exchange" /\ r.code = k
      BY <3>1 DEF ReqType
    <3>3. req' = [req EXCEPT ![q] = r]
      BY <1>1, <2>5 DEF Redeem, Begin
    <3> HIDE DEF r
    <3> QED
      BY <2>1, <2>2, <2>3, <2>4, <3>2, <3>3 DEF RedeemStep, OthersKeep
  <2>6. CASE ~matches
    BY <1>1, <2>1, <2>4, <2>6 DEF Redeem, Quiet, AllKeep
  <2> QED
    BY <2>5, <2>6
<1>2. ASSUME CheckAccount(q)
      PROVE  \/ Quiet
             \/ GoesStep(q, "insert") /\ req[q].kind = "exchange" /\ MayBeGranted(req[q])
  <2>1. UNCHANGED <<account, member, code, approved, pair, issued, raced>> /\ req[q].kind = "exchange" /\ req[q] \in ReqType
    BY <1>2 DEF CheckAccount, grants
  <2>2. CASE End(q)
    <3>1. AllKeep /\ CodesGoOn
      BY <2>1, <2>2, EndKeeps, SameCodes
    <3>2. Quiet
      BY <2>1, <3>1 DEF Quiet
    <3> QED
      BY <3>2
  <2>3. CASE Move(q, "insert") /\ MayBeGranted(req[q])
    <3>1. Goes(q, "insert")
      BY <2>1, <2>3 DEF Move, Goes, OthersKeep, ReqType
    <3> QED
      BY <2>1, <2>3, <3>1 DEF GoesStep
  <2> QED
    BY <1>2, <2>2, <2>3 DEF CheckAccount
<1>3. ASSUME InsertPair(q), ~project PROVE Quiet
  BY <1>3, EndKeeps, SameCodes DEF InsertPair, Quiet
<1> QED
  BY <1>1, <1>2, <1>3 DEF Exchange

LEMMA RefreshKind ==
  ASSUME Inv1, NEW q \in Requests, Refresh(q)
  PROVE  \/ Quiet
         \/ PresentStep(q)
         \/ GoesStep(q, "claim")
         \/ GoesStep(q, "insert") /\ req[q].kind = "refresh" /\ Unspent(req[q].pair)
         \/ /\ GoesStep(q, "raced") /\ req[q].kind = "refresh" /\ ~Unspent(req[q].pair)
            /\ req'[q].todo = Grant(req[q].user, req[q].client)
         \/ /\ GoesStep(q, req[q].at) /\ req[q].at \in {"raced", "reuse", "revoke"}
            /\ req'[q].todo \cup req'[q].locked = req[q].todo \cup req[q].locked
         \/ RotatePair(q) \/ RevokeGrant(q)
<1> USE Facts
<1>1. ASSUME NEW i \in Pairs, PresentRefresh(q, i) PROVE PresentStep(q)
  <2> DEFINE r == [About("refresh", pair[i].user) EXCEPT !.client = pair[i].client, !.code = pair[i].code,
                                                         !.pair = i, !.epoch = pair[i].epoch]
  <2>1. pair[i].user \in Users
    <3>1. pair[i].refresh \in {"live", "revoked"}
      BY <1>1 DEF PresentRefresh
    <3>2. i <= issued
      BY <3>1, PairTypes
    <3> QED
      BY <3>2
  <2>2. About("refresh", pair[i].user) \in ReqType /\ About("refresh", pair[i].user).kind = "refresh"
    BY <2>1, AboutType, KindsFact
  <2>3. /\ [r EXCEPT !.at = "share"].kind = "refresh" /\ [r EXCEPT !.at = "share"].at = "share"
        /\ [r EXCEPT !.at = "reuse", !.todo = Grant(r.user, r.client), !.locked = {}].kind = "refresh"
        /\ [r EXCEPT !.at = "reuse", !.todo = Grant(r.user, r.client), !.locked = {}].at = "reuse"
    BY <2>2 DEF ReqType
  <2>4. UNCHANGED <<account, member, code, approved, pair, issued, raced>>
    BY <1>1 DEF PresentRefresh, grants
  <2>5. \/ req' = [req EXCEPT ![q] = [r EXCEPT !.at = "share"]]
        \/ req' = [req EXCEPT ![q] = [r EXCEPT !.at = "reuse", !.todo = Grant(r.user, r.client), !.locked = {}]]
    BY <1>1 DEF PresentRefresh, BeginRevokeGrant
  <2> HIDE DEF r
  <2> QED
    <3>1. req'[q].kind = "refresh" /\ req'[q].at \in {"share", "reuse"}
      BY <2>3, <2>5
    <3>2. OthersKeep(q)
      BY <2>5 DEF OthersKeep
    <3> QED
      BY <2>4, <3>1, <3>2 DEF PresentStep
<1>2. ASSUME NEW i \in Pairs, HandBack(q, i) PROVE Quiet
  <2> DEFINE r == [About("handback", pair[i].user) EXCEPT !.client = pair[i].client, !.code = pair[i].code]
             t == [r EXCEPT !.at = "revoke", !.todo = Grant(r.user, r.client), !.locked = {}]
  <2>1. pair[i].user \in Users
    BY <1>2, PairTypes DEF HandBack
  <2>2. About("handback", pair[i].user) \in ReqType /\ About("handback", pair[i].user).kind = "handback"
    BY <2>1, AboutType, KindsFact
  <2>3. t.kind = "handback"
    BY <2>2 DEF ReqType
  <2>4. UNCHANGED <<account, member, code, approved, pair, issued, raced>> /\ req' = [req EXCEPT ![q] = t]
    BY <1>2 DEF HandBack, BeginRevokeGrant, grants
  <2> HIDE DEF t
  <2> QED
    BY <2>3, <2>4, SameCodes DEF Quiet, AllKeep
<1>3. ASSUME ShareRows(q) PROVE Quiet \/ GoesStep(q, "claim")
  <2>1. UNCHANGED <<account, member, code, approved, pair, issued, raced>> /\ req[q] \in ReqType
    BY <1>3 DEF ShareRows, grants
  <2>2. CASE End(q)
    <3>1. AllKeep /\ CodesGoOn
      BY <2>1, <2>2, EndKeeps, SameCodes
    <3>2. Quiet
      BY <2>1, <3>1 DEF Quiet
    <3> QED
      BY <3>2
  <2>3. CASE Move(q, "claim")
    <3>1. Goes(q, "claim")
      BY <2>1, <2>3 DEF Move, Goes, OthersKeep, ReqType
    <3> QED
      BY <2>1, <3>1 DEF GoesStep
  <2> QED
    BY <1>3, <2>2, <2>3 DEF ShareRows
<1>4. ASSUME ClaimRefresh(q)
      PROVE  \/ GoesStep(q, "insert") /\ req[q].kind = "refresh" /\ Unspent(req[q].pair)
             \/ /\ GoesStep(q, "raced") /\ req[q].kind = "refresh" /\ ~Unspent(req[q].pair)
                /\ req'[q].todo = Grant(req[q].user, req[q].client)
  <2>1. UNCHANGED <<account, member, code, approved, pair, issued, raced>> /\ req[q] \in ReqType /\ req[q].kind = "refresh"
    BY <1>4 DEF ClaimRefresh, grants
  <2>2. CASE Claims(req[q].pair)
    <3>1. Goes(q, "insert")
      BY <1>4, <2>1, <2>2 DEF ClaimRefresh, Move, Goes, OthersKeep, ReqType
    <3> QED
      BY <2>1, <2>2, <3>1 DEF GoesStep, Claims, Unspent
  <2>3. CASE ~Claims(req[q].pair)
    <3> DEFINE t == [req[q] EXCEPT !.at = "raced", !.todo = Grant(req[q].user, req[q].client), !.locked = {}]
    <3>2. req' = [req EXCEPT ![q] = t]
      BY <1>4, <2>3 DEF ClaimRefresh, BeginRevokeGrant
    <3>3. /\ t.at = "raced" /\ t.todo = Grant(req[q].user, req[q].client)
          /\ t.kind = req[q].kind /\ t.user = req[q].user /\ t.client = req[q].client
          /\ t.code = req[q].code /\ t.pair = req[q].pair /\ t.epoch = req[q].epoch
      BY <2>1 DEF ReqType
    <3> HIDE DEF t
    <3>1. Goes(q, "raced") /\ req'[q].todo = Grant(req[q].user, req[q].client)
      BY <3>2, <3>3 DEF Goes, OthersKeep
    <3> QED
      BY <2>1, <2>3, <3>1 DEF GoesStep, Claims, Unspent
  <2> QED
    BY <2>2, <2>3
<1>5. ASSUME LockPair(q)
      PROVE  /\ GoesStep(q, req[q].at) /\ req[q].at \in {"raced", "reuse", "revoke"}
             /\ req'[q].todo \cup req'[q].locked = req[q].todo \cup req[q].locked
  <2>1. UNCHANGED <<account, member, code, approved, pair, issued, raced>> /\ req[q] \in ReqType
        /\ req[q].at \in {"raced", "reuse", "revoke"}
    BY <1>5 DEF LockPair, grants
  <2>2. PICK i \in req[q].todo :
          req' = [req EXCEPT ![q] = [req[q] EXCEPT !.todo = req[q].todo \ {i}, !.locked = req[q].locked \cup {i}]]
    BY <1>5 DEF LockPair
  <2>3. Goes(q, req[q].at) /\ req'[q].todo = req[q].todo \ {i} /\ req'[q].locked = req[q].locked \cup {i}
    BY <2>1, <2>2 DEF Goes, OthersKeep, ReqType
  <2> QED
    BY <2>1, <2>3 DEF GoesStep
<1> QED
  BY <1>1, <1>2, <1>3, <1>4, <1>5 DEF Refresh

LEMMA AccountKind ==
  ASSUME Inv1, \/ \E q \in Requests : ChangeAccount(q)
               \/ \E u \in Users : Unlink(u) \/ Disable(u) \/ Enable(u) \/ CloseSessions(u) \/ ChangeMembership(u)
  PROVE  Quiet \/ \E u \in Users : AccountStep(u) \/ RevokeStep(u)
<1> USE Facts
<1>1. ASSUME NEW u \in Users, NEW kept \in SUBSET Requests, PairStep,
             \/ req' = SignOut(u, kept)
             \/ \E q \in Requests : /\ req[q].kind \in {"reset", "password"} /\ req[q].at = "sessions"
                                    /\ req' = [SignOut(u, kept) EXCEPT ![q].at = "credentials"]
      PROVE  AllKeep
  BY <1>1, SignOutStep DEF AllKeep
<1>2. ASSUME NEW q \in Requests, NEW u \in Users, NEW reset \in BOOLEAN, SetPassword(q, u, reset)
      PROVE  AccountStep(u)
  <2> DEFINE r == [About(IF reset THEN "reset" ELSE "password", u) EXCEPT !.at = "sessions"]
  <2>1. r.kind \in {"reset", "password"}
    <3>1. PICK k \in {"reset", "password"} : k = IF reset THEN "reset" ELSE "password"
      OBVIOUS
    <3>2. About(k, u) \in ReqType /\ About(k, u).kind = k
      BY <3>1, AboutType, KindsFact
    <3> QED
      BY <3>1, <3>2 DEF ReqType
  <2>2. /\ req' = [req EXCEPT ![q] = r] /\ UNCHANGED <<member, code, approved, pair, issued, raced>>
        /\ AccountFree(u) /\ account' = [account EXCEPT ![u].usable = ~reset]
    BY <1>2 DEF SetPassword, Begin, grants
  <2> HIDE DEF r
  <2>3. AllKeep
    BY <2>1, <2>2 DEF AllKeep
  <2>4. \A v \in Users : account'[v].epoch = account[v].epoch /\ (v # u => account'[v] = account[v])
    BY <2>2, UsableStep
  <2> QED
    BY <2>2, <2>3, <2>4 DEF AccountStep
<1>3. ASSUME NEW q \in Requests, EndSessions(q) PROVE Quiet
  <2>1. /\ req[q].kind \in {"reset", "password"} /\ req[q].at = "sessions" /\ req[q].user \in Users
        /\ UNCHANGED <<account, member, code, approved, pair, issued, raced>>
    BY <1>3 DEF EndSessions, grants, Fine
  <2>2. PICK kept \in SUBSET Requests : req' = [SignOut(req[q].user, kept) EXCEPT ![q].at = "credentials"]
    BY <1>3 DEF EndSessions
  <2>3. AllKeep
    BY <1>1, <2>1, <2>2, SamePairs
  <2> QED
    BY <2>1, <2>3, SameCodes DEF Quiet
<1>4. ASSUME NEW q \in Requests, EndCredentials(q) PROVE req[q].user \in Users /\ RevokeStep(req[q].user)
  BY <1>4, EndKeeps DEF EndCredentials, RevokeStep, Fine
<1>5. ASSUME NEW u \in Users, Unlink(u) PROVE RevokeStep(u)
  <2>1. RevokeOfUser(u) /\ UNCHANGED <<member, code, approved, issued, raced>>
    BY <1>5 DEF Unlink
  <2>2. PICK kept \in SUBSET Requests : req' = SignOut(u, kept)
    BY <1>5 DEF Unlink
  <2>3. AllKeep
    BY <1>1, <2>1, <2>2, EndCredentialsStep, WithoutStep
  <2> QED
    BY <2>1, <2>3 DEF RevokeStep
<1>6. ASSUME NEW u \in Users, CloseSessions(u) PROVE Quiet
  <2>1. UNCHANGED <<account, member, code, approved, pair, issued, raced>>
    BY <1>6 DEF CloseSessions, grants
  <2>2. PICK kept \in SUBSET Requests : req' = SignOut(u, kept)
    BY <1>6 DEF CloseSessions
  <2> QED
    BY <1>1, <2>1, <2>2, SamePairs, SameCodes DEF Quiet
<1>7. ASSUME NEW u \in Users, Disable(u) \/ Enable(u) PROVE AccountStep(u)
  BY <1>7, UsableStep DEF Disable, Enable, AccountStep, grants, AllKeep
<1>8. ASSUME NEW u \in Users, ChangeMembership(u) PROVE AccountStep(u)
  BY <1>8 DEF ChangeMembership, AccountStep, grants, AllKeep
<1> QED
  BY <1>2, <1>3, <1>4, <1>5, <1>6, <1>7, <1>8 DEF ChangeAccount

LEMMA OtherKind ==
  ASSUME Inv1, \/ \E q \in Requests : Fail(q)
               \/ \E k \in Codes : ExpireCode(k)
               \/ Restart \/ UNCHANGED vars
  PROVE  Quiet
<1> USE Facts
<1>1. CASE \E q \in Requests : Fail(q)
  BY <1>1, EndKeeps, SameCodes DEF Fail, Quiet, grants
<1>2. ASSUME NEW k \in Codes, ExpireCode(k) PROVE Quiet
  <2>1. /\ code' = [code EXCEPT ![k].state = "gone"] /\ code[k] \in CodeType
        /\ UNCHANGED <<account, member, approved, pair, issued, req, raced>>
    BY <1>2 DEF ExpireCode
  <2>2. code'[k].state = "gone" /\ \A j \in Codes \ {k} : code'[j] = code[j]
    BY <2>1 DEF CodeType
  <2>3. 1..approved \subseteq Codes /\ approved \in Nat
    BY BoundsAssumption DEF Codes
  <2> QED
    BY <2>1, <2>2, <2>3 DEF Quiet, CodesGoOn, AllKeep
<1>3. CASE Restart
  <2>1. /\ UNCHANGED <<account, member, approved, pair, issued, raced>> /\ req' = [q \in Requests |-> NoRequest]
        /\ \A k \in Codes : code[k].state = "gone" => code'[k] = code[k]
    BY <1>3 DEF Restart
  <2>2. 1..approved \subseteq Codes /\ approved \in Nat
    BY BoundsAssumption DEF Codes
  <2> QED
    BY <2>1, <2>2 DEF Quiet, CodesGoOn, AllKeep, NoRequest
<1>4. CASE UNCHANGED vars
  BY <1>4, SameCodes DEF Quiet, AllKeep, vars, grants
<1> QED
  BY <1>1, <1>2, <1>3, <1>4
\* Every step, by its kind.
LEMMA StepKinds ==
  ASSUME Inv1, [Next]_vars
  PROVE  \/ Quiet \/ DeleteProject
         \/ \E u \in Users : AccountStep(u) \/ RevokeStep(u)
         \/ \E i \in Pairs : ExpireRefresh(i)
         \/ \E q \in Requests :
              \/ \E k \in Codes : RedeemStep(q, k)
              \/ GoesStep(q, "insert") /\ req[q].kind = "exchange" /\ MayBeGranted(req[q])
              \/ InsertPair(q) /\ project
              \/ PresentStep(q) \/ GoesStep(q, "claim")
              \/ GoesStep(q, "insert") /\ req[q].kind = "refresh" /\ Unspent(req[q].pair)
              \/ /\ GoesStep(q, "raced") /\ req[q].kind = "refresh" /\ ~Unspent(req[q].pair)
                 /\ req'[q].todo = Grant(req[q].user, req[q].client)
              \/ /\ GoesStep(q, req[q].at) /\ req[q].at \in {"raced", "reuse", "revoke"}
                 /\ req'[q].todo \cup req'[q].locked = req[q].todo \cup req[q].locked
              \/ RotatePair(q) \/ RevokeGrant(q)
<1>1. ASSUME NEW q \in Requests, Consent(q) PROVE Quiet
  BY <1>1, ConsentKind
<1>2. CASE \/ \E q \in Requests : ChangeAccount(q)
           \/ \E u \in Users : Unlink(u) \/ Disable(u) \/ Enable(u) \/ CloseSessions(u) \/ ChangeMembership(u)
  BY <1>2, AccountKind
<1>3. CASE \/ \E q \in Requests : Fail(q)
           \/ \E k \in Codes : ExpireCode(k)
           \/ Restart \/ UNCHANGED vars
  BY <1>3, OtherKind
<1>4. CASE \E q \in Requests : Exchange(q) \/ Refresh(q)
  <2> PICK q \in Requests : Exchange(q) \/ Refresh(q)
    BY <1>4
  <2>1. CASE Exchange(q)
    BY <2>1, ExchangeKind
  <2>2. CASE Refresh(q)
    BY <2>2, RefreshKind
  <2> QED
    BY <2>1, <2>2
<1> QED
  BY <1>1, <1>2, <1>3, <1>4 DEF Next

\* What a pair inserted by an exchange, or by a rotation, looks like.
LEMMA NewPair ==
  ASSUME Inv1, NEW q \in Requests, (InsertPair(q) /\ project) \/ RotatePair(q)
  PROVE  /\ End(q) /\ OthersKeep(q) /\ AllKeep /\ UNCHANGED <<account, member, code, approved, raced>> /\ PairStep
         /\ issued' = issued + 1 /\ issued' \in Pairs
         /\ pair'[issued'] = [access |-> "live", refresh |-> "live", user |-> req[q].user,
                              client |-> req[q].client, code |-> req[q].code, epoch |-> req[q].epoch,
                              from |-> req[q].pair]
         /\ req[q].at = "insert" /\ req[q].user \in Users
         /\ \/ req[q].kind = "exchange" /\ req[q].pair = 0
            \/ req[q].kind = "refresh" /\ req[q].pair \in 1..issued /\ req[q].pair \in Pairs
               /\ pair'[req[q].pair].refresh \notin {"live", "expired"}
         /\ \A i \in Pairs : i # issued' /\ i # req[q].pair => pair'[i] = pair[i]
<1>1. /\ IssuePair(req[q]) /\ End(q) /\ UNCHANGED <<account, member, code, approved, raced>>
      /\ req[q].at = "insert" /\ req[q].kind \in {"exchange", "refresh"}
  BY DEF InsertPair, RotatePair
<1>2. req[q] \in ReqType /\ Fine(req[q], pair, issued)
  BY Facts
<1>3. req[q].user \in Users
  BY <1>1, <1>2 DEF Fine
<1>4. /\ req[q].kind = "exchange" => req[q].pair = 0
      /\ req[q].kind = "refresh" => req[q].pair \in 1..issued
  BY <1>2 DEF Fine
<1>5. req[q].pair \in 0..issued
  BY <1>1, <1>4, PairTypes
<1>6. OthersKeep(q) /\ AllKeep
  <2>1. OthersKeep(q)
    BY <1>1 DEF End, OthersKeep
  <2> QED
    BY <1>1, <2>1, EndKeeps
<1>7. req[q].kind = "refresh" => req[q].pair # 0
  BY <1>4
<1>8. /\ PairStep /\ issued' = issued + 1 /\ issued' \in Pairs
      /\ pair'[issued'] = [access |-> "live", refresh |-> "live", user |-> req[q].user,
                           client |-> req[q].client, code |-> req[q].code, epoch |-> req[q].epoch,
                           from |-> req[q].pair]
      /\ req[q].pair # 0 => req[q].pair \in Pairs /\ pair'[req[q].pair].refresh \notin {"live", "expired"}
      /\ \A i \in Pairs : i # issued' /\ i # req[q].pair => pair'[i] = pair[i]
  <2> DEFINE r == req[q]
  <2> HIDE DEF r
  <2>1. r \in ReqType /\ IssuePair(r) /\ r.pair \in 0..issued
    BY <1>1, <1>2, <1>5 DEF r
  <2>2. /\ PairStep /\ issued' = issued + 1 /\ issued' \in Pairs
        /\ pair'[issued'] = [access |-> "live", refresh |-> "live", user |-> r.user,
                             client |-> r.client, code |-> r.code, epoch |-> r.epoch,
                             from |-> r.pair]
        /\ r.pair # 0 => r.pair \in Pairs /\ pair'[r.pair].refresh \notin {"live", "expired"}
        /\ \A i \in Pairs : i # issued' /\ i # r.pair => pair'[i] = pair[i]
    BY <2>1, IssueStep DEF Unspent
  <2> QED
    BY <2>2 DEF r
<1> QED
  BY <1>1, <1>3, <1>4, <1>6, <1>7, <1>8

\* Whatever stands, is live or unspent after a step was issued.
LEMMA Issued ==
  ASSUME Inv1
  PROVE  \A i \in Pairs : Standing(i) \/ Live(i) \/ Unspent(i) => i <= issued /\ i \in 1..issued
<1> TAKE i \in Pairs
<1>1. Standing(i) \/ Live(i) \/ Unspent(i) => pair[i].access # "none" \/ pair[i].refresh # "none"
  BY DEF Standing, Live, Unspent
<1> QED
  BY <1>1, PairTypes

-----------------------------------------------------------------------------
(* Who is about to insert.                                                 *)

\* The other requests, while nothing of theirs is touched.
LEMMA InsertersKeep ==
  ASSUME Inv1, AboutToInsert, NEW q \in Requests, OthersKeep(q), UNCHANGED <<account, member>>,
         \A p \in Requests \ {q} : req[p].kind = "refresh" /\ req[p].at = "insert"
                                    => pair'[req[p].pair].refresh \in {"live", "expired"},
         /\ req'[q].kind = "exchange" /\ req'[q].at = "insert" => MayBeGranted(req'[q])
         /\ req'[q].kind = "refresh" /\ req'[q].at = "insert"
            => pair'[req'[q].pair].refresh \in {"live", "expired"}
  PROVE  AboutToInsert'
BY DEF AboutToInsert, OthersKeep, MayBeGranted, Unspent

LEMMA AboutToInsertStep ==
  ASSUME Inv1, AboutToInsert, [Next]_vars
  PROVE  AboutToInsert'
<1> USE Facts
<1>1. CASE Quiet
  BY <1>1 DEF Quiet, AllKeep, AboutToInsert, MayBeGranted, Unspent
<1>2. ASSUME NEW u \in Users, AccountStep(u) PROVE AboutToInsert'
  <2>1. \A p \in Requests : req[p].kind \in {"exchange", "refresh"} /\ req[p].at = "insert" => req[p].user # u
    BY <1>2 DEF AccountStep, AccountFree, Sharing
  <2>2. \A p \in Requests : req[p].kind = "exchange" /\ req[p].at = "insert" => req[p].user \in Users
    BY DEF Fine
  <2> QED
    BY <1>2, <2>1, <2>2 DEF AccountStep, AllKeep, AboutToInsert, MayBeGranted, Unspent
<1>3. ASSUME NEW u \in Users, RevokeStep(u) PROVE AboutToInsert'
  <2>1. /\ AllKeep /\ UNCHANGED member /\ AccountFree(u)
        /\ \A v \in Users \ {u} : account'[v] = account[v]
        /\ pair' = Without({i \in Pairs : pair[i].user = u})
    BY <1>3, EndCredentialsStep DEF RevokeStep, RevokeOfUser
  <2>2. \A p \in Requests : req[p].kind \in {"exchange", "refresh"} /\ req[p].at = "insert"
                            => req[p].user \in Users \ {u}
    BY <2>1 DEF AccountFree, Sharing, Fine
  <2>3. \A p \in Requests : req[p].kind = "refresh" => req[p].pair \in Pairs /\ pair[req[p].pair].user = req[p].user
    BY PairTypes DEF Fine
  <2>4. \A i \in Pairs : pair[i].user # u => pair'[i] = pair[i]
    BY <2>1 DEF Without
  <2>5. \A p \in Requests : req[p].kind = "refresh" /\ req[p].at = "insert" => pair'[req[p].pair] = pair[req[p].pair]
    BY <2>2, <2>3, <2>4
  <2> QED
    BY <2>1, <2>2, <2>5 DEF AllKeep, AboutToInsert, MayBeGranted, Unspent
<1>4. CASE DeleteProject
  <2>1. UNCHANGED <<req, account, member>> /\ ~\E p \in Requests : req[p].kind = "refresh" /\ req[p].at = "insert"
    BY <1>4 DEF DeleteProject, ProjectFree, Sharing
  <2> QED
    BY <2>1 DEF AboutToInsert, MayBeGranted
<1>5. ASSUME NEW i \in Pairs, ExpireRefresh(i) PROVE AboutToInsert'
  <2>1. UNCHANGED <<req, account, member>>
    BY <1>5 DEF ExpireRefresh
  <2>2. \A j \in Pairs : Unspent(j) => Unspent(j)'
    <3>1. pair[i] \in PairType
      BY PairTypes
    <3>2. pair'[i].refresh = "expired" /\ \A j \in Pairs \ {i} : pair'[j] = pair[j]
      BY <1>5, <3>1, PairTypes DEF ExpireRefresh, PairType
    <3> QED
      BY <3>2 DEF Unspent
  <2>3. \A p \in Requests : req[p].kind = "refresh" => req[p].pair \in Pairs
    BY PairTypes DEF Fine
  <2> QED
    BY <2>1, <2>2, <2>3 DEF AboutToInsert, MayBeGranted
<1>6. ASSUME NEW q \in Requests,
             \/ \E k \in Codes : RedeemStep(q, k)
             \/ PresentStep(q)
             \/ GoesStep(q, "claim") \/ GoesStep(q, "raced")
             \/ GoesStep(q, req[q].at) /\ req[q].at \in {"raced", "reuse", "revoke"}
      PROVE  AboutToInsert'
  <2>1. OthersKeep(q) /\ req'[q].at # "insert" /\ UNCHANGED <<account, member, pair>>
    BY <1>6 DEF RedeemStep, PresentStep, GoesStep, Goes
  <2>2. \A p \in Requests : req[p].kind = "refresh" /\ req[p].at = "insert"
                           => pair'[req[p].pair].refresh \in {"live", "expired"}
    BY <2>1 DEF AboutToInsert, Unspent
  <2> QED
    BY <2>1, <2>2, InsertersKeep
<1>7. ASSUME NEW q \in Requests, GoesStep(q, "insert"),
             \/ req[q].kind = "exchange" /\ MayBeGranted(req[q])
             \/ req[q].kind = "refresh" /\ Unspent(req[q].pair)
      PROVE  AboutToInsert'
  <2>1. /\ OthersKeep(q) /\ UNCHANGED <<account, member, pair>>
        /\ req'[q].kind = req[q].kind /\ req'[q].user = req[q].user /\ req'[q].epoch = req[q].epoch
        /\ req'[q].pair = req[q].pair
    BY <1>7 DEF GoesStep, Goes
  <2>2. \A p \in Requests : req[p].kind = "refresh" /\ req[p].at = "insert"
                           => pair'[req[p].pair].refresh \in {"live", "expired"}
    BY <2>1 DEF AboutToInsert, Unspent
  <2>3. /\ req'[q].kind = "exchange" => MayBeGranted(req'[q])
        /\ req'[q].kind = "refresh" => pair'[req'[q].pair].refresh \in {"live", "expired"}
    BY <1>7, <2>1 DEF MayBeGranted, Unspent
  <2> QED
    BY <2>1, <2>2, <2>3, InsertersKeep
<1>8. ASSUME NEW q \in Requests, (InsertPair(q) /\ project) \/ RotatePair(q) PROVE AboutToInsert'
  <2>1. \A p \in Requests \ {q} : req[p].kind = "refresh" /\ req[p].at = "insert"
          => req[p].pair \in Pairs /\ req[p].pair # issued' /\ req[p].pair # req[q].pair
    <3> TAKE p \in Requests \ {q}
    <3> HAVE req[p].kind = "refresh" /\ req[p].at = "insert"
    <3>1. req[p].pair \in 1..issued /\ req[p].pair \in Pairs /\ req[p].pair # issued' /\ req[p].pair # 0
      <4>1. req[p].pair \in 1..issued
        BY DEF Fine
      <4> QED
        <5>1. issued' = issued + 1 /\ issued \in Nat
          BY <1>8, NewPair, PairTypes
        <5> QED
          BY <4>1, <5>1, PairTypes
    <3>2. Holds(p, req[p].pair)
      BY DEF Holds
    <3>3. req[q].kind = "refresh" => Holds(q, req[q].pair)
      BY <1>8, NewPair DEF Holds
    <3> QED
      BY <1>8, <3>1, <3>2, <3>3, NewPair
  <2>2. \A p \in Requests \ {q} : req[p].kind = "refresh" /\ req[p].at = "insert"
                                 => pair'[req[p].pair].refresh \in {"live", "expired"}
    <3>1. \A i \in Pairs : i # issued' /\ i # req[q].pair => pair'[i] = pair[i]
      BY <1>8, NewPair
    <3> QED
      BY <2>1, <3>1 DEF AboutToInsert, Unspent
  <2>3. req'[q] = NoRequest /\ OthersKeep(q) /\ UNCHANGED <<account, member>>
    BY <1>8, NewPair DEF End
  <2> QED
    BY <2>2, <2>3, InsertersKeep DEF NoRequest
<1>9. ASSUME NEW q \in Requests, RevokeGrant(q) PROVE AboutToInsert'
  <2>1. /\ req[q].at \in {"raced", "reuse", "revoke"} /\ req'[q] = NoRequest /\ OthersKeep(q)
        /\ UNCHANGED <<account, member>>
        /\ \A i \in Pairs : i \notin req[q].locked => pair'[i] = pair[i]
    BY <1>9 DEF RevokeGrant, End, OthersKeep, Without
  <2>2. \A p \in Requests \ {q} : req[p].kind = "refresh" /\ req[p].at = "insert"
          => req[p].pair \in Pairs /\ req[p].pair \notin req[q].locked
    <3> TAKE p \in Requests \ {q}
    <3> HAVE req[p].kind = "refresh" /\ req[p].at = "insert"
    <3>1. req[p].pair \in Pairs /\ Holds(p, req[p].pair)
      BY PairTypes DEF Fine, Holds
    <3>2. req[p].pair \in req[q].locked => Holds(q, req[p].pair)
      BY DEF Holds
    <3> QED
      BY <3>1, <3>2
  <2>3. \A p \in Requests \ {q} : req[p].kind = "refresh" /\ req[p].at = "insert"
                                 => pair'[req[p].pair].refresh \in {"live", "expired"}
    BY <2>1, <2>2 DEF AboutToInsert, Unspent
  <2> QED
    BY <2>1, <2>3, InsertersKeep DEF NoRequest
<1> QED
  BY <1>1, <1>2, <1>3, <1>4, <1>5, <1>6, <1>7, <1>8, <1>9, StepKinds
-----------------------------------------------------------------------------
(* What is said of the pairs.                                              *)

Inserts(q) == (InsertPair(q) /\ project) \/ RotatePair(q)

\* Pairs are added by the two that insert, and otherwise only lose.
LEMMA PairKinds ==
  ASSUME Inv1, [Next]_vars
  PROVE  PairStep /\ (issued' = issued \/ \E q \in Requests : Inserts(q))
<1>1. CASE Quiet \/ \E u \in Users : AccountStep(u)
  BY <1>1, SamePairs DEF Quiet, AccountStep
<1>2. ASSUME NEW u \in Users, RevokeStep(u) PROVE PairStep /\ issued' = issued
  BY <1>2, EndCredentialsStep, WithoutStep DEF RevokeStep
<1>3. CASE DeleteProject
  BY <1>3, DeletedPairs DEF DeleteProject
<1>4. ASSUME NEW i \in Pairs, ExpireRefresh(i) PROVE PairStep /\ issued' = issued
  BY <1>4, ExpireType DEF ExpireRefresh
<1>5. ASSUME NEW q \in Requests,
             \/ \E k \in Codes : RedeemStep(q, k)
             \/ PresentStep(q)
             \/ GoesStep(q, "claim") \/ GoesStep(q, "insert") \/ GoesStep(q, "raced") \/ GoesStep(q, req[q].at)
      PROVE  PairStep /\ issued' = issued
  BY <1>5, SamePairs DEF RedeemStep, PresentStep, GoesStep
<1>6. ASSUME NEW q \in Requests, Inserts(q) PROVE PairStep
  BY <1>6, NewPair DEF Inserts
<1>7. ASSUME NEW q \in Requests, RevokeGrant(q) PROVE PairStep /\ issued' = issued
  <2>1. pair' = Without(req[q].locked) /\ issued' = issued /\ req[q].locked \in SUBSET Pairs
    BY <1>7, Facts DEF RevokeGrant, ReqType
  <2> QED
    BY <2>1, WithoutStep
<1> QED
  BY <1>1, <1>2, <1>3, <1>4, <1>5, <1>6, <1>7, StepKinds DEF Inserts

\* What holds of old pairs, when none is new.
LEMMA OldPairs ==
  ASSUME Inv1, PairStep, issued' = issued, Inv1'
  PROVE  \A i \in Pairs : /\ Standing(i)' => Standing(i) /\ Identity(i)' = Identity(i)
                          /\ Unspent(i)' => Unspent(i) /\ Identity(i)' = Identity(i)
                          /\ Live(i)' => Live(i) /\ Identity(i)' = Identity(i)
<1>1. \A i \in Pairs : Standing(i)' \/ Live(i)' \/ Unspent(i)' => i <= issued
  <2>1. Inv1' => \A i \in Pairs : Standing(i)' \/ Live(i)' \/ Unspent(i)' => i <= issued'
    <3> HAVE Inv1'
    <3> TAKE i \in Pairs
    <3>1. Standing(i)' \/ Live(i)' \/ Unspent(i)' => pair'[i].access # "none" \/ pair'[i].refresh # "none"
      BY DEF Standing, Live, Unspent
    <3> QED
      BY <3>1, PairTypes DEF PairStep
  <2> QED
    BY <2>1
<1> QED
  BY <1>1 DEF PairStep

\* A new pair, and the others.
LEMMA OldAndNew ==
  ASSUME Inv1, NEW q \in Requests, Inserts(q), NEW i \in Pairs,
         Standing(i)' \/ Live(i)' \/ Unspent(i)'
  PROVE  \/ i = issued' /\ pair'[i].user = req[q].user /\ pair'[i].client = req[q].client
            /\ pair'[i].code = req[q].code /\ pair'[i].epoch = req[q].epoch /\ pair'[i].from = req[q].pair
         \/ /\ i # issued' /\ i <= issued /\ Identity(i)' = Identity(i)
            /\ Standing(i)' => Standing(i)
            /\ Live(i)' => Live(i)
            /\ Unspent(i)' => Unspent(i)
<1>1. PairStep /\ issued' = issued + 1 /\ issued' \in Pairs /\ issued \in Nat
      /\ pair'[issued'] = [access |-> "live", refresh |-> "live", user |-> req[q].user,
                           client |-> req[q].client, code |-> req[q].code, epoch |-> req[q].epoch,
                           from |-> req[q].pair]
  BY NewPair, PairTypes DEF Inserts
<1>2. i <= issued'
  <2>1. pair'[i].access # "none" \/ pair'[i].refresh # "none"
    BY DEF Standing, Live, Unspent
  <2> QED
    BY <1>1, <2>1, PairTypes DEF PairStep
<1>3. CASE i = issued'
  BY <1>1, <1>3
<1>4. CASE i # issued'
  <2>1. i <= issued
    BY <1>1, <1>2, <1>4, PairTypes
  <2> QED
    BY <1>1, <1>4, <2>1 DEF PairStep
<1> QED
  BY <1>3, <1>4

LEMMA EpochStep ==
  ASSUME Inv1, AboutToInsert, EpochInv, [Next]_vars
  PROVE  EpochInv'
<1>1. Inv1' /\ PairStep
  BY Inv1Step, PairKinds
<1>2. CASE issued' = issued /\ \A v \in Users : account'[v].epoch = account[v].epoch
  <2> SUFFICES ASSUME NEW i \in Pairs, Standing(i)' PROVE pair'[i].epoch = account'[pair'[i].user].epoch
    BY DEF EpochInv
  <2>1. Standing(i) /\ pair'[i].user = pair[i].user /\ pair'[i].epoch = pair[i].epoch
    BY <1>1, <1>2, OldPairs DEF Identity
  <2>2. pair[i].user \in Users
    BY <2>1, Issued, Facts
  <2> QED
    BY <1>2, <2>1, <2>2 DEF EpochInv
<1>3. ASSUME NEW u \in Users, RevokeStep(u) PROVE EpochInv'
  <2> SUFFICES ASSUME NEW i \in Pairs, Standing(i)' PROVE pair'[i].epoch = account'[pair'[i].user].epoch
    BY DEF EpochInv
  <2>1. /\ RevokeOfUser(u) /\ issued' = issued /\ pair' = Without({j \in Pairs : pair[j].user = u})
        /\ \A v \in Users \ {u} : account'[v] = account[v]
    BY <1>3, EndCredentialsStep DEF RevokeStep
  <2>2. Standing(i) /\ pair'[i].user = pair[i].user /\ pair'[i].epoch = pair[i].epoch
    BY <1>1, <2>1, OldPairs DEF Identity
  <2>3. pair[i].user # u
    BY <2>1, WithoutStep
  <2>4. pair[i].user \in Users \ {u}
    BY <2>2, <2>3, Issued, Facts
  <2> QED
    BY <2>1, <2>2, <2>4 DEF EpochInv
<1>4. ASSUME NEW q \in Requests, Inserts(q) PROVE EpochInv'
  <2> SUFFICES ASSUME NEW i \in Pairs, Standing(i)' PROVE pair'[i].epoch = account'[pair'[i].user].epoch
    BY DEF EpochInv
  <2>1. account' = account /\ req[q].at = "insert" /\ req[q].kind \in {"exchange", "refresh"}
    BY <1>4, NewPair DEF Inserts
  <2>2. req[q].epoch = account[req[q].user].epoch
    <3>1. CASE req[q].kind = "exchange"
      BY <2>1, <3>1 DEF AboutToInsert, MayBeGranted
    <3>2. CASE req[q].kind = "refresh"
      <4>1. /\ req[q].pair \in Pairs
            /\ req[q].user = pair[req[q].pair].user /\ req[q].epoch = pair[req[q].pair].epoch
        BY <3>2, Facts, PairTypes DEF Fine
      <4>2. Standing(req[q].pair)
        BY <2>1, <3>2 DEF AboutToInsert, Unspent, Standing
      <4> QED
        BY <4>1, <4>2 DEF EpochInv
    <3> QED
      BY <2>1, <3>1, <3>2
  <2>3. CASE pair'[i].user = req[q].user /\ pair'[i].epoch = req[q].epoch
    BY <2>1, <2>2, <2>3
  <2>4. CASE Standing(i) /\ Identity(i)' = Identity(i)
    BY <2>1, <2>4 DEF EpochInv, Identity
  <2> QED
    BY <1>4, <2>3, <2>4, OldAndNew
<1>5. (\A v \in Users : account'[v].epoch = account[v].epoch) \/ \E u \in Users : RevokeStep(u)
  <2>1. CASE \E q \in Requests : Inserts(q) \/ RevokeGrant(q)
    BY <2>1, NewPair DEF RevokeGrant, Inserts
  <2>2. CASE ~\E q \in Requests : Inserts(q) \/ RevokeGrant(q)
    BY <2>2, StepKinds
    DEF Quiet, DeleteProject, ExpireRefresh, AccountStep, RedeemStep, PresentStep, GoesStep, Inserts
  <2> QED
    BY <2>1, <2>2
<1> QED
  BY <1>2, <1>3, <1>4, <1>5, PairKinds

LEMMA RefreshInvStep ==
  ASSUME Inv1, AboutToInsert, CodeInv, RefreshInv, [Next]_vars
  PROVE  RefreshInv'
<1>1. Inv1' /\ PairStep
  BY Inv1Step, PairKinds
<1> SUFFICES ASSUME NEW i \in Pairs, NEW j \in Pairs, Unspent(i)', Unspent(j)', pair'[i].code = pair'[j].code
             PROVE  i = j
  BY DEF RefreshInv
<1>2. CASE issued' = issued
  <2>1. Unspent(i) /\ Unspent(j) /\ pair[i].code = pair[j].code
    BY <1>1, <1>2, OldPairs DEF Identity
  <2> QED
    BY <2>1 DEF RefreshInv
<1>3. ASSUME NEW q \in Requests, Inserts(q) PROVE i = j
  <2>1. \A k \in {i, j} : k # issued' => /\ k \in 1..issued /\ Unspent(k) /\ pair'[k].code = pair[k].code
                                         /\ pair'[k].code # req[q].code
    <3> SUFFICES ASSUME NEW k \in Pairs, Unspent(k)', k # issued'
                 PROVE  /\ k \in 1..issued /\ Unspent(k) /\ pair'[k].code = pair[k].code
                        /\ pair'[k].code # req[q].code
      OBVIOUS
    <3>1. Unspent(k) /\ Identity(k)' = Identity(k)
      BY <1>3, OldAndNew
    <3>2. k \in 1..issued /\ pair'[k].code = pair[k].code
      BY <3>1, Issued DEF Identity
    <3>3. CASE req[q].kind = "exchange"
      <4>1. \A m \in 1..issued : pair[m].code # req[q].code
        BY <3>3 DEF CodeInv
      <4> QED
        BY <3>1, <3>2, <4>1
    <3>4. CASE req[q].kind = "refresh"
      <4>1. /\ req[q].at = "insert" /\ req[q].pair \in Pairs /\ pair'[req[q].pair].refresh \notin {"live", "expired"}
        BY <1>3, <3>4, NewPair DEF Inserts
      <4>2. req[q].code = pair[req[q].pair].code
        BY <3>4, Facts DEF Fine
      <4>3. Unspent(req[q].pair)
        BY <3>4, <4>1 DEF AboutToInsert
      <4>4. k # req[q].pair
        BY <4>1 DEF Unspent
      <4> QED
        BY <3>1, <3>2, <4>1, <4>2, <4>3, <4>4 DEF RefreshInv
    <3> QED
      BY <1>3, <3>1, <3>2, <3>3, <3>4, NewPair DEF Inserts
  <2>2. pair'[issued'].code = req[q].code
    <3>1. pair'[issued'] = [access |-> "live", refresh |-> "live", user |-> req[q].user,
                            client |-> req[q].client, code |-> req[q].code, epoch |-> req[q].epoch,
                            from |-> req[q].pair]
      BY <1>3, NewPair DEF Inserts
    <3> QED
      BY <3>1
  <2> QED
    BY <2>1, <2>2 DEF RefreshInv
<1> QED
  BY <1>2, <1>3, PairKinds
\* Nothing new is made, of codes, exchanges or pairs.
LEMMA CodesKeep ==
  ASSUME Inv1, Inv1', PairStep, CodeInv, issued' = issued, CodesGoOn,
         \A p \in Requests : req'[p].kind = "exchange" => req[p].kind = "exchange" /\ req'[p].code = req[p].code
  PROVE  CodeInv'
<1>1. \A i \in 1..issued : i \in Pairs /\ i <= issued /\ pair'[i].code = pair[i].code /\ pair'[i].from = pair[i].from
  BY PairTypes DEF PairStep, Identity
<1>2. 1..approved \subseteq 1..approved'
  BY PairTypes DEF CodesGoOn
<1>3. \A i \in Pairs : i <= issued' => pair'[i].code \in 1..approved' /\ code'[pair'[i].code].state = "gone"
  <2> SUFFICES ASSUME NEW i \in Pairs, i <= issued
               PROVE  pair'[i].code \in 1..approved' /\ code'[pair'[i].code].state = "gone"
    OBVIOUS
  <2>1. pair'[i].code = pair[i].code
    BY DEF PairStep, Identity
  <2>2. pair[i].code \in 1..approved /\ code[pair[i].code].state = "gone"
    BY DEF CodeInv
  <2> QED
    BY <1>2, <2>1, <2>2 DEF CodesGoOn
<1>4. \A q \in Requests : req'[q].kind = "exchange" =>
       /\ req'[q].code \in 1..approved' /\ code'[req'[q].code].state = "gone"
       /\ \A i \in 1..issued' : pair'[i].code # req'[q].code
       /\ \A p \in Requests : req'[p].kind = "exchange" /\ req'[p].code = req'[q].code => p = q
  BY <1>1, <1>2 DEF CodeInv, CodesGoOn
<1>5. CodeGivesOnePair'
  BY <1>1 DEF CodeInv, CodeGivesOnePair
<1> QED
  BY <1>3, <1>4, <1>5 DEF CodeInv

LEMMA CodeStep ==
  ASSUME Inv1, AboutToInsert, CodeInv, [Next]_vars
  PROVE  CodeInv'
<1>1. Inv1' /\ PairStep
  BY Inv1Step, PairKinds
<1>2. ASSUME NEW q \in Requests, NEW k \in Codes, RedeemStep(q, k) PROVE CodeInv'
  <2>1. /\ OthersKeep(q) /\ req'[q].kind = "exchange" /\ req'[q].code = k
        /\ k \in 1..approved /\ code[k].state = "pending" /\ code'[k].state = "gone"
        /\ CodesGoOn /\ UNCHANGED <<approved, pair, issued>>
    BY <1>2 DEF RedeemStep
  <2>2. /\ \A i \in 1..issued : i \in Pairs /\ pair[i].code # k
        /\ \A p \in Requests : req[p].kind = "exchange" => req[p].code # k
    BY <2>1, PairTypes DEF CodeInv
  <2>3. \A i \in Pairs : i <= issued' => pair'[i].code \in 1..approved' /\ code'[pair'[i].code].state = "gone"
    BY <2>1 DEF CodeInv, CodesGoOn
  <2>4. CodeGivesOnePair'
    BY <2>1 DEF CodeInv, CodeGivesOnePair
  <2>5. ASSUME NEW s \in Requests, req'[s].kind = "exchange"
        PROVE  /\ req'[s].code \in 1..approved' /\ code'[req'[s].code].state = "gone"
               /\ \A i \in 1..issued' : pair'[i].code # req'[s].code
               /\ \A p \in Requests : req'[p].kind = "exchange" /\ req'[p].code = req'[s].code => p = s
    <3>1. CASE s = q
      BY <2>1, <2>2, <3>1 DEF OthersKeep
    <3>2. CASE s # q
      <4>1. req'[s] = req[s] /\ req[s].kind = "exchange"
        BY <2>1, <2>5, <3>2 DEF OthersKeep
      <4>2. /\ req[s].code \in 1..approved /\ code[req[s].code].state = "gone" /\ req[s].code # k
            /\ \A i \in 1..issued : pair[i].code # req[s].code
            /\ \A p \in Requests : req[p].kind = "exchange" /\ req[p].code = req[s].code => p = s
        BY <2>2, <4>1 DEF CodeInv
      <4>3. code'[req[s].code].state = "gone"
        BY <2>1, <4>2 DEF CodesGoOn
      <4>4. \A p \in Requests : req'[p].kind = "exchange" /\ req'[p].code = req[s].code => p = s
        BY <2>1, <4>2 DEF OthersKeep
      <4> QED
        BY <2>1, <4>1, <4>2, <4>3, <4>4
    <3> QED
      BY <3>1, <3>2
  <2> QED
    BY <2>3, <2>4, <2>5 DEF CodeInv
<1>3. ASSUME NEW q \in Requests, Inserts(q) PROVE CodeInv'
  <2>1. /\ End(q) /\ OthersKeep(q) /\ UNCHANGED <<code, approved>>
        /\ issued' = issued + 1 /\ issued' \in Pairs /\ issued \in Nat
        /\ req[q].at = "insert"
        /\ \/ req[q].kind = "exchange" /\ req[q].pair = 0
           \/ req[q].kind = "refresh" /\ req[q].pair \in 1..issued /\ req[q].pair \in Pairs
    BY <1>3, NewPair, PairTypes DEF Inserts
  <2>2. pair'[issued'].code = req[q].code /\ pair'[issued'].from = req[q].pair
    <3>1. pair'[issued'] = [access |-> "live", refresh |-> "live", user |-> req[q].user,
                            client |-> req[q].client, code |-> req[q].code, epoch |-> req[q].epoch,
                            from |-> req[q].pair]
      BY <1>3, NewPair DEF Inserts
    <3> QED
      BY <3>1
  <2>3. \A i \in 1..issued : i \in Pairs /\ pair'[i].code = pair[i].code /\ pair'[i].from = pair[i].from
    BY <1>1, PairTypes DEF PairStep, Identity
  <2>4. req[q].code \in 1..approved /\ code[req[q].code].state = "gone"
    <3>1. CASE req[q].kind = "exchange"
      BY <3>1 DEF CodeInv
    <3>2. CASE req[q].kind = "refresh"
      <4>1. req[q].code = pair[req[q].pair].code /\ req[q].pair \in Pairs /\ req[q].pair <= issued
        BY <2>1, <3>2, Facts, PairTypes DEF Fine
      <4> QED
        BY <4>1 DEF CodeInv
    <3> QED
      BY <2>1, <3>1, <3>2
  <2>5. \A i \in Pairs : i <= issued' => i = issued' \/ i \in 1..issued
    BY <2>1, PairTypes
  <2>6. \A i \in Pairs : i <= issued' => pair'[i].code \in 1..approved' /\ code'[pair'[i].code].state = "gone"
    <3> SUFFICES ASSUME NEW i \in Pairs, i <= issued'
                 PROVE  pair'[i].code \in 1..approved /\ code[pair'[i].code].state = "gone"
      BY <2>1
    <3>1. CASE i = issued'
      BY <2>2, <2>4, <3>1
    <3>2. CASE i \in 1..issued
      BY <2>3, <3>2 DEF CodeInv
    <3> QED
      BY <2>5, <3>1, <3>2
  <2>7. ASSUME NEW s \in Requests, req'[s].kind = "exchange"
        PROVE  /\ req'[s].code \in 1..approved' /\ code'[req'[s].code].state = "gone"
               /\ \A i \in 1..issued' : pair'[i].code # req'[s].code
               /\ \A p \in Requests : req'[p].kind = "exchange" /\ req'[p].code = req'[s].code => p = s
    <3>1. s # q /\ req'[s] = req[s] /\ req[s].kind = "exchange" /\ req'[q].kind # "exchange"
      BY <2>1, <2>7, Facts DEF End, NoRequest, OthersKeep
    <3>2. /\ req[s].code \in 1..approved /\ code[req[s].code].state = "gone"
          /\ \A i \in 1..issued : pair[i].code # req[s].code
          /\ \A p \in Requests : req[p].kind = "exchange" /\ req[p].code = req[s].code => p = s
      BY <3>1 DEF CodeInv
    <3>3. req[q].code # req[s].code
      <4>1. CASE req[q].kind = "exchange"
        BY <3>1, <3>2, <4>1
      <4>2. CASE req[q].kind = "refresh"
        <5>1. req[q].code = pair[req[q].pair].code /\ req[q].pair \in 1..issued
          BY <4>2, Facts DEF Fine
        <5> QED
          BY <3>2, <5>1
      <4> QED
        BY <2>1, <4>1, <4>2
    <3>4. \A i \in 1..issued' : pair'[i].code # req[s].code
      <4> TAKE i \in 1..issued'
      <4>1. i = issued' \/ i \in 1..issued
        BY <2>1
      <4> QED
        BY <2>2, <2>3, <3>2, <3>3, <4>1
    <3>5. \A p \in Requests : req'[p].kind = "exchange" /\ req'[p].code = req[s].code => p = s
      BY <2>1, <3>1, <3>2 DEF OthersKeep
    <3> QED
      BY <2>1, <3>1, <3>2, <3>4, <3>5
  <2>8. CodeGivesOnePair'
    <3> SUFFICES ASSUME NEW i \in 1..issued', NEW j \in 1..issued', pair'[i].from = 0, pair'[j].from = 0,
                        pair'[i].code = pair'[j].code
                 PROVE  i = j
      BY DEF CodeGivesOnePair
    <3>1. \A m \in {i, j} : m = issued' \/ m \in 1..issued
      BY <2>1
    <3>2. \A m \in {i, j} : m = issued' => req[q].kind = "exchange" /\ pair'[m].code = req[q].code
      BY <2>1, <2>2
    <3>3. \A m \in {i, j} : m \in 1..issued => pair'[m].code = pair[m].code /\ pair[m].from = 0
      BY <2>3
    <3>4. req[q].kind = "exchange" => \A m \in 1..issued : pair[m].code # req[q].code
      BY DEF CodeInv
    <3> QED
      BY <3>1, <3>2, <3>3, <3>4 DEF CodeInv, CodeGivesOnePair
  <2> QED
    BY <2>6, <2>7, <2>8 DEF CodeInv
<1>4. ASSUME issued' = issued, \A q \in Requests : \A k \in Codes : ~RedeemStep(q, k)
      PROVE  /\ CodesGoOn
             /\ \A p \in Requests : req'[p].kind = "exchange" => req[p].kind = "exchange" /\ req'[p].code = req[p].code
  <2>1. CASE Quiet
    BY <2>1 DEF Quiet, AllKeep
  <2>2. CASE DeleteProject \/ \E i \in Pairs : ExpireRefresh(i)
    BY <2>2, SameCodes DEF DeleteProject, ExpireRefresh
  <2>3. CASE \E u \in Users : AccountStep(u) \/ RevokeStep(u)
    BY <2>3, SameCodes DEF AccountStep, RevokeStep, AllKeep
  <2>4. ASSUME NEW q \in Requests, PresentStep(q) \/ \E at \in {"claim", "insert", "raced", req[q].at} : GoesStep(q, at)
        PROVE  /\ CodesGoOn
               /\ \A p \in Requests : req'[p].kind = "exchange" => req[p].kind = "exchange" /\ req'[p].code = req[p].code
    BY <2>4, SameCodes DEF PresentStep, GoesStep, Goes, OthersKeep
  <2>5. ASSUME NEW q \in Requests, RevokeGrant(q)
        PROVE  /\ CodesGoOn
               /\ \A p \in Requests : req'[p].kind = "exchange" => req[p].kind = "exchange" /\ req'[p].code = req[p].code
    <3>1. AllKeep
      BY <2>5, EndKeeps DEF RevokeGrant
    <3> QED
      BY <2>5, <3>1, SameCodes DEF RevokeGrant, AllKeep
  <2>6. \A q \in Requests : ~Inserts(q)
    <3>1. issued' # issued + 1
      BY <1>4, PairTypes
    <3> QED
      BY <3>1, NewPair DEF Inserts
  <2> QED
    BY <1>4, <2>1, <2>2, <2>3, <2>4, <2>5, <2>6, StepKinds DEF Inserts
<1> QED
  BY <1>1, <1>2, <1>3, <1>4, CodesKeep, PairKinds
\* Where no pair is new and no race is won or lost.
LEMMA RacesKeep ==
  ASSUME Inv1, Inv1', PairStep, RacedInv, issued' = issued, raced' = raced,
         \A p \in Requests : req'[p].at = "raced" =>
           /\ req[p].at = "raced" /\ req'[p].pair = req[p].pair
           /\ req'[p].todo \cup req'[p].locked = req[p].todo \cup req[p].locked
  PROVE  RacedInv'
<1>1. \A i \in 1..issued : /\ i \in Pairs /\ pair'[i].from = pair[i].from
                           /\ pair'[i].user = pair[i].user /\ pair'[i].client = pair[i].client
  BY PairTypes DEF PairStep, Identity
<1>2. \A i \in 1..issued' : pair'[i].from # 0 =>
        pair'[i].from \in 1..issued' /\ pair'[pair'[i].from].user = pair'[i].user
                                     /\ pair'[pair'[i].from].client = pair'[i].client
  BY <1>1 DEF RacedInv
<1>3. \A j \in Pairs : Live(j)' => Live(j) /\ pair'[j].from = pair[j].from
  BY OldPairs DEF Identity
<1>4. \A i \in Pairs : Unspent(i)' => Unspent(i)
  BY OldPairs
<1>5. \A i \in raced' : i \in 1..issued' /\ ~Unspent(i)' /\ \A j \in Pairs : pair'[j].from = i => ~Live(j)'
  BY <1>1, <1>3, <1>4 DEF RacedInv
<1>6. \A q \in Requests : req'[q].at = "raced" =>
       /\ pair'[req'[q].pair].refresh \notin {"live", "expired"}
       /\ \A j \in Pairs : pair'[j].from = req'[q].pair /\ Live(j)' => j \in req'[q].todo \cup req'[q].locked
  <2> SUFFICES ASSUME NEW q \in Requests, req'[q].at = "raced"
               PROVE  /\ pair'[req'[q].pair].refresh \notin {"live", "expired"}
                      /\ \A j \in Pairs : pair'[j].from = req'[q].pair /\ Live(j)'
                                          => j \in req'[q].todo \cup req'[q].locked
    OBVIOUS
  <2>1. /\ req[q].at = "raced" /\ req'[q].pair = req[q].pair /\ req[q].pair \in Pairs
        /\ req'[q].todo \cup req'[q].locked = req[q].todo \cup req[q].locked
    <3>1. req[q].at = "raced" /\ req[q].kind \in {"exchange", "refresh"}
      BY Facts DEF Fine
    <3>2. req[q].pair \in 1..issued
      BY <3>1, Facts DEF Fine
    <3> QED
      BY <1>1, <3>1, <3>2
  <2>2. ~Unspent(req[q].pair) /\ \A j \in Pairs : pair[j].from = req[q].pair /\ Live(j) => j \in req[q].todo \cup req[q].locked
    BY <2>1 DEF RacedInv
  <2>3. pair'[req[q].pair].refresh \notin {"live", "expired"}
    BY <1>4, <2>1, <2>2 DEF Unspent
  <2> QED
    BY <1>3, <2>1, <2>2, <2>3
<1> QED
  BY <1>2, <1>5, <1>6 DEF RacedInv, Unspent

LEMMA RacedStep ==
  ASSUME Inv1, AboutToInsert, RacedInv, [Next]_vars
  PROVE  RacedInv'
<1>1. Inv1' /\ PairStep
  BY Inv1Step, PairKinds
<1>2. ASSUME NEW q \in Requests, GoesStep(q, "raced"), req[q].kind = "refresh", ~Unspent(req[q].pair),
             req'[q].todo = Grant(req[q].user, req[q].client)
      PROVE  RacedInv'
  <2>1. /\ OthersKeep(q) /\ req'[q].pair = req[q].pair /\ UNCHANGED <<pair, issued, raced>>
    BY <1>2 DEF GoesStep, Goes
  <2>2. \A j \in Pairs : pair[j].from = req[q].pair /\ Live(j) => j \in Grant(req[q].user, req[q].client)
    <3> SUFFICES ASSUME NEW j \in Pairs, pair[j].from = req[q].pair, Live(j)
                 PROVE  j \in Grant(req[q].user, req[q].client)
      OBVIOUS
    <3>1. /\ req[q].pair \in 1..issued
          /\ req[q].user = pair[req[q].pair].user /\ req[q].client = pair[req[q].pair].client
      BY <1>2, Facts DEF Fine
    <3>2. j \in 1..issued /\ pair[j].from # 0
      BY <3>1, Issued
    <3>3. pair[j].user = req[q].user /\ pair[j].client = req[q].client
      BY <3>1, <3>2 DEF RacedInv
    <3> QED
      BY <3>3 DEF Grant, Live, Standing
  <2>3. \A i \in Pairs : /\ Live(i)' <=> Live(i)
                         /\ Unspent(i)' <=> Unspent(i)
    BY <2>1 DEF Live, Unspent
  <2>4. \A p \in Requests : req'[p].at = "raced" =>
         /\ pair'[req'[p].pair].refresh \notin {"live", "expired"}
         /\ \A j \in Pairs : pair'[j].from = req'[p].pair /\ Live(j)' => j \in req'[p].todo \cup req'[p].locked
    <3> TAKE p \in Requests
    <3>1. CASE p = q
      BY <1>2, <2>1, <2>2, <2>3, <3>1 DEF Unspent
    <3>2. CASE p # q
      BY <2>1, <2>3, <3>2 DEF RacedInv, OthersKeep, Unspent
    <3> QED
      BY <3>1, <3>2
  <2>5. \A i \in raced' : i \in 1..issued' /\ ~Unspent(i)' /\ \A j \in Pairs : pair'[j].from = i => ~Live(j)'
    BY <2>1 DEF RacedInv, Unspent, Live
  <2> QED
    BY <2>1, <2>4, <2>5 DEF RacedInv, Unspent
<1>3. ASSUME NEW q \in Requests, RevokeGrant(q) PROVE RacedInv'
  <2>1. /\ req[q].at \in {"raced", "reuse", "revoke"} /\ req[q].todo = {} /\ pair' = Without(req[q].locked)
        /\ OthersKeep(q) /\ req'[q] = NoRequest /\ issued' = issued
        /\ raced' = IF req[q].at = "raced" THEN raced \cup {req[q].pair} ELSE raced
        /\ req[q].locked \in SUBSET Pairs
    BY <1>3, Facts DEF RevokeGrant, End, OthersKeep, ReqType
  <2>2. /\ \A i \in Pairs : /\ Live(i)' => Live(i) /\ i \notin req[q].locked /\ pair'[i].from = pair[i].from
                            /\ Unspent(i)' => Unspent(i)
    BY <1>1, <2>1, OldPairs, WithoutStep DEF Identity
  <2>3. req[q].at = "raced" => /\ req[q].pair \in 1..issued /\ req[q].pair \in Pairs /\ ~Unspent(req[q].pair)
                               /\ \A j \in Pairs : pair[j].from = req[q].pair /\ Live(j) => j \in req[q].locked
    <3>1. req[q].at = "raced" => req[q].pair \in 1..issued
      BY Facts DEF Fine
    <3> QED
      BY <2>1, <3>1, PairTypes DEF RacedInv
  <2>4. \A i \in raced' : /\ i \in 1..issued' /\ i \in Pairs /\ ~Unspent(i)
                          /\ \A j \in Pairs : pair[j].from = i /\ Live(j) => j \in req[q].locked
    BY <2>1, <2>3, Facts DEF RacedInv
  <2>5. \A i \in raced' : i \in 1..issued' /\ ~Unspent(i)' /\ \A j \in Pairs : pair'[j].from = i => ~Live(j)'
    <3> TAKE i \in raced'
    <3>1. i \in 1..issued' /\ i \in Pairs /\ ~Unspent(i)
          /\ \A j \in Pairs : pair[j].from = i /\ Live(j) => j \in req[q].locked
      BY <2>4
    <3> QED
      BY <2>2, <3>1
  <2>6. \A i \in 1..issued : /\ i \in Pairs /\ pair'[i].from = pair[i].from
                             /\ pair'[i].user = pair[i].user /\ pair'[i].client = pair[i].client
    BY <1>1, PairTypes DEF PairStep, Identity
  <2>7. \A i \in 1..issued' : pair'[i].from # 0 =>
          pair'[i].from \in 1..issued' /\ pair'[pair'[i].from].user = pair'[i].user
                                       /\ pair'[pair'[i].from].client = pair'[i].client
    <3> SUFFICES ASSUME NEW i \in 1..issued, pair'[i].from # 0
                 PROVE  /\ pair'[i].from \in 1..issued
                        /\ pair'[pair'[i].from].user = pair'[i].user
                        /\ pair'[pair'[i].from].client = pair'[i].client
      BY <2>1
    <3>1. pair'[i].from = pair[i].from /\ pair'[i].user = pair[i].user /\ pair'[i].client = pair[i].client
      BY <2>6
    <3>2. /\ pair[i].from \in 1..issued /\ pair[pair[i].from].user = pair[i].user
          /\ pair[pair[i].from].client = pair[i].client
      BY <3>1 DEF RacedInv
    <3>3. pair'[pair[i].from].user = pair[pair[i].from].user /\ pair'[pair[i].from].client = pair[pair[i].from].client
      BY <2>6, <3>2
    <3> QED
      BY <3>1, <3>2, <3>3
  <2>8. \A p \in Requests : req'[p].at = "raced" =>
         /\ pair'[req'[p].pair].refresh \notin {"live", "expired"}
         /\ \A j \in Pairs : pair'[j].from = req'[p].pair /\ Live(j)' => j \in req'[p].todo \cup req'[p].locked
    <3> SUFFICES ASSUME NEW p \in Requests, req'[p].at = "raced"
                 PROVE  /\ pair'[req'[p].pair].refresh \notin {"live", "expired"}
                        /\ \A j \in Pairs : pair'[j].from = req'[p].pair /\ Live(j)' => j \in req'[p].todo \cup req'[p].locked
      OBVIOUS
    <3>1. p # q /\ req'[p] = req[p] /\ req[p].at = "raced"
      BY <2>1 DEF NoRequest, OthersKeep
    <3>2. req[p].pair \in 1..issued /\ req[p].pair \in Pairs
      BY <2>6, <3>1, Facts DEF Fine
    <3>3. ~Unspent(req[p].pair) /\ \A j \in Pairs : pair[j].from = req[p].pair /\ Live(j) => j \in req[p].todo \cup req[p].locked
      BY <3>1 DEF RacedInv
    <3>4. pair'[req[p].pair].refresh \notin {"live", "expired"}
      BY <2>2, <3>2, <3>3 DEF Unspent
    <3> QED
      BY <2>2, <3>1, <3>3, <3>4
  <2> QED
    BY <2>5, <2>7, <2>8 DEF RacedInv, Unspent
<1>4. ASSUME NEW q \in Requests, Inserts(q) PROVE RacedInv'
  <2>1. /\ OthersKeep(q) /\ End(q) /\ raced' = raced /\ issued' = issued + 1 /\ issued' \in Pairs /\ issued \in Nat
        /\ req[q].at = "insert"
        /\ \/ req[q].kind = "exchange" /\ req[q].pair = 0
           \/ req[q].kind = "refresh" /\ req[q].pair \in 1..issued /\ req[q].pair \in Pairs
    BY <1>4, NewPair, PairTypes DEF Inserts
  <2>2. /\ pair'[issued'].user = req[q].user /\ pair'[issued'].client = req[q].client
        /\ pair'[issued'].from = req[q].pair
    <3>1. pair'[issued'] = [access |-> "live", refresh |-> "live", user |-> req[q].user,
                            client |-> req[q].client, code |-> req[q].code, epoch |-> req[q].epoch,
                            from |-> req[q].pair]
      BY <1>4, NewPair DEF Inserts
    <3> QED
      BY <3>1
  <2>3. \A i \in 1..issued : /\ i \in Pairs /\ pair'[i].from = pair[i].from
                             /\ pair'[i].user = pair[i].user /\ pair'[i].client = pair[i].client
                             /\ Live(i)' => Live(i)
                             /\ Unspent(i)' => Unspent(i)
    BY <1>1, PairTypes DEF PairStep, Identity
  <2>4. req[q].pair # 0 => /\ req[q].pair \in 1..issued /\ Unspent(req[q].pair)
                           /\ req[q].user = pair[req[q].pair].user /\ req[q].client = pair[req[q].pair].client
    <3>1. req[q].pair # 0 => req[q].kind = "refresh" /\ req[q].pair \in 1..issued
      BY <2>1
    <3> QED
      BY <2>1, <3>1, Facts DEF Fine, AboutToInsert
  <2>5. \A i \in 1..issued' : i = issued' \/ i \in 1..issued
    BY <2>1
  <2>6. \A i \in 1..issued' : pair'[i].from # 0 =>
          pair'[i].from \in 1..issued' /\ pair'[pair'[i].from].user = pair'[i].user
                                       /\ pair'[pair'[i].from].client = pair'[i].client
    <3> SUFFICES ASSUME NEW i \in 1..issued', pair'[i].from # 0
                 PROVE  pair'[i].from \in 1..issued /\ pair'[pair'[i].from].user = pair'[i].user
                                                    /\ pair'[pair'[i].from].client = pair'[i].client
      BY <2>1
    <3>1. CASE i = issued'
      BY <2>2, <2>3, <2>4, <3>1
    <3>2. CASE i \in 1..issued
      BY <2>3, <3>2 DEF RacedInv
    <3> QED
      BY <2>5, <3>1, <3>2
  <2>7. \A j \in Pairs : Live(j)' => \/ j = issued'
                                     \/ Live(j) /\ pair'[j].from = pair[j].from
    BY <1>4, OldAndNew DEF Identity
  <2>8. \A i \in raced' : i \in 1..issued' /\ ~Unspent(i)' /\ \A j \in Pairs : pair'[j].from = i => ~Live(j)'
    <3> SUFFICES ASSUME NEW i \in raced
                 PROVE  i \in 1..issued' /\ ~Unspent(i)' /\ \A j \in Pairs : pair'[j].from = i => ~Live(j)'
      BY <2>1
    <3>1. i \in 1..issued /\ ~Unspent(i) /\ \A j \in Pairs : pair[j].from = i => ~Live(j)
      BY DEF RacedInv
    <3>2. req[q].pair # i
      BY <2>4, <3>1
    <3> QED
      BY <2>1, <2>2, <2>3, <2>7, <3>1, <3>2
  <2>9. \A p \in Requests : req'[p].at = "raced" =>
         /\ pair'[req'[p].pair].refresh \notin {"live", "expired"}
         /\ \A j \in Pairs : pair'[j].from = req'[p].pair /\ Live(j)' => j \in req'[p].todo \cup req'[p].locked
    <3> SUFFICES ASSUME NEW p \in Requests, req'[p].at = "raced"
                 PROVE  /\ pair'[req'[p].pair].refresh \notin {"live", "expired"}
                        /\ \A j \in Pairs : pair'[j].from = req'[p].pair /\ Live(j)' => j \in req'[p].todo \cup req'[p].locked
      OBVIOUS
    <3>1. p # q /\ req'[p] = req[p] /\ req[p].at = "raced"
      BY <2>1, Facts DEF NoRequest, OthersKeep, End
    <3>2. req[p].pair \in 1..issued /\ req[p].pair # 0
      BY <3>1, Facts DEF Fine
    <3>3. ~Unspent(req[p].pair) /\ \A j \in Pairs : pair[j].from = req[p].pair /\ Live(j) => j \in req[p].todo \cup req[p].locked
      BY <3>1 DEF RacedInv
    <3>4. pair'[req[p].pair].refresh \notin {"live", "expired"}
      BY <2>3, <3>2, <3>3 DEF Unspent
    <3>5. req[q].pair # req[p].pair
      BY <2>4, <3>2, <3>3
    <3> QED
      BY <2>2, <2>7, <3>1, <3>3, <3>4, <3>5
  <2> QED
    BY <2>6, <2>8, <2>9 DEF RacedInv, Unspent
<1>5. ASSUME issued' = issued, \A q \in Requests : ~RevokeGrant(q),
             \A q \in Requests : ~(/\ GoesStep(q, "raced") /\ req[q].kind = "refresh" /\ ~Unspent(req[q].pair)
                                   /\ req'[q].todo = Grant(req[q].user, req[q].client))
      PROVE  /\ raced' = raced
             /\ \A p \in Requests : req'[p].at = "raced" =>
                  /\ req[p].at = "raced" /\ req'[p].pair = req[p].pair
                  /\ req'[p].todo \cup req'[p].locked = req[p].todo \cup req[p].locked
  <2> DEFINE Same == /\ raced' = raced
                     /\ \A p \in Requests : req'[p].at = "raced" =>
                          /\ req[p].at = "raced" /\ req'[p].pair = req[p].pair
                          /\ req'[p].todo \cup req'[p].locked = req[p].todo \cup req[p].locked
  <2>0. \A p \in Requests : req'[p].at = "raced" => req'[p].kind \in {"exchange", "refresh"}
    <3>1. Inv1' => \A p \in Requests : Fine(req'[p], pair', issued')
      BY DEF Inv1, RequestInv
    <3> QED
      BY <1>1, <3>1 DEF Fine
  <2>1. CASE Quiet
    BY <2>0, <2>1 DEF Quiet, AllKeep
  <2>2. CASE DeleteProject \/ \E i \in Pairs : ExpireRefresh(i)
    BY <2>2 DEF DeleteProject, ExpireRefresh
  <2>3. CASE \E u \in Users : AccountStep(u) \/ RevokeStep(u)
    BY <2>0, <2>3 DEF AccountStep, RevokeStep, AllKeep
  <2>4. ASSUME NEW q \in Requests, \/ PresentStep(q) \/ \E k \in Codes : RedeemStep(q, k)
                                   \/ \E at \in {"claim", "insert"} : GoesStep(q, at)
        PROVE  Same
    BY <2>4 DEF PresentStep, RedeemStep, GoesStep, Goes, OthersKeep
  <2>5. ASSUME NEW q \in Requests, GoesStep(q, req[q].at),
               req'[q].todo \cup req'[q].locked = req[q].todo \cup req[q].locked
        PROVE  Same
    BY <2>5 DEF GoesStep, Goes, OthersKeep
  <2>6. \A q \in Requests : ~Inserts(q)
    <3>1. issued' # issued + 1
      BY <1>5, PairTypes
    <3> QED
      BY <3>1, NewPair DEF Inserts
  <2> QED
    BY <1>5, <2>1, <2>2, <2>3, <2>4, <2>5, <2>6, StepKinds DEF Inserts
<1> QED
  BY <1>1, <1>2, <1>3, <1>4, <1>5, RacesKeep, PairKinds

-----------------------------------------------------------------------------
LEMMA InitGrants == Init => GrantsInv
<1> SUFFICES ASSUME Init PROVE GrantsInv
  OBVIOUS
<1>1. Inv1
  BY InitType
<1>2. \A q \in Requests : req[q] = NoRequest
  BY DEF Init
<1>3. issued = 0 /\ raced = {} /\ \A i \in Pairs : pair[i] = NoPair
  BY DEF Init
<1>4. \A i \in Pairs : ~Standing(i) /\ ~Unspent(i) /\ ~Live(i) /\ ~(i <= issued)
  BY <1>3 DEF NoPair, Standing, Unspent, Live, Pairs
<1>5. AboutToInsert /\ EpochInv /\ RefreshInv
  BY <1>2, <1>4 DEF AboutToInsert, EpochInv, RefreshInv, NoRequest
<1>6. CodeInv
  BY <1>2, <1>3, <1>4 DEF CodeInv, CodeGivesOnePair, NoRequest
<1>7. RacedInv
  BY <1>2, <1>3, <1>4 DEF RacedInv, NoRequest
<1> QED
  BY <1>1, <1>5, <1>6, <1>7 DEF GrantsInv

LEMMA GrantsStep == GrantsInv /\ [Next]_vars => GrantsInv'
BY Inv1Step, AboutToInsertStep, EpochStep, CodeStep, RefreshInvStep, RacedStep DEF GrantsInv

LEMMA GrantsInvariant == Spec => []GrantsInv
BY InitGrants, GrantsStep, PTL DEF Spec

\* What is live goes back to an approval given since the account's credentials were last
\* revoked (Grants.NothingOfAnOldEpoch).
THEOREM NothingOld == Spec => []NothingOfAnOldEpoch
<1>1. GrantsInv => NothingOfAnOldEpoch
  BY DEF GrantsInv, EpochInv, NothingOfAnOldEpoch, Standing, Live
<1> QED
  BY <1>1, GrantsInvariant, PTL

\* A code gives one pair (Grants.CodeGivesOnePair).
THEOREM OnePairOfACode == Spec => []CodeGivesOnePair
<1>1. GrantsInv => CodeGivesOnePair
  BY DEF GrantsInv, CodeInv
<1> QED
  BY <1>1, GrantsInvariant, PTL

\* Of one approval one refresh token is live (Grants.OneRefreshPerApproval).
THEOREM OneRefresh == Spec => []OneRefreshPerApproval
<1>1. GrantsInv => OneRefreshPerApproval
  BY DEF GrantsInv, RefreshInv, OneRefreshPerApproval, Unspent
<1> QED
  BY <1>1, GrantsInvariant, PTL

\* What the winner of a race for a refresh token was given is dead when the loser is
\* answered (Grants.RacedPairIsDead).
THEOREM RacedIsDead == Spec => []RacedPairIsDead
<1>1. GrantsInv => RacedPairIsDead
  BY DEF GrantsInv, RacedInv, RacedPairIsDead
<1> QED
  BY <1>1, GrantsInvariant, PTL

\* A code becomes a pair for an account that can be used and may read the project
\* (Grants.MintsForWhoMayRead).
THEOREM MintsForMembers == Spec => MintsForWhoMayRead
<1>1. ASSUME GrantsInv, [Next]_vars
      PROVE  \A i \in Pairs : pair[i].access = "none" /\ pair'[i].access = "live" /\ pair'[i].from = 0
               => project /\ account[pair'[i].user].usable /\ pair'[i].user \in member
  <2> SUFFICES ASSUME NEW i \in Pairs, pair[i].access = "none", pair'[i].access = "live", pair'[i].from = 0
               PROVE  project /\ account[pair'[i].user].usable /\ pair'[i].user \in member
    OBVIOUS
  <2>1. Inv1 /\ AboutToInsert /\ PairStep /\ (issued' = issued \/ \E q \in Requests : Inserts(q))
    BY <1>1, PairKinds DEF GrantsInv
  <2>2. i > issued /\ i <= issued' /\ issued \in Nat
    BY <2>1, PairTypes DEF PairStep
  <2>3. PICK q \in Requests : Inserts(q)
    BY <2>1, <2>2, PairTypes
  <2>4. i = issued' /\ pair'[i].user = req[q].user /\ pair'[i].from = req[q].pair
    <3>1. Live(i)' \/ Standing(i)'
      BY DEF Live
    <3>2. ~(i <= issued)
      BY <2>1, <2>2, PairTypes
    <3> QED
      BY <2>1, <2>3, <3>1, <3>2, OldAndNew
  <2>5. InsertPair(q) /\ project /\ req[q].kind = "exchange" /\ req[q].at = "insert"
    <3>1. req[q].kind # "refresh"
      BY <2>1, <2>4, Facts DEF Fine
    <3> QED
      BY <2>3, <3>1 DEF Inserts, InsertPair, RotatePair
  <2> QED
    BY <2>1, <2>4, <2>5 DEF AboutToInsert, MayBeGranted
<1> QED
  BY <1>1, GrantsInvariant, PTL DEF Spec, MintsForWhoMayRead

\* An approval is one line of credentials (Grants.ApprovalGivesOneGrant).
THEOREM OneGrantOfAnApproval == Spec => []ApprovalGivesOneGrant
<1>1. CodeGivesOnePair /\ OneRefreshPerApproval /\ RacedPairIsDead => ApprovalGivesOneGrant
  BY DEF ApprovalGivesOneGrant
<1> QED
  BY <1>1, OnePairOfACode, OneRefresh, RacedIsDead, PTL
=============================================================================
