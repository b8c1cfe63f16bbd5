--------------------------- MODULE SecretRefresh ---------------------------
(***************************************************************************)
(* The credential of one Notion source connected by OAuth                  *)
(* (sources/notion-oauth.ts, admin/notion-oauth-routes.ts): drivers, of a  *)
(* run and of a probe, that refresh the pair of tokens when Notion refuses *)
(* the access token; callbacks that connect and reconnect; PATCH, deletion *)
(* and the pass of rotate-secret, which know nothing of the source's lock. *)
(*                                                                         *)
(* A pair is <<c, n>>: the n-th of connection c.  Notion honours the       *)
(* newest pair of a connection only; a refresh token is single-use.  A     *)
(* ciphertext has a random IV: whoever compares the one it read finds it   *)
(* unchanged exactly when nobody has written since.                        *)
(***************************************************************************)
EXTENDS Naturals, FiniteSets

CONSTANTS Drivers, Callbacks, MaxConnections, MaxRefreshes

VARIABLES
  row,       \* document_sources: whether it is there, what secret_enc holds, config.oauth
  read,      \* who has read the ciphertext that is in the row now
  driver,    \* NotionOAuthSession: the pair it has, and the place of its request
  callback,  \* GET /api/sources/notion/oauth/callback
  lock,      \* notionOAuthLocks, of this source: its holder
  patch,     \* PATCH of the settings: the config.oauth it read, or NoPatch
  pass,      \* rotate-secret: whether it is about to write the row
  newest,    \* Notion: the newest pair of a connection, 0 before there is one, or Withdrawn
  refused,   \* Notion: the connections whose newest access token it refuses
  lost,      \* ghost: the connections whose newest pair nobody could keep
  replaced,  \* ghost: the connections somebody put another credential in place of
  stale      \* ghost: a PATCH and another writer of config.oauth have met

notion == <<newest, refused>>
others == <<callback, patch, pass>>
ghosts == <<lost, replaced, stale>>
refreshVars == <<row, read, driver, lock, others, notion, ghosts>>

Connections == 1..MaxConnections
NoTokens == <<0, 0>>
Withdrawn == MaxRefreshes + 1
NoHolder == "no one"
Pass == "rotate-secret"
Off == [at |-> "off", pair |-> NoTokens, met |-> FALSE]
NoFlow == [at |-> "off", flow |-> "none", connection |-> 0]
NoSecret(here) == [here |-> here, secret |-> "none", pair |-> NoTokens, oauth |-> 0]
NoPatch == MaxConnections + 1

\* A driver is no callback, and who has read the row is told apart from nobody and the pass.
ASSUME WritersAssumption ==
  Drivers \cap Callbacks = {} /\ {NoHolder, Pass} \cap (Drivers \cup Callbacks) = {}
ASSUME ConnectionsAssumption == MaxConnections \in Nat \ {0} /\ MaxRefreshes \in Nat \ {0}

SecretInit ==
  /\ row \in {NoSecret("not yet"), [here |-> "yes", secret |-> "oauth", pair |-> <<1, 1>>, oauth |-> 1]}
  /\ newest = [c \in Connections |-> IF c = 1 /\ row.here = "yes" THEN 1 ELSE 0]
  /\ driver = [d \in Drivers |-> Off] /\ callback = [k \in Callbacks |-> NoFlow]
  /\ read = {} /\ lock = NoHolder /\ patch = NoPatch /\ pass = FALSE
  /\ refused = {} /\ lost = {} /\ replaced = {} /\ stale = FALSE

-----------------------------------------------------------------------------
Here == row.here = "yes"

\* Mutant: whatever is stored is overwritten.
UnchangedAnyway(who) == Here
\* replaceSourceSecretIfUnchanged: the WHERE of the UPDATE.
Unchanged(who) == Here /\ who \in read

\* encryptSecret: a ciphertext nobody has read yet.
Write(r) == row' = r /\ read' = {}
WithPair(pair) == [row EXCEPT !.secret = "oauth", !.pair = pair]

\* The connection in the row, if any, that gives way to connection c, or to none.
GivesWayTo(c) == replaced' = replaced \cup ({row.pair[1]} \ {0, c})

\* A write by somebody who does not take the lock, while drivers may be refreshing.
Met == driver' = [d \in Drivers |-> [driver[d] EXCEPT !.met = @ \/ driver[d].at \in {"refreshing", "saving"}]]

-----------------------------------------------------------------------------
(* A driver.                                                               *)

\* client(): the pair in the row is the one to begin with.
Build(d) ==
  /\ driver[d].at = "off" /\ row.pair # NoTokens
  /\ driver' = [driver EXCEPT ![d] = [Off EXCEPT !.at = "working", !.pair = row.pair]]
  /\ UNCHANGED <<row, read, lock, others, notion, ghosts>>

\* fetch: a 401.
Meet401(d) ==
  LET pair == driver[d].pair
  IN /\ driver[d].at = "working"
     /\ pair[2] # newest[pair[1]] \/ pair[1] \in refused
     /\ driver' = [driver EXCEPT ![d].at = "waiting"]
     /\ UNCHANGED <<row, read, lock, others, notion, ghosts>>

Locked(d) ==
  /\ driver' = [driver EXCEPT ![d].at = "refreshing", ![d].met = FALSE]
  /\ lock' = d /\ read' = read \cup {d}

\* Mutant: the token that was refused is refreshed, whatever the row holds by now.
LookUpNothing(d) ==
  /\ driver[d].at = "waiting" /\ lock = NoHolder /\ Locked(d)
  /\ UNCHANGED <<row, others, notion, ghosts>>

\* refreshLocked, to the request it sends: under the lock the row is read again.  Another
\* pair there is the one to use; none, or an integration token, ends the session.
LookUp(d) ==
  /\ driver[d].at = "waiting" /\ lock = NoHolder
  /\ \/ /\ row.pair = NoTokens
        /\ driver' = [driver EXCEPT ![d].at = "dead"] /\ UNCHANGED <<lock, read>>
     \/ /\ row.pair \notin {NoTokens, driver[d].pair}
        /\ driver' = [driver EXCEPT ![d].at = "working", ![d].pair = row.pair] /\ UNCHANGED <<lock, read>>
     \/ row.pair = driver[d].pair /\ Locked(d)
  /\ UNCHANGED <<row, others, notion, ghosts>>

LetGo(d, s) == driver' = [driver EXCEPT ![d] = s] /\ lock' = NoHolder

\* The token endpoint: a new pair, whose answer may be lost; invalid_grant, which ends the
\* session; or no answer, which ends the run.
RefreshPair(d) ==
  LET c == driver[d].pair[1]
      n == driver[d].pair[2]
  IN /\ driver[d].at = "refreshing"
     /\ \/ /\ n = newest[c] /\ n < MaxRefreshes
           /\ newest' = [newest EXCEPT ![c] = n + 1] /\ refused' = refused \ {c}
           /\ \/ driver' = [driver EXCEPT ![d].at = "saving"] /\ UNCHANGED <<read, lock, lost>>
              \/ LetGo(d, Off) /\ read' = read \ {d} /\ lost' = lost \cup {c}
        \/ /\ n # newest[c]
           /\ LetGo(d, [driver[d] EXCEPT !.at = "dead"]) /\ read' = read \ {d}
           /\ UNCHANGED <<notion, lost>>
        \/ LetGo(d, Off) /\ read' = read \ {d} /\ UNCHANGED <<notion, lost>>
     /\ UNCHANGED <<row, others, replaced, stale>>

\* Mutant: the refresh token that came with the access token is not kept.
AccessTokenOnly(pair) == pair
\* Both tokens of the grant.
Renewed(pair) == <<pair[1], pair[2] + 1>>

\* The compare-and-swap, which may fail, before it is done or after.
Save(d) ==
  LET c    == driver[d].pair[1]
      next == Renewed(driver[d].pair)
  IN /\ driver[d].at = "saving"
     /\ \/ /\ Unchanged(d) /\ Write(WithPair(next)) /\ GivesWayTo(c)
           /\ \/ LetGo(d, [Off EXCEPT !.at = "working", !.pair = next])
              \/ LetGo(d, [driver[d] EXCEPT !.at = "dead"])
           /\ UNCHANGED lost
        \/ /\ LetGo(d, [driver[d] EXCEPT !.at = "dead"]) /\ read' = read \ {d}
           /\ lost' = lost \cup {c}
           /\ UNCHANGED <<row, replaced>>
     /\ UNCHANGED <<others, notion, stale>>

\* The run or the probe is over.
EndDriver(d) ==
  /\ driver[d].at \in {"working", "dead"}
  /\ driver' = [driver EXCEPT ![d] = Off]
  /\ UNCHANGED <<row, read, lock, others, notion, ghosts>>

-----------------------------------------------------------------------------
(* Connect with Notion.                                                    *)

\* The browser is back and the code is exchanged: a connection of its own.
Authorise(k) ==
  /\ callback[k].at = "off"
  /\ \E c \in Connections, flow \in {"reconnect", "create"} :
       /\ newest[c] = 0 /\ \A b \in 1..(c - 1) : newest[b] # 0
       /\ newest' = [newest EXCEPT ![c] = 1]
       /\ callback' = [callback EXCEPT ![k] = [at |-> "granted", flow |-> flow, connection |-> c]]
  /\ UNCHANGED <<row, read, driver, lock, patch, pass, refused, ghosts>>

\* Mutant: the callback does not take the lock of the source.
BeginReconnectUnlocked(k) ==
  /\ callback[k].at = "granted" /\ callback[k].flow = "reconnect" /\ Here
  /\ callback' = [callback EXCEPT ![k].at = "checked"] /\ read' = read \cup {k}
  /\ UNCHANGED <<row, driver, lock, patch, pass, notion, ghosts>>

\* Under the lock, the source is read; a source that is gone is not found.
BeginReconnect(k) ==
  /\ callback[k].at = "granted" /\ callback[k].flow = "reconnect" /\ lock = NoHolder
  /\ IF Here
       THEN lock' = k /\ callback' = [callback EXCEPT ![k].at = "checked"] /\ read' = read \cup {k}
       ELSE callback' = [callback EXCEPT ![k] = NoFlow] /\ UNCHANGED <<lock, read>>
  /\ UNCHANGED <<row, driver, patch, pass, notion, ghosts>>

\* The transaction: the pair and the workspace it belongs to; or a conflict, or an error.
Reconnect(k) ==
  LET c == callback[k].connection
  IN /\ callback[k].at = "checked"
     /\ callback' = [callback EXCEPT ![k] = NoFlow] /\ lock' = IF lock = k THEN NoHolder ELSE lock
     /\ \/ Unchanged(k) /\ Write([WithPair(<<c, 1>>) EXCEPT !.oauth = c]) /\ GivesWayTo(c)
        \/ read' = read \ {k} /\ UNCHANGED <<row, replaced>>
     /\ UNCHANGED <<driver, patch, pass, notion, lost, stale>>

\* createSource: the row without its credential; the name may be taken.  (One created after
\* this one's deletion is another source.)
Create(k) ==
  /\ callback[k].at = "granted" /\ callback[k].flow = "create"
  /\ IF row.here = "not yet"
       THEN /\ Write([NoSecret("yes") EXCEPT !.oauth = callback[k].connection])
            /\ callback' = [callback EXCEPT ![k].at = "created"]
       ELSE callback' = [callback EXCEPT ![k] = NoFlow] /\ UNCHANGED <<row, read>>
  /\ UNCHANGED <<driver, lock, patch, pass, notion, ghosts>>

\* Its first pair, if it holds no secret yet; or else the source is removed again, if that
\* does not fail too.
SealFirst(k) ==
  LET c == callback[k].connection
  IN /\ callback[k].at = "created"
     /\ callback' = [callback EXCEPT ![k] = NoFlow] /\ Met
     /\ \/ /\ Here /\ row.secret = "none"
           /\ Write(WithPair(<<c, 1>>)) /\ stale' = (stale \/ row.oauth # c) /\ UNCHANGED replaced
        \/ Write(NoSecret("gone")) /\ GivesWayTo(0) /\ UNCHANGED stale
        \/ UNCHANGED <<row, read, replaced, stale>>
     /\ UNCHANGED <<lock, patch, pass, notion, lost>>

-----------------------------------------------------------------------------
(* Those who do not know of the lock.                                      *)

\* Mutant: the workspace stays when the credential goes.
PatchCredentialOnly ==
  /\ Here /\ GivesWayTo(0) /\ Met
  /\ \E secret \in {"token", "none"} : Write([row EXCEPT !.secret = secret, !.pair = NoTokens])
  /\ UNCHANGED <<lock, others, notion, lost, stale>>

\* updateSource with a secret: an integration token, or none; the workspace goes with it.
PatchSecret ==
  /\ Here /\ GivesWayTo(0) /\ Met
  /\ \E secret \in {"token", "none"} : Write([row EXCEPT !.secret = secret, !.pair = NoTokens, !.oauth = 0])
  /\ UNCHANGED <<lock, others, notion, lost, stale>>

\* updateSource with settings: it reads the row,
BeginSourcePatch ==
  /\ patch = NoPatch /\ Here /\ patch' = row.oauth
  /\ UNCHANGED <<row, read, driver, callback, lock, pass, notion, ghosts>>

\* and writes the whole of them, the workspace as it was.
PatchSettings ==
  /\ patch # NoPatch /\ patch' = NoPatch
  /\ IF Here THEN row' = [row EXCEPT !.oauth = patch] /\ stale' = (stale \/ patch # row.oauth)
             ELSE UNCHANGED <<row, stale>>
  /\ UNCHANGED <<read, driver, callback, lock, pass, notion, lost, replaced>>

\* DELETE of the source.
DeleteSecret ==
  /\ Here /\ Write(NoSecret("gone")) /\ GivesWayTo(0) /\ Met
  /\ UNCHANGED <<lock, others, notion, lost, stale>>

\* rotateSecrets: it reads a row, and seals it anew if it is as it was read.
ReadForRotation ==
  /\ ~pass /\ row.secret # "none" /\ pass' = TRUE /\ read' = read \cup {Pass}
  /\ UNCHANGED <<row, driver, callback, lock, patch, notion, ghosts>>
Rotate ==
  /\ pass /\ pass' = FALSE
  /\ IF Unchanged(Pass) THEN Write(row) /\ Met ELSE UNCHANGED <<row, read, driver>>
  /\ UNCHANGED <<callback, lock, patch, notion, ghosts>>

\* The process dies; the pass is another process.
Crash ==
  /\ driver' = [d \in Drivers |-> Off] /\ callback' = [k \in Callbacks |-> NoFlow]
  /\ lock' = NoHolder /\ patch' = NoPatch /\ read' = read \cap {Pass}
  /\ lost' = lost \cup {driver[d].pair[1] : d \in {e \in Drivers : driver[e].at = "saving"}}
  /\ UNCHANGED <<row, pass, notion, replaced, stale>>

\* Notion: an access token expires; a user revokes a connection.
Expire(c) ==
  /\ newest[c] \in 1..MaxRefreshes /\ c \notin refused /\ refused' = refused \cup {c}
  /\ UNCHANGED <<row, read, driver, lock, others, newest, ghosts>>
RevokeConnection(c) ==
  /\ newest[c] \in 1..MaxRefreshes
  /\ newest' = [newest EXCEPT ![c] = Withdrawn] /\ refused' = refused \ {c}
  /\ UNCHANGED <<row, read, driver, lock, others, ghosts>>

-----------------------------------------------------------------------------
SecretNext ==
  \/ \E d \in Drivers : Build(d) \/ Meet401(d) \/ LookUp(d) \/ RefreshPair(d) \/ Save(d) \/ EndDriver(d)
  \/ \E k \in Callbacks : Authorise(k) \/ BeginReconnect(k) \/ Reconnect(k) \/ Create(k) \/ SealFirst(k)
  \/ PatchSecret \/ BeginSourcePatch \/ PatchSettings \/ DeleteSecret \/ ReadForRotation \/ Rotate \/ Crash
  \/ \E c \in Connections : Expire(c) \/ RevokeConnection(c)

SecretSpec == SecretInit /\ [][SecretNext]_refreshVars

-----------------------------------------------------------------------------
(* Properties.                                                             *)

\* Types; the lock is held by whoever is between its read and its write.
SecretTypeOK ==
  /\ row.here \in {"not yet", "yes", "gone"} /\ row.secret \in {"none", "token", "oauth"}
  /\ row.pair # NoTokens <=> row.secret = "oauth"
  /\ row.oauth \in {0} \cup Connections /\ patch \in 0..NoPatch /\ pass \in BOOLEAN
  /\ read \subseteq Drivers \cup Callbacks \cup {Pass}
  /\ newest \in [Connections -> 0..Withdrawn]
  /\ \A d \in Drivers :
       /\ driver[d].at \in {"off", "working", "waiting", "refreshing", "saving", "dead"}
       /\ driver[d].at \in {"refreshing", "saving"} <=> lock = d
  /\ \A k \in Callbacks : callback[k].at = "checked" <=> lock = k

\* No refresh token is presented twice: two drivers that were refused the same access token
\* refresh it once, unless its successor was lost or the connection revoked (notion-oauth.ts,
\* refreshLocked).
TokenIsSpentOnce ==
  \A d \in Drivers : driver[d].at = "refreshing" =>
    LET c == driver[d].pair[1] IN newest[c] \in {driver[d].pair[2], Withdrawn} \/ c \in lost

\* The pair that is stored can be refreshed, unless its successor was lost.
StoredPairWorks ==
  row.pair # NoTokens =>
    LET c == row.pair[1]
    IN \/ newest[c] \in {row.pair[2], Withdrawn} \/ c \in lost
       \/ \E d \in Drivers : driver[d].at = "saving" /\ driver[d].pair = row.pair

\* A connection somebody put another credential in place of never comes back: not with the
\* refresh of a run that began before (sources.ts, replaceSourceSecretIfUnchanged).
ReplacedStaysReplaced == row.pair[1] \notin replaced

\* Refreshing and reconnecting never meet: a refresh under way finds what it read, unless
\* somebody wrote who does not take the lock (notion-oauth.ts, notionOAuthLocks).
OnlyOutsidersMeet ==
  \A d \in Drivers : driver[d].at \in {"refreshing", "saving"} /\ ~driver[d].met => Unchanged(d)

\* The workspace the settings name is the credential's, until a PATCH of the settings has met
\* another writer (notion-oauth-routes.ts, callback; sources.ts, updateSource).
WorkspaceFollowsCredential == row.secret # "none" /\ ~stale => row.oauth = row.pair[1]

\* A refresh token is worth one request, and what came of it is kept (refreshLocked, under the
\* lock of the source).
RefreshIsSafe == TokenIsSpentOnce /\ StoredPairWorks

\* Writers of one row that do not know of each other leave it one writer's work: a refresh that
\* ends late does not bring back what was replaced, only those outside the lock meet at all,
\* and the workspace in the row is the one of its credential.
WritersAgree == ReplacedStaysReplaced /\ OnlyOutsidersMeet /\ WorkspaceFollowsCredential
=============================================================================
