------------------------- MODULE SourceTokenProofs -------------------------
(***************************************************************************)
(* What holds of a source's revision token for every number of changes,    *)
(* edits, runs and PATCHes at once.  The argument for TokenDescribesIndex: *)
(*                                                                         *)
(*   OriginInv  a run's token is no newer than the content it read, and    *)
(*              neither is ahead of the origin                             *)
(*   EditsInv   a PATCH has read settings that were written before it      *)
(*   LiveInv    a token in the row, or read by a PATCH about to write, is  *)
(*              no newer than what the run in flight has read, or what the *)
(*              index holds                                                *)
(*   ConfigInv  where the settings of the row have a token, or a PATCH has *)
(*              read one with them, the index and the run in flight are of *)
(*              these settings                                             *)
(*                                                                         *)
(* A new number of settings is in nobody's hands (EditsInv), so ConfigInv  *)
(* begins anew with every edit that drops the token; the writes that do    *)
(* not are those that set carried, and the end of a run makes it good.     *)
(***************************************************************************)
EXTENDS SourceToken, TLAPS

\* What has been read by the time the sync is half, or all, done.
ReadInv ==
  /\ run.at \in {"read", "synced"} => run.content \in Numbers
  /\ run.at = "half" /\ Late => run.content \in Numbers

TypeInv == TypeOK /\ ReadInv

USE DEF Numbers, Edits, Token, Stages

-----------------------------------------------------------------------------
(* Types.                                                                  *)

LEMMA InitType == Init => TypeInv
<1> SUFFICES ASSUME Init PROVE TypeInv
  OBVIOUS
<1>1. patch \in [Editors -> Request] /\ \A e \in Editors : patch[e] = NoPatch
  BY BoundsAssumption DEF Init, NoPatch, Request
<1>2. index \in [config : Edits \cup {-1}, flavor : Edits \cup {-1}, content : Numbers \cup {-1}]
  BY DEF Init
<1>3. run = NoRun /\ NoRun \in [at : Stages, config : Edits, flavor : Edits, content : Token, token : Token]
  BY BoundsAssumption DEF Init, NoRun
<1>4. row \in [config : Edits, flavor : Edits, token : Token] /\ origin \in Numbers /\ edits \in Edits
  BY BoundsAssumption DEF Init
<1> QED
  BY <1>1, <1>2, <1>3, <1>4 DEF Init, TypeInv, TypeOK, ReadInv, NoRun, NoTick

LEMMA WrittenType ==
  ASSUME TypeOK, NEW e \in Editors, NEW next \in {"off", "reset", "enqueue"}, Written(e, next)
  PROVE  /\ patch' \in [Editors -> Request]
         /\ \A f \in Editors : patch'[f].at = "off" => patch'[f] = NoPatch
<1>1. NoPatch \in Request /\ NoPatch.at = "off"
  BY BoundsAssumption DEF NoPatch, Request
<1>2. [NoPatch EXCEPT !.at = next] \in Request /\ [NoPatch EXCEPT !.at = next].at = next
  BY BoundsAssumption DEF NoPatch, Request
<1>3. next = "off" => [NoPatch EXCEPT !.at = next] = NoPatch
  BY DEF NoPatch
<1> QED
  BY <1>1, <1>2, <1>3 DEF Written, TypeOK

LEMMA TickType == ASSUME TypeInv, SyncTick PROVE TypeInv'
<1>1. CASE SelectSource
  BY <1>1 DEF SelectSource, TypeInv, TypeOK, ReadInv
<1>2. CASE BeginProbe
  BY <1>2 DEF BeginProbe, TypeInv, TypeOK, ReadInv, NoTick
<1>3. ASSUME NEW answer, AnswerProbe(answer)
      PROVE  TypeInv'
  BY <1>3 DEF AnswerProbe, Enqueue, TypeInv, TypeOK, ReadInv, NoTick
<1> QED
  BY <1>1, <1>2, <1>3 DEF SyncTick

LEMMA RunType == ASSUME TypeInv, RunSteps PROVE TypeInv'
<1>1. CASE StartRun
  <2>1. /\ run' = [at |-> "todo", config |-> row.config, flavor |-> row.flavor,
                   content |-> None, token |-> None]
        /\ job' = "running"
    BY <1>1 DEF StartRun, NoRun
  <2>2. row.config \in Edits /\ row.flavor \in Edits
    BY DEF TypeInv, TypeOK
  <2>3. None \in Token
    BY DEF Token
  <2>4. run' \in [at : Stages, config : Edits, flavor : Edits, content : Token, token : Token]
    BY <2>1, <2>2, <2>3 DEF Stages
  <2> QED
    BY <1>1, <2>1, <2>4 DEF StartRun, TypeInv, TypeOK, ReadInv
<1>2. ASSUME NEW token \in Tokens, BeginSync(token)
      PROVE  TypeInv'
  BY <1>2 DEF BeginSync, ReadContent, TakeToken, Tokens, TypeInv, TypeOK, ReadInv
<1>3. ASSUME NEW token \in Tokens, EndSync(token)
      PROVE  TypeInv'
  BY <1>3 DEF EndSync, ReadContent, TakeToken, Tokens, TypeInv, TypeOK, ReadInv
<1>4. ASSUME NEW scanned \in BOOLEAN, SyncFails(scanned)
      PROVE  TypeInv'
  BY <1>4 DEF SyncFails, TypeInv, TypeOK, ReadInv
<1>5. CASE RecordSyncedSource
  BY <1>5 DEF RecordSyncedSource, TypeInv, TypeOK, ReadInv
<1>6. CASE FinishRun
  <2>1. index' \in [config : Edits \cup {-1}, flavor : Edits \cup {-1}, content : Numbers \cup {-1}]
    BY <1>6 DEF FinishRun, TypeInv, TypeOK, ReadInv
  <2> QED
    BY <1>6, <2>1, BoundsAssumption DEF FinishRun, TypeInv, TypeOK, ReadInv, NoRun
<1>7. CASE FailRun
  BY <1>7, BoundsAssumption DEF FailRun, TypeInv, TypeOK, ReadInv, NoRun
<1> QED
  BY <1>1, <1>2, <1>3, <1>4, <1>5, <1>6, <1>7 DEF RunSteps, Sync

\* A write of the row, and nothing else.
LEMMA RowType ==
  ASSUME TypeInv, NEW e \in Editors, NEW next \in {"off", "reset", "enqueue"}, Written(e, next),
         row' \in [config : Edits, flavor : Edits, token : Token],
         edits' \in Edits, carried' \in BOOLEAN,
         UNCHANGED <<origin, index, failed, job, run, tick>>
  PROVE  TypeInv'
<1>1. /\ patch' \in [Editors -> Request]
      /\ \A f \in Editors : patch'[f].at = "off" => patch'[f] = NoPatch
  BY WrittenType DEF TypeInv
<1> QED
  BY <1>1 DEF TypeInv, TypeOK, ReadInv

LEMMA PatchType ==
  ASSUME TypeInv, NEW e \in Editors, ReadPatch(e) \/ UpdateSource(e)
  PROVE  TypeInv'
<1>1. CASE ReadPatch(e)
  <2>1. [at |-> "write", config |-> row.config, token |-> row.token] \in Request
    BY DEF TypeInv, TypeOK, Request
  <2> QED
    BY <1>1, <2>1 DEF ReadPatch, TypeInv, TypeOK, ReadInv
<1>2. CASE WriteConfig(e)
  <2>1. edits' \in Edits /\ edits' = edits + 1
    BY <1>2, BoundsAssumption DEF WriteConfig, TypeInv, TypeOK
  <2>2. row' = [config |-> edits', flavor |-> row.flavor, token |-> None]
    BY <1>2 DEF WriteConfig, TypeInv, TypeOK
  <2>3. row' \in [config : Edits, flavor : Edits, token : Token]
    BY <2>1, <2>2 DEF TypeInv, TypeOK
  <2> QED
    <3>1. /\ Written(e, "enqueue") /\ UNCHANGED <<origin, index, failed, job, run, tick>>
          /\ edits' \in Edits /\ carried' \in BOOLEAN
      BY <1>2, <2>1, <2>3 DEF WriteConfig, TypeInv, TypeOK
    <3> QED
      BY <1>2, <2>1, <2>3, <3>1, RowType
<1>3. CASE WriteSame(e)
  <2>1. row' \in [config : Edits, flavor : Edits, token : Token] /\ carried' \in BOOLEAN
    BY <1>3 DEF WriteSame, TypeInv, TypeOK, Request
  <2> QED
    <3>1. /\ Written(e, "off") /\ UNCHANGED <<origin, index, failed, job, run, tick>>
          /\ edits' \in Edits /\ carried' \in BOOLEAN
      BY <1>3, <2>1 DEF WriteSame, TypeInv, TypeOK
    <3> QED
      BY <1>3, <2>1, <3>1, RowType
<1>4. CASE WriteFlavor(e)
  <2>1. row' \in [config : Edits, flavor : Edits, token : Token] /\ edits' \in Edits
    BY <1>4, BoundsAssumption DEF WriteFlavor, TypeInv, TypeOK
  <2> QED
    <3>1. /\ Written(e, "reset") /\ UNCHANGED <<origin, index, failed, job, run, tick>>
          /\ edits' \in Edits /\ carried' \in BOOLEAN
      BY <1>4, <2>1 DEF WriteFlavor, TypeInv, TypeOK
    <3> QED
      BY <1>4, <2>1, <3>1, RowType
<1>5. CASE NarrowExtensions(e)
  <2>1. edits' \in Edits /\ edits' = edits + 1 /\ patch[e].token \in Token
    BY <1>5, BoundsAssumption DEF NarrowExtensions, TypeInv, TypeOK, Request
  <2>2. row' \in [config : Edits, flavor : Edits, token : Token]
    BY <1>5, <2>1 DEF NarrowExtensions
  <2>3. carried' \in BOOLEAN
    BY <1>5 DEF NarrowExtensions
  <2> QED
    <3>1. /\ Written(e, "reset") /\ UNCHANGED <<origin, index, failed, job, run, tick>>
          /\ edits' \in Edits /\ carried' \in BOOLEAN
      BY <1>5, <2>1, <2>2, <2>3 DEF NarrowExtensions, TypeInv, TypeOK
    <3> QED
      BY <1>5, <2>1, <2>2, <2>3, <3>1, RowType
<1>6. CASE EnqueuePatch(e)
  <2>1. NoPatch \in Request
    BY BoundsAssumption DEF NoPatch, Request
  <2> QED
    BY <1>6, <2>1 DEF EnqueuePatch, Enqueue, TypeInv, TypeOK, ReadInv
<1> QED
  BY <1>1, <1>2, <1>3, <1>4, <1>5, <1>6 DEF UpdateSource

LEMMA StepType == TypeInv /\ [Next]_vars => TypeInv'
<1> SUFFICES ASSUME TypeInv, [Next]_vars PROVE TypeInv'
  OBVIOUS
<1>1. CASE OriginChanges
  BY <1>1, BoundsAssumption DEF OriginChanges, TypeInv, TypeOK, ReadInv
<1>2. CASE SyncNow
  BY <1>2 DEF SyncNow, Enqueue, TypeInv, TypeOK, ReadInv
<1>3. CASE UNCHANGED vars
  BY <1>3 DEF vars, TypeInv, TypeOK, ReadInv
<1> QED
  BY <1>1, <1>2, <1>3, TickType, RunType, PatchType DEF Next

\* Whatever runs, ticks and requests do to one another, every variable stays
\* in its type and none leaves anything of itself behind (runSyncTick,
\* collectSource, updateSource).
THEOREM TypeCorrect == Spec => []TypeOK
<1>1. TypeInv => TypeOK
  BY DEF TypeInv
<1> QED
  BY <1>1, InitType, StepType, PTL DEF Spec

-----------------------------------------------------------------------------
(* A stored token speaks for what is indexed.                              *)

Writing(e) == patch[e].at = "write"

\* The tokens the scheduler may yet compare with.
LiveTokens == {t \in Numbers : row.token = t \/ \E e \in Editors : Writing(e) /\ patch[e].token = t}

\* A token was taken under the settings of the row, or so somebody will say.
Vouched ==
  \/ row.token # None
  \/ \E e \in Editors : Writing(e) /\ patch[e].config = row.config /\ patch[e].token # None

HasRead == run.at \in {"read", "synced"}

OriginInv ==
  /\ run.token # None => run.token <= origin
  /\ HasRead => run.content <= origin
  /\ HasRead /\ run.token # None => run.token <= run.content

EditsInv == row.config <= edits /\ \A e \in Editors : Writing(e) => patch[e].config <= edits

LiveInv ==
  \A t \in LiveTokens :
    /\ t <= origin
    /\ HasRead => t <= run.content
    /\ ~failed => t <= Promised.content

ConfigInv ==
  Vouched /\ ~carried =>
    /\ job = "running" => run.config = row.config
    /\ ~failed => Promised.config = row.config

IInv ==
  /\ TypeInv /\ EditsInv /\ ConfigInv
  /\ ~Late => OriginInv /\ LiveInv

Kept == EditsInv' /\ ConfigInv' /\ (~Late => OriginInv' /\ LiveInv')

\* Where the row's settings and token and the requests stay, the tokens do.
LEMMA SameTokens ==
  ASSUME UNCHANGED <<row, edits, patch>>
  PROVE  LiveTokens' = LiveTokens /\ Vouched' = Vouched /\ (EditsInv => EditsInv')
BY DEF LiveTokens, Vouched, EditsInv, Writing

LEMMA InitLive == Init => IInv
<1> SUFFICES ASSUME Init PROVE IInv
  OBVIOUS
<1>1. TypeInv
  BY InitType
<1>2. row.token = None /\ row.config = 0 /\ \A e \in Editors : ~Writing(e)
  BY DEF Init, Writing, NoPatch
<1>3. LiveTokens = {} /\ ~Vouched
  BY <1>2, NoneAssumption DEF LiveTokens, Vouched
<1> QED
  BY <1>1, <1>2, <1>3 DEF Init, NoRun, IInv, EditsInv, ConfigInv, OriginInv, LiveInv, HasRead

LEMMA OriginLive == ASSUME IInv, OriginChanges PROVE Kept
<1>1. LiveTokens' = LiveTokens /\ Vouched' = Vouched /\ EditsInv'
  BY SameTokens DEF OriginChanges, IInv
<1>2. ~Late => OriginInv'
  BY NoneAssumption DEF OriginChanges, IInv, TypeInv, TypeOK, ReadInv, OriginInv, HasRead
<1>3. ~Late => LiveInv'
  BY <1>1 DEF OriginChanges, IInv, TypeInv, TypeOK, LiveInv, LiveTokens, HasRead, Promised
<1>4. ConfigInv'
  BY <1>1 DEF OriginChanges, IInv, ConfigInv, Promised
<1> QED
  BY <1>1, <1>2, <1>3, <1>4 DEF Kept

\* What only a tick, or a request for a run, does.
LEMMA JobLive ==
  ASSUME IInv, job # "running" => job' # "running", job = "running" => job' = job,
         UNCHANGED <<origin, row, edits, index, failed, carried, run, patch>>
  PROVE  Kept
<1>1. LiveTokens' = LiveTokens /\ Vouched' = Vouched /\ EditsInv'
  BY SameTokens DEF IInv
<1>2. Promised' = Promised
  BY DEF Promised
<1>3. ~Late => OriginInv' /\ LiveInv'
  BY <1>1, <1>2 DEF IInv, OriginInv, LiveInv, HasRead
<1>4. ConfigInv'
  BY <1>1, <1>2 DEF IInv, ConfigInv
<1> QED
  BY <1>1, <1>3, <1>4 DEF Kept

LEMMA TickLive == ASSUME IInv, SyncTick \/ SyncNow PROVE Kept
BY JobLive DEF SyncTick, SelectSource, BeginProbe, AnswerProbe, SyncNow, Enqueue, IInv, TypeInv, TypeOK

LEMMA StartRunLive == ASSUME IInv, StartRun PROVE Kept
<1>1. LiveTokens' = LiveTokens /\ Vouched' = Vouched /\ EditsInv'
  BY SameTokens DEF StartRun, IInv
<1>2. run'.config = row.config /\ run'.at = "todo" /\ run'.token = None
  BY DEF StartRun, NoRun
<1>3. Promised' = Promised
  BY <1>2 DEF StartRun, Promised
<1>4. ~Late => OriginInv' /\ LiveInv'
  BY <1>1, <1>2, <1>3 DEF StartRun, IInv, OriginInv, LiveInv, HasRead
<1>5. ConfigInv'
  BY <1>1, <1>2, <1>3 DEF StartRun, IInv, ConfigInv
<1> QED
  BY <1>1, <1>4, <1>5 DEF Kept

\* The steps of a run before it writes or ends: the settings it began with
\* stay, and nothing is promised yet.
LEMMA SyncConfig ==
  ASSUME IInv, run'.config = run.config, run.at # "synced", run'.at # "synced",
         UNCHANGED <<row, edits, index, failed, carried, job, patch>>
  PROVE  /\ LiveTokens' = LiveTokens /\ Promised' = Promised
         /\ EditsInv' /\ ConfigInv'
<1>1. LiveTokens' = LiveTokens /\ Vouched' = Vouched /\ EditsInv'
  BY SameTokens DEF IInv
<1>2. Promised' = Promised
  BY DEF Promised
<1> QED
  BY <1>1, <1>2 DEF IInv, ConfigInv

LEMMA SyncLive ==
  ASSUME IInv, NEW token \in Tokens, BeginSync(token) \/ EndSync(token)
  PROVE  Kept
<1>1. run'.config = run.config /\ run'.at \in {"half", "read"} /\ run.at # "synced"
  BY DEF BeginSync, EndSync, ReadContent, TakeToken, IInv, TypeInv, TypeOK
<1>2. LiveTokens' = LiveTokens /\ Promised' = Promised /\ EditsInv' /\ ConfigInv'
  BY <1>1, SyncConfig DEF BeginSync, EndSync
<1>3. ASSUME ~Late, BeginSync(token)
      PROVE  OriginInv' /\ LiveInv'
  <2>1. run' = [run EXCEPT !.token = token, !.at = "half"]
    BY <1>3 DEF BeginSync, TakeToken
  <2>2. run'.at = "half" /\ run'.token = token
    BY <2>1 DEF IInv, TypeInv, TypeOK
  <2>3. OriginInv'
    BY <1>3, <2>2 DEF BeginSync, IInv, TypeInv, TypeOK, OriginInv, HasRead, Tokens
  <2>4. LiveInv'
    BY <1>2, <1>3, <2>2 DEF BeginSync, IInv, LiveInv, HasRead
  <2> QED
    BY <2>3, <2>4
<1>4. ASSUME ~Late, EndSync(token)
      PROVE  OriginInv' /\ LiveInv'
  <2>1. run' = [run EXCEPT !.content = origin, !.at = "read"]
    BY <1>4 DEF EndSync, ReadContent
  <2>2. run'.at = "read" /\ run'.content = origin /\ run'.token = run.token
    BY <2>1 DEF IInv, TypeInv, TypeOK
  <2>3. OriginInv'
    BY <1>4, <2>2 DEF EndSync, IInv, TypeInv, TypeOK, OriginInv, HasRead
  <2>4. LiveInv'
    BY <1>2, <1>4, <2>2 DEF EndSync, IInv, LiveInv, HasRead
  <2> QED
    BY <2>3, <2>4
<1> QED
  BY <1>2, <1>3, <1>4 DEF Kept

LEMMA SyncFailsLive ==
  ASSUME IInv, NEW scanned \in BOOLEAN, SyncFails(scanned)
  PROVE  Kept
<1>1. run'.at \in {"stale", "failed"} /\ run'.token = None /\ run'.config = run.config
  BY DEF SyncFails, IInv, TypeInv, TypeOK
<1>2. LiveTokens' = LiveTokens /\ Promised' = Promised /\ EditsInv' /\ ConfigInv'
  BY <1>1, SyncConfig DEF SyncFails
<1> QED
  BY <1>1, <1>2 DEF SyncFails, IInv, OriginInv, LiveInv, HasRead, Kept

\* The token of the run comes beside those there are; the run has read enough
\* for all of them, and it is stored only beside the run's own settings.
LEMMA RecordLive == ASSUME IInv, RecordSyncedSource PROVE Kept
<1>1. run'.at = "synced" /\ run'.token = None /\ run'.config = run.config /\ run'.content = run.content
  BY DEF RecordSyncedSource, IInv, TypeInv, TypeOK
<1>2. row'.config = row.config
  BY DEF RecordSyncedSource, IInv, TypeInv, TypeOK
<1>3. row'.token = row.token \/ (row'.token = run.token /\ run.token # None /\ row.config = run.config)
  BY DEF RecordSyncedSource, IInv, TypeInv, TypeOK
<1>4. Promised' = [config |-> run.config, content |-> run.content]
  BY <1>1 DEF RecordSyncedSource, Promised
<1>5. EditsInv'
  BY <1>2 DEF RecordSyncedSource, IInv, EditsInv, Writing
<1>6. ConfigInv'
  <2>1. CASE row.config = run.config
    BY <1>1, <1>2, <1>4, <2>1 DEF ConfigInv
  <2>2. CASE row.config # run.config
    <3>1. Vouched' => Vouched
      BY <1>2, <1>3, <2>2 DEF RecordSyncedSource, Vouched, Writing
    <3> QED
      BY <2>2, <3>1 DEF RecordSyncedSource, IInv, ConfigInv
  <2> QED
    BY <2>1, <2>2
<1>7. ASSUME ~Late
      PROVE  OriginInv' /\ LiveInv'
  <2>1. OriginInv'
    BY <1>1, <1>7 DEF RecordSyncedSource, IInv, OriginInv, HasRead
  <2>2. ASSUME NEW t \in LiveTokens'
        PROVE  t <= origin /\ t <= run.content
    <3>1. CASE t \in LiveTokens
      BY <1>7, <3>1 DEF RecordSyncedSource, IInv, LiveInv, HasRead
    <3>2. CASE t \notin LiveTokens
      <4>1. t = run.token /\ run.token # None
        BY <1>3, <2>2, <3>2 DEF RecordSyncedSource, LiveTokens, Writing
      <4> QED
        BY <1>7, <4>1 DEF RecordSyncedSource, IInv, OriginInv, HasRead
    <3> QED
      BY <3>1, <3>2
  <2>3. LiveInv'
    BY <1>1, <1>4, <2>2 DEF RecordSyncedSource, LiveInv
  <2> QED
    BY <2>1, <2>3
<1> QED
  BY <1>5, <1>6, <1>7 DEF Kept

LEMMA EndLive == ASSUME IInv, FinishRun \/ FailRun PROVE Kept
<1>1. LiveTokens' = LiveTokens /\ Vouched' = Vouched /\ EditsInv'
  BY SameTokens DEF FinishRun, FailRun, IInv
<1>2. run'.at = "todo" /\ run'.token = None /\ job' = "idle"
  BY DEF FinishRun, FailRun, NoRun
<1>3. Promised' = [config |-> index'.config, content |-> index'.content]
  BY <1>2 DEF Promised
<1>4. ASSUME ~failed', run.at = "synced"
      PROVE  FinishRun /\ index'.config = run.config /\ index'.content = run.content
  BY <1>4 DEF FinishRun, FailRun
<1>5. ASSUME ~failed', run.at # "synced"
      PROVE  /\ ~failed /\ FinishRun
             /\ Promised'.config = Promised.config /\ Promised'.content = Promised.content
  <2>1. FinishRun /\ ~failed
    BY <1>5 DEF FinishRun, FailRun, IInv, TypeInv, TypeOK
  <2>2. index'.config = index.config /\ index'.content = index.content
    BY <1>5, <2>1 DEF FinishRun, IInv, TypeInv, TypeOK
  <2> QED
    BY <1>3, <1>5, <2>1, <2>2 DEF Promised
<1>6. ConfigInv'
  <2>1. SUFFICES ASSUME Vouched', ~carried', ~failed' PROVE Promised'.config = row.config
    BY <1>2 DEF ConfigInv, FinishRun, FailRun
  <2>2. CASE run.at = "synced"
    <3>1. FinishRun /\ Promised'.config = run.config
      BY <1>3, <1>4, <2>1, <2>2
    <3>2. carried => run.config = row.config
      BY <2>1, <2>2, <3>1 DEF FinishRun, IInv, TypeInv, TypeOK
    <3>3. ~carried => run.config = row.config
      BY <1>1, <2>1, <3>1 DEF FinishRun, IInv, ConfigInv
    <3> QED
      BY <3>1, <3>2, <3>3 DEF IInv, TypeInv, TypeOK
  <2>3. CASE run.at # "synced"
    <3>1. ~carried
      BY <1>5, <2>1, <2>3 DEF FinishRun, IInv, TypeInv, TypeOK
    <3> QED
      BY <1>1, <1>5, <2>1, <2>3, <3>1 DEF IInv, ConfigInv
  <2> QED
    BY <2>2, <2>3
<1>7. ASSUME ~Late
      PROVE  OriginInv' /\ LiveInv'
  <2>1. OriginInv'
    BY <1>2 DEF OriginInv, HasRead
  <2>2. ASSUME NEW t \in LiveTokens', ~failed'
        PROVE  t <= Promised'.content
    <3>1. CASE run.at = "synced"
      BY <1>1, <1>3, <1>4, <1>7, <2>2, <3>1 DEF IInv, LiveInv, HasRead
    <3>2. CASE run.at # "synced"
      BY <1>1, <1>5, <1>7, <2>2, <3>2 DEF IInv, LiveInv
    <3> QED
      BY <3>1, <3>2
  <2>3. LiveInv'
    BY <1>1, <1>2, <1>7, <2>2 DEF FinishRun, FailRun, IInv, LiveInv, HasRead
  <2> QED
    BY <2>1, <2>3
<1> QED
  BY <1>1, <1>6, <1>7 DEF Kept

\* Whoever reads or writes the row brings no token that was not there.
LEMMA PatchTokens ==
  ASSUME IInv, LiveTokens' \subseteq LiveTokens,
         UNCHANGED <<origin, index, failed, run>>,
         job' = "running" <=> job = "running"
  PROVE  /\ Promised' = Promised
         /\ ~Late => OriginInv' /\ LiveInv'
<1>1. Promised' = Promised
  BY DEF Promised
<1> QED
  BY <1>1 DEF IInv, OriginInv, LiveInv, HasRead

\* A request that has written holds no row any more; the others keep theirs.
LEMMA WrittenPatch ==
  ASSUME TypeOK, NEW e \in Editors, NEW next \in {"off", "reset", "enqueue"}, Written(e, next)
  PROVE  /\ Writing(e) /\ ~Writing(e)'
         /\ \A f \in Editors : Writing(f)' => Writing(f) /\ patch'[f] = patch[f]
<1>1. ~Writing(e)' /\ Writing(e)
  BY DEF Written, Writing, NoPatch, TypeOK
<1>2. \A f \in Editors : f # e => patch'[f] = patch[f]
  BY DEF Written, TypeOK
<1> QED
  BY <1>1, <1>2 DEF Writing

LEMMA WriteConfigLive == ASSUME IInv, NEW e \in Editors, WriteConfig(e) PROVE Kept
<1>1. /\ Writing(e) /\ ~Writing(e)'
      /\ \A f \in Editors : Writing(f)' => Writing(f) /\ patch'[f] = patch[f]
  BY WrittenPatch DEF WriteConfig, IInv, TypeInv
<1>2. row'.token = None /\ row'.config = edits + 1 /\ edits' = edits + 1 /\ edits \in Nat
  BY BoundsAssumption DEF WriteConfig, IInv, TypeInv, TypeOK
<1>3. \A f \in Editors : Writing(f)' => patch'[f].config <= edits
  BY <1>1 DEF IInv, EditsInv
<1>4. \A f \in Editors : patch[f].config \in Nat
  BY BoundsAssumption DEF IInv, TypeInv, TypeOK, Request
<1>5. LiveTokens' \subseteq LiveTokens
  BY <1>1, <1>2, NoneAssumption DEF LiveTokens
<1>6. EditsInv'
  BY <1>1, <1>2, <1>3, <1>4 DEF EditsInv
<1>7. ~Vouched'
  BY <1>1, <1>2, <1>3, <1>4 DEF Vouched
<1> QED
  BY <1>5, <1>6, <1>7, PatchTokens DEF WriteConfig, Kept, ConfigInv

LEMMA NarrowLive == ASSUME IInv, NEW e \in Editors, NarrowExtensions(e) PROVE Kept
<1>1. /\ Writing(e) /\ ~Writing(e)'
      /\ \A f \in Editors : Writing(f)' => Writing(f) /\ patch'[f] = patch[f]
  BY WrittenPatch DEF NarrowExtensions, IInv, TypeInv
<1>2. /\ row'.token = patch[e].token /\ row'.config = edits + 1
      /\ edits' = edits + 1 /\ edits \in Nat
  BY BoundsAssumption DEF NarrowExtensions, IInv, TypeInv, TypeOK
<1>3. \A f \in Editors : Writing(f)' => patch'[f].config <= edits
  BY <1>1 DEF IInv, EditsInv
<1>4. \A f \in Editors : patch[f].config \in Nat
  BY BoundsAssumption DEF IInv, TypeInv, TypeOK, Request
<1>5. LiveTokens' \subseteq LiveTokens
  BY <1>1, <1>2 DEF LiveTokens
<1>6. EditsInv'
  BY <1>1, <1>2, <1>3, <1>4 DEF EditsInv
<1>7. ~(Vouched' /\ ~carried')
  <2>1. SUFFICES ASSUME Vouched', ~carried' PROVE FALSE
    OBVIOUS
  <2>2. row'.token = None
    BY <1>2, <2>1 DEF NarrowExtensions
  <2> QED
    BY <1>1, <1>2, <1>3, <1>4, <2>1, <2>2 DEF Vouched
<1> QED
  BY <1>5, <1>6, <1>7, PatchTokens DEF NarrowExtensions, Kept, ConfigInv

LEMMA WriteSameLive == ASSUME IInv, NEW e \in Editors, WriteSame(e) PROVE Kept
<1>1. /\ Writing(e) /\ ~Writing(e)'
      /\ \A f \in Editors : Writing(f)' => Writing(f) /\ patch'[f] = patch[f]
  BY WrittenPatch DEF WriteSame, IInv, TypeInv
<1>2. row'.token = patch[e].token /\ row'.config = patch[e].config
  BY DEF WriteSame, IInv, TypeInv, TypeOK
<1>3. LiveTokens' \subseteq LiveTokens
  BY <1>1, <1>2 DEF LiveTokens
<1>4. EditsInv'
  BY <1>1, <1>2 DEF WriteSame, IInv, EditsInv
<1>5. Promised' = Promised /\ (~Late => OriginInv' /\ LiveInv')
  BY <1>3, PatchTokens DEF WriteSame
<1>6. ConfigInv'
  <2>1. SUFFICES ASSUME Vouched', ~carried'
                 PROVE  /\ job' = "running" => run'.config = row'.config
                        /\ ~failed' => Promised'.config = row'.config
    BY DEF ConfigInv
  <2>2. ~carried /\ patch[e].config = row.config
    BY <2>1 DEF WriteSame
  <2>3. Vouched
    BY <1>1, <1>2, <2>1, <2>2 DEF Vouched
  <2> QED
    BY <1>2, <1>5, <2>2, <2>3 DEF WriteSame, IInv, ConfigInv
<1> QED
  BY <1>4, <1>5, <1>6 DEF Kept

\* What leaves the settings and the token of the row, and of the requests
\* about to write at most reads them.
LEMMA SamePairLive ==
  ASSUME IInv, row'.config = row.config, row'.token = row.token, edits' \in Nat, edits <= edits',
         \A f \in Editors : Writing(f)' =>
           \/ Writing(f) /\ patch'[f] = patch[f]
           \/ patch'[f].config = row.config /\ patch'[f].token = row.token,
         UNCHANGED <<origin, index, failed, carried, run>>,
         job' = "running" <=> job = "running"
  PROVE  Kept
<1>1. LiveTokens' \subseteq LiveTokens
  BY DEF LiveTokens
<1>2. Vouched' => Vouched
  BY DEF Vouched
<1>3. EditsInv'
  BY BoundsAssumption DEF IInv, EditsInv, TypeInv, TypeOK, Request
<1>4. Promised' = Promised /\ (~Late => OriginInv' /\ LiveInv')
  BY <1>1, PatchTokens
<1>5. ConfigInv'
  BY <1>2, <1>4 DEF IInv, ConfigInv
<1> QED
  BY <1>3, <1>4, <1>5 DEF Kept

LEMMA PatchLive ==
  ASSUME IInv, NEW e \in Editors, ReadPatch(e) \/ UpdateSource(e)
  PROVE  Kept
<1>1. edits \in Nat
  BY BoundsAssumption DEF IInv, TypeInv, TypeOK
<1>2. CASE WriteFlavor(e)
  <2>1. \A f \in Editors : Writing(f)' => Writing(f) /\ patch'[f] = patch[f]
    BY <1>2, WrittenPatch DEF WriteFlavor, IInv, TypeInv
  <2>2. row'.config = row.config /\ row'.token = row.token
    BY <1>2 DEF WriteFlavor, IInv, TypeInv, TypeOK
  <2> QED
    BY <1>1, <1>2, <2>1, <2>2, SamePairLive DEF WriteFlavor
<1>3. CASE EnqueuePatch(e)
  <2>1. \A f \in Editors : Writing(f)' => Writing(f) /\ patch'[f] = patch[f]
    BY <1>3 DEF EnqueuePatch, Writing, NoPatch, IInv, TypeInv, TypeOK
  <2> QED
    BY <1>1, <1>3, <2>1, SamePairLive DEF EnqueuePatch, Enqueue
<1>4. CASE ReadPatch(e)
  <2>1. \A f \in Editors :
          IF f = e THEN patch'[f].config = row.config /\ patch'[f].token = row.token
                   ELSE patch'[f] = patch[f]
    BY <1>4 DEF ReadPatch, IInv, TypeInv, TypeOK
  <2> QED
    BY <1>1, <1>4, <2>1, SamePairLive DEF ReadPatch, Writing
<1> QED
  BY <1>2, <1>3, <1>4, WriteConfigLive, NarrowLive, WriteSameLive DEF UpdateSource

LEMMA StepLive == IInv /\ [Next]_vars => IInv'
<1> SUFFICES ASSUME IInv, [Next]_vars PROVE IInv'
  OBVIOUS
<1>1. TypeInv'
  BY StepType DEF IInv
<1>2. CASE RunSteps
  BY <1>1, <1>2, StartRunLive, SyncLive, SyncFailsLive, RecordLive, EndLive DEF RunSteps, Sync, IInv, Kept
<1>3. CASE UNCHANGED vars
  BY <1>1, <1>3, JobLive DEF vars, IInv, Kept
<1> QED
  BY <1>1, <1>2, <1>3, OriginLive, TickLive, PatchLive DEF Next, IInv, Kept

\* A token the scheduler compares with speaks for no newer content than is, or
\* is about to be, indexed, if the driver takes it before it reads; and for the
\* settings beside it, unless a PATCH narrowed the extensions or overwrote
\* another since.  Any number of PATCHes may overlap, and runs may fail
\* (mergeRunConfigPatch, updateSource).
THEOREM TokensAreTrue == Spec => []TokenDescribesIndex
<1>1. IInv => TokenDescribesIndex
  BY NoneAssumption
     DEF IInv, TypeInv, TypeOK, ConfigInv, Vouched, LiveInv, LiveTokens, TokenDescribesIndex
<1> QED
  BY <1>1, InitLive, StepLive, PTL DEF Spec
=============================================================================
