---------------------------- MODULE SourceToken ----------------------------
(***************************************************************************)
(* The revision token of one source, and who writes the row it is kept in. *)
(*                                                                         *)
(* A sync stores the token it found beside the settings                    *)
(* (collectSource, recordSyncedSource of services/indexer.ts); the         *)
(* scheduler compares a probe's answer with it and saves the run when they *)
(* are equal (runSyncTick of services/scheduler.ts); an edit of the        *)
(* settings takes it away (updateSource of services/sources.ts).  The run, *)
(* the tick and the PATCH each read the row, await, and write or decide    *)
(* later.  When a tick comes to the source is in module SyncSchedule; here *)
(* it comes again and again, and is never past the age that would spare    *)
(* the probe (SYNC_MAX_SKIP_HOURS = 0).                                    *)
(***************************************************************************)
EXTENDS Integers

CONSTANTS
  None,         \* no token
  Editors,      \* PATCH requests that may be going on at once
  Late,         \* whether the sync takes its token after reading (notion, web, confluence)
  RunsFail,     \* whether a run may fail after it synced the source
  MaxChanges,   \* bound on the changes at the origin
  MaxEdits      \* bound on the edits

ASSUME NoneAssumption == None \notin Int
ASSUME BoundsAssumption == MaxChanges \in Nat /\ MaxEdits \in Nat
ASSUME DriverAssumption == Late \in BOOLEAN /\ RunsFail \in BOOLEAN

VARIABLES
  origin,   \* the content at the origin, named by the number of changes before it;
            \* the token a probe would answer names it as well
  row,      \* document_sources: the settings, the content type and the token
  edits,    \* edits so far; an edit is named by their number (bounded by MaxEdits)
  index,    \* what the served index holds of the source
  failed,   \* a run failed past its sync and none has indexed the source since
  carried,  \* a PATCH changed the settings and kept a token, or put older ones back,
            \* and no run has indexed the source under them since
  job,      \* the project's job: "idle", "queued", "running"
  run,      \* the run in flight and its driver
  tick,     \* runSyncTick at this source
  patch     \* the PATCH requests

vars == <<origin, row, edits, index, failed, carried, job, run, tick, patch>>

Numbers == 0..MaxChanges
Edits == 0..MaxEdits
Stages == {"todo", "half", "read", "synced", "stale", "failed"}

NoRun == [at |-> "todo", config |-> 0, flavor |-> 0, content |-> None, token |-> None]
NoTick == [at |-> "off", token |-> None]
NoPatch == [at |-> "off", config |-> 0, token |-> None]

Init ==
  /\ origin = 0
  /\ row = [config |-> 0, flavor |-> 0, token |-> None]
  /\ edits = 0
  /\ index = [config |-> -1, flavor |-> -1, content |-> -1]
  /\ failed = FALSE /\ carried = FALSE
  /\ job = "idle" /\ run = NoRun
  /\ tick = NoTick
  /\ patch = [e \in Editors |-> NoPatch]

OriginChanges ==
  /\ origin < MaxChanges
  /\ origin' = origin + 1
  /\ UNCHANGED <<row, edits, index, failed, carried, job, run, tick, patch>>

\* A request for a run joins the job there is.
Enqueue == job' = IF job = "idle" THEN "queued" ELSE job

\* "Sync now", a webhook, another source of the project.
SyncNow ==
  /\ Enqueue
  /\ UNCHANGED <<origin, row, edits, index, failed, carried, run, tick, patch>>

-----------------------------------------------------------------------------
(* The scheduler at this source.                                           *)

\* The row is read when the tick begins.
SelectSource ==
  /\ tick.at = "off"
  /\ tick' = [at |-> "seen", token |-> row.token]
  /\ UNCHANGED <<origin, row, edits, index, failed, carried, job, run, patch>>

\* A busy project needs no probe; otherwise the probe is sent.
BeginProbe ==
  /\ tick.at = "seen"
  /\ tick' = IF job = "idle" THEN [tick EXCEPT !.at = "probing"] ELSE NoTick
  /\ UNCHANGED <<origin, row, edits, index, failed, carried, job, run, patch>>

\* The answer of this moment, or nothing, is compared with the token of the
\* row as the tick read it.
AnswerProbe(answer) ==
  /\ tick.at = "probing"
  /\ tick' = NoTick
  /\ IF answer # None /\ answer = tick.token THEN UNCHANGED job ELSE Enqueue
  /\ UNCHANGED <<origin, row, edits, index, failed, carried, run, patch>>

-----------------------------------------------------------------------------
(* A run.                                                                  *)

\* listSources: the driver is built from the row as it is now.
StartRun ==
  /\ job = "queued"
  /\ job' = "running"
  /\ run' = [NoRun EXCEPT !.config = row.config, !.flavor = row.flavor]
  /\ UNCHANGED <<origin, row, edits, index, failed, carried, tick, patch>>

ReadContent == [run EXCEPT !.content = origin]

\* A token that cannot be had is not stored; the sync still succeeds.
TakeToken(token) == [run EXCEPT !.token = token]

\* driver.sync() and the scan: the token and the content, in the driver's order.
BeginSync(token) ==
  /\ job = "running" /\ run.at = "todo"
  /\ run' = [(IF Late THEN ReadContent ELSE TakeToken(token)) EXCEPT !.at = "half"]
  /\ UNCHANGED <<origin, row, edits, index, failed, carried, job, tick, patch>>

EndSync(token) ==
  /\ job = "running" /\ run.at = "half"
  /\ run' = [(IF Late THEN TakeToken(token) ELSE ReadContent) EXCEPT !.at = "read"]
  /\ UNCHANGED <<origin, row, edits, index, failed, carried, job, tick, patch>>

\* The sync threw and the source says 'error'.  The files of the sync before
\* are scanned all the same, unless that fails too.
SyncFails(scanned) ==
  /\ job = "running" /\ run.at \in {"todo", "half"}
  /\ run' = [run EXCEPT !.at = IF scanned THEN "stale" ELSE "failed", !.content = None, !.token = None]
  /\ UNCHANGED <<origin, row, edits, index, failed, carried, job, tick, patch>>

\* Mutant: the token is stored whatever became of the settings.
RecordAnyway ==
  /\ job = "running" /\ run.at = "read"
  /\ run' = [run EXCEPT !.at = "synced", !.token = None]
  /\ row' = [row EXCEPT !.token = IF run.token = None THEN @ ELSE run.token]
  /\ UNCHANGED <<origin, edits, index, failed, carried, job, tick, patch>>

\* The row as it is now, under its lock; a token that was taken under other
\* settings stays out (mergeRunConfigPatch).
RecordSyncedSource ==
  /\ job = "running" /\ run.at = "read"
  /\ run' = [run EXCEPT !.at = "synced", !.token = None]
  /\ row' = [row EXCEPT !.token =
               IF run.token = None \/ row.config # run.config THEN @ ELSE run.token]
  /\ UNCHANGED <<origin, edits, index, failed, carried, job, tick, patch>>

\* What was scanned is indexed under the content type the run began with;
\* what could not be scanned keeps its documents.
FinishRun ==
  /\ job = "running" /\ run.at \in {"synced", "stale", "failed"}
  /\ job' = "idle" /\ run' = NoRun
  /\ index' = CASE run.at = "synced" ->
                    [config |-> run.config, flavor |-> run.flavor, content |-> run.content]
               [] run.at = "stale" -> [index EXCEPT !.flavor = run.flavor]
               [] OTHER -> index
  /\ failed' = (failed /\ run.at # "synced")
  /\ carried' = (carried /\ ~(run.at = "synced" /\ run.config = row.config))
  /\ UNCHANGED <<origin, row, edits, tick, patch>>

\* Mutant: a run that fails leaves what it read to the next one.
FailRunKept ==
  /\ RunsFail
  /\ job = "running" /\ run.at \in {"synced", "stale"}
  /\ job' = "idle" /\ failed' = TRUE
  /\ UNCHANGED <<origin, row, edits, index, carried, run, tick, patch>>

\* The model, the disk or a quota gave out after the source was synced.
FailRun ==
  /\ RunsFail
  /\ job = "running" /\ run.at \in {"synced", "stale"}
  /\ job' = "idle" /\ run' = NoRun
  /\ failed' = TRUE
  /\ UNCHANGED <<origin, row, edits, index, carried, tick, patch>>

-----------------------------------------------------------------------------
(* PATCH of the source: updateSource reads, validates and writes without a *)
(* lock, and the route asks for a run when the source became another.  Any *)
(* number of them may overlap.                                             *)

\* The row that is validated, and in part written back.
ReadPatch(e) ==
  /\ patch[e].at = "off"
  /\ patch' = [patch EXCEPT ![e] = [at |-> "write", config |-> row.config, token |-> row.token]]
  /\ UNCHANGED <<origin, row, edits, index, failed, carried, job, run, tick>>

\* What the route has left to do: nothing, to ask for a run, or to reset the
\* hashes before.
Written(e, next) ==
  /\ patch[e].at = "write"
  /\ patch' = [patch EXCEPT ![e] = [NoPatch EXCEPT !.at = next]]

\* Mutant: an edit keeps the token of the settings before it.
WriteConfigOnly(e) ==
  /\ Written(e, "enqueue") /\ edits < MaxEdits
  /\ edits' = edits + 1
  /\ row' = [row EXCEPT !.config = edits + 1, !.token = patch[e].token]
  /\ carried' = FALSE
  /\ UNCHANGED <<origin, index, failed, job, run, tick>>

\* Other settings: the token goes.
WriteConfig(e) ==
  /\ Written(e, "enqueue") /\ edits < MaxEdits
  /\ edits' = edits + 1
  /\ row' = [row EXCEPT !.config = edits + 1, !.token = None]
  /\ carried' = FALSE
  /\ UNCHANGED <<origin, index, failed, job, run, tick>>

\* A save that changed nothing writes back what it read, token included; also
\* where another PATCH wrote other settings meanwhile.
WriteSame(e) ==
  /\ Written(e, "off")
  /\ row' = [row EXCEPT !.config = patch[e].config, !.token = patch[e].token]
  /\ carried' = (carried \/ patch[e].config # row.config)
  /\ UNCHANGED <<origin, edits, index, failed, job, run, tick>>

\* The content type is a column of its own, and the token stays.
WriteFlavor(e) ==
  /\ Written(e, "reset") /\ edits < MaxEdits
  /\ edits' = edits + 1
  /\ row' = [row EXCEPT !.flavor = edits + 1]
  /\ UNCHANGED <<origin, index, failed, carried, job, run, tick>>

\* A content type that reads fewer kinds of files narrows the extensions: the
\* settings become others, and the token is written back as it was read.
NarrowExtensions(e) ==
  /\ Written(e, "reset") /\ edits < MaxEdits
  /\ edits' = edits + 1
  /\ row' = [config |-> edits + 1, flavor |-> edits + 1, token |-> patch[e].token]
  /\ carried' = (patch[e].token # None)
  /\ UNCHANGED <<origin, index, failed, job, run, tick>>

\* Mutant: the hashes are reset, and the run asked for, without the mutex.
EnqueueAtOnce(e) ==
  /\ patch[e].at \in {"enqueue", "reset"}
  /\ Enqueue
  /\ patch' = [patch EXCEPT ![e] = NoPatch]
  /\ UNCHANGED <<origin, row, edits, index, failed, carried, run, tick>>

\* For a content type the hashes are reset first, under the project's mutex,
\* which a run in flight holds to its end.
EnqueuePatch(e) ==
  /\ patch[e].at = "enqueue" \/ (patch[e].at = "reset" /\ job # "running")
  /\ Enqueue
  /\ patch' = [patch EXCEPT ![e] = NoPatch]
  /\ UNCHANGED <<origin, row, edits, index, failed, carried, run, tick>>

-----------------------------------------------------------------------------
Tokens == {origin, None}

SyncTick == SelectSource \/ BeginProbe \/ \E answer \in Tokens : AnswerProbe(answer)

Sync == \E token \in Tokens : BeginSync(token) \/ EndSync(token)
RunSteps ==
  \/ StartRun \/ Sync \/ \E scanned \in BOOLEAN : SyncFails(scanned)
  \/ RecordSyncedSource \/ FinishRun \/ FailRun

UpdateSource(e) ==
  WriteConfig(e) \/ WriteSame(e) \/ WriteFlavor(e) \/ NarrowExtensions(e) \/ EnqueuePatch(e)

Next ==
  \/ OriginChanges \/ SyncNow \/ SyncTick \/ RunSteps
  \/ \E e \in Editors : ReadPatch(e) \/ UpdateSource(e)

Spec == Init /\ [][Next]_vars

\* Ticks come again and again, a queued run gets its turn and ends, requests
\* get on, and a sync that is tried again and again is not refused every time.
\* Nothing is assumed of "Sync now".
Fairness ==
  /\ WF_vars(SyncTick) /\ WF_vars(RunSteps) /\ SF_vars(EndSync(None) \/ EndSync(origin))
  /\ SF_vars(BeginSync(None) \/ BeginSync(origin))
  /\ \A e \in Editors : SF_vars(UpdateSource(e))

FairSpec == Spec /\ Fairness
-----------------------------------------------------------------------------
Token == Numbers \cup {None}
Request == [at : {"off", "write", "reset", "enqueue"}, config : Edits, token : Token]

\* Every variable stays in its type, and nothing of a run, a tick or a request
\* outlives it.
TypeOK ==
  /\ origin \in Numbers
  /\ row \in [config : Edits, flavor : Edits, token : Token]
  /\ edits \in Edits
  /\ index \in [config : Edits \cup {-1}, flavor : Edits \cup {-1}, content : Numbers \cup {-1}]
  /\ failed \in BOOLEAN /\ carried \in BOOLEAN
  /\ job \in {"idle", "queued", "running"}
  /\ run \in [at : Stages, config : Edits, flavor : Edits, content : Token, token : Token]
  /\ tick \in [at : {"off", "seen", "probing"}, token : Token]
  /\ patch \in [Editors -> Request]
  /\ job # "running" => run = NoRun
  /\ tick.at = "off" => tick = NoTick
  /\ \A e \in Editors : patch[e].at = "off" => patch[e] = NoPatch

\* What the index holds, or will hold when the run in flight ends well.
Promised ==
  IF job = "running" /\ run.at = "synced"
  THEN [config |-> run.config, content |-> run.content]
  ELSE [config |-> index.config, content |-> index.content]

\* A stored token speaks for the settings stored beside it and for no newer
\* content than the index holds: neither an edit during a run, nor the end of
\* a run during an edit, nor two PATCHes at once leave a token that lets the
\* scheduler skip what was never indexed (mergeRunConfigPatch, updateSource).
\* It is so unless the run failed; for the content, of a driver that takes its
\* token first; for the settings, except after the two writes that keep a token
\* the settings have left behind: a narrowing, and one that overwrote another.
TokenDescribesIndex ==
  row.token # None /\ ~failed =>
    /\ ~carried => Promised.config = row.config
    /\ ~Late => Promised.content >= row.token

Fresh == index.config = row.config /\ index.content = origin

\* With nothing but the schedule and its probes, the index comes to hold what
\* the origin says, whatever joined a run that was past reading, whoever wrote
\* the row last, and however many syncs failed, if there is an end to runs that
\* fail past the sync.  It comes to hold what the settings say too, unless a
\* token stays beside settings it was not taken under.
ProbesFindEverything ==
  []<>~failed =>
    /\ []<>(index.content = origin)
    /\ []<>~carried => []<>Fresh

\* A new content type, which leaves the token in its place, comes to be the
\* index's: the route waits for the run in flight before it asks for one.  A
\* run that cannot scan the source, or fails, takes that one away.
ContentTypeArrives ==
  [](run.at # "failed" /\ ~failed) => []<>(index.flavor = row.flavor)

\* What driver.ts says of an equal token: the run would find nothing.  The
\* code breaks it, because the token is stored when the source is synced,
\* also by a run that then fails to index what it read.
UnchangedFindsNothing ==
  [][tick.at = "probing" /\ tick'.at = "off" /\ job' = "idle" => Fresh]_vars

\* What is indexed catches up with the origin and with the settings, whatever PATCHes and
\* runs do to the row in between (recordSyncedSource, updateSource).
IndexCatchesUp == ProbesFindEverything /\ ContentTypeArrives
=============================================================================
