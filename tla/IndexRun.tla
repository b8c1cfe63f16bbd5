------------------------------ MODULE IndexRun ------------------------------
(***************************************************************************)
(* What a run of the indexer does to the documents of one project          *)
(* (indexProject of services/indexer.ts, and the statements of             *)
(* vector-store.ts and document-changes.ts it is made of), with the other  *)
(* writers of the same rows: deleting a source, resetting the hashes of a  *)
(* source whose settings changed, and the sweeps of superseded             *)
(* generations.  The files of the sources change underneath at any time,   *)
(* and the process may die between any two statements.                     *)
(*                                                                         *)
(* A statement, or a transaction of several, is one action.  The project's *)
(* mutex (IndexQueue, KeyedMutex) is held from BeginRun to the last sweep: *)
(* stage = "none" is the lock being free, and the other writers of         *)
(* documents, which take it, run only then.                                *)
(*                                                                         *)
(* A text stands for a document's chunks, vectors and stored markdown,     *)
(* which replaceDocument writes together; a content of a file stands for   *)
(* its bytes and for their hash.                                           *)
(***************************************************************************)
EXTENDS Naturals, FiniteSets, DocumentChanges

CONSTANTS
  Sources,
  Files,          \* the files the sources can hold
  SourceOf,       \* [Files -> Sources]
  Specs,          \* the files that expand to many documents (OpenAPI)
  Docs,           \* the paths of documents
  FileOf,         \* [Docs -> Files]
  Contents,       \* contents of a file
  Gone,           \* the file is not there
  Stale,          \* content_hash = '': no content hashes to it
  Rendering,      \* [Files -> [Contents -> [a subset of Docs -> Texts]]]
  Empty,          \* the text that yields no chunk
  Settings,       \* what a source says of language and version
  Models,         \* embedding models
  None,
  MaxGeneration,  \* bound on generations: how many rebuilds may go live
  MaxRuns,        \* bound on runs
  MaxEdits,       \* bound on changes of files, settings and sources
  MaxCrashes,     \* bound on restarts of the process
  SweepFails,     \* whether a best-effort sweep may fail half-way
  Looks           \* whether `since` may fall between the start and the commit
                  \* of a transaction: a set of BOOLEANs, {} if nobody asks

ASSUME SourceOfAssumption == SourceOf \in [Files -> Sources]
ASSUME DocsAssumption == IsFiniteSet(Docs)
ASSUME FileOfAssumption == FileOf \in [Docs -> Files]
ASSUME SpecsAssumption == Specs \subseteq Files
ASSUME ContentsAssumption == /\ Gone \notin Contents /\ Stale \notin Contents /\ None \notin Contents
                              /\ None # Stale
ASSUME ModelsAssumption == None \notin Models
ASSUME FilesAssumption == None \notin Files
ASSUME BoundsAssumption == /\ MaxGeneration \in Nat \ {0} /\ MaxRuns \in Nat /\ MaxEdits \in Nat
                           /\ MaxCrashes \in Nat
                           /\ SweepFails \in BOOLEAN /\ Looks \subseteq BOOLEAN
ASSUME EmptyAssumption == Empty \in Texts
\* A file that is no specification is one document, whatever it holds.
ASSUME RenderingAssumption ==
  \A f \in Files, c \in Contents :
    /\ DOMAIN Rendering[f][c] \subseteq {d \in Docs : FileOf[d] = f}
    /\ f \notin Specs => DOMAIN Rendering[f][c] = {d \in Docs : FileOf[d] = f}
    /\ \A d \in DOMAIN Rendering[f][c] : Rendering[f][c][d] \in Texts

VARIABLES
  \* outside the program
  disk,        \* what each file holds now
  edits,       \* how many changes were made (bounded by MaxEdits)
  crashes,     \* how many times the process died (bounded by MaxCrashes)
  model,       \* the model the process embeds with
  \* the database
  sources,     \* rows of document_sources
  settings,    \* what each of them says
  documents,   \* documents and chunks: [generation -> [path -> row]]
  live,        \* projects.live_generation
  stamp,       \* projects.embedding_model
  counted,     \* projects.document_count
  status,      \* projects.status
  mixed,       \* generations in which rows of two models may stand, for the properties
  changes,     \* document_changes
  \* memory
  pending,     \* sources whose PATCH waits to reset their hashes
  run,         \* the run in flight
  runs,        \* how many were begun (bounded by MaxRuns)
  \* the moment `since`, for the properties
  baseline,    \* what was served at that moment
  late         \* the transaction in flight began before it

outside == <<disk, edits, crashes, model>>
project == <<stamp, counted, status, mixed>>
since == <<baseline, late>>
vars == <<outside, sources, settings, documents, live, project, changes, pending, run, runs, since>>

Generations == 1..(MaxGeneration + 1)
Row == [hash : Contents \cup {Stale}, text : Texts, settings : Settings, model : Models]
NoRow == [hash |-> None, text |-> NoText, settings |-> None, model |-> None]
NoDocuments == [d \in Docs |-> NoRow]

\* What a client is served: search, read_document and the rest read the live
\* generation only.
Served == [d \in Docs |-> documents[live][d].text]
SourceOfDoc(d) == SourceOf[FileOf[d]]
DocsOf(f) == {d \in Docs : FileOf[d] = f}

(***************************************************************************)
(* The local state of a run.  existing is what getExistingDocuments read;  *)
(* offered are the files the scan found; read says with which content each *)
(* was opened, refused which were not indexed; file is the one being       *)
(* indexed and left its documents still to come.                           *)
(***************************************************************************)
Stages == {"none", "sync", "index", "finalize", "sweep"}
Idle == [stage |-> "none", rebuild |-> FALSE,
         known |-> [s \in Sources |-> None], complaint |-> FALSE, protected |-> {},
         offered |-> {}, existing |-> [d \in Docs |-> None],
         todo |-> {}, file |-> None, left |-> {}, seen |-> {},
         read |-> [f \in Files |-> None], refused |-> {}]

Generation == IF run.rebuild THEN live + 1 ELSE live

Init ==
  /\ disk \in [Files -> Contents \cup {Gone}]
  /\ edits = 0 /\ crashes = 0
  /\ model \in Models
  /\ sources = Sources
  /\ settings \in {[s \in Sources |-> v] : v \in Settings}
  /\ documents = [g \in Generations |-> NoDocuments]
  /\ live = 1
  /\ stamp = None
  /\ counted = 0
  /\ status = "idle"
  /\ mixed = {}
  /\ changes = [d \in Docs |-> NoChange]
  /\ pending = {}
  /\ run = Idle
  /\ runs = 0
  /\ baseline = [d \in Docs |-> NoText]
  /\ late = FALSE

-----------------------------------------------------------------------------
(* Statements.                                                             *)

\* sweepGenerations deletes every other generation, in batches; it is best
\* effort, and stops where a batch fails.
Swept(docs, keptGeneration, remaining) ==
  [g \in Generations |->
     IF g = keptGeneration THEN docs[g]
     ELSE [d \in Docs |-> IF d \in remaining THEN docs[g][d] ELSE NoRow]]
Remaining == IF SweepFails THEN SUBSET Docs ELSE {{}}

Rows(docs) == {d \in Docs : docs[d] # NoRow}

\* recordWriteChange, then the upsert of the document and its chunks.
RecordedWrite(d, row) ==
  LET before == documents[live][d]
  IN IF before = NoRow THEN [changes EXCEPT ![d] = Recorded(@, "added", ~late)]
     ELSE IF IsModified(before.hash, before.text, row.hash, row.text)
     THEN [changes EXCEPT ![d] = Recorded(@, "modified", ~late)]
     ELSE changes

\* deleteDocumentsRecordingChanges and recordSourceRemoval: only what is
\* there is recorded as removed.
RecordedRemoval(gone) ==
  [d \in Docs |-> IF d \in gone /\ documents[live][d] # NoRow
                  THEN Recorded(changes[d], "removed", ~late) ELSE changes[d]]

\* recordRebuildChanges: the difference of the two generations.
RecordedSwap(next) ==
  [d \in Docs |->
     LET old == documents[live][d]
         new == documents[next][d]
     IN IF old = NoRow /\ new # NoRow THEN Recorded(changes[d], "added", ~late)
        ELSE IF old # NoRow /\ new = NoRow THEN Recorded(changes[d], "removed", ~late)
        ELSE IF old # NoRow /\ new # NoRow /\ IsModified(old.hash, old.text, new.hash, new.text)
        THEN Recorded(changes[d], "modified", ~late)
        ELSE changes[d]]

\* removeDocuments of the run: a rebuild records nothing before its swap.
RemoveDocuments(gone) ==
  /\ documents' = [documents EXCEPT ![Generation] =
                     [d \in Docs |-> IF d \in gone THEN NoRow ELSE @[d]]]
  /\ changes' = IF run.rebuild THEN changes ELSE RecordedRemoval(gone)

\* Where rows of two models come together: a rebuild begins on what a failed
\* sweep left of another model, or the model changes under rows of a project
\* that is not stamped yet (projectsNeedingModelReindex).
HasOthers(docs, g, m) == \E d \in Docs : docs[g][d] # NoRow /\ docs[g][d].model # m
MixedByRebuild(rebuild) ==
  IF rebuild /\ HasOthers(documents', live + 1, model) THEN mixed \cup {live + 1}
  ELSE mixed \ {live + 1}
MixedByRestart(newModel) ==
  IF stamp = None /\ HasOthers(documents, live, newModel) THEN mixed \cup {live} ELSE mixed

-----------------------------------------------------------------------------
(* The run.                                                                *)

\* Mutant: a run rebuilds when it is told to, whatever the model.
BeginRunAnyModel(force, remaining) ==
  /\ run.stage = "none" /\ runs < MaxRuns
  /\ force => live < MaxGeneration
  /\ run' = [Idle EXCEPT !.stage = "sync", !.rebuild = force]
  /\ runs' = runs + 1
  /\ documents' = Swept(documents, live, remaining)
  /\ mixed' = MixedByRebuild(force)
  /\ status' = "indexing"
  /\ late' = FALSE
  /\ UNCHANGED <<outside, sources, settings, live, stamp, counted, changes, pending, baseline>>

\* Under the mutex: sweep, status, and where this run writes.
BeginRun(force, remaining) ==
  /\ run.stage = "none" /\ runs < MaxRuns
  /\ runs' = runs + 1
  /\ documents' = Swept(documents, live, remaining)
  /\ LET rebuild == force \/ (stamp # None /\ stamp # model)
     IN /\ rebuild => live < MaxGeneration
        /\ run' = [Idle EXCEPT !.stage = "sync", !.rebuild = rebuild]
        /\ mixed' = MixedByRebuild(rebuild)
  /\ status' = "indexing"
  /\ late' = FALSE
  /\ UNCHANGED <<outside, sources, settings, live, stamp, counted, changes, pending, baseline>>

\* Every source is synced and its files are listed.  Where the scan fails the
\* source is protected; where only the sync fails what is there is listed and
\* the run complains.  Then the stored documents are read, once: nobody else
\* can write documents before the run is over.
SyncSources(protected, failed) ==
  /\ run.stage = "sync"
  /\ protected \subseteq sources /\ failed \subseteq sources
  /\ ~(run.rebuild /\ protected # {})
  /\ LET offered == {f \in Files : /\ SourceOf[f] \in sources \ protected
                                   /\ disk[f] # Gone}
     IN run' = [run EXCEPT !.stage = "index",
                  !.known = [s \in Sources |-> settings[s]],
                  !.complaint = protected \cup failed # {},
                  !.protected = protected,
                  !.offered = offered, !.todo = offered,
                  !.existing = [d \in Docs |-> documents[Generation][d].hash]]
  /\ late' = FALSE
  /\ UNCHANGED <<outside, sources, settings, documents, live, project, changes, pending, runs, baseline>>

Indexing == run.stage = "index"
Between == Indexing /\ run.file = None

\* The stored documents of a file, found by their path.
Claimed(f) == {d \in DocsOf(f) : run.existing[d] # None}
IsCurrent(d, content) == run.existing[d] = content

\* Mutant: the documents of a refused file are not spared.
RefuseFileUnseen(f) ==
  /\ Between /\ f \in run.todo
  /\ run' = [run EXCEPT !.todo = @ \ {f}, !.refused = @ \cup {f}]
  /\ late' = FALSE
  /\ UNCHANGED <<outside, sources, settings, documents, live, project, changes, pending, runs, baseline>>

\* A file that cannot be read, is too large, or cannot be converted keeps
\* what it had in the generation this run writes.
RefuseFile(f) ==
  /\ Between /\ f \in run.todo
  /\ run' = [run EXCEPT !.todo = @ \ {f}, !.refused = @ \cup {f},
                        !.seen = @ \cup Claimed(f)]
  /\ late' = FALSE
  /\ UNCHANGED <<outside, sources, settings, documents, live, project, changes, pending, runs, baseline>>

\* Mutant: the hash of one document answers for a whole specification.
ReadFileByOneHash(f) ==
  /\ Between /\ f \in run.todo
  /\ disk[f] # Gone
  /\ LET content == disk[f]
         skipped == \E d \in DocsOf(f) : IsCurrent(d, content)
         left == IF skipped THEN {} ELSE DOMAIN Rendering[f][content]
     IN run' = [run EXCEPT !.todo = @ \ {f}, !.read[f] = content,
                           !.file = IF left = {} THEN None ELSE f,
                           !.left = left,
                           !.seen = IF skipped THEN @ \cup DocsOf(f) ELSE @]
  /\ late' = FALSE
  /\ UNCHANGED <<outside, sources, settings, documents, live, project, changes, pending, runs, baseline>>

\* The file is read as it is now, which may not be as it was listed.  The hash
\* answers for a whole file only when the file is one document.
ReadFile(f) ==
  /\ Between /\ f \in run.todo
  /\ disk[f] # Gone
  /\ LET content == disk[f]
         skipped == f \notin Specs /\ \A d \in DocsOf(f) : IsCurrent(d, content)
         left == IF skipped THEN {} ELSE DOMAIN Rendering[f][content]
     IN run' = [run EXCEPT !.todo = @ \ {f}, !.read[f] = content,
                           !.file = IF left = {} THEN None ELSE f,
                           !.left = left,
                           !.seen = IF skipped THEN @ \cup DocsOf(f) ELSE @]
  /\ late' = FALSE
  /\ UNCHANGED <<outside, sources, settings, documents, live, project, changes, pending, runs, baseline>>

\* One document of the file is done, and the file with its last one.
Advance(d) ==
  /\ run.left # {} /\ d \in run.left
  /\ Indexing

Done(d) == [run EXCEPT !.left = @ \ {d},
                       !.file = IF run.left = {d} THEN None ELSE @]

KeepDocument(d) ==
  /\ Advance(d)
  /\ IsCurrent(d, run.read[run.file])
  /\ run' = [Done(d) EXCEPT !.seen = @ \cup {d}]
  /\ late' = FALSE
  /\ UNCHANGED <<outside, sources, settings, documents, live, project, changes, pending, runs, baseline>>

\* A document that yields no chunk has no row.
DropEmpty(d) ==
  /\ Advance(d)
  /\ ~IsCurrent(d, run.read[run.file])
  /\ Rendering[run.file][run.read[run.file]][d] = Empty
  /\ run' = Done(d)
  /\ IF run.existing[d] # None THEN RemoveDocuments({d}) ELSE UNCHANGED <<documents, changes>>
  /\ late' = FALSE
  /\ UNCHANGED <<outside, sources, settings, live, project, pending, runs, baseline>>

\* replaceDocument, one transaction.
WriteDocument(d) ==
  /\ Advance(d)
  /\ ~IsCurrent(d, run.read[run.file])
  /\ Rendering[run.file][run.read[run.file]][d] # Empty
  /\ LET content == run.read[run.file]
         row == [hash |-> content, text |-> Rendering[run.file][content][d],
                 settings |-> run.known[SourceOf[run.file]], model |-> model]
     IN /\ documents' = [documents EXCEPT ![Generation][d] = row]
        /\ changes' = IF run.rebuild THEN changes ELSE RecordedWrite(d, row)
  /\ run' = [Done(d) EXCEPT !.seen = @ \cup {d}]
  /\ late' = FALSE
  /\ UNCHANGED <<outside, sources, settings, live, project, pending, runs, baseline>>

\* The conversion thread goes away in the middle of a specification: what was
\* written stands, the rest of what the file had is spared.
RenderFails ==
  /\ Indexing /\ run.file # None
  /\ run' = [run EXCEPT !.refused = @ \cup {run.file}, !.seen = @ \cup Claimed(run.file),
                        !.file = None, !.left = {}]
  /\ late' = FALSE
  /\ UNCHANGED <<outside, sources, settings, documents, live, project, changes, pending, runs, baseline>>

\* What no file accounts for disappears, except where nothing could be listed.
RemoveVanished ==
  /\ Between /\ run.todo = {}
  /\ RemoveDocuments({d \in Docs : /\ run.existing[d] # None
                                   /\ d \notin run.seen
                                   /\ SourceOfDoc(d) \notin run.protected})
  /\ run' = [run EXCEPT !.stage = "finalize"]
  /\ late' = FALSE
  /\ UNCHANGED <<outside, sources, settings, live, project, pending, runs, baseline>>

\* A rebuild is over once the generation that lost is swept.
Over == [Idle EXCEPT !.stage = IF run.rebuild THEN "sweep" ELSE "none"]

\* Of a source that offered files, every one was refused.
Unusable == \E s \in sources :
  /\ \E f \in run.offered : SourceOf[f] = s
  /\ \A f \in run.offered : SourceOf[f] = s => f \in run.refused

\* Mutant: the swap is not recorded.
FinishUnrecorded ==
  /\ run.stage = "finalize"
  /\ live' = Generation
  /\ counted' = Cardinality(Rows(documents[Generation]))
  /\ stamp' = model
  /\ status' = IF run.complaint \/ Unusable THEN "error" ELSE "idle"
  /\ run' = Over
  /\ late' = FALSE
  /\ UNCHANGED <<outside, sources, settings, documents, mixed, changes, pending, runs, baseline>>

\* Mutant: the documents of every generation are counted.
FinishCountsAll ==
  /\ run.stage = "finalize"
  /\ live' = Generation
  /\ changes' = IF run.rebuild THEN RecordedSwap(Generation) ELSE changes
  /\ counted' = Cardinality({gd \in Generations \X Docs : documents[gd[1]][gd[2]] # NoRow})
  /\ stamp' = model
  /\ status' = IF run.complaint \/ Unusable THEN "error" ELSE "idle"
  /\ run' = Over
  /\ late' = FALSE
  /\ UNCHANGED <<outside, sources, settings, documents, mixed, pending, runs, baseline>>

\* The final transaction; on a rebuild it is the swap.
Finish ==
  /\ run.stage = "finalize"
  /\ live' = Generation
  /\ changes' = IF run.rebuild THEN RecordedSwap(Generation) ELSE changes
  /\ counted' = Cardinality(Rows(documents[Generation]))
  /\ stamp' = model
  /\ status' = IF run.complaint \/ Unusable THEN "error" ELSE "idle"
  /\ run' = Over
  /\ late' = FALSE
  /\ UNCHANGED <<outside, sources, settings, documents, mixed, pending, runs, baseline>>

\* The run throws: a database error, a full disk, a quota, or a source that a
\* rebuild cannot see.  Only a quota met by an incremental run is recounted.
FailRun(quota) ==
  /\ run.stage \in {"sync", "index", "finalize"}
  /\ quota => run.stage = "index"
  /\ status' = "error"
  /\ counted' = IF quota /\ ~run.rebuild THEN Cardinality(Rows(documents[live])) ELSE counted
  /\ run' = Over
  /\ late' = FALSE
  /\ UNCHANGED <<outside, sources, settings, documents, live, stamp, mixed, changes, pending, runs, baseline>>

\* After the swap, or after a rebuild that failed.
SweepAfter(remaining) ==
  /\ run.stage = "sweep"
  /\ documents' = Swept(documents, live, remaining)
  /\ run' = Idle
  /\ late' = FALSE
  /\ UNCHANGED <<outside, sources, settings, live, project, changes, pending, runs, baseline>>

-----------------------------------------------------------------------------
(* The other writers of documents, under the same mutex.                   *)

\* The counters are of the live generation, unless the process dies before.
DeleteSource(s) ==
  /\ run.stage = "none" /\ edits < MaxEdits
  /\ s \in sources
  /\ LET gone == {d \in Docs : SourceOfDoc(d) = s}
     IN /\ changes' = RecordedRemoval(gone)
        /\ documents' = [g \in Generations |->
                           [d \in Docs |-> IF d \in gone THEN NoRow ELSE documents[g][d]]]
  /\ counted' \in {counted, Cardinality(Rows(documents'[live]))}
  /\ sources' = sources \ {s}
  /\ edits' = edits + 1
  /\ late' = FALSE
  /\ UNCHANGED <<disk, crashes, model, settings, live, stamp, status, mixed, pending, run, runs, baseline>>

\* PATCH of a source: its row first, without the mutex, ...
EditSettings(s, v) ==
  /\ edits < MaxEdits
  /\ s \in sources \ pending /\ v # settings[s]
  /\ settings' = [settings EXCEPT ![s] = v]
  /\ pending' = pending \cup {s}
  /\ edits' = edits + 1
  /\ UNCHANGED <<disk, crashes, model, sources, documents, live, project, changes, run, runs, since>>

\* Mutant: the hashes are reset while a run is going.
InvalidateUnlocked(s) ==
  /\ s \in pending
  /\ documents' = [g \in Generations |-> [d \in Docs |->
                     IF SourceOfDoc(d) = s /\ documents[g][d] # NoRow
                     THEN [documents[g][d] EXCEPT !.hash = Stale] ELSE documents[g][d]]]
  /\ pending' = pending \ {s}
  /\ late' = FALSE
  /\ UNCHANGED <<outside, sources, settings, live, project, changes, run, runs, baseline>>

\* ... then the hashes of its documents, under the mutex.
InvalidateDocuments(s) ==
  /\ run.stage = "none" /\ s \in pending
  /\ documents' = [g \in Generations |-> [d \in Docs |->
                     IF SourceOfDoc(d) = s /\ documents[g][d] # NoRow
                     THEN [documents[g][d] EXCEPT !.hash = Stale] ELSE documents[g][d]]]
  /\ pending' = pending \ {s}
  /\ late' = FALSE
  /\ UNCHANGED <<outside, sources, settings, live, project, changes, run, runs, baseline>>

-----------------------------------------------------------------------------
(* The world.                                                              *)

EditFile(f, content) ==
  /\ edits < MaxEdits /\ content # disk[f]
  /\ disk' = [disk EXCEPT ![f] = content]
  /\ edits' = edits + 1
  /\ UNCHANGED <<crashes, model, sources, settings, documents, live, project, changes, pending, run, runs, since>>

\* The process dies and starts again, with the model the operator names now:
\* generations that never went live are swept, a run that was cut is no longer
\* 'indexing'.
Restart(newModel, remaining) ==
  /\ crashes < MaxCrashes
  /\ crashes' = crashes + 1
  /\ model' = newModel
  /\ documents' = Swept(documents, live, remaining)
  /\ mixed' = MixedByRestart(newModel)
  /\ status' = IF status = "indexing" THEN "error" ELSE status
  /\ run' = Idle
  /\ pending' = {}
  /\ late' = FALSE
  /\ UNCHANGED <<disk, edits, sources, settings, live, stamp, counted, changes, runs, baseline>>

\* A client will ask what is new since now.  inside: the next transaction to
\* commit has begun already, and the client does not see what it will commit.
Look(inside) ==
  /\ inside \in Looks
  /\ baseline' = Served /\ late' = inside
  /\ changes' = [d \in Docs |-> Aged(changes[d])]
  /\ UNCHANGED <<outside, sources, settings, documents, live, project, pending, run, runs>>

-----------------------------------------------------------------------------
IndexDocument(d) == KeepDocument(d) \/ DropEmpty(d) \/ WriteDocument(d)
IndexFile(f) == RefuseFile(f) \/ ReadFile(f)

Run ==
  \/ \E force \in BOOLEAN, remaining \in Remaining : BeginRun(force, remaining)
  \/ \E protected, failed \in SUBSET sources : SyncSources(protected, failed)
  \/ \E f \in Files : IndexFile(f)
  \/ \E d \in Docs : IndexDocument(d)
  \/ RenderFails \/ RemoveVanished \/ Finish
  \/ \E quota \in BOOLEAN : FailRun(quota)
  \/ \E remaining \in Remaining : SweepAfter(remaining)

Source(s) ==
  \/ DeleteSource(s) \/ InvalidateDocuments(s)
  \/ \E v \in Settings : EditSettings(s, v)

World ==
  \/ \E f \in Files, content \in Contents \cup {Gone} : EditFile(f, content)
  \/ \E newModel \in Models, remaining \in Remaining : Restart(newModel, remaining)
  \/ \E inside \in Looks : Look(inside)

Next == Run \/ World \/ \E s \in Sources : Source(s)

Spec == Init /\ [][Next]_vars
-----------------------------------------------------------------------------
(* Types.                                                                  *)

Local == [stage : Stages, rebuild : BOOLEAN,
          known : [Sources -> Settings \cup {None}], complaint : BOOLEAN,
          protected : SUBSET Sources, offered : SUBSET Files,
          existing : [Docs -> Contents \cup {Stale, None}],
          todo : SUBSET Files, file : Files \cup {None}, left : SUBSET Docs,
          seen : SUBSET Docs,
          read : [Files -> Contents \cup {None}], refused : SUBSET Files]

\* Every variable stays in its type.
TypeOK ==
  /\ disk \in [Files -> Contents \cup {Gone}]
  /\ edits \in 0..MaxEdits /\ crashes \in 0..MaxCrashes /\ runs \in 0..MaxRuns
  /\ model \in Models
  /\ sources \in SUBSET Sources /\ pending \in SUBSET Sources
  /\ settings \in [Sources -> Settings]
  /\ documents \in [Generations -> [Docs -> Row \cup {NoRow}]]
  /\ live \in 1..MaxGeneration
  /\ stamp \in Models \cup {None}
  /\ counted \in 0..Cardinality(Docs)
  /\ status \in {"idle", "error", "indexing"} /\ mixed \in SUBSET Generations
  /\ changes \in [Docs -> Change]
  /\ run \in Local
  /\ run.rebuild => live < MaxGeneration
  /\ baseline \in [Docs -> Texts \cup {NoText}]
  /\ late \in BOOLEAN

-----------------------------------------------------------------------------
(* What clients are promised.                                              *)

Abstract == INSTANCE ServedIndex WITH served <- Served

\* The runs, deletions, sweeps and crashes together do nothing to what is
\* served but replace it in one step and record the difference in that step.
\* A rebuild in particular shows nothing before its swap, and no sweep ever
\* takes away a document that is served.
ImplementsServedIndex == Abstract!Spec

\* whats_new (document-changes.ts, listDocumentChanges) tells the truth about
\* every document that is served, and about every one it reports.
WhatsNewIsTrue == Abstract!WhatsNewIsTrue

\* classifyChange says that a removed path it leaves out came and went inside
\* the window; so a document that was there at `since` and is not any more is
\* reported as removed.  The code breaks it: removed, added again and removed
\* again, it counts as one that came and went.
RemovalIsReported ==
  \A d \in Docs : baseline[d] # NoText /\ Served[d] = NoText =>
    Classified(changes[d]) = "removed"

\* A file that could not be read, and a source that could not be listed, keep
\* the documents they have: an incremental run takes away only what it saw
\* to be gone (reject, protectedSources).
UnreadKeepsItsDocuments ==
  [][run.stage # "none" /\ ~run.rebuild =>
       \A d \in Docs : Served[d] # NoText /\ Served'[d] = NoText =>
         /\ SourceOfDoc(d) \notin run.protected
         /\ FileOf[d] \notin run.refused]_vars

\* A run that finishes leaves the documents of every file it indexed saying
\* what the file said when it was read, and no document of a file that was
\* not there; whatever was skipped because of a hash, left half-written by a
\* run that died, or written by another generation of the same number.
Produced(f) ==
  LET rendered == Rendering[f][run.read[f]]
  IN [d \in DocsOf(f) |->
        IF run.read[f] # None /\ d \in DOMAIN rendered /\ rendered[d] # Empty
        THEN rendered[d] ELSE NoText]

PublishesWhatItRead ==
  [][run.stage = "finalize" /\ Finish =>
       \A f \in Files \ run.refused : SourceOf[f] \notin run.protected =>
         \A d \in DocsOf(f) : Served'[d] = Produced(f)[d]]_vars

\* What search ranks against each other was embedded by one model, the one the
\* question is embedded with, through every restart with another model, every
\* rebuild that was cut and every generation number that is used again; except
\* in a generation where the code itself lets two models come together.  Search
\* answers when the project has chunks and is stamped with the model in use or
\* not at all (searchProject).
Answers == counted > 0 /\ stamp \in {None, model}
OneModelServes == Answers /\ live \notin mixed => ~HasOthers(documents, live, model)

\* A changed language or version reaches every document of its source: each
\* one carries what the source says, or will be indexed again, or the PATCH
\* that is to see to it still waits for the mutex (sources-routes.ts).
SettingsReachDocuments ==
  \A d \in Docs : documents[live][d] # NoRow =>
    \/ documents[live][d].settings = settings[SourceOfDoc(d)]
    \/ documents[live][d].hash = Stale
    \/ SourceOfDoc(d) \in pending
=============================================================================
