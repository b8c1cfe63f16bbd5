--------------------------- MODULE IndexRunProofs ---------------------------
(***************************************************************************)
(* What holds of a project's index for every set of sources, files and     *)
(* documents, every rendering, and every number of runs, edits and         *)
(* crashes.  The argument:                                                 *)
(*                                                                         *)
(*   TypeOK     every variable stays in its type                           *)
(*   StoredInv  a stored hash tells the stored text, and only the live     *)
(*              generation and the one a rebuild is writing hold rows      *)
(*   hence a step of IndexRun is a step of ServedIndex or changes nothing  *)
(*   of it, and what is true of ServedIndex is true of IndexRun            *)
(*                                                                         *)
(* This assumes that a sweep does not fail and that `since` does not fall  *)
(* inside a transaction.  What a run publishes and what it takes away is   *)
(* true whatever fails, and so is what the rows say of their model, in a   *)
(* generation that no failed sweep and no missing stamp has mixed; what    *)
(* they say of their settings holds while the process lives.               *)
(***************************************************************************)
EXTENDS IndexRun, FiniteSetTheorems, TLAPS

Reading == run.stage \in {"index", "finalize"}

\* What the types of a run's fields have to do with one another.
RunInv ==
  /\ Reading => run.known \in [Sources -> Settings]
  /\ run.left # {} =>
       /\ run.file \in Files
       /\ run.read[run.file] \in Contents
       /\ run.left \subseteq DOMAIN Rendering[run.file][run.read[run.file]]
       /\ run.stage = "index"
  /\ run.file # None => run.left # {}

TypeInv == TypeOK /\ RunInv

-----------------------------------------------------------------------------
(* Types.                                                                  *)

LEMMA RowTypes ==
  /\ NoRow \notin Row
  /\ \A r \in Row : r.text # NoText /\ r.text \in Texts
  /\ NoRow.text = NoText /\ NoRow.hash = None
BY TextsAssumption DEF Row, NoRow

LEMMA SweptType ==
  ASSUME NEW docs \in [Generations -> [Docs -> Row \cup {NoRow}]], NEW g, NEW remaining
  PROVE  Swept(docs, g, remaining) \in [Generations -> [Docs -> Row \cup {NoRow}]]
BY DEF Swept

LEMMA RecordedType ==
  ASSUME NEW row \in Change, NEW kind \in Kinds, NEW recent \in BOOLEAN
  PROVE  Recorded(row, kind, recent) \in Change
BY DEF Recorded, Change, Kinds

LEMMA CountType ==
  ASSUME NEW docs
  PROVE  Cardinality(Rows(docs)) \in 0..Cardinality(Docs)
<1>1. Rows(docs) \subseteq Docs
  BY DEF Rows
<1>2. /\ IsFiniteSet(Rows(docs))
      /\ Cardinality(Rows(docs)) <= Cardinality(Docs)
  BY <1>1, DocsAssumption, FS_Subset
<1> QED
  BY <1>2, DocsAssumption, FS_CardinalityType

LEMMA IdleType == Idle \in Local
BY FilesAssumption DEF Idle, Local, Stages

LEMMA InitType == Init => TypeInv
<1> SUFFICES ASSUME Init PROVE TypeInv
  OBVIOUS
<1>1. counted \in 0..Cardinality(Docs)
  BY DocsAssumption, FS_CardinalityType DEF Init
<1>2. documents \in [Generations -> [Docs -> Row \cup {NoRow}]]
  BY DEF Init, NoDocuments
<1>3. changes \in [Docs -> Change]
  BY DEF Init, NoChange, Change
<1>4. live \in 1..MaxGeneration
  BY BoundsAssumption DEF Init
<1>5. run \in Local /\ RunInv /\ ~run.rebuild
  BY IdleType DEF Init, RunInv, Idle, Reading
<1>6. settings \in [Sources -> Settings] /\ baseline \in [Docs -> Texts \cup {NoText}]
  BY DEF Init
<1>7. edits \in 0..MaxEdits /\ crashes \in 0..MaxCrashes /\ runs \in 0..MaxRuns
  BY BoundsAssumption DEF Init
<1> QED
  BY <1>1, <1>2, <1>3, <1>4, <1>5, <1>6, <1>7 DEF Init, TypeInv, TypeOK

LEMMA BeginRunType ==
  ASSUME TypeInv, NEW force \in BOOLEAN, NEW remaining, BeginRun(force, remaining)
  PROVE  TypeInv'
<1> DEFINE rebuild == force \/ (stamp # None /\ stamp # model)
<1>1. /\ run' = [Idle EXCEPT !.stage = "sync", !.rebuild = rebuild]
      /\ rebuild => live < MaxGeneration
      /\ rebuild \in BOOLEAN
  BY DEF BeginRun
<1>2. run' \in Local /\ RunInv'
  BY <1>1, IdleType DEF Local, RunInv, Idle, Reading, Stages
<1>3. run'.rebuild => live' < MaxGeneration
  BY <1>1 DEF BeginRun, Idle
<1>4. documents' \in [Generations -> [Docs -> Row \cup {NoRow}]]
  BY SweptType DEF BeginRun, TypeInv, TypeOK
<1>5. runs' \in 0..MaxRuns
  BY BoundsAssumption DEF BeginRun, TypeInv, TypeOK
<1>6. mixed' \in SUBSET Generations
  <2>1. mixed' = MixedByRebuild(rebuild)
    BY DEF BeginRun
  <2>2. rebuild => live + 1 \in Generations
    BY <1>1, BoundsAssumption DEF TypeInv, TypeOK, Generations
  <2> QED
    BY <2>1, <2>2 DEF MixedByRebuild, TypeInv, TypeOK
<1>7. live' = live /\ UNCHANGED <<outside, sources, settings, stamp, counted, changes, pending, baseline>>
      /\ status' = "indexing" /\ late' = FALSE
  BY DEF BeginRun
<1> HIDE DEF rebuild
<1> QED
  BY <1>2, <1>3, <1>4, <1>5, <1>6, <1>7 DEF TypeInv, TypeOK, outside

LEMMA SyncSourcesType ==
  ASSUME TypeInv, NEW protected, NEW failed, SyncSources(protected, failed)
  PROVE  TypeInv'
<1>1. run' \in Local /\ RunInv'
  <2> DEFINE offered == {f \in Files : SourceOf[f] \in sources \ protected /\ disk[f] # Gone}
  <2> DEFINE known == [s \in Sources |-> settings[s]]
  <2> DEFINE existing == [d \in Docs |-> documents[Generation][d].hash]
  <2>1. run' = [run EXCEPT !.stage = "index", !.known = known,
                  !.complaint = protected \cup failed # {}, !.protected = protected,
                  !.offered = offered, !.todo = offered, !.existing = existing]
    BY DEF SyncSources
  <2>2. known \in [Sources -> Settings]
    BY DEF TypeInv, TypeOK
  <2>3. existing \in [Docs -> Contents \cup {Stale, None}]
    <3>1. Generation \in Generations
      BY BoundsAssumption DEF Generation, Generations, TypeInv, TypeOK, SyncSources, Local
    <3> QED
      BY <3>1, RowTypes DEF TypeInv, TypeOK, Row
  <2>4. protected \subseteq Sources
    BY DEF SyncSources, TypeInv, TypeOK
  <2> HIDE DEF offered, known, existing
  <2>5. offered \subseteq Files
    BY DEF offered
  <2>6. run' \in Local
    BY <2>1, <2>2, <2>3, <2>4, <2>5 DEF TypeInv, TypeOK, Local, Stages
  <2>7. run'.left = run.left /\ run'.file = run.file /\ run'.known = known
    BY <2>1 DEF TypeInv, TypeOK, Local
  <2>8. run.left = {} /\ run.file = None
    BY DEF TypeInv, RunInv, SyncSources
  <2> QED
    BY <2>2, <2>6, <2>7, <2>8 DEF RunInv
<1>2. run'.rebuild = run.rebuild
  BY DEF SyncSources, TypeInv, TypeOK, Local
<1> QED
  BY <1>1, <1>2 DEF SyncSources, TypeInv, TypeOK, outside, project

LEMMA RefuseFileType ==
  ASSUME TypeInv, NEW f \in Files, RefuseFile(f)
  PROVE  TypeInv'
<1>1. run' = [run EXCEPT !.todo = @ \ {f}, !.refused = @ \cup {f}, !.seen = @ \cup Claimed(f)]
  BY DEF RefuseFile
<1>2. Claimed(f) \subseteq Docs
  BY DEF Claimed, DocsOf
<1>3. run' \in Local /\ RunInv' /\ run'.rebuild = run.rebuild /\ run'.stage = run.stage
  BY <1>1, <1>2 DEF TypeInv, TypeOK, Local, RunInv, Reading
<1> QED
  BY <1>3 DEF RefuseFile, TypeInv, TypeOK, outside, project

LEMMA ReadFileType ==
  ASSUME TypeInv, NEW f \in Files, ReadFile(f)
  PROVE  TypeInv'
<1> DEFINE content == disk[f]
           skipped == f \notin Specs /\ \A d \in DocsOf(f) : IsCurrent(d, content)
           left == IF skipped THEN {} ELSE DOMAIN Rendering[f][content]
<1>1. run' = [run EXCEPT !.todo = @ \ {f}, !.read[f] = content,
                         !.file = IF left = {} THEN None ELSE f, !.left = left,
                         !.seen = IF skipped THEN @ \cup DocsOf(f) ELSE @]
  BY DEF ReadFile
<1>2. content \in Contents
  BY DEF ReadFile, TypeInv, TypeOK
<1>3. left \subseteq Docs /\ left \subseteq DOMAIN Rendering[f][content] /\ DocsOf(f) \subseteq Docs
  BY <1>2, RenderingAssumption DEF DocsOf
<1> HIDE DEF content, skipped, left
<1>4. run' \in Local /\ run'.rebuild = run.rebuild /\ run'.stage = run.stage
  BY <1>1, <1>2, <1>3 DEF TypeInv, TypeOK, Local
<1>5. /\ run'.left = left /\ run'.file = (IF left = {} THEN None ELSE f)
      /\ run'.known = run.known /\ run'.read[f] = content
  BY <1>1 DEF TypeInv, TypeOK, Local
<1>6. RunInv'
  BY <1>2, <1>3, <1>4, <1>5, FilesAssumption DEF RunInv, Reading, TypeInv, ReadFile, Between, Indexing
<1> QED
  BY <1>4, <1>6 DEF ReadFile, TypeInv, TypeOK, outside, project

\* The three ways a document of the file in hand is done.
LEMMA DoneType ==
  ASSUME TypeInv, NEW d, Advance(d), NEW seen \in SUBSET Docs,
         run' = [Done(d) EXCEPT !.seen = seen]
  PROVE  run' \in Local /\ RunInv' /\ run'.rebuild = run.rebuild /\ run'.stage = run.stage
<1> DEFINE left == run.left \ {d}
           file == IF run.left = {d} THEN None ELSE run.file
<1>0. left \in SUBSET Docs /\ file \in Files \cup {None}
  BY DEF TypeInv, TypeOK, Local
<1>1. run' = [run EXCEPT !.left = left, !.file = file, !.seen = seen]
  BY DEF Done, TypeInv, TypeOK, Local
<1> HIDE DEF left, file
<1>2. run' \in Local /\ run'.rebuild = run.rebuild /\ run'.stage = run.stage
  BY <1>0, <1>1 DEF TypeInv, TypeOK, Local
<1>3. /\ run'.left = run.left \ {d} /\ run'.file = (IF run.left = {d} THEN None ELSE run.file)
      /\ run'.known = run.known /\ run'.read = run.read
  BY <1>1 DEF left, file, TypeInv, TypeOK, Local
<1>4. RunInv'
  BY <1>2, <1>3, FilesAssumption DEF RunInv, Reading, TypeInv, Advance
<1> QED
  BY <1>2, <1>4

LEMMA InHand ==
  ASSUME TypeInv, NEW d, Advance(d)
  PROVE  /\ d \in Docs /\ run.file \in Files /\ run.read[run.file] \in Contents
         /\ FileOf[d] = run.file
         /\ d \in DOMAIN Rendering[run.file][run.read[run.file]]
         /\ Rendering[run.file][run.read[run.file]][d] \in Texts
BY RenderingAssumption DEF TypeInv, RunInv, Advance

LEMMA GenerationType ==
  ASSUME TypeInv, run.stage \in {"sync", "index", "finalize"}
  PROVE  Generation \in Generations /\ Generation \in 1..MaxGeneration
BY BoundsAssumption DEF Generation, Generations, TypeInv, TypeOK, Local

LEMMA RemoveType ==
  ASSUME TypeInv, NEW gone, RemoveDocuments(gone), late \in BOOLEAN
  PROVE  /\ documents' \in [Generations -> [Docs -> Row \cup {NoRow}]]
         /\ changes' \in [Docs -> Change]
<1>1. RecordedRemoval(gone) \in [Docs -> Change]
  BY RecordedType DEF RecordedRemoval, Kinds, TypeInv, TypeOK
<1> QED
  BY <1>1 DEF RemoveDocuments, TypeInv, TypeOK

\* The steps of a run that touch nothing but its own state, the documents it
\* writes and their record.
LEMMA FrameType ==
  ASSUME TypeInv, run' \in Local, RunInv', run'.rebuild = run.rebuild,
         documents' \in [Generations -> [Docs -> Row \cup {NoRow}]],
         changes' \in [Docs -> Change], late' = FALSE,
         UNCHANGED <<outside, sources, settings, live, project, pending, runs, baseline>>
  PROVE  TypeInv'
BY DEF TypeInv, TypeOK, outside, project

LEMMA KeepDocumentType ==
  ASSUME TypeInv, NEW d, KeepDocument(d)
  PROVE  TypeInv'
<1>1. d \in Docs /\ Advance(d)
  BY InHand DEF KeepDocument
<1>0. run.seen \cup {d} \in SUBSET Docs
  BY <1>1 DEF TypeInv, TypeOK, Local
<1>2. run' = [Done(d) EXCEPT !.seen = run.seen \cup {d}]
  BY DEF KeepDocument, Done, TypeInv, TypeOK, Local
<1>3. run' \in Local /\ RunInv' /\ run'.rebuild = run.rebuild /\ run'.stage = run.stage
  BY <1>0, <1>1, <1>2, DoneType
<1>4. /\ late' = FALSE
      /\ UNCHANGED <<outside, sources, settings, documents, live, project, changes, pending, runs, baseline>>
  BY DEF KeepDocument
<1>5. documents \in [Generations -> [Docs -> Row \cup {NoRow}]] /\ changes \in [Docs -> Change]
  BY DEF TypeInv, TypeOK
<1> QED
  BY <1>3, <1>4, <1>5, FrameType

LEMMA DropEmptyType ==
  ASSUME TypeInv, NEW d, DropEmpty(d)
  PROVE  TypeInv'
<1>0. Advance(d) /\ run.seen \in SUBSET Docs
  BY DEF DropEmpty, TypeInv, TypeOK, Local
<1>1. run' = [Done(d) EXCEPT !.seen = run.seen]
  BY DEF DropEmpty, Done, TypeInv, TypeOK, Local
<1>2. run' \in Local /\ RunInv' /\ run'.rebuild = run.rebuild /\ run'.stage = run.stage
  BY <1>0, <1>1, DoneType
<1>3. /\ documents' \in [Generations -> [Docs -> Row \cup {NoRow}]]
      /\ changes' \in [Docs -> Change]
  BY RemoveType DEF DropEmpty, TypeInv, TypeOK
<1>4. /\ late' = FALSE
      /\ UNCHANGED <<outside, sources, settings, live, project, pending, runs, baseline>>
  BY DEF DropEmpty
<1> QED
  BY <1>2, <1>3, <1>4, FrameType

LEMMA WrittenRow ==
  ASSUME TypeInv, NEW d, Advance(d)
  PROVE  [hash |-> run.read[run.file], text |-> Rendering[run.file][run.read[run.file]][d],
          settings |-> run.known[SourceOf[run.file]], model |-> model] \in Row
<1>1. run.known[SourceOf[run.file]] \in Settings
  BY InHand, SourceOfAssumption DEF TypeInv, RunInv, Reading, Advance, Indexing
<1> QED
  BY <1>1, InHand DEF Row, TypeInv, TypeOK

LEMMA WriteDocumentType ==
  ASSUME TypeInv, NEW d, WriteDocument(d)
  PROVE  TypeInv'
<1> DEFINE row == [hash |-> run.read[run.file], text |-> Rendering[run.file][run.read[run.file]][d],
                   settings |-> run.known[SourceOf[run.file]], model |-> model]
<1>1. Advance(d) /\ d \in Docs /\ row \in Row
  BY InHand, WrittenRow DEF WriteDocument
<1>0. run.seen \cup {d} \in SUBSET Docs
  BY <1>1 DEF TypeInv, TypeOK, Local
<1>2. run' = [Done(d) EXCEPT !.seen = run.seen \cup {d}]
  BY DEF WriteDocument, Done, TypeInv, TypeOK, Local
<1>3. run' \in Local /\ RunInv' /\ run'.rebuild = run.rebuild /\ run'.stage = run.stage
  BY <1>0, <1>1, <1>2, DoneType
<1>4. /\ documents' = [documents EXCEPT ![Generation][d] = row]
      /\ changes' = IF run.rebuild THEN changes ELSE RecordedWrite(d, row)
  BY DEF WriteDocument
<1> HIDE DEF row
<1>5. documents' \in [Generations -> [Docs -> Row \cup {NoRow}]]
  BY <1>1, <1>4 DEF TypeInv, TypeOK
<1>6. changes' \in [Docs -> Change]
  <2>1. late \in BOOLEAN /\ changes \in [Docs -> Change]
    BY DEF TypeInv, TypeOK
  <2>2. Recorded(changes[d], "added", ~late) \in Change /\ Recorded(changes[d], "modified", ~late) \in Change
    BY <1>1, <2>1, RecordedType DEF Kinds
  <2> QED
    BY <1>1, <1>4, <2>1, <2>2 DEF RecordedWrite
<1>7. /\ late' = FALSE
      /\ UNCHANGED <<outside, sources, settings, live, project, pending, runs, baseline>>
  BY DEF WriteDocument
<1> QED
  BY <1>3, <1>5, <1>6, <1>7, FrameType

LEMMA RenderFailsType ==
  ASSUME TypeInv, RenderFails
  PROVE  TypeInv'
<1>1. Claimed(run.file) \subseteq Docs
  BY DEF Claimed, DocsOf
<1>2. run.file \in Files
  BY DEF RenderFails, TypeInv, TypeOK, Local
<1>3. run' \in Local /\ RunInv' /\ run'.rebuild = run.rebuild /\ run'.stage = run.stage
  BY <1>1, <1>2 DEF RenderFails, TypeInv, TypeOK, Local, RunInv, Reading
<1>4. /\ late' = FALSE
      /\ UNCHANGED <<outside, sources, settings, documents, live, project, changes, pending, runs, baseline>>
  BY DEF RenderFails
<1>5. documents \in [Generations -> [Docs -> Row \cup {NoRow}]] /\ changes \in [Docs -> Change]
  BY DEF TypeInv, TypeOK
<1> QED
  BY <1>3, <1>4, <1>5, FrameType

LEMMA RemoveVanishedType ==
  ASSUME TypeInv, RemoveVanished
  PROVE  TypeInv'
<1>1. run' = [run EXCEPT !.stage = "finalize"] /\ run.stage = "index" /\ run.left = {} /\ run.file = None
  BY FilesAssumption DEF RemoveVanished, Between, Indexing, TypeInv, RunInv
<1>2. run' \in Local /\ RunInv' /\ run'.rebuild = run.rebuild
  BY <1>1 DEF TypeInv, TypeOK, Local, RunInv, Reading, Stages
<1>3. /\ documents' \in [Generations -> [Docs -> Row \cup {NoRow}]]
      /\ changes' \in [Docs -> Change]
  BY RemoveType DEF RemoveVanished, TypeInv, TypeOK
<1>4. /\ late' = FALSE
      /\ UNCHANGED <<outside, sources, settings, live, project, pending, runs, baseline>>
  BY DEF RemoveVanished
<1> QED
  BY <1>1, <1>2, <1>3, <1>4, FrameType

LEMMA OverType ==
  ASSUME TypeInv, run' = Over
  PROVE  run' \in Local /\ ~run'.rebuild /\ RunInv'
BY IdleType DEF Over, Idle, Local, RunInv, Reading, Stages

LEMMA FinishType ==
  ASSUME TypeInv, Finish
  PROVE  TypeInv'
<1>1. live' \in 1..MaxGeneration
  BY GenerationType DEF Finish
<1>2. changes' \in [Docs -> Change]
  <2>1. RecordedSwap(Generation) \in [Docs -> Change]
    BY RecordedType DEF RecordedSwap, Kinds, TypeInv, TypeOK
  <2> QED
    BY <2>1 DEF Finish, TypeInv, TypeOK
<1>3. counted' \in 0..Cardinality(Docs)
  BY CountType DEF Finish
<1> QED
  BY <1>1, <1>2, <1>3, OverType DEF Finish, TypeInv, TypeOK, outside

LEMMA FailRunType ==
  ASSUME TypeInv, NEW quota \in BOOLEAN, FailRun(quota)
  PROVE  TypeInv'
<1>1. counted' \in 0..Cardinality(Docs)
  BY CountType DEF FailRun, TypeInv, TypeOK
<1> QED
  BY <1>1, OverType DEF FailRun, TypeInv, TypeOK, outside

LEMMA SweepAfterType ==
  ASSUME TypeInv, NEW remaining, SweepAfter(remaining)
  PROVE  TypeInv'
<1>1. documents' \in [Generations -> [Docs -> Row \cup {NoRow}]]
  BY SweptType DEF SweepAfter, TypeInv, TypeOK
<1>2. run' \in Local /\ ~run'.rebuild /\ RunInv'
  BY IdleType DEF SweepAfter, Idle, RunInv, Reading
<1> QED
  BY <1>1, <1>2 DEF SweepAfter, TypeInv, TypeOK, outside, project

LEMMA DeleteSourceType ==
  ASSUME TypeInv, NEW s \in Sources, DeleteSource(s)
  PROVE  TypeInv'
<1> DEFINE gone == {d \in Docs : SourceOfDoc(d) = s}
<1>1. RecordedRemoval(gone) \in [Docs -> Change]
  BY RecordedType DEF RecordedRemoval, Kinds, TypeInv, TypeOK
<1>2. documents' \in [Generations -> [Docs -> Row \cup {NoRow}]]
  BY DEF DeleteSource, TypeInv, TypeOK
<1>3. edits' \in 0..MaxEdits
  BY BoundsAssumption DEF DeleteSource, TypeInv, TypeOK
<1>4. UNCHANGED RunInv
  BY DEF RunInv, Reading, DeleteSource
<1>5. counted' \in 0..Cardinality(Docs)
  BY CountType DEF DeleteSource, TypeInv, TypeOK
<1> QED
  BY <1>1, <1>2, <1>3, <1>4, <1>5 DEF DeleteSource, TypeInv, TypeOK

LEMMA EditSettingsType ==
  ASSUME TypeInv, NEW s \in Sources, NEW v \in Settings, EditSettings(s, v)
  PROVE  TypeInv'
<1>1. edits' \in 0..MaxEdits
  BY BoundsAssumption DEF EditSettings, TypeInv, TypeOK
<1>2. UNCHANGED RunInv
  BY DEF RunInv, Reading, EditSettings
<1>3. settings' \in [Sources -> Settings] /\ pending' \in SUBSET Sources
  BY DEF EditSettings, TypeInv, TypeOK
<1> QED
  BY <1>1, <1>2, <1>3 DEF EditSettings, TypeInv, TypeOK, project, since

LEMMA InvalidateDocumentsType ==
  ASSUME TypeInv, NEW s \in Sources, InvalidateDocuments(s)
  PROVE  TypeInv'
<1>1. documents' \in [Generations -> [Docs -> Row \cup {NoRow}]]
  <2>1. \A r \in Row : [r EXCEPT !.hash = Stale] \in Row
    BY DEF Row
  <2> QED
    BY <2>1 DEF InvalidateDocuments, TypeInv, TypeOK
<1>2. UNCHANGED RunInv
  BY DEF RunInv, Reading, InvalidateDocuments
<1> QED
  BY <1>1, <1>2 DEF InvalidateDocuments, TypeInv, TypeOK, outside, project

LEMMA EditFileType ==
  ASSUME TypeInv, NEW f \in Files, NEW content \in Contents \cup {Gone}, EditFile(f, content)
  PROVE  TypeInv'
<1>1. edits' \in 0..MaxEdits /\ disk' \in [Files -> Contents \cup {Gone}]
  BY BoundsAssumption DEF EditFile, TypeInv, TypeOK
<1>2. UNCHANGED RunInv
  BY DEF RunInv, Reading, EditFile
<1> QED
  BY <1>1, <1>2 DEF EditFile, TypeInv, TypeOK, project, since

LEMMA RestartType ==
  ASSUME TypeInv, NEW newModel \in Models, NEW remaining, Restart(newModel, remaining)
  PROVE  TypeInv'
<1>1. documents' \in [Generations -> [Docs -> Row \cup {NoRow}]]
  BY SweptType DEF Restart, TypeInv, TypeOK
<1>2. run' \in Local /\ ~run'.rebuild /\ RunInv'
  BY IdleType DEF Restart, Idle, RunInv, Reading
<1>3. crashes' \in 0..MaxCrashes
  BY BoundsAssumption DEF Restart, TypeInv, TypeOK
<1>4. mixed' \in SUBSET Generations
  BY BoundsAssumption DEF Restart, MixedByRestart, TypeInv, TypeOK, Generations
<1> QED
  BY <1>1, <1>2, <1>3, <1>4 DEF Restart, TypeInv, TypeOK

LEMMA LookType ==
  ASSUME TypeInv, NEW inside, Look(inside)
  PROVE  TypeInv'
<1>1. late' \in BOOLEAN
  BY BoundsAssumption DEF Look
<1>2. baseline' \in [Docs -> Texts \cup {NoText}]
  <2>1. live \in Generations
    BY BoundsAssumption DEF TypeInv, TypeOK, Generations
  <2> QED
    BY <2>1, RowTypes DEF Look, Served, TypeInv, TypeOK
<1>3. changes' \in [Docs -> Change]
  BY DEF Look, Aged, Change, TypeInv, TypeOK
<1>4. UNCHANGED RunInv
  BY DEF RunInv, Reading, Look
<1> QED
  BY <1>1, <1>2, <1>3, <1>4 DEF Look, TypeInv, TypeOK, outside, project

LEMMA StepType == TypeInv /\ [Next]_vars => TypeInv'
<1> SUFFICES ASSUME TypeInv, [Next]_vars PROVE TypeInv'
  OBVIOUS
<1>1. CASE Run
  BY <1>1, BeginRunType, SyncSourcesType, RefuseFileType, ReadFileType, KeepDocumentType,
     DropEmptyType, WriteDocumentType, RenderFailsType, RemoveVanishedType, FinishType,
     FailRunType, SweepAfterType DEF Run, IndexFile, IndexDocument
<1>2. CASE World
  BY <1>2, EditFileType, RestartType, LookType DEF World
<1>3. CASE \E s \in Sources : Source(s)
  BY <1>3, DeleteSourceType, EditSettingsType, InvalidateDocumentsType DEF Source
<1>4. CASE UNCHANGED vars
  BY <1>4 DEF vars, outside, project, since, TypeInv, TypeOK, RunInv, Reading
<1> QED
  BY <1>1, <1>2, <1>3, <1>4 DEF Next

\* Every variable of IndexRun stays in its type, whatever fails.
THEOREM TypeCorrect == Spec => []TypeOK
<1>1. Spec => []TypeInv
  BY InitType, StepType, PTL DEF Spec
<1> QED
  BY <1>1, PTL DEF TypeInv

-----------------------------------------------------------------------------
(* What is stored.                                                         *)

\* The hash of a row tells its text, unless it was reset.
Told(d, row) == row.hash \in Contents => row.text = Rendering[FileOf[d]][row.hash][d]

\* Besides the live generation only the one a rebuild is writing has rows,
\* and none of these was reset; a rebuild that is over may leave any behind
\* until its sweep.
Accounted(g, d) ==
  documents[g][d] # NoRow /\ g # live =>
    \/ run.stage = "sweep"
    \/ run.rebuild /\ Reading /\ g = live + 1 /\ documents[g][d].hash # Stale

StoredInv ==
  /\ \A g \in Generations, d \in Docs : Told(d, documents[g][d]) /\ Accounted(g, d)
  /\ late = FALSE

IInv == TypeInv /\ StoredInv

LEMMA NoRowTold == \A d : Told(d, NoRow)
BY ContentsAssumption DEF Told, NoRow

LEMMA InitStored == Init => StoredInv
BY NoRowTold DEF Init, StoredInv, Accounted, NoDocuments

\* After a sweep that did not fail only the live generation has rows.
LEMMA SweptStored ==
  ASSUME IInv, documents' = Swept(documents, live, {}), live' = live, late' = FALSE
  PROVE  StoredInv'
<1> SUFFICES ASSUME NEW g \in Generations, NEW d \in Docs
             PROVE  Told(d, documents'[g][d]) /\ Accounted(g, d)'
  BY DEF StoredInv
<1>1. documents'[g][d] = IF g = live THEN documents[g][d] ELSE NoRow
  BY DEF Swept, IInv, TypeInv, TypeOK
<1> QED
  BY <1>1, NoRowTold DEF IInv, StoredInv, Accounted

\* A step that leaves documents and generations alone, between two stages of
\* the same run.
LEMMA SameStored ==
  ASSUME IInv, UNCHANGED <<documents, live>>, late' = FALSE,
         run'.stage = run.stage \/ run'.stage = "sweep" \/ (run.stage = "index" /\ run'.stage = "finalize")
           \/ ~run.rebuild \/ run.stage = "sync",
         run'.rebuild = run.rebuild \/ run'.stage = "sweep" \/ ~run.rebuild,
         run.stage # "sweep"
  PROVE  StoredInv'
<1> SUFFICES ASSUME NEW g \in Generations, NEW d \in Docs
             PROVE  Accounted(g, d)'
  BY DEF StoredInv, IInv
<1>1. Accounted(g, d)
  BY DEF StoredInv, IInv
<1> QED
  BY <1>1 DEF Accounted, Reading

\* A run rewrites rows of its own generation.
LEMMA WriteStored ==
  ASSUME IInv, NEW next \in [Docs -> Row \cup {NoRow}],
         run.stage \in {"index", "finalize"},
         documents' = [documents EXCEPT ![Generation] = next],
         \A d \in Docs : /\ Told(d, next[d])
                         /\ next[d] \in {documents[Generation][d], NoRow} \/ next[d].hash # Stale,
         UNCHANGED live, late' = FALSE,
         run'.rebuild = run.rebuild, run'.stage \in {"index", "finalize"}
  PROVE  StoredInv'
<1> SUFFICES ASSUME NEW g \in Generations, NEW d \in Docs
             PROVE  Told(d, documents'[g][d]) /\ Accounted(g, d)'
  BY DEF StoredInv
<1>1. Told(d, documents[g][d]) /\ Accounted(g, d)
  BY DEF StoredInv, IInv
<1>2. documents'[g][d] = IF g = Generation THEN next[d] ELSE documents[g][d]
  BY DEF IInv, TypeInv, TypeOK
<1>3. Told(d, documents'[g][d])
  BY <1>1, <1>2
<1>4. Accounted(g, d)'
  <2>1. CASE g = Generation
    BY <1>1, <1>2, <2>1 DEF Accounted, Reading, Generation
  <2>2. CASE g # Generation
    BY <1>1, <1>2, <2>2 DEF Accounted, Reading
  <2> QED
    BY <2>1, <2>2
<1> QED
  BY <1>3, <1>4

LEMMA RemoveStored ==
  ASSUME IInv, NEW gone, RemoveDocuments(gone), run.stage = "index",
         UNCHANGED live, late' = FALSE,
         run'.rebuild = run.rebuild, run'.stage \in {"index", "finalize"}
  PROVE  StoredInv'
<1> DEFINE next == [d \in Docs |-> IF d \in gone THEN NoRow ELSE documents[Generation][d]]
<1>1. Generation \in Generations
  BY GenerationType DEF IInv
<1>2. documents[Generation] \in [Docs -> Row \cup {NoRow}]
  BY <1>1 DEF IInv, TypeInv, TypeOK
<1>3. next \in [Docs -> Row \cup {NoRow}]
  BY <1>2
<1>4. documents' = [documents EXCEPT ![Generation] = next]
  BY DEF RemoveDocuments
<1>5. \A d \in Docs : Told(d, next[d]) /\ next[d] \in {documents[Generation][d], NoRow}
  BY <1>1, NoRowTold DEF IInv, StoredInv
<1> HIDE DEF next
<1> QED
  BY <1>3, <1>4, <1>5, WriteStored

LEMMA WriteDocumentStored ==
  ASSUME IInv, NEW d, WriteDocument(d)
  PROVE  StoredInv'
<1> DEFINE row == [hash |-> run.read[run.file], text |-> Rendering[run.file][run.read[run.file]][d],
                   settings |-> run.known[SourceOf[run.file]], model |-> model]
           next == [documents[Generation] EXCEPT ![d] = row]
<1>1. Advance(d) /\ d \in Docs /\ row \in Row /\ FileOf[d] = run.file /\ run.stage = "index"
  BY InHand, WrittenRow DEF WriteDocument, IInv, Advance, Indexing
<1>2. row.hash \in Contents /\ row.hash # Stale /\ Told(d, row)
  BY <1>1, InHand, ContentsAssumption DEF Told, IInv
<1>3. documents' = [documents EXCEPT ![Generation][d] = row]
  BY DEF WriteDocument
<1> HIDE DEF row
<1>4. Generation \in Generations /\ documents[Generation] \in [Docs -> Row \cup {NoRow}]
  BY <1>1, GenerationType DEF IInv, TypeInv, TypeOK
<1>5. next \in [Docs -> Row \cup {NoRow}] /\ documents' = [documents EXCEPT ![Generation] = next]
  BY <1>1, <1>3, <1>4
<1>6. \A e \in Docs : Told(e, next[e]) /\ (next[e] \in {documents[Generation][e], NoRow} \/ next[e].hash # Stale)
  BY <1>1, <1>2, <1>4 DEF IInv, StoredInv
<1>7. UNCHANGED live /\ late' = FALSE
  BY DEF WriteDocument
<1>8. run'.rebuild = run.rebuild /\ run'.stage = run.stage
  BY DEF WriteDocument, Done, IInv, TypeInv, TypeOK, Local
<1> HIDE DEF next
<1> QED
  BY <1>1, <1>5, <1>6, <1>7, <1>8, WriteStored

LEMMA RunStored ==
  ASSUME ~SweepFails, IInv, Run
  PROVE  StoredInv'
<1> USE DEF IInv
<1>0. Remaining = {{}}
  BY DEF Remaining
<1>1. ASSUME NEW force \in BOOLEAN, NEW remaining \in Remaining, BeginRun(force, remaining)
      PROVE  StoredInv'
  BY <1>0, <1>1, SweptStored DEF BeginRun
<1>2. ASSUME NEW protected, NEW failed, SyncSources(protected, failed)
      PROVE  StoredInv'
  <2>1. run'.rebuild = run.rebuild
    BY <1>2 DEF SyncSources, TypeInv, TypeOK, Local
  <2> QED
    BY <1>2, <2>1, SameStored DEF SyncSources
<1>3. ASSUME NEW f \in Files, RefuseFile(f) \/ ReadFile(f)
      PROVE  StoredInv'
  <2>1. run'.rebuild = run.rebuild /\ run'.stage = run.stage
    BY <1>3 DEF RefuseFile, ReadFile, TypeInv, TypeOK, Local
  <2> QED
    BY <1>3, <2>1, SameStored DEF RefuseFile, ReadFile, Between, Indexing
<1>4. ASSUME NEW d, KeepDocument(d)
      PROVE  StoredInv'
  <2>1. run'.rebuild = run.rebuild /\ run'.stage = run.stage
    BY <1>4 DEF KeepDocument, Done, TypeInv, TypeOK, Local
  <2> QED
    BY <1>4, <2>1, SameStored DEF KeepDocument, Advance, Indexing
<1>5. ASSUME NEW d, DropEmpty(d)
      PROVE  StoredInv'
  <2>1. run'.rebuild = run.rebuild /\ run'.stage = run.stage /\ run.stage = "index"
    BY <1>5 DEF DropEmpty, Done, TypeInv, TypeOK, Local, Advance, Indexing
  <2>2. UNCHANGED live /\ late' = FALSE
    BY <1>5 DEF DropEmpty
  <2>3. CASE RemoveDocuments({d})
    BY <2>1, <2>2, <2>3, RemoveStored
  <2>4. CASE UNCHANGED documents
    BY <2>1, <2>2, <2>4, SameStored
  <2> QED
    BY <1>5, <2>3, <2>4 DEF DropEmpty
<1>6. ASSUME NEW d, WriteDocument(d)
      PROVE  StoredInv'
  BY <1>6, WriteDocumentStored
<1>7. ASSUME RenderFails
      PROVE  StoredInv'
  <2>1. run'.rebuild = run.rebuild /\ run'.stage = run.stage
    BY <1>7 DEF RenderFails, TypeInv, TypeOK, Local
  <2> QED
    BY <1>7, <2>1, SameStored DEF RenderFails, Indexing
<1>8. ASSUME RemoveVanished
      PROVE  StoredInv'
  <2>1. run'.rebuild = run.rebuild /\ run'.stage = "finalize" /\ run.stage = "index"
    BY <1>8 DEF RemoveVanished, TypeInv, TypeOK, Local, Between, Indexing
  <2> QED
    BY <1>8, <2>1, RemoveStored DEF RemoveVanished
<1>9. ASSUME Finish
      PROVE  StoredInv'
  <2>1. run'.stage = IF run.rebuild THEN "sweep" ELSE "none"
    BY <1>9 DEF Finish, Over, Idle
  <2>2. UNCHANGED documents /\ late' = FALSE /\ live' = Generation /\ run.stage = "finalize"
    BY <1>9 DEF Finish
  <2>3. \A g \in Generations, d \in Docs : Accounted(g, d)'
    BY <2>1, <2>2 DEF Accounted, StoredInv, Generation
  <2> QED
    BY <2>2, <2>3 DEF StoredInv
<1>10. ASSUME NEW quota, FailRun(quota)
       PROVE  StoredInv'
  <2>1. run'.stage = (IF run.rebuild THEN "sweep" ELSE "none") /\ run'.rebuild = FALSE
    BY <1>10 DEF FailRun, Over, Idle
  <2> QED
    BY <1>10, <2>1, SameStored DEF FailRun
<1>11. ASSUME NEW remaining \in Remaining, SweepAfter(remaining)
       PROVE  StoredInv'
  BY <1>0, <1>11, SweptStored DEF SweepAfter
<1> QED
  BY <1>1, <1>2, <1>3, <1>4, <1>5, <1>6, <1>7, <1>8, <1>9, <1>10, <1>11
     DEF Run, IndexFile, IndexDocument

LEMMA SourceStored ==
  ASSUME IInv, NEW s \in Sources, Source(s)
  PROVE  StoredInv'
<1> USE DEF IInv
<1>1. CASE DeleteSource(s)
  <2>1. \A g \in Generations, d \in Docs : documents'[g][d] \in {documents[g][d], NoRow}
    BY <1>1 DEF DeleteSource
  <2>2. UNCHANGED <<live, run>> /\ late' = FALSE
    BY <1>1 DEF DeleteSource
  <2> QED
    BY <2>1, <2>2, NoRowTold DEF StoredInv, Accounted, Reading
<1>2. CASE InvalidateDocuments(s)
  <2>1. \A g \in Generations, d \in Docs :
           \/ documents'[g][d] = documents[g][d]
           \/ documents[g][d] # NoRow /\ documents'[g][d] = [documents[g][d] EXCEPT !.hash = Stale]
    BY <1>2 DEF InvalidateDocuments
  <2>2. \A g \in Generations, d \in Docs : documents[g][d] # NoRow => documents[g][d] \in Row
    BY DEF TypeInv, TypeOK
  <2>3. \A g \in Generations, d \in Docs : Told(d, documents'[g][d])
    <3> SUFFICES ASSUME NEW g \in Generations, NEW d \in Docs PROVE Told(d, documents'[g][d])
      OBVIOUS
    <3>1. CASE documents'[g][d] = documents[g][d]
      BY <3>1 DEF StoredInv
    <3>2. CASE /\ documents[g][d] # NoRow
               /\ documents'[g][d] = [documents[g][d] EXCEPT !.hash = Stale]
      <4>1. documents[g][d] \in Row
        BY <2>2, <3>2
      <4>2. documents'[g][d].hash = Stale
        BY <3>2, <4>1 DEF Row
      <4> QED
        BY <4>2, ContentsAssumption DEF Told
    <3> QED
      BY <2>1, <3>1, <3>2
  <2>4. UNCHANGED <<live, run>> /\ run.stage = "none" /\ late' = FALSE
    BY <1>2 DEF InvalidateDocuments
  <2>5. \A g \in Generations, d \in Docs : Accounted(g, d)'
    BY <2>1, <2>4 DEF Accounted, StoredInv, Reading
  <2> QED
    BY <2>3, <2>4, <2>5 DEF StoredInv
<1>3. ASSUME NEW v \in Settings, EditSettings(s, v)
      PROVE  StoredInv'
  BY <1>3 DEF EditSettings, StoredInv, Accounted, Reading, since
<1> QED
  BY <1>1, <1>2, <1>3 DEF Source

LEMMA WorldStored ==
  ASSUME ~SweepFails, TRUE \notin Looks, IInv, World
  PROVE  StoredInv'
<1> USE DEF IInv
<1>1. ASSUME NEW f \in Files, NEW content, EditFile(f, content)
      PROVE  StoredInv'
  BY <1>1 DEF EditFile, StoredInv, Accounted, Reading, since
<1>2. ASSUME NEW newModel \in Models, NEW remaining \in Remaining, Restart(newModel, remaining)
      PROVE  StoredInv'
  BY <1>2, SweptStored DEF Restart, Remaining
<1>3. ASSUME NEW inside \in Looks, Look(inside)
      PROVE  StoredInv'
  <2>1. late' = FALSE
    BY <1>3, BoundsAssumption DEF Look
  <2> QED
    BY <1>3, <2>1 DEF Look, StoredInv, Accounted, Reading
<1> QED
  BY <1>1, <1>2, <1>3 DEF World

-----------------------------------------------------------------------------
(* Implementing ServedIndex.                                               *)

Everything == [Docs -> Texts \cup {NoText}]

\* A document changed and that was recorded, or neither.
Explained(d) ==
  \/ /\ Served[d] = NoText /\ Served'[d] # NoText
     /\ changes'[d] = Recorded(changes[d], "added", TRUE)
  \/ /\ Served[d] # NoText /\ Served'[d] = NoText
     /\ changes'[d] = Recorded(changes[d], "removed", TRUE)
  \/ /\ Served[d] # NoText /\ Served'[d] # NoText
     /\ Served[d] = Served'[d] => Served[d] \in Truncated
     /\ changes'[d] = Recorded(changes[d], "modified", TRUE)
  \/ Served'[d] = Served[d] /\ changes'[d] = changes[d]

LEMMA ServedType == TypeOK => Served \in Everything
<1> SUFFICES ASSUME TypeOK PROVE Served \in Everything
  OBVIOUS
<1>1. live \in Generations
  BY BoundsAssumption DEF TypeOK, Generations
<1> QED
  BY <1>1, RowTypes DEF Served, Everything, TypeOK

LEMMA SaidIs == \A d \in Docs : Served[d] = documents[live][d].text
BY DEF Served

LEMMA ExplainedIsPublished ==
  ASSUME TypeOK, TypeOK', UNCHANGED baseline, \A d \in Docs : Explained(d)
  PROVE  Abstract!Publish
<1> DEFINE doubted == {d \in Docs : Served[d] \in Truncated
                                   /\ changes'[d] = Recorded(changes[d], "modified", TRUE)}
<1>0. (TypeOK => Served \in Everything)'
  BY ServedType, PTL
<1>1. Served \in Everything /\ Served' \in Everything
  BY <1>0, ServedType
<1>2. changes' = [d \in Docs |-> changes'[d]]
  BY DEF TypeOK
<1>3. ASSUME NEW d \in Docs PROVE changes'[d] = Abstract!RecordOf(d, doubted)
  <2>1. Explained(d)
    OBVIOUS
  <2>2. d \in doubted <=> Served[d] \in Truncated /\ changes'[d] = Recorded(changes[d], "modified", TRUE)
    OBVIOUS
  <2> HIDE DEF doubted
  <2>3. \A row, kind, recent : Abstract!Recorded(row, kind, recent) = Recorded(row, kind, recent)
    BY DEF Abstract!Recorded, Recorded
  <2> QED
    BY <2>1, <2>2, <2>3 DEF Explained, Abstract!RecordOf
<1>4. changes' = [d \in Docs |-> Abstract!RecordOf(d, doubted)]
  BY <1>2, <1>3
<1>5. doubted \in SUBSET {d \in Docs : Served[d] \in Truncated}
  OBVIOUS
<1> HIDE DEF doubted
<1> QED
  BY <1>1, <1>4, <1>5 DEF Abstract!Publish, Abstract!Said, Everything

\* The row of a path is served exactly when there is one.
LEMMA RowServed ==
  ASSUME TypeOK, NEW d \in Docs
  PROVE  /\ live \in Generations /\ Served[d] = documents[live][d].text
         /\ documents[live][d] \in Row \cup {NoRow}
         /\ documents[live][d] = NoRow <=> Served[d] = NoText
<1>1. live \in Generations
  BY BoundsAssumption DEF TypeOK, Generations
<1>2. documents[live][d] \in Row \cup {NoRow}
  BY <1>1 DEF TypeOK
<1> QED
  BY <1>1, <1>2, RowTypes, SaidIs

\* A step after which the live rows say what they said, and nothing is
\* recorded, changes nothing for a client.
LEMMA Silent ==
  ASSUME TypeOK, UNCHANGED <<changes, baseline>>,
         \A d \in Docs : documents'[live'][d].text = documents[live][d].text
  PROVE  UNCHANGED Abstract!vars
<1>1. Served' = Served
  BY DEF Served
<1> QED
  BY <1>1 DEF Abstract!vars

\* What is removed is recorded.
LEMMA RemovalExplained ==
  ASSUME TypeInv, TypeOK', StoredInv, NEW gone, UNCHANGED live,
         changes' = RecordedRemoval(gone),
         \A d \in Docs : documents'[live][d] = IF d \in gone THEN NoRow ELSE documents[live][d]
  PROVE  \A d \in Docs : Explained(d)
<1> SUFFICES ASSUME NEW d \in Docs PROVE Explained(d)
  OBVIOUS
<1>1. documents[live][d] = NoRow <=> Served[d] = NoText
  BY RowServed DEF TypeInv
<1>2. Served[d] = documents[live][d].text /\ Served'[d] = documents'[live][d].text
  BY DEF Served
<1>3. changes'[d] = IF d \in gone /\ documents[live][d] # NoRow
                    THEN Recorded(changes[d], "removed", TRUE) ELSE changes[d]
  BY DEF RecordedRemoval, StoredInv
<1> QED
  BY <1>1, <1>2, <1>3, RowTypes DEF Explained

LEMMA RemoveImplements ==
  ASSUME IInv, TypeOK', NEW gone, RemoveDocuments(gone), UNCHANGED <<live, baseline>>,
         run.stage = "index"
  PROVE  Abstract!Publish \/ UNCHANGED Abstract!vars
<1>1. Generation \in Generations /\ live \in Generations
  BY GenerationType, BoundsAssumption DEF IInv, TypeInv, TypeOK, Generations
<1>2. CASE run.rebuild
  <2>1. live # Generation
    BY <1>2, BoundsAssumption DEF Generation, IInv, TypeInv, TypeOK
  <2>2. UNCHANGED changes /\ documents'[live] = documents[live]
    BY <1>1, <1>2, <2>1 DEF RemoveDocuments, IInv, TypeInv, TypeOK
  <2> QED
    BY <2>2, Silent DEF IInv, TypeInv
<1>3. CASE ~run.rebuild
  <2>1. \A d \in Docs : documents'[live][d] = IF d \in gone THEN NoRow ELSE documents[live][d]
    BY <1>1, <1>3 DEF RemoveDocuments, Generation, IInv, TypeInv, TypeOK
  <2>2. changes' = RecordedRemoval(gone)
    BY <1>3 DEF RemoveDocuments
  <2> QED
    BY <2>1, <2>2, RemovalExplained, ExplainedIsPublished DEF IInv, TypeInv
<1> QED
  BY <1>2, <1>3

\* A document written by an incremental run: an equal hash means an equal
\* text, so what is not recorded did not change.
LEMMA WriteDocumentImplements ==
  ASSUME IInv, TypeOK', NEW d, WriteDocument(d)
  PROVE  Abstract!Publish \/ UNCHANGED Abstract!vars
<1> DEFINE row == [hash |-> run.read[run.file], text |-> Rendering[run.file][run.read[run.file]][d],
                   settings |-> run.known[SourceOf[run.file]], model |-> model]
<1>1. d \in Docs /\ row \in Row /\ FileOf[d] = run.file /\ run.stage = "index"
  BY InHand, WrittenRow DEF WriteDocument, IInv, Advance, Indexing
<1>2. row.hash \in Contents /\ row.text = Rendering[FileOf[d]][row.hash][d]
  BY <1>1, InHand DEF WriteDocument, IInv
<1>3. /\ documents' = [documents EXCEPT ![Generation][d] = row]
      /\ changes' = IF run.rebuild THEN changes ELSE RecordedWrite(d, row)
      /\ UNCHANGED <<live, baseline>>
  BY DEF WriteDocument
<1> HIDE DEF row
<1>4. Generation \in Generations /\ live \in Generations
  BY <1>1, GenerationType, BoundsAssumption DEF IInv, TypeInv, TypeOK, Generations
<1>5. CASE run.rebuild
  <2>1. live # Generation
    BY <1>5, BoundsAssumption DEF Generation, IInv, TypeInv, TypeOK
  <2>2. UNCHANGED changes /\ documents'[live] = documents[live]
    BY <1>3, <1>4, <1>5, <2>1 DEF IInv, TypeInv, TypeOK
  <2> QED
    BY <1>3, <2>2, Silent DEF IInv, TypeInv
<1>6. CASE ~run.rebuild
  <2>1. \A e \in Docs : documents'[live][e] = IF e = d THEN row ELSE documents[live][e]
    BY <1>1, <1>3, <1>4, <1>6 DEF Generation, IInv, TypeInv, TypeOK
  <2>2. changes' = RecordedWrite(d, row) /\ changes \in [Docs -> Change]
    BY <1>3, <1>6 DEF IInv, TypeInv, TypeOK
  <2>3. \A e \in Docs : e # d => Explained(e)
    <3> SUFFICES ASSUME NEW e \in Docs, e # d PROVE Explained(e)
      OBVIOUS
    <3>1. Served[e] = documents[live][e].text /\ Served'[e] = documents'[live][e].text
      BY <1>3 DEF Served
    <3>2. changes'[e] = changes[e]
      BY <1>1, <2>2 DEF RecordedWrite
    <3> QED
      BY <2>1, <3>1, <3>2 DEF Explained
  <2>4. Explained(d)
    <3> DEFINE before == documents[live][d]
    <3>1. Served[d] = before.text /\ Served'[d] = row.text
      BY <1>1, <1>3, <2>1 DEF Served
    <3>2. row.text # NoText /\ row.text \in Texts
      BY <1>1, RowTypes
    <3>3. CASE before = NoRow
      <4>1. changes'[d] = Recorded(changes[d], "added", TRUE)
        BY <1>1, <2>2, <3>3 DEF RecordedWrite, IInv, StoredInv
      <4> QED
        BY <3>1, <3>2, <3>3, <4>1, RowTypes DEF Explained
    <3>4. CASE before # NoRow
      <4>1. before \in Row /\ before.text # NoText
        BY <1>1, <1>4, <3>4, RowTypes DEF IInv, TypeInv, TypeOK
      <4>2. before.hash = row.hash => before.text = row.text
        BY <1>1, <1>2, <1>4 DEF IInv, StoredInv, Told
      <4>3. changes'[d] = IF IsModified(before.hash, before.text, row.hash, row.text)
                          THEN Recorded(changes[d], "modified", TRUE) ELSE changes[d]
        BY <1>1, <2>2, <3>4 DEF RecordedWrite, IInv, StoredInv
      <4> HIDE DEF before
      <4> QED
        BY <3>1, <3>2, <4>1, <4>2, <4>3 DEF Explained, IsModified, TextProvesEqual
    <3> QED
      BY <3>3, <3>4
  <2> QED
    BY <1>3, <2>3, <2>4, ExplainedIsPublished DEF IInv, TypeInv
<1> QED
  BY <1>5, <1>6

\* The swap of a rebuild: no row of its generation was reset, so there too an
\* equal hash means an equal text.
LEMMA FinishImplements ==
  ASSUME IInv, TypeOK', Finish
  PROVE  Abstract!Publish \/ UNCHANGED Abstract!vars
<1>1. /\ run.stage = "finalize" /\ live' = Generation
      /\ changes' = IF run.rebuild THEN RecordedSwap(Generation) ELSE changes
      /\ UNCHANGED <<documents, baseline>>
  BY DEF Finish
<1>2. CASE ~run.rebuild
  BY <1>1, <1>2, Silent DEF Generation, IInv, TypeInv
<1>3. CASE run.rebuild
  <2>1. /\ live \in Generations /\ Generation \in Generations /\ Generation = live + 1
        /\ Generation # live
    BY <1>1, <1>3, GenerationType, BoundsAssumption
       DEF Generation, Generations, IInv, TypeInv, TypeOK
  <2>2. ASSUME NEW d \in Docs PROVE Explained(d)
    <3> DEFINE old == documents[live][d]
               new == documents[Generation][d]
    <3>1. old \in Row \cup {NoRow} /\ new \in Row \cup {NoRow}
      BY <2>1 DEF IInv, TypeInv, TypeOK
    <3>2. Served[d] = old.text /\ Served'[d] = new.text
      BY <1>1 DEF Served
    <3>3. new # NoRow => new.hash \in Contents
      <4>1. new # NoRow => new.hash # Stale
        BY <1>1, <2>1 DEF IInv, StoredInv, Accounted
      <4> QED
        BY <3>1, <4>1 DEF Row
    <3>4. new # NoRow /\ old.hash = new.hash => old.text = new.text
      BY <2>1, <3>3 DEF IInv, StoredInv, Told
    <3>5. changes'[d] =
            IF old = NoRow /\ new # NoRow THEN Recorded(changes[d], "added", TRUE)
            ELSE IF old # NoRow /\ new = NoRow THEN Recorded(changes[d], "removed", TRUE)
            ELSE IF old # NoRow /\ new # NoRow /\ IsModified(old.hash, old.text, new.hash, new.text)
            THEN Recorded(changes[d], "modified", TRUE)
            ELSE changes[d]
      BY <1>1, <1>3 DEF RecordedSwap, IInv, StoredInv
    <3> HIDE DEF old, new
    <3>6. /\ old # NoRow => old.text # NoText
          /\ new # NoRow => new.text # NoText
          /\ NoRow.text = NoText
      BY <3>1, RowTypes
    <3>7. CASE old # NoRow /\ new # NoRow
      <4>1. old.text # NoText /\ old.text \in Texts
        BY <3>1, <3>7, RowTypes
      <4> QED
        BY <3>2, <3>4, <3>5, <3>6, <3>7, <4>1 DEF Explained, IsModified, TextProvesEqual
    <3>8. CASE old = NoRow /\ new # NoRow
      BY <3>2, <3>5, <3>6, <3>8 DEF Explained
    <3>9. CASE old # NoRow /\ new = NoRow
      BY <3>2, <3>5, <3>6, <3>9 DEF Explained
    <3>10. CASE old = NoRow /\ new = NoRow
      BY <3>2, <3>5, <3>6, <3>10 DEF Explained
    <3> QED
      BY <3>7, <3>8, <3>9, <3>10
  <2> QED
    BY <1>1, <2>2, ExplainedIsPublished DEF IInv, TypeInv
<1> QED
  BY <1>2, <1>3

LEMMA DeleteSourceImplements ==
  ASSUME IInv, TypeOK', NEW s, DeleteSource(s)
  PROVE  Abstract!Publish
<1> DEFINE gone == {d \in Docs : SourceOfDoc(d) = s}
<1>1. /\ changes' = RecordedRemoval(gone) /\ UNCHANGED <<live, baseline>>
      /\ documents' = [g \in Generations |->
                         [d \in Docs |-> IF d \in gone THEN NoRow ELSE documents[g][d]]]
  BY DEF DeleteSource
<1>2. live \in Generations
  BY BoundsAssumption DEF IInv, TypeInv, TypeOK, Generations
<1> HIDE DEF gone
<1>3. \A d \in Docs : documents'[live][d] = IF d \in gone THEN NoRow ELSE documents[live][d]
  BY <1>1, <1>2
<1> QED
  BY <1>1, <1>3, RemovalExplained, ExplainedIsPublished DEF IInv, TypeInv

LEMMA InvalidateImplements ==
  ASSUME IInv, NEW s, InvalidateDocuments(s)
  PROVE  UNCHANGED Abstract!vars
<1>1. live \in Generations /\ UNCHANGED <<live, changes, baseline>>
  BY BoundsAssumption DEF IInv, TypeInv, TypeOK, Generations, InvalidateDocuments
<1>2. \A d \in Docs : documents'[live][d].text = documents[live][d].text
  <2> SUFFICES ASSUME NEW d \in Docs PROVE documents'[live][d].text = documents[live][d].text
    OBVIOUS
  <2>1. CASE documents[live][d] # NoRow
    <3>1. documents[live][d] \in Row
      BY <1>1, <2>1 DEF IInv, TypeInv, TypeOK
    <3>2. documents'[live][d] \in {documents[live][d], [documents[live][d] EXCEPT !.hash = Stale]}
      BY <1>1 DEF InvalidateDocuments
    <3> QED
      BY <3>1, <3>2 DEF Row
  <2>2. CASE documents[live][d] = NoRow
    BY <1>1, <2>2 DEF InvalidateDocuments
  <2> QED
    BY <2>1, <2>2
<1> QED
  BY <1>1, <1>2, Silent DEF IInv, TypeInv

\* A sweep spares the generation that is served.
LEMMA SweptImplements ==
  ASSUME IInv, NEW remaining, documents' = Swept(documents, live, remaining),
         UNCHANGED <<live, changes, baseline>>
  PROVE  UNCHANGED Abstract!vars
<1>1. live \in Generations
  BY BoundsAssumption DEF IInv, TypeInv, TypeOK, Generations
<1> QED
  BY <1>1, Silent DEF Swept, IInv, TypeInv

LEMMA SameImplements ==
  ASSUME IInv, UNCHANGED <<documents, live, changes, baseline>>
  PROVE  UNCHANGED Abstract!vars
BY Silent DEF IInv, TypeInv

LEMMA LookImplements ==
  ASSUME IInv, NEW inside, Look(inside)
  PROVE  Abstract!Look
BY DEF Look, Abstract!Look, Served, Abstract!Aged, Aged

-----------------------------------------------------------------------------
Reliable == ~SweepFails /\ TRUE \notin Looks

LEMMA StepKeeps == ASSUME Reliable PROVE IInv /\ [Next]_vars => IInv'
<1> SUFFICES ASSUME IInv, [Next]_vars PROVE IInv'
  OBVIOUS
<1>1. TypeInv'
  BY StepType DEF IInv
<1>2. CASE Run
  BY <1>1, <1>2, RunStored DEF Reliable, IInv
<1>3. CASE World
  BY <1>1, <1>3, WorldStored DEF Reliable, IInv
<1>4. CASE \E s \in Sources : Source(s)
  BY <1>1, <1>4, SourceStored DEF IInv
<1>5. CASE UNCHANGED vars
  BY <1>1, <1>5 DEF vars, since, IInv, StoredInv, Accounted, Reading
<1> QED
  BY <1>2, <1>3, <1>4, <1>5 DEF Next

LEMMA StepImplements == IInv /\ TypeOK' /\ [Next]_vars => [Abstract!Next]_(Abstract!vars)
<1> SUFFICES ASSUME IInv, TypeOK', [Next]_vars
             PROVE  Abstract!Publish \/ Abstract!Look \/ UNCHANGED Abstract!vars
  BY DEF Abstract!Next
<1>1. ASSUME NEW force, NEW remaining, BeginRun(force, remaining)
      PROVE  UNCHANGED Abstract!vars
  BY <1>1, SweptImplements DEF BeginRun
<1>2. ASSUME NEW protected, NEW failed, SyncSources(protected, failed)
      PROVE  UNCHANGED Abstract!vars
  BY <1>2, SameImplements DEF SyncSources
<1>3. ASSUME NEW f, IndexFile(f)
      PROVE  UNCHANGED Abstract!vars
  BY <1>3, SameImplements DEF IndexFile, RefuseFile, ReadFile
<1>4. ASSUME NEW d, IndexDocument(d)
      PROVE  Abstract!Publish \/ UNCHANGED Abstract!vars
  <2>1. CASE KeepDocument(d)
    BY <2>1, SameImplements DEF KeepDocument
  <2>2. CASE DropEmpty(d)
    BY <2>2, SameImplements, RemoveImplements DEF DropEmpty, Advance, Indexing
  <2>3. CASE WriteDocument(d)
    BY <2>3, WriteDocumentImplements
  <2> QED
    BY <1>4, <2>1, <2>2, <2>3 DEF IndexDocument
<1>5. CASE RenderFails
  BY <1>5, SameImplements DEF RenderFails
<1>6. CASE RemoveVanished
  BY <1>6, RemoveImplements DEF RemoveVanished, Between, Indexing
<1>7. CASE Finish
  BY <1>7, FinishImplements
<1>8. ASSUME NEW quota, FailRun(quota)
      PROVE  UNCHANGED Abstract!vars
  BY <1>8, SameImplements DEF FailRun
<1>9. ASSUME NEW remaining, SweepAfter(remaining)
      PROVE  UNCHANGED Abstract!vars
  BY <1>9, SweptImplements DEF SweepAfter
<1>10. ASSUME NEW s, Source(s)
       PROVE  Abstract!Publish \/ UNCHANGED Abstract!vars
  BY <1>10, DeleteSourceImplements, InvalidateImplements, SameImplements
     DEF Source, EditSettings, since
<1>11. ASSUME NEW f, NEW content, EditFile(f, content)
       PROVE  UNCHANGED Abstract!vars
  BY <1>11, SameImplements DEF EditFile, since
<1>12. ASSUME NEW newModel, NEW remaining, Restart(newModel, remaining)
       PROVE  UNCHANGED Abstract!vars
  BY <1>12, SweptImplements DEF Restart
<1>13. ASSUME NEW inside, Look(inside)
       PROVE  Abstract!Look
  BY <1>13, LookImplements
<1>14. CASE UNCHANGED vars
  BY <1>14, SameImplements DEF vars, since
<1>15. CASE Run
  BY <1>1, <1>2, <1>3, <1>4, <1>5, <1>6, <1>7, <1>8, <1>9, <1>15 DEF Run
<1>16. CASE World
  BY <1>11, <1>12, <1>13, <1>16 DEF World
<1> QED
  BY <1>10, <1>14, <1>15, <1>16 DEF Next

\* The runs of the indexer, deletions, restarts and sweeps implement the index
\* that clients are promised: what is served changes in whole steps, each of
\* which records what it changed (indexProject, document-changes.ts).
THEOREM Implements == ASSUME Reliable PROVE Spec => ImplementsServedIndex
<1>1. Init => IInv
  BY InitType, InitStored DEF IInv
<1>2. Init => Abstract!Init
  <2>1. Init => live = 1 /\ 1 \in Generations
    BY BoundsAssumption DEF Init, Generations
  <2>2. Init => Served = [d \in Docs |-> NoText]
    BY <2>1 DEF Init, Served, NoDocuments, NoRow
  <2>3. Init => changes = [d \in Docs |-> Abstract!NoChange] /\ baseline = [d \in Docs |-> NoText]
    BY DEF Init, NoChange, Abstract!NoChange
  <2> QED
    BY <2>2, <2>3 DEF Abstract!Init
<1>3. IInv => TypeOK
  BY DEF IInv, TypeInv
<1>4. IInv /\ [Next]_vars => IInv'
  BY StepKeeps
<1>5. Spec => []IInv
  BY <1>1, <1>4, PTL DEF Spec
<1>6. Spec => [][Abstract!Next]_(Abstract!vars)
  BY <1>3, <1>5, StepImplements, PTL DEF Spec
<1>7. Spec => Abstract!Spec
  BY <1>2, <1>6, PTL DEF Spec, Abstract!Spec
<1> QED
  BY <1>7 DEF ImplementsServedIndex

\* And so what whats_new answers about them is true (listDocumentChanges).
THEOREM AnswersAreTrue == ASSUME Reliable PROVE Spec => []WhatsNewIsTrue
<1>1. Spec => Abstract!Spec
  BY Implements DEF ImplementsServedIndex
<1>2. Abstract!Spec => []Abstract!WhatsNewIsTrue
  BY TextsAssumption, Abstract!AnswersAreTrue
<1> QED
  BY <1>1, <1>2, PTL DEF WhatsNewIsTrue
-----------------------------------------------------------------------------
(***************************************************************************)
(* What a run does to the documents, whatever fails:                       *)
(*                                                                         *)
(*   RenderedInv  a row says what its file said, under the hash it has     *)
(*   FilesInv     a file waits, is in hand, was read or was refused        *)
(*   ProgressInv  a document the run has not come to is as it was read     *)
(*                from the database, one it is through with is as its      *)
(*                file said or about to be removed                         *)
(*                                                                         *)
(* What its rows say of their settings (SettingsInv) and of their model    *)
(* (ModelInv) does not depend on these.                                    *)
(***************************************************************************)

\* A row whose hash was not reset holds what its file says under that hash.
Rendered(d, row) ==
  row.hash \in Contents =>
    /\ d \in DOMAIN Rendering[FileOf[d]][row.hash]
    /\ row.text = Rendering[FileOf[d]][row.hash][d] /\ row.text # Empty

RenderedInv == \A g \in Generations, d \in Docs : Rendered(d, documents[g][d])

\* What the fields of a run have to do with one another while it indexes.
FilesInv ==
  /\ run.stage = "sync" => /\ run.seen = {} /\ run.refused = {}
                           /\ \A f \in Files : run.read[f] = None
  /\ Indexing =>
       /\ \A f \in run.todo : run.read[f] = None /\ f \notin run.refused
       /\ \A f \in run.todo : SourceOf[f] \notin run.protected
       /\ run.file # None => SourceOf[run.file] \notin run.protected /\ run.file \notin run.refused
       /\ \A f \in run.refused : Claimed(f) \subseteq run.seen

Inside == run.stage \in {"sync", "index", "finalize"}
Written == documents[Generation]
Says(d) == Produced(FileOf[d])[d]

\* The run has not touched d yet.
Untouched(d) == Written[d].hash = run.existing[d] /\ d \notin run.seen

\* The run is through with d: it says what its file said, or it is gone, or
\* it is about to go.
Settled(d) ==
  IF Says(d) # NoText THEN Written[d].text = Says(d) /\ d \in run.seen
  ELSE Written[d] = NoRow \/ (run.existing[d] # None /\ d \notin run.seen)

ToCome(d) == run.read[FileOf[d]] = None \/ d \in run.left

ProgressInv ==
  /\ Indexing => \A d \in Docs : FileOf[d] \notin run.refused =>
       IF ToCome(d) THEN Untouched(d) ELSE Settled(d)
  /\ run.stage = "finalize" => \A d \in Docs :
       FileOf[d] \notin run.refused /\ SourceOfDoc(d) \notin run.protected => Written[d].text = Says(d)

ReadInv == TypeInv /\ RenderedInv /\ FilesInv /\ ProgressInv

NewRow(d) ==
  [hash |-> run.read[run.file], text |-> Rendering[run.file][run.read[run.file]][d],
   settings |-> run.known[SourceOf[run.file]], model |-> model]

\* Why a row may go.
Vanished(d) == RemoveVanished /\ run.existing[d] # None /\ d \notin run.seen
                 /\ SourceOfDoc(d) \notin run.protected
MayGo(g, d) == g # live \/ DropEmpty(d) \/ Vanished(d) \/ run.stage = "none"

RowStays(g, d) == documents'[g][d] = documents[g][d]
RowGoes(g, d) == documents'[g][d] = NoRow /\ MayGo(g, d)
RowIsReset(g, d) == /\ run.stage = "none" /\ documents[g][d] # NoRow
                    /\ documents'[g][d] = [documents[g][d] EXCEPT !.hash = Stale]
RowIsWritten(g, d) == WriteDocument(d) /\ g = Generation /\ documents'[g][d] = NewRow(d)

\* What a step does to one row.
LEMMA SweptRow ==
  ASSUME NEW remaining, documents' = Swept(documents, live, remaining),
         NEW g \in Generations, NEW d \in Docs
  PROVE  RowStays(g, d) \/ RowGoes(g, d)
BY DEF Swept, RowStays, RowGoes, MayGo

LEMMA RemovedRow ==
  ASSUME TypeInv, NEW gone, RemoveDocuments(gone), run.stage = "index",
         NEW g \in Generations, NEW d \in Docs
  PROVE  documents'[g][d] = (IF g = Generation /\ d \in gone THEN NoRow ELSE documents[g][d])
<1>1. Generation \in Generations /\ documents \in [Generations -> [Docs -> Row \cup {NoRow}]]
  BY GenerationType DEF TypeInv, TypeOK
<1>2. documents' = [documents EXCEPT ![Generation] = [e \in Docs |-> IF e \in gone THEN NoRow ELSE @[e]]]
  BY DEF RemoveDocuments
<1> QED
  BY <1>1, <1>2

LEMMA WrittenDocument ==
  ASSUME TypeInv, NEW d, WriteDocument(d), NEW g \in Generations, NEW e \in Docs
  PROVE  documents'[g][e] = (IF g = Generation /\ e = d THEN NewRow(d) ELSE documents[g][e])
<1>1. Generation \in Generations /\ documents \in [Generations -> [Docs -> Row \cup {NoRow}]]
  BY GenerationType DEF TypeInv, TypeOK, WriteDocument, Advance, Indexing
<1>2. documents' = [documents EXCEPT ![Generation][d] = NewRow(d)] /\ d \in Docs
  BY InHand DEF WriteDocument, NewRow
<1> QED
  BY <1>1, <1>2

LEMMA RunRow ==
  ASSUME TypeInv, Run, NEW g \in Generations, NEW d \in Docs
  PROVE  RowStays(g, d) \/ RowGoes(g, d) \/ RowIsWritten(g, d)
<1>1. CASE \E force \in BOOLEAN, remaining \in Remaining : BeginRun(force, remaining)
  BY <1>1, SweptRow DEF BeginRun
<1>2. CASE \E remaining \in Remaining : SweepAfter(remaining)
  BY <1>2, SweptRow DEF SweepAfter
<1>3. ASSUME NEW e \in Docs, DropEmpty(e)
      PROVE  RowStays(g, d) \/ RowGoes(g, d)
  <2>1. run.stage = "index"
    BY <1>3 DEF DropEmpty, Advance, Indexing
  <2>2. CASE RemoveDocuments({e})
    BY <1>3, <2>1, <2>2, RemovedRow DEF RowStays, RowGoes, MayGo
  <2>3. CASE UNCHANGED documents
    BY <2>3 DEF RowStays
  <2> QED
    BY <1>3, <2>2, <2>3 DEF DropEmpty
<1>4. CASE RemoveVanished
  <2>1. run.stage = "index"
    BY <1>4 DEF RemoveVanished, Between, Indexing
  <2> QED
    BY <1>4, <2>1, RemovedRow DEF RemoveVanished, RowStays, RowGoes, MayGo, Vanished
<1>5. ASSUME NEW e \in Docs, WriteDocument(e)
      PROVE  RowStays(g, d) \/ RowIsWritten(g, d)
  BY <1>5, WrittenDocument DEF RowStays, RowIsWritten
<1>6. CASE UNCHANGED documents
  BY <1>6 DEF RowStays
<1> QED
  BY <1>1, <1>2, <1>3, <1>4, <1>5, <1>6
     DEF Run, IndexFile, IndexDocument, SyncSources, RefuseFile, ReadFile, KeepDocument, RenderFails,
         Finish, FailRun

LEMMA RowStep ==
  ASSUME TypeInv, [Next]_vars, NEW g \in Generations, NEW d \in Docs
  PROVE  RowStays(g, d) \/ RowGoes(g, d) \/ RowIsReset(g, d) \/ RowIsWritten(g, d)
<1>1. CASE Run
  BY <1>1, RunRow
<1>2. CASE World
  <2>1. CASE \E newModel \in Models, remaining \in Remaining : Restart(newModel, remaining)
    BY <2>1, SweptRow DEF Restart
  <2>2. CASE UNCHANGED documents
    BY <2>2 DEF RowStays
  <2> QED
    BY <1>2, <2>1, <2>2 DEF World, EditFile, Look
<1>3. ASSUME NEW s \in Sources, Source(s)
      PROVE  RowStays(g, d) \/ RowGoes(g, d) \/ RowIsReset(g, d)
  BY <1>3 DEF Source, DeleteSource, InvalidateDocuments, EditSettings, RowStays, RowGoes, RowIsReset, MayGo
<1>4. CASE UNCHANGED vars
  BY <1>4 DEF vars, RowStays
<1> QED
  BY <1>1, <1>2, <1>3, <1>4 DEF Next

LEMMA RenderedStep == TypeInv /\ RenderedInv /\ [Next]_vars => RenderedInv'
<1> SUFFICES ASSUME TypeInv, RenderedInv, [Next]_vars, NEW g \in Generations, NEW d \in Docs
             PROVE  Rendered(d, documents'[g][d])
  BY DEF RenderedInv
<1>1. CASE RowStays(g, d)
  BY <1>1 DEF RowStays, RenderedInv
<1>2. CASE RowGoes(g, d)
  BY <1>2, ContentsAssumption DEF RowGoes, Rendered, NoRow
<1>3. CASE RowIsReset(g, d)
  <2>1. documents[g][d] \in Row
    BY <1>3 DEF RowIsReset, TypeInv, TypeOK
  <2>2. documents'[g][d].hash = Stale
    BY <1>3, <2>1 DEF RowIsReset, Row
  <2> QED
    BY <2>2, ContentsAssumption DEF Rendered
<1>4. CASE RowIsWritten(g, d)
  <2>1. Advance(d) /\ Rendering[run.file][run.read[run.file]][d] # Empty
    BY <1>4 DEF RowIsWritten, WriteDocument
  <2>2. /\ documents'[g][d].hash = run.read[run.file]
        /\ documents'[g][d].text = Rendering[run.file][run.read[run.file]][d]
    BY <1>4 DEF RowIsWritten, NewRow
  <2> QED
    BY <2>1, <2>2, InHand DEF Rendered
<1> QED
  BY <1>1, <1>2, <1>3, <1>4, RowStep

LEMMA InitRendered == Init => RenderedInv
BY ContentsAssumption DEF Init, RenderedInv, Rendered, NoDocuments, NoRow

\* The fields of a run after each of its steps.
SameRun == /\ run'.rebuild = run.rebuild /\ run'.existing = run.existing
           /\ run'.protected = run.protected /\ live' = live

LEMMA RefuseFileEffect ==
  ASSUME TypeInv, NEW f \in Files, RefuseFile(f)
  PROVE  /\ Between /\ f \in run.todo /\ SameRun /\ run'.stage = "index"
         /\ run'.todo = run.todo \ {f} /\ run'.refused = run.refused \cup {f}
         /\ run'.seen = run.seen \cup Claimed(f)
         /\ run'.read = run.read /\ run'.file = run.file /\ run'.left = run.left
         /\ documents' = documents
BY DEF RefuseFile, SameRun, Between, Indexing, TypeInv, TypeOK, Local

LEMMA ReadFileEffect ==
  ASSUME TypeInv, NEW f \in Files, ReadFile(f)
  PROVE  /\ Between /\ f \in run.todo /\ SameRun /\ run'.stage = "index"
         /\ run'.todo = run.todo \ {f} /\ run'.refused = run.refused
         /\ run'.read[f] \in Contents /\ \A e \in Files \ {f} : run'.read[e] = run.read[e]
         /\ run'.file \in {None, f}
         /\ \/ /\ f \notin Specs /\ \A d \in DocsOf(f) : IsCurrent(d, run'.read[f])
               /\ run'.left = {} /\ run'.seen = run.seen \cup DocsOf(f)
            \/ run'.left = DOMAIN Rendering[f][run'.read[f]] /\ run'.seen = run.seen
         /\ documents' = documents
<1> DEFINE content == disk[f]
           skipped == f \notin Specs /\ \A d \in DocsOf(f) : IsCurrent(d, content)
           left == IF skipped THEN {} ELSE DOMAIN Rendering[f][content]
           seen == IF skipped THEN run.seen \cup DocsOf(f) ELSE run.seen
           file == IF left = {} THEN None ELSE f
<1>1. run' = [run EXCEPT !.todo = @ \ {f}, !.read[f] = content, !.file = file, !.left = left, !.seen = seen]
  BY DEF ReadFile, TypeInv, TypeOK, Local
<1>2. content \in Contents /\ file \in {None, f}
  BY DEF ReadFile, TypeInv, TypeOK
<1>3. \/ skipped /\ left = {} /\ seen = run.seen \cup DocsOf(f)
      \/ left = DOMAIN Rendering[f][content] /\ seen = run.seen
  OBVIOUS
<1>4. Between /\ f \in run.todo /\ UNCHANGED <<documents, live>>
  BY DEF ReadFile
<1> HIDE DEF content, left, seen, file
<1>5. /\ run'.rebuild = run.rebuild /\ run'.existing = run.existing /\ run'.protected = run.protected
      /\ run'.stage = run.stage /\ run'.todo = run.todo \ {f} /\ run'.refused = run.refused
      /\ run'.read = [run.read EXCEPT ![f] = content] /\ run'.file = file /\ run'.left = left /\ run'.seen = seen
      /\ run.read \in [Files -> Contents \cup {None}]
  BY <1>1 DEF TypeInv, TypeOK, Local
<1>6. run'.read[f] = content /\ \A e \in Files \ {f} : run'.read[e] = run.read[e]
  BY <1>5
<1> QED
  BY <1>2, <1>3, <1>4, <1>5, <1>6 DEF SameRun, Between, Indexing

LEMMA DoneEffect ==
  ASSUME TypeInv, NEW d, Advance(d), NEW seen, run' = [Done(d) EXCEPT !.seen = seen], live' = live
  PROVE  /\ SameRun /\ run'.stage = "index" /\ run'.todo = run.todo /\ run'.refused = run.refused
         /\ run'.read = run.read /\ run'.file \in {None, run.file} /\ run'.left = run.left \ {d}
         /\ run'.seen = seen
BY DEF Done, Advance, Indexing, SameRun, TypeInv, TypeOK, Local

LEMMA IndexDocumentEffect ==
  ASSUME TypeInv, NEW d \in Docs, IndexDocument(d)
  PROVE  /\ Advance(d) /\ SameRun /\ run'.stage = "index" /\ run'.todo = run.todo /\ run'.refused = run.refused
         /\ run'.read = run.read /\ run'.file \in {None, run.file} /\ run'.left = run.left \ {d}
         /\ run'.seen = IF DropEmpty(d) THEN run.seen ELSE run.seen \cup {d}
<1>1. CASE DropEmpty(d)
  <2>1. run' = [Done(d) EXCEPT !.seen = run.seen] /\ Advance(d) /\ live' = live
    BY <1>1 DEF DropEmpty, Done, TypeInv, TypeOK, Local
  <2> QED
    BY <1>1, <2>1, DoneEffect
<1>2. CASE KeepDocument(d) \/ WriteDocument(d)
  <2>1. run' = [Done(d) EXCEPT !.seen = run.seen \cup {d}] /\ Advance(d) /\ live' = live
    BY <1>2 DEF KeepDocument, WriteDocument, Done, TypeInv, TypeOK, Local
  <2>2. ~DropEmpty(d)
    BY <1>2 DEF KeepDocument, WriteDocument, DropEmpty
  <2> QED
    BY <2>1, <2>2, DoneEffect
<1> QED
  BY <1>1, <1>2 DEF IndexDocument

LEMMA RenderFailsEffect ==
  ASSUME TypeInv, RenderFails
  PROVE  /\ Indexing /\ run.file \in Files /\ SameRun /\ run'.stage = "index"
         /\ run'.todo = run.todo /\ run'.refused = run.refused \cup {run.file}
         /\ run'.seen = run.seen \cup Claimed(run.file)
         /\ run'.read = run.read /\ run'.file = None /\ run'.left = {}
         /\ documents' = documents
BY DEF RenderFails, SameRun, Indexing, TypeInv, TypeOK, Local

LEMMA SyncSourcesEffect ==
  ASSUME TypeInv, NEW protected, NEW failed, SyncSources(protected, failed)
  PROVE  /\ run.stage = "sync" /\ run'.stage = "index"
         /\ run'.rebuild = run.rebuild /\ live' = live /\ documents' = documents
         /\ \A d \in Docs : run'.existing[d] = Written[d].hash
         /\ \A f \in run'.todo : SourceOf[f] \notin run'.protected
         /\ run'.todo \subseteq Files
         /\ run'.seen = run.seen /\ run'.refused = run.refused /\ run'.read = run.read
         /\ run'.file = run.file /\ run'.left = run.left
<1> DEFINE offered == {f \in Files : SourceOf[f] \in sources \ protected /\ disk[f] # Gone}
           known == [s \in Sources |-> settings[s]]
           existing == [d \in Docs |-> documents[Generation][d].hash]
           complaint == protected \cup failed # {}
<1>1. /\ run' = [run EXCEPT !.stage = "index", !.known = known, !.complaint = complaint,
                  !.protected = protected, !.offered = offered, !.todo = offered, !.existing = existing]
      /\ run.stage = "sync" /\ UNCHANGED <<live, documents>>
  BY DEF SyncSources
<1>2. \A d \in Docs : existing[d] = Written[d].hash
  BY DEF Written
<1>3. offered \subseteq Files /\ \A f \in offered : SourceOf[f] \notin protected
  OBVIOUS
<1> HIDE DEF offered, known, existing, complaint
<1> QED
  BY <1>1, <1>2, <1>3 DEF TypeInv, TypeOK, Local

LEMMA RemoveVanishedEffect ==
  ASSUME TypeInv, RemoveVanished
  PROVE  /\ Between /\ run.todo = {} /\ SameRun /\ run'.stage = "finalize"
         /\ run'.seen = run.seen /\ run'.refused = run.refused /\ run'.read = run.read
         /\ run'.left = run.left
         /\ \A d \in Docs : documents'[Generation][d] =
              IF run.existing[d] # None /\ d \notin run.seen /\ SourceOfDoc(d) \notin run.protected
              THEN NoRow ELSE Written[d]
<1>1. run.stage = "index" /\ Generation \in Generations
  BY GenerationType DEF RemoveVanished, Between, Indexing
<1>2. \A d \in Docs : documents'[Generation][d] =
              IF run.existing[d] # None /\ d \notin run.seen /\ SourceOfDoc(d) \notin run.protected
              THEN NoRow ELSE Written[d]
  BY <1>1, RemovedRow DEF RemoveVanished, Written
<1> QED
  BY <1>2 DEF RemoveVanished, SameRun, TypeInv, TypeOK, Local

\* The steps that neither the run nor what it works on takes part in; or the run is over, or begins.
LEMMA OtherSteps ==
  ASSUME TypeInv, [Next]_vars,
         ~\E protected, failed \in SUBSET sources : SyncSources(protected, failed),
         ~\E f \in Files : IndexFile(f), ~\E d \in Docs : IndexDocument(d), ~RenderFails, ~RemoveVanished
  PROVE  \/ run' = run /\ live' = live /\ (run.stage = "none" \/ documents' = documents)
         \/ run'.stage = "sync" /\ run'.seen = {} /\ run'.refused = {} /\ \A f \in Files : run'.read[f] = None
         \/ run'.stage \in {"none", "sweep"}
<1>1. CASE Run
  <2>1. ASSUME NEW force \in BOOLEAN, NEW remaining, BeginRun(force, remaining)
        PROVE  run'.stage = "sync" /\ run'.seen = {} /\ run'.refused = {} /\ \A f \in Files : run'.read[f] = None
    BY <2>1 DEF BeginRun, Idle
  <2>2. ASSUME Finish \/ (\E quota \in BOOLEAN : FailRun(quota)) \/ (\E remaining \in Remaining : SweepAfter(remaining))
        PROVE  run'.stage \in {"none", "sweep"}
    <3>1. run' = Over \/ run' = Idle
      BY <2>2 DEF Finish, FailRun, SweepAfter
    <3> QED
      BY <3>1 DEF Over, Idle
  <2> QED
    BY <1>1, <2>1, <2>2 DEF Run
<1>2. CASE World
  BY <1>2 DEF World, EditFile, Restart, Look, Idle
<1>3. CASE \E s \in Sources : Source(s)
  BY <1>3 DEF Source, DeleteSource, InvalidateDocuments, EditSettings
<1>4. CASE UNCHANGED vars
  BY <1>4 DEF vars
<1> QED
  BY <1>1, <1>2, <1>3, <1>4 DEF Next

LEMMA FilesStep == TypeInv /\ FilesInv /\ [Next]_vars => FilesInv'
<1> SUFFICES ASSUME TypeInv, FilesInv, [Next]_vars PROVE FilesInv'
  OBVIOUS
<1>0. run.todo \subseteq Files /\ run.refused \subseteq Files
  BY DEF TypeInv, TypeOK, Local
<1>1. CASE \E protected, failed \in SUBSET sources : SyncSources(protected, failed)
  <2>1. run.file = None
    BY <1>1 DEF SyncSources, TypeInv, RunInv
  <2> QED
    BY <1>1, <2>1, SyncSourcesEffect DEF FilesInv, Indexing, Claimed
<1>2. ASSUME NEW f \in Files, RefuseFile(f)
      PROVE  FilesInv'
  <2>1. \A e : Claimed(e)' = Claimed(e)
    BY <1>2, RefuseFileEffect DEF Claimed, SameRun
  <2> QED
    BY <1>0, <1>2, <2>1, RefuseFileEffect DEF FilesInv, Indexing, Between, SameRun
<1>3. ASSUME NEW f \in Files, ReadFile(f)
      PROVE  FilesInv'
  <2>1. \A e : Claimed(e)' = Claimed(e)
    BY <1>3, ReadFileEffect DEF Claimed, SameRun
  <2>2. run.seen \subseteq run'.seen /\ f \notin run.refused /\ SourceOf[f] \notin run.protected
    BY <1>3, ReadFileEffect DEF FilesInv, Between
  <2> QED
    BY <1>0, <1>3, <2>1, <2>2, ReadFileEffect DEF FilesInv, Indexing, Between, SameRun
<1>4. ASSUME NEW d \in Docs, IndexDocument(d)
      PROVE  FilesInv'
  <2>1. \A e : Claimed(e)' = Claimed(e)
    BY <1>4, IndexDocumentEffect DEF Claimed, SameRun
  <2>2. run.seen \subseteq run'.seen
    BY <1>4, IndexDocumentEffect
  <2> QED
    BY <1>4, <2>1, <2>2, IndexDocumentEffect DEF FilesInv, Indexing, Advance, SameRun
<1>5. CASE RenderFails
  <2>1. \A e : Claimed(e)' = Claimed(e)
    BY <1>5, RenderFailsEffect DEF Claimed, SameRun
  <2>2. run.file \notin run.todo
    BY <1>5, RenderFailsEffect, FilesAssumption, ContentsAssumption DEF FilesInv, TypeInv, RunInv
  <2> QED
    BY <1>5, <2>1, <2>2, RenderFailsEffect DEF FilesInv, Indexing, SameRun
<1>6. CASE RemoveVanished
  BY <1>6, RemoveVanishedEffect DEF FilesInv, Indexing
<1> QED
  <2>1. CASE run' = run
    BY <2>1 DEF FilesInv, Indexing, Claimed
  <2>2. CASE run'.stage = "sync" /\ run'.seen = {} /\ run'.refused = {} /\ \A f \in Files : run'.read[f] = None
    BY <2>2 DEF FilesInv, Indexing
  <2>3. CASE run'.stage \in {"none", "sweep"}
    BY <2>3 DEF FilesInv, Indexing
  <2> QED
    BY <1>1, <1>2, <1>3, <1>4, <1>5, <1>6, <2>1, <2>2, <2>3, OtherSteps DEF IndexFile

-----------------------------------------------------------------------------
(* A run makes its way through the documents of its files.                 *)

LEMMA OneFile ==
  ASSUME TypeInv
  PROVE  /\ \A d \in Docs : FileOf[d] \in Files /\ d \in DocsOf(FileOf[d])
         /\ \A d \in run.left : d \in Docs /\ FileOf[d] = run.file
         /\ \A f \in Files : \A d \in DocsOf(f) : d \in Docs /\ FileOf[d] = f
         /\ run.file = None => run.left = {}
BY FileOfAssumption, FilesAssumption, RenderingAssumption DEF DocsOf, TypeInv, RunInv

\* What the file of d said is told by the content it was read with.
LEMMA SaysWhat ==
  ASSUME NEW d \in Docs
  PROVE  /\ run.read[FileOf[d]] = None => Says(d) = NoText
         /\ run.read[FileOf[d]] \in Contents =>
              LET rendered == Rendering[FileOf[d]][run.read[FileOf[d]]]
              IN IF d \in DOMAIN rendered /\ rendered[d] # Empty
                 THEN Says(d) = rendered[d] /\ Says(d) # NoText ELSE Says(d) = NoText
<1>1. d \in DocsOf(FileOf[d]) /\ FileOf[d] \in Files
  BY FileOfAssumption DEF DocsOf
<1>2. Says(d) = LET rendered == Rendering[FileOf[d]][run.read[FileOf[d]]]
                IN IF run.read[FileOf[d]] # None /\ d \in DOMAIN rendered /\ rendered[d] # Empty
                   THEN rendered[d] ELSE NoText
  BY <1>1 DEF Says, Produced
<1>3. run.read[FileOf[d]] \in Contents =>
        /\ run.read[FileOf[d]] # None
        /\ d \in DOMAIN Rendering[FileOf[d]][run.read[FileOf[d]]] =>
             Rendering[FileOf[d]][run.read[FileOf[d]]][d] # NoText
  BY <1>1, ContentsAssumption, RenderingAssumption, TextsAssumption
<1> QED
  BY <1>2, <1>3

LEMMA SaysSame ==
  ASSUME NEW d \in Docs, run'.read[FileOf[d]] = run.read[FileOf[d]]
  PROVE  Says(d)' = Says(d)
<1>1. d \in DocsOf(FileOf[d])
  BY DEF DocsOf
<1> QED
  BY <1>1 DEF Says, Produced, DocsOf

\* A row without a hash is no row.
LEMMA NoHash ==
  ASSUME TypeInv, Inside, NEW d \in Docs
  PROVE  /\ Written[d] \in Row \cup {NoRow} /\ Generation \in Generations
         /\ Written[d].hash = None <=> Written[d] = NoRow
         /\ NoRow.text = NoText
<1>1. Generation \in Generations
  BY GenerationType DEF Inside
<1>2. Written[d] \in Row \cup {NoRow}
  BY <1>1 DEF Written, TypeInv, TypeOK
<1> QED
  BY <1>1, <1>2, ContentsAssumption, RowTypes DEF Row, NoRow

\* A document that has been left alone.
LEMMA AloneStays ==
  ASSUME NEW d \in Docs, SameRun, documents'[Generation][d] = Written[d],
         run'.read[FileOf[d]] = run.read[FileOf[d]],
         d \in run'.seen <=> d \in run.seen, d \in run'.left <=> d \in run.left
  PROVE  /\ ToCome(d)' <=> ToCome(d)
         /\ Untouched(d)' <=> Untouched(d)
         /\ Settled(d)' <=> Settled(d)
<1>1. Generation' = Generation /\ Written'[d] = Written[d]
  BY DEF SameRun, Generation, Written
<1>2. Says(d)' = Says(d)
  BY SaysSame
<1> QED
  BY <1>1, <1>2 DEF ToCome, Untouched, Settled, SameRun

LEMMA SyncSourcesProgress ==
  ASSUME ReadInv, NEW protected, NEW failed, SyncSources(protected, failed)
  PROVE  ProgressInv'
<1>1. ASSUME NEW d \in Docs
      PROVE  ToCome(d)' /\ Untouched(d)'
  <2>1. run.left = {} /\ run.seen = {} /\ run.read[FileOf[d]] = None
    BY SyncSourcesEffect, OneFile DEF ReadInv, TypeInv, RunInv, FilesInv
  <2>2. Generation' = Generation /\ documents' = documents /\ run'.existing[d] = Written[d].hash
    BY SyncSourcesEffect DEF Generation, ReadInv
  <2> QED
    BY <2>1, <2>2, SyncSourcesEffect DEF ToCome, Untouched, Written, ReadInv
<1> QED
  BY <1>1, SyncSourcesEffect DEF ProgressInv, ReadInv

LEMMA RefuseFileProgress ==
  ASSUME ReadInv, NEW f \in Files, RefuseFile(f)
  PROVE  ProgressInv'
<1>0. TypeInv
  BY DEF ReadInv
<1>1. ASSUME NEW d \in Docs, FileOf[d] \notin run'.refused
      PROVE  IF ToCome(d) THEN Untouched(d)' /\ ToCome(d)' ELSE Settled(d)' /\ ~ToCome(d)'
  <2>1. FileOf[d] # f /\ FileOf[d] \notin run.refused /\ d \notin Claimed(f)
    BY <1>0, <1>1, RefuseFileEffect DEF Claimed, DocsOf
  <2>2. documents'[Generation][d] = Written[d] /\ (d \in run'.seen <=> d \in run.seen)
    BY <1>0, <2>1, RefuseFileEffect DEF Written
  <2> QED
    BY <1>0, <2>1, <2>2, AloneStays, RefuseFileEffect DEF ReadInv, ProgressInv, Between
<1> QED
  BY <1>0, <1>1, RefuseFileEffect DEF ProgressInv

\* The hash of its only document answers for a file that is not a specification.
LEMMA ReadFileProgress ==
  ASSUME ReadInv, NEW f \in Files, ReadFile(f)
  PROVE  ProgressInv'
<1>0. TypeInv /\ Between /\ f \in run.todo /\ run.file = None /\ run.left = {} /\ Inside
  BY ReadFileEffect, OneFile DEF ReadInv, Between, Indexing, Inside
<1>1. ASSUME NEW d \in Docs, FileOf[d] \notin run'.refused, FileOf[d] # f
      PROVE  IF ToCome(d)' THEN Untouched(d)' ELSE Settled(d)'
  <2>1. d \notin DocsOf(f) /\ FileOf[d] \in Files /\ FileOf[d] \notin run.refused
    BY <1>0, <1>1, OneFile, ReadFileEffect DEF DocsOf
  <2>2. DOMAIN Rendering[f][run'.read[f]] \subseteq DocsOf(f)
    BY <1>0, ReadFileEffect, RenderingAssumption DEF DocsOf
  <2>3. (d \in run'.seen <=> d \in run.seen) /\ (d \in run'.left <=> d \in run.left)
    BY <1>0, <2>1, <2>2, ReadFileEffect
  <2>4. documents'[Generation][d] = Written[d]
    BY <1>0, ReadFileEffect DEF Written
  <2> QED
    BY <1>0, <1>1, <2>1, <2>3, <2>4, AloneStays, ReadFileEffect DEF ReadInv, ProgressInv, Between
<1>2. ASSUME NEW d \in Docs, FileOf[d] \notin run'.refused, FileOf[d] = f
      PROVE  IF ToCome(d)' THEN Untouched(d)' ELSE Settled(d)'
  <2>1. run.read[f] = None /\ f \notin run.refused /\ d \in DocsOf(f)
    BY <1>0, <1>2 DEF ReadInv, FilesInv, Between, DocsOf
  <2>2. Untouched(d)
    BY <1>0, <1>2, <2>1 DEF ReadInv, ProgressInv, ToCome, Between
  <2>3. Generation' = Generation /\ Written'[d] = Written[d] /\ run'.existing = run.existing
    BY <1>0, ReadFileEffect DEF SameRun, Generation, Written
  <2> DEFINE content == run'.read[f]
             rendered == Rendering[f][content]
  <2>4. content \in Contents /\ content # None
    BY <1>0, ReadFileEffect, ContentsAssumption
  <2>5. IF d \in DOMAIN rendered /\ rendered[d] # Empty
        THEN Says(d)' = rendered[d] /\ Says(d)' # NoText ELSE Says(d)' = NoText
    <3>1. (run.read[FileOf[d]] \in Contents =>
              LET r == Rendering[FileOf[d]][run.read[FileOf[d]]]
              IN IF d \in DOMAIN r /\ r[d] # Empty
                 THEN Says(d) = r[d] /\ Says(d) # NoText ELSE Says(d) = NoText)'
      BY SaysWhat, PTL
    <3> QED
      BY <1>2, <2>4, <3>1
  <2>6. CASE (\A e \in DocsOf(f) : IsCurrent(e, content)) /\ run'.left = {} /\ run'.seen = run.seen \cup DocsOf(f)
    <3>1. Written[d].hash = content
      BY <2>1, <2>2, <2>6 DEF IsCurrent, Untouched
    <3>2. d \in DOMAIN rendered /\ Written[d].text = rendered[d] /\ rendered[d] # Empty
      BY <1>0, <1>2, <2>4, <3>1, NoHash DEF ReadInv, RenderedInv, Rendered, Written
    <3> QED
      BY <1>2, <2>1, <2>3, <2>4, <2>5, <2>6, <3>2 DEF Settled, ToCome
  <2>7. CASE run'.left = DOMAIN rendered /\ run'.seen = run.seen
    <3>1. CASE d \in DOMAIN rendered
      BY <2>2, <2>3, <2>7, <3>1 DEF ToCome, Untouched
    <3>2. CASE d \notin DOMAIN rendered
      <4>1. run.existing[d] # None \/ Written[d] = NoRow
        BY <1>0, <2>2, NoHash DEF Untouched
      <4> QED
        BY <1>2, <2>2, <2>3, <2>4, <2>5, <2>7, <3>2, <4>1 DEF ToCome, Settled, Untouched
    <3> QED
      BY <3>1, <3>2
  <2> QED
    BY <1>0, <2>6, <2>7, ReadFileEffect
<1> QED
  BY <1>0, <1>1, <1>2, ReadFileEffect DEF ProgressInv

LEMMA IndexDocumentProgress ==
  ASSUME ReadInv, NEW d \in Docs, IndexDocument(d)
  PROVE  ProgressInv'
<1>0. /\ TypeInv /\ Advance(d) /\ run.stage = "index" /\ Inside
      /\ run.file \in Files /\ run.file \notin run.refused /\ SameRun /\ Generation \in Generations
      /\ FileOf[d] = run.file /\ run.file # None
  BY IndexDocumentEffect, InHand, FilesAssumption, GenerationType
     DEF ReadInv, FilesInv, Advance, Indexing, Inside
<1> DEFINE content == run.read[run.file]
           rendered == Rendering[run.file][content]
<1>1. content \in Contents /\ content # None /\ d \in DOMAIN rendered /\ d \in run.left
  BY <1>0, InHand, ContentsAssumption DEF Advance
<1>2. \A e \in Docs \ {d} : documents'[Generation][e] = Written[e]
  BY <1>0, RemovedRow, WrittenDocument
     DEF IndexDocument, KeepDocument, DropEmpty, Written
<1>3. ASSUME NEW e \in Docs, e # d, FileOf[e] \notin run'.refused
      PROVE  IF ToCome(e)' THEN Untouched(e)' ELSE Settled(e)'
  <2>1. (e \in run'.seen <=> e \in run.seen) /\ (e \in run'.left <=> e \in run.left)
    BY <1>0, <1>3, IndexDocumentEffect
  <2> QED
    BY <1>0, <1>2, <1>3, <2>1, AloneStays, IndexDocumentEffect DEF ReadInv, ProgressInv, Indexing
<1>4. Settled(d)' /\ ~ToCome(d)'
  <2>1. Untouched(d)
    BY <1>0, <1>1 DEF ReadInv, ProgressInv, ToCome, Indexing
  <2>2. Says(d)' = Says(d) /\ Generation' = Generation
    BY <1>0, SaysSame, IndexDocumentEffect DEF SameRun, Generation
  <2>3. IF rendered[d] # Empty THEN Says(d) = rendered[d] /\ Says(d) # NoText ELSE Says(d) = NoText
    BY <1>0, <1>1, SaysWhat
  <2>4. ~ToCome(d)'
    BY <1>0, <1>1, IndexDocumentEffect DEF ToCome
  <2>5. CASE KeepDocument(d)
    <3>1. documents' = documents /\ d \in run'.seen
      <4>1. ~DropEmpty(d)
        BY <2>5 DEF KeepDocument, DropEmpty
      <4> QED
        BY <1>0, <2>5, <4>1, IndexDocumentEffect DEF KeepDocument
    <3>2. Written[d].hash = content
      BY <2>1, <2>5 DEF KeepDocument, IsCurrent, Untouched
    <3>3. Written[d].text = rendered[d] /\ rendered[d] # Empty
      BY <1>0, <1>1, <3>2 DEF ReadInv, RenderedInv, Rendered, Written
    <3> QED
      BY <2>2, <2>3, <2>4, <3>1, <3>3 DEF Settled, Written
  <2>6. CASE WriteDocument(d)
    <3>1. d \in run'.seen /\ rendered[d] # Empty
      <4>1. ~DropEmpty(d)
        BY <2>6 DEF WriteDocument, DropEmpty
      <4> QED
        BY <1>0, <2>6, <4>1, IndexDocumentEffect DEF WriteDocument
    <3>2. documents'[Generation][d] = NewRow(d)
      BY <1>0, <2>6, WrittenDocument
    <3> QED
      BY <2>2, <2>3, <2>4, <3>1, <3>2 DEF Settled, Written, NewRow
  <2>7. CASE DropEmpty(d)
    <3>1. Says(d) = NoText
      BY <2>3, <2>7 DEF DropEmpty
    <3>2. documents'[Generation][d] = NoRow
      <4>1. CASE run.existing[d] # None
        BY <1>0, <2>7, <4>1, RemovedRow DEF DropEmpty
      <4>2. CASE run.existing[d] = None
        <5>1. Written[d] = NoRow
          BY <1>0, <2>1, <4>2, NoHash DEF Untouched
        <5> QED
          BY <2>7, <4>2, <5>1 DEF DropEmpty, Written
      <4> QED
        BY <4>1, <4>2
    <3> QED
      BY <2>2, <2>4, <3>1, <3>2 DEF Settled, Written
  <2> QED
    BY <2>4, <2>5, <2>6, <2>7 DEF IndexDocument
<1> QED
  BY <1>0, <1>3, <1>4, IndexDocumentEffect DEF ProgressInv

LEMMA RenderFailsProgress ==
  ASSUME ReadInv, RenderFails
  PROVE  ProgressInv'
<1>0. TypeInv
  BY DEF ReadInv
<1>1. ASSUME NEW d \in Docs, FileOf[d] \notin run'.refused
      PROVE  IF ToCome(d)' THEN Untouched(d)' ELSE Settled(d)'
  <2>1. FileOf[d] # run.file /\ FileOf[d] \notin run.refused /\ d \notin Claimed(run.file) /\ d \notin run.left
    BY <1>0, <1>1, RenderFailsEffect, OneFile DEF Claimed, DocsOf
  <2>2. documents'[Generation][d] = Written[d] /\ (d \in run'.seen <=> d \in run.seen)
    BY <1>0, <2>1, RenderFailsEffect DEF Written
  <2> QED
    BY <1>0, <2>1, <2>2, AloneStays, RenderFailsEffect DEF ReadInv, ProgressInv
<1> QED
  BY <1>0, <1>1, RenderFailsEffect DEF ProgressInv

LEMMA RemoveVanishedProgress ==
  ASSUME ReadInv, RemoveVanished
  PROVE  ProgressInv'
<1>0. TypeInv /\ Inside /\ run.left = {} /\ Indexing
  BY RemoveVanishedEffect, OneFile DEF ReadInv, Between, Indexing, Inside
<1>1. ASSUME NEW d \in Docs, FileOf[d] \notin run.refused, SourceOfDoc(d) \notin run.protected
      PROVE  documents'[Generation][d].text = Says(d)
  <2>1. documents'[Generation][d] = IF run.existing[d] # None /\ d \notin run.seen THEN NoRow ELSE Written[d]
    BY <1>0, <1>1, RemoveVanishedEffect
  <2>2. (Written[d].hash = None <=> Written[d] = NoRow) /\ NoRow.text = NoText
    BY <1>0, NoHash
  <2>3. CASE ToCome(d)
    <3>1. Untouched(d) /\ Says(d) = NoText
      BY <1>0, <1>1, <2>3, SaysWhat DEF ReadInv, ProgressInv, ToCome
    <3> QED
      BY <2>1, <2>2, <3>1 DEF Untouched
  <2>4. CASE ~ToCome(d)
    <3>1. Settled(d)
      BY <1>0, <1>1, <2>4 DEF ReadInv, ProgressInv
    <3> QED
      BY <2>1, <2>2, <3>1 DEF Settled
  <2> QED
    BY <2>3, <2>4
<1>2. \A d \in Docs : Says(d)' = Says(d) /\ Written'[d] = documents'[Generation][d]
  BY <1>0, SaysSame, RemoveVanishedEffect DEF SameRun, Generation, Written
<1> QED
  BY <1>0, <1>1, <1>2, RemoveVanishedEffect DEF ProgressInv, Indexing, SameRun

LEMMA ReadInvStep == ReadInv /\ [Next]_vars => ReadInv'
<1> SUFFICES ASSUME ReadInv, [Next]_vars PROVE ReadInv'
  OBVIOUS
<1>1. TypeInv' /\ RenderedInv' /\ FilesInv'
  BY StepType, RenderedStep, FilesStep DEF ReadInv
<1>2. ProgressInv'
  <2>1. CASE run' = run /\ live' = live /\ (run.stage = "none" \/ documents' = documents)
    <3>1. CASE run.stage = "none"
      BY <2>1, <3>1 DEF ProgressInv, Indexing
    <3>2. CASE documents' = documents
      <4>1. Written' = Written /\ \A d : Says(d)' = Says(d)
        BY <2>1, <3>2 DEF Written, Generation, Says, Produced
      <4>2. \A d \in Docs : /\ Untouched(d)' <=> Untouched(d)
                            /\ Settled(d)' <=> Settled(d)
                            /\ ToCome(d)' <=> ToCome(d)
        BY <2>1, <4>1 DEF Untouched, Settled, ToCome
      <4> QED
        BY <2>1, <4>1, <4>2 DEF ReadInv, ProgressInv, Indexing
    <3> QED
      BY <2>1, <3>1, <3>2
  <2>2. CASE run'.stage \in {"sync", "none", "sweep"}
    BY <2>2 DEF ProgressInv, Indexing
  <2> QED
    BY <2>1, <2>2, OtherSteps, SyncSourcesProgress, RefuseFileProgress, ReadFileProgress,
       IndexDocumentProgress, RenderFailsProgress, RemoveVanishedProgress DEF ReadInv, IndexFile
<1> QED
  BY <1>1, <1>2 DEF ReadInv

LEMMA ReadInvHolds == Spec => []ReadInv
<1>1. Init => ReadInv
  <2>1. Init => FilesInv /\ ProgressInv
    BY DEF Init, FilesInv, ProgressInv, Idle, Indexing
  <2> QED
    BY <2>1, InitType, InitRendered DEF ReadInv
<1> QED
  BY <1>1, ReadInvStep, PTL DEF Spec

\* A run that finishes leaves the documents of every file it indexed saying what the file said
\* when it was read, and none of a file that was not there, whatever was skipped because of a
\* hash and whatever dead runs, failed sweeps and other generations left behind (indexProject).
THEOREM FinishedRunsPublish == Spec => PublishesWhatItRead
<1>1. ASSUME ReadInv, run.stage = "finalize", Finish, NEW f \in Files \ run.refused,
             SourceOf[f] \notin run.protected, NEW d \in DocsOf(f)
      PROVE  Served'[d] = Produced(f)[d]
  <2>1. d \in Docs /\ FileOf[d] = f
    BY DEF DocsOf
  <2>2. Served'[d] = documents[Generation][d].text
    BY <1>1, <2>1 DEF Served, Finish
  <2> QED
    BY <1>1, <2>1, <2>2 DEF ReadInv, ProgressInv, SourceOfDoc, Says, Written
<1>2. ReadInv => (run.stage = "finalize" /\ Finish =>
       \A f \in Files \ run.refused : SourceOf[f] \notin run.protected =>
         \A d \in DocsOf(f) : Served'[d] = Produced(f)[d])
  BY <1>1
<1> QED
  BY <1>2, ReadInvHolds, PTL DEF PublishesWhatItRead

\* What could not be read, and what could not be listed, keeps the documents it has: an
\* incremental run takes away only what it saw to be gone (reject, protectedSources).
THEOREM UnreadDoKeep == Spec => UnreadKeepsItsDocuments
<1>1. ASSUME ReadInv, ReadInv', [Next]_vars, run.stage # "none", ~run.rebuild, NEW d \in Docs,
             Served[d] # NoText, Served'[d] = NoText
      PROVE  SourceOfDoc(d) \notin run.protected /\ FileOf[d] \notin run.refused
  <2>1. live \in Generations /\ documents[live][d] # NoRow
    BY <1>1, RowServed DEF ReadInv, TypeInv
  <2>2. live' = live
    BY <1>1 DEF Next, Run, World, Source, BeginRun, SyncSources, IndexFile, RefuseFile, ReadFile, IndexDocument,
       KeepDocument, DropEmpty, WriteDocument, RenderFails, RemoveVanished, Finish, FailRun, SweepAfter,
       DeleteSource, InvalidateDocuments, EditSettings, EditFile, Restart, Look, Generation, vars
  <2>3. documents'[live][d] = NoRow
    <3>1. (TypeOK => (documents[live][d] = NoRow <=> Served[d] = NoText))'
      BY RowServed, PTL
    <3> QED
      BY <1>1, <2>2, <3>1 DEF ReadInv, TypeInv
  <2>4. DropEmpty(d) \/ Vanished(d)
    <3>1. CASE RowStays(live, d)
      BY <2>1, <2>3, <3>1 DEF RowStays
    <3>2. CASE RowGoes(live, d)
      BY <1>1, <3>2 DEF RowGoes, MayGo
    <3>3. CASE RowIsWritten(live, d)
      <4>1. NewRow(d) \in Row
        BY <1>1, <3>3, WrittenRow DEF RowIsWritten, WriteDocument, NewRow, ReadInv
      <4> QED
        BY <2>3, <3>3, <4>1, RowTypes DEF RowIsWritten
    <3>4. ~RowIsReset(live, d)
      BY <1>1 DEF RowIsReset
    <3> QED
      BY <1>1, <2>1, <3>1, <3>2, <3>3, <3>4, RowStep DEF ReadInv
  <2>5. CASE DropEmpty(d)
    <3>1. FileOf[d] = run.file /\ Indexing /\ run.file \in Files
      BY <1>1, <2>5, InHand DEF DropEmpty, Advance, ReadInv
    <3> QED
      BY <1>1, <3>1, FilesAssumption DEF ReadInv, FilesInv, SourceOfDoc
  <2>6. CASE Vanished(d)
    <3>1. Indexing /\ run.existing[d] # None /\ d \notin run.seen /\ SourceOfDoc(d) \notin run.protected
      BY <2>6 DEF Vanished, RemoveVanished, Between
    <3>2. d \in Claimed(FileOf[d])
      BY <3>1 DEF Claimed, DocsOf
    <3> QED
      BY <1>1, <3>1, <3>2 DEF ReadInv, FilesInv
  <2> QED
    BY <2>4, <2>5, <2>6
<1>2. ReadInv /\ ReadInv' /\ [Next]_vars =>
        (run.stage # "none" /\ ~run.rebuild =>
           \A d \in Docs : Served[d] # NoText /\ Served'[d] = NoText =>
             /\ SourceOfDoc(d) \notin run.protected
             /\ FileOf[d] \notin run.refused)
  BY <1>1
<1> QED
  BY <1>2, ReadInvHolds, PTL DEF UnreadKeepsItsDocuments, Spec

-----------------------------------------------------------------------------
(* What the rows say of their settings.                                    *)

SettingsTold(d, said) == said = settings[SourceOfDoc(d)] \/ SourceOfDoc(d) \in pending

\* A row, and a run that has read the settings, are up to date or a PATCH
\* waits for the mutex to say that they are not.
SettingsInv ==
  /\ \A g \in Generations, d \in Docs : documents[g][d] # NoRow =>
       documents[g][d].hash = Stale \/ SettingsTold(d, documents[g][d].settings)
  /\ Reading => \A s \in Sources : run.known[s] = settings[s] \/ s \in pending

\* A change of the settings is announced first, and taken back when the hashes are reset.
LEMMA SettingsMove ==
  ASSUME TypeInv, [Next]_vars, crashes' = crashes, NEW s \in Sources
  PROVE  \/ settings'[s] = settings[s] /\ (s \in pending => s \in pending')
         \/ s \in pending'
         \/ InvalidateDocuments(s) /\ settings' = settings
<1>1. CASE Run
  BY <1>1 DEF Run, BeginRun, SyncSources, IndexFile, RefuseFile, ReadFile, IndexDocument, KeepDocument,
     DropEmpty, WriteDocument, RenderFails, RemoveVanished, Finish, FailRun, SweepAfter
<1>2. CASE World
  <2>1. ASSUME NEW newModel, NEW remaining, Restart(newModel, remaining) PROVE FALSE
    <3>1. crashes \in Nat /\ crashes' = crashes + 1
      BY <2>1, BoundsAssumption DEF Restart, TypeInv, TypeOK
    <3> QED
      BY <3>1
  <2> QED
    BY <1>2, <2>1 DEF World, EditFile, Look
<1>3. ASSUME NEW r \in Sources, Source(r)
      PROVE  \/ settings'[s] = settings[s] /\ (s \in pending => s \in pending')
             \/ s \in pending'
             \/ InvalidateDocuments(s) /\ settings' = settings
  BY <1>3 DEF Source, DeleteSource, InvalidateDocuments, EditSettings, TypeInv, TypeOK
<1>4. CASE UNCHANGED vars
  BY <1>4 DEF vars
<1> QED
  BY <1>1, <1>2, <1>3, <1>4 DEF Next

\* A run reads what the settings are, and keeps it to its end.
LEMMA KnownMoves ==
  ASSUME TypeInv, [Next]_vars, Reading'
  PROVE  \/ Reading /\ run'.known = run.known
         \/ settings' = settings /\ \A s \in Sources : run'.known[s] = settings[s]
<1>1. CASE \E protected, failed \in SUBSET sources : SyncSources(protected, failed)
  <2>1. PICK protected, failed \in SUBSET sources : SyncSources(protected, failed)
    BY <1>1
  <2> DEFINE offered == {f \in Files : SourceOf[f] \in sources \ protected /\ disk[f] # Gone}
             known == [s \in Sources |-> settings[s]]
             existing == [d \in Docs |-> documents[Generation][d].hash]
             complaint == protected \cup failed # {}
  <2>2. /\ run' = [run EXCEPT !.stage = "index", !.known = known, !.complaint = complaint,
                    !.protected = protected, !.offered = offered, !.todo = offered, !.existing = existing]
        /\ settings' = settings
    BY <2>1 DEF SyncSources
  <2> HIDE DEF offered, known, existing, complaint
  <2>3. run'.known = known
    BY <2>2 DEF TypeInv, TypeOK, Local
  <2> QED
    BY <2>2, <2>3 DEF known
<1>2. ASSUME NEW f \in Files, IndexFile(f)
      PROVE  Reading /\ run'.known = run.known
  <2>1. CASE RefuseFile(f)
    BY <2>1 DEF RefuseFile, Between, Indexing, Reading, TypeInv, TypeOK, Local
  <2>2. CASE ReadFile(f)
    BY <2>2 DEF ReadFile, Between, Indexing, Reading, TypeInv, TypeOK, Local
  <2> QED
    BY <1>2, <2>1, <2>2 DEF IndexFile
<1>3. ASSUME NEW d \in Docs, IndexDocument(d)
      PROVE  Reading /\ run'.known = run.known
  <2>1. CASE KeepDocument(d) \/ WriteDocument(d)
    BY <2>1 DEF KeepDocument, WriteDocument, Done, Advance, Indexing, Reading, TypeInv, TypeOK, Local
  <2>2. CASE DropEmpty(d)
    BY <2>2 DEF DropEmpty, Done, Advance, Indexing, Reading, TypeInv, TypeOK, Local
  <2> QED
    BY <1>3, <2>1, <2>2 DEF IndexDocument
<1>4. CASE RenderFails \/ RemoveVanished
  BY <1>4 DEF RenderFails, RemoveVanished, Between, Indexing, Reading, TypeInv, TypeOK, Local
<1> QED
  <2>1. CASE run' = run
    BY <2>1 DEF Reading
  <2>2. CASE run'.stage \in {"sync", "none", "sweep"}
    BY <2>2 DEF Reading
  <2> QED
    BY <1>1, <1>2, <1>3, <1>4, <2>1, <2>2, OtherSteps

LEMMA SettingsStep ==
  ASSUME TypeInv, SettingsInv, [Next]_vars, crashes' = crashes
  PROVE  SettingsInv'
<1>1. ASSUME NEW g \in Generations, NEW d \in Docs, documents'[g][d] # NoRow
      PROVE  documents'[g][d].hash = Stale \/ SettingsTold(d, documents[g][d].settings)'
  <2> DEFINE s == SourceOfDoc(d)
  <2>0. s \in Sources
    BY FileOfAssumption, SourceOfAssumption DEF SourceOfDoc
  <2> HIDE DEF s
  <2>1. CASE InvalidateDocuments(s)
    <3>1. documents[g][d] # NoRow /\ documents'[g][d] = [documents[g][d] EXCEPT !.hash = Stale]
      BY <1>1, <2>1 DEF InvalidateDocuments, s
    <3>2. documents[g][d] \in Row
      BY <3>1 DEF TypeInv, TypeOK
    <3> QED
      BY <3>1, <3>2 DEF Row
  <2>2. CASE s \in pending'
    BY <2>2 DEF SettingsTold, s
  <2>3. CASE settings'[s] = settings[s] /\ (s \in pending => s \in pending')
    <3>1. CASE RowStays(g, d)
      BY <1>1, <2>3, <3>1 DEF RowStays, SettingsInv, SettingsTold, s
    <3>2. CASE RowIsReset(g, d)
      <4>1. documents[g][d] \in Row
        BY <3>2 DEF RowIsReset, TypeInv, TypeOK
      <4> QED
        BY <3>2, <4>1 DEF RowIsReset, Row
    <3>3. CASE RowIsWritten(g, d)
      <4>1. Advance(d) /\ documents'[g][d].settings = run.known[SourceOf[run.file]]
        BY <3>3 DEF RowIsWritten, NewRow, WriteDocument
      <4>2. Reading /\ SourceOf[run.file] = s
        BY <4>1, InHand DEF Advance, Indexing, Reading, SourceOfDoc, s
      <4> QED
        BY <2>0, <2>3, <4>1, <4>2 DEF SettingsInv, SettingsTold, s
    <3> QED
      BY <1>1, <3>1, <3>2, <3>3, RowStep DEF RowGoes
  <2> QED
    BY <2>0, <2>1, <2>2, <2>3, SettingsMove
<1>2. ASSUME Reading', NEW s \in Sources
      PROVE  run'.known[s] = settings'[s] \/ s \in pending'
  <2>1. CASE settings' = settings /\ run'.known[s] = settings[s]
    BY <2>1
  <2>2. CASE Reading /\ run'.known = run.known
    <3>1. ~InvalidateDocuments(s)
      BY <2>2 DEF InvalidateDocuments, Reading
    <3> QED
      BY <2>2, <3>1, SettingsMove DEF SettingsInv
  <2> QED
    BY <1>2, <2>1, <2>2, KnownMoves
<1> QED
  BY <1>1, <1>2 DEF SettingsInv

\* As long as the process does not die, a changed language or version reaches every document
\* of its source: each one says what the source says, or will be indexed again, or the PATCH
\* that is to see to it waits for the mutex (sources-routes.ts).
THEOREM SettingsDoReach == Spec => [](crashes = 0 => SettingsReachDocuments)
<1>1. Init => SettingsInv
  BY DEF Init, SettingsInv, NoDocuments, Idle, Reading
<1>2. TypeInv /\ (crashes = 0 => SettingsInv) /\ [Next]_vars => (crashes = 0 => SettingsInv)'
  <2> SUFFICES ASSUME TypeInv, crashes = 0 => SettingsInv, [Next]_vars, crashes' = 0 PROVE SettingsInv'
    OBVIOUS
  <2>1. crashes = 0
    <3>1. crashes' = crashes \/ crashes' = crashes + 1
      BY DEF Next, Run, World, Source, BeginRun, SyncSources, IndexFile, RefuseFile, ReadFile, IndexDocument,
       KeepDocument, DropEmpty, WriteDocument, RenderFails, RemoveVanished, Finish, FailRun, SweepAfter,
       DeleteSource, InvalidateDocuments, EditSettings, EditFile, Restart, Look, vars, outside
    <3> QED
      BY <3>1, BoundsAssumption DEF TypeInv, TypeOK
  <2> QED
    BY <2>1, SettingsStep
<1>3. TypeInv /\ (crashes = 0 => SettingsInv) => (crashes = 0 => SettingsReachDocuments)
  <2>1. TypeInv => live \in Generations
    BY BoundsAssumption DEF TypeInv, TypeOK, Generations
  <2> QED
    BY <2>1 DEF SettingsInv, SettingsReachDocuments, SettingsTold
<1>4. Spec => []TypeInv
  BY InitType, StepType, PTL DEF Spec
<1> QED
  BY <1>1, <1>2, <1>3, <1>4, PTL DEF Spec

-----------------------------------------------------------------------------
(* What embedded the rows.                                                 *)

EmbeddedBy(g, m) == \A d \in Docs : documents[g][d] # NoRow => documents[g][d].model = m

\* The live rows are of the model of the stamp, or of the model in use where there is none; what
\* a run writes is of its own, and it rebuilds where the two differ.  A generation that is mixed
\* promises nothing.
ModelInv ==
  /\ live \notin mixed => EmbeddedBy(live, IF stamp = None THEN model ELSE stamp)
  /\ Inside => IF run.rebuild THEN live + 1 \notin mixed => EmbeddedBy(live + 1, model)
               ELSE stamp \in {None, model}

LEMMA OthersModel ==
  ASSUME NEW g, NEW m
  PROVE  EmbeddedBy(g, m) <=> ~HasOthers(documents, g, m)
BY DEF EmbeddedBy, HasOthers

\* A step inside a run.
LEMMA InsideModel ==
  ASSUME TypeInv, ModelInv, [Next]_vars, Inside, Inside',
         run'.rebuild = run.rebuild, UNCHANGED <<stamp, live, model, mixed>>
  PROVE  ModelInv'
<1> DEFINE StillBy(g, m) == \A d \in Docs : documents'[g][d] # NoRow => documents'[g][d].model = m
           mine == IF stamp = None THEN model ELSE stamp
<1>1. live \in Generations /\ live + 1 \in Generations /\ live # live + 1
  BY BoundsAssumption DEF TypeInv, TypeOK, Generations
<1>2. ASSUME NEW g \in Generations, NEW m, EmbeddedBy(g, m), g = Generation => m = model
      PROVE  StillBy(g, m)
  <2> SUFFICES ASSUME NEW d \in Docs, documents'[g][d] # NoRow PROVE documents'[g][d].model = m
    OBVIOUS
  <2>1. CASE RowStays(g, d)
    BY <1>2, <2>1 DEF RowStays, EmbeddedBy
  <2>2. CASE RowIsWritten(g, d)
    BY <1>2, <2>2 DEF RowIsWritten, NewRow
  <2> QED
    BY <2>1, <2>2, RowStep DEF RowGoes, RowIsReset, Inside
<1> HIDE DEF StillBy
<1>3. live \notin mixed => StillBy(live, mine)
  BY <1>1, <1>2 DEF ModelInv, Generation
<1>4. run.rebuild /\ live + 1 \notin mixed => StillBy(live + 1, model)
  BY <1>1, <1>2 DEF ModelInv
<1> USE DEF StillBy
<1> QED
  BY <1>3, <1>4 DEF ModelInv, EmbeddedBy

\* A step outside, which writes no row; with another model only as a restart notes it.
LEMMA OutsideModel ==
  ASSUME TypeInv, ModelInv, [Next]_vars, ~Inside', UNCHANGED <<stamp, live>>,
         (model' = model /\ mixed' = mixed) \/ mixed' = MixedByRestart(model'),
         ~\E d \in Docs : WriteDocument(d)
  PROVE  ModelInv'
<1> DEFINE StillBy(g, m) == \A d \in Docs : documents'[g][d] # NoRow => documents'[g][d].model = m
           next == IF stamp = None THEN model' ELSE stamp
<1>1. live \in Generations
  BY BoundsAssumption DEF TypeInv, TypeOK, Generations
<1>2. ASSUME NEW m, EmbeddedBy(live, m)
      PROVE  StillBy(live, m)
  <2> SUFFICES ASSUME NEW d \in Docs, documents'[live][d] # NoRow PROVE documents'[live][d].model = m
    OBVIOUS
  <2>1. CASE RowIsReset(live, d)
    <3>1. documents[live][d] \in Row
      BY <1>1, <2>1 DEF RowIsReset, TypeInv, TypeOK
    <3>2. documents[live][d].model = m
      BY <1>2, <2>1 DEF RowIsReset, EmbeddedBy
    <3>3. \A r \in Row : [r EXCEPT !.hash = Stale].model = r.model
      BY DEF Row
    <3> QED
      BY <2>1, <3>1, <3>2, <3>3 DEF RowIsReset
  <2>2. CASE RowStays(live, d)
    BY <1>2, <2>2 DEF RowStays, EmbeddedBy
  <2> QED
    BY <1>1, <2>1, <2>2, RowStep DEF RowGoes, RowIsWritten
<1> HIDE DEF StillBy
<1>3. live \notin mixed' => EmbeddedBy(live, next)
  <2>1. CASE model' = model /\ mixed' = mixed
    BY <2>1 DEF ModelInv
  <2>2. CASE mixed' = MixedByRestart(model')
    <3>1. live \notin mixed' => live \notin mixed /\ (stamp = None => ~HasOthers(documents, live, model'))
      BY <2>2 DEF MixedByRestart
    <3>2. ~HasOthers(documents, live, model') => EmbeddedBy(live, model')
      BY OthersModel
    <3> QED
      BY <3>1, <3>2 DEF ModelInv
  <2> QED
    BY <2>1, <2>2
<1>4. live \notin mixed' => StillBy(live, next)
  BY <1>2, <1>3
<1> USE DEF StillBy
<1> QED
  BY <1>4 DEF ModelInv, EmbeddedBy

LEMMA BeginRunModel ==
  ASSUME TypeInv, ModelInv, NEW force \in BOOLEAN, NEW remaining, BeginRun(force, remaining)
  PROVE  ModelInv'
<1> DEFINE rebuild == force \/ (stamp # None /\ stamp # model)
           StillBy(g, m) == \A d \in Docs : documents'[g][d] # NoRow => documents'[g][d].model = m
           mine == IF stamp = None THEN model ELSE stamp
<1>1. /\ run'.rebuild = rebuild /\ documents' = Swept(documents, live, remaining)
      /\ mixed' = MixedByRebuild(rebuild)
      /\ UNCHANGED <<stamp, live, model>> /\ stamp \in Models \cup {None}
  BY DEF BeginRun, Idle, outside, TypeInv, TypeOK
<1>2. live \in Generations /\ live + 1 \in Generations /\ live # live + 1
  BY BoundsAssumption DEF TypeInv, TypeOK, Generations
<1>3. documents'[live] = documents[live]
  BY <1>1, <1>2 DEF Swept
<1>4. ASSUME rebuild, live + 1 \notin mixed'
      PROVE  StillBy(live + 1, model)
  <2>1. ~HasOthers(documents', live + 1, model)
    BY <1>1, <1>4 DEF MixedByRebuild
  <2> QED
    BY <2>1 DEF HasOthers
<1>5. live \notin mixed' => live \notin mixed
  BY <1>1, <1>2 DEF MixedByRebuild
<1>6. live \notin mixed' => StillBy(live, mine)
  BY <1>3, <1>5 DEF ModelInv, EmbeddedBy
<1> HIDE DEF StillBy
<1>7. ~rebuild => stamp \in {None, model}
  OBVIOUS
<1> HIDE DEF rebuild
<1> USE DEF StillBy
<1> QED
  BY <1>1, <1>4, <1>6, <1>7 DEF ModelInv, EmbeddedBy

LEMMA FinishModel ==
  ASSUME TypeInv, ModelInv, Finish
  PROVE  ModelInv'
<1>1. /\ live' = Generation /\ stamp' = model /\ UNCHANGED <<documents, model, mixed>> /\ Inside /\ model # None
      /\ run'.stage \in {"none", "sweep"}
  BY ModelsAssumption DEF Finish, outside, Inside, Over, Idle, TypeInv, TypeOK
<1>2. live \in Generations /\ (Generation = IF run.rebuild THEN live + 1 ELSE live)
  BY BoundsAssumption DEF TypeInv, TypeOK, Generations, Generation
<1>3. Generation \notin mixed => EmbeddedBy(Generation, model)
  BY <1>1, <1>2 DEF ModelInv
<1> QED
  BY <1>1, <1>3 DEF ModelInv, EmbeddedBy, Inside

LEMMA ModelStep ==
  ASSUME TypeInv, ModelInv, [Next]_vars
  PROVE  ModelInv'
<1>2. CASE \E protected, failed \in SUBSET sources : SyncSources(protected, failed)
  <2>1. Inside /\ Inside' /\ run'.rebuild = run.rebuild /\ UNCHANGED <<stamp, live, model, mixed>>
    BY <1>2, SyncSourcesEffect DEF Inside, SyncSources, outside, project
  <2> QED
    BY <2>1, InsideModel
<1>3. CASE (\E f \in Files : IndexFile(f)) \/ (\E d \in Docs : IndexDocument(d)) \/ RenderFails \/ RemoveVanished
  <2>1. Inside /\ Inside' /\ run'.rebuild = run.rebuild
    BY <1>3, RefuseFileEffect, ReadFileEffect, IndexDocumentEffect, RenderFailsEffect, RemoveVanishedEffect
       DEF Inside, IndexFile, Between, Indexing, Advance, SameRun
  <2>2. UNCHANGED <<stamp, live, model, mixed>>
    BY <1>3 DEF IndexFile, RefuseFile, ReadFile, IndexDocument, KeepDocument, DropEmpty, WriteDocument, RenderFails,
       RemoveVanished, outside, project
  <2> QED
    BY <2>1, <2>2, InsideModel
<1>4. ASSUME ~\E d \in Docs : WriteDocument(d),
             (\E quota \in BOOLEAN : FailRun(quota)) \/ (\E remaining \in Remaining : SweepAfter(remaining))
               \/ \E newModel \in Models, remaining \in Remaining : Restart(newModel, remaining)
      PROVE  ModelInv'
  <2>1. /\ UNCHANGED <<stamp, live>>
        /\ (model' = model /\ mixed' = mixed) \/ mixed' = MixedByRestart(model')
    BY <1>4 DEF FailRun, SweepAfter, Restart, outside, project
  <2>2. run' = Over \/ run' = Idle
    BY <1>4 DEF FailRun, SweepAfter, Restart
  <2>3. ~Inside'
    BY <2>2 DEF Inside, Over, Idle
  <2> QED
    BY <1>4, <2>1, <2>3, OutsideModel
<1>5. ASSUME ~\E d \in Docs : WriteDocument(d),
             run' = run, UNCHANGED <<stamp, live, model, mixed>>
      PROVE  ModelInv'
  BY <1>5, InsideModel, OutsideModel DEF Inside
<1>6. CASE World
  <2>1. ASSUME ~\E d \in Docs : WriteDocument(d) PROVE ModelInv'
    BY <1>4, <1>5, <1>6, <2>1 DEF World, EditFile, Look, outside, project
  <2> QED
    BY <1>3, <2>1 DEF IndexDocument
<1>7. CASE \E s \in Sources : Source(s)
  <2>1. ASSUME ~\E d \in Docs : WriteDocument(d) PROVE ModelInv'
    BY <1>5, <1>7, <2>1 DEF Source, DeleteSource, InvalidateDocuments, EditSettings, outside, project
  <2> QED
    BY <1>3, <2>1 DEF IndexDocument
<1>8. CASE UNCHANGED vars
  <2>1. ASSUME ~\E d \in Docs : WriteDocument(d) PROVE ModelInv'
    BY <1>5, <1>8, <2>1 DEF vars, outside, project
  <2> QED
    BY <1>3, <2>1 DEF IndexDocument
<1>9. CASE Run
  <2>1. CASE \E d \in Docs : WriteDocument(d)
    BY <1>3, <2>1 DEF IndexDocument
  <2> QED
    BY <1>2, <1>3, <1>4, <1>9, <2>1, BeginRunModel, FinishModel DEF Run
<1> QED
  BY <1>6, <1>7, <1>8, <1>9 DEF Next

\* What search ranks was embedded by the model its question is embedded with, whatever the
\* operator does to the model and however runs, rebuilds and sweeps end; except in a generation
\* in which a restart without a stamp, or a rebuild on what a failed sweep left, has let two
\* models come together (searchProject, startup-maintenance.ts).
THEOREM OneModelDoesServe == Spec => []OneModelServes
<1>1. Init => ModelInv
  <2> SUFFICES ASSUME Init PROVE ModelInv
    OBVIOUS
  <2>1. 1 \in Generations
    BY BoundsAssumption DEF Generations
  <2>2. documents[live] = NoDocuments /\ ~Inside
    BY <2>1 DEF Init, Idle, Inside
  <2> QED
    BY <2>2 DEF ModelInv, EmbeddedBy, NoDocuments
<1>2. TypeInv /\ ModelInv /\ [Next]_vars => ModelInv'
  BY ModelStep
<1>3. TypeInv /\ ModelInv => OneModelServes
  <2>1. TypeInv => live \in Generations
    BY BoundsAssumption DEF TypeInv, TypeOK, Generations
  <2> QED
    BY <2>1 DEF ModelInv, EmbeddedBy, OneModelServes, Answers, HasOthers
<1>4. Spec => []TypeInv
  BY InitType, StepType, PTL DEF Spec
<1> QED
  BY <1>1, <1>2, <1>3, <1>4, PTL DEF Spec
=============================================================================
