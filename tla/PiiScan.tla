------------------------------- MODULE PiiScan -------------------------------
(***************************************************************************)
(* The scan for secrets and personal numbers (pii-scan.ts,                 *)
(* document-findings.ts): a project whose index changed is asked about,    *)
(* projects are passed over one at a time, a pass walks the documents that *)
(* are due upward by id, in batches, while runs go on rewriting them.      *)
(*                                                                         *)
(* A text is <<revision of the file, reading>>: what a content type makes  *)
(* of the file.  content_hash is taken over the file, so it is its         *)
(* revision, or 0 where a change of settings made it empty.  What a scan   *)
(* found is the text it read.  An id is never used again.  A rule set is   *)
(* one with the key here: both only ever make everything due.              *)
(***************************************************************************)
EXTENDS Naturals, Sequences, FiniteSets
LOCAL INSTANCE SequencesExt

CONSTANTS
  Projects,
  MaxId, MaxRevision,
  BatchSize,
  MaxRewrites,     \* how often runs and settings change documents
  MaxFailures,  \* how many statements of the scanner fail
  MaxStarts     \* how often the process starts again

\* What a document is read from has a revision, a batch a place, and the sweep lists the projects.
ASSUME PiiAssumption ==
  /\ IsFiniteSet(Projects)
  /\ MaxId \in Nat /\ MaxRevision \in Nat \ {0} /\ BatchSize \in Nat \ {0}

VARIABLES
  document,  \* documents, by project and id
  scanned,   \* document_scans with its findings
  reading,   \* the content type of each project's source
  owes,      \* the projects whose run has changed the index, and not called its hook yet
  asked,     \* PiiScanner.pending
  drain,     \* PiiScanner.draining: the loop, and the pass it is in
  life,      \* the process: whether it is up and has swept, its key
  missed,    \* ghost: the projects a statement failed for, or that were imported, since they
             \* were last asked about
  budget     \* how many edits, failures and starts are left

piiVars == <<document, scanned, reading, owes, asked, drain, life, missed, budget>>

Ids == 1..MaxId
NoDocument == [state |-> "none", hash |-> 0, text |-> <<0, 0>>]
NoScan == [hash |-> 0, text |-> <<0, 0>>, key |-> 0]
NoPass == [at |-> "off", project |-> "none", after |-> 0, batch |-> <<>>]

Fresh(r) == [state |-> "live", hash |-> 1, text |-> <<1, r>>]

\* A new instance, or an index from before there was a scanner.
PiiInit ==
  /\ \E old \in BOOLEAN : document = [p \in Projects |-> [i \in Ids |->
                              IF old /\ i = 2 THEN Fresh(0) ELSE NoDocument]]
  /\ scanned = [p \in Projects |-> [i \in Ids |-> NoScan]]
  /\ reading = [p \in Projects |-> 0]
  /\ owes = {} /\ asked = <<>> /\ drain = NoPass /\ missed = {}
  /\ life = [up |-> TRUE, swept |-> FALSE, key |-> 1]
  /\ budget = [edits |-> MaxRewrites, failures |-> MaxFailures, starts |-> MaxStarts]

Spend(what) == budget[what] > 0 /\ budget' = [budget EXCEPT ![what] = @ - 1]

\* due, of the live generation
Due(p, i) ==
  LET d == document[p][i] s == scanned[p][i]
  IN d.state = "live" /\ (s.key = 0 \/ s.hash # d.hash \/ s.key # life.key)

-----------------------------------------------------------------------------
(* The indexer, and what it changes.                                       *)

Put(p, i, revision) ==
  document' = [document EXCEPT ![p][i] =
                 [state |-> "live", hash |-> revision, text |-> <<revision, reading[p]>>]]
Revisions(d) == IF d.state = "none" THEN {1}
                ELSE {r \in 1..MaxRevision : r >= d.text[1] /\ r <= d.text[1] + 1} \ {d.hash}

\* replaceDocument: the row of a path keeps its id.
Rewrite(p, i) ==
  /\ Spend("edits")
  /\ document[p][i].state \in {"none", "live"}
  /\ \E r \in Revisions(document[p][i]) : Put(p, i, r)
  /\ owes' = owes \cup {p}
  /\ UNCHANGED <<scanned, reading, asked, drain, life, missed>>

\* deleteDocuments; what was scanned goes with its document.
RemoveDocument(p, i) ==
  /\ Spend("edits")
  /\ document[p][i].state = "live"
  /\ document' = [document EXCEPT ![p][i].state = "gone"]
  /\ scanned' = [scanned EXCEPT ![p][i] = NoScan]
  /\ owes' = owes \cup {p}
  /\ UNCHANGED <<reading, asked, drain, life, missed>>

\* The swap of a rebuild: other rows are live.
SwapGeneration(p) ==
  /\ Spend("edits")
  /\ \E new \in SUBSET {i \in Ids : document[p][i].state = "none"} :
       /\ new # {}
       /\ document' = [document EXCEPT ![p] = [i \in Ids |->
            IF i \in new THEN Fresh(reading[p])
            ELSE IF @[i].state = "live" THEN [@[i] EXCEPT !.state = "old"] ELSE @[i]]]
  /\ owes' = owes \cup {p}
  /\ UNCHANGED <<scanned, reading, asked, drain, life, missed>>

\* importProject: a project that is there with its documents, and no run has made them.
ImportProject(p) ==
  /\ Spend("edits")
  /\ \A i \in Ids : document[p][i] = NoDocument
  /\ \E new \in SUBSET Ids \ {{}} :
       document' = [document EXCEPT ![p] = [i \in Ids |-> IF i \in new THEN Fresh(reading[p]) ELSE @[i]]]
  /\ missed' = missed \cup {p}
  /\ UNCHANGED <<scanned, reading, owes, asked, drain, life>>

\* sweepGenerations
SweepOld(p) ==
  /\ \E i \in Ids : document[p][i].state = "old"
  /\ document' = [document EXCEPT ![p] = [i \in Ids |->
                    IF @[i].state = "old" THEN [@[i] EXCEPT !.state = "gone"] ELSE @[i]]]
  /\ scanned' = [scanned EXCEPT ![p] = [i \in Ids |->
                    IF document[p][i].state = "old" THEN NoScan ELSE @[i]]]
  /\ UNCHANGED <<reading, owes, asked, drain, life, missed, budget>>

\* PATCH of a source's content type: invalidateSourceDocuments.
ChangeReading(p) ==
  /\ Spend("edits")
  /\ reading' = [reading EXCEPT ![p] = 1 - @]
  /\ document' = [document EXCEPT ![p] = [i \in Ids |->
                    IF @[i].state = "live" THEN [@[i] EXCEPT !.hash = 0] ELSE @[i]]]
  /\ UNCHANGED <<scanned, owes, asked, drain, life, missed>>

-----------------------------------------------------------------------------
(* PiiScanner.                                                             *)

\* The queue, and after it those of S that are not in it, in an order the rows come in.
Behind(S) ==
  LET new == S \ ToSet(asked)
  IN {asked \o more : more \in
        {f \in [1..Cardinality(new) -> new] : /\ \A j, k \in DOMAIN f : j # k => f[j] # f[k]
                                              /\ \A p \in new : \E k \in DOMAIN f : f[k] = p}}

\* Mutant: a request for the project being passed over is covered by the pass.
ListedUnlessUnderWay(S) == Behind(S \ {drain.project})

\* request, of each of S: add, ...
Listed(S) == Behind(S)

\* ... and kick.
Ask(S) ==
  IF life.up /\ S # {}
  THEN /\ asked' \in Listed(S) /\ missed' = missed \ S
       /\ drain' = IF drain.at = "off" THEN [NoPass EXCEPT !.at = "loop"] ELSE drain
  ELSE UNCHANGED <<asked, drain, missed>>

\* The end of a run: notifyIndexChanged.
CallHook(p) ==
  /\ p \in owes /\ owes' = owes \ {p}
  /\ Ask({p})
  /\ UNCHANGED <<document, scanned, reading, life, budget>>

\* sweep
Sweep ==
  /\ life.up /\ ~life.swept
  /\ life' = [life EXCEPT !.swept = TRUE]
  /\ Ask({p \in Projects : \E i \in Ids : Due(p, i)})
  /\ UNCHANGED <<document, scanned, reading, owes, budget>>

\* The read behind it fails, which is logged: what is due waits for the next change of its index.
SweepFails ==
  /\ life.up /\ ~life.swept /\ Spend("failures")
  /\ life' = [life EXCEPT !.swept = TRUE]
  /\ missed' = missed \cup {p \in Projects : \E i \in Ids : Due(p, i)}
  /\ UNCHANGED <<document, scanned, reading, owes, asked, drain>>

\* drain: a project leaves the queue before it is passed over.
Take ==
  /\ drain.at = "loop"
  /\ IF life.up /\ asked # <<>>
       THEN /\ drain' = [NoPass EXCEPT !.at = "select", !.project = Head(asked)]
            /\ asked' = Tail(asked)
       ELSE drain' = [NoPass EXCEPT !.at = "ending"] /\ UNCHANGED asked
  /\ UNCHANGED <<document, scanned, reading, owes, life, missed, budget>>

\* selectDueDocuments: in id order after the cursor, no more than a batch.  The one way to list them.
Upward(p, after) ==
  LET due == {i \in Ids : i > after /\ Due(p, i)}
      n == IF Cardinality(due) < BatchSize THEN Cardinality(due) ELSE BatchSize
  IN {up \in [1..n -> due] : /\ \A j, k \in 1..n : j < k => up[j] < up[k]
                             /\ \A i \in due \ ToSet(up), k \in 1..n : up[k] < i}

Select ==
  LET p == drain.project
  IN /\ drain.at = "select"
     /\ \E up \in Upward(p, drain.after) :
          drain' = IF life.up /\ up # <<>>
                   THEN [drain EXCEPT !.at = "scan", !.batch = [k \in 1..Len(up) |->
                           [id |-> up[k], hash |-> document[p][up[k]].hash, text |-> document[p][up[k]].text]]]
                   ELSE [NoPass EXCEPT !.at = "loop"]
     /\ UNCHANGED <<document, scanned, reading, owes, asked, life, missed, budget>>

\* The pass fails: logged, and the project is not asked about again.
SelectFails ==
  /\ drain.at = "select" /\ Spend("failures")
  /\ drain' = [NoPass EXCEPT !.at = "loop"] /\ missed' = missed \cup {drain.project}
  /\ UNCHANGED <<document, scanned, reading, owes, asked, life>>

Unmoved(d, now) == now.state \in {"live", "old"} /\ now.hash = d.hash

\* Mutant: what was found is recorded for the document as it now is.
ScanRecordedAnyway(d, now, old) ==
  IF now.state \in {"live", "old"} THEN [hash |-> now.hash, text |-> d.text, key |-> life.key] ELSE old

\* recordScan: refused if the document moved.
ScanRecorded(d, now, old) ==
  IF Unmoved(d, now) THEN [hash |-> d.hash, text |-> d.text, key |-> life.key] ELSE old

\* The next document of the batch, and after the last of them the next batch.
Advanced ==
  LET rest == Tail(drain.batch)
  IN IF rest = <<>> THEN [drain EXCEPT !.at = "select", !.after = Head(drain.batch).id, !.batch = rest]
                    ELSE [drain EXCEPT !.batch = rest]

\* scanOne, recordScan
ScanOne ==
  LET p == drain.project
      d == Head(drain.batch)
      now == document[p][d.id]
  IN /\ drain.at = "scan"
     /\ drain' = IF life.up THEN Advanced ELSE [NoPass EXCEPT !.at = "loop"]
     /\ scanned' = IF life.up THEN [scanned EXCEPT ![p][d.id] = ScanRecorded(d, now, @)] ELSE scanned
     /\ UNCHANGED <<document, reading, owes, asked, life, missed, budget>>

\* Counted and logged, and never stops the pass.
ScanFails ==
  /\ drain.at = "scan" /\ Spend("failures")
  /\ drain' = Advanced /\ missed' = missed \cup {drain.project}
  /\ UNCHANGED <<document, scanned, reading, owes, asked, life>>

\* Mutant: a request that came as the loop ended waits for the next one.
EndsForGood ==
  /\ drain.at = "ending" /\ drain' = NoPass
  /\ UNCHANGED <<document, scanned, reading, owes, asked, life, missed, budget>>

\* The finally of kick.
EndDrain ==
  /\ drain.at = "ending"
  /\ drain' = IF life.up /\ asked # <<>> THEN [NoPass EXCEPT !.at = "loop"] ELSE NoPass
  /\ UNCHANGED <<document, scanned, reading, owes, asked, life, missed, budget>>

-----------------------------------------------------------------------------
(* The process.                                                            *)

\* stop: what is in hand ends with its document.
StopScanner ==
  /\ life.up /\ life' = [life EXCEPT !.up = FALSE] /\ asked' = <<>>
  /\ UNCHANGED <<document, scanned, reading, owes, drain, missed, budget>>

\* The process starts again, after a shutdown or a crash; with another SECRET_KEY, perhaps.
StartAgain ==
  /\ Spend("starts")
  /\ \E key \in {life.key, life.key + 1} : life' = [up |-> TRUE, swept |-> FALSE, key |-> key]
  /\ owes' = {} /\ asked' = <<>> /\ drain' = NoPass /\ missed' = {}
  /\ UNCHANGED <<document, scanned, reading>>

-----------------------------------------------------------------------------
Passes == Take \/ Select \/ ScanOne \/ EndDrain

PiiNext ==
  \/ \E p \in Projects, i \in Ids : Rewrite(p, i) \/ RemoveDocument(p, i)
  \/ \E p \in Projects : SwapGeneration(p) \/ ImportProject(p) \/ SweepOld(p) \/ ChangeReading(p) \/ CallHook(p)
  \/ Sweep \/ SweepFails \/ Passes \/ SelectFails \/ ScanFails
  \/ StopScanner \/ StartAgain

PiiSpec == PiiInit /\ [][PiiNext]_piiVars

\* A run ends, the sweep is awaited by nobody and comes to its end all the same, and what the
\* loop awaits comes back.
PiiFair ==
  /\ WF_piiVars(Passes) /\ WF_piiVars(Sweep)
  /\ \A p \in Projects : WF_piiVars(CallHook(p))

-----------------------------------------------------------------------------
(* Properties.                                                             *)

\* Types; a project is asked about once, and there is a pass whenever one is asked about.
PiiTypeOK ==
  /\ \A p \in Projects, i \in Ids :
       /\ document[p][i].state \in {"none", "live", "old", "gone"}
       /\ document[p][i].hash \in 0..MaxRevision
       /\ scanned[p][i].key \in 0..life.key
       /\ document[p][i].state \in {"none", "gone"} => scanned[p][i] = NoScan
  /\ owes \subseteq Projects /\ missed \subseteq Projects
  /\ ToSet(asked) \subseteq Projects /\ \A j, k \in 1..Len(asked) : j # k => asked[j] # asked[k]
  /\ asked # <<>> => drain.at # "off"
  /\ drain.at \in {"off", "loop", "select", "scan", "ending"}
  /\ drain.at = "scan" <=> drain.batch # <<>>

Shown(p, i) == document[p][i].state = "live" /\ scanned[p][i].key # 0
               /\ scanned[p][i].hash = document[p][i].hash

\* What the panel shows was found in this revision of the file: a scan that was under way
\* while the document was replaced is not taken for a scan of what is there now
\* (document-findings.ts, recordScan and listFindings).
FindingsAreOfTheFile ==
  \A p \in Projects, i \in Ids :
    Shown(p, i) /\ document[p][i].hash # 0 => scanned[p][i].text[1] = document[p][i].text[1]

\* Nothing that is served is forgotten: what is due is before the cursor of a pass, or asked
\* about, or will be when the run that wrote it ends; but for a statement that failed, a project
\* that was imported, and what waits for a run to read it anew (pii-scan.ts, drain, scanProject).
NothingIsForgotten ==
  life.up /\ life.swept =>
    \A p \in Projects \ missed, i \in Ids :
      Due(p, i) /\ document[p][i].hash # 0 =>
        \/ p \in owes \/ p \in ToSet(asked)
        \/ drain.project = p /\ drain.at = "select" /\ i > drain.after
        \/ drain.project = p /\ drain.at = "scan"
           /\ (i > Last(drain.batch).id \/ \E d \in ToSet(drain.batch) : d.id = i /\ d.hash = document[p][i].hash)

Overdue(p, i) ==
  Due(p, i) /\ document[p][i].hash # 0 /\ p \notin missed /\ life.up

\* Every document that is served is scanned, however requests and passes fall together.
EveryDocumentIsScanned ==
  (\E p \in Projects, i \in Ids : Overdue(p, i)) ~> \A p \in Projects, i \in Ids : ~Overdue(p, i)

Unread(p, i) == Due(p, i) /\ document[p][i].hash # 0 /\ life.up

\* What transfer/manifest.ts says to whoever imports a project: this instance scans the
\* documents itself once they are imported.
ImportedIsScanned ==
  (\E p \in Projects, i \in Ids : Unread(p, i)) ~> \A p \in Projects, i \in Ids : ~Unread(p, i)

\* What schema.ts says of a finding: content.slice(start_offset, start_offset + length) is
\* the match.
FindingsAreInTheText ==
  \A p \in Projects, i \in Ids : Shown(p, i) => scanned[p][i].text = document[p][i].text

\* A scan that meets a rewrite records nothing of another file, and a document no pass has
\* ahead of it is scanned or asked for (recordScan, the hook, the sweep).
ScansAreSound == FindingsAreOfTheFile /\ NothingIsForgotten
=============================================================================
