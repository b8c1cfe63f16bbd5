----------------------------- MODULE IndexQueue -----------------------------
(***************************************************************************)
(* The in-process indexing queue of Contextator: class Indexer of          *)
(* services/indexer.ts (two lanes, one job per project, one run at a       *)
(* time), together with everything that meets it at a project: the         *)
(* per-project mutex, deleting the project, committing an upload, and a    *)
(* crash of the process followed by the recovery of interrupted runs.      *)
(*                                                                         *)
(* The program is one Node.js process.  Code between two awaits runs to    *)
(* its end, so one action below is one such stretch of code; actions of    *)
(* different handlers interleave only where the code awaits.               *)
(*                                                                         *)
(* What a run does to documents is in module IndexRun; here a run is its   *)
(* stages.  The mutex is the abstract FIFO lock that module KeyedMutex     *)
(* shows locks.ts to implement: line[p] is the queue of the callers of     *)
(* runExclusive(p), whose head holds the lock.                             *)
(***************************************************************************)
EXTENDS Naturals, Sequences

CONSTANTS
  Projects,     \* project ids; an id is a UUID and is never used again
  None,         \* no project
  Triggers,     \* who asks for a run: "manual", "webhook", "scheduled"
  Deletable,    \* the projects somebody may ask to delete,
  WithUploads,  \* to commit an upload to,
  Editable,     \* to change the sources of,
  Forcible,     \* and to rebuild
  MaxCrashes    \* bound on the number of crashes of the process

ASSUME NoneAssumption == None \notin Projects
ASSUME TriggersAssumption == {"manual", "scheduled"} \subseteq Triggers
ASSUME MaxCrashesAssumption == MaxCrashes \in Nat
ASSUME ClientsAssumption ==
  /\ Deletable \subseteq Projects /\ WithUploads \subseteq Projects
  /\ Editable \subseteq Projects /\ Forcible \subseteq Projects

VARIABLES
  up,           \* the process: "up", "down", or "recovering" at startup
  crashes,      \* how many times it crashed (bounded by MaxCrashes)
  jobs,         \* Indexer.jobs: the newest job of each project
  interactive,  \* Indexer.interactive, a lane
  scheduled,    \* Indexer.scheduled, the other lane
  running,      \* Indexer.running: a runLoop is going
  run,          \* the run in flight: Indexer.current and where it stands
  line,         \* the callers of locks.runExclusive(p), holder first
  row,          \* projects.status in the database, "absent" when deleted;
                \* "stuck" is 'indexing' left by a run whose outcome could
                \* not be written
  deleting,     \* where the DELETE request of each project stands
  committing,   \* where the upload commit of each project stands
  recovered,    \* ids the recovery's UPDATE returned and not yet enqueued
  edited,       \* the project's sources changed and asked for a run, and no
                \* run has read them since or reported that it could not
  uploaded,     \* the same for a committed upload
  forceOwed,    \* a forced run was accepted and has not begun
  wanted        \* a person or a push asked for the project's queued job

memory == <<jobs, interactive, scheduled, running, run, line, deleting, committing>>
vars == <<up, crashes, memory, row, recovered, edited, uploaded, forceOwed, wanted>>

\* "embedding" stands for the three phases scanning, embedding, finalizing,
\* between which only the dashboard tells a difference.
ActivePhases == {"queued", "syncing", "embedding"}
Phases == ActivePhases \cup {"none", "done", "error"}

Job == [phase : Phases, force : BOOLEAN, trigger : Triggers]
NoJob == [phase |-> "none", force |-> FALSE, trigger |-> "manual"]

(***************************************************************************)
(* Stages of indexProject and of the loop around it:                       *)
(*   none    no run; a loop that is going is about to take the next entry  *)
(*   lookup  reading the project outside the mutex                         *)
(*   lock    waiting for the project's mutex                               *)
(*   sync    status is 'indexing', the sources are being synced            *)
(*   index   the files are being embedded                                  *)
(*   record  outcome is in projects.status, history row being written      *)
(*   leave   terminal phase published, mutex still held                    *)
(*   ended   indexProject returned, the loop has not continued yet         *)
(* kept is FALSE once forget() dropped the job from the map: its phases    *)
(* are then written to an object nobody can find.                          *)
(***************************************************************************)
Stages == {"none", "lookup", "lock", "sync", "index", "record", "leave", "ended"}
UnderMutex == {"sync", "index", "record", "leave"}
Run == [project : Projects \cup {None}, stage : Stages, force : BOOLEAN, kept : BOOLEAN]
NoRun == [project |-> None, stage |-> "none", force |-> FALSE, kept |-> FALSE]

Actors == {"run", "delete", "commit"}
Statuses == {"idle", "error", "indexing", "stuck", "absent"}

Init ==
  /\ up = "up"
  /\ crashes = 0
  /\ jobs = [p \in Projects |-> NoJob]
  /\ interactive = <<>>
  /\ scheduled = <<>>
  /\ running = FALSE
  /\ run = NoRun
  /\ line = [p \in Projects |-> <<>>]
  /\ row = [p \in Projects |-> "idle"]
  /\ deleting = [p \in Projects |-> "no"]
  /\ committing = [p \in Projects |-> "no"]
  /\ recovered = {}
  /\ edited = [p \in Projects |-> FALSE]
  /\ uploaded = [p \in Projects |-> FALSE]
  /\ forceOwed = [p \in Projects |-> FALSE]
  /\ wanted = [p \in Projects |-> FALSE]

-----------------------------------------------------------------------------
(* The mutex and the lanes.                                                *)

Holds(actor, p) == line[p] # <<>> /\ Head(line[p]) = actor
Join(actor, p) == line' = [line EXCEPT ![p] = Append(@, actor)]
Release(p) == line' = [line EXCEPT ![p] = Tail(@)]

InLane(p, lane) == \E i \in 1..Len(lane) : lane[i] = p
FirstAt(p, lane) == CHOOSE i \in 1..Len(lane) :
                      lane[i] = p /\ \A j \in 1..(i - 1) : lane[j] # p
Without(lane, at) == [i \in 1..(Len(lane) - 1) |-> IF i < at THEN lane[i] ELSE lane[i + 1]]

\* isBusy
IsBusy(p) == jobs[p].phase \in ActivePhases

\* A run takes its project: the synchronous beginning of indexProject.
StartRun(p, job) ==
  /\ run' = [project |-> p, stage |-> "lookup", force |-> job.force, kept |-> TRUE]
  /\ jobs' = [jobs EXCEPT ![p] = [phase |-> "syncing", force |-> job.force, trigger |-> job.trigger]]

-----------------------------------------------------------------------------
(* enqueue                                                                 *)

\* Mutant: a forced request that joins a queued job is forgotten.
CollapseUnforced(p, trigger, force) ==
  LET job == jobs[p]
      promoted == job.phase = "queued" /\ job.trigger = "scheduled" /\ trigger # "scheduled"
      moves == promoted /\ InLane(p, scheduled)
  IN /\ jobs' = [jobs EXCEPT ![p].trigger = IF promoted THEN trigger ELSE @]
     /\ scheduled' = IF moves THEN Without(scheduled, FirstAt(p, scheduled)) ELSE scheduled
     /\ interactive' = IF moves THEN Append(interactive, p) ELSE interactive
     /\ UNCHANGED <<running, run>>

\* Mutant: a promoted job keeps its place in the scheduled lane as well.
CollapseTwice(p, trigger, force) ==
  LET job == jobs[p]
      promoted == job.phase = "queued" /\ job.trigger = "scheduled" /\ trigger # "scheduled"
  IN /\ jobs' = [jobs EXCEPT ![p].trigger = IF promoted THEN trigger ELSE @,
                             ![p].force = @ \/ (force /\ job.phase = "queued")]
     /\ interactive' = IF promoted THEN Append(interactive, p) ELSE interactive
     /\ UNCHANGED <<scheduled, running, run>>

\* A request for a project whose job is active joins that job.  force counts
\* only while the job is queued; a queued scheduled job that a person or a
\* push asks for moves to the interactive lane.
Collapse(p, trigger, force) ==
  LET job == jobs[p]
      promoted == job.phase = "queued" /\ job.trigger = "scheduled" /\ trigger # "scheduled"
      moves == promoted /\ InLane(p, scheduled)
  IN /\ jobs' = [jobs EXCEPT ![p] =
                   [phase   |-> job.phase,
                    force   |-> job.force \/ (force /\ job.phase = "queued"),
                    trigger |-> IF promoted THEN trigger ELSE job.trigger]]
     /\ scheduled' = IF moves THEN Without(scheduled, FirstAt(p, scheduled)) ELSE scheduled
     /\ interactive' = IF moves THEN Append(interactive, p) ELSE interactive
     /\ UNCHANGED <<running, run>>

\* Otherwise a new job goes to the end of its lane; the loop, when it is not
\* already going, starts within the same call and takes the first entry.
NewJob(p, trigger, force) ==
  LET job == [phase |-> "queued", force |-> force, trigger |-> trigger]
  IN IF running
     THEN /\ jobs' = [jobs EXCEPT ![p] = job]
          /\ interactive' = IF trigger = "scheduled" THEN interactive ELSE Append(interactive, p)
          /\ scheduled' = IF trigger = "scheduled" THEN Append(scheduled, p) ELSE scheduled
          /\ UNCHANGED <<running, run>>
     ELSE /\ StartRun(p, job)
          /\ running' = TRUE
          /\ UNCHANGED <<interactive, scheduled>>

Enqueue(p, trigger, force) ==
  /\ IF IsBusy(p) THEN Collapse(p, trigger, force) ELSE NewJob(p, trigger, force)
  /\ forceOwed' = [forceOwed EXCEPT ![p] =
                     @ \/ (force /\ (IsBusy(p) => jobs[p].phase = "queued"))]
  /\ wanted' = [wanted EXCEPT ![p] =
                  IF running /\ (IsBusy(p) => jobs[p].phase = "queued")
                  THEN @ \/ trigger # "scheduled"
                  ELSE FALSE]

\* POST reindex, POST sync, a webhook delivery or a scheduler tick.  The
\* handler looked the project up some awaits ago, so it may be gone by now.
Request(p, trigger, force) ==
  /\ up = "up"
  /\ force => trigger = "manual" /\ p \in Forcible
  /\ Enqueue(p, trigger, force)
  /\ UNCHANGED <<up, crashes, line, row, deleting, committing, recovered, edited, uploaded>>

\* A source's settings are changed (PATCH, POST of a source), or a push
\* changed the origin, and the handler asks for a run.  It holds no mutex.
EditAndRequest(p, trigger) ==
  /\ up = "up" /\ p \in Editable
  /\ row[p] # "absent"
  /\ trigger # "scheduled"
  /\ edited' = [edited EXCEPT ![p] = TRUE]
  /\ Enqueue(p, trigger, FALSE)
  /\ UNCHANGED <<up, crashes, line, row, deleting, committing, recovered, uploaded>>

-----------------------------------------------------------------------------
(* runLoop: interactive first, scheduled only when interactive is empty.   *)

AtTurn == run.stage \in {"none", "ended"}

\* An entry whose job was forgotten is skipped; it costs one turn of the loop.
TakeFrom(p) ==
  /\ IF jobs[p].phase = "none"
     THEN run' = NoRun /\ UNCHANGED jobs
     ELSE StartRun(p, jobs[p])
  /\ wanted' = [wanted EXCEPT ![p] = FALSE]

\* Mutant: the newest entry of the lane is taken.
TakeNewest ==
  /\ running /\ AtTurn
  /\ interactive # <<>>
  /\ interactive' = Without(interactive, Len(interactive))
  /\ TakeFrom(interactive[Len(interactive)])
  /\ UNCHANGED <<up, crashes, scheduled, running, line, row, deleting, committing, recovered, edited, uploaded, forceOwed>>

TakeInteractive ==
  /\ running /\ AtTurn
  /\ interactive # <<>>
  /\ interactive' = Tail(interactive)
  /\ TakeFrom(Head(interactive))
  /\ UNCHANGED <<up, crashes, scheduled, running, line, row, deleting, committing, recovered, edited, uploaded, forceOwed>>

\* Mutant: the scheduled lane does not wait for the other.
TakeScheduledFirst ==
  /\ running /\ AtTurn
  /\ scheduled # <<>>
  /\ scheduled' = Tail(scheduled)
  /\ TakeFrom(Head(scheduled))
  /\ UNCHANGED <<up, crashes, interactive, running, line, row, deleting, committing, recovered, edited, uploaded, forceOwed>>

TakeScheduled ==
  /\ running /\ AtTurn
  /\ interactive = <<>> /\ scheduled # <<>>
  /\ scheduled' = Tail(scheduled)
  /\ TakeFrom(Head(scheduled))
  /\ UNCHANGED <<up, crashes, interactive, running, line, row, deleting, committing, recovered, edited, uploaded, forceOwed>>

\* Mutant: the loop looks at one lane only before it stops.
StopLoopEarly ==
  /\ running /\ AtTurn
  /\ interactive = <<>>
  /\ running' = FALSE
  /\ run' = NoRun
  /\ UNCHANGED <<up, crashes, jobs, interactive, scheduled, line, row, deleting, committing, recovered, edited, uploaded, forceOwed, wanted>>

StopLoop ==
  /\ running /\ AtTurn
  /\ interactive = <<>> /\ scheduled = <<>>
  /\ running' = FALSE
  /\ run' = NoRun
  /\ UNCHANGED <<up, crashes, jobs, interactive, scheduled, line, row, deleting, committing, recovered, edited, uploaded, forceOwed, wanted>>

-----------------------------------------------------------------------------
(* indexProject, stage by stage.                                           *)

SetStage(stage) == run' = [run EXCEPT !.stage = stage]
SetPhase(phase) ==
  jobs' = IF run.kept THEN [jobs EXCEPT ![run.project].phase = phase] ELSE jobs

\* getProjectById outside the mutex, then runExclusive.
LookUp ==
  /\ run.stage = "lookup"
  /\ IF row[run.project] = "absent"
     THEN /\ SetPhase("error") /\ SetStage("ended")
          /\ UNCHANGED line
     ELSE /\ Join("run", run.project) /\ SetStage("lock")
          /\ UNCHANGED jobs
  /\ UNCHANGED <<up, crashes, interactive, scheduled, running, row, deleting, committing, recovered, edited, uploaded, forceOwed, wanted>>

\* Mutant: the project is not looked up again under the mutex.
BeginRunUnchecked ==
  /\ run.stage = "lock" /\ Holds("run", run.project)
  /\ row' = [row EXCEPT ![run.project] = IF @ = "absent" THEN @ ELSE "indexing"]
  /\ SetStage("sync")
  /\ forceOwed' = [forceOwed EXCEPT ![run.project] = @ /\ ~run.force]
  /\ UNCHANGED <<up, crashes, jobs, interactive, scheduled, running, line, deleting, committing, recovered, edited, uploaded, wanted>>

\* Mutant: the run does not wait for the mutex.
BeginRunUnlocked ==
  /\ run.stage = "lock"
  /\ IF row[run.project] = "absent"
     THEN /\ SetPhase("error") /\ SetStage("leave")
          /\ UNCHANGED <<row, forceOwed>>
     ELSE /\ row' = [row EXCEPT ![run.project] = "indexing"]
          /\ SetStage("sync")
          /\ forceOwed' = [forceOwed EXCEPT ![run.project] = @ /\ ~run.force]
          /\ UNCHANGED jobs
  /\ UNCHANGED <<up, crashes, interactive, scheduled, running, line, deleting, committing, recovered, edited, uploaded, wanted>>

\* The project is read again under the mutex; if it is still there the run
\* begins and says so in the row.
BeginRun ==
  /\ run.stage = "lock" /\ Holds("run", run.project)
  /\ IF row[run.project] = "absent"
     THEN /\ SetPhase("error") /\ SetStage("leave")
          /\ UNCHANGED <<row, forceOwed>>
     ELSE /\ row' = [row EXCEPT ![run.project] = "indexing"]
          /\ SetStage("sync")
          /\ forceOwed' = [forceOwed EXCEPT ![run.project] = @ /\ ~run.force]
          /\ UNCHANGED jobs
  /\ UNCHANGED <<up, crashes, interactive, scheduled, running, line, deleting, committing, recovered, edited, uploaded, wanted>>

\* Every source is listed, synced and scanned: what was there is picked up.
SyncSources ==
  /\ run.stage = "sync"
  /\ SetStage("index") /\ SetPhase("embedding")
  /\ edited' = [edited EXCEPT ![run.project] = FALSE]
  /\ uploaded' = [uploaded EXCEPT ![run.project] = FALSE]
  /\ UNCHANGED <<up, crashes, interactive, scheduled, running, line, row, deleting, committing, recovered, forceOwed, wanted>>

\* The final transaction: 'idle', or 'error' when a source failed.  A run
\* that threw, from any point after BeginRun, lands in 'error' as well, or
\* stays 'indexing' when that very UPDATE fails, which is only logged.  A run
\* that ends before it read the sources has reported that it could not.
FinishRun(status) ==
  /\ run.stage = "index" \/ (run.stage = "sync" /\ status # "idle")
  /\ row' = [row EXCEPT ![run.project] = status]
  /\ SetStage("record")
  /\ edited' = [edited EXCEPT ![run.project] = @ /\ run.stage = "index"]
  /\ uploaded' = [uploaded EXCEPT ![run.project] = @ /\ run.stage = "index"]
  /\ UNCHANGED <<up, crashes, jobs, interactive, scheduled, running, line, deleting, committing, recovered, forceOwed, wanted>>

\* Mutant: the job is given the status of the project for a phase.
RecordRunStatus ==
  /\ run.stage = "record"
  /\ SetPhase(row[run.project])
  /\ SetStage("leave")
  /\ UNCHANGED <<up, crashes, interactive, scheduled, running, line, row, deleting, committing, recovered, edited, uploaded, forceOwed, wanted>>

\* recordRun: the history row first, the terminal phase in its finally.
RecordRun ==
  /\ run.stage = "record"
  /\ SetPhase(IF row[run.project] = "idle" THEN "done" ELSE "error")
  /\ SetStage("leave")
  /\ UNCHANGED <<up, crashes, interactive, scheduled, running, line, row, deleting, committing, recovered, edited, uploaded, forceOwed, wanted>>

\* The finally of runExclusive, then indexProject returns to the loop.
LeaveMutex ==
  /\ run.stage = "leave"
  /\ Release(run.project)
  /\ SetStage("ended")
  /\ UNCHANGED <<up, crashes, jobs, interactive, scheduled, running, row, deleting, committing, recovered, edited, uploaded, forceOwed, wanted>>

-----------------------------------------------------------------------------
SaysIndexing(p) == row[p] \in {"indexing", "stuck"}

(* deleteProject and the route around it.                                  *)

AskDelete(p) ==
  /\ up = "up" /\ p \in Deletable /\ deleting[p] = "no"
  /\ row[p] # "absent" /\ ~SaysIndexing(p) /\ ~IsBusy(p)
  /\ Join("delete", p)
  /\ deleting' = [deleting EXCEPT ![p] = "lock"]
  /\ UNCHANGED <<up, crashes, jobs, interactive, scheduled, running, run, row, committing, recovered, edited, uploaded, forceOwed, wanted>>

\* The decision, taken again under the mutex.  Conflict leaves everything.
DecideDelete(p) ==
  /\ deleting[p] = "lock" /\ Holds("delete", p)
  /\ IF SaysIndexing(p) \/ IsBusy(p)
     THEN /\ Release(p)
          /\ deleting' = [deleting EXCEPT ![p] = "no"]
     ELSE /\ deleting' = [deleting EXCEPT ![p] = "drop"]
          /\ UNCHANGED line
  /\ UNCHANGED <<up, crashes, jobs, interactive, scheduled, running, run, row, committing, recovered, edited, uploaded, forceOwed, wanted>>

\* The vector index is gone; the conditional DELETE of the row.
DeleteRow(p) ==
  /\ deleting[p] = "drop"
  /\ Release(p)
  /\ IF SaysIndexing(p)
     THEN /\ deleting' = [deleting EXCEPT ![p] = "no"]
          /\ UNCHANGED row
     ELSE /\ row' = [row EXCEPT ![p] = "absent"]
          /\ deleting' = [deleting EXCEPT ![p] = "forget"]
  /\ UNCHANGED <<up, crashes, jobs, interactive, scheduled, running, run, committing, recovered, edited, uploaded, forceOwed, wanted>>

\* Mutant: the mutex is kept when the index cannot be dropped.
DropIndexFailsLocked(p) ==
  /\ deleting[p] = "drop"
  /\ deleting' = [deleting EXCEPT ![p] = "no"]
  /\ UNCHANGED <<up, crashes, jobs, interactive, scheduled, running, run, line, row, committing, recovered, edited, uploaded, forceOwed, wanted>>

\* Dropping the vector index failed: the request ends, the project stays.
DropIndexFails(p) ==
  /\ deleting[p] = "drop"
  /\ Release(p)
  /\ deleting' = [deleting EXCEPT ![p] = "no"]
  /\ UNCHANGED <<up, crashes, jobs, interactive, scheduled, running, run, row, committing, recovered, edited, uploaded, forceOwed, wanted>>

\* forget: the job leaves the map, an entry in a lane does not.
Forget(p) ==
  /\ deleting[p] = "forget"
  /\ jobs' = [jobs EXCEPT ![p] = NoJob]
  /\ run' = [run EXCEPT !.kept = @ /\ run.project # p]
  /\ wanted' = [wanted EXCEPT ![p] = FALSE]
  /\ deleting' = [deleting EXCEPT ![p] = "no"]
  /\ UNCHANGED <<up, crashes, interactive, scheduled, running, line, row, committing, recovered, edited, uploaded, forceOwed>>

-----------------------------------------------------------------------------
(* Committing an upload (and deleting an uploaded file, the same shape):   *)
(* busy check, write under the mutex, enqueue after it.                    *)

AskCommit(p) ==
  /\ up = "up" /\ p \in WithUploads /\ committing[p] = "no"
  /\ row[p] # "absent" /\ ~IsBusy(p)
  /\ Join("commit", p)
  /\ committing' = [committing EXCEPT ![p] = "lock"]
  /\ UNCHANGED <<up, crashes, jobs, interactive, scheduled, running, run, row, deleting, recovered, edited, uploaded, forceOwed, wanted>>

BeginCommit(p) ==
  /\ committing[p] = "lock" /\ Holds("commit", p)
  /\ committing' = [committing EXCEPT ![p] = "write"]
  /\ UNCHANGED <<up, crashes, jobs, interactive, scheduled, running, run, line, row, deleting, recovered, edited, uploaded, forceOwed, wanted>>

\* A quota refusal, a failed rename or a project that is gone ends the
\* request with nothing committed.
WriteCommit(p, written) ==
  /\ committing[p] = "write"
  /\ written => row[p] # "absent"
  /\ Release(p)
  /\ committing' = [committing EXCEPT ![p] = IF written THEN "enqueue" ELSE "no"]
  /\ uploaded' = [uploaded EXCEPT ![p] = @ \/ written]
  /\ UNCHANGED <<up, crashes, jobs, interactive, scheduled, running, run, row, deleting, recovered, edited, forceOwed, wanted>>

EnqueueCommit(p) ==
  /\ committing[p] = "enqueue"
  /\ Enqueue(p, "manual", FALSE)
  /\ committing' = [committing EXCEPT ![p] = "no"]
  /\ UNCHANGED <<up, crashes, line, row, deleting, recovered, edited, uploaded>>

-----------------------------------------------------------------------------
(* Crash, and recoverInterruptedRuns at the next start.                    *)

\* Everything in memory is gone, the database stays.  Requests that only the
\* queue remembered are lost with it, and nothing promises otherwise.
Crash ==
  /\ up # "down" /\ crashes < MaxCrashes
  /\ up' = "down"
  /\ crashes' = crashes + 1
  /\ jobs' = [p \in Projects |-> NoJob]
  /\ interactive' = <<>> /\ scheduled' = <<>>
  /\ running' = FALSE /\ run' = NoRun
  /\ line' = [p \in Projects |-> <<>>]
  /\ deleting' = [p \in Projects |-> "no"]
  /\ committing' = [p \in Projects |-> "no"]
  /\ recovered' = {}
  /\ edited' = [p \in Projects |-> FALSE]
  /\ uploaded' = [p \in Projects |-> FALSE]
  /\ forceOwed' = [p \in Projects |-> FALSE]
  /\ wanted' = [p \in Projects |-> FALSE]
  /\ UNCHANGED row

\* Mutant: the interrupted runs are found but their status stays.
RecoverStatusKept ==
  /\ up = "down"
  /\ up' = "recovering"
  /\ recovered' = {p \in Projects : SaysIndexing(p)}
  /\ UNCHANGED <<crashes, memory, row, edited, uploaded, forceOwed, wanted>>

\* Mutant: the status is reset and nothing is run again.
RecoverStatusOnly ==
  /\ up = "down"
  /\ up' = "recovering"
  /\ recovered' = {}
  /\ row' = [p \in Projects |-> IF SaysIndexing(p) THEN "error" ELSE row[p]]
  /\ UNCHANGED <<crashes, memory, edited, uploaded, forceOwed, wanted>>

\* One UPDATE ... RETURNING takes every project out of 'indexing'.
Recover ==
  /\ up = "down"
  /\ up' = "recovering"
  /\ recovered' = {p \in Projects : SaysIndexing(p)}
  /\ row' = [p \in Projects |-> IF SaysIndexing(p) THEN "error" ELSE row[p]]
  /\ UNCHANGED <<crashes, memory, edited, uploaded, forceOwed, wanted>>

\* An incremental run in the scheduled lane, whatever was interrupted.
Requeue(p) ==
  /\ up = "recovering" /\ p \in recovered
  /\ recovered' = recovered \ {p}
  /\ Enqueue(p, "scheduled", FALSE)
  /\ UNCHANGED <<up, crashes, line, row, deleting, committing, edited, uploaded>>

Listen ==
  /\ up = "recovering" /\ recovered = {}
  /\ up' = "up"
  /\ UNCHANGED <<crashes, memory, row, recovered, edited, uploaded, forceOwed, wanted>>

-----------------------------------------------------------------------------
Loop == TakeInteractive \/ TakeScheduled \/ StopLoop

IndexProject ==
  \/ LookUp \/ BeginRun \/ SyncSources \/ RecordRun \/ LeaveMutex
  \/ \E status \in {"idle", "error", "stuck"} : FinishRun(status)

DeleteProject(p) == DecideDelete(p) \/ DeleteRow(p) \/ DropIndexFails(p) \/ Forget(p)
CommitUpload(p) ==
  \/ BeginCommit(p) \/ EnqueueCommit(p)
  \/ \E written \in BOOLEAN : WriteCommit(p, written)

Client(p) ==
  \/ \E trigger \in Triggers, force \in BOOLEAN : Request(p, trigger, force)
  \/ \E trigger \in Triggers : EditAndRequest(p, trigger)
  \/ AskDelete(p) \/ AskCommit(p)

Startup == Recover \/ Listen \/ \E p \in Projects : Requeue(p)

Next ==
  \/ Loop \/ IndexProject
  \/ \E p \in Projects : Client(p) \/ DeleteProject(p) \/ CommitUpload(p)
  \/ Crash \/ Startup

Spec == Init /\ [][Next]_vars

\* The event loop runs what is ready, and the awaited calls end: a sync and a
\* conversion have timeouts, and the process is started again.
Fairness ==
  /\ WF_vars(Loop) /\ WF_vars(IndexProject) /\ WF_vars(Startup)
  /\ \A p \in Projects : WF_vars(DeleteProject(p)) /\ WF_vars(CommitUpload(p))

FairSpec == Spec /\ Fairness
-----------------------------------------------------------------------------
(* Types.                                                                  *)

\* Every variable stays in its type.
TypeOK ==
  /\ up \in {"up", "down", "recovering"}
  /\ crashes \in 0..MaxCrashes
  /\ jobs \in [Projects -> Job]
  /\ interactive \in Seq(Projects)
  /\ scheduled \in Seq(Projects)
  /\ running \in BOOLEAN
  /\ run \in Run
  /\ line \in [Projects -> Seq(Actors)]
  /\ row \in [Projects -> Statuses]
  /\ deleting \in [Projects -> {"no", "lock", "drop", "forget"}]
  /\ committing \in [Projects -> {"no", "lock", "write", "enqueue"}]
  /\ recovered \in SUBSET Projects
  /\ edited \in [Projects -> BOOLEAN]
  /\ uploaded \in [Projects -> BOOLEAN]
  /\ forceOwed \in [Projects -> BOOLEAN]
  /\ wanted \in [Projects -> BOOLEAN]

-----------------------------------------------------------------------------
(* Safety.                                                                 *)

\* A run that is past its second look at the project owns the project: it
\* holds the mutex, the row is still there, and neither a delete nor an
\* upload commit is in the middle of its own work.  This is what makes
\* "is it busy" and the DELETE one step (deleteProject, indexProject).
RunOwnsItsProject ==
  run.stage \in {"sync", "index", "record"} =>
    /\ Holds("run", run.project)
    /\ row[run.project] # "absent"
    /\ deleting[run.project] \in {"no", "lock"}
    /\ committing[run.project] # "write"

\* A project says 'indexing' only while a run is really behind it, or while
\* the process is down after dying under one.  That status blocks deletion
\* and source edits, so a project left in it would be stuck.
IndexingMeansRunning ==
  \A p \in Projects :
    row[p] = "indexing" =>
      \/ run.project = p /\ run.stage \in {"sync", "index"}
      \/ up = "down"

\* No wake-up is lost: a loop that stopped left no entry in a lane and no
\* queued job, because the emptiness test and running = false are one step
\* and enqueue pushes before it looks at running.
NoLostWakeup ==
  ~running => /\ interactive = <<>> /\ scheduled = <<>>
              /\ run.stage = "none"
              /\ \A p \in Projects : ~IsBusy(p)

\* The lanes and the map of jobs tell the same story: the job of a project
\* that still exists is queued exactly when the project stands in one lane,
\* once, and it is the lane of its trigger, promotions included.
StandsOnce(p, lane) ==
  \E i \in 1..Len(lane) : \A j \in 1..Len(lane) : lane[j] = p <=> j = i

LaneOf(trigger) == IF trigger = "scheduled" THEN scheduled ELSE interactive
OtherLane(trigger) == IF trigger = "scheduled" THEN interactive ELSE scheduled

QueuedOnce ==
  \A p \in Projects : row[p] # "absent" =>
    IF jobs[p].phase = "queued"
    THEN StandsOnce(p, LaneOf(jobs[p].trigger)) /\ ~InLane(p, OtherLane(jobs[p].trigger))
    ELSE ~InLane(p, interactive) /\ ~InLane(p, scheduled)

\* A committed upload is always waiting for a run that has not read the
\* sources yet, or for the enqueue that follows the commit.  The commit
\* enqueues after it let the mutex go, and the run before it publishes its
\* terminal phase while it still holds the mutex: were it the other way
\* round, the enqueue would join a run that is over.
CommittedUploadIsIndexed ==
  \A p \in Projects : uploaded[p] /\ row[p] # "absent" =>
    committing[p] = "enqueue" \/ jobs[p].phase \in {"queued", "syncing"}

\* A forced re-index that was accepted for a queued or a new job is carried
\* out by the next run of the project, whatever other requests joined the
\* job in between.
ForceKept ==
  \A p \in Projects : forceOwed[p] /\ row[p] # "absent" =>
    \/ jobs[p].phase = "queued" /\ jobs[p].force
    \/ run.project = p /\ run.stage \in {"lookup", "lock"} /\ run.force

\* What scheduler.ts says of a busy project and sources-routes.ts of changed
\* settings: a run in flight or queued covers the change, so nothing is left
\* silently stale.  The code breaks it: a request that meets a run past its
\* sync joins that run and is gone.
EditIsIndexed ==
  \A p \in Projects : edited[p] /\ row[p] # "absent" => IsBusy(p)

-----------------------------------------------------------------------------
(* What a step may never do.                                               *)

\* Nobody who asked waits behind a timer: a run nobody asked for is never
\* taken while a job somebody asked for is queued, even when that job was
\* first queued by the scheduler behind others and only joined afterwards.
\* (The run of a project that is gone ends at once and may come from an entry
\* that outlived its job.)
PeopleFirst ==
  [][\A q \in Projects :
       run.stage # "lookup" /\ run'.stage = "lookup" /\ run'.project = q
         /\ ~wanted[q] /\ row[q] # "absent" =>
         \A p \in Projects : ~(wanted[p] /\ jobs[p].phase = "queued")]_vars

-----------------------------------------------------------------------------
(* Liveness.                                                               *)

Waits(p, lane) == jobs[p].phase = "queued" /\ InLane(p, lane)

\* A job in the interactive lane is started, however much is asked meanwhile.
InteractiveJobStarts ==
  \A p \in Projects : Waits(p, interactive) ~> ~Waits(p, interactive)

\* A scheduled job is started once people stop asking: strict priority
\* starves the lane as long as they do not, by design.
ScheduledJobStarts ==
  <>[](interactive = <<>>) => \A p \in Projects : Waits(p, scheduled) ~> ~Waits(p, scheduled)

\* A run that died with the process is run again (when people stop asking,
\* as above): the recovery finds it and nothing takes it from the queue.
InterruptedRunIsRepeated ==
  <>[](interactive = <<>>) =>
    \A p \in Projects : up = "down" /\ SaysIndexing(p) ~> (run.project = p /\ run.stage = "sync")

\* Nobody waits for everybody: a delete and a commit that wait for the mutex
\* get their answer.
RequestsAnswered ==
  \A p \in Projects :
    /\ deleting[p] # "no" ~> deleting[p] = "no"
    /\ committing[p] # "no" ~> committing[p] = "no"

\* What the database says of a project is what goes on (the status that indexProject and
\* the recovery write): a run is of a project that is there, and "indexing" is no row's
\* last word.
RunAndRowAgree == RunOwnsItsProject /\ IndexingMeansRunning

\* Collapsing requests into the job there is loses none and doubles none (enqueue,
\* promote): every queued job is in one lane, once, and a rebuild somebody asked for stays
\* asked for.
JobsAreKept == QueuedOnce /\ ForceKept

\* The loop, the recovery and the mutex go on: jobs of people start, those of timers when
\* people leave them a turn, what a crash cut short is run again, and who waits to delete or to
\* commit gets an answer.
QueueGoesOn ==
  /\ InteractiveJobStarts
  /\ ScheduledJobStarts
  /\ InterruptedRunIsRepeated
  /\ RequestsAnswered
=============================================================================
