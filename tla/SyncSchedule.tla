---------------------------- MODULE SyncSchedule ----------------------------
(***************************************************************************)
(* When a source is synced.  The scheduler of services/scheduler.ts looks  *)
(* once a minute for sources that are due, by their interval or by the     *)
(* claim of a webhook delivery (services/notion-webhook.ts), and lets a    *)
(* cheap probe save the run of those that look unchanged.  What the probe  *)
(* compares is in module SourceToken; here it answers as it likes.         *)
(*                                                                         *)
(* The queue is in module IndexQueue; here a project's job waits for its   *)
(* turn, whatever that takes.  Every await of the tick, the run and the    *)
(* webhook route is a step boundary.                                       *)
(*                                                                         *)
(* Time is counted in minutes.  Instants are kept relative to now: a due   *)
(* time as the minutes left (zero and below: due), last_synced_at as the   *)
(* minutes gone.  Both stop at the first value past every comparison.      *)
(***************************************************************************)
EXTENDS Integers, FiniteSets

CONSTANTS
  Sources,      \* the sources of all projects,
  ProjectOf,    \* and whose they are
  None,         \* NULL
  Interval,     \* sync_interval_minutes of each source, None when unscheduled
  MinGap,       \* the minimum between webhook runs, in minutes
  MaxSkip,      \* SYNC_MAX_SKIP_HOURS, in minutes here; 0 switches it off
  Cap,          \* SYNC_PROBES_PER_TICK
  Pushed,       \* the sources a webhook reports on
  MaxLate       \* bound: nothing is counted as overdue for longer

ASSUME NoneAssumption == None \notin Int \cup Sources
ASSUME IntervalAssumption == Interval \in [Sources -> (Nat \ {0}) \cup {None}]
ASSUME BoundsAssumption ==
  /\ MinGap \in Nat /\ MaxSkip \in Nat
  /\ Cap \in Nat \ {0} /\ MaxLate \in Nat \ {0}
ASSUME ProjectAssumption == DOMAIN ProjectOf = Sources
ASSUME PushedAssumption == Pushed \subseteq Sources

VARIABLES
  next,        \* next_sync_at of each source
  claim,       \* webhook_due_at
  synced,      \* last_synced_at
  job,         \* the job of each project: "idle", "queued", "running"
  progress,    \* how far its run is with each source
  timer,       \* the minute's setInterval callback
  tick,        \* runSyncTick
  rest,        \* minutes since a tick last took the source
  delivering,  \* deliveries noted and about to enqueue
  owed         \* a delivery was accepted and no run has read the source since,
               \* nor was its request joined to a run that had read it already

jobs == <<job, progress>>
vars == <<next, claim, synced, jobs, timer, tick, rest, delivering, owed>>

Projects == {ProjectOf[s] : s \in Sources}
SourcesOf(p) == {s \in Sources : ProjectOf[s] = p}
Scheduled(s) == Interval[s] # None
LongAgo == IF MaxSkip + 1 > MinGap THEN MaxSkip + 1 ELSE MinGap
NoTick == [at |-> "off", batch |-> {}, synced |-> <<>>, claimed |-> {},
           probing |-> None, enqueued |-> {}]

\* Created and never synced.  The first due time is a random part of the
\* interval away (firstSyncDueAt); NULL in a restored row is the oldest of all.
Init ==
  /\ next \in {first \in [Sources -> {-MaxLate, 1, None}] :
                 \A s \in Sources : first[s] = None <=> ~Scheduled(s)}
  /\ claim = [s \in Sources |-> None]
  /\ synced = [s \in Sources |-> None]
  /\ job = [p \in Projects |-> "idle"]
  /\ progress = [s \in Sources |-> "todo"]
  /\ timer = "quiet" /\ tick = NoTick
  /\ rest = [s \in Sources |-> IF Scheduled(s) THEN Interval[s] ELSE 0]
  /\ delivering = {}
  /\ owed = [s \in Sources |-> FALSE]

\* The timer fires once a minute; the event loop is never blocked that long.
\* A tick is bounded: it is over before the second timer after its own.
Clock ==
  /\ timer = "quiet"
  /\ timer' = "fired"
  /\ LET Later(t) == IF t = None THEN t ELSE IF t > -MaxLate THEN t - 1 ELSE t
         Older(t) == IF t = None THEN t ELSE IF t < LongAgo THEN t + 1 ELSE t
     IN /\ next' = [s \in Sources |-> Later(next[s])]
        /\ claim' = [s \in Sources |-> Later(claim[s])]
        /\ synced' = [s \in Sources |-> Older(synced[s])]
  /\ rest' = [s \in Sources |->
                IF Scheduled(s) /\ rest[s] < Interval[s] THEN rest[s] + 1 ELSE rest[s]]
  /\ UNCHANGED <<jobs, tick, delivering, owed>>

-----------------------------------------------------------------------------
(* enqueue, as far as it matters here (IndexQueue has all of it).          *)

IsBusy(p) == job[p] # "idle"
AlreadyRead(s) == job[ProjectOf[s]] = "running" /\ progress[s] # "todo"

Enqueue(p) ==
  /\ job' = [job EXCEPT ![p] = IF IsBusy(p) THEN @ ELSE "queued"]
  /\ UNCHANGED progress

\* A request on behalf of s that meets a run past its reading of s joins it
\* and is lost (EditIsIndexed of IndexQueue); it is not counted as owed again.
Joined(s) == owed' = [owed EXCEPT ![s] = @ /\ ~AlreadyRead(s)]

\* "Sync now", a push to a git source, a commit of an upload.
SyncNow(p) ==
  /\ Enqueue(p)
  /\ UNCHANGED <<next, claim, synced, timer, tick, rest, delivering, owed>>

-----------------------------------------------------------------------------
(* A delivery of Notion or Confluence: one UPDATE, then perhaps enqueue.   *)

RunOwed(s) == IF synced[s] = None THEN TRUE ELSE synced[s] >= MinGap

\* noteDelivery.  The claim is for the end of the minimum gap, or earlier.
NoteDelivery(s) ==
  /\ s \in Pushed \ delivering
  /\ owed' = [owed EXCEPT ![s] = TRUE]
  /\ IF RunOwed(s)
     THEN /\ delivering' = delivering \cup {s}
          /\ UNCHANGED claim
     ELSE LET due == MinGap - synced[s]
          IN /\ claim' = [claim EXCEPT ![s] = IF @ = None THEN due ELSE IF @ < due THEN @ ELSE due]
             /\ UNCHANGED delivering
  /\ UNCHANGED <<next, synced, jobs, timer, tick, rest>>

EnqueueDelivery(s) ==
  /\ s \in delivering
  /\ delivering' = delivering \ {s}
  /\ Enqueue(ProjectOf[s]) /\ Joined(s)
  /\ UNCHANGED <<next, claim, synced, timer, tick, rest>>

-----------------------------------------------------------------------------
(* runSyncTick.                                                            *)

ScheduleDue(s) == IF next[s] = None THEN FALSE ELSE next[s] <= 0
ClaimDue(s) == IF claim[s] = None THEN FALSE ELSE claim[s] <= 0

\* The earlier of the schedule and the claim.
ClaimTime(s) ==
  IF next[s] = None THEN claim[s]
  ELSE IF claim[s] = None THEN next[s]
  ELSE IF next[s] < claim[s] THEN next[s] ELSE claim[s]

Capped(n) == IF n < Cap THEN n ELSE Cap

\* Mutant: the newest first.
NewestFirst(due) ==
  {batch \in SUBSET due :
     /\ Cardinality(batch) = Capped(Cardinality(due))
     /\ \A s \in batch, t \in due \ batch : ClaimTime(s) >= ClaimTime(t)}

\* The batches dueSources may answer: the oldest first, up to the cap.
OldestFirst(due) ==
  {batch \in SUBSET due :
     /\ Cardinality(batch) = Capped(Cardinality(due))
     /\ \A s \in batch, t \in due \ batch : ClaimTime(s) <= ClaimTime(t)}

\* dueSources.  The tick goes on with the rows as they are now.
BeginTick ==
  /\ timer = "fired" /\ tick.at = "off"
  /\ timer' = "quiet"
  /\ LET due == {s \in Sources : ScheduleDue(s) \/ ClaimDue(s)}
     IN IF due = {}
        THEN UNCHANGED tick
        ELSE \E batch \in OldestFirst(due) :
               tick' = [NoTick EXCEPT !.at = "advance", !.batch = batch,
                                      !.synced = [s \in batch |-> synced[s]]]
  /\ UNCHANGED <<next, claim, synced, jobs, rest, delivering, owed>>

\* The timer fires while a tick is going on.
MissTick ==
  /\ timer = "fired" /\ tick.at # "off"
  /\ timer' = "missed"
  /\ UNCHANGED <<next, claim, synced, jobs, tick, rest, delivering, owed>>

\* Mutant: a whole interval from the due time that was missed.
AdvanceFromDueTime ==
  /\ tick.at = "advance"
  /\ next' = [s \in Sources |->
                IF s \in tick.batch /\ Scheduled(s) THEN next[s] + Interval[s] ELSE next[s]]
  /\ rest' = [s \in Sources |-> IF s \in tick.batch THEN 0 ELSE rest[s]]
  /\ tick' = [tick EXCEPT !.at = "claim"]
  /\ UNCHANGED <<claim, synced, jobs, timer, delivering, owed>>

\* A whole interval from now, before anything is decided.
AdvanceDueTimes ==
  /\ tick.at = "advance"
  /\ next' = [s \in Sources |->
                IF s \in tick.batch /\ Scheduled(s) THEN Interval[s] ELSE next[s]]
  /\ rest' = [s \in Sources |-> IF s \in tick.batch THEN 0 ELSE rest[s]]
  /\ tick' = [tick EXCEPT !.at = "claim"]
  /\ UNCHANGED <<claim, synced, jobs, timer, delivering, owed>>

\* Mutant: every due claim, not only those of the batch.
TakeAllClaims ==
  /\ tick.at = "claim"
  /\ LET taken == {s \in Sources : ClaimDue(s)}
     IN /\ claim' = [s \in Sources |-> IF s \in taken THEN None ELSE claim[s]]
        /\ tick' = [tick EXCEPT !.at = "decide", !.claimed = taken]
  /\ UNCHANGED <<next, synced, jobs, timer, rest, delivering, owed>>

\* A claim written since the SELECT lies in the future and stays.
TakeWebhookClaims ==
  /\ tick.at = "claim"
  /\ LET taken == {s \in tick.batch : ClaimDue(s)}
     IN /\ claim' = [s \in Sources |-> IF s \in taken THEN None ELSE claim[s]]
        /\ tick' = [tick EXCEPT !.at = "decide", !.claimed = taken]
  /\ UNCHANGED <<next, synced, jobs, timer, rest, delivering, owed>>

Turn(s) == tick.at = "decide" /\ tick.probing = None /\ s \in tick.batch

\* Mutant: a source that never completed a sync is left to its probe.
PastMaxSkipAgeOnceSynced(last) == MaxSkip > 0 /\ IF last = None THEN FALSE ELSE last > MaxSkip

PastMaxSkipAge(last) == MaxSkip > 0 /\ IF last = None THEN TRUE ELSE last > MaxSkip

\* On to the next source of the batch, or the end of the tick.
Decided(s, enqueued) ==
  IF tick.batch = {s}
  THEN /\ tick' = NoTick
       /\ timer' = IF timer = "missed" THEN "quiet" ELSE timer
  ELSE /\ tick' = [tick EXCEPT !.batch = @ \ {s}, !.probing = None, !.claimed = @ \ {s},
                               !.synced = [t \in tick.batch \ {s} |-> @[t]],
                               !.enqueued = enqueued]
       /\ UNCHANGED timer

\* A tick asks for a run of a project once.
EnqueueOnce(s) ==
  /\ IF ProjectOf[s] \in tick.enqueued THEN UNCHANGED jobs ELSE Enqueue(ProjectOf[s])
  /\ Decided(s, tick.enqueued \cup {ProjectOf[s]})

\* The run in flight or queued syncs every source of the project.
SkipBusy(s) ==
  /\ Turn(s) /\ IsBusy(ProjectOf[s])
  /\ IF s \in tick.claimed THEN Joined(s) ELSE UNCHANGED owed
  /\ Decided(s, tick.enqueued)
  /\ UNCHANGED <<next, claim, synced, jobs, rest, delivering>>

\* For the delivery's sake, or for want of a recent sync.
RunUnprobed(s) ==
  /\ Turn(s) /\ ~IsBusy(ProjectOf[s])
  /\ s \in tick.claimed \/ PastMaxSkipAge(tick.synced[s])
  /\ EnqueueOnce(s)
  /\ UNCHANGED <<next, claim, synced, rest, delivering, owed>>

\* Mutant: the probe is asked about a claimed source as well.
ProbeClaimedToo(s) ==
  /\ Turn(s) /\ ~IsBusy(ProjectOf[s])
  /\ ~PastMaxSkipAge(tick.synced[s])
  /\ tick' = [tick EXCEPT !.probing = s]
  /\ UNCHANGED <<next, claim, synced, jobs, timer, rest, delivering, owed>>

BeginProbe(s) ==
  /\ Turn(s) /\ ~IsBusy(ProjectOf[s])
  /\ s \notin tick.claimed /\ ~PastMaxSkipAge(tick.synced[s])
  /\ tick' = [tick EXCEPT !.probing = s]
  /\ UNCHANGED <<next, claim, synced, jobs, timer, rest, delivering, owed>>

AnswerProbe(s, unchanged) ==
  /\ tick.probing = s
  /\ IF unchanged
     THEN Decided(s, tick.enqueued) /\ UNCHANGED jobs
     ELSE EnqueueOnce(s)
  /\ UNCHANGED <<next, claim, synced, rest, delivering, owed>>

-----------------------------------------------------------------------------
(* A run of a project, one run at a time: each of its sources is synced,   *)
(* then it goes on with the documents, which may fail.                     *)

StartRun(p) ==
  /\ job[p] = "queued" /\ \A q \in Projects : job[q] # "running"
  /\ job' = [job EXCEPT ![p] = "running"]
  /\ UNCHANGED <<next, claim, synced, progress, timer, tick, rest, delivering, owed>>

\* What is at the origin is read; deliveries so far are answered by it.
ReadSource(s) ==
  /\ job[ProjectOf[s]] = "running" /\ progress[s] = "todo"
  /\ \A t \in Sources : progress[t] # "read"
  /\ progress' = [progress EXCEPT ![s] = "read"]
  /\ owed' = [owed EXCEPT ![s] = FALSE]
  /\ UNCHANGED <<next, claim, synced, job, timer, tick, rest, delivering>>

\* recordSyncedSource; a sync that threw leaves last_synced_at as it was.
SyncEnds(s, threw) ==
  /\ progress[s] = "read"
  /\ progress' = [progress EXCEPT ![s] = "done"]
  /\ synced' = [synced EXCEPT ![s] = IF threw THEN @ ELSE 0]
  /\ UNCHANGED <<next, claim, job, timer, tick, rest, delivering, owed>>

EndRun(p) ==
  /\ job[p] = "running" /\ \A s \in SourcesOf(p) : progress[s] = "done"
  /\ job' = [job EXCEPT ![p] = "idle"]
  /\ progress' = [s \in Sources |-> IF s \in SourcesOf(p) THEN "todo" ELSE progress[s]]
  /\ UNCHANGED <<next, claim, synced, timer, tick, rest, delivering, owed>>

-----------------------------------------------------------------------------
Decide(s) ==
  \/ SkipBusy(s) \/ RunUnprobed(s) \/ BeginProbe(s)
  \/ \E unchanged \in BOOLEAN : AnswerProbe(s, unchanged)

SyncTick ==
  \/ BeginTick \/ MissTick \/ AdvanceDueTimes \/ TakeWebhookClaims
  \/ \E s \in Sources : Decide(s)

IndexProject ==
  \/ \E p \in Projects : StartRun(p) \/ EndRun(p)
  \/ \E s \in Sources : ReadSource(s) \/ \E threw \in BOOLEAN : SyncEnds(s, threw)

Next ==
  \/ Clock \/ SyncTick \/ IndexProject
  \/ \E p \in Projects : SyncNow(p)
  \/ \E s \in Sources : NoteDelivery(s) \/ EnqueueDelivery(s)

Spec == Init /\ [][Next]_vars

\* Minutes pass, ticks and requests get on, a queued job gets its turn
\* (IndexQueue), and a source that is synced again and again is not refused
\* every time.
Fairness ==
  /\ WF_vars(Clock) /\ WF_vars(SyncTick) /\ WF_vars(IndexProject)
  /\ \A p \in Projects : SF_vars(StartRun(p))
  /\ \A s \in Pushed : WF_vars(EnqueueDelivery(s))
  /\ \A s \in Sources : Scheduled(s) => SF_vars(SyncEnds(s, FALSE))

FairSpec == Spec /\ Fairness
-----------------------------------------------------------------------------
\* Every variable stays in its type.
TypeOK ==
  /\ \A s \in Sources : IF Scheduled(s) THEN next[s] \in (-MaxLate)..Interval[s] ELSE next[s] = None
  /\ claim \in [Sources -> (-MaxLate)..MinGap \cup {None}]
  /\ synced \in [Sources -> 0..LongAgo \cup {None}]
  /\ job \in [Projects -> {"idle", "queued", "running"}]
  /\ progress \in [Sources -> {"todo", "read", "done"}]
  /\ timer \in {"quiet", "fired", "missed"}
  /\ tick.at \in {"off", "advance", "claim", "decide"}
  /\ tick.claimed \subseteq tick.batch /\ tick.batch \subseteq Sources
  /\ DOMAIN tick.synced = tick.batch
  /\ tick.probing \in tick.batch \cup {None} /\ tick.enqueued \subseteq Projects
  /\ rest \in [Sources -> Nat]
  /\ delivering \subseteq Sources
  /\ owed \in [Sources -> BOOLEAN]

\* A delivery that was accepted is in somebody's hands until a run reads the
\* source: the claim in the row, the route about to enqueue, the tick that
\* took the claim, or a job that has still to read it.  A probe, which cannot
\* see a deletion, must not have the last word on a claimed source
\* (runSyncTick).
DeliveryRemembered ==
  \A s \in Sources : owed[s] =>
    \/ claim[s] # None
    \/ s \in delivering
    \/ tick.at = "decide" /\ s \in tick.claimed
    \/ IsBusy(ProjectOf[s]) /\ ~AlreadyRead(s)

\* There is no hot loop: a tick does not take a source again by its schedule
\* before a whole interval has gone, however long the run it asked for takes
\* and however late the tick was itself (advanceDueTimes).
NoHotLoop ==
  [][\A s \in Sources :
       tick.at = "off" /\ s \in tick'.batch /\ ~ClaimDue(s) => rest[s] >= Interval[s]]_vars

\* Every scheduled source is synced again and again, though its probe may
\* answer "unchanged" for ever, syncs throw, and there are more sources due
\* than a tick takes (pastMaxSkipAge, dueSources).
SyncedAgainAndAgain == \A s \in Sources : Scheduled(s) => []<>(synced[s] = 0)

\* An accepted delivery is answered: a run reads the source after it, also
\* of a source without a schedule, which only its claim brings to a tick.
DeliveryAnswered == \A s \in Sources : owed[s] ~> ~owed[s]

\* Ticks that are late, skipped or cut short by the cap starve nobody (runSyncTick): every
\* scheduled source is synced again, and every delivery answered.
ScheduleGoesOn == SyncedAgainAndAgain /\ DeliveryAnswered
=============================================================================
