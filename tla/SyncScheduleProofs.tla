------------------------- MODULE SyncScheduleProofs -------------------------
(***************************************************************************)
(* What holds of the scheduler for every set of sources and projects,      *)
(* every interval, gap, cap and age.  The argument:                        *)
(*                                                                         *)
(*   NoHotLoop           the minutes to the due time and the minutes since *)
(*                       a tick took the source make up an interval        *)
(*   DeliveryRemembered  a probe is never out for a claimed source, and a  *)
(*                       tick that has asked for the project's run owes    *)
(*                       its claimed sources nothing more                  *)
(***************************************************************************)
EXTENDS SyncSchedule, TLAPS

Fields == {"at", "batch", "synced", "claimed", "probing", "enqueued"}

TickInv ==
  /\ tick = [f \in Fields |-> tick[f]]
  /\ tick.at = "off" => tick.batch = {}
  /\ tick.at # "decide" => tick.claimed = {} /\ tick.probing = None
  /\ tick.probing \notin tick.claimed
  /\ tick.at \in {"off", "advance", "claim"} => tick.enqueued = {}

JobInv == \A s \in Sources : job[ProjectOf[s]] # "running" => progress[s] = "todo"

TypeInv == TypeOK /\ TickInv /\ JobInv

LEMMA ProjectTypes == \A s \in Sources : ProjectOf[s] \in Projects
BY DEF Projects

LEMMA LongAgoType == LongAgo \in Nat \ {0} /\ MinGap <= LongAgo
BY BoundsAssumption DEF LongAgo

LEMMA NoTickType ==
  /\ NoTick = [f \in Fields |-> NoTick[f]]
  /\ NoTick.at = "off" /\ NoTick.batch = {} /\ NoTick.claimed = {} /\ NoTick.probing = None
  /\ NoTick.enqueued = {} /\ DOMAIN NoTick.synced = {}
<1>1. NoTick.synced = <<>>
  BY DEF NoTick
<1>2. DOMAIN NoTick.synced = {}
  BY <1>1
<1> QED
  BY <1>2 DEF NoTick, Fields

LEMMA InitType == Init => TypeInv
<1> SUFFICES ASSUME Init PROVE TypeInv
  OBVIOUS
<1>1. \A s \in Sources : IF Scheduled(s) THEN next[s] \in (-MaxLate)..Interval[s] ELSE next[s] = None
  BY NoneAssumption, IntervalAssumption, BoundsAssumption DEF Init, Scheduled
<1>2. rest \in [Sources -> Nat]
  BY IntervalAssumption DEF Init, Scheduled
<1> QED
  BY <1>1, <1>2, NoTickType DEF Init, TypeInv, TypeOK, TickInv, JobInv

LEMMA ClockType == ASSUME TypeInv, Clock PROVE TypeInv'
<1>1. \A s \in Sources : IF Scheduled(s) THEN next'[s] \in (-MaxLate)..Interval[s] ELSE next'[s] = None
  BY NoneAssumption, IntervalAssumption, BoundsAssumption DEF Clock, Scheduled, TypeInv, TypeOK
<1>2. claim' \in [Sources -> (-MaxLate)..MinGap \cup {None}]
  BY NoneAssumption, BoundsAssumption DEF Clock, TypeInv, TypeOK
<1>3. synced' \in [Sources -> 0..LongAgo \cup {None}]
  BY NoneAssumption, LongAgoType DEF Clock, TypeInv, TypeOK
<1>4. rest' \in [Sources -> Nat]
  BY DEF Clock, TypeInv, TypeOK
<1>5. timer' \in {"quiet", "fired", "missed"}
  BY DEF Clock
<1> QED
  BY <1>1, <1>2, <1>3, <1>4, <1>5 DEF Clock, jobs, TypeInv, TypeOK, TickInv, JobInv

LEMMA EnqueueType ==
  ASSUME TypeInv, NEW p \in Projects, Enqueue(p)
  PROVE  /\ job' \in [Projects -> {"idle", "queued", "running"}]
         /\ progress' = progress /\ JobInv'
         /\ \A q \in Projects : job[q] # "idle" => job'[q] = job[q]
         /\ \A q \in Projects : job'[q] = "running" => job[q] = "running"
         /\ job'[p] # "idle"
BY ProjectTypes DEF Enqueue, IsBusy, TypeInv, TypeOK, JobInv

LEMMA OwedType == ASSUME TypeOK, NEW s, Joined(s) PROVE owed' \in [Sources -> BOOLEAN]
BY DEF Joined, TypeOK

LEMMA DeliveryType ==
  ASSUME TypeInv, NEW s \in Sources, NoteDelivery(s) \/ EnqueueDelivery(s)
  PROVE  TypeInv'
<1>1. CASE NoteDelivery(s)
  <2>1. claim' \in [Sources -> (-MaxLate)..MinGap \cup {None}]
    <3>1. CASE RunOwed(s)
      BY <1>1, <3>1 DEF NoteDelivery, TypeInv, TypeOK
    <3>2. CASE ~RunOwed(s)
      <4> DEFINE due == MinGap - synced[s]
      <4>1. due \in 0..MinGap
        BY <3>2, BoundsAssumption, NoneAssumption, LongAgoType DEF RunOwed, TypeInv, TypeOK
      <4>2. claim' = [claim EXCEPT ![s] = IF @ = None THEN due ELSE IF @ < due THEN @ ELSE due]
        BY <1>1, <3>2 DEF NoteDelivery
      <4> HIDE DEF due
      <4> QED
        BY <4>1, <4>2, BoundsAssumption DEF TypeInv, TypeOK
    <3> QED
      BY <3>1, <3>2
  <2>2. delivering' \subseteq Sources /\ owed' \in [Sources -> BOOLEAN]
    BY <1>1 DEF NoteDelivery, TypeInv, TypeOK
  <2> QED
    BY <1>1, <2>1, <2>2 DEF NoteDelivery, jobs, TypeInv, TypeOK, TickInv, JobInv
<1>2. CASE EnqueueDelivery(s)
  BY <1>2, ProjectTypes, EnqueueType, OwedType DEF EnqueueDelivery, TypeInv, TypeOK, TickInv
<1> QED
  BY <1>1, <1>2

LEMMA BeginTickFacts ==
  ASSUME TypeInv, BeginTick
  PROVE  \/ tick' = tick
         \/ /\ tick'.at = "advance" /\ tick'.batch \subseteq Sources
            /\ \A s \in tick'.batch : ScheduleDue(s) \/ ClaimDue(s)
            /\ tick'.claimed = {} /\ tick'.probing = None /\ tick'.enqueued = {}
            /\ DOMAIN tick'.synced = tick'.batch /\ tick' = [f \in Fields |-> tick'[f]]
<1> DEFINE due == {s \in Sources : ScheduleDue(s) \/ ClaimDue(s)}
<1>1. CASE due = {}
  BY <1>1 DEF BeginTick
<1>2. CASE due # {}
  <2>1. PICK batch \in OldestFirst(due) :
          tick' = [NoTick EXCEPT !.at = "advance", !.batch = batch,
                                 !.synced = [s \in batch |-> synced[s]]]
    BY <1>2 DEF BeginTick
  <2>2. batch \subseteq due
    BY DEF OldestFirst
  <2>3. tick' = [at |-> "advance", batch |-> batch, synced |-> [s \in batch |-> synced[s]],
                 claimed |-> {}, probing |-> None, enqueued |-> {}]
    BY <2>1 DEF NoTick
  <2>4. tick' = [f \in Fields |-> tick'[f]]
    BY <2>3 DEF Fields
  <2> QED
    BY <2>2, <2>3, <2>4
<1> QED
  BY <1>1, <1>2

\* A tick that takes a source out of its hands.
LEMMA DecidedFacts ==
  ASSUME TypeInv, NEW s \in tick.batch, NEW enqueued \in SUBSET Projects, tick.at = "decide",
         Decided(s, enqueued)
  PROVE  /\ \/ tick' = NoTick /\ tick.batch = {s}
            \/ tick'.at = "decide" /\ tick'.enqueued = enqueued
         /\ tick'.batch = tick.batch \ {s} /\ tick'.claimed = tick.claimed \ {s}
         /\ tick'.probing = None /\ tick'.enqueued \subseteq Projects
         /\ DOMAIN tick'.synced = tick'.batch /\ tick' = [f \in Fields |-> tick'[f]]
         /\ timer' \in {"quiet", "fired", "missed"}
<1>1. timer' \in {"quiet", "fired", "missed"}
  BY DEF Decided, TypeInv, TypeOK
<1>2. CASE tick.batch = {s}
  <2>1. tick' = NoTick /\ tick.claimed \ {s} = {}
    BY <1>2 DEF Decided, TypeInv, TypeOK
  <2> QED
    BY <1>1, <1>2, <2>1, NoTickType
<1>3. CASE tick.batch # {s}
  <2>1. tick' = [tick EXCEPT !.batch = @ \ {s}, !.probing = None, !.claimed = @ \ {s},
                             !.synced = [t \in tick.batch \ {s} |-> @[t]],
                             !.enqueued = enqueued]
    BY <1>3 DEF Decided
  <2>2. tick = [f \in Fields |-> tick[f]]
    BY DEF TypeInv, TickInv
  <2>3. tick' = [f \in Fields |-> tick'[f]]
    BY <2>1, <2>2 DEF Fields
  <2> QED
    BY <1>1, <2>1, <2>2, <2>3 DEF Fields
<1> QED
  BY <1>2, <1>3

LEMMA EnqueueOnceFacts ==
  ASSUME TypeInv, NEW s \in tick.batch, tick.at = "decide", EnqueueOnce(s)
  PROVE  /\ job' \in [Projects -> {"idle", "queued", "running"}]
         /\ progress' = progress /\ JobInv'
         /\ \A q \in Projects : job[q] # "idle" => job'[q] = job[q]
         /\ \A q \in Projects : job'[q] = "running" => job[q] = "running"
         /\ Decided(s, tick.enqueued \cup {ProjectOf[s]})
         /\ tick.enqueued \cup {ProjectOf[s]} \in SUBSET Projects
<1>1. ProjectOf[s] \in Projects /\ tick.enqueued \cup {ProjectOf[s]} \in SUBSET Projects
  BY ProjectTypes DEF TypeInv, TypeOK
<1>2. CASE ProjectOf[s] \in tick.enqueued
  BY <1>1, <1>2 DEF EnqueueOnce, jobs, TypeInv, TypeOK, JobInv
<1>3. CASE ProjectOf[s] \notin tick.enqueued
  BY <1>1, <1>3, EnqueueType DEF EnqueueOnce
<1> QED
  BY <1>2, <1>3

LEMMA DecideType == ASSUME TypeInv, NEW s \in Sources, Decide(s) PROVE TypeInv'
<1> USE DEF Turn
<1>1. ASSUME s \in tick.batch, tick.at = "decide", NEW enqueued \in SUBSET Projects, Decided(s, enqueued)
      PROVE  /\ TickInv' /\ timer' \in {"quiet", "fired", "missed"}
             /\ tick'.at \in {"off", "advance", "claim", "decide"}
             /\ tick'.claimed \subseteq tick'.batch /\ tick'.batch \subseteq Sources
             /\ DOMAIN tick'.synced = tick'.batch
             /\ tick'.probing \in tick'.batch \cup {None} /\ tick'.enqueued \subseteq Projects
  <2>1. /\ tick.batch \subseteq Sources /\ tick.claimed \subseteq tick.batch
        /\ DOMAIN tick.synced = tick.batch
    BY DEF TypeInv, TypeOK
  <2>2. /\ tick'.batch = tick.batch \ {s} /\ tick'.claimed = tick.claimed \ {s}
        /\ tick'.probing = None /\ tick'.enqueued \subseteq Projects
        /\ DOMAIN tick'.synced = tick'.batch /\ tick' = [f \in Fields |-> tick'[f]]
        /\ timer' \in {"quiet", "fired", "missed"}
    BY <1>1, DecidedFacts
  <2>3. tick'.batch \subseteq Sources /\ tick'.claimed \subseteq tick'.batch
    BY <2>1, <2>2
  <2>4. None \notin tick'.claimed
    BY <2>3, NoneAssumption
  <2>5. CASE tick' = NoTick
    BY <2>2, <2>3, <2>4, <2>5, NoTickType DEF TickInv
  <2>6. CASE tick'.at = "decide"
    BY <2>2, <2>3, <2>4, <2>6 DEF TickInv
  <2>7. tick' = NoTick \/ tick'.at = "decide"
    BY <1>1, DecidedFacts
  <2> QED
    BY <2>5, <2>6, <2>7
<1>2. CASE SkipBusy(s)
  <2>1. owed' \in [Sources -> BOOLEAN]
    BY <1>2, OwedType DEF SkipBusy, TypeInv, TypeOK
  <2>2. tick.enqueued \in SUBSET Projects
    BY DEF TypeInv, TypeOK
  <2> QED
    BY <1>1, <1>2, <2>1, <2>2 DEF SkipBusy, jobs, TypeInv, TypeOK, JobInv
<1>3. CASE RunUnprobed(s)
  BY <1>1, <1>3, EnqueueOnceFacts DEF RunUnprobed, TypeInv, TypeOK
<1>4. CASE BeginProbe(s)
  <2>1. tick' = [tick EXCEPT !.probing = s] /\ tick = [f \in Fields |-> tick[f]]
    BY <1>4 DEF BeginProbe, TypeInv, TickInv
  <2>2. /\ tick' = [f \in Fields |-> tick'[f]] /\ tick'.at = tick.at /\ tick'.batch = tick.batch
        /\ tick'.claimed = tick.claimed /\ tick'.probing = s /\ tick'.synced = tick.synced
        /\ tick'.enqueued = tick.enqueued
    BY <2>1 DEF Fields
  <2> QED
    BY <1>4, <2>2 DEF BeginProbe, jobs, TypeInv, TypeOK, TickInv, JobInv
<1>5. ASSUME NEW unchanged \in BOOLEAN, AnswerProbe(s, unchanged)
      PROVE  TypeInv'
  <2>1. s \in tick.batch /\ tick.at = "decide"
    BY <1>5, NoneAssumption DEF AnswerProbe, TypeInv, TypeOK, TickInv
  <2>2. CASE unchanged
    <3>1. tick.enqueued \in SUBSET Projects
      BY DEF TypeInv, TypeOK
    <3> QED
      BY <1>1, <1>5, <2>1, <2>2, <3>1 DEF AnswerProbe, jobs, TypeInv, TypeOK, JobInv
  <2>3. CASE ~unchanged
    BY <1>1, <1>5, <2>1, <2>3, EnqueueOnceFacts DEF AnswerProbe, TypeInv, TypeOK
  <2> QED
    BY <2>2, <2>3
<1> QED
  BY <1>2, <1>3, <1>4, <1>5 DEF Decide

LEMMA TickType == ASSUME TypeInv, SyncTick PROVE TypeInv'
<1>1. CASE BeginTick
  BY <1>1, BeginTickFacts DEF BeginTick, jobs, TypeInv, TypeOK, TickInv, JobInv
<1>2. CASE MissTick
  BY <1>2 DEF MissTick, jobs, TypeInv, TypeOK, TickInv, JobInv
<1>3. tick = [f \in Fields |-> tick[f]]
  BY DEF TypeInv, TickInv
<1>4. CASE AdvanceDueTimes
  <2>1. \A s \in Sources : IF Scheduled(s) THEN next'[s] \in (-MaxLate)..Interval[s] ELSE next'[s] = None
    BY <1>4, IntervalAssumption, BoundsAssumption DEF AdvanceDueTimes, Scheduled, TypeInv, TypeOK
  <2>2. rest' \in [Sources -> Nat]
    BY <1>4 DEF AdvanceDueTimes, TypeInv, TypeOK
  <2>3. /\ tick' = [f \in Fields |-> tick'[f]] /\ tick'.at = "claim" /\ tick'.batch = tick.batch
        /\ tick'.claimed = tick.claimed /\ tick'.probing = tick.probing /\ tick'.synced = tick.synced
        /\ tick'.enqueued = tick.enqueued
    BY <1>3, <1>4 DEF AdvanceDueTimes, Fields
  <2> QED
    BY <1>4, <2>1, <2>2, <2>3 DEF AdvanceDueTimes, jobs, TypeInv, TypeOK, TickInv, JobInv
<1>5. CASE TakeWebhookClaims
  <2> DEFINE taken == {s \in tick.batch : ClaimDue(s)}
  <2>1. claim' \in [Sources -> (-MaxLate)..MinGap \cup {None}]
    BY <1>5 DEF TakeWebhookClaims, TypeInv, TypeOK
  <2>2. tick' = [tick EXCEPT !.at = "decide", !.claimed = taken]
    BY <1>5 DEF TakeWebhookClaims
  <2>3. /\ tick' = [f \in Fields |-> tick'[f]] /\ tick'.at = "decide" /\ tick'.batch = tick.batch
        /\ tick'.claimed = taken /\ tick'.probing = tick.probing /\ tick'.synced = tick.synced
        /\ tick'.enqueued = tick.enqueued
    BY <1>3, <2>2 DEF Fields
  <2>4. tick.probing = None
    BY <1>5 DEF TakeWebhookClaims, TypeInv, TickInv
  <2>5. None \notin taken
    BY NoneAssumption DEF TypeInv, TypeOK
  <2> QED
    BY <1>5, <2>1, <2>3, <2>4, <2>5 DEF TakeWebhookClaims, jobs, TypeInv, TypeOK, TickInv, JobInv
<1> QED
  BY <1>1, <1>2, <1>4, <1>5, DecideType DEF SyncTick

LEMMA RunType == ASSUME TypeInv, IndexProject PROVE TypeInv'
<1>1. ASSUME NEW p \in Projects, StartRun(p)
      PROVE  TypeInv'
  BY <1>1, ProjectTypes DEF StartRun, TypeInv, TypeOK, TickInv, JobInv
<1>2. ASSUME NEW p \in Projects, EndRun(p)
      PROVE  TypeInv'
  BY <1>2, ProjectTypes DEF EndRun, SourcesOf, TypeInv, TypeOK, TickInv, JobInv
<1>3. ASSUME NEW s \in Sources, ReadSource(s)
      PROVE  TypeInv'
  BY <1>3, ProjectTypes DEF ReadSource, TypeInv, TypeOK, TickInv, JobInv
<1>4. ASSUME NEW s \in Sources, NEW threw \in BOOLEAN, SyncEnds(s, threw)
      PROVE  TypeInv'
  <2>1. synced' \in [Sources -> 0..LongAgo \cup {None}]
    BY <1>4, LongAgoType DEF SyncEnds, TypeInv, TypeOK
  <2>2. job[ProjectOf[s]] = "running"
    BY <1>4 DEF SyncEnds, TypeInv, JobInv
  <2> QED
    BY <1>4, <2>1, <2>2, ProjectTypes DEF SyncEnds, TypeInv, TypeOK, TickInv, JobInv
<1> QED
  BY <1>1, <1>2, <1>3, <1>4 DEF IndexProject

LEMMA StepType == TypeInv /\ [Next]_vars => TypeInv'
<1> SUFFICES ASSUME TypeInv, [Next]_vars PROVE TypeInv'
  OBVIOUS
<1>1. ASSUME NEW p \in Projects, SyncNow(p)
      PROVE  TypeInv'
  BY <1>1, EnqueueType DEF SyncNow, TypeInv, TypeOK, TickInv
<1>2. CASE UNCHANGED vars
  BY <1>2 DEF vars, jobs, TypeInv, TypeOK, TickInv, JobInv
<1> QED
  BY <1>1, <1>2, ClockType, TickType, RunType, DeliveryType DEF Next

\* Whatever is due, claimed, probed and delivered, and whenever, every variable
\* stays in its type (runSyncTick, noteDelivery, recordSyncedSource).
THEOREM TypeCorrect == Spec => []TypeOK
<1>1. TypeInv => TypeOK
  BY DEF TypeInv
<1> QED
  BY <1>1, InitType, StepType, PTL DEF Spec

-----------------------------------------------------------------------------
(* No hot loop.                                                            *)

DueInv ==
  \A s \in Sources : Scheduled(s) /\ rest[s] < Interval[s] => next[s] + rest[s] >= Interval[s]

LEMMA IntervalType == \A s \in Sources : Scheduled(s) => Interval[s] \in Nat \ {0}
BY IntervalAssumption DEF Scheduled

LEMMA InitDue == Init => DueInv
BY IntervalType DEF Init, DueInv

LEMMA StepDue == TypeInv /\ DueInv /\ [Next]_vars => DueInv'
<1> SUFFICES ASSUME TypeInv, DueInv, [Next]_vars PROVE DueInv'
  OBVIOUS
<1>1. CASE Clock
  <2> SUFFICES ASSUME NEW s \in Sources, Scheduled(s), rest'[s] < Interval[s]
               PROVE  next'[s] + rest'[s] >= Interval[s]
    BY DEF DueInv, Scheduled
  <2>1. next[s] \in Int /\ rest[s] \in Nat /\ Interval[s] \in Nat \ {0} /\ next[s] # None
    BY IntervalType, BoundsAssumption, NoneAssumption DEF TypeInv, TypeOK
  <2>2. rest[s] < Interval[s] /\ rest'[s] = rest[s] + 1
    BY <1>1, <2>1 DEF Clock
  <2>3. next[s] + rest[s] >= Interval[s]
    BY <2>2 DEF DueInv
  <2>4. next'[s] = next[s] - 1
    BY <1>1, <2>1, <2>2, <2>3, BoundsAssumption DEF Clock
  <2> QED
    BY <2>1, <2>2, <2>3, <2>4
<1>2. CASE AdvanceDueTimes
  BY <1>2, IntervalType DEF AdvanceDueTimes, DueInv, TypeInv, TypeOK
<1>3. CASE UNCHANGED <<next, rest>>
  BY <1>3 DEF DueInv
<1> QED
  BY <1>1, <1>2, <1>3
     DEF Next, vars, SyncTick, IndexProject, BeginTick, MissTick, TakeWebhookClaims, Decide, SkipBusy,
         RunUnprobed, BeginProbe, AnswerProbe, StartRun, EndRun, ReadSource, SyncEnds, SyncNow,
         NoteDelivery, EnqueueDelivery

\* A source that keeps being due is not run without pause: the due time is a
\* whole interval away whenever a tick has taken it by its schedule, before
\* anything else is decided (advanceDueTimes).
THEOREM HotLoopExcluded == Spec => NoHotLoop
<1>1. ASSUME TypeInv, DueInv, [Next]_vars, NEW s \in Sources,
             tick.at = "off", s \in tick'.batch, ~ClaimDue(s)
      PROVE  rest[s] >= Interval[s]
  <2>1. tick.batch = {} /\ tick.probing = None
    BY <1>1 DEF TypeInv, TickInv
  <2>2. BeginTick
    BY <1>1, <2>1, NoneAssumption
       DEF Next, vars, SyncTick, IndexProject, Clock, MissTick, AdvanceDueTimes, TakeWebhookClaims, Decide,
           Turn, SkipBusy, RunUnprobed, BeginProbe, AnswerProbe, StartRun, EndRun, ReadSource, SyncEnds,
           SyncNow, NoteDelivery, EnqueueDelivery
  <2>3. ScheduleDue(s)
    BY <1>1, <2>1, <2>2, BeginTickFacts
  <2>4. next[s] \in Int /\ rest[s] \in Nat /\ Interval[s] \in Nat \ {0} /\ next[s] <= 0 /\ Scheduled(s)
    BY <1>1, <2>3, IntervalType, BoundsAssumption, NoneAssumption DEF ScheduleDue, TypeInv, TypeOK
  <2> QED
    BY <1>1, <2>4 DEF DueInv
<1>2. TypeInv /\ DueInv /\ [Next]_vars =>
        [\A s \in Sources :
           tick.at = "off" /\ s \in tick'.batch /\ ~ClaimDue(s) => rest[s] >= Interval[s]]_vars
  BY <1>1
<1> QED
  BY <1>2, InitType, StepType, InitDue, StepDue, PTL DEF Spec, NoHotLoop

-----------------------------------------------------------------------------
(* Deliveries.                                                             *)

Noted(s) == claim[s] # None \/ s \in delivering

\* Who is to answer a delivery: a tick answers for a claim it took until it has
\* asked for a run of the project.
OwedInv ==
  \A s \in Sources : owed[s] =>
    \/ Noted(s)
    \/ tick.at = "decide" /\ s \in tick.claimed /\ ProjectOf[s] \notin tick.enqueued
    \/ IsBusy(ProjectOf[s]) /\ ~AlreadyRead(s)

\* A run that began under a probe has read, of the sources it is past, all that
\* was claimed before.
ProbeInv ==
  \A s, t \in Sources :
    tick.probing = s /\ ProjectOf[t] = ProjectOf[s] /\ owed[t] /\ AlreadyRead(t) => Noted(t)

IInv == TypeInv /\ OwedInv /\ ProbeInv

LEMMA InitOwed == Init => OwedInv /\ ProbeInv
BY DEF Init, OwedInv, ProbeInv

\* A request for a run takes nothing from anybody, and the project's sources
\* are to be read, unless there is a run that is past them.
LEMMA EnqueueKeeps ==
  ASSUME TypeInv, NEW p \in Projects, Enqueue(p)
  PROVE  /\ \A q \in Projects : IsBusy(q) => IsBusy(q)'
         /\ \A t \in Sources : AlreadyRead(t)' = AlreadyRead(t)
         /\ IsBusy(p)'
<1>1. /\ progress' = progress
      /\ \A q \in Projects : job[q] # "idle" => job'[q] = job[q]
      /\ \A q \in Projects : job'[q] = "running" => job[q] = "running"
      /\ job'[p] # "idle"
  BY EnqueueType
<1> QED
  BY <1>1, ProjectTypes DEF IsBusy, AlreadyRead

LEMMA ClockOwed == ASSUME IInv, Clock PROVE OwedInv' /\ ProbeInv'
<1>1. \A s \in Sources : claim[s] # None => claim'[s] # None
  BY NoneAssumption, BoundsAssumption DEF Clock, IInv, TypeInv, TypeOK
<1> QED
  BY <1>1 DEF Clock, jobs, IInv, OwedInv, ProbeInv, Noted, IsBusy, AlreadyRead

LEMMA DeliveryOwed ==
  ASSUME IInv, NEW s \in Sources, NoteDelivery(s) \/ EnqueueDelivery(s)
  PROVE  OwedInv' /\ ProbeInv'
<1>1. CASE NoteDelivery(s)
  <2>1. \A t \in Sources : t # s => owed'[t] = owed[t]
    BY <1>1 DEF NoteDelivery, IInv, TypeInv, TypeOK
  <2>2. \A t \in Sources : Noted(t) => Noted(t)'
    BY <1>1, NoneAssumption, BoundsAssumption, LongAgoType
       DEF NoteDelivery, RunOwed, Noted, IInv, TypeInv, TypeOK
  <2>3. Noted(s)'
    BY <1>1, NoneAssumption, BoundsAssumption, LongAgoType
       DEF NoteDelivery, RunOwed, Noted, IInv, TypeInv, TypeOK
  <2> QED
    BY <1>1, <2>1, <2>2, <2>3 DEF NoteDelivery, jobs, IInv, OwedInv, ProbeInv, IsBusy, AlreadyRead
<1>2. CASE EnqueueDelivery(s)
  <2>1. /\ \A q \in Projects : IsBusy(q) => IsBusy(q)'
        /\ \A t \in Sources : AlreadyRead(t)' = AlreadyRead(t)
        /\ IsBusy(ProjectOf[s])'
    BY <1>2, EnqueueKeeps, ProjectTypes DEF EnqueueDelivery, IInv
  <2>2. /\ \A t \in Sources : t # s => owed'[t] = owed[t] /\ Noted(t)' = Noted(t)
        /\ owed'[s] => ~AlreadyRead(s)
    BY <1>2 DEF EnqueueDelivery, Joined, Noted, IInv, TypeInv, TypeOK
  <2>3. OwedInv'
    BY <1>2, <2>1, <2>2, ProjectTypes DEF EnqueueDelivery, IInv, OwedInv
  <2>4. ProbeInv'
    BY <1>2, <2>1, <2>2 DEF EnqueueDelivery, IInv, ProbeInv
  <2> QED
    BY <2>3, <2>4
<1> QED
  BY <1>1, <1>2

\* What a decision about s leaves to the others of the batch.
LEMMA DecidedKeeps ==
  ASSUME IInv, NEW s \in tick.batch, tick.at = "decide", NEW enqueued \in SUBSET Projects, Decided(s, enqueued)
  PROVE  /\ tick'.probing = None
         /\ \A t \in Sources :
              t # s /\ t \in tick.claimed =>
                tick'.at = "decide" /\ t \in tick'.claimed /\ tick'.enqueued = enqueued
<1>1. tick.claimed \subseteq tick.batch
  BY DEF IInv, TypeInv, TypeOK
<1> QED
  BY <1>1, DecidedFacts DEF IInv

LEMMA NoProbe ==
  ASSUME tick'.probing = None
  PROVE  ProbeInv'
BY NoneAssumption DEF ProbeInv

LEMMA EnqueueOnceOwed ==
  ASSUME IInv, NEW s \in tick.batch, tick.at = "decide", EnqueueOnce(s),
         UNCHANGED <<claim, delivering, owed>>,
         IsBusy(ProjectOf[s]) => tick.probing = s,
         IsBusy(ProjectOf[s]) => s \notin tick.claimed
  PROVE  OwedInv' /\ ProbeInv'
<1> DEFINE enqueued == tick.enqueued \cup {ProjectOf[s]}
<1>1. s \in Sources /\ ProjectOf[s] \in Projects
  BY ProjectTypes DEF IInv, TypeInv, TypeOK
<1>2. Decided(s, enqueued) /\ enqueued \in SUBSET Projects
  BY EnqueueOnceFacts DEF IInv
<1>3. /\ tick'.probing = None
      /\ \A t \in Sources :
           t # s /\ t \in tick.claimed =>
             tick'.at = "decide" /\ t \in tick'.claimed /\ tick'.enqueued = enqueued
  BY <1>2, DecidedKeeps
<1>4. \A t \in Sources : Noted(t)' = Noted(t) /\ owed'[t] = owed[t]
  BY DEF Noted
<1>5. /\ \A q \in Projects : IsBusy(q) => IsBusy(q)'
      /\ \A t \in Sources : AlreadyRead(t)' = AlreadyRead(t)
      /\ ProjectOf[s] \notin tick.enqueued => IsBusy(ProjectOf[s])'
  <2>1. CASE ProjectOf[s] \in tick.enqueued
    BY <2>1 DEF EnqueueOnce, jobs, IsBusy, AlreadyRead
  <2>2. CASE ProjectOf[s] \notin tick.enqueued
    BY <1>1, <2>2, EnqueueKeeps DEF EnqueueOnce, IInv
  <2> QED
    BY <2>1, <2>2
<1>6. ASSUME NEW t \in Sources, owed'[t], ~Noted(t), ProjectOf[t] = ProjectOf[s], ProjectOf[s] \notin tick.enqueued
      PROVE  ~AlreadyRead(t)
  <2>1. CASE IsBusy(ProjectOf[s])
    BY <1>1, <1>4, <1>6, <2>1 DEF IInv, ProbeInv
  <2>2. CASE ~IsBusy(ProjectOf[s])
    BY <1>6, <2>2 DEF IsBusy, AlreadyRead
  <2> QED
    BY <2>1, <2>2
<1>7. ASSUME NEW t \in Sources, owed'[t], ~Noted(t)'
      PROVE  \/ tick'.at = "decide" /\ t \in tick'.claimed /\ ProjectOf[t] \notin tick'.enqueued
             \/ IsBusy(ProjectOf[t])' /\ ~AlreadyRead(t)'
  <2>1. \/ t \in tick.claimed /\ ProjectOf[t] \notin tick.enqueued
        \/ IsBusy(ProjectOf[t]) /\ ~AlreadyRead(t)
    BY <1>4, <1>7 DEF IInv, OwedInv
  <2>2. CASE IsBusy(ProjectOf[t]) /\ ~AlreadyRead(t)
    BY <1>5, <2>2, ProjectTypes
  <2>3. CASE t \in tick.claimed /\ ProjectOf[t] \notin tick.enqueued /\ ProjectOf[t] = ProjectOf[s]
    BY <1>4, <1>5, <1>6, <1>7, <2>3
  <2>4. CASE t \in tick.claimed /\ ProjectOf[t] \notin tick.enqueued /\ ProjectOf[t] # ProjectOf[s]
    BY <1>3, <2>4
  <2> QED
    BY <2>1, <2>2, <2>3, <2>4
<1>8. OwedInv'
  BY <1>7 DEF OwedInv
<1> QED
  BY <1>3, <1>8, NoProbe

LEMMA DecideOwed == ASSUME IInv, NEW s \in Sources, Decide(s) PROVE OwedInv' /\ ProbeInv'
<1>1. CASE SkipBusy(s)
  <2>1. s \in tick.batch /\ tick.at = "decide" /\ tick.enqueued \in SUBSET Projects
    BY <1>1 DEF SkipBusy, Turn, IInv, TypeInv, TypeOK
  <2>2. /\ tick'.probing = None
        /\ \A t \in Sources :
             t # s /\ t \in tick.claimed =>
               tick'.at = "decide" /\ t \in tick'.claimed /\ tick'.enqueued = tick.enqueued
    BY <1>1, <2>1, DecidedKeeps DEF SkipBusy
  <2>3. /\ \A t \in Sources : t # s => owed'[t] = owed[t]
        /\ owed'[s] => owed[s] /\ (s \in tick.claimed => ~AlreadyRead(s))
    BY <1>1 DEF SkipBusy, Joined, IInv, TypeInv, TypeOK
  <2>4. OwedInv'
    BY <1>1, <2>2, <2>3 DEF SkipBusy, jobs, IInv, OwedInv, Noted, IsBusy, AlreadyRead
  <2> QED
    BY <2>2, <2>4, NoProbe
<1>2. CASE RunUnprobed(s)
  BY <1>2, EnqueueOnceOwed DEF RunUnprobed, Turn
<1>3. CASE BeginProbe(s)
  <2>1. tick'.at = tick.at /\ tick'.claimed = tick.claimed /\ tick'.enqueued = tick.enqueued /\ tick'.probing = s
    BY <1>3 DEF BeginProbe, Fields, IInv, TypeInv, TickInv
  <2>2. \A t \in Sources : ProjectOf[t] = ProjectOf[s] => ~AlreadyRead(t)'
    BY <1>3 DEF BeginProbe, jobs, IsBusy, AlreadyRead
  <2>3. OwedInv'
    BY <1>3, <2>1 DEF BeginProbe, jobs, IInv, OwedInv, Noted, IsBusy, AlreadyRead
  <2> QED
    BY <2>1, <2>2, <2>3 DEF ProbeInv
<1>4. ASSUME NEW unchanged \in BOOLEAN, AnswerProbe(s, unchanged)
      PROVE  OwedInv' /\ ProbeInv'
  <2>1. s \in tick.batch /\ tick.at = "decide" /\ s \notin tick.claimed /\ tick.enqueued \in SUBSET Projects
    BY <1>4, NoneAssumption DEF AnswerProbe, IInv, TypeInv, TypeOK, TickInv
  <2>2. CASE unchanged
    <3>1. /\ tick'.probing = None
          /\ \A t \in Sources :
               t # s /\ t \in tick.claimed =>
                 tick'.at = "decide" /\ t \in tick'.claimed /\ tick'.enqueued = tick.enqueued
      BY <1>4, <2>1, <2>2, DecidedKeeps DEF AnswerProbe
    <3>2. OwedInv'
      BY <1>4, <2>1, <2>2, <3>1 DEF AnswerProbe, jobs, IInv, OwedInv, Noted, IsBusy, AlreadyRead
    <3> QED
      BY <3>1, <3>2, NoProbe
  <2>3. CASE ~unchanged
    BY <1>4, <2>1, <2>3, EnqueueOnceOwed DEF AnswerProbe
  <2> QED
    BY <2>2, <2>3
<1> QED
  BY <1>1, <1>2, <1>3, <1>4 DEF Decide

LEMMA TickOwed == ASSUME IInv, SyncTick PROVE OwedInv' /\ ProbeInv'
<1>1. CASE BeginTick
  <2>1. tick.at = "off" /\ (tick' = tick \/ tick'.probing = None)
    BY <1>1, BeginTickFacts DEF BeginTick, IInv
  <2>2. tick'.probing = None
    BY <2>1 DEF IInv, TypeInv, TickInv
  <2> QED
    BY <1>1, <2>1, <2>2, NoProbe DEF BeginTick, jobs, IInv, OwedInv, Noted, IsBusy, AlreadyRead
<1>2. CASE MissTick
  BY <1>2 DEF MissTick, jobs, IInv, OwedInv, ProbeInv, Noted, IsBusy, AlreadyRead
<1>3. CASE AdvanceDueTimes
  <2>1. tick.at = "advance" /\ tick'.probing = None
    BY <1>3 DEF AdvanceDueTimes, Fields, IInv, TypeInv, TickInv
  <2> QED
    BY <1>3, <2>1, NoProbe DEF AdvanceDueTimes, jobs, IInv, OwedInv, Noted, IsBusy, AlreadyRead
<1>4. CASE TakeWebhookClaims
  <2> DEFINE taken == {s \in tick.batch : ClaimDue(s)}
  <2>1. tick' = [tick EXCEPT !.at = "decide", !.claimed = taken] /\ tick = [f \in Fields |-> tick[f]]
    BY <1>4 DEF TakeWebhookClaims, IInv, TypeInv, TickInv
  <2>2. /\ tick'.at = "decide" /\ tick'.claimed = taken /\ tick'.probing = tick.probing
        /\ tick'.enqueued = tick.enqueued
    BY <2>1 DEF Fields
  <2>3. tick.at = "claim" /\ tick.probing = None /\ tick.enqueued = {}
    BY <1>4 DEF TakeWebhookClaims, IInv, TypeInv, TickInv
  <2>4. \A s \in Sources : s \notin taken => claim'[s] = claim[s]
    BY <1>4 DEF TakeWebhookClaims
  <2>5. OwedInv'
    BY <1>4, <2>2, <2>3, <2>4 DEF TakeWebhookClaims, jobs, IInv, OwedInv, Noted, IsBusy, AlreadyRead
  <2> QED
    BY <2>2, <2>3, <2>5, NoProbe
<1> QED
  BY <1>1, <1>2, <1>3, <1>4, DecideOwed DEF SyncTick

LEMMA RunStepOwed == ASSUME IInv, IndexProject PROVE OwedInv' /\ ProbeInv'
<1>1. ASSUME NEW p \in Projects, StartRun(p)
      PROVE  OwedInv' /\ ProbeInv'
  <2>1. \A q \in Projects : IsBusy(q)' = IsBusy(q)
    BY <1>1 DEF StartRun, IsBusy, IInv, TypeInv, TypeOK
  <2>2. \A t \in Sources : AlreadyRead(t)' = AlreadyRead(t)
    BY <1>1, ProjectTypes DEF StartRun, AlreadyRead, IInv, TypeInv, TypeOK, JobInv
  <2> QED
    BY <1>1, <2>1, <2>2, ProjectTypes DEF StartRun, IInv, OwedInv, ProbeInv, Noted
<1>2. ASSUME NEW p \in Projects, EndRun(p)
      PROVE  OwedInv' /\ ProbeInv'
  <2>1. \A t \in Sources : ProjectOf[t] = p => AlreadyRead(t) /\ ~AlreadyRead(t)'
    BY <1>2, ProjectTypes DEF EndRun, SourcesOf, AlreadyRead, IInv, TypeInv, TypeOK
  <2>2. \A t \in Sources : ProjectOf[t] # p =>
          AlreadyRead(t)' = AlreadyRead(t) /\ IsBusy(ProjectOf[t])' = IsBusy(ProjectOf[t])
    BY <1>2, ProjectTypes DEF EndRun, SourcesOf, AlreadyRead, IsBusy, IInv, TypeInv, TypeOK
  <2> QED
    BY <1>2, <2>1, <2>2 DEF EndRun, IInv, OwedInv, ProbeInv, Noted
<1>3. ASSUME NEW s \in Sources, ReadSource(s)
      PROVE  OwedInv' /\ ProbeInv'
  <2>1. ~owed'[s] /\ \A t \in Sources : t # s => owed'[t] = owed[t] /\ AlreadyRead(t)' = AlreadyRead(t)
    BY <1>3 DEF ReadSource, AlreadyRead, IInv, TypeInv, TypeOK
  <2> QED
    BY <1>3, <2>1 DEF ReadSource, IInv, OwedInv, ProbeInv, Noted, IsBusy
<1>4. ASSUME NEW s \in Sources, NEW threw \in BOOLEAN, SyncEnds(s, threw)
      PROVE  OwedInv' /\ ProbeInv'
  <2>1. \A t \in Sources : AlreadyRead(t)' = AlreadyRead(t)
    BY <1>4 DEF SyncEnds, AlreadyRead, IInv, TypeInv, TypeOK
  <2> QED
    BY <1>4, <2>1 DEF SyncEnds, IInv, OwedInv, ProbeInv, Noted, IsBusy
<1> QED
  BY <1>1, <1>2, <1>3, <1>4 DEF IndexProject

LEMMA StepOwed == IInv /\ [Next]_vars => IInv'
<1> SUFFICES ASSUME IInv, [Next]_vars PROVE IInv'
  OBVIOUS
<1>1. TypeInv'
  BY StepType DEF IInv
<1>2. ASSUME NEW p \in Projects, SyncNow(p)
      PROVE  OwedInv' /\ ProbeInv'
  <2>1. /\ \A q \in Projects : IsBusy(q) => IsBusy(q)'
        /\ \A t \in Sources : AlreadyRead(t)' = AlreadyRead(t)
    BY <1>2, EnqueueKeeps DEF SyncNow, IInv
  <2> QED
    BY <1>2, <2>1, ProjectTypes DEF SyncNow, IInv, OwedInv, ProbeInv, Noted
<1>3. ASSUME UNCHANGED vars
      PROVE  OwedInv' /\ ProbeInv'
  BY <1>3 DEF vars, jobs, IInv, OwedInv, ProbeInv, Noted, IsBusy, AlreadyRead
<1>4. ASSUME NEW s \in Sources, NoteDelivery(s) \/ EnqueueDelivery(s)
      PROVE  OwedInv' /\ ProbeInv'
  BY <1>4, DeliveryOwed
<1>5. ASSUME Clock \/ SyncTick \/ IndexProject
      PROVE  OwedInv' /\ ProbeInv'
  BY <1>5, ClockOwed, TickOwed, RunStepOwed
<1>6. OwedInv' /\ ProbeInv'
  BY <1>2, <1>3, <1>4, <1>5 DEF Next
<1> QED
  BY <1>1, <1>6 DEF IInv

\* A delivery that was accepted is never nobody's: neither the tick that takes
\* its claim, the probe it waits for, nor a run that ends under it loses it;
\* for any sources, of one project or of many (noteDelivery, runSyncTick).
THEOREM DeliveriesAreRemembered == Spec => []DeliveryRemembered
<1>1. Init => IInv
  BY InitType, InitOwed DEF IInv
<1>2. IInv => DeliveryRemembered
  BY DEF IInv, OwedInv, Noted, DeliveryRemembered
<1> QED
  BY <1>1, <1>2, StepOwed, PTL DEF Spec
=============================================================================
