-------------------------- MODULE IndexQueueProofs --------------------------
(***************************************************************************)
(* What holds of the indexing queue for every set of projects and every    *)
(* number of crashes.  The argument has five layers, each one proved with  *)
(* the help of the ones before it:                                         *)
(*                                                                         *)
(*   TypeOK       every variable stays in its type                         *)
(*   MutexInv     who stands in line[p] is who its stage says, each caller *)
(*                once, and whoever is inside is the head of the line      *)
(*   OwnerInv     a run inside the mutex has a row to write to             *)
(*   QueueInv     active jobs are in a lane or in the run's hands          *)
(*   KeptInv      each in the lane of who asked for it, once               *)
(***************************************************************************)
EXTENDS IndexQueue, SequenceTheorems, WellFoundedInduction, TLAPS

-----------------------------------------------------------------------------
(* The strengthenings.                                                     *)

InLine(actor, p) == \E i \in 1..Len(line[p]) : line[p][i] = actor

Distinct(p) == \A i, j \in 1..Len(line[p]) : line[p][i] = line[p][j] => i = j

RunInLine(p) == run.project = p /\ run.stage \in {"lock"} \cup UnderMutex

MutexInv ==
  /\ run.stage # "none" => run.project \in Projects
  /\ \A p \in Projects :
       /\ InLine("run", p) <=> RunInLine(p)
       /\ InLine("delete", p) <=> deleting[p] \in {"lock", "drop"}
       /\ InLine("commit", p) <=> committing[p] \in {"lock", "write"}
       /\ Distinct(p)
       /\ run.project = p /\ run.stage \in UnderMutex => Holds("run", p)
       /\ deleting[p] = "drop" => Holds("delete", p)
       /\ committing[p] = "write" => Holds("commit", p)

LoopInv == ~running => run.stage = "none"

TypeInv == TypeOK /\ MutexInv /\ LoopInv

OwnerInv ==
  /\ run.stage \in {"sync", "index", "record"} => row[run.project] # "absent"
  /\ \A p \in Projects : deleting[p] = "forget" => row[p] = "absent"
  /\ IndexingMeansRunning

-----------------------------------------------------------------------------
(* Types.                                                                  *)

LEMMA WithoutType ==
  ASSUME NEW S, NEW s \in Seq(S), NEW at, Len(s) # 0
  PROVE  Without(s, at) \in Seq(S)
<1>1. Len(s) - 1 \in Nat
  OBVIOUS
<1>2. \A i \in 1..(Len(s) - 1) : i \in 1..Len(s) /\ i + 1 \in 1..Len(s)
  OBVIOUS
<1>3. Without(s, at) \in [1..(Len(s) - 1) -> S]
  BY <1>2 DEF Without
<1>. QED  BY <1>1, <1>3

LEMMA CollapseType ==
  ASSUME TypeOK, NEW p \in Projects, NEW trigger \in Triggers, NEW force \in BOOLEAN,
         Collapse(p, trigger, force)
  PROVE  /\ jobs' \in [Projects -> Job]
         /\ interactive' \in Seq(Projects) /\ scheduled' \in Seq(Projects)
         /\ running' \in BOOLEAN /\ run' \in Run
<1>1. jobs' \in [Projects -> Job]
  BY DEF Collapse, TypeOK, Job
<1>2. InLane(p, scheduled) => Len(scheduled) # 0
  BY DEF InLane, TypeOK
<1>3. scheduled' \in Seq(Projects)
  BY <1>2, WithoutType DEF Collapse, TypeOK
<1>4. interactive' \in Seq(Projects)
  BY DEF Collapse, TypeOK
<1>. QED  BY <1>1, <1>3, <1>4 DEF Collapse, TypeOK

LEMMA StartRunType ==
  ASSUME TypeOK, NEW p \in Projects, NEW job \in Job, StartRun(p, job)
  PROVE  jobs' \in [Projects -> Job] /\ run' \in Run
<1>1. jobs' \in [Projects -> Job]
  BY DEF StartRun, TypeOK, Job, Phases, ActivePhases
<1>2. run' \in Run
  BY DEF StartRun, Job, Run, Stages
<1>. QED  BY <1>1, <1>2

LEMMA NewJobType ==
  ASSUME TypeOK, NEW p \in Projects, NEW trigger \in Triggers, NEW force \in BOOLEAN,
         NewJob(p, trigger, force)
  PROVE  /\ jobs' \in [Projects -> Job]
         /\ interactive' \in Seq(Projects) /\ scheduled' \in Seq(Projects)
         /\ running' \in BOOLEAN /\ run' \in Run
<1>. DEFINE job == [phase |-> "queued", force |-> force, trigger |-> trigger]
<1>1. job \in Job
  BY DEF Job, Phases, ActivePhases
<1>2. CASE running
  <2>1. jobs' = [jobs EXCEPT ![p] = job] /\ running' = running /\ run' = run
    BY <1>2 DEF NewJob
  <2>2. interactive' \in Seq(Projects) /\ scheduled' \in Seq(Projects)
    <3>1. /\ interactive' = interactive \/ interactive' = Append(interactive, p)
          /\ scheduled' = scheduled \/ scheduled' = Append(scheduled, p)
      BY <1>2 DEF NewJob
    <3>2. /\ interactive \in Seq(Projects) /\ Append(interactive, p) \in Seq(Projects)
          /\ scheduled \in Seq(Projects) /\ Append(scheduled, p) \in Seq(Projects)
      BY DEF TypeOK
    <3>. QED  BY <3>1, <3>2
  <2>3. jobs' \in [Projects -> Job]
    BY <1>1, <2>1 DEF TypeOK
  <2>. QED  BY <2>1, <2>2, <2>3 DEF TypeOK
<1>3. CASE ~running
  <2>1. StartRun(p, job) /\ running' = TRUE /\ UNCHANGED <<interactive, scheduled>>
    BY <1>3 DEF NewJob
  <2>2. jobs' \in [Projects -> Job] /\ run' \in Run
    BY <1>1, <2>1, StartRunType
  <2>. QED  BY <2>1, <2>2 DEF TypeOK
<1>. QED  BY <1>2, <1>3

LEMMA EnqueueType ==
  ASSUME TypeOK, NEW p \in Projects, NEW trigger \in Triggers, NEW force \in BOOLEAN,
         Enqueue(p, trigger, force)
  PROVE  /\ jobs' \in [Projects -> Job]
         /\ interactive' \in Seq(Projects) /\ scheduled' \in Seq(Projects)
         /\ running' \in BOOLEAN /\ run' \in Run
         /\ forceOwed' \in [Projects -> BOOLEAN] /\ wanted' \in [Projects -> BOOLEAN]
<1>1. forceOwed' \in [Projects -> BOOLEAN] /\ wanted' \in [Projects -> BOOLEAN]
  BY DEF Enqueue, TypeOK, IsBusy, Job
<1>2. CASE Collapse(p, trigger, force)
  BY <1>1, <1>2, CollapseType
<1>3. CASE NewJob(p, trigger, force)
  BY <1>1, <1>3, NewJobType
<1>4. Collapse(p, trigger, force) \/ NewJob(p, trigger, force)
  BY DEF Enqueue
<1>. QED  BY <1>2, <1>3, <1>4

LEMMA JoinType ==
  ASSUME TypeOK, NEW p \in Projects, NEW actor \in Actors, Join(actor, p)
  PROVE  line' \in [Projects -> Seq(Actors)]
<1>1. line[p] \in Seq(Actors)
  BY DEF TypeOK
<1>2. Append(line[p], actor) \in Seq(Actors)
  BY <1>1
<1>. QED  BY <1>2 DEF Join, TypeOK

LEMMA ReleaseType ==
  ASSUME TypeOK, NEW p \in Projects, line[p] # <<>>, Release(p)
  PROVE  line' \in [Projects -> Seq(Actors)]
<1>1. line[p] \in Seq(Actors)
  BY DEF TypeOK
<1>2. Tail(line[p]) \in Seq(Actors)
  BY <1>1, HeadTailProperties
<1>. QED  BY <1>2 DEF Release, TypeOK

\* A turn of the loop keeps the map of jobs and the run in their types.
LEMMA TakeFromType ==
  ASSUME TypeOK, NEW p \in Projects, TakeFrom(p)
  PROVE  /\ jobs' \in [Projects -> Job] /\ run' \in Run
         /\ wanted' \in [Projects -> BOOLEAN]
<1>1. wanted' \in [Projects -> BOOLEAN]
  BY DEF TakeFrom, TypeOK
<1>2. CASE jobs[p].phase = "none"
  <2>1. run' = NoRun /\ jobs' = jobs
    BY <1>2 DEF TakeFrom
  <2>2. NoRun \in Run
    BY DEF NoRun, Run, Stages
  <2>. QED  BY <1>1, <2>1, <2>2 DEF TypeOK
<1>3. CASE jobs[p].phase # "none"
  <2>1. StartRun(p, jobs[p])
    BY <1>3 DEF TakeFrom
  <2>2. jobs[p] \in Job
    BY DEF TypeOK
  <2>. QED  BY <1>1, <2>1, <2>2, StartRunType
<1>. QED  BY <1>2, <1>3

LEMMA SetStageType ==
  ASSUME TypeOK, NEW stage \in Stages, SetStage(stage)
  PROVE  run' \in Run
BY DEF TypeOK, SetStage, Run

LEMMA SetPhaseType ==
  ASSUME TypeOK, NEW phase \in Phases, SetPhase(phase)
  PROVE  jobs' \in [Projects -> Job]
<1>1. \A job \in Job : [job EXCEPT !.phase = phase] \in Job
  BY DEF Job
<1>2. jobs \in [Projects -> Job]
  BY DEF TypeOK
<1>3. jobs' = jobs \/ jobs' = [jobs EXCEPT ![run.project] = [jobs[run.project] EXCEPT !.phase = phase]]
  BY <1>2 DEF SetPhase
<1>. QED  BY <1>1, <1>2, <1>3

-----------------------------------------------------------------------------
(* The mutex: what joining and leaving a line does to it.                  *)

LEMMA JoinLine ==
  ASSUME TypeOK, NEW p \in Projects, NEW actor \in Actors, Join(actor, p),
         Distinct(p), ~InLine(actor, p),
         NEW q \in Projects
  PROVE  /\ \A a \in Actors : InLine(a, q)' <=> InLine(a, q) \/ (a = actor /\ q = p)
         /\ Distinct(q) => Distinct(q)'
         /\ \A a \in Actors : Holds(a, q) => Holds(a, q)'
<1>1. line[q] \in Seq(Actors) /\ line[p] \in Seq(Actors)
  BY DEF TypeOK
<1>2. CASE q # p
  <2>1. line'[q] = line[q]
    BY <1>2 DEF Join, TypeOK
  <2>. QED  BY <2>1, <1>2 DEF InLine, Distinct, Holds
<1>3. CASE q = p
  <2>. DEFINE s == line[p]
  <2>1. line'[p] = Append(s, actor)
    BY DEF Join, TypeOK
  <2>2. /\ Len(line'[p]) = Len(s) + 1 /\ Len(s) \in Nat
        /\ line'[p][Len(s) + 1] = actor
        /\ \A i \in 1..Len(s) : line'[p][i] = s[i]
    BY <1>1, <2>1, AppendProperties
  <2>. HIDE DEF s
  <2>3. \A a \in Actors : InLine(a, p)' <=> InLine(a, p) \/ a = actor
    <3>. SUFFICES ASSUME NEW a \in Actors PROVE InLine(a, p)' <=> InLine(a, p) \/ a = actor
      OBVIOUS
    <3>1. ASSUME InLine(a, p)' PROVE InLine(a, p) \/ a = actor
      <4>1. PICK i \in 1..Len(line'[p]) : line'[p][i] = a
        BY <3>1 DEF InLine
      <4>2. i = Len(s) + 1 \/ i \in 1..Len(s)
        BY <2>2, <4>1
      <4>. QED  BY <2>2, <4>1, <4>2 DEF InLine, s
    <3>2. ASSUME InLine(a, p) PROVE InLine(a, p)'
      <4>1. PICK i \in 1..Len(s) : s[i] = a
        BY <3>2 DEF InLine, s
      <4>. QED  BY <2>2, <4>1 DEF InLine
    <3>3. ASSUME a = actor PROVE InLine(a, p)'
      BY <2>2, <3>3 DEF InLine
    <3>. QED  BY <3>1, <3>2, <3>3
  <2>4. Distinct(p)'
    <3>1. \A i \in 1..Len(s) : s[i] # actor
      BY DEF InLine, s
    <3>2. \A i, j \in 1..Len(s) : i # j => s[i] # s[j]
      BY DEF Distinct, s
    <3>3. \A i \in 1..Len(line'[p]) : i = Len(s) + 1 \/ i \in 1..Len(s)
      BY <2>2
    <3>. QED  BY <2>2, <3>1, <3>2, <3>3 DEF Distinct
  <2>5. \A a \in Actors : Holds(a, p) => Holds(a, p)'
    BY <1>1, <2>1, <2>2, HeadTailAppend DEF Holds, s
  <2>. QED  BY <1>3, <2>3, <2>4, <2>5
<1>. QED  BY <1>2, <1>3

LEMMA ReleaseLine ==
  ASSUME TypeOK, NEW p \in Projects, NEW actor \in Actors, Release(p),
         Distinct(p), Holds(actor, p),
         NEW q \in Projects
  PROVE  /\ \A a \in Actors : InLine(a, q)' <=> InLine(a, q) /\ ~(a = actor /\ q = p)
         /\ Distinct(q) => Distinct(q)'
         /\ \A a \in Actors : q # p /\ Holds(a, q) => Holds(a, q)'
<1>1. line[q] \in Seq(Actors) /\ line[p] \in Seq(Actors) /\ line[p] # <<>>
  BY DEF TypeOK, Holds
<1>2. CASE q # p
  <2>1. line'[q] = line[q]
    BY <1>2 DEF Release, TypeOK
  <2>. QED  BY <2>1, <1>2 DEF InLine, Distinct, Holds
<1>3. CASE q = p
  <2>. DEFINE s == line[p]
  <2>1. line'[p] = Tail(s)
    BY DEF Release, TypeOK
  <2>2. /\ Len(line'[p]) = Len(s) - 1 /\ Len(s) \in Nat /\ Len(s) # 0
        /\ \A i \in 1..Len(line'[p]) : line'[p][i] = s[i + 1]
    BY <1>1, <2>1, HeadTailProperties
  <2>3. s[1] = actor
    BY <1>1, <2>2 DEF Holds
  <2>4. \A a \in Actors : InLine(a, p)' <=> InLine(a, p) /\ a # actor
    <3>. SUFFICES ASSUME NEW a \in Actors
                  PROVE  InLine(a, p)' <=> InLine(a, p) /\ a # actor
      OBVIOUS
    <3>1. ASSUME InLine(a, p)' PROVE InLine(a, p) /\ a # actor
      <4>1. PICK i \in 1..Len(line'[p]) : line'[p][i] = a
        BY <3>1 DEF InLine
      <4>2. i + 1 \in 1..Len(s) /\ s[i + 1] = a /\ i + 1 # 1
        BY <2>2, <4>1
      <4>. QED  BY <2>2, <2>3, <4>2 DEF InLine, Distinct
    <3>2. ASSUME InLine(a, p), a # actor PROVE InLine(a, p)'
      <4>1. PICK i \in 1..Len(s) : s[i] = a
        BY <3>2 DEF InLine
      <4>2. i - 1 \in 1..Len(line'[p]) /\ line'[p][i - 1] = s[i]
        BY <2>2, <2>3, <3>2, <4>1
      <4>. QED  BY <4>1, <4>2 DEF InLine
    <3>. QED  BY <3>1, <3>2
  <2>5. Distinct(p)'
    BY <2>2 DEF Distinct
  <2>. QED  BY <1>3, <2>4, <2>5
<1>. QED  BY <1>2, <1>3

\* Steps that leave the lines alone, and of whose callers none comes or goes.
LEMMA LineFrame ==
  ASSUME MutexInv, UNCHANGED line,
         run'.stage # "none" => run'.project \in Projects,
         \A p \in Projects :
           /\ RunInLine(p)' <=> RunInLine(p)
           /\ deleting'[p] \in {"lock", "drop"} <=> deleting[p] \in {"lock", "drop"}
           /\ committing'[p] \in {"lock", "write"} <=> committing[p] \in {"lock", "write"}
           /\ run'.project = p /\ run'.stage \in UnderMutex => Holds("run", p)
           /\ deleting'[p] = "drop" => Holds("delete", p)
           /\ committing'[p] = "write" => Holds("commit", p)
  PROVE  MutexInv'
<1>1. \A p \in Projects, a \in Actors :
        (InLine(a, p)' <=> InLine(a, p)) /\ (Holds(a, p)' <=> Holds(a, p)) /\ (Distinct(p)' <=> Distinct(p))
  BY DEF InLine, Holds, Distinct
<1>2. "run" \in Actors /\ "delete" \in Actors /\ "commit" \in Actors
  BY DEF Actors
<1>. QED  BY <1>1, <1>2 DEF MutexInv

\* Steps that leave the lines and their callers alone, and move the run at
\* most between stages on the same side of the mutex.
InTheLine == {"lock"} \cup UnderMutex

LEMMA MutexFrame ==
  ASSUME MutexInv, UNCHANGED <<line, deleting, committing>>,
         \/ run' = run
         \/ /\ run.stage \notin InTheLine
            /\ run'.stage \notin InTheLine
            /\ run'.stage # "none" => run'.project \in Projects
         \/ /\ run.stage # "none"
            /\ run'.project = run.project
            /\ run.stage \in InTheLine <=> run'.stage \in InTheLine
            /\ run'.stage \in UnderMutex => Holds("run", run.project)
         \/ run'.stage = run.stage /\ run'.project = run.project
  PROVE  MutexInv'
<1>1. run'.stage # "none" => run'.project \in Projects
  BY DEF MutexInv, UnderMutex
<1>2. \A p \in Projects : RunInLine(p)' <=> RunInLine(p)
  BY DEF RunInLine, UnderMutex, InTheLine
<1>3. \A p \in Projects : run'.project = p /\ run'.stage \in UnderMutex => Holds("run", p)
  BY DEF UnderMutex, InTheLine, MutexInv
<1>4. \A p \in Projects :
        /\ deleting'[p] \in {"lock", "drop"} <=> deleting[p] \in {"lock", "drop"}
        /\ committing'[p] \in {"lock", "write"} <=> committing[p] \in {"lock", "write"}
        /\ deleting'[p] = "drop" => Holds("delete", p)
        /\ committing'[p] = "write" => Holds("commit", p)
  BY DEF MutexInv
<1>. QED  BY <1>1, <1>2, <1>3, <1>4, LineFrame

\* Enqueue leaves the run alone or takes the project out of an idle loop.
LEMMA EnqueueRun ==
  ASSUME NEW p \in Projects, NEW trigger, NEW force, Enqueue(p, trigger, force), LoopInv
  PROVE  /\ \/ run' = run
            \/ run.stage = "none" /\ run'.stage = "lookup" /\ run'.project = p
         /\ LoopInv'
BY DEF Enqueue, Collapse, NewJob, StartRun, LoopInv

\* Every action that only enqueues, whatever it does to the bookkeeping.
LEMMA EnqueueMutex ==
  ASSUME TypeInv, NEW p \in Projects, NEW trigger, NEW force, Enqueue(p, trigger, force),
         UNCHANGED <<line, deleting, committing>>
  PROVE  MutexInv' /\ LoopInv'
<1>1. LoopInv'
  BY EnqueueRun DEF TypeInv
<1>2. \/ run' = run
      \/ run.stage = "none" /\ run'.stage = "lookup" /\ run'.project = p
  BY EnqueueRun DEF TypeInv
<1>3. MutexInv'
  BY <1>2, MutexFrame DEF TypeInv, InTheLine, UnderMutex
<1>. QED  BY <1>1, <1>3

-----------------------------------------------------------------------------
(* TypeInv is inductive.                                                   *)

LEMMA TypeInvInit == Init => TypeInv
<1>. SUFFICES ASSUME Init PROVE TypeInv
  OBVIOUS
<1>1. run.stage = "none" /\ run \in Run
  BY DEF Init, NoRun, Run, Stages
<1>2. TypeOK
  <2>1. jobs \in [Projects -> Job]
    BY TriggersAssumption DEF Init, NoJob, Job, Phases, ActivePhases
  <2>2. interactive \in Seq(Projects) /\ scheduled \in Seq(Projects) /\ line \in [Projects -> Seq(Actors)]
    BY DEF Init
  <2>3. /\ row \in [Projects -> Statuses]
        /\ deleting \in [Projects -> {"no", "lock", "drop", "forget"}]
        /\ committing \in [Projects -> {"no", "lock", "write", "enqueue"}]
    BY DEF Init, Statuses
  <2>4. /\ edited \in [Projects -> BOOLEAN] /\ uploaded \in [Projects -> BOOLEAN]
        /\ forceOwed \in [Projects -> BOOLEAN] /\ wanted \in [Projects -> BOOLEAN]
    BY DEF Init
  <2>5. up \in {"up", "down", "recovering"} /\ running \in BOOLEAN /\ recovered \in SUBSET Projects
    BY DEF Init
  <2>6. crashes \in 0..MaxCrashes
    BY MaxCrashesAssumption DEF Init
  <2>. QED  BY <1>1, <2>1, <2>2, <2>3, <2>4, <2>5, <2>6 DEF TypeOK
<1>3. MutexInv
  <2>1. \A p \in Projects : line[p] = <<>> /\ deleting[p] = "no" /\ committing[p] = "no"
    BY DEF Init
  <2>2. \A i : i \notin 1..Len(<<>>)
    BY EmptySeq
  <2>3. \A p \in Projects : Distinct(p) /\ \A a \in Actors : ~InLine(a, p)
    <3>. SUFFICES ASSUME NEW p \in Projects PROVE Distinct(p) /\ \A a \in Actors : ~InLine(a, p)
      OBVIOUS
    <3>1. \A i : i \notin 1..Len(line[p])
      BY <2>1, <2>2
    <3>. QED  BY <3>1 DEF InLine, Distinct
  <2>. QED  BY <1>1, <2>1, <2>3 DEF MutexInv, RunInLine, UnderMutex, Actors
<1>. QED  BY <1>1, <1>2, <1>3 DEF TypeInv, LoopInv

LEMMA RequestTypes ==
  ASSUME TypeInv, NEW p \in Projects, NEW trigger \in Triggers, NEW force \in BOOLEAN,
         Request(p, trigger, force) \/ EditAndRequest(p, trigger)
  PROVE  TypeInv'
<1>1. CASE Request(p, trigger, force)
  <2>1. TypeOK'
    BY <1>1, EnqueueType DEF Request, TypeOK, TypeInv
  <2>2. MutexInv' /\ LoopInv'
    BY <1>1, EnqueueMutex DEF Request
  <2>. QED  BY <2>1, <2>2 DEF TypeInv
<1>2. CASE EditAndRequest(p, trigger)
  <2>1. TypeOK'
    BY <1>2, EnqueueType DEF EditAndRequest, TypeOK, TypeInv
  <2>2. MutexInv' /\ LoopInv'
    BY <1>2, EnqueueMutex DEF EditAndRequest
  <2>. QED  BY <2>1, <2>2 DEF TypeInv
<1>. QED  BY <1>1, <1>2

LEMMA LoopTypes == TypeInv /\ Loop => TypeInv'
<1>. SUFFICES ASSUME TypeInv, Loop PROVE TypeInv'
  OBVIOUS
<1>. USE DEF TypeInv
<1>1. run.stage \notin InTheLine
  BY DEF Loop, TakeInteractive, TakeScheduled, StopLoop, AtTurn, InTheLine, UnderMutex
<1>2. ASSUME NEW p \in Projects, TakeFrom(p), UNCHANGED <<line, deleting, committing, running>>, running
      PROVE  MutexInv' /\ LoopInv'
  <2>1. run'.stage \notin InTheLine /\ (run'.stage # "none" => run'.project \in Projects)
    BY <1>2 DEF TakeFrom, NoRun, StartRun, InTheLine, UnderMutex
  <2>. QED  BY <1>1, <1>2, <2>1, MutexFrame DEF LoopInv
<1>3. CASE TakeInteractive
  <2>1. Head(interactive) \in Projects /\ Tail(interactive) \in Seq(Projects)
    BY <1>3, HeadTailProperties DEF TakeInteractive, TypeOK
  <2>2. MutexInv' /\ LoopInv'
    BY <1>2, <1>3, <2>1 DEF TakeInteractive
  <2>3. jobs' \in [Projects -> Job] /\ run' \in Run /\ wanted' \in [Projects -> BOOLEAN]
    BY <1>3, <2>1, TakeFromType DEF TakeInteractive
  <2>4. TypeOK'
    BY <1>3, <2>1, <2>3 DEF TakeInteractive, TypeOK
  <2>. QED  BY <2>2, <2>4
<1>4. CASE TakeScheduled
  <2>1. Head(scheduled) \in Projects /\ Tail(scheduled) \in Seq(Projects)
    BY <1>4, HeadTailProperties DEF TakeScheduled, TypeOK
  <2>2. MutexInv' /\ LoopInv'
    BY <1>2, <1>4, <2>1 DEF TakeScheduled
  <2>3. jobs' \in [Projects -> Job] /\ run' \in Run /\ wanted' \in [Projects -> BOOLEAN]
    BY <1>4, <2>1, TakeFromType DEF TakeScheduled
  <2>4. TypeOK'
    BY <1>4, <2>1, <2>3 DEF TakeScheduled, TypeOK
  <2>. QED  BY <2>2, <2>4
<1>5. CASE StopLoop
  <2>1. run'.stage = "none" /\ run' \in Run
    BY <1>5 DEF StopLoop, NoRun, Run, Stages
  <2>2. MutexInv'
    BY <1>1, <1>5, <2>1, MutexFrame DEF StopLoop, InTheLine, UnderMutex
  <2>3. TypeOK'
    BY <1>5, <2>1 DEF StopLoop, TypeOK
  <2>. QED  BY <2>1, <2>2, <2>3 DEF LoopInv
<1>. QED  BY <1>3, <1>4, <1>5 DEF Loop

LEMMA StageTypes ==
  ASSUME TypeInv, IndexProject
  PROVE  TypeInv'
<1>. USE DEF TypeInv
<1>1. run.stage # "none" /\ running /\ run.project \in Projects /\ run \in Run
  BY DEF IndexProject, LookUp, BeginRun, SyncSources, FinishRun, RecordRun, LeaveMutex,
         LoopInv, MutexInv, TypeOK
<1>2. CASE LookUp
  <2>1. jobs' \in [Projects -> Job]
    BY <1>2, SetPhaseType DEF LookUp, Phases, TypeOK
  <2>2. run' \in Run
    BY <1>2, SetStageType DEF LookUp, Stages
  <2>3. CASE row[run.project] = "absent"
    <3>1. MutexInv'
      BY <1>1, <1>2, <2>3, MutexFrame DEF LookUp, SetStage, InTheLine, UnderMutex, Run
    <3>. QED  BY <1>1, <1>2, <2>1, <2>2, <2>3, <3>1 DEF LookUp, TypeOK, LoopInv
  <2>4. CASE row[run.project] # "absent"
    <3>. DEFINE p == run.project
    <3>1. Join("run", p) /\ run' = [run EXCEPT !.stage = "lock"] /\ "run" \in Actors /\ run.stage = "lookup"
      BY <1>2, <2>4 DEF LookUp, SetStage, Actors
    <3>2. line' \in [Projects -> Seq(Actors)]
      BY <1>1, <3>1, JoinType
    <3>3. run'.project = p /\ run'.stage = "lock"
      BY <1>1, <3>1 DEF Run
    <3>4. Distinct(p) /\ ~InLine("run", p)
      BY <1>1, <3>1 DEF MutexInv, RunInLine, UnderMutex
    <3>5. \A q \in Projects :
            /\ \A a \in Actors : InLine(a, q)' <=> InLine(a, q) \/ (a = "run" /\ q = p)
            /\ Distinct(q) => Distinct(q)'
            /\ \A a \in Actors : Holds(a, q) => Holds(a, q)'
      BY <1>1, <3>1, <3>4, JoinLine
    <3>6. \A q \in Projects : RunInLine(q)' <=> q = p
      BY <3>3 DEF RunInLine
    <3>7. \A q \in Projects : ~RunInLine(q)
      BY <3>1 DEF RunInLine, UnderMutex
    <3>8. UNCHANGED <<deleting, committing>>
      BY <1>2 DEF LookUp
    <3>9. MutexInv'
      BY <1>1, <3>3, <3>5, <3>6, <3>7, <3>8 DEF MutexInv, Actors, UnderMutex
    <3>. QED  BY <1>1, <1>2, <2>1, <2>2, <3>2, <3>9 DEF LookUp, TypeOK, LoopInv
  <2>. QED  BY <2>3, <2>4
<1>3. CASE BeginRun
  <2>1. jobs' \in [Projects -> Job]
    BY <1>3, SetPhaseType DEF BeginRun, Phases, TypeOK
  <2>2. run' \in Run /\ run'.stage \in {"leave", "sync"} /\ run'.project = run.project
    BY <1>1, <1>3, SetStageType DEF BeginRun, Stages, SetStage, Run
  <2>3. MutexInv'
    BY <1>1, <1>3, <2>2, MutexFrame DEF BeginRun, InTheLine, UnderMutex
  <2>4. forceOwed' \in [Projects -> BOOLEAN]
    BY <1>1, <1>3 DEF BeginRun, TypeOK, Run
  <2>5. row' \in [Projects -> Statuses]
    BY <1>1, <1>3 DEF BeginRun, TypeOK, Statuses
  <2>. QED  BY <1>1, <1>3, <2>1, <2>2, <2>3, <2>4, <2>5 DEF BeginRun, TypeOK, LoopInv
<1>4. CASE SyncSources
  <2>1. jobs' \in [Projects -> Job]
    BY <1>4, SetPhaseType DEF SyncSources, Phases, ActivePhases
  <2>2. run' \in Run /\ run'.stage = "index" /\ run'.project = run.project
    BY <1>1, <1>4, SetStageType DEF SyncSources, Stages, SetStage, Run
  <2>3. MutexInv'
    BY <1>1, <1>4, <2>2, MutexFrame DEF SyncSources, InTheLine, UnderMutex, MutexInv
  <2>4. edited' \in [Projects -> BOOLEAN] /\ uploaded' \in [Projects -> BOOLEAN]
    BY <1>4 DEF SyncSources, TypeOK
  <2>. QED  BY <1>1, <1>4, <2>1, <2>2, <2>3, <2>4 DEF SyncSources, TypeOK, LoopInv
<1>5. ASSUME NEW status \in {"idle", "error", "stuck"}, FinishRun(status) PROVE TypeInv'
  <2>1. run' \in Run /\ run'.stage = "record" /\ run'.project = run.project
    BY <1>1, <1>5, SetStageType DEF FinishRun, Stages, SetStage, Run
  <2>2. MutexInv'
    BY <1>1, <1>5, <2>1, MutexFrame DEF FinishRun, InTheLine, UnderMutex, MutexInv
  <2>3. edited' \in [Projects -> BOOLEAN] /\ uploaded' \in [Projects -> BOOLEAN]
    BY <1>5 DEF FinishRun, TypeOK
  <2>4. row' \in [Projects -> Statuses]
    BY <1>5 DEF FinishRun, TypeOK, Statuses
  <2>. QED  BY <1>1, <1>5, <2>1, <2>2, <2>3, <2>4 DEF FinishRun, TypeOK, LoopInv
<1>6. CASE RecordRun
  <2>1. jobs' \in [Projects -> Job]
    BY <1>6, SetPhaseType DEF RecordRun, Phases
  <2>2. run' \in Run /\ run'.stage = "leave" /\ run'.project = run.project
    BY <1>1, <1>6, SetStageType DEF RecordRun, Stages, SetStage, Run
  <2>3. MutexInv'
    BY <1>1, <1>6, <2>2, MutexFrame DEF RecordRun, InTheLine, UnderMutex, MutexInv
  <2>. QED  BY <1>1, <1>6, <2>1, <2>2, <2>3 DEF RecordRun, TypeOK, LoopInv
<1>7. CASE LeaveMutex
  <2>. DEFINE p == run.project
  <2>1. Release(p) /\ UNCHANGED <<deleting, committing>> /\ run.stage = "leave"
    BY <1>7 DEF LeaveMutex
  <2>2. run' \in Run /\ run'.stage = "ended" /\ run'.project = p
    BY <1>1, <1>7, SetStageType DEF LeaveMutex, Stages, SetStage, Run
  <2>3. Holds("run", p) /\ Distinct(p)
    BY <1>1, <2>1 DEF MutexInv, UnderMutex
  <2>4. line' \in [Projects -> Seq(Actors)]
    BY <1>1, <2>1, <2>3, ReleaseType DEF Holds
  <2>5. \A q \in Projects :
          /\ \A a \in Actors : InLine(a, q)' <=> InLine(a, q) /\ ~(a = "run" /\ q = p)
          /\ Distinct(q) => Distinct(q)'
          /\ \A a \in Actors : q # p /\ Holds(a, q) => Holds(a, q)'
    BY <1>1, <2>1, <2>3, ReleaseLine DEF Actors
  <2>6. \A q \in Projects : ~RunInLine(q)' /\ (RunInLine(q) <=> q = p)
    BY <2>1, <2>2 DEF RunInLine, UnderMutex
  <2>7. deleting[p] # "drop" /\ committing[p] # "write"
    BY <1>1, <2>3 DEF MutexInv, Holds
  <2>8. MutexInv'
    BY <1>1, <2>1, <2>2, <2>5, <2>6, <2>7 DEF MutexInv, Actors, UnderMutex
  <2>. QED  BY <1>1, <1>7, <2>2, <2>4, <2>8 DEF LeaveMutex, TypeOK, LoopInv
<1>. QED  BY <1>2, <1>3, <1>4, <1>5, <1>6, <1>7 DEF IndexProject

\* A delete request or a commit gives the mutex back; the run is elsewhere.
LEMMA ReleaseMutex ==
  ASSUME TypeInv, NEW p \in Projects, Release(p), UNCHANGED run,
         NEW actor \in {"delete", "commit"}, Holds(actor, p),
         \A q \in Projects \ {p} : deleting'[q] = deleting[q] /\ committing'[q] = committing[q],
         actor = "delete" => deleting'[p] \in {"no", "forget"} /\ committing'[p] = committing[p],
         actor = "commit" => committing'[p] \in {"no", "enqueue"} /\ deleting'[p] = deleting[p]
  PROVE  MutexInv' /\ line' \in [Projects -> Seq(Actors)]
<1>. USE DEF TypeInv
<1>1. Distinct(p) /\ actor \in Actors /\ line[p] # <<>>
  BY DEF MutexInv, Actors, Holds
<1>2. \A q \in Projects :
        /\ \A a \in Actors : InLine(a, q)' <=> InLine(a, q) /\ ~(a = actor /\ q = p)
        /\ Distinct(q) => Distinct(q)'
        /\ \A a \in Actors : q # p /\ Holds(a, q) => Holds(a, q)'
  BY <1>1, ReleaseLine
<1>3. /\ ~(run.project = p /\ run.stage \in UnderMutex)
      /\ actor = "delete" => committing[p] # "write"
      /\ actor = "commit" => deleting[p] # "drop"
  BY DEF MutexInv, Holds
<1>4. \A q \in Projects : RunInLine(q)' <=> RunInLine(q)
  BY DEF RunInLine
<1>5. \A q \in Projects : q # p => 
        /\ InLine("run", q)' <=> RunInLine(q)'
        /\ InLine("delete", q)' <=> deleting'[q] \in {"lock", "drop"}
        /\ InLine("commit", q)' <=> committing'[q] \in {"lock", "write"}
        /\ Distinct(q)'
        /\ run'.project = q /\ run'.stage \in UnderMutex => Holds("run", q)'
        /\ deleting'[q] = "drop" => Holds("delete", q)'
        /\ committing'[q] = "write" => Holds("commit", q)'
  BY <1>2, <1>4 DEF MutexInv, Actors
<1>6. /\ InLine("run", p)' <=> RunInLine(p)'
      /\ InLine("delete", p)' <=> deleting'[p] \in {"lock", "drop"}
      /\ InLine("commit", p)' <=> committing'[p] \in {"lock", "write"}
      /\ Distinct(p)'
      /\ ~(run'.project = p /\ run'.stage \in UnderMutex)
      /\ deleting'[p] # "drop" /\ committing'[p] # "write"
  BY <1>2, <1>3, <1>4 DEF MutexInv, Actors
<1>7. MutexInv'
  BY <1>5, <1>6 DEF MutexInv
<1>. QED  BY <1>1, <1>7, ReleaseType

\* A delete request or a commit joins the line of its project.
LEMMA JoinMutex ==
  ASSUME TypeInv, NEW p \in Projects, UNCHANGED run,
         NEW actor \in {"delete", "commit"}, Join(actor, p),
         \A q \in Projects \ {p} : deleting'[q] = deleting[q] /\ committing'[q] = committing[q],
         actor = "delete" => deleting[p] = "no" /\ deleting'[p] = "lock" /\ committing'[p] = committing[p],
         actor = "commit" => committing[p] = "no" /\ committing'[p] = "lock" /\ deleting'[p] = deleting[p]
  PROVE  MutexInv' /\ line' \in [Projects -> Seq(Actors)]
<1>. USE DEF TypeInv
<1>1. Distinct(p) /\ actor \in Actors /\ ~InLine(actor, p)
  BY DEF MutexInv, Actors
<1>2. \A q \in Projects :
        /\ \A a \in Actors : InLine(a, q)' <=> InLine(a, q) \/ (a = actor /\ q = p)
        /\ Distinct(q) => Distinct(q)'
        /\ \A a \in Actors : Holds(a, q) => Holds(a, q)'
  BY <1>1, JoinLine
<1>3. \A q \in Projects : RunInLine(q)' <=> RunInLine(q)
  BY DEF RunInLine
<1>4. \A q \in Projects :
        /\ InLine("run", q)' <=> RunInLine(q)'
        /\ InLine("delete", q)' <=> deleting'[q] \in {"lock", "drop"}
        /\ InLine("commit", q)' <=> committing'[q] \in {"lock", "write"}
  BY <1>2, <1>3 DEF MutexInv, Actors
<1>5. \A q \in Projects :
        /\ Distinct(q)'
        /\ run'.project = q /\ run'.stage \in UnderMutex => Holds("run", q)'
        /\ deleting'[q] = "drop" => Holds("delete", q)'
        /\ committing'[q] = "write" => Holds("commit", q)'
  BY <1>2 DEF MutexInv, Actors
<1>6. MutexInv'
  BY <1>4, <1>5 DEF MutexInv
<1>. QED  BY <1>1, <1>6, JoinType

LEMMA DeleteTypes ==
  ASSUME TypeInv, NEW p \in Projects, AskDelete(p) \/ DeleteProject(p)
  PROVE  TypeInv'
<1>. USE DEF TypeInv
<1>1. CASE AskDelete(p)
  <2>1. MutexInv' /\ line' \in [Projects -> Seq(Actors)]
    BY <1>1, JoinMutex DEF AskDelete, TypeOK
  <2>. QED  BY <1>1, <2>1 DEF AskDelete, TypeOK, LoopInv
<1>2. CASE DecideDelete(p)
  <2>1. CASE SaysIndexing(p) \/ IsBusy(p)
    <3>1. MutexInv' /\ line' \in [Projects -> Seq(Actors)]
      BY <1>2, <2>1, ReleaseMutex DEF DecideDelete, TypeOK
    <3>. QED  BY <1>2, <2>1, <3>1 DEF DecideDelete, TypeOK, LoopInv
  <2>2. CASE ~(SaysIndexing(p) \/ IsBusy(p))
    <3>1. UNCHANGED <<line, run, committing>> /\ Holds("delete", p) /\ deleting[p] = "lock"
          /\ deleting' = [deleting EXCEPT ![p] = "drop"]
      BY <1>2, <2>2 DEF DecideDelete
    <3>2. \A q \in Projects :
            /\ deleting'[q] \in {"lock", "drop"} <=> deleting[q] \in {"lock", "drop"}
            /\ deleting'[q] = "drop" => Holds("delete", q)
      BY <3>1 DEF TypeOK, MutexInv
    <3>3. MutexInv'
      BY <3>1, <3>2, LineFrame DEF MutexInv, RunInLine
    <3>. QED  BY <1>2, <3>1, <3>3 DEF DecideDelete, TypeOK, LoopInv
  <2>. QED  BY <2>1, <2>2
<1>3. CASE DeleteRow(p)
  <2>1. Holds("delete", p)
    BY <1>3 DEF DeleteRow, MutexInv
  <2>2. MutexInv' /\ line' \in [Projects -> Seq(Actors)]
    BY <1>3, <2>1, ReleaseMutex DEF DeleteRow, TypeOK
  <2>3. row' \in [Projects -> Statuses] /\ deleting' \in [Projects -> {"no", "lock", "drop", "forget"}]
    BY <1>3 DEF DeleteRow, TypeOK, Statuses
  <2>. QED  BY <1>3, <2>2, <2>3 DEF DeleteRow, TypeOK, LoopInv
<1>4. CASE DropIndexFails(p)
  <2>1. Holds("delete", p)
    BY <1>4 DEF DropIndexFails, MutexInv
  <2>2. MutexInv' /\ line' \in [Projects -> Seq(Actors)]
    BY <1>4, <2>1, ReleaseMutex DEF DropIndexFails, TypeOK
  <2>. QED  BY <1>4, <2>2 DEF DropIndexFails, TypeOK, LoopInv
<1>5. CASE Forget(p)
  <2>1. run'.stage = run.stage /\ run'.project = run.project /\ run' \in Run
    BY <1>5 DEF Forget, TypeOK, Run
  <2>2. \A q \in Projects :
          /\ deleting'[q] \in {"lock", "drop"} <=> deleting[q] \in {"lock", "drop"}
          /\ deleting'[q] = "drop" => deleting[q] = "drop"
    BY <1>5 DEF Forget, TypeOK
  <2>3. line' = line /\ committing' = committing
    BY <1>5 DEF Forget
  <2>4. \A q \in Projects : RunInLine(q)' <=> RunInLine(q)
    BY <2>1 DEF RunInLine
  <2>5. MutexInv'
    BY <2>1, <2>2, <2>3, <2>4, LineFrame DEF MutexInv
  <2>6. NoJob \in Job
    BY TriggersAssumption DEF NoJob, Job, Phases
  <2>7. jobs' \in [Projects -> Job] /\ wanted' \in [Projects -> BOOLEAN]
    BY <1>5, <2>6 DEF Forget, TypeOK
  <2>. QED  BY <1>5, <2>1, <2>5, <2>7 DEF Forget, TypeOK, LoopInv
<1>. QED  BY <1>1, <1>2, <1>3, <1>4, <1>5 DEF DeleteProject

LEMMA CommitTypes ==
  ASSUME TypeInv, NEW p \in Projects, AskCommit(p) \/ CommitUpload(p)
  PROVE  TypeInv'
<1>. USE DEF TypeInv
<1>1. CASE AskCommit(p)
  <2>1. MutexInv' /\ line' \in [Projects -> Seq(Actors)]
    BY <1>1, JoinMutex DEF AskCommit, TypeOK
  <2>. QED  BY <1>1, <2>1 DEF AskCommit, TypeOK, LoopInv
<1>2. CASE BeginCommit(p)
  <2>1. UNCHANGED <<line, run, deleting>> /\ Holds("commit", p) /\ committing[p] = "lock"
        /\ committing' = [committing EXCEPT ![p] = "write"]
    BY <1>2 DEF BeginCommit
  <2>2. \A q \in Projects :
          /\ committing'[q] \in {"lock", "write"} <=> committing[q] \in {"lock", "write"}
          /\ committing'[q] = "write" => Holds("commit", q)
    BY <2>1 DEF TypeOK, MutexInv
  <2>3. MutexInv'
    BY <2>1, <2>2, LineFrame DEF MutexInv, RunInLine
  <2>. QED  BY <1>2, <2>1, <2>3 DEF BeginCommit, TypeOK, LoopInv
<1>3. ASSUME NEW written \in BOOLEAN, WriteCommit(p, written) PROVE TypeInv'
  <2>1. Holds("commit", p)
    BY <1>3 DEF WriteCommit, MutexInv
  <2>2. MutexInv' /\ line' \in [Projects -> Seq(Actors)]
    BY <1>3, <2>1, ReleaseMutex DEF WriteCommit, TypeOK
  <2>3. uploaded' \in [Projects -> BOOLEAN]
    BY <1>3 DEF WriteCommit, TypeOK
  <2>. QED  BY <1>3, <2>2, <2>3 DEF WriteCommit, TypeOK, LoopInv
<1>4. CASE EnqueueCommit(p)
  <2>1. Enqueue(p, "manual", FALSE) /\ "manual" \in Triggers /\ UNCHANGED <<line, deleting>>
        /\ committing[p] = "enqueue" /\ committing' = [committing EXCEPT ![p] = "no"]
    BY <1>4, TriggersAssumption DEF EnqueueCommit
  <2>2. /\ LoopInv'
        /\ \/ run' = run
           \/ run.stage = "none" /\ run'.stage = "lookup" /\ run'.project = p
    BY <2>1, EnqueueRun
  <2>3. /\ \A q \in Projects : RunInLine(q)' <=> RunInLine(q)
        /\ run'.stage # "none" => run'.project \in Projects
        /\ \A q \in Projects : run'.project = q /\ run'.stage \in UnderMutex => Holds("run", q)
    BY <2>2 DEF RunInLine, UnderMutex, MutexInv
  <2>4. \A q \in Projects :
          /\ committing'[q] \in {"lock", "write"} <=> committing[q] \in {"lock", "write"}
          /\ committing'[q] = "write" => committing[q] = "write"
    BY <2>1 DEF TypeOK
  <2>5. MutexInv'
    BY <2>1, <2>3, <2>4, LineFrame DEF MutexInv
  <2>6. TypeOK'
    BY <1>4, <2>1, EnqueueType DEF EnqueueCommit, TypeOK
  <2>. QED  BY <2>2, <2>5, <2>6
<1>. QED  BY <1>1, <1>2, <1>3, <1>4 DEF CommitUpload

LEMMA RestartTypes ==
  ASSUME TypeInv, Crash \/ Startup
  PROVE  TypeInv'
<1>. USE DEF TypeInv
<1>1. CASE Crash
  <2>1. run'.stage = "none" /\ run' \in Run
    BY <1>1 DEF Crash, NoRun, Run, Stages
  <2>2. NoJob \in Job
    BY TriggersAssumption DEF NoJob, Job, Phases
  <2>3. \A p \in Projects : line'[p] = <<>> /\ deleting'[p] = "no" /\ committing'[p] = "no"
    BY <1>1 DEF Crash
  <2>4. \A p \in Projects : Distinct(p)' /\ \A a \in Actors : ~InLine(a, p)'
    <3>1. \A p \in Projects : Len(line'[p]) = 0
      BY <2>3
    <3>. QED  BY <3>1 DEF InLine, Distinct
  <2>5. MutexInv'
    BY <2>1, <2>3, <2>4 DEF MutexInv, RunInLine, UnderMutex, Actors
  <2>6. /\ jobs' \in [Projects -> Job] /\ line' \in [Projects -> Seq(Actors)]
        /\ interactive' \in Seq(Projects) /\ scheduled' \in Seq(Projects)
    BY <1>1, <2>2 DEF Crash
  <2>7. /\ up' \in {"up", "down", "recovering"}
        /\ running' \in BOOLEAN /\ recovered' \in SUBSET Projects
        /\ row' \in [Projects -> Statuses]
    BY <1>1 DEF Crash, TypeOK
  <2>8. /\ deleting' \in [Projects -> {"no", "lock", "drop", "forget"}]
        /\ committing' \in [Projects -> {"no", "lock", "write", "enqueue"}]
    BY <1>1 DEF Crash
  <2>9. /\ edited' \in [Projects -> BOOLEAN] /\ uploaded' \in [Projects -> BOOLEAN]
        /\ forceOwed' \in [Projects -> BOOLEAN] /\ wanted' \in [Projects -> BOOLEAN]
    BY <1>1 DEF Crash
  <2>10. crashes' \in 0..MaxCrashes
    BY <1>1, MaxCrashesAssumption DEF Crash, TypeOK
  <2>11. TypeOK'
    BY <2>1, <2>6, <2>7, <2>8, <2>9, <2>10 DEF TypeOK
  <2>. QED  BY <2>1, <2>5, <2>11 DEF LoopInv
<1>2. CASE Recover
  <2>1. row' \in [Projects -> Statuses] /\ recovered' \in SUBSET Projects
    BY <1>2 DEF Recover, TypeOK, Statuses
  <2>2. MutexInv' /\ LoopInv'
    BY <1>2, MutexFrame DEF Recover, memory, LoopInv
  <2>. QED  BY <1>2, <2>1, <2>2 DEF Recover, memory, TypeOK
<1>3. CASE Listen
  <2>1. MutexInv' /\ LoopInv'
    BY <1>3, MutexFrame DEF Listen, memory, LoopInv
  <2>. QED  BY <1>3, <2>1 DEF Listen, memory, TypeOK
<1>4. ASSUME NEW p \in Projects, Requeue(p) PROVE TypeInv'
  <2>1. "scheduled" \in Triggers
    BY TriggersAssumption
  <2>2. TypeOK'
    BY <1>4, <2>1, EnqueueType DEF Requeue, TypeOK
  <2>3. MutexInv' /\ LoopInv'
    BY <1>4, EnqueueMutex DEF Requeue
  <2>. QED  BY <2>2, <2>3
<1>. QED  BY <1>1, <1>2, <1>3, <1>4 DEF Startup

LEMMA TypeInvStep == TypeInv /\ [Next]_vars => TypeInv'
<1>. SUFFICES ASSUME TypeInv, [Next]_vars PROVE TypeInv'
  OBVIOUS
<1>1. CASE UNCHANGED vars
  BY <1>1, MutexFrame DEF vars, memory, TypeInv, TypeOK, LoopInv
<1>2. CASE Loop
  BY <1>2, LoopTypes
<1>3. CASE IndexProject
  BY <1>3, StageTypes
<1>4. CASE \E p \in Projects : Client(p) \/ DeleteProject(p) \/ CommitUpload(p)
  BY <1>4, RequestTypes, DeleteTypes, CommitTypes DEF Client
<1>5. CASE Crash \/ Startup
  BY <1>5, RestartTypes
<1>. QED  BY <1>1, <1>2, <1>3, <1>4, <1>5 DEF Next

\* Every variable of the indexing queue stays in its type, and the lines at
\* the mutexes hold exactly the callers whose stage says they stand there.
THEOREM TypeCorrect == Spec => []TypeOK
<1>1. Init => TypeInv
  BY TypeInvInit
<1>2. TypeInv /\ [Next]_vars => TypeInv'
  BY TypeInvStep
<1>3. TypeInv => TypeOK
  BY DEF TypeInv
<1>. QED  BY <1>1, <1>2, <1>3, PTL DEF Spec

-----------------------------------------------------------------------------
(* The run owns its row.                                                   *)

Working == {"sync", "index", "record"}

\* Steps that write no row, end no delete and move no working run.
LEMMA OwnerFrame ==
  ASSUME OwnerInv, UNCHANGED row, up = "down" => up' = "down",
         \A p \in Projects : deleting'[p] = "forget" => deleting[p] = "forget",
         \/ run' = run
         \/ run.stage \notin Working /\ run'.stage \notin Working
         \/ /\ run.stage \in {"sync", "index"} => run'.stage \in {"sync", "index"}
            /\ run'.stage \in Working => run.stage \in Working
            /\ run'.project = run.project
  PROVE  OwnerInv'
BY DEF OwnerInv, IndexingMeansRunning, Working

LEMMA EnqueueOwner ==
  ASSUME TypeInv, OwnerInv, NEW p \in Projects, NEW trigger, NEW force, Enqueue(p, trigger, force),
         UNCHANGED <<up, row>>,
         \A q \in Projects : deleting'[q] = "forget" => deleting[q] = "forget"
  PROVE  OwnerInv'
<1>1. \/ run' = run
      \/ run.stage = "none" /\ run'.stage = "lookup"
  BY EnqueueRun DEF TypeInv
<1>. QED  BY <1>1, OwnerFrame DEF Working

LEMMA OwnerInit == Init => OwnerInv
BY DEF Init, OwnerInv, IndexingMeansRunning, NoRun

LEMMA StageOwner ==
  ASSUME TypeInv, OwnerInv, IndexProject
  PROVE  OwnerInv'
<1>. USE DEF TypeInv
<1>1. run.project \in Projects /\ run \in Run /\ row \in [Projects -> Statuses]
  BY DEF IndexProject, LookUp, BeginRun, SyncSources, FinishRun, RecordRun, LeaveMutex,
         MutexInv, TypeOK
<1>2. CASE LookUp
  <2>1. run'.stage \notin Working /\ run.stage \notin Working /\ row' = row /\ up' = up /\ deleting' = deleting
    BY <1>1, <1>2 DEF LookUp, SetStage, Working, Run
  <2>. QED  BY <2>1, OwnerFrame
<1>3. CASE BeginRun
  <2>1. CASE row[run.project] = "absent"
    <3>1. run'.stage \notin Working /\ run.stage \notin Working /\ row' = row /\ up' = up /\ deleting' = deleting
      BY <1>1, <1>3, <2>1 DEF BeginRun, SetStage, Working, Run
    <3>. QED  BY <3>1, OwnerFrame
  <2>2. CASE row[run.project] # "absent"
    <3>1. /\ run'.stage = "sync" /\ run'.project = run.project
          /\ row' = [row EXCEPT ![run.project] = "indexing"]
          /\ up' = up /\ deleting' = deleting /\ run.stage = "lock"
      BY <1>1, <1>3, <2>2 DEF BeginRun, SetStage, Run
    <3>. QED  BY <1>1, <2>2, <3>1 DEF OwnerInv, IndexingMeansRunning
  <2>. QED  BY <2>1, <2>2
<1>4. CASE SyncSources
  <2>1. run'.stage = "index" /\ run.stage = "sync" /\ run'.project = run.project
    BY <1>1, <1>4 DEF SyncSources, SetStage, Run
  <2>2. row' = row /\ up' = up /\ deleting' = deleting
    BY <1>4 DEF SyncSources
  <2>. QED  BY <2>1, <2>2, OwnerFrame DEF Working
<1>5. ASSUME NEW status \in {"idle", "error", "stuck"}, FinishRun(status) PROVE OwnerInv'
  <2>1. /\ run'.stage = "record" /\ run'.project = run.project /\ run.stage \in Working
        /\ row' = [row EXCEPT ![run.project] = status]
        /\ up' = up /\ deleting' = deleting
    BY <1>1, <1>5 DEF FinishRun, SetStage, Run, Working
  <2>. QED  BY <1>1, <2>1 DEF OwnerInv, IndexingMeansRunning, Working
<1>6. CASE RecordRun
  <2>1. /\ run'.stage = "leave" /\ run'.project = run.project /\ run.stage = "record"
        /\ row' = row /\ up' = up /\ deleting' = deleting
    BY <1>1, <1>6 DEF RecordRun, SetStage, Run
  <2>. QED  BY <2>1, OwnerFrame DEF Working
<1>7. CASE LeaveMutex
  <2>1. /\ run'.stage = "ended" /\ run'.project = run.project /\ run.stage = "leave"
        /\ row' = row /\ up' = up /\ deleting' = deleting
    BY <1>1, <1>7 DEF LeaveMutex, SetStage, Run
  <2>. QED  BY <2>1, OwnerFrame DEF Working
<1>. QED  BY <1>2, <1>3, <1>4, <1>5, <1>6, <1>7 DEF IndexProject

LEMMA ClientOwner ==
  ASSUME TypeInv, OwnerInv, NEW p \in Projects, Client(p) \/ DeleteProject(p) \/ CommitUpload(p)
  PROVE  OwnerInv'
<1>. USE DEF TypeInv
<1>1. ASSUME NEW trigger \in Triggers, NEW force \in BOOLEAN, Request(p, trigger, force) PROVE OwnerInv'
  BY <1>1, EnqueueOwner DEF Request
<1>2. ASSUME NEW trigger \in Triggers, EditAndRequest(p, trigger) PROVE OwnerInv'
  BY <1>2, EnqueueOwner DEF EditAndRequest
<1>3. CASE AskDelete(p)
  BY <1>3, OwnerFrame DEF AskDelete, TypeOK
<1>4. CASE DecideDelete(p)
  BY <1>4, OwnerFrame DEF DecideDelete, TypeOK
<1>5. CASE DeleteRow(p)
  <2>1. CASE SaysIndexing(p)
    BY <1>5, <2>1, OwnerFrame DEF DeleteRow, TypeOK
  <2>2. CASE ~SaysIndexing(p)
    <3>1. /\ row' = [row EXCEPT ![p] = "absent"]
          /\ deleting' = [deleting EXCEPT ![p] = "forget"]
          /\ run' = run /\ up' = up
          /\ row \in [Projects -> Statuses] /\ deleting \in [Projects -> {"no", "lock", "drop", "forget"}]
      BY <1>5, <2>2 DEF DeleteRow, TypeOK
    <3>2. run.stage \in Working => run.project # p
      BY <1>5 DEF DeleteRow, MutexInv, Holds, Working, UnderMutex
    <3>. QED  BY <3>1, <3>2 DEF OwnerInv, IndexingMeansRunning, Working
  <2>. QED  BY <2>1, <2>2
<1>6. CASE DropIndexFails(p)
  BY <1>6, OwnerFrame DEF DropIndexFails, TypeOK
<1>7. CASE Forget(p)
  <2>1. run'.stage = run.stage /\ run'.project = run.project
    BY <1>7 DEF Forget, TypeOK, Run
  <2>. QED  BY <1>7, <2>1, OwnerFrame DEF Forget, TypeOK
<1>8. CASE AskCommit(p) \/ BeginCommit(p)
  BY <1>8, OwnerFrame DEF AskCommit, BeginCommit
<1>9. ASSUME NEW written \in BOOLEAN, WriteCommit(p, written) PROVE OwnerInv'
  BY <1>9, OwnerFrame DEF WriteCommit
<1>10. CASE EnqueueCommit(p)
  BY <1>10, EnqueueOwner DEF EnqueueCommit
<1>. QED  BY <1>1, <1>2, <1>3, <1>4, <1>5, <1>6, <1>7, <1>8, <1>9, <1>10 DEF Client, DeleteProject, CommitUpload

LEMMA OwnerStep == TypeInv /\ OwnerInv /\ [Next]_vars => OwnerInv'
<1>. SUFFICES ASSUME TypeInv, OwnerInv, [Next]_vars PROVE OwnerInv'
  OBVIOUS
<1>1. CASE UNCHANGED vars
  BY <1>1, OwnerFrame DEF vars, memory
<1>2. CASE Loop
  <2>1. run.stage \notin Working /\ run'.stage \notin Working
    BY <1>2 DEF Loop, TakeInteractive, TakeScheduled, StopLoop, TakeFrom, StartRun, AtTurn, NoRun, Working
  <2>2. row' = row /\ up' = up /\ deleting' = deleting
    BY <1>2 DEF Loop, TakeInteractive, TakeScheduled, StopLoop
  <2>. QED  BY <2>1, <2>2, OwnerFrame
<1>3. CASE IndexProject
  BY <1>3, StageOwner
<1>4. CASE \E p \in Projects : Client(p) \/ DeleteProject(p) \/ CommitUpload(p)
  BY <1>4, ClientOwner
<1>5. CASE Crash
  <2>1. row' = row /\ up' = "down" /\ run'.stage = "none" /\ \A p \in Projects : deleting'[p] = "no"
    BY <1>5 DEF Crash, NoRun
  <2>. QED  BY <2>1 DEF OwnerInv, IndexingMeansRunning
<1>6. CASE Recover
  <2>1. /\ \A p \in Projects : row'[p] # "indexing" /\ (row'[p] = "absent" <=> row[p] = "absent")
        /\ run' = run /\ deleting' = deleting
    BY <1>6 DEF Recover, memory, SaysIndexing
  <2>2. run.stage \in Working => run.project \in Projects
    BY DEF TypeInv, MutexInv, Working
  <2>. QED  BY <2>1, <2>2 DEF OwnerInv, IndexingMeansRunning, Working
<1>7. CASE Listen
  BY <1>7, OwnerFrame DEF Listen, memory
<1>8. ASSUME NEW p \in Projects, Requeue(p) PROVE OwnerInv'
  BY <1>8, EnqueueOwner DEF Requeue
<1>. QED  BY <1>1, <1>2, <1>3, <1>4, <1>5, <1>6, <1>7, <1>8 DEF Next, Startup

LEMMA OwnerImplies ==
  ASSUME TypeInv, OwnerInv
  PROVE  RunOwnsItsProject /\ IndexingMeansRunning
<1>1. IndexingMeansRunning
  BY DEF OwnerInv
<1>2. RunOwnsItsProject
  <2>. SUFFICES ASSUME run.stage \in Working
                PROVE  /\ Holds("run", run.project)
                       /\ row[run.project] # "absent"
                       /\ deleting[run.project] \in {"no", "lock"}
                       /\ committing[run.project] # "write"
    BY DEF RunOwnsItsProject, Working
  <2>1. run.project \in Projects /\ Holds("run", run.project)
    BY DEF TypeInv, MutexInv, Working, UnderMutex
  <2>2. row[run.project] # "absent"
    BY DEF OwnerInv, Working
  <2>3. deleting[run.project] # "drop" /\ committing[run.project] # "write"
    BY <2>1 DEF TypeInv, MutexInv, Holds
  <2>4. deleting[run.project] # "forget" /\ deleting[run.project] \in {"no", "lock", "drop", "forget"}
    BY <2>1, <2>2 DEF OwnerInv, TypeInv, TypeOK
  <2>. QED  BY <2>1, <2>2, <2>3, <2>4
<1>. QED  BY <1>1, <1>2

\* A run past its second look at the project holds the mutex, has a row to
\* write to, and shares the project with no delete and no commit that is in
\* the middle of its own work.
THEOREM RunsOwnTheirProject == Spec => []RunOwnsItsProject
<1>1. Init => TypeInv /\ OwnerInv
  BY TypeInvInit, OwnerInit
<1>2. TypeInv /\ OwnerInv /\ [Next]_vars => (TypeInv /\ OwnerInv)'
  BY TypeInvStep, OwnerStep
<1>3. TypeInv /\ OwnerInv => RunOwnsItsProject
  BY OwnerImplies
<1>. QED  BY <1>1, <1>2, <1>3, PTL DEF Spec

\* 'indexing' in the database has a run behind it, or a process that died.
THEOREM IndexingIsTrue == Spec => []IndexingMeansRunning
<1>1. Init => TypeInv /\ OwnerInv
  BY TypeInvInit, OwnerInit
<1>2. TypeInv /\ OwnerInv /\ [Next]_vars => (TypeInv /\ OwnerInv)'
  BY TypeInvStep, OwnerStep
<1>3. TypeInv /\ OwnerInv => IndexingMeansRunning
  BY OwnerImplies
<1>. QED  BY <1>1, <1>2, <1>3, PTL DEF Spec

\* The row of a project and what goes on agree (IndexQueue.RunAndRowAgree).
THEOREM RunAndRowDoAgree == Spec => []RunAndRowAgree
<1>1. RunOwnsItsProject /\ IndexingMeansRunning => RunAndRowAgree
  BY DEF RunAndRowAgree
<1>. QED  BY <1>1, RunsOwnTheirProject, IndexingIsTrue, PTL

-----------------------------------------------------------------------------
(* Active jobs are in a lane or in the hands of the run.                   *)

QueueInv ==
  /\ ~running => interactive = <<>> /\ scheduled = <<>>
  /\ \A p \in Projects :
       /\ jobs[p].phase = "queued" => InLane(p, interactive) \/ InLane(p, scheduled)
       /\ jobs[p].phase = "syncing" =>
            run.project = p /\ run.kept /\ run.stage \in {"lookup", "lock", "sync", "record"}
       /\ jobs[p].phase = "embedding" =>
            run.project = p /\ run.kept /\ run.stage \in {"index", "record"}
       /\ row[p] # "absent" /\ uploaded[p] =>
            committing[p] = "enqueue" \/ jobs[p].phase \in {"queued", "syncing"}
  /\ run.stage \in {"index", "record"} => ~uploaded[run.project]

\* indexOf finds an entry that is there.
LEMMA FirstAtThere ==
  ASSUME NEW s \in Seq(Projects), NEW p, InLane(p, s)
  PROVE  FirstAt(p, s) \in 1..Len(s) /\ s[FirstAt(p, s)] = p
<1>. DEFINE T == {i \in 1..Len(s) : s[i] = p}
            R == OpToRel(<, Nat)
<1>1. T \subseteq Nat /\ T # {}
  BY DEF InLane
<1>2. PICK i \in T : \A j \in T : ~(<<j, i>> \in R)
  <2>. HIDE DEF T, R
  <2>1. IsWellFoundedOn(R, Nat)
    BY NatLessThanWellFounded DEF R
  <2>. QED  BY <1>1, <2>1, WFMin
<1>3. \A j \in T : ~(j < i)
  BY <1>1, <1>2 DEF OpToRel
<1>4. i \in 1..Len(s) /\ s[i] = p /\ \A j \in 1..(i - 1) : s[j] # p
  BY <1>3
<1>. QED  BY <1>4 DEF FirstAt

LEMMA AppendLane ==
  ASSUME NEW s \in Seq(Projects), NEW p \in Projects
  PROVE  /\ InLane(p, Append(s, p))
         /\ \A q : InLane(q, s) => InLane(q, Append(s, p))
BY DEF InLane

LEMMA TailLane ==
  ASSUME NEW s \in Seq(Projects), s # <<>>, NEW q, InLane(q, s), q # Head(s)
  PROVE  InLane(q, Tail(s))
<1>1. PICK i \in 1..Len(s) : s[i] = q
  BY DEF InLane
<1>2. i - 1 \in 1..Len(Tail(s)) /\ Tail(s)[i - 1] = q
  BY <1>1, HeadTailProperties
<1>. QED  BY <1>2 DEF InLane

LEMMA WithoutLane ==
  ASSUME NEW s \in Seq(Projects), NEW at \in 1..Len(s), NEW q, InLane(q, s), q # s[at]
  PROVE  InLane(q, Without(s, at))
<1>1. PICK i \in 1..Len(s) : s[i] = q
  BY DEF InLane
<1>2. Len(s) \in Nat /\ Len(s) # 0
  OBVIOUS
<1>3. Without(s, at) = [k \in 1..(Len(s) - 1) |-> IF k < at THEN s[k] ELSE s[k + 1]]
  BY DEF Without
<1>4. Without(s, at) \in Seq(Projects)
  BY <1>2, WithoutType
<1>5. Len(Without(s, at)) = Len(s) - 1
  BY <1>2, <1>3, <1>4
<1>6. CASE i < at
  BY <1>1, <1>2, <1>3, <1>5, <1>6 DEF InLane
<1>7. CASE ~(i < at)
  <2>1. i - 1 \in 1..(Len(s) - 1) /\ ~(i - 1 < at)
    BY <1>1, <1>7
  <2>2. Without(s, at)[i - 1] = q
    BY <1>1, <1>3, <2>1
  <2>. QED  BY <1>5, <2>1, <2>2 DEF InLane
<1>. QED  BY <1>6, <1>7

\* Joining an active job leaves every entry in one of the lanes.
LEMMA CollapseLanes ==
  ASSUME TypeInv, NEW p \in Projects, NEW trigger, NEW force, Collapse(p, trigger, force),
         NEW q \in Projects, InLane(q, interactive) \/ InLane(q, scheduled)
  PROVE  InLane(q, interactive') \/ InLane(q, scheduled')
<1>1. interactive \in Seq(Projects) /\ scheduled \in Seq(Projects)
  BY DEF TypeInv, TypeOK
<1>2. CASE interactive' = interactive /\ scheduled' = scheduled
  BY <1>2
<1>3. CASE ~(interactive' = interactive /\ scheduled' = scheduled)
  <2>1. /\ InLane(p, scheduled)
        /\ interactive' = Append(interactive, p)
        /\ scheduled' = Without(scheduled, FirstAt(p, scheduled))
    BY <1>3 DEF Collapse
  <2>2. FirstAt(p, scheduled) \in 1..Len(scheduled) /\ scheduled[FirstAt(p, scheduled)] = p
    BY <1>1, <2>1, FirstAtThere
  <2>3. CASE q = p \/ InLane(q, interactive)
    BY <1>1, <2>1, <2>3, AppendLane
  <2>4. CASE q # p /\ InLane(q, scheduled)
    BY <1>1, <2>1, <2>2, <2>4, WithoutLane
  <2>. QED  BY <2>3, <2>4
<1>. QED  BY <1>2, <1>3

\* What an enqueue does to the map of jobs.
LEMMA EnqueuePhases ==
  ASSUME TypeInv, NEW p \in Projects, NEW trigger \in Triggers, NEW force \in BOOLEAN,
         Enqueue(p, trigger, force)
  PROVE  /\ \A q \in Projects \ {p} : jobs'[q] = jobs[q]
         /\ IsBusy(p) => jobs'[p].phase = jobs[p].phase
         /\ ~IsBusy(p) /\ running => jobs'[p].phase = "queued"
         /\ ~IsBusy(p) /\ ~running => jobs'[p].phase = "syncing"
<1>1. jobs \in [Projects -> Job]
  BY DEF TypeInv, TypeOK
<1>2. CASE IsBusy(p)
  BY <1>1, <1>2 DEF Enqueue, Collapse
<1>3. CASE ~IsBusy(p) /\ running
  BY <1>1, <1>3 DEF Enqueue, NewJob
<1>4. CASE ~IsBusy(p) /\ ~running
  BY <1>1, <1>4 DEF Enqueue, NewJob, StartRun
<1>. QED  BY <1>2, <1>3, <1>4

LEMMA EnqueueQueue ==
  ASSUME TypeInv, QueueInv, NEW p \in Projects, NEW trigger \in Triggers, NEW force \in BOOLEAN,
         Enqueue(p, trigger, force), UNCHANGED <<row, uploaded>>,
         \A q \in Projects \ {p} : committing'[q] = committing[q]
  PROVE  QueueInv'
<1>1. /\ jobs \in [Projects -> Job]
      /\ interactive \in Seq(Projects) /\ scheduled \in Seq(Projects)
  BY DEF TypeInv, TypeOK
<1>2. \A q \in Projects \ {p} : jobs'[q] = jobs[q]
  BY EnqueuePhases
<1>3. CASE IsBusy(p)
  <2>1. Collapse(p, trigger, force) /\ run' = run /\ running' = running
    BY <1>3 DEF Enqueue, Collapse
  <2>2. jobs'[p].phase = jobs[p].phase
    BY <1>3, EnqueuePhases
  <2>3. \A q \in Projects : jobs'[q].phase = "queued" => InLane(q, interactive') \/ InLane(q, scheduled')
    BY <1>2, <2>1, <2>2, CollapseLanes DEF QueueInv
  <2>4. ~running' => interactive' = <<>> /\ scheduled' = <<>>
    <3>1. ASSUME ~running PROVE ~InLane(p, scheduled)
      <4>1. scheduled = <<>>
        BY <3>1 DEF QueueInv
      <4>2. Len(scheduled) = 0
        BY <4>1, EmptySeq
      <4>. QED  BY <4>2 DEF InLane
    <3>. QED  BY <2>1, <3>1 DEF Collapse, QueueInv
  <2>5. row[p] # "absent" /\ uploaded[p] => jobs'[p].phase \in {"queued", "syncing"}
    BY <1>3, <2>2 DEF QueueInv, IsBusy, ActivePhases
  <2>. QED  BY <1>2, <2>1, <2>2, <2>3, <2>4, <2>5 DEF QueueInv
<1>4. CASE ~IsBusy(p) /\ running
  <2>1. run' = run /\ running' = running
    BY <1>4 DEF Enqueue, NewJob
  <2>2. jobs'[p].phase = "queued"
    BY <1>4, EnqueuePhases
  <2>3. /\ interactive' = interactive \/ interactive' = Append(interactive, p)
        /\ scheduled' = scheduled \/ scheduled' = Append(scheduled, p)
        /\ interactive' = Append(interactive, p) \/ scheduled' = Append(scheduled, p)
    BY <1>4 DEF Enqueue, NewJob
  <2>4. \A q \in Projects : jobs'[q].phase = "queued" => InLane(q, interactive') \/ InLane(q, scheduled')
    <3>1. InLane(p, interactive') \/ InLane(p, scheduled')
      BY <1>1, <2>3, AppendLane
    <3>2. \A q \in Projects : InLane(q, interactive) => InLane(q, interactive')
      BY <1>1, <2>3, AppendLane
    <3>3. \A q \in Projects : InLane(q, scheduled) => InLane(q, scheduled')
      BY <1>1, <2>3, AppendLane
    <3>. QED  BY <1>2, <3>1, <3>2, <3>3 DEF QueueInv
  <2>. QED  BY <1>2, <1>4, <2>1, <2>2, <2>4 DEF QueueInv
<1>5. CASE ~IsBusy(p) /\ ~running
  <2>1. /\ run'.project = p /\ run'.stage = "lookup" /\ run'.kept
        /\ running' /\ interactive' = interactive /\ scheduled' = scheduled
    BY <1>5 DEF Enqueue, NewJob, StartRun
  <2>2. jobs'[p].phase = "syncing"
    BY <1>5, EnqueuePhases
  <2>3. run.stage = "none"
    BY <1>5 DEF TypeInv, LoopInv
  <2>. QED  BY <1>2, <2>1, <2>2, <2>3 DEF QueueInv
<1>. QED  BY <1>3, <1>4, <1>5

\* Steps that touch neither queue, jobs, run nor uploads.
LEMMA QueueFrame ==
  ASSUME QueueInv, UNCHANGED <<running, interactive, scheduled, jobs, run, uploaded>>,
         \A p \in Projects :
           /\ row'[p] # "absent" => row[p] # "absent"
           /\ committing[p] = "enqueue" => committing'[p] = "enqueue"
  PROVE  QueueInv'
BY DEF QueueInv, InLane

LEMMA TakeQueue ==
  ASSUME TypeInv, QueueInv, running, AtTurn, UNCHANGED <<running, row, committing, uploaded>>,
         NEW p \in Projects, TakeFrom(p),
         \A q \in Projects \ {p} :
           InLane(q, interactive) \/ InLane(q, scheduled) => InLane(q, interactive') \/ InLane(q, scheduled')
  PROVE  QueueInv'
<1>1. jobs \in [Projects -> Job]
  BY DEF TypeInv, TypeOK
<1>2. \A q \in Projects : jobs[q].phase \notin {"syncing", "embedding"}
  BY DEF QueueInv, AtTurn
<1>3. CASE jobs[p].phase = "none"
  <2>1. run'.stage = "none" /\ jobs' = jobs
    BY <1>3 DEF TakeFrom, NoRun
  <2>. QED  BY <1>2, <1>3, <2>1 DEF QueueInv
<1>4. CASE jobs[p].phase # "none"
  <2>1. /\ run'.project = p /\ run'.stage = "lookup" /\ run'.kept
        /\ jobs'[p].phase = "syncing"
        /\ \A q \in Projects \ {p} : jobs'[q] = jobs[q]
    BY <1>1, <1>4 DEF TakeFrom, StartRun
  <2>. QED  BY <1>2, <2>1 DEF QueueInv
<1>. QED  BY <1>3, <1>4

LEMMA LoopQueue ==
  ASSUME TypeInv, QueueInv, Loop
  PROVE  QueueInv'
<1>1. interactive \in Seq(Projects) /\ scheduled \in Seq(Projects)
  BY DEF TypeInv, TypeOK
<1>2. CASE TakeInteractive
  <2>. DEFINE p == Head(interactive)
  <2>1. /\ p \in Projects /\ TakeFrom(p) /\ interactive # <<>>
        /\ interactive' = Tail(interactive) /\ scheduled' = scheduled
        /\ running /\ AtTurn /\ UNCHANGED <<running, row, committing, uploaded>>
    BY <1>1, <1>2, HeadTailProperties DEF TakeInteractive
  <2>2. \A q \in Projects \ {p} : InLane(q, interactive) => InLane(q, interactive')
    BY <1>1, <2>1, TailLane
  <2>. QED  BY <2>1, <2>2, TakeQueue
<1>3. CASE TakeScheduled
  <2>. DEFINE p == Head(scheduled)
  <2>1. /\ p \in Projects /\ TakeFrom(p) /\ scheduled # <<>>
        /\ scheduled' = Tail(scheduled) /\ interactive' = interactive
        /\ running /\ AtTurn /\ UNCHANGED <<running, row, committing, uploaded>>
    BY <1>1, <1>3, HeadTailProperties DEF TakeScheduled
  <2>2. \A q \in Projects \ {p} : InLane(q, scheduled) => InLane(q, scheduled')
    BY <1>1, <2>1, TailLane
  <2>. QED  BY <2>1, <2>2, TakeQueue
<1>4. CASE StopLoop
  <2>1. /\ run'.stage = "none" /\ AtTurn /\ jobs' = jobs /\ row' = row /\ committing' = committing
        /\ interactive' = <<>> /\ scheduled' = <<>> /\ interactive = <<>> /\ scheduled = <<>>
        /\ uploaded' = uploaded
    BY <1>4 DEF StopLoop, NoRun
  <2>. QED  BY <2>1 DEF QueueInv, AtTurn
<1>. QED  BY <1>2, <1>3, <1>4 DEF Loop

\* A stage of the run that publishes its phase, if anybody still listens.
LEMMA PhaseOfRun ==
  ASSUME TypeInv, NEW phase \in Phases, SetPhase(phase), run.project \in Projects
  PROVE  /\ \A q \in Projects \ {run.project} : jobs'[q] = jobs[q]
         /\ run.kept => jobs'[run.project].phase = phase
         /\ ~run.kept => jobs' = jobs
BY DEF SetPhase, TypeInv, TypeOK, Job

LEMMA StageQueue ==
  ASSUME TypeInv, QueueInv, IndexProject
  PROVE  QueueInv'
<1>. DEFINE p == run.project
<1>1. p \in Projects /\ run \in Run /\ jobs \in [Projects -> Job]
      /\ uploaded \in [Projects -> BOOLEAN] /\ row \in [Projects -> Statuses]
  BY DEF IndexProject, LookUp, BeginRun, SyncSources, FinishRun, RecordRun, LeaveMutex,
         TypeInv, MutexInv, TypeOK
<1>2. UNCHANGED <<running, interactive, scheduled, committing>>
  BY DEF IndexProject, LookUp, BeginRun, SyncSources, FinishRun, RecordRun, LeaveMutex
<1>3. CASE LookUp
  <2>1. row' = row /\ uploaded' = uploaded /\ run.stage = "lookup"
    BY <1>3 DEF LookUp
  <2>2. CASE row[p] = "absent"
    <3>1. run'.project = p /\ run'.kept = run.kept /\ run'.stage = "ended"
      BY <1>1, <1>3, <2>2 DEF LookUp, SetStage, Run
    <3>2. /\ \A q \in Projects \ {p} : jobs'[q] = jobs[q]
          /\ run.kept => jobs'[p].phase = "error"
          /\ ~run.kept => jobs' = jobs
      BY <1>1, <1>3, <2>2, PhaseOfRun DEF LookUp, Phases
    <3>. QED  BY <1>1, <1>2, <2>1, <2>2, <3>1, <3>2 DEF QueueInv
  <2>3. CASE row[p] # "absent"
    <3>1. run'.project = p /\ run'.kept = run.kept /\ run'.stage = "lock" /\ jobs' = jobs
      BY <1>1, <1>3, <2>3 DEF LookUp, SetStage, Run
    <3>. QED  BY <1>2, <2>1, <3>1 DEF QueueInv
  <2>. QED  BY <2>2, <2>3
<1>4. CASE BeginRun
  <2>1. uploaded' = uploaded /\ run.stage = "lock"
    BY <1>4 DEF BeginRun
  <2>2. CASE row[p] = "absent"
    <3>1. run'.project = p /\ run'.kept = run.kept /\ run'.stage = "leave" /\ row' = row
      BY <1>1, <1>4, <2>2 DEF BeginRun, SetStage, Run
    <3>2. /\ \A q \in Projects \ {p} : jobs'[q] = jobs[q]
          /\ run.kept => jobs'[p].phase = "error"
          /\ ~run.kept => jobs' = jobs
      BY <1>1, <1>4, <2>2, PhaseOfRun DEF BeginRun, Phases
    <3>. QED  BY <1>1, <1>2, <2>1, <2>2, <3>1, <3>2 DEF QueueInv
  <2>3. CASE row[p] # "absent"
    <3>1. run'.project = p /\ run'.kept = run.kept /\ run'.stage = "sync" /\ jobs' = jobs
          /\ row' = [row EXCEPT ![p] = "indexing"]
      BY <1>1, <1>4, <2>3 DEF BeginRun, SetStage, Run
    <3>2. \A q \in Projects : row'[q] # "absent" => row[q] # "absent"
      BY <1>1, <2>3, <3>1
    <3>. QED  BY <1>2, <2>1, <3>1, <3>2 DEF QueueInv
  <2>. QED  BY <2>2, <2>3
<1>5. CASE SyncSources
  <2>1. /\ row' = row /\ uploaded' = [uploaded EXCEPT ![p] = FALSE] /\ run.stage = "sync"
        /\ run'.project = p /\ run'.kept = run.kept /\ run'.stage = "index"
    BY <1>1, <1>5 DEF SyncSources, SetStage, Run
  <2>2. /\ \A q \in Projects \ {p} : jobs'[q] = jobs[q]
        /\ run.kept => jobs'[p].phase = "embedding"
        /\ ~run.kept => jobs' = jobs
    BY <1>1, <1>5, PhaseOfRun DEF SyncSources, Phases, ActivePhases
  <2>. QED  BY <1>1, <1>2, <2>1, <2>2 DEF QueueInv
<1>6. ASSUME NEW status \in {"idle", "error", "stuck"}, FinishRun(status) PROVE QueueInv'
  <2>1. /\ run.stage \in {"sync", "index"} /\ jobs' = jobs
        /\ uploaded' = [uploaded EXCEPT ![p] = @ /\ run.stage = "index"]
        /\ row' = [row EXCEPT ![p] = status]
        /\ run'.project = p /\ run'.kept = run.kept /\ run'.stage = "record"
    BY <1>1, <1>6 DEF FinishRun, SetStage, Run
  <2>. QED  BY <1>1, <1>2, <2>1 DEF QueueInv
<1>7. CASE RecordRun
  <2>1. /\ row' = row /\ uploaded' = uploaded /\ run.stage = "record"
        /\ run'.project = p /\ run'.kept = run.kept /\ run'.stage = "leave"
    BY <1>1, <1>7 DEF RecordRun, SetStage, Run
  <2>2. /\ \A q \in Projects \ {p} : jobs'[q] = jobs[q]
        /\ run.kept => jobs'[p].phase \in {"done", "error"}
        /\ ~run.kept => jobs' = jobs
    BY <1>1, <1>7, PhaseOfRun DEF RecordRun, Phases
  <2>. QED  BY <1>1, <1>2, <2>1, <2>2 DEF QueueInv
<1>8. CASE LeaveMutex
  <2>1. /\ row' = row /\ uploaded' = uploaded /\ run.stage = "leave" /\ jobs' = jobs
        /\ run'.project = p /\ run'.kept = run.kept /\ run'.stage = "ended"
    BY <1>1, <1>8 DEF LeaveMutex, SetStage, Run
  <2>. QED  BY <1>2, <2>1 DEF QueueInv
<1>. QED  BY <1>3, <1>4, <1>5, <1>6, <1>7, <1>8 DEF IndexProject

LEMMA ClientQueue ==
  ASSUME TypeInv, OwnerInv, QueueInv, NEW p \in Projects, Client(p) \/ DeleteProject(p) \/ CommitUpload(p)
  PROVE  QueueInv'
<1>1. /\ row \in [Projects -> Statuses] /\ committing \in [Projects -> {"no", "lock", "write", "enqueue"}]
      /\ jobs \in [Projects -> Job] /\ run \in Run /\ uploaded \in [Projects -> BOOLEAN]
      /\ "manual" \in Triggers
  BY TriggersAssumption DEF TypeInv, TypeOK
<1>2. ASSUME NEW trigger \in Triggers, NEW force \in BOOLEAN, Request(p, trigger, force) PROVE QueueInv'
  BY <1>2, EnqueueQueue DEF Request
<1>3. ASSUME NEW trigger \in Triggers, EditAndRequest(p, trigger) PROVE QueueInv'
  BY <1>3, EnqueueQueue DEF EditAndRequest
<1>4. CASE AskDelete(p) \/ DecideDelete(p) \/ DropIndexFails(p)
  BY <1>4, QueueFrame DEF AskDelete, DecideDelete, DropIndexFails
<1>5. CASE DeleteRow(p)
  <2>1. \A q \in Projects : row'[q] # "absent" => row[q] # "absent"
    BY <1>1, <1>5 DEF DeleteRow
  <2>. QED  BY <1>5, <2>1, QueueFrame DEF DeleteRow
<1>6. CASE Forget(p)
  <2>1. /\ run'.stage = run.stage /\ run'.project = run.project
        /\ run'.kept = (run.kept /\ run.project # p)
        /\ \A q \in Projects \ {p} : jobs'[q] = jobs[q]
        /\ jobs'[p].phase = "none"
        /\ UNCHANGED <<running, interactive, scheduled, row, committing, uploaded>>
    BY <1>1, <1>6 DEF Forget, NoJob, Run
  <2>2. row[p] = "absent"
    BY <1>6 DEF Forget, OwnerInv
  <2>. QED  BY <2>1, <2>2 DEF QueueInv
<1>7. CASE AskCommit(p) \/ BeginCommit(p)
  <2>1. \A q \in Projects : committing[q] = "enqueue" => committing'[q] = "enqueue"
    BY <1>1, <1>7 DEF AskCommit, BeginCommit
  <2>. QED  BY <1>7, <2>1, QueueFrame DEF AskCommit, BeginCommit
<1>8. ASSUME NEW written \in BOOLEAN, WriteCommit(p, written) PROVE QueueInv'
  <2>1. /\ committing' = [committing EXCEPT ![p] = IF written THEN "enqueue" ELSE "no"]
        /\ uploaded' = [uploaded EXCEPT ![p] = @ \/ written]
        /\ committing[p] = "write"
        /\ UNCHANGED <<running, interactive, scheduled, jobs, run, row>>
    BY <1>8 DEF WriteCommit
  <2>2. run.stage \in {"index", "record"} => run.project # p /\ run.project \in Projects
    BY <2>1 DEF TypeInv, MutexInv, Holds, UnderMutex
  <2>. QED  BY <1>1, <2>1, <2>2 DEF QueueInv
<1>9. CASE EnqueueCommit(p)
  <2>1. \A q \in Projects \ {p} : committing'[q] = committing[q]
    BY <1>1, <1>9 DEF EnqueueCommit
  <2>. QED  BY <1>1, <1>9, <2>1, EnqueueQueue DEF EnqueueCommit
<1>. QED  BY <1>2, <1>3, <1>4, <1>5, <1>6, <1>7, <1>8, <1>9 DEF Client, DeleteProject, CommitUpload

LEMMA QueueInit == Init => QueueInv
<1>. SUFFICES ASSUME Init PROVE QueueInv
  OBVIOUS
<1>1. /\ \A p \in Projects : jobs[p].phase = "none" /\ uploaded[p] = FALSE
      /\ run.stage = "none" /\ interactive = <<>> /\ scheduled = <<>>
  BY DEF Init, NoJob, NoRun
<1>. QED  BY <1>1 DEF QueueInv

LEMMA RestartQueue ==
  ASSUME TypeInv, QueueInv, Crash \/ Startup
  PROVE  QueueInv'
<1>1. CASE Crash
  <2>1. /\ \A p \in Projects : jobs'[p].phase = "none" /\ uploaded'[p] = FALSE
        /\ run'.stage = "none" /\ interactive' = <<>> /\ scheduled' = <<>>
    BY <1>1 DEF Crash, NoJob, NoRun
  <2>. QED  BY <2>1 DEF QueueInv
<1>2. CASE Recover
  <2>1. \A p \in Projects : row'[p] # "absent" => row[p] # "absent"
    BY <1>2 DEF Recover, SaysIndexing
  <2>. QED  BY <1>2, <2>1, QueueFrame DEF Recover, memory
<1>3. CASE Listen
  BY <1>3, QueueFrame DEF Listen, memory
<1>4. ASSUME NEW p \in Projects, Requeue(p) PROVE QueueInv'
  BY <1>4, EnqueueQueue, TriggersAssumption DEF Requeue
<1>. QED  BY <1>1, <1>2, <1>3, <1>4 DEF Startup

IInv == TypeInv /\ OwnerInv /\ QueueInv

LEMMA IInvStep == IInv /\ [Next]_vars => IInv'
<1>. SUFFICES ASSUME IInv, [Next]_vars PROVE IInv'
  OBVIOUS
<1>. USE DEF IInv
<1>1. TypeInv' /\ OwnerInv'
  BY TypeInvStep, OwnerStep
<1>2. CASE UNCHANGED vars
  BY <1>1, <1>2, QueueFrame DEF vars, memory
<1>3. CASE Loop
  BY <1>1, <1>3, LoopQueue
<1>4. CASE IndexProject
  BY <1>1, <1>4, StageQueue
<1>5. CASE \E p \in Projects : Client(p) \/ DeleteProject(p) \/ CommitUpload(p)
  BY <1>1, <1>5, ClientQueue
<1>6. CASE Crash \/ Startup
  BY <1>1, <1>6, RestartQueue
<1>. QED  BY <1>2, <1>3, <1>4, <1>5, <1>6 DEF Next

\* A loop that stopped left nothing behind: no entry in a lane, no active job.
THEOREM WakeupsAreKept == Spec => []NoLostWakeup
<1>1. Init => IInv
  BY TypeInvInit, OwnerInit, QueueInit DEF IInv
<1>2. IInv /\ [Next]_vars => IInv'
  BY IInvStep
<1>3. IInv => NoLostWakeup
  <2>. SUFFICES ASSUME IInv, ~running
                PROVE  /\ interactive = <<>> /\ scheduled = <<>>
                       /\ run.stage = "none"
                       /\ \A p \in Projects : ~IsBusy(p)
    BY DEF NoLostWakeup
  <2>1. run.stage = "none" /\ interactive = <<>> /\ scheduled = <<>>
    BY DEF IInv, TypeInv, LoopInv, QueueInv
  <2>2. \A p : ~InLane(p, interactive) /\ ~InLane(p, scheduled)
    BY <2>1, EmptySeq DEF InLane
  <2>3. \A p \in Projects : ~IsBusy(p)
    BY <2>1, <2>2 DEF IInv, QueueInv, IsBusy, ActivePhases
  <2>. QED  BY <2>1, <2>3
<1>. QED  BY <1>1, <1>2, <1>3, PTL DEF Spec

\* A committed upload waits for a run that has not read the sources yet, or
\* for the enqueue the commit is about to make.
THEOREM UploadsAreIndexed == Spec => []CommittedUploadIsIndexed
<1>1. Init => IInv
  BY TypeInvInit, OwnerInit, QueueInit DEF IInv
<1>2. IInv /\ [Next]_vars => IInv'
  BY IInvStep
<1>3. IInv => CommittedUploadIsIndexed
  BY DEF IInv, QueueInv, CommittedUploadIsIndexed
<1>. QED  BY <1>1, <1>2, <1>3, PTL DEF Spec
-----------------------------------------------------------------------------
(* The lanes and the map of jobs tell one story.  A queued job is in the   *)
(* lane of its trigger, a project that still exists stands there once, and *)
(* the project of a run that still publishes phases has no queued job, so  *)
(* that the run never takes a job out of a lane by overwriting its phase.  *)

IsQueued(p) == jobs[p].phase = "queued"
ForPeople(p) == IsQueued(p) /\ jobs[p].trigger # "scheduled"
ForTimer(p) == IsQueued(p) /\ jobs[p].trigger = "scheduled"

\* The entry of a project that exists.
Entry(p) ==
  /\ ForPeople(p) => StandsOnce(p, interactive) /\ ~InLane(p, scheduled)
  /\ ForTimer(p) => StandsOnce(p, scheduled) /\ ~InLane(p, interactive)
  /\ ~IsQueued(p) => ~InLane(p, interactive) /\ ~InLane(p, scheduled)

LanesInv ==
  \A p \in Projects :
    /\ ForPeople(p) => InLane(p, interactive)
    /\ ForTimer(p) => InLane(p, scheduled)
    /\ row[p] # "absent" => Entry(p)

\* Who asked is remembered as long as the job waits, and no longer.
WantedInv == \A p \in Projects : wanted[p] <=> ForPeople(p)

Publishes == {"lookup", "lock", "sync", "index", "record"}

RunJobInv ==
  /\ run.kept /\ run.stage \in Publishes => jobs[run.project].phase \in {"syncing", "embedding"}
  /\ \A p \in Projects : row[p] # "absent" /\ run.project = p => run.kept

KeptInv == LanesInv /\ WantedInv /\ RunJobInv /\ ForceKept

\* What the three ways to change a lane do to the entries of it.
LEMMA AppendStands ==
  ASSUME NEW s \in Seq(Projects), NEW p \in Projects, NEW q
  PROVE  /\ ~InLane(p, s) => StandsOnce(p, Append(s, p))
         /\ q # p /\ StandsOnce(q, s) => StandsOnce(q, Append(s, p))
         /\ q # p /\ ~InLane(q, s) => ~InLane(q, Append(s, p))
<1>. DEFINE t == Append(s, p)
<1>1. /\ Len(t) = Len(s) + 1 /\ Len(s) \in Nat /\ t[Len(s) + 1] = p
      /\ \A i \in 1..Len(s) : t[i] = s[i]
      /\ \A i \in 1..Len(t) : i = Len(s) + 1 \/ i \in 1..Len(s)
  BY AppendProperties
<1>. HIDE DEF t
<1>2. ~InLane(p, s) => StandsOnce(p, t)
  <2>1. Len(s) + 1 \in 1..Len(t)
    BY <1>1
  <2>2. ASSUME ~InLane(p, s) PROVE \A j \in 1..Len(t) : t[j] = p <=> j = Len(s) + 1
    BY <1>1, <2>2 DEF InLane
  <2>. QED  BY <2>1, <2>2 DEF StandsOnce
<1>3. q # p /\ StandsOnce(q, s) => StandsOnce(q, t)
  <2>. SUFFICES ASSUME q # p, StandsOnce(q, s) PROVE StandsOnce(q, t)
    OBVIOUS
  <2>1. PICK i \in 1..Len(s) : \A j \in 1..Len(s) : s[j] = q <=> j = i
    BY DEF StandsOnce
  <2>2. i \in 1..Len(t) /\ \A j \in 1..Len(t) : t[j] = q <=> j = i
    BY <1>1, <2>1
  <2>. QED  BY <2>2 DEF StandsOnce
<1>4. q # p /\ ~InLane(q, s) => ~InLane(q, t)
  BY <1>1 DEF InLane
<1>. QED  BY <1>2, <1>3, <1>4 DEF t

LEMMA TailStands ==
  ASSUME NEW s \in Seq(Projects), s # <<>>, NEW q
  PROVE  /\ q # Head(s) /\ StandsOnce(q, s) => StandsOnce(q, Tail(s))
         /\ q = Head(s) /\ StandsOnce(q, s) => ~InLane(q, Tail(s))
         /\ ~InLane(q, s) => ~InLane(q, Tail(s)) /\ q # Head(s)
<1>. DEFINE t == Tail(s)
<1>1. /\ Len(t) = Len(s) - 1 /\ Len(s) \in Nat /\ Len(s) # 0 /\ Head(s) = s[1]
      /\ \A i \in 1..Len(t) : t[i] = s[i + 1] /\ i + 1 \in 1..Len(s)
  BY HeadTailProperties
<1>. HIDE DEF t
<1>2. ASSUME q # Head(s), StandsOnce(q, s) PROVE StandsOnce(q, t)
  <2>1. PICK i \in 1..Len(s) : \A j \in 1..Len(s) : s[j] = q <=> j = i
    BY <1>2 DEF StandsOnce
  <2>2. i # 1
    BY <1>1, <1>2, <2>1
  <2>3. i - 1 \in 1..Len(t) /\ \A j \in 1..Len(t) : t[j] = q <=> j = i - 1
    BY <1>1, <2>1, <2>2
  <2>. QED  BY <2>3 DEF StandsOnce
<1>3. ASSUME q = Head(s), StandsOnce(q, s) PROVE ~InLane(q, t)
  <2>1. PICK i \in 1..Len(s) : \A j \in 1..Len(s) : s[j] = q <=> j = i
    BY <1>3 DEF StandsOnce
  <2>2. \A j \in 1..Len(t) : t[j] # q
    BY <1>1, <1>3, <2>1
  <2>. QED  BY <2>2 DEF InLane
<1>4. ~InLane(q, s) => ~InLane(q, t) /\ q # Head(s)
  BY <1>1 DEF InLane
<1>. QED  BY <1>2, <1>3, <1>4 DEF t

LEMMA WithoutStands ==
  ASSUME NEW s \in Seq(Projects), NEW at \in 1..Len(s), NEW q
  PROVE  /\ q # s[at] /\ StandsOnce(q, s) => StandsOnce(q, Without(s, at))
         /\ q = s[at] /\ StandsOnce(q, s) => ~InLane(q, Without(s, at))
         /\ ~InLane(q, s) => ~InLane(q, Without(s, at))
<1>. DEFINE t == Without(s, at)
<1>1. Len(s) \in Nat /\ Len(s) # 0
  OBVIOUS
<1>2. t = [k \in 1..(Len(s) - 1) |-> IF k < at THEN s[k] ELSE s[k + 1]]
  BY DEF Without
<1>3. t \in Seq(Projects) /\ Len(t) = Len(s) - 1
  BY <1>1, <1>2, WithoutType
<1>4. \A k \in 1..Len(t) : t[k] = (IF k < at THEN s[k] ELSE s[k + 1]) /\ k \in 1..Len(s) /\ k + 1 \in 1..Len(s)
  BY <1>1, <1>2, <1>3
<1>. HIDE DEF t
<1>5. ASSUME q # s[at], StandsOnce(q, s) PROVE StandsOnce(q, t)
  <2>1. PICK i \in 1..Len(s) : \A j \in 1..Len(s) : s[j] = q <=> j = i
    BY <1>5 DEF StandsOnce
  <2>2. i # at
    BY <1>5, <2>1
  <2>3. CASE i < at
    <3>1. i \in 1..Len(t)
      BY <1>1, <1>3, <2>1, <2>3
    <3>2. \A j \in 1..Len(t) : t[j] = q <=> j = i
      BY <1>4, <2>1, <2>3
    <3>. QED  BY <3>1, <3>2 DEF StandsOnce
  <2>4. CASE i > at
    <3>1. i - 1 \in 1..Len(t)
      BY <1>1, <1>3, <2>1, <2>4
    <3>2. \A j \in 1..Len(t) : t[j] = q <=> j = i - 1
      BY <1>4, <2>1, <2>4
    <3>. QED  BY <3>1, <3>2 DEF StandsOnce
  <2>. QED  BY <2>2, <2>3, <2>4
<1>6. ASSUME q = s[at], StandsOnce(q, s) PROVE ~InLane(q, t)
  <2>1. PICK i \in 1..Len(s) : \A j \in 1..Len(s) : s[j] = q <=> j = i
    BY <1>6 DEF StandsOnce
  <2>2. i = at
    BY <1>6, <2>1
  <2>3. \A j \in 1..Len(t) : t[j] # q
    BY <1>4, <2>1, <2>2
  <2>. QED  BY <2>3 DEF InLane
<1>7. ~InLane(q, s) => ~InLane(q, t)
  BY <1>4 DEF InLane
<1>. QED  BY <1>5, <1>6, <1>7 DEF t

\* Steps that leave the lanes alone, and every queued job as it was.
LEMMA LanesFrame ==
  ASSUME LanesInv, UNCHANGED <<interactive, scheduled>>,
         \A q \in Projects :
           /\ jobs'[q].phase = "queued" <=> IsQueued(q)
           /\ IsQueued(q) => jobs'[q].trigger = jobs[q].trigger
           /\ row'[q] # "absent" => row[q] # "absent"
  PROVE  LanesInv'
<1>1. \A q \in Projects : (ForPeople(q)' <=> ForPeople(q)) /\ (ForTimer(q)' <=> ForTimer(q))
  BY DEF ForPeople, ForTimer, IsQueued
<1>2. \A q \in Projects : Entry(q) => Entry(q)'
  BY <1>1 DEF Entry, IsQueued, StandsOnce, InLane
<1>3. \A q \in Projects : /\ InLane(q, interactive)' <=> InLane(q, interactive)
                          /\ InLane(q, scheduled)' <=> InLane(q, scheduled)
  BY DEF InLane
<1>. QED  BY <1>1, <1>2, <1>3 DEF LanesInv

\* Steps that touch neither queue, jobs, run nor what is remembered of them.
LEMMA KeptFrame ==
  ASSUME KeptInv, UNCHANGED <<interactive, scheduled, jobs, run, forceOwed, wanted>>,
         \A q \in Projects : row'[q] # "absent" => row[q] # "absent"
  PROVE  KeptInv'
<1>1. LanesInv'
  BY LanesFrame DEF KeptInv, IsQueued
<1>2. WantedInv' /\ RunJobInv' /\ ForceKept'
  BY DEF KeptInv, WantedInv, RunJobInv, ForceKept, ForPeople, IsQueued
<1>. QED  BY <1>1, <1>2 DEF KeptInv

LEMMA EnqueueLanes ==
  ASSUME IInv, KeptInv, NEW p \in Projects, NEW trigger \in Triggers, NEW force \in BOOLEAN,
         Enqueue(p, trigger, force), UNCHANGED row
  PROVE  LanesInv'
<1>1. interactive \in Seq(Projects) /\ scheduled \in Seq(Projects) /\ jobs \in [Projects -> Job]
  BY DEF IInv, TypeInv, TypeOK
<1>2. LanesInv
  BY DEF KeptInv
<1>3. \A q \in Projects \ {p} : jobs'[q] = jobs[q]
  BY EnqueuePhases DEF IInv
<1>. DEFINE promoted == jobs[p].phase = "queued" /\ jobs[p].trigger = "scheduled" /\ trigger # "scheduled"
<1>4. CASE IsBusy(p) /\ ~promoted
  <2>1. /\ UNCHANGED <<interactive, scheduled>>
        /\ jobs'[p].phase = jobs[p].phase /\ jobs'[p].trigger = jobs[p].trigger
    BY <1>1, <1>4 DEF Enqueue, Collapse
  <2>2. \A q \in Projects : jobs'[q].phase = jobs[q].phase /\ jobs'[q].trigger = jobs[q].trigger
    BY <1>3, <2>1
  <2>. QED  BY <1>2, <2>1, <2>2, LanesFrame DEF IsQueued
<1>5. CASE IsBusy(p) /\ promoted
  <2>1. InLane(p, scheduled)
    BY <1>2, <1>5 DEF LanesInv, ForTimer, IsQueued
  <2>2. /\ interactive' = Append(interactive, p)
        /\ scheduled' = Without(scheduled, FirstAt(p, scheduled))
        /\ jobs'[p].phase = "queued" /\ jobs'[p].trigger = trigger
    BY <1>1, <1>5, <2>1 DEF Enqueue, Collapse
  <2>3. FirstAt(p, scheduled) \in 1..Len(scheduled) /\ scheduled[FirstAt(p, scheduled)] = p
    BY <1>1, <2>1, FirstAtThere
  <2>4. InLane(p, interactive')
    BY <1>1, <2>2, AppendLane
  <2>5. row[p] # "absent" => Entry(p)'
    <3>1. row[p] # "absent" => StandsOnce(p, scheduled) /\ ~InLane(p, interactive)
      BY <1>2, <1>5 DEF LanesInv, Entry, ForTimer, IsQueued
    <3>2. row[p] # "absent" => StandsOnce(p, interactive') /\ ~InLane(p, scheduled')
      BY <1>1, <2>2, <2>3, <3>1, AppendStands, WithoutStands
    <3>. QED  BY <1>5, <2>2, <3>2 DEF Entry, ForPeople, ForTimer, IsQueued
  <2>6. ASSUME NEW q \in Projects \ {p}
        PROVE  /\ ForPeople(q)' => InLane(q, interactive')
               /\ ForTimer(q)' => InLane(q, scheduled')
               /\ row'[q] # "absent" => Entry(q)'
    <3>1. (ForPeople(q)' <=> ForPeople(q)) /\ (ForTimer(q)' <=> ForTimer(q)) /\ (IsQueued(q)' <=> IsQueued(q))
      BY <1>3 DEF ForPeople, ForTimer, IsQueued
    <3>2. /\ InLane(q, interactive) => InLane(q, interactive')
          /\ InLane(q, scheduled) => InLane(q, scheduled')
      BY <1>1, <2>2, <2>3, AppendLane, WithoutLane
    <3>3. /\ StandsOnce(q, interactive) => StandsOnce(q, interactive')
          /\ StandsOnce(q, scheduled) => StandsOnce(q, scheduled')
          /\ ~InLane(q, interactive) => ~InLane(q, interactive')
          /\ ~InLane(q, scheduled) => ~InLane(q, scheduled')
      BY <1>1, <2>2, <2>3, AppendStands, WithoutStands
    <3>4. Entry(q) => Entry(q)'
      BY <3>1, <3>3 DEF Entry
    <3>. QED  BY <1>2, <3>1, <3>2, <3>4 DEF LanesInv
  <2>7. ForPeople(p)' /\ ~ForTimer(p)'
    BY <1>5, <2>2 DEF ForPeople, ForTimer, IsQueued
  <2>. QED  BY <2>4, <2>5, <2>6, <2>7 DEF LanesInv
<1>6. CASE ~IsBusy(p) /\ running
  <2>1. /\ jobs'[p].phase = "queued" /\ jobs'[p].trigger = trigger
        /\ trigger = "scheduled" => scheduled' = Append(scheduled, p) /\ interactive' = interactive
        /\ trigger # "scheduled" => interactive' = Append(interactive, p) /\ scheduled' = scheduled
    BY <1>1, <1>6 DEF Enqueue, NewJob
  <2>2. ~IsQueued(p)
    BY <1>6 DEF IsBusy, ActivePhases, IsQueued
  <2>3. row[p] # "absent" => ~InLane(p, interactive) /\ ~InLane(p, scheduled)
    BY <1>2, <2>2 DEF LanesInv, Entry
  <2>4. /\ trigger = "scheduled" => InLane(p, scheduled')
        /\ trigger # "scheduled" => InLane(p, interactive')
    BY <1>1, <2>1, AppendLane
  <2>5. row[p] # "absent" => Entry(p)'
    <3>1. row[p] # "absent" =>
            /\ trigger = "scheduled" => StandsOnce(p, scheduled') /\ ~InLane(p, interactive')
            /\ trigger # "scheduled" => StandsOnce(p, interactive') /\ ~InLane(p, scheduled')
      BY <1>1, <2>1, <2>3, AppendStands
    <3>. QED  BY <2>1, <3>1 DEF Entry, ForPeople, ForTimer, IsQueued
  <2>6. ASSUME NEW q \in Projects \ {p}
        PROVE  /\ ForPeople(q)' => InLane(q, interactive')
               /\ ForTimer(q)' => InLane(q, scheduled')
               /\ row'[q] # "absent" => Entry(q)'
    <3>1. (ForPeople(q)' <=> ForPeople(q)) /\ (ForTimer(q)' <=> ForTimer(q)) /\ (IsQueued(q)' <=> IsQueued(q))
      BY <1>3 DEF ForPeople, ForTimer, IsQueued
    <3>2. /\ InLane(q, interactive) => InLane(q, interactive')
          /\ InLane(q, scheduled) => InLane(q, scheduled')
      BY <1>1, <2>1, AppendLane
    <3>3. /\ StandsOnce(q, interactive) => StandsOnce(q, interactive')
          /\ StandsOnce(q, scheduled) => StandsOnce(q, scheduled')
          /\ ~InLane(q, interactive) => ~InLane(q, interactive')
          /\ ~InLane(q, scheduled) => ~InLane(q, scheduled')
      BY <1>1, <2>1, AppendStands
    <3>4. Entry(q) => Entry(q)'
      BY <3>1, <3>3 DEF Entry
    <3>. QED  BY <1>2, <3>1, <3>2, <3>4 DEF LanesInv
  <2>. QED  BY <2>1, <2>4, <2>5, <2>6 DEF LanesInv, ForPeople, ForTimer, IsQueued
<1>7. CASE ~IsBusy(p) /\ ~running
  <2>1. UNCHANGED <<interactive, scheduled>> /\ jobs'[p].phase = "syncing"
    BY <1>1, <1>7 DEF Enqueue, NewJob, StartRun
  <2>2. ~IsQueued(p)
    BY <1>7 DEF IsBusy, ActivePhases, IsQueued
  <2>. QED  BY <1>2, <1>3, <2>1, <2>2, LanesFrame DEF IsQueued
<1>. QED  BY <1>4, <1>5, <1>6, <1>7

LEMMA EnqueueKept ==
  ASSUME IInv, KeptInv, NEW p \in Projects, NEW trigger \in Triggers, NEW force \in BOOLEAN,
         Enqueue(p, trigger, force), UNCHANGED row
  PROVE  KeptInv'
<1>1. /\ jobs \in [Projects -> Job] /\ wanted \in [Projects -> BOOLEAN] /\ forceOwed \in [Projects -> BOOLEAN]
      /\ run \in Run
  BY DEF IInv, TypeInv, TypeOK
<1>2. LanesInv'
  BY EnqueueLanes
<1>3. \A q \in Projects \ {p} : jobs'[q] = jobs[q] /\ wanted'[q] = wanted[q] /\ forceOwed'[q] = forceOwed[q]
  BY <1>1, EnqueuePhases DEF IInv, Enqueue
<1>4. ~running => run.stage = "none" /\ ~IsBusy(p)
  <2>1. ~running => \A q : ~InLane(q, interactive) /\ ~InLane(q, scheduled)
    BY EmptySeq DEF IInv, QueueInv, InLane
  <2>. QED  BY <2>1 DEF IInv, TypeInv, LoopInv, QueueInv, IsBusy, ActivePhases
<1>5. CASE IsBusy(p)
  <2>1. /\ run' = run /\ jobs'[p].phase = jobs[p].phase
        /\ jobs'[p].force = (jobs[p].force \/ (force /\ jobs[p].phase = "queued"))
        /\ jobs'[p].trigger = IF jobs[p].phase = "queued" /\ jobs[p].trigger = "scheduled" /\ trigger # "scheduled"
                              THEN trigger ELSE jobs[p].trigger
    BY <1>1, <1>5 DEF Enqueue, Collapse
  <2>2. /\ wanted'[p] = IF jobs[p].phase = "queued" THEN wanted[p] \/ trigger # "scheduled" ELSE FALSE
        /\ forceOwed'[p] = (forceOwed[p] \/ (force /\ jobs[p].phase = "queued"))
    BY <1>1, <1>4, <1>5 DEF Enqueue
  <2>3. WantedInv'
    <3>1. wanted'[p] <=> ForPeople(p)'
      BY <2>1, <2>2 DEF KeptInv, WantedInv, ForPeople, IsQueued
    <3>2. \A q \in Projects \ {p} : wanted'[q] <=> ForPeople(q)'
      BY <1>3 DEF KeptInv, WantedInv, ForPeople, IsQueued
    <3>. QED  BY <3>1, <3>2 DEF WantedInv
  <2>4. RunJobInv'
    <3>1. \A q \in Projects : jobs'[q].phase = jobs[q].phase
      BY <1>3, <2>1
    <3>2. run.stage # "none" => run.project \in Projects
      BY DEF IInv, TypeInv, MutexInv
    <3>. QED  BY <2>1, <3>1, <3>2 DEF KeptInv, RunJobInv, Publishes
  <2>5. ForceKept'
    <3>1. \A q \in Projects \ {p} : forceOwed'[q] /\ row'[q] # "absent" =>
            \/ jobs'[q].phase = "queued" /\ jobs'[q].force
            \/ run'.project = q /\ run'.stage \in {"lookup", "lock"} /\ run'.force
      BY <1>3, <2>1 DEF KeptInv, ForceKept
    <3>2. forceOwed'[p] /\ row'[p] # "absent" =>
            \/ jobs'[p].phase = "queued" /\ jobs'[p].force
            \/ run'.project = p /\ run'.stage \in {"lookup", "lock"} /\ run'.force
      BY <2>1, <2>2 DEF KeptInv, ForceKept
    <3>. QED  BY <3>1, <3>2 DEF ForceKept
  <2>. QED  BY <1>2, <2>3, <2>4, <2>5 DEF KeptInv
<1>6. CASE ~IsBusy(p) /\ running
  <2>1. run' = run /\ jobs'[p] = [phase |-> "queued", force |-> force, trigger |-> trigger]
    BY <1>1, <1>6 DEF Enqueue, NewJob
  <2>2. wanted'[p] = (wanted[p] \/ trigger # "scheduled") /\ forceOwed'[p] = (forceOwed[p] \/ force)
    BY <1>1, <1>6 DEF Enqueue
  <2>3. jobs[p].phase \notin {"queued", "syncing", "embedding"}
    BY <1>6 DEF IsBusy, ActivePhases
  <2>4. ~wanted[p]
    BY <2>3 DEF KeptInv, WantedInv, ForPeople, IsQueued
  <2>5. run.project = p => run.stage \notin Publishes \/ ~run.kept
    BY <2>3 DEF KeptInv, RunJobInv
  <2>6. WantedInv'
    <3>1. wanted'[p] <=> trigger # "scheduled"
      BY <1>1, <2>2, <2>4
    <3>2. ForPeople(p)' <=> trigger # "scheduled"
      <4>1. jobs'[p].phase = "queued" /\ jobs'[p].trigger = trigger
        BY <2>1
      <4>. QED  BY <4>1 DEF ForPeople, IsQueued
    <3>3. \A q \in Projects \ {p} : wanted'[q] <=> ForPeople(q)'
      BY <1>3 DEF KeptInv, WantedInv, ForPeople, IsQueued
    <3>. QED  BY <3>1, <3>2, <3>3 DEF WantedInv
  <2>7. RunJobInv'
    <3>1. run.stage # "none" => run.project \in Projects
      BY DEF IInv, TypeInv, MutexInv
    <3>. QED  BY <1>3, <2>1, <2>5, <3>1 DEF KeptInv, RunJobInv, Publishes
  <2>8. ForceKept'
    <3>1. forceOwed[p] => row[p] = "absent"
      BY <2>3, <2>5 DEF KeptInv, ForceKept, RunJobInv, Publishes
    <3>2. forceOwed'[p] /\ row'[p] # "absent" => jobs'[p].phase = "queued" /\ jobs'[p].force
      BY <2>1, <2>2, <3>1
    <3>3. \A q \in Projects \ {p} : forceOwed'[q] /\ row'[q] # "absent" =>
            \/ jobs'[q].phase = "queued" /\ jobs'[q].force
            \/ run'.project = q /\ run'.stage \in {"lookup", "lock"} /\ run'.force
      BY <1>3, <2>1 DEF KeptInv, ForceKept
    <3>. QED  BY <3>2, <3>3 DEF ForceKept
  <2>. QED  BY <1>2, <2>6, <2>7, <2>8 DEF KeptInv
<1>7. CASE ~IsBusy(p) /\ ~running
  <2>1. /\ run' = [project |-> p, stage |-> "lookup", force |-> force, kept |-> TRUE]
        /\ jobs'[p].phase = "syncing"
    BY <1>1, <1>7 DEF Enqueue, NewJob, StartRun
  <2>2. wanted'[p] = FALSE /\ forceOwed'[p] = (forceOwed[p] \/ force)
    BY <1>1, <1>7 DEF Enqueue
  <2>3. jobs[p].phase # "queued" /\ run.stage = "none"
    BY <1>4, <1>7 DEF IsBusy, ActivePhases
  <2>4. WantedInv'
    BY <1>3, <2>1, <2>2 DEF KeptInv, WantedInv, ForPeople, IsQueued
  <2>5. RunJobInv'
    BY <2>1 DEF RunJobInv
  <2>6. ForceKept'
    <3>1. forceOwed[p] => row[p] = "absent"
      BY <2>3 DEF KeptInv, ForceKept
    <3>2. \A q \in Projects : forceOwed[q] /\ row[q] # "absent" => jobs[q].phase = "queued" /\ jobs[q].force
      BY <2>3 DEF KeptInv, ForceKept
    <3>3. \A q \in Projects \ {p} : forceOwed'[q] /\ row'[q] # "absent" => jobs'[q].phase = "queued" /\ jobs'[q].force
      BY <1>3, <3>2
    <3>4. forceOwed'[p] /\ row'[p] # "absent" => run'.project = p /\ run'.stage = "lookup" /\ run'.force
      BY <2>1, <2>2, <3>1
    <3>. QED  BY <3>3, <3>4 DEF ForceKept
  <2>. QED  BY <1>2, <2>4, <2>5, <2>6 DEF KeptInv
<1>. QED  BY <1>5, <1>6, <1>7

\* A turn of the loop for p, whose first entry in its lane has just gone.
LEMMA TakeKept ==
  ASSUME IInv, KeptInv, running, AtTurn, UNCHANGED <<row, forceOwed>>,
         NEW p \in Projects, TakeFrom(p), LanesInv',
         row[p] # "absent" => IsQueued(p)
  PROVE  KeptInv'
<1>1. /\ jobs \in [Projects -> Job] /\ wanted \in [Projects -> BOOLEAN]
      /\ forceOwed \in [Projects -> BOOLEAN]
  BY DEF IInv, TypeInv, TypeOK
<1>2. wanted' = [wanted EXCEPT ![p] = FALSE]
  BY DEF TakeFrom
<1>3. \A q \in Projects : forceOwed[q] /\ row[q] # "absent" => jobs[q].phase = "queued" /\ jobs[q].force
  BY DEF KeptInv, ForceKept, AtTurn
<1>4. CASE jobs[p].phase = "none"
  <2>1. run' = NoRun /\ jobs' = jobs
    BY <1>4 DEF TakeFrom
  <2>2. WantedInv'
    BY <1>1, <1>2, <1>4, <2>1 DEF KeptInv, WantedInv, ForPeople, IsQueued
  <2>3. RunJobInv'
    BY <2>1, NoneAssumption DEF RunJobInv, NoRun
  <2>4. ForceKept'
    BY <1>3, <2>1 DEF ForceKept
  <2>. QED  BY <2>2, <2>3, <2>4 DEF KeptInv
<1>5. CASE jobs[p].phase # "none"
  <2>1. /\ run' = [project |-> p, stage |-> "lookup", force |-> jobs[p].force, kept |-> TRUE]
        /\ jobs'[p].phase = "syncing"
        /\ \A q \in Projects \ {p} : jobs'[q] = jobs[q]
    BY <1>1, <1>5 DEF TakeFrom, StartRun
  <2>2. WantedInv'
    BY <1>1, <1>2, <2>1 DEF KeptInv, WantedInv, ForPeople, IsQueued
  <2>3. RunJobInv'
    BY <2>1 DEF RunJobInv
  <2>4. ForceKept'
    BY <1>3, <2>1 DEF ForceKept
  <2>. QED  BY <2>2, <2>3, <2>4 DEF KeptInv
<1>. QED  BY <1>4, <1>5

\* Taking the head of a lane: the project's only entry, when it still exists.
LEMMA TakenLane ==
  ASSUME IInv, KeptInv, running, AtTurn, UNCHANGED <<row, forceOwed>>,
         NEW lane, NEW lane1, NEW other, NEW other1,
         \/ lane = interactive /\ lane1 = interactive' /\ other = scheduled /\ other1 = scheduled'
         \/ lane = scheduled /\ lane1 = scheduled' /\ other = interactive /\ other1 = interactive',
         lane # <<>>, lane1 = Tail(lane), other1 = other, TakeFrom(Head(lane))
  PROVE  KeptInv'
<1>. DEFINE p == Head(lane)
<1>1. lane \in Seq(Projects) /\ other \in Seq(Projects) /\ jobs \in [Projects -> Job]
  BY DEF IInv, TypeInv, TypeOK
<1>2. p \in Projects /\ InLane(p, lane)
  <2>1. p \in Projects /\ 1 \in 1..Len(lane) /\ lane[1] = p
    BY <1>1, HeadTailProperties
  <2>. QED  BY <2>1 DEF InLane
<1>3. \A q \in Projects \ {p} : InLane(q, lane) => InLane(q, lane1)
  BY <1>1, TailLane
<1>4. row[p] # "absent" => IsQueued(p) /\ StandsOnce(p, lane) /\ ~InLane(p, other)
  BY <1>2 DEF KeptInv, LanesInv, Entry, ForPeople, ForTimer, IsQueued
<1>5. \A q \in Projects \ {p} : jobs'[q] = jobs[q]
  BY <1>1, <1>2 DEF TakeFrom, StartRun
<1>6. jobs'[p].phase # "queued"
  BY <1>1, <1>2 DEF TakeFrom, StartRun
<1>7. LanesInv'
  <2>1. row[p] # "absent" => ~InLane(p, lane1) /\ ~InLane(p, other1)
    BY <1>1, <1>4, TailStands
  <2>2. ASSUME NEW q \in Projects \ {p}
        PROVE  /\ ForPeople(q)' => InLane(q, interactive')
               /\ ForTimer(q)' => InLane(q, scheduled')
               /\ row'[q] # "absent" => Entry(q)'
    <3>1. (ForPeople(q)' <=> ForPeople(q)) /\ (ForTimer(q)' <=> ForTimer(q)) /\ (IsQueued(q)' <=> IsQueued(q))
      BY <1>5 DEF ForPeople, ForTimer, IsQueued
    <3>2. /\ InLane(q, interactive) => InLane(q, interactive')
          /\ InLane(q, scheduled) => InLane(q, scheduled')
      BY <1>3
    <3>3. /\ StandsOnce(q, lane) => StandsOnce(q, lane1)
          /\ ~InLane(q, lane) => ~InLane(q, lane1)
      BY <1>1, TailStands
    <3>4. Entry(q) => Entry(q)'
      BY <3>1, <3>3 DEF Entry
    <3>. QED  BY <3>1, <3>2, <3>4 DEF KeptInv, LanesInv
  <2>3. ~IsQueued(p)' /\ ~ForPeople(p)' /\ ~ForTimer(p)'
    BY <1>6 DEF IsQueued, ForPeople, ForTimer
  <2>4. row'[p] # "absent" => Entry(p)'
    BY <2>1, <2>3 DEF Entry
  <2>. QED  BY <2>2, <2>3, <2>4 DEF LanesInv
<1>. QED  BY <1>2, <1>4, <1>7, TakeKept

LEMMA LoopKept ==
  ASSUME IInv, KeptInv, Loop
  PROVE  KeptInv'
<1>1. CASE TakeInteractive
  BY <1>1, TakenLane DEF TakeInteractive
<1>2. CASE TakeScheduled
  BY <1>2, TakenLane DEF TakeScheduled
<1>3. CASE StopLoop
  <2>1. /\ UNCHANGED <<jobs, interactive, scheduled, row, forceOwed, wanted>> /\ run' = NoRun /\ AtTurn
    BY <1>3 DEF StopLoop
  <2>2. LanesInv'
    BY <2>1, LanesFrame DEF KeptInv, IsQueued
  <2>3. WantedInv'
    BY <2>1 DEF KeptInv, WantedInv, ForPeople, IsQueued
  <2>4. RunJobInv'
    BY <2>1, NoneAssumption DEF RunJobInv, NoRun
  <2>5. ForceKept'
    BY <2>1 DEF KeptInv, ForceKept, AtTurn
  <2>. QED  BY <2>2, <2>3, <2>4, <2>5 DEF KeptInv
<1>. QED  BY <1>1, <1>2, <1>3 DEF Loop

\* A run publishes a phase: the job it writes to is not queued.
LEMMA PublishKept ==
  ASSUME IInv, KeptInv, run.project \in Projects, run.stage \in Publishes,
         UNCHANGED <<interactive, scheduled, wanted, row>>,
         NEW phase \in Phases, phase # "queued", SetPhase(phase) \/ UNCHANGED jobs
  PROVE  /\ LanesInv' /\ WantedInv'
         /\ \A q \in Projects : IsQueued(q) => jobs'[q] = jobs[q]
         /\ run.kept /\ SetPhase(phase) => jobs'[run.project].phase = phase
<1>1. \A q \in Projects : (jobs'[q].phase = "queued" <=> IsQueued(q)) /\ (IsQueued(q) => jobs'[q] = jobs[q])
  BY PhaseOfRun DEF KeptInv, RunJobInv, IsQueued, IInv
<1>2. LanesInv'
  BY <1>1, LanesFrame DEF KeptInv
<1>3. WantedInv'
  BY <1>1 DEF KeptInv, WantedInv, ForPeople, IsQueued
<1>4. run.kept /\ SetPhase(phase) => jobs'[run.project].phase = phase
  BY PhaseOfRun DEF IInv
<1>. QED  BY <1>1, <1>2, <1>3, <1>4

LEMMA StageKept ==
  ASSUME IInv, KeptInv, IndexProject
  PROVE  KeptInv'
<1>. DEFINE p == run.project
<1>1. p \in Projects /\ run \in Run /\ jobs \in [Projects -> Job]
      /\ forceOwed \in [Projects -> BOOLEAN] /\ row \in [Projects -> Statuses]
  BY DEF IndexProject, LookUp, BeginRun, SyncSources, FinishRun, RecordRun, LeaveMutex,
         IInv, TypeInv, MutexInv, TypeOK
<1>2. UNCHANGED <<interactive, scheduled, wanted>>
  BY DEF IndexProject, LookUp, BeginRun, SyncSources, FinishRun, RecordRun, LeaveMutex
<1>3. \A q \in Projects : row[q] # "absent" /\ p = q => run.kept
  BY DEF KeptInv, RunJobInv
<1>4. CASE LookUp
  <2>1. row' = row /\ forceOwed' = forceOwed /\ run.stage = "lookup" /\ run.stage \in Publishes
    BY <1>4 DEF LookUp, Publishes
  <2>2. CASE row[p] = "absent"
    <3>1. /\ run'.project = p /\ run'.kept = run.kept /\ run'.stage = "ended"
          /\ SetPhase("error") /\ "error" \in Phases
      BY <1>1, <1>4, <2>2 DEF LookUp, SetStage, Run, Phases
    <3>2. LanesInv' /\ WantedInv' /\ \A q \in Projects : IsQueued(q) => jobs'[q] = jobs[q]
      BY <1>1, <1>2, <2>1, <3>1, PublishKept
    <3>3. RunJobInv'
      BY <1>3, <2>1, <3>1 DEF RunJobInv, Publishes
    <3>4. ForceKept'
      BY <2>1, <2>2, <3>1, <3>2 DEF KeptInv, ForceKept, IsQueued
    <3>. QED  BY <3>2, <3>3, <3>4 DEF KeptInv
  <2>3. CASE row[p] # "absent"
    <3>1. run'.project = p /\ run'.kept = run.kept /\ run'.stage = "lock" /\ run'.force = run.force /\ jobs' = jobs
      BY <1>1, <1>4, <2>3 DEF LookUp, SetStage, Run
    <3>2. LanesInv' /\ WantedInv'
      BY <1>2, <2>1, <3>1, LanesFrame DEF KeptInv, WantedInv, ForPeople, IsQueued
    <3>3. RunJobInv'
      BY <2>1, <3>1 DEF KeptInv, RunJobInv, Publishes
    <3>4. ForceKept'
      BY <2>1, <3>1 DEF KeptInv, ForceKept
    <3>. QED  BY <3>2, <3>3, <3>4 DEF KeptInv
  <2>. QED  BY <2>2, <2>3
<1>5. CASE BeginRun
  <2>1. run.stage = "lock" /\ run.stage \in Publishes
    BY <1>5 DEF BeginRun, Publishes
  <2>2. CASE row[p] = "absent"
    <3>1. /\ run'.project = p /\ run'.kept = run.kept /\ run'.stage = "leave"
          /\ SetPhase("error") /\ "error" \in Phases /\ row' = row /\ forceOwed' = forceOwed
      BY <1>1, <1>5, <2>2 DEF BeginRun, SetStage, Run, Phases
    <3>2. LanesInv' /\ WantedInv' /\ \A q \in Projects : IsQueued(q) => jobs'[q] = jobs[q]
      BY <1>1, <1>2, <2>1, <3>1, PublishKept
    <3>3. RunJobInv'
      BY <1>3, <3>1 DEF RunJobInv, Publishes
    <3>4. ForceKept'
      BY <2>2, <3>1, <3>2 DEF KeptInv, ForceKept, IsQueued
    <3>. QED  BY <3>2, <3>3, <3>4 DEF KeptInv
  <2>3. CASE row[p] # "absent"
    <3>1. /\ run'.project = p /\ run'.kept = run.kept /\ run'.stage = "sync" /\ jobs' = jobs
          /\ row' = [row EXCEPT ![p] = "indexing"]
          /\ forceOwed' = [forceOwed EXCEPT ![p] = @ /\ ~run.force]
      BY <1>1, <1>5, <2>3 DEF BeginRun, SetStage, Run
    <3>2. \A q \in Projects : row'[q] # "absent" => row[q] # "absent"
      BY <1>1, <2>3, <3>1
    <3>3. LanesInv' /\ WantedInv'
      BY <1>2, <3>1, <3>2, LanesFrame DEF KeptInv, WantedInv, ForPeople, IsQueued
    <3>4. RunJobInv'
      BY <2>1, <3>1, <3>2 DEF KeptInv, RunJobInv, Publishes
    <3>5. ForceKept'
      BY <1>1, <3>1, <3>2 DEF KeptInv, ForceKept
    <3>. QED  BY <3>3, <3>4, <3>5 DEF KeptInv
  <2>. QED  BY <2>2, <2>3
<1>6. CASE SyncSources
  <2>1. /\ row' = row /\ forceOwed' = forceOwed /\ run.stage = "sync" /\ run.stage \in Publishes
        /\ run'.project = p /\ run'.kept = run.kept /\ run'.stage = "index"
        /\ SetPhase("embedding") /\ "embedding" \in Phases
    BY <1>1, <1>6 DEF SyncSources, SetStage, Run, Publishes, Phases, ActivePhases
  <2>2. /\ LanesInv' /\ WantedInv'
        /\ \A q \in Projects : IsQueued(q) => jobs'[q] = jobs[q]
        /\ run.kept => jobs'[p].phase = "embedding"
    BY <1>1, <1>2, <2>1, PublishKept
  <2>3. RunJobInv'
    BY <1>3, <2>1, <2>2 DEF RunJobInv
  <2>4. ForceKept'
    BY <2>1, <2>2 DEF KeptInv, ForceKept, IsQueued
  <2>. QED  BY <2>2, <2>3, <2>4 DEF KeptInv
<1>7. ASSUME NEW status \in {"idle", "error", "stuck"}, FinishRun(status) PROVE KeptInv'
  <2>1. /\ run.stage \in {"sync", "index"} /\ jobs' = jobs /\ forceOwed' = forceOwed
        /\ row' = [row EXCEPT ![p] = status]
        /\ run'.project = p /\ run'.kept = run.kept /\ run'.stage = "record"
    BY <1>1, <1>7 DEF FinishRun, SetStage, Run
  <2>2. \A q \in Projects : row'[q] # "absent" => row[q] # "absent"
    BY <1>1, <2>1 DEF IInv, OwnerInv
  <2>3. LanesInv' /\ WantedInv'
    BY <1>2, <2>1, <2>2, LanesFrame DEF KeptInv, WantedInv, ForPeople, IsQueued
  <2>4. RunJobInv'
    BY <2>1, <2>2 DEF KeptInv, RunJobInv, Publishes
  <2>5. ForceKept'
    BY <2>1, <2>2 DEF KeptInv, ForceKept
  <2>. QED  BY <2>3, <2>4, <2>5 DEF KeptInv
<1>8. CASE RecordRun
  <2>. DEFINE phase == IF row[p] = "idle" THEN "done" ELSE "error"
  <2>1. /\ row' = row /\ forceOwed' = forceOwed /\ run.stage = "record" /\ run.stage \in Publishes
        /\ run'.project = p /\ run'.kept = run.kept /\ run'.stage = "leave"
        /\ SetPhase(phase) /\ phase \in Phases /\ phase # "queued"
    BY <1>1, <1>8 DEF RecordRun, SetStage, Run, Publishes, Phases
  <2>. HIDE DEF phase
  <2>2. LanesInv' /\ WantedInv' /\ \A q \in Projects : IsQueued(q) => jobs'[q] = jobs[q]
    BY <1>1, <1>2, <2>1, PublishKept
  <2>3. RunJobInv'
    BY <1>3, <2>1 DEF RunJobInv, Publishes
  <2>4. ForceKept'
    BY <2>1, <2>2 DEF KeptInv, ForceKept, IsQueued
  <2>. QED  BY <2>2, <2>3, <2>4 DEF KeptInv
<1>9. CASE LeaveMutex
  <2>1. /\ row' = row /\ forceOwed' = forceOwed /\ run.stage = "leave" /\ jobs' = jobs
        /\ run'.project = p /\ run'.kept = run.kept /\ run'.stage = "ended"
    BY <1>1, <1>9 DEF LeaveMutex, SetStage, Run
  <2>2. LanesInv' /\ WantedInv'
    BY <1>2, <2>1, LanesFrame DEF KeptInv, WantedInv, ForPeople, IsQueued
  <2>3. RunJobInv'
    BY <1>3, <2>1 DEF RunJobInv, Publishes
  <2>4. ForceKept'
    BY <2>1 DEF KeptInv, ForceKept
  <2>. QED  BY <2>2, <2>3, <2>4 DEF KeptInv
<1>. QED  BY <1>4, <1>5, <1>6, <1>7, <1>8, <1>9 DEF IndexProject

LEMMA ClientKept ==
  ASSUME IInv, KeptInv, NEW p \in Projects, Client(p) \/ DeleteProject(p) \/ CommitUpload(p)
  PROVE  KeptInv'
<1>1. ASSUME NEW trigger \in Triggers, NEW force \in BOOLEAN, Request(p, trigger, force) PROVE KeptInv'
  BY <1>1, EnqueueKept DEF Request
<1>2. ASSUME NEW trigger \in Triggers, EditAndRequest(p, trigger) PROVE KeptInv'
  BY <1>2, EnqueueKept DEF EditAndRequest
<1>3. CASE AskDelete(p) \/ DecideDelete(p) \/ DropIndexFails(p)
  BY <1>3, KeptFrame DEF AskDelete, DecideDelete, DropIndexFails
<1>4. CASE DeleteRow(p)
  <2>1. \A q \in Projects : row'[q] # "absent" => row[q] # "absent"
    BY <1>4 DEF DeleteRow, IInv, TypeInv, TypeOK
  <2>. QED  BY <1>4, <2>1, KeptFrame DEF DeleteRow
<1>5. CASE Forget(p)
  <2>1. /\ run'.stage = run.stage /\ run'.project = run.project /\ run'.force = run.force
        /\ run'.kept = (run.kept /\ run.project # p)
        /\ \A q \in Projects \ {p} : jobs'[q] = jobs[q] /\ wanted'[q] = wanted[q]
        /\ jobs'[p].phase = "none" /\ wanted'[p] = FALSE
        /\ UNCHANGED <<interactive, scheduled, row, forceOwed>>
    BY <1>5 DEF Forget, NoJob, Run, IInv, TypeInv, TypeOK
  <2>2. row[p] = "absent"
    BY <1>5 DEF Forget, IInv, OwnerInv
  <2>3. LanesInv'
    <3>1. \A q \in Projects \ {p} :
            (ForPeople(q)' <=> ForPeople(q)) /\ (ForTimer(q)' <=> ForTimer(q)) /\ (IsQueued(q)' <=> IsQueued(q))
      BY <2>1 DEF ForPeople, ForTimer, IsQueued
    <3>2. ~ForPeople(p)' /\ ~ForTimer(p)'
      BY <2>1 DEF ForPeople, ForTimer, IsQueued
    <3>3. \A q \in Projects \ {p} :
            /\ ForPeople(q)' => InLane(q, interactive')
            /\ ForTimer(q)' => InLane(q, scheduled')
            /\ Entry(q) => Entry(q)'
      BY <2>1, <3>1 DEF KeptInv, LanesInv, Entry
    <3>. QED  BY <2>1, <2>2, <3>1, <3>2, <3>3 DEF KeptInv, LanesInv
  <2>4. WantedInv'
    BY <2>1 DEF KeptInv, WantedInv, ForPeople, IsQueued
  <2>5. RunJobInv'
    <3>1. run.stage # "none" => run.project \in Projects
      BY DEF IInv, TypeInv, MutexInv
    <3>. QED  BY <2>1, <2>2, <3>1 DEF KeptInv, RunJobInv, Publishes
  <2>6. ForceKept'
    BY <2>1, <2>2 DEF KeptInv, ForceKept
  <2>. QED  BY <2>3, <2>4, <2>5, <2>6 DEF KeptInv
<1>6. CASE AskCommit(p) \/ BeginCommit(p)
  BY <1>6, KeptFrame DEF AskCommit, BeginCommit
<1>7. ASSUME NEW written \in BOOLEAN, WriteCommit(p, written) PROVE KeptInv'
  BY <1>7, KeptFrame DEF WriteCommit
<1>8. CASE EnqueueCommit(p)
  BY <1>8, EnqueueKept, TriggersAssumption DEF EnqueueCommit
<1>. QED  BY <1>1, <1>2, <1>3, <1>4, <1>5, <1>6, <1>7, <1>8 DEF Client, DeleteProject, CommitUpload

LEMMA KeptOfNothing ==
  ASSUME \A p \in Projects : jobs[p].phase = "none" /\ wanted[p] = FALSE /\ forceOwed[p] = FALSE,
         run = NoRun, interactive = <<>>, scheduled = <<>>
  PROVE  KeptInv
<1>1. \A q : ~InLane(q, interactive) /\ ~InLane(q, scheduled)
  BY EmptySeq DEF InLane
<1>2. \A q \in Projects : ~IsQueued(q)
  BY DEF IsQueued
<1>3. LanesInv
  BY <1>1, <1>2 DEF LanesInv, Entry, ForPeople, ForTimer
<1>4. WantedInv /\ ForceKept
  BY <1>2 DEF WantedInv, ForPeople, ForceKept
<1>5. RunJobInv
  BY NoneAssumption DEF RunJobInv, NoRun
<1>. QED  BY <1>3, <1>4, <1>5 DEF KeptInv

LEMMA KeptInit == Init => KeptInv
BY KeptOfNothing DEF Init, NoJob

LEMMA KeptStep == IInv /\ KeptInv /\ [Next]_vars => KeptInv'
<1>. SUFFICES ASSUME IInv, KeptInv, [Next]_vars PROVE KeptInv'
  OBVIOUS
<1>1. CASE UNCHANGED vars
  BY <1>1, KeptFrame DEF vars, memory
<1>2. CASE Loop
  BY <1>2, LoopKept
<1>3. CASE IndexProject
  BY <1>3, StageKept
<1>4. CASE \E p \in Projects : Client(p) \/ DeleteProject(p) \/ CommitUpload(p)
  BY <1>4, ClientKept
<1>5. CASE Crash
  <2>1. /\ \A p \in Projects : jobs'[p].phase = "none" /\ wanted'[p] = FALSE /\ forceOwed'[p] = FALSE
        /\ run' = NoRun /\ interactive' = <<>> /\ scheduled' = <<>>
    BY <1>5 DEF Crash, NoJob
  <2>2. \A q : ~InLane(q, interactive') /\ ~InLane(q, scheduled')
    BY <2>1, EmptySeq DEF InLane
  <2>3. \A q \in Projects : ~IsQueued(q)'
    BY <2>1 DEF IsQueued
  <2>4. LanesInv'
    BY <2>2, <2>3 DEF LanesInv, Entry, ForPeople, ForTimer
  <2>5. WantedInv' /\ ForceKept'
    BY <2>1, <2>3 DEF WantedInv, ForPeople, ForceKept
  <2>6. RunJobInv'
    BY <2>1, NoneAssumption DEF RunJobInv, NoRun
  <2>. QED  BY <2>4, <2>5, <2>6 DEF KeptInv
<1>6. CASE Recover
  <2>1. \A q \in Projects : row'[q] # "absent" => row[q] # "absent"
    BY <1>6 DEF Recover, SaysIndexing
  <2>. QED  BY <1>6, <2>1, KeptFrame DEF Recover, memory
<1>7. CASE Listen
  BY <1>7, KeptFrame DEF Listen, memory
<1>8. ASSUME NEW p \in Projects, Requeue(p) PROVE KeptInv'
  BY <1>8, EnqueueKept, TriggersAssumption DEF Requeue
<1>. QED  BY <1>1, <1>2, <1>3, <1>4, <1>5, <1>6, <1>7, <1>8 DEF Next, Startup

\* Collapsing requests into the job there is loses none and doubles none: a
\* queued job of a project that exists stands in the lane of its trigger,
\* once, promotions included, and a rebuild stays asked for until a run of
\* the project carries it out (IndexQueue.JobsAreKept).
THEOREM JobsDoStay == Spec => []JobsAreKept
<1>1. Init => IInv /\ KeptInv
  BY TypeInvInit, OwnerInit, QueueInit, KeptInit DEF IInv
<1>2. IInv /\ KeptInv /\ [Next]_vars => (IInv /\ KeptInv)'
  BY IInvStep, KeptStep
<1>3. IInv /\ KeptInv => JobsAreKept
  <2>1. LanesInv => QueuedOnce
    BY DEF LanesInv, Entry, ForPeople, ForTimer, IsQueued, QueuedOnce, LaneOf, OtherLane
  <2>. QED  BY <2>1 DEF KeptInv, JobsAreKept
<1>. QED  BY <1>1, <1>2, <1>3, PTL DEF Spec

\* A run nobody asked for is never begun while a job somebody asked for is
\* queued (IndexQueue.PeopleFirst): the loop looks at the lane of timers only
\* when the lane of people is empty, and every job of people is in that lane.
LEMMA PeopleStep == IInv /\ KeptInv /\ [Next]_vars =>
  (\A q \in Projects :
     run.stage # "lookup" /\ run'.stage = "lookup" /\ run'.project = q
       /\ ~wanted[q] /\ row[q] # "absent" =>
       \A p \in Projects : ~(wanted[p] /\ jobs[p].phase = "queued"))
<1>. SUFFICES ASSUME IInv, KeptInv, [Next]_vars,
                     NEW q \in Projects, run.stage # "lookup", run'.stage = "lookup", run'.project = q,
                     ~wanted[q], row[q] # "absent"
              PROVE  \A p \in Projects : ~wanted[p]
  OBVIOUS
<1>1. interactive \in Seq(Projects) /\ scheduled \in Seq(Projects)
  BY DEF IInv, TypeInv, TypeOK
<1>2. \A p \in Projects : wanted[p] => InLane(p, interactive)
  BY DEF KeptInv, WantedInv, LanesInv
<1>3. interactive = <<>> => \A p \in Projects : ~wanted[p]
  BY <1>2, EmptySeq DEF InLane
<1>4. CASE TakeInteractive
  <2>1. interactive # <<>> /\ TakeFrom(Head(interactive)) /\ Head(interactive) \in Projects
    BY <1>1, <1>4, HeadTailProperties DEF TakeInteractive
  <2>2. q = Head(interactive)
    BY <2>1 DEF TakeFrom, StartRun, NoRun
  <2>3. InLane(q, interactive)
    <3>1. 1 \in 1..Len(interactive) /\ interactive[1] = q
      BY <1>1, <2>1, <2>2, HeadTailProperties
    <3>. QED  BY <3>1 DEF InLane
  <2>4. ForPeople(q)
    BY <2>3 DEF KeptInv, LanesInv, Entry, ForPeople, ForTimer, IsQueued
  <2>. QED  BY <2>4 DEF KeptInv, WantedInv
<1>5. CASE TakeScheduled
  BY <1>3, <1>5 DEF TakeScheduled
<1>6. CASE \E p \in Projects, trigger \in Triggers, force \in BOOLEAN : Enqueue(p, trigger, force)
  <2>1. ~running
    BY <1>6 DEF Enqueue, Collapse, NewJob
  <2>. QED  BY <1>3, <2>1 DEF IInv, QueueInv
<1>7. CASE run' = run \/ run'.stage # "lookup"
  BY <1>7
<1>8. CASE StopLoop \/ IndexProject \/ Crash \/ Recover \/ Listen \/ UNCHANGED vars
  BY <1>8 DEF StopLoop, IndexProject, LookUp, BeginRun, SyncSources, FinishRun, RecordRun, LeaveMutex,
              SetStage, Crash, Recover, Listen, vars, memory, NoRun, IInv, TypeInv, TypeOK, Run
<1>9. ASSUME NEW p \in Projects, Client(p) \/ DeleteProject(p) \/ CommitUpload(p) \/ Requeue(p)
      PROVE  \/ \E trigger \in Triggers, force \in BOOLEAN : Enqueue(p, trigger, force)
             \/ run'.stage = run.stage
  <2>1. ASSUME NEW trigger \in Triggers, NEW force \in BOOLEAN, Request(p, trigger, force)
        PROVE  Enqueue(p, trigger, force)
    BY <2>1 DEF Request
  <2>2. ASSUME NEW trigger \in Triggers, EditAndRequest(p, trigger)
        PROVE  Enqueue(p, trigger, FALSE)
    BY <2>2 DEF EditAndRequest
  <2>3. EnqueueCommit(p) => Enqueue(p, "manual", FALSE)
    BY DEF EnqueueCommit
  <2>4. Requeue(p) => Enqueue(p, "scheduled", FALSE)
    BY DEF Requeue
  <2>5. "manual" \in Triggers /\ "scheduled" \in Triggers
    BY TriggersAssumption
  <2>6. AskDelete(p) \/ AskCommit(p) \/ DeleteProject(p) \/ BeginCommit(p)
          \/ (\E written \in BOOLEAN : WriteCommit(p, written)) => run'.stage = run.stage
    BY DEF AskDelete, AskCommit, DeleteProject, DecideDelete, DeleteRow, DropIndexFails, Forget,
           BeginCommit, WriteCommit, IInv, TypeInv, TypeOK, Run
  <2>. QED  BY <1>9, <2>1, <2>2, <2>3, <2>4, <2>5, <2>6 DEF Client, CommitUpload
<1>. QED  BY <1>4, <1>5, <1>6, <1>7, <1>8, <1>9 DEF Next, Loop, Startup

THEOREM PeopleGoFirst == Spec => PeopleFirst
<1>1. Init => IInv /\ KeptInv
  BY TypeInvInit, OwnerInit, QueueInit, KeptInit DEF IInv
<1>2. IInv /\ KeptInv /\ [Next]_vars => (IInv /\ KeptInv)'
  BY IInvStep, KeptStep
<1>. QED  BY <1>1, <1>2, PeopleStep, PTL DEF Spec, PeopleFirst
=============================================================================
