------------------------------- MODULE EvalRuns -------------------------------
(***************************************************************************)
(* The golden set asked of the live index (EvalRunner of                   *)
(* services/eval-runs.ts): a run per project at a time and one behind it,  *)
(* and one on the whole server, started by the indexer's hook, by a change *)
(* of the questions once they have been left alone for a while, and by     *)
(* hand.                                                                   *)
(*                                                                         *)
(* A project is its live generation (0 once it is deleted), whether it has *)
(* questions, and, for the properties, how often its index or its          *)
(* questions have changed by what tells the runner.  Two things change an  *)
(* index and tell nobody: the deletion of a source (sources-routes.ts),    *)
(* and a run that fails after it has only removed a document that became   *)
(* empty (indexer.ts, catch); what they did is measured with the next      *)
(* change.  What a search finds is left out but for the generation it was  *)
(* asked of.                                                               *)
(***************************************************************************)
EXTENDS Naturals, Sequences, FiniteSets
LOCAL INSTANCE SequencesExt
LOCAL INSTANCE FiniteSetsExt

CONSTANTS
  Measured,    \* projects
  Clicks,      \* requests by hand
  MaxMoves,    \* how often indexes and questions change
  MaxLosses    \* how many rows cannot be stored

ASSUME MeasuredAssumption == IsFiniteSet(Measured)

VARIABLES
  golden,    \* projects and golden_questions
  hooks,     \* <<project, trigger>>: what is committed and has not called the runner yet
  timers,    \* EvalRunner.debounce
  states,    \* EvalRunner.states, with the run of each
  slot,      \* its Semaphore(1): how many hold it, who waits
  click,     \* requestManual
  evalRuns,  \* eval_runs, with the generations each run asked
  stopping,  \* EvalRunner.stopped
  asks,      \* ghost: what has asked for a run of each project since one last started
  seen,      \* ghost: how often each project had changed when a run last read it
  losses     \* how many rows have not been stored

evalVars == <<golden, hooks, timers, states, slot, click, evalRuns, stopping, asks, seen, losses>>

IndexTriggers == {"index_rebuild", "index_incremental"}
Automatic == IndexTriggers \cup {"golden_set"}
TriggerRank == [manual |-> 3, index_rebuild |-> 2, index_incremental |-> 1, golden_set |-> 0]
Nothing == "nothing"

NoRunner == [at |-> "none", trigger |-> Nothing, waiting |-> Nothing,
             generation |-> 0, over |-> {}, left |-> 0]
Launched(trigger) == [NoRunner EXCEPT !.at = "queued", !.trigger = trigger]
NotAsking == [at |-> "off", project |-> Nothing]

EvalInit ==
  /\ golden = [p \in Measured |-> [generation |-> 1, questions |-> TRUE, moves |-> 0]]
  /\ hooks = {} /\ timers = {} /\ stopping = FALSE
  /\ states = [p \in Measured |-> NoRunner]
  /\ slot = [held |-> 0, line |-> <<>>]
  /\ click = [c \in Clicks |-> NotAsking]
  /\ evalRuns = [p \in Measured |-> {}]
  /\ asks = [p \in Measured |-> {}]
  /\ seen = [p \in Measured |-> 0]
  /\ losses = 0

Here(p) == golden[p].generation > 0

-----------------------------------------------------------------------------
(* What the runner is told of.                                             *)

Moves == MapThenSumSet(LAMBDA p : golden[p].moves, Measured)
Move(p, to, told) ==
  /\ Moves < MaxMoves /\ Here(p)
  /\ golden' = [golden EXCEPT ![p] = [to EXCEPT !.moves = @ + 1]]
  /\ hooks' = hooks \cup {told}
  /\ UNCHANGED <<timers, states, slot, click, evalRuns, stopping, asks, seen, losses>>

Rebuild(p) == Move(p, [golden[p] EXCEPT !.generation = @ + 1], <<p, "index_rebuild">>)
Increment(p) == Move(p, golden[p], <<p, "index_incremental">>)
EditQuestions(p) ==
  \E some \in BOOLEAN : Move(p, [golden[p] EXCEPT !.questions = some], <<p, "golden_set">>)

DropProject(p) ==
  /\ Here(p)
  /\ golden' = [golden EXCEPT ![p] = [generation |-> 0, questions |-> FALSE, moves |-> @.moves]]
  /\ evalRuns' = [evalRuns EXCEPT ![p] = {}]
  /\ UNCHANGED <<hooks, timers, states, slot, click, stopping, asks, seen, losses>>

-----------------------------------------------------------------------------
(* Semaphore(1).                                                           *)

\* launch, up to its first await: acquire takes the slot or waits in line.
Acquired(p) == IF slot.held < 1 THEN [slot EXCEPT !.held = @ + 1] ELSE [slot EXCEPT !.line = Append(@, p)]

\* Mutant: the slot is free while whoever waits for it wakes up.
FreedForTheNext == [held |-> slot.held - 1, line |-> IF slot.line = <<>> THEN <<>> ELSE Tail(slot.line)]

\* release hands the slot to the first in line.
Released == IF slot.line = <<>> THEN [slot EXCEPT !.held = @ - 1] ELSE [slot EXCEPT !.line = Tail(@)]

-----------------------------------------------------------------------------
(* EvalRunner.                                                             *)

Higher(old, new) == IF old = Nothing \/ TriggerRank[old] < TriggerRank[new] THEN new ELSE old

\* Mutant: a run that has begun covers what comes while it asks.
CoveredByTheRun(p, trigger) == [states[p] EXCEPT !.trigger = Higher(@, trigger)]
\* Mutant: the run that waits is recorded as what asked last.
LastAsks(p, trigger) == [states[p] EXCEPT !.waiting = trigger]


\* A run that has begun has read the index, and another waits behind it.
WaitsBehind(p, trigger) == [states[p] EXCEPT !.waiting = Higher(@, trigger)]

\* request
Request(p, trigger) ==
  IF stopping THEN UNCHANGED <<states, slot, asks>>
  ELSE /\ asks' = [asks EXCEPT ![p] = @ \cup {trigger}]
       /\ CASE states[p].at = "none" ->
                 states' = [states EXCEPT ![p] = Launched(trigger)] /\ slot' = Acquired(p)
            [] states[p].at = "queued" ->
                 states' = [states EXCEPT ![p].trigger = Higher(@, trigger)] /\ UNCHANGED slot
            [] OTHER -> states' = [states EXCEPT ![p] = WaitsBehind(p, trigger)] /\ UNCHANGED slot

\* onIndexChanged
IndexChanged(p) ==
  \E trigger \in IndexTriggers :
    /\ <<p, trigger>> \in hooks /\ hooks' = hooks \ {<<p, trigger>>}
    /\ Request(p, trigger)
    /\ UNCHANGED <<golden, timers, click, evalRuns, stopping, seen, losses>>

\* notifyGoldenSetChanged
GoldenSetChanged(p) ==
  /\ <<p, "golden_set">> \in hooks /\ hooks' = hooks \ {<<p, "golden_set">>}
  /\ timers' = IF stopping THEN timers ELSE timers \cup {p}
  /\ UNCHANGED <<golden, states, slot, click, evalRuns, stopping, asks, seen, losses>>

TimerFires(p) ==
  /\ p \in timers /\ timers' = timers \ {p}
  /\ Request(p, "golden_set")
  /\ UNCHANGED <<golden, hooks, click, evalRuns, stopping, seen, losses>>

\* requestManual reads the project and its questions, ...
Click(c, p) ==
  /\ click[c].at = "off" /\ ~stopping
  /\ Here(p) /\ golden[p].questions
  /\ click' = [click EXCEPT ![c] = [at |-> "decide", project |-> p]]
  /\ UNCHANGED <<golden, hooks, timers, states, slot, evalRuns, stopping, asks, seen, losses>>

Free(p) == states[p].at = "none" /\ slot.held < 1

\* ... and enters, or is refused, without another await; a run that holds the slot already has
\* begun when launch returns.
DecideClick(c) ==
  LET p == click[c].project
  IN /\ click[c].at = "decide"
     /\ click' = [click EXCEPT ![c].at = IF Free(p) THEN "started" ELSE "busy"]
     /\ IF Free(p) /\ ~stopping
          THEN /\ states' = [states EXCEPT ![p] = [Launched("manual") EXCEPT !.at = "read"]]
               /\ slot' = [slot EXCEPT !.held = @ + 1]
               /\ asks' = [asks EXCEPT ![p] = {}]
          ELSE UNCHANGED <<states, slot, asks>>
     /\ UNCHANGED <<golden, hooks, timers, evalRuns, stopping, seen, losses>>

\* The end of launch: the slot is released, and then the run that waits queues for it.
Ended(p) ==
  LET next == states[p].waiting
  IN /\ states' = [states EXCEPT ![p] = IF next # Nothing /\ ~stopping THEN Launched(next) ELSE NoRunner]
     /\ slot' = IF next # Nothing /\ ~stopping
                THEN IF Released.held < 1 THEN [Released EXCEPT !.held = @ + 1]
                                          ELSE [Released EXCEPT !.line = Append(@, p)]
                ELSE Released

\* The slot is this run's: started is set, and execute called.
Start(p) ==
  /\ states[p].at = "queued" /\ p \notin ToSet(slot.line)
  /\ asks' = [asks EXCEPT ![p] = {}]
  /\ IF stopping THEN Ended(p) ELSE states' = [states EXCEPT ![p].at = "read"] /\ UNCHANGED slot
  /\ UNCHANGED <<golden, hooks, timers, click, evalRuns, stopping, seen, losses>>

\* execute reads the project and its questions; a set emptied since a manager asked is an error row.
Read(p) ==
  /\ states[p].at = "read"
  /\ seen' = [seen EXCEPT ![p] = golden[p].moves]
  /\ IF Here(p) /\ (golden[p].questions \/ states[p].trigger = "manual")
       THEN /\ states' = [states EXCEPT ![p] =
                 [@ EXCEPT !.at = IF golden[p].questions THEN "ask" ELSE "write",
                           !.left = 2, !.generation = golden[p].generation]]
            /\ UNCHANGED slot
       ELSE Ended(p)
  /\ UNCHANGED <<golden, hooks, timers, click, evalRuns, stopping, asks, losses>>

\* A question is asked of the index that is live then; one that gets no answer fails the run.
AskQuestion(p) ==
  /\ states[p].at = "ask"
  /\ IF stopping THEN Ended(p)
     ELSE /\ \E ok \in BOOLEAN :
               /\ ok => Here(p)
               /\ states' = [states EXCEPT ![p] =
                    IF ~ok THEN [@ EXCEPT !.at = "write"]
                    ELSE [states[p] EXCEPT !.over = @ \cup {golden[p].generation}, !.left = @ - 1,
                                           !.at = IF states[p].left = 1 THEN "look" ELSE "ask"]]
          /\ UNCHANGED slot
  /\ UNCHANGED <<golden, hooks, timers, click, evalRuns, stopping, asks, seen, losses>>

\* Mutant: whatever was asked is an answer.
GoodAnyway(p) == Here(p)

\* The index did not move under the run.
StillTheIndex(p) == golden[p].generation = states[p].generation

\* The project is read again; no question left to ask is an ok row.
LookAgain(p) ==
  /\ states[p].at = "look"
  /\ IF stopping \/ ~Here(p) THEN Ended(p)
     ELSE states' = [states EXCEPT ![p] = [@ EXCEPT !.at = "write", !.left = IF StillTheIndex(p) THEN 0 ELSE 1]]
          /\ UNCHANGED slot
  /\ UNCHANGED <<golden, hooks, timers, click, evalRuns, stopping, asks, seen, losses>>

\* record: a row for a project that is gone is refused; any may fail, which is logged.
WriteRow(p) ==
  /\ states[p].at = "write"
  /\ \E stored \in BOOLEAN :
       /\ stored => Here(p)
       /\ ~stored /\ Here(p) => losses < MaxLosses
       /\ losses' = IF ~stored /\ Here(p) THEN losses + 1 ELSE losses
       /\ evalRuns' = IF stored
            THEN [evalRuns EXCEPT ![p] = @ \cup {[status |-> IF states[p].left = 0 THEN "ok" ELSE "error",
                    trigger |-> states[p].trigger, generation |-> states[p].generation, over |-> states[p].over]}]
            ELSE evalRuns
  /\ Ended(p)
  /\ UNCHANGED <<golden, hooks, timers, click, stopping, asks, seen>>

\* stop
StopRunner ==
  /\ ~stopping /\ stopping' = TRUE /\ timers' = {}
  /\ UNCHANGED <<golden, hooks, states, slot, click, evalRuns, asks, seen, losses>>

-----------------------------------------------------------------------------
Runs(p) == Start(p) \/ Read(p) \/ AskQuestion(p) \/ LookAgain(p) \/ WriteRow(p)

EvalNext ==
  \/ \E p \in Measured : \/ Rebuild(p) \/ Increment(p) \/ EditQuestions(p) \/ DropProject(p)
                         \/ IndexChanged(p) \/ GoldenSetChanged(p) \/ TimerFires(p) \/ Runs(p)
  \/ \E c \in Clicks : DecideClick(c) \/ \E p \in Measured : Click(c, p)
  \/ StopRunner

EvalSpec == EvalInit /\ [][EvalNext]_evalVars

\* A run of the indexer ends and calls its hook, a timer fires, what a run awaits comes back.
EvalFair ==
  \A p \in Measured : /\ WF_evalVars(IndexChanged(p)) /\ WF_evalVars(GoldenSetChanged(p))
                      /\ WF_evalVars(TimerFires(p)) /\ WF_evalVars(Runs(p))

-----------------------------------------------------------------------------
(* Properties.                                                             *)

\* Types; one run asks on the whole server, and the slot is held exactly by those that run or
\* are about to, the others being in line.
EvalTypeOK ==
  /\ hooks \subseteq Measured \X Automatic /\ timers \subseteq Measured
  /\ \A p \in Measured : states[p].trigger \in Automatic \cup {"manual", Nothing}
                         /\ states[p].waiting \in Automatic \cup {Nothing}
  /\ slot.held = Cardinality({p \in Measured : states[p].at # "none"} \ ToSet(slot.line))
  /\ slot.held <= 1
  /\ \A p \in ToSet(slot.line) : states[p].at = "queued"

Unmeasured(p) == Here(p) /\ seen[p] < golden[p].moves /\ ~stopping

\* No change of an index or of the questions that calls the runner is missed: until a run reads
\* the project after it, its hook or its timer is to come, or a run that has not read it is there,
\* or one waits behind the run that has (eval-runs.ts, request, launch).
NoChangeIsMissed ==
  \A p \in Measured :
    Unmeasured(p) => \/ \E t \in Automatic : <<p, t>> \in hooks
                     \/ p \in timers
                     \/ states[p].at \in {"queued", "read"}
                     \/ states[p].waiting # Nothing

\* A run is recorded as the most telling of all that asked for it, in whatever order they did
\* (eval-runs.ts, TRIGGER_RANK).
MostTellingTrigger ==
  ~stopping => \A p \in Measured :
    LET kept == IF states[p].at = "queued" THEN states[p].trigger ELSE states[p].waiting
    IN \A t \in asks[p] : kept # Nothing /\ TriggerRank[t] <= TriggerRank[kept]

\* An ok row's answers are all of the one generation it names, though the index was swapped
\* between two questions (eval-runs.ts, execute).
OkRowIsOfOneIndex ==
  \A p \in Measured : \A r \in evalRuns[p] : r.status = "ok" => r.over = {r.generation}

\* Every such change is measured, unless the project goes or the server stops: no run and no slot is
\* waited for without end.
EveryChangeIsMeasured == (\E p \in Measured : Unmeasured(p)) ~> \A p \in Measured : ~Unmeasured(p)

\* Collapsing requests into the run that waits (eval-runs.ts) loses no change and no better
\* reason, and a row that says "ok" was measured on one index.
RunsAreSound == NoChangeIsMissed /\ MostTellingTrigger /\ OkRowIsOfOneIndex
=============================================================================
