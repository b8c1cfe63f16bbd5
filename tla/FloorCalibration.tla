--------------------------- MODULE FloorCalibration ---------------------------
(***************************************************************************)
(* The relevance floor of a project: how one is measured over the index,   *)
(* suggested and adopted (services/floor-calibration.ts,                   *)
(* setProjectScoreFloor of services/projects.ts).                          *)
(*                                                                         *)
(* A project is its live generation, 0 once it is deleted.  Another        *)
(* embedding model goes live with another generation, and stands in it.  A *)
(* floor is the suggestion it was adopted from, 0 for the instance's own.  *)
(* A project's lock is FifoLock, a row lock PostgreSQL's.                  *)
(***************************************************************************)
EXTENDS Naturals, Sequences, FiniteSets
LOCAL INSTANCE SequencesExt

CONSTANTS
  Floored,          \* projects
  Moving,           \* those that are rebuilt and deleted
  MaxMeasurements,  \* calls of generateFloorSuggestion
  MaxManagers,      \* requests to adopt a suggestion or to set the floor
  Places,           \* MAX_CONCURRENT_MEASUREMENTS
  MaxKept,          \* MAX_KEPT_SUGGESTIONS
  Probes,           \* questions asked of an index
  MaxSwaps          \* of each of them

\* A measurement asks something of the index.
ASSUME FloorAssumption ==
  /\ MaxMeasurements \in Nat /\ MaxManagers \in Nat /\ Places \in Nat
  /\ Probes \in Nat \ {0}

VARIABLES
  served,       \* live_generation
  floor,        \* score_floor
  rebuilt,      \* the projects another model was swapped in for, and not measured since
  suggestions,  \* floor_suggestions, with the generations the probes were asked of
  measuring,    \* the calls
  projectLine,  \* projectLocks: the calls for each project, the first of which has the lock
  places,       \* serverSlots: how many are taken, and the calls that wait for one
  manager,      \* the requests
  rowLock,      \* who has the row of a project FOR UPDATE
  trail         \* the audit events, and ghost: what each really replaced

floorVars == <<served, floor, rebuilt, suggestions, measuring, projectLine, places, manager, rowLock, trail>>

\* Named in the order they begin.
Measurements == 1..MaxMeasurements
Managers == 1..MaxManagers

NotMeasuring == [at |-> "new", project |-> "none", trigger |-> "none", generation |-> 0, over |-> {}, left |-> Probes]
NoManager == [at |-> "off", project |-> "none", suggestion |-> 0, before |-> 0]

FloorInit ==
  /\ served = [p \in Floored |-> 1] /\ floor = [p \in Floored |-> 0] /\ rebuilt = {}
  /\ suggestions = [p \in Floored |-> {}]
  /\ measuring = [c \in Measurements |-> NotMeasuring]
  /\ projectLine = [p \in Floored |-> <<>>]
  /\ places = [taken |-> 0, line |-> <<>>]
  /\ manager = [r \in Managers |-> NoManager]
  /\ rowLock = [p \in Floored |-> 0]
  /\ trail = {}

RowIsFree(p) == rowLock[p] = 0
Serves(p) == served[p] > 0
NewCall(c) == measuring[c].at = "new" /\ \A d \in 1..c - 1 : measuring[d].at # "new"
NewRequest(r) == manager[r].at = "off" /\ \A q \in 1..r - 1 : manager[q].at # "off"

-----------------------------------------------------------------------------
(* The project, and what else is done with it.                             *)

\* The swap of a rebuild, perhaps with another model.
SwapIndex(p) ==
  /\ Serves(p) /\ RowIsFree(p) /\ p \in Moving /\ served[p] <= MaxSwaps
  /\ served' = [served EXCEPT ![p] = @ + 1]
  /\ rebuilt' \in {rebuilt, rebuilt \cup {p}}
  /\ UNCHANGED <<floor, suggestions, measuring, projectLine, places, manager, rowLock, trail>>

\* Takes the suggestions with it; a request that holds one and waits for the row is the
\* victim of the deadlock.
RemoveProject(p) ==
  /\ Serves(p) /\ RowIsFree(p) /\ p \in Moving
  /\ served' = [served EXCEPT ![p] = 0]
  /\ suggestions' = [suggestions EXCEPT ![p] = {}]
  /\ manager' = [r \in Managers |-> IF manager[r].project = p /\ manager[r].at = "holds"
                                    THEN [manager[r] EXCEPT !.at = "refused"] ELSE manager[r]]
  /\ UNCHANGED <<floor, rebuilt, measuring, projectLine, places, rowLock, trail>>

-----------------------------------------------------------------------------
(* Semaphore(Places), and the project's lock.                              *)

PlaceFree == places.taken < Places
PlaceTaken == [places EXCEPT !.taken = @ + 1]

\* Mutant: a place that is handed on is free as well.
PlaceFreed == [taken |-> places.taken - 1, line |-> IF places.line = <<>> THEN <<>> ELSE Tail(places.line)]
PlaceLeft == IF places.line = <<>> THEN [places EXCEPT !.taken = @ - 1] ELSE [places EXCEPT !.line = Tail(@)]

HasLock(c) == Head(projectLine[measuring[c].project]) = c
Queues(c, p) == projectLine' = [projectLine EXCEPT ![p] = Append(@, c)]

-----------------------------------------------------------------------------
(* generateFloorSuggestion.                                                *)

\* model_change: the lock first, ...
AskAfterRebuild(c, p) ==
  /\ NewCall(c) /\ p \in rebuilt /\ rebuilt' = rebuilt \ {p}
  /\ measuring' = [measuring EXCEPT ![c] = [@ EXCEPT !.at = "lock", !.project = p, !.trigger = "model_change"]]
  /\ Queues(c, p)
  /\ UNCHANGED <<served, floor, suggestions, places, manager, rowLock, trail>>

\* ... then a place.
AcquirePlace(c) ==
  /\ measuring[c].at = "lock" /\ measuring[c].trigger = "model_change" /\ HasLock(c)
  /\ measuring' = [measuring EXCEPT ![c].at = "place"]
  /\ places' = IF PlaceFree THEN PlaceTaken ELSE [places EXCEPT !.line = Append(@, c)]
  /\ UNCHANGED <<served, floor, rebuilt, suggestions, projectLine, manager, rowLock, trail>>

\* Mutant: an operator waits for the project like anybody else.
LetInAnyway(p) == PlaceFree
\* Nobody measures the project or waits to, and there is a place.
LetIn(p) == projectLine[p] = <<>> /\ PlaceFree

\* operator: the place first, then the lock, or "busy".
AskByHand(c, p) ==
  /\ NewCall(c)
  /\ IF LetIn(p)
       THEN /\ measuring' = [measuring EXCEPT ![c] = [@ EXCEPT !.at = "lock", !.project = p, !.trigger = "operator"]]
            /\ places' = PlaceTaken /\ Queues(c, p)
       ELSE measuring' = [measuring EXCEPT ![c].at = "busy"] /\ UNCHANGED <<places, projectLine>>
  /\ UNCHANGED <<served, floor, rebuilt, suggestions, manager, rowLock, trail>>

Entered(c) ==
  /\ \/ measuring[c].at = "lock" /\ measuring[c].trigger = "operator"
     \/ measuring[c].at = "place" /\ c \notin ToSet(places.line)
  /\ HasLock(c)

\* The finally: the place is left and the lock released.
Leaves(c) ==
  /\ measuring' = [measuring EXCEPT ![c].at = "done"]
  /\ places' = PlaceLeft
  /\ projectLine' = [projectLine EXCEPT ![measuring[c].project] = Tail(@)]

\* measureProject reads the project and draws its probes from the live generation, ...
DrawProbes(c) ==
  /\ Entered(c)
  /\ \/ /\ Serves(measuring[c].project)
        /\ measuring' = [measuring EXCEPT ![c] = [@ EXCEPT !.at = "probe", !.generation = served[measuring[c].project]]]
        /\ UNCHANGED <<places, projectLine>>
     \/ Leaves(c)
  /\ UNCHANGED <<served, floor, rebuilt, suggestions, manager, rowLock, trail>>

\* ... asks them one after the other of what is live then, ...
Probe(c) ==
  /\ measuring[c].at = "probe" /\ measuring[c].left > 0
  /\ \/ /\ Serves(measuring[c].project)
        /\ measuring' = [measuring EXCEPT ![c].over = @ \cup {served[measuring[c].project]}, ![c].left = @ - 1]
        /\ UNCHANGED <<places, projectLine>>
     \/ Leaves(c)
  /\ UNCHANGED <<served, floor, rebuilt, suggestions, manager, rowLock, trail>>

\* Mutant: the suggestion is of the index as it is now.
NamedAtTheEnd(c) == served[measuring[c].project]

NamedGeneration(c) == measuring[c].generation

Created == Cardinality({c \in Measurements : measuring[c].at = "done" /\ measuring[c].left = 0})
Newest(S) == {s \in S : Cardinality({t \in S : t.id > s.id}) < MaxKept}
HeldRows(p) == {manager[r].suggestion : r \in {r \in Managers : manager[r].project = p /\ manager[r].at \in {"holds", "locked"}}}

\* ... and stores what would have answered them all, and prunes.
StoreSuggestion(c) ==
  LET p == measuring[c].project
      all == suggestions[p] \cup {[id |-> Created + 1, generation |-> NamedGeneration(c),
                                   over |-> measuring[c].over, applied |-> 0]}
  IN /\ measuring[c].at = "probe" /\ measuring[c].left = 0
     /\ \/ /\ Serves(p) /\ {s.id : s \in all \ Newest(all)} \cap HeldRows(p) = {}
           /\ suggestions' = [suggestions EXCEPT ![p] = Newest(all)]
        \/ UNCHANGED suggestions
     /\ Leaves(c)
     /\ UNCHANGED <<served, floor, rebuilt, manager, rowLock, trail>>

-----------------------------------------------------------------------------
(* applyFloorSuggestion and setProjectScoreFloor.                          *)

\* The suggestion's row, which another may have.
LockSuggestion(r, p) ==
  /\ NewRequest(r)
  /\ \E s \in suggestions[p] :
       /\ s.id \notin HeldRows(p)
       /\ manager' = [manager EXCEPT ![r] = [at |-> IF s.applied = 0 THEN "holds" ELSE "refused",
                                             project |-> p, suggestion |-> s.id, before |-> 0]]
  /\ UNCHANGED <<served, floor, rebuilt, suggestions, measuring, projectLine, places, rowLock, trail>>

Wanted(r) == CHOOSE s \in suggestions[manager[r].project] : s.id = manager[r].suggestion

\* The index it was measured on is the one that is served.
SameIndex(r) == Wanted(r).generation = served[manager[r].project]

LockForAdoption(r) ==
  LET p == manager[r].project
  IN /\ manager[r].at = "holds" /\ RowIsFree(p)
     /\ IF SameIndex(r)
          THEN /\ rowLock' = [rowLock EXCEPT ![p] = r]
               /\ manager' = [manager EXCEPT ![r] = [@ EXCEPT !.at = "locked", !.before = floor[p]]]
          ELSE manager' = [manager EXCEPT ![r].at = "refused"] /\ UNCHANGED rowLock
     /\ UNCHANGED <<served, floor, rebuilt, suggestions, measuring, projectLine, places, trail>>

\* Mutant: PATCH reads the floor and locks the row when it writes.
ReadWithoutLock(r, p) ==
  /\ Serves(p) /\ NewRequest(r)
  /\ manager' = [manager EXCEPT ![r] = [at |-> "locked", project |-> p, suggestion |-> 0, before |-> floor[p]]]
  /\ UNCHANGED <<served, floor, rebuilt, suggestions, measuring, projectLine, places, rowLock, trail>>

\* setProjectScoreFloor: SELECT ... FOR UPDATE.
LockForPatch(r, p) ==
  /\ Serves(p) /\ NewRequest(r) /\ RowIsFree(p)
  /\ manager' = [manager EXCEPT ![r] = [at |-> "locked", project |-> p, suggestion |-> 0, before |-> floor[p]]]
  /\ rowLock' = [rowLock EXCEPT ![p] = r]
  /\ UNCHANGED <<served, floor, rebuilt, suggestions, measuring, projectLine, places, trail>>

\* The update and the commit, and the event of the route.
CommitFloor(r) ==
  LET p == manager[r].project n == manager[r].suggestion
  IN /\ manager[r].at = "locked" /\ rowLock[p] \in {r, 0}
     /\ floor' = [floor EXCEPT ![p] = n]
     /\ suggestions' = [suggestions EXCEPT ![p] =
          {IF s.id = n THEN [s EXCEPT !.applied = served[p]] ELSE s : s \in @}]
     /\ trail' = trail \cup {[by |-> r, from |-> manager[r].before, to |-> n, replaced |-> floor[p]]}
     /\ rowLock' = [rowLock EXCEPT ![p] = 0]
     /\ manager' = [manager EXCEPT ![r].at = "adopted"]
     /\ UNCHANGED <<served, rebuilt, measuring, projectLine, places>>

-----------------------------------------------------------------------------
Measure(c) == AcquirePlace(c) \/ DrawProbes(c) \/ Probe(c) \/ StoreSuggestion(c)

FloorNext ==
  \/ \E p \in Floored : \/ SwapIndex(p) \/ RemoveProject(p)
                        \/ \E c \in Measurements : AskAfterRebuild(c, p) \/ AskByHand(c, p)
                        \/ \E r \in Managers : LockSuggestion(r, p) \/ LockForPatch(r, p)
  \/ \E c \in Measurements : Measure(c)
  \/ \E r \in Managers : LockForAdoption(r) \/ CommitFloor(r)

FloorSpec == FloorInit /\ [][FloorNext]_floorVars

\* What a call awaits comes back, and so do the statements of a transaction.
FloorFair ==
  /\ \A c \in Measurements : WF_floorVars(Measure(c))
  /\ \A r \in Managers : WF_floorVars(LockForAdoption(r)) /\ WF_floorVars(CommitFloor(r))

-----------------------------------------------------------------------------
(* Properties.                                                             *)

\* Types; a place is taken by exactly the calls that measure or have been let in, never more
\* than there are places.
FloorTypeOK ==
  /\ floor \in [Floored -> 0..MaxMeasurements]
  /\ rebuilt \subseteq Floored
  /\ places.taken <= Places
  /\ places.taken = Cardinality({c \in Measurements :
       \/ measuring[c].at = "probe"
       \/ measuring[c].at = "place" /\ c \notin ToSet(places.line)
       \/ measuring[c].at = "lock" /\ measuring[c].trigger = "operator"})
  /\ \A p \in Floored : \A s \in suggestions[p] : s.over # {} /\ s.applied <= served[p]

\* One measurement of a project at a time, and an operator who was let in never waits: there is
\* nobody between the check and the lock (floor-calibration.ts, generateFloorSuggestion).
OperatorNeverWaits ==
  \A c \in Measurements :
    measuring[c].at \in {"lock", "probe"} /\ (measuring[c].trigger = "operator" \/ measuring[c].at = "probe") =>
      HasLock(c)

\* A floor is adopted only for the index that every one of its probes was asked of, though a
\* swap fell between two of them or between the measurement and the request
\* (floor-calibration.ts, measureProject, applyFloorSuggestion).
AdoptedWhereMeasured ==
  \A p \in Floored : \A s \in suggestions[p] : s.applied # 0 => s.over = {s.applied}

\* What the audit trail says a floor replaced is what it replaced, whichever of the two ways
\* it was set (setProjectScoreFloor, applyFloorSuggestion).
TrailIsTrue == \A e \in trail : e.from = e.replaced

\* The server's own measurement gets its turn, whatever operators ask for: the two orders in
\* which the lock and a place are taken never block each other.
ToMeasure(c) == measuring[c].trigger = "model_change" /\ measuring[c].at # "done"
RebuiltIsMeasured == (\E c \in Measurements : ToMeasure(c)) ~> \A c \in Measurements : ~ToMeasure(c)

\* Measurements in the background neither hold up an operator nor write a floor of another
\* index, and the audit trail says what a floor was when it was replaced.
FloorIsSound == OperatorNeverWaits /\ AdoptedWhereMeasured /\ TrailIsTrue
=============================================================================
