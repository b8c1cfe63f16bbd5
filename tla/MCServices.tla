----------------------------- MODULE MCServices -----------------------------
(* Components that share nothing, on small instances and in one run: which *)
(* one goes is chosen at the beginning, and the others stay as they began. *)
EXTENDS KeyedMutex, Conversion, PiiScan, EvalRuns, FloorCalibration

VARIABLE part

\* Where a part that stays as it began may begin in many ways, one is enough.
Begins ==
  /\ part \in {"mutex", "conversion", "pii", "eval", "floor"}
  /\ MutexInit /\ ConversionInit /\ PiiInit /\ EvalInit /\ FloorInit
  /\ part # "mutex" => key = [c \in Calls |-> CHOOSE k \in Keys : TRUE]
  /\ part # "pii" => \A p \in Projects, i \in Ids : document[p][i] = NoDocument

serviceVars == <<part, mutexVars, conversionVars, piiVars, evalVars, floorVars>>

\* Of the two projects one is there to want the slot: its index is extended, and that is all.
OnlyWaits ==
  /\ \A c \in Clicks : click'[c].project # "q"
  /\ golden'["q"].moves <= 1 /\ golden'["q"].questions /\ golden'["q"].generation = 1

\* One part goes: a step of it, and nothing of the others.
Mutex(step) == part = "mutex" /\ step /\ UNCHANGED <<part, conversionVars, piiVars, evalVars, floorVars>>
Convert(step) == part = "conversion" /\ step /\ UNCHANGED <<part, mutexVars, piiVars, evalVars, floorVars>>
Pii(step) == part = "pii" /\ step /\ UNCHANGED <<part, mutexVars, conversionVars, evalVars, floorVars>>
Eval(step) == part = "eval" /\ step /\ UNCHANGED <<part, mutexVars, conversionVars, piiVars, floorVars>>
Floor(step) == part = "floor" /\ step /\ UNCHANGED <<part, mutexVars, conversionVars, piiVars, evalVars>>

Goes ==
  \/ Mutex(MutexNext) \/ Convert(ConversionNext) \/ Pii(PiiNext)
  \/ Eval(EvalNext /\ OnlyWaits) \/ Floor(FloorNext)

\* The fairness of the parts: MutexFairness, ConversionFair, PiiFair, EvalFair and FloorFair.
\* In the instances but the conversion's every behaviour ends, so that one condition on all
\* their fair steps says as much as one on each; and as part does not change, conditions of
\* different parts can be joined.
CallGoesOn == \E c \in Calls : Enter(c) \/ Leave(c) \/ Settle(c)
ScannerGoesOn == Passes \/ Sweep \/ \E p \in Projects : CallHook(p)
RunnerGoesOn == \E p \in Measured : IndexChanged(p) \/ GoldenSetChanged(p) \/ TimerFires(p) \/ Runs(p)
MeasurementGoesOn ==
  \/ \E c \in Measurements : Measure(c)
  \/ \E r \in Managers : LockForAdoption(r) \/ CommitFloor(r)

Fairness ==
  /\ WF_serviceVars(\/ Mutex(CallGoesOn) \/ Pii(ScannerGoesOn) \/ Eval(RunnerGoesOn)
                    \/ Floor(MeasurementGoesOn) \/ Convert(TimesOut))
  /\ WF_serviceVars(Convert(IdleFires)) /\ WF_serviceVars(Convert(Watchdog))
  /\ WF_serviceVars(Convert(\E t \in Threads : t # thread /\ Exit(t)))

Services == Begins /\ [][Goes]_serviceVars /\ Fairness

-----------------------------------------------------------------------------
\* The calls for a key that have not returned, in the order they came.
LineOf(k) ==
  LET waiting == {c \in Calls : key[c] = k /\ Active(c)}
  IN [i \in 1..Cardinality(waiting) |->
        CHOOSE c \in waiting : Cardinality({d \in waiting : arrived[d] < arrived[c]}) = i - 1]

Lock == INSTANCE FifoLock WITH line <- [k \in Keys |-> LineOf(k)],
                               inside <- {c \in Calls : stage[c] = "inside"}

\* The promise chain is the FIFO lock the other modules assume, fairness
\* included: when every fn ends, every call gets its turn.
ImplementsFifoLock == Lock!Spec

\* The types of the five parts.
ServicesTypeOK == MutexTypeOK /\ ConversionTypeOK /\ PiiTypeOK /\ EvalTypeOK /\ FloorTypeOK

\* What each part must do in the end, under the fairness above: an idle thread goes and every
\* request to it settles, documents are scanned, changes are measured, and so is the floor
\* after a rebuild.
ServicesGoOn ==
  /\ IdleThreadGoes
  /\ EveryRequestSettles
  /\ EveryDocumentIsScanned
  /\ EveryChangeIsMeasured
  /\ RebuiltIsMeasured
=============================================================================
