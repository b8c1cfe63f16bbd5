----------------------------- MODULE KeyedMutex -----------------------------
(***************************************************************************)
(* class KeyedMutex of services/locks.ts: a map from keys to the promise   *)
(* the next caller has to wait for.  A call waits for the promise it found *)
(* there, runs fn, resolves its own, and takes its entry out of the map if *)
(* nobody replaced it.  Promises settle in a later microtask, so the map   *)
(* can be empty before the last promise that was in it has settled.        *)
(***************************************************************************)
EXTENDS Naturals

CONSTANTS
  Calls,   \* calls of runExclusive; each happens once
  Keys,
  Nobody   \* no entry in the map, and nothing to wait for

ASSUME NobodyAssumption == Nobody \notin Calls

VARIABLES
  key,      \* the key of each call
  stage,    \* "new", "waiting" for previous, "inside" fn, "gone"
  previous, \* the call whose tail this one awaits, Nobody if resolved at once
  tails,    \* the map: the call whose tail is stored, Nobody if no entry
  settled,  \* the calls whose tail promise has settled
  arrived,  \* history: the number of calls before this one
  clock     \* history: the number of calls so far

mutexVars == <<key, stage, previous, tails, settled, arrived, clock>>

MutexInit ==
  /\ key \in [Calls -> Keys]
  /\ stage = [c \in Calls |-> "new"]
  /\ previous = [c \in Calls |-> Nobody]
  /\ tails = [k \in Keys |-> Nobody]
  /\ settled = {}
  /\ arrived = [c \in Calls |-> 0]
  /\ clock = 0

\* Everything before the first await is one step.
Arrive(c) ==
  /\ stage[c] = "new"
  /\ stage' = [stage EXCEPT ![c] = "waiting"]
  /\ previous' = [previous EXCEPT ![c] = tails[key[c]]]
  /\ tails' = [tails EXCEPT ![key[c]] = c]
  /\ arrived' = [arrived EXCEPT ![c] = clock]
  /\ clock' = clock + 1
  /\ UNCHANGED <<key, settled>>

PreviousSettled(c) == previous[c] = Nobody \/ previous[c] \in settled

\* Mutant: fn runs before the previous call is over.
EnterAtOnce(c) ==
  /\ stage[c] = "waiting"
  /\ stage' = [stage EXCEPT ![c] = "inside"]
  /\ UNCHANGED <<key, previous, tails, settled, arrived, clock>>

Enter(c) ==
  /\ stage[c] = "waiting" /\ PreviousSettled(c)
  /\ stage' = [stage EXCEPT ![c] = "inside"]
  /\ UNCHANGED <<key, previous, tails, settled, arrived, clock>>

\* Mutant: the entry goes although another call waits behind it.
LeaveAlways(c) ==
  /\ stage[c] = "inside"
  /\ stage' = [stage EXCEPT ![c] = "gone"]
  /\ tails' = [tails EXCEPT ![key[c]] = Nobody]
  /\ UNCHANGED <<key, previous, settled, arrived, clock>>

\* Mutant: the entry stays for ever.
LeaveNever(c) ==
  /\ stage[c] = "inside"
  /\ stage' = [stage EXCEPT ![c] = "gone"]
  /\ UNCHANGED <<key, previous, tails, settled, arrived, clock>>

\* The finally: release, and the entry goes if it is still this call's.
Leave(c) ==
  /\ stage[c] = "inside"
  /\ stage' = [stage EXCEPT ![c] = "gone"]
  /\ tails' = [tails EXCEPT ![key[c]] = IF @ = c THEN Nobody ELSE @]
  /\ UNCHANGED <<key, previous, settled, arrived, clock>>

\* Mutant: the promise before is settled instead.
SettlePrevious(c) ==
  /\ stage[c] = "gone" /\ PreviousSettled(c) /\ c \notin settled
  /\ settled' = settled \cup {previous[c]}
  /\ UNCHANGED <<key, stage, previous, tails, arrived, clock>>

\* previous.then(() => current)
Settle(c) ==
  /\ stage[c] = "gone" /\ PreviousSettled(c) /\ c \notin settled
  /\ settled' = settled \cup {c}
  /\ UNCHANGED <<key, stage, previous, tails, arrived, clock>>

MutexNext == \E c \in Calls : Arrive(c) \/ Enter(c) \/ Leave(c) \/ Settle(c)

MutexSpec == MutexInit /\ [][MutexNext]_mutexVars

\* Microtasks run, and every fn ends.
MutexFairness == \A c \in Calls : WF_mutexVars(Enter(c)) /\ WF_mutexVars(Leave(c)) /\ WF_mutexVars(Settle(c))

-----------------------------------------------------------------------------
\* Every variable stays in its type.
MutexTypeOK ==
  /\ key \in [Calls -> Keys]
  /\ stage \in [Calls -> {"new", "waiting", "inside", "gone"}]
  /\ previous \in [Calls -> Calls \cup {Nobody}]
  /\ tails \in [Keys -> Calls \cup {Nobody}]
  /\ settled \in SUBSET Calls
  /\ arrived \in [Calls -> Nat]
  /\ clock \in Nat

Active(c) == stage[c] \in {"waiting", "inside"}
SameKey(c, d) == key[c] = key[d]

\* First come, first served, one at a time: whoever is inside came before
\* everybody who still waits or is inside for the same key.
FirstComeFirstServed ==
  \A c, d \in Calls :
    stage[c] = "inside" /\ Active(d) /\ SameKey(c, d) /\ c # d => arrived[c] < arrived[d]

\* isLocked, and the size of the map: an entry is there exactly as long as
\* somebody waits or works, so the map does not grow with the keys ever used
\* and a key is free as soon as its last call is over.
LockedWhileUsed ==
  \A k \in Keys : tails[k] # Nobody <=> \E c \in Calls : key[c] = k /\ Active(c)

\* A KeyedMutex serves the calls of a key in turn, one at a time, and its map of tails
\* holds the keys that are in use and no others (runExclusive, isLocked).
MutexSafe == FirstComeFirstServed /\ LockedWhileUsed
=============================================================================
