------------------------------ MODULE FifoLock ------------------------------
(***************************************************************************)
(* What services/locks.ts promises of runExclusive, and what module        *)
(* IndexQueue assumes of it: per key, callers are served one at a time and *)
(* in the order they came.                                                 *)
(***************************************************************************)
EXTENDS Naturals, Sequences

CONSTANTS Calls, Keys

VARIABLES
  line,    \* line[k]: the calls for key k that have not returned, in order
  inside   \* the calls whose fn is running

Init == line = [k \in Keys |-> <<>>] /\ inside = {}

\* A call of runExclusive happens once.
Arrive(c, k) ==
  /\ \A l \in Keys : \A i \in 1..Len(line[l]) : line[l][i] # c
  /\ line' = [line EXCEPT ![k] = Append(@, c)]
  /\ UNCHANGED inside

Enter(c) ==
  /\ c \notin inside
  /\ \E k \in Keys : line[k] # <<>> /\ Head(line[k]) = c
  /\ inside' = inside \cup {c}
  /\ UNCHANGED line

Leave(c) ==
  /\ c \in inside
  /\ inside' = inside \ {c}
  /\ \E k \in Keys : line[k] # <<>> /\ Head(line[k]) = c /\ line' = [line EXCEPT ![k] = Tail(@)]

Next == \E c \in Calls : (\E k \in Keys : Arrive(c, k)) \/ Enter(c) \/ Leave(c)

\* The call at the head of a line gets in, and its fn ends.
Serve(k) == line[k] # <<>> /\ (Enter(Head(line[k])) \/ Leave(Head(line[k])))

lockVars == <<line, inside>>

\* One at a time, in the order they came.
InTurn == Init /\ [][Next]_lockVars

\* And if every fn ends, everybody is served.
Spec == InTurn /\ \A k \in Keys : WF_lockVars(Serve(k))
=============================================================================
