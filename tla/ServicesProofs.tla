--------------------------- MODULE ServicesProofs ---------------------------
(***************************************************************************)
(* The five components of MCServices, each for every value of its          *)
(* constants: the chain of promises of KeyedMutex, the thread of           *)
(* Conversion, the scan of PiiScan, the runs of EvalRuns, the measurements *)
(* of FloorCalibration; and from them the types of the five together.      *)
(*                                                                         *)
(* Each part below begins with its inductive invariant.                    *)
(***************************************************************************)
EXTENDS MCServices, Integers, FiniteSetTheorems, TLAPS
LOCAL INSTANCE SequencesExt

-----------------------------------------------------------------------------
(***************************************************************************)
(* KeyedMutex serves one call per key at a time, in order of arrival.  The *)
(* invariant says what the chain of promises means: whom a call waits for  *)
(* came right before it, and a settled promise stands for a past in which  *)
(* nobody is active any more.                                              *)
(***************************************************************************)

Came(c) == stage[c] # "new"

\* c's promise, settled, says that everybody up to c is gone.
PastIsOver(c) == \A d \in Calls : Active(d) /\ SameKey(c, d) => arrived[c] < arrived[d]

\* The tail in the map belongs to the last call that came.
TailInv(k) ==
  tails[k] # Nobody =>
    /\ key[tails[k]] = k /\ Active(tails[k])
    /\ \A c \in Calls : Came(c) /\ key[c] = k => arrived[c] <= arrived[tails[k]]

\* A call awaits the tail of the call before it.
PreviousInv(c) ==
  Came(c) /\ previous[c] # Nobody =>
    /\ SameKey(c, previous[c]) /\ Came(previous[c])
    /\ \A d \in Calls : Active(d) /\ SameKey(c, d) /\ arrived[d] < arrived[c] =>
         arrived[d] <= arrived[previous[c]]

ChainInv ==
  /\ \A c \in Calls : Came(c) => arrived[c] < clock
  /\ \A c, d \in Calls : Came(c) /\ Came(d) /\ c # d => arrived[c] # arrived[d]
  /\ \A k \in Keys : tails[k] = Nobody => \A c \in Calls : Active(c) => key[c] # k
  /\ \A k \in Keys : TailInv(k)
  /\ \A c \in Calls : Came(c) /\ previous[c] = Nobody =>
       \A d \in Calls : Active(d) /\ SameKey(c, d) /\ d # c => arrived[c] < arrived[d]
  /\ \A c \in Calls : PreviousInv(c)
  /\ \A c \in settled : stage[c] = "gone" /\ PastIsOver(c)
  /\ \A c \in Calls : stage[c] = "inside" => PreviousSettled(c)

FifoInv == MutexTypeOK /\ ChainInv

-----------------------------------------------------------------------------
\* Whoever may go, or has gone, behind a settled promise has nobody before it.
LEMMA NobodyBefore ==
  ASSUME FifoInv, NEW c \in Calls, Came(c), PreviousSettled(c),
         NEW d \in Calls, Active(d), SameKey(c, d), d # c
  PROVE  arrived[c] < arrived[d]
<1>. USE DEF FifoInv
<1>1. arrived[c] \in Nat /\ arrived[d] \in Nat /\ arrived[c] # arrived[d]
  BY DEF MutexTypeOK, ChainInv, Active, Came
<1>2. CASE previous[c] = Nobody
  BY <1>2 DEF ChainInv
<1>3. CASE previous[c] # Nobody
  <2>. DEFINE p == previous[c]
  <2>1. p \in Calls /\ p \in settled /\ SameKey(c, p) /\ arrived[p] \in Nat
    BY <1>3 DEF PreviousSettled, MutexTypeOK, ChainInv, PreviousInv
  <2>2. arrived[p] < arrived[d]
    BY <2>1 DEF ChainInv, PastIsOver, SameKey
  <2>3. arrived[d] < arrived[c] => arrived[d] <= arrived[p]
    BY <1>3 DEF ChainInv, PreviousInv
  <2>. QED  BY <1>1, <2>1, <2>2, <2>3
<1>. QED  BY <1>2, <1>3

LEMMA FifoInit == MutexInit => FifoInv
<1>. SUFFICES ASSUME MutexInit PROVE FifoInv
  OBVIOUS
<1>1. \A c \in Calls : ~Came(c) /\ ~Active(c) /\ stage[c] = "new"
  BY DEF MutexInit, Came, Active
<1>2. MutexTypeOK
  BY DEF MutexInit, MutexTypeOK
<1>3. ChainInv
  BY <1>1 DEF MutexInit, ChainInv, TailInv, PreviousInv, PastIsOver
<1>. QED  BY <1>2, <1>3 DEF FifoInv

LEMMA ArriveStep ==
  ASSUME FifoInv, NEW c \in Calls, Arrive(c)
  PROVE  FifoInv'
<1>. USE DEF FifoInv
<1>. DEFINE k == key[c]
<1>1. MutexTypeOK'
  BY DEF Arrive, MutexTypeOK
<1>2. /\ k \in Keys /\ ~Came(c) /\ ~Active(c)
      /\ key' = key /\ settled' = settled /\ clock' = clock + 1
      /\ stage'[c] = "waiting" /\ arrived'[c] = clock /\ previous'[c] = tails[k] /\ tails'[k] = c
      /\ \A d \in Calls \ {c} : stage'[d] = stage[d] /\ arrived'[d] = arrived[d] /\ previous'[d] = previous[d]
      /\ \A l \in Keys \ {k} : tails'[l] = tails[l]
  BY DEF Arrive, MutexTypeOK, Came, Active
<1>3. /\ \A d \in Calls \ {c} : (Came(d)' <=> Came(d)) /\ (Active(d)' <=> Active(d))
      /\ Came(c)' /\ Active(c)'
      /\ \A d, e \in Calls : SameKey(d, e)' <=> SameKey(d, e)
  BY <1>2 DEF Came, Active, SameKey
<1>4. /\ clock \in Nat /\ arrived \in [Calls -> Nat] /\ key \in [Calls -> Keys]
      /\ tails \in [Keys -> Calls \cup {Nobody}] /\ previous \in [Calls -> Calls \cup {Nobody}]
      /\ settled \subseteq Calls
  BY DEF MutexTypeOK
<1>5. \A d \in Calls : Active(d) => Came(d)
  BY DEF Active, Came
<1>6. \A d \in Calls \ {c} : Came(d)' => arrived'[d] < clock /\ arrived'[d] \in Nat
  BY <1>2, <1>3, <1>4 DEF ChainInv
<1>7. \A d, e \in Calls : Came(d)' /\ Came(e)' /\ d # e => arrived'[d] # arrived'[e]
  BY <1>2, <1>3, <1>4, <1>6 DEF ChainInv
<1>8. \A l \in Keys : tails'[l] = Nobody => \A d \in Calls : Active(d)' => key'[d] # l
  BY <1>2, <1>3, NobodyAssumption DEF ChainInv
<1>9. \A l \in Keys : TailInv(l)'
  <2>. SUFFICES ASSUME NEW l \in Keys PROVE TailInv(l)'
    OBVIOUS
  <2>1. CASE l = k
    <3>1. tails'[l] = c /\ key'[c] = l /\ Active(c)' /\ arrived'[c] = clock
      BY <1>2, <1>3, <2>1
    <3>2. \A d \in Calls : Came(d)' => arrived'[d] <= clock
      BY <1>2, <1>4, <1>6
    <3>. QED  BY <3>1, <3>2 DEF TailInv
  <2>2. CASE l # k /\ tails[l] # Nobody
    <3>1. PICK t \in Calls : t = tails[l]
      BY <1>4, <2>2
    <3>2. key[t] = l /\ Active(t) /\ \A d \in Calls : Came(d) /\ key[d] = l => arrived[d] <= arrived[t]
      BY <2>2, <3>1 DEF ChainInv, TailInv
    <3>3. t # c /\ tails'[l] = t
      BY <1>2, <2>2, <3>1, <3>2
    <3>4. key'[t] = l /\ Active(t)' /\ \A d \in Calls : Came(d)' /\ key'[d] = l => arrived'[d] <= arrived'[t]
      BY <1>2, <1>3, <2>2, <3>2, <3>3
    <3>. QED  BY <3>3, <3>4 DEF TailInv
  <2>3. CASE l # k /\ tails[l] = Nobody
    BY <1>2, <2>3 DEF TailInv
  <2>. QED  BY <2>1, <2>2, <2>3
<1>10. \A d \in Calls : Came(d)' /\ previous'[d] = Nobody =>
         \A e \in Calls : Active(e)' /\ SameKey(d, e)' /\ e # d => arrived'[d] < arrived'[e]
  <2>. SUFFICES ASSUME NEW d \in Calls, Came(d)', previous'[d] = Nobody,
                       NEW e \in Calls, Active(e)', SameKey(d, e)', e # d
                PROVE  arrived'[d] < arrived'[e]
    OBVIOUS
  <2>1. CASE d = c
    BY <1>2, <1>3, <2>1 DEF ChainInv, SameKey
  <2>2. CASE d # c /\ e = c
    BY <1>2, <1>6, <2>2
  <2>3. CASE d # c /\ e # c
    BY <1>2, <1>3, <2>3 DEF ChainInv
  <2>. QED  BY <2>1, <2>2, <2>3
<1>11. \A d \in Calls : PreviousInv(d)'
  <2>. SUFFICES ASSUME NEW d \in Calls, Came(d)', previous'[d] # Nobody PROVE PreviousInv(d)'
    BY DEF PreviousInv
  <2>1. CASE d = c
    <3>1. PICK p \in Calls : p = tails[k]
      BY <1>2, <1>4, <2>1
    <3>2. /\ key[p] = k /\ Active(p)
          /\ \A e \in Calls : Came(e) /\ key[e] = k => arrived[e] <= arrived[p]
      BY <1>2, <2>1, <3>1 DEF ChainInv, TailInv
    <3>3. p # c /\ previous'[d] = p /\ Came(p)' /\ SameKey(d, p)'
      BY <1>2, <1>3, <1>5, <2>1, <3>1, <3>2 DEF SameKey
    <3>4. ASSUME NEW e \in Calls, Active(e)', SameKey(d, e)', arrived'[e] < arrived'[d]
          PROVE  arrived'[e] <= arrived'[p]
      <4>1. e # c
        BY <1>2, <1>4, <2>1, <3>4
      <4>2. Came(e) /\ key[e] = k
        BY <1>2, <1>3, <1>5, <2>1, <3>4, <4>1 DEF SameKey
      <4>. QED  BY <1>2, <3>2, <3>3, <4>1, <4>2
    <3>. QED  BY <3>3, <3>4 DEF PreviousInv
  <2>2. CASE d # c
    <3>1. PICK p \in Calls : p = previous[d]
      BY <1>2, <1>4, <2>2
    <3>2. /\ Came(p) /\ SameKey(d, p) /\ p # c /\ previous'[d] = p
          /\ \A e \in Calls : Active(e) /\ SameKey(d, e) /\ arrived[e] < arrived[d] => arrived[e] <= arrived[p]
      BY <1>2, <1>3, <2>2, <3>1 DEF ChainInv, PreviousInv
    <3>3. ASSUME NEW e \in Calls, Active(e)', SameKey(d, e)', arrived'[e] < arrived'[d]
          PROVE  arrived'[e] <= arrived'[p]
      <4>1. e # c
        BY <1>2, <1>4, <1>6, <2>2, <3>3
      <4>2. Active(e) /\ SameKey(d, e) /\ arrived[e] < arrived[d]
        BY <1>2, <1>3, <2>2, <3>3, <4>1
      <4>. QED  BY <1>2, <3>2, <4>1, <4>2
    <3>4. Came(p)' /\ SameKey(d, p)'
      BY <1>3, <3>2
    <3>. QED  BY <3>2, <3>3, <3>4 DEF PreviousInv
  <2>. QED  BY <2>1, <2>2
<1>12. \A d \in settled' : stage'[d] = "gone" /\ PastIsOver(d)'
  <2>. SUFFICES ASSUME NEW d \in settled PROVE stage'[d] = "gone" /\ PastIsOver(d)'
    BY <1>2
  <2>1. d \in Calls \ {c} /\ Came(d) /\ stage[d] = "gone" /\ PastIsOver(d)
    BY <1>2, <1>4 DEF ChainInv, Came
  <2>. QED  BY <1>2, <1>3, <1>6, <2>1 DEF PastIsOver
<1>13. \A d \in Calls : stage'[d] = "inside" => PreviousSettled(d)'
  BY <1>2 DEF ChainInv, PreviousSettled
<1>14. \A d \in Calls : Came(d)' => arrived'[d] < clock'
  BY <1>2, <1>4, <1>6
<1>. QED  BY <1>1, <1>7, <1>8, <1>9, <1>10, <1>11, <1>12, <1>13, <1>14 DEF ChainInv

LEMMA EnterStep ==
  ASSUME FifoInv, NEW c \in Calls, Enter(c)
  PROVE  FifoInv'
<1>. USE DEF FifoInv
<1>1. MutexTypeOK'
  BY DEF Enter, MutexTypeOK
<1>2. /\ \A d \in Calls : (Came(d)' <=> Came(d)) /\ (Active(d)' <=> Active(d))
      /\ \A d, e \in Calls : SameKey(d, e)' <=> SameKey(d, e)
      /\ \A d \in Calls : (stage'[d] = "gone" <=> stage[d] = "gone") /\ (PastIsOver(d)' <=> PastIsOver(d))
      /\ \A d \in Calls : PreviousSettled(d)' <=> PreviousSettled(d)
      /\ \A d \in Calls : stage'[d] = "inside" => PreviousSettled(d)
  BY DEF Enter, MutexTypeOK, Came, Active, SameKey, PastIsOver, PreviousSettled, ChainInv
<1>3. UNCHANGED <<key, previous, tails, settled, arrived, clock>>
      /\ tails \in [Keys -> Calls \cup {Nobody}] /\ previous \in [Calls -> Calls \cup {Nobody}]
      /\ settled \subseteq Calls
  BY DEF Enter, MutexTypeOK
<1>4. ChainInv'
  <2>1. (\A k \in Keys : TailInv(k)') /\ \A d \in Calls : PreviousInv(d)'
    BY <1>2, <1>3 DEF ChainInv, TailInv, PreviousInv, Enter, Came, Active, SameKey
  <2>. QED  BY <1>2, <1>3, <2>1 DEF ChainInv
<1>. QED  BY <1>1, <1>4

LEMMA LeaveStep ==
  ASSUME FifoInv, NEW c \in Calls, Leave(c)
  PROVE  FifoInv'
<1>. USE DEF FifoInv
<1>1. MutexTypeOK'
  BY DEF Leave, MutexTypeOK
<1>2. /\ \A d \in Calls : Came(d)' <=> Came(d)
      /\ \A d \in Calls : Active(d)' <=> Active(d) /\ d # c
      /\ \A d, e \in Calls : SameKey(d, e)' <=> SameKey(d, e)
      /\ \A d \in Calls : PreviousSettled(d)' <=> PreviousSettled(d)
      /\ \A d \in Calls : stage'[d] = "inside" => stage[d] = "inside"
      /\ \A d \in Calls : stage[d] = "gone" => stage'[d] = "gone"
  BY DEF Leave, MutexTypeOK, Came, Active, SameKey, PreviousSettled
<1>3. /\ UNCHANGED <<key, previous, settled, arrived, clock>>
      /\ tails \in [Keys -> Calls \cup {Nobody}] /\ previous \in [Calls -> Calls \cup {Nobody}]
      /\ settled \subseteq Calls /\ key \in [Calls -> Keys]
      /\ \A k \in Keys : tails[k] # c => tails'[k] = tails[k]
      /\ \A k \in Keys : tails[k] = c /\ key[c] = k => tails'[k] = Nobody
  BY DEF Leave, MutexTypeOK
<1>4. \A k \in Keys : tails'[k] = Nobody => \A d \in Calls : Active(d)' => key'[d] # k
  <2>. SUFFICES ASSUME NEW k \in Keys, tails'[k] = Nobody, NEW d \in Calls, Active(d)', key[d] = k
                PROVE  FALSE
    BY <1>3
  <2>1. CASE tails[k] = Nobody
    BY <1>2, <2>1 DEF ChainInv
  <2>2. CASE tails[k] # Nobody
    <3>1. tails[k] = c /\ key[c] = k
      BY <1>3, <2>2 DEF ChainInv, TailInv
    <3>2. Came(d) /\ Came(c) /\ PreviousSettled(c) /\ Active(d) /\ d # c /\ SameKey(c, d)
      BY <1>2, <3>1 DEF Leave, ChainInv, Came, Active, SameKey
    <3>3. arrived[d] <= arrived[c] /\ arrived[c] \in Nat /\ arrived[d] \in Nat
      BY <2>2, <3>1, <3>2 DEF ChainInv, TailInv, MutexTypeOK
    <3>. QED  BY <3>2, <3>3, NobodyBefore
  <2>. QED  BY <2>1, <2>2
<1>5. \A k \in Keys : TailInv(k)'
  <2>. SUFFICES ASSUME NEW k \in Keys, tails'[k] # Nobody PROVE TailInv(k)'
    BY DEF TailInv
  <2>1. tails[k] # Nobody
    BY <1>3, NobodyAssumption
  <2>2. PICK t \in Calls : t = tails[k]
    BY <1>3, <2>1
  <2>3. key[t] = k /\ Active(t) /\ \A d \in Calls : Came(d) /\ key[d] = k => arrived[d] <= arrived[t]
    BY <2>1, <2>2 DEF ChainInv, TailInv
  <2>4. t # c /\ tails'[k] = t
    BY <1>3, <2>2, <2>3
  <2>5. key'[t] = k /\ Active(t)' /\ \A d \in Calls : Came(d)' /\ key'[d] = k => arrived'[d] <= arrived'[t]
    BY <1>2, <1>3, <2>3, <2>4
  <2>. QED  BY <2>4, <2>5 DEF TailInv
<1>6. \A d \in settled' : stage'[d] = "gone" /\ PastIsOver(d)'
  BY <1>2, <1>3 DEF ChainInv, PastIsOver
<1>7. \A d \in Calls : PreviousInv(d)'
  <2>. SUFFICES ASSUME NEW d \in Calls PROVE PreviousInv(d)'
    OBVIOUS
  <2>1. PreviousInv(d) /\ previous'[d] = previous[d] /\ arrived' = arrived
        /\ (previous[d] # Nobody => previous[d] \in Calls)
    BY <1>3 DEF ChainInv
  <2>. QED  BY <1>2, <2>1 DEF PreviousInv, Came, SameKey, Leave, Active
<1>8. ChainInv'
  BY <1>2, <1>3, <1>4, <1>5, <1>6, <1>7 DEF ChainInv
<1>. QED  BY <1>1, <1>8

LEMMA SettleStep ==
  ASSUME FifoInv, NEW c \in Calls, Settle(c)
  PROVE  FifoInv'
<1>. USE DEF FifoInv
<1>1. MutexTypeOK'
  BY DEF Settle, MutexTypeOK
<1>2. /\ UNCHANGED <<key, stage, previous, tails, arrived, clock>>
      /\ settled' = settled \cup {c} /\ stage[c] = "gone" /\ PreviousSettled(c) /\ settled \subseteq Calls
  BY DEF Settle, MutexTypeOK
<1>3. /\ \A d \in Calls : (Came(d)' <=> Came(d)) /\ (Active(d)' <=> Active(d)) /\ (PastIsOver(d)' <=> PastIsOver(d))
      /\ \A d, e \in Calls : SameKey(d, e)' <=> SameKey(d, e)
      /\ \A d \in Calls : PreviousSettled(d) => PreviousSettled(d)'
  BY <1>2 DEF Came, Active, SameKey, PastIsOver, PreviousSettled
<1>4. PastIsOver(c)
  <2>1. Came(c) /\ ~Active(c)
    BY <1>2 DEF Came, Active
  <2>. QED  BY <1>2, <2>1, NobodyBefore DEF PastIsOver
<1>5. tails \in [Keys -> Calls \cup {Nobody}] /\ previous \in [Calls -> Calls \cup {Nobody}]
  BY DEF MutexTypeOK
<1>6. ChainInv'
  <2>1. (\A k \in Keys : TailInv(k)') /\ \A d \in Calls : PreviousInv(d)'
    BY <1>2 DEF ChainInv, TailInv, PreviousInv, Came, Active, SameKey
  <2>. QED  BY <1>2, <1>3, <1>4, <1>5, <2>1 DEF ChainInv
<1>. QED  BY <1>1, <1>6

LEMMA FifoStep == FifoInv /\ [MutexNext]_mutexVars => FifoInv'
<1>. SUFFICES ASSUME FifoInv, [MutexNext]_mutexVars PROVE FifoInv'
  OBVIOUS
<1>1. CASE MutexNext
  BY <1>1, ArriveStep, EnterStep, LeaveStep, SettleStep DEF MutexNext
<1>2. CASE UNCHANGED mutexVars
  BY <1>2 DEF mutexVars, FifoInv, MutexTypeOK, ChainInv, TailInv, PreviousInv, Came, Active, SameKey, PastIsOver, PreviousSettled
<1>. QED  BY <1>1, <1>2

\* runExclusive lets one call per key in at a time, in the order they came.
THEOREM MutexIsFifo == MutexSpec => []FirstComeFirstServed
<1>1. MutexInit => FifoInv
  BY FifoInit
<1>2. FifoInv /\ [MutexNext]_mutexVars => FifoInv'
  BY FifoStep
<1>3. FifoInv => FirstComeFirstServed
  <2>1. FifoInv => \A c \in Calls : stage[c] = "inside" => PreviousSettled(c) /\ Came(c)
    BY DEF FifoInv, ChainInv, Came
  <2>. QED  BY <2>1, NobodyBefore DEF FirstComeFirstServed
<1>. QED  BY <1>1, <1>2, <1>3, PTL DEF MutexSpec

\* The map has an entry for a key exactly while a call for it is active.
THEOREM MapIsClean == MutexSpec => []LockedWhileUsed
<1>1. MutexInit => FifoInv
  BY FifoInit
<1>2. FifoInv /\ [MutexNext]_mutexVars => FifoInv'
  BY FifoStep
<1>3. FifoInv => LockedWhileUsed
  BY DEF FifoInv, ChainInv, TailInv, MutexTypeOK, LockedWhileUsed
<1>. QED  BY <1>1, <1>2, <1>3, PTL DEF MutexSpec

\* Calls are served in turn and the map holds the keys in use (KeyedMutex.MutexSafe).
THEOREM MutexIsSafe == MutexSpec => []MutexSafe
<1>1. FirstComeFirstServed /\ LockedWhileUsed => MutexSafe
  BY DEF MutexSafe
<1>. QED  BY <1>1, MutexIsFifo, MapIsClean, PTL

-----------------------------------------------------------------------------
(***************************************************************************)
(* The chain of promises is a FifoLock: every step of it is a step of the  *)
(* lock or a stutter.  The line of the lock are the active calls, numbered *)
(* by their arrival; the lemmas say of any finite set numbered in this way *)
(* that who comes last is appended and who came first is the head.  That   *)
(* the numbers leave no gap is an invariant of the calls (RanksInv), since *)
(* it would take an induction to say it of all finite sets.                *)
(***************************************************************************)
Below(S, f, a) == {b \in S : f[b] < f[a]}
Rank(S, f, a) == Cardinality(Below(S, f, a)) + 1
Lined(S, f) == [i \in 1..Cardinality(S) |-> CHOOSE a \in S : Cardinality(Below(S, f, a)) = i - 1]

Numbers(S, f) ==
  /\ IsFiniteSet(S)
  /\ \A a \in S : f[a] \in Nat
  /\ \A a, b \in S : a # b => f[a] # f[b]

NoGap(S, f) == \A i \in 1..Cardinality(S) : \E a \in S : Rank(S, f, a) = i

LEMMA RankIsAPlace ==
  ASSUME NEW S, NEW f, Numbers(S, f), NEW a \in S
  PROVE  Rank(S, f, a) \in 1..Cardinality(S) /\ Cardinality(Below(S, f, a)) \in Nat
<1>1. IsFiniteSet(S) /\ IsFiniteSet(S \ {a}) /\ Cardinality(S \ {a}) = Cardinality(S) - 1
  BY FS_RemoveElement DEF Numbers
<1>2. Below(S, f, a) \subseteq S \ {a}
  BY DEF Below, Numbers
<1>3. IsFiniteSet(Below(S, f, a)) /\ Cardinality(Below(S, f, a)) <= Cardinality(S \ {a})
  BY <1>1, <1>2, FS_Subset
<1>4. Cardinality(S) \in Nat /\ Cardinality(Below(S, f, a)) \in Nat
  BY <1>1, <1>3, FS_CardinalityType
<1>. QED  BY <1>1, <1>3, <1>4 DEF Rank

LEMMA RankGrows ==
  ASSUME NEW S, NEW f, Numbers(S, f), NEW a \in S, NEW b \in S, f[a] < f[b]
  PROVE  Rank(S, f, a) < Rank(S, f, b)
<1>1. IsFiniteSet(Below(S, f, b)) /\ IsFiniteSet(Below(S, f, a))
  <2>1. Below(S, f, b) \subseteq S /\ Below(S, f, a) \subseteq S
    BY DEF Below
  <2>. QED  BY <2>1, FS_Subset DEF Numbers
<1>2. f[a] \in Nat /\ f[b] \in Nat /\ \A c \in S : f[c] \in Nat
  BY DEF Numbers
<1>3. a \in Below(S, f, b) /\ Below(S, f, a) \subseteq Below(S, f, b) \ {a}
  BY <1>2 DEF Below
<1>4. IsFiniteSet(Below(S, f, b) \ {a}) /\ Cardinality(Below(S, f, b) \ {a}) = Cardinality(Below(S, f, b)) - 1
  BY <1>1, <1>3, FS_RemoveElement
<1>5. Cardinality(Below(S, f, a)) <= Cardinality(Below(S, f, b) \ {a})
  BY <1>3, <1>4, FS_Subset
<1>6. Cardinality(Below(S, f, a)) \in Nat /\ Cardinality(Below(S, f, b)) \in Nat
  BY <1>1, FS_CardinalityType
<1>. QED  BY <1>4, <1>5, <1>6 DEF Rank

LEMMA RanksDiffer ==
  ASSUME NEW S, NEW f, Numbers(S, f), NEW a \in S, NEW b \in S, Rank(S, f, a) = Rank(S, f, b)
  PROVE  a = b
<1>1. f[a] \in Nat /\ f[b] \in Nat /\ (a # b => f[a] # f[b])
  BY DEF Numbers
<1>2. f[a] < f[b] => Rank(S, f, a) < Rank(S, f, b)
  BY RankGrows
<1>3. f[b] < f[a] => Rank(S, f, b) < Rank(S, f, a)
  BY RankGrows
<1>4. Rank(S, f, a) \in Int /\ Rank(S, f, b) \in Int
  BY RankIsAPlace
<1>. QED  BY <1>1, <1>2, <1>3, <1>4

\* Everybody stands where its rank says.
LEMMA StandsAtItsRank ==
  ASSUME NEW S, NEW f, Numbers(S, f), NEW a \in S
  PROVE  Lined(S, f)[Rank(S, f, a)] = a
<1>. DEFINE i == Rank(S, f, a)
            chosen == CHOOSE b \in S : Cardinality(Below(S, f, b)) = i - 1
<1>1. i \in 1..Cardinality(S)
  BY RankIsAPlace
<1>2. Cardinality(Below(S, f, a)) = i - 1
  BY RankIsAPlace DEF Rank
<1>3. chosen \in S /\ Cardinality(Below(S, f, chosen)) = i - 1
  BY <1>2
<1>4. Rank(S, f, chosen) = i
  <2>1. Rank(S, f, chosen) = (i - 1) + 1
    BY <1>3 DEF Rank
  <2>. QED  BY <1>1, <2>1
<1>5. chosen = a
  BY <1>3, <1>4, RanksDiffer
<1>6. Lined(S, f)[i] = chosen
  BY <1>1 DEF Lined
<1>. QED  BY <1>5, <1>6

LEMMA LinedIs ==
  ASSUME NEW S, NEW f, Numbers(S, f), NoGap(S, f)
  PROVE  /\ Lined(S, f) \in Seq(S) /\ Len(Lined(S, f)) = Cardinality(S) /\ Cardinality(S) \in Nat
         /\ \A i \in 1..Cardinality(S) : Lined(S, f)[i] \in S /\ Rank(S, f, Lined(S, f)[i]) = i
<1>1. Cardinality(S) \in Nat
  BY FS_CardinalityType DEF Numbers
<1>2. \A i \in 1..Cardinality(S) : Lined(S, f)[i] \in S /\ Rank(S, f, Lined(S, f)[i]) = i
  BY StandsAtItsRank DEF NoGap
<1>3. Lined(S, f) = [i \in 1..Cardinality(S) |-> Lined(S, f)[i]]
  BY DEF Lined
<1>4. Lined(S, f) \in [1..Cardinality(S) -> S]
  BY <1>2, <1>3
<1>. QED  BY <1>1, <1>2, <1>4

\* A sequence is the line if everybody stands in it at its rank.
LEMMA OnlyOneLine ==
  ASSUME NEW S, NEW f, Numbers(S, f), NEW U, NEW s \in Seq(U), Len(s) = Cardinality(S),
         \A i \in 1..Len(s) : s[i] \in S /\ Rank(S, f, s[i]) = i
  PROVE  NoGap(S, f) /\ Lined(S, f) = s
<1>1. NoGap(S, f)
  BY DEF NoGap
<1>2. \A i \in 1..Len(s) : Lined(S, f)[i] = s[i]
  BY StandsAtItsRank
<1>3. Lined(S, f) \in Seq(S) /\ Len(Lined(S, f)) = Len(s)
  BY <1>1, LinedIs
<1>. QED  BY <1>1, <1>2, <1>3

\* c is numbered after everybody in S, and nobody's number changes.
Follows(c, S, f, g) == c \notin S /\ g[c] \in Nat /\ \A a \in S : g[a] = f[a] /\ f[a] < g[c]

LEMMA JoinsLast ==
  ASSUME NEW S, NEW f, NEW g, NEW c, Numbers(S, f), NoGap(S, f), Follows(c, S, f, g),
         NEW T, T = S \cup {c}
  PROVE  IsFiniteSet(T) /\ NoGap(T, g) /\ Lined(T, g) = Append(Lined(S, f), c)
<1>. DEFINE n == Cardinality(S)
            s == Append(Lined(S, f), c)
<1>. USE DEF Follows
<1>1. IsFiniteSet(T) /\ Cardinality(T) = n + 1 /\ n \in Nat
  BY FS_AddElement, FS_CardinalityType DEF Numbers
<1>2. \A a \in S : f[a] \in Nat
  BY DEF Numbers
<1>3. Numbers(T, g)
  BY <1>1, <1>2 DEF Numbers
<1>4. \A a \in S : Below(T, g, a) = Below(S, f, a)
  BY <1>2 DEF Below
<1>5. Below(T, g, c) = S
  BY <1>2 DEF Below
<1>6. \A a \in S : Rank(T, g, a) = Rank(S, f, a)
  BY <1>4 DEF Rank
<1>7. Rank(T, g, c) = n + 1
  BY <1>5 DEF Rank
<1>. HIDE DEF Follows
<1>8. /\ Lined(S, f) \in Seq(S) /\ Len(Lined(S, f)) = n
      /\ \A i \in 1..n : Lined(S, f)[i] \in S /\ Rank(S, f, Lined(S, f)[i]) = i
  BY LinedIs
<1>9. s \in Seq(T) /\ Len(s) = n + 1 /\ s[n + 1] = c /\ \A i \in 1..n : s[i] = Lined(S, f)[i]
  <2>1. Lined(S, f) \in Seq(T) /\ c \in T
    BY <1>8
  <2>. QED  BY <1>1, <1>8, <2>1
<1>. HIDE DEF s, n
<1>10. \A i \in 1..Len(s) : s[i] \in T /\ Rank(T, g, s[i]) = i
  <2>. SUFFICES ASSUME NEW i \in 1..(n + 1) PROVE s[i] \in T /\ Rank(T, g, s[i]) = i
    BY <1>9
  <2>1. i \in 1..n \/ i = n + 1
    BY <1>1
  <2>. QED  BY <1>6, <1>7, <1>8, <1>9, <2>1
<1>11. NoGap(T, g) /\ Lined(T, g) = s
  BY <1>1, <1>3, <1>9, <1>10, OnlyOneLine
<1>. QED  BY <1>1, <1>11 DEF s

LEMMA HeadLeaves ==
  ASSUME NEW S, NEW f, NEW c \in S, Numbers(S, f), NoGap(S, f), \A a \in S \ {c} : f[c] < f[a]
  PROVE  /\ Lined(S, f) # <<>> /\ Head(Lined(S, f)) = c
         /\ IsFiniteSet(S \ {c}) /\ NoGap(S \ {c}, f)
         /\ Lined(S \ {c}, f) = Tail(Lined(S, f))
<1>. DEFINE T == S \ {c}
            n == Cardinality(S)
            s == Lined(S, f)
<1>1. IsFiniteSet(T) /\ Cardinality(T) = n - 1 /\ n \in Nat
  BY FS_RemoveElement, FS_CardinalityType DEF Numbers
<1>2. \A a \in S : f[a] \in Nat
  BY DEF Numbers
<1>3. Numbers(T, f)
  BY <1>1, <1>2 DEF Numbers
<1>4. Below(S, f, c) = {}
  BY <1>2 DEF Below
<1>5. Rank(S, f, c) = 1
  BY <1>4, FS_EmptySet DEF Rank
<1>6. /\ s \in Seq(S) /\ Len(s) = n
      /\ \A i \in 1..n : s[i] \in S /\ Rank(S, f, s[i]) = i
  BY LinedIs
<1>7. 1 \in 1..n
  BY <1>5, RankIsAPlace
<1>8. s[1] = c
  BY <1>5, <1>6, <1>7, RanksDiffer
<1>9. ASSUME NEW a \in T PROVE Rank(T, f, a) = Rank(S, f, a) - 1
  <2>1. Below(T, f, a) = Below(S, f, a) \ {c} /\ c \in Below(S, f, a) /\ Below(S, f, a) \subseteq S
    BY <1>9 DEF Below
  <2>2. IsFiniteSet(Below(S, f, a))
    BY <2>1, FS_Subset DEF Numbers
  <2>3. Cardinality(Below(T, f, a)) = Cardinality(Below(S, f, a)) - 1
    BY <2>1, <2>2, FS_RemoveElement
  <2>4. Cardinality(Below(S, f, a)) \in Nat
    BY <2>2, FS_CardinalityType
  <2>. QED  BY <2>3, <2>4 DEF Rank
<1>. HIDE DEF T, s, n
<1>10. s # <<>> /\ Head(s) = c /\ Len(Tail(s)) = n - 1 /\ \A i \in 1..(n - 1) : Tail(s)[i] = s[i + 1]
  BY <1>1, <1>6, <1>7, <1>8
<1>11. \A i \in 1..(n - 1) : s[i + 1] \in T /\ Rank(T, f, s[i + 1]) = i
  <2>. SUFFICES ASSUME NEW i \in 1..(n - 1) PROVE s[i + 1] \in T /\ Rank(T, f, s[i + 1]) = i
    OBVIOUS
  <2>1. i + 1 \in 1..n /\ i + 1 # 1 /\ (i + 1) - 1 = i
    BY <1>1
  <2>2. s[i + 1] \in S /\ Rank(S, f, s[i + 1]) = i + 1
    BY <1>6, <2>1
  <2>3. s[i + 1] \in T
    BY <1>5, <2>1, <2>2 DEF T
  <2>. QED  BY <1>9, <2>1, <2>2, <2>3
<1>12. Tail(s) \in Seq(S)
  BY <1>6, <1>10
<1>13. NoGap(T, f) /\ Lined(T, f) = Tail(s)
  <2>1. /\ Len(Tail(s)) = Cardinality(T)
        /\ \A i \in 1..Len(Tail(s)) : Tail(s)[i] \in T /\ Rank(T, f, Tail(s)[i]) = i
    BY <1>1, <1>10, <1>11
  <2>. QED  BY <1>3, <1>12, <2>1, OnlyOneLine
<1>. QED  BY <1>1, <1>10, <1>13 DEF T, s

-----------------------------------------------------------------------------
(* The calls of a key.                                                     *)

Waiters(k) == {c \in Calls : key[c] = k /\ Active(c)}
RanksInv == \A k \in Keys : IsFiniteSet(Waiters(k)) /\ NoGap(Waiters(k), arrived)
LockInv == FifoInv /\ RanksInv

LEMMA LineOfIs ==
  ASSUME NEW k
  PROVE  LineOf(k) = Lined(Waiters(k), arrived)
  BY DEF LineOf, Lined, Below, Waiters

LEMMA LineOfNextIs ==
  ASSUME NEW k
  PROVE  LineOf(k)' = Lined(Waiters(k)', arrived')
<1>1. LineOf(k)' = Lined(Waiters(k), arrived)'
  BY DEF LineOf, Lined, Below, Waiters
<1>. QED  BY <1>1 DEF Lined, Below

LEMMA WaitersAreNumbered ==
  ASSUME LockInv, NEW k \in Keys
  PROVE  /\ Numbers(Waiters(k), arrived) /\ NoGap(Waiters(k), arrived)
         /\ LineOf(k) = Lined(Waiters(k), arrived)
<1>1. \A c \in Calls : Active(c) => Came(c)
  BY DEF Active, Came
<1>2. Numbers(Waiters(k), arrived)
  BY <1>1 DEF Numbers, Waiters, LockInv, RanksInv, FifoInv, MutexTypeOK, ChainInv
<1>. QED  BY <1>2, LineOfIs DEF LockInv, RanksInv

\* Who stands in a line is active and has the key of it.
LEMMA WhoStands ==
  ASSUME LockInv, NEW k \in Keys
  PROVE  LineOf(k) \in Seq(Waiters(k)) /\ \A i \in 1..Len(LineOf(k)) : LineOf(k)[i] \in Waiters(k)
  BY WaitersAreNumbered, LinedIs

\* Whoever may go is the head of its line.
LEMMA HeadGoes ==
  ASSUME LockInv, NEW c \in Calls, Active(c), PreviousSettled(c), NEW k \in Keys, key[c] = k
  PROVE  /\ LineOf(k) # <<>> /\ Head(LineOf(k)) = c
         /\ IsFiniteSet(Waiters(k) \ {c}) /\ NoGap(Waiters(k) \ {c}, arrived)
         /\ Lined(Waiters(k) \ {c}, arrived) = Tail(LineOf(k))
<1>1. c \in Waiters(k) /\ Came(c)
  BY DEF Waiters, Active, Came
<1>2. \A d \in Waiters(k) \ {c} : arrived[c] < arrived[d]
  BY <1>1, NobodyBefore DEF LockInv, Waiters, SameKey
<1>3. /\ Numbers(Waiters(k), arrived) /\ NoGap(Waiters(k), arrived)
      /\ LineOf(k) = Lined(Waiters(k), arrived)
  BY <1>1, WaitersAreNumbered
<1>4. ASSUME NEW S, NEW f, S = Waiters(k), f = arrived
      PROVE  /\ Lined(S, f) # <<>> /\ Head(Lined(S, f)) = c
             /\ IsFiniteSet(S \ {c}) /\ NoGap(S \ {c}, f)
             /\ Lined(S \ {c}, f) = Tail(Lined(S, f))
  <2>1. c \in S /\ Numbers(S, f) /\ NoGap(S, f)
    BY <1>1, <1>3, <1>4
  <2>2. \A d \in S \ {c} : f[c] < f[d]
    BY <1>2, <1>4
  <2>. QED  BY <2>1, <2>2, HeadLeaves
<1>. QED  BY <1>3, <1>4

-----------------------------------------------------------------------------
(* Each step of the chain.                                                 *)

LEMMA LinesStay ==
  ASSUME LockInv, key' = key, arrived' = arrived, \A c \in Calls : Active(c)' <=> Active(c)
  PROVE  RanksInv' /\ \A k \in Keys : LineOf(k)' = LineOf(k)
<1>1. \A k \in Keys : Waiters(k)' = Waiters(k)
  BY DEF Waiters
<1>2. RanksInv'
  BY <1>1 DEF LockInv, RanksInv, NoGap, Rank, Below
<1>3. ASSUME NEW k \in Keys PROVE LineOf(k)' = LineOf(k)
  BY <1>1, LineOfIs, LineOfNextIs
<1>. QED  BY <1>2, <1>3

LEMMA ArriveJoins ==
  ASSUME LockInv, NEW c \in Calls, Arrive(c)
  PROVE  RanksInv' /\ Lock!Arrive(c, key[c])
<1>. PICK k \in Keys : k = key[c]
  BY DEF LockInv, FifoInv, MutexTypeOK
<1>1. /\ k \in Keys /\ ~Active(c) /\ Active(c)' /\ key' = key
      /\ arrived'[c] = clock /\ clock \in Nat
      /\ \A d \in Calls \ {c} : (Active(d)' <=> Active(d)) /\ arrived'[d] = arrived[d]
      /\ \A d \in Calls : stage'[d] = "inside" <=> stage[d] = "inside"
  BY DEF Arrive, LockInv, FifoInv, MutexTypeOK, Active
<1>2. /\ Waiters(k)' = Waiters(k) \cup {c} /\ c \notin Waiters(k)
      /\ \A l \in Keys \ {k} : Waiters(l)' = Waiters(l) /\ c \notin Waiters(l)
  BY <1>1 DEF Waiters
<1>3. \A d \in Calls : Active(d) => arrived[d] < clock
  BY DEF LockInv, FifoInv, ChainInv, Active, Came
<1>4. \A l \in Keys : Numbers(Waiters(l), arrived) /\ NoGap(Waiters(l), arrived)
  BY WaitersAreNumbered
<1>5. \A d \in Waiters(k) : arrived'[d] = arrived[d] /\ arrived[d] < arrived'[c]
  BY <1>1, <1>2, <1>3 DEF Waiters
<1>6. /\ IsFiniteSet(Waiters(k)') /\ NoGap(Waiters(k)', arrived')
      /\ Lined(Waiters(k)', arrived') = Append(Lined(Waiters(k), arrived), c)
  <2>1. Numbers(Waiters(k), arrived) /\ NoGap(Waiters(k), arrived) /\ c \notin Waiters(k) /\ arrived'[c] \in Nat
    BY <1>1, <1>2, <1>4
  <2>2. Follows(c, Waiters(k), arrived, arrived')
    BY <1>5, <2>1 DEF Follows
  <2>. QED  BY <1>2, <2>1, <2>2, JoinsLast
<1>7. ASSUME NEW l \in Keys \ {k}
      PROVE  /\ IsFiniteSet(Waiters(l)') /\ NoGap(Waiters(l)', arrived')
             /\ Lined(Waiters(l)', arrived') = Lined(Waiters(l), arrived)
  <2>1. Waiters(l)' = Waiters(l) /\ \A d \in Waiters(l) : arrived'[d] = arrived[d]
    BY <1>1, <1>2 DEF Waiters
  <2>2. \A d \in Waiters(l) : Below(Waiters(l), arrived', d) = Below(Waiters(l), arrived, d)
    BY <2>1 DEF Below
  <2>3. NoGap(Waiters(l), arrived')
    BY <1>4, <2>2 DEF NoGap, Rank
  <2>4. Lined(Waiters(l), arrived') = Lined(Waiters(l), arrived)
    BY <2>2 DEF Lined
  <2>. QED  BY <1>4, <2>1, <2>3, <2>4 DEF Numbers
<1>8. RanksInv'
  <2>1. \A l \in Keys : IsFiniteSet(Waiters(l)') /\ NoGap(Waiters(l)', arrived')
    BY <1>6, <1>7
  <2>. QED  BY <2>1 DEF RanksInv, NoGap, Rank, Below
<1>9. LineOf(k)' = Append(LineOf(k), c) /\ \A l \in Keys \ {k} : LineOf(l)' = LineOf(l)
  <2>1. LineOf(k)' = Append(LineOf(k), c)
    BY <1>6, LineOfIs, LineOfNextIs
  <2>2. ASSUME NEW l \in Keys \ {k} PROVE LineOf(l)' = LineOf(l)
    BY <1>7, LineOfIs, LineOfNextIs
  <2>. QED  BY <2>1, <2>2
<1>10. \A l \in Keys : \A i \in 1..Len(LineOf(l)) : LineOf(l)[i] # c
  BY <1>2, WhoStands
<1>11. {d \in Calls : stage[d] = "inside"}' = {d \in Calls : stage[d] = "inside"}
  BY <1>1
<1>. QED  BY <1>1, <1>8, <1>9, <1>10, <1>11 DEF Lock!Arrive

LEMMA EnterEnters ==
  ASSUME LockInv, NEW c \in Calls, Enter(c)
  PROVE  RanksInv' /\ Lock!Enter(c)
<1>1. /\ Active(c) /\ PreviousSettled(c) /\ stage[c] = "waiting" /\ key[c] \in Keys
      /\ key' = key /\ arrived' = arrived /\ \A d \in Calls : Active(d)' <=> Active(d)
      /\ {d \in Calls : stage[d] = "inside"}' = {d \in Calls : stage[d] = "inside"} \cup {c}
  BY DEF Enter, LockInv, FifoInv, MutexTypeOK, Active
<1>2. RanksInv' /\ \A k \in Keys : LineOf(k)' = LineOf(k)
  BY <1>1, LinesStay
<1>3. LineOf(key[c]) # <<>> /\ Head(LineOf(key[c])) = c
  BY <1>1, HeadGoes
<1>. QED  BY <1>1, <1>2, <1>3 DEF Lock!Enter

LEMMA LeaveLeaves ==
  ASSUME LockInv, NEW c \in Calls, Leave(c)
  PROVE  RanksInv' /\ Lock!Leave(c)
<1>. PICK k \in Keys : k = key[c]
  BY DEF LockInv, FifoInv, MutexTypeOK
<1>1. /\ Active(c) /\ PreviousSettled(c) /\ stage[c] = "inside" /\ k \in Keys
      /\ key' = key /\ arrived' = arrived /\ \A d \in Calls : Active(d)' <=> Active(d) /\ d # c
      /\ {d \in Calls : stage[d] = "inside"}' = {d \in Calls : stage[d] = "inside"} \ {c}
  BY DEF Leave, LockInv, FifoInv, MutexTypeOK, ChainInv, Active
<1>2. Waiters(k)' = Waiters(k) \ {c} /\ \A l \in Keys \ {k} : Waiters(l)' = Waiters(l)
  BY <1>1 DEF Waiters
<1>3. /\ LineOf(k) # <<>> /\ Head(LineOf(k)) = c
      /\ IsFiniteSet(Waiters(k) \ {c}) /\ NoGap(Waiters(k) \ {c}, arrived)
      /\ Lined(Waiters(k) \ {c}, arrived) = Tail(LineOf(k))
  BY <1>1, HeadGoes
<1>4. RanksInv'
  <2>1. \A l \in Keys : IsFiniteSet(Waiters(l)') /\ NoGap(Waiters(l)', arrived)
    BY <1>2, <1>3 DEF LockInv, RanksInv
  <2>. QED  BY <1>1, <2>1 DEF RanksInv, NoGap, Rank, Below
<1>5. LineOf(k)' = Tail(LineOf(k)) /\ \A l \in Keys \ {k} : LineOf(l)' = LineOf(l)
  <2>1. \A l \in Keys : LineOf(l)' = Lined(Waiters(l)', arrived)
    BY <1>1, LineOfNextIs
  <2>2. LineOf(k)' = Tail(LineOf(k))
    BY <1>1, <1>2, <1>3, <2>1
  <2>3. ASSUME NEW l \in Keys \ {k} PROVE LineOf(l)' = LineOf(l)
    BY <1>2, <2>1, LineOfIs
  <2>. QED  BY <2>2, <2>3
<1>. QED  BY <1>1, <1>3, <1>4, <1>5 DEF Lock!Leave

LEMMA LockStep ==
  ASSUME LockInv, [MutexNext]_mutexVars
  PROVE  LockInv' /\ [Lock!Next]_(Lock!lockVars)
<1>1. FifoInv'
  BY FifoStep DEF LockInv
<1>2. ASSUME NEW c \in Calls, Arrive(c) PROVE RanksInv' /\ Lock!Next
  <2>1. key[c] \in Keys
    BY DEF LockInv, FifoInv, MutexTypeOK
  <2>. QED  BY <1>2, <2>1, ArriveJoins DEF Lock!Next
<1>3. ASSUME NEW c \in Calls, Enter(c) PROVE RanksInv' /\ Lock!Next
  BY <1>3, EnterEnters DEF Lock!Next
<1>4. ASSUME NEW c \in Calls, Leave(c) PROVE RanksInv' /\ Lock!Next
  BY <1>4, LeaveLeaves DEF Lock!Next
<1>5. CASE key' = key /\ arrived' = arrived /\ stage' = stage
  <2>1. RanksInv' /\ \A k \in Keys : LineOf(k)' = LineOf(k)
    BY <1>5, LinesStay DEF Active
  <2>2. UNCHANGED Lock!lockVars
    BY <1>5, <2>1 DEF Lock!lockVars
  <2>. QED  BY <1>1, <2>1, <2>2 DEF LockInv
<1>6. (\E c \in Calls : Settle(c)) \/ UNCHANGED mutexVars => key' = key /\ arrived' = arrived /\ stage' = stage
  BY DEF Settle, mutexVars
<1>. QED  BY <1>1, <1>2, <1>3, <1>4, <1>5, <1>6 DEF MutexNext, LockInv

\* runExclusive is the FIFO lock the other modules assume, but for the fairness of it: whoever
\* calls joins the end of its line, and only the head of a line runs and leaves.
THEOREM MutexIsALock == MutexSpec => Lock!InTurn
<1>1. MutexInit => LockInv /\ Lock!Init
  <2>. SUFFICES ASSUME MutexInit PROVE LockInv /\ Lock!Init
    OBVIOUS
  <2>1. \A k \in Keys : Waiters(k) = {}
    BY DEF MutexInit, Waiters, Active
  <2>2. RanksInv
    BY <2>1, FS_EmptySet DEF RanksInv, NoGap
  <2>3. \A k \in Keys : LineOf(k) = <<>>
    <3>1. LockInv
      BY <2>2, FifoInit DEF LockInv
    <3>. QED  BY <2>1, <3>1, FS_EmptySet, WaitersAreNumbered, LinedIs
  <2>. QED  BY <2>2, <2>3, FifoInit DEF LockInv, Lock!Init, MutexInit
<1>2. LockInv /\ [MutexNext]_mutexVars => LockInv' /\ [Lock!Next]_(Lock!lockVars)
  BY LockStep
<1>. QED  BY <1>1, <1>2, PTL DEF MutexSpec, Lock!InTurn

-----------------------------------------------------------------------------
(***************************************************************************)
(* Conversion.  ThreadIsInStep says of each request that its answer will   *)
(* be right; for it to stay so one must know which requests there can be:  *)
(* one of a file at a time, all of the thread there is, each awaited by    *)
(* the caller or let go of, and what the thread has made of it so far      *)
(* (PostInv).                                                              *)
(***************************************************************************)

Post == [kind : RequestKinds, file : Inputs, thread : Threads,
         reply : {"none", "converted", "refused", "broken", "opened", "document", "end", "notOpen", "closed"}]

\* What is pending is on the wire of the thread there is, one request of a file at a time.
WireInv ==
  /\ wire \subseteq Post
  /\ requests = {<<r.kind, r.file>> : r \in wire}
  /\ \A r \in wire : r.thread = thread
  /\ \A r, q \in wire : r.file = q.file => r = q

ThreadsInv ==
  /\ thread \in {0} \cup running /\ running \subseteq Threads /\ idle \in {0} \cup Threads
  /\ open \in [Threads -> SUBSET Inputs]
  /\ stopped \in BOOLEAN /\ (stopped => thread = 0)

BooksInv ==
  /\ sessions \subseteq Inputs /\ unread \subseteq sessions /\ released \subseteq Inputs
  /\ caller.at \in RequestKinds \cup {"idle", "handle", "reading"}
  /\ caller.at # "idle" => caller.file \in Inputs
  /\ caller.at \in RequestKinds => <<caller.at, caller.file>> \in requests
  /\ caller.at \in {"next", "reading", "close"} => caller.file \notin unread \cup released

\* Who waits for a request, and what is open meanwhile.
PostInv(r) ==
  /\ r.kind # "close" => caller.at = r.kind /\ caller.file = r.file
  /\ r.kind = "close" => r.file \in released \/ (caller.at = "close" /\ caller.file = r.file)
  /\ r.file \in sessions => r.kind = "next"
  /\ r.kind = "expand" /\ r.reply = "opened" => r.file \in open[thread]
  /\ r.reply \notin {"none", "opened", "document"} => r.file \notin open[thread]
  /\ r.reply = "opened" => r.kind = "expand"
  /\ r.reply = "document" => r.kind = "next"
  /\ r.reply = "notOpen" => r.kind = "next" /\ r.file \notin sessions

PostsInv == \A r \in wire : PostInv(r)

ConvInv == WireInv /\ ThreadsInv /\ BooksInv /\ PostsInv /\ ThreadIsInStep

-----------------------------------------------------------------------------
\* The caller begins or goes on with a request, or the watchdog of another expansion does.
SentByCaller(kind, f) ==
  /\ caller'.at = kind /\ caller'.file = f
  /\ \A r \in wire : r.kind = "close" /\ r.file \in released'
  /\ kind \in {"next", "close"} => f \notin unread' \cup released'

SentByWatchdog(kind, f) ==
  /\ caller' = caller /\ kind = "close" /\ f \in released' /\ released \subseteq released'
  /\ caller.at \in {"next", "reading", "close"} => caller.file \notin unread' \cup released'

LEMMA SendStep ==
  ASSUME ConvInv, NEW kind \in RequestKinds, NEW f \in Inputs, Send(kind, f), ~stopped, stopped' = stopped,
         \A r \in wire : r.file # f,
         sessions' \subseteq sessions, \A g \in sessions : g \in sessions' \/ (g = f /\ kind = "close"),
         f \in sessions' => kind = "next",
         unread' \subseteq sessions',
         released' \subseteq Inputs, \A g \in released' : g \in released \/ g = f,
         SentByCaller(kind, f) \/ SentByWatchdog(kind, f)
  PROVE  ConvInv'
<1>. USE DEF ConvInv
<1>1. PICK t \in Threads :
        /\ IF thread # 0 THEN t = thread ELSE t \notin running \cup {idle}
        /\ thread' = t /\ running' = running \cup {t}
        /\ open' = IF thread = 0 THEN [open EXCEPT ![t] = {}] ELSE open
        /\ wire' = wire \cup {[kind |-> kind, file |-> f, thread |-> t, reply |-> "none"]}
        /\ requests' = requests \cup {<<kind, f>>}
        /\ idle' = 0
  BY DEF Send
<1>2. PICK n : n = [kind |-> kind, file |-> f, thread |-> t, reply |-> "none"]
  OBVIOUS
<1>3. n \in Post /\ n.kind = kind /\ n.file = f /\ n.thread = t /\ n.reply = "none"
  BY <1>2 DEF Post
<1>4. t # 0 /\ t \in Nat
  BY ThreadsAssumption DEF Threads
<1>5. thread = 0 => wire = {} /\ sessions = {} /\ \A g \in Inputs : g \notin open'[t]
  <2>1. ASSUME thread = 0 PROVE wire = {} /\ sessions = {}
    BY <2>1, ThreadsAssumption DEF WireInv, Post, Threads, ThreadIsInStep, SessionIsOpen
  <2>2. ASSUME thread = 0 PROVE \A g \in Inputs : g \notin open'[t]
    BY <1>1, <2>2 DEF ThreadsInv
  <2>. QED  BY <2>1, <2>2
<1>6. thread # 0 => t = thread /\ open' = open
  BY <1>1
<1>7. \A r \in wire' : r \in wire \/ r = n
  BY <1>1, <1>2
<1>8. WireInv'
  <2>1. wire' \subseteq Post
    BY <1>1, <1>2, <1>3 DEF WireInv
  <2>2. requests' = {<<r.kind, r.file>> : r \in wire'}
    BY <1>1, <1>2, <1>3 DEF WireInv
  <2>3. \A r \in wire' : r.thread = thread'
    BY <1>1, <1>3, <1>5, <1>6, <1>7 DEF WireInv
  <2>4. \A r, q \in wire' : r.file = q.file => r = q
    BY <1>3, <1>7 DEF WireInv
  <2>. QED  BY <2>1, <2>2, <2>3, <2>4 DEF WireInv
<1>9. ThreadsInv'
  <2>1. open' \in [Threads -> SUBSET Inputs]
    BY <1>1 DEF ThreadsInv
  <2>. QED  BY <1>1, <2>1 DEF ThreadsInv
<1>10. BooksInv'
  <2>1. <<kind, f>> \in requests' /\ requests \subseteq requests'
    BY <1>1
  <2>2. CASE SentByCaller(kind, f)
    BY <2>1, <2>2 DEF BooksInv, SentByCaller, RequestKinds
  <2>3. CASE SentByWatchdog(kind, f)
    BY <2>1, <2>3 DEF BooksInv, SentByWatchdog
  <2>. QED  BY <2>2, <2>3
<1>11. ASSUME NEW r \in wire PROVE PostInv(r)'
  <2>1. PostInv(r) /\ thread # 0 /\ open'[thread'] = open[thread] /\ r.file # f
    BY <1>1, <1>5, <1>6 DEF PostsInv
  <2>2. CASE SentByCaller(kind, f)
    BY <2>1, <2>2 DEF PostInv, SentByCaller
  <2>3. CASE SentByWatchdog(kind, f)
    BY <2>1, <2>3 DEF PostInv, SentByWatchdog
  <2>. QED  BY <2>2, <2>3
<1>12. PostInv(n)'
  BY <1>3 DEF PostInv, SentByCaller, SentByWatchdog
<1>13. PostsInv'
  BY <1>7, <1>11, <1>12 DEF PostsInv
<1>14. ThreadIsInStep'
  <2>1. IdleThreadIsTimed'
    BY <1>1 DEF IdleThreadIsTimed
  <2>2. SessionIsOpen'
    BY <1>1, <1>4, <1>5, <1>6 DEF ThreadIsInStep, SessionIsOpen
  <2>3. NoGraphIsLeft'
    <3>1. ASSUME NEW g \in Inputs, thread' # 0, g \in open'[thread']
          PROVE  g \in sessions' \/ <<"expand", g>> \in requests' \/ <<"close", g>> \in requests'
      <4>1. thread # 0 /\ g \in open[thread]
        BY <1>1, <1>5, <1>6, <3>1
      <4>2. g \in sessions \/ <<"expand", g>> \in requests \/ <<"close", g>> \in requests
        BY <4>1 DEF ThreadIsInStep, NoGraphIsLeft
      <4>. QED  BY <1>1, <4>2
    <3>. QED  BY <3>1 DEF NoGraphIsLeft
  <2>4. OnlyALostSessionFails'
    BY <1>3, <1>7 DEF ThreadIsInStep, OnlyALostSessionFails
  <2>. QED  BY <2>1, <2>2, <2>3, <2>4 DEF ThreadIsInStep
<1>. QED  BY <1>8, <1>9, <1>10, <1>13, <1>14

\* The client forgets its thread and everything it was to do.
LEMMA ForgetsStep ==
  ASSUME ConvInv, thread' = 0, sessions' = {}, unread' = {}, requests' = {}, wire' = {},
         running' \in SUBSET Threads, idle' \in {0} \cup Threads, stopped' \in BOOLEAN, open' = open, released' = released,
         NEW result, caller' = IF <<caller.at, caller.file>> \in requests THEN NotCalling(result) ELSE caller
  PROVE  ConvInv'
<1>. USE DEF ConvInv
<1>1. WireInv'
  BY DEF WireInv
<1>2. ThreadsInv'
  BY DEF ThreadsInv
<1>3. BooksInv'
  <2>1. CASE <<caller.at, caller.file>> \in requests
    BY <2>1 DEF BooksInv, NotCalling, RequestKinds
  <2>2. CASE <<caller.at, caller.file>> \notin requests
    BY <2>2 DEF BooksInv
  <2>. QED  BY <2>1, <2>2
<1>4. PostsInv'
  BY DEF PostsInv
<1>5. ThreadIsInStep'
  BY DEF ThreadIsInStep, IdleThreadIsTimed, SessionIsOpen, NoGraphIsLeft, OnlyALostSessionFails
<1>. QED  BY <1>1, <1>2, <1>3, <1>4, <1>5

\* A reply settles its request.
LEMMA SettledStep ==
  ASSUME ConvInv, NEW r \in wire, r.reply # "none",
         wire' = wire \ {r}, requests' = requests \ {<<r.kind, r.file>>},
         UNCHANGED <<thread, running, open, released, stopped>>,
         idle' \in {0, thread}, requests' = {} /\ sessions' = {} => idle' = thread,
         BooksInv',
         caller' = caller \/ \A q \in wire : q # r => q.kind = "close" /\ q.file \in released,
         \A q \in wire : q # r /\ q.kind = "close" => q.file \in released \/ (caller'.at = "close" /\ caller'.file = q.file),
         \A g \in Inputs : g # r.file => (g \in sessions' <=> g \in sessions),
         r.file \in sessions' <=> r.file \in open[thread]
  PROVE  ConvInv'
<1>. USE DEF ConvInv
<1>1. thread \in Threads /\ r \in Post /\ thread # 0
  BY ThreadsAssumption DEF WireInv, Post, Threads
<1>2. \A q \in wire : q # r => q.file # r.file
  BY DEF WireInv
<1>3. WireInv'
  <2>1. wire' \subseteq Post
    BY DEF WireInv
  <2>2. requests' = {<<q.kind, q.file>> : q \in wire'}
    BY <1>2 DEF WireInv
  <2>3. \A q \in wire' : q.thread = thread'
    BY DEF WireInv
  <2>4. \A p, q \in wire' : p.file = q.file => p = q
    BY DEF WireInv
  <2>. QED  BY <2>1, <2>2, <2>3, <2>4 DEF WireInv
<1>4. ThreadsInv'
  BY <1>1 DEF ThreadsInv
<1>5. PostsInv'
  <2>1. ASSUME NEW q \in wire, q # r PROVE PostInv(q)'
    <3>1. PostInv(q) /\ q.file \in Inputs /\ q.file # r.file
      BY <1>2, <2>1 DEF PostsInv, WireInv, Post
    <3>2. q.file \in sessions' <=> q.file \in sessions
      BY <3>1
    <3>. QED  BY <2>1, <3>1, <3>2 DEF PostInv
  <2>. QED  BY <2>1 DEF PostsInv
<1>6. ThreadIsInStep'
  <2>1. IdleThreadIsTimed'
    BY DEF IdleThreadIsTimed
  <2>2. SessionIsOpen'
    <3>1. ASSUME NEW g \in sessions'
          PROVE  g \in open[thread] \/ \E q \in wire' : q.kind = "next" /\ q.file = g /\ q.reply \in {"end", "refused", "broken"}
      <4>1. CASE g = r.file
        BY <4>1, <3>1
      <4>2. CASE g # r.file
        <5>1. g \in sessions
          BY <3>1, <4>2 DEF BooksInv
        <5>. QED  BY <4>2, <5>1 DEF ThreadIsInStep, SessionIsOpen
      <4>. QED  BY <4>1, <4>2
    <3>. QED  BY <1>1, <3>1 DEF SessionIsOpen
  <2>3. NoGraphIsLeft'
    <3>1. ASSUME NEW g \in Inputs, g \in open[thread]
          PROVE  g \in sessions' \/ <<"expand", g>> \in requests' \/ <<"close", g>> \in requests'
      <4>1. CASE g = r.file
        BY <4>1, <3>1
      <4>2. CASE g # r.file
        <5>1. g \in sessions \/ <<"expand", g>> \in requests \/ <<"close", g>> \in requests
          BY <1>1, <3>1 DEF ThreadIsInStep, NoGraphIsLeft
        <5>. QED  BY <4>2, <5>1
      <4>. QED  BY <4>1, <4>2
    <3>. QED  BY <3>1 DEF NoGraphIsLeft
  <2>4. OnlyALostSessionFails'
    <3>1. ASSUME NEW q \in wire, q # r, q.reply = "notOpen" PROVE q.file \notin sessions' \cup released
      <4>1. q.file \in Inputs /\ q.file # r.file /\ q.file \notin sessions \cup released
        BY <1>2, <3>1 DEF ThreadIsInStep, OnlyALostSessionFails, WireInv, Post
      <4>. QED  BY <4>1
    <3>. QED  BY <3>1 DEF OnlyALostSessionFails
  <2>. QED  BY <2>1, <2>2, <2>3, <2>4 DEF ThreadIsInStep
<1>. QED  BY <1>3, <1>4, <1>5, <1>6

\* What is on the wire and answered, and what is known of its file.
LEMMA Answered ==
  ASSUME ConvInv, NEW r \in wire, r.reply # "none"
  PROVE  /\ r \in Post /\ thread \in Threads /\ thread # 0 /\ ~stopped /\ PostInv(r)
         /\ \A q \in wire : q # r => q.file # r.file /\ PostInv(q)
         /\ r.file \in open[thread] => r.file \in sessions \/ r.kind = "expand"
         /\ r.file \in sessions => r.file \in open[thread] \/ (r.kind = "next" /\ r.reply \in {"end", "refused", "broken"})
<1>. USE DEF ConvInv
<1>1. r \in Post /\ thread \in Threads /\ thread # 0 /\ PostInv(r) /\ ~stopped
  BY ThreadsAssumption DEF WireInv, Post, Threads, PostsInv, ThreadsInv
<1>2. \A q \in wire : q # r => q.file # r.file /\ PostInv(q)
  BY DEF WireInv, PostsInv
<1>3. \A k : <<k, r.file>> \in requests => k = r.kind
  BY <1>2 DEF WireInv
<1>4. r.file \in open[thread] => r.file \in sessions \/ r.kind = "expand"
  <2>1. ASSUME r.file \in open[thread] PROVE r.file \in sessions \/ r.kind = "expand"
    <3>1. r.file \in sessions \/ <<"expand", r.file>> \in requests \/ <<"close", r.file>> \in requests
      BY <1>1, <2>1 DEF ThreadIsInStep, NoGraphIsLeft, Post
    <3>2. r.kind # "close"
      BY <1>1, <2>1 DEF PostInv
    <3>. QED  BY <1>3, <3>1, <3>2
  <2>. QED  BY <2>1
<1>5. r.file \in sessions => r.file \in open[thread] \/ (r.kind = "next" /\ r.reply \in {"end", "refused", "broken"})
  BY <1>2 DEF ThreadIsInStep, SessionIsOpen
<1>. QED  BY <1>1, <1>2, <1>4, <1>5

Gone(r) == wire' = wire \ {r} /\ requests' = requests \ {<<r.kind, r.file>>}

LEMMA SettleConvert ==
  ASSUME ConvInv, NEW r \in wire, r.reply # "none", r.kind = "convert", Gone(r),
         idle' = Armed(thread, requests', sessions), NEW result, caller' = NotCalling(result),
         UNCHANGED <<thread, running, open, sessions, unread, released, stopped>>
  PROVE  ConvInv'
<1>1. /\ r \in Post /\ PostInv(r) /\ BooksInv
      /\ \A q \in wire : q # r => q.file # r.file /\ PostInv(q)
  BY Answered DEF ConvInv
<1>2. caller.at = "convert" /\ \A q \in wire : q # r => q.kind = "close" /\ q.file \in released
  BY <1>1 DEF PostInv
<1>3. BooksInv'
  BY <1>1 DEF BooksInv, NotCalling, RequestKinds
<1>4. r.file \notin sessions /\ r.file \notin open[thread]
  BY <1>1 DEF PostInv
<1>. QED  BY <1>2, <1>3, <1>4, SettledStep DEF Gone, Armed

LEMMA SettleExpand ==
  ASSUME ConvInv, NEW r \in wire, r.reply # "none", r.kind = "expand", Gone(r),
         idle' = Armed(thread, requests', sessions),
         IF r.reply = "opened"
           THEN /\ sessions' = sessions \cup {r.file} /\ unread' = unread \cup {r.file}
                /\ caller' = Waits("handle", r.file)
           ELSE caller' = NotCalling(Result(r.reply)) /\ UNCHANGED <<sessions, unread>>,
         UNCHANGED <<thread, running, open, released, stopped>>
  PROVE  ConvInv'
<1>1. /\ r \in Post /\ PostInv(r) /\ BooksInv
      /\ \A q \in wire : q # r => q.file # r.file /\ PostInv(q)
  BY Answered DEF ConvInv
<1>2. caller.at = "expand" /\ \A q \in wire : q # r => q.kind = "close" /\ q.file \in released
  BY <1>1 DEF PostInv
<1>3. r.file \in Inputs /\ r.file \notin sessions
  BY <1>1 DEF PostInv, Post
<1>4. CASE r.reply = "opened"
  <2>1. BooksInv'
    BY <1>1, <1>3, <1>4 DEF BooksInv, Waits, RequestKinds
  <2>2. r.file \in open[thread] /\ r.file \in sessions' /\ \A g \in Inputs : g # r.file => (g \in sessions' <=> g \in sessions)
    BY <1>1, <1>4 DEF PostInv
  <2>. QED  BY <1>2, <2>1, <2>2, SettledStep DEF Gone, Armed
<1>5. CASE r.reply # "opened"
  <2>1. BooksInv'
    BY <1>1, <1>5 DEF BooksInv, NotCalling, RequestKinds
  <2>2. r.file \notin open[thread] /\ sessions' = sessions
    BY <1>1, <1>5 DEF PostInv
  <2>. QED  BY <1>2, <1>3, <1>5, <2>1, <2>2, SettledStep DEF Gone, Armed
<1>. QED  BY <1>4, <1>5

LEMMA SettleDocument ==
  ASSUME ConvInv, NEW r \in wire, r.reply = "document", r.kind = "next", Gone(r),
         idle' = Armed(thread, requests', sessions), caller' = Waits("reading", r.file),
         UNCHANGED <<thread, running, open, sessions, unread, released, stopped>>
  PROVE  ConvInv'
<1>1. /\ r \in Post /\ PostInv(r) /\ BooksInv
      /\ \A q \in wire : q # r => q.file # r.file /\ PostInv(q)
      /\ r.file \in open[thread] <=> r.file \in sessions
  BY Answered DEF ConvInv
<1>2. /\ caller.at = "next" /\ caller.file = r.file
      /\ \A q \in wire : q # r => q.kind = "close" /\ q.file \in released
  BY <1>1 DEF PostInv
<1>3. BooksInv'
  BY <1>1, <1>2 DEF BooksInv, Waits, RequestKinds, Post
<1>. QED  BY <1>1, <1>2, <1>3, SettledStep DEF Gone, Armed

LEMMA SettleEnd ==
  ASSUME ConvInv, NEW r \in wire, r.reply \in {"end", "refused", "broken", "notOpen"}, r.kind = "next", Gone(r),
         sessions' = sessions \ {r.file},
         idle' = Armed(thread, requests', sessions'), NEW result, caller' = NotCalling(result),
         UNCHANGED <<thread, running, open, unread, released, stopped>>
  PROVE  ConvInv'
<1>1. /\ r \in Post /\ PostInv(r) /\ BooksInv
      /\ \A q \in wire : q # r => q.file # r.file /\ PostInv(q)
  BY Answered DEF ConvInv
<1>2. /\ caller.at = "next" /\ caller.file = r.file /\ r.file \notin open[thread]
      /\ \A q \in wire : q # r => q.kind = "close" /\ q.file \in released
  BY <1>1 DEF PostInv
<1>3. BooksInv'
  BY <1>1, <1>2 DEF BooksInv, NotCalling, RequestKinds
<1>. QED  BY <1>2, <1>3, SettledStep DEF Gone, Armed

\* A refused reader closes what is still open; its close takes the place of its request.
LEMMA SettleRefusal ==
  ASSUME ConvInv, NEW r \in wire, r.reply \in {"refused", "broken", "notOpen"}, r.kind = "next", r.file \in sessions,
         NEW n, n = [kind |-> "close", file |-> r.file, thread |-> thread, reply |-> "none"],
         wire' = (wire \ {r}) \cup {n},
         requests' = (requests \ {<<r.kind, r.file>>}) \cup {<<"close", r.file>>},
         sessions' = sessions \ {r.file}, idle' = 0,
         caller'.at = "close", caller'.file = r.file,
         UNCHANGED <<thread, running, open, unread, released, stopped>>
  PROVE  ConvInv'
<1>1. /\ r \in Post /\ thread \in Threads /\ thread # 0 /\ PostInv(r) /\ ConvInv
      /\ \A q \in wire : q # r => q.file # r.file /\ PostInv(q)
  BY Answered
<1>. USE DEF ConvInv
<1>2. /\ caller.at = "next" /\ caller.file = r.file /\ r.file \notin open[thread] /\ r.file \in Inputs
      /\ \A q \in wire : q # r => q.kind = "close" /\ q.file \in released
  BY <1>1 DEF PostInv, Post
<1>3. n \in Post /\ n.kind = "close" /\ n.file = r.file /\ n.thread = thread /\ n.reply = "none"
  BY <1>1, <1>2 DEF Post, RequestKinds
<1>4. \A q \in wire' : (q \in wire /\ q # r) \/ q = n
  OBVIOUS
<1>5. WireInv'
  <2>1. wire' \subseteq Post
    BY <1>3 DEF WireInv
  <2>2. requests' = {<<q.kind, q.file>> : q \in wire'}
    <3>1. requests \ {<<r.kind, r.file>>} = {<<q.kind, q.file>> : q \in wire \ {r}}
      BY <1>1 DEF WireInv
    <3>2. {<<q.kind, q.file>> : q \in wire'} = {<<q.kind, q.file>> : q \in wire \ {r}} \cup {<<n.kind, n.file>>}
      OBVIOUS
    <3>. QED  BY <1>3, <3>1, <3>2
  <2>3. \A q \in wire' : q.thread = thread'
    BY <1>3, <1>4 DEF WireInv
  <2>4. \A p, q \in wire' : p.file = q.file => p = q
    BY <1>1, <1>3, <1>4 DEF WireInv
  <2>. QED  BY <2>1, <2>2, <2>3, <2>4 DEF WireInv
<1>6. ThreadsInv'
  BY DEF ThreadsInv
<1>7. BooksInv'
  BY <1>2 DEF BooksInv, RequestKinds
<1>8. PostsInv'
  <2>1. ASSUME NEW q \in wire, q # r PROVE PostInv(q)'
    BY <1>1, <1>2, <2>1 DEF PostInv
  <2>2. PostInv(n)'
    BY <1>3 DEF PostInv
  <2>. QED  BY <1>4, <2>1, <2>2 DEF PostsInv
<1>9. ThreadIsInStep'
  <2>1. IdleThreadIsTimed'
    BY DEF IdleThreadIsTimed
  <2>2. SessionIsOpen'
    BY <1>1 DEF ThreadIsInStep, SessionIsOpen
  <2>3. NoGraphIsLeft'
    <3>1. ASSUME NEW g \in Inputs, g \in open[thread]
          PROVE  g \in sessions' \/ <<"expand", g>> \in requests' \/ <<"close", g>> \in requests'
      <4>1. g \in sessions \/ <<"expand", g>> \in requests \/ <<"close", g>> \in requests
        BY <1>1, <3>1 DEF ThreadIsInStep, NoGraphIsLeft
      <4>. QED  BY <4>1
    <3>. QED  BY <3>1 DEF NoGraphIsLeft
  <2>4. OnlyALostSessionFails'
    BY <1>3, <1>4 DEF ThreadIsInStep, OnlyALostSessionFails
  <2>. QED  BY <2>1, <2>2, <2>3, <2>4 DEF ThreadIsInStep
<1>. QED  BY <1>5, <1>6, <1>7, <1>8, <1>9

\* A close: of the caller, or of a watchdog while the caller is elsewhere.
LEMMA SettleClose ==
  ASSUME ConvInv, NEW r \in wire, r.reply # "none", r.kind = "close", Gone(r),
         idle' = Armed(thread, requests', sessions),
         caller' = IF caller.at = "close" /\ caller.file = r.file THEN NotCalling(caller.result) ELSE caller,
         UNCHANGED <<thread, running, open, sessions, unread, released, stopped>>
  PROVE  ConvInv'
<1>1. /\ r \in Post /\ PostInv(r) /\ BooksInv
      /\ \A q \in wire : q # r => q.file # r.file /\ PostInv(q)
      /\ r.file \notin open[thread] /\ r.file \notin sessions
  BY Answered DEF ConvInv, PostInv
<1>2. CASE caller.at = "close" /\ caller.file = r.file
  <2>1. \A q \in wire : q # r => q.kind = "close" /\ q.file \in released
    BY <1>1, <1>2 DEF PostInv
  <2>2. BooksInv'
    BY <1>1, <1>2 DEF BooksInv, NotCalling, RequestKinds
  <2>. QED  BY <1>1, <2>1, <2>2, SettledStep DEF Gone, Armed
<1>3. CASE ~(caller.at = "close" /\ caller.file = r.file)
  <2>1. \A q \in wire : q # r /\ q.kind = "close" => q.file \in released \/ (caller.at = "close" /\ caller.file = q.file)
    BY <1>1 DEF PostInv
  <2>2. BooksInv'
    BY <1>1, <1>3 DEF BooksInv, RequestKinds, Gone
  <2>. QED  BY <1>1, <1>3, <2>1, <2>2, SettledStep DEF Gone, Armed
<1>. QED  BY <1>2, <1>3

LEMMA SettlesStep ==
  ASSUME ConvInv, NEW r \in wire, SettleRequest(r)
  PROVE  ConvInv'
<1>1. r.reply # "none" /\ UNCHANGED <<released, stopped>>
  BY DEF SettleRequest
<1>2. CASE r.kind = "convert"
  BY <1>1, <1>2, SettleConvert DEF SettleRequest, Gone
<1>3. CASE r.kind = "expand"
  BY <1>1, <1>3, SettleExpand DEF SettleRequest, Gone
<1>4. CASE r.kind = "next" /\ r.reply = "document"
  BY <1>1, <1>4, SettleDocument DEF SettleRequest, Gone
<1>5. CASE r.kind = "next" /\ r.reply = "end"
  BY <1>1, <1>5, SettleEnd DEF SettleRequest, Gone
<1>6. CASE r.kind = "next" /\ r.reply \in {"refused", "broken", "notOpen"} /\ r.file \notin sessions
  <2>1. /\ Gone(r) /\ sessions' = sessions \ {r.file} /\ idle' = Armed(thread, requests', sessions')
        /\ caller' = NotCalling(Result(r.reply)) /\ UNCHANGED <<thread, running, open, unread>>
    BY <1>6 DEF SettleRequest, Gone
  <2>. QED  BY <1>1, <1>6, <2>1, SettleEnd
<1>7. CASE r.kind = "next" /\ r.reply \in {"refused", "broken", "notOpen"} /\ r.file \in sessions
  <2>1. PICK n : n = [kind |-> "close", file |-> r.file, thread |-> thread, reply |-> "none"]
    OBVIOUS
  <2>2. /\ wire' = (wire \ {r}) \cup {n}
        /\ requests' = (requests \ {<<r.kind, r.file>>}) \cup {<<"close", r.file>>}
        /\ sessions' = sessions \ {r.file} /\ idle' = Armed(thread, requests', sessions')
        /\ caller' = [Waits("close", r.file) EXCEPT !.result = Result(r.reply)]
        /\ UNCHANGED <<thread, running, open, unread>>
    BY <1>7, <2>1 DEF SettleRequest
  <2>3. idle' = 0
    BY <2>2 DEF Armed
  <2>4. caller'.at = "close" /\ caller'.file = r.file
    BY <2>2 DEF Waits
  <2>. QED  BY <1>1, <1>7, <2>1, <2>2, <2>3, <2>4, SettleRefusal
<1>8. CASE r.kind = "close"
  BY <1>1, <1>8, SettleClose DEF SettleRequest, Gone
<1>9. \/ r.kind \in {"convert", "expand", "close"}
      \/ r.kind = "next" /\ r.reply \in {"document", "end", "refused", "broken", "notOpen"}
  BY DEF SettleRequest
<1>. QED  BY <1>2, <1>3, <1>4, <1>5, <1>6, <1>7, <1>8, <1>9

-----------------------------------------------------------------------------
\* The caller alone moves, and asks for nothing.
LEMMA CallerStep ==
  ASSUME ConvInv, caller.at \notin {"convert", "expand", "next", "close"},
         caller'.at \in {"idle", "handle", "reading"}, caller'.at # "idle" => caller' = caller,
         released' \subseteq released, \A r \in wire : r.file \in released => r.file \in released',
         thread = 0 \/ ~stopped, sessions' \subseteq sessions, sessions' # sessions => thread = 0,
         idle' = idle \/ idle' = Armed(thread, requests, sessions'),
         unread' \subseteq unread, unread' \subseteq sessions',
         UNCHANGED <<thread, running, open, wire, requests, stopped>>
  PROVE  ConvInv'
<1>. USE DEF ConvInv
<1>1. WireInv'
  BY DEF WireInv
<1>2. ThreadsInv'
  BY DEF ThreadsInv, Armed
<1>3. BooksInv'
  BY DEF BooksInv, RequestKinds
<1>4. PostsInv'
  <2>1. ASSUME NEW r \in wire PROVE PostInv(r)'
    <3>1. PostInv(r) /\ r \in Post
      BY DEF PostsInv, WireInv
    <3>. QED  BY <3>1 DEF PostInv, Post, RequestKinds
  <2>. QED  BY <2>1 DEF PostsInv
<1>5. ThreadIsInStep'
  BY DEF ThreadIsInStep, IdleThreadIsTimed, SessionIsOpen, NoGraphIsLeft, OnlyALostSessionFails, Armed
<1>. QED  BY <1>1, <1>2, <1>3, <1>4, <1>5

\* Between two requests only watchdogs have something on the wire.
LEMMA OnlyWatchdogsWait ==
  ASSUME ConvInv, caller.at \notin {"convert", "expand", "next", "close"}
  PROVE  \A r \in wire : r.kind = "close" /\ r.file \in released
<1>1. ASSUME NEW r \in wire PROVE r.kind = "close" /\ r.file \in released
  <2>1. PostInv(r) /\ r.kind \in RequestKinds
    BY DEF ConvInv, PostsInv, WireInv, Post
  <2>. QED  BY <2>1 DEF PostInv, RequestKinds
<1>. QED  BY <1>1

LEMMA BeginStep ==
  ASSUME ConvInv, NEW kind \in {"convert", "expand"}, NEW f \in Inputs, Begin(kind, f)
  PROVE  ConvInv'
<1>1. /\ caller.at = "idle" /\ New(f) /\ released' = released \ {f}
      /\ IF stopped
           THEN /\ caller' = NotCalling("refused")
                /\ UNCHANGED <<thread, running, open, wire, requests, idle>>
           ELSE Send(kind, f) /\ caller' = Waits(kind, f)
      /\ UNCHANGED <<sessions, unread, stopped>>
  BY DEF Begin
<1>2. /\ f \notin sessions /\ \A r \in wire : r.file # f
  BY <1>1 DEF New
<1>3. \A r \in wire : r.kind = "close" /\ r.file \in released
  BY <1>1, OnlyWatchdogsWait
<1>4. BooksInv /\ ThreadsInv
  BY DEF ConvInv
<1>5. CASE stopped
  <2>1. caller'.at = "idle"
    BY <1>1, <1>5 DEF NotCalling
  <2>. QED  BY <1>1, <1>2, <1>4, <1>5, <2>1, CallerStep DEF BooksInv, ThreadsInv
<1>6. CASE ~stopped
  <2>1. Send(kind, f) /\ caller'.at = kind /\ caller'.file = f
    BY <1>1, <1>6 DEF Waits
  <2>2. SentByCaller(kind, f)
    BY <1>1, <1>2, <1>3, <2>1 DEF SentByCaller
  <2>3. kind \in RequestKinds /\ unread' \subseteq sessions' /\ released' \subseteq Inputs
    BY <1>1, <1>4 DEF RequestKinds, BooksInv
  <2>. QED  BY <1>1, <1>2, <1>6, <2>1, <2>2, <2>3, SendStep
<1>. QED  BY <1>5, <1>6

LEMMA StepStep ==
  ASSUME ConvInv, Step
  PROVE  ConvInv'
<1>. DEFINE f == caller.file
<1>1. /\ caller.at \in {"handle", "reading"} /\ unread' = unread \ {f}
      /\ IF caller.at = "handle" /\ f \in released
           THEN /\ caller' = NotCalling("refused")
                /\ UNCHANGED <<thread, running, open, wire, requests, sessions, idle>>
         ELSE IF stopped
           THEN /\ caller' = NotCalling("refused") /\ sessions' = sessions \ {f}
                /\ UNCHANGED <<thread, running, open, wire, requests, idle>>
         ELSE Send("next", f) /\ caller' = Waits("next", f) /\ UNCHANGED sessions
      /\ UNCHANGED <<released, stopped>>
  BY DEF Step
<1>2. BooksInv /\ ThreadsInv /\ f \in Inputs
  BY <1>1 DEF ConvInv, BooksInv
<1>3. \A r \in wire : r.kind = "close" /\ r.file \in released
  BY <1>1, OnlyWatchdogsWait
<1>4. caller.at = "reading" => f \notin released
  BY <1>2 DEF BooksInv
<1>5. (stopped => thread = 0) /\ unread \subseteq sessions
  BY <1>2 DEF ThreadsInv, BooksInv
<1>6. CASE (caller.at = "handle" /\ f \in released) \/ stopped
  <2>1. /\ caller'.at = "idle"
        /\ UNCHANGED <<thread, running, open, wire, requests, idle>>
        /\ sessions' = sessions \/ (stopped /\ sessions' = sessions \ {f})
    BY <1>1, <1>6 DEF NotCalling
  <2>2. thread = 0 \/ ~stopped
    BY <1>5
  <2>3. unread' \subseteq unread /\ unread' \subseteq sessions' /\ sessions' \subseteq sessions /\ (sessions' # sessions => thread = 0)
    BY <1>1, <1>5, <2>1
  <2>. QED  BY <1>1, <2>1, <2>2, <2>3, CallerStep
<1>7. CASE ~((caller.at = "handle" /\ f \in released) \/ stopped)
  <2>1. Send("next", f) /\ caller'.at = "next" /\ caller'.file = f /\ sessions' = sessions /\ ~stopped /\ f \notin released
    BY <1>1, <1>4, <1>7 DEF Waits
  <2>2. \A r \in wire : r.file # f
    BY <1>3, <2>1
  <2>3. SentByCaller("next", f)
    BY <1>1, <1>3, <2>1 DEF SentByCaller
  <2>4. "next" \in RequestKinds /\ unread' \subseteq sessions' /\ released' \subseteq Inputs
    BY <1>1, <1>2, <2>1 DEF RequestKinds, BooksInv
  <2>. HIDE DEF f
  <2>. QED  BY <1>1, <1>2, <2>1, <2>2, <2>3, <2>4, SendStep
<1>. QED  BY <1>6, <1>7

LEMMA GiveUpStep ==
  ASSUME ConvInv, GiveUp
  PROVE  ConvInv'
<1>. DEFINE f == caller.file
<1>1. /\ caller.at = "reading" /\ sessions' = sessions \ {f}
      /\ IF f \in sessions /\ thread # 0 /\ ~stopped
           THEN Send("close", f) /\ caller' = [Waits("close", f) EXCEPT !.result = "failedElsewhere"]
           ELSE /\ idle' = Armed(thread, requests, sessions')
                /\ caller' = NotCalling("failedElsewhere")
                /\ UNCHANGED <<thread, running, open, wire, requests>>
      /\ UNCHANGED <<unread, released, stopped>>
  BY DEF GiveUp, Close
<1>2. BooksInv /\ ThreadsInv /\ f \in Inputs /\ f \notin unread \cup released
  BY <1>1 DEF ConvInv, BooksInv
<1>3. \A r \in wire : r.kind = "close" /\ r.file \in released
  BY <1>1, OnlyWatchdogsWait
<1>4. (stopped => thread = 0) /\ unread \subseteq sessions /\ released \subseteq Inputs /\ unread' \subseteq sessions'
  BY <1>1, <1>2 DEF ThreadsInv, BooksInv
<1>5. CASE f \in sessions /\ thread # 0 /\ ~stopped
  <2>1. Send("close", f) /\ caller'.at = "close" /\ caller'.file = f
    BY <1>1, <1>5 DEF Waits
  <2>2. SentByCaller("close", f) /\ \A r \in wire : r.file # f
    BY <1>1, <1>2, <1>3, <2>1 DEF SentByCaller
  <2>3. "close" \in RequestKinds
    BY DEF RequestKinds
  <2>. HIDE DEF f
  <2>. QED  BY <1>1, <1>2, <1>4, <1>5, <2>1, <2>2, <2>3, SendStep
<1>6. CASE ~(f \in sessions /\ thread # 0 /\ ~stopped)
  <2>1. /\ caller'.at = "idle" /\ idle' = Armed(thread, requests, sessions')
        /\ UNCHANGED <<thread, running, open, wire, requests, stopped, unread, released>>
    BY <1>1, <1>6 DEF NotCalling
  <2>2. sessions' # sessions => thread = 0
    BY <1>1, <1>4, <1>6
  <2>. QED  BY <1>1, <1>4, <2>1, <2>2, CallerStep
<1>. QED  BY <1>5, <1>6

LEMMA DropStep ==
  ASSUME ConvInv, Drop
  PROVE  ConvInv'
<1>1. /\ caller.at = "handle" /\ caller'.at = "idle"
      /\ UNCHANGED <<thread, running, open, wire, requests, sessions, unread, released, idle, stopped>>
  BY DEF Drop, NotCalling
<1>2. (thread = 0 \/ ~stopped) /\ unread \subseteq sessions
  BY DEF ConvInv, ThreadsInv, BooksInv
<1>. QED  BY <1>1, <1>2, CallerStep

-----------------------------------------------------------------------------
\* The events of the thread and the timers.
LEMMA TimesOutStep ==
  ASSUME ConvInv, ReplaceWorker, running' \in SUBSET running, UNCHANGED <<open, released, stopped>>
  PROVE  ConvInv'
<1>1. running' \in SUBSET Threads /\ idle' \in {0} \cup Threads /\ stopped' \in BOOLEAN
  BY DEF ConvInv, ThreadsInv, ReplaceWorker
<1>2. PICK result : result = IF caller.at = "close" THEN caller.result ELSE "refused"
  OBVIOUS
<1>3. /\ thread' = 0 /\ sessions' = {} /\ unread' = {} /\ requests' = {} /\ wire' = {}
      /\ caller' = IF <<caller.at, caller.file>> \in requests THEN NotCalling(result) ELSE caller
  BY <1>2 DEF ReplaceWorker
<1>. QED  BY <1>1, <1>3, ForgetsStep

LEMMA StopStep ==
  ASSUME ConvInv, Stop
  PROVE  ConvInv'
<1>1. PICK result : result = IF caller.at = "close" THEN caller.result ELSE "refused"
  OBVIOUS
<1>2. /\ thread' = 0 /\ sessions' = {} /\ unread' = {} /\ requests' = {} /\ wire' = {} /\ idle' = 0 /\ stopped' = TRUE
      /\ caller' = IF <<caller.at, caller.file>> \in requests THEN NotCalling(result) ELSE caller
      /\ UNCHANGED <<running, open, released>>
  BY <1>1 DEF Stop
<1>3. running' \in SUBSET Threads
  BY <1>2 DEF ConvInv, ThreadsInv
<1>. QED  BY <1>2, <1>3, ForgetsStep

\* A thread that was let go has gone, or a timer has found nothing to let go.
LEMMA ThreadStep ==
  ASSUME ConvInv, running' \subseteq running, thread' \in {0} \cup running', thread' = 0 => wire = {} /\ sessions = {},
         thread' \in {0, thread}, idle' \in {0, idle},
         thread' # 0 /\ requests = {} /\ sessions = {} => idle' = thread',
         UNCHANGED <<open, wire, requests, sessions, unread, released, stopped, caller>>
  PROVE  ConvInv'
<1>. USE DEF ConvInv
<1>1. WireInv'
  BY DEF WireInv
<1>2. ThreadsInv'
  BY DEF ThreadsInv
<1>3. BooksInv'
  BY DEF BooksInv
<1>4. PostsInv'
  BY DEF PostsInv, PostInv
<1>5. ThreadIsInStep'
  BY DEF ThreadIsInStep, IdleThreadIsTimed, SessionIsOpen, NoGraphIsLeft, OnlyALostSessionFails
<1>. QED  BY <1>1, <1>2, <1>3, <1>4, <1>5

LEMMA ExitStep ==
  ASSUME ConvInv, NEW t \in Threads, Error(t) \/ Exit(t)
  PROVE  ConvInv'
<1>1. CASE ReplaceWorker
  BY <1>1, TimesOutStep DEF Error, Exit
<1>2. CASE ~ReplaceWorker
  <2>1. /\ t # thread /\ running' = running \ {t}
        /\ UNCHANGED <<thread, open, wire, requests, sessions, unread, released, idle, stopped, caller>>
    BY <1>2 DEF Error, Exit
  <2>2. thread' \in {0} \cup running'
    BY <2>1 DEF ConvInv, ThreadsInv
  <2>3. thread = 0 => wire = {} /\ sessions = {}
    BY ThreadsAssumption DEF ConvInv, WireInv, Post, Threads, ThreadIsInStep, SessionIsOpen
  <2>4. thread # 0 /\ requests = {} /\ sessions = {} => idle = thread
    BY DEF ConvInv, ThreadIsInStep, IdleThreadIsTimed
  <2>. QED  BY <2>1, <2>2, <2>3, <2>4, ThreadStep
<1>. QED  BY <1>1, <1>2

LEMMA IdleFiresStep ==
  ASSUME ConvInv, IdleFires
  PROVE  ConvInv'
<1>1. /\ idle # 0 /\ idle' = 0
      /\ thread' = IF requests = {} /\ sessions = {} /\ thread = idle THEN 0 ELSE thread
      /\ UNCHANGED <<running, open, wire, requests, sessions, unread, released, stopped, caller>>
  BY DEF IdleFires
<1>2. requests = {} => wire = {}
  BY DEF ConvInv, WireInv
<1>3. thread = 0 => wire = {} /\ sessions = {}
  BY ThreadsAssumption DEF ConvInv, WireInv, Post, Threads, ThreadIsInStep, SessionIsOpen
<1>4. thread # 0 /\ requests = {} /\ sessions = {} => idle = thread
  BY DEF ConvInv, ThreadIsInStep, IdleThreadIsTimed
<1>5. thread \in {0} \cup running
  BY DEF ConvInv, ThreadsInv
<1>. QED  BY <1>1, <1>2, <1>3, <1>4, <1>5, ThreadStep

LEMMA UnreadFiresStep ==
  ASSUME ConvInv, NEW f \in Inputs, UnreadFires(f)
  PROVE  ConvInv'
<1>1. /\ f \in unread /\ unread' = unread \ {f} /\ released' = released \cup {f} /\ sessions' = sessions \ {f}
      /\ Send("close", f) /\ UNCHANGED <<stopped, caller>>
  BY DEF UnreadFires
<1>2. BooksInv /\ f \in sessions /\ ~stopped
  BY <1>1 DEF ConvInv, BooksInv, ThreadsInv, ThreadIsInStep, SessionIsOpen
<1>3. \A r \in wire : r.file # f
  <2>1. ASSUME NEW r \in wire, r.file = f PROVE FALSE
    <3>1. r.kind = "next" /\ caller.at = "next" /\ caller.file = f
      BY <1>2, <2>1 DEF ConvInv, PostsInv, PostInv
    <3>. QED  BY <1>1, <1>2, <3>1 DEF BooksInv
  <2>. QED  BY <2>1
<1>4. SentByWatchdog("close", f)
  BY <1>1, <1>2 DEF SentByWatchdog, BooksInv
<1>5. "close" \in RequestKinds /\ unread' \subseteq sessions' /\ released' \subseteq Inputs
  BY <1>1, <1>2 DEF RequestKinds, BooksInv
<1>. QED  BY <1>1, <1>2, <1>3, <1>4, <1>5, SendStep

LEMMA AnswerStep ==
  ASSUME ConvInv, NEW r \in wire, Answer(r)
  PROVE  ConvInv'
<1>1. PICK a \in Replies(r) :
        /\ wire' = (wire \ {r}) \cup {[r EXCEPT !.reply = a]}
        /\ open' = [open EXCEPT ![r.thread] = IF a = "opened" THEN @ \cup {r.file}
                                              ELSE IF a = "document" THEN @ ELSE @ \ {r.file}]
  BY DEF Answer
<1>2. /\ r.reply = "none"
      /\ UNCHANGED <<thread, running, requests, sessions, unread, released, idle, stopped, caller>>
  BY DEF Answer
<1>. USE DEF ConvInv
<1>3. /\ r \in Post /\ r.thread = thread /\ thread \in Threads /\ thread # 0 /\ PostInv(r)
      /\ \A q \in wire : q # r => q.file # r.file /\ q.file \in Inputs /\ PostInv(q)
  BY ThreadsAssumption DEF WireInv, Post, Threads, PostsInv
<1>4. PICK n : n = [r EXCEPT !.reply = a]
  OBVIOUS
<1>5. /\ a \in {"converted", "refused", "broken", "opened", "document", "end", "notOpen", "closed"}
      /\ a = "opened" => r.kind = "expand"
      /\ a = "document" => r.kind = "next" /\ r.file \in open[thread]
      /\ a = "notOpen" => r.kind = "next" /\ r.file \notin open[thread]
      /\ r.kind = "next" => a \in {"document", "end", "refused", "broken", "notOpen"}
  BY <1>3 DEF Replies
<1>6. n \in Post /\ n.kind = r.kind /\ n.file = r.file /\ n.thread = thread /\ n.reply = a
  BY <1>3, <1>4, <1>5 DEF Post
<1>7. \A q \in wire' : (q \in wire /\ q # r) \/ q = n
  BY <1>1, <1>4
<1>8. /\ open' \in [Threads -> SUBSET Inputs]
      /\ open'[thread] = IF a = "opened" THEN open[thread] \cup {r.file}
                         ELSE IF a = "document" THEN open[thread] ELSE open[thread] \ {r.file}
  BY <1>1, <1>3 DEF ThreadsInv, Post
<1>9. /\ \A g : g # r.file => (g \in open'[thread] <=> g \in open[thread])
      /\ a = "opened" => r.file \in open'[thread]
      /\ a = "document" => r.file \in open'[thread]
      /\ a \notin {"opened", "document"} => r.file \notin open'[thread]
  BY <1>5, <1>8
<1>10. WireInv'
  <2>1. wire' \subseteq Post
    BY <1>1, <1>4, <1>6 DEF WireInv
  <2>2. requests' = {<<q.kind, q.file>> : q \in wire'}
    <3>1. requests = {<<q.kind, q.file>> : q \in wire \ {r}} \cup {<<r.kind, r.file>>}
      BY DEF WireInv
    <3>2. {<<q.kind, q.file>> : q \in wire'} = {<<q.kind, q.file>> : q \in wire \ {r}} \cup {<<n.kind, n.file>>}
      BY <1>1, <1>4
    <3>. QED  BY <1>2, <1>6, <3>1, <3>2
  <2>3. \A q \in wire' : q.thread = thread'
    BY <1>2, <1>6, <1>7 DEF WireInv
  <2>4. \A p, q \in wire' : p.file = q.file => p = q
    BY <1>3, <1>6, <1>7 DEF WireInv
  <2>. QED  BY <2>1, <2>2, <2>3, <2>4 DEF WireInv
<1>11. ThreadsInv'
  BY <1>2, <1>8 DEF ThreadsInv
<1>12. BooksInv'
  BY <1>2 DEF BooksInv
<1>13. a = "notOpen" => r.file \notin sessions \cup released
  <2>1. ASSUME a = "notOpen" PROVE r.file \notin sessions \cup released
    <3>1. r.file \notin open[thread] /\ caller.at = "next" /\ caller.file = r.file
      BY <1>3, <1>5, <2>1 DEF PostInv
    <3>2. r.file \notin sessions
      BY <1>2, <1>3, <3>1 DEF ThreadIsInStep, SessionIsOpen
    <3>. QED  BY <3>1, <3>2 DEF BooksInv
  <2>. QED  BY <2>1
<1>14. PostsInv'
  <2>1. ASSUME NEW q \in wire, q # r PROVE PostInv(q)'
    <3>1. PostInv(q) /\ (q.file \in open'[thread'] <=> q.file \in open[thread])
      BY <1>2, <1>3, <1>9, <2>1
    <3>. QED  BY <1>2, <3>1 DEF PostInv
  <2>2. PostInv(n)'
    BY <1>2, <1>3, <1>5, <1>6, <1>9, <1>13 DEF PostInv
  <2>. QED  BY <1>7, <2>1, <2>2 DEF PostsInv
<1>15. ThreadIsInStep'
  <2>1. IdleThreadIsTimed'
    BY <1>2 DEF ThreadIsInStep, IdleThreadIsTimed
  <2>2. SessionIsOpen'
    <3>1. ASSUME NEW g \in sessions
          PROVE  g \in open'[thread] \/ \E q \in wire' : q.kind = "next" /\ q.file = g /\ q.reply \in {"end", "refused", "broken"}
      <4>1. CASE g = r.file
        <5>1. r.kind = "next" /\ a # "notOpen" /\ n \in wire'
          BY <1>1, <1>3, <1>4, <1>13, <3>1, <4>1 DEF PostInv
        <5>2. a \in {"document", "end", "refused", "broken"}
          BY <1>5, <5>1
        <5>. QED  BY <1>6, <1>9, <4>1, <5>1, <5>2
      <4>2. CASE g # r.file
        BY <1>1, <1>9, <3>1, <4>2 DEF ThreadIsInStep, SessionIsOpen
      <4>. QED  BY <4>1, <4>2
    <3>. QED  BY <1>2, <1>3, <3>1 DEF SessionIsOpen
  <2>3. NoGraphIsLeft'
    <3>1. ASSUME NEW g \in Inputs, g \in open'[thread]
          PROVE  g \in sessions \/ <<"expand", g>> \in requests \/ <<"close", g>> \in requests
      <4>1. CASE g \in open[thread]
        BY <1>3, <4>1 DEF ThreadIsInStep, NoGraphIsLeft
      <4>2. CASE g \notin open[thread]
        <5>1. a = "opened" /\ g = r.file
          BY <1>8, <3>1, <4>2
        <5>2. <<r.kind, r.file>> \in requests
          BY DEF WireInv
        <5>. QED  BY <1>5, <5>1, <5>2
      <4>. QED  BY <4>1, <4>2
    <3>. QED  BY <1>2, <3>1 DEF NoGraphIsLeft
  <2>4. OnlyALostSessionFails'
    BY <1>2, <1>6, <1>7, <1>13 DEF ThreadIsInStep, OnlyALostSessionFails
  <2>. QED  BY <2>1, <2>2, <2>3, <2>4 DEF ThreadIsInStep
<1>. QED  BY <1>10, <1>11, <1>12, <1>14, <1>15

-----------------------------------------------------------------------------
LEMMA ConversionStarts == ConversionInit => ConvInv
<1>. SUFFICES ASSUME ConversionInit PROVE ConvInv
  OBVIOUS
<1>1. WireInv
  BY DEF ConversionInit, WireInv
<1>2. ThreadsInv /\ BooksInv /\ PostsInv
  BY DEF ConversionInit, ThreadsInv, BooksInv, PostsInv, NotCalling, RequestKinds
<1>3. ThreadIsInStep
  BY DEF ConversionInit, ThreadIsInStep, IdleThreadIsTimed, SessionIsOpen, NoGraphIsLeft, OnlyALostSessionFails
<1>. QED  BY <1>1, <1>2, <1>3 DEF ConvInv

LEMMA ConversionSteps == ConvInv /\ [ConversionNext]_conversionVars => ConvInv'
<1>. SUFFICES ASSUME ConvInv, [ConversionNext]_conversionVars PROVE ConvInv'
  OBVIOUS
<1>1. ASSUME NEW f \in Inputs, Begin("convert", f) \/ Begin("expand", f) \/ UnreadFires(f) PROVE ConvInv'
  BY <1>1, BeginStep, UnreadFiresStep
<1>2. CASE Step \/ GiveUp \/ Drop \/ IdleFires \/ Stop
  BY <1>2, StepStep, GiveUpStep, DropStep, IdleFiresStep, StopStep
<1>3. ASSUME NEW r \in wire, SettleRequest(r) \/ Answer(r) PROVE ConvInv'
  BY <1>3, SettlesStep, AnswerStep
<1>4. ASSUME NEW kind, NEW f, Timeout(kind, f) PROVE ConvInv'
  <2>1. ReplaceWorker /\ UNCHANGED <<running, open, released, stopped>>
    BY <1>4 DEF Timeout
  <2>. QED  BY <2>1, TimesOutStep
<1>5. ASSUME NEW t \in Threads, Error(t) \/ Exit(t) PROVE ConvInv'
  BY <1>5, ExitStep
<1>6. CASE UNCHANGED conversionVars
  <2>1. UNCHANGED <<thread, running, open, wire, requests, sessions, unread, released, idle, stopped, caller>>
    BY <1>6 DEF conversionVars
  <2>. QED  BY <2>1 DEF ConvInv, WireInv, ThreadsInv, BooksInv, PostsInv, PostInv, ThreadIsInStep,
                        IdleThreadIsTimed, SessionIsOpen, NoGraphIsLeft, OnlyALostSessionFails
<1>. QED  BY <1>1, <1>2, <1>3, <1>4, <1>5, <1>6 DEF ConversionNext, Settles, TimesOut, Watchdog

LEMMA ConversionHolds == ConvInv => ThreadIsInStep /\ ConversionTypeOK
<1>. SUFFICES ASSUME ConvInv PROVE ConversionTypeOK
  BY DEF ConvInv
<1>. USE DEF ConvInv
<1>1. \A r, q \in wire : r # q => <<r.kind, r.file>> # <<q.kind, q.file>>
  BY DEF WireInv
<1>. QED  BY <1>1 DEF WireInv, ThreadsInv, BooksInv, ConversionTypeOK

\* The client's books agree with the thread it speaks to, however calls, answers, timers and the
\* thread's death interleave, with any number of files and threads (conversion/client.ts).
THEOREM ThreadDoesStayInStep == ConversionSpec => []ThreadIsInStep
<1>1. ConvInv /\ [ConversionNext]_conversionVars => ConvInv'
  BY ConversionSteps
<1>. QED  BY <1>1, ConversionStarts, ConversionHolds, PTL DEF ConversionSpec

\* The type invariant of the conversion thread and its client.
THEOREM ConversionTypesHold == ConversionSpec => []ConversionTypeOK
<1>1. ConvInv /\ [ConversionNext]_conversionVars => ConvInv'
  BY ConversionSteps
<1>. QED  BY <1>1, ConversionStarts, ConversionHolds, PTL DEF ConversionSpec

-----------------------------------------------------------------------------
(***************************************************************************)
(* PiiScan.  NothingIsForgotten is inductive once the batch in hand is     *)
(* known to ascend and to be what the documents said when it was read, and *)
(* no project to be queued twice; that findings are of the file, once      *)
(* every text, stored, in hand or scanned, is known to be of the revision  *)
(* its hash names, and no scan to outlive its document.                    *)
(***************************************************************************)

Text == Nat \X Nat
Document == [state : {"none", "live", "old", "gone"}, hash : 0..MaxRevision, text : Text]
Scan == [hash : Nat, text : Text, key : Nat]
Entry == [id : Ids, hash : Nat, text : Text]
Pass == [at : {"off", "loop", "select", "scan", "ending"}, project : Projects \cup {"none"}, after : Nat, batch : Seq(Entry)]

\* What was read or found is of the file its hash names.
OfItsFile(x) == x.hash # 0 => x.text[1] = x.hash

RowsInv(d, s, k) ==
  /\ OfItsFile(d) /\ OfItsFile(s)
  /\ s.key <= k
  /\ d.state \in {"none", "gone"} => s = NoScan

AreTypes ==
  /\ document \in [Projects -> [Ids -> Document]]
  /\ scanned \in [Projects -> [Ids -> Scan]]
  /\ reading \in [Projects -> {0, 1}]
  /\ life \in [up : BOOLEAN, swept : BOOLEAN, key : Nat \ {0}]
  /\ owes \subseteq Projects /\ missed \subseteq Projects

AskedInv ==
  /\ asked \in Seq(Projects)
  /\ \A i, j \in 1..Len(asked) : i # j => asked[i] # asked[j]
  /\ asked # <<>> => drain.at # "off" /\ life.up

DrainInv ==
  /\ drain \in Pass
  /\ drain.at \in {"select", "scan"} => drain.project \in Projects
  /\ drain.at = "scan" <=> drain.batch # <<>>
  /\ \A j, k \in 1..Len(drain.batch) : j < k => drain.batch[j].id < drain.batch[k].id
  /\ \A j \in 1..Len(drain.batch) : OfItsFile(drain.batch[j])

PiiInv ==
  /\ AreTypes /\ AskedInv /\ DrainInv
  /\ \A p \in Projects, i \in Ids : RowsInv(document[p][i], scanned[p][i], life.key)
  /\ NothingIsForgotten

-----------------------------------------------------------------------------
Distinct(s) == \A i, j \in 1..Len(s) : i # j => s[i] # s[j]

\* What joins the queue joins it once.
LEMMA JoinedTo ==
  ASSUME NEW S, NEW s \in Seq(S), Distinct(s), NEW t \in Seq(S), Distinct(t), ToSet(t) \cap ToSet(s) = {}
  PROVE  s \o t \in Seq(S) /\ Distinct(s \o t) /\ ToSet(s \o t) = ToSet(s) \cup ToSet(t)
<1>1. /\ s \o t \in Seq(S) /\ Len(s) \in Nat /\ Len(t) \in Nat /\ Len(s \o t) = Len(s) + Len(t)
      /\ DOMAIN s = 1..Len(s) /\ DOMAIN t = 1..Len(t) /\ DOMAIN (s \o t) = 1..Len(s) + Len(t)
      /\ \A i \in 1..Len(s) : (s \o t)[i] = s[i]
  OBVIOUS
<1>2. \A j \in 1..Len(t) : Len(s) + j \in 1..Len(s) + Len(t) /\ (s \o t)[Len(s) + j] = t[j]
  BY <1>1
<1>3. \A i \in 1..Len(s) + Len(t) : i \in 1..Len(s) \/ \E j \in 1..Len(t) : i = Len(s) + j
  <2>1. ASSUME NEW i \in 1..Len(s) + Len(t), i \notin 1..Len(s) PROVE i - Len(s) \in 1..Len(t) /\ i = Len(s) + (i - Len(s))
    BY <1>1, <2>1
  <2>. QED  BY <2>1
<1>4. \A i \in 1..Len(s) : s[i] \in ToSet(s)
  BY <1>1 DEF ToSet
<1>5. \A j \in 1..Len(t) : t[j] \in ToSet(t)
  BY <1>1 DEF ToSet
<1>6. ToSet(s \o t) = ToSet(s) \cup ToSet(t)
  <2>1. ASSUME NEW x \in ToSet(s \o t) PROVE x \in ToSet(s) \cup ToSet(t)
    <3>1. PICK i \in 1..Len(s) + Len(t) : x = (s \o t)[i]
      BY <1>1, <2>1 DEF ToSet
    <3>. QED  BY <1>1, <1>2, <1>3, <1>4, <1>5, <3>1
  <2>2. ASSUME NEW i \in 1..Len(s) PROVE s[i] \in ToSet(s \o t)
    <3>1. i \in 1..Len(s) + Len(t) /\ (s \o t)[i] = s[i]
      BY <1>1
    <3>. QED  BY <1>1, <3>1 DEF ToSet
  <2>3. ASSUME NEW j \in 1..Len(t) PROVE t[j] \in ToSet(s \o t)
    BY <1>1, <1>2 DEF ToSet
  <2>4. \A x \in ToSet(s) : \E i \in 1..Len(s) : x = s[i]
    BY <1>1 DEF ToSet
  <2>5. \A x \in ToSet(t) : \E j \in 1..Len(t) : x = t[j]
    BY <1>1 DEF ToSet
  <2>. QED  BY <2>1, <2>2, <2>3, <2>4, <2>5
<1>7. Distinct(s \o t)
  <2>1. ASSUME NEW i \in 1..Len(s) + Len(t), NEW j \in 1..Len(s) + Len(t), i # j PROVE (s \o t)[i] # (s \o t)[j]
    <3>1. CASE i \in 1..Len(s) /\ j \in 1..Len(s)
      BY <1>1, <2>1, <3>1 DEF Distinct
    <3>2. CASE i \in 1..Len(s) /\ j \notin 1..Len(s)
      <4>1. PICK k \in 1..Len(t) : j = Len(s) + k
        BY <1>3, <3>2
      <4>. QED  BY <1>1, <1>2, <1>4, <1>5, <3>2, <4>1
    <3>3. CASE i \notin 1..Len(s) /\ j \in 1..Len(s)
      <4>1. PICK k \in 1..Len(t) : i = Len(s) + k
        BY <1>3, <3>3
      <4>. QED  BY <1>1, <1>2, <1>4, <1>5, <3>3, <4>1
    <3>4. CASE i \notin 1..Len(s) /\ j \notin 1..Len(s)
      <4>1. PICK k \in 1..Len(t), l \in 1..Len(t) : i = Len(s) + k /\ j = Len(s) + l
        BY <1>3, <3>4
      <4>2. k # l
        BY <2>1, <4>1
      <4>. QED  BY <1>2, <4>1, <4>2 DEF Distinct
    <3>. QED  BY <3>1, <3>2, <3>3, <3>4
  <2>. QED  BY <1>1, <2>1 DEF Distinct
<1>. QED  BY <1>1, <1>6, <1>7


-----------------------------------------------------------------------------
(* What the invariant says of one document.                                *)

IsDue(d, s, k) == d.state = "live" /\ (s.key = 0 \/ s.hash # d.hash \/ s.key # k)

\* A pass has the document ahead of it, as it is.
Ahead(q, p, i, h) ==
  /\ q.project = p
  /\ \/ q.at = "select" /\ i > q.after
     \/ q.at = "scan" /\ (i > Last(q.batch).id \/ \E d \in ToSet(q.batch) : d.id = i /\ d.hash = h)

Reached(p, i, h, ow, as, q) == p \in ow \/ p \in ToSet(as) \/ Ahead(q, p, i, h)

LEMMA ForgottenIs ==
  NothingIsForgotten <=>
    (life.up /\ life.swept =>
       \A p \in Projects \ missed, i \in Ids :
         IsDue(document[p][i], scanned[p][i], life.key) /\ document[p][i].hash # 0
           => Reached(p, i, document[p][i].hash, owes, asked, drain))
BY DEF NothingIsForgotten, Due, IsDue, Reached, Ahead

LEMMA ForgottenNextIs ==
  NothingIsForgotten' <=>
    (life'.up /\ life'.swept =>
       \A p \in Projects \ missed', i \in Ids :
         IsDue(document'[p][i], scanned'[p][i], life'.key) /\ document'[p][i].hash # 0
           => Reached(p, i, document'[p][i].hash, owes', asked', drain'))
BY DEF NothingIsForgotten, Due, IsDue, Reached, Ahead

\* What a change makes of a document: it is well formed, and is due only if it was, as it was, or
\* has no text, or its project is to be asked about or is excused.
Fares(d, s, d1, s1, k, told) ==
  /\ d1 \in Document /\ s1 \in Scan /\ RowsInv(d1, s1, k)
  /\ IsDue(d1, s1, k) /\ d1.hash # 0 => told \/ (IsDue(d, s, k) /\ d1.hash = d.hash)

\* Changes of documents are steps of the invariant.
LEMMA ChangesKeep ==
  ASSUME PiiInv, UNCHANGED <<asked, drain, life>>,
         document' \in [Projects -> [Ids -> Document]], scanned' \in [Projects -> [Ids -> Scan]],
         reading' \in [Projects -> {0, 1}],
         owes \subseteq owes', owes' \subseteq Projects, missed \subseteq missed', missed' \subseteq Projects,
         \A p \in Projects, i \in Ids :
           Fares(document[p][i], scanned[p][i], document'[p][i], scanned'[p][i], life.key,
                 p \in owes' \/ p \in missed')
  PROVE  PiiInv'
<1>1. AreTypes'
  BY DEF PiiInv, AreTypes
<1>2. AskedInv' /\ DrainInv'
  BY DEF PiiInv, AskedInv, DrainInv, OfItsFile
<1>3. \A p \in Projects, i \in Ids : RowsInv(document'[p][i], scanned'[p][i], life'.key)
  BY DEF Fares
<1>4. NothingIsForgotten'
  <2>1. SUFFICES ASSUME life'.up, life'.swept, NEW p \in Projects \ missed', NEW i \in Ids,
                        IsDue(document'[p][i], scanned'[p][i], life'.key), document'[p][i].hash # 0
                 PROVE  Reached(p, i, document'[p][i].hash, owes', asked', drain')
    BY ForgottenNextIs
  <2>2. p \in owes' \/ (IsDue(document[p][i], scanned[p][i], life.key) /\ document'[p][i].hash = document[p][i].hash)
    BY <2>1 DEF Fares
  <2>3. CASE p \in owes'
    BY <2>3 DEF Reached
  <2>4. CASE p \notin owes'
    <3>1. Reached(p, i, document[p][i].hash, owes, asked, drain)
      BY <2>1, <2>2, <2>4, ForgottenIs DEF PiiInv
    <3>. QED  BY <2>2, <2>4, <3>1 DEF Reached
  <2>. QED  BY <2>3, <2>4
<1>5. (\A p \in Projects, i \in Ids : RowsInv(document[p][i], scanned[p][i], life.key))'
  BY <1>3
<1>. QED  BY <1>1, <1>2, <1>4, <1>5 DEF PiiInv

\* A document nothing happens to.
LEMMA Untouched ==
  ASSUME PiiInv, NEW p \in Projects, NEW i \in Ids, NEW told \in BOOLEAN
  PROVE  Fares(document[p][i], scanned[p][i], document[p][i], scanned[p][i], life.key, told)
<1>1. document[p][i] \in Document /\ scanned[p][i] \in Scan
  BY DEF PiiInv, AreTypes
<1>. QED  BY <1>1 DEF PiiInv, Fares

LEMMA NoScanIs == NoScan \in Scan /\ NoScan.hash = 0 /\ NoScan.key = 0 /\ OfItsFile(NoScan)
BY DEF NoScan, Scan, Text, OfItsFile

LEMMA FreshIs ==
  ASSUME NEW r \in Nat
  PROVE  Fresh(r) \in Document /\ OfItsFile(Fresh(r)) /\ Fresh(r).state = "live" /\ Fresh(r).hash = 1
BY PiiAssumption DEF Fresh, Document, Text, OfItsFile

LEMMA NoDocumentIs == NoDocument \in Document /\ OfItsFile(NoDocument) /\ NoDocument.state = "none"
BY PiiAssumption DEF NoDocument, Document, Text, OfItsFile

\* Every row of the two tables.
LEMMA RowsAre ==
  ASSUME PiiInv, NEW p \in Projects, NEW i \in Ids
  PROVE  /\ document[p][i] \in Document /\ scanned[p][i] \in Scan
         /\ RowsInv(document[p][i], scanned[p][i], life.key)
         /\ reading[p] \in Nat /\ life.key \in Nat \ {0} /\ i \in Nat
BY PiiAssumption DEF PiiInv, AreTypes, Ids

-----------------------------------------------------------------------------
(* The indexer.                                                            *)

LEMMA RewriteStep == ASSUME PiiInv, NEW p \in Projects, NEW i \in Ids, Rewrite(p, i) PROVE PiiInv'
<1>1. PICK r \in Revisions(document[p][i]) :
        document' = [document EXCEPT ![p][i] = [state |-> "live", hash |-> r, text |-> <<r, reading[p]>>]]
  BY DEF Rewrite, Put
<1>2. owes' = owes \cup {p} /\ UNCHANGED <<scanned, reading, asked, drain, life, missed>>
  BY DEF Rewrite
<1>3. r \in 1..MaxRevision
  BY PiiAssumption DEF Revisions
<1>4. PICK new : new = [state |-> "live", hash |-> r, text |-> <<r, reading[p]>>]
  OBVIOUS
<1>5. new \in Document /\ OfItsFile(new) /\ new.state = "live"
  BY <1>3, <1>4, RowsAre, PiiAssumption DEF Document, Text, OfItsFile
<1>6. document' = [document EXCEPT ![p][i] = new] /\ document \in [Projects -> [Ids -> Document]]
  BY <1>1, <1>4 DEF PiiInv, AreTypes
<1>7. document' \in [Projects -> [Ids -> Document]]
  BY <1>5, <1>6
<1>8. /\ document'[p][i] = new
      /\ \A q \in Projects, j \in Ids : q # p \/ j # i => document'[q][j] = document[q][j]
  BY <1>6
<1>9. ASSUME NEW q \in Projects, NEW j \in Ids
      PROVE  Fares(document[q][j], scanned[q][j], document'[q][j], scanned'[q][j], life.key, q \in owes' \/ q \in missed')
  <2>1. CASE q = p /\ j = i
    BY <1>2, <1>5, <1>8, <2>1, RowsAre DEF Fares, RowsInv
  <2>2. CASE q # p \/ j # i
    BY <1>2, <1>8, <2>2, Untouched
  <2>. QED  BY <2>1, <2>2
<1>. QED  BY <1>2, <1>7, <1>9, ChangesKeep DEF PiiInv, AreTypes

LEMMA RemoveStep == ASSUME PiiInv, NEW p \in Projects, NEW i \in Ids, RemoveDocument(p, i) PROVE PiiInv'
<1>1. /\ document' = [document EXCEPT ![p][i].state = "gone"]
      /\ scanned' = [scanned EXCEPT ![p][i] = NoScan]
      /\ owes' = owes \cup {p} /\ UNCHANGED <<reading, asked, drain, life, missed>>
  BY DEF RemoveDocument
<1>2. document \in [Projects -> [Ids -> Document]] /\ scanned \in [Projects -> [Ids -> Scan]]
  BY DEF PiiInv, AreTypes
<1>3. PICK new : new = [document[p][i] EXCEPT !.state = "gone"]
  OBVIOUS
<1>4. new \in Document /\ OfItsFile(new) /\ new.state = "gone"
  BY <1>3, RowsAre DEF Document, OfItsFile, RowsInv
<1>5. document' = [document EXCEPT ![p][i] = new]
  BY <1>1, <1>2, <1>3
<1>6. document' \in [Projects -> [Ids -> Document]] /\ scanned' \in [Projects -> [Ids -> Scan]]
  <2>1. document' \in [Projects -> [Ids -> Document]]
    BY <1>2, <1>4, <1>5
  <2>2. scanned' \in [Projects -> [Ids -> Scan]]
    BY <1>1, <1>2, NoScanIs
  <2>. QED  BY <2>1, <2>2
<1>7. /\ document'[p][i] = new /\ scanned'[p][i] = NoScan
      /\ \A q \in Projects, j \in Ids : q # p \/ j # i =>
           document'[q][j] = document[q][j] /\ scanned'[q][j] = scanned[q][j]
  BY <1>1, <1>2, <1>5
<1>8. ASSUME NEW q \in Projects, NEW j \in Ids
      PROVE  Fares(document[q][j], scanned[q][j], document'[q][j], scanned'[q][j], life.key, q \in owes' \/ q \in missed')
  <2>1. CASE q = p /\ j = i
    BY <1>4, <1>7, <2>1, RowsAre, NoScanIs DEF Fares, RowsInv, IsDue
  <2>2. CASE q # p \/ j # i
    BY <1>1, <1>7, <2>2, Untouched
  <2>. QED  BY <2>1, <2>2
<1>. QED  BY <1>1, <1>6, <1>8, ChangesKeep DEF PiiInv, AreTypes

LEMMA SwapStep == ASSUME PiiInv, NEW p \in Projects, SwapGeneration(p) PROVE PiiInv'
<1>1. PICK new \in SUBSET {i \in Ids : document[p][i].state = "none"} :
        document' = [document EXCEPT ![p] = [i \in Ids |->
            IF i \in new THEN Fresh(reading[p])
            ELSE IF @[i].state = "live" THEN [@[i] EXCEPT !.state = "old"] ELSE @[i]]]
  BY DEF SwapGeneration
<1>2. owes' = owes \cup {p} /\ UNCHANGED <<scanned, reading, asked, drain, life, missed>>
  BY DEF SwapGeneration
<1>3. document \in [Projects -> [Ids -> Document]] /\ reading[p] \in Nat
  BY DEF PiiInv, AreTypes
<1>4. PICK rows : rows = [i \in Ids |-> IF i \in new THEN Fresh(reading[p])
            ELSE IF document[p][i].state = "live" THEN [document[p][i] EXCEPT !.state = "old"] ELSE document[p][i]]
  OBVIOUS
<1>5. document' = [document EXCEPT ![p] = rows]
  BY <1>1, <1>3, <1>4
<1>6. ASSUME NEW j \in Ids
      PROVE  rows[j] \in Document /\ RowsInv(rows[j], scanned[p][j], life.key)
  <2>1. document[p][j] \in Document /\ scanned[p][j] \in Scan /\ RowsInv(document[p][j], scanned[p][j], life.key)
    BY RowsAre
  <2>2. CASE j \in new
    <3>1. rows[j] = Fresh(reading[p])
      BY <1>4, <2>2
    <3>. QED  BY <1>3, <2>1, <3>1, FreshIs, PiiAssumption DEF RowsInv
  <2>3. CASE j \notin new /\ document[p][j].state = "live"
    <3>1. rows[j] = [document[p][j] EXCEPT !.state = "old"]
      BY <1>4, <2>3
    <3>2. rows[j] \in Document /\ rows[j].state = "old" /\ rows[j].hash = document[p][j].hash /\ rows[j].text = document[p][j].text
      BY <2>1, <3>1 DEF Document
    <3>. QED  BY <2>1, <2>3, <3>2 DEF RowsInv, OfItsFile
  <2>4. CASE j \notin new /\ document[p][j].state # "live"
    BY <1>4, <2>1, <2>4
  <2>. QED  BY <2>2, <2>3, <2>4
<1>7. document' \in [Projects -> [Ids -> Document]]
  <2>1. rows \in [Ids -> Document]
    BY <1>4, <1>6
  <2>. QED  BY <1>3, <1>5, <2>1
<1>8. document'[p] = rows /\ \A q \in Projects : q # p => document'[q] = document[q]
  BY <1>3, <1>5
<1>9. ASSUME NEW q \in Projects, NEW j \in Ids
      PROVE  Fares(document[q][j], scanned[q][j], document'[q][j], scanned'[q][j], life.key, q \in owes' \/ q \in missed')
  <2>1. CASE q = p
    BY <1>2, <1>6, <1>8, <2>1, RowsAre DEF Fares
  <2>2. CASE q # p
    BY <1>2, <1>8, <2>2, Untouched
  <2>. QED  BY <2>1, <2>2
<1>. QED  BY <1>2, <1>7, <1>9, ChangesKeep DEF PiiInv, AreTypes

LEMMA ImportStep == ASSUME PiiInv, NEW p \in Projects, ImportProject(p) PROVE PiiInv'
<1>1. PICK new \in SUBSET Ids \ {{}} :
        document' = [document EXCEPT ![p] = [i \in Ids |-> IF i \in new THEN Fresh(reading[p]) ELSE @[i]]]
  BY DEF ImportProject
<1>2. missed' = missed \cup {p} /\ UNCHANGED <<scanned, reading, owes, asked, drain, life>>
  BY DEF ImportProject
<1>3. document \in [Projects -> [Ids -> Document]] /\ reading[p] \in Nat
  BY DEF PiiInv, AreTypes
<1>4. PICK rows : rows = [i \in Ids |-> IF i \in new THEN Fresh(reading[p]) ELSE document[p][i]]
  OBVIOUS
<1>5. document' = [document EXCEPT ![p] = rows]
  BY <1>1, <1>3, <1>4
<1>6. ASSUME NEW j \in Ids
      PROVE  rows[j] \in Document /\ RowsInv(rows[j], scanned[p][j], life.key)
  <2>1. document[p][j] \in Document /\ scanned[p][j] \in Scan /\ RowsInv(document[p][j], scanned[p][j], life.key)
    BY RowsAre
  <2>2. CASE j \in new
    <3>1. rows[j] = Fresh(reading[p])
      BY <1>4, <2>2
    <3>. QED  BY <1>3, <2>1, <3>1, FreshIs, PiiAssumption DEF RowsInv
  <2>3. CASE j \notin new
    BY <1>4, <2>1, <2>3
  <2>. QED  BY <2>2, <2>3
<1>7. document' \in [Projects -> [Ids -> Document]]
  <2>1. rows \in [Ids -> Document]
    BY <1>4, <1>6
  <2>. QED  BY <1>3, <1>5, <2>1
<1>8. document'[p] = rows /\ \A q \in Projects : q # p => document'[q] = document[q]
  BY <1>3, <1>5
<1>9. ASSUME NEW q \in Projects, NEW j \in Ids
      PROVE  Fares(document[q][j], scanned[q][j], document'[q][j], scanned'[q][j], life.key, q \in owes' \/ q \in missed')
  <2>1. CASE q = p
    BY <1>2, <1>6, <1>8, <2>1, RowsAre DEF Fares
  <2>2. CASE q # p
    BY <1>2, <1>8, <2>2, Untouched
  <2>. QED  BY <2>1, <2>2
<1>. QED  BY <1>2, <1>7, <1>9, ChangesKeep DEF PiiInv, AreTypes

LEMMA SweepOldStep == ASSUME PiiInv, NEW p \in Projects, SweepOld(p) PROVE PiiInv'
<1>1. /\ document' = [document EXCEPT ![p] = [i \in Ids |->
                    IF @[i].state = "old" THEN [@[i] EXCEPT !.state = "gone"] ELSE @[i]]]
      /\ scanned' = [scanned EXCEPT ![p] = [i \in Ids |->
                    IF document[p][i].state = "old" THEN NoScan ELSE @[i]]]
      /\ UNCHANGED <<reading, owes, asked, drain, life, missed>>
  BY DEF SweepOld
<1>2. document \in [Projects -> [Ids -> Document]] /\ scanned \in [Projects -> [Ids -> Scan]]
  BY DEF PiiInv, AreTypes
<1>3. PICK rows : rows = [i \in Ids |->
        IF document[p][i].state = "old" THEN [document[p][i] EXCEPT !.state = "gone"] ELSE document[p][i]]
  OBVIOUS
<1>4. PICK scans : scans = [i \in Ids |-> IF document[p][i].state = "old" THEN NoScan ELSE scanned[p][i]]
  OBVIOUS
<1>5. document' = [document EXCEPT ![p] = rows] /\ scanned' = [scanned EXCEPT ![p] = scans]
  BY <1>1, <1>2, <1>3, <1>4
<1>6. ASSUME NEW j \in Ids
      PROVE  Fares(document[p][j], scanned[p][j], rows[j], scans[j], life.key, FALSE)
  <2>1. document[p][j] \in Document /\ scanned[p][j] \in Scan /\ RowsInv(document[p][j], scanned[p][j], life.key)
    BY RowsAre
  <2>2. CASE document[p][j].state = "old"
    <3>1. rows[j] = [document[p][j] EXCEPT !.state = "gone"] /\ scans[j] = NoScan
      BY <1>3, <1>4, <2>2
    <3>2. rows[j] \in Document /\ rows[j].state = "gone" /\ rows[j].hash = document[p][j].hash /\ rows[j].text = document[p][j].text
      BY <2>1, <3>1 DEF Document
    <3>. QED  BY <2>1, <3>1, <3>2, NoScanIs, RowsAre DEF Fares, RowsInv, OfItsFile, IsDue
  <2>3. CASE document[p][j].state # "old"
    BY <1>3, <1>4, <2>1, <2>3 DEF Fares
  <2>. QED  BY <2>2, <2>3
<1>7. document' \in [Projects -> [Ids -> Document]] /\ scanned' \in [Projects -> [Ids -> Scan]]
  <2>1. rows \in [Ids -> Document] /\ scans \in [Ids -> Scan]
    BY <1>3, <1>4, <1>6 DEF Fares
  <2>. QED  BY <1>2, <1>5, <2>1
<1>8. /\ document'[p] = rows /\ scanned'[p] = scans
      /\ \A q \in Projects : q # p => document'[q] = document[q] /\ scanned'[q] = scanned[q]
  BY <1>2, <1>5
<1>9. ASSUME NEW q \in Projects, NEW j \in Ids
      PROVE  Fares(document[q][j], scanned[q][j], document'[q][j], scanned'[q][j], life.key, q \in owes' \/ q \in missed')
  <2>1. CASE q = p
    BY <1>6, <1>8, <2>1 DEF Fares
  <2>2. CASE q # p
    BY <1>8, <2>2, Untouched
  <2>. QED  BY <2>1, <2>2
<1>. QED  BY <1>1, <1>7, <1>9, ChangesKeep DEF PiiInv, AreTypes

LEMMA ChangeReadingStep == ASSUME PiiInv, NEW p \in Projects, ChangeReading(p) PROVE PiiInv'
<1>1. /\ reading' = [reading EXCEPT ![p] = 1 - @]
      /\ document' = [document EXCEPT ![p] = [i \in Ids |->
                    IF @[i].state = "live" THEN [@[i] EXCEPT !.hash = 0] ELSE @[i]]]
      /\ UNCHANGED <<scanned, owes, asked, drain, life, missed>>
  BY DEF ChangeReading
<1>2. document \in [Projects -> [Ids -> Document]] /\ scanned \in [Projects -> [Ids -> Scan]]
  BY DEF PiiInv, AreTypes
<1>3. PICK rows : rows = [i \in Ids |->
        IF document[p][i].state = "live" THEN [document[p][i] EXCEPT !.hash = 0] ELSE document[p][i]]
  OBVIOUS
<1>4. reading' \in [Projects -> {0, 1}]
  <2>1. reading \in [Projects -> {0, 1}] /\ 1 - reading[p] \in {0, 1}
    BY DEF PiiInv, AreTypes
  <2>. QED  BY <1>1, <2>1
<1>5. document' = [document EXCEPT ![p] = rows]
  BY <1>1, <1>2, <1>3
<1>6. ASSUME NEW j \in Ids
      PROVE  Fares(document[p][j], scanned[p][j], rows[j], scanned[p][j], life.key, FALSE)
  <2>1. document[p][j] \in Document /\ scanned[p][j] \in Scan /\ RowsInv(document[p][j], scanned[p][j], life.key)
    BY RowsAre
  <2>2. CASE document[p][j].state = "live"
    <3>1. rows[j] = [document[p][j] EXCEPT !.hash = 0]
      BY <1>3, <2>2
    <3>2. rows[j] \in Document /\ rows[j].state = "live" /\ rows[j].hash = 0
      BY <2>1, <2>2, <3>1, PiiAssumption DEF Document
    <3>. QED  BY <2>1, <2>2, <3>2 DEF Fares, RowsInv, OfItsFile
  <2>3. CASE document[p][j].state # "live"
    BY <1>3, <2>1, <2>3 DEF Fares
  <2>. QED  BY <2>2, <2>3
<1>7. document' \in [Projects -> [Ids -> Document]]
  <2>1. rows \in [Ids -> Document]
    BY <1>3, <1>6 DEF Fares
  <2>. QED  BY <1>2, <1>5, <2>1
<1>8. document'[p] = rows /\ \A q \in Projects : q # p => document'[q] = document[q]
  BY <1>2, <1>5
<1>9. ASSUME NEW q \in Projects, NEW j \in Ids
      PROVE  Fares(document[q][j], scanned[q][j], document'[q][j], scanned'[q][j], life.key, q \in owes' \/ q \in missed')
  <2>1. CASE q = p
    BY <1>1, <1>6, <1>8, <2>1 DEF Fares
  <2>2. CASE q # p
    BY <1>1, <1>8, <2>2, Untouched
  <2>. QED  BY <2>1, <2>2
<1>. QED  BY <1>1, <1>4, <1>7, <1>9, ChangesKeep DEF PiiInv, AreTypes

-----------------------------------------------------------------------------
(* The scanner.                                                            *)

LEMMA PassIs ==
  ASSUME PiiInv
  PROVE  /\ drain \in Pass /\ drain.after \in Nat /\ drain.batch \in Seq(Entry)
         /\ NoPass \in Pass /\ NoPass.batch = <<>> /\ NoPass.after = 0
         /\ \A p \in Projects, i \in Ids, h \in Nat : ~Ahead(NoPass, p, i, h)
  BY DEF PiiInv, DrainInv, Pass, NoPass, Ahead

\* Where the documents and what is asked stay, only the pass moves.
LEMMA PassKeeps ==
  ASSUME PiiInv, UNCHANGED <<document, scanned, reading, owes, life>>, DrainInv',
         asked' \in Seq(Projects), \A i, j \in 1..Len(asked') : i # j => asked'[i] # asked'[j],
         asked' # <<>> => drain'.at # "off" /\ life'.up,
         missed \subseteq missed', missed' \subseteq Projects,
         life.up /\ life.swept => \A p \in Projects \ missed', i \in Ids :
           IsDue(document[p][i], scanned[p][i], life.key) /\ document[p][i].hash # 0
           /\ Reached(p, i, document[p][i].hash, owes, asked, drain)
             => Reached(p, i, document[p][i].hash, owes, asked', drain')
  PROVE  PiiInv'
<1>1. AreTypes'
  BY DEF PiiInv, AreTypes
<1>2. AskedInv'
  BY DEF AskedInv
<1>3. (\A p \in Projects, i \in Ids : RowsInv(document[p][i], scanned[p][i], life.key))'
  BY DEF PiiInv
<1>4. NothingIsForgotten'
  <2>1. SUFFICES ASSUME life'.up, life'.swept, NEW p \in Projects \ missed', NEW i \in Ids,
                        IsDue(document'[p][i], scanned'[p][i], life'.key), document'[p][i].hash # 0
                 PROVE  Reached(p, i, document'[p][i].hash, owes', asked', drain')
    BY ForgottenNextIs
  <2>2. Reached(p, i, document[p][i].hash, owes, asked, drain)
    BY <2>1, ForgottenIs DEF PiiInv
  <2>. QED  BY <2>1, <2>2
<1>. QED  BY <1>1, <1>2, <1>3, <1>4 DEF PiiInv

LEMMA TakeStep == ASSUME PiiInv, Take PROVE PiiInv'
<1>1. drain.at = "loop" /\ UNCHANGED <<document, scanned, reading, owes, life, missed>>
  BY DEF Take
<1>2. asked \in Seq(Projects) /\ \A i, j \in 1..Len(asked) : i # j => asked[i] # asked[j]
  BY DEF PiiInv, AskedInv
<1>3. \A p, i, h : ~Ahead(drain, p, i, h)
  BY <1>1 DEF Ahead
<1>4. CASE life.up /\ asked # <<>>
  <2>1. drain' = [NoPass EXCEPT !.at = "select", !.project = Head(asked)] /\ asked' = Tail(asked)
    BY <1>4 DEF Take
  <2>2. /\ asked' \in Seq(Projects) /\ Len(asked) \in Nat \ {0} /\ Len(asked') = Len(asked) - 1 /\ Head(asked) = asked[1]
        /\ \A i \in 1..Len(asked') : asked'[i] = asked[i + 1] /\ i + 1 \in 1..Len(asked)
        /\ DOMAIN asked = 1..Len(asked) /\ DOMAIN asked' = 1..Len(asked')
    BY <1>2, <1>4, <2>1
  <2>3. \A i, j \in 1..Len(asked') : i # j => asked'[i] # asked'[j]
    BY <1>2, <2>2
  <2>4. drain'.at = "select" /\ drain'.project = Head(asked) /\ drain'.after = 0 /\ drain'.batch = <<>> /\ drain' \in Pass
    <3>1. Head(asked) \in Projects
      BY <1>2, <1>4
    <3>. QED  BY <2>1, <3>1, PassIs DEF Pass
  <2>5. DrainInv'
    BY <1>2, <2>2, <2>4 DEF DrainInv
  <2>6. ASSUME NEW p \in Projects, p \in ToSet(asked), p \notin ToSet(asked') PROVE p = Head(asked)
    <3>1. PICK k \in 1..Len(asked) : p = asked[k]
      BY <2>2, <2>6 DEF ToSet
    <3>2. CASE k # 1
      <4>1. k - 1 \in 1..Len(asked') /\ asked'[k - 1] = p
        BY <2>2, <3>1, <3>2
      <4>. QED  BY <2>2, <2>6, <4>1 DEF ToSet
    <3>. QED  BY <2>2, <3>1, <3>2
  <2>7. ASSUME NEW p \in Projects, NEW i \in Ids, NEW h, Reached(p, i, h, owes, asked, drain)
        PROVE  Reached(p, i, h, owes, asked', drain')
    <3>1. i > 0
      BY PiiAssumption DEF Ids
    <3>. QED  BY <1>3, <2>4, <2>6, <2>7, <3>1 DEF Reached, Ahead
  <2>. QED  BY <1>1, <1>4, <2>2, <2>3, <2>4, <2>5, <2>7, PassKeeps DEF PiiInv, AreTypes
<1>5. CASE ~(life.up /\ asked # <<>>)
  <2>1. drain' = [NoPass EXCEPT !.at = "ending"] /\ asked' = asked
    BY <1>5 DEF Take
  <2>2. drain'.at = "ending" /\ drain'.batch = <<>> /\ drain' \in Pass
    BY <2>1, PassIs DEF Pass
  <2>3. DrainInv'
    BY <2>2 DEF DrainInv
  <2>4. asked # <<>> => life.up
    BY DEF PiiInv, AskedInv
  <2>5. ASSUME NEW p \in Projects, NEW i \in Ids, NEW h, Reached(p, i, h, owes, asked, drain)
        PROVE  Reached(p, i, h, owes, asked', drain')
    BY <1>3, <2>1, <2>5 DEF Reached
  <2>6. asked' \in Seq(Projects) /\ \A i, j \in 1..Len(asked') : i # j => asked'[i] # asked'[j]
    BY <1>2, <2>1
  <2>7. asked' # <<>> => drain'.at # "off" /\ life'.up
    BY <1>1, <2>1, <2>2, <2>4
  <2>8. missed \subseteq missed' /\ missed' \subseteq Projects
    BY <1>1 DEF PiiInv, AreTypes
  <2>. QED  BY <1>1, <2>3, <2>5, <2>6, <2>7, <2>8, PassKeeps
<1>. QED  BY <1>4, <1>5

\* Back to the loop, where nothing that was ahead has to be: the pass failed, or the process stops.
LEMMA GivesUpKeeps ==
  ASSUME PiiInv, drain' = [NoPass EXCEPT !.at = "loop"],
         drain.at \in {"select", "scan"},
         UNCHANGED <<document, scanned, reading, owes, asked, life>>,
         missed \subseteq missed', missed' \subseteq Projects,
         ~life.up \/ drain.project \in missed'
  PROVE  PiiInv'
<1>1. drain'.at = "loop" /\ drain'.batch = <<>> /\ drain' \in Pass
  BY PassIs DEF Pass
<1>2. DrainInv'
  BY <1>1 DEF DrainInv
<1>3. ASSUME life.up, NEW p \in Projects \ missed', NEW i \in Ids, NEW h, Reached(p, i, h, owes, asked, drain)
      PROVE  Reached(p, i, h, owes, asked', drain')
  BY <1>3 DEF Reached, Ahead
<1>. QED  BY <1>1, <1>2, <1>3, PassKeeps DEF PiiInv, AskedInv

LEMMA SelectFailsStep == ASSUME PiiInv, SelectFails PROVE PiiInv'
<1>1. drain.project \in Projects
  BY DEF SelectFails, PiiInv, DrainInv
<1>. QED  BY <1>1, GivesUpKeeps DEF SelectFails, PiiInv, AreTypes

\* The listed documents ascend, and those that are due and not listed are above them.
LEMMA UpwardIs ==
  ASSUME PiiInv, NEW p \in Projects, NEW after \in Nat, NEW up \in Upward(p, after)
  PROVE  \E n \in Nat :
           /\ up \in [1..n -> Ids] /\ up \in Seq(Ids) /\ Len(up) = n
           /\ \A j, k \in 1..n : j < k => up[j] < up[k]
           /\ \A i \in Ids : i > after /\ Due(p, i) => n # 0 /\ ((\E k \in 1..n : up[k] = i) \/ i > up[n])
<1>1. PICK due : due = {i \in Ids : i > after /\ Due(p, i)}
  OBVIOUS
<1>2. PICK n : n = IF Cardinality(due) < BatchSize THEN Cardinality(due) ELSE BatchSize
  OBVIOUS
<1>3. /\ up \in [1..n -> due] /\ \A j, k \in 1..n : j < k => up[j] < up[k]
      /\ \A i \in due \ ToSet(up), k \in 1..n : up[k] < i
  BY <1>1, <1>2 DEF Upward
<1>4. IsFiniteSet(due)
  <2>1. IsFiniteSet(1..MaxId)
    BY PiiAssumption, FS_Interval
  <2>2. due \subseteq 1..MaxId
    BY <1>1 DEF Ids
  <2>. QED  BY <2>1, <2>2, FS_Subset
<1>5. Cardinality(due) \in Nat /\ (Cardinality(due) = 0 => due = {})
  BY <1>4, FS_CardinalityType, FS_EmptySet
<1>6. n \in Nat /\ (n = 0 => due = {})
  BY <1>2, <1>5, PiiAssumption
<1>7. due \subseteq Ids
  BY <1>1
<1>8. up \in [1..n -> Ids] /\ up \in Seq(Ids) /\ Len(up) = n /\ DOMAIN up = 1..n
  BY <1>3, <1>6, <1>7
<1>9. ASSUME NEW i \in Ids, i > after, Due(p, i) PROVE n # 0 /\ ((\E k \in 1..n : up[k] = i) \/ i > up[n])
  <2>1. i \in due
    BY <1>1, <1>9
  <2>2. n # 0 /\ n \in 1..n
    BY <1>6, <2>1
  <2>3. CASE i \in ToSet(up)
    BY <1>8, <2>2, <2>3 DEF ToSet
  <2>4. CASE i \notin ToSet(up)
    <3>1. up[n] < i
      BY <1>3, <2>1, <2>2, <2>4
    <3>2. up[n] \in Nat /\ i \in Nat
      BY <1>8, <2>2, PiiAssumption DEF Ids
    <3>. QED  BY <2>2, <3>1, <3>2
  <2>. QED  BY <2>3, <2>4
<1>. QED  BY <1>3, <1>6, <1>8, <1>9

LEMMA SelectStep == ASSUME PiiInv, Select PROVE PiiInv'
<1>0. PICK p : p = drain.project
  OBVIOUS
<1>1. /\ drain.at = "select" /\ p \in Projects /\ drain.after \in Nat /\ drain \in Pass
      /\ UNCHANGED <<document, scanned, reading, owes, asked, life, missed>>
  BY <1>0, PassIs DEF Select, PiiInv, DrainInv
<1>2. PICK up \in Upward(p, drain.after) :
          drain' = IF life.up /\ up # <<>>
                   THEN [drain EXCEPT !.at = "scan", !.batch = [k \in 1..Len(up) |->
                           [id |-> up[k], hash |-> document[p][up[k]].hash, text |-> document[p][up[k]].text]]]
                   ELSE [NoPass EXCEPT !.at = "loop"]
  BY <1>0 DEF Select
<1>3. PICK n \in Nat :
           /\ up \in [1..n -> Ids] /\ up \in Seq(Ids) /\ Len(up) = n
           /\ \A j, k \in 1..n : j < k => up[j] < up[k]
           /\ \A i \in Ids : i > drain.after /\ Due(p, i) => n # 0 /\ ((\E k \in 1..n : up[k] = i) \/ i > up[n])
  BY <1>1, UpwardIs
<1>4. CASE ~life.up
  <2>1. drain' = [NoPass EXCEPT !.at = "loop"]
    BY <1>2, <1>4
  <2>. QED  BY <1>1, <1>4, <2>1, GivesUpKeeps DEF PiiInv, AreTypes
<1>5. CASE life.up /\ up = <<>>
  <2>1. n = 0 /\ drain' = [NoPass EXCEPT !.at = "loop"]
    BY <1>2, <1>3, <1>5
  <2>2. drain'.at = "loop" /\ drain'.batch = <<>> /\ drain' \in Pass
    BY <2>1, PassIs DEF Pass
  <2>3. DrainInv'
    BY <2>2 DEF DrainInv
  <2>4. ASSUME NEW q \in Projects, NEW i \in Ids, NEW h,
               IsDue(document[q][i], scanned[q][i], life.key), Reached(q, i, h, owes, asked, drain)
        PROVE  Reached(q, i, h, owes, asked', drain')
    <3>1. ~Ahead(drain, q, i, h)
      <4>1. q = p => ~(i > drain.after)
        BY <1>3, <2>1, <2>4 DEF Due, IsDue
      <4>. QED  BY <1>0, <1>1, <4>1 DEF Ahead
    <3>. QED  BY <1>1, <2>4, <3>1 DEF Reached
  <2>. QED  BY <1>1, <2>2, <2>3, <2>4, PassKeeps DEF PiiInv, AskedInv, AreTypes
<1>6. CASE life.up /\ up # <<>>
  <2>1. PICK batch : batch = [k \in 1..n |->
                           [id |-> up[k], hash |-> document[p][up[k]].hash, text |-> document[p][up[k]].text]]
    OBVIOUS
  <2>2. drain' = [drain EXCEPT !.at = "scan", !.batch = batch]
    BY <1>2, <1>3, <1>6, <2>1
  <2>3. n # 0
    BY <1>3, <1>6
  <2>4. ASSUME NEW k \in 1..n
        PROVE  /\ batch[k] \in Entry /\ batch[k].id = up[k] /\ batch[k].hash = document[p][up[k]].hash /\ OfItsFile(batch[k])
    <3>1. up[k] \in Ids
      BY <1>3
    <3>2. document[p][up[k]] \in Document /\ OfItsFile(document[p][up[k]])
      BY <1>1, <3>1, RowsAre DEF RowsInv
    <3>3. batch[k] = [id |-> up[k], hash |-> document[p][up[k]].hash, text |-> document[p][up[k]].text]
      BY <2>1
    <3>. QED  BY <3>1, <3>2, <3>3, PiiAssumption DEF Entry, Document, OfItsFile
  <2>5. batch \in Seq(Entry) /\ Len(batch) = n /\ DOMAIN batch = 1..n /\ batch # <<>>
    <3>1. batch \in [1..n -> Entry]
      BY <2>1, <2>4
    <3>. QED  BY <2>3, <3>1
  <2>6. /\ drain'.at = "scan" /\ drain'.project = p /\ drain'.batch = batch /\ drain' \in Pass
    BY <1>0, <1>1, <2>2, <2>5 DEF Pass
  <2>7. DrainInv'
    BY <1>1, <1>3, <2>4, <2>5, <2>6 DEF DrainInv
  <2>8. Last(batch).id = up[n] /\ \A k \in 1..n : batch[k] \in ToSet(batch)
    BY <2>3, <2>4, <2>5 DEF Last, ToSet
  <2>9. ASSUME NEW q \in Projects, NEW i \in Ids,
               IsDue(document[q][i], scanned[q][i], life.key), Reached(q, i, document[q][i].hash, owes, asked, drain)
        PROVE  Reached(q, i, document[q][i].hash, owes, asked', drain')
    <3>1. CASE ~Ahead(drain, q, i, document[q][i].hash)
      BY <1>1, <2>9, <3>1 DEF Reached
    <3>2. CASE Ahead(drain, q, i, document[q][i].hash)
      <4>1. q = p /\ i > drain.after /\ Due(p, i)
        BY <1>0, <1>1, <2>9, <3>2 DEF Ahead, Due, IsDue
      <4>2. CASE i > up[n]
        BY <2>6, <2>8, <4>1, <4>2 DEF Reached, Ahead
      <4>3. CASE \E k \in 1..n : up[k] = i
        BY <2>4, <2>6, <2>8, <4>1, <4>3 DEF Reached, Ahead
      <4>. QED  BY <1>3, <4>1, <4>2, <4>3
    <3>. QED  BY <3>1, <3>2
  <2>. QED  BY <1>1, <2>6, <2>7, <2>9, PassKeeps DEF PiiInv, AskedInv, AreTypes
<1>. QED  BY <1>4, <1>5, <1>6

LEMMA EndDrainStep == ASSUME PiiInv, EndDrain PROVE PiiInv'
<1>1. /\ drain.at = "ending" /\ UNCHANGED <<document, scanned, reading, owes, asked, life, missed>>
      /\ drain' = IF life.up /\ asked # <<>> THEN [NoPass EXCEPT !.at = "loop"] ELSE NoPass
  BY DEF EndDrain
<1>2. /\ drain'.at = (IF life.up /\ asked # <<>> THEN "loop" ELSE "off") /\ drain'.batch = <<>> /\ drain' \in Pass
  <2>1. NoPass.at = "off"
    BY DEF NoPass
  <2>. QED  BY <1>1, <2>1, PassIs DEF Pass
<1>3. DrainInv'
  BY <1>2 DEF DrainInv
<1>4. asked # <<>> => life.up
  BY DEF PiiInv, AskedInv
<1>5. ASSUME NEW p \in Projects, NEW i \in Ids, NEW h, Reached(p, i, h, owes, asked, drain)
      PROVE  Reached(p, i, h, owes, asked', drain')
  BY <1>1, <1>5 DEF Reached, Ahead
<1>6. asked' \in Seq(Projects) /\ \A i, j \in 1..Len(asked') : i # j => asked'[i] # asked'[j]
  BY <1>1 DEF PiiInv, AskedInv
<1>7. asked' # <<>> => drain'.at # "off" /\ life'.up
  BY <1>1, <1>2, <1>4
<1>8. missed \subseteq missed' /\ missed' \subseteq Projects
  BY <1>1 DEF PiiInv, AreTypes
<1>. QED  BY <1>1, <1>3, <1>5, <1>6, <1>7, <1>8, PassKeeps

\* What the rest of the batch is, and what the pass has ahead of it when the head of the batch is done.
LEMMA AdvancedIs ==
  ASSUME PiiInv, drain.at = "scan", NEW q, q = Advanced, NEW d, d = Head(drain.batch)
  PROVE  /\ d \in Entry /\ OfItsFile(d) /\ d.id \in Ids
         /\ q \in Pass /\ q.project = drain.project /\ q.at \in {"select", "scan"}
         /\ q.at = "scan" <=> q.batch # <<>>
         /\ \A j, k \in 1..Len(q.batch) : j < k => q.batch[j].id < q.batch[k].id
         /\ \A j \in 1..Len(q.batch) : OfItsFile(q.batch[j])
         /\ \A p, h : \A i \in Ids : Ahead(drain, p, i, h) /\ ~(d.id = i /\ d.hash = h) => Ahead(q, p, i, h)
<1>1. /\ drain.batch \in Seq(Entry) /\ drain.batch # <<>> /\ drain \in Pass
      /\ \A j, k \in 1..Len(drain.batch) : j < k => drain.batch[j].id < drain.batch[k].id
      /\ \A j \in 1..Len(drain.batch) : OfItsFile(drain.batch[j])
  BY PassIs DEF PiiInv, DrainInv
<1>2. PICK batch : batch = drain.batch
  OBVIOUS
<1>3. PICK rest : rest = Tail(batch)
  OBVIOUS
<1>4. PICK n : n = Len(batch)
  OBVIOUS
<1>5. /\ n \in Nat \ {0} /\ DOMAIN batch = 1..n /\ d = batch[1] /\ rest \in Seq(Entry) /\ Len(rest) = n - 1
      /\ DOMAIN rest = 1..(n - 1) /\ \A k \in 1..(n - 1) : rest[k] = batch[k + 1] /\ k + 1 \in 1..n
      /\ 1 \in 1..n /\ batch \in Seq(Entry)
  BY <1>1, <1>2, <1>3, <1>4
<1>6. d \in Entry /\ OfItsFile(d) /\ d.id \in Ids
  <2>1. batch[1] \in Entry
    BY <1>5
  <2>2. OfItsFile(batch[1])
    BY <1>1, <1>2, <1>4, <1>5
  <2>3. \A e \in Entry : e.id \in Ids
    BY DEF Entry
  <2>. QED  BY <1>5, <2>1, <2>2, <2>3
<1>7. q = IF rest = <<>> THEN [drain EXCEPT !.at = "select", !.after = d.id, !.batch = rest]
                    ELSE [drain EXCEPT !.batch = rest]
  BY <1>2, <1>3 DEF Advanced
<1>8. /\ q \in Pass /\ q.project = drain.project /\ q.batch = rest
      /\ rest = <<>> => q.at = "select" /\ q.after = d.id
      /\ rest # <<>> => q.at = "scan"
  <2>1. d.id \in Nat
    BY <1>6, PiiAssumption DEF Ids
  <2>. QED  BY <1>1, <1>5, <1>7, <2>1 DEF Pass
<1>9. \A j, k \in 1..Len(q.batch) : j < k => q.batch[j].id < q.batch[k].id
  <2>1. SUFFICES ASSUME NEW j \in 1..(n - 1), NEW k \in 1..(n - 1), j < k PROVE rest[j].id < rest[k].id
    BY <1>5, <1>8
  <2>2. rest[j] = batch[j + 1] /\ rest[k] = batch[k + 1] /\ j + 1 \in 1..n /\ k + 1 \in 1..n
    BY <1>5
  <2>3. j + 1 < k + 1
    BY <2>1
  <2>. QED  BY <1>1, <1>2, <1>4, <2>2, <2>3
<1>10. \A j \in 1..Len(q.batch) : OfItsFile(q.batch[j])
  BY <1>1, <1>2, <1>4, <1>5, <1>8
<1>11. ASSUME NEW p, NEW i \in Ids, NEW h, Ahead(drain, p, i, h), ~(d.id = i /\ d.hash = h)
       PROVE  Ahead(q, p, i, h)
  <2>1. drain.project = p /\ (i > Last(batch).id \/ \E e \in ToSet(batch) : e.id = i /\ e.hash = h)
    BY <1>2, <1>11 DEF Ahead
  <2>2. CASE rest = <<>>
    <3>1. n = 1
      BY <1>5, <2>2
    <3>2. Last(batch) = d /\ ToSet(batch) = {d}
      BY <1>4, <1>5, <3>1 DEF Last, ToSet
    <3>. QED  BY <1>8, <1>11, <2>1, <2>2, <3>2 DEF Ahead
  <2>3. CASE rest # <<>>
    <3>1. n > 1
      BY <1>5, <2>3
    <3>2. Last(rest) = Last(batch)
      <4>1. n - 1 \in 1..(n - 1) /\ n - 1 + 1 = n
        BY <1>5, <3>1
      <4>. QED  BY <1>4, <1>5, <4>1 DEF Last
    <3>3. ASSUME NEW e \in ToSet(batch), e # d PROVE e \in ToSet(rest)
      <4>1. PICK k \in 1..n : e = batch[k]
        BY <1>5 DEF ToSet
      <4>2. k # 1
        BY <1>5, <3>3, <4>1
      <4>3. k - 1 \in 1..(n - 1) /\ rest[k - 1] = e
        BY <1>5, <4>1, <4>2
      <4>. QED  BY <1>5, <4>3 DEF ToSet
    <3>4. i > Last(rest).id \/ \E e \in ToSet(rest) : e.id = i /\ e.hash = h
      BY <1>11, <2>1, <3>2, <3>3
    <3>. QED  BY <1>8, <2>1, <2>3, <3>4 DEF Ahead
  <2>. QED  BY <2>2, <2>3
<1>12. q.at \in {"select", "scan"} /\ (q.at = "scan" <=> q.batch # <<>>)
  BY <1>8
<1>. QED  BY <1>6, <1>8, <1>9, <1>10, <1>11, <1>12

LEMMA ScanFailsStep == ASSUME PiiInv, ScanFails PROVE PiiInv'
<1>1. /\ drain.at = "scan" /\ drain' = Advanced /\ missed' = missed \cup {drain.project}
      /\ UNCHANGED <<document, scanned, reading, owes, asked, life>>
  BY DEF ScanFails
<1>2. drain.project \in Projects
  BY <1>1 DEF PiiInv, DrainInv
<1>3. PICK q : q = Advanced
  OBVIOUS
<1>4. /\ q \in Pass /\ q.project = drain.project /\ q.at \in {"select", "scan"}
      /\ q.at = "scan" <=> q.batch # <<>>
      /\ \A j, k \in 1..Len(q.batch) : j < k => q.batch[j].id < q.batch[k].id
      /\ \A j \in 1..Len(q.batch) : OfItsFile(q.batch[j])
  BY <1>1, <1>3, AdvancedIs
<1>5. drain' = q
  BY <1>1, <1>3
<1>6. DrainInv'
  BY <1>2, <1>4, <1>5 DEF DrainInv
<1>7. asked # <<>> => drain'.at # "off" /\ life.up
  BY <1>4, <1>5 DEF PiiInv, AskedInv
<1>8. ASSUME NEW p \in Projects \ missed', NEW i \in Ids, NEW h, Reached(p, i, h, owes, asked, drain)
      PROVE  Reached(p, i, h, owes, asked', drain')
  BY <1>1, <1>8 DEF Reached, Ahead
<1>. QED  BY <1>1, <1>2, <1>6, <1>7, <1>8, PassKeeps DEF PiiInv, AskedInv, AreTypes

LEMMA ScanOneStep == ASSUME PiiInv, ScanOne PROVE PiiInv'
<1>1. PICK p, d, now : p = drain.project /\ d = Head(drain.batch) /\ now = document[p][d.id]
  OBVIOUS
<1>2. /\ drain.at = "scan" /\ UNCHANGED <<document, reading, owes, asked, life, missed>>
      /\ drain' = IF life.up THEN Advanced ELSE [NoPass EXCEPT !.at = "loop"]
      /\ scanned' = IF life.up THEN [scanned EXCEPT ![p][d.id] = ScanRecorded(d, now, @)] ELSE scanned
  BY <1>1 DEF ScanOne
<1>3. p \in Projects
  BY <1>1, <1>2 DEF PiiInv, DrainInv
<1>4. CASE ~life.up
  BY <1>2, <1>4, GivesUpKeeps DEF PiiInv, AreTypes
<1>5. CASE life.up
  <2>1. PICK q : q = Advanced
    OBVIOUS
  <2>2. /\ d \in Entry /\ OfItsFile(d) /\ d.id \in Ids
        /\ q \in Pass /\ q.project = drain.project /\ q.at \in {"select", "scan"}
        /\ q.at = "scan" <=> q.batch # <<>>
        /\ \A j, k \in 1..Len(q.batch) : j < k => q.batch[j].id < q.batch[k].id
        /\ \A j \in 1..Len(q.batch) : OfItsFile(q.batch[j])
        /\ \A r, h : \A i \in Ids : Ahead(drain, r, i, h) /\ ~(d.id = i /\ d.hash = h) => Ahead(q, r, i, h)
    BY <1>1, <1>2, <2>1, AdvancedIs
  <2>3. drain' = q
    BY <1>2, <1>5, <2>1
  <2>4. DrainInv'
    BY <1>1, <1>3, <2>2, <2>3 DEF DrainInv
  <2>5. scanned \in [Projects -> [Ids -> Scan]] /\ document \in [Projects -> [Ids -> Document]]
    BY DEF PiiInv, AreTypes
  <2>6. PICK new : new = ScanRecorded(d, now, scanned[p][d.id])
    OBVIOUS
  <2>7. scanned' = [scanned EXCEPT ![p][d.id] = new]
    BY <1>2, <1>3, <1>5, <2>2, <2>5, <2>6
  <2>8. now \in Document /\ scanned[p][d.id] \in Scan /\ RowsInv(now, scanned[p][d.id], life.key) /\ life.key \in Nat \ {0}
    BY <1>1, <1>3, <2>2, RowsAre
  <2>9. new \in Scan /\ RowsInv(now, new, life.key)
    <3>1. CASE Unmoved(d, now)
      <4>1. new = [hash |-> d.hash, text |-> d.text, key |-> life.key]
        BY <2>6, <3>1 DEF ScanRecorded
      <4>2. new \in Scan /\ new.key = life.key /\ new.hash = d.hash /\ new.text = d.text
        BY <2>2, <2>8, <4>1 DEF Entry, Scan
      <4>3. now.state \notin {"none", "gone"}
        BY <3>1 DEF Unmoved
      <4>. QED  BY <2>2, <2>8, <4>2, <4>3 DEF RowsInv, OfItsFile
    <3>2. CASE ~Unmoved(d, now)
      BY <2>6, <2>8, <3>2 DEF ScanRecorded
    <3>. QED  BY <3>1, <3>2
  <2>10. /\ scanned' \in [Projects -> [Ids -> Scan]] /\ scanned'[p][d.id] = new
         /\ \A r \in Projects, i \in Ids : r # p \/ i # d.id => scanned'[r][i] = scanned[r][i]
    BY <1>3, <2>2, <2>5, <2>7, <2>9
  <2>11. AreTypes'
    BY <1>2, <2>10 DEF PiiInv, AreTypes
  <2>12. AskedInv'
    BY <1>2, <2>2, <2>3 DEF PiiInv, AskedInv
  <2>13. ASSUME NEW r \in Projects, NEW i \in Ids PROVE RowsInv(document[r][i], scanned'[r][i], life.key)
    <3>1. CASE r = p /\ i = d.id
      BY <1>1, <2>9, <2>10, <3>1
    <3>2. CASE r # p \/ i # d.id
      BY <2>10, <3>2, RowsAre
    <3>. QED  BY <3>1, <3>2
  <2>14. NothingIsForgotten'
    <3>1. SUFFICES ASSUME life'.up, life'.swept, NEW r \in Projects \ missed', NEW i \in Ids,
                          IsDue(document'[r][i], scanned'[r][i], life'.key), document'[r][i].hash # 0
                   PROVE  Reached(r, i, document'[r][i].hash, owes', asked', drain')
      BY ForgottenNextIs
    <3>2. IsDue(document[r][i], scanned'[r][i], life.key) /\ document[r][i].hash # 0 /\ life.swept /\ r \notin missed
      BY <1>2, <3>1
    <3>3. IsDue(document[r][i], scanned[r][i], life.key) /\ (r = p => ~(d.id = i /\ d.hash = document[r][i].hash))
      <4>1. CASE r = p /\ i = d.id
        <5>1. ~Unmoved(d, now)
          <6>1. SUFFICES ASSUME Unmoved(d, now) PROVE FALSE
            OBVIOUS
          <6>2. new = [hash |-> d.hash, text |-> d.text, key |-> life.key] /\ now.hash = d.hash
            BY <2>6, <6>1 DEF ScanRecorded, Unmoved
          <6>3. new.hash = now.hash /\ new.key = life.key /\ new.key # 0
            BY <2>8, <6>2
          <6>4. IsDue(now, new, life.key)
            BY <1>1, <2>10, <3>2, <4>1
          <6>. QED  BY <6>3, <6>4 DEF IsDue
        <5>2. new = scanned[p][d.id]
          BY <2>6, <5>1 DEF ScanRecorded
        <5>3. now.state = "live"
          BY <1>1, <3>2, <4>1 DEF IsDue
        <5>. QED  BY <1>1, <2>10, <3>2, <4>1, <5>1, <5>2, <5>3 DEF Unmoved
      <4>2. CASE r # p \/ i # d.id
        BY <2>10, <3>2, <4>2
      <4>. QED  BY <4>1, <4>2
    <3>4. Reached(r, i, document[r][i].hash, owes, asked, drain)
      BY <1>5, <3>1, <3>2, <3>3, ForgottenIs DEF PiiInv
    <3>5. Ahead(drain, r, i, document[r][i].hash) => r = p
      BY <1>1 DEF Ahead
    <3>6. CASE Ahead(drain, r, i, document[r][i].hash)
      <4>1. Ahead(q, r, i, document[r][i].hash)
        BY <2>2, <3>3, <3>5, <3>6
      <4>. QED  BY <1>2, <2>3, <4>1 DEF Reached
    <3>7. CASE ~Ahead(drain, r, i, document[r][i].hash)
      BY <1>2, <3>4, <3>7 DEF Reached
    <3>. QED  BY <3>6, <3>7
  <2>15. (\A r \in Projects, i \in Ids : RowsInv(document[r][i], scanned[r][i], life.key))'
    BY <1>2, <2>13
  <2>. QED  BY <2>4, <2>11, <2>12, <2>14, <2>15 DEF PiiInv
<1>. QED  BY <1>4, <1>5

-----------------------------------------------------------------------------
(* Who is asked about, and the process.                                    *)

LEMMA ListedIs ==
  ASSUME PiiInv, NEW S \in SUBSET Projects, NEW next \in Listed(S)
  PROVE  /\ next \in Seq(Projects) /\ \A i, j \in 1..Len(next) : i # j => next[i] # next[j]
         /\ ToSet(next) = ToSet(asked) \cup S
<1>1. PICK new : new = S \ ToSet(asked)
  OBVIOUS
<1>2. PICK f \in [1..Cardinality(new) -> new] :
        /\ \A j, k \in DOMAIN f : j # k => f[j] # f[k]
        /\ \A p \in new : \E k \in DOMAIN f : f[k] = p
        /\ next = asked \o f
  BY <1>1 DEF Listed, Behind
<1>3. Cardinality(new) \in Nat
  <2>1. IsFiniteSet(new)
    BY <1>1, PiiAssumption, FS_Subset
  <2>. QED  BY <2>1, FS_CardinalityType
<1>4. f \in Seq(Projects) /\ DOMAIN f = 1..Len(f)
  <2>1. new \subseteq Projects
    BY <1>1
  <2>2. PICK n \in Nat : n = Cardinality(new)
    BY <1>3
  <2>3. f \in [1..n -> Projects]
    BY <2>1, <2>2
  <2>. QED  BY <2>3
<1>5. ToSet(f) = new
  BY <1>2 DEF ToSet
<1>6. Distinct(f) /\ Distinct(asked) /\ asked \in Seq(Projects)
  BY <1>2, <1>4 DEF Distinct, PiiInv, AskedInv
<1>7. ToSet(f) \cap ToSet(asked) = {}
  BY <1>1, <1>5
<1>8. asked \o f \in Seq(Projects) /\ Distinct(asked \o f) /\ ToSet(asked \o f) = ToSet(asked) \cup ToSet(f)
  <2>1. PICK s : s = asked
    OBVIOUS
  <2>2. s \in Seq(Projects) /\ Distinct(s) /\ f \in Seq(Projects) /\ Distinct(f) /\ ToSet(f) \cap ToSet(s) = {}
    BY <1>4, <1>6, <1>7, <2>1
  <2>3. s \o f \in Seq(Projects) /\ Distinct(s \o f) /\ ToSet(s \o f) = ToSet(s) \cup ToSet(f)
    BY <2>2, JoinedTo
  <2>. QED  BY <2>1, <2>3
<1>. QED  BY <1>1, <1>2, <1>5, <1>8 DEF Distinct

\* Asking about projects keeps what is reached, and reaches those, or excuses nobody.
LEMMA AskIs ==
  ASSUME PiiInv, NEW S \in SUBSET Projects, Ask(S)
  PROVE  /\ asked' \in Seq(Projects) /\ \A i, j \in 1..Len(asked') : i # j => asked'[i] # asked'[j]
         /\ asked' # <<>> => drain'.at # "off" /\ life.up
         /\ DrainInv' /\ missed' \subseteq Projects
         /\ life.up => S \subseteq ToSet(asked') /\ missed' = missed \ S
         /\ \A h : \A p \in Projects, i \in Ids :
              p \in ToSet(asked) \/ Ahead(drain, p, i, h) => p \in ToSet(asked') \/ Ahead(drain', p, i, h)
<1>1. /\ asked \in Seq(Projects) /\ \A i, j \in 1..Len(asked) : i # j => asked[i] # asked[j]
      /\ asked # <<>> => drain.at # "off" /\ life.up
      /\ missed \subseteq Projects
  BY DEF PiiInv, AskedInv, AreTypes
<1>2. CASE life.up /\ S # {}
  <2>1. /\ asked' \in Listed(S) /\ missed' = missed \ S
        /\ drain' = IF drain.at = "off" THEN [NoPass EXCEPT !.at = "loop"] ELSE drain
    BY <1>2 DEF Ask
  <2>2. /\ asked' \in Seq(Projects) /\ \A i, j \in 1..Len(asked') : i # j => asked'[i] # asked'[j]
        /\ ToSet(asked') = ToSet(asked) \cup S
    BY <2>1, ListedIs
  <2>3. CASE drain.at = "off"
    <3>1. drain'.at = "loop" /\ drain'.batch = <<>> /\ drain' \in Pass
      BY <2>1, <2>3, PassIs DEF Pass
    <3>2. DrainInv'
      BY <3>1 DEF DrainInv
    <3>3. \A p, i, h : ~Ahead(drain, p, i, h)
      BY <2>3 DEF Ahead
    <3>. QED  BY <1>1, <1>2, <2>1, <2>2, <3>1, <3>2, <3>3
  <2>4. CASE drain.at # "off"
    <3>1. drain' = drain
      BY <2>1, <2>4
    <3>2. DrainInv'
      BY <3>1 DEF PiiInv, DrainInv, OfItsFile
    <3>. QED  BY <1>1, <1>2, <2>1, <2>2, <2>4, <3>1, <3>2
  <2>. QED  BY <2>3, <2>4
<1>3. CASE ~(life.up /\ S # {})
  <2>1. UNCHANGED <<asked, drain, missed>>
    BY <1>3 DEF Ask
  <2>2. DrainInv'
    BY <2>1 DEF PiiInv, DrainInv, OfItsFile
  <2>. QED  BY <1>1, <1>3, <2>1, <2>2
<1>. QED  BY <1>2, <1>3

LEMMA CallHookStep == ASSUME PiiInv, NEW p \in Projects, CallHook(p) PROVE PiiInv'
<1>1. owes' = owes \ {p} /\ Ask({p}) /\ UNCHANGED <<document, scanned, reading, life>>
  BY DEF CallHook
<1>2. /\ asked' \in Seq(Projects) /\ \A i, j \in 1..Len(asked') : i # j => asked'[i] # asked'[j]
      /\ asked' # <<>> => drain'.at # "off" /\ life.up
      /\ DrainInv' /\ missed' \subseteq Projects
      /\ life.up => p \in ToSet(asked') /\ missed' = missed \ {p}
      /\ \A h : \A q \in Projects, i \in Ids :
           q \in ToSet(asked) \/ Ahead(drain, q, i, h) => q \in ToSet(asked') \/ Ahead(drain', q, i, h)
  <2>1. {p} \in SUBSET Projects
    OBVIOUS
  <2>. QED  BY <1>1, <2>1, AskIs
<1>3. AreTypes' /\ AskedInv'
  BY <1>1, <1>2 DEF PiiInv, AreTypes, AskedInv
<1>4. (\A q \in Projects, i \in Ids : RowsInv(document[q][i], scanned[q][i], life.key))'
  BY <1>1 DEF PiiInv
<1>5. NothingIsForgotten'
  <2>1. SUFFICES ASSUME life'.up, life'.swept, NEW q \in Projects \ missed', NEW i \in Ids,
                        IsDue(document'[q][i], scanned'[q][i], life'.key), document'[q][i].hash # 0
                 PROVE  Reached(q, i, document'[q][i].hash, owes', asked', drain')
    BY ForgottenNextIs
  <2>2. CASE q = p
    BY <1>1, <1>2, <2>1, <2>2 DEF Reached
  <2>3. CASE q # p
    <3>1. q \notin missed /\ life.up /\ life.swept
          /\ IsDue(document[q][i], scanned[q][i], life.key) /\ document[q][i].hash # 0
      BY <1>1, <1>2, <2>1, <2>3
    <3>2. Reached(q, i, document[q][i].hash, owes, asked, drain)
      BY <3>1, ForgottenIs DEF PiiInv
    <3>. QED  BY <1>1, <1>2, <2>3, <3>2 DEF Reached
  <2>. QED  BY <2>2, <2>3
<1>. QED  BY <1>2, <1>3, <1>4, <1>5 DEF PiiInv

LEMMA SweepStep == ASSUME PiiInv, Sweep PROVE PiiInv'
<1>1. PICK S : S = {p \in Projects : \E i \in Ids : Due(p, i)}
  OBVIOUS
<1>2. /\ life.up /\ life' = [life EXCEPT !.swept = TRUE] /\ Ask(S)
      /\ UNCHANGED <<document, scanned, reading, owes>>
  BY <1>1 DEF Sweep
<1>3. /\ asked' \in Seq(Projects) /\ \A i, j \in 1..Len(asked') : i # j => asked'[i] # asked'[j]
      /\ asked' # <<>> => drain'.at # "off" /\ life.up
      /\ DrainInv' /\ missed' \subseteq Projects /\ S \subseteq ToSet(asked')
  BY <1>1, <1>2, AskIs
<1>4. /\ life' \in [up : BOOLEAN, swept : BOOLEAN, key : Nat \ {0}] /\ life'.key = life.key /\ life'.up = life.up
  BY <1>2 DEF PiiInv, AreTypes
<1>5. AreTypes' /\ AskedInv'
  BY <1>2, <1>3, <1>4 DEF PiiInv, AreTypes, AskedInv
<1>6. (\A q \in Projects, i \in Ids : RowsInv(document[q][i], scanned[q][i], life.key))'
  BY <1>2, <1>4 DEF PiiInv
<1>7. NothingIsForgotten'
  <2>1. SUFFICES ASSUME NEW q \in Projects, NEW i \in Ids,
                        IsDue(document'[q][i], scanned'[q][i], life'.key)
                 PROVE  Reached(q, i, document'[q][i].hash, owes', asked', drain')
    BY ForgottenNextIs
  <2>2. Due(q, i)
    BY <1>2, <1>4, <2>1 DEF Due, IsDue
  <2>. QED  BY <1>1, <1>3, <2>2 DEF Reached
<1>. QED  BY <1>3, <1>5, <1>6, <1>7 DEF PiiInv

LEMMA SweepFailsStep == ASSUME PiiInv, SweepFails PROVE PiiInv'
<1>1. PICK S : S = {p \in Projects : \E i \in Ids : Due(p, i)}
  OBVIOUS
<1>2. /\ life' = [life EXCEPT !.swept = TRUE] /\ missed' = missed \cup S
      /\ UNCHANGED <<document, scanned, reading, owes, asked, drain>>
  BY <1>1 DEF SweepFails
<1>3. /\ life' \in [up : BOOLEAN, swept : BOOLEAN, key : Nat \ {0}] /\ life'.key = life.key /\ life'.up = life.up
  BY <1>2 DEF PiiInv, AreTypes
<1>4. AreTypes' /\ AskedInv'
  BY <1>1, <1>2, <1>3 DEF PiiInv, AreTypes, AskedInv
<1>5. DrainInv'
  BY <1>2 DEF PiiInv, DrainInv, OfItsFile
<1>6. (\A q \in Projects, i \in Ids : RowsInv(document[q][i], scanned[q][i], life.key))'
  BY <1>2, <1>3 DEF PiiInv
<1>7. NothingIsForgotten'
  <2>1. SUFFICES ASSUME NEW q \in Projects \ missed', NEW i \in Ids,
                        IsDue(document'[q][i], scanned'[q][i], life'.key)
                 PROVE  FALSE
    BY ForgottenNextIs
  <2>2. Due(q, i)
    BY <1>2, <1>3, <2>1 DEF Due, IsDue
  <2>. QED  BY <1>1, <1>2, <2>1, <2>2
<1>. QED  BY <1>4, <1>5, <1>6, <1>7 DEF PiiInv

LEMMA StopScannerStep == ASSUME PiiInv, StopScanner PROVE PiiInv'
<1>1. /\ life' = [life EXCEPT !.up = FALSE] /\ asked' = <<>>
      /\ UNCHANGED <<document, scanned, reading, owes, drain, missed>>
  BY DEF StopScanner
<1>2. life' \in [up : BOOLEAN, swept : BOOLEAN, key : Nat \ {0}] /\ life'.key = life.key /\ ~life'.up
  BY <1>1 DEF PiiInv, AreTypes
<1>3. AreTypes' /\ AskedInv' /\ DrainInv'
  <2>1. AreTypes'
    BY <1>1, <1>2 DEF PiiInv, AreTypes
  <2>2. AskedInv'
    BY <1>1 DEF AskedInv
  <2>3. DrainInv'
    BY <1>1 DEF PiiInv, DrainInv, OfItsFile
  <2>. QED  BY <2>1, <2>2, <2>3
<1>4. (\A q \in Projects, i \in Ids : RowsInv(document[q][i], scanned[q][i], life.key))'
  BY <1>1, <1>2 DEF PiiInv
<1>5. NothingIsForgotten'
  BY <1>2, ForgottenNextIs
<1>. QED  BY <1>3, <1>4, <1>5 DEF PiiInv

LEMMA StartAgainStep == ASSUME PiiInv, StartAgain PROVE PiiInv'
<1>1. /\ owes' = {} /\ asked' = <<>> /\ drain' = NoPass /\ missed' = {}
      /\ UNCHANGED <<document, scanned, reading>>
  BY DEF StartAgain
<1>2. PICK another \in {life.key, life.key + 1} : life' = [up |-> TRUE, swept |-> FALSE, key |-> another]
  BY DEF StartAgain
<1>3. life' \in [up : BOOLEAN, swept : BOOLEAN, key : Nat \ {0}] /\ life'.key >= life.key /\ ~life'.swept
      /\ life.key \in Nat /\ life'.key \in Nat
  BY <1>2 DEF PiiInv, AreTypes
<1>4. AreTypes' /\ AskedInv' /\ DrainInv'
  <2>1. AreTypes'
    BY <1>1, <1>3 DEF PiiInv, AreTypes
  <2>2. AskedInv'
    BY <1>1 DEF AskedInv
  <2>3. NoPass.at = "off"
    BY DEF NoPass
  <2>4. DrainInv'
    BY <1>1, <2>3, PassIs DEF DrainInv
  <2>. QED  BY <2>1, <2>2, <2>4
<1>5. (\A q \in Projects, i \in Ids : RowsInv(document[q][i], scanned[q][i], life.key))'
  <2>1. SUFFICES ASSUME NEW q \in Projects, NEW i \in Ids PROVE RowsInv(document[q][i], scanned[q][i], life'.key)
    BY <1>1
  <2>2. RowsInv(document[q][i], scanned[q][i], life.key) /\ scanned[q][i].key \in Nat
    BY RowsAre DEF Scan
  <2>. QED  BY <1>3, <2>2 DEF RowsInv
<1>6. NothingIsForgotten'
  BY <1>3, ForgottenNextIs
<1>. QED  BY <1>4, <1>5, <1>6 DEF PiiInv

-----------------------------------------------------------------------------
LEMMA PiiStarts == PiiInit => PiiInv
<1>1. SUFFICES ASSUME PiiInit PROVE PiiInv
  OBVIOUS
<1>2. PICK old \in BOOLEAN : document = [p \in Projects |-> [i \in Ids |-> IF old /\ i = 2 THEN Fresh(0) ELSE NoDocument]]
  BY <1>1 DEF PiiInit
<1>3. \A p \in Projects, i \in Ids :
        /\ document[p][i] \in Document /\ OfItsFile(document[p][i])
        /\ scanned[p][i] = NoScan
  BY <1>1, <1>2, FreshIs, NoDocumentIs DEF PiiInit
<1>4. life = [up |-> TRUE, swept |-> FALSE, key |-> 1]
  BY <1>1 DEF PiiInit
<1>5. AreTypes
  <2>1. document \in [Projects -> [Ids -> Document]]
    BY <1>2, <1>3
  <2>2. scanned \in [Projects -> [Ids -> Scan]]
    BY <1>1, NoScanIs DEF PiiInit
  <2>. QED  BY <1>1, <1>4, <2>1, <2>2 DEF PiiInit, AreTypes
<1>6. AskedInv
  BY <1>1 DEF PiiInit, AskedInv
<1>7. DrainInv
  BY <1>1 DEF PiiInit, DrainInv, NoPass, Pass
<1>8. \A p \in Projects, i \in Ids : RowsInv(document[p][i], scanned[p][i], life.key)
  BY <1>3, <1>4, NoScanIs DEF RowsInv
<1>9. NothingIsForgotten
  BY <1>4, ForgottenIs
<1>. QED  BY <1>5, <1>6, <1>7, <1>8, <1>9 DEF PiiInv

LEMMA PiiSteps == PiiInv /\ [PiiNext]_piiVars => PiiInv'
<1>1. SUFFICES ASSUME PiiInv, [PiiNext]_piiVars PROVE PiiInv'
  OBVIOUS
<1>2. CASE UNCHANGED piiVars
  <2>1. UNCHANGED <<document, scanned, reading, owes, asked, drain, life, missed>>
    BY <1>2 DEF piiVars
  <2>2. AreTypes' /\ AskedInv' /\ DrainInv'
    BY <1>1, <2>1 DEF PiiInv, AreTypes, AskedInv, DrainInv, OfItsFile
  <2>3. (\A q \in Projects, i \in Ids : RowsInv(document[q][i], scanned[q][i], life.key))'
    BY <1>1, <2>1 DEF PiiInv
  <2>4. NothingIsForgotten'
    BY <1>1, <2>1, ForgottenIs, ForgottenNextIs DEF PiiInv
  <2>. QED  BY <2>2, <2>3, <2>4 DEF PiiInv
<1>3. CASE PiiNext
  <2>1. ASSUME NEW p \in Projects, NEW i \in Ids, Rewrite(p, i) \/ RemoveDocument(p, i) PROVE PiiInv'
    BY <1>1, <2>1, RewriteStep, RemoveStep
  <2>2. ASSUME NEW p \in Projects, SwapGeneration(p) \/ ImportProject(p) \/ SweepOld(p) \/ ChangeReading(p) \/ CallHook(p)
        PROVE  PiiInv'
    BY <1>1, <2>2, SwapStep, ImportStep, SweepOldStep, ChangeReadingStep, CallHookStep
  <2>3. CASE Sweep \/ SweepFails \/ Passes \/ SelectFails \/ ScanFails \/ StopScanner \/ StartAgain
    BY <1>1, <2>3, SweepStep, SweepFailsStep, TakeStep, SelectStep, ScanOneStep, EndDrainStep, SelectFailsStep, ScanFailsStep,
       StopScannerStep, StartAgainStep DEF Passes
  <2>. QED  BY <1>3, <2>1, <2>2, <2>3 DEF PiiNext
<1>. QED  BY <1>1, <1>2, <1>3

LEMMA ScansAre == PiiInv => ScansAreSound
<1>1. SUFFICES ASSUME PiiInv PROVE FindingsAreOfTheFile
  BY DEF PiiInv, ScansAreSound
<1>2. ASSUME NEW p \in Projects, NEW i \in Ids, Shown(p, i), document[p][i].hash # 0
      PROVE  scanned[p][i].text[1] = document[p][i].text[1]
  BY <1>1, <1>2, RowsAre DEF Shown, RowsInv, OfItsFile
<1>. QED  BY <1>2 DEF FindingsAreOfTheFile

\* A scan that meets a rewrite, a removal or a swap records nothing of another file, and what is
\* due is asked about, ahead of the pass, or will be when its run ends, whatever the order of
\* requests, passes, runs, stops and starts, with any number of projects and documents
\* (document-findings.ts, recordScan; pii-scan.ts, request, drain, scanProject, sweep).
THEOREM ScansDoStaySound == PiiSpec => []ScansAreSound
<1>. QED  BY PiiStarts, PiiSteps, ScansAre, PTL DEF PiiSpec

LEMMA PiiTypesAre == PiiInv => PiiTypeOK
<1>1. SUFFICES ASSUME PiiInv PROVE PiiTypeOK
  OBVIOUS
<1>2. ASSUME NEW p \in Projects, NEW i \in Ids
      PROVE  /\ document[p][i].state \in {"none", "live", "old", "gone"}
             /\ document[p][i].hash \in 0..MaxRevision
             /\ scanned[p][i].key \in 0..life.key
             /\ document[p][i].state \in {"none", "gone"} => scanned[p][i] = NoScan
  <2>1. /\ document[p][i] \in Document /\ scanned[p][i] \in Scan /\ RowsInv(document[p][i], scanned[p][i], life.key)
        /\ life.key \in Nat
    BY <1>1, RowsAre
  <2>. QED  BY <2>1 DEF Document, Scan, RowsInv
<1>3. ToSet(asked) \subseteq Projects
  BY <1>1 DEF PiiInv, AskedInv, ToSet
<1>4. drain.at \in {"off", "loop", "select", "scan", "ending"}
  BY <1>1, PassIs DEF Pass
<1>. QED  BY <1>1, <1>2, <1>3, <1>4 DEF PiiTypeOK, PiiInv, AreTypes, AskedInv, DrainInv

\* The type invariant of the scan for secrets and personal numbers.
THEOREM PiiTypesHold == PiiSpec => []PiiTypeOK
<1>. QED  BY PiiStarts, PiiSteps, PiiTypesAre, PTL DEF PiiSpec

-----------------------------------------------------------------------------
(***************************************************************************)
(* EvalRuns.  The slot is held by exactly the runs that are in no line for *)
(* it, and so by one at most; what a run has asked so far is of indexes no *)
(* older than the one it read, and of that one alone when it writes "ok";  *)
(* and a change waits with a trigger of at least its rank, or will be told *)
(* of by a hook or a timer.                                                *)
(***************************************************************************)

Runner == [at : {"none", "queued", "read", "ask", "look", "write"},
           trigger : Automatic \cup {"manual", Nothing}, waiting : Automatic \cup {Nothing},
           generation : Nat, over : SUBSET Nat, left : Nat]

RunnerTypes ==
  /\ golden \in [Measured -> [generation : Nat, questions : BOOLEAN, moves : Nat]]
  /\ hooks \subseteq Measured \X Automatic /\ timers \subseteq Measured
  /\ states \in [Measured -> Runner]
  /\ asks \in [Measured -> SUBSET Automatic]
  /\ seen \in [Measured -> Nat]
  /\ DOMAIN evalRuns = Measured
  /\ stopping \in BOOLEAN
  /\ click \in [Clicks -> [at : {"off", "decide", "started", "busy"}, project : Measured \cup {Nothing}]]
  /\ \A c \in Clicks : click[c].at = "decide" => click[c].project \in Measured

\* The slot s for runs of the states st: held by exactly those that are in no line for it.
SlotIs(s, st) ==
  /\ s \in [held : Int, line : Seq(Measured)]
  /\ s.held = Cardinality({p \in Measured : st[p].at # "none"} \ ToSet(s.line))
  /\ s.held <= 1
  /\ \A i, j \in 1..Len(s.line) : i # j => s.line[i] # s.line[j]
  /\ \A p \in ToSet(s.line) : st[p].at = "queued"

\* A run waits behind another one only once that one has begun.
StateInv(p) ==
  /\ states[p].at \in {"none", "queued"} => states[p].waiting = Nothing
  /\ states[p].at = "queued" => states[p].trigger # Nothing

\* What a run has told so far, and of which index.
AnswersInv(p) ==
  LET s == states[p]
  IN /\ s.at \in {"none", "queued", "read"} => s.over = {}
     /\ s.at \in {"ask", "look", "write"} =>
          /\ \A g \in s.over : s.generation <= g
          /\ Here(p) => s.generation <= golden[p].generation /\ \A g \in s.over : g <= golden[p].generation
     /\ s.at = "ask" => s.left \in 1..2 /\ (s.left = 1 => s.over # {})
     /\ s.at = "look" => s.over # {}
     /\ s.at = "write" /\ s.left = 0 => s.over = {s.generation}

Awaited(p) ==
  \/ \E t \in Automatic : <<p, t>> \in hooks
  \/ p \in timers
  \/ states[p].at \in {"queued", "read"}
  \/ states[p].waiting # Nothing

Kept(s) == IF s.at = "queued" THEN s.trigger ELSE s.waiting
Tells(kept, told) == \A t \in told : kept # Nothing /\ TriggerRank[t] <= TriggerRank[kept]

RunsInv ==
  /\ RunnerTypes
  /\ \A p \in Measured : StateInv(p) /\ AnswersInv(p)
  /\ \A p \in Measured : Unmeasured(p) => Awaited(p)
  /\ ~stopping => \A p \in Measured : Tells(Kept(states[p]), asks[p])
  /\ OkRowIsOfOneIndex

EvalInv == RunsInv /\ SlotIs(slot, states)

-----------------------------------------------------------------------------
\* The slot.
LEMMA MembersOf ==
  ASSUME NEW S, NEW s \in Seq(S)
  PROVE  /\ ToSet(s) \subseteq S
         /\ s = <<>> => ToSet(s) = {}
         /\ \A x \in S : Append(s, x) \in Seq(S) /\ ToSet(Append(s, x)) = ToSet(s) \cup {x}
         /\ s # <<>> => Head(s) \in ToSet(s) /\ Tail(s) \in Seq(S) /\ ToSet(s) = {Head(s)} \cup ToSet(Tail(s))
<1>1. Len(s) \in Nat /\ DOMAIN s = 1..Len(s) /\ \A i \in 1..Len(s) : s[i] \in S
  OBVIOUS
<1>2. ToSet(s) \subseteq S /\ (s = <<>> => ToSet(s) = {})
  BY <1>1 DEF ToSet
<1>3. ASSUME NEW x \in S PROVE Append(s, x) \in Seq(S) /\ ToSet(Append(s, x)) = ToSet(s) \cup {x}
  <2>1. /\ Append(s, x) \in Seq(S) /\ DOMAIN Append(s, x) = 1..Len(s) + 1
        /\ Append(s, x)[Len(s) + 1] = x /\ \A i \in 1..Len(s) : Append(s, x)[i] = s[i]
    BY <1>1
  <2>2. \A i \in 1..Len(s) + 1 : i \in 1..Len(s) \/ i = Len(s) + 1
    BY <1>1
  <2>3. \A i \in 1..Len(s) : i \in 1..Len(s) + 1
    BY <1>1
  <2>4. Len(s) + 1 \in 1..Len(s) + 1
    BY <1>1
  <2>5. ASSUME NEW y \in ToSet(Append(s, x)) PROVE y \in ToSet(s) \cup {x}
    BY <1>1, <2>1, <2>2, <2>5 DEF ToSet
  <2>6. ASSUME NEW y \in ToSet(s) PROVE y \in ToSet(Append(s, x))
    BY <1>1, <2>1, <2>3, <2>6 DEF ToSet
  <2>7. x \in ToSet(Append(s, x))
    BY <2>1, <2>4 DEF ToSet
  <2>. QED  BY <2>1, <2>5, <2>6, <2>7
<1>4. ASSUME s # <<>> PROVE Head(s) \in ToSet(s) /\ Tail(s) \in Seq(S) /\ ToSet(s) = {Head(s)} \cup ToSet(Tail(s))
  <2>1. /\ Len(s) > 0 /\ Tail(s) \in Seq(S) /\ DOMAIN Tail(s) = 1..Len(s) - 1 /\ Head(s) = s[1]
        /\ \A i \in 1..Len(s) - 1 : Tail(s)[i] = s[i + 1]
    BY <1>1, <1>4
  <2>2. 1 \in 1..Len(s) /\ \A i \in 1..Len(s) - 1 : i + 1 \in 1..Len(s)
    BY <1>1, <2>1
  <2>3. \A i \in 1..Len(s) : i = 1 \/ (i - 1 \in 1..Len(s) - 1 /\ (i - 1) + 1 = i)
    BY <1>1, <2>1
  <2>4. Head(s) \in ToSet(s)
    BY <1>1, <2>1, <2>2 DEF ToSet
  <2>5. ASSUME NEW y \in ToSet(Tail(s)) PROVE y \in ToSet(s)
    BY <1>1, <2>1, <2>2, <2>5 DEF ToSet
  <2>6. ASSUME NEW y \in ToSet(s), y # Head(s) PROVE y \in ToSet(Tail(s))
    <3>1. PICK i \in 1..Len(s) : s[i] = y
      BY <1>1, <2>6 DEF ToSet
    <3>2. i - 1 \in 1..Len(s) - 1 /\ Tail(s)[i - 1] = y
      BY <2>1, <2>3, <2>6, <3>1
    <3>. QED  BY <2>1, <3>2 DEF ToSet
  <2>. QED  BY <2>1, <2>4, <2>5, <2>6
<1>. QED  BY <1>2, <1>3, <1>4

\* Whoever leaves hands it to the first in line, ...
LEMMA Leaves1 ==
  ASSUME NEW s, NEW st, NEW st1, SlotIs(s, st), NEW p \in Measured, st[p].at # "none", p \notin ToSet(s.line),
         st1[p].at = "none", \A q \in Measured : q # p => st1[q].at = st[q].at,
         NEW s1, s1 = IF s.line = <<>> THEN [s EXCEPT !.held = @ - 1] ELSE [s EXCEPT !.line = Tail(@)]
  PROVE  SlotIs(s1, st1)
<1>. DEFINE In == {q \in Measured : st[q].at # "none"} \ ToSet(s.line)
            In1 == {q \in Measured : st1[q].at # "none"} \ ToSet(s1.line)
<1>1. /\ s \in [held : Int, line : Seq(Measured)] /\ s.held = Cardinality(In) /\ s.held <= 1
      /\ \A i, j \in 1..Len(s.line) : i # j => s.line[i] # s.line[j]
      /\ \A q \in ToSet(s.line) : st[q].at = "queued"
  BY DEF SlotIs
<1>2. ToSet(s.line) \subseteq Measured /\ s.line \in Seq(Measured)
  BY <1>1, MembersOf
<1>3. IsFiniteSet(In) /\ p \in In
  BY FS_Subset, MeasuredAssumption
<1>4. CASE s.line = <<>>
  <2>1. s1 \in [held : Int, line : Seq(Measured)] /\ s1.line = s.line /\ s1.held = s.held - 1
    BY <1>1, <1>4
  <2>2. In1 = In \ {p}
    BY <2>1
  <2>3. Cardinality(In1) = Cardinality(In) - 1
    <3>. HIDE DEF In, In1
    <3>. QED  BY <1>3, <2>2, FS_RemoveElement
  <2>4. ToSet(s1.line) = {}
    BY <1>2, <1>4, <2>1, MembersOf
  <2>. QED  BY <1>1, <2>1, <2>3, <2>4 DEF SlotIs
<1>5. CASE s.line # <<>>
  <2>. DEFINE h == Head(s.line)
  <2>1. s1 \in [held : Int, line : Seq(Measured)] /\ s1.line = Tail(s.line) /\ s1.held = s.held
    <3>1. Tail(s.line) \in Seq(Measured)
      BY <1>2, <1>5
    <3>2. s1 = [s EXCEPT !.line = Tail(s.line)]
      BY <1>5
    <3>. QED  BY <1>1, <3>1, <3>2
  <2>2. h \in ToSet(s.line) /\ ToSet(s.line) = {h} \cup ToSet(s1.line)
    BY <1>2, <1>5, <2>1, MembersOf
  <2>3. /\ Len(s.line) \in Nat /\ Len(s.line) > 0 /\ Len(s1.line) = Len(s.line) - 1 /\ h = s.line[1]
        /\ \A i \in 1..Len(s.line) - 1 : s1.line[i] = s.line[i + 1]
        /\ DOMAIN s1.line = 1..Len(s.line) - 1
    BY <1>2, <1>5, <2>1
  <2>4. \A i \in 1..Len(s.line) - 1 : i + 1 \in 1..Len(s.line) /\ i + 1 # 1
    BY <2>3
  <2>5. h \notin ToSet(s1.line)
    <3>1. ASSUME NEW i \in 1..Len(s.line) - 1 PROVE s1.line[i] # h
      <4>1. i + 1 \in 1..Len(s.line) /\ i + 1 # 1 /\ 1 \in 1..Len(s.line)
        BY <2>3, <2>4
      <4>. QED  BY <1>1, <2>3, <4>1
    <3>. QED  BY <2>3, <3>1 DEF ToSet
  <2>6. \A i, j \in 1..Len(s1.line) : i # j => s1.line[i] # s1.line[j]
    <3>1. ASSUME NEW i \in 1..Len(s1.line), NEW j \in 1..Len(s1.line), i # j PROVE s1.line[i] # s1.line[j]
      <4>1. i + 1 # j + 1 /\ i + 1 \in 1..Len(s.line) /\ j + 1 \in 1..Len(s.line)
        BY <2>3, <3>1
      <4>. QED  BY <1>1, <2>3, <4>1
    <3>. QED  BY <3>1
  <2>7. h \in Measured /\ h # p /\ st[h].at = "queued" /\ h \notin In
    BY <1>1, <1>2, <2>2
  <2>8. In1 = (In \ {p}) \cup {h} /\ h \notin In \ {p}
    BY <2>2, <2>5, <2>7
  <2>9. Cardinality(In1) = Cardinality(In)
    <3>. HIDE DEF In, In1, h
    <3>1. IsFiniteSet(In \ {p}) /\ Cardinality(In \ {p}) = Cardinality(In) - 1 /\ Cardinality(In) \in Nat
      BY <1>3, FS_RemoveElement, FS_CardinalityType
    <3>2. Cardinality((In \ {p}) \cup {h}) = Cardinality(In \ {p}) + 1
      BY <2>8, <3>1, FS_AddElement
    <3>. QED  BY <2>8, <3>1, <3>2
  <2>10. \A q \in ToSet(s1.line) : st1[q].at = "queued"
    BY <1>1, <1>2, <2>2
  <2>. QED  BY <1>1, <2>1, <2>6, <2>9, <2>10 DEF SlotIs
<1>. QED  BY <1>4, <1>5

\* ... whoever comes takes it, or waits, ...
LEMMA Enters1 ==
  ASSUME NEW s, NEW st, NEW st1, SlotIs(s, st), NEW p \in Measured, st[p].at = "none",
         st1[p].at # "none", s.held < 1 \/ st1[p].at = "queued", \A q \in Measured : q # p => st1[q].at = st[q].at,
         NEW s1, s1 = IF s.held < 1 THEN [s EXCEPT !.held = @ + 1] ELSE [s EXCEPT !.line = Append(@, p)]
  PROVE  SlotIs(s1, st1)
<1>. DEFINE In == {q \in Measured : st[q].at # "none"} \ ToSet(s.line)
            In1 == {q \in Measured : st1[q].at # "none"} \ ToSet(s1.line)
<1>1. /\ s \in [held : Int, line : Seq(Measured)] /\ s.held = Cardinality(In) /\ s.held <= 1
      /\ \A i, j \in 1..Len(s.line) : i # j => s.line[i] # s.line[j]
      /\ \A q \in ToSet(s.line) : st[q].at = "queued"
  BY DEF SlotIs
<1>2. ToSet(s.line) \subseteq Measured /\ s.line \in Seq(Measured) /\ p \notin ToSet(s.line)
  BY <1>1, MembersOf
<1>3. IsFiniteSet(In) /\ p \notin In
  BY FS_Subset, MeasuredAssumption
<1>4. CASE s.held < 1
  <2>1. s1 \in [held : Int, line : Seq(Measured)] /\ s1.line = s.line /\ s1.held = s.held + 1
    BY <1>1, <1>4
  <2>2. In1 = In \cup {p}
    BY <1>2, <2>1
  <2>3. Cardinality(In1) = Cardinality(In) + 1
    <3>. HIDE DEF In, In1
    <3>. QED  BY <1>3, <2>2, FS_AddElement
  <2>4. \A q \in ToSet(s1.line) : st1[q].at = "queued"
    BY <1>1, <1>2, <2>1
  <2>. QED  BY <1>1, <1>4, <2>1, <2>3, <2>4 DEF SlotIs
<1>5. CASE ~(s.held < 1)
  <2>1. s1 \in [held : Int, line : Seq(Measured)] /\ s1.line = Append(s.line, p) /\ s1.held = s.held
    <3>1. Append(s.line, p) \in Seq(Measured)
      BY <1>2
    <3>. QED  BY <1>1, <1>5, <3>1
  <2>2. ToSet(s1.line) = ToSet(s.line) \cup {p}
    BY <1>2, <2>1, MembersOf
  <2>3. In1 = In
    BY <1>2, <2>2
  <2>4. /\ Len(s.line) \in Nat /\ Len(s1.line) = Len(s.line) + 1 /\ s1.line[Len(s.line) + 1] = p
        /\ \A i \in 1..Len(s.line) : s1.line[i] = s.line[i]
        /\ DOMAIN s.line = 1..Len(s.line)
    BY <1>2, <2>1
  <2>5. \A i \in 1..Len(s.line) : s.line[i] # p
    BY <1>2, <2>4 DEF ToSet
  <2>6. \A i \in 1..Len(s1.line) : i \in 1..Len(s.line) \/ i = Len(s.line) + 1
    BY <2>4
  <2>7. \A i, j \in 1..Len(s1.line) : i # j => s1.line[i] # s1.line[j]
    <3>1. ASSUME NEW i \in 1..Len(s1.line), NEW j \in 1..Len(s1.line), i # j PROVE s1.line[i] # s1.line[j]
      <4>1. CASE i \in 1..Len(s.line) /\ j \in 1..Len(s.line)
        BY <1>1, <2>4, <3>1, <4>1
      <4>2. CASE i = Len(s.line) + 1
        BY <2>4, <2>5, <2>6, <3>1, <4>2
      <4>3. CASE j = Len(s.line) + 1
        BY <2>4, <2>5, <2>6, <3>1, <4>3
      <4>. QED  BY <2>6, <4>1, <4>2, <4>3
    <3>. QED  BY <3>1
  <2>8. \A q \in ToSet(s1.line) : st1[q].at = "queued"
    BY <1>1, <1>2, <1>5, <2>2
  <2>. QED  BY <1>1, <2>1, <2>3, <2>7, <2>8 DEF SlotIs
<1>. QED  BY <1>4, <1>5

\* ... and a run that goes on keeps it.
LEMMA Keeps1 ==
  ASSUME NEW s, NEW st, NEW st1, SlotIs(s, st),
         \A q \in Measured : st1[q].at = st[q].at \/ (st[q].at # "none" /\ st1[q].at # "none" /\ q \notin ToSet(s.line))
  PROVE  SlotIs(s, st1)
<1>1. {q \in Measured : st[q].at # "none"} = {q \in Measured : st1[q].at # "none"}
  OBVIOUS
<1>2. ToSet(s.line) \subseteq Measured
  BY MembersOf DEF SlotIs
<1>. QED  BY <1>1, <1>2 DEF SlotIs
-----------------------------------------------------------------------------
\* A step moves the run of one project.
OnlyRun(p) ==
  /\ states' \in [Measured -> Runner]
  /\ \A q \in Measured : q # p => states'[q] = states[q]

\* The triggers, and what they rank.
LEMMA RanksOfTriggers ==
  /\ \A t \in Automatic \cup {"manual"} : TriggerRank[t] \in 0..3
  /\ \A t \in Automatic : TriggerRank[t] <= 2
  /\ TriggerRank["manual"] = 3
  /\ Nothing \notin Automatic /\ Nothing # "manual"
BY DEF Automatic, IndexTriggers, TriggerRank, Nothing

\* Of what waits and what comes the more telling is kept.
LEMMA HigherTells ==
  ASSUME NEW kept \in Automatic \cup {"manual", Nothing}, NEW trigger \in Automatic, NEW told \in SUBSET Automatic,
         Tells(kept, told)
  PROVE  /\ Higher(kept, trigger) \in Automatic \cup {"manual"} /\ Tells(Higher(kept, trigger), told \cup {trigger})
         /\ kept \in Automatic \cup {Nothing} => Higher(kept, trigger) \in Automatic
<1>1. CASE kept = Nothing
  <2>1. Higher(kept, trigger) = trigger /\ told = {}
    BY <1>1 DEF Higher, Tells
  <2>. QED  BY <2>1, RanksOfTriggers DEF Tells
<1>2. CASE kept # Nothing
  <2>1. \A t \in told \cup {trigger, kept} : TriggerRank[t] \in Int
    BY <1>2, RanksOfTriggers
  <2>2. Higher(kept, trigger) = IF TriggerRank[kept] < TriggerRank[trigger] THEN trigger ELSE kept
    BY <1>2 DEF Higher
  <2>3. CASE TriggerRank[kept] < TriggerRank[trigger]
    <3>1. Higher(kept, trigger) = trigger
      BY <2>2, <2>3
    <3>2. \A t \in told : TriggerRank[t] <= TriggerRank[trigger]
      BY <1>2, <2>1, <2>3 DEF Tells
    <3>. QED  BY <2>1, <3>1, <3>2, RanksOfTriggers DEF Tells
  <2>4. CASE ~(TriggerRank[kept] < TriggerRank[trigger])
    <3>1. Higher(kept, trigger) = kept
      BY <2>2, <2>4
    <3>2. TriggerRank[trigger] <= TriggerRank[kept]
      BY <2>1, <2>4
    <3>. QED  BY <1>2, <3>1, <3>2, RanksOfTriggers DEF Tells
  <2>. QED  BY <2>3, <2>4
<1>. QED  BY <1>1, <1>2

\* What request does to the run of p, ...
LEMMA RequestMoves ==
  ASSUME EvalInv, NEW p \in Measured, NEW trigger \in Automatic, Request(p, trigger), ~stopping
  PROVE  /\ OnlyRun(p) /\ SlotIs(slot', states')
         /\ asks' = [asks EXCEPT ![p] = @ \cup {trigger}]
         /\ Tells(Kept(states'[p]), asks'[p])
         /\ states'[p].at = (IF states[p].at = "none" THEN "queued" ELSE states[p].at)
         /\ states'[p].at = "queued" => states'[p].trigger # Nothing /\ states'[p].waiting = Nothing
         /\ states'[p].at # "queued" => states'[p].waiting # Nothing
         /\ states'[p].generation = states[p].generation \/ states[p].at = "none"
         /\ states'[p].over = states[p].over
         /\ states'[p].left = states[p].left \/ states[p].at = "none"
<1>. USE DEF EvalInv, RunsInv
<1>1. /\ asks' = [asks EXCEPT ![p] = @ \cup {trigger}]
      /\ states[p].at = "none" => states' = [states EXCEPT ![p] = Launched(trigger)] /\ slot' = Acquired(p)
      /\ states[p].at = "queued" => states' = [states EXCEPT ![p].trigger = Higher(@, trigger)] /\ slot' = slot
      /\ states[p].at \notin {"none", "queued"} => states' = [states EXCEPT ![p] = WaitsBehind(p, trigger)] /\ slot' = slot
  BY DEF Request
<1>2. /\ states \in [Measured -> Runner] /\ states[p] \in Runner /\ asks[p] \in SUBSET Automatic
      /\ asks'[p] = asks[p] \cup {trigger} /\ StateInv(p) /\ AnswersInv(p) /\ Tells(Kept(states[p]), asks[p])
      /\ SlotIs(slot, states)
  BY <1>1 DEF RunnerTypes
<1>3. CASE states[p].at = "none"
  <2>1. /\ Launched(trigger) \in Runner /\ Launched(trigger).at = "queued" /\ Launched(trigger).trigger = trigger
        /\ Launched(trigger).waiting = Nothing /\ Launched(trigger).over = {}
    BY DEF Launched, NoRunner, Runner
  <2>2. OnlyRun(p) /\ states'[p] = Launched(trigger)
    BY <1>1, <1>2, <1>3, <2>1 DEF OnlyRun
  <2>3. asks[p] = {}
    BY <1>2, <1>3 DEF StateInv, Kept, Tells
  <2>4. Tells(Kept(states'[p]), asks'[p])
    BY <1>2, <2>1, <2>2, <2>3, RanksOfTriggers DEF Kept, Tells
  <2>5. SlotIs(slot', states')
    <3>1. slot' = IF slot.held < 1 THEN [slot EXCEPT !.held = @ + 1] ELSE [slot EXCEPT !.line = Append(@, p)]
      BY <1>1, <1>3 DEF Acquired
    <3>2. \A q \in Measured : q # p => states'[q].at = states[q].at
      BY <2>2 DEF OnlyRun
    <3>3. SlotIs(slot, states) /\ states[p].at = "none" /\ states'[p].at = "queued" /\ states'[p].at # "none"
      BY <1>2, <1>3, <2>1, <2>2
    <3>4. PICK s1, st1 : s1 = slot' /\ st1 = states'
      OBVIOUS
    <3>5. SlotIs(s1, st1)
      BY <3>1, <3>2, <3>3, <3>4, Enters1
    <3>. QED  BY <3>4, <3>5
  <2>6. trigger # Nothing /\ states[p].over = {}
    BY <1>2, <1>3, RanksOfTriggers DEF AnswersInv
  <2>. QED  BY <1>1, <1>3, <2>1, <2>2, <2>4, <2>5, <2>6
<1>4. CASE states[p].at = "queued"
  <2>. DEFINE kept == states[p].trigger
  <2>1. kept \in Automatic \cup {"manual", Nothing} /\ Tells(kept, asks[p]) /\ states[p].waiting = Nothing
    BY <1>2, <1>4 DEF Runner, Kept, StateInv
  <2>2. Higher(kept, trigger) \in Automatic \cup {"manual"} /\ Tells(Higher(kept, trigger), asks[p] \cup {trigger})
    BY <1>2, <2>1, HigherTells
  <2>. HIDE DEF kept
  <2>3. states'[p] = [states[p] EXCEPT !.trigger = Higher(kept, trigger)]
    BY <1>1, <1>2, <1>4 DEF kept
  <2>4. /\ states'[p] \in Runner /\ states'[p].trigger = Higher(kept, trigger) /\ states'[p].at = "queued"
        /\ states'[p].waiting = Nothing /\ states'[p].over = states[p].over
        /\ states'[p].generation = states[p].generation /\ states'[p].left = states[p].left
    BY <1>2, <1>4, <2>1, <2>2, <2>3 DEF Runner
  <2>5. OnlyRun(p)
    BY <1>1, <1>2, <1>4, <2>4 DEF OnlyRun
  <2>6. SlotIs(slot', states')
    <3>1. slot' = slot /\ \A q \in Measured : states'[q].at = states[q].at
      BY <1>1, <1>4, <2>4, <2>5 DEF OnlyRun
    <3>. QED  BY <1>2, <3>1, Keeps1
  <2>7. Tells(Kept(states'[p]), asks'[p]) /\ states'[p].trigger # Nothing
    BY <1>2, <2>2, <2>4, RanksOfTriggers DEF Kept
  <2>. QED  BY <1>1, <1>4, <2>4, <2>5, <2>6, <2>7
<1>5. CASE states[p].at \notin {"none", "queued"}
  <2>. DEFINE kept == states[p].waiting
  <2>1. kept \in Automatic \cup {Nothing} /\ Tells(kept, asks[p])
    BY <1>2, <1>5 DEF Runner, Kept
  <2>2. Higher(kept, trigger) \in Automatic /\ Tells(Higher(kept, trigger), asks[p] \cup {trigger})
    BY <1>2, <2>1, HigherTells
  <2>. HIDE DEF kept
  <2>3. states'[p] = [states[p] EXCEPT !.waiting = Higher(kept, trigger)]
    BY <1>1, <1>2, <1>5 DEF kept, WaitsBehind
  <2>4. /\ states'[p] \in Runner /\ states'[p].waiting = Higher(kept, trigger) /\ states'[p].at = states[p].at
        /\ states'[p].over = states[p].over
        /\ states'[p].generation = states[p].generation /\ states'[p].left = states[p].left
    BY <1>2, <2>2, <2>3 DEF Runner
  <2>5. OnlyRun(p)
    BY <1>1, <1>2, <1>5, <2>4 DEF OnlyRun
  <2>6. SlotIs(slot', states')
    <3>1. slot' = slot /\ \A q \in Measured : states'[q].at = states[q].at
      BY <1>1, <1>5, <2>4, <2>5 DEF OnlyRun
    <3>. QED  BY <1>2, <3>1, Keeps1
  <2>7. Tells(Kept(states'[p]), asks'[p]) /\ states'[p].waiting # Nothing
    BY <1>2, <1>5, <2>2, <2>4, RanksOfTriggers DEF Kept
  <2>. QED  BY <1>1, <1>5, <2>4, <2>5, <2>6, <2>7
<1>. QED  BY <1>3, <1>4, <1>5
\* ... and the end of a run: the one that waits behind it queues for the slot.
LEMMA EndedMoves ==
  ASSUME EvalInv, NEW p \in Measured, Ended(p), states[p].at # "none", p \notin ToSet(slot.line),
         ~stopping => states[p].at # "queued"
  PROVE  /\ OnlyRun(p) /\ SlotIs(slot', states')
         /\ states'[p].at \in {"none", "queued"} /\ states'[p].waiting = Nothing /\ states'[p].over = {}
         /\ states'[p].at = "queued" => states'[p].trigger # Nothing
         /\ ~stopping => Kept(states'[p]) = Kept(states[p])
         /\ ~stopping /\ states[p].waiting # Nothing => states'[p].at = "queued"
<1>. USE DEF EvalInv, RunsInv
<1>. DEFINE next == states[p].waiting
            again == next # Nothing /\ ~stopping
<1>1. /\ states' = [states EXCEPT ![p] = IF again THEN Launched(next) ELSE NoRunner]
      /\ slot' = IF again THEN IF Released.held < 1 THEN [Released EXCEPT !.held = @ + 1]
                                                    ELSE [Released EXCEPT !.line = Append(@, p)]
                 ELSE Released
  BY DEF Ended
<1>2. states \in [Measured -> Runner] /\ states[p] \in Runner /\ SlotIs(slot, states)
  BY DEF RunnerTypes
<1>3. next \in Automatic \cup {Nothing}
  BY <1>2 DEF Runner
<1>4. /\ NoRunner \in Runner /\ NoRunner.at = "none" /\ NoRunner.waiting = Nothing /\ NoRunner.over = {}
      /\ next # Nothing => /\ Launched(next) \in Runner /\ Launched(next).at = "queued" /\ Launched(next).waiting = Nothing
                           /\ Launched(next).over = {} /\ Launched(next).trigger = next
  BY <1>3 DEF Launched, NoRunner, Runner
<1>. HIDE DEF next
<1>5. /\ states' \in [Measured -> Runner] /\ \A q \in Measured : q # p => states'[q] = states[q]
      /\ again => states'[p] = Launched(next)
      /\ ~again => states'[p] = NoRunner
  BY <1>1, <1>2, <1>4
<1>6. PICK st : st = [states EXCEPT ![p] = NoRunner]
  OBVIOUS
<1>7. st[p] = NoRunner /\ \A q \in Measured : q # p => st[q] = states[q]
  BY <1>2, <1>6
<1>8. SlotIs(Released, st)
  BY <1>2, <1>4, <1>7, Leaves1 DEF Released
<1>9. SlotIs(slot', states')
  <2>1. CASE again
    <3>1. slot' = IF Released.held < 1 THEN [Released EXCEPT !.held = @ + 1] ELSE [Released EXCEPT !.line = Append(@, p)]
      BY <1>1, <2>1
    <3>2. states'[p].at = "queued" /\ st[p].at = "none" /\ \A q \in Measured : q # p => states'[q].at = st[q].at
      BY <1>4, <1>5, <1>7, <2>1
    <3>3. PICK s, st1, s1 : s = Released /\ st1 = states' /\ s1 = slot'
      OBVIOUS
    <3>4. SlotIs(s1, st1)
      BY <1>8, <3>1, <3>2, <3>3, Enters1
    <3>. QED  BY <3>3, <3>4
  <2>2. CASE ~again
    <3>1. slot' = Released /\ \A q \in Measured : states'[q].at = st[q].at
      BY <1>1, <1>5, <1>7, <2>2
    <3>. QED  BY <1>8, <3>1, Keeps1
  <2>. QED  BY <2>1, <2>2
<1>10. ~stopping => Kept(states'[p]) = Kept(states[p])
  <2>1. ASSUME ~stopping PROVE Kept(states[p]) = next
    BY <2>1 DEF Kept, next
  <2>2. ASSUME ~stopping PROVE Kept(states'[p]) = next
    BY <1>4, <1>5, <2>2 DEF Kept
  <2>. QED  BY <2>1, <2>2
<1>. QED  BY <1>4, <1>5, <1>9, <1>10 DEF OnlyRun, next

-----------------------------------------------------------------------------
OkRows(p) == \A r \in evalRuns[p] : r.status = "ok" => r.over = {r.generation}

\* What a step must show that touches one project.
LEMMA OneProjectMoves ==
  ASSUME EvalInv, NEW p \in Measured, RunnerTypes', SlotIs(slot', states'), stopping' = stopping,
         \A q \in Measured : q # p =>
           /\ golden'[q] = golden[q] /\ states'[q] = states[q] /\ asks'[q] = asks[q] /\ seen'[q] = seen[q]
           /\ evalRuns'[q] = evalRuns[q]
           /\ q \in timers => q \in timers'
           /\ \A t \in Automatic : <<q, t>> \in hooks => <<q, t>> \in hooks',
         StateInv(p)', AnswersInv(p)', OkRows(p)',
         Unmeasured(p)' => Awaited(p)', ~stopping => Tells(Kept(states'[p]), asks'[p])
  PROVE  EvalInv'
<1>. USE DEF EvalInv, RunsInv
<1>1. ASSUME NEW q \in Measured, q # p
      PROVE  /\ StateInv(q)' /\ AnswersInv(q)' /\ OkRows(q)' /\ (Unmeasured(q)' => Awaited(q)')
             /\ ~stopping => Tells(Kept(states'[q]), asks'[q])
  <2>1. StateInv(q)' /\ AnswersInv(q)'
    BY <1>1 DEF StateInv, AnswersInv, Here
  <2>2. OkRows(q)'
    BY <1>1 DEF OkRows, OkRowIsOfOneIndex
  <2>3. Unmeasured(q)' => Unmeasured(q)
    BY <1>1 DEF Unmeasured, Here
  <2>4. Awaited(q) => Awaited(q)'
    BY <1>1 DEF Awaited
  <2>. QED  BY <1>1, <2>1, <2>2, <2>3, <2>4
<1>2. \A q \in Measured : StateInv(q)' /\ AnswersInv(q)' /\ OkRows(q)' /\ (Unmeasured(q)' => Awaited(q)')
  BY <1>1
<1>3. ~stopping => \A q \in Measured : Tells(Kept(states'[q]), asks'[q])
  BY <1>1
<1>4. OkRowIsOfOneIndex'
  BY <1>2 DEF OkRows, OkRowIsOfOneIndex
<1>5. (~stopping => \A q \in Measured : Tells(Kept(states[q]), asks[q]))'
  BY <1>3
<1>. QED  BY <1>2, <1>4, <1>5

\* What is known before any step of the run of p.
LEMMA BeforeStep ==
  ASSUME EvalInv, NEW p \in Measured
  PROVE  /\ RunnerTypes /\ SlotIs(slot, states) /\ StateInv(p) /\ AnswersInv(p) /\ OkRows(p)
         /\ Unmeasured(p) => Awaited(p)
         /\ ~stopping => Tells(Kept(states[p]), asks[p])
         /\ states[p] \in Runner /\ golden[p].generation \in Nat /\ golden[p].moves \in Nat
BY DEF EvalInv, RunsInv, OkRowIsOfOneIndex, OkRows, RunnerTypes

-----------------------------------------------------------------------------
\* The project's own moves: an index is extended or replaced, and never goes back.
LEMMA MoveStep ==
  ASSUME EvalInv, NEW p \in Measured, NEW to, NEW trigger \in Automatic, Move(p, to, <<p, trigger>>),
         to \in [generation : Nat, questions : BOOLEAN, moves : Nat], golden[p].generation <= to.generation
  PROVE  EvalInv'
<1>1. /\ golden' = [golden EXCEPT ![p] = [to EXCEPT !.moves = @ + 1]] /\ hooks' = hooks \cup {<<p, trigger>>} /\ Here(p)
      /\ UNCHANGED <<timers, states, slot, click, evalRuns, stopping, asks, seen, losses>>
  BY DEF Move
<1>2. RunnerTypes /\ SlotIs(slot, states) /\ StateInv(p) /\ AnswersInv(p) /\ OkRows(p) /\ states[p] \in Runner
      /\ (~stopping => Tells(Kept(states[p]), asks[p])) /\ golden[p].generation \in Nat
  BY BeforeStep
<1>3. [to EXCEPT !.moves = @ + 1] \in [generation : Nat, questions : BOOLEAN, moves : Nat]
  OBVIOUS
<1>4. /\ golden' \in [Measured -> [generation : Nat, questions : BOOLEAN, moves : Nat]]
      /\ golden'[p].generation = to.generation /\ \A q \in Measured : q # p => golden'[q] = golden[q]
  BY <1>1, <1>2, <1>3 DEF RunnerTypes
<1>5. RunnerTypes'
  BY <1>1, <1>2, <1>4 DEF RunnerTypes
<1>6. AnswersInv(p)'
  <2>1. states[p].generation \in Nat /\ states[p].over \in SUBSET Nat /\ to.generation \in Nat
    BY <1>2 DEF Runner
  <2>. QED  BY <1>1, <1>2, <1>4, <2>1 DEF AnswersInv, Here
<1>7. Awaited(p)'
  BY <1>1 DEF Awaited
<1>. QED  BY <1>1, <1>2, <1>4, <1>5, <1>6, <1>7, OneProjectMoves DEF StateInv, OkRows

LEMMA ProjectSteps ==
  ASSUME EvalInv, NEW p \in Measured, Rebuild(p) \/ Increment(p) \/ EditQuestions(p)
  PROVE  EvalInv'
<1>1. /\ golden[p] \in [generation : Nat, questions : BOOLEAN, moves : Nat] /\ golden[p].generation \in Nat
  BY DEF EvalInv, RunsInv, RunnerTypes
<1>2. "index_rebuild" \in Automatic /\ "index_incremental" \in Automatic /\ "golden_set" \in Automatic
  BY DEF Automatic, IndexTriggers
<1>3. CASE Rebuild(p)
  <2>1. PICK to : to = [golden[p] EXCEPT !.generation = @ + 1]
    OBVIOUS
  <2>2. to \in [generation : Nat, questions : BOOLEAN, moves : Nat] /\ golden[p].generation <= to.generation
    BY <1>1, <2>1
  <2>. QED  BY <1>2, <1>3, <2>1, <2>2, MoveStep DEF Rebuild
<1>4. CASE Increment(p)
  BY <1>1, <1>2, <1>4, MoveStep DEF Increment
<1>5. CASE EditQuestions(p)
  <2>1. PICK some \in BOOLEAN : Move(p, [golden[p] EXCEPT !.questions = some], <<p, "golden_set">>)
    BY <1>5 DEF EditQuestions
  <2>2. PICK to : to = [golden[p] EXCEPT !.questions = some]
    OBVIOUS
  <2>3. to \in [generation : Nat, questions : BOOLEAN, moves : Nat] /\ golden[p].generation <= to.generation
    BY <1>1, <2>2
  <2>. QED  BY <1>2, <2>1, <2>2, <2>3, MoveStep
<1>. QED  BY <1>3, <1>4, <1>5

LEMMA DropProjectStep ==
  ASSUME EvalInv, NEW p \in Measured, DropProject(p)
  PROVE  EvalInv'
<1>1. /\ golden' = [golden EXCEPT ![p] = [generation |-> 0, questions |-> FALSE, moves |-> @.moves]]
      /\ evalRuns' = [evalRuns EXCEPT ![p] = {}]
      /\ UNCHANGED <<hooks, timers, states, slot, click, stopping, asks, seen, losses>>
  BY DEF DropProject
<1>2. RunnerTypes /\ SlotIs(slot, states) /\ StateInv(p) /\ AnswersInv(p) /\ states[p] \in Runner
      /\ (~stopping => Tells(Kept(states[p]), asks[p])) /\ golden[p].moves \in Nat
  BY BeforeStep
<1>3. /\ golden' \in [Measured -> [generation : Nat, questions : BOOLEAN, moves : Nat]]
      /\ golden'[p].generation = 0 /\ \A q \in Measured : q # p => golden'[q] = golden[q]
      /\ DOMAIN evalRuns' = Measured /\ evalRuns'[p] = {} /\ \A q \in Measured : q # p => evalRuns'[q] = evalRuns[q]
  BY <1>1, <1>2 DEF RunnerTypes
<1>4. RunnerTypes'
  BY <1>1, <1>2, <1>3 DEF RunnerTypes
<1>5. AnswersInv(p)' /\ ~Unmeasured(p)' /\ OkRows(p)' /\ StateInv(p)'
  BY <1>1, <1>2, <1>3 DEF AnswersInv, Here, Unmeasured, OkRows, StateInv
<1>. QED  BY <1>1, <1>2, <1>3, <1>4, <1>5, OneProjectMoves
-----------------------------------------------------------------------------
\* A request: nothing that waits for a run is lost by it.
LEMMA RequestStep ==
  ASSUME EvalInv, NEW p \in Measured, NEW trigger \in Automatic, Request(p, trigger),
         UNCHANGED <<golden, click, evalRuns, stopping, seen>>,
         hooks' \in SUBSET hooks, timers' \in SUBSET timers,
         \A q \in Measured : q # p => /\ q \in timers => q \in timers'
                                      /\ \A t \in Automatic : <<q, t>> \in hooks => <<q, t>> \in hooks'
  PROVE  EvalInv'
<1>1. RunnerTypes /\ SlotIs(slot, states) /\ StateInv(p) /\ AnswersInv(p) /\ OkRows(p) /\ states[p] \in Runner
  BY BeforeStep
<1>2. hooks' \subseteq Measured \X Automatic /\ timers' \subseteq Measured
  BY <1>1 DEF RunnerTypes
<1>3. OkRows(p)'
  BY <1>1 DEF OkRows
<1>4. CASE stopping
  <2>1. UNCHANGED <<states, slot, asks>>
    BY <1>4 DEF Request
  <2>2. RunnerTypes'
    BY <1>1, <1>2, <2>1 DEF RunnerTypes
  <2>3. StateInv(p)' /\ AnswersInv(p)' /\ ~Unmeasured(p)'
    BY <1>1, <1>4, <2>1 DEF StateInv, AnswersInv, Here, Unmeasured
  <2>4. SlotIs(slot', states')
    BY <1>1, <2>1
  <2>. QED  BY <1>3, <1>4, <2>1, <2>2, <2>3, <2>4, OneProjectMoves
<1>5. CASE ~stopping
  <2>1. /\ OnlyRun(p) /\ SlotIs(slot', states')
        /\ asks' = [asks EXCEPT ![p] = @ \cup {trigger}]
        /\ Tells(Kept(states'[p]), asks'[p])
        /\ states'[p].at = (IF states[p].at = "none" THEN "queued" ELSE states[p].at)
        /\ states'[p].at = "queued" => states'[p].trigger # Nothing /\ states'[p].waiting = Nothing
        /\ states'[p].at # "queued" => states'[p].waiting # Nothing
        /\ states'[p].generation = states[p].generation \/ states[p].at = "none"
        /\ states'[p].over = states[p].over
        /\ states'[p].left = states[p].left \/ states[p].at = "none"
    BY <1>5, RequestMoves
  <2>2. asks' \in [Measured -> SUBSET Automatic] /\ \A q \in Measured : q # p => asks'[q] = asks[q]
    BY <1>1, <2>1 DEF RunnerTypes
  <2>3. RunnerTypes'
    BY <1>1, <1>2, <2>1, <2>2 DEF RunnerTypes, OnlyRun
  <2>4. StateInv(p)' /\ Awaited(p)'
    BY <2>1 DEF StateInv, Awaited
  <2>5. AnswersInv(p)'
    <3>1. CASE states[p].at = "none"
      BY <1>1, <2>1, <3>1 DEF AnswersInv
    <3>2. CASE states[p].at # "none"
      BY <1>1, <2>1, <3>2 DEF AnswersInv, Here
    <3>. QED  BY <3>1, <3>2
  <2>. QED  BY <1>3, <2>1, <2>2, <2>3, <2>4, <2>5, OneProjectMoves DEF OnlyRun
<1>. QED  BY <1>4, <1>5

LEMMA ToldSteps ==
  ASSUME EvalInv, NEW p \in Measured, IndexChanged(p) \/ TimerFires(p)
  PROVE  EvalInv'
<1>1. CASE IndexChanged(p)
  <2>1. PICK trigger \in IndexTriggers : /\ <<p, trigger>> \in hooks /\ hooks' = hooks \ {<<p, trigger>>}
                                         /\ Request(p, trigger)
                                         /\ UNCHANGED <<golden, timers, click, evalRuns, stopping, seen, losses>>
    BY <1>1 DEF IndexChanged
  <2>2. trigger \in Automatic
    BY DEF Automatic
  <2>. QED  BY <2>1, <2>2, RequestStep
<1>2. CASE TimerFires(p)
  <2>1. /\ timers' = timers \ {p} /\ Request(p, "golden_set")
        /\ UNCHANGED <<golden, hooks, click, evalRuns, stopping, seen, losses>>
    BY <1>2 DEF TimerFires
  <2>2. "golden_set" \in Automatic
    BY DEF Automatic
  <2>. QED  BY <2>1, <2>2, RequestStep
<1>. QED  BY <1>1, <1>2

LEMMA GoldenSetChangedStep ==
  ASSUME EvalInv, NEW p \in Measured, GoldenSetChanged(p)
  PROVE  EvalInv'
<1>1. /\ hooks' = hooks \ {<<p, "golden_set">>} /\ timers' = IF stopping THEN timers ELSE timers \cup {p}
      /\ UNCHANGED <<golden, states, slot, click, evalRuns, stopping, asks, seen, losses>>
  BY DEF GoldenSetChanged
<1>2. RunnerTypes /\ SlotIs(slot, states) /\ StateInv(p) /\ AnswersInv(p) /\ OkRows(p)
      /\ (~stopping => Tells(Kept(states[p]), asks[p]))
  BY BeforeStep
<1>3. RunnerTypes'
  BY <1>1, <1>2 DEF RunnerTypes
<1>4. StateInv(p)' /\ AnswersInv(p)' /\ OkRows(p)' /\ (Unmeasured(p)' => Awaited(p)')
  BY <1>1, <1>2 DEF StateInv, AnswersInv, Here, OkRows, Unmeasured, Awaited
<1>5. SlotIs(slot', states')
  BY <1>1, <1>2
<1>. QED  BY <1>1, <1>2, <1>3, <1>4, <1>5, OneProjectMoves

-----------------------------------------------------------------------------
\* By hand.
LEMMA ClickStep ==
  ASSUME EvalInv, NEW c \in Clicks, NEW p \in Measured, Click(c, p)
  PROVE  EvalInv'
<1>1. /\ click' = [click EXCEPT ![c] = [at |-> "decide", project |-> p]]
      /\ UNCHANGED <<golden, hooks, timers, states, slot, evalRuns, stopping, asks, seen, losses>>
  BY DEF Click
<1>2. RunnerTypes /\ SlotIs(slot, states) /\ StateInv(p) /\ AnswersInv(p) /\ OkRows(p)
      /\ (~stopping => Tells(Kept(states[p]), asks[p])) /\ (Unmeasured(p) => Awaited(p))
  BY BeforeStep
<1>3. RunnerTypes'
  <2>1. click' \in [Clicks -> [at : {"off", "decide", "started", "busy"}, project : Measured \cup {Nothing}]]
    BY <1>1, <1>2 DEF RunnerTypes
  <2>2. \A d \in Clicks : click'[d].at = "decide" => click'[d].project \in Measured
    BY <1>1, <1>2 DEF RunnerTypes
  <2>. QED  BY <1>1, <1>2, <2>1, <2>2 DEF RunnerTypes
<1>4. StateInv(p)' /\ AnswersInv(p)' /\ OkRows(p)' /\ (Unmeasured(p)' => Awaited(p)')
  BY <1>1, <1>2 DEF StateInv, AnswersInv, Here, OkRows, Unmeasured, Awaited
<1>5. SlotIs(slot', states')
  BY <1>1, <1>2
<1>. QED  BY <1>1, <1>2, <1>3, <1>4, <1>5, OneProjectMoves

LEMMA DecideClickStep ==
  ASSUME EvalInv, NEW c \in Clicks, DecideClick(c)
  PROVE  EvalInv'
<1>0. PICK p : p = click[c].project
  OBVIOUS
<1>1. /\ click[c].at = "decide"
      /\ click' = [click EXCEPT ![c].at = IF Free(p) THEN "started" ELSE "busy"]
      /\ IF Free(p) /\ ~stopping
           THEN /\ states' = [states EXCEPT ![p] = [Launched("manual") EXCEPT !.at = "read"]]
                /\ slot' = [slot EXCEPT !.held = @ + 1]
                /\ asks' = [asks EXCEPT ![p] = {}]
           ELSE UNCHANGED <<states, slot, asks>>
      /\ UNCHANGED <<golden, hooks, timers, evalRuns, stopping, seen, losses>>
  BY <1>0 DEF DecideClick
<1>2. p \in Measured
  BY <1>0, <1>1 DEF EvalInv, RunsInv, RunnerTypes
<1>3. RunnerTypes /\ SlotIs(slot, states) /\ StateInv(p) /\ AnswersInv(p) /\ OkRows(p) /\ states[p] \in Runner
      /\ (~stopping => Tells(Kept(states[p]), asks[p])) /\ (Unmeasured(p) => Awaited(p))
  BY <1>2, BeforeStep
<1>4. /\ click' \in [Clicks -> [at : {"off", "decide", "started", "busy"}, project : Measured \cup {Nothing}]]
      /\ \A d \in Clicks : click'[d].at = "decide" => click'[d].project \in Measured
  <2>1. /\ click \in [Clicks -> [at : {"off", "decide", "started", "busy"}, project : Measured \cup {Nothing}]]
        /\ \A d \in Clicks : click[d].at = "decide" => click[d].project \in Measured
    BY <1>3 DEF RunnerTypes
  <2>2. PICK at \in {"started", "busy"} : click' = [click EXCEPT ![c].at = at]
    BY <1>1
  <2>. QED  BY <2>1, <2>2
<1>5. OkRows(p)'
  BY <1>1, <1>3 DEF OkRows
<1>6. CASE Free(p) /\ ~stopping
  <2>1. PICK r : r = [Launched("manual") EXCEPT !.at = "read"]
    OBVIOUS
  <2>2. r \in Runner /\ r.at = "read" /\ r.waiting = Nothing /\ r.over = {}
    BY <2>1 DEF Launched, NoRunner, Runner
  <2>3. OnlyRun(p) /\ states'[p] = r
    BY <1>1, <1>2, <1>3, <1>6, <2>1, <2>2 DEF OnlyRun, RunnerTypes
  <2>4. asks' \in [Measured -> SUBSET Automatic] /\ asks'[p] = {} /\ \A q \in Measured : q # p => asks'[q] = asks[q]
    BY <1>1, <1>2, <1>3, <1>6 DEF RunnerTypes
  <2>5. SlotIs(slot', states')
    <3>1. states[p].at = "none" /\ slot.held < 1
      BY <1>6 DEF Free
    <3>2. slot' = [slot EXCEPT !.held = @ + 1]
      BY <1>1, <1>6
    <3>. QED  BY <1>2, <1>3, <2>2, <2>3, <3>1, <3>2, Enters1 DEF OnlyRun
  <2>6. RunnerTypes'
    BY <1>1, <1>3, <1>4, <2>3, <2>4 DEF RunnerTypes, OnlyRun
  <2>7. StateInv(p)' /\ AnswersInv(p)' /\ Awaited(p)' /\ Tells(Kept(states'[p]), asks'[p])
    BY <2>2, <2>3, <2>4 DEF StateInv, AnswersInv, Awaited, Tells
  <2>. QED  BY <1>1, <1>2, <1>5, <2>3, <2>4, <2>5, <2>6, <2>7, OneProjectMoves DEF OnlyRun
<1>7. CASE ~(Free(p) /\ ~stopping)
  <2>1. UNCHANGED <<states, slot, asks>>
    BY <1>1, <1>7
  <2>2. RunnerTypes'
    BY <1>1, <1>3, <1>4, <2>1 DEF RunnerTypes
  <2>3. StateInv(p)' /\ AnswersInv(p)' /\ (Unmeasured(p)' => Awaited(p)')
    BY <1>1, <1>3, <2>1 DEF StateInv, AnswersInv, Here, Unmeasured, Awaited
  <2>4. SlotIs(slot', states')
    BY <1>3, <2>1
  <2>. QED  BY <1>1, <1>2, <1>3, <1>5, <2>1, <2>2, <2>3, <2>4, OneProjectMoves
<1>. QED  BY <1>6, <1>7
-----------------------------------------------------------------------------
\* The run.
LEMMA StartStep ==
  ASSUME EvalInv, NEW p \in Measured, Start(p)
  PROVE  EvalInv'
<1>1. /\ states[p].at = "queued" /\ p \notin ToSet(slot.line) /\ asks' = [asks EXCEPT ![p] = {}]
      /\ IF stopping THEN Ended(p) ELSE states' = [states EXCEPT ![p].at = "read"] /\ slot' = slot
      /\ UNCHANGED <<golden, hooks, timers, click, evalRuns, stopping, seen, losses>>
  BY DEF Start
<1>2. RunnerTypes /\ SlotIs(slot, states) /\ StateInv(p) /\ AnswersInv(p) /\ OkRows(p) /\ states[p] \in Runner
  BY BeforeStep
<1>3. asks' \in [Measured -> SUBSET Automatic] /\ asks'[p] = {} /\ \A q \in Measured : q # p => asks'[q] = asks[q]
  BY <1>1, <1>2 DEF RunnerTypes
<1>4. OkRows(p)'
  BY <1>1, <1>2 DEF OkRows
<1>5. CASE stopping
  <2>1. /\ OnlyRun(p) /\ SlotIs(slot', states')
        /\ states'[p].at \in {"none", "queued"} /\ states'[p].waiting = Nothing /\ states'[p].over = {}
        /\ states'[p].at = "queued" => states'[p].trigger # Nothing
    BY <1>1, <1>5, EndedMoves
  <2>2. RunnerTypes'
    BY <1>1, <1>2, <1>3, <2>1 DEF RunnerTypes, OnlyRun
  <2>3. StateInv(p)' /\ AnswersInv(p)' /\ ~Unmeasured(p)'
    BY <1>1, <1>5, <2>1 DEF StateInv, AnswersInv, Unmeasured
  <2>. QED  BY <1>1, <1>3, <1>4, <1>5, <2>1, <2>2, <2>3, OneProjectMoves DEF OnlyRun
<1>6. CASE ~stopping
  <2>1. states' = [states EXCEPT ![p].at = "read"] /\ slot' = slot
    BY <1>1, <1>6
  <2>2. states'[p] \in Runner /\ states'[p].at = "read" /\ states'[p].over = {}
    BY <1>1, <1>2, <2>1 DEF Runner, RunnerTypes, AnswersInv
  <2>3. OnlyRun(p)
    BY <1>2, <2>1, <2>2 DEF OnlyRun, RunnerTypes
  <2>4. SlotIs(slot', states')
    <3>1. \A q \in Measured : states'[q].at = states[q].at \/ (states[q].at # "none" /\ states'[q].at # "none" /\ q \notin ToSet(slot.line))
      BY <1>1, <2>2, <2>3 DEF OnlyRun
    <3>. QED  BY <1>2, <2>1, <3>1, Keeps1
  <2>5. RunnerTypes'
    BY <1>1, <1>2, <1>3, <2>3 DEF RunnerTypes, OnlyRun
  <2>6. StateInv(p)' /\ AnswersInv(p)' /\ Awaited(p)' /\ Tells(Kept(states'[p]), asks'[p])
    BY <1>3, <2>2 DEF StateInv, AnswersInv, Awaited, Tells
  <2>. QED  BY <1>1, <1>3, <1>4, <2>3, <2>4, <2>5, <2>6, OneProjectMoves DEF OnlyRun
<1>. QED  BY <1>5, <1>6

\* A run that has begun, but for what it now does.
Begun == {"read", "ask", "look", "write"}

LEMMA EndsStep ==
  ASSUME EvalInv, NEW p \in Measured, Ended(p), states[p].at \in Begun,
         UNCHANGED <<golden, hooks, timers, click, stopping, asks>>,
         seen' \in [Measured -> Nat], states[p].at = "read" => golden[p].moves <= seen'[p],
         states[p].at # "read" => seen'[p] = seen[p],
         \A q \in Measured : q # p => seen'[q] = seen[q] /\ evalRuns'[q] = evalRuns[q],
         DOMAIN evalRuns' = Measured, OkRows(p)'
  PROVE  EvalInv'
<1>1. RunnerTypes /\ SlotIs(slot, states) /\ StateInv(p) /\ AnswersInv(p) /\ states[p] \in Runner
      /\ (~stopping => Tells(Kept(states[p]), asks[p])) /\ (Unmeasured(p) => Awaited(p)) /\ golden[p].moves \in Nat
  BY BeforeStep
<1>2. p \notin ToSet(slot.line) /\ states[p].at \notin {"none", "queued"}
  BY <1>1 DEF SlotIs, Begun
<1>3. /\ OnlyRun(p) /\ SlotIs(slot', states')
      /\ states'[p].at \in {"none", "queued"} /\ states'[p].waiting = Nothing /\ states'[p].over = {}
      /\ states'[p].at = "queued" => states'[p].trigger # Nothing
      /\ ~stopping => Kept(states'[p]) = Kept(states[p])
      /\ ~stopping /\ states[p].waiting # Nothing => states'[p].at = "queued"
  BY <1>2, EndedMoves
<1>4. RunnerTypes'
  BY <1>1, <1>3 DEF RunnerTypes, OnlyRun
<1>5. StateInv(p)' /\ AnswersInv(p)'
  BY <1>3 DEF StateInv, AnswersInv
<1>6. Unmeasured(p)' => Awaited(p)'
  <2>1. ASSUME Unmeasured(p)' PROVE Awaited(p)'
    <3>1. states[p].at # "read" /\ Unmeasured(p)
      <4>1. seen'[p] < golden[p].moves /\ seen'[p] \in Nat
        BY <2>1 DEF Unmeasured
      <4>2. states[p].at # "read"
        BY <1>1, <4>1
      <4>. QED  BY <2>1, <4>2 DEF Unmeasured, Here
    <3>2. ~stopping /\ states[p].at \notin {"queued", "read"}
      BY <1>2, <3>1 DEF Unmeasured
    <3>3. (\E t \in Automatic : <<p, t>> \in hooks) \/ p \in timers \/ states[p].waiting # Nothing
      BY <1>1, <3>1, <3>2 DEF Awaited
    <3>. QED  BY <1>3, <3>2, <3>3 DEF Awaited
  <2>. QED  BY <2>1
<1>7. ~stopping => Tells(Kept(states'[p]), asks'[p])
  BY <1>1, <1>3
<1>8. stopping' = stopping /\ golden' = golden /\ hooks' = hooks /\ timers' = timers /\ asks' = asks
  OBVIOUS
<1>9. \A q \in Measured : q # p =>
          /\ golden'[q] = golden[q] /\ states'[q] = states[q] /\ asks'[q] = asks[q] /\ seen'[q] = seen[q]
          /\ evalRuns'[q] = evalRuns[q]
          /\ q \in timers => q \in timers'
          /\ \A t \in Automatic : <<q, t>> \in hooks => <<q, t>> \in hooks'
  BY <1>3, <1>8 DEF OnlyRun
<1>10. SlotIs(slot', states') /\ OkRows(p)'
  BY <1>3
<1>. QED  BY <1>4, <1>5, <1>6, <1>7, <1>8, <1>9, <1>10, OneProjectMoves

LEMMA GoesOnStep ==
  ASSUME EvalInv, NEW p \in Measured, NEW s \in Runner, states' = [states EXCEPT ![p] = s], states[p].at \in Begun,
         s.at \in Begun, s.waiting = states[p].waiting, slot' = slot,
         UNCHANGED <<golden, hooks, timers, click, stopping, asks, evalRuns>>,
         seen' \in [Measured -> Nat], s.at = "read" \/ states[p].at # "read" \/ golden[p].moves <= seen'[p],
         s.at # "read" /\ states[p].at # "read" => seen'[p] = seen[p],
         \A q \in Measured : q # p => seen'[q] = seen[q], AnswersInv(p)'
  PROVE  EvalInv'
<1>1. RunnerTypes /\ SlotIs(slot, states) /\ StateInv(p) /\ states[p] \in Runner /\ OkRows(p)
      /\ (~stopping => Tells(Kept(states[p]), asks[p])) /\ (Unmeasured(p) => Awaited(p)) /\ golden[p].moves \in Nat
  BY BeforeStep
<1>2. p \notin ToSet(slot.line) /\ states[p].at \notin {"none", "queued"} /\ s.at \notin {"none", "queued"}
  BY <1>1 DEF SlotIs, Begun
<1>3. OnlyRun(p) /\ states'[p] = s
  BY <1>1 DEF OnlyRun, RunnerTypes
<1>4. SlotIs(slot', states')
  <2>1. \A q \in Measured : states'[q].at = states[q].at \/ (states[q].at # "none" /\ states'[q].at # "none" /\ q \notin ToSet(slot.line))
    BY <1>2, <1>3 DEF OnlyRun
  <2>2. PICK st1 : st1 = states'
    OBVIOUS
  <2>3. SlotIs(slot, st1)
    <3>1. SlotIs(slot, states)
      BY <1>1
    <3>2. \A q \in Measured : st1[q].at = states[q].at \/ (states[q].at # "none" /\ st1[q].at # "none" /\ q \notin ToSet(slot.line))
      BY <2>1, <2>2
    <3>. QED  BY <3>1, <3>2, Keeps1
  <2>. QED  BY <2>2, <2>3
<1>5. RunnerTypes'
  BY <1>1, <1>3 DEF RunnerTypes, OnlyRun
<1>6. StateInv(p)' /\ OkRows(p)' /\ Kept(states'[p]) = Kept(states[p])
  BY <1>1, <1>2, <1>3 DEF StateInv, OkRows, Kept
<1>7. Unmeasured(p)' => Awaited(p)'
  <2>1. ASSUME Unmeasured(p)' PROVE Awaited(p)'
    <3>1. CASE s.at = "read"
      BY <1>3, <3>1 DEF Awaited
    <3>2. CASE s.at # "read"
      <4>1. seen'[p] < golden[p].moves /\ seen'[p] \in Nat
        BY <2>1 DEF Unmeasured
      <4>2. states[p].at # "read"
        BY <1>1, <3>2, <4>1
      <4>3. Unmeasured(p)
        BY <2>1, <3>2, <4>2 DEF Unmeasured, Here
      <4>4. (\E t \in Automatic : <<p, t>> \in hooks) \/ p \in timers \/ states[p].waiting # Nothing
        BY <1>1, <1>2, <4>2, <4>3 DEF Awaited
      <4>. QED  BY <1>3, <4>4 DEF Awaited
    <3>. QED  BY <3>1, <3>2
  <2>. QED  BY <2>1
<1>8. ~stopping => Tells(Kept(states'[p]), asks'[p])
  BY <1>1, <1>6
<1>9. stopping' = stopping /\ golden' = golden /\ hooks' = hooks /\ timers' = timers /\ asks' = asks /\ evalRuns' = evalRuns
  OBVIOUS
<1>10. \A q \in Measured : q # p =>
          /\ golden'[q] = golden[q] /\ states'[q] = states[q] /\ asks'[q] = asks[q] /\ seen'[q] = seen[q]
          /\ evalRuns'[q] = evalRuns[q]
          /\ q \in timers => q \in timers'
          /\ \A t \in Automatic : <<q, t>> \in hooks => <<q, t>> \in hooks'
  BY <1>3, <1>9 DEF OnlyRun
<1>. QED  BY <1>4, <1>5, <1>6, <1>7, <1>8, <1>9, <1>10, OneProjectMoves

LEMMA ReadStep ==
  ASSUME EvalInv, NEW p \in Measured, Read(p)
  PROVE  EvalInv'
<1>0. PICK s : s = [states[p] EXCEPT !.at = IF golden[p].questions THEN "ask" ELSE "write",
                                     !.left = 2, !.generation = golden[p].generation]
  OBVIOUS
<1>1. /\ states[p].at = "read" /\ seen' = [seen EXCEPT ![p] = golden[p].moves]
      /\ \/ Here(p) /\ states' = [states EXCEPT ![p] = s] /\ slot' = slot
         \/ Ended(p)
      /\ UNCHANGED <<golden, hooks, timers, click, evalRuns, stopping, asks, losses>>
  BY <1>0 DEF Read
<1>2. RunnerTypes /\ AnswersInv(p) /\ states[p] \in Runner /\ golden[p].generation \in Nat /\ golden[p].moves \in Nat /\ OkRows(p)
  BY BeforeStep
<1>3. seen' \in [Measured -> Nat] /\ seen'[p] = golden[p].moves /\ \A q \in Measured : q # p => seen'[q] = seen[q]
  BY <1>1, <1>2 DEF RunnerTypes
<1>4. CASE Ended(p)
  <2>1. DOMAIN evalRuns' = Measured /\ OkRows(p)'
    BY <1>1, <1>2 DEF RunnerTypes, OkRows
  <2>. QED  BY <1>1, <1>2, <1>3, <1>4, <2>1, EndsStep DEF Begun
<1>5. CASE Here(p) /\ states' = [states EXCEPT ![p] = s] /\ slot' = slot
  <2>1. /\ s \in Runner /\ s.at \in {"ask", "write"} /\ s.waiting = states[p].waiting /\ s.left = 2
        /\ s.generation = golden[p].generation /\ s.over = states[p].over
    BY <1>0, <1>2 DEF Runner
  <2>2. states'[p] = s
    BY <1>2, <1>5 DEF RunnerTypes
  <2>3. AnswersInv(p)'
    BY <1>1, <1>2, <2>1, <2>2 DEF AnswersInv, Here
  <2>4. /\ UNCHANGED <<golden, hooks, timers, click, stopping, asks, evalRuns>> /\ states[p].at \in Begun
        /\ s.at \in Begun /\ s.at # "read" /\ golden[p].moves <= seen'[p]
    BY <1>1, <1>2, <1>3, <2>1 DEF Begun
  <2>5. s.at # "read" /\ states[p].at # "read" => seen'[p] = seen[p]
    BY <1>1
  <2>. QED  BY <1>3, <1>5, <2>1, <2>3, <2>4, <2>5, GoesOnStep
<1>. QED  BY <1>1, <1>4, <1>5

LEMMA AskQuestionStep ==
  ASSUME EvalInv, NEW p \in Measured, AskQuestion(p)
  PROVE  EvalInv'
<1>0. PICK bad, good : /\ bad = [states[p] EXCEPT !.at = "write"]
                       /\ good = [states[p] EXCEPT !.over = @ \cup {golden[p].generation}, !.left = @ - 1,
                                                   !.at = IF states[p].left = 1 THEN "look" ELSE "ask"]
  OBVIOUS
<1>1. /\ states[p].at = "ask"
      /\ \/ Ended(p)
         \/ states' = [states EXCEPT ![p] = bad] /\ slot' = slot
         \/ Here(p) /\ states' = [states EXCEPT ![p] = good] /\ slot' = slot
      /\ UNCHANGED <<golden, hooks, timers, click, evalRuns, stopping, asks, seen, losses>>
  BY <1>0 DEF AskQuestion
<1>2. RunnerTypes /\ AnswersInv(p) /\ states[p] \in Runner /\ golden[p].generation \in Nat /\ golden[p].moves \in Nat /\ OkRows(p)
  BY BeforeStep
<1>3. seen' \in [Measured -> Nat] /\ \A q \in Measured : seen'[q] = seen[q]
  BY <1>1, <1>2 DEF RunnerTypes
<1>4. CASE Ended(p)
  <2>1. DOMAIN evalRuns' = Measured /\ OkRows(p)'
    BY <1>1, <1>2 DEF RunnerTypes, OkRows
  <2>. QED  BY <1>1, <1>2, <1>3, <1>4, <2>1, EndsStep DEF Begun
<1>5. CASE states' = [states EXCEPT ![p] = bad] /\ slot' = slot
  <2>1. /\ bad \in Runner /\ bad.at = "write" /\ bad.waiting = states[p].waiting /\ bad.left = states[p].left
        /\ bad.generation = states[p].generation /\ bad.over = states[p].over
    BY <1>0, <1>2 DEF Runner
  <2>2. states'[p] = bad
    BY <1>2, <1>5 DEF RunnerTypes
  <2>3. AnswersInv(p)'
    BY <1>1, <1>2, <2>1, <2>2 DEF AnswersInv, Here
  <2>4. /\ UNCHANGED <<golden, hooks, timers, click, stopping, asks, evalRuns>> /\ states[p].at \in Begun
        /\ bad.at \in Begun /\ bad.at # "read" /\ states[p].at # "read"
    BY <1>1, <2>1 DEF Begun
  <2>. QED  BY <1>3, <1>5, <2>1, <2>3, <2>4, GoesOnStep
<1>6. CASE Here(p) /\ states' = [states EXCEPT ![p] = good] /\ slot' = slot
  <2>1. states[p].over \in SUBSET Nat /\ states[p].left \in 1..2 /\ states[p].left - 1 \in 0..1
    BY <1>1, <1>2 DEF Runner, AnswersInv
  <2>2. PICK over \in SUBSET Nat, left \in 0..1 : over = states[p].over \cup {golden[p].generation} /\ left = states[p].left - 1
    BY <1>2, <2>1
  <2>8. PICK at \in {"look", "ask"} : at = IF states[p].left = 1 THEN "look" ELSE "ask"
    OBVIOUS
  <2>3. good = [states[p] EXCEPT !.over = over, !.left = left, !.at = at]
    BY <1>0, <2>2, <2>8
  <2>10. /\ good.at = at /\ good.trigger = states[p].trigger /\ good.waiting = states[p].waiting
         /\ good.generation = states[p].generation /\ good.over = over /\ good.left = left
    BY <1>2, <2>3 DEF Runner
  <2>11. good \in Runner
    <3>1. left \in Nat /\ over \in SUBSET Nat
      BY <2>2
    <3>. QED  BY <1>2, <2>3, <2>8, <3>1 DEF Runner
  <2>4. /\ good \in Runner /\ good.at \in {"look", "ask"} /\ good.waiting = states[p].waiting /\ good.left = left
        /\ good.generation = states[p].generation /\ good.over = over
        /\ good.at = "ask" => states[p].left # 1
    BY <2>8, <2>10, <2>11
  <2>5. states'[p] = good
    BY <1>2, <1>6 DEF RunnerTypes
  <2>6. good.at = "ask" => good.left \in 1..2
    BY <2>1, <2>2, <2>4
  <2>7. AnswersInv(p)'
    BY <1>1, <1>2, <1>6, <2>2, <2>4, <2>5, <2>6 DEF AnswersInv, Here
  <2>. QED  BY <1>1, <1>2, <1>3, <1>6, <2>4, <2>7, GoesOnStep DEF Begun
<1>. QED  BY <1>1, <1>4, <1>5, <1>6

LEMMA LookAgainStep ==
  ASSUME EvalInv, NEW p \in Measured, LookAgain(p)
  PROVE  EvalInv'
<1>0. PICK s : s = [states[p] EXCEPT !.at = "write", !.left = IF StillTheIndex(p) THEN 0 ELSE 1]
  OBVIOUS
<1>1. /\ states[p].at = "look"
      /\ \/ Ended(p)
         \/ Here(p) /\ states' = [states EXCEPT ![p] = s] /\ slot' = slot
      /\ UNCHANGED <<golden, hooks, timers, click, evalRuns, stopping, asks, seen, losses>>
  BY <1>0 DEF LookAgain
<1>2. RunnerTypes /\ AnswersInv(p) /\ states[p] \in Runner /\ golden[p].generation \in Nat /\ golden[p].moves \in Nat /\ OkRows(p)
  BY BeforeStep
<1>3. seen' \in [Measured -> Nat] /\ \A q \in Measured : seen'[q] = seen[q]
  BY <1>1, <1>2 DEF RunnerTypes
<1>4. CASE Ended(p)
  <2>1. DOMAIN evalRuns' = Measured /\ OkRows(p)'
    BY <1>1, <1>2 DEF RunnerTypes, OkRows
  <2>. QED  BY <1>1, <1>2, <1>3, <1>4, <2>1, EndsStep DEF Begun
<1>5. CASE Here(p) /\ states' = [states EXCEPT ![p] = s] /\ slot' = slot
  <2>1. /\ s \in Runner /\ s.at = "write" /\ s.waiting = states[p].waiting
        /\ s.left = (IF StillTheIndex(p) THEN 0 ELSE 1)
        /\ s.generation = states[p].generation /\ s.over = states[p].over
    BY <1>0, <1>2 DEF Runner
  <2>2. states'[p] = s
    BY <1>2, <1>5 DEF RunnerTypes
  <2>3. s.left = 0 => s.over = {s.generation}
    <3>1. ASSUME s.left = 0 PROVE s.over = {s.generation}
      <4>1. golden[p].generation = s.generation
        BY <2>1, <3>1 DEF StillTheIndex
      <4>2. s.over # {} /\ s.over \in SUBSET Nat /\ \A g \in s.over : s.generation <= g /\ g <= s.generation
        BY <1>1, <1>2, <1>5, <2>1, <4>1 DEF AnswersInv, Runner
      <4>3. \A g \in s.over : g = s.generation
        BY <1>2, <4>1, <4>2
      <4>. QED  BY <4>2, <4>3
    <3>. QED  BY <3>1
  <2>4. AnswersInv(p)'
    BY <1>1, <1>2, <2>1, <2>2, <2>3 DEF AnswersInv, Here
  <2>. QED  BY <1>1, <1>2, <1>3, <1>5, <2>1, <2>4, GoesOnStep DEF Begun
<1>. QED  BY <1>1, <1>4, <1>5

LEMMA WriteRowStep ==
  ASSUME EvalInv, NEW p \in Measured, WriteRow(p)
  PROVE  EvalInv'
<1>1. PICK stored \in BOOLEAN :
        evalRuns' = IF stored
          THEN [evalRuns EXCEPT ![p] = @ \cup {[status |-> IF states[p].left = 0 THEN "ok" ELSE "error",
                  trigger |-> states[p].trigger, generation |-> states[p].generation, over |-> states[p].over]}]
          ELSE evalRuns
  BY DEF WriteRow
<1>2. /\ states[p].at = "write" /\ Ended(p)
      /\ UNCHANGED <<golden, hooks, timers, click, stopping, asks, seen>>
  BY DEF WriteRow
<1>3. RunnerTypes /\ AnswersInv(p) /\ OkRows(p)
  BY BeforeStep
<1>4. seen' \in [Measured -> Nat] /\ \A q \in Measured : seen'[q] = seen[q]
  BY <1>2, <1>3 DEF RunnerTypes
<1>5. DOMAIN evalRuns' = Measured /\ \A q \in Measured : q # p => evalRuns'[q] = evalRuns[q]
  BY <1>1, <1>3 DEF RunnerTypes
<1>6. OkRows(p)'
  <2>1. PICK row : row = [status |-> IF states[p].left = 0 THEN "ok" ELSE "error", trigger |-> states[p].trigger,
                          generation |-> states[p].generation, over |-> states[p].over]
    OBVIOUS
  <2>2. row.status = "ok" => row.over = {row.generation}
    BY <1>2, <1>3, <2>1 DEF AnswersInv
  <2>3. \A r \in evalRuns'[p] : r \in evalRuns[p] \/ r = row
    BY <1>1, <1>3, <2>1 DEF RunnerTypes
  <2>. QED  BY <1>3, <2>2, <2>3 DEF OkRows
<1>. QED  BY <1>2, <1>4, <1>5, <1>6, EndsStep DEF Begun

LEMMA StopRunnerStep ==
  ASSUME EvalInv, StopRunner
  PROVE  EvalInv'
<1>1. /\ stopping' = TRUE /\ timers' = {}
      /\ UNCHANGED <<golden, hooks, states, slot, click, evalRuns, asks, seen, losses>>
  BY DEF StopRunner
<1>. QED  BY <1>1 DEF EvalInv, RunsInv, RunnerTypes, StateInv, AnswersInv, Here, Unmeasured, OkRowIsOfOneIndex

-----------------------------------------------------------------------------
LEMMA EvalStarts == EvalInit => EvalInv
<1>. SUFFICES ASSUME EvalInit PROVE EvalInv
  OBVIOUS
<1>1. RunnerTypes
  BY DEF EvalInit, RunnerTypes, Runner, NoRunner, NotAsking
<1>2. \A p \in Measured : states[p] = NoRunner /\ asks[p] = {} /\ ~Unmeasured(p)
  BY DEF EvalInit, Unmeasured
<1>3. \A p \in Measured : StateInv(p) /\ AnswersInv(p)
  BY <1>2 DEF StateInv, AnswersInv, NoRunner
<1>4. OkRowIsOfOneIndex /\ \A p \in Measured : Tells(Kept(states[p]), asks[p])
  BY <1>2 DEF EvalInit, OkRowIsOfOneIndex, Tells
<1>5. SlotIs(slot, states)
  <2>1. slot.held = 0 /\ slot.line = <<>> /\ slot \in [held : Int, line : Seq(Measured)]
    BY DEF EvalInit
  <2>2. {p \in Measured : states[p].at # "none"} \ ToSet(slot.line) = {}
    BY <1>2 DEF NoRunner
  <2>3. ToSet(slot.line) = {}
    BY <2>1, MembersOf
  <2>4. Cardinality({p \in Measured : states[p].at # "none"} \ ToSet(slot.line)) = 0
    BY <2>2, FS_EmptySet
  <2>5. slot.held = 0 /\ Len(slot.line) = 0 /\ \A i, j \in 1..Len(slot.line) : FALSE
    BY <2>1
  <2>. QED  BY <2>1, <2>3, <2>4, <2>5 DEF SlotIs
<1>. QED  BY <1>1, <1>2, <1>3, <1>4, <1>5 DEF EvalInv, RunsInv

LEMMA EvalSteps == EvalInv /\ [EvalNext]_evalVars => EvalInv'
<1>. SUFFICES ASSUME EvalInv, [EvalNext]_evalVars PROVE EvalInv'
  OBVIOUS
<1>1. ASSUME NEW p \in Measured, Rebuild(p) \/ Increment(p) \/ EditQuestions(p) \/ DropProject(p) PROVE EvalInv'
  BY <1>1, ProjectSteps, DropProjectStep
<1>2. ASSUME NEW p \in Measured, IndexChanged(p) \/ GoldenSetChanged(p) \/ TimerFires(p) PROVE EvalInv'
  BY <1>2, ToldSteps, GoldenSetChangedStep
<1>3. ASSUME NEW p \in Measured, Runs(p) PROVE EvalInv'
  BY <1>3, StartStep, ReadStep, AskQuestionStep, LookAgainStep, WriteRowStep DEF Runs
<1>4. ASSUME NEW c \in Clicks, DecideClick(c) \/ \E p \in Measured : Click(c, p) PROVE EvalInv'
  BY <1>4, DecideClickStep, ClickStep
<1>5. CASE StopRunner
  BY <1>5, StopRunnerStep
<1>6. CASE UNCHANGED evalVars
  BY <1>6 DEF evalVars, EvalInv, RunsInv, RunnerTypes, StateInv, AnswersInv, Here, Unmeasured, Awaited, OkRowIsOfOneIndex
<1>. QED  BY <1>1, <1>2, <1>3, <1>4, <1>5, <1>6 DEF EvalNext

LEMMA EvalHolds == EvalInv => RunsAreSound /\ EvalTypeOK
<1>. SUFFICES ASSUME EvalInv PROVE RunsAreSound /\ EvalTypeOK
  OBVIOUS
<1>1. NoChangeIsMissed
  BY DEF EvalInv, RunsInv, Awaited, NoChangeIsMissed
<1>2. MostTellingTrigger
  BY DEF EvalInv, RunsInv, Tells, Kept, MostTellingTrigger
<1>3. OkRowIsOfOneIndex
  BY DEF EvalInv, RunsInv
<1>4. EvalTypeOK
  BY DEF EvalInv, RunsInv, RunnerTypes, Runner, SlotIs, EvalTypeOK
<1>. QED  BY <1>1, <1>2, <1>3, <1>4 DEF RunsAreSound

\* No change that calls the runner is missed, a run keeps the most telling of the reasons it was
\* asked for, and an "ok" row is of one index, with any number of projects and clicks
\* (eval-runs.ts, request, launch, execute).
THEOREM RunsDoStaySound == EvalSpec => []RunsAreSound
<1>1. EvalInv /\ [EvalNext]_evalVars => EvalInv'
  BY EvalSteps
<1>. QED  BY <1>1, EvalStarts, EvalHolds, PTL DEF EvalSpec

\* The type invariant of the quality runs.
THEOREM EvalTypesHold == EvalSpec => []EvalTypeOK
<1>1. EvalInv /\ [EvalNext]_evalVars => EvalInv'
  BY EvalSteps
<1>. QED  BY <1>1, EvalStarts, EvalHolds, PTL DEF EvalSpec

-----------------------------------------------------------------------------
(***************************************************************************)
(* FloorCalibration.  The places taken are as many as the calls that took  *)
(* one; the first in the line of a project has its lock; a suggestion was  *)
(* measured over generations no older than its own; and a request that     *)
(* holds a row has read what it will overwrite.                            *)
(***************************************************************************)

Occurs(x, line) == \E i \in 1..Len(line) : line[i] = x

Call == [at : {"new", "lock", "place", "probe", "done", "busy"}, project : Floored \cup {"none"},
         trigger : {"none", "operator", "model_change"}, generation : Nat, over : SUBSET Nat, left : Nat]
Suggestion == [id : Nat, generation : Nat, over : SUBSET Nat, applied : Nat]
Adoption == [at : {"off", "holds", "locked", "refused", "adopted"}, project : Floored \cup {"none"},
            suggestion : Nat, before : Nat]

CallTypes ==
  /\ measuring \in [Measurements -> Call]
  /\ projectLine \in [Floored -> Seq(Measurements)]
  /\ places \in [taken : Int, line : Seq(Measurements)]
  /\ \A c \in Measurements : measuring[c].at \in {"lock", "place", "probe"} => measuring[c].project \in Floored

\* Calls that have been let in by the lock of their project.
IsInside(c) ==
  measuring[c].at \in {"place", "probe"} \/ (measuring[c].at = "lock" /\ measuring[c].trigger = "operator")

LineInv ==
  \A c \in Measurements :
    /\ measuring[c].at = "lock" => Occurs(c, projectLine[measuring[c].project])
    /\ IsInside(c) => projectLine[measuring[c].project] # <<>> /\ HasLock(c)

Takes(c) ==
  \/ measuring[c].at = "probe"
  \/ measuring[c].at = "place" /\ c \notin ToSet(places.line)
  \/ measuring[c].at = "lock" /\ measuring[c].trigger = "operator"

PlacesInv ==
  /\ places.taken = Cardinality({c \in Measurements : Takes(c)}) /\ places.taken <= Places
  /\ \A i, j \in 1..Len(places.line) : i # j => places.line[i] # places.line[j]
  /\ \A i \in 1..Len(places.line) : measuring[places.line[i]].at = "place"

FloorTypes ==
  /\ served \in [Floored -> Nat]
  /\ floor \in [Floored -> 0..MaxMeasurements]
  /\ rebuilt \subseteq Floored
  /\ suggestions \in [Floored -> SUBSET Suggestion]
  /\ manager \in [Managers -> Adoption]
  /\ rowLock \in [Floored -> Nat]

SuggestionInv(p, s) ==
  /\ served[p] > 0 /\ s.over # {} /\ s.id \in 1..Created
  /\ \A g \in s.over : s.generation <= g /\ g <= served[p]
  /\ s.applied # 0 => s.over = {s.applied}

SuggestionsInv ==
  \A p \in Floored :
    /\ \A s \in suggestions[p] : SuggestionInv(p, s)
    /\ \A s, t \in suggestions[p] : s.id = t.id => s = t

\* What is known of the probes of a call.
ProbeInv(c) ==
  /\ measuring[c].at \in {"new", "lock", "place"} => measuring[c].over = {} /\ measuring[c].left = Probes
  /\ measuring[c].at = "probe" =>
       /\ \A g \in measuring[c].over : measuring[c].generation <= g
       /\ Serves(measuring[c].project) =>
            /\ measuring[c].generation <= served[measuring[c].project]
            /\ \A g \in measuring[c].over : g <= served[measuring[c].project]
       /\ measuring[c].left < Probes => measuring[c].over # {}

ProbesInv == \A c \in Measurements : ProbeInv(c)

Holds(r) == manager[r].at \in {"holds", "locked"}

RequestInv(r) ==
  LET p == manager[r].project
      n == manager[r].suggestion
  IN /\ Holds(r) => p \in Floored /\ (n # 0 => \E s \in suggestions[p] : s.id = n)
     /\ manager[r].at = "holds" => n # 0
     /\ manager[r].at = "locked" => rowLock[p] = r /\ manager[r].before = floor[p]
     /\ manager[r].at = "locked" => \A s \in suggestions[p] : s.id = n => s.generation = served[p]

RequestsInv == \A r \in Managers : RequestInv(r)

CallsInv == CallTypes /\ LineInv /\ PlacesInv
FloorInv == CallsInv /\ FloorTypes /\ SuggestionsInv /\ ProbesInv /\ RequestsInv /\ TrailIsTrue

-----------------------------------------------------------------------------
\* The first of a line stays the first of it, whoever joins, and one who waits in it still does
\* when somebody else leaves it.
LEMMA Joins ==
  ASSUME NEW S, NEW s \in Seq(S), NEW x \in S
  PROVE  /\ Append(s, x) \in Seq(S) /\ Append(s, x) # <<>> /\ Occurs(x, Append(s, x))
         /\ s # <<>> => Head(Append(s, x)) = Head(s)
         /\ s = <<>> => Head(Append(s, x)) = x
         /\ \A y : Occurs(y, s) => Occurs(y, Append(s, x))
<1>1. Len(Append(s, x)) = Len(s) + 1 /\ Len(s) \in Nat /\ Append(s, x) \in Seq(S)
  OBVIOUS
<1>2. \A i \in 1..Len(s) : Append(s, x)[i] = s[i]
  OBVIOUS
<1>3. Append(s, x)[Len(s) + 1] = x
  OBVIOUS
<1>4. Append(s, x) # <<>> /\ (s # <<>> => Head(Append(s, x)) = Head(s)) /\ (s = <<>> => Head(Append(s, x)) = x)
  OBVIOUS
<1>. QED  BY <1>1, <1>2, <1>3, <1>4 DEF Occurs

LEMMA WaitsOn ==
  ASSUME NEW S, NEW s \in Seq(S), s # <<>>
  PROVE  /\ Tail(s) \in Seq(S)
         /\ \A y : Occurs(y, s) /\ y # Head(s) => Tail(s) # <<>> /\ Occurs(y, Tail(s))
<1>1. Len(s) \in Nat /\ Len(s) > 0 /\ Tail(s) \in Seq(S) /\ Len(Tail(s)) = Len(s) - 1 /\ Head(s) = s[1]
  OBVIOUS
<1>2. \A i \in 1..Len(s) - 1 : Tail(s)[i] = s[i + 1]
  OBVIOUS
<1>3. ASSUME NEW y, Occurs(y, s), y # Head(s) PROVE Tail(s) # <<>> /\ Occurs(y, Tail(s))
  <2>1. PICK i \in 1..Len(s) : s[i] = y
    BY <1>3 DEF Occurs
  <2>2. i # 1 /\ i - 1 \in 1..Len(s) - 1 /\ i \in Int
    BY <1>1, <1>3, <2>1
  <2>3. Tail(s)[i - 1] = y
    BY <1>2, <2>1, <2>2
  <2>4. Tail(s) # <<>>
    BY <1>1, <2>2
  <2>5. i - 1 \in 1..Len(Tail(s))
    BY <1>1, <2>2
  <2>. QED  BY <2>3, <2>4, <2>5 DEF Occurs
<1>. QED  BY <1>1, <1>3

\* One more, or one less, in a set of calls.
LEMMA OneMore ==
  ASSUME NEW S \in SUBSET Measurements, NEW c \in Measurements, c \notin S
  PROVE  Cardinality(S \cup {c}) = Cardinality(S) + 1 /\ Cardinality(S) \in Nat
<1>1. IsFiniteSet(Measurements)
  BY FS_Interval, FloorAssumption DEF Measurements
<1>2. IsFiniteSet(S)
  BY <1>1, FS_Subset
<1>. QED  BY <1>2, FS_AddElement, FS_CardinalityType

LEMMA CreatedIsBounded == Created \in 0..MaxMeasurements /\ Created \in Nat
<1>. DEFINE Over == {c \in Measurements : measuring[c].at = "done" /\ measuring[c].left = 0}
<1>1. IsFiniteSet(Measurements) /\ Cardinality(Measurements) = MaxMeasurements /\ MaxMeasurements \in Nat
  BY FS_Interval, FloorAssumption DEF Measurements
<1>2. Over \in SUBSET Measurements
  OBVIOUS
<1>. HIDE DEF Over
<1>3. Cardinality(Over) <= MaxMeasurements /\ Cardinality(Over) \in Nat
  BY <1>1, <1>2, FS_Subset, FS_CardinalityType
<1>. QED  BY <1>1, <1>3 DEF Created, Over

LEMMA CreatedGrows ==
  ASSUME \A c \in Measurements : measuring[c].at = "done" => measuring'[c] = measuring[c]
  PROVE  Created' \in Nat /\ Created <= Created'
<1>. DEFINE Over == {c \in Measurements : measuring[c].at = "done" /\ measuring[c].left = 0}
<1>1. IsFiniteSet(Measurements)
  BY FS_Interval, FloorAssumption DEF Measurements
<1>2. Over \in SUBSET (Over') /\ Over' \in SUBSET Measurements
  OBVIOUS
<1>. HIDE DEF Over
<1>3. IsFiniteSet(Over')
  BY <1>1, <1>2, FS_Subset
<1>4. Cardinality(Over) <= Cardinality(Over') /\ Cardinality(Over') \in Nat
  BY <1>2, <1>3, FS_Subset, FS_CardinalityType
<1>. QED  BY <1>4 DEF Created, Over

-----------------------------------------------------------------------------
\* What a step does to one call, the others left alone.
Only(c) ==
  /\ measuring' \in [Measurements -> Call]
  /\ \A d \in Measurements : d # c => measuring'[d] = measuring[d]

Before(c, at) == measuring[c].at = at
After(c, at) == measuring'[c].at = at

\* It joins the line of p, ...
JoinsLine(c, p) ==
  /\ Only(c) /\ After(c, "lock") /\ measuring'[c].project = p
  /\ projectLine' = [projectLine EXCEPT ![p] = Append(@, c)]
  /\ measuring'[c].trigger = "operator" => projectLine[p] = <<>>

\* ... goes on as the first of it, ...
GoesOn(c) ==
  /\ Only(c) /\ measuring'[c].project = measuring[c].project /\ ~After(c, "lock")
  /\ projectLine' = projectLine
  /\ IsInside(c)' => projectLine[measuring[c].project] # <<>> /\ HasLock(c)
  /\ IsInside(c)' => measuring[c].at \in {"lock", "place", "probe"}

\* ... or leaves it.
LeavesLine(c) ==
  /\ Only(c) /\ After(c, "done")
  /\ measuring[c].project \in Floored /\ projectLine[measuring[c].project] # <<>> /\ HasLock(c)
  /\ projectLine' = [projectLine EXCEPT ![measuring[c].project] = Tail(@)]

LineMoves(c) == (\E p \in Floored : JoinsLine(c, p)) \/ GoesOn(c) \/ LeavesLine(c)

LEMMA LineStep ==
  ASSUME CallTypes, LineInv, NEW c \in Measurements, LineMoves(c)
  PROVE  LineInv' /\ projectLine' \in [Floored -> Seq(Measurements)]
<1>. DEFINE Line(d) == projectLine[measuring[d].project]
            LineNow(d) == projectLine'[measuring'[d].project]
            Is(d) == /\ measuring'[d].at = "lock" => Occurs(d, LineNow(d))
                     /\ IsInside(d)' => LineNow(d) # <<>> /\ Head(LineNow(d)) = d
<1>1. SUFFICES (\A d \in Measurements : Is(d)) /\ projectLine' \in [Floored -> Seq(Measurements)]
  BY DEF LineInv, HasLock
<1>2. \A d \in Measurements :
        /\ measuring[d].at = "lock" => Occurs(d, Line(d))
        /\ IsInside(d) => Line(d) # <<>> /\ Head(Line(d)) = d
        /\ IsInside(d) => measuring[d].at \in {"lock", "place", "probe"}
        /\ measuring[d].at \in {"lock", "place", "probe"} => measuring[d].project \in Floored
  BY DEF LineInv, HasLock, CallTypes, IsInside
<1>3. \A d \in Measurements : d # c /\ Only(c) => measuring'[d] = measuring[d] /\ (IsInside(d)' <=> IsInside(d))
  BY DEF Only, IsInside
<1>. HIDE DEF Is
<1>4. ASSUME NEW p \in Floored, JoinsLine(c, p) PROVE (\A d \in Measurements : Is(d)) /\ projectLine' \in [Floored -> Seq(Measurements)]
  <2>1. /\ projectLine[p] \in Seq(Measurements) /\ projectLine'[p] = Append(projectLine[p], c)
        /\ \A q \in Floored : q # p => projectLine'[q] = projectLine[q]
        /\ projectLine' \in [Floored -> Seq(Measurements)]
    BY <1>4 DEF CallTypes, JoinsLine
  <2>2. Is(c)
    <3>1. measuring'[c].at = "lock" /\ LineNow(c) = Append(projectLine[p], c)
      BY <1>4, <2>1 DEF JoinsLine, After
    <3>2. Occurs(c, LineNow(c)) /\ LineNow(c) # <<>>
      BY <2>1, <3>1, Joins
    <3>3. IsInside(c)' => projectLine[p] = <<>>
      BY <1>4, <3>1 DEF JoinsLine, IsInside
    <3>4. IsInside(c)' => Head(LineNow(c)) = c
      BY <2>1, <3>1, <3>3, Joins
    <3>. QED  BY <3>2, <3>4 DEF Is
  <2>3. ASSUME NEW d \in Measurements, d # c PROVE Is(d)
    <3>1. measuring'[d] = measuring[d] /\ (IsInside(d)' <=> IsInside(d))
      BY <1>3, <1>4, <2>3 DEF JoinsLine
    <3>2. CASE measuring[d].at \notin {"lock", "place", "probe"}
      BY <1>2, <3>1, <3>2 DEF Is
    <3>3. CASE measuring[d].project \in Floored /\ measuring[d].project # p
      BY <1>2, <2>1, <3>1, <3>3 DEF Is
    <3>4. CASE measuring[d].project = p
      <4>1. LineNow(d) = Append(Line(d), c) /\ Line(d) \in Seq(Measurements)
        BY <2>1, <3>1, <3>4
      <4>2. /\ Occurs(d, Line(d)) => Occurs(d, LineNow(d))
            /\ Line(d) # <<>> => LineNow(d) # <<>> /\ Head(LineNow(d)) = Head(Line(d))
        BY <4>1, Joins
      <4>. QED  BY <1>2, <3>1, <4>2 DEF Is
    <3>. QED  BY <1>2, <3>2, <3>3, <3>4
  <2>. QED  BY <2>1, <2>2, <2>3
<1>5. ASSUME GoesOn(c) PROVE (\A d \in Measurements : Is(d)) /\ projectLine' \in [Floored -> Seq(Measurements)]
  <2>1. projectLine' = projectLine /\ projectLine' \in [Floored -> Seq(Measurements)]
    BY <1>5 DEF GoesOn, CallTypes
  <2>2. Is(c)
    BY <1>2, <1>5, <2>1 DEF GoesOn, Is, HasLock, After
  <2>3. ASSUME NEW d \in Measurements, d # c PROVE Is(d)
    BY <1>2, <1>3, <1>5, <2>1, <2>3 DEF GoesOn, Is
  <2>. QED  BY <2>1, <2>2, <2>3
<1>6. ASSUME LeavesLine(c) PROVE (\A d \in Measurements : Is(d)) /\ projectLine' \in [Floored -> Seq(Measurements)]
  <2>. DEFINE p == measuring[c].project
  <2>1. /\ projectLine[p] \in Seq(Measurements) /\ projectLine[p] # <<>> /\ Head(projectLine[p]) = c
        /\ projectLine'[p] = Tail(projectLine[p]) /\ p \in Floored
        /\ \A q \in Floored : q # p => projectLine'[q] = projectLine[q]
    BY <1>6 DEF CallTypes, LeavesLine, HasLock
  <2>2. projectLine' \in [Floored -> Seq(Measurements)]
    BY <1>6, <2>1, WaitsOn DEF CallTypes, LeavesLine
  <2>3. Is(c)
    BY <1>6 DEF LeavesLine, After, Is, IsInside
  <2>4. ASSUME NEW d \in Measurements, d # c PROVE Is(d)
    <3>1. measuring'[d] = measuring[d] /\ (IsInside(d)' <=> IsInside(d))
      BY <1>3, <1>6, <2>4 DEF LeavesLine
    <3>2. CASE measuring[d].at \notin {"lock", "place", "probe"}
      BY <1>2, <3>1, <3>2 DEF Is
    <3>3. CASE measuring[d].project \in Floored /\ measuring[d].project # p
      BY <1>2, <2>1, <3>1, <3>3 DEF Is
    <3>4. CASE measuring[d].project = p
      <4>1. LineNow(d) = Tail(Line(d)) /\ Line(d) \in Seq(Measurements) /\ Line(d) # <<>> /\ Head(Line(d)) = c
        BY <2>1, <3>1, <3>4
      <4>2. ~IsInside(d)
        BY <1>2, <2>4, <4>1
      <4>3. Occurs(d, Line(d)) => Occurs(d, LineNow(d))
        BY <2>4, <4>1, WaitsOn
      <4>. QED  BY <1>2, <3>1, <4>2, <4>3 DEF Is
    <3>. QED  BY <1>2, <3>2, <3>3, <3>4
  <2>. QED  BY <2>2, <2>3, <2>4
<1>. QED  BY <1>4, <1>5, <1>6 DEF LineMoves
-----------------------------------------------------------------------------
\* What a step does to the places: nothing, ...
KeepsPlace(c) == Only(c) /\ places' = places /\ c \notin ToSet(places.line) /\ (Takes(c)' <=> Takes(c))

\* ... the call takes one, ...
TakesPlace(c) == Only(c) /\ PlaceFree /\ places' = PlaceTaken /\ c \notin ToSet(places.line) /\ ~Takes(c) /\ Takes(c)'

\* ... waits for one, ...
WaitsForPlace(c) ==
  /\ Only(c) /\ places' = [places EXCEPT !.line = Append(@, c)]
  /\ c \notin ToSet(places.line) /\ ~Takes(c) /\ After(c, "place")

\* ... or leaves one.
LeavesPlace(c) == Only(c) /\ places' = PlaceLeft /\ c \notin ToSet(places.line) /\ Takes(c) /\ After(c, "done")

PlaceMoves(c) == KeepsPlace(c) \/ TakesPlace(c) \/ WaitsForPlace(c) \/ LeavesPlace(c)

\* Who waits for a place does so once, and at that point.
PlaceLine(line, calls) ==
  /\ \A i, j \in 1..Len(line) : i # j => line[i] # line[j]
  /\ \A i \in 1..Len(line) : calls[line[i]].at = "place"

LEMMA PlaceStep ==
  ASSUME CallTypes, PlacesInv, NEW c \in Measurements, PlaceMoves(c)
  PROVE  PlacesInv' /\ places' \in [taken : Int, line : Seq(Measurements)]
<1>. DEFINE line == places.line
            W == {d \in Measurements : Takes(d)}
            WNow == {d \in Measurements : Takes(d)'}
            Goal == /\ places'.taken = Cardinality(WNow) /\ places'.taken <= Places
                    /\ PlaceLine(places'.line, measuring')
                    /\ places' \in [taken : Int, line : Seq(Measurements)]
<1>1. SUFFICES Goal
  BY DEF PlacesInv, PlaceLine
<1>2. /\ places \in [taken : Int, line : Seq(Measurements)] /\ line \in Seq(Measurements)
      /\ places.taken = Cardinality(W) /\ places.taken <= Places /\ PlaceLine(line, measuring)
  BY DEF PlacesInv, CallTypes, PlaceLine
<1>3. Only(c) /\ c \notin ToSet(line)
  BY DEF PlaceMoves, KeepsPlace, TakesPlace, WaitsForPlace, LeavesPlace
<1>4. \A d \in Measurements : d # c => measuring'[d] = measuring[d]
  BY <1>3 DEF Only
<1>5. \A i \in 1..Len(line) : line[i] \in Measurements /\ line[i] # c
  BY <1>2, <1>3 DEF ToSet
<1>6. PlaceLine(line, measuring')
  BY <1>2, <1>4, <1>5 DEF PlaceLine
<1>7. ASSUME \A d \in Measurements : d # c => (d \in ToSet(line) <=> d \in ToSet(places'.line))
      PROVE  \A d \in Measurements : d # c => (Takes(d)' <=> Takes(d))
  BY <1>4, <1>7 DEF Takes
<1>8. CASE KeepsPlace(c)
  <2>1. \A d \in Measurements : Takes(d)' <=> Takes(d)
    BY <1>7, <1>8 DEF KeepsPlace
  <2>2. WNow = W
    BY <2>1
  <2>. QED  BY <1>2, <1>6, <1>8, <2>2 DEF KeepsPlace
<1>9. CASE TakesPlace(c)
  <2>1. places' = [places EXCEPT !.taken = @ + 1] /\ places.taken < Places
    BY <1>9 DEF TakesPlace, PlaceTaken, PlaceFree
  <2>2. places'.line = line /\ places'.taken = places.taken + 1 /\ places' \in [taken : Int, line : Seq(Measurements)]
    BY <1>2, <2>1
  <2>3. \A d \in Measurements : d # c => (Takes(d)' <=> Takes(d))
    BY <1>7, <2>2
  <2>4. WNow = W \cup {c} /\ c \notin W
    BY <1>9, <2>3 DEF TakesPlace
  <2>5. Cardinality(WNow) = Cardinality(W) + 1
    BY <2>4, OneMore
  <2>. QED  BY <1>2, <1>6, <2>1, <2>2, <2>5, FloorAssumption
<1>10. CASE WaitsForPlace(c)
  <2>1. places'.line = Append(line, c) /\ places'.taken = places.taken /\ places' \in [taken : Int, line : Seq(Measurements)]
    <3>1. Append(line, c) \in Seq(Measurements)
      BY <1>2
    <3>2. places' = [places EXCEPT !.line = Append(line, c)]
      BY <1>10 DEF WaitsForPlace
    <3>. HIDE DEF line
    <3>. QED  BY <1>2, <3>1, <3>2
  <2>2. /\ Len(places'.line) = Len(line) + 1 /\ Len(line) \in Nat /\ places'.line[Len(line) + 1] = c
        /\ \A i \in 1..Len(line) : places'.line[i] = line[i]
    BY <1>2, <2>1
  <2>3. DOMAIN line = 1..Len(line) /\ DOMAIN places'.line = 1..Len(places'.line)
    BY <1>2, <2>1
  <2>4. \A i \in 1..Len(line) + 1 : i \in 1..Len(line) \/ i = Len(line) + 1
    BY <2>2
  <2>5. \A d \in Measurements : d # c => (d \in ToSet(line) <=> d \in ToSet(places'.line))
    BY <2>2, <2>3, <2>4 DEF ToSet
  <2>6. c \in ToSet(places'.line)
    BY <2>2, <2>3 DEF ToSet
  <2>7. ~Takes(c)' /\ ~Takes(c)
    BY <1>10, <2>6 DEF WaitsForPlace, Takes, After
  <2>8. WNow = W
    BY <1>7, <2>5, <2>7
  <2>9. PlaceLine(places'.line, measuring')
    BY <1>5, <1>6, <1>10, <2>2, <2>4 DEF PlaceLine, WaitsForPlace, After
  <2>. QED  BY <1>2, <2>1, <2>8, <2>9
<1>11. CASE LeavesPlace(c)
  <2>1. places' = PlaceLeft /\ Takes(c) /\ measuring'[c].at = "done"
    BY <1>11 DEF LeavesPlace, After
  <2>2. ~Takes(c)'
    BY <2>1 DEF Takes
  <2>3. CASE line = <<>>
    <3>1. places'.line = line /\ places'.taken = places.taken - 1 /\ places' \in [taken : Int, line : Seq(Measurements)]
      BY <1>2, <2>1, <2>3 DEF PlaceLeft
    <3>2. WNow = W \ {c} /\ W = WNow \cup {c} /\ c \notin WNow
      BY <1>7, <2>1, <2>2, <3>1
    <3>3. Cardinality(W) = Cardinality(WNow) + 1 /\ Cardinality(WNow) \in Nat
      <4>. HIDE DEF W, WNow
      <4>1. WNow \in SUBSET Measurements
        BY DEF WNow
      <4>. QED  BY <3>2, <4>1, OneMore
    <3>. QED  BY <1>2, <1>6, <3>1, <3>3, FloorAssumption
  <2>4. CASE line # <<>>
    <3>0. PICK h \in Measurements : h = Head(line)
      BY <1>2, <2>4
    <3>1. places'.line = Tail(line) /\ places'.taken = places.taken /\ places' \in [taken : Int, line : Seq(Measurements)]
      BY <1>2, <2>1, <2>4 DEF PlaceLeft
    <3>2. /\ Len(line) \in Nat /\ Len(line) > 0 /\ Len(Tail(line)) = Len(line) - 1 /\ h = line[1]
          /\ \A i \in 1..Len(line) - 1 : Tail(line)[i] = line[i + 1]
          /\ DOMAIN line = 1..Len(line) /\ DOMAIN Tail(line) = 1..Len(line) - 1
      BY <1>2, <2>4, <3>0
    <3>3. \A i \in 1..Len(line) : i = 1 \/ (i - 1 \in 1..Len(line) - 1 /\ (i - 1) + 1 = i)
      BY <3>2
    <3>4. \A i \in 1..Len(line) - 1 : i + 1 \in 1..Len(line) /\ i + 1 # 1
      BY <3>2
    <3>5. PlaceLine(Tail(line), measuring')
      <4>1. \A i \in 1..Len(line) - 1 : measuring'[Tail(line)[i]].at = "place"
        BY <1>6, <3>2, <3>4 DEF PlaceLine
      <4>2. ASSUME NEW i \in 1..Len(line) - 1, NEW j \in 1..Len(line) - 1, i # j PROVE Tail(line)[i] # Tail(line)[j]
        <5>1. i + 1 # j + 1 /\ i + 1 \in 1..Len(line) /\ j + 1 \in 1..Len(line)
          BY <3>4, <4>2
        <5>. QED  BY <1>2, <3>2, <5>1 DEF PlaceLine
      <4>. QED  BY <3>2, <4>1, <4>2 DEF PlaceLine
    <3>6. h \in Measurements /\ h # c /\ measuring[h].at = "place" /\ h \in ToSet(line)
      BY <1>2, <1>5, <3>2 DEF PlaceLine, ToSet
    <3>7. h \notin ToSet(Tail(line))
      BY <1>2, <3>2, <3>4 DEF PlaceLine, ToSet
    <3>8. \A d \in Measurements : d # h => (d \in ToSet(line) <=> d \in ToSet(Tail(line)))
      <4>1. ASSUME NEW d \in ToSet(line), d # h PROVE d \in ToSet(Tail(line))
        <5>1. PICK i \in 1..Len(line) : line[i] = d
          BY <3>2, <4>1 DEF ToSet
        <5>2. i - 1 \in 1..Len(line) - 1 /\ line[(i - 1) + 1] = d
          BY <3>2, <3>3, <4>1, <5>1
        <5>3. Tail(line)[i - 1] = d
          BY <3>2, <5>2
        <5>. QED  BY <3>2, <5>2, <5>3 DEF ToSet
      <4>2. ASSUME NEW d \in ToSet(Tail(line)) PROVE d \in ToSet(line)
        BY <3>2, <3>4, <4>2 DEF ToSet
      <4>. QED  BY <4>1, <4>2
    <3>9. ~Takes(h) /\ Takes(h)'
      BY <1>4, <3>1, <3>6, <3>7 DEF Takes
    <3>10. \A d \in Measurements : d # c /\ d # h => (Takes(d)' <=> Takes(d))
      BY <1>4, <3>1, <3>8 DEF Takes
    <3>11. /\ h \notin W \ {c} /\ WNow = (W \ {c}) \cup {h}
           /\ c \notin W \ {c} /\ W = (W \ {c}) \cup {c}
      <4>1. \A d \in Measurements : (d \in W <=> Takes(d)) /\ (d \in WNow <=> Takes(d)')
        OBVIOUS
      <4>2. W \subseteq Measurements /\ WNow \subseteq Measurements
        OBVIOUS
      <4>. HIDE DEF W, WNow
      <4>3. \A d \in WNow : d = h \/ d \in W \ {c}
        BY <2>2, <3>10, <4>1, <4>2
      <4>4. \A d \in W \ {c} : d \in WNow
        BY <3>9, <3>10, <4>1, <4>2
      <4>5. h \in WNow /\ h \notin W /\ c \in W
        BY <2>1, <3>6, <3>9, <4>1
      <4>. QED  BY <4>3, <4>4, <4>5
    <3>12. Cardinality(WNow) = Cardinality(W)
      <4>1. W \ {c} \in SUBSET Measurements
        OBVIOUS
      <4>. HIDE DEF W, WNow
      <4>2. Cardinality((W \ {c}) \cup {h}) = Cardinality(W \ {c}) + 1
        BY <3>6, <3>11, <4>1, OneMore
      <4>3. Cardinality((W \ {c}) \cup {c}) = Cardinality(W \ {c}) + 1
        BY <3>11, <4>1, OneMore
      <4>. QED  BY <3>11, <4>2, <4>3
    <3>. QED  BY <1>2, <3>1, <3>5, <3>12
  <2>. QED  BY <2>3, <2>4
<1>. QED  BY <1>8, <1>9, <1>10, <1>11 DEF PlaceMoves
LEMMA CallsStep ==
  ASSUME CallsInv, NEW c \in Measurements, LineMoves(c), PlaceMoves(c)
  PROVE  CallsInv'
<1>. USE DEF CallsInv
<1>1. LineInv' /\ projectLine' \in [Floored -> Seq(Measurements)]
  BY LineStep
<1>2. PlacesInv' /\ places' \in [taken : Int, line : Seq(Measurements)]
  BY PlaceStep
<1>3. Only(c)
  BY DEF PlaceMoves, KeepsPlace, TakesPlace, WaitsForPlace, LeavesPlace
<1>4. measuring'[c].at \in {"lock", "place", "probe"} => measuring'[c].project \in Floored
  <2>1. CASE \E p \in Floored : JoinsLine(c, p)
    BY <2>1 DEF JoinsLine
  <2>2. CASE GoesOn(c)
    <3>1. measuring'[c].at \in {"place", "probe"} => IsInside(c)'
      BY DEF IsInside
    <3>. QED  BY <2>2, <3>1 DEF GoesOn, After, CallTypes
  <2>3. CASE LeavesLine(c)
    BY <2>3 DEF LeavesLine, After
  <2>. QED  BY <2>1, <2>2, <2>3 DEF LineMoves
<1>5. CallTypes'
  BY <1>1, <1>2, <1>3, <1>4 DEF CallTypes, Only
<1>. QED  BY <1>1, <1>2, <1>5

LEMMA CallsStay ==
  ASSUME CallsInv, UNCHANGED <<measuring, projectLine, places>>
  PROVE  CallsInv'
<1>1. CallTypes'
  BY DEF CallsInv, CallTypes
<1>2. LineInv'
  BY DEF CallsInv, LineInv, IsInside, HasLock
<1>3. PlacesInv'
  <2>1. {c \in Measurements : Takes(c)}' = {c \in Measurements : Takes(c)}
    BY DEF Takes
  <2>. QED  BY <2>1 DEF CallsInv, PlacesInv
<1>. QED  BY <1>1, <1>2, <1>3 DEF CallsInv

\* A call whose place is not "place" is in no line for one.
LEMMA NotWaiting ==
  ASSUME CallsInv, NEW c \in Measurements, measuring[c].at # "place"
  PROVE  c \notin ToSet(places.line)
BY DEF CallsInv, CallTypes, PlacesInv, ToSet

-----------------------------------------------------------------------------
LEMMA AskAfterRebuildCalls ==
  ASSUME CallsInv, NEW c \in Measurements, NEW p \in Floored, AskAfterRebuild(c, p)
  PROVE  CallsInv' /\ Only(c) /\ measuring[c].at # "done" /\ measuring[c].at \in {"new", "lock"}
         /\ measuring'[c].at # "probe" /\ measuring'[c].over = measuring[c].over /\ measuring'[c].left = measuring[c].left
<1>1. /\ measuring[c].at = "new" /\ places' = places
      /\ measuring' = [measuring EXCEPT ![c] = [@ EXCEPT !.at = "lock", !.project = p, !.trigger = "model_change"]]
      /\ projectLine' = [projectLine EXCEPT ![p] = Append(@, c)]
  BY DEF AskAfterRebuild, NewCall, Queues
<1>2. measuring \in [Measurements -> Call] /\ measuring[c] \in Call
  BY DEF CallsInv, CallTypes
<1>3. /\ measuring'[c] \in Call /\ measuring'[c].at = "lock" /\ measuring'[c].project = p
      /\ measuring'[c].trigger = "model_change"
      /\ measuring'[c].over = measuring[c].over /\ measuring'[c].left = measuring[c].left
  BY <1>1, <1>2 DEF Call
<1>4. Only(c)
  BY <1>1, <1>2, <1>3 DEF Only
<1>5. JoinsLine(c, p)
  BY <1>1, <1>3, <1>4 DEF JoinsLine, After
<1>6. c \notin ToSet(places.line)
  BY <1>1, NotWaiting
<1>7. ~Takes(c) /\ ~Takes(c)'
  BY <1>1, <1>3 DEF Takes
<1>8. KeepsPlace(c)
  BY <1>1, <1>4, <1>6, <1>7 DEF KeepsPlace
<1>. QED  BY <1>1, <1>3, <1>4, <1>5, <1>8, CallsStep DEF LineMoves, PlaceMoves

LEMMA AcquirePlaceCalls ==
  ASSUME CallsInv, NEW c \in Measurements, AcquirePlace(c)
  PROVE  CallsInv' /\ Only(c) /\ measuring[c].at # "done" /\ measuring[c].at \in {"new", "lock"}
         /\ measuring'[c].at # "probe" /\ measuring'[c].over = measuring[c].over /\ measuring'[c].left = measuring[c].left
<1>1. /\ measuring[c].at = "lock" /\ measuring[c].trigger = "model_change" /\ HasLock(c)
      /\ measuring' = [measuring EXCEPT ![c].at = "place"] /\ projectLine' = projectLine
      /\ places' = IF PlaceFree THEN PlaceTaken ELSE [places EXCEPT !.line = Append(@, c)]
  BY DEF AcquirePlace
<1>2. measuring \in [Measurements -> Call] /\ measuring[c] \in Call
  BY DEF CallsInv, CallTypes
<1>3. /\ measuring'[c] \in Call /\ measuring'[c].at = "place" /\ measuring'[c].project = measuring[c].project
      /\ measuring'[c].over = measuring[c].over /\ measuring'[c].left = measuring[c].left
  BY <1>1, <1>2 DEF Call
<1>4. Only(c)
  BY <1>1, <1>2, <1>3 DEF Only
<1>5. projectLine[measuring[c].project] # <<>>
  BY <1>1 DEF CallsInv, LineInv, Occurs
<1>6. GoesOn(c)
  BY <1>1, <1>3, <1>4, <1>5 DEF GoesOn, After
<1>7. c \notin ToSet(places.line)
  BY <1>1, NotWaiting
<1>8. ~Takes(c)
  BY <1>1 DEF Takes
<1>9. CASE PlaceFree
  <2>1. places' = PlaceTaken /\ places'.line = places.line
    BY <1>1, <1>9 DEF PlaceTaken, CallsInv, CallTypes
  <2>2. Takes(c)'
    BY <1>3, <1>7, <2>1 DEF Takes
  <2>3. TakesPlace(c)
    BY <1>4, <1>7, <1>8, <1>9, <2>1, <2>2 DEF TakesPlace
  <2>. QED  BY <1>1, <1>3, <1>4, <1>6, <2>3, CallsStep DEF LineMoves, PlaceMoves
<1>10. CASE ~PlaceFree
  <2>1. WaitsForPlace(c)
    BY <1>1, <1>3, <1>4, <1>7, <1>8, <1>10 DEF WaitsForPlace, After
  <2>. QED  BY <1>1, <1>3, <1>4, <1>6, <2>1, CallsStep DEF LineMoves, PlaceMoves
<1>. QED  BY <1>9, <1>10

LEMMA AskByHandCalls ==
  ASSUME CallsInv, NEW c \in Measurements, NEW p \in Floored, AskByHand(c, p)
  PROVE  CallsInv' /\ Only(c) /\ measuring[c].at # "done" /\ measuring[c].at \in {"new", "lock"}
         /\ measuring'[c].at # "probe" /\ measuring'[c].over = measuring[c].over /\ measuring'[c].left = measuring[c].left
<1>1. measuring[c].at = "new"
  BY DEF AskByHand, NewCall
<1>2. measuring \in [Measurements -> Call] /\ measuring[c] \in Call
  BY DEF CallsInv, CallTypes
<1>3. c \notin ToSet(places.line) /\ ~Takes(c)
  BY <1>1, NotWaiting DEF Takes
<1>4. CASE LetIn(p)
  <2>1. /\ measuring' = [measuring EXCEPT ![c] = [@ EXCEPT !.at = "lock", !.project = p, !.trigger = "operator"]]
        /\ places' = PlaceTaken /\ projectLine' = [projectLine EXCEPT ![p] = Append(@, c)]
        /\ projectLine[p] = <<>> /\ PlaceFree
    BY <1>4 DEF AskByHand, LetIn, Queues
  <2>2. /\ measuring'[c] \in Call /\ measuring'[c].at = "lock" /\ measuring'[c].project = p
        /\ measuring'[c].trigger = "operator"
        /\ measuring'[c].over = measuring[c].over /\ measuring'[c].left = measuring[c].left
    BY <1>2, <2>1 DEF Call
  <2>3. Only(c)
    BY <1>2, <2>1, <2>2 DEF Only
  <2>4. JoinsLine(c, p)
    BY <2>1, <2>2, <2>3 DEF JoinsLine, After
  <2>5. TakesPlace(c)
    BY <1>3, <2>1, <2>2, <2>3 DEF TakesPlace, Takes
  <2>. QED  BY <1>1, <2>2, <2>3, <2>4, <2>5, CallsStep DEF LineMoves, PlaceMoves
<1>5. CASE ~LetIn(p)
  <2>1. measuring' = [measuring EXCEPT ![c].at = "busy"] /\ places' = places /\ projectLine' = projectLine
    BY <1>5 DEF AskByHand
  <2>2. /\ measuring'[c] \in Call /\ measuring'[c].at = "busy" /\ measuring'[c].project = measuring[c].project
        /\ measuring'[c].over = measuring[c].over /\ measuring'[c].left = measuring[c].left
    BY <1>2, <2>1 DEF Call
  <2>3. Only(c)
    BY <1>2, <2>1, <2>2 DEF Only
  <2>4. GoesOn(c)
    BY <2>1, <2>2, <2>3 DEF GoesOn, After, IsInside
  <2>5. KeepsPlace(c)
    BY <1>3, <2>1, <2>2, <2>3 DEF KeepsPlace, Takes
  <2>. QED  BY <1>1, <2>2, <2>3, <2>4, <2>5, CallsStep DEF LineMoves, PlaceMoves
<1>. QED  BY <1>4, <1>5

\* A measurement that ends, wherever it has come to.
LEMMA LeavesCalls ==
  ASSUME CallsInv, NEW c \in Measurements, Leaves(c), IsInside(c), c \notin ToSet(places.line)
  PROVE  CallsInv' /\ Only(c) /\ measuring'[c] = [measuring[c] EXCEPT !.at = "done"]
<1>1. /\ measuring' = [measuring EXCEPT ![c].at = "done"] /\ places' = PlaceLeft
      /\ projectLine' = [projectLine EXCEPT ![measuring[c].project] = Tail(@)]
  BY DEF Leaves
<1>2. measuring \in [Measurements -> Call] /\ measuring[c] \in Call
  BY DEF CallsInv, CallTypes
<1>3. measuring'[c] \in Call /\ measuring'[c].at = "done" /\ measuring'[c] = [measuring[c] EXCEPT !.at = "done"]
  BY <1>1, <1>2 DEF Call
<1>4. Only(c)
  BY <1>1, <1>2, <1>3 DEF Only
<1>5. measuring[c].project \in Floored
  BY DEF CallsInv, CallTypes, IsInside
<1>6. projectLine[measuring[c].project] # <<>> /\ HasLock(c)
  BY DEF CallsInv, LineInv
<1>7. LeavesLine(c)
  BY <1>1, <1>3, <1>4, <1>5, <1>6 DEF LeavesLine, After
<1>8. Takes(c)
  BY DEF Takes, IsInside
<1>9. LeavesPlace(c)
  BY <1>1, <1>3, <1>4, <1>8 DEF LeavesPlace, After
<1>. QED  BY <1>3, <1>4, <1>7, <1>9, CallsStep DEF LineMoves, PlaceMoves

LEMMA EnteredIsInside ==
  ASSUME CallsInv, NEW c \in Measurements, Entered(c)
  PROVE  IsInside(c) /\ c \notin ToSet(places.line) /\ measuring[c].at # "probe"
BY NotWaiting DEF Entered, IsInside

\* One that goes on measuring.
LEMMA MeasuresCalls ==
  ASSUME CallsInv, NEW c \in Measurements, IsInside(c), c \notin ToSet(places.line), Only(c),
         measuring'[c].at = "probe", measuring'[c].project = measuring[c].project,
         places' = places, projectLine' = projectLine
  PROVE  CallsInv'
<1>1. Takes(c) /\ Takes(c)'
  BY DEF Takes, IsInside
<1>2. KeepsPlace(c)
  BY <1>1 DEF KeepsPlace
<1>3. measuring[c].at \in {"lock", "place", "probe"}
  BY DEF IsInside
<1>4. projectLine[measuring[c].project] # <<>> /\ HasLock(c)
  BY DEF CallsInv, LineInv
<1>5. GoesOn(c)
  BY <1>3, <1>4 DEF GoesOn, After
<1>. QED  BY <1>2, <1>5, CallsStep DEF LineMoves, PlaceMoves

\* DrawProbes, Probe and StoreSuggestion: what the call becomes.
LEMMA DrawProbesCalls ==
  ASSUME CallsInv, served \in [Floored -> Nat], NEW c \in Measurements, DrawProbes(c)
  PROVE  /\ CallsInv' /\ Only(c) /\ measuring[c].at \in {"lock", "place"}
         /\ \/ /\ Serves(measuring[c].project)
               /\ measuring'[c] = [measuring[c] EXCEPT !.at = "probe", !.generation = served[measuring[c].project]]
            \/ measuring'[c] = [measuring[c] EXCEPT !.at = "done"]
<1>1. IsInside(c) /\ c \notin ToSet(places.line) /\ measuring[c].at \in {"lock", "place"}
  BY EnteredIsInside DEF DrawProbes, Entered
<1>2. measuring \in [Measurements -> Call] /\ measuring[c] \in Call /\ measuring[c].project \in Floored
  BY <1>1 DEF CallsInv, CallTypes
<1>3. CASE Leaves(c)
  BY <1>1, <1>3, LeavesCalls
<1>4. CASE ~Leaves(c)
  <2>1. /\ measuring' = [measuring EXCEPT ![c] = [@ EXCEPT !.at = "probe", !.generation = served[measuring[c].project]]]
        /\ places' = places /\ projectLine' = projectLine /\ Serves(measuring[c].project)
    BY <1>4 DEF DrawProbes
  <2>2. served[measuring[c].project] \in Nat
    BY <1>2
  <2>3. /\ measuring'[c] \in Call /\ measuring'[c].at = "probe" /\ measuring'[c].project = measuring[c].project
        /\ measuring'[c] = [measuring[c] EXCEPT !.at = "probe", !.generation = served[measuring[c].project]]
    BY <1>2, <2>1, <2>2 DEF Call
  <2>4. Only(c)
    BY <1>2, <2>1, <2>3 DEF Only
  <2>. QED  BY <1>1, <2>1, <2>3, <2>4, MeasuresCalls
<1>. QED  BY <1>3, <1>4

LEMMA ProbeCalls ==
  ASSUME CallsInv, served \in [Floored -> Nat], NEW c \in Measurements, Probe(c)
  PROVE  /\ CallsInv' /\ Only(c) /\ measuring[c].at = "probe"
         /\ \/ /\ Serves(measuring[c].project)
               /\ measuring'[c] = [measuring[c] EXCEPT !.over = @ \cup {served[measuring[c].project]}, !.left = @ - 1]
            \/ measuring'[c] = [measuring[c] EXCEPT !.at = "done"]
<1>1. IsInside(c) /\ c \notin ToSet(places.line) /\ measuring[c].at = "probe" /\ measuring[c].left > 0
  BY NotWaiting DEF Probe, IsInside
<1>2. measuring \in [Measurements -> Call] /\ measuring[c] \in Call /\ measuring[c].project \in Floored
  BY <1>1 DEF CallsInv, CallTypes
<1>3. CASE Leaves(c)
  BY <1>1, <1>3, LeavesCalls
<1>4. CASE ~Leaves(c)
  <2>1. /\ measuring' = [measuring EXCEPT ![c].over = @ \cup {served[measuring[c].project]}, ![c].left = @ - 1]
        /\ places' = places /\ projectLine' = projectLine /\ Serves(measuring[c].project)
    BY <1>4 DEF Probe
  <2>2. served[measuring[c].project] \in Nat
    BY <1>2
  <2>3. measuring[c].left \in Nat /\ measuring[c].left - 1 \in Nat /\ measuring[c].over \cup {served[measuring[c].project]} \in SUBSET Nat
    <3>1. measuring[c].left \in Nat /\ measuring[c].over \in SUBSET Nat
      BY <1>2 DEF Call
    <3>. QED  BY <1>1, <2>2, <3>1
  <2>4. /\ measuring'[c] \in Call /\ measuring'[c].at = "probe" /\ measuring'[c].project = measuring[c].project
        /\ measuring'[c] = [measuring[c] EXCEPT !.over = @ \cup {served[measuring[c].project]}, !.left = @ - 1]
    <3>1. measuring'[c] = [measuring[c] EXCEPT !.over = @ \cup {served[measuring[c].project]}, !.left = @ - 1]
      BY <1>2, <2>1
    <3>2. ASSUME NEW over \in SUBSET Nat, NEW left \in Nat
          PROVE  LET m == [measuring[c] EXCEPT !.over = over, !.left = left]
                 IN m \in Call /\ m.at = measuring[c].at /\ m.project = measuring[c].project
      BY <1>2 DEF Call
    <3>. QED  BY <1>1, <2>3, <3>1, <3>2
  <2>5. Only(c)
    BY <1>2, <2>1, <2>4 DEF Only
  <2>. QED  BY <1>1, <2>1, <2>4, <2>5, MeasuresCalls
<1>. QED  BY <1>3, <1>4

LEMMA StoreSuggestionCalls ==
  ASSUME CallsInv, NEW c \in Measurements, StoreSuggestion(c)
  PROVE  CallsInv' /\ Only(c) /\ measuring'[c] = [measuring[c] EXCEPT !.at = "done"]
<1>1. measuring[c].at = "probe" /\ Leaves(c)
  BY DEF StoreSuggestion
<1>. QED  BY <1>1, LeavesCalls, NotWaiting DEF IsInside
-----------------------------------------------------------------------------
\* A call moves, and the project and its suggestions stay.
LEMMA MeasuringGoesOn ==
  ASSUME FloorInv, CallsInv', NEW c \in Measurements, Only(c), measuring[c].at # "done", ProbeInv(c)',
         rebuilt' \subseteq Floored, UNCHANGED <<served, floor, suggestions, manager, rowLock, trail>>
  PROVE  FloorInv'
<1>1. \A d \in Measurements : measuring[d].at = "done" => measuring'[d] = measuring[d]
  BY DEF Only
<1>2. Created \in Nat /\ Created' \in Nat /\ Created <= Created'
  BY <1>1, CreatedGrows, CreatedIsBounded
<1>3. FloorTypes'
  BY DEF FloorInv, FloorTypes
<1>4. SuggestionsInv'
  <2>1. ASSUME NEW p \in Floored, NEW s \in suggestions[p] PROVE SuggestionInv(p, s)'
    <3>1. SuggestionInv(p, s)
      BY DEF FloorInv, SuggestionsInv
    <3>2. s.id \in 1..Created'
      BY <1>2, <3>1 DEF SuggestionInv
    <3>. QED  BY <3>1, <3>2 DEF SuggestionInv
  <2>. QED  BY <2>1 DEF FloorInv, SuggestionsInv
<1>5. ProbesInv'
  <2>1. ASSUME NEW d \in Measurements, d # c PROVE ProbeInv(d)'
    BY <2>1 DEF Only, FloorInv, ProbesInv, ProbeInv, Serves
  <2>. QED  BY <2>1 DEF ProbesInv
<1>6. RequestsInv' /\ TrailIsTrue'
  BY DEF FloorInv, RequestsInv, RequestInv, Holds, TrailIsTrue
<1>. QED  BY <1>3, <1>4, <1>5, <1>6 DEF FloorInv

LEMMA CallActions ==
  ASSUME FloorInv, NEW c \in Measurements,
         \/ \E p \in Floored : AskAfterRebuild(c, p) \/ AskByHand(c, p)
         \/ AcquirePlace(c) \/ DrawProbes(c) \/ Probe(c)
  PROVE  FloorInv'
<1>. USE DEF FloorInv
<1>1. ASSUME NEW p \in Floored, AskAfterRebuild(c, p) PROVE FloorInv'
  <2>1. CallsInv' /\ Only(c) /\ measuring[c].at # "done" /\ ProbeInv(c)'
    BY <1>1, AskAfterRebuildCalls DEF ProbesInv, ProbeInv
  <2>2. rebuilt' \subseteq Floored /\ UNCHANGED <<served, floor, suggestions, manager, rowLock, trail>>
    BY <1>1 DEF AskAfterRebuild, FloorTypes
  <2>. QED  BY <2>1, <2>2, MeasuringGoesOn
<1>2. ASSUME NEW p \in Floored, AskByHand(c, p) PROVE FloorInv'
  <2>1. CallsInv' /\ Only(c) /\ measuring[c].at # "done" /\ ProbeInv(c)'
    BY <1>2, AskByHandCalls DEF ProbesInv, ProbeInv
  <2>2. rebuilt' \subseteq Floored /\ UNCHANGED <<served, floor, suggestions, manager, rowLock, trail>>
    BY <1>2 DEF AskByHand, FloorTypes
  <2>. QED  BY <2>1, <2>2, MeasuringGoesOn
<1>3. ASSUME AcquirePlace(c) PROVE FloorInv'
  <2>1. CallsInv' /\ Only(c) /\ measuring[c].at # "done" /\ ProbeInv(c)'
    BY <1>3, AcquirePlaceCalls DEF ProbesInv, ProbeInv
  <2>2. rebuilt' \subseteq Floored /\ UNCHANGED <<served, floor, suggestions, manager, rowLock, trail>>
    BY <1>3 DEF AcquirePlace, FloorTypes
  <2>. QED  BY <2>1, <2>2, MeasuringGoesOn
<1>4. ASSUME DrawProbes(c) PROVE FloorInv'
  <2>1. rebuilt' \subseteq Floored /\ UNCHANGED <<served, floor, suggestions, manager, rowLock, trail>>
    BY <1>4 DEF DrawProbes, FloorTypes
  <2>2. /\ CallsInv' /\ Only(c) /\ measuring[c].at \in {"lock", "place"}
        /\ \/ /\ Serves(measuring[c].project)
              /\ measuring'[c] = [measuring[c] EXCEPT !.at = "probe", !.generation = served[measuring[c].project]]
           \/ measuring'[c] = [measuring[c] EXCEPT !.at = "done"]
    BY <1>4, DrawProbesCalls DEF FloorTypes
  <2>3. ProbeInv(c) /\ measuring[c] \in Call
    BY DEF ProbesInv, CallsInv, CallTypes
  <2>4. CASE measuring'[c] = [measuring[c] EXCEPT !.at = "done"]
    <3>1. measuring'[c].at = "done"
      BY <2>3, <2>4 DEF Call
    <3>. QED  BY <2>1, <2>2, <3>1, MeasuringGoesOn DEF ProbeInv
  <2>5. CASE /\ Serves(measuring[c].project)
             /\ measuring'[c] = [measuring[c] EXCEPT !.at = "probe", !.generation = served[measuring[c].project]]
    <3>1. /\ measuring'[c].at = "probe" /\ measuring'[c].generation = served[measuring[c].project]
          /\ measuring'[c].over = {} /\ measuring'[c].left = Probes /\ measuring'[c].project = measuring[c].project
      BY <2>2, <2>3, <2>5 DEF Call, ProbeInv
    <3>2. measuring[c].project \in Floored /\ served[measuring[c].project] \in Nat
      BY <2>2 DEF CallsInv, CallTypes, FloorTypes
    <3>3. ProbeInv(c)'
      BY <2>1, <3>1, <3>2, FloorAssumption DEF ProbeInv
    <3>. QED  BY <2>1, <2>2, <3>3, MeasuringGoesOn
  <2>. QED  BY <2>2, <2>4, <2>5
<1>5. ASSUME Probe(c) PROVE FloorInv'
  <2>1. rebuilt' \subseteq Floored /\ UNCHANGED <<served, floor, suggestions, manager, rowLock, trail>>
    BY <1>5 DEF Probe, FloorTypes
  <2>2. /\ CallsInv' /\ Only(c) /\ measuring[c].at = "probe"
        /\ \/ /\ Serves(measuring[c].project)
              /\ measuring'[c] = [measuring[c] EXCEPT !.over = @ \cup {served[measuring[c].project]}, !.left = @ - 1]
           \/ measuring'[c] = [measuring[c] EXCEPT !.at = "done"]
    BY <1>5, ProbeCalls DEF FloorTypes
  <2>3. ProbeInv(c) /\ measuring[c] \in Call
    BY DEF ProbesInv, CallsInv, CallTypes
  <2>4. CASE measuring'[c] = [measuring[c] EXCEPT !.at = "done"]
    <3>1. measuring'[c].at = "done"
      BY <2>3, <2>4 DEF Call
    <3>. QED  BY <2>1, <2>2, <3>1, MeasuringGoesOn DEF ProbeInv
  <2>5. CASE /\ Serves(measuring[c].project)
             /\ measuring'[c] = [measuring[c] EXCEPT !.over = @ \cup {served[measuring[c].project]}, !.left = @ - 1]
    <3>1. /\ measuring'[c].at = "probe" /\ measuring'[c].generation = measuring[c].generation
          /\ measuring'[c].over = measuring[c].over \cup {served[measuring[c].project]}
          /\ measuring'[c].project = measuring[c].project
      BY <2>2, <2>3, <2>5 DEF Call
    <3>2. measuring[c].project \in Floored /\ served[measuring[c].project] \in Nat
      BY <2>2 DEF CallsInv, CallTypes, FloorTypes
    <3>3. ProbeInv(c)'
      BY <2>1, <2>2, <2>3, <2>5, <3>1, <3>2 DEF ProbeInv
    <3>. QED  BY <2>1, <2>2, <3>3, MeasuringGoesOn
  <2>. QED  BY <2>2, <2>4, <2>5
<1>. QED  BY <1>1, <1>2, <1>3, <1>4, <1>5
-----------------------------------------------------------------------------
LEMMA SwapIndexStep ==
  ASSUME FloorInv, NEW p \in Floored, SwapIndex(p)
  PROVE  FloorInv'
<1>. USE DEF FloorInv
<1>1. /\ rowLock[p] = 0 /\ served' = [served EXCEPT ![p] = @ + 1] /\ rebuilt' \in {rebuilt, rebuilt \cup {p}}
      /\ UNCHANGED <<floor, suggestions, measuring, projectLine, places, manager, rowLock, trail>>
  BY DEF SwapIndex, RowIsFree
<1>2. \A q \in Floored : served[q] \in Nat /\ served'[q] \in Nat /\ served[q] <= served'[q] /\ (q # p => served'[q] = served[q])
  BY <1>1 DEF FloorTypes
<1>3. CallsInv'
  BY <1>1, CallsStay
<1>4. FloorTypes'
  BY <1>1, <1>2 DEF FloorTypes
<1>5. SuggestionsInv'
  <2>1. ASSUME NEW q \in Floored, NEW s \in suggestions[q] PROVE SuggestionInv(q, s)'
    <3>1. SuggestionInv(q, s) /\ s.over \in SUBSET Nat
      BY DEF SuggestionsInv, FloorTypes, Suggestion
    <3>2. Created' = Created
      BY <1>1 DEF Created
    <3>. QED  BY <1>2, <3>1, <3>2 DEF SuggestionInv
  <2>. QED  BY <1>1, <2>1 DEF SuggestionsInv
<1>6. ProbesInv'
  <2>1. ASSUME NEW c \in Measurements PROVE ProbeInv(c)'
    <3>1. ProbeInv(c) /\ (measuring[c].at = "probe" => measuring[c].project \in Floored)
      BY DEF ProbesInv, CallsInv, CallTypes
    <3>2. measuring[c].generation \in Nat /\ measuring[c].over \in SUBSET Nat
      BY DEF CallsInv, CallTypes, Call
    <3>3. CASE measuring[c].at = "probe"
      <4>. DEFINE q == measuring[c].project
      <4>1. q \in Floored /\ served[q] \in Nat /\ served'[q] \in Nat /\ served[q] <= served'[q] /\ (Serves(q)' => Serves(q))
        BY <1>1, <1>2, <3>1, <3>3 DEF Serves, SwapIndex
      <4>. QED  BY <1>1, <3>1, <3>2, <3>3, <4>1 DEF ProbeInv, Serves
    <3>. QED  BY <1>1, <3>1, <3>3 DEF ProbeInv
  <2>. QED  BY <2>1 DEF ProbesInv
<1>7. RequestsInv'
  <2>1. ASSUME NEW r \in Managers PROVE RequestInv(r)'
    <3>1. RequestInv(r) /\ r # 0
      BY DEF RequestsInv, Managers
    <3>. QED  BY <1>1, <1>2, <3>1 DEF RequestInv, Holds
  <2>. QED  BY <2>1 DEF RequestsInv
<1>. QED  BY <1>1, <1>3, <1>4, <1>5, <1>6, <1>7 DEF TrailIsTrue

LEMMA RemoveProjectStep ==
  ASSUME FloorInv, NEW p \in Floored, RemoveProject(p)
  PROVE  FloorInv'
<1>. USE DEF FloorInv
<1>1. /\ rowLock[p] = 0 /\ served' = [served EXCEPT ![p] = 0] /\ suggestions' = [suggestions EXCEPT ![p] = {}]
      /\ manager' = [r \in Managers |-> IF manager[r].project = p /\ manager[r].at = "holds"
                                        THEN [manager[r] EXCEPT !.at = "refused"] ELSE manager[r]]
      /\ UNCHANGED <<floor, rebuilt, measuring, projectLine, places, rowLock, trail>>
  BY DEF RemoveProject, RowIsFree
<1>2. \A q \in Floored : q # p => served'[q] = served[q] /\ suggestions'[q] = suggestions[q]
  BY <1>1 DEF FloorTypes
<1>3. served'[p] = 0 /\ suggestions'[p] = {}
  BY <1>1 DEF FloorTypes
<1>4. CallsInv'
  BY <1>1, CallsStay
<1>5. \A r \in Managers : \/ manager'[r] = manager[r] /\ ~(manager[r].project = p /\ manager[r].at = "holds")
                          \/ manager'[r] \in Adoption /\ manager'[r].at = "refused"
  BY <1>1 DEF FloorTypes, Adoption
<1>6. FloorTypes'
  <2>1. manager' \in [Managers -> Adoption]
    BY <1>1, <1>5 DEF FloorTypes
  <2>. QED  BY <1>1, <2>1 DEF FloorTypes
<1>7. SuggestionsInv'
  <2>1. Created' = Created
    BY <1>1 DEF Created
  <2>. QED  BY <1>2, <1>3, <2>1 DEF SuggestionsInv, SuggestionInv
<1>8. ProbesInv'
  <2>1. ASSUME NEW c \in Measurements PROVE ProbeInv(c)'
    <3>1. ProbeInv(c) /\ (measuring[c].at = "probe" => measuring[c].project \in Floored)
      BY DEF ProbesInv, CallsInv, CallTypes
    <3>2. CASE measuring[c].at = "probe" /\ measuring[c].project # p
      BY <1>1, <1>2, <3>1, <3>2 DEF ProbeInv, Serves
    <3>3. CASE measuring[c].at = "probe" /\ measuring[c].project = p
      BY <1>1, <1>3, <3>1, <3>3 DEF ProbeInv, Serves
    <3>. QED  BY <1>1, <3>1, <3>2, <3>3 DEF ProbeInv
  <2>. QED  BY <2>1 DEF ProbesInv
<1>9. RequestsInv'
  <2>1. ASSUME NEW r \in Managers PROVE RequestInv(r)'
    <3>1. RequestInv(r) /\ r # 0
      BY DEF RequestsInv, Managers
    <3>2. CASE manager'[r].at = "refused"
      BY <3>2 DEF RequestInv, Holds
    <3>3. CASE manager'[r] = manager[r] /\ ~(manager[r].project = p /\ manager[r].at = "holds")
      <4>1. CASE ~Holds(r)
        BY <3>3, <4>1 DEF RequestInv, Holds
      <4>2. CASE Holds(r)
        <5>1. manager[r].project \in Floored /\ manager[r].project # p
          BY <1>1, <3>1, <3>3, <4>2 DEF RequestInv, Holds
        <5>. QED  BY <1>1, <1>2, <3>1, <3>3, <5>1 DEF RequestInv, Holds
      <4>. QED  BY <4>1, <4>2
    <3>. QED  BY <1>5, <3>2, <3>3
  <2>. QED  BY <2>1 DEF RequestsInv
<1>. QED  BY <1>1, <1>4, <1>6, <1>7, <1>8, <1>9 DEF TrailIsTrue

LEMMA StoreSuggestionStep ==
  ASSUME FloorInv, NEW c \in Measurements, StoreSuggestion(c)
  PROVE  FloorInv'
<1>. USE DEF FloorInv
<1>0. PICK p, new : /\ p = measuring[c].project
                    /\ new = [id |-> Created + 1, generation |-> measuring[c].generation, over |-> measuring[c].over, applied |-> 0]
  OBVIOUS
<1>. DEFINE all == suggestions[p] \cup {new}
<1>1. /\ measuring[c].at = "probe" /\ measuring[c].left = 0
      /\ \/ /\ Serves(p) /\ {s.id : s \in all \ Newest(all)} \cap HeldRows(p) = {}
            /\ suggestions' = [suggestions EXCEPT ![p] = Newest(all)]
         \/ UNCHANGED suggestions
      /\ UNCHANGED <<served, floor, rebuilt, manager, rowLock, trail>>
  BY <1>0 DEF StoreSuggestion, NamedGeneration
<1>2. /\ CallsInv' /\ Only(c) /\ measuring'[c] = [measuring[c] EXCEPT !.at = "done"]
      /\ measuring[c] \in Call /\ p \in Floored
  BY <1>0, <1>1, StoreSuggestionCalls DEF CallsInv, CallTypes
<1>3. measuring'[c].at = "done" /\ measuring'[c].left = 0
  BY <1>1, <1>2 DEF Call
<1>4. ProbeInv(c)' /\ rebuilt' \subseteq Floored
  BY <1>1, <1>3 DEF ProbeInv, FloorTypes
<1>5. CASE UNCHANGED suggestions
  BY <1>1, <1>2, <1>4, <1>5, MeasuringGoesOn
<1>6. CASE /\ Serves(p) /\ {s.id : s \in all \ Newest(all)} \cap HeldRows(p) = {}
           /\ suggestions' = [suggestions EXCEPT ![p] = Newest(all)]
  <2>1. Created \in 0..MaxMeasurements /\ Created' = Created + 1
    <3>. DEFINE Over == {d \in Measurements : measuring[d].at = "done" /\ measuring[d].left = 0}
    <3>1. Over' = Over \cup {c} /\ c \notin Over /\ Over \in SUBSET Measurements
      BY <1>1, <1>2, <1>3 DEF Only
    <3>2. Cardinality(Over') = Cardinality(Over) + 1
      <4>. HIDE DEF Over
      <4>. QED  BY <3>1, OneMore
    <3>. QED  BY <3>2, CreatedIsBounded DEF Created
  <2>2. Created \in Nat /\ Created + 1 \in Nat
    BY <2>1, FloorAssumption
  <2>3. /\ Newest(all) \subseteq all /\ suggestions'[p] = Newest(all)
        /\ \A q \in Floored : q # p => suggestions'[q] = suggestions[q]
    BY <1>2, <1>6 DEF Newest, FloorTypes
  <2>4. new \in Suggestion /\ new.id = Created + 1 /\ new.applied = 0
    BY <1>0, <1>2, <2>2 DEF Suggestion, Call
  <2>5. \A q \in Floored : \A s \in suggestions[q] : s \in Suggestion /\ SuggestionInv(q, s)
    BY DEF SuggestionsInv, FloorTypes
  <2>6. SuggestionInv(p, new)'
    <3>1. /\ \A g \in new.over : new.generation <= g /\ g <= served[p]
          /\ new.over # {} /\ served[p] > 0
      BY <1>0, <1>1, <1>6, FloorAssumption DEF ProbesInv, ProbeInv, Serves
    <3>2. new.id \in 1..Created'
      BY <2>1, <2>2, <2>4
    <3>. QED  BY <1>1, <2>4, <3>1, <3>2 DEF SuggestionInv
  <2>7. \A q \in Floored : \A s \in suggestions[q] : SuggestionInv(q, s)' /\ s.id # new.id /\ s.id \in Nat
    <3>1. \A q \in Floored : \A s \in suggestions[q] : s.id \in 1..Created /\ s.id \in 1..Created'
      BY <2>1, <2>2, <2>5 DEF SuggestionInv
    <3>2. \A q \in Floored : \A s \in suggestions[q] : SuggestionInv(q, s)'
      BY <1>1, <2>5, <3>1 DEF SuggestionInv
    <3>. QED  BY <2>2, <2>4, <3>1, <3>2
  <2>8. \A q \in Floored : \A s \in suggestions'[q] : s \in suggestions[q] \/ (q = p /\ s = new)
    BY <2>3
  <2>9. FloorTypes'
    <3>1. suggestions' \in [Floored -> SUBSET Suggestion]
      BY <1>2, <1>6, <2>3, <2>4, <2>5 DEF FloorTypes
    <3>. QED  BY <1>1, <3>1 DEF FloorTypes
  <2>10. SuggestionsInv'
    <3>1. ASSUME NEW q \in Floored, NEW s \in suggestions'[q] PROVE SuggestionInv(q, s)'
      BY <2>6, <2>7, <2>8
    <3>2. ASSUME NEW q \in Floored, NEW s \in suggestions'[q], NEW t \in suggestions'[q], s.id = t.id PROVE s = t
      <4>1. (s \in suggestions[q] /\ t \in suggestions[q]) \/ s = new \/ t = new
        BY <2>8
      <4>2. (s = new => t = new) /\ (t = new => s = new)
        BY <2>7, <2>8, <3>2
      <4>. QED  BY <3>2, <4>1, <4>2 DEF SuggestionsInv
    <3>. QED  BY <3>1, <3>2 DEF SuggestionsInv
  <2>11. ProbesInv'
    <3>1. ASSUME NEW d \in Measurements, d # c PROVE ProbeInv(d)'
      BY <1>1, <1>2, <3>1 DEF Only, ProbesInv, ProbeInv, Serves
    <3>. QED  BY <1>4, <3>1 DEF ProbesInv
  <2>12. RequestsInv'
    <3>1. ASSUME NEW r \in Managers PROVE RequestInv(r)'
      <4>. DEFINE q == manager[r].project
                  n == manager[r].suggestion
      <4>1. RequestInv(r) /\ manager' = manager /\ rowLock' = rowLock /\ floor' = floor /\ served' = served
        BY <1>1 DEF RequestsInv
      <4>2. CASE ~Holds(r)
        BY <4>1, <4>2 DEF RequestInv, Holds
      <4>3. CASE Holds(r) /\ q # p
        BY <2>3, <4>1, <4>3 DEF RequestInv, Holds
      <4>4. CASE Holds(r) /\ q = p
        <5>1. n \in HeldRows(p)
          BY <4>4 DEF HeldRows, Holds
        <5>2. n # 0 => \E s \in suggestions'[p] : s.id = n
          <6>1. ASSUME n # 0 PROVE \E s \in suggestions'[p] : s.id = n
            <7>1. PICK s \in suggestions[p] : s.id = n
              BY <4>1, <4>4, <6>1 DEF RequestInv
            <7>2. s \in Newest(all)
              BY <1>6, <5>1, <7>1
            <7>. QED  BY <2>3, <7>1, <7>2
          <6>. QED  BY <6>1
        <5>3. n # new.id
          <6>1. CASE n = 0
            BY <2>2, <2>4, <6>1
          <6>2. CASE n # 0
            BY <2>7, <4>1, <4>4, <6>2, <1>2 DEF RequestInv
          <6>. QED  BY <6>1, <6>2
        <5>4. manager[r].at = "locked" => \A s \in suggestions'[p] : s.id = n => s.generation = served[p]
          BY <1>2, <2>8, <4>1, <4>4, <5>3 DEF RequestInv
        <5>. QED  BY <1>2, <4>1, <4>4, <5>2, <5>4 DEF RequestInv, Holds
      <4>. QED  BY <4>2, <4>3, <4>4
    <3>. QED  BY <3>1 DEF RequestsInv
  <2>. QED  BY <1>1, <1>2, <2>9, <2>10, <2>11, <2>12 DEF TrailIsTrue
<1>. QED  BY <1>1, <1>5, <1>6
-----------------------------------------------------------------------------
\* A request moves, and takes at most a row that is free.
LEMMA RequestGoesOn ==
  ASSUME FloorInv, NEW r \in Managers, RequestInv(r)', rowLock' \in [Floored -> Nat],
         manager' \in [Managers -> Adoption], \A q \in Managers : q # r => manager'[q] = manager[q],
         \A p \in Floored : rowLock[p] \in {0, r} \/ rowLock'[p] = rowLock[p],
         UNCHANGED <<served, floor, rebuilt, suggestions, measuring, projectLine, places, trail>>
  PROVE  FloorInv'
<1>. USE DEF FloorInv
<1>1. CallsInv'
  BY CallsStay
<1>2. FloorTypes'
  BY DEF FloorTypes
<1>3. SuggestionsInv' /\ ProbesInv' /\ TrailIsTrue'
  <2>1. Created' = Created
    BY DEF Created
  <2>. QED  BY <2>1 DEF SuggestionsInv, SuggestionInv, ProbesInv, ProbeInv, Serves, TrailIsTrue
<1>4. RequestsInv'
  <2>1. ASSUME NEW q \in Managers, q # r PROVE RequestInv(q)'
    <3>1. RequestInv(q) /\ q # 0 /\ manager'[q] = manager[q]
      BY <2>1 DEF RequestsInv, Managers
    <3>2. manager[q].at = "locked" => rowLock'[manager[q].project] = q
      BY <2>1, <3>1 DEF RequestInv, Holds
    <3>. QED  BY <3>1, <3>2 DEF RequestInv, Holds
  <2>. QED  BY <2>1 DEF RequestsInv
<1>. QED  BY <1>1, <1>2, <1>3, <1>4

LEMMA LockSuggestionStep ==
  ASSUME FloorInv, NEW r \in Managers, NEW p \in Floored, LockSuggestion(r, p)
  PROVE  FloorInv'
<1>. USE DEF FloorInv
<1>1. PICK s \in suggestions[p] :
        manager' = [manager EXCEPT ![r] = [at |-> IF s.applied = 0 THEN "holds" ELSE "refused",
                                           project |-> p, suggestion |-> s.id, before |-> 0]]
  BY DEF LockSuggestion
<1>2. UNCHANGED <<served, floor, rebuilt, suggestions, measuring, projectLine, places, rowLock, trail>>
  BY DEF LockSuggestion
<1>3. s.id \in Nat /\ s.id # 0 /\ manager \in [Managers -> Adoption] /\ rowLock \in [Floored -> Nat]
  <2>. QED  BY CreatedIsBounded DEF SuggestionsInv, SuggestionInv, FloorTypes, Suggestion
<1>4. /\ manager'[r] = [at |-> IF s.applied = 0 THEN "holds" ELSE "refused", project |-> p, suggestion |-> s.id, before |-> 0]
      /\ \A q \in Managers : q # r => manager'[q] = manager[q]
  BY <1>1, <1>3
<1>5. manager'[r] \in Adoption
  BY <1>3, <1>4 DEF Adoption
<1>6. manager' \in [Managers -> Adoption]
  BY <1>1, <1>3, <1>4, <1>5
<1>7. RequestInv(r)'
  BY <1>2, <1>3, <1>4 DEF RequestInv, Holds
<1>. QED  BY <1>2, <1>3, <1>4, <1>6, <1>7, RequestGoesOn

LEMMA LockForPatchStep ==
  ASSUME FloorInv, NEW r \in Managers, NEW p \in Floored, LockForPatch(r, p)
  PROVE  FloorInv'
<1>. USE DEF FloorInv
<1>1. /\ rowLock[p] = 0 /\ rowLock' = [rowLock EXCEPT ![p] = r]
      /\ manager' = [manager EXCEPT ![r] = [at |-> "locked", project |-> p, suggestion |-> 0, before |-> floor[p]]]
      /\ UNCHANGED <<served, floor, rebuilt, suggestions, measuring, projectLine, places, trail>>
  BY DEF LockForPatch, RowIsFree
<1>2. /\ manager \in [Managers -> Adoption] /\ rowLock \in [Floored -> Nat] /\ r \in Nat
      /\ floor[p] \in Nat
  BY FloorAssumption DEF FloorTypes, Managers
<1>3. /\ manager'[r] = [at |-> "locked", project |-> p, suggestion |-> 0, before |-> floor[p]]
      /\ \A q \in Managers : q # r => manager'[q] = manager[q]
  BY <1>1, <1>2
<1>4. manager'[r] \in Adoption
  BY <1>2, <1>3 DEF Adoption
<1>5. manager' \in [Managers -> Adoption] /\ rowLock' \in [Floored -> Nat]
  BY <1>1, <1>2, <1>3, <1>4
<1>6. rowLock'[p] = r /\ \A q \in Floored : q # p => rowLock'[q] = rowLock[q]
  BY <1>1, <1>2
<1>7. \A s \in suggestions[p] : s.id # 0
  <2>1. \A s \in suggestions[p] : s.id \in 1..Created
    BY DEF SuggestionsInv, SuggestionInv
  <2>2. Created \in Nat
    BY CreatedIsBounded
  <2>. QED  BY <2>1, <2>2
<1>8. RequestInv(r)'
  BY <1>1, <1>3, <1>6, <1>7 DEF RequestInv, Holds
<1>. QED  BY <1>1, <1>3, <1>5, <1>6, <1>8, RequestGoesOn

LEMMA LockForAdoptionStep ==
  ASSUME FloorInv, NEW r \in Managers, LockForAdoption(r)
  PROVE  FloorInv'
<1>. USE DEF FloorInv
<1>0. PICK p : p = manager[r].project
  OBVIOUS
<1>1. /\ manager[r].at = "holds" /\ rowLock[p] = 0
      /\ UNCHANGED <<served, floor, rebuilt, suggestions, measuring, projectLine, places, trail>>
  BY <1>0 DEF LockForAdoption, RowIsFree
<1>2. /\ manager \in [Managers -> Adoption] /\ rowLock \in [Floored -> Nat] /\ r \in Nat /\ manager[r] \in Adoption
      /\ p \in Floored /\ floor[p] \in Nat /\ RequestInv(r)
  BY <1>0, <1>1, FloorAssumption DEF FloorTypes, Managers, RequestsInv, RequestInv, Holds
<1>3. CASE SameIndex(r)
  <2>1. /\ rowLock' = [rowLock EXCEPT ![p] = r]
        /\ manager' = [manager EXCEPT ![r] = [@ EXCEPT !.at = "locked", !.before = floor[p]]]
    BY <1>0, <1>3 DEF LockForAdoption
  <2>2. /\ manager'[r] \in Adoption /\ manager'[r].at = "locked" /\ manager'[r].project = p
        /\ manager'[r].suggestion = manager[r].suggestion /\ manager'[r].before = floor[p]
    BY <1>0, <1>2, <2>1 DEF Adoption
  <2>3. manager' \in [Managers -> Adoption] /\ \A q \in Managers : q # r => manager'[q] = manager[q]
    BY <1>2, <2>1, <2>2
  <2>4. /\ rowLock' \in [Floored -> Nat] /\ rowLock'[p] = r
        /\ \A q \in Floored : q # p => rowLock'[q] = rowLock[q]
    BY <1>2, <2>1
  <2>5. (\E s \in suggestions[p] : s.id = manager[r].suggestion) /\ manager[r].suggestion # 0
    BY <1>0, <1>1, <1>2 DEF RequestInv, Holds
  <2>6. Wanted(r) \in suggestions[p] /\ Wanted(r).id = manager[r].suggestion
    BY <1>0, <2>5 DEF Wanted
  <2>7. \A s \in suggestions[p] : s.id = manager[r].suggestion => s.generation = served[p]
    BY <1>0, <1>2, <1>3, <2>6 DEF SuggestionsInv, SameIndex
  <2>8. RequestInv(r)'
    BY <1>1, <1>2, <2>2, <2>4, <2>5, <2>7 DEF RequestInv, Holds
  <2>. QED  BY <1>1, <2>3, <2>4, <2>8, RequestGoesOn
<1>4. CASE ~SameIndex(r)
  <2>1. manager' = [manager EXCEPT ![r].at = "refused"] /\ rowLock' = rowLock
    BY <1>4 DEF LockForAdoption
  <2>2. manager'[r] \in Adoption /\ manager'[r].at = "refused"
    BY <1>2, <2>1 DEF Adoption
  <2>3. manager' \in [Managers -> Adoption] /\ \A q \in Managers : q # r => manager'[q] = manager[q]
    BY <1>2, <2>1, <2>2
  <2>4. RequestInv(r)'
    BY <2>2 DEF RequestInv, Holds
  <2>. QED  BY <1>1, <1>2, <2>1, <2>3, <2>4, RequestGoesOn
<1>. QED  BY <1>3, <1>4

LEMMA CommitFloorStep ==
  ASSUME FloorInv, NEW r \in Managers, CommitFloor(r)
  PROVE  FloorInv'
<1>. USE DEF FloorInv
<1>0. PICK p, n : p = manager[r].project /\ n = manager[r].suggestion
  OBVIOUS
<1>1. /\ manager[r].at = "locked"
      /\ floor' = [floor EXCEPT ![p] = n]
      /\ suggestions' = [suggestions EXCEPT ![p] = {IF s.id = n THEN [s EXCEPT !.applied = served[p]] ELSE s : s \in @}]
      /\ trail' = trail \cup {[by |-> r, from |-> manager[r].before, to |-> n, replaced |-> floor[p]]}
      /\ rowLock' = [rowLock EXCEPT ![p] = 0]
      /\ manager' = [manager EXCEPT ![r].at = "adopted"]
      /\ UNCHANGED <<served, rebuilt, measuring, projectLine, places>>
  BY <1>0 DEF CommitFloor
<1>2. /\ manager \in [Managers -> Adoption] /\ rowLock \in [Floored -> Nat] /\ manager[r] \in Adoption
      /\ suggestions \in [Floored -> SUBSET Suggestion] /\ floor \in [Floored -> 0..MaxMeasurements]
      /\ served \in [Floored -> Nat] /\ p \in Floored
      /\ rowLock[p] = r /\ manager[r].before = floor[p]
      /\ n # 0 => \E s \in suggestions[p] : s.id = n
      /\ \A s \in suggestions[p] : s.id = n => s.generation = served[p]
  BY <1>0, <1>1 DEF FloorTypes, RequestsInv, RequestInv, Holds
<1>3. CallsInv' /\ Created' = Created
  BY <1>1, CallsStay DEF Created
<1>4. Created \in 0..MaxMeasurements
  BY CreatedIsBounded
<1>5. n \in 0..MaxMeasurements
  <2>1. \A s \in suggestions[p] : s.id \in 1..Created
    BY <1>2 DEF SuggestionsInv, SuggestionInv
  <2>. QED  BY <1>2, <1>4, <2>1, FloorAssumption
<1>6. manager'[r] \in Adoption /\ manager'[r].at = "adopted" /\ \A q \in Managers : q # r => manager'[q] = manager[q]
  BY <1>1, <1>2 DEF Adoption
<1>7. /\ rowLock'[p] = 0 /\ floor'[p] = n
      /\ \A q \in Floored : q # p => rowLock'[q] = rowLock[q] /\ floor'[q] = floor[q] /\ suggestions'[q] = suggestions[q]
      /\ suggestions'[p] = {IF s.id = n THEN [s EXCEPT !.applied = served[p]] ELSE s : s \in suggestions[p]}
  BY <1>1, <1>2
<1>8. ASSUME NEW s \in suggestions[p]
      PROVE  /\ s \in Suggestion /\ SuggestionInv(p, s)
             /\ s.id = n => LET t == [s EXCEPT !.applied = served[p]]
                            IN t \in Suggestion /\ t.id = s.id /\ t.generation = s.generation /\ SuggestionInv(p, t)
  <2>1. s \in Suggestion /\ SuggestionInv(p, s)
    BY <1>2 DEF SuggestionsInv
  <2>2. ASSUME s.id = n, NEW t, t = [s EXCEPT !.applied = served[p]]
        PROVE  t \in Suggestion /\ t.id = s.id /\ t.generation = s.generation /\ SuggestionInv(p, t)
    <3>1. t \in Suggestion /\ t.id = s.id /\ t.generation = s.generation /\ t.over = s.over /\ t.applied = served[p]
      BY <1>2, <2>1, <2>2 DEF Suggestion
    <3>2. s.over \in SUBSET Nat /\ s.generation = served[p] /\ served[p] \in Nat
      BY <1>2, <2>1, <2>2 DEF Suggestion
    <3>3. \A g \in s.over : g = served[p]
      BY <2>1, <3>2 DEF SuggestionInv
    <3>4. s.over = {served[p]}
      BY <2>1, <3>3 DEF SuggestionInv
    <3>. QED  BY <2>1, <3>1, <3>4 DEF SuggestionInv
  <2>. QED  BY <2>1, <2>2
<1>9. ASSUME NEW t \in suggestions'[p]
      PROVE  \E s \in suggestions[p] : /\ t = IF s.id = n THEN [s EXCEPT !.applied = served[p]] ELSE s
                                       /\ t \in Suggestion /\ t.id = s.id /\ t.generation = s.generation
                                       /\ SuggestionInv(p, t)
  <2>1. PICK s \in suggestions[p] : t = IF s.id = n THEN [s EXCEPT !.applied = served[p]] ELSE s
    BY <1>7
  <2>. QED  BY <1>8, <2>1
<1>10. FloorTypes'
  <2>1. suggestions' \in [Floored -> SUBSET Suggestion]
    BY <1>1, <1>2, <1>7, <1>9
  <2>2. manager' \in [Managers -> Adoption]
    BY <1>1, <1>2, <1>6
  <2>3. floor' \in [Floored -> 0..MaxMeasurements] /\ rowLock' \in [Floored -> Nat]
    BY <1>1, <1>2, <1>5
  <2>. QED  BY <1>1, <2>1, <2>2, <2>3 DEF FloorTypes
<1>11. SuggestionsInv'
  <2>1. ASSUME NEW q \in Floored, NEW s \in suggestions'[q] PROVE SuggestionInv(q, s)'
    <3>1. SuggestionInv(q, s)
      <4>1. CASE q = p
        BY <1>9, <4>1
      <4>2. CASE q # p
        BY <1>7, <4>2 DEF SuggestionsInv
      <4>. QED  BY <4>1, <4>2
    <3>. QED  BY <1>1, <1>3, <3>1 DEF SuggestionInv
  <2>2. ASSUME NEW q \in Floored, NEW s \in suggestions'[q], NEW t \in suggestions'[q], s.id = t.id PROVE s = t
    <3>1. CASE q = p
      <4>1. PICK s0 \in suggestions[p] : s = (IF s0.id = n THEN [s0 EXCEPT !.applied = served[p]] ELSE s0) /\ s.id = s0.id
        BY <1>9, <3>1
      <4>2. PICK t0 \in suggestions[p] : t = (IF t0.id = n THEN [t0 EXCEPT !.applied = served[p]] ELSE t0) /\ t.id = t0.id
        BY <1>9, <3>1
      <4>3. s0 = t0
        BY <1>2, <2>2, <4>1, <4>2 DEF SuggestionsInv
      <4>. QED  BY <4>1, <4>2, <4>3
    <3>2. CASE q # p
      BY <1>7, <2>2, <3>2 DEF SuggestionsInv
    <3>. QED  BY <3>1, <3>2
  <2>. QED  BY <2>1, <2>2 DEF SuggestionsInv
<1>12. ProbesInv'
  BY <1>1 DEF ProbesInv, ProbeInv, Serves
<1>13. RequestsInv'
  <2>1. ASSUME NEW q \in Managers, q # r PROVE RequestInv(q)'
    <3>. DEFINE o == manager[q].project
    <3>1. RequestInv(q) /\ manager'[q] = manager[q] /\ served' = served
      BY <1>1, <1>6, <2>1 DEF RequestsInv
    <3>2. CASE ~Holds(q)
      BY <3>1, <3>2 DEF RequestInv, Holds
    <3>3. CASE Holds(q) /\ o # p
      BY <1>7, <3>1, <3>3 DEF RequestInv, Holds
    <3>4. CASE Holds(q) /\ o = p
      <4>1. manager[q].at # "locked"
        BY <1>2, <2>1, <3>1, <3>4 DEF RequestInv
      <4>2. ASSUME manager[q].suggestion # 0 PROVE \E s \in suggestions'[p] : s.id = manager[q].suggestion
        <5>1. PICK s \in suggestions[p] : s.id = manager[q].suggestion
          BY <3>1, <3>4, <4>2 DEF RequestInv
        <5>2. PICK t : t = IF s.id = n THEN [s EXCEPT !.applied = served[p]] ELSE s
          OBVIOUS
        <5>3. t \in suggestions'[p] /\ t.id = s.id
          BY <1>7, <1>8, <5>2
        <5>. QED  BY <5>1, <5>3
      <4>. QED  BY <1>2, <3>1, <3>4, <4>1, <4>2 DEF RequestInv, Holds
    <3>. QED  BY <3>2, <3>3, <3>4
  <2>2. RequestInv(r)'
    BY <1>6 DEF RequestInv, Holds
  <2>. QED  BY <2>1, <2>2 DEF RequestsInv
<1>14. TrailIsTrue'
  BY <1>1, <1>2 DEF TrailIsTrue
<1>. QED  BY <1>3, <1>10, <1>11, <1>12, <1>13, <1>14

-----------------------------------------------------------------------------
LEMMA FloorStarts == FloorInit => FloorInv
<1>. SUFFICES ASSUME FloorInit PROVE FloorInv
  OBVIOUS
<1>1. \A c \in Measurements : measuring[c] = NotMeasuring
  BY DEF FloorInit
<1>2. CallTypes
  BY <1>1, FloorAssumption DEF FloorInit, CallTypes, Call, NotMeasuring
<1>3. LineInv
  BY <1>1 DEF LineInv, IsInside, NotMeasuring
<1>4. PlacesInv
  <2>1. {c \in Measurements : Takes(c)} = {}
    BY <1>1 DEF Takes, NotMeasuring
  <2>2. places.taken = 0 /\ places.line = <<>> /\ Len(<<>>) = 0
    BY DEF FloorInit
  <2>. QED  BY <2>1, <2>2, FS_EmptySet, FloorAssumption DEF PlacesInv
<1>5. FloorTypes
  BY FloorAssumption DEF FloorInit, FloorTypes, Adoption, NoManager
<1>6. SuggestionsInv /\ TrailIsTrue
  BY DEF FloorInit, SuggestionsInv, TrailIsTrue
<1>7. ProbesInv
  BY <1>1 DEF ProbesInv, ProbeInv, NotMeasuring
<1>8. RequestsInv
  BY DEF FloorInit, NoManager, RequestsInv, RequestInv, Holds
<1>. QED  BY <1>2, <1>3, <1>4, <1>5, <1>6, <1>7, <1>8 DEF FloorInv, CallsInv

LEMMA FloorSteps == FloorInv /\ [FloorNext]_floorVars => FloorInv'
<1>. SUFFICES ASSUME FloorInv, [FloorNext]_floorVars PROVE FloorInv'
  OBVIOUS
<1>1. ASSUME NEW p \in Floored, SwapIndex(p) \/ RemoveProject(p) PROVE FloorInv'
  BY <1>1, SwapIndexStep, RemoveProjectStep
<1>2. ASSUME NEW p \in Floored, NEW c \in Measurements, AskAfterRebuild(c, p) \/ AskByHand(c, p) PROVE FloorInv'
  BY <1>2, CallActions
<1>3. ASSUME NEW p \in Floored, NEW r \in Managers, LockSuggestion(r, p) \/ LockForPatch(r, p) PROVE FloorInv'
  BY <1>3, LockSuggestionStep, LockForPatchStep
<1>4. ASSUME NEW c \in Measurements, Measure(c) PROVE FloorInv'
  BY <1>4, CallActions, StoreSuggestionStep DEF Measure
<1>5. ASSUME NEW r \in Managers, LockForAdoption(r) \/ CommitFloor(r) PROVE FloorInv'
  BY <1>5, LockForAdoptionStep, CommitFloorStep
<1>6. CASE UNCHANGED floorVars
  <2>1. /\ UNCHANGED <<served, floor, rebuilt, suggestions, measuring, projectLine, places, manager, rowLock, trail>>
        /\ Created' = Created
    BY <1>6 DEF floorVars, Created
  <2>2. CallsInv'
    BY <2>1, CallsStay DEF FloorInv
  <2>3. FloorTypes' /\ SuggestionsInv' /\ ProbesInv' /\ TrailIsTrue'
    BY <2>1 DEF FloorInv, FloorTypes, SuggestionsInv, SuggestionInv, ProbesInv, ProbeInv, Serves, TrailIsTrue
  <2>4. RequestsInv'
    BY <2>1 DEF FloorInv, RequestsInv, RequestInv, Holds
  <2>. QED  BY <2>2, <2>3, <2>4 DEF FloorInv
<1>. QED  BY <1>1, <1>2, <1>3, <1>4, <1>5, <1>6 DEF FloorNext

LEMMA FloorHolds == FloorInv => FloorIsSound /\ FloorTypeOK
<1>. SUFFICES ASSUME FloorInv PROVE FloorIsSound /\ FloorTypeOK
  OBVIOUS
<1>. USE DEF FloorInv
<1>1. OperatorNeverWaits
  BY DEF CallsInv, LineInv, IsInside, OperatorNeverWaits
<1>2. AdoptedWhereMeasured
  BY DEF SuggestionsInv, SuggestionInv, AdoptedWhereMeasured
<1>3. \A p \in Floored : \A s \in suggestions[p] : s.over # {} /\ s.applied <= served[p]
  <2>1. ASSUME NEW p \in Floored, NEW s \in suggestions[p] PROVE s.over # {} /\ s.applied <= served[p]
    <3>1. SuggestionInv(p, s) /\ s.applied \in Nat /\ served[p] \in Nat
      BY DEF SuggestionsInv, FloorTypes, Suggestion
    <3>2. s.applied # 0 => s.applied \in s.over
      BY <3>1 DEF SuggestionInv
    <3>. QED  BY <3>1, <3>2 DEF SuggestionInv
  <2>. QED  BY <2>1
<1>4. FloorTypeOK
  BY <1>3 DEF FloorTypes, CallsInv, PlacesInv, Takes, FloorTypeOK
<1>. QED  BY <1>1, <1>2, <1>4 DEF FloorIsSound

\* An operator who was let in never waits, a floor is adopted only for the index all its probes
\* were asked of, and the trail says what a floor replaced, with any number of projects, calls,
\* managers, places and probes (floor-calibration.ts; setProjectScoreFloor of projects.ts).
THEOREM FloorDoesStaySound == FloorSpec => []FloorIsSound
<1>1. FloorInv /\ [FloorNext]_floorVars => FloorInv'
  BY FloorSteps
<1>. QED  BY <1>1, FloorStarts, FloorHolds, PTL DEF FloorSpec

\* The type invariant of the floor and its measurements.
THEOREM FloorTypesHold == FloorSpec => []FloorTypeOK
<1>1. FloorInv /\ [FloorNext]_floorVars => FloorInv'
  BY FloorSteps
<1>. QED  BY <1>1, FloorStarts, FloorHolds, PTL DEF FloorSpec

-----------------------------------------------------------------------------
(* The five parts together: one goes, and the others stay as they began.   *)

ServicesInv == FifoInv /\ ConvInv /\ PiiInv /\ EvalInv /\ FloorInv

LEMMA PartsGoOn ==
  ServicesInv /\ [Goes]_serviceVars =>
    [MutexNext]_mutexVars /\ [ConversionNext]_conversionVars /\ [PiiNext]_piiVars
    /\ [EvalNext]_evalVars /\ [FloorNext]_floorVars
<1>1. CASE UNCHANGED serviceVars
  BY <1>1 DEF serviceVars
<1>2. CASE Goes
  BY <1>2 DEF Goes, Mutex, Convert, Pii, Eval, Floor
<1>. QED  BY <1>1, <1>2

\* The types of the five parts, whichever goes.
THEOREM ServicesTypesHold == Services => []ServicesTypeOK
<1>1. Begins => ServicesInv
  BY FifoInit, ConversionStarts, PiiStarts, EvalStarts, FloorStarts DEF Begins, ServicesInv
<1>2. ServicesInv /\ [Goes]_serviceVars => ServicesInv'
  <2>1. SUFFICES ASSUME ServicesInv, [Goes]_serviceVars PROVE ServicesInv'
    OBVIOUS
  <2>2. [MutexNext]_mutexVars /\ [ConversionNext]_conversionVars /\ [PiiNext]_piiVars
        /\ [EvalNext]_evalVars /\ [FloorNext]_floorVars
    BY <2>1, PartsGoOn
  <2>. QED  BY <2>1, <2>2, FifoStep, ConversionSteps, PiiSteps, EvalSteps, FloorSteps DEF ServicesInv
<1>3. ServicesInv => ServicesTypeOK
  BY ConversionHolds, PiiTypesAre, EvalHolds, FloorHolds DEF ServicesInv, ServicesTypeOK, FifoInv
<1>. QED  BY <1>1, <1>2, <1>3, PTL DEF Services

\* The safety half of ImplementsFifoLock, of the specification TLC checks it of.
THEOREM ServicesKeepTheLock == Services => Lock!InTurn
<1>1. Begins => MutexInit
  BY DEF Begins
<1>2. [Goes]_serviceVars => [MutexNext]_mutexVars
  BY DEF serviceVars, Goes, Mutex, Convert, Pii, Eval, Floor
<1>3. Services => MutexSpec
  BY <1>1, <1>2, PTL DEF Services, MutexSpec
<1>. QED  BY <1>3, MutexIsALock
=============================================================================
