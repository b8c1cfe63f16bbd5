---------------------------- MODULE ServedIndex ----------------------------
(***************************************************************************)
(* What the index of a project promises the clients connected to it,       *)
(* whatever runs, fails and crashes behind it:                             *)
(*                                                                         *)
(*   what is served changes in whole steps, from one set of documents to   *)
(*   another, and the very step that changes it records what changed;      *)
(*   nothing is recorded that did not happen, except that a document both  *)
(*   before and after may be called modified when its text was cut.        *)
(*                                                                         *)
(* Module IndexRun implements it.                                          *)
(***************************************************************************)
EXTENDS DocumentChanges, TLAPS

CONSTANT Docs  \* the paths documents can have

VARIABLES
  served,    \* what the document of each path says, NoText if there is none
  changes,   \* the recorded changes
  baseline   \* what was served at the moment asked about, `since`

vars == <<served, changes, baseline>>

Said == Texts \cup {NoText}

Init ==
  /\ served = [d \in Docs |-> NoText]
  /\ changes = [d \in Docs |-> NoChange]
  /\ baseline = [d \in Docs |-> NoText]

\* What the step from served to served' does to the row of a document.
RecordOf(d, doubted) ==
  CASE served[d] = NoText /\ served'[d] # NoText -> Recorded(changes[d], "added", TRUE)
    [] served[d] # NoText /\ served'[d] = NoText -> Recorded(changes[d], "removed", TRUE)
    [] served[d] # served'[d] /\ served[d] # NoText /\ served'[d] # NoText
         -> Recorded(changes[d], "modified", TRUE)
    [] served[d] = served'[d] /\ d \in doubted -> Recorded(changes[d], "modified", TRUE)
    [] OTHER -> changes[d]

Publish ==
  /\ served' \in [Docs -> Said]
  /\ \E doubted \in SUBSET {d \in Docs : served[d] \in Truncated} :
       changes' = [d \in Docs |-> RecordOf(d, doubted)]
  /\ UNCHANGED baseline

\* A client looks at the index and will ask what is new since then.
Look ==
  /\ baseline' = served
  /\ changes' = [d \in Docs |-> Aged(changes[d])]
  /\ UNCHANGED served

Next == Publish \/ Look

Spec == Init /\ [][Next]_vars
-----------------------------------------------------------------------------
TypeOK ==
  /\ served \in [Docs -> Said]
  /\ changes \in [Docs -> Change]
  /\ baseline \in [Docs -> Said]

\* What whats_new answers is true: a document it calls added or modified is
\* served, one it calls removed is not, one it calls modified or removed was
\* there at `since`, and a document that is served and that it does not
\* mention says what it said then.
WhatsNewIsTrue ==
  \A d \in Docs :
    LET answer == Classified(changes[d])
    IN /\ answer \in {"added", "modified"} => served[d] # NoText
       /\ answer = "removed" => served[d] = NoText
       /\ answer \in {"modified", "removed"} => baseline[d] # NoText
       /\ answer = "none" /\ served[d] # NoText => served[d] = baseline[d]

-----------------------------------------------------------------------------
(* The answer is true because every row keeps the truth of its document: a *)
(* recent one tells whether it is served, and a document without one is as *)
(* it was.  WhatsNewIsTrue alone is not inductive: it says nothing of what *)
(* is not reported.                                                        *)

RowTrue(d) ==
  /\ changes[d] \in Change
  /\ changes[d].recent =>
       /\ changes[d].change # "none"
       /\ changes[d].change = "removed" <=> served[d] = NoText
       /\ changes[d].fresh \/ baseline[d] # NoText
  /\ ~changes[d].recent => served[d] = baseline[d] /\ ~changes[d].fresh

Truth == \A d \in Docs : RowTrue(d)

LEMMA RecordedRow ==
  ASSUME NEW row \in Change, NEW kind \in Kinds
  PROVE  /\ Recorded(row, kind, TRUE) \in Change
         /\ Recorded(row, kind, TRUE).recent
         /\ Recorded(row, kind, TRUE).change = kind
         /\ kind = "added" \/ row.fresh => Recorded(row, kind, TRUE).fresh
BY DEF Recorded, Change, Kinds

LEMMA PublishKeepsTruth == ASSUME Truth, Publish PROVE Truth'
<1> SUFFICES ASSUME NEW d \in Docs PROVE RowTrue(d)'
  BY DEF Truth
<1>1. RowTrue(d) /\ changes[d] \in Change
  BY DEF Truth, RowTrue
<1>2. PICK doubted \in SUBSET {e \in Docs : served[e] \in Truncated} :
        changes' = [e \in Docs |-> RecordOf(e, doubted)]
  BY DEF Publish
<1>3. changes'[d] = RecordOf(d, doubted) /\ UNCHANGED baseline
  BY <1>2 DEF Publish
<1>4. d \in doubted => served[d] # NoText
  BY <1>2, TextsAssumption
<1>5. ASSUME NEW kind \in Kinds, changes'[d] = Recorded(changes[d], kind, TRUE),
             kind = "removed" <=> served'[d] = NoText,
             kind = "added" \/ served[d] # NoText
      PROVE  RowTrue(d)'
  <2>1. /\ changes'[d] \in Change /\ changes'[d].recent /\ changes'[d].change = kind
        /\ kind = "added" \/ changes[d].fresh => changes'[d].fresh
    <3>1. /\ Recorded(changes[d], kind, TRUE) \in Change
          /\ Recorded(changes[d], kind, TRUE).recent
          /\ Recorded(changes[d], kind, TRUE).change = kind
          /\ kind = "added" \/ changes[d].fresh => Recorded(changes[d], kind, TRUE).fresh
      BY <1>1, <1>5, RecordedRow
    <3> QED
      BY <1>5, <3>1
  <2>2. changes'[d].fresh \/ baseline'[d] # NoText
    BY <1>1, <1>3, <1>5, <2>1 DEF RowTrue
  <2> QED
    BY <1>5, <2>1, <2>2 DEF RowTrue, Kinds
<1>6. CASE served[d] = NoText /\ served'[d] # NoText
  <2>1. changes'[d] = Recorded(changes[d], "added", TRUE)
    BY <1>3, <1>6 DEF RecordOf
  <2> QED
    BY <1>5, <1>6, <2>1 DEF Kinds
<1>7. CASE served[d] # NoText /\ served'[d] = NoText
  <2>1. changes'[d] = Recorded(changes[d], "removed", TRUE)
    BY <1>3, <1>7 DEF RecordOf
  <2> QED
    BY <1>5, <1>7, <2>1 DEF Kinds
<1>8. CASE \/ served[d] # served'[d] /\ served[d] # NoText /\ served'[d] # NoText
           \/ served[d] = served'[d] /\ d \in doubted
  <2>1. changes'[d] = Recorded(changes[d], "modified", TRUE) /\ served'[d] # NoText
    BY <1>3, <1>4, <1>8 DEF RecordOf
  <2> QED
    BY <1>4, <1>5, <1>8, <2>1 DEF Kinds
<1>9. CASE served[d] = served'[d] /\ d \notin doubted
  <2>1. changes'[d] = changes[d]
    BY <1>3, <1>9 DEF RecordOf
  <2> QED
    BY <1>1, <1>3, <1>9, <2>1 DEF RowTrue
<1> QED
  BY <1>6, <1>7, <1>8, <1>9

LEMMA LookKeepsTruth == ASSUME Truth, Look PROVE Truth'
<1> SUFFICES ASSUME NEW d \in Docs PROVE RowTrue(d)'
  BY DEF Truth
<1>1. changes[d] \in Change /\ changes'[d] = Aged(changes[d])
  BY DEF Truth, RowTrue, Look
<1>2. served'[d] = served[d] /\ baseline'[d] = served[d]
  BY DEF Look
<1> QED
  BY <1>1, <1>2 DEF RowTrue, Aged, Change

\* What whats_new answers is true, of every index that keeps this promise
\* (document-changes.ts, listDocumentChanges).
THEOREM AnswersAreTrue == Spec => []WhatsNewIsTrue
<1>1. Init => Truth
  BY DEF Init, Truth, RowTrue, NoChange, Change
<1>2. Truth /\ [Next]_vars => Truth'
  <2>1. Truth /\ UNCHANGED vars => Truth'
    BY DEF Truth, RowTrue, vars
  <2> QED
    BY <2>1, PublishKeepsTruth, LookKeepsTruth DEF Next
<1>3. Truth => WhatsNewIsTrue
  BY DEF Truth, RowTrue, WhatsNewIsTrue, Classified
<1> QED
  BY <1>1, <1>2, <1>3, PTL DEF Spec
=============================================================================
