-------------------------- MODULE DocumentChanges --------------------------
(***************************************************************************)
(* services/document-changes.ts: the row table document_changes keeps of   *)
(* one path, how a change of the index is recorded in it, and how the      *)
(* whats_new tool reads it back for a point in time.                       *)
(*                                                                         *)
(* Time is seen from one moment, the caller's `since`: a timestamp is      *)
(* either after it or not.  recent says it of changed_at, fresh of         *)
(* added_at; an added_at that is NULL is not fresh.                        *)
(***************************************************************************)

CONSTANTS
  Texts,      \* texts of documents
  Truncated,  \* the texts too long to be stored whole
  NoText      \* what a document says that is not there

ASSUME TextsAssumption == Truncated \subseteq Texts /\ NoText \notin Texts

Kinds == {"added", "modified", "removed"}
Change == [change : Kinds \cup {"none"}, recent : BOOLEAN, fresh : BOOLEAN]

\* No row of the path.
NoChange == [change |-> "none", recent |-> FALSE, fresh |-> FALSE]

\* Mutant: a path that has a row keeps it (ON CONFLICT DO NOTHING).
RecordedOnce(row, kind, recent) ==
  IF row.change = "none"
  THEN [change |-> kind, recent |-> recent, fresh |-> kind = "added" /\ recent] ELSE row

\* The upsert: only an addition moves added_at.  now() is the moment the
\* transaction began, and recent says whether that was after `since`.
Recorded(row, kind, recent) ==
  [change |-> kind, recent |-> recent, fresh |-> IF kind = "added" THEN recent ELSE row.fresh]

\* The same row, seen from a moment after everything it holds.
Aged(row) == [row EXCEPT !.recent = FALSE, !.fresh = FALSE]

\* classifyChange: what the row is reported as, "none" when it is not.
Classified(row) ==
  IF ~row.recent THEN "none"
  ELSE IF row.fresh THEN IF row.change = "removed" THEN "none" ELSE "added"
  ELSE row.change

\* textProvesEqual and isModified.  A text that was cut proves nothing, and
\* then a difference of the file's bytes is reported.
TextProvesEqual(a, b) == a = b /\ a \notin Truncated
IsModified(hashBefore, textBefore, hashAfter, textAfter) ==
  hashBefore # hashAfter /\ ~TextProvesEqual(textBefore, textAfter)
=============================================================================
