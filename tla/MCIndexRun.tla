----------------------------- MODULE MCIndexRun -----------------------------
(* IndexRun for TLC.  The instance MC is a source with one plain file and a  *)
(* source with one OpenAPI file of two operations; the instance One is the   *)
(* plain file alone, for longer histories.                                   *)
EXTENDS IndexRun

MCSources == {"notes", "api"}
MCFiles == {"n", "spec"}
MCSourceOf == [f \in MCFiles |-> IF f = "n" THEN "notes" ELSE "api"]
MCSpecs == {"spec"}
MCDocs == {"n", "get", "put"}
MCFileOf == [d \in MCDocs |-> IF d = "n" THEN "n" ELSE "spec"]
MCContents == {"c1", "c2"}
MCTexts == {"x", "y", "long", "empty"}

\* The second content of the specification loses one operation and leaves the
\* other as it was; the second content of the plain file yields nothing.
MCRendering ==
  [f \in MCFiles |-> [c \in MCContents |->
     IF f = "n" THEN [d \in {"n"} |-> IF c = "c1" THEN "x" ELSE "empty"]
     ELSE IF c = "c1" THEN [d \in {"get", "put"} |-> IF d = "get" THEN "x" ELSE "y"]
     ELSE [d \in {"get"} |-> "x"]]]

OneSources == {"notes"}
OneFiles == {"n"}
OneSourceOf == [f \in OneFiles |-> "notes"]
OneFileOf == [d \in OneFiles |-> "n"]
OneContents == {"c1", "c2", "c3", "c4"}

\* Two short contents, and two whose text is cut at the same place.
OneRendering ==
  [f \in OneFiles |-> [c \in OneContents |-> [d \in {"n"} |->
     CASE c = "c1" -> "x" [] c = "c2" -> "y" [] OTHER -> "long"]]]

\* Each source begins with the same settings: those of two sources never meet.
MCInit == Init /\ settings = [s \in Sources |-> CHOOSE v \in Settings : TRUE]
MCSpec == MCInit /\ [][Next]_vars
=============================================================================
